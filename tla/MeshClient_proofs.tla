-------------------------- MODULE MeshClient_proofs --------------------------
(***************************************************************************)
(* Proofs about TailscaleClient as a user of the pool, for every set of    *)
(* callers, spaces and clients and any number of Disconnects: what the     *)
(* client alone keeps (MeshFlowInv), the pool's base invariant in the      *)
(* composition (PoolMeshInv), and that one Disconnect takes nobody else's  *)
(* client away (OwedInv).                                                  *)
(***************************************************************************)
EXTENDS MeshClient, SpaceApiClients_proofs

-----------------------------------------------------------------------------
(* What the client alone keeps *)

\* The initial state satisfies the flow invariant.
LEMMA InitFlow == MeshInit => MeshFlowInv
<1> SUFFICES ASSUME MeshInit
             PROVE  MeshFlowInv
  OBVIOUS
<1> USE DEF MeshInit
<1>1. MeshTypeOK
  <2>1. disconnects \in 0..MaxDisconnects /\ late \in 0..MaxLate
    BY MeshAssumption
  <2>2. QED
    BY <2>1 DEF MeshTypeOK, States
<1>2. FlowInv
  BY DEF FlowInv, ExitSteps, cancelled
<1>3. ConnectedMeansReached /\ DefaultRouteLast /\ OnlyOverlapLeaves
  BY DEF ConnectedMeansReached, DefaultRouteLast, OnlyOverlapLeaves, cancelled
<1>4. QED
  BY <1>1, <1>2, <1>3 DEF MeshFlowInv

\* A step that leaves the client's own variables alone keeps the invariant.
LEMMA SameFlow == MeshFlowInv /\ UNCHANGED meshVars => MeshFlowInv'
BY DEF MeshFlowInv, MeshTypeOK, FlowInv, ConnectedMeansReached, DefaultRouteLast,
       OnlyOverlapLeaves, States, ExitSteps, cancelled, meshVars, network

\* A Connect that begins after a Disconnect was called is a late one.
LEMMA ConnectFlow ==
  ASSUME MeshFlowInv, NEW sp \in Spaces, NEW viaSpace \in BOOLEAN,
         Connect(sp, viaSpace)
  PROVE  MeshFlowInv'
<1> USE DEF MeshFlowInv, ExitSteps
<1>1. /\ conn = "none" /\ conn' = "get" /\ egress' \in BOOLEAN
      /\ late' \in 0..MaxLate /\ (cancelled => late' > 0)
      /\ UNCHANGED <<disc, connState, waitForExitNode, up, reached, disconnects, net,
                     overlap>>
  BY MeshAssumption DEF Connect, MeshTypeOK
<1>2. MeshTypeOK'
  BY <1>1 DEF MeshTypeOK, States
<1>3. FlowInv'
  BY <1>1 DEF FlowInv, MeshTypeOK, cancelled
<1>4. ConnectedMeansReached' /\ DefaultRouteLast' /\ OnlyOverlapLeaves'
  BY <1>1 DEF FlowInv, ConnectedMeansReached, DefaultRouteLast, OnlyOverlapLeaves, cancelled
<1>5. QED
  BY <1>2, <1>3, <1>4

\* Getting the client changes nothing but the step.
LEMMA GotFlow ==
  ASSUME MeshFlowInv, GotClient \/ GotNoClient
  PROVE  MeshFlowInv'
<1> USE DEF MeshFlowInv, ExitSteps, network
<1>1. /\ conn = "get" /\ conn' \in {"authKey", "none"}
      /\ waitForExitNode' \in BOOLEAN /\ (waitForExitNode' => waitForExitNode)
      /\ egress' \in BOOLEAN
      /\ UNCHANGED <<disc, connState, up, reached, disconnects, net, overlap, late>>
  <2>1. CASE GotClient
    BY <2>1 DEF GotClient, MeshTypeOK
  <2>2. CASE GotNoClient
    BY <2>2 DEF GotNoClient, ReturnFromConnect
  <2>3. QED
    BY <2>1, <2>2
<1>2. MeshTypeOK'
  BY <1>1 DEF MeshTypeOK
<1>3. FlowInv'
  BY <1>1 DEF FlowInv, MeshTypeOK, cancelled
<1>4. ConnectedMeansReached' /\ DefaultRouteLast' /\ OnlyOverlapLeaves'
  BY <1>1 DEF ConnectedMeansReached, DefaultRouteLast, OnlyOverlapLeaves, cancelled
<1>5. QED
  BY <1>2, <1>3, <1>4

\* A login begins disconnected and knows whether it has to wait.
LEMMA GotAuthKeyFlow ==
  ASSUME MeshFlowInv, GotAuthKey
  PROVE  MeshFlowInv'
BY DEF GotAuthKey, MeshFlowInv, MeshTypeOK, FlowInv, ConnectedMeansReached,
       DefaultRouteLast, OnlyOverlapLeaves, ExitSteps, States, cancelled, network

\* A failure leaves at most the step it failed in: the routes before it are
\* there, and nothing is configured after a Disconnect.
LEMMA ConnectFailsFlow ==
  ASSUME MeshFlowInv, ConnectFails
  PROVE  MeshFlowInv'
<1> USE DEF ConnectFails, ReturnFromConnect, PartOf, Fallible, ExitSteps, MeshFlowInv
<1>1. /\ net' \subseteq net \cup ({conn} \cap ({"dns"} \cup ExitSteps))
      /\ net \subseteq net'
  OBVIOUS
<1>2. MeshTypeOK'
  BY <1>1 DEF MeshTypeOK, States
<1>3. FlowInv' /\ ConnectedMeansReached'
  BY DEF FlowInv, ConnectedMeansReached, cancelled
<1>4. DefaultRouteLast'
  BY <1>1 DEF DefaultRouteLast, FlowInv
<1>5. OnlyOverlapLeaves'
  BY <1>1 DEF OnlyOverlapLeaves, FlowInv, cancelled
<1>6. QED
  BY <1>2, <1>3, <1>4, <1>5

\* A login that waits for the user is not connected.
LEMMA LoginPromptFlow ==
  ASSUME MeshFlowInv, NEW state \in {"Authenticating", "Authorizing"},
         LoginPrompt(state)
  PROVE  MeshFlowInv'
BY DEF LoginPrompt, MeshFlowInv, MeshTypeOK, FlowInv, ConnectedMeansReached,
       DefaultRouteLast, OnlyOverlapLeaves, ExitSteps, States, cancelled, network

\* "Success" of a login through the space waits for the exit node.
LEMMA LoggedInFlow ==
  ASSUME MeshFlowInv, LoggedIn
  PROVE  MeshFlowInv'
BY DEF LoggedIn, MeshFlowInv, MeshTypeOK, FlowInv, ConnectedMeansReached,
       DefaultRouteLast, OnlyOverlapLeaves, ExitSteps, States, cancelled, network

\* DNS is configured before any route.
LEMMA ConfiguredDNSFlow ==
  ASSUME MeshFlowInv, ConfiguredDNS
  PROVE  MeshFlowInv'
BY DEF ConfiguredDNS, ReturnFromConnect, MeshFlowInv, MeshTypeOK, FlowInv,
       ConnectedMeansReached, DefaultRouteLast, OnlyOverlapLeaves, ExitSteps,
       States, cancelled

\* The exit node has answered before its routes are set up.
LEMMA PingedFlow ==
  ASSUME MeshFlowInv, Pinged
  PROVE  MeshFlowInv'
BY DEF Pinged, ReturnFromConnect, MeshFlowInv, MeshTypeOK, FlowInv,
       ConnectedMeansReached, DefaultRouteLast, OnlyOverlapLeaves, ExitSteps,
       States, cancelled, network

\* Each step of configureExitNode finds what the one before has set up.
LEMMA ExitStepFlow ==
  ASSUME MeshFlowInv, ExitStep
  PROVE  MeshFlowInv'
<1> USE DEF ExitStep, ReturnFromConnect, MeshFlowInv, ExitSteps
<1>1. /\ conn = "defaultRoute" => conn' = "none" /\ connState' = "Connected"
      /\ conn # "defaultRoute" =>
           conn' = AfterExitStep[conn] /\ UNCHANGED <<connState, waitForExitNode>>
      /\ conn = "ipv6Off" => conn' = "endpointRoutes"
      /\ conn = "endpointRoutes" => conn' = "splitRoutes"
      /\ conn = "splitRoutes" => conn' = "defaultRoute"
  BY DEF AfterExitStep
<1>2. MeshTypeOK'
  <2>1. egress' \in BOOLEAN /\ waitForExitNode' \in BOOLEAN
    BY DEF MeshTypeOK
  <2>2. UNCHANGED <<disc, up, reached, disconnects, overlap, late>>
    OBVIOUS
  <2>3. waitForExitNode' => conn' \in ExitSteps
    BY <1>1 DEF MeshTypeOK
  <2>4. net' \subseteq {"dns"} \cup ExitSteps
    BY DEF MeshTypeOK
  <2>5. conn' \in {"none"} \cup ExitSteps /\ connState' \in States
    BY <1>1 DEF MeshTypeOK, States
  <2>6. QED
    BY <2>1, <2>2, <2>3, <2>4, <2>5 DEF MeshTypeOK
<1>3. FlowInv' /\ ConnectedMeansReached'
  BY <1>1 DEF FlowInv, ConnectedMeansReached, cancelled
<1>4. DefaultRouteLast' /\ OnlyOverlapLeaves'
  BY <1>1 DEF DefaultRouteLast, OnlyOverlapLeaves, FlowInv, cancelled
<1>5. QED
  BY <1>2, <1>3, <1>4

\* A Disconnect that comes while Connect runs is an overlap.
LEMMA DisconnectFlow ==
  ASSUME MeshFlowInv, Disconnect
  PROVE  MeshFlowInv'
<1> USE DEF MeshFlowInv, ExitSteps
<1>1. /\ disc = "none" /\ disc' = "test"
      /\ disconnects' \in 0..MaxDisconnects /\ disconnects' > 0
      /\ overlap' \in BOOLEAN /\ (~overlap' => ~overlap /\ conn = "none")
      /\ late' \in 0..MaxLate
      /\ UNCHANGED <<conn, connState, waitForExitNode, egress, up, reached, net>>
  <2>1. /\ disc = "none" /\ disc' = "test"
        /\ UNCHANGED <<conn, connState, waitForExitNode, egress, up, reached, net>>
    BY DEF Disconnect
  <2>2. /\ disconnects \in 0..MaxDisconnects /\ disconnects < MaxDisconnects
        /\ disconnects' = disconnects + 1
    BY DEF Disconnect, MeshTypeOK
  <2>3. disconnects' \in 0..MaxDisconnects /\ disconnects' > 0
    BY <2>2, MeshAssumption
  <2>4. overlap \in BOOLEAN /\ overlap' = (overlap \/ conn # "none")
    BY DEF Disconnect, MeshTypeOK
  <2>5. overlap' \in BOOLEAN /\ (~overlap' => ~overlap /\ conn = "none")
    BY <2>4
  <2>6. late' \in 0..MaxLate
    BY MeshAssumption DEF Disconnect
  <2>7. QED
    BY <2>1, <2>3, <2>5, <2>6
<1>2. MeshTypeOK'
  BY <1>1 DEF MeshTypeOK
<1>3. FlowInv'
  BY <1>1 DEF FlowInv, cancelled
<1>4. ConnectedMeansReached' /\ DefaultRouteLast' /\ OnlyOverlapLeaves'
  BY <1>1 DEF ConnectedMeansReached, DefaultRouteLast, OnlyOverlapLeaves, cancelled
<1>5. QED
  BY <1>2, <1>3, <1>4

\* Disconnect clears what is configured whatever became of the shutdown.
LEMMA ClearingFlow ==
  ASSUME MeshFlowInv, DisconnectStep
  PROVE  MeshFlowInv'
<1> USE DEF MeshFlowInv, ExitSteps
<1>1. /\ disc # "none"
      /\ disc' \in {"read", "nil", "release", "down", "clear", "dead", "none"}
      /\ up' \in {up, "no"}
      /\ IF disc' = "none" THEN net' = {} ELSE net' = net
      /\ UNCHANGED <<conn, connState, waitForExitNode, egress, reached, disconnects,
                     overlap, late>>
  <2>1. CASE TestClient \/ ReadClient \/ Panic
    BY <2>1 DEF TestClient, ReadClient, Panic, network
  <2>2. CASE Released \/ Down \/ Clear
    BY <2>2 DEF Released, Down, Clear, network
  <2>3. QED
    BY <2>1, <2>2 DEF DisconnectStep
<1>2. MeshTypeOK'
  BY <1>1 DEF MeshTypeOK
<1>3. FlowInv'
  BY <1>1 DEF FlowInv, cancelled
<1>4. ConnectedMeansReached' /\ DefaultRouteLast' /\ OnlyOverlapLeaves'
  BY <1>1 DEF ConnectedMeansReached, DefaultRouteLast, OnlyOverlapLeaves, cancelled
<1>5. QED
  BY <1>2, <1>3, <1>4

\* Every step keeps the flow invariant.
LEMMA NextFlow == MeshFlowInv /\ [MeshNext]_allVars => MeshFlowInv'
<1> SUFFICES ASSUME MeshFlowInv, [MeshNext]_allVars
             PROVE  MeshFlowInv'
  OBVIOUS
<1>1. CASE UNCHANGED allVars
  BY <1>1, SameFlow DEF allVars
<1>2. CASE PoolStep
  BY <1>2, SameFlow DEF PoolStep
<1>3. CASE ConnectStep
  BY <1>3, GotFlow, GotAuthKeyFlow, ConnectFailsFlow, LoginPromptFlow, LoggedInFlow,
     ConfiguredDNSFlow, PingedFlow, ExitStepFlow
     DEF ConnectStep
<1>4. CASE \E sp \in Spaces, viaSpace \in BOOLEAN : Connect(sp, viaSpace)
  BY <1>4, ConnectFlow
<1>5. CASE Disconnect \/ DisconnectStep
  BY <1>5, DisconnectFlow, ClearingFlow
<1>6. QED
  BY <1>1, <1>2, <1>3, <1>4, <1>5 DEF MeshNext

-----------------------------------------------------------------------------
(* The pool's base invariant in the composition *)

\* A step of the pool, by the caller that takes it.
PoolStepOf(c) ==
  \/ LockGet(c) \/ LockPut(c) \/ Inside(c)
  \/ c \notin {Mesh, Hangup} /\ (CallRelease(c) \/ \E sp \in Spaces : CallGet(c, sp))

\* Connect and Disconnect are two different callers of the pool.
LEMMA Roles ==
  /\ Mesh \in Callers /\ Hangup \in Callers /\ Mesh # Hangup
  /\ Mesh \in Careless /\ Hangup \in Careless
BY MeshAssumption, ConstantsAssumption

\* The initial state satisfies the invariant of the composition.
LEMMA InitPoolMesh == MeshInit => PoolMeshInv
BY InitBase, Roles
   DEF MeshInit, Init, PoolMeshInv, RoleInv, PointerInv

\* In a step of the pool only the caller that takes it moves, and the
\* TailscaleClient's two calls keep to their roles.
LEMMA PoolRole ==
  ASSUME PoolMeshInv, NEW c \in Callers, PoolStepOf(c), UNCHANGED meshVars
  PROVE  RoleInv'
<1> USE Roles DEF PoolMeshInv, BaseInv, TypeOK, RoleInv, Goto, meshVars
<1>1. CASE c \notin {Mesh, Hangup}
  <2>1. \E point : pc' = [pc EXCEPT ![c] = point]
    BY DEF PoolStepOf, LockGet, LockPut, Inside, CallRelease, CallGet, Lookup, Create,
           CreateFailed, Share, Authenticated, TimedOut, Find, FindNothing, Drop, Stop,
           Lower, Return
  <2>2. QED
    BY <1>1, <2>1
<1>2. CASE LockGet(c) \/ LockPut(c)
  BY <1>2 DEF LockGet, LockPut
<1>3. CASE Lookup(c) \/ CreateFailed(c) \/ Share(c) \/ Authenticated(c) \/ TimedOut(c)
  BY <1>3 DEF Lookup, CreateFailed, Share, Authenticated, TimedOut
<1>4. CASE \E cl \in Clients : Create(c, cl)
  BY <1>4 DEF Create
<1>5. CASE Find(c) \/ Drop(c)
  BY <1>5 DEF Find, Drop
<1>6. CASE c \in {Mesh, Hangup} /\ (FindNothing(c) \/ Stop(c) \/ Lower(c))
  BY <1>6 DEF FindNothing, Stop, Lower, Return
<1>7. QED
  BY <1>1, <1>2, <1>3, <1>4, <1>5, <1>6 DEF PoolStepOf, Inside

\* Get hands out a client made for a space, and a new client is one that no
\* pointer leads to.
LEMMA PoolPointer ==
  ASSUME PoolMeshInv, NEW c \in Callers, PoolStepOf(c)
  PROVE  PointerInv'
<1> USE DEF PoolMeshInv, BaseInv, TypeOK, PointerInv
<1>1. CASE LockGet(c) \/ LockPut(c) \/ CallRelease(c) \/ \E sp \in Spaces : CallGet(c, sp)
  BY <1>1 DEF LockGet, LockPut, CallRelease, CallGet
<1>2. CASE Lookup(c) \/ Share(c) \/ Find(c) \/ Drop(c)
  BY <1>2 DEF Lookup, Share, Find, Drop
<1>3. CASE CreateFailed(c) \/ TimedOut(c)
  BY <1>3 DEF CreateFailed, TimedOut
<1>4. CASE FindNothing(c) \/ Stop(c) \/ Lower(c)
  BY <1>4 DEF FindNothing, Stop, Lower, Return
<1>5. CASE Authenticated(c)
  <2>1. ref[c] \in Clients /\ node[ref[c]] \in Spaces
    BY <1>5, ConstantsAssumption DEF Authenticated, RefInv, ArgumentInv, PoolInv
  <2>2. QED
    BY <1>5, <2>1 DEF Authenticated
<1>6. CASE \E cl \in Clients : Create(c, cl)
  BY <1>6 DEF Create, Fresh
<1>7. QED
  BY <1>1, <1>2, <1>3, <1>4, <1>5, <1>6 DEF PoolStepOf, Inside

\* Steps of the pool keep the invariant of the composition.
LEMMA PoolStepPoolMesh ==
  ASSUME PoolMeshInv, NEW c \in Callers, PoolStepOf(c), UNCHANGED meshVars
  PROVE  PoolMeshInv'
<1>1. Next
  BY DEF PoolStepOf, Next
<1>2. BaseInv'
  BY <1>1, NextBase DEF PoolMeshInv
<1>3. QED
  BY <1>2, PoolRole, PoolPointer DEF PoolMeshInv

\* Connect calls Get, whether or not it has a client.
LEMMA ConnectPoolMesh ==
  ASSUME PoolMeshInv, NEW sp \in Spaces, NEW viaSpace \in BOOLEAN,
         Connect(sp, viaSpace)
  PROVE  PoolMeshInv'
<1> USE Roles
<1>1. BaseInv'
  BY CallGetBase, CallGetAgainBase DEF Connect, PoolMeshInv
<1>2. RoleInv' /\ PointerInv'
  BY DEF Connect, CallGet, CallGetAgain, Goto, PoolMeshInv, BaseInv, TypeOK, RoleInv,
         PointerInv
<1>3. QED
  BY <1>1, <1>2 DEF PoolMeshInv

\* Disconnect calls Release with Connect's pointer, whatever it leads to.
LEMMA ReadClientPoolMesh ==
  ASSUME PoolMeshInv, ReadClient
  PROVE  PoolMeshInv'
<1> USE Roles, ConstantsAssumption DEF PoolMeshInv, BaseInv, TypeOK
<1>1. CASE client[Mesh] = None
  BY <1>1
     DEF ReadClient, MutexInv, PoolInv, RunningInv, ArgumentInv, RefInv,
         RunningIsPooled, RoleInv, PointerInv, Entry
<1>2. CASE client[Mesh] # None
  <2>1. /\ disc = "read" /\ disc' = "release" /\ pc[Hangup] = "idle"
        /\ pc' = [pc EXCEPT ![Hangup] = "putLock"]
        /\ client' = [client EXCEPT ![Hangup] = client[Mesh]]
        /\ UNCHANGED <<mutex, pool, refCount, node, running, space, ref, abandoned, conn>>
    BY <1>2 DEF ReadClient, Goto, RoleInv
  <2>2. client[Mesh] \in Clients /\ node[client[Mesh]] \in Spaces
    BY <1>2 DEF PointerInv
  <2>3. TypeOK' /\ MutexInv'
    BY <2>1, <2>2 DEF MutexInv, Points, Critical, Leased
  <2>4. PoolInv' /\ RunningInv' /\ RunningIsPooled'
    BY <2>1 DEF PoolInv, RunningInv, RunningIsPooled
  <2>5. ArgumentInv'
    BY <2>1, <2>2 DEF ArgumentInv, Leased
  <2>6. RefInv'
    BY <2>1 DEF RefInv, Entry
  <2>7. RoleInv' /\ PointerInv'
    BY <2>1, <2>2 DEF RoleInv, PointerInv
  <2>8. QED
    BY <2>3, <2>4, <2>5, <2>6, <2>7
<1>3. QED
  BY <1>1, <1>2

\* When Release has returned, Disconnect lets go of its pointer, and Connect,
\* if it had the same one, is left with one that was released.
LEMMA ReleasedPoolMesh ==
  ASSUME PoolMeshInv, Released
  PROVE  PoolMeshInv'
<1> USE Roles, ConstantsAssumption DEF PoolMeshInv, BaseInv, TypeOK
<1>1. /\ disc = "release" /\ disc' = "down" /\ pc[Hangup] = "kept"
      /\ pc'[Hangup] = "idle"
      /\ (pc'[Mesh] = pc[Mesh] \/ (pc[Mesh] = "use" /\ pc'[Mesh] = "kept"))
      /\ \A c \in Callers \ {Mesh, Hangup} : pc'[c] = pc[c]
      /\ pc' \in [Callers -> Points]
      /\ client' = [client EXCEPT ![Hangup] = None]
      /\ UNCHANGED <<mutex, pool, refCount, node, running, space, ref, abandoned, conn>>
  BY DEF Released, Points
<1>2. TypeOK' /\ MutexInv'
  BY <1>1 DEF MutexInv, Points, Critical, Leased
<1>3. PoolInv' /\ RunningInv'
  BY <1>1 DEF PoolInv, RunningInv
<1>4. RunningIsPooled'
  BY <1>1 DEF RunningIsPooled
<1>5. ArgumentInv'
  BY <1>1 DEF ArgumentInv, Leased
<1>6. RefInv'
  BY <1>1 DEF RefInv, Entry
<1>7. RoleInv' /\ PointerInv'
  BY <1>1 DEF RoleInv, PointerInv
<1>8. QED
  BY <1>2, <1>3, <1>4, <1>5, <1>6, <1>7

\* Steps that leave the pool alone do not begin or end a Release.
LEMMA SamePoolMesh ==
  ASSUME PoolMeshInv, UNCHANGED <<vars, conn>>, disc' = "release" <=> disc = "release"
  PROVE  PoolMeshInv'
BY DEF PoolMeshInv, BaseInv, TypeOK, MutexInv, PoolInv, RunningInv, ArgumentInv,
       RefInv, RunningIsPooled, RoleInv, PointerInv, Entry, vars

\* Connect goes on with a client, or returns, only when Get has.
LEMMA ConnectStepPoolMesh ==
  ASSUME PoolMeshInv, ConnectStep
  PROVE  PoolMeshInv'
<1>1. UNCHANGED <<vars, disc>>
  BY DEF ConnectStep, GotClient, GotNoClient, GotAuthKey, ConnectFails, LoginPrompt,
         LoggedIn, ConfiguredDNS, Pinged, ExitStep
<1>2. conn = "get" => pc[Mesh] \in {"idle", "kept", "use"}
  BY DEF ConnectStep, GotClient, GotNoClient, GotAuthKey, ConnectFails, LoginPrompt,
         LoggedIn, ConfiguredDNS, Pinged, ExitStep, Fallible, ExitSteps
<1>3. BaseInv' /\ PointerInv'
  BY <1>1 DEF PoolMeshInv, BaseInv, TypeOK, MutexInv, PoolInv, RunningInv, ArgumentInv,
       RefInv, RunningIsPooled, PointerInv, Entry, vars
<1>4. RoleInv'
  BY <1>1, <1>2 DEF PoolMeshInv, RoleInv, vars
<1>5. QED
  BY <1>3, <1>4 DEF PoolMeshInv

\* Every step keeps the invariant of the composition.
LEMMA NextPoolMesh == PoolMeshInv /\ [MeshNext]_allVars => PoolMeshInv'
<1> SUFFICES ASSUME PoolMeshInv, [MeshNext]_allVars
             PROVE  PoolMeshInv'
  OBVIOUS
<1>1. CASE UNCHANGED allVars
  BY <1>1, SamePoolMesh DEF allVars, meshVars
<1>2. CASE PoolStep
  BY <1>2, PoolStepPoolMesh DEF PoolStep, PoolStepOf
<1>3. CASE ConnectStep
  BY <1>3, ConnectStepPoolMesh
<1>4. CASE \E sp \in Spaces, viaSpace \in BOOLEAN : Connect(sp, viaSpace)
  BY <1>4, ConnectPoolMesh
<1>5. CASE Disconnect \/ TestClient \/ Panic \/ Down \/ Clear
  <2>1. /\ UNCHANGED <<vars, conn>>
        /\ disc' = "release" <=> disc = "release"
    BY <1>5 DEF Disconnect, TestClient, Panic, Down, Clear
  <2>2. QED
    BY <2>1, SamePoolMesh
<1>6. CASE ReadClient \/ Released
  BY <1>6, ReadClientPoolMesh, ReleasedPoolMesh
<1>7. QED
  BY <1>1, <1>2, <1>3, <1>4, <1>5, <1>6 DEF MeshNext, DisconnectStep

-----------------------------------------------------------------------------
(* One Disconnect takes nobody else's client away *)

\* A state before a second Disconnect, with all that is known of it.
Settled ==
  /\ PoolMeshInv /\ MeshFlowInv
  /\ disconnects <= 1
  /\ OthersInv /\ OwedEntryInv /\ CoverInv

\* The number of the others that hold a client is a number.
LEMMA OthersFinite ==
  ASSUME NEW cl
  PROVE  IsFiniteSet(OthersHolding(cl)) /\ Cardinality(OthersHolding(cl)) \in Nat
<1>1. OthersHolding(cl) \subseteq Callers
  BY DEF OthersHolding, Others
<1>2. IsFiniteSet(OthersHolding(cl))
  BY <1>1, FS_Subset, ConstantsAssumption
<1>3. QED
  BY <1>2, FS_CardinalityType

\* One more element makes a set at most one larger, and one less makes it
\* one smaller.
LEMMA OneMore ==
  ASSUME NEW S, IsFiniteSet(S), NEW e, NEW T, T \subseteq S \cup {e}
  PROVE  Cardinality(T) \in Nat /\ Cardinality(T) <= Cardinality(S) + 1
<1>1. IsFiniteSet(S \cup {e}) /\ Cardinality(S) \in Nat
  BY FS_AddElement, FS_CardinalityType
<1>2. Cardinality(S \cup {e}) =
        IF e \in S THEN Cardinality(S) ELSE Cardinality(S) + 1
  BY FS_AddElement
<1>3. IsFiniteSet(T) /\ Cardinality(T) <= Cardinality(S \cup {e})
  BY <1>1, FS_Subset
<1>4. Cardinality(T) \in Nat
  BY <1>3, FS_CardinalityType
<1>5. QED
  BY <1>1, <1>2, <1>3, <1>4

LEMMA OneLess ==
  ASSUME NEW S, IsFiniteSet(S), NEW e \in S
  PROVE  Cardinality(S \ {e}) = Cardinality(S) - 1
BY FS_RemoveElement

\* The clients stay covered when nobody starts to hold one and the count and
\* the entry of those that are still pooled stay as they are.
LEMMA StillCovered ==
  ASSUME CoverInv, refCount \in [Clients -> Nat],
         NEW cl \in Clients, Pooled(cl), refCount'[cl] = refCount[cl],
         OthersHolding(cl)' \subseteq OthersHolding(cl), Owed(cl)' => Owed(cl)
  PROVE  refCount'[cl] + 1 >=
           Cardinality(OthersHolding(cl)') + (IF Owed(cl)' THEN 1 ELSE 0)
<1>1. Cardinality(OthersHolding(cl)') <= Cardinality(OthersHolding(cl))
  BY OthersFinite, FS_Subset
<1>2. IsFiniteSet(OthersHolding(cl)') /\ Cardinality(OthersHolding(cl)') \in Nat
  BY OthersFinite, FS_Subset, FS_CardinalityType
<1>3. refCount[cl] + 1 >= Cardinality(OthersHolding(cl)) + (IF Owed(cl) THEN 1 ELSE 0)
  BY DEF CoverInv
<1>4. refCount[cl] \in Nat /\ Cardinality(OthersHolding(cl)) \in Nat
  BY OthersFinite
<1>5. QED
  BY <1>1, <1>2, <1>3, <1>4

\* A step that changes no entry and no count, and by which nobody starts to
\* hold a client, keeps them covered.
LEMMA QuietCover ==
  ASSUME Settled, UNCHANGED <<pool, refCount>>,
         \A cl \in Clients : /\ OthersHolding(cl)' \subseteq OthersHolding(cl)
                             /\ Owed(cl)' => Owed(cl)
  PROVE  CoverInv'
<1> USE DEF Settled, PoolMeshInv, BaseInv, TypeOK
<1> SUFFICES ASSUME NEW cl \in Clients, Pooled(cl)'
             PROVE  refCount'[cl] + 1 >=
                      Cardinality(OthersHolding(cl)') + (IF Owed(cl)' THEN 1 ELSE 0)
  BY DEF CoverInv
<1>1. Pooled(cl) /\ refCount'[cl] = refCount[cl]
  BY DEF Pooled
<1>2. QED
  BY <1>1, StillCovered

\* Taking and asking for the mutex, and looking up, change no reference.
LEMMA AskingOwed ==
  ASSUME Settled, NEW c \in Callers, UNCHANGED meshVars,
         \/ LockGet(c) \/ LockPut(c) \/ Lookup(c) \/ Find(c)
         \/ c \in Others /\ (CallRelease(c) \/ \E sp \in Spaces : CallGet(c, sp))
  PROVE  OthersInv' /\ OwedEntryInv' /\ CoverInv'
<1> USE Roles DEF Settled, PoolMeshInv, BaseInv, TypeOK, LockGet, LockPut, Lookup, Find,
        CallRelease, CallGet, Goto, RoleInv, meshVars, Unread, cancelled
<1>1. OthersInv'
  BY DEF OthersInv, Others, Leased, Entry
<1>2. OwedEntryInv'
  BY DEF OwedEntryInv, Others, Releasing, Entry
<1>3. ASSUME NEW cl \in Clients
      PROVE  /\ OthersHolding(cl)' \subseteq OthersHolding(cl)
             /\ Owed(cl)' => Owed(cl)
  BY DEF OthersInv, OthersHolding, Others, Holds, Leased, Owed, Releasing
<1>4. CoverInv'
  BY <1>3, QuietCover
<1>5. QED
  BY <1>1, <1>2, <1>4

\* A Get that fails or returns leaves no more references than before.
LEMMA GetReturnsOwed ==
  ASSUME Settled, NEW c \in Callers, UNCHANGED meshVars,
         CreateFailed(c) \/ Authenticated(c) \/ TimedOut(c)
  PROVE  OthersInv' /\ OwedEntryInv' /\ CoverInv'
<1> USE Roles, ConstantsAssumption
        DEF Settled, PoolMeshInv, BaseInv, TypeOK, CreateFailed, Authenticated,
        TimedOut, Goto, RoleInv, meshVars, Unread, cancelled
<1>1. pc[c] = "waitAuth" =>
        ref[c] \in Clients /\ node[ref[c]] \in Spaces /\ pool[node[ref[c]]] = ref[c]
  BY DEF RefInv, PoolInv, ArgumentInv
<1>2. OthersInv'
  BY <1>1 DEF OthersInv, Others, Leased, Entry
<1>3. OwedEntryInv'
  BY <1>1 DEF OwedEntryInv, Releasing, Entry
<1>4. ASSUME NEW cl \in Clients
      PROVE  /\ OthersHolding(cl)' \subseteq OthersHolding(cl)
             /\ Owed(cl)' => Owed(cl)
  BY DEF OthersHolding, Others, Holds, Leased, Owed, Releasing
<1>5. CoverInv'
  BY <1>4, QuietCover
<1>6. QED
  BY <1>2, <1>3, <1>5

\* Stopping comes after the reference is gone.
LEMMA StopOwed ==
  ASSUME Settled, Careless = {Mesh, Hangup}, NEW c \in Callers, UNCHANGED meshVars,
         Stop(c)
  PROVE  OthersInv' /\ OwedEntryInv' /\ CoverInv'
<1> USE Roles DEF Settled, PoolMeshInv, BaseInv, TypeOK, Stop, Return, Goto, RoleInv,
        meshVars, Unread, cancelled
<1>1. OthersInv'
  BY DEF OthersInv, Others, Leased, Entry
<1>2. OwedEntryInv'
  BY DEF OwedEntryInv, Releasing, Entry
<1>3. ASSUME NEW cl \in Clients
      PROVE  /\ OthersHolding(cl)' \subseteq OthersHolding(cl)
             /\ Owed(cl)' => Owed(cl)
  BY DEF OthersHolding, Others, Holds, Leased, Owed, Releasing
<1>4. CoverInv'
  BY <1>3, QuietCover
<1>5. QED
  BY <1>1, <1>2, <1>4

\* Whoever releases before a second Disconnect finds the entry of its client.
LEMMA FindNothingOwed ==
  ASSUME Settled, NEW c \in Callers, FindNothing(c)
  PROVE  FALSE
<1>1. c # Mesh
  BY DEF Settled, PoolMeshInv, RoleInv, FindNothing
<1>2. client[c] \in Clients
  BY DEF Settled, PoolMeshInv, BaseInv, ArgumentInv, FindNothing, Leased
<1>3. Entry(c) = client[c]
  BY <1>1 DEF Settled, OthersInv, OwedEntryInv, Others, Releasing, Leased, FindNothing
<1>4. QED
  BY <1>2, <1>3, ConstantsAssumption DEF FindNothing

\* Sharing a client counts the reference it adds: one more holder, or what
\* Disconnect will have to release.
LEMMA ShareOwed ==
  ASSUME Settled, NEW c \in Callers, UNCHANGED meshVars, Share(c)
  PROVE  OthersInv' /\ OwedEntryInv' /\ CoverInv'
<1> USE Roles DEF Settled, PoolMeshInv, BaseInv, TypeOK, Share, Goto, RoleInv, meshVars,
        Unread, cancelled
<1>1. OthersInv' /\ OwedEntryInv'
  BY DEF OthersInv, OwedEntryInv, Others, Releasing, Leased, Entry
<1>2. PICK cl \in Clients : cl = ref[c]
  BY DEF RefInv
<1>3. c \in Others \/ c = Mesh
  BY DEF Others
<1>4. ASSUME NEW d \in Clients, Pooled(d)'
      PROVE  refCount'[d] + 1 >=
               Cardinality(OthersHolding(d)') + (IF Owed(d)' THEN 1 ELSE 0)
  <2>1. Pooled(d)
    BY <1>4 DEF Pooled
  <2>2. CASE d # cl
    <3>1. OthersHolding(d)' \subseteq OthersHolding(d) /\ (Owed(d)' => Owed(d))
      BY <1>2, <2>2 DEF OthersHolding, Holds, Leased, Owed, Releasing
    <3>2. QED
      BY <1>2, <2>1, <2>2, <3>1, StillCovered
  <2>3. CASE d = cl
    <3>1. /\ refCount[d] \in Nat /\ refCount'[d] = refCount[d] + 1
          /\ refCount[d] + 1 >=
               Cardinality(OthersHolding(d)) + (IF Owed(d) THEN 1 ELSE 0)
      BY <1>2, <2>1, <2>3 DEF CoverInv
    <3>2. Cardinality(OthersHolding(d)) \in Nat
      BY OthersFinite
    <3>3. CASE c \in Others
      <4>1. OthersHolding(d)' \subseteq OthersHolding(d) \cup {c} /\ (Owed(d)' => Owed(d))
        BY <3>3 DEF OthersHolding, Holds, Leased, Owed, Releasing, Others
      <4>2. /\ Cardinality(OthersHolding(d)') \in Nat
            /\ Cardinality(OthersHolding(d)') <= Cardinality(OthersHolding(d)) + 1
        BY <4>1, OthersFinite, OneMore
      <4>3. QED
        BY <3>1, <3>2, <4>1, <4>2
    <3>4. CASE c = Mesh
      <4>1. OthersHolding(d)' = OthersHolding(d)
        BY <3>4 DEF OthersHolding, Holds, Leased, Others
      <4>2. QED
        BY <3>1, <3>2, <4>1
    <3>5. QED
      BY <1>3, <3>3, <3>4
  <2>4. QED
    BY <2>2, <2>3
<1>5. QED
  BY <1>1, <1>4 DEF CoverInv

\* The first reference to a new client is its caller's, and nobody else's.
LEMMA CreateOwed ==
  ASSUME Settled, NEW c \in Callers, NEW cl \in Clients, UNCHANGED meshVars,
         Create(c, cl)
  PROVE  OthersInv' /\ OwedEntryInv' /\ CoverInv'
<1> USE Roles, ConstantsAssumption
        DEF Settled, PoolMeshInv, BaseInv, TypeOK, Create, Fresh, Goto, RoleInv,
        meshVars, Unread, cancelled
<1>1. space[c] \in Spaces /\ pool[space[c]] = None
  BY DEF ArgumentInv, RefInv
<1>2. OthersInv'
  BY <1>1 DEF OthersInv, Others, Leased, Entry, ArgumentInv
<1>3. OwedEntryInv'
  BY <1>1 DEF OwedEntryInv, Releasing, Leased, Entry, ArgumentInv, PointerInv
<1>4. c \in Others \/ c = Mesh
  BY DEF Others
<1>5. ASSUME NEW d \in Clients, Pooled(d)'
      PROVE  refCount'[d] + 1 >=
               Cardinality(OthersHolding(d)') + (IF Owed(d)' THEN 1 ELSE 0)
  <2>1. CASE d # cl
    <3>1. Pooled(d) /\ refCount'[d] = refCount[d]
      BY <1>1, <1>5, <2>1 DEF Pooled
    <3>2. OthersHolding(d)' \subseteq OthersHolding(d) /\ (Owed(d)' => Owed(d))
      BY <2>1 DEF OthersHolding, Holds, Leased, Owed, Releasing
    <3>3. QED
      BY <3>1, <3>2, StillCovered
  <2>2. CASE d = cl /\ c \in Others
    <3>1. OthersHolding(d)' = {c} /\ ~Owed(d)'
      BY <2>2 DEF OthersHolding, Holds, Leased, Owed, Releasing, Others
    <3>2. Cardinality({c}) = 1
      BY FS_Singleton
    <3>3. QED
      BY <2>2, <3>1, <3>2
  <2>3. CASE d = cl /\ c = Mesh
    <3>1. OthersHolding(d)' = {}
      BY <2>3 DEF OthersHolding, Holds, Leased, Others
    <3>2. Cardinality({}) = 0
      BY FS_EmptySet
    <3>3. QED
      BY <2>3, <3>1, <3>2
  <2>4. QED
    BY <1>4, <2>1, <2>2, <2>3
<1>6. QED
  BY <1>2, <1>3, <1>5 DEF CoverInv

\* Only Connect gets and only Disconnect, once it was called, and the others
\* release.
LEMMA WhoReleases ==
  ASSUME Settled, NEW c \in Callers, pc[c] \in {"drop", "lower"}
  PROVE  /\ c \in Others \/ (c = Hangup /\ ~Unread)
         /\ client[c] \in Clients /\ node[client[c]] \in Spaces
         /\ ref[c] = client[c] /\ pool[node[client[c]]] = client[c]
<1> USE DEF Settled, PoolMeshInv, BaseInv
<1>1. c \in Others \/ c = Hangup
  BY DEF RoleInv, Others
<1>2. c = Hangup => ~Unread
  BY DEF RoleInv, MeshFlowInv, FlowInv, Unread
<1>3. client[c] \in Clients /\ node[client[c]] \in Spaces
  BY DEF ArgumentInv, Leased
<1>4. Entry(c) = ref[c]
  BY DEF RefInv
<1>5. Entry(c) = client[c]
  BY <1>1 DEF OthersInv, OwedEntryInv, Leased, Releasing
<1>6. QED
  BY <1>1, <1>2, <1>3, <1>4, <1>5 DEF Entry

\* The release that found the count at 0 is that of the only reference: no
\* other caller holds the client, and Disconnect owes nothing but that release.
LEMMA DropOwed ==
  ASSUME Settled, NEW c \in Callers, UNCHANGED meshVars, Drop(c)
  PROVE  OthersInv' /\ OwedEntryInv' /\ CoverInv'
<1> USE Roles, ConstantsAssumption
        DEF Settled, PoolMeshInv, BaseInv, TypeOK, Drop, Goto, RoleInv, meshVars
<1> DEFINE cl == client[c]
<1>1. /\ c \in Others \/ (c = Hangup /\ ~Unread)
      /\ cl \in Clients /\ node[cl] \in Spaces
      /\ ref[c] = cl /\ pool[node[cl]] = cl
  BY WhoReleases
<1>2. refCount[cl] = 0 /\ Pooled(cl)
  BY <1>1 DEF RefInv, Pooled
<1>3. Cardinality(OthersHolding(cl)) + (IF Owed(cl) THEN 1 ELSE 0) <= 1
      /\ Cardinality(OthersHolding(cl)) \in Nat
  BY <1>1, <1>2, OthersFinite DEF CoverInv
<1>4. ASSUME c \in Others
      PROVE  OthersInv' /\ OwedEntryInv'
  <2>1. c \in OthersHolding(cl)
    BY <1>4 DEF OthersHolding, Holds, Leased
  <2>2. Cardinality(OthersHolding(cl)) # 0
    BY <2>1, OthersFinite, FS_EmptySet
  <2>3. Cardinality(OthersHolding(cl)) = 1 /\ ~Owed(cl)
    BY <1>3, <2>2
  <2>4. OthersHolding(cl) = {c}
    BY <2>1, <2>3, OthersFinite, FS_Singleton
  <2>5. OthersInv'
    BY <1>1, <2>4
       DEF OthersInv, OthersHolding, Holds, Leased, Entry, Others, ArgumentInv
  <2>6. OwedEntryInv'
    BY <1>1, <1>4, <2>3
       DEF OwedEntryInv, Owed, Releasing, Leased, Entry, Others, ArgumentInv, PointerInv,
           Unread, cancelled
  <2>7. QED
    BY <2>5, <2>6
<1>5. ASSUME c = Hangup, ~Unread
      PROVE  OthersInv' /\ OwedEntryInv'
  <2>1. Owed(cl)
    BY <1>5 DEF Owed, Releasing
  <2>2. Cardinality(OthersHolding(cl)) = 0
    BY <1>3, <2>1
  <2>3. OthersHolding(cl) = {}
    BY <2>2, OthersFinite, FS_EmptySet
  <2>4. OthersInv'
    BY <1>1, <1>5, <2>3
       DEF OthersInv, OthersHolding, Holds, Leased, Entry, Others, ArgumentInv
  <2>5. OwedEntryInv'
    BY <1>5 DEF OwedEntryInv, Releasing, Leased, Entry, Unread, cancelled
  <2>6. QED
    BY <2>4, <2>5
<1>6. ASSUME NEW d \in Clients, Pooled(d)'
      PROVE  refCount'[d] + 1 >=
               Cardinality(OthersHolding(d)') + (IF Owed(d)' THEN 1 ELSE 0)
  <2>1. Pooled(d) /\ refCount'[d] = refCount[d]
    BY <1>6 DEF Pooled
  <2>2. OthersHolding(d)' \subseteq OthersHolding(d) /\ (Owed(d)' => Owed(d))
    BY DEF OthersHolding, Holds, Leased, Owed, Releasing, Others, Unread, cancelled
  <2>3. QED
    BY <2>1, <2>2, StillCovered
<1>7. QED
  BY <1>1, <1>4, <1>5, <1>6 DEF CoverInv

\* A release that lowers the count takes one reference away with it.
LEMMA LowerOwed ==
  ASSUME Settled, Careless = {Mesh, Hangup}, NEW c \in Callers, UNCHANGED meshVars,
         Lower(c)
  PROVE  OthersInv' /\ OwedEntryInv' /\ CoverInv'
<1> USE Roles, ConstantsAssumption
        DEF Settled, PoolMeshInv, BaseInv, TypeOK, Lower, Return, Goto, RoleInv,
        meshVars, Unread, cancelled
<1> DEFINE cl == client[c]
<1>1. /\ c \in Others \/ (c = Hangup /\ ~Unread)
      /\ cl \in Clients /\ node[cl] \in Spaces
      /\ ref[c] = cl /\ pool[node[cl]] = cl
  BY WhoReleases
<1>2. refCount[cl] > 0 /\ refCount[cl] \in Nat
  BY <1>1 DEF RefInv
<1>3. OthersInv'
  BY DEF OthersInv, Others, Leased, Entry
<1>4. OwedEntryInv'
  BY DEF OwedEntryInv, Others, Releasing, Entry
<1>5. ASSUME NEW d \in Clients, Pooled(d)'
      PROVE  refCount'[d] + 1 >=
               Cardinality(OthersHolding(d)') + (IF Owed(d)' THEN 1 ELSE 0)
  <2>1. Pooled(d)
    BY <1>5 DEF Pooled
  <2>2. CASE d # cl
    <3>1. OthersHolding(d)' \subseteq OthersHolding(d) /\ (Owed(d)' => Owed(d))
      BY DEF OthersHolding, Holds, Leased, Owed, Releasing, Others
    <3>2. QED
      BY <1>1, <2>1, <2>2, <3>1, StillCovered
  <2>3. CASE d = cl
    <3>1. /\ refCount'[d] = refCount[d] - 1
          /\ refCount[d] + 1 >=
               Cardinality(OthersHolding(d)) + (IF Owed(d) THEN 1 ELSE 0)
      BY <1>1, <2>1, <2>3 DEF CoverInv
    <3>2. Cardinality(OthersHolding(d)) \in Nat
      BY OthersFinite
    <3>3. CASE c \in Others
      <4>1. /\ c \in OthersHolding(d) /\ OthersHolding(d)' = OthersHolding(d) \ {c}
            /\ Owed(d)' => Owed(d)
        BY <2>3, <3>3 DEF OthersHolding, Holds, Leased, Owed, Releasing, Others
      <4>2. Cardinality(OthersHolding(d) \ {c}) = Cardinality(OthersHolding(d)) - 1
        BY <4>1, OthersFinite, OneLess
      <4>3. QED
        BY <1>2, <2>3, <3>1, <3>2, <4>1, <4>2
    <3>4. CASE c = Hangup /\ ~Unread
      <4>1. OthersHolding(d)' = OthersHolding(d) /\ Owed(d) /\ ~Owed(d)'
        BY <2>3, <3>4 DEF OthersHolding, Holds, Leased, Owed, Releasing, Others
      <4>2. QED
        BY <1>2, <2>3, <3>1, <3>2, <4>1
    <3>5. QED
      BY <1>1, <3>3, <3>4
  <2>4. QED
    BY <2>2, <2>3
<1>6. QED
  BY <1>3, <1>4, <1>5 DEF CoverInv

\* A step of the pool takes no other caller's client away.
LEMMA PoolStepOwed ==
  ASSUME Settled, Careless = {Mesh, Hangup}, NEW c \in Callers, UNCHANGED meshVars,
         PoolStepOf(c)
  PROVE  OthersInv' /\ OwedEntryInv' /\ CoverInv'
<1>1. c \notin {Mesh, Hangup} => c \in Others
  BY DEF Others
<1>2. CASE Inside(c)
  BY <1>2, AskingOwed, GetReturnsOwed, StopOwed, FindNothingOwed, ShareOwed, CreateOwed,
     DropOwed, LowerOwed
     DEF Inside
<1>3. CASE ~Inside(c)
  BY <1>1, <1>3, AskingOwed DEF PoolStepOf
<1>4. QED
  BY <1>2, <1>3

\* Getting again overwrites a pointer only when Get returns.
LEMMA ConnectOwed ==
  ASSUME Settled, NEW sp \in Spaces, NEW viaSpace \in BOOLEAN, Connect(sp, viaSpace)
  PROVE  OthersInv' /\ OwedEntryInv' /\ CoverInv'
<1> USE Roles DEF Settled, PoolMeshInv, BaseInv, TypeOK
<1>1. /\ pc' = [pc EXCEPT ![Mesh] = "getLock"] /\ pc[Mesh] \in {"idle", "kept", "use"}
      /\ UNCHANGED <<pool, refCount, node, ref, client, disconnects, disc>>
  BY DEF Connect, CallGet, CallGetAgain, Goto
<1>2. OthersInv' /\ OwedEntryInv'
  BY <1>1 DEF OthersInv, OwedEntryInv, Others, Leased, Releasing, Entry, Unread, cancelled
<1>3. ASSUME NEW cl \in Clients
      PROVE  /\ OthersHolding(cl)' \subseteq OthersHolding(cl)
             /\ Owed(cl)' => Owed(cl)
  BY <1>1 DEF OthersHolding, Others, Holds, Leased, Owed, Releasing, Unread, cancelled
<1>4. CoverInv'
  BY <1>1, <1>3, QuietCover
<1>5. QED
  BY <1>2, <1>4

\* Disconnect owes what it was going to owe when it is called, and what it
\* reads when it reads it; if there is nothing to release, it owes nothing.
LEMMA DisconnectOwed ==
  ASSUME Settled, disconnects' <= 1, Disconnect \/ TestClient \/ ReadClient
  PROVE  OthersInv' /\ OwedEntryInv' /\ CoverInv'
<1> USE Roles DEF Settled, PoolMeshInv, BaseInv, TypeOK
<1>1. (Unread' => Unread) /\ disc # "release" /\ (Unread \/ pc[Hangup] = "idle")
  <2>1. CASE Disconnect
    <3>1. disconnects \in Nat /\ disconnects' = disconnects + 1
      BY <2>1, MeshAssumption DEF Disconnect, MeshFlowInv, MeshTypeOK
    <3>2. ~cancelled
      BY <3>1 DEF cancelled
    <3>3. QED
      BY <2>1, <3>2 DEF Unread, Disconnect
  <2>2. CASE TestClient \/ ReadClient
    BY <2>2 DEF Unread, TestClient, ReadClient
  <2>3. QED
    BY <2>1, <2>2
<1>2. pc[Hangup] = "idle"
  BY <1>1 DEF RoleInv
<1>3. /\ \A c \in Others : pc'[c] = pc[c] /\ client'[c] = client[c]
      /\ pc'[Mesh] = pc[Mesh] /\ client'[Mesh] = client[Mesh]
      /\ UNCHANGED <<pool, refCount, node, ref>>
      /\ \/ pc'[Hangup] = "idle"
         \/ Unread /\ client[Mesh] # None /\ client'[Hangup] = client[Mesh]
  <2>1. CASE Disconnect \/ TestClient
    BY <1>2, <2>1 DEF Disconnect, TestClient, Others, vars
  <2>2. CASE ReadClient
    BY <1>2, <2>2 DEF ReadClient, Goto, Others, Unread
  <2>3. QED
    BY <2>1, <2>2
<1>4. OthersInv'
  BY <1>3 DEF OthersInv, Others, Leased, Entry
<1>5. OwedEntryInv'
  BY <1>1, <1>3 DEF OwedEntryInv, Releasing, Entry
<1>6. ASSUME NEW cl \in Clients
      PROVE  /\ OthersHolding(cl)' \subseteq OthersHolding(cl)
             /\ Owed(cl)' => Owed(cl)
  BY <1>1, <1>3 DEF OthersHolding, Others, Holds, Owed, Releasing
<1>7. CoverInv'
  BY <1>3, <1>6, QuietCover
<1>8. QED
  BY <1>4, <1>5, <1>7

\* Once Release has returned nothing is owed.
LEMMA ReleasedOwed ==
  ASSUME Settled, Released
  PROVE  OthersInv' /\ OwedEntryInv' /\ CoverInv'
<1> USE Roles DEF Settled, PoolMeshInv, BaseInv, TypeOK
<1>1. ~Unread /\ ~Unread'
  BY DEF Released, MeshFlowInv, FlowInv, Unread, cancelled
<1>2. /\ pc'[Hangup] = "idle"
      /\ \A c \in Others : pc'[c] = pc[c] /\ client'[c] = client[c]
      /\ UNCHANGED <<pool, refCount, node, ref>>
  BY DEF Released, Others
<1>3. OthersInv' /\ OwedEntryInv'
  BY <1>1, <1>2 DEF OthersInv, OwedEntryInv, Others, Leased, Releasing, Entry
<1>4. ASSUME NEW cl \in Clients
      PROVE  /\ OthersHolding(cl)' \subseteq OthersHolding(cl)
             /\ Owed(cl)' => Owed(cl)
  BY <1>1, <1>2 DEF OthersHolding, Others, Holds, Owed, Releasing
<1>5. CoverInv'
  BY <1>2, <1>4, QuietCover
<1>6. QED
  BY <1>3, <1>5

\* Steps that leave the pool alone, and are none of Disconnect's first, owe
\* the same.
LEMMA SameOwed ==
  ASSUME OwedInv, UNCHANGED <<vars, disconnects>>, Unread' = Unread
  PROVE  OwedInv'
BY DEF OwedInv, OthersInv, OwedEntryInv, CoverInv, OthersHolding, Holds, Owed, Pooled,
       Entry, cancelled, vars

\* Every step keeps the account of references before a second Disconnect.
LEMMA NextOwed ==
  Careless = {Mesh, Hangup} /\ PoolMeshInv /\ MeshFlowInv /\ OwedInv /\ [MeshNext]_allVars
    => OwedInv'
<1> SUFFICES ASSUME Careless = {Mesh, Hangup}, PoolMeshInv, MeshFlowInv, OwedInv,
                    [MeshNext]_allVars
             PROVE  OwedInv'
  OBVIOUS
<1>1. CASE PoolStep \/ \E sp \in Spaces, viaSpace \in BOOLEAN : Connect(sp, viaSpace)
  <2>1. disconnects' = disconnects
    BY <1>1 DEF PoolStep, Connect, meshVars
  <2>2. CASE disconnects <= 1
    <3>1. Settled
      BY <2>2 DEF Settled, OwedInv
    <3>2. OthersInv' /\ OwedEntryInv' /\ CoverInv'
      BY <1>1, <3>1, PoolStepOwed, ConnectOwed DEF PoolStep, PoolStepOf
    <3>3. QED
      BY <3>2 DEF OwedInv
  <2>3. QED
    BY <2>1, <2>2 DEF OwedInv
<1>2. CASE Disconnect \/ TestClient \/ ReadClient \/ Released
  <2>1. disconnects' <= 1 => disconnects <= 1
    BY <1>2, MeshAssumption
       DEF Disconnect, TestClient, ReadClient, Released, MeshFlowInv, MeshTypeOK
  <2>2. SUFFICES ASSUME disconnects' <= 1
                 PROVE  OthersInv' /\ OwedEntryInv' /\ CoverInv'
    BY DEF OwedInv
  <2>3. Settled
    BY <2>1, <2>2 DEF Settled, OwedInv
  <2>4. QED
    BY <1>2, <2>2, <2>3, DisconnectOwed, ReleasedOwed
<1>3. CASE ConnectStep \/ Panic \/ Down \/ Clear \/ UNCHANGED allVars
  <2>1. UNCHANGED <<vars, disconnects>>
    BY <1>3
       DEF ConnectStep, Panic, Down, Clear, GotClient, GotNoClient, GotAuthKey,
           ConnectFails, LoginPrompt, LoggedIn, ConfiguredDNS, Pinged, ExitStep, allVars,
           meshVars
  <2>2. \/ disc' = disc
        \/ disc \notin {"test", "read"} /\ disc' \notin {"test", "read"}
    BY <1>3
       DEF ConnectStep, Panic, Down, Clear, GotClient, GotNoClient, GotAuthKey,
           ConnectFails, LoginPrompt, LoggedIn, ConfiguredDNS, Pinged, ExitStep, allVars,
           meshVars
  <2>3. Unread' = Unread
    BY <2>1, <2>2 DEF Unread, cancelled
  <2>4. QED
    BY <2>1, <2>3, SameOwed
<1>4. QED
  BY <1>1, <1>2, <1>3 DEF MeshNext, DisconnectStep

\* It holds initially: nobody holds a client, and none is pooled.
LEMMA InitOwed == MeshInit => OwedInv
BY Roles, ConstantsAssumption
   DEF MeshInit, Init, OwedInv, OthersInv, OwedEntryInv, CoverInv, Others, Leased,
       Releasing, Pooled

-----------------------------------------------------------------------------
(* What Disconnect has seen of the pointer *)

\* A step of the pool changes the pointer only in a Get of Connect's, which
\* then overlaps Disconnect or came after it.
LEMMA PoolStepNil ==
  ASSUME PoolMeshInv, MeshFlowInv, NilInv, NEW c \in Callers, PoolStepOf(c),
         UNCHANGED meshVars
  PROVE  NilInv'
<1>1. DiesOfOverlap'
  BY DEF NilInv, DiesOfOverlap, meshVars, network
<1>2. SUFFICES ASSUME disc = "read", ~overlap, late = 0
               PROVE  client'[Mesh] = client[Mesh]
  BY <1>1 DEF NilInv, meshVars, network
<1>3. pc[Mesh] \in {"idle", "kept", "use"}
  BY <1>2 DEF MeshFlowInv, FlowInv, PoolMeshInv, RoleInv
<1>4. CASE c = Mesh
  BY <1>3, <1>4, Roles
     DEF PoolStepOf, LockGet, LockPut, Inside, Lookup, Create, CreateFailed, Share,
         Authenticated, TimedOut, Find, FindNothing, Drop, Stop, Lower
<1>5. CASE c # Mesh
  <2>1. client' = client \/ \E to : client' = [client EXCEPT ![c] = to]
    BY DEF PoolStepOf, LockGet, LockPut, Inside, CallRelease, CallGet, Lookup, Create,
           CreateFailed, Share, Authenticated, TimedOut, Find, FindNothing, Drop, Stop,
           Lower, Return
  <2>2. QED
    BY <1>5, <2>1, Roles DEF PoolMeshInv, BaseInv, TypeOK
<1>6. QED
  BY <1>4, <1>5

\* Every step keeps it: Disconnect reads a pointer it has seen was not nil.
LEMMA NextNil ==
  PoolMeshInv /\ MeshFlowInv /\ NilInv /\ [MeshNext]_allVars => NilInv'
<1> SUFFICES ASSUME PoolMeshInv, MeshFlowInv, NilInv, [MeshNext]_allVars
             PROVE  NilInv'
  OBVIOUS
<1> USE DEF NilInv, DiesOfOverlap
<1>1. CASE PoolStep
  BY <1>1, PoolStepNil DEF PoolStep, PoolStepOf
<1>2. CASE ConnectStep \/ UNCHANGED allVars
  <2>1. UNCHANGED <<client, disc, overlap, late>>
    BY <1>2
       DEF ConnectStep, GotClient, GotNoClient, GotAuthKey, ConnectFails, LoginPrompt,
           LoggedIn, ConfiguredDNS, Pinged, ExitStep, allVars, vars, meshVars, network
  <2>2. QED
    BY <2>1
<1>3. CASE \E sp \in Spaces, viaSpace \in BOOLEAN : Connect(sp, viaSpace)
  <2>1. UNCHANGED <<client, disc, overlap>>
    BY <1>3 DEF Connect, CallGet, CallGetAgain
  <2>2. disc # "none" => late' > 0
    BY <1>3 DEF Connect, MeshFlowInv, FlowInv, MeshTypeOK
  <2>3. QED
    BY <2>1, <2>2
<1>4. CASE Disconnect \/ TestClient \/ Panic \/ Down \/ Clear
  BY <1>4 DEF Disconnect, TestClient, Panic, Down, Clear, vars, network
<1>5. CASE ReadClient \/ Released
  <2>1. /\ UNCHANGED <<overlap, late>>
        /\ disc' # "read" /\ disc' # "dead"
        /\ disc' = "nil" => disc = "read" /\ client[Mesh] = None
    BY <1>5 DEF ReadClient, Released, network
  <2>2. disc' = "nil" => overlap \/ late > 0
    BY <2>1, MeshAssumption DEF MeshFlowInv, MeshTypeOK
  <2>3. (overlap' \/ late' > 0) <=> (overlap \/ late > 0)
    BY <2>1
  <2>4. QED
    BY <2>1, <2>2, <2>3
<1>6. QED
  BY <1>1, <1>2, <1>3, <1>4, <1>5 DEF MeshNext, DisconnectStep

-----------------------------------------------------------------------------
(* Theorems *)

\* The flow invariant holds for any number of Disconnects.
THEOREM FlowInvariant == MeshSpec => []MeshFlowInv
BY InitFlow, NextFlow, PTL DEF MeshSpec

\* Type correctness: Connect waits for the exit node only while it runs, and
\* only what Connect sets up is ever configured.
THEOREM MeshTypeCorrect == MeshSpec => []MeshTypeOK
<1>1. MeshFlowInv => MeshTypeOK
  BY DEF MeshFlowInv
<1>2. QED
  BY <1>1, FlowInvariant, PTL

\* A client that leaves through the space shows Connected only when the exit
\* node of that login has answered.
THEOREM ShownConnectedWhenReached == MeshSpec => []ConnectedMeansReached
<1>1. MeshFlowInv => ConnectedMeansReached
  BY DEF MeshFlowInv
<1>2. QED
  BY <1>1, FlowInvariant, PTL

\* Wherever Connects fail, the default route never stands without the routes
\* that keep the tunnel and the split destinations out of it, as long as no
\* Disconnect was called while a Connect ran: one that was clears them all,
\* and Connect goes on to add the default route.
THEOREM DefaultRouteComesLast == MeshSpec => []DefaultRouteLast
<1>1. MeshFlowInv => DefaultRouteLast
  BY DEF MeshFlowInv
<1>2. QED
  BY <1>1, FlowInvariant, PTL

\* Nothing stays configured after a Disconnect that no Connect overlaps.
THEOREM DisconnectLeavesNothing == MeshSpec => []OnlyOverlapLeaves
<1>1. MeshFlowInv => OnlyOverlapLeaves
  BY DEF MeshFlowInv
<1>2. QED
  BY <1>1, FlowInvariant, PTL

\* The process dies of a Disconnect that reads nil only if a Connect ran
\* between the two looks at the client.
THEOREM DiesOnlyOfOverlap == MeshSpec => []DiesOfOverlap
<1>1. MeshInit => PoolMeshInv /\ MeshFlowInv /\ NilInv
  BY InitPoolMesh, InitFlow DEF MeshInit, NilInv, DiesOfOverlap
<1>2. PoolMeshInv /\ MeshFlowInv /\ NilInv /\ [MeshNext]_allVars
        => (PoolMeshInv /\ MeshFlowInv /\ NilInv)'
  BY NextPoolMesh, NextFlow, NextNil
<1>3. NilInv => DiesOfOverlap
  BY DEF NilInv
<1>4. QED
  BY <1>1, <1>2, <1>3, PTL DEF MeshSpec

\* The pool's invariant survives the TailscaleClient's use of it, the release
\* of a pointer that was released before among it.
THEOREM PoolSurvivesMesh == MeshSpec => []PoolMeshInv
BY InitPoolMesh, NextPoolMesh, PTL DEF MeshSpec

\* So even in the composition Get hands out a running client.
THEOREM HandsOutRunningToAll == MeshSpec => []HandedOutRunning
<1>1. PoolMeshInv => HandedOutRunning
  BY ConstantsAssumption
     DEF PoolMeshInv, BaseInv, HandedOutRunning, RefInv, ArgumentInv, PoolInv, TypeOK
<1>2. QED
  BY <1>1, PoolSurvivesMesh, PTL

\* Whenever the one Disconnect comes, and whatever Connect did before, the
\* other callers, which release once, keep the clients they hold.
THEOREM OneDisconnectIsSafe ==
  ASSUME Careless = {Mesh, Hangup}
  PROVE  MeshSpec => []OthersKeepTheirClients
<1>1. MeshInit => PoolMeshInv /\ MeshFlowInv /\ OwedInv
  BY InitPoolMesh, InitFlow, InitOwed
<1>2. PoolMeshInv /\ MeshFlowInv /\ OwedInv /\ [MeshNext]_allVars
        => (PoolMeshInv /\ MeshFlowInv /\ OwedInv)'
  BY NextPoolMesh, NextFlow, NextOwed
<1>3. PoolMeshInv /\ OwedInv => OthersKeepTheirClients
  BY ConstantsAssumption
     DEF PoolMeshInv, BaseInv, OwedInv, OthersInv, OthersKeepTheirClients, ArgumentInv,
         PoolInv, Entry, Leased, Others
<1>4. QED
  BY <1>1, <1>2, <1>3, PTL DEF MeshSpec
=============================================================================
