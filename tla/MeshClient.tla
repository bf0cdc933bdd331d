----------------------------- MODULE MeshClient -----------------------------
(***************************************************************************)
(* TailscaleClient (network/tailscale_client.go) as one of the users of    *)
(* the pool of space API clients: Connect takes a client from the pool,    *)
(* gets an authorization key with it, logs in to the space's mesh,         *)
(* configures DNS and, when traffic leaves through the space, waits for    *)
(* the exit node and routes traffic to it; Disconnect cancels the context, *)
(* releases the client, shuts tailscale down and clears what was           *)
(* configured.  Disconnect, which alone can cancel a Connect, may be       *)
(* called while Connect runs, and Connect while Disconnect does: the steps *)
(* of the two, of the tailscale output that Write sees, and of the other   *)
(* callers of the pool interleave.                                         *)
(***************************************************************************)
EXTENDS SpaceApiClients

CONSTANTS
  Mesh,            \* the TailscaleClient in Connect
  Hangup,          \* the TailscaleClient in Disconnect
  Darwin,          \* whether configureDNS and configureExitNode do anything
  MaxDisconnects,  \* bound: calls of Disconnect
  MaxLate          \* bound: calls of Connect after each of them

ASSUME MeshAssumption ==
  /\ {Mesh, Hangup} \subseteq Careless /\ Mesh # Hangup
  /\ Darwin \in BOOLEAN
  /\ MaxDisconnects \in Nat /\ MaxLate \in Nat

VARIABLES
  conn,            \* the step Connect is at
  disc,            \* the step Disconnect is at; "dead": it panicked, and the
                   \* process ended
  connState,
  waitForExitNode,
  egress,          \* the argument egressViaSpace of the Connect that runs
  up,              \* tailscale is logged in and up: "no", "direct" or "exit"
  reached,         \* the exit node of the latest login answered a ping
  disconnects,     \* calls of Disconnect; the first cancels ctx for good
  net,             \* what is configured through the network context nc
  overlap,         \* history: a Disconnect was called while Connect ran
  late             \* calls of Connect since the latest Disconnect was called

\* What only the steps that configure or clear the network change, and
\* Disconnect's being called.
network == <<net, overlap, late>>
meshVars == <<conn, disc, connState, waitForExitNode, egress, up, reached,
              disconnects, network>>
allVars == <<vars, meshVars>>

States == {"Connecting", "Connected", "Authenticating", "Authorizing",
           "WaitingForExitNode", "NotConnected"}

\* What configureExitNode does: each step is named for what it leaves behind.
ExitSteps == {"ipv6Off", "endpointRoutes", "splitRoutes", "defaultRoute"}

MeshTypeOK ==
  /\ conn \in {"none", "get", "authKey", "login", "dns", "ping"} \cup ExitSteps
  /\ disc \in {"none", "test", "read", "nil", "release", "down", "clear", "dead"}
  /\ connState \in States
  /\ waitForExitNode \in BOOLEAN /\ egress \in BOOLEAN /\ reached \in BOOLEAN
  /\ up \in {"no", "direct", "exit"}
  /\ disconnects \in 0..MaxDisconnects
  /\ waitForExitNode => conn \in {"login", "dns", "ping"} \cup ExitSteps
  /\ net \subseteq {"dns"} \cup ExitSteps
  /\ overlap \in BOOLEAN /\ late \in 0..MaxLate

MeshInit ==
  /\ Init
  /\ conn = "none" /\ disc = "none"
  /\ connState = "Connecting"
  /\ waitForExitNode = FALSE /\ egress = FALSE /\ reached = FALSE
  /\ up = "no"
  /\ disconnects = 0
  /\ net = {} /\ overlap = FALSE /\ late = 0

cancelled == disconnects > 0

\* The callers of the pool that are not the TailscaleClient.
Others == Callers \ {Mesh, Hangup}

-----------------------------------------------------------------------------
(* Connect *)

\* tsc.apiClient, the caller's client in the pool, is overwritten by what Get
\* returns.
Connect(sp, viaSpace) ==
  /\ conn = "none"
  /\ CallGet(Mesh, sp) \/ CallGetAgain(Mesh, sp)
  /\ conn' = "get"
  /\ egress' = viaSpace
  /\ IF cancelled THEN late < MaxLate /\ late' = late + 1 ELSE UNCHANGED late
  /\ UNCHANGED <<disc, connState, waitForExitNode, up, reached, disconnects, net,
                 overlap>>

\* Mutant of ReturnFromConnect: the deferred function is missing.
ReturnStillWaiting == conn' = "none" /\ egress' = FALSE /\ UNCHANGED waitForExitNode

\* Connect returns; the deferred function clears waitForExitNode, and the
\* argument is gone.
ReturnFromConnect == conn' = "none" /\ waitForExitNode' = FALSE /\ egress' = FALSE

GotClient ==
  /\ conn = "get" /\ pc[Mesh] \in {"use", "kept"}
  /\ conn' = "authKey"
  /\ UNCHANGED <<vars, disc, connState, waitForExitNode, egress, up, reached,
                 disconnects, network>>

GotNoClient ==
  /\ conn = "get" /\ pc[Mesh] = "idle"
  /\ ReturnFromConnect
  /\ UNCHANGED <<vars, disc, connState, up, reached, disconnects, network>>

\* Mutant of GotAuthKey: the flag that makes "Success" wait is not set.
GotAuthKeyNoWait ==
  /\ conn = "authKey"
  /\ connState' = "Connecting"
  /\ reached' = FALSE
  /\ conn' = "login"
  /\ UNCHANGED <<vars, disc, waitForExitNode, egress, up, disconnects, network>>

\* CreateMeshAuthKey succeeds and the space can be an egress node, if asked.
GotAuthKey ==
  /\ conn = "authKey"
  /\ waitForExitNode' = egress
  /\ connState' = "Connecting"
  /\ reached' = FALSE
  /\ conn' = "login"
  /\ UNCHANGED <<vars, disc, egress, up, disconnects, network>>

\* Calls of Connect that may fail: those of the darwin build among them.
Fallible == {"authKey", "login", "ping"} \cup (IF Darwin THEN {"dns"} \cup ExitSteps ELSE {})

\* A call that fails may have done some of its work.
PartOf(step) == {net} \cup {net \cup {s} : s \in {step} \cap ({"dns"} \cup ExitSteps)}

\* Mutants of ConnectFails: the client is released but the pointer to it is
\* kept; a login whose context is cancelled does not return.
ConnectFailsReleasing ==
  /\ conn \in Fallible
  /\ CallRelease(Mesh)
  /\ net' \in PartOf(conn)
  /\ ReturnFromConnect
  /\ UNCHANGED <<disc, connState, up, reached, disconnects, overlap, late>>
ConnectFailsButLogin ==
  /\ conn \in Fallible \ {"login"}
  /\ net' \in PartOf(conn)
  /\ ReturnFromConnect
  /\ UNCHANGED <<vars, disc, connState, up, reached, disconnects, overlap,
                 late>>

\* Some call of Connect returns an error, and Connect returns it: whatever
\* was set up before stays as it is.
ConnectFails ==
  /\ conn \in Fallible
  /\ net' \in PartOf(conn)
  /\ ReturnFromConnect
  /\ UNCHANGED <<vars, disc, connState, up, reached, disconnects, overlap,
                 late>>

\* Write: tailscale asks the user to authenticate or authorize the machine.
LoginPrompt(state) ==
  /\ conn = "login"
  /\ connState \notin {"Connected", "NotConnected"}
  /\ connState' = state
  /\ UNCHANGED <<vars, conn, disc, waitForExitNode, egress, up, reached,
                 disconnects, network>>

\* RunLogin prints "Success", which Write sees, and returns.  With the context
\* cancelled it does not succeed.
LoggedIn ==
  /\ conn = "login" /\ ~cancelled
  /\ connState' = IF connState \in {"Connected", "NotConnected"} THEN connState
                  ELSE IF waitForExitNode THEN "WaitingForExitNode"
                  ELSE "Connected"
  /\ up' = IF egress THEN "exit" ELSE "direct"
  /\ conn' = "dns"
  /\ UNCHANGED <<vars, disc, waitForExitNode, egress, reached, disconnects, network>>

\* configureDNS, which only the darwin build replaces, if the space's DNS is to
\* be used.
ConfiguredDNS ==
  /\ conn = "dns"
  /\ net' \in {net} \cup {net \cup {d} : d \in {"dns"} \cap Fallible}
  /\ IF egress THEN conn' = "ping" /\ UNCHANGED <<waitForExitNode, egress>>
     ELSE ReturnFromConnect
  /\ UNCHANGED <<vars, disc, connState, up, reached, disconnects, overlap,
                 late>>

\* One of at most 30 pings gets its pong.  Only the darwin build replaces
\* configureExitNode: another is done.
Pinged ==
  /\ conn = "ping" /\ ~cancelled
  /\ reached' = TRUE
  /\ IF Darwin THEN conn' = "ipv6Off" /\ UNCHANGED <<waitForExitNode, egress>>
     ELSE ReturnFromConnect
  /\ UNCHANGED <<vars, disc, connState, up, disconnects, network>>

\* Mutant of AfterExitStep: the default route comes first.
DefaultRouteFirst ==
  [ipv6Off |-> "defaultRoute", defaultRoute |-> "endpointRoutes",
   endpointRoutes |-> "splitRoutes", splitRoutes |-> "none"]

\* The routes that keep the tunnel itself and the split destinations on the
\* LAN's gateway come before the default route into the tunnel.
AfterExitStep ==
  [ipv6Off |-> "endpointRoutes", endpointRoutes |-> "splitRoutes",
   splitRoutes |-> "defaultRoute", defaultRoute |-> "none"]

\* A step of configureExitNode, which sets Connected when it is through.
ExitStep ==
  /\ conn \in ExitSteps
  /\ net' = net \cup {conn}
  /\ IF AfterExitStep[conn] = "none"
       THEN connState' = "Connected" /\ ReturnFromConnect
       ELSE conn' = AfterExitStep[conn] /\ UNCHANGED <<connState, waitForExitNode, egress>>
  /\ UNCHANGED <<vars, disc, up, reached, disconnects, overlap, late>>

-----------------------------------------------------------------------------
(* Disconnect *)

\* The context is cancelled for good.
Disconnect ==
  /\ disc = "none" /\ disconnects < MaxDisconnects
  /\ disconnects' = disconnects + 1
  /\ overlap' = (overlap \/ conn # "none")
  /\ late' = 0
  /\ disc' = "test"
  /\ UNCHANGED <<vars, conn, connState, waitForExitNode, egress, up, reached, net>>

\* Mutant of TestClient: Disconnect does not look whether there is a client.
TestNothing ==
  /\ disc = "test"
  /\ disc' = "read"
  /\ UNCHANGED <<vars, conn, connState, waitForExitNode, egress, up, reached,
                 disconnects, network>>

\* tsc.apiClient != nil
TestClient ==
  /\ disc = "test"
  /\ disc' = IF client[Mesh] = None THEN "down" ELSE "read"
  /\ UNCHANGED <<vars, conn, connState, waitForExitNode, egress, up, reached,
                 disconnects, network>>

\* tsc.apiClient is read again, as the argument of the Release: a Connect may
\* have stored another one, or nil, meanwhile.  Otherwise it is a client even
\* if it was released before or a running Connect is using it.
ReadClient ==
  /\ disc = "read"
  /\ IF client[Mesh] = None
       THEN disc' = "nil" /\ UNCHANGED <<pc, client>>
       ELSE /\ disc' = "release"
            /\ client' = [client EXCEPT ![Hangup] = client[Mesh]]
            /\ Goto(Hangup, "putLock")
  /\ UNCHANGED <<mutex, pool, refCount, node, running, space, ref, abandoned,
                 conn, connState, waitForExitNode, egress, up, reached,
                 disconnects, network>>

\* Release has the mutex and asks a nil client for its space.
Panic ==
  /\ disc = "nil" /\ mutex = None
  /\ disc' = "dead"
  /\ UNCHANGED <<vars, conn, connState, waitForExitNode, egress, up, reached,
                 disconnects, network>>

\* tsc.apiClient still points to what has been released.
Released ==
  /\ disc = "release" /\ pc[Hangup] = "kept"
  /\ disc' = "down"
  /\ client' = [client EXCEPT ![Hangup] = None]
  /\ pc' = [pc EXCEPT ![Hangup] = "idle",
                      ![Mesh] = IF @ = "use" /\ client[Mesh] = client[Hangup]
                                  THEN "kept" ELSE @]
  /\ UNCHANGED <<mutex, pool, refCount, node, running, space, ref, abandoned,
                 conn, connState, waitForExitNode, egress, up, reached,
                 disconnects, network>>

\* RunLogout and RunDown, which may fail.
Down ==
  /\ disc = "down"
  /\ up' \in {up, "no"}
  /\ disc' = "clear"
  /\ UNCHANGED <<vars, conn, connState, waitForExitNode, egress, reached,
                 disconnects, network>>

\* Mutant of Clear: a failure to shut tailscale down skips it.
ClearIfDown ==
  /\ disc = "clear"
  /\ net' = IF up = "no" THEN {} ELSE net
  /\ disc' = "none"
  /\ UNCHANGED <<vars, conn, connState, waitForExitNode, egress, up, reached,
                 disconnects, overlap, late>>

\* nc.Clear, whatever became of the shutdown.
Clear ==
  /\ disc = "clear"
  /\ net' = {}
  /\ disc' = "none"
  /\ UNCHANGED <<vars, conn, connState, waitForExitNode, egress, up, reached,
                 disconnects, overlap, late>>

-----------------------------------------------------------------------------
\* The pool's steps: all of another caller's, those inside a call of the
\* TailscaleClient's.
PoolStep ==
  /\ \E c \in Callers :
       \/ LockGet(c) \/ LockPut(c) \/ Inside(c)
       \/ c \notin {Mesh, Hangup} /\ (CallRelease(c) \/ \E sp \in Spaces : CallGet(c, sp))
  /\ UNCHANGED meshVars

ConnectStep ==
  \/ GotClient
  \/ GotNoClient
  \/ GotAuthKey
  \/ ConnectFails
  \/ \E state \in {"Authenticating", "Authorizing"} : LoginPrompt(state)
  \/ LoggedIn
  \/ ConfiguredDNS
  \/ Pinged
  \/ ExitStep

DisconnectStep ==
  \/ TestClient
  \/ ReadClient
  \/ Panic
  \/ Released
  \/ Down
  \/ Clear

\* A panic ends the process.
alive == disc # "dead"

MeshNext ==
  /\ alive
  /\ \/ \E sp \in Spaces, viaSpace \in BOOLEAN : Connect(sp, viaSpace)
     \/ ConnectStep
     \/ Disconnect
     \/ DisconnectStep
     \/ PoolStep

MeshSpec == MeshInit /\ [][MeshNext]_allVars

\* The pool's fairness, for the one call at a time that has the mutex and for
\* the Release of Disconnect that waits for it; Disconnect's statements
\* do not block and those that talk to tailscale have a context of 5 seconds;
\* nor do Connect's that configure the network, and the login and the pings
\* end when their context is cancelled.  Nothing is assumed of the request for
\* an authorization key, of the user, or of other callers.  (That Get returns,
\* too, is GetReturns of the pool.)
MeshFairSpec ==
  /\ MeshSpec
  /\ WF_allVars(alive /\ UNCHANGED meshVars /\ \E c \in Callers : Inside(c))
  /\ SF_allVars(alive /\ UNCHANGED meshVars /\ LockPut(Hangup))
  /\ SF_allVars(Panic)
  /\ WF_allVars(alive /\ (\/ conn \in {"dns"} \cup ExitSteps
                               /\ (ConnectFails \/ ConfiguredDNS \/ ExitStep)
                          \/ cancelled /\ conn \in {"login", "ping"}
                               /\ (ConnectFails \/ Pinged)))
  /\ WF_allVars(TestClient \/ ReadClient \/ Released \/ Down \/ Clear)

-----------------------------------------------------------------------------
(* Properties *)

\* A client whose traffic leaves through the space is shown as connected only
\* after the exit node of that login has answered.
ConnectedMeansReached ==
  up = "exit" /\ connState = "Connected" => reached

\* One Disconnect, whenever it comes, takes no other caller's client away,
\* however often Connect was called and wherever it failed.
OthersKeepTheirClients ==
  disconnects <= 1 => \A c \in Others : pc[c] \in Leased => client[c] \in running

\* Traffic gets a default route into the tunnel only while the routes that
\* keep the tunnel itself and the split destinations out of it are there,
\* wherever Connect failed before and however often it was called, unless a
\* Disconnect cleared them while Connect ran.
DefaultRouteLast ==
  "defaultRoute" \in net /\ ~overlap => {"endpointRoutes", "splitRoutes"} \subseteq net

\* Nothing stays configured after Disconnect, and no later Connect configures
\* anything, unless a Connect was running when Disconnect was called.
OnlyOverlapLeaves == cancelled /\ disc = "none" /\ ~overlap => net = {}

\* Disconnect returns, although Get holds the pool's mutex while it waits for
\* authentication, and ends a Connect that waits for the user or the exit node,
\* though not one that waits for a client or an authorization key; or it dies.
DisconnectEndsBoth ==
  cancelled ~> ~alive \/ (disc = "none" /\ conn \in {"none", "get", "authKey"})

\* Disconnect passes nil to the pool, of which the process dies, only if a
\* Connect ran between its two looks at the client.
DiesOfOverlap == disc \in {"nil", "dead"} => overlap \/ late > 0

\* "clear any network configuration setup for the mesh tunnel": once Connect
\* and Disconnect have returned, nothing is left.
DisconnectClears == cancelled /\ disc = "none" /\ conn = "none" => net = {}

\* "when this fn exists we would have confired that the exit node is
\* reachable otherwise the connection will be terminated."
ReachedOrTerminated == conn = "none" /\ up = "exit" => reached

-----------------------------------------------------------------------------
(* The inductive invariants: FlowInv of the TailscaleClient alone, RoleInv,  *)
(* PointerInv and the pool's BaseInv of the two together, OwedInv of how its *)
(* references and those of the others add up before a second Disconnect.     *)

FlowInv ==
  /\ disc # "none" => cancelled
  /\ disc # "none" /\ ~overlap /\ late = 0 => conn = "none"
  /\ cancelled /\ ~overlap => conn \in {"none", "get", "authKey", "login"}
  /\ conn = "login" => connState # "Connected" /\ waitForExitNode = egress
  /\ conn \in ExitSteps => reached
  /\ conn \in {"splitRoutes", "defaultRoute"} /\ ~overlap => "endpointRoutes" \in net
  /\ conn = "defaultRoute" /\ ~overlap => "splitRoutes" \in net

MeshFlowInv ==
  /\ MeshTypeOK
  /\ FlowInv
  /\ ConnectedMeansReached
  /\ DefaultRouteLast
  /\ OnlyOverlapLeaves

\* Connect only gets and Disconnect only releases.
RoleInv ==
  /\ pc[Mesh] \in {"idle", "kept", "getLock", "lookup", "create", "share",
                   "waitAuth", "use"}
  /\ pc[Hangup] \in {"idle", "putLock", "find", "drop", "stop", "lower", "kept"}
  /\ disc = "release" <=> pc[Hangup] # "idle"
  /\ conn # "get" => pc[Mesh] \in {"idle", "kept", "use"}

\* What Disconnect has seen of the pointer holds while no Connect overlaps it.
NilInv ==
  /\ disc = "read" /\ ~overlap /\ late = 0 => client[Mesh] # None
  /\ DiesOfOverlap

\* A pointer, even one that was released, leads to a client made for a space.
PointerInv == \A c \in Callers : client[c] # None => node[client[c]] \in Spaces

PoolMeshInv == BaseInv /\ RoleInv /\ PointerInv

\* The release of Disconnect's that is under way.
Releasing == {"putLock", "find", "drop", "lower"}

\* Disconnect has yet to read the pointer to the client it will release.
Unread == ~cancelled \/ disc \in {"test", "read"}

\* A reference to cl that the one Disconnect has to release, now or later.
Owed(cl) ==
  \/ pc[Hangup] \in Releasing /\ client[Hangup] = cl
  \/ Unread /\ client[Mesh] = cl
  \/ Unread /\ pc[Mesh] = "waitAuth" /\ ref[Mesh] = cl

OthersHolding(cl) == {c \in Others : Holds(c, cl)}

\* The others release once, and their clients are the pool's.
OthersInv ==
  \A c \in Others : pc[c] # "kept" /\ (pc[c] \in Leased => Entry(c) = client[c])

\* So is the client the one Disconnect has to release, or is releasing.
OwedEntryInv ==
  /\ pc[Hangup] \in Releasing => Entry(Hangup) = client[Hangup]
  /\ Unread /\ client[Mesh] # None => Entry(Mesh) = client[Mesh]

\* The count of a pooled client covers the others that hold it and what is owed.
CoverInv ==
  \A cl \in Clients : Pooled(cl) =>
    refCount[cl] + 1 >= Cardinality(OthersHolding(cl)) + (IF Owed(cl) THEN 1 ELSE 0)

OwedInv == disconnects <= 1 => OthersInv /\ OwedEntryInv /\ CoverInv
=============================================================================
