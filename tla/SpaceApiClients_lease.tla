-------------------------- MODULE SpaceApiClients_lease --------------------------
(***************************************************************************)
(* Proof that the pool of space API clients implements ClientLease when    *)
(* every caller releases what it got once, for every set of callers,       *)
(* spaces and clients.                                                     *)
(***************************************************************************)
EXTENDS SpaceApiClients_proofs

\* A step of the abstract service, or one that changes nothing of it.
AbstractStep == [Service!Next]_(Service!vars)

\* A forsaken client runs: the identity of a new client is not forsaken.
ForsakenRuns == \A cl \in Clients : abandoned[cl] > 0 => cl \in running

\* No step stops a client that a Get gave up on, nor forsakes one that does
\* not run.
LEMMA NextForsaken ==
  ASSUME Careless = {}, IInv, ForsakenRuns, [Next]_vars
  PROVE  ForsakenRuns'
<1> USE DEF ForsakenRuns, IInv, BaseInv, TypeOK
<1>1. CASE UNCHANGED vars
  BY <1>1 DEF vars
<1>2. CASE Next
  <2>1. PICK c \in Callers :
          \/ \E sp \in Spaces : CallGet(c, sp) \/ CallGetAgain(c, sp)
          \/ LockGet(c)
          \/ CallRelease(c)
          \/ LockPut(c)
          \/ Inside(c)
    BY <1>2 DEF Next
  <2>2. CASE \E sp \in Spaces : CallGet(c, sp) \/ CallGetAgain(c, sp)
    BY <2>2 DEF CallGet, CallGetAgain
  <2>3. CASE LockGet(c) \/ CallRelease(c) \/ LockPut(c)
    BY <2>3 DEF LockGet, CallRelease, LockPut
  <2>4. CASE \E cl \in Clients : Create(c, cl)
    BY <2>4 DEF Create
  <2>5. CASE TimedOut(c)
    BY <2>5, ConstantsAssumption DEF TimedOut, RefInv, PoolInv, ArgumentInv
  <2>6. CASE Stop(c)
    BY <2>6 DEF Stop, OnceInv
  <2>7. CASE Lookup(c) \/ CreateFailed(c) \/ Share(c) \/ Authenticated(c) \/ Find(c)
             \/ FindNothing(c) \/ Drop(c) \/ Lower(c)
    BY <2>7 DEF Lookup, CreateFailed, Share, Authenticated, Find, FindNothing, Drop,
                Lower
  <2>8. QED
    BY <2>1, <2>2, <2>3, <2>4, <2>5, <2>6, <2>7 DEF Inside
<1>3. QED
  BY <1>1, <1>2

-----------------------------------------------------------------------------
(* One lemma per step of the pool: the step of the service it stands for. *)

\* Calling Get asks for a client of the space.
LEMMA CallGetAsks ==
  ASSUME Careless = {}, IInv, NEW c \in Callers, NEW sp \in Spaces, CallGet(c, sp)
  PROVE  Service!Ask(c, sp)
BY DEF Service!Ask, Want, Lease, Forsaken, CallGet, Goto, IInv, BaseInv, TypeOK,
       OnceInv, Leased

\* Taking the mutex, the lookups, counting one more holder and calling Release
\* change nothing that a caller sees.
LEMMA QuietSteps ==
  ASSUME Careless = {}, IInv, NEW c \in Callers,
         LockGet(c) \/ CallRelease(c) \/ LockPut(c) \/ Lookup(c) \/ Share(c) \/ Find(c)
  PROVE  UNCHANGED Service!vars
<1> USE DEF IInv, BaseInv, TypeOK
<1>1. UNCHANGED <<pool, running, abandoned, space, client>>
  BY DEF LockGet, CallRelease, LockPut, Lookup, Share, Find
<1>2. ASSUME NEW d \in Callers
      PROVE  Want[d]' = Want[d] /\ Lease[d]' = Lease[d]
  BY DEF LockGet, CallRelease, LockPut, Lookup, Share, Find, Goto, Want, Lease, Leased,
         OnceInv
<1>3. Want' = Want /\ Lease' = Lease
  BY <1>2 DEF Want, Lease
<1>4. QED
  BY <1>1, <1>3 DEF Service!vars, Forsaken

\* Starting a client for a space nobody serves starts it in the service.
LEMMA CreateStarts ==
  ASSUME Careless = {}, IInv, ForsakenRuns, NEW c \in Callers, NEW cl \in Clients,
         Create(c, cl)
  PROVE  Service!Start(space[c], cl)
<1> USE ConstantsAssumption DEF Create, Goto, IInv, BaseInv, TypeOK
<1>1. /\ pool[space[c]] = None /\ space[c] \in Spaces
      /\ cl \notin running
      /\ pool' = [pool EXCEPT ![space[c]] = cl]
      /\ running' = running \cup {cl}
  BY DEF RefInv, ArgumentInv, Fresh
<1>2. Want[c] = space[c]
  BY DEF Want
<1>3. ASSUME NEW d \in Callers
      PROVE  Want[d]' = Want[d] /\ Lease[d]' = Lease[d]
  BY DEF Want, Lease, Leased
<1>4. Want' = Want /\ Lease' = Lease
  BY <1>3 DEF Want, Lease
<1>5. abandoned[cl] = 0 /\ abandoned' = [abandoned EXCEPT ![cl] = 0]
  BY <1>1 DEF ForsakenRuns
<1>6. Forsaken' = Forsaken
  BY <1>5 DEF Forsaken
<1>7. QED
  BY <1>1, <1>2, <1>4, <1>6 DEF Service!Start

\* A client that cannot be made or started is a refusal that forsakes nothing.
LEMMA CreateFailedRefuses ==
  ASSUME Careless = {}, IInv, NEW c \in Callers, CreateFailed(c)
  PROVE  Service!Refuse(c)
<1> USE ConstantsAssumption DEF CreateFailed, Goto, IInv, BaseInv, TypeOK
<1>1. Want[c] = space[c] /\ space[c] \in Spaces /\ pool[space[c]] = None
  BY DEF Want, RefInv, ArgumentInv
<1>2. Want' = [Want EXCEPT ![c] = None] /\ Lease' = Lease
  BY DEF Want, Lease, Leased
<1>3. UNCHANGED <<pool, running, Forsaken>>
  BY DEF Forsaken
<1>4. QED
  BY <1>1, <1>2, <1>3 DEF Service!Refuse

\* A client that has authenticated is granted.
LEMMA AuthenticatedGrants ==
  ASSUME Careless = {}, IInv, NEW c \in Callers, Authenticated(c)
  PROVE  Service!Grant(c)
<1> USE ConstantsAssumption DEF Authenticated, Goto, IInv, BaseInv, TypeOK
<1>1. /\ Want[c] = space[c] /\ space[c] \in Spaces
      /\ pool[space[c]] = ref[c] /\ ref[c] \in running
  BY DEF Want, RefInv, ArgumentInv, PoolInv
<1>2. Want' = [Want EXCEPT ![c] = None]
  BY DEF Want
<1>3. Lease' = [Lease EXCEPT ![c] = ref[c]]
  BY DEF Lease, Leased
<1>4. UNCHANGED <<pool, running, Forsaken>>
  BY DEF Forsaken
<1>5. QED
  BY <1>1, <1>2, <1>3, <1>4 DEF Service!Grant

\* A client that has not authenticated in time is forsaken.
LEMMA TimedOutForsakes ==
  ASSUME Careless = {}, IInv, NEW c \in Callers, TimedOut(c)
  PROVE  Service!Refuse(c)
<1> USE ConstantsAssumption DEF TimedOut, Goto, IInv, BaseInv, TypeOK
<1>1. /\ Want[c] = space[c] /\ space[c] \in Spaces
      /\ pool[space[c]] = ref[c] /\ ref[c] \in Clients
  BY DEF Want, RefInv, ArgumentInv
<1>2. Want' = [Want EXCEPT ![c] = None] /\ Lease' = Lease
  BY DEF Want, Lease, Leased
<1>3. abandoned' = [abandoned EXCEPT ![ref[c]] = @ + 1]
  OBVIOUS
<1>4. Forsaken' = Forsaken \cup {ref[c]}
  BY <1>1, <1>3 DEF Forsaken
<1>5. QED
  BY <1>1, <1>2, <1>4 DEF Service!Refuse

\* What returning a lease changes for the callers.
LEMMA LeaseEnds ==
  ASSUME Careless = {}, IInv, NEW c \in Callers, Drop(c) \/ Lower(c)
  PROVE  /\ Want' = Want
         /\ Lease[c] = client[c] /\ client[c] \in Clients
         /\ Lease' = [Lease EXCEPT ![c] = None]
         /\ UNCHANGED <<running, Forsaken>>
<1> USE ConstantsAssumption
    DEF Drop, Lower, Return, Goto, IInv, BaseInv, TypeOK
<1>1. ASSUME NEW d \in Callers
      PROVE  Want[d]' = Want[d]
  BY DEF Want
<1>2. Lease[c] = client[c] /\ client[c] \in Clients
  BY DEF Lease, Leased, ArgumentInv
<1>3. Lease' = [Lease EXCEPT ![c] = None]
  BY DEF Lease, Leased
<1>4. QED
  BY <1>1, <1>2, <1>3 DEF Want, Forsaken

\* A caller's lease is of the client it holds.
LEMMA LeaseIsHeld ==
  ASSUME NEW c \in Callers, NEW cl \in Clients, None \notin Clients, Lease[c] = cl
  PROVE  c \in Holders(cl)
BY DEF Lease, Holders, Holds

\* The entry goes with the last lease.
LEMMA DropReturnsLast ==
  ASSUME Careless = {}, IInv, NEW c \in Callers, Drop(c)
  PROVE  Service!Return(c)
<1> USE ConstantsAssumption DEF Drop, Goto, IInv, BaseInv, TypeOK
<1> DEFINE cl == client[c]
<1>1. /\ Lease[c] = cl /\ cl \in Clients /\ Want' = Want
      /\ Lease' = [Lease EXCEPT ![c] = None]
      /\ UNCHANGED <<running, Forsaken>>
  BY LeaseEnds
<1>2. Holders(cl) = {c} /\ abandoned[cl] = 0
  BY LastHolder
<1>3. Service!LastLease(c)
  BY <1>1, <1>2, LeaseIsHeld DEF Service!LastLease, Forsaken
<1>4. node[cl] \in Spaces /\ pool[node[cl]] = cl
  BY DEF ArgumentInv, LeaseInv, Leased, Entry
<1>5. \A sp \in Spaces : pool[sp] = cl <=> sp = node[cl]
  BY <1>1, <1>4 DEF PoolInv
<1>6. pool' = [sp \in Spaces |-> IF pool[sp] = cl THEN None ELSE pool[sp]]
  BY <1>4, <1>5
<1>7. QED
  BY <1>1, <1>3, <1>6 DEF Service!Return

\* Another lease, or a Get that timed out, keeps the entry.
LEMMA LowerReturnsOne ==
  ASSUME Careless = {}, IInv, NEW c \in Callers, Lower(c)
  PROVE  Service!Return(c)
<1> USE ConstantsAssumption DEF Lower, Goto, IInv, BaseInv, TypeOK
<1> DEFINE cl == client[c]
<1>1. /\ Lease[c] = cl /\ cl \in Clients /\ Want' = Want
      /\ Lease' = [Lease EXCEPT ![c] = None]
      /\ UNCHANGED <<running, Forsaken>>
  BY LeaseEnds
<1>2. node[cl] \in Spaces /\ pool[node[cl]] = cl /\ refCount[cl] > 0
  BY DEF ArgumentInv, LeaseInv, RefInv, Leased, Entry
<1>3. refCount[cl] + 1 = Cardinality(Holders(cl)) + abandoned[cl]
  BY <1>1, <1>2 DEF RefsConserved, Pooled
<1>4. abandoned[cl] > 0 \/ Cardinality(Holders(cl)) # 1
  BY <1>1, <1>2, <1>3, HoldersFinite
<1>5. abandoned[cl] > 0 \/ Holders(cl) # {c}
  BY <1>4, FS_Singleton
<1>6. c \in Holders(cl)
  BY DEF Holders, Holds, Leased
<1>7. ASSUME NEW d \in Callers, d \in Holders(cl), d # c
      PROVE  Lease[d] = cl
  BY <1>7 DEF Holders, Holds, Lease, MutexInv, Critical
<1>8. ~ Service!LastLease(c)
  BY <1>1, <1>5, <1>6, <1>7 DEF Service!LastLease, Forsaken, Holders
<1>9. pool' = [sp \in Spaces |->
                 IF pool[sp] = cl /\ Service!LastLease(c) THEN None ELSE pool[sp]]
  BY <1>8
<1>10. QED
  BY <1>1, <1>9 DEF Service!Return

\* Only a client that has left the pool is stopped.
LEMMA StopStops ==
  ASSUME Careless = {}, IInv, NEW c \in Callers, Stop(c)
  PROVE  Service!Stop(ref[c])
<1> USE ConstantsAssumption DEF Stop, Return, Goto, IInv, BaseInv, TypeOK
<1>1. ref[c] \in running /\ \A sp \in Spaces : pool[sp] # ref[c]
  BY DEF RefInv, PoolInv
<1>2. ASSUME NEW d \in Callers
      PROVE  Want[d]' = Want[d] /\ Lease[d]' = Lease[d]
  BY DEF Want, Lease, Leased
<1>3. Want' = Want /\ Lease' = Lease
  BY <1>2 DEF Want, Lease
<1>4. QED
  BY <1>1, <1>3 DEF Service!Stop, Forsaken

-----------------------------------------------------------------------------
(* Refinement *)

\* The pool starts as the service starts.
LEMMA InitImplements == Init => Service!Init /\ ForsakenRuns
BY DEF Init, Service!Init, Want, Lease, Forsaken, ForsakenRuns, Leased

\* Every step of the pool is a step of the service, or changes nothing of it.
LEMMA StepImplements ==
  ASSUME Careless = {}, IInv, ForsakenRuns, [Next]_vars
  PROVE  AbstractStep
<1> USE DEF AbstractStep
<1>1. CASE UNCHANGED vars
  BY <1>1 DEF vars, Service!vars, Want, Lease, Forsaken
<1>2. CASE Next
  <2>1. PICK c \in Callers :
          \/ \E sp \in Spaces : CallGet(c, sp) \/ CallGetAgain(c, sp)
          \/ LockGet(c)
          \/ CallRelease(c)
          \/ LockPut(c)
          \/ Inside(c)
    BY <1>2 DEF Next
  <2>2. CASE \E sp \in Spaces : CallGet(c, sp) \/ CallGetAgain(c, sp)
    BY <2>2, CallGetAsks, CallGetAgainLease DEF Service!Next
  <2>3. CASE LockGet(c) \/ CallRelease(c) \/ LockPut(c) \/ Lookup(c) \/ Share(c) \/ Find(c)
    BY <2>3, QuietSteps
  <2>4. CASE \E cl \in Clients : Create(c, cl)
    <3>1. space[c] \in Spaces
      BY <2>4 DEF Create, IInv, BaseInv, ArgumentInv
    <3>2. QED
      BY <2>4, <3>1, CreateStarts DEF Service!Next
  <2>5. CASE CreateFailed(c) \/ TimedOut(c)
    BY <2>5, CreateFailedRefuses, TimedOutForsakes DEF Service!Next
  <2>6. CASE Authenticated(c)
    BY <2>6, AuthenticatedGrants DEF Service!Next
  <2>7. CASE Drop(c) \/ Lower(c)
    BY <2>7, DropReturnsLast, LowerReturnsOne DEF Service!Next
  <2>8. CASE Stop(c)
    <3>1. ref[c] \in Clients
      BY <2>8 DEF Stop, IInv, BaseInv, RefInv, TypeOK
    <3>2. QED
      BY <2>8, <3>1, StopStops DEF Service!Next
  <2>9. CASE FindNothing(c)
    BY <2>9, FindNothingLease
  <2>10. QED
    BY <2>1, <2>2, <2>3, <2>4, <2>5, <2>6, <2>7, <2>8, <2>9 DEF Inside
<1>3. QED
  BY <1>1, <1>2

\* The pool implements the lease service for callers that release once.
THEOREM PoolImplementsLease ==
  ASSUME Careless = {}
  PROVE  Spec => ImplementsClientLease
<1>1. IInv /\ ForsakenRuns /\ [Next]_vars => ForsakenRuns'
  BY NextForsaken
<1>2. Spec => []ForsakenRuns
  BY <1>1, InitImplements, OnceInvariant, PTL DEF Spec
<1>3. IInv /\ ForsakenRuns /\ [Next]_vars => [Service!Next]_(Service!vars)
  BY StepImplements DEF AbstractStep
<1>4. QED
  BY <1>2, <1>3, InitImplements, OnceInvariant, PTL
     DEF Spec, ImplementsClientLease, Service!Spec
=============================================================================
