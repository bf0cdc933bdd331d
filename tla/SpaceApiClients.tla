--------------------------- MODULE SpaceApiClients ---------------------------
(***************************************************************************)
(* The pool of reference-counted space node API clients of SpaceNodes      *)
(* (mycscloud/space_nodes.go): GetApiClientForSpace hands the one client   *)
(* of a space to every caller that asks for it and                         *)
(* ReleaseApiClientForSpace stops it when the last caller lets go.  Both   *)
(* run under the mutex apiClientSync, and Get keeps the mutex while it     *)
(* waits for the client to authenticate.  Each statement that reads or     *)
(* writes the pool is a step of its own, so it is the mutex, not the       *)
(* grain of the model, that keeps two calls apart.                         *)
(***************************************************************************)
EXTENDS Integers, FiniteSets

CONSTANTS
  Callers,       \* goroutines that use the pool
  Spaces,        \* space nodes, by Key()
  Clients,       \* identities of mycsnode.ApiClient instances
  None,          \* a nil pointer, an absent map entry, a free mutex
  Careless,      \* the callers that, like TailscaleClient, keep the pointer
                 \* they have released, may release it again, and may Get
                 \* again before they release
  MaxAbandoned   \* bound: the references to one client that are given up
                 \* without a Release

ASSUME ConstantsAssumption ==
  /\ IsFiniteSet(Callers)
  /\ None \notin Callers \cup Spaces \cup Clients
  /\ Careless \subseteq Callers
  /\ MaxAbandoned \in Nat

VARIABLES
  mutex,      \* the caller that holds apiClientSync, or None
  pool,       \* spaceAPIClients: space -> client or None
  refCount,   \* apiClientInstance.refCount, by client
  node,       \* the space a client was made for (ApiClient.GetSpaceNode)
  running,    \* the clients that were started and not stopped
  pc,         \* where each caller stands
  space,      \* the argument of the caller's latest Get
  ref,        \* the local variable ref of the caller's call
  client,     \* the client the caller holds
  abandoned   \* history: references to a client that nobody is left to
              \* release, by client

vars == <<mutex, pool, refCount, node, running, pc, space, ref, client,
          abandoned>>

\* Program points inside the critical section.
Critical == {"lookup", "create", "share", "waitAuth",
             "find", "drop", "stop", "lower"}
\* Program points at which a caller still owns the reference it was given.
Leased == {"use", "putLock", "find", "drop", "lower"}
Points == Critical \cup {"idle", "getLock", "use", "putLock", "kept"}

TypeOK ==
  /\ mutex \in Callers \cup {None}
  /\ pool \in [Spaces -> Clients \cup {None}]
  /\ refCount \in [Clients -> Nat]
  /\ node \in [Clients -> Spaces \cup {None}]
  /\ running \in SUBSET Clients
  /\ pc \in [Callers -> Points]
  /\ space \in [Callers -> Spaces \cup {None}]
  /\ ref \in [Callers -> Clients \cup {None}]
  /\ client \in [Callers -> Clients \cup {None}]
  /\ abandoned \in [Clients -> Nat]

Init ==
  /\ mutex = None
  /\ pool = [sp \in Spaces |-> None]
  /\ refCount = [cl \in Clients |-> 0]
  /\ node = [cl \in Clients |-> None]
  /\ running = {}
  /\ pc = [c \in Callers |-> "idle"]
  /\ space = [c \in Callers |-> None]
  /\ ref = [c \in Callers |-> None]
  /\ client = [c \in Callers |-> None]
  /\ abandoned = [cl \in Clients |-> 0]

Goto(c, point) == pc' = [pc EXCEPT ![c] = point]

Lock(c) == mutex = None /\ mutex' = c
Unlock(c) == mutex' = None

\* An identity no pointer of the program refers to: a new allocation.
Fresh(cl) ==
  /\ cl \notin running
  /\ \A sp \in Spaces : pool[sp] # cl
  /\ \A c \in Callers : ref[c] # cl /\ client[c] # cl

-----------------------------------------------------------------------------
(* GetApiClientForSpace *)

CallGet(c, sp) ==
  /\ pc[c] \in {"idle", "kept"}
  /\ space' = [space EXCEPT ![c] = sp]
  /\ Goto(c, "getLock")
  /\ UNCHANGED <<mutex, pool, refCount, node, running, ref, client, abandoned>>

\* A caller that has a client asks for another one: Get's result will
\* overwrite its only pointer to the first.
CallGetAgain(c, sp) ==
  /\ pc[c] = "use" /\ c \in Careless
  /\ abandoned[client[c]] < MaxAbandoned
  /\ abandoned' = [abandoned EXCEPT ![client[c]] = @ + 1]
  /\ space' = [space EXCEPT ![c] = sp]
  /\ Goto(c, "getLock")
  /\ UNCHANGED <<mutex, pool, refCount, node, running, ref, client>>

\* Mutant of LockGet: Get does not wait for the mutex.
LockGetUnguarded(c) ==
  /\ pc[c] = "getLock"
  /\ Goto(c, "lookup")
  /\ UNCHANGED <<mutex, pool, refCount, node, running, space, ref, client,
                 abandoned>>

LockGet(c) ==
  /\ pc[c] = "getLock"
  /\ Lock(c)
  /\ Goto(c, "lookup")
  /\ UNCHANGED <<pool, refCount, node, running, space, ref, client, abandoned>>

\* ref, exists = sn.spaceAPIClients[space.Key()]
Lookup(c) ==
  /\ pc[c] = "lookup"
  /\ ref' = [ref EXCEPT ![c] = pool[space[c]]]
  /\ Goto(c, IF pool[space[c]] = None THEN "create" ELSE "share")
  /\ UNCHANGED <<mutex, pool, refCount, node, running, space, client, abandoned>>

\* NewApiClient and Start succeed: the new instance enters the map.
Create(c, cl) ==
  /\ pc[c] = "create"
  /\ Fresh(cl)
  /\ ref' = [ref EXCEPT ![c] = cl]
  /\ node' = [node EXCEPT ![cl] = space[c]]
  /\ running' = running \cup {cl}
  /\ refCount' = [refCount EXCEPT ![cl] = 0]
  /\ abandoned' = [abandoned EXCEPT ![cl] = 0]
  /\ pool' = [pool EXCEPT ![space[c]] = cl]
  /\ Goto(c, "waitAuth")
  /\ UNCHANGED <<mutex, space, client>>

\* NewApiClient or Start fails: the error is returned and nothing is kept.
CreateFailed(c) ==
  /\ pc[c] = "create"
  /\ client' = [client EXCEPT ![c] = None]
  /\ Unlock(c)
  /\ Goto(c, "idle")
  /\ UNCHANGED <<pool, refCount, node, running, space, ref, abandoned>>

\* Mutant of Share: the reference of the second holder is not counted.
ShareUncounted(c) ==
  /\ pc[c] = "share"
  /\ Goto(c, "waitAuth")
  /\ UNCHANGED <<mutex, pool, refCount, node, running, space, ref, client,
                 abandoned>>

Share(c) ==
  /\ pc[c] = "share"
  /\ refCount' = [refCount EXCEPT ![ref[c]] = @ + 1]
  /\ Goto(c, "waitAuth")
  /\ UNCHANGED <<mutex, pool, node, running, space, ref, client, abandoned>>

\* WaitForAuth returned true: the caller gets the client.
Authenticated(c) ==
  /\ pc[c] = "waitAuth"
  /\ client' = [client EXCEPT ![c] = ref[c]]
  /\ ref' = [ref EXCEPT ![c] = None]
  /\ Unlock(c)
  /\ Goto(c, "use")
  /\ UNCHANGED <<pool, refCount, node, running, space, abandoned>>

\* Mutant of TimedOut: an error path that forgets the mutex.
TimedOutLocked(c) ==
  /\ pc[c] = "waitAuth"
  /\ abandoned[ref[c]] < MaxAbandoned
  /\ abandoned' = [abandoned EXCEPT ![ref[c]] = @ + 1]
  /\ client' = [client EXCEPT ![c] = None]
  /\ ref' = [ref EXCEPT ![c] = None]
  /\ Goto(c, "idle")
  /\ UNCHANGED <<mutex, pool, refCount, node, running, space>>

\* WaitForAuth returned false: the caller gets nil and an error, while the
\* instance stays in the map with the reference just taken for the caller.
TimedOut(c) ==
  /\ pc[c] = "waitAuth"
  /\ abandoned[ref[c]] < MaxAbandoned
  /\ abandoned' = [abandoned EXCEPT ![ref[c]] = @ + 1]
  /\ client' = [client EXCEPT ![c] = None]
  /\ ref' = [ref EXCEPT ![c] = None]
  /\ Unlock(c)
  /\ Goto(c, "idle")
  /\ UNCHANGED <<pool, refCount, node, running, space>>

-----------------------------------------------------------------------------
(* ReleaseApiClientForSpace *)

CallRelease(c) ==
  /\ pc[c] \in {"use", "kept"}
  /\ Goto(c, "putLock")
  /\ UNCHANGED <<mutex, pool, refCount, node, running, space, ref, client,
                 abandoned>>

\* Mutant of LockPut: Release does not wait for the mutex.
LockPutUnguarded(c) ==
  /\ pc[c] = "putLock"
  /\ Goto(c, "find")
  /\ UNCHANGED <<mutex, pool, refCount, node, running, space, ref, client,
                 abandoned>>

LockPut(c) ==
  /\ pc[c] = "putLock"
  /\ Lock(c)
  /\ Goto(c, "find")
  /\ UNCHANGED <<pool, refCount, node, running, space, ref, client, abandoned>>

\* What a caller does with its pointer once Release has returned.
Return(c) ==
  /\ Unlock(c)
  /\ ref' = [ref EXCEPT ![c] = None]
  /\ IF c \in Careless
       THEN Goto(c, "kept") /\ UNCHANGED client
       ELSE Goto(c, "idle") /\ client' = [client EXCEPT ![c] = None]

\* The entry is looked up by the key of the client's node, whichever client
\* that entry holds by now.
Entry(c) == pool[node[client[c]]]

\* Mutants of Find: the count of the last holder is taken to be 1, not 0.
FindCountsFromOne(c) ==
  /\ pc[c] = "find"
  /\ Entry(c) # None
  /\ ref' = [ref EXCEPT ![c] = Entry(c)]
  /\ Goto(c, IF refCount[Entry(c)] = 1 THEN "drop" ELSE "lower")
  /\ UNCHANGED <<mutex, pool, refCount, node, running, space, client, abandoned>>
FindDropsEarly(c) ==
  /\ pc[c] = "find"
  /\ Entry(c) # None
  /\ ref' = [ref EXCEPT ![c] = Entry(c)]
  /\ Goto(c, IF refCount[Entry(c)] <= 1 THEN "drop" ELSE "lower")
  /\ UNCHANGED <<mutex, pool, refCount, node, running, space, client, abandoned>>

Find(c) ==
  /\ pc[c] = "find"
  /\ Entry(c) # None
  /\ ref' = [ref EXCEPT ![c] = Entry(c)]
  /\ Goto(c, IF refCount[Entry(c)] = 0 THEN "drop" ELSE "lower")
  /\ UNCHANGED <<mutex, pool, refCount, node, running, space, client, abandoned>>

\* Mutant of FindNothing: the return for an unknown key forgets the mutex.
FindNothingLocked(c) ==
  /\ pc[c] = "find"
  /\ Entry(c) = None
  /\ Goto(c, IF c \in Careless THEN "kept" ELSE "idle")
  /\ UNCHANGED <<mutex, pool, refCount, node, running, space, ref, client,
                 abandoned>>

\* No entry for the key: an error is logged and nothing is released.
FindNothing(c) ==
  /\ pc[c] = "find"
  /\ Entry(c) = None
  /\ Return(c)
  /\ UNCHANGED <<pool, refCount, node, running, space, abandoned>>

Drop(c) ==
  /\ pc[c] = "drop"
  /\ pool' = [pool EXCEPT ![node[client[c]]] = None]
  /\ Goto(c, "stop")
  /\ UNCHANGED <<mutex, refCount, node, running, space, ref, client, abandoned>>

\* Mutant of Stop: the client given to Release is stopped, not the entry's.
StopArgument(c) ==
  /\ pc[c] = "stop"
  /\ running' = running \ {client[c]}
  /\ Return(c)
  /\ UNCHANGED <<pool, refCount, node, space, abandoned>>

Stop(c) ==
  /\ pc[c] = "stop"
  /\ running' = running \ {ref[c]}
  /\ Return(c)
  /\ UNCHANGED <<pool, refCount, node, space, abandoned>>

Lower(c) ==
  /\ pc[c] = "lower"
  /\ refCount' = [refCount EXCEPT ![ref[c]] = @ - 1]
  /\ Return(c)
  /\ UNCHANGED <<pool, node, running, space, abandoned>>

-----------------------------------------------------------------------------
\* The steps of a call that has the mutex.
Inside(c) ==
  \/ Lookup(c)
  \/ \E cl \in Clients : Create(c, cl)
  \/ CreateFailed(c)
  \/ Share(c)
  \/ Authenticated(c)
  \/ TimedOut(c)
  \/ Find(c)
  \/ FindNothing(c)
  \/ Drop(c)
  \/ Stop(c)
  \/ Lower(c)

Next ==
  \E c \in Callers :
    \/ \E sp \in Spaces : CallGet(c, sp) \/ CallGetAgain(c, sp)
    \/ LockGet(c)
    \/ CallRelease(c)
    \/ LockPut(c)
    \/ Inside(c)

Spec == Init /\ [][Next]_vars

(***************************************************************************)
(* sync.Mutex hands the lock to a waiter that has starved for 1 ms, so a   *)
(* waiter gets a lock that is free again and again: strong fairness.       *)
(* WaitForAuth has a timeout and the other statements do not block: weak   *)
(* fairness.  Nothing makes a caller call.                                 *)
(***************************************************************************)
FairSpec ==
  /\ Spec
  /\ \A c \in Callers : WF_vars(Inside(c))
                        /\ SF_vars(LockGet(c)) /\ SF_vars(LockPut(c))

-----------------------------------------------------------------------------
(* Properties *)

\* A caller that was handed a client and has not released it can use it: no
\* interleaving of other callers' Release calls stops or unmaps it.
NoUseAfterStop ==
  \A c \in Callers :
    pc[c] \in Leased => client[c] \in running /\ Entry(c) = client[c]

Holds(c, cl) ==
  \/ pc[c] = "waitAuth" /\ ref[c] = cl
  \/ pc[c] \in Leased /\ client[c] = cl
Holders(cl) == {c \in Callers : Holds(c, cl)}

Pooled(cl) == \E sp \in Spaces : pool[sp] = cl

\* The reference count of a pooled client, which starts at 0 for its first
\* holder, counts exactly its holders and the Gets that timed out on it,
\* except while a holder is about to change it.
RefsConserved ==
  \A cl \in Clients :
    Pooled(cl) => refCount[cl] + 1 = Cardinality(Holders(cl)) + abandoned[cl]

\* A started client can always be stopped through the pool, unless a
\* Release is about to stop it; so no two clients of a space run but for the
\* moment of a Stop.
RunningIsPooled ==
  \A cl \in running :
    pool[node[cl]] = cl \/ \E c \in Callers : pc[c] = "stop" /\ ref[c] = cl

\* A client that a Get gave up on after the authentication timeout is never
\* stopped again: the reference taken by that Get is nobody's to release.
AbandonedStaysRunning ==
  [][\A cl \in Clients : abandoned[cl] > 0 /\ cl \in running => cl \in running']_vars

\* Whatever the other callers release, and however often, the client that a
\* Get is about to hand out is running.
HandedOutRunning ==
  \A c \in Callers : pc[c] = "waitAuth" => ref[c] \in running

\* Every Get returns: with a client, or with an error.
GetReturns ==
  \A c \in Callers : pc[c] = "getLock" ~> pc[c] \in {"use", "idle"}
\* Every Release returns, although Get holds the mutex while it waits for
\* authentication.
ReleaseReturns ==
  \A c \in Callers : pc[c] = "putLock" ~> pc[c] \in {"idle", "kept"}

\* What the callers see of the pool, and the abstract specification of it.
Want == [c \in Callers |->
  IF pc[c] \in {"getLock", "lookup", "create", "share", "waitAuth"}
    THEN space[c] ELSE None]
Lease == [c \in Callers |-> IF pc[c] \in Leased THEN client[c] ELSE None]
Forsaken == {cl \in Clients : abandoned[cl] > 0}
Service == INSTANCE ClientLease
  WITH want <- Want, lease <- Lease, serving <- pool, forsaken <- Forsaken

\* With callers that release what they got once, mutex, map and reference
\* counts implement the abstract lease service: a caller gets the one running
\* client of the space it asked for, and a client leaves service exactly at
\* the Release of its last lease, or never once a Get gave up on it.
ImplementsClientLease == Service!Spec

-----------------------------------------------------------------------------
(* The inductive invariants: BaseInv holds for every caller discipline, IInv *)
(* adds what holds when every caller releases what it got once.             *)

MutexInv == \A c \in Callers : pc[c] \in Critical <=> mutex = c

PoolInv ==
  \A sp \in Spaces :
    pool[sp] # None => pool[sp] \in running /\ node[pool[sp]] = sp

RunningInv == \A cl \in running : node[cl] \in Spaces

\* The arguments a call works on are there.
ArgumentInv ==
  \A c \in Callers :
    /\ pc[c] \in {"getLock", "lookup", "create", "share", "waitAuth"}
         => space[c] \in Spaces
    /\ pc[c] \in Leased \cup {"kept", "stop"}
         => client[c] \in Clients /\ node[client[c]] \in Spaces

\* What ref points to, at each point of the critical section.
RefInv ==
  \A c \in Callers :
    /\ pc[c] = "create" => pool[space[c]] = None
    /\ pc[c] \in {"share", "waitAuth"} =>
         ref[c] \in Clients /\ pool[space[c]] = ref[c]
    /\ pc[c] \in {"drop", "lower"} => ref[c] \in Clients /\ Entry(c) = ref[c]
    /\ pc[c] = "drop" => refCount[ref[c]] = 0
    /\ pc[c] = "lower" => refCount[ref[c]] > 0
    /\ pc[c] = "stop" => ref[c] \in running /\ pool[node[ref[c]]] = None

BaseInv ==
  /\ TypeOK
  /\ MutexInv
  /\ PoolInv
  /\ RunningInv
  /\ ArgumentInv
  /\ RefInv
  /\ RunningIsPooled

LeaseInv == \A c \in Callers : pc[c] \in Leased => Entry(c) = client[c]

\* Nobody repeats a Release, and the client being stopped has no reference
\* left behind by a Get that timed out.
OnceInv ==
  \A c \in Callers :
    /\ pc[c] # "kept"
    /\ pc[c] = "stop" => abandoned[ref[c]] = 0

IInv ==
  /\ BaseInv
  /\ LeaseInv
  /\ OnceInv
  /\ RefsConserved
=============================================================================
