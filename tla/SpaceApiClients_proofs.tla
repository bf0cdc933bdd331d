------------------------ MODULE SpaceApiClients_proofs ------------------------
(***************************************************************************)
(* Proofs about the pool of space API clients, for every set of callers,   *)
(* spaces and clients.                                                     *)
(***************************************************************************)
EXTENDS SpaceApiClients, FiniteSetTheorems, TLAPS

\* The initial state satisfies the base invariant.
LEMMA InitBase == Init => BaseInv
BY ConstantsAssumption
   DEF Init, BaseInv, TypeOK, MutexInv, PoolInv, RunningInv, ArgumentInv, RefInv,
       RunningIsPooled, Points, Critical, Leased

\* The base invariant survives calling Get.
LEMMA CallGetBase ==
  ASSUME BaseInv, NEW c \in Callers, NEW sp \in Spaces, CallGet(c, sp)
  PROVE  BaseInv'
<1> USE ConstantsAssumption DEF CallGet, Goto, BaseInv, TypeOK, MutexInv, Points,
        Critical, Leased
<1>1. TypeOK' /\ MutexInv'
  BY DEF ArgumentInv, RefInv, Entry
<1>2. PoolInv' /\ RunningInv'
  BY DEF PoolInv, RunningInv, ArgumentInv, RefInv, Entry, RunningIsPooled
<1>3. ArgumentInv'
  BY DEF ArgumentInv, PoolInv, RefInv, Entry
<1>4. RefInv'
  BY DEF RefInv, ArgumentInv, PoolInv, Entry
<1>5. RunningIsPooled'
  BY DEF RunningIsPooled, ArgumentInv, RefInv, PoolInv, RunningInv, Entry
<1>6. QED
  BY <1>1, <1>2, <1>3, <1>4, <1>5

\* The base invariant survives calling Get with a client at hand.
LEMMA CallGetAgainBase ==
  ASSUME BaseInv, NEW c \in Callers, NEW sp \in Spaces, CallGetAgain(c, sp)
  PROVE  BaseInv'
<1> USE ConstantsAssumption DEF CallGetAgain, Goto, BaseInv, TypeOK, MutexInv, Points,
        Critical, Leased
<1>1. TypeOK' /\ MutexInv'
  BY DEF ArgumentInv, RefInv, Entry
<1>2. PoolInv' /\ RunningInv'
  BY DEF PoolInv, RunningInv, ArgumentInv, RefInv, Entry, RunningIsPooled
<1>3. ArgumentInv'
  BY DEF ArgumentInv, PoolInv, RefInv, Entry
<1>4. RefInv'
  BY DEF RefInv, ArgumentInv, PoolInv, Entry
<1>5. RunningIsPooled'
  BY DEF RunningIsPooled, ArgumentInv, RefInv, PoolInv, RunningInv, Entry
<1>6. QED
  BY <1>1, <1>2, <1>3, <1>4, <1>5

\* The base invariant survives Get taking the mutex.
LEMMA LockGetBase ==
  ASSUME BaseInv, NEW c \in Callers, LockGet(c)
  PROVE  BaseInv'
<1> USE ConstantsAssumption DEF LockGet, Goto, Lock, BaseInv, TypeOK, MutexInv, Points,
        Critical, Leased
<1>1. TypeOK' /\ MutexInv'
  BY DEF ArgumentInv, RefInv, Entry
<1>2. PoolInv' /\ RunningInv'
  BY DEF PoolInv, RunningInv, ArgumentInv, RefInv, Entry, RunningIsPooled
<1>3. ArgumentInv'
  BY DEF ArgumentInv, PoolInv, RefInv, Entry
<1>4. RefInv'
  BY DEF RefInv, ArgumentInv, PoolInv, Entry
<1>5. RunningIsPooled'
  BY DEF RunningIsPooled, ArgumentInv, RefInv, PoolInv, RunningInv, Entry
<1>6. QED
  BY <1>1, <1>2, <1>3, <1>4, <1>5

\* The base invariant survives calling Release.
LEMMA CallReleaseBase ==
  ASSUME BaseInv, NEW c \in Callers, CallRelease(c)
  PROVE  BaseInv'
<1> USE ConstantsAssumption DEF CallRelease, Goto, BaseInv, TypeOK, MutexInv, Points,
        Critical, Leased
<1>1. TypeOK' /\ MutexInv'
  BY DEF ArgumentInv, RefInv, Entry
<1>2. PoolInv' /\ RunningInv'
  BY DEF PoolInv, RunningInv, ArgumentInv, RefInv, Entry, RunningIsPooled
<1>3. ArgumentInv'
  BY DEF ArgumentInv, PoolInv, RefInv, Entry
<1>4. RefInv'
  BY DEF RefInv, ArgumentInv, PoolInv, Entry
<1>5. RunningIsPooled'
  BY DEF RunningIsPooled, ArgumentInv, RefInv, PoolInv, RunningInv, Entry
<1>6. QED
  BY <1>1, <1>2, <1>3, <1>4, <1>5

\* The base invariant survives Release taking the mutex.
LEMMA LockPutBase ==
  ASSUME BaseInv, NEW c \in Callers, LockPut(c)
  PROVE  BaseInv'
<1> USE ConstantsAssumption DEF LockPut, Goto, Lock, BaseInv, TypeOK, MutexInv, Points,
        Critical, Leased
<1>1. TypeOK' /\ MutexInv'
  BY DEF ArgumentInv, RefInv, Entry
<1>2. PoolInv' /\ RunningInv'
  BY DEF PoolInv, RunningInv, ArgumentInv, RefInv, Entry, RunningIsPooled
<1>3. ArgumentInv'
  BY DEF ArgumentInv, PoolInv, RefInv, Entry
<1>4. RefInv'
  BY DEF RefInv, ArgumentInv, PoolInv, Entry
<1>5. RunningIsPooled'
  BY DEF RunningIsPooled, ArgumentInv, RefInv, PoolInv, RunningInv, Entry
<1>6. QED
  BY <1>1, <1>2, <1>3, <1>4, <1>5

\* The base invariant survives the lookup of the space.
LEMMA LookupBase ==
  ASSUME BaseInv, NEW c \in Callers, Lookup(c)
  PROVE  BaseInv'
<1> USE ConstantsAssumption DEF Lookup, Goto, BaseInv, TypeOK, MutexInv, Points,
        Critical, Leased
<1>1. TypeOK' /\ MutexInv'
  BY DEF ArgumentInv, RefInv, Entry
<1>2. PoolInv' /\ RunningInv'
  BY DEF PoolInv, RunningInv, ArgumentInv, RefInv, Entry, RunningIsPooled
<1>3. ArgumentInv'
  BY DEF ArgumentInv, PoolInv, RefInv, Entry
<1>4. RefInv'
  BY DEF RefInv, ArgumentInv, PoolInv, Entry
<1>5. RunningIsPooled'
  BY DEF RunningIsPooled, ArgumentInv, RefInv, PoolInv, RunningInv, Entry
<1>6. QED
  BY <1>1, <1>2, <1>3, <1>4, <1>5

\* The base invariant survives starting and pooling a new client.
LEMMA CreateBase ==
  ASSUME BaseInv, NEW c \in Callers, NEW cl \in Clients, Create(c, cl)
  PROVE  BaseInv'
<1> USE ConstantsAssumption DEF Create, Goto, Fresh, BaseInv, TypeOK, MutexInv, Points,
        Critical, Leased
<1>1. TypeOK' /\ MutexInv'
  BY DEF ArgumentInv, RefInv, Entry
<1>2. PoolInv' /\ RunningInv'
  BY DEF PoolInv, RunningInv, ArgumentInv, RefInv, Entry, RunningIsPooled
<1>3. ArgumentInv'
  BY DEF ArgumentInv, PoolInv, RefInv, Entry
<1>4. RefInv'
  BY DEF RefInv, ArgumentInv, PoolInv, Entry
<1>5. RunningIsPooled'
  BY DEF RunningIsPooled, ArgumentInv, RefInv, PoolInv, RunningInv, Entry
<1>6. QED
  BY <1>1, <1>2, <1>3, <1>4, <1>5

\* The base invariant survives the failure to make or start a client.
LEMMA CreateFailedBase ==
  ASSUME BaseInv, NEW c \in Callers, CreateFailed(c)
  PROVE  BaseInv'
<1> USE ConstantsAssumption DEF CreateFailed, Goto, Unlock, BaseInv, TypeOK, MutexInv, Points,
        Critical, Leased
<1>1. TypeOK' /\ MutexInv'
  BY DEF ArgumentInv, RefInv, Entry
<1>2. PoolInv' /\ RunningInv'
  BY DEF PoolInv, RunningInv, ArgumentInv, RefInv, Entry, RunningIsPooled
<1>3. ArgumentInv'
  BY DEF ArgumentInv, PoolInv, RefInv, Entry
<1>4. RefInv'
  BY DEF RefInv, ArgumentInv, PoolInv, Entry
<1>5. RunningIsPooled'
  BY DEF RunningIsPooled, ArgumentInv, RefInv, PoolInv, RunningInv, Entry
<1>6. QED
  BY <1>1, <1>2, <1>3, <1>4, <1>5

\* The base invariant survives counting one more holder.
LEMMA ShareBase ==
  ASSUME BaseInv, NEW c \in Callers, Share(c)
  PROVE  BaseInv'
<1> USE ConstantsAssumption DEF Share, Goto, BaseInv, TypeOK, MutexInv, Points,
        Critical, Leased
<1>1. TypeOK' /\ MutexInv'
  BY DEF ArgumentInv, RefInv, Entry
<1>2. PoolInv' /\ RunningInv'
  BY DEF PoolInv, RunningInv, ArgumentInv, RefInv, Entry, RunningIsPooled
<1>3. ArgumentInv'
  BY DEF ArgumentInv, PoolInv, RefInv, Entry
<1>4. RefInv'
  BY DEF RefInv, ArgumentInv, PoolInv, Entry
<1>5. RunningIsPooled'
  BY DEF RunningIsPooled, ArgumentInv, RefInv, PoolInv, RunningInv, Entry
<1>6. QED
  BY <1>1, <1>2, <1>3, <1>4, <1>5

\* The base invariant survives handing out the client.
LEMMA AuthenticatedBase ==
  ASSUME BaseInv, NEW c \in Callers, Authenticated(c)
  PROVE  BaseInv'
<1> USE ConstantsAssumption DEF Authenticated, Goto, Unlock, BaseInv, TypeOK, MutexInv, Points,
        Critical, Leased
<1>1. TypeOK' /\ MutexInv'
  BY DEF ArgumentInv, RefInv, Entry
<1>2. PoolInv' /\ RunningInv'
  BY DEF PoolInv, RunningInv, ArgumentInv, RefInv, Entry, RunningIsPooled
<1>3. ArgumentInv'
  BY DEF ArgumentInv, PoolInv, RefInv, Entry
<1>4. RefInv'
  BY DEF RefInv, ArgumentInv, PoolInv, Entry
<1>5. RunningIsPooled'
  BY DEF RunningIsPooled, ArgumentInv, RefInv, PoolInv, RunningInv, Entry
<1>6. QED
  BY <1>1, <1>2, <1>3, <1>4, <1>5

\* The base invariant survives giving up on the authentication.
LEMMA TimedOutBase ==
  ASSUME BaseInv, NEW c \in Callers, TimedOut(c)
  PROVE  BaseInv'
<1> USE ConstantsAssumption DEF TimedOut, Goto, Unlock, BaseInv, TypeOK, MutexInv, Points,
        Critical, Leased
<1>1. TypeOK' /\ MutexInv'
  BY DEF ArgumentInv, RefInv, Entry
<1>2. PoolInv' /\ RunningInv'
  BY DEF PoolInv, RunningInv, ArgumentInv, RefInv, Entry, RunningIsPooled
<1>3. ArgumentInv'
  BY DEF ArgumentInv, PoolInv, RefInv, Entry
<1>4. RefInv'
  BY DEF RefInv, ArgumentInv, PoolInv, Entry
<1>5. RunningIsPooled'
  BY DEF RunningIsPooled, ArgumentInv, RefInv, PoolInv, RunningInv, Entry
<1>6. QED
  BY <1>1, <1>2, <1>3, <1>4, <1>5

\* The base invariant survives the lookup of the entry to release.
LEMMA FindBase ==
  ASSUME BaseInv, NEW c \in Callers, Find(c)
  PROVE  BaseInv'
<1> USE ConstantsAssumption DEF Find, Goto, Entry, BaseInv, TypeOK, MutexInv, Points,
        Critical, Leased
<1>1. TypeOK' /\ MutexInv'
  BY DEF ArgumentInv, RefInv, Entry
<1>2. PoolInv' /\ RunningInv'
  BY DEF PoolInv, RunningInv, ArgumentInv, RefInv, Entry, RunningIsPooled
<1>3. ArgumentInv'
  BY DEF ArgumentInv, PoolInv, RefInv, Entry
<1>4. RefInv'
  BY DEF RefInv, ArgumentInv, PoolInv, Entry
<1>5. RunningIsPooled'
  BY DEF RunningIsPooled, ArgumentInv, RefInv, PoolInv, RunningInv, Entry
<1>6. QED
  BY <1>1, <1>2, <1>3, <1>4, <1>5

\* The base invariant survives finding no entry to release.
LEMMA FindNothingBase ==
  ASSUME BaseInv, NEW c \in Callers, FindNothing(c)
  PROVE  BaseInv'
<1> USE ConstantsAssumption DEF FindNothing, Goto, Unlock, Return, Entry, BaseInv,
        TypeOK, MutexInv, Points, Critical, Leased
<1>1. TypeOK' /\ MutexInv'
  BY DEF ArgumentInv, RefInv, Entry
<1>2. PoolInv' /\ RunningInv'
  BY DEF PoolInv, RunningInv, ArgumentInv, RefInv, Entry, RunningIsPooled
<1>3. ArgumentInv'
  BY DEF ArgumentInv, PoolInv, RefInv, Entry
<1>4. RefInv'
  BY DEF RefInv, ArgumentInv, PoolInv, Entry
<1>5. RunningIsPooled'
  BY DEF RunningIsPooled, ArgumentInv, RefInv, PoolInv, RunningInv, Entry
<1>6. QED
  BY <1>1, <1>2, <1>3, <1>4, <1>5

\* The base invariant survives taking the last holder's entry out of the pool.
LEMMA DropBase ==
  ASSUME BaseInv, NEW c \in Callers, Drop(c)
  PROVE  BaseInv'
<1> USE ConstantsAssumption DEF Drop, Goto, BaseInv, TypeOK, MutexInv, Points,
        Critical, Leased
<1>1. TypeOK' /\ MutexInv'
  BY DEF ArgumentInv, RefInv, Entry
<1>2. PoolInv' /\ RunningInv'
  BY DEF PoolInv, RunningInv, ArgumentInv, RefInv, Entry, RunningIsPooled
<1>3. ArgumentInv'
  BY DEF ArgumentInv, PoolInv, RefInv, Entry
<1>4. RefInv'
  BY DEF RefInv, ArgumentInv, PoolInv, Entry
<1>5. RunningIsPooled'
  BY DEF RunningIsPooled, ArgumentInv, RefInv, PoolInv, RunningInv, Entry
<1>6. QED
  BY <1>1, <1>2, <1>3, <1>4, <1>5

\* The base invariant survives stopping the client.
LEMMA StopBase ==
  ASSUME BaseInv, NEW c \in Callers, Stop(c)
  PROVE  BaseInv'
<1> USE ConstantsAssumption DEF Stop, Goto, Unlock, Return, BaseInv, TypeOK, MutexInv, Points,
        Critical, Leased
<1>1. TypeOK' /\ MutexInv'
  BY DEF ArgumentInv, RefInv, Entry
<1>2. PoolInv' /\ RunningInv'
  BY DEF PoolInv, RunningInv, ArgumentInv, RefInv, Entry, RunningIsPooled
<1>3. ArgumentInv'
  BY DEF ArgumentInv, PoolInv, RefInv, Entry
<1>4. RefInv'
  BY DEF RefInv, ArgumentInv, PoolInv, Entry
<1>5. RunningIsPooled'
  BY DEF RunningIsPooled, ArgumentInv, RefInv, PoolInv, RunningInv, Entry
<1>6. QED
  BY <1>1, <1>2, <1>3, <1>4, <1>5

\* The base invariant survives counting one holder less.
LEMMA LowerBase ==
  ASSUME BaseInv, NEW c \in Callers, Lower(c)
  PROVE  BaseInv'
<1> USE ConstantsAssumption DEF Lower, Goto, Unlock, Return, BaseInv, TypeOK, MutexInv, Points,
        Critical, Leased
<1>1. TypeOK' /\ MutexInv'
  BY DEF ArgumentInv, RefInv, Entry
<1>2. PoolInv' /\ RunningInv'
  BY DEF PoolInv, RunningInv, ArgumentInv, RefInv, Entry, RunningIsPooled
<1>3. ArgumentInv'
  BY DEF ArgumentInv, PoolInv, RefInv, Entry
<1>4. RefInv'
  BY DEF RefInv, ArgumentInv, PoolInv, Entry
<1>5. RunningIsPooled'
  BY DEF RunningIsPooled, ArgumentInv, RefInv, PoolInv, RunningInv, Entry
<1>6. QED
  BY <1>1, <1>2, <1>3, <1>4, <1>5

\* Every step keeps the base invariant.
LEMMA NextBase == BaseInv /\ [Next]_vars => BaseInv'
<1> SUFFICES ASSUME BaseInv, [Next]_vars
             PROVE  BaseInv'
  OBVIOUS
<1>1. CASE UNCHANGED vars
  BY <1>1 DEF vars, BaseInv, TypeOK, MutexInv, PoolInv, RunningInv, ArgumentInv,
              RefInv, RunningIsPooled, Entry
<1>2. CASE Next
  <2>1. PICK c \in Callers :
          \/ \E sp \in Spaces : CallGet(c, sp) \/ CallGetAgain(c, sp)
          \/ LockGet(c)
          \/ CallRelease(c)
          \/ LockPut(c)
          \/ Inside(c)
    BY <1>2 DEF Next
  <2>2. CASE Inside(c)
    BY <2>2, LookupBase, CreateBase, CreateFailedBase, ShareBase,
       AuthenticatedBase, TimedOutBase, FindBase, FindNothingBase, DropBase,
       StopBase, LowerBase
       DEF Inside
  <2>3. QED
    BY <2>1, <2>2, CallGetBase, CallGetAgainBase, LockGetBase, CallReleaseBase, LockPutBase
<1>3. QED
  BY <1>1, <1>2

-----------------------------------------------------------------------------
(* Callers that release once: leases and reference counts *)

\* A set of holders is finite, whoever the callers are.
LEMMA HoldersFinite ==
  ASSUME NEW cl
  PROVE  IsFiniteSet(Holders(cl)) /\ Cardinality(Holders(cl)) \in Nat
<1>1. Holders(cl) \subseteq Callers
  BY DEF Holders
<1>2. IsFiniteSet(Holders(cl))
  BY <1>1, FS_Subset, ConstantsAssumption
<1>3. QED
  BY <1>2, FS_CardinalityType

\* The caller that found the count at 0 is the only holder of the client, and
\* no Get has timed out on it.
LEMMA LastHolder ==
  ASSUME IInv, NEW c \in Callers, pc[c] = "drop"
  PROVE  /\ Holders(client[c]) = {c}
         /\ abandoned[client[c]] = 0
<1> DEFINE cl == client[c]
<1>1. cl \in Clients /\ node[cl] \in Spaces /\ pool[node[cl]] = cl
      /\ refCount[cl] = 0
  BY DEF IInv, BaseInv, ArgumentInv, LeaseInv, RefInv, Leased, Entry
<1>2. refCount[cl] + 1 = Cardinality(Holders(cl)) + abandoned[cl]
  BY <1>1 DEF IInv, RefsConserved, Pooled
<1>3. c \in Holders(cl)
  BY DEF Holders, Holds, Leased
<1>4. IsFiniteSet(Holders(cl)) /\ Cardinality(Holders(cl)) \in Nat
  BY HoldersFinite
<1>5. Holders(cl) # {} /\ Cardinality(Holders(cl)) # 0
  BY <1>3, <1>4, FS_EmptySet
<1>6. abandoned[cl] \in Nat
  BY <1>1 DEF IInv, BaseInv, TypeOK
<1>7. Cardinality(Holders(cl)) = 1 /\ abandoned[cl] = 0
  BY <1>1, <1>2, <1>4, <1>5, <1>6
<1>8. PICK x : Holders(cl) = {x}
  BY <1>4, <1>7, FS_Singleton
<1>9. QED
  BY <1>3, <1>7, <1>8

\* Leases and counts survive calling Get, when nobody is careless.
LEMMA CallGetLease ==
  ASSUME Careless = {}, IInv, NEW c \in Callers, NEW sp \in Spaces, CallGet(c, sp)
  PROVE  LeaseInv' /\ OnceInv' /\ RefsConserved'
<1> USE DEF CallGet, Goto, IInv, BaseInv, TypeOK
<1>1. LeaseInv' /\ OnceInv'
  BY DEF LeaseInv, OnceInv, Leased, Entry, RefInv, MutexInv, Critical
<1>2. ASSUME NEW cl \in Clients
      PROVE  Holders(cl)' = Holders(cl)
  BY DEF Holders, Holds, Leased
<1>3. RefsConserved'
  BY <1>2 DEF RefsConserved, Pooled
<1>4. QED
  BY <1>1, <1>3

\* Only a careless caller calls Get with a client at hand.
LEMMA CallGetAgainLease ==
  ASSUME Careless = {}, NEW c \in Callers, NEW sp \in Spaces, CallGetAgain(c, sp)
  PROVE  FALSE
BY DEF CallGetAgain

\* Leases and counts survive Get taking the mutex, when nobody is careless.
LEMMA LockGetLease ==
  ASSUME Careless = {}, IInv, NEW c \in Callers, LockGet(c)
  PROVE  LeaseInv' /\ OnceInv' /\ RefsConserved'
<1> USE DEF LockGet, Goto, Lock, IInv, BaseInv, TypeOK
<1>1. LeaseInv' /\ OnceInv'
  BY DEF LeaseInv, OnceInv, Leased, Entry, RefInv, MutexInv, Critical
<1>2. ASSUME NEW cl \in Clients
      PROVE  Holders(cl)' = Holders(cl)
  BY DEF Holders, Holds, Leased
<1>3. RefsConserved'
  BY <1>2 DEF RefsConserved, Pooled
<1>4. QED
  BY <1>1, <1>3

\* Leases and counts survive calling Release, when nobody is careless.
LEMMA CallReleaseLease ==
  ASSUME Careless = {}, IInv, NEW c \in Callers, CallRelease(c)
  PROVE  LeaseInv' /\ OnceInv' /\ RefsConserved'
<1> USE DEF CallRelease, Goto, IInv, BaseInv, TypeOK
<1>1. LeaseInv' /\ OnceInv'
  BY DEF LeaseInv, OnceInv, Leased, Entry, RefInv, MutexInv, Critical
<1>2. ASSUME NEW cl \in Clients
      PROVE  Holders(cl)' = Holders(cl)
  BY DEF OnceInv, Holders, Holds, Leased
<1>3. RefsConserved'
  BY <1>2 DEF RefsConserved, Pooled
<1>4. QED
  BY <1>1, <1>3

\* Leases and counts survive Release taking the mutex, when nobody is careless.
LEMMA LockPutLease ==
  ASSUME Careless = {}, IInv, NEW c \in Callers, LockPut(c)
  PROVE  LeaseInv' /\ OnceInv' /\ RefsConserved'
<1> USE DEF LockPut, Goto, Lock, IInv, BaseInv, TypeOK
<1>1. LeaseInv' /\ OnceInv'
  BY DEF LeaseInv, OnceInv, Leased, Entry, RefInv, MutexInv, Critical
<1>2. ASSUME NEW cl \in Clients
      PROVE  Holders(cl)' = Holders(cl)
  BY DEF Holders, Holds, Leased
<1>3. RefsConserved'
  BY <1>2 DEF RefsConserved, Pooled
<1>4. QED
  BY <1>1, <1>3

\* Leases and counts survive the lookup of the space, when nobody is careless.
LEMMA LookupLease ==
  ASSUME Careless = {}, IInv, NEW c \in Callers, Lookup(c)
  PROVE  LeaseInv' /\ OnceInv' /\ RefsConserved'
<1> USE DEF Lookup, Goto, IInv, BaseInv, TypeOK
<1>1. LeaseInv' /\ OnceInv'
  BY DEF LeaseInv, OnceInv, Leased, Entry, RefInv, MutexInv, Critical
<1>2. ASSUME NEW cl \in Clients
      PROVE  Holders(cl)' = Holders(cl)
  BY DEF Holders, Holds, Leased
<1>3. RefsConserved'
  BY <1>2 DEF RefsConserved, Pooled
<1>4. QED
  BY <1>1, <1>3

\* Leases and counts survive the failure to make or start a client, when nobody is careless.
LEMMA CreateFailedLease ==
  ASSUME Careless = {}, IInv, NEW c \in Callers, CreateFailed(c)
  PROVE  LeaseInv' /\ OnceInv' /\ RefsConserved'
<1> USE DEF CreateFailed, Goto, Unlock, IInv, BaseInv, TypeOK
<1>1. LeaseInv' /\ OnceInv'
  BY DEF LeaseInv, OnceInv, Leased, Entry, RefInv, MutexInv, Critical
<1>2. ASSUME NEW cl \in Clients
      PROVE  Holders(cl)' = Holders(cl)
  BY DEF Holders, Holds, Leased
<1>3. RefsConserved'
  BY <1>2 DEF RefsConserved, Pooled
<1>4. QED
  BY <1>1, <1>3

\* Leases and counts survive handing out the client, when nobody is careless.
LEMMA AuthenticatedLease ==
  ASSUME Careless = {}, IInv, NEW c \in Callers, Authenticated(c)
  PROVE  LeaseInv' /\ OnceInv' /\ RefsConserved'
<1> USE DEF Authenticated, Goto, Unlock, IInv, BaseInv, TypeOK
<1>1. LeaseInv' /\ OnceInv'
  BY ConstantsAssumption
     DEF LeaseInv, OnceInv, Leased, Entry, RefInv, MutexInv, Critical,
         ArgumentInv, PoolInv
<1>2. ASSUME NEW cl \in Clients
      PROVE  Holders(cl)' = Holders(cl)
  BY DEF Holders, Holds, Leased
<1>3. RefsConserved'
  BY <1>2 DEF RefsConserved, Pooled
<1>4. QED
  BY <1>1, <1>3

\* Leases and counts survive the lookup of the entry to release, when nobody is careless.
LEMMA FindLease ==
  ASSUME Careless = {}, IInv, NEW c \in Callers, Find(c)
  PROVE  LeaseInv' /\ OnceInv' /\ RefsConserved'
<1> USE DEF Find, Goto, Entry, IInv, BaseInv, TypeOK
<1>1. LeaseInv' /\ OnceInv'
  BY DEF LeaseInv, OnceInv, Leased, Entry, RefInv, MutexInv, Critical
<1>2. ASSUME NEW cl \in Clients
      PROVE  Holders(cl)' = Holders(cl)
  BY DEF Holders, Holds, Leased
<1>3. RefsConserved'
  BY <1>2 DEF RefsConserved, Pooled
<1>4. QED
  BY <1>1, <1>3

\* Leases and counts survive stopping the client, when nobody is careless.
LEMMA StopLease ==
  ASSUME Careless = {}, IInv, NEW c \in Callers, Stop(c)
  PROVE  LeaseInv' /\ OnceInv' /\ RefsConserved'
<1> USE DEF Stop, Goto, Unlock, Return, IInv, BaseInv, TypeOK
<1>1. LeaseInv' /\ OnceInv'
  BY DEF LeaseInv, OnceInv, Leased, Entry, RefInv, MutexInv, Critical
<1>2. ASSUME NEW cl \in Clients
      PROVE  Holders(cl)' = Holders(cl)
  BY DEF Holders, Holds, Leased
<1>3. RefsConserved'
  BY <1>2 DEF RefsConserved, Pooled
<1>4. QED
  BY <1>1, <1>3

\* A new client has the caller that made it as its only holder.
LEMMA CreateLease ==
  ASSUME Careless = {}, IInv, NEW c \in Callers, NEW cl \in Clients, Create(c, cl)
  PROVE  LeaseInv' /\ OnceInv' /\ RefsConserved'
<1> USE DEF Create, Goto, Fresh, IInv, BaseInv, TypeOK
<1>1. LeaseInv' /\ OnceInv'
  BY ConstantsAssumption
     DEF LeaseInv, OnceInv, Leased, Entry, RefInv, MutexInv, Critical,
         ArgumentInv
<1>2. Holders(cl)' = {c}
  BY DEF Holders, Holds, Leased
<1>3. ASSUME NEW d \in Clients, d # cl
      PROVE  Holders(d)' = Holders(d) /\ (Pooled(d)' => Pooled(d))
  BY <1>3 DEF Holders, Holds, Leased, Pooled, ArgumentInv
<1>4. Cardinality({c}) = 1
  BY FS_Singleton
<1>5. ASSUME NEW d \in Clients, Pooled(d)'
      PROVE  (refCount[d] + 1 = Cardinality(Holders(d)) + abandoned[d])'
  <2>1. CASE d = cl
    BY <2>1, <1>2, <1>4
  <2>2. CASE d # cl
    BY <2>2, <1>3, <1>5 DEF RefsConserved
  <2>3. QED
    BY <2>1, <2>2
<1>6. QED
  BY <1>1, <1>5 DEF RefsConserved

\* Sharing a client adds the caller to its holders and one to its count.
LEMMA ShareLease ==
  ASSUME Careless = {}, IInv, NEW c \in Callers, Share(c)
  PROVE  LeaseInv' /\ OnceInv' /\ RefsConserved'
<1> USE DEF Share, Goto, IInv, BaseInv, TypeOK
<1>1. LeaseInv' /\ OnceInv'
  BY DEF LeaseInv, OnceInv, Leased, Entry, RefInv, MutexInv, Critical
<1>2. PICK cl \in Clients : cl = ref[c]
  BY DEF RefInv
<1>3. ASSUME NEW d \in Clients, d # cl
      PROVE  Holders(d)' = Holders(d)
  BY <1>2, <1>3 DEF Holders, Holds, Leased
<1>4. ASSUME NEW d \in Clients, Pooled(d)'
      PROVE  (refCount[d] + 1 = Cardinality(Holders(d)) + abandoned[d])'
  <2>1. refCount[d] + 1 = Cardinality(Holders(d)) + abandoned[d]
    BY <1>4 DEF RefsConserved, Pooled
  <2>2. CASE d = cl
    <3>1. c \notin Holders(d) /\ Holders(d)' = Holders(d) \cup {c}
      BY <2>2, <1>2 DEF Holders, Holds, Leased
    <3>2. Cardinality(Holders(d))' = Cardinality(Holders(d)) + 1
      BY <3>1, HoldersFinite, FS_AddElement
    <3>3. Cardinality(Holders(d)) \in Nat /\ refCount[d] \in Nat
          /\ abandoned[d] \in Nat
      BY HoldersFinite
    <3>4. QED
      BY <2>1, <2>2, <1>2, <3>2, <3>3
  <2>3. CASE d # cl
    BY <2>1, <2>3, <1>2, <1>3
  <2>4. QED
    BY <2>2, <2>3
<1>5. QED
  BY <1>1, <1>4 DEF RefsConserved

\* A timed out Get stops being a holder and leaves its reference behind.
LEMMA TimedOutLease ==
  ASSUME Careless = {}, IInv, NEW c \in Callers, TimedOut(c)
  PROVE  LeaseInv' /\ OnceInv' /\ RefsConserved'
<1> USE DEF TimedOut, Goto, Unlock, IInv, BaseInv, TypeOK
<1>1. LeaseInv' /\ OnceInv'
  BY DEF LeaseInv, OnceInv, Leased, Entry, RefInv, MutexInv, Critical
<1>2. PICK cl \in Clients : cl = ref[c]
  BY DEF RefInv
<1>3. ASSUME NEW d \in Clients, d # cl
      PROVE  Holders(d)' = Holders(d)
  BY <1>2, <1>3 DEF Holders, Holds, Leased
<1>4. ASSUME NEW d \in Clients, Pooled(d)'
      PROVE  (refCount[d] + 1 = Cardinality(Holders(d)) + abandoned[d])'
  <2>1. refCount[d] + 1 = Cardinality(Holders(d)) + abandoned[d]
    BY <1>4 DEF RefsConserved, Pooled
  <2>2. CASE d = cl
    <3>1. c \in Holders(d) /\ Holders(d)' = Holders(d) \ {c}
      BY <2>2, <1>2 DEF Holders, Holds, Leased
    <3>2. Cardinality(Holders(d))' = Cardinality(Holders(d)) - 1
      BY <3>1, HoldersFinite, FS_RemoveElement
    <3>3. Cardinality(Holders(d)) \in Nat /\ refCount[d] \in Nat
          /\ abandoned[d] \in Nat
      BY HoldersFinite
    <3>4. QED
      BY <2>1, <2>2, <1>2, <3>2, <3>3
  <2>3. CASE d # cl
    BY <2>1, <2>3, <1>2, <1>3
  <2>4. QED
    BY <2>2, <2>3
<1>5. QED
  BY <1>1, <1>4 DEF RefsConserved

\* A caller that releases its own client always finds an entry.
LEMMA FindNothingLease ==
  ASSUME Careless = {}, IInv, NEW c \in Callers, FindNothing(c)
  PROVE  FALSE
BY ConstantsAssumption
   DEF FindNothing, IInv, BaseInv, TypeOK, LeaseInv, ArgumentInv, Leased, Entry

\* The entry of the last holder's client goes, and nobody else had a lease.
LEMMA DropLease ==
  ASSUME Careless = {}, IInv, NEW c \in Callers, Drop(c)
  PROVE  LeaseInv' /\ OnceInv' /\ RefsConserved'
<1> USE DEF Drop, Goto, IInv, BaseInv, TypeOK
<1> DEFINE cl == client[c]
<1>1. /\ cl \in Clients /\ node[cl] \in Spaces /\ pool[node[cl]] = cl
      /\ ref[c] = cl
  BY DEF ArgumentInv, LeaseInv, RefInv, Leased, Entry
<1>2. Holders(cl) = {c} /\ abandoned[cl] = 0
  BY LastHolder
<1>3. ASSUME NEW d \in Callers, pc'[d] \in Leased
      PROVE  Entry(d)' = client'[d]
  <2>1. d # c /\ pc[d] \in Leased
    BY <1>3 DEF Leased
  <2>2. client[d] # cl
    BY <1>2, <2>1 DEF Holders, Holds
  <2>3. node[client[d]] # node[cl]
    BY <1>1, <2>1, <2>2 DEF LeaseInv, ArgumentInv, Entry
  <2>4. QED
    BY <2>1, <2>3 DEF LeaseInv, ArgumentInv, Entry
<1>4. LeaseInv'
  BY <1>3 DEF LeaseInv
<1>5. OnceInv'
  BY <1>1, <1>2 DEF OnceInv
<1>6. ASSUME NEW d \in Clients, Pooled(d)'
      PROVE  Holders(d)' = Holders(d) /\ Pooled(d)
  <2>1. d # cl
    BY <1>1, <1>6, ConstantsAssumption DEF Pooled, PoolInv
  <2>2. Pooled(d)
    BY <1>1, <1>6, ConstantsAssumption DEF Pooled
  <2>3. QED
    BY <2>1, <2>2 DEF Holders, Holds, Leased
<1>7. RefsConserved'
  BY <1>6 DEF RefsConserved
<1>8. QED
  BY <1>4, <1>5, <1>7

\* A holder that is not the last takes itself and one reference away.
LEMMA LowerLease ==
  ASSUME Careless = {}, IInv, NEW c \in Callers, Lower(c)
  PROVE  LeaseInv' /\ OnceInv' /\ RefsConserved'
<1> USE DEF Lower, Goto, Unlock, Return, IInv, BaseInv, TypeOK
<1>1. LeaseInv' /\ OnceInv'
  BY DEF LeaseInv, OnceInv, Leased, Entry, RefInv, MutexInv, Critical
<1>2. PICK cl \in Clients : cl = ref[c] /\ cl = client[c] /\ refCount[cl] > 0
  BY DEF RefInv, LeaseInv, Leased
<1>3. ASSUME NEW d \in Clients, d # cl
      PROVE  Holders(d)' = Holders(d)
  BY <1>2, <1>3 DEF Holders, Holds, Leased
<1>4. ASSUME NEW d \in Clients, Pooled(d)'
      PROVE  (refCount[d] + 1 = Cardinality(Holders(d)) + abandoned[d])'
  <2>1. refCount[d] + 1 = Cardinality(Holders(d)) + abandoned[d]
    BY <1>4 DEF RefsConserved, Pooled
  <2>2. CASE d = cl
    <3>1. c \in Holders(d) /\ Holders(d)' = Holders(d) \ {c}
      BY <2>2, <1>2 DEF Holders, Holds, Leased
    <3>2. Cardinality(Holders(d))' = Cardinality(Holders(d)) - 1
      BY <3>1, HoldersFinite, FS_RemoveElement
    <3>3. Cardinality(Holders(d)) \in Nat /\ refCount[d] \in Nat
          /\ abandoned[d] \in Nat
      BY HoldersFinite
    <3>4. QED
      BY <2>1, <2>2, <1>2, <3>2, <3>3
  <2>3. CASE d # cl
    BY <2>1, <2>3, <1>2, <1>3
  <2>4. QED
    BY <2>2, <2>3
<1>5. QED
  BY <1>1, <1>4 DEF RefsConserved

\* The inductive invariant of callers that release once survives every step.
LEMMA NextOnce == Careless = {} /\ IInv /\ [Next]_vars => IInv'
<1> SUFFICES ASSUME Careless = {}, IInv, [Next]_vars
             PROVE  IInv'
  OBVIOUS
<1>1. BaseInv'
  BY NextBase DEF IInv
<1>2. LeaseInv' /\ OnceInv' /\ RefsConserved'
  <2>1. CASE UNCHANGED vars
    BY <2>1 DEF vars, IInv, LeaseInv, OnceInv, RefsConserved, Pooled, Holders,
                Holds, Entry
  <2>2. CASE Next
    <3>1. PICK c \in Callers :
            \/ \E sp \in Spaces : CallGet(c, sp) \/ CallGetAgain(c, sp)
            \/ LockGet(c)
            \/ CallRelease(c)
            \/ LockPut(c)
            \/ Inside(c)
      BY <2>2 DEF Next
    <3>2. CASE Inside(c)
      BY <3>2, LookupLease, CreateLease, CreateFailedLease, ShareLease,
         AuthenticatedLease, TimedOutLease, FindLease, FindNothingLease,
         DropLease, StopLease, LowerLease
         DEF Inside
    <3>3. QED
      BY <3>1, <3>2, CallGetLease, CallGetAgainLease, LockGetLease,
       CallReleaseLease, LockPutLease
  <2>3. QED
    BY <2>1, <2>2
<1>3. QED
  BY <1>1, <1>2 DEF IInv

\* It holds initially.
LEMMA InitOnce == Init => IInv
BY InitBase, ConstantsAssumption
   DEF Init, IInv, LeaseInv, OnceInv, RefsConserved, Pooled, Leased

-----------------------------------------------------------------------------
(* Theorems *)

\* The base invariant holds whatever callers release, and however often.
THEOREM BaseInvariant == Spec => []BaseInv
BY InitBase, NextBase, PTL DEF Spec

\* Type correctness: among the rest, no reference count goes below zero.
THEOREM TypeCorrect == Spec => []TypeOK
<1>1. BaseInv => TypeOK
  BY DEF BaseInv
<1>2. QED
  BY <1>1, BaseInvariant, PTL

\* Get never hands out a client that was stopped.
THEOREM HandsOutRunning == Spec => []HandedOutRunning
<1>1. BaseInv => HandedOutRunning
  BY ConstantsAssumption
     DEF BaseInv, HandedOutRunning, RefInv, ArgumentInv, PoolInv, TypeOK
<1>2. QED
  BY <1>1, BaseInvariant, PTL

\* What runs can be found, and stopped, through the pool.
THEOREM RunningPooled == Spec => []RunningIsPooled
<1>1. BaseInv => RunningIsPooled
  BY DEF BaseInv
<1>2. QED
  BY <1>1, BaseInvariant, PTL

\* With callers that release once, the full invariant holds.
THEOREM OnceInvariant ==
  ASSUME Careless = {}
  PROVE  Spec => []IInv
<1>1. IInv /\ [Next]_vars => IInv'
  BY NextOnce
<1>2. QED
  BY <1>1, InitOnce, PTL DEF Spec

\* A caller's client is running until that caller releases it.
THEOREM UseIsSafe ==
  ASSUME Careless = {}
  PROVE  Spec => []NoUseAfterStop
<1>1. IInv => NoUseAfterStop
  BY ConstantsAssumption
     DEF IInv, BaseInv, LeaseInv, ArgumentInv, PoolInv, NoUseAfterStop, Entry, Leased
<1>2. QED
  BY <1>1, OnceInvariant, PTL

\* The reference counts are exact.
THEOREM CountsAreExact ==
  ASSUME Careless = {}
  PROVE  Spec => []RefsConserved
<1>1. IInv => RefsConserved
  BY DEF IInv
<1>2. QED
  BY <1>1, OnceInvariant, PTL

\* The client of a Get that timed out runs for ever.
THEOREM AbandonedRuns ==
  ASSUME Careless = {}
  PROVE  Spec => AbandonedStaysRunning
<1>1. IInv /\ [Next]_vars =>
        \A cl \in Clients : abandoned[cl] > 0 /\ cl \in running => cl \in running'
  <2> SUFFICES ASSUME IInv, Next, NEW cl \in Clients,
                      abandoned[cl] > 0, cl \in running
               PROVE  cl \in running'
    BY DEF vars
  <2>1. CASE \E c \in Callers : Stop(c)
    BY <2>1 DEF Stop, IInv, OnceInv
  <2>2. CASE ~ \E c \in Callers : Stop(c)
    BY <2>2 DEF Next, Inside, CallGet, CallGetAgain, LockGet, CallRelease, LockPut, Lookup,
                Create, CreateFailed, Share, Authenticated, TimedOut, Find,
                FindNothing, Drop, Lower
  <2>3. QED
    BY <2>1, <2>2
<1>2. QED
  BY <1>1, OnceInvariant, PTL DEF Spec, AbandonedStaysRunning
===============================================================================
