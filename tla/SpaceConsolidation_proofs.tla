--------------------- MODULE SpaceConsolidation_proofs ---------------------
(***************************************************************************)
(* Proofs about the consolidated maps, and about what the mesh daemon      *)
(* trusts with them, for any number of targets, shared spaces and          *)
(* endpoints.                                                              *)
(***************************************************************************)
EXTENDS MeshDaemon, SequenceTheorems, TLAPS

\* A bounded sequence is a sequence.
LEMMA SeqUpToIsSeq ==
  ASSUME NEW S, NEW n \in Nat, NEW s \in SeqUpTo(S, n)
  PROVE  s \in Seq(S)
<1>1. PICK m \in 0..n : s \in [1..m -> S]
  BY DEF SeqUpTo
<1>2. QED
  BY <1>1, SeqDef

\* Cutting an element, as the second loop does, moves those after it down by one.
LEMMA CutElements ==
  ASSUME NEW S, NEW s \in Seq(S), NEW n \in 1..Len(s), NEW t,
         t = RemoveAt(s, n) \/ (n = Len(s) /\ t = SubSeq(s, 1, n - 1))
  PROVE  /\ t \in Seq(S) /\ Len(t) = Len(s) - 1
         /\ \A m \in 1..Len(s) - 1 : t[m] = IF m < n THEN s[m] ELSE s[m + 1]
<1> DEFINE a == SubSeq(s, 1, n - 1)
           b == SubSeq(s, n + 1, Len(s))
<1>1. Len(s) \in Nat
  BY LenProperties
<1>2. a \in Seq(S) /\ Len(a) = n - 1 /\ \A m \in 1..n - 1 : a[m] = s[m]
  BY <1>1, SubSeqProperties
<1>3. b \in Seq(S) /\ Len(b) = Len(s) - n /\ \A m \in 1..Len(s) - n : b[m] = s[n + m]
  BY <1>1, SubSeqProperties
<1>4. RemoveAt(s, n) = a \o b
  BY DEF RemoveAt
<1> HIDE DEF a, b
<1>5. CASE t = RemoveAt(s, n)
  <2>1. /\ t \in Seq(S) /\ Len(t) = Len(a) + Len(b)
        /\ \A m \in 1..Len(a) + Len(b) : t[m] = IF m <= Len(a) THEN a[m] ELSE b[m - Len(a)]
    <3>1. t = a \o b
      BY <1>4, <1>5
    <3>2. /\ a \o b \in Seq(S) /\ Len(a \o b) = Len(a) + Len(b)
          /\ \A m \in 1..Len(a) + Len(b) :
               (a \o b)[m] = IF m <= Len(a) THEN a[m] ELSE b[m - Len(a)]
      <4>1. a \in Seq(S) /\ b \in Seq(S)
        BY <1>2, <1>3
      <4>2. QED
        BY <4>1, ConcatProperties, Zenon
    <3>3. QED
      BY <3>1, <3>2
  <2>2. Len(t) = Len(s) - 1
    BY <1>1, <1>2, <1>3, <2>1
  <2>3. ASSUME NEW m \in 1..Len(s) - 1
        PROVE  t[m] = IF m < n THEN s[m] ELSE s[m + 1]
    <3>1. CASE m < n
      BY <3>1, <1>1, <1>2, <1>3, <2>1
    <3>2. CASE m >= n
      <4>1. t[m] = b[m - Len(a)] /\ m - Len(a) = m - n + 1
        <5>1. Len(a) = n - 1 /\ Len(a) + Len(b) = Len(s) - 1 /\ ~(m <= n - 1)
          BY <3>2, <1>1, <1>2, <1>3
        <5>2. t[m] = IF m <= Len(a) THEN a[m] ELSE b[m - Len(a)]
          BY <2>1, <5>1
        <5>3. QED
          BY <5>1, <5>2, <1>1
      <4>2. m - n + 1 \in 1..Len(s) - n /\ n + (m - n + 1) = m + 1
        BY <3>2, <1>1
      <4>3. b[m - n + 1] = s[n + (m - n + 1)]
        BY <1>3, <4>2
      <4>4. QED
        BY <3>2, <1>1, <4>1, <4>2, <4>3
    <3>3. QED
      BY <3>1, <3>2, <1>1
  <2>4. QED
    BY <2>1, <2>2, <2>3
<1>6. CASE n = Len(s) /\ t = SubSeq(s, 1, n - 1)
  BY <1>1, <1>2, <1>6 DEF a
<1>7. QED
  BY <1>5, <1>6

\* Filing a node under a key that had no node keeps the maps in agreement: the
\* whole of what a target or a shared space does to them.
LEMMA FilingKeeps ==
  ASSUME KeyInv, EndpointAgrees,
         NEW node \in Bastions \cup Spaces, node # None,
         spaceNodes[node.key] = None,
         spaceNodes' = [spaceNodes EXCEPT ![node.key] = node],
         spaceNodeByEndpoint' = WithEndpoint(node)
  PROVE  KeyInv' /\ EndpointAgrees'
<1> USE ConsolidationAssumption
<1>1. node \in Nodes /\ node.key \in Keys /\ node.ep \in Endpoints \cup {None}
  BY DEF Nodes, Bastions, Spaces
<1>3. KeyInv'
  BY <1>1 DEF KeyInv, WithEndpoint, Nodes
<1>4. EndpointAgrees'
  <2> SUFFICES ASSUME NEW e \in Endpoints \cup Hosts,
                      spaceNodeByEndpoint'[e] # None
               PROVE  /\ spaceNodes'[spaceNodeByEndpoint'[e].key]
                           = spaceNodeByEndpoint'[e]
                      /\ Reaches(spaceNodeByEndpoint'[e], e)
    BY DEF EndpointAgrees, Reaches
  <2>1. CASE Reaches(node, e)
    <3>1. spaceNodeByEndpoint'[e] = node
      BY <2>1 DEF WithEndpoint
    <3>2. QED
      BY <2>1, <3>1, <1>1 DEF KeyInv
  <2>2. CASE ~Reaches(node, e)
    <3>1. spaceNodeByEndpoint'[e] = spaceNodeByEndpoint[e]
      BY <2>2 DEF WithEndpoint
    <3>2. /\ spaceNodes[spaceNodeByEndpoint[e].key] = spaceNodeByEndpoint[e]
          /\ Reaches(spaceNodeByEndpoint[e], e)
      BY <3>1 DEF EndpointAgrees
    <3>3. spaceNodeByEndpoint[e].key # node.key
      BY <3>1, <3>2
    <3>4. QED
      BY <3>1, <3>2, <3>3, <1>1 DEF KeyInv
  <2>3. QED
    BY <2>1, <2>2
<1>5. QED
  BY <1>3, <1>4

\* The initial state satisfies the inductive invariant.
LEMMA InitInv == Init => IInv
<1> SUFFICES ASSUME Init PROVE IInv
  OBVIOUS
<1> USE ConsolidationAssumption DEF Init
<1>1. targets \in Seq(Bastions \cup Others) /\ UniqueKeys(targets)
  BY SeqUpToIsSeq
<1>2. spaces \in Seq(Spaces)
  BY SeqUpToIsSeq, EmptySeq
<1>3. LoopInv
  BY <1>1, <1>2, EmptySeq, LenProperties DEF LoopInv
<1>4. KeyInv /\ EnteredInv /\ EndpointAgrees
  BY DEF KeyInv, EnteredInv, EndpointAgrees, Nodes
<1>5. QED
  BY <1>3, <1>4 DEF IInv

\* The inductive invariant survives the entry of a target.
LEMMA AddTargetKeeps ==
  ASSUME IInv, AddTarget
  PROVE  IInv'
<1> USE ConsolidationAssumption
<1> DEFINE t == targets[next]
<1>1. /\ at = "local" /\ next \in 1..Len(targets) /\ Len(targets) \in Nat
      /\ t \in Bastions \cup Others
  BY LenProperties, ElementOfSeq DEF IInv, LoopInv, AddTarget
<1>2. LoopInv'
  BY <1>1 DEF IInv, LoopInv, AddTarget, UniqueKeys
<1>3. CASE t.bastion
  <2>1. t \in Bastions /\ t # None /\ t.key \in Keys
    BY <1>1, <1>3 DEF Bastions, Others
  <2>2. spaceNodes[t.key] = None
    <3> SUFFICES ASSUME spaceNodes[t.key] # None PROVE FALSE
      OBVIOUS
    <3>1. PICK n \in 1..next - 1 : targets[n].key = t.key
      BY <1>1, <2>1 DEF IInv, EnteredInv
    <3>2. n \in DOMAIN targets /\ next \in DOMAIN targets
      BY <1>1, LenProperties DEF IInv, LoopInv
    <3>3. n = next
      BY <3>1, <3>2 DEF IInv, LoopInv, UniqueKeys
    <3>4. QED
      BY <3>1, <3>3, <1>1
  <2>3. /\ spaceNodes' = [spaceNodes EXCEPT ![t.key] = t]
        /\ spaceNodeByEndpoint' = WithEndpoint(t)
    BY <1>3 DEF AddTarget
  <2>4. KeyInv' /\ EndpointAgrees'
    BY <2>1, <2>2, <2>3, FilingKeeps DEF IInv
  <2>5. EnteredInv'
    <3> SUFFICES ASSUME NEW k \in Keys, spaceNodes'[k] # None
                 PROVE  \E n \in 1..next' - 1 : targets'[n].key = k
      BY DEF EnteredInv
    <3>1. targets' = targets /\ next' = next + 1
      BY DEF AddTarget
    <3>2. CASE k = t.key
      BY <3>1, <3>2, <1>1
    <3>3. CASE k # t.key
      <4>1. spaceNodes'[k] = spaceNodes[k]
        BY <2>3, <2>1, <3>3 DEF IInv, KeyInv
      <4>2. PICK n \in 1..next - 1 : targets[n].key = k
        BY <4>1, <1>1 DEF IInv, EnteredInv
      <4>3. QED
        BY <4>2, <3>1, <1>1
    <3>4. QED
      BY <3>2, <3>3
  <2>6. QED
    BY <1>2, <2>4, <2>5 DEF IInv
<1>4. CASE ~t.bastion
  <2>1. UNCHANGED maps
    BY <1>4 DEF AddTarget
  <2>2. KeyInv' /\ EndpointAgrees'
    BY <2>1 DEF maps, IInv, KeyInv, EndpointAgrees
  <2>3. EnteredInv'
    BY <2>1, <1>1 DEF maps, IInv, EnteredInv, AddTarget
  <2>4. QED
    BY <1>2, <2>2, <2>3 DEF IInv
<1>5. QED
  BY <1>3, <1>4

\* The inductive invariant survives a turn of the second loop.
LEMMA FilterKeeps ==
  ASSUME IInv, Filter
  PROVE  IInv'
<1> USE ConsolidationAssumption
<1> DEFINE node == sharedSpaces[i]
<1>1. /\ at = "filter" /\ at' = at /\ i \in 1..Len(sharedSpaces)
      /\ Len(sharedSpaces) \in Nat /\ i' = i - 1
      /\ node \in Spaces /\ node # None /\ node.key \in Keys
  <2>1. at = "filter" /\ at' = at /\ i > 0 /\ i' = i - 1
    BY DEF Filter
  <2>2. sharedSpaces \in Seq(Spaces) /\ i \in Nat /\ i <= Len(sharedSpaces)
    BY <2>1 DEF IInv, LoopInv
  <2>3. Len(sharedSpaces) \in Nat /\ i \in 1..Len(sharedSpaces)
    BY <2>1, <2>2, LenProperties
  <2>4. node \in Spaces
    BY <2>2, <2>3, ElementOfSeq
  <2>5. node # None /\ node.key \in Keys
    BY <2>4 DEF Spaces
  <2>6. QED
    BY <2>1, <2>3, <2>4, <2>5
<1>2. KeyInv' /\ EndpointAgrees'
  <2>1. CASE spaceNodes[node.key] = None
    <3>1. /\ spaceNodes' = [spaceNodes EXCEPT ![node.key] = node]
          /\ spaceNodeByEndpoint' = WithEndpoint(node)
      BY <2>1 DEF Filter
    <3>2. QED
      BY <2>1, <3>1, <1>1, FilingKeeps DEF IInv
  <2>2. CASE spaceNodes[node.key] # None
    <3>1. UNCHANGED <<spaceNodes, spaceNodeByEndpoint>>
      BY <2>2 DEF Filter
    <3>2. QED
      BY <3>1 DEF IInv, KeyInv, EndpointAgrees
  <2>3. QED
    BY <2>1, <2>2
<1>3. sharedSpaces' \in Seq(Spaces) /\ i' <= Len(sharedSpaces')
  <2>1. CASE node.id \notin spaceTargets
    BY <2>1, <1>1 DEF Filter, IInv, LoopInv
  <2>2. CASE node.id \in spaceTargets
    <3>1. sharedSpaces \in Seq(Spaces)
      BY DEF IInv, LoopInv
    <3>2. CASE i = j
      <4>1. sharedSpaces' = SubSeq(sharedSpaces, 1, i - 1)
        BY <2>2, <3>2 DEF Filter
      <4>2. QED
        BY <4>1, <1>1, <3>1, SubSeqProperties
    <3>3. CASE i # j
      <4>1. sharedSpaces' = RemoveAt(sharedSpaces, i)
        BY <2>2, <3>3 DEF Filter
      <4>2. QED
        BY <4>1, <1>1, <3>1, CutElements
    <3>4. QED
      BY <3>2, <3>3
  <2>3. QED
    BY <2>1, <2>2
<1>4. LoopInv'
  BY <1>1, <1>3 DEF IInv, LoopInv, Filter, UniqueKeys
<1>5. EnteredInv'
  BY <1>1 DEF EnteredInv
<1>6. QED
  BY <1>2, <1>4, <1>5 DEF IInv

\* The inductive invariant survives every step of the consolidation.
LEMMA NextKeeps == IInv /\ [Next]_vars => IInv'
<1> SUFFICES ASSUME IInv, [Next]_vars PROVE IInv'
  OBVIOUS
<1> USE DEF IInv, LoopInv, KeyInv, EnteredInv, EndpointAgrees, UniqueKeys
<1>1. CASE AddTarget
  BY <1>1, AddTargetKeeps
<1>2. CASE Fetched
  BY <1>2, LenProperties DEF Fetched, maps, Wait
<1>3. CASE Wait
  BY <1>3, LenProperties DEF Wait, maps
<1>4. CASE Filter
  BY <1>4, FilterKeeps
<1>5. CASE Finish
  BY <1>5 DEF Finish, maps
<1>6. CASE UNCHANGED vars
  BY <1>6 DEF vars
<1>7. QED
  BY <1>1, <1>2, <1>3, <1>4, <1>5, <1>6 DEF Next

\* Every reachable state of the consolidation satisfies the inductive invariant.
LEMMA Inductive == Spec => []IInv
<1>1. Init => IInv
  BY InitInv
<1>2. IInv /\ [Next]_vars => IInv'
  BY NextKeeps
<1>3. QED
  BY <1>1, <1>2, PTL DEF Spec

\* For any targets and shared spaces, whatever their keys and endpoints have in
\* common, a node found by an endpoint is the node found by its key.
THEOREM MapsAgree == Spec => []EndpointAgrees
<1>1. IInv => EndpointAgrees
  BY DEF IInv
<1>2. QED
  BY <1>1, Inductive, PTL

-----------------------------------------------------------------------------
(* What the two loops make of any targets and shared spaces *)

\* The initial state satisfies the invariant.
LEMMA InitWalk == Init => WalkInv
<1> SUFFICES ASSUME Init PROVE WalkInv
  OBVIOUS
<1> USE ConsolidationAssumption DEF Init
<1>1. BoundInv /\ FetchInv
  BY EmptySeq DEF BoundInv, FetchInv
<1>2. TargetIdsInv /\ NodesInv /\ SharedInv
  BY DEF TargetIdsInv, NodesInv, SharedInv, Entered, Walked,
         EnteredFor, WalkedFor
<1>3. EndpointsInv
  BY DEF EndpointsInv, Entered, Walked, EnteredAt, WalkedAt
<1>4. QED
  BY <1>1, <1>2, <1>3 DEF WalkInv

\* The invariant survives the entry of a target.
LEMMA AddTargetWalk ==
  ASSUME IInv, WalkInv, AddTarget
  PROVE  WalkInv'
<1> USE ConsolidationAssumption
<1> DEFINE t == targets[next]
<1>1. /\ at = "local" /\ at' = at /\ next \in 1..Len(targets) /\ Len(targets) \in Nat
      /\ t \in Bastions \cup Others /\ next' = next + 1
      /\ UNCHANGED <<targets, spaces, fetch, sharedSpaces, i, j>>
  BY LenProperties, ElementOfSeq DEF IInv, LoopInv, AddTarget
<1>2. BoundInv' /\ FetchInv' /\ SharedInv'
  BY <1>1 DEF WalkInv, BoundInv, FetchInv, SharedInv
<1>3. Walked = {} /\ Walked' = {}
  BY <1>1 DEF Walked
<1>4. CASE t.bastion
  <2>1. t \in Bastions /\ t.key \in Keys
    BY <1>1, <1>4 DEF Bastions, Others
  <2>2. /\ spaceTargets' = spaceTargets \cup ({t.id} \ {None})
        /\ spaceNodes' = [spaceNodes EXCEPT ![t.key] = t]
    BY <1>4 DEF AddTarget
  <2>3. Entered' = Entered \cup {next}
    BY <1>1, <1>4 DEF Entered
  <2>4. TargetIdsInv'
    BY <1>1, <2>2, <2>3 DEF WalkInv, TargetIdsInv
  <2>5. ASSUME NEW key \in Keys
        PROVE  \/ \E n \in EnteredFor(key)' : spaceNodes'[key] = targets'[n]
               \/ EnteredFor(key)' = {} /\ WalkedFor(key)' = {} /\ spaceNodes'[key] = None
    <3>1. CASE key = t.key
      <4>1. next \in EnteredFor(key)'
        BY <1>1, <2>3, <3>1 DEF EnteredFor
      <4>2. spaceNodes'[key] = targets'[next]
        BY <1>1, <2>2, <3>1 DEF IInv, KeyInv
      <4>3. QED
        BY <4>1, <4>2
    <3>2. CASE key # t.key
      <4>1. EnteredFor(key)' = EnteredFor(key)
        BY <1>1, <2>3, <3>2 DEF EnteredFor
      <4>2. spaceNodes'[key] = spaceNodes[key]
        BY <2>1, <2>2, <3>2 DEF IInv, KeyInv
      <4>3. QED
        BY <1>1, <1>3, <4>1, <4>2 DEF WalkInv, NodesInv, WalkedFor
    <3>3. QED
      BY <3>1, <3>2
  <2>6. NodesInv'
    BY <2>5 DEF NodesInv
  <2>7. ASSUME NEW e \in Endpoints \cup Hosts
        PROVE  \/ \E n \in EnteredAt(e)' : /\ \A m \in EnteredAt(e)' : m <= n
                                          /\ spaceNodeByEndpoint'[e] = targets'[n]
               \/ EnteredAt(e)' = {} /\ spaceNodeByEndpoint'[e] = None
    <3>1. \A m \in Entered : m \in Nat /\ m < next
      BY <1>1 DEF Entered
    <3>2. spaceNodeByEndpoint' = WithEndpoint(t)
      BY <1>4 DEF AddTarget
    <3>3. CASE Reaches(t, e)
      <4>1. EnteredAt(e)' = EnteredAt(e) \cup {next}
        BY <1>1, <2>3, <3>3 DEF EnteredAt
      <4>2. \A m \in EnteredAt(e)' : m <= next
        BY <1>1, <3>1, <4>1 DEF EnteredAt
      <4>3. spaceNodeByEndpoint'[e] = targets'[next]
        BY <1>1, <3>2, <3>3 DEF WithEndpoint
      <4>4. QED
        BY <4>1, <4>2, <4>3
    <3>4. CASE ~Reaches(t, e)
      <4>1. EnteredAt(e)' = EnteredAt(e)
        BY <1>1, <2>3, <3>4 DEF EnteredAt
      <4>2. spaceNodeByEndpoint'[e] = spaceNodeByEndpoint[e]
        BY <3>2, <3>4 DEF WithEndpoint
      <4>3. WalkedAt(e) = {}
        BY <1>3 DEF WalkedAt
      <4>4. QED
        BY <1>1, <4>1, <4>2, <4>3 DEF WalkInv, EndpointsInv
    <3>5. QED
      BY <3>3, <3>4
  <2>8. EndpointsInv'
    <3>1. \A e \in Endpoints \cup Hosts : WalkedAt(e)' = {}
      BY <1>3 DEF WalkedAt
    <3>2. QED
      BY <2>7, <3>1 DEF EndpointsInv
  <2>9. QED
    BY <1>2, <2>4, <2>6, <2>8 DEF WalkInv
<1>5. CASE ~t.bastion
  <2>1. spaceTargets' = spaceTargets /\ spaceNodes' = spaceNodes
    BY <1>5 DEF AddTarget, maps
  <2>2. Entered' = Entered
    BY <1>1, <1>5 DEF Entered
  <2>3. TargetIdsInv' /\ NodesInv'
    BY <1>1, <1>3, <2>1, <2>2
       DEF WalkInv, TargetIdsInv, NodesInv, EnteredFor, WalkedFor
  <2>4. EndpointsInv'
    <3>1. spaceNodeByEndpoint' = spaceNodeByEndpoint
      BY <1>5 DEF AddTarget, maps
    <3>2. QED
      BY <1>1, <1>3, <2>2, <3>1
         DEF WalkInv, EndpointsInv, EnteredAt, WalkedAt
  <2>5. QED
    BY <1>2, <2>3, <2>4 DEF WalkInv
<1>6. QED
  BY <1>4, <1>5

\* The invariant survives the answer of the cloud, whenever it comes.
LEMMA FetchedWalk ==
  ASSUME IInv, WalkInv, Fetched
  PROVE  WalkInv'
<1>1. /\ at = "local" /\ at' = at /\ fetch' \in {"done", "failed"}
      /\ fetch' = "done" => sharedSpaces' = spaces
      /\ sharedSpaces' \in {spaces, sharedSpaces}
      /\ UNCHANGED <<targets, spaces, spaceTargets, spaceNodes,
                     spaceNodeByEndpoint, next, i, j>>
  BY DEF Fetched, maps, IInv, LoopInv
<1>2. BoundInv' /\ FetchInv' /\ SharedInv'
  BY <1>1, LenProperties DEF IInv, LoopInv, WalkInv, BoundInv, FetchInv, SharedInv
<1>3. TargetIdsInv' /\ NodesInv'
  BY <1>1 DEF WalkInv, TargetIdsInv, NodesInv, Entered, Walked, EnteredFor, WalkedFor
<1>4. EndpointsInv'
  BY <1>1 DEF WalkInv, EndpointsInv, Entered, Walked, EnteredAt, WalkedAt
<1>5. QED
  BY <1>2, <1>3, <1>4 DEF WalkInv

\* The second loop starts with all of the answer before it.
LEMMA WaitWalk ==
  ASSUME IInv, WalkInv, Wait
  PROVE  WalkInv'
<1>1. /\ at = "local" /\ next > Len(targets) /\ fetch # "pending"
      /\ at' = IF fetch = "failed" THEN "error" ELSE "filter"
      /\ i' = Len(sharedSpaces) /\ j' = Len(sharedSpaces)
      /\ UNCHANGED <<targets, spaces, fetch, sharedSpaces, spaceTargets, spaceNodes,
                     spaceNodeByEndpoint, next>>
  BY DEF Wait, maps
<1>2. /\ Len(targets) \in Nat /\ Len(sharedSpaces) \in Nat
      /\ DOMAIN sharedSpaces = 1..Len(sharedSpaces)
      /\ next \in 1..Len(targets) + 1
  BY LenProperties DEF IInv, LoopInv
<1>3. BoundInv' /\ FetchInv'
  BY <1>1, <1>2, ConsolidationAssumption DEF WalkInv, BoundInv, FetchInv
<1>4. at' = "filter" => sharedSpaces = spaces
  BY <1>1 DEF WalkInv, FetchInv
<1>5. Walked = {} /\ Walked' = {} /\ Entered' = Entered
  BY <1>1, <1>2, <1>4 DEF Walked, Entered
<1>6. TargetIdsInv' /\ NodesInv' /\ EndpointsInv'
  BY <1>1, <1>5 DEF WalkInv, TargetIdsInv, NodesInv, EnteredFor, WalkedFor,
                    EndpointsInv, EnteredAt, WalkedAt
<1>7. ASSUME at' = "filter"
      PROVE  SharedInv'
  <2> DEFINE f == [a \in DOMAIN sharedSpaces |-> a]
  <2>1. /\ i' = Len(sharedSpaces) /\ sharedSpaces' = sharedSpaces /\ spaces' = spaces
        /\ sharedSpaces = spaces /\ Kept' \subseteq DOMAIN spaces
    BY <1>1, <1>4, <1>7 DEF Kept
  <2>2. (1..i \cup {n \in Kept : n > i})' = DOMAIN sharedSpaces
    BY <1>2, <2>1
  <2>3. f \in [DOMAIN sharedSpaces' -> DOMAIN spaces']
    BY <2>1
  <2>4. \A a \in 1..i' : a \in DOMAIN sharedSpaces' /\ f[a] = a
    BY <1>2, <2>1
  <2>5. Selects(f, DOMAIN sharedSpaces)'
    BY <2>1 DEF Selects
  <2>6. QED
    BY <2>2, <2>3, <2>4, <2>5 DEF SharedInv, Selects
<1>8. SharedInv'
  BY <1>1, <1>7 DEF SharedInv
<1>9. QED
  BY <1>3, <1>6, <1>8 DEF WalkInv

\* What a turn of the second loop finds at i: the shared space that was there
\* in the answer.
LEMMA FilterFinds ==
  ASSUME IInv, WalkInv, Filter
  PROVE  /\ at = "filter" /\ at' = at /\ i \in 1..Len(sharedSpaces) /\ i' = i - 1
         /\ Len(sharedSpaces) \in Nat /\ DOMAIN sharedSpaces = 1..Len(sharedSpaces)
         /\ i \in DOMAIN spaces /\ sharedSpaces[i] = spaces[i]
         /\ spaces[i] \in Spaces
         /\ j = Len(sharedSpaces)
         /\ UNCHANGED <<targets, spaces, fetch, spaceTargets, next>>
<1>1. /\ at = "filter" /\ at' = at /\ i > 0 /\ i' = i - 1
      /\ UNCHANGED <<targets, spaces, fetch, spaceTargets, next>>
  BY DEF Filter
<1>2. /\ sharedSpaces \in Seq(Spaces) /\ i \in Nat /\ i <= Len(sharedSpaces)
      /\ j = Len(sharedSpaces)
  BY <1>1 DEF IInv, LoopInv, WalkInv, BoundInv
<1>3. /\ Len(sharedSpaces) \in Nat /\ i \in 1..Len(sharedSpaces)
      /\ DOMAIN sharedSpaces = 1..Len(sharedSpaces)
  BY <1>1, <1>2, LenProperties
<1>4. PICK f \in [DOMAIN sharedSpaces -> DOMAIN spaces] :
        /\ \A a \in 1..i : a \in DOMAIN sharedSpaces /\ f[a] = a
        /\ Selects(f, 1..i \cup {n \in Kept : n > i})
  BY <1>1 DEF WalkInv, SharedInv
<1>5. f[i] = i /\ i \in DOMAIN spaces /\ sharedSpaces[i] = spaces[i]
  BY <1>3, <1>4 DEF Selects
<1>6. sharedSpaces[i] \in Spaces
  BY <1>2, <1>3, ElementOfSeq
<1>7. QED
  BY <1>1, <1>2, <1>3, <1>5, <1>6

\* Once the targets are entered, an id has a local target exactly when it is
\* among the ids collected.
LEMMA TargetIdsAreLocal ==
  ASSUME IInv, WalkInv, at # "local", NEW id \in Ids
  PROVE  id \in spaceTargets <=> id \in LocalIds
<1>1. next = Len(targets) + 1 /\ Len(targets) \in Nat /\ DOMAIN targets = 1..Len(targets)
  BY LenProperties DEF IInv, LoopInv, WalkInv, BoundInv
<1>2. Entered = {n \in DOMAIN targets : targets[n].bastion}
  BY <1>1 DEF Entered
<1>3. spaceTargets = LocalIds \ {None}
  BY <1>2 DEF WalkInv, TargetIdsInv, LocalIds
<1>4. QED
  BY <1>3, ConsolidationAssumption

\* A key is free exactly when no target entered and no space walked has it.
LEMMA FreeKeys ==
  ASSUME IInv, WalkInv, NEW key \in Keys
  PROVE  spaceNodes[key] = None <=> EnteredFor(key) = {} /\ WalkedFor(key) = {}
<1> USE ConsolidationAssumption
<1>1. ASSUME NEW n \in EnteredFor(key)
      PROVE  targets[n] # None
  <2>1. n \in 1..Len(targets)
    BY LenProperties DEF EnteredFor, Entered, IInv, LoopInv
  <2>2. targets[n] \in Bastions \cup Others
    BY <2>1, ElementOfSeq DEF IInv, LoopInv
  <2>3. QED
    BY <2>2
<1>2. ASSUME NEW n \in WalkedFor(key)
      PROVE  spaces[n] # None
  <2>1. n \in DOMAIN spaces
    BY DEF WalkedFor, Walked
  <2>2. spaces[n] \in Spaces
    BY <2>1, LenProperties, ElementOfSeq DEF IInv, LoopInv
  <2>3. QED
    BY <2>2
<1>3. QED
  BY <1>1, <1>2 DEF WalkInv, NodesInv

\* A turn of the second loop files the shared space under a key nobody has yet.
LEMMA FilterNodes ==
  ASSUME IInv, WalkInv, Filter
  PROVE  NodesInv'
<1> USE ConsolidationAssumption
<1> DEFINE node == spaces[i]
<1>1. /\ at = "filter" /\ at' = at /\ i \in 1..Len(sharedSpaces) /\ i' = i - 1
      /\ i \in DOMAIN spaces /\ sharedSpaces[i] = node /\ node \in Spaces
      /\ DOMAIN spaces \subseteq Nat
      /\ UNCHANGED <<targets, spaces, next>>
  BY FilterFinds, LenProperties DEF IInv, LoopInv
<1>2. node # None /\ node.key \in Keys
  BY <1>1 DEF Spaces
<1>3. Walked' = Walked \cup {i} /\ \A m \in Walked : i < m
  BY <1>1 DEF Walked
<1>4. SUFFICES ASSUME NEW key \in Keys
      PROVE  \/ \E n \in EnteredFor(key)' : spaceNodes'[key] = targets'[n]
             \/ /\ EnteredFor(key)' = {}
                /\ \E n \in WalkedFor(key)' : /\ \A m \in WalkedFor(key)' : m <= n
                                             /\ spaceNodes'[key] = spaces'[n]
             \/ EnteredFor(key)' = {} /\ WalkedFor(key)' = {} /\ spaceNodes'[key] = None
  BY DEF NodesInv
<1>5. EnteredFor(key)' = EnteredFor(key)
  BY <1>1 DEF EnteredFor, Entered
<1>6. CASE key # node.key
  <2>1. WalkedFor(key)' = WalkedFor(key)
    BY <1>1, <1>3, <1>6 DEF WalkedFor
  <2>2. spaceNodes'[key] = spaceNodes[key]
    BY <1>1, <1>6 DEF Filter, IInv, KeyInv
  <2>3. QED
    BY <1>1, <1>5, <2>1, <2>2 DEF WalkInv, NodesInv
<1>7. CASE key = node.key /\ spaceNodes[key] # None
  <2>1. spaceNodes' = spaceNodes
    BY <1>1, <1>7 DEF Filter
  <2>2. CASE \E n \in EnteredFor(key) : spaceNodes[key] = targets[n]
    BY <1>1, <1>5, <2>1, <2>2
  <2>3. CASE ~ \E n \in EnteredFor(key) : spaceNodes[key] = targets[n]
    <3>1. EnteredFor(key) = {}
      BY <1>7, <2>3 DEF WalkInv, NodesInv
    <3>2. PICK n \in WalkedFor(key) : /\ \A m \in WalkedFor(key) : m <= n
                                      /\ spaceNodes[key] = spaces[n]
      BY <1>7, <2>3 DEF WalkInv, NodesInv
    <3>3. WalkedFor(key)' = WalkedFor(key) \cup {i} /\ i < n /\ n \in Nat
      BY <1>1, <1>3, <1>7, <3>2 DEF WalkedFor, Walked
    <3>4. \A m \in WalkedFor(key)' : m <= n
      BY <1>1, <3>2, <3>3
    <3>5. QED
      BY <1>1, <1>5, <2>1, <3>1, <3>2, <3>3, <3>4
  <2>4. QED
    BY <2>2, <2>3
<1>8. CASE key = node.key /\ spaceNodes[key] = None
  <2>1. spaceNodes'[key] = node
    BY <1>1, <1>2, <1>8 DEF Filter, IInv, KeyInv
  <2>2. EnteredFor(key) = {} /\ WalkedFor(key) = {}
    BY <1>8, FreeKeys
  <2>3. WalkedFor(key)' = {i}
    <3>1. \A n \in Walked : spaces[n].key # key
      BY <2>2 DEF WalkedFor
    <3>2. WalkedFor(key)' = {n \in Walked \cup {i} : spaces[n].key = key}
      BY <1>1, <1>3 DEF WalkedFor
    <3>3. QED
      BY <1>8, <3>1, <3>2
  <2>4. QED
    BY <1>1, <1>5, <2>1, <2>2, <2>3
<1>9. QED
  BY <1>6, <1>7, <1>8

\* A turn of the second loop files exactly the spaces that are looked up by
\* their keys in the end.
LEMMA FilterWinner ==
  ASSUME IInv, WalkInv, Filter
  PROVE  i \in Winners <=> spaceNodes[spaces[i].key] = None
<1> DEFINE key == spaces[i].key
<1>1. /\ at = "filter" /\ i \in DOMAIN spaces /\ spaces[i] \in Spaces
      /\ DOMAIN spaces \subseteq Nat
  BY FilterFinds, LenProperties DEF IInv, LoopInv
<1>2. key \in Keys
  BY <1>1 DEF Spaces
<1>3. IsLocal(key) <=> EnteredFor(key) # {}
  <2>1. next = Len(targets) + 1 /\ Len(targets) \in Nat /\ DOMAIN targets = 1..Len(targets)
    BY <1>1, LenProperties DEF IInv, LoopInv, WalkInv, BoundInv
  <2>2. EnteredFor(key) = {n \in DOMAIN targets : targets[n].bastion /\ targets[n].key = key}
    BY <2>1 DEF EnteredFor, Entered
  <2>3. QED
    BY <2>2 DEF IsLocal
<1>4. WalkedFor(key) = {} <=> \A m \in DOMAIN spaces : spaces[m].key = key => m <= i
  BY <1>1 DEF WalkedFor, Walked
<1>5. QED
  BY <1>1, <1>2, <1>3, <1>4, FreeKeys DEF Winners

\* A turn of the second loop takes over the endpoint and the host of the space
\* it files, and no others.
LEMMA FilterEndpoints ==
  ASSUME IInv, WalkInv, Filter
  PROVE  EndpointsInv'
<1> DEFINE node == spaces[i]
<1>1. /\ at = "filter" /\ at' = at /\ i' = i - 1 /\ i \in Nat
      /\ i \in DOMAIN spaces /\ sharedSpaces[i] = node /\ DOMAIN spaces \subseteq Nat
      /\ UNCHANGED <<targets, spaces, next>>
  BY FilterFinds, LenProperties DEF IInv, LoopInv
<1>2. Walked' = Walked \cup {i} /\ \A m \in Walked : m \in Nat /\ i < m
  BY <1>1 DEF Walked
<1>3. Winners' = Winners /\ \A e : EnteredAt(e)' = EnteredAt(e)
  BY <1>1 DEF Winners, IsLocal, EnteredAt, Entered
<1>4. SUFFICES ASSUME NEW e \in Endpoints \cup Hosts
      PROVE  \/ \E n \in WalkedAt(e)' : /\ \A m \in WalkedAt(e)' : n <= m
                                       /\ spaceNodeByEndpoint'[e] = spaces'[n]
             \/ /\ WalkedAt(e)' = {}
                /\ \E n \in EnteredAt(e)' : /\ \A m \in EnteredAt(e)' : m <= n
                                           /\ spaceNodeByEndpoint'[e] = targets'[n]
             \/ /\ WalkedAt(e)' = {} /\ EnteredAt(e)' = {}
                /\ spaceNodeByEndpoint'[e] = None
  BY DEF EndpointsInv
<1>5. CASE i \in Winners /\ Reaches(node, e)
  <2>1. WalkedAt(e)' = WalkedAt(e) \cup {i}
    BY <1>1, <1>2, <1>3, <1>5 DEF WalkedAt
  <2>2. \A m \in WalkedAt(e)' : i <= m
    BY <1>1, <1>2, <2>1 DEF WalkedAt
  <2>3. spaceNodeByEndpoint'[e] = spaces'[i]
    <3>1. spaceNodeByEndpoint' = WithEndpoint(node)
      BY <1>1, <1>5, FilterWinner DEF Filter
    <3>2. QED
      BY <1>1, <1>5, <3>1 DEF WithEndpoint
  <2>4. QED
    BY <2>1, <2>2, <2>3
<1>6. CASE ~(i \in Winners /\ Reaches(node, e))
  <2>1. WalkedAt(e)' = WalkedAt(e)
    BY <1>1, <1>2, <1>3, <1>6 DEF WalkedAt
  <2>2. spaceNodeByEndpoint'[e] = spaceNodeByEndpoint[e]
    <3>1. CASE i \in Winners
      <4>1. spaceNodeByEndpoint' = WithEndpoint(node)
        BY <1>1, <3>1, FilterWinner DEF Filter
      <4>2. QED
        BY <1>6, <3>1, <4>1 DEF WithEndpoint
    <3>2. CASE i \notin Winners
      BY <1>1, <3>2, FilterWinner DEF Filter
    <3>3. QED
      BY <3>1, <3>2
  <2>3. QED
    BY <1>1, <1>3, <2>1, <2>2 DEF WalkInv, EndpointsInv
<1>7. QED
  BY <1>5, <1>6

\* A turn of the second loop cuts the space it is at, and only it, and only if
\* it has a local target.
LEMMA FilterShared ==
  ASSUME IInv, WalkInv, Filter
  PROVE  SharedInv'
<1> DEFINE I == 1..i \cup {n \in Kept : n > i}
           L == Len(sharedSpaces)
<1>1. /\ at = "filter" /\ at' = at /\ i \in 1..L /\ i' = i - 1
      /\ L \in Nat /\ DOMAIN sharedSpaces = 1..L /\ j = L
      /\ i \in DOMAIN spaces /\ sharedSpaces[i] = spaces[i] /\ spaces[i] \in Spaces
      /\ DOMAIN spaces \subseteq Nat
      /\ UNCHANGED <<targets, spaces>>
  BY FilterFinds, LenProperties DEF IInv, LoopInv
<1>2. PICK f \in [DOMAIN sharedSpaces -> DOMAIN spaces] :
        /\ \A a \in 1..i : a \in DOMAIN sharedSpaces /\ f[a] = a
        /\ Selects(f, I)
  BY <1>1 DEF WalkInv, SharedInv
<1>3. spaces[i].id \in Ids
  BY <1>1 DEF Spaces
<1>4. spaces[i].id \in spaceTargets <=> i \notin Kept
  BY <1>1, <1>3, TargetIdsAreLocal DEF Kept
<1>5. Kept' = Kept /\ LocalIds' = LocalIds
  BY <1>1 DEF Kept, LocalIds
<1>6. CASE i \in Kept
  <2>1. sharedSpaces' = sharedSpaces
    BY <1>1, <1>4, <1>6 DEF Filter
  <2>2. (1..i \cup {n \in Kept : n > i})' = I
    BY <1>1, <1>5, <1>6 DEF Kept
  <2>3. \A a \in 1..i' : a \in DOMAIN sharedSpaces' /\ f[a] = a
    BY <1>1, <1>2, <2>1
  <2>4. Selects(f, I)
    BY <1>2
  <2>5. f \in [DOMAIN sharedSpaces' -> DOMAIN spaces']
    BY <1>1, <2>1
  <2> HIDE DEF I
  <2>6. Selects(f, (1..i \cup {n \in Kept : n > i}))'
    BY <1>1, <2>1, <2>2, <2>4 DEF Selects
  <2>7. QED
    BY <2>3, <2>5, <2>6 DEF SharedInv
<1>7. CASE i \notin Kept
  <2>0. PICK g : g = [n \in 1..L - 1 |-> IF n < i THEN f[n] ELSE f[n + 1]]
    OBVIOUS
  <2>1. \/ sharedSpaces' = RemoveAt(sharedSpaces, i)
        \/ i = L /\ sharedSpaces' = SubSeq(sharedSpaces, 1, i - 1)
    BY <1>1, <1>4, <1>7 DEF Filter
  <2>2. /\ sharedSpaces' \in Seq(Spaces) /\ Len(sharedSpaces') = L - 1
        /\ \A m \in 1..L - 1 : sharedSpaces'[m] = IF m < i THEN sharedSpaces[m]
                                                  ELSE sharedSpaces[m + 1]
    <3>1. sharedSpaces \in Seq(Spaces) /\ i \in 1..Len(sharedSpaces)
      BY <1>1 DEF IInv, LoopInv
    <3>2. QED
      BY <2>1, <3>1, CutElements
  <2>3. DOMAIN sharedSpaces' = 1..L - 1
    BY <2>2, LenProperties
  <2>4. /\ f \in [1..L -> DOMAIN spaces]
        /\ {f[a] : a \in 1..L} = I
        /\ \A a, b \in 1..L : a < b => f[a] < f[b]
        /\ \A a \in 1..L : sharedSpaces[a] = spaces[f[a]]
        /\ f[i] = i
    BY <1>1, <1>2 DEF Selects
  <2>5. (1..i \cup {n \in Kept : n > i})' = I \ {i}
    BY <1>1, <1>5, <1>7 DEF Kept
  <2> HIDE DEF I, L
  <2>6. g \in [1..L - 1 -> DOMAIN spaces]
    BY <1>1, <2>0, <2>4
  <2>7. \A a, b \in 1..L - 1 : a < b => g[a] < g[b]
    BY <1>1, <2>0, <2>4
  <2>8. \A a \in 1..L - 1 : sharedSpaces'[a] = spaces[g[a]]
    <3>1. ASSUME NEW a \in 1..L - 1
          PROVE  sharedSpaces'[a] = spaces[g[a]]
      <4>1. a \in 1..L /\ a + 1 \in 1..L
        BY <1>1
      <4>2. sharedSpaces[a] = spaces[f[a]] /\ sharedSpaces[a + 1] = spaces[f[a + 1]]
        BY <2>4, <4>1
      <4>3. g[a] = IF a < i THEN f[a] ELSE f[a + 1]
        BY <2>0
      <4>4. sharedSpaces'[a] = IF a < i THEN sharedSpaces[a] ELSE sharedSpaces[a + 1]
        BY <2>2
      <4>5. QED
        BY <4>2, <4>3, <4>4
    <3>2. QED
      BY <3>1
  <2>9. {g[a] : a \in 1..L - 1} = I \ {i}
    <3>1. ASSUME NEW a \in 1..L - 1
          PROVE  g[a] \in I \ {i}
      <4>1. PICK b \in 1..L : b # i /\ g[a] = f[b]
        <5>1. CASE a < i
          BY <1>1, <2>0, <5>1
        <5>2. CASE a >= i
          BY <1>1, <2>0, <5>2
        <5>3. QED
          BY <1>1, <5>1, <5>2
      <4>2. f[b] \in I /\ f[b] # i
        BY <1>1, <2>4, <4>1
      <4>3. QED
        BY <4>1, <4>2
    <3>2. ASSUME NEW x \in I \ {i}
          PROVE  \E a \in 1..L - 1 : g[a] = x
      <4>1. PICK b \in 1..L : f[b] = x
        BY <2>4
      <4>2. b # i
        BY <2>4, <4>1
      <4>3. CASE b < i
        <5>1. b \in 1..L - 1 /\ g[b] = x
          BY <1>1, <2>0, <4>1, <4>3
        <5>2. QED
          BY <5>1
      <4>4. CASE b > i
        <5>1. b - 1 \in 1..L - 1 /\ ~(b - 1 < i) /\ b - 1 + 1 = b
          BY <1>1, <4>4
        <5>2. g[b - 1] = x
          BY <2>0, <4>1, <5>1
        <5>3. QED
          BY <5>1, <5>2
      <4>5. QED
        BY <1>1, <4>2, <4>3, <4>4
    <3>3. QED
      BY <3>1, <3>2
  <2>10. \A a \in 1..i' : a \in DOMAIN sharedSpaces' /\ g[a] = a
    BY <1>1, <1>2, <2>0, <2>3
  <2>11. Selects(g, (1..i \cup {n \in Kept : n > i}))'
    BY <1>1, <2>3, <2>5, <2>7, <2>8, <2>9 DEF Selects
  <2>12. g \in [DOMAIN sharedSpaces' -> DOMAIN spaces']
    BY <1>1, <2>3, <2>6
  <2>13. QED
    BY <2>10, <2>11, <2>12 DEF SharedInv
<1>8. QED
  BY <1>6, <1>7

\* A turn of the second loop keeps the invariant.
LEMMA FilterWalk ==
  ASSUME IInv, WalkInv, Filter
  PROVE  WalkInv'
<1>1. /\ at = "filter" /\ at' = at /\ i \in 1..Len(sharedSpaces) /\ i' = i - 1
      /\ Len(sharedSpaces) \in Nat /\ j = Len(sharedSpaces)
      /\ UNCHANGED <<targets, spaces, fetch, spaceTargets, next>>
  BY FilterFinds
<1>2. \/ UNCHANGED <<sharedSpaces, j>>
      \/ j' = j - 1 /\ Len(sharedSpaces') = Len(sharedSpaces) - 1
  <2>1. CASE sharedSpaces[i].id \notin spaceTargets
    BY <2>1 DEF Filter
  <2>2. CASE sharedSpaces[i].id \in spaceTargets
    <3>1. /\ j' = j - 1
          /\ \/ sharedSpaces' = RemoveAt(sharedSpaces, i)
             \/ i = Len(sharedSpaces) /\ sharedSpaces' = SubSeq(sharedSpaces, 1, i - 1)
      BY <1>1, <2>2 DEF Filter
    <3>2. QED
      BY <1>1, <3>1, CutElements DEF IInv, LoopInv
  <2>3. QED
    BY <2>1, <2>2
<1>3. BoundInv' /\ FetchInv'
  BY <1>1, <1>2, ConsolidationAssumption DEF WalkInv, BoundInv, FetchInv
<1>4. TargetIdsInv'
  BY <1>1 DEF WalkInv, TargetIdsInv, Entered
<1>5. QED
  BY <1>3, <1>4, FilterNodes, FilterShared, FilterEndpoints DEF WalkInv

\* The loop ends at the first of the shared spaces.
LEMMA FinishWalk ==
  ASSUME IInv, WalkInv, Finish
  PROVE  WalkInv'
<1>1. /\ at = "filter" /\ i = 0 /\ at' = "done"
      /\ UNCHANGED <<targets, spaces, fetch, sharedSpaces, spaceTargets, spaceNodes,
                     spaceNodeByEndpoint, next, i, j>>
  BY DEF Finish, maps
<1>2. Walked' = Walked /\ Entered' = Entered
  BY <1>1 DEF Walked, Entered
<1>3. BoundInv' /\ FetchInv' /\ TargetIdsInv'
  BY <1>1, <1>2 DEF WalkInv, BoundInv, FetchInv, TargetIdsInv
<1>4. NodesInv'
  BY <1>1, <1>2 DEF WalkInv, NodesInv, EnteredFor, WalkedFor
<1>5. EndpointsInv'
  BY <1>1, <1>2 DEF WalkInv, EndpointsInv, EnteredAt, WalkedAt, Winners, IsLocal
<1>6. SharedInv'
  BY <1>1 DEF WalkInv, SharedInv, Selects, Kept, LocalIds
<1>7. QED
  BY <1>3, <1>4, <1>5, <1>6 DEF WalkInv

\* Every step of the consolidation keeps the invariant.
LEMMA NextWalk == IInv /\ WalkInv /\ [Next]_vars => WalkInv'
<1> SUFFICES ASSUME IInv, WalkInv, [Next]_vars
             PROVE  WalkInv'
  OBVIOUS
<1>1. CASE UNCHANGED vars
  BY <1>1
     DEF vars, WalkInv, BoundInv, FetchInv, TargetIdsInv, NodesInv, SharedInv,
         Entered, Walked, EnteredFor, WalkedFor, Selects, Kept, LocalIds,
         EndpointsInv, EnteredAt, WalkedAt, Winners, IsLocal
<1>2. QED
  BY <1>1, AddTargetWalk, FetchedWalk, WaitWalk, FilterWalk, FinishWalk DEF Next

\* Every reachable state of the consolidation satisfies both invariants.
LEMMA WalkInductive == Spec => [](IInv /\ WalkInv)
BY InitInv, InitWalk, NextKeeps, NextWalk, PTL DEF Spec

\* A key leads to its local target, else to the last shared space with it, else
\* to nothing, for any targets and shared spaces.
THEOREM NodesAreExact == Spec => []NodesExact
<1>1. IInv /\ WalkInv => NodesExact
  <2> SUFFICES ASSUME IInv, WalkInv, at = "done", NEW key \in Keys
               PROVE
                 LET shared == {n \in DOMAIN spaces : spaces[n].key = key} IN
                 spaceNodes[key] \in
                   IF IsLocal(key) THEN {targets[n] : n \in {m \in DOMAIN targets :
                                           targets[m].bastion /\ targets[m].key = key}}
                   ELSE IF shared = {} THEN {None}
                   ELSE {spaces[CHOOSE n \in shared : \A m \in shared : m <= n]}
    BY DEF NodesExact
  <2> DEFINE shared == {n \in DOMAIN spaces : spaces[n].key = key}
  <2>1. /\ next = Len(targets) + 1 /\ i = 0
        /\ Len(targets) \in Nat /\ DOMAIN targets = 1..Len(targets)
        /\ DOMAIN spaces = 1..Len(spaces) /\ Len(spaces) \in Nat
    BY LenProperties DEF IInv, LoopInv, WalkInv, BoundInv
  <2>2. EnteredFor(key) = {m \in DOMAIN targets : targets[m].bastion /\ targets[m].key = key}
    BY <2>1 DEF EnteredFor, Entered
  <2>3. WalkedFor(key) = shared /\ shared \subseteq Nat
    BY <2>1 DEF WalkedFor, Walked
  <2>4. IsLocal(key) <=> EnteredFor(key) # {}
    BY <2>2 DEF IsLocal
  <2>5. CASE \E n \in EnteredFor(key) : spaceNodes[key] = targets[n]
    BY <2>2, <2>4, <2>5
  <2>6. CASE EnteredFor(key) = {} /\ \E n \in shared : /\ \A m \in shared : m <= n
                                                     /\ spaceNodes[key] = spaces[n]
    <3>1. PICK n \in shared : (\A m \in shared : m <= n) /\ spaceNodes[key] = spaces[n]
      BY <2>6
    <3> HIDE DEF shared
    <3>2. (CHOOSE x \in shared : \A m \in shared : m <= x) = n
      <4>1. PICK x \in shared : /\ x = CHOOSE y \in shared : \A m \in shared : m <= y
                                /\ \A m \in shared : m <= x
        BY <3>1
      <4>2. x = n
        BY <2>3, <3>1, <4>1
      <4>3. QED
        BY <4>1, <4>2
    <3>3. shared # {}
      BY <3>1
    <3>4. QED
      BY <2>4, <2>6, <3>1, <3>2, <3>3 DEF shared
  <2>7. CASE EnteredFor(key) = {} /\ shared = {} /\ spaceNodes[key] = None
    BY <2>4, <2>7
  <2>8. QED
    BY <2>3, <2>5, <2>6, <2>7 DEF WalkInv, NodesInv
<1>2. QED
  BY <1>1, WalkInductive, PTL

\* Cutting the slice while walking it leaves exactly the shared spaces without
\* a local target, in their order, for any targets and shared spaces.
THEOREM SharedIsExact == Spec => []SharedExact
<1>1. IInv /\ WalkInv => SharedExact
  <2> SUFFICES ASSUME IInv, WalkInv, at = "done"
               PROVE  \E f \in [DOMAIN sharedSpaces -> DOMAIN spaces] : Selects(f, Kept)
    BY DEF SharedExact
  <2>1. i = 0 /\ DOMAIN spaces = 1..Len(spaces) /\ Len(spaces) \in Nat
    BY LenProperties DEF IInv, LoopInv, WalkInv, BoundInv
  <2>2. 1..i \cup {n \in Kept : n > i} = Kept
    BY <2>1 DEF Kept
  <2>3. QED
    BY <2>2 DEF WalkInv, SharedInv
<1>2. QED
  BY <1>1, WalkInductive, PTL

-----------------------------------------------------------------------------
(* The mesh daemon *)

\* The constructor's loop has the hosts of the spaces it has been to.
LEMMA DaemonKeeps ==
  IInv /\ CacheInv /\ [DaemonNext]_daemonVars => IInv' /\ CacheInv'
<1> SUFFICES ASSUME IInv, CacheInv, [DaemonNext]_daemonVars
             PROVE  IInv' /\ CacheInv'
  OBVIOUS
<1>1. [Next]_vars
  BY DEF DaemonNext, daemonVars, NewDaemon, CacheEndpoint, Hooked,
         CacheDNSNames
<1>2. IInv'
  BY <1>1, NextKeeps
<1>3. CacheInv'
  <2>1. CASE Next /\ UNCHANGED dns
    <3>1. at # "done"
      BY <2>1 DEF Next, AddTarget, Fetched, Wait, Filter, Finish, IInv, LoopInv
    <3>2. QED
      BY <2>1, <3>1 DEF CacheInv, dns
  <2>2. CASE NewDaemon
    BY <2>2 DEF NewDaemon, CacheInv, vars
  <2>3. ASSUME NEW k \in Keys, CacheEndpoint(k) PROVE CacheInv'
    BY <2>3 DEF CacheEndpoint, CacheInv, vars, Resolvable
  <2>4. CASE Hooked
    BY <2>4 DEF Hooked, CacheInv, vars, Resolvable
  <2>5. ASSUME NEW s, CacheDNSNames(s) PROVE CacheInv'
    BY <2>5 DEF CacheDNSNames, CacheInv, vars, Resolvable
  <2>6. CASE UNCHANGED daemonVars
    BY <2>6 DEF daemonVars, dns, vars, CacheInv, Resolvable
  <2>7. QED
    BY <2>1, <2>2, <2>3, <2>4, <2>5, <2>6 DEF DaemonNext
<1>4. QED
  BY <1>2, <1>3

\* Every reachable state of the daemon satisfies both inductive invariants.
LEMMA DaemonInductive == DaemonFairSpec => [](IInv /\ CacheInv)
<1>1. DaemonInit => IInv /\ CacheInv
  BY InitInv DEF DaemonInit, CacheInv
<1>2. QED
  BY <1>1, DaemonKeeps, PTL DEF DaemonFairSpec

\* For any spaces, whichever look-ups fail, the cache of a daemon that is up has
\* the host of every endpoint without a port but those.
THEOREM CacheIsComplete == DaemonFairSpec => []EndpointsCached
<1>1. CacheInv => EndpointsCached
  BY DEF CacheInv, EndpointsCached
<1>2. QED
  BY <1>1, DaemonInductive, PTL

\* Every reachable state of the daemon satisfies the invariants of the loops.
LEMMA DaemonWalks == DaemonFairSpec => [](IInv /\ WalkInv)
<1>1. DaemonInit => IInv /\ WalkInv
  BY InitInv, InitWalk DEF DaemonInit
<1>2. IInv /\ WalkInv /\ [DaemonNext]_daemonVars => (IInv /\ WalkInv)'
  <2>1. [DaemonNext]_daemonVars => [Next]_vars
    BY DEF DaemonNext, daemonVars, NewDaemon, CacheEndpoint, Hooked,
           CacheDNSNames
  <2>2. QED
    BY <2>1, NextKeeps, NextWalk
<1>3. QED
  BY <1>1, <1>2, PTL DEF DaemonFairSpec

\* For any targets and shared spaces, the daemon trusts a host as the first of
\* the shared spaces there that are looked up by key, else as the last of the
\* local targets there, else not at all.
THEOREM TrustIsExact == DaemonFairSpec => []TrustsItsSpaces
<1>1. IInv /\ WalkInv => TrustsItsSpaces
  <2> SUFFICES ASSUME IInv, WalkInv, at = "done", NEW h \in Hosts \ Defaults
               PROVE
                 ConfigureTLS(h) \in
                   IF SharedAt(h) # {}
                     THEN {Trust(spaces[n]) : n \in {m \in SharedAt(h) :
                             \A l \in SharedAt(h) : m <= l}}
                   ELSE IF LocalAt(h) # {}
                     THEN {Trust(targets[n]) : n \in {m \in LocalAt(h) :
                             \A l \in LocalAt(h) : l <= m}}
                   ELSE {<<"refused", None>>}
    BY DEF TrustsItsSpaces
  <2> DEFINE node == spaceNodeByEndpoint[h]
  <2>1. /\ next = Len(targets) + 1 /\ i = 0
        /\ Len(targets) \in Nat /\ DOMAIN targets = 1..Len(targets)
        /\ DOMAIN spaces = 1..Len(spaces) /\ Len(spaces) \in Nat
    BY LenProperties DEF IInv, LoopInv, WalkInv, BoundInv
  <2>2. EnteredAt(h) = LocalAt(h)
    BY <2>1 DEF EnteredAt, Entered, LocalAt
  <2>3. WalkedAt(h) = SharedAt(h)
    BY <2>1 DEF WalkedAt, Walked, SharedAt, Winners
  <2>4. \/ \E n \in SharedAt(h) : (\A m \in SharedAt(h) : n <= m) /\ node = spaces[n]
        \/ /\ SharedAt(h) = {}
           /\ \E n \in LocalAt(h) : (\A m \in LocalAt(h) : m <= n) /\ node = targets[n]
        \/ SharedAt(h) = {} /\ LocalAt(h) = {} /\ node = None
    BY <2>2, <2>3 DEF WalkInv, EndpointsInv
  <2>5. node # None => ConfigureTLS(h) = Trust(node)
    BY DEF ConfigureTLS, Trust
  <2>6. CASE \E n \in SharedAt(h) : (\A m \in SharedAt(h) : n <= m) /\ node = spaces[n]
    <3>1. PICK n \in SharedAt(h) : (\A m \in SharedAt(h) : n <= m) /\ node = spaces[n]
      BY <2>6
    <3>2. spaces[n] \in Spaces
      BY <2>1, ElementOfSeq DEF IInv, LoopInv, SharedAt, Winners
    <3>3. ConfigureTLS(h) = Trust(spaces[n])
      BY <2>5, <3>1, <3>2, ConsolidationAssumption
    <3>4. QED
      BY <3>1, <3>3
  <2>7. CASE /\ SharedAt(h) = {}
             /\ \E n \in LocalAt(h) : (\A m \in LocalAt(h) : m <= n) /\ node = targets[n]
    <3>1. PICK n \in LocalAt(h) : (\A m \in LocalAt(h) : m <= n) /\ node = targets[n]
      BY <2>7
    <3>2. targets[n] \in Bastions \cup Others
      BY <2>1, ElementOfSeq DEF IInv, LoopInv, LocalAt
    <3>3. ConfigureTLS(h) = Trust(targets[n])
      BY <2>5, <3>1, <3>2, ConsolidationAssumption
    <3>4. QED
      BY <2>7, <3>1, <3>3
  <2>8. CASE SharedAt(h) = {} /\ LocalAt(h) = {} /\ node = None
    BY <2>8 DEF ConfigureTLS
  <2>9. QED
    BY <2>4, <2>6, <2>7, <2>8
<1>2. QED
  BY <1>1, DaemonWalks, PTL

\* The loops' invariants give the types of the consolidation.
LEMMA WalkTypes == IInv /\ WalkInv => TypeOK
<1> SUFFICES ASSUME IInv, WalkInv
             PROVE  TypeOK
  OBVIOUS
<1>1. /\ next \in 1..Len(targets) + 1
      /\ j \in 0..Len(sharedSpaces) /\ i \in 0..j
      /\ at # "local" => j = Len(sharedSpaces)
  BY DEF IInv, LoopInv, WalkInv, BoundInv
<1>2. spaceTargets \subseteq Ids
  <2>1. ASSUME NEW n \in Entered
        PROVE  targets[n].id \in Ids \cup {None}
    <3>1. n \in 1..Len(targets)
      BY LenProperties DEF Entered, IInv, LoopInv
    <3>2. targets[n] \in Bastions \cup Others
      BY <3>1, ElementOfSeq DEF IInv, LoopInv
    <3>3. QED
      BY <3>2 DEF Bastions, Others
  <2>2. QED
    BY <2>1 DEF WalkInv, TargetIdsInv
<1>3. QED
  BY <1>1, <1>2 DEF TypeOK, IInv, LoopInv, KeyInv, WalkInv, FetchInv

\* The daemon's own variables have their types, and what its constructor has
\* not come to are nodes of the finished map.
DaemonTypes ==
  /\ unseen \subseteq Keys
  /\ \A k \in unseen : at = "done" /\ Resolvable(spaceNodes[k])
  /\ cached \subseteq Names /\ failed \subseteq Hosts
  /\ daemon \in {"none", "new", "up"}

\* Every step keeps them, given the types of the maps.
LEMMA DaemonTypesKept ==
  IInv /\ DaemonTypes /\ [DaemonNext]_daemonVars => DaemonTypes'
<1> SUFFICES ASSUME IInv, DaemonTypes, [DaemonNext]_daemonVars
             PROVE  DaemonTypes'
  OBVIOUS
<1> USE ConsolidationAssumption, DaemonAssumption
<1>1. CASE Next /\ UNCHANGED dns
  <2>1. at # "done"
    BY <1>1 DEF Next, AddTarget, Fetched, Wait, Filter, Finish, IInv, LoopInv
  <2>2. unseen = {}
    BY <2>1 DEF DaemonTypes
  <2>3. QED
    BY <1>1, <2>2 DEF dns, DaemonTypes
<1>2. CASE NewDaemon \/ Hooked
  BY <1>2 DEF NewDaemon, Hooked, DaemonTypes, vars, Resolvable
<1>3. ASSUME NEW k \in Keys, CacheEndpoint(k) PROVE DaemonTypes'
  <2>1. Resolvable(spaceNodes[k])
    BY <1>3 DEF CacheEndpoint, DaemonTypes
  <2>2. spaceNodes[k] \in Bastions \cup Spaces
    BY <2>1 DEF IInv, KeyInv, Nodes, Resolvable
  <2>3. spaceNodes[k].ep \in Endpoints
    BY <2>1, <2>2 DEF Bastions, Spaces, Resolvable
  <2>4. spaceNodes[k].ep[1] \in Hosts
    BY <2>3
  <2>5. QED
    BY <1>3, <2>4 DEF CacheEndpoint, DaemonTypes, vars
<1>4. ASSUME NEW names \in SeqUpTo(Names, MaxNames), CacheDNSNames(names)
      PROVE  DaemonTypes'
  <2>1. names \in Seq(Names)
    BY SeqUpToIsSeq
  <2>2. \A m \in 1..Len(names) : names[m] \in Names
    BY <2>1, ElementOfSeq
  <2>3. PICK n \in 0..Len(names) : cached' = cached \cup {names[m] : m \in 1..n}
    BY <1>4 DEF CacheDNSNames
  <2>4. Len(names) \in Nat
    BY <2>1, LenProperties
  <2>5. cached' \subseteq Names
    BY <2>2, <2>3, <2>4 DEF DaemonTypes
  <2>6. QED
    BY <1>4, <2>5 DEF CacheDNSNames, DaemonTypes, vars
<1>5. CASE UNCHANGED daemonVars
  BY <1>5 DEF daemonVars, dns, vars, DaemonTypes
<1>6. QED
  BY <1>1, <1>2, <1>3, <1>4, <1>5 DEF DaemonNext

\* Type correctness of the daemon and of the consolidation under it.
THEOREM DaemonTypeCorrect == DaemonFairSpec => []DaemonTypeOK
<1>1. DaemonInit => DaemonTypes
  BY DEF DaemonInit, DaemonTypes
<1>2. DaemonFairSpec => []DaemonTypes
  BY <1>1, DaemonWalks, DaemonTypesKept, PTL DEF DaemonFairSpec
<1>3. IInv /\ WalkInv /\ DaemonTypes => DaemonTypeOK
  BY WalkTypes DEF DaemonTypeOK, DaemonTypes
<1>4. QED
  BY <1>2, <1>3, DaemonWalks, PTL
=============================================================================
