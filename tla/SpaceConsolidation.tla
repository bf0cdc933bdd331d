------------------------- MODULE SpaceConsolidation -------------------------
(***************************************************************************)
(* How SpaceNodes merges the spaces a device manages locally with those    *)
(* shared with its user (mycscloud/space_nodes.go: NewSpaceNodes,          *)
(* GetSpaceNodes, consolidateRemoteAndLocalNodes).  A goroutine fetches the*)
(* shared spaces while the local targets are entered; then the shared      *)
(* spaces are walked backwards, entered, and cut from the slice in place   *)
(* when they have a local target.                                          *)
(***************************************************************************)
EXTENDS Integers, Sequences, SequencesExt

CONSTANTS
  Keys,        \* SpaceNode.Key()
  Ids,         \* space ids, which a deployed target has as its NodeID
  Hosts,
  Ports,
  Endpoints,   \* an endpoint is a URL that parses, to a host and a port
  None,
  MaxTargets,  \* bound: local targets
  MaxShared,   \* bound: shared spaces
  MaxNodes     \* bound: both together

\* A target without bastion is not a space; ep is None when it has no endpoint,
\* err says that its remote state failed to load, and id is None when it is not
\* deployed.  No shared space is asked for an error.
Bastions == {t \in [key: Keys, id: Ids \cup {None}, ep: Endpoints \cup {None},
                    err: BOOLEAN, bastion: {TRUE}] :
               t.ep = None => ~t.err}  \* of no consequence without endpoint
Others == [key: Keys, id: {None}, ep: {None}, err: {FALSE}, bastion: {FALSE}]
Spaces == [key: Keys, id: Ids, ep: Endpoints \cup {None}, err: {FALSE}]

ASSUME ConsolidationAssumption ==
  /\ Endpoints \subseteq Hosts \X Ports /\ Endpoints \cap Hosts = {}
  /\ None \notin Keys \cup Ids \cup Hosts \cup Ports \cup Endpoints
  /\ None \notin Bastions \cup Others \cup Spaces
  /\ MaxTargets \in Nat /\ MaxShared \in Nat

UniqueKeys(s) == \A a, b \in DOMAIN s : s[a].key = s[b].key => a = b
SeqUpTo(S, n) == UNION {[1..m -> S] : m \in 0..n}

VARIABLES
  targets,      \* TargetSet().GetTargets()
  spaces,       \* what the cloud answers
  fetch,        \* the goroutine: "none" for NewSpaceNodes
  sharedSpaces,
  spaceTargets, \* ids that have a local target
  spaceNodes, spaceNodeByEndpoint,
  next,         \* the target the first loop is at
  i, j,         \* the variables of the second loop, counting from 1
  at

maps == <<spaceTargets, spaceNodes, spaceNodeByEndpoint>>
vars == <<targets, spaces, fetch, sharedSpaces, spaceTargets, spaceNodes,
          spaceNodeByEndpoint, next, i, j, at>>

Nodes == Bastions \cup Spaces \cup {None}

TypeOK ==
  /\ fetch \in {"none", "pending", "done", "failed"}
  /\ sharedSpaces \in Seq(Spaces)
  /\ spaceTargets \subseteq Ids
  /\ spaceNodes \in [Keys -> Nodes]
  /\ spaceNodeByEndpoint \in [Endpoints \cup Hosts -> Nodes]
  /\ next \in 1..Len(targets) + 1
  /\ j \in 0..Len(sharedSpaces) /\ i \in 0..j
  /\ at # "local" => j = Len(sharedSpaces)
  /\ at \in {"local", "filter", "done", "error"}

Init ==
  /\ targets \in {s \in SeqUpTo(Bastions \cup Others, MaxTargets) : UniqueKeys(s)}
  /\ \/ fetch = "pending" /\ spaces \in SeqUpTo(Spaces, MaxShared)
     \/ fetch = "none" /\ spaces = <<>>
  /\ Len(targets) + Len(spaces) <= MaxNodes
  /\ sharedSpaces = <<>>
  /\ spaceTargets = {}
  /\ spaceNodes = [k \in Keys |-> None]
  /\ spaceNodeByEndpoint = [e \in Endpoints \cup Hosts |-> None]
  /\ next = 1 /\ i = 0 /\ j = 0
  /\ at = "local"

\* The endpoint and the host a node is reached by.
Reaches(node, e) == ~node.err /\ node.ep # None /\ e \in {node.ep, node.ep[1]}

\* Mutant of WithEndpoint: the node an endpoint leads to stays.
WithFreeEndpoint(node) ==
  [e \in Endpoints \cup Hosts |->
     IF Reaches(node, e) /\ spaceNodeByEndpoint[e] = None THEN node
     ELSE spaceNodeByEndpoint[e]]

\* A node with an endpoint is found by its URL and by the host in it, whatever
\* was found there before.
WithEndpoint(node) ==
  [e \in Endpoints \cup Hosts |->
     IF Reaches(node, e) THEN node ELSE spaceNodeByEndpoint[e]]

AddTarget ==
  /\ at = "local" /\ next <= Len(targets)
  /\ LET t == targets[next] IN
       IF t.bastion
         THEN /\ spaceTargets' = spaceTargets \cup ({t.id} \ {None})
              /\ spaceNodes' = [spaceNodes EXCEPT ![t.key] = t]
              /\ spaceNodeByEndpoint' = WithEndpoint(t)
         ELSE UNCHANGED maps
  /\ next' = next + 1
  /\ UNCHANGED <<targets, spaces, fetch, sharedSpaces, i, j, at>>

\* The goroutine of GetSpaceNodes ends, with or without an answer.
Fetched ==
  /\ fetch = "pending"
  /\ \/ fetch' = "done" /\ sharedSpaces' = spaces
     \/ fetch' = "failed" /\ UNCHANGED sharedSpaces
  /\ UNCHANGED <<targets, spaces, maps, next, i, j, at>>

\* Mutants of Wait: a fetch that failed is waited for, and an index that
\* starts one too low.
WaitForAnswer ==
  /\ at = "local" /\ next > Len(targets)
  /\ fetch \in {"none", "done"}
  /\ at' = "filter"
  /\ i' = Len(sharedSpaces) /\ j' = Len(sharedSpaces)
  /\ UNCHANGED <<targets, spaces, fetch, sharedSpaces, maps, next>>
WaitLowIndex ==
  /\ at = "local" /\ next > Len(targets)
  /\ fetch # "pending"
  /\ at' = IF fetch = "failed" THEN "error" ELSE "filter"
  /\ i' = Len(sharedSpaces) /\ j' = Len(sharedSpaces) - 1
  /\ UNCHANGED <<targets, spaces, fetch, sharedSpaces, maps, next>>

\* asyncCall.Wait, the error check, and the head of the second loop.
Wait ==
  /\ at = "local" /\ next > Len(targets)
  /\ fetch # "pending"
  /\ at' = IF fetch = "failed" THEN "error" ELSE "filter"
  /\ i' = Len(sharedSpaces) /\ j' = Len(sharedSpaces)
  /\ UNCHANGED <<targets, spaces, fetch, sharedSpaces, maps, next>>

\* Mutants of Filter: a space is cut with all that follow it; a local node
\* is overwritten; only its endpoint is.
FilterCutsTail ==
  /\ at = "filter" /\ i > 0
  /\ LET node == sharedSpaces[i] IN
     /\ IF spaceNodes[node.key] = None
          THEN /\ spaceNodes' = [spaceNodes EXCEPT ![node.key] = node]
               /\ spaceNodeByEndpoint' = WithEndpoint(node)
          ELSE UNCHANGED <<spaceNodes, spaceNodeByEndpoint>>
     /\ IF node.id \in spaceTargets
          THEN sharedSpaces' = SubSeq(sharedSpaces, 1, i - 1) /\ j' = j - 1
          ELSE UNCHANGED <<sharedSpaces, j>>
  /\ i' = i - 1
  /\ UNCHANGED <<targets, spaces, fetch, spaceTargets, next, at>>
FilterOverwrites ==
  /\ at = "filter" /\ i > 0
  /\ LET node == sharedSpaces[i] IN
     /\ spaceNodes' = [spaceNodes EXCEPT ![node.key] = node]
     /\ spaceNodeByEndpoint' = WithEndpoint(node)
     /\ IF node.id \in spaceTargets
          THEN sharedSpaces' = RemoveAt(sharedSpaces, i) /\ j' = j - 1
          ELSE UNCHANGED <<sharedSpaces, j>>
  /\ i' = i - 1
  /\ UNCHANGED <<targets, spaces, fetch, spaceTargets, next, at>>
FilterRemapsEndpoint ==
  /\ at = "filter" /\ i > 0
  /\ LET node == sharedSpaces[i] IN
     /\ IF spaceNodes[node.key] = None
          THEN spaceNodes' = [spaceNodes EXCEPT ![node.key] = node]
          ELSE UNCHANGED spaceNodes
     /\ spaceNodeByEndpoint' = WithEndpoint(node)
     /\ IF node.id \in spaceTargets
          THEN sharedSpaces' = RemoveAt(sharedSpaces, i) /\ j' = j - 1
          ELSE UNCHANGED <<sharedSpaces, j>>
  /\ i' = i - 1
  /\ UNCHANGED <<targets, spaces, fetch, spaceTargets, next, at>>

\* One turn of the second loop.
Filter ==
  /\ at = "filter" /\ i > 0
  /\ LET node == sharedSpaces[i] IN
     /\ IF spaceNodes[node.key] = None
          THEN /\ spaceNodes' = [spaceNodes EXCEPT ![node.key] = node]
               /\ spaceNodeByEndpoint' = WithEndpoint(node)
          ELSE UNCHANGED <<spaceNodes, spaceNodeByEndpoint>>
     /\ IF node.id \in spaceTargets
          THEN /\ sharedSpaces' = IF i = j THEN SubSeq(sharedSpaces, 1, i - 1)
                                  ELSE RemoveAt(sharedSpaces, i)
               /\ j' = j - 1
          ELSE UNCHANGED <<sharedSpaces, j>>
  /\ i' = i - 1
  /\ UNCHANGED <<targets, spaces, fetch, spaceTargets, next, at>>

Finish ==
  /\ at = "filter" /\ i = 0
  /\ at' = "done"
  /\ UNCHANGED <<targets, spaces, fetch, sharedSpaces, maps, next, i, j>>

Next == AddTarget \/ Fetched \/ Wait \/ Filter \/ Finish

Spec == Init /\ [][Next]_vars

\* The goroutine of NewSpaceNodes and GetSpaceNodes goes on when it can.  Nothing
\* is assumed of the fetch: its query has no timeout (api/graphql_client.go:15),
\* and Wait may wait for ever.
Consolidate == AddTarget \/ Wait \/ Filter \/ Finish
FairSpec == Spec /\ WF_vars(Consolidate)

-----------------------------------------------------------------------------
(* Properties *)

IsLocal(key) == \E n \in DOMAIN targets : targets[n].bastion /\ targets[n].key = key
LocalIds == {targets[n].id : n \in {m \in DOMAIN targets : targets[m].bastion}}

\* The shared spaces that are looked up by their keys: no local target has the
\* key, and no later shared space.
Winners ==
  {n \in DOMAIN spaces :
     /\ ~IsLocal(spaces[n].key)
     /\ \A m \in DOMAIN spaces : spaces[m].key = spaces[n].key => m <= n}

\* The shared spaces without a local target, as indices of the cloud's answer.
Kept == {n \in DOMAIN spaces : spaces[n].id \notin LocalIds}

\* sharedSpaces has, in the cloud's order, exactly the spaces at the indices I.
Selects(f, I) ==
  /\ {f[a] : a \in DOMAIN sharedSpaces} = I
  /\ \A a, b \in DOMAIN sharedSpaces : a < b => f[a] < f[b]
  /\ \A a \in DOMAIN sharedSpaces : sharedSpaces[a] = spaces[f[a]]

\* The shared spaces that remain are, in the cloud's order, those without a
\* local target: cutting the slice while walking it loses no other.
SharedExact ==
  at = "done" =>
    \E f \in [DOMAIN sharedSpaces -> DOMAIN spaces] : Selects(f, Kept)

\* A key is looked up to its local target, else to the last shared space with
\* that key, else to nothing.
NodesExact ==
  at = "done" =>
    \A key \in Keys :
      LET shared == {n \in DOMAIN spaces : spaces[n].key = key} IN
      spaceNodes[key] \in
        IF IsLocal(key) THEN {targets[n] : n \in {m \in DOMAIN targets :
                                targets[m].bastion /\ targets[m].key = key}}
        ELSE IF shared = {} THEN {None}
        ELSE {spaces[CHOOSE n \in shared : \A m \in shared : m <= n]}

\* A node found by an endpoint is the node found by its key, at every moment:
\* the two maps never disagree about which of two nodes a space is.
EndpointAgrees ==
  \A e \in Endpoints \cup Hosts :
    LET node == spaceNodeByEndpoint[e] IN
    node # None => /\ spaceNodes[node.key] = node
                   /\ Reaches(node, e)

\* Once the fetch is over, or if there is none, consolidation ends, with the maps
\* or with the fetch's error: a fetch that failed is not waited for.  (That it is
\* over, and the end, are for good, so that this need not be a leads-to.)
Ends == []<>(fetch = "pending" \/ at \in {"done", "error"})

-----------------------------------------------------------------------------
(* The inductive invariant behind EndpointAgrees *)

\* The two loops stay inside what they walk.
LoopInv ==
  /\ targets \in Seq(Bastions \cup Others) /\ UniqueKeys(targets)
  /\ spaces \in Seq(Spaces) /\ sharedSpaces \in Seq(Spaces)
  /\ next \in 1..Len(targets) + 1
  /\ i \in Nat
  /\ at = "filter" => i <= Len(sharedSpaces)
  /\ fetch = "pending" => at = "local"

\* A node of the first map is filed under its own key.
KeyInv ==
  /\ spaceNodes \in [Keys -> Nodes]
  /\ spaceNodeByEndpoint \in [Endpoints \cup Hosts -> Nodes]
  /\ \A k \in Keys : spaceNodes[k] # None => spaceNodes[k].key = k

\* While the targets are entered, only targets that were are in the map.
EnteredInv ==
  at = "local" => \A k \in Keys :
    spaceNodes[k] # None => \E n \in 1..next - 1 : targets[n].key = k

IInv == LoopInv /\ KeyInv /\ EnteredInv /\ EndpointAgrees

-----------------------------------------------------------------------------
(* The inductive invariant behind TypeOK, NodesExact and SharedExact, and   *)
(* behind the trust of the mesh daemon                                      *)

\* Each loop has its index in what it walks, and j is the last.
BoundInv ==
  /\ j \in 0..Len(sharedSpaces) /\ i \in 0..j
  /\ IF at = "local" THEN j = 0
     ELSE j = Len(sharedSpaces) /\ next = Len(targets) + 1
  /\ at = "done" => i = 0

\* The second loop starts with what the cloud answered.
FetchInv ==
  /\ fetch \in {"none", "pending", "done", "failed"}
  /\ at \in {"local", "filter", "done", "error"}
  /\ at = "local" /\ fetch \in {"none", "done"} => sharedSpaces = spaces
  /\ at \in {"filter", "done"} => fetch \in {"none", "done"}

\* The targets entered so far, and the shared spaces walked so far.
Entered == {n \in 1..next - 1 : targets[n].bastion}
Walked == IF at \in {"filter", "done"} THEN {n \in DOMAIN spaces : n > i} ELSE {}

TargetIdsInv == spaceTargets = {targets[n].id : n \in Entered} \ {None}

EnteredFor(key) == {n \in Entered : targets[n].key = key}
WalkedFor(key) == {n \in Walked : spaces[n].key = key}

\* A key has the target entered for it, else the last of the shared spaces
\* walked, else nothing.
NodesInv ==
  \A key \in Keys :
    \/ \E n \in EnteredFor(key) : spaceNodes[key] = targets[n]
    \/ /\ EnteredFor(key) = {}
       /\ \E n \in WalkedFor(key) : /\ \A m \in WalkedFor(key) : m <= n
                                   /\ spaceNodes[key] = spaces[n]
    \/ EnteredFor(key) = {} /\ WalkedFor(key) = {} /\ spaceNodes[key] = None

\* What the second loop has not come to is where it was, and what it has come to
\* is cut if it has a local target.
SharedInv ==
  at \in {"filter", "done"} =>
    \E f \in [DOMAIN sharedSpaces -> DOMAIN spaces] :
      /\ \A a \in 1..i : a \in DOMAIN sharedSpaces /\ f[a] = a
      /\ Selects(f, 1..i \cup {n \in Kept : n > i})

\* The targets entered and the shared spaces added that an endpoint reaches.
EnteredAt(e) == {n \in Entered : Reaches(targets[n], e)}
WalkedAt(e) == {n \in Walked \cap Winners : Reaches(spaces[n], e)}

\* An endpoint leads to the shared space added last, which is the lowest of
\* them, else to the target entered last, else to nothing.
EndpointsInv ==
  \A e \in Endpoints \cup Hosts :
    LET node == spaceNodeByEndpoint[e] IN
    \/ \E n \in WalkedAt(e) : (\A m \in WalkedAt(e) : n <= m) /\ node = spaces[n]
    \/ /\ WalkedAt(e) = {}
       /\ \E n \in EnteredAt(e) : (\A m \in EnteredAt(e) : m <= n) /\ node = targets[n]
    \/ WalkedAt(e) = {} /\ EnteredAt(e) = {} /\ node = None

WalkInv ==
  /\ BoundInv /\ FetchInv /\ TargetIdsInv /\ NodesInv /\ SharedInv /\ EndpointsInv
=============================================================================
