----------------------------- MODULE ClientLease -----------------------------
(***************************************************************************)
(* What the pool of space node API clients promises the callers of         *)
(* GetApiClientForSpace and ReleaseApiClientForSpace                       *)
(* (mycscloud/space_nodes.go), without mutex, map or reference counts: a   *)
(* space has at most one client serving it, a grant leases that client, a  *)
(* client that a call gave up on is forsaken, and the client leaves        *)
(* service exactly when the last of its leases ends and it is not          *)
(* forsaken.  SpaceApiClients implements it.                               *)
(***************************************************************************)
CONSTANTS Callers, Spaces, Clients, None

VARIABLES
  want,      \* the space a caller has asked a client for, or None
  lease,     \* the client a caller has been granted and not returned, or None
  serving,   \* the client that serves a space, or None
  running,   \* the clients that were started and not stopped
  forsaken   \* the clients that a call gave up on after the timeout

vars == <<want, lease, serving, running, forsaken>>

Init ==
  /\ want = [c \in Callers |-> None]
  /\ lease = [c \in Callers |-> None]
  /\ serving = [sp \in Spaces |-> None]
  /\ running = {}
  /\ forsaken = {}

Ask(c, sp) ==
  /\ want[c] = None /\ lease[c] = None
  /\ want' = [want EXCEPT ![c] = sp]
  /\ UNCHANGED <<lease, serving, running, forsaken>>

\* A client is started for a space somebody wants and nobody serves.
Start(sp, cl) ==
  /\ serving[sp] = None
  /\ \E c \in Callers : want[c] = sp
  /\ cl \notin running
  /\ serving' = [serving EXCEPT ![sp] = cl]
  /\ running' = running \cup {cl}
  /\ UNCHANGED <<want, lease, forsaken>>

\* The caller gets the client that serves the space it asked for, running.
Grant(c) ==
  /\ want[c] # None
  /\ serving[want[c]] \in running
  /\ lease' = [lease EXCEPT ![c] = serving[want[c]]]
  /\ want' = [want EXCEPT ![c] = None]
  /\ UNCHANGED <<serving, running, forsaken>>

\* The caller gets an error instead: nothing serves the space, or the client
\* that does has not authenticated in time and is forsaken.
Refuse(c) ==
  /\ want[c] # None
  /\ want' = [want EXCEPT ![c] = None]
  /\ IF serving[want[c]] = None
       THEN UNCHANGED forsaken
       ELSE forsaken' = forsaken \cup {serving[want[c]]}
  /\ UNCHANGED <<lease, serving, running>>

\* Nobody but c has a lease of c's client, and nobody has forsaken it.
LastLease(c) ==
  /\ lease[c] \notin forsaken
  /\ \A other \in Callers \ {c} : lease[other] # lease[c]

Return(c) ==
  /\ lease[c] # None
  /\ lease' = [lease EXCEPT ![c] = None]
  /\ serving' = [sp \in Spaces |->
                   IF serving[sp] = lease[c] /\ LastLease(c) THEN None
                                                             ELSE serving[sp]]
  /\ UNCHANGED <<want, running, forsaken>>

\* A client is stopped once it has left service.
Stop(cl) ==
  /\ cl \in running
  /\ \A sp \in Spaces : serving[sp] # cl
  /\ running' = running \ {cl}
  /\ UNCHANGED <<want, lease, serving, forsaken>>

Next ==
  \/ \E c \in Callers : (\E sp \in Spaces : Ask(c, sp)) \/ Grant(c) \/ Refuse(c) \/ Return(c)
  \/ \E cl \in Clients : Stop(cl) \/ \E sp \in Spaces : Start(sp, cl)

Spec == Init /\ [][Next]_vars
=============================================================================
