---------------------------- MODULE OwnerTransfer ----------------------------
(***************************************************************************)
(* What handing over a device (ConfigInitializer, config/initializer.go)   *)
(* promises, without clients, flags, steps or failures: the registry       *)
(* issues a device id once and to one user, a device is retired only with  *)
(* the consent of the user it is registered to, and the configuration on   *)
(* the disk passes from one owner to another only with the consent of the  *)
(* one it names, given in the same session.  DeviceOwner implements it.    *)
(***************************************************************************)
CONSTANTS Users, Devices, None, Gone

VARIABLES
  registry,   \* the user each device id is registered to, None or Gone
  saved,      \* the owner and device of the saved configuration, or None
  consent     \* the users who gave their consent in this session

vars == <<registry, saved, consent>>

Init ==
  /\ registry = [d \in Devices |-> None]
  /\ saved = None
  /\ consent = {}

\* The saved configuration may pass to u: nobody has it, u has it, or the one
\* who has it consents.
MayPassTo(u) == saved # None => saved.owner \in consent \cup {u}

Consent(u) ==
  /\ consent' = consent \cup {u}
  /\ UNCHANGED <<registry, saved>>

EndSession ==
  /\ consent' = {}
  /\ UNCHANGED <<registry, saved>>

Enroll(d, u) ==
  /\ registry[d] = None
  /\ MayPassTo(u)
  /\ registry' = [registry EXCEPT ![d] = u]
  /\ UNCHANGED <<saved, consent>>

Retire(d) ==
  /\ registry[d] \in consent
  /\ registry' = [registry EXCEPT ![d] = Gone]
  /\ UNCHANGED <<saved, consent>>

\* A device that another client of its owner retired may be saved.
Save(d, u) ==
  /\ registry[d] \in {u, Gone}
  /\ MayPassTo(u)
  /\ saved' = [owner |-> u, dev |-> d]
  /\ UNCHANGED <<registry, consent>>

Next ==
  \/ EndSession
  \/ \E u \in Users : Consent(u) \/ \E d \in Devices : Enroll(d, u) \/ Save(d, u)
  \/ \E d \in Devices : Retire(d)

Spec == Init /\ [][Next]_vars
=============================================================================
