------------------------- MODULE DeviceOwner_proofs -------------------------
(***************************************************************************)
(* Proofs about the hand-over of a device, for every set of users and of   *)
(* device ids, with guests or without.                                     *)
(***************************************************************************)
EXTENDS DeviceOwner, TLAPS

\* The initial state satisfies the inductive invariant.
LEMMA InitInv == Init => IInv
<1> SUFFICES ASSUME Init PROVE IInv
  OBVIOUS
<1>1. Empty \in Config /\ Empty.init = FALSE
  BY DEF Empty, Config
<1>2. TypeOK
  BY <1>1 DEF Init, TypeOK, Steps
<1>3. DiskInv /\ AppInv
  BY <1>1 DEF Init, DiskInv, AppInv
<1>4. ConfirmInv /\ UnregisterInv /\ KeyInv
  BY <1>1 DEF Init, ConfirmInv, UnregisterInv, KeyInv
<1>5. QED
  BY <1>2, <1>3, <1>4 DEF IInv

\* The inductive invariant survives opening the saved configuration.
LEMMA OpenKeeps ==
  ASSUME IInv, Open
  PROVE  IInv'
<1> USE OwnerAssumption DEF Open, Config, cloud, session
<1>1. TypeOK'
  BY DEF IInv, TypeOK, Steps, Empty, AppInv, DiskInv
<1>2. DiskInv'
  BY DEF IInv, TypeOK, DiskInv, Complete, AppInv
<1>3. AppInv'
  <2>1. CASE disk = Empty
    BY <2>1 DEF IInv, TypeOK, AppInv, Empty
  <2>2. CASE disk.init /\ Complete(disk)
    BY <2>2 DEF IInv, TypeOK, AppInv, Complete
  <2>3. QED
    BY <2>1, <2>2 DEF IInv, DiskInv
<1>4. ConfirmInv'
  BY DEF IInv, TypeOK, ConfirmInv, AppInv, DiskInv, Complete, Empty
<1>5. UnregisterInv'
  <2>1. CASE disk = Empty
    BY <2>1 DEF IInv, TypeOK, UnregisterInv, Empty
  <2>2. CASE disk.init /\ Complete(disk)
    BY <2>2 DEF IInv, TypeOK, UnregisterInv, Complete
  <2>3. QED
    BY <2>1, <2>2 DEF IInv, DiskInv
<1>6. KeyInv'
  BY DEF IInv, TypeOK, KeyInv, AppInv, Complete, Empty
<1>7. QED
  BY <1>1, <1>2, <1>3, <1>4, <1>5, <1>6 DEF IInv

\* The inductive invariant survives the end of the process.
LEMMA CrashKeeps ==
  ASSUME IInv, Crash
  PROVE  IInv'
<1> USE OwnerAssumption DEF Crash, Die, Config, cloud, session
<1>1. TypeOK'
  BY DEF IInv, TypeOK, Steps, Empty, AppInv, DiskInv
<1>2. DiskInv'
  BY DEF IInv, TypeOK, DiskInv, Complete, AppInv
<1>3. AppInv'
  BY DEF IInv, TypeOK, AppInv, DiskInv, Complete, Empty, UnregisterInv
<1>4. ConfirmInv'
  BY DEF IInv, TypeOK, ConfirmInv, AppInv, DiskInv, Complete, Empty
<1>5. UnregisterInv'
  BY DEF IInv, TypeOK, UnregisterInv, DiskInv, AppInv, ConfirmInv, Complete, Empty
<1>6. KeyInv'
  BY DEF IInv, TypeOK, KeyInv, AppInv, Complete, Empty
<1>7. QED
  BY <1>1, <1>2, <1>3, <1>4, <1>5, <1>6 DEF IInv

\* The inductive invariant survives the login of a guest between sessions.
LEMMA GuestLoginKeeps ==
  ASSUME IInv, NEW u \in Users, GuestLogin(u)
  PROVE  IInv'
<1> USE OwnerAssumption DEF GuestLogin, Config, cloud, session
<1>1. TypeOK'
  BY DEF IInv, TypeOK, Steps, Empty, AppInv, DiskInv
<1>2. DiskInv'
  <2>1. Complete(disk)
    BY DEF IInv, DiskInv, Empty
  <2>2. disk'.init /\ disk'.owner = disk.owner /\ disk'.dev = disk.dev
    BY DEF IInv, TypeOK
  <2>3. QED
    BY <2>1, <2>2 DEF DiskInv, Complete
<1>3. AppInv'
  BY DEF IInv, TypeOK, AppInv, DiskInv, Complete, Empty, UnregisterInv
<1>4. ConfirmInv'
  BY DEF IInv, TypeOK, ConfirmInv, AppInv, DiskInv, Complete, Empty
<1>5. UnregisterInv'
  BY DEF IInv, TypeOK, UnregisterInv, DiskInv, AppInv, ConfirmInv, Complete, Empty
<1>6. KeyInv'
  BY DEF IInv, TypeOK, KeyInv, AppInv, Complete, Empty
<1>7. QED
  BY <1>1, <1>2, <1>3, <1>4, <1>5, <1>6 DEF IInv

\* The inductive invariant survives the start of a reset.
LEMMA StartResetKeeps ==
  ASSUME IInv, StartReset
  PROVE  IInv'
<1> USE OwnerAssumption DEF StartReset, Config, cloud, session
<1>1. TypeOK'
  BY DEF IInv, TypeOK, Steps, Empty, AppInv, DiskInv
<1>2. DiskInv'
  BY DEF IInv, TypeOK, DiskInv, Complete, AppInv
<1>3. AppInv'
  BY DEF IInv, TypeOK, AppInv, DiskInv, Complete, Empty, UnregisterInv
<1>4. ConfirmInv'
  BY DEF IInv, TypeOK, ConfirmInv, AppInv, DiskInv, Complete, Empty
<1>5. UnregisterInv'
  BY DEF IInv, TypeOK, UnregisterInv, DiskInv, AppInv, ConfirmInv, Complete, Empty
<1>6. KeyInv'
  BY DEF IInv, TypeOK, KeyInv, AppInv, Complete, Empty
<1>7. QED
  BY <1>1, <1>2, <1>3, <1>4, <1>5, <1>6 DEF IInv

\* The inductive invariant survives the failure of a reset.
LEMMA ResetFailsKeeps ==
  ASSUME IInv, ResetFails
  PROVE  IInv'
<1> USE OwnerAssumption DEF ResetFails, FailReset, Config, cloud, session
<1>1. TypeOK'
  BY DEF IInv, TypeOK, Steps, Empty, AppInv, DiskInv
<1>2. DiskInv'
  BY DEF IInv, TypeOK, DiskInv, Complete, AppInv
<1>3. AppInv'
  BY DEF IInv, TypeOK, AppInv, DiskInv, Complete, Empty, UnregisterInv
<1>4. ConfirmInv'
  BY DEF IInv, TypeOK, ConfirmInv, AppInv, DiskInv, Complete, Empty
<1>5. UnregisterInv'
  BY DEF IInv, TypeOK, UnregisterInv, DiskInv, AppInv, ConfirmInv, Complete, Empty
<1>6. KeyInv'
  BY DEF IInv, TypeOK, KeyInv, AppInv, Complete, Empty
<1>7. QED
  BY <1>1, <1>2, <1>3, <1>4, <1>5, <1>6 DEF IInv

\* The inductive invariant survives the answer to the confirmation dialog.
LEMMA ConfirmKeeps ==
  ASSUME IInv, Confirm
  PROVE  IInv'
<1> USE OwnerAssumption DEF Confirm, Config, cloud, session
<1>1. TypeOK'
  BY DEF IInv, TypeOK, Steps, Empty, AppInv, DiskInv
<1>2. DiskInv'
  BY DEF IInv, TypeOK, DiskInv, Complete, AppInv
<1>3. AppInv'
  BY DEF IInv, TypeOK, AppInv, DiskInv, Complete, Empty, UnregisterInv
<1>4. ConfirmInv'
  BY DEF IInv, TypeOK, ConfirmInv, AppInv, DiskInv, Complete, Empty
<1>5. UnregisterInv'
  BY DEF IInv, TypeOK, UnregisterInv, DiskInv, AppInv, ConfirmInv, Complete, Empty
<1>6. KeyInv'
  BY DEF IInv, TypeOK, KeyInv, AppInv, Complete, Empty
<1>7. QED
  BY <1>1, <1>2, <1>3, <1>4, <1>5, <1>6 DEF IInv

\* The inductive invariant survives the sign-in of the present owner.
LEMMA OwnerLoginKeeps ==
  ASSUME IInv, NEW u \in Users, OwnerLogin(u)
  PROVE  IInv'
<1> USE OwnerAssumption DEF OwnerLogin, Config, cloud, session
<1>1. TypeOK'
  BY DEF IInv, TypeOK, Steps, Empty, AppInv, DiskInv
<1>2. DiskInv'
  BY DEF IInv, TypeOK, DiskInv, Complete, AppInv
<1>3. AppInv'
  BY DEF IInv, TypeOK, AppInv, DiskInv, Complete, Empty, UnregisterInv
<1>4. ConfirmInv'
  BY DEF IInv, TypeOK, ConfirmInv, AppInv, DiskInv, Complete, Empty
<1>5. UnregisterInv'
  BY DEF IInv, TypeOK, UnregisterInv, DiskInv, AppInv, ConfirmInv, Complete, Empty
<1>6. KeyInv'
  BY DEF IInv, TypeOK, KeyInv, AppInv, Complete, Empty
<1>7. QED
  BY <1>1, <1>2, <1>3, <1>4, <1>5, <1>6 DEF IInv

\* The inductive invariant survives the sign-in of the new owner.
LEMMA NewLoginKeeps ==
  ASSUME IInv, NEW u \in Users, NewLogin(u)
  PROVE  IInv'
<1> USE OwnerAssumption DEF NewLogin, Config, cloud, session
<1>1. TypeOK'
  BY DEF IInv, TypeOK, Steps, Empty, AppInv, DiskInv
<1>2. DiskInv'
  BY DEF IInv, TypeOK, DiskInv, Complete, AppInv
<1>3. AppInv'
  BY DEF IInv, TypeOK, AppInv, DiskInv, Complete, Empty, UnregisterInv
<1>4. ConfirmInv'
  BY DEF IInv, TypeOK, ConfirmInv, AppInv, DiskInv, Complete, Empty
<1>5. UnregisterInv'
  BY DEF IInv, TypeOK, UnregisterInv, DiskInv, AppInv, ConfirmInv, Complete, Empty
<1>6. KeyInv'
  BY DEF IInv, TypeOK, KeyInv, AppInv, Complete, Empty
<1>7. QED
  BY <1>1, <1>2, <1>3, <1>4, <1>5, <1>6 DEF IInv

\* The inductive invariant survives the adoption of the new owner's configuration.
LEMMA AdoptKeeps ==
  ASSUME IInv, Adopt
  PROVE  IInv'
<1> USE OwnerAssumption DEF Adopt, Config, cloud, session
<1>1. TypeOK'
  BY DEF IInv, TypeOK, Steps, Empty, AppInv, DiskInv
<1>2. DiskInv'
  BY DEF IInv, TypeOK, DiskInv, Complete, AppInv
<1>3. AppInv'
  BY DEF IInv, TypeOK, AppInv, DiskInv, Complete, Empty, UnregisterInv
<1>4. ConfirmInv'
  BY DEF IInv, TypeOK, ConfirmInv, AppInv, DiskInv, Complete, Empty
<1>5. UnregisterInv'
  BY DEF IInv, TypeOK, UnregisterInv, DiskInv, AppInv, ConfirmInv, Complete, Empty
<1>6. KeyInv'
  BY DEF IInv, TypeOK, KeyInv, AppInv, Complete, Empty
<1>7. QED
  BY <1>1, <1>2, <1>3, <1>4, <1>5, <1>6 DEF IInv

\* The inductive invariant survives loading a key.
LEMMA LoadKeyKeeps ==
  ASSUME IInv, LoadKey
  PROVE  IInv'
<1> USE OwnerAssumption DEF LoadKey, Config, cloud, session
<1>1. TypeOK'
  BY DEF IInv, TypeOK, Steps, Empty, AppInv, DiskInv
<1>2. DiskInv'
  BY DEF IInv, TypeOK, DiskInv, Complete, AppInv
<1>3. AppInv'
  BY DEF IInv, TypeOK, AppInv, DiskInv, Complete, Empty, UnregisterInv
<1>4. ConfirmInv'
  BY DEF IInv, TypeOK, ConfirmInv, AppInv, DiskInv, Complete, Empty
<1>5. UnregisterInv'
  BY DEF IInv, TypeOK, UnregisterInv, DiskInv, AppInv, ConfirmInv, Complete, Empty
<1>6. KeyInv'
  BY DEF IInv, TypeOK, KeyInv, AppInv, Complete, Empty
<1>7. QED
  BY <1>1, <1>2, <1>3, <1>4, <1>5, <1>6 DEF IInv

\* The inductive invariant survives the start of a save.
LEMMA StartSaveKeeps ==
  ASSUME IInv, StartSave
  PROVE  IInv'
<1> USE OwnerAssumption DEF StartSave, AfterKey, Config, cloud, session
<1>1. TypeOK'
  BY DEF IInv, TypeOK, Steps, Empty, AppInv, DiskInv
<1>2. DiskInv'
  BY DEF IInv, TypeOK, DiskInv, Complete, AppInv
<1>3. AppInv'
  BY DEF IInv, TypeOK, AppInv, DiskInv, Complete, Empty, UnregisterInv
<1>4. ConfirmInv'
  BY DEF IInv, TypeOK, ConfirmInv, AppInv, DiskInv, Complete, Empty
<1>5. UnregisterInv'
  BY DEF IInv, TypeOK, UnregisterInv, DiskInv, AppInv, ConfirmInv, Complete, Empty
<1>6. KeyInv'
  BY DEF IInv, TypeOK, KeyInv, AppInv, Complete, Empty
<1>7. QED
  BY <1>1, <1>2, <1>3, <1>4, <1>5, <1>6 DEF IInv

\* The inductive invariant survives the upload of the key.
LEMMA PushKeyKeeps ==
  ASSUME IInv, PushKey
  PROVE  IInv'
<1> USE OwnerAssumption DEF PushKey, AfterKey, PushedKeys, KeyClient, Config, cloud, session
<1>1. TypeOK'
  BY DEF IInv, TypeOK, Steps, Empty, AppInv, DiskInv
<1>2. DiskInv'
  BY DEF IInv, TypeOK, DiskInv, Complete, AppInv
<1>3. AppInv'
  BY DEF IInv, TypeOK, AppInv, DiskInv, Complete, Empty, UnregisterInv
<1>4. ConfirmInv'
  BY DEF IInv, TypeOK, ConfirmInv, AppInv, DiskInv, Complete, Empty
<1>5. UnregisterInv'
  BY DEF IInv, TypeOK, UnregisterInv, DiskInv, AppInv, ConfirmInv, Complete, Empty
<1>6. KeyInv'
  BY DEF IInv, TypeOK, KeyInv, AppInv, Complete, Empty
<1>7. QED
  BY <1>1, <1>2, <1>3, <1>4, <1>5, <1>6 DEF IInv

\* The inductive invariant survives its failure.
LEMMA PushKeyFailsKeeps ==
  ASSUME IInv, PushKeyFails
  PROVE  IInv'
<1> USE OwnerAssumption DEF PushKeyFails, PushedKeys, KeyClient, Config, cloud, session
<1>1. TypeOK'
  BY DEF IInv, TypeOK, Steps, Empty, AppInv, DiskInv
<1>2. DiskInv'
  BY DEF IInv, TypeOK, DiskInv, Complete, AppInv
<1>3. AppInv'
  BY DEF IInv, TypeOK, AppInv, DiskInv, Complete, Empty, UnregisterInv
<1>4. ConfirmInv'
  BY DEF IInv, TypeOK, ConfirmInv, AppInv, DiskInv, Complete, Empty
<1>5. UnregisterInv'
  BY DEF IInv, TypeOK, UnregisterInv, DiskInv, AppInv, ConfirmInv, Complete, Empty
<1>6. KeyInv'
  BY DEF IInv, TypeOK, KeyInv, AppInv, Complete, Empty
<1>7. QED
  BY <1>1, <1>2, <1>3, <1>4, <1>5, <1>6 DEF IInv

\* The inductive invariant survives the panic without a client.
LEMMA PushKeyPanicsKeeps ==
  ASSUME IInv, PushKeyPanics
  PROVE  IInv'
<1> USE OwnerAssumption DEF PushKeyPanics, Die, Config, cloud, session
<1>1. TypeOK'
  BY DEF IInv, TypeOK, Steps, Empty, AppInv, DiskInv
<1>2. DiskInv'
  BY DEF IInv, TypeOK, DiskInv, Complete, AppInv
<1>3. AppInv'
  BY DEF IInv, TypeOK, AppInv, DiskInv, Complete, Empty, UnregisterInv
<1>4. ConfirmInv'
  BY DEF IInv, TypeOK, ConfirmInv, AppInv, DiskInv, Complete, Empty
<1>5. UnregisterInv'
  BY DEF IInv, TypeOK, UnregisterInv, DiskInv, AppInv, ConfirmInv, Complete, Empty
<1>6. KeyInv'
  BY DEF IInv, TypeOK, KeyInv, AppInv, Complete, Empty
<1>7. QED
  BY <1>1, <1>2, <1>3, <1>4, <1>5, <1>6 DEF IInv

\* The inductive invariant survives removing the old device.
LEMMA UnregisterKeeps ==
  ASSUME IInv, Unregister
  PROVE  IInv'
<1> USE OwnerAssumption DEF Unregister, Config, cloud, session
<1>1. TypeOK'
  BY DEF IInv, TypeOK, Steps, Empty, AppInv, DiskInv
<1>2. DiskInv'
  BY DEF IInv, TypeOK, DiskInv, Complete, AppInv
<1>3. AppInv'
  BY DEF IInv, TypeOK, AppInv, DiskInv, Complete, Empty, UnregisterInv
<1>4. ConfirmInv'
  BY DEF IInv, TypeOK, ConfirmInv, AppInv, DiskInv, Complete, Empty
<1>5. UnregisterInv'
  BY DEF IInv, TypeOK, UnregisterInv, DiskInv, AppInv, ConfirmInv, Complete, Empty
<1>6. KeyInv'
  BY DEF IInv, TypeOK, KeyInv, AppInv, Complete, Empty
<1>7. QED
  BY <1>1, <1>2, <1>3, <1>4, <1>5, <1>6 DEF IInv

\* The inductive invariant survives registering the new device.
LEMMA RegisterKeeps ==
  ASSUME IInv, NEW d \in Devices, Register(d)
  PROVE  IInv'
<1> USE OwnerAssumption DEF Register, Fresh, Config, cloud, session
<1>1. TypeOK'
  BY DEF IInv, TypeOK, Steps, Empty, AppInv, DiskInv
<1>2. DiskInv'
  BY DEF IInv, TypeOK, DiskInv, Complete, AppInv
<1>3. AppInv'
  BY DEF IInv, TypeOK, AppInv, DiskInv, Complete, Empty, UnregisterInv
<1>4. ConfirmInv'
  BY DEF IInv, TypeOK, ConfirmInv, AppInv, DiskInv, Complete, Empty
<1>5. UnregisterInv'
  BY DEF IInv, TypeOK, UnregisterInv, DiskInv, AppInv, ConfirmInv, Complete, Empty
<1>6. KeyInv'
  BY DEF IInv, TypeOK, KeyInv, AppInv, Complete, Empty
<1>7. QED
  BY <1>1, <1>2, <1>3, <1>4, <1>5, <1>6 DEF IInv

\* The inductive invariant survives its failure.
LEMMA RegisterFailsKeeps ==
  ASSUME IInv, RegisterFails
  PROVE  IInv'
<1> USE OwnerAssumption DEF RegisterFails, Fresh, Config, cloud, session
<1>1. TypeOK'
  BY DEF IInv, TypeOK, Steps, Empty, AppInv, DiskInv
<1>2. DiskInv'
  BY DEF IInv, TypeOK, DiskInv, Complete, AppInv
<1>3. AppInv'
  BY DEF IInv, TypeOK, AppInv, DiskInv, Complete, Empty, UnregisterInv
<1>4. ConfirmInv'
  BY DEF IInv, TypeOK, ConfirmInv, AppInv, DiskInv, Complete, Empty
<1>5. UnregisterInv'
  BY DEF IInv, TypeOK, UnregisterInv, DiskInv, AppInv, ConfirmInv, Complete, Empty
<1>6. KeyInv'
  BY DEF IInv, TypeOK, KeyInv, AppInv, Complete, Empty
<1>7. QED
  BY <1>1, <1>2, <1>3, <1>4, <1>5, <1>6 DEF IInv

\* The inductive invariant survives writing the configuration.
LEMMA WriteKeeps ==
  ASSUME IInv, Write
  PROVE  IInv'
<1> USE OwnerAssumption DEF Write, Config, cloud, session
<1>1. TypeOK'
  BY DEF IInv, TypeOK, Steps, Empty, AppInv, DiskInv
<1>2. DiskInv'
  BY DEF IInv, TypeOK, DiskInv, Complete, AppInv
<1>3. AppInv'
  BY DEF IInv, TypeOK, AppInv, DiskInv, Complete, Empty, UnregisterInv
<1>4. ConfirmInv'
  BY DEF IInv, TypeOK, ConfirmInv, AppInv, DiskInv, Complete, Empty
<1>5. UnregisterInv'
  BY DEF IInv, TypeOK, UnregisterInv, DiskInv, AppInv, ConfirmInv, Complete, Empty
<1>6. KeyInv'
  BY DEF IInv, TypeOK, KeyInv, AppInv, Complete, Empty
<1>7. QED
  BY <1>1, <1>2, <1>3, <1>4, <1>5, <1>6 DEF IInv

\* The inductive invariant survives every step.
LEMMA NextKeeps == IInv /\ [Next]_vars => IInv'
<1> SUFFICES ASSUME IInv, [Next]_vars PROVE IInv'
  OBVIOUS
<1>1. CASE Next
  <2>1. CASE \E u \in Users : GuestLogin(u) \/ OwnerLogin(u) \/ NewLogin(u)
    BY <2>1, GuestLoginKeeps, OwnerLoginKeeps, NewLoginKeeps
  <2>2. CASE Open \/ Crash \/ StartReset \/ ResetFails \/ Confirm \/ Adopt
    BY <2>2, OpenKeeps, CrashKeeps, StartResetKeeps, ResetFailsKeeps,
       ConfirmKeeps, AdoptKeeps
  <2>3. CASE LoadKey \/ StartSave \/ PushKey \/ PushKeyFails \/ PushKeyPanics
    BY <2>3, LoadKeyKeeps, StartSaveKeeps, PushKeyKeeps, PushKeyFailsKeeps,
       PushKeyPanicsKeeps
  <2>4. CASE Unregister \/ RegisterFails \/ Write
    BY <2>4, UnregisterKeeps, RegisterFailsKeeps, WriteKeeps
  <2>5. CASE \E d \in Devices : Register(d)
    BY <2>5, RegisterKeeps
  <2>6. QED
    BY <1>1, <2>1, <2>2, <2>3, <2>4, <2>5 DEF Next
<1>2. CASE UNCHANGED vars
  BY <1>2 DEF vars, IInv, TypeOK, DiskInv, AppInv, ConfirmInv, UnregisterInv,
     KeyInv, Complete
<1>3. QED
  BY <1>1, <1>2

\* The inductive invariant holds in every reachable state.
THEOREM Invariance == Spec => []IInv
BY InitInv, NextKeeps, PTL DEF Spec

\* Every variable keeps its type, through failures, crashes and new sessions;
\* in particular a user being retrieved always has a client (resetDeviceOwner).
THEOREM TypeCorrect == Spec => []TypeOK
<1>1. IInv => TypeOK
  BY DEF IInv
<1>2. QED
  BY <1>1, Invariance, PTL

\* NewConfigInitializer never meets an initialized configuration without an
\* owner or a device.
THEOREM SavedComplete == Spec => []DiskComplete
<1>1. IInv => DiskComplete
  BY DEF IInv, DiskInv, Complete, Empty, DiskComplete
<1>2. QED
  BY <1>1, Invariance, PTL

\* The cloud never has the device of the saved configuration registered to
\* another user than the owner in it.
THEOREM SavedRegistered == Spec => []RegisteredToOwner
<1>1. IInv => RegisteredToOwner
  BY DEF IInv, DiskInv, Complete, Empty, RegisteredToOwner
<1>2. QED
  BY <1>1, Invariance, PTL

\* A saved owner is replaced only after it signed in, in the same session, to
\* confirm.
THEOREM OwnerAsked == Spec => OwnerChangeConfirmed
<1> DEFINE A == disk.owner # None /\ disk'.owner # disk.owner =>
                  disk.owner \in confirmed
<1>1. IInv /\ [Next]_vars => [A]_vars
  <2> SUFFICES ASSUME IInv, Next, disk.owner # None, disk'.owner # disk.owner
               PROVE  disk.owner \in confirmed
    BY DEF vars
  <2>1. ASSUME NEW u \in Users PROVE ~ GuestLogin(u)
    BY DEF GuestLogin, IInv, TypeOK, Config
  <2>2. Write
    BY <2>1 DEF Next, Open, Crash, OwnerLogin, NewLogin, StartReset, ResetFails,
       FailReset, Confirm, Adopt, LoadKey, StartSave, PushKey, PushKeyFails,
       PushKeyPanics, Die, Unregister, Register, RegisterFails
  <2>3. at = "write" /\ disk' = [app EXCEPT !.init = TRUE]
    BY <2>2 DEF Write
  <2>4. app.owner # disk.owner
    BY <2>3 DEF IInv, TypeOK, Config
  <2>5. disk.init
    BY DEF IInv, DiskInv, Empty
  <2>6. QED
    BY <2>3, <2>4, <2>5 DEF IInv, ConfirmInv
<1>2. QED
  BY <1>1, Invariance, PTL DEF Spec, OwnerChangeConfirmed

\* The saved device leaves the registry only after its owner signed in, in the
\* same session, to confirm, whatever resets and saves came before.
THEOREM OwnerAskedBeforeUnregister == Spec => UnregisterConfirmed
<1> DEFINE A == disk.init /\ devOwner'[disk.dev] = Gone /\ devOwner[disk.dev] # Gone
                  => disk.owner \in confirmed
<1>1. IInv /\ [Next]_vars => [A]_vars
  <2> SUFFICES ASSUME IInv, Next, disk.init, devOwner'[disk.dev] = Gone,
                      devOwner[disk.dev] # Gone
               PROVE  disk.owner \in confirmed
    BY DEF vars
  <2>1. disk.dev \in Devices
    BY DEF IInv, TypeOK, Config, DiskInv, Complete, Empty
  <2>2. Gone # newToken
    BY OwnerAssumption DEF IInv, TypeOK
  <2>3. ~ RegisterFails
    BY <2>1, <2>2 DEF RegisterFails, IInv, TypeOK
  <2>4. ASSUME NEW d \in Devices PROVE ~ Register(d)
    BY <2>1, <2>2 DEF Register, IInv, TypeOK
  <2>5. Unregister
    BY <2>3, <2>4 DEF Next, Open, Crash, GuestLogin, OwnerLogin, NewLogin,
       StartReset, ResetFails, FailReset, Confirm, Adopt, LoadKey, StartSave,
       PushKey, PushKeyFails, PushKeyPanics, Die, Write, cloud
  <2>6. at = "unregister" /\ disk.dev = currDeviceID
    BY <2>1, <2>5 DEF Unregister, IInv, TypeOK
  <2>7. QED
    BY <2>6 DEF IInv, UnregisterInv
<1>2. QED
  BY <1>1, Invariance, PTL DEF Spec, UnregisterConfirmed

\* A key loaded for an owner is in the owner's account before the configuration
\* with it is on the disk.
THEOREM KeyUploadedFirst == Spec => KeyBeforeDisk
<1> DEFINE A == disk' # disk /\ updateUserKey /\ app.key = app.owner /\ at = "write" =>
                  userKey[app.owner] = app.owner
<1>1. IInv => A
  BY DEF IInv, KeyInv
<1>2. QED
  BY <1>1, Invariance, PTL DEF Spec, KeyBeforeDisk

=============================================================================
