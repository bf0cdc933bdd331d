-------------------------- MODULE DeviceOwner_transfer --------------------------
(***************************************************************************)
(* Proof that the configuration initializer implements OwnerTransfer, for  *)
(* every set of users and device ids, with guests or without.              *)
(***************************************************************************)
EXTENDS DeviceOwner_proofs

\* RetireInv survives every step.
LEMMA NextRetire ==
  ASSUME IInv, RetireInv, [Next]_vars
  PROVE  RetireInv'
<1> USE OwnerAssumption DEF IInv, TypeOK, Config, cloud, session
<1>1. CASE UNCHANGED vars
  BY <1>1 DEF vars, RetireInv
<1>2. CASE Open
  <2>1. CASE disk = Empty
    BY <1>2, <2>1 DEF Open, RetireInv, Empty
  <2>2. CASE disk.init /\ Complete(disk)
    BY <1>2, <2>2 DEF Open, RetireInv, Complete
  <2>3. QED
    BY <2>1, <2>2 DEF DiskInv
<1>3. CASE Crash \/ PushKeyPanics \/ \E u \in Users : GuestLogin(u)
  BY <1>3 DEF Crash, PushKeyPanics, Die, GuestLogin, RetireInv
<1>4. CASE StartReset \/ ResetFails \/ Confirm \/ StartSave \/ PushKey \/ PushKeyFails
  BY <1>4 DEF StartReset, ResetFails, FailReset, Confirm, StartSave, PushKey,
              PushKeyFails, RetireInv
<1>5. CASE \E u \in Users : OwnerLogin(u) \/ NewLogin(u)
  BY <1>5 DEF OwnerLogin, NewLogin, RetireInv
<1>6. CASE Adopt
  <2>1. app.init => app.owner \in confirmed
    BY <1>6 DEF Adopt, ConfirmInv
  <2>2. disk.init /\ disk.dev = currDeviceID =>
          devOwner[currDeviceID] \in {disk.owner, Gone}
    BY DEF DiskInv, Complete, Empty
  <2>3. QED
    BY <1>6, <2>1, <2>2 DEF Adopt, RetireInv
<1>7. CASE LoadKey
  BY <1>7 DEF LoadKey, RetireInv
<1>8. CASE Unregister
  BY <1>8 DEF Unregister, RetireInv, UnregisterInv
<1>9. CASE RegisterFails \/ \E d \in Devices : Register(d)
  <2>1. currDeviceID # None => devOwner'[currDeviceID] = devOwner[currDeviceID]
    BY <1>9 DEF RegisterFails, Register, Fresh, UnregisterInv
  <2>2. resetConfig /\ UNCHANGED <<currDeviceID, confirmed, disk, resetConfig>>
        /\ at # "closed"
    BY <1>9 DEF RegisterFails, Register, UnregisterInv
  <2>3. QED
    BY <2>1, <2>2 DEF RetireInv
<1>10. CASE Write
  <2>1. disk'.init /\ disk'.dev = currDeviceID =>
          devOwner[currDeviceID] \in {disk'.owner, Gone}
    BY <1>10 DEF Write, DiskInv, Complete, Empty, AppInv
  <2>2. QED
    BY <1>10, <2>1 DEF Write, RetireInv
<1>11. QED
  BY <1>1, <1>2, <1>3, <1>4, <1>5, <1>6, <1>7, <1>8, <1>9, <1>10 DEF Next

-----------------------------------------------------------------------------
(* The step of the abstract hand-over each step stands for *)

\* The steps of which neither the registry, nor the disk, nor the consent given
\* takes notice; a guest's login leaves owner and device on the disk.
LEMMA QuietSteps ==
  ASSUME IInv,
         \/ Open \/ StartReset \/ ResetFails \/ Confirm \/ Adopt \/ LoadKey
         \/ StartSave \/ PushKey \/ PushKeyFails
         \/ \E u \in Users : GuestLogin(u) \/ NewLogin(u)
  PROVE  UNCHANGED Transfer!vars
<1> USE DEF cloud, session, Saved, Transfer!vars
<1>1. CASE \E u \in Users : GuestLogin(u)
  BY <1>1 DEF GuestLogin, IInv, TypeOK, Config
<1>2. CASE ~ \E u \in Users : GuestLogin(u)
  BY <1>2 DEF Open, StartReset, ResetFails, FailReset, Confirm, Adopt, LoadKey,
              StartSave, PushKey, PushKeyFails, NewLogin
<1>3. QED
  BY <1>1, <1>2

\* The end of the process ends the session.
LEMMA DyingEndsSession ==
  ASSUME Crash \/ PushKeyPanics
  PROVE  Transfer!EndSession
BY DEF Crash, PushKeyPanics, Die, cloud, Saved, Transfer!EndSession

\* The present owner's sign-in is its consent.
LEMMA OwnerLoginConsents ==
  ASSUME NEW u \in Users, OwnerLogin(u)
  PROVE  Transfer!Consent(u)
BY DEF OwnerLogin, cloud, session, Saved, Transfer!Consent

\* While a process runs, what it has in memory may be saved.
LEMMA MayPass ==
  ASSUME IInv, at # "closed"
  PROVE  Transfer!MayPassTo(app.owner)
<1>1. disk.init => disk.owner \in confirmed \cup {app.owner}
  BY DEF IInv, ConfirmInv
<1>2. CASE disk.init
  <2>1. Saved.owner = disk.owner
    BY <1>2 DEF Saved
  <2>2. QED
    BY <1>1, <1>2, <2>1 DEF Transfer!MayPassTo
<1>3. CASE ~disk.init
  BY <1>3 DEF Saved, Transfer!MayPassTo
<1>4. QED
  BY <1>2, <1>3

\* A registration enrolls the new owner with an id never used, whether or not
\* the answer arrives.
LEMMA RegisterEnrolls ==
  ASSUME IInv, NEW d \in Devices, at = "register", newToken # None, Fresh(d),
         devOwner' = [devOwner EXCEPT ![d] = newToken],
         UNCHANGED <<disk, confirmed>>
  PROVE  Transfer!Enroll(d, newToken)
<1>1. newToken = app.owner
  BY DEF IInv, AppInv
<1>2. Transfer!MayPassTo(app.owner)
  BY <1>1, MayPass
<1>3. QED
  BY <1>1, <1>2 DEF Fresh, Saved, Transfer!Enroll

\* Unregistering retires the device the session was opened with, whose owner
\* has consented by then, or does nothing.
LEMMA UnregisterRetires ==
  ASSUME IInv, RetireInv, Unregister
  PROVE  UNCHANGED Transfer!vars \/ \E d \in Devices : Transfer!Retire(d)
<1> USE OwnerAssumption DEF IInv, TypeOK, Unregister, session
<1>1. UNCHANGED <<disk, confirmed>> /\ Saved' = Saved
  BY DEF Saved
<1>2. CASE devOwner' = devOwner
  BY <1>1, <1>2 DEF Transfer!vars
<1>3. CASE devOwner' # devOwner
  <2>1. /\ currDeviceID \in Devices
        /\ devOwner[currDeviceID] = currToken
        /\ devOwner' = [devOwner EXCEPT ![currDeviceID] = Gone]
    BY <1>3
  <2>2. currToken # Gone /\ resetConfig
    BY DEF UnregisterInv
  <2>3. devOwner[currDeviceID] \in confirmed
    BY <2>1, <2>2 DEF RetireInv
  <2>4. QED
    BY <1>1, <2>1, <2>3 DEF Transfer!Retire
<1>4. QED
  BY <1>2, <1>3

\* What is written was enrolled for the owner it names, and may pass to it.
LEMMA WriteSaves ==
  ASSUME IInv, Write
  PROVE  UNCHANGED Transfer!vars
         \/ \E d \in Devices, u \in Users : Transfer!Save(d, u)
<1> USE DEF IInv, TypeOK, Config, Write, cloud
<1>1. CASE disk' = disk
  BY <1>1 DEF Transfer!vars, Saved
<1>2. CASE disk' = app'
  <2>1. app.owner \in Users /\ app.dev \in Devices
        /\ devOwner[app.dev] \in {app.owner, Gone}
    BY DEF AppInv, Complete
  <2>2. Transfer!MayPassTo(app.owner)
    BY <2>1, MayPass
  <2>3. Saved' = [owner |-> app.owner, dev |-> app.dev]
    BY <1>2 DEF Saved
  <2>4. QED
    BY <2>1, <2>2, <2>3 DEF Transfer!Save
<1>3. QED
  BY <1>1, <1>2

-----------------------------------------------------------------------------
(* Refinement *)

\* Every step of the initializer is one of the abstract hand-over, or none.
LEMMA StepImplements ==
  ASSUME IInv, RetireInv, [Next]_vars
  PROVE  [Transfer!Next]_(Transfer!vars)
<1>1. CASE UNCHANGED vars
  BY <1>1 DEF vars, Saved, Transfer!vars
<1>2. CASE \/ Open \/ StartReset \/ ResetFails \/ Confirm \/ Adopt \/ LoadKey
           \/ StartSave \/ PushKey \/ PushKeyFails
           \/ \E u \in Users : GuestLogin(u) \/ NewLogin(u)
  BY <1>2, QuietSteps
<1>3. CASE Crash \/ PushKeyPanics
  BY <1>3, DyingEndsSession DEF Transfer!Next
<1>4. CASE \E u \in Users : OwnerLogin(u)
  BY <1>4, OwnerLoginConsents DEF Transfer!Next
<1>5. CASE Unregister
  BY <1>5, UnregisterRetires DEF Transfer!Next
<1>6. CASE RegisterFails \/ \E d \in Devices : Register(d)
  <2>1. CASE devOwner' = devOwner
    <3>1. ~ \E d \in Devices : Register(d)
      BY <2>1 DEF Register, Fresh, IInv, TypeOK
    <3>2. QED
      BY <1>6, <2>1, <3>1 DEF RegisterFails, session, Saved, Transfer!vars
  <2>2. CASE devOwner' # devOwner
    <3>1. PICK d \in Devices :
            /\ at = "register" /\ newToken # None /\ Fresh(d)
            /\ devOwner' = [devOwner EXCEPT ![d] = newToken]
            /\ UNCHANGED <<disk, confirmed>>
      BY <1>6, <2>2 DEF RegisterFails, Register, session
    <3>2. newToken \in Users
      BY <3>1 DEF IInv, TypeOK
    <3>3. QED
      BY <3>1, <3>2, RegisterEnrolls DEF Transfer!Next
  <2>3. QED
    BY <2>1, <2>2
<1>7. CASE Write
  BY <1>7, WriteSaves DEF Transfer!Next
<1>8. QED
  BY <1>1, <1>2, <1>3, <1>4, <1>5, <1>6, <1>7 DEF Next

\* The initializer, whatever fails and whoever signs in, hands a device over
\* the way OwnerTransfer says.
THEOREM HandOverImplements == Spec => ImplementsOwnerTransfer
<1>1. Init => Transfer!Init /\ RetireInv
  BY DEF Init, Empty, Saved, Transfer!Init, RetireInv
<1>2. IInv /\ RetireInv /\ [Next]_vars => RetireInv'
  BY NextRetire
<1>3. IInv /\ RetireInv /\ [Next]_vars => [Transfer!Next]_(Transfer!vars)
  BY StepImplements
<1>4. Spec => []RetireInv
  BY <1>1, <1>2, Invariance, PTL DEF Spec
<1>5. QED
  BY <1>1, <1>3, <1>4, Invariance, PTL
     DEF Spec, ImplementsOwnerTransfer, Transfer!Spec
=============================================================================
