---------------------------- MODULE DeviceOwner ----------------------------
(***************************************************************************)
(* ConfigInitializer (config/initializer.go): giving a device an owner,    *)
(* handing it to another one, loading the owner's key and saving, against  *)
(* the device registry and the user accounts of the MyCS cloud.            *)
(*                                                                         *)
(* The operations are asynchronous and report through a callback; the      *)
(* program around the initializer starts an operation after the callback   *)
(* of the one before, so there is one program counter, `at'.  The process  *)
(* may die at any point, and then only the cloud and the disk remain.      *)
(***************************************************************************)
EXTENDS Naturals

CONSTANTS
  Users,        \* MyCS users
  Devices,      \* bound: the device ids the cloud can issue
  None,         \* nil, "" or not set
  Gone,         \* owner of a device id that was deleted from the registry
  GuestLogins   \* whether others than the device owner log in to the client

ASSUME OwnerAssumption ==
  /\ {None, Gone} \cap (Users \cup Devices) = {}
  /\ None # Gone
  /\ GuestLogins \in BOOLEAN

VARIABLES
  devOwner,       \* cloud: the user each device id is registered to
  userKey,        \* cloud: the user whose public key each account holds
  disk,           \* the saved configuration
  app,            \* ConfigInitializer.appConfig
  resetConfig, updateUserKey,
  currToken,      \* the user currOwnerAPIClient acts for
  currDeviceID,
  newToken,       \* the user newOwnerAPIClient acts for
  at,             \* the step the running operation is at
  confirmed       \* history: who signed in to confirm a reset, this session

cloud == <<devOwner, userKey>>
session == <<app, resetConfig, updateUserKey, currToken, currDeviceID, newToken>>
vars == <<devOwner, userKey, disk, app, resetConfig, updateUserKey, currToken,
          currDeviceID, newToken, at, confirmed>>

\* init: Initialized(); owner, dev: of the device context; user: whose token
\* the auth context holds; key: the user whose public key the owner has.
Config == [init: BOOLEAN, owner: Users \cup {None}, dev: Devices \cup {None},
           user: Users \cup {None}, key: Users \cup {None}]
Empty == [init |-> FALSE, owner |-> None, dev |-> None, user |-> None,
          key |-> None]

Steps == {"closed", "ready", "confirm", "ownerLogin", "newLogin", "getUser",
          "pushKey", "unregister", "register", "write"}

TypeOK ==
  /\ devOwner \in [Devices -> Users \cup {None, Gone}]
  /\ userKey \in [Users -> Users \cup {None}]
  /\ disk \in Config /\ app \in Config
  /\ resetConfig \in BOOLEAN /\ updateUserKey \in BOOLEAN
  /\ currToken \in Users \cup {None} /\ newToken \in Users \cup {None}
  /\ currDeviceID \in Devices \cup {None}
  /\ at \in Steps
  /\ at = "getUser" => newToken # None
  /\ confirmed \subseteq Users

Init ==
  /\ devOwner = [d \in Devices |-> None]
  /\ userKey = [u \in Users |-> None]
  /\ disk = Empty /\ app = Empty
  /\ resetConfig = FALSE /\ updateUserKey = FALSE
  /\ currToken = None /\ newToken = None /\ currDeviceID = None
  /\ at = "closed"
  /\ confirmed = {}

-----------------------------------------------------------------------------
(* NewConfigInitializer *)

\* An initialized configuration without owner or device is refused as
\* inconsistent (DiskComplete says that there is none).
Open ==
  /\ at = "closed"
  /\ disk.init => disk.owner # None /\ disk.dev # None
  /\ app' = disk
  /\ resetConfig' = ~disk.init
  /\ currToken' = IF disk.init THEN disk.user ELSE None
  /\ currDeviceID' = IF disk.init THEN disk.dev ELSE None
  /\ at' = "ready"
  /\ UNCHANGED <<cloud, disk, updateUserKey, newToken, confirmed>>

\* The process ends, or dies, and its memory with it.
Die ==
  /\ at' = "closed"
  /\ app' = Empty
  /\ resetConfig' = FALSE /\ updateUserKey' = FALSE
  /\ currToken' = None /\ newToken' = None /\ currDeviceID' = None
  /\ confirmed' = {}
  /\ UNCHANGED disk

Crash == at # "closed" /\ Die /\ UNCHANGED cloud

\* Between sessions a guest of the device signs in to the client with the
\* same configuration (auth.Login), whose auth context then holds its token.
GuestLogin(u) ==
  /\ GuestLogins
  /\ at = "closed" /\ disk.init
  /\ disk' = [disk EXCEPT !.user = u]
  /\ UNCHANGED <<cloud, session, at, confirmed>>

-----------------------------------------------------------------------------
(* ResetDeviceOwner *)

\* Mutant of StartReset: the present owner is not asked to confirm.
StartResetUnconfirmed ==
  /\ at = "ready"
  /\ at' = "newLogin"
  /\ UNCHANGED <<cloud, disk, session, confirmed>>

StartReset ==
  /\ at = "ready"
  /\ at' = IF app.init /\ app.owner # None THEN "confirm" ELSE "newLogin"
  /\ UNCHANGED <<cloud, disk, session, confirmed>>

\* Mutants of FailReset: resetConfig is cleared, or the new owner's client
\* is kept.
FailResetClears ==
  /\ newToken' = None
  /\ resetConfig' = FALSE
  /\ at' = "ready"
  /\ UNCHANGED <<cloud, disk, app, updateUserKey, currToken, currDeviceID,
                 confirmed>>
FailResetKeepsClient ==
  /\ resetConfig' = ~app.init
  /\ at' = "ready"
  /\ UNCHANGED <<cloud, disk, app, updateUserKey, currToken, currDeviceID,
                 newToken, confirmed>>

\* The deferred function of ResetDeviceOwner, after an error.
FailReset ==
  /\ newToken' = None
  /\ resetConfig' = ~app.init
  /\ at' = "ready"
  /\ UNCHANGED <<cloud, disk, app, updateUserKey, currToken, currDeviceID,
                 confirmed>>

\* The user declines, a sign-in fails, or the new owner cannot be retrieved.
ResetFails == at \in {"confirm", "ownerLogin", "newLogin", "getUser"} /\ FailReset

Confirm ==
  /\ at = "confirm"
  /\ at' = "ownerLogin"
  /\ UNCHANGED <<cloud, disk, session, confirmed>>

\* Mutant of OwnerLogin: whoever signs in confirms the reset.
OwnerLoginAnyone(u) ==
  /\ at = "ownerLogin"
  /\ confirmed' = confirmed \cup {u}
  /\ at' = "newLogin"
  /\ UNCHANGED <<cloud, disk, session>>

OwnerLogin(u) ==
  /\ at = "ownerLogin"
  /\ u = app.owner
  /\ confirmed' = confirmed \cup {u}
  /\ at' = "newLogin"
  /\ UNCHANGED <<cloud, disk, session>>

\* Mutant of NewLogin: the client of the new owner is not made.
NewLoginWithoutClient(u) ==
  /\ at = "newLogin"
  /\ u # app.owner
  /\ at' = "getUser"
  /\ UNCHANGED <<cloud, disk, session, confirmed>>

\* The new owner signs in; resetDeviceOwner makes its API client before it
\* retrieves the user.  Signing in as the present owner is an error.
NewLogin(u) ==
  /\ at = "newLogin"
  /\ u # app.owner
  /\ newToken' = u
  /\ at' = "getUser"
  /\ UNCHANGED <<cloud, disk, app, resetConfig, updateUserKey, currToken,
                 currDeviceID, confirmed>>

\* GetUser, which gives the owner the public key of the account, and NewDevice
\* succeed: the new configuration replaces the old.
Adopt ==
  /\ at = "getUser"
  /\ resetConfig' = TRUE
  /\ app' = [Empty EXCEPT !.owner = newToken, !.user = newToken,
                          !.key = userKey[newToken]]
  /\ at' = "ready"
  /\ UNCHANGED <<cloud, disk, updateUserKey, currToken, currDeviceID, newToken,
                 confirmed>>

-----------------------------------------------------------------------------
(* LoadDeviceOwnerKey *)

LoadKey ==
  /\ at = "ready"
  /\ app.owner # None
  /\ app' = [app EXCEPT !.key = app.owner]
  /\ updateUserKey' = TRUE
  /\ UNCHANGED <<cloud, disk, resetConfig, currToken, currDeviceID, newToken,
                 at, confirmed>>

-----------------------------------------------------------------------------
(* Save *)

AfterKey == IF resetConfig THEN "unregister" ELSE "write"

StartSave ==
  /\ at = "ready"
  /\ at' = IF updateUserKey THEN "pushKey" ELSE AfterKey
  /\ UNCHANGED <<cloud, disk, session, confirmed>>

KeyClient == IF newToken # None THEN newToken ELSE currToken

\* updateUserKey carries no user: the cloud updates the account of the token.
PushedKeys == [userKey EXCEPT ![KeyClient] = app.key]

\* Mutant of PushKey: the account the cloud reports back is not compared.
PushKeyUnchecked ==
  /\ at = "pushKey"
  /\ KeyClient # None
  /\ userKey' = PushedKeys
  /\ at' = AfterKey
  /\ UNCHANGED <<devOwner, disk, session, confirmed>>

\* The account the cloud reports back is compared with the owner afterwards.
PushKey ==
  /\ at = "pushKey"
  /\ KeyClient # None
  /\ userKey' = PushedKeys
  /\ at' = IF KeyClient = app.owner THEN AfterKey ELSE "ready"
  /\ UNCHANGED <<devOwner, disk, session, confirmed>>

\* The request or its answer is lost.
PushKeyFails ==
  /\ at = "pushKey"
  /\ KeyClient # None
  /\ userKey' \in {userKey, PushedKeys}
  /\ at' = "ready"
  /\ UNCHANGED <<devOwner, disk, session, confirmed>>

\* Both clients are nil: the goroutine panics and takes the process down.
PushKeyPanics == at = "pushKey" /\ KeyClient = None /\ Die /\ UNCHANGED cloud

\* The previous owner's client deletes the device; the result is ignored.
\* The cloud lets only the owner delete a device.
Unregister ==
  /\ at = "unregister"
  /\ devOwner' \in
       {devOwner} \cup
       {[devOwner EXCEPT ![d] = Gone] :
          d \in {e \in Devices : e = currDeviceID /\ devOwner[e] = currToken}}
  /\ at' = "register"
  /\ UNCHANGED <<userKey, disk, session, confirmed>>

Fresh(d) == devOwner[d] = None

Register(d) ==
  /\ at = "register"
  /\ newToken # None
  /\ Fresh(d)
  /\ devOwner' = [devOwner EXCEPT ![d] = newToken]
  /\ app' = [app EXCEPT !.dev = d]
  /\ at' = "write"
  /\ UNCHANGED <<userKey, disk, resetConfig, updateUserKey, currToken,
                 currDeviceID, newToken, confirmed>>

\* No client of a new owner, or the request or its answer is lost.
RegisterFails ==
  /\ at = "register"
  /\ devOwner' \in
       {devOwner} \cup
       {[devOwner EXCEPT ![d] = newToken] :
          d \in {e \in Devices : Fresh(e) /\ newToken # None}}
  /\ at' = "ready"
  /\ UNCHANGED <<userKey, disk, session, confirmed>>

\* SetInitialized, then Config.Save, which may fail.  Neither resetConfig nor
\* updateUserKey is cleared.
Write ==
  /\ at = "write"
  /\ app' = [app EXCEPT !.init = TRUE]
  /\ disk' \in {disk, app'}
  /\ at' = "ready"
  /\ UNCHANGED <<cloud, resetConfig, updateUserKey, currToken, currDeviceID,
                 newToken, confirmed>>

-----------------------------------------------------------------------------
Next ==
  \/ Open
  \/ Crash
  \/ \E u \in Users : GuestLogin(u) \/ OwnerLogin(u) \/ NewLogin(u)
  \/ StartReset
  \/ ResetFails
  \/ Confirm
  \/ Adopt
  \/ LoadKey
  \/ StartSave
  \/ PushKey
  \/ PushKeyFails
  \/ PushKeyPanics
  \/ Unregister
  \/ \E d \in Devices : Register(d)
  \/ RegisterFails
  \/ Write

Spec == Init /\ [][Next]_vars

-----------------------------------------------------------------------------
(* Properties *)

\* Wherever a session was cut off, the next one finds a configuration that is
\* not "in an inconsistent state": initialized means owner and device set.
DiskComplete == disk.init => disk.owner # None /\ disk.dev # None

\* The device of the saved configuration, while it is registered, is
\* registered to the owner the same configuration names.
RegisteredToOwner ==
  disk.init => devOwner[disk.dev] \in {disk.owner, Gone}

\* The saved owner is replaced only after that owner signed in, in the same
\* session, to confirm.
OwnerChangeConfirmed ==
  [][disk.owner # None /\ disk'.owner # disk.owner => disk.owner \in confirmed]_vars

\* The saved device is removed from the registry only after its owner signed
\* in, in the same session, to confirm, however often resets fail and saves
\* are repeated.
UnregisterConfirmed ==
  [][disk.init /\ devOwner'[disk.dev] = Gone /\ devOwner[disk.dev] # Gone
       => disk.owner \in confirmed]_vars

\* A key loaded for an owner is in the owner's account before the
\* configuration with it is saved.
KeyBeforeDisk ==
  [][disk' # disk /\ updateUserKey /\ app.key = app.owner /\ at = "write"
       => userKey[app.owner] = app.owner]_vars

\* "api client and device id of current owner": the client that is used to
\* unregister the device and to update the owner's key is the owner's.
CurrClientIsOwner ==
  at = "ready" /\ currDeviceID # None /\ currDeviceID = disk.dev
    => currToken = disk.owner

\* "updateUserKey returned user does not match given user" is an error, so a
\* user's key is not meant to end up in another user's account.
UserKeyIntegrity == \A u \in Users : userKey[u] \in {u, None}

\* What outlives a session of the configuration: owner and device.
Saved == IF disk.init THEN [owner |-> disk.owner, dev |-> disk.dev] ELSE None
Transfer == INSTANCE OwnerTransfer
  WITH registry <- devOwner, saved <- Saved, consent <- confirmed

\* Through failed requests, lost answers, repeated saves, crashes and guests,
\* resetting, loading and saving together do nothing to the registry and the
\* saved owner but enroll, retire and save with the consent that takes.
ImplementsOwnerTransfer == Transfer!Spec

-----------------------------------------------------------------------------
(* The inductive invariant *)

\* A configuration that may be saved: its device, while registered, is
\* registered to its owner.
Complete(config) ==
  /\ config.owner # None /\ config.dev # None
  /\ devOwner[config.dev] \in {config.owner, Gone}

DiskInv == disk = Empty \/ (disk.init /\ Complete(disk))

\* What is about to be written is complete, because a configuration that was
\* never initialized goes through the registration first, and because the new
\* owner's client acts for the owner of the configuration.
AppInv ==
  /\ app.init \/ at = "write" => Complete(app)
  /\ at # "closed" /\ ~app.init => resetConfig
  /\ at # "getUser" => newToken \in {None, app.owner}
  /\ at = "closed" => newToken = None

\* The saved owner is still the present one, or has signed in to confirm.
ConfirmInv ==
  /\ at # "closed" /\ disk.init =>
       disk.owner \in confirmed \/ (app.init /\ app.owner = disk.owner)
  /\ at \in {"newLogin", "getUser"} /\ app.init => app.owner \in confirmed

\* The device to unregister is never one registered in this session.
UnregisterInv ==
  /\ at \in {"unregister", "register"} => resetConfig
  /\ currDeviceID # None => devOwner[currDeviceID] # None
  /\ at = "write" /\ resetConfig => app.dev # currDeviceID
  /\ at # "closed" /\ disk.init /\ currDeviceID = disk.dev /\ resetConfig =>
       disk.owner \in confirmed

KeyInv ==
  at \in {"unregister", "register", "write"} /\ updateUserKey /\ app.key = app.owner =>
    userKey[app.owner] = app.owner

\* The device the session was opened with is the saved one still, or its owner
\* consented; before that the configuration in memory is the saved one.
RetireInv ==
  at # "closed" /\ currDeviceID # None =>
    \/ devOwner[currDeviceID] \in confirmed \cup {Gone}
    \/ /\ disk.init /\ disk.dev = currDeviceID
       /\ app.init /\ app.dev = disk.dev /\ app.owner = disk.owner
       /\ ~resetConfig

IInv ==
  /\ TypeOK
  /\ DiskInv
  /\ AppInv
  /\ ConfirmInv
  /\ UnregisterInv
  /\ KeyInv
=============================================================================
