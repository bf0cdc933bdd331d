---------------------------- MODULE DeviceAccess ----------------------------
(***************************************************************************)
(* Signing in to a device (auth/auth.go: Login, Authenticate,              *)
(* AuthorizeDeviceAndUser, ValidateAuthenticatedToken, Logout;             *)
(* mycscloud/device.go: UpdateDeviceContext, AddDeviceUser) against the    *)
(* device's user list in the MyCS cloud, which its owner changes from      *)
(* elsewhere at any time, also between the cloud's answer to a query and   *)
(* the use of that answer.  Login runs in a goroutine of its own, so       *)
(* Logout may be called, and take the token away, between any two of its   *)
(* steps; a Login does not overlap another.                                *)
(***************************************************************************)
EXTENDS Integers

CONSTANTS
  Users,       \* MyCS users that sign in to the device
  Owner,       \* the user that owns the device
  None,
  SyncUI,      \* whether the UI runs the callback of a dialog inside the
               \* call that shows it (a terminal) or later (a window)
  MaxVersion   \* bound: the owner's configuration is uploaded that often

ASSUME AccessAssumption ==
  /\ Owner \in Users
  /\ Users \cap {None, "no", "token"} = {}
  /\ SyncUI \in BOOLEAN
  /\ MaxVersion \in Nat

VARIABLES
  access,      \* cloud: status of each guest in the device's user list
  version,     \* cloud: timestamp of the owner's uploaded configuration
  token,       \* user whose token the auth context holds
  loggedIn,    \* device context: the logged in user
  as,          \* the user whose token this login has read: that of its API
               \* client and of its awsAuth
  guests,      \* device context: guest users, absent or by User.Active
  ownerKey,    \* device context: the owner's private key is loaded
  targets,     \* version of the loaded target context, or Lost
  configAsOf,  \* GetConfigAsOf()
  stamp,       \* ConfigTimestamp claim of the token
  answer,      \* the cloud's answer this login works with
  at,          \* the step Login is at; "dead": a goroutine panicked
  out,         \* the step Logout is at
  overlap,     \* history: a Logout overlapped this Login
  post,        \* the step PostMeasurementEvents is at: "no", "token", or the
               \* user whose token its client has
  busy,        \* history: a Login or Logout overlapped this post, or a Logout
               \* the Login before it, or that Login could not reset
  strange,     \* history: a post, but for those, named another user as source
  result,      \* what the last Login gave its handler
  unreset,     \* history: the last Login could not reset the auth context
  requested, approved   \* history: guests that asked for access on this
                        \* device, guests that ever had an active status

cloud == <<access, version, approved>>
local == <<guests, ownerKey, targets, configAsOf, requested>>
posts == <<post, busy, strange>>
outcome == <<result, unreset>>
logout == <<loggedIn, out, overlap, posts>>
vars == <<access, version, token, loggedIn, as, guests, ownerKey, targets,
          configAsOf, stamp, answer, at, out, overlap, posts, outcome, requested,
          approved>>

Guests == Users \ {Owner}
Access == {"none", "pending", "active"}
Versions == 0..MaxVersion
\* The target context was emptied and its new content failed to load.
Lost == -1

\* The steps at which Login reads the token: UpdateProperties' client, the JWT
\* of GetAuthenticatedToken, the client and the JWT of AuthorizeDeviceAndUser.
ReadsToken == {"props", "jwt", "authorize", "authJWT"}

DataTypeOK ==
  /\ access \in [Guests -> Access] /\ answer \in [Guests -> Access]
  /\ guests \in [Guests -> {"absent", "inactive", "active"}]
  /\ requested \subseteq Guests /\ approved \subseteq Guests
  /\ version \in Versions /\ configAsOf \in Versions /\ stamp \in Versions
  /\ targets \in Versions \cup {Lost}

StepTypeOK ==
  /\ token \in Users \cup {None} /\ loggedIn \in Users \cup {None}
  /\ at \in ReadsToken \cup {"idle", "dead", "signIn", "query", "apply", "ask",
                            "hung", "addUser", "key", "getConfig"}
  /\ as \in IF at \in {"idle", "dead", "signIn", "props", "jwt"} THEN {None}
                                                              ELSE Users
  /\ out \in {"no", "jwt", "reset", "user"}
  /\ post \in {"no", "token"} \cup Users
  /\ result \in {"none", "ok", "error"}

FlagTypeOK ==
  /\ ownerKey \in BOOLEAN /\ unreset \in BOOLEAN
  /\ overlap \in BOOLEAN /\ busy \in BOOLEAN /\ strange \in BOOLEAN

TypeOK == DataTypeOK /\ StepTypeOK /\ FlagTypeOK

Init ==
  /\ access = [u \in Guests |-> "none"]
  /\ version = 0
  /\ token = None /\ loggedIn = None /\ as = None
  /\ out = "no" /\ overlap = FALSE
  /\ post = "no" /\ busy = FALSE /\ strange = FALSE
  /\ guests = [u \in Guests |-> "absent"]
  /\ ownerKey \in BOOLEAN
  /\ targets = 0 /\ configAsOf = 0 /\ stamp = 0
  /\ answer = [u \in Guests |-> "none"]
  /\ at = "idle"
  /\ result = "none" /\ unreset = FALSE
  /\ requested = {} /\ approved = {}

-----------------------------------------------------------------------------
(* The cloud, changed by the owner from another device *)

SetAccess(u, a) ==
  /\ access[u] # a
  /\ a \in {"none", "active"}
  /\ access' = [access EXCEPT ![u] = a]
  /\ approved' = IF a = "active" THEN approved \cup {u} ELSE approved
  /\ UNCHANGED <<version, token, as, logout, local, stamp, answer, at, outcome>>

UploadConfig ==
  /\ version < MaxVersion
  /\ version' = version + 1
  /\ UNCHANGED <<access, approved, token, as, logout, local, stamp, answer, at,
                 outcome>>

-----------------------------------------------------------------------------
(* Login *)

Goto(step) == at' = step /\ UNCHANGED <<outcome, as>>

\* The auth context is reset, which may fail: that is logged, and the token
\* stays.
Reset == token' \in {None, token} /\ unreset' = (token' # None)

\* The answer goes out of scope.
Forget == answer' = [u \in Guests |-> "none"]

\* The deferred function of Login: an error resets the auth context.
Finish(r) ==
  /\ at' = "idle"
  /\ result' = r
  /\ as' = None
  /\ IF r = "error" THEN Reset ELSE UNCHANGED <<token, unreset>>

\* Authenticate: a valid stored token, which may be refreshed and then has new
\* claims, is used again, else a user has to sign in.
StartLogin ==
  /\ at = "idle"
  /\ overlap' = (out # "no")
  /\ busy' = (post # "no")
  /\ result' = "none" /\ unreset' = FALSE
  /\ \/ at' = "signIn" /\ UNCHANGED stamp
     \/ token # None /\ at' = "jwt" /\ stamp' \in {stamp, version}
  /\ UNCHANGED <<cloud, token, loggedIn, as, out, post, strange, local, answer>>

\* Mutant of SignIn: the token obtained is not set in the auth context.
SignInUnsaved(u) ==
  /\ at = "signIn"
  /\ stamp' = version
  /\ Goto("props")
  /\ UNCHANGED <<cloud, token, logout, local, answer>>

\* A user signs in with the browser; the claims of a new token are the present
\* ones.
SignIn(u) ==
  /\ at = "signIn"
  /\ token' = u
  /\ stamp' = version
  /\ Goto("props")
  /\ UNCHANGED <<cloud, logout, local, answer>>

\* UpdateProperties succeeds.
UpdateProperties ==
  /\ at = "props" /\ token # None
  /\ Goto("jwt")
  /\ UNCHANGED <<cloud, token, logout, local, stamp, answer>>

\* Mutant of ReadJWT: it goes on without a token.
ReadJWTUnchecked ==
  /\ at = "jwt"
  /\ loggedIn' = token
  /\ as' = token
  /\ at' = "authorize" /\ UNCHANGED outcome
  /\ UNCHANGED <<cloud, token, out, overlap, posts, local, stamp, answer>>

\* NewAWSCognitoJWT, then SetLoggedInUser with the claims of the token.
ReadJWT ==
  /\ at = "jwt" /\ token # None
  /\ loggedIn' = token
  /\ as' = token
  /\ at' = "authorize" /\ UNCHANGED outcome
  /\ UNCHANGED <<cloud, token, out, overlap, posts, local, stamp, answer>>

\* AuthorizeDeviceAndUser reads the token for its client, and once more for the
\* JWT, when it has fetched the keys to verify that with.
ReadAgain ==
  /\ at \in {"authorize", "authJWT"} /\ token # None
  /\ Goto(IF at = "authorize" THEN "authJWT" ELSE "query")
  /\ UNCHANGED <<cloud, token, logout, local, stamp, answer>>

\* The token is gone: NewGraphQLClient or NewAWSCognitoJWT dereferences nil, and
\* the process dies.
Panic ==
  /\ at \in ReadsToken /\ token = None
  /\ at' = "dead" /\ as' = None
  /\ UNCHANGED <<cloud, token, logout, local, stamp, answer, outcome>>

\* The sign-in is cancelled or fails, the JWT cannot be fetched or verified, a
\* query fails, no key is given or a download fails.
Fails ==
  /\ \/ at \in {"signIn", "query", "addUser", "key", "getConfig"}
     \/ at \in ReadsToken /\ token # None
  /\ at = "key" => ~ownerKey
  /\ Finish("error")
  /\ UNCHANGED <<cloud, logout, local, stamp, answer>>

\* The authDevice query of UpdateDeviceContext.
Query ==
  /\ at = "query"
  /\ answer' = access
  /\ Goto("apply")
  /\ UNCHANGED <<cloud, logout, token, local, stamp>>

\* "admin": guests of the device context are kept when the cloud lists them,
\* with the cloud's status; guests the context does not know are ignored.
ApplyAdmin ==
  /\ at = "apply" /\ as = Owner /\ loggedIn = Owner
  /\ guests' = [u \in Guests |->
                  IF guests[u] = "absent" \/ answer[u] = "none" THEN "absent"
                  ELSE IF answer[u] = "active" THEN "active" ELSE "inactive"]
  /\ Goto("key")
  /\ Forget
  /\ UNCHANGED <<cloud, token, logout, ownerKey, targets, configAsOf, requested,
                 stamp>>

\* "unauthorized": the user is asked whether to request access.  The channel
\* requestAccess has no buffer: a callback run by the dialog itself waits
\* for a receiver that only comes after the dialog.
ApplyUnauthorized ==
  /\ at = "apply" /\ as # Owner
  /\ answer[as] = "none"
  /\ Goto(IF SyncUI THEN "hung" ELSE "ask")
  /\ Forget
  /\ UNCHANGED <<cloud, logout, token, local, stamp>>

\* The guest users the device context knows.
Known == {u \in Guests : guests[u] # "absent"}

\* "invalid device context": a guest the device context does not know, or a
\* logged in user who is no longer logged in.
ApplyUnknown ==
  /\ at = "apply"
  /\ IF as = Owner THEN loggedIn # Owner
                   ELSE answer[as] # "none" /\ loggedIn \notin Known
  /\ Finish("error")
  /\ Forget
  /\ UNCHANGED <<cloud, logout, local, stamp>>

\* Mutant of ApplyGuest: a pending guest is signed in like an active one.
ApplyPending ==
  /\ at = "apply" /\ as # Owner
  /\ loggedIn \in Known /\ answer[as] # "none"
  /\ guests' = [guests EXCEPT ![loggedIn] =
                  IF answer[as] = "active" THEN "active" ELSE "inactive"]
  /\ Finish("ok")
  /\ Forget
  /\ UNCHANGED <<cloud, logout, ownerKey, targets, configAsOf, requested, stamp>>

ApplyGuest ==
  /\ at = "apply" /\ as # Owner
  /\ loggedIn \in Known
  /\ \/ /\ answer[as] = "active"
        /\ guests' = [guests EXCEPT ![loggedIn] = "active"]
        /\ Finish("ok")
     \/ /\ answer[as] = "pending"
        /\ guests' = [guests EXCEPT ![loggedIn] = "inactive"]
        /\ Finish("error")
  /\ Forget
  /\ UNCHANGED <<cloud, logout, ownerKey, targets, configAsOf, requested, stamp>>

\* Mutant of Decline: only a request sends on the channel Login waits at.
DeclineUnreported ==
  /\ at = "ask"
  /\ Goto("hung")
  /\ UNCHANGED <<cloud, logout, token, local, stamp, answer>>

Decline ==
  /\ at = "ask"
  /\ Finish("error")
  /\ UNCHANGED <<cloud, logout, local, stamp, answer>>

\* Mutant of Request: the new guest is active at once.
RequestActivates ==
  /\ at = "ask"
  /\ guests' = [guests EXCEPT ![as] = "active"]
  /\ requested' = requested \cup {as}
  /\ Goto("addUser")
  /\ UNCHANGED <<cloud, logout, token, ownerKey, targets, configAsOf, stamp, answer>>

\* The user becomes an inactive guest of the device context.
Request ==
  /\ at = "ask"
  /\ guests' = [guests EXCEPT ![as] = "inactive"]
  /\ requested' = requested \cup {as}
  /\ Goto("addUser")
  /\ UNCHANGED <<cloud, logout, token, ownerKey, targets, configAsOf, stamp, answer>>

AccessRequested ==
  [access EXCEPT ![as] = IF @ = "none" THEN "pending" ELSE @]

\* AddDeviceUser succeeds and leaves err nil: AuthorizeDeviceAndUser resets the
\* auth context and returns nil.
AddUser ==
  /\ at = "addUser"
  /\ access' = AccessRequested
  /\ Reset
  /\ at' = "idle" /\ result' = "ok" /\ as' = None
  /\ UNCHANGED <<version, approved, logout, local, stamp, answer>>

\* The request arrives but its answer is lost.
AddUserLost ==
  /\ at = "addUser"
  /\ access' = AccessRequested
  /\ Finish("error")
  /\ UNCHANGED <<version, approved, logout, local, stamp, answer>>

-----------------------------------------------------------------------------
(* The owner's part of AuthorizeDeviceAndUser *)

\* Mutant of OpenKey: the timestamp is kept before the download.
OpenKeyStampsEarly ==
  /\ at = "key"
  /\ ownerKey' = TRUE
  /\ configAsOf' = IF configAsOf < stamp THEN stamp ELSE configAsOf
  /\ IF configAsOf < stamp
       THEN Goto("getConfig") /\ UNCHANGED token
       ELSE Finish("ok")
  /\ UNCHANGED <<cloud, logout, guests, targets, requested, stamp, answer>>

\* After the key: the configuration is fetched when the token says that it is
\* newer than the one loaded.
OpenKey ==
  /\ at = "key"
  /\ ownerKey' = TRUE
  /\ IF configAsOf < stamp
       THEN Goto("getConfig") /\ UNCHANGED token
       ELSE Finish("ok")
  /\ UNCHANGED <<cloud, logout, guests, targets, configAsOf, requested, stamp, answer>>

\* GetUserConfig, TargetContext.Reset and Load, SetConfigAsOf.  The download
\* is what the cloud has by now, which may be newer than the token says.
Sync ==
  /\ at = "getConfig"
  /\ targets' = version
  /\ configAsOf' = stamp
  /\ Finish("ok")
  /\ UNCHANGED <<cloud, logout, guests, ownerKey, requested, stamp, answer>>

\* Mutant of SyncLoses: the timestamp is kept although the load failed.
SyncLosesStamped ==
  /\ at = "getConfig"
  /\ targets' = Lost
  /\ configAsOf' = stamp
  /\ Finish("error")
  /\ UNCHANGED <<cloud, logout, guests, ownerKey, requested, stamp, answer>>

\* Load fails after Reset has emptied the target context.
SyncLoses ==
  /\ at = "getConfig"
  /\ targets' = Lost
  /\ Finish("error")
  /\ UNCHANGED <<cloud, logout, guests, ownerKey, configAsOf, requested, stamp, answer>>

-----------------------------------------------------------------------------
(* Logout and ValidateAuthenticatedToken *)

StartLogout ==
  /\ at # "dead" /\ out = "no"
  /\ out' = IF token = None THEN "reset" ELSE "jwt"
  /\ overlap' = (overlap \/ at # "idle")
  /\ busy' = (post # "no")
  /\ result' = IF at = "idle" THEN "none" ELSE result
  /\ UNCHANGED unreset
  /\ UNCHANGED <<cloud, token, loggedIn, as, post, strange, local, stamp, answer,
                 at>>

\* Mutant of LogoutReadsJWT: without the JWT the user is forgotten all the same.
LogoutForgetsUser ==
  /\ at # "dead" /\ out = "jwt"
  /\ IF token = None THEN at' = "dead" /\ as' = None /\ UNCHANGED out
     ELSE out' \in {"user", "reset"} /\ UNCHANGED <<at, as>>
  /\ UNCHANGED <<cloud, token, loggedIn, overlap, posts, local, stamp, answer,
                 outcome>>

\* The token was there when Logout looked; its JWT is read after a request,
\* which may fail.
LogoutReadsJWT ==
  /\ at # "dead" /\ out = "jwt"
  /\ IF token = None THEN at' = "dead" /\ as' = None /\ UNCHANGED out
     ELSE out' \in {"no", "reset"} /\ UNCHANGED <<at, as>>
  /\ UNCHANGED <<cloud, token, loggedIn, overlap, posts, local, stamp, answer, outcome>>

\* Mutant of LogoutResets: the token stays.
LogoutKeepsToken ==
  /\ at # "dead" /\ out = "reset"
  /\ out' = "user"
  /\ UNCHANGED <<cloud, token, loggedIn, as, overlap, posts, local, stamp, answer,
                 at, outcome>>

\* Reset may fail, and Logout with it.
LogoutResets ==
  /\ at # "dead" /\ out = "reset"
  /\ \/ token' = None /\ out' = "user"
     \/ UNCHANGED token /\ out' = "no"
  /\ UNCHANGED <<cloud, loggedIn, as, overlap, posts, local, stamp, answer, at, outcome>>

LogoutClearsUser ==
  /\ at # "dead" /\ out = "user"
  /\ loggedIn' = None
  /\ out' = "no"
  /\ UNCHANGED <<cloud, token, as, overlap, posts, local, stamp, answer, at, outcome>>

\* Between logins: a valid token makes its user the logged in one; for a user
\* that is logged in already the missing error is dereferenced.
Validate ==
  /\ at = "idle" /\ out = "no" /\ post = "no" /\ token # None
  /\ IF token = loggedIn THEN at' = "dead" /\ UNCHANGED loggedIn
     ELSE loggedIn' = token /\ UNCHANGED at
  /\ UNCHANGED <<cloud, token, as, out, overlap, posts, local, stamp, answer, outcome>>

-----------------------------------------------------------------------------
(* PostMeasurementEvents, which a monitor's timer calls at any time *)

\* The auth context has a token.
StartPost ==
  /\ at # "dead" /\ post = "no" /\ token # None
  /\ post' = "token"
  /\ busy' = (at # "idle" \/ out # "no" \/ overlap \/ unreset)
  /\ UNCHANGED <<cloud, token, loggedIn, as, out, overlap, strange, local, stamp,
                 answer, at, outcome>>

\* NewGraphQLClientNoPool copies the token, or dereferences nil.
PostReadsToken ==
  /\ at # "dead" /\ post = "token"
  /\ IF token = None THEN at' = "dead" /\ as' = None /\ UNCHANGED post
     ELSE post' = token /\ UNCHANGED <<at, as>>
  /\ UNCHANGED <<cloud, token, loggedIn, out, overlap, busy, strange, local, stamp,
                 answer, outcome>>

\* The source of the events is the logged in user.
Publish ==
  /\ at # "dead" /\ post \in Users
  /\ post' = "no" /\ busy' = FALSE
  /\ strange' = (strange \/ (post # loggedIn /\ ~busy))
  /\ UNCHANGED <<cloud, token, loggedIn, as, out, overlap, local, stamp,
                 answer, at, outcome>>

Step ==
  \/ \E u \in Users : SignIn(u)
  \/ UpdateProperties
  \/ ReadJWT
  \/ ReadAgain
  \/ Panic
  \/ Fails
  \/ Query
  \/ ApplyAdmin
  \/ ApplyUnauthorized
  \/ ApplyUnknown
  \/ ApplyGuest
  \/ Decline
  \/ Request
  \/ AddUser
  \/ AddUserLost
  \/ OpenKey
  \/ Sync
  \/ SyncLoses

Next ==
  \/ \E u \in Guests, a \in Access : SetAccess(u, a)
  \/ UploadConfig
  \/ StartLogin
  \/ StartLogout
  \/ LogoutReadsJWT
  \/ LogoutResets
  \/ LogoutClearsUser
  \/ Validate
  \/ StartPost
  \/ PostReadsToken
  \/ Publish
  \/ Step

Spec == Init /\ [][Next]_vars

\* Every request is answered, and every dialog by the user: nothing in the code
\* bounds either, so this is an assumption about their environment.
FairSpec == Spec /\ WF_vars(Step)

-----------------------------------------------------------------------------
(* Properties *)

\* Between logins, the guest that is signed in once asked for access on this
\* very device, was let in by the owner, and is an active guest of it, unless
\* the Login before was refused and the auth context could not be reset.
GuestAdmission ==
  at = "idle" /\ ~unreset /\ token \in Guests =>
    /\ token \in requested \cap approved
    /\ guests[token] = "active"

\* A guest that is active in the device context was active in the cloud once:
\* asking again, or the answer to an older query, never activates anyone.
ActiveWasApproved ==
  \A u \in Guests : guests[u] = "active" => u \in requested \cap approved

\* The loaded targets are at least as recent as the timestamp kept for them.
TargetsAsRecent == targets # Lost => targets >= configAsOf

\* Targets that a failed load lost are fetched again by the owner's next
\* sign-in: the timestamp kept is older than what the next token will say.
LostIsFetchedAgain == targets = Lost => configAsOf < version

\* Whoever is signed in between logins is the logged in user of the device
\* context, which is what guests are looked up by and events are attributed
\* to: neither a failed login nor a guest's after the owner's leaves another,
\* if the auth context could be reset; nor does a Logout that fails.
SessionAgrees ==
  at = "idle" /\ out = "no" /\ ~overlap /\ ~unreset /\ token # None => loggedIn = token

\* Measurements are published under the token of the user they name as their
\* source, unless a Login or a Logout overlaps the post, a Logout overlapped
\* the Login before it, or that Login failed and could not reset.
PostedAsOneself == ~strange

\* The token goes missing under a Login only if a Logout overlapped it, and
\* under a post only if a Login or a Logout did.
LostToLogout == at = "dead" /\ token = None => overlap \/ busy

\* Whatever a Logout took away meanwhile, and whatever the cloud answered, a
\* Login that has not reported to its handler has a step to take.
LoginCanGoOn == at \notin {"idle", "dead"} => ENABLED Step

\* Every Login reports to its handler, or dies of a Logout.
LoginAnswers == at # "idle" ~> at \in {"idle", "dead"}

\* A handler that gets no error finds somebody signed in, when no Logout
\* overlapped the Login.
OkMeansSignedIn == at = "idle" /\ result = "ok" /\ ~overlap => token # None

-----------------------------------------------------------------------------
(* The inductive invariant behind the safety properties *)

\* The steps after NewAWSCognitoJWT in GetAuthenticatedToken.
Authorizing == {"authorize", "authJWT", "query", "apply", "ask", "hung", "addUser", "key",
                "getConfig"}

\* The token and the logged in user are those Login has read, or a Logout has
\* taken them away.
ReadInv ==
  /\ at \in Authorizing => token \in {as, None} /\ loggedIn \in {as, None}
  /\ at \in {"key", "getConfig"} => as = Owner
  /\ at \in {"ask", "hung", "addUser"} => as # Owner

\* What the device and an answer say of a guest was so at some time.
GuestInv ==
  \A u \in Guests :
    /\ access[u] = "active" \/ answer[u] = "active" => u \in approved
    /\ guests[u] # "absent" => u \in requested

\* A Login that no Logout overlaps keeps its token, and leaves the session of
\* its user.
SessionInv ==
  /\ at \notin {"idle", "dead"} /\ ~overlap => out = "no"
  /\ at \in Authorizing \cup {"idle"} /\ ~overlap /\ ~unreset /\ token # None =>
       loggedIn = token
  /\ at \notin {"idle", "dead"} => ~unreset
  /\ at \in ReadsToken /\ ~overlap => token # None
  /\ out = "jwt" /\ ~overlap => token # None
  /\ out = "user" /\ ~overlap => token = None

\* A post that nothing overlaps finds the session it started with.
PostInv ==
  post # "no" /\ ~busy =>
    /\ at = "idle" /\ out = "no" /\ ~overlap /\ ~unreset /\ token # None
    /\ post \in Users => post = token

\* Neither the timestamp of the token nor the one kept is ahead of the cloud.
StampInv ==
  /\ stamp <= version /\ configAsOf <= version
  /\ at = "getConfig" => configAsOf < stamp

IInv ==
  /\ TypeOK
  /\ ReadInv /\ GuestInv /\ SessionInv /\ PostInv /\ StampInv
  /\ GuestAdmission /\ ActiveWasApproved
  /\ TargetsAsRecent /\ LostIsFetchedAgain
  /\ LostToLogout /\ PostedAsOneself
=============================================================================
