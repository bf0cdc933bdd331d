# MyCS client: a verification development

TLA+ models of the MyCloudSpace (MyCS) client library in this repository, the
TLC runs that check them and the TLAPS proofs about them. The reference is the
Go code under `src/`; libraries it calls (cloud-builder's configuration,
mycloudspace-common, tailscale, the MyCS cloud) are modelled only as far as the
code relies on them, and marked external in `PROJECT.json`.

## 1. Inventory of the system

| Component | State it keeps | Operations | Interacts with |
|---|---|---|---|
| Pool of space API clients (`mycscloud/space_nodes.go`) | map space → client with a reference count, a mutex | GetApiClientForSpace, ReleaseApiClientForSpace | starts and stops `mycsnode.ApiClient`s; called by the mesh client and by any view of a space |
| Consolidation of space nodes (`space_nodes.go`, `space.go`) | lookup by key and by endpoint, shared spaces | NewSpaceNodes, GetSpaceNodes, lookups | a goroutine queries the cloud; the lookups serve the daemon's TLS hook |
| Mesh client (`network/tailscale_client.go`) | connection state, a pooled client, a cancellable context | Connect, Disconnect, Write, GetStatus | pool, space node REST API, tailscale CLI (whose output calls Write), routes on darwin |
| Configuration initializer (`config/initializer.go`) | a configuration being edited, flags, the clients of the old and new owner | New, ResetDeviceOwner, LoadDeviceOwnerKey, Save | sign-in, UserAPI, DeviceAPI, UI dialogs, the configuration file |
| Login (`auth/auth.go`, `aws_cognito.go`) | auth context, logged-in user | Authenticate, Login, AuthorizeDeviceAndUser, Logout, ValidateAuthenticatedToken | OAuth flow, DeviceAPI, UserAPI, UI dialogs |
| Cloud APIs (`device.go`, `user.go`, `space.go`, `app.go`, `cloud.go`, `events.go`) | none but the contexts they update | one GraphQL request each | called by the above |
| Space node REST client (`mycsnode/*.go`) | none | one request each | called with a client of the pool |
| Tailscale daemon (`network/tailscale_daemon*.go`) | DNS cache, metrics, excluded routes | Start, Stop, metrics timer, hooks | SpaceNodes, tailscale |
| Device information (`system/*.go`) | the device type, determined by a goroutine | GetDeviceType | used by Save |
| UI (`ui/external.go`), GraphQL client (`api/*.go`), assets, mocks | none | - | - |

What is hard here:

* **Concurrency.** The pool is shared; Get holds its mutex while it waits for
  the network. Connect and Disconnect overlap, and tailscale's output changes
  the connection state in between. The shared spaces arrive while the local
  ones are entered. The owner changes a device's users in the cloud between
  the client's query and its use of the answer. Logout, and a monitor's timer
  that posts measurements, come between any two steps of a Login.
* **Failure.** Every request of a hand-over of a device (key, unregister,
  register, write) can fail or lose its answer, and the process can end between
  any two. A Get can time out after it has taken its reference. A look-up or
  the configuration of a route fails in the middle of a loop.
* **Order and repetition.** Flags that Save never clears, pointers kept after
  their release, a reset tried twice, a second Disconnect.
* **Waiting.** Dialogs answer through channels; handlers must always be called.

What makes each component correct is listed with its module in section 3; the
places where it could go wrong are the `hazards` of `PROJECT.json`.

## 2. Plan

Order: the pool first, because everything that talks to a space goes through
it; then the hand-over of a device and the login, which decide who may use a
device; then the composition of mesh client and pool.

| Module | State of the plan |
|---|---|
| `SpaceApiClients`, `DeviceOwner` with their `_proofs` modules | modelled, checked, proved |
| `ClientLease`, `OwnerTransfer`: what the two promise | implemented by them: checked, and proved in `SpaceApiClients_lease` and `DeviceOwner_transfer` |
| `DeviceAccess`, `DeviceAccess_proofs`: login, logout, validation, posts | modelled, checked, proved |
| `SpaceConsolidation`, and `MeshDaemon`, which extends it by the daemon that uses its result; `SpaceConsolidation_proofs` | modelled, checked, proved |
| `MeshClient` (EXTENDS `SpaceApiClients`), `MeshClient_proofs` | modelled, checked, proved |
| `DeviceType`: the timeout racing the goroutine of `system/device_info*.go`; the daemon's metrics timer against BytesTransmitted and Stop | later |
| managed devices of UpdateDeviceContext; operations of one initializer that overlap | later |

## 3. The modules

Every module opens with the code it models; `PROJECT.json` maps each definition
to its lines. A definition whose comment says *Mutant* is a deliberately wrong
variant of the one after it: no specification uses it, and each property of a
passing run is violated when one of them takes the place of the original.

    ClientLease <-- implemented by -- SpaceApiClients <-- extended by -- MeshClient
    OwnerTransfer <-- implemented by -- DeviceOwner
    SpaceConsolidation <-- extended by -- MeshDaemon
    DeviceAccess

### SpaceApiClients

Each statement of Get and Release that touches the map, a reference count or
the clients is an action of its own; `pc` is the caller's place in the code,
`ref` its local variable, `client` the pointer it keeps. Nothing of the model
makes a critical section atomic: the variable `mutex` does. `Create` stands for
`NewApiClient`, `Start` and the insertion, `Authenticated` and `TimedOut` for
the two results of `WaitForAuth`. `Careless` are the callers that behave like
`TailscaleClient`: they keep the pointer they released, may release it again,
and may Get again first. `abandoned` is a history variable: the references of a
client that nobody is left to release. Clients are identities; one may be used
again when no pointer refers to it any more (`Fresh`), as memory is.

Properties: nobody's client is stopped or replaced under it (`NoUseAfterStop`),
the counts are exact (`RefsConserved`), a running client can be stopped through
the pool (`RunningIsPooled`), a Get that times out leaks its client
(`AbandonedStaysRunning`), Get hands out a running client even when others
release too often (`HandedOutRunning`), Get and Release return (`GetReturns`,
`ReleaseReturns`).

`NoUseAfterStop` and `RefsConserved` hold only when every caller releases once.
A Release is matched to an entry by the space's key alone, so a second Release
of one caller takes the reference of another: what remains then is
`HandedOutRunning` and `RunningIsPooled`.

### ClientLease

What the pool promises, without mutex, map, counts or places in the code: a
space has at most one client that serves it; a grant leases the client that
serves, and it runs; a client that a call gave up on is forsaken; a client
leaves service exactly when the last of its leases is returned and it is not
forsaken, and is stopped only after that. `ImplementsClientLease` is the
refinement, with `serving` read off the map and `lease` off the callers'
places; `Return` is the step in which a Release deletes the entry or lowers its
count, and the stop is a later step of its own, as in the code. It needs
callers that release once.

### MeshClient

Extends `SpaceApiClients`: the constant `Mesh` is one of its careless callers,
and its Get and Release are the steps of that module, interleaved with those of
other callers. `conn` and `disc` are the places in Connect and Disconnect;
`connState`, `waitForExitNode` and the cancelled context are the fields of the
struct; `up` is what tailscale was told; `net` is what has been configured
through the network context and not cleared. A failure of any call is
`ConnectFails`, after which everything stays as it is, as in the code, and the
call that failed may have done its work. The `darwin` build is `Darwin = TRUE`:
only there `configureDNS` and `configureExitNode` do something; the steps of
the latter follow one another in `AfterExitStep`.

Disconnect is a process of its own, the caller `Hangup` of the pool: it may be
called at any step of Connect, and Connect at any step of it. It cancels the
context, tests `apiClient` (`TestClient`), reads it again for the Release
(`ReadClient`: in the middle of a Get, the client of the Connect before),
releases what that gives, shuts tailscale down and clears `net`. A Connect
whose Get fails stores nil; when it does so between the two reads, Release
dereferences nil once it has the mutex, and the process ends (`Panic`,
`alive`). Connect checks the context only in the calls that take it, the login
and the pings: past them it goes on. `overlap` is a history variable that says
that a Disconnect was called while Connect ran, and `late` counts the Connects
that began after the latest Disconnect was called.

Properties: `Connected` is shown with an exit node only after that node
answered (`ConnectedMeansReached`); until there is a second Disconnect no other
caller loses its client (`OthersKeepTheirClients`); wherever Connect fails, a
default route into the tunnel is never without the routes that keep the
tunnel's own packets out of it (`DefaultRouteLast`) - unless a Disconnect
overlapped that Connect: it may clear those routes before Connect adds the
default route, which is then left alone; nothing is configured after a
Disconnect, nor by a Connect after it, but by a Connect it overlapped
(`OnlyOverlapLeaves`); Disconnect returns and ends a Connect that waits for the
login or the exit node, or the process dies (`DisconnectEndsBoth`), which takes
a Connect that overlaps it (`DiesOfOverlap`).

### DeviceOwner

`disk` is the configuration file, `app` the configuration being edited,
`devOwner` and `userKey` the cloud's registry and the accounts' keys. `at` is
the step of the running operation; the operations are goroutines, but each
reports through a callback and the next is started after it. The process may die
in every state; a guest may sign in between sessions, which changes the token of
the saved configuration. The two API clients are the users whose tokens they
copied (`api/graphql_client.go` copies the token when a client is made); `key`
in a configuration is the user whose public key the owner in it has, which
GetUser filled in, and what Save uploads is that.

Properties: the file is never "in an inconsistent state" (`DiskComplete`); the
saved device, while registered, is registered to the saved owner
(`RegisteredToOwner`); the owner is replaced, and the device unregistered, only
after the owner signed in to confirm in the same session
(`OwnerChangeConfirmed`, `UnregisterConfirmed`); a key loaded for the owner is
in the owner's account before the file is written (`KeyBeforeDisk`).

### OwnerTransfer

What the hand-over promises, without clients, flags, steps or failures: an id
is registered once and to one user, retired only with the consent of the user
it is registered to, and the saved configuration passes from one owner to
another only with the consent of the one it names, in the same session.
`ImplementsOwnerTransfer` is the refinement: `consent` is the confirmation of
`DeviceOwner`, and a crash is the end of a session. A registration whose answer
is lost is an `Enroll` that no `Save` follows: the promise has no place for an
undo, and the code has none.

### DeviceAccess

`access` is the device's user list in the cloud, which the owner changes at any
time; `guests` the guests of the device context; `answer` what authDevice
answered, used in a later step. `targets`, `configAsOf` and `stamp` follow the
download of the owner's configuration. `SyncUI` tells the two kinds of UI
apart: one runs the callback of a dialog inside the call that shows it, one
later.

A Login reads the token four times: for the client of `UpdateProperties`, for
its JWT, and for client and JWT again in `AuthorizeDeviceAndUser` (`ReadsToken`;
the keys that verify a JWT are fetched in between). `as` is the user whose token
it has read, under whom the cloud sees it; `loggedIn` the user the device
context names, by whom guests are looked up. Logout is a process of its own in
four steps, `out`: it may find the token gone that it looked for. So is a post
of measurements, `post`, which a timer starts: it checks the login, copies the
token and then names `loggedIn` as the source. `at = "dead"` is the end of the
process in a nil pointer. `overlap` and `busy` are history variables that say
what overlapped this Login and this post. Every reset of the auth context may
fail: after a refused Login that is only logged, the token stays and `unreset`
says so; Logout returns the error. `ValidateAuthenticatedToken` changes the
logged in user between logins, or dies when it need not change it.

Properties: a signed-in guest asked for access on this device and was let in,
unless the Login before was refused and could not reset (`GuestAdmission`); no
guest is active that never was in the cloud (`ActiveWasApproved`); the targets
are as recent as their timestamp says and a failed load is repeated
(`TargetsAsRecent`, `LostIsFetchedAgain`); who is signed in is who the device
context names (`SessionAgrees`); measurements are published under the user they
name (`PostedAsOneself`); the token goes missing where it is needed only
through an overlap (`LostToLogout`); a Login always has a step to take until it
has reported, if dialogs call back later (`LoginCanGoOn`; `LoginAnswers` says
what a UI that calls back at once makes of it). The conditions of
`SessionAgrees`, `PostedAsOneself` and `LostToLogout` are what the code leaves
to its callers: these bound the damage of an overlap and do not exclude it.

### SpaceConsolidation

The two loops of `consolidateRemoteAndLocalNodes`, one turn per step, with the
goroutine that fetches the shared spaces. Indices count from 1. An endpoint is
a host and a port; a node is entered under its endpoint URL and under the host
in it (`Reaches`), a target only if its remote state loaded (`err`). The key map
keeps the node it has, the endpoint map takes the newer one: a shared space with
a key of its own replaces a local target at that target's endpoint or host.

Properties: exactly the shared spaces without a local target remain, in order
(`SharedExact`); a key finds the local target, else the last shared space with
the key (`NodesExact`); a node found by endpoint is the one found by key
(`EndpointAgrees`); the merge ends once the fetch does (`Ends`). Which of
several nodes an endpoint leads to is `TrustsItsSpaces`, below.

### MeshDaemon

Extends `SpaceConsolidation` by the `TailscaleDaemon` that is made when the
merge is done: the constructor walks the spaces in the order a Go map gives
them and resolves the hosts of their endpoints into a cache, ignoring failures;
`CacheDNSNames`, which the program around it calls, returns the first failure
and keeps what it cached before. `spaceURL.Host` includes the port of a URL
that has one, and is then looked up as it is, which finds nothing:
`Resolvable`; unlike the merge, this loop does not ask whether a target is in
error. `ConfigureTLS` gives a connection the trust of the space its host
belongs to.

Properties: the trust of a host follows from the local targets and the cloud's
answer alone (`TrustsItsSpaces`): that of the first shared space at the host
that is looked up by its key, else of the last local target there, else none.
So a shared space at a local target's host decides whether connections to it
are verified, and by which CA root; a shared space that lost its key to another
decides nothing. The cache has every host of these whose own look-up
did not fail (`EndpointsCached`). The comment of the loop speaks of all known
endpoints; those with a port are never cached, which `Resolvable` states.

## 4. The runs

| Run | Instance | Shows |
|---|---|---|
| `pool_safety` | 3 callers, 2 spaces, 4 client identities, at most 2 abandoned references per client, symmetry | the pool with callers that release once, and the lease it implements |
| `pool_repeat` | 2 callers, one of them careless, 1 space, 3 identities, fair | what is left with a careless caller; liveness |
| `mesh` | mesh client and one other caller, 1 space, 2 identities, 1 call of Disconnect, any number of Connects before it and 1 after its call, fair | the mesh client and the pool together |
| `mesh_exit` | the same without Disconnect and not on darwin, where nothing but key, login and ping can fail, violated | `ReachedOrTerminated` |
| `mesh_routes` | that of `mesh`, violated | `DisconnectClears` |
| `owner` | 3 users, 2 device ids, guests log in, symmetry | hand-over with failures and crashes, and the one it implements |
| `owner_key`, `owner_client` | the same, without and with guests, violated | `UserKeyIntegrity`, `CurrClientIsOwner` |
| `access` | owner and 1 guest, 2 uploads | login, logout and posts, overlapping |
| `access_ok`, `access_sync` | owner and 1 guest, 1 upload, violated | `OkMeansSignedIn`, `LoginAnswers` with a synchronous UI, even if every request and dialog is answered |
| `consolidation` | 2 keys, one with a CA root, 2 ids, 2 hosts, one a default name of tailscale, 3 endpoints, at most 2 targets and 2 shared spaces but 3 of both, 2 names per CacheDNSNames, fair | the merge and the daemon made from it |

Why the bounds are enough. *Pool:* three callers are the holder, the one that
releases and the one that arrives; the second space shows that the map's entries
do not mix, and four identities are enough that `Create` always finds a fresh
one. `MaxAbandoned` bounds timeouts, which only ever add references. With a
careless caller one other caller is the victim. *Mesh:* one space makes the two
callers share a client; a first Disconnect already cancels the context, and a
second one is the double release that `pool_repeat` covers; one Connect after
its call is the one that can store nil between its reads. *Owner:* the previous
owner, the new one and a guest are the three roles; the second device id is the
hand-over, and registering fails when both are used up, as any request may.
*Access:* one guest and the owner are the two roles a login can have; a second
guest only adds an entry to two maps that no step relates to another's, and the
theorems cover any number; two uploads, so that the token, the download and the
timestamp can all differ. *Consolidation:* two shared spaces show a cut before
one that stays and after one that went; two of either at one host, or one of
each, show every way in which a node takes over an endpoint, and the theorems
cover any number; two keys and two ids combine freely, also in ways that
contradict each other; two ports on one host make the two kinds of endpoint
differ, and the second host is the one that fails alone.

Deadlock is checked everywhere but in `consolidation`, whose function returns,
and in `mesh`, where the process may die.

### Fairness

* *Pool:* weak fairness of the steps inside the critical section, because
  `WaitForAuth` times out and nothing else blocks; strong fairness of taking
  the mutex, because `sync.Mutex` hands itself to a waiter that starves. No
  caller is obliged to call or to release.
* *Mesh:* that of the pool, for as long as the process lives; `RunLogin` and
  the pings end when their context is cancelled, so they are only fair after a
  Disconnect, and the configuration of DNS and routes does not wait for the
  network. The steps of Disconnect have a context of five seconds. The request
  for an authorization key is not fair, and `DisconnectEndsBoth` excepts a
  Connect that waits for it.
* *Access:* nothing in the code bounds a request, whose client has no timeout
  (`api/graphql_client.go:15-22`), or the browser sign-in (`auth/auth.go:113`).
  The run `access` therefore has no fairness, and `LoginCanGoOn` is an
  invariant: some step of the Login is enabled. Only `access_sync` assumes that
  all are answered, so that its counterexample is the code's own doing.
* *Consolidation:* the steps of the merge, which are local, but not the answer
  of the fetch, which may never come: `Wait` then blocks for ever, and `Ends`
  says that it is the only thing that can.

### Disagreements found

* `mesh_exit`: the trace is a login that succeeds and pings that fail: when no
  ping is answered Connect returns an error with tailscale
  up and the exit node set; the comment in Connect says that the connection is
  terminated (`network/tailscale_client.go:143-146`).
* `mesh_routes`: Disconnect does not wait for the Connect it cancels; one whose
  login or ping has just succeeded configures DNS and routes after Disconnect
  cleared "any network configuration setup for the mesh tunnel"
  (`network/tailscale_client.go:224-225`), and nothing clears them again.
* `owner_key`: reset to A, load A's key, let a second reset fail, save: A's key
  goes to the previous owner's account, and only then "updateUserKey returned
  user does not match given user" (`mycscloud/user.go:137`).
* `owner_client`: the client "of current owner"
  (`config/initializer.go:33-34`) acts for whoever logged in last.
* `access_ok`: a request for access makes AuthorizeDeviceAndUser return nil
  after it reset the auth context "as device authorization failed"
  (`auth/auth.go:436`).
* `access_sync`: the channel of the access dialog has no buffer, so a UI that
  calls back inside the dialog blocks Login, whose handler is "always" called
  (`auth/auth.go:285`).

## 5. What is proved

`SpaceApiClients_proofs` proves, for every finite set of callers, every set of
spaces and clients and every `MaxAbandoned`, from `ConstantsAssumption` alone:

| Theorem | States |
|---|---|
| `TypeCorrect` | `Spec => []TypeOK`; among the rest, no count goes below zero |
| `HandsOutRunning` | `Spec => []HandedOutRunning` |
| `RunningPooled` | `Spec => []RunningIsPooled` |
| `UseIsSafe` | with `Careless = {}`, `Spec => []NoUseAfterStop` |
| `CountsAreExact` | with `Careless = {}`, `Spec => []RefsConserved` |
| `AbandonedRuns` | with `Careless = {}`, `Spec => AbandonedStaysRunning` |

The first three rest on `BaseInv`: whoever is in the critical section holds the
mutex (`MutexInv`); the entries of the map run and belong to their space
(`PoolInv`); a call's arguments exist (`ArgumentInv`); and what the local
variable `ref` points to at each point of the critical section (`RefInv`), for
example that a client about to be stopped runs and has already left the map.
No property is inductive without these: that a count never goes below zero
needs that the entry `Find` saw is the one `Lower` writes, which only the mutex
guarantees. There is one lemma per action.

The other three rest on `IInv`, which adds that a holder's entry is its client
(`LeaseInv`), that nobody holds a released pointer and no abandoned client is
about to be stopped (`OnceInv`), and the count itself (`RefsConserved`). The
step that needs an argument is a Release that finds a count of zero: then the
set of holders has one member (`LastHolder`), the releasing caller, so nobody
else's lease is broken by the stop. `HoldersFinite` is why the callers must be
finite.

`DeviceOwner_proofs` proves, for every set of users and of device ids, with
guests that log in or without, from `OwnerAssumption` alone:

| Theorem | States |
|---|---|
| `Invariance` | `Spec => []IInv` |
| `TypeCorrect` | `Spec => []TypeOK` |
| `SavedComplete` | `Spec => []DiskComplete` |
| `SavedRegistered` | `Spec => []RegisteredToOwner` |
| `OwnerAsked` | `Spec => OwnerChangeConfirmed` |
| `OwnerAskedBeforeUnregister` | `Spec => UnregisterConfirmed` |
| `KeyUploadedFirst` | `Spec => KeyBeforeDisk` |

The inductive invariant `IInv` is in `DeviceOwner`. The properties speak of the
disk, but what will be on the disk is decided in memory: `AppInv` says that the
configuration edited is fit to be saved once it is initialized or about to be
written. That needs that a configuration never initialized has `resetConfig`
set, so that Save registers a device first, and that the new owner's client, if
there is one, acts for the owner of that configuration - which is why a failed
reset must drop it. `ConfirmInv` carries the confirmation from the sign-in to
the write: the saved owner is still the one in memory or has confirmed.
`UnregisterInv` does so for the device: resetConfig outlives the save, so the
step that deletes a device is reached again, and it must be known that the id
it deletes is not one registered since. The action properties follow from the
one step that can break each: only Write and a guest's login change the disk,
only Unregister deletes a device.

`DeviceAccess_proofs` proves, for any users, either kind of UI and any number of
uploads, from `AccessAssumption` alone:

| Theorem | States |
|---|---|
| `TypeCorrect` | `Spec => []TypeOK` |
| `GuestsAdmitted`, `ActiveApproved` | `Spec => []GuestAdmission`, `Spec => []ActiveWasApproved` |
| `SessionIsOne` | `Spec => []SessionAgrees` |
| `PostsAreOnes` | `Spec => []PostedAsOneself` |
| `TokenLostToLogout` | `Spec => []LostToLogout` |
| `TargetsRecent`, `LostRefetched` | `Spec => []TargetsAsRecent`, `Spec => []LostIsFetchedAgain` |

Its `IInv` relates what Login has read to what is there when it is used.
`ReadInv`: while a Login authorizes, token and logged in user are those it read
or a Logout has taken them away - never another's, because one Login runs at a
time; this is why a guest is looked up, and made active, under the name the
cloud answered for. `GuestInv`: what device and answer say of a guest was so at
some time, which makes the stale answer harmless. `SessionInv` and `PostInv` are
the sequential picture that holds as long as nothing overlapped, with its exact
places: a Logout that looked for the token and has not read it yet still finds
it, and a Login that could not reset is told apart. `StampInv`: no timestamp is
ahead of the cloud, so that a lost load, which keeps an older one, is repeated.

`SpaceConsolidation_proofs` proves, for any keys, ids, endpoints and bounds,
from `ConsolidationAssumption` and `DaemonAssumption`:

| Theorem | States |
|---|---|
| `MapsAgree` | `Spec => []EndpointAgrees` |
| `NodesAreExact` | `Spec => []NodesExact` |
| `SharedIsExact` | `Spec => []SharedExact` |
| `TrustIsExact` | `DaemonFairSpec => []TrustsItsSpaces` |
| `CacheIsComplete` | `DaemonFairSpec => []EndpointsCached` |
| `DaemonTypeCorrect` | `DaemonFairSpec => []DaemonTypeOK`; among the rest, no index leaves what it walks |

`EndpointAgrees` is an invariant of every turn of the loops, but not inductive:
entering a node must not leave another's endpoint pointing at a node that its
key no longer leads to. For the targets that holds since their keys differ and
only targets before `next` have been entered (`EnteredInv`), for the shared
spaces since a key that is taken is left alone. `CacheInv` says that the
constructor's loop has dealt with all spaces but the `unseen`.

The results of the merge need a second invariant, `WalkInv`, which says how far
the two loops are. `SharedInv`: at turn `i` of the second loop the indices up to
`i` are as the cloud answered, and after them are, in order, the spaces without
a local target; at `i = 0` this is `SharedExact`. The slice is cut while it is
walked, so its indices shift; the invariant names an increasing function from
the slice to the cloud's answer, and the cut of an element composes it with a
shift (`CutElements`, `FilterShared`). That the code treats the last element
apart (`i = j`) needs that `j` is the length (`BoundInv`), which also keeps `i`,
`j` and `next` inside what they index. `NodesInv`: a key has the target entered
for it, else the last of the shared spaces already walked; it is inductive
because the walk goes down and a key that is taken is left alone. `EndpointsInv`
is its counterpart for endpoints and hosts, where nothing is left alone: the
shared space filed last, which is the lowest, else the target entered last. That
the spaces filed are exactly the `Winners`, which are defined by targets and
answer alone, is `FilterWinner`; with it, `TrustIsExact` says of every host
which space it is trusted as, local targets that a shared space has displaced
included. `TargetIdsInv` says that the ids cut by are those of all local targets
once the second loop starts, `FetchInv` that this loop starts with what the
cloud answered and never after a failure. `SharedExact` is stated with the
increasing function instead of `SelectSeq`, which is defined by recursion over
the sequence; the two say the same.

`MeshClient_proofs` proves, for any callers, spaces, clients and bounds, either
build, from `ConstantsAssumption` and `MeshAssumption`:

| Theorem | States |
|---|---|
| `FlowInvariant` | `MeshSpec => []MeshFlowInv`, and from it |
| `MeshTypeCorrect` | `MeshSpec => []MeshTypeOK` |
| `ShownConnectedWhenReached` | `MeshSpec => []ConnectedMeansReached` |
| `DefaultRouteComesLast` | `MeshSpec => []DefaultRouteLast`, which excepts overlaps with Disconnect |
| `DisconnectLeavesNothing` | `MeshSpec => []OnlyOverlapLeaves` |
| `DiesOnlyOfOverlap` | `MeshSpec => []DiesOfOverlap` |
| `PoolSurvivesMesh` | `MeshSpec => []PoolMeshInv`, and from it |
| `HandsOutRunningToAll` | `MeshSpec => []HandedOutRunning` |
| `OneDisconnectIsSafe` | with `Careless = {Mesh, Hangup}`, `MeshSpec => []OthersKeepTheirClients` |

`MeshFlowInv` adds `FlowInv` to the properties: what each step of Connect may
take for granted. A login has `waitForExitNode` as asked, so its "Success" is
not shown as connected; the steps of `configureExitNode` come after a pong; a
route's predecessors are configured unless a Disconnect overlapped; and while
nothing has overlapped and no Connect has begun since, a Disconnect under way
means that no Connect is, and a Connect after one never gets past its login.
`NilInv` adds that Disconnect's second read of `apiClient` finds what the first
did unless a Connect came in between.

`PoolMeshInv` is the pool's `BaseInv` kept by callers that are no callers of
`SpaceApiClients`: Disconnect copies Connect's pointer to another process,
perhaps one that was released, perhaps in the middle of a Get. It is kept
because a pointer, stale or not, leads to a client made for a space
(`PointerInv`), so the Release it starts has a space, and because Connect only
gets and Disconnect only releases (`RoleInv`).

`OneDisconnectIsSafe` is the result that takes an argument. The pool's exact
count (`RefsConserved`) is lost, because Connects that fail leave references
that nobody will release, and Connect forgets its pointer when it gets again.
What is left is an inequality, `CoverInv`: the count of a pooled client covers
the other callers that hold it and, if it is the client that Disconnect is
releasing or would release if it were called now, one more (`Owed`). A Get of
Connect's moves what is owed to the new client, which it has just counted; a
Disconnect turns what is owed into a Release; that Release takes the one. So a
Release that finds a count of zero is the only holder, whoever it is of, and
the stop breaks nobody else's lease. The second Disconnect releases the same
pointer once more, which nothing covers; hence `disconnects <= 1`, and
`pool_repeat` shows what remains after that.

`SpaceApiClients_lease` proves `PoolImplementsLease` (with `Careless = {}`,
`Spec => ImplementsClientLease`) and `DeviceOwner_transfer` proves
`HandOverImplements` (`Spec => ImplementsOwnerTransfer`), each from the
inductive invariant of its component: initial states map to initial states, and
each action, by a lemma of its own, to a step of the abstract specification or
a stutter. For the pool the step that needs the invariant is the deletion of an
entry: the count of zero that `Find` saw means that the caller's is the last
lease and that nobody has forsaken the client (`RefsConserved`), so the entry
leaves the map exactly when the abstract client leaves service.

Every safety property of a passing run but `LoginCanGoOn`, which speaks of
ENABLED, is proved for all values of the constants. Only model-checked are that
one, the liveness properties (`GetReturns`, `ReleaseReturns`,
`DisconnectEndsBoth`, `Ends`), which need fairness and ENABLED, and the
refutations, which are counterexamples.

## 6. What is not modelled, and why

* `AddSpace`, `DeleteSpace`, `AddApp`, `DeleteApp`, `RemoveDeviceUser`,
  `SetDeviceWireguardConfig`, the user search and the REST calls of `mycsnode`
  but CreateMeshAuthKey: single requests without local state. Failures of those
  that the modelled operations make are failed steps of these.
* Overlapping operations of one initializer, and two Logins at once: the
  callers this code expects wait for the callback of the one before.
* Two calls of Connect, or of Disconnect, of one mesh client at once: both are
  called by whoever holds the connection. `AddSplitDestinations`: it is called
  before Connect, and the model does not tell destinations apart.
* Managed devices in UpdateDeviceContext: their users are kept by
  `config.Config`, which is not in the repository.
* The daemon's metrics timer, Start and Stop, and the excluded routes; the
  device information: planned, see section 2.
* The browser flow of Authenticate beyond its outcome: local HTTP listeners of
  a library.
* Endpoints that are no URLs, and hosts that are IP addresses, which the daemon
  does not look up: `Endpoints` are URLs that parse, with hosts that are names.
* What `nil` in place of a client means to the pool but its dereference, and a
  query that is never answered but its waiting.
* Cryptography, encodings, wording of messages, logging.
