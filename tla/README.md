# A TLA+ verification of parkhub-api

parkhub-api is the back end of a parking-lot management product: a set of gRPC
services in Go over MySQL and Redis. This directory holds TLA+ modules that
model its core logic, TLC configurations that check them on small instances, and
theorems that TLAPS proves for every instance.

Run `tlc -config X.cfg M` for the runs and `tlapm M.tla` for the proofs.
`PROJECT.json` maps every definition to the lines it models, lists the runs,
the theorems, the hazards the properties are aimed at, and one mutant per
property (a plausible bug under which TLC finds the property violated).

## The system

| component | state it keeps | operations | talks to |
|---|---|---|---|
| identity: users (`identity/service/user_service.go`) | table `users` (row per user: tenant, user name, phone, password hash, status) | Create, Update, UpdateProfile, Freeze, Unfreeze, ResetPassword, ChangePassword, ImportUsers, List, GetByID | MySQL |
| identity: authentication (`auth_service.go`) | Redis keys `auth:refresh:<jti>`; the signed tokens clients hold | Login, SmsLogin, RefreshToken, Logout, GetJWKS | the users table, Redis, the SMS service |
| identity: tenants (`tenant_service.go`) | table `tenants` | CreateTenant, UpdateTenant, FreezeTenant, UnfreezeTenant, DeleteTenant, ListTenants, GetTenantSummary | MySQL |
| sms (`sms/service/sms_service.go`) | Redis keys for the code and the 60 s rate limit of a phone; table `sms_records` | SendCode, VerifyCode | Redis, MySQL, an SMS gateway |
| iot (`iot/service/device_service.go`) | table `devices` (status, binding to a lot and a gate) | Create, UpdateName, Bind, Unbind, Disable, Enable, Delete, four batch operations, SendCommand, stats | MySQL |
| parking lots (`parking_lot_service.go`) | table `parking_lots` | Create, Update, Delete, List, GetStats | MySQL |
| lane configuration (`lane_service.go`) | table `lanes`; the bindings of devices | GetLaneConfig, UpdateLanes | MySQL, the device service in the same process |
| health and shutdown (`internal/health`, `cmd/monolith/main.go`) | serving status per service, watchers' channels, the `ready` flag | Check, Watch, SetServing, SetNotServing, graceful stop | gRPC runtime |
| middleware, registry, configuration, telemetry | none that outlives a request, or set once at start | | |

`internal/domains/identity` and `internal/domains/sms` exist a second time under
`services/` with their own `main.go`; the copies agree line by line in
everything modelled here. (The monolith registers sms, parking and iot; the
identity services run from `services/identity`.) `services/identity/main.go` and
`services/sms/main.go` shut down as `cmd/monolith/main.go` does.

How components interact: every gRPC request is a goroutine; there is no shared
memory between requests except the health server; all shared state is in MySQL
and Redis, and a handler reads and writes it in separate statements. Outside the
batch operations of iot no handler opens a transaction, and no statement locks a
row. That is what makes the system hard: between any two statements of one
request any number of statements of others may run, a call may fail with or
without having been executed, and the process may die.

## What would be wrong: properties per component

* users: no two users of a tenant share a name and no two users a phone; a
  request changes only the columns it is about.
* authentication: a refresh token or an SMS code is exchanged for at most one new
  token whatever the interleaving, lost answer or crash; a login has one usable
  refresh token at a time; logout is final; a frozen user gets no token; a
  credential taken out of Redis never hangs.
* sms: at most one message per phone and minute; the newest code is the one that
  counts; a code is accepted at most once and only for its purpose.
* iot: a bound device is not deleted; a batch is all or nothing; a disabled
  device stays disabled until enabled.
* lanes: the lane's view and the device's view of a binding agree; a save leaves
  exactly the lanes it was given; a deleted lane does not come back.
* tenants and lots: names are unique; the free spaces of a lot are between none and
  all, whatever vehicles do during an update; a request changes only its columns;
  the pages of a list hold every row once.
* health and shutdown: a watcher learns the last status; nobody waits for ever on a
  channel or a mutex; readiness is withdrawn before calls are refused; the process
  ends whatever its clients do.

## Modules

| module | models |
|---|---|
| `UserRepo` | the users table, the statements of `dao/user.go` (`Duplicate`: the unique indexes, `Updates`: GORM's update of non-zero fields), and the requests in flight |
| `UserService` | the state-changing methods of `user_service.go`, each a SELECT with its checks followed by an INSERT or UPDATE |
| `AuthService` | `auth_service.go` with the refresh-token keys and login codes in Redis |
| `OneTimeCredential` | the abstract promise: a live credential is claimed once, a claim grants at most one token, a dead one never returns |
| `SmsService` | `sms_service.go` with its Redis keys and the audit table; also mapped to `OneTimeCredential` |
| `DeviceService` | `device_service.go`: the methods on one device and the batch transactions on the devices table |
| `LaneService` | `UpdateLanes` of `lane_service.go` on the lanes table, with an instance of `DeviceService` for the device service in the same process |
| `Requests`, `Pagination` | what the administration services share: goroutines; page, size and page count of a List |
| `TenantService`, `ParkingLotService` | the two services, statement by statement |
| `Tenancy` | both together and their properties |
| `HealthServer` | `internal/health/health.go`: statuses, watchers' channels, the mutex |
| `Monolith` | `run()` of `cmd/monolith/main.go` from listening to the end, its servers' goroutines, signals and clients, on `HealthServer` |
| `Identity` | `UserService` and `AuthService` on one table, crashes, the properties, and the refinement mapping to `OneTimeCredential` |
| `MCIdentity`, `MCSmsService`, `MCDeviceService`, `MCLaneService`, `MCTenancy`, `MCMonolith` | symmetry, and where said below a restriction, for TLC |
| `OneTimeCredentialProofs`, `IdentityProofs`, `CredentialProofs`, `SmsServiceProofs`, `DeviceServiceProofs`, `LaneServiceProofs`, `TenancyProofs`, `MonolithProofs` | the theorems (`CredentialProofs` is about `Identity` too: its refinement of `OneTimeCredential`) |

`UserService` and `AuthService` extend `UserRepo` and are composed by
`Identity`, because they share the table and overtake each other. SMS and
devices have their own databases and keys and are modules of their own; what a
login sees of SMS (a code that is deleted when it is looked at) is part of
`AuthService`.

### State and actions of the identity model

`users` maps a user id to its row or NULL. A row keeps the columns that
properties tell apart; e-mail, real name, role and timestamps are dropped. A
bcrypt hash is named by the password it was made from, so comparing and
re-hashing are equality and assignment. `req` maps each goroutine to its program
counter and locals: the row it read, the credential it presented, the token it
saved. The history field `stale` says that the stored row has changed since it
was read.

`store` is the set of jti with a key in Redis; `owner` records the subject of
every token ever signed (a signed token never changes); `delivered` the tokens
some client may present. `codes` is the login code Redis holds for a phone. A
generated code is one element of `Code`, so two codes are never equal by chance
(in the program they are six random digits). `origin`, `family` and `loggedOut`
are history variables.

One action is one statement sent to MySQL or Redis together with the Go code
before the next one. Requests rejected before they change anything are no steps.
A Redis call may succeed, fail without effect, or take effect and lose its
answer (`Save`, `Consume`, `Revoke`, `SmsLogin`). A database call may fail.
`Crash` drops all goroutines. TTLs, evictions and restarts of Redis are
`KeyExpires` and `CodeExpires`, which may happen at any time.

### State and actions of the SMS model

`limit` is the key `sms:ratelimit:<phone>`; the model remembers which attempt set
it, Redis does not. `tokens` is `sms:code:<purpose>:<phone>:token`. An attempt and
the code it generates are one element of `Code`. The JSON copy of a code that
`Store` writes beside the token is read by nobody (`GetCode` has no caller) and
is left out. `SendCode` is a step per call: `SendCode` (SETNX and NewSmsCode),
`Send` (gateway), `ReleaseRateLimit`, `SaveSendFailure`, `Store`, `Insert`.
`VerifyCode` is the Lua script, atomic in Redis. `ClientRetries` says whether the
Redis client repeats a command whose answer was lost; go-redis does unless told
otherwise. `used`, `sent`, `stored`, `accepted` and `lapsed` are history variables.

### State and actions of the device model

`devices` is the committed table. A method on one device is a load (`UpdateName`,
`Bind`, `Unbind`, `Disable`, `Enable`, `Delete`: GetByID and the checks of
`domain/device.go`) and `Write`. A batch begins with `Begin`, which fixes the
snapshot all its SELECTs see (REPEATABLE READ, MySQL's default), goes on with one
`TxWrite` per row, which needs the newest row to match and locks it, and ends
with `Commit` or `Fail`. A batch that a check refuses is rolled back without
effect and is no step. In `BatchDisable`, `BatchEnable` and `BatchDelete` a
device listed twice is refused at its second read; `BatchBind` reads everything
before it writes, so there it is not. `Fail` stands for an UPDATE that matches no
row, a failing database, and InnoDB choosing the transaction to end a deadlock.
Nothing in the code ever sets the status `offline`.

### State and actions of the lane model

`lanes` is the table, `devices` and `req` are those of `DeviceService`. `upd` holds
the locals of each goroutine's `UpdateLanes`: `current` (currentMap), `keep`
(requestIDs), the lane at hand and its copy in memory. Every SQL statement of
`UpdateLanes` is a step: the first SELECT (`UpdateLanes`), `DropLane` (the Unbind of a
lane to delete) and `EraseLane`, `CreateInput`, `InsertLane`, `UpdateInput`,
`BindDevice`, `SaveLane`. A call of the device service is its SELECT followed by
`DeviceWrites` or `DeviceFails`; the caller goes on either way, as the code only logs
the error. `LaneFails` may end the request between any two statements and leaves what
is written. Phase 1 goes through a Go map, so in any order. `DeviceRequest` is a client
that binds, unbinds or deletes devices directly. `clean` is a history variable: the
updates that began while the tables agreed, met no failing statement and saw nobody
else write.

### State and actions of the tenant and lot models

A row is known by its place in the order of creation, which is also the order of the
lists; a deleted row leaves its place empty (uuids are not used again). `name` and
`remark` stand for the text columns of a tenant. Every update is a load (with the
checks of the service and of the gRPC server) and a write of all columns. The request
remembers the row it read (`snap`) and the columns it was asked to change (`sets`) for
the properties. Nothing in the repository changes the number of occupied spaces, yet
`Update` is written so that it keeps it: `VehicleEnters` and `VehicleLeaves` are that
external writer.

### State and actions of the health and shutdown model

`status` and `watchers` are the maps of the health server, `ch` the channels, `mu` its mutex where it is held
across a step (`addWatcher` sends on the new channel under it), `told` what the client
of a Watch call has received. `Receive` and `Send` are separate: a client that does not
read keeps `stream.Send` from returning, so `Send` has no fairness. `main` is the place
of `run()`. What gRPC and net/http do when asked to stop is external: `GracefulStop`
refuses new calls and waits for those in progress, `Stop` cancels their contexts,
`Shutdown` waits until its context is done. A second signal after `stop()` kills the
process (`SignalKills`).

## Runs

| run | instance | shows |
|---|---|---|
| `sessions` | 2 goroutines, 1 user, 3 refresh tokens | types, single use, one usable token per login, logout is final, a frozen user is granted a token only by an overtaken request, the copy a request holds is fresh unless overtaken, refinement of `OneTimeCredential` |
| `smslogin` | 2 goroutines, 1 user, 2 codes, 1 token, with fairness | refinement with codes; every credential taken out of Redis is exchanged or given up |
| `accounts` | 2 goroutines, 2 users, 2 names, 1 phone, a short password, imports of 2 | unique names and phones; only an overtaken request changes a column that is not its own |
| `freeze` | as `sessions` | violation, see below |
| `sms_send` | 2 goroutines, 2 phones, 3 attempts, retrying client | one attempt per phone, only sent codes can be verified, the audit table tells the truth, who may end a reservation |
| `sms_verify` | 2 goroutines, 2 purposes, 3 attempts, no retries | a code is accepted once; refinement of `OneTimeCredential` |
| `sms_limit` | 2 goroutines, 1 phone, 3 attempts | violation |
| `devices` | 2 requests, 2 serial numbers, 2 tenants, batches of 2 | consistent rows, tenant isolation, atomic batches, only batches are waited for, what only an overtaken request may do |
| `lanes` | 2 goroutines, 2 lanes, 2 names, 2 devices | an undisturbed save leaves lanes and devices in agreement after every lane and exactly the lanes it was given; a deleted lane does not come back |
| `tenancy` | 2 goroutines, 2 tenants, texts empty or not; 2 lots, 2 names, 1 space | distinct names, capacity, pages, what only an overtaken request may undo |
| `shutdown` | 2 services, 1 watcher, 3 servers, a call and a stream that may never end | the shutdown ends, in the right order; nobody waits on the error channel or the mutex; a watcher is out of date only after a dropped update |
| `watch` | 1 service, 1 watcher | violation |

Why the bounds are enough to be interesting: every race here is between two
requests (a third statement of a third request can be made by either of the two
once it is idle again, since requests restart without limit); three tokens are
what it takes to fork a session (one token exchanged for two others); three
attempts let an overdue one release the reservation of the next; two devices
make batches that deadlock, overlap and fail half way; two lanes and two devices are
what a swap takes; two lots make a name taken and fill more than one page of size 1.
The page sizes asked for are below, at and above the limits of the code, which are kept
(20 and 100). One watcher is enough since watchers do not interact; the second service
has no status until the program reports one. The theorems remove the bounds where they
apply.

Two runs restrict `Next` in their MC module. `MCLaneService`: two requests at once share
one device, while a request that runs alone has all of them; so swaps are checked
undisturbed and races on one device. `MCTenancy`: tenants and lots take turns, which
loses nothing, since no action reads the state of both.

Mutants: each property has a mutant in the module it is about (`...KeepsKey`,
`...Unchecked` and so on), a plausible slip in the code, under which TLC finds
the property violated in the same run.

**Fairness.** `ClaimsAreResolved` needs weak fairness of the steps of
each goroutine that has a request (`Continues`). The Go scheduler runs every
goroutine and calls to Redis and MySQL return or time out, so a started request
goes on. No request has to arrive, no key has to expire, no process has to crash.
`MutexReleased` and `ShutdownEnds` need weak fairness of the steps of `run()` and of the
goroutines that report an error (a goroutine that can run does), and strong fairness of
what needs the mutex, `MarkNotServing` and the steps of a Watch call (Go's mutex hands
itself to a goroutine that has waited for 1 ms). The timeouts of 15 s and 10 s come.
Nothing is assumed of clients: a call or a stream may last for ever and a client may
never read. The other properties are safety properties.

**Deadlock** is checked except in `tenancy`, where the bound on ids ends the creation of
rows and all may be deleted, and `shutdown` and `watch`, where the process ends.

## Where the code and its documents disagree

* `freeze`: Login and SmsLogin end by writing back the whole row they read at the
  start. A Freeze in between is undone; the account is active again. The same
  write restores an old password after ResetPassword or ChangePassword, and the
  same pattern is in Update, UpdateProfile and the others.
  `OnlyOvertakenWritesUndo` shows this is the only way a foreign column changes.
* `sms_limit`: ReleaseRateLimit deletes the reservation of the phone, whoever made
  it. An attempt whose gateway call outlasted its 60 s and then failed frees the
  phone another attempt has just reserved. `OnlyOverdueReleaseOthers` shows that
  only such an overdue attempt can.
* `watch`: `notifyWatchers` drops an update that finds the channel full, and what stays
  in the channel is the older value. A Watch call that begins just before the shutdown
  is told SERVING and nothing else. `StaleOnlyAfterDrop` shows there is no other way.

Also visible in the models, not given runs of their own: after the gateway
failed, the phone stays limited when the release fails too (its error is ignored,
and it runs on the request's context, which may be the very thing that failed);
with a retrying Redis client (`ClientRetries = TRUE`) `AcceptedIsGone` does not
hold, since a SET sent twice can bring back a code verified in between; two
concurrent Binds of one device both succeed, and a renaming that read a pending
device makes it pending again after it was bound (both are overtaken writes).
A device bound between the SELECT and the DELETE of Delete or BatchDelete is deleted
although bound (`errs/errors.go:9` names the error that should have come), and only such
a device is (`DeletedBoundOnlyWhenOvertaken`). `docs/prd/auth/user-management.md:151`
wants user names unique in the system; the index is per tenant, ignores users without
a tenant, and Update does not look.

`UpdateLanes` can leave a device bound to a lane that does not name it: the device is
changed first, and the UPDATE of the lane then fails on a name in use. Moving a device
from one lane to another works only if the input that releases it comes first;
otherwise Bind refuses it, the error is logged and both lanes end without a device. It
never changes the type of a lane and does not look whether the lot exists. Deleting a
lot leaves its lanes and their bindings.

`ListTenants` without a status lists the active tenants only, where the same call for
lots lists all. Its answer repeats the page size asked for while the page count uses the
capped one. Creating a lot with 0 spaces is refused, updating one to 0 is not. An empty
text cannot be written over a tenant's column (`Updates` with a struct). The daos of
tenants, lots and lanes look for "UNIQUE" or "duplicate" in the error of an INSERT,
which MySQL words "Duplicate entry": the answer is then Internal, not AlreadyExists
(the row is refused all the same, which is what is modelled). `GetLaneConfig` asks for
200 devices and gets at most 100; its comments (`lane_service.go:30`, `:48`) say that it
offers unbound devices, and it offers those that no lane of this lot names, the ones
bound elsewhere included (the Bind that follows refuses them). Rows created in the same millisecond have no fixed
order between pages; the model orders them.

## Proofs

Every safety property that a passing run checks is also a theorem, proved by TLAPS for
all values of the constants. None of the invariants is inductive as it stands; what
follows says for each component what had to be added and why. The added invariants were
checked with TLC on small instances before they were proved.

**The abstract credential.** `OneTimeCredentialProofs!PromiseKept`: `OneTimeCredential`
guarantees single use and one usable token per login for all sets of tokens and codes.
The inductive invariant adds that a credential something was granted for is dead, so the
next grant for it is impossible, and that the family of an issued token is an issued
token.

**Identity.**

* `IdentityProofs!TypeCorrect`: `TypeOK`, for any number of goroutines, users, tokens and
  codes. It needs to be known which fields of a request are set at which program counter
  (`TypeInv`).
* `CredentialProofs!IdentityImplementsCredentials`: every step of `Identity` is a step of
  `OneTimeCredential` under the refinement mapping, or leaves it alone. The invariant
  (`HoldInv`) says where an issued credential is: in Redis, in the hands of one request,
  or in neither place, but never in both (`Apart`, `OneHolder`); a code is stored for one
  phone (`OnePhone`); a token that was logged out is not in Redis (`LoggedOutGone`). The
  statements of all methods then fall into four kinds: they drop credentials, take one
  out of Redis, grant a token for one in hand, or send a code that replaces another; the
  rest of a statement does not matter for the refinement.
* `CredentialsUsedOnce`, `SessionsDoNotFork` (`SingleUse`, `OneHeadPerFamily`) follow from
  the refinement and `PromiseKept`; `LogoutFinal` (`LogoutIsFinal`) from the four kinds.
* `IdentityProofs!NamesStayDistinct`, `CopiesStayFresh`, `WritesUndoOnlyWhenOvertaken`,
  `FrozenUsersGetNoTokens` (`NamesAndPhonesDistinct`, `FreshCopy`,
  `OnlyOvertakenWritesUndo`, `FrozenGrantOnlyWhenOvertaken`). The unique indexes are what
  keeps names apart, for an UPDATE as for an INSERT. The rest needs (`RowInv`) that a
  request about to grant a token holds an active copy, so a frozen row means that it was
  overtaken, and that the id of an INSERT is new to the table and to all requests, so that
  no INSERT replaces a row somebody read.

**SMS.**

* `SmsServiceProofs!SendCodeCorrect` and its parts `SmsTypes`, `PhonesReserved`,
  `CodesWereSent`, `AuditIsTrue`: types, `OneAttemptPerPhone`, `OnlySentCodesStored` and
  `AuditAgrees`, with or without a retrying client. The strengthening: attempts in flight
  have distinct codes; an attempt in flight holds the key of its phone or has lapsed; a
  request past the gateway has its code among the sent ones and one that was refused has
  not; a code not yet begun occurs nowhere. Two attempts on one phone would both hold its
  key.
* `ReleasesOwnOrOverdue` (`OnlyOverdueReleaseOthers`), from the same invariant.
* `SmsImplementsCodes`, `CodesAcceptedOnce` (`ImplementsCodes`, `AcceptedIsGone`), under the
  hypothesis `~ClientRetries`, without which they are false. The invariant (`CodeInv`): a
  code is in Redis for one phone and purpose only and then was stored and not accepted; a
  code still to be stored was never stored.

**Devices.**

* `DeviceServiceProofs!DeviceTypes`, `DevicesCoherent`, `TenantsIsolated`, `BatchesAtomic`,
  `WaitsEnd`: `TypeOK`, `RowsCoherent`, the action properties `TenantIsolation` and
  `AllOrNothing`, and `WaitsForOpenBatch`, for any number of requests, tenants and devices
  and any batch length. The invariant: everything a request still has to write or has
  written in its transaction is a consistent row of its own tenant; a row a transaction
  has locked is in the table and belongs to its tenant, and stays so because locks
  exclude each other; what a batch has read it has locked or still has to write; a lock
  is held by a batch in its writing phase and by nobody else.
* `UndoOnlyWhenOvertaken`, `BoundDevicesStay` (`OnlyOvertakenUndo`,
  `DeletedBoundOnlyWhenOvertaken`). Added (`DInv`): what a request is going to write, or
  has written in its transaction, follows from the row it read: an updated device keeps
  the other columns, a deleted one was not bound.

**Lanes** (`LaneServiceProofs`), for any number of requests, lanes, devices, tenants and
lots, without the restriction of `MCLaneService`.

* `LanesTyped` (`TypeOK`), `UndisturbedAgrees` (`CleanUpdateAgrees`), `UndisturbedExact`
  (`CleanUpdateExact`). Between two rounds of the loop the tables agree, but within a
  round they do not, so the invariant follows the round (`CleanOK`): the tables agree
  except on the lane at hand, and there the devices bound are those the coming UPDATE
  writes, or the call under way is the Unbind of the one device bound or the Bind of one
  that is free; `currentMap` has the lanes of the lot that the request did not create, as
  they are in the table. That Unbind finds the device at all needs that a lane only names
  devices of its own tenant. This has to hold of the lanes and copies of *every* request,
  disturbed or not (`JobOK`), and stays true because no step gives a device to another
  tenant (`Steady`).
* `DeletedLanesStay` (`DeletedStaysDeleted`): an INSERT takes an id that was never given
  out, an UPDATE needs the row.
* `LanesUseDeviceService`: every step is a step of `DeviceService` or leaves its state
  alone. The calls are written into `LaneService` with the lane's tenant and lot, and this
  says that they are calls the device service really offers.

**Tenants and lots** (`TenancyProofs`).

* `TenantNamesUnique`, `LotsNeverOverfull`, `TenancyTyped` (`TenantNamesDistinct`,
  `CapacityHolds`, `TypeOK`) for any number of requests, rows, texts and spaces
  (`TenantInv`, `LotInv`): the row a request holds in memory is one that may be stored as
  it is, so it does not matter how old it is.
* `UpdatesKeepRest` (`OnlyOvertakenUndo`). Added (`CopiesDerived`): the copy differs from
  the row that was read only in the columns the request is about.
* `ListsComplete` (`PagesPartition`) for any number of rows and page sizes: a row's page is
  the quotient of its rank in the list and the page size, and the last page has a number
  the answer names (`OnOnePage`).

**Health and shutdown** (`MonolithProofs`), for any number of services and watchers.

* `WithdrawsFirst` (`RefusesOnlyWhenWithdrawn`). The strengthening (`Order`) says for each
  stage of `run()` what has been withdrawn; `run()` never goes back, and once it has left
  its select nobody sets a status.
* `MonolithTyped` (`TypeOK`) and `ErrorsHaveRoom` (`NoSenderWaits`): there are no more
  errors in the channel than goroutines that have ended (`ErrorsBounded`).
* `UpdatesLostOnlyWhenFull` (`StaleOnlyAfterDrop`). The invariant (`WatchInv`): the newest
  status a watcher will see, in its channel, about to be sent or sent, is the current one,
  unless an update was dropped; its channel is registered with its own service only, and
  until addWatcher has sent on it the mutex keeps every update away.

Assumptions on the constants: `NULL` is none of the values it is an alternative
to, tokens and codes are different things, the empty text is a text, short passwords are
passwords, bounds are natural numbers, the services reported are services, `ClientRetries`
is a Boolean. TLC evaluates them in the runs.

Only model-checked: the liveness properties `ClaimsAreResolved`, `MutexReleased` and
`ShutdownEnds`. They rest on fairness, whose definition contains ENABLED, which the
installed provers cannot reason about.

## Not modelled

* Signatures and bcrypt: assumed sound; a hash is its password, a token its jti.
* Two random codes that happen to be equal; six digits make that possible in the
  program, the model gives every attempt its own code.
* A Redis command that is executed after its caller gave up and went on. The
  client closes a connection that timed out; a retry (`ClientRetries`) is modelled.
* Reading operations other than the paged lists (GetByID, GetStats, GetTenantSummary,
  GetLaneConfig, SendCommand, GetJWKS) change nothing.
* `UpdateStatus`, `UpdateStatusBatch`, `DeleteBatch`, `UnbindByDeviceIDs`,
  `Activate`, `GoOffline`, `MarkCodeUsed`, `GetCode` have no caller.
* Start-up of `run()` (configuration, logger, database, migration, listeners): it ends in
  an error before anything is served, or in `Monolith!Init`.
* The data race on `ready` between `run()` and the handler of `/healthz`:
  `RefusesOnlyWhenWithdrawn` is about the write.
* Middleware, registry, configuration, telemetry: nothing that outlives a request, or
  set once before the servers start.
* Most lines of the repository are not program logic of this kind: about 18,000 of
  29,000 are generated from the .proto files (`*.pb.go`), each twice; the identity and
  sms domains are there a second time under `services/`; what remains besides the
  modelled services is conversion between generated, domain and table structs.

## Plan

Every component that keeps state across requests is modelled, and every safety property
of the runs is proved. What could follow:

1. Safety lemmas that the liveness arguments rest on: the goroutine that holds the mutex
   of the health server has its send to a channel with room, and a request that holds a
   credential is at a step that exchanges it or gives it up.
2. A `ready` flag whose readers may see an old value, once the handler of `/healthz`
   synchronises or the Go memory model is made part of the model.
