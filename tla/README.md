# A TLA+ verification of ruta-seg-api

`ruta-seg-api` is the backend of a fleet-tracking product: GPS devices report
positions over HTTP and gRPC, the server stores them, tells browsers and phones
about them over WebSockets, and, for microbuses on urban routes, counts laps,
charges them and fines infractions. It is one Go process (Gin, GORM on Postgres,
Redis, gorilla/websocket); every request, report and connection runs in
goroutines of its own and most state lives in tables written without
transactions.

This directory models the parts of it where that matters, checks the models with
TLC and proves what can be proved about them with TLAPS. All line numbers refer
to files under `src/`.

## 1. Inventory

| Part | State | Operations | Interacts with | Hard behaviour | Correct when |
|---|---|---|---|---|---|
| Lap engine (`modules/lap`) | tables laps, lap_charges, fines | `EvaluatePosition` per report | reads vehicle_routes, routes, geofences, route_fares; calls the fine service; publishes events | a goroutine per report, no transaction or lock, each statement may fail, the process may die | one open lap per vehicle; laps follow one another; each is settled once; a fine per infraction |
| WebSocket hub (`providers/websocket`) | clients, admins, topics; a bounded Send channel per connection | register, unregister, broadcast (global, targeted, topic), read and write pumps | gets messages from ingestion, laps, notifications, Redis | slow or dead peers, full buffers, who closes a channel | no send on a closed channel, nobody gets what was filtered out, dead connections go |
| Position ingestion (`modules/position`) | positions, device_last_positions | `Create`, `broadcastAndEvaluate`, over HTTP and gRPC | position and owner caches, hub, lap engine | reports handled side by side, three writes that may each fail | copies and table agree; every stored position is shown |
| History (`modules/position/service`) | none | `analyzePositions`: trips and stops | positions | stops dated back, gaps, limits met exactly | events follow one another; no drive lost or counted twice |
| Position cache, owner cache (`providers/redis`) | keys with an index, keys with a TTL | set, set-if-absent, warm-up at start, owner resolution | ingestion, live views, installations | a warm-up beside live reports, a loss of Redis, an owner that changes | see the two rows above and below |
| Broadcast throttle | last live update per IMEI | `allowBroadcast` | hub | a tracker faster than the window | updates are thinned, never stopped |
| Refresh tokens (`modules/auth/repository`) | refresh_tokens in Postgres; a copy per token and an index per user in Redis | login, refresh with rotation, logout, expiry, daily sweep | users | copies made after a deletion, an index shorter-lived than what it names, failures half-way | a spent token is refused, a held one works |
| Accounts and login (`modules/auth`, `modules/user`) | users; counter of failed logins and verification code in Redis | sign-up, login, Google login, verification, profile, block, enable | refresh tokens, mail | counters read before and raised after the check, rows saved from stale copies, a uniqueness check narrower than the index | guesses are bounded, lock-outs end, flags survive |
| Devices (`modules/device`) | devices, on two servers | create, bulk import, each asking the other server | peer over gRPC | check then insert, on two servers that may not ask, reach or be told the truth by each other | a tracker gets on both servers by a race or an untold request only; an import reports what it stored |
| Installation, groups, vehicles | device_installations, group_devices, vehicles | create, quick create, uninstall, assign, transfer | owner cache | check then act without a unique index | one vehicle per tracker, one tracker per vehicle |
| Vehicle-route assignment | vehicle_routes | create, update, change status, register micro | lap engine | reassignment during a lap; register-micro in three statements | one active assignment per vehicle |
| Fines, notifications, push | fines, notifications, device tokens | generate, void; notify | lap engine, hub, FCM | best effort | a fine per infraction |
| Live view and ETA | none | `GetLive`, `GetETA` | position cache, laps | floating point on a closed loop | - |
| Rate limit, access control | a map of counters in memory | per sign-up; signed tokens otherwise | sign-up route | clean-up beside requests | a limit holds per window |
| Catalogues, dashboard, health, logs, backup, migrations | one table each | one row per request | - | - | - |

The hazards of each part, with their lines and the properties that cover them,
are listed in `PROJECT.json`.

## 2. Plan

| Step | Modules | State |
|---|---|---|
| 1. The rule engine | `LapEngine`, abstract `LapLedger`, `LapEngineProofs`, `LapRecordsProofs` | checked, proved |
| 2. Connections and broadcasts | `Hub`, abstract `Mailboxes`, `HubProofs` | checked, proved |
| 3. Sessions and accounts | `Sessions`, `SessionsProofs`, `Accounts`, `AccountsProofs` | checked, proved |
| 4. Last positions, warm-up, throttle | `Positions`, `PositionsProofs` | checked, proved |
| 5. Registration, installation, ownership | `Fleet`, `FleetProofs` | checked, proved |
| 6. The history | `Trips`, `TripsProofs` | checked, proved |

Every safety property that a passing run checks is proved as well, for every value
of the constants, some under a premise on the environment that section 3 gives.
The liveness properties (`NextLapOpens`, `DeadLeave`, `DroppedEnd`,
`StaleCopiesEnd`, `LockEnds`, `OutdatedOwnerEnds`, `ShownAgain`,
`UpdatesKeepComing`) stay with TLC, as the provers reason neither about fairness nor
about `ENABLED`. What stays outside altogether is in section 10.

## 3. The lap engine

### Model

`LapEngine.tla` is `lapService.EvaluatePosition` and the repository statements it
issues. A *worker* is the goroutine `broadcastAndEvaluate`
(`position_controller.go:96`) starts for a report. An action ends at the next
statement sent to Postgres, so each action is one statement and the computation
around it, and everything a worker remembers (`ev[w].lap`, `ev[w].route`,
`ev[w].rivals`) is a copy that other workers may outdate.

| Action | Code (`lap_service.go` unless noted) |
|---|---|
| `Receive` | the goroutine up to `FindActiveVehicleRoute`/`FindRouteByID`, 75-89 |
| `ReadOpenLap` | `FindOpenLap`, by vehicle and status only |
| `EvaluateProlongedStop`, `EvaluateSpeeding` | 170-244, with the fine they may write |
| `EvaluateOvertaking`, `FineRival`, `MarkRival` | 250-308: the query, then a fine and an `UpdateTracking` per rival |
| `UpdateTracking` | the write-back of the tracking columns, 163-166 |
| `CrossCheckpoint` | geofence lookup and the early returns, 104-119 |
| `CloseLap`, `FineLateLap`, `ChargeLap` | `closeLap`, 310-352, statement by statement |
| `OpenNextLap` | 126-141 |
| `ReadFails`, and the `Fault` disjuncts | each error path: returned, or logged and passed over |
| `Crash` | the process dies; tables survive, goroutines do not |
| `Reassign` | vehicle-route `Update`/`ChangeStatus` |

A report is its vehicle, device time, speed, the checkpoints it lies in and its
projection on the route (polyline and metres); the geometry that computes these is
floating point and stays outside. `Fares`, limits and thresholds are constants, so
the proofs hold for any. Ghost fields, read by properties only: `toured` on a lap,
`by` and `since` on a fine, `by` and `route` on a charge. Left out: the live events
the engine publishes (they change no state), `duration_seconds` (a function of two
columns kept), notifications sent by `GenerateFine`.

Three constants say what is assumed of the environment: `Overlap` (two reports of
one vehicle evaluated at once), `InOrder` (reports of a vehicle in device-time
order), `MaxFaults` (failures and crashes). The code guarantees none of the three;
the runs say which property survives which.

`LapLedger.tla` is what the documentation promises of it
(`docs/plan-modulo-micros.md`, RF-15 to RF-17): a vehicle's day is a sequence of
laps without gap or overlap, numbered, each fined once if late and charged once if
priced. The last section of `LapEngine.tla` maps the tables to it: the last lap of a
vehicle is the one that has begun, in progress or being settled, and those before it
are the book (`LapsBegun`, `LapsBooked`).

### Runs

Time is measured in minimum laps: `MinLap = 1`, allowed lap 3, so that 0 to 5 holds
every boundary of `computeLapStatus` (too fast, on time, exactly allowed, late).
Three or four reports are enough for a lap to open, be driven, close and be followed by the next.

| Run | Environment | Shows |
|---|---|---|
| `lap_faults` | two goroutines, two vehicles, any report order, one failure or crash anywhere, one reassignment | one open lap; each lap charged and fined for its time once, and only when finished; a finished lap is never rewritten |
| `lap_serial` | one goroutine at a time, reports in order, no failures | the engine implements `LapLedger` (`KeepsLedger`); laps do not overlap; a stop is fined once, speeding with its cooldown, overtaking once per lap; a vehicle with a lap gets an open one again (`NextLapOpens`) |
| `lap_overlap` | two goroutines, one vehicle | finding: one lap charged twice |
| `lap_rivals` | two goroutines, two vehicles, never the same at once | finding: the overtaking flag is lost and the lap fined twice |
| `lap_reassign` | a reassignment during a lap | finding: the lap pays another route's fare |
| `lap_parked` | one vehicle standing in the checkpoint | finding: laps without leaving it |

Deadlock is not an error: reports need not come. `NextLapOpens` assumes weak
fairness of each worker's `Step`, that is, that the Go scheduler runs live
goroutines and Postgres answers; nothing is assumed of devices. Symmetry (workers,
and vehicles with identical reports) is used in `lap_faults` only, which checks no
liveness.

### Proofs

`LapEngineProofs.tla`, for every value of the constants:

* `TypeCorrect`: `Spec => []TypeOK`, with no assumption on the environment. It
  needs `Held` besides the types: the ids a goroutine holds exist.
* `Serialized`: `~Overlap => []LapInv`. `OneOpenLap` and `OneChargePerLap` are not
  inductive: whether a close or a charge is safe depends on what the goroutine
  read earlier being still true. `LapInv` adds just that: as long as a goroutine
  is the only one of its vehicle (`Exclusive`), the lap it read is the open one
  until it closes it (`HoldsOpenLap`), then there is none until it opens the next
  (`HoldsNoOpenLap`), and what it is about to settle is not settled yet
  (`Unsettled`). Failures and crashes are included.
* `AtMostOneOpenLap`, `ChargedOnce`, `LateFinedOnce`, `SettledAfterClose` and
  `FinishedForGood` follow from it.

The premise is the heart of the matter: the code has no such exclusion, and
`lap_overlap` shows what happens without it. Three theorems of the same module say
what is left in that case, with no premise: `ChargedOncePerEvaluation` (a goroutine
charges at most once, so a double charge takes two that close the same lap),
`SettledLapsAreOver` (only a finished lap has a charge or a fine for its time;
that the fined one still reads LATE is lost, since a second close may judge it
anew) and `NeverReopened` (no stale copy puts a finished lap back in progress). Their
invariant `SettleInv` tells goroutines apart by the report they evaluate
(`Numbered`) and says that one whose number is on a charge has only the next lap
left to open (`ChargeBehind`). A lock per vehicle around
`EvaluatePosition` would make these theorems true of the program; an `UPDATE ...
WHERE lap_status = 'IN_PROGRESS'` and a unique index on `lap_charges.lap_id` are
other ways.

`LapRecordsProofs.tla` adds what `lap_serial` checks:

* `LapsFollowOneAnother`: `LapsDisjoint`, if reports arrive in order as well
  (`~Overlap`, `InOrder`), with any number of goroutines, failures and crashes. A
  process may start on any tables that an earlier one left in order
  (`TablesInOrder`). `OrderInv` adds that a lap is in progress exactly while it has
  no end, that a goroutine evaluates the newest report of its vehicle, and that no
  lap ended after a report still to come.
* `OvertakingFinedOnce`, `SpeedingFinesSpaced`, and `StopsFinedOnce` (`InOrder`):
  a fine is not repeated because the lap remembers it, in a column that the fine's
  statement does not write. The engine changes a copy and `UpdateTracking` saves it,
  so the invariant follows the memory from the copy to the row and back. `CopyInv`:
  what a goroutine read is still what the rows say, but for its own changes, and
  these are saved (`dirty`). `OvertakeInv`: who is fined for overtaking is flagged, or
  about to be. `FineInv`: the last fine of each kind is remembered by the lap in
  hand, or by the row of a lap that is not. The premise is `Undisturbed`: one
  goroutine at a time and no failure. Neither half can go. `MarkRival` writes the
  whole copy of another vehicle's lap, which two goroutines of different vehicles
  make stale (`lap_rivals`); and a fine followed by an `UpdateTracking` that fails is
  forgotten (see the hazards).
* `EngineKeepsLedger`: `Spec => KeepsLedger`, the refinement of `LapLedger`, on one
  route, without failures and with one evaluation per vehicle at a time (`OneRoute`),
  for any number of vehicles and goroutines, reports in any order and assignments
  that come and go. `OpenNextLap` is the ledger's `Begin` or `Complete`; every other
  statement leaves the ledger alone. What makes this true is `LedgerInv`: a finished
  lap without a successor belongs to a goroutine that is settling it, so `FindOpenLap`
  finds none only before the first lap (`ReadKeepsLedger`); numbers grow by one
  (`BookInv`), so an entry is never in the book twice; and each goroutine's `Accounts`
  say what it has settled so far: a fine if and only if the lap took too long, a charge
  if and only if the route was priced when it ended.

TLC checked the invariants of these proofs on instances like those of the runs before
they were proved. Model-checked only: `NextLapOpens` (liveness).

## 4. The WebSocket hub

### Model

`Hub.tla` is the hub (`providers/websocket/hub.go`), the two pumps of every
connection (`client.go`) and the handlers that create them
(`realtime_controller.go`).

| Action | Code |
|---|---|
| `Connect` | `ServeWS`, `ServePublicWS` up to the send on `Register`; the profile is what they put in the `Client` |
| `HandleRegister` | `handleRegister`, 103-133, with the limit, after which the handler starts the pumps |
| `ReadFails` | the end of `ReadPump`'s loop: it waits to unregister |
| `HandleUnregister` | `handleUnregister`, 135-160, after which `ReadPump` closes the connection |
| `WriterTakes`, `WriterFails`, `WriterStops` | `WritePump`: a message, a failed write or ping, the closed channel |
| `PeerFails` | the peer closes, vanishes or stalls until a deadline passes |
| `HandleBroadcast` | the `Broadcast` and `TopicBroadcast` cases: `BroadcastGlobal`, `BroadcastTargeted`, `HandleTopicBroadcast` |

A handler is one step. The hub is one goroutine, it holds its mutex for the whole
handler (only `Stats` shares it, and only reads), and every send in a handler has a
`default` branch, so nothing is visible in between except to a pump, which only
takes messages out: a message the pump takes while the handler runs could equally
have been taken before or after it. The channels are unbuffered, so a sender waits
until its request is handled: `reader = "registering"` and `"leaving"` are those
waits. The loops over Go maps, in random order, become sets: who is sent to and who
is dropped does not depend on the order, because the connections are independent
and an admin of the first loop is left out of the second.

A message is its kind, its target users and its vehicle, numbered by the hub;
payloads do not matter. `Send` is a sequence and `closes` counts `close(Send)`: a
second close or a send on a closed channel panics in Go (and `recoverPanic` would
leave the loop half-way); the model lets the step happen and `OpenWhileRegistered`
says that it never would be one. `admins` is kept apart from `clients` as in the
code. Left out: pings and pongs (their effect is `PeerFails` or `WriterFails`), the
batching of queued messages in one frame, `Stats`, and what is in front of the
hub: the throttle of `broadcaster.go` and the Redis subscriber.

`Mailboxes.tla` is the promise: members with a profile, a bounded mailbox each, and
one action that puts a message in the mailboxes of its whole audience, expelling
the members whose mailbox is full. It knows no maps, admins, loops, channels or
goroutines. `Promise` maps the registered connections to members and `Send` to
mailboxes.

### Run

`hub`: two connections, the values 1 for the limit per user (10 in the code), 2 for
the buffer (256) and 3 messages. An admin without a filter and one with, both of one
user, so that the limit bites and an admin is also a target; an owner; a screen;
messages global, targeted with and without vehicle, and of a topic with and without
subscribers. Three messages are one more than fit in a buffer. Connections end and
come again without bound. Three connections with a limit of 2, a buffer of 1 and two
messages (868,764 states up to symmetry) hold too, but liveness is checked only
without symmetry, and the run is kept to a minute.

| Property | Says |
|---|---|
| `OpenWhileRegistered` | no channel is closed twice or used after it is closed |
| `MapsAgree` | clients, admins and topics agree; no empty entry stays |
| `DeliveredInOrder` | no message twice or out of order in a queue, targets who are admins included |
| `KeepsPromise` | the hub implements `Mailboxes`: right audience, limit, drops |
| `DeadLeave` | a connection whose peer is gone leaves the maps, broadcasts or not |
| `DroppedEnd` | a refused or dropped connection's goroutines both return |

Fairness is weak, per goroutine step (`FairSpec`): the scheduler runs a goroutine
that can go on; `pongWait` and `writeWait` end a wait for a peer; `select` picks at
random among ready channels and a channel serves its senders first come first
served, so a waiting register or unregister is served. Nothing is assumed of peers
or of broadcasts. Connections may stay for ever, so deadlock is not an error.

### Proofs

`HubProofs.tla`, for any finite set of connections and any users, topics, vehicles,
profiles, messages, limit and buffer:

* `TypeCorrect`, `NeverSendsOnClosed`, `MapsStayConsistent` from the inductive
  `HubInv`, which adds `RegisteredWhileRead` to the three: a connection is in a map
  only between its register and its `ReadPump`'s unregister, and before that its
  channel is open. `RemoveKeeps` is the common argument of the five places that take
  connections out of the maps.
* `OrderedDelivery`: no queue holds a number above `handled`, so what is appended is
  the largest.
* `HubKeepsPromise`: each action maps to one of `Mailboxes` or leaves its state
  alone. The work is in `BroadcastServes` (each broadcast's loops reach exactly the
  connections the message is meant for; the two loops of `broadcastTargeted` are one
  loop over both sets, `TwoLoops`) and in the limit, which counts one entry of
  `clients` where the promise counts members.

Model-checked only: `DeadLeave` and `DroppedEnd` (liveness).

`MaxMessages` bounds the model for TLC; the proofs hold for every value of it.

## 5. Sessions

### Model

`Sessions.tla` is the life of refresh tokens: `authService.Login`, `RefreshToken`
and `Logout`, the repository that keeps copies in Redis
(`refresh_token_cache_repository.go`) and the one below it on Postgres. Each call to
Postgres or Redis is an action, and any number of requests interleave between them.

| Action | Code (`auth/repository/refresh_token_cache_repository.go` unless noted) |
|---|---|
| `Login`, `CreateRow` | `auth_service.go:360` and the INSERT that hands the token out; no copy is made, as the new token's `User` is not loaded |
| `Refresh`, `LookupCache`, `SelectRow` | `FindByToken`: the copy if there is one, or the row |
| `WarmKey`, `WarmIndex` | `warmCache`: SET, then SADD and EXPIRE NX |
| `ReadOwner`, `DeleteRow`, `EvictKey`, `Unindex` | `DeleteByToken`: whose copy it is, the row, the copy, its name |
| `Logout`, `PurgeRows`, `DropKey`, `DropIndex` | `DeleteByUserID`: names of the copies, rows, copies one by one, the set |
| `RedisFails`, `Abandon` | each error path: ignored, or the end of the request |
| `Expire`, `Sweep` | the TTLs and `DeleteExpired`, once a day |
| `SetAccess` | blocking and disabling, which write no copy |

Tokens are numbers in the order of their generation, which is also the order in
which they expire. A token the client cannot have (a forged or truncated one) is
refused at the first lookup and is left out. `held` says what clients have received
and not used up, `adrift` what failures left behind; both are read by properties
only, `adrift` growing only when a request that had a copy to delete fails.

### Run and properties

`sessions`: one user, two requests, two tokens, one failure anywhere. Two requests
are what a race takes; two tokens give one that is spent and the one it was
exchanged for. Users share nothing but the tables, so one is enough.

`SpentIsRefused`: once the row is gone no copy lets the token in, but while the
request that made the copy is on its way to delete it, or after a failure.
`HeldIsStored`: no request deletes the row of a token that a client still holds.
`StaleCopiesEnd`: a copy that is wrong about the token or the user does not outlive
the token. It needs weak fairness of `Expire`: time passes.

### Proofs

`SessionsProofs.tla`, for any users, requests, tokens and failures: `TypeCorrect`,
`SpentRefused` and `HeldStored`. `SpentIsRefused` is not inductive: that a copy
without a row is harmless depends on what the request that made it will do. The
invariant `IInv` adds `CopiesAnswered` (a copy that lets its token in belongs to a
request that will delete it, or a failure left it) and `AllServe` (the token of a
refresh has been given up by its client, so the row that it deletes is nobody's).
`CopiesAnswered` says nothing of rows: the argument does not depend on the order in
which `DeleteByToken` deletes row and copy. `StaleCopiesEnd` is model-checked only.

## 6. Accounts

### Model

`Accounts.tla` follows one e-mail address: its row in users, the counter of failed
logins and the verification code.

| Action | Code |
|---|---|
| `CheckLimit`, `CheckFails`, `Guess`, `TurnAway`, `RightPassword`, `Count`, `CountFails`, `Clear` | `Login` and its limiter, `auth_service.go:247-405`, which lets everybody in when Redis fails |
| `SignUp`, `CheckEmail`, `Insert` | `Register`, `Signup`, the users' `Create`: `CheckEmail` sees active rows only, the unique index all |
| `Google`, `Link` | `GoogleCallback` |
| `ReadProfile`, `SaveRow` | `Update`, `UpdateMe`, `ResetPassword`: the whole row is read, and written back by GORM's `Updates`, which skips zero fields (`Merged`) |
| `AskCode`, `SetCode`, `MatchCode`, `ReadVerified`, `ForgetCode`, `CodeExpires` | verification of the address |
| `FindUser`, `SetBlock`, `ReadStatus`, `SetStatus` | the administrator's block and enable |
| `Tick` | the counter's TTL, renewed by every failure |

`guesses` and `lost` are ghosts: passwords refused since the counter was last absent,
and what Redis failed to count.

### Run and properties

`accounts`: two requests, a limit of 2 (5 in the code), a window of 2 ticks, one
failure of Redis. `GuessesBounded`: the check and the count are apart, so more
than the limit may be tried, but never more than one for each further request under
way and one for each failure. `LockEnds` (fairness: time passes): a refused attempt
does not renew the TTL, so nobody can keep an address locked by trying on.
`FlagsSurviveSaves`: a profile saved from an old copy takes back neither a
verification nor a Google link, and lifts no block; what saves it is that zero fields are
not written. It does write an old password back over a new one, and enables an
account disabled in between: see the hazards.

### Proofs

`AccountsProofs.tla`, for any finite set of requests and any limit, window and number
of failures: `TypeCorrect`, `BoundedGuesses` and `SurvivingFlags`. `GuessesBounded` is
not inductive: a request that was let in below the limit raises `guesses` later.
`LimiterInv` counts it from the start: the guesses and the requests that may still
guess are together within the bound, and every guess has been counted, is about to be,
or was lost, so a request that still finds the counter below the limit leaves room
for its own guess. `FlagsSurviveSaves` needs `RowInv`: a request that is about to
write the row has seen that there is one, so a row once written is never inserted
again. `LockEnds` is model-checked only.

## 7. The fleet

### Model

`Fleet.tla` has the devices of both servers, installations, the membership of a
group, the owner of a vehicle and the cached owner of a tracker.

| Action | Code |
|---|---|
| `Register`, `FindLocal`, `LookupFails`, `Insert`, `InsertFails`, `Report` | `Create` and `BulkImport` of `dispositivo_service.go` |
| `AskPeer`, `PeerFails`, `PeerUnset` | `peer_checker.go`: an answer, none, no peer configured |
| `PeerMisses` | a lookup that fails on the other server, `device_grpc_handler.go:49-62` |
| `Install`, `CheckDevice`, `CheckVehicle`, `InsertInstall`, `ReadInstall`, `SaveRemoved` | `Create`, `QuickCreate`, `Uninstall` of installations |
| `Assign`, `CheckMember`, `InsertMember`, `RemoveMember` | `AssignDevice`, `RemoveDevice` of groups |
| `ReadVehicle`, `WriteVehicle` | the vehicles' `Update`, owner included |
| `Resolve`, `QueryOwner`, `FillOwner`, `Tick` | `device_owner_cache.go` and its TTL |
| `Abandon` | a statement fails or the client leaves, and the request ends |
| `Crash` | a server goes down with all its requests |

`Invalidate` (`device_owner_cache.go:57`) has no caller, so nothing but the TTL ends a
cached owner. `twice` and `regroup` are ghosts that record what overlapping requests
were working on. The ghost `blind` records the trackers that overlapping requests
registered, and those that a request went on with because it had not been told that
the other server had them.

Registering is lenient with failures. A lookup that fails on the own server is taken
for "not found" (`dispositivo_service.go:55`, `364`) and the request goes on; the
primary key then refuses what is there. A server without `PEER_GRPC_URL` asks nobody
(`Peered` names those that have it). A server that does not answer is not waited for.
And the handler that answers for the other server says `Exists: err == nil`, so when
its own database fails it answers "not registered", which the asking server cannot
tell from the truth and does not even log. The other requests end when a statement
fails.

### Run and properties

`fleet`: two trackers, a vehicle, two owners, two requests at once, four in all, one
failure or crash, a TTL of two ticks, and one server that asks the other while the
other does not ask back, so that both kinds of server are met. Four requests are enough for two that race and two that
build on what they left, such as an import of what another import is storing.

`PeersDisjoint`: the code does not keep a tracker off the second server whatever
happens; the property says by which ways alone it gets there: requests that
overlapped, or one let through while the other server had it, because nobody was
asked, nobody answered or the answer came of a failed lookup. A request that was told
the truth doubles nothing, although other requests, failures here and crashes come
between the answer and the INSERT. `DoublesOverlap`: a tracker in two vehicles, two
trackers in one or a tracker twice in a group take a race; no sequence of requests,
however some end, makes them. `ReportsAreTrue`: the successes
an import reports are rows, though all were counted before the first INSERT.
`OutdatedOwnerEnds` (fairness: time passes): a former owner is shown a tracker no
longer than the TTL, however often it reports.

### Proofs

`FleetProofs.tla`, for any finite set of trackers and any vehicles, users, requests,
failures and TTL: `TypeCorrect`, `RegisteredOnce`, `OnlyRacesDouble` and
`ImportsTellTheTruth`. None of these properties is inductive: whether an INSERT makes
a double depends on a check made earlier. The invariant `IInv` has the same three
parts for registrations (`PeerInv`), installations (`InstallInv`) and the group
(`GroupInv`): there is no double but of what overlapped, no two requests under way
are for the same thing unless that is recorded, and what a request has checked, or was
told, is still so when it writes. A crash is easy: each request keeps its record or
ends. Trackers are finitely many because an import counts its
items. `OutdatedOwnerEnds` is model-checked only.

## 8. Last positions

### Model

`Positions.tla` is what a report leaves: a key and an index entry in Redis, a row in
device_last_positions; the warm-up that `main` starts; the throttle of live updates.

| Action | Code |
|---|---|
| `Report`, `SetKey`, `AddIndex`, `Upsert`, `StoreFails` | `Create` and `updatePositionCache`, `position_repository.go:68-115` |
| `Send`, `Drop`, `Tick` | `BroadcastPosition`, `allowBroadcast`, `broadcaster.go:31-74` |
| `ReadRows`, `CopyRow`, `CopyIndex`, `WarmFails` | the warm-up, `main.go:182-206`, with SETNX |
| `LoseRedis`, `Restart` | Redis without its data; the process ends anywhere and starts with a new warm-up |
| `Shown` | `FindLastPositions`: the indexed copies, or the rows if there are none |

A position is its device time. `split` and `hidden` are ghosts for what faults or
simultaneous reports of one tracker may have left apart or off the index.

### Run and properties

`positions`: a tracker that reports and one that is off, two reports at once, two
times, a window of two ticks, one fault, one restart. The tracker that is off is the
one only the warm-up can bring back.

`CopiesAgree`: the warm-up never puts an old position over a new one, wherever it
is interrupted. `ShownAgain`: as soon as one key is there the table is not asked any
more, which hides every tracker not yet copied; all of them get on the map.
`UpdatesKeepComing`: an update is held back infinitely often only if one is sent
infinitely often. Fairness is weak, of the steps of each report's goroutine, of the
warm-up's and of time (`FairSpec`): they are goroutines whose calls return.

### Proofs

`PositionsProofs.tla`, for any trackers, handlers, windows, failures and restarts:
`TypeCorrect` and `AgreeingCopies`. `CopiesInv` says of each tracker whose copies no
failure and no simultaneous report has parted (`split`) what is true at every point of
its report: while one is being stored, the key has the new time or the old one
according to how far it is; otherwise key and row agree if there is a key, and what
the warm-up still has to copy is what the table holds, so SETNX puts nothing old
there. `ShownAgain` and `UpdatesKeepComing` are model-checked only.

## 9. The history

### Model

`Trips.tla` is `analyzePositions` (`position_service.go:452-691`), a turn of its loop
per step: `Gap`, `DriveOn`, `Pause`, `Stop`, `Start` and `Rest` are its branches, `Finish`
what follows the loop. Times are minutes; a path is the numbers of its positions.
Distances and the names of places are left out; the fastest speed, the sum and the
number of speeds, from which the averages are computed, are kept.

### Run and properties

`trips`: every history of up to five positions with speeds and delays on both sides of
each limit (5 km/h; 1, 3 and 10 minutes). Five are enough for a trip, a stop dated
back over two positions, and what follows it.

`HistoryAsDefined` compares the result with a definition over all positions at once
(`Reference`), which has no loop and no waiting stop. `MovesAreDriven`: a moving
position is in one trip, unless the tracker fell silent right after it.
`EventsInOrder`: no event begins before the one before it has ended.

### Proofs

`TripsProofs.tla`, for any speeds, delays and limits and histories of any length:

* `TypeCorrect` and `OrderedHistory`. The invariant says that what is listed ended
  before the open block began (`EndedBy`), and `TypeOK` that a waiting stop lies
  between that block's beginning and the present. Nothing is assumed of the limits:
  the order does not depend on their relation.
* `DrivenOnce`: `MovesAreDriven`. The invariant `PathInv` follows a position until it
  is listed: the paths listed so far and the open one share no position (`PathsOnce`),
  and a moving position is in one of them unless a gap came right after it
  (`OpenPaths`). A trip of a single position is dropped; that loses no drive,
  as a stop is confirmed only after a pause, and then the trip has two.

* `HistoryFound`: `HistoryAsDefined`. The loop finds a stop after the fact and changes
  its mind about where a trip ended; the definition sees all positions at once.
  The invariant `HistoryInv` joins the two: while positions are read, what is listed
  is just what the definition lists of the blocks that end before the open one
  (`Listed(b)`), and the open block is what the definition calls a stop or a trip so
  far (`Stands`, `Drives`: no stand in it has lasted yet), with the right path,
  fastest speed, sum and number (`Measures`) and, if it waits, since the right position
  (`Waits`). The argument has three parts. Blocks do not overlap (`StopApart`,
  `TripApart`), so a block that ends adds one event and no other
  (`StopListed`, `TripListed`). The definition looks ahead, but never past the open
  block: one more position changes nothing of the blocks before it (the lemmas
  `...Kept`, up to `ListedKept`). And each branch of the loop ends, begins or goes
  on with a block as the definition has it (`GapBlocks` to `FinishDefines`).

  `SumOf` is a recursive function over sets of positions. What it computes is
  proved without induction over an operator: a set of sets for which a claim about it
  fails would have a smallest member (`SmallestSet`, from the well-foundedness of the
  subset order), and that one follows from the set without the position that the
  function takes out first (`SumsAgree`, `SumType`, `SumRemove`).

Nothing in this section is model-checked only.

## 10. Not modelled

| Part | Why |
|---|---|
| Geometry, live view, ETA | floating point; `LapEngine` takes its results as inputs, and none of it changes state |
| Password reset and change | the reset token is a signed JWT that nothing stores, the change one row saved as in `SaveRow` |
| Vehicle-route `Create`, register-micro | an insert under a unique index; a model, a vehicle and an assignment one after the other, with nothing undone when a later one fails. What the lap engine sees of assignments is `Reassign` |
| Fines' `Void` | one unconditional UPDATE |
| Notifications, FCM, live events | best effort; each enters the hub as a message (`HandleBroadcast`). The hop over Redis Pub/Sub may lose any message |
| `rate_limit.go` | a map of counters for sign-ups; its race between clean-up and a request is listed as a hazard |
| Access control | stateless checks of a signed token |
| Device `Update`, `ChangeStatus`; catalogues; routes, geofences, fares, alarm rules, app versions | one row read, changed and written per request; nothing relates two of them but foreign keys |
| `ChangeStatus` of vehicles and groups | builds its UPDATE from an empty `r.db.Statement.Table` (`vehicle_repository.go:50`, `group_repository.go:44`): what it does is between GORM and Postgres |
| Delete of a position | not routed (`routes.go:63`) |
| Dashboard, health, socket log, backup | reads, an append-only table, a call to pg_dump |
| Start-up, migrations, scripts | wiring, and commands run by hand one at a time |
| Generated code | `docs/docs.go` alone is a fifth of all lines; `pkg/pb` is protoc's |

The modelled parts are the services and repositories of the first ten rows of the
inventory. Most of the remaining lines are controllers that bind a request and
format an answer, DTOs and their conversions, and generated code; they hold no
control that a model could get wrong.
