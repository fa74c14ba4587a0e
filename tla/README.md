# BotGate in TLA+

BotGate is a gate in front of web sites: a visitor who cannot show a signed
cookie is sent through a browser verification, is limited, scored and possibly
banned, and only then reaches the upstream. This directory models the gate's
state machines, and those of the administration, the storage and the updates around
it, in TLA+, checks them with TLC on small instances and proves their main
properties with TLAPS for every instance.

Line numbers are those of the modelled commit; `PROJECT.json` maps each definition
to its source lines.

## 1. Inventory

| Part | State | Operations | What is hard |
|---|---|---|---|
| Browser verification (`verification.rs`) | three maps under three mutexes: redirects, routes, challenges; a secret on disk | redirect, start, submit, cookie check | each handler takes the locks one after the other and reads the clock outside them; expiry and purge on three schedules; restarts forget the maps and keep the secret |
| Rate limiter (`security.rs`, `allow_rate`) | buckets per address, host, path and one global | charge | the clock is read before the lock; idle buckets are dropped; the map has no cap |
| Bans (`security.rs`, `storage.rs`, `admin.rs`) | a map in memory, a table in SQLite, a bounded queue and a writer's batch between them | check, ban, lift, load | map and table change in opposite orders for requests and administrators; crash with records in flight |
| Risk engine (`security.rs`) | per address and site: window, paths, 404s, score | observe request, observe response, add, clear | three functions roll one window over; the score is used after the lock is released |
| Request pipeline (`main.rs`, `handle_request`) | none of its own; reads sites, whitelist, license | cookie, ban, rate, risk, verification, upstream | what was read at the start is used after the upstream answered |
| Nginx bridge (`nginx_bridge.rs`) | none of its own | `auth_request` check, challenge, deny page | shares the risk engine and the bans with the pipeline but not its rules for the whitelist |
| Storage writer (`storage.rs`) | request queue (drops), security queue (blocks), batch | send, receive, write, clean up | a rejected answer waits for the queue under the lock of the challenges; a failed batch is dropped; the thread may end before it has begun |
| Site and whitelist management (`admin.rs`) | SQLite tables, runtime copies under two locks | save, toggle, delete, reload | a call edits files, then the table, then copies the table into the map, without a lock from step to step and without rollback of the earlier ones |
| Nginx synchronisation (`nginx.rs`) | an include per site and the operator's vhost that names it | sync, remove, test and reload, restore | two files and a reload: partial failure, a rollback that may fail, a vhost that is written whole from what was read |
| Gateway listener (`gateway.rs`) | running, addresses, shutdown handles | start, stop | a new address at each start, which all includes have to follow; TLS binds in its own task |
| Updater (`updater.rs`, `admin.rs`) | progress, a temporary directory, a script that outlives the process | check, apply, restart | check and set are two lock sections; the script waits for one of two processes |
| License (`license.rs`) | a file | status, activate | checked on every request |
| Configuration (`config.rs`), helpers (`http.rs`, `proxy.rs`) | none | pure functions | boundaries |
| Desktop shell (`desktop/`) | the backend process | start, wait, watch, stop | the port is chosen before it is bound; the backend has to end with the window when that quits, gives up waiting or sees the backend exit, and stays behind when it is killed |

The parts meet in six places. The pipeline and the bridge call the risk engine,
the limiter and the bans; verification calls the risk engine (a failure adds 30
points, a success clears the entry) while it holds the lock of the challenges;
bans and events go through one queue to the writer thread; the administration
changes the files of Nginx, then SQLite, then the runtime copies; a start of the
gateway synchronises all sites with its new address; and an update ends the backend,
which the desktop watches, and leaves a script that waits for the desktop.

What makes each part correct: a token or a challenge is good for one use by whom
it was made for; nobody takes more from a bucket than the elapsed time earned; a
ban lasts as long as it was decided and survives a restart, and a lift lasts
too; points count in their own window and traffic that is verified is not
scored; an unverified request never reaches a protected upstream while
verification is on; an event that was queued is written once or lost with its batch,
and nobody waits for ever; the files of Nginx follow the table and the gateway; one
update runs at a time in a backend, and files are replaced when nothing of the launch that
replaces them runs any more.

The full list of components and of the hazards is in `PROJECT.json`.

## 2. Modules

| Module | Models | Kind |
|---|---|---|
| `OneTimeGrant` | what verification promises: a ticket is offered once, exchanged once, honoured once | abstract specification |
| `Verification` | redirect, start, submit, cookie | component; implements `OneTimeGrant` |
| `VerificationProofs` | | 9 theorems |
| `LeakyBuckets` | what the limiter amounts to: a counter for each key that leaks and is never dropped | abstract specification |
| `RateLimit` | `allow_rate` | component; implements `LeakyBuckets` |
| `RateLimitProofs` | | 5 theorems |
| `Bans` | map, table, queue, writer, administrator, restart | component |
| `BansProofs` | | 4 theorems |
| `Admission` | `handle_request`, the bridge's `check` and the risk engine | composition of the pipeline with the risk engine; limiter and verification appear as choices |
| `AdmissionProofs` | | 5 theorems |
| `EventLog` | what the writer promises: the oldest events of each queue are written together or dropped together | abstract specification |
| `StorageWriter` | both queues, the writer thread, the handlers that wait for it | component; implements `EventLog` |
| `StorageWriterProofs` | | 5 theorems |
| `NginxSync` | `sync_site` for any number of callers | component, with no specification of its own |
| `Sites` | the dashboard's calls on sites, the map, the gateway, the process | composition; EXTENDS `NginxSync` |
| `SitesProofs`, `SiteFilesProofs` | | 2 theorems about types and the map, 4 about the files |
| `Lifecycle` | desktop, backend, update tasks, update scripts | composition of the updater with the shell |
| `LifecycleProofs` | | 6 theorems |
| `MC*` | symmetry sets for the runs | instances |

### Verification

A handler is a record `handlers[h]` whose `pc` says which lock section (or clock
reading) comes next: `mint` → `answer` for a redirect, `start` → `check` → `issue`
→ `insert` for the start endpoint, `submit` for a submission. The values a handler
carries are the local variables of the Rust function at that point, so a value read under
a lock and used after it is exactly as stale as in the code. `redirects`, `routes` and
`challenges` are the three maps; `minted`, `opened`, `guesses`, `redeemed` are
history. A token and the path minted with it are one value, as both are fresh
random bytes. `Restart` empties the maps and keeps the cookies, because the
secret is on disk.

### RateLimit

Time is counted in ticks in which a bucket earns one unit; a request costs `Cost`
units of each of its four keys, so `Cost` is the reciprocal of
`requests_per_second` and `Burst` is the burst in units. `ReadClock` and `Charge`
are the two sides of the lock. `Charge` is the whole locked section: purge, then
refill and charge key by key until one is empty. `taken` counts what a key was
charged, `rewound` by how much its `last_refill` was moved back.

`LeakyBuckets` knows no clock, no stamps and no map. The refinement mapping gives a
key the level `Unearned`: the time its bucket still needs to be full, seen from the
oldest clock reading that can reach the lock. A purge drops only buckets at level 0, a `Tick`
is a leak, a `Charge` pours `Cost` into the keys it charges. `disturbed` is true once a late
locker has moved a bucket back, and throughout if the idle time is not worth a burst.

### Bans

Bans are expiry times, 0 for none. Of the table only the active row of an address
matters. A request is checked (`Check`), or passes unchecked with a valid cookie
(`Pass`). `Ban` changes the map, `RecordBan` and `RecordSecurity` then wait for room in
the queue. The `writer` thread opens the database for itself (`OpenDatabase`); where it
cannot (`CannotOpen`) it is gone until the next start, what is queued goes with it, and each send
fails unnoticed (`BanUnsent`, `EventUnsent`). Otherwise it receives, commits or fails as a
whole. The administrator changes the table and then the map. `decided`, `touched`, `standing`
and `lost` are history: the latest expiry anybody decided, whom an administrator touched, what
the last administrator's decision promises, and the addresses whose latest ban lost a
record: with a failed batch, with an unopened database, or in the queue at a stop, which
nothing drains. `crossed` has the addresses where the last decision met another one in flight.
`BansPersisted` says that those are the only ways to lose one.

### Admission

Arriving is one step up to the scoring, since each lock on the way is taken once
and only expired bans are written. Then come the scoring (`ObserveRequest`), the
decision on the returned score, the ban (`Ban`), the upstream (`Respond`) and the
scoring of its answer (`ObserveResponse`), each interleaved with other requests,
with submissions (`RejectSubmission`, `AddRisk`, `AcceptSubmission`), with an
administrator's edits (`Edit`) and with restarts. The limiter's answer and the
outcome of a submission are free choices here; their rules are in the other modules.

### StorageWriter

A call that works under the lock of the challenges (`SubmitAnswer`, `AcquireChallenges`)
or without it (`BanAddress`) sends its events one by one: `Send` is enabled when there
is room, or at once when the writer is gone. The writer's `pc` follows `writer_loop`:
`opening` (or `gone`), `receive`, `fill` from the security queue, `top` up from the
request logs, `write`, `clean`. `inserted` is what the open transaction holds;
`WriteFails` drops it with the rest of the batch. Events have no content. Probes are
followed one by one from the handler to the row; everything else is `Noise`. `accepted`,
`committed` and `lost` are history. `Restart` may come at any point. To `EventLog`,
queues, batch and the open transaction are all waiting; `Commit` is one `Write`,
`WriteFails` one `Drop`.

### NginxSync and Sites

`sync[w].pc` is the place of a worker in `sync_site`: `read` → `include` → `vhost` →
`test`, then `done` or `restore vhost` → `restore include` → `failed`. `original` and
`previous` are the two files as they were read, and as they are put back. The vhost file is the set
of hosts with a marked block, `includes` the address in each include, and `Valid` is
what `nginx -t` says of marked blocks: each finds its include, no server block has
two. `shared` says whether all hosts match one block (a `default_server`) or each its own.

`calls[w]` is a dashboard call or a start of the gateway: `status` (is there a gateway?)
→ `store` (with `sync_site` before it) → `refresh` (read the whole table) → `publish`
(replace the map); or `load` → `resync` (`sync_site` row by row). Every step may
be followed by one of another worker, by `StopGateway` or by `Crash`; every file, table
and Nginx operation may fail. History: `met` has the hosts on which a call in
flight met another, `excused` those on which something happened that the code does
not undo (a failed write after another, a failed restore, an unreadable row, two calls
at once, a crash between files and table), until a call of its own has synchronised the host
again; `old` and `torn` say that the copy a map was filled from was older than the table.

### Lifecycle

`desktop[l]` and `backend[l]` are the two processes of launch `l`, `version[l]` what they
are of and `status[l]` the progress in the backend's memory. `task[t]` is an update in the
backend of launch `at[t]` (`asked` is between the check of the progress and its setting),
`script[t]` the script it leaves. What is in memory ends with its process (`BackendDies`).
Launches run side by side: nothing in the code keeps the second from it, since
`bind_listener` and `available_port` take another port where theirs is taken; only macOS brings
a running application to the front instead (`AlreadyShown`). A window may be killed
(`DesktopDies`) or its setup may fail after the backend has answered (`SetupFails`);
`stop_backend` is called by the tray and at the end of the event loop only
(desktop/src/main.rs:115, 313), so both leave the backend running, and `orphaned` has those
launches. `Ask` and `Accept` are the two lock sections of `admin_update_apply`; `raced` has the
launches where two requests were between them at once, until an update that is asked for after
those have ended. `FindRelease` may give two updates of one millisecond one directory, and
`overwritten` has the updates over whose package another saved a bad one. `Replace` is the first
destructive command of a script and `Finish` the last, with the relaunch; between
them the application is in `pieces` on Linux and macOS. The three platforms
differ in what a script waits for, in the timeout and in what a failure restores.

## 3. Runs

Every configuration has `CHECK_DEADLOCK FALSE`: clocks and fresh names are bounded,
so a behaviour ends where its bounds do (and a backend nobody asks anything is idle).

| Run | Configuration | Shows |
|---|---|---|
| `verification_races` | `MCVerification.cfg` | one visitor, two handlers, two tokens, two ids: guesses bounded, pending paths routed, answers find their redirect, refinement of `OneTimeGrant` (one challenge per token, one cookie per challenge) |
| `verification_limits` | `MCVerificationLimits.cfg` | two visitors, two handlers, one attempt, room for one redirect and one challenge, delays as long as a lifetime: accepted cookies are the visitor's own, routes stay bounded |
| `rate_limit` | `MCRateLimit.cfg` | two handlers, two addresses, hosts and paths: the token bucket law, global bucket first, bounded map, refinement of `LeakyBuckets` |
| `bans` | `MCBans.cfg` | two requests, two administrators, the writer: terms respected, bans persisted unless a record is lost, an administrator's decision kept unless it met another in flight |
| `bans_lift` | `MCBansLift.cfg` | counterexample: a lifted ban comes back |
| `bans_term` | `MCBansTerm.cfg` | counterexample: an administrator's ban is shortened |
| `admission` | `MCAdmission.cfg` | one address, two requests, two paths: points recent, no 404 counted while verifying, path diversity scored on arrival |
| `admission_binding` | `MCAdmissionBinding.cfg` | two addresses, one risk entry: only one's own cookie opens the way |
| `admission_diversity` | `MCAdmissionDiversity.cfg` | counterexample: path diversity not scored |
| `storage_writer` | `MCStorageWriter.cfg` | two handlers, queues of one, batches of two: every wait ends at the writer, every call returns, every security event settles, refinement of `EventLog` (rows in order, none doubled or forgotten, batches whole) |
| `sites` | `MCSites.cfg` | two workers, two sites, two addresses, one stop or crash: files follow the table and the gateway and stay valid, the map follows the table, a start puts everything right |
| `lifecycle` | `MCLifecycle.cfg` | two updates, two launches after or beside each other, one death of a backend or a window, three platforms: one update at a time, quiet and verified installs, no orphan but of a window that died, no script waits in vain, updates and scripts end |

**Bounds.** `MaxClock` ends a run, `MaxStall` is how long a handler that is running (not
waiting for the network) may be delayed between two steps, `MaxBlock` how long a request
waits for the queue. They are chosen so that everything that depends on time happens
within a run: with `TTL = 2` and `MaxClock = 4` a redirect expires, is purged, and its
route outlives it; with `IdleTTL = 3` and `MaxClock = 3` a bucket is dropped and comes
back; with `Duration = 2`, `Term = {1}` and `MaxClock = 3` a ban is replaced by a longer
and by a shorter one while its record waits; with `Window = 2` and `MaxClock = 2` the
window rolls over under a request. Two handlers suffice for the races, which are all
between two lock sections; two tokens, ids, addresses or sites let one be mistaken for
another. `MaxStall + Burst = IdleTTL` in `rate_limit` is the border of
`EvictionHarmless`: a purge one tick earlier violates `ImplementsLeaky`. The caps are
small enough to be hit: in `verification_limits` there is room for one redirect and one
challenge, and two handlers compete for it; there is one site, and that a cookie is
bound to its site rests on the theorem `CookiesAreSound`. Two properties
(`RoutedWhilePending`, `AnswerFindsRedirect`) are stated for `Prompt == MaxStall < TTL`:
a handler between two locks has no await, and the shortest sensible `challenge_ttl_secs`
is far above a scheduling delay.

`MaxSends` is 1 in `storage_writer`: a call that sends two events blocks twice in the
same way. Its request logs are all `Noise`, so there `ImplementsLog`
follows security events; the theorems `EventsAreKept`, `EventsAreInOrder` and `WriterImplementsLog`
cover probes in both queues. `MaxCalls` and
`MaxStops` are 2 and 1 in `sites`: two calls in flight are what the code's missing locks
are about, and a crash followed by the boot that has to put things right
uses all three. Two sites are the least that share a vhost; two
addresses let one be the wrong one. In `lifecycle` two updates race in one backend or run in
two, which share the files; the second launch is by hand, beside or after the first, or by the
first one's script. What a third adds is one more of either.

**Fairness.** `StorageWriter` assumes weak fairness of the writer thread, which no lock
and no queue blocks for ever (it waits at most a second for an event), and of a
handler's return; and strong fairness of `Send` and `AcquireChallenges`, since channel
and mutex wake a waiting thread each time there is room or the lock is free, and
although another may be faster, none starves for ever. `Restart` needs no fairness.
`Lifecycle` assumes weak fairness of the backend's start, of the desktop's threads and
of each task and script. That a download ends is an assumption about the servers: the
client of `updater.rs` sets no timeout, so that a stalled download would keep the status
active, and further updates refused, for as long as it lasts. The other specifications
state none, for what they promise does not depend on progress.

**Mutants.** Each property of a passing run has a mutant of the code (marked in the
modules) that violates it; the mutants are never used by a specification.

## 4. What the counterexamples say

* `LiftedStaysLifted`: a request bans an address (map, then queue); the
  administrator lifts the ban (table, then map); only then does the writer commit the
  queued record. The row is active again and the next start loads it.
* `AdminTermStands`: a request passes the ban check; the administrator bans the address
  for longer than `duration_secs`; the request reaches the threshold and `ban()`
  overwrites the entry with the shorter term, and later the row as well.
  Both are cases of a decision that meets another in flight. `EditsStand` says, and is proved to say
  for every instance, that there are no others: unless at the time of the decision a record of
  the address is on its way or another administrator's call is between table and map, or a
  request that was let in before overrides it later, map and table say what was decided, also after
  restarts.
* `DiversityIsScored`: `observe_response` inserts a path without looking at the number
  of paths, and `observe_request` compares it with `==`. After a rollover a late
  404 inserts a path that a request did not count, and the count steps over the limit
  without the points. With verification on this cannot happen
  (`DiversityScoredOnArrival`), because no response is scored then.

Some observations are not runs. The text of docs/SECURITY.md:31 names SHA-256 for the proof of work;
`verify_pow` uses 32-bit FNV-1a. And `GlobalDominates` shows that the address, host and
path buckets, having the same rate and burst as the global one that is charged
first, practically never refuse a request. Dropping idle buckets is invisible exactly if
300 seconds are worth a burst and the delay before the lock; `validate_config` does not require it,
and with a slower rate a client gains by pausing. `RoutesBounded` needs `Timely`: a redirect
made with a clock reading older than a lifetime is purged at once and leaves its route, which
nothing counts. Two calls may refresh the map
at once (`refresh_managed_runtime`, admin.rs:841): the first reads the table, the second
stores its row, reads, publishes and is answered; then the first publishes its older copy. The
second change is in the table and not in the map until the next call or start, although
README.md:144 says that changes are applied immediately; `torn` excludes the case from
`RuntimeAgrees`. A gateway that is stopped while it is being
started is resynchronised all the same, and the call answers that it started: the includes then
name an address nobody listens on. Two requests for an update that both pass the check before
either sets the progress (admin.rs:291) are both accepted; `OneUpdate` says that this is the only
way to two updates in one backend. Two updates of one millisecond share a temporary
directory, and the checksum is compared with the package in memory, not with the saved file:
a verified update over whose file the other saved a bad package installs that.
`OnlyVerified` says that nothing unverified is installed in any other way. A script that fails on
Linux after its first copy leaves the application in pieces, without a way back. If the
window or the tray cannot be made, or the window is killed, the desktop ends without ending the
backend (desktop/src/main.rs:101; `orphaned`): a dropped handle does not end the
process. A script on macOS or Windows looks only for the desktop, so that if the window
dies within the 1.5 seconds before the scheduled exit (updater.rs:557), files are replaced
while the backend still runs. `InstallQuiet` says that this, until that exit, is the only case.

## 5. Proofs

The proofs of Verification, RateLimit, Bans and Admission assume only the
`ConfigAssumption` of their module (what `validate_config` and the source's constants
guarantee). The others assume that queues and batches have room for an event and that
probes, noise and owners differ (`WriterAssumptions`), that `None` is no address
(`NginxAssumptions`), and that the bounds are numbers (`SitesAssumptions`,
`LifecycleAssumptions`).

* **Verification.** `TokenInv` ties each handler to the redirect it came from: a token
  is minted before it appears anywhere, a handler in `check` to `insert` with an unused copy
  is the only one for its token, and the token's redirect, if it is still there, is marked
  used; hence one challenge per token. `ChallengeInv` ties guesses and redeemed to the
  attempts of the live challenge, and each cookie to a solved challenge and its minted
  redirect. `RouteInv` relates the three expiries and the clock a handler carries: a route outlives
  redirect and challenge by enough for a handler stalled less than `TTL`; it holds, and
  is needed, only if `Prompt`. From these
  follow the safety theorems and, action by action, the refinement of `OneTimeGrant`.
  `RoutesBounded` is a counting argument. A route whose redirect is still there is one of at most
  `MaxActive`. For the others, `RoomInv` counts for every reading `x` a later purge may use
  the paths that purge would leave without a redirect (`Crowd(x)`): they held the slots of the
  redirects at one time, if `Timely`, so they too are at most `MaxActive`.
* **RateLimit.** `ClockInv` bounds what a handler carries by the clock, `CreditInv` is
  the potential argument (taken + tokens left ≤ burst + time until `last_refill` +
  rewound), and `DominanceInv` compares each bucket with the global one. `PaceInv`
  counts the requests that the global bucket let through since a moment, which gives at
  most three keys for each and so `BucketsBounded`. For the refinement of
  `LeakyBuckets`, `KeysInv` says what a handler carries, and one lemma each says that a
  dropped bucket is full for every reading still to come, that what a bucket holds is
  what its level says, that a charge pours and that a tick leaks.
* **Bans.** `TermInv` bounds each copy of an expiry (map, table, queue, batch, handlers,
  administrators) by `decided`; `BlockInv` bounds how late a blocked request's record
  is. `PersistInv` relates an address to `decided`: the last of the copies of its ban
  (handler, queue, batch, table, in that order) reaches what was decided but for the time
  a request was blocked (`OnItsWay`), and so does the map (`InForce`), unless one was
  lost. `EditInv` says that an administrator's decision is the table's row at once, that no
  record which could replace it is on its way, and that whoever has still to change the map
  will make it the same.
* **Admission.** One invariant carries all five theorems. `EntryInv` says of an entry of
  the risk map that its window began no later than its oldest points (`scored`) and that it
  was last seen inside the window, and, while verification is on, that it counts no 404 and
  that too many distinct paths come with their points. `HandlerInv` says what a
  request in flight was let in for: while verification is on none is to be counted, and a
  protected one has a cookie of its site and address. The switch of verification only
  happens in a restart, which empties both.
* **StorageWriter.** `OnceInv`: queues, batch, transaction, rows, losses and what
  handlers have yet to send are pairwise disjoint and hold no probe twice, and an
  accepted probe is in one of them. It needs that a new probe is one nobody has seen,
  which is why the handlers' own lists are part of it. `OrderInv` adds that rows,
  transaction, batch and queue are, lane by lane, one line in the order of acceptance,
  in which places are compared first and positions only within one place. With `SizeInv`
  (batch and transaction together are at most one batch) each step is one of `EventLog`:
  what `Commit` writes and `WriteFails` drops is the oldest of each lane. `LockInv` says
  that the lock of the challenges is held by a handler that sends, by no other, and
  gives `WaitsEndAtWriter`, the safety half of `CallsReturn`.
* **Sites, map.** `MapInv`: every copy of the table in flight that is not in `old` is the
  table; nothing runs while the process is down; the map is the table unless a call is
  between its write and its copy or the map is `torn`.
* **Sites, files.** `FilesInv` is what `sync_site` relies on without a lock. For each
  worker: what `sync_site` was called with fits the call (`Coupled`); callers of one
  host, and two that write files at once, know each other (`Met`); what a call has read
  of the other hosts in the vhost is still there (`Kept`), since writing the whole file
  would undo their edits otherwise; how far it is with its own host (`Phase`); what it
  would put back agrees with the table (`Before`); the row it read is still there
  (`Row`); what a start has synchronised is right (`Healed`); its address is the
  gateway's (`Listen`). For each host that is not excused: files agree with the table or
  are ahead of it (`Agreed`), its include has the gateway's address (`Addressed`). And
  the files are valid, also as they would be put back (`Validity`). The four theorems
  follow from it; `StartsPutRight` is an action property.
* **Lifecycle.** `WindowInv` says for each launch that backend and window end together
  unless it is `orphaned`, and that a closing window has killed its backend. `LifeInv` says that
  processes belong to launches that have been, that a task under way has a live
  backend, and that an update with a script does nothing but end its backend (`Dying`);
  `ScriptsAwaitTheDying`, the safety half of `ScriptsEnd`, is its consequence.
  `QuietInv` says that the process of a script that has stopped waiting is gone, for a new launch is
  none that a script has waited for; with `WindowInv` and `LifeInv` that gives `InstallQuiet`.
  `SingleInv` counts, backend by backend (`Alone`), the requests between check and set with
  the updates under way, of which together there is one unless the launch is in
  `raced`. `PackageInv` follows a package from the checksum to the directory a script installs
  from: it is `Kept` there unless the update is in `overwritten`.

Theorems are listed in `PROJECT.json`. Only model-checked are the liveness properties
`CallsReturn`, `EventsSettle`, `UpdatesEnd` and `ScriptsEnd`. Four theorems state on the
way to a refinement what it implies, `OneChallengePerRedirect` and
`OneCookiePerChallenge` of `ImplementsGrant`, `EachEventOnce` and `InOrder` of
`ImplementsLog`; no run checks them on their own. Out of the prover's reach and left to
TLC: liveness under fairness, `ENABLED`, and induction over recursive data.

## 6. Plan

Done: Verification with `OneTimeGrant`, RateLimit with `LeakyBuckets`, Bans, Admission,
StorageWriter with `EventLog`, NginxSync with Sites, and Lifecycle, with the proofs
above. Left, in this order:

1. The whitelist's save and delete and `save_nginx` in `Sites`: one row and a refresh, the
   latter with a resync under another binary.
2. The TLS listener of the gateway, which binds in a task nobody waits for.
3. An abstract specification of `sync_site` as a transaction on two files, for callers that do not
   meet, and of an update as a lock with a lease, each with its refinement proved.
4. The pure functions of `config.rs` (validation, host names) and `http.rs` (client address,
   kinds of requests) as operators against reference definitions over small inputs.

## 7. Abstractions and what is not modelled

* Sites: `nginx.enabled` is on throughout. The gateway listens on an ephemeral port, as
  the default configuration has it. All sites are in one vhost file. A file is written
  as a whole or not at all; a write that is cut off in the middle is not modelled. A
  resync takes the rows in any order (the code: by host). A refresh also copies the
  whitelist, which is not modelled here. Finding and calling the Nginx binary (`detect`,
  `resolve_config`) is left out.
  `ReadFiles` reads the vhost and the include in one step. The code reads them one after the
  other, and between the two only a call for the same host could change the include; two such
  calls have met, and their host is excused.
* Lifecycle: versions are old and new; network and disk are choices to fail. Process ids are
  not used again. Files are shared by all launches, and those of another launch may run while
  an update replaces them, which no property speaks of. Paths, icons, the
  migration of an old configuration and the tray are left out.
* Storage: rows have no content and dashboard queries only read. What a ban record does to its
  row is in Bans.
* License: a choice at the start of the gateway. Its check at every request ends the request.
* Configuration and HTTP helpers keep no state; page rendering and proxying of bodies
  and headers, TLS, the challenge page and the dashboard, packaging: input and output
  without shared state.
* Poisoned mutexes (a panic under a lock) and clocks that run backwards are not modelled. The
  wall clock and the monotonic clock are one clock.
