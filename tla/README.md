# A verification of relaydock-agent

TLA+ modules that model the core of the agent, the TLC configurations that check them on small
instances, and theorems about them that TLAPS proves. Source references are to the repository
(`fence.go` stands for `src/internal/handler/inbound_mutation_fence.go`, `mh.go` for
`management_handler.go`, `sync.go` for `inbound_firewall_sync.go`, `client.go` for
`src/internal/agent/client.go`, `main.go` for `src/cmd/relaydock-agent/main.go`, `limiter.go` and
`persistent.go` for those of `src/internal/limiter/`, `linespeed.go` for `src/internal/linespeed/service.go`,
`uninstall.go` for `src/internal/handler/agent_uninstall_v2.go`, `warp.go` for `src/internal/warp/service.go`).

    tlc -workers 2 -config MCFenceExternal.cfg MCInboundFence    # any run of PROJECT.json
    tlapm InboundFenceProofs.tla                                 # any other *Proofs module likewise

## 1. The system

The agent runs beside an Xray core on a server and does what a master (control plane) asks of it,
over a WebSocket it opens, or over HTTP when that is down. Its parts:

| Component | State it keeps | Operations | What is hard | What makes it correct |
|---|---|---|---|---|
| Inbound mutation fence (`fence.go`) | fence sidecar (owners, cancelled ids, at most one pending add per tag) on disk and in memory, recovery-ready flag | reserve, commit, cancel, complete, release, recover, converge, resolve | crash between any two files; a write that is applied but not synced; late and repeated requests; recovery blocked | a cancelled mutation never owns; ownership follows the durable configuration; memory is the file; recovery can always decide |
| Inbound operations (`mh.go`, `sync.go`) | Xray configuration, firewall rules, runtime inbounds | add, remove, client edit, sniffing edit, save, list, and their roll-backs | four resources changed one after another, each may fail, each roll-back too | an acknowledged add is served; an acknowledged remove stays removed |
| Authorization (`mh.go:418-735`) | `xrayAuthorized`, persisted with the agent config | grant, deny | edits, roll-backs and restarts while suspended | nothing suspended is served; a grant applies what was deferred |
| Xray life-cycle (`mh.go:303-416`, `embedded/xray.go`) | core up or down | start, restart, stop; boot sequence | dies or is restarted by somebody else between two steps | a stopped core is not started by anything but a start |
| Certificate deployment (`cert_deploy_atomic.go`, `mh.go:6168`, `client.go:2078`) | two files, what nginx and Xray have loaded | HTTP deployment with roll-back, WebSocket deployment | two entry points, two renames, reloads that fail | certificate and key match; success means loaded |
| Listen gate (`main.go:600-697`) | listener, timer, stopped | hide when the WebSocket is up, reopen when it drops | timer call-backs against hooks | reachable while the WebSocket is down |
| Connection to the master (`client.go:440-1300`) | connection, mode, attempts, auth failures | WebSocket, HTTP, pull and automatic modes, back-off | reconnect signals, probes, Stop during a dial | always tries again, never without a delay |
| Message handlers (`client.go:1900-2757`, `ws_rpc.go`) | queue of pending pushes, agent config file | one goroutine per message | read-modify-write of one file; full queue | no lost update |
| Secure channel (`securechan.go`, `session_cache.go`, `crypto_middleware.go`, `client.go:1525`) | session of either side, sequence counters, 64-wide replay window | key exchange, encrypt, decrypt, expire | window edges, window moved before authentication, late and repeated requests, key exchanges that cross | no encrypted request is carried out twice; its answer can be opened |
| Limiter, dispatcher, monitor (`limiter.go`, `default.go`, `embedded/monitor.go`) | policies, buckets, connection counts, online users, automatic limits | acquire, release, bucket of a connection, delivery, report, limit and restore | no lock: loads and stores of concurrent maps by four kinds of goroutine | the count is the number of connections; a limited user keeps its bucket |
| Limiter snapshot (`persistent.go`) | snapshot file, required marker | deliver, delete, check, start, with their restores | two files with failing writes, kills and power loss, beside configuration and core | an inbound with peers is served only while the limiter tells them apart |
| Line speed test (`linespeed.go`) | binary, consent marker, home, temporaries | install, remove, run | kills and power loss between files, somebody else at the directory, a child that does not end | only the pinned binary runs, and only while consent stands |
| Uninstall (`uninstall.go`) | staged script, lock, recovery directories, the host | dispatch, the whole detached script, its callback | two removals at once, time limit, reboot, retry, a failure of any statement | success means gone; failure means there or recoverable |
| WARP (`warp.go`, `warp_handler.go`) | `warp.json`, state in memory, outbounds | install, licence, remove | requests that meet, steps that fail | the file outlives the account it describes |
| Self-update, nginx reuse, take-over, batch application | files of their own | run, switch, merge | interrupted half-way | section 6 |

**How they interact.** Every operation that touches inbounds, the core or the authorization holds
`inboundsMu` from its first to its last step. Certificate deployment holds `certDeployMu`, and
`inboundsMu` as well when it may restart Xray; the WebSocket's deployment holds neither. The WebSocket
client calls the listen gate's hooks. The limiter snapshot has a lock of its own, which a start of the core
and a change of a WireGuard inbound take after `inboundsMu`. The uninstall script runs outside the agent,
which it stops; the agent's WARP requests go on until then. `main` orders the boot: fence file, embedded core,
recovery,
authorization, listener, client.

`PROJECT.json` lists every component with its status, and the hazards of the code at their lines.

## 2. Modules

| Module | What it is |
|---|---|
| `MutationLedger` | The abstract specification: which mutation owns a tag, which are cancelled, and what a power loss may forget. |
| `InboundFence` | The fence, the inbound operations, authorization, the core's life, crash and boot. |
| `InboundFenceProps` | Its properties, the inductive strengthening, and the refinement of `MutationLedger`. |
| `InboundFenceProofs` | Theorems about the fence file. |
| `InboundConfigProofs` | Theorems that relate it to the configuration; extends `InboundFenceProofs`. |
| `MCInboundFence` | Payload assignments for TLC: distinct definitions, or the same for all. |
| `ListenGate` | The listen gate with the part of the WebSocket client that drives it. |
| `ReplayWindow` | `replayWindow.Check` as operators, with a reference that remembers every number. |
| `SecureChannel`, `MCSecureChannel` | Requests over HTTP between a requester and a server with their sessions; symmetry for TLC. |
| `SecureChannelProofs` | Theorems about both. |
| `CertDeploy`, `MCCertDeploy` | Certificate deployment with the strengthening of its properties; symmetry for TLC. |
| `CertDeployProofs` | Theorems about it. |
| `Connection`, `MCConnection` | The goroutine that reaches the master, composed with `ListenGate`, which it extends. |
| `Limiter`, `MCLimiter` | Connections, buckets, deliveries, reports and automatic limits of one inbound. |
| `LimiterProofs` | Theorems about it. |
| `LimiterSnapshot`, `MCLimiterSnapshot` | The limiter state on disk with the WireGuard inbounds that depend on it, and the strengthening of its properties. |
| `LimiterSnapshotProofs` | Theorems about it. |
| `LineSpeed`, `MCLineSpeed` | Installation, removal and run of the speed test, and the strengthening of its properties. |
| `LineSpeedProofs` | Theorems about it. |
| `Warp` | The WARP account and the requests that change it. |
| `Uninstall`, `MCUninstall` | The removal of the agent, composed with `Warp`, which it extends. |
| `UninstallProofs` | Theorems about both. |

### 2.1 InboundFence: state and code

* `sidecar`, `config` are the files as the file system shows them; `sidecarSynced`, `configSynced` what a
  power loss falls back to at worst. `fences` is `h.inboundMutationFences`. A write has three outcomes:
  `ok`; `lost` (error, old file in place); `unsynced` (error after the rename: the code's
  `inboundMutationFenceDurabilityError`). Saves and client edits are written without a sync
  (`WriteConfigUnsynced`).
* `job` is the one handler that holds `inboundsMu`: its step, its request, and its locals (`prev`, the
  configuration snapshot; `saved`, the fence entry before the reservation; `restored`, `uncertain`, what
  became of a roll-back). Each file write, runtime call and firewall run is one action, so a crash, the
  death of a service core, or its restart by its supervisor falls between any two.
* `runtime` is what the core serves. A call that fails may have had any part of its effect; a core that is
  down fails every call. An embedded core is started without the suspended tags; a service loads its file.
* An inbound is `[by, body]`: the code sees only the digest `body`; `by` remembers who wrote it, so that
  properties can tell two equal definitions apart.
* `seen` is the inventory last read by the master; a conditional add expects what it says. `added`,
  `removed`, `deferred` record acknowledgements and edits kept from the runtime; no guard reads them.

Abstractions: one configuration path (the mode switch that changes it is out of scope); a fence entry
exists iff it is not empty; the tag `api`, tag promotion and deduplication are left out; the WireGuard
limiter checks are failures of the step that makes them; `embeddedXray == nil` is a core that is down;
the merge of legacy sidecars is left out; an `os.WriteFile` that a crash or a full disk cuts off in the
middle is left out, so a save in place that fails (`mh.go:1461`) leaves the old file; a runtime call that is
executed after its error was reported is left out; persisting the authorization
succeeds.

### 2.2 ListenGate

The hooks hold `g.mu` to their end, so each is one action. A timer that has fired waits for that mutex:
`Fire` and `Close` are two actions and `Stop` of the timer reaches it only before `Fire`. `bindFailed`
is a reopening that gave up after its five attempts; `lateFire` marks a drop that came too late for a
timer. A dial in progress may still authenticate after shutdown began. The module leaves the moments of
dial, authentication and drop open; `Connection` decides them.

### 2.3 CertDeploy

`cert` and `key` hold the name of the deployment that wrote them, or `torn`. `LockDeploys` and
`LockInbounds` are the two mutexes in their order; `Stage` is the part that changes nothing; then the two
renames, the reloads, and the undo (the same pair transaction the other way round). nginx's refusal of a
pair that does not match is external behaviour. `gaveUp` is set when putting the certificate back itself
failed, which the code reports and nothing can repair.

### 2.4 ReplayWindow and SecureChannel

* A bitmap is the set of its bits, its width `windowSize` a constant. `Fresh` is the answer of `Check`,
  `Slide` what it leaves behind; `Late`, `FreshForEver` and `Exact` are the reference.
* `httpSession` is `c.httpSession`, `cache` the entry of the one token that is used and not expired,
  `sendSeq` and `recvWindow` the two counters and windows of each session (the code has one `Session`
  object at each end). `passed` remembers every number `Check` let through; no guard reads it.
* An exchange is one delivery of a request, and its handler's step: `sent`, `decrypt` (the session is
  chosen, the message not yet opened), `serve`, `replied`, `received`. `payload` names what its caller wants
  carried out. A key exchange has it with it, in the clear (`client.go:1600`): `HandleKeyExchange` sets the
  session and `ServePlain` hands the payload to the handler (`crypto_middleware.go:75`), on every delivery
  and past no window. The key exchange that follows a refusal with 412 carries the payload of the refused
  request (`ReceiveExpired`). So any number of handlers stand
  between `cache.Get` and `Decrypt`, or between `Decrypt` and `flush`, while sessions come and go. A
  request that stays at `sent` is lost; one whose caller has gone (`GiveUp`) is late; `Duplicate` delivers
  it twice. `Check` holds `recvMu` and is one step.
* A message can be opened with the session it was sealed with and no other; that is all that is taken from
  AES-GCM, X25519 and Ed25519. A session is the pair of ends of one key exchange.
* The agent is the requester towards the master (`doEncryptedHTTP`) and the server of the master's pulls
  (`CryptoMiddleware`). The module lets the one talk to the other, that is, takes the master for the mirror
  image of the agent. The agent's own reports go out one at a time (`Callers` of one); the master's pulls
  are concurrent.

Abstractions: the session of the WebSocket, unencrypted requests, bodies that are empty, malformed key
exchanges, and handlers that answer with an error status are left out; the 64-bit sequence number does
not wrap; reading the session and drawing a number from it are one step of the requester (a session
replaced in between is as if the request had been sent just before).

### 2.5 Connection

`loop` is the loop the goroutine of `Client.Start` is in (`runWebSocket`, `runAutoModeLoop`,
`runHTTPReporterLoop`), `at` its place there. `master` is what the master answers to at the moment; it
changes at any time. `failures`, `refusals` and `errors` are the three counters, `current` the mode that
`/health` shows, `signal` the reconnect channel of one. `Stop` may come at any time. Each session goes
through the actions of `ListenGate`, so the hooks, the timers and the loop interleave. Durations are left
out: a back-off ends by its timer (`Expire`) or by a signal (`Woken`), the probe of the HTTP reporter is
`Upgrade`. Pull mode has no loop.

### 2.6 Limiter

One inbound. `policy` is `InboundInfo`, stored as a whole; `hub` the buckets by email, a bucket known by the
kind of its rate; `conn` the connections with what each has read so far (`seen`), whether it holds a unit,
and its bucket, the one in the hub or one that was taken from there (`Orphaned`). Each load, store, add and
comparison of the code is an action, since nothing locks them together: `Lookup`, `Count`, `Undo`, `Record`,
`GetBucket` of a connection; `SyncStore`, `SyncBucket` of a delivery; `ReportStart`, `ReportLook`,
`ReportDelete`, `ReportClear` of the report; `SpeedMark`, `SpeedWrite`, `SpeedStore` of `SetUserSpeed`,
which the monitor and its timers call. When a rule of the monitor fires is left to chance.

### 2.7 LimiterSnapshot

`disk` is the pair of files, `durable` what a power loss falls back to; a write has the outcomes `ok`,
`failed` and `unsynced`. `op` holds the lock of the snapshots, `change` holds `inboundsMu`: two processes
that meet in `Check`, where an inbound is admitted only if the snapshot maps its peers. `half` and `doubtful`
mark the tags of writes that failed after their rename: what is promised for the others is exact.

### 2.8 LineSpeed

A file is `pinned` or `other` by its digest. `disk`, `maybe` and `temps` are the directory, what a power loss
can make of each entry, and the temporaries; `op` is the one operation that holds `operationMu`, `child` the
process it waits for, with the binary it was started from. Somebody else may change the directory at any
time (`Meddle`), which `foreign` records. A removal verifies the binary a second time before it unlinks it
(`Recheck`). A helper that outlives the CLI holds its output open (`held`).

### 2.9 Warp and Uninstall

The host is the set of parts that an installation consists of. `run[r]` has the variables of the script of
one dispatch; one action per statement that can fail or change something, from `Load` to `Clean`, then
`finish_runner` as `Finish`, `RestoreFiles`, `CopyFiles`, `RestoreBridge`, `Restart`, `Post`, `Clean`. The
undo takes its paths one after the other and removes what is in place before it copies (`RestoreFiles`, then
`CopyFiles`; `uninstall.go:377-379`), also what the script had not touched yet; under a supervisor
`/etc/rc.local`, the part `boot`, is one of the paths, a service manager is told to start the agent again
instead. A statement that
fails, a reboot and a retry by hand are `Mishap`s, bounded by `MaxMishaps`. `Interrupt` is the TERM of
`timeout` after 300 seconds, `KillRunner` its KILL 60 seconds later; both can come at any step. TERM ends
the script as a failure, whatever it had achieved, until `finish_runner` has begun to ignore it
(`uninstall.go:188`). `Reboot`
empties the runtime directory, the backup of the nginx loaders included, and starts what is still installed.
`token` is what the panel recorded for the credential of a dispatch. `saved` and `run[r].backup` are the
recovery directories left behind and in use; `committed` and `spoiled` are history. The agent's WARP
requests are the steps of `Warp`; they stop when the agent does (`Ends`).

Abstractions: what nginx validates; the marks by which the script recognises its own processes, rules and
boot entries; wording of the answers; the running core's WARP outbounds, which follow the file.

## 3. Runs

Bounds: `MaxRequests` counts adds, removes, edits, saves, inventories, authorization changes and stops;
`MaxFaults` the failing writes and calls; `MaxCrashes` the crashes and core deaths. Two mutations of one
tag are the smallest instance in which one can overtake, supersede or replace the other, three
definitions are two payloads and one foreign one, and four requests allow add, add, remove and a repeat
of any; two faults let a step and its roll-back fail; each property's mutant is caught within these
bounds. A second tag matters only where tags interact, in the single reservation of the whole agent:
`MCFencePowerLoss` has two.

| Run | Bounds | Shows |
|---|---|---|
| `MCFenceExternal` | 4 requests, 2 faults, 1 crash | service core: fence coherence, resolvability, removed stays removed, an acknowledged add is served |
| `MCFencePowerLoss` | 3, 1, 1 with power loss, two tags | an acknowledged add is durable; one pending mutation on the whole agent; refinement of `MutationLedger` |
| `MCFenceEmbedded` | 4, 2, 1 | embedded core with authorization, starts, stops, edits, inventories: nothing removed or suspended is served; ownership follows the runtime; a conditional replacement replaces what was read. Deadlock checked |
| `MCFenceRecovers` | 3, 1, 1, equal payloads, fairness | no mutation stays pending for ever, not even when digests tell nothing apart. Deadlock checked |
| `MCChannel` | 2 callers, 2 sessions, 5 requests, one of them delivered twice, a window of 2 | the window is exact; no encrypted request is carried out twice, and what came with a key exchange only if it was delivered twice; answers can be opened |
| `MCCert` | 2 HTTP deployments and 1 WebSocket deployment, 3 faults | matching pair at rest, truthful success, clean failure while only HTTP deployments were received; no deployment of either kind starts a stopped Xray |
| `MCConnection` | automatic and WebSocket mode, 2 sessions, 2 failures in a row, fairness | the agent ends up on the best channel the master offers, hidden when that is the WebSocket; shutdown is final |
| `MCLimiter` | 2 connections of a customer with one email, 3 policies, or none | the count is exact, the limit is kept, a limited user keeps its bucket. Deadlock checked |
| `MCSnapshot` | 2 inbounds, 1 address, 1 failing operation, any number of kills and power losses | peers are told apart; limiter and disk agree; what was acknowledged survives |
| `MCLineSpeed` | 2 crashes, 2 changes by somebody else, 1 fault, fairness | only the pinned binary runs, with consent; own files are recognised; a removal leaves nothing; an operation ends. Deadlock checked |
| `MCUninstall` | 2 dispatches, 1 WARP request, 1 attempt to report, 2 mishaps | success means gone, failure means there or recoverable; nothing is lost; the removal takes files away only where the agent is stopped without WARP credentials, and an undo only what it has a copy of; the marker outlives the account |

In `MCChannel` a window of two numbers already has an inside, an edge and an outside, and four requests
of a session reach a jump beyond it; the second session is the one a key exchange replaces the first
with. The theorems of section 5 remove these bounds. In `MCConnection`, `WebSocketAtLast` counts the bound
of two sessions as reached: where both are used up, the model cannot open another.

In `MCLimiter` two connections under a limit of one are the smallest race for a unit; a connection that
ended starts again, so sequences are unbounded. That a customer has several emails is left to the theorems of
`LimiterProofs`: a second email is beyond the time of a run. In `MCSnapshot` two tags are needed because the
marker goes
with the last mapping of any. In `MCUninstall` two mishaps let a removal fail and its roll-back fail, or a
reboot meet a retry; a second dispatch is what can restore what the first removed; more attempts to report
only repeat `Post`.

`CHECK_DEADLOCK FALSE` is given where a run ends because its bound is spent: all requests served or sent, all
sessions used, all deployments answered, both scripts done, the core refused for good. Where starts are among
the requests the model never stops and
deadlock is checked.

**Fairness.** `WF(Progress)`: a handler that holds the lock runs to its end (every call it makes has a
timeout). `WF(Boot)`: the service manager restarts a dead agent. `SF(SubmitStart)`: somebody goes on
asking for a start; the code itself never starts a stopped core, so without it recovery may wait for
ever. Faults and crashes are bounded, that is, they end. In `Connection` the goroutine runs, timers and
deadlines expire and the select of the reporter gets to each of its tickers (`CFairness`); nothing makes the
master answer, the two liveness properties ask that it does. In `LineSpeed` the service goes on, the deadline
of an operation comes and the killed child is reaped; that the CLI ends by itself is not assumed. The other
modules have no fairness and no liveness properties.

## 4. Where the code does not do what it says

`MCFindReporterEnds`, `NeverGivesUp`: README.md:23 promises fallback and automatic reconnection, and
client.go:1325-1330 says of `runHTTPReporterLoop` that it returns to an outer automatic loop. In the
configured mode `http` there is none: `runHTTPReporter` (client.go:1318) calls it once, and a WebSocket that
becomes reachable, or five failed reports, end the goroutine for good. TLC finds it under the run's bounds.

These properties are stated in the modules and are known not to hold; they have no run:

| Property | What happens |
|---|---|
| `NoResurrection`, for a service core | Server not authorized: a remove fails at its configuration write and its roll-back (`sync.go:187`) adds the suspended inbound to the runtime, without the check that `replaceRuntimeInbound` makes (`mh.go:3994-4009`). For the embedded core it holds (`MCFenceEmbedded`). |
| `GrantAppliesDeferredEdit` | A denial could not take an inbound off the runtime; an edit made then is kept from the runtime; the next grant skips whatever runs (`mh.go:720`) and reports success. |
| `FallbackReachable` | A grace period that ends just before the drop closes the listener after the reopening (`main.go:642`), until the next drop. |
| `EntryPointsAgree` | The WebSocket's deployment (`client.go:2109`) runs beside an HTTP one without `certDeployMu` and without the pair transaction. |
| `FirstCopyIsServed` | One caller: a key exchange times out, a second one succeeds, then the first is handled and replaces the server's session. Every request is answered 400 (`crypto_middleware.go:90`) and only 412 makes `doEncryptedHTTP` negotiate again (`client.go:1571`), until the server forgets its session after an hour. |
| `DenialCutsLive` | A bucket that the report took from the hub stays with its connections (`limiter.go:476`); a denial (`limiter.go:263`) writes the hub alone. |
| `MarkerOutlivesAccount`, for two requests | The handlers take no lock: an installation that meets a removal leaves outbounds whose `warp.json` is gone. |

Also met while modelling (`PROJECT.json` lists the ones that are hazards):

* A service core that dies and is started again between `mh.go:3351` (off the runtime) and `3358` (out of
  the file) serves the inbound again, and the remove is acknowledged. `RemovedNotServed` holds of the
  embedded core and fails in `MCFenceExternal`'s configuration.
* A save puts in a definition with the digest of mutation `m` (`mh.go:1461`) while the core still serves the
  inbound of `n`. An add of `m` is reserved, its reservation cannot be withdrawn, and the next handler takes the
  digest for `m`'s own (`fence.go:715`): `m` owns the tag, a remove of `n` is acknowledged as superseded,
  and the core serves `n`'s inbound until it is next started. `RemovedNotServed` fails when `save`, with
  such a definition, is added to `MCFenceEmbedded`.
* A roll-back is uncertain because a rename was not synchronised; recovery (`fence.go:715`) then decides
  durably by the file it sees; a power loss takes the file back but not the decision. `RemovedStaysRemoved`
  fails when `PowerLossToo` is added to `MCFenceExternal`.
* A save (`mh.go:1461`) is not synchronised while the reservation made on top of it is, so a power loss can
  leave a configuration that matches neither digest, and the inbound API stays closed; the code documents
  failing closed. An edit that restores the previous definition between a crash and the recovery makes the
  mutation look undone (`fence.go:770`).
* A crash between the two renames of a certificate (`cert_deploy_atomic.go:199`) leaves a mixed pair that
  nothing repairs at the next start.
* Two message handlers rewrite the agent's configuration file without a lock (`client.go:2724`), and a
  decision that could not be written is not written again (`client.go:2576`); the queue between reader and
  handlers drops a message when it holds ten (`client.go:840`); a failed connection of the automatic mode is
  retried without a pause (`client.go:1212`).
* A key exchange comes with the request of its caller, which is served on every delivery
  (`crypto_middleware.go:75`): delivered twice, it is carried out twice. An encrypted request that is
  delivered twice while the server's session expires can be carried out, refused with 412, and carried out
  again by the key exchange that follows. `ServedOnce` says that nothing else is.
* `SetUserSpeed` stores its bucket over one that a connection has just put there (`limiter.go:546`), which
  then keeps the unlimited one; a denied user keeps the mark of an automatic limit.
* After a write that failed halfway (`persistent.go:256`) the check of an inbound reads a file the limiter
  was never told of; a marker whose snapshot is lost refuses every start, and a delivery, which could repair
  it, needs a running core.
* Between the check of a file of the speed test and its removal (`linespeed.go:297`) somebody else can put
  another there, the second verification of the binary included; a power loss brings back what a removal took
  away (`revived`).
* A TERM between the reload without loaders and `BAOTA_BRIDGE_REMOVED=1` (`uninstall.go:343`) deletes the
  backup of the loaders without restoring them; one between `LOCAL_CLEANUP_COMMITTED` (`uninstall.go:819`)
  and the statement by which `finish_runner` ignores it (`uninstall.go:188`) reports the failure of a removal
  that is complete. A retry whose preflight fails does the same (`uninstall.go:170`). `FailureIsUndone`
  excepts the last two (`spoiled`).
* An undo removes each path before it copies it back (`uninstall.go:377`), also where the script had not got
  as far as removing it. Cut off between the two, by an error of `cp` or by KILL, it takes the files from under
  an agent that may be running and have WARP credentials; they are in the recovery directory only.
  `WarpKeepsItsAgent` excepts this step, `NothingLost` says that the copy stays.
* The supervisor that a roll-back starts inherits the script's open lock (`uninstall.go:431`): later
  removals time out. Firewall rules and state directories are in no backup and do not come back. systemd-run
  can time out though the unit starts: the handler deletes the script from under it.
* `warp.json` is written in place (`warp.go:268`); cut off in the middle, the service has no state, a removal
  answers success without doing anything, and the file makes every uninstall refuse.

## 5. Proofs

`InboundFenceProofs` proves of `Spec`, for every choice of the constants that satisfies
`ConstantsAssumption`, with crashes and power losses and any bounds:

| Theorem | Property |
|---|---|
| `TypeCorrect` | `TypeOK` |
| `CacheCoherent` | `MemoryIsFile`: the fence in memory is the file while the agent is up |
| `OnePendingAtMost` | `AtMostOnePending` |
| `CancelledNeverPending` | `PendingNotCanceled` |
| `LedgerImplemented` | `ImplementsLedger`: initial states and steps map to `MutationLedger` |
| `SupersededRemoveIsHarmless` | `SupersededRemoveTouchesNothing` |

None of these invariants is inductive alone. `FenceFileInv` (in `InboundFenceProps`) is: it adds that the
file a power loss would leave is well formed too (else a crash could bring two reservations back), that
which handler is at which step is as the code has it, that an adding handler holds the only reservation
and the entry it would give back differs from the present one by that reservation alone
(`AddHoldsReservation`: else a release could revive a cancelled id), and that a remove past its first step
has its id cancelled and no other owner in its way (`RemoveIsCancelled`: this is what makes the release of
an owner legal in the ledger, and an overtaken remove harmless). `FenceStep` has one step per action;
actions that leave the fence file alone share a lemma. The refinement and the action property follow from
the same invariant.

`SecureChannelProofs` proves of `SecureChannel!Spec`, for every width of the window and any sets of
callers, sessions and requests, from `WindowSizeAssumption` and `ChannelAssumption`:

| Theorem | Property |
|---|---|
| `ChannelTypeCorrect` | `TypeOK`: in particular the bitmap stays within its width |
| `WindowAlwaysExact` | `WindowIsExact`: the window answers as the whole history would |
| `ServedOnceHolds` | `ServedOnce` |
| `AnswersCanBeRead` | `AnswerIsReadable` |

Two lemmas carry the window: `FreshIsExact` (a window that is exact lets through what the history calls
new and not late) and `SlideIsExact` (what it leaves is exact for the longer history). `ChannelInv` adds to
the properties what each step of an exchange holds (`ExchangesWellFormed`), that every request carried out
has used its number (`ServedHasPassed`: with the window exact, no number of a session opens a second one,
`OpenedOnce`), that answers are numbered without repetition (`RepliesDiffer`) and that no number passed at the
requester is that of an
answer still on its way (`PassedWasReceived`: hence an answer is refused only when it is late). Steps
through no window share the lemma `Frame`. `ServedOnce` is about what callers want rather than numbers, and
needs `OriginInv` besides: every delivery comes from a request that was sent, with its session, number and
payload (`OriginsKnown`); a retry follows the refusal of an encrypted request that was not carried out in
that delivery (`RetriesFollowRefusals`), and there is one for each call (`OneRetry`). What is left is a
payload of which one request was delivered twice, with a key exchange among those carried out.

`LimiterProofs` proves of `Limiter!Spec`, for any finite set of connections, any emails, customers,
policies and deliveries that satisfy `LimiterAssumption`:

| Theorem | Property |
|---|---|
| `CountAlwaysExact` | `CountIsExact` |
| `LimitAlwaysKept` | `AdmittedWithinLimit` |
| `LimitedKeepsBucket` | `AutoLimitKeepsBucket` |

`CountInv` adds which units a connection at each of its steps holds (`UnitKnown`): the counter and the unit
change in one step, so the number of holders of each group follows the counter (`CountStep`, by the
cardinality of a set with one member more or less). An admission is then within the limit, because the
counter that was compared counts everybody who is admitted. `AutoInv` adds that the report and the monitor
are one goroutine (`CallsKnown`): while the report is on its way from a bucket it found idle to the deletion
of that bucket, the monitor marks nobody, and a timer only takes marks away, so whom the report dooms is not
limited (`ReportKnown`). Without that the property does not carry over a single step.

`UninstallProofs` proves of `Uninstall!Spec`, for any dispatches, WARP requests, runners and bounds, from
`UninstallAssumption`:

| Theorem | Property |
|---|---|
| `CommitAlwaysTotal` | `CommitIsTotal` |
| `FailureAlwaysUndone` | `FailureIsUndone` |
| `WarpAlwaysHasAgent` | `WarpKeepsItsAgent` |
| `NothingEverLost` | `NothingLost` |
| `MarkerAlwaysOutlives` | `MarkerOutlivesAccount`, when requests come one at a time (`WarpRequests = {w}`) |

`UninstallInv` carries the first four. Whoever changes the host holds the uninstall lock (`LockHeld`), and
one script at most does (`LockExclusive`). `Own` says of each script, step by step, what its variables record
(`StepVariables`), what the host is while it works on it (`StepHost`), and what the panel may have been told
(`Recorded`). After a commit the host is empty and no other script has anything to bring back
(`CommittedGone`, `Harmless`); before one, boot entry, files and process are there, or a recovery directory
has the files (`Kept`). The backup of a script that changes the host has the files as long as the host has
them, and what it reports as copied back is there; a supervisor's backup without `rc.local` exists only after
another script committed or kept the files (`StepHost`, `Secured`). `WarpKeepsItsAgent` is about steps and
follows from the same invariant: only `RemoveFiles` and an undo take files away (`FilesTaken`), the one after
the check that the agent is stopped and WARP has no file, the other with its copy in hand. The properties alone
are not inductive: what a script restores, and whether it reports success, follows from
variables it set many steps before, while the host was another. The invariant has one step lemma per
conjunct; scripts that do not hold the lock share `OthersStep`. `MarkerAlwaysOutlives` rests on `AccountStep`.

`InboundConfigProofs` goes on from there to the Xray configuration and the runtime. What stands in the last
column are hypotheses of the theorem, not assumptions of the module:

| Theorem | Property | For |
|---|---|---|
| `AcknowledgedAddsAreDurable` | `AddedIsDurable`: both files have the add in every copy a power loss can leave | all constants |
| `AcknowledgedAddsAreServed` | `AddedMeansServed` | all constants |
| `ReplacementsAreOfWhatWasSeen` | `ConditionalReplacesWhatWasSeen` | all constants |
| `CrashesLeaveResolvable` | `CrashLeavesResolvable`: recovery can decide | `~PowerLossToo` |
| `OwnersHaveInbounds` | `OwnerHasInbound` | `~PowerLossToo`, `DefinitionsDiffer` |
| `RemovesAreFinal` | `RemovedStaysRemoved` | `~PowerLossToo`, `DefinitionsDiffer` |
| `RemovesEndService` | `RemovedNotServed` | `Embedded`, `~PowerLossToo`, `DefinitionsDiffer`, `OperatorDiffers` |
| `OwnersArePublishedServed` | `OwnerPublishedWhenServed` | `Embedded`, `~PowerLossToo`, `DefinitionsDiffer`, `OperatorDiffers` |
| `SuspendedStayOut` | `NoResurrection` | `Embedded`, `~PowerLossToo` |

`~PowerLossToo` leaves kills of the agent at every step, and writes that fail before or after the rename;
what it excludes is a power loss that takes back a configuration write and not the later one of the fence
file, under which the three properties are false of the code (section 4). `DefinitionsDiffer` says that no
two mutations, and no edit, produce definitions with the same digest: recovery goes by the digest, so with
equal ones it cannot tell whose the inbound is. `OperatorDiffers` says the same of the definitions that the
operator saves; without it `RemovedNotServed` is false (section 4). `Embedded` says that the core runs in the
agent, which alone starts it; for a service, which the operating system starts from the file at any moment,
`RemovedNotServed` and `NoResurrection` are false (section 4). `MCFenceEmbedded` checks the three properties
in an instance that satisfies all four hypotheses. The strengthenings stand in `InboundFenceProps`:

* `AddConfigInv`, for the first three: what an add has written by each of its steps (`AddIsWritten`); that
  every acknowledged add is also in the configuration that a handler of another tag would restore
  (`AddedIsKept`: a roll-back writes the whole file, not one inbound); that the reservation of a conditional
  add names the definition its sender had seen (`SeenIsReplaced`).
* `PendingIsDecidable`: while a handler carries a mutation out, the digest before in the reservation is that
  of the configuration it would restore; every other handler starts only when nothing is pending. So either
  outcome of each write, and of each write of a roll-back, is one of the two sides of the reservation.
* `WritersKnown` and `OwnersStand`, for `OwnerHasInbound`: whose a definition is says what its digest may be,
  and an owner stands in the configuration, in the one a handler may restore, and, while a mutation is
  pending, in whichever of the two the file turns out to be. When a release gives an entry back, the
  configuration is the restored one.
* `RemovedIsGone`, for `RemovedStaysRemoved`: the acknowledged id is cancelled, owns nothing, and no
  configuration that is or may be restored has its inbound.
* `ConfigIsOwners` and `RuntimeIsOwners`, for the last three: if a mutation wrote the inbound of a tag, it is
  the owner's, where the owner of a tag with a pending mutation is whom a recovery would decide for
  (`Decided`). Of the runtime this holds but while a handler is between two of its effects, or recovery has
  not put the runtime right yet (`Settled`); so by the time anything is released, committed or resolved the
  core serves nobody else's inbound, and a remove goes on only with the tag out of service. That recovery
  meets a pending mutation only while authorized is `PendingIsAuthorized`: else the start of the core would
  leave out an inbound that recovery then takes for converged.
* `NextOwnerIsServed`, for `OwnersArePublishedServed`: an owner that a resolution would publish is served
  already, whichever handler left the mutation pending.

Steps that touch neither file (`Quiet`) and those that end a handler (`Leaves`) are proved once for all
invariants; the effect of each remaining action on the two files is a lemma (`ReserveEffect`, `PersistEffect`
and so on) that all of them use. The runtime changes in other actions than the configuration; its lemmas
(`RuntimeMoves`) are stated once for everything that calls the core.

`CertDeployProofs` proves of `CertDeploy!Spec`, for any finite or infinite sets of HTTP and WebSocket
deployments and any number of failures, from `DeploysAssumption`: `TypeCorrect`, `CertInvariant`, and

| Theorem | Property |
|---|---|
| `DeployedPairsMatch` | `PairMatches` |
| `SuccessesAreLive` | `SuccessIsLive` |
| `FailuresAreClean` | `FailureIsClean` |
| `StoppedXrayIsLeftAlone` | `NeverRevivesXray` |

`CertInv` has four parts. `MutexesHeld`: a deployment is in its transaction exactly while it holds
`certDeployMu`, and at most one that is to reload Xray holds `inboundsMu`; everything else rests on there
being one writer. `XrayAsRead`: what was read of Xray under `inboundsMu` stays true until it is released, so a
reload that was decided on a running core does not meet a stopped one; that is `NeverRevivesXray`, and why a
success may count a stopped Xray as done. `ReloadsAsked`: a reload, and the undo that one causes, is of a
service that was to be reloaded. `TransactionsInv`: which of the two files is whose at each step, undo and
redo included, and that the pair taken as `before` was whole. The last part holds as long as no
WebSocket deployment wrote, and but for `gaveUp`, as the properties say.

`LimiterSnapshotProofs` proves of `LimiterSnapshot!Spec`, for any inbounds, addresses and bounds, with kills
and power losses, from `SnapshotAssumption`: `TypeCorrect`, and

| Theorem | Property |
|---|---|
| `PeersAreIdentified` | `ActivePeersIdentified` |
| `LimiterFollowsDisk` | `LimiterIsDisk` |
| `AcknowledgedMappingsSurvive` | `AckedSurvives` |

Each makes its exception for an inbound of which a file operation failed halfway (`half`, `doubtful`), as the
property states it. `SnapshotInv` proves the three together, because they need one another: a request finds
an inbound admissible by the file (`ChangeIsSafe`), which is of use only while the file is what the limiter
has; and a restore brings back what was acknowledged because the files it read under the lock were the
limiter's and the acknowledged ones (`BeforeIsKnown`). `OpIsWritten` says what is on the disk for good at each
step of a delivery or removal, `LimiterRequires` that the limiter never knows peers without requiring them.

`LineSpeedProofs` proves of `LineSpeed!Spec`, for any bounds on crashes, faults and changes by somebody else,
from `LineSpeedAssumption`: `TypeCorrect`, `SpeedInvariant`, and

| Theorem | Property |
|---|---|
| `TestsAreConsented` | `RunsAsConsented` |
| `OwnFilesAreRecognised` | `OwnFilesRecognised` |
| `RemovalsLeaveNothing` | `RemovedLeavesNothing` |

`SpeedInv` adds to them: what the directory shows, and whatever a power loss can take it back to, is the
service's own unless somebody else was there (`DirectoryOwn`); a process runs only during the step that
started it (`ChildAwaited`); a marker, an installation and a test each rest on a standing consent
(`ConsentStands`); and what a removal has passed, or did not find at its start, is gone (`RemovalGone`:
the removal deletes only what it saw, so that what it did not see must not be the agent's).

Only model-checked: `StoppedIsFinal` of `Connection`, and liveness
(`PendingIsResolved`, `HiddenAtLast`, `WebSocketAtLast`, `FallsBackToHTTP`, `OperationEnds`), which is out of
the prover's reach. `NeverGivesUp` is refuted, not proved (section 4).

## 6. Not modelled, and the plan

Done: the fence with the inbound operations, authorization, certificate deployment, the secure channel, the
connection to the master with the listen gate, limiter and dispatcher, limiter snapshot, line speed test,
WARP and the uninstall. Left, in this order:

1. `AgentConfigFile`: concurrent writers of the agent's configuration, persisted authorization, the queue of
   pushes.
2. `NginxMode`: the ownership boundary of nginx reuse and the mode switch with its roll-back.
3. Batch application, outbounds and routing: read-modify-write of the configuration file outside the fence.
4. External Xray take-over; self-update.
5. Proofs: `StoppedIsFinal` of `Connection`.

Not to be modelled: measurements, probes, log and inventory readers (no state), configuration
generation and merging (data, out of proportion), cryptographic primitives, the gRPC wrappers, the firewall
helper (its outcome is an outcome of the fence), path and PEM checks (they refuse before anything changes).
