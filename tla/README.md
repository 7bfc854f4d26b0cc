# Verification of the 3x-ui-awg node fleet

TLA+ models, TLC configurations and TLAPS proofs for the parts of this panel
whose correctness is a matter of order, failure and concurrency: how a master
panel keeps *agent nodes* on the config it renders for them, how an agent keeps
one Xray core serving, how traffic is accounted without losing or doubling a
byte, how agents that dial the panel are admitted and cut off, how the panel
serialises its traffic writes, how its own core is kept on what the database
says, how resets reach stock nodes, and how TUIC traffic survives a stop.

Paths below are relative to `src/`. `internal/web/service` is shortened to
`service`, `internal/web/runtime` to `runtime`, `internal/web/job` to `job`.

## 1. The system

A **master panel** (Go, SQLite or PostgreSQL through gorm, one local Xray) owns
inbounds, clients and *nodes*. A node is either a *stock* node (a second panel,
reached by the panel API) or an **agent node**: `x-ui-agent`, a small process
that owns one Xray child and does what the master tells it
(`docs/node-agent.md` is its design).

```
  master panel                                       agent (node)
  +---------------------------------------------+    +-----------------------+
  | mutations -> MarkNodeDirty   Node row       |    | HTTP server /v1/*     |
  | job tick 5 s: stats -> account -> sync -----+--->| Core (applyMu, mu)    |
  |   AgentSyncService (render, push, geo)      |    |   last-good.json      |
  |   AddAgentTraffic (traffic writer)          |    |   Xray child, :API    |
  | AgentTunnels <- /agent/connect (pull mode) <+----| pullLoop (dials)      |
  +---------------------------------------------+    +-----------------------+
```

### Components

| Component | State it keeps | Operations | Hard behaviour | What makes it correct |
|---|---|---|---|---|
| **Agent Core** `internal/agent/core.go`, `state.go`, `run.go`; `internal/xray/process.go`, `hot_apply.go` | `current`, `process`, `savedRev`, `lastError`, `retryAt`, `last-good.json` | Boot, Apply (push), Restart, supervise, Close, Stats | child or agent dies at any step; hot apply half done; roll back; save fails; push before boot | the stored config has served; an answered push survives a reboot; the reported revision is served; never two cores; a refused push changes nothing; the core comes back |
| **Traffic accounting of agent nodes** `Core.Stats`, `service/inbound_agent_traffic.go`, `job/node_agent_sync.go` | cumulative counters of the running core; the baselines and `AgentStartedAt` on the master; totals | Stats, poll, AddAgentTraffic, reset | core replaced within and between polls, lost answers, failed transactions | totals = what the cores reported |
| **Config sync** `service/node_agent_sync.go`, `node_agent_geo.go`, `node.go`, `runtime/agent_client.go` | `ConfigDirty`, `ConfigDirtyAt`; in memory: handled mark, refused revision, geo upload | mutation and mark, tick: stats, render, push, clear; geo upload | edits while a push is out; lost answers; pushes applied late or out of order; refusals; restarts of either end | the mark is cleared only for what was confirmed; geo files go first; the agent converges |
| **Pull mode** `runtime/agent_tunnel.go`, `controller/agent_connect.go`, `agentproto/pull.go`, `agent/pull.go`, `service/node_agent_pairing.go` | `AgentTunnels.conns`, the node's secret | dial, upgrade, Attach, remove, Drop, pairing, save, enable, delete | node changed between dial and registration; late close of an old connection; cut paths | only a welcome agent is registered; one connection per node; the agent reconnects |
| **Serial traffic writer** `service/traffic_writer.go` | two bounded queues, `twMu`, context, done | submit (admin, background), run, drain, start, stop | full lane held under the mutex; stop while writes are queued; inline writes | each write is applied once and answered truly; admin first; nobody waits for ever |
| Agent HTTP server, refusals `agent/server.go`, `refusals.go` | rate limits | the `/v1` handlers | - | mapped where they call Core |
| Agent helper programs and decoy `agent/sidecars.go`, `decoy.go`, ... | wanted and running programs, backoff | Set, poke, Require, keepRunning | restart backoff against changed wishes | the wanted set runs, eventually |
| Agent config preparation, ports, hot diff `agent/prepare.go`, `core_ports.go`, `xray/hot_diff.go` | none | pure functions | a diff that leaves something out | applying a diff yields the new config |
| Agent self update, geo files, logs, system info | files | download, install, report | - | - |
| **Stock node sync and the reset queue** `service/inbound_node.go`, `node_reset_queue.go`, `client_traffic.go`, `job/node_traffic_sync_job.go` | totals, baselines, pending resets, the dirty mark | reset, queue, deliver, settle, reconcile, fetch, merge | reset queued again while it is delivered; a snapshot from before a reset merged after it; a reset that is always refused | no reset is lost; nothing from before a reset comes back; every other reset is delivered |
| **Local Xray of the panel** `service/xray.go`, `job/check_xray_running_job.go`, `job/xray_traffic_job.go`, `service/client_inbound_apply.go` | the process and the snapshot of its config, two pending flags, the manual stop, the held back reason, the watchdog's count | RestartXray, hot apply, pushes of single users, pending restart, stop, watchdog | edits pushed beside a restart, pushes and restarts that fail, stale snapshot, stop against waiting jobs | every change reaches the core; a stop lasts; a config that cannot bind never replaces a working core |
| Local accounting, quotas, client CRUD `service/inbound_traffic.go`, `client_*.go` | SQL tables | many | order of writes (see traffic writer) | - |
| **TUIC traffic journal** `job/tuic_journal.go`, `tuic_job.go`, `service/tuic_traffic_receipt.go`, `tuic/manager.go` | counters, journal files, receipts | collect, add, requeue, store, apply, remove, replay | death or power loss between any two of them; ambiguous commits | nothing counts twice; a stored batch counts at last |
| Event bus, websocket hub `internal/eventbus`, `web/websocket` | bounded queues | publish, subscribe, stop | full queues, stop | no send after close |
| Panel process `main.go`, `web/web.go` | - | start, stop, panel-only restart | order | - |
| Protocol managers (mtproto, tuic, naiveproxy, amneziawg, tproxy, ...) | child processes, kernel objects | reconcile | as Agent Core | as Agent Core |
| Tunnel monitor, subscriptions, bots, frontend, installers | - | I/O and formatting | - | not modelled |

How they interact: the job runs one tick per agent node: it reads the stats
(`Core.Stats` over the wire), hands the counters to `AddAgentTraffic` **on the
traffic writer**, and then lets `AgentSyncService` compare the revision in the
same stats with what it renders, and push (`Core.Apply`). In pull mode every one
of these requests goes over the connection `AgentTunnels` holds at that moment.
For a stock node the same job reconciles, delivers resets, fetches a snapshot and
merges it, again on the traffic writer, on which the TUIC job's batches go too.
The panel's own core is changed from three sides: by `RestartXray` under one lock,
by edits that push one user each, and by the operator. The hazards that follow
from this are listed, each at its line, in `PROJECT.json`.

## 2. Modules

### `AgentCore` - the agent's Core

One operation holds `applyMu` at a time; `holder` names it and `pc` is the step
it stands at. `process`/`child` are `Core.process` and what that child serves,
`launched` a child that `start` has launched and not recorded, `disk` is
`last-good.json`. `alive` counts the live children and `unstopped` those among them
that outlived a `process.Stop`: it may report an error with the child alive
(process.go:843, 852, 854), which `stopProcess` logs and `start` drops
(core.go:292-295, 309-311), and the next child is launched beside it
(`StopProcess`, `LaunchedLivesOn`). Such a child holds ports, so that a launch
beside it may fail without any further fault, and ends when it likes
(`UnstoppedEnds`). A config is its revision. Each handler is cut where the world
can see a difference: before and after the hot apply (`SwitchHot`, `HotDone`,
`HotFailed`), stop, launch and wait of a child, the rename of `last-good.json`
(`Persist`) and the note of its revision (`SavedRecorded`), the answer
(`Succeed`, `Fail`). Between any two steps the child may die (`ChildDies`), a step
may fail for a passing reason (`Fault`, at most `MaxFaults`), or the agent's
process may end with its children (`AgentDies`), which leaves the disk only.

Which difference between two configs allows a no-op, a hot change or needs a
restart is not modelled: every mode is a choice (`SwitchNoop`, `SwitchHot`,
`SwitchReplace`). `Rejected` configs fail `xray -test`; `Broken` ones pass it and
never serve. `served`, `acked`, `settled` and `unhurt` are history.

### `AgentAccounting` - counters, baselines, totals

Cores are numbered in the order they are launched; the number stands for the
process and for the start time it is stamped with (two starts are at least
`readySettle` apart, so the times differ). `Stats` takes three steps, as in the
code: note the process, read the counters of whatever answers on the API port,
look whether the process is still the same. `Account` is the transaction of
`AddAgentTraffic`. `due` is history: the sum, over all cores, of the last reading
of each that was committed.

`ReadsOverlapStart` says whether a read may reach a core that `start` has
launched and not yet recorded while `Core.process` still points at the dead one.
The code allows it for a moment (finding 3); the passing run and the theorem say
what holds without it.

### `AgentSync` - from a mutation to a running config

The database's part (`cfg`, the mark `dirty`/`dirtyAt`), a tick with the row and
the stats it read, what `agentSyncState` remembers, and the agent as `AgentCore`
shows it: the config it runs and whether its core is up, its saved config, and an
`inbox` of pushes that arrived. A push whose request was given up stays in the
inbox and is applied in any order (`context.WithoutCancel`). Two mutations in one
millisecond leave one mark. Timers are actions that may come at any time.

`geoFilesToSend` asks only for files that can be sent: an agent without the
endpoint answers 404 (node_agent_geo.go:121-122), a name may be no plain `*.dat`
name (111-114), and the panel may have no usable copy (136-138); the config then
goes without its file. `sendable` stands for all of these; `Missing` looks at it,
and `GeoCopyChanges` changes it. `bare` is history: the configs that were pushed
while they lacked a file that could not be sent.

### `AgentTunnels` - connections that agents open

One node. Every change of the node is its transaction and, later, its `Drop`;
`mutex` is held from `welcome` to the registration, so a transaction can come in
between and a `Drop` cannot. A connection has two ends (`atMaster`, `atAgent`)
that notice the other's close, or a `cut` path by their pings, in any order;
`doomed` are those that some goroutine is about to close, `removing` those whose
`onClose` waits for the mutex. `SavesOverlapPairing` plays the part of
`ReadsOverlapStart` above (finding 4).

### `TrafficWriter` - the serial writer

The main goroutine (start, stop), the writer's goroutine with its nested selects
and the drain loop, and any number of submitters. Go's `select` with several
cases ready is a choice. `mutex` is `twMu` where it is *held over a wait*: by a
submitter whose lane is full; all other critical sections are one step.

### `WriteService` - what those who write are promised

The abstract specification that `TrafficWriter` implements, without a writer,
lanes or stops: a write takes effect once, at an instant between its call and its
return, and a call whose write took effect returns; or it returns "queue full" and
the write never takes effect. The mapping (`Service == INSTANCE WriteService
WITH ...` in `TrafficWriter`) takes the submitters that are not idle for the open
calls. A write that its submitter applies itself counts from the step in which the
submitter found no writer, since nothing keeps it from taking effect then; and the
steps of the main goroutine, of the writer except the end of a write, and of a
submitter on its way into a lane are stutters.

### `NodeConfig` - what an agent promises

The abstract specification that `AgentCore` implements: a register of the config
the node has, one of the config a reboot brings back, and the push under way. A
push is answered with "ok" (the node has it and a reboot brings it back),
"refused" (the node has what it had) or "unsaved". The mapping
(`Promise == INSTANCE NodeConfig WITH ...` in `AgentCore`) takes `current` for
the register, the stored config for the other, and the push that holds `applyMu`
for the one under way; supervision, restarts and the child's deaths are stutters.

### `LocalXray` - the panel's own core

A config is the set of the enabled clients and a *base*, everything else.
`dbUsers`/`dbBase` are the database, `coreUsers`/`coreBase` what the process
serves, `snapUsers`/`snapBase` what `process.GetConfig` says it was given. One
caller is inside `RestartXray` at a time (`caller`, `pc`): `Enter` reads the manual
stop and builds the config; then it is refused (`BuildFails`, `Refuse`), found
served (`AlreadyServed`), applied over the API (`HotApplied`, `HotFails`,
`HotDeferred`) or given to a new process (`StopProcess`, `Launch`). Beside it,
edits commit and then push (`CommitAdd`/`PushAdd`, `CommitRemoval`/`PushRemoval`),
which leaves the snapshot behind; `TakeFlags` and `ApplyCall` are
`ApplyPendingRestart`, `WatchCheck` and `WatchCall` the watchdog. Callers other
than the force call wait for the lock as a flag of their own (`armed`, `calls`,
`checks`), so a stop can overtake them.

No lock orders an edit against the restart that it overlaps, and none is assumed: a
push or a save may come at any step of `RestartXray`, and any call to a running core
may fail. `process.Stop` may fail with the core alive, in `RestartXray`, which drops
the error (xray.go:1736), and in `StopXray`, which returns it (1980): `unstopped`
holds "old" for a core that a later one was started beside, and "own" for one that
the operator could not stop. While one of them is there its ports are taken and a
core may exit without a fault of its own. `missed` is history: the edits that the
core does not serve, or may not, while nothing is pending that would mend it. They
are those that a restart overtook (`Overtaken`) and failed pushes of a client of
whom the snapshot says what the database says (`PushLost`). `halted` is history as
well: the operator stopped the core and forced no start since.

### `NodeResets` - resets of clients on a stock node

One node and its clients. `total`, `enabled` and `baseline` are the panel's rows,
`pending` the rows of the queue, `order` which of two rows comes first (their
`queued_at`, and their ids when one statement queued both), `cnt` and `on` the node's counters and verdicts, `snapCnt` and `snapOn` a snapshot
in flight. The job's tick is `StartTick`, `Reconcile`, a delivery,
`FetchTrafficSnapshot`, `Merge`; a delivery by the goroutine of
`deliverNodeResetsNow` may come at any time, under the same lock.
`touched` stands for the comparison of `queued_at` in `settleNodeReset`. `applied`,
`due` and `fresh` are history, and so is `overtaken`: the clients of which the node
accepted a reset while a snapshot from before was in flight and nothing had marked
the node (client_traffic.go:124, 153 and 273 deliver without a mark). `order` is a set of pairs and a delivery reads the
sequence of the rows that agrees with it (`Rows`); that there is one at every
moment is a theorem, for which `Email` is assumed finite, as the rows of a table
are. Clients are not disabled by hand and do not expire;
a reset of one that is would keep it off.

### `TuicJournal` - TUIC traffic over stops and crashes

Sets of deltas stand for amounts, so that counting one twice shows. `mem` are the
counters of the servers and of the manager, `hand` what was collected and is not
yet anywhere else, `content`/`visible`/`durable` the journal's files, the
directory, and what of the directory survives a power loss. `Run` and the flush
share the replay (`ApplyBatch`, `RemoveFile`, `SyncRemoval`); `ReplayOver` is what
each does next. A batch identifier is used once (a UUID), which bounds the number
of stops that store one. A panel-only restart keeps the manager's memory, and is
a pause of the job that the model cannot tell from none.

`AddTraffic` may commit and report an error, as the commit of a batch may. `unsure`
is history: what it did so with.

### Proof modules

`AgentCore_proofs`, `AgentAccounting_proofs`, `AgentTunnels_proofs`,
`AgentSync_proofs`, `TrafficWriter_proofs`, `LocalXray_proofs`,
`NodeResets_proofs` and `TuicJournal_proofs` extend their module and hold its
inductive invariant and theorems.

## 3. What is checked

| Run | Bounds | Shows |
|---|---|---|
| `agent_core` | 4 configs (two good, one broken, one rejected), 3 faults, those of `process.Stop` among them | `SavedHasServed`, `AckIsDurable`, `ReportedIsServed`, `OneCore`, `RefusedPushRestores`, `OnlyPushesChangeConfig`, `Recovers`, `KeepsPromise` |
| `agent_accounting` | 2 counters, 3 cores, 2 bytes each, 1 lost answer | `ExactAccounting`, `EventuallyAccounted` |
| `agent_sync` | 3 configs (plain, needs geo, bad), 3 edits, 2 faults (the loss of the panel's geo file among them) | `ClearedIsConfirmed`, `GeoGoesFirst`, `Converges` |
| `agent_tunnels` | 2 connections at a time, 2 changes, 2 faults | `OnlyTheWelcome`, `OneConnection`, `Reconnects` |
| `traffic_writer` | 3 submitters, lanes of one place, any number of stops | `AnswersAreTrue`, `AdminGoesFirst`, `EverybodyReturns`, `ServesWrites` |
| `local_xray` | 1 client, 3 bases (one cannot bind), 3 edits or forced calls, 2 faults | `CoreIsCurrent`, `KnownSessionsEnd`, `StoppedStaysDown`, `WorkingCoreIsKept`, `Converges` |
| `node_resets` | 2 clients (one always refused), quota 2, 2 units of use, 2 resets, 1 fault | `NoResetLost`, `NoOldUsage`, `OffByNewUsage`, `Delivered` |
| `tuic_journal` | 3 deltas, 2 journal files, 4 faults | `CountedOnce`, `NothingVanishes`, `StoredIsCounted` |

Each also checks its type invariant. Why the bounds are enough for what they are
after:

* `agent_core`: a roll back needs a previous config, a new one and one that fails;
  three faults allow a failed start, a failed way back, and a death, a failed save
  or a failed stop on top, or three children that outlive their stop. Deaths of the agent's whole process are not bounded at all.
* `agent_accounting`: a third core shows a baseline that is two restarts old;
  values up to 2 let a new core's counter be below, at and above the old one's.
* `agent_sync`: three edits are the creation, one that a push carries and one
  that overtakes it; two faults are a lost answer and what then meets it.
* `agent_tunnels`: the races are between two connections (the old and the new
  one, or two handlers) and two changes; the safety properties are proved for any
  number. A third connection was checked with one change and two faults.
* `traffic_writer`: one submitter is served, one queued and one blocked with the
  mutex; with lanes of one place every lane is full as soon as it can be.
* `local_xray`: clients do not interact but through the setting and the flags, so
  one shows every order of an edit, its push and a restart; three edits are two
  that meet in one restart and a stop or start on top; two faults are a failed
  push and a failed call that should have mended it, or a core that outlives its
  stop and a failure beside it. The safety properties are
  proved for any number of clients, edits and faults.
* `node_resets`: two clients are what it takes for one to hold up the other; two
  resets of one client are what queues a row again while it is delivered; two
  units reach the quota once.
* `tuic_journal`: two files are one that is replayed while another is stored; four
  faults are one failure at each of apply, remove, sync and the process.

### Findings: runs that end in a counterexample

1. `agent_core_late_save`: `writeFileAtomic` can fail *after* its rename (the sync
   of the directory). The push is answered with a `SaveError`, whose comment
   promises that a reboot brings the previous config back; it brings the new one.
   `SaveMayFailLate` is FALSE everywhere else.
2. `agent_core_boot`: when the stored config cannot be read or built at boot,
   `current` stays nil, and the supervisor returns at once, although `Boot`'s
   comment says that it keeps trying. Only a push ends that.
3. `agent_accounting_overlap`: see `ReadsOverlapStart` above. The counters of a
   new core are accounted under the old start time and once more under the new.
4. `agent_tunnels_save`: a save of the node that read the row before it was
   paired again writes the old secret back, so the new agent is locked out and
   the old one let in.

### What the code does not promise, and how the properties say so

No assumption keeps these behaviours out of the runs or the theorems. Each is part
of the model, a variable (most are history) names exactly the edits, clients, configs
or cores that it touches, and the property holds of all others. Without its exception
each property fails, which TLC shows when the exception is taken out.

* `LocalXray`, `missed`, by an overlap. `RestartXray` builds its config
  (xray.go:1695) before it replaces the process, and edits do not take its lock. An
  edit that is committed after the build and pushed to the old process before it is
  stopped is not in the new one; the push succeeded, so no flag is set, and the
  client is served wrongly until the next edit or restart. A save of the template
  that finds no running core at that moment (`controller/xray_setting.go:209`) is
  lost in the same way. `CoreIsCurrent` and `Converges` except these edits.
* `LocalXray`, `missed`, by a failed push. It sets the restart flag.
  `ApplyPendingRestart` clears it (xray.go:2039) before `RestartXray` looks at it
  (xray.go:1706), so if the snapshot already equals the new config (a client added
  over the API and removed again, whose removal fails) the call finds nothing to
  do. The same properties except it, and `KnownSessionsEnd` for the connections of
  such a client.
* `LocalXray` and `AgentCore`, `unstopped`. A child that outlives a failed
  `process.Stop` is forgotten, and the next one is started beside it.
  `OneCore` counts it; `Recovers` and `Converges` do not promise a core that serves
  while its ports are held, and `CoreIsCurrent` leaves out a core that the operator
  tried to stop and could not, which nobody looks after.
* `LocalXray`, sessions. `restartToDropClients` looks at the difference with the
  snapshot. A client added over the API after the last apply is not in it, so
  when its quota runs out its connections are not dropped, although the setting
  asks for it. `KnownSessionsEnd` therefore speaks of `snapUsers` only.
* `AgentSync`, `bare` and `sendable`. A config that reads a file which cannot be
  sent is pushed as it is, as the comment at node_agent_geo.go:108-109 says.
  `GeoGoesFirst` excepts the configs that went out so, and `Converges` does not
  promise a core for one while the file is out of reach.
* `NodeResets`, `overtaken`. inbound_node.go:1077-1078 says: "Until the node applies
  a reset it owes, its verdict rests on the pre-reset counters: only usage may move
  for this client". That is more than the code does. `BulkResetTraffic` and the two
  resets of all clients do not mark the node dirty (the edit that enables the clients
  does, afterwards). If the goroutine delivers such a reset and settles its row
  while the job holds a snapshot from before, the client is no longer frozen and that
  snapshot's verdict is merged: its counters, from before the reset, show a spent
  quota, so `nodeDisableIsStale` lets it pass, and the client is off for usage it was
  forgiven, until something enables it. `OffByNewUsage` excepts these clients.
* `TuicJournal`, `unsure`. The journal has receipts because a commit may be
  reported as failed (tuic_traffic_receipt.go:14-15); the ordinary path has none
  and requeues what `AddTraffic` reported as failed (tuic_job.go:63-67), which then
  counts twice. `CountedOnce` says that nothing else does.

Two formulas of the modules state a comment that the code does not keep. No run
checks them.

* `LocalXray!HeldBackEnds`. `GetHeldBackConfig` says that it returns "" "when the
  pending config was applied" (xray.go:145-146). Only `replace` (xray.go:66-72)
  clears the reason: when a refused template is taken back, the next call finds
  the core current or applies a difference over the API, and the status page goes
  on saying that the config was refused.
* `TrafficWriter!NoTwoWritesSideBySide`. While the writer drains at a stop,
  submitters apply their own writes beside it (traffic_writer.go:237-242), although
  two comments (lines 109 and 158-159) say that cannot be. `StopTrafficWriter` runs
  after an HTTP shutdown that gives up after ten seconds (web.go:851).

### Fairness, and why the code justifies it

* `AgentCore`: an operation that began goes on (weak). The goroutine of `Run`
  boots and the supervisor ticks every two seconds; both need `applyMu`, which a
  stream of pushes disables again and again, and Go's mutex hands over in order
  once a waiter starves, hence strong fairness. The backoff is a clock; the
  service manager starts an agent that ended.
* `AgentAccounting`: the job polls every five seconds and a poll ends; `start`
  ends. Transfers, deaths and resets are not fair.
* `AgentSync`: ticks, the agent's handling of what arrived, its supervisor,
  timers and uploads are weakly fair; edits and faults are bounded and not fair.
  The job ticks only for nodes that are enabled and online, so `Converges`
  speaks of such a node.
* `AgentTunnels`: agents dial for as long as they run, and the old agents' vain
  dials take turns with the new one's, so `Dial` and the handlers are strongly
  fair, as is who waits for the mutex. The closing of connections is weakly fair:
  HTTP/2 pings on one end, `KeepAlive` on the other.
* `TrafficWriter`: the writer goes on (weak), a transaction ends, and a submitter
  or `StopTrafficWriter` that waits for `twMu` gets it (strong, as above).
  Background writes may starve behind admin writes that never stop;
  `EverybodyReturns` says so.

* `LocalXray`: a call that began goes on and its callers come (weak): cron runs the
  pending restart every 30 seconds and the watchdog every second, and a request
  goes on to its push. `RestartXray` holds its lock for one call at a time and the
  calls are bounded, so weak fairness is enough. A core that cannot bind exits.
* `NodeResets`: the job ticks and a delivery that runs goes on, because each
  request has a deadline. The goroutine is not fair: it tries once. `Delivered`
  relies on the job.
* `TuicJournal`: the panel is started again and its steps go on. Stops, deaths and
  power losses are bounded by identifiers and `MaxFaults`.

`Converges`, `Delivered` and `Reconnects` say what happens once edits and faults are over;
bounding them in the model is what makes "over" come. Deadlock is checked in
every run that passes.

## 4. What is proved

For every value of the constants:

| Theorem | Says | Assumes |
|---|---|---|
| `AgentCore_proofs!TypeCorrect` | `TypeOK` | - |
| `StoredConfigsServe` | `SavedHasServed` | - |
| `ReportsAreTrue` | `ReportedIsServed` | - |
| `NeverTwoCores` | `OneCore` | - |
| `RefusalsRestore` | `RefusedPushRestores` | - |
| `ConfigIsThePushs` | `OnlyPushesChangeConfig` | - |
| `AcknowledgedPushesLast` | `AckIsDurable` | `~SaveMayFailLate` |
| `AgentAccounting_proofs!AccountTypes` | `TypeOK` | `~ReadsOverlapStart` |
| `TotalsAreExact` | `ExactAccounting` | `~ReadsOverlapStart` |
| `AgentTunnels_proofs!TunnelTypes` | `TypeOK` | - |
| `NoConnectionLeaks` | `OneConnection` | - |
| `NoAgentOutstaysItsWelcome` | `OnlyTheWelcome` | `~SavesOverlapPairing` |
| `AgentCore_proofs!CoreImplementsNodeConfig` | `Spec => Promise!SafeSpec`, the safety part of `KeepsPromise` | `~SaveMayFailLate` |
| `AgentSync_proofs!CleanNodesAreCurrent` | `ClearedIsConfirmed` | - |
| `FilesGoFirst` | `GeoGoesFirst` | - |
| `AgentSync_proofs!TypeCorrect` | `TypeOK` | - |
| `AnswersAreTheTicks` | a tick that waits has its push at the agent, or the answer; no other tick's push answers it | - |
| `TrafficWriter_proofs!TypeCorrect` | `TypeOK` | - |
| `AnswersMatchWrites` | `AnswersAreTrue` | - |
| `AdminIsNotStarved` | `AdminGoesFirst` | - |
| `WriterImplementsService` | `Spec => Service!SafeSpec`, the safety part of `ServesWrites` | - |
| `NobodyWaitsForNothing` | a waiting write is in a lane of a running writer, with the writer or answered; a blocked submitter has a writer that nobody told to stop | - |
| `LocalXray_proofs!TypeCorrect` | `TypeOK` | - |
| `StopsLast` | `StoppedStaysDown` | - |
| `ConflictsDoNotKill` | `WorkingCoreIsKept` | - |
| `QuietCoreIsCurrent` | `CoreIsCurrent` | - |
| `SessionsAreClosed` | `KnownSessionsEnd` | - |
| `NodeResets_proofs!ResetsAreKept` | `NoResetLost` | - |
| `OldUsageStaysOut` | `NoOldUsage` | - |
| `VerdictsAreNew` | `OffByNewUsage` | - |
| `NodeResets_proofs!TypeCorrect` | `TypeOK` | - |
| `QueueIsOrdered` | the rows have one strict total order, and a delivery can read them in it | - |
| `TuicJournal_proofs!TypeCorrect` | `TypeOK` | - |
| `NothingTwice` | `CountedOnce` | - |
| `TrafficIsKept` | `NothingVanishes` | - |
| `StoredOutlivesFailures` | a batch reported as stored is counted, or its file is there and outlives a power loss | - |

besides the named assumptions on the constants (`ConfigAssumption`,
`AccountingAssumption` and so on, one per module), which TLC evaluates in every
run. Each assumption in the last column is one that a finding shows to be needed.

*AgentCore.* None of the properties is inductive. The children that are alive are
exactly the one that is recorded or just launched and those that outlived their stop,
from which `OneCore` follows. `Shape` says which steps each operation has and what it carries (a launch has a target, and the supervisor's
target is `current`); `Cores` what a live child serves at each step, a half
applied config included; `Served` that what is stored or recorded came up once;
`Undoable` that a push that has not succeeded still has the previous config as
`current`, and, if nothing struck meanwhile, a live core or a previous config to
go back to. `Durable` relates disk, `savedRev` and the answered push and needs
the assumption; so it is kept apart.

*AgentAccounting.* Exactness follows from four facts: start times only grow, and
a core that is not the one asked is never served again (`Order`); a reading that
is answered is of the core whose start time goes with it (`Origin`, which is what
`Stats`' second look at the process is for); the baselines are those of the core
`startedAt` names and later cores have none (`Baselines`); counters of one core
only grow (`Growth`).

*AgentTunnels.* `Handlers` ties the mutex to the one handler between welcome and
registration. What `welcome` found may be overtaken only by a change that has its
drop to come (`WelcomeHolds`), and that drop waits for the mutex, so it finds the
connection registered. `DropsOwed` counts the drops to come against the edits.

*The contract of a node.* `CoreImplementsNodeConfig` maps every step of
`AgentCore` to a step of `NodeConfig` or a stutter, from the same invariant:
`Undoable` gives that a refused push left the old config, `Durable` that an
answered one is stored.

*AgentSync.* What makes a cleared mark right is a chain: what the tick rendered is
the config of a row with the mark it read (or of a later one), what it confirmed
is what it rendered, and an equal mark means that nobody marked the node since.
`GeoGoesFirst` needs that a push leaves after the file was found on the agent, where
it stays, or after it was found that it cannot be sent. For the types, giving up a push leaves it in the inbox, as a
push that nobody awaits (`UnawaitedArePushes`); `Wait` says that the agent never
holds another push that is awaited than the one of the tick under way, so an answer
is to that one.

*TrafficWriter.* A submitter is in exactly one place (`Places`): at its call, in
one lane, being served, or answered; `Queues` and `Lifecycle` tie the lanes and
the context to the writer's own step, and give that the drain ends with both lanes
empty while no sender can still get in. `Order` counts how often the writer may
pass an admin write. The refinement rests on the same invariant: where a
submitter's write is decides how often it took effect (`Effects`), a step changes
the view of one call at most (`OneCallsView`), and the writer's only visible step is
the end of a write.

*LocalXray.* The invariant has two parts. `Orderly` is control: which callers
stand where, what a stop leaves behind (`halted` and a core that is down mean that
`stopped` is set and that no call but a forced one can be past its guard), and what
the process is good for (`Working`). `Clients` looks at one client at a time: inside
a call the config is the database, except for the edits that came late (`Built`);
while the core and the database disagree about a client of which no push is pending,
the snapshot disagrees with the database too and a call is on its way that will build
a config again (`Served`, `Repair`), or the client is missed; and an open connection
of a removed client is held together with such a call (`Sessions`). Per client the
argument is finite, and it does not mention any other one. A call that failed with
something still to mend sets its flags again (`ReturnRearms`), which is what keeps
`Served` over its end.

*NodeResets.* `NoOldUsage` compares the total with what was used since the reset,
and needs the same bound for a snapshot in flight, whose baseline a reset has
deleted, so that merging it adds nothing. `OffByNewUsage` needs that a verdict from
before a reset meets the row or the dirty mark, or that its client is overtaken. Queueing a row again moves it
behind all others, which keeps the order strict and total (`QueuedLast`). That such
an order of finitely many rows has a sequence is no step of the model but a fact of
counting: a row's place is one more than the number of rows before it
(`RowsExist`), so no induction over the rows is needed.

*TuicJournal.* Files with a receipt hold only counted deltas, files without one only
deltas that are nowhere else; a removal that a power loss undoes is of the first
kind. Where a delta is, is a partition of what was used.

Only model-checked: all liveness (`Recovers`, `EventuallyAccounted`, `Reconnects`,
`EverybodyReturns`, `Delivered`, `StoredIsCounted`, and `Converges` of `AgentSync`
and of `LocalXray`) and the liveness parts of `KeepsPromise` and `ServesWrites`,
which are out of reach of the prover, as `ENABLED` is. Of some of them a safe part
is proved, something that has to be so at every moment for fairness to bring the
rest: `NobodyWaitsForNothing` of `EverybodyReturns`, `QueueIsOrdered` of `Delivered`,
`StoredOutlivesFailures` of `StoredIsCounted`, `AnswersAreTheTicks` of `Converges`
(`AgentSync`) and `NoConnectionLeaks` of `Reconnects`. Every other property that a passing
run checks is a theorem.

## 5. What is left out

* Contents: configs are revisions; diffs, rendering, SQL, JSON, TLS and HTTP
  framing are not modelled. Saturation of totals at the limit of `int64` is not.
* Time: every timer is an action that may fire whenever its wait is on. How long
  something takes (the five seconds a submitter may hold `twMu`) is not shown.
* `syncSidecars` and `syncDecoy` run before `syncConfig` in a tick, on state of
  their own, and do not touch its state.
* Nested submits to the traffic writer: callers ask `isSerializedTx` first.
* `AgentTunnels`: several agents installed from one bundle; and the retry waits of
  the dial loop, which only delay a dial.
* `LocalXray`: a client with several edits under way at once (`lockInbound` is held
  over the push, so it orders the edits of one inbound; edits of one client in
  several inbounds, or of the traffic job, may overlap); TUIC relays beyond
  an apply that is deferred; node outbounds and the resync timer of AmneziaWG.
* `NodeResets`: adoption and removal of inbounds and clients, renewals, expiry, the
  hand-made disabling of clients, and nodes with several inbounds of one client.
* `TuicJournal`: a file that can never be read or applied, and that ends each replay
  before the files behind it (tuic_journal.go:88-101).
* The components marked `not_modelled` in `PROJECT.json`, each with its reason.

Most of the repository's lines are of another kind than what is modelled here:
SQL over a large schema (`database`, `setting.go`, `client_bulk.go`), the building
of configs and subscriptions from it, HTTP handlers, bots, and drivers of external
programs. There is little order or concurrency in them that a model could add to
their tests. The map therefore covers a small share of the repository, and nearly
all of the code in which order, failure and concurrency decide what is right.

## 6. Plan

Done: `AgentCore`, `AgentAccounting`, `AgentSync`, `TrafficWriter`, `AgentTunnels`,
`NodeConfig` and `WriteService` with their refinements, `LocalXray`, `NodeResets`,
`TuicJournal`, each with proofs of its safety.

What would be next, in this order:

1. `Sidecars`: `sidecarHost` (Set, poke, Require, keepRunning with its backoff) and
   the tick's part of it on the master.
2. `AgentNode`: `AgentSync`'s master over `NodeConfig`, in place of the agent that
   `AgentSync` describes itself.
3. The hot diff as operators, checked against a reference on small configs.
