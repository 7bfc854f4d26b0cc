----------------------------- MODULE AgentCore -----------------------------
(***************************************************************************)
(* The node agent's Core (internal/agent/core.go, state.go, run.go): the   *)
(* owner of one Xray child process.  It applies the configs the master     *)
(* pushes, goes back to the previous one when a new one does not start,    *)
(* keeps the last good one on disk, boots from it, and brings the child    *)
(* back after it died.                                                     *)
(*                                                                         *)
(* Everything that changes the child holds applyMu, so one operation runs  *)
(* at a time: holder says which, pc where it stands.  The child may die,   *)
(* and the agent's own process may die, between any two steps.             *)
(*                                                                         *)
(* A config stands for its revision, the hash of the body and the restart  *)
(* flag.  How one config differs from another (ComputeHotDiff) is not      *)
(* modelled: every mode a switch can take is a choice.                     *)
(***************************************************************************)
EXTENDS Naturals

CONSTANTS
  Config,           \* what the master may push
  Rejected,         \* configs that prepareConfig or `xray -test` refuses
  Broken,           \* configs that pass the test and that no core can serve
  None,             \* no config
  Mixed,            \* what a core serves halfway through a hot apply
  SaveMayFailLate,  \* BOOLEAN: can SaveLastGood fail after its rename?
  MaxFaults         \* bound on child deaths and on transient failures

ASSUME ConfigAssumption ==
  /\ Rejected \subseteq Config
  /\ Broken \subseteq Config
  /\ None \notin Config
  /\ Mixed \notin Config
  /\ None # Mixed
  /\ SaveMayFailLate \in BOOLEAN
  /\ MaxFaults \in Nat

VARIABLES
  up,         \* the agent's process runs
  loop,       \* the goroutine of run.go that boots, then supervises
  closed,     \* Core.closed
  process,    \* Core.process: nil, or a child that is live or dead
  child,      \* what the child behind Core.process serves
  launched,   \* what a child serves that start has not recorded yet
  current,    \* Core.current
  savedRev,   \* Core.savedRev
  lastError,  \* whether Core.lastError is set
  held,       \* now is before Core.retryAt
  alive,      \* how many children of the agent live
  disk,       \* last-good.json
  holder,     \* the operation that holds applyMu
  pc,         \* the step it stands at
  next,       \* the pushed config, for apply
  prev,       \* Core.current when the operation began
  target,     \* the config that start launches
  faults,     \* faults so far
  served,     \* history: the configs that a core came up serving
  acked,      \* history: the last push that was answered with success
  settled,    \* history: no later push was cut off after it was stored
  unhurt,     \* history: a child served when the operation began, with no
              \* other child alive, and no fault struck since
  unstopped   \* history: how many of the children that live have outlived a
              \* Process.Stop, which reported an error

children == <<alive, unstopped>>
coreVars == <<process, child, launched, current, held, children>>
opVars   == <<holder, pc, next, prev, target>>
vars == <<up, loop, closed, coreVars, savedRev, lastError, disk, opVars,
          faults, served, acked, settled, unhurt>>

MaybeConfig == Config \cup {None}

Holders == {"none", "boot", "apply", "restart", "supervise", "close"}

Steps == {"idle", "begin", "switch", "hot", "swap", "stop", "launch", "wait",
          "persist", "record", "ok", "unsaved", "fail"}

TypeOK ==
  /\ up \in BOOLEAN
  /\ loop \in {"boot", "run", "done"}
  /\ closed \in BOOLEAN
  /\ process \in {"nil", "dead", "live"}
  /\ child \in MaybeConfig \cup {Mixed}
  /\ launched \in MaybeConfig
  /\ current \in MaybeConfig
  /\ savedRev \in MaybeConfig
  /\ lastError \in BOOLEAN
  /\ held \in BOOLEAN
  /\ disk \in MaybeConfig
  /\ holder \in Holders
  /\ pc \in Steps
  /\ next \in MaybeConfig
  /\ prev \in MaybeConfig
  /\ target \in MaybeConfig
  /\ faults \in 0..MaxFaults
  /\ served \subseteq Config
  /\ acked \in MaybeConfig
  /\ settled \in BOOLEAN
  /\ unhurt \in BOOLEAN
  /\ alive \in Nat /\ unstopped \in Nat

\* A fresh install: nothing on disk, the agent's process starts.
Init ==
  /\ up = TRUE /\ loop = "boot" /\ closed = FALSE
  /\ process = "nil" /\ child = None /\ launched = None
  /\ current = None /\ savedRev = None /\ disk = None
  /\ lastError = FALSE /\ held = FALSE
  /\ holder = "none" /\ pc = "idle"
  /\ next = None /\ prev = None /\ target = None
  /\ faults = 0 /\ served = {}
  /\ acked = None /\ settled = TRUE /\ unhurt = FALSE
  /\ alive = 0 /\ unstopped = 0

----------------------------------------------------------------------------
(* Helpers                                                                 *)

At(op, step) == holder = op /\ pc = step

Goto(step) == pc' = step /\ UNCHANGED <<holder, next, prev, target>>

\* The operation returns and applyMu is free.
Release ==
  /\ holder' = "none" /\ pc' = "idle"
  /\ next' = None /\ prev' = None /\ target' = None

\* Something transient went wrong: spend one of the bounded faults.
Fault ==
  /\ faults < MaxFaults
  /\ faults' = faults + 1
  /\ unhurt' = FALSE

NoFault == UNCHANGED <<faults, unhurt>>

\* An operation acquires applyMu and reads the fields it works from.
Acquire(op, step) ==
  /\ up
  /\ holder = "none"
  /\ holder' = op /\ pc' = step
  /\ prev' = current
  /\ unhurt' = (process = "live" /\ unstopped = 0)

----------------------------------------------------------------------------
(* Core.Boot, in the goroutine of Run before the supervisor's loop         *)

\* Mutant: Boot does not look whether a push got in first.
NothingStored == disk = None

\* A push that got in first wins, and before the first push there is no file.
NothingToBoot == current # None \/ disk = None

BootYields ==
  /\ up /\ loop = "boot" /\ holder = "none"
  /\ NothingToBoot
  /\ loop' = "run"
  /\ UNCHANGED <<up, closed, coreVars, savedRev, lastError, disk, opVars,
                 faults, served, acked, settled, unhurt>>

\* LastGood returned the stored config and it was built: it is what the core
\* "last ran" from here on, whether it starts or not.
BootLoads ==
  /\ loop = "boot" /\ ~NothingToBoot
  /\ Acquire("boot", "launch")
  /\ current' = disk /\ savedRev' = disk /\ target' = disk
  /\ loop' = "run"
  /\ UNCHANGED <<up, closed, process, child, launched, children, lastError,
                 held, disk, next, faults, served, acked, settled>>

\* The file could not be read, or not be built into a config.
BootCannotLoad ==
  /\ up /\ loop = "boot" /\ holder = "none"
  /\ ~NothingToBoot
  /\ Fault
  /\ lastError' = TRUE
  /\ loop' = "run"
  /\ UNCHANGED <<up, closed, coreVars, savedRev, disk, opVars, served, acked,
                 settled>>

----------------------------------------------------------------------------
(* Core.Apply: PUT /v1/config                                              *)

Push(c) ==
  /\ Acquire("apply", "begin")
  /\ next' = c
  /\ UNCHANGED <<up, loop, closed, coreVars, savedRev, lastError, disk,
                 target, faults, served, acked, settled>>

\* The running core has this revision already: only the disk may be behind.
ApplySame ==
  /\ At("apply", "begin")
  /\ process = "live" /\ current = next
  /\ Goto("persist")
  /\ NoFault
  /\ UNCHANGED <<up, loop, closed, coreVars, savedRev, lastError, disk,
                 served, acked, settled>>

\* Mutant: the config is stored once it passed the test.
ApplyTestedAndSaves ==
  /\ At("apply", "begin")
  /\ ~(process = "live" /\ current = next)
  /\ next \notin Rejected
  /\ Goto("persist")
  /\ NoFault
  /\ UNCHANGED <<up, loop, closed, coreVars, savedRev, lastError, disk,
                 served, acked, settled>>

\* build and testConfig let the config through.
ApplyTested ==
  /\ At("apply", "begin")
  /\ ~(process = "live" /\ current = next)
  /\ next \notin Rejected
  /\ Goto("switch")
  /\ NoFault
  /\ UNCHANGED <<up, loop, closed, coreVars, savedRev, lastError, disk,
                 served, acked, settled>>

\* The config is refused, or the test itself could not be run.
ApplyRefused ==
  /\ At("apply", "begin")
  /\ ~(process = "live" /\ current = next)
  /\ \/ next \in Rejected /\ NoFault
     \/ Fault
  /\ Goto("fail")
  /\ UNCHANGED <<up, loop, closed, coreVars, savedRev, lastError, disk,
                 served, acked, settled>>

\* switchTo, nothing but formatting changed: the core keeps running.
SwitchNoop ==
  /\ At("apply", "switch")
  /\ process = "live"
  /\ next \notin Broken
  /\ child' = next /\ current' = next
  /\ served' = served \cup {next}
  /\ Goto("persist")
  /\ NoFault
  /\ UNCHANGED <<up, loop, closed, process, launched, children, held, savedRev,
                 lastError, disk, acked, settled>>

\* Mutant: the core is reported by what it serves halfway.
SwitchHotRecordsEarly ==
  /\ At("apply", "switch")
  /\ process = "live"
  /\ child' = Mixed /\ current' = Mixed
  /\ Goto("hot")
  /\ NoFault
  /\ UNCHANGED <<up, loop, closed, process, launched, children, held, savedRev,
                 lastError, disk, served, acked, settled>>

\* switchTo, ApplyHot starts to change the running core through its API.
SwitchHot ==
  /\ At("apply", "switch")
  /\ process = "live"
  /\ child' = Mixed
  /\ Goto("hot")
  /\ NoFault
  /\ UNCHANGED <<up, loop, closed, process, launched, children, current, held,
                 savedRev, lastError, disk, served, acked, settled>>

\* switchTo, no running core, or a change the API cannot make: replace.
SwitchReplace ==
  /\ At("apply", "switch")
  /\ Goto("stop")
  /\ NoFault
  /\ UNCHANGED <<up, loop, closed, coreVars, savedRev, lastError, disk,
                 served, acked, settled>>

\* Every change of the diff is in.
HotDone ==
  /\ At("apply", "hot")
  /\ process = "live"
  /\ next \notin Broken
  /\ child' = next
  /\ served' = served \cup {next}
  /\ Goto("swap")
  /\ NoFault
  /\ UNCHANGED <<up, loop, closed, process, launched, children, current, held,
                 savedRev, lastError, disk, acked, settled>>

\* Mutant: the failed change is answered and the core left as it is.
HotFailedKeepsCore ==
  /\ At("apply", "hot")
  /\ Goto("fail")
  /\ NoFault
  /\ UNCHANGED <<up, loop, closed, coreVars, savedRev, lastError, disk,
                 served, acked, settled>>

\* One change failed, with others in: the restart cleans up.
HotFailed ==
  /\ At("apply", "hot")
  /\ Goto("stop")
  /\ NoFault
  /\ UNCHANGED <<up, loop, closed, coreVars, savedRev, lastError, disk,
                 served, acked, settled>>

\* setCurrent after a hot apply.
HotRecorded ==
  /\ At("apply", "swap")
  /\ current' = next
  /\ Goto("persist")
  /\ NoFault
  /\ UNCHANGED <<up, loop, closed, process, child, launched, children, held,
                 savedRev, lastError, disk, served, acked, settled>>

----------------------------------------------------------------------------
(* Core.stopProcess and Core.start, shared by every operation              *)

\* What a stopped process makes way for.
AfterStop ==
  CASE holder = "apply"   -> next
    [] holder = "restart" -> current
    [] OTHER              -> None

\* Process.Stop ends the child; or it reports an error, which is only logged,
\* and the child lives on: the signal failed, or the child outlived the wait
\* that follows the kill.  Core.process is nil either way.
StopProcess ==
  /\ pc = "stop"
  /\ process' = "nil" /\ child' = None
  /\ IF holder = "close"
     THEN Release
     ELSE /\ pc' = "launch" /\ target' = AfterStop
          /\ UNCHANGED <<holder, next, prev>>
  /\ \/ /\ alive' = IF process = "live" THEN alive - 1 ELSE alive
        /\ UNCHANGED unstopped /\ NoFault
     \/ /\ process = "live" /\ Fault
        /\ unstopped' = unstopped + 1 /\ UNCHANGED alive
  /\ UNCHANGED <<up, loop, closed, launched, current, held, savedRev,
                 lastError, disk, served, acked, settled>>

\* The child process is started; waitReady begins.
Launch ==
  /\ pc = "launch"
  /\ launched' = target
  /\ alive' = alive + 1
  /\ Goto("wait")
  /\ NoFault
  /\ UNCHANGED <<up, loop, closed, process, child, unstopped, current, held,
                 savedRev, lastError, disk, served, acked, settled>>

\* What the caller of start goes on to when the child serves.
AfterReady ==
  IF holder # "apply" THEN "ok" ELSE IF target = next THEN "persist" ELSE "fail"

\* The child opened its API port and stayed up: only now is it recorded.
Ready ==
  /\ pc = "wait"
  /\ launched \notin Broken
  /\ process' = "live" /\ child' = launched /\ current' = launched
  /\ launched' = None
  /\ held' = FALSE
  /\ served' = served \cup {launched}
  /\ Goto(AfterReady)
  /\ NoFault
  /\ UNCHANGED <<up, loop, closed, children, savedRev, lastError, disk, acked,
                 settled>>

\* Mutant: the comparison with the previous config is inverted.
RollsBackToSame == holder = "apply" /\ target = next /\ prev = next

\* replace goes back to the previous config, once, and only when it is another.
RollsBack == holder = "apply" /\ target = next /\ prev \notin {None, next}

\* The child exited, for no lasting reason, for its config, or because another
\* child holds its ports; or its port stayed closed and Process.Stop ended it.
LaunchedEnds ==
  /\ Fault \/ ((launched \in Broken \/ unstopped > 0) /\ NoFault)
  /\ alive' = alive - 1 /\ UNCHANGED unstopped

\* Its port stayed closed, and the error of Process.Stop is dropped.
LaunchedLivesOn ==
  /\ Fault
  /\ unstopped' = unstopped + 1 /\ UNCHANGED alive

\* The child could not be started, or did not come to serve.
StartFailed ==
  /\ \/ pc = "launch" /\ Fault /\ UNCHANGED children
     \/ pc = "wait" /\ (LaunchedEnds \/ LaunchedLivesOn)
  /\ launched' = None
  /\ IF RollsBack
     THEN pc' = "launch" /\ target' = prev /\ UNCHANGED <<holder, next, prev>>
     ELSE Goto("fail")
  /\ held' = IF holder = "supervise" THEN TRUE ELSE held
  /\ UNCHANGED <<up, loop, closed, process, child, current, savedRev,
                 lastError, disk, served, acked, settled>>

----------------------------------------------------------------------------
(* Core.persist and the answers                                            *)

\* Mutant: what runs is taken for what is stored.
StoredIsCurrent == current = next

\* The disk has the config already, as far as the agent knows.
Stored == savedRev = next

PersistSkipped ==
  /\ At("apply", "persist")
  /\ Stored
  /\ Goto("ok")
  /\ NoFault
  /\ UNCHANGED <<up, loop, closed, coreVars, savedRev, lastError, disk,
                 served, acked, settled>>

\* SaveLastGood: the rename put the new file in place of the old one.
Persist ==
  /\ At("apply", "persist")
  /\ ~Stored
  /\ disk' = next
  /\ Goto("record")
  /\ NoFault
  /\ UNCHANGED <<up, loop, closed, coreVars, savedRev, lastError, served,
                 acked, settled>>

\* SaveLastGood failed: before the rename, or in the directory sync after it.
PersistFailed ==
  /\ At("apply", "persist")
  /\ ~Stored
  /\ \/ UNCHANGED disk
     \/ SaveMayFailLate /\ disk' = next
  /\ Goto("unsaved")
  /\ Fault
  /\ UNCHANGED <<up, loop, closed, coreVars, savedRev, lastError, served,
                 acked, settled>>

\* persist notes the revision it stored.
SavedRecorded ==
  /\ At("apply", "record")
  /\ savedRev' = next
  /\ Goto("ok")
  /\ NoFault
  /\ UNCHANGED <<up, loop, closed, coreVars, lastError, disk, served, acked,
                 settled>>

\* The operation succeeded and clears the error; a push is answered 200.
Succeed ==
  /\ pc = "ok"
  /\ lastError' = IF holder = "boot" THEN lastError ELSE FALSE
  /\ IF holder = "apply"
     THEN acked' = next /\ settled' = TRUE
     ELSE UNCHANGED <<acked, settled>>
  /\ Release
  /\ NoFault
  /\ UNCHANGED <<up, loop, closed, coreVars, savedRev, disk, served>>

\* The operation failed and leaves the error: 422 or 500.
Fail ==
  /\ pc \in {"fail", "unsaved"}
  /\ lastError' = TRUE
  /\ Release
  /\ NoFault
  /\ UNCHANGED <<up, loop, closed, coreVars, savedRev, disk, served, acked,
                 settled>>

----------------------------------------------------------------------------
(* Core.Restart, Core.supervise, Core.Close                                *)

\* Without a config it answers ErrNoConfig and changes nothing.
Restart ==
  /\ current # None
  /\ Acquire("restart", "stop")
  /\ UNCHANGED <<up, loop, closed, coreVars, savedRev, lastError, disk, next,
                 target, faults, served, acked, settled>>

\* Mutant: the supervisor does not look at the process.
NeedsConfigOnly == ~closed /\ current # None /\ ~held

\* Mutant: the supervisor sees a child that died, not one that never started.
NeedsDeadCore == ~closed /\ current # None /\ process = "dead" /\ ~held

\* The core should run and does not, and the backoff is over.
NeedsCore == ~closed /\ current # None /\ process # "live" /\ ~held

\* Core.process keeps pointing at the dead child until start succeeds.
Supervise ==
  /\ loop = "run"
  /\ NeedsCore
  /\ Acquire("supervise", "launch")
  /\ target' = current
  /\ UNCHANGED <<up, loop, closed, coreVars, savedRev, lastError, disk, next,
                 faults, served, acked, settled>>

\* retryAt passes.
BackoffEnds ==
  /\ up /\ held
  /\ held' = FALSE
  /\ UNCHANGED <<up, loop, closed, process, child, launched, children, current,
                 savedRev, lastError, disk, opVars, faults, served, acked,
                 settled, unhurt>>

\* Run's context ends, and with it the supervisor.
Shutdown ==
  /\ up /\ loop = "run" /\ holder # "boot" /\ holder # "supervise"
  /\ loop' = "done"
  /\ UNCHANGED <<up, closed, coreVars, savedRev, lastError, disk, opVars,
                 faults, served, acked, settled, unhurt>>

Close ==
  /\ loop = "done" /\ ~closed
  /\ Acquire("close", "stop")
  /\ closed' = TRUE
  /\ UNCHANGED <<up, loop, coreVars, savedRev, lastError, disk, next, target,
                 faults, served, acked, settled>>

----------------------------------------------------------------------------
(* Deaths                                                                  *)

\* The recorded child exits by itself.
ChildDies ==
  /\ process = "live"
  /\ process' = "dead" /\ child' = None
  /\ alive' = alive - 1
  /\ Fault
  /\ UNCHANGED <<up, loop, closed, launched, unstopped, current, held,
                 savedRev, lastError, disk, opVars, served, acked, settled>>

\* One that outlived its stop exits after all.
UnstoppedEnds ==
  /\ unstopped > 0
  /\ unstopped' = unstopped - 1 /\ alive' = alive - 1
  /\ UNCHANGED <<up, loop, closed, process, child, launched, current, held,
                 savedRev, lastError, disk, opVars, faults, served, acked,
                 settled, unhurt>>

\* A stored push that was not answered yet.
Unanswered == holder = "apply" /\ pc \in {"record", "ok"}

\* The agent's process ends, at Run's end or by a crash or a reboot, and the
\* service manager ends the children with it.  Only the disk stays.
AgentDies ==
  /\ up
  /\ up' = FALSE /\ loop' = "boot" /\ closed' = FALSE
  /\ process' = "nil" /\ child' = None /\ launched' = None
  /\ alive' = 0 /\ unstopped' = 0
  /\ current' = None /\ savedRev' = None
  /\ lastError' = FALSE /\ held' = FALSE
  /\ Release
  /\ settled' = (settled /\ ~Unanswered)
  /\ unhurt' = FALSE
  /\ UNCHANGED <<disk, faults, served, acked>>

AgentStarts ==
  /\ ~up
  /\ up' = TRUE
  /\ UNCHANGED <<loop, closed, coreVars, savedRev, lastError, disk, opVars,
                 faults, served, acked, settled, unhurt>>

----------------------------------------------------------------------------

\* The steps of the operation that holds applyMu.
ApplyStep ==
  \/ ApplySame \/ ApplyTested \/ ApplyRefused
  \/ SwitchNoop \/ SwitchHot \/ SwitchReplace
  \/ HotDone \/ HotFailed \/ HotRecorded
  \/ PersistSkipped \/ Persist \/ PersistFailed \/ SavedRecorded

ProcessStep == StopProcess \/ Launch \/ Ready \/ StartFailed

Advance == ApplyStep \/ ProcessStep \/ Succeed \/ Fail

Boot == BootYields \/ BootLoads \/ BootCannotLoad

Next ==
  \/ Boot
  \/ \E c \in Config : Push(c)
  \/ Restart \/ Supervise \/ BackoffEnds \/ Shutdown \/ Close
  \/ Advance
  \/ ChildDies \/ UnstoppedEnds \/ AgentDies \/ AgentStarts

(***************************************************************************)
(* An operation in progress goes on, the goroutine of Run boots, the       *)
(* supervisor's ticker fires every two seconds and applyMu, which hands    *)
(* over in order once a waiter starves, lets it in; the backoff is a clock *)
(* and the service manager starts an agent that ended.                     *)
(***************************************************************************)
Fairness ==
  /\ WF_vars(Advance)
  /\ SF_vars(Boot)
  /\ SF_vars(Supervise)
  /\ WF_vars(BackoffEnds)
  /\ WF_vars(AgentStarts)

Spec == Init /\ [][Next]_vars /\ Fairness

----------------------------------------------------------------------------
(* Properties                                                              *)

\* What a reboot brings back has served before: last-good.json never holds a
\* config that no core came up with (persist comes after switchTo).
SavedHasServed == disk # None => disk \in served

\* A push that was answered with success is what a reboot brings back, until
\* a later push is stored; a push that failed, a SaveError included, changes
\* nothing of it, and savedRev never hides that the disk is behind.
AckIsDurable == acked # None /\ settled /\ ~Unanswered => disk = acked

\* The revision that Snapshot and Stats report is what the running core
\* serves, whatever rollback, retry or hot apply led there; only while a hot
\* apply is made or cleaned up after is the core elsewhere.
ReportedIsServed ==
  process = "live" =>
    \/ child = current
    \/ child = Mixed /\ holder = "apply" /\ pc \in {"hot", "stop"}
    \/ child = next /\ At("apply", "swap")

\* Two cores never run side by side, unless one of them outlived a
\* Process.Stop that reported an error: no operation launches a core beside
\* one that it has not tried to stop, and none forgets a live one.
OneCore == alive <= 1 + unstopped

\* A refused push leaves what it found: the config the core last ran is the
\* one from before the push, and a core that served it and met with no other
\* trouble serves it again when the master reads the answer.
RefusedPushRestores ==
  At("apply", "fail") =>
    /\ current = prev
    /\ unhurt => process = "live" /\ child = prev

\* While the agent runs, only a push moves it from one config to another: a
\* boot that comes late, a restart or the supervisor never does.
OnlyPushesChangeConfig ==
  [][up' /\ current # None /\ current' # current => holder = "apply"]_vars

\* An agent that has a config and is not shutting down gets its core serving
\* again, after whatever deaths and failed starts, unless a child that
\* outlived its stop goes on holding the ports.
Recovers ==
  (up /\ current # None)
    ~> (process = "live" \/ ~up \/ loop = "done" \/ unstopped > 0)

\* What the node promises of the configs it is given, by the push that holds
\* applyMu: the fields of Core and its disk implement NodeConfig.
Promise == INSTANCE NodeConfig WITH
  conf   <- current,
  saved  <- disk,
  asked  <- IF holder = "apply" THEN next ELSE None,
  before <- IF holder = "apply" THEN prev ELSE None

\* Every push is answered as NodeConfig says, across the steps of Apply, its
\* rollback, the saves that fail, the boots and the deaths: "ok" only if the
\* node has and stored the config, a refusal only if it kept the one before.
KeepsPromise == Promise!Spec

\* What Boot's comment says: a failure to start the stored config is retried,
\* so an agent with a stored config comes to serve one.
StoredConfigIsServed ==
  (up /\ disk # None)
    ~> (process = "live" \/ ~up \/ loop = "done" \/ unstopped > 0)
=============================================================================
