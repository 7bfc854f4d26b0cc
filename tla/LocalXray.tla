----------------------------- MODULE LocalXray -----------------------------
(***************************************************************************)
(* The Xray core of the panel itself (internal/web/service/xray.go): how   *)
(* the database, the running core and the panel's snapshot of what the     *)
(* core was given (process.GetConfig) are kept together.                   *)
(*                                                                         *)
(* Three parties change the core.  RestartXray builds a config from the    *)
(* database, under one lock, and refuses it, applies the difference with   *)
(* the snapshot over the core's API, or replaces the process.  An edit of  *)
(* a client commits to the database and then, without that lock, pushes    *)
(* one user to the core; the snapshot does not learn of it.  The operator  *)
(* stops and starts the core.  A push that fails asks for a reconciliation *)
(* (SetToNeedRestart), which a 30 second job carries out; a watchdog       *)
(* brings back a core that died.  Nothing orders a push against a restart  *)
(* that it overlaps, and process.Stop may fail and leave the core alive.   *)
(*                                                                         *)
(* A config is the set of the enabled clients and a base: all the rest of  *)
(* it, of which no part can be applied over the API.  TUIC relays appear   *)
(* only as an apply that is deferred, and each client has one edit under   *)
(* way at a time, as lockInbound orders the edits of an inbound.           *)
(***************************************************************************)
EXTENDS Naturals

CONSTANTS
  Client,
  Base,           \* what the rest of a config may be
  FirstBase,      \* the base of the database when the panel starts
  Refused,        \* bases with a port conflict: no core can serve them
  NoBase,         \* no process yet
  Template,       \* the save of a base, among the edits
  MaxEdits,       \* bound on what the operator and the quotas do
  MaxFaults       \* bound on crashes and on failures of calls

ASSUME LocalXrayAssumption ==
  /\ Refused \subseteq Base
  /\ FirstBase \in Base \ Refused
  /\ NoBase \notin Base
  /\ Template \notin Client
  /\ MaxEdits \in Nat
  /\ MaxFaults \in Nat

VARIABLES
  dbUsers, dbBase,      \* the database
  up,                   \* process.IsRunning
  coreUsers, coreBase,  \* what the running core serves
  snapUsers, snapBase,  \* process.GetConfig
  lingering,  \* clients that a running core lost over the API: their
              \* connections may still be open
  unstopped,  \* cores that outlived a process.Stop that failed: the core
              \* itself, of StopXray ("own"), or one before it ("old")
  missed,     \* history: edits that the core has lost, or may have, while
              \* nothing is pending that would bring them
  needRestart, needReconcile, stopped,  \* the three global flags
  halted,     \* history: the operator stopped the core and has not forced a
              \* start since
  heldBack,   \* whether xrayState.heldBack is set
  setting,    \* RestartXrayOnClientDisable
  caller,     \* who is inside RestartXray, holding lock
  pc,
  cfgUsers, cfgBase,    \* the config that was built
  armed,      \* the flags that ApplyPendingRestart took, while it waits
  push,       \* per client: the edit that is committed and not pushed yet
  late,       \* the edits committed since the config was built
  calls,      \* calls of RestartXray(false) that a caller is about to make
  dropFailed, \* the traffic job's needRestart, set after its own call
  checks,     \* checkTime of the watchdog
  edits, faults,
  unhurt      \* history: a working core ran when the call began, no core
              \* had outlived its stop, and no fault struck since

dbVars    == <<dbUsers, dbBase>>
coreVars  == <<up, coreUsers, coreBase, lingering, unstopped, missed>>
snapVars  == <<snapUsers, snapBase>>
flagVars  == <<needRestart, needReconcile>>
stopVars  == <<stopped, halted>>
callVars  == <<caller, pc, cfgUsers, cfgBase>>
editVars  == <<push, late, calls, dropFailed>>
countVars == <<edits, faults, unhurt>>

vars == <<dbVars, coreVars, snapVars, flagVars, stopVars, heldBack, setting,
          callVars, armed, editVars, checks, countVars>>

Callers == {"force", "apply", "watch", "save", "disable"}

TypeOK ==
  /\ dbUsers \subseteq Client /\ dbBase \in Base
  /\ up \in BOOLEAN
  /\ coreUsers \subseteq Client /\ coreBase \in Base \cup {NoBase}
  /\ snapUsers \subseteq Client /\ snapBase \in Base \cup {NoBase}
  /\ lingering \subseteq Client
  /\ unstopped \subseteq {"own", "old"}
  /\ missed \subseteq Client \cup {Template}
  /\ needRestart \in BOOLEAN /\ needReconcile \in BOOLEAN
  /\ stopped \in BOOLEAN /\ halted \in BOOLEAN
  /\ heldBack \in BOOLEAN /\ setting \in BOOLEAN
  /\ caller \in Callers \cup {"none"}
  /\ pc \in {"idle", "built", "hot", "stop", "launch", "ok", "error"}
  /\ cfgUsers \subseteq Client /\ cfgBase \in Base \cup {NoBase}
  /\ armed \subseteq {"restart", "reconcile"}
  /\ push \in [Client -> {"none", "add", "del", "drop"}]
  /\ late \subseteq Client \cup {Template}
  /\ calls \subseteq {"save", "disable"}
  /\ dropFailed \in BOOLEAN
  /\ checks \in 0..2
  /\ edits \in 0..MaxEdits /\ faults \in 0..MaxFaults
  /\ unhurt \in BOOLEAN

\* The panel starts: no process yet, whatever clients the database holds.
Init ==
  /\ dbUsers \in SUBSET Client /\ dbBase = FirstBase
  /\ up = FALSE /\ coreUsers = {} /\ coreBase = NoBase /\ lingering = {}
  /\ unstopped = {} /\ missed = {}
  /\ snapUsers = {} /\ snapBase = NoBase
  /\ needRestart = FALSE /\ needReconcile = FALSE
  /\ stopped = FALSE /\ halted = FALSE
  /\ heldBack = FALSE /\ setting \in BOOLEAN
  /\ caller = "none" /\ pc = "idle" /\ cfgUsers = {} /\ cfgBase = NoBase
  /\ armed = {} /\ push = [c \in Client |-> "none"] /\ late = {}
  /\ calls = {} /\ dropFailed = FALSE /\ checks = 0
  /\ edits = 0 /\ faults = 0 /\ unhurt = FALSE

----------------------------------------------------------------------------
(* Helpers                                                                 *)

Fault ==
  /\ faults < MaxFaults
  /\ faults' = faults + 1
  /\ unhurt' = FALSE
  /\ UNCHANGED edits

Edit ==
  /\ edits < MaxEdits
  /\ edits' = edits + 1
  /\ UNCHANGED <<faults, unhurt>>

Goto(step) == pc' = step /\ UNCHANGED <<caller, cfgUsers, cfgBase>>

\* The core's process is gone, and every connection with it.
CoreGone ==
  /\ up' = FALSE /\ coreUsers' = {} /\ coreBase' = NoBase /\ lingering' = {}
  /\ unstopped' = unstopped \ {"own"}
  /\ missed' = {}

----------------------------------------------------------------------------
(* RestartXray: acquire lock, read the flags, build from the database      *)

\* Mutant: any caller starts a core that the operator stopped.
MayAlwaysRun(who) == who \in Callers

\* Whether a call goes past the check of the manual stop.
MayRun(who) == who = "force" \/ ~stopped

Enter(who) ==
  /\ caller = "none"
  /\ caller' = who
  /\ late' = {}
  /\ UNCHANGED <<dbVars, coreVars, snapVars, flagVars, setting, push,
                 dropFailed, faults>>
  /\ IF MayRun(who)
       THEN /\ pc' = "built" /\ cfgUsers' = dbUsers /\ cfgBase' = dbBase
            /\ stopped' = FALSE
            /\ unhurt' = (up /\ coreBase \notin Refused /\ unstopped = {})
       ELSE /\ pc' = "ok"
            /\ UNCHANGED <<stopped, cfgUsers, cfgBase, unhurt>>
  /\ halted' = (halted /\ who # "force")

\* buildXrayConfig fails.  A running core is held back.
BuildFails ==
  /\ pc = "built"
  /\ Fault
  /\ Goto("error")
  /\ heldBack' = (heldBack \/ up)
  /\ UNCHANGED <<dbVars, coreVars, snapVars, flagVars, stopVars, setting,
                 armed, editVars, checks>>

Unchanged == cfgUsers = snapUsers /\ cfgBase = snapBase

\* Mutant: the ports of a new config are not compared with the running one.
NoConflicts == FALSE

\* bindConflicts against the running config.
Conflicts == cfgBase \in Refused /\ snapBase # cfgBase

NothingToDo == caller # "force" /\ Unchanged /\ ~needRestart

AlreadyServed ==
  /\ pc = "built" /\ up
  /\ NothingToDo
  /\ Goto("ok")
  /\ UNCHANGED <<dbVars, coreVars, snapVars, flagVars, stopVars, heldBack,
                 setting, armed, editVars, checks, countVars>>

Refuse ==
  /\ pc = "built" /\ up
  /\ ~NothingToDo
  /\ Conflicts
  /\ heldBack' = TRUE
  /\ Goto("error")
  /\ UNCHANGED <<dbVars, coreVars, snapVars, flagVars, stopVars, setting,
                 armed, editVars, checks, countVars>>

\* ComputeHotDiff succeeds, and restartToDropClients does not object.
Leaving  == snapUsers \ cfgUsers
Arriving == cfgUsers \ snapUsers
HotApplicable ==
  /\ caller # "force" /\ ~Unchanged
  /\ cfgBase = snapBase
  /\ ~(setting /\ Leaving # {})

Decide ==
  /\ pc = "built"
  /\ up => ~NothingToDo /\ ~Conflicts
  /\ Goto(IF ~up THEN "launch" ELSE IF HotApplicable THEN "hot" ELSE "stop")
  /\ UNCHANGED <<dbVars, coreVars, snapVars, flagVars, stopVars, heldBack,
                 setting, armed, editVars, checks, countVars>>

----------------------------------------------------------------------------
(* tryHotApply                                                             *)

\* Mutant: clients that left the config are not removed.
OnlyArriving == coreUsers \cup Arriving

\* The users of the core after applyXrayHotDiff: the difference between the
\* snapshot and the new config, applied to whatever the core serves.
Patched == (coreUsers \ Leaving) \cup Arriving

\* The edits that the config which is applied now has not seen, and of which
\* the push has come too early, or the save found no core to restart.
Overtaken ==
  {e \in late :
     IF e = Template
       THEN "save" \notin calls /\ cfgBase # dbBase
       ELSE push[e] = "none" /\ ~(e \in cfgUsers <=> e \in dbUsers)}

Patch ==
  /\ coreUsers' = Patched
  /\ lingering' = (lingering \cup (Leaving \cap coreUsers)) \ Arriving
  /\ LET touched == Leaving \cup Arriving IN
       missed' = (missed \ touched) \cup (Overtaken \cap touched)
  /\ UNCHANGED <<up, coreBase, unstopped>>
  /\ snapUsers' = cfgUsers /\ UNCHANGED snapBase

HotApplied ==
  /\ pc = "hot" /\ up
  /\ Patch
  /\ Goto("ok")
  /\ UNCHANGED <<dbVars, flagVars, stopVars, heldBack, setting, armed,
                 editVars, checks, countVars>>

\* The API fails, or the change needs a restart after all.
HotFails ==
  /\ pc = "hot"
  /\ up => Fault
  /\ ~up => UNCHANGED countVars
  /\ Goto("stop")
  /\ UNCHANGED <<dbVars, coreVars, snapVars, flagVars, stopVars, heldBack,
                 setting, armed, editVars, checks>>

\* A TUIC relay fails: the update is deferred, with or without the rest.
HotDeferred ==
  /\ pc = "hot" /\ up
  /\ Fault
  /\ \/ Patch
     \/ UNCHANGED <<coreVars, snapVars>>
  /\ needReconcile' = TRUE
  /\ Goto("error")
  /\ UNCHANGED <<dbVars, needRestart, stopVars, heldBack, setting, armed,
                 editVars, checks>>

----------------------------------------------------------------------------
(* The process is replaced                                                 *)

\* The error of process.Stop is dropped: the core may live on.
StopProcess ==
  /\ pc = "stop"
  /\ \/ CoreGone /\ UNCHANGED countVars
     \/ /\ up /\ Fault
        /\ unstopped' = {"old"}
        /\ UNCHANGED <<up, coreUsers, coreBase, lingering, missed>>
  /\ Goto("launch")
  /\ UNCHANGED <<dbVars, snapVars, flagVars, stopVars, heldBack, setting,
                 armed, editVars, checks>>

\* NewProcess, xrayState.replace, Start.
Launch ==
  /\ pc = "launch"
  /\ snapUsers' = cfgUsers /\ snapBase' = cfgBase
  /\ heldBack' = FALSE
  /\ \/ /\ up' = TRUE /\ coreUsers' = cfgUsers /\ coreBase' = cfgBase
        /\ lingering' = {} /\ missed' = Overtaken
        /\ Goto("ok")
        /\ UNCHANGED <<unstopped, countVars>>
     \/ /\ Fault
        /\ Goto("error")
        /\ CoreGone
  /\ UNCHANGED <<dbVars, flagVars, stopVars, setting, armed, editVars, checks>>

----------------------------------------------------------------------------
(* The callers                                                             *)

\* The operator's start or restart, and startTask when the panel starts.
ForceCall ==
  /\ Enter("force")
  /\ edits < MaxEdits /\ edits' = edits + 1
  /\ UNCHANGED <<heldBack, armed, calls, checks>>

\* A save of the template, or the traffic job after it disabled clients.
PendingCall(who) ==
  /\ who \in calls
  /\ Enter(who)
  /\ calls' = calls \ {who}
  /\ UNCHANGED <<heldBack, armed, checks, edits>>

\* The 30 second job takes the flags, then waits for the lock.
TakeFlags ==
  /\ armed = {} /\ caller # "apply"
  /\ needRestart \/ needReconcile
  /\ armed' = {f \in {"restart", "reconcile"} :
                 IF f = "restart" THEN needRestart ELSE needReconcile}
  /\ needRestart' = FALSE /\ needReconcile' = FALSE
  /\ UNCHANGED <<dbVars, coreVars, snapVars, stopVars, heldBack, setting,
                 callVars, editVars, checks, countVars>>

ApplyCall ==
  /\ armed # {}
  /\ Enter("apply")
  /\ UNCHANGED <<heldBack, armed, calls, checks, edits>>

\* Mutant: the watchdog counts on, whatever it has counted.
WatchCounts ==
  /\ caller # "watch"
  /\ checks' = IF ~up /\ ~stopped THEN checks + 1 ELSE 0
  /\ UNCHANGED <<dbVars, coreVars, snapVars, flagVars, stopVars, heldBack,
                 setting, callVars, armed, editVars, countVars>>

\* The watchdog restarts a core that it found dead twice in a row.
WatchCheck ==
  /\ checks < 2 /\ caller # "watch"
  /\ checks' = IF ~up /\ ~stopped THEN checks + 1 ELSE 0
  /\ UNCHANGED <<dbVars, coreVars, snapVars, flagVars, stopVars, heldBack,
                 setting, callVars, armed, editVars, countVars>>

WatchCall ==
  /\ checks = 2
  /\ Enter("watch")
  /\ checks' = 0
  /\ UNCHANGED <<heldBack, armed, calls, edits>>

\* Mutant: ApplyPendingRestart forgets its flags when the call fails.
RearmsNothing(failed) == [restart |-> FALSE, reconcile |-> FALSE]

\* Which flags the caller sets when its call returns.
Rearms(failed) ==
  [restart   |-> \/ caller = "apply" /\ failed /\ "restart" \in armed
                 \/ caller = "disable" /\ (failed \/ dropFailed),
   reconcile |-> caller = "apply" /\ failed /\ "reconcile" \in armed]

Return ==
  /\ pc \in {"ok", "error"}
  /\ LET rearm == Rearms(pc = "error") IN
       /\ needRestart' = (needRestart \/ rearm.restart)
       /\ needReconcile' = (needReconcile \/ rearm.reconcile)
  /\ armed' = IF caller = "apply" THEN {} ELSE armed
  /\ dropFailed' = (dropFailed /\ caller # "disable")
  /\ caller' = "none" /\ pc' = "idle" /\ cfgUsers' = {} /\ cfgBase' = NoBase
  /\ late' = {} /\ unhurt' = FALSE
  /\ UNCHANGED <<dbVars, coreVars, snapVars, stopVars, heldBack, setting,
                 push, calls, checks, edits, faults>>

----------------------------------------------------------------------------
(* Edits: commit to the database, then push to the core                    *)

Late(e) == late' = IF pc = "idle" THEN late ELSE late \cup {e}

CommitAdd(c) ==
  /\ c \notin dbUsers /\ push[c] = "none"
  /\ Edit
  /\ dbUsers' = dbUsers \cup {c}
  /\ push' = [push EXCEPT ![c] = "add"]
  /\ Late(c)
  /\ UNCHANGED <<dbBase, coreVars, snapVars, flagVars, stopVars, heldBack,
                 setting, callVars, armed, calls, dropFailed, checks>>

\* The operator deletes or disables a client ("del"), or the traffic job
\* disables one that is depleted or expired ("drop").
CommitRemoval(c, how) ==
  /\ c \in dbUsers /\ push[c] = "none"
  /\ how = "drop" => \A d \in Client : push[d] # "drop"
  /\ how = "drop" => "disable" \notin calls /\ caller # "disable"
  /\ Edit
  /\ dbUsers' = dbUsers \ {c}
  /\ push' = [push EXCEPT ![c] = how]
  /\ Late(c)
  /\ UNCHANGED <<dbBase, coreVars, snapVars, flagVars, stopVars, heldBack,
                 setting, callVars, armed, calls, dropFailed, checks>>

\* A push fails, and the flag that it sets brings nothing if the snapshot
\* says of the client what the database says: no config will differ.
PushLost(c) ==
  /\ Fault
  /\ missed' = missed \cup
       IF c \in snapUsers <=> c \in dbUsers THEN {c} ELSE {}

PushAdd(c) ==
  /\ push[c] = "add"
  /\ push' = [push EXCEPT ![c] = "none"]
  /\ \/ /\ up /\ c \notin coreUsers
        /\ coreUsers' = coreUsers \cup {c} /\ lingering' = lingering \ {c}
        /\ missed' = missed \ {c}
        /\ UNCHANGED <<needRestart, countVars>>
     \/ /\ needRestart' = TRUE
        /\ IF up /\ c \notin coreUsers THEN PushLost(c)
                                     ELSE UNCHANGED <<missed, countVars>>
        /\ UNCHANGED <<coreUsers, lingering>>
  /\ UNCHANGED <<dbVars, up, coreBase, unstopped, snapVars, needReconcile,
                 stopVars, heldBack, setting, callVars, armed, late, calls,
                 dropFailed, checks>>

\* Mutant: droppedClientNeedsRestart does not look at the setting.
AfterRemovalNoRestart(c, failed) ==
  /\ needRestart' = (needRestart \/ failed)
  /\ UNCHANGED <<calls, dropFailed>>

\* What a removal asks for after it succeeded, by who asked for it.
AfterRemoval(c, failed) ==
  IF push[c] = "del"
    THEN /\ needRestart' = (needRestart \/ failed \/ setting)
         /\ UNCHANGED <<calls, dropFailed>>
    ELSE IF setting
      THEN /\ calls' = calls \cup {"disable"} /\ dropFailed' = failed
           /\ UNCHANGED needRestart
      ELSE /\ needRestart' = (needRestart \/ failed)
           /\ UNCHANGED <<calls, dropFailed>>

PushRemoval(c) ==
  /\ push[c] \in {"del", "drop"}
  /\ push' = [push EXCEPT ![c] = "none"]
  /\ \/ /\ up /\ c \in coreUsers
        /\ coreUsers' = coreUsers \ {c} /\ lingering' = lingering \cup {c}
        /\ missed' = missed \ {c}
        /\ AfterRemoval(c, FALSE)
        /\ UNCHANGED countVars
     \/ /\ up /\ c \notin coreUsers  \* "not found"
        /\ IF push[c] = "drop" THEN AfterRemoval(c, FALSE)
                               ELSE UNCHANGED <<needRestart, calls, dropFailed>>
        /\ UNCHANGED <<coreUsers, lingering, missed, countVars>>
     \/ /\ IF up THEN PushLost(c) ELSE UNCHANGED <<missed, countVars>>
        /\ AfterRemoval(c, TRUE)
        /\ UNCHANGED <<coreUsers, lingering>>
  /\ UNCHANGED <<dbVars, up, coreBase, unstopped, snapVars, needReconcile,
                 stopVars, heldBack, setting, callVars, armed, late, checks>>

\* The template is saved; RestartXray(false) follows if the core runs.
CommitBase(b) ==
  /\ b # dbBase /\ "save" \notin calls
  /\ Edit
  /\ dbBase' = b
  /\ calls' = calls \cup {"save"}
  /\ Late(Template)
  /\ UNCHANGED <<dbUsers, coreVars, snapVars, flagVars, stopVars, heldBack,
                 setting, callVars, armed, push, dropFailed, checks>>

SaveFindsNoCore ==
  /\ "save" \in calls /\ ~up
  /\ calls' = calls \ {"save"}
  /\ UNCHANGED <<dbVars, coreVars, snapVars, flagVars, stopVars, heldBack,
                 setting, callVars, armed, push, late, dropFailed, checks,
                 countVars>>

----------------------------------------------------------------------------
(* The operator's stop, and what happens to the process                    *)

\* The operator is told when process.Stop fails; the flag stays set.
StopXray ==
  /\ caller = "none"
  /\ stopped' = TRUE /\ halted' = TRUE
  /\ \/ CoreGone /\ Edit
     \/ /\ up /\ Fault
        /\ unstopped' = unstopped \cup {"own"}
        /\ UNCHANGED <<up, coreUsers, coreBase, lingering, missed>>
  /\ UNCHANGED <<dbVars, snapVars, flagVars, heldBack, setting, callVars,
                 armed, editVars, checks>>

\* The core dies; one that was to stop, or that does not get its ports while
\* the old one has them, without a fault of its own.
CoreCrashes ==
  /\ up
  /\ coreBase \notin Refused
  /\ IF unstopped = {} THEN Fault ELSE UNCHANGED countVars
  /\ CoreGone
  /\ UNCHANGED <<dbVars, snapVars, flagVars, stopVars, heldBack, setting,
                 callVars, armed, editVars, checks>>

\* A core that the panel has replaced ends at last.
OldCoreEnds ==
  /\ "old" \in unstopped
  /\ ~(pc = "launch" /\ up)
  /\ unstopped' = unstopped \ {"old"}
  /\ UNCHANGED <<dbVars, up, coreUsers, coreBase, lingering, missed, snapVars,
                 flagVars, stopVars, heldBack, setting, callVars, armed,
                 editVars, checks, countVars>>

\* A core that cannot bind its ports exits.
RefusedCoreExits ==
  /\ up /\ coreBase \in Refused
  /\ CoreGone
  /\ UNCHANGED <<dbVars, snapVars, flagVars, stopVars, heldBack, setting,
                 callVars, armed, editVars, checks, countVars>>

----------------------------------------------------------------------------

\* The steps inside RestartXray.
Step ==
  \/ BuildFails \/ AlreadyServed \/ Refuse \/ Decide
  \/ HotApplied \/ HotFails \/ HotDeferred
  \/ StopProcess \/ Launch \/ Return

Push(c) == PushAdd(c) \/ PushRemoval(c)

Next ==
  \/ Step
  \/ ForceCall \/ ApplyCall \/ WatchCall
  \/ \E who \in {"save", "disable"} : PendingCall(who)
  \/ TakeFlags \/ WatchCheck \/ SaveFindsNoCore
  \/ \E c \in Client :
       \/ CommitAdd(c) \/ PushAdd(c) \/ PushRemoval(c)
       \/ \E how \in {"del", "drop"} : CommitRemoval(c, how)
  \/ \E b \in Base : CommitBase(b)
  \/ StopXray \/ CoreCrashes \/ OldCoreEnds \/ RefusedCoreExits

\* Code that runs goes on, and the two jobs tick.
Fairness ==
  /\ WF_vars(Step)
  /\ WF_vars(TakeFlags \/ ApplyCall)
  /\ WF_vars(WatchCheck \/ WatchCall)
  /\ \A who \in {"save", "disable"} : WF_vars(PendingCall(who))
  /\ \A c \in Client : WF_vars(Push(c))
  /\ WF_vars(SaveFindsNoCore)
  /\ WF_vars(RefusedCoreExits)

Spec == Init /\ [][Next]_vars /\ Fairness

----------------------------------------------------------------------------
(* Properties                                                              *)

Quiet ==
  /\ pc = "idle" /\ armed = {} /\ calls = {}
  /\ ~needRestart /\ ~needReconcile
  /\ \A c \in Client : push[c] = "none"

\* The clients that the core does not serve as the database says.
Behind == (coreUsers \ dbUsers) \cup (dbUsers \ coreUsers)

\* When nothing is under way and nothing is pending, a running core serves
\* the clients of the database, whatever failed before (a push, a build, a
\* hot apply, a start, a stop of a core that was replaced).  It serves the
\* base of the database as well, or the status page says that it is held
\* back.  Not so the edits that are missed: pushed to, or saved for, the core
\* that a restart under way then replaced, while its config, which no lock
\* orders against an edit (xray.go:1695, local.go:74), does not have them; and
\* a push that failed where the snapshot already says what the database says,
\* so that the reconciliation finds no difference (xray.go:1706, 2039).  A
\* core that the operator could not stop is not looked after.
CoreIsCurrent ==
  Quiet /\ up /\ "own" \notin unstopped =>
    /\ Behind \subseteq missed
    /\ coreBase = dbBase \/ heldBack \/ Template \in missed

\* With RestartXrayOnClientDisable, when nothing is pending no connection is
\* left of a client that was removed over the API and that the last applied
\* config held: its removal ended in a replaced process, even when it was
\* pushed to a core that a restart was about to replace.  (Not if the push
\* that was to bring the client back failed unseen, or a core outlived its
\* process.Stop.)
KnownSessionsEnd ==
  setting /\ Quiet /\ unstopped = {} =>
    lingering \cap snapUsers \subseteq missed

\* A core that the operator stopped, and that is down, stays down until the
\* operator forces a start: neither the job, the watchdog, a save nor the
\* disabling of clients brings the process back, not those that waited for
\* the lock or held flags while it was stopped either.
StoppedStaysDown == [][halted /\ ~up => ~up']_vars

\* A call that began with a working core, and met no failure of a call or
\* of the process, leaves a core that works: a config the ports of which
\* conflict never replaces it.
WorkingCoreIsKept ==
  [][Return /\ unhurt => up /\ coreBase \notin Refused]_vars

\* Once the edits and the faults are over, the core serves the database for
\* good but for the edits that are missed (see CoreIsCurrent), unless it is
\* stopped, held back, or the base cannot be served, or a core that could not
\* be stopped lives on.
Converges ==
  <>[](\/ stopped \/ dbBase \in Refused \/ unstopped # {}
       \/ /\ up /\ Behind \subseteq missed
          /\ coreBase = dbBase \/ heldBack \/ Template \in missed)

\* Does not hold, although the comment of GetHeldBackConfig says so ("" when
\* the pending config was applied): once a call has applied the config, or
\* found that the core already serves it, the status page no longer says that
\* the core is held back.  Only a new process clears it.
HeldBackEnds == [][Return /\ pc = "ok" /\ up => ~heldBack]_vars
=============================================================================
