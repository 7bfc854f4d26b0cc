-------------------------- MODULE LocalXray_proofs --------------------------
(***************************************************************************)
(* The safety properties of LocalXray, for any clients, bases and bounds.  *)
(*                                                                         *)
(* A client whose push failed is one that the next applied config repairs: *)
(* the snapshot differs from the database for it, and a call that applies  *)
(* its config, or sets its flags again, is bound to come (Served, Repair). *)
(* Inside a call the config is the database but for the edits that came    *)
(* later (Built): what such an edit pushed is overtaken, and missed.       *)
(***************************************************************************)
EXTENDS LocalXray, TLAPS

Types ==
  /\ dbUsers \subseteq Client /\ dbBase \in Base
  /\ coreUsers \subseteq Client /\ coreBase \in Base \cup {NoBase}
  /\ snapUsers \subseteq Client /\ snapBase \in Base \cup {NoBase}
  /\ lingering \subseteq Client
  /\ unstopped \subseteq {"own", "old"}
  /\ missed \subseteq Client \cup {Template}
  /\ caller \in Callers \cup {"none"}
  /\ pc \in {"idle", "built", "hot", "stop", "launch", "ok", "error"}
  /\ cfgUsers \subseteq Client /\ cfgBase \in Base \cup {NoBase}
  /\ armed \subseteq {"restart", "reconcile"}
  /\ push \in [Client -> {"none", "add", "del", "drop"}]
  /\ late \subseteq Client \cup {Template}
  /\ calls \subseteq {"save", "disable"}
  /\ checks \in 0..2
  /\ edits \in 0..MaxEdits /\ faults \in 0..MaxFaults

Flags ==
  /\ up \in BOOLEAN /\ needRestart \in BOOLEAN /\ needReconcile \in BOOLEAN
  /\ stopped \in BOOLEAN /\ halted \in BOOLEAN
  /\ heldBack \in BOOLEAN /\ setting \in BOOLEAN
  /\ dropFailed \in BOOLEAN /\ unhurt \in BOOLEAN

\* Inside a call, with the config built.
Inside == {"built", "hot", "stop", "launch"}

\* A call is bound to come that builds a config for the clients.
Coming ==
  \/ needRestart \/ needReconcile \/ "disable" \in calls
  \/ armed # {} /\ caller # "apply"

Same(A, B, c) == c \in A <=> c \in B

\* It may also be the call that is under way, which sets its flags again when
\* it fails, and of which the config differs for the client.
Repair(c) ==
  \/ Coming
  \/ /\ caller \in {"apply", "disable"}
     /\ \/ pc = "error"
        \/ pc \in {"built", "hot", "stop"} /\ ~Same(cfgUsers, snapUsers, c)

\* The panel looks after its core: it could stop it when it wanted to.
Tended == up /\ "own" \notin unstopped /\ pc # "launch"

\* How the caller, the flags, the process and its snapshot go together.
Control ==
  /\ pc = "idle" <=> caller = "none"
  /\ caller = "apply" => armed # {}
  /\ stopped => (~up \/ "own" \in unstopped) /\ pc \in {"idle", "ok"}
  /\ halted => stopped
  /\ ~up => lingering = {}
  /\ lingering \cap coreUsers = {}
  /\ up => coreBase = snapBase
  /\ pc = "hot" => cfgBase = snapBase

\* The base of the database is served, or held back, or about to be applied.
Bases ==
  /\ pc \in Inside => cfgBase = dbBase \/ Template \in late
  /\ pc \in Inside /\ up => cfgBase = dbBase \/ "save" \in calls
  /\ Tended /\ pc \notin {"built", "stop"} =>
       \/ coreBase = dbBase \/ heldBack
       \/ "save" \in calls \/ Template \in missed

\* What the pending push of a client is going to do.
Edits ==
  \A c \in Client : /\ push[c] = "add" => c \in dbUsers
                    /\ push[c] \in {"del", "drop"} => c \notin dbUsers

\* The config is the database, but for the late edits.
Built ==
  pc \in Inside => \A c \in Client \ late : Same(cfgUsers, dbUsers, c)

\* The core serves a client as the database says, or it will be repaired, or
\* it is missed.
Served ==
  Tended => \A c \in Client :
    push[c] = "none" => \/ Same(coreUsers, dbUsers, c)
                        \/ ~Same(snapUsers, dbUsers, c) /\ Repair(c)
                        \/ c \in missed

\* Connections of a removed client are left only while a call is to come.
Sessions ==
  setting /\ Tended => \A c \in lingering \cap snapUsers :
    \/ c \in missed \/ push[c] = "add"
    \/ push[c] = "none" /\ c \notin dbUsers /\ Repair(c)

DropsNobody == pc = "hot" /\ setting => snapUsers \subseteq cfgUsers

\* A call that no fault struck has a working core, or a config that works.
Working ==
  unhurt => /\ unstopped = {}
            /\ pc \in {"built", "hot", "stop", "ok", "error"} =>
                 up /\ coreBase \notin Refused
            /\ pc \in {"stop", "launch"} => cfgBase \notin Refused
            /\ pc # "idle"

Orderly == Types /\ Flags /\ Control /\ Working

Clients == Bases /\ Edits /\ Built /\ Served /\ Sessions /\ DropsNobody

----------------------------------------------------------------------------
(* The order of the calls, and the process                                 *)

\* What the push of an edit leaves alone.
LEMMA PushFrame ==
  ASSUME Types, Flags, NEW c \in Client, Push(c)
  PROVE  /\ UNCHANGED <<dbUsers, dbBase, snapUsers, snapBase, needReconcile,
                        stopped, halted, heldBack, setting, caller, pc,
                        cfgUsers, cfgBase, armed, late, checks, edits, up,
                        coreBase, unstopped>>
         /\ push' = [push EXCEPT ![c] = "none"]
         /\ calls' \in {calls, calls \cup {"disable"}}
         /\ faults' = faults \/ (faults < MaxFaults /\ faults' = faults + 1)
         /\ unhurt' => unhurt
         /\ needRestart => needRestart'
         /\ coreUsers' \ {c} = coreUsers \ {c}
         /\ lingering' \ {c} = lingering \ {c}
         /\ missed' \ {c} = missed \ {c}
<1> USE DEF dbVars, coreVars, snapVars, flagVars, stopVars, callVars, editVars,
      countVars
<1>1. CASE PushAdd(c)
  <2>1. /\ coreUsers' \ {c} = coreUsers \ {c}
        /\ lingering' \ {c} = lingering \ {c}
        /\ missed' \ {c} = missed \ {c}
    BY <1>1 DEF PushAdd, PushLost
  <2>q. QED
    BY <1>1, <2>1 DEF PushAdd, PushLost, Fault
<1>2. CASE PushRemoval(c)
  <2>1. AfterRemoval(c, TRUE) \/ AfterRemoval(c, FALSE)
        \/ UNCHANGED <<needRestart, calls, dropFailed>>
    BY <1>2, Zenon DEF PushRemoval
  <2>2. /\ calls' \in {calls, calls \cup {"disable"}}
        /\ needRestart => needRestart'
    <3>1. CASE AfterRemoval(c, TRUE)
      BY <3>1 DEF AfterRemoval
    <3>2. CASE AfterRemoval(c, FALSE)
      BY <3>2 DEF AfterRemoval
    <3>3. CASE UNCHANGED <<needRestart, calls, dropFailed>>
      BY <3>3
    <3>q. QED
      BY <2>1, <3>1, <3>2, <3>3
  <2>3. \/ UNCHANGED countVars
        \/ Fault
    BY <1>2, Zenon DEF PushRemoval, PushLost
  <2>4. \/ UNCHANGED <<coreUsers, lingering>>
        \/ /\ coreUsers' = coreUsers \ {c}
           /\ lingering' = lingering \cup {c}
    BY <1>2, Zenon DEF PushRemoval
  <2>5. \/ missed' = missed \/ missed' = missed \ {c}
        \/ missed' = missed \cup
             IF c \in snapUsers <=> c \in dbUsers THEN {c} ELSE {}
    BY <1>2, Zenon DEF PushRemoval, PushLost
  <2>6. missed' \ {c} = missed \ {c}
    BY <2>5
  <2>7. /\ push' = [push EXCEPT ![c] = "none"]
        /\ UNCHANGED <<dbVars, up, coreBase, unstopped, snapVars,
                       needReconcile, stopVars, heldBack, setting, callVars,
                       armed, late, checks>>
    BY <1>2, Zenon DEF PushRemoval
  <2>q. QED
    BY <2>2, <2>3, <2>4, <2>6, <2>7 DEF Fault
<1>q. QED
  BY <1>1, <1>2 DEF Push

\* Every variable keeps its type.
LEMMA TypesStep ==
  ASSUME Types, Flags, [Next]_vars
  PROVE  Types'
<1> USE LocalXrayAssumption
<1> USE DEF Types, Callers, dbVars, coreVars, snapVars, flagVars,
      stopVars, callVars, editVars, countVars
<1>1. CASE BuildFails
  BY <1>1 DEF BuildFails, Fault, Goto
<1>2. CASE AlreadyServed
  BY <1>2 DEF AlreadyServed, Goto, NothingToDo, Unchanged
<1>3. CASE Refuse
  BY <1>3 DEF Refuse, Goto, NothingToDo, Conflicts, Unchanged
<1>4. CASE Decide
  BY <1>4 DEF Decide, Goto, NothingToDo, Conflicts, HotApplicable, Unchanged,
     Leaving
<1>5. CASE HotApplied
  BY <1>5 DEF HotApplied, Goto, Patch, Leaving, Arriving, Patched, Overtaken
<1>6. CASE HotFails
  BY <1>6 DEF HotFails, Fault, Goto
<1>7. CASE HotDeferred
  <2>1. CASE Patch
    BY <1>7, <2>1 DEF HotDeferred, Fault, Goto, Patch, Leaving, Arriving,
       Patched, Overtaken
  <2>2. CASE UNCHANGED <<coreVars, snapVars>>
    BY <1>7, <2>2 DEF HotDeferred, Fault, Goto
  <2>q. QED
    BY <1>7, <2>1, <2>2 DEF HotDeferred
<1>g. CoreGone \/ UNCHANGED coreVars =>
        /\ coreUsers' \subseteq Client /\ coreBase' \in Base \cup {NoBase}
        /\ lingering' \subseteq Client /\ unstopped' \subseteq {"own", "old"}
        /\ missed' \subseteq Client \cup {Template}
  BY DEF CoreGone
<1>8. CASE StopProcess
  <2>1. CASE CoreGone /\ UNCHANGED countVars
    BY <1>8, <1>g, <2>1 DEF StopProcess, Goto
  <2>2. CASE /\ Fault /\ unstopped' = {"old"}
             /\ UNCHANGED <<up, coreUsers, coreBase, lingering, missed>>
    BY <1>8, <2>2 DEF StopProcess, Goto, Fault
  <2>q. QED
    BY <1>8, <2>1, <2>2 DEF StopProcess
<1>9. CASE Launch
  <2>1. CASE Fault /\ CoreGone
    BY <1>9, <1>g, <2>1 DEF Launch, Fault, Goto
  <2>2. CASE /\ coreUsers' = cfgUsers /\ coreBase' = cfgBase
             /\ lingering' = {} /\ missed' = Overtaken
             /\ UNCHANGED <<unstopped, countVars>>
    BY <1>9, <2>2 DEF Launch, Goto, Overtaken
  <2>q. QED
    BY <1>9, <2>1, <2>2 DEF Launch
<1>10. CASE Return
  BY <1>10 DEF Return, Rearms
<1>11. CASE ForceCall
  BY <1>11 DEF ForceCall, Enter, MayRun
<1>12. CASE ApplyCall
  BY <1>12 DEF ApplyCall, Enter, MayRun
<1>13. CASE WatchCall
  BY <1>13 DEF WatchCall, Enter, MayRun
<1>14. CASE TakeFlags
  BY <1>14 DEF TakeFlags
<1>15. CASE WatchCheck
  BY <1>15 DEF WatchCheck
<1>16. CASE SaveFindsNoCore \/ OldCoreEnds
  BY <1>16 DEF SaveFindsNoCore, OldCoreEnds
<1>17. CASE StopXray
  <2>1. CASE CoreGone /\ Edit
    BY <1>17, <1>g, <2>1 DEF StopXray, Edit
  <2>2. CASE /\ Fault /\ unstopped' = unstopped \cup {"own"}
             /\ UNCHANGED <<up, coreUsers, coreBase, lingering, missed>>
    BY <1>17, <2>2 DEF StopXray, Fault
  <2>q. QED
    BY <1>17, <2>1, <2>2 DEF StopXray
<1>18. CASE CoreCrashes
  BY <1>18 DEF CoreCrashes, Fault, CoreGone
<1>19. CASE RefusedCoreExits
  BY <1>19 DEF RefusedCoreExits, CoreGone
<1>20. ASSUME NEW who \in {"save", "disable"}, PendingCall(who)
      PROVE  Types'
  BY <1>20 DEF PendingCall, Enter, MayRun
<1>21. ASSUME NEW c \in Client, CommitAdd(c)
      PROVE  Types'
  BY <1>21 DEF CommitAdd, Edit, Late
<1>22. ASSUME NEW c \in Client, PushAdd(c)
      PROVE  Types'
  <2>1. /\ UNCHANGED <<dbUsers, dbBase, snapUsers, snapBase, caller, pc,
                        cfgUsers, cfgBase, armed, checks, edits, coreBase,
                        unstopped, late>>
        /\ faults' = faults \/ (faults < MaxFaults /\ faults' = faults + 1)
        /\ push' = [push EXCEPT ![c] = "none"]
        /\ calls' \in {calls, calls \cup {"disable"}}
    BY <1>22, PushFrame DEF Push
  <2>2. calls' \subseteq {"save", "disable"}
    BY <2>1
  <2>3. /\ coreUsers' \subseteq Client /\ lingering' \subseteq Client
        /\ missed' \subseteq Client \cup {Template}
    BY <1>22, PushFrame DEF Push
  <2>q. QED
    BY <2>1, <2>2, <2>3
<1>23. ASSUME NEW c \in Client, PushRemoval(c)
      PROVE  Types'
  <2>1. /\ UNCHANGED <<dbUsers, dbBase, snapUsers, snapBase, caller, pc,
                        cfgUsers, cfgBase, armed, checks, edits, coreBase,
                        unstopped, late>>
        /\ faults' = faults \/ (faults < MaxFaults /\ faults' = faults + 1)
        /\ push' = [push EXCEPT ![c] = "none"]
        /\ calls' \in {calls, calls \cup {"disable"}}
    BY <1>23, PushFrame DEF Push
  <2>2. calls' \subseteq {"save", "disable"}
    BY <2>1
  <2>3. /\ coreUsers' \subseteq Client /\ lingering' \subseteq Client
        /\ missed' \subseteq Client \cup {Template}
    BY <1>23, PushFrame DEF Push
  <2>q. QED
    BY <2>1, <2>2, <2>3
<1>24. ASSUME NEW c \in Client, NEW how \in {"del", "drop"},
             CommitRemoval(c, how)
      PROVE  Types'
  BY <1>24 DEF CommitRemoval, Edit, Late
<1>25. ASSUME NEW b \in Base, CommitBase(b)
      PROVE  Types'
  BY <1>25 DEF CommitBase, Edit, Late
<1>u. CASE UNCHANGED vars
  BY <1>u DEF vars
<1>q. QED
  BY <1>1, <1>2, <1>3, <1>4, <1>5, <1>6, <1>7, <1>8, <1>9, <1>10, <1>11,
     <1>12, <1>13, <1>14, <1>15, <1>16, <1>17, <1>18, <1>19, <1>20, <1>21,
     <1>22, <1>23, <1>24, <1>25, <1>u DEF Next, Step

\* Flags stay Boolean.
LEMMA FlagsStep ==
  ASSUME Flags, [Next]_vars
  PROVE  Flags'
<1> USE DEF Flags, dbVars, coreVars, snapVars, flagVars,
      stopVars, callVars, editVars, countVars
<1>1. CASE BuildFails \/ AlreadyServed \/ Refuse \/ Decide
  <2>1. CASE BuildFails
    BY <2>1, Zenon DEF BuildFails, Fault
  <2>2. CASE AlreadyServed
    BY <2>2, Zenon DEF AlreadyServed
  <2>3. CASE Refuse
    BY <2>3, Zenon DEF Refuse
  <2>4. CASE Decide
    BY <2>4, Zenon DEF Decide
  <2>q. QED
    BY <1>1, <2>1, <2>2, <2>3, <2>4
<1>2. CASE HotApplied \/ HotFails
  <2>1. CASE HotApplied
    BY <2>1, Zenon DEF HotApplied, Patch
  <2>2. CASE HotFails
    BY <2>2, Zenon DEF HotFails, Fault
  <2>q. QED
    BY <1>2, <2>1, <2>2
<1>3. CASE HotDeferred
  BY <1>3 DEF HotDeferred, Fault, Goto, Patch, Leaving, Arriving, Patched,
     Overtaken
<1>4. CASE StopProcess \/ Launch
  BY <1>4 DEF StopProcess, Goto, CoreGone, Launch, Fault,
     Overtaken
<1>5. CASE Return
  BY <1>5 DEF Return, Rearms
<1>6. CASE ForceCall \/ ApplyCall \/ WatchCall
  BY <1>6 DEF ForceCall, Enter, MayRun, ApplyCall, WatchCall
<1>7. CASE TakeFlags \/ WatchCheck \/ SaveFindsNoCore \/ OldCoreEnds
  <2>1. CASE OldCoreEnds
    BY <2>1, Zenon DEF OldCoreEnds
  <2>2. CASE TakeFlags
    BY <2>2, Zenon DEF TakeFlags
  <2>3. CASE WatchCheck
    BY <2>3, Zenon DEF WatchCheck
  <2>4. CASE SaveFindsNoCore
    BY <2>4, Zenon DEF SaveFindsNoCore
  <2>q. QED
    BY <1>7, <2>1, <2>2, <2>3, <2>4
<1>8. CASE StopXray \/ CoreCrashes \/ RefusedCoreExits
  BY <1>8 DEF StopXray, Edit, CoreGone, CoreCrashes, Fault, RefusedCoreExits
<1>9. ASSUME NEW who \in {"save", "disable"}, PendingCall(who)
      PROVE  Flags'
  BY <1>9 DEF PendingCall, Enter, MayRun
<1>10. ASSUME NEW c \in Client, CommitAdd(c) \/ PushAdd(c) \/ PushRemoval(c)
      PROVE  Flags'
  <2>1. CASE CommitAdd(c)
    BY <2>1, Zenon DEF CommitAdd, Edit
  <2>2. CASE PushAdd(c)
    BY <2>2, Zenon DEF PushAdd, PushLost, Fault
  <2>3. CASE PushRemoval(c)
    <3>1. unhurt' \in BOOLEAN /\ up' = up
      BY <2>3, Zenon DEF PushRemoval, PushLost, Fault
    <3>2. needRestart' \in BOOLEAN /\ dropFailed' \in BOOLEAN
      BY <2>3, Zenon DEF PushRemoval, AfterRemoval
    <3>q. QED
      BY <2>3, <3>1, <3>2, Zenon DEF PushRemoval
  <2>q. QED
    BY <1>10, <2>1, <2>2, <2>3
<1>11. ASSUME NEW c \in Client, NEW how \in {"del", "drop"},
             CommitRemoval(c, how)
      PROVE  Flags'
  BY <1>11 DEF CommitRemoval, Edit, Late
<1>12. ASSUME NEW b \in Base, CommitBase(b)
      PROVE  Flags'
  BY <1>12 DEF CommitBase, Edit, Late
<1>u. CASE UNCHANGED vars
  BY <1>u DEF vars
<1>q. QED
  BY <1>1, <1>2, <1>3, <1>4, <1>5, <1>6, <1>7, <1>8, <1>9, <1>10, <1>11,
     <1>12, <1>u DEF Next, Step

\* Nobody is inside a call without the lock, and a stopped core stays down.
LEMMA ControlStep ==
  ASSUME Types, Flags, Control, [Next]_vars
  PROVE  Control'
<1> USE LocalXrayAssumption
<1> USE DEF Types, Flags, Control, dbVars, coreVars, snapVars, flagVars,
      stopVars, callVars, editVars, countVars
<1>1. CASE BuildFails \/ AlreadyServed \/ Refuse \/ Decide
  BY <1>1 DEF BuildFails, Fault, Goto, AlreadyServed, NothingToDo, Unchanged,
     Refuse, Conflicts, Decide, HotApplicable, Leaving
<1>2. CASE HotApplied \/ HotFails
  BY <1>2 DEF HotApplied, Goto, Patch, Leaving, Arriving, Patched, Overtaken,
     HotFails, Fault
<1>3. CASE HotDeferred
  BY <1>3 DEF HotDeferred, Fault, Goto, Patch, Leaving, Arriving, Patched,
     Overtaken
<1>4. CASE StopProcess \/ Launch
  BY <1>4 DEF StopProcess, Goto, CoreGone, Launch, Fault,
     Overtaken
<1>5. CASE Return
  BY <1>5 DEF Return, Rearms
<1>6. CASE ForceCall
  BY <1>6 DEF ForceCall, Enter, MayRun
<1>7. CASE ApplyCall
  BY <1>7 DEF ApplyCall, Enter, MayRun
<1>8. CASE WatchCall
  BY <1>8 DEF WatchCall, Enter, MayRun
<1>9. CASE TakeFlags \/ WatchCheck \/ SaveFindsNoCore \/ OldCoreEnds
  BY <1>9 DEF TakeFlags, WatchCheck, SaveFindsNoCore, OldCoreEnds
<1>10. CASE StopXray \/ CoreCrashes \/ RefusedCoreExits
  BY <1>10 DEF StopXray, Edit, CoreGone, CoreCrashes, Fault, RefusedCoreExits
<1>11. ASSUME NEW who \in {"save", "disable"}, PendingCall(who)
      PROVE  Control'
  BY <1>11 DEF PendingCall, Enter, MayRun
<1>12. ASSUME NEW c \in Client, CommitAdd(c) \/ PushAdd(c) \/ PushRemoval(c)
      PROVE  Control'
  BY <1>12 DEF CommitAdd, Edit, Late, PushAdd, PushLost, Fault, PushRemoval,
     AfterRemoval
<1>13. ASSUME NEW c \in Client, NEW how \in {"del", "drop"},
             CommitRemoval(c, how)
      PROVE  Control'
  BY <1>13 DEF CommitRemoval, Edit, Late
<1>14. ASSUME NEW b \in Base, CommitBase(b)
      PROVE  Control'
  BY <1>14 DEF CommitBase, Edit, Late
<1>u. CASE UNCHANGED vars
  BY <1>u DEF vars
<1>q. QED
  BY <1>1, <1>2, <1>3, <1>4, <1>5, <1>6, <1>7, <1>8, <1>9, <1>10, <1>11,
     <1>12, <1>13, <1>14, <1>u DEF Next, Step

\* Only a fault takes a working core away.
LEMMA WorkingStep ==
  ASSUME Types, Flags, Control, Working, [Next]_vars
  PROVE  Working'
<1> USE DEF Control, Working, dbVars, coreVars, snapVars, flagVars,
      stopVars, callVars, editVars, countVars
<1>1. CASE BuildFails \/ AlreadyServed \/ Refuse \/ Decide
  BY <1>1 DEF BuildFails, Fault, Goto, AlreadyServed, NothingToDo, Unchanged,
     Refuse, Conflicts, Decide, HotApplicable, Leaving
<1>2. CASE HotApplied \/ HotFails
  BY <1>2 DEF HotApplied, Goto, Patch, Leaving, Arriving, Patched, Overtaken,
     HotFails, Fault
<1>3. CASE HotDeferred
  BY <1>3 DEF HotDeferred, Fault, Goto, Patch, Leaving, Arriving, Patched,
     Overtaken
<1>4. CASE StopProcess \/ Launch
  BY <1>4 DEF StopProcess, Goto, CoreGone, Launch, Fault,
     Overtaken
<1>5. CASE Return
  BY <1>5 DEF Return, Rearms
<1>6. CASE ForceCall
  BY <1>6 DEF ForceCall, Enter, MayRun
<1>7. CASE ApplyCall
  BY <1>7 DEF ApplyCall, Enter, MayRun
<1>8. CASE WatchCall
  BY <1>8 DEF WatchCall, Enter, MayRun
<1>9. CASE TakeFlags \/ WatchCheck \/ SaveFindsNoCore \/ OldCoreEnds
  BY <1>9 DEF TakeFlags, WatchCheck, SaveFindsNoCore, OldCoreEnds
<1>10. CASE StopXray \/ CoreCrashes \/ RefusedCoreExits
  BY <1>10 DEF StopXray, Edit, CoreGone, CoreCrashes, Fault, RefusedCoreExits
<1>11. ASSUME NEW who \in {"save", "disable"}, PendingCall(who)
      PROVE  Working'
  BY <1>11 DEF PendingCall, Enter, MayRun
<1>12. ASSUME NEW c \in Client, CommitAdd(c)
      PROVE  Working'
  BY <1>12 DEF CommitAdd, Edit, Late
<1>13. ASSUME NEW c \in Client, PushAdd(c)
      PROVE  Working'
  BY <1>13, PushFrame DEF Push
<1>14. ASSUME NEW c \in Client, PushRemoval(c)
      PROVE  Working'
  BY <1>14, PushFrame DEF Push
<1>15. ASSUME NEW c \in Client, NEW how \in {"del", "drop"},
             CommitRemoval(c, how)
      PROVE  Working'
  BY <1>15 DEF CommitRemoval, Edit, Late
<1>16. ASSUME NEW b \in Base, CommitBase(b)
      PROVE  Working'
  BY <1>16 DEF CommitBase, Edit, Late
<1>u. CASE UNCHANGED vars
  BY <1>u DEF vars
<1>q. QED
  BY <1>1, <1>2, <1>3, <1>4, <1>5, <1>6, <1>7, <1>8, <1>9, <1>10, <1>11,
     <1>12, <1>13, <1>14, <1>15, <1>16, <1>u DEF Next, Step

----------------------------------------------------------------------------
(* What the core serves                                                    *)

\* A base that is not served is held back, or its save is still to be applied.
LEMMA BasesStep ==
  ASSUME Orderly, Clients, [Next]_vars
  PROVE  Bases'
<1> USE LocalXrayAssumption
<1> USE DEF Orderly, Clients, Types, Flags, Control, Bases, Inside, Tended,
      dbVars, coreVars, snapVars, flagVars,
      stopVars, callVars, editVars, countVars
<1>1. CASE BuildFails \/ AlreadyServed \/ Refuse \/ Decide
  BY <1>1 DEF BuildFails, Fault, Goto, AlreadyServed, NothingToDo, Unchanged,
     Refuse, Conflicts, Decide, HotApplicable, Leaving
<1>2. CASE HotApplied \/ HotFails
  BY <1>2 DEF HotApplied, Goto, Patch, Leaving, Arriving, Patched, Overtaken,
     HotFails, Fault
<1>3. CASE HotDeferred
  BY <1>3 DEF HotDeferred, Fault, Goto, Patch, Leaving, Arriving, Patched,
     Overtaken
<1>4. CASE StopProcess \/ Launch
  BY <1>4 DEF StopProcess, Goto, CoreGone, Launch, Fault,
     Overtaken
<1>5. CASE Return
  BY <1>5 DEF Return, Rearms
<1>6. CASE ForceCall \/ ApplyCall \/ WatchCall
  BY <1>6 DEF ForceCall, Enter, MayRun, ApplyCall, WatchCall
<1>7. CASE TakeFlags \/ WatchCheck \/ SaveFindsNoCore \/ OldCoreEnds
  BY <1>7 DEF TakeFlags, WatchCheck, SaveFindsNoCore, OldCoreEnds
<1>8. CASE StopXray \/ CoreCrashes \/ RefusedCoreExits
  BY <1>8 DEF StopXray, Edit, CoreGone, CoreCrashes, Fault, RefusedCoreExits
<1>9. ASSUME NEW who \in {"save", "disable"}, PendingCall(who)
      PROVE  Bases'
  BY <1>9 DEF PendingCall, Enter, MayRun
<1>10. ASSUME NEW c \in Client, CommitAdd(c)
      PROVE  Bases'
  BY <1>10 DEF CommitAdd, Edit, Late
<1>11. ASSUME NEW c \in Client, PushAdd(c)
      PROVE  Bases'
  BY <1>11, PushFrame DEF Push
<1>12. ASSUME NEW c \in Client, PushRemoval(c)
      PROVE  Bases'
  BY <1>12, PushFrame DEF Push
<1>13. ASSUME NEW c \in Client, NEW how \in {"del", "drop"},
             CommitRemoval(c, how)
      PROVE  Bases'
  BY <1>13 DEF CommitRemoval, Edit, Late
<1>14. ASSUME NEW b \in Base, CommitBase(b)
      PROVE  Bases'
  BY <1>14 DEF CommitBase, Edit, Late
<1>u. CASE UNCHANGED vars
  BY <1>u DEF vars
<1>q. QED
  BY <1>1, <1>2, <1>3, <1>4, <1>5, <1>6, <1>7, <1>8, <1>9, <1>10, <1>11,
     <1>12, <1>13, <1>14, <1>u DEF Next, Step

\* What is pending for a client is what the database says of it.
LEMMA EditsStep ==
  ASSUME Types, Edits, [Next]_vars
  PROVE  Edits'
<1> USE DEF Types, Edits, dbVars, coreVars, snapVars, flagVars,
      stopVars, callVars, editVars, countVars
<1>1. CASE BuildFails \/ AlreadyServed \/ Refuse \/ Decide
  BY <1>1 DEF BuildFails, Fault, Goto, AlreadyServed, NothingToDo, Unchanged,
     Refuse, Conflicts, Decide, HotApplicable, Leaving
<1>2. CASE HotApplied \/ HotFails
  BY <1>2 DEF HotApplied, Goto, Patch, Leaving, Arriving, Patched, Overtaken,
     HotFails, Fault
<1>3. CASE HotDeferred
  BY <1>3 DEF HotDeferred, Fault, Goto, Patch, Leaving, Arriving, Patched,
     Overtaken
<1>4. CASE StopProcess \/ Launch
  BY <1>4 DEF StopProcess, Goto, CoreGone, Launch, Fault,
     Overtaken
<1>5. CASE Return
  BY <1>5 DEF Return, Rearms
<1>6. CASE ForceCall \/ ApplyCall \/ WatchCall
  BY <1>6 DEF ForceCall, Enter, MayRun, ApplyCall, WatchCall
<1>7. CASE TakeFlags \/ WatchCheck \/ SaveFindsNoCore \/ OldCoreEnds
  BY <1>7 DEF TakeFlags, WatchCheck, SaveFindsNoCore, OldCoreEnds
<1>8. CASE StopXray \/ CoreCrashes \/ RefusedCoreExits
  BY <1>8 DEF StopXray, Edit, CoreGone, CoreCrashes, Fault, RefusedCoreExits
<1>9. ASSUME NEW who \in {"save", "disable"}, PendingCall(who)
      PROVE  Edits'
  BY <1>9 DEF PendingCall, Enter, MayRun
<1>10. ASSUME NEW c \in Client, CommitAdd(c) \/ PushAdd(c) \/ PushRemoval(c)
      PROVE  Edits'
  BY <1>10 DEF CommitAdd, Edit, Late, PushAdd, PushLost, Fault, PushRemoval,
     AfterRemoval
<1>11. ASSUME NEW c \in Client, NEW how \in {"del", "drop"},
             CommitRemoval(c, how)
      PROVE  Edits'
  BY <1>11 DEF CommitRemoval, Edit, Late
<1>12. ASSUME NEW b \in Base, CommitBase(b)
      PROVE  Edits'
  BY <1>12 DEF CommitBase, Edit, Late
<1>u. CASE UNCHANGED vars
  BY <1>u DEF vars
<1>q. QED
  BY <1>1, <1>2, <1>3, <1>4, <1>5, <1>6, <1>7, <1>8, <1>9, <1>10, <1>11,
     <1>12, <1>u DEF Next, Step

\* Edits change the database under a built config only as late ones.
LEMMA BuiltStep ==
  ASSUME Orderly, Clients, [Next]_vars
  PROVE  Built'
<1> USE LocalXrayAssumption
<1> USE DEF Orderly, Clients, Types, Flags, Control, Built, Inside,
      Coming, Same,
      dbVars, coreVars, snapVars, flagVars,
      stopVars, callVars, editVars, countVars
<1>1. CASE BuildFails \/ AlreadyServed \/ Refuse \/ Decide
  BY <1>1 DEF BuildFails, Fault, Goto, AlreadyServed, NothingToDo, Unchanged,
     Refuse, Conflicts, Decide, HotApplicable, Leaving
<1>2. CASE HotApplied \/ HotFails
  BY <1>2 DEF HotApplied, Goto, Patch, Leaving, Arriving, Patched, Overtaken,
     HotFails, Fault
<1>3. CASE HotDeferred
  BY <1>3 DEF HotDeferred, Fault, Goto, Patch, Leaving, Arriving, Patched,
     Overtaken
<1>4. CASE StopProcess \/ Launch
  BY <1>4 DEF StopProcess, Goto, CoreGone, Launch, Fault,
     Overtaken
<1>5. CASE Return
  BY <1>5 DEF Return, Rearms
<1>6. CASE ForceCall \/ ApplyCall \/ WatchCall
  BY <1>6 DEF ForceCall, Enter, MayRun, ApplyCall, WatchCall
<1>7. CASE TakeFlags \/ WatchCheck \/ SaveFindsNoCore \/ OldCoreEnds
  BY <1>7 DEF TakeFlags, WatchCheck, SaveFindsNoCore, OldCoreEnds
<1>8. CASE StopXray \/ CoreCrashes \/ RefusedCoreExits
  BY <1>8 DEF StopXray, Edit, CoreGone, CoreCrashes, Fault, RefusedCoreExits
<1>9. ASSUME NEW who \in {"save", "disable"}, PendingCall(who)
      PROVE  Built'
  BY <1>9 DEF PendingCall, Enter, MayRun
<1>10. ASSUME NEW c \in Client, CommitAdd(c)
      PROVE  Built'
  BY <1>10 DEF CommitAdd, Edit, Late
<1>11. ASSUME NEW c \in Client, PushAdd(c)
      PROVE  Built'
  BY <1>11, PushFrame DEF Push
<1>12. ASSUME NEW c \in Client, PushRemoval(c)
      PROVE  Built'
  BY <1>12, PushFrame DEF Push
<1>13. ASSUME NEW c \in Client, NEW how \in {"del", "drop"},
             CommitRemoval(c, how)
      PROVE  Built'
  BY <1>13 DEF CommitRemoval, Edit, Late
<1>14. ASSUME NEW b \in Base, CommitBase(b)
      PROVE  Built'
  BY <1>14 DEF CommitBase, Edit, Late
<1>u. CASE UNCHANGED vars
  BY <1>u DEF vars
<1>q. QED
  BY <1>1, <1>2, <1>3, <1>4, <1>5, <1>6, <1>7, <1>8, <1>9, <1>10, <1>11,
     <1>12, <1>13, <1>14, <1>u DEF Next, Step

\* A call that returns sets its flags again, if it failed with a repair due.
LEMMA ReturnRearms ==
  ASSUME Orderly, Return
  PROVE  \A c : Repair(c) => Coming'
<1>1. /\ needRestart' = (needRestart \/ Rearms(pc = "error").restart)
      /\ needReconcile' = (needReconcile \/ Rearms(pc = "error").reconcile)
  BY DEF Return
<1>2. /\ Rearms(pc = "error").restart =
           (\/ caller = "apply" /\ pc = "error" /\ "restart" \in armed
            \/ caller = "disable" /\ (pc = "error" \/ dropFailed))
      /\ Rearms(pc = "error").reconcile =
           (caller = "apply" /\ pc = "error" /\ "reconcile" \in armed)
  BY DEF Rearms
<1>3. CASE pc = "error" /\ caller = "disable"
  BY <1>1, <1>2, <1>3, Zenon DEF Coming
<1>4. CASE pc = "error" /\ caller = "apply"
  <2>1. "restart" \in armed \/ "reconcile" \in armed
    BY <1>4 DEF Orderly, Control, Types
  <2>q. QED
    BY <1>1, <1>2, <1>4, <2>1, Zenon DEF Coming
<1>5. CASE Coming
  <2>1. needRestart \/ needReconcile => needRestart' \/ needReconcile'
    BY <1>1, Zenon
  <2>2. calls' = calls /\ caller' = "none"
        /\ (caller # "apply" => armed' = armed)
    BY DEF Return
  <2>q. QED
    BY <1>5, <2>1, <2>2 DEF Coming
<1>6. \A c : Repair(c) =>
              Coming \/ (pc = "error" /\ caller \in {"apply", "disable"})
  BY DEF Repair, Return
<1>q. QED
  BY <1>3, <1>4, <1>5, <1>6

\* A push that fails leaves a difference that the next config repairs.
LEMMA ServedStep ==
  ASSUME Orderly, Clients, [Next]_vars
  PROVE  Served'
<1> USE LocalXrayAssumption
<1> USE DEF Orderly, Clients, Types, Flags, Control, Bases, Edits,
      Built, Served, Inside, Coming, Repair, Tended, Same,
      dbVars, coreVars, snapVars, flagVars,
      stopVars, callVars, editVars, countVars
<1>1. CASE BuildFails \/ AlreadyServed \/ Refuse \/ Decide
  BY <1>1 DEF BuildFails, Fault, Goto, AlreadyServed, NothingToDo, Unchanged,
     Refuse, Conflicts, Decide, HotApplicable, Leaving
<1>a. ASSUME Patch, up, pc = "hot", NEW c \in Client, push[c] = "none",
             Tended
      PROVE  \/ Same(coreUsers', dbUsers, c)
             \/ ~Same(snapUsers', dbUsers, c) /\ Coming
             \/ c \in missed'
  <2>1. CASE c \in Leaving \cup Arriving
    <3>1. Same(coreUsers', cfgUsers, c)
      BY <1>a, <2>1 DEF Patch, Patched, Leaving, Arriving
    <3>2. Same(cfgUsers, dbUsers, c) \/ c \in Overtaken
      BY <1>a DEF Overtaken
    <3>q. QED
      BY <1>a, <2>1, <3>1, <3>2 DEF Patch
  <2>2. CASE c \notin Leaving \cup Arriving
    <3>1. /\ Same(coreUsers', coreUsers, c) /\ Same(cfgUsers, snapUsers, c)
          /\ snapUsers' = cfgUsers /\ (c \in missed => c \in missed')
      BY <1>a, <2>2 DEF Patch, Patched, Leaving, Arriving
    <3>q. QED
      BY <1>a, <3>1
  <2>q. QED
    BY <2>1, <2>2
<1>2. CASE HotApplied \/ HotFails
  <2>1. CASE HotApplied
    <3>1. /\ Patch /\ up /\ pc = "hot" /\ pc' = "ok" /\ (Tended' => Tended)
          /\ UNCHANGED <<push, dbUsers>> /\ (Coming => Coming')
      BY <2>1 DEF HotApplied, Goto, Patch
    <3>q. QED
      BY <1>a, <3>1
  <2>2. CASE HotFails
    BY <2>2 DEF HotFails, Goto, Fault
  <2>q. QED
    BY <1>2, <2>1, <2>2
<1>3. CASE HotDeferred
  BY <1>3 DEF HotDeferred, Fault, Goto, Patch, Leaving, Arriving, Patched,
     Overtaken
<1>4. CASE StopProcess \/ Launch
  BY <1>4 DEF StopProcess, Goto, CoreGone, Launch, Fault,
     Overtaken
<1>5. CASE Return
  <2>1. \A c : Repair(c) => Coming'
    BY <1>5, ReturnRearms, Zenon DEF Orderly, Types, Flags, Control
  <2>2. /\ pc' = "idle" /\ pc # "launch"
        /\ UNCHANGED <<up, unstopped, missed, push, coreUsers, dbUsers,
                       snapUsers>>
    BY <1>5 DEF Return
  <2>q. QED
    BY <2>1, <2>2
<1>6. CASE ForceCall \/ ApplyCall \/ WatchCall
  BY <1>6 DEF ForceCall, Enter, MayRun, ApplyCall, WatchCall
<1>7. CASE TakeFlags \/ WatchCheck \/ SaveFindsNoCore \/ OldCoreEnds
  BY <1>7 DEF TakeFlags, WatchCheck, SaveFindsNoCore, OldCoreEnds
<1>8. CASE StopXray \/ CoreCrashes \/ RefusedCoreExits
  BY <1>8 DEF StopXray, Edit, CoreGone, CoreCrashes, Fault, RefusedCoreExits
<1>9. ASSUME NEW who \in {"save", "disable"}, PendingCall(who)
      PROVE  Served'
  BY <1>9 DEF PendingCall, Enter, MayRun
<1>10. ASSUME NEW c \in Client, CommitAdd(c)
      PROVE  Served'
  BY <1>10 DEF CommitAdd, Edit, Late
<1>p. ASSUME NEW c \in Client, Push(c)
      PROVE  /\ Tended' <=> Tended
             /\ \A d \in Client : Repair(d) => Repair(d)'
             /\ \A d \in Client \ {c} :
                  /\ push'[d] = push[d]
                  /\ d \in coreUsers' <=> d \in coreUsers
                  /\ d \in lingering' <=> d \in lingering
                  /\ d \in missed' <=> d \in missed
             /\ UNCHANGED <<snapUsers, dbUsers, setting>> /\ push'[c] = "none"
  <2>1. /\ UNCHANGED <<snapUsers, dbUsers, cfgUsers, needReconcile, caller, pc,
                       armed, up, unstopped, setting>>
        /\ push' = [push EXCEPT ![c] = "none"]
        /\ calls \subseteq calls'
        /\ needRestart => needRestart'
        /\ coreUsers' \ {c} = coreUsers \ {c}
        /\ lingering' \ {c} = lingering \ {c}
        /\ missed' \ {c} = missed \ {c}
    BY <1>p, PushFrame
  <2>2. Coming => Coming'
    BY <2>1
  <2>3. \A d \in Client : Repair(d) => Repair(d)'
    BY <2>1, <2>2
  <2>q. QED
    BY <2>1, <2>3
<1>11. ASSUME NEW c \in Client, PushAdd(c)
      PROVE  Served'
  <2>1. c \in dbUsers
    BY <1>11 DEF PushAdd
  <2>2. up => \/ c \in coreUsers'
              \/ Coming' /\ (c \in missed' \/ c \notin snapUsers)
    <3>1. CASE c \in coreUsers
      BY <1>11, <3>1 DEF PushAdd
    <3>2. CASE c \notin coreUsers /\ c \in coreUsers'
      BY <3>2
    <3>3. CASE c \notin coreUsers /\ c \notin coreUsers'
      BY <1>11, <2>1, <3>3 DEF PushAdd, PushLost
    <3>q. QED
      BY <3>1, <3>2, <3>3
  <2>q. QED
    BY <1>11, <1>p, <2>1, <2>2 DEF Push
<1>12. ASSUME NEW c \in Client, PushRemoval(c)
      PROVE  Served'
  <2>1. c \notin dbUsers
    BY <1>12 DEF PushRemoval
  <2>2. AfterRemoval(c, TRUE) => Coming'
    BY Zenon DEF AfterRemoval
  <2>3. PushLost(c) => c \in missed' \/ c \in snapUsers
    BY <2>1 DEF PushLost
  <2>4. up => \/ c \notin coreUsers'
              \/ Coming' /\ (c \in missed' \/ c \in snapUsers)
    BY <1>12, <2>2, <2>3, Zenon DEF PushRemoval
  <2>q. QED
    BY <1>12, <1>p, <2>1, <2>4 DEF Push
<1>13. ASSUME NEW c \in Client, NEW how \in {"del", "drop"},
             CommitRemoval(c, how)
      PROVE  Served'
  BY <1>13 DEF CommitRemoval, Edit, Late
<1>14. ASSUME NEW b \in Base, CommitBase(b)
      PROVE  Served'
  BY <1>14 DEF CommitBase, Edit, Late
<1>u. CASE UNCHANGED vars
  BY <1>u DEF vars
<1>q. QED
  BY <1>1, <1>2, <1>3, <1>4, <1>5, <1>6, <1>7, <1>8, <1>9, <1>10, <1>11,
     <1>12, <1>13, <1>14, <1>u DEF Next, Step

\* Connections of a removed client are left only until that config.
LEMMA SessionsStep ==
  ASSUME Orderly, Clients, [Next]_vars
  PROVE  Sessions'
<1> USE LocalXrayAssumption
<1> USE DEF Orderly, Clients, Types, Flags, Control, Bases, Edits,
      Built, Served, Sessions, DropsNobody, Inside, Coming, Repair, Tended,
      Same, dbVars, coreVars, snapVars, flagVars,
      stopVars, callVars, editVars, countVars
<1>1. CASE BuildFails \/ AlreadyServed \/ Refuse \/ Decide
  BY <1>1 DEF BuildFails, Fault, Goto, AlreadyServed, NothingToDo, Unchanged,
     Refuse, Conflicts, Decide, HotApplicable, Leaving
<1>a. ASSUME Patch, setting, up, pc = "hot", Tended,
             NEW c \in lingering' \cap snapUsers'
      PROVE  \/ c \in missed' \/ push[c] = "add"
             \/ push[c] = "none" /\ c \notin dbUsers /\ Coming
  <2>1. Leaving = {} /\ snapUsers' = cfgUsers
    BY <1>a DEF Patch, Leaving
  <2>2. c \in lingering /\ c \notin Arriving
    BY <1>a, <2>1 DEF Patch
  <2>3. c \in snapUsers /\ Same(cfgUsers, snapUsers, c)
    BY <1>a, <2>1, <2>2 DEF Arriving
  <2>4. c \in missed => c \in missed'
    BY <1>a, <2>1, <2>2 DEF Patch
  <2>q. QED
    BY <1>a, <2>2, <2>3, <2>4
<1>2. CASE HotApplied \/ HotFails
  <2>1. CASE HotApplied
    <3>1. /\ Patch /\ up /\ pc = "hot" /\ pc' = "ok" /\ (Tended' => Tended)
          /\ UNCHANGED <<push, dbUsers, setting>> /\ (Coming => Coming')
      BY <2>1 DEF HotApplied, Goto, Patch
    <3>q. QED
      BY <1>a, <3>1
  <2>2. CASE HotFails
    BY <2>2 DEF HotFails, Goto, Fault
  <2>q. QED
    BY <1>2, <2>1, <2>2
<1>3. CASE HotDeferred
  BY <1>3 DEF HotDeferred, Fault, Goto, Patch, Leaving, Arriving, Patched,
     Overtaken
<1>4. CASE StopProcess \/ Launch
  BY <1>4 DEF StopProcess, Goto, CoreGone, Launch, Fault,
     Overtaken
<1>5. CASE Return
  <2>1. \A c : Repair(c) => Coming'
    BY <1>5, ReturnRearms, Zenon DEF Orderly, Types, Flags, Control
  <2>2. /\ pc' = "idle" /\ pc # "launch"
        /\ UNCHANGED <<up, unstopped, missed, setting, lingering, snapUsers,
                       push, dbUsers>>
    BY <1>5 DEF Return
  <2>q. QED
    BY <2>1, <2>2
<1>6. CASE ForceCall \/ ApplyCall \/ WatchCall
  BY <1>6 DEF ForceCall, Enter, MayRun, ApplyCall, WatchCall
<1>7. CASE TakeFlags \/ WatchCheck \/ SaveFindsNoCore \/ OldCoreEnds
  <2>1. CASE OldCoreEnds
    <3>1. /\ Tended' <=> Tended
          /\ UNCHANGED <<setting, lingering, snapUsers, missed, push, dbUsers,
                         needRestart, needReconcile, calls, armed, caller, pc,
                         cfgUsers>>
      BY <2>1, Zenon DEF OldCoreEnds
    <3>q. QED
      BY <3>1
  <2>2. CASE TakeFlags
    <3>1. "restart" \in armed' \/ "reconcile" \in armed'
      BY <2>2 DEF TakeFlags
    <3>2. /\ Coming' /\ (Tended' <=> Tended)
          /\ UNCHANGED <<setting, lingering, snapUsers, missed, push, dbUsers>>
      BY <2>2, <3>1 DEF TakeFlags
    <3>q. QED
      BY <3>2
  <2>3. CASE WatchCheck \/ SaveFindsNoCore
    BY <2>3 DEF WatchCheck, SaveFindsNoCore
  <2>q. QED
    BY <1>7, <2>1, <2>2, <2>3
<1>8. CASE StopXray \/ CoreCrashes \/ RefusedCoreExits
  BY <1>8 DEF StopXray, Edit, CoreGone, CoreCrashes, Fault, RefusedCoreExits
<1>9. ASSUME NEW who \in {"save", "disable"}, PendingCall(who)
      PROVE  Sessions'
  BY <1>9 DEF PendingCall, Enter, MayRun
<1>10. ASSUME NEW c \in Client, CommitAdd(c)
      PROVE  Sessions'
  BY <1>10 DEF CommitAdd, Edit, Late
<1>p. ASSUME NEW c \in Client, Push(c)
      PROVE  /\ Tended' <=> Tended
             /\ \A d \in Client : Repair(d) => Repair(d)'
             /\ \A d \in Client \ {c} :
                  /\ push'[d] = push[d]
                  /\ d \in coreUsers' <=> d \in coreUsers
                  /\ d \in lingering' <=> d \in lingering
                  /\ d \in missed' <=> d \in missed
             /\ UNCHANGED <<snapUsers, dbUsers, setting>> /\ push'[c] = "none"
  <2>1. /\ UNCHANGED <<snapUsers, dbUsers, cfgUsers, needReconcile, caller, pc,
                       armed, up, unstopped, setting>>
        /\ push' = [push EXCEPT ![c] = "none"]
        /\ calls \subseteq calls'
        /\ needRestart => needRestart'
        /\ coreUsers' \ {c} = coreUsers \ {c}
        /\ lingering' \ {c} = lingering \ {c}
        /\ missed' \ {c} = missed \ {c}
    BY <1>p, PushFrame
  <2>2. Coming => Coming'
    BY <2>1
  <2>3. \A d \in Client : Repair(d) => Repair(d)'
    BY <2>1, <2>2
  <2>q. QED
    BY <2>1, <2>3
<1>11. ASSUME NEW c \in Client, PushAdd(c)
      PROVE  Sessions'
  <2>1. c \in dbUsers /\ push[c] = "add"
    BY <1>11 DEF PushAdd
  <2>2. up /\ c \in lingering' /\ c \in snapUsers => c \in missed'
    BY <1>11, <2>1 DEF PushAdd, PushLost
  <2>3. ASSUME setting, Tended', NEW d \in lingering' \cap snapUsers'
        PROVE  \/ d \in missed' \/ push'[d] = "add"
               \/ push'[d] = "none" /\ d \notin dbUsers' /\ Repair(d)'
    <3>1. CASE d = c
      BY <1>11, <1>p, <2>2, <2>3, <3>1 DEF Push
    <3>2. CASE d # c
      <4>1. d \in Client /\ d \in lingering \cap snapUsers /\ Tended
        BY <1>11, <1>p, <2>3, <3>2 DEF Push, PushAdd
      <4>q. QED
        BY <1>11, <1>p, <2>3, <3>2, <4>1 DEF Push
    <3>q. QED
      BY <3>1, <3>2
  <2>q. QED
    BY <1>11, <1>p, <2>3 DEF Push
<1>12. ASSUME NEW c \in Client, PushRemoval(c)
      PROVE  Sessions'
  <2>1. c \notin dbUsers /\ push[c] \in {"del", "drop"}
    BY <1>12 DEF PushRemoval
  <2>2. setting /\ AfterRemoval(c, FALSE) => Coming'
    BY <2>1, Zenon DEF AfterRemoval
  <2>3. missed' = missed \/ missed \subseteq missed' \/ c \in coreUsers
    BY <1>12 DEF PushRemoval, PushLost
  <2>4. setting /\ up /\ c \in lingering' => Coming' \/ c \in lingering
    BY <1>12, <2>2, Zenon DEF PushRemoval
  <2>5. setting /\ up /\ c \in coreUsers /\ c \in lingering' => Coming'
    BY <2>4
  <2>6. ASSUME setting, Tended', NEW d \in lingering' \cap snapUsers'
        PROVE  \/ d \in missed' \/ push'[d] = "add"
               \/ push'[d] = "none" /\ d \notin dbUsers' /\ Repair(d)'
    <3>1. CASE d = c
      <4>1. Coming' => Repair(c)'
        OBVIOUS
      <4>2. up /\ Tended /\ push'[c] = "none" /\ c \notin dbUsers'
        BY <1>12, <1>p, <2>1, <2>6 DEF Push
      <4>3. CASE Coming'
        BY <3>1, <4>1, <4>2, <4>3
      <4>4. CASE ~Coming'
        <5>1. c \in lingering /\ c \notin coreUsers
          BY <2>4, <2>5, <2>6, <3>1, <4>2, <4>4
        <5>2. c \in missed
          BY <1>12, <1>p, <2>1, <2>6, <3>1, <4>2, <5>1 DEF Push
        <5>q. QED
          BY <2>3, <3>1, <5>1, <5>2
      <4>q. QED
        BY <4>3, <4>4
    <3>2. CASE d # c
      <4>1. d \in Client /\ d \in lingering \cap snapUsers /\ Tended
        BY <1>12, <1>p, <2>6, <3>2 DEF Push, PushRemoval
      <4>q. QED
        BY <1>12, <1>p, <2>6, <3>2, <4>1 DEF Push
    <3>q. QED
      BY <3>1, <3>2
  <2>q. QED
    BY <1>12, <1>p, <2>6 DEF Push
<1>13. ASSUME NEW c \in Client, NEW how \in {"del", "drop"},
             CommitRemoval(c, how)
      PROVE  Sessions'
  BY <1>13 DEF CommitRemoval, Edit, Late
<1>14. ASSUME NEW b \in Base, CommitBase(b)
      PROVE  Sessions'
  BY <1>14 DEF CommitBase, Edit, Late
<1>u. CASE UNCHANGED vars
  BY <1>u DEF vars
<1>q. QED
  BY <1>1, <1>2, <1>3, <1>4, <1>5, <1>6, <1>7, <1>8, <1>9, <1>10, <1>11,
     <1>12, <1>13, <1>14, <1>u DEF Next, Step

\* With the setting, no client is dropped without a restart.
LEMMA DropsStep ==
  ASSUME Orderly, Clients, [Next]_vars
  PROVE  DropsNobody'
<1> USE LocalXrayAssumption
<1> USE DEF Orderly, Clients, Types, Flags, Control, DropsNobody,
      dbVars, coreVars, snapVars, flagVars,
      stopVars, callVars, editVars, countVars
<1>1. CASE BuildFails \/ AlreadyServed \/ Refuse \/ Decide
  BY <1>1 DEF BuildFails, Fault, Goto, AlreadyServed, NothingToDo, Unchanged,
     Refuse, Conflicts, Decide, HotApplicable, Leaving
<1>2. CASE HotApplied \/ HotFails
  BY <1>2 DEF HotApplied, Goto, Patch, Leaving, Arriving, Patched, Overtaken,
     HotFails, Fault
<1>3. CASE HotDeferred
  BY <1>3 DEF HotDeferred, Fault, Goto, Patch, Leaving, Arriving, Patched,
     Overtaken
<1>4. CASE StopProcess \/ Launch
  BY <1>4 DEF StopProcess, Goto, CoreGone, Launch, Fault,
     Overtaken
<1>5. CASE Return
  BY <1>5 DEF Return, Rearms
<1>6. CASE ForceCall \/ ApplyCall \/ WatchCall
  BY <1>6 DEF ForceCall, Enter, MayRun, ApplyCall, WatchCall
<1>7. CASE TakeFlags \/ WatchCheck \/ SaveFindsNoCore \/ OldCoreEnds
  BY <1>7 DEF TakeFlags, WatchCheck, SaveFindsNoCore, OldCoreEnds
<1>8. CASE StopXray \/ CoreCrashes \/ RefusedCoreExits
  BY <1>8 DEF StopXray, Edit, CoreGone, CoreCrashes, Fault, RefusedCoreExits
<1>9. ASSUME NEW who \in {"save", "disable"}, PendingCall(who)
      PROVE  DropsNobody'
  BY <1>9 DEF PendingCall, Enter, MayRun
<1>10. ASSUME NEW c \in Client, CommitAdd(c) \/ PushAdd(c) \/ PushRemoval(c)
      PROVE  DropsNobody'
  BY <1>10 DEF CommitAdd, Edit, Late, PushAdd, PushLost, Fault, PushRemoval,
     AfterRemoval
<1>11. ASSUME NEW c \in Client, NEW how \in {"del", "drop"},
             CommitRemoval(c, how)
      PROVE  DropsNobody'
  BY <1>11 DEF CommitRemoval, Edit, Late
<1>12. ASSUME NEW b \in Base, CommitBase(b)
      PROVE  DropsNobody'
  BY <1>12 DEF CommitBase, Edit, Late
<1>u. CASE UNCHANGED vars
  BY <1>u DEF vars
<1>q. QED
  BY <1>1, <1>2, <1>3, <1>4, <1>5, <1>6, <1>7, <1>8, <1>9, <1>10, <1>11,
     <1>12, <1>u DEF Next, Step

----------------------------------------------------------------------------

LEMMA InitOrderly == Init => Orderly /\ Clients
<1>. SUFFICES ASSUME Init PROVE Orderly /\ Clients
  OBVIOUS
<1>1. Types /\ Control /\ Working
  BY LocalXrayAssumption DEF Init, Types, Control, Working
<1>2. Flags
  BY DEF Init, Flags
<1>3. Clients
  BY DEF Init, Clients, Bases, Edits, Built, Served, Sessions,
     DropsNobody, Inside, Tended
<1>q. QED
  BY <1>1, <1>2, <1>3 DEF Orderly

LEMMA OrderlyInvariant == Spec => []Orderly
<1>1. Orderly /\ [Next]_vars => Orderly'
  BY TypesStep, FlagsStep, ControlStep, WorkingStep DEF Orderly
<1>q. QED
  BY <1>1, InitOrderly, PTL DEF Spec

LEMMA ClientsInvariant == Spec => []Clients
<1>1. Orderly /\ Clients /\ [Next]_vars => Clients'
  <2>1. Orderly /\ Clients /\ [Next]_vars => Edits'
    BY EditsStep DEF Orderly, Clients
  <2>q. QED
    BY <2>1, BasesStep, BuiltStep, ServedStep, SessionsStep,
       DropsStep DEF Clients
<1>q. QED
  BY <1>1, InitOrderly, OrderlyInvariant, PTL DEF Spec

\* Every variable has its type, whatever the clients, bases and bounds.
THEOREM TypeCorrect == Spec => []TypeOK
<1>1. Orderly => TypeOK
  BY DEF Orderly, Types, Flags, TypeOK
<1>q. QED
  BY <1>1, OrderlyInvariant, PTL

\* A core that the operator stopped, and that is down, stays down until a
\* forced call: whoever waits for the lock, holds flags or counts dead cores
\* does not launch it.
THEOREM StopsLast == Spec => StoppedStaysDown
<1>1. Orderly /\ [Next]_vars => [halted /\ ~up => ~up']_vars
  <2>. SUFFICES ASSUME Orderly, Next, halted, ~up PROVE ~up'
    OBVIOUS
  <2> USE DEF coreVars
  <2>1. pc \in {"idle", "ok"}
    BY DEF Orderly, Control
  <2>2. CASE Step
    BY <2>1, <2>2 DEF Step, BuildFails, AlreadyServed, Refuse, Decide,
       HotApplied, HotFails, HotDeferred, StopProcess, Launch, Return
  <2>3. CASE ForceCall \/ ApplyCall \/ WatchCall
    BY <2>3 DEF ForceCall, ApplyCall, WatchCall, Enter
  <2>4. ASSUME NEW who \in {"save", "disable"}, PendingCall(who)
        PROVE  ~up'
    BY <2>4 DEF PendingCall, Enter
  <2>5. CASE TakeFlags \/ WatchCheck \/ SaveFindsNoCore
    BY <2>5 DEF TakeFlags, WatchCheck, SaveFindsNoCore
  <2>6. ASSUME NEW c \in Client,
               \/ CommitAdd(c) \/ PushAdd(c) \/ PushRemoval(c)
               \/ \E how \in {"del", "drop"} : CommitRemoval(c, how)
        PROVE  ~up'
    BY <2>6 DEF CommitAdd, PushAdd, PushRemoval, CommitRemoval
  <2>7. ASSUME NEW b \in Base, CommitBase(b) PROVE ~up'
    BY <2>7 DEF CommitBase
  <2>8. CASE StopXray \/ CoreCrashes \/ OldCoreEnds \/ RefusedCoreExits
    BY <2>8 DEF StopXray, CoreCrashes, OldCoreEnds, RefusedCoreExits, CoreGone
  <2>q. QED
    BY <2>2, <2>3, <2>4, <2>5, <2>6, <2>7, <2>8 DEF Next
<1>q. QED
  BY <1>1, OrderlyInvariant, PTL DEF Spec, StoppedStaysDown

\* A call that no fault strikes ends with a core that works if it began with
\* one: a config with a port conflict never replaces it.
THEOREM ConflictsDoNotKill == Spec => WorkingCoreIsKept
<1>1. Orderly /\ [Next]_vars =>
        [Return /\ unhurt => up /\ coreBase \notin Refused]_vars
  BY DEF Orderly, Working, Return
<1>q. QED
  BY <1>1, OrderlyInvariant, PTL DEF Spec, WorkingCoreIsKept

\* When nothing is pending a running core serves the clients of the database
\* and its base (or says that it is held back), but for the edits that are
\* missed: for any number of clients, edits and faults, however pushes,
\* saves and restarts overlap.
THEOREM QuietCoreIsCurrent == Spec => []CoreIsCurrent
<1>1. Orderly /\ Clients => CoreIsCurrent
  <2>. SUFFICES ASSUME Orderly, Clients, Quiet, up, "own" \notin unstopped
                PROVE  /\ Behind \subseteq missed
                       /\ coreBase = dbBase \/ heldBack \/ Template \in missed
    BY DEF CoreIsCurrent
  <2>1. /\ Tended /\ pc = "idle" /\ "save" \notin calls
        /\ \A c : ~Repair(c)
    BY DEF Quiet, Repair, Coming, Tended
  <2>2. \A c \in Client : Same(coreUsers, dbUsers, c) \/ c \in missed
    BY <2>1 DEF Clients, Served, Quiet
  <2>3. Behind \subseteq missed
    BY <2>2 DEF Orderly, Types, Behind, Same
  <2>4. coreBase = dbBase \/ heldBack \/ Template \in missed
    BY <2>1 DEF Clients, Bases
  <2>q. QED
    BY <2>3, <2>4
<1>q. QED
  BY <1>1, OrderlyInvariant, ClientsInvariant, PTL

\* No connection of a removed client survives the restart that the setting
\* asks for, if that restart could stop the core, although its removal was
\* pushed while another restart was under way.
THEOREM SessionsAreClosed == Spec => []KnownSessionsEnd
<1>1. Orderly /\ Clients => KnownSessionsEnd
  <2>. SUFFICES ASSUME Clients, Quiet, setting, unstopped = {}, Orderly,
                       NEW c \in lingering \cap snapUsers
                PROVE  c \in missed
    BY DEF KnownSessionsEnd
  <2>1. /\ ~Repair(c) /\ push[c] = "none"
    BY DEF Quiet, Repair, Coming, Orderly, Types
  <2>2. Tended
    BY DEF Quiet, Tended, Orderly, Control
  <2>q. QED
    BY <2>1, <2>2 DEF Clients, Sessions
<1>q. QED
  BY <1>1, OrderlyInvariant, ClientsInvariant, PTL
=============================================================================
