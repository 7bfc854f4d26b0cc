-------------------------- MODULE AgentCore_proofs --------------------------
(***************************************************************************)
(* The safety properties of AgentCore, for every set of configs and every  *)
(* bound on the faults.  They follow from one inductive invariant, TypeOK  *)
(* and CoreInv, and for what is stored also from Durable.                  *)
(***************************************************************************)
EXTENDS AgentCore, TLAPS

\* Which steps each operation has, and what it brought to them.
Shape ==
  /\ (holder = "none") <=> (pc = "idle")
  /\ holder = "apply" => next \in Config
  /\ pc \in {"begin", "switch", "hot", "swap", "persist", "record", "unsaved"}
       => holder = "apply"
  /\ holder = "close" => pc = "stop"
  /\ pc = "stop" => holder \in {"apply", "restart", "close"}
  /\ At("restart", "stop") => current # None
  /\ pc \in {"launch", "wait"} => target \in Config /\ process # "live"
  /\ pc \in {"launch", "wait"} /\ holder # "apply" => target = current
  /\ launched = IF pc = "wait" THEN target ELSE None

\* What a live child serves, step by step.
Cores ==
  /\ process # "live" => child = None
  /\ process = "live" =>
       /\ current # None
       /\ child = current \/ At("apply", "hot") \/ At("apply", "swap")
                          \/ At("apply", "stop")
       /\ At("apply", "hot") => child = Mixed
       /\ At("apply", "swap") => child = next
       /\ At("apply", "stop") => child \in {current, Mixed}

\* What served before: no broken config, all that is stored or recorded.
Served ==
  /\ served \cap Broken = {}
  /\ disk # None => disk \in served
  /\ current # None => current \in served
  /\ holder = "apply" /\ pc \in {"swap", "persist", "record"} => next \in served

\* How the disk, savedRev and the answered push relate.
Durable ==
  /\ savedRev # None /\ ~At("apply", "record") => disk = savedRev
  /\ Unanswered => disk = next
  /\ acked # None /\ settled /\ ~Unanswered => disk = acked

\* Of the children that live, Core.process or start knows one at most; the
\* others outlived a Process.Stop.
Known == IF process = "live" \/ pc = "wait" THEN 1 ELSE 0

Counted ==
  /\ alive \in Nat /\ unstopped \in Nat
  /\ alive = Known + unstopped

\* An operation that met with no trouble found no child in its way.
Clear == unhurt => unstopped = 0

\* A push that has not succeeded yet can still be undone.
Undoable ==
  holder = "apply" =>
    /\ pc \in {"begin", "switch", "hot", "swap", "stop", "launch", "wait",
               "fail"} => current = prev
    /\ unhurt /\ pc \in {"begin", "switch", "hot", "swap", "fail"}
         => process = "live"
    /\ unhurt /\ pc \in {"switch", "hot", "stop", "launch", "wait"}
         => prev \notin {None, next}
    /\ pc \in {"launch", "wait"} => target \in {next, prev}
    /\ pc \in {"persist", "record", "unsaved", "ok"} => current = next

CoreInv == Shape /\ Cores /\ Served /\ Clear /\ Undoable

\* The Boolean part of TypeOK.
Flags ==
  /\ up \in BOOLEAN /\ closed \in BOOLEAN /\ lastError \in BOOLEAN
  /\ held \in BOOLEAN /\ settled \in BOOLEAN /\ unhurt \in BOOLEAN

----------------------------------------------------------------------------

\* No step launches a child beside a known one, or forgets one that lives.
LEMMA CountedStep ==
  ASSUME TypeOK, Shape, Cores, Counted, [Next]_vars
  PROVE  Counted'
<1> USE DEF Counted, Known, coreVars, children, opVars
<1>1. CASE Boot \/ (\E c \in Config : Push(c)) \/ Restart \/ Supervise \/ Close
  BY <1>1 DEF Boot, BootYields, BootLoads, BootCannotLoad, Push, Restart,
     Supervise, Close, Acquire, Shape
<1>2. CASE BackoffEnds \/ Shutdown \/ AgentStarts
  BY <1>2 DEF BackoffEnds, Shutdown, AgentStarts
<1>3. CASE \/ ApplySame \/ ApplyTested \/ ApplyRefused \/ SwitchNoop
           \/ SwitchHot \/ SwitchReplace
  BY <1>3 DEF ApplySame, ApplyTested, ApplyRefused, SwitchNoop, SwitchHot,
     SwitchReplace, Goto, At
<1>4. CASE \/ HotDone \/ HotFailed \/ HotRecorded \/ PersistSkipped \/ Persist
           \/ PersistFailed \/ SavedRecorded
  BY <1>4 DEF HotDone, HotFailed, HotRecorded, PersistSkipped, Persist,
     PersistFailed, SavedRecorded, Goto, At
<1>5. CASE StopProcess
  <2>1. pc = "stop" /\ pc' \in {"launch", "idle"} /\ process' = "nil"
    BY <1>5 DEF StopProcess, Release
  <2>2. \/ /\ alive' = IF process = "live" THEN alive - 1 ELSE alive
           /\ unstopped' = unstopped
        \/ process = "live" /\ unstopped' = unstopped + 1 /\ alive' = alive
    BY <1>5 DEF StopProcess
  <2>q. QED
    BY <2>1, <2>2
<1>6. CASE Launch
  BY <1>6 DEF Launch, Goto, Shape
<1>7. CASE Ready
  <2>1. pc = "wait" /\ pc' # "wait" /\ process' = "live"
    BY <1>7 DEF Ready, Goto, AfterReady
  <2>2. UNCHANGED children
    BY <1>7 DEF Ready
  <2>q. QED
    BY <2>1, <2>2
<1>8. CASE StartFailed
  <2>1. process' = process /\ pc' \in {"launch", "fail"} /\ process # "live"
    BY <1>8 DEF StartFailed, Goto, Shape
  <2>2. \/ pc = "launch" /\ UNCHANGED children
        \/ pc = "wait" /\ alive' = alive - 1 /\ unstopped' = unstopped
        \/ pc = "wait" /\ alive' = alive /\ unstopped' = unstopped + 1
    BY <1>8 DEF StartFailed, LaunchedEnds, LaunchedLivesOn
  <2>q. QED
    BY <2>1, <2>2
<1>9. CASE Succeed \/ Fail
  BY <1>9 DEF Succeed, Fail, Release
<1>10. CASE ChildDies
  <2>1. pc # "wait" /\ pc' = pc
    BY <1>10 DEF ChildDies, Shape
  <2>q. QED
    BY <1>10, <2>1 DEF ChildDies
<1>11. CASE UnstoppedEnds
  BY <1>11 DEF UnstoppedEnds
<1>12. CASE AgentDies
  BY <1>12 DEF AgentDies, Release
<1>u. CASE UNCHANGED vars
  BY <1>u DEF vars
<1>q. QED
  BY <1>1, <1>2, <1>3, <1>4, <1>5, <1>6, <1>7, <1>8, <1>9, <1>10, <1>11,
     <1>12, <1>u
  DEF Next, Advance, ApplyStep, ProcessStep

\* Every step keeps the types; a step of start needs to know its target.
LEMMA TypeStep ==
  ASSUME TypeOK, Shape, alive' \in Nat, unstopped' \in Nat, [Next]_vars
  PROVE  TypeOK'
<1> USE ConfigAssumption
<1> USE DEF MaybeConfig, Holders, Steps, coreVars, children, opVars
<1>1. CASE BootYields
  BY <1>1 DEF BootYields, TypeOK
<1>2. CASE BootLoads
  BY <1>2 DEF BootLoads, TypeOK, NothingToBoot, Acquire
<1>3. CASE BootCannotLoad
  <2>1. Flags'
    BY <1>3, Zenon DEF BootCannotLoad, TypeOK, Flags, NothingToBoot, Fault
  <2>q. QED
    BY <1>3, <2>1, SMT
      DEF BootCannotLoad, TypeOK, Flags, NothingToBoot, Fault
<1>4. ASSUME NEW c \in Config, Push(c) PROVE TypeOK'
  BY <1>4 DEF Push, TypeOK, Acquire
<1>5. CASE Restart
  BY <1>5 DEF Restart, TypeOK, Acquire
<1>6. CASE Supervise
  BY <1>6 DEF Supervise, TypeOK, Acquire, NeedsCore
<1>7. CASE BackoffEnds
  <2>1. Flags'
    BY <1>7, Zenon DEF BackoffEnds, TypeOK, Flags
  <2>q. QED
    BY <1>7, <2>1, SMT DEF BackoffEnds, TypeOK, Flags
<1>8. CASE Shutdown
  BY <1>8 DEF Shutdown, TypeOK
<1>9. CASE Close
  BY <1>9 DEF Close, TypeOK, Acquire
<1>10. CASE ApplySame
  BY <1>10 DEF ApplySame, TypeOK, Goto, NoFault
<1>11. CASE ApplyTested
  BY <1>11 DEF ApplyTested, TypeOK, Goto, NoFault
<1>12. CASE ApplyRefused
  <2>1. Flags'
    BY <1>12, Zenon DEF ApplyRefused, TypeOK, Flags, Goto, NoFault, Fault
  <2>q. QED
    BY <1>12, <2>1, SMT
      DEF ApplyRefused, TypeOK, Flags, Goto, NoFault, Fault
<1>13. CASE SwitchNoop
  BY <1>13 DEF SwitchNoop, TypeOK, Goto, NoFault, Shape, At
<1>14. CASE SwitchHot
  BY <1>14 DEF SwitchHot, TypeOK, Goto, NoFault
<1>15. CASE SwitchReplace
  BY <1>15 DEF SwitchReplace, TypeOK, Goto, NoFault
<1>16. CASE HotDone
  BY <1>16 DEF HotDone, TypeOK, Goto, NoFault, Shape, At
<1>17. CASE HotFailed
  BY <1>17 DEF HotFailed, TypeOK, Goto, NoFault
<1>18. CASE HotRecorded
  BY <1>18 DEF HotRecorded, TypeOK, Goto, NoFault
<1>19. CASE PersistSkipped
  BY <1>19 DEF PersistSkipped, TypeOK, Goto, NoFault, Stored
<1>20. CASE Persist
  BY <1>20 DEF Persist, TypeOK, Goto, NoFault, Stored
<1>21. CASE PersistFailed
  <2>1. Flags'
    BY <1>21, Zenon DEF PersistFailed, TypeOK, Flags, Goto, Fault, Stored
  <2>q. QED
    BY <1>21, <2>1, SMT
      DEF PersistFailed, TypeOK, Flags, Goto, Fault, Stored
<1>22. CASE SavedRecorded
  BY <1>22 DEF SavedRecorded, TypeOK, Goto, NoFault
<1>23. CASE StopProcess
  <2>1. Flags'
    BY <1>23, Zenon DEF StopProcess, TypeOK, Flags, NoFault, Fault
  <2>2. faults' \in 0..MaxFaults
    BY <1>23 DEF StopProcess, TypeOK, Fault, NoFault
  <2>3. /\ holder' \in Holders /\ pc' \in Steps /\ next' \in MaybeConfig
        /\ prev' \in MaybeConfig /\ target' \in MaybeConfig
    BY <1>23 DEF StopProcess, TypeOK, Release, AfterStop
  <2>q. QED
    BY <1>23, <2>1, <2>2, <2>3, Zenon DEF StopProcess, TypeOK, Flags
<1>24. CASE Launch
  BY <1>24 DEF Launch, TypeOK, Goto, NoFault
<1>25. CASE Ready
  <2>1. Flags'
    BY <1>25, Zenon DEF Ready, TypeOK, Flags, Goto, NoFault, AfterReady
  <2>q. QED
    BY <1>25, <2>1, SMT
      DEF Ready, TypeOK, Flags, Goto, NoFault, AfterReady, Shape, At
<1>26. CASE StartFailed
  <2>1. Flags'
    BY <1>26, Zenon
      DEF StartFailed, LaunchedEnds, LaunchedLivesOn, TypeOK, Flags, Goto,
          NoFault, Fault, RollsBack
  <2>q. QED
    <3>1. faults' \in 0..MaxFaults
      BY <1>26 DEF StartFailed, LaunchedEnds, LaunchedLivesOn, TypeOK, Fault,
         NoFault
    <3>2. pc' \in Steps /\ target' \in MaybeConfig
      BY <1>26 DEF StartFailed, TypeOK, Goto
    <3>3. holder' \in Holders /\ next' \in MaybeConfig /\ prev' \in MaybeConfig
      BY <1>26 DEF StartFailed, TypeOK, Goto
    <3>4. QED
      BY <1>26, <2>1, <3>1, <3>2, <3>3, Zenon DEF StartFailed, TypeOK, Flags
<1>27. CASE Succeed
  <2>1. Flags'
    BY <1>27, Zenon DEF Succeed, TypeOK, Flags, Release, NoFault
  <2>q. QED
    <3>1. acked' \in MaybeConfig
      BY <1>27 DEF Succeed, TypeOK, Shape
    <3>2. QED
      BY <1>27, <2>1, <3>1, Zenon DEF Succeed, TypeOK, Flags, Release, NoFault
<1>28. CASE Fail
  BY <1>28 DEF Fail, TypeOK, Release, NoFault
<1>29. CASE ChildDies
  <2>1. Flags'
    BY <1>29, Zenon DEF ChildDies, TypeOK, Flags, Fault
  <2>q. QED
    BY <1>29, <2>1, SMT DEF ChildDies, TypeOK, Flags, Fault
<1>30. CASE AgentDies
  BY <1>30 DEF AgentDies, TypeOK, Release, Unanswered
<1>31. CASE AgentStarts
  BY <1>31 DEF AgentStarts, TypeOK
<1>32. CASE UnstoppedEnds
  BY <1>32 DEF UnstoppedEnds, TypeOK
<1>u. CASE UNCHANGED vars
  BY <1>u DEF vars, TypeOK
<1>q. QED
  BY <1>1, <1>2, <1>3, <1>4, <1>5, <1>6, <1>7, <1>8, <1>9, <1>10, <1>11,
     <1>12, <1>13, <1>14, <1>15, <1>16, <1>17, <1>18, <1>19, <1>20, <1>21,
     <1>22, <1>23, <1>24, <1>25, <1>26, <1>27, <1>28, <1>29, <1>30, <1>31,
     <1>32, <1>u
  DEF Next, Boot, Advance, ApplyStep, ProcessStep

\* Every step of an operation, and every death, keeps what the operation and
\* those after it rely on.
LEMMA CoreStep ==
  ASSUME TypeOK, TypeOK', CoreInv, [Next]_vars
  PROVE  CoreInv'
<1> USE ConfigAssumption
<1> USE DEF TypeOK, CoreInv, Shape, Cores, Served, Clear, Undoable, At,
        MaybeConfig, Holders, Steps, coreVars, children, opVars
<1>1. CASE BootYields
  BY <1>1 DEF BootYields
<1>2. CASE BootLoads
  BY <1>2 DEF BootLoads, NothingToBoot, Acquire
<1>3. CASE BootCannotLoad
  BY <1>3 DEF BootCannotLoad, NothingToBoot, Fault
<1>4. ASSUME NEW c \in Config, Push(c) PROVE CoreInv'
  BY <1>4 DEF Push, Acquire
<1>5. CASE Restart
  BY <1>5 DEF Restart, Acquire
<1>6. CASE Supervise
  BY <1>6 DEF Supervise, Acquire, NeedsCore
<1>7. CASE BackoffEnds
  BY <1>7 DEF BackoffEnds
<1>8. CASE Shutdown
  BY <1>8 DEF Shutdown
<1>9. CASE Close
  BY <1>9 DEF Close, Acquire
<1>10. CASE ApplySame
  BY <1>10 DEF ApplySame, Goto, NoFault
<1>11. CASE ApplyTested
  BY <1>11 DEF ApplyTested, Goto, NoFault
<1>12. CASE ApplyRefused
  BY <1>12 DEF ApplyRefused, Goto, NoFault, Fault
<1>13. CASE SwitchNoop
  BY <1>13 DEF SwitchNoop, Goto, NoFault
<1>14. CASE SwitchHot
  BY <1>14 DEF SwitchHot, Goto, NoFault
<1>15. CASE SwitchReplace
  BY <1>15 DEF SwitchReplace, Goto, NoFault
<1>16. CASE HotDone
  BY <1>16 DEF HotDone, Goto, NoFault
<1>17. CASE HotFailed
  BY <1>17 DEF HotFailed, Goto, NoFault
<1>18. CASE HotRecorded
  BY <1>18 DEF HotRecorded, Goto, NoFault
<1>19. CASE PersistSkipped
  BY <1>19 DEF PersistSkipped, Goto, NoFault, Stored
<1>20. CASE Persist
  BY <1>20 DEF Persist, Goto, NoFault, Stored
<1>21. CASE PersistFailed
  BY <1>21 DEF PersistFailed, Goto, Fault, Stored
<1>22. CASE SavedRecorded
  BY <1>22 DEF SavedRecorded, Goto, NoFault
<1>23. CASE StopProcess
  BY <1>23 DEF StopProcess, Release, NoFault, Fault, AfterStop
<1>24. CASE Launch
  BY <1>24 DEF Launch, Goto, NoFault
<1>25. CASE Ready
  BY <1>25 DEF Ready, Goto, NoFault, AfterReady
<1>26. CASE StartFailed
  BY <1>26 DEF StartFailed, LaunchedEnds, LaunchedLivesOn, Goto, NoFault,
     Fault, RollsBack
<1>27. CASE Succeed
  BY <1>27 DEF Succeed, Release, NoFault
<1>28. CASE Fail
  BY <1>28 DEF Fail, Release, NoFault
<1>29. CASE ChildDies
  BY <1>29 DEF ChildDies, Fault
<1>30. CASE AgentDies
  BY <1>30 DEF AgentDies, Release, Unanswered
<1>31. CASE AgentStarts
  BY <1>31 DEF AgentStarts
<1>32. CASE UnstoppedEnds
  BY <1>32 DEF UnstoppedEnds
<1>u. CASE UNCHANGED vars
  BY <1>u DEF vars
<1>q. QED
  BY <1>1, <1>2, <1>3, <1>4, <1>5, <1>6, <1>7, <1>8, <1>9, <1>10, <1>11,
     <1>12, <1>13, <1>14, <1>15, <1>16, <1>17, <1>18, <1>19, <1>20, <1>21,
     <1>22, <1>23, <1>24, <1>25, <1>26, <1>27, <1>28, <1>29, <1>30, <1>31,
     <1>32, <1>u
  DEF Next, Boot, Advance, ApplyStep, ProcessStep

\* If SaveLastGood fails before its rename or not at all, every step keeps
\* the disk, savedRev and the answered push in line.
LEMMA DurableStep ==
  ASSUME ~SaveMayFailLate, TypeOK, TypeOK', Shape, Durable, [Next]_vars
  PROVE  Durable'
<1> USE ConfigAssumption
<1> USE DEF TypeOK, Shape, Durable, At, Unanswered,
        MaybeConfig, Holders, Steps, coreVars, children, opVars
<1>1. CASE BootYields
  BY <1>1 DEF BootYields
<1>2. CASE BootLoads
  BY <1>2 DEF BootLoads, NothingToBoot, Acquire
<1>3. CASE BootCannotLoad
  BY <1>3 DEF BootCannotLoad, NothingToBoot, Fault
<1>4. ASSUME NEW c \in Config, Push(c) PROVE Durable'
  BY <1>4 DEF Push, Acquire
<1>5. CASE Restart
  BY <1>5 DEF Restart, Acquire
<1>6. CASE Supervise
  BY <1>6 DEF Supervise, Acquire, NeedsCore
<1>7. CASE BackoffEnds
  BY <1>7 DEF BackoffEnds
<1>8. CASE Shutdown
  BY <1>8 DEF Shutdown
<1>9. CASE Close
  BY <1>9 DEF Close, Acquire
<1>10. CASE ApplySame
  BY <1>10 DEF ApplySame, Goto, NoFault
<1>11. CASE ApplyTested
  BY <1>11 DEF ApplyTested, Goto, NoFault
<1>12. CASE ApplyRefused
  BY <1>12 DEF ApplyRefused, Goto, NoFault, Fault
<1>13. CASE SwitchNoop
  BY <1>13 DEF SwitchNoop, Goto, NoFault
<1>14. CASE SwitchHot
  BY <1>14 DEF SwitchHot, Goto, NoFault
<1>15. CASE SwitchReplace
  BY <1>15 DEF SwitchReplace, Goto, NoFault
<1>16. CASE HotDone
  BY <1>16 DEF HotDone, Goto, NoFault
<1>17. CASE HotFailed
  BY <1>17 DEF HotFailed, Goto, NoFault
<1>18. CASE HotRecorded
  BY <1>18 DEF HotRecorded, Goto, NoFault
<1>19. CASE PersistSkipped
  BY <1>19 DEF PersistSkipped, Goto, NoFault, Stored
<1>20. CASE Persist
  BY <1>20 DEF Persist, Goto, NoFault, Stored
<1>21. CASE PersistFailed
  BY <1>21 DEF PersistFailed, Goto, Fault, Stored
<1>22. CASE SavedRecorded
  BY <1>22 DEF SavedRecorded, Goto, NoFault
<1>23. CASE StopProcess
  BY <1>23 DEF StopProcess, Release, NoFault, AfterStop
<1>24. CASE Launch
  BY <1>24 DEF Launch, Goto, NoFault
<1>25. CASE Ready
  BY <1>25 DEF Ready, Goto, NoFault, AfterReady
<1>26. CASE StartFailed
  BY <1>26 DEF StartFailed, Goto, NoFault, Fault, RollsBack
<1>27. CASE Succeed
  BY <1>27 DEF Succeed, Release, NoFault
<1>28. CASE Fail
  BY <1>28 DEF Fail, Release, NoFault
<1>29. CASE ChildDies
  BY <1>29 DEF ChildDies, Fault
<1>30. CASE AgentDies
  BY <1>30 DEF AgentDies, Release
<1>31. CASE AgentStarts
  BY <1>31 DEF AgentStarts
<1>32. CASE UnstoppedEnds
  BY <1>32 DEF UnstoppedEnds
<1>u. CASE UNCHANGED vars
  BY <1>u DEF vars
<1>q. QED
  BY <1>1, <1>2, <1>3, <1>4, <1>5, <1>6, <1>7, <1>8, <1>9, <1>10, <1>11,
     <1>12, <1>13, <1>14, <1>15, <1>16, <1>17, <1>18, <1>19, <1>20, <1>21,
     <1>22, <1>23, <1>24, <1>25, <1>26, <1>27, <1>28, <1>29, <1>30, <1>31,
     <1>32, <1>u
  DEF Next, Boot, Advance, ApplyStep, ProcessStep

----------------------------------------------------------------------------

\* While the agent runs, no step but a push's replaces its config by another.
LEMMA ConfigStep ==
  ASSUME TypeOK, CoreInv, [Next]_vars,
         up', current # None, current' # current
  PROVE  holder = "apply"
<1> USE DEF CoreInv, Shape, At, coreVars, children, opVars
<1>1. CASE BootLoads
  BY <1>1 DEF BootLoads, NothingToBoot
<1>2. CASE Ready
  BY <1>2 DEF Ready
<1>3. CASE AgentDies
  BY <1>3 DEF AgentDies
<1>4. CASE BootYields \/ BootCannotLoad \/ BackoffEnds \/ Shutdown \/ ChildDies
             \/ UnstoppedEnds \/ AgentStarts \/ (\E c \in Config : Push(c))
  BY <1>4 DEF BootYields, BootCannotLoad, BackoffEnds, Shutdown, ChildDies,
     UnstoppedEnds, AgentStarts, Push
<1>5. CASE Restart \/ Supervise \/ Close
  BY <1>5 DEF Restart, Supervise, Close
<1>6. CASE StopProcess \/ Launch \/ StartFailed \/ Succeed \/ Fail
  BY <1>6 DEF StopProcess, Launch, StartFailed, Succeed, Fail
<1>7. CASE ApplyStep
  BY <1>7 DEF ApplyStep, ApplySame, ApplyTested, ApplyRefused, SwitchNoop,
     SwitchHot, SwitchReplace, HotDone, HotFailed, HotRecorded,
     PersistSkipped, Persist, PersistFailed, SavedRecorded
<1>8. CASE UNCHANGED vars
  BY <1>8 DEF vars
<1>q. QED
  BY <1>1, <1>2, <1>3, <1>4, <1>5, <1>6, <1>7, <1>8
  DEF Next, Boot, Advance, ProcessStep

\* A step of the operation that is not a push is a boot of NodeConfig, or
\* changes nothing that it shows.
LEMMA OtherStep ==
  ASSUME TypeOK, CoreInv, Next, holder # "apply", holder' # "apply"
  PROVE  Promise!Boot \/ Promise!Die \/ UNCHANGED Promise!vars
<1> USE ConfigAssumption
<1> USE DEF TypeOK, CoreInv, Shape, At, coreVars, children, opVars,
        Promise!vars
<1>1. CASE BootLoads
  BY <1>1 DEF BootLoads, NothingToBoot, Acquire, Promise!Boot
<1>2. CASE BootYields \/ BootCannotLoad
  BY <1>2 DEF BootYields, BootCannotLoad
<1>3. CASE \E c \in Config : Push(c)
  BY <1>3 DEF Push, Acquire
<1>4. CASE Restart \/ Supervise \/ Close
  BY <1>4 DEF Restart, Supervise, Close
<1>5. CASE BackoffEnds \/ Shutdown \/ ChildDies \/ UnstoppedEnds \/ AgentStarts
  BY <1>5 DEF BackoffEnds, Shutdown, ChildDies, UnstoppedEnds, AgentStarts
<1>6. CASE ApplyStep
  BY <1>6 DEF ApplyStep, ApplySame, ApplyTested, ApplyRefused, SwitchNoop,
     SwitchHot, SwitchReplace, HotDone, HotFailed, HotRecorded,
     PersistSkipped, Persist, PersistFailed, SavedRecorded
<1>7. CASE StopProcess \/ Launch \/ StartFailed
  BY <1>7 DEF StopProcess, Launch, StartFailed
<1>8. CASE Ready
  BY <1>8 DEF Ready
<1>9. CASE Succeed \/ Fail
  BY <1>9 DEF Succeed, Fail
<1>10. CASE AgentDies
  BY <1>10 DEF AgentDies, Release, Promise!Die
<1>q. QED
  BY <1>1, <1>2, <1>3, <1>4, <1>5, <1>6, <1>7, <1>8, <1>9, <1>10
  DEF Next, Boot, Advance, ProcessStep

\* A step of Apply adopts the config, saves it, answers the push, or changes
\* nothing that NodeConfig shows.
LEMMA PushStep ==
  ASSUME TypeOK, CoreInv, Durable, Next, holder = "apply"
  PROVE  \/ Promise!Adopt \/ Promise!Save \/ Promise!Answer \/ Promise!Die
         \/ UNCHANGED Promise!vars
<1> USE ConfigAssumption
<1> USE DEF TypeOK, CoreInv, Shape, Undoable, At, coreVars, children, opVars,
        Promise!vars
<1>1. CASE SwitchNoop
  BY <1>1 DEF SwitchNoop, Goto, Promise!Adopt
<1>2. CASE HotRecorded
  BY <1>2 DEF HotRecorded, Goto, Promise!Adopt
<1>3. CASE Ready
  <2>1. CASE target = next
    BY <1>3, <2>1 DEF Ready, Goto, Promise!Adopt
  <2>2. CASE target # next
    BY <1>3, <2>2 DEF Ready, Goto
  <2>q. QED
    BY <2>1, <2>2
<1>4. CASE Persist
  BY <1>4 DEF Persist, Goto, Promise!Save
<1>5. CASE PersistFailed
  BY <1>5 DEF PersistFailed, Goto, Promise!Save
<1>6. CASE Succeed
  <2>1. current = next /\ disk = next /\ next \in Config
    BY <1>6 DEF Succeed, Durable, Unanswered
  <2>q. QED
    BY <1>6, <2>1
    DEF Succeed, Release, Promise!Answer, Promise!AnswerOk, Promise!PushOver
<1>7. CASE Fail
  BY <1>7
  DEF Fail, Release, Promise!Answer, Promise!AnswerRefused,
      Promise!AnswerUnsaved, Promise!PushOver
<1>8. CASE AgentDies
  BY <1>8 DEF AgentDies, Release, Promise!Die
<1>9. CASE \/ ApplySame \/ ApplyTested \/ ApplyRefused \/ SwitchHot
           \/ SwitchReplace \/ HotDone \/ HotFailed
  BY <1>9 DEF ApplySame, ApplyTested, ApplyRefused, SwitchHot, SwitchReplace,
     HotDone, HotFailed, Goto
<1>10. CASE PersistSkipped \/ SavedRecorded
  BY <1>10 DEF PersistSkipped, SavedRecorded, Goto
<1>11. CASE StopProcess \/ Launch \/ StartFailed
  BY <1>11 DEF StopProcess, Launch, StartFailed, Goto
<1>12. CASE Boot \/ (\E c \in Config : Push(c)) \/ Restart \/ Supervise \/ Close
  BY <1>12 DEF Boot, BootYields, BootLoads, BootCannotLoad, Push, Restart,
     Supervise, Close, Acquire
<1>13. CASE BackoffEnds \/ Shutdown \/ ChildDies \/ UnstoppedEnds \/ AgentStarts
  BY <1>13 DEF BackoffEnds, Shutdown, ChildDies, UnstoppedEnds, AgentStarts
<1>q. QED
  BY <1>1, <1>2, <1>3, <1>4, <1>5, <1>6, <1>7, <1>8, <1>9, <1>10, <1>11,
     <1>12, <1>13
  DEF Next, Advance, ApplyStep, ProcessStep

\* Only a push that acquires applyMu becomes the push that is under way.
LEMMA AskStep ==
  ASSUME TypeOK, CoreInv, Next, holder # "apply", holder' = "apply"
  PROVE  \E c \in Config : Promise!Ask(c)
<1> USE ConfigAssumption
<1> USE DEF TypeOK, CoreInv, Shape, At, coreVars, children, opVars
<1>1. CASE \E c \in Config : Push(c)
  BY <1>1 DEF Push, Acquire, Promise!Ask
<1>2. CASE Boot \/ Restart \/ Supervise \/ BackoffEnds \/ Shutdown \/ Close
             \/ ChildDies \/ UnstoppedEnds \/ AgentDies \/ AgentStarts
  BY <1>2 DEF Boot, BootYields, BootLoads, BootCannotLoad, Restart, Supervise,
     BackoffEnds, Shutdown, Close, ChildDies, UnstoppedEnds, AgentDies,
     AgentStarts, Acquire, Release
<1>3. CASE ApplyStep
  BY <1>3 DEF ApplyStep, ApplySame, ApplyTested, ApplyRefused, SwitchNoop,
     SwitchHot, SwitchReplace, HotDone, HotFailed, HotRecorded,
     PersistSkipped, Persist, PersistFailed, SavedRecorded
<1>4. CASE ProcessStep \/ Succeed \/ Fail
  BY <1>4 DEF ProcessStep, StopProcess, Launch, Ready, StartFailed, Succeed,
     Fail, Goto, Release
<1>q. QED
  BY <1>1, <1>2, <1>3, <1>4 DEF Next, Advance

\* The types and what every operation relies on.
THEOREM CoreInvariant == Spec => [](TypeOK /\ CoreInv /\ Counted)
<1>1. ASSUME Init PROVE TypeOK
  <2>1. Flags
    BY <1>1, Zenon DEF Init, Flags
  <2>2. faults \in 0..MaxFaults
    BY <1>1, ConfigAssumption DEF Init
  <2>q. QED
    BY <1>1, <2>1, <2>2, Zenon
    DEF Init, Flags, TypeOK, MaybeConfig, Holders, Steps
<1>2. Init => CoreInv
  BY ConfigAssumption
  DEF Init, CoreInv, Shape, Cores, Served, Clear, Undoable, At
<1>3. Init => Counted
  BY DEF Init, Counted, Known
<1>4. TypeOK /\ CoreInv /\ Counted /\ [Next]_vars
        => (TypeOK /\ CoreInv /\ Counted)'
  <2> SUFFICES ASSUME TypeOK, CoreInv, Counted, [Next]_vars
               PROVE  (TypeOK /\ CoreInv /\ Counted)'
    OBVIOUS
  <2>1. Counted'
    BY CountedStep DEF CoreInv
  <2>2. alive' \in Nat /\ unstopped' \in Nat
    BY <2>1 DEF Counted
  <2>3. TypeOK'
    BY <2>2, TypeStep DEF CoreInv
  <2>q. QED
    BY <2>1, <2>3, CoreStep
<1>q. QED
  BY <1>1, <1>2, <1>3, <1>4, PTL DEF Spec

\* The fields of Core, and of its model, keep their types.
THEOREM TypeCorrect == Spec => []TypeOK
<1>q. QED
  BY CoreInvariant, PTL

\* last-good.json never holds a config that no core came up with: persist
\* comes after switchTo on every path.
THEOREM StoredConfigsServe == Spec => []SavedHasServed
<1>1. CoreInv => SavedHasServed
  BY DEF CoreInv, Served, SavedHasServed
<1>q. QED
  BY <1>1, CoreInvariant, PTL

\* The revision the agent reports is the one its core serves, except within
\* a hot apply.
THEOREM ReportsAreTrue == Spec => []ReportedIsServed
<1>1. CoreInv => ReportedIsServed
  BY DEF CoreInv, Cores, ReportedIsServed, At
<1>q. QED
  BY <1>1, CoreInvariant, PTL

\* Two cores live side by side only if one outlived a Process.Stop that
\* reported an error: no operation launches a core beside one that it did not
\* stop, or drops one that lives.
THEOREM NeverTwoCores == Spec => []OneCore
<1>1. Counted => OneCore
  BY DEF Counted, Known, OneCore
<1>q. QED
  BY <1>1, CoreInvariant, PTL

\* A push that is answered with a refusal left config and core as they were.
THEOREM RefusalsRestore == Spec => []RefusedPushRestores
<1>1. CoreInv => RefusedPushRestores
  BY DEF CoreInv, Cores, Undoable, RefusedPushRestores, At
<1>q. QED
  BY <1>1, CoreInvariant, PTL

\* Boot, Restart and the supervisor never replace a config by another one.
THEOREM ConfigIsThePushs == Spec => OnlyPushesChangeConfig
<1>1. TypeOK /\ CoreInv /\ [Next]_vars
        => [up' /\ current # None /\ current' # current => holder = "apply"]_vars
  BY ConfigStep
<1>q. QED
  BY <1>1, CoreInvariant, PTL DEF Spec, OnlyPushesChangeConfig

\* If SaveLastGood never fails after its rename, an answered push is what a
\* reboot brings back; AgentCoreLateSave.cfg shows that the condition is needed.
THEOREM AcknowledgedPushesLast ==
  ASSUME ~SaveMayFailLate
  PROVE  Spec => []AckIsDurable
<1>1. Init => Durable
  BY DEF Init, Durable, Unanswered
<1>2. TypeOK /\ TypeOK' /\ CoreInv /\ Durable /\ [Next]_vars => Durable'
  BY DurableStep DEF CoreInv
<1>3. Durable => AckIsDurable
  BY DEF Durable, AckIsDurable
<1>q. QED
  BY <1>1, <1>2, <1>3, CoreInvariant, PTL DEF Spec

\* Under the same condition the Core implements NodeConfig: an answer of "ok"
\* means adopted and stored, one of "refused" means nothing changed, and only
\* a push moves the node from one config to another.  That every push is
\* answered (the fairness of KeepsPromise) is checked by TLC.
THEOREM CoreImplementsNodeConfig ==
  ASSUME ~SaveMayFailLate
  PROVE  Spec => Promise!SafeSpec
<1>1. Init => Promise!Init
  BY DEF Init, Promise!Init
<1>2. Init => Durable
  BY DEF Init, Durable, Unanswered
<1>3. TypeOK /\ TypeOK' /\ CoreInv /\ Durable /\ [Next]_vars => Durable'
  BY DurableStep DEF CoreInv
<1>4. TypeOK /\ CoreInv /\ Durable /\ [Next]_vars
        => [Promise!Next]_(Promise!vars)
  <2> SUFFICES ASSUME TypeOK, CoreInv, Durable, [Next]_vars
               PROVE  [Promise!Next]_(Promise!vars)
    OBVIOUS
  <2>1. CASE UNCHANGED vars
    BY <2>1 DEF vars, coreVars, children, opVars, Promise!vars
  <2>2. CASE Next /\ holder = "apply"
    BY <2>2, PushStep DEF Promise!Next
  <2>3. CASE Next /\ holder # "apply" /\ holder' = "apply"
    BY <2>3, AskStep DEF Promise!Next
  <2>4. CASE Next /\ holder # "apply" /\ holder' # "apply"
    BY <2>4, OtherStep DEF Promise!Next
  <2>q. QED
    BY <2>1, <2>2, <2>3, <2>4
<1>q. QED
  BY <1>1, <1>2, <1>3, <1>4, CoreInvariant, PTL DEF Spec, Promise!SafeSpec
=============================================================================
