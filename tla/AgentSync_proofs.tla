-------------------------- MODULE AgentSync_proofs --------------------------
(***************************************************************************)
(* The safety properties of AgentSync, for any configs and bounds.         *)
(*                                                                         *)
(* A mark is cleared only with the time that the tick read, and what the   *)
(* tick rendered after that read has every edit of that mark (Marks).      *)
(* The answer that a tick reads is to its own push, because of the pushes  *)
(* in the inbox only that one is awaited (Wait).                           *)
(***************************************************************************)
EXTENDS AgentSync, TLAPS

\* What the tick that is under way has read, rendered and confirmed.
Marks ==
  /\ edits \in Nat /\ marked \in Nat /\ marked <= edits
  /\ confirmed \in Nat /\ wantEdit \in Nat
  /\ seen.at \in Nat /\ seen.at <= edits
  /\ marked = dirtyAt
  /\ tick \in {"geo", "push", "clear"} => seen.at <= wantEdit
  /\ tick = "clear" => wantEdit <= confirmed
  /\ ClearedIsConfirmed

----------------------------------------------------------------------------

\* A step of the master or of the agent keeps the numbers in order.
LEMMA MarksStep ==
  ASSUME Marks, [Next]_vars
  PROVE  Marks'
<1> USE DEF Marks, ClearedIsConfirmed, NoRow
<1> USE DEF panelVars, tickVars, stateVars, agentVars
<1>1. ASSUME NEW c \in Config, Mutate(c) PROVE Marks'
  BY <1>1 DEF Mutate
<1>2. ASSUME NEW c \in Config, ChangeSettings(c) PROVE Marks'
  BY <1>2 DEF ChangeSettings
<1>3. CASE TickBegins
  BY <1>3 DEF TickBegins
<1>4. CASE ReadStats
  BY <1>4 DEF ReadStats
<1>5. CASE NotDue
  BY <1>5 DEF NotDue, EndTick
<1>6. CASE TakeUp
  BY <1>6 DEF TakeUp, GoOn
<1>7. CASE Render
  BY <1>7 DEF Render, GoOn, Confirm
<1>8. CASE RestRefused \/ SendGeo \/ TurnedDown \/ PushFailed
  BY <1>8 DEF RestRefused, SendGeo, TurnedDown, PushFailed, EndTick
<1>9. CASE LeaveToSupervisor
  BY <1>9 DEF LeaveToSupervisor, GoOn, Confirm
<1>10. CASE SendPush
  BY <1>10 DEF SendPush, GoOn
<1>11. CASE Pushed
  BY <1>11 DEF Pushed, GoOn, Confirm
<1>12. CASE ClearDirty
  <2>1. /\ tick = "clear" /\ tick' = "idle" /\ seen' = NoRow /\ wantEdit' = 0
        /\ UNCHANGED <<edits, dirtyAt, marked, confirmed>>
    BY <1>12 DEF ClearDirty, EndTick
  <2>2. ~dirty' => ~dirty \/ dirtyAt = seen.at
    BY <1>12, Zenon DEF ClearDirty, SameMark
  <2>3. ~dirty' => confirmed' >= marked'
    BY <2>1, <2>2
  <2>q. QED
    BY <2>1, <2>3
<1>13. CASE SyncFails \/ MasterRestarts
  BY <1>13 DEF SyncFails, MasterRestarts, EndTick
<1>14. CASE DriftComesDue \/ HoldEnds \/ GeoArrives \/ GeoFails \/ GeoRetryDue
              \/ GeoCopyChanges
  BY <1>14 DEF DriftComesDue, HoldEnds, GeoArrives, GeoFails, GeoRetryDue,
     GeoCopyChanges
<1>15. CASE AgentStep
  BY <1>15 DEF AgentStep, Applies, Refuses
<1>16. CASE CoreDies \/ CoreStarts \/ AgentReboots
  BY <1>16 DEF CoreDies, CoreStarts, AgentReboots
<1>u. CASE UNCHANGED vars
  BY <1>u DEF vars
<1>q. QED
  BY <1>1, <1>2, <1>3, <1>4, <1>5, <1>6, <1>7, <1>8, <1>9, <1>10, <1>11,
     <1>12, <1>13, <1>14, <1>15, <1>16, <1>u
  DEF Next, TickStep

\* A push on its way names a config whose file the agent holds, or that went
\* out without it; the agent does not lose the file.
LEMMA GeoStep ==
  ASSUME GeoGoesFirst, [Next]_vars
  PROVE  GeoGoesFirst'
<1> USE DEF GeoGoesFirst, Lacks
<1> USE DEF panelVars, tickVars, stateVars, agentVars
<1>1. ASSUME NEW c \in Config, Mutate(c) \/ ChangeSettings(c)
      PROVE  GeoGoesFirst'
  BY <1>1 DEF Mutate, ChangeSettings
<1>2. CASE SendPush
  BY <1>2 DEF SendPush, Missing, GoOn
<1>3. CASE TickStep /\ ~SendPush
  BY <1>3 DEF TickStep, TickBegins, ReadStats, NotDue, TakeUp, Render,
     RestRefused, SendGeo, LeaveToSupervisor, Pushed, TurnedDown, PushFailed,
     ClearDirty
<1>4. CASE SyncFails \/ MasterRestarts
  <2>1. \A p \in inbox' : \E q \in inbox : p.cfg = q.cfg
    BY <1>4 DEF SyncFails, MasterRestarts, Unawaited
  <2>q. QED
    BY <1>4, <2>1 DEF SyncFails, MasterRestarts
<1>5. CASE DriftComesDue \/ HoldEnds \/ GeoArrives \/ GeoRetryDue
  BY <1>5 DEF DriftComesDue, HoldEnds, GeoArrives, GeoRetryDue
<1>8. CASE GeoFails
  <2>1. ~hasGeo' => ~hasGeo
    BY <1>8, Zenon DEF GeoFails
  <2>2. inbox' = inbox /\ bare' = bare
    BY <1>8, Zenon DEF GeoFails
  <2>q. QED
    BY <2>1, <2>2, Zenon
<1>6. CASE AgentStep
  BY <1>6 DEF AgentStep, Applies, Refuses
<1>7. CASE CoreDies \/ CoreStarts \/ AgentReboots \/ GeoCopyChanges
  BY <1>7 DEF CoreDies, CoreStarts, AgentReboots, GeoCopyChanges
<1>u. CASE UNCHANGED vars
  BY <1>u DEF vars
<1>q. QED
  BY <1>1, <1>2, <1>3, <1>4, <1>5, <1>6, <1>7, <1>8, <1>u DEF Next

\* The types of what is no flag.  A tick that looks for files, or pushes, has
\* rendered a config.
Kinds ==
  /\ cfg \in Config /\ edits \in 1..MaxEdits /\ dirtyAt \in 1..edits
  /\ tick \in {"idle", "stats", "due", "render", "geo", "push", "clear"}
  /\ seen \in [dirty : BOOLEAN, at : 0..edits]
  /\ stats \in MaybeConfig /\ want \in MaybeConfig
  /\ handledAt \in 0..edits /\ refused \in MaybeConfig
  /\ inbox \subseteq Push
  /\ answer \in {None, "ok", "refused", "failed"}
  /\ agentCfg \in MaybeConfig /\ saved \in MaybeConfig
  /\ faults \in 0..MaxFaults
  /\ marked \in 1..edits /\ wantEdit \in 0..edits /\ confirmed \in 0..edits
  /\ bare \subseteq Config
  /\ tick \in {"geo", "push"} => want \in Config

\* The flags; their proofs are Zenon's.
Flags ==
  /\ dirty \in BOOLEAN /\ statsUp \in BOOLEAN /\ driftDue \in BOOLEAN
  /\ held \in BOOLEAN /\ sendingGeo \in BOOLEAN /\ geoWait \in BOOLEAN
  /\ agentUp \in BOOLEAN /\ hasGeo \in BOOLEAN /\ sendable \in BOOLEAN

\* A push that nobody waits for any more is a push.
LEMMA UnawaitedArePushes ==
  ASSUME inbox \subseteq Push
  PROVE  Unawaited \subseteq Push
<1>1. ASSUME NEW p \in inbox PROVE [cfg |-> p.cfg, awaited |-> FALSE] \in Push
  <2>1. p.cfg \in Config
    BY DEF Push
  <2>q. QED
    BY <2>1 DEF Push
<1>q. QED
  BY <1>1, Zenon DEF Unawaited

\* Only a config is pushed, and no number outruns the edits.
LEMMA KindsStep ==
  ASSUME Flags, Kinds, [Next]_vars
  PROVE  Kinds'
<1> USE SyncAssumption
<1> USE DEF Flags, Kinds, Push, MaybeConfig, NoRow
<1> USE DEF panelVars, tickVars, stateVars, agentVars
<1>1. ASSUME NEW c \in Config, Mutate(c) PROVE Kinds'
  BY <1>1 DEF Mutate
<1>2. ASSUME NEW c \in Config, ChangeSettings(c) PROVE Kinds'
  BY <1>2 DEF ChangeSettings
<1>3. CASE TickBegins
  BY <1>3 DEF TickBegins
<1>4. CASE ReadStats
  BY <1>4 DEF ReadStats, Fault
<1>5. CASE NotDue
  BY <1>5 DEF NotDue, EndTick
<1>6. CASE TakeUp
  BY <1>6 DEF TakeUp, GoOn
<1>7. CASE Render
  BY <1>7 DEF Render, GoOn, Confirm
<1>8. CASE RestRefused
  BY <1>8 DEF RestRefused, EndTick
<1>9. CASE SendGeo
  BY <1>9 DEF SendGeo, EndTick
<1>10. CASE LeaveToSupervisor
  BY <1>10 DEF LeaveToSupervisor, GoOn, Confirm
<1>11. CASE SendPush
  <2>1. [cfg |-> want, awaited |-> TRUE] \in Push
    BY <1>11 DEF SendPush
  <2>2. inbox' \subseteq Push
    BY <1>11, <2>1, Zenon DEF SendPush, Kinds
  <2> HIDE DEF Push
  <2>q. QED
    BY <1>11, <2>2 DEF SendPush, GoOn
<1>12. CASE Pushed
  BY <1>12 DEF Pushed, GoOn, Confirm
<1>13. CASE TurnedDown
  BY <1>13 DEF TurnedDown, EndTick
<1>14. CASE PushFailed
  BY <1>14 DEF PushFailed, EndTick
<1>15. CASE ClearDirty
  BY <1>15 DEF ClearDirty, EndTick
<1>16. CASE SyncFails
  <2>1. inbox' \subseteq Push
    BY <1>16, UnawaitedArePushes, Zenon DEF SyncFails, Kinds
  <2> HIDE DEF Push
  <2>q. QED
    BY <1>16, <2>1 DEF SyncFails, Fault, EndTick
<1>17. CASE MasterRestarts
  <2>1. inbox' \subseteq Push
    BY <1>17, UnawaitedArePushes, Zenon DEF MasterRestarts, Kinds
  <2> HIDE DEF Push
  <2>q. QED
    BY <1>17, <2>1 DEF MasterRestarts, Fault, EndTick
<1>18. CASE DriftComesDue \/ HoldEnds \/ GeoArrives \/ GeoRetryDue
  BY <1>18 DEF DriftComesDue, HoldEnds, GeoArrives, GeoRetryDue
<1>19. CASE GeoFails
  <2>1. /\ UNCHANGED <<panelVars, tickVars, handledAt, refused, inbox, answer,
                       agentCfg, saved, confirmed>>
        /\ Fault \/ faults' = faults
    BY <1>19, Zenon DEF GeoFails
  <2>q. QED
    BY <2>1 DEF Fault
<1>20. ASSUME NEW p \in inbox, Applies(p) PROVE Kinds'
  BY <1>20 DEF Applies, Answer, Fault
<1>21. ASSUME NEW p \in inbox, Refuses(p) PROVE Kinds'
  BY <1>21 DEF Refuses, Answer, Fault
<1>22. CASE CoreDies
  BY <1>22 DEF CoreDies, Fault
<1>23. CASE CoreStarts
  BY <1>23 DEF CoreStarts
<1>24. CASE AgentReboots
  BY <1>24 DEF AgentReboots, Fault
<1>25. CASE GeoCopyChanges
  BY <1>25 DEF GeoCopyChanges, Fault
<1>u. CASE UNCHANGED vars
  BY <1>u DEF vars
<1>q. QED
  BY <1>1, <1>2, <1>3, <1>4, <1>5, <1>6, <1>7, <1>8, <1>9, <1>10, <1>11,
     <1>12, <1>13, <1>14, <1>15, <1>16, <1>17, <1>18, <1>19, <1>20,
     <1>21, <1>22, <1>23, <1>24, <1>25, <1>u
  DEF Next, TickStep, AgentStep

\* Flags stay Boolean.
LEMMA FlagsStep ==
  ASSUME Flags, [Next]_vars
  PROVE  Flags'
<1> USE DEF Flags
<1> USE DEF panelVars, tickVars, stateVars, agentVars
<1>1. ASSUME NEW c \in Config, Mutate(c) PROVE Flags'
  BY <1>1, Zenon DEF Mutate
<1>2. ASSUME NEW c \in Config, ChangeSettings(c) PROVE Flags'
  BY <1>2, Zenon DEF ChangeSettings
<1>3. CASE TickBegins
  BY <1>3, Zenon DEF TickBegins
<1>4. CASE ReadStats
  BY <1>4, Zenon DEF ReadStats, Fault
<1>5. CASE NotDue
  BY <1>5, Zenon DEF NotDue, EndTick
<1>6. CASE TakeUp
  BY <1>6, Zenon DEF TakeUp, GoOn
<1>7. CASE Render
  BY <1>7, Zenon DEF Render, GoOn, Confirm
<1>8. CASE RestRefused
  BY <1>8, Zenon DEF RestRefused, EndTick
<1>9. CASE SendGeo
  BY <1>9, Zenon DEF SendGeo, EndTick
<1>10. CASE LeaveToSupervisor
  BY <1>10, Zenon DEF LeaveToSupervisor, GoOn, Confirm
<1>11. CASE SendPush
  BY <1>11, Zenon DEF SendPush, GoOn
<1>12. CASE Pushed
  BY <1>12, Zenon DEF Pushed, GoOn, Confirm
<1>13. CASE TurnedDown
  BY <1>13, Zenon DEF TurnedDown, EndTick
<1>14. CASE PushFailed
  BY <1>14, Zenon DEF PushFailed, EndTick
<1>15. CASE ClearDirty
  BY <1>15, Zenon DEF ClearDirty, EndTick
<1>16. CASE SyncFails
  BY <1>16, Zenon DEF SyncFails, Unawaited, Fault, EndTick
<1>17. CASE MasterRestarts
  BY <1>17, Zenon DEF MasterRestarts, Unawaited, Fault, EndTick
<1>18. CASE DriftComesDue \/ HoldEnds \/ GeoArrives \/ GeoRetryDue
  BY <1>18, Zenon DEF DriftComesDue, HoldEnds, GeoArrives, GeoRetryDue
<1>19. CASE GeoFails
  BY <1>19, Zenon DEF GeoFails, Fault
<1>20. ASSUME NEW p \in inbox, Applies(p) PROVE Flags'
  BY <1>20, Zenon DEF Applies, Answer, Fault
<1>21. ASSUME NEW p \in inbox, Refuses(p) PROVE Flags'
  BY <1>21, Zenon DEF Refuses, Answer, Fault
<1>22. CASE CoreDies
  BY <1>22, Zenon DEF CoreDies, Fault
<1>23. CASE CoreStarts
  BY <1>23, Zenon DEF CoreStarts
<1>24. CASE AgentReboots
  BY <1>24, Zenon DEF AgentReboots, Fault
<1>25. CASE GeoCopyChanges
  BY <1>25, Zenon DEF GeoCopyChanges, Fault
<1>u. CASE UNCHANGED vars
  BY <1>u, Zenon DEF vars
<1>q. QED
  BY <1>1, <1>2, <1>3, <1>4, <1>5, <1>6, <1>7, <1>8, <1>9, <1>10, <1>11,
     <1>12, <1>13, <1>14, <1>15, <1>16, <1>17, <1>18, <1>19, <1>20,
     <1>21, <1>22, <1>23, <1>24, <1>25, <1>u
  DEF Next, TickStep, AgentStep

\* The wait for an answer: the agent holds the tick's push and nobody else's
\* awaited one, or it has answered it, and only a tick that pushed has an
\* answer to read.
Wait ==
  /\ \A p \in inbox : p.awaited =>
       tick = "push" /\ p.cfg = want /\ answer = None
  /\ tick = "push" /\ answer = None =>
       [cfg |-> want, awaited |-> TRUE] \in inbox
  /\ answer # None => tick = "push"
  /\ answer = "ok" => Runnable(want)

\* Of the pushes in the inbox only the tick's own may answer it.
LEMMA WaitStep ==
  ASSUME Wait, Kinds, [Next]_vars
  PROVE  Wait'
<1> USE SyncAssumption DEF Wait, Runnable, Lacks
<1> USE DEF panelVars, tickVars, stateVars, agentVars
<1>1. ASSUME NEW c \in Config, Mutate(c) \/ ChangeSettings(c)
      PROVE  Wait'
  BY <1>1 DEF Mutate, ChangeSettings
<1>2. CASE SendPush
  BY <1>2 DEF SendPush, GoOn
<1>3. CASE \/ TickBegins \/ ReadStats \/ NotDue \/ TakeUp \/ RestRefused
           \/ SendGeo \/ LeaveToSupervisor \/ ClearDirty
  BY <1>3 DEF TickBegins, ReadStats, NotDue, TakeUp, RestRefused, SendGeo,
     LeaveToSupervisor, ClearDirty, GoOn, EndTick
<1>4. CASE Render
  BY <1>4 DEF Render, GoOn
<1>5. CASE Pushed \/ TurnedDown \/ PushFailed
  BY <1>5 DEF Pushed, TurnedDown, PushFailed, GoOn, EndTick
<1>6. CASE SyncFails \/ MasterRestarts
  <2>1. \A p \in inbox' : ~p.awaited
    BY <1>6 DEF SyncFails, MasterRestarts, Unawaited
  <2>2. tick' = "idle" /\ answer' = None
    BY <1>6 DEF SyncFails, MasterRestarts, EndTick
  <2>q. QED
    BY <2>1, <2>2
<1>7. CASE DriftComesDue \/ HoldEnds \/ GeoFails \/ GeoRetryDue
             \/ GeoCopyChanges
  BY <1>7 DEF DriftComesDue, HoldEnds, GeoFails, GeoRetryDue, GeoCopyChanges
<1>8. CASE GeoArrives
  BY <1>8 DEF GeoArrives
<1>9. ASSUME NEW p \in inbox, Applies(p) \/ Refuses(p)
      PROVE  Wait'
  <2>1. UNCHANGED <<tick, want, hasGeo>> /\ inbox' = inbox \ {p}
    BY <1>9 DEF Applies, Refuses
  <2>2. CASE ~p.awaited
    <3>1. answer' = answer
      BY <1>9, <2>2 DEF Applies, Refuses, Answer
    <3>q. QED
      BY <2>1, <2>2, <3>1
  <2>3. CASE p.awaited
    <3>1. \A r \in inbox : r.awaited => r = p
      <4>1. \A r \in inbox : r.awaited => r = [cfg |-> want, awaited |-> TRUE]
        BY DEF Kinds, Push
      <4>q. QED
        BY <2>3, <4>1
    <3>2. tick = "push" /\ p.cfg = want
      BY <2>3
    <3>3. answer' \in {"ok", "refused", "failed"}
      BY <1>9, <2>3 DEF Applies, Refuses, Answer
    <3>4. answer' = "ok" => Runnable(want)
      BY <1>9, <2>3, <3>2 DEF Applies, Refuses, Answer
    <3>q. QED
      BY <2>1, <3>1, <3>2, <3>3, <3>4
  <2>q. QED
    BY <2>2, <2>3
<1>10. CASE CoreDies \/ CoreStarts
  BY <1>10 DEF CoreDies, CoreStarts
<1>11. CASE AgentReboots
  <2>1. inbox' = {} /\ UNCHANGED <<tick, want, hasGeo>>
    BY <1>11 DEF AgentReboots
  <2>2. CASE \E p \in inbox : p.awaited
    <3>1. answer' = "failed" /\ tick = "push"
      BY <1>11, <2>2 DEF AgentReboots
    <3>q. QED
      BY <2>1, <3>1
  <2>3. CASE ~\E p \in inbox : p.awaited
    <3>1. answer' = answer
      BY <1>11, <2>3 DEF AgentReboots
    <3>2. [cfg |-> want, awaited |-> TRUE] \notin inbox
      BY <2>3
    <3>q. QED
      BY <2>1, <3>1, <3>2
  <2>q. QED
    BY <2>2, <2>3
<1>u. CASE UNCHANGED vars
  BY <1>u DEF vars
<1>q. QED
  BY <1>1, <1>2, <1>3, <1>4, <1>5, <1>6, <1>7, <1>8, <1>9, <1>10, <1>11, <1>u
  DEF Next, TickStep, AgentStep

----------------------------------------------------------------------------

\* The numbers of edits, marks and confirmations stay in order.
LEMMA MarksInvariant == Spec => []Marks
<1>1. Init => Marks
  BY DEF Init, Marks, ClearedIsConfirmed, NoRow
<1>q. QED
  BY <1>1, MarksStep, PTL DEF Spec

\* Every variable keeps its kind.
LEMMA KindsInvariant == Spec => [](Kinds /\ Flags)
<1>1. Init => Kinds
  BY SyncAssumption DEF Init, Kinds, Push, MaybeConfig, NoRow
<1>2. Init => Flags
  BY Zenon DEF Init, Flags
<1>q. QED
  BY <1>1, <1>2, KindsStep, FlagsStep, PTL DEF Spec

\* The types of all variables: in particular, nothing but a config that was
\* rendered is ever on its way to the agent, and no number outruns the edits.
THEOREM TypeCorrect == Spec => []TypeOK
<1>1. Kinds /\ Flags => TypeOK
  BY Zenon DEF Kinds, Flags, TypeOK
<1>q. QED
  BY <1>1, KindsInvariant, PTL

\* A node is clean only if its agent confirmed the edit of the last mark:
\* an edit that was made while a push was out keeps its mark.
THEOREM CleanNodesAreCurrent == Spec => []ClearedIsConfirmed
<1>1. Marks => ClearedIsConfirmed
  BY DEF Marks
<1>q. QED
  BY <1>1, MarksInvariant, PTL

\* No agent is sent a config whose geo file it lacks, unless the file could
\* not be sent when that config went out.
THEOREM FilesGoFirst == Spec => []GeoGoesFirst
<1>1. Init => GeoGoesFirst
  BY DEF Init, GeoGoesFirst
<1>q. QED
  BY <1>1, GeoStep, PTL DEF Spec

\* A tick that waits for an answer never waits in vain, and reads the answer
\* to its own push: whatever pushes of ticks that gave up the agent still
\* holds, and whoever restarts.  "ok" is the answer to what can run only.
THEOREM AnswersAreTheTicks == Spec => []Wait
<1>1. Init => Wait
  BY SyncAssumption DEF Init, Wait
<1>q. QED
  BY <1>1, KindsInvariant, WaitStep, PTL DEF Spec
=============================================================================
