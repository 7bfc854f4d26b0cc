----------------------------- MODULE AgentSync -----------------------------
(***************************************************************************)
(* How the master keeps one agent node on the config it renders for it     *)
(* (internal/web/service/node_agent_sync.go, node_agent_geo.go, node.go,   *)
(* internal/web/job/node_agent_sync.go).                                   *)
(*                                                                         *)
(* A mutation changes what the config renders to and marks the node dirty  *)
(* in one transaction; the template and the settings change it unmarked.   *)
(* A tick reads the node's row, then the agent's stats, then renders, and  *)
(* may push; it clears the mark only if the row still has the time it      *)
(* read.  A periodic drift check stands behind all of it.                  *)
(*                                                                         *)
(* The agent is what AgentCore shows of it: a push it took is applied even *)
(* when nobody waits for the answer any more, after others or before, and  *)
(* a reboot brings back the config that was saved.                         *)
(***************************************************************************)
EXTENDS Integers

CONSTANTS
  Config,     \* what the node's config may render to, by revision
  Bad,        \* those that no core runs
  NeedsGeo,   \* those that read a geo file the agent lacks at first
  None,       \* no config, no answer
  MaxEdits,   \* bound on the mutations and changes of settings
  MaxFaults   \* bound on everything that goes wrong

ASSUME SyncAssumption ==
  /\ Bad \subseteq Config
  /\ NeedsGeo \subseteq Config
  /\ None \notin Config \cup {"ok", "refused", "failed"}
  /\ MaxEdits \in Nat \ {0}
  /\ MaxFaults \in Nat

VARIABLES
  cfg,        \* what RenderAgentConfig yields now
  edits,      \* changes so far; the first is the node's creation
  dirty,      \* Node.ConfigDirty
  dirtyAt,    \* Node.ConfigDirtyAt, a time in milliseconds
  tick,       \* where the node's sync stands
  seen,       \* the row the tick read
  stats,      \* the revision of the tick's stats, None for no stats
  statsUp,    \* whether XrayStartedAt was not 0 in them
  want,       \* the revision the tick rendered
  sendable,   \* the panel has a usable copy of the geo file, under a name that
              \* may be sent, and the agent takes such files
  driftDue,   \* checkedAt is agentDriftCheckEvery ago
  handledAt,  \* agentSyncState.handledDirtyAt
  refused,    \* agentSyncState.refused
  held,       \* refusedAt is less than agentRefusalRetryAfter ago
  sendingGeo, \* agentSyncState.sendingGeo
  geoWait,    \* now is before geoRetryAt
  inbox,      \* pushes that the agent has and did not apply yet
  answer,     \* the answer to the push the tick waits for
  agentCfg,   \* the agent's Core.current
  agentUp,    \* its core runs
  saved,      \* its last good config
  hasGeo,     \* it holds the geo file
  faults,     \* what went wrong so far
  marked,     \* history: the first edit that was marked at dirtyAt
  wantEdit,   \* history: the last edit the tick's rendering has
  bare,       \* history: the configs sent without a file they read, since it
              \* could not be sent
  confirmed   \* history: the last edit the agent confirmed it runs

panelVars == <<cfg, edits, dirty, dirtyAt, marked, sendable, bare>>
tickVars  == <<tick, seen, stats, statsUp, want, wantEdit>>
stateVars == <<driftDue, handledAt, refused, held, sendingGeo, geoWait>>
agentVars == <<agentCfg, agentUp, saved, hasGeo>>
vars == <<panelVars, tickVars, stateVars, inbox, answer, agentVars, faults,
          confirmed>>

Push == [cfg : Config, awaited : BOOLEAN]
MaybeConfig == Config \cup {None}

TypeOK ==
  /\ cfg \in Config
  /\ edits \in 1..MaxEdits
  /\ dirty \in BOOLEAN
  /\ dirtyAt \in 1..edits
  /\ tick \in {"idle", "stats", "due", "render", "geo", "push", "clear"}
  /\ seen \in [dirty : BOOLEAN, at : 0..edits]
  /\ stats \in MaybeConfig
  /\ statsUp \in BOOLEAN
  /\ want \in MaybeConfig
  /\ driftDue \in BOOLEAN
  /\ handledAt \in 0..edits
  /\ refused \in MaybeConfig
  /\ held \in BOOLEAN
  /\ sendingGeo \in BOOLEAN
  /\ geoWait \in BOOLEAN
  /\ inbox \subseteq Push
  /\ answer \in {None, "ok", "refused", "failed"}
  /\ agentCfg \in MaybeConfig
  /\ agentUp \in BOOLEAN
  /\ saved \in MaybeConfig
  /\ hasGeo \in BOOLEAN
  /\ sendable \in BOOLEAN
  /\ bare \subseteq Config
  /\ faults \in 0..MaxFaults
  /\ marked \in 1..edits
  /\ wantEdit \in 0..edits
  /\ confirmed \in 0..edits

NoRow == [dirty |-> FALSE, at |-> 0]

\* AddAgent made the node and marked it; its agent is installed and empty.
Init ==
  /\ cfg \in Config /\ edits = 1
  /\ dirty = TRUE /\ dirtyAt = 1 /\ marked = 1
  /\ tick = "idle" /\ seen = NoRow /\ stats = None /\ statsUp = FALSE
  /\ want = None /\ wantEdit = 0
  /\ driftDue = TRUE /\ handledAt = 0
  /\ refused = None /\ held = FALSE
  /\ sendingGeo = FALSE /\ geoWait = FALSE
  /\ inbox = {} /\ answer = None
  /\ agentCfg = None /\ agentUp = FALSE /\ saved = None
  /\ hasGeo = FALSE /\ sendable \in BOOLEAN /\ bare = {}
  /\ faults = 0 /\ confirmed = 0

Fault == faults < MaxFaults /\ faults' = faults + 1

----------------------------------------------------------------------------
(* Edits                                                                   *)

\* A mutation and its MarkNodeDirtyTx; two may fall into one millisecond.
Mutate(c) ==
  /\ edits < MaxEdits
  /\ cfg' = c
  /\ edits' = edits + 1
  /\ dirty' = TRUE
  /\ \/ dirtyAt' = edits + 1 /\ marked' = edits + 1
     \/ UNCHANGED <<dirtyAt, marked>>
  /\ UNCHANGED <<sendable, bare, tickVars, stateVars, inbox, answer,
                 agentVars, faults, confirmed>>

\* The template, a subscription or a setting changes: nothing is marked.
ChangeSettings(c) ==
  /\ edits < MaxEdits
  /\ cfg' = c
  /\ edits' = edits + 1
  /\ UNCHANGED <<dirty, dirtyAt, marked, sendable, bare, tickVars, stateVars,
                 inbox, answer, agentVars, faults, confirmed>>

----------------------------------------------------------------------------
(* The tick                                                                *)

\* What a tick leaves behind when it is over.
EndTick ==
  /\ tick' = "idle" /\ seen' = NoRow /\ stats' = None /\ statsUp' = FALSE
  /\ want' = None /\ wantEdit' = 0

GoOn(step) == tick' = step /\ UNCHANGED <<seen, stats, statsUp>>

TickBegins ==
  /\ tick = "idle"
  /\ tick' = "stats"
  /\ seen' = [dirty |-> dirty, at |-> dirtyAt]
  /\ UNCHANGED <<stats, statsUp, want, wantEdit, panelVars, stateVars, inbox,
                 answer, agentVars, faults, confirmed>>

\* The stats come, or the request fails and the sync goes on without them.
ReadStats ==
  /\ tick = "stats"
  /\ tick' = "due"
  /\ \/ stats' = agentCfg /\ statsUp' = agentUp /\ UNCHANGED faults
     \/ stats' = None /\ statsUp' = FALSE /\ Fault
  /\ UNCHANGED <<seen, want, wantEdit, panelVars, stateVars, inbox, answer,
                 agentVars, confirmed>>

\* Mutant: nothing but a new mark makes the sync look at the node.
DueOnMark == seen.dirty /\ seen.at # handledAt

\* A mark that no attempt dealt with, or the drift check.
Due == (seen.dirty /\ seen.at # handledAt) \/ driftDue

NotDue ==
  /\ tick = "due"
  /\ sendingGeo \/ ~Due
  /\ EndTick
  /\ UNCHANGED <<panelVars, stateVars, inbox, answer, agentVars, faults,
                 confirmed>>

TakeUp ==
  /\ tick = "due"
  /\ ~sendingGeo /\ Due
  /\ GoOn("render")
  /\ driftDue' = FALSE /\ handledAt' = seen.at
  /\ UNCHANGED <<want, wantEdit, panelVars, refused, held, sendingGeo, geoWait,
                 inbox, answer, agentVars, faults, confirmed>>

Confirm(edit) == confirmed' = IF edit > confirmed THEN edit ELSE confirmed

\* Mutant: the sync goes on when rendering failed.
RenderGoesOn ==
  /\ tick = "render"
  /\ want' \in {cfg, None} /\ wantEdit' = edits
  /\ ~(stats = cfg /\ statsUp) /\ ~(refused = cfg /\ held)
  /\ GoOn("geo")
  /\ UNCHANGED <<panelVars, stateVars, inbox, answer, agentVars, faults,
                 confirmed>>

\* Render, and compare with the stats of this tick: the agent runs it, or it
\* turned it down a moment ago, or it may have to be pushed.
Render ==
  /\ tick = "render"
  /\ want' = cfg /\ wantEdit' = edits
  /\ \/ stats = cfg /\ statsUp /\ GoOn("clear") /\ Confirm(edits)
     \/ ~(stats = cfg /\ statsUp) /\ ~(refused = cfg /\ held)
        /\ GoOn("geo") /\ UNCHANGED confirmed
  /\ UNCHANGED <<panelVars, stateVars, inbox, answer, agentVars, faults>>

RestRefused ==
  /\ tick = "render"
  /\ ~(stats = cfg /\ statsUp) /\ refused = cfg /\ held
  /\ EndTick
  /\ UNCHANGED <<panelVars, stateVars, inbox, answer, agentVars, faults,
                 confirmed>>

\* The config reads a file that the agent does not hold.
Lacks(c) == c \in NeedsGeo /\ ~hasGeo

\* Mutant: files are looked for once, not while an upload failed lately.
MissingUnlessWaiting == Lacks(want) /\ sendable /\ ~geoWait

\* geoFilesToSend finds a file that the config reads and the agent lacks.  One
\* that cannot be sent is left out: the agent answers 404 for the endpoint, the
\* name is no plain *.dat name, or this panel has no usable copy.
Missing == Lacks(want) /\ sendable

\* sendGeo goes on in the background, unless an upload failed lately.
SendGeo ==
  /\ tick = "geo" /\ Missing
  /\ sendingGeo' = ~geoWait
  /\ EndTick
  /\ UNCHANGED <<panelVars, driftDue, handledAt, refused, held, geoWait, inbox,
                 answer, agentVars, faults, confirmed>>

\* The agent has the config and its core is down for another reason.
LeaveToSupervisor ==
  /\ tick = "geo" /\ ~Missing
  /\ stats = want
  /\ GoOn("clear")
  /\ Confirm(wantEdit)
  /\ UNCHANGED <<want, wantEdit, panelVars, stateVars, inbox, answer,
                 agentVars, faults>>

SendPush ==
  /\ tick = "geo" /\ ~Missing
  /\ stats # want
  /\ GoOn("push")
  /\ inbox' = inbox \cup {[cfg |-> want, awaited |-> TRUE]}
  /\ bare' = IF Lacks(want) /\ ~sendable THEN bare \cup {want} ELSE bare
  /\ UNCHANGED <<want, wantEdit, cfg, edits, dirty, dirtyAt, marked, sendable,
                 stateVars, answer, agentVars, faults, confirmed>>

Pushed ==
  /\ tick = "push" /\ answer = "ok"
  /\ answer' = None
  /\ refused' = None
  /\ Confirm(wantEdit)
  /\ GoOn("clear")
  /\ UNCHANGED <<want, wantEdit, panelVars, driftDue, handledAt, held,
                 sendingGeo, geoWait, inbox, agentVars, faults>>

TurnedDown ==
  /\ tick = "push" /\ answer = "refused"
  /\ answer' = None
  /\ refused' = want /\ held' = TRUE
  /\ EndTick
  /\ UNCHANGED <<panelVars, driftDue, handledAt, sendingGeo, geoWait, inbox,
                 agentVars, faults, confirmed>>

PushFailed ==
  /\ tick = "push" /\ answer = "failed"
  /\ answer' = None
  /\ EndTick
  /\ UNCHANGED <<panelVars, stateVars, inbox, agentVars, faults, confirmed>>

\* Mutant: the mark is cleared whatever was marked since.
AnyMark == TRUE

\* ClearNodeDirty's WHERE: the row has the time the tick read.
SameMark == dirtyAt = seen.at

ClearDirty ==
  /\ tick = "clear"
  /\ dirty' = (dirty /\ ~(seen.dirty /\ SameMark))
  /\ EndTick
  /\ UNCHANGED <<cfg, edits, dirtyAt, marked, sendable, bare, stateVars, inbox,
                 answer, agentVars, faults, confirmed>>

----------------------------------------------------------------------------
(* What goes wrong in a tick                                               *)

Unawaited == {[cfg |-> p.cfg, awaited |-> FALSE] : p \in inbox}

\* The agent cannot be reached, the config not be rendered, the geo files not
\* be listed, or the push gets no answer: its request may have arrived.
SyncFails ==
  /\ tick \in {"render", "geo", "push"}
  /\ answer = None
  /\ Fault
  /\ \/ inbox' = Unawaited
     \/ inbox' = {p \in inbox : ~p.awaited}
  /\ EndTick
  /\ UNCHANGED <<panelVars, stateVars, answer, agentVars, confirmed>>

\* The process of the master restarts: what it remembers of agents is gone.
MasterRestarts ==
  /\ Fault
  /\ driftDue' = TRUE /\ handledAt' = 0 /\ refused' = None /\ held' = FALSE
  /\ sendingGeo' = FALSE /\ geoWait' = FALSE
  /\ inbox' = Unawaited /\ answer' = None
  /\ EndTick
  /\ UNCHANGED <<panelVars, agentVars, confirmed>>

----------------------------------------------------------------------------
(* Timers and the geo upload                                               *)

\* 30 seconds since the last check, 15 after a failed one.
DriftComesDue ==
  /\ ~driftDue /\ driftDue' = TRUE
  /\ UNCHANGED <<panelVars, tickVars, handledAt, refused, held, sendingGeo,
                 geoWait, inbox, answer, agentVars, faults, confirmed>>

\* Five minutes since the refusal.
HoldEnds ==
  /\ held /\ held' = FALSE
  /\ UNCHANGED <<panelVars, tickVars, driftDue, handledAt, refused, sendingGeo,
                 geoWait, inbox, answer, agentVars, faults, confirmed>>

\* A config turned down for lacking the file is worth another try at once.
GeoArrives ==
  /\ sendingGeo
  /\ hasGeo' = TRUE
  /\ sendingGeo' = FALSE /\ geoWait' = FALSE
  /\ refused' = None /\ driftDue' = TRUE
  /\ UNCHANGED <<panelVars, tickVars, handledAt, held, inbox, answer, agentCfg,
                 agentUp, saved, faults, confirmed>>

\* The upload fails, or only its answer is lost.
GeoFails ==
  /\ sendingGeo
  /\ \/ Fault /\ hasGeo' \in {hasGeo, TRUE}
     \/ ~sendable /\ UNCHANGED <<hasGeo, faults>>
  /\ sendingGeo' = FALSE /\ geoWait' = TRUE /\ driftDue' = FALSE
  /\ UNCHANGED <<panelVars, tickVars, handledAt, refused, held, inbox, answer,
                 agentCfg, agentUp, saved, confirmed>>

\* The panel's copy is downloaded or goes, or the agent is replaced by one
\* that takes files, or by one that does not.
GeoCopyChanges ==
  /\ ~hasGeo  \* bound: afterwards nobody asks
  /\ sendable' = ~sendable
  /\ IF sendable THEN Fault ELSE UNCHANGED faults
  /\ UNCHANGED <<cfg, edits, dirty, dirtyAt, marked, bare, tickVars, stateVars,
                 inbox, answer, agentVars, confirmed>>

GeoRetryDue ==
  /\ geoWait /\ geoWait' = FALSE
  /\ driftDue' = TRUE
  /\ UNCHANGED <<panelVars, tickVars, handledAt, refused, held, sendingGeo,
                 inbox, answer, agentVars, faults, confirmed>>

----------------------------------------------------------------------------
(* The agent                                                               *)

Answer(p, a) == answer' = IF p.awaited THEN a ELSE answer

Runnable(c) == c \notin Bad /\ ~Lacks(c)

\* Core.Apply of any push it holds: applyMu promises no order.
Applies(p) ==
  /\ inbox' = inbox \ {p}
  /\ Runnable(p.cfg)
  /\ agentCfg' = p.cfg /\ agentUp' = TRUE
  /\ \/ saved' = p.cfg /\ Answer(p, "ok") /\ UNCHANGED faults
     \/ UNCHANGED saved /\ Answer(p, "failed") /\ Fault
  /\ UNCHANGED <<hasGeo, panelVars, tickVars, stateVars, confirmed>>

\* It keeps what it had: the config is at fault, or a start or a test failed.
Refuses(p) ==
  /\ inbox' = inbox \ {p}
  /\ \/ ~Runnable(p.cfg) /\ Answer(p, "refused") /\ UNCHANGED faults
     \/ \E a \in {"refused", "failed"} : Answer(p, a) /\ Fault
  /\ UNCHANGED <<agentVars, panelVars, tickVars, stateVars, confirmed>>

CoreDies ==
  /\ agentUp /\ agentUp' = FALSE
  /\ Fault
  /\ UNCHANGED <<agentCfg, saved, hasGeo, panelVars, tickVars, stateVars,
                 inbox, answer, confirmed>>

\* Boot and the supervisor bring the core up with the config it last ran.
CoreStarts ==
  /\ ~agentUp /\ agentCfg # None
  /\ agentUp' = TRUE
  /\ UNCHANGED <<agentCfg, saved, hasGeo, panelVars, tickVars, stateVars,
                 inbox, answer, faults, confirmed>>

\* The connections break, and the saved config is what it has.
AgentReboots ==
  /\ Fault
  /\ agentCfg' = saved /\ agentUp' = FALSE
  /\ inbox' = {}
  /\ answer' = IF \E p \in inbox : p.awaited THEN "failed" ELSE answer
  /\ UNCHANGED <<saved, hasGeo, panelVars, tickVars, stateVars, confirmed>>

----------------------------------------------------------------------------

TickStep ==
  \/ TickBegins \/ ReadStats \/ NotDue \/ TakeUp \/ Render \/ RestRefused
  \/ SendGeo \/ LeaveToSupervisor \/ SendPush \/ Pushed \/ TurnedDown
  \/ PushFailed \/ ClearDirty

AgentStep == \E p \in inbox : Applies(p) \/ Refuses(p)

Next ==
  \/ \E c \in Config : Mutate(c) \/ ChangeSettings(c)
  \/ TickStep \/ SyncFails \/ MasterRestarts
  \/ DriftComesDue \/ HoldEnds \/ GeoArrives \/ GeoFails \/ GeoRetryDue
  \/ GeoCopyChanges
  \/ AgentStep \/ CoreDies \/ CoreStarts \/ AgentReboots

(***************************************************************************)
(* The job ticks every five seconds and each of its requests ends, the     *)
(* agent finishes what it started and its supervisor keeps trying, clocks  *)
(* go on, and an upload ends.  Edits and faults are bounded and not fair.  *)
(***************************************************************************)
Fairness ==
  /\ WF_vars(TickStep) /\ WF_vars(AgentStep) /\ WF_vars(CoreStarts)
  /\ WF_vars(DriftComesDue) /\ WF_vars(HoldEnds)
  /\ WF_vars(GeoArrives) /\ WF_vars(GeoRetryDue)

Spec == Init /\ [][Next]_vars /\ Fairness

----------------------------------------------------------------------------
(* Properties                                                              *)

\* A clean node is one whose agent confirmed, with an answer or in its stats,
\* a config that has the edit of the last mark (the first edit, if two were
\* marked in one millisecond): an edit made while a push is out keeps its mark.
ClearedIsConfirmed == ~dirty => confirmed >= marked

\* The agent is not sent a config that reads a geo file it does not hold,
\* whatever became of the upload: the file goes first, unless it could not be
\* sent when the config went out.
GeoGoesFirst == \A p \in inbox : Lacks(p.cfg) => p.cfg \in bare

\* Once nobody edits and nothing goes wrong any more, the agent comes to run
\* what the master renders and the mark is gone, whatever was lost, refused,
\* applied late or out of order before; unless no core runs that config, or
\* none of the agent's for want of a file that cannot be sent.
Converges ==
  <>[](\/ cfg \in Bad \/ (Lacks(cfg) /\ ~sendable)
       \/ agentCfg = cfg /\ agentUp /\ ~dirty)
=============================================================================
