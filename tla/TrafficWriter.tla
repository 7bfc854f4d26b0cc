--------------------------- MODULE TrafficWriter ---------------------------
(***************************************************************************)
(* The serial traffic writer (internal/web/service/traffic_writer.go): one *)
(* goroutine that applies the writes of everybody who touches the traffic  *)
(* rows, from two bounded lanes, with the lane of admin writes first.      *)
(*                                                                         *)
(* A submitter reads the package's state under twMu and enqueues under it  *)
(* too, so that it holds twMu for as long as its lane is full.  Without a  *)
(* writer, or with one that was told to stop, it applies its write itself. *)
(* StartTrafficWriter and StopTrafficWriter are called by the main         *)
(* goroutine only, one after the other (internal/web/web.go).              *)
(*                                                                         *)
(* A select with several cases ready takes any of them.  A write is the    *)
(* thread that submitted it; what it writes, and whether that fails or     *)
(* panics (safeApply makes an error of it), does not matter here.          *)
(***************************************************************************)
EXTENDS Naturals, Sequences

CONSTANTS
  Thread,     \* those who submit writes, one at a time each
  None,       \* no thread
  QueueSize   \* trafficWriterQueueSize

ASSUME WriterAssumption ==
  /\ None \notin Thread
  /\ QueueSize \in Nat \ {0}

VARIABLES
  panel,      \* the main goroutine: writer stopped, started, being stopped
  writer,     \* "none" without the package's state, else where its goroutine is
  cancelled,  \* twCtx is done
  lane,       \* twAdminQueue and twBgQueue
  serving,    \* the write that the writer applies
  drained,    \* the drain loop's flag
  mutex,      \* the submitter that holds twMu while its lane is full
  pc,         \* where each submitter stands
  kind,       \* the lane of its write
  replied,    \* those whose req.done holds the result
  closed,     \* those whose writer closed done while they waited
  outcome,    \* history: what the last submit returned
  applied,    \* history: how often its write was applied, two for more
  bypassed    \* history: how many bg writes were taken while it was queued

submitVars == <<pc, kind, outcome>>
historyVars == <<applied, bypassed>>
vars == <<panel, writer, cancelled, lane, serving, drained, mutex, submitVars,
          replied, closed, historyVars>>

Lane == {"admin", "bg"}

TypeOK ==
  /\ panel \in {"off", "up", "stopping"}
  /\ writer \in {"none", "select", "block", "apply", "drainAdmin", "drainBg",
                 "done"}
  /\ cancelled \in BOOLEAN
  /\ \A l \in Lane : lane[l] \in Seq(Thread) /\ Len(lane[l]) <= QueueSize
  /\ serving \in Thread \cup {None}
  /\ drained \in BOOLEAN
  /\ mutex \in Thread \cup {None}
  /\ pc \in [Thread -> {"idle", "call", "blocked", "waiting", "direct"}]
  /\ kind \in [Thread -> Lane]
  /\ replied \subseteq Thread
  /\ closed \subseteq Thread
  /\ outcome \in [Thread -> {"none", "ok", "full", "stopped"}]
  /\ applied \in [Thread -> 0..2]
  /\ bypassed \in [Thread -> 0..2]

\* The server started the writer before anything could submit to it.
Init ==
  /\ panel = "up" /\ writer = "select" /\ cancelled = FALSE
  /\ lane = [l \in Lane |-> <<>>] /\ serving = None /\ drained = FALSE
  /\ mutex = None
  /\ pc = [t \in Thread |-> "idle"] /\ kind = [t \in Thread |-> "bg"]
  /\ replied = {} /\ closed = {}
  /\ outcome = [t \in Thread |-> "none"]
  /\ applied = [t \in Thread |-> 0] /\ bypassed = [t \in Thread |-> 0]

OneMore(n) == IF n = 2 THEN 2 ELSE n + 1

----------------------------------------------------------------------------
(* The main goroutine                                                      *)

\* A writer that still runs is left alone: a panel-only restart.
StartTrafficWriter ==
  /\ panel # "stopping" /\ mutex = None
  /\ panel' = "up"
  /\ writer' = IF writer \in {"none", "done"} THEN "select" ELSE writer
  /\ IF writer \in {"none", "done"}
     THEN lane' = [l \in Lane |-> <<>>] /\ cancelled' = FALSE
     ELSE UNCHANGED <<lane, cancelled>>
  /\ UNCHANGED <<serving, drained, mutex, submitVars, replied, closed,
                 historyVars>>

StopBegins ==
  /\ panel = "up" /\ mutex = None
  /\ panel' = "stopping"
  /\ cancelled' = TRUE
  /\ UNCHANGED <<writer, lane, serving, drained, mutex, submitVars, replied,
                 closed, historyVars>>

\* done is closed: clearTrafficWriterState.
StopEnds ==
  /\ panel = "stopping" /\ writer = "done" /\ mutex = None
  /\ panel' = "off"
  /\ writer' = "none" /\ cancelled' = FALSE
  /\ lane' = [l \in Lane |-> <<>>]
  /\ UNCHANGED <<serving, drained, mutex, submitVars, replied, closed,
                 historyVars>>

----------------------------------------------------------------------------
(* The writer's goroutine                                                  *)

Empty(l) == lane[l] = <<>>

Queued(l) == {lane[l][i] : i \in DOMAIN lane[l]}

Take(l) ==
  /\ ~Empty(l)
  /\ serving' = Head(lane[l])
  /\ lane' = [lane EXCEPT ![l] = Tail(@)]
  /\ writer' = "apply"
  /\ bypassed' = IF l = "admin" THEN bypassed
                 ELSE [t \in Thread |-> IF t \in Queued("admin")
                                        THEN OneMore(bypassed[t])
                                        ELSE bypassed[t]]
  /\ UNCHANGED <<panel, cancelled, mutex, submitVars, replied, closed, applied>>

WriterGoesTo(step) ==
  /\ writer' = step
  /\ UNCHANGED <<panel, cancelled, lane, serving, mutex, submitVars, replied,
                 closed, historyVars>>

\* Mutant: one select for both lanes.
SelectsAny ==
  /\ writer = "select"
  /\ \/ \E l \in Lane : Take(l) /\ UNCHANGED drained
     \/ Empty("admin") /\ ~cancelled /\ WriterGoesTo("block")
        /\ UNCHANGED drained
     \/ cancelled /\ WriterGoesTo("drainAdmin") /\ drained' = FALSE

\* The outer select: an admin write, the end, or on to the inner one.
Selects ==
  /\ writer = "select"
  /\ \/ Take("admin") /\ UNCHANGED drained
     \/ Empty("admin") /\ ~cancelled /\ WriterGoesTo("block")
        /\ UNCHANGED drained
     \/ cancelled /\ WriterGoesTo("drainAdmin") /\ drained' = FALSE

\* Mutant: the inner select does not look at the context.
BlocksForWrites ==
  /\ writer = "block"
  /\ \E l \in Lane : Take(l) /\ UNCHANGED drained

\* The inner select waits for whatever comes first.
Blocks ==
  /\ writer = "block"
  /\ \/ \E l \in Lane : Take(l) /\ UNCHANGED drained
     \/ cancelled /\ WriterGoesTo("drainAdmin") /\ drained' = FALSE

\* Where a write was taken: in the loop, or by one of the drain's two selects.
AfterApply ==
  IF ~drained THEN "select"
  ELSE IF kind[serving] = "admin" THEN "drainBg" ELSE "drainAdmin"

\* req.done has room for the result: the writer never waits for a submitter.
Applies ==
  /\ writer = "apply"
  /\ writer' = AfterApply
  /\ serving' = None
  /\ applied' = [applied EXCEPT ![serving] = OneMore(@)]
  /\ replied' = replied \cup {serving}
  /\ drained' = (drained /\ kind[serving] = "admin")
  /\ UNCHANGED <<panel, cancelled, lane, mutex, submitVars, closed, bypassed>>

DrainsAdmin ==
  /\ writer = "drainAdmin"
  /\ \/ Take("admin") /\ drained' = TRUE
     \/ Empty("admin") /\ WriterGoesTo("drainBg") /\ UNCHANGED drained

\* Nothing in either lane: the loop ends and done is closed.
DrainsBg ==
  /\ writer = "drainBg"
  /\ \/ Take("bg") /\ drained' = TRUE
     \/ Empty("bg") /\ drained /\ WriterGoesTo("drainAdmin")
        /\ drained' = FALSE
     \/ /\ Empty("bg") /\ ~drained
        /\ writer' = "done"
        /\ closed' = {t \in Thread : pc[t] = "waiting"}
        /\ UNCHANGED <<panel, cancelled, lane, serving, drained, mutex,
                       submitVars, replied, historyVars>>

WriterStep == Selects \/ Blocks \/ Applies \/ DrainsAdmin \/ DrainsBg

----------------------------------------------------------------------------
(* submitTrafficWriteLane                                                  *)

\* The queues are there and the context is not done.
Serving == writer # "none" /\ ~cancelled

Submit(t, l) ==
  /\ pc[t] = "idle"
  /\ pc' = [pc EXCEPT ![t] = "call"]
  /\ kind' = [kind EXCEPT ![t] = l]
  /\ outcome' = [outcome EXCEPT ![t] = "none"]
  /\ applied' = [applied EXCEPT ![t] = 0]
  /\ bypassed' = [bypassed EXCEPT ![t] = 0]
  /\ UNCHANGED <<panel, writer, cancelled, lane, serving, drained, mutex,
                 replied, closed>>

Return(t, result) ==
  /\ pc' = [pc EXCEPT ![t] = "idle"]
  /\ outcome' = [outcome EXCEPT ![t] = result]
  /\ UNCHANGED <<panel, writer, cancelled, lane, serving, drained, kind,
                 bypassed>>

\* No writer, or one that was told to stop: the submitter applies it itself.
RunsInline(t) ==
  /\ pc[t] = "call" /\ mutex = None
  /\ ~Serving
  /\ pc' = [pc EXCEPT ![t] = "direct"]
  /\ UNCHANGED <<panel, writer, cancelled, lane, serving, drained, mutex, kind,
                 outcome, replied, closed, historyVars>>

InlineDone(t) ==
  /\ pc[t] = "direct"
  /\ Return(t, "ok")
  /\ applied' = [applied EXCEPT ![t] = OneMore(@)]
  /\ UNCHANGED <<mutex, replied, closed>>

\* Mutant: a lane takes one write too many.
HasRoomForOneMore(l) == Len(lane[l]) <= QueueSize

HasRoom(l) == Len(lane[l]) < QueueSize

\* The send succeeds, at once or after the lane was full, and frees twMu.
Enqueues(t) ==
  /\ \/ pc[t] = "call" /\ mutex = None /\ Serving
     \/ pc[t] = "blocked"
  /\ HasRoom(kind[t])
  /\ lane' = [lane EXCEPT ![kind[t]] = Append(@, t)]
  /\ pc' = [pc EXCEPT ![t] = "waiting"]
  /\ mutex' = None
  /\ UNCHANGED <<panel, writer, cancelled, serving, drained, kind, outcome,
                 replied, closed, historyVars>>

BlocksOnFullLane(t) ==
  /\ pc[t] = "call" /\ mutex = None /\ Serving
  /\ ~HasRoom(kind[t])
  /\ pc' = [pc EXCEPT ![t] = "blocked"]
  /\ mutex' = t
  /\ UNCHANGED <<panel, writer, cancelled, lane, serving, drained, kind,
                 outcome, replied, closed, historyVars>>

\* Mutant: the timer also ends the wait for the result.
TimesOutWaiting(t) ==
  /\ pc[t] \in {"blocked", "waiting"}
  /\ Return(t, "full")
  /\ mutex' = IF mutex = t THEN None ELSE mutex
  /\ replied' = replied \ {t} /\ closed' = closed \ {t}
  /\ UNCHANGED applied

\* trafficWriterSubmitTimeout passed: "traffic writer queue full".
TimesOut(t) ==
  /\ pc[t] = "blocked"
  /\ Return(t, "full")
  /\ mutex' = None
  /\ UNCHANGED <<replied, closed, applied>>

Answered(t) ==
  /\ pc[t] = "waiting" /\ t \in replied
  /\ Return(t, "ok")
  /\ replied' = replied \ {t} /\ closed' = closed \ {t}
  /\ UNCHANGED <<mutex, applied>>

\* Mutant: the result is not looked for again once the writer is gone.
SeesOnlyDone(t) ==
  /\ pc[t] = "waiting" /\ t \in closed
  /\ Return(t, "stopped")
  /\ replied' = replied \ {t} /\ closed' = closed \ {t}
  /\ UNCHANGED <<mutex, applied>>

\* The writer is gone, and the result is looked for once more.
SeesDone(t) ==
  /\ pc[t] = "waiting" /\ t \in closed
  /\ Return(t, IF t \in replied THEN "ok" ELSE "stopped")
  /\ replied' = replied \ {t} /\ closed' = closed \ {t}
  /\ UNCHANGED <<mutex, applied>>

\* A submit that was called goes on; it may have to be let in by twMu.
GoesOn(t) ==
  \/ RunsInline(t) \/ InlineDone(t) \/ Enqueues(t) \/ BlocksOnFullLane(t)
  \/ TimesOut(t) \/ Answered(t) \/ SeesDone(t)

----------------------------------------------------------------------------

Next ==
  \/ StartTrafficWriter \/ StopBegins \/ StopEnds
  \/ WriterStep
  \/ \E t \in Thread : GoesOn(t) \/ \E l \in Lane : Submit(t, l)

(***************************************************************************)
(* The writer's goroutine runs and a transaction ends.  A mutex that       *)
(* starves a waiter hands over in order, so everybody who waits for twMu   *)
(* gets it, the caller of StopTrafficWriter too.                           *)
(***************************************************************************)
Fairness ==
  /\ WF_vars(WriterStep)
  /\ SF_vars(StopEnds)
  /\ \A t \in Thread : SF_vars(GoesOn(t))

Spec == Init /\ [][Next]_vars /\ Fairness

----------------------------------------------------------------------------
(* Properties                                                              *)

\* What a submit returns is what became of its write: it was applied once
\* when it returned the result, it never was and is not queued either when it
\* returned "queue full", and no write that was queued is dropped by a stop.
AnswersAreTrue ==
  \A t \in Thread :
    /\ outcome[t] = "ok" => applied[t] = 1
    /\ outcome[t] = "full" => applied[t] = 0 /\ t \notin Queued(kind[t])
                              /\ serving # t
    /\ outcome[t] # "stopped"

\* What the callers see of a write.  One that its submitter applies itself
\* counts from the start of it: nothing can keep it from taking effect then.
Service == INSTANCE WriteService WITH
  open    <- {t \in Thread : pc[t] # "idle"},
  effects <- [t \in Thread |-> IF pc[t] = "direct" THEN OneMore(applied[t])
                                                  ELSE applied[t]],
  answer  <- outcome

\* The writer, its lanes, the drain at a stop and the submitters who apply
\* their writes themselves are together the service of WriteService: a write
\* takes effect once, while its call is under way, or never if the answer is
\* "queue full"; and a call whose write took effect returns.
ServesWrites == Service!Spec

\* While the writer is not being stopped, at most one background write goes
\* before an admin write that is queued: the one that the inner select takes
\* when both came while the writer was on its way into it.
AdminGoesFirst ==
  ~cancelled => \A t \in Queued("admin") : bypassed[t] <= 1

Calls(t, l) == pc[t] # "idle" /\ kind[t] = l

Returns(t, l) == Calls(t, l) ~> pc[t] = "idle"

\* Nobody waits for ever: a submit returns, whether its lane is full, twMu is
\* held or the writer stops meanwhile, and StopTrafficWriter returns.  Only
\* background writes may starve, behind admin writes that keep coming.
EverybodyReturns ==
  /\ \A t \in Thread : Returns(t, "admin")
  /\ \A t \in Thread : []<>(\E u \in Thread : Calls(u, "admin"))
                       \/ Returns(t, "bg")
  /\ panel = "stopping" ~> panel = "off"

\* Does not hold while a stop drains the lanes, although it is what the
\* comments of runTrafficWriter ("no two writes side by
\* side") and of runSerializedTx ("it can never execute concurrently with the
\* @every 5s traffic poll") say: nobody writes beside the writer.
NoTwoWritesSideBySide ==
  serving # None => \A t \in Thread : pc[t] # "direct"
=============================================================================
