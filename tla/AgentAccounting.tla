-------------------------- MODULE AgentAccounting --------------------------
(***************************************************************************)
(* How the traffic of an agent node reaches the totals of the master.      *)
(*                                                                         *)
(* The agent keeps no history: Core.Stats (internal/agent/core.go) reads   *)
(* the cumulative counters of whatever core answers on the API port, while *)
(* the Core may replace that core.  The master (AddAgentTraffic,           *)
(* internal/web/service/inbound_agent_traffic.go) keeps, of each counter,  *)
(* the value it accounted last and the start time of the core it belongs   *)
(* to, and adds the difference to the totals in one transaction.           *)
(*                                                                         *)
(* Cores are numbered in the order they are launched.  The number stands   *)
(* for the process and for the start time that start stamps it with: two   *)
(* starts are at least readySettle apart.  A Counter stands for one user   *)
(* or inbound and one direction.                                           *)
(***************************************************************************)
EXTENDS Integers

CONSTANTS
  Counter,             \* the counters of a core
  MaxCores,            \* bound on the cores launched
  MaxBytes,            \* bound on what one counter of one core reaches
  MaxLost,             \* bound on the polls whose answer is lost
  ReadsOverlapStart    \* BOOLEAN: may a read reach a core that start has
                       \* launched and not recorded yet?

ASSUME AccountingAssumption ==
  /\ MaxCores \in Nat
  /\ MaxBytes \in Nat
  /\ MaxLost \in Nat
  /\ ReadsOverlapStart \in BOOLEAN

VARIABLES
  starts,      \* cores launched so far
  process,     \* the core Core.process points at, 0 for nil
  serving,     \* the core that answers on the API port, 0 for none
  count,       \* its counters
  poll,        \* where the poll in progress stands
  asked,       \* Core.process when Stats began
  reading,     \* the counters that Stats read
  origin,      \* history: the core they were read from
  startedAt,   \* Node.AgentStartedAt
  baseline,    \* the agent_counters rows of the node, 0 for no row
  total,       \* the totals of the clients and inbounds
  accounted,   \* history: of each core, the last reading that was committed
  due,         \* history: what the totals should be
  lost         \* answers lost so far

agentVars  == <<starts, process, serving, count>>
pollVars   == <<poll, asked, reading, origin>>
masterVars == <<startedAt, baseline, total, accounted, due>>
vars == <<agentVars, pollVars, masterVars, lost>>

Core  == 1..MaxCores
Value == [Counter -> Nat]
Zero  == [u \in Counter |-> 0]

TypeOK ==
  /\ starts \in 0..MaxCores
  /\ process \in 0..starts
  /\ serving \in 0..starts
  /\ count \in Value
  /\ poll \in {"idle", "read", "check", "answered"}
  /\ asked \in 0..starts
  /\ reading \in Value
  /\ origin \in 0..starts
  /\ startedAt \in 0..starts
  /\ baseline \in Value
  /\ total \in Value
  /\ accounted \in [Core -> Value]
  /\ due \in [Counter -> Int]
  /\ lost \in 0..MaxLost

Init ==
  /\ starts = 0 /\ process = 0 /\ serving = 0 /\ count = Zero
  /\ poll = "idle" /\ asked = 0 /\ reading = Zero /\ origin = 0
  /\ startedAt = 0 /\ baseline = Zero /\ total = Zero
  /\ accounted = [c \in Core |-> Zero] /\ due = Zero
  /\ lost = 0

----------------------------------------------------------------------------
(* The core, as AgentCore moves it                                         *)

Running == process # 0 /\ serving = process

\* A core counts what its users transfer, recorded or not.
Transfer(u) ==
  /\ serving # 0
  /\ count[u] < MaxBytes
  /\ count' = [count EXCEPT ![u] = @ + 1]
  /\ UNCHANGED <<starts, process, serving, pollVars, masterVars, lost>>

\* Core.stopProcess, on the way to a replacement or for good.
StopCore ==
  /\ process # 0
  /\ process' = 0 /\ serving' = 0 /\ count' = Zero
  /\ UNCHANGED <<starts, pollVars, masterVars, lost>>

\* start launches a child.  After stopProcess there is no process to point
\* at; the supervisor still points at the one that died.
LaunchCore ==
  /\ serving = 0
  /\ starts < MaxCores
  /\ starts' = starts + 1
  /\ serving' = starts + 1
  /\ count' = Zero
  /\ UNCHANGED <<process, pollVars, masterVars, lost>>

\* start saw it serve and records it with its start time.
RecordCore ==
  /\ serving # 0 /\ serving # process
  /\ process' = serving
  /\ UNCHANGED <<starts, serving, count, pollVars, masterVars, lost>>

\* The child dies, recorded or while start waits for it.
CoreDies ==
  /\ serving # 0
  /\ serving' = 0 /\ count' = Zero
  /\ UNCHANGED <<starts, process, pollVars, masterVars, lost>>

----------------------------------------------------------------------------
(* Core.Stats and the answer on its way                                    *)

EndPoll == poll' = "idle" /\ asked' = 0 /\ reading' = Zero /\ origin' = 0

\* A core that is not running is answered at once, with start time 0, and
\* the master accounts nothing.
PollStopped ==
  /\ poll = "idle" /\ ~Running
  /\ UNCHANGED vars

PollBegins ==
  /\ poll = "idle" /\ Running
  /\ poll' = "read" /\ asked' = process
  /\ UNCHANGED <<agentVars, reading, origin, masterVars, lost>>

\* GetCounters reads the core that listens on the API port now.
PollReads ==
  /\ poll = "read"
  /\ serving # 0
  /\ serving = process \/ process = 0 \/ ReadsOverlapStart
  /\ poll' = "check" /\ reading' = count /\ origin' = serving
  /\ UNCHANGED <<agentVars, asked, masterVars, lost>>

\* Mutant: the comparison is inverted.
OtherProcess == process # asked

\* Core.process is what it was when Stats began.
SameProcess == process = asked

PollAnswered ==
  /\ poll = "check" /\ SameProcess
  /\ poll' = "answered"
  /\ UNCHANGED <<agentVars, asked, reading, origin, masterVars, lost>>

\* No core listens, or ErrCoreRestarted: the master gets no stats.
PollFails ==
  /\ \/ poll = "read" /\ serving = 0
     \/ poll = "check" /\ ~SameProcess
  /\ EndPoll
  /\ UNCHANGED <<agentVars, masterVars, lost>>

\* The request times out, its answer is lost, or the transaction fails.
PollLost ==
  /\ poll # "idle"
  /\ lost < MaxLost
  /\ lost' = lost + 1
  /\ EndPoll
  /\ UNCHANGED <<agentVars, masterVars>>

----------------------------------------------------------------------------
(* AddAgentTraffic                                                         *)

\* Mutant: a new core is noticed by a drop of its counter only.
DeltaOnDrop(cur, before, restarted) ==
  IF cur < before THEN cur ELSE cur - before

\* Mutant: a new core is not noticed.
DeltaAlways(cur, before, restarted) == cur - before

\* agentDelta
Delta(cur, before, restarted) ==
  IF restarted \/ cur < before THEN cur ELSE cur - before

\* The transaction: add the deltas, drop the baselines of an older core, and
\* store the new ones.  A counter that is not in the answer reads as 0.
Account ==
  /\ poll = "answered"
  /\ LET restarted == startedAt # asked IN
       total' = [u \in Counter |->
                   total[u] + Delta(reading[u], baseline[u], restarted)]
  /\ startedAt' = asked
  /\ baseline' = reading
  /\ due' = [u \in Counter |-> due[u] + (reading[u] - accounted[origin][u])]
  /\ accounted' = [accounted EXCEPT ![origin] = reading]
  /\ EndPoll
  /\ UNCHANGED <<agentVars, lost>>

\* The usage of a client or an inbound is reset: the baselines stay.
ResetTotal(u) ==
  /\ total[u] # 0
  /\ total' = [total EXCEPT ![u] = 0]
  /\ due' = [due EXCEPT ![u] = 0]
  /\ UNCHANGED <<agentVars, pollVars, startedAt, baseline, accounted, lost>>

----------------------------------------------------------------------------

PollStep == PollBegins \/ PollReads \/ PollAnswered \/ PollFails \/ Account

Next ==
  \/ \E u \in Counter : Transfer(u) \/ ResetTotal(u)
  \/ StopCore \/ LaunchCore \/ RecordCore \/ CoreDies
  \/ PollStopped \/ PollStep \/ PollLost

\* The job polls every five seconds and a poll ends; start ends.
Spec == Init /\ [][Next]_vars /\ WF_vars(PollStep) /\ WF_vars(RecordCore)

----------------------------------------------------------------------------
(* Properties                                                              *)

\* Every byte a core reported is accounted once: the totals are the sum, over
\* all cores there ever were, of the last reading of each that the master
\* committed.  Restarts in between polls, polls that fail and resets of the
\* totals neither count a delta twice nor lose one.
ExactAccounting == total = due

\* Of the core that runs, nothing stays unaccounted: while it lives and its
\* counters stand still, the master comes to have accounted all of it.
EventuallyAccounted ==
  []<>(~Running \/ accounted[process] = count)
=============================================================================
