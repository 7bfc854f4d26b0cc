---------------------------- MODULE WriteService ----------------------------
(***************************************************************************)
(* What those who write traffic rows are promised, whoever applies their   *)
(* writes, in whatever order, and whether the writer starts, stops or is   *)
(* behind meanwhile: the contract of submitTrafficWrite                    *)
(* (internal/web/service/traffic_writer.go).  TrafficWriter implements it. *)
(*                                                                         *)
(* A write takes effect once, at an instant between its call and its       *)
(* return, and its result is returned; or the call returns "queue full"    *)
(* and the write never takes effect, then or later.                        *)
(***************************************************************************)
EXTENDS Naturals

CONSTANT Thread

VARIABLES
  open,     \* the threads with a call under way
  effects,  \* how often the write of the last call took effect
  answer    \* what the last call returned

vars == <<open, effects, answer>>

Init ==
  /\ open = {}
  /\ effects = [t \in Thread |-> 0]
  /\ answer = [t \in Thread |-> "none"]

Call(t) ==
  /\ t \notin open
  /\ open' = open \cup {t}
  /\ effects' = [effects EXCEPT ![t] = 0]
  /\ answer' = [answer EXCEPT ![t] = "none"]

TakeEffect(t) ==
  /\ t \in open /\ effects[t] = 0
  /\ effects' = [effects EXCEPT ![t] = 1]
  /\ UNCHANGED <<open, answer>>

Answer(t, a) ==
  /\ t \in open
  /\ open' = open \ {t}
  /\ answer' = [answer EXCEPT ![t] = a]
  /\ UNCHANGED effects

AnswerOk(t)   == effects[t] = 1 /\ Answer(t, "ok")
AnswerFull(t) == effects[t] = 0 /\ Answer(t, "full")

Next ==
  \E t \in Thread :
    Call(t) \/ TakeEffect(t) \/ AnswerOk(t) \/ AnswerFull(t)

SafeSpec == Init /\ [][Next]_vars

\* A call whose write took effect returns.
Spec == SafeSpec /\ \A t \in Thread : WF_vars(AnswerOk(t))
=============================================================================
