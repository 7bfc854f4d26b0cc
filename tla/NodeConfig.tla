----------------------------- MODULE NodeConfig -----------------------------
(***************************************************************************)
(* What a node promises of the configs it is given, whoever asks and       *)
(* whatever dies meanwhile: the contract of PUT /v1/config and of a reboot *)
(* (internal/agent/core.go, server.go).  AgentCore implements it.          *)
(*                                                                         *)
(* A push is answered in one of three ways.  "ok": the node has the config *)
(* and a reboot brings it back.  "refused": the node has the config from   *)
(* before the push.  "unsaved": the node has the config, and a reboot may  *)
(* bring back another.  Nothing else than a push moves the node from one   *)
(* config to another, and only what the node came to run is ever stored.   *)
(***************************************************************************)
CONSTANTS Config, None

VARIABLES
  conf,    \* the config the node has, if it has one
  saved,   \* the config a reboot brings back
  asked,   \* the push that is under way
  before,  \* what the node had when it began
  acked    \* the last push that was answered with "ok"

vars == <<conf, saved, asked, before, acked>>

Init ==
  /\ conf = None /\ saved = None
  /\ asked = None /\ before = None
  /\ acked = None

Ask(c) ==
  /\ asked = None
  /\ asked' = c /\ before' = conf
  /\ UNCHANGED <<conf, saved, acked>>

Adopt ==
  /\ asked # None
  /\ conf' = asked
  /\ UNCHANGED <<saved, asked, before, acked>>

Save ==
  /\ asked # None /\ conf = asked
  /\ saved' = asked
  /\ UNCHANGED <<conf, asked, before, acked>>

PushOver == asked # None /\ asked' = None /\ before' = None

AnswerOk ==
  /\ PushOver
  /\ conf = asked /\ saved = asked
  /\ acked' = asked
  /\ UNCHANGED <<conf, saved>>

AnswerRefused ==
  /\ PushOver
  /\ conf = before
  /\ UNCHANGED <<conf, saved, acked>>

AnswerUnsaved ==
  /\ PushOver
  /\ conf = asked
  /\ UNCHANGED <<conf, saved, acked>>

\* A push that was not answered is cut off, wherever it stood.
Die ==
  /\ conf' = None /\ asked' = None /\ before' = None
  /\ UNCHANGED <<saved, acked>>

Boot ==
  /\ conf = None /\ asked = None
  /\ conf' = saved
  /\ UNCHANGED <<saved, asked, before, acked>>

Answer == AnswerOk \/ AnswerRefused \/ AnswerUnsaved

Next ==
  \/ \E c \in Config : Ask(c)
  \/ Adopt \/ Save \/ Answer \/ Die \/ Boot

SafeSpec == Init /\ [][Next]_vars

\* Every push is answered, unless the node dies first.
Spec == SafeSpec /\ WF_vars(Answer)
=============================================================================
