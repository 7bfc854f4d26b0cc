----------------------- MODULE AgentAccounting_proofs -----------------------
(***************************************************************************)
(* Exact accounting, for every number of cores, counters, bytes and lost   *)
(* answers, as long as no read reaches a core that start has not recorded  *)
(* (ReadsOverlapStart = FALSE; AgentAccountingOverlap.cfg shows why not).  *)
(***************************************************************************)
EXTENDS AgentAccounting, TLAPS

\* Start times only grow, and nothing gets ahead of what was launched.
Order ==
  /\ serving # 0 => serving = starts
  /\ process # 0 => startedAt <= process
  /\ poll # "idle" =>
       /\ asked # 0
       /\ startedAt <= asked
       /\ process # 0 => asked <= process
       /\ process # asked => serving # asked

\* A reading is of the core whose start time goes with it, or that core is
\* gone for good and the poll will fail.
Origin ==
  /\ poll \in {"check", "answered"} => origin # 0
  /\ poll = "check" /\ process = asked => origin = asked
  /\ poll = "answered" => origin = asked

\* The baselines are those of the core that startedAt names, and no later
\* core was accounted.
Baselines ==
  /\ startedAt # 0 => accounted[startedAt] = baseline
  /\ \A c \in Core : c > startedAt => accounted[c] = Zero

\* The counters of one core only grow.
Growth ==
  \A u \in Counter :
    /\ serving # 0 => accounted[serving][u] <= count[u]
    /\ poll \in {"check", "answered"} =>
         /\ accounted[origin][u] <= reading[u]
         /\ serving = origin => reading[u] <= count[u]

AccountInv == Order /\ Origin /\ Baselines /\ Growth /\ ExactAccounting

----------------------------------------------------------------------------

\* Every step keeps the types: an answered reading is of a core there was, and
\* agentDelta is never negative.
LEMMA TypeStep ==
  ASSUME TypeOK, AccountInv, [Next]_vars
  PROVE  TypeOK'
<1> USE AccountingAssumption
<1> USE DEF TypeOK, Core, Value, Zero, agentVars, pollVars, masterVars
<1>1. ASSUME NEW u \in Counter, Transfer(u) PROVE TypeOK'
  <2>1. count[u] + 1 \in Nat
    OBVIOUS
  <2>2. count' \in Value
    BY <1>1, <2>1, Zenon DEF Transfer
  <2>q. QED
    BY <1>1, <2>2, Zenon DEF Transfer
<1>2. ASSUME NEW u \in Counter, ResetTotal(u) PROVE TypeOK'
  <2>1. 0 \in Nat /\ 0 \in Int
    OBVIOUS
  <2>2. total' \in Value /\ due' \in [Counter -> Int]
    BY <1>2, <2>1, Zenon DEF ResetTotal
  <2>q. QED
    BY <1>2, <2>2, Zenon DEF ResetTotal
<1>3. CASE StopCore
  BY <1>3 DEF StopCore
<1>4. CASE LaunchCore
  BY <1>4 DEF LaunchCore
<1>5. CASE RecordCore
  BY <1>5 DEF RecordCore
<1>6. CASE CoreDies
  BY <1>6 DEF CoreDies
<1>7. CASE PollStopped
  BY <1>7 DEF PollStopped, vars
<1>8. CASE PollBegins
  BY <1>8 DEF PollBegins, Running
<1>9. CASE PollReads
  BY <1>9 DEF PollReads
<1>10. CASE PollAnswered
  BY <1>10 DEF PollAnswered, SameProcess
<1>11. CASE PollFails
  BY <1>11 DEF PollFails, EndPoll, SameProcess
<1>12. CASE PollLost
  BY <1>12 DEF PollLost, EndPoll
<1>13. CASE Account
  <2>1. asked \in Core /\ origin = asked
    BY <1>13 DEF Account, AccountInv, Order, Origin
  <2>2. accounted' \in [Core -> Value]
    BY <1>13, <2>1 DEF Account
  <2>3. due' \in [Counter -> Int]
    <3>1. \A u \in Counter :
            due[u] + (reading[u] - accounted[origin][u]) \in Int
      BY <2>1
    <3>q. QED
      BY <1>13, <3>1 DEF Account
  <2>4. total' \in Value
    <3>1. \A u \in Counter : total[u]
             + Delta(reading[u], baseline[u], startedAt # asked) \in Nat
      BY DEF Delta
    <3>q. QED
      BY <1>13, <3>1 DEF Account
  <2>5. startedAt' \in 0..starts' /\ baseline' \in Value
    BY <1>13 DEF Account
  <2>6. /\ poll' = "idle" /\ asked' = 0 /\ reading' = Zero /\ origin' = 0
        /\ UNCHANGED <<starts, process, serving, count, lost>>
    BY <1>13 DEF Account, EndPoll
  <2>q. QED
    BY <2>2, <2>3, <2>4, <2>5, <2>6
<1>u. CASE UNCHANGED vars
  BY <1>u DEF vars
<1>q. QED
  BY <1>1, <1>2, <1>3, <1>4, <1>5, <1>6, <1>7, <1>8, <1>9, <1>10, <1>11, <1>12,
     <1>13, <1>u
  DEF Next, PollStep

\* Every step keeps the invariant.
LEMMA AccountStep ==
  ASSUME ~ReadsOverlapStart, TypeOK, AccountInv, [Next]_vars
  PROVE  AccountInv'
<1> USE AccountingAssumption
<1> USE DEF TypeOK, AccountInv, Order, Origin, Baselines, Growth,
        ExactAccounting, Core, Value, Zero, agentVars, pollVars, masterVars
<1>1. ASSUME NEW u \in Counter, Transfer(u) PROVE AccountInv'
  <2>1. Order' /\ Origin' /\ Baselines' /\ ExactAccounting'
    BY <1>1 DEF Transfer
  <2>2. ASSUME NEW v \in Counter
        PROVE  count[v] <= count'[v] /\ count'[v] \in Nat
    <3>1. count[v] \in Nat
      OBVIOUS
    <3>2. count'[v] = IF v = u THEN count[u] + 1 ELSE count[v]
      BY <1>1, Zenon DEF Transfer
    <3>q. QED
      BY <3>1, <3>2
  <2>3. Growth'
    <3> SUFFICES ASSUME NEW v \in Counter
                 PROVE  /\ serving # 0 => accounted[serving][v] <= count'[v]
                        /\ poll \in {"check", "answered"} /\ serving = origin
                             => reading[v] <= count'[v]
      BY <1>1 DEF Transfer
    <3>1. count[v] <= count'[v] /\ count[v] \in Nat /\ count'[v] \in Nat
      BY <2>2
    <3>2. ASSUME serving # 0 PROVE accounted[serving][v] <= count'[v]
      <4>1. accounted[serving][v] <= count[v]
        BY <3>2, Zenon
      <4>2. serving \in Core
        BY <3>2
      <4>3. accounted[serving] \in [Counter -> Nat]
        BY <4>2
      <4>4. accounted[serving][v] \in Nat
        BY <4>3
      <4> HIDE DEF TypeOK, AccountInv
      <4>q. QED
        BY <3>1, <4>1, <4>4
    <3>3. ASSUME poll \in {"check", "answered"}, serving = origin
          PROVE  reading[v] <= count'[v]
      <4>1. reading[v] <= count[v]
        BY <3>3, Zenon
      <4>2. reading[v] \in Nat
        BY Zenon
      <4> HIDE DEF TypeOK, AccountInv
      <4>q. QED
        BY <3>1, <4>1, <4>2
    <3>q. QED
      BY <3>2, <3>3, Zenon
  <2>q. QED
    BY <2>1, <2>3
<1>2. ASSUME NEW u \in Counter, ResetTotal(u) PROVE AccountInv'
  BY <1>2 DEF ResetTotal
<1>3. CASE StopCore
  BY <1>3 DEF StopCore
<1>4. CASE LaunchCore
  BY <1>4 DEF LaunchCore
<1>5. CASE RecordCore
  BY <1>5 DEF RecordCore
<1>6. CASE CoreDies
  BY <1>6 DEF CoreDies
<1>7. CASE PollStopped
  BY <1>7 DEF PollStopped, vars
<1>8. CASE PollBegins
  BY <1>8 DEF PollBegins, Running
<1>9. CASE PollReads
  BY <1>9 DEF PollReads
<1>10. CASE PollAnswered
  BY <1>10 DEF PollAnswered, SameProcess
<1>11. CASE PollFails
  BY <1>11 DEF PollFails, EndPoll, SameProcess
<1>12. CASE PollLost
  BY <1>12 DEF PollLost, EndPoll
<1>13. CASE Account
  <2>1. asked \in Core /\ origin = asked
    BY <1>13 DEF Account
  <2>2. /\ accounted'[asked] = reading
        /\ \A c \in Core : c # asked => accounted'[c] = accounted[c]
    BY <1>13, <2>1 DEF Account
  <2>3. Baselines'
    <3>1. \A c \in Core : c > asked => c > startedAt /\ c # asked
      BY <1>13, <2>1 DEF Account
    <3>q. QED
      BY <1>13, <2>1, <2>2, <3>1 DEF Account
  <2>4. Order' /\ Origin'
    BY <1>13 DEF Account, EndPoll
  <2>5. Growth'
    BY <1>13 DEF Account, EndPoll
  <2>6. ExactAccounting'
    BY <1>13 DEF Account, EndPoll, Delta
  <2>q. QED
    BY <2>3, <2>4, <2>5, <2>6
<1>u. CASE UNCHANGED vars
  BY <1>u DEF vars
<1>q. QED
  BY <1>1, <1>2, <1>3, <1>4, <1>5, <1>6, <1>7, <1>8, <1>9, <1>10, <1>11, <1>12,
     <1>13, <1>u
  DEF Next, PollStep

\* What the proof of exact accounting rests on holds throughout.
THEOREM AccountInvariant ==
  ASSUME ~ReadsOverlapStart
  PROVE  Spec => [](TypeOK /\ AccountInv)
<1>1. Init => TypeOK /\ AccountInv
  BY AccountingAssumption
  DEF Init, TypeOK, AccountInv, Order, Origin, Baselines, Growth,
      ExactAccounting, Core, Value, Zero
<1>2. TypeOK /\ AccountInv /\ [Next]_vars => (TypeOK /\ AccountInv)'
  BY TypeStep, AccountStep
<1>q. QED
  BY <1>1, <1>2, PTL DEF Spec

\* The master's columns and the answers on their way keep their types; in
\* particular no delta takes a total below zero.
THEOREM AccountTypes ==
  ASSUME ~ReadsOverlapStart
  PROVE  Spec => []TypeOK
<1>q. QED
  BY AccountInvariant, PTL

\* However cores die, are replaced and restarted between and within polls,
\* and whichever polls fail, the totals are what the cores reported: no delta
\* is counted twice and none is lost.
THEOREM TotalsAreExact ==
  ASSUME ~ReadsOverlapStart
  PROVE  Spec => []ExactAccounting
<1>1. AccountInv => ExactAccounting
  BY DEF AccountInv
<1>q. QED
  BY <1>1, AccountInvariant, PTL
=============================================================================
