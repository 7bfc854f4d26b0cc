------------------------ MODULE TrafficWriter_proofs ------------------------
(***************************************************************************)
(* The safety properties of TrafficWriter, for any number of submitters    *)
(* and any size of the queues.                                             *)
(*                                                                         *)
(* A write that waits is in exactly one place (Places, Queues): in its     *)
(* lane, with the writer, or among the replies.  The drain ends only when  *)
(* both lanes are empty, because nobody is let in after the cancel         *)
(* (Lifecycle).                                                            *)
(*                                                                         *)
(* Where a write is decides how often it took effect (Effects), so that    *)
(* the steps of the writer and of the submitters are steps of WriteService *)
(* or change nothing that a caller sees.                                   *)
(***************************************************************************)
EXTENDS TrafficWriter, TLAPS

Members(s)  == {s[i] : i \in DOMAIN s}
Distinct(s) == \A i, j \in 1..Len(s) : s[i] = s[j] => i = j

Types ==
  /\ panel \in {"off", "up", "stopping"}
  /\ writer \in {"none", "select", "block", "apply", "drainAdmin", "drainBg",
                 "done"}
  /\ lane \in [Lane -> Seq(Thread)]
  /\ serving \in Thread \cup {None}
  /\ mutex \in Thread \cup {None}
  /\ pc \in [Thread -> {"idle", "call", "blocked", "waiting", "direct"}]
  /\ kind \in [Thread -> Lane]
  /\ replied \subseteq Thread
  /\ closed \subseteq Thread
  /\ outcome \in [Thread -> {"none", "ok", "full", "stopped"}]
  /\ applied \in [Thread -> 0..2]
  /\ bypassed \in [Thread -> 0..2]

Flags == cancelled \in BOOLEAN /\ drained \in BOOLEAN

Bounded == \A l \in Lane : Len(lane[l]) <= QueueSize

\* How the goroutines of the writer and of the panel go together.
Lifecycle ==
  /\ cancelled <=> panel = "stopping"
  /\ writer = "none" <=> panel = "off"
  /\ writer \in {"drainAdmin", "drainBg", "done"} => cancelled
  /\ writer = "apply" <=> serving # None
  /\ drained => writer \in {"apply", "drainBg"} /\ cancelled
  /\ writer = "drainBg" /\ ~drained => Empty("admin")
  /\ writer \in {"none", "done"} => \A l \in Lane : Empty(l)
  /\ mutex # None => writer # "none" /\ ~cancelled

\* What each submitter stands for.
Place(t) ==
  /\ pc[t] = "blocked" <=> mutex = t
  /\ t \in replied => pc[t] = "waiting" /\ applied[t] = 1
  /\ t \in closed => t \in replied
  /\ serving = t => pc[t] = "waiting" /\ t \notin replied
  /\ pc[t] = "waiting" =>
       \/ t \in replied
       \/ applied[t] = 0 /\ (serving = t \/ t \in Queued(kind[t]))
  /\ pc[t] \in {"call", "blocked", "direct"} =>
       applied[t] = 0 /\ bypassed[t] = 0
  /\ outcome[t] # "none" => pc[t] = "idle"
  /\ outcome[t] = "ok" => applied[t] = 1
  /\ outcome[t] = "full" => applied[t] = 0
  /\ outcome[t] # "stopped"

Places == \A t \in Thread : Place(t)

\* A queued write is queued once, in its lane, and is nowhere else.
Queues ==
  \A l \in Lane :
    /\ Distinct(lane[l])
    /\ \A t \in Queued(l) : /\ t # serving /\ t \notin replied
                            /\ pc[t] = "waiting" /\ kind[t] = l

\* Between two looks at the admin lane the writer takes one write at most.
Order ==
  ~cancelled =>
    \A t \in Queued("admin") : bypassed[t] <= IF writer = "block" THEN 0 ELSE 1

Inv == Types /\ Flags /\ Bounded /\ Lifecycle /\ Places /\ Queues /\ Order

----------------------------------------------------------------------------
(* Lanes                                                                   *)

LEMMA TakenIsGone ==
  ASSUME NEW S, NEW s \in Seq(S), s # <<>>, Distinct(s)
  PROVE  /\ Head(s) \in S /\ Tail(s) \in Seq(S) /\ Len(Tail(s)) = Len(s) - 1
         /\ Distinct(Tail(s))
         /\ Head(s) \in Members(s)
         /\ Members(Tail(s)) = Members(s) \ {Head(s)}
<1>1. /\ Head(s) = s[1] /\ Head(s) \in S /\ Tail(s) \in Seq(S)
      /\ Len(s) \in Nat \ {0} /\ Len(Tail(s)) = Len(s) - 1
      /\ \A i \in 1..(Len(s) - 1) : Tail(s)[i] = s[i + 1]
  OBVIOUS
<1>2. DOMAIN s = 1..Len(s) /\ DOMAIN Tail(s) = 1..(Len(s) - 1)
  BY <1>1
<1>3. Distinct(Tail(s))
  BY <1>1 DEF Distinct
<1>4. Head(s) \in Members(s)
  BY <1>1, <1>2 DEF Members
<1>5. ASSUME NEW x \in Members(Tail(s))
      PROVE  x \in Members(s) /\ x # Head(s)
  <2>1. PICK i \in 1..(Len(s) - 1) : x = Tail(s)[i]
    BY <1>2 DEF Members
  <2>2. x = s[i + 1] /\ i + 1 \in 1..Len(s) /\ i + 1 # 1 /\ 1 \in 1..Len(s)
    BY <1>1, <2>1
  <2>q. QED
    BY <1>1, <1>2, <2>2 DEF Members, Distinct
<1>6. ASSUME NEW x \in Members(s), x # Head(s)
      PROVE  x \in Members(Tail(s))
  <2>1. PICK i \in 1..Len(s) : x = s[i]
    BY <1>2 DEF Members
  <2>2. i - 1 \in 1..(Len(s) - 1) /\ Tail(s)[i - 1] = x
    BY <1>1, <1>6, <2>1
  <2>q. QED
    BY <1>2, <2>2 DEF Members
<1>q. QED
  BY <1>1, <1>3, <1>4, <1>5, <1>6

LEMMA SentIsLast ==
  ASSUME NEW S, NEW s \in Seq(S), NEW t \in S, t \notin Members(s), Distinct(s)
  PROVE  /\ Append(s, t) \in Seq(S) /\ Len(Append(s, t)) = Len(s) + 1
         /\ Distinct(Append(s, t))
         /\ Members(Append(s, t)) = Members(s) \cup {t}
<1>1. /\ Append(s, t) \in Seq(S) /\ Len(s) \in Nat
      /\ Len(Append(s, t)) = Len(s) + 1 /\ Append(s, t)[Len(s) + 1] = t
      /\ \A i \in 1..Len(s) : Append(s, t)[i] = s[i]
  OBVIOUS
<1>2. DOMAIN s = 1..Len(s) /\ DOMAIN Append(s, t) = 1..(Len(s) + 1)
  BY <1>1
<1>3. \A i \in 1..(Len(s) + 1) : i \in 1..Len(s) \/ i = Len(s) + 1
  BY <1>1
<1>4. \A i \in 1..Len(s) : s[i] # t
  BY <1>2 DEF Members
<1>5. Distinct(Append(s, t))
  BY <1>1, <1>3, <1>4 DEF Distinct
<1>6. ASSUME NEW x \in Members(Append(s, t))
      PROVE  x \in Members(s) \cup {t}
  BY <1>1, <1>2, <1>3 DEF Members
<1>7. ASSUME NEW x \in Members(s) \cup {t}
      PROVE  x \in Members(Append(s, t))
  <2>1. CASE x = t
    BY <1>1, <1>2, <2>1 DEF Members
  <2>2. CASE x \in Members(s)
    <3>1. PICK i \in 1..Len(s) : x = s[i]
      BY <1>2, <2>2 DEF Members
    <3>2. i \in 1..(Len(s) + 1) /\ Append(s, t)[i] = x
      BY <1>1, <3>1
    <3>q. QED
      BY <1>2, <3>2 DEF Members
  <2>q. QED
    BY <1>7, <2>1, <2>2
<1>q. QED
  BY <1>1, <1>5, <1>6, <1>7


----------------------------------------------------------------------------
(* Steps that do not touch the lanes or what was queued                    *)

LEMMA QueuedAreThreads ==
  ASSUME Types, NEW l \in Lane
  PROVE  Queued(l) \subseteq Thread
<1>1. lane[l] \in Seq(Thread)
  BY DEF Types
<1>q. QED
  BY <1>1 DEF Queued

LEMMA TakeEffect ==
  ASSUME Inv, NEW l \in Lane, Take(l)
  PROVE  /\ lane' \in [Lane -> Seq(Thread)] /\ Bounded'
         /\ \A m \in Lane : Distinct(lane'[m])
         /\ serving' \in Queued(l) /\ serving' \in Thread
         /\ Queued(l)' = Queued(l) \ {serving'}
         /\ \A m \in Lane : m # l => lane'[m] = lane[m] /\ Queued(m)' = Queued(m)
<1> DEFINE s == lane[l]
<1>1. s \in Seq(Thread) /\ s # <<>> /\ Distinct(s) /\ serving' = Head(s)
  BY DEF Inv, Types, Queues, Take, Empty
<1>2. /\ lane' \in [Lane -> Seq(Thread)] /\ lane'[l] = Tail(s)
      /\ \A m \in Lane : m # l => lane'[m] = lane[m]
  <2>1. lane' = [lane EXCEPT ![l] = Tail(s)] /\ Tail(s) \in Seq(Thread)
    BY <1>1, TakenIsGone DEF Take
  <2>q. QED
    BY <2>1 DEF Inv, Types
<1>3. /\ serving' \in Thread /\ Len(Tail(s)) = Len(s) - 1 /\ Distinct(Tail(s))
      /\ serving' \in Members(s) /\ Members(Tail(s)) = Members(s) \ {serving'}
  BY <1>1, TakenIsGone
<1>4. Bounded'
  BY <1>1, <1>2, <1>3, WriterAssumption DEF Inv, Bounded
<1>5. \A m \in Lane : Distinct(lane'[m])
  BY <1>2, <1>3 DEF Inv, Queues
<1>6. serving' \in Queued(l) /\ Queued(l)' = Queued(l) \ {serving'}
  BY <1>2, <1>3 DEF Queued, Members
<1>7. \A m \in Lane : m # l => Queued(m)' = Queued(m)
  BY <1>2 DEF Queued
<1>q. QED
  BY <1>2, <1>3, <1>4, <1>5, <1>6, <1>7

\* The writer takes a write: it is with the writer now, and nowhere else.
LEMMA TakeKeeps ==
  ASSUME Inv, NEW l \in Lane, Take(l), writer # "apply",
         l = "admin" \/ writer = "block" \/ cancelled,
         drained' \in BOOLEAN, drained' => cancelled
  PROVE  Inv'
<1>1. /\ lane' \in [Lane -> Seq(Thread)] /\ Bounded'
      /\ \A m \in Lane : Distinct(lane'[m])
      /\ serving' \in Queued(l) /\ serving' \in Thread
      /\ Queued(l)' = Queued(l) \ {serving'}
      /\ \A m \in Lane : m # l => Queued(m)' = Queued(m)
  BY TakeEffect
<1>2. /\ UNCHANGED <<panel, cancelled, mutex, pc, kind, outcome, replied, closed,
                     applied>>
      /\ writer' = "apply"
  BY DEF Take, submitVars
<1>3. /\ serving' # None /\ kind[serving'] = l /\ pc[serving'] = "waiting"
      /\ serving' \notin replied
  BY <1>1, WriterAssumption DEF Inv, Queues
<1>4. bypassed' \in [Thread -> 0..2]
  BY DEF Take, OneMore, Inv, Types
<1>5. Types'
  <2>1. Types
    BY DEF Inv
  <2>2. lane' \in [Lane -> Seq(Thread)] /\ serving' \in Thread
    BY <1>1
  <2>q. QED
    BY <1>2, <1>4, <2>1, <2>2 DEF Types
<1>6. serving = None
  BY DEF Inv, Lifecycle
<1>7. Queues'
  BY <1>1, <1>2, <1>3 DEF Inv, Queues
<1>8. Places'
  <2>1. \A t \in Thread : t # serving' /\ t \in Queued(kind[t]) => t \in Queued(kind[t])'
    <3>. SUFFICES ASSUME NEW t \in Thread, t # serving', t \in Queued(kind[t])
                  PROVE  t \in Queued(kind[t])'
      OBVIOUS
    <3>1. kind[t] \in Lane
      BY DEF Inv, Types
    <3>q. QED
      BY <1>1, <1>2, <3>1
  <2>2. serving' \in Thread /\ serving' \in Queued(l)
    BY <1>1
  <2>3. \A t \in Thread : pc[t] # "waiting" => bypassed'[t] = bypassed[t]
    <3>1. \A t \in Queued("admin") : pc[t] = "waiting"
      BY DEF Inv, Queues, Lane
    <3>q. QED
      BY <3>1 DEF Take, Inv, Types
  <2>q. QED
    BY <1>2, <1>3, <1>6, <2>1, <2>2, <2>3, WriterAssumption DEF Inv, Places, Place
<1>9. Order'
  <2>1. CASE cancelled
    BY <1>2, <2>1 DEF Order
  <2>2. CASE l = "admin" /\ ~cancelled
    <3>1. bypassed' = bypassed /\ Queued("admin")' \subseteq Queued("admin")
      BY <1>1, <2>2 DEF Take
    <3>2. \A t \in Queued("admin") : bypassed[t] <= 1
      <4>1. Queued("admin") \subseteq Thread
        BY QueuedAreThreads DEF Inv, Lane
      <4>q. QED
        BY <2>2, <4>1 DEF Inv, Order, Types
    <3>q. QED
      BY <1>2, <3>1, <3>2 DEF Order
  <2>3. CASE l = "bg" /\ ~cancelled /\ writer = "block"
    <3>1. Queued("admin")' = Queued("admin") /\ Queued("admin") \subseteq Thread
      BY <1>1, <2>3, QueuedAreThreads DEF Lane, Inv
    <3>2. \A t \in Queued("admin") : bypassed[t] = 0
      BY <2>3, <3>1 DEF Inv, Order, Types
    <3>3. \A t \in Queued("admin") : bypassed'[t] = 1
      BY <2>3, <3>1, <3>2 DEF Take, OneMore
    <3>q. QED
      BY <1>2, <3>1, <3>3 DEF Order
  <2>q. QED
    BY <2>1, <2>2, <2>3 DEF Lane
<1>10. Lifecycle'
  <2>1. lane[l] # <<>>
    BY DEF Take, Empty
  <2>q. QED
    BY <1>1, <1>2, <1>3, <2>1, WriterAssumption DEF Inv, Lifecycle, Empty
<1>11. Flags'
  BY <1>2 DEF Inv, Flags
<1>q. QED
  BY <1>1, <1>5, <1>7, <1>8, <1>9, <1>10, <1>11 DEF Inv

\* Where the writer goes next changes nothing for the writes; it must not
\* go into the inner select past an admin write.
LEMMA GoKeeps ==
  ASSUME Inv, NEW step, WriterGoesTo(step),
         writer \notin {"apply", "none", "done"},
         step \in {"block", "drainAdmin", "drainBg"},
         step = "block" => Empty("admin"), step # "block" => cancelled,
         drained' \in BOOLEAN, drained' => cancelled /\ step = "drainBg",
         step = "drainBg" /\ ~drained' => Empty("admin")
  PROVE  Inv'
<1>1. /\ writer' = step
      /\ UNCHANGED <<panel, cancelled, lane, serving, mutex, pc, kind, outcome,
                     replied, closed, applied, bypassed>>
  BY DEF WriterGoesTo, submitVars, historyVars
<1>2. Types'
  BY <1>1 DEF Inv, Types
<1>3. Bounded' /\ Queues'
  BY <1>1 DEF Inv, Bounded, Queues, Queued
<1>4. Places'
  BY <1>1 DEF Inv, Places, Place, Queued
<1>5. Order'
  <2>1. CASE cancelled
    BY <1>1, <2>1 DEF Order
  <2>2. CASE step = "block"
    <3>1. Queued("admin")' = {}
      BY <1>1, <2>2 DEF Queued, Empty
    <3>q. QED
      BY <3>1 DEF Order
  <2>q. QED
    BY <2>1, <2>2
<1>6. Lifecycle'
  BY <1>1 DEF Inv, Lifecycle, Empty
<1>7. Flags'
  BY <1>1 DEF Inv, Flags
<1>q. QED
  BY <1>2, <1>3, <1>4, <1>5, <1>6, <1>7 DEF Inv

----------------------------------------------------------------------------
(* The writer                                                              *)

LEMMA AppliesKeeps ==
  ASSUME Inv, Applies
  PROVE  Inv'
<1>1. /\ writer = "apply" /\ serving \in Thread /\ serving' = None
      /\ writer' \in {"select", "drainBg", "drainAdmin"}
      /\ replied' = replied \cup {serving}
      /\ UNCHANGED <<panel, cancelled, lane, mutex, pc, kind, outcome, closed,
                     bypassed>>
  BY DEF Applies, AfterApply, Inv, Types, Lifecycle, submitVars
<1>2. /\ pc[serving] = "waiting" /\ serving \notin replied /\ applied[serving] = 0
  BY <1>1 DEF Inv, Places, Place
<1>3. applied' = [applied EXCEPT ![serving] = 1]
  BY <1>2 DEF Applies, OneMore
<1>4. Types'
  BY <1>1, <1>3 DEF Inv, Types
<1>5. Bounded'
  BY <1>1 DEF Inv, Bounded
<1>6. Queues'
  BY <1>1, WriterAssumption, QueuedAreThreads DEF Inv, Queues, Queued
<1>7. Places'
  <2>1. applied' \in [Thread -> 0..2] /\ applied'[serving] = 1
        /\ \A t \in Thread : t # serving => applied'[t] = applied[t]
    BY <1>1, <1>3 DEF Inv, Types
  <2>2. \A t \in Thread : Queued(kind[t])' = Queued(kind[t])
    BY <1>1 DEF Queued
  <2>3. \A t \in Thread : serving' # t /\ pc'[t] = pc[t] /\ outcome'[t] = outcome[t]
    BY <1>1, WriterAssumption
  <2>4. pc[serving] = "waiting" /\ outcome[serving] = "none" /\ serving # mutex
    BY <1>1, <1>2 DEF Inv, Places, Place, Types
  <2>5. ASSUME NEW t \in Thread, t # serving
        PROVE  Place(t)'
    <3>1. Place(t)
      BY DEF Inv, Places
    <3>q. QED
      BY <1>1, <2>1, <2>2, <2>3, <2>5, <3>1 DEF Place
  <2>6. ASSUME NEW t \in Thread, t = serving
        PROVE  Place(t)'
    <3>1. Place(t)
      BY DEF Inv, Places
    <3>2. /\ pc'[t] = "waiting" /\ outcome'[t] = "none" /\ applied'[t] = 1
          /\ t \in replied' /\ mutex' # t /\ serving' # t
      BY <1>1, <1>2, <2>1, <2>3, <2>4, <2>6
    <3>q. QED
      BY <3>2 DEF Place
  <2>q. QED
    BY <2>5, <2>6 DEF Places
<1>8. Order'
  BY <1>1 DEF Inv, Order, Queued
<1>9. Flags'
  <2>1. drained' = (drained /\ kind[serving] = "admin") /\ cancelled' = cancelled
    BY DEF Applies
  <2>q. QED
    BY <2>1, Zenon DEF Inv, Flags
<1>10. Lifecycle'
  <2>1. /\ drained' <=> drained /\ kind[serving] = "admin"
        /\ writer' = AfterApply
    BY DEF Applies
  <2>q. QED
    BY <1>1, <2>1, WriterAssumption DEF Inv, Lifecycle, AfterApply, Empty
<1>q. QED
  BY <1>4, <1>5, <1>6, <1>7, <1>8, <1>9, <1>10 DEF Inv

\* The drain ends: every lane is empty, so whoever waits has his reply.
LEMMA DoneKeeps ==
  ASSUME Inv, DrainsBg, writer' = "done"
  PROVE  Inv'
<1>1. /\ writer = "drainBg" /\ Empty("bg") /\ ~drained
      /\ closed' = {t \in Thread : pc[t] = "waiting"}
      /\ UNCHANGED <<panel, cancelled, lane, serving, drained, mutex, pc, kind,
                     outcome, replied, applied, bypassed>>
  BY DEF DrainsBg, Take, WriterGoesTo, submitVars, historyVars
<1>2. \A l \in Lane : lane[l] = <<>> /\ Queued(l) = {}
  BY <1>1 DEF Inv, Lifecycle, Empty, Lane, Queued
<1>3. serving = None /\ cancelled
  BY <1>1 DEF Inv, Lifecycle
<1>4. Types' /\ Bounded'
  BY <1>1 DEF Inv, Types, Bounded
<1>5. Flags'
  BY <1>1 DEF Inv, Flags
<1>6. Lifecycle'
  BY <1>1, <1>2, <1>3 DEF Inv, Lifecycle, Empty
<1>7. \A t \in Thread : pc[t] = "waiting" => t \in replied
  <2>1. \A t \in Thread : kind[t] \in Lane
    BY DEF Inv, Types
  <2>q. QED
    BY <1>2, <1>3, <2>1, WriterAssumption DEF Inv, Places, Place
<1>8. Places'
  <2>1. \A t \in Thread : Queued(kind[t])' = Queued(kind[t])
    BY <1>1 DEF Queued
  <2>q. QED
    BY <1>1, <1>7, <2>1 DEF Inv, Places, Place
<1>9. Queues' /\ Order'
  BY <1>1, <1>3 DEF Inv, Queues, Order, Queued
<1>q. QED
  BY <1>4, <1>5, <1>6, <1>8, <1>9 DEF Inv

LEMMA WriterKeeps ==
  ASSUME Inv, WriterStep
  PROVE  Inv'
<1> USE DEF Lane
<1>f. drained \in BOOLEAN /\ (drained => writer \in {"apply", "drainBg"} /\ cancelled)
      /\ (writer \in {"drainAdmin", "drainBg"} => cancelled)
  BY DEF Inv, Flags, Lifecycle
<1>1. CASE Selects
  <2>1. writer = "select"
    BY <1>1 DEF Selects
  <2>2. CASE Take("admin") /\ UNCHANGED drained
    BY <1>f, <2>1, <2>2, TakeKeeps
  <2>3. CASE Empty("admin") /\ WriterGoesTo("block") /\ UNCHANGED drained
    BY <1>f, <2>1, <2>3, GoKeeps
  <2>4. CASE cancelled /\ WriterGoesTo("drainAdmin") /\ drained' = FALSE
    BY <2>1, <2>4, GoKeeps
  <2>q. QED
    BY <1>1, <2>2, <2>3, <2>4 DEF Selects
<1>2. CASE Blocks
  <2>1. writer = "block"
    BY <1>2 DEF Blocks
  <2>2. ASSUME NEW l \in Lane, Take(l), UNCHANGED drained PROVE Inv'
    BY <1>f, <2>1, <2>2, TakeKeeps
  <2>3. CASE cancelled /\ WriterGoesTo("drainAdmin") /\ drained' = FALSE
    BY <2>1, <2>3, GoKeeps
  <2>q. QED
    BY <1>2, <2>2, <2>3 DEF Blocks
<1>3. CASE DrainsAdmin
  <2>1. writer = "drainAdmin" /\ cancelled /\ ~drained
    BY <1>f, <1>3 DEF DrainsAdmin
  <2>2. CASE Take("admin") /\ drained' = TRUE
    BY <2>1, <2>2, TakeKeeps
  <2>3. CASE Empty("admin") /\ WriterGoesTo("drainBg") /\ UNCHANGED drained
    BY <1>f, <2>1, <2>3, GoKeeps
  <2>q. QED
    BY <1>3, <2>2, <2>3 DEF DrainsAdmin
<1>4. CASE DrainsBg
  <2>1. writer = "drainBg" /\ cancelled
    BY <1>f, <1>4 DEF DrainsBg
  <2>2. CASE Take("bg") /\ drained' = TRUE
    BY <2>1, <2>2, TakeKeeps
  <2>3. CASE WriterGoesTo("drainAdmin") /\ drained' = FALSE
    BY <2>1, <2>3, GoKeeps
  <2>4. CASE writer' = "done"
    BY <1>4, <2>4, DoneKeeps
  <2>q. QED
    BY <1>4, <2>2, <2>3, <2>4 DEF DrainsBg
<1>q. QED
  BY <1>1, <1>2, <1>3, <1>4, AppliesKeeps DEF WriterStep

----------------------------------------------------------------------------
(* The main goroutine                                                      *)

LEMMA PanelKeeps ==
  ASSUME Inv, StartTrafficWriter \/ StopBegins \/ StopEnds
  PROVE  Inv'
<1>1. CASE StartTrafficWriter /\ writer \notin {"none", "done"}
  <2>1. /\ panel' = panel
        /\ UNCHANGED <<writer, cancelled, lane, serving, drained, mutex, pc, kind,
                       outcome, replied, closed, applied, bypassed>>
    BY <1>1 DEF StartTrafficWriter, submitVars, historyVars, Inv, Types, Lifecycle
  <2>q. QED
    BY <2>1 DEF Inv, Types, Flags, Bounded, Lifecycle, Empty, Places, Place,
       Queues, Queued, Order
<1>2. CASE StopBegins
  <2>1. /\ panel = "up" /\ mutex = None /\ panel' = "stopping" /\ cancelled' = TRUE
        /\ UNCHANGED <<writer, lane, serving, drained, mutex, pc, kind, outcome,
                       replied, closed, applied, bypassed>>
    BY <1>2 DEF StopBegins, submitVars, historyVars
  <2>2. Flags'
    BY <2>1 DEF Inv, Flags
  <2>q. QED
    BY <2>1, <2>2 DEF Inv, Types, Bounded, Lifecycle, Empty, Places, Place,
       Queues, Queued, Order
<1>3. CASE \/ StartTrafficWriter /\ writer \in {"none", "done"}
           \/ StopEnds
  <2>1. /\ cancelled' = FALSE /\ lane' = [l \in Lane |-> <<>>]
        /\ writer \in {"none", "done"} /\ mutex = None
        /\ \/ panel' = "up" /\ writer' = "select"
           \/ panel' = "off" /\ writer' = "none"
        /\ UNCHANGED <<serving, drained, mutex, pc, kind, outcome, replied,
                       closed, applied, bypassed>>
    BY <1>3 DEF StartTrafficWriter, StopEnds, submitVars, historyVars
  <2>2. serving = None /\ ~drained /\ \A l \in Lane : lane[l] = <<>>
    BY <2>1 DEF Inv, Lifecycle, Empty
  <2>3. \A l \in Lane : lane'[l] = <<>> /\ Queued(l)' = {} /\ Distinct(lane'[l])
    BY <2>1 DEF Queued, Distinct
  <2>4. Types' /\ Bounded'
    BY <2>1, <2>3, WriterAssumption DEF Inv, Types, Bounded
  <2>5. Flags'
    BY <2>1 DEF Inv, Flags
  <2>6. Lifecycle'
    BY <2>1, <2>2, <2>3 DEF Inv, Lifecycle, Empty
  <2>7. Places'
    <3>1. \A t \in Thread : kind[t] \in Lane /\ Queued(kind[t]) = {}
      BY <2>2 DEF Inv, Types, Queued
    <3>q. QED
      BY <2>1, <2>2, <3>1, WriterAssumption DEF Inv, Places, Place
  <2>8. Queues' /\ Order'
    BY <2>1, <2>3 DEF Queues, Order, Lane
  <2>q. QED
    BY <2>4, <2>5, <2>6, <2>7, <2>8 DEF Inv
<1>q. QED
  BY <1>1, <1>2, <1>3

----------------------------------------------------------------------------
(* The submitters                                                          *)

\* A submitter that is not waiting stands alone: what it does to itself
\* touches no write of another one.
LEMMA AloneKeeps ==
  ASSUME Inv, NEW t \in Thread, pc[t] # "waiting",
         UNCHANGED <<panel, writer, cancelled, lane, serving, drained, replied,
                     closed>>,
         Types', Place(t)',
         \/ mutex' = mutex
         \/ mutex = t /\ mutex' = None
         \/ mutex = None /\ mutex' = t /\ writer # "none" /\ ~cancelled,
         \A u \in Thread \ {t} :
           /\ pc'[u] = pc[u] /\ kind'[u] = kind[u] /\ outcome'[u] = outcome[u]
           /\ applied'[u] = applied[u] /\ bypassed'[u] = bypassed[u]
  PROVE  Inv'
<1>1. t # serving /\ \A l \in Lane : t \notin Queued(l)
  BY DEF Inv, Places, Place, Queues
<1>2. \A l \in Lane : Queued(l)' = Queued(l) /\ Queued(l) \subseteq Thread \ {t}
  BY <1>1, QueuedAreThreads DEF Inv, Queued
<1>3. Flags' /\ Bounded'
  BY DEF Inv, Flags, Bounded
<1>4. Lifecycle'
  BY WriterAssumption DEF Inv, Lifecycle, Empty
<1>5. ASSUME NEW u \in Thread \ {t} PROVE Place(u)'
  <2>1. Place(u) /\ kind[u] \in Lane
    BY DEF Inv, Places, Types
  <2>2. Queued(kind[u])' = Queued(kind[u])
    BY <1>2, <2>1 DEF Queued
  <2>3. mutex' = u <=> mutex = u
    BY WriterAssumption
  <2>q. QED
    BY <2>1, <2>2, <2>3 DEF Place
<1>6. Queues'
  BY <1>2 DEF Inv, Queues
<1>7. Order'
  BY <1>2 DEF Inv, Order, Lane
<1>q. QED
  BY <1>3, <1>4, <1>5, <1>6, <1>7 DEF Inv, Places

LEMMA EnqueuesKeeps ==
  ASSUME Inv, NEW t \in Thread, Enqueues(t)
  PROVE  Inv'
<1> DEFINE l == kind[t]
<1>1. /\ l \in Lane /\ lane[l] \in Seq(Thread) /\ Distinct(lane[l])
      /\ pc[t] \in {"call", "blocked"} /\ t \notin replied /\ serving # t
      /\ applied[t] = 0 /\ bypassed[t] = 0 /\ outcome[t] = "none" /\ t \notin closed
  BY DEF Enqueues, Inv, Types, Queues, Places, Place
<1>2. \A m \in Lane : t \notin Queued(m)
  BY <1>1 DEF Inv, Queues
<1>3. /\ lane' = [lane EXCEPT ![l] = Append(lane[l], t)]
      /\ pc' = [pc EXCEPT ![t] = "waiting"] /\ mutex' = None
      /\ Len(lane[l]) < QueueSize
      /\ UNCHANGED <<panel, writer, cancelled, serving, drained, kind, outcome,
                     replied, closed, applied, bypassed>>
  BY DEF Enqueues, HasRoom, historyVars
<1>4. mutex \in {None, t} /\ writer # "none" /\ ~cancelled
  BY WriterAssumption DEF Enqueues, Serving, Inv, Lifecycle, Places, Place
<1>5. /\ Append(lane[l], t) \in Seq(Thread)
      /\ Len(Append(lane[l], t)) = Len(lane[l]) + 1
      /\ Distinct(Append(lane[l], t))
      /\ Members(Append(lane[l], t)) = Members(lane[l]) \cup {t}
  <2>1. t \notin Members(lane[l])
    BY <1>1, <1>2 DEF Queued, Members
  <2>q. QED
    BY <1>1, <2>1, SentIsLast
<1>6. /\ lane' \in [Lane -> Seq(Thread)] /\ lane'[l] = Append(lane[l], t)
      /\ \A m \in Lane : m # l => lane'[m] = lane[m]
  BY <1>1, <1>3, <1>5 DEF Inv, Types
<1>7. /\ Queued(l)' = Queued(l) \cup {t}
      /\ \A m \in Lane : m # l => Queued(m)' = Queued(m)
  BY <1>3, <1>5, <1>6 DEF Queued, Members
<1>8. Types'
  BY <1>1, <1>3, <1>6 DEF Inv, Types
<1>9. Flags'
  BY <1>3 DEF Inv, Flags
<1>10. Bounded'
  <2>1. Len(lane[l]) \in Nat
    BY <1>1
  <2>q. QED
    BY <1>3, <1>5, <1>6, <2>1, WriterAssumption DEF Inv, Bounded
<1>11. Lifecycle'
  BY <1>3, <1>4 DEF Inv, Lifecycle, Empty
<1>12. Places'
  <2>1. ASSUME NEW u \in Thread PROVE Place(u)'
    <3>1. Place(u) /\ kind[u] \in Lane
      BY DEF Inv, Places, Types
    <3>2. u \in Queued(kind[u]) \/ u = t => u \in Queued(kind[u])'
      BY <1>3, <1>7, <3>1
    <3>3. /\ mutex' # u /\ pc'[u] # "blocked"
          /\ pc'[u] = IF u = t THEN "waiting" ELSE pc[u]
      BY <1>3, <1>4, <3>1, WriterAssumption DEF Inv, Types, Place
    <3>q. QED
      BY <1>1, <1>3, <3>1, <3>2, <3>3 DEF Place
  <2>q. QED
    BY <2>1 DEF Places
<1>13. Queues'
  <2>1. \A m \in Lane : Distinct(lane'[m])
    BY <1>5, <1>6 DEF Inv, Queues
  <2>2. pc'[t] = "waiting" /\ \A u \in Thread : u # t => pc'[u] = pc[u]
    BY <1>3 DEF Inv, Types
  <2>q. QED
    BY <1>1, <1>3, <1>7, <2>1, <2>2, QueuedAreThreads DEF Inv, Queues
<1>14. Order'
  BY <1>1, <1>3, <1>7 DEF Inv, Order, Lane
<1>q. QED
  BY <1>8, <1>9, <1>10, <1>11, <1>12, <1>13, <1>14 DEF Inv

LEMMA SubmitterKeeps ==
  ASSUME Inv, NEW t \in Thread, GoesOn(t) \/ \E l \in Lane : Submit(t, l)
  PROVE  Inv'
<1> USE DEF submitVars, historyVars
<1>p. Place(t) /\ Types
  BY DEF Inv, Places
<1>1. ASSUME NEW l \in Lane, Submit(t, l) PROVE Inv'
  <2>1. Types'
    BY <1>p, <1>1 DEF Submit, Types
  <2>2. Place(t)'
    BY <1>p, <1>1 DEF Submit, Types, Place
  <2>q. QED
    BY <1>p, <1>1, <2>1, <2>2, AloneKeeps DEF Submit, Types
<1>2. CASE RunsInline(t)
  <2>1. Types'
    BY <1>p, <1>2 DEF RunsInline, Types
  <2>2. Place(t)'
    BY <1>p, <1>2 DEF RunsInline, Types, Place
  <2>q. QED
    BY <1>p, <1>2, <2>1, <2>2, AloneKeeps DEF RunsInline, Types
<1>3. CASE InlineDone(t)
  <2>0. applied' = [applied EXCEPT ![t] = 1]
    <3>1. pc[t] = "direct" /\ applied[t] = 0
      BY <1>p, <1>3 DEF InlineDone, Place
    <3>q. QED
      BY <1>3, <3>1 DEF InlineDone, OneMore
  <2>1. Types'
    BY <1>p, <1>3, <2>0 DEF InlineDone, Return, Types
  <2>2. Place(t)'
    BY <1>p, <1>3, <2>0 DEF InlineDone, Return, Types, Place
  <2>q. QED
    BY <1>p, <1>3, <2>0, <2>1, <2>2, AloneKeeps DEF InlineDone, Return, Types
<1>4. CASE BlocksOnFullLane(t)
  <2>1. Types'
    BY <1>p, <1>4 DEF BlocksOnFullLane, Types
  <2>2. Place(t)'
    BY <1>p, <1>4 DEF BlocksOnFullLane, Types, Place
  <2>q. QED
    BY <1>p, <1>4, <2>1, <2>2, AloneKeeps DEF BlocksOnFullLane, Serving, Types
<1>5. CASE TimesOut(t)
  <2>1. Types'
    BY <1>p, <1>5 DEF TimesOut, Return, Types
  <2>2. Place(t)'
    BY <1>p, <1>5, WriterAssumption DEF TimesOut, Return, Types, Place
  <2>q. QED
    BY <1>p, <1>5, <2>1, <2>2, AloneKeeps DEF TimesOut, Return, Types, Place
<1>6. CASE Answered(t) \/ SeesDone(t)
  <2>1. /\ pc[t] = "waiting" /\ t \in replied
        /\ pc' = [pc EXCEPT ![t] = "idle"]
        /\ outcome' = [outcome EXCEPT ![t] = "ok"]
        /\ replied' = replied \ {t} /\ closed' = closed \ {t}
        /\ UNCHANGED <<panel, writer, cancelled, lane, serving, drained, mutex,
                       kind, applied, bypassed>>
    BY <1>p, <1>6 DEF Answered, SeesDone, Return, Place
  <2>2. \A l \in Lane : t \notin Queued(l) /\ Queued(l)' = Queued(l)
    BY <2>1 DEF Inv, Queues, Queued
  <2>3. Types'
    BY <1>p, <2>1 DEF Types
  <2>4. Flags' /\ Bounded' /\ Lifecycle'
    BY <2>1 DEF Inv, Flags, Bounded, Lifecycle, Empty
  <2>5. ASSUME NEW u \in Thread PROVE Place(u)'
    <3>1. Place(u) /\ kind[u] \in Lane
      BY DEF Inv, Places, Types
    <3>2. Queued(kind[u])' = Queued(kind[u])
      BY <2>1 DEF Queued
    <3>3. /\ pc'[u] = IF u = t THEN "idle" ELSE pc[u]
          /\ outcome'[u] = IF u = t THEN "ok" ELSE outcome[u]
      BY <1>p, <2>1 DEF Types
    <3>q. QED
      BY <1>p, <2>1, <3>1, <3>2, <3>3 DEF Place
  <2>6. Queues' /\ Order'
    <3>1. \A u \in Thread : u # t => pc'[u] = pc[u]
      BY <1>p, <2>1 DEF Types
    <3>q. QED
      BY <1>p, <2>1, <2>2, <3>1, QueuedAreThreads DEF Inv, Queues, Order, Lane
  <2>q. QED
    BY <2>3, <2>4, <2>5, <2>6 DEF Inv, Places
<1>q. QED
  BY <1>1, <1>2, <1>3, <1>4, <1>5, <1>6, EnqueuesKeeps DEF GoesOn

----------------------------------------------------------------------------
(* The service                                                             *)

Seen(t) == IF pc[t] = "direct" THEN OneMore(applied[t]) ELSE applied[t]

Open    == {t \in Thread : pc[t] # "idle"}
Effects == [t \in Thread |-> Seen(t)]

\* What the callers see of a step that concerns one of them.
LEMMA OneCallsView ==
  ASSUME Types, Types', NEW t \in Thread,
         \A u \in Thread \ {t} : pc'[u] = pc[u] /\ applied'[u] = applied[u]
  PROVE  /\ pc[t] # "idle" <=> t \in Open
         /\ Open' = IF pc'[t] = "idle" THEN Open \ {t} ELSE Open \cup {t}
         /\ Effects[t] = Seen(t)
         /\ Effects' = [Effects EXCEPT ![t] = Seen(t)']
<1>1. \A u \in Thread \ {t} : Seen(u)' = Seen(u)
  BY DEF Seen
<1>2. Effects' = [Effects EXCEPT ![t] = Seen(t)']
  BY <1>1 DEF Effects
<1>q. QED
  BY <1>2 DEF Open, Effects

\* The service has the view of the callers for its state.
LEMMA ServiceView ==
  /\ Service!Init <=> /\ Open = {} /\ Effects = [t \in Thread |-> 0]
                      /\ outcome = [t \in Thread |-> "none"]
  /\ UNCHANGED Service!vars <=>
       Open' = Open /\ Effects' = Effects /\ outcome' = outcome
  /\ \A t : Service!Call(t) <=>
       /\ t \notin Open /\ Open' = Open \cup {t}
       /\ Effects' = [Effects EXCEPT ![t] = 0]
       /\ outcome' = [outcome EXCEPT ![t] = "none"]
  /\ \A t : Service!TakeEffect(t) <=>
       /\ t \in Open /\ Effects[t] = 0
       /\ Effects' = [Effects EXCEPT ![t] = 1]
       /\ Open' = Open /\ outcome' = outcome
  /\ \A t : Service!AnswerOk(t) <=>
       /\ Effects[t] = 1 /\ t \in Open /\ Open' = Open \ {t}
       /\ outcome' = [outcome EXCEPT ![t] = "ok"] /\ Effects' = Effects
  /\ \A t : Service!AnswerFull(t) <=>
       /\ Effects[t] = 0 /\ t \in Open /\ Open' = Open \ {t}
       /\ outcome' = [outcome EXCEPT ![t] = "full"] /\ Effects' = Effects
  BY Zenon DEF Service!Init, Service!vars, Service!Call, Service!TakeEffect,
     Service!AnswerOk, Service!AnswerFull, Service!Answer, Open, Effects, Seen

\* Each step of a submitter is one of the service, or none of its business.
LEMMA SubmitterServes ==
  ASSUME Inv, Inv', NEW t \in Thread, GoesOn(t) \/ \E l \in Lane : Submit(t, l)
  PROVE  [Service!Next]_(Service!vars)
<1> USE DEF submitVars, historyVars
<1>t. Types /\ Types' /\ Place(t)
  BY DEF Inv, Places
<1>v. ASSUME \A u \in Thread \ {t} : pc'[u] = pc[u] /\ applied'[u] = applied[u]
      PROVE  /\ pc[t] # "idle" <=> t \in Open
             /\ Open' = IF pc'[t] = "idle" THEN Open \ {t} ELSE Open \cup {t}
             /\ Effects[t] = Seen(t)
             /\ Effects' = [Effects EXCEPT ![t] = Seen(t)']
  BY <1>t, <1>v, OneCallsView
<1>e. ASSUME \A u \in Thread \ {t} : pc'[u] = pc[u] /\ applied'[u] = applied[u],
             Seen(t)' = Seen(t)
      PROVE  Effects' = Effects
  <2>1. Effects' = [Effects EXCEPT ![t] = Seen(t)']
    BY <1>e, <1>v
  <2>2. [Effects EXCEPT ![t] = Seen(t)] = Effects
    BY DEF Effects
  <2>q. QED
    BY <1>e, <2>1, <2>2
<1>1. ASSUME NEW l \in Lane, Submit(t, l) PROVE Service!Call(t)
  <2>1. /\ pc[t] = "idle" /\ pc'[t] = "call" /\ applied'[t] = 0
        /\ outcome' = [outcome EXCEPT ![t] = "none"]
        /\ \A u \in Thread \ {t} : pc'[u] = pc[u] /\ applied'[u] = applied[u]
    BY <1>t, <1>1 DEF Submit, Types
  <2>2. Seen(t)' = 0
    BY <2>1 DEF Seen
  <2>q. QED
    BY <1>v, <2>1, <2>2, ServiceView
<1>2. CASE RunsInline(t)
  <2>1. /\ pc[t] = "call" /\ pc'[t] = "direct"
        /\ applied[t] = 0 /\ applied'[t] = 0 /\ outcome' = outcome
        /\ \A u \in Thread \ {t} : pc'[u] = pc[u] /\ applied'[u] = applied[u]
    BY <1>t, <1>2 DEF RunsInline, Types, Place
  <2>2. Seen(t) = 0 /\ Seen(t)' = 1
    BY <2>1 DEF Seen, OneMore
  <2>3. Service!TakeEffect(t)
    BY <1>v, <2>1, <2>2, ServiceView
  <2>q. QED
    BY <2>3 DEF Service!Next
<1>3. CASE InlineDone(t)
  <2>1. /\ pc[t] = "direct" /\ pc'[t] = "idle"
        /\ applied[t] = 0 /\ applied'[t] = OneMore(0)
        /\ outcome' = [outcome EXCEPT ![t] = "ok"]
        /\ \A u \in Thread \ {t} : pc'[u] = pc[u] /\ applied'[u] = applied[u]
    BY <1>t, <1>3 DEF InlineDone, Return, Types, Place
  <2>2. Seen(t) = 1 /\ Seen(t)' = 1
    BY <2>1 DEF Seen, OneMore
  <2>3. Service!AnswerOk(t)
    BY <1>e, <1>v, <2>1, <2>2, ServiceView
  <2>q. QED
    BY <2>3 DEF Service!Next
<1>4. CASE Enqueues(t) \/ BlocksOnFullLane(t)
  <2>1. /\ pc[t] \in {"call", "blocked"} /\ pc'[t] \in {"blocked", "waiting"}
        /\ applied' = applied /\ outcome' = outcome
        /\ \A u \in Thread \ {t} : pc'[u] = pc[u] /\ applied'[u] = applied[u]
    BY <1>t, <1>4 DEF Enqueues, BlocksOnFullLane, Types
  <2>2. Seen(t)' = Seen(t)
    BY <2>1 DEF Seen
  <2>3. Open' = Open /\ Effects' = Effects /\ outcome' = outcome
    BY <1>e, <1>v, <2>1, <2>2
  <2>q. QED
    BY <2>3, ServiceView
<1>5. CASE TimesOut(t)
  <2>1. /\ pc[t] = "blocked" /\ pc'[t] = "idle"
        /\ applied[t] = 0 /\ applied'[t] = 0
        /\ outcome' = [outcome EXCEPT ![t] = "full"]
        /\ \A u \in Thread \ {t} : pc'[u] = pc[u] /\ applied'[u] = applied[u]
    BY <1>t, <1>5 DEF TimesOut, Return, Types, Place
  <2>2. Seen(t) = 0 /\ Seen(t)' = 0
    BY <2>1 DEF Seen
  <2>3. Service!AnswerFull(t)
    BY <1>e, <1>v, <2>1, <2>2, ServiceView
  <2>q. QED
    BY <2>3 DEF Service!Next
<1>6. CASE Answered(t) \/ SeesDone(t)
  <2>1. /\ pc[t] = "waiting" /\ t \in replied /\ applied[t] = 1
        /\ applied' = applied
        /\ outcome' = [outcome EXCEPT ![t] = "ok"]
        /\ pc' = [pc EXCEPT ![t] = "idle"]
    BY <1>t, <1>6 DEF Answered, SeesDone, Return, Place
  <2>2. /\ pc'[t] = "idle" /\ Seen(t) = 1 /\ Seen(t)' = 1
        /\ \A u \in Thread \ {t} : pc'[u] = pc[u] /\ applied'[u] = applied[u]
    BY <1>t, <2>1 DEF Types, Seen
  <2>3. Service!AnswerOk(t)
    BY <1>e, <1>v, <2>1, <2>2, ServiceView
  <2>q. QED
    BY <2>3 DEF Service!Next
<1>q. QED
  BY <1>1, <1>2, <1>3, <1>4, <1>5, <1>6 DEF GoesOn, Service!Next

\* The writer's part is to have a write take effect.
LEMMA WriterServes ==
  ASSUME Inv, Inv', WriterStep
  PROVE  [Service!Next]_(Service!vars)
<1> USE DEF submitVars, historyVars
<1>1. CASE Applies
  <2>1. PICK t \in Thread : t = serving
    BY <1>1, WriterAssumption DEF Inv, Applies, Types, Lifecycle
  <2>2. /\ pc[t] = "waiting" /\ applied[t] = 0
        /\ pc' = pc /\ outcome' = outcome
        /\ applied' = [applied EXCEPT ![t] = OneMore(@)]
    BY <1>1, <2>1 DEF Inv, Applies, Places, Place
  <2>3. /\ Types /\ Types' /\ applied'[t] = 1
        /\ \A u \in Thread \ {t} : pc'[u] = pc[u] /\ applied'[u] = applied[u]
    <3>1. Types /\ Types' /\ OneMore(0) = 1
      BY DEF Inv, OneMore
    <3>q. QED
      BY <2>2, <3>1 DEF Types
  <2>4. Seen(t) = 0 /\ Seen(t)' = 1
    BY <2>2, <2>3 DEF Seen
  <2>5. Open' = Open
    BY <2>2 DEF Open
  <2>6. /\ t \in Open /\ Effects[t] = 0
        /\ Effects' = [Effects EXCEPT ![t] = 1]
    BY <2>2, <2>3, <2>4, OneCallsView
  <2>7. Service!TakeEffect(t)
    BY <2>2, <2>5, <2>6, ServiceView
  <2>q. QED
    BY <2>7 DEF Service!Next
<1>2. CASE UNCHANGED <<pc, applied, outcome>>
  BY <1>2, ServiceView DEF Open, Effects, Seen
<1>3. Applies \/ UNCHANGED <<pc, applied, outcome>>
  BY DEF WriterStep, Selects, Blocks, DrainsAdmin, DrainsBg, Take, WriterGoesTo
<1>q. QED
  BY <1>1, <1>2, <1>3

----------------------------------------------------------------------------

LEMMA Invariant == Spec => []Inv
<1>1. Init => Inv
  <2>. SUFFICES ASSUME Init PROVE Inv
    OBVIOUS
  <2>1. \A l \in Lane : lane[l] = <<>> /\ Queued(l) = {} /\ Distinct(lane[l])
    BY DEF Init, Queued, Distinct
  <2>2. Types /\ Bounded
    BY <2>1, WriterAssumption DEF Init, Types, Bounded, Lane
  <2>3. Flags /\ Lifecycle
    BY <2>1, WriterAssumption DEF Init, Flags, Lifecycle, Empty
  <2>4. Places
    BY WriterAssumption DEF Init, Places, Place
  <2>5. Queues /\ Order
    BY <2>1 DEF Queues, Order, Lane
  <2>q. QED
    BY <2>2, <2>3, <2>4, <2>5 DEF Inv
<1>2. Inv /\ [Next]_vars => Inv'
  <2>1. Inv /\ UNCHANGED vars => Inv'
    BY DEF vars, submitVars, historyVars, Inv, Types, Flags, Bounded, Lifecycle,
       Empty, Places, Place, Queues, Queued, Order
  <2>q. QED
    BY <2>1, PanelKeeps, WriterKeeps, SubmitterKeeps DEF Next
<1>q. QED
  BY <1>1, <1>2, PTL DEF Spec

\* No lane ever holds more than its size, and every variable has its type.
THEOREM TypeCorrect == Spec => []TypeOK
<1>1. Inv => TypeOK
  BY DEF Inv, Types, Flags, Bounded, TypeOK
<1>q. QED
  BY <1>1, Invariant, PTL

\* A submit that returns the result had its write applied once, one that
\* returns "queue full" left none behind, and a stop of the writer drops no
\* write, for any number of submitters and any size of the queues.
THEOREM AnswersMatchWrites == Spec => []AnswersAreTrue
<1>1. Inv => AnswersAreTrue
  <2>. SUFFICES ASSUME Inv, NEW t \in Thread
                PROVE  /\ outcome[t] = "ok" => applied[t] = 1
                       /\ outcome[t] = "full" => /\ applied[t] = 0
                                                 /\ t \notin Queued(kind[t])
                                                 /\ serving # t
                       /\ outcome[t] # "stopped"
    BY DEF AnswersAreTrue
  <2>1. Place(t) /\ kind[t] \in Lane
    BY DEF Inv, Places, Types
  <2>2. outcome[t] = "full" => t \notin Queued(kind[t]) /\ serving # t
    BY <2>1 DEF Inv, Queues, Place
  <2>q. QED
    BY <2>1, <2>2 DEF Place
<1>q. QED
  BY <1>1, Invariant, PTL

\* At most one background write goes before an admin write that is queued.
THEOREM AdminIsNotStarved == Spec => []AdminGoesFirst
<1>1. Inv => AdminGoesFirst
  <2>. SUFFICES ASSUME Inv, ~cancelled, NEW t \in Queued("admin")
                PROVE  bypassed[t] <= 1
    BY DEF AdminGoesFirst
  <2>1. t \in Thread
    BY QueuedAreThreads DEF Inv, Lane
  <2>2. bypassed[t] <= IF writer = "block" THEN 0 ELSE 1
    BY DEF Inv, Order
  <2>3. bypassed[t] \in 0..2
    BY <2>1 DEF Inv, Types
  <2>q. QED
    BY <2>2, <2>3
<1>q. QED
  BY <1>1, Invariant, PTL

\* Who waits for a result has it, or there is a writer that holds the write
\* or has it in a lane; who waits for room in a lane (and keeps everybody else
\* out with twMu) waits for a writer that serves.
Attended(t) ==
  /\ pc[t] = "waiting" =>
       \/ t \in replied
       \/ serving = t /\ writer = "apply"
       \/ t \in Queued(kind[t]) /\ writer \notin {"none", "done"}
  /\ pc[t] = "blocked" => Serving /\ writer \in {"select", "block", "apply"}

\* The safe half of EverybodyReturns, for any number of submitters and across
\* starts and stops: nobody waits for a writer that is not there.
THEOREM NobodyWaitsForNothing == Spec => [](\A t \in Thread : Attended(t))
<1>1. Inv => \A t \in Thread : Attended(t)
  <2> SUFFICES ASSUME Inv, NEW t \in Thread
               PROVE  Attended(t)
    OBVIOUS
  <2>1. Place(t) /\ kind[t] \in Lane /\ t # None
    BY WriterAssumption DEF Inv, Places, Types
  <2>2. ASSUME pc[t] = "waiting", t \notin replied
        PROVE  \/ serving = t /\ writer = "apply"
               \/ t \in Queued(kind[t]) /\ writer \notin {"none", "done"}
    <3>1. serving = t => writer = "apply"
      BY <2>1 DEF Inv, Lifecycle
    <3>2. t \in Queued(kind[t]) => ~Empty(kind[t])
      BY DEF Queued, Empty
    <3>3. writer \in {"none", "done"} => Empty(kind[t])
      BY <2>1 DEF Inv, Lifecycle
    <3>q. QED
      BY <2>1, <2>2, <3>1, <3>2, <3>3 DEF Place
  <2>3. ASSUME pc[t] = "blocked"
        PROVE  Serving /\ writer \in {"select", "block", "apply"}
    <3>1. mutex = t
      BY <2>1, <2>3 DEF Place
    <3>q. QED
      BY <2>1, <3>1 DEF Inv, Types, Lifecycle, Serving
  <2>q. QED
    BY <2>2, <2>3 DEF Attended
<1>q. QED
  BY <1>1, Invariant, PTL

\* For any number of submitters and any size of the lanes the writer is the
\* service of WriteService: a write takes effect once and within its call, or
\* never if the answer is "queue full".  That a call whose write took effect
\* returns (the fairness of ServesWrites) is checked by TLC.
THEOREM WriterImplementsService == Spec => Service!SafeSpec
<1>1. Init => Service!Init
  <2> SUFFICES ASSUME Init PROVE Service!Init
    OBVIOUS
  <2>1. \A t \in Thread : pc[t] = "idle" /\ applied[t] = 0
    BY DEF Init
  <2>2. Open = {} /\ Effects = [t \in Thread |-> 0]
    BY <2>1 DEF Open, Effects, Seen
  <2>q. QED
    BY <2>2, ServiceView DEF Init
<1>2. Inv /\ Inv' /\ [Next]_vars => [Service!Next]_(Service!vars)
  <2> SUFFICES ASSUME Inv, Inv', [Next]_vars
               PROVE  [Service!Next]_(Service!vars)
    OBVIOUS
  <2>1. CASE UNCHANGED <<pc, applied, outcome>>
    BY <2>1, ServiceView DEF Open, Effects, Seen
  <2>2. CASE StartTrafficWriter \/ StopBegins \/ StopEnds \/ UNCHANGED vars
    <3>1. UNCHANGED <<pc, applied, outcome>>
      BY <2>2 DEF StartTrafficWriter, StopBegins, StopEnds, vars, submitVars,
         historyVars
    <3>q. QED
      BY <2>1, <3>1
  <2>q. QED
    BY <2>2, SubmitterServes, WriterServes DEF Next
<1>q. QED
  BY <1>1, <1>2, Invariant, PTL DEF Spec, Service!SafeSpec
=============================================================================
