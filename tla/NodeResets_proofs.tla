------------------------- MODULE NodeResets_proofs -------------------------
(***************************************************************************)
(* The safety properties of NodeResets, for any clients, quota and bounds. *)
(*                                                                         *)
(* No reset is lost because what the node accepted and nobody queued again *)
(* is carried out (Deliveries).  No old usage comes back because a total   *)
(* and what the next merge may add to it stay below the usage that is due  *)
(* (Counters).  A verdict is not from before the reset because a snapshot  *)
(* that could bring such a one meets a row or a dirty node, unless the     *)
(* reset was carried out while it was in flight (Verdicts).                *)
(* The rows of a node have one strict total order (Ordered), and it can be *)
(* listed (RowsExist): a client comes as late as there are rows before it. *)
(***************************************************************************)
EXTENDS NodeResets, FiniteSetTheorems, SequenceTheorems, TLAPS

\* The part of TypeOK that the arguments rest on: not the order of the rows.
Kinds ==
  /\ total \in [Email -> Nat] /\ cnt \in [Email -> Nat]
  /\ snapCnt \in [Email -> Nat]
  /\ due \in [Email -> Nat] /\ fresh \in [Email -> Nat]
  /\ baseline \in [Email -> Nat \cup {None}]

\* The verdicts; their proofs are Zenon's.
Flags == enabled \in [Email -> BOOLEAN]

\* The rest of TypeOK, but for the order: sets, sequences, bounds ...
Ranges ==
  /\ pending \subseteq Email /\ restore \subseteq Email
  /\ sent \subseteq Email /\ touched \subseteq Email /\ applied \subseteq Email
  /\ overtaken \subseteq Email
  /\ todo \in Seq(Email)
  /\ tick \in {"idle", "reconcile", "deliver", "fetch", "fetched"}
  /\ who \in {"none", "job", "goroutine"}
  /\ uses \in 0..MaxUse /\ resets \in 0..MaxResets /\ faults \in 0..MaxFaults

\* ... and switches.
Switches ==
  /\ dirty \in BOOLEAN /\ remarked \in BOOLEAN /\ pushed \in BOOLEAN
  /\ inline \in BOOLEAN /\ bulk \in BOOLEAN
  /\ on \in [Email -> BOOLEAN] /\ snapOn \in [Email -> BOOLEAN]

\* What was accepted and not queued again, the node has carried out.
Deliveries ==
  /\ Email \ applied \subseteq pending
  /\ sent \ touched \subseteq applied
  /\ who = "none" => sent = {} /\ todo = <<>>
  /\ who = "job" => tick = "deliver"

\* What a merge of counter c adds over baseline b.
Growth(c, b) == IF b # None /\ c > b THEN c - b ELSE 0

\* A total, what the snapshot in flight adds to it, and what was used since
\* that snapshot, do not exceed the usage that is due.
Counters ==
  \A e \in Email :
    IF InFlight
      THEN /\ total[e] + Growth(snapCnt[e], baseline[e]) + fresh[e] <= due[e]
           /\ cnt[e] <= snapCnt[e] + fresh[e]
      ELSE total[e] + Growth(cnt[e], baseline[e]) <= due[e]

\* A reset that the node owes, and no delivery is about to settle.
Owed(e) == e \in pending /\ e \notin sent \ touched

Verdicts ==
  /\ \A e \in applied : e \in Email => cnt[e] <= due[e]
  /\ InFlight /\ ~dirty =>
       \A e \in Email : snapCnt[e] <= due[e] \/ Owed(e) \/ e \in overtaken
  /\ OffByNewUsage

----------------------------------------------------------------------------
(* Types                                                                   *)

\* The node zeroes some counters, whichever; what is due stays.
LEMMA ZeroesAreCounters ==
  ASSUME Kinds, NEW es, NodeZeroes(es)
  PROVE  /\ cnt' \in [Email -> Nat]
         /\ \A e \in Email : cnt'[e] \in {0, cnt[e]}
         /\ applied \subseteq applied' /\ es \subseteq applied'
         /\ \A e \in applied' \cap Email : e \in applied \/ cnt'[e] = 0
         /\ due' = due /\ fresh' = fresh
  BY DEF Kinds, NodeZeroes

\* A request of a delivery, however it ends, does not touch the database.
LEMMA SendStep ==
  ASSUME Kinds, SendAccepted \/ SendFails \/ BulkFails
  PROVE  /\ cnt' \in [Email -> Nat]
         /\ \A e \in Email : cnt'[e] \in {0, cnt[e]}
         /\ applied \subseteq applied'
         /\ \A e \in applied' \cap Email : e \in applied \/ cnt'[e] = 0
         /\ UNCHANGED <<total, enabled, baseline, pending, dirty, due, fresh,
                        snapCnt, snapOn>>
<1> USE DEF dbVars, nodeVars, jobVars, deliverVars, histVars, countVars
<1>1. CASE \E es : NodeZeroes(es)
  <2>1. PICK es : NodeZeroes(es)
    BY <1>1
  <2>2. UNCHANGED <<total, enabled, baseline, pending, dirty, snapCnt, snapOn>>
    BY DEF SendAccepted, SendFails, BulkFails, Unlock
  <2>q. QED
    BY <2>1, <2>2, ZeroesAreCounters
<1>2. CASE UNCHANGED <<nodeVars, histVars>>
  <2>2. UNCHANGED <<total, enabled, baseline, pending, dirty, snapCnt, snapOn>>
    BY DEF SendAccepted, SendFails, BulkFails, Unlock
  <2>q. QED
    BY <1>2, <2>2 DEF Kinds
<1>3. (\E es : NodeZeroes(es)) \/ UNCHANGED <<nodeVars, histVars>>
  <2>1. CASE SendAccepted
    BY <2>1, Zenon DEF SendAccepted
  <2>2. CASE SendFails
    BY <2>2, Zenon DEF SendFails
  <2>3. CASE BulkFails
    BY <2>3, Zenon DEF BulkFails
  <2>q. QED
    BY <2>1, <2>2, <2>3
<1>q. QED
  BY <1>1, <1>2, <1>3

LEMMA KindsStep ==
  ASSUME Kinds, [Next]_vars
  PROVE  Kinds'
<1> USE NodeResetsAssumption DEF Kinds
<1> USE DEF dbVars, nodeVars, jobVars, deliverVars, histVars, countVars
<1>1. ASSUME NEW e \in Email, ResetClientTraffic(e) PROVE Kinds'
  BY <1>1 DEF ResetClientTraffic, Zero
<1>2. ASSUME NEW e \in Email, Restore(e) \/ Deplete(e) \/ NodeDepletes(e)
      PROVE  Kinds'
  BY <1>2 DEF Restore, Deplete, NodeDepletes
<1>3. ASSUME NEW e \in Email, Use(e) PROVE Kinds'
  BY <1>3 DEF Use
<1>4. ASSUME NEW es \in SUBSET Email, BulkResetTraffic(es) PROVE Kinds'
  BY <1>4 DEF BulkResetTraffic
<1>5. ASSUME NEW actor, StartDelivery(actor) PROVE Kinds'
  BY <1>5 DEF StartDelivery
<1>6. CASE EndDelivery
  BY <1>6 DEF EndDelivery, Unlock
<1>7. CASE SendAccepted \/ SendFails \/ BulkFails
  BY <1>7, SendStep
<1>10. ASSUME NEW e \in Email, Settle(e) PROVE Kinds'
  BY <1>10 DEF Settle
<1>11. CASE StartTick \/ Reconcile \/ FetchFails
  BY <1>11 DEF StartTick, Reconcile, FetchFails
<1>12. CASE FetchTrafficSnapshot
  BY <1>12 DEF FetchTrafficSnapshot
<1>13. CASE Merge
  <2>1. \A e \in Email : Delta(e) \in Nat
    BY DEF Delta
  <2>q. QED
    BY <1>13, <2>1 DEF Merge, NoSnapshot
<1>14. CASE Restart
  BY <1>14 DEF Restart, NoSnapshot
<1>u. CASE UNCHANGED vars
  BY <1>u DEF vars
<1>q. QED
  BY <1>1, <1>2, <1>3, <1>4, <1>5, <1>6, <1>7, <1>10, <1>11,
     <1>12, <1>13, <1>14, <1>u
  DEF Next, Deliver, Sync

LEMMA FlagsStep ==
  ASSUME Flags, [Next]_vars
  PROVE  Flags'
<1> USE DEF Flags
<1> USE DEF dbVars, nodeVars, jobVars, deliverVars, histVars, countVars
<1>1. ASSUME NEW e \in Email, ResetClientTraffic(e) PROVE Flags'
  BY <1>1, SMT DEF ResetClientTraffic, Zero
<1>2. ASSUME NEW e \in Email, Restore(e) PROVE Flags'
  BY <1>2, SMT DEF Restore
<1>3. ASSUME NEW e \in Email, Deplete(e) PROVE Flags'
  BY <1>3, SMT DEF Deplete
<1>4. ASSUME NEW es \in SUBSET Email, BulkResetTraffic(es) PROVE Flags'
  BY <1>4 DEF BulkResetTraffic
<1>5. CASE Merge
  BY <1>5 DEF Merge
<1>6. ASSUME NEW e \in Email, Use(e) \/ NodeDepletes(e) \/ Settle(e)
      PROVE  Flags'
  BY <1>6 DEF Use, NodeDepletes, Settle
<1>7. ASSUME NEW actor, StartDelivery(actor) PROVE Flags'
  BY <1>7 DEF StartDelivery
<1>8. CASE EndDelivery \/ SendAccepted \/ SendFails \/ BulkFails \/ Restart
  BY <1>8 DEF EndDelivery, SendAccepted, SendFails, BulkFails, Restart
<1>9. CASE StartTick \/ Reconcile \/ FetchTrafficSnapshot \/ FetchFails
  BY <1>9 DEF StartTick, Reconcile, FetchTrafficSnapshot, FetchFails
<1>u. CASE UNCHANGED vars
  BY <1>u DEF vars
<1>q. QED
  BY <1>1, <1>2, <1>3, <1>4, <1>5, <1>6, <1>7, <1>8, <1>9, <1>u
  DEF Next, Deliver, Sync

----------------------------------------------------------------------------
(* The order of the rows                                                   *)

\* The rows have an order: queued_at, and the ids within a statement.
Ordered ==
  /\ order \subseteq Email \X Email
  /\ \A d, e \in Email : <<d, e>> \in order <=> d # e /\ <<e, d>> \notin order
  /\ \A c, d, e \in Email :
       <<c, d>> \in order /\ <<d, e>> \in order => <<c, e>> \in order

\* An enumeration of a finite set is a sequence that has each member once.
LEMMA Enumeration ==
  ASSUME NEW S, IsFiniteSet(S), NEW s \in SetToSeqs(S)
  PROVE  /\ s \in Seq(S) /\ ToSet(s) = S
         /\ \A i, j \in DOMAIN s : i # j => s[i] # s[j]
         /\ DOMAIN s \subseteq Nat
<1> DEFINE D == 1..Cardinality(S)
<1>1. Cardinality(S) \in Nat
  BY FS_CardinalityType
<1>2. s \in [D -> S] /\ \A i, j \in D : i # j => s[i] # s[j]
  BY DEF SetToSeqs
<1>3. s \in Seq(S)
  BY <1>1, <1>2, SeqDef
<1>4. s \in Injection(D, S)
  BY <1>2 DEF Injection, IsInjective
<1>5. IsFiniteSet(D) /\ Cardinality(D) = Cardinality(S)
  BY <1>1, FS_Interval
<1>6. s \in Surjection(D, S)
  BY <1>4, <1>5, FS_Injection
<1>7. ToSet(s) = S
  BY <1>2, <1>6 DEF ToSet, Surjection
<1>q. QED
  BY <1>1, <1>2, <1>3, <1>7

\* The pairs of an enumeration are a strict total order of the set.
LEMMA EnumerationOrders ==
  ASSUME NEW S, IsFiniteSet(S), NEW s \in SetToSeqs(S)
  PROVE  /\ InOrder(s) \subseteq S \X S
         /\ \A d, e \in S :
              <<d, e>> \in InOrder(s) <=> d # e /\ <<e, d>> \notin InOrder(s)
         /\ \A c, d, e \in S :
              <<c, d>> \in InOrder(s) /\ <<d, e>> \in InOrder(s)
                => <<c, e>> \in InOrder(s)
<1>1. /\ ToSet(s) = S /\ DOMAIN s \subseteq Nat
      /\ \A i, j \in DOMAIN s : i # j => s[i] # s[j]
  BY Enumeration
<1>2. \A i, j \in DOMAIN s : <<s[i], s[j]>> \in InOrder(s) <=> i < j
  <2> SUFFICES ASSUME NEW i \in DOMAIN s, NEW j \in DOMAIN s
               PROVE  <<s[i], s[j]>> \in InOrder(s) <=> i < j
    OBVIOUS
  <2>1. <<s[i], s[j]>> \in ToSet(s) \X ToSet(s)
    BY DEF ToSet
  <2>2. (\E k, l \in DOMAIN s : k < l /\ <<s[i], s[j]>> = <<s[k], s[l]>>)
          <=> i < j
    BY <1>1
  <2>q. QED
    BY <2>1, <2>2 DEF InOrder
<1>3. \A e \in S : \E i \in DOMAIN s : e = s[i]
  BY <1>1 DEF ToSet
<1>4. InOrder(s) \subseteq S \X S
  BY <1>1 DEF InOrder
<1>5. ASSUME NEW d \in S, NEW e \in S
      PROVE  <<d, e>> \in InOrder(s) <=> d # e /\ <<e, d>> \notin InOrder(s)
  <2>1. PICK i \in DOMAIN s, j \in DOMAIN s : d = s[i] /\ e = s[j]
    BY <1>3
  <2>2. i \in Nat /\ j \in Nat /\ (d # e <=> i # j)
    BY <1>1, <2>1
  <2>q. QED
    BY <1>2, <2>1, <2>2
<1>6. ASSUME NEW c \in S, NEW d \in S, NEW e \in S,
             <<c, d>> \in InOrder(s), <<d, e>> \in InOrder(s)
      PROVE  <<c, e>> \in InOrder(s)
  <2>1. PICK i \in DOMAIN s, j \in DOMAIN s, k \in DOMAIN s :
               c = s[i] /\ d = s[j] /\ e = s[k]
    BY <1>3
  <2>2. i \in Nat /\ j \in Nat /\ k \in Nat
    BY <1>1
  <2>3. i < j /\ j < k
    BY <1>2, <1>6, <2>1
  <2>4. i < k
    BY <2>2, <2>3
  <2>q. QED
    BY <1>2, <2>1, <2>4
<1>q. QED
  BY <1>4, <1>5, <1>6

\* Clients that are queued now, in some order of their own, come last.
LEMMA QueuedLast ==
  ASSUME Ordered, NEW es \in SUBSET Email, NEW R, R \subseteq es \X es,
         \A d, e \in es : <<d, e>> \in R <=> d # e /\ <<e, d>> \notin R,
         \A c, d, e \in es :
           <<c, d>> \in R /\ <<d, e>> \in R => <<c, e>> \in R,
         order' = ToEnd(es) \cup R
  PROVE  Ordered'
<1>1. \A d, e \in Email :
        <<d, e>> \in order' <=>
          \/ d \notin es /\ e \in es
          \/ d \in es /\ e \in es /\ <<d, e>> \in R
          \/ d \notin es /\ e \notin es /\ <<d, e>> \in order
  BY DEF ToEnd, Ordered
<1>2. order' \subseteq Email \X Email
  BY DEF ToEnd, Ordered
<1>3. \A d, e \in Email :
        <<d, e>> \in order' <=> d # e /\ <<e, d>> \notin order'
  BY <1>1 DEF Ordered
<1>4. \A c, d, e \in Email :
        <<c, d>> \in order' /\ <<d, e>> \in order' => <<c, e>> \in order'
  BY <1>1 DEF Ordered
<1>q. QED
  BY <1>2, <1>3, <1>4 DEF Ordered

\* Whatever is queued, there are rows in that order for a delivery to read:
\* each client at the place given by how many are before it.
LEMMA RowsExist ==
  ASSUME Ordered, pending \subseteq Email
  PROVE  Rows # {}
<1> DEFINE Before(e) == {d \in pending : <<d, e>> \in order}
           D == 1..Cardinality(pending)
           place == [e \in pending |-> Cardinality(Before(e)) + 1]
<1>1. IsFiniteSet(pending) /\ Cardinality(pending) \in Nat
  BY NodeResetsAssumption, FS_Subset, FS_CardinalityType
<1>2. ASSUME NEW e \in pending
      PROVE  IsFiniteSet(Before(e)) /\ Cardinality(Before(e)) \in Nat
  BY <1>1, FS_Subset, FS_CardinalityType
<1>3. ASSUME NEW e \in pending
      PROVE  place[e] \in D
  <2>1. Before(e) \subseteq pending /\ e \in pending \ Before(e)
    BY DEF Ordered
  <2>2. Before(e) # pending
    BY <2>1
  <2>3. /\ Cardinality(Before(e)) <= Cardinality(pending)
        /\ Cardinality(Before(e)) # Cardinality(pending)
    BY <1>1, <2>1, <2>2, FS_Subset
  <2>4. /\ place[e] = Cardinality(Before(e)) + 1
        /\ Cardinality(Before(e)) \in Nat
    BY <1>2
  <2>5. place[e] \in Nat \ {0} /\ place[e] <= Cardinality(pending)
    BY <1>1, <2>3, <2>4
  <2>q. QED
    BY <1>1, <2>5
<1>4. ASSUME NEW d \in pending, NEW e \in pending, <<d, e>> \in order
      PROVE  place[d] < place[e]
  <2>1. Before(d) \subseteq Before(e)
    BY <1>4 DEF Ordered
  <2>2. d \in Before(e) /\ d \notin Before(d)
    BY <1>4 DEF Ordered
  <2>3. Before(d) # Before(e)
    BY <2>2
  <2>4. IsFiniteSet(Before(e))
    BY <1>2
  <2>5. /\ Cardinality(Before(d)) <= Cardinality(Before(e))
        /\ Cardinality(Before(d)) # Cardinality(Before(e))
    BY <2>1, <2>3, <2>4, FS_Subset
  <2>6. Cardinality(Before(d)) \in Nat /\ Cardinality(Before(e)) \in Nat
    BY <1>2
  <2>q. QED
    BY <2>5, <2>6
<1>5. D \subseteq Int
  BY <1>1
<1> HIDE DEF place, D
<1>6. place \in [pending -> D]
  BY <1>3 DEF place
<1>7. \A d, e \in pending : <<d, e>> \in order <=> place[d] < place[e]
  <2> SUFFICES ASSUME NEW d \in pending, NEW e \in pending
               PROVE  <<d, e>> \in order <=> place[d] < place[e]
    OBVIOUS
  <2>1. place[d] \in Int /\ place[e] \in Int
    BY <1>5, <1>6
  <2>2. <<d, e>> \in order \/ <<e, d>> \in order \/ d = e
    BY DEF Ordered
  <2>3. <<d, e>> \in order => place[d] < place[e]
    BY <1>4
  <2>4. <<e, d>> \in order => place[e] < place[d]
    BY <1>4
  <2>q. QED
    BY <2>1, <2>2, <2>3, <2>4
<1>8. \A d, e \in pending : place[d] = place[e] => d = e
  <2> SUFFICES ASSUME NEW d \in pending, NEW e \in pending,
                      place[d] = place[e], d # e
               PROVE  FALSE
    OBVIOUS
  <2>1. place[d] \in Int
    BY <1>5, <1>6
  <2>2. ~(place[d] < place[e]) /\ ~(place[e] < place[d])
    BY <2>1
  <2>3. <<d, e>> \in order \/ <<e, d>> \in order
    BY DEF Ordered
  <2>q. QED
    BY <1>7, <2>2, <2>3
<1>9. place \in Surjection(pending, D)
  <2>1. place \in Injection(pending, D)
    BY <1>6, <1>8 DEF Injection, IsInjective
  <2>2. IsFiniteSet(D) /\ Cardinality(D) = Cardinality(pending)
    BY <1>1, FS_Interval DEF D
  <2>q. QED
    BY <2>1, <2>2, FS_Injection
<1> DEFINE s == [i \in D |-> CHOOSE e \in pending : place[e] = i]
<1>10. \A i \in D : s[i] \in pending /\ place[s[i]] = i
  BY <1>9 DEF Surjection
<1>11. s \in [D -> pending]
  BY <1>10
<1>12. DOMAIN s = D
  OBVIOUS
<1> HIDE DEF s
<1>13. s \in SetToSeqs(pending)
  BY <1>10, <1>11 DEF SetToSeqs, D
<1>14. InOrder(s) \subseteq order
  <2> SUFFICES ASSUME NEW i \in D, NEW j \in D, i < j
               PROVE  <<s[i], s[j]>> \in order
    BY <1>12 DEF InOrder
  <2>q. QED
    BY <1>7, <1>10
<1>q. QED
  BY <1>13, <1>14 DEF Rows

LEMMA OrderedStep ==
  ASSUME Ordered, todo \in Seq(Email), [Next]_vars
  PROVE  Ordered'
<1> USE DEF dbVars, deliverVars
<1>0. ASSUME NEW e \in Email, order' = ToEnd({e}) PROVE Ordered'
  <2> DEFINE R == {}
  <2>1. {e} \in SUBSET Email /\ R \subseteq {e} \X {e}
    OBVIOUS
  <2>2. \A c, d \in {e} : <<c, d>> \in R <=> c # d /\ <<d, c>> \notin R
    OBVIOUS
  <2>3. \A b, c, d \in {e} :
          <<b, c>> \in R /\ <<c, d>> \in R => <<b, d>> \in R
    OBVIOUS
  <2>4. order' = ToEnd({e}) \cup R
    BY <1>0
  <2> HIDE DEF R
  <2>q. QED
    BY <2>1, <2>2, <2>3, <2>4, QueuedLast
<1>1. ASSUME NEW e \in Email, ResetClientTraffic(e) PROVE Ordered'
  BY <1>0, <1>1 DEF ResetClientTraffic, Queue
<1>2. ASSUME NEW es \in SUBSET Email, BulkResetTraffic(es) PROVE Ordered'
  <2>1. PICK ids \in SetToSeqs(es) : order' = ToEnd(es) \cup InOrder(ids)
    BY <1>2 DEF BulkResetTraffic
  <2>2. IsFiniteSet(es)
    BY NodeResetsAssumption, FS_Subset
  <2> DEFINE R == InOrder(ids)
  <2>3. /\ R \subseteq es \X es
        /\ \A d, e \in es : <<d, e>> \in R <=> d # e /\ <<e, d>> \notin R
        /\ \A c, d, e \in es :
             <<c, d>> \in R /\ <<d, e>> \in R => <<c, e>> \in R
    BY <2>1, <2>2, EnumerationOrders
  <2>4. order' = ToEnd(es) \cup R
    BY <2>1
  <2> HIDE DEF R
  <2>q. QED
    BY <2>3, <2>4, QueuedLast
<1>s. order' = order => Ordered'
  BY DEF Ordered
<1>3. CASE SendFails
  <2>1. Head(todo) \in Email
    BY <1>3, HeadTailProperties DEF SendFails
  <2>2. order' = order \/ order' = ToEnd({Head(todo)})
    BY <1>3, Zenon DEF SendFails, Bump
  <2>q. QED
    BY <1>0, <1>s, <2>1, <2>2
<1>4. ASSUME NEW e \in Email,
             Restore(e) \/ Deplete(e) \/ Use(e) \/ NodeDepletes(e) \/ Settle(e)
      PROVE  order' = order
  BY <1>4 DEF Restore, Deplete, Use, NodeDepletes, Settle
<1>5. ASSUME NEW actor, StartDelivery(actor) PROVE order' = order
  BY <1>5 DEF StartDelivery
<1>6. CASE EndDelivery \/ SendAccepted \/ BulkFails \/ Restart
  BY <1>6, <1>s DEF EndDelivery, SendAccepted, BulkFails, Restart
<1>7. CASE Sync
  BY <1>7, <1>s DEF Sync, StartTick, Reconcile, FetchTrafficSnapshot,
     FetchFails, Merge
<1>u. CASE UNCHANGED vars
  BY <1>u, <1>s DEF vars
<1>q. QED
  BY <1>1, <1>2, <1>3, <1>4, <1>5, <1>6, <1>7, <1>s, <1>u DEF Next, Deliver

LEMMA RangesStep ==
  ASSUME Ranges, [Next]_vars
  PROVE  Ranges'
<1> USE NodeResetsAssumption DEF Ranges, Fault
<1> USE DEF dbVars, nodeVars, jobVars, deliverVars, histVars, countVars
<1>1. ASSUME NEW e \in Email, ResetClientTraffic(e) PROVE Ranges'
  BY <1>1 DEF ResetClientTraffic, Zero, Queue
<1>2. ASSUME NEW es \in SUBSET Email, BulkResetTraffic(es) PROVE Ranges'
  BY <1>2 DEF BulkResetTraffic
<1>3. ASSUME NEW e \in Email, Restore(e) \/ Deplete(e) \/ NodeDepletes(e)
      PROVE  Ranges'
  BY <1>3 DEF Restore, Deplete, NodeDepletes
<1>4. ASSUME NEW e \in Email, Use(e) PROVE Ranges'
  BY <1>4 DEF Use
<1>5. ASSUME NEW actor \in {"job", "goroutine"}, StartDelivery(actor)
      PROVE  Ranges'
  <2>1. IsFiniteSet(pending) /\ todo' \in SetToSeqs(pending)
    BY <1>5, FS_Subset DEF StartDelivery, Rows
  <2>2. todo' \in Seq(Email)
    BY <2>1, Enumeration, SeqMonotonic
  <2>q. QED
    BY <1>5, <2>2 DEF StartDelivery
<1>e. <<>> \in Seq(Email)
  BY EmptySeq
<1>6. CASE EndDelivery
  BY <1>6, <1>e DEF EndDelivery, Unlock
<1>7. ASSUME todo # <<>>
      PROVE  /\ Head(todo) \in Email /\ Tail(todo) \in Seq(Email)
             /\ ToSet(todo) \subseteq Email
  BY <1>7, HeadTailProperties, ElementOfSeq DEF ToSet
<1>8. CASE SendAccepted
  BY <1>7, <1>8, <1>e DEF SendAccepted, NodeZeroes
<1>9. CASE SendFails
  <2>1. applied' \subseteq Email
    BY <1>7, <1>9 DEF SendFails, NodeZeroes
  <2>2. todo' \in Seq(Email) /\ sent' \subseteq Email /\ touched' \subseteq Email
    BY <1>7, <1>9, <1>e DEF SendFails, Unlock
  <2>3. /\ tick' \in {"idle", "reconcile", "deliver", "fetch", "fetched"}
        /\ who' \in {"none", "job", "goroutine"}
    BY <1>9 DEF SendFails, Unlock
  <2>4. /\ faults' \in 0..MaxFaults /\ uses' = uses /\ resets' = resets
        /\ pending' = pending /\ restore' = restore
    BY <1>9 DEF SendFails, NodeZeroes
  <2>5. overtaken' = overtaken
    BY <1>9 DEF SendFails
  <2>q. QED
    BY <2>1, <2>2, <2>3, <2>4, <2>5
<1>10. CASE BulkFails
  <2>1. applied' \subseteq Email
    BY <1>7, <1>10 DEF BulkFails, NodeZeroes
  <2>q. QED
    BY <1>10, <1>e, <2>1 DEF BulkFails, Unlock
<1>11. ASSUME NEW e \in Email, Settle(e) PROVE Ranges'
  BY <1>11 DEF Settle, Settled
<1>12. CASE StartTick
  BY <1>12 DEF StartTick
<1>13. CASE Reconcile
  BY <1>13 DEF Reconcile
<1>14. CASE FetchTrafficSnapshot \/ FetchFails
  BY <1>14 DEF FetchTrafficSnapshot, FetchFails
<1>15. CASE Merge
  BY <1>15 DEF Merge, NoSnapshot
<1>16. CASE Restart
  BY <1>16, <1>e DEF Restart, NoSnapshot
<1>u. CASE UNCHANGED vars
  BY <1>u DEF vars
<1>q. QED
  BY <1>1, <1>2, <1>3, <1>4, <1>5, <1>6, <1>8, <1>9, <1>10, <1>11, <1>12,
     <1>13, <1>14, <1>15, <1>16, <1>u
  DEF Next, Deliver, Sync

LEMMA SwitchesStep ==
  ASSUME Switches, Flags, [Next]_vars
  PROVE  Switches'
<1> USE DEF Switches
<1> USE DEF dbVars, nodeVars, jobVars, deliverVars, histVars, countVars
<1>z. ASSUME NEW es, NodeZeroes(es) PROVE on' \in [Email -> BOOLEAN]
  BY <1>z, Zenon DEF NodeZeroes
<1>1. ASSUME NEW e \in Email, ResetClientTraffic(e) PROVE Switches'
  BY <1>1, Zenon DEF ResetClientTraffic, MarkDirty
<1>2. ASSUME NEW es \in SUBSET Email, BulkResetTraffic(es) PROVE Switches'
  BY <1>2, Zenon DEF BulkResetTraffic
<1>3. ASSUME NEW e \in Email, Restore(e) \/ Deplete(e) PROVE Switches'
  BY <1>3, Zenon DEF Restore, Deplete, MarkDirty
<1>4. ASSUME NEW e \in Email, NodeDepletes(e) PROVE Switches'
  BY <1>4, SMT DEF NodeDepletes
<1>5. ASSUME NEW e \in Email, Use(e) \/ Settle(e) PROVE Switches'
  BY <1>5, Zenon DEF Use, Settle
<1>6. ASSUME NEW actor, StartDelivery(actor) PROVE Switches'
  <2>1. bulk' \in BOOLEAN
    BY <1>6, Zenon DEF StartDelivery
  <2>2. inline' \in BOOLEAN
    BY <1>6, Zenon DEF StartDelivery
  <2>q. QED
    BY <1>6, <2>1, <2>2, Zenon DEF StartDelivery
<1>7. CASE EndDelivery
  BY <1>7, Zenon DEF EndDelivery, Unlock
<1>8. CASE SendAccepted
  BY <1>8, <1>z, Zenon DEF SendAccepted
<1>9. CASE SendFails
  <2>1. on' \in [Email -> BOOLEAN]
    BY <1>9, <1>z, Zenon DEF SendFails
  <2>2. bulk' \in BOOLEAN /\ pushed' = pushed /\ snapOn' = snapOn
    BY <1>9, Zenon DEF SendFails, Unlock
  <2>q. QED
    BY <1>9, <2>1, <2>2, Zenon DEF SendFails
<1>10. CASE BulkFails
  <2>1. on' \in [Email -> BOOLEAN]
    BY <1>10, <1>z, Zenon DEF BulkFails
  <2>q. QED
    BY <1>10, <2>1, Zenon DEF BulkFails, Unlock
<1>11. CASE StartTick
  BY <1>11, Zenon DEF StartTick
<1>12. CASE Reconcile
  <2>1. on' \in [Email -> BOOLEAN]
    BY <1>12, Zenon DEF Reconcile, Flags
  <2>2. dirty' \in BOOLEAN /\ pushed' \in BOOLEAN
    BY <1>12, Zenon DEF Reconcile
  <2>q. QED
    BY <1>12, <2>1, <2>2, Zenon DEF Reconcile
<1>13. CASE FetchTrafficSnapshot \/ FetchFails
  BY <1>13, Zenon DEF FetchTrafficSnapshot, FetchFails
<1>14. CASE Merge \/ Restart
  BY <1>14, Zenon DEF Merge, Restart, NoSnapshot
<1>u. CASE UNCHANGED vars
  BY <1>u, Zenon DEF vars
<1>q. QED
  BY <1>1, <1>2, <1>3, <1>4, <1>5, <1>6, <1>7, <1>8, <1>9, <1>10, <1>11,
     <1>12, <1>13, <1>14, <1>u
  DEF Next, Deliver, Sync

----------------------------------------------------------------------------
(* The queue                                                               *)

LEMMA DeliveriesStep ==
  ASSUME Deliveries, [Next]_vars
  PROVE  Deliveries'
<1> USE DEF Deliveries
<1> USE DEF dbVars, nodeVars, jobVars, deliverVars, histVars, countVars
<1>1. ASSUME NEW e \in Email, ResetClientTraffic(e) PROVE Deliveries'
  BY <1>1 DEF ResetClientTraffic, Zero, Queue
<1>2. ASSUME NEW es \in SUBSET Email, BulkResetTraffic(es) PROVE Deliveries'
  BY <1>2 DEF BulkResetTraffic
<1>3. ASSUME NEW e \in Email, Settle(e) PROVE Deliveries'
  BY <1>3 DEF Settle, Settled
<1>4. ASSUME NEW actor \in {"job", "goroutine"}, StartDelivery(actor)
      PROVE  Deliveries'
  BY <1>4 DEF StartDelivery
<1>5. CASE EndDelivery
  BY <1>5 DEF EndDelivery, Unlock
<1>6. CASE SendAccepted
  <2>1. applied \subseteq applied' /\ sent' \subseteq applied'
    BY <1>6, Zenon DEF SendAccepted, NodeZeroes
  <2>q. QED
    BY <1>6, <2>1 DEF SendAccepted
<1>7. CASE SendFails
  <2>1. applied \subseteq applied'
    BY <1>7 DEF SendFails, NodeZeroes
  <2>2. sent' = {} /\ pending' = pending
    BY <1>7 DEF SendFails, Unlock
  <2>3. who' = "none" => todo' = <<>>
    BY <1>7 DEF SendFails, Unlock
  <2>4. who' = "job" => tick' = "deliver"
    BY <1>7 DEF SendFails, Unlock
  <2>q. QED
    BY <2>1, <2>2, <2>3, <2>4
<1>8. CASE BulkFails
  <2>1. applied \subseteq applied'
    BY <1>8 DEF BulkFails, NodeZeroes
  <2>q. QED
    BY <1>8, <2>1 DEF BulkFails, Unlock
<1>9. CASE Restart
  BY <1>9 DEF Restart
<1>10. ASSUME NEW e \in Email,
              Restore(e) \/ Deplete(e) \/ Use(e) \/ NodeDepletes(e)
       PROVE  Deliveries'
  BY <1>10 DEF Restore, Deplete, Use, NodeDepletes
<1>11. CASE Sync
  BY <1>11 DEF Sync, StartTick, Reconcile, FetchTrafficSnapshot, FetchFails,
     Merge, InFlight
<1>u. CASE UNCHANGED vars
  BY <1>u DEF vars
<1>q. QED
  BY <1>1, <1>2, <1>3, <1>4, <1>5, <1>6, <1>7, <1>8, <1>9, <1>10, <1>11, <1>u
  DEF Next, Deliver

----------------------------------------------------------------------------
(* The totals                                                              *)

LEMMA CountersStep ==
  ASSUME Kinds, Kinds', Deliveries, Counters, [Next]_vars
  PROVE  Counters'
<1> USE NodeResetsAssumption DEF Kinds, Counters, Growth, InFlight
<1> USE DEF dbVars, nodeVars, jobVars, deliverVars, histVars, countVars
<1>1. ASSUME NEW e \in Email, ResetClientTraffic(e) PROVE Counters'
  BY <1>1 DEF ResetClientTraffic, Zero
<1>2. ASSUME NEW es \in SUBSET Email, BulkResetTraffic(es) PROVE Counters'
  BY <1>2 DEF BulkResetTraffic
<1>3. ASSUME NEW e \in Email,
             Restore(e) \/ Deplete(e) \/ NodeDepletes(e) \/ Settle(e)
      PROVE  Counters'
  BY <1>3 DEF Restore, Deplete, NodeDepletes, Settle
<1>4. ASSUME NEW e \in Email, Use(e) PROVE Counters'
  BY <1>4 DEF Use
<1>5. ASSUME NEW actor, StartDelivery(actor) PROVE Counters'
  BY <1>5 DEF StartDelivery
<1>6. CASE EndDelivery
  BY <1>6 DEF EndDelivery, Unlock
<1>7. CASE SendAccepted \/ SendFails \/ BulkFails
  <2>1. InFlight' <=> InFlight
    BY <1>7 DEF SendAccepted, SendFails, BulkFails, Unlock, Deliveries
  <2>q. QED
    BY <1>7, <2>1, SendStep
<1>8. CASE StartTick \/ Reconcile \/ FetchFails
  BY <1>8 DEF StartTick, Reconcile, FetchFails
<1>9. CASE FetchTrafficSnapshot
  BY <1>9 DEF FetchTrafficSnapshot
<1>10. CASE Merge
  <2> SUFFICES ASSUME NEW e \in Email
               PROVE  total'[e] + Growth(cnt'[e], baseline'[e]) <= due'[e]
    BY <1>10 DEF Merge, NoSnapshot
  <2>1. /\ total'[e] = total[e] + Growth(snapCnt[e], baseline[e])
        /\ cnt'[e] = cnt[e] /\ due'[e] = due[e]
    BY <1>10 DEF Merge, Delta
  <2>2. \/ baseline'[e] = snapCnt[e]
        \/ baseline'[e] = baseline[e] /\ baseline[e] # None
             /\ snapCnt[e] < baseline[e]
    BY <1>10 DEF Merge
  <2>q. QED
    BY <1>10, <2>1, <2>2 DEF Merge
<1>11. CASE Restart
  <2> SUFFICES ASSUME NEW e \in Email
               PROVE  total[e] + Growth(cnt[e], baseline[e]) <= due[e]
    BY <1>11 DEF Restart, NoSnapshot
  <2>1. CASE InFlight
    BY <2>1
  <2>2. CASE ~InFlight
    BY <2>2
  <2>q. QED
    BY <2>1, <2>2
<1>u. CASE UNCHANGED vars
  BY <1>u DEF vars
<1>q. QED
  BY <1>1, <1>2, <1>3, <1>4, <1>5, <1>6, <1>7, <1>8, <1>9, <1>10, <1>11, <1>u
  DEF Next, Deliver, Sync

----------------------------------------------------------------------------
(* The verdicts                                                            *)

LEMMA CountersBound ==
  ASSUME Kinds, Counters
  PROVE  /\ \A e \in Email : total[e] <= due[e]
         /\ InFlight => \A e \in Email : total[e] + Delta(e) <= due[e]
  BY NodeResetsAssumption DEF Kinds, Counters, Growth, Delta

LEMMA VerdictsStep ==
  ASSUME Kinds, Kinds', Flags, Flags', Counters, Deliveries,
         Verdicts, [Next]_vars
  PROVE  Verdicts'
<1> USE NodeResetsAssumption
<1> USE DEF Kinds, Flags, Verdicts, Owed, OffByNewUsage, InFlight
<1> USE DEF dbVars, nodeVars, jobVars, deliverVars, histVars, countVars
<1>1. ASSUME NEW e \in Email, ResetClientTraffic(e) PROVE Verdicts'
  BY <1>1 DEF ResetClientTraffic, Zero, Queue, MarkDirty
<1>2. ASSUME NEW es \in SUBSET Email, BulkResetTraffic(es) PROVE Verdicts'
  BY <1>2 DEF BulkResetTraffic, Deliveries
<1>3. ASSUME NEW e \in Email, Deplete(e) PROVE Verdicts'
  BY <1>3, CountersBound DEF Deplete, MarkDirty
<1>4. ASSUME NEW e \in Email, Use(e) PROVE Verdicts'
  BY <1>4 DEF Use
<1>5. ASSUME NEW e \in Email, Restore(e) PROVE Verdicts'
  BY <1>5 DEF Restore, MarkDirty
<1>6. ASSUME NEW e \in Email, NodeDepletes(e) PROVE Verdicts'
  BY <1>6 DEF NodeDepletes
<1>7. ASSUME NEW e \in Email, Settle(e) PROVE Verdicts'
  BY <1>7 DEF Settle, Settled
<1>8. ASSUME NEW actor \in {"job", "goroutine"}, StartDelivery(actor)
      PROVE  Verdicts'
  BY <1>8 DEF StartDelivery, Deliveries
<1>9. CASE EndDelivery
  BY <1>9 DEF EndDelivery, Unlock
<1>10. CASE SendAccepted \/ SendFails \/ BulkFails
  <2>1. \A e \in applied' : e \in Email => cnt'[e] <= due'[e]
    BY <1>10, SendStep
  <2>2. InFlight' => InFlight
    BY <1>10 DEF SendAccepted, SendFails, BulkFails, Unlock
  <2>3. ASSUME InFlight', ~dirty'
        PROVE  \A e \in Email :
                 snapCnt'[e] <= due'[e] \/ Owed(e)' \/ e \in overtaken'
    <3>1. CASE SendAccepted
      <4>1. /\ overtaken' = overtaken \cup sent' /\ pending' = pending
            /\ touched' = touched /\ snapCnt' = snapCnt /\ due' = due
            /\ ~dirty
        BY <2>3, <2>2, <3>1, SendStep DEF SendAccepted
      <4>q. QED
        BY <2>2, <2>3, <3>1, <4>1
    <3>2. CASE SendFails \/ BulkFails
      <4>1. sent' = {} /\ pending' = pending /\ overtaken' = overtaken
        BY <3>2 DEF SendFails, BulkFails, Unlock
      <4>q. QED
        BY <2>3, <2>2, <3>2, <4>1, SendStep
    <3>q. QED
      BY <1>10, <3>1, <3>2
  <2>4. overtaken \subseteq overtaken'
    BY <1>10 DEF SendAccepted, SendFails, BulkFails
  <2>q. QED
    BY <1>10, <2>1, <2>3, <2>4, SendStep
<1>11. CASE StartTick \/ Reconcile \/ FetchFails
  BY <1>11 DEF StartTick, Reconcile, FetchFails
<1>12. CASE FetchTrafficSnapshot
  BY <1>12 DEF FetchTrafficSnapshot, Deliveries
<1>13. CASE Merge
  BY <1>13, CountersBound DEF Merge, ClientFrozen, Stale, NoSnapshot
<1>14. CASE Restart
  BY <1>14 DEF Restart, NoSnapshot
<1>u. CASE UNCHANGED vars
  BY <1>u DEF vars
<1>q. QED
  BY <1>1, <1>2, <1>3, <1>4, <1>5, <1>6, <1>7, <1>8, <1>9, <1>10, <1>11,
     <1>12, <1>13, <1>14, <1>u
  DEF Next, Deliver, Sync

----------------------------------------------------------------------------
(* The theorems                                                            *)

\* The rows are clients, in an order.
LEMMA Queues == Spec => [](Ordered /\ Ranges)
<1>1. Init => Ordered
  BY NodeResetsAssumption, EnumerationOrders DEF Init, Ordered
<1>2. Init => Ranges
  BY NodeResetsAssumption, EmptySeq DEF Init, Ranges
<1>3. Ordered /\ Ranges /\ [Next]_vars => (Ordered /\ Ranges)'
  <2>1. Ordered /\ Ranges /\ [Next]_vars => Ordered'
    BY OrderedStep DEF Ranges
  <2>q. QED
    BY <2>1, RangesStep
<1>q. QED
  BY <1>1, <1>2, <1>3, PTL DEF Spec

\* Every variable has its type, for any clients and any length of a run.
THEOREM TypeCorrect == Spec => []TypeOK
<1>1. Init => Kinds /\ Flags
  BY DEF Init, Kinds, Flags
<1>2. Init => Switches
  BY Zenon DEF Init, Switches
<1>3. Kinds /\ Flags /\ Switches /\ [Next]_vars => (Kinds /\ Flags /\ Switches)'
  BY KindsStep, FlagsStep, SwitchesStep
<1>4. Kinds /\ Flags /\ Switches /\ Ordered /\ Ranges => TypeOK
  BY Zenon DEF Kinds, Flags, Switches, Ordered, Ranges, TypeOK
<1>q. QED
  BY <1>1, <1>2, <1>3, <1>4, Queues, PTL DEF Spec

\* However clients are queued, queued again and moved back, their rows have
\* one order, oldest first, and a delivery finds the rows in it.
THEOREM QueueIsOrdered == Spec => [](Ordered /\ Rows # {})
<1>1. Ordered /\ Ranges => Rows # {}
  BY RowsExist DEF Ranges
<1>q. QED
  BY <1>1, Queues, PTL

\* A reset that the node has not carried out is still queued, whoever
\* delivers, whatever is lost, and however often the panel dies.
THEOREM ResetsAreKept == Spec => []NoResetLost
<1>1. Init => Deliveries
  BY DEF Init, Deliveries
<1>2. Deliveries => NoResetLost
  BY DEF Deliveries, NoResetLost
<1>q. QED
  BY <1>1, <1>2, DeliveriesStep, PTL DEF Spec

\* The four parts hold throughout.
LEMMA Accounts == Spec => [](Kinds /\ Flags /\ Deliveries /\ Counters)
<1>1. Init => Kinds /\ Flags /\ Deliveries
  BY DEF Init, Kinds, Flags, Deliveries
<1>2. Init => Counters
  BY DEF Init, Counters, Growth, InFlight
<1>3. Kinds /\ Flags /\ Deliveries /\ Counters /\ [Next]_vars
        => (Kinds /\ Flags /\ Deliveries /\ Counters)'
  BY KindsStep, FlagsStep, DeliveriesStep, CountersStep
<1>q. QED
  BY <1>1, <1>2, <1>3, PTL DEF Spec

\* No merge brings usage from before a reset back into the total, whatever
\* the node has zeroed and the snapshot in flight says.
THEOREM OldUsageStaysOut == Spec => []NoOldUsage
<1>1. Kinds /\ Counters => NoOldUsage
  BY CountersBound DEF NoOldUsage
<1>q. QED
  BY <1>1, Accounts, PTL

\* A client is off only by usage since its reset, however resets, deliveries,
\* snapshots and restarts interleave, unless the node accepted its reset, by
\* a delivery that nothing had marked the node for, while a snapshot from
\* before was in flight.
THEOREM VerdictsAreNew == Spec => []OffByNewUsage
<1>1. Init => Verdicts
  BY NodeResetsAssumption
  DEF Init, Verdicts, OffByNewUsage, InFlight
<1>2. Kinds /\ Flags /\ Counters /\ Deliveries /\ Verdicts /\ [Next]_vars
        => Verdicts'
  BY KindsStep, FlagsStep, VerdictsStep
<1>3. Verdicts => OffByNewUsage
  BY DEF Verdicts
<1>q. QED
  BY <1>1, <1>2, <1>3, Accounts, PTL DEF Spec
=============================================================================
