----------------------------- MODULE NodeResets -----------------------------
(***************************************************************************)
(* Resets of the traffic of clients that a stock node hosts                *)
(* (internal/web/service/node_reset_queue.go, the merge of node snapshots  *)
(* in inbound_node.go, and syncOne of node_traffic_sync_job.go).           *)
(*                                                                         *)
(* The node counts the usage of its clients and switches a client off at   *)
(* its quota; the sync job fetches the counters and folds what they grew   *)
(* by into the panel's totals.  A reset zeroes the total and queues a row  *)
(* that asks the node to zero its counter.  The job and, right after a     *)
(* reset, a goroutine deliver the rows; a row goes only when the node      *)
(* accepted it and nothing queued it again meanwhile.  Snapshots taken     *)
(* before a reset are merged after it, answers are lost, the panel         *)
(* restarts, and a client's reset may be refused each time.                *)
(*                                                                         *)
(* One node and the clients it hosts.  The rows are a set and the order of *)
(* their queued_at and ids; that a row was queued again since it was read  *)
(* (queued_at differs) is membership of touched.                           *)
(***************************************************************************)
EXTENDS Integers, Sequences, SequencesExt

CONSTANTS
  Email,
  Refusing,  \* clients whose reset the node never accepts one by one
  None,      \* no baseline
  Limit,     \* every client's quota
  MaxUse, MaxResets, MaxFaults  \* bounds

ASSUME NodeResetsAssumption ==
  /\ IsFiniteSet(Email) /\ Refusing \subseteq Email
  /\ None \notin Int
  /\ Limit \in Nat \ {0}
  /\ MaxUse \in Nat /\ MaxResets \in Nat /\ MaxFaults \in Nat

VARIABLES
  total,     \* client_traffics.up + down, per client
  enabled,   \* client_traffics.enable
  baseline,  \* node_client_traffics: the counters at the last merge
  pending,   \* the rows of node_pending_resets
  order,     \* pairs of clients, the older row first
  dirty,     \* nodes.config_dirty
  remarked,  \* config_dirty_at moved since a tick read it to reconcile
  restore,   \* clients that an unmarked reset still has to enable by an edit
  cnt, on,   \* the node: its counters, and its verdicts
  tick,      \* where the sync job stands
  pushed,    \* justPushed
  snapCnt, snapOn,  \* the snapshot in flight
  inline,    \* a goroutine of deliverNodeResetsNow is to run
  who,       \* who holds the delivery lock: the job, a goroutine, no one
  todo,      \* the rows that delivery read and has not tried
  sent,      \* what the node accepted and is not settled
  bulk,      \* the delivery goes over the bulk request
  touched,   \* clients whose row was queued since the delivery read it
  applied,   \* history: the node zeroed the client since its last reset
  due,       \* history: usage since the last reset, and before it since the
             \* fetch of the snapshot that was in flight
  fresh,     \* history: usage since the fetch of the snapshot in flight
  overtaken, \* history: clients whose reset the node accepted while an older
             \* snapshot of it was in flight, and nothing had marked the node:
             \* until that snapshot is merged, and then while they are off
  uses, resets, faults

dbVars      == <<total, enabled, baseline, pending, order, dirty, remarked>>
nodeVars    == <<cnt, on>>
jobVars     == <<tick, pushed, snapCnt, snapOn>>
deliverVars == <<who, todo, sent, bulk, touched>>
histVars    == <<applied, due, fresh, overtaken>>
countVars   == <<uses, resets, faults>>

vars == <<dbVars, restore, nodeVars, jobVars, inline, deliverVars, histVars,
          countVars>>

InFlight == tick = "fetched"

TypeOK ==
  /\ total \in [Email -> Nat]
  /\ enabled \in [Email -> BOOLEAN]
  /\ baseline \in [Email -> Nat \cup {None}]
  /\ pending \subseteq Email
  /\ order \subseteq Email \X Email
  /\ dirty \in BOOLEAN /\ remarked \in BOOLEAN
  /\ restore \subseteq Email
  /\ cnt \in [Email -> Nat] /\ on \in [Email -> BOOLEAN]
  /\ tick \in {"idle", "reconcile", "deliver", "fetch", "fetched"}
  /\ pushed \in BOOLEAN
  /\ snapCnt \in [Email -> Nat] /\ snapOn \in [Email -> BOOLEAN]
  /\ inline \in BOOLEAN
  /\ who \in {"none", "job", "goroutine"}
  /\ todo \in Seq(Email) /\ sent \subseteq Email /\ bulk \in BOOLEAN
  /\ touched \subseteq Email
  /\ applied \subseteq Email /\ overtaken \subseteq Email
  /\ due \in [Email -> Nat] /\ fresh \in [Email -> Nat]
  /\ uses \in 0..MaxUse /\ resets \in 0..MaxResets /\ faults \in 0..MaxFaults

\* The pairs of a sequence, in its order.
InOrder(s) == {p \in ToSet(s) \X ToSet(s) :
                 \E i, j \in DOMAIN s : i < j /\ p = <<s[i], s[j]>>}

\* Adopted clients that have used nothing yet.
Init ==
  /\ total = [e \in Email |-> 0] /\ enabled = [e \in Email |-> TRUE]
  /\ baseline = [e \in Email |-> 0]
  /\ pending = {} /\ (\E s \in SetToSeqs(Email) : order = InOrder(s))
  /\ dirty = FALSE /\ remarked = FALSE /\ restore = {}
  /\ cnt = [e \in Email |-> 0] /\ on = [e \in Email |-> TRUE]
  /\ tick = "idle" /\ pushed = FALSE
  /\ snapCnt = [e \in Email |-> 0] /\ snapOn = [e \in Email |-> TRUE]
  /\ inline = FALSE
  /\ who = "none" /\ todo = <<>> /\ sent = {} /\ bulk = FALSE /\ touched = {}
  /\ applied = Email /\ overtaken = {}
  /\ due = [e \in Email |-> 0] /\ fresh = [e \in Email |-> 0]
  /\ uses = 0 /\ resets = 0 /\ faults = 0

----------------------------------------------------------------------------
(* Helpers                                                                 *)

Fault == faults < MaxFaults /\ faults' = faults + 1 /\ UNCHANGED <<uses, resets>>

\* The order after clients were queued now.
ToEnd(es) == {p \in order : p[1] \notin es} \cup ((Email \ es) \X es)

\* The rows, oldest first.
Rows == {s \in SetToSeqs(pending) : InOrder(s) \subseteq order}

\* The tick is over, and its snapshot with it.
NoSnapshot ==
  /\ tick' = "idle" /\ pushed' = FALSE
  /\ snapCnt' = [e \in Email |-> 0] /\ snapOn' = [e \in Email |-> TRUE]
  /\ fresh' = [e \in Email |-> 0]

\* MarkNodeDirty
MarkDirty == dirty' = TRUE /\ remarked' = (tick = "reconcile")

----------------------------------------------------------------------------
(* Resets: one transaction of the serial writer                            *)

\* Mutant: queueing again does not renew queued_at.
QueueOnce(e) ==
  /\ pending' = pending \cup {e}
  /\ order' = IF e \in pending THEN order ELSE ToEnd({e})
  /\ UNCHANGED touched

\* What a reset queues: queueNodeResets, a row per client or a new queued_at.
Queue(e) ==
  /\ pending' = pending \cup {e}
  /\ order' = ToEnd({e})
  /\ touched' = IF who = "none" THEN touched ELSE touched \cup {e}

\* Mutant: a reset keeps the node's baseline.
ZeroKeepsBaseline(e) ==
  /\ total' = [total EXCEPT ![e] = 0]
  /\ enabled' = [enabled EXCEPT ![e] = TRUE]
  /\ UNCHANGED baseline
  /\ applied' = applied \ {e} /\ overtaken' = overtaken \ {e}
  /\ due' = [due EXCEPT ![e] = IF InFlight THEN fresh[e] ELSE 0]
  /\ UNCHANGED fresh

\* The counters, the verdict and the baseline of the client start anew.
Zero(e) ==
  /\ total' = [total EXCEPT ![e] = 0]
  /\ enabled' = [enabled EXCEPT ![e] = TRUE]
  /\ baseline' = [baseline EXCEPT ![e] = None]
  /\ applied' = applied \ {e} /\ overtaken' = overtaken \ {e}
  /\ due' = [due EXCEPT ![e] = IF InFlight THEN fresh[e] ELSE 0]
  /\ UNCHANGED fresh

\* resetClientTrafficLocked
ResetClientTraffic(e) ==
  /\ resets < MaxResets /\ resets' = resets + 1
  /\ Zero(e) /\ Queue(e)
  /\ MarkDirty
  /\ inline' = TRUE
  /\ UNCHANGED <<restore, nodeVars, jobVars, who, todo, sent, bulk, uses, faults>>

\* BulkResetTraffic, ResetAllClientTraffics, ResetAllTraffics: the clients
\* that the quota had switched off are enabled by an edit afterwards.  The
\* rows of one statement have one queued_at, and go by their ids.
BulkResetTraffic(es) ==
  /\ resets < MaxResets /\ resets' = resets + 1
  /\ total' = [e \in Email |-> IF e \in es THEN 0 ELSE total[e]]
  /\ enabled' = [e \in Email |-> e \in es \/ enabled[e]]
  /\ baseline' = [e \in Email |-> IF e \in es THEN None ELSE baseline[e]]
  /\ pending' = pending \cup es
  /\ \E ids \in SetToSeqs(es) : order' = ToEnd(es) \cup InOrder(ids)
  /\ touched' = IF who = "none" THEN touched ELSE touched \cup es
  /\ restore' = restore \cup {e \in es : ~enabled[e]}
  /\ inline' = TRUE
  /\ applied' = applied \ es /\ overtaken' = overtaken \ es
  /\ due' = [e \in Email |-> IF e \notin es THEN due[e]
                             ELSE IF InFlight THEN fresh[e] ELSE 0]
  /\ UNCHANGED <<dirty, remarked, nodeVars, jobVars, who, todo, sent, bulk,
                 fresh, uses, faults>>

\* The edit that enables a client after the reset: it marks the node.
Restore(e) ==
  /\ e \in restore
  /\ restore' = restore \ {e}
  /\ enabled' = [enabled EXCEPT ![e] = TRUE]
  /\ overtaken' = overtaken \ {e}
  /\ MarkDirty
  /\ UNCHANGED <<total, baseline, pending, order, nodeVars, jobVars, inline,
                 deliverVars, applied, due, fresh, countVars>>

\* disableInvalidClients: the panel's own total reaches the quota.
Deplete(e) ==
  /\ enabled[e] /\ total[e] >= Limit
  /\ enabled' = [enabled EXCEPT ![e] = FALSE]
  /\ MarkDirty
  /\ UNCHANGED <<total, baseline, pending, order, restore, nodeVars, jobVars,
                 inline, deliverVars, histVars, countVars>>

----------------------------------------------------------------------------
(* The node                                                                *)

Use(e) ==
  /\ uses < MaxUse /\ uses' = uses + 1
  /\ on[e]
  /\ cnt' = [cnt EXCEPT ![e] = @ + 1]
  /\ due' = [due EXCEPT ![e] = @ + 1]
  /\ fresh' = [fresh EXCEPT ![e] = IF InFlight THEN @ + 1 ELSE @]
  /\ UNCHANGED <<dbVars, restore, on, jobVars, inline, deliverVars, applied,
                 overtaken, resets, faults>>

\* The node's own counter reaches the quota.
NodeDepletes(e) ==
  /\ on[e] /\ cnt[e] >= Limit
  /\ on' = [on EXCEPT ![e] = FALSE]
  /\ UNCHANGED <<dbVars, restore, cnt, jobVars, inline, deliverVars, histVars,
                 countVars>>

\* The node zeroes the counters of clients and enables them.
NodeZeroes(es) ==
  /\ cnt' = [e \in Email |-> IF e \in es THEN 0 ELSE cnt[e]]
  /\ on' = [e \in Email |-> e \in es \/ on[e]]
  /\ applied' = applied \cup es
  /\ UNCHANGED <<due, fresh>>

----------------------------------------------------------------------------
(* DeliverNodeResets, under the node's delivery lock                       *)

\* A delivery reads the rows, oldest first, and takes the bulk request or not.
StartDelivery(actor) ==
  /\ who = "none"
  /\ IF actor = "job" THEN tick = "deliver" /\ UNCHANGED inline
                      ELSE inline /\ inline' = FALSE
  /\ who' = actor
  /\ todo' \in Rows
  /\ bulk' \in IF Len(todo') > 1 THEN BOOLEAN ELSE {FALSE}
  /\ sent' = {} /\ touched' = {}
  /\ UNCHANGED <<dbVars, restore, nodeVars, jobVars, histVars, countVars>>

Unlock ==
  /\ who' = "none" /\ todo' = <<>> /\ sent' = {} /\ bulk' = FALSE /\ touched' = {}
  /\ tick' = IF who = "job" THEN "fetch" ELSE tick
  /\ UNCHANGED <<pushed, snapCnt, snapOn>>

EndDelivery ==
  /\ who # "none" /\ todo = <<>> /\ sent = {}
  /\ Unlock
  /\ UNCHANGED <<dbVars, restore, nodeVars, inline, histVars, countVars>>

\* One request, for the first row or for all: the node accepts it.
SendAccepted ==
  /\ todo # <<>> /\ sent = {}
  /\ bulk \/ Head(todo) \notin Refusing
  /\ sent' = IF bulk THEN ToSet(todo) ELSE {Head(todo)}
  /\ todo' = IF bulk THEN <<>> ELSE Tail(todo)
  /\ NodeZeroes(sent')
  /\ overtaken' = overtaken \cup IF InFlight /\ ~dirty THEN sent' ELSE {}
  /\ UNCHANGED <<dbVars, restore, jobVars, inline, who, bulk, touched,
                 countVars>>

\* Mutant: a row that failed keeps its place.
NoBump(e) == e \in Email /\ UNCHANGED order

\* To the back of the queue, unless it was queued again meanwhile.
Bump(e) == order' = IF e \in touched THEN order ELSE ToEnd({e})

\* A single request fails: it is lost, its answer is lost, or the node
\* refuses it.  The rest goes on, unless the time of the delivery is up.
SendFails ==
  /\ todo # <<>> /\ sent = {} /\ ~bulk
  /\ Bump(Head(todo))
  /\ \/ /\ Head(todo) \in Refusing
        /\ UNCHANGED <<nodeVars, histVars, countVars>>
     \/ /\ Fault
        /\ UNCHANGED <<nodeVars, histVars>>
     \/ /\ Fault
        /\ NodeZeroes({Head(todo)}) /\ UNCHANGED overtaken
  /\ \/ /\ todo' = Tail(todo)
        /\ UNCHANGED <<who, sent, bulk, touched, jobVars>>
     \/ Unlock
  /\ UNCHANGED <<total, enabled, baseline, pending, dirty, remarked, restore,
                 inline>>

\* The bulk request fails: the delivery ends and every row stays.
BulkFails ==
  /\ todo # <<>> /\ bulk
  /\ Fault
  /\ \/ UNCHANGED <<nodeVars, histVars>>
     \/ NodeZeroes(ToSet(todo)) /\ UNCHANGED overtaken
  /\ Unlock
  /\ UNCHANGED <<dbVars, restore, inline>>

\* Mutant: the row goes whatever was queued since.
SettleAnyway(e) == pending \ {e}

\* settleNodeReset: a row that was queued again stays.
Settled(e) == IF e \in touched THEN pending ELSE pending \ {e}

Settle(e) ==
  /\ e \in sent
  /\ pending' = Settled(e)
  /\ sent' = sent \ {e}
  /\ UNCHANGED <<total, enabled, baseline, order, dirty, remarked, restore,
                 nodeVars, jobVars, inline, who, todo, bulk, touched, histVars,
                 countVars>>

----------------------------------------------------------------------------
(* syncOne                                                                 *)

StartTick ==
  /\ tick = "idle"
  /\ tick' = IF dirty THEN "reconcile" ELSE "deliver"
  /\ pushed' = FALSE
  /\ UNCHANGED <<dbVars, restore, nodeVars, snapCnt, snapOn, inline, deliverVars, histVars,
                 countVars>>

\* ReconcileNode pushes the panel's verdicts; ClearNodeDirty leaves a node
\* that was marked again dirty.
Reconcile ==
  /\ tick = "reconcile"
  /\ tick' = "deliver" /\ remarked' = FALSE
  /\ \/ /\ on' = enabled
        /\ dirty' = remarked
        /\ pushed' = TRUE
        /\ UNCHANGED countVars
     \/ /\ Fault
        /\ UNCHANGED <<on, dirty, pushed>>
  /\ UNCHANGED <<total, enabled, baseline, pending, order, restore,
                 cnt, snapCnt, snapOn, inline, deliverVars, histVars>>

FetchTrafficSnapshot ==
  /\ tick = "fetch"
  /\ tick' = "fetched"
  /\ snapCnt' = cnt /\ snapOn' = on
  /\ fresh' = [e \in Email |-> 0]
  /\ UNCHANGED <<dbVars, restore, nodeVars, pushed, inline, deliverVars,
                 applied, due, overtaken, countVars>>

FetchFails ==
  /\ tick = "fetch"
  /\ Fault
  /\ tick' = "idle"
  /\ UNCHANGED <<dbVars, restore, nodeVars, pushed, snapCnt, snapOn, inline,
                 deliverVars, histVars>>

\* Mutant: a reset that the node still owes does not freeze the verdict.
FrozenByPushOnly(e) == e \in Email /\ (dirty \/ pushed)

\* Whether the node's word on a client is not to be taken this time.
ClientFrozen(e) == dirty \/ pushed \/ e \in pending

\* Mutant: a counter that went down is taken as it is.
RawDelta(e) == IF baseline[e] # None THEN snapCnt[e] - baseline[e] ELSE 0

Delta(e) ==
  IF baseline[e] # None /\ snapCnt[e] > baseline[e]
    THEN snapCnt[e] - baseline[e] ELSE 0

\* nodeDisableIsStale: by the panel's limits the client may go on.
Stale(e) == snapCnt[e] < Limit /\ total[e] + Delta(e) < Limit

\* setRemoteTrafficLocked and mergeNodeClientTraffic, in the serial writer
Merge ==
  /\ InFlight
  /\ total' = [e \in Email |-> total[e] + Delta(e)]
  /\ enabled' = [e \in Email |->
       enabled[e] /\ (snapOn[e] \/ ClientFrozen(e) \/ Stale(e))]
  /\ baseline' = [e \in Email |->
       IF ClientFrozen(e) /\ baseline[e] # None /\ snapCnt[e] < baseline[e]
         THEN baseline[e] ELSE snapCnt[e]]
  /\ NoSnapshot
  /\ overtaken' = {e \in overtaken : ~enabled'[e]}
  /\ UNCHANGED <<pending, order, dirty, remarked, restore, nodeVars, inline,
                 deliverVars, applied, due, countVars>>

\* The panel dies and starts again: the database stays.
Restart ==
  /\ Fault
  /\ NoSnapshot
  /\ overtaken' = {e \in overtaken : ~enabled[e]}
  /\ inline' = FALSE /\ restore' = {}
  /\ who' = "none" /\ todo' = <<>> /\ sent' = {} /\ bulk' = FALSE /\ touched' = {}
  /\ remarked' = FALSE
  /\ UNCHANGED <<total, enabled, baseline, pending, order, dirty, nodeVars,
                 applied, due>>

----------------------------------------------------------------------------

Deliver == EndDelivery \/ SendAccepted \/ SendFails \/ BulkFails
             \/ \E e \in Email : Settle(e)

Sync == StartTick \/ Reconcile \/ FetchTrafficSnapshot \/ FetchFails \/ Merge

Next ==
  \/ \E e \in Email :
       \/ ResetClientTraffic(e) \/ Restore(e) \/ Deplete(e)
       \/ Use(e) \/ NodeDepletes(e)
  \/ \E es \in SUBSET Email \ {{}} : BulkResetTraffic(es)
  \/ \E actor \in {"job", "goroutine"} : StartDelivery(actor)
  \/ Deliver
  \/ Sync
  \/ Restart

\* The job ticks, and a delivery that runs goes on.
Fairness ==
  /\ WF_vars(Sync)
  /\ WF_vars(StartDelivery("job"))
  /\ WF_vars(Deliver)

Spec == Init /\ [][Next]_vars /\ Fairness

----------------------------------------------------------------------------
(* Properties                                                              *)

\* A reset that the node has not carried out is still queued, whatever was
\* lost and whoever delivered: the node zeroed the client since the last
\* reset, or there is a row.
NoResetLost == Email \ applied \subseteq pending

\* A total never holds usage from before the last reset, but what was made
\* while a snapshot was in flight when the reset was committed.
NoOldUsage == \A e \in Email : total[e] <= due[e]

\* A client is off only if what it used since its reset (counted as above)
\* reached its quota: a verdict that the node reached before the reset does
\* not switch it off afterwards.  The code promises it by freezing a client
\* whose reset is owed or whose node is marked (inbound_node.go:1071-1084).
\* Neither covers a reset that marks nothing and that a goroutine delivers
\* between the fetch of a snapshot and its merge: its row is gone when the
\* older verdict comes.  These clients, and no others, are overtaken.
OffByNewUsage ==
  \A e \in Email : ~enabled[e] => due[e] >= Limit \/ e \in overtaken

\* A queued reset is delivered, although another one is refused each time
\* and takes all the time there is.
Delivered ==
  \A e \in Email \ Refusing : e \in pending ~> e \notin pending
=============================================================================
