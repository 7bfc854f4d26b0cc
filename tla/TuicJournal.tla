---------------------------- MODULE TuicJournal ----------------------------
(***************************************************************************)
(* The traffic of the panel's TUIC servers on its way to the database      *)
(* (internal/web/job/tuic_job.go and tuic_journal.go,                      *)
(* internal/web/service/tuic_traffic_receipt.go, the counters of           *)
(* internal/tuic/manager.go).                                              *)
(*                                                                         *)
(* Every ten seconds the job takes what the servers counted and adds it to *)
(* the totals; what cannot be added goes back to memory.  When the panel   *)
(* stops, what is left is stored as a file of the journal, and the file is *)
(* applied with a receipt in the same transaction, then removed.  A file   *)
(* that stays is replayed by later runs.  The process may die at any step, *)
(* the machine may lose power with directory entries that were not synced, *)
(* and a commit may succeed and be reported as failed.                     *)
(*                                                                         *)
(* A unit is one delta that a server counted: sets of units stand for      *)
(* amounts, so that what is counted twice shows.                           *)
(***************************************************************************)
EXTENDS Naturals, FiniteSets

CONSTANTS
  Unit,          \* deltas of traffic
  Batch,         \* identifiers of journal files
  NoBatch,
  MaxFaults      \* bound on failed calls, deaths and power losses

ASSUME TuicJournalAssumption ==
  /\ NoBatch \notin Batch
  /\ MaxFaults \in Nat

VARIABLES
  used,      \* history: what the servers have counted so far
  mem,       \* counters of the servers and pendingTraffic of the manager
  hand,      \* collected, and not yet added, stored or requeued
  content,   \* what each journal file holds
  visible,   \* the files in the directory
  durable,   \* the files that the directory holds after a power loss
  receipts,  \* tuic_traffic_receipts
  counted,   \* what the totals hold
  twice,     \* history: what was added to the totals a second time
  unsure,    \* history: what AddTraffic committed and reported as failed
  lost,      \* history: what ended with the memory of the process, or in a
             \* file that was not reported as stored
  kept,      \* history: the files that storeTuicBatch reported as stored
  mode,      \* the panel is down, runs, or flushes while it stops
  step,      \* where Run or flushTuicJournal stands
  todo,      \* the files that the replay has read and not tried
  cur,       \* the file that it works on
  tries,     \* failed attempts of the flush
  faults

diskVars  == <<content, visible, durable>>
dbVars    == <<receipts, counted, twice, unsure>>
replayVars == <<todo, cur, tries>>
vars == <<used, mem, hand, diskVars, dbVars, lost, kept, mode, step,
          replayVars, faults>>

TypeOK ==
  /\ used \subseteq Unit /\ mem \subseteq Unit /\ hand \subseteq Unit
  /\ content \in [Batch -> SUBSET Unit]
  /\ visible \subseteq Batch /\ durable \subseteq Batch
  /\ receipts \subseteq Batch
  /\ counted \subseteq Unit /\ twice \subseteq Unit /\ unsure \subseteq Unit
  /\ lost \subseteq Unit
  /\ kept \subseteq Batch
  /\ mode \in {"down", "run", "flush"}
  /\ step \in {"idle", "replay", "applied", "removed", "collect", "add",
               "store", "sync"}
  /\ todo \subseteq Batch /\ cur \in Batch \cup {NoBatch}
  /\ tries \in 0..2
  /\ faults \in 0..MaxFaults

Init ==
  /\ used = {} /\ mem = {} /\ hand = {}
  /\ content = [f \in Batch |-> {}] /\ visible = {} /\ durable = {}
  /\ receipts = {} /\ counted = {} /\ twice = {} /\ unsure = {}
  /\ lost = {} /\ kept = {}
  /\ mode = "down" /\ step = "idle" /\ todo = {} /\ cur = NoBatch /\ tries = 0
  /\ faults = 0

----------------------------------------------------------------------------
(* Helpers                                                                 *)

Fault == faults < MaxFaults /\ faults' = faults + 1

InFiles(files) == UNION {content[f] : f \in files}

\* Units are added to the totals.
Count(units) ==
  /\ counted' = counted \cup units
  /\ twice' = twice \cup (counted \cap units)

----------------------------------------------------------------------------
(* The servers count, the panel starts                                     *)

Use(u) ==
  /\ mode = "run" /\ u \notin used
  /\ used' = used \cup {u} /\ mem' = mem \cup {u}
  /\ UNCHANGED <<hand, diskVars, dbVars, lost, kept, mode, step, replayVars,
                 faults>>

StartPanel ==
  /\ mode = "down"
  /\ mode' = "run"
  /\ UNCHANGED <<used, mem, hand, diskVars, dbVars, lost, kept, step,
                 replayVars, faults>>

----------------------------------------------------------------------------
(* replayTuicJournal, in a run and in the flush                            *)

\* Mutant: the flush tries for ever.
RetryForEver == tries \in Nat

\* The flush tries three times.
MayRetry == tries < 2

\* A process that ends takes its memory with it, and a power loss the files
\* that "gone" names.
EndProcess(gone) ==
  /\ mode' = "down" /\ step' = "idle"
  /\ todo' = {} /\ cur' = NoBatch /\ tries' = 0
  /\ lost' = lost \cup mem \cup hand \cup InFiles(gone)
  /\ mem' = {} /\ hand' = {}

\* The attempt is over.  A run goes on whatever the result, the flush tries
\* again or the process ends.
ReplayOver(ok) ==
  IF mode = "run"
    THEN /\ step' = "collect" /\ todo' = {} /\ cur' = NoBatch
         /\ UNCHANGED <<mode, tries, mem, hand, lost>>
    ELSE IF ~ok /\ MayRetry
      THEN /\ step' = "replay" /\ todo' = visible' /\ cur' = NoBatch
           /\ tries' = tries + 1
           /\ UNCHANGED <<mode, mem, hand, lost>>
      ELSE EndProcess({})

ReplayDone ==
  /\ step = "replay" /\ todo = {}
  /\ UNCHANGED diskVars
  /\ ReplayOver(TRUE)
  /\ UNCHANGED <<used, dbVars, kept, faults>>

\* Mutant: the receipt is written and not looked at.
CountWithReceipt(f) ==
  /\ receipts' = receipts \cup {f}
  /\ Count(content[f])

\* AddTuicTrafficBatch: the receipt and the traffic in one transaction, and
\* nothing if the receipt is there already.
CommitBatch(f) ==
  /\ receipts' = receipts \cup {f}
  /\ IF f \in receipts THEN UNCHANGED <<counted, twice>> ELSE Count(content[f])

ApplyBatch(f) ==
  /\ step = "replay" /\ f \in todo
  /\ CommitBatch(f)
  /\ UNCHANGED <<diskVars, unsure>>
  /\ \/ /\ step' = "applied" /\ cur' = f /\ todo' = todo \ {f}
        /\ UNCHANGED <<mode, tries, mem, hand, lost, faults>>
     \/ Fault /\ ReplayOver(FALSE)  \* committed, and reported as failed
  /\ UNCHANGED <<used, kept>>

ReplayFails ==
  /\ step \in {"replay", "applied"} /\ (step = "replay" => todo # {})
  /\ Fault
  /\ UNCHANGED diskVars
  /\ ReplayOver(FALSE)
  /\ UNCHANGED <<used, dbVars, kept>>

RemoveFile ==
  /\ step = "applied"
  /\ visible' = visible \ {cur}
  /\ step' = "removed"
  /\ UNCHANGED <<used, mem, hand, content, durable, dbVars, lost, kept, mode,
                 replayVars, faults>>

SyncRemoval ==
  /\ step = "removed"
  /\ UNCHANGED <<content, visible>>
  /\ \/ /\ durable' = visible
        /\ step' = "replay" /\ cur' = NoBatch
        /\ UNCHANGED <<todo, mode, tries, mem, hand, lost, faults>>
     \/ /\ Fault
        /\ UNCHANGED durable
        /\ ReplayOver(FALSE)
  /\ UNCHANGED <<used, dbVars, kept>>

----------------------------------------------------------------------------
(* TuicJob.Run                                                             *)

\* Mutant: a run does not replay the journal.
CollectFirst ==
  /\ mode = "run" /\ step = "idle"
  /\ step' = "collect"
  /\ UNCHANGED <<used, mem, hand, diskVars, dbVars, lost, kept, mode,
                 replayVars, faults>>

Run ==
  /\ mode = "run" /\ step = "idle"
  /\ step' = "replay" /\ todo' = visible
  /\ UNCHANGED <<used, mem, hand, diskVars, dbVars, lost, kept, mode, cur,
                 tries, faults>>

\* DesiredTuicInstances fails: the run ends before it collects.
DesiredFails ==
  /\ step = "collect"
  /\ Fault
  /\ step' = "idle"
  /\ UNCHANGED <<used, mem, hand, diskVars, dbVars, lost, kept, mode,
                 replayVars>>

\* CollectAllTraffic
Collect ==
  /\ step = "collect"
  /\ hand' = mem /\ mem' = {}
  /\ step' = "add"
  /\ UNCHANGED <<used, diskVars, dbVars, lost, kept, mode, replayVars, faults>>

\* Mutant: what could not be added is dropped.
DropFailed == mem

\* RequeueClientTraffic
Requeued == mem \cup hand

\* AddTraffic; what it reports as failed is requeued, and may have been
\* committed: there is no receipt on this path.
AddTraffic ==
  /\ step = "add"
  /\ step' = "idle" /\ hand' = {}
  /\ \/ Count(hand) /\ UNCHANGED <<mem, unsure, faults>>
     \/ Fault /\ mem' = Requeued /\ UNCHANGED <<counted, twice, unsure>>
     \/ /\ Fault /\ mem' = Requeued
        /\ Count(hand) /\ unsure' = unsure \cup hand
  /\ UNCHANGED <<used, diskVars, receipts, lost, kept, mode, replayVars>>

----------------------------------------------------------------------------
(* The stop of the panel: StopAll, then flushTuicJournal                   *)

StopPanel ==
  /\ mode = "run" /\ step = "idle"
  /\ \E f \in Batch : content[f] = {}  \* bound: each stop may store one
  /\ mode' = "flush"
  /\ hand' = mem /\ mem' = {}
  /\ IF mem = {} THEN step' = "replay" /\ todo' = visible
                 ELSE step' = "store" /\ UNCHANGED todo
  /\ UNCHANGED <<used, diskVars, dbVars, lost, kept, cur, tries, faults>>

\* storeTuicBatch up to the rename, under an identifier of its own.
Rename(f) ==
  /\ step = "store" /\ content[f] = {}
  /\ content' = [content EXCEPT ![f] = hand]
  /\ visible' = visible \cup {f}
  /\ hand' = {}
  /\ step' = "sync" /\ cur' = f
  /\ UNCHANGED <<used, mem, durable, dbVars, lost, kept, mode, todo, tries,
                 faults>>

\* It fails before the rename: the traffic is requeued, in a process that
\* ends.
StoreFails ==
  /\ step = "store"
  /\ Fault
  /\ EndProcess({})
  /\ UNCHANGED <<used, diskVars, dbVars, kept>>

\* Mutant: what is in a file that could not be synced is requeued too, and
\* the ordinary path adds it.
RequeueStored == Count(content[cur])

\* A file that is there is not requeued, although its sync failed.
AfterFailedSync == UNCHANGED <<counted, twice>>

\* The sync of the directory: the file is stored, or the flush gives up.
SyncStored ==
  /\ step = "sync"
  /\ UNCHANGED <<content, visible>>
  /\ \/ /\ durable' = visible
        /\ kept' = kept \cup {cur}
        /\ step' = "replay" /\ todo' = visible /\ cur' = NoBatch
        /\ UNCHANGED <<mode, tries, mem, hand, lost, counted, twice, faults>>
     \/ /\ Fault
        /\ UNCHANGED <<durable, kept>>
        /\ AfterFailedSync
        /\ EndProcess({})
  /\ UNCHANGED <<used, receipts, unsure>>

----------------------------------------------------------------------------
(* Deaths                                                                  *)

Die ==
  /\ mode # "down"
  /\ Fault
  /\ EndProcess({})
  /\ UNCHANGED <<used, diskVars, dbVars, kept>>

\* A directory entry that was not synced may be there afterwards or not.
PowerLoss ==
  /\ Fault
  /\ \E entries \in SUBSET (visible \cup durable) :
       /\ visible \cap durable \subseteq entries
       /\ EndProcess(visible \ (entries \cup kept))
       /\ visible' = entries /\ durable' = entries
  /\ UNCHANGED <<used, content, dbVars, kept>>

----------------------------------------------------------------------------

\* The steps of a process that runs.
Step ==
  \/ ReplayDone \/ ReplayFails \/ RemoveFile \/ SyncRemoval
  \/ Run \/ DesiredFails \/ Collect \/ AddTraffic
  \/ StoreFails \/ SyncStored
  \/ \E f \in Batch : ApplyBatch(f) \/ Rename(f)

Next ==
  \/ Step \/ StartPanel \/ StopPanel \/ Die \/ PowerLoss
  \/ \E u \in Unit : Use(u)

\* The panel is started again, and the job runs.
Fairness == WF_vars(StartPanel) /\ WF_vars(Step)

Spec == Init /\ [][Next]_vars /\ Fairness

----------------------------------------------------------------------------
(* Properties                                                              *)

\* Only traffic whose AddTraffic was committed and reported as failed can be
\* added to the totals twice; no other is, although files are replayed after
\* a death, after a power loss that brings a removed file back, and after a
\* batch was committed and reported as failed.
CountedOnce == twice \subseteq unsure

\* Traffic is counted, in memory, in a file of the journal, or was lost with
\* the memory of a process that ended or with a file that was never
\* reported as stored; and without a failure nothing is lost.
NothingVanishes ==
  /\ used \subseteq counted \cup mem \cup hand \cup lost \cup InFiles(visible)
  /\ faults = 0 => lost = {}

\* A batch that was reported as stored is in the totals at last.
StoredIsCounted == \A f \in Batch : f \in kept ~> f \in receipts
=============================================================================
