------------------------- MODULE TuicJournal_proofs -------------------------
(***************************************************************************)
(* The safety properties of TuicJournal, for any amounts of traffic,       *)
(* journal files and failures.                                             *)
(*                                                                         *)
(* A unit that was not counted is in one place only: memory, the hands of  *)
(* a run, or one file; one that is in such a place and was counted was     *)
(* committed by an AddTraffic that reported an error (Places).  A file     *)
(* with a receipt is counted, and one that was reported as stored outlives *)
(* a power loss until then (Journal).                                      *)
(***************************************************************************)
EXTENDS TuicJournal, TLAPS

\* A unit has one place until it is counted, and then none, unless the commit
\* that counted it was reported as failed.
Places ==
  /\ mem \cup hand \cup counted \subseteq used
  /\ mem \cap hand = {} /\ (mem \cup hand) \cap counted \subseteq unsure
  /\ \A f \in Batch :
       /\ content[f] \subseteq used
       /\ content[f] \cap (mem \cup hand) = {}
       /\ f \notin receipts => content[f] \cap counted \subseteq unsure
  /\ \A f, g \in Batch : f # g => content[f] \cap content[g] = {}
  /\ twice \subseteq unsure

\* Where the hands and the memory hold anything.
Hands ==
  /\ hand # {} => step \in {"add", "store"}
  /\ step = "store" => hand # {}
  /\ step \in {"collect", "add"} => mode = "run"
  /\ mode # "run" => mem = {}

\* The files that were written, and those that were applied.
Written == {f \in Batch : content[f] # {}}

Journal ==
  /\ visible \cup durable \cup todo \cup receipts \cup kept \subseteq Written
  /\ kept \cap visible \subseteq durable
  /\ step = "applied" => cur \in receipts
  /\ step = "sync" => cur \in visible
  /\ \A f \in receipts : content[f] \subseteq counted

JournalInv == TypeOK /\ Hands /\ Journal

\* Every unit is somewhere.
Kept ==
  /\ \A u \in used : \/ u \in counted \cup mem \cup hand \cup lost
                     \/ \E f \in visible : u \in content[f]
  /\ faults = 0 => lost = {}

----------------------------------------------------------------------------

\* How the end of a replay changes the memory: not at all, or the process
\* ends, which loses nothing because a flush has stored its memory.
ReplayResult ==
  /\ mem' = mem /\ hand = {} /\ hand' = {} /\ lost' = lost
  /\ mode' # "run" => mem = {}
  /\ mode' \in {"run", "flush", "down"}
  /\ step' \in {"collect", "replay", "idle"}
  /\ step' = "collect" => mode' = "run"
  /\ todo' \in {{}, visible'} /\ cur' = NoBatch /\ tries' \in 0..2

LEMMA ReplayEnds ==
  ASSUME TypeOK, Hands, step \in {"replay", "applied", "removed"},
         NEW ok, ReplayOver(ok)
  PROVE  ReplayResult
<1> USE DEF TypeOK, Hands, MayRetry, ReplayResult
<1>1. CASE mode = "run"
  BY <1>1 DEF ReplayOver
<1>2. CASE mode # "run" /\ ~ok /\ MayRetry
  BY <1>2 DEF ReplayOver
<1>3. CASE mode # "run" /\ ~(~ok /\ MayRetry)
  <2>1. EndProcess({})
    BY <1>3 DEF ReplayOver
  <2>q. QED
    BY <1>3, <2>1 DEF EndProcess, InFiles
<1>q. QED
  BY <1>1, <1>2, <1>3

\* What the end of the process does, with the files that go with it.
LEMMA ProcessEnds ==
  ASSUME NEW gone, EndProcess(gone)
  PROVE  /\ mem' = {} /\ hand' = {} /\ mode' = "down" /\ step' = "idle"
         /\ todo' = {} /\ cur' = NoBatch /\ tries' = 0
         /\ lost' = lost \cup mem \cup hand \cup InFiles(gone)
  BY DEF EndProcess

\* The units that are added to the totals; those that were there are unsure.
LEMMA CountsNew ==
  ASSUME NEW units, units \cap counted \subseteq unsure,
         twice \subseteq unsure, Count(units)
  PROVE  counted' = counted \cup units /\ twice' \subseteq unsure
  BY DEF Count

\* A batch is counted exactly when it had no receipt.
LEMMA BatchCounts ==
  ASSUME Places, Journal, NEW f \in Batch, CommitBatch(f)
  PROVE  /\ receipts' = receipts \cup {f} /\ twice' \subseteq unsure
         /\ counted' = counted \cup content[f]
<1>1. CASE f \in receipts
  BY <1>1 DEF CommitBatch, Places, Journal
<1>2. CASE f \notin receipts
  BY <1>2, CountsNew DEF CommitBatch, Places
<1>q. QED
  BY <1>1, <1>2

----------------------------------------------------------------------------

LEMMA TypeStep ==
  ASSUME TypeOK, Hands, Journal, [Next]_vars
  PROVE  TypeOK'
<1> USE TuicJournalAssumption DEF diskVars, dbVars, replayVars
<1>1. ASSUME NEW u \in Unit, Use(u) PROVE TypeOK'
  BY <1>1 DEF Use, TypeOK
<1>2. CASE StartPanel \/ StopPanel
  BY <1>2 DEF StartPanel, StopPanel, TypeOK
<1>3. CASE ReplayDone
  <2>1. ReplayResult
    BY <1>3, ReplayEnds DEF ReplayDone
  <2>q. QED
    BY <1>3, <2>1 DEF ReplayDone, ReplayResult, TypeOK
<1>4. CASE ReplayFails
  <2>1. ReplayResult
    BY <1>4, ReplayEnds DEF ReplayFails
  <2>q. QED
    BY <1>4, <2>1 DEF ReplayFails, ReplayResult, TypeOK, Fault
<1>5. CASE RemoveFile \/ Run \/ DesiredFails \/ Collect
  BY <1>5 DEF RemoveFile, Run, DesiredFails, Collect, TypeOK, Fault
<1>6. CASE SyncRemoval
  <2>1. CASE ReplayOver(FALSE) /\ Fault /\ UNCHANGED durable
    <3>1. ReplayResult
      BY <1>6, <2>1, ReplayEnds DEF SyncRemoval
    <3>q. QED
      BY <1>6, <2>1, <3>1 DEF SyncRemoval, ReplayResult, TypeOK, Fault
  <2>2. CASE /\ durable' = visible /\ step' = "replay" /\ cur' = NoBatch
             /\ UNCHANGED <<todo, mode, tries, mem, hand, lost, faults>>
    BY <1>6, <2>2 DEF SyncRemoval, TypeOK
  <2>q. QED
    BY <1>6, <2>1, <2>2 DEF SyncRemoval
<1>7. CASE AddTraffic
  BY <1>7 DEF AddTraffic, Count, Requeued, TypeOK, Fault
<1>8. CASE StoreFails \/ Die
  <2>1. EndProcess({}) /\ Fault /\ UNCHANGED <<used, diskVars, dbVars, kept>>
    BY <1>8 DEF StoreFails, Die
  <2>q. QED
    BY <2>1 DEF EndProcess, InFiles, TypeOK, Fault
<1>9. CASE SyncStored
  <2>1. CASE EndProcess({}) /\ Fault /\ AfterFailedSync
               /\ UNCHANGED <<durable, kept>>
    BY <1>9, <2>1
    DEF SyncStored, EndProcess, InFiles, AfterFailedSync, TypeOK, Fault
  <2>2. CASE /\ kept' = kept \cup {cur} /\ durable' = visible
             /\ step' = "replay" /\ todo' = visible /\ cur' = NoBatch
             /\ UNCHANGED <<mode, tries, mem, hand, lost, dbVars, faults>>
    BY <1>9, <2>2 DEF SyncStored, TypeOK, Journal
  <2>q. QED
    BY <1>9, <2>1, <2>2 DEF SyncStored, AfterFailedSync
<1>10. ASSUME NEW f \in Batch, ApplyBatch(f) PROVE TypeOK'
  <2>1. /\ counted' \subseteq Unit /\ twice' \subseteq Unit
        /\ receipts' \subseteq Batch
        /\ UNCHANGED <<used, kept, content, visible, durable, unsure>>
    BY <1>10 DEF ApplyBatch, CommitBatch, Count, TypeOK
  <2>2. CASE UNCHANGED <<mode, tries, mem, hand, lost, faults>>
               /\ step' = "applied" /\ cur' = f /\ todo' = todo \ {f}
    BY <2>1, <2>2 DEF TypeOK
  <2>3. CASE Fault /\ ReplayOver(FALSE)
    <3>1. ReplayResult
      BY <1>10, <2>3, ReplayEnds DEF ApplyBatch
    <3>q. QED
      BY <2>1, <2>3, <3>1 DEF ReplayResult, TypeOK, Fault
  <2>q. QED
    BY <1>10, <2>2, <2>3 DEF ApplyBatch
<1>11. ASSUME NEW f \in Batch, Rename(f) PROVE TypeOK'
  BY <1>11 DEF Rename, TypeOK
<1>12. CASE PowerLoss
  <2>1. PICK entries \in SUBSET (visible \cup durable) :
          /\ visible' = entries /\ durable' = entries
          /\ EndProcess(visible \ (entries \cup kept))
    BY <1>12 DEF PowerLoss
  <2>2. InFiles(visible \ (entries \cup kept)) \subseteq Unit
    BY DEF InFiles, TypeOK
  <2>3. /\ mem' = {} /\ hand' = {} /\ lost' \subseteq Unit
        /\ mode' = "down" /\ step' = "idle"
        /\ todo' = {} /\ cur' = NoBatch /\ tries' = 0
    BY <2>1, <2>2 DEF EndProcess, TypeOK
  <2>q. QED
    BY <1>12, <2>1, <2>3 DEF PowerLoss, Fault, TypeOK
<1>u. CASE UNCHANGED vars
  BY <1>u DEF vars, TypeOK
<1>q. QED
  BY <1>1, <1>2, <1>3, <1>4, <1>5, <1>6, <1>7, <1>8, <1>9, <1>10, <1>11,
     <1>12, <1>u
  DEF Next, Step

LEMMA HandsStep ==
  ASSUME TypeOK, Hands, [Next]_vars
  PROVE  Hands'
<1> USE DEF diskVars, dbVars, replayVars
<1>1. ASSUME NEW u \in Unit, Use(u) PROVE Hands'
  BY <1>1 DEF Use, Hands
<1>2. CASE StartPanel \/ StopPanel
  BY <1>2 DEF StartPanel, StopPanel, Hands
<1>3. CASE ReplayDone \/ ReplayFails
  <2>1. ReplayResult
    BY <1>3, ReplayEnds DEF ReplayDone, ReplayFails
  <2>q. QED
    BY <2>1 DEF ReplayResult, Hands
<1>4. CASE RemoveFile \/ Run \/ DesiredFails \/ Collect \/ AddTraffic
  BY <1>4 DEF RemoveFile, Run, DesiredFails, Collect, AddTraffic, Hands
<1>5. CASE SyncRemoval
  <2>1. CASE ReplayOver(FALSE)
    <3>1. ReplayResult
      BY <1>5, <2>1, ReplayEnds DEF SyncRemoval
    <3>q. QED
      BY <3>1 DEF ReplayResult, Hands
  <2>2. CASE step' = "replay" /\ UNCHANGED <<mode, mem, hand>>
    BY <1>5, <2>2 DEF SyncRemoval, Hands
  <2>q. QED
    BY <1>5, <2>1, <2>2 DEF SyncRemoval
<1>6. CASE StoreFails \/ Die \/ PowerLoss
  BY <1>6, ProcessEnds DEF StoreFails, Die, PowerLoss, Hands
<1>7. CASE SyncStored
  BY <1>7, ProcessEnds DEF SyncStored, Hands
<1>8. ASSUME NEW f \in Batch, ApplyBatch(f) PROVE Hands'
  <2>1. CASE step' = "applied" /\ UNCHANGED <<mode, mem, hand>>
    BY <1>8, <2>1 DEF ApplyBatch, Hands
  <2>2. CASE ReplayOver(FALSE)
    <3>1. ReplayResult
      BY <1>8, <2>2, ReplayEnds DEF ApplyBatch
    <3>q. QED
      BY <3>1 DEF ReplayResult, Hands
  <2>q. QED
    BY <1>8, <2>1, <2>2 DEF ApplyBatch
<1>9. ASSUME NEW f \in Batch, Rename(f) PROVE Hands'
  BY <1>9 DEF Rename, Hands
<1>u. CASE UNCHANGED vars
  BY <1>u DEF vars, Hands
<1>q. QED
  BY <1>1, <1>2, <1>3, <1>4, <1>5, <1>6, <1>7, <1>8, <1>9, <1>u DEF Next, Step

LEMMA PlacesStep ==
  ASSUME TypeOK, Hands, Journal, Places, [Next]_vars
  PROVE  Places'
<1> USE DEF diskVars, dbVars, replayVars
<1>1. ASSUME NEW u \in Unit, Use(u) PROVE Places'
  BY <1>1 DEF Use, Places
<1>2. CASE StartPanel \/ StopPanel
  BY <1>2 DEF StartPanel, StopPanel, Places, Hands
<1>3. CASE ReplayDone \/ ReplayFails
  <2>1. ReplayResult
    BY <1>3, ReplayEnds DEF ReplayDone, ReplayFails
  <2>q. QED
    BY <1>3, <2>1 DEF ReplayDone, ReplayFails, ReplayResult, Places
<1>4. CASE RemoveFile \/ Run \/ DesiredFails
  BY <1>4 DEF RemoveFile, Run, DesiredFails, Places
<1>5. CASE Collect
  BY <1>5 DEF Collect, Places, Hands
<1>6. CASE AddTraffic
  <2>0. Count(hand) => counted' = counted \cup hand /\ twice' \subseteq unsure
    BY CountsNew DEF Places
  <2>1. CASE Count(hand) /\ UNCHANGED <<mem, unsure>>
    BY <1>6, <2>0, <2>1 DEF AddTraffic, Places
  <2>2. CASE mem' = Requeued /\ UNCHANGED <<counted, twice, unsure>>
    BY <1>6, <2>2 DEF AddTraffic, Requeued, Places
  <2>3. CASE Count(hand) /\ mem' = Requeued /\ unsure' = unsure \cup hand
    BY <1>6, <2>0, <2>3 DEF AddTraffic, Requeued, Places
  <2>q. QED
    BY <1>6, <2>1, <2>2, <2>3 DEF AddTraffic
<1>7. CASE SyncRemoval
  <2>1. mem' = mem /\ hand' = hand
    BY <1>7, ReplayEnds DEF SyncRemoval, ReplayResult
  <2>q. QED
    BY <1>7, <2>1 DEF SyncRemoval, Places
<1>8. CASE StoreFails \/ Die \/ PowerLoss
  <2>1. /\ mem' = {} /\ hand' = {}
        /\ UNCHANGED <<used, content, receipts, counted, twice, unsure>>
    BY <1>8, ProcessEnds DEF StoreFails, Die, PowerLoss
  <2>q. QED
    BY <2>1 DEF Places
<1>9. CASE SyncStored
  <2>1. /\ mem' \subseteq mem /\ hand' \subseteq hand
        /\ UNCHANGED <<used, content, receipts, counted, twice, unsure>>
    BY <1>9, ProcessEnds DEF SyncStored, AfterFailedSync
  <2>q. QED
    BY <2>1 DEF Places
<1>10. ASSUME NEW f \in Batch, ApplyBatch(f) PROVE Places'
  <2>1. /\ receipts' = receipts \cup {f} /\ twice' \subseteq unsure
        /\ counted' = counted \cup content[f] /\ unsure' = unsure
    BY <1>10, BatchCounts DEF ApplyBatch
  <2>2. mem' = mem /\ hand' = hand
    BY <1>10, ReplayEnds DEF ApplyBatch, ReplayResult
  <2>q. QED
    BY <1>10, <2>1, <2>2 DEF ApplyBatch, Places
<1>11. ASSUME NEW f \in Batch, Rename(f) PROVE Places'
  <2>1. \A g \in Batch : content'[g] = IF g = f THEN hand ELSE content[g]
    BY <1>11 DEF Rename, TypeOK
  <2>2. hand' = {} /\ UNCHANGED <<used, mem, counted, receipts, twice, unsure>>
    BY <1>11 DEF Rename
  <2>q. QED
    BY <2>1, <2>2 DEF Places
<1>u. CASE UNCHANGED vars
  BY <1>u DEF vars, Places
<1>q. QED
  BY <1>1, <1>2, <1>3, <1>4, <1>5, <1>6, <1>7, <1>8, <1>9, <1>10, <1>11, <1>u
  DEF Next, Step

LEMMA JournalStep ==
  ASSUME TypeOK, Hands, Journal, [Next]_vars
  PROVE  Journal'
<1> USE DEF diskVars, dbVars, replayVars
<1>1. ASSUME NEW u \in Unit, Use(u) PROVE Journal'
  BY <1>1 DEF Use, Journal, Written
<1>2. CASE StartPanel \/ StopPanel
  BY <1>2 DEF StartPanel, StopPanel, Journal, Written
<1>3. CASE ReplayDone \/ ReplayFails
  <2>1. ReplayResult
    BY <1>3, ReplayEnds DEF ReplayDone, ReplayFails
  <2>q. QED
    BY <1>3, <2>1
    DEF ReplayDone, ReplayFails, ReplayResult, Journal, Written
<1>4. CASE RemoveFile \/ Run \/ DesiredFails \/ Collect
  BY <1>4 DEF RemoveFile, Run, DesiredFails, Collect, Journal, Written
<1>5. CASE AddTraffic
  BY <1>5 DEF AddTraffic, Count, Journal, Written
<1>6. CASE SyncRemoval
  <2>1. CASE ReplayOver(FALSE) /\ UNCHANGED durable
    <3>1. ReplayResult
      BY <1>6, <2>1, ReplayEnds DEF SyncRemoval
    <3>q. QED
      BY <1>6, <2>1, <3>1 DEF SyncRemoval, ReplayResult, Journal, Written
  <2>2. CASE durable' = visible /\ step' = "replay" /\ UNCHANGED todo
    BY <1>6, <2>2 DEF SyncRemoval, Journal, Written
  <2>q. QED
    BY <1>6, <2>1, <2>2 DEF SyncRemoval
<1>7. CASE StoreFails \/ Die
  BY <1>7, ProcessEnds DEF StoreFails, Die, Journal, Written
<1>8. CASE PowerLoss
  <2>1. PICK entries \in SUBSET (visible \cup durable) :
          /\ visible' = entries /\ durable' = entries
          /\ EndProcess(visible \ (entries \cup kept))
    BY <1>8 DEF PowerLoss
  <2>2. todo' = {} /\ step' = "idle"
    BY <2>1, ProcessEnds
  <2>q. QED
    BY <1>8, <2>1, <2>2 DEF PowerLoss, Journal, Written
<1>9. CASE SyncStored
  <2>1. CASE EndProcess({}) /\ AfterFailedSync /\ UNCHANGED <<durable, kept>>
    <3>1. todo' = {} /\ step' = "idle"
      BY <2>1, ProcessEnds
    <3>q. QED
      BY <1>9, <2>1, <3>1 DEF SyncStored, AfterFailedSync, Journal, Written
  <2>2. CASE /\ durable' = visible /\ step' = "replay" /\ todo' = visible
             /\ UNCHANGED counted
    BY <1>9, <2>2 DEF SyncStored, Journal, Written
  <2>q. QED
    BY <1>9, <2>1, <2>2 DEF SyncStored
<1>10. ASSUME NEW f \in Batch, ApplyBatch(f) PROVE Journal'
  <2>1. /\ receipts' = receipts \cup {f} /\ counted \subseteq counted'
        /\ content[f] \subseteq counted'
    BY <1>10 DEF ApplyBatch, CommitBatch, Count, Journal
  <2>2. f \in Written
    BY <1>10 DEF ApplyBatch, Journal
  <2>3. CASE step' = "applied" /\ cur' = f /\ todo' = todo \ {f}
    BY <1>10, <2>1, <2>2, <2>3 DEF ApplyBatch, Journal, Written
  <2>4. CASE ReplayOver(FALSE)
    <3>1. ReplayResult
      BY <1>10, <2>4, ReplayEnds DEF ApplyBatch
    <3>q. QED
      BY <1>10, <2>1, <2>2, <3>1 DEF ApplyBatch, ReplayResult, Journal, Written
  <2>q. QED
    BY <1>10, <2>3, <2>4 DEF ApplyBatch
<1>11. ASSUME NEW f \in Batch, Rename(f) PROVE Journal'
  <2>1. \A g \in Batch : content'[g] = IF g = f THEN hand ELSE content[g]
    BY <1>11 DEF Rename, TypeOK
  <2>2. f \notin Written /\ hand # {}
    BY <1>11 DEF Rename, Hands, Written
  <2>q. QED
    BY <1>11, <2>1, <2>2 DEF Rename, Journal, Written, TypeOK
<1>u. CASE UNCHANGED vars
  BY <1>u DEF vars, Journal, Written
<1>q. QED
  BY <1>1, <1>2, <1>3, <1>4, <1>5, <1>6, <1>7, <1>8, <1>9, <1>10, <1>11, <1>u
  DEF Next, Step

LEMMA KeptStep ==
  ASSUME TypeOK, Hands, Journal, Kept, [Next]_vars
  PROVE  Kept'
<1> USE TuicJournalAssumption DEF diskVars, dbVars, replayVars
<1>1. ASSUME NEW u \in Unit, Use(u) PROVE Kept'
  BY <1>1 DEF Use, Kept
<1>2. CASE StartPanel \/ StopPanel
  BY <1>2 DEF StartPanel, StopPanel, Kept, Hands
<1>3. CASE ReplayDone \/ ReplayFails
  <2>1. ReplayResult
    BY <1>3, ReplayEnds DEF ReplayDone, ReplayFails
  <2>q. QED
    <3>1. UNCHANGED <<used, counted, visible, content, mem, hand, lost>>
      BY <1>3, <2>1 DEF ReplayDone, ReplayFails, ReplayResult
    <3>2. faults' \in {faults, faults + 1}
      BY <1>3 DEF ReplayDone, ReplayFails, Fault
    <3>q. QED
      BY <3>1, <3>2 DEF Kept, TypeOK
<1>4. CASE Run \/ DesiredFails \/ Collect
  BY <1>4 DEF Run, DesiredFails, Collect, Kept, Hands, TypeOK, Fault
<1>5. CASE AddTraffic
  BY <1>5 DEF AddTraffic, Count, Requeued, Kept, TypeOK, Fault
<1>6. CASE RemoveFile
  <2>1. content[cur] \subseteq counted
    BY <1>6 DEF RemoveFile, Journal
  <2>q. QED
    BY <1>6, <2>1 DEF RemoveFile, Kept
<1>7. CASE SyncRemoval
  <2>1. mem' = mem /\ hand' = hand /\ lost' = lost
    BY <1>7, ReplayEnds DEF SyncRemoval, ReplayResult
  <2>2. faults' \in {faults, faults + 1}
    BY <1>7 DEF SyncRemoval, Fault
  <2>q. QED
    BY <1>7, <2>1, <2>2 DEF SyncRemoval, Kept, TypeOK
<1>8. CASE StoreFails \/ Die
  <2>1. /\ mem' = {} /\ hand' = {} /\ mem \cup hand \cup lost \subseteq lost'
        /\ UNCHANGED <<used, counted, visible, content>> /\ faults' # 0
    BY <1>8, ProcessEnds DEF StoreFails, Die, Fault, TypeOK
  <2>q. QED
    BY <2>1 DEF Kept
<1>9. CASE PowerLoss
  <2>1. PICK entries \in SUBSET (visible \cup durable) :
          /\ visible \cap durable \subseteq entries
          /\ visible' = entries
          /\ EndProcess(visible \ (entries \cup kept))
    BY <1>9 DEF PowerLoss
  <2>2. /\ mem' = {} /\ hand' = {}
        /\ lost' = lost \cup mem \cup hand
                         \cup InFiles(visible \ (entries \cup kept))
    BY <2>1, ProcessEnds
  <2>3. \A f \in visible : f \in entries \/ content[f] \subseteq lost'
    BY <2>1, <2>2 DEF InFiles, Journal
  <2>4. UNCHANGED <<used, counted, content>> /\ faults' # 0
    BY <1>9 DEF PowerLoss, Fault, TypeOK
  <2>q. QED
    BY <2>1, <2>2, <2>3, <2>4 DEF Kept
<1>10. CASE SyncStored
  <2>1. CASE EndProcess({}) /\ AfterFailedSync /\ Fault
    <3>1. /\ mem' = {} /\ hand' = {}
          /\ mem \cup hand \cup lost \subseteq lost'
      BY <2>1, ProcessEnds
    <3>q. QED
      BY <1>10, <2>1, <3>1 DEF SyncStored, AfterFailedSync, Fault, Kept, TypeOK
  <2>2. CASE UNCHANGED <<mem, hand, lost, counted, faults>>
    BY <1>10, <2>2 DEF SyncStored, Kept
  <2>q. QED
    BY <1>10, <2>1, <2>2 DEF SyncStored
<1>11. ASSUME NEW f \in Batch, ApplyBatch(f) PROVE Kept'
  <2>1. counted \subseteq counted'
    BY <1>11 DEF ApplyBatch, CommitBatch, Count
  <2>2. mem' = mem /\ hand' = hand /\ lost' = lost
    BY <1>11, ReplayEnds DEF ApplyBatch, ReplayResult
  <2>3. faults' \in {faults, faults + 1}
    BY <1>11 DEF ApplyBatch, Fault
  <2>q. QED
    BY <1>11, <2>1, <2>2, <2>3 DEF ApplyBatch, Kept, TypeOK
<1>12. ASSUME NEW f \in Batch, Rename(f) PROVE Kept'
  <2>1. /\ \A g \in Batch : content'[g] = IF g = f THEN hand ELSE content[g]
        /\ content[f] = {} /\ visible \subseteq Batch
    BY <1>12 DEF Rename, TypeOK
  <2>q. QED
    BY <1>12, <2>1 DEF Rename, Kept
<1>u. CASE UNCHANGED vars
  BY <1>u DEF vars, Kept
<1>q. QED
  BY <1>1, <1>2, <1>3, <1>4, <1>5, <1>6, <1>7, <1>8, <1>9, <1>10, <1>11,
     <1>12, <1>u
  DEF Next, Step

----------------------------------------------------------------------------

\* What every step of the job and of the flush relies on.
LEMMA JournalInvariant == Spec => []JournalInv
<1>1. Init => JournalInv
  BY TuicJournalAssumption
  DEF Init, JournalInv, TypeOK, Hands, Journal, Written
<1>2. JournalInv /\ [Next]_vars => JournalInv'
  BY TypeStep, HandsStep, JournalStep DEF JournalInv
<1>q. QED
  BY <1>1, <1>2, PTL DEF Spec

\* The places of the traffic, and the steps of job and flush, keep their types.
THEOREM TypeCorrect == Spec => []TypeOK
<1>1. JournalInv => TypeOK
  BY DEF JournalInv
<1>q. QED
  BY <1>1, JournalInvariant, PTL

\* Only what AddTraffic committed and reported as failed can be added to the
\* totals twice: the receipt covers every replay of a file, also after a
\* commit that was reported as failed, and a file that is there is never
\* requeued as well.
THEOREM NothingTwice == Spec => []CountedOnce
<1>1. Init => Places
  BY DEF Init, Places
<1>2. JournalInv /\ Places /\ [Next]_vars => Places'
  BY PlacesStep DEF JournalInv
<1>3. Places => CountedOnce
  BY DEF Places, CountedOnce
<1>q. QED
  BY <1>1, <1>2, <1>3, JournalInvariant, PTL DEF Spec

\* Traffic is only ever lost with the memory of a process that ended, or with
\* a file that was never reported as stored; without a failure, never.
THEOREM TrafficIsKept == Spec => []NothingVanishes
<1>1. Init => Kept
  BY DEF Init, Kept
<1>2. JournalInv /\ Kept /\ [Next]_vars => Kept'
  BY KeptStep DEF JournalInv
<1>3. Kept => NothingVanishes
  BY DEF Kept, NothingVanishes, InFiles
<1>q. QED
  BY <1>1, <1>2, <1>3, JournalInvariant, PTL DEF Spec

\* A batch that was reported as stored is in the totals, or its file is there
\* for a replay and survives a power loss.
StoredIsSafe ==
  \A f \in kept : \/ f \in receipts /\ content[f] \subseteq counted
                  \/ f \in visible \cap durable

\* The safe half of StoredIsCounted: whatever dies, fails or loses power, and
\* however often, a stored batch stays replayable until it is counted.
THEOREM StoredOutlivesFailures == Spec => []StoredIsSafe
<1> DEFINE Outstanding == kept \subseteq receipts \cup visible
<1>1. Init => Outstanding
  BY DEF Init
<1>2. JournalInv /\ Outstanding /\ [Next]_vars => Outstanding'
  <2> SUFFICES ASSUME TypeOK, Hands, Journal, Outstanding, [Next]_vars
               PROVE  Outstanding'
    BY DEF JournalInv
  <2> USE DEF diskVars, dbVars, replayVars
  <2>1. receipts \subseteq receipts'
    <3>1. CASE \E f \in Batch : ApplyBatch(f)
      BY <3>1 DEF ApplyBatch, CommitBatch
    <3>2. CASE PowerLoss \/ UNCHANGED receipts
      BY <3>2 DEF PowerLoss
    <3>q. QED
      BY <3>1, <3>2 DEF Next, Step, StartPanel, StopPanel, Use, ReplayDone,
         ReplayFails, RemoveFile, SyncRemoval, Run, DesiredFails, Collect,
         AddTraffic, StoreFails, SyncStored, Rename, Die, vars
  <2>2. CASE RemoveFile
    BY <2>1, <2>2 DEF RemoveFile, Journal
  <2>3. CASE PowerLoss
    BY <2>1, <2>3 DEF PowerLoss, Journal
  <2>4. CASE SyncStored
    <3>1. kept' \in {kept, kept \cup {cur}} /\ visible' = visible
      BY <2>4 DEF SyncStored
    <3>q. QED
      BY <2>1, <2>4, <3>1 DEF SyncStored, Journal
  <2>5. CASE kept' = kept /\ visible \subseteq visible'
    BY <2>1, <2>5
  <2>6. CASE \E f \in Batch : ApplyBatch(f) \/ Rename(f)
    BY <2>5, <2>6 DEF ApplyBatch, Rename
  <2>7. CASE StartPanel \/ StopPanel \/ Die \/ \E u \in Unit : Use(u)
    BY <2>5, <2>7 DEF StartPanel, StopPanel, Die, Use
  <2>8. CASE ReplayDone \/ ReplayFails \/ SyncRemoval \/ Run \/ DesiredFails
              \/ Collect \/ AddTraffic \/ StoreFails \/ UNCHANGED vars
    BY <2>5, <2>8 DEF ReplayDone, ReplayFails, SyncRemoval, Run, DesiredFails,
       Collect, AddTraffic, StoreFails, vars
  <2>q. QED
    BY <2>2, <2>3, <2>4, <2>6, <2>7, <2>8 DEF Next, Step
<1>3. JournalInv /\ Outstanding => StoredIsSafe
  BY DEF JournalInv, Journal, StoredIsSafe
<1>q. QED
  BY <1>1, <1>2, <1>3, JournalInvariant, PTL DEF Spec
=============================================================================
