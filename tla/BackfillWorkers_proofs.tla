------------------------ MODULE BackfillWorkers_proofs ------------------------
(* What the goroutines of a window have done by the time it is recorded, on  *)
(* top of LossInv of Backfill_proofs, which says that its pairs are stored.  *)
EXTENDS Backfill_proofs

\* Calls whose failure keeps a goroutine from starting at its pair's creation:
\* a pair that is not inserted keeps an old row, and so does one whose progress
\* is not written.
Misleading == LossyCalls \cup {"UpdatePairProgress"}

\* ScanForPairs holds a pair between its insert and that of its progress.
PairHeld == IF pc = "init" THEN pd \in pairs ELSE pd = NoPair

\* The pairs of the window that have been inserted start from their creation,
\* whatever row an earlier run has left.
RowsFresh ==
    pc \in Scanning /\ ~ctxDone =>
        \A p \in found \ todoPairs : progress[p] = CreatedAt[p] \/ p = pd

\* Until its chunks begin, a pair's row is the block of its creation, so that
\* the branch of processPair for a pair without a row is never taken; and a
\* goroutine has no gap between the lowest block reached and its next chunk.
\* After the context is cancelled the row may be a higher block, but by then
\* no goroutine can read it.
Reach(p) ==
    /\ wpc[p] \notin {"created", "initialise"}
    /\ wpc[p] \in {"progress", "head"} /\ ~ctxDone => progress[p] = CreatedAt[p]
    /\ wpc[p] \in {"head", "chunk"} => lastProcessed[p] = CreatedAt[p]
    /\ wpc[p] \in Live => low[p] \in CreatedAt[p]..head
    /\ wpc[p] = "chunk" => p \in pairs /\ low[p] <= end[p]
    /\ wpc[p] = "done" => low[p] = CreatedAt[p]

\* Goroutines run only while Run waits for them, one per pair of the window.
Joined ==
    /\ pc # "wait" => \A p \in Pairs : wpc[p] \notin Live
    /\ pc \in {"wait", "record"} => \A p \in found : wpc[p] # "idle"

CoverInv == LossInv /\ PairHeld /\ Joined /\ RowsFresh /\ \A p \in Pairs : Reach(p)

\* The start of a process: nothing is found and no goroutine runs.
LEMMA CoverInit == Init => CoverInv
<1> SUFFICES ASSUME Init PROVE CoverInv
  OBVIOUS
<1>1. LossInv
  BY LossInit
<1>2. PairHeld /\ Joined /\ RowsFresh
  BY DEF Init, PairHeld, Joined, RowsFresh, Scanning, Idle, Live
<1>3. ASSUME NEW p \in Pairs PROVE Reach(p)
  BY DEF Init, Reach, Idle, Live
<1> QED
  BY <1>1, <1>2, <1>3 DEF CoverInv

\* A pair leaves the list of ScanForPairs only when its insert has returned,
\* and from then on it is held until its progress is written.
LEMMA HeldStep == PairHeld /\ [Next]_vars => PairHeld'
<1> USE DEF PairHeld, env, tables, scan, workers, tops
<1> SUFFICES ASSUME PairHeld, [Next]_vars PROVE PairHeld'
  OBVIOUS
<1>1. CASE NewBlock \/ Cancel \/ Exit \/ Restart
  BY <1>1 DEF NewBlock, Cancel, Exit, Restart, Forget, ResetScan, Dead
<1>2. CASE RunStep
  BY <1>2 DEF RunStep, Boot, Resume, Stop, Loop, FilterLogs, NextBatch, FetchMetadata,
     InsertToken, Panic, TokensDone, InsertPair, InitProgress, Spawn, NothingFound, Wait,
     Record, Forget, ResetScan
<1>3. CASE \E p \in Pairs : WorkerStep(p)
  BY <1>3 DEF WorkerStep, ReadProgress, ReadCreated, Initialise, ReadHead, Chunk, Complete
<1>4. CASE UNCHANGED vars
  BY <1>4 DEF vars
<1> QED
  BY <1>1, <1>2, <1>3, <1>4 DEF Next

\* A goroutine that runs is one of the window that Run waits for.
LEMMA JoinedStep == TypeOK /\ Joined /\ [Next]_vars => Joined'
<1> USE DEF Joined, env, tables, scan, workers, tops, Live
<1> SUFFICES ASSUME TypeOK, Joined, [Next]_vars PROVE Joined'
  OBVIOUS
<1>1. CASE NewBlock \/ Cancel \/ Exit \/ Restart
  BY <1>1 DEF NewBlock, Cancel, Exit, Restart, Forget, ResetScan, ResetWorkers, Idle, Dead
<1>2. CASE RunStep
  <2>1. CASE Panic \/ Record
    BY <2>1 DEF Panic, Record, Forget, ResetScan, ResetWorkers, Idle
  <2>2. CASE Spawn \/ NothingFound \/ Wait
    BY <2>2 DEF TypeOK, Spawn, NothingFound, Wait
  <2>3. CASE ~(Panic \/ Record \/ Spawn \/ NothingFound \/ Wait)
    BY <1>2, <2>3 DEF RunStep, Boot, Resume, Stop, Loop, FilterLogs, NextBatch, FetchMetadata,
       InsertToken, TokensDone, InsertPair, InitProgress
  <2> QED
    BY <2>1, <2>2, <2>3
<1>3. ASSUME NEW p \in Pairs, WorkerStep(p) PROVE Joined'
  <2>1. UNCHANGED <<pc, found>> /\ wpc[p] \in Live
    BY <1>3 DEF WorkerStep, ReadProgress, ReadCreated, Initialise, ReadHead, Chunk, Complete
  <2>2. wpc'[p] # "idle" /\ \A q \in Pairs \ {p} : wpc'[q] = wpc[q]
    BY <1>3 DEF WorkerStep, ReadProgress, ReadCreated, Initialise, ReadHead, Chunk, Complete,
       Goto, FailAttempt, TypeOK
  <2> QED
    BY <2>1, <2>2 DEF TypeOK
<1>4. CASE UNCHANGED vars
  BY <1>4 DEF vars
<1> QED
  BY <1>1, <1>2, <1>3, <1>4 DEF Next

\* Only InitProgress and the goroutines write the progress of a pair.
LEMMA FreshStep ==
    ASSUME CoverInv, [Next]_vars, FaultyCalls \cap Misleading = {}
    PROVE  RowsFresh'
<1> USE DEF env, tables, scan, workers, tops
<1>0. TypeOK
  BY DEF CoverInv, LossInv, ChainInv
<1>1. CASE NewBlock \/ Cancel \/ Exit \/ Restart
  BY <1>1 DEF CoverInv, RowsFresh, NewBlock, Cancel, Exit, Restart, Dead, Scanning
<1>2. CASE Boot \/ Resume \/ Stop \/ Loop \/ Panic \/ Spawn \/ NothingFound \/ Wait \/ Record
  BY <1>2 DEF RowsFresh, Boot, Resume, Stop, Loop, Panic, Spawn, NothingFound, Wait,
              Record, Scanning
<1>3. CASE FilterLogs
  BY <1>3 DEF FilterLogs, RowsFresh, Scanning
<1>4. CASE NextBatch \/ FetchMetadata \/ InsertToken \/ TokensDone
  BY <1>4 DEF CoverInv, RowsFresh, NextBatch, FetchMetadata, InsertToken, TokensDone, Scanning
<1>5. CASE InsertPair
  <2>1. PICK p \in todoPairs, o \in WriteOutcomes("InsertPair") :
           /\ todoPairs' = todoPairs \ {p}
           /\ o = "ok" /\ TokensOf[p] \subseteq tokens => pd' = p
    BY <1>5 DEF InsertPair
  <2>2. UNCHANGED <<ctxDone, found, progress>> /\ pc = "pairs"
    BY <1>5 DEF InsertPair
  <2>3. CASE ~ctxDone
    <3>1. o = "ok"
      BY <2>1, <2>3, CallSucceeds DEF Misleading, LossyCalls
    <3>2. TokensOf[p] \subseteq tokens
      BY <2>1, <2>2, <2>3
         DEF CoverInv, LossInv, FetchEmpty, TokensKept, PairsKept, InWindow, Scanning
    <3>3. pd = NoPair
      BY <2>2 DEF CoverInv, PairHeld
    <3> QED
      BY <1>0, <2>1, <2>2, <2>3, <3>1, <3>2, <3>3, ChainAssumption
         DEF CoverInv, RowsFresh, Scanning, TypeOK
  <2> QED
    BY <2>2, <2>3 DEF RowsFresh
<1>6. CASE InitProgress
  <2>1. PICK o \in WriteOutcomes("UpdatePairProgress") : PutProgress(pd, CreatedAt[pd], o)
    BY <1>6 DEF InitProgress
  <2>2. UNCHANGED <<ctxDone, found, todoPairs>> /\ pc = "init"
    BY <1>6 DEF InitProgress
  <2>3. CASE ~ctxDone
    <3>1. o = "ok"
      BY <2>1, <2>3, CallSucceeds DEF Misleading
    <3>2. pd \in pairs /\ pd \in Pairs
      BY <1>0, <2>2 DEF CoverInv, PairHeld, TypeOK
    <3>3. CreatedAt[pd] <= MaxBigint
      BY <3>2, ChainAssumption, ConfigAssumption
    <3>4. progress' = [progress EXCEPT ![pd] = CreatedAt[pd]]
      BY <2>1, <3>1, <3>2, <3>3 DEF PutProgress, Storable
    <3> QED
      BY <1>0, <2>2, <2>3, <3>2, <3>4 DEF CoverInv, RowsFresh, Scanning, TypeOK
  <2> QED
    BY <2>2, <2>3 DEF RowsFresh
<1>7. CASE \E p \in Pairs : WorkerStep(p)
  <2>1. PICK p \in Pairs : WorkerStep(p)
    BY <1>7
  <2>2. UNCHANGED pc /\ wpc[p] \in Live
    BY <2>1 DEF WorkerStep, ReadProgress, ReadCreated, Initialise, ReadHead, Chunk, Complete, Live
  <2> QED
    BY <2>2 DEF CoverInv, Joined, RowsFresh, Scanning
<1>8. CASE UNCHANGED vars
  BY <1>8 DEF vars, CoverInv, RowsFresh
<1> QED
  BY <1>1, <1>2, <1>3, <1>4, <1>5, <1>6, <1>7, <1>8 DEF Next, RunStep

\* What a goroutine that takes no step holds is disturbed by no growth of the
\* chain or of the table, by no cancellation, and not if its row is reset.
LEMMA ReachFrame ==
    ASSUME CoverInv, TypeOK', NEW p \in Pairs, head <= head', pairs \subseteq pairs',
           ctxDone => ctxDone', progress'[p] \in {progress[p], CreatedAt[p]},
           wpc'[p] = wpc[p], lastProcessed'[p] = lastProcessed[p],
           end'[p] = end[p], low'[p] = low[p]
    PROVE  Reach(p)'
<1>1. head \in Nat /\ head' \in Nat /\ CreatedAt[p] \in Nat
  BY ChainAssumption DEF CoverInv, LossInv, ChainInv, TypeOK
<1>2. Reach(p)
  BY DEF CoverInv
<1> QED
  BY <1>1, <1>2 DEF Reach

\* No claim is made of a goroutine that does not run or has failed.
LEMMA ReachIdle ==
    ASSUME NEW p, wpc'[p] \in {"idle", "failed"}
    PROVE  Reach(p)'
BY DEF Reach, Live

\* The surroundings leave the goroutines alone or end all of them.
LEMMA ReachProcess ==
    ASSUME CoverInv, TypeOK', NewBlock \/ Cancel \/ Exit \/ Restart, NEW p \in Pairs
    PROVE  Reach(p)'
<1> USE DEF env, tables, scan, workers, tops
<1>0. TypeOK /\ head \in Nat
  BY DEF CoverInv, LossInv, ChainInv, TypeOK
<1>1. CASE NewBlock
  BY <1>0, <1>1, ReachFrame DEF NewBlock
<1>2. CASE Cancel
  BY <1>0, <1>2, ReachFrame DEF Cancel
<1>3. CASE Exit
  BY <1>3, ReachIdle DEF Exit, Forget, ResetWorkers, Idle
<1>4. CASE Restart
  BY <1>0, <1>4, ReachFrame DEF Restart
<1> QED
  BY <1>1, <1>2, <1>3, <1>4

\* Run starts a goroutine on a fresh row, and resets it when all have ended.
LEMMA ReachRun ==
    ASSUME CoverInv, TypeOK', RunStep, NEW p \in Pairs
    PROVE  Reach(p)'
<1> USE DEF env, tables, scan, workers, tops
<1>0. TypeOK /\ head \in Nat
  BY DEF CoverInv, LossInv, ChainInv, TypeOK
<1>1. CASE Panic \/ Record
  BY <1>1, ReachIdle DEF Panic, Record, Forget, ResetWorkers, Idle
<1>2. CASE Spawn
  <2>1. CASE p \in found
    <3>1. /\ wpc'[p] = "progress" /\ low'[p] = head
          /\ UNCHANGED <<head, ctxDone, progress>>
      BY <1>2, <2>1 DEF Spawn
    <3>2. ~ctxDone => progress[p] = CreatedAt[p]
      BY <1>2, <2>1, ChainAssumption DEF Spawn, CoverInv, PairHeld, RowsFresh, Scanning
    <3>3. head \in CreatedAt[p]..head
      BY <1>0, <2>1, ChainAssumption DEF CoverInv, LossInv, ChainInv, Created
    <3> QED
      BY <3>1, <3>2, <3>3 DEF Reach
  <2>2. CASE p \notin found
    BY <1>2, <2>2, ReachIdle DEF Spawn
  <2> QED
    BY <2>1, <2>2
<1>3. CASE InitProgress
  <2>1. progress'[p] \in {progress[p], CreatedAt[p]}
    BY <1>0, <1>3 DEF InitProgress, PutProgress, TypeOK
  <2> QED
    BY <1>0, <1>3, <2>1, ReachFrame DEF InitProgress
<1>4. CASE InsertPair
  <2>1. pairs \subseteq pairs'
    BY <1>4 DEF InsertPair
  <2> QED
    BY <1>0, <1>4, <2>1, ReachFrame DEF InsertPair
<1>5. CASE ~(Panic \/ Record \/ Spawn \/ InitProgress \/ InsertPair)
  <2>1. UNCHANGED <<head, ctxDone, pairs, progress, wpc, lastProcessed, end, low>>
    BY <1>5 DEF RunStep, Boot, Resume, Stop, Loop, FilterLogs, NextBatch, FetchMetadata,
       InsertToken, TokensDone, NothingFound, Wait
  <2> QED
    BY <1>0, <2>1, ReachFrame
<1> QED
  BY <1>1, <1>2, <1>3, <1>4, <1>5

\* A chunk starts where the last one ended: an attempt whose write fails while
\* the context is alive would start above the blocks it has already done.
LEMMA ReachWorker ==
    ASSUME CoverInv, TypeOK', NEW p \in Pairs, WorkerStep(p),
           FaultyCalls \cap Misleading = {}
    PROVE  Reach(p)'
<1> USE DEF env, tables, scan, workers, tops, Goto, FailAttempt
<1>0. /\ TypeOK /\ head \in Nat /\ CreatedAt[p] \in Nat /\ Reach(p)
      /\ progress[p] # NoRow => p \in pairs
  BY ChainAssumption DEF CoverInv, LossInv, ChainInv, ProgressWithinChain, TypeOK
<1>1. CASE ReadProgress(p)
  <2>1. PICK o \in ReadOutcomes("GetPairProgress") :
           IF o # "ok" THEN FailAttempt(p) /\ UNCHANGED lastProcessed
           ELSE IF progress[p] = NoRow THEN Goto(p, "created") /\ UNCHANGED lastProcessed
           ELSE /\ lastProcessed' = [lastProcessed EXCEPT ![p] = progress[p]]
                /\ Goto(p, "head")
    BY <1>1 DEF ReadProgress
  <2>2. o = "ok" => ~ctxDone /\ progress[p] = CreatedAt[p]
    BY <1>0, <1>1, <2>1 DEF ReadOutcomes, ReadProgress, Reach
  <2> QED
    BY <1>0, <1>1, <2>1, <2>2, ChainAssumption DEF NoRow, ReadProgress, Reach, TypeOK, Live
<1>2. CASE ReadCreated(p) \/ Initialise(p)
  BY <1>0, <1>2 DEF ReadCreated, Initialise, Reach
<1>4. CASE ReadHead(p)
  <2>1. PICK o \in ReadOutcomes("GetCurrentBlock") :
           IF o = "ok" THEN end' = [end EXCEPT ![p] = head] /\ Goto(p, "chunk")
                       ELSE FailAttempt(p) /\ UNCHANGED end
    BY <1>4 DEF ReadHead
  <2>2. o = "ok" => ~ctxDone
    BY <2>1 DEF ReadOutcomes
  <2>3. ~ctxDone => progress[p] # NoRow
    BY <1>0, <1>4 DEF ReadHead, Reach, NoRow
  <2> QED
    BY <1>0, <1>4, <2>1, <2>2, <2>3 DEF ReadHead, Reach, TypeOK, Live
<1>5. CASE Chunk(p)
  <2> DEFINE start == ChunkStart(end[p], lastProcessed[p])
  <2>1. PICK o \in WriteOutcomes("UpdatePairProgress") :
           IF o = "ok" /\ Storable(p, end[p])
           THEN /\ end' = [end EXCEPT ![p] = start]
                /\ low' = [low EXCEPT ![p] = IF start < @ THEN start ELSE @]
                /\ UNCHANGED <<wpc, attempt>>
           ELSE FailAttempt(p) /\ UNCHANGED <<end, low>>
    BY <1>5 DEF Chunk
  <2>2. /\ lastProcessed[p] = CreatedAt[p] /\ low[p] \in CreatedAt[p]..head
        /\ p \in pairs /\ end[p] \in Uint64 /\ end[p] <= head /\ wpc[p] = "chunk"
        /\ lastProcessed[p] \in Uint64
    BY <1>0, <1>5 DEF Chunk, Reach, Live, TypeOK, CoverInv, LossInv, ChainInv, WorkerBounds
  <2>3. CASE ~ctxDone
    <3>1. Storable(p, end[p]) /\ o = "ok"
      BY <1>0, <2>1, <2>2, <2>3, CallSucceeds, ChainAssumption, ConfigAssumption
         DEF Storable, TypeOK, Misleading, Uint64
    <3>2. start \in Uint64 /\ start >= CreatedAt[p]
      BY <2>2, ChunkType
    <3>3. start <= end[p]
      <4>1. lastProcessed[p] \in CreatedAt[p]..head /\ end[p] > lastProcessed[p]
        BY <1>0, <1>5, <2>2 DEF Chunk
      <4> QED
        BY <1>0, <2>2, <4>1, ChunkBound
    <3> HIDE DEF start
    <3> QED
      BY <1>0, <1>5, <2>1, <2>2, <3>1, <3>2, <3>3 DEF Chunk, Reach, TypeOK, Live, Uint64
  <2>4. CASE ctxDone
    <3>1. o = "error"
      BY <2>1, <2>4 DEF WriteOutcomes, ReadOutcomes
    <3> QED
      BY <1>0, <1>5, <2>1, <2>2, <2>4, <3>1 DEF Chunk, Reach, TypeOK, Live
  <2> QED
    BY <2>3, <2>4
<1>6. CASE Complete(p)
  BY <1>0, <1>6 DEF Complete, Reach, TypeOK, Live, Uint64
<1> QED
  BY <1>1, <1>2, <1>4, <1>5, <1>6 DEF WorkerStep

\* A goroutine writes the row and the locals of its own pair only.
LEMMA ReachOthers ==
    ASSUME CoverInv, TypeOK', NEW p \in Pairs, WorkerStep(p), NEW q \in Pairs \ {p}
    PROVE  Reach(q)'
<1>0. TypeOK /\ head \in Nat
  BY DEF CoverInv, LossInv, ChainInv, TypeOK
<1>1. /\ UNCHANGED <<head, ctxDone, pairs>>
      /\ progress'[q] = progress[q] /\ wpc'[q] = wpc[q]
      /\ lastProcessed'[q] = lastProcessed[q] /\ end'[q] = end[q] /\ low'[q] = low[q]
  <2> USE <1>0 DEF TypeOK, Goto, FailAttempt, tables
  <2>1. CASE ReadProgress(p)
    BY <2>1 DEF ReadProgress
  <2>2. CASE ReadCreated(p)
    BY <2>2 DEF ReadCreated
  <2>4. CASE Initialise(p)
    BY <2>4 DEF Initialise, PutProgress
  <2>5. CASE ReadHead(p)
    BY <2>5 DEF ReadHead
  <2>6. CASE Complete(p)
    BY <2>6 DEF Complete, env
  <2>3. CASE Chunk(p)
    <3>1. UNCHANGED <<head, ctxDone, pairs, lastProcessed>>
      BY <2>3 DEF Chunk
    <3>2. PICK o : PutProgress(p, end[p], o)
      BY <2>3 DEF Chunk
    <3>3. progress'[q] = progress[q]
      BY <3>2 DEF PutProgress
    <3>4. wpc'[q] = wpc[q] /\ end'[q] = end[q] /\ low'[q] = low[q]
      BY <2>3 DEF Chunk
    <3> QED
      BY <3>1, <3>3, <3>4
  <2> QED
    BY <2>1, <2>2, <2>3, <2>4, <2>5, <2>6 DEF WorkerStep
<1> QED
  BY <1>0, <1>1, ReachFrame

\* CoverInv is inductive.
LEMMA CoverStep ==
    ASSUME FaultyCalls \cap Misleading = {}
    PROVE  CoverInv /\ [Next]_vars => CoverInv'
<1> SUFFICES ASSUME CoverInv, [Next]_vars PROVE CoverInv'
  OBVIOUS
<1>1. LossInv'
  BY LossStep DEF CoverInv, Misleading
<1>2. TypeOK /\ TypeOK'
  BY <1>1 DEF CoverInv, LossInv, ChainInv
<1>3. PairHeld' /\ Joined' /\ RowsFresh'
  BY <1>2, HeldStep, JoinedStep, FreshStep DEF CoverInv
<1>4. ASSUME NEW q \in Pairs PROVE Reach(q)'
  <2>1. CASE UNCHANGED vars
    BY <1>2, <2>1, ReachFrame DEF TypeOK, vars, env, tables, workers
  <2>2. ASSUME NEW p \in Pairs, WorkerStep(p) PROVE Reach(q)'
    BY <1>2, <2>2, ReachWorker, ReachOthers
  <2> QED
    BY <1>2, <2>1, <2>2, ReachProcess, ReachRun DEF Next
<1> QED
  BY <1>1, <1>3, <1>4 DEF CoverInv

\* A goroutine that reports success has handled every block between its pair's
\* creation and the head it started from, whatever row an earlier process that
\* was killed half-way has left, unless a write of a progress row or of the
\* pairs table fails: for any chain and any number of other faults and restarts.
THEOREM SuccessCoversPair ==
    ASSUME FaultyCalls \cap Misleading = {}
    PROVE  Spec => []SuccessCovers
<1>1. CoverInv /\ [Next]_vars => CoverInv'
  BY CoverStep
<1>2. CoverInv => SuccessCovers
  BY DEF CoverInv, Reach, SuccessCovers
<1> QED
  BY CoverInit, <1>1, <1>2, PTL DEF Spec

-----------------------------------------------------------------------------
(* Run does not pass over a failed goroutine.  While the context is alive an *)
(* attempt only fails with a call that failed, so that fewer faults than     *)
(* retries let every goroutine succeed; and afterwards the record fails.     *)

AttemptsCounted ==
    ~ctxDone => \A p \in Pairs : attempt[p] <= faults /\ wpc[p] # "failed"

\* A call that does not succeed, in a process not cancelled, is a fault.
LEMMA FaultCounted ==
    ASSUME TypeOK, NEW o, Count(o)
    PROVE  faults' \in Nat /\ faults <= faults' /\ (~ctxDone /\ o # "ok" => faults' = faults + 1)
BY DEF Count, TypeOK

\* A failed attempt leaves a further one, while there are fewer faults than
\* retries.
LEMMA FailCounted ==
    ASSUME TypeOK, TypeOK', AttemptsCounted, ~ctxDone, MaxFaults < MaxRetries,
           NEW p \in Pairs, FailAttempt(p), faults' = faults + 1
    PROVE  \A q \in Pairs : attempt'[q] <= faults' /\ wpc'[q] # "failed"
<1>1. attempt[p] + 1 < MaxRetries
  BY ConfigAssumption DEF TypeOK, AttemptsCounted
<1> QED
  BY <1>1 DEF FailAttempt, TypeOK, AttemptsCounted

\* A goroutine that goes on keeps its count of attempts.
LEMMA GoOnCounted ==
    ASSUME TypeOK, AttemptsCounted, ~ctxDone, NEW p \in Pairs, NEW label, label # "failed",
           Goto(p, label), faults' \in Nat, faults <= faults'
    PROVE  \A q \in Pairs : attempt'[q] <= faults' /\ wpc'[q] # "failed"
BY DEF Goto, TypeOK, AttemptsCounted

\* No goroutine fails without a fault of its own.
LEMMA CountedWorker ==
    ASSUME CoverInv, TypeOK', AttemptsCounted, NEW p \in Pairs, WorkerStep(p),
           FaultyCalls \cap Misleading = {}, MaxFaults < MaxRetries
    PROVE  AttemptsCounted'
<1> USE DEF env, tables, scan, workers, tops
<1>0. TypeOK /\ Reach(p) /\ (progress[p] # NoRow => p \in pairs) /\ CreatedAt[p] # NoRow
  BY ChainAssumption DEF CoverInv, LossInv, ChainInv, ProgressWithinChain, NoRow
<1> SUFFICES ASSUME ~ctxDone
             PROVE  \A q \in Pairs : attempt'[q] <= faults' /\ wpc'[q] # "failed"
  BY DEF WorkerStep, ReadProgress, ReadCreated, Initialise, ReadHead, Chunk, Complete,
     AttemptsCounted
<1>1. CASE ReadProgress(p)
  <2>1. PICK o : /\ Count(o)
                 /\ o # "ok" => FailAttempt(p)
                 /\ o = "ok" => Goto(p, "created") \/ Goto(p, "head")
    BY <1>1 DEF ReadProgress
  <2> QED
    BY <1>0, <2>1, FaultCounted, FailCounted, GoOnCounted
<1>2. CASE ReadHead(p)
  <2>1. PICK o : /\ Count(o)
                 /\ o # "ok" => FailAttempt(p)
                 /\ o = "ok" => Goto(p, "chunk")
    BY <1>2 DEF ReadHead
  <2> QED
    BY <1>0, <2>1, FaultCounted, FailCounted, GoOnCounted
<1>3. CASE Complete(p)
  BY <1>0, <1>3, GoOnCounted DEF Complete, TypeOK
<1>4. CASE Chunk(p)
  <2>1. PICK o \in WriteOutcomes("UpdatePairProgress") :
           /\ Count(o)
           /\ o = "ok" /\ Storable(p, end[p]) => UNCHANGED <<wpc, attempt>>
    BY <1>4 DEF Chunk
  <2>2. o = "ok"
    BY <2>1, CallSucceeds DEF Misleading
  <2>3. Storable(p, end[p])
    BY <1>0, <1>4, ChainAssumption, ConfigAssumption
       DEF Chunk, Reach, CoverInv, LossInv, ChainInv, WorkerBounds, Storable, TypeOK, Uint64
  <2> QED
    BY <1>0, <2>1, <2>2, <2>3, FaultCounted DEF AttemptsCounted, TypeOK
<1>5. CASE ReadCreated(p) \/ Initialise(p)
  BY <1>0, <1>5 DEF ReadCreated, Initialise, Reach
<1> QED
  BY <1>1, <1>2, <1>3, <1>4, <1>5 DEF WorkerStep

\* Run itself makes no attempt, and new goroutines have made none.
LEMMA CountedStep ==
    ASSUME CoverInv, TypeOK', AttemptsCounted, [Next]_vars,
           FaultyCalls \cap Misleading = {}, MaxFaults < MaxRetries
    PROVE  AttemptsCounted'
<1> USE DEF env, tables, scan, workers, tops
<1>0. TypeOK /\ faults' \in Nat
  BY DEF CoverInv, LossInv, ChainInv, TypeOK
<1>1. CASE Exit \/ Panic \/ Record
  BY <1>0, <1>1 DEF AttemptsCounted, Exit, Panic, Record, Forget, ResetWorkers, Idle, Zero
<1>2. CASE Spawn
  BY <1>0, <1>2 DEF AttemptsCounted, Spawn
<1>3. CASE NewBlock \/ Cancel \/ Restart \/ UNCHANGED vars
  BY <1>3 DEF AttemptsCounted, NewBlock, Cancel, Restart, vars
<1>4. CASE RunStep /\ ~(Panic \/ Record \/ Spawn)
  <2>1. UNCHANGED <<ctxDone, wpc, attempt>>
    BY <1>4 DEF RunStep, Boot, Resume, Stop, Loop, FilterLogs, NextBatch, FetchMetadata,
       InsertToken, TokensDone, InsertPair, InitProgress, NothingFound, Wait
  <2>2. faults <= faults'
    <3>1. (\E o : Count(o)) \/ UNCHANGED faults
      BY <1>4 DEF RunStep, Boot, Resume, Stop, Loop, FilterLogs, NextBatch, FetchMetadata,
         InsertToken, TokensDone, InsertPair, InitProgress, NothingFound, Wait
    <3> QED
      BY <1>0, <3>1 DEF Count, TypeOK
  <2> QED
    BY <1>0, <2>1, <2>2 DEF AttemptsCounted, TypeOK
<1>5. ASSUME NEW p \in Pairs, WorkerStep(p) PROVE AttemptsCounted'
  BY <1>5, CountedWorker
<1> QED
  BY <1>1, <1>2, <1>3, <1>4, <1>5 DEF Next

\* Only Record writes the global progress, with a context that is alive.
LEMMA RecordProcessed ==
    ASSUME CoverInv, AttemptsCounted, [Next]_vars, global' # global
    PROVE  \A p \in found : wpc[p] = "done"
<1>1. Record
  BY DEF Next, NewBlock, Cancel, Exit, Restart, RunStep, Boot, Resume, Stop, Loop, FilterLogs,
     NextBatch, FetchMetadata, InsertToken, Panic, TokensDone, InsertPair, InitProgress, Spawn,
     NothingFound, Wait, WorkerStep, ReadProgress, ReadCreated, Initialise, ReadHead, Chunk,
     Complete, vars, tables, env
<1>2. ~ctxDone /\ pc = "record"
  BY <1>1, AppliedIsLive DEF Record, RecordOutcomes
<1>3. ASSUME NEW p \in found PROVE wpc[p] = "done"
  <2>1. p \in Pairs /\ wpc[p] \in WorkerPc
    BY DEF CoverInv, LossInv, ChainInv, TypeOK
  <2>2. wpc[p] \notin Live \cup {"idle", "failed"}
    BY <1>2, <2>1 DEF CoverInv, Joined, AttemptsCounted
  <2> QED
    BY <2>1, <2>2 DEF WorkerPc
<1> QED
  BY <1>3

\* A window is recorded only when all of its pairs have been processed with
\* success, although Run only logs the errors it collects: while fewer calls
\* fail than a goroutine makes attempts, none fails for good before the
\* context is cancelled, and then nothing is recorded any more.
THEOREM WindowsAreProcessed ==
    ASSUME FaultyCalls \cap Misleading = {}, MaxFaults < MaxRetries
    PROVE  Spec => RecordedWhenProcessed
<1> DEFINE Inv == CoverInv /\ AttemptsCounted
<1>1. Init => Inv
  <2>1. Init => AttemptsCounted
    BY DEF Init, AttemptsCounted, Idle, Zero
  <2> QED
    BY <2>1, CoverInit
<1>2. Inv /\ [Next]_vars => Inv'
  <2>1. CoverInv /\ [Next]_vars => CoverInv'
    BY CoverStep
  <2> QED
    BY <2>1, CountedStep DEF CoverInv, LossInv, ChainInv
<1>3. Inv /\ [Next]_vars => [global' # global => \A p \in found : wpc[p] = "done"]_vars
  BY RecordProcessed
<1> QED
  BY <1>1, <1>2, <1>3, PTL DEF Spec, RecordedWhenProcessed
=============================================================================
