--------------------------- MODULE Backfill_proofs ---------------------------
(* Type correctness, block bounds and no lost pairs, for every chain, every *)
(* configuration and any number of faults and restarts.                    *)
EXTENDS Backfill, FiniteSetTheorems, TLAPS

-----------------------------------------------------------------------------
(* Lemmas about the operators the model is built from.                     *)

\* The wrapping subtraction of a block range or a chunk is a uint64.
LEMMA MinusType ==
    ASSUME NEW x \in Uint64, NEW n \in 0..MaxBigint + 1
    PROVE  Minus(x, n) \in Uint64
BY ConfigAssumption DEF Minus, Uint64

\* startBlock of a window is a uint64.
LEMMA WindowType == ASSUME NEW x \in Uint64 PROVE WindowStart(x) \in Uint64
BY MinusType, ConfigAssumption DEF WindowStart

\* The lower end of a chunk is a uint64, not below what was processed.
LEMMA ChunkType ==
    ASSUME NEW e \in Uint64, NEW lp \in Uint64
    PROVE  ChunkStart(e, lp) \in Uint64 /\ ChunkStart(e, lp) >= lp
BY MinusType, ConfigAssumption DEF ChunkStart, Uint64

\* Failed calls are counted up to the bound.
LEMMA CountType ==
    ASSUME faults \in 0..MaxFaults, NEW call, NEW o \in WriteOutcomes(call), Count(o)
    PROVE  faults' \in 0..MaxFaults
BY ConfigAssumption DEF WriteOutcomes, ReadOutcomes, MayFail, Count

\* A read can have no outcome that a write cannot have.
LEMMA ReadIsWrite ==
    ASSUME NEW call PROVE ReadOutcomes(call) \subseteq WriteOutcomes(call)
BY DEF WriteOutcomes

\* An update of the progress of a pair stores a BIGINT, or nothing.
LEMMA PutType ==
    ASSUME progress \in [Pairs -> {NoRow} \cup 0..MaxBigint],
           NEW p, NEW b \in Nat, NEW o, PutProgress(p, b, o)
    PROVE  progress' \in [Pairs -> {NoRow} \cup 0..MaxBigint]
<1>1. CASE o # "error" /\ Storable(p, b)
  <2>1. b \in 0..MaxBigint
    BY <1>1, ConfigAssumption DEF Storable
  <2>2. progress' = [progress EXCEPT ![p] = b]
    BY <1>1 DEF PutProgress
  <2> QED
    BY <2>1, <2>2
<1>2. CASE ~(o # "error" /\ Storable(p, b))
  BY <1>2 DEF PutProgress
<1> QED
  BY <1>1, <1>2

\* An attempt that fails stays within its retries.
LEMMA FailType ==
    ASSUME attempt \in [Pairs -> 0..MaxRetries - 1], wpc \in [Pairs -> WorkerPc],
           NEW p \in Pairs, FailAttempt(p)
    PROVE  attempt' \in [Pairs -> 0..MaxRetries - 1] /\ wpc' \in [Pairs -> WorkerPc]
BY ConfigAssumption DEF FailAttempt, WorkerPc, Live

\* However many fallbacks there are, the entries of metadata can be counted.
LEMMA EntriesType == ASSUME TypeOK, NEW o PROVE EntryCounts(o) \subseteq Nat
<1>1. ASSUME NEW fallback \in SUBSET fetch
      PROVE  Cardinality((fetch \ Unreadable) \cup fallback) \in Nat
  <2>1. IsFiniteSet((fetch \ Unreadable) \cup fallback)
    BY FS_Subset, ChainAssumption DEF TypeOK
  <2> QED
    BY <2>1, FS_CardinalityType
<1> QED
  BY <1>1 DEF EntryCounts

\* The locals of goroutines that do not run are well typed.
LEMMA ResetType ==
    /\ Idle \in [Pairs -> WorkerPc]
    /\ Zero \in [Pairs -> Uint64] /\ Zero \in [Pairs -> 0..MaxRetries - 1]
BY ConfigAssumption DEF Idle, Zero, WorkerPc, Uint64

-----------------------------------------------------------------------------
(* Type correctness.                                                       *)

\* The tables RunMigrations leaves, and the locals of a Run that has not started,
\* are well typed.
LEMMA TypeInit == Init => TypeOK
<1> SUFFICES ASSUME Init PROVE TypeOK
  OBVIOUS
<1>1. progress \in [Pairs -> {NoRow} \cup 0..MaxBigint]
  BY DEF Init
<1>2. 0 \in Uint64 /\ 0 \in 0..MaxBigint
  BY ConfigAssumption DEF Uint64
<1>3. /\ wpc \in [Pairs -> WorkerPc] /\ attempt \in [Pairs -> 0..MaxRetries - 1]
      /\ lastProcessed \in [Pairs -> Uint64] /\ end \in [Pairs -> Uint64]
      /\ low \in [Pairs -> Uint64]
  BY ResetType DEF Init
<1>4. head \in 1..MaxHead /\ faults \in 0..MaxFaults /\ restarts \in 0..MaxRestarts
  BY ChainAssumption, ConfigAssumption DEF Init
<1> QED
  BY <1>1, <1>2, <1>3, <1>4 DEF Init, TypeOK, RunPc

\* Types survive a new block, a cancellation, the end of the process and its start.
LEMMA TypeProcess ==
    ASSUME TypeOK, NewBlock \/ Cancel \/ Exit \/ Restart
    PROVE  TypeOK'
<1> USE ChainAssumption, ConfigAssumption
        DEF TypeOK, RunPc, env, tables, scan, workers, tops
<1>1. CASE NewBlock
  BY <1>1 DEF NewBlock
<1>2. CASE Cancel
  BY <1>2 DEF Cancel
<1>3. CASE Exit
  <2>1. 0 \in Uint64
    BY DEF Uint64
  <2>2. restarts' \in 0..MaxRestarts
    BY <1>3 DEF Exit
  <2>3. pc' \in RunPc
    BY <1>3 DEF Exit, Dead
  <2>4. (/\ wpc \in [Pairs -> WorkerPc] /\ attempt \in [Pairs -> 0..MaxRetries - 1]
         /\ lastProcessed \in [Pairs -> Uint64] /\ end \in [Pairs -> Uint64]
         /\ low \in [Pairs -> Uint64])'
    BY <1>3, ResetType DEF Exit, Forget, ResetWorkers
  <2> QED
    BY <1>3, <2>1, <2>2, <2>3, <2>4 DEF Exit, Forget, ResetScan
<1>4. CASE Restart
  BY <1>4 DEF Restart
<1> QED
  BY <1>1, <1>2, <1>3, <1>4

\* Types survive every call and assignment of Run and of ScanForPairs.
LEMMA TypeRun ==
    ASSUME TypeOK, RunStep
    PROVE  TypeOK'
<1> USE ChainAssumption, ConfigAssumption, CountType, ReadIsWrite
        DEF TypeOK, RunPc, env, tables, scan, workers, tops
<1>1. CASE Boot
  BY <1>1 DEF Boot, Uint64
<1>2. CASE Resume
  BY <1>2 DEF Resume, Uint64
<1>3. CASE Stop
  BY <1>3 DEF Stop
<1>4. CASE Loop
  BY <1>4 DEF Loop, Uint64
<1>5. CASE FilterLogs
  <2>1. UNION {TokensOf[p] : p \in LogsIn(WindowStart(last), last)} \subseteq Tokens
    BY DEF LogsIn
  <2> QED
    BY <1>5, <2>1 DEF FilterLogs, LogsIn, Scanning
<1>6. CASE NextBatch
  BY <1>6 DEF NextBatch, Batches, Scanning
<1>7. CASE FetchMetadata
  BY <1>7, EntriesType DEF FetchMetadata, Scanning
<1>8. CASE InsertToken
  BY <1>8 DEF InsertToken, Scanning
<1>9. CASE Panic
  <2>1. 0 \in Uint64
    BY DEF Uint64
  <2> QED
    BY <1>9, <2>1, ResetType DEF Panic, Forget, ResetScan, ResetWorkers, Dead
<1>10. CASE TokensDone
  BY <1>10 DEF TokensDone, Scanning
<1>11. CASE InsertPair
  BY <1>11 DEF InsertPair, Scanning
<1>12. CASE InitProgress
  <2>1. PICK o \in WriteOutcomes("UpdatePairProgress") :
           Count(o) /\ PutProgress(pd, CreatedAt[pd], o)
    BY <1>12 DEF InitProgress
  <2>2. progress' \in [Pairs -> {NoRow} \cup 0..MaxBigint]
    BY <2>1, PutType DEF PutProgress, Storable
  <2> QED
    BY <1>12, <2>1, <2>2 DEF InitProgress, Scanning
<1>13. CASE Spawn
  BY <1>13 DEF Spawn, Uint64, WorkerPc, Live
<1>14. CASE NothingFound
  BY <1>14 DEF NothingFound
<1>15. CASE Wait
  BY <1>15 DEF Wait
<1>16. CASE Record
  <2>1. last <= MaxBigint => last \in 0..MaxBigint
    BY DEF Uint64
  <2> QED
    BY <1>16, <2>1, WindowType, ResetType
       DEF Record, RecordOutcomes, NextLast, Genesis, ResetScan, ResetWorkers
<1> QED
  BY <1>1, <1>2, <1>3, <1>4, <1>5, <1>6, <1>7, <1>8, <1>9, <1>10, <1>11, <1>12,
     <1>13, <1>14, <1>15, <1>16 DEF RunStep

\* Types survive every call and assignment of processPair and its retries.
LEMMA TypeWorker ==
    ASSUME TypeOK, NEW p \in Pairs, WorkerStep(p)
    PROVE  TypeOK'
<1> USE ChainAssumption, ConfigAssumption, CountType, ReadIsWrite, FailType
        DEF TypeOK, env, tables, scan, workers, tops, Goto, WorkerPc, Live
<1>1. CASE ReadProgress(p)
  BY <1>1 DEF ReadProgress, Uint64
<1>2. CASE ReadCreated(p)
  BY <1>2 DEF ReadCreated, Uint64
<1>3. CASE Initialise(p)
  <2>1. PICK o \in WriteOutcomes("UpdatePairProgress") :
           Count(o) /\ PutProgress(p, lastProcessed[p], o)
    BY <1>3 DEF Initialise
  <2>2. lastProcessed[p] \in Nat
    BY DEF Uint64
  <2>3. progress' \in [Pairs -> {NoRow} \cup 0..MaxBigint]
    BY <2>1, <2>2, PutType
  <2> QED
    BY <1>3, <2>1, <2>3 DEF Initialise
<1>4. CASE ReadHead(p)
  BY <1>4 DEF ReadHead, Uint64
<1>5. CASE Chunk(p)
  <2>1. PICK o \in WriteOutcomes("UpdatePairProgress") :
           Count(o) /\ PutProgress(p, end[p], o)
    BY <1>5 DEF Chunk
  <2>2. end[p] \in Nat
    BY DEF Uint64
  <2>3. progress' \in [Pairs -> {NoRow} \cup 0..MaxBigint]
    BY <2>1, <2>2, PutType
  <2>4. ChunkStart(end[p], lastProcessed[p]) \in Uint64
    BY ChunkType
  <2> QED
    BY <1>5, <2>1, <2>3, <2>4 DEF Chunk
<1>6. CASE Complete(p)
  BY <1>6 DEF Complete
<1> QED
  BY <1>1, <1>2, <1>3, <1>4, <1>5, <1>6 DEF WorkerStep

\* TypeOK is inductive.
LEMMA TypeStep == TypeOK /\ [Next]_vars => TypeOK'
<1> SUFFICES ASSUME TypeOK, [Next]_vars PROVE TypeOK'
  OBVIOUS
<1>1. CASE UNCHANGED vars
  BY <1>1 DEF TypeOK, vars, env, tables, scan, workers, tops
<1> QED
  BY <1>1, TypeProcess, TypeRun, TypeWorker DEF Next

\* Every variable keeps the range of its Go type or column: both subtractions
\* wrap within uint64 and whatever is stored fits BIGINT.
THEOREM TypeCorrect == Spec => []TypeOK
BY TypeInit, TypeStep, PTL DEF Spec

-----------------------------------------------------------------------------
(* Blocks stay on the chain.  ProgressWithinChain is not inductive: a row   *)
(* is written from the locals of a goroutine, and the cursor from a window  *)
(* that the node has accepted, so the invariant bounds those too.           *)

InWindow == Scanning \cup {"wait", "record"}

\* Stored and listed pairs have been created.
Created == \A p \in pairs \cup found \cup todoPairs : CreatedAt[p] <= head

\* The window under way is not inverted, so its start did not wrap.
WindowValid == pc \in InWindow => WindowStart(last) <= last

\* A goroutine works between its pair's creation and the head.
WorkerBounds ==
    \A p \in Pairs :
        /\ wpc[p] \in {"initialise", "head", "chunk"} =>
              lastProcessed[p] \in CreatedAt[p]..head
        /\ wpc[p] = "chunk" => end[p] <= head

ChainInv == TypeOK /\ ProgressWithinChain /\ Created /\ WindowValid /\ WorkerBounds

\* A chunk of a pair that the factory created never wraps.
LEMMA ChunkBound ==
    ASSUME NEW p \in Pairs, NEW e \in Uint64, NEW lp \in CreatedAt[p]..head, head \in Nat, e > lp
    PROVE  ChunkStart(e, lp) <= e
<1>1. e >= ChunkSize
  BY FactoryAssumption, ChainAssumption, ConfigAssumption DEF Uint64
<1> QED
  BY <1>1, ChainAssumption, ConfigAssumption DEF ChunkStart, Minus, Uint64

\* Before anything is recorded every block is 0.
LEMMA ChainInit == Init => ChainInv
<1> SUFFICES ASSUME Init PROVE ChainInv
  OBVIOUS
<1>1. TypeOK
  BY TypeInit
<1>2. ProgressWithinChain
  BY ChainAssumption DEF Init, ProgressWithinChain
<1>3. Created /\ WindowValid /\ WorkerBounds
  BY DEF Init, Created, WindowValid, WorkerBounds, InWindow, Scanning, Idle
<1> QED
  BY <1>1, <1>2, <1>3 DEF ChainInv

\* Steps that leave the tables alone, take a block only from one that is
\* already bounded, and open no window, keep every bound.
LEMMA ChainFrame ==
    ASSUME ChainInv, TypeOK', head <= head', UNCHANGED <<pairs, progress, global, recTop>>,
           {cur', last', liveTop'} \subseteq {0, cur, last, liveTop, recTop, global, head},
           found' \cup todoPairs' \subseteq found \cup todoPairs \cup pairs,
           pc' \in InWindow => pc \in InWindow /\ last' = last,
           \A p \in Pairs :
              \/ wpc'[p] \in {"idle", "progress", "created", "done", "failed"}
              \/ /\ wpc'[p] = wpc[p] /\ lastProcessed'[p] = lastProcessed[p]
                 /\ end'[p] = end[p]
    PROVE  ChainInv'
<1>1. ProgressWithinChain'
  <2>1. {cur', last', liveTop', recTop', global'} \subseteq 0..head'
    BY ChainAssumption DEF ChainInv, TypeOK, ProgressWithinChain
  <2>2. ASSUME NEW p \in Pairs, progress'[p] # NoRow
        PROVE  p \in pairs' /\ progress'[p] \in CreatedAt[p]..head'
    BY <2>2, ChainAssumption DEF ChainInv, TypeOK, ProgressWithinChain
  <2> QED
    BY <2>1, <2>2 DEF ProgressWithinChain
<1>2. Created'
  BY ChainAssumption DEF ChainInv, TypeOK, Created
<1>3. WindowValid'
  BY DEF ChainInv, WindowValid, WindowStart, Minus
<1>4. WorkerBounds'
  <2> SUFFICES ASSUME NEW p \in Pairs
               PROVE  /\ wpc'[p] \in {"initialise", "head", "chunk"} =>
                            lastProcessed'[p] \in CreatedAt[p]..head'
                      /\ wpc'[p] = "chunk" => end'[p] <= head'
    BY DEF WorkerBounds
  <2>1. CASE wpc'[p] \in {"idle", "progress", "created", "done", "failed"}
    BY <2>1
  <2>2. CASE /\ wpc'[p] = wpc[p] /\ lastProcessed'[p] = lastProcessed[p]
             /\ end'[p] = end[p]
    <3>1. CreatedAt[p] \in Nat /\ end[p] \in Nat /\ head \in Nat /\ head' \in Nat
      BY ChainAssumption DEF ChainInv, TypeOK, Uint64
    <3> QED
      BY <2>2, <3>1 DEF ChainInv, WorkerBounds
  <2> QED
    BY <2>1, <2>2
<1> QED
  BY <1>1, <1>2, <1>3, <1>4 DEF ChainInv

\* The chain only grows, and a process that ends forgets its blocks.
LEMMA ChainProcess ==
    ASSUME ChainInv, TypeOK', NewBlock \/ Cancel \/ Exit \/ Restart
    PROVE  ChainInv'
<1> USE DEF env, tables, scan, workers, tops
<1>0. TypeOK /\ head \in Nat
  BY DEF ChainInv, TypeOK
<1>1. CASE NewBlock
  <2>1. head <= head'
    BY <1>0, <1>1 DEF NewBlock
  <2> QED
    BY <1>1, <2>1, ChainFrame DEF NewBlock
<1>2. CASE Cancel
  BY <1>0, <1>2, ChainFrame DEF Cancel
<1>3. CASE Exit
  <2>1. pc' \notin InWindow /\ \A p \in Pairs : wpc'[p] = "idle"
    BY <1>3 DEF Exit, Forget, ResetWorkers, Idle, InWindow, Scanning
  <2> QED
    BY <1>0, <1>3, <2>1, ChainFrame DEF Exit, Forget, ResetScan
<1>4. CASE Restart
  <2>1. pc' \notin InWindow
    BY <1>4 DEF Restart, InWindow, Scanning
  <2> QED
    BY <1>0, <1>4, <2>1, ChainFrame DEF Restart
<1> QED
  BY <1>1, <1>2, <1>3, <1>4

\* Run takes blocks from the head, from the rows, or from an accepted window.
LEMMA ChainRun ==
    ASSUME ChainInv, TypeOK', RunStep
    PROVE  ChainInv'
<1> USE DEF env, tables, scan, workers, tops
<1>0. TypeOK /\ head \in Nat
  BY DEF ChainInv, TypeOK
<1>1. CASE Boot
  BY <1>0, <1>1, ChainFrame DEF Boot, InWindow, Scanning
<1>2. CASE Resume
  BY <1>0, <1>2, ChainFrame DEF Resume, InWindow, Scanning
<1>3. CASE Stop
  BY <1>0, <1>3, ChainFrame DEF Stop, InWindow, Scanning
<1>4. CASE Loop
  BY <1>0, <1>4, ChainFrame DEF Loop, InWindow, Scanning
<1>5. CASE FilterLogs
  <2>1. ProgressWithinChain'
    BY <1>5 DEF FilterLogs, ChainInv, ProgressWithinChain
  <2>2. Created'
    BY <1>0, <1>5 DEF FilterLogs, ChainInv, Created, LogsIn
  <2>3. WindowValid'
    BY <1>5 DEF FilterLogs, WindowValid, RangeAccepted, InWindow, Scanning, WindowStart, Minus
  <2>4. WorkerBounds'
    BY <1>5 DEF FilterLogs, ChainInv, WorkerBounds
  <2> QED
    BY <2>1, <2>2, <2>3, <2>4 DEF ChainInv
<1>6. CASE NextBatch
  BY <1>0, <1>6, ChainFrame DEF NextBatch, InWindow, Scanning
<1>7. CASE FetchMetadata
  BY <1>0, <1>7, ChainFrame DEF FetchMetadata, InWindow, Scanning
<1>8. CASE InsertToken
  BY <1>0, <1>8, ChainFrame DEF InsertToken, InWindow, Scanning
<1>9. CASE Panic
  <2>1. pc' \notin InWindow /\ \A p \in Pairs : wpc'[p] = "idle"
    BY <1>9 DEF Panic, Forget, ResetWorkers, Idle, InWindow, Scanning
  <2> QED
    BY <1>0, <1>9, <2>1, ChainFrame DEF Panic, Forget, ResetScan
<1>10. CASE TokensDone
  BY <1>0, <1>10, ChainFrame DEF TokensDone, InWindow, Scanning
<1>11. CASE InsertPair
  <2>1. ProgressWithinChain'
    BY <1>11 DEF InsertPair, ChainInv, ProgressWithinChain
  <2>2. Created'
    BY <1>11 DEF InsertPair, ChainInv, Created
  <2>3. WindowValid'
    BY <1>11 DEF InsertPair, ChainInv, WindowValid, InWindow, Scanning, WindowStart, Minus
  <2>4. WorkerBounds'
    BY <1>11 DEF InsertPair, ChainInv, WorkerBounds
  <2> QED
    BY <2>1, <2>2, <2>3, <2>4 DEF ChainInv
<1>12. CASE InitProgress
  <2>1. PICK o : PutProgress(pd, CreatedAt[pd], o)
    BY <1>12 DEF InitProgress
  <2>2. ASSUME NEW p \in Pairs, progress'[p] # NoRow
        PROVE  p \in pairs' /\ progress'[p] \in CreatedAt[p]..head'
    <3>1. CASE progress'[p] = progress[p]
      BY <1>12, <2>2, <3>1 DEF InitProgress, ChainInv, ProgressWithinChain
    <3>2. CASE progress'[p] # progress[p]
      <4>1. p = pd /\ pd \in pairs /\ progress'[p] = CreatedAt[p]
        BY <1>0, <2>1, <3>2 DEF PutProgress, Storable, TypeOK
      <4> QED
        BY <1>0, <1>12, <4>1, ChainAssumption DEF InitProgress, ChainInv, Created
    <3> QED
      BY <3>1, <3>2
  <2>3. ProgressWithinChain'
    BY <1>12, <2>2 DEF InitProgress, ChainInv, ProgressWithinChain
  <2>4. Created' /\ WindowValid' /\ WorkerBounds'
    BY <1>12 DEF InitProgress, ChainInv, Created, WindowValid, WorkerBounds, InWindow,
                 Scanning, WindowStart, Minus
  <2> QED
    BY <2>3, <2>4 DEF ChainInv
<1>13. CASE Spawn
  <2>1. \A p \in Pairs : wpc'[p] \in {"idle", "progress"}
    BY <1>13 DEF Spawn
  <2> QED
    BY <1>0, <1>13, <2>1, ChainFrame DEF Spawn, InWindow, Scanning
<1>14. CASE NothingFound
  BY <1>0, <1>14, ChainFrame DEF NothingFound, InWindow, Scanning
<1>15. CASE Wait
  BY <1>0, <1>15, ChainFrame DEF Wait, InWindow, Scanning
<1>16. CASE Record
  <2>1. NextLast(last, cur) \in 0..head
    BY <1>0, <1>16 DEF Record, NextLast, Genesis, ChainInv, WindowValid, ProgressWithinChain,
                       InWindow, TypeOK, Uint64, WindowStart, Minus
  <2>2. ProgressWithinChain'
    BY <1>16, <2>1 DEF Record, ChainInv, ProgressWithinChain
  <2>3. Created'
    BY <1>16 DEF Record, ResetScan, ChainInv, Created
  <2>4. WindowValid' /\ WorkerBounds'
    BY <1>16 DEF Record, ResetWorkers, Idle, WindowValid, WorkerBounds, InWindow, Scanning
  <2> QED
    BY <2>2, <2>3, <2>4 DEF ChainInv
<1> QED
  BY <1>1, <1>2, <1>3, <1>4, <1>5, <1>6, <1>7, <1>8, <1>9, <1>10, <1>11, <1>12,
     <1>13, <1>14, <1>15, <1>16 DEF RunStep

\* A goroutine that stores the block b of its own pair within its bounds, and
\* keeps its locals within them, keeps every bound.
LEMMA ChainWrite ==
    ASSUME ChainInv, TypeOK', NEW p \in Pairs, NEW o, NEW b \in CreatedAt[p]..head,
           PutProgress(p, b, o),
           UNCHANGED <<head, pairs, global, pc, last, cur, scan, lastProcessed, tops>>,
           \/ wpc'[p] \in {"progress", "failed"}
           \/ wpc'[p] = wpc[p]
           \/ (wpc'[p] = "head" /\ wpc[p] = "initialise"),
           end'[p] <= end[p],
           \A q \in Pairs \ {p} : wpc'[q] = wpc[q] /\ end'[q] = end[q]
    PROVE  ChainInv'
<1>0. TypeOK /\ head \in Nat /\ CreatedAt[p] \in Nat
  BY ChainAssumption DEF ChainInv, TypeOK
<1>1. ASSUME NEW q \in Pairs, progress'[q] # NoRow
      PROVE  q \in pairs' /\ progress'[q] \in CreatedAt[q]..head'
  <2>1. CASE progress'[q] = progress[q]
    BY <1>1, <2>1 DEF ChainInv, ProgressWithinChain
  <2>2. CASE progress'[q] # progress[q]
    BY <1>0, <2>2 DEF PutProgress, Storable, TypeOK
  <2> QED
    BY <2>1, <2>2
<1>2. ProgressWithinChain'
  BY <1>1 DEF ChainInv, ProgressWithinChain, tops
<1>3. Created' /\ WindowValid'
  BY DEF ChainInv, Created, WindowValid, WindowStart, Minus, scan
<1>4. WorkerBounds'
  <2> SUFFICES ASSUME NEW q \in Pairs
               PROVE  /\ wpc'[q] \in {"initialise", "head", "chunk"} =>
                            lastProcessed'[q] \in CreatedAt[q]..head'
                      /\ wpc'[q] = "chunk" => end'[q] <= head'
    BY DEF WorkerBounds
  <2>1. end[p] \in Nat /\ end'[p] \in Nat
    BY <1>0 DEF TypeOK, Uint64
  <2> QED
    BY <1>0, <2>1 DEF ChainInv, WorkerBounds
<1> QED
  BY <1>2, <1>3, <1>4 DEF ChainInv

\* A goroutine's blocks lie between its pair's creation and the head it read.
LEMMA ChainWorker ==
    ASSUME ChainInv, TypeOK', NEW p \in Pairs, WorkerStep(p)
    PROVE  ChainInv'
<1> USE DEF env, tables, scan, workers, tops, Goto, FailAttempt
<1>0. TypeOK /\ head \in Nat /\ CreatedAt[p] \in Nat
  BY ChainAssumption DEF ChainInv, TypeOK
<1>1. CASE ReadProgress(p)
  <2>1. ProgressWithinChain' /\ Created' /\ WindowValid'
    BY <1>1 DEF ReadProgress, ChainInv, ProgressWithinChain, Created, WindowValid,
                WindowStart, Minus
  <2>2. ASSUME NEW q \in Pairs
        PROVE  /\ wpc'[q] \in {"initialise", "head", "chunk"} =>
                     lastProcessed'[q] \in CreatedAt[q]..head'
               /\ wpc'[q] = "chunk" => end'[q] <= head'
    BY <1>0, <1>1 DEF ReadProgress, ChainInv, WorkerBounds, ProgressWithinChain, TypeOK
  <2> QED
    BY <2>1, <2>2 DEF ChainInv, WorkerBounds
<1>2. CASE ReadCreated(p)
  <2>1. ProgressWithinChain' /\ Created' /\ WindowValid'
    BY <1>2 DEF ReadCreated, ChainInv, ProgressWithinChain, Created, WindowValid,
                WindowStart, Minus
  <2>2. ASSUME NEW q \in Pairs
        PROVE  /\ wpc'[q] \in {"initialise", "head", "chunk"} =>
                     lastProcessed'[q] \in CreatedAt[q]..head'
               /\ wpc'[q] = "chunk" => end'[q] <= head'
    BY <1>0, <1>2 DEF ReadCreated, ChainInv, WorkerBounds, Created, TypeOK
  <2> QED
    BY <2>1, <2>2 DEF ChainInv, WorkerBounds
<1>3. CASE Initialise(p)
  <2>1. PICK o : PutProgress(p, lastProcessed[p], o)
    BY <1>3 DEF Initialise
  <2>2. lastProcessed[p] \in CreatedAt[p]..head
    BY <1>3 DEF Initialise, ChainInv, WorkerBounds
  <2>3. /\ wpc'[p] \in {"progress", "failed", "head"}
        /\ \A q \in Pairs \ {p} : wpc'[q] = wpc[q]
    BY <1>0, <1>3 DEF Initialise, TypeOK
  <2>4. end' = end /\ end[p] <= end[p] /\ wpc[p] = "initialise"
    BY <1>0, <1>3 DEF Initialise, TypeOK, Uint64
  <2> QED
    BY <1>3, <2>1, <2>2, <2>3, <2>4, ChainWrite DEF Initialise
<1>4. CASE ReadHead(p)
  <2>1. ProgressWithinChain' /\ Created' /\ WindowValid'
    BY <1>4 DEF ReadHead, ChainInv, ProgressWithinChain, Created, WindowValid,
                WindowStart, Minus
  <2>2. ASSUME NEW q \in Pairs
        PROVE  /\ wpc'[q] \in {"initialise", "head", "chunk"} =>
                     lastProcessed'[q] \in CreatedAt[q]..head'
               /\ wpc'[q] = "chunk" => end'[q] <= head'
    BY <1>0, <1>4 DEF ReadHead, ChainInv, WorkerBounds, TypeOK
  <2> QED
    BY <2>1, <2>2 DEF ChainInv, WorkerBounds
<1>5. CASE Chunk(p)
  <2>1. PICK o : PutProgress(p, end[p], o)
    BY <1>5 DEF Chunk
  <2>2. /\ lastProcessed[p] \in CreatedAt[p]..head /\ end[p] <= head
        /\ end[p] \in Uint64 /\ end[p] > lastProcessed[p]
    BY <1>0, <1>5 DEF Chunk, ChainInv, WorkerBounds, TypeOK
  <2>3. end[p] \in CreatedAt[p]..head
    BY <1>0, <2>2 DEF Uint64
  <2>4. ChunkStart(end[p], lastProcessed[p]) <= end[p]
    BY <1>0, <2>2, ChunkBound
  <2>5. end'[p] <= end[p] /\ \A q \in Pairs \ {p} : end'[q] = end[q]
    BY <1>0, <1>5, <2>2, <2>4 DEF Chunk, TypeOK, Uint64
  <2>6. /\ wpc'[p] \in {"progress", "failed"} \/ wpc'[p] = wpc[p]
        /\ \A q \in Pairs \ {p} : wpc'[q] = wpc[q]
    BY <1>0, <1>5 DEF Chunk, TypeOK
  <2>7. UNCHANGED <<head, pairs, global, pc, last, cur, scan, lastProcessed, tops>>
    BY <1>5 DEF Chunk
  <2> QED
    BY <2>1, <2>3, <2>5, <2>6, <2>7, ChainWrite
<1>6. CASE Complete(p)
  <2>1. \A q \in Pairs : wpc'[q] \in {"done"} \/ wpc'[q] = wpc[q]
    BY <1>0, <1>6 DEF Complete, TypeOK
  <2> QED
    BY <1>0, <1>6, <2>1, ChainFrame DEF Complete
<1> QED
  BY <1>1, <1>2, <1>3, <1>4, <1>5, <1>6 DEF WorkerStep

\* ChainInv is inductive.
LEMMA ChainStep == ChainInv /\ [Next]_vars => ChainInv'
<1> SUFFICES ASSUME ChainInv, [Next]_vars PROVE ChainInv'
  OBVIOUS
<1>1. TypeOK'
  BY TypeStep DEF ChainInv
<1>2. CASE UNCHANGED vars
  BY <1>1, <1>2, ChainFrame
     DEF ChainInv, TypeOK, vars, env, tables, scan, workers, tops
<1> QED
  BY <1>1, <1>2, ChainProcess, ChainRun, ChainWorker DEF Next

\* Although both subtractions can wrap, no cursor, no recorded block and no
\* row of a pair ever leaves the chain, on any chain and with any faults.
THEOREM ProgressStaysWithinChain == Spec => []ProgressWithinChain
<1>1. ChainInv => ProgressWithinChain
  BY DEF ChainInv
<1> QED
  BY ChainInit, ChainStep, <1>1, PTL DEF Spec

-----------------------------------------------------------------------------
(* No pair is lost.  What is recorded is covered because the window under   *)
(* way is covered when it is recorded, and that because no token and no     *)
(* pair of it drops out between the log query and the inserts, unless the   *)
(* context is cancelled, after which nothing is recorded any more.          *)

InSweep == InWindow \cup {"loop", "scan"}

\* The windows above the cursor, up to the block the sweep began at.
SweepStored ==
    pc \in InSweep /\ ~ctxDone =>
        \A p \in Pairs : CreatedAt[p] \in last + 1 .. liveTop => p \in pairs

\* The window under way.
WindowFound ==
    pc \in InWindow /\ ~ctxDone =>
        \A p \in Pairs : CreatedAt[p] \in WindowStart(last)..last => p \in found

\* A batch is under way only between its fetch and its last insert.
FetchEmpty == pc \notin {"metadata", "insert"} => fetch = {}

TokensKept ==
    ~ctxDone =>
        /\ pc \in Scanning =>
              \A p \in found : TokensOf[p] \subseteq tokens \cup todoTokens \cup fetch
        /\ pc \in {"pairs", "init"} => todoTokens = {}

PairsKept ==
    ~ctxDone =>
        /\ pc \in InWindow => todoPairs \subseteq found /\ found \subseteq pairs \cup todoPairs
        /\ pc \in {"wait", "record"} => todoPairs = {}

LossInv ==
    /\ ChainInv /\ NoPairLost
    /\ FetchEmpty /\ SweepStored /\ WindowFound /\ TokensKept /\ PairsKept

\* A call that cannot fail, in a process not cancelled, succeeds.
LEMMA CallSucceeds ==
    ASSUME NEW call, call \notin FaultyCalls, ~ctxDone, NEW o \in WriteOutcomes(call)
    PROVE  o = "ok"
BY DEF WriteOutcomes, ReadOutcomes, MayFail

\* A write that is applied is one of a process not cancelled.
LEMMA AppliedIsLive ==
    ASSUME NEW call, NEW o \in WriteOutcomes(call), o # "error"
    PROVE  ~ctxDone
BY DEF WriteOutcomes, ReadOutcomes

\* Before anything is recorded nothing can have been passed over.
LEMMA LossInit == Init => LossInv
<1> SUFFICES ASSUME Init PROVE LossInv
  OBVIOUS
<1>1. ChainInv
  BY ChainInit
<1>2. NoPairLost
  BY DEF Init, NoPairLost
<1>3. FetchEmpty /\ SweepStored /\ WindowFound /\ TokensKept /\ PairsKept
  BY DEF Init, FetchEmpty, SweepStored, WindowFound, TokensKept, PairsKept, InSweep, InWindow, Scanning
<1> QED
  BY <1>1, <1>2, <1>3 DEF LossInv

\* Steps of the chain, of goroutines, and others that touch neither the scan
\* nor the tables it fills.
LEMMA LossFrame ==
    ASSUME LossInv, ChainInv',
           UNCHANGED <<ctxDone, tokens, pairs, global, recTop, liveTop, pc, last, scan>>
    PROVE  LossInv'
BY DEF LossInv, NoPairLost, FetchEmpty, SweepStored, WindowFound, TokensKept, PairsKept,
       scan, WindowStart, Minus

\* In a process that is cancelled, or outside a sweep, only what is recorded
\* matters.
LEMMA LossIdle ==
    ASSUME LossInv, ChainInv', UNCHANGED <<pairs, global, recTop>>,
           FetchEmpty', ctxDone' \/ pc' \notin InSweep
    PROVE  LossInv'
BY DEF LossInv, NoPairLost, SweepStored, WindowFound, TokensKept, PairsKept,
       InSweep, InWindow, Scanning

\* Outside the insertion of a batch no token waits to be inserted.
LEMMA FetchStep == FetchEmpty /\ [Next]_vars => FetchEmpty'
<1> USE DEF FetchEmpty, env, tables, scan, workers, tops
<1> SUFFICES ASSUME FetchEmpty, [Next]_vars PROVE FetchEmpty'
  OBVIOUS
<1>1. CASE NewBlock \/ Cancel \/ Exit \/ Restart
  BY <1>1 DEF NewBlock, Cancel, Exit, Restart, Forget, ResetScan, Dead
<1>2. CASE RunStep
  BY <1>2 DEF RunStep, Boot, Resume, Stop, Loop, FilterLogs, NextBatch, FetchMetadata,
     InsertToken, Panic, TokensDone, InsertPair, InitProgress, Spawn, NothingFound, Wait,
     Record, Forget, ResetScan
<1>3. CASE \E p \in Pairs : WorkerStep(p)
  BY <1>3 DEF WorkerStep, ReadProgress, ReadCreated, Initialise, ReadHead, Chunk, Complete
<1>4. CASE UNCHANGED vars
  BY <1>4 DEF vars
<1> QED
  BY <1>1, <1>2, <1>3, <1>4 DEF Next

\* Nothing recorded or stored is lost when the process is cancelled, ends or
\* starts again.
LEMMA LossProcess ==
    ASSUME LossInv, ChainInv', FetchEmpty', NewBlock \/ Cancel \/ Exit \/ Restart
    PROVE  LossInv'
<1> USE DEF env, tables, scan, workers, tops
<1>1. CASE NewBlock
  BY <1>1, LossFrame DEF NewBlock
<1>2. CASE Cancel
  BY <1>2, LossIdle DEF Cancel
<1>3. CASE Exit
  BY <1>3, LossIdle DEF Exit, InSweep, InWindow, Scanning
<1>4. CASE Restart
  BY <1>4, LossIdle DEF Restart, InSweep, InWindow, Scanning
<1> QED
  BY <1>1, <1>2, <1>3, <1>4

\* Goroutines of pairs touch nothing the recorded progress depends on.
LEMMA LossWorker ==
    ASSUME LossInv, ChainInv', NEW p \in Pairs, WorkerStep(p)
    PROVE  LossInv'
<1>1. UNCHANGED <<ctxDone, tokens, pairs, global, recTop, liveTop, pc, last, scan>>
  BY DEF WorkerStep, ReadProgress, ReadCreated, Initialise, ReadHead, Chunk, Complete,
         env, tables, tops
<1> QED
  BY <1>1, LossFrame

\* With no lossy failure, every window Run records has all of its pairs stored.
LEMMA LossRun ==
    ASSUME LossInv, ChainInv', FetchEmpty', RunStep, FaultyCalls \cap LossyCalls = {}
    PROVE  LossInv'
<1> USE DEF env, tables, scan, workers, tops
<1>0. CASE ctxDone /\ ctxDone'
  <2>1. NoPairLost'
    BY <1>0, AppliedIsLive
       DEF LossInv, NoPairLost, RunStep, Boot, Resume, Stop, Loop, FilterLogs, NextBatch,
           FetchMetadata, InsertToken, Panic, TokensDone, InsertPair, InitProgress, Spawn,
           NothingFound, Wait, Record, RecordOutcomes
  <2> QED
    BY <1>0, <2>1, LossIdle DEF LossInv, SweepStored, WindowFound, TokensKept, PairsKept
<1>1. CASE Boot
  BY <1>1, LossIdle DEF Boot, InSweep, InWindow, Scanning
<1>2. CASE Resume
  <2>1. CASE pc' = "loop"
    <3>1. NoPairLost'
      BY <1>2 DEF Resume, LossInv, NoPairLost
    <3>2. SweepStored'
      BY <1>2, <2>1, ChainAssumption DEF Resume, LossInv, NoPairLost, SweepStored,
         ChainInv, TypeOK, Uint64
    <3>3. WindowFound' /\ TokensKept' /\ PairsKept'
      BY <2>1 DEF WindowFound, TokensKept, PairsKept, InWindow, Scanning
    <3> QED
      BY <3>1, <3>2, <3>3 DEF LossInv
  <2>2. CASE pc' = "stopped"
    BY <1>2, <2>2, LossIdle DEF Resume, InSweep, InWindow, Scanning
  <2> QED
    BY <1>2, <2>1, <2>2 DEF Resume
<1>3. CASE Stop
  BY <1>3, LossIdle DEF Stop, InSweep, InWindow, Scanning
<1>4. CASE Loop
  BY <1>4 DEF Loop, LossInv, NoPairLost, SweepStored, WindowFound, TokensKept, PairsKept,
              InSweep, InWindow, Scanning
<1>5. CASE FilterLogs
  <2>1. NoPairLost' /\ SweepStored'
    BY <1>5 DEF FilterLogs, LossInv, NoPairLost, SweepStored, InSweep, InWindow, Scanning
  <2>2. WindowFound'
    <3> SUFFICES ASSUME pc' = "tokens", NEW p \in Pairs,
                        CreatedAt[p] \in WindowStart(last)..last
                 PROVE  p \in found'
      BY <1>5 DEF FilterLogs, WindowFound, InWindow, Scanning, WindowStart, Minus
    <3>1. CreatedAt[p] <= head
      BY ChainAssumption DEF LossInv, ChainInv, ProgressWithinChain, TypeOK
    <3> QED
      BY <1>5, <3>1 DEF FilterLogs, LogsIn
  <2>3. TokensKept' /\ PairsKept'
    BY <1>5 DEF FilterLogs, LossInv, TokensKept, PairsKept, InWindow, Scanning
  <2> QED
    BY <2>1, <2>2, <2>3 DEF LossInv
<1>6. CASE NextBatch
  <2>1. NoPairLost' /\ SweepStored' /\ WindowFound' /\ PairsKept'
    BY <1>6 DEF NextBatch, LossInv, NoPairLost, SweepStored, WindowFound, PairsKept,
                InSweep, InWindow, Scanning, WindowStart, Minus
  <2>2. TokensKept'
    BY <1>6 DEF NextBatch, LossInv, FetchEmpty, TokensKept, Scanning
  <2> QED
    BY <2>1, <2>2 DEF LossInv
<1>7. CASE FetchMetadata
  <2>1. NoPairLost' /\ SweepStored' /\ WindowFound' /\ PairsKept'
    BY <1>7 DEF FetchMetadata, LossInv, NoPairLost, SweepStored, WindowFound, PairsKept,
                InSweep, InWindow, Scanning, WindowStart, Minus
  <2>2. TokensKept'
    BY <1>7, ReadIsWrite, CallSucceeds
       DEF FetchMetadata, LossInv, TokensKept, Scanning, LossyCalls
  <2> QED
    BY <2>1, <2>2 DEF LossInv
<1>8. CASE InsertToken
  <2>1. NoPairLost' /\ SweepStored' /\ WindowFound' /\ PairsKept'
    BY <1>8 DEF InsertToken, LossInv, NoPairLost, SweepStored, WindowFound, PairsKept,
                InSweep, InWindow, Scanning, WindowStart, Minus
  <2>2. TokensKept'
    BY <1>8, CallSucceeds DEF InsertToken, LossInv, TokensKept, Scanning, LossyCalls
  <2> QED
    BY <2>1, <2>2 DEF LossInv
<1>9. CASE Panic
  BY <1>9, LossIdle DEF Panic, InSweep, InWindow, Scanning
<1>10. CASE TokensDone
  BY <1>10 DEF TokensDone, LossInv, NoPairLost, FetchEmpty, SweepStored, WindowFound,
     TokensKept, PairsKept, InSweep, InWindow, Scanning, WindowStart, Minus
<1>11. CASE InsertPair
  <2>1. pairs \subseteq pairs'
    BY <1>11 DEF InsertPair
  <2>2. NoPairLost' /\ SweepStored' /\ WindowFound'
    BY <1>11, <2>1 DEF InsertPair, LossInv, NoPairLost, SweepStored, WindowFound,
                InSweep, InWindow, Scanning, WindowStart, Minus
  <2>3. TokensKept'
    BY <1>11 DEF InsertPair, LossInv, TokensKept, Scanning
  <2>4. PairsKept'
    BY <1>11, CallSucceeds DEF InsertPair, LossInv, FetchEmpty, TokensKept, PairsKept,
       InWindow, Scanning, LossyCalls
  <2> QED
    BY <2>2, <2>3, <2>4 DEF LossInv
<1>12. CASE InitProgress
  BY <1>12 DEF InitProgress, LossInv, NoPairLost, FetchEmpty, SweepStored, WindowFound,
     TokensKept, PairsKept, InSweep, InWindow, Scanning, WindowStart, Minus
<1>13. CASE Spawn
  BY <1>13 DEF Spawn, LossInv, NoPairLost, FetchEmpty, SweepStored, WindowFound,
     TokensKept, PairsKept, InSweep, InWindow, Scanning, WindowStart, Minus
<1>14. CASE NothingFound
  BY <1>14 DEF NothingFound, LossInv, NoPairLost, FetchEmpty, SweepStored, WindowFound,
     TokensKept, PairsKept, InSweep, InWindow, Scanning, WindowStart, Minus
<1>15. CASE Wait
  BY <1>15 DEF Wait, LossInv, NoPairLost, FetchEmpty, SweepStored, WindowFound,
     TokensKept, PairsKept, InSweep, InWindow, Scanning, WindowStart, Minus
<1>16. CASE Record
  <2>0. /\ last \in Nat /\ liveTop \in Nat /\ WindowStart(last) \in Nat
        /\ WindowStart(last) <= last /\ CreatedAt \in [Pairs -> Nat]
    BY <1>16, WindowType, ChainAssumption
       DEF Record, LossInv, ChainInv, TypeOK, Uint64, WindowValid, InWindow
  <2>1. ASSUME ~ctxDone, NEW p \in Pairs,
               CreatedAt[p] \in WindowStart(last)..liveTop
        PROVE  p \in pairs
    BY <1>16, <2>0, <2>1
       DEF Record, LossInv, SweepStored, WindowFound, PairsKept, InSweep, InWindow
  <2>2. NoPairLost'
    BY <1>16, <2>0, <2>1, AppliedIsLive
       DEF Record, RecordOutcomes, LossInv, NoPairLost
  <2>3. SweepStored'
    <3>1. CASE WindowStart(last) = 0
      <4>1. \A p \in Pairs : CreatedAt[p] \notin last' + 1 .. liveTop'
        BY <1>16, <2>0, <3>1 DEF Record, NextLast, Genesis, LossInv, ChainInv, TypeOK, Uint64
      <4> QED
        BY <4>1 DEF SweepStored
    <3>2. CASE WindowStart(last) # 0
      BY <1>16, <2>0, <2>1, <3>2 DEF Record, NextLast, Genesis, SweepStored
    <3> QED
      BY <3>1, <3>2
  <2>4. WindowFound' /\ TokensKept' /\ PairsKept'
    BY <1>16 DEF Record, WindowFound, TokensKept, PairsKept, InWindow, Scanning
  <2> QED
    BY <2>2, <2>3, <2>4 DEF LossInv
<1> QED
  BY <1>1, <1>2, <1>3, <1>4, <1>5, <1>6, <1>7, <1>8, <1>9, <1>10, <1>11, <1>12,
     <1>13, <1>14, <1>15, <1>16 DEF RunStep

\* LossInv is inductive.
LEMMA LossStep ==
    ASSUME FaultyCalls \cap LossyCalls = {}
    PROVE  LossInv /\ [Next]_vars => LossInv'
<1> SUFFICES ASSUME LossInv, [Next]_vars PROVE LossInv'
  OBVIOUS
<1>1. ChainInv' /\ FetchEmpty'
  BY ChainStep, FetchStep DEF LossInv
<1>2. CASE UNCHANGED vars
  BY <1>1, <1>2, LossFrame DEF vars, env, tables, tops
<1> QED
  BY <1>1, <1>2, LossProcess, LossRun, LossWorker DEF Next

\* Unless a call fails whose failure ScanForPairs only warns about, no crash,
\* cancellation, panic or other fault makes the recorded progress pass over
\* a pair: whatever a restart will not look at again is stored.
THEOREM RecordedPairsAreStored ==
    ASSUME FaultyCalls \cap LossyCalls = {}
    PROVE  Spec => []NoPairLost
<1>1. LossInv /\ [Next]_vars => LossInv'
  BY LossStep
<1>2. LossInv => NoPairLost
  BY DEF LossInv
<1> QED
  BY LossInit, <1>1, <1>2, PTL DEF Spec
-----------------------------------------------------------------------------
(* The tables implement the sweeps of the module Sweep.  That a step that   *)
(* records a block goes on with the recorded sweep, or begins one when the  *)
(* sweep before is complete, takes two more facts: the order of the blocks  *)
(* Run holds and those recorded, and what is stored while the running sweep *)
(* is not the recorded one.                                                *)

\* A sweep begins no lower than the recorded one, at a block the node has had.
SweepOrder ==
    /\ global <= recTop /\ (global = 0 => recTop = 0)
    /\ pc \in InSweep \cup {"resume"} => recTop <= cur
    /\ pc \in InSweep => last <= liveTop /\ recTop <= liveTop /\ liveTop <= cur

\* A sweep of which nothing is recorded yet follows one that is complete.
PriorSwept ==
    pc \in InSweep /\ ~ctxDone /\ (liveTop # recTop \/ last > global) =>
        Sweeps!Covered(0 .. recTop)

SweepInv == LossInv /\ SweepOrder /\ PriorSwept

\* Before the first record there is no sweep before.
LEMMA SweepInit == Init => SweepInv /\ Sweeps!Init
<1> SUFFICES ASSUME Init PROVE SweepInv /\ Sweeps!Init
  OBVIOUS
<1>1. SweepOrder /\ PriorSwept
  BY DEF Init, SweepOrder, PriorSwept, InSweep, InWindow, Scanning
<1> QED
  BY <1>1, LossInit DEF SweepInv, Init, Sweeps!Init

\* No pair is created at genesis.
LEMMA GenesisCovered == Sweeps!Covered(0 .. 0)
<1> SUFFICES ASSUME NEW p \in Pairs PROVE CreatedAt[p] # 0
  BY ChainAssumption DEF Sweeps!Covered
<1> QED
  BY FactoryAssumption, ChainAssumption, ConfigAssumption

\* Steps that move none of the blocks, and lead into no sweep.
LEMMA SweepFrame ==
    ASSUME SweepInv, LossInv', UNCHANGED <<global, recTop, liveTop, last, cur>>,
           pairs \subseteq pairs', ctxDone => ctxDone',
           pc' \in InSweep => pc \in InSweep,
           pc' = "resume" => pc = "resume"
    PROVE  SweepInv'
<1>1. SweepOrder'
  BY DEF SweepInv, SweepOrder
<1>2. PriorSwept'
  BY DEF SweepInv, PriorSwept, Sweeps!Covered
<1> QED
  BY <1>1, <1>2 DEF SweepInv

\* A process that ends, or has ended, has no sweep.
LEMMA SweepOutside ==
    ASSUME SweepInv, LossInv', UNCHANGED <<global, recTop>>, pc' \notin InSweep \cup {"resume"}
    PROVE  SweepInv'
BY DEF SweepInv, SweepOrder, PriorSwept

\* What a record shows: the window that ends at last is covered.
LEMMA RecordCovers ==
    ASSUME SweepInv, Record, ~ctxDone
    PROVE  /\ Sweeps!Covered(last .. liveTop)
           /\ last \in 1 .. liveTop /\ liveTop \in recTop .. head
           /\ Genesis(last) => Sweeps!Covered(0 .. liveTop)
<1>1. /\ last \in Nat /\ liveTop \in Nat /\ recTop \in Nat /\ head \in Nat
      /\ WindowStart(last) \in Nat /\ WindowStart(last) <= last
      /\ CreatedAt \in [Pairs -> Nat]
  BY WindowType, ChainAssumption
     DEF Record, SweepInv, LossInv, ChainInv, TypeOK, Uint64, WindowValid, InWindow
<1>2. last <= liveTop /\ recTop <= liveTop /\ liveTop <= head
  BY <1>1 DEF Record, SweepInv, SweepOrder, LossInv, ChainInv, ProgressWithinChain,
              InSweep, InWindow
<1>3. last > 0
  BY <1>1, ConfigAssumption DEF WindowStart, Minus
<1>4. ASSUME NEW p \in Pairs, CreatedAt[p] \in WindowStart(last) .. liveTop
      PROVE  p \in pairs
  BY <1>1, <1>4 DEF Record, SweepInv, LossInv, SweepStored, WindowFound, PairsKept,
                    InSweep, InWindow
<1> QED
  BY <1>1, <1>2, <1>3, <1>4 DEF Sweeps!Covered, Genesis

\* A record in a cancelled process has failed.
LEMMA RecordCancelled ==
    ASSUME Record, ctxDone PROVE UNCHANGED <<global, recTop>>
BY AppliedIsLive DEF Record, RecordOutcomes

\* A record keeps the order of blocks, and a sweep that begins after it
\* follows one that is complete.
LEMMA SweepRecord == ASSUME SweepInv, LossInv', Record PROVE SweepInv'
<1>1. ctxDone' = ctxDone /\ pairs' = pairs /\ cur' = cur /\ pc' = "loop"
  BY DEF Record
<1>2. \/ UNCHANGED <<global, recTop>>
      \/ global' = last /\ recTop' = liveTop
  BY DEF Record
<1>3. \/ Genesis(last) /\ last' = cur /\ liveTop' = cur
      \/ ~Genesis(last) /\ last' = WindowStart(last) /\ liveTop' = liveTop
  BY DEF Record, NextLast
<1>4. /\ {last, cur, liveTop, recTop, global, WindowStart(last)} \subseteq Nat
      /\ WindowStart(last) <= last /\ last > 0
  <2>1. {last, cur, liveTop, recTop, global, WindowStart(last)} \subseteq Nat
    BY WindowType, ChainAssumption, ConfigAssumption
       DEF SweepInv, LossInv, ChainInv, TypeOK, Uint64
  <2>2. WindowStart(last) <= last
    BY DEF Record, SweepInv, LossInv, ChainInv, WindowValid, InWindow
  <2> QED
    BY <2>1, <2>2, ConfigAssumption DEF WindowStart, Minus
<1>5. /\ global <= recTop /\ (global = 0 => recTop = 0) /\ recTop <= cur
      /\ last <= liveTop /\ recTop <= liveTop /\ liveTop <= cur
  BY DEF Record, SweepInv, SweepOrder, InSweep, InWindow
<1>6. SweepOrder'
  BY <1>1, <1>2, <1>3, <1>4, <1>5 DEF SweepOrder
<1>7. PriorSwept'
  <2> SUFFICES ASSUME ~ctxDone, liveTop' # recTop' \/ last' > global'
               PROVE  Sweeps!Covered(0 .. recTop')
    BY <1>1 DEF PriorSwept, Sweeps!Covered
  <2>1. CASE Genesis(last)
    <3>1. Sweeps!Covered(0 .. liveTop) /\ recTop' <= liveTop
      BY <1>2, <1>4, <1>5, <2>1, RecordCovers
    <3>2. recTop' \in Nat
      BY <1>2, <1>4
    <3> QED
      BY <1>4, <3>1, <3>2, ChainAssumption DEF Sweeps!Covered
  <2>2. CASE ~Genesis(last)
    <3>1. UNCHANGED <<global, recTop>> /\ (liveTop # recTop \/ last > global)
      BY <1>2, <1>3, <1>4, <2>2
    <3> QED
      BY <3>1 DEF Record, SweepInv, PriorSwept, InSweep, InWindow
  <2> QED
    BY <2>1, <2>2
<1> QED
  BY <1>6, <1>7 DEF SweepInv

\* SweepInv is inductive.
LEMMA SweepStep ==
    ASSUME FaultyCalls \cap LossyCalls = {}
    PROVE  SweepInv /\ [Next]_vars => SweepInv'
<1> USE DEF env, tables, scan, workers, tops
<1> SUFFICES ASSUME SweepInv, [Next]_vars PROVE SweepInv'
  OBVIOUS
<1>0. LossInv'
  BY LossStep DEF SweepInv
<1>1. CASE NewBlock \/ Cancel
  BY <1>0, <1>1, SweepFrame DEF NewBlock, Cancel
<1>2. CASE Exit \/ Restart \/ Panic
  BY <1>0, <1>2, SweepOutside DEF Exit, Restart, Panic, InSweep, InWindow, Scanning
<1>3. CASE Boot
  <2>1. CASE pc' = "stopped"
    BY <1>0, <1>3, <2>1, SweepOutside DEF Boot, InSweep, InWindow, Scanning
  <2>2. CASE pc' = "resume"
    BY <1>0, <1>3, <2>2 DEF Boot, SweepInv, SweepOrder, PriorSwept, LossInv, ChainInv,
       ProgressWithinChain, InSweep, InWindow, Scanning
  <2> QED
    BY <1>3, <2>1, <2>2 DEF Boot
<1>4. CASE Resume
  <2>1. CASE pc' = "stopped"
    BY <1>0, <1>4, <2>1, SweepOutside DEF Resume, InSweep, InWindow, Scanning
  <2>2. CASE pc' = "loop"
    <3>1. global \in Nat /\ recTop \in Nat /\ cur \in Nat
      BY ChainAssumption, ConfigAssumption DEF SweepInv, LossInv, ChainInv, TypeOK, Uint64
    <3>2. CASE global = 0
      BY <1>0, <1>4, <2>2, <3>1, <3>2, GenesisCovered
         DEF Resume, SweepInv, SweepOrder, PriorSwept, Sweeps!Covered
    <3>3. CASE global # 0
      BY <1>0, <1>4, <2>2, <3>1, <3>3 DEF Resume, SweepInv, SweepOrder, PriorSwept
    <3> QED
      BY <3>2, <3>3
  <2> QED
    BY <1>4, <2>1, <2>2 DEF Resume
<1>5. CASE Stop
  BY <1>0, <1>5, SweepOutside DEF Stop, InSweep, InWindow, Scanning
<1>6. CASE Loop
  <2>1. recTop <= cur' /\ liveTop <= cur'
    BY <1>6 DEF Loop, SweepInv, SweepOrder, LossInv, ChainInv, ProgressWithinChain,
                InSweep
  <2>2. SweepOrder'
    BY <1>6, <2>1 DEF Loop, SweepInv, SweepOrder, InSweep
  <2>3. PriorSwept'
    BY <1>6 DEF Loop, SweepInv, PriorSwept, Sweeps!Covered, InSweep
  <2> QED
    BY <1>0, <2>2, <2>3 DEF SweepInv
<1>7. CASE FilterLogs \/ NextBatch \/ FetchMetadata \/ InsertToken \/ TokensDone
           \/ InitProgress \/ Spawn \/ NothingFound \/ Wait
  BY <1>0, <1>7, SweepFrame
     DEF FilterLogs, NextBatch, FetchMetadata, InsertToken, TokensDone, InitProgress,
         Spawn, NothingFound, Wait, InSweep, InWindow, Scanning
<1>8. CASE InsertPair
  BY <1>0, <1>8, SweepFrame DEF InsertPair, InSweep, InWindow, Scanning
<1>9. CASE Record
  BY <1>0, <1>9, SweepRecord
<1>10. ASSUME NEW p \in Pairs, WorkerStep(p) PROVE SweepInv'
  <2>1. UNCHANGED <<global, recTop, liveTop, last, cur, pairs, ctxDone, pc>>
    BY <1>10 DEF WorkerStep, ReadProgress, ReadCreated, Initialise, ReadHead, Chunk, Complete
  <2> QED
    BY <1>0, <2>1, SweepFrame
<1>11. CASE UNCHANGED vars
  BY <1>0, <1>11, SweepFrame DEF vars
<1> QED
  BY <1>1, <1>2, <1>3, <1>4, <1>5, <1>6, <1>7, <1>8, <1>9, <1>10, <1>11 DEF Next, RunStep

\* A record goes on with the recorded sweep, repeats it, or begins the next.
LEMMA RecordMaps ==
    ASSUME SweepInv, Record PROVE [Sweeps!Next]_(Sweeps!vars)
<1>1. UNCHANGED <<head, pairs>>
  BY DEF Record
<1>2. CASE UNCHANGED <<global, recTop>>
  BY <1>1, <1>2 DEF Sweeps!vars
<1>3. CASE global' = last /\ recTop' = liveTop /\ ~ctxDone
  <2>1. /\ Sweeps!Covered(last .. liveTop)
        /\ last \in 1 .. liveTop /\ liveTop \in recTop .. head
    BY <1>3, RecordCovers
  <2>2. CASE liveTop # recTop \/ last > global
    <3>1. Sweeps!Covered(0 .. recTop)
      BY <1>3, <2>2 DEF Record, SweepInv, PriorSwept, InSweep, InWindow
    <3>2. Sweeps!Begin
      BY <1>1, <1>3, <2>1, <3>1 DEF Sweeps!Begin
    <3> QED
      BY <3>2 DEF Sweeps!Next
  <2>3. CASE liveTop = recTop /\ ~(last > global)
    <3>1. global \in Nat
      BY DEF SweepInv, LossInv, ChainInv, TypeOK
    <3>2. CASE last = global
      BY <1>1, <1>3, <2>3, <3>2 DEF Sweeps!vars
    <3>3. CASE last # global
      <4>1. last \in 0 .. global - 1
        BY <2>1, <2>3, <3>1, <3>3
      <4>2. Sweeps!Proceed
        BY <1>1, <1>3, <2>1, <2>3, <4>1 DEF Sweeps!Proceed
      <4> QED
        BY <4>2 DEF Sweeps!Next
    <3> QED
      BY <3>2, <3>3
  <2> QED
    BY <2>2, <2>3
<1> QED
  BY <1>2, <1>3, RecordCancelled DEF Record

\* Every step of the backfill is a step of the sweep, or none.
LEMMA StepMaps == SweepInv /\ [Next]_vars => [Sweeps!Next]_(Sweeps!vars)
<1> USE DEF env, tables, scan, workers, tops
<1> SUFFICES ASSUME SweepInv, [Next]_vars PROVE [Sweeps!Next]_(Sweeps!vars)
  OBVIOUS
<1>1. CASE NewBlock
  BY <1>1 DEF NewBlock, Sweeps!Next, Sweeps!NewBlock
<1>2. CASE Cancel \/ Exit \/ Restart
  BY <1>2 DEF Cancel, Exit, Restart, Sweeps!vars
<1>3. CASE Boot \/ Resume \/ Stop \/ Loop \/ Panic
  BY <1>3 DEF Boot, Resume, Stop, Loop, Panic, Sweeps!vars
<1>4. CASE FilterLogs \/ NextBatch \/ FetchMetadata \/ InsertToken \/ TokensDone
           \/ InitProgress \/ Spawn \/ NothingFound \/ Wait
  BY <1>4 DEF FilterLogs, NextBatch, FetchMetadata, InsertToken, TokensDone, InitProgress,
              Spawn, NothingFound, Wait, Sweeps!vars
<1>5. CASE InsertPair
  <2>1. PICK p \in todoPairs : pairs' \in {pairs, pairs \cup {p}}
    BY <1>5 DEF InsertPair
  <2>2. p \in Pairs /\ CreatedAt[p] <= head
    BY DEF SweepInv, LossInv, ChainInv, Created, TypeOK
  <2>3. UNCHANGED <<head, global, recTop>>
    BY <1>5 DEF InsertPair
  <2> QED
    BY <2>1, <2>2, <2>3 DEF Sweeps!Next, Sweeps!StorePair, Sweeps!vars
<1>6. CASE Record
  BY <1>6, RecordMaps
<1>7. ASSUME NEW p \in Pairs, WorkerStep(p) PROVE UNCHANGED Sweeps!vars
  BY <1>7 DEF WorkerStep, ReadProgress, ReadCreated, Initialise, ReadHead, Chunk, Complete,
              Sweeps!vars
<1>8. CASE UNCHANGED vars
  BY <1>8 DEF vars, Sweeps!vars
<1> QED
  BY <1>1, <1>2, <1>3, <1>4, <1>5, <1>6, <1>7, <1>8 DEF Next, RunStep

\* The backfill implements the sweeps: whatever crashes, cancellations,
\* panics and other failures there are, as long as none of the calls fails
\* whose failure ScanForPairs only warns about.
THEOREM BackfillImplementsSweep ==
    ASSUME FaultyCalls \cap LossyCalls = {}
    PROVE  Spec => SweepRefined
<1>1. SweepInv /\ [Next]_vars => SweepInv'
  BY SweepStep
<1> QED
  BY SweepInit, <1>1, StepMaps, PTL DEF Spec, SweepRefined, Sweeps!Spec
=============================================================================
