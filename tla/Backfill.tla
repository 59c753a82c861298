------------------------------ MODULE Backfill ------------------------------
(***************************************************************************)
(* The pair backfill of src/internal/service/historical/backfill.go: the   *)
(* loop of BackfillManager.Run sweeps the chain downwards, one window of   *)
(* BlockRange blocks at a time; ScanForPairs stores the tokens and the     *)
(* pairs a window's PairCreated logs name; one goroutine per pair runs     *)
(* processPair with retries; the upper end of the window is then recorded  *)
(* as the global progress a restarted process resumes from.                *)
(*                                                                         *)
(* Every call to the node or to the database is a step of its own, so the  *)
(* process can be killed, or its context cancelled, between any two calls. *)
(* A call may fail; a failed write may have been applied all the same (the *)
(* answer was lost).  Rows are kept as the sets and functions the tables   *)
(* hold; global_sync_progress is the single register of SyncRegister.      *)
(***************************************************************************)
EXTENDS Integers, FiniteSets

CONSTANTS
    Pairs,              \* pairs the factory creates
    NoPair,             \* no pair is being inserted
    Tokens,             \* their tokens
    TokensOf,           \* TokensOf[p]: the two tokens of p
    CreatedAt,          \* CreatedAt[p]: block of p's PairCreated log
    Unreadable,         \* tokens whose name, symbol or decimals do not unpack
    BlockRange,         \* config.BlockRange (50000)
    ChunkSize,          \* chunkSize of processPair (50000)
    TokenBatch,         \* batchSize of ScanForPairs (50)
    MetadataBatch,      \* batchSize of GetTokensMetadata (10)
    MaxRetries,         \* config.MaxRetries (5)
    MaxBigint,          \* largest value of a BIGINT column (2^63 - 1)
    PairsHasCreatedAt,  \* the pairs table has the created_at column GetPair reads
    InitHead,           \* chain height at the start
    FaultyCalls,        \* calls that may fail
    MaxHead,            \* bound: chain height
    MaxFaults,          \* bound: failed calls
    MaxRestarts         \* bound: process restarts

Calls == {"GetCurrentBlock", "GetGlobalSyncProgress", "FilterLogs", "GetToken",
          "GetTokensMetadata", "InsertToken", "InsertPair", "UpdatePairProgress",
          "GetPairProgress", "GetPair", "UpdateGlobalSyncProgress"}

ASSUME ChainAssumption ==
    /\ NoPair \notin Pairs
    /\ IsFiniteSet(Tokens)
    /\ TokensOf \in [Pairs -> SUBSET Tokens]
    /\ CreatedAt \in [Pairs -> 0..MaxBigint]
    /\ Unreadable \subseteq Tokens
    /\ InitHead \in Nat \ {0}
    /\ MaxHead \in Nat
    /\ MaxHead <= MaxBigint
    /\ InitHead <= MaxHead

\* The factory was deployed far above block 50000, so no pair is created
\* within a chunk of genesis.
ASSUME FactoryAssumption == \A p \in Pairs : ChunkSize <= CreatedAt[p]

ASSUME ConfigAssumption ==
    /\ BlockRange \in Nat \ {0}
    /\ ChunkSize \in Nat \ {0}
    /\ TokenBatch \in Nat \ {0}
    /\ MetadataBatch \in Nat \ {0, 1}
    /\ MaxRetries \in Nat \ {0}
    /\ MaxBigint \in Nat
    /\ BlockRange <= MaxBigint + 1
    /\ ChunkSize <= MaxBigint + 1
    /\ PairsHasCreatedAt \in BOOLEAN
    /\ FaultyCalls \subseteq Calls
    /\ MaxFaults \in Nat
    /\ MaxRestarts \in Nat

VARIABLES
    head,           \* the node's latest block
    ctxDone,        \* main has cancelled the context
    faults,         \* calls that have failed
    restarts,       \* process restarts so far
    tokens,         \* rows of tokens
    pairs,          \* rows of pairs
    progress,       \* pair_sync_progress.last_processed_block, or NoRow
    global,         \* what GetGlobalSyncProgress returns
    pc,             \* where Run is
    last,           \* lastScannedBlock
    cur,            \* currentBlock
    found,          \* pairs ScanForPairs returns
    todoTokens,     \* tokens of the window not yet in a batch
    fetch,          \* tokensToFetch not yet inserted
    meta,           \* entries of metadata not yet used
    todoPairs,      \* pairData not yet inserted
    pd,             \* pair inserted whose progress is to be initialised
    wpc,            \* where the goroutine of a pair is
    attempt,        \* its attempt
    lastProcessed,  \* its lastProcessed
    end,            \* its end
    low,            \* history: lowest block its chunks have reached
    liveTop,        \* history: block at which the running sweep began
    recTop          \* history: block at which the recorded sweep began

env     == <<head, ctxDone, faults, restarts>>
tables  == <<tokens, pairs, progress, global>>
scan    == <<found, todoTokens, fetch, meta, todoPairs, pd>>
workers == <<wpc, attempt, lastProcessed, end, low>>
tops    == <<liveTop, recTop>>
vars    == <<env, tables, pc, last, cur, scan, workers, tops>>

NoRow == -1

Dead     == {"down", "panicked"}
Scanning == {"tokens", "metadata", "insert", "pairs", "init"}
RunPc    == Dead \cup Scanning \cup
            {"boot", "resume", "loop", "scan", "wait", "record", "stopped"}
Live     == {"progress", "created", "initialise", "head", "chunk"}
WorkerPc == Live \cup {"idle", "done", "failed"}

-----------------------------------------------------------------------------
(* Unsigned 64-bit subtraction: 2 * (MaxBigint + 1) is 2^64.              *)
MinusSigned(a, b) == a - b   \* faulty variant
Minus(a, b) == IF a >= b THEN a - b ELSE a - b + 2 * (MaxBigint + 1)

\* startBlock of the window that ends at the block b.
WindowStart(b) == Minus(b, BlockRange)

\* The node answers a log query over from..to, or rejects it: block numbers
\* are signed 64-bit there, and the range must not be inverted.
RangeUnchecked(from, to) == TRUE   \* faulty variant
RangeAccepted(from, to) == from <= MaxBigint /\ from <= to

\* Pairs whose PairCreated log is on the chain, within from..to inclusive.
LogsIn(from, to) ==
    {p \in Pairs : from <= CreatedAt[p] /\ CreatedAt[p] <= to /\ CreatedAt[p] <= head}

\* The lower end of a chunk that ends at e, for a pair processed up to lp.
ChunkUnclamped(e, lp) == Minus(e, ChunkSize)   \* faulty variant
ChunkStart(e, lp) == IF Minus(e, ChunkSize) < lp THEN lp ELSE Minus(e, ChunkSize)

\* The sweep has scanned the window that begins at genesis.
GenesisNear(b) == WindowStart(b) <= BlockRange   \* faulty variant
Genesis(b) == WindowStart(b) = 0

\* lastScannedBlock after a window: the next window, or a new sweep.
NextLastSame(b, current) == IF Genesis(b) THEN current ELSE b   \* faulty variant
NextLast(b, current) == IF Genesis(b) THEN current ELSE WindowStart(b)

-----------------------------------------------------------------------------
(* Outcomes of a call.  After cancellation every call returns ctx.Err().   *)
MayFail(call) == call \in FaultyCalls /\ faults < MaxFaults

ReadOutcomes(call) ==
    IF ctxDone THEN {"error"}
    ELSE {"ok"} \cup (IF MayFail(call) THEN {"error"} ELSE {})

\* "unacked": the write is applied, and its error returned.
WriteOutcomes(call) ==
    ReadOutcomes(call) \cup (IF ~ctxDone /\ MayFail(call) THEN {"unacked"} ELSE {})

Count(o) == faults' = IF o = "ok" \/ ctxDone THEN faults ELSE faults + 1

\* UpdatePairProgress(p, b): the row references pairs and holds a BIGINT.
Storable(p, b) == p \in pairs /\ b <= MaxBigint

PutProgress(p, b, o) ==
    progress' = IF o # "error" /\ Storable(p, b) THEN [progress EXCEPT ![p] = b]
                ELSE progress

-----------------------------------------------------------------------------
\* The locals of a scan, and of the goroutines, that have returned.
Idle == [p \in Pairs |-> "idle"]
Zero == [p \in Pairs |-> 0]

ResetScan ==
    /\ found' = {} /\ todoTokens' = {} /\ fetch' = {} /\ meta' = 0
    /\ todoPairs' = {} /\ pd' = NoPair

ResetWorkers ==
    /\ wpc' = Idle
    /\ attempt' = Zero /\ lastProcessed' = Zero /\ end' = Zero /\ low' = Zero

\* RunMigrations has created the tables, with the row (1, 0) of
\* global_sync_progress; main starts Run.
Init ==
    /\ head = InitHead /\ ctxDone = FALSE /\ faults = 0 /\ restarts = 0
    /\ tokens = {} /\ pairs = {}
    /\ progress = [p \in Pairs |-> NoRow]
    /\ global = 0
    /\ pc = "boot" /\ last = 0 /\ cur = 0
    /\ found = {} /\ todoTokens = {} /\ fetch = {} /\ meta = 0
    /\ todoPairs = {} /\ pd = NoPair
    /\ wpc = Idle
    /\ attempt = Zero /\ lastProcessed = Zero /\ end = Zero /\ low = Zero
    /\ liveTop = 0 /\ recTop = 0

-----------------------------------------------------------------------------
(* The process and its surroundings.                                       *)

NewBlock ==
    /\ head < MaxHead
    /\ head' = head + 1
    /\ UNCHANGED <<ctxDone, faults, restarts, tables, pc, last, cur, scan, workers, tops>>

\* main received a signal and called cancel(); Run goes on until it notices.
Cancel ==
    /\ pc \notin Dead /\ ~ctxDone /\ restarts < MaxRestarts
    /\ ctxDone' = TRUE
    /\ UNCHANGED <<head, faults, restarts, tables, pc, last, cur, scan, workers, tops>>

\* Everything in memory is gone.
Forget ==
    /\ last' = 0 /\ cur' = 0 /\ liveTop' = 0
    /\ ResetScan
    /\ ResetWorkers

\* main returned without waiting for Run, or the process was killed.
Exit ==
    /\ pc \notin Dead /\ restarts < MaxRestarts
    /\ pc' = "down"
    /\ ctxDone' = FALSE
    /\ restarts' = restarts + 1
    /\ Forget
    /\ UNCHANGED <<head, faults, tables, recTop>>

\* main again: RunMigrations finds every table and the row 1 in place.
Restart ==
    /\ \/ pc = "down" /\ UNCHANGED restarts
       \/ pc = "panicked" /\ restarts < MaxRestarts /\ restarts' = restarts + 1
    /\ pc' = "boot"
    /\ UNCHANGED <<head, ctxDone, faults, tables, last, cur, scan, workers, tops>>

-----------------------------------------------------------------------------
(* Run: start and top of the loop.                                         *)

Boot ==
    /\ pc = "boot"
    /\ \E o \in ReadOutcomes("GetCurrentBlock") :
          /\ Count(o)
          /\ IF o = "ok" THEN cur' = head /\ pc' = "resume"
                         ELSE pc' = "stopped" /\ UNCHANGED cur
    /\ UNCHANGED <<head, ctxDone, restarts, tables, last, scan, workers, tops>>

Resume ==
    /\ pc = "resume"
    /\ \E o \in ReadOutcomes("GetGlobalSyncProgress") :
          /\ Count(o)
          /\ IF o = "ok"
             THEN /\ last' = IF global = 0 THEN cur ELSE global
                  /\ liveTop' = IF global = 0 THEN cur ELSE recTop
                  /\ pc' = "loop"
             ELSE pc' = "stopped" /\ UNCHANGED <<last, liveTop>>
    /\ UNCHANGED <<head, ctxDone, restarts, tables, cur, scan, workers, recTop>>

\* select on ctx.Done() at the top of the loop.
CancelUnseen == FALSE   \* faulty variant
CancelSeen == ctxDone

Stop ==
    /\ pc = "loop" /\ CancelSeen
    /\ pc' = "stopped"
    /\ UNCHANGED <<env, tables, last, cur, scan, workers, tops>>

Loop ==
    /\ pc = "loop" /\ ~CancelSeen
    /\ \E o \in ReadOutcomes("GetCurrentBlock") :
          /\ Count(o)
          /\ IF o = "ok" THEN cur' = head /\ pc' = "scan"
                         ELSE UNCHANGED <<cur, pc>>
    /\ UNCHANGED <<head, ctxDone, restarts, tables, last, scan, workers, tops>>

-----------------------------------------------------------------------------
(* ScanForPairs.                                                           *)

\* A query that fails is made again, from the top of the loop.
FilterLogs ==
    /\ pc = "scan"
    /\ \E o \in ReadOutcomes("FilterLogs") :
          /\ Count(o)
          /\ IF o = "ok" /\ RangeAccepted(WindowStart(last), last)
             THEN /\ found' = LogsIn(WindowStart(last), last)
                  /\ todoTokens' = UNION {TokensOf[p] : p \in found'}
                  /\ todoPairs' = found'
                  /\ pc' = "tokens"
             ELSE pc' = "loop" /\ UNCHANGED <<found, todoTokens, todoPairs>>
    /\ UNCHANGED <<head, ctxDone, restarts, tables, last, cur, fetch, meta, pd,
                   workers, tops>>

\* Map iteration gives the batches in any order.
Batches ==
    {b \in SUBSET todoTokens :
        /\ b # {}
        /\ \/ Cardinality(b) = TokenBatch
           \/ b = todoTokens /\ Cardinality(b) < TokenBatch}

\* A stored token that cannot be read counts as missing.
NextBatch ==
    /\ pc = "tokens" /\ todoTokens # {}
    /\ \E b \in Batches, o \in ReadOutcomes("GetToken") :
          /\ Count(o)
          /\ todoTokens' = todoTokens \ b
          /\ \E unread \in SUBSET (b \cap tokens) :
                /\ o = "ok" => unread = {}
                /\ ctxDone => unread = b \cap tokens
                /\ fetch' = (b \ tokens) \cup unread
          /\ pc' = IF fetch' = {} THEN "tokens" ELSE "metadata"
    /\ UNCHANGED <<head, ctxDone, restarts, tables, last, cur, found, meta, todoPairs,
                   pd, workers, tops>>

\* GetTokensMetadata asks for MetadataBatch tokens at a time.  A batch that
\* fails is asked for again, token by token, and a token that fails again has
\* a fallback entry; a batch of one is not retried and fails the whole call,
\* which leaves every token of fetch out of the table: ScanForPairs only warns.
BatchOfOne == Cardinality(fetch) % MetadataBatch = 1

\* A token that does not unpack has no entry at all, unless it has a fallback
\* (EntriesCounted of RpcClient).
EntryCounts(o) ==
    {Cardinality((fetch \ Unreadable) \cup fallback) :
        fallback \in IF o = "ok" THEN {{}} ELSE SUBSET (fetch \cap Unreadable)}

FetchMetadata ==
    /\ pc = "metadata"
    /\ \E o \in ReadOutcomes("GetTokensMetadata") :
          /\ Count(o)
          /\ \/ /\ o = "ok" \/ Cardinality(fetch) > 1
                /\ meta' \in EntryCounts(o)
                /\ pc' = "insert"
                /\ UNCHANGED fetch
             \/ /\ o = "error" /\ BatchOfOne
                /\ pc' = "tokens" /\ fetch' = {} /\ UNCHANGED meta
    /\ UNCHANGED <<head, ctxDone, restarts, tables, last, cur, found, todoTokens,
                   todoPairs, pd, workers, tops>>

InsertToken ==
    /\ pc = "insert" /\ meta > 0
    /\ \E t \in fetch, o \in WriteOutcomes("InsertToken") :
          /\ Count(o)
          /\ tokens' = IF o = "error" THEN tokens ELSE tokens \cup {t}
          /\ fetch' = fetch \ {t}
          /\ meta' = meta - 1
          /\ pc' = IF fetch' = {} THEN "tokens" ELSE "insert"
    /\ UNCHANGED <<head, ctxDone, restarts, pairs, progress, global, last, cur, found,
                   todoTokens, todoPairs, pd, workers, tops>>

\* metadata[i] beyond the end of the slice: the goroutine's panic ends the
\* whole process.
Panic ==
    /\ pc = "insert" /\ meta = 0 /\ fetch # {}
    /\ pc' = "panicked"
    /\ ctxDone' = FALSE
    /\ Forget
    /\ UNCHANGED <<head, faults, restarts, tables, recTop>>

TokensDone ==
    /\ pc = "tokens" /\ todoTokens = {}
    /\ pc' = "pairs"
    /\ UNCHANGED <<env, tables, last, cur, scan, workers, tops>>

\* In log order; a pair whose tokens are not both stored is refused, and
\* ScanForPairs only warns.
InsertPair ==
    /\ pc = "pairs"
    /\ \E p \in todoPairs, o \in WriteOutcomes("InsertPair") :
          /\ \A q \in todoPairs : CreatedAt[p] <= CreatedAt[q]
          /\ Count(o)
          /\ todoPairs' = todoPairs \ {p}
          /\ pairs' = IF o # "error" /\ TokensOf[p] \subseteq tokens
                      THEN pairs \cup {p} ELSE pairs
          /\ IF o = "ok" /\ TokensOf[p] \subseteq tokens
             THEN pd' = p /\ pc' = "init"
             ELSE UNCHANGED <<pd, pc>>
    /\ UNCHANGED <<head, ctxDone, restarts, tokens, progress, global, last, cur, found,
                   todoTokens, fetch, meta, workers, tops>>

\* Whether or not it is stored, the next pair is taken.
InitProgress ==
    /\ pc = "init"
    /\ \E o \in WriteOutcomes("UpdatePairProgress") :
          /\ Count(o)
          /\ PutProgress(pd, CreatedAt[pd], o)
    /\ pd' = NoPair
    /\ pc' = "pairs"
    /\ UNCHANGED <<head, ctxDone, restarts, tokens, pairs, global, last, cur, found,
                   todoTokens, fetch, meta, todoPairs, workers, tops>>

-----------------------------------------------------------------------------
(* Run: the goroutines, and the end of an iteration.                       *)

\* ScanForPairs returns; Run starts one goroutine per pair.
Spawn ==
    /\ pc = "pairs" /\ todoPairs = {} /\ found # {}
    /\ wpc' = [p \in Pairs |-> IF p \in found THEN "progress" ELSE "idle"]
    /\ attempt' = [p \in Pairs |-> 0]
    /\ low' = [p \in Pairs |-> IF p \in found THEN head ELSE 0]
    /\ pc' = "wait"
    /\ UNCHANGED <<env, tables, last, cur, scan, lastProcessed, end, tops>>

NothingFound ==
    /\ pc = "pairs" /\ todoPairs = {} /\ found = {}
    /\ pc' = "record"
    /\ UNCHANGED <<env, tables, last, cur, scan, workers, tops>>

\* Faulty variant: nobody waits for the goroutines.
WaitForNone ==
    /\ pc = "wait"
    /\ pc' = "record"
    /\ UNCHANGED <<env, tables, last, cur, scan, workers, tops>>

\* wg.Wait(); the errors collected are only logged.
Wait ==
    /\ pc = "wait"
    /\ \A p \in Pairs : wpc[p] \notin Live
    /\ pc' = "record"
    /\ UNCHANGED <<env, tables, last, cur, scan, workers, tops>>

\* The outcome of UpdateGlobalSyncProgress.  Faulty variant: called with a
\* context of its own, it outlives the cancellation.
RecordDetached == {"ok"}
RecordOutcomes == WriteOutcomes("UpdateGlobalSyncProgress")

\* The upper end of the window is recorded; a failure is only logged.
Record ==
    /\ pc = "record"
    /\ \E o \in RecordOutcomes :
          /\ Count(o)
          /\ IF o # "error" /\ last <= MaxBigint
             THEN global' = last /\ recTop' = liveTop
             ELSE UNCHANGED <<global, recTop>>
    /\ last' = NextLast(last, cur)
    /\ liveTop' = IF Genesis(last) THEN cur ELSE liveTop
    /\ pc' = "loop"
    /\ ResetScan
    /\ ResetWorkers
    /\ UNCHANGED <<head, ctxDone, restarts, tokens, pairs, progress, cur>>

-----------------------------------------------------------------------------
(* processPair of the pair p, under the retries of its goroutine.          *)

\* Faulty variant: an attempt that failed is not counted.
RetryForever(p) == wpc' = [wpc EXCEPT ![p] = "progress"] /\ UNCHANGED attempt

\* This attempt returned an error.
FailAttempt(p) ==
    IF attempt[p] + 1 < MaxRetries
    THEN /\ attempt' = [attempt EXCEPT ![p] = @ + 1]
         /\ wpc' = [wpc EXCEPT ![p] = "progress"]
    ELSE /\ wpc' = [wpc EXCEPT ![p] = "failed"]
         /\ UNCHANGED attempt

Goto(p, label) == wpc' = [wpc EXCEPT ![p] = label] /\ UNCHANGED attempt

ReadProgress(p) ==
    /\ wpc[p] = "progress"
    /\ \E o \in ReadOutcomes("GetPairProgress") :
          /\ Count(o)
          /\ IF o # "ok" THEN FailAttempt(p) /\ UNCHANGED lastProcessed
             ELSE IF progress[p] = NoRow THEN Goto(p, "created") /\ UNCHANGED lastProcessed
             ELSE /\ lastProcessed' = [lastProcessed EXCEPT ![p] = progress[p]]
                  /\ Goto(p, "head")
    /\ UNCHANGED <<head, ctxDone, restarts, tables, pc, last, cur, scan, end, low, tops>>

\* GetPair selects created_at, a column RunMigrations does not create.
ReadCreated(p) ==
    /\ wpc[p] = "created"
    /\ \E o \in ReadOutcomes("GetPair") :
          /\ Count(o)
          /\ IF o = "ok" /\ PairsHasCreatedAt /\ p \in pairs
             THEN /\ lastProcessed' = [lastProcessed EXCEPT ![p] = CreatedAt[p]]
                  /\ Goto(p, "initialise")
             ELSE FailAttempt(p) /\ UNCHANGED lastProcessed
    /\ UNCHANGED <<head, ctxDone, restarts, tables, pc, last, cur, scan, end, low, tops>>

Initialise(p) ==
    /\ wpc[p] = "initialise"
    /\ \E o \in WriteOutcomes("UpdatePairProgress") :
          /\ Count(o)
          /\ PutProgress(p, lastProcessed[p], o)
          /\ IF o = "ok" /\ Storable(p, lastProcessed[p])
             THEN Goto(p, "head") ELSE FailAttempt(p)
    /\ UNCHANGED <<head, ctxDone, restarts, tokens, pairs, global, pc, last, cur, scan,
                   lastProcessed, end, low, tops>>

ReadHead(p) ==
    /\ wpc[p] = "head"
    /\ \E o \in ReadOutcomes("GetCurrentBlock") :
          /\ Count(o)
          /\ IF o = "ok" THEN end' = [end EXCEPT ![p] = head] /\ Goto(p, "chunk")
                         ELSE FailAttempt(p) /\ UNCHANGED end
    /\ UNCHANGED <<head, ctxDone, restarts, tables, pc, last, cur, scan, lastProcessed,
                   low, tops>>

Chunk(p) ==
    /\ wpc[p] = "chunk" /\ end[p] > lastProcessed[p]
    /\ \E o \in WriteOutcomes("UpdatePairProgress") :
          /\ Count(o)
          /\ PutProgress(p, end[p], o)
          /\ IF o = "ok" /\ Storable(p, end[p])
             THEN LET start == ChunkStart(end[p], lastProcessed[p]) IN
                  /\ end' = [end EXCEPT ![p] = start]
                  /\ low' = [low EXCEPT ![p] = IF start < @ THEN start ELSE @]
                  /\ UNCHANGED <<wpc, attempt>>
             ELSE FailAttempt(p) /\ UNCHANGED <<end, low>>
    /\ UNCHANGED <<head, ctxDone, restarts, tokens, pairs, global, pc, last, cur, scan,
                   lastProcessed, tops>>

Complete(p) ==
    /\ wpc[p] = "chunk" /\ end[p] <= lastProcessed[p]
    /\ Goto(p, "done")
    /\ UNCHANGED <<env, tables, pc, last, cur, scan, lastProcessed, end, low, tops>>

-----------------------------------------------------------------------------
RunStep ==
    \/ Boot \/ Resume \/ Stop \/ Loop
    \/ FilterLogs \/ NextBatch \/ FetchMetadata \/ InsertToken \/ Panic \/ TokensDone
    \/ InsertPair \/ InitProgress
    \/ Spawn \/ NothingFound \/ Wait \/ Record

WorkerStep(p) ==
    \/ ReadProgress(p) \/ ReadCreated(p) \/ Initialise(p)
    \/ ReadHead(p) \/ Chunk(p) \/ Complete(p)

Next ==
    \/ NewBlock \/ Cancel \/ Exit \/ Restart
    \/ RunStep
    \/ \E p \in Pairs : WorkerStep(p)

Spec == Init /\ [][Next]_vars

\* The Go scheduler runs every goroutine that can run.  Nothing restarts the
\* process, extends the chain or cancels the context of itself.
Fairness == WF_vars(RunStep) /\ \A p \in Pairs : WF_vars(WorkerStep(p))

FairSpec == Spec /\ Fairness

-----------------------------------------------------------------------------
(* Properties.                                                             *)

Uint64 == 0 .. 2 * MaxBigint + 1

\* Every variable holds what its Go type or its column can hold: blocks are
\* unsigned, a stored block fits BIGINT, a retry count is below MaxRetries.
TypeOK ==
    /\ head \in 1..MaxHead /\ ctxDone \in BOOLEAN
    /\ faults \in 0..MaxFaults /\ restarts \in 0..MaxRestarts
    /\ tokens \subseteq Tokens /\ pairs \subseteq Pairs
    /\ progress \in [Pairs -> {NoRow} \cup 0..MaxBigint]
    /\ global \in 0..MaxBigint
    /\ pc \in RunPc /\ last \in Uint64 /\ cur \in Uint64
    /\ found \subseteq Pairs /\ todoTokens \subseteq Tokens /\ fetch \subseteq Tokens
    /\ meta \in Nat /\ todoPairs \subseteq Pairs /\ pd \in Pairs \cup {NoPair}
    /\ wpc \in [Pairs -> WorkerPc] /\ attempt \in [Pairs -> 0..MaxRetries - 1]
    /\ lastProcessed \in [Pairs -> Uint64] /\ end \in [Pairs -> Uint64]
    /\ low \in [Pairs -> Uint64]
    /\ liveTop \in Uint64 /\ recTop \in Uint64

\* No block number ever leaves the chain, although both subtractions of the
\* code can wrap: Run's cursor, the recorded progress and the block a sweep
\* began at stay within 0..head, and the row of a pair, always one of a
\* stored pair, stays between its creation and the head.
ProgressWithinChain ==
    /\ {last, cur, global, liveTop, recTop} \subseteq 0..head
    /\ \A p \in Pairs : progress[p] # NoRow =>
          p \in pairs /\ progress[p] \in CreatedAt[p]..head

\* Calls of ScanForPairs whose failure leaves a token or a pair out.
LossyCalls == {"GetTokensMetadata", "InsertToken", "InsertPair"}

\* A restart resumes below what was recorded and never looks above it, so
\* everything between the recorded block and the block that sweep began at
\* has to be in the pairs table.
NoPairLost ==
    global # 0 => \A p \in Pairs : CreatedAt[p] \in global..recTop => p \in pairs

Sweeps == INSTANCE Sweep WITH stored <- pairs, floor <- global, top <- recTop

\* Over crashes, cancellations, failed calls and resumptions the tables show
\* sweeps of the chain one after the other: what is recorded only comes down
\* until it starts over at a block not below the sweep before, and by then
\* that sweep has stored every pair up to the block at which it began, down
\* to genesis.
SweepRefined == Sweeps!Spec

\* A goroutine that reports success has handled every block between the
\* pair's creation and the head it started from, over all of its attempts.
SuccessCovers == \A p \in Pairs : wpc[p] = "done" => low[p] = CreatedAt[p]

\* A window is recorded only when all of its pairs have been processed with
\* success: fewer than MaxRetries failed calls never make Run pass over one.
RecordedWhenProcessed ==
    [][global' # global => \A p \in found : wpc[p] = "done"]_vars

\* Every wait for the goroutines of a window ends, whatever calls fail.
WaitEnds == pc = "wait" ~> pc # "wait"

\* After cancel() Run returns, from wherever it is, unless the process has
\* ended before it could.
CancelStops == ctxDone ~> (pc \in Dead \cup {"stopped"})

\* The sweep comes down to its lowest window unless the process ends.
SweepDescends ==
    pc = "loop" ~> (last <= BlockRange \/ pc \in Dead \cup {"stopped"})

\* Every pair of the chain is stored in the end, unless the process ends:
\* "Reached genesis block, waiting for new blocks..." (backfill.go:148).
NewPairsFound ==
    \A p \in Pairs : (head >= CreatedAt[p]) ~>
                        (p \in pairs \/ pc \in Dead \cup {"stopped"})
=============================================================================
