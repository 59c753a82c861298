------------------------------ MODULE History ------------------------------
(***************************************************************************)
(* The collection of historical data, CollectHistoricalData and            *)
(* processBatch of src/internal/service/historical/service.go.             *)
(*                                                                         *)
(* A call collects a range of blocks of a pair in batches, upwards or      *)
(* downwards.  A batch asks for the times of its blocks and for the pair's *)
(* tokens and decimals, then, chunk by chunk, for the reserves, which it   *)
(* stores block by block; after a batch, its upper end is stored as the    *)
(* pair's progress.  Every call to the node or the database is a step; a   *)
(* call may fail, and a write may be applied although it fails; the        *)
(* process may end between any two.  Calls for a pair follow each other.   *)
(*                                                                         *)
(* Reserves are identified with the block at whose end the pair has them;  *)
(* the node answers with those of its head.                                *)
(***************************************************************************)
EXTENDS PriceTables

CONSTANTS
    NoPair,         \* no pair is being collected
    BatchSize,      \* config.BatchSize (50)
    ChunkSize,      \* config.MaxMulticallSize (100)
    Wrap,           \* 2^64
    Ranges,         \* <<start, end, backwards>> of the calls
    InitHead,       \* chain height at the start
    MaxHead,        \* bound: chain height
    MaxFaults,      \* bound: failed calls
    MaxCalls        \* bound: calls of CollectHistoricalData

ASSUME HistoryAssumption ==
    /\ NoPair \notin Pairs
    /\ BatchSize \in Nat \ {0}
    /\ ChunkSize \in Nat \ {0}
    /\ Wrap \in Nat \ {0}
    /\ MaxHead \in Nat
    /\ InitHead \in 0..MaxHead
    /\ Blocks = 0..MaxHead
    /\ MaxHead + BatchSize < Wrap
    /\ \A r \in Ranges : r[1] \in Nat /\ r[2] \in Blocks /\ r[1] <= r[2] + 1 /\ r[3] \in BOOLEAN
    /\ MaxFaults \in Nat
    /\ MaxCalls \in Nat

VARIABLES
    head,           \* the node's latest block
    ctxDone,        \* the context of the call is done
    faults,         \* calls that have failed
    begun,          \* calls of CollectHistoricalData so far
    progress,       \* pair_sync_progress.last_processed_block, or NoRow
    pc,             \* where the call is
    pair,           \* its pair
    range,          \* its startBlock, endBlock, backwards
    i,              \* its batch
    next,           \* next block of the batch that has no answer
    done,           \* next block of the chunk to be stored
    answer,         \* reserves the last Multicall read
    out,            \* result of the last call
    written,        \* history: blocks the call has stored
    writer          \* history: range of the call that stored a pair's progress

env    == <<head, ctxDone, faults, begun>>
tables == <<rows, progress>>
locals == <<pc, pair, range, i, next, done, answer>>
vars   == <<env, tables, locals, out, written, writer>>

-----------------------------------------------------------------------------
(* uint64 arithmetic.                                                      *)
Sub(x, y) == (x - y) % Wrap
Plus(x, y) == (x + y) % Wrap

First == range[1]
Last  == range[2]
Backwards == range[3]

NumBatchesFull(r) == Plus(Sub(r[2], r[1]), 1) \div BatchSize   \* faulty variant
NumBatches(r) == Sub(Plus(Plus(Sub(r[2], r[1]), 1), BatchSize), 1) \div BatchSize

\* Bounds of the n-th batch (from 0) of a range.
BatchEnd(r, n) ==
    IF r[3] THEN Sub(r[2], n * BatchSize)
    ELSE LET e == Sub(Plus(Plus(r[1], n * BatchSize), BatchSize), 1)
         IN IF e > r[2] THEN r[2] ELSE e

BatchStartUnclamped(r, n) ==   \* faulty variant
    IF r[3] THEN Plus(Sub(BatchEnd(r, n), BatchSize), 1) ELSE Plus(r[1], n * BatchSize)
BatchStart(r, n) ==
    IF r[3]
    THEN LET s == Plus(Sub(BatchEnd(r, n), BatchSize), 1)
         IN IF s < r[1] THEN r[1] ELSE s
    ELSE Plus(r[1], n * BatchSize)

-----------------------------------------------------------------------------
Init ==
    /\ InitRows
    /\ head = InitHead /\ ctxDone = FALSE /\ faults = 0 /\ begun = 0
    /\ progress = [p \in Pairs |-> NoRow]
    /\ pc = "idle" /\ pair = NoPair /\ range = <<0, 0, FALSE>>
    /\ i = 0 /\ next = 0 /\ done = 0 /\ answer = 0
    /\ out = "none" /\ written = {}
    /\ writer = [p \in Pairs |-> <<0, 0, FALSE>>]

\* Outcomes of a call, as in Backfill: after cancellation it fails.
ReadOutcomes ==
    IF ctxDone THEN {"error"}
    ELSE {"ok"} \cup (IF faults < MaxFaults THEN {"error"} ELSE {})
WriteOutcomes ==
    ReadOutcomes \cup (IF ~ctxDone /\ faults < MaxFaults THEN {"unacked"} ELSE {})

Count(o) == faults' = IF o = "ok" \/ ctxDone THEN faults ELSE faults + 1

NewBlock ==
    /\ head < MaxHead
    /\ head' = head + 1
    /\ UNCHANGED <<ctxDone, faults, begun, tables, locals, out, written, writer>>

Cancel ==
    /\ pc # "idle" /\ ~ctxDone
    /\ ctxDone' = TRUE
    /\ UNCHANGED <<head, faults, begun, tables, locals, out, written, writer>>

\* The process ends; nothing of the call is left.
Crash ==
    /\ pc # "idle"
    /\ pc' = "idle" /\ out' = "none"
    /\ ctxDone' = FALSE
    /\ UNCHANGED <<head, faults, begun, tables, pair, range, i, next, done, answer,
                   written, writer>>

Begin(p, r) ==
    /\ pc = "idle" /\ begun < MaxCalls
    /\ begun' = begun + 1
    /\ pc' = "loop" /\ pair' = p /\ range' = r /\ i' = 0
    /\ ctxDone' = FALSE /\ out' = "none" /\ written' = {}
    /\ UNCHANGED <<head, faults, tables, next, done, answer, writer>>

Return(result) ==
    /\ pc' = "idle" /\ out' = result

\* Top of the loop: out of batches, cancelled, or the next batch.
Loop ==
    /\ pc = "loop"
    /\ IF i >= NumBatches(range) THEN Return("ok")
       ELSE IF ctxDone THEN Return("error")
       ELSE pc' = "times" /\ UNCHANGED out
    /\ UNCHANGED <<env, tables, pair, range, i, next, done, answer, written, writer>>

\* GetBlockTimes: a block the node does not have yet has no header.
MinedUnchecked(lo, hi) == TRUE   \* faulty variant
Mined(lo, hi) == lo <= hi => hi <= head

BlockTimes ==
    /\ pc = "times"
    /\ \E o \in ReadOutcomes :
          /\ Count(o)
          /\ IF o = "ok" /\ Mined(BatchStart(range, i), BatchEnd(range, i))
             THEN pc' = "pair" /\ UNCHANGED out
             ELSE Return("error")
    /\ UNCHANGED <<head, ctxDone, begun, tables, pair, range, i, next, done, answer,
                   written, writer>>

\* GetPairTokens and GetTokenDecimals, which answer alike at every block.
PairData ==
    /\ pc = "pair"
    /\ \E o \in ReadOutcomes :
          /\ Count(o)
          /\ IF o = "ok" THEN pc' = "chunk" /\ next' = BatchStart(range, i) /\ UNCHANGED out
                         ELSE Return("error") /\ UNCHANGED next
    /\ UNCHANGED <<head, ctxDone, begun, tables, pair, range, i, done, answer,
                   written, writer>>

\* Multicall: it is asked for the reserves at the block next, and answers with
\* those at the head for every call of the chunk.
Multicall ==
    /\ pc = "chunk" /\ next <= BatchEnd(range, i)
    /\ \E o \in ReadOutcomes :
          /\ Count(o)
          /\ IF o = "ok" THEN /\ pc' = "store" /\ answer' = head /\ done' = next
                              /\ UNCHANGED out
                         ELSE Return("error") /\ UNCHANGED <<answer, done>>
    /\ UNCHANGED <<head, ctxDone, begun, tables, pair, range, i, next, written, writer>>

\* Last block of the chunk.
ChunkEnd ==
    IF next + ChunkSize - 1 > BatchEnd(range, i) THEN BatchEnd(range, i)
    ELSE next + ChunkSize - 1

\* InsertPairPrice, block by block.
Store ==
    /\ pc = "store"
    /\ \E o \in WriteOutcomes :
          /\ Count(o)
          /\ IF o = "error" THEN UNCHANGED <<rows, written>>
             ELSE PutRow(pair, done, answer) /\ written' = written \cup {done}
          /\ IF o # "ok" THEN Return("error") /\ UNCHANGED <<next, done>>
             ELSE IF done < ChunkEnd
             THEN done' = done + 1 /\ UNCHANGED <<pc, out, next>>
             ELSE pc' = "chunk" /\ next' = done + 1 /\ UNCHANGED <<out, done>>
    /\ UNCHANGED <<head, ctxDone, begun, progress, pair, range, i, answer, writer>>

\* processBatch returns; the upper end of the batch is stored as progress.
CheckpointLast(r, n) == r[2]   \* faulty variant
CheckpointNext(r, n) == Plus(BatchEnd(r, n), 1)   \* faulty variant
CheckpointAt(r, n) == BatchEnd(r, n)

Checkpoint ==
    /\ pc = "chunk" /\ next > BatchEnd(range, i)
    /\ \E o \in WriteOutcomes :
          /\ Count(o)
          /\ IF o = "error" THEN UNCHANGED <<progress, writer>>
             ELSE /\ progress' = [progress EXCEPT ![pair] = CheckpointAt(range, i)]
                  /\ writer' = [writer EXCEPT ![pair] = range]
          /\ IF o = "ok" THEN pc' = "loop" /\ i' = i + 1 /\ UNCHANGED out
                         ELSE Return("error") /\ UNCHANGED i
    /\ UNCHANGED <<head, ctxDone, begun, rows, pair, range, next, done, answer, written>>

Collect == Loop \/ BlockTimes \/ PairData \/ Multicall \/ Store \/ Checkpoint

Next ==
    \/ NewBlock \/ Cancel \/ Crash \/ Collect
    \/ \E p \in Pairs, r \in Ranges : Begin(p, r)

Spec == Init /\ [][Next]_vars

-----------------------------------------------------------------------------
(* Properties.                                                             *)

\* Every variable has its type.
TypeOK ==
    /\ rows \in [Pairs -> [Blocks -> Blocks \cup {NoRow}]]
    /\ progress \in [Pairs -> Blocks \cup {NoRow}]
    /\ head \in Blocks /\ ctxDone \in BOOLEAN
    /\ faults \in 0..MaxFaults /\ begun \in 0..MaxCalls
    /\ pc \in {"idle", "loop", "times", "pair", "chunk", "store"}
    /\ pair \in Pairs \cup {NoPair}
    /\ pc # "idle" => pair \in Pairs /\ range \in Ranges
    /\ i \in Nat /\ answer \in Blocks
    /\ next \in 0..Wrap - 1 /\ done \in 0..Wrap - 1
    /\ out \in {"none", "ok", "error"}
    /\ written \subseteq Blocks

\* Blocks of the lowest downward batch if BatchSize - 1 blocks do not fit
\* below its end: its start wraps (line 66), so that it is empty.
Lost(r) ==
    LET lowest == BatchEnd(r, NumBatches(r) - 1) IN
    IF r[3] /\ NumBatches(r) > 0 /\ lowest + 1 < BatchSize THEN r[1]..lowest ELSE {}

\* A call that returns no error has stored its range, and only its range; what
\* is missing is the batch that line 66 loses.
SuccessCollects == out = "ok" => written = (First..Last) \ Lost(range)

\* However calls fail, are cancelled, or end with the process, what a call has
\* stored as the pair's progress is true: an upward call has stored every block
\* from its start to it, a downward one every block from it to its end (but
\* for the batch that line 66 loses).
CheckpointTrue ==
    \A p \in Pairs : progress[p] # NoRow =>
        LET r == writer[p] IN
        (IF r[3] THEN progress[p]..r[2] ELSE r[1]..progress[p]) \ Lost(r) \subseteq Stored(p)

\* The row of a block holds reserves of that block or of a later one that the
\* node had: Multicall answers with those of the head, and no row is stored for
\* a block that does not exist.
NeverOlder ==
    \A p \in Pairs : \A b \in Stored(p) : b <= rows[p][b] /\ rows[p][b] <= head

\* No block of a call is stored twice: its batches do not overlap, nor do the
\* chunks of a batch.
StoredOnce == pc = "store" => (done..ChunkEnd) \cap written = {}

\* A step changes rows only of the pair of the call, within its range.
WithinRange ==
    [][\A p \in Pairs : \A b \in Blocks :
          rows'[p][b] # rows[p][b] => p = pair /\ b \in First..Last]_vars
=============================================================================
