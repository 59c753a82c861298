--------------------------- MODULE History_proofs ---------------------------
(***************************************************************************)
(* A row never holds reserves that are older than its block, or of a block *)
(* that the node does not have; a call stores every block of its range     *)
(* once and no other, but for the batch that its unsigned arithmetic       *)
(* loses; and what is stored as a pair's progress is true.                 *)
(***************************************************************************)
EXTENDS History, WellFoundedInduction, TLAPS

(***************************************************************************)
(* What a call knows of the chain, part by part.                           *)
(***************************************************************************)

Shapes ==
    /\ rows \in [Pairs -> [Blocks -> Int]]
    /\ head \in Nat /\ i \in Nat /\ next \in Nat /\ done \in Nat /\ answer \in Nat
    /\ pc \in {"idle", "loop", "times", "pair", "chunk", "store"}
    /\ pc # "idle" => range \in Ranges

\* A batch that has its block times ends at a block the node has, or is empty.
BatchMined ==
    pc \in {"pair", "chunk", "store"} =>
        \/ BatchEnd(range, i) < BatchStart(range, i)
        \/ BatchEnd(range, i) <= head

\* The chunk that is being stored is of the batch.
InBatch ==
    pc = "store" => /\ next <= done /\ done <= ChunkEnd
                    /\ BatchStart(range, i) <= next /\ next <= BatchEnd(range, i)

\* Blocks of the batch before next are behind it.
Onward == pc = "chunk" => BatchStart(range, i) <= next

\* What the last Multicall read is not older than a block it is stored for.
AnswerRecent == pc = "store" => BatchEnd(range, i) <= answer /\ answer <= head

IInv == Shapes /\ BatchMined /\ InBatch /\ Onward /\ AnswerRecent /\ NeverOlder

-----------------------------------------------------------------------------
\* Bounds of a batch are unsigned.
LEMMA SubType == ASSUME NEW x \in Int, NEW y \in Int PROVE Sub(x, y) \in 0..Wrap - 1
  BY HistoryAssumption DEF Sub

LEMMA PlusType == ASSUME NEW x \in Int, NEW y \in Int PROVE Plus(x, y) \in 0..Wrap - 1
  BY HistoryAssumption DEF Plus

LEMMA BatchEndType ==
  ASSUME NEW r \in Ranges, NEW n \in Nat
  PROVE  BatchEnd(r, n) \in Nat /\ BatchEnd(r, n) < Wrap
<1> DEFINE m    == n * BatchSize
           back == Sub(r[2], m)
           from == Plus(r[1], m)
           past == Plus(from, BatchSize)
           e    == Sub(past, 1)
<1>1. /\ r[1] \in Nat /\ r[2] \in Nat /\ r[2] < Wrap
      /\ BatchSize \in Nat /\ Wrap \in Nat \ {0}
  BY HistoryAssumption
<1>2. m \in Int
  BY <1>1
<1>3. back \in 0..Wrap - 1 /\ from \in 0..Wrap - 1
  <2> HIDE DEF m
  <2>1. r[1] \in Int /\ r[2] \in Int
    BY <1>1
  <2>2. back \in 0..Wrap - 1
    BY <1>2, <2>1, SubType
  <2>3. from \in 0..Wrap - 1
    BY <1>2, <2>1, PlusType
  <2> QED BY <2>2, <2>3
<1>4. from \in Int
  BY <1>3, <1>1
<1>5. past \in 0..Wrap - 1
  <2> HIDE DEF from
  <2>1. BatchSize \in Int
    BY <1>1
  <2> QED BY <2>1, <1>4, PlusType
<1>6. e \in 0..Wrap - 1
  <2> HIDE DEF past
  <2>1. past \in Int
    BY <1>5, <1>1
  <2> QED BY <2>1, SubType
<1>7. BatchEnd(r, n) = IF r[3] THEN back ELSE IF e > r[2] THEN r[2] ELSE e
  BY DEF BatchEnd
<1> HIDE DEF back, e
<1> QED BY <1>1, <1>3, <1>6, <1>7

LEMMA BatchStartType ==
  ASSUME NEW r \in Ranges, NEW n \in Nat
  PROVE  BatchStart(r, n) \in Nat /\ BatchStart(r, n) < Wrap
<1> DEFINE low  == Sub(BatchEnd(r, n), BatchSize)
           s    == Plus(low, 1)
           m    == n * BatchSize
           from == Plus(r[1], m)
<1>1. /\ r[1] \in Nat /\ r[1] < Wrap
      /\ BatchSize \in Nat /\ Wrap \in Nat \ {0}
  BY HistoryAssumption
<1>2. m \in Int
  BY <1>1
<1>3. from \in 0..Wrap - 1
  <2> HIDE DEF m
  <2>1. r[1] \in Int
    BY <1>1
  <2> QED BY <1>2, <2>1, PlusType
<1>4. low \in Int
  BY <1>1, BatchEndType, SubType
<1>5. s \in 0..Wrap - 1
  <2> HIDE DEF low
  <2> QED BY <1>4, PlusType
<1>6. BatchStart(r, n) = IF r[3] THEN IF s < r[1] THEN r[1] ELSE s ELSE from
  BY DEF BatchStart
<1> HIDE DEF s, from
<1> QED BY <1>1, <1>3, <1>5, <1>6

\* The last block of a chunk is of the batch.
LEMMA ChunkEndType ==
  ASSUME range \in Ranges, i \in Nat, next \in Nat
  PROVE  ChunkEnd \in Int /\ ChunkEnd <= BatchEnd(range, i)
<1>1. BatchEnd(range, i) \in Nat /\ ChunkSize \in Nat
  BY BatchEndType, HistoryAssumption
<1> QED BY <1>1 DEF ChunkEnd

-----------------------------------------------------------------------------
\* A step that leaves the rows, and either the call or its batch, alone.
LEMMA Elsewhere ==
  ASSUME IInv, pc' \in {"idle", "loop", "times"}, UNCHANGED <<rows, next, done, answer>>,
         head' \in Nat, head <= head', i' \in Nat,
         pc' # "idle" => range' \in Ranges
  PROVE  IInv'
<1>1. NeverOlder'
  BY DEF IInv, Shapes, NeverOlder, Stored
<1>2. Shapes'
  BY DEF IInv, Shapes
<1>3. (BatchMined /\ InBatch /\ Onward /\ AnswerRecent)'
  BY DEF BatchMined, InBatch, Onward, AnswerRecent
<1> QED BY <1>1, <1>2, <1>3 DEF IInv

LEMMA NewBlockStep == ASSUME IInv, NewBlock PROVE IInv'
<1>1. /\ head \in Nat /\ head' = head + 1
      /\ UNCHANGED <<rows, pc, range, i, next, done, answer>>
  BY DEF NewBlock, IInv, Shapes, tables, locals
<1>2. BatchEnd(range, i)' = BatchEnd(range, i) /\ BatchStart(range, i)' = BatchStart(range, i)
      /\ ChunkEnd' = ChunkEnd
  BY <1>1 DEF BatchEnd, BatchStart, ChunkEnd
<1>3. Shapes' /\ InBatch' /\ Onward'
  BY <1>1, <1>2 DEF IInv, Shapes, InBatch, Onward
<1>4. pc # "idle" => BatchEnd(range, i) \in Nat
  BY BatchEndType DEF IInv, Shapes
<1>5. BatchMined' /\ AnswerRecent'
  BY <1>1, <1>2, <1>4 DEF IInv, Shapes, BatchMined, AnswerRecent
<1>6. NeverOlder'
  BY <1>1 DEF IInv, Shapes, NeverOlder, Stored
<1> QED BY <1>3, <1>5, <1>6 DEF IInv

LEMMA OutsideStep ==
  ASSUME IInv, Cancel \/ Crash \/ \E p \in Pairs, r \in Ranges : Begin(p, r)
  PROVE  IInv'
<1>1. CASE Cancel
  <2>1. UNCHANGED <<rows, head, pc, range, i, next, done, answer>>
    BY <1>1 DEF Cancel, tables, locals
  <2>2. BatchEnd(range, i)' = BatchEnd(range, i) /\ BatchStart(range, i)' = BatchStart(range, i)
        /\ ChunkEnd' = ChunkEnd
    BY <2>1 DEF BatchEnd, BatchStart, ChunkEnd
  <2> QED
    BY <2>1, <2>2 DEF IInv, Shapes, BatchMined, InBatch, Onward, AnswerRecent, NeverOlder, Stored
<1>2. CASE Crash
  BY <1>2, Elsewhere DEF Crash, tables, IInv, Shapes
<1>3. CASE \E p \in Pairs, r \in Ranges : Begin(p, r)
  BY <1>3, Elsewhere DEF Begin, tables, IInv, Shapes
<1> QED BY <1>1, <1>2, <1>3

LEMMA LoopStep == ASSUME IInv, Loop PROVE IInv'
<1>1. /\ pc' \in {"idle", "times"} /\ range \in Ranges
      /\ UNCHANGED <<rows, head, range, i, next, done, answer>>
  BY DEF Loop, Return, env, tables, IInv, Shapes
<1> QED BY <1>1, Elsewhere DEF IInv, Shapes

LEMMA BlockTimesStep == ASSUME IInv, BlockTimes PROVE IInv'
<1>1. /\ pc' \in {"idle", "pair"} /\ range \in Ranges
      /\ UNCHANGED <<rows, head, range, i, next, done, answer>>
      /\ pc' = "pair" => Mined(BatchStart(range, i), BatchEnd(range, i))
  BY DEF BlockTimes, Return, tables, IInv, Shapes
<1>2. BatchEnd(range, i) \in Nat /\ BatchStart(range, i) \in Nat
  BY <1>1, BatchEndType, BatchStartType DEF IInv, Shapes
<1>3. BatchEnd(range, i)' = BatchEnd(range, i) /\ BatchStart(range, i)' = BatchStart(range, i)
  BY <1>1 DEF BatchEnd, BatchStart
<1>4. BatchMined'
  BY <1>1, <1>2, <1>3 DEF BatchMined, Mined
<1> QED BY <1>1, <1>4 DEF IInv, Shapes, InBatch, Onward, AnswerRecent, NeverOlder, Stored

LEMMA PairDataStep == ASSUME IInv, PairData PROVE IInv'
<1>1. /\ pc = "pair" /\ pc' \in {"idle", "chunk"} /\ range \in Ranges
      /\ UNCHANGED <<rows, head, range, i, done, answer>>
      /\ next' \in {next, BatchStart(range, i)}
      /\ pc' = "chunk" => next' = BatchStart(range, i)
  BY DEF PairData, Return, tables, IInv, Shapes
<1>2. BatchEnd(range, i) \in Nat /\ BatchStart(range, i) \in Nat
  BY <1>1, BatchEndType, BatchStartType DEF IInv, Shapes
<1>3. BatchEnd(range, i)' = BatchEnd(range, i) /\ BatchStart(range, i)' = BatchStart(range, i)
  BY <1>1 DEF BatchEnd, BatchStart
<1>4. BatchMined' /\ Onward'
  BY <1>1, <1>2, <1>3 DEF IInv, BatchMined, Onward
<1>5. Shapes'
  BY <1>1, <1>2 DEF IInv, Shapes
<1> QED BY <1>1, <1>4, <1>5 DEF IInv, InBatch, AnswerRecent, NeverOlder, Stored

LEMMA MulticallStep == ASSUME IInv, Multicall PROVE IInv'
<1>1. /\ pc = "chunk" /\ pc' \in {"idle", "store"} /\ range \in Ranges
      /\ next <= BatchEnd(range, i) /\ i \in Nat /\ next \in Nat /\ head \in Nat
      /\ UNCHANGED <<rows, head, range, i, next>>
      /\ done' \in {done, next} /\ answer' \in {answer, head}
      /\ pc' = "store" => done' = next /\ answer' = head
  BY DEF Multicall, Return, tables, IInv, Shapes
<1>2. BatchEnd(range, i) \in Nat /\ BatchStart(range, i) \in Nat /\ ChunkSize \in Nat \ {0}
  BY <1>1, BatchEndType, BatchStartType, HistoryAssumption
<1>3. /\ BatchEnd(range, i)' = BatchEnd(range, i) /\ BatchStart(range, i)' = BatchStart(range, i)
      /\ ChunkEnd' = ChunkEnd
  BY <1>1 DEF BatchEnd, BatchStart, ChunkEnd
<1>4. next <= ChunkEnd
  BY <1>1, <1>2 DEF ChunkEnd
<1>5. BatchEnd(range, i) <= head
  BY <1>1, <1>2 DEF IInv, BatchMined, Onward
<1>6. BatchMined' /\ InBatch' /\ Onward' /\ AnswerRecent'
  BY <1>1, <1>2, <1>3, <1>4, <1>5 DEF IInv, BatchMined, InBatch, Onward, AnswerRecent
<1>7. Shapes'
  BY <1>1 DEF IInv, Shapes
<1> QED BY <1>1, <1>6, <1>7 DEF IInv, NeverOlder, Stored

LEMMA StoreStep == ASSUME IInv, Store PROVE IInv'
<1>1. /\ pc = "store" /\ pc' \in {"idle", "store", "chunk"} /\ range \in Ranges
      /\ i \in Nat /\ next \in Nat /\ head \in Nat /\ done \in Nat /\ answer \in Nat
      /\ UNCHANGED <<head, range, i, answer>>
      /\ rows' = rows \/ PutRow(pair, done, answer)
  BY DEF Store, Return, IInv, Shapes
<1>2. BatchEnd(range, i) \in Nat /\ BatchStart(range, i) \in Nat /\ ChunkEnd \in Int
      /\ ChunkEnd <= BatchEnd(range, i)
  BY <1>1, BatchEndType, BatchStartType, ChunkEndType
<1>3. BatchEnd(range, i)' = BatchEnd(range, i) /\ BatchStart(range, i)' = BatchStart(range, i)
  BY <1>1 DEF BatchEnd, BatchStart
<1>4. /\ pc' = "store" => done' = done + 1 /\ done < ChunkEnd /\ next' = next
      /\ pc' = "chunk" => next' = done + 1
      /\ next' \in Nat /\ done' \in Nat
  BY <1>1 DEF Store, Return
<1>5. pc' = "store" => ChunkEnd' = ChunkEnd
  BY <1>1, <1>3, <1>4 DEF ChunkEnd
<1>6. done <= answer /\ answer <= head
  BY <1>1, <1>2 DEF IInv, InBatch, AnswerRecent
<1>7. rows' \in [Pairs -> [Blocks -> Int]] /\ NeverOlder'
  <2>1. ASSUME NEW p \in Pairs, NEW b \in Blocks
        PROVE  /\ rows'[p][b] = rows[p][b] \/ (b = done /\ rows'[p][b] = answer)
               /\ rows' \in [Pairs -> [Blocks -> Int]]
    BY <1>1 DEF PutRow, IInv, Shapes
  <2>2. rows' \in [Pairs -> [Blocks -> Int]]
    BY <1>1 DEF PutRow, IInv, Shapes
  <2>3. ASSUME NEW p \in Pairs, NEW b \in Blocks, rows'[p][b] # NoRow
        PROVE  b <= rows'[p][b] /\ rows'[p][b] <= head'
    BY <2>1, <2>3, <1>1, <1>6 DEF IInv, NeverOlder, Stored
  <2> QED BY <2>2, <2>3 DEF NeverOlder, Stored
<1>8. BatchMined' /\ InBatch' /\ Onward' /\ AnswerRecent'
  BY <1>1, <1>2, <1>3, <1>4, <1>5 DEF IInv, BatchMined, InBatch, Onward, AnswerRecent
<1>9. Shapes'
  BY <1>1, <1>4, <1>7 DEF IInv, Shapes
<1> QED BY <1>7, <1>8, <1>9 DEF IInv

LEMMA CheckpointStep == ASSUME IInv, Checkpoint PROVE IInv'
<1>1. /\ pc' \in {"idle", "loop"} /\ range \in Ranges /\ i' \in Nat
      /\ UNCHANGED <<rows, head, range, next, done, answer>>
  BY DEF Checkpoint, Return, IInv, Shapes
<1> QED BY <1>1, Elsewhere DEF IInv, Shapes

LEMMA IInvInit == ASSUME Init PROVE IInv
<1>1. Shapes
  BY HistoryAssumption DEF Init, InitRows, Shapes, NoRow
<1>2. NeverOlder
  BY DEF Init, InitRows, NeverOlder, Stored
<1> QED
  BY <1>1, <1>2 DEF Init, IInv, BatchMined, InBatch, Onward, AnswerRecent

LEMMA IInvStep == ASSUME IInv, [Next]_vars PROVE IInv'
<1>1. CASE UNCHANGED vars
  <2>1. UNCHANGED <<rows, head, pc, range, i, next, done, answer>>
    BY <1>1 DEF vars, env, tables, locals
  <2>2. BatchEnd(range, i)' = BatchEnd(range, i) /\ BatchStart(range, i)' = BatchStart(range, i)
        /\ ChunkEnd' = ChunkEnd
    BY <2>1 DEF BatchEnd, BatchStart, ChunkEnd
  <2> QED
    BY <2>1, <2>2 DEF IInv, Shapes, BatchMined, InBatch, Onward, AnswerRecent, NeverOlder, Stored
<1>2. CASE NewBlock
  BY <1>2, NewBlockStep
<1>3. CASE Cancel \/ Crash \/ \E p \in Pairs, r \in Ranges : Begin(p, r)
  BY <1>3, OutsideStep
<1>4. CASE Collect
  BY <1>4, LoopStep, BlockTimesStep, PairDataStep, MulticallStep, StoreStep, CheckpointStep
     DEF Collect
<1> QED
  BY <1>1, <1>2, <1>3, <1>4 DEF Next

\* Whatever fails, is cancelled or repeated, in whatever range and direction,
\* the row of a block holds reserves of that block or of a later one that the
\* node has.
THEOREM RowsAreNeverOlder == Spec => []NeverOlder
<1> QED BY IInvInit, IInvStep, PTL DEF IInv, Spec

-----------------------------------------------------------------------------
(* The batches of a range.                                                 *)

\* Unsigned results that do not wrap, or wrap once.
LEMMA Wraps ==
  ASSUME NEW x \in Int
  PROVE  /\ x \in 0..Wrap - 1 => x % Wrap = x
         /\ x \in Wrap..2 * Wrap - 1 => x % Wrap = x - Wrap
         /\ x \in -Wrap..-1 => x % Wrap = x + Wrap
<1>1. Wrap \in Nat \ {0}
  BY HistoryAssumption
<1> QED BY <1>1

LEMMA SubIs ==
  ASSUME NEW x \in Int, NEW y \in Int
  PROVE  /\ x - y \in 0..Wrap - 1 => Sub(x, y) = x - y
         /\ x - y \in -Wrap..-1 => Sub(x, y) = x - y + Wrap
<1> DEFINE z == x - y
<1>1. z \in Int /\ Wrap \in Nat
  BY HistoryAssumption
<1>2. Sub(x, y) = z % Wrap
  BY DEF Sub
<1> HIDE DEF z
<1>3. /\ z \in 0..Wrap - 1 => z % Wrap = z
      /\ z \in Wrap..2 * Wrap - 1 => z % Wrap = z - Wrap
      /\ z \in -Wrap..-1 => z % Wrap = z + Wrap
  BY <1>1, Wraps
<1> QED BY <1>1, <1>2, <1>3 DEF z

LEMMA PlusIs ==
  ASSUME NEW x \in Int, NEW y \in Int
  PROVE  /\ x + y \in 0..Wrap - 1 => Plus(x, y) = x + y
         /\ x + y \in Wrap..2 * Wrap - 1 => Plus(x, y) = x + y - Wrap
<1> DEFINE z == x + y
<1>1. z \in Int /\ Wrap \in Nat
  BY HistoryAssumption
<1>2. Plus(x, y) = z % Wrap
  BY DEF Plus
<1> HIDE DEF z
<1>3. /\ z \in 0..Wrap - 1 => z % Wrap = z
      /\ z \in Wrap..2 * Wrap - 1 => z % Wrap = z - Wrap
      /\ z \in -Wrap..-1 => z % Wrap = z + Wrap
  BY <1>1, Wraps
<1> QED BY <1>1, <1>2, <1>3 DEF z

\* The whole batches of x blocks.
LEMMA Division ==
  ASSUME NEW x \in Nat, NEW n \in Nat
  PROVE  /\ x \div BatchSize \in Nat
         /\ n < x \div BatchSize <=> n * BatchSize <= x - BatchSize
<1>1. BatchSize \in Nat \ {0}
  BY HistoryAssumption
<1> DEFINE q == x \div BatchSize
<1>2. q \in Nat /\ q * BatchSize <= x /\ x < q * BatchSize + BatchSize
  BY <1>1
<1> HIDE DEF q
<1>3. CASE n < q
  <2> PICK d \in Nat : d = q - n - 1
    BY <1>2, <1>3
  <2>1. q = n + 1 + d
    BY <1>2
  <2>3. q * BatchSize = n * BatchSize + BatchSize + d * BatchSize
    BY <1>1, <2>1
  <2>2. d * BatchSize \in Nat /\ n * BatchSize \in Nat
    BY <1>1
  <2> QED BY <1>1, <1>2, <1>3, <2>2, <2>3
<1>4. CASE n >= q
  <2> PICK d \in Nat : d = n - q
    BY <1>2, <1>4
  <2>1. n = q + d
    BY <1>2
  <2>3. n * BatchSize = q * BatchSize + d * BatchSize
    BY <1>1, <1>2, <2>1
  <2>2. d * BatchSize \in Nat /\ q * BatchSize \in Nat
    BY <1>1, <1>2
  <2> QED BY <1>1, <1>2, <1>4, <2>2, <2>3
<1> QED BY <1>2, <1>3, <1>4 DEF q

LEMMA RangeOf ==
  ASSUME NEW r \in Ranges
  PROVE  /\ r[1] \in Nat /\ r[2] \in Nat /\ r[3] \in BOOLEAN
         /\ r[1] <= r[2] + 1 /\ r[2] <= MaxHead
         /\ BatchSize \in Nat \ {0} /\ Wrap \in Nat \ {0} /\ MaxHead \in Nat
         /\ MaxHead + BatchSize < Wrap
  BY HistoryAssumption

\* A range has the batches that begin within it.
LEMMA BatchCount ==
  ASSUME NEW r \in Ranges
  PROVE  /\ NumBatches(r) \in Nat
         /\ \A n \in Nat : n < NumBatches(r) <=> n * BatchSize <= r[2] - r[1]
<1> USE RangeOf
<1> DEFINE d == r[2] - r[1]
<1>0. d \in Int /\ d >= -1 /\ d <= MaxHead /\ d + 1 \in Int
  OBVIOUS
<1>1. Plus(Sub(r[2], r[1]), 1) = d + 1
  <2>1. CASE r[1] = r[2] + 1
    <3>1. Sub(r[2], r[1]) = Wrap - 1
      BY <2>1, SubIs
    <3>2. Wrap - 1 \in Int /\ (Wrap - 1) + 1 \in Wrap..2 * Wrap - 1
      OBVIOUS
    <3>3. Plus(Wrap - 1, 1) = 0
      BY <3>2, PlusIs
    <3> QED BY <2>1, <3>1, <3>3
  <2>2. CASE r[1] <= r[2]
    <3>1. Sub(r[2], r[1]) = d
      BY <2>2, SubIs
    <3>2. d >= 0
      BY <2>2
    <3> HIDE DEF d
    <3>3. Plus(d, 1) = d + 1
      BY <1>0, <3>2, PlusIs
    <3> QED BY <3>1, <3>3
  <2> QED BY <2>1, <2>2
<1> DEFINE x == d + BatchSize
<1>2. Sub(Plus(d + 1, BatchSize), 1) = x
  <2> HIDE DEF d
  <2>1. CASE x + 1 < Wrap
    <3>1. Plus(d + 1, BatchSize) = x + 1
      BY <1>0, <2>1, PlusIs
    <3> QED BY <1>0, <2>1, <3>1, SubIs
  <2>2. CASE x + 1 = Wrap
    <3>0. (d + 1) + BatchSize \in Wrap..2 * Wrap - 1
      BY <1>0, <2>2
    <3>1. Plus(d + 1, BatchSize) = 0
      BY <1>0, <2>2, <3>0, PlusIs
    <3> QED BY <1>0, <2>2, <3>1, SubIs
  <2> QED BY <1>0, <2>1, <2>2
<1>3. NumBatches(r) = x \div BatchSize
  BY <1>1, <1>2 DEF NumBatches
<1>4. x \in Nat /\ x - BatchSize = r[2] - r[1]
  OBVIOUS
<1> HIDE DEF x
<1> QED BY <1>3, <1>4, Division

\* Only the start of a batch wraps, downwards, where BatchSize blocks do not fit.
LEMMA BatchBounds ==
  ASSUME NEW r \in Ranges, NEW n \in Nat, n < NumBatches(r)
  PROVE  LET m == n * BatchSize
             s == BatchStart(r, n)
             e == BatchEnd(r, n)
         IN /\ m \in Nat /\ m <= r[2] - r[1]
            /\ ~r[3] => s = r[1] + m /\ e = IF r[1] + m + BatchSize - 1 > r[2] THEN r[2]
                                            ELSE r[1] + m + BatchSize - 1
            /\ r[3] => /\ e = r[2] - m
                       /\ BatchSize <= e + 1 =>
                             s = IF e - BatchSize + 1 < r[1] THEN r[1] ELSE e - BatchSize + 1
                       /\ e + 1 < BatchSize => e < s
<1> USE RangeOf
<1> DEFINE m == n * BatchSize
           s == BatchStart(r, n)
           e == BatchEnd(r, n)
<1>1. m \in Nat /\ m <= r[2] - r[1]
  BY BatchCount
<1>2. BatchEnd(r, n) = IF r[3] THEN Sub(r[2], m)
                       ELSE LET z == Sub(Plus(Plus(r[1], m), BatchSize), 1)
                            IN IF z > r[2] THEN r[2] ELSE z
  BY DEF BatchEnd
<1>3. BatchStart(r, n) = IF r[3] THEN LET z == Plus(Sub(BatchEnd(r, n), BatchSize), 1)
                                      IN IF z < r[1] THEN r[1] ELSE z
                         ELSE Plus(r[1], m)
  BY DEF BatchStart
<1> HIDE DEF m
<1>4. ASSUME ~r[3]
      PROVE  s = r[1] + m /\ e = IF r[1] + m + BatchSize - 1 > r[2] THEN r[2]
                                 ELSE r[1] + m + BatchSize - 1
  <2>1. Plus(r[1], m) = r[1] + m
    BY <1>1, PlusIs
  <2> DEFINE t == r[1] + m + BatchSize
  <2>2. t \in Nat /\ t <= Wrap /\ t >= 1
    BY <1>1
  <2>3. Sub(Plus(r[1] + m, BatchSize), 1) = t - 1
    <3>1. CASE t < Wrap
      <4>1. Plus(r[1] + m, BatchSize) = t
        BY <3>1, <2>2, <1>1, PlusIs
      <4> QED BY <4>1, <3>1, <2>2, SubIs
    <3>2. CASE t = Wrap
      <4>1. Plus(r[1] + m, BatchSize) = 0
        BY <3>2, <1>1, PlusIs
      <4> QED BY <4>1, <3>2, <2>2, SubIs
    <3> QED BY <2>2, <3>1, <3>2
  <2>4. s = r[1] + m
    BY <1>3, <1>4, <2>1
  <2>5. e = IF t - 1 > r[2] THEN r[2] ELSE t - 1
    BY <1>2, <1>4, <2>1, <2>3
  <2> QED BY <1>1, <2>4, <2>5
<1>5. ASSUME r[3]
      PROVE  /\ e = r[2] - m
             /\ BatchSize <= e + 1 =>
                   s = IF e - BatchSize + 1 < r[1] THEN r[1] ELSE e - BatchSize + 1
             /\ e + 1 < BatchSize => e < s
  <2>1. Sub(r[2], m) = r[2] - m
    BY <1>1, SubIs
  <2>2. e = r[2] - m /\ e \in Nat /\ e <= MaxHead
    BY <1>1, <1>2, <1>5, <2>1
  <2> HIDE DEF e
  <2>3. ASSUME BatchSize <= e + 1
        PROVE  Plus(Sub(e, BatchSize), 1) = e - BatchSize + 1
    <3>1. CASE BatchSize = e + 1
      <4>1. Sub(e, BatchSize) = Wrap - 1
        BY <2>2, <3>1, SubIs
      <4> QED BY <2>2, <3>1, <4>1, PlusIs
    <3>2. CASE BatchSize <= e
      <4>1. Sub(e, BatchSize) = e - BatchSize
        BY <2>2, <3>2, SubIs
      <4>2. e - BatchSize \in Int /\ e - BatchSize + 1 \in 0..Wrap - 1
        BY <2>2, <3>2
      <4>3. Plus(e - BatchSize, 1) = e - BatchSize + 1
        BY <4>2, PlusIs
      <4> QED BY <4>1, <4>3
    <3> QED BY <2>2, <2>3, <3>1, <3>2
  <2>4. ASSUME e + 1 < BatchSize
        PROVE  Plus(Sub(e, BatchSize), 1) = e - BatchSize + 1 + Wrap
    <3>1. Sub(e, BatchSize) = e - BatchSize + Wrap
      BY <2>2, <2>4, SubIs
    <3> QED BY <2>2, <2>4, <3>1, PlusIs
  <2>5. s = IF Plus(Sub(e, BatchSize), 1) < r[1] THEN r[1] ELSE Plus(Sub(e, BatchSize), 1)
    BY <1>3, <1>5 DEF e
  <2>6. BatchSize <= e + 1 =>
            s = IF e - BatchSize + 1 < r[1] THEN r[1] ELSE e - BatchSize + 1
    BY <2>3, <2>5
  <2>7. e + 1 < BatchSize => e < s
    BY <2>2, <2>4, <2>5
  <2> QED BY <2>2, <2>6, <2>7
<1> QED BY <1>1, <1>4, <1>5 DEF m

\* Blocks of the batches before the n-th, but for what line 66 loses.
BeforeBatch(r, n) ==
    {b \in r[1]..r[2] : IF r[3] THEN r[2] - n * BatchSize < b ELSE b < r[1] + n * BatchSize}
        \ Lost(r)

LEMMA Monotone ==
  ASSUME NEW n \in Nat, NEW k \in Nat, n <= k
  PROVE  n * BatchSize \in Nat /\ k * BatchSize \in Nat /\ n * BatchSize <= k * BatchSize
<1>1. BatchSize \in Nat
  BY HistoryAssumption
<1> PICK d \in Nat : d = k - n
  OBVIOUS
<1>2. k = n + d
  OBVIOUS
<1>3. k * BatchSize = n * BatchSize + d * BatchSize
  BY <1>1, <1>2
<1>4. d * BatchSize \in Nat /\ n * BatchSize \in Nat
  BY <1>1
<1> QED BY <1>3, <1>4

\* A batch whose start wraps is the lowest, and is what is lost.
LEMMA LostIs ==
  ASSUME NEW r \in Ranges, NEW n \in Nat, n < NumBatches(r), r[3], NEW b \in Int
  PROVE  /\ BatchEnd(r, n) + 1 < BatchSize =>
                (b \in Lost(r) <=> r[1] <= b /\ b <= BatchEnd(r, n))
         /\ BatchSize <= BatchEnd(r, n) + 1 /\ r[2] - (n + 1) * BatchSize < b =>
                b \notin Lost(r)
<1> DEFINE N == NumBatches(r)
           low == BatchEnd(r, N - 1)
<1>1. N \in Nat /\ N > 0 /\ N - 1 \in Nat /\ n <= N - 1
  BY BatchCount
<1>2. /\ r[1] \in Nat /\ r[2] \in Nat /\ BatchSize \in Nat
  BY RangeOf
<1>3. BatchEnd(r, n) = r[2] - n * BatchSize /\ n * BatchSize \in Nat
  BY BatchBounds
<1>4. low = r[2] - (N - 1) * BatchSize /\ (N - 1) * BatchSize \in Nat
  <2>1. N - 1 < N
    BY <1>1
  <2> QED BY <1>1, <2>1, BatchBounds
<1>5. b \in Lost(r) <=> low + 1 < BatchSize /\ r[1] <= b /\ b <= low
  BY <1>1, <1>2, <1>4 DEF Lost
<1>6. (n + 1) * BatchSize = n * BatchSize + BatchSize
  BY <1>2
<1>7. CASE n = N - 1
  BY <1>2, <1>3, <1>5, <1>7
<1>8. CASE n < N - 1
  <2>1. (n + 1) * BatchSize <= r[2] - r[1]
    BY <1>1, <1>8, BatchCount
  <2>2. BatchSize <= BatchEnd(r, n) + 1
    BY <1>2, <1>3, <1>6, <2>1
  <2>3. (n + 1) * BatchSize <= (N - 1) * BatchSize
    BY <1>1, <1>8, Monotone
  <2>4. (n + 1) * BatchSize \in Nat
    BY <1>2, <1>3, <1>6
  <2> HIDE DEF N, low
  <2> QED BY <1>2, <1>3, <1>4, <1>5, <2>2, <2>3, <2>4
<1> QED BY <1>1, <1>7, <1>8

\* A batch continues the ones before it, without a gap and without an overlap.
LEMMA NextBatch ==
  ASSUME NEW r \in Ranges, NEW n \in Nat, n < NumBatches(r), NEW b \in Int
  PROVE  LET here == BatchStart(r, n) <= b /\ b <= BatchEnd(r, n)
         IN /\ b \in BeforeBatch(r, n + 1) <=> b \in BeforeBatch(r, n) \/ here
            /\ ~(b \in BeforeBatch(r, n) /\ here)
            /\ here => r[1] <= b /\ b <= r[2]
<1> DEFINE m == n * BatchSize
           s == BatchStart(r, n)
           e == BatchEnd(r, n)
<1>1. /\ r[1] \in Nat /\ r[2] \in Nat /\ BatchSize \in Nat \ {0} /\ r[3] \in BOOLEAN
  BY RangeOf
<1>2. m \in Nat /\ m <= r[2] - r[1] /\ (n + 1) * BatchSize = m + BatchSize
  BY <1>1, BatchBounds
<1>3. ~r[3] => s = r[1] + m /\ e = IF r[1] + m + BatchSize - 1 > r[2] THEN r[2]
                                   ELSE r[1] + m + BatchSize - 1
  BY BatchBounds
<1>4. r[3] => /\ e = r[2] - m
              /\ BatchSize <= e + 1 =>
                    s = IF e - BatchSize + 1 < r[1] THEN r[1] ELSE e - BatchSize + 1
              /\ e + 1 < BatchSize => e < s
  BY BatchBounds
<1>5. /\ b \in BeforeBatch(r, n) <=>
            /\ r[1] <= b /\ b <= r[2] /\ b \notin Lost(r)
            /\ IF r[3] THEN r[2] - m < b ELSE b < r[1] + m
      /\ b \in BeforeBatch(r, n + 1) <=>
            /\ r[1] <= b /\ b <= r[2] /\ b \notin Lost(r)
            /\ IF r[3] THEN r[2] - (m + BatchSize) < b ELSE b < r[1] + (m + BatchSize)
  BY <1>1, <1>2 DEF BeforeBatch
<1>6. s \in Nat /\ e \in Nat
  BY BatchStartType, BatchEndType
<1>7. CASE ~r[3]
  <2>1. b \notin Lost(r)
    BY <1>7 DEF Lost
  <2> HIDE DEF m, s, e
  <2>2. s = r[1] + m /\ e = IF r[1] + m + BatchSize - 1 > r[2] THEN r[2]
                            ELSE r[1] + m + BatchSize - 1
    BY <1>3, <1>7
  <2>3. (s <= b /\ b <= e) <=> (r[1] + m <= b /\ b <= r[2] /\ b < r[1] + m + BatchSize)
    BY <1>1, <1>2, <2>2
  <2>4. /\ b \in BeforeBatch(r, n) <=> r[1] <= b /\ b <= r[2] /\ b < r[1] + m
        /\ b \in BeforeBatch(r, n + 1) <=> r[1] <= b /\ b <= r[2] /\ b < r[1] + (m + BatchSize)
    BY <1>5, <1>7, <2>1
  <2>5. (b \in BeforeBatch(r, n + 1) <=> b \in BeforeBatch(r, n) \/ (s <= b /\ b <= e))
    BY <1>1, <1>2, <2>3, <2>4
  <2>6. ~(b \in BeforeBatch(r, n) /\ s <= b /\ b <= e)
    BY <1>1, <1>2, <2>3, <2>4
  <2>7. s <= b /\ b <= e => r[1] <= b /\ b <= r[2]
    BY <1>1, <1>2, <2>3
  <2> QED BY <2>5, <2>6, <2>7 DEF s, e
<1>8. CASE r[3] /\ BatchSize <= e + 1
  <2>1. r[2] - (m + BatchSize) < b => b \notin Lost(r)
    BY <1>2, <1>8, LostIs
  <2> HIDE DEF m, s, e
  <2>2. e = r[2] - m /\ s = IF e - BatchSize + 1 < r[1] THEN r[1] ELSE e - BatchSize + 1
    BY <1>4, <1>8
  <2>3. (s <= b /\ b <= e) <=> (r[1] <= b /\ b <= r[2] - m /\ r[2] - (m + BatchSize) < b)
    BY <1>1, <1>2, <2>2
  <2>4. r[2] - m < b => r[2] - (m + BatchSize) < b
    BY <1>1, <1>2
  <2>5. /\ b \in BeforeBatch(r, n) <=> r[1] <= b /\ b <= r[2] /\ r[2] - m < b
        /\ b \in BeforeBatch(r, n + 1) <=> r[1] <= b /\ b <= r[2] /\ r[2] - (m + BatchSize) < b
    BY <1>5, <1>8, <2>1, <2>4
  <2>6. (b \in BeforeBatch(r, n + 1) <=> b \in BeforeBatch(r, n) \/ (s <= b /\ b <= e))
    BY <1>1, <1>2, <2>3, <2>5
  <2>7. ~(b \in BeforeBatch(r, n) /\ s <= b /\ b <= e)
    BY <1>1, <1>2, <2>3, <2>5
  <2>8. s <= b /\ b <= e => r[1] <= b /\ b <= r[2]
    BY <1>1, <1>2, <2>3
  <2> QED BY <2>6, <2>7, <2>8 DEF s, e
<1>9. CASE r[3] /\ e + 1 < BatchSize
  <2>1. b \in Lost(r) <=> r[1] <= b /\ b <= e
    BY <1>9, LostIs
  <2> HIDE DEF m, s, e
  <2>2. e = r[2] - m /\ ~(s <= b /\ b <= e)
    BY <1>1, <1>2, <1>4, <1>6, <1>9
  <2>3. r[1] <= b => r[2] - (m + BatchSize) < b
    BY <1>1, <1>2, <1>9, <2>2
  <2>4. /\ b \in BeforeBatch(r, n) <=> r[1] <= b /\ b <= r[2] /\ e < b
        /\ b \in BeforeBatch(r, n + 1) <=> r[1] <= b /\ b <= r[2] /\ e < b
    BY <1>1, <1>5, <1>6, <1>9, <2>1, <2>2, <2>3
  <2> QED BY <2>2, <2>4 DEF s, e
<1> QED BY <1>1, <1>6, <1>7, <1>8, <1>9

\* The batches of a range are the range, but for what is lost.
LEMMA AllBatches ==
  ASSUME NEW r \in Ranges, NEW b \in Int
  PROVE  b \in BeforeBatch(r, NumBatches(r)) <=> b \in (r[1]..r[2]) \ Lost(r)
<1> DEFINE N == NumBatches(r)
           m == N * BatchSize
<1>1. /\ r[1] \in Nat /\ r[2] \in Nat /\ BatchSize \in Nat /\ N \in Nat
  BY RangeOf, BatchCount
<1>2. m \in Nat /\ r[2] - r[1] < m
  <2>1. ~(N < N)
    BY <1>1
  <2>2. N * BatchSize \in Nat /\ ~(N * BatchSize <= r[2] - r[1])
    BY <1>1, <2>1, BatchCount
  <2> QED BY <1>1, <2>2
<1>3. b \in BeforeBatch(r, N) <=>
            /\ r[1] <= b /\ b <= r[2] /\ b \notin Lost(r)
            /\ IF r[3] THEN r[2] - m < b ELSE b < r[1] + m
  BY <1>1 DEF BeforeBatch
<1> HIDE DEF m
<1>4. r[1] <= b /\ b <= r[2] => r[2] - m < b /\ b < r[1] + m
  BY <1>1, <1>2
<1> QED BY <1>1, <1>3, <1>4

-----------------------------------------------------------------------------
(* What a call stores.                                                     *)

\* The batch of a call is one of its range's; a call has no result until it ends.
Counted ==
    /\ pc \in {"times", "pair", "chunk", "store"} => i < NumBatches(range)
    /\ pc = "loop" => i <= NumBatches(range)
    /\ pc # "idle" => out = "none"
    /\ out = "ok" => range \in Ranges

\* What a call has stored: the batches before its own, and of its own the blocks
\* before next, or before done in the chunk that begins at next.
Wrote ==
    \A b \in Blocks :
        /\ pc \in {"loop", "times", "pair"} => (b \in written <=> b \in BeforeBatch(range, i))
        /\ pc = "chunk" => (b \in written <=>
              b \in BeforeBatch(range, i) \/ (BatchStart(range, i) <= b /\ b < next))
        /\ pc = "store" => (b \in written <=>
              b \in BeforeBatch(range, i) \/ (BatchStart(range, i) <= b /\ b < done))
        /\ out = "ok" => (b \in written <=> b \in BeforeBatch(range, NumBatches(range)))

\* A batch is left behind its last block, or was empty.
Within == pc = "chunk" => next = BatchStart(range, i) \/ next <= BatchEnd(range, i) + 1

\* What a call has stored is still stored.
Held == pc # "idle" => written \subseteq Stored(pair)

WInv ==
    /\ TypeOK /\ Counted /\ Wrote /\ Within /\ Held /\ CheckpointTrue
    /\ writer = [p \in Pairs |-> writer[p]]

\* The progress stored after a batch has only stored blocks behind it.
LEMMA BatchBlocks ==
  ASSUME NEW r \in Ranges, NEW n \in Nat, n < NumBatches(r)
  PROVE  /\ BatchEnd(r, n) \in Blocks
         /\ \A b \in Blocks : b \notin Lost(r) /\ b \in (IF r[3] THEN BatchEnd(r, n)..r[2]
                                                       ELSE r[1]..BatchEnd(r, n))
                => b \in BeforeBatch(r, n + 1)
<1> DEFINE m == n * BatchSize
           e == BatchEnd(r, n)
<1>1. /\ r[1] \in Nat /\ r[2] \in Nat /\ BatchSize \in Nat \ {0} /\ r[3] \in BOOLEAN
      /\ r[2] <= MaxHead /\ MaxHead \in Nat /\ Blocks = 0..MaxHead
  BY RangeOf, HistoryAssumption
<1>2. m \in Nat /\ m <= r[2] - r[1]
  BY BatchBounds
<1>7. (n + 1) * BatchSize = m + BatchSize
  BY <1>1
<1>3. ~r[3] => e = IF r[1] + m + BatchSize - 1 > r[2] THEN r[2] ELSE r[1] + m + BatchSize - 1
  BY BatchBounds
<1>4. r[3] => e = r[2] - m
  BY BatchBounds
<1> HIDE DEF m, e
<1>5. e \in Blocks
  <2>1. CASE r[3]
    BY <1>1, <1>2, <1>4, <2>1
  <2>2. CASE ~r[3]
    <3>1. e = r[2] \/ (e = r[1] + m + BatchSize - 1 /\ e <= r[2])
      BY <1>1, <1>2, <1>3, <2>2
    <3> QED BY <1>1, <1>2, <3>1
  <2> QED BY <2>1, <2>2
<1>6. ASSUME NEW b \in Blocks, b \notin Lost(r), b \in (IF r[3] THEN e..r[2] ELSE r[1]..e)
      PROVE  b \in BeforeBatch(r, n + 1)
  <2>1. b \in BeforeBatch(r, n + 1) <=>
            /\ r[1] <= b /\ b <= r[2] /\ b \notin Lost(r)
            /\ IF r[3] THEN r[2] - (m + BatchSize) < b ELSE b < r[1] + (m + BatchSize)
    BY <1>1, <1>7 DEF BeforeBatch
  <2>2. b \in Nat /\ e \in Nat
    BY <1>1, <1>5
  <2>3. CASE r[3]
    <3>0. b \in e..r[2]
      BY <1>6, <2>3, Zenon
    <3>1. e <= b /\ b <= r[2] /\ e = r[2] - m
      BY <1>1, <1>4, <2>2, <2>3, <3>0
    <3>2. r[1] <= b /\ r[2] - (m + BatchSize) < b
      <4>1. r[1] <= b
        BY <1>1, <1>2, <2>2, <3>1
      <4>2. r[2] - (m + BatchSize) < b
        BY <1>1, <1>2, <2>2, <3>1
      <4> QED BY <4>1, <4>2
    <3> QED BY <1>6, <2>1, <2>3, <3>1, <3>2
  <2>4. CASE ~r[3]
    <3>0. b \in r[1]..e
      BY <1>6, <2>4, Zenon
    <3>1. r[1] <= b /\ b <= e
      BY <1>1, <2>2, <3>0
    <3>2. b <= r[2] /\ b < r[1] + (m + BatchSize)
      <4>1. e <= r[2] /\ e <= r[1] + m + BatchSize - 1
        <5>1. e = IF r[1] + m + BatchSize - 1 > r[2] THEN r[2] ELSE r[1] + m + BatchSize - 1
          BY <1>3, <2>4, Zenon
        <5>2. r[1] + m + BatchSize - 1 \in Int /\ r[2] \in Int
          BY <1>1, <1>2
        <5> QED BY <5>1, <5>2
      <4>2. b <= r[2]
        BY <1>1, <2>2, <3>1, <4>1
      <4>3. b < r[1] + (m + BatchSize)
        BY <1>1, <1>2, <2>2, <3>1, <4>1
      <4> QED BY <4>2, <4>3
    <3> QED BY <1>6, <2>1, <2>4, <3>1, <3>2
  <2> QED BY <2>3, <2>4
<1> QED BY <1>5, <1>6 DEF e

\* The batch of a step that leaves the call's range alone.
LEMMA SameRange ==
  ASSUME range' = range
  PROVE  /\ BatchStart(range, i)' = BatchStart(range, i')
         /\ BatchEnd(range, i)' = BatchEnd(range, i')
         /\ BeforeBatch(range, i)' = BeforeBatch(range, i')
         /\ NumBatches(range)' = NumBatches(range)
         /\ BeforeBatch(range, NumBatches(range))' = BeforeBatch(range, NumBatches(range))
  BY DEF BatchStart, BatchEnd, BeforeBatch, NumBatches, Lost

\* A step that stores nothing.
LEMMA NothingStored ==
  ASSUME WInv, UNCHANGED <<rows, progress, writer, written, pair>>, pc' # "idle" => pc # "idle"
  PROVE  Held' /\ CheckpointTrue' /\ (writer = [p \in Pairs |-> writer[p]])'
  BY DEF WInv, Held, CheckpointTrue, Stored, Lost

\* A call ends with an error, or with the process.
LEMMA Failed ==
  ASSUME WInv, pc' = "idle", out' \in {"none", "error"}
  PROVE  Counted' /\ Wrote' /\ Within' /\ Held'
  BY DEF Counted, Wrote, Within, Held

LEMMA CountType ==
  ASSUME TypeOK, NEW o \in WriteOutcomes, Count(o)
  PROVE  faults' \in 0..MaxFaults
<1>1. faults \in 0..MaxFaults /\ MaxFaults \in Nat
  BY HistoryAssumption DEF TypeOK
<1>2. o = "ok" \/ ctxDone \/ faults < MaxFaults
  BY DEF WriteOutcomes, ReadOutcomes
<1> QED BY <1>1, <1>2 DEF Count

LEMMA OutsideWrites ==
  ASSUME WInv, NewBlock \/ Cancel \/ Crash \/ \E p \in Pairs, r \in Ranges : Begin(p, r)
  PROVE  WInv'
<1>1. CASE NewBlock \/ Cancel
  <2>1. UNCHANGED <<faults, begun, rows, progress, pc, pair, range, i, next, done, answer, out,
                    written, writer>>
    BY <1>1 DEF NewBlock, Cancel, tables, locals
  <2>2. head' \in Blocks /\ ctxDone' \in BOOLEAN
    <3>1. CASE NewBlock
      <4>1. head \in 0..MaxHead /\ head < MaxHead /\ head' = head + 1 /\ ctxDone' = ctxDone
        BY <3>1, HistoryAssumption DEF NewBlock, WInv, TypeOK
      <4>2. head' \in 0..MaxHead
        BY <4>1, HistoryAssumption
      <4> QED BY <4>1, <4>2, HistoryAssumption DEF WInv, TypeOK
    <3>2. CASE Cancel
      BY <3>2 DEF Cancel, WInv, TypeOK
    <3> QED BY <1>1, <3>1, <3>2
  <2>3. TypeOK'
    BY <2>1, <2>2 DEF WInv, TypeOK
  <2>4. Counted' /\ Wrote' /\ Within'
    BY <2>1, SameRange DEF WInv, Counted, Wrote, Within
  <2> QED BY <2>1, <2>3, <2>4, NothingStored DEF WInv
<1>2. CASE Crash
  <2>1. /\ UNCHANGED <<head, faults, begun, rows, progress, pair, range, i, next, done, answer,
                       written, writer>>
        /\ pc' = "idle" /\ out' = "none" /\ ctxDone' = FALSE
    BY <1>2 DEF Crash, tables
  <2>2. TypeOK'
    BY <2>1 DEF WInv, TypeOK
  <2> QED BY <2>1, <2>2, Failed, NothingStored DEF WInv
<1>3. CASE \E p \in Pairs, r \in Ranges : Begin(p, r)
  <2>1. PICK p \in Pairs, r \in Ranges : Begin(p, r)
    BY <1>3
  <2>2. /\ UNCHANGED <<head, faults, rows, progress, next, done, answer, writer>>
        /\ pc = "idle" /\ pc' = "loop" /\ pair' = p /\ range' = r /\ i' = 0
        /\ ctxDone' = FALSE /\ out' = "none" /\ written' = {}
        /\ begun < MaxCalls /\ begun' = begun + 1
    BY <2>1 DEF Begin, tables
  <2>3. begun' \in 0..MaxCalls
    <3>1. begun \in 0..MaxCalls
      BY DEF WInv, TypeOK
    <3>2. MaxCalls \in Nat
      BY HistoryAssumption
    <3> QED BY <2>2, <3>1, <3>2
  <2>4. TypeOK'
    BY <2>2, <2>3 DEF WInv, TypeOK
  <2>5. Counted'
    <3>1. NumBatches(r) \in Nat
      BY BatchCount
    <3>2. NumBatches(range)' = NumBatches(r)
      BY <2>2 DEF NumBatches
    <3> QED BY <2>2, <3>1, <3>2 DEF Counted
  <2>6. Wrote'
    <3>1. ASSUME NEW b \in Blocks PROVE b \notin BeforeBatch(r, 0)
      <4>1. b \in Int /\ r[1] \in Nat /\ r[2] \in Nat /\ BatchSize \in Nat
        BY RangeOf, HistoryAssumption
      <4>2. 0 * BatchSize = 0
        BY <4>1
      <4> QED BY <4>1, <4>2 DEF BeforeBatch
    <3>2. BeforeBatch(range, i)' = BeforeBatch(r, 0)
      BY <2>2 DEF BeforeBatch, Lost, BatchEnd, NumBatches
    <3> QED BY <2>2, <3>1, <3>2 DEF Wrote
  <2>7. Within' /\ Held'
    BY <2>2 DEF Within, Held
  <2>8. CheckpointTrue' /\ (writer = [q \in Pairs |-> writer[q]])'
    BY <2>2 DEF WInv, CheckpointTrue, Stored, Lost
  <2> QED BY <2>4, <2>5, <2>6, <2>7, <2>8 DEF WInv
<1> QED BY <1>1, <1>2, <1>3

LEMMA LoopWrites == ASSUME WInv, Loop PROVE WInv'
<1>1. /\ UNCHANGED <<head, ctxDone, faults, begun, rows, progress, pair, range, i, next, done,
                     answer, written, writer>>
      /\ pc = "loop" /\ range \in Ranges /\ i \in Nat
      /\ \/ i >= NumBatches(range) /\ pc' = "idle" /\ out' = "ok"
         \/ pc' = "idle" /\ out' = "error"
         \/ i < NumBatches(range) /\ pc' = "times" /\ out' = out
  <2>1. i \in Nat /\ range \in Ranges
    BY DEF Loop, WInv, TypeOK
  <2>2. NumBatches(range) \in Nat
    BY <2>1, BatchCount
  <2> QED BY <2>1, <2>2 DEF Loop, Return, env, tables
<1>2. TypeOK'
  BY <1>1 DEF WInv, TypeOK
<1>3. Held' /\ CheckpointTrue' /\ (writer = [p \in Pairs |-> writer[p]])'
  BY <1>1, NothingStored
<1>4. CASE i >= NumBatches(range) /\ pc' = "idle" /\ out' = "ok"
  <2>1. i = NumBatches(range)
    BY <1>1, <1>4, BatchCount DEF WInv, Counted
  <2>2. Counted' /\ Within'
    BY <1>1, <1>4 DEF Counted, Within
  <2>3. Wrote'
    BY <1>1, <1>4, <2>1, SameRange DEF WInv, Wrote
  <2> QED BY <1>2, <1>3, <2>2, <2>3 DEF WInv
<1>5. CASE pc' = "idle" /\ out' = "error"
  BY <1>2, <1>3, <1>5, Failed DEF WInv
<1>6. CASE i < NumBatches(range) /\ pc' = "times" /\ out' = out
  <2>1. Counted' /\ Within'
    BY <1>1, <1>6, SameRange DEF WInv, Counted, Within
  <2>2. Wrote'
    BY <1>1, <1>6, SameRange DEF WInv, Counted, Wrote
  <2> QED BY <1>2, <1>3, <2>1, <2>2 DEF WInv
<1> QED BY <1>1, <1>4, <1>5, <1>6

LEMMA ReadsWrite == ASSUME IInv, WInv, BlockTimes \/ PairData \/ Multicall PROVE WInv'
<1>1. /\ UNCHANGED <<head, ctxDone, begun, rows, progress, pair, range, i, written, writer>>
      /\ \E o \in WriteOutcomes : Count(o)
      /\ pc \in {"times", "pair", "chunk"}
      /\ range \in Ranges /\ i \in Nat /\ i < NumBatches(range)
  BY DEF BlockTimes, PairData, Multicall, tables, WriteOutcomes, WInv, TypeOK, Counted
<1>2. \/ pc' = "idle" /\ out' = "error" /\ UNCHANGED <<next, done, answer>>
      \/ pc = "times" /\ pc' = "pair" /\ out' = out /\ UNCHANGED <<next, done, answer>>
      \/ pc = "pair" /\ pc' = "chunk" /\ out' = out /\ next' = BatchStart(range, i)
            /\ UNCHANGED <<done, answer>>
      \/ /\ pc = "chunk" /\ pc' = "store" /\ out' = out /\ next <= BatchEnd(range, i)
         /\ answer' = head /\ done' = next /\ UNCHANGED next
  BY DEF BlockTimes, PairData, Multicall, Return, tables
<1>3. BatchStart(range, i) \in 0..Wrap - 1
  BY <1>1, BatchStartType, HistoryAssumption
<1>4. TypeOK'
  <2>1. faults' \in 0..MaxFaults
    BY <1>1, CountType DEF WInv
  <2>2. next' \in 0..Wrap - 1 /\ done' \in 0..Wrap - 1 /\ answer' \in Blocks
    BY <1>2, <1>3 DEF WInv, TypeOK
  <2>3. /\ pc' \in {"idle", "pair", "chunk", "store"} /\ out' \in {"none", "ok", "error"}
    BY <1>2 DEF WInv, TypeOK
  <2> QED BY <1>1, <2>1, <2>2, <2>3 DEF WInv, TypeOK
<1>5. Held' /\ CheckpointTrue' /\ (writer = [p \in Pairs |-> writer[p]])'
  BY <1>1, NothingStored
<1>6. CASE pc' = "idle" /\ out' = "error"
  BY <1>4, <1>5, <1>6, Failed DEF WInv
<1>7. CASE pc = "times" /\ pc' = "pair" /\ out' = out
  <2>1. Counted' /\ Within' /\ Wrote'
    BY <1>1, <1>7, SameRange DEF WInv, Counted, Within, Wrote
  <2> QED BY <1>4, <1>5, <2>1 DEF WInv
<1>8. CASE pc = "pair" /\ pc' = "chunk" /\ out' = out /\ next' = BatchStart(range, i)
  <2>1. Counted'
    BY <1>1, <1>8, SameRange DEF WInv, Counted
  <2>2. Within'
    BY <1>1, <1>8, SameRange DEF Within
  <2>3. ASSUME NEW b \in Blocks
        PROVE  ~(BatchStart(range, i) <= b /\ b < BatchStart(range, i))
    BY <1>3, HistoryAssumption
  <2>4. Wrote'
    BY <1>1, <1>8, <2>1, <2>3, SameRange DEF WInv, Wrote, Counted
  <2> QED BY <1>4, <1>5, <2>1, <2>2, <2>4 DEF WInv
<1>9. CASE /\ pc = "chunk" /\ pc' = "store" /\ out' = out /\ done' = next
  <2>1. Counted' /\ Within'
    BY <1>1, <1>9, SameRange DEF WInv, Counted, Within
  <2>2. Wrote'
    BY <1>1, <1>9, <2>1, SameRange DEF WInv, Wrote, Counted
  <2> QED BY <1>4, <1>5, <2>1, <2>2 DEF WInv
<1> QED BY <1>2, <1>6, <1>7, <1>8, <1>9

LEMMA StoreFacts ==
  ASSUME IInv, WInv, pc = "store"
  PROVE  /\ pair \in Pairs /\ range \in Ranges /\ i \in Nat /\ i < NumBatches(range)
         /\ BatchStart(range, i) \in Nat /\ BatchEnd(range, i) \in Nat /\ ChunkEnd \in Int
         /\ BatchStart(range, i) <= done /\ done <= ChunkEnd /\ ChunkEnd <= BatchEnd(range, i)
         /\ done \in Blocks /\ First <= done /\ done <= Last
         /\ \A b \in Blocks : done <= b /\ b <= ChunkEnd => b \notin written
<1>1. /\ pair \in Pairs /\ range \in Ranges /\ i \in Nat /\ i < NumBatches(range)
      /\ next \in Nat /\ done \in Nat
  BY DEF IInv, Shapes, WInv, TypeOK, Counted
<1>2. /\ BatchStart(range, i) \in Nat /\ BatchEnd(range, i) \in Nat
      /\ ChunkEnd \in Int /\ ChunkEnd <= BatchEnd(range, i)
  BY <1>1, BatchStartType, BatchEndType, ChunkEndType
<1>3. /\ BatchStart(range, i) <= next /\ next <= done /\ done <= ChunkEnd
  BY DEF IInv, InBatch
<1>4. First <= done /\ done <= Last
  BY <1>1, <1>2, <1>3, NextBatch DEF First, Last
<1>5. done \in Blocks
  BY <1>1, <1>4, RangeOf, HistoryAssumption DEF First, Last
<1>6. ASSUME NEW b \in Blocks, done <= b, b <= ChunkEnd PROVE b \notin written
  <2>1. b \in Int /\ ~(b < done)
    BY <1>1, <1>6, HistoryAssumption
  <2>2. BatchStart(range, i) <= b /\ b <= BatchEnd(range, i)
    BY <1>1, <1>2, <1>3, <1>6, <2>1
  <2>3. b \notin BeforeBatch(range, i)
    BY <1>1, <2>1, <2>2, NextBatch
  <2> QED BY <2>1, <2>3 DEF WInv, Wrote
<1> QED BY <1>1, <1>2, <1>3, <1>4, <1>5, <1>6

LEMMA StoreWrites == ASSUME IInv, WInv, Store PROVE WInv'
<1>1. PICK o \in WriteOutcomes :
          /\ Count(o)
          /\ IF o = "error" THEN UNCHANGED <<rows, written>>
             ELSE PutRow(pair, done, answer) /\ written' = written \cup {done}
          /\ IF o # "ok" THEN Return("error") /\ UNCHANGED <<next, done>>
             ELSE IF done < ChunkEnd
             THEN done' = done + 1 /\ UNCHANGED <<pc, out, next>>
             ELSE pc' = "chunk" /\ next' = done + 1 /\ UNCHANGED <<out, done>>
  BY DEF Store
<1>2. /\ pc = "store" /\ out = "none"
      /\ UNCHANGED <<head, ctxDone, begun, progress, pair, range, i, answer, writer>>
  BY DEF Store, WInv, Counted
<1>3. /\ pair \in Pairs /\ range \in Ranges /\ i \in Nat /\ i < NumBatches(range)
      /\ BatchStart(range, i) \in Nat /\ BatchEnd(range, i) \in Nat /\ ChunkEnd \in Int
      /\ BatchStart(range, i) <= done /\ done <= ChunkEnd /\ ChunkEnd <= BatchEnd(range, i)
      /\ done \in Blocks
  BY <1>2, StoreFacts
<1>4. answer \in Blocks /\ answer # NoRow /\ done + 1 \in 0..Wrap - 1 /\ done \in Nat
  <2>1. answer \in 0..MaxHead /\ done \in 0..MaxHead
    BY <1>3, HistoryAssumption DEF WInv, TypeOK
  <2>2. /\ MaxHead \in Nat /\ BatchSize \in Nat \ {0} /\ Wrap \in Nat
        /\ MaxHead + BatchSize < Wrap
    BY HistoryAssumption
  <2> QED BY <2>1, <2>2, HistoryAssumption DEF NoRow
<1>5. rows' \in [Pairs -> [Blocks -> Blocks \cup {NoRow}]] /\ written' \subseteq Blocks
  BY <1>1, <1>3, <1>4 DEF PutRow, WInv, TypeOK
<1>6. TypeOK'
  <2>1. faults' \in 0..MaxFaults
    BY <1>1, CountType DEF WInv
  <2>2. /\ next' \in 0..Wrap - 1 /\ done' \in 0..Wrap - 1
        /\ pc' \in {"idle", "chunk", "store"} /\ out' \in {"none", "error"}
    BY <1>1, <1>2, <1>4 DEF WInv, TypeOK, Return
  <2> QED BY <1>2, <1>3, <1>5, <2>1, <2>2 DEF WInv, TypeOK
<1>7. \A p \in Pairs : Stored(p) \subseteq Stored(p)'
  BY <1>1, <1>3, <1>4 DEF Stored, PutRow, WInv, TypeOK
<1>8. CheckpointTrue' /\ (writer = [p \in Pairs |-> writer[p]])'
  BY <1>2, <1>7 DEF WInv, CheckpointTrue, Lost
<1>9. Held'
  <2>1. written' \subseteq written \cup {done}
    BY <1>1
  <2>2. written' # written => done \in Stored(pair)'
    <3>1. rows \in [Pairs -> [Blocks -> Blocks \cup {NoRow}]]
      BY DEF WInv, TypeOK
    <3>2. CASE PutRow(pair, done, answer)
      <4>1. rows'[pair][done] = answer
        BY <1>3, <3>1, <3>2 DEF PutRow
      <4> QED BY <1>2, <1>3, <1>4, <4>1 DEF Stored
    <3> QED BY <1>1, <3>2
  <2>3. written \subseteq Stored(pair)
    BY <1>2 DEF WInv, Held
  <2> QED BY <1>2, <1>3, <1>7, <2>1, <2>2, <2>3 DEF Held
<1>10. CASE o # "ok"
  BY <1>1, <1>6, <1>8, <1>10, Failed DEF WInv, Return
<1>11. CASE o = "ok"
  <2>1. /\ written' = written \cup {done}
        /\ \/ done' = done + 1 /\ pc' = "store" /\ next' = next
           \/ pc' = "chunk" /\ next' = done + 1
        /\ out' = "none"
    BY <1>1, <1>2, <1>11
  <2>2. Counted'
    BY <1>2, <1>3, <2>1, SameRange DEF Counted
  <2>3. Within'
    <3>1. pc' = "chunk" => next' <= BatchEnd(range, i) + 1
      BY <1>3, <1>4, <2>1
    <3> QED BY <1>2, <3>1, SameRange DEF Within
  <2>4. ASSUME NEW b \in Blocks
        PROVE  b \in written' <=>
                  b \in BeforeBatch(range, i) \/ (BatchStart(range, i) <= b /\ b < done + 1)
    <3>1. b \in Nat
      BY HistoryAssumption
    <3>2. (BatchStart(range, i) <= b /\ b < done + 1) <=>
              (BatchStart(range, i) <= b /\ b < done) \/ b = done
      BY <1>3, <1>4, <3>1
    <3>3. b \in written <=>
              b \in BeforeBatch(range, i) \/ (BatchStart(range, i) <= b /\ b < done)
      BY <1>2 DEF WInv, Wrote
    <3> QED BY <2>1, <3>2, <3>3
  <2>5. Wrote'
    <3>1. /\ BatchStart(range, i)' = BatchStart(range, i)
          /\ BeforeBatch(range, i)' = BeforeBatch(range, i)
      BY <1>2, SameRange
    <3> QED BY <2>1, <2>4, <3>1 DEF Wrote
  <2> QED BY <1>6, <1>8, <1>9, <2>2, <2>3, <2>5 DEF WInv
<1> QED BY <1>10, <1>11

LEMMA CheckpointWrites == ASSUME IInv, WInv, Checkpoint PROVE WInv'
<1>1. PICK o \in WriteOutcomes :
          /\ Count(o)
          /\ IF o = "error" THEN UNCHANGED <<progress, writer>>
             ELSE /\ progress' = [progress EXCEPT ![pair] = CheckpointAt(range, i)]
                  /\ writer' = [writer EXCEPT ![pair] = range]
          /\ IF o = "ok" THEN pc' = "loop" /\ i' = i + 1 /\ UNCHANGED out
                         ELSE Return("error") /\ UNCHANGED i
  BY DEF Checkpoint
<1>2. /\ pc = "chunk" /\ out = "none" /\ next > BatchEnd(range, i)
      /\ UNCHANGED <<head, ctxDone, begun, rows, pair, range, next, done, answer, written>>
  BY DEF Checkpoint, WInv, Counted
<1>3. /\ pair \in Pairs /\ range \in Ranges /\ i \in Nat /\ i < NumBatches(range)
      /\ next \in Nat
  BY <1>2 DEF IInv, Shapes, WInv, TypeOK, Counted
<1>4. BatchStart(range, i) \in Nat /\ BatchEnd(range, i) \in Nat /\ BatchEnd(range, i) \in Blocks
  BY <1>3, BatchStartType, BatchEndType, BatchBlocks
<1>5. ASSUME NEW b \in Blocks PROVE b \in written <=> b \in BeforeBatch(range, i + 1)
  <2>1. b \in Int
    BY HistoryAssumption
  <2>2. b \in written <=>
            b \in BeforeBatch(range, i) \/ (BatchStart(range, i) <= b /\ b < next)
    BY <1>2 DEF WInv, Wrote
  <2>3. next = BatchStart(range, i) \/ next <= BatchEnd(range, i) + 1
    BY <1>2 DEF WInv, Within
  <2>4. (BatchStart(range, i) <= b /\ b < next) <=>
            (BatchStart(range, i) <= b /\ b <= BatchEnd(range, i))
    BY <1>2, <1>3, <1>4, <2>1, <2>3
  <2> QED BY <1>3, <2>1, <2>2, <2>4, NextBatch
<1>6. TypeOK'
  <2>1. faults' \in 0..MaxFaults
    BY <1>1, CountType DEF WInv
  <2>2. progress' \in [Pairs -> Blocks \cup {NoRow}]
    BY <1>1, <1>3, <1>4 DEF CheckpointAt, WInv, TypeOK
  <2>3. pc' \in {"idle", "loop"} /\ out' \in {"none", "error"} /\ i' \in Nat
    BY <1>1, <1>2, <1>3 DEF Return
  <2> QED BY <1>2, <1>3, <2>1, <2>2, <2>3 DEF WInv, TypeOK
<1>7. (writer = [p \in Pairs |-> writer[p]])'
  BY <1>1 DEF WInv
<1>8. CheckpointTrue'
  <2>1. ASSUME NEW p \in Pairs, NEW r, r = writer'[p], progress'[p] # NoRow,
               NEW b \in (IF r[3] THEN progress'[p]..r[2] ELSE r[1]..progress'[p]) \ Lost(r)
        PROVE  b \in Stored(p)
    <3>1. CASE p = pair /\ o # "error"
      <4>1. progress'[p] = BatchEnd(range, i) /\ r = range
        BY <1>1, <1>3, <2>1, <3>1 DEF CheckpointAt, WInv, TypeOK
      <4>2. b \in Blocks
        <5>1. range[1] \in Nat /\ range[2] \in Blocks /\ range[3] \in BOOLEAN /\ Blocks = 0..MaxHead
              /\ MaxHead \in Nat
          BY <1>3, HistoryAssumption
        <5> QED BY <1>4, <2>1, <4>1, <5>1
      <4>3. b \in BeforeBatch(range, i + 1)
        BY <1>3, <2>1, <4>1, <4>2, BatchBlocks
      <4> QED BY <1>2, <1>5, <3>1, <4>2, <4>3 DEF WInv, Held
    <3>2. CASE p # pair \/ o = "error"
      <4>1. progress'[p] = progress[p] /\ writer'[p] = writer[p]
        BY <1>1, <2>1, <3>2 DEF WInv, TypeOK
      <4> QED BY <2>1, <4>1 DEF WInv, CheckpointTrue
    <3> QED BY <3>1, <3>2
  <2>2. \A p \in Pairs : Stored(p)' = Stored(p)
    BY <1>2 DEF Stored
  <2> QED BY <2>1, <2>2 DEF CheckpointTrue, Lost
<1>9. CASE o # "ok"
  BY <1>1, <1>6, <1>7, <1>8, <1>9, Failed DEF WInv, Return
<1>10. CASE o = "ok"
  <2>1. pc' = "loop" /\ i' = i + 1 /\ out' = "none"
    BY <1>1, <1>2, <1>10
  <2>2. Counted'
    <3>1. NumBatches(range) \in Nat
      BY <1>3, BatchCount
    <3>2. i + 1 <= NumBatches(range)
      BY <1>3, <3>1
    <3> QED BY <1>2, <2>1, <3>2, SameRange DEF Counted
  <2>3. Wrote'
    <3>1. BeforeBatch(range, i)' = BeforeBatch(range, i + 1)
      BY <1>2, <2>1, SameRange
    <3> QED BY <1>2, <1>5, <2>1, <3>1 DEF Wrote
  <2>4. Within' /\ Held'
    BY <1>2, <2>1 DEF WInv, Within, Held, Stored
  <2> QED BY <1>6, <1>7, <1>8, <2>2, <2>3, <2>4 DEF WInv
<1> QED BY <1>9, <1>10

-----------------------------------------------------------------------------
LEMMA WInvInit == ASSUME Init PROVE WInv
<1>1. /\ InitHead \in Blocks /\ 0 \in Blocks /\ 0 \in 0..Wrap - 1
      /\ 0 \in 0..MaxFaults /\ 0 \in 0..MaxCalls /\ 0 \in Nat
  BY HistoryAssumption
<1>2. TypeOK
  BY <1>1 DEF Init, InitRows, TypeOK
<1>3. Counted /\ Wrote /\ Within /\ Held
  BY DEF Init, Counted, Wrote, Within, Held
<1>4. CheckpointTrue
  BY DEF Init, CheckpointTrue
<1>5. writer = [p \in Pairs |-> writer[p]]
  BY DEF Init
<1> QED BY <1>2, <1>3, <1>4, <1>5 DEF WInv

LEMMA WInvStep == ASSUME IInv, WInv, [Next]_vars PROVE WInv'
<1>1. CASE UNCHANGED vars
  <2>1. UNCHANGED <<head, ctxDone, faults, begun, rows, progress, pc, pair, range, i, next, done,
                    answer, out, written, writer>>
    BY <1>1 DEF vars, env, tables, locals
  <2>2. TypeOK'
    BY <2>1 DEF WInv, TypeOK
  <2>3. Counted' /\ Wrote' /\ Within'
    BY <2>1, SameRange DEF WInv, Counted, Wrote, Within
  <2> QED BY <2>1, <2>2, <2>3, NothingStored DEF WInv
<1>2. CASE NewBlock \/ Cancel \/ Crash \/ \E p \in Pairs, r \in Ranges : Begin(p, r)
  BY <1>2, OutsideWrites
<1>3. CASE Collect
  BY <1>3, LoopWrites, ReadsWrite, StoreWrites, CheckpointWrites DEF Collect
<1> QED BY <1>1, <1>2, <1>3 DEF Next

LEMMA Invariants == Spec => [](IInv /\ WInv)
<1>1. Init => IInv /\ WInv
  BY IInvInit, WInvInit
<1>2. (IInv /\ WInv) /\ [Next]_vars => (IInv /\ WInv)'
  BY IInvStep, WInvStep
<1> QED BY <1>1, <1>2, PTL DEF Spec

\* Every variable has its type: what is stored as a pair's progress is a block
\* number of a range, not one that has wrapped.
THEOREM HistoryTypeCorrect == Spec => []TypeOK
<1>1. WInv => TypeOK
  BY DEF WInv
<1> QED BY <1>1, Invariants, PTL

\* A call that returns no error has stored its range and nothing else, but for
\* the batch that line 66 loses, for every size of batch and chunk.
THEOREM SuccessfulCallsAreComplete == Spec => []SuccessCollects
<1>1. WInv => SuccessCollects
  <2> SUFFICES ASSUME WInv, out = "ok" PROVE written = (First..Last) \ Lost(range)
    BY DEF SuccessCollects
  <2>1. range \in Ranges /\ written \subseteq Blocks
    BY DEF WInv, Counted, TypeOK
  <2>2. (First..Last) \subseteq Blocks
    <3>1. First \in Nat /\ Last \in Nat /\ Last <= MaxHead /\ MaxHead \in Nat
      BY <2>1, RangeOf DEF First, Last
    <3>2. \A b \in First..Last : b \in 0..MaxHead
      BY <3>1
    <3> QED BY <3>2, HistoryAssumption
  <2>3. ASSUME NEW b \in Blocks PROVE b \in written <=> b \in (First..Last) \ Lost(range)
    <3>1. b \in Int
      BY HistoryAssumption
    <3> QED BY <2>1, <3>1, AllBatches DEF WInv, Wrote, First, Last
  <2> QED BY <2>1, <2>2, <2>3
<1> QED BY <1>1, Invariants, PTL

\* What is stored as a pair's progress is true, whatever failed, was cancelled
\* or ended between the rows and the progress.
THEOREM CheckpointsAreTrue == Spec => []CheckpointTrue
<1>1. WInv => CheckpointTrue
  BY DEF WInv
<1> QED BY <1>1, Invariants, PTL

\* The batches of a call do not overlap, nor do the chunks of a batch.
THEOREM BlocksAreStoredOnce == Spec => []StoredOnce
<1>1. IInv /\ WInv => StoredOnce
  <2> SUFFICES ASSUME IInv, WInv, pc = "store", NEW b \in done..ChunkEnd
               PROVE  b \notin written
    BY DEF StoredOnce
  <2>1. written \subseteq Blocks
    BY DEF WInv, TypeOK
  <2>2. done \in Nat /\ ChunkEnd \in Int
    BY StoreFacts DEF IInv, Shapes
  <2>3. done <= b /\ b <= ChunkEnd
    BY <2>2
  <2> QED BY <2>1, <2>3, StoreFacts
<1> QED BY <1>1, Invariants, PTL

\* A step changes rows only of the pair of the call, within its range.
THEOREM WritesStayWithin == Spec => WithinRange
<1>1. ASSUME IInv, WInv, [Next]_vars, NEW p \in Pairs, NEW b \in Blocks,
             rows'[p][b] # rows[p][b]
      PROVE  p = pair /\ b \in First..Last
  <2>1. Store
    BY <1>1 DEF Next, Collect, Loop, BlockTimes, PairData, Multicall, Checkpoint, NewBlock,
                Cancel, Crash, Begin, vars, env, tables
  <2>2. PutRow(pair, done, answer) /\ pc = "store"
    BY <1>1, <2>1 DEF Store
  <2>3. rows \in [Pairs -> [Blocks -> Blocks \cup {NoRow}]]
    BY <1>1 DEF WInv, TypeOK
  <2>4. p = pair /\ b = done
    BY <1>1, <2>2, <2>3 DEF PutRow
  <2>5. First \in Nat /\ Last \in Nat /\ done \in Nat /\ First <= done /\ done <= Last
    BY <1>1, <2>2, StoreFacts, RangeOf DEF First, Last, IInv, Shapes
  <2> QED BY <2>4, <2>5
<1>2. IInv /\ WInv /\ [Next]_vars =>
        [\A p \in Pairs : \A b \in Blocks :
            rows'[p][b] # rows[p][b] => p = pair /\ b \in First..Last]_vars
  BY <1>1
<1> QED BY <1>2, Invariants, PTL DEF Spec, WithinRange

-----------------------------------------------------------------------------
(* What the API lists of the table.                                        *)

\* A set of numbers up to a bound has a least and a greatest.
LEMMA NatLeast ==
  ASSUME NEW S, S \subseteq Nat, S # {}
  PROVE  \E x \in S : \A y \in S : x <= y
<1>1. PICK x \in S : \A y \in S : <<y, x>> \notin OpToRel(<, Nat)
  BY NatLessThanWellFounded, WFMin
<1>2. \A y \in S : ~(y < x)
  BY <1>1 DEF OpToRel
<1> QED BY <1>2

LEMMA Greatest ==
  ASSUME NEW k \in Nat, NEW S, S \subseteq 0..k, S # {}
  PROVE  \E x \in S : \A y \in S : y <= x
<1> DEFINE T == {k - x : x \in S}
<1>1. PICK z \in T : \A y \in T : z <= y
  <2>1. T # {}
    OBVIOUS
  <2>2. ASSUME NEW x \in S PROVE k - x \in Nat
    OBVIOUS
  <2>3. T \subseteq Nat
    BY <2>2
  <2> HIDE DEF T
  <2> QED BY <2>1, <2>3, NatLeast
<1>2. PICK x \in S : z = k - x
  BY <1>1
<1>3. \A y \in S : k - x <= k - y
  BY <1>1, <1>2
<1> QED BY <1>2, <1>3

\* The list as a property of the table alone.
LEMMA TableListsNewest ==
  ASSUME rows \in [Pairs -> [Blocks -> Blocks \cup {NoRow}]]
  PROVE  ListShowsNewest
<1> SUFFICES ASSUME NEW t \in Tokens,
                    NEW known,
                    known = UNION {Stored(p) : p \in {q \in Pairs : t \in {Token0[q], Token1[q]}}},
                    NEW b \in ListedPrice(t)
             PROVE  (\A c \in known : c <= b) /\ b \in known \cup {NoRow}
  BY DEF ListShowsNewest
<1>1. /\ Blocks \subseteq 0..MaxHead /\ MaxHead \in Nat
  BY HistoryAssumption
<1>2. known \subseteq Blocks
  BY DEF Stored
<1>3. ASSUME NEW l \in TokenPrices(t)
      PROVE  /\ l[1] \in Pairs /\ l[2] \in Stored(l[1]) /\ l[2] \in known
             /\ \A c \in Stored(l[1]) : c <= l[2]
  BY DEF TokenPrices, LatestPrices
<1>4. ASSUME NEW p \in Pairs, t \in {Token0[p], Token1[p]}, Stored(p) # {}
      PROVE  \E x \in Stored(p) : <<p, x>> \in TokenPrices(t)
  <2>1. PICK x \in Stored(p) : \A c \in Stored(p) : c <= x
    BY <1>1, <1>4, Greatest DEF Stored
  <2>2. <<p, x>> \in LatestPrices
    BY <2>1 DEF LatestPrices, Stored
  <2> QED BY <1>4, <2>2 DEF TokenPrices
<1>5. ASSUME NEW c \in known PROVE \E l \in TokenPrices(t) : c <= l[2]
  <2>1. PICK p \in Pairs : t \in {Token0[p], Token1[p]} /\ c \in Stored(p)
    OBVIOUS
  <2>2. PICK x \in Stored(p) : <<p, x>> \in TokenPrices(t)
    BY <1>4, <2>1
  <2>3. c <= x
    BY <1>3, <2>1, <2>2
  <2> QED BY <2>2, <2>3
<1>6. CASE BestPrices(t) = {}
  <2>1. TokenPrices(t) = {}
    <3> SUFFICES ASSUME TokenPrices(t) # {} PROVE BestPrices(t) # {}
      BY <1>6
    <3> DEFINE S == {l[2] : l \in TokenPrices(t)}
    <3>1. S # {} /\ S \subseteq 0..MaxHead
      <4>1. \A l \in TokenPrices(t) : l[2] \in known
        BY <1>3, Zenon
      <4>2. S \subseteq known /\ S # {}
        BY <4>1
      <4> HIDE DEF S
      <4> QED BY <1>1, <1>2, <4>2
    <3>2. PICK x \in S : \A y \in S : y <= x
      <4> HIDE DEF S
      <4> QED BY <1>1, <3>1, Greatest
    <3>3. PICK l \in TokenPrices(t) : x = l[2]
      BY <3>2
    <3> QED BY <3>2, <3>3 DEF BestPrices
  <2>2. known = {}
    BY <1>5, <2>1
  <2>3. b = NoRow
    BY <1>6 DEF ListedPrice, ActiveToken
  <2> QED BY <2>2, <2>3
<1>7. CASE BestPrices(t) # {}
  <2>1. PICK l \in BestPrices(t) : b = l[2]
    BY <1>7 DEF ListedPrice, ActiveToken
  <2>2. l \in TokenPrices(t) /\ \A m \in TokenPrices(t) : m[2] <= l[2]
    BY DEF BestPrices
  <2>3. b \in known
    BY <1>3, <2>1, <2>2
  <2>4. ASSUME NEW c \in known PROVE c <= b
    <3>1. PICK m \in TokenPrices(t) : c <= m[2]
      BY <1>5
    <3>2. m[2] <= b
      BY <2>1, <2>2
    <3>3. known \subseteq Nat
      BY <1>2, TablesAssumption
    <3>4. c \in Nat /\ b \in Nat
      BY <2>3, <3>3
    <3>5. m[2] \in Nat
      BY <1>3, <3>3
    <3> QED BY <3>1, <3>2, <3>4, <3>5
  <2> QED BY <2>3, <2>4
<1> QED BY <1>6, <1>7

\* In every state that the collection of data reaches, the list of the API shows
\* for each token the newest price stored of any of its pairs.
THEOREM ListIsNewest == Spec => []ListShowsNewest
<1>1. WInv => ListShowsNewest
  BY TableListsNewest DEF WInv, TypeOK
<1> QED BY <1>1, Invariants, PTL
=============================================================================
