------------------------- MODULE BackfillRows_proofs -------------------------
(* The table global_sync_progress implements the register SyncRegister under *)
(* Backfill, for every number of rows and failed updates.                   *)
EXTENDS BackfillRows, Backfill_proofs

\* ORDER BY id DESC LIMIT 1 returns the row whose id is the largest.
LEMMA LatestIsMaximum ==
    ASSUME NEW r, NEW m \in DOMAIN r, DOMAIN r \subseteq Int,
           \A i \in DOMAIN r : i <= m
    PROVE  LatestRow(r) = r[m]
<1> DEFINE IsLast(i) == i \in DOMAIN r /\ \A j \in DOMAIN r : j <= i
<1>1. IsLast(m)
  OBVIOUS
<1>2. \A i : IsLast(i) => i = m
  OBVIOUS
<1>3. (CHOOSE i \in DOMAIN r : \A j \in DOMAIN r : j <= i) = m
  BY <1>1, <1>2
<1> QED
  BY <1>3 DEF LatestRow

\* The upsert of the migration's row or of a fresh id is the row read next.
LEMMA UpsertIsLatest ==
    ASSUME RowsTypeOK, NEW b \in Blocks, rows' = Upsert(nextId, b)
    PROVE  GetGlobalSyncProgress' = b
<1>1. /\ DOMAIN rows' = DOMAIN rows \cup {nextId}
      /\ rows'[nextId] = b
  BY DEF Upsert
<1>2. \A i \in DOMAIN rows' : i <= nextId
  BY <1>1, SerialAssumption DEF RowsTypeOK
<1>3. DOMAIN rows' \subseteq Int
  BY <1>1, SerialAssumption DEF RowsTypeOK
<1>4. LatestRow(rows') = rows'[nextId]
  BY <1>1, <1>2, <1>3, LatestIsMaximum
<1> QED
  BY <1>1, <1>4 DEF GetGlobalSyncProgress

\* Only the record of a window writes the global progress.
LEMMA OnlyRecordWrites ==
    ASSUME [Next]_vars
    PROVE  Recording \/ global' = global
<1>1. CASE NewBlock \/ Cancel \/ Exit \/ Restart
  BY <1>1 DEF NewBlock, Cancel, Exit, Restart, tables
<1>2. CASE Boot \/ Resume \/ Stop \/ Loop
  BY <1>2 DEF Boot, Resume, Stop, Loop, tables
<1>3. CASE FilterLogs \/ NextBatch \/ FetchMetadata \/ InsertToken \/ Panic \/ TokensDone
  BY <1>3 DEF FilterLogs, NextBatch, FetchMetadata, InsertToken, Panic, TokensDone, tables
<1>4. CASE InsertPair \/ InitProgress \/ Spawn \/ NothingFound \/ Wait
  BY <1>4 DEF InsertPair, InitProgress, Spawn, NothingFound, Wait, tables
<1>5. CASE Record
  BY <1>5 DEF Record, Recording
<1>6. ASSUME NEW p \in Pairs, WorkerStep(p) PROVE global' = global
  BY <1>6 DEF WorkerStep, ReadProgress, ReadCreated, Initialise, ReadHead, Chunk, Complete, tables
<1>7. CASE UNCHANGED vars
  BY <1>7 DEF vars, tables
<1> QED
  BY <1>1, <1>2, <1>3, <1>4, <1>5, <1>6, <1>7 DEF Next, RunStep

-----------------------------------------------------------------------------
\* A read returns the last write, and the migration's row is never deleted.
RowsInv == RowsTypeOK /\ GetGlobalSyncProgress = global

\* The first migration makes one row, and nothing is recorded.
LEMMA InitRows == RowsInit => RowsInv
<1> SUFFICES ASSUME RowsInit PROVE RowsInv
  OBVIOUS
<1>1. DOMAIN rows = {1} /\ rows[1] = 0 /\ nextId = 1
  BY DEF RowsInit, Migrated
<1>2. RowsTypeOK
  BY <1>1, SerialAssumption, ConfigAssumption DEF RowsTypeOK, Blocks
<1>3. LatestRow(rows) = 0
  BY <1>1, LatestIsMaximum
<1> QED
  BY <1>1, <1>2, <1>3 DEF RowsInit, Init, RowsInv, GetGlobalSyncProgress

\* Every step keeps RowsInv and is a step of the register, or none of its.
LEMMA StepRows ==
    ASSUME RowsInv, [RowsNext]_<<vars, table>>
    PROVE  RowsInv' /\ [Register!Next]_(Register!vars)
<1> USE SerialAssumption
<1>1. CASE UNCHANGED table /\ global' = global
  BY <1>1 DEF table, RowsInv, RowsTypeOK, GetGlobalSyncProgress, Register!vars
<1>2. CASE Recording /\ RecordRow
  <2>1. CASE global' = last /\ last \in Blocks /\ UpdateGlobalSyncProgress(last)
    <3>1. RowsTypeOK'
      BY <2>1 DEF RowsInv, RowsTypeOK, UpdateGlobalSyncProgress, Upsert, Blocks
    <3>2. GetGlobalSyncProgress' = last
      BY <2>1, UpsertIsLatest DEF RowsInv, UpdateGlobalSyncProgress
    <3> QED
      BY <2>1, <3>1, <3>2 DEF RowsInv, Register!Next, Register!Write
  <2>2. CASE global' = global /\ UpdateFails
    <3>1. RowsTypeOK'
      BY <2>2 DEF RowsInv, RowsTypeOK, UpdateFails, Blocks
    <3>2. GetGlobalSyncProgress' = GetGlobalSyncProgress
      BY <2>2 DEF UpdateFails, GetGlobalSyncProgress
    <3> QED
      BY <2>2, <3>1, <3>2 DEF RowsInv, Register!vars
  <2> QED
    BY <1>1, <1>2, <2>1, <2>2 DEF RecordRow
<1>3. CASE Next /\ Migrating /\ rows' = Migrated(rows) /\ UNCHANGED nextId
  <2>1. global' = global
    BY <1>3, OnlyRecordWrites DEF Migrating, Dead, Recording
  <2>2. rows' = rows
    BY <1>3 DEF RowsInv, RowsTypeOK, Migrated
  <2> QED
    BY <1>1, <1>3, <2>1, <2>2 DEF table
<1>4. CASE Next /\ ~Recording /\ UNCHANGED table
  BY <1>1, <1>4, OnlyRecordWrites
<1>5. CASE UNCHANGED <<vars, table>>
  BY <1>1, <1>5 DEF vars, tables
<1> QED
  BY <1>2, <1>3, <1>4, <1>5 DEF RowsNext, RowsStep

\* Under Backfill, rows, ids and the sequence stay well formed: an id is one the
\* sequence has handed out, or the migration's.
THEOREM RowsTypeCorrect == RowsSpec => []RowsTypeOK
<1>1. RowsInv /\ [RowsNext]_<<vars, table>> => RowsInv'
  BY StepRows
<1>2. RowsInv => RowsTypeOK
  BY DEF RowsInv
<1> QED
  BY InitRows, <1>1, <1>2, PTL DEF RowsSpec

\* GetGlobalSyncProgress and UpdateGlobalSyncProgress, over rows, gaps,
\* failed updates and repeated migrations, are the register of Backfill.
THEOREM RowsImplementRegister == RowsSpec => ReadsLastWrite
<1>1. RowsInv /\ [RowsNext]_<<vars, table>> => RowsInv' /\ [Register!Next]_(Register!vars)
  BY StepRows
<1>2. RowsInit /\ RowsInv => Register!Init
  BY DEF RowsInit, Init, RowsInv, Register!Init
<1> QED
  BY InitRows, <1>1, <1>2, PTL DEF RowsSpec, ReadsLastWrite, Register!Spec

\* Unless a call fails whose failure ScanForPairs only warns about, the pairs
\* above the block that a restart reads from the table, up to the beginning of
\* the sweep it belongs to, are stored: over the table, too, Backfill loses none.
THEOREM RestartsLoseNoPair ==
    ASSUME FaultyCalls \cap LossyCalls = {}
    PROVE  RowsSpec =>
              [](GetGlobalSyncProgress # 0 =>
                    \A p \in Pairs : CreatedAt[p] \in GetGlobalSyncProgress..recTop => p \in pairs)
<1>1. RowsInv /\ [RowsNext]_<<vars, table>> => RowsInv'
  BY StepRows
<1>2. RowsInit => Init
  BY DEF RowsInit
<1>3. [RowsNext]_<<vars, table>> => [Next]_vars
  BY DEF RowsNext, vars, table
<1>4. RowsSpec => []NoPairLost
  BY <1>2, <1>3, RecordedPairsAreStored, PTL DEF RowsSpec, Spec
<1>5. RowsInv /\ NoPairLost =>
        (GetGlobalSyncProgress # 0 =>
            \A p \in Pairs : CreatedAt[p] \in GetGlobalSyncProgress..recTop => p \in pairs)
  BY DEF RowsInv, NoPairLost
<1> QED
  BY InitRows, <1>1, <1>4, <1>5, PTL DEF RowsSpec
=============================================================================
