---------------------------- MODULE BackfillRows ----------------------------
(***************************************************************************)
(* Backfill over its table global_sync_progress, the one behind            *)
(* GetGlobalSyncProgress and UpdateGlobalSyncProgress                      *)
(* (src/internal/database/database.go), which Backfill keeps as a register. *)
(*                                                                         *)
(* The table is meant to hold one row, which RunMigrations inserts with the *)
(* explicit id 1.  The insert of UpdateGlobalSyncProgress names no id, so  *)
(* each one draws a fresh id from the SERIAL column's sequence, and that   *)
(* sequence knows nothing of the explicit 1: the first update conflicts    *)
(* with the migration's row and overwrites it, every later one adds a row. *)
(* A sequence is not rolled back, so an update that fails burns its id.    *)
(***************************************************************************)
EXTENDS Backfill

CONSTANT MaxId  \* bound: largest value of a SERIAL column (2^31 - 1)

ASSUME SerialAssumption == MaxId \in Nat \ {0}

VARIABLES
    rows,       \* last_processed_block of each id in the table
    nextId      \* what nextval returns

table == <<rows, nextId>>

Blocks == 0..MaxBigint

-----------------------------------------------------------------------------
\* INSERT of the row (id, b) with ON CONFLICT (id) DO UPDATE.
Upsert(id, b) ==
    [i \in DOMAIN rows \cup {id} |-> IF i = id THEN b ELSE rows[i]]

\* Faulty variant: ORDER BY id, ascending.
OldestRow(r) == r[CHOOSE i \in DOMAIN r : \A j \in DOMAIN r : i <= j]

\* SELECT ... ORDER BY id DESC LIMIT 1
LatestRow(r) == r[CHOOSE i \in DOMAIN r : \A j \in DOMAIN r : j <= i]

\* Without a row there is no progress.
GetGlobalSyncProgress == IF DOMAIN rows = {} THEN 0 ELSE LatestRow(rows)

\* RunMigrations inserts (1, 0), ON CONFLICT (id) DO NOTHING, at every start of
\* the process.
Migrated(r) == IF 1 \in DOMAIN r THEN r ELSE [i \in DOMAIN r \cup {1} |-> IF i = 1 THEN 0 ELSE r[i]]

UpdateGlobalSyncProgress(b) ==
    /\ nextId <= MaxId
    /\ rows' = Upsert(nextId, b)
    /\ nextId' = nextId + 1

\* The statement failed after it drew its id.
UpdateFails ==
    /\ nextId <= MaxId
    /\ nextId' = nextId + 1
    /\ UNCHANGED rows

\* What the call that Record makes does to the table: it is applied, whether or
\* not that is known, it fails there, or it fails before (the context is
\* cancelled, or the block is no BIGINT).
RecordRow ==
    \/ global' = last /\ last \in Blocks /\ UpdateGlobalSyncProgress(last)
    \/ faults' # faults /\ global' = global /\ UpdateFails
    \/ /\ ctxDone \/ faults' # faults \/ last \notin Blocks
       /\ global' = global
       /\ UNCHANGED table

Recording == pc = "record" /\ pc' = "loop"

Migrating == pc \in Dead /\ pc' = "boot"

-----------------------------------------------------------------------------
\* RunMigrations has found no table and made it.
RowsInit ==
    /\ Init
    /\ rows = Migrated([i \in {} |-> 0])
    /\ nextId = 1

RowsStep ==
    \/ Recording /\ RecordRow
    \/ Migrating /\ rows' = Migrated(rows) /\ UNCHANGED nextId
    \/ ~Recording /\ ~Migrating /\ UNCHANGED table

RowsNext == Next /\ RowsStep

RowsSpec == RowsInit /\ [][RowsNext]_<<vars, table>>

-----------------------------------------------------------------------------
(* Properties.                                                             *)

\* Ids are those of the column, rows hold blocks, and only the migration's
\* row can have an id that the sequence has not handed out.
RowsTypeOK ==
    /\ nextId \in 1..MaxId + 1
    /\ 1 \in DOMAIN rows /\ DOMAIN rows \subseteq 1..MaxId
    /\ \A i \in DOMAIN rows : rows[i] \in Blocks /\ (i < nextId \/ i = 1)

Register == INSTANCE SyncRegister WITH value <- GetGlobalSyncProgress, written <- global

\* Whatever rows and gaps the table has, over failed updates, lost answers and
\* restarts that migrate it again, a read returns the block of the last
\* update that took effect, and nothing else ever changes it.
ReadsLastWrite == Register!Spec
=============================================================================
