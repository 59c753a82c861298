--------------------------- MODULE MCBackfillRows ---------------------------
(* MCBackfill over the rows of global_sync_progress. *)
EXTENDS MCBackfill, BackfillRows
=============================================================================
