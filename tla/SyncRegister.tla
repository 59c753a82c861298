---------------------------- MODULE SyncRegister ----------------------------
(***************************************************************************)
(* What the pair (GetGlobalSyncProgress, UpdateGlobalSyncProgress) promises *)
(* BackfillManager.Run: a register, 0 until it is first written, whose     *)
(* value is always the block of the last update that took effect.          *)
(* Backfill keeps it as the variable global; BackfillRows shows that the   *)
(* table implements it.                                                    *)
(***************************************************************************)
CONSTANT Blocks     \* values of last_processed_block

VARIABLES
    value,          \* what GetGlobalSyncProgress returns
    written         \* the argument of the last update that took effect

vars == <<value, written>>

Init == value = 0 /\ written = 0

Write(b) == value' = b /\ written' = b

Next == \E b \in Blocks : Write(b)

Spec == Init /\ [][Next]_vars
=============================================================================
