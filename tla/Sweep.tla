------------------------------- MODULE Sweep -------------------------------
(***************************************************************************)
(* What the pair backfill promises to whoever reads its tables, restarts   *)
(* it, or starts it twice in a row: pairs are found by sweeps that come    *)
(* down from the head of the chain to its bottom.  The recorded progress   *)
(* is a point of the newest sweep with something recorded; everything      *)
(* above it that the sweep set out to find is stored, and a sweep is begun *)
(* only when the one before it has left nothing out.                       *)
(*                                                                         *)
(* Windows, calls, goroutines, failures and restarts are all below this    *)
(* level: they are steps that change none of these variables.  Backfill    *)
(* implements it (Backfill!SweepRefined).                                  *)
(***************************************************************************)
EXTENDS Integers

CONSTANTS
    Pairs,          \* pairs the factory creates
    CreatedAt,      \* CreatedAt[p]: block of p's PairCreated log
    InitHead        \* chain height at the start

VARIABLES
    head,           \* the node's latest block
    stored,         \* pairs that have a row
    floor,          \* the recorded progress, 0 before the first
    top             \* block at which the recorded sweep began

vars == <<head, stored, floor, top>>

Covered(blocks) == \A p \in Pairs : CreatedAt[p] \in blocks => p \in stored

Init == head = InitHead /\ stored = {} /\ floor = 0 /\ top = 0

NewBlock == head' = head + 1 /\ UNCHANGED <<stored, floor, top>>

\* A pair of the chain is stored; no row is ever removed or made up.
StorePair ==
    /\ \E p \in Pairs : CreatedAt[p] <= head /\ stored' = stored \cup {p}
    /\ UNCHANGED <<head, floor, top>>

\* The recorded sweep comes down.
Proceed ==
    /\ floor' \in 0 .. floor - 1
    /\ Covered(floor' .. top)
    /\ UNCHANGED <<head, stored, top>>

\* The first record of a sweep: it began no lower than the one before, which
\* has left nothing out.
Begin ==
    /\ Covered(0 .. top)
    /\ top' \in top .. head
    /\ floor' \in 1 .. top'
    /\ Covered(floor' .. top')
    /\ UNCHANGED <<head, stored>>

Next == NewBlock \/ StorePair \/ Proceed \/ Begin

Spec == Init /\ [][Next]_vars
=============================================================================
