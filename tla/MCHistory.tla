----------------------------- MODULE MCHistory -----------------------------
(* An instance of History for TLC: three tokens in a row, and ranges of several
   batches in both directions. *)
EXTENDS History, TLC

CONSTANTS a, b, c, ab, bc

MCToken0 == (ab :> a) @@ (bc :> b)
MCToken1 == (ab :> b) @@ (bc :> c)

\* Upwards, downwards to a start that is a batch's, downwards to one that is
\* not, downwards to genesis, where the lowest batch wraps, and no block at all.
MCRanges == {<<1, 5, FALSE>>, <<1, 6, TRUE>>, <<2, 5, TRUE>>, <<0, 4, TRUE>>, <<4, 3, FALSE>>}
=============================================================================
