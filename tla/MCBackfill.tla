----------------------------- MODULE MCBackfill -----------------------------
(* Instances of Backfill for TLC: three pairs over three tokens. *)
EXTENDS Backfill, TLC

CONSTANTS p1, p2, p3, a, b, c

MCTokensOf == (p1 :> {a, b}) @@ (p2 :> {b, c}) @@ (p3 :> {a, c})

\* A window of three blocks holds one pair or two of them; p3 is created after
\* the process has started.
MCCreatedAt == (p1 :> 2) @@ (p2 :> 4) @@ (p3 :> 8)

\* Liveness: the window below the first head is empty, others hold a pair.
CreatedApart == (p1 :> 2) @@ (p2 :> 7) @@ (p3 :> 8)

\* Calls whose failure loses nothing: they only read, or record the window.
Harmless == {"GetCurrentBlock", "GetGlobalSyncProgress", "FilterLogs", "GetToken",
             "GetPairProgress", "GetPair", "UpdateGlobalSyncProgress"}

ProgressWrites == {"UpdatePairProgress"}
NoCalls        == {}
=============================================================================
