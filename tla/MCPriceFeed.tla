----------------------------- MODULE MCPriceFeed -----------------------------
(* Instances of PriceFeed for TLC: calls for one pair. *)
EXTENDS PriceFeed

CONSTANTS s1, s2, s3, pair

OnePair == [s \in Subs |-> pair]
=============================================================================
