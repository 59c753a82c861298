----------------------------- MODULE MCPricing -----------------------------
(* An instance of Pricing for TLC: a token tk, WETH w, and three stable tokens
   u, d and x. *)
EXTENDS Pricing, TLC

CONSTANTS tk, w, u, d, x, tw, uw, ud, dx, tx, f1

\* tk is worth two WETH, and WETH sixteen dollars.  d has a decimal more.
MCEnds == (tw :> <<tk, w>>) @@ (uw :> <<u, w>>) @@ (ud :> <<u, d>>) @@ (dx :> <<d, x>>)
            @@ (tx :> <<tk, x>>)

MCWorth == (tk :> 5) @@ (w :> 4) @@ (u :> 0) @@ (d :> 0) @@ (x :> 0)

MCDecimals == [p \in Pairs |-> CASE p = ud -> <<1, 2>> [] p = dx -> <<2, 1>> [] OTHER -> <<1, 1>>]

Reserves(a, b, l) == [reserve0 |-> a, reserve1 |-> b, liquidity |-> l]

\* The first pair of stable tokens loses its liquidity, or gains it.
MCData ==
    (tw :> <<Reserves(0, 1, 80)>>) @@ (uw :> <<Reserves(4, 0, 160)>>)
        @@ (ud :> <<Reserves(0, 3, 80), Reserves(0, 3, 5)>>)
        @@ (dx :> <<Reserves(3, 0, 40)>>) @@ (tx :> <<Reserves(0, 5, 40)>>)

MCVersions == [p \in Pairs |-> DOMAIN MCData[p]]

MCQueries == Tokens \X Tokens
=============================================================================
