---------------------------- MODULE MCPairGraph ----------------------------
(* Instances of PairGraph for TLC. *)
EXTENDS PairGraph, TLC

CONSTANTS a, b, c, d, e, g, h, w, x, y,
          ab, bc, bg, cd, ce, de, dw, dx, dy, eg, eh, f1, f2

Calls == Permutations(Finders)

\* a - b, where b is WETH, b - c, and c forks: over d to the leaves x and y, and
\* over e to g, which b leads to directly as well.
Branched == [p \in Pairs |->
    CASE p = ab -> <<a, b>> [] p = bc -> <<b, c>> [] p = bg -> <<b, g>> [] p = cd -> <<c, d>>
      [] p = ce -> <<c, e>> [] p = dx -> <<d, x>> [] p = dy -> <<d, y>> [] p = eg -> <<e, g>>]

BranchedQueries == {<<a, g>>, <<a, b>>}

\* Reserves change in the middle of the longer way.
MiddleChanges == [p \in Pairs |-> IF p = bc THEN {1, 2} ELSE {1}]

\* Bound: the longer way grows from a outwards.
StemFirst ==
    /\ Known(bc) => Known(ab)
    /\ Known(cd) \/ Known(ce) => Known(bc)
    /\ Known(eg) => Known(ce)
    /\ Known(dx) => Known(cd)
    /\ Known(dy) => Known(dx)

\* Bound: a call that asks for the way to WETH overlaps no other call.
WethAlone ==
    \A f \in Finders : query[f] = <<a, b>> => \A o \in Finders \ {f} : pc[o] = "idle"

\* A chain a - b - c - d - e - h of five pairs, and WETH beside d.
Forked == (ab :> <<a, b>>) @@ (bc :> <<b, c>>) @@ (cd :> <<c, d>>) @@ (de :> <<d, e>>)
            @@ (dw :> <<d, w>>) @@ (eh :> <<e, h>>)

ForkedQueries == {<<a, h>>}

Unchanged == [p \in Pairs |-> {1}]
=============================================================================
