------------------------------ MODULE Pricing ------------------------------
(***************************************************************************)
(* The price calculator, src/internal/service/price/calculator.go, over    *)
(* the graph of PairGraph, and the prices, the stability and the           *)
(* confidence of src/internal/graph/pair_graph.go.                         *)
(*                                                                         *)
(* GetUSDPrice holds no lock of its own: the stable tokens, the edges of   *)
(* each of them, and every path are read in turn, and pairs are added and  *)
(* updated meanwhile.                                                      *)
(*                                                                         *)
(* Numbers.  Reserves are powers of two, given by their exponents, so that *)
(* prices are sums of exponents; the only such ratio within 2.4 % of 1 is  *)
(* 1.  A liquidity above the minimum is the minimum times a power of two.  *)
(* The confidence of an edge counts in 1/500000, that of a path in         *)
(* 1/50000000, which is exact for the factors of the code.                 *)
(***************************************************************************)
EXTENDS PairGraph

CONSTANTS
    Data,           \* Data[p][v]: [reserve0, reserve1, liquidity] of a version
    Decimals,       \* Decimals[p]: <<decimals0, decimals1>>
    Tenfold,        \* exponent of a factor of ten
    MinLiquidity,   \* minLiquidity (500000 USD)
    TopPairs,       \* maxPaths (3)
    Asked,          \* tokens whose price is asked for
    Worth           \* Worth[t]: exponent of what t is worth (used by properties)

NoToken == "no token"

ASSUME PricingAssumption ==
    /\ \A p \in Pairs : \A v \in Versions[p] :
          LET l == Data[p][v].liquidity IN
          l <= MinLiquidity \/ \E k \in 1..10 : l = MinLiquidity * 2^k
    /\ \A p \in Pairs : \A v \in Versions[p] :
          /\ Data[p][v].reserve0 \in Int /\ Data[p][v].reserve1 \in Int
          /\ Data[p][v].liquidity \in Nat
    /\ Decimals \in [Pairs -> Nat \X Nat] /\ Tenfold \in Nat
    /\ MinLiquidity \in Nat \ {0} /\ TopPairs \in Nat \ {0}
    /\ Asked \subseteq Tokens /\ Worth \in [Tokens -> Int]
    /\ NoToken \notin Tokens
    /\ Queries = Tokens \X Tokens

\* The factory creates no second pair of the same two tokens.
ASSUME OnePairAssumption ==
    \A p, q \in Pairs : EndsOf(p) = EndsOf(q) => p = q

VARIABLES
    cpc,        \* where the call of GetUSDPrice is
    token,      \* its token
    stable,     \* its stable tokens
    left,       \* those of them whose edges are still to be got
    bases,      \* its base pairs
    targets,    \* tokens to which a path is still to be looked for
    paths,      \* paths found, each with its last token
    answer,     \* "none", "error" or "price"
    changed     \* history: a pair changed since the call began

calculation == <<cpc, token, stable, left, bases, targets, paths, answer>>

-----------------------------------------------------------------------------
(* Edges and paths (pair_graph.go).                                        *)

DataOf(e) == Data[e.pair][e.version]
Liquidity(e) == DataOf(e).liquidity

\* adjustForDecimals, and the quotient of reserve1 and reserve0.
Ratio(e) ==
    LET d0 == Decimals[e.pair][1]
        d1 == Decimals[e.pair][2]
        reserve0 == DataOf(e).reserve0 + IF d1 > d0 THEN Tenfold * (d1 - d0) ELSE 0
        reserve1 == DataOf(e).reserve1 + IF d0 > d1 THEN Tenfold * (d0 - d1) ELSE 0
    IN reserve1 - reserve0

\* GetPriceInPair, for a token of the pair.  Faulty variant: of the other one.
PriceOfToken0(e, t) == Ratio(e)
PriceInPair(e, t) == IF Ends[e.pair][1] = t THEN Ratio(e) ELSE -Ratio(e)

\* The tokens that CalculatePrice and pathToStrings go through: they begin with
\* the Token0 of the first edge, whichever token was asked for.
Walk(path) ==
    LET walk[n \in 0..Len(path)] ==
            IF n = 0 THEN Ends[path[1].pair][1] ELSE Other(path[n].pair, walk[n - 1])
    IN walk

\* CalculatePrice fails at an edge that does not have the token reached.
Priced(path) == \A n \in DOMAIN path : Walk(path)[n - 1] \in EndsOf(path[n].pair)

CalculatePrice(path) ==
    LET price[n \in 0..Len(path)] ==
            IF n = 0 THEN 0 ELSE price[n - 1] + PriceInPair(path[n], Walk(path)[n - 1])
    IN price[Len(path)]

\* The test of IsStablePair and of FindStableTokens, each with its own copy:
\* 80 % of the minimum liquidity, and a price that is 1.
StableEdge(e) == 10 * Liquidity(e) >= 8 * MinLiquidity /\ Ratio(e) = 0

IsStablePair(t, u) ==
    \E p \in First(edges[t], {q \in Pairs : EndsOf(q) = {t, u}}) : StableEdge(Edge(p))

TotalLiquidity(t) ==
    LET sum[n \in 0..Len(edges[t])] ==
            IF n = 0 THEN 0 ELSE sum[n - 1] + Liquidity(Edge(edges[t][n]))
    IN sum[Len(edges[t])]

\* Each stable edge is noted for both of its tokens; both have it in their
\* lists.  The whole of it is under the read lock.
FindStableTokens ==
    {t \in Tokens :
        /\ \E n \in DOMAIN edges[t] : StableEdge(Edge(edges[t][n]))
        /\ TotalLiquidity(t) >= MinLiquidity}

Full == 500000
Threshold == 15000000

LiquidityScore(l) ==
    IF l <= MinLiquidity THEN 0
    ELSE LET k == CHOOSE k \in 1..10 : l = MinLiquidity * 2^k
         IN IF 375 * k > 1000 THEN 1000 ELSE 375 * k

StabilityScore(ratio) ==
    LET r == IF ratio < 0 THEN -ratio ELSE ratio
    IN IF r > 4 THEN 0 ELSE 1000 - 250 * r

\* CalculateConfidence.  Faulty variant: no limit to the boost.
ConfidenceUnlimited(e) ==
    LET total == 85 * LiquidityScore(Liquidity(e)) + 15 * StabilityScore(Ratio(e))
    IN IF Liquidity(e) > 10 * MinLiquidity THEN 6 * total ELSE 5 * total
Confidence(e) ==
    LET total == 85 * LiquidityScore(Liquidity(e)) + 15 * StabilityScore(Ratio(e))
    IN IF Liquidity(e) <= 10 * MinLiquidity THEN 5 * total
       ELSE IF 6 * total > Full THEN Full ELSE 6 * total

\* calculatePathConfidence: the weakest edge, and a penalty per hop.
PathConfidence(path) ==
    LET weakest == CHOOSE c \in {Confidence(path[n]) : n \in DOMAIN path} :
                       \A n \in DOMAIN path : c <= Confidence(path[n])
        hops    == Len(path) - 1
    IN weakest * (100 - (IF hops > 4 THEN 60 ELSE 15 * hops))

-----------------------------------------------------------------------------
PricingInit ==
    /\ Init
    /\ cpc = [f \in Finders |-> "idle"]
    /\ token = [f \in Finders |-> NoToken]
    /\ stable = [f \in Finders |-> {}]
    /\ left = [f \in Finders |-> {}]
    /\ bases = [f \in Finders |-> {}]
    /\ targets = [f \in Finders |-> <<>>]
    /\ paths = [f \in Finders |-> <<>>]
    /\ answer = [f \in Finders |-> "none"]
    /\ changed = [f \in Finders |-> FALSE]

Change(p, v) ==
    /\ AddPair(p, v)
    /\ changed' = [f \in Finders |-> changed[f] \/ cpc[f] # "idle"]
    /\ UNCHANGED calculation

\* GetUSDPrice begins with the stable tokens.  (Bound: a call per goroutine.)
GetUSDPrice(f) ==
    /\ cpc[f] = "idle" /\ answer[f] = "none"
    /\ \E t \in Asked : token' = [token EXCEPT ![f] = t]
    /\ stable' = [stable EXCEPT ![f] = FindStableTokens]
    /\ left' = [left EXCEPT ![f] = FindStableTokens]
    /\ cpc' = [cpc EXCEPT ![f] = "bases"]
    /\ UNCHANGED <<graph, cached, search, bases, targets, paths, answer, changed>>

\* Faulty variant: the other token of a base pair may be any.
NewBasesAny(f, t) ==
    {Edge(edges[t][n]) : n \in {m \in DOMAIN edges[t] :
        \A b \in bases[f] : b.pair # edges[t][m]}}
\* Edges of a stable token to other stable tokens.  A pair seen before is left
\* out: if both of its tokens are stable, it is a base pair already.
NewBases(f, t) ==
    {Edge(edges[t][n]) : n \in {m \in DOMAIN edges[t] :
        Other(edges[t][m], t) \in stable[f] /\ \A b \in bases[f] : b.pair # edges[t][m]}}

\* GetStableBasePairs gets the edges of each stable token, in any order.
BasePairs(f) ==
    /\ cpc[f] = "bases"
    /\ \E t \in left[f] :
          /\ left' = [left EXCEPT ![f] = @ \ {t}]
          /\ bases' = [bases EXCEPT ![f] = @ \cup NewBases(f, t)]
    /\ UNCHANGED <<graph, cached, search, cpc, token, stable, targets, paths, answer, changed>>

Return(f, a) ==
    /\ answer' = [answer EXCEPT ![f] = a]
    /\ cpc' = [cpc EXCEPT ![f] = "idle"]

\* The base pairs by falling confidence; equal ones in any order.
Rankings(f) ==
    {s \in [1..Cardinality(bases[f]) -> bases[f]] :
        \A m, n \in DOMAIN s :
            m < n => s[m] # s[n] /\ Confidence(s[m]) >= Confidence(s[n])}

\* Both tokens of each of the first pairs of a ranking, in turn.
\* Faulty variant: of all of them.
TargetsAll(s) ==
    [n \in 1..2 * Len(s) |-> Ends[s[(n + 1) \div 2].pair][IF n % 2 = 1 THEN 1 ELSE 2]]
Targets(s) ==
    LET top == IF Len(s) > TopPairs THEN TopPairs ELSE Len(s)
    IN [n \in 1..2 * top |-> Ends[s[(n + 1) \div 2].pair][IF n % 2 = 1 THEN 1 ELSE 2]]

Rank(f) ==
    /\ cpc[f] = "bases" /\ left[f] = {}
    /\ IF bases[f] = {} THEN Return(f, "error") /\ UNCHANGED targets
       ELSE /\ \E s \in Rankings(f) : targets' = [targets EXCEPT ![f] = Targets(s)]
            /\ cpc' = [cpc EXCEPT ![f] = "paths"]
            /\ UNCHANGED answer
    /\ UNCHANGED <<graph, cached, search, token, stable, left, bases, paths, changed>>

\* A path, or nil, to the next target: only one with confidence is kept.
\* What a call that a change overlapped has stored is not sure to be a path.
Receive(f, path, sure) ==
    /\ targets' = [targets EXCEPT ![f] = Tail(@)]
    /\ paths' = IF path # NoPath /\ PathConfidence(path) > Threshold
                THEN [paths EXCEPT ![f] = Append(@,
                        [path |-> path, to |-> Head(targets[f]), sure |-> sure])]
                ELSE paths
    /\ cpc' = [cpc EXCEPT ![f] = "paths"]

\* FindPath that returns at once: nil for the token itself, or a cached path.
PathAtOnce(f) ==
    LET q == <<token[f], Head(targets[f])>> IN
    /\ cpc[f] = "paths" /\ targets[f] # <<>>
    /\ \/ q[1] = q[2] /\ Receive(f, NoPath, TRUE)
       \/ q \in DOMAIN pathCache /\ Receive(f, pathCache[q], q \notin doubtful)
    /\ UNCHANGED <<graph, cached, search, token, stable, left, bases, answer, changed>>

\* FindPath that searches, in the steps of PairGraph.
AskPath(f) ==
    /\ cpc[f] = "paths" /\ targets[f] # <<>>
    /\ Lookup(f, <<token[f], Head(targets[f])>>)
    /\ cpc' = [cpc EXCEPT ![f] = "finding"]
    /\ UNCHANGED <<token, stable, left, bases, targets, paths, answer, changed>>

FindingPath(f) ==
    /\ cpc[f] = "finding"
    /\ Direct(f) \/ WethDirect(f) \/ FirstLegs(f) \/ SecondLeg(f) \/ Expand(f) \/ NotFound(f)
    /\ UNCHANGED <<calculation, changed>>

PathFound(f) ==
    /\ cpc[f] = "finding"
    /\ Store(f)
    /\ Receive(f, found[f], ~overlapped[f])
    /\ UNCHANGED <<token, stable, left, bases, answer, changed>>

\* The paths that enter the average; the others fail and are passed over.
Averaged(f) == {n \in DOMAIN paths[f] : Priced(paths[f][n].path)}

\* The average is taken; without a price in it, the call fails.
Price(f) ==
    /\ cpc[f] = "paths" /\ targets[f] = <<>>
    /\ Return(f, IF Averaged(f) = {} THEN "error" ELSE "price")
    /\ UNCHANGED <<graph, cached, search, token, stable, left, bases, targets, paths, changed>>

Calculate(f) ==
    \/ GetUSDPrice(f) \/ BasePairs(f) \/ Rank(f) \/ PathAtOnce(f) \/ AskPath(f)
    \/ FindingPath(f) \/ PathFound(f) \/ Price(f)

PricingNext ==
    \/ \E p \in Pairs : \E v \in Versions[p] : Change(p, v)
    \/ \E f \in Finders : Calculate(f)

PricingSpec == PricingInit /\ [][PricingNext]_<<vars, calculation, changed>>

-----------------------------------------------------------------------------
(* Properties.                                                             *)

\* Every variable has its type; no more than TopPairs pairs are looked at.
PricingTypeOK ==
    /\ cpc \in [Finders -> {"idle", "bases", "paths", "finding"}]
    /\ token \in [Finders -> Tokens \cup {NoToken}]
    /\ \A f \in Finders :
          /\ left[f] \subseteq stable[f] /\ stable[f] \subseteq Tokens
          /\ bases[f] \subseteq Edges
          /\ targets[f] \in Seq(Tokens)
          /\ Len(targets[f]) + Len(paths[f]) <= 2 * TopPairs
          /\ \A n \in DOMAIN paths[f] : paths[f][n].path \in Seq(Edges) \ {<<>>}
    /\ answer \in [Finders -> {"none", "error", "price"}]
    /\ changed \in [Finders -> BOOLEAN]

\* All pairs agree on what the tokens are worth.
Agreed ==
    \A e \in Edges : Ratio(e) = Worth[Ends[e.pair][1]] - Worth[Ends[e.pair][2]]

\* A price that enters the average is what the token is worth in the stable
\* token its path ends with.
RightPrice(f, n) ==
    CalculatePrice(paths[f][n].path) = Worth[token[f]] - Worth[paths[f][n].to]

\* Paths of an answer that are sure to connect the token with the last of them
\* (a longer one need not: PathConnects).
Trusted(f) == {n \in DOMAIN paths[f] : paths[f][n].sure /\ Len(paths[f][n].path) <= 4}

\* "GetUSDPrice returns the USD price for a token" (calculator.go:30): if all
\* pairs agree, every price in the average is the token's.
PriceOfToken ==
    \A f \in Finders : answer[f] = "price" /\ Agreed =>
        \A n \in Averaged(f) \cap Trusted(f) : RightPrice(f, n)

\* That is so of every path but a single pair whose Token1 is the token; a path
\* that begins with the token enters the average, and pathToStrings lists the
\* way from the token to the stable token.
PriceDirected ==
    \A f \in Finders : answer[f] = "price" /\ Agreed =>
        \A n \in Trusted(f) :
            LET path   == paths[f][n].path
                begins == Ends[path[1].pair][1] = token[f]
            IN
            /\ begins => n \in Averaged(f)
            /\ n \in Averaged(f) /\ (begins \/ Len(path) > 1) =>
                  RightPrice(f, n) /\ Walk(path)[Len(path)] = paths[f][n].to

\* "a path is only as strong as its weakest link" (calculator.go:162), no path
\* of an answer has less than the least confidence or more than 1, and so
\* neither has the average more than 1, although it divides by all paths.
ConfidenceSound ==
    \A f \in Finders : \A n \in DOMAIN paths[f] :
        LET path == paths[f][n].path IN
        /\ PathConfidence(path) > Threshold /\ PathConfidence(path) <= 100 * Full
        /\ \A m \in DOMAIN path : PathConfidence(path) <= 100 * Confidence(path[m])

\* Unless a pair changes meanwhile, the base pairs are the pairs of the graph
\* between tokens for each of which IsStablePair knows a partner; in any case
\* a pair is a base only once, although it is listed with both tokens.
BasesStable ==
    \A f \in Finders :
        /\ \A a, b \in bases[f] : a.pair = b.pair => a = b
        /\ ~changed[f] /\ cpc[f] # "idle" =>
              \A b \in bases[f] : \A t \in EndsOf(b.pair) :
                  \E u \in Tokens : IsStablePair(t, u) /\ IsStablePair(u, t)
        /\ ~changed[f] /\ cpc[f] = "bases" /\ left[f] = {} =>
              \A p \in Pairs : Known(p) /\ EndsOf(p) \subseteq stable[f] => Edge(p) \in bases[f]
=============================================================================
