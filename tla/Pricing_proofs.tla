--------------------------- MODULE Pricing_proofs ---------------------------
(***************************************************************************)
(* The calculator uses the graph as PairGraph says: every behaviour of     *)
(* Pricing is one of PairGraph, so that what is proved of the graph's      *)
(* cache holds while prices are calculated.                                *)
(***************************************************************************)
EXTENDS Pricing, PairGraph_proofs

(***************************************************************************)
(* What a call of GetUSDPrice asks the graph for are tokens.               *)
(***************************************************************************)

TokenAsked ==
    /\ token \in [Finders -> Tokens \cup {NoToken}]
    /\ cpc \in [Finders -> {"idle", "bases", "paths", "finding"}]
    /\ \A f \in Finders : cpc[f] # "idle" => token[f] \in Tokens

BasesFinite ==
    /\ stable \in [Finders -> SUBSET Tokens]
    /\ left \in [Finders -> SUBSET Tokens]
    /\ bases \in [Finders -> SUBSET Edges]
    /\ \A f \in Finders : IsFiniteSet(bases[f])

\* A path that is being looked for is one to the next of them.
TargetsTyped ==
    /\ targets \in [Finders -> Seq(Tokens)]
    /\ \A f \in Finders : cpc[f] = "finding" => targets[f] # <<>>

AskInv == IInv /\ TokenAsked /\ BasesFinite /\ TargetsTyped

-----------------------------------------------------------------------------
LEMMA NewBasesFinite ==
  ASSUME IInv, NEW f \in Finders, NEW t \in Tokens
  PROVE  NewBases(f, t) \in SUBSET Edges /\ IsFiniteSet(NewBases(f, t))
<1> DEFINE I == {m \in DOMAIN edges[t] :
                    Other(edges[t][m], t) \in stable[f] /\ \A b \in bases[f] : b.pair # edges[t][m]}
           T == NewBases(f, t)
           g == [n \in I |-> Edge(edges[t][n])]
<1>1. edges[t] \in Seq(Pairs)
  BY DEF IInv, Shapes
<1>2. IsFiniteSet(I)
  <2>1. IsFiniteSet(1..Len(edges[t]))
    BY <1>1, FS_Interval
  <2>2. I \in SUBSET (1..Len(edges[t]))
    BY <1>1
  <2> QED BY <2>1, <2>2, FS_Subset
<1>3. T = {g[n] : n \in I}
  BY DEF NewBases
<1>4. g \in Surjection(I, T)
  <2> HIDE DEF I
  <2>1. g \in [I -> T]
    BY <1>3
  <2>2. \A b \in T : \E n \in I : g[n] = b
    BY <1>3
  <2> QED BY <2>1, <2>2 DEF Surjection
<1>5. IsFiniteSet(T)
  <2> HIDE DEF I, T, g
  <2> QED BY <1>2, <1>4, FS_Surjection
<1>6. T \in SUBSET Edges
  <2>1. \A m \in DOMAIN edges[t] : Edge(edges[t][m]) \in Edges
    BY ListType, EdgeType DEF IInv
  <2> QED BY <2>1 DEF NewBases
<1> QED BY <1>5, <1>6

\* The tokens to which paths are looked for are tokens of base pairs.
LEMMA TargetsType ==
  ASSUME NEW f \in Finders, bases[f] \in SUBSET Edges, IsFiniteSet(bases[f]),
         NEW s \in Rankings(f)
  PROVE  Targets(s) \in Seq(Tokens)
<1>1. PICK n \in Nat : n = Cardinality(bases[f])
  BY FS_CardinalityType
<1>2. s \in [1..n -> bases[f]]
  BY <1>1 DEF Rankings
<1>3. Len(s) = n
  BY <1>2
<1>4. PICK top \in 0..n : top = IF Len(s) > TopPairs THEN TopPairs ELSE Len(s)
  BY <1>3, PricingAssumption
<1>5. ASSUME NEW m \in 1..2 * top
      PROVE  Ends[s[(m + 1) \div 2].pair][IF m % 2 = 1 THEN 1 ELSE 2] \in Tokens
  <2>1. (m + 1) \div 2 \in 1..n
    BY <1>4
  <2>2. s[(m + 1) \div 2].pair \in Pairs
    BY <2>1, <1>2 DEF Edges
  <2> QED BY <2>2, GraphAssumption
<1>6. Targets(s) = [m \in 1..2 * top |-> Ends[s[(m + 1) \div 2].pair][IF m % 2 = 1 THEN 1 ELSE 2]]
  BY <1>4 DEF Targets
<1>7. Targets(s) \in [1..2 * top -> Tokens]
  BY <1>5, <1>6
<1> QED BY <1>7

\* A step of the calculator is a step of the graph, or leaves it alone.
LEMMA GraphUsed ==
  ASSUME AskInv, PricingNext
  PROVE  [Next]_vars
<1>1. ASSUME NEW p \in Pairs, NEW v \in Versions[p], Change(p, v) PROVE Next
  BY <1>1 DEF Change, Next
<1>2. ASSUME NEW f \in Finders, Calculate(f) PROVE [Next]_vars
  <2>1. CASE GetUSDPrice(f) \/ BasePairs(f) \/ Rank(f) \/ PathAtOnce(f) \/ Price(f)
    BY <2>1 DEF GetUSDPrice, BasePairs, Rank, PathAtOnce, Price, vars
  <2>2. CASE AskPath(f)
    <3>1. token[f] \in Tokens /\ Head(targets[f]) \in Tokens
      BY <2>2 DEF AskPath, AskInv, TokenAsked, TargetsTyped
    <3>2. <<token[f], Head(targets[f])>> \in Queries
      BY <3>1, PricingAssumption
    <3> QED BY <2>2, <3>2 DEF AskPath, FindPath, Next
  <2>3. CASE FindingPath(f) \/ PathFound(f)
    BY <2>3 DEF FindingPath, PathFound, FindPath, Next
  <2> QED BY <1>2, <2>1, <2>2, <2>3 DEF Calculate
<1> QED BY <1>1, <1>2 DEF PricingNext

LEMMA ReceiveTargets ==
  ASSUME AskInv, NEW f \in Finders, NEW path, NEW sure, Receive(f, path, sure),
         targets[f] # <<>>, cpc[f] # "idle"
  PROVE  /\ targets' \in [Finders -> Seq(Tokens)]
         /\ cpc' = [cpc EXCEPT ![f] = "paths"]
<1>1. targets[f] \in Seq(Tokens)
  BY DEF AskInv, TargetsTyped
<1>2. Tail(targets[f]) \in Seq(Tokens)
  BY <1>1
<1> QED BY <1>2 DEF Receive, AskInv, TargetsTyped

LEMMA AskInit == PricingInit => AskInv
<1> SUFFICES ASSUME PricingInit PROVE AskInv
  OBVIOUS
<1>1. IInv
  BY GraphInit DEF PricingInit
<1>2. TokenAsked
  BY DEF PricingInit, TokenAsked
<1>3. BasesFinite
  BY FS_EmptySet DEF PricingInit, BasesFinite
<1>4. TargetsTyped
  <2>1. <<>> \in Seq(Tokens)
    OBVIOUS
  <2> QED BY <2>1 DEF PricingInit, TargetsTyped
<1> QED BY <1>1, <1>2, <1>3, <1>4 DEF AskInv

LEMMA AskStep ==
  ASSUME AskInv, NEW f \in Finders, Calculate(f)
  PROVE  TokenAsked' /\ BasesFinite' /\ TargetsTyped'
<1> USE DEF AskInv
<1>1. CASE GetUSDPrice(f)
  <2>1. PICK t \in Tokens : token' = [token EXCEPT ![f] = t]
    BY <1>1, PricingAssumption DEF GetUSDPrice
  <2>2. /\ UNCHANGED <<bases, targets>>
        /\ cpc' = [cpc EXCEPT ![f] = "bases"]
        /\ stable' = [stable EXCEPT ![f] = FindStableTokens]
        /\ left' = [left EXCEPT ![f] = FindStableTokens]
    BY <1>1 DEF GetUSDPrice
  <2>3. FindStableTokens \in SUBSET Tokens
    BY DEF FindStableTokens
  <2>4. TokenAsked'
    BY <2>1, <2>2 DEF TokenAsked
  <2>5. BasesFinite'
    BY <2>2, <2>3 DEF BasesFinite
  <2> QED BY <2>2, <2>4, <2>5 DEF TargetsTyped, TokenAsked
<1>2. CASE BasePairs(f)
  <2>1. PICK t \in left[f] :
            /\ left' = [left EXCEPT ![f] = @ \ {t}]
            /\ bases' = [bases EXCEPT ![f] = @ \cup NewBases(f, t)]
    BY <1>2 DEF BasePairs
  <2>2. UNCHANGED <<cpc, token, stable, targets>>
    BY <1>2 DEF BasePairs
  <2>3. t \in Tokens
    BY DEF BasesFinite
  <2>4. NewBases(f, t) \in SUBSET Edges /\ IsFiniteSet(NewBases(f, t))
    BY <2>3, NewBasesFinite
  <2>5. IsFiniteSet(bases[f] \cup NewBases(f, t))
    BY <2>4, FS_Union DEF BasesFinite
  <2>6. left' \in [Finders -> SUBSET Tokens] /\ bases' \in [Finders -> SUBSET Edges]
    BY <2>1, <2>4 DEF BasesFinite
  <2>7. \A g \in Finders : IsFiniteSet(bases'[g])
    BY <2>1, <2>5 DEF BasesFinite
  <2> QED BY <2>2, <2>6, <2>7 DEF BasesFinite, TokenAsked, TargetsTyped
<1>3. CASE Rank(f)
  <2>1. UNCHANGED <<token, stable, left, bases>> /\ cpc[f] = "bases"
    BY <1>3 DEF Rank
  <2>2. \/ cpc' = [cpc EXCEPT ![f] = "idle"]
        \/ cpc' = [cpc EXCEPT ![f] = "paths"]
    BY <1>3 DEF Rank, Return
  <2>3. \/ targets' = targets
        \/ \E s \in Rankings(f) : targets' = [targets EXCEPT ![f] = Targets(s)]
    BY <1>3 DEF Rank
  <2>4. TokenAsked'
    BY <2>1, <2>2 DEF TokenAsked
  <2>5. TargetsTyped'
    <3>1. targets' \in [Finders -> Seq(Tokens)]
      BY <2>3, TargetsType DEF BasesFinite, TargetsTyped
    <3>2. \A g \in Finders : cpc'[g] = "finding" => g # f /\ cpc[g] = "finding"
      BY <2>2 DEF TokenAsked
    <3>3. \A g \in Finders : g # f => targets'[g] = targets[g]
      BY <2>3 DEF TargetsTyped
    <3> QED BY <3>1, <3>2, <3>3 DEF TargetsTyped
  <2> QED BY <2>1, <2>4, <2>5 DEF BasesFinite
<1>4. CASE PathAtOnce(f) \/ PathFound(f)
  <2>1. /\ targets[f] # <<>> => targets' \in [Finders -> Seq(Tokens)]
        /\ cpc[f] # "idle" /\ cpc' = [cpc EXCEPT ![f] = "paths"]
        /\ UNCHANGED <<token, stable, left, bases>>
    BY <1>4, ReceiveTargets DEF PathAtOnce, PathFound, Receive
  <2>2. targets' \in [Finders -> Seq(Tokens)]
    BY <1>4, <2>1 DEF PathAtOnce, PathFound, TargetsTyped
  <2>3. TokenAsked' /\ BasesFinite'
    BY <2>1 DEF TokenAsked, BasesFinite
  <2>4. \A g \in Finders : cpc'[g] = "finding" => g # f /\ cpc[g] = "finding"
    BY <2>1 DEF TokenAsked
  <2>5. \A g \in Finders : g # f => targets'[g] = targets[g]
    BY <1>4 DEF PathAtOnce, PathFound, Receive, TargetsTyped
  <2> QED BY <2>2, <2>3, <2>4, <2>5 DEF TargetsTyped
<1>5. CASE AskPath(f)
  BY <1>5 DEF AskPath, TokenAsked, BasesFinite, TargetsTyped
<1>6. CASE FindingPath(f)
  BY <1>6 DEF FindingPath, calculation, TokenAsked, BasesFinite, TargetsTyped
<1>7. CASE Price(f)
  BY <1>7 DEF Price, Return, TokenAsked, BasesFinite, TargetsTyped
<1> QED BY <1>1, <1>2, <1>3, <1>4, <1>5, <1>6, <1>7 DEF Calculate

\* What a step that is not the calculator's leaves alone.
LEMMA AskFrame ==
  ASSUME AskInv, UNCHANGED calculation
  PROVE  TokenAsked' /\ BasesFinite' /\ TargetsTyped'
  BY DEF AskInv, calculation, TokenAsked, BasesFinite, TargetsTyped

LEMMA AskNext == AskInv /\ [PricingNext]_<<vars, calculation, changed>> => AskInv'
<1> SUFFICES ASSUME AskInv, [PricingNext]_<<vars, calculation, changed>> PROVE AskInv'
  OBVIOUS
<1>1. [Next]_vars
  BY GraphUsed
<1>2. IInv'
  BY <1>1, GraphStep DEF AskInv
<1>3. TokenAsked' /\ BasesFinite' /\ TargetsTyped'
  <2>1. CASE UNCHANGED calculation
    BY <2>1, AskFrame
  <2>2. CASE \E f \in Finders : Calculate(f)
    BY <2>2, AskStep
  <2> QED BY <2>1, <2>2 DEF PricingNext, Change
<1> QED BY <1>2, <1>3 DEF AskInv

-----------------------------------------------------------------------------
\* The calculator uses the graph as its finders do: whatever it asks for, and
\* however pairs change, it behaves as PairGraph says.
THEOREM CalculatorUsesGraph == PricingSpec => Spec
<1>1. PricingInit => Init
  BY DEF PricingInit
<1>2. AskInv /\ [PricingNext]_<<vars, calculation, changed>> => [Next]_vars
  <2>1. AskInv /\ PricingNext => [Next]_vars
    BY GraphUsed
  <2> QED BY <2>1
<1> QED
  BY <1>1, <1>2, AskInit, AskNext, PTL DEF PricingSpec, Spec

\* So the paths that prices are calculated from are current, but for those that
\* a call stored while a pair changed.
THEOREM PricesUseCurrentPaths == PricingSpec => []CachedCurrent
  BY CalculatorUsesGraph, CachedIsCurrent, PTL

-----------------------------------------------------------------------------
(***************************************************************************)
(* What the calculator holds.                                              *)
(***************************************************************************)

PathRecs == [path : Seq(Edges) \ {<<>>}, to : Tokens, sure : BOOLEAN]

CalcTyped ==
    /\ paths \in [Finders -> Seq(PathRecs)]
    /\ answer \in [Finders -> {"none", "error", "price"}]
    /\ changed \in [Finders -> BOOLEAN]
    /\ \A f \in Finders : left[f] \subseteq stable[f]

\* A goroutine calls once, and gets base pairs, targets and paths in turn; each
\* path takes the place of a target.
InTurn ==
    \A f \in Finders :
        /\ cpc[f] # "idle" => answer[f] = "none"
        /\ answer[f] = "none" /\ cpc[f] = "idle" => bases[f] = {}
        /\ answer[f] = "none" /\ cpc[f] \in {"idle", "bases"} => targets[f] = <<>> /\ paths[f] = <<>>
        /\ Len(targets[f]) + Len(paths[f]) <= 2 * TopPairs

BasesOnce == \A f \in Finders : \A a, b \in bases[f] : a.pair = b.pair => a = b

\* Unless a pair changed since the call began, its base pairs are the edges of
\* the graph between stable tokens of which one or both have been gone through.
BasesAt(f) ==
    ~changed[f] /\ cpc[f] # "idle" =>
        /\ stable[f] = FindStableTokens
        /\ \A b \in bases[f] : /\ b.pair \in Pairs /\ b = Edge(b.pair)
                               /\ EndsOf(b.pair) \subseteq stable[f]
        /\ \A p \in Pairs :
              Known(p) /\ EndsOf(p) \subseteq stable[f] /\ ~(EndsOf(p) \subseteq left[f])
                => Edge(p) \in bases[f]

BasesNow == \A f \in Finders : BasesAt(f)

Confident ==
    \A f \in Finders : \A n \in DOMAIN paths[f] : PathConfidence(paths[f][n].path) > Threshold

CalcInv == AskInv /\ CalcTyped /\ InTurn /\ BasesOnce /\ BasesNow /\ Confident

-----------------------------------------------------------------------------
(* Lemmas about prices and confidence.                                     *)

LEMMA ScoreBounds ==
  ASSUME NEW l \in Nat, l <= MinLiquidity \/ \E k \in 1..10 : l = MinLiquidity * 2^k
  PROVE  LiquidityScore(l) \in Nat /\ LiquidityScore(l) <= 1000
<1> DEFINE c == CHOOSE k \in 1..10 : l = MinLiquidity * 2^k
<1>1. CASE l <= MinLiquidity
  BY <1>1 DEF LiquidityScore
<1>2. CASE ~(l <= MinLiquidity)
  <2>1. c \in 1..10
    BY <1>2
  <2>2. LiquidityScore(l) = IF 375 * c > 1000 THEN 1000 ELSE 375 * c
    BY <1>2 DEF LiquidityScore
  <2> HIDE DEF c
  <2> QED BY <2>1, <2>2
<1> QED BY <1>1, <1>2

LEMMA StabilityBounds ==
  ASSUME NEW ratio \in Int
  PROVE  StabilityScore(ratio) \in Nat /\ StabilityScore(ratio) <= 1000
  BY DEF StabilityScore

LEMMA EdgeData ==
  ASSUME NEW e \in Edges
  PROVE  /\ Ratio(e) \in Int /\ Liquidity(e) \in Nat
         /\ Liquidity(e) <= MinLiquidity \/ \E k \in 1..10 : Liquidity(e) = MinLiquidity * 2^k
<1>1. e.pair \in Pairs /\ e.version \in Versions[e.pair]
  BY DEF Edges
<1>2. /\ DataOf(e).reserve0 \in Int /\ DataOf(e).reserve1 \in Int /\ DataOf(e).liquidity \in Nat
      /\ DataOf(e).liquidity <= MinLiquidity
            \/ \E k \in 1..10 : DataOf(e).liquidity = MinLiquidity * 2^k
  BY <1>1, PricingAssumption DEF DataOf
<1>3. Decimals[e.pair][1] \in Nat /\ Decimals[e.pair][2] \in Nat /\ Tenfold \in Nat
  BY <1>1, PricingAssumption
<1>4. ASSUME NEW d0 \in Nat, NEW d1 \in Nat PROVE Tenfold * (d1 - d0) \in Int
  BY <1>3
<1>5. Ratio(e) \in Int
  BY <1>2, <1>3, <1>4 DEF Ratio
<1> QED BY <1>2, <1>5 DEF Liquidity

LEMMA ConfidenceBounds ==
  ASSUME NEW e \in Edges
  PROVE  Confidence(e) \in Nat /\ Confidence(e) <= Full
<1> DEFINE a == LiquidityScore(Liquidity(e))
           b == StabilityScore(Ratio(e))
           total == 85 * a + 15 * b
<1>1. a \in Nat /\ a <= 1000 /\ b \in Nat /\ b <= 1000
  BY EdgeData, ScoreBounds, StabilityBounds
<1> HIDE DEF a, b
<1>2. total \in Nat /\ total <= 100000
  BY <1>1
<1> HIDE DEF total
<1>3. \/ Confidence(e) = 5 * total \/ Confidence(e) = Full
      \/ Confidence(e) = 6 * total /\ ~(6 * total > Full)
  BY DEF Confidence, total, a, b
<1> QED BY <1>2, <1>3 DEF Full

\* What a path loses for its hops leaves it no more than its weakest edge has.
LEMMA PathConfidenceBounds ==
  ASSUME NEW path \in Seq(Edges), path # <<>>
  PROVE  /\ PathConfidence(path) <= 100 * Full
         /\ \A m \in DOMAIN path : PathConfidence(path) <= 100 * Confidence(path[m])
<1> DEFINE S == {Confidence(path[n]) : n \in DOMAIN path}
           w == CHOOSE c \in S : \A n \in DOMAIN path : c <= Confidence(path[n])
           hops == Len(path) - 1
           rest == 100 - (IF hops > 4 THEN 60 ELSE 15 * hops)
<1>0. Full \in Nat
  BY DEF Full
<1>1. \A n \in DOMAIN path : Confidence(path[n]) \in Nat /\ Confidence(path[n]) <= Full
  BY ConfidenceBounds
<1>2. S \subseteq Nat /\ S # {}
  BY <1>1
<1>3. \E x \in S : \A y \in S : x <= y
  <2> HIDE DEF S
  <2> QED BY <1>2, LeastIndex
<1>4. \E c \in S : \A n \in DOMAIN path : c <= Confidence(path[n])
  BY <1>3
<1>5. w \in S /\ \A n \in DOMAIN path : w <= Confidence(path[n])
  <2> HIDE DEF S
  <2> QED BY <1>4
<1>6. w \in Nat /\ w <= Full
  <2> HIDE DEF w
  <2> QED BY <1>1, <1>5
<1>7. hops \in Nat
  <2>1. Len(path) \in Nat /\ Len(path) # 0
    OBVIOUS
  <2> QED BY <2>1
<1>8. PathConfidence(path) = w * rest
  BY DEF PathConfidence
<1> HIDE DEF w, hops
<1>9. rest \in {40, 55, 70, 85, 100}
  <2>1. hops > 4 \/ hops \in {0, 1, 2, 3, 4}
    BY <1>7
  <2> QED BY <2>1
<1> HIDE DEF rest
<1>10. w * rest <= 100 * w
  BY <1>6, <1>9
<1>11. w * rest <= 100 * Full
  BY <1>0, <1>6, <1>9
<1>12. ASSUME NEW m \in DOMAIN path PROVE w * rest <= 100 * Confidence(path[m])
  <2>1. w <= Confidence(path[m]) /\ Confidence(path[m]) \in Nat
    BY <1>1, <1>5
  <2> QED BY <1>6, <1>9, <2>1
<1> QED BY <1>8, <1>11, <1>12

-----------------------------------------------------------------------------
(* Lemmas about the steps.                                                 *)

LEMMA TargetsLength ==
  ASSUME NEW f \in Finders, bases[f] \in SUBSET Edges, IsFiniteSet(bases[f]),
         NEW s \in Rankings(f)
  PROVE  Len(Targets(s)) \in Nat /\ Len(Targets(s)) <= 2 * TopPairs
<1>1. PICK n \in Nat : n = Cardinality(bases[f])
  BY FS_CardinalityType
<1>2. s \in [1..n -> bases[f]]
  BY <1>1 DEF Rankings
<1>3. Len(s) = n
  BY <1>2
<1>4. PICK top \in 0..n : top = IF Len(s) > TopPairs THEN TopPairs ELSE Len(s)
  BY <1>3, PricingAssumption
<1>5. top \in Nat /\ top <= TopPairs /\ TopPairs \in Nat
  BY <1>3, <1>4, PricingAssumption
<1>6. Targets(s) = [m \in 1..2 * top |-> Ends[s[(m + 1) \div 2].pair][IF m % 2 = 1 THEN 1 ELSE 2]]
  BY <1>4 DEF Targets
<1>7. Len(Targets(s)) = 2 * top
  BY <1>5, <1>6
<1> QED BY <1>5, <1>7

LEMMA RoomKept ==
  ASSUME NEW a \in Nat, NEW b \in Nat, NEW n \in Nat, a + b <= n,
         NEW c, NEW d, c = a - 1, d = b \/ d = b + 1
  PROVE  c + d <= n
  OBVIOUS

\* A path takes the place of a target, if its confidence is above the least.
LEMMA ReceiveStep ==
  ASSUME CalcInv, NEW f \in Finders, NEW path \in Seq(Edges), NEW sure \in BOOLEAN,
         Receive(f, path, sure), targets[f] # <<>>
  PROVE  /\ paths' \in [Finders -> Seq(PathRecs)]
         /\ Len(targets'[f]) + Len(paths'[f]) <= 2 * TopPairs
         /\ \A g \in Finders \ {f} : targets'[g] = targets[g] /\ paths'[g] = paths[g]
         /\ Confident'
<1> DEFINE r == [path |-> path, to |-> Head(targets[f]), sure |-> sure]
           more == path # NoPath /\ PathConfidence(path) > Threshold
<1>1. /\ targets[f] \in Seq(Tokens) /\ paths[f] \in Seq(PathRecs)
      /\ Len(targets[f]) + Len(paths[f]) <= 2 * TopPairs
  BY DEF CalcInv, AskInv, TargetsTyped, CalcTyped, InTurn
<1>2. /\ Len(Tail(targets[f])) = Len(targets[f]) - 1 /\ Len(targets[f]) \in Nat
      /\ Len(paths[f]) \in Nat /\ Head(targets[f]) \in Tokens
  BY <1>1
<1>3. targets'[f] = Tail(targets[f]) /\ \A g \in Finders \ {f} : targets'[g] = targets[g]
  BY DEF Receive, CalcInv, AskInv, TargetsTyped
<1>4. 2 * TopPairs \in Nat
  BY PricingAssumption
<1>7. Len(targets'[f]) = Len(targets[f]) - 1
  BY <1>2, <1>3
<1>5. CASE more
  <2>1. r \in PathRecs
    BY <1>2, <1>5 DEF PathRecs, NoPath
  <2>2. paths' = [paths EXCEPT ![f] = Append(@, r)]
    BY <1>5 DEF Receive
  <2>3. paths'[f] = Append(paths[f], r) /\ \A g \in Finders \ {f} : paths'[g] = paths[g]
    BY <2>2 DEF CalcInv, CalcTyped
  <2>4. PathConfidence(r.path) > Threshold
    BY <1>5
  <2> HIDE DEF r, more
  <2>5. /\ Append(paths[f], r) \in Seq(PathRecs) /\ Len(Append(paths[f], r)) = Len(paths[f]) + 1
        /\ \A n \in DOMAIN Append(paths[f], r) :
              \/ Append(paths[f], r)[n] = r
              \/ n \in DOMAIN paths[f] /\ Append(paths[f], r)[n] = paths[f][n]
    BY <1>1, <2>1
  <2>6. paths' \in [Finders -> Seq(PathRecs)]
    BY <2>2, <2>5 DEF CalcInv, CalcTyped
  <2>7. Len(targets'[f]) + Len(paths'[f]) <= 2 * TopPairs
    <3>1. Len(paths'[f]) = Len(paths[f]) + 1
      BY <2>3, <2>5
    <3> QED BY <1>1, <1>2, <1>4, <1>7, <3>1, RoomKept, Zenon
  <2>8. ASSUME NEW g \in Finders, NEW n \in DOMAIN paths'[g]
        PROVE  PathConfidence(paths'[g][n].path) > Threshold
    <3>1. CASE g = f
      <4>1. \/ paths'[f][n] = r
            \/ n \in DOMAIN paths[f] /\ paths'[f][n] = paths[f][n]
        BY <2>3, <2>5, <2>8, <3>1
      <4> QED BY <2>4, <3>1, <4>1 DEF CalcInv, Confident
    <3>2. CASE g # f
      BY <2>3, <2>8, <3>2 DEF CalcInv, Confident
    <3> QED BY <3>1, <3>2
  <2>9. Confident'
    BY <2>8 DEF Confident
  <2> QED BY <1>3, <2>3, <2>6, <2>7, <2>9
<1>6. CASE ~more
  <2>1. paths' = paths
    BY <1>6 DEF Receive
  <2>2. Len(targets'[f]) + Len(paths'[f]) <= 2 * TopPairs
    <3>1. Len(paths'[f]) = Len(paths[f])
      BY <2>1
    <3> QED BY <1>1, <1>2, <1>4, <1>7, <3>1, RoomKept, Zenon
  <2> QED BY <1>3, <2>1, <2>2 DEF CalcInv, CalcTyped, Confident
<1> QED BY <1>5, <1>6

\* What is stable, and what the edges are, depends on the graph alone.
LEMMA StableFrame ==
  ASSUME UNCHANGED graph
  PROVE  /\ FindStableTokens' = FindStableTokens
         /\ \A p : Edge(p)' = Edge(p) /\ (Known(p)' <=> Known(p))
<1>1. version' = version /\ edges' = edges
  BY DEF graph
<1>2. \A p : Edge(p)' = Edge(p) /\ (Known(p)' <=> Known(p))
  BY <1>1 DEF Edge, Known
<1>3. \A t : TotalLiquidity(t)' = TotalLiquidity(t)
  BY <1>1 DEF TotalLiquidity, Edge
<1>4. FindStableTokens' = FindStableTokens
  BY <1>1, <1>2, <1>3 DEF FindStableTokens, Edge
<1> QED BY <1>2, <1>4

\* The edges that a stable token adds to the base pairs.
LEMMA NewBasesAre ==
  ASSUME IInv, NEW f \in Finders, NEW t \in Tokens
  PROVE  /\ \A b \in NewBases(f, t) :
               /\ b.pair \in Pairs /\ b = Edge(b.pair)
               /\ t \in stable[f] => EndsOf(b.pair) \subseteq stable[f]
               /\ \A a \in bases[f] : a.pair # b.pair
         /\ \A p \in Pairs :
               /\ Known(p) /\ t \in EndsOf(p) /\ EndsOf(p) \subseteq stable[f]
               /\ \A a \in bases[f] : a.pair # p
               => Edge(p) \in NewBases(f, t)
<1>1. ASSUME NEW b \in NewBases(f, t)
      PROVE  /\ b.pair \in Pairs /\ b = Edge(b.pair)
             /\ t \in stable[f] => EndsOf(b.pair) \subseteq stable[f]
             /\ \A a \in bases[f] : a.pair # b.pair
  <2>1. PICK m \in DOMAIN edges[t] :
            /\ b = Edge(edges[t][m]) /\ Other(edges[t][m], t) \in stable[f]
            /\ \A a \in bases[f] : a.pair # edges[t][m]
    BY DEF NewBases
  <2>2. b.pair = edges[t][m]
    BY <2>1 DEF Edge
  <2>3. edges[t][m] \in Pairs /\ EndsOf(edges[t][m]) = {t, Other(edges[t][m], t)}
    BY ListType, OtherIsAdjacent DEF IInv
  <2> QED BY <2>1, <2>2, <2>3
<1>2. ASSUME NEW p \in Pairs, Known(p), t \in EndsOf(p), EndsOf(p) \subseteq stable[f],
             \A a \in bases[f] : a.pair # p
      PROVE  Edge(p) \in NewBases(f, t)
  <2>1. PICK m \in DOMAIN edges[t] : edges[t][m] = p
    BY <1>2 DEF IInv, Listed, Listing
  <2>2. Other(p, t) \in stable[f]
    BY <1>2 DEF Other, EndsOf
  <2> QED BY <1>2, <2>1, <2>2 DEF NewBases
<1> QED BY <1>1, <1>2

-----------------------------------------------------------------------------
(* The invariant is inductive.                                             *)

\* A step that leaves the graph and a call's base pairs alone.
LEMMA BasesFrame ==
  ASSUME UNCHANGED graph, NEW g \in Finders, BasesAt(g),
         cpc'[g] # "idle" => cpc[g] # "idle",
         stable'[g] = stable[g], left'[g] = left[g], bases'[g] = bases[g],
         changed'[g] = changed[g]
  PROVE  BasesAt(g)'
<1>1. FindStableTokens' = FindStableTokens
      /\ \A p : Edge(p)' = Edge(p) /\ (Known(p)' <=> Known(p))
  BY StableFrame
<1> QED BY <1>1 DEF BasesAt

\* The edges of one more stable token are gone through.
LEMMA BasesGrow ==
  ASSUME CalcInv, NEW f \in Finders, BasePairs(f)
  PROVE  BasesAt(f)' /\ BasesOnce'
<1>1. PICK t \in left[f] : /\ left' = [left EXCEPT ![f] = @ \ {t}]
                           /\ bases' = [bases EXCEPT ![f] = @ \cup NewBases(f, t)]
  BY DEF BasePairs
<1>2. /\ UNCHANGED <<graph, cpc, stable, changed>> /\ cpc[f] = "bases"
      /\ t \in Tokens /\ t \in stable[f] /\ IInv
  BY DEF BasePairs, CalcInv, AskInv, BasesFinite, CalcTyped
<1>3. /\ left'[f] = left[f] \ {t} /\ bases'[f] = bases[f] \cup NewBases(f, t)
      /\ \A g \in Finders \ {f} : bases'[g] = bases[g]
  BY <1>1 DEF CalcInv, AskInv, BasesFinite
<1>4. /\ \A b \in NewBases(f, t) :
            /\ b.pair \in Pairs /\ b = Edge(b.pair)
            /\ EndsOf(b.pair) \subseteq stable[f]
            /\ \A a \in bases[f] : a.pair # b.pair
      /\ \A p \in Pairs :
            /\ Known(p) /\ t \in EndsOf(p) /\ EndsOf(p) \subseteq stable[f]
            /\ \A a \in bases[f] : a.pair # p
            => Edge(p) \in NewBases(f, t)
  BY <1>2, NewBasesAre
<1>5. BasesOnce'
  <2> SUFFICES ASSUME NEW g \in Finders, NEW a \in bases'[g], NEW b \in bases'[g], a.pair = b.pair
               PROVE  a = b
    BY DEF BasesOnce
  <2>1. CASE g # f
    BY <1>3, <2>1 DEF CalcInv, BasesOnce
  <2>2. CASE g = f
    <3>1. CASE a \in bases[f] /\ b \in bases[f]
      BY <3>1 DEF CalcInv, BasesOnce
    <3>2. CASE a \in NewBases(f, t) /\ b \in NewBases(f, t)
      BY <1>4, <3>2
    <3>3. CASE \/ a \in bases[f] /\ b \in NewBases(f, t)
               \/ a \in NewBases(f, t) /\ b \in bases[f]
      BY <1>4, <3>3
    <3>4. /\ a \in bases[f] \/ a \in NewBases(f, t)
          /\ b \in bases[f] \/ b \in NewBases(f, t)
      BY <1>3, <2>2
    <3> QED BY <3>1, <3>2, <3>3, <3>4, Zenon
  <2> QED BY <2>1, <2>2
<1>6. BasesAt(f)'
  <2> SUFFICES ASSUME ~changed[f]
               PROVE  /\ stable[f] = FindStableTokens'
                      /\ \A b \in bases'[f] : /\ b.pair \in Pairs /\ b = Edge(b.pair)'
                                              /\ EndsOf(b.pair) \subseteq stable[f]
                      /\ \A p \in Pairs :
                            Known(p)' /\ EndsOf(p) \subseteq stable[f]
                                      /\ ~(EndsOf(p) \subseteq left'[f])
                            => Edge(p)' \in bases'[f]
    BY <1>2 DEF BasesAt
  <2>1. /\ FindStableTokens' = FindStableTokens
        /\ \A p : Edge(p)' = Edge(p) /\ (Known(p)' <=> Known(p))
    BY <1>2, StableFrame
  <2>2. /\ stable[f] = FindStableTokens
        /\ \A b \in bases[f] : /\ b.pair \in Pairs /\ b = Edge(b.pair)
                               /\ EndsOf(b.pair) \subseteq stable[f]
        /\ \A p \in Pairs :
              Known(p) /\ EndsOf(p) \subseteq stable[f] /\ ~(EndsOf(p) \subseteq left[f])
                => Edge(p) \in bases[f]
    BY <1>2 DEF CalcInv, BasesNow, BasesAt
  <2>3. ASSUME NEW b \in bases'[f]
        PROVE  b.pair \in Pairs /\ b = Edge(b.pair)' /\ EndsOf(b.pair) \subseteq stable[f]
    <3>1. b \in bases[f] \/ b \in NewBases(f, t)
      BY <1>3
    <3>2. b.pair \in Pairs /\ b = Edge(b.pair) /\ EndsOf(b.pair) \subseteq stable[f]
      BY <1>4, <2>2, <3>1
    <3>3. Edge(b.pair)' = Edge(b.pair)
      BY <2>1
    <3> QED BY <3>2, <3>3
  <2>4. ASSUME NEW p \in Pairs, Known(p), EndsOf(p) \subseteq stable[f],
               ~(EndsOf(p) \subseteq left[f] \ {t})
        PROVE  Edge(p) \in bases'[f]
    <3>1. CASE ~(EndsOf(p) \subseteq left[f])
      BY <1>3, <2>2, <2>4, <3>1
    <3>2. CASE EndsOf(p) \subseteq left[f]
      <4>1. t \in EndsOf(p)
        BY <2>4, <3>2
      <4>2. CASE \A a \in bases[f] : a.pair # p
        BY <1>3, <1>4, <2>4, <4>1, <4>2
      <4>3. CASE \E a \in bases[f] : a.pair = p
        BY <1>3, <2>2, <4>3
      <4> QED BY <4>2, <4>3
    <3> QED BY <3>1, <3>2
  <2>5. \A p \in Pairs : Known(p)' /\ EndsOf(p) \subseteq stable[f]
                            /\ ~(EndsOf(p) \subseteq left'[f])
                         => Edge(p)' \in bases'[f]
    BY <1>3, <2>1, <2>4
  <2> QED BY <2>1, <2>2, <2>3, <2>5
<1> QED BY <1>5, <1>6

\* What a step does to the base pairs of all calls.
LEMMA BasesStep ==
  ASSUME CalcInv, NEW f \in Finders, Calculate(f)
  PROVE  BasesNow' /\ BasesOnce'
<1>1. UNCHANGED graph
  BY DEF Calculate, GetUSDPrice, BasePairs, Rank, PathAtOnce, AskPath, FindingPath, PathFound,
         Price, Lookup, Direct, WethDirect, FirstLegs, SecondLeg, Expand, NotFound, Store
<1>2. /\ UNCHANGED changed
      /\ \A g \in Finders \ {f} : /\ cpc'[g] = cpc[g] /\ stable'[g] = stable[g]
                                  /\ left'[g] = left[g] /\ bases'[g] = bases[g]
  <2> USE DEF CalcInv, AskInv, TokenAsked, BasesFinite
  <2>1. CASE GetUSDPrice(f)
    BY <2>1 DEF GetUSDPrice
  <2>2. CASE BasePairs(f)
    BY <2>2 DEF BasePairs
  <2>3. CASE Rank(f)
    BY <2>3 DEF Rank, Return
  <2>4. CASE PathAtOnce(f) \/ PathFound(f)
    BY <2>4 DEF PathAtOnce, PathFound, Receive
  <2>5. CASE AskPath(f) \/ FindingPath(f)
    BY <2>5 DEF AskPath, FindingPath, calculation
  <2>6. CASE Price(f)
    BY <2>6 DEF Price, Return
  <2> QED BY <2>1, <2>2, <2>3, <2>4, <2>5, <2>6 DEF Calculate
<1>3. \A g \in Finders \ {f} : BasesAt(g)'
  BY <1>1, <1>2, BasesFrame DEF CalcInv, BasesNow
<1>4. CASE BasePairs(f)
  BY <1>3, <1>4, BasesGrow DEF BasesNow
<1>5. CASE GetUSDPrice(f)
  <2>1. /\ stable'[f] = FindStableTokens /\ left'[f] = FindStableTokens
        /\ bases' = bases /\ bases[f] = {}
    BY <1>5 DEF GetUSDPrice, CalcInv, AskInv, BasesFinite, InTurn
  <2>2. FindStableTokens' = FindStableTokens
    BY <1>1, StableFrame
  <2>3. BasesAt(f)'
    BY <2>1, <2>2 DEF BasesAt
  <2>4. BasesOnce'
    BY <2>1 DEF BasesOnce, CalcInv
  <2> QED BY <1>3, <2>3, <2>4 DEF BasesNow
<1>6. CASE Rank(f) \/ PathAtOnce(f) \/ AskPath(f) \/ FindingPath(f) \/ PathFound(f) \/ Price(f)
  <2>1. UNCHANGED <<stable, left, bases>> /\ cpc[f] # "idle"
    BY <1>6 DEF Rank, PathAtOnce, AskPath, FindingPath, PathFound, Price, calculation
  <2>2. BasesAt(f)'
    BY <1>1, <1>2, <2>1, BasesFrame DEF CalcInv, BasesNow
  <2>3. BasesOnce'
    BY <2>1 DEF BasesOnce, CalcInv
  <2> QED BY <1>3, <2>2, <2>3 DEF BasesNow
<1> QED BY <1>4, <1>5, <1>6 DEF Calculate

\* What a step does to the targets and the paths.
LEMMA PathsStep ==
  ASSUME CalcInv, NEW f \in Finders, Calculate(f)
  PROVE  CalcTyped' /\ InTurn' /\ Confident'
<1> USE DEF CalcInv, AskInv
<1>1. CASE GetUSDPrice(f)
  <2>1. /\ UNCHANGED <<bases, targets, paths, answer, changed>>
        /\ cpc[f] = "idle" /\ answer[f] = "none" /\ cpc' = [cpc EXCEPT ![f] = "bases"]
        /\ stable' = [stable EXCEPT ![f] = FindStableTokens]
        /\ left' = [left EXCEPT ![f] = FindStableTokens]
    BY <1>1 DEF GetUSDPrice
  <2>2. CalcTyped'
    BY <2>1 DEF CalcTyped, BasesFinite
  <2>3. InTurn'
    BY <2>1 DEF InTurn, TokenAsked
  <2> QED BY <2>1, <2>2, <2>3 DEF Confident
<1>2. CASE BasePairs(f)
  <2>1. /\ UNCHANGED <<cpc, stable, targets, paths, answer, changed>>
        /\ cpc[f] = "bases" /\ \E t \in left[f] : left' = [left EXCEPT ![f] = @ \ {t}]
        /\ \A g \in Finders \ {f} : bases'[g] = bases[g]
    BY <1>2 DEF BasePairs, BasesFinite
  <2>2. CalcTyped'
    BY <2>1 DEF CalcTyped, BasesFinite
  <2>3. InTurn'
    BY <2>1 DEF InTurn
  <2> QED BY <2>1, <2>2, <2>3 DEF Confident
<1>3. CASE Rank(f)
  <2>1. UNCHANGED <<stable, left, bases, paths, changed>> /\ cpc[f] = "bases"
    BY <1>3 DEF Rank
  <2>2. targets[f] = <<>> /\ paths[f] = <<>> /\ answer[f] = "none"
    BY <2>1 DEF InTurn
  <2>3. CASE Return(f, "error") /\ UNCHANGED targets
    <3>1. CalcTyped'
      BY <2>1, <2>3 DEF Return, CalcTyped
    <3>2. InTurn'
      BY <2>1, <2>3 DEF Return, InTurn, TokenAsked, CalcTyped
    <3> QED BY <2>1, <3>1, <3>2 DEF Confident
  <2>4. CASE /\ \E s \in Rankings(f) : targets' = [targets EXCEPT ![f] = Targets(s)]
             /\ cpc' = [cpc EXCEPT ![f] = "paths"] /\ UNCHANGED answer
    <3>1. PICK s \in Rankings(f) : targets' = [targets EXCEPT ![f] = Targets(s)]
      BY <2>4
    <3>2. Len(Targets(s)) \in Nat /\ Len(Targets(s)) <= 2 * TopPairs
      BY TargetsLength DEF BasesFinite
    <3>3. targets'[f] = Targets(s) /\ \A g \in Finders \ {f} : targets'[g] = targets[g]
      BY <3>1 DEF TargetsTyped
    <3>4. Len(targets'[f]) + Len(paths'[f]) <= 2 * TopPairs
      <4>1. Len(paths'[f]) = 0
        BY <2>1, <2>2
      <4>2. 2 * TopPairs \in Nat
        BY PricingAssumption
      <4> QED BY <3>2, <3>3, <4>1, <4>2
    <3>5. InTurn'
      BY <2>1, <2>2, <2>4, <3>3, <3>4 DEF InTurn, TokenAsked
    <3>6. CalcTyped'
      BY <2>1, <2>4 DEF CalcTyped
    <3> QED BY <2>1, <3>5, <3>6 DEF Confident
  <2> QED BY <1>3, <2>3, <2>4 DEF Rank
<1>4. CASE PathAtOnce(f) \/ PathFound(f)
  <2>1. PICK path \in Seq(Edges), sure \in BOOLEAN : Receive(f, path, sure)
    <3>1. CASE PathAtOnce(f)
      <4>1. NoPath \in Seq(Edges)
        BY DEF NoPath
      <4>0. Shapes
        BY DEF IInv
      <4>2. \A k \in DOMAIN pathCache : pathCache[k] \in Seq(Edges)
        BY <4>0, Zenon DEF Shapes
      <4>3. TRUE \in BOOLEAN /\ \A k : (k \notin doubtful) \in BOOLEAN
        OBVIOUS
      <4> QED BY <3>1, <4>1, <4>2, <4>3 DEF PathAtOnce
    <3>2. CASE PathFound(f)
      <4>1. found[f] \in Seq(Edges) /\ (~overlapped[f]) \in BOOLEAN
        BY DEF IInv, Shapes
      <4> QED BY <3>2, <4>1 DEF PathFound
    <3> QED BY <1>4, <3>1, <3>2
  <2>2. /\ targets[f] # <<>> /\ cpc[f] # "idle" /\ cpc' = [cpc EXCEPT ![f] = "paths"]
        /\ UNCHANGED <<stable, left, bases, answer, changed>>
    BY <1>4 DEF PathAtOnce, PathFound, Receive, TargetsTyped
  <2>3. /\ paths' \in [Finders -> Seq(PathRecs)]
        /\ Len(targets'[f]) + Len(paths'[f]) <= 2 * TopPairs
        /\ \A g \in Finders \ {f} : targets'[g] = targets[g] /\ paths'[g] = paths[g]
        /\ Confident'
    BY <2>1, <2>2, ReceiveStep
  <2>4. CalcTyped'
    BY <2>2, <2>3 DEF CalcTyped
  <2>5. InTurn'
    BY <2>2, <2>3 DEF InTurn, TokenAsked
  <2> QED BY <2>3, <2>4, <2>5
<1>5. CASE AskPath(f)
  <2>1. /\ UNCHANGED <<stable, left, bases, targets, paths, answer, changed>>
        /\ cpc[f] = "paths" /\ cpc' = [cpc EXCEPT ![f] = "finding"]
    BY <1>5 DEF AskPath
  <2>2. InTurn'
    BY <2>1 DEF InTurn, TokenAsked
  <2> QED BY <2>1, <2>2 DEF CalcTyped, Confident
<1>6. CASE FindingPath(f)
  BY <1>6 DEF FindingPath, calculation, CalcTyped, InTurn, Confident
<1>7. CASE Price(f)
  <2>1. PICK a \in {"error", "price"} : Return(f, a)
    BY <1>7 DEF Price
  <2>2. UNCHANGED <<stable, left, bases, targets, paths, changed>>
    BY <1>7 DEF Price
  <2>3. CalcTyped'
    BY <2>1, <2>2 DEF Return, CalcTyped
  <2>4. InTurn'
    BY <2>1, <2>2 DEF Return, InTurn, TokenAsked, CalcTyped
  <2> QED BY <2>2, <2>3, <2>4 DEF Confident
<1> QED BY <1>1, <1>2, <1>3, <1>4, <1>5, <1>6, <1>7 DEF Calculate

\* A change of a pair is noted for every call that is under way.
LEMMA ChangeStep ==
  ASSUME CalcInv, NEW p \in Pairs, NEW v \in Versions[p], Change(p, v)
  PROVE  CalcTyped' /\ InTurn' /\ BasesOnce' /\ BasesNow' /\ Confident'
<1>1. /\ UNCHANGED calculation
      /\ changed' = [f \in Finders |-> changed[f] \/ cpc[f] # "idle"]
  BY DEF Change
<1>2. CalcTyped'
  BY <1>1 DEF calculation, CalcInv, CalcTyped
<1>3. InTurn'
  BY <1>1 DEF calculation, CalcInv, InTurn
<1>4. BasesNow'
  BY <1>1 DEF calculation, BasesNow, BasesAt
<1> QED BY <1>1, <1>2, <1>3, <1>4 DEF calculation, CalcInv, BasesOnce, Confident

LEMMA CalcInit == PricingInit => CalcInv
<1> SUFFICES ASSUME PricingInit PROVE CalcInv
  OBVIOUS
<1>1. <<>> \in Seq(PathRecs)
  OBVIOUS
<1>2. CalcTyped
  BY <1>1 DEF PricingInit, CalcTyped
<1>3. InTurn
  <2>1. 0 <= 2 * TopPairs
    BY PricingAssumption
  <2> QED BY <2>1 DEF PricingInit, InTurn
<1>4. BasesOnce /\ BasesNow /\ Confident
  BY DEF PricingInit, BasesOnce, BasesNow, BasesAt, Confident
<1> QED BY <1>2, <1>3, <1>4, AskInit DEF CalcInv

LEMMA CalcNext == CalcInv /\ [PricingNext]_<<vars, calculation, changed>> => CalcInv'
<1> SUFFICES ASSUME CalcInv, [PricingNext]_<<vars, calculation, changed>> PROVE CalcInv'
  OBVIOUS
<1>1. AskInv'
  BY AskNext DEF CalcInv
<1>2. CalcTyped' /\ InTurn' /\ BasesOnce' /\ BasesNow' /\ Confident'
  <2>1. CASE UNCHANGED <<vars, calculation, changed>>
    <3>1. \A f \in Finders : BasesAt(f)'
      BY <2>1, BasesFrame DEF vars, calculation, CalcInv, BasesNow
    <3> QED BY <2>1, <3>1 DEF calculation, CalcInv, CalcTyped, InTurn, BasesOnce, BasesNow, Confident
  <2>2. CASE PricingNext
    BY <2>2, BasesStep, PathsStep, ChangeStep DEF PricingNext
  <2> QED BY <2>1, <2>2
<1> QED BY <1>1, <1>2 DEF CalcInv

LEMMA CalcInvariant == PricingSpec => []CalcInv
  BY CalcInit, CalcNext, PTL DEF PricingSpec

-----------------------------------------------------------------------------
(***************************************************************************)
(* The paths of a call and the prices along them.                          *)
(***************************************************************************)

\* A call that looks for a path looks for one to its next target.
Asking ==
    \A f \in Finders : cpc[f] = "finding" => query[f] = <<token[f], Head(targets[f])>>

\* The paths it has kept are linked, unless pairs changed while one was sought.
SurePaths ==
    \A f \in Finders : \A n \in DOMAIN paths[f] :
        paths[f][n].sure => Linked(<<token[f], paths[f][n].to>>, paths[f][n].path)

SureInv == CalcInv /\ LinkInv /\ Asking /\ SurePaths

-----------------------------------------------------------------------------
\* A path that is received is linked if it is sure.
LEMMA SureReceived ==
  ASSUME SureInv, NEW f \in Finders, NEW path, NEW sure, Receive(f, path, sure),
         targets[f] # <<>>, UNCHANGED token,
         sure => Linked(<<token[f], Head(targets[f])>>, path)
  PROVE  SurePaths'
<1> DEFINE r == [path |-> path, to |-> Head(targets[f]), sure |-> sure]
<1>1. paths \in [Finders -> Seq(PathRecs)]
  BY DEF SureInv, CalcInv, CalcTyped
<1>2. CASE paths' = [paths EXCEPT ![f] = Append(@, r)]
  <2>1. paths'[f] = Append(paths[f], r) /\ \A g \in Finders \ {f} : paths'[g] = paths[g]
    BY <1>1, <1>2
  <2>2. r.sure => Linked(<<token[f], r.to>>, r.path)
    OBVIOUS
  <2> HIDE DEF r
  <2>3. \A n \in DOMAIN Append(paths[f], r) :
            \/ Append(paths[f], r)[n] = r
            \/ n \in DOMAIN paths[f] /\ Append(paths[f], r)[n] = paths[f][n]
    BY <1>1
  <2>4. ASSUME NEW g \in Finders, NEW n \in DOMAIN paths'[g], paths'[g][n].sure
        PROVE  Linked(<<token[g], paths'[g][n].to>>, paths'[g][n].path)
    <3>1. CASE g = f
      <4>1. paths'[f][n] = r \/ (n \in DOMAIN paths[f] /\ paths'[f][n] = paths[f][n])
        BY <2>1, <2>3, <2>4, <3>1
      <4> QED BY <2>2, <2>4, <3>1, <4>1 DEF SureInv, SurePaths
    <3>2. CASE g # f
      BY <2>1, <2>4, <3>2 DEF SureInv, SurePaths
    <3> QED BY <3>1, <3>2
  <2> QED BY <2>4 DEF SurePaths
<1>3. CASE paths' = paths
  BY <1>3 DEF SureInv, SurePaths
<1> QED BY <1>2, <1>3 DEF Receive

LEMMA SureStep ==
  ASSUME SureInv, NEW f \in Finders, Calculate(f)
  PROVE  Asking' /\ SurePaths'
<1>1. CalcInv /\ AskInv /\ TokenAsked /\ TargetsTyped /\ InTurn /\ CalcTyped /\ LinkInv
      /\ IInv /\ Shapes /\ Asking /\ SurePaths
  BY DEF SureInv, CalcInv, AskInv, IInv
<1>2. CASE GetUSDPrice(f)
  <2>1. /\ UNCHANGED <<targets, paths, query>> /\ cpc' = [cpc EXCEPT ![f] = "bases"]
        /\ paths[f] = <<>> /\ \A g \in Finders \ {f} : token'[g] = token[g]
    BY <1>1, <1>2 DEF GetUSDPrice, InTurn, TokenAsked, search
  <2>2. Asking'
    BY <1>1, <2>1 DEF Asking, TokenAsked
  <2>3. SurePaths'
    BY <1>1, <2>1 DEF SurePaths
  <2> QED BY <2>2, <2>3
<1>3. CASE BasePairs(f)
  BY <1>1, <1>3 DEF BasePairs, Asking, SurePaths, search
<1>4. CASE Rank(f)
  <2>1. /\ UNCHANGED <<token, paths, query>> /\ cpc[f] = "bases"
        /\ \A g \in Finders \ {f} : targets'[g] = targets[g] /\ cpc'[g] = cpc[g]
        /\ cpc'[f] # "finding"
    BY <1>1, <1>4 DEF Rank, Return, TargetsTyped, TokenAsked, search
  <2> QED BY <1>1, <2>1 DEF Asking, SurePaths
<1>5. CASE PathAtOnce(f) \/ PathFound(f)
  <2>1. /\ targets[f] # <<>> /\ UNCHANGED token /\ cpc'[f] = "paths"
        /\ \A g \in Finders \ {f} : targets'[g] = targets[g] /\ cpc'[g] = cpc[g] /\ query'[g] = query[g]
    BY <1>1, <1>5 DEF PathAtOnce, PathFound, Receive, TargetsTyped, TokenAsked, Store, search, Shapes
  <2>2. Asking'
    BY <1>1, <2>1 DEF Asking
  <2>3. CASE PathAtOnce(f)
    <3> DEFINE q == <<token[f], Head(targets[f])>>
    <3>1. CASE Receive(f, NoPath, TRUE)
      <4>1. paths' = paths
        BY <3>1 DEF Receive
      <4> QED BY <1>1, <2>1, <2>2, <4>1 DEF SurePaths
    <3>2. CASE q \in DOMAIN pathCache /\ Receive(f, pathCache[q], q \notin doubtful)
      <4>1. q \notin doubtful => Linked(q, pathCache[q])
        BY <1>1, <3>2 DEF LinkInv, Certain
      <4>2. SurePaths'
        BY <2>1, <3>2, <4>1, SureReceived
      <4> QED BY <2>2, <4>2
    <3> QED BY <2>3, <3>1, <3>2 DEF PathAtOnce
  <2>4. CASE PathFound(f)
    <3>1. Receive(f, found[f], ~overlapped[f]) /\ cpc[f] = "finding" /\ pc[f] = "store"
      BY <2>4 DEF PathFound, Store
    <3>2. ~overlapped[f] => Linked(<<token[f], Head(targets[f])>>, found[f])
      BY <1>1, <3>1 DEF LinkInv, Tied, Asking
    <3>3. SurePaths'
      BY <2>1, <3>1, <3>2, SureReceived
    <3> QED BY <2>2, <3>3
  <2> QED BY <1>5, <2>3, <2>4
<1>6. CASE AskPath(f)
  <2>1. /\ UNCHANGED <<token, targets, paths>>
        /\ query' = [query EXCEPT ![f] = <<token[f], Head(targets[f])>>]
        /\ cpc' = [cpc EXCEPT ![f] = "finding"]
    BY <1>6 DEF AskPath, Lookup
  <2> QED BY <1>1, <2>1 DEF Asking, SurePaths, Shapes, TokenAsked
<1>7. CASE FindingPath(f)
  <2>1. UNCHANGED <<cpc, token, targets, paths, query>>
    BY <1>7 DEF FindingPath, calculation, Direct, WethDirect, FirstLegs, SecondLeg, Expand, NotFound
  <2> QED BY <1>1, <2>1 DEF Asking, SurePaths
<1>8. CASE Price(f)
  BY <1>1, <1>8 DEF Price, Return, Asking, SurePaths, search, TokenAsked
<1> QED BY <1>2, <1>3, <1>4, <1>5, <1>6, <1>7, <1>8 DEF Calculate

LEMMA SureInvariant == PricingSpec => []SureInv
<1> DEFINE Held == Asking /\ SurePaths
<1>1. PricingInit => Held
  BY DEF PricingInit, Asking, SurePaths
<1>2. CalcInv /\ LinkInv /\ Held /\ [PricingNext]_<<vars, calculation, changed>> => Held'
  <2> SUFFICES ASSUME SureInv, [PricingNext]_<<vars, calculation, changed>> PROVE Held'
    BY DEF SureInv
  <2>1. CASE UNCHANGED <<calculation, query>>
    BY <2>1 DEF calculation, SureInv, Asking, SurePaths
  <2>2. ASSUME NEW p \in Pairs, NEW v \in Versions[p], Change(p, v) PROVE Held'
    <3>1. UNCHANGED <<calculation, query>>
      BY <2>2 DEF Change, AddPair
    <3> QED BY <2>1, <3>1
  <2>3. CASE UNCHANGED <<vars, calculation, changed>>
    BY <2>1, <2>3 DEF vars, search
  <2> QED BY <2>2, <2>3, SureStep DEF PricingNext
<1>3. CalcInv /\ LinkInv /\ Held => SureInv
  BY DEF SureInv
<1> HIDE DEF Held
<1> QED
  BY <1>1, <1>2, <1>3, CalcInvariant, LinkInvariant, CalculatorUsesGraph, PTL DEF PricingSpec

\* What Walk defines exists: the tokens from the Token0 of the first edge on.
LEMMA WalkExists ==
  ASSUME NEW path \in Seq(Edges), path # <<>>
  PROVE  \E g \in [0..Len(path) -> Tokens] : \A n \in 0..Len(path) :
            g[n] = IF n = 0 THEN Ends[path[1].pair][1] ELSE Other(path[n].pair, g[n - 1])
<1> DEFINE L       == Len(path)
           first   == Ends[path[1].pair][1]
           Upto(m) == \E g \in [0..m -> Tokens] : \A n \in 0..m :
                          g[n] = IF n = 0 THEN first ELSE Other(path[n].pair, g[n - 1])
           S       == {m \in 0..L : ~Upto(m)}
<1>1. L \in Nat /\ 1 \in DOMAIN path /\ \A n \in 1..L : path[n].pair \in Pairs
  BY DEF Edges
<1>2. first \in Tokens
  BY <1>1, GraphAssumption
<1> HIDE DEF first, L
<1>3. Upto(0)
  <2> DEFINE g == [n \in 0..0 |-> first]
  <2>1. g \in [0..0 -> Tokens] /\ \A n \in 0..0 : n = 0 /\ g[n] = first
    BY <1>2
  <2> HIDE DEF g
  <2> QED BY <2>1
<1>4. ASSUME NEW m \in 1..L, Upto(m - 1) PROVE Upto(m)
  <2>1. PICK g \in [0..m - 1 -> Tokens] : \A n \in 0..m - 1 :
            g[n] = IF n = 0 THEN first ELSE Other(path[n].pair, g[n - 1])
    BY <1>4
  <2> DEFINE h == [n \in 0..m |-> IF n = m THEN Other(path[m].pair, g[m - 1]) ELSE g[n]]
  <2>2. \A n \in 0..m : n # m => n \in 0..m - 1
    BY <1>1
  <2>3. Other(path[m].pair, g[m - 1]) \in Tokens
    BY <1>1, OtherType
  <2>4. h \in [0..m -> Tokens]
    BY <2>2, <2>3
  <2>5. ASSUME NEW n \in 0..m
        PROVE  h[n] = IF n = 0 THEN first ELSE Other(path[n].pair, h[n - 1])
    <3>1. CASE n = m
      <4>1. m # 0 /\ m - 1 \in 0..m /\ m - 1 # m /\ h[m - 1] = g[m - 1]
        BY <1>1
      <4> QED BY <3>1, <4>1
    <3>2. CASE n # m
      <4>1. n \in 0..m - 1 /\ h[n] = g[n]
        BY <2>2, <3>2
      <4>2. n # 0 => n - 1 \in 0..m /\ n - 1 # m /\ h[n - 1] = g[n - 1]
        BY <1>1, <4>1
      <4> HIDE DEF h
      <4> QED BY <2>1, <4>1, <4>2
    <3> QED BY <3>1, <3>2
  <2> HIDE DEF h
  <2> QED BY <2>4, <2>5
<1> HIDE DEF Upto
<1>5. S = {}
  <2> SUFFICES ASSUME S # {} PROVE FALSE
    OBVIOUS
  <2>1. PICK m \in S : \A y \in S : m <= y
    <3>1. S \subseteq Nat
      BY <1>1
    <3> HIDE DEF S
    <3> QED BY <3>1, LeastIndex
  <2>2. m # 0
    BY <1>3, <2>1
  <2>3. m \in 1..L /\ m - 1 \in 0..L /\ m - 1 \notin S
    BY <1>1, <2>1, <2>2
  <2> QED BY <1>4, <2>1, <2>3
<1>6. Upto(L)
  BY <1>1, <1>5
<1> QED BY <1>6 DEF Upto, L, first

\* Walk is what its recursion says.
LEMMA WalkIs ==
  ASSUME NEW path \in Seq(Edges), path # <<>>
  PROVE  \A n \in 0..Len(path) : Walk(path)[n] =
            IF n = 0 THEN Ends[path[1].pair][1] ELSE Other(path[n].pair, Walk(path)[n - 1])
<1> DEFINE L       == Len(path)
           at(r, n) == IF n = 0 THEN Ends[path[1].pair][1] ELSE Other(path[n].pair, r[n - 1])
<1>1. PICK g \in [0..L -> Tokens] : \A n \in 0..L : g[n] = at(g, n)
  BY WalkExists
<1>2. g = [n \in 0..L |-> at(g, n)]
  <2> HIDE DEF at
  <2> QED BY <1>1
<1>3. Walk(path) = [n \in 0..L |-> at(Walk(path), n)]
  BY <1>2, Zenon DEF Walk
<1> DEFINE r == Walk(path)
<1>4. \A n \in 0..L : r[n] = at(r, n)
  <2> HIDE DEF at, r
  <2>1. r = [n \in 0..L |-> at(r, n)]
    BY <1>3 DEF r
  <2> QED BY <2>1, Zenon
<1> QED BY <1>4

\* The path leads from token to token along w.
Along(path, w) ==
    /\ w \in [0..Len(path) -> Tokens]
    /\ w[0] = Ends[path[1].pair][1]
    /\ \A n \in 1..Len(path) : w[n - 1] # w[n] /\ EndsOf(path[n].pair) = {w[n - 1], w[n]}

\* If it does, Walk goes that way, and no edge lacks the token reached.
LEMMA WalkAlong ==
  ASSUME NEW path \in Seq(Edges), path # <<>>, NEW w, Along(path, w)
  PROVE  (\A n \in 0..Len(path) : Walk(path)[n] = w[n]) /\ Priced(path)
<1> DEFINE L == Len(path)
           S == {n \in 0..L : Walk(path)[n] # w[n]}
<1>1. L \in Nat /\ DOMAIN path = 1..L /\ \A n \in 1..L : path[n].pair \in Pairs
  BY DEF Edges
<1>2. S = {}
  <2> SUFFICES ASSUME S # {} PROVE FALSE
    OBVIOUS
  <2>1. PICK m \in S : \A y \in S : m <= y
    <3>1. S \subseteq Nat
      BY <1>1
    <3> HIDE DEF S
    <3> QED BY <3>1, LeastIndex
  <2>2. m # 0
    BY <2>1, WalkIs DEF Along
  <2>3. m \in 1..L /\ m - 1 \in 0..L /\ m - 1 \notin S
    BY <1>1, <2>1, <2>2
  <2>4. Walk(path)[m] = Other(path[m].pair, w[m - 1])
    BY <2>1, <2>2, <2>3, WalkIs
  <2>5. Other(path[m].pair, w[m - 1]) = w[m]
    BY <1>1, <2>3 DEF Along, Other, EndsOf
  <2> QED BY <2>1, <2>4, <2>5
<1>3. \A n \in 0..L : Walk(path)[n] = w[n]
  BY <1>2
<1>4. ASSUME NEW n \in 1..L PROVE n - 1 \in 0..L /\ w[n - 1] \in EndsOf(path[n].pair)
  <2>1. EndsOf(path[n].pair) = {w[n - 1], w[n]}
    BY Zenon DEF Along
  <2>2. w[n - 1] \in EndsOf(path[n].pair)
    BY <2>1
  <2> HIDE DEF L
  <2> QED BY <1>1, <2>2
<1> QED BY <1>1, <1>3, <1>4 DEF Priced

\* If all pairs agree on what tokens are worth, the price along such a way is
\* what the first token is worth in the last one.
LEMMA PriceAlong ==
  ASSUME NEW path \in Seq(Edges), path # <<>>, NEW w, Along(path, w), Agreed
  PROVE  CalculatePrice(path) = Worth[w[0]] - Worth[w[Len(path)]]
<1> DEFINE L        == Len(path)
           at(r, n) == IF n = 0 THEN 0 ELSE r[n - 1] + PriceInPair(path[n], Walk(path)[n - 1])
           g        == [n \in 0..L |-> Worth[w[0]] - Worth[w[n]]]
<1>1. L \in Nat /\ DOMAIN path = 1..L
      /\ \A n \in 1..L : path[n] \in Edges /\ path[n].pair \in Pairs
  BY DEF Edges
<1>2. \A n \in 0..L : w[n] \in Tokens /\ Worth[w[n]] \in Int /\ Walk(path)[n] = w[n]
  <2>1. \A n \in 0..L : Walk(path)[n] = w[n]
    BY WalkAlong
  <2> QED BY <2>1, PricingAssumption DEF Along
<1>3. ASSUME NEW n \in 1..L
      PROVE  PriceInPair(path[n], Walk(path)[n - 1]) = Worth[w[n - 1]] - Worth[w[n]]
  <2> DEFINE p == path[n].pair
             x == w[n - 1]
             y == w[n]
  <2>1. p \in Pairs /\ x # y /\ {Ends[p][1], Ends[p][2]} = {x, y} /\ Walk(path)[n - 1] = x
        /\ Worth[x] \in Int /\ Worth[y] \in Int
    <3>1. n - 1 \in 0..L /\ n \in 0..L
      BY <1>1
    <3> QED BY <1>1, <1>2, <3>1 DEF Along, EndsOf
  <2>2. Ratio(path[n]) = Worth[Ends[p][1]] - Worth[Ends[p][2]]
    BY <1>1 DEF Agreed
  <2> HIDE DEF p, x, y
  <2>3. CASE Ends[p][1] = x
    <3>1. Ends[p][2] = y
      BY <2>1, <2>3
    <3>2. PriceInPair(path[n], x) = Ratio(path[n])
      BY <2>3 DEF PriceInPair, p
    <3> QED BY <2>1, <2>2, <2>3, <3>1, <3>2 DEF x, y
  <2>4. CASE Ends[p][1] # x
    <3>1. Ends[p][2] = x /\ Ends[p][1] = y
      BY <2>1, <2>4
    <3>2. PriceInPair(path[n], x) = -Ratio(path[n])
      BY <2>4 DEF PriceInPair, p
    <3>3. -(Worth[y] - Worth[x]) = Worth[x] - Worth[y]
      BY <2>1
    <3>4. PriceInPair(path[n], x) = Worth[x] - Worth[y]
      BY <2>2, <3>1, <3>2, <3>3
    <3> QED BY <2>1, <3>4 DEF x, y
  <2> QED BY <2>3, <2>4
<1> DEFINE v(n) == Worth[w[0]] - Worth[w[n]]
<1>4. ASSUME NEW n \in 0..L, NEW r, n # 0 => r[n - 1] = v(n - 1) PROVE at(r, n) = v(n)
  <2>1. CASE n = 0
    BY <1>2, <2>1
  <2>2. CASE n # 0
    <3>1. n \in 1..L /\ n - 1 \in 0..L /\ 0 \in 0..L
      BY <1>1, <2>2
    <3>2. r[n - 1] = Worth[w[0]] - Worth[w[n - 1]]
      BY <1>4, <2>2
    <3>3. at(r, n) = r[n - 1] + (Worth[w[n - 1]] - Worth[w[n]])
      BY <1>3, <2>2, <3>1
    <3> QED BY <1>2, <3>1, <3>2, <3>3
  <2> QED BY <2>1, <2>2
<1>5. \A n \in 0..L : n # 0 => n - 1 \in 0..L
  BY <1>1
<1> HIDE DEF at, v
<1>6. g = [n \in 0..L |-> at(g, n)]
  <2>1. \A n \in 0..L : g[n] = v(n)
    BY DEF v
  <2>2. \A n \in 0..L : g[n] = at(g, n)
    <3> HIDE DEF g
    <3> QED BY <1>4, <1>5, <2>1
  <2> QED BY <2>2
<1>7. PICK r : CalculatePrice(path) = r[L] /\ r = [n \in 0..L |-> at(r, n)]
  <2> HIDE DEF g
  <2> USE DEF at
  <2> QED BY <1>6, Zenon DEF CalculatePrice
<1>8. \A n \in 0..L : r[n] = at(r, n)
  BY <1>7, Zenon
<1> DEFINE S == {n \in 0..L : r[n] # v(n)}
<1>9. S = {}
  <2> SUFFICES ASSUME S # {} PROVE FALSE
    OBVIOUS
  <2>1. PICK m \in S : \A y \in S : m <= y
    <3>1. S \subseteq Nat
      BY <1>1
    <3> HIDE DEF S
    <3> QED BY <3>1, LeastIndex
  <2>2. m # 0 => m - 1 \in 0..L /\ m - 1 \notin S
    BY <1>1, <2>1
  <2>3. m # 0 => r[m - 1] = v(m - 1)
    BY <2>2
  <2> QED BY <1>4, <1>8, <2>1, <2>3
<1>10. r[L] = v(L)
  BY <1>1, <1>9
<1> QED BY <1>7, <1>10 DEF v

-----------------------------------------------------------------------------
\* Every variable of the calculator has its type, and it looks at no more than
\* TopPairs pairs.
THEOREM PricesTypeCorrect == PricingSpec => []PricingTypeOK
<1>1. CalcInv => PricingTypeOK
  <2> SUFFICES ASSUME CalcInv PROVE PricingTypeOK
    OBVIOUS
  <2>1. TokenAsked /\ BasesFinite /\ TargetsTyped /\ CalcTyped /\ InTurn
    BY DEF CalcInv, AskInv
  <2>2. ASSUME NEW f \in Finders
        PROVE  /\ left[f] \subseteq stable[f] /\ stable[f] \subseteq Tokens
               /\ bases[f] \subseteq Edges /\ targets[f] \in Seq(Tokens)
               /\ Len(targets[f]) + Len(paths[f]) <= 2 * TopPairs
    BY <2>1 DEF BasesFinite, TargetsTyped, CalcTyped, InTurn
  <2>3. ASSUME NEW f \in Finders, NEW n \in DOMAIN paths[f]
        PROVE  paths[f][n].path \in Seq(Edges) \ {<<>>}
    <3>1. paths[f] \in Seq(PathRecs)
      BY <2>1 DEF CalcTyped
    <3>2. paths[f][n] \in PathRecs
      BY <3>1
    <3> QED BY <3>2 DEF PathRecs
  <2> QED BY <2>1, <2>2, <2>3 DEF TokenAsked, CalcTyped, PricingTypeOK
<1> QED BY <1>1, CalcInvariant, PTL

\* No path has more confidence than its weakest edge leaves it, none that is
\* averaged has less than the least, and none has more than 1.
THEOREM ConfidenceIsSound == PricingSpec => []ConfidenceSound
<1>1. CalcInv => ConfidenceSound
  <2> SUFFICES ASSUME CalcInv, NEW f \in Finders, NEW n \in DOMAIN paths[f]
               PROVE  LET path == paths[f][n].path IN
                      /\ PathConfidence(path) > Threshold /\ PathConfidence(path) <= 100 * Full
                      /\ \A m \in DOMAIN path : PathConfidence(path) <= 100 * Confidence(path[m])
    BY DEF ConfidenceSound
  <2>1. paths[f][n] \in PathRecs
    BY DEF CalcInv, CalcTyped
  <2>2. paths[f][n].path \in Seq(Edges) /\ paths[f][n].path # <<>>
    BY <2>1 DEF PathRecs
  <2>3. PathConfidence(paths[f][n].path) > Threshold
    BY DEF CalcInv, Confident
  <2> QED BY <2>2, <2>3, PathConfidenceBounds
<1> QED BY <1>1, CalcInvariant, PTL

\* Unless a pair changes meanwhile, the base pairs are the graph's pairs between
\* stable tokens, and IsStablePair agrees with the other copy of its test.
THEOREM BasesAreStable == PricingSpec => []BasesStable
<1>1. ASSUME IInv, NEW t \in FindStableTokens
      PROVE  \E u \in Tokens : IsStablePair(t, u) /\ IsStablePair(u, t)
  <2>1. PICK n \in DOMAIN edges[t] : StableEdge(Edge(edges[t][n]))
    BY <1>1 DEF FindStableTokens
  <2> DEFINE p == edges[t][n]
             u == Other(p, t)
  <2>2. t \in Tokens /\ edges \in [Tokens -> Seq(Pairs)]
    BY <1>1 DEF FindStableTokens, IInv, Shapes
  <2>3. /\ p \in Pairs /\ Known(p) /\ u \in Tokens /\ EndsOf(p) = {t, u}
    BY <1>1, <2>2, ListType, OtherIsAdjacent DEF IInv
  <2>4. PICK m \in DOMAIN edges[u] : edges[u][m] = p
    BY <1>1, <2>3 DEF IInv, Listed, Listing
  <2> HIDE DEF p, u
  <2>5. ASSUME NEW x \in Tokens, NEW y \in Tokens, EndsOf(p) = {x, y},
               NEW i \in DOMAIN edges[x], edges[x][i] = p
        PROVE  IsStablePair(x, y)
    <3> DEFINE set == {q \in Pairs : EndsOf(q) = {x, y}}
    <3>1. p \in set /\ \A q \in set : q = p
      BY <2>3, <2>5, OnePairAssumption
    <3> HIDE DEF set
    <3>2. First(edges[x], set) # {}
      BY <2>2, <2>5, <3>1, FirstFinds
    <3>3. PICK q \in First(edges[x], set) : q \in set
      BY <3>2 DEF First
    <3>4. q = p /\ StableEdge(Edge(p))
      BY <2>1, <3>1, <3>3 DEF p
    <3> QED BY <3>3, <3>4 DEF IsStablePair, set
  <2>6. IsStablePair(t, u)
    BY <2>2, <2>3, <2>5 DEF p
  <2>7. IsStablePair(u, t)
    BY <2>2, <2>3, <2>4, <2>5
  <2> QED BY <2>3, <2>6, <2>7
<1>2. CalcInv => BasesStable
  <2> SUFFICES ASSUME CalcInv, NEW f \in Finders
               PROVE  /\ \A a, b \in bases[f] : a.pair = b.pair => a = b
                      /\ ~changed[f] /\ cpc[f] # "idle" =>
                            \A b \in bases[f] : \A t \in EndsOf(b.pair) :
                                \E u \in Tokens : IsStablePair(t, u) /\ IsStablePair(u, t)
                      /\ ~changed[f] /\ cpc[f] = "bases" /\ left[f] = {} =>
                            \A p \in Pairs : Known(p) /\ EndsOf(p) \subseteq stable[f]
                                                => Edge(p) \in bases[f]
    BY DEF BasesStable
  <2>1. \A a, b \in bases[f] : a.pair = b.pair => a = b
    BY DEF CalcInv, BasesOnce
  <2>2. ASSUME ~changed[f], cpc[f] # "idle", NEW b \in bases[f], NEW t \in EndsOf(b.pair)
        PROVE  \E u \in Tokens : IsStablePair(t, u) /\ IsStablePair(u, t)
    <3>1. t \in FindStableTokens
      BY <2>2 DEF CalcInv, BasesNow, BasesAt
    <3> QED BY <1>1, <3>1 DEF CalcInv, AskInv
  <2>3. ASSUME ~changed[f], cpc[f] = "bases", left[f] = {},
               NEW p \in Pairs, Known(p), EndsOf(p) \subseteq stable[f]
        PROVE  Edge(p) \in bases[f]
    <3>1. ~(EndsOf(p) \subseteq left[f])
      BY <2>3 DEF EndsOf
    <3> QED BY <2>3, <3>1 DEF CalcInv, BasesNow, BasesAt
  <2> QED BY <2>1, <2>2, <2>3
<1> QED BY <1>2, CalcInvariant, PTL

\* If all pairs agree, a price that enters the average along a path of up to four
\* pairs is the token's, unless the path is one pair of which the token is the
\* Token1; and a path that begins with the token does enter.
THEOREM PricesAreDirected == PricingSpec => []PriceDirected
<1>1. ASSUME SureInv, Agreed, NEW f \in Finders, NEW n \in Trusted(f)
      PROVE  LET path   == paths[f][n].path
                 begins == Ends[path[1].pair][1] = token[f]
             IN
             /\ begins => n \in Averaged(f)
             /\ n \in Averaged(f) /\ (begins \/ Len(path) > 1) =>
                   RightPrice(f, n) /\ Walk(path)[Len(path)] = paths[f][n].to
  <2> DEFINE path  == paths[f][n].path
             to    == paths[f][n].to
             t     == token[f]
             first == Ends[path[1].pair][1]
  <2>0. n \in DOMAIN paths[f] /\ paths[f][n].sure /\ Len(path) <= 4
    BY DEF Trusted
  <2>1. paths[f][n] \in PathRecs
    BY <1>1, <2>0 DEF SureInv, CalcInv, CalcTyped
  <2>2. path \in Seq(Edges) /\ path # <<>> /\ to \in Tokens
    BY <2>1 DEF PathRecs
  <2>3. Linked(<<t, to>>, path)
    BY <1>1, <2>0 DEF SureInv, SurePaths
  <2>4. n \in Averaged(f) <=> Priced(path)
    BY <2>0 DEF Averaged
  <2> HIDE DEF path, to, t
  <2>5. Len(path) \in 1..4 /\ DOMAIN path = 1..Len(path) /\ path[1].pair \in Pairs
    <3>1. Len(path) \in Nat \ {0} /\ DOMAIN path = 1..Len(path) /\ path[1].pair \in Pairs
      BY <2>2 DEF Edges
    <3> QED BY <2>0, <3>1
  <2>6. /\ t \in EndsOf(path[1].pair)
        /\ Len(path) >= 2 => t \notin EndsOf(path[2].pair)
        /\ Connects(path, t, to)
    BY <2>3, <2>5 DEF Linked, Begins
  <2>7. ASSUME first = t
        PROVE  Priced(path) /\ CalculatePrice(path) = Worth[t] - Worth[to]
               /\ Walk(path)[Len(path)] = to
    <3>1. PICK w \in [0..Len(path) -> Tokens] :
            /\ w[0] = t /\ w[Len(path)] = to
            /\ \A m \in 1..Len(path) : w[m - 1] # w[m] /\ EndsOf(path[m].pair) = {w[m - 1], w[m]}
      BY <2>6 DEF Connects
    <3>2. Along(path, w)
      BY <2>7, <3>1 DEF Along
    <3>3. Len(path) \in 0..Len(path)
      BY <2>5
    <3> QED BY <1>1, <2>2, <3>1, <3>2, <3>3, WalkAlong, PriceAlong
  \* The walk steps onto the token with the first pair, and stays there.
  <2>8. ASSUME first # t, Len(path) > 1 PROVE ~Priced(path)
    <3>1. Len(path) >= 2 /\ 0 \in 0..Len(path) /\ 1 \in 0..Len(path) /\ 2 \in DOMAIN path
      BY <2>5, <2>8
    <3>2. Walk(path)[0] = first
      BY <2>2, <3>1, WalkIs
    <3>3. Walk(path)[1] = Other(path[1].pair, first)
      BY <2>2, <3>1, <3>2, WalkIs
    <3>4. Ends[path[1].pair][2] = t
      BY <2>6, <2>8 DEF EndsOf
    <3>5. Walk(path)[1] = t
      BY <3>3, <3>4 DEF Other
    <3>6. 2 - 1 = 1
      OBVIOUS
    <3>7. Walk(path)[2 - 1] \notin EndsOf(path[2].pair)
      BY <2>6, <3>1, <3>5, <3>6
    <3> QED BY <3>1, <3>7 DEF Priced
  <2>9. /\ first = t => n \in Averaged(f)
        /\ n \in Averaged(f) /\ (first = t \/ Len(path) > 1) =>
              CalculatePrice(path) = Worth[t] - Worth[to] /\ Walk(path)[Len(path)] = to
    BY <2>4, <2>7, <2>8
  <2> QED BY <2>9 DEF path, to, t, RightPrice
<1>2. SureInv => PriceDirected
  <2> SUFFICES ASSUME SureInv PROVE PriceDirected
    OBVIOUS
  <2> QED BY <1>1 DEF PriceDirected
<1> QED BY <1>2, SureInvariant, PTL
=============================================================================
