-------------------------- MODULE PairGraph_proofs --------------------------
(* Cached paths are current, for every graph, any number of callers and any *)
(* number of changes of the pairs.                                          *)
EXTENDS PairGraph, FiniteSetTheorems, WellFoundedInduction, TLAPS

-----------------------------------------------------------------------------
(* The inductive invariant.                                                *)

Items == [token : Tokens, path : Seq(Edges), arr : Tokens]

Labels == {"idle", "direct", "weth", "legs", "second", "search", "store"}

\* What the proof needs of TypeOK.
Shapes ==
    /\ version \in [Pairs -> Nat] /\ \A p \in Pairs : version[p] \in {0} \cup Versions[p]
    /\ edges \in [Tokens -> Seq(Pairs)]
    /\ \A k \in DOMAIN pathCache : pathCache[k] \in Seq(Edges)
    /\ DOMAIN pathCache \subseteq Queries /\ doubtful \subseteq Queries
    /\ pc \in [Finders -> Labels]
    /\ query \in [Finders -> {<<>>} \cup Queries]
    /\ \A f \in Finders : IF pc[f] = "idle" THEN query[f] = <<>> ELSE query[f] \in Queries
    /\ legs \in [Finders -> Seq(Edges)]
    /\ queue \in [Finders -> Seq(Items)]
    /\ found \in [Finders -> Seq(Edges)]
    /\ overlapped \in [Finders -> BOOLEAN]

\* The pairs of a token that have been added are those in its list.
Listing(t) == {p \in Pairs : Known(p) /\ t \in EndsOf(p)}

Listed ==
    \A t \in Tokens :
        /\ IsFiniteSet(Listing(t)) /\ Len(edges[t]) = Cardinality(Listing(t))
        /\ \A p \in Pairs : (\E i \in DOMAIN edges[t] : edges[t][i] = p) <=> p \in Listing(t)

\* A call has first legs only while it looks for second ones, a queue only
\* while it searches and a path only when it is about to store it.
Resting ==
    \A f \in Finders :
        /\ pc[f] = "second" <=> legs[f] # <<>>
        /\ pc[f] # "search" => queue[f] = <<>>
        /\ pc[f] # "store" => found[f] = NoPath

Current(path) == \A i \in DOMAIN path : path[i] = Edge(path[i].pair)

\* What a call has read is current, unless a pair changed since it began.
ReadsCurrent ==
    \A f \in Finders : ~overlapped[f] =>
        /\ Current(legs[f]) /\ Current(found[f])
        /\ \A i \in DOMAIN queue[f] : Current(queue[f][i].path)

IInv == Shapes /\ Listed /\ Resting /\ ReadsCurrent /\ CachedCurrent

-----------------------------------------------------------------------------
(* Lemmas about the operators the model is built from.                     *)

\* The parts of a concatenation.
LEMMA ConcatType ==
    ASSUME NEW S, NEW a \in Seq(S), NEW b \in Seq(S)
    PROVE  /\ Len(a \o b) = Len(a) + Len(b) /\ DOMAIN (a \o b) = 1..Len(a) + Len(b)
           /\ \A i \in 1..Len(a) : (a \o b)[i] = a[i]
           /\ \A i \in 1..Len(b) : (a \o b)[Len(a) + i] = b[i]
<1>1. Len(a) \in Nat /\ Len(b) \in Nat
  OBVIOUS
<1>2. Len(a \o b) = Len(a) + Len(b)
  OBVIOUS
<1>3. a \o b \in Seq(S)
  OBVIOUS
<1>4. DOMAIN (a \o b) = 1..Len(a \o b)
  BY <1>3
<1>5. \A i \in 1..Len(a) : (a \o b)[i] = a[i]
  BY <1>1
<1>6. \A i \in 1..Len(b) : (a \o b)[Len(a) + i] = b[i]
  BY <1>1
<1> QED
  BY <1>2, <1>4, <1>5, <1>6

\* What is in a concatenation is in one of its parts.
LEMMA ConcatParts ==
    ASSUME NEW S, NEW a \in Seq(S), NEW b \in Seq(S), NEW i \in DOMAIN (a \o b)
    PROVE  \/ i \in DOMAIN a /\ (a \o b)[i] = a[i]
           \/ \E n \in DOMAIN b : (a \o b)[i] = b[n]
<1>1. /\ Len(a) \in Nat /\ Len(b) \in Nat /\ i \in 1..Len(a) + Len(b)
      /\ DOMAIN a = 1..Len(a) /\ DOMAIN b = 1..Len(b)
  BY ConcatType
<1>2. CASE i \in 1..Len(a)
  BY <1>1, <1>2, ConcatType
<1>3. CASE i \notin 1..Len(a)
  <2> DEFINE n == i - Len(a)
  <2>1. n \in 1..Len(b) /\ i = Len(a) + n
    BY <1>1, <1>3
  <2> HIDE DEF n
  <2>2. (a \o b)[i] = b[n]
    BY <2>1, ConcatType
  <2> QED
    BY <1>1, <2>1, <2>2
<1> QED
  BY <1>2, <1>3

\* The sequence of a set of indices consists of them.
LEMMA InOrderType ==
    ASSUME NEW n \in Nat, NEW s \in SUBSET (1..n), NEW o \in InOrder(s)
    PROVE  o \in Seq(s) /\ (Len(o) = Cardinality(s)) /\ Cardinality(s) \in Nat
<1>1. Cardinality(s) \in Nat
  <2>1. IsFiniteSet(1..n)
    BY FS_Interval
  <2>2. IsFiniteSet(s)
    BY <2>1, FS_Subset
  <2> QED
    BY <2>2, FS_CardinalityType
<1>2. o \in [1..Cardinality(s) -> s]
  BY DEF InOrder
<1> QED
  BY <1>1, <1>2

\* The tail of a sequence holds its elements from the second on.
LEMMA TailType ==
    ASSUME NEW S, NEW q \in Seq(S), q # <<>>
    PROVE  /\ Tail(q) \in Seq(S) /\ Len(Tail(q)) = Len(q) - 1
           /\ \A i \in DOMAIN Tail(q) : i + 1 \in DOMAIN q /\ Tail(q)[i] = q[i + 1]
<1>1. Tail(q) \in Seq(S) /\ Len(Tail(q)) = Len(q) - 1
  OBVIOUS
<1>2. ASSUME NEW i \in 1..Len(q) - 1 PROVE i + 1 \in DOMAIN q /\ Tail(q)[i] = q[i + 1]
  OBVIOUS
<1> QED
  BY <1>1, <1>2

\* The edge of a pair, as it is read, is current.
LEMMA EdgeType ==
    ASSUME Shapes, NEW p \in Pairs, Known(p)
    PROVE  Edge(p) \in Edges /\ Edge(p) = Edge(Edge(p).pair)
<1>1. version[p] \in Versions[p]
  BY DEF Shapes, Known
<1>2. Edge(p) \in [pair : {p}, version : Versions[p]]
  BY <1>1 DEF Edge
<1> QED
  BY <1>2 DEF Edge, Edges

\* A current path and an edge that was just read are a current path.
LEMMA AppendCurrent ==
    ASSUME Shapes, NEW path \in Seq(Edges), NEW p \in Pairs, Known(p)
    PROVE  /\ Append(path, Edge(p)) \in Seq(Edges) /\ Len(Append(path, Edge(p))) = Len(path) + 1
           /\ Current(path) => Current(Append(path, Edge(p)))
<1> DEFINE q == Append(path, Edge(p))
<1>1. Edge(p) \in Edges /\ Edge(p) = Edge(Edge(p).pair)
  BY EdgeType
<1>2. q \in Seq(Edges) /\ Len(q) = Len(path) + 1
  BY <1>1
<1>3. ASSUME Current(path), NEW i \in DOMAIN q PROVE q[i] = Edge(q[i].pair)
  <2>1. CASE i = Len(path) + 1
    <3>1. q[i] = Edge(p)
      BY <1>1, <2>1
    <3> HIDE DEF q
    <3> QED
      BY <3>1, <1>1
  <2>2. CASE i # Len(path) + 1
    <3>1. i \in DOMAIN path /\ q[i] = path[i]
      BY <1>1, <1>3, <2>2
    <3> HIDE DEF q
    <3> QED
      BY <3>1, <1>3 DEF Current
  <2> QED
    BY <2>1, <2>2
<1> QED
  BY <1>2, <1>3 DEF Current

\* The end of an item is a token.
LEMMA OtherType ==
    ASSUME NEW p \in Pairs, NEW t PROVE Other(p, t) \in Tokens
BY GraphAssumption DEF Other

\* The endpoints of a query are tokens.
LEMMA QueryType ==
    ASSUME Shapes, NEW f \in Finders, pc[f] # "idle"
    PROVE  From(f) \in Tokens /\ To(f) \in Tokens
BY GraphAssumption DEF Shapes, From, To

\* What is in the list of a token is known, and the token is one of its ends.
LEMMA ListType ==
    ASSUME Shapes, Listed, NEW t \in Tokens, NEW i \in DOMAIN edges[t]
    PROVE  edges[t][i] \in Pairs /\ Known(edges[t][i]) /\ t \in EndsOf(edges[t][i])
<1>1. edges[t][i] \in Pairs
  BY DEF Shapes
<1> QED
  BY <1>1 DEF Listed, Listing

\* The pair that is found in a list is in it.
LEMMA FirstType ==
    ASSUME Shapes, Listed, NEW t \in Tokens, NEW set, NEW p \in First(edges[t], set)
    PROVE  p \in Pairs /\ Known(p) /\ t \in EndsOf(p) /\ p \in set
BY ListType DEF First

\* The lists change only when pairs do.
LEMMA ListedFrame == ASSUME Listed, UNCHANGED graph PROVE Listed'
BY DEF Listed, Listing, Known, graph

\* A call whose path is found has read nothing else, and the path is current.
LEMMA FoundStep ==
    ASSUME IInv, NEW f \in Finders, UNCHANGED <<graph, cached, query, overlapped>>,
           NEW path \in Seq(Edges), Found(f, path),
           ~overlapped[f] => Current(path),
           legs' = [legs EXCEPT ![f] = <<>>], queue' = [queue EXCEPT ![f] = <<>>],
           pc[f] # "idle"
    PROVE  IInv'
<1>1. Shapes'
  BY DEF IInv, Shapes, Found, Goto, Labels, graph, cached
<1>2. Resting'
  BY DEF IInv, Shapes, Resting, Found, Goto, Labels
<1>3. ReadsCurrent'
  BY DEF IInv, Shapes, ReadsCurrent, Found, Goto, Current, Edge, graph
<1>4. CachedCurrent'
  BY DEF IInv, CachedCurrent, Certain, Edge, graph, cached
<1> QED
  BY <1>1, <1>2, <1>3, <1>4, ListedFrame DEF IInv

\* A search begins with the empty path.
LEMMA SearchStep ==
    ASSUME IInv, NEW f \in Finders, UNCHANGED <<graph, cached, query, overlapped, found>>,
           Search(f), legs' = [legs EXCEPT ![f] = <<>>],
           pc[f] \in Labels \ {"idle", "store"}
    PROVE  IInv'
<1>0. From(f) \in Tokens
  BY QueryType DEF IInv
<1>1. Shapes'
  <2>1. <<[token |-> From(f), path |-> <<>>, arr |-> From(f)]>> \in Seq(Items)
    BY <1>0 DEF Items
  <2> QED
    BY <2>1 DEF IInv, Shapes, Search, Goto, Labels, graph, cached
<1>2. Resting'
  BY DEF IInv, Shapes, Resting, Search, Goto, Labels
<1>3. ReadsCurrent'
  BY DEF IInv, Shapes, ReadsCurrent, Search, Goto, Current, Edge, graph
<1>4. CachedCurrent'
  BY DEF IInv, CachedCurrent, Certain, Edge, graph, cached
<1> QED
  BY <1>1, <1>2, <1>3, <1>4, ListedFrame DEF IInv

\* A call goes on and has read nothing yet.
LEMMA GotoStep ==
    ASSUME IInv, NEW f \in Finders, NEW label \in {"direct", "weth", "legs"}, Goto(f, label),
           pc[f] \notin {"second", "search", "store"},
           UNCHANGED <<graph, cached, legs, queue, overlapped, found>>,
           query' \in [Finders -> {<<>>} \cup Queries],
           query'[f] \in Queries, \A g \in Finders \ {f} : query'[g] = query[g]
    PROVE  IInv'
<1>1. Shapes'
  BY DEF IInv, Shapes, Goto, Labels, graph, cached
<1>2. Resting'
  BY DEF IInv, Shapes, Resting, Goto, Labels
<1>3. ReadsCurrent'
  <2> SUFFICES ASSUME NEW g \in Finders, ~overlapped'[g]
               PROVE  /\ Current(legs[g])' /\ Current(found[g])'
                      /\ \A i \in DOMAIN queue'[g] : Current(queue[g][i].path)'
    BY DEF ReadsCurrent
  <2>1. Current(legs[g])'
    BY DEF IInv, ReadsCurrent, Current, Edge, graph
  <2>2. Current(found[g])'
    BY DEF IInv, ReadsCurrent, Current, Edge, graph
  <2>3. ASSUME NEW i \in DOMAIN queue'[g] PROVE Current(queue[g][i].path)'
    BY <2>3 DEF IInv, ReadsCurrent, Current, Edge, graph
  <2> QED
    BY <2>1, <2>2, <2>3
<1>4. CachedCurrent'
  BY DEF IInv, CachedCurrent, Certain, Edge, graph, cached
<1> QED
  BY <1>1, <1>2, <1>3, <1>4, ListedFrame DEF IInv

-----------------------------------------------------------------------------
(* The steps.                                                              *)

\* A pair that is added is appended to the lists of both its ends.
LEMMA ListedStep ==
    ASSUME Shapes, Listed, NEW p \in Pairs, NEW v \in Versions[p], AddPair(p, v)
    PROVE  Listed'
<1>0. v # 0 /\ version' = [version EXCEPT ![p] = v]
  BY GraphAssumption DEF AddPair
<1> SUFFICES ASSUME NEW t \in Tokens
             PROVE  /\ IsFiniteSet(Listing(t))' /\ Len(edges'[t]) = Cardinality(Listing(t)')
                    /\ \A r \in Pairs : (\E i \in DOMAIN edges'[t] : edges'[t][i] = r) <=> r \in Listing(t)'
  BY DEF Listed
<1>1. \A r \in Pairs : Known(r)' <=> Known(r) \/ r = p
  BY <1>0 DEF Known, Shapes
<1>2. /\ edges[t] \in Seq(Pairs) /\ IsFiniteSet(Listing(t)) /\ Len(edges[t]) = Cardinality(Listing(t))
      /\ \A r \in Pairs : (\E i \in DOMAIN edges[t] : edges[t][i] = r) <=> r \in Listing(t)
  BY DEF Shapes, Listed
<1>3. CASE Known(p) \/ t \notin EndsOf(p)
  <2>1. edges'[t] = edges[t]
    BY <1>3 DEF AddPair, Known
  <2>2. Listing(t)' = Listing(t)
    BY <1>1, <1>3 DEF Listing
  <2> QED
    BY <1>2, <2>1, <2>2
<1>4. CASE ~Known(p) /\ t \in EndsOf(p)
  <2> DEFINE new == Append(edges[t], p)
  <2>1. edges'[t] = new
    BY <1>4 DEF AddPair, Known
  <2>2. Listing(t)' = Listing(t) \cup {p} /\ p \notin Listing(t)
    BY <1>1, <1>4 DEF Listing
  <2>3. IsFiniteSet(Listing(t)') /\ Cardinality(Listing(t)') = Cardinality(Listing(t)) + 1
    BY <1>2, <2>2, FS_AddElement
  <2>4. Len(new) = Len(edges[t]) + 1
    BY <1>2
  <2>5. ASSUME NEW r \in Pairs
        PROVE  (\E i \in DOMAIN new : new[i] = r) <=> (\E i \in DOMAIN edges[t] : edges[t][i] = r) \/ r = p
    <3> DEFINE n == Len(edges[t])
    <3>1. n \in Nat /\ DOMAIN edges[t] = 1..n /\ DOMAIN new = 1..n + 1
      BY <1>2
    <3>2. new[n + 1] = p /\ \A i \in 1..n : new[i] = edges[t][i]
      BY <1>2
    <3> HIDE DEF n, new
    <3>3. \A i \in 1..n + 1 : i = n + 1 \/ i \in 1..n
      BY <3>1
    <3>4. n + 1 \in 1..n + 1 /\ \A i \in 1..n : i \in 1..n + 1
      BY <3>1
    <3> QED
      BY <3>1, <3>2, <3>3, <3>4, Zenon
  <2> HIDE DEF new
  <2> QED
    BY <1>2, <2>1, <2>2, <2>3, <2>4, <2>5
<1> QED
  BY <1>3, <1>4

\* A change of a pair removes the cached paths with one of its edges.
LEMMA AddPairStep ==
    ASSUME IInv, NEW p \in Pairs, NEW v \in Versions[p], AddPair(p, v)
    PROVE  IInv'
<1>1. v \in Nat \ {0}
  BY GraphAssumption
<1>2. /\ version' \in [Pairs -> Nat] /\ \A r \in Pairs : version'[r] \in {0} \cup Versions[r]
      /\ \A r \in Pairs \ {p} : version'[r] = version[r]
  BY <1>1 DEF IInv, Shapes, AddPair
<1>3. Shapes'
  <2>1. edges' \in [Tokens -> Seq(Pairs)]
    <3>1. ASSUME NEW t \in Tokens PROVE Append(edges[t], p) \in Seq(Pairs)
      BY DEF IInv, Shapes
    <3> QED
      BY <3>1 DEF IInv, Shapes, AddPair
  <2>2. /\ \A k \in DOMAIN pathCache' : pathCache'[k] \in Seq(Edges)
        /\ DOMAIN pathCache' \subseteq Queries
    BY DEF IInv, Shapes, AddPair
  <2>3. overlapped' \in [Finders -> BOOLEAN]
    BY DEF IInv, Shapes, AddPair
  <2> QED
    BY <1>2, <2>1, <2>2, <2>3 DEF IInv, Shapes, AddPair
<1>4. Resting'
  BY DEF IInv, Resting, AddPair
<1>5. ReadsCurrent'
  <2> SUFFICES ASSUME NEW f \in Finders, ~overlapped'[f]
               PROVE  /\ Current(legs[f])' /\ Current(found[f])'
                      /\ \A i \in DOMAIN queue'[f] : Current(queue[f][i].path)'
    BY DEF ReadsCurrent
  <2>1. pc[f] = "idle"
    BY DEF AddPair
  <2>2. legs'[f] = <<>> /\ found'[f] = <<>> /\ queue'[f] = <<>>
    BY <2>1 DEF IInv, Resting, AddPair, NoPath
  <2> QED
    BY <2>2 DEF Current
<1>6. CachedCurrent'
  <2> SUFFICES ASSUME NEW k \in Certain', NEW i \in DOMAIN pathCache'[k]
               PROVE  (pathCache[k][i] = Edge(pathCache[k][i].pair))'
    BY DEF CachedCurrent
  <2>1. k \in Certain /\ ~Affected(k, p) /\ pathCache'[k] = pathCache[k]
    BY DEF Certain, AddPair
  <2>2. pathCache[k][i] = Edge(pathCache[k][i].pair) /\ pathCache[k][i].pair \in Pairs
    <3>1. pathCache[k] \in Seq(Edges) /\ i \in DOMAIN pathCache[k]
      BY <2>1 DEF IInv, Shapes, Certain
    <3>2. pathCache[k][i] \in Edges
      BY <3>1
    <3> QED
      BY <2>1, <3>1, <3>2 DEF IInv, CachedCurrent, Edges
  <2>3. pathCache[k][i].pair # p
    BY <2>1 DEF Affected, EndsOf
  <2> QED
    BY <1>2, <2>1, <2>2, <2>3 DEF Edge
<1> QED
  BY <1>3, <1>4, <1>5, <1>6, ListedStep DEF IInv

LEMMA LookupStep ==
    ASSUME IInv, NEW f \in Finders, NEW q \in Queries, Lookup(f, q) PROVE IInv'
<1>1. query' \in [Finders -> {<<>>} \cup Queries]
  BY DEF IInv, Shapes, Lookup
<1>2. query'[f] = q /\ \A g \in Finders \ {f} : query'[g] = query[g]
  BY DEF IInv, Shapes, Lookup
<1>3. Goto(f, "direct") /\ pc[f] = "idle"
      /\ UNCHANGED <<graph, cached, legs, queue, overlapped, found>>
  BY DEF Lookup
<1> QED
  BY <1>1, <1>2, <1>3, GotoStep

\* A call that has neither legs nor a queue does not change them by emptying them.
LEMMA Emptied ==
    ASSUME IInv, NEW f \in Finders
    PROVE  /\ pc[f] # "second" => legs = [legs EXCEPT ![f] = <<>>]
           /\ pc[f] # "search" => queue = [queue EXCEPT ![f] = <<>>]
BY DEF IInv, Shapes, Resting

LEMMA DirectStep == ASSUME IInv, NEW f \in Finders, Direct(f) PROVE IInv'
<1> DEFINE direct == First(edges[From(f)], {p \in Pairs : EndsOf(p) = {From(f), To(f)}})
<1>1. pc[f] = "direct" /\ UNCHANGED <<graph, cached, query, legs, overlapped>>
  BY DEF Direct
<1>2. legs' = [legs EXCEPT ![f] = <<>>] /\ queue = [queue EXCEPT ![f] = <<>>]
  BY <1>1, Emptied
<1>3. From(f) \in Tokens
  BY <1>1, QueryType DEF IInv
<1>4. ASSUME NEW p \in direct, Found(f, <<Edge(p)>>), UNCHANGED <<queue, visited>> PROVE IInv'
  <2>1. p \in Pairs /\ Known(p)
    BY <1>3, FirstType DEF IInv
  <2>2. Edge(p) \in Edges /\ Edge(p) = Edge(Edge(p).pair)
    BY <2>1, EdgeType DEF IInv
  <2>3. <<Edge(p)>> \in Seq(Edges) /\ Current(<<Edge(p)>>)
    BY <2>2 DEF Current
  <2> QED
    BY <1>1, <1>2, <1>4, <2>3, FoundStep
<1>5. ASSUME NEW label \in {"weth", "legs"}, Goto(f, label), UNCHANGED <<queue, visited, found>>
      PROVE  IInv'
  <2>1. query' \in [Finders -> {<<>>} \cup Queries] /\ query'[f] \in Queries
        /\ \A g \in Finders \ {f} : query'[g] = query[g]
    BY <1>1 DEF IInv, Shapes
  <2> QED
    BY <1>1, <1>5, <2>1, GotoStep
<1>6. ASSUME Search(f), UNCHANGED found PROVE IInv'
  BY <1>1, <1>2, <1>6, SearchStep DEF Labels
<1> QED
  BY <1>4, <1>5, <1>6 DEF Direct

LEMMA WethDirectStep == ASSUME IInv, NEW f \in Finders, WethDirect(f) PROVE IInv'
<1> DEFINE other == IF From(f) = Weth THEN To(f) ELSE From(f)
           leg   == First(edges[other], WethPairs)
<1>1. pc[f] = "weth" /\ UNCHANGED <<graph, cached, query, legs, queue, visited, overlapped>>
  BY DEF WethDirect
<1>2. legs' = [legs EXCEPT ![f] = <<>>] /\ queue' = [queue EXCEPT ![f] = <<>>]
  BY <1>1, Emptied
<1>3. other \in Tokens
  BY <1>1, QueryType DEF IInv
<1>4. ASSUME NEW p \in leg, Found(f, <<Edge(p)>>) PROVE IInv'
  <2>1. p \in Pairs /\ Known(p)
    BY <1>3, FirstType DEF IInv
  <2>2. Edge(p) \in Edges /\ Edge(p) = Edge(Edge(p).pair)
    BY <2>1, EdgeType DEF IInv
  <2>3. <<Edge(p)>> \in Seq(Edges) /\ Current(<<Edge(p)>>)
    BY <2>2 DEF Current
  <2> QED
    BY <1>1, <1>2, <1>4, <2>3, FoundStep
<1>5. ASSUME Goto(f, "legs"), UNCHANGED found PROVE IInv'
  <2>1. query' \in [Finders -> {<<>>} \cup Queries] /\ query'[f] \in Queries
        /\ \A g \in Finders \ {f} : query'[g] = query[g]
    BY <1>1 DEF IInv, Shapes
  <2> QED
    BY <1>1, <1>5, <2>1, GotoStep
<1> QED
  BY <1>4, <1>5 DEF WethDirect

LEMMA FirstLegsStep == ASSUME IInv, NEW f \in Finders, FirstLegs(f) PROVE IInv'
<1> DEFINE list == edges[From(f)]
           toIt == {i \in DOMAIN list : list[i] \in WethPairs}
<1>1. pc[f] = "legs" /\ UNCHANGED <<graph, cached, query, found, overlapped>>
  BY DEF FirstLegs
<1>2. list \in Seq(Pairs)
  BY <1>1, QueryType DEF IInv, Shapes
<1>3. PICK toWeth \in InOrder(toIt) :
        /\ legs' = [legs EXCEPT ![f] = [n \in DOMAIN toWeth |-> Edge(list[toWeth[n]])]]
        /\ \/ toWeth # <<>> /\ Goto(f, "second") /\ UNCHANGED <<queue, visited>>
           \/ toWeth = <<>> /\ Search(f)
  BY DEF FirstLegs
<1>4. toWeth \in Seq(toIt)
  <2>1. Len(list) \in Nat /\ toIt \in SUBSET (1..Len(list))
    BY <1>2
  <2> HIDE DEF toIt, list
  <2> QED
    BY <2>1, InOrderType
<1>5. \A n \in DOMAIN toWeth : list[toWeth[n]] \in Pairs /\ Known(list[toWeth[n]])
  BY <1>1, <1>4, QueryType, ListType DEF IInv
<1>6. CASE toWeth = <<>> /\ Search(f)
  <2>1. legs' = [legs EXCEPT ![f] = <<>>]
    BY <1>3, <1>6
  <2> QED
    BY <1>1, <1>6, <2>1, SearchStep DEF Labels
<1>7. CASE toWeth # <<>> /\ Goto(f, "second") /\ UNCHANGED <<queue, visited>>
  <2> DEFINE read == [n \in DOMAIN toWeth |-> Edge(list[toWeth[n]])]
  <2>1. \A n \in DOMAIN toWeth : /\ read[n] \in Edges
                                 /\ read[n] = Edge(read[n].pair)
    BY <1>5, EdgeType DEF IInv
  <2>2. read \in Seq(Edges) /\ read # <<>> /\ Current(read)
    <3>1. DOMAIN toWeth = 1..Len(toWeth) /\ Len(toWeth) \in Nat /\ Len(toWeth) # 0
      BY <1>4, <1>7
    <3>2. read \in [1..Len(toWeth) -> Edges]
      BY <2>1, <3>1
    <3>3. \A n \in 1..Len(toWeth) : read[n] = Edge(read[n].pair)
      BY <2>1, <3>1
    <3> HIDE DEF read
    <3>4. read \in Seq(Edges) /\ Len(read) = Len(toWeth)
      BY <3>1, <3>2
    <3> QED
      BY <3>1, <3>2, <3>3, <3>4 DEF Current
  <2>3. legs' = [legs EXCEPT ![f] = read]
    BY <1>3
  <2> HIDE DEF read
  <2>4. Shapes'
    BY <1>1, <1>7, <2>2, <2>3 DEF IInv, Shapes, Goto, Labels, graph, cached
  <2>5. Resting'
    BY <1>1, <1>7, <2>2, <2>3 DEF IInv, Shapes, Resting, Goto, Labels
  <2>6. ReadsCurrent'
    BY <1>1, <1>7, <2>2, <2>3 DEF IInv, Shapes, ReadsCurrent, Current, Edge, graph
  <2>7. CachedCurrent'
    BY <1>1 DEF IInv, CachedCurrent, Certain, Edge, graph, cached
  <2> QED
    BY <1>1, <2>4, <2>5, <2>6, <2>7, ListedFrame DEF IInv
<1> QED
  BY <1>3, <1>6, <1>7

LEMMA SecondLegStep == ASSUME IInv, NEW f \in Finders, SecondLeg(f) PROVE IInv'
<1> DEFINE leg == First(edges[To(f)], WethPairs)
<1>1. pc[f] = "second" /\ UNCHANGED <<graph, cached, query, overlapped>>
  BY DEF SecondLeg
<1>2. To(f) \in Tokens
  BY <1>1, QueryType DEF IInv
<1>3. legs[f] \in Seq(Edges) /\ legs[f] # <<>>
  BY <1>1 DEF IInv, Shapes, Resting
<1>4. Head(legs[f]) \in Edges /\ Tail(legs[f]) \in Seq(Edges)
  BY <1>3
<1>5. ASSUME NEW p \in leg, Found(f, <<Head(legs[f]), Edge(p)>>),
             legs' = [legs EXCEPT ![f] = <<>>], UNCHANGED <<queue, visited>>
      PROVE  IInv'
  <2>1. p \in Pairs /\ Known(p)
    BY <1>2, FirstType DEF IInv
  <2>2. Edge(p) \in Edges /\ Edge(p) = Edge(Edge(p).pair)
    BY <2>1, EdgeType DEF IInv
  <2>3. <<Head(legs[f]), Edge(p)>> \in Seq(Edges)
    BY <1>4, <2>2
  <2>4. ASSUME ~overlapped[f] PROVE Current(<<Head(legs[f]), Edge(p)>>)
    <3>1. Head(legs[f]) = legs[f][1] /\ 1 \in DOMAIN legs[f]
      BY <1>3
    <3>2. Head(legs[f]) = Edge(Head(legs[f]).pair)
      BY <2>4, <3>1 DEF IInv, ReadsCurrent, Current
    <3> QED
      BY <2>2, <3>2 DEF Current
  <2>5. queue' = [queue EXCEPT ![f] = <<>>]
    BY <1>1, <1>5, Emptied
  <2> QED
    BY <1>1, <1>5, <2>3, <2>4, <2>5, FoundStep
<1>6. ASSUME legs' = [legs EXCEPT ![f] = Tail(@)], Len(legs[f]) <= 1, Search(f),
             UNCHANGED found
      PROVE  IInv'
  <2>1. Tail(legs[f]) = <<>>
    BY <1>3, <1>6
  <2>2. legs' = [legs EXCEPT ![f] = <<>>]
    BY <1>6, <2>1
  <2> QED
    BY <1>1, <1>6, <2>2, SearchStep DEF Labels
<1>7. ASSUME legs' = [legs EXCEPT ![f] = Tail(@)], Len(legs[f]) > 1,
             UNCHANGED <<pc, queue, visited, found>>
      PROVE  IInv'
  <2>1. /\ Tail(legs[f]) # <<>>
        /\ \A i \in DOMAIN Tail(legs[f]) : /\ i + 1 \in DOMAIN legs[f]
                                           /\ Tail(legs[f])[i] = legs[f][i + 1]
    <3>1. Tail(legs[f]) \in Seq(Edges) /\ Len(Tail(legs[f])) > 0
      BY <1>3, <1>7, TailType
    <3>2. Tail(legs[f]) # <<>>
      <4>1. ASSUME NEW q \in Seq(Edges), Len(q) > 0 PROVE q # <<>>
        BY <4>1
      <4> QED
        BY <3>1, <4>1
    <3>3. \A i \in DOMAIN Tail(legs[f]) : /\ i + 1 \in DOMAIN legs[f]
                                          /\ Tail(legs[f])[i] = legs[f][i + 1]
      BY <1>3, TailType
    <3> QED
      BY <3>2, <3>3
  <2>2. Current(legs[f]) => Current(Tail(legs[f]))
    BY <2>1 DEF Current
  <2>3. Shapes'
    BY <1>1, <1>4, <1>7 DEF IInv, Shapes, graph, cached
  <2>4. Resting'
    BY <1>1, <1>7, <2>1 DEF IInv, Shapes, Resting
  <2>5. ReadsCurrent'
    <3>1. \A g \in Finders : legs'[g] = IF g = f THEN Tail(legs[f]) ELSE legs[g]
      BY <1>7 DEF IInv, Shapes
    <3>2. version' = version
      BY <1>1 DEF graph
    <3> QED
      BY <1>1, <1>7, <2>2, <3>1, <3>2 DEF IInv, ReadsCurrent, Current, Edge
  <2>6. CachedCurrent'
    BY <1>1 DEF IInv, CachedCurrent, Certain, Edge, graph, cached
  <2> QED
    BY <1>1, <2>3, <2>4, <2>5, <2>6, ListedFrame DEF IInv
<1>8. Len(legs[f]) > 1 \/ Len(legs[f]) <= 1
  BY <1>3
<1> QED
  BY <1>5, <1>6, <1>7, <1>8 DEF SecondLeg

\* What Expand appends to a path.
LEMMA ExtendedType ==
    ASSUME Shapes, Listed, NEW path \in Seq(Edges), NEW t \in Tokens,
           NEW s \in Seq(DOMAIN edges[t]), NEW n \in DOMAIN s
    PROVE  /\ Extended(path, t, s, n) \in Seq(Edges) /\ Len(Extended(path, t, s, n)) = Len(path) + 1
           /\ Current(path) => Current(Extended(path, t, s, n))
<1> DEFINE m == IF Len(path) \in Room THEN Len(s) ELSE n
<1>1. m \in DOMAIN s
  OBVIOUS
<1>2. edges[t] \in Seq(Pairs)
  BY DEF Shapes
<1>3. edges[t][s[m]] \in Pairs /\ Known(edges[t][s[m]])
  <2> HIDE DEF m
  <2>1. s[m] \in DOMAIN edges[t]
    BY <1>1
  <2> QED
    BY <2>1, ListType
<1>4. Extended(path, t, s, n) = Append(path, Edge(edges[t][s[m]]))
  BY DEF Extended
<1> HIDE DEF m
<1> QED
  BY <1>3, <1>4, AppendCurrent

\* The item at the head of the queue and what follows it.
LEMMA QueueHead ==
    ASSUME IInv, NEW f \in Finders, queue[f] # <<>>
    PROVE  /\ 1 \in DOMAIN queue[f] /\ Head(queue[f]) = queue[f][1]
           /\ queue[f][1].token \in Tokens /\ queue[f][1].path \in Seq(Edges)
           /\ Len(queue[f]) \in Nat /\ DOMAIN queue[f] = 1..Len(queue[f])
           /\ Tail(queue[f]) \in Seq(Items) /\ Len(Tail(queue[f])) = Len(queue[f]) - 1
           /\ \A i \in DOMAIN Tail(queue[f]) : i + 1 \in DOMAIN queue[f] /\ Tail(queue[f])[i] = queue[f][i + 1]
           /\ \A i \in DOMAIN queue[f] : queue[f][i] \in Items /\ Len(queue[f][i].path) \in Nat
<1>1. queue[f] \in Seq(Items)
  BY DEF IInv, Shapes
<1>2. 1 \in DOMAIN queue[f] /\ Head(queue[f]) = queue[f][1]
  BY <1>1
<1>3. \A i \in DOMAIN queue[f] : queue[f][i] \in Items
  BY <1>1
<1>4. \A i \in DOMAIN queue[f] : queue[f][i].token \in Tokens /\ queue[f][i].path \in Seq(Edges)
  BY <1>3 DEF Items
<1>5. \A i \in DOMAIN queue[f] : Len(queue[f][i].path) \in Nat
  BY <1>4
<1> QED
  BY <1>1, <1>2, <1>3, <1>4, <1>5, TailType

\* What overwriting an array leaves of an item a of the queue: it becomes b.
Kept(a, b) ==
    /\ b.token = a.token /\ Len(b.path) = Len(a.path)
    /\ Len(a.path) <= 3 => b.path = a.path
    /\ \A n \in 1..3 : b.path[n] = a.path[n]
    /\ Current(a.path) => Current(b.path)

\* A path that is overwritten in its array keeps its length and its first three
\* edges, and is current if it was.
LEMMA OverwrittenType ==
    ASSUME Shapes, NEW item \in Items, NEW current \in Items, NEW p \in Pairs, Known(p),
           Len(current.path) \in Room
    PROVE  LET new == Overwritten(item, current, Edge(p)) IN
           new \in Items /\ Kept(item, new)
<1> DEFINE new == Overwritten(item, current, Edge(p))
           n   == Len(current.path) + 1
           q   == [item.path EXCEPT ![n] = Edge(p)]
<1>1. item.path \in Seq(Edges) /\ current.path \in Seq(Edges) /\ Edge(p) \in Edges
      /\ Edge(p) = Edge(Edge(p).pair)
  BY EdgeType DEF Items
<1>2. n \in Nat /\ n > 3
  <2>1. Len(current.path) \in Nat /\ Len(current.path) \notin {0, 1, 2}
    BY <1>1, RoomAssumption
  <2>2. \A x \in Nat : x \notin {0, 1, 2} => x + 1 \in Nat /\ x + 1 > 3
    OBVIOUS
  <2> QED
    BY <2>1, <2>2
<1>3. CASE item.arr = current.arr /\ Len(item.path) > Len(current.path)
  <2>1. new = [item EXCEPT !.path = q]
    BY <1>3 DEF Overwritten
  <2>2. q \in Seq(Edges) /\ Len(q) = Len(item.path) /\ DOMAIN q = DOMAIN item.path
    <3>1. item.path \in [1..Len(item.path) -> Edges] /\ Len(item.path) \in Nat
      BY <1>1
    <3>2. q \in [1..Len(item.path) -> Edges]
      BY <1>1, <3>1
    <3> HIDE DEF q
    <3> QED
      BY <3>1, <3>2
  <2>3. \A i \in DOMAIN q : q[i] = IF i = n THEN Edge(p) ELSE item.path[i]
    BY <1>1
  <2>4. \A i \in 1..3 : q[i] = item.path[i]
    <3>1. ASSUME NEW i \in 1..3 PROVE i \in DOMAIN item.path /\ i # n
      <4>1. Len(item.path) \in Nat /\ Len(item.path) >= n /\ DOMAIN item.path = 1..Len(item.path)
        BY <1>1, <1>3
      <4> HIDE DEF n
      <4> QED
        BY <1>2, <4>1
    <3> QED
      BY <2>2, <2>3, <3>1
  <2>5. Current(item.path) => Current(q)
    BY <1>1, <2>2, <2>3 DEF Current
  <2>6. ~(Len(item.path) <= 3)
    <3>1. Len(item.path) \in Nat /\ Len(item.path) >= n
      BY <1>1, <1>3
    <3> HIDE DEF n
    <3> QED
      BY <1>2, <3>1
  <2> HIDE DEF q
  <2>7. new.path = q /\ new.token = item.token /\ new \in Items
    BY <2>1, <2>2 DEF Items
  <2> HIDE DEF new
  <2>8. new \in Items /\ Kept(item, new)
    BY <2>2, <2>4, <2>5, <2>6, <2>7 DEF Kept
  <2> QED
    BY <2>8 DEF new
<1>4. CASE ~(item.arr = current.arr /\ Len(item.path) > Len(current.path))
  <2>1. new = item
    BY <1>4 DEF Overwritten
  <2> QED
    BY <2>1 DEF Kept
<1> QED
  BY <1>3, <1>4

\* What is left of the queue: the items behind the head, some of them overwritten.
LEMMA RestType ==
    ASSUME IInv, NEW f \in Finders, queue[f] # <<>>, NEW t, t = Head(queue[f]).token,
           NEW s \in Seq(DOMAIN edges[t])
    PROVE  /\ Rest(f, t, s) \in Seq(Items) /\ Len(Rest(f, t, s)) = Len(queue[f]) - 1
           /\ \A i \in DOMAIN Rest(f, t, s) :
                i + 1 \in DOMAIN queue[f] /\ Kept(queue[f][i + 1], Rest(f, t, s)[i])
<1> DEFINE items   == Tail(queue[f])
           current == Head(queue[f])
           last    == edges[t][s[Len(s)]]
           rest    == Rest(f, t, s)
<1>1. /\ items \in Seq(Items) /\ Len(items) = Len(queue[f]) - 1
      /\ \A i \in DOMAIN items : /\ i + 1 \in DOMAIN queue[f] /\ items[i] = queue[f][i + 1]
      /\ t \in Tokens
  BY QueueHead
<1>2. current \in Items
  BY DEF IInv, Shapes
<1>3. CASE ~(Len(current.path) \in Room /\ s # <<>>)
  <2>1. rest = items
    BY <1>3 DEF Rest
  <2> HIDE DEF items, rest
  <2>2. /\ rest \in Seq(Items) /\ Len(rest) = Len(queue[f]) - 1
        /\ \A i \in DOMAIN rest : i + 1 \in DOMAIN queue[f] /\ Kept(queue[f][i + 1], rest[i])
    BY <1>1, <2>1 DEF Kept
  <2> QED
    BY <2>2 DEF rest
<1>4. CASE Len(current.path) \in Room /\ s # <<>>
  <2> DEFINE item(i) == Overwritten(items[i], current, Edge(last))
  <2>1. last \in Pairs /\ Known(last)
    <3>1. s[Len(s)] \in DOMAIN edges[t]
      BY <1>4
    <3> QED
      BY <1>1, <3>1, ListType DEF IInv
  <2>2. rest = [i \in DOMAIN items |-> item(i)]
    BY <1>4 DEF Rest
  <2> HIDE DEF items, last, current
  <2>3. \A i \in DOMAIN items : item(i) \in Items /\ Kept(items[i], item(i))
    <3> SUFFICES ASSUME NEW i \in DOMAIN items
                 PROVE  item(i) \in Items /\ Kept(items[i], item(i))
      OBVIOUS
    <3>1. items[i] \in Items
      BY <1>1
    <3> QED
      BY <1>2, <1>4, <2>1, <3>1, OverwrittenType DEF IInv
  <2> HIDE DEF item
  <2>4. rest \in Seq(Items) /\ DOMAIN rest = DOMAIN items /\ Len(rest) = Len(items)
    <3>1. Len(items) \in Nat /\ DOMAIN items = 1..Len(items)
      BY <1>1
    <3>2. rest \in [1..Len(items) -> Items]
      BY <2>2, <2>3, <3>1
    <3> HIDE DEF rest
    <3> QED
      BY <3>1, <3>2
  <2>5. \A i \in DOMAIN items : rest[i] = item(i)
    BY <2>2
  <2> HIDE DEF rest
  <2>6. ASSUME NEW i \in DOMAIN rest
        PROVE  i + 1 \in DOMAIN queue[f] /\ Kept(queue[f][i + 1], rest[i])
    <3>1. i \in DOMAIN items /\ rest[i] = item(i)
      BY <2>4, <2>5
    <3>2. i + 1 \in DOMAIN queue[f] /\ items[i] = queue[f][i + 1]
      BY <1>1, <3>1
    <3> QED
      BY <2>3, <3>1, <3>2, Zenon
  <2> QED
    BY <1>1, <2>4, <2>6 DEF rest
<1> QED
  BY <1>3, <1>4

\* The items of the neighbours have a path that is one edge longer.
LEMMA QueuedType ==
    ASSUME IInv, NEW f \in Finders, queue[f] # <<>>, NEW t, t = Head(queue[f]).token,
           NEW s \in Seq(DOMAIN edges[t])
    PROVE  /\ Queued(f, t, s) \in Seq(Items) /\ Len(Queued(f, t, s)) = Len(s)
           /\ \A n \in DOMAIN s :
                /\ Queued(f, t, s)[n].token = Other(edges[t][s[n]], t)
                /\ Queued(f, t, s)[n].path = Extended(Head(queue[f]).path, t, s, n)
                /\ Len(Queued(f, t, s)[n].path) = Len(Head(queue[f]).path) + 1
                /\ Current(Head(queue[f]).path) => Current(Queued(f, t, s)[n].path)
<1> DEFINE current == Head(queue[f])
           item(n) == [token |-> Other(edges[t][s[n]], t),
                       path  |-> Extended(current.path, t, s, n),
                       arr   |-> IF Len(current.path) \in Room THEN current.arr
                                 ELSE Other(edges[t][s[n]], t)]
           new     == Queued(f, t, s)
<1>1. current \in Items
  BY DEF IInv, Shapes
<1>2. t \in Tokens /\ current.path \in Seq(Edges) /\ current.arr \in Tokens
  BY <1>1 DEF Items
<1>3. new = [n \in DOMAIN s |-> item(n)]
  BY DEF Queued
<1>4. Len(s) \in Nat /\ DOMAIN s = 1..Len(s) /\ \A n \in DOMAIN s : s[n] \in DOMAIN edges[t]
  OBVIOUS
<1>5. \A n \in DOMAIN s : /\ item(n) \in Items /\ Len(item(n).path) = Len(current.path) + 1
                          /\ item(n).token = Other(edges[t][s[n]], t)
                          /\ item(n).path = Extended(current.path, t, s, n)
                          /\ Current(current.path) => Current(item(n).path)
  <2> SUFFICES ASSUME NEW n \in DOMAIN s
               PROVE  /\ item(n) \in Items /\ Len(item(n).path) = Len(current.path) + 1
                      /\ item(n).token = Other(edges[t][s[n]], t)
                      /\ item(n).path = Extended(current.path, t, s, n)
                      /\ Current(current.path) => Current(item(n).path)
    OBVIOUS
  <2> DEFINE q == Extended(current.path, t, s, n)
             u == Other(edges[t][s[n]], t)
  <2> HIDE DEF current
  <2>1. /\ q \in Seq(Edges) /\ Len(q) = Len(current.path) + 1
        /\ Current(current.path) => Current(q)
    BY <1>2, ExtendedType DEF IInv
  <2>2. u \in Tokens
    BY <1>2, <1>4, ListType, OtherType DEF IInv
  <2> HIDE DEF q, u
  <2>3. item(n) \in Items /\ item(n).path = q /\ item(n).token = u
    <3>1. item(n) = [token |-> u, path |-> q,
                     arr |-> IF Len(current.path) \in Room THEN current.arr ELSE u]
      BY DEF q, u
    <3> HIDE DEF item
    <3> QED
      BY <1>2, <2>1, <2>2, <3>1 DEF Items
  <2> HIDE DEF item
  <2> QED
    BY <2>1, <2>3 DEF q, u
<1> HIDE DEF item
<1>6. new \in Seq(Items) /\ Len(new) = Len(s)
  <2>1. new \in [1..Len(s) -> Items]
    BY <1>3, <1>4, <1>5
  <2> HIDE DEF new
  <2> QED
    BY <1>4, <2>1
<1>7. \A n \in DOMAIN s : new[n] = item(n)
  BY <1>3
<1> HIDE DEF new, current
<1> QED
  BY <1>5, <1>6, <1>7 DEF new, current

\* The fresh indices of a token, in order, are indices of its list.
LEMMA FreshOrder ==
    ASSUME Shapes, NEW f \in Finders, NEW t \in Tokens, NEW s \in InOrder(Fresh(f, t))
    PROVE  s \in Seq(Fresh(f, t)) /\ s \in Seq(DOMAIN edges[t])
<1> DEFINE fresh == Fresh(f, t)
           D     == DOMAIN edges[t]
<1>1. edges[t] \in Seq(Pairs)
  BY DEF Shapes
<1>2. Len(edges[t]) \in Nat /\ D = 1..Len(edges[t]) /\ fresh \in SUBSET D
  BY <1>1 DEF Fresh
<1> HIDE DEF fresh, D
<1>3. s \in Seq(fresh)
  BY <1>2, InOrderType DEF fresh
<1>4. s \in Seq(D)
  <2>1. fresh \subseteq D
    BY <1>2
  <2> QED
    BY <1>3, <2>1
<1> QED
  BY <1>3, <1>4 DEF fresh, D

LEMMA ExpandStep == ASSUME IInv, NEW f \in Finders, Expand(f) PROVE IInv'
<1> DEFINE t     == Head(queue[f]).token
           path  == Head(queue[f]).path
           fresh == Fresh(f, t)
           goal  == {i \in fresh : Other(edges[t][i], t) = To(f)}
<1>1. /\ pc[f] = "search" /\ queue[f] # <<>>
      /\ UNCHANGED <<graph, cached, query, legs, overlapped>>
  BY DEF Expand
<1>2. t \in Tokens /\ path \in Seq(Edges) /\ path = queue[f][1].path /\ 1 \in DOMAIN queue[f]
  BY <1>1, QueueHead
<1>3. ASSUME ~overlapped[f] PROVE Current(path)
  BY <1>2, <1>3 DEF IInv, ReadsCurrent
<1>4. ASSUME NEW i \in goal, Found(f, Append(path, Edge(edges[t][i]))),
             queue' = [queue EXCEPT ![f] = <<>>]
      PROVE  IInv'
  <2>1. edges[t][i] \in Pairs /\ Known(edges[t][i])
    <3>1. i \in DOMAIN edges[t]
      BY DEF Fresh
    <3> QED
      BY <1>2, <3>1, ListType DEF IInv
  <2>2. /\ Append(path, Edge(edges[t][i])) \in Seq(Edges)
        /\ Current(path) => Current(Append(path, Edge(edges[t][i])))
    BY <1>2, <2>1, AppendCurrent DEF IInv
  <2>3. legs' = [legs EXCEPT ![f] = <<>>]
    BY <1>1, Emptied
  <2> QED
    BY <1>1, <1>3, <1>4, <2>2, <2>3, FoundStep
<1>5. ASSUME NEW s \in InOrder(fresh),
             queue' = [queue EXCEPT ![f] = Rest(f, t, s) \o Queued(f, t, s)],
             UNCHANGED <<pc, found>>
      PROVE  IInv'
  <2> DEFINE new  == Queued(f, t, s)
             rest == Rest(f, t, s)
  <2>1. s \in Seq(DOMAIN edges[t])
    BY <1>2, FreshOrder DEF IInv
  <2> HIDE DEF t
  <2>2. new \in Seq(Items) /\ rest \in Seq(Items)
    BY <1>1, <2>1, QueuedType, RestType DEF t
  <2>3. ASSUME ~overlapped[f], NEW i \in DOMAIN (rest \o new)
        PROVE  Current((rest \o new)[i].path)
    <3>1. \A m \in DOMAIN queue[f] : Current(queue[f][m].path)
      BY <2>3 DEF IInv, ReadsCurrent
    <3>2. \A m \in DOMAIN rest : Current(rest[m].path)
      BY <1>1, <2>1, <3>1, RestType DEF t, Kept
    <3>3. \A n \in DOMAIN s : Current(new[n].path)
      BY <1>1, <1>3, <2>1, <2>3, QueuedType DEF t
    <3>4. DOMAIN new = DOMAIN s
      <4>1. Len(new) = Len(s)
        BY <1>1, <2>1, QueuedType DEF t
      <4> HIDE DEF new
      <4> QED
        BY <2>1, <2>2, <4>1
    <3> HIDE DEF new, rest
    <3>5. \/ i \in DOMAIN rest /\ (rest \o new)[i] = rest[i]
          \/ \E n \in DOMAIN new : (rest \o new)[i] = new[n]
      <4>1. i \in DOMAIN (rest \o new)
        BY <2>3
      <4> QED
        BY <2>2, <4>1, ConcatParts
    <3> QED
      BY <3>2, <3>3, <3>4, <3>5, Zenon
  <2>4. queue' = [queue EXCEPT ![f] = rest \o new]
    BY <1>5
  <2> HIDE DEF new, rest
  <2>5. rest \o new \in Seq(Items)
    BY <2>2
  <2>6. \A g \in Finders : queue'[g] = IF g = f THEN rest \o new ELSE queue[g]
    BY <2>4 DEF IInv, Shapes
  <2>7. Shapes'
    BY <1>1, <1>5, <2>4, <2>5 DEF IInv, Shapes, graph, cached
  <2>8. Resting'
    BY <1>1, <1>5, <2>6 DEF IInv, Resting
  <2>9. ReadsCurrent'
    <3>1. version' = version
      BY <1>1 DEF graph
    <3> SUFFICES ASSUME NEW g \in Finders, ~overlapped'[g]
                 PROVE  /\ Current(legs[g])' /\ Current(found[g])'
                        /\ \A i \in DOMAIN queue'[g] : Current(queue[g][i].path)'
      BY DEF ReadsCurrent
    <3>2. overlapped' = overlapped /\ legs' = legs /\ found' = found
      BY <1>1, <1>5
    <3>3. /\ Current(legs[g]) /\ Current(found[g])
          /\ \A i \in DOMAIN queue'[g] : Current(queue'[g][i].path)
      <4>1. CASE g = f
        BY <2>3, <2>6, <3>2, <4>1 DEF IInv, ReadsCurrent
      <4>2. CASE g # f
        BY <2>6, <3>2, <4>2 DEF IInv, ReadsCurrent
      <4> QED
        BY <4>1, <4>2
    <3> QED
      BY <3>1, <3>2, <3>3 DEF Current, Edge
  <2>10. CachedCurrent'
    BY <1>1 DEF IInv, CachedCurrent, Certain, Edge, graph, cached
  <2> QED
    BY <1>1, <2>7, <2>8, <2>9, <2>10, ListedFrame DEF IInv
<1> QED
  BY <1>4, <1>5 DEF Expand

LEMMA NotFoundStep == ASSUME IInv, NEW f \in Finders, NotFound(f) PROVE IInv'
<1>1. /\ pc[f] = "search" /\ queue[f] = <<>> /\ Found(f, NoPath)
      /\ UNCHANGED <<graph, cached, query, legs, queue, overlapped>>
  BY DEF NotFound
<1>2. legs' = [legs EXCEPT ![f] = <<>>] /\ queue' = [queue EXCEPT ![f] = <<>>]
  BY <1>1, Emptied DEF IInv, Shapes
<1>3. NoPath \in Seq(Edges) /\ Current(NoPath)
  BY DEF NoPath, Current
<1> QED
  BY <1>1, <1>2, <1>3, FoundStep

\* The stored path is current, or its key is doubtful.
LEMMA StoreStep == ASSUME IInv, NEW f \in Finders, Store(f) PROVE IInv'
<1>1. Shapes'
  BY DEF IInv, Shapes, Store, Goto, Labels, graph, NoPath
<1>2. Resting'
  BY DEF IInv, Shapes, Resting, Store, Goto, Labels, NoPath
<1>3. ReadsCurrent'
  BY DEF IInv, Shapes, Resting, ReadsCurrent, Store, Goto, Current, Edge, graph, NoPath
<1>4. CachedCurrent'
  <2> SUFFICES ASSUME NEW k \in Certain', NEW i \in DOMAIN pathCache'[k]
               PROVE  (pathCache[k][i] = Edge(pathCache[k][i].pair))'
    BY DEF CachedCurrent
  <2>1. version' = version
    BY DEF Store, graph
  <2>2. CASE k = query[f]
    <3>1. ~overlapped[f] /\ pathCache'[k] = found[f]
      BY <2>2 DEF Store, Certain
    <3> QED
      BY <2>1, <3>1 DEF IInv, ReadsCurrent, Current, Edge
  <2>3. CASE k # query[f]
    <3>1. k \in Certain /\ pathCache'[k] = pathCache[k]
      BY <2>3 DEF Store, Certain
    <3> QED
      BY <2>1, <3>1 DEF IInv, CachedCurrent, Edge
  <2> QED
    BY <2>2, <2>3
<1>5. Listed'
  BY ListedFrame DEF IInv, Store
<1> QED
  BY <1>1, <1>2, <1>3, <1>4, <1>5 DEF IInv

\* Init and every step keep it.
LEMMA GraphInit == Init => IInv
<1> SUFFICES ASSUME Init PROVE IInv
  OBVIOUS
<1>1. Shapes /\ Resting /\ ReadsCurrent /\ CachedCurrent
  BY DEF Init, Shapes, Resting, ReadsCurrent, CachedCurrent, Certain, Current, Labels, NoPath
<1>2. \A t \in Tokens : Listing(t) = {} /\ edges[t] = <<>>
  BY DEF Init, Listing, Known
<1>3. Listed
  BY <1>2, FS_EmptySet DEF Listed
<1> QED
  BY <1>1, <1>3 DEF IInv

LEMMA GraphStep == IInv /\ [Next]_vars => IInv'
<1> SUFFICES ASSUME IInv, [Next]_vars PROVE IInv'
  OBVIOUS
<1>1. ASSUME NEW p \in Pairs, NEW v \in Versions[p], AddPair(p, v) PROVE IInv'
  BY <1>1, AddPairStep
<1>2. ASSUME NEW f \in Finders, FindPath(f) PROVE IInv'
  BY <1>2, LookupStep, DirectStep, WethDirectStep, FirstLegsStep, SecondLegStep,
     ExpandStep, NotFoundStep, StoreStep DEF FindPath
<1>3. CASE UNCHANGED vars
  BY <1>3, ListedFrame DEF vars, graph, cached, search, IInv, Shapes, Resting, ReadsCurrent,
              CachedCurrent, Certain, Current, Edge
<1> QED
  BY <1>1, <1>2, <1>3 DEF Next

-----------------------------------------------------------------------------
(* What a call has seen of the hops between its tokens.                     *)

TwoHops(k, t) == Adjacent(k[1], t) /\ Adjacent(t, k[2])

\* The path is as short as one or two hops allow.
Near(k, path) ==
    /\ Adjacent(k[1], k[2]) => Len(path) = 1
    /\ ~Adjacent(k[1], k[2]) /\ (\E t \in Tokens : TwoHops(k, t)) => Len(path) = 2

\* A search that has not reached its second token is at its first, or still has
\* every token between the two in its queue, before all that are further away.
Frontier(f) ==
    /\ To(f) \notin visited[f]
    /\ \/ queue[f] = <<[token |-> From(f), path |-> <<>>, arr |-> From(f)]>> /\ visited[f] = {From(f)}
       \/ /\ \A i \in DOMAIN queue[f] : Len(queue[f][i].path) > 0
          /\ \A j \in DOMAIN queue[f] : Len(queue[f][j].path) = 1 =>
                \A i \in 1..j : Len(queue[f][i].path) = 1
          /\ \A t \in Tokens : TwoHops(query[f], t) =>
                \E i \in DOMAIN queue[f] : queue[f][i].token = t /\ Len(queue[f][i].path) = 1

\* A call that is past its first branch found no pair of its tokens.
Seen(f) ==
    pc[f] # "idle" =>
        /\ From(f) # To(f)
        /\ pc[f] = "weth" => Weth \in {From(f), To(f)}
        /\ ~overlapped[f] =>
            /\ pc[f] = "store" => Near(query[f], found[f])
            /\ pc[f] \in {"weth", "legs", "second", "search"} => ~Adjacent(From(f), To(f))
            /\ pc[f] = "search" => Frontier(f)

\* A queue holds only visited tokens.
Marked ==
    /\ visited \in [Finders -> SUBSET Tokens]
    /\ \A f \in Finders : \A i \in DOMAIN queue[f] : queue[f][i].token \in visited[f]

NearInv == IInv /\ Marked /\ (\A f \in Finders : Seen(f)) /\ NearestRight

-----------------------------------------------------------------------------
\* Every set of numbers has a least element.
LEMMA LeastIndex ==
    ASSUME NEW S, S \subseteq Nat, S # {}
    PROVE  \E x \in S : \A y \in S : x <= y
<1>1. PICK x \in S : \A y \in S : <<y, x>> \notin OpToRel(<, Nat)
  BY NatLessThanWellFounded, WFMin
<1>2. \A y \in S : ~(y < x)
  BY <1>1 DEF OpToRel
<1> QED
  BY <1>2

\* First finds nothing only if nothing of the set is listed.
LEMMA FirstFinds ==
    ASSUME NEW list \in Seq(Pairs), NEW set, First(list, set) = {}, NEW i \in DOMAIN list
    PROVE  list[i] \notin set
<1> DEFINE S == {j \in DOMAIN list : list[j] \in set}
<1> SUFFICES ASSUME list[i] \in set PROVE FALSE
  OBVIOUS
<1>1. PICK x \in S : \A y \in S : x <= y
  <2>1. S \subseteq Nat /\ S # {}
    OBVIOUS
  <2> HIDE DEF S
  <2> QED
    BY <2>1, LeastIndex
<1>2. \A j \in 1..x - 1 : list[j] \notin set
  BY <1>1
<1>3. list[x] \in First(list, set)
  BY <1>1, <1>2 DEF First
<1> QED
  BY <1>3

\* InOrder leaves no index out.
LEMMA InOrderOnto ==
    ASSUME NEW n \in Nat, NEW s \in SUBSET (1..n), NEW o \in InOrder(s), NEW i \in s
    PROVE  \E m \in DOMAIN o : o[m] = i
<1>1. IsFiniteSet(s) /\ Cardinality(s) \in Nat
  <2>1. IsFiniteSet(1..n)
    BY FS_Interval
  <2>2. IsFiniteSet(s)
    BY <2>1, FS_Subset
  <2> QED
    BY <2>2, FS_CardinalityType
<1> DEFINE c == Cardinality(s)
<1>2. o \in [1..c -> s] /\ \A x, y \in 1..c : x < y => o[x] < o[y]
  BY DEF InOrder
<1> HIDE DEF c
<1>3. c \in Nat
  BY <1>1 DEF c
<1>4. ASSUME NEW x \in 1..c, NEW y \in 1..c, o[x] = o[y] PROVE x = y
  <2>1. o[x] \in Int /\ o[y] \in Int
    <3>1. \A m \in s : m \in Int
      OBVIOUS
    <3> QED
      BY <1>2, <3>1
  <2>2. ~(x < y) /\ ~(y < x)
    BY <1>2, <1>4, <2>1
  <2> QED
    BY <1>3, <2>2
<1>5. o \in Injection(1..c, s)
  BY <1>2, <1>4 DEF Injection, IsInjective
<1>6. Cardinality(1..c) = c
  BY <1>3, FS_Interval
<1>7. o \in Surjection(1..c, s)
  BY <1>1, <1>5, <1>6, FS_Injection DEF c
<1> QED
  BY <1>2, <1>7 DEF Surjection

\* The tokens next to a token are those at the other ends of its listed pairs.
LEMMA OtherIsAdjacent ==
    ASSUME Shapes, Listed, NEW t \in Tokens, NEW i \in DOMAIN edges[t]
    PROVE  /\ Adjacent(t, Other(edges[t][i], t)) /\ Other(edges[t][i], t) \in Tokens
           /\ EndsOf(edges[t][i]) = {t, Other(edges[t][i], t)}
<1>1. edges[t][i] \in Pairs /\ Known(edges[t][i]) /\ t \in EndsOf(edges[t][i])
  BY ListType
<1>2. EndsOf(edges[t][i]) = {t, Other(edges[t][i], t)}
  BY <1>1 DEF EndsOf, Other
<1> QED
  BY <1>1, <1>2, OtherType DEF Adjacent

LEMMA AdjacentIsListed ==
    ASSUME Shapes, Listed, NEW t \in Tokens, NEW u, Adjacent(t, u)
    PROVE  /\ t # u
           /\ \E i \in DOMAIN edges[t] : Other(edges[t][i], t) = u /\ EndsOf(edges[t][i]) = {t, u}
<1>1. PICK p \in Pairs : Known(p) /\ EndsOf(p) = {t, u}
  BY DEF Adjacent
<1>2. Ends[p][1] # Ends[p][2]
  BY GraphAssumption
<1>3. t # u /\ Other(p, t) = u
  BY <1>1, <1>2 DEF EndsOf, Other
<1>4. PICK i \in DOMAIN edges[t] : edges[t][i] = p
  BY <1>1 DEF Listed, Listing
<1> QED
  BY <1>1, <1>3, <1>4

\* Every token next to t that is not visited yet has a fresh index.
LEMMA FreshReaches ==
    ASSUME Shapes, Listed, NEW f \in Finders, NEW t \in Tokens, NEW u, u \notin visited[f],
           Adjacent(t, u)
    PROVE  \E i \in Fresh(f, t) : Other(edges[t][i], t) = u
<1> DEFINE S == {i \in DOMAIN edges[t] : Other(edges[t][i], t) = u}
<1>1. edges[t] \in Seq(Pairs)
  BY DEF Shapes
<1>2. PICK x \in S : \A y \in S : x <= y
  <2>1. S \subseteq Nat /\ S # {}
    BY <1>1, AdjacentIsListed
  <2> HIDE DEF S
  <2> QED
    BY <2>1, LeastIndex
<1>3. \A j \in 1..x - 1 : Other(edges[t][j], t) # u
  BY <1>1, <1>2
<1>4. x \in Fresh(f, t)
  BY <1>2, <1>3 DEF Fresh
<1> QED
  BY <1>2, <1>4

-----------------------------------------------------------------------------
(* The steps.                                                              *)

\* Tokens are next to each other as before if no pair changes.
LEMMA NearFrame ==
    ASSUME UNCHANGED graph
    PROVE  /\ \A t, u : Adjacent(t, u)' <=> Adjacent(t, u)
           /\ \A k, path : Near(k, path)' <=> Near(k, path)
BY DEF graph, Adjacent, Known, Near, TwoHops

\* What a call has seen does not depend on the calls of others.
LEMMA SeenFrame ==
    ASSUME NEW g \in Finders, Seen(g), UNCHANGED graph,
           pc'[g] = pc[g], query'[g] = query[g], overlapped'[g] = overlapped[g],
           found'[g] = found[g], queue'[g] = queue[g], visited'[g] = visited[g]
    PROVE  Seen(g)'
BY NearFrame DEF Seen, Frontier, TwoHops, From, To

\* A search begins at the first token.
LEMMA SeenSearch ==
    ASSUME IInv, Marked, NEW f \in Finders, Seen(f), pc[f] # "idle", Search(f), UNCHANGED graph,
           query'[f] = query[f], overlapped'[f] = overlapped[f],
           ~overlapped[f] => ~Adjacent(From(f), To(f))
    PROVE  Seen(f)'
<1>1. /\ pc'[f] = "search" /\ visited'[f] = {From(f)}
      /\ queue'[f] = <<[token |-> From(f), path |-> <<>>, arr |-> From(f)]>>
  BY DEF Search, Goto, IInv, Shapes, Marked
<1>2. From(f)' = From(f) /\ To(f)' = To(f) /\ From(f) # To(f)
  BY DEF From, To, Seen
<1>3. Frontier(f)'
  BY <1>1, <1>2 DEF Frontier
<1> QED
  BY <1>1, <1>2, <1>3, NearFrame DEF Seen

\* A call goes on or stores what it found.
LEMMA SeenGoto ==
    ASSUME IInv, NEW f \in Finders, Seen(f), pc[f] # "idle", UNCHANGED graph,
           query'[f] = query[f], overlapped'[f] = overlapped[f],
           NEW label \in {"weth", "legs", "second"}, Goto(f, label) \/ pc'[f] = label,
           label = "weth" => Weth \in {From(f), To(f)},
           ~overlapped[f] => ~Adjacent(From(f), To(f))
    PROVE  Seen(f)'
<1>1. pc'[f] = label
  BY DEF Goto, IInv, Shapes
<1>2. From(f)' = From(f) /\ To(f)' = To(f) /\ From(f) # To(f)
  BY DEF From, To, Seen
<1> QED
  BY <1>1, <1>2, NearFrame DEF Seen

LEMMA SeenFound ==
    ASSUME IInv, NEW f \in Finders, Seen(f), pc[f] # "idle", UNCHANGED graph,
           query'[f] = query[f], overlapped'[f] = overlapped[f],
           NEW path, Found(f, path), ~overlapped[f] => Near(query[f], path)
    PROVE  Seen(f)'
<1>1. pc'[f] = "store" /\ found'[f] = path
  BY DEF Found, Goto, IInv, Shapes
<1>2. From(f)' = From(f) /\ To(f)' = To(f) /\ From(f) # To(f)
  BY DEF From, To, Seen
<1> QED
  BY <1>1, <1>2, NearFrame DEF Seen

LEMMA SeenDirect == ASSUME NearInv, NEW f \in Finders, Direct(f) PROVE Seen(f)'
<1> DEFINE set    == {p \in Pairs : EndsOf(p) = {From(f), To(f)}}
           direct == First(edges[From(f)], set)
<1>1. /\ pc[f] = "direct" /\ UNCHANGED graph
      /\ query'[f] = query[f] /\ overlapped'[f] = overlapped[f]
      /\ IInv /\ Marked /\ Seen(f) /\ From(f) \in Tokens /\ To(f) \in Tokens
  BY QueryType DEF Direct, NearInv, IInv
<1>2. ASSUME NEW p \in direct, Found(f, <<Edge(p)>>) PROVE Seen(f)'
  <2>1. p \in Pairs /\ Known(p) /\ EndsOf(p) = {From(f), To(f)}
    <3> HIDE DEF set
    <3>1. p \in Pairs /\ Known(p) /\ p \in set
      BY <1>1, <1>2, FirstType DEF IInv
    <3> QED
      BY <3>1 DEF set
  <2>2. Adjacent(query[f][1], query[f][2])
    BY <2>1 DEF Adjacent, From, To
  <2>3. Near(query[f], <<Edge(p)>>)
    BY <2>2 DEF Near
  <2> QED
    BY <1>1, <1>2, <2>3, SeenFound
<1>3. direct = {} => ~Adjacent(From(f), To(f))
  <2> SUFFICES ASSUME direct = {}, Adjacent(From(f), To(f)) PROVE FALSE
    OBVIOUS
  <2>1. PICK i \in DOMAIN edges[From(f)] : EndsOf(edges[From(f)][i]) = {From(f), To(f)}
    BY <1>1, AdjacentIsListed DEF IInv
  <2>2. edges[From(f)] \in Seq(Pairs) /\ edges[From(f)][i] \in Pairs
    BY <1>1 DEF IInv, Shapes
  <2> HIDE DEF set
  <2>3. edges[From(f)][i] \notin set
    BY <2>2, FirstFinds
  <2> QED
    BY <2>1, <2>2, <2>3 DEF set
<1>4. CASE direct = {} /\ Weth \in {From(f), To(f)} /\ Goto(f, "weth")
  BY <1>1, <1>3, <1>4, SeenGoto
<1>5. CASE direct = {} /\ Goto(f, "legs")
  BY <1>1, <1>3, <1>5, SeenGoto
<1>6. CASE direct = {} /\ Search(f)
  BY <1>1, <1>3, <1>6, SeenSearch
<1> QED
  BY <1>2, <1>4, <1>5, <1>6 DEF Direct

\* An edge of the other token to WETH is one between the two.
LEMMA SeenWeth == ASSUME NearInv, NEW f \in Finders, WethDirect(f) PROVE Seen(f)'
<1> DEFINE other == IF From(f) = Weth THEN To(f) ELSE From(f)
           leg   == First(edges[other], WethPairs)
<1>1. /\ pc[f] = "weth" /\ UNCHANGED graph
      /\ query'[f] = query[f] /\ overlapped'[f] = overlapped[f]
      /\ IInv /\ Seen(f) /\ From(f) \in Tokens /\ To(f) \in Tokens
  BY QueryType DEF WethDirect, NearInv, IInv
<1>2. From(f) # To(f) /\ Weth \in {From(f), To(f)}
      /\ (~overlapped[f] => ~Adjacent(From(f), To(f)))
  BY <1>1 DEF Seen
<1>3. ASSUME NEW p \in leg, Found(f, <<Edge(p)>>) PROVE Seen(f)'
  <2>1. other \in Tokens /\ other # Weth /\ {other, Weth} = {From(f), To(f)}
    BY <1>1, <1>2
  <2>2. p \in Pairs /\ Known(p) /\ other \in EndsOf(p) /\ p \in WethPairs
    BY <1>1, <2>1, FirstType DEF IInv
  <2>3. EndsOf(p) = {other, Weth}
    BY <2>1, <2>2 DEF EndsOf, WethPairs
  <2>4. Adjacent(From(f), To(f))
    BY <2>1, <2>2, <2>3 DEF Adjacent
  <2>5. Near(query[f], <<Edge(p)>>)
    BY <2>4 DEF Near, From, To
  <2> QED
    BY <1>1, <1>3, <2>5, SeenFound
<1>4. CASE Goto(f, "legs")
  BY <1>1, <1>2, <1>4, SeenGoto
<1> QED
  BY <1>3, <1>4 DEF WethDirect

LEMMA SeenFirstLegs == ASSUME NearInv, NEW f \in Finders, FirstLegs(f) PROVE Seen(f)'
<1>1. /\ pc[f] = "legs" /\ UNCHANGED graph
      /\ query'[f] = query[f] /\ overlapped'[f] = overlapped[f]
      /\ IInv /\ Marked /\ Seen(f)
  BY DEF FirstLegs, NearInv
<1>2. ~overlapped[f] => ~Adjacent(From(f), To(f))
  BY <1>1 DEF Seen
<1>3. CASE Goto(f, "second")
  BY <1>1, <1>2, <1>3, SeenGoto
<1>4. CASE Search(f)
  BY <1>1, <1>2, <1>4, SeenSearch
<1> QED
  BY <1>3, <1>4 DEF FirstLegs

\* Two legs are as few as there can be, because no pair has both tokens.
LEMMA SeenSecondLeg == ASSUME NearInv, NEW f \in Finders, SecondLeg(f) PROVE Seen(f)'
<1>1. /\ pc[f] = "second" /\ UNCHANGED graph
      /\ query'[f] = query[f] /\ overlapped'[f] = overlapped[f]
      /\ IInv /\ Marked /\ Seen(f)
  BY DEF SecondLeg, NearInv
<1>2. ~overlapped[f] => ~Adjacent(From(f), To(f))
  BY <1>1 DEF Seen
<1>3. ASSUME NEW p, Found(f, <<Head(legs[f]), Edge(p)>>) PROVE Seen(f)'
  <2>1. ~overlapped[f] => Near(query[f], <<Head(legs[f]), Edge(p)>>)
    BY <1>2 DEF Near, From, To
  <2> QED
    BY <1>1, <1>3, <2>1, SeenFound
<1>4. CASE UNCHANGED pc
  BY <1>1, <1>2, <1>4, SeenGoto
<1>5. CASE Search(f)
  BY <1>1, <1>2, <1>5, SeenSearch
<1> QED
  BY <1>3, <1>4, <1>5 DEF SecondLeg

LEMMA Successor == ASSUME NEW a, NEW b, a = b + 1, b = 1 PROVE a = 2
  OBVIOUS

\* A path to the second token is one edge longer than the one at the head of the
\* queue, which is the shortest.
LEMMA GoalIsNear ==
    ASSUME NearInv, NEW f \in Finders, pc[f] = "search", queue[f] # <<>>, ~overlapped[f],
           NEW t, t = Head(queue[f]).token, NEW path, path = Head(queue[f]).path,
           NEW i \in Fresh(f, t), Other(edges[t][i], t) = To(f)
    PROVE  Near(query[f], Append(path, Edge(edges[t][i])))
<1>1. IInv /\ Shapes /\ Listed /\ Frontier(f) /\ ~Adjacent(From(f), To(f))
  BY DEF NearInv, IInv, Seen
<1>2. t \in Tokens /\ path \in Seq(Edges) /\ t = queue[f][1].token /\ path = queue[f][1].path
      /\ 1 \in DOMAIN queue[f]
  BY <1>1, QueueHead
<1>3. i \in DOMAIN edges[t]
  BY DEF Fresh
<1>4. Adjacent(t, To(f))
  BY <1>1, <1>2, <1>3, OtherIsAdjacent
<1>5. Len(Append(path, Edge(edges[t][i]))) = Len(path) + 1
  BY <1>2
<1>6. t # From(f)
  BY <1>1, <1>4
<1>7. /\ \A u \in Tokens : TwoHops(query[f], u) =>
                \E j \in DOMAIN queue[f] : queue[f][j].token = u /\ Len(queue[f][j].path) = 1
      /\ \A j \in DOMAIN queue[f] : Len(queue[f][j].path) = 1 =>
                \A m \in 1..j : Len(queue[f][m].path) = 1
  BY <1>1, <1>2, <1>6 DEF Frontier
<1>8. ASSUME NEW u \in Tokens, TwoHops(query[f], u) PROVE Len(path) = 1
  <2>1. PICK j \in DOMAIN queue[f] : Len(queue[f][j].path) = 1
    BY <1>7, <1>8
  <2>2. 1 \in 1..j
    BY <1>1, <2>1 DEF IInv, Shapes
  <2> QED
    BY <1>2, <1>7, <2>1, <2>2
<1>9. (\E u \in Tokens : TwoHops(query[f], u)) => Len(path) = 1
  BY <1>8
<1>10. ~Adjacent(query[f][1], query[f][2])
  BY <1>1 DEF From, To
<1> DEFINE r == Append(path, Edge(edges[t][i]))
<1>11. Len(r) = Len(path) + 1
  BY <1>5
<1> HIDE DEF r
<1>12. (\E u \in Tokens : TwoHops(query[f], u)) => Len(r) = 2
  <2> SUFFICES ASSUME \E u \in Tokens : TwoHops(query[f], u) PROVE Len(r) = 2
    OBVIOUS
  <2>1. Len(path) = 1
    BY <1>9
  <2> QED
    BY <1>11, <2>1, Successor, Zenon
<1>13. Near(query[f], r)
  BY <1>10, <1>12 DEF Near
<1> QED
  BY <1>13 DEF r

\* The search of call f takes token t off its queue, whose unvisited neighbours,
\* by their indices s, follow the others.
Advance(f, t, s) ==
    /\ t = Head(queue[f]).token
    /\ {i \in Fresh(f, t) : Other(edges[t][i], t) = To(f)} = {}
    /\ s \in InOrder(Fresh(f, t)) /\ UNCHANGED graph /\ query'[f] = query[f]
    /\ queue'[f] = Rest(f, t, s) \o Queued(f, t, s)
    /\ visited'[f] = visited[f] \cup {Other(edges[t][i], t) : i \in Fresh(f, t)}

\* If the head of the queue does not lead to the second token, its neighbours
\* take its place, behind everything that is at most as far away.
LEMMA FrontierKept ==
    ASSUME NearInv, NEW f \in Finders, pc[f] = "search", queue[f] # <<>>, ~overlapped[f],
           NEW t, NEW s, Advance(f, t, s)
    PROVE  Frontier(f)'
<1> DEFINE path  == Head(queue[f]).path
           new   == Queued(f, t, s)
           rest  == Rest(f, t, s)
           fresh == Fresh(f, t)
<1>1. IInv /\ Shapes /\ Listed /\ Frontier(f) /\ ~Adjacent(From(f), To(f)) /\ From(f) # To(f)
  BY DEF NearInv, IInv, Seen
<1>2. t \in Tokens /\ path \in Seq(Edges) /\ t = queue[f][1].token /\ path = queue[f][1].path
      /\ t = Head(queue[f]).token
  BY <1>1, QueueHead DEF Advance
<1>3. s \in Seq(fresh) /\ s \in Seq(DOMAIN edges[t])
  BY <1>1, <1>2, FreshOrder DEF Advance
<1>4. /\ Len(queue[f]) \in Nat /\ DOMAIN queue[f] = 1..Len(queue[f]) /\ 1 \in DOMAIN queue[f]
      /\ \A i \in DOMAIN queue[f] : Len(queue[f][i].path) \in Nat
  BY <1>1, QueueHead
<1>5. /\ From(f)' = From(f) /\ To(f)' = To(f)
      /\ \A u : TwoHops(query[f], u)' <=> TwoHops(query[f], u)
  BY NearFrame DEF Advance, From, To, TwoHops
<1>6. rest \in Seq(Items) /\ Len(rest) = Len(queue[f]) - 1
  BY <1>1, <1>2, <1>3, RestType
<1>7. Len(path) \in Nat /\ Len(rest) \in Nat /\ DOMAIN rest = 1..Len(rest)
  <2> HIDE DEF rest, path
  <2> QED
    BY <1>2, <1>6
<1>8. new \in Seq(Items) /\ Len(new) = Len(s)
  BY <1>1, <1>2, <1>3, QueuedType
<1>9. \A i \in fresh : Other(edges[t][i], t) # To(f)
  BY DEF Advance
<1>10. visited'[f] = visited[f] \cup {Other(edges[t][i], t) : i \in fresh}
  BY DEF Advance
<1>11. ASSUME NEW u, Adjacent(t, u), u \notin visited[f]
       PROVE  \E i \in fresh : Other(edges[t][i], t) = u
  BY <1>1, <1>2, <1>11, FreshReaches
<1>12. queue'[f] = rest \o new
  BY DEF Advance
<1>13. \A i \in 1..Len(rest) : /\ i + 1 \in DOMAIN queue[f] /\ rest[i].token = queue[f][i + 1].token
                                /\ Len(rest[i].path) = Len(queue[f][i + 1].path)
  <2>1. \A i \in DOMAIN rest : i + 1 \in DOMAIN queue[f] /\ Kept(queue[f][i + 1], rest[i])
    BY <1>1, <1>2, <1>3, RestType
  <2> HIDE DEF rest
  <2> QED
    BY <1>7, <2>1 DEF Kept
<1>14. DOMAIN s = 1..Len(s) /\ Len(s) \in Nat
  BY <1>3
<1>15. \A i \in fresh : \E n \in DOMAIN s : s[n] = i
  <2>1. edges[t] \in Seq(Pairs)
    BY <1>1, <1>2 DEF Shapes
  <2>2. Len(edges[t]) \in Nat /\ DOMAIN edges[t] = 1..Len(edges[t])
    BY <2>1
  <2>3. fresh \subseteq DOMAIN edges[t]
    BY DEF Fresh
  <2>4. s \in InOrder(fresh)
    BY DEF Advance
  <2> HIDE DEF fresh
  <2>5. fresh \in SUBSET (1..Len(edges[t]))
    BY <2>2, <2>3
  <2> QED
    BY <2>2, <2>4, <2>5, InOrderOnto
<1>16. \A n \in DOMAIN s : /\ new[n].token = Other(edges[t][s[n]], t)
                           /\ Len(new[n].path) = Len(path) + 1
  BY <1>1, <1>2, <1>3, QueuedType
<1> HIDE DEF fresh, rest, new, path
<1> DEFINE q == rest \o new
<1>19. Len(q) = Len(rest) + Len(s) /\ DOMAIN q = 1..Len(rest) + Len(s)
  <2>1. Len(rest \o new) = Len(rest) + Len(new) /\ DOMAIN (rest \o new) = 1..Len(rest) + Len(new)
    BY <1>6, <1>8, ConcatType
  <2> QED
    BY <1>8, <2>1
<1>20. ASSUME NEW i \in 1..Len(rest)
       PROVE  /\ q[i].token = queue[f][i + 1].token /\ i + 1 \in DOMAIN queue[f]
              /\ Len(q[i].path) = Len(queue[f][i + 1].path)
  <2>1. q[i] = rest[i]
    BY <1>6, <1>8, ConcatType
  <2> QED
    BY <1>13, <2>1
<1>21. ASSUME NEW n \in 1..Len(s) PROVE q[Len(rest) + n] = new[n] /\ Len(rest) + n \in DOMAIN q
  <2>1. q[Len(rest) + n] = new[n]
    BY <1>6, <1>8, ConcatType
  <2>2. Len(rest) + n \in 1..Len(rest) + Len(s)
    BY <1>7, <1>14
  <2> QED
    BY <1>19, <2>1, <2>2
<1> HIDE DEF q
<1>22. ASSUME NEW i \in DOMAIN q, i \notin 1..Len(rest) PROVE Len(q[i].path) = Len(path) + 1
  <2>1. i - Len(rest) \in 1..Len(s) /\ Len(rest) + (i - Len(rest)) = i
    BY <1>7, <1>14, <1>19, <1>22
  <2>2. q[i] = new[i - Len(rest)]
    BY <1>21, <2>1
  <2> QED
    BY <1>14, <1>16, <2>1, <2>2
<1>23. To(f)' \notin visited'[f]
  <2>1. To(f) \notin visited[f]
    BY <1>1 DEF Frontier
  <2> QED
    BY <1>5, <1>9, <1>10, <2>1
<1>24. ASSUME NEW u, Adjacent(t, u), u \notin visited[f]
       PROVE  \E i \in DOMAIN q : q[i].token = u /\ i \notin 1..Len(rest)
  <2>1. PICK i \in fresh : Other(edges[t][i], t) = u
    BY <1>11, <1>24
  <2>2. PICK n \in DOMAIN s : s[n] = i
    BY <1>15, <2>1
  <2>3. n \in 1..Len(s) /\ new[n].token = u
    BY <1>14, <1>16, <2>1, <2>2
  <2>4. Len(rest) + n \notin 1..Len(rest)
    BY <1>7, <2>3
  <2> QED
    BY <1>21, <2>3, <2>4
<1>25. /\ \A i \in DOMAIN q : Len(q[i].path) > 0
       /\ \A j \in DOMAIN q : Len(q[j].path) = 1 => \A i \in 1..j : Len(q[i].path) = 1
       /\ \A u \in Tokens : TwoHops(query[f], u) =>
              \E i \in DOMAIN q : q[i].token = u /\ Len(q[i].path) = 1
  <2>1. CASE queue[f] = <<[token |-> From(f), path |-> <<>>, arr |-> From(f)]>> /\ visited[f] = {From(f)}
    <3>1. Len(queue[f]) = 1 /\ t = From(f) /\ path = <<>>
      BY <1>2, <2>1 DEF path
    <3>2. Len(rest) = 0 /\ Len(path) = 0
      BY <1>6, <3>1
    <3>3. ASSUME NEW i \in DOMAIN q PROVE Len(q[i].path) = 1
      <4>1. i \notin 1..Len(rest)
        BY <3>2
      <4>2. Len(q[i].path) = Len(path) + 1
        BY <1>22, <4>1
      <4> QED
        BY <3>2, <4>2
    <3>4. ASSUME NEW u \in Tokens, TwoHops(query[f], u)
          PROVE  \E i \in DOMAIN q : q[i].token = u
      <4>1. Adjacent(t, u)
        BY <3>1, <3>4 DEF TwoHops, From
      <4>2. u # t
        BY <1>1, <1>2, <4>1, AdjacentIsListed
      <4> QED
        BY <1>24, <2>1, <3>1, <4>1, <4>2
    <3>5. ASSUME NEW j \in DOMAIN q, NEW i \in 1..j PROVE i \in DOMAIN q
      BY <1>7, <1>14, <1>19, <3>5
    <3>6. ASSUME NEW i \in DOMAIN q PROVE Len(q[i].path) > 0
      <4>1. Len(q[i].path) = 1
        BY <3>3
      <4> QED
        BY <4>1
    <3>7. ASSUME NEW j \in DOMAIN q, NEW i \in 1..j PROVE Len(q[i].path) = 1
      BY <3>3, <3>5
    <3>8. ASSUME NEW u \in Tokens, TwoHops(query[f], u)
          PROVE  \E i \in DOMAIN q : q[i].token = u /\ Len(q[i].path) = 1
      BY <3>3, <3>4, <3>8
    <3> QED
      BY <3>6, <3>7, <3>8, Zenon
  <2>2. CASE /\ \A i \in DOMAIN queue[f] : Len(queue[f][i].path) > 0
             /\ \A j \in DOMAIN queue[f] : Len(queue[f][j].path) = 1 =>
                    \A i \in 1..j : Len(queue[f][i].path) = 1
             /\ \A u \in Tokens : TwoHops(query[f], u) =>
                    \E i \in DOMAIN queue[f] : queue[f][i].token = u /\ Len(queue[f][i].path) = 1
    <3>1. Len(path) > 0
      BY <1>2, <1>4, <2>2
    <3>2. Len(path) + 1 > 1 /\ Len(path) + 1 > 0 /\ Len(path) + 1 # 1
      BY <1>7, <3>1
    <3>3. ASSUME NEW i \in DOMAIN q PROVE Len(q[i].path) > 0
      <4>1. CASE i \in 1..Len(rest)
        BY <1>20, <2>2, <4>1
      <4>2. CASE i \notin 1..Len(rest)
        BY <1>22, <3>2, <4>2
      <4> QED
        BY <4>1, <4>2
    <3>4. ASSUME NEW j \in DOMAIN q, Len(q[j].path) = 1, NEW i \in 1..j
          PROVE  Len(q[i].path) = 1
      <4>1. j \in 1..Len(rest)
        BY <1>22, <3>2, <3>4
      <4>2. i \in 1..Len(rest) /\ i + 1 \in 1..j + 1
        BY <1>7, <3>4, <4>1
      <4>3. j + 1 \in DOMAIN queue[f] /\ Len(queue[f][j + 1].path) = 1
        BY <1>20, <3>4, <4>1
      <4>4. Len(queue[f][i + 1].path) = 1
        BY <2>2, <4>2, <4>3
      <4> QED
        BY <1>20, <4>2, <4>4
    <3>5. ASSUME NEW u \in Tokens, TwoHops(query[f], u)
          PROVE  \E i \in DOMAIN q : q[i].token = u /\ Len(q[i].path) = 1
      <4>1. PICK j \in DOMAIN queue[f] : queue[f][j].token = u /\ Len(queue[f][j].path) = 1
        BY <2>2, <3>5
      <4>2. j # 1
        <5> SUFFICES ASSUME j = 1 PROVE FALSE
          OBVIOUS
        <5>1. Adjacent(t, To(f))
          BY <1>2, <3>5, <4>1 DEF TwoHops, To
        <5>2. To(f) \notin visited[f]
          BY <1>1 DEF Frontier
        <5> QED
          BY <1>9, <1>11, <5>1, <5>2
      <4>3. j - 1 \in 1..Len(rest) /\ (j - 1) + 1 = j
        BY <1>4, <1>6, <4>1, <4>2
      <4>4. j - 1 \in DOMAIN q
        BY <1>7, <1>14, <1>19, <4>3
      <4>5. q[j - 1].token = queue[f][j].token /\ Len(q[j - 1].path) = Len(queue[f][j].path)
        BY <1>20, <4>3
      <4> QED
        BY <4>1, <4>4, <4>5
    <3> QED
      BY <3>3, <3>4, <3>5, Zenon
  <2> QED
    BY <1>1, <2>1, <2>2 DEF Frontier
<1>26. queue'[f] = q
  BY <1>12 DEF q
<1>27. /\ \A i \in DOMAIN queue'[f] : Len(queue'[f][i].path) > 0
       /\ \A j \in DOMAIN queue'[f] : Len(queue'[f][j].path) = 1 =>
             \A i \in 1..j : Len(queue'[f][i].path) = 1
       /\ \A u \in Tokens : TwoHops(query[f], u)' =>
             \E i \in DOMAIN queue'[f] : queue'[f][i].token = u /\ Len(queue'[f][i].path) = 1
  BY <1>5, <1>25, <1>26
<1> QED
  BY <1>23, <1>27 DEF Frontier

LEMMA SeenExpand == ASSUME NearInv, NEW f \in Finders, Expand(f) PROVE Seen(f)'
<1> DEFINE t     == Head(queue[f]).token
           path  == Head(queue[f]).path
           fresh == Fresh(f, t)
           goal  == {i \in fresh : Other(edges[t][i], t) = To(f)}
<1>1. /\ pc[f] = "search" /\ queue[f] # <<>> /\ UNCHANGED graph
      /\ query'[f] = query[f] /\ overlapped'[f] = overlapped[f]
      /\ IInv /\ Marked /\ Seen(f)
  BY DEF Expand, NearInv
<1>2. ASSUME NEW i \in goal, Found(f, Append(path, Edge(edges[t][i]))) PROVE Seen(f)'
  <2>1. ~overlapped[f] => Near(query[f], Append(path, Edge(edges[t][i])))
    BY <1>1, GoalIsNear
  <2> QED
    BY <1>1, <1>2, <2>1, SeenFound
<1>3. ASSUME NEW s \in InOrder(fresh), goal = {}, UNCHANGED <<pc, found>>,
             queue' = [queue EXCEPT ![f] = Rest(f, t, s) \o Queued(f, t, s)],
             visited' = [visited EXCEPT ![f] = @ \cup {Other(edges[t][i], t) : i \in fresh}]
      PROVE  Seen(f)'
  <2>1. queue'[f] = Rest(f, t, s) \o Queued(f, t, s)
    BY <1>1, <1>3 DEF IInv, Shapes
  <2>2. visited'[f] = visited[f] \cup {Other(edges[t][i], t) : i \in fresh}
    BY <1>1, <1>3 DEF Marked
  <2>3. ~overlapped[f] => Frontier(f)'
    <3>1. Advance(f, t, s)
      BY <1>1, <1>3, <2>1, <2>2 DEF Advance
    <3> QED
      BY <1>1, <3>1, FrontierKept
  <2>4. /\ From(f)' = From(f) /\ To(f)' = To(f) /\ From(f) # To(f)
        /\ pc'[f] = "search" /\ (~overlapped[f] => ~Adjacent(From(f), To(f)))
    BY <1>1, <1>3 DEF From, To, Seen
  <2> HIDE DEF t, path, fresh
  <2> QED
    BY <1>1, <2>3, <2>4, NearFrame DEF Seen
<1> QED
  BY <1>2, <1>3 DEF Expand

\* The queue of a search runs empty only if no token is between the two.
LEMMA SeenNotFound == ASSUME NearInv, NEW f \in Finders, NotFound(f) PROVE Seen(f)'
<1>1. /\ pc[f] = "search" /\ queue[f] = <<>> /\ UNCHANGED graph /\ Found(f, NoPath)
      /\ query'[f] = query[f] /\ overlapped'[f] = overlapped[f]
      /\ IInv /\ Seen(f)
  BY DEF NotFound, NearInv
<1>2. ASSUME ~overlapped[f] PROVE Near(query[f], NoPath)
  <2>1. Frontier(f) /\ ~Adjacent(query[f][1], query[f][2])
    BY <1>1, <1>2 DEF Seen, From, To
  <2>2. queue[f] # <<[token |-> From(f), path |-> <<>>, arr |-> From(f)]>>
    BY <1>1
  <2>3. DOMAIN queue[f] = {}
    BY <1>1
  <2>4. \A u \in Tokens : ~TwoHops(query[f], u)
    BY <2>1, <2>2, <2>3 DEF Frontier
  <2> QED
    BY <2>1, <2>4 DEF Near
<1> QED
  BY <1>1, <1>2, SeenFound

\* Only an idle call holds nothing that a change of a pair could outdate.
LEMMA NearAddPair ==
    ASSUME NearInv, NEW p \in Pairs, NEW v \in Versions[p], AddPair(p, v)
    PROVE  (\A f \in Finders : Seen(f)') /\ NearestRight'
<1>1. ASSUME NEW f \in Finders PROVE Seen(f)'
  <2>1. /\ pc'[f] = pc[f] /\ query'[f] = query[f] /\ Seen(f)
        /\ overlapped'[f] <=> overlapped[f] \/ pc[f] # "idle"
    BY DEF AddPair, NearInv
  <2>2. pc[f] # "idle" => overlapped'[f]
    BY <2>1
  <2> QED
    BY <2>1, <2>2 DEF Seen, From, To
<1>2. v # 0 /\ \A r \in Pairs : r # p => version'[r] = version[r]
  BY GraphAssumption DEF AddPair, NearInv, IInv, Shapes
<1>3. ASSUME NEW t, t \notin EndsOf(p), NEW u
      PROVE  (Adjacent(t, u)' <=> Adjacent(t, u)) /\ (Adjacent(u, t)' <=> Adjacent(u, t))
  <2>1. EndsOf(p) # {t, u} /\ EndsOf(p) # {u, t}
    BY <1>3
  <2>2. \A r \in Pairs : r # p => (Known(r)' <=> Known(r))
    BY <1>2 DEF Known
  <2> QED
    BY <2>1, <2>2 DEF Adjacent
<1>4. ASSUME NEW k \in Certain' PROVE Near(k, pathCache[k])'
  <2>1. k \in Certain /\ ~Affected(k, p) /\ pathCache'[k] = pathCache[k]
    BY <1>4 DEF Certain, AddPair
  <2>2. k[1] \notin EndsOf(p) /\ k[2] \notin EndsOf(p)
    BY <2>1 DEF Affected
  <2>3. (Adjacent(k[1], k[2])' <=> Adjacent(k[1], k[2]))
        /\ \A t : TwoHops(k, t)' <=> TwoHops(k, t)
    BY <1>3, <2>2 DEF TwoHops
  <2>4. Near(k, pathCache[k])
    BY <2>1 DEF NearInv, NearestRight, Near, TwoHops
  <2> QED
    BY <2>1, <2>3, <2>4 DEF Near
<1> QED
  BY <1>1, <1>4 DEF NearestRight, Near, TwoHops

\* A step of a call changes what that call has seen only.
LEMMA SeenStep ==
    ASSUME NearInv, NEW f \in Finders, FindPath(f), NEW g \in Finders
    PROVE  Seen(g)'
<1>1. UNCHANGED graph
  BY DEF FindPath, Lookup, Direct, WethDirect, FirstLegs, SecondLeg, Expand, NotFound, Store
<1>2. CASE g # f
  <2>1. /\ pc'[g] = pc[g] /\ query'[g] = query[g] /\ overlapped'[g] = overlapped[g]
        /\ found'[g] = found[g] /\ queue'[g] = queue[g] /\ visited'[g] = visited[g]
    <3> USE <1>2 DEF NearInv, IInv, Shapes, Marked, Goto, Found, Search
    <3>1. CASE \E q \in Queries : Lookup(f, q)
      BY <3>1 DEF Lookup
    <3>2. CASE Direct(f)
      BY <3>2 DEF Direct
    <3>3. CASE WethDirect(f)
      BY <3>3 DEF WethDirect
    <3>4. CASE FirstLegs(f)
      BY <3>4 DEF FirstLegs
    <3>5. CASE SecondLeg(f)
      BY <3>5 DEF SecondLeg
    <3>6. CASE Expand(f)
      BY <3>6 DEF Expand
    <3>7. CASE NotFound(f) \/ Store(f)
      BY <3>7 DEF NotFound, Store
    <3> QED
      BY <3>1, <3>2, <3>3, <3>4, <3>5, <3>6, <3>7 DEF FindPath
  <2> QED
    BY <1>1, <2>1, SeenFrame DEF NearInv
<1>3. CASE g = f
  <2>1. ASSUME NEW q \in Queries, Lookup(f, q) PROVE Seen(f)'
    <3>1. pc'[f] = "direct" /\ query'[f] = q /\ q[1] # q[2]
      BY <2>1 DEF Lookup, Goto, NearInv, IInv, Shapes
    <3> QED
      BY <3>1 DEF Seen, From, To
  <2>2. ASSUME Store(f) PROVE Seen(f)'
    <3>1. pc'[f] = "idle"
      BY <2>2 DEF Store, Goto, NearInv, IInv, Shapes
    <3> QED
      BY <3>1 DEF Seen
  <2> QED
    BY <1>3, <2>1, <2>2, SeenDirect, SeenWeth, SeenFirstLegs, SeenSecondLeg, SeenExpand,
       SeenNotFound DEF FindPath
<1> QED
  BY <1>2, <1>3

\* What is stored is as short as one or two hops allow.
LEMMA NearStore ==
    ASSUME NearInv, NEW f \in Finders, FindPath(f)
    PROVE  NearestRight'
<1>1. UNCHANGED graph
  BY DEF FindPath, Lookup, Direct, WethDirect, FirstLegs, SecondLeg, Expand, NotFound, Store
<1>2. ASSUME NEW k \in Certain' PROVE Near(k, pathCache'[k])
  <2>1. CASE Store(f) /\ k = query[f]
    <3>1. ~overlapped[f] /\ pathCache'[k] = found[f] /\ pc[f] = "store"
      BY <1>2, <2>1 DEF Store, Certain
    <3> QED
      BY <2>1, <3>1 DEF NearInv, Seen
  <2>2. CASE ~Store(f) \/ k # query[f]
    <3>1. k \in Certain /\ pathCache'[k] = pathCache[k]
      <4>1. CASE Store(f)
        BY <1>2, <2>2, <4>1 DEF Store, Certain
      <4>2. CASE ~Store(f)
        <5>1. UNCHANGED cached
          BY <4>2 DEF FindPath, Lookup, Direct, WethDirect, FirstLegs, SecondLeg, Expand, NotFound
        <5> QED
          BY <1>2, <5>1 DEF Certain, cached
      <4> QED
        BY <4>1, <4>2
    <3> QED
      BY <3>1 DEF NearInv, NearestRight, Near, TwoHops
  <2> QED
    BY <2>1, <2>2
<1>3. \A k \in Certain' : Near(k, pathCache[k])'
  BY <1>1, <1>2, NearFrame DEF Near, TwoHops, graph, Adjacent, Known
<1> QED
  BY <1>3 DEF NearestRight, Near, TwoHops

\* What a search puts into its queue it marks as visited.
LEMMA MarkedStep ==
    ASSUME IInv, Marked, NEW f \in Finders, FindPath(f)
    PROVE  Marked'
<1>2. ASSUME Search(f), pc[f] # "idle" PROVE Marked'
  <2>1. From(f) \in Tokens
    BY <1>2, QueryType DEF IInv
  <2>2. /\ queue' = [queue EXCEPT ![f] = <<[token |-> From(f), path |-> <<>>, arr |-> From(f)]>>]
        /\ visited' = [visited EXCEPT ![f] = {From(f)}]
    BY <1>2 DEF Search
  <2> QED
    BY <2>1, <2>2 DEF IInv, Shapes, Marked
<1>3. CASE (\E q \in Queries : Lookup(f, q)) \/ WethDirect(f) \/ Store(f)
  BY <1>3 DEF Lookup, WethDirect, Store, Marked
<1>4. CASE Direct(f) \/ FirstLegs(f) \/ SecondLeg(f)
  <2>1. CASE UNCHANGED <<queue, visited>>
    BY <2>1 DEF Marked
  <2>2. CASE Search(f)
    BY <1>2, <1>4, <2>2 DEF Direct, FirstLegs, SecondLeg
  <2> QED
    BY <1>4, <2>1, <2>2 DEF Direct, FirstLegs, SecondLeg
<1>5. CASE NotFound(f)
  BY <1>5 DEF NotFound, Marked
<1>6. CASE Expand(f)
  <2> DEFINE t     == Head(queue[f]).token
             fresh == Fresh(f, t)
  <2>1. CASE queue' = [queue EXCEPT ![f] = <<>>] /\ visited' = [visited EXCEPT ![f] = {}]
    BY <2>1 DEF IInv, Shapes, Marked
  <2>2. ASSUME NEW s \in InOrder(fresh),
               queue' = [queue EXCEPT ![f] = Rest(f, t, s) \o Queued(f, t, s)],
               visited' = [visited EXCEPT ![f] = @ \cup {Other(edges[t][i], t) : i \in fresh}]
        PROVE  Marked'
    <3> DEFINE new  == Queued(f, t, s)
               rest == Rest(f, t, s)
               v    == visited[f] \cup {Other(edges[t][i], t) : i \in fresh}
    <3>1. /\ t \in Tokens /\ queue[f] # <<>>
          /\ s \in Seq(fresh) /\ s \in Seq(DOMAIN edges[t])
      <4>1. t \in Tokens /\ queue[f] # <<>>
        BY <1>6, QueueHead DEF Expand
      <4> QED
        BY <2>2, <4>1, FreshOrder DEF IInv
    <3>2. \A i \in fresh : i \in DOMAIN edges[t]
      BY DEF Fresh
    <3>3. v \in SUBSET Tokens
      <4>1. \A i \in fresh : Other(edges[t][i], t) \in Tokens
        BY <3>1, <3>2, OtherIsAdjacent DEF IInv
      <4> QED
        BY <4>1 DEF Marked
    <3>4. /\ rest \in Seq(Items)
          /\ \A i \in DOMAIN rest : i + 1 \in DOMAIN queue[f] /\ rest[i].token = queue[f][i + 1].token
      <4> HIDE DEF t
      <4>1. rest \in Seq(Items)
        BY <3>1, RestType DEF t
      <4>2. \A i \in DOMAIN rest : i + 1 \in DOMAIN queue[f] /\ Kept(queue[f][i + 1], rest[i])
        BY <3>1, RestType DEF t
      <4> HIDE DEF rest
      <4> QED
        BY <4>1, <4>2 DEF Kept
    <3>5. \A i \in DOMAIN rest : rest[i].token \in v
      BY <3>4 DEF Marked
    <3>6. /\ new \in Seq(Items) /\ Len(new) = Len(s)
          /\ \A n \in DOMAIN s : new[n].token = Other(edges[t][s[n]], t)
      BY <3>1, QueuedType
    <3>7. \A n \in DOMAIN new : new[n].token \in v
      <4>1. \A n \in DOMAIN s : s[n] \in fresh
        <5> HIDE DEF fresh
        <5> QED
          BY <3>1
      <4> HIDE DEF new
      <4>2. DOMAIN new = DOMAIN s
        BY <3>1, <3>6
      <4> HIDE DEF fresh
      <4> QED
        BY <3>6, <4>1, <4>2
    <3> HIDE DEF new, rest
    <3>8. \A i \in DOMAIN (rest \o new) : (rest \o new)[i].token \in v
      <4> SUFFICES ASSUME NEW i \in DOMAIN (rest \o new) PROVE (rest \o new)[i].token \in v
        OBVIOUS
      <4>2. \/ i \in DOMAIN rest /\ (rest \o new)[i] = rest[i]
            \/ \E n \in DOMAIN new : (rest \o new)[i] = new[n]
        BY <3>4, <3>6, ConcatParts
      <4> HIDE DEF v
      <4> QED
        BY <3>5, <3>7, <4>2, Zenon
    <3>9. queue' = [queue EXCEPT ![f] = rest \o new] /\ visited' = [visited EXCEPT ![f] = v]
      BY <2>2 DEF new, rest
    <3>10. \A g \in Finders : /\ visited'[g] = IF g = f THEN v ELSE visited[g]
                              /\ queue'[g] = IF g = f THEN rest \o new ELSE queue[g]
      BY <3>9 DEF IInv, Shapes, Marked
    <3>11. visited' \in [Finders -> SUBSET Tokens]
      BY <3>3, <3>9 DEF Marked
    <3>12. queue'[f] = rest \o new /\ visited'[f] = v
      BY <3>10
    <3> HIDE DEF v
    <3>13. ASSUME NEW g \in Finders, NEW i \in DOMAIN queue'[g] PROVE queue'[g][i].token \in visited'[g]
      <4>1. CASE g = f
        BY <3>8, <3>12, <3>13, <4>1
      <4>2. CASE g # f
        BY <3>10, <3>13, <4>2 DEF Marked
      <4> QED
        BY <4>1, <4>2
    <3> QED
      BY <3>11, <3>13 DEF Marked
  <2> QED
    BY <1>6, <2>1, <2>2 DEF Expand
<1> QED
  BY <1>3, <1>4, <1>5, <1>6 DEF FindPath

LEMMA NearInvariant == Spec => []NearInv
<1>1. Init => NearInv
  <2> SUFFICES ASSUME Init PROVE NearInv
    OBVIOUS
  <2>1. Marked /\ (\A f \in Finders : Seen(f)) /\ NearestRight
    BY DEF Init, Marked, Seen, NearestRight, Certain
  <2> QED
    BY <2>1, GraphInit DEF NearInv
<1>2. NearInv /\ [Next]_vars => NearInv'
  <2> SUFFICES ASSUME NearInv, [Next]_vars PROVE NearInv'
    OBVIOUS
  <2>1. IInv'
    BY GraphStep DEF NearInv
  <2>2. ASSUME NEW p \in Pairs, NEW v \in Versions[p], AddPair(p, v) PROVE NearInv'
    <3>1. Marked'
      BY <2>2 DEF AddPair, NearInv, Marked
    <3> QED
      BY <2>1, <2>2, <3>1, NearAddPair DEF NearInv
  <2>3. ASSUME NEW f \in Finders, FindPath(f) PROVE NearInv'
    <3>1. Marked'
      BY <2>3, MarkedStep DEF NearInv
    <3> QED
      BY <2>1, <2>3, <3>1, SeenStep, NearStore DEF NearInv
  <2>4. CASE UNCHANGED vars
    <3>1. UNCHANGED <<graph, cached, search>>
      BY <2>4 DEF vars
    <3>2. \A f \in Finders : Seen(f)'
      BY <3>1, SeenFrame DEF NearInv, search
    <3>3. NearestRight'
      BY <3>1, NearFrame DEF NearInv, NearestRight, Certain, graph, cached, Adjacent, Known
    <3>4. Marked'
      BY <3>1 DEF NearInv, Marked, search
    <3> QED
      BY <2>1, <3>2, <3>3, <3>4 DEF NearInv
  <2> QED
    BY <2>2, <2>3, <2>4 DEF Next
<1> QED
  BY <1>1, <1>2, PTL DEF Spec

-----------------------------------------------------------------------------
(* The tokens that a path goes through.                                     *)

\* The edges of the path lead from token to token, from a to b.
Connects(path, a, b) ==
    \E way \in [0..Len(path) -> Tokens] :
        /\ way[0] = a /\ way[Len(path)] = b
        /\ \A n \in 1..Len(path) :
              way[n - 1] # way[n] /\ EndsOf(path[n].pair) = {way[n - 1], way[n]}

\* The first edge has the token, the second does not lead back to it.
Begins(path, a) ==
    /\ Len(path) >= 1 => a \in EndsOf(path[1].pair)
    /\ Len(path) >= 2 => a \notin EndsOf(path[2].pair)

\* What a path that is to be cached is for its key.
Linked(k, path) ==
    Begins(path, k[1]) /\ (Len(path) \in 1..4 => Connects(path, k[1], k[2]))

\* What an item of a queue is for the first token of the search: the first three
\* edges of its path are never overwritten.
Reaching(a, item) ==
    /\ item.token = a <=> item.path = <<>>
    /\ Begins(item.path, a)
    /\ Len(item.path) <= 3 => Connects(item.path, a, item.token)

\* What a call has found so far, whether or not pairs have changed meanwhile,
\* and the path it is about to store if none has.
Tied(f) ==
    /\ pc[f] = "second" =>
          \A i \in DOMAIN legs[f] : {From(f), Weth} \subseteq EndsOf(legs[f][i].pair)
    /\ pc[f] = "search" =>
          /\ From(f) \in visited[f]
          /\ \A i \in DOMAIN queue[f] : Reaching(From(f), queue[f][i])
    /\ pc[f] = "store" /\ ~overlapped[f] => Linked(query[f], found[f])

LinkInv ==
    NearInv /\ (\A f \in Finders : Tied(f)) /\ (\A k \in Certain : Linked(k, pathCache[k]))

-----------------------------------------------------------------------------
\* A pair has no end but its two.
LEMMA TwoEnds ==
    ASSUME NEW p \in Pairs, NEW t, NEW u, t # u, t \in EndsOf(p), u \in EndsOf(p)
    PROVE  EndsOf(p) = {t, u}
BY DEF EndsOf

\* The empty path leads from a token to itself.
LEMMA ConnectsNone == ASSUME NEW a \in Tokens PROVE Connects(NoPath, a, a) /\ Begins(NoPath, a)
<1> DEFINE way == [n \in 0..0 |-> a]
<1>1. Len(NoPath) = 0
  BY DEF NoPath
<1>2. way \in [0..0 -> Tokens] /\ way[0] = a
  OBVIOUS
<1>3. \A n \in 1..0 : FALSE
  OBVIOUS
<1> HIDE DEF way
<1>4. Connects(NoPath, a, a)
  BY <1>1, <1>2, <1>3 DEF Connects
<1>5. Begins(NoPath, a)
  BY <1>1 DEF Begins
<1> QED
  BY <1>4, <1>5

\* A path that leads to t, with an edge from t to u, leads to u.
LEMMA ConnectsAppend ==
    ASSUME NEW path \in Seq(Edges), NEW a, NEW t, NEW u \in Tokens, t # u,
           Connects(path, a, t), NEW e \in Edges, EndsOf(e.pair) = {t, u}
    PROVE  Connects(Append(path, e), a, u)
<1> DEFINE L == Len(path)
           q == Append(path, e)
<1>1. L \in Nat /\ Len(q) = L + 1 /\ q[L + 1] = e /\ \A n \in 1..L : q[n] = path[n]
  OBVIOUS
<1> HIDE DEF L, q
<1>2. PICK way \in [0..L -> Tokens] :
        /\ way[0] = a /\ way[L] = t
        /\ \A n \in 1..L : way[n - 1] # way[n] /\ EndsOf(path[n].pair) = {way[n - 1], way[n]}
  BY DEF Connects, L
<1> DEFINE long == [n \in 0..L + 1 |-> IF n = L + 1 THEN u ELSE way[n]]
<1>3. \A n \in 0..L : n \in 0..L + 1 /\ n # L + 1
  BY <1>1
<1>4. /\ long \in [0..L + 1 -> Tokens] /\ long[L + 1] = u
      /\ \A n \in 0..L : long[n] = way[n]
  <2>1. L + 1 \in 0..L + 1 /\ \A n \in 0..L + 1 : n # L + 1 => n \in 0..L
    BY <1>1
  <2> QED
    BY <1>3, <2>1
<1> HIDE DEF long
<1>5. long[0] = a /\ long[L] = t
  BY <1>1, <1>2, <1>4
<1>6. ASSUME NEW n \in 1..L + 1
      PROVE  long[n - 1] # long[n] /\ EndsOf(q[n].pair) = {long[n - 1], long[n]}
  <2>1. CASE n = L + 1
    <3>1. n - 1 = L
      BY <1>1, <2>1
    <3> QED
      BY <1>1, <1>4, <1>5, <2>1, <3>1
  <2>2. CASE n # L + 1
    <3>1. n \in 1..L /\ n - 1 \in 0..L /\ n \in 0..L
      BY <1>1, <2>2
    <3> QED
      BY <1>1, <1>2, <1>4, <3>1
  <2> QED
    BY <2>1, <2>2
<1>7. Connects(q, a, u)
  <2>1. Len(q) = L + 1
    BY <1>1
  <2> QED
    BY <1>4, <1>5, <1>6, <2>1 DEF Connects
<1> QED
  BY <1>7 DEF q

\* Its first two edges are those it had, unless the new one is among them.
LEMMA BeginsAppend ==
    ASSUME NEW path \in Seq(Edges), NEW a, Begins(path, a), NEW e \in Edges,
           path = <<>> => a \in EndsOf(e.pair), path # <<>> => a \notin EndsOf(e.pair)
    PROVE  Begins(Append(path, e), a)
<1> DEFINE q == Append(path, e)
<1>1. /\ Len(path) \in Nat /\ Len(q) = Len(path) + 1 /\ q[Len(path) + 1] = e
      /\ \A n \in 1..Len(path) : q[n] = path[n]
      /\ path = <<>> <=> Len(path) = 0
  OBVIOUS
<1> HIDE DEF q
<1>2. ASSUME Len(path) = 0 PROVE Begins(q, a)
  <2>1. Len(q) = 1 /\ q[1] = e
    BY <1>1, <1>2
  <2> QED
    BY <1>1, <1>2, <2>1 DEF Begins
<1>3. ASSUME Len(path) = 1 PROVE Begins(q, a)
  <2>1. Len(q) = 2 /\ q[2] = e /\ q[1] = path[1] /\ path # <<>>
    BY <1>1, <1>3
  <2> QED
    BY <1>3, <2>1 DEF Begins
<1>4. ASSUME Len(path) >= 2 PROVE Begins(q, a)
  <2>1. q[1] = path[1] /\ q[2] = path[2] /\ Len(path) >= 1
    BY <1>1, <1>4
  <2> QED
    BY <1>4, <2>1 DEF Begins
<1>5. Begins(q, a)
  <2>1. \A n \in Nat : n = 0 \/ n = 1 \/ n >= 2
    OBVIOUS
  <2>2. Len(path) \in Nat
    BY <1>1
  <2> QED
    BY <1>2, <1>3, <1>4, <2>1, <2>2, Zenon
<1> QED
  BY <1>5 DEF q

\* A single edge links its two tokens.
LEMMA LinkedDirect ==
    ASSUME NEW k \in Tokens \X Tokens, NEW e \in Edges, k[1] # k[2], EndsOf(e.pair) = {k[1], k[2]}
    PROVE  Linked(k, <<e>>) /\ Connects(<<e>>, k[1], k[2]) /\ Begins(<<e>>, k[1])
<1>1. k[1] \in Tokens /\ k[2] \in Tokens
  OBVIOUS
<1>2. NoPath \in Seq(Edges) /\ <<e>> = Append(NoPath, e)
  BY DEF NoPath
<1>3. Connects(<<e>>, k[1], k[2])
  BY <1>1, <1>2, ConnectsNone, ConnectsAppend
<1>4. Begins(<<e>>, k[1])
  BY <1>1, <1>2, ConnectsNone, BeginsAppend DEF NoPath
<1> QED
  BY <1>3, <1>4 DEF Linked

-----------------------------------------------------------------------------
(* Its steps.                                                               *)

\* What a call has found does not depend on the calls of others.
LEMMA TiedFrame ==
    ASSUME NEW g \in Finders, Tied(g),
           pc'[g] = pc[g], query'[g] = query[g], overlapped'[g] = overlapped[g], legs'[g] = legs[g],
           found'[g] = found[g], queue'[g] = queue[g], visited'[g] = visited[g]
    PROVE  Tied(g)'
BY DEF Tied, From

\* A search begins with the empty path to its first token.
LEMMA TiedSearch ==
    ASSUME NearInv, NEW f \in Finders, pc[f] # "idle", Search(f), query'[f] = query[f]
    PROVE  Tied(f)'
<1> DEFINE first == [token |-> From(f), path |-> <<>>, arr |-> From(f)]
<1>1. From(f) \in Tokens /\ From(f)' = From(f)
  BY QueryType DEF NearInv, IInv, From
<1>2. pc'[f] = "search" /\ visited'[f] = {From(f)} /\ queue'[f] = <<first>>
  BY DEF Search, Goto, NearInv, IInv, Shapes, Marked
<1>3. Reaching(From(f), first)
  <2>1. first.token = From(f) /\ first.path = NoPath
    BY DEF NoPath
  <2> HIDE DEF first
  <2>2. Connects(NoPath, From(f), From(f)) /\ Begins(NoPath, From(f))
    BY <1>1, ConnectsNone
  <2> QED
    BY <2>1, <2>2 DEF Reaching, NoPath
<1> HIDE DEF first
<1>4. \A i \in DOMAIN <<first>> : <<first>>[i] = first
  OBVIOUS
<1> QED
  BY <1>1, <1>2, <1>3, <1>4 DEF Tied

\* A call that has found a path stores it next.
LEMMA TiedFound ==
    ASSUME NearInv, NEW f \in Finders, NEW path, Found(f, path), query'[f] = query[f],
           overlapped'[f] = overlapped[f], ~overlapped[f] => Linked(query[f], path)
    PROVE  Tied(f)'
<1>1. pc'[f] = "store" /\ found'[f] = path
  BY DEF Found, Goto, NearInv, IInv, Shapes
<1> QED
  BY <1>1 DEF Tied

\* A single pair of both tokens links them.
LEMMA TiedEdge ==
    ASSUME NearInv, NEW f \in Finders, pc[f] # "idle", NEW p \in Pairs, Known(p),
           EndsOf(p) = {From(f), To(f)}
    PROVE  Linked(query[f], <<Edge(p)>>)
<1>1. query[f] \in Tokens \X Tokens /\ query[f][1] # query[f][2]
  BY GraphAssumption DEF NearInv, IInv, Shapes, Seen, From, To
<1>2. Edge(p) \in Edges /\ Edge(p).pair = p
  BY EdgeType DEF NearInv, IInv, Edge
<1> QED
  BY <1>1, <1>2, LinkedDirect DEF From, To

LEMMA TiedDirect == ASSUME NearInv, NEW f \in Finders, Direct(f) PROVE Tied(f)'
<1> DEFINE set    == {p \in Pairs : EndsOf(p) = {From(f), To(f)}}
           direct == First(edges[From(f)], set)
<1>1. pc[f] = "direct" /\ query'[f] = query[f] /\ overlapped'[f] = overlapped[f]
      /\ From(f) \in Tokens
  BY QueryType DEF Direct, NearInv, IInv
<1>2. ASSUME NEW p \in direct, Found(f, <<Edge(p)>>) PROVE Tied(f)'
  <2> HIDE DEF set
  <2>1. p \in Pairs /\ Known(p) /\ p \in set
    BY <1>1, FirstType DEF NearInv, IInv
  <2>2. EndsOf(p) = {From(f), To(f)}
    BY <2>1 DEF set
  <2> QED
    BY <1>1, <1>2, <2>1, <2>2, TiedEdge, TiedFound
<1>3. CASE Goto(f, "weth") \/ Goto(f, "legs")
  BY <1>3 DEF Tied, Goto, NearInv, IInv, Shapes
<1>4. CASE Search(f)
  BY <1>1, <1>4, TiedSearch
<1> QED
  BY <1>2, <1>3, <1>4 DEF Direct

LEMMA TiedWeth == ASSUME NearInv, NEW f \in Finders, WethDirect(f) PROVE Tied(f)'
<1> DEFINE other == IF From(f) = Weth THEN To(f) ELSE From(f)
           leg   == First(edges[other], WethPairs)
<1>1. /\ pc[f] = "weth" /\ query'[f] = query[f] /\ overlapped'[f] = overlapped[f]
      /\ From(f) \in Tokens /\ To(f) \in Tokens
  BY QueryType DEF WethDirect, NearInv, IInv
<1>2. From(f) # To(f) /\ Weth \in {From(f), To(f)}
  BY <1>1 DEF Seen, NearInv
<1>3. ASSUME NEW p \in leg, Found(f, <<Edge(p)>>) PROVE Tied(f)'
  <2>1. other \in Tokens /\ other # Weth /\ {other, Weth} = {From(f), To(f)}
    BY <1>1, <1>2
  <2>2. p \in Pairs /\ Known(p) /\ other \in EndsOf(p) /\ p \in WethPairs
    BY <1>1, <2>1, FirstType DEF NearInv, IInv
  <2>3. EndsOf(p) = {other, Weth}
    BY <2>1, <2>2 DEF EndsOf, WethPairs
  <2>4. EndsOf(p) = {From(f), To(f)}
    BY <2>1, <2>3
  <2> QED
    BY <1>1, <1>3, <2>2, <2>4, TiedEdge, TiedFound
<1>4. CASE Goto(f, "legs")
  BY <1>4 DEF Tied, Goto, NearInv, IInv, Shapes
<1> QED
  BY <1>3, <1>4 DEF WethDirect

\* The first legs are pairs of the first token and WETH.
LEMMA TiedFirstLegs == ASSUME NearInv, NEW f \in Finders, FirstLegs(f) PROVE Tied(f)'
<1> DEFINE list == edges[From(f)]
           toIt == {i \in DOMAIN list : list[i] \in WethPairs}
<1>1. pc[f] = "legs" /\ query'[f] = query[f] /\ overlapped'[f] = overlapped[f]
      /\ From(f) \in Tokens /\ From(f)' = From(f)
  BY QueryType DEF FirstLegs, NearInv, IInv, From
<1>2. list \in Seq(Pairs)
  BY <1>1 DEF NearInv, IInv, Shapes
<1>3. PICK toWeth \in InOrder(toIt) :
        /\ legs' = [legs EXCEPT ![f] = [n \in DOMAIN toWeth |-> Edge(list[toWeth[n]])]]
        /\ \/ toWeth # <<>> /\ Goto(f, "second") /\ UNCHANGED <<queue, visited>>
           \/ toWeth = <<>> /\ Search(f)
  BY DEF FirstLegs
<1>4. CASE Search(f)
  BY <1>1, <1>4, TiedSearch
<1>5. CASE Goto(f, "second")
  <2>1. toWeth \in Seq(toIt)
    <3>1. Len(list) \in Nat /\ toIt \in SUBSET (1..Len(list))
      BY <1>2
    <3> HIDE DEF toIt, list
    <3> QED
      BY <3>1, InOrderType
  <2>2. pc'[f] = "second" /\ legs'[f] = [n \in DOMAIN toWeth |-> Edge(list[toWeth[n]])]
    BY <1>3, <1>5 DEF Goto, NearInv, IInv, Shapes
  <2>3. ASSUME NEW n \in DOMAIN toWeth
        PROVE  {From(f), Weth} \subseteq EndsOf(list[toWeth[n]])
    <3>1. toWeth[n] \in toIt
      <4> HIDE DEF toIt
      <4> QED
        BY <2>1
    <3>2. From(f) \in EndsOf(list[toWeth[n]])
      BY <1>1, <3>1, ListType DEF NearInv, IInv
    <3> QED
      BY <3>1, <3>2 DEF WethPairs
  <2>4. \A n \in DOMAIN legs'[f] : {From(f), Weth} \subseteq EndsOf(legs'[f][n].pair)
    BY <2>2, <2>3 DEF Edge
  <2> QED
    BY <1>1, <2>2, <2>4 DEF Tied
<1> QED
  BY <1>3, <1>4, <1>5

\* Two legs link the tokens, neither of which is WETH if no pair has both.
LEMMA TiedSecondLeg ==
    ASSUME NearInv, NEW f \in Finders, Tied(f), SecondLeg(f)
    PROVE  Tied(f)'
<1> DEFINE leg == First(edges[To(f)], WethPairs)
           one == Head(legs[f])
<1>1. /\ pc[f] = "second" /\ query'[f] = query[f] /\ overlapped'[f] = overlapped[f]
      /\ From(f) \in Tokens /\ To(f) \in Tokens /\ From(f) # To(f) /\ From(f)' = From(f)
  BY QueryType DEF SecondLeg, NearInv, IInv, Seen, From
<1>2. legs[f] \in Seq(Edges) /\ legs[f] # <<>>
  BY <1>1 DEF NearInv, IInv, Shapes, Resting
<1>3. one \in Edges /\ one = legs[f][1] /\ 1 \in DOMAIN legs[f]
  BY <1>2
<1>4. {From(f), Weth} \subseteq EndsOf(one.pair) /\ one.pair \in Pairs
      /\ one.version \in Versions[one.pair]
  BY <1>1, <1>3 DEF Tied, Edges
<1>5. ASSUME NEW p \in leg, Found(f, <<one, Edge(p)>>) PROVE Tied(f)'
  <2>1. p \in Pairs /\ Known(p) /\ To(f) \in EndsOf(p) /\ Weth \in EndsOf(p)
    BY <1>1, FirstType DEF NearInv, IInv, WethPairs
  <2>2. Edge(p) \in Edges /\ Edge(p).pair = p
    BY <2>1, EdgeType DEF NearInv, IInv, Edge
  <2>3. ASSUME ~overlapped[f] PROVE Linked(query[f], <<one, Edge(p)>>)
    <3>1. ~Adjacent(From(f), To(f))
      BY <1>1, <2>3 DEF NearInv, Seen
    <3>2. To(f) # Weth
      <4>1. one = Edge(one.pair)
        BY <1>3, <2>3 DEF NearInv, IInv, ReadsCurrent, Current
      <4>2. Known(one.pair)
        <5>1. one.version = version[one.pair]
          BY <4>1 DEF Edge
        <5>2. 0 \notin Versions[one.pair]
          BY <1>4, GraphAssumption
        <5> QED
          BY <1>4, <5>1, <5>2 DEF Known
      <4>3. ASSUME To(f) = Weth PROVE FALSE
        <5>1. EndsOf(one.pair) = {From(f), To(f)}
          BY <1>1, <1>4, <4>3, TwoEnds
        <5> QED
          BY <1>4, <3>1, <4>2, <5>1 DEF Adjacent
      <4> QED
        BY <4>3
    <3>3. From(f) # Weth
      <4>1. ASSUME From(f) = Weth PROVE FALSE
        <5>1. EndsOf(p) = {From(f), To(f)}
          BY <1>1, <2>1, <4>1, TwoEnds
        <5> QED
          BY <2>1, <3>1, <5>1 DEF Adjacent
      <4> QED
        BY <4>1
    <3>4. EndsOf(one.pair) = {From(f), Weth} /\ EndsOf(Edge(p).pair) = {Weth, To(f)}
      BY <1>4, <2>1, <2>2, <3>2, <3>3, TwoEnds
    <3>5. Weth \in Tokens
      BY <2>1, GraphAssumption DEF EndsOf
    <3> DEFINE k == <<From(f), Weth>>
    <3>6. k \in Tokens \X Tokens /\ k[1] = From(f) /\ k[2] = Weth
      BY <1>1, <3>5
    <3>7. Connects(<<one>>, From(f), Weth) /\ Begins(<<one>>, From(f))
      <4> HIDE DEF k, one
      <4> QED
        BY <1>3, <3>3, <3>4, <3>6, LinkedDirect
    <3>8. <<one>> \in Seq(Edges) /\ <<one>> # <<>> /\ <<one, Edge(p)>> = Append(<<one>>, Edge(p))
      BY <1>3
    <3> HIDE DEF one, k
    <3>9. Connects(<<one, Edge(p)>>, From(f), To(f))
      BY <1>1, <2>2, <3>2, <3>4, <3>7, <3>8, ConnectsAppend
    <3>10. Begins(<<one, Edge(p)>>, From(f))
      <4>1. From(f) \notin EndsOf(Edge(p).pair)
        BY <1>1, <3>3, <3>4
      <4> QED
        BY <2>2, <3>7, <3>8, <4>1, BeginsAppend
    <3> QED
      BY <3>9, <3>10 DEF Linked, From, To
  <2> QED
    BY <1>1, <1>5, <2>3, TiedFound
<1>6. CASE Search(f)
  BY <1>1, <1>6, TiedSearch
<1>7. ASSUME legs' = [legs EXCEPT ![f] = Tail(@)], UNCHANGED pc PROVE Tied(f)'
  <2>1. \A i \in DOMAIN Tail(legs[f]) : i + 1 \in DOMAIN legs[f] /\ Tail(legs[f])[i] = legs[f][i + 1]
    BY <1>2, TailType
  <2>2. legs'[f] = Tail(legs[f]) /\ pc'[f] = "second"
    BY <1>1, <1>7 DEF NearInv, IInv, Shapes
  <2>3. \A i \in DOMAIN legs[f] : {From(f), Weth} \subseteq EndsOf(legs[f][i].pair)
    BY <1>1 DEF Tied
  <2>4. \A i \in DOMAIN legs'[f] : {From(f), Weth} \subseteq EndsOf(legs'[f][i].pair)
    BY <2>1, <2>2, <2>3
  <2> QED
    BY <1>1, <2>2, <2>4 DEF Tied
<1> QED
  BY <1>5, <1>6, <1>7 DEF SecondLeg

\* An item whose array is overwritten is to its search what it was.
LEMMA ReachingKept ==
    ASSUME NEW a, NEW x \in Items, NEW y \in Items, Kept(x, y), Reaching(a, x)
    PROVE  Reaching(a, y)
<1>1. /\ x.path \in Seq(Edges) /\ y.path \in Seq(Edges)
      /\ y.token = x.token /\ Len(y.path) = Len(x.path)
      /\ y.path[1] = x.path[1] /\ y.path[2] = x.path[2]
      /\ Len(x.path) <= 3 => y.path = x.path
  BY DEF Kept, Items
<1>2. y.path = <<>> <=> x.path = <<>>
  <2>1. ASSUME NEW p \in Seq(Edges) PROVE p = <<>> <=> Len(p) = 0
    OBVIOUS
  <2> QED
    BY <1>1, <2>1
<1>3. Begins(y.path, a)
  BY <1>1 DEF Reaching, Begins
<1> QED
  BY <1>1, <1>2, <1>3 DEF Reaching

\* The items of the unvisited neighbours lead to them.
LEMMA ReachingQueued ==
    ASSUME NearInv, NEW f \in Finders, pc[f] = "search", queue[f] # <<>>, Tied(f),
           NEW t, t = Head(queue[f]).token, NEW s \in Seq(DOMAIN edges[t]), s \in Seq(Fresh(f, t)),
           NEW n \in DOMAIN s
    PROVE  Reaching(From(f), Queued(f, t, s)[n])
<1> DEFINE path == Head(queue[f]).path
           item == Queued(f, t, s)[n]
           m    == IF Len(path) \in Room THEN Len(s) ELSE n
           u(i) == Other(edges[t][s[i]], t)
           e    == Edge(edges[t][s[m]])
<1>1. IInv /\ Shapes /\ Listed
  BY DEF NearInv, IInv
<1>2. t \in Tokens /\ path \in Seq(Edges) /\ 1 \in DOMAIN queue[f] /\ Head(queue[f]) = queue[f][1]
  BY <1>1, QueueHead
<1>3. Reaching(From(f), Head(queue[f])) /\ From(f) \in visited[f]
  BY <1>2 DEF Tied
<1>4. item.token = u(n) /\ item.path = Append(path, e) /\ Len(item.path) = Len(path) + 1
  BY <1>1, QueuedType DEF Extended
<1>5. m \in DOMAIN s
  OBVIOUS
<1>6. \A i \in DOMAIN s : u(i) \in Tokens /\ u(i) # t /\ u(i) # From(f)
                          /\ EndsOf(edges[t][s[i]]) = {t, u(i)}
  <2> SUFFICES ASSUME NEW i \in DOMAIN s
               PROVE  u(i) \in Tokens /\ u(i) # t /\ u(i) # From(f)
                      /\ EndsOf(edges[t][s[i]]) = {t, u(i)}
    OBVIOUS
  <2>1. s[i] \in DOMAIN edges[t] /\ s[i] \in Fresh(f, t)
    OBVIOUS
  <2>2. u(i) \notin visited[f]
    BY <2>1 DEF Fresh
  <2>3. Adjacent(t, u(i)) /\ u(i) \in Tokens /\ EndsOf(edges[t][s[i]]) = {t, u(i)}
    BY <1>1, <1>2, <2>1, OtherIsAdjacent
  <2>4. t # u(i)
    BY <1>1, <1>2, <2>3, AdjacentIsListed
  <2> QED
    BY <1>3, <2>2, <2>3, <2>4
<1>7. e \in Edges /\ e.pair = edges[t][s[m]]
  <2> HIDE DEF m
  <2>1. s[m] \in DOMAIN edges[t]
    BY <1>5
  <2>2. edges[t][s[m]] \in Pairs /\ Known(edges[t][s[m]])
    BY <1>1, <1>2, <2>1, ListType
  <2> QED
    BY <1>1, <2>2, EdgeType DEF Edge
<1>8. /\ Head(queue[f]).token = t /\ (t = From(f) <=> path = <<>>) /\ Begins(path, From(f))
      /\ Len(path) <= 3 => Connects(path, From(f), t)
  BY <1>3 DEF Reaching
<1>9. Len(path) \in Nat
  BY <1>2
<1>10. Len(path) <= 2 => m = n
  <2> HIDE DEF path
  <2>1. ASSUME NEW x \in Nat, x <= 2 PROVE x \notin Room
    <3>1. x = 0 \/ x = 1 \/ x = 2
      BY <2>1
    <3> QED
      BY <3>1, RoomAssumption
  <2> QED
    BY <1>9, <2>1
<1>11. EndsOf(e.pair) = {t, u(m)} /\ u(m) # From(f) /\ u(n) \in Tokens /\ u(n) # t /\ u(n) # From(f)
  <2> HIDE DEF m, u, e
  <2> QED
    BY <1>5, <1>6, <1>7
<1> HIDE DEF path, item, m, u, e
<1>12. Begins(item.path, From(f))
  <2>1. path = <<>> => From(f) \in EndsOf(e.pair)
    BY <1>8, <1>11
  <2>2. path # <<>> => From(f) \notin EndsOf(e.pair)
    BY <1>8, <1>11
  <2>3. path \in Seq(Edges)
    BY <1>2 DEF path
  <2>4. Begins(Append(path, e), From(f))
    BY <1>7, <1>8, <2>1, <2>2, <2>3, BeginsAppend
  <2> QED
    BY <1>4, <2>4
<1>13. ASSUME Len(item.path) <= 3 PROVE Connects(item.path, From(f), item.token)
  <2>1. Len(path) <= 2 /\ Len(path) <= 3
    BY <1>4, <1>9, <1>13
  <2>2. EndsOf(e.pair) = {t, u(n)} /\ Connects(path, From(f), t)
    BY <1>8, <1>10, <1>11, <2>1
  <2>3. path \in Seq(Edges)
    BY <1>2 DEF path
  <2> QED
    BY <1>4, <1>7, <1>11, <2>2, <2>3, ConnectsAppend
<1>14. item.token # From(f) /\ item.path # <<>>
  <2>1. Len(item.path) # 0
    BY <1>4, <1>9
  <2>2. Len(<<>>) = 0
    OBVIOUS
  <2>3. item.path # <<>>
    BY <2>1, <2>2, Zenon
  <2> QED
    BY <1>4, <1>11, <2>3
<1>15. Reaching(From(f), item)
  BY <1>12, <1>13, <1>14 DEF Reaching
<1> QED
  BY <1>15 DEF item

\* The search extends a path to the second token, or to tokens further on.
LEMMA TiedExpand ==
    ASSUME NearInv, NEW f \in Finders, Tied(f), Expand(f)
    PROVE  Tied(f)'
<1> DEFINE t     == Head(queue[f]).token
           path  == Head(queue[f]).path
           fresh == Fresh(f, t)
           goal  == {i \in fresh : Other(edges[t][i], t) = To(f)}
<1>1. /\ pc[f] = "search" /\ queue[f] # <<>> /\ UNCHANGED graph
      /\ query'[f] = query[f] /\ overlapped'[f] = overlapped[f] /\ From(f)' = From(f)
      /\ IInv /\ Shapes /\ Listed /\ Marked
  BY DEF Expand, NearInv, IInv, From
<1>2. t \in Tokens /\ path \in Seq(Edges) /\ 1 \in DOMAIN queue[f] /\ Head(queue[f]) = queue[f][1]
  BY <1>1, QueueHead
<1>3. Reaching(From(f), Head(queue[f])) /\ From(f) \in visited[f]
  BY <1>1, <1>2 DEF Tied
<1>4. ASSUME NEW i \in goal, Found(f, Append(path, Edge(edges[t][i]))) PROVE Tied(f)'
  <2> DEFINE p == edges[t][i]
  <2>1. From(f) # To(f) /\ To(f) \in Tokens
    BY <1>1, QueryType DEF NearInv, Seen
  <2>2. i \in DOMAIN edges[t] /\ Other(p, t) = To(f)
    BY DEF Fresh
  <2>3. p \in Pairs /\ Known(p) /\ EndsOf(p) = {t, To(f)} /\ t # To(f)
    <3>1. p \in Pairs /\ Known(p)
      BY <1>1, <1>2, <2>2, ListType
    <3>2. Adjacent(t, To(f)) /\ EndsOf(p) = {t, To(f)}
      BY <1>1, <1>2, <2>2, OtherIsAdjacent
    <3> QED
      BY <1>1, <1>2, <3>1, <3>2, AdjacentIsListed
  <2>4. Edge(p) \in Edges /\ Edge(p).pair = p
    BY <1>1, <2>3, EdgeType DEF Edge
  <2>5. /\ (t = From(f) <=> path = <<>>) /\ Begins(path, From(f)) /\ Len(path) \in Nat
        /\ Len(path) <= 3 => Connects(path, From(f), t)
    BY <1>2, <1>3 DEF Reaching
  <2> HIDE DEF t, path, p
  <2>6. Begins(Append(path, Edge(p)), From(f))
    <3>1. path = <<>> => From(f) \in EndsOf(Edge(p).pair)
      BY <2>3, <2>4, <2>5
    <3>2. path # <<>> => From(f) \notin EndsOf(Edge(p).pair)
      BY <2>1, <2>3, <2>4, <2>5
    <3> QED
      BY <1>2, <2>4, <2>5, <3>1, <3>2, BeginsAppend
  <2>7. ASSUME Len(Append(path, Edge(p))) \in 1..4
        PROVE  Connects(Append(path, Edge(p)), From(f), To(f))
    <3>1. Len(Append(path, Edge(p))) = Len(path) + 1
      BY <1>2, <2>4
    <3>2. Len(path) <= 3
      BY <2>5, <2>7, <3>1
    <3>3. Connects(path, From(f), t) /\ EndsOf(Edge(p).pair) = {t, To(f)}
      BY <2>3, <2>4, <2>5, <3>2
    <3> QED
      BY <1>2, <2>1, <2>3, <2>4, <3>3, ConnectsAppend
  <2>8. Linked(query[f], Append(path, Edge(p)))
    BY <2>6, <2>7 DEF Linked, From, To
  <2> QED
    BY <1>1, <1>4, <2>8, TiedFound DEF p, path, t
<1>5. ASSUME NEW s \in InOrder(fresh), UNCHANGED pc,
             queue' = [queue EXCEPT ![f] = Rest(f, t, s) \o Queued(f, t, s)],
             visited' = [visited EXCEPT ![f] = @ \cup {Other(edges[t][i], t) : i \in fresh}]
      PROVE  Tied(f)'
  <2> DEFINE new  == Queued(f, t, s)
             rest == Rest(f, t, s)
  <2>1. s \in Seq(fresh) /\ s \in Seq(DOMAIN edges[t])
    BY <1>1, <1>2, FreshOrder
  <2>2. queue'[f] = rest \o new /\ pc'[f] = "search"
    BY <1>1, <1>5 DEF Shapes
  <2>3. From(f) \in visited'[f]
    <3>1. visited[f] \subseteq visited'[f]
      <4> HIDE DEF fresh, t
      <4> QED
        BY <1>5 DEF Marked, NearInv
    <3> QED
      BY <1>3, <3>1
  <2> HIDE DEF t
  <2>4. /\ rest \in Seq(Items) /\ new \in Seq(Items) /\ Len(new) = Len(s)
        /\ \A i \in DOMAIN rest : i + 1 \in DOMAIN queue[f] /\ Kept(queue[f][i + 1], rest[i])
    <3>1. rest \in Seq(Items)
      BY <1>1, <2>1, RestType DEF t
    <3>2. \A i \in DOMAIN rest : i + 1 \in DOMAIN queue[f] /\ Kept(queue[f][i + 1], rest[i])
      BY <1>1, <2>1, RestType DEF t
    <3>3. new \in Seq(Items) /\ Len(new) = Len(s)
      BY <1>1, <2>1, QueuedType DEF t
    <3> QED
      BY <3>1, <3>2, <3>3
  <2>5. \A n \in DOMAIN s : Reaching(From(f), new[n])
    BY <1>1, <2>1, ReachingQueued DEF t
  <2> HIDE DEF new, rest
  <2>6. \A i \in DOMAIN rest : Reaching(From(f), rest[i])
    <3> SUFFICES ASSUME NEW i \in DOMAIN rest PROVE Reaching(From(f), rest[i])
      OBVIOUS
    <3>1. queue[f] \in Seq(Items) /\ i + 1 \in DOMAIN queue[f]
      BY <1>1, <2>4 DEF Shapes
    <3>2. queue[f][i + 1] \in Items /\ rest[i] \in Items /\ Kept(queue[f][i + 1], rest[i])
      BY <2>4, <3>1
    <3>3. Reaching(From(f), queue[f][i + 1])
      BY <1>1, <3>1 DEF Tied
    <3> QED
      BY <3>2, <3>3, ReachingKept
  <2>7. DOMAIN new = DOMAIN s
    BY <2>1, <2>4
  <2>8. ASSUME NEW i \in DOMAIN (rest \o new) PROVE Reaching(From(f), (rest \o new)[i])
    <3>1. \/ i \in DOMAIN rest /\ (rest \o new)[i] = rest[i]
          \/ \E n \in DOMAIN new : (rest \o new)[i] = new[n]
      BY <2>4, ConcatParts
    <3> QED
      BY <2>5, <2>6, <2>7, <3>1, Zenon
  <2> QED
    BY <1>1, <2>2, <2>3, <2>8 DEF Tied
<1> QED
  BY <1>4, <1>5 DEF Expand

\* A call that was not overlapped stores what it has found.
LEMMA TiedStep ==
    ASSUME LinkInv, NEW f \in Finders, FindPath(f), NEW g \in Finders
    PROVE  Tied(g)'
<1>1. NearInv /\ Tied(g) /\ Tied(f)
  BY DEF LinkInv
<1>2. CASE g # f
  <2>1. /\ pc'[g] = pc[g] /\ query'[g] = query[g] /\ overlapped'[g] = overlapped[g]
        /\ legs'[g] = legs[g] /\ found'[g] = found[g]
        /\ queue'[g] = queue[g] /\ visited'[g] = visited[g]
    <3> USE <1>1, <1>2 DEF NearInv, IInv, Shapes, Marked, Goto, Found, Search
    <3>1. CASE \E q \in Queries : Lookup(f, q)
      BY <3>1 DEF Lookup
    <3>2. CASE Direct(f)
      BY <3>2 DEF Direct
    <3>3. CASE WethDirect(f)
      BY <3>3 DEF WethDirect
    <3>4. CASE FirstLegs(f)
      BY <3>4 DEF FirstLegs
    <3>5. CASE SecondLeg(f)
      BY <3>5 DEF SecondLeg
    <3>6. CASE Expand(f)
      BY <3>6 DEF Expand
    <3>7. CASE NotFound(f) \/ Store(f)
      BY <3>7 DEF NotFound, Store
    <3> QED
      BY <3>1, <3>2, <3>3, <3>4, <3>5, <3>6, <3>7 DEF FindPath
  <2> QED
    BY <1>1, <2>1, TiedFrame
<1>3. CASE g = f
  <2>1. ASSUME NEW q \in Queries, Lookup(f, q) PROVE Tied(f)'
    <3>1. pc'[f] = "direct"
      BY <1>1, <2>1 DEF Lookup, Goto, NearInv, IInv, Shapes
    <3> QED
      BY <3>1 DEF Tied
  <2>2. ASSUME Store(f) PROVE Tied(f)'
    <3>1. pc'[f] = "idle"
      BY <1>1, <2>2 DEF Store, Goto, NearInv, IInv, Shapes
    <3> QED
      BY <3>1 DEF Tied
  <2>3. ASSUME NotFound(f) PROVE Tied(f)'
    <3>1. query'[f] = query[f] /\ overlapped'[f] = overlapped[f] /\ Found(f, NoPath)
      BY <2>3 DEF NotFound
    <3>2. Linked(query[f], NoPath)
      <4>1. Len(NoPath) = 0
        BY DEF NoPath
      <4> QED
        BY <4>1 DEF Linked, Begins
    <3> QED
      BY <1>1, <3>1, <3>2, TiedFound
  <2> QED
    BY <1>1, <1>3, <2>1, <2>2, <2>3, TiedDirect, TiedWeth, TiedFirstLegs, TiedSecondLeg,
       TiedExpand DEF FindPath
<1> QED
  BY <1>2, <1>3

\* A path that is stored, or was, is linked.
LEMMA LinkedStep ==
    ASSUME LinkInv, NEW f \in Finders, FindPath(f), NEW k \in Certain'
    PROVE  Linked(k, pathCache[k])'
<1>1. CASE Store(f) /\ k = query[f]
  <2>1. ~overlapped[f] /\ pathCache'[k] = found[f] /\ pc[f] = "store"
    BY <1>1 DEF Store, Certain
  <2> QED
    BY <1>1, <2>1 DEF LinkInv, Tied
<1>2. CASE ~Store(f) \/ k # query[f]
  <2>1. k \in Certain /\ pathCache'[k] = pathCache[k]
    <3>1. CASE Store(f)
      BY <1>2, <3>1 DEF Store, Certain
    <3>2. CASE ~Store(f)
      <4>1. UNCHANGED cached
        BY <3>2 DEF FindPath, Lookup, Direct, WethDirect, FirstLegs, SecondLeg, Expand, NotFound
      <4> QED
        BY <4>1 DEF Certain, cached
    <3> QED
      BY <3>1, <3>2
  <2> QED
    BY <2>1 DEF LinkInv
<1> QED
  BY <1>1, <1>2

LEMMA LinkAddPair ==
    ASSUME LinkInv, NEW p \in Pairs, NEW v \in Versions[p], AddPair(p, v)
    PROVE  /\ \A f \in Finders : Tied(f)'
           /\ \A k \in Certain' : Linked(k, pathCache[k])'
<1>1. ASSUME NEW f \in Finders PROVE Tied(f)'
  <2>1. /\ pc'[f] = pc[f] /\ query'[f] = query[f] /\ legs'[f] = legs[f] /\ found'[f] = found[f]
        /\ queue'[f] = queue[f] /\ visited'[f] = visited[f]
        /\ pc[f] = "store" => overlapped'[f]
    BY DEF AddPair
  <2> QED
    BY <2>1 DEF LinkInv, Tied, From
<1>2. ASSUME NEW k \in Certain' PROVE Linked(k, pathCache[k])'
  <2>1. k \in Certain /\ pathCache'[k] = pathCache[k]
    BY <1>2 DEF Certain, AddPair
  <2> QED
    BY <2>1 DEF LinkInv
<1> QED
  BY <1>1, <1>2

LEMMA LinkInvariant == Spec => []LinkInv
<1>1. Init => (\A f \in Finders : Tied(f)) /\ (\A k \in Certain : Linked(k, pathCache[k]))
  BY DEF Init, Tied, Certain
<1>2. /\ (\A f \in Finders : Tied(f)) /\ (\A k \in Certain : Linked(k, pathCache[k]))
      /\ NearInv /\ [Next]_vars
      => (\A f \in Finders : Tied(f)') /\ (\A k \in Certain' : Linked(k, pathCache[k])')
  <2> SUFFICES ASSUME LinkInv, [Next]_vars
               PROVE  (\A f \in Finders : Tied(f)') /\ (\A k \in Certain' : Linked(k, pathCache[k])')
    BY DEF LinkInv
  <2>1. ASSUME NEW p \in Pairs, NEW v \in Versions[p], AddPair(p, v)
        PROVE  (\A f \in Finders : Tied(f)') /\ (\A k \in Certain' : Linked(k, pathCache[k])')
    BY <2>1, LinkAddPair
  <2>2. ASSUME NEW f \in Finders, FindPath(f)
        PROVE  (\A g \in Finders : Tied(g)') /\ (\A k \in Certain' : Linked(k, pathCache[k])')
    BY <2>2, TiedStep, LinkedStep
  <2>3. CASE UNCHANGED vars
    <3>1. UNCHANGED <<cached, search>>
      BY <2>3 DEF vars
    <3>2. \A f \in Finders : Tied(f)'
      BY <3>1, TiedFrame DEF LinkInv, search
    <3>3. \A k \in Certain' : Linked(k, pathCache[k])'
      BY <3>1 DEF LinkInv, Certain, cached
    <3> QED
      BY <3>2, <3>3
  <2> QED
    BY <2>1, <2>2, <2>3 DEF Next
<1> DEFINE L == (\A f \in Finders : Tied(f)) /\ (\A k \in Certain : Linked(k, pathCache[k]))
<1>3. Init => L
  BY <1>1
<1>4. L /\ NearInv /\ [Next]_vars => L'
  BY <1>2
<1>5. L /\ NearInv => LinkInv
  BY DEF LinkInv
<1> HIDE DEF L
<1> QED
  BY <1>3, <1>4, <1>5, NearInvariant, PTL DEF Spec

\* The tokens that Chain reaches are those the path goes through.
LEMMA ChainConnects ==
    ASSUME NEW path \in Seq(Edges), NEW a, NEW b, Connects(path, a, b)
    PROVE  Chain(path, a) = {b}
<1> DEFINE L == Len(path)
<1>1. L \in Nat
  OBVIOUS
<1>2. PICK way \in [0..L -> Tokens] :
        /\ way[0] = a /\ way[L] = b
        /\ \A n \in 1..L : way[n - 1] # way[n] /\ EndsOf(path[n].pair) = {way[n - 1], way[n]}
  BY DEF Connects
<1> DEFINE next(r, n) == {Other(path[n].pair, u) : u \in r[n - 1] \cap EndsOf(path[n].pair)}
           g == [n \in 0..L |-> {way[n]}]
<1>3. ASSUME NEW n \in 1..L, NEW r, r[n - 1] = {way[n - 1]} PROVE next(r, n) = {way[n]}
  <2>1. way[n - 1] # way[n] /\ EndsOf(path[n].pair) = {way[n - 1], way[n]}
    BY <1>2
  <2>2. path[n].pair \in Pairs
    BY DEF Edges
  <2>3. Other(path[n].pair, way[n - 1]) = way[n]
    BY <2>1, <2>2 DEF Other, EndsOf
  <2>4. r[n - 1] \cap EndsOf(path[n].pair) = {way[n - 1]}
    BY <1>3, <2>1
  <2> QED
    BY <2>3, <2>4
<1>4. g = [n \in 0..L |-> IF n = 0 THEN {a} ELSE next(g, n)]
  <2>1. ASSUME NEW n \in 0..L PROVE g[n] = IF n = 0 THEN {a} ELSE next(g, n)
    <3>1. CASE n = 0
      BY <1>2, <3>1
    <3>2. CASE n # 0
      <4>1. n \in 1..L /\ n - 1 \in 0..L
        BY <1>1, <3>2
      <4>2. g[n - 1] = {way[n - 1]} /\ g[n] = {way[n]}
        BY <4>1
      <4> HIDE DEF g
      <4>3. next(g, n) = {way[n]}
        BY <1>3, <4>1, <4>2
      <4> QED
        BY <3>2, <4>2, <4>3
    <3> QED
      BY <3>1, <3>2
  <2> HIDE DEF next
  <2> QED
    BY <2>1
<1>5. PICK r : Chain(path, a) = r[L] /\ r = [n \in 0..L |-> IF n = 0 THEN {a} ELSE next(r, n)]
  <2> HIDE DEF g
  <2> QED
    BY <1>4, Zenon DEF Chain
<1> HIDE DEF g, L
<1>6. \A n \in 0..L : r[n] = IF n = 0 THEN {a} ELSE next(r, n)
  <2> HIDE DEF next
  <2> QED
    BY <1>5, Zenon
<1> DEFINE S == {n \in 0..L : r[n] # {way[n]}}
<1>7. S = {}
  <2> SUFFICES ASSUME S # {} PROVE FALSE
    OBVIOUS
  <2>1. PICK m \in S : \A y \in S : m <= y
    <3>1. S \subseteq Nat
      BY <1>1
    <3> HIDE DEF S
    <3> QED
      BY <3>1, LeastIndex
  <2>2. m # 0
    BY <1>1, <1>2, <1>6, <2>1
  <2>3. m \in 1..L /\ m - 1 \in 0..L /\ m - 1 \notin S
    BY <1>1, <2>1, <2>2
  <2>4. r[m - 1] = {way[m - 1]}
    BY <2>3
  <2>5. next(r, m) = {way[m]}
    BY <1>3, <2>3, <2>4
  <2> HIDE DEF next
  <2>6. r[m] = {way[m]}
    BY <1>6, <2>1, <2>2, <2>5
  <2> QED
    BY <2>1, <2>6
<1>8. L \in 0..L
  BY <1>1
<1> QED
  BY <1>2, <1>5, <1>7, <1>8

-----------------------------------------------------------------------------
\* However pairs are added and updated while any number of goroutines look for
\* paths, a path that was stored by a call during which no pair changed has the
\* reserves and the liquidity its pairs have now (invalidatePathCache).
THEOREM CachedIsCurrent == Spec => []CachedCurrent
<1>1. NearInv => CachedCurrent
  BY DEF NearInv, IInv
<1> QED
  BY <1>1, NearInvariant, PTL

\* Every variable has its type: the list of a token holds each of its pairs once
\* and no other, and a search queues only tokens that it has marked.
THEOREM GraphTypeCorrect == Spec => []TypeOK
<1>1. NearInv => TypeOK
  BY DEF NearInv, IInv, Shapes, Listed, Listing, Known, Marked, Items, Labels, TypeOK
<1> QED
  BY <1>1, NearInvariant, PTL

\* Such a path, or nil, is as short as possible for tokens that one or two pairs
\* connect, however many pairs were added since it was stored: what
\* invalidatePathCache leaves in the cache cannot have become too long.
THEOREM NearestStaysRight == Spec => []NearestRight
<1>1. NearInv => NearestRight
  BY DEF NearInv
<1> QED
  BY <1>1, NearInvariant, PTL

\* A cached path of up to four pairs, stored by a call during which no pair
\* changed, leads from the one token to the other, on every graph and however
\* many siblings of the search shared an array (append(current.path, edge)).
THEOREM ShortPathsConnect == Spec => []ShortConnects
<1>1. ASSUME LinkInv PROVE ShortConnects
  <2> SUFFICES ASSUME NEW k \in Certain, Len(pathCache[k]) \in 1..4 PROVE Connected(k)
    BY DEF ShortConnects
  <2>1. pathCache[k] \in Seq(Edges)
    BY <1>1 DEF LinkInv, NearInv, IInv, Shapes, Certain
  <2>2. Connects(pathCache[k], k[1], k[2])
    BY <1>1 DEF LinkInv, Linked
  <2> QED
    BY <2>1, <2>2, ChainConnects DEF Connected
<1>2. LinkInv => ShortConnects
  BY <1>1
<1> QED
  BY <1>2, LinkInvariant, PTL
=============================================================================
