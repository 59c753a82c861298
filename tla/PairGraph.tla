------------------------------ MODULE PairGraph ------------------------------
(***************************************************************************)
(* The graph of pairs and its path cache (src/internal/graph/pair_graph.go).*)
(*                                                                         *)
(* AddPair runs under the write lock and is one step.  FindPath takes the  *)
(* lock for each single access: the cache lookup, every GetEdges and the   *)
(* final store are steps of their own, and pairs may be added between any  *)
(* two of them.  Of an edge, the pair and a version of its reserves and    *)
(* liquidity are kept.                                                     *)
(*                                                                         *)
(* A list of edges is read in the step that gets it: that AddPair may      *)
(* overwrite one of its elements meanwhile is left out.                    *)
(***************************************************************************)
EXTENDS Integers, Sequences, FiniteSets

CONSTANTS
    Tokens,
    Pairs,
    Ends,           \* Ends[p]: <<token0, token1>>
    Weth,           \* wethAddr, or no token at all
    Finders,        \* goroutines that call FindPath
    Queries,        \* pairs <<from, to>> they ask for
    Room,           \* lengths of paths whose array has room for one more edge
    Versions        \* bound: Versions[p]: versions of p's reserves and liquidity

ASSUME GraphAssumption ==
    /\ Ends \in [Pairs -> Tokens \X Tokens]
    /\ \A p \in Pairs : Ends[p][1] # Ends[p][2]
    /\ Queries \subseteq Tokens \X Tokens
    /\ Versions \in [Pairs -> SUBSET (Nat \ {0})]

ASSUME FiniteAssumption == IsFiniteSet(Tokens)

\* append doubles the capacity of a short slice: 1, 2, 4.
ASSUME RoomAssumption == Room \subseteq Nat /\ Room \cap {0, 1, 2, 4} = {}

VARIABLES
    version,        \* data of each pair, 0 before it is added
    edges,          \* edges[t]: pairs of t, in the order they were added
    pathCache,      \* paths by <<from, to>>; the empty path is nil
    pc,             \* where the call of each finder is
    query,          \* its arguments
    legs,           \* its edges from the first token to WETH, still to be tried
    queue,          \* its queue of [token, path, arr]: the array of a path
                    \* is named after the token for whose path it was allocated
    visited,        \* its visited tokens
    found,          \* the path it is about to store
    overlapped,     \* history: a pair changed since the call began
    doubtful        \* history: keys stored by such a call

cached  == <<pathCache, doubtful>>
graph   == <<version, edges>>
search  == <<pc, query, legs, queue, visited, found, overlapped>>
vars    == <<graph, cached, search>>

NoPath == <<>>

From(f) == query[f][1]
To(f)   == query[f][2]

EndsOf(p) == {Ends[p][1], Ends[p][2]}

\* The edge of p as a search reads it.
Edge(p) == [pair |-> p, version |-> version[p]]

\* nextToken.
Other(p, t) == IF Ends[p][1] = t THEN Ends[p][2] ELSE Ends[p][1]

\* The first pair of a list that is in the set, if any.
First(list, set) ==
    {list[i] : i \in {i \in DOMAIN list :
                        list[i] \in set /\ \A j \in 1..i - 1 : list[j] \notin set}}

\* The one sequence of a set of indices in their order.
InOrder(s) == {o \in [1..Cardinality(s) -> s] :
                    \A m, n \in 1..Cardinality(s) : m < n => o[m] < o[n]}

WethPairs == {p \in Pairs : Weth \in EndsOf(p)}

-----------------------------------------------------------------------------
Init ==
    /\ version = [p \in Pairs |-> 0]
    /\ edges = [t \in Tokens |-> <<>>]
    /\ pathCache = [k \in {} |-> NoPath]
    /\ pc = [f \in Finders |-> "idle"]
    /\ query = [f \in Finders |-> <<>>]
    /\ legs = [f \in Finders |-> <<>>]
    /\ queue = [f \in Finders |-> <<>>]
    /\ visited = [f \in Finders |-> {}]
    /\ found = [f \in Finders |-> NoPath]
    /\ overlapped = [f \in Finders |-> FALSE]
    /\ doubtful = {}

\* Faulty variants: only the endpoints of a cached path count, or its edges.
AffectedEnds(k, p) == k[1] \in EndsOf(p) \/ k[2] \in EndsOf(p)
AffectedEdges(k, p) ==
    \E i \in DOMAIN pathCache[k] : EndsOf(pathCache[k][i].pair) \cap EndsOf(p) # {}
\* The cached path k may be affected by the pair p.
Affected(k, p) ==
    \/ k[1] \in EndsOf(p) \/ k[2] \in EndsOf(p)
    \/ \E i \in DOMAIN pathCache[k] : EndsOf(pathCache[k][i].pair) \cap EndsOf(p) # {}

\* Faulty variant: a pair that is known is listed again.
AddPairAgain(p, v) ==
    /\ version[p] # v
    /\ version' = [version EXCEPT ![p] = v]
    /\ edges' = [t \in Tokens |-> IF t \in EndsOf(p) THEN Append(edges[t], p) ELSE edges[t]]
    /\ pathCache' = [k \in {k \in DOMAIN pathCache : ~Affected(k, p)} |-> pathCache[k]]
    /\ overlapped' = [f \in Finders |-> overlapped[f] \/ pc[f] # "idle"]
    /\ UNCHANGED <<doubtful, pc, query, legs, queue, visited, found>>

\* A call with the reserves and the liquidity the pair has changes nothing.
AddPair(p, v) ==
    /\ version[p] # v
    /\ version' = [version EXCEPT ![p] = v]
    /\ edges' = IF version[p] # 0 THEN edges
                ELSE [t \in Tokens |-> IF t \in EndsOf(p) THEN Append(edges[t], p) ELSE edges[t]]
    /\ pathCache' = [k \in {k \in DOMAIN pathCache : ~Affected(k, p)} |-> pathCache[k]]
    /\ overlapped' = [f \in Finders |-> overlapped[f] \/ pc[f] # "idle"]
    /\ UNCHANGED <<doubtful, pc, query, legs, queue, visited, found>>

-----------------------------------------------------------------------------
(* FindPath.                                                               *)

Goto(f, label) == pc' = [pc EXCEPT ![f] = label]

\* The path goes into the cache next.
Found(f, path) == found' = [found EXCEPT ![f] = path] /\ Goto(f, "store")

\* findPathBFS begins.
Search(f) ==
    /\ queue' = [queue EXCEPT ![f] = <<[token |-> From(f), path |-> <<>>, arr |-> From(f)]>>]
    /\ visited' = [visited EXCEPT ![f] = {From(f)}]
    /\ Goto(f, "search")

\* A path that is in the cache is returned at once.
Lookup(f, q) ==
    /\ pc[f] = "idle" /\ q[1] # q[2] /\ q \notin DOMAIN pathCache
    /\ query' = [query EXCEPT ![f] = q]
    /\ Goto(f, "direct")
    /\ UNCHANGED <<graph, cached, legs, queue, visited, found, overlapped>>

Direct(f) ==
    LET direct == First(edges[From(f)], {p \in Pairs : EndsOf(p) = {From(f), To(f)}}) IN
    /\ pc[f] = "direct"
    /\ \/ \E p \in direct : Found(f, <<Edge(p)>>) /\ UNCHANGED <<queue, visited>>
       \/ /\ direct = {} /\ Weth \in {From(f), To(f)}
          /\ Goto(f, "weth") /\ UNCHANGED <<queue, visited, found>>
       \/ /\ direct = {} /\ Weth \in Tokens \ {From(f), To(f)}
          /\ Goto(f, "legs") /\ UNCHANGED <<queue, visited, found>>
       \/ direct = {} /\ Weth \notin Tokens /\ Search(f) /\ UNCHANGED found
    /\ UNCHANGED <<graph, cached, query, legs, overlapped>>

\* One of the tokens is WETH: an edge of the other to it.
WethDirect(f) ==
    LET other == IF From(f) = Weth THEN To(f) ELSE From(f)
        leg   == First(edges[other], WethPairs)
    IN
    /\ pc[f] = "weth"
    /\ \/ \E p \in leg : Found(f, <<Edge(p)>>)
       \/ leg = {} /\ Goto(f, "legs") /\ UNCHANGED found
    /\ UNCHANGED <<graph, cached, query, legs, queue, visited, overlapped>>

\* The edges of the first token that lead to WETH.
FirstLegs(f) ==
    LET list == edges[From(f)] IN
    /\ pc[f] = "legs"
    /\ \E toWeth \in InOrder({i \in DOMAIN list : list[i] \in WethPairs}) :
        /\ legs' = [legs EXCEPT ![f] = [n \in DOMAIN toWeth |-> Edge(list[toWeth[n]])]]
        /\ \/ toWeth # <<>> /\ Goto(f, "second") /\ UNCHANGED <<queue, visited>>
           \/ toWeth = <<>> /\ Search(f)
    /\ UNCHANGED <<graph, cached, query, found, overlapped>>

\* For each of them, the edges of the second token are got anew.
SecondLeg(f) ==
    LET leg == First(edges[To(f)], WethPairs) IN
    /\ pc[f] = "second"
    /\ \/ /\ \E p \in leg : Found(f, <<Head(legs[f]), Edge(p)>>)
          /\ legs' = [legs EXCEPT ![f] = <<>>] /\ UNCHANGED <<queue, visited>>
       \/ /\ leg = {}
          /\ legs' = [legs EXCEPT ![f] = Tail(@)]
          /\ IF Len(legs[f]) > 1 THEN UNCHANGED <<pc, queue, visited>> ELSE Search(f)
          /\ UNCHANGED found
    /\ UNCHANGED <<graph, cached, query, overlapped>>

-----------------------------------------------------------------------------
(* findPathBFS.                                                            *)

\* Indices of the edges of t that lead to a token not yet visited, each such
\* token once.
Fresh(f, t) ==
    {i \in DOMAIN edges[t] :
        LET next == Other(edges[t][i], t) IN
        next \notin visited[f] /\ \A j \in 1..i - 1 : Other(edges[t][j], t) # next}

\* Faulty variant: every path is allocated with room for the whole search.
ExtendedRoomy(path, t, s, n) == Append(path, Edge(edges[t][s[Len(s)]]))
\* append(current.path, edge) for the siblings of one token, whose fresh
\* indices are s in order.  If the array has room, every sibling is written to
\* the same cell, and all of them end with the last.
Extended(path, t, s, n) ==
    Append(path, Edge(edges[t][s[IF Len(path) \in Room THEN Len(s) ELSE n]]))

\* So do longer paths in that array, which were queued before.
Overwritten(item, current, edge) ==
    IF item.arr = current.arr /\ Len(item.path) > Len(current.path)
    THEN [item EXCEPT !.path = [@ EXCEPT ![Len(current.path) + 1] = edge]]
    ELSE item

Rest(f, t, s) ==
    LET items == Tail(queue[f]) IN
    IF Len(Head(queue[f]).path) \in Room /\ s # <<>>
    THEN [i \in DOMAIN items |->
            Overwritten(items[i], Head(queue[f]), Edge(edges[t][s[Len(s)]]))]
    ELSE items

\* The items of the unvisited neighbours of t.
Queued(f, t, s) ==
    LET current == Head(queue[f]) IN
    [n \in DOMAIN s |->
        [token |-> Other(edges[t][s[n]], t),
         path  |-> Extended(current.path, t, s, n),
         arr   |-> IF Len(current.path) \in Room THEN current.arr ELSE Other(edges[t][s[n]], t)]]

\* The next token of the queue.
Expand(f) ==
    LET t     == Head(queue[f]).token
        fresh == Fresh(f, t)
        goal  == {i \in fresh : Other(edges[t][i], t) = To(f)}
    IN
    /\ pc[f] = "search" /\ queue[f] # <<>>
    /\ \/ /\ \E i \in goal : Found(f, Append(Head(queue[f]).path, Edge(edges[t][i])))
          /\ queue' = [queue EXCEPT ![f] = <<>>]
          /\ visited' = [visited EXCEPT ![f] = {}]
       \/ \E s \in InOrder(fresh) :
          /\ goal = {}
          /\ queue' = [queue EXCEPT ![f] = Rest(f, t, s) \o Queued(f, t, s)]
          /\ visited' = [visited EXCEPT ![f] = @ \cup {Other(edges[t][i], t) : i \in fresh}]
          /\ UNCHANGED <<pc, found>>
    /\ UNCHANGED <<graph, cached, query, legs, overlapped>>

\* The second token was not reached: nil is stored.
NotFound(f) ==
    /\ pc[f] = "search" /\ queue[f] = <<>>
    /\ Found(f, NoPath)
    /\ visited' = [visited EXCEPT ![f] = {}]
    /\ UNCHANGED <<graph, cached, query, legs, queue, overlapped>>

Store(f) ==
    /\ pc[f] = "store"
    /\ pathCache' = [k \in DOMAIN pathCache \cup {query[f]} |->
                        IF k = query[f] THEN found[f] ELSE pathCache[k]]
    /\ doubtful' = IF overlapped[f] THEN doubtful \cup {query[f]} ELSE doubtful \ {query[f]}
    /\ Goto(f, "idle")
    /\ found' = [found EXCEPT ![f] = NoPath]
    /\ query' = [query EXCEPT ![f] = <<>>]
    /\ overlapped' = [overlapped EXCEPT ![f] = FALSE]
    /\ UNCHANGED <<graph, legs, queue, visited>>

-----------------------------------------------------------------------------
FindPath(f) ==
    \/ \E q \in Queries : Lookup(f, q)
    \/ Direct(f) \/ WethDirect(f) \/ FirstLegs(f) \/ SecondLeg(f)
    \/ Expand(f) \/ NotFound(f) \/ Store(f)

Next ==
    \/ \E p \in Pairs : \E v \in Versions[p] : AddPair(p, v)
    \/ \E f \in Finders : FindPath(f)

Spec == Init /\ [][Next]_vars

-----------------------------------------------------------------------------
(* Properties.                                                             *)

Edges == UNION {[pair : {p}, version : Versions[p]] : p \in Pairs}

\* The lists of a token's pairs hold each added pair once, a queue holds only
\* visited tokens, and a path read or cached consists of edges.
TypeOK ==
    /\ \A p \in Pairs : version[p] \in {0} \cup Versions[p]
    /\ edges \in [Tokens -> Seq(Pairs)]
    /\ \A t \in Tokens :
          Len(edges[t]) = Cardinality({p \in Pairs : version[p] # 0 /\ t \in EndsOf(p)})
    /\ DOMAIN pathCache \subseteq Queries
    /\ \A k \in DOMAIN pathCache : pathCache[k] \in Seq(Edges)
    /\ pc \in [Finders -> {"idle", "direct", "weth", "legs", "second", "search", "store"}]
    /\ \A f \in Finders : query[f] \in IF pc[f] = "idle" THEN {<<>>} ELSE Queries
    /\ legs \in [Finders -> Seq(Edges)] /\ found \in [Finders -> Seq(Edges)]
    /\ queue \in [Finders -> Seq([token : Tokens, path : Seq(Edges), arr : Tokens])]
    /\ visited \in [Finders -> SUBSET Tokens]
    /\ \A f \in Finders : \A i \in DOMAIN queue[f] : queue[f][i].token \in visited[f]
    /\ overlapped \in [Finders -> BOOLEAN] /\ doubtful \subseteq Queries

\* Paths stored by calls during which no pair changed.
Certain == DOMAIN pathCache \ doubtful

\* However pairs are added and updated later, such a path consists of edges
\* with the reserves and the liquidity their pairs have now.
CachedCurrent ==
    \A k \in Certain : \A i \in DOMAIN pathCache[k] :
        pathCache[k][i] = Edge(pathCache[k][i].pair)

\* The token reached after n edges of a path from t, each of which must start
\* where the one before it ends.
Chain(path, t) ==
    LET reached[n \in 0..Len(path)] ==
            IF n = 0 THEN {t}
            ELSE {Other(path[n].pair, u) : u \in reached[n - 1] \cap EndsOf(path[n].pair)}
    IN reached[Len(path)]

Connected(k) == Chain(pathCache[k], k[1]) = {k[2]}

\* "FindPath uses breadth-first search to find the shortest path between two
\* tokens" (pair_graph.go:145): it connects them.
PathConnects == \A k \in Certain : pathCache[k] # NoPath => Connected(k)

\* A cached path of up to four pairs does, whatever pairs were added since: the
\* siblings of a search that share an array do not spoil it.
ShortConnects == \A k \in Certain : Len(pathCache[k]) \in 1..4 => Connected(k)

Known(p) == version[p] # 0

Adjacent(t, u) == \E p \in Pairs : Known(p) /\ EndsOf(p) = {t, u}

\* Tokens that are one or two hops apart, whatever was added since a path
\* between them, or nil, was cached, have a cached path of as many hops.
\* (Three or more hops need not be noticed: line 122.)
NearestRight ==
    \A k \in Certain :
        /\ Adjacent(k[1], k[2]) => Len(pathCache[k]) = 1
        /\ ~Adjacent(k[1], k[2]) /\ (\E t \in Tokens : Adjacent(k[1], t) /\ Adjacent(t, k[2]))
              => Len(pathCache[k]) = 2
=============================================================================
