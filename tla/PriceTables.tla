---------------------------- MODULE PriceTables ----------------------------
(***************************************************************************)
(* The table pair_prices and what the API lists of it:                     *)
(* GetActiveTokens of src/internal/database/database.go and                *)
(* handleListTokens of src/internal/api/service.go.                        *)
(*                                                                         *)
(* Tokens and pairs are stored.  A row of pair_prices is known by its pair *)
(* and its block (a block has one time); what is kept of it is the block   *)
(* whose reserves it holds.  Its confidence is always 1.0.                 *)
(***************************************************************************)
EXTENDS Integers, FiniteSets

CONSTANTS
    Tokens,
    Pairs,
    Token0,         \* Token0[p], Token1[p]: the tokens of p
    Token1,
    Blocks          \* block numbers

NoRow == -1

ASSUME TablesAssumption ==
    /\ Token0 \in [Pairs -> Tokens]
    /\ Token1 \in [Pairs -> Tokens]
    /\ Blocks \subseteq Nat
    /\ IsFiniteSet(Blocks)

VARIABLE rows       \* rows[p][b]: block whose reserves the row holds, or NoRow

\* Blocks that have a row of the pair.
Stored(p) == {b \in Blocks : rows[p][b] # NoRow}

InitRows == rows = [p \in Pairs |-> [b \in Blocks |-> NoRow]]

\* InsertPairPrice: the row of a block is replaced.
PutRow(p, b, data) == rows' = [rows EXCEPT ![p][b] = data]

-----------------------------------------------------------------------------
(* GetActiveTokens.                                                        *)

\* Faulty variant: the order of DISTINCT ON is ascending.
OldestPrices ==
    {l \in Pairs \X Blocks : l[2] \in Stored(l[1]) /\ \A b \in Stored(l[1]) : l[2] <= b}
\* latest_prices: of each pair, the row of the latest block.
LatestPrices ==
    {l \in Pairs \X Blocks : l[2] \in Stored(l[1]) /\ \A b \in Stored(l[1]) : b <= l[2]}

\* Faulty variant: only pairs that have the token first.
TokenPricesFirst(t) == {l \in LatestPrices : Token0[l[1]] = t}
\* token_prices: the price0 or the price1 of the pairs the token is in.
TokenPrices(t) ==
    {l \in LatestPrices : Token0[l[1]] = t} \cup {l \in LatestPrices : Token1[l[1]] = t}

\* best_prices: the rows that may be chosen for the token.
BestPrices(t) == {l \in TokenPrices(t) : \A m \in TokenPrices(t) : m[2] <= l[2]}

\* The final selection joins every token with its best price, if any; without
\* one, the price is NULL, which Scan reads as a value that is not valid.
ActiveToken(t) ==
    IF BestPrices(t) = {} THEN {[valid |-> FALSE, price |-> 0]}
    ELSE {[valid |-> TRUE, price |-> l[2]] : l \in BestPrices(t)}

\* handleListTokens sends null for a value that is not valid.
ListedPrice(t) == {IF v.valid THEN v.price ELSE NoRow : v \in ActiveToken(t)}

\* The list shows, for each token, the price of the newest block of which any
\* of its pairs has a row, and no price only if none of them has a row.
ListShowsNewest ==
    \A t \in Tokens :
        LET known == UNION {Stored(p) : p \in {q \in Pairs : t \in {Token0[q], Token1[q]}}}
        IN \A b \in ListedPrice(t) :
              /\ \A c \in known : c <= b
              /\ b \in known \cup {NoRow}
=============================================================================
