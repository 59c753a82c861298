-------------------------- MODULE RpcClient_proofs --------------------------
(***************************************************************************)
(* What holds of the client for any number of callers, whatever they ask   *)
(* for and whatever fails: a tick of the rate limiter pays for at most     *)
(* MaxAttempts calls to the node, and the answers of every operation are   *)
(* about what it was asked for.                                            *)
(*                                                                         *)
(*   1  who spends which tick (IInv)                                       *)
(*   2  the loops that pick elements of a sequence                         *)
(*   3  jobs: their types, and what a step does to one (Jobs, JobStep)     *)
(*   4  blocks and scans: BlocksOK, ScanOK                                 *)
(*   5  made-up metadata: Earned                                           *)
(*   6  batches of metadata: Lone                                          *)
(*   7  the order of metadata: Aligned                                     *)
(*   8  the theorems                                                       *)
(***************************************************************************)
EXTENDS RpcClient, SequenceTheorems, FiniteSetTheorems, WellFoundedInduction, TLAPS

(***************************************************************************)
(* Who spends which tick, part by part.                                    *)
(***************************************************************************)

Shapes ==
    /\ spent \in Seq(Nat)
    /\ tick \in BOOLEAN
    /\ mine \in [Callers -> Nat]
    /\ pc \in [Callers -> {"idle", "lock", "tick", "call", "backoff"}]
    /\ attempt \in [Callers -> 0..MaxAttempts - 1]

\* The caller has a request under way.
Active(c) == pc[c] \in {"call", "backoff"}

\* A request begins with its first attempt.
FirstAttempt == \A c \in Callers : pc[c] \in {"lock", "tick"} => attempt[c] = 0

\* No two requests spend the same tick.
OwnTick ==
    \A c \in Callers : Active(c) =>
        /\ mine[c] \in DOMAIN spent
        /\ \A d \in Callers : Active(d) /\ c # d => mine[c] # mine[d]

\* The tick in the channel is the last one, and nobody has spent it.
Unspent ==
    tick => /\ Len(spent) > 0 /\ spent[Len(spent)] = 0
            /\ \A c \in Callers : Active(c) => mine[c] # Len(spent)

\* A request has made as many calls as it has had attempts.
CallsCounted ==
    \A c \in Callers :
        /\ pc[c] = "call" => spent[mine[c]] <= attempt[c]
        /\ pc[c] = "backoff" => spent[mine[c]] <= attempt[c] + 1

IInv == Shapes /\ FirstAttempt /\ OwnTick /\ Unspent /\ CallsCounted /\ Paced

LEMMA AttemptsType == MaxAttempts \in Nat /\ 0 \in 0..MaxAttempts - 1
  BY ClientAssumption

-----------------------------------------------------------------------------
\* A caller that is, or comes to be, between requests.
LEMMA BetweenStep ==
  ASSUME IInv, NEW c \in Callers,
         NEW label \in {"idle", "lock", "tick"},
         pc' = [pc EXCEPT ![c] = label],
         \/ attempt' = [attempt EXCEPT ![c] = 0]
         \/ attempt' = attempt /\ pc[c] \in {"lock", "tick"},
         UNCHANGED <<tick, mine, spent>>
  PROVE  IInv'
<1>1. Shapes'
  <2>1. pc' \in [Callers -> {"idle", "lock", "tick", "call", "backoff"}]
    BY DEF IInv, Shapes
  <2>2. attempt' \in [Callers -> 0..MaxAttempts - 1]
    BY AttemptsType DEF IInv, Shapes
  <2> QED BY <2>1, <2>2 DEF IInv, Shapes
<1>2. FirstAttempt'
  BY DEF IInv, Shapes, FirstAttempt
<1>3. \A d \in Callers : Active(d)' => d # c /\ Active(d) /\ pc'[d] = pc[d] /\ attempt'[d] = attempt[d]
  BY DEF IInv, Shapes, Active
<1>4. OwnTick' /\ Unspent'
  BY <1>3 DEF IInv, OwnTick, Unspent
<1>5. CallsCounted'
  BY <1>3 DEF IInv, CallsCounted, Active
<1> QED BY <1>1, <1>2, <1>4, <1>5 DEF IInv, Paced

LEMMA TickStep == ASSUME IInv, Tick PROVE IInv'
<1>1. /\ spent' = Append(spent, 0) /\ tick' = TRUE /\ spent \in Seq(Nat)
      /\ UNCHANGED <<pc, attempt, mine>>
  BY DEF Tick, calls, IInv, Shapes
<1>2. /\ spent' \in Seq(Nat) /\ Len(spent') = Len(spent) + 1
      /\ DOMAIN spent' = 1..Len(spent) + 1 /\ DOMAIN spent = 1..Len(spent)
      /\ spent'[Len(spent) + 1] = 0 /\ Len(spent) \in Nat
      /\ \A n \in DOMAIN spent : spent'[n] = spent[n]
  BY <1>1
<1>3. Shapes' /\ FirstAttempt'
  BY <1>1, <1>2 DEF IInv, Shapes, FirstAttempt
<1>4. OwnTick' /\ Unspent'
  BY <1>1, <1>2 DEF IInv, Shapes, OwnTick, Unspent, Active
<1>5. CallsCounted'
  BY <1>1, <1>2 DEF IInv, OwnTick, CallsCounted, Active
<1>6. Paced'
  BY <1>2, AttemptsType DEF IInv, Paced
<1> QED BY <1>3, <1>4, <1>5, <1>6 DEF IInv

LEMMA TakeTickStep == ASSUME IInv, NEW c \in Callers, TakeTick(c) PROVE IInv'
<1>1. /\ pc[c] = "tick" /\ tick /\ tick' = FALSE
      /\ mine' = [mine EXCEPT ![c] = Len(spent)] /\ pc' = [pc EXCEPT ![c] = "call"]
      /\ UNCHANGED <<attempt, spent>>
  BY DEF TakeTick
<1>2. /\ Len(spent) \in DOMAIN spent /\ spent[Len(spent)] = 0 /\ attempt[c] = 0
  BY <1>1 DEF IInv, Shapes, Unspent, FirstAttempt
<1>3. Shapes' /\ FirstAttempt' /\ Unspent'
  <2>1. mine' \in [Callers -> Nat] /\ pc' \in [Callers -> {"idle", "lock", "tick", "call", "backoff"}]
    BY <1>1, <1>2 DEF IInv, Shapes
  <2> QED BY <1>1, <1>2, <2>1 DEF IInv, Shapes, FirstAttempt, Unspent
<1>4. OwnTick'
  BY <1>1, <1>2 DEF IInv, Shapes, OwnTick, Unspent, Active
<1>5. CallsCounted'
  BY <1>1, <1>2 DEF IInv, Shapes, CallsCounted
<1> QED BY <1>1, <1>3, <1>4, <1>5 DEF IInv, Paced

\* A call to the node, after which the caller is between requests, or waits.
LEMMA CallStep ==
  ASSUME IInv, NEW c \in Callers, Calling(c),
         NEW label \in {"idle", "lock", "backoff"},
         pc' = [pc EXCEPT ![c] = label],
         \/ label # "backoff" /\ attempt' = [attempt EXCEPT ![c] = 0]
         \/ label = "backoff" /\ attempt' = attempt
  PROVE  IInv'
<1>1. /\ pc[c] = "call" /\ spent' = [spent EXCEPT ![mine[c]] = @ + 1]
      /\ UNCHANGED <<tick, mine>> /\ spent \in Seq(Nat)
      /\ mine[c] \in DOMAIN spent /\ spent[mine[c]] <= attempt[c]
      /\ attempt[c] \in Nat /\ attempt[c] < MaxAttempts
  <2>1. attempt[c] \in 0..MaxAttempts - 1 /\ MaxAttempts \in Nat
    BY AttemptsType DEF IInv, Shapes
  <2>2. /\ pc[c] = "call" /\ spent' = [spent EXCEPT ![mine[c]] = @ + 1]
        /\ UNCHANGED <<tick, mine>> /\ spent \in Seq(Nat)
    BY DEF Calling, limiter, IInv, Shapes
  <2>3. mine[c] \in DOMAIN spent /\ spent[mine[c]] <= attempt[c]
    BY <2>2 DEF IInv, OwnTick, CallsCounted, Active
  <2> QED BY <2>1, <2>2, <2>3
<1>2. /\ spent' \in Seq(Nat) /\ Len(spent') = Len(spent) /\ DOMAIN spent' = DOMAIN spent
      /\ spent'[mine[c]] = spent[mine[c]] + 1 /\ spent[mine[c]] \in Nat
      /\ \A n \in DOMAIN spent : n # mine[c] => spent'[n] = spent[n]
  BY <1>1
<1>3. Shapes' /\ FirstAttempt'
  <2>1. pc' \in [Callers -> {"idle", "lock", "tick", "call", "backoff"}]
    BY DEF IInv, Shapes
  <2>2. attempt' \in [Callers -> 0..MaxAttempts - 1]
    BY AttemptsType DEF IInv, Shapes
  <2>3. FirstAttempt'
    BY DEF IInv, Shapes, FirstAttempt
  <2> QED BY <1>1, <1>2, <2>1, <2>2, <2>3 DEF IInv, Shapes
<1>4. \A d \in Callers : Active(d)' => Active(d) /\ (d # c => mine[d] # mine[c])
  BY <1>1 DEF IInv, Shapes, OwnTick, Active
<1>5. OwnTick'
  BY <1>1, <1>2, <1>4 DEF IInv, OwnTick
<1>6. Unspent'
  <2>1. tick => Len(spent) \in DOMAIN spent /\ mine[c] # Len(spent)
    BY <1>1 DEF IInv, Unspent, Active
  <2> QED BY <1>1, <1>2, <1>4, <2>1 DEF IInv, Unspent
<1>7. CallsCounted'
  <2>1. ASSUME NEW d \in Callers, d # c
        PROVE  /\ pc'[d] = pc[d] /\ attempt'[d] = attempt[d]
               /\ Active(d) => spent'[mine[d]] = spent[mine[d]]
    BY <2>1, <1>1, <1>2 DEF IInv, Shapes, OwnTick, Active
  <2>2. /\ pc'[c] # "call"
        /\ pc'[c] = "backoff" => attempt'[c] = attempt[c] /\ spent'[mine[c]] <= attempt[c] + 1
    BY <1>1, <1>2 DEF IInv, Shapes
  <2> QED BY <1>1, <2>1, <2>2 DEF IInv, CallsCounted, Active
<1>8. Paced'
  BY <1>1, <1>2, AttemptsType DEF IInv, Paced
<1> QED BY <1>3, <1>5, <1>6, <1>7, <1>8 DEF IInv

\* The next attempt of a request that has one left.
LEMMA AttemptStep ==
  ASSUME IInv, NEW c \in Callers, pc[c] = "backoff", attempt[c] + 1 < MaxAttempts,
         attempt' = [attempt EXCEPT ![c] = @ + 1], pc' = [pc EXCEPT ![c] = "call"],
         UNCHANGED <<tick, mine, spent>>
  PROVE  IInv'
<1>1. Shapes' /\ FirstAttempt'
  BY AttemptsType DEF IInv, Shapes, FirstAttempt
<1>2. \A d \in Callers : Active(d)' => Active(d)
  BY DEF IInv, Shapes, Active
<1>3. OwnTick' /\ Unspent'
  BY <1>2 DEF IInv, OwnTick, Unspent
<1>4. CallsCounted'
  BY DEF IInv, Shapes, CallsCounted
<1> QED BY <1>1, <1>3, <1>4 DEF IInv, Paced

LEMMA CallerStepInv ==
  ASSUME IInv, NEW c \in Callers, Ask(c) \/ Lock(c) \/ CallerStep(c)
  PROVE  IInv'
<1>1. ASSUME NEW j, Proceed(c, j)
      PROVE  \E label \in {"idle", "lock"} :
                /\ pc' = [pc EXCEPT ![c] = label] /\ attempt' = [attempt EXCEPT ![c] = 0]
  BY <1>1 DEF Proceed
<1>2. CASE Ask(c)
  <2>1. UNCHANGED <<tick, mine, spent>> /\ \E j : Proceed(c, j)
    BY <1>2 DEF Ask, limiter
  <2> QED BY <1>1, <2>1, BetweenStep
<1>3. CASE Lock(c)
  BY <1>3, BetweenStep DEF Lock
<1>4. CASE TakeTick(c)
  BY <1>4, TakeTickStep
<1>5. CASE Succeed(c) \/ Reject(c)
  <2>1. Calling(c) /\ \E j : Proceed(c, j)
    BY <1>5 DEF Succeed, Reject
  <2> QED BY <1>1, <2>1, CallStep
<1>6. CASE RateLimited(c)
  BY <1>6, CallStep DEF RateLimited
<1>7. CASE Retry(c) \/ BackoffCancelled(c)
  <2>1. pc[c] = "backoff" /\ UNCHANGED <<tick, mine, spent>>
    BY <1>7 DEF Retry, BackoffCancelled, limiter
  <2>2. \/ \E j : Proceed(c, j)
        \/ /\ attempt[c] + 1 < MaxAttempts
           /\ attempt' = [attempt EXCEPT ![c] = @ + 1] /\ pc' = [pc EXCEPT ![c] = "call"]
    BY <1>7 DEF Retry, BackoffCancelled
  <2> QED BY <1>1, <2>1, <2>2, BetweenStep, AttemptStep
<1> QED BY <1>2, <1>3, <1>4, <1>5, <1>6, <1>7 DEF CallerStep

LEMMA IInvInit == ASSUME Init PROVE IInv
<1>1. Shapes
  <2>1. spent \in Seq(Nat) /\ tick \in BOOLEAN
    <3>1. spent = <<>> /\ tick = FALSE
      BY DEF Init
    <3>2. <<>> \in Seq(Nat)
      OBVIOUS
    <3> QED BY <3>1, <3>2
  <2>2. mine \in [Callers -> Nat] /\ attempt \in [Callers -> 0..MaxAttempts - 1]
    BY AttemptsType DEF Init
  <2>3. pc \in [Callers -> {"idle", "lock", "tick", "call", "backoff"}]
    BY DEF Init
  <2> QED BY <2>1, <2>2, <2>3 DEF Shapes
<1>2. spent = <<>> /\ tick = FALSE /\ \A c \in Callers : pc[c] = "idle"
  BY DEF Init
<1> QED
  BY <1>1, <1>2 DEF IInv, FirstAttempt, OwnTick, Unspent, CallsCounted, Active, Paced

LEMMA IInvStep == ASSUME IInv, [Next]_vars PROVE IInv'
<1>1. CASE NewClient \/ Close \/ Cancel \/ UNCHANGED vars
  <2>1. UNCHANGED <<tick, pc, attempt, mine, spent>>
    BY <1>1 DEF NewClient, Close, Cancel, vars, limiter, calls
  <2> QED
    BY <2>1 DEF IInv, Shapes, FirstAttempt, OwnTick, Unspent, CallsCounted, Active, Paced
<1>2. CASE Tick
  BY <1>2, TickStep
<1>3. CASE \E c \in Callers : Ask(c) \/ Lock(c) \/ CallerStep(c)
  BY <1>3, CallerStepInv
<1> QED
  BY <1>1, <1>2, <1>3 DEF Next

-----------------------------------------------------------------------------
(* The loops that pick elements of a sequence.                             *)

LEMMA NatLeast ==
  ASSUME NEW S, S \subseteq Nat, S # {}
  PROVE  \E x \in S : \A y \in S : x <= y
<1>1. PICK x \in S : \A y \in S : <<y, x>> \notin OpToRel(<, Nat)
  BY NatLessThanWellFounded, WFMin
<1>2. \A y \in S : ~(y < x)
  BY <1>1 DEF OpToRel
<1> QED BY <1>2

\* f is what the loop of Picked has picked of the first k.
Picks(s, keep, f, k) ==
    f = [n \in 0..k |-> IF n = 0 THEN <<>> ELSE IF n \in keep THEN Append(f[n - 1], s[n])
                        ELSE f[n - 1]]

LEMMA PicksExists ==
  ASSUME NEW s, NEW keep, NEW k \in Nat
  PROVE  \E f : Picks(s, keep, f, k)
<1> DEFINE Bad == {n \in Nat : ~\E f : Picks(s, keep, f, n)}
<1> SUFFICES ASSUME Bad # {} PROVE FALSE
  OBVIOUS
<1>1. PICK x \in Bad : \A y \in Bad : x <= y
  <2>1. Bad \subseteq Nat
    OBVIOUS
  <2> HIDE DEF Bad
  <2> QED BY <2>1, NatLeast
<1>2. CASE x = 0
  <2> DEFINE g == [n \in 0..0 |-> <<>>]
  <2>1. Picks(s, keep, g, 0)
    BY DEF Picks
  <2> QED BY <1>2, <2>1
<1>3. CASE x > 0
  <2>1. x - 1 \in Nat /\ x - 1 \notin Bad /\ x \in Nat
    BY <1>1, <1>3
  <2>2. PICK g : Picks(s, keep, g, x - 1)
    BY <2>1
  <2> DEFINE h == [n \in 0..x |-> IF n < x THEN g[n]
                                  ELSE IF x \in keep THEN Append(g[x - 1], s[x]) ELSE g[x - 1]]
  <2>3. ASSUME NEW n \in 0..x
        PROVE  h[n] = IF n = 0 THEN <<>> ELSE IF n \in keep THEN Append(h[n - 1], s[n])
                        ELSE h[n - 1]
    <3>1. CASE n = x
      <4>1. h[x] = IF x \in keep THEN Append(g[x - 1], s[x]) ELSE g[x - 1]
        BY <2>1
      <4>2. h[x - 1] = g[x - 1]
        BY <1>3, <2>1
      <4> HIDE DEF h
      <4> QED BY <1>3, <3>1, <4>1, <4>2
    <3>2. CASE n < x
      <4>1. n \in 0..x - 1
        BY <2>1, <3>2
      <4>2. g[n] = IF n = 0 THEN <<>> ELSE IF n \in keep THEN Append(g[n - 1], s[n])
                        ELSE g[n - 1]
        BY <2>2, <4>1 DEF Picks
      <4>3. h[n] = g[n]
        BY <2>1, <3>2
      <4>4. n # 0 => h[n - 1] = g[n - 1]
        BY <2>1, <3>2
      <4> HIDE DEF h
      <4> QED BY <4>2, <4>3, <4>4
    <3> QED BY <2>1, <3>1, <3>2
  <2>4. h = [n \in 0..x |-> h[n]]
    OBVIOUS
  <2>5. Picks(s, keep, h, x)
    <3> HIDE DEF h
    <3> QED BY <2>3, <2>4 DEF Picks
  <2> QED BY <2>1, <2>5
<1> QED BY <1>2, <1>3

\* The loop, step by step.
LEMMA PickedLoop ==
  ASSUME NEW s, NEW keep, Len(s) \in Nat
  PROVE  \E f : /\ Picked(s, keep) = f[Len(s)]
                /\ f[0] = <<>>
                /\ \A n \in 1..Len(s) :
                      f[n] = IF n \in keep THEN Append(f[n - 1], s[n]) ELSE f[n - 1]
<1> DEFINE f == CHOOSE g : Picks(s, keep, g, Len(s))
<1>1. Picks(s, keep, f, Len(s))
  BY PicksExists
<1>2. Picked(s, keep) = f[Len(s)]
  BY DEF Picked, Picks
<1> HIDE DEF f
<1>3. f[0] = <<>>
  BY <1>1 DEF Picks
<1>4. ASSUME NEW n \in 1..Len(s)
      PROVE  f[n] = IF n \in keep THEN Append(f[n - 1], s[n]) ELSE f[n - 1]
  <2>1. n \in 0..Len(s) /\ n # 0
    OBVIOUS
  <2> QED BY <1>1, <2>1, Zenon DEF Picks
<1> QED BY <1>2, <1>3, <1>4

\* What is picked are elements at the positions given.
LEMMA PickedType ==
  ASSUME NEW S, NEW s \in Seq(S), NEW keep
  PROVE  Picked(s, keep) \in Seq({s[n] : n \in DOMAIN s \cap keep})
<1> DEFINE U == {s[n] : n \in DOMAIN s \cap keep}
<1>1. Len(s) \in Nat /\ DOMAIN s = 1..Len(s)
  OBVIOUS
<1>2. PICK f : /\ Picked(s, keep) = f[Len(s)]
               /\ f[0] = <<>>
               /\ \A n \in 1..Len(s) :
                     f[n] = IF n \in keep THEN Append(f[n - 1], s[n]) ELSE f[n - 1]
  BY <1>1, PickedLoop
<1>3. \A n \in 1..Len(s) : n \in keep => s[n] \in U
  BY <1>1
<1> HIDE DEF U
<1> DEFINE Bad == {n \in 0..Len(s) : f[n] \notin Seq(U)}
<1>4. Bad = {}
  <2> SUFFICES ASSUME Bad # {} PROVE FALSE
    OBVIOUS
  <2>1. PICK x \in Bad : \A y \in Bad : x <= y
    <3>1. Bad \subseteq Nat
      BY <1>1
    <3> HIDE DEF Bad
    <3> QED BY <3>1, NatLeast
  <2>2. x # 0
    <3>1. <<>> \in Seq(U)
      OBVIOUS
    <3> QED BY <1>2, <2>1, <3>1
  <2>3. x \in 1..Len(s) /\ x - 1 \in 0..Len(s) /\ x - 1 \notin Bad
    BY <1>1, <2>1, <2>2
  <2>4. f[x - 1] \in Seq(U)
    BY <2>3
  <2>5. f[x] \in Seq(U)
    <3>1. CASE x \in keep
      <4>1. s[x] \in U /\ f[x] = Append(f[x - 1], s[x])
        BY <1>2, <1>3, <2>3, <3>1
      <4> QED BY <2>4, <4>1, AppendProperties
    <3>2. CASE x \notin keep
      BY <1>2, <2>3, <2>4, <3>2
    <3> QED BY <3>1, <3>2
  <2> QED BY <2>1, <2>5
<1> QED BY <1>1, <1>2, <1>4 DEF U

\* Counting up to k within a set.
LEMMA Counting ==
  ASSUME NEW k \in Nat, NEW S, 0 \in S, \A n \in 1..k : n - 1 \in S => n \in S
  PROVE  \A n \in 0..k : n \in S
<1> DEFINE Bad == {n \in 0..k : n \notin S}
<1> SUFFICES ASSUME Bad # {} PROVE FALSE
  OBVIOUS
<1>1. PICK x \in Bad : \A y \in Bad : x <= y
  <2>1. Bad \subseteq Nat
    OBVIOUS
  <2> HIDE DEF Bad
  <2> QED BY <2>1, NatLeast
<1>2. x # 0 /\ x \in 0..k
  BY <1>1
<1>3. x \in 1..k /\ x - 1 \in 0..k /\ ~(x <= x - 1)
  BY <1>2
<1>4. x - 1 \notin Bad
  BY <1>1, <1>3
<1> QED BY <1>1, <1>3, <1>4

\* f is the loop of Picked.
Loop(s, keep, f) ==
    /\ Picked(s, keep) = f[Len(s)]
    /\ f[0] = <<>>
    /\ \A n \in 1..Len(s) : f[n] = IF n \in keep THEN Append(f[n - 1], s[n]) ELSE f[n - 1]

LEMMA LoopExists == ASSUME NEW S, NEW s \in Seq(S), NEW keep PROVE \E f : Loop(s, keep, f)
<1>1. Len(s) \in Nat
  OBVIOUS
<1> QED BY <1>1, PickedLoop DEF Loop

LEMMA LoopType ==
  ASSUME NEW S, NEW s \in Seq(S), NEW keep, NEW f, Loop(s, keep, f)
  PROVE  \A n \in 0..Len(s) : f[n] \in Seq(S)
<1>1. Len(s) \in Nat
  OBVIOUS
<1> DEFINE Good == {n \in 0..Len(s) : f[n] \in Seq(S)}
<1>2. 0 \in Good
  <2>1. <<>> \in Seq(S) /\ f[0] = <<>>
    BY DEF Loop
  <2>2. 0 \in 0..Len(s)
    BY <1>1
  <2> QED BY <2>1, <2>2, Zenon
<1>3. ASSUME NEW n \in 1..Len(s), n - 1 \in Good PROVE n \in Good
  <2>1. s[n] \in S
    OBVIOUS
  <2>2. f[n - 1] \in Seq(S) /\ Append(f[n - 1], s[n]) \in Seq(S)
    BY <1>3, <2>1, AppendProperties
  <2>3. f[n] \in Seq(S)
    BY <2>2 DEF Loop
  <2> QED BY <1>1, <2>3
<1> HIDE DEF Good
<1>4. \A n \in 0..Len(s) : n \in Good
  BY <1>1, <1>2, <1>3, Counting
<1> QED BY <1>4 DEF Good

\* What is picked depends on which of the positions of s are kept.
LEMMA PickedSame ==
  ASSUME NEW S, NEW s \in Seq(S), NEW keep, NEW kept,
         \A n \in DOMAIN s : n \in keep <=> n \in kept
  PROVE  Picked(s, keep) = Picked(s, kept)
<1>1. Len(s) \in Nat /\ DOMAIN s = 1..Len(s)
  OBVIOUS
<1>2. PICK f : Loop(s, keep, f)
  BY <1>1, LoopExists
<1>3. PICK g : Loop(s, kept, g)
  BY <1>1, LoopExists
<1> DEFINE Good == {n \in 0..Len(s) : f[n] = g[n]}
<1>4. 0 \in Good
  BY <1>1, <1>2, <1>3 DEF Loop
<1>5. ASSUME NEW n \in 1..Len(s), n - 1 \in Good PROVE n \in Good
  <2>1. n \in 0..Len(s) /\ n \in DOMAIN s
    BY <1>1
  <2>2. f[n] = IF n \in keep THEN Append(f[n - 1], s[n]) ELSE f[n - 1]
    BY <1>2, Zenon DEF Loop
  <2>3. g[n] = IF n \in kept THEN Append(g[n - 1], s[n]) ELSE g[n - 1]
    BY <1>3, Zenon DEF Loop
  <2>4. f[n - 1] = g[n - 1] /\ (n \in keep <=> n \in kept)
    BY <1>5, <2>1
  <2> QED BY <2>1, <2>2, <2>3, <2>4
<1> HIDE DEF Good
<1>6. \A n \in 0..Len(s) : n \in Good
  BY <1>1, <1>4, <1>5, Counting
<1>7. f[Len(s)] = g[Len(s)]
  BY <1>1, <1>6 DEF Good
<1> QED BY <1>2, <1>3, <1>7 DEF Loop

\* Every element at a position that is kept is picked.
LEMMA PickedHas ==
  ASSUME NEW S, NEW s \in Seq(S), NEW keep, NEW m \in DOMAIN s, m \in keep
  PROVE  \E i \in DOMAIN Picked(s, keep) : Picked(s, keep)[i] = s[m]
<1>1. Len(s) \in Nat /\ DOMAIN s = 1..Len(s)
  OBVIOUS
<1>2. PICK f : Loop(s, keep, f)
  BY <1>1, LoopExists
<1>3. \A n \in 0..Len(s) : f[n] \in Seq(S)
  BY <1>2, LoopType
<1> DEFINE Has(q) == \E i \in DOMAIN q : q[i] = s[m]
           Good == {n \in 0..Len(s) : n >= m => Has(f[n])}
<1>4. 0 \in Good
  BY <1>1
<1>5. ASSUME NEW n \in 1..Len(s), n - 1 \in Good PROVE n \in Good
  <2>1. n \in 0..Len(s) /\ n - 1 \in 0..Len(s) /\ f[n - 1] \in Seq(S) /\ s[n] \in S
    BY <1>1, <1>3
  <2> PICK q, x : q = f[n - 1] /\ x = s[n]
    OBVIOUS
  <2>2. /\ Len(q) \in Nat /\ DOMAIN q = 1..Len(q) /\ DOMAIN Append(q, x) = 1..Len(q) + 1
        /\ Append(q, x)[Len(q) + 1] = x /\ \A i \in 1..Len(q) : Append(q, x)[i] = q[i]
    BY <2>1, AppendProperties
  <2>3. f[n] = IF n \in keep THEN Append(q, x) ELSE q
    BY <1>2, Zenon DEF Loop
  <2>4. CASE n = m
    <3>1. f[n] = Append(q, x) /\ x = s[m]
      BY <2>3, <2>4
    <3>2. Len(q) + 1 \in DOMAIN f[n] /\ f[n][Len(q) + 1] = s[m]
      BY <2>2, <3>1
    <3> QED BY <2>1, <3>2
  <2>5. CASE n > m
    <3>1. Has(q)
      BY <1>1, <1>5, <2>5
    <3>2. Has(Append(q, x))
      BY <2>2, <3>1
    <3>3. Has(f[n])
      BY <2>3, <3>1, <3>2
    <3> QED BY <2>1, <3>3
  <2>6. CASE n < m
    BY <1>1, <2>1, <2>6
  <2> QED BY <1>1, <2>4, <2>5, <2>6
<1> HIDE DEF Good
<1>6. \A n \in 0..Len(s) : n \in Good
  BY <1>1, <1>4, <1>5, Counting
<1>7. Has(f[Len(s)])
  BY <1>1, <1>6 DEF Good
<1> QED BY <1>2, <1>7 DEF Loop

\* As many elements are picked as there are positions.
LEMMA PickedCount ==
  ASSUME NEW S, NEW s \in Seq(S), NEW keep
  PROVE  Len(Picked(s, keep)) = Cardinality(DOMAIN s \cap keep)
<1>1. Len(s) \in Nat /\ DOMAIN s = 1..Len(s)
  OBVIOUS
<1>2. PICK f : Loop(s, keep, f)
  BY <1>1, LoopExists
<1>3. \A n \in 0..Len(s) : f[n] \in Seq(S)
  BY <1>2, LoopType
<1> DEFINE Kept(n) == (1..n) \cap keep
           Good == {n \in 0..Len(s) :
                        IsFiniteSet(Kept(n)) /\ Len(f[n]) = Cardinality(Kept(n))}
<1>4. 0 \in Good
  <2>1. Kept(0) = {} /\ Len(f[0]) = 0
    BY <1>2 DEF Loop
  <2> QED BY <1>1, <2>1, FS_EmptySet
<1>5. ASSUME NEW n \in 1..Len(s), n - 1 \in Good PROVE n \in Good
  <2>1. n \in 0..Len(s) /\ n - 1 \in 0..Len(s) /\ f[n - 1] \in Seq(S) /\ s[n] \in S
    BY <1>1, <1>3
  <2> PICK q, K, L : q = f[n - 1] /\ K = Kept(n - 1) /\ L = Kept(n)
    OBVIOUS
  <2>2. IsFiniteSet(K) /\ Len(q) = Cardinality(K) /\ n \notin K
    BY <1>1, <1>5
  <2>3. CASE n \in keep
    <3>1. L = K \cup {n}
      BY <1>1, <2>3
    <3>2. IsFiniteSet(L) /\ Cardinality(L) = Cardinality(K) + 1
      <4> HIDE DEF Kept, Good
      <4> QED BY <2>2, <3>1, FS_AddElement
    <3>3. f[n] = Append(q, s[n])
      BY <1>2, <2>3, Zenon DEF Loop
    <3>4. Len(f[n]) = Len(q) + 1
      BY <2>1, <3>3, AppendProperties
    <3> QED BY <2>1, <2>2, <3>2, <3>4
  <2>4. CASE n \notin keep
    <3>1. L = K
      BY <1>1, <2>4
    <3>2. f[n] = q
      BY <1>2, <2>4, Zenon DEF Loop
    <3> QED BY <2>1, <2>2, <3>1, <3>2
  <2> QED BY <2>3, <2>4
<1> HIDE DEF Good
<1>6. \A n \in 0..Len(s) : n \in Good
  BY <1>1, <1>4, <1>5, Counting
<1>7. Len(f[Len(s)]) = Cardinality(Kept(Len(s)))
  BY <1>1, <1>6 DEF Good
<1> QED BY <1>1, <1>2, <1>7 DEF Loop

\* What is picked of two sequences, one after the other.
LEMMA PickedConcat ==
  ASSUME NEW S, NEW s \in Seq(S), NEW t \in Seq(S), NEW keep, NEW left, NEW right,
         \A n \in DOMAIN s : n \in keep <=> n \in left,
         \A n \in DOMAIN t : Len(s) + n \in keep <=> n \in right
  PROVE  Picked(s \o t, keep) = Picked(s, left) \o Picked(t, right)
<1>0. \A a, b, c \in Seq(S) : (a \o b) \o c = a \o (b \o c)
  BY ConcatAssociative, SMTT(30)
<1> PICK u : u = s \o t
  OBVIOUS
<1>1. /\ Len(s) \in Nat /\ DOMAIN s = 1..Len(s) /\ Len(t) \in Nat /\ DOMAIN t = 1..Len(t)
      /\ u \in Seq(S) /\ Len(u) = Len(s) + Len(t) /\ Len(u) \in Nat
  BY ConcatProperties
<1>2. /\ \A n \in 1..Len(s) : u[n] = s[n]
      /\ \A n \in 1..Len(t) : u[Len(s) + n] = t[n]
  <2>1. \A i \in 1..Len(s) + Len(t) : u[i] = IF i <= Len(s) THEN s[i] ELSE t[i - Len(s)]
    BY ConcatProperties
  <2>2. ASSUME NEW n \in 1..Len(s) PROVE u[n] = s[n]
    BY <1>1, <2>1
  <2>3. ASSUME NEW n \in 1..Len(t) PROVE u[Len(s) + n] = t[n]
    <3>1. Len(s) + n \in 1..Len(s) + Len(t) /\ ~(Len(s) + n <= Len(s)) /\ (Len(s) + n) - Len(s) = n
      BY <1>1
    <3> QED BY <2>1, <3>1
  <2> QED BY <2>2, <2>3
<1>3. PICK f : Loop(u, keep, f)
  BY <1>1, LoopExists
<1>4. PICK g : Loop(s, left, g)
  BY <1>1, LoopExists
<1>5. PICK h : Loop(t, right, h)
  BY <1>1, LoopExists
<1>6. /\ \A n \in 0..Len(s) : g[n] \in Seq(S)
      /\ \A n \in 0..Len(t) : h[n] \in Seq(S)
  BY <1>4, <1>5, LoopType
<1>7. f[Len(s)] = g[Len(s)]
  <2> DEFINE Good == {n \in 0..Len(s) : f[n] = g[n]}
  <2>1. 0 \in Good
    BY <1>1, <1>3, <1>4 DEF Loop
  <2>2. ASSUME NEW n \in 1..Len(s), n - 1 \in Good PROVE n \in Good
    <3>1. n \in 0..Len(s) /\ n \in DOMAIN s /\ n \in 1..Len(u)
      BY <1>1
    <3>2. f[n] = IF n \in keep THEN Append(f[n - 1], u[n]) ELSE f[n - 1]
      BY <1>3, <3>1, Zenon DEF Loop
    <3>3. g[n] = IF n \in left THEN Append(g[n - 1], s[n]) ELSE g[n - 1]
      BY <1>4, Zenon DEF Loop
    <3>4. f[n - 1] = g[n - 1] /\ (n \in keep <=> n \in left) /\ u[n] = s[n]
      BY <1>2, <2>2, <3>1
    <3> QED BY <3>1, <3>2, <3>3, <3>4
  <2> HIDE DEF Good
  <2>3. \A n \in 0..Len(s) : n \in Good
    BY <1>1, <2>1, <2>2, Counting
  <2> QED BY <1>1, <2>3 DEF Good
<1> PICK G : G = g[Len(s)]
  OBVIOUS
<1>8. G \in Seq(S)
  BY <1>1, <1>6
<1>9. f[Len(s) + Len(t)] = G \o h[Len(t)]
  <2> DEFINE Good == {n \in 0..Len(t) : f[Len(s) + n] = G \o h[n]}
  <2>1. 0 \in Good
    <3>1. h[0] = <<>> /\ Len(s) + 0 = Len(s) /\ G \o <<>> = G
      BY <1>1, <1>5, <1>8, ConcatEmptySeq DEF Loop
    <3>2. 0 \in 0..Len(t)
      BY <1>1
    <3> QED BY <1>7, <3>1, <3>2, Zenon
  <2>2. ASSUME NEW n \in 1..Len(t), n - 1 \in Good PROVE n \in Good
    <3>1. /\ n \in 0..Len(t) /\ n - 1 \in 0..Len(t) /\ n \in DOMAIN t /\ Len(s) + n \in 1..Len(u)
          /\ (Len(s) + n) - 1 = Len(s) + (n - 1)
      BY <1>1
    <3> PICK q, x : q = h[n - 1] /\ x = t[n]
      OBVIOUS
    <3>2. f[Len(s) + n] = IF Len(s) + n \in keep THEN Append(f[(Len(s) + n) - 1], u[Len(s) + n])
                          ELSE f[(Len(s) + n) - 1]
      BY <1>3, <3>1, Zenon DEF Loop
    <3>3. h[n] = IF n \in right THEN Append(q, x) ELSE q
      BY <1>5, Zenon DEF Loop
    <3>4. f[(Len(s) + n) - 1] = G \o q /\ u[Len(s) + n] = x
      BY <1>2, <2>2, <3>1
    <3>5. Append(G \o q, x) = G \o Append(q, x)
      <4>1. q \in Seq(S) /\ x \in S
        BY <1>6, <3>1, ElementOfSeq
      <4>2. <<x>> \in Seq(S) /\ G \o q \in Seq(S)
        BY <1>8, <4>1, ConcatProperties
      <4>3. Append(q, x) = q \o <<x>> /\ Append(G \o q, x) = (G \o q) \o <<x>>
        BY <4>1, <4>2, AppendIsConcat
      <4>4. (G \o q) \o <<x>> = G \o (q \o <<x>>)
        <5> PICK y : y = <<x>>
          OBVIOUS
        <5>1. y \in Seq(S)
          BY <4>2
        <5>2. (G \o q) \o y = G \o (q \o y)
          BY <1>0, <1>8, <4>1, <5>1, ZenonT(30)
        <5> QED BY <5>2
      <4> QED BY <4>3, <4>4
    <3>6. Len(s) + n \in keep <=> n \in right
      BY <3>1
    <3>7. f[Len(s) + n] = G \o h[n]
      BY <3>2, <3>3, <3>4, <3>5, <3>6, Zenon
    <3> QED BY <3>1, <3>7
  <2> HIDE DEF Good
  <2>3. \A n \in 0..Len(t) : n \in Good
    BY <1>1, <2>1, <2>2, Counting
  <2>4. Len(t) \in 0..Len(t)
    BY <1>1
  <2> QED BY <2>3, <2>4, Zenon DEF Good
<1>10. Picked(u, keep) = f[Len(s) + Len(t)] /\ Picked(s, left) = G /\ Picked(t, right) = h[Len(t)]
  BY <1>1, <1>3, <1>4, <1>5 DEF Loop
<1> QED BY <1>9, <1>10

-----------------------------------------------------------------------------
(* Jobs.                                                                   *)

Entry == Tokens \X (Tokens \cup {Fallback} \cup Tokens \X Tokens)

Job == [kind: Kinds, args: Seq(Tokens), rest: Seq(Tokens), asked: Seq(Tokens),
        singles: Seq(Tokens), single: BOOLEAN, stage: {"code", "symbol", "decimals"},
        valid: Seq(Tokens), symbols: Seq(Tokens), result: Seq(Entry),
        out: {"none", "ok", "error", "panic"}]

\* Only metadata are asked for one by one, and then one at a time; within a scan
\* batch, the requests are about the tokens with code.
JobShape(j) ==
    /\ j \in Job
    /\ j.single => Metadata(j) /\ Len(j.asked) = 1
    /\ j.singles # <<>> => Metadata(j)
    /\ MidBatch(j) => j.valid = j.asked
    /\ MidBatch(j) /\ j.stage = "decimals" => j.symbols = j.asked

LEMMA TokenSeq == ASSUME NEW s \in Seq(Tokens), NEW keep PROVE Picked(s, keep) \in Seq(Tokens)
<1> DEFINE U == {s[n] : n \in DOMAIN s \cap keep}
<1>1. U \subseteq Tokens
  BY ElementOfSeq
<1>2. Picked(s, keep) \in Seq(U)
  BY PickedType
<1> HIDE DEF U
<1> QED BY <1>1, <1>2, SeqMonotonic

LEMMA OwnType ==
  ASSUME NEW s \in Seq(Tokens)
  PROVE  /\ Own(s) \in Seq(Entry) /\ Len(Own(s)) = Len(s) /\ DOMAIN Own(s) = DOMAIN s
         /\ \A i \in DOMAIN s : Own(s)[i] = <<s[i], s[i]>>
<1>1. Len(s) \in Nat /\ DOMAIN s = 1..Len(s)
  OBVIOUS
<1>2. \A i \in DOMAIN s : <<s[i], s[i]>> \in Entry
  BY ElementOfSeq DEF Entry
<1>3. Own(s) \in [1..Len(s) -> Entry]
  BY <1>1, <1>2 DEF Own
<1>4. Own(s) \in Seq(Entry) /\ Len(Own(s)) = Len(s)
  BY <1>1, <1>3, IsASeq
<1> QED BY <1>1, <1>4 DEF Own

\* A batch and what is left of s.
LEMMA Split ==
  ASSUME NEW S, NEW s \in Seq(S), NEW n \in Nat
  PROVE  /\ Prefix(s, n) \in Seq(S) /\ Rest(s, n) \in Seq(S)
         /\ s = Prefix(s, n) \o Rest(s, n)
         /\ Len(Prefix(s, n)) = Least(n, Len(s))
         /\ Len(Rest(s, n)) = Len(s) - Least(n, Len(s))
<1>1. Len(s) \in Nat
  OBVIOUS
<1>2. CASE n < Len(s)
  <2>1. Prefix(s, n) = SubSeq(s, 1, n) /\ Least(n, Len(s)) = n
    BY <1>1, <1>2 DEF Prefix, Least
  <2>2. Prefix(s, n) \in Seq(S) /\ Len(Prefix(s, n)) = n
    BY <1>1, <1>2, <2>1, SubSeqProperties
  <2>3. Rest(s, n) \in Seq(S) /\ Len(Rest(s, n)) = Len(s) - n
    BY <1>1, <1>2, SubSeqProperties DEF Rest
  <2>4. SubSeq(s, 1, n) \o SubSeq(s, n + 1, Len(s)) = SubSeq(s, 1, Len(s))
    <3>1. 1 \in 1..Len(s) + 1 /\ n \in 1 - 1..Len(s) /\ Len(s) \in n..Len(s)
      BY <1>1, <1>2
    <3> QED BY <3>1, ConcatAdjacentSubSeq
  <2>5. SubSeq(s, 1, Len(s)) = s
    BY SubSeqFull
  <2> QED BY <2>1, <2>2, <2>3, <2>4, <2>5 DEF Rest
<1>3. CASE Len(s) <= n
  <2>1. Prefix(s, n) = SubSeq(s, 1, Len(s)) /\ Least(n, Len(s)) = Len(s)
    BY <1>1, <1>3 DEF Prefix, Least
  <2>2. Prefix(s, n) = s
    BY <2>1, SubSeqFull
  <2>3. Rest(s, n) = <<>>
    BY <1>1, <1>3, SubSeqEmpty DEF Rest
  <2> QED BY <1>1, <2>1, <2>2, <2>3
<1> QED BY <1>1, <1>2, <1>3

LEMMA BatchSizeType == ASSUME NEW j \in Job PROVE BatchSize(j) \in Nat
<1>1. Len(j.args) \in Nat
  BY DEF Job
<1> QED BY <1>1, ClientAssumption DEF BatchSize

\* Issue either leaves the job, or asks, or returns.
LEMMA IssueCases ==
  ASSUME NEW j \in Job, NEW k, k = Issue(j)
  PROVE  \/ (j.out # "none" \/ MidBatch(j)) /\ k = j
         \/ /\ j.out = "none" /\ ~MidBatch(j) /\ j.singles # <<>>
            /\ k = [j EXCEPT !.asked = <<Head(j.singles)>>, !.singles = Tail(j.singles),
                             !.single = TRUE]
         \/ /\ j.out = "none" /\ ~MidBatch(j) /\ j.singles = <<>> /\ j.rest # <<>>
            /\ k = [j EXCEPT !.asked = Prefix(j.rest, BatchSize(j)),
                             !.rest = Rest(j.rest, BatchSize(j)),
                             !.single = FALSE]
         \/ /\ j.out = "none" /\ ~MidBatch(j) /\ j.singles = <<>> /\ j.rest = <<>>
            /\ k = Return(j)
  BY DEF Issue

LEMMA IssueShape == ASSUME NEW j, JobShape(j) PROVE JobShape(Issue(j))
<1> PICK k : k = Issue(j)
  OBVIOUS
<1> SUFFICES JobShape(k)
  OBVIOUS
<1>1. j \in Job
  BY DEF JobShape
<1>2. CASE k = j
  BY <1>2 
<1>3. CASE /\ ~MidBatch(j) /\ j.singles # <<>>
           /\ k = [j EXCEPT !.asked = <<Head(j.singles)>>, !.singles = Tail(j.singles),
                            !.single = TRUE]
  <2>1. j.singles \in Seq(Tokens)
    BY <1>1 DEF Job
  <2>2. Head(j.singles) \in Tokens /\ Tail(j.singles) \in Seq(Tokens)
    BY <1>3, <2>1, HeadTailProperties
  <2>3. <<Head(j.singles)>> \in Seq(Tokens) /\ Len(<<Head(j.singles)>>) = 1
    BY <2>2
  <2>4. k \in Job
    BY <1>1, <1>3, <2>2, <2>3 DEF Job
  <2>5. /\ k.kind = j.kind /\ k.stage = j.stage /\ k.asked = <<Head(j.singles)>>
    BY <1>1, <1>3 DEF Job
  <2> QED BY <1>3, <2>3, <2>4, <2>5 DEF JobShape, Metadata, MidBatch
<1>4. CASE /\ ~MidBatch(j) /\ j.singles = <<>>
           /\ k = [j EXCEPT !.asked = Prefix(j.rest, BatchSize(j)),
                            !.rest = Rest(j.rest, BatchSize(j)),
                            !.single = FALSE]
  <2>1. j.rest \in Seq(Tokens)
    BY <1>1 DEF Job
  <2>2. Prefix(j.rest, BatchSize(j)) \in Seq(Tokens) /\ Rest(j.rest, BatchSize(j)) \in Seq(Tokens)
    BY <1>1, <2>1, BatchSizeType, Split
  <2>3. k \in Job
    BY <1>1, <1>4, <2>2 DEF Job
  <2>4. k.single = FALSE /\ k.singles = <<>> /\ k.kind = j.kind /\ k.stage = j.stage
    BY <1>1, <1>4 DEF Job
  <2> QED BY <1>4, <2>3, <2>4 DEF JobShape, MidBatch
<1>5. CASE ~MidBatch(j) /\ k = Return(j)
  <2>1. \E o \in {"panic", "ok"} : k = [j EXCEPT !.out = o]
    BY <1>5 DEF Return
  <2>2. k \in Job /\ k.kind = j.kind /\ k.stage = j.stage /\ k.single = j.single
        /\ k.singles = j.singles /\ k.asked = j.asked
    BY <1>1, <2>1 DEF Job
  <2> QED BY <1>5, <2>2 DEF JobShape, MidBatch, Metadata
<1> QED BY <1>1, <1>2, <1>3, <1>4, <1>5, IssueCases

LEMMA FailShape ==
  ASSUME NEW j, JobShape(j)
  PROVE  Fail(j) \in Job /\ JobShape(Fail(j))
<1>1. <<>> \in Seq(Entry) /\ j \in Job
  BY DEF JobShape
<1>2. Fail(j) \in Job
  BY <1>1 DEF Fail, Job
<1>3. /\ Fail(j).kind = j.kind /\ Fail(j).stage = j.stage /\ Fail(j).single = j.single
      /\ Fail(j).singles = j.singles /\ Fail(j).asked = j.asked /\ Fail(j).valid = j.valid
      /\ Fail(j).symbols = j.symbols
  BY <1>1 DEF Fail, Job
<1> QED BY <1>2, <1>3 DEF JobShape, Metadata, MidBatch

\* A job that only its result changes of.
LEMMA ResultShape ==
  ASSUME NEW j, JobShape(j), NEW r \in Seq(Entry)
  PROVE  LET k == [j EXCEPT !.result = r]
         IN JobShape(k) /\ k.result = r
<1> PICK k : k = [j EXCEPT !.result = r]
  OBVIOUS
<1>1. j \in Job
  BY DEF JobShape
<1>2. k \in Job /\ k.result = r
  BY <1>1 DEF Job
<1>3. /\ k.kind = j.kind /\ k.stage = j.stage /\ k.single = j.single
      /\ k.singles = j.singles /\ k.asked = j.asked /\ k.valid = j.valid
      /\ k.symbols = j.symbols
  BY <1>1 DEF Job
<1>4. JobShape(k)
  BY <1>2, <1>3 DEF JobShape, Metadata, MidBatch
<1> QED BY <1>2, <1>4

\* Entries of a scan batch: each token has its own symbol and its own decimals.
LEMMA KeyedType ==
  ASSUME NEW s \in Seq(Tokens)
  PROVE  Keyed(s, s, s) \in Seq({<<t, <<t, t>>>> : t \in Tokens})
<1> DEFINE e == [i \in DOMAIN s |-> <<s[i], <<s[i], s[i]>>>>]
           U == {<<t, <<t, t>>>> : t \in Tokens}
<1>1. Len(s) \in Nat /\ DOMAIN s = 1..Len(s)
  OBVIOUS
<1>2. \A i \in 1..Len(s) : <<s[i], <<s[i], s[i]>>>> \in U
  BY ElementOfSeq
<1>3. e \in [1..Len(s) -> U]
  BY <1>1, <1>2
<1>4. e \in Seq(U)
  BY <1>1, <1>3, SeqDef
<1>5. PICK keep : Keyed(s, s, s) = Picked(e, keep)
  BY DEF Keyed, Select
<1> HIDE DEF e, U
<1>6. {e[n] : n \in DOMAIN e \cap keep} \subseteq U
  BY <1>4, ElementOfSeq
<1>7. Picked(e, keep) \in Seq({e[n] : n \in DOMAIN e \cap keep})
  BY <1>4, PickedType
<1>8. Picked(e, keep) \in Seq(U)
  <2> DEFINE V == {e[n] : n \in DOMAIN e \cap keep}
  <2>1. V \subseteq U /\ Picked(e, keep) \in Seq(V)
    BY <1>6, <1>7
  <2> HIDE DEF V
  <2> QED BY <2>1, SeqMonotonic
<1> QED BY <1>5, <1>8 DEF U

LEMMA KeyedEntries == Seq({<<t, <<t, t>>>> : t \in Tokens}) \subseteq Seq(Entry)
<1> DEFINE U == {<<t, <<t, t>>>> : t \in Tokens}
<1>1. U \subseteq Entry
  BY DEF Entry
<1> HIDE DEF U
<1>2. \A q \in Seq(U) : q \in Seq(Entry)
  BY <1>1, SeqMonotonic
<1> QED BY <1>2 DEF U

\* The answers of a scan.
LEMMA ScanAnsweredCases ==
  ASSUME NEW j, JobShape(j), j.kind = "scan", NEW k, k = ScanAnswered(j)
  PROVE  /\ JobShape(k) /\ k.out = j.out /\ k.args = j.args /\ k.kind = j.kind
         /\ \/ k.result = j.result
            \/ \E e \in Seq({<<t, <<t, t>>>> : t \in Tokens}) : k.result = j.result \o e
<1>1. /\ j \in Job /\ j.asked \in Seq(Tokens) /\ j.stage \in {"code", "symbol", "decimals"}
      /\ j.result \in Seq(Entry)
  BY DEF JobShape, Job
<1>2. j.single = FALSE /\ j.singles = <<>>
  BY <1>1 DEF JobShape, Metadata, Job
<1>3. CASE j.stage = "code"
  <2> DEFINE v == Select(j.asked, HasCode)
  <2>1. v \in Seq(Tokens)
    BY <1>1, TokenSeq DEF Select
  <2>2. k = IF v = <<>> THEN j ELSE [j EXCEPT !.valid = v, !.asked = v, !.stage = "symbol"]
    BY <1>3 DEF ScanAnswered
  <2> HIDE DEF v
  <2>3. CASE v = <<>>
    BY <2>2, <2>3
  <2>4. CASE v # <<>>
    <3>1. k \in Job
      BY <1>1, <2>1, <2>2, <2>4 DEF Job
    <3>2. /\ k.valid = v /\ k.asked = v /\ k.stage = "symbol" /\ k.single = FALSE
          /\ k.singles = <<>> /\ k.out = j.out /\ k.args = j.args /\ k.kind = j.kind
          /\ k.result = j.result
      BY <1>1, <1>2, <2>2, <2>4 DEF Job
    <3> QED BY <3>1, <3>2 DEF JobShape
  <2> QED BY <2>3, <2>4
<1>4. CASE j.stage = "symbol"
  <2>1. k = [j EXCEPT !.symbols = j.asked, !.stage = "decimals"]
    BY <1>4 DEF ScanAnswered
  <2>2. k \in Job
    BY <1>1, <2>1 DEF Job
  <2>3. /\ k.valid = j.valid /\ k.asked = j.asked /\ k.symbols = j.asked /\ k.single = FALSE
        /\ k.singles = <<>> /\ k.out = j.out /\ k.args = j.args /\ k.kind = j.kind
        /\ k.result = j.result
    BY <1>1, <1>2, <2>1 DEF Job
  <2>4. j.valid = j.asked
    BY <1>4 DEF JobShape, MidBatch
  <2> QED BY <2>2, <2>3, <2>4 DEF JobShape
<1>5. CASE j.stage = "decimals"
  <2>1. j.valid = j.asked /\ j.symbols = j.asked
    BY <1>5 DEF JobShape, MidBatch
  <2> DEFINE e == Keyed(j.asked, j.asked, j.asked)
  <2>2. k = [j EXCEPT !.stage = "code", !.result = j.result \o e]
    BY <1>5, <2>1 DEF ScanAnswered
  <2>3. e \in Seq({<<t, <<t, t>>>> : t \in Tokens}) /\ e \in Seq(Entry)
    BY <1>1, KeyedType, KeyedEntries
  <2> HIDE DEF e
  <2>4. j.result \o e \in Seq(Entry)
    BY <1>1, <2>3, ConcatProperties
  <2>5. k \in Job
    BY <1>1, <2>2, <2>4 DEF Job
  <2>6. /\ k.stage = "code" /\ k.single = FALSE
        /\ k.singles = <<>> /\ k.out = j.out /\ k.args = j.args /\ k.kind = j.kind
        /\ k.result = j.result \o e
    BY <1>1, <1>2, <2>2 DEF Job
  <2> QED BY <2>3, <2>5, <2>6 DEF JobShape, MidBatch
<1> QED BY <1>1, <1>3, <1>4, <1>5

LEMMA SucceededCases ==
  ASSUME NEW j, JobShape(j), NEW k, k = Succeeded(j)
  PROVE  /\ JobShape(k) /\ k.args = j.args /\ k.kind = j.kind
         /\ \/ Metadata(j) /\ k = [j EXCEPT !.result = j.result \o Own(Select(j.asked, Unpacks))]
            \/ j.kind = "scan" /\ k = ScanAnswered(j)
            \/ j.kind \in {"pair", "decimals"}
                  /\ (k = [j EXCEPT !.result = Own(j.asked)] \/ k = Fail(j))
            \/ j.kind \in {"once", "blocks"}
                  /\ k = [j EXCEPT !.result = j.result \o Own(j.asked)]
<1>1. /\ j \in Job /\ j.asked \in Seq(Tokens) /\ j.result \in Seq(Entry) /\ j.kind \in Kinds
  BY DEF JobShape, Job
<1>2. CASE Metadata(j)
  <2>1. k = [j EXCEPT !.result = j.result \o Own(Select(j.asked, Unpacks))]
    BY <1>2 DEF Succeeded, MetadataAnswered, Metadata
  <2>2. Own(Select(j.asked, Unpacks)) \in Seq(Entry)
    BY <1>1, TokenSeq, OwnType DEF Select
  <2>3. j.result \o Own(Select(j.asked, Unpacks)) \in Seq(Entry)
    BY <1>1, <2>2, ConcatProperties
  <2>4. JobShape(k)
    BY <2>1, <2>3, ResultShape
  <2>5. k.args = j.args /\ k.kind = j.kind
    BY <1>1, <2>1 DEF Job
  <2> QED BY <1>2, <2>1, <2>4, <2>5
<1>3. CASE j.kind = "scan"
  <2>1. k = ScanAnswered(j)
    BY <1>3 DEF Succeeded, Metadata
  <2> QED BY <1>3, <2>1, ScanAnsweredCases
<1>4. CASE j.kind \in {"pair", "decimals"}
  <2>1. k = DecimalsAnswered(j)
    BY <1>4 DEF Succeeded, Metadata
  <2>2. k = [j EXCEPT !.result = Own(j.asked)] \/ k = Fail(j)
    BY <2>1 DEF DecimalsAnswered
  <2>3. JobShape([j EXCEPT !.result = Own(j.asked)])
    BY <1>1, OwnType, ResultShape
  <2>4. JobShape(k)
    BY <2>2, <2>3, FailShape
  <2>5. k.args = j.args /\ k.kind = j.kind
    BY <1>1, <2>2 DEF Job, Fail
  <2> QED BY <1>4, <2>2, <2>4, <2>5
<1>5. CASE j.kind \in {"once", "blocks"}
  <2>1. k = [j EXCEPT !.result = j.result \o Own(j.asked)]
    BY <1>5 DEF Succeeded, Metadata, BlockAnswered
  <2>2. Own(j.asked) \in Seq(Entry)
    BY <1>1, OwnType
  <2>3. j.result \o Own(j.asked) \in Seq(Entry)
    BY <1>1, <2>2, ConcatProperties
  <2>4. JobShape(k)
    BY <2>1, <2>3, ResultShape
  <2>5. k.args = j.args /\ k.kind = j.kind
    BY <1>1, <2>1 DEF Job
  <2> QED BY <1>5, <2>1, <2>4, <2>5
<1> QED BY <1>1, <1>2, <1>3, <1>4, <1>5 DEF Kinds, Metadata

LEMMA FailedCases ==
  ASSUME NEW j, JobShape(j), NEW k, k = Failed(j)
  PROVE  /\ JobShape(k) /\ k.args = j.args /\ k.kind = j.kind
         /\ \/ Metadata(j) /\ j.single
                  /\ k = [j EXCEPT !.result = Append(j.result, Made(j.asked[1]))]
            \/ Metadata(j) /\ ~j.single /\ Len(j.asked) > 1 /\ k = [j EXCEPT !.singles = j.asked]
            \/ /\ Metadata(j) => ~j.single /\ ~(Len(j.asked) > 1)
               /\ j.kind # "scan" /\ k = Fail(j)
            \/ j.kind = "scan" /\ k = [j EXCEPT !.stage = "code"]
<1>1. /\ j \in Job /\ j.asked \in Seq(Tokens) /\ j.result \in Seq(Entry) /\ j.kind \in Kinds
  BY DEF JobShape, Job
<1>2. CASE Metadata(j) /\ j.single
  <2>1. k = [j EXCEPT !.result = Append(j.result, Made(j.asked[1]))]
    BY <1>2 DEF Failed, MetadataFailed, Metadata
  <2>2. j.asked[1] \in Tokens
    BY <1>1, <1>2 DEF JobShape
  <2>3. Made(j.asked[1]) \in Entry
    BY <2>2 DEF Made, Entry
  <2>4. Append(j.result, Made(j.asked[1])) \in Seq(Entry)
    BY <1>1, <2>3, AppendProperties
  <2>5. JobShape(k)
    BY <2>1, <2>4, ResultShape
  <2>6. k.args = j.args /\ k.kind = j.kind
    BY <1>1, <2>1 DEF Job
  <2> QED BY <1>2, <2>1, <2>5, <2>6
<1>3. CASE Metadata(j) /\ ~j.single /\ Len(j.asked) > 1
  <2>1. k = [j EXCEPT !.singles = j.asked]
    BY <1>3 DEF Failed, MetadataFailed, Metadata
  <2>2. k \in Job
    BY <1>1, <2>1 DEF Job
  <2>3. k.single = FALSE /\ k.args = j.args /\ k.kind = j.kind
    BY <1>1, <1>3, <2>1 DEF Job
  <2>4. JobShape(k)
    BY <1>3, <2>2, <2>3 DEF JobShape, Metadata, MidBatch
  <2> QED BY <1>3, <2>1, <2>3, <2>4
<1>4. CASE /\ Metadata(j) => ~j.single /\ ~(Len(j.asked) > 1)
           /\ j.kind # "scan"
  <2>1. k = Fail(j)
    BY <1>4 DEF Failed, MetadataFailed, Metadata
  <2>2. k.args = j.args /\ k.kind = j.kind
    BY <1>1, <2>1 DEF Job, Fail
  <2> QED BY <1>4, <2>1, <2>2, FailShape
<1>5. CASE j.kind = "scan"
  <2>1. k = [j EXCEPT !.stage = "code"]
    BY <1>5 DEF Failed, ScanFailed, Metadata
  <2>2. k \in Job
    BY <1>1, <2>1 DEF Job
  <2>3. /\ k.single = j.single /\ k.singles = j.singles /\ k.stage = "code"
        /\ k.args = j.args /\ k.kind = j.kind
    BY <1>1, <2>1 DEF Job
  <2>4. JobShape(k)
    BY <1>5, <2>2, <2>3 DEF JobShape, Metadata, MidBatch
  <2> QED BY <1>5, <2>1, <2>3, <2>4
<1> QED BY <1>2, <1>3, <1>4, <1>5 DEF Metadata

\* The job of an operation before its first request.
LEMMA BeginCases ==
  ASSUME NEW o \in Operation
  PROVE  \E j : /\ JobShape(j) /\ j.kind = o.kind /\ j.args = o.args /\ j.rest = o.args
                /\ j.asked = <<>> /\ j.singles = <<>> /\ j.single = FALSE /\ j.stage = "code"
                /\ j.result = <<>> /\ j.out = "none"
                /\ Begin(o) = Issue(j) \/ (o.kind = "pair" /\ Begin(o) = Fail(j))
<1> DEFINE j == [Idle EXCEPT !.kind = o.kind, !.args = o.args, !.rest = o.args, !.out = "none"]
<1>1. o.kind \in Kinds /\ o.args \in Seq(Tokens)
  BY DEF Operation
<1>2. /\ Idle \in Job /\ Idle.asked = <<>> /\ Idle.singles = <<>> /\ Idle.single = FALSE
      /\ Idle.stage = "code" /\ Idle.result = <<>>
  <2>1. <<>> \in Seq(Tokens) /\ <<>> \in Seq(Entry)
    OBVIOUS
  <2> QED BY <2>1 DEF Idle, Job, Kinds
<1>3. Begin(o) = IF Encodes(j) THEN Issue(j) ELSE Fail(j)
  BY DEF Begin
<1>5. j \in Job
  BY <1>1, <1>2 DEF Job
<1>6. /\ j.kind = o.kind /\ j.args = o.args /\ j.rest = o.args
      /\ j.asked = <<>> /\ j.singles = <<>> /\ j.single = FALSE /\ j.stage = "code"
      /\ j.result = <<>> /\ j.out = "none"
  BY <1>1, <1>2 DEF Job
<1> HIDE DEF j
<1>7. JobShape(j)
  BY <1>5, <1>6 DEF JobShape, MidBatch
<1>8. Begin(o) = Issue(j) \/ (o.kind = "pair" /\ Begin(o) = Fail(j))
  BY <1>3, <1>6 DEF Encodes
<1> QED BY <1>6, <1>7, <1>8

\* An operation runs as long as its caller is not idle.
Jobs ==
    /\ job \in [Callers -> Job]
    /\ \A c \in Callers : JobShape(job[c]) /\ (pc[c] = "idle" <=> job[c].out # "none")

\* What a step does to the job of a caller.
JobStep(c) ==
    \/ job'[c] = job[c] /\ (pc'[c] = "idle" <=> pc[c] = "idle")
          /\ (pc'[c] = "backoff" => pc[c] = "backoff" \/ (~ctxDone /\ faults' = faults + 1))
    \/ /\ pc'[c] = IF job'[c].out = "none" THEN "lock" ELSE "idle"
       /\ \/ /\ pc[c] = "idle" /\ job[c].args = <<>>
             /\ \E o \in Operations[c] : job'[c] = Begin(o)
          \/ /\ pc[c] = "call" /\ ~ctxDone /\ ~Reverts(job[c]) /\ faults' = faults
             /\ job'[c] = Issue(Succeeded(job[c]))
          \/ /\ \/ pc[c] = "call" /\ (ctxDone \/ Reverts(job[c]) \/ faults' = faults + 1)
                \/ pc[c] = "backoff"
             /\ job'[c] = Issue(Failed(job[c]))

LEMMA ProceedJobs ==
  ASSUME IInv, Jobs, NEW c \in Callers, NEW j, JobShape(j), Proceed(c, j)
  PROVE  /\ Jobs'
         /\ job'[c] = j /\ pc'[c] = IF j.out = "none" THEN "lock" ELSE "idle"
         /\ \A d \in Callers : d # c => job'[d] = job[d] /\ pc'[d] = pc[d]
<1>1. j \in Job
  BY DEF JobShape
<1>2. /\ job'[c] = j /\ pc'[c] = IF j.out = "none" THEN "lock" ELSE "idle"
      /\ \A d \in Callers : d # c => job'[d] = job[d] /\ pc'[d] = pc[d]
  BY DEF Proceed, Jobs, IInv, Shapes
<1>3. job' \in [Callers -> Job]
  BY <1>1 DEF Proceed, Jobs
<1>4. ASSUME NEW d \in Callers
      PROVE  JobShape(job'[d]) /\ (pc'[d] = "idle" <=> job'[d].out # "none")
  <2>1. CASE d = c
    BY <1>2, <2>1
  <2>2. CASE d # c
    BY <1>2, <2>2 DEF Jobs
  <2> QED BY <2>1, <2>2
<1> QED BY <1>2, <1>3, <1>4 DEF Jobs

LEMMA BeginShape ==
  ASSUME NEW c \in Callers, NEW o \in Operations[c]
  PROVE  JobShape(Begin(o))
<1>1. o \in Operation
  BY ClientAssumption
<1> QED BY <1>1, BeginCases, IssueShape, FailShape

LEMMA JobsStep ==
  ASSUME IInv, Jobs, [Next]_vars
  PROVE  Jobs' /\ \A c \in Callers : JobStep(c)
<1>1. CASE UNCHANGED <<job, pc>>
  BY <1>1 DEF Jobs, JobStep
<1>2. ASSUME NEW c \in Callers, NEW label \in {"tick", "call", "backoff"}, pc[c] # "idle",
             pc' = [pc EXCEPT ![c] = label], job' = job,
             label = "backoff" => ~ctxDone /\ faults' = faults + 1
      PROVE  Jobs' /\ \A d \in Callers : JobStep(d)
  <2>1. \A d \in Callers : /\ pc'[d] = "idle" <=> pc[d] = "idle"
                           /\ pc'[d] = "backoff" => pc[d] = "backoff" \/ (~ctxDone /\ faults' = faults + 1)
    BY <1>2 DEF IInv, Shapes
  <2> QED BY <1>2, <2>1 DEF Jobs, JobStep
<1>3. ASSUME NEW c \in Callers, NEW j, JobShape(j), Proceed(c, j),
             \/ pc[c] = "idle" /\ job[c].args = <<>> /\ \E o \in Operations[c] : j = Begin(o)
             \/ /\ pc[c] = "call" /\ ~ctxDone /\ ~Reverts(job[c]) /\ faults' = faults
                /\ j = Issue(Succeeded(job[c]))
             \/ /\ \/ pc[c] = "call" /\ (ctxDone \/ Reverts(job[c]) \/ faults' = faults + 1)
                   \/ pc[c] = "backoff"
                /\ j = Issue(Failed(job[c]))
      PROVE  Jobs' /\ \A d \in Callers : JobStep(d)
  <2>1. /\ Jobs'
        /\ job'[c] = j /\ pc'[c] = IF j.out = "none" THEN "lock" ELSE "idle"
        /\ \A d \in Callers : d # c => job'[d] = job[d] /\ pc'[d] = pc[d]
    BY <1>3, ProceedJobs
  <2>2. JobStep(c)
    BY <1>3, <2>1 DEF JobStep
  <2>3. \A d \in Callers : d # c => JobStep(d)
    BY <2>1 DEF JobStep
  <2> QED BY <2>1, <2>2, <2>3
<1>4. \A c \in Callers : JobShape(Issue(Succeeded(job[c]))) /\ JobShape(Issue(Failed(job[c])))
  BY SucceededCases, FailedCases, IssueShape DEF Jobs
<1>5. CASE NewClient \/ Close \/ Tick \/ Cancel \/ UNCHANGED vars
  <2>1. UNCHANGED <<job, pc>>
    BY <1>5 DEF NewClient, Close, Tick, Cancel, vars, calls
  <2> QED BY <1>1, <2>1
<1>6. ASSUME NEW c \in Callers, Ask(c) \/ Lock(c) \/ CallerStep(c)
      PROVE  Jobs' /\ \A d \in Callers : JobStep(d)
  <2>1. CASE Ask(c)
    <3>1. PICK o \in Operations[c] : Proceed(c, Begin(o))
      BY <2>1 DEF Ask
    <3>2. pc[c] = "idle" /\ job[c].args = <<>>
      BY <2>1 DEF Ask
    <3> QED BY <1>3, <3>1, <3>2, BeginShape
  <2>2. CASE Lock(c) \/ TakeTick(c)
    <3>1. /\ pc[c] # "idle" /\ job' = job
          /\ pc' = [pc EXCEPT ![c] = "tick"] \/ pc' = [pc EXCEPT ![c] = "call"]
      BY <2>2 DEF Lock, TakeTick
    <3> QED BY <1>2, <3>1
  <2>3. CASE Succeed(c)
    <3>1. /\ pc[c] = "call" /\ ~ctxDone /\ ~Reverts(job[c]) /\ faults' = faults
          /\ Proceed(c, Issue(Succeeded(job[c])))
      BY <2>3 DEF Succeed, Calling
    <3> QED BY <1>3, <1>4, <3>1
  <2>4. CASE Reject(c)
    <3>1. /\ pc[c] = "call" /\ (ctxDone \/ Reverts(job[c]) \/ faults' = faults + 1)
          /\ Proceed(c, Issue(Failed(job[c])))
      BY <2>4 DEF Reject, Calling
    <3> QED BY <1>3, <1>4, <3>1
  <2>5. CASE RateLimited(c)
    <3>1. /\ pc[c] # "idle" /\ job' = job /\ ~ctxDone /\ faults' = faults + 1
          /\ pc' = [pc EXCEPT ![c] = "backoff"]
      BY <2>5 DEF RateLimited, Calling
    <3> QED BY <1>2, <3>1
  <2>6. CASE Retry(c) \/ BackoffCancelled(c)
    <3>1. /\ pc[c] = "backoff"
          /\ \/ Proceed(c, Issue(Failed(job[c])))
             \/ pc' = [pc EXCEPT ![c] = "call"] /\ job' = job
      BY <2>6 DEF Retry, BackoffCancelled
    <3>2. CASE Proceed(c, Issue(Failed(job[c])))
      BY <1>3, <1>4, <3>1, <3>2
    <3>3. CASE pc' = [pc EXCEPT ![c] = "call"] /\ job' = job
      BY <1>2, <3>1, <3>3
    <3> QED BY <3>1, <3>2, <3>3
  <2> QED BY <1>6, <2>1, <2>2, <2>3, <2>4, <2>5, <2>6 DEF CallerStep
<1> QED BY <1>5, <1>6 DEF Next

-----------------------------------------------------------------------------
(* Blocks and scans.                                                       *)

LEMMA OwnConcat ==
  ASSUME NEW s \in Seq(Tokens), NEW t \in Seq(Tokens)
  PROVE  Own(s \o t) = Own(s) \o Own(t)
<1>1. s \o t \in Seq(Tokens) /\ Len(s \o t) = Len(s) + Len(t) /\ Len(s) \in Nat /\ Len(t) \in Nat
  BY ConcatProperties
<1>2. /\ Own(s) \in Seq(Entry) /\ Own(t) \in Seq(Entry) /\ Own(s \o t) \in Seq(Entry)
      /\ Len(Own(s)) = Len(s) /\ Len(Own(t)) = Len(t) /\ Len(Own(s \o t)) = Len(s) + Len(t)
  BY <1>1, OwnType
<1>3. Own(s) \o Own(t) \in Seq(Entry) /\ Len(Own(s) \o Own(t)) = Len(s) + Len(t)
  BY <1>2, ConcatProperties
<1>4. ASSUME NEW i \in 1..Len(s) + Len(t)
      PROVE  Own(s \o t)[i] = (Own(s) \o Own(t))[i]
  <2>1. Own(s \o t)[i] = <<(s \o t)[i], (s \o t)[i]>>
    <3>1. i \in DOMAIN (s \o t)
      BY <1>1
    <3> QED BY <1>1, <3>1, OwnType
  <2>2. CASE i <= Len(s)
    <3>1. (s \o t)[i] = s[i] /\ i \in DOMAIN s
      BY <1>1, <2>2
    <3>2. (Own(s) \o Own(t))[i] = Own(s)[i]
      BY <1>1, <1>2, <2>2, ConcatProperties
    <3>3. Own(s)[i] = <<s[i], s[i]>>
      BY <3>1, OwnType
    <3> QED BY <2>1, <3>1, <3>2, <3>3
  <2>3. CASE i > Len(s)
    <3>1. (s \o t)[i] = t[i - Len(s)] /\ i - Len(s) \in DOMAIN t
      BY <1>1, <2>3
    <3>2. (Own(s) \o Own(t))[i] = Own(t)[i - Len(s)]
      BY <1>1, <1>2, <2>3, ConcatProperties
    <3>3. Own(t)[i - Len(s)] = <<t[i - Len(s)], t[i - Len(s)]>>
      BY <3>1, OwnType
    <3> QED BY <2>1, <3>1, <3>2, <3>3
  <2>4. i <= Len(s) \/ i > Len(s)
    BY <1>1
  <2> QED BY <2>2, <2>3, <2>4
<1> QED BY <1>2, <1>3, <1>4, SeqEqual

\* The blocks of an operation are those that have an answer, those asked for and
\* the rest, in this order.
BlocksOK(j) ==
    j.kind = "blocks" =>
        /\ j.out = "none" => Own(j.args) = (j.result \o Own(j.asked)) \o Own(j.rest)
        /\ j.out = "ok" => j.result = Own(j.args)

\* The same between an answer and the next request.
BlocksMid(j) == j.kind = "blocks" /\ j.out = "none" => Own(j.args) = j.result \o Own(j.rest)

\* Every entry of a scan has the symbol and the decimals of its token.
ScanOK(j) == j.kind = "scan" => j.result \in Seq({<<t, <<t, t>>>> : t \in Tokens})

\* Issue changes neither what is asked for nor what was answered.
LEMMA IssueKeeps ==
  ASSUME NEW j, JobShape(j), NEW k, k = Issue(j)
  PROVE  JobShape(k) /\ k.kind = j.kind /\ k.result = j.result /\ k.args = j.args
<1>1. JobShape(k) /\ j \in Job
  BY IssueShape DEF JobShape
<1>2. CASE k = j
  BY <1>1, <1>2
<1>3. CASE k = [j EXCEPT !.asked = <<Head(j.singles)>>, !.singles = Tail(j.singles),
                         !.single = TRUE]
  BY <1>1, <1>3 DEF Job
<1>4. CASE k = [j EXCEPT !.asked = Prefix(j.rest, BatchSize(j)),
                         !.rest = Rest(j.rest, BatchSize(j)),
                         !.single = FALSE]
  BY <1>1, <1>4 DEF Job
<1>5. CASE k = Return(j)
  <2>1. \E o \in {"panic", "ok"} : k = [j EXCEPT !.out = o]
    BY <1>5 DEF Return
  <2> QED BY <1>1, <2>1 DEF Job
<1> QED BY <1>1, <1>2, <1>3, <1>4, <1>5, IssueCases

LEMMA IssueBlocks ==
  ASSUME NEW j, JobShape(j), j.out = "none", BlocksMid(j)
  PROVE  BlocksOK(Issue(j))
<1> PICK k : k = Issue(j)
  OBVIOUS
<1> SUFFICES ASSUME k.kind = "blocks" PROVE BlocksOK(k)
  BY DEF BlocksOK
<1>1. /\ j \in Job /\ j.result \in Seq(Entry) /\ j.rest \in Seq(Tokens) /\ j.args \in Seq(Tokens)
  BY DEF JobShape, Job
<1>2. k \in Job /\ k.kind = j.kind /\ k.result = j.result /\ k.args = j.args
  BY IssueKeeps DEF JobShape
<1>3. j.kind = "blocks" /\ j.singles = <<>> /\ ~MidBatch(j)
  BY <1>2 DEF JobShape, Metadata, MidBatch
<1>4. Own(j.args) = j.result \o Own(j.rest)
  BY <1>3 DEF BlocksMid
<1>5. CASE k = [j EXCEPT !.asked = Prefix(j.rest, BatchSize(j)),
                         !.rest = Rest(j.rest, BatchSize(j)),
                         !.single = FALSE]
  <2> PICK p, q : p = Prefix(j.rest, BatchSize(j)) /\ q = Rest(j.rest, BatchSize(j))
    OBVIOUS
  <2>1. p \in Seq(Tokens) /\ q \in Seq(Tokens) /\ j.rest = p \o q
    <3>1. BatchSize(j) \in Nat
      BY <1>1, BatchSizeType
    <3>2. j.rest \in Seq(Tokens)
      BY <1>1
    <3> QED BY <3>1, <3>2, Split
  <2>2. Own(j.rest) = Own(p) \o Own(q)
    BY <2>1, OwnConcat
  <2>3. Own(p) \in Seq(Entry) /\ Own(q) \in Seq(Entry)
    BY <2>1, OwnType
  <2>4. Own(j.args) = (j.result \o Own(p)) \o Own(q)
    <3>1. (j.result \o Own(p)) \o Own(q) = j.result \o (Own(p) \o Own(q))
      <4>1. \A r, u, v \in Seq(Entry) : (r \o u) \o v = r \o (u \o v)
        BY ConcatAssociative
      <4>2. j.result \in Seq(Entry)
        BY <1>1
      <4> QED BY <2>3, <4>1, <4>2, Zenon
    <3> QED BY <1>4, <2>2, <3>1
  <2>5. k.asked = p /\ k.rest = q /\ k.out = "none"
    BY <1>1, <1>5 DEF Job
  <2> QED BY <1>2, <2>4, <2>5 DEF BlocksOK
<1>6. CASE j.rest = <<>> /\ k = Return(j)
  <2>1. k = [j EXCEPT !.out = "ok"]
    BY <1>3, <1>6 DEF Return
  <2>2. k.out = "ok"
    BY <1>1, <2>1 DEF Job
  <2>3. Own(<<>>) = <<>>
    BY DEF Own
  <2>4. j.result = Own(j.args)
    BY <1>1, <1>4, <1>6, <2>3, ConcatEmptySeq
  <2> QED BY <1>2, <2>2, <2>4 DEF BlocksOK
<1> QED BY <1>1, <1>3, <1>5, <1>6, IssueCases

LEMMA AnswerBlocks ==
  ASSUME NEW j, JobShape(j), j.out = "none", BlocksOK(j),
         NEW k, k = Succeeded(j) \/ k = Failed(j)
  PROVE  JobShape(k) /\ (k.out = "none" => BlocksMid(k)) /\ (k.out # "none" => BlocksOK(k))
<1>1. JobShape(k) /\ k.kind = j.kind
  BY SucceededCases, FailedCases
<1>2. ASSUME j.kind = "blocks"
      PROVE  /\ k.out = "none" => Own(k.args) = k.result \o Own(k.rest)
             /\ k.out \in {"none", "error"}
  <2>1. k = [j EXCEPT !.result = j.result \o Own(j.asked)] \/ k = Fail(j)
    BY <1>2, SucceededCases, FailedCases DEF Metadata
  <2>2. j \in Job
    BY DEF JobShape
  <2>3. CASE k = [j EXCEPT !.result = j.result \o Own(j.asked)]
    <3>1. k.result = j.result \o Own(j.asked) /\ k.rest = j.rest /\ k.args = j.args
          /\ k.out = "none"
      BY <2>2, <2>3 DEF Job
    <3> QED BY <1>2, <3>1 DEF BlocksOK
  <2>4. CASE k = Fail(j)
    <3>1. k.out = "error"
      BY <2>2, <2>4 DEF Job, Fail
    <3> QED BY <3>1
  <2> QED BY <2>1, <2>3, <2>4
<1> QED BY <1>1, <1>2 DEF BlocksMid, BlocksOK

LEMMA IssueScan ==
  ASSUME NEW j, JobShape(j), ScanOK(j)
  PROVE  ScanOK(Issue(j))
<1> PICK k : k = Issue(j)
  OBVIOUS
<1>1. j \in Job
  BY DEF JobShape
<1>2. k.kind = j.kind /\ k.result = j.result
  BY IssueKeeps
<1> QED BY <1>2 DEF ScanOK

LEMMA AnswerScan ==
  ASSUME NEW j, JobShape(j), ScanOK(j), NEW k, k = Succeeded(j) \/ k = Failed(j)
  PROVE  JobShape(k) /\ ScanOK(k)
<1>1. JobShape(k) /\ k.kind = j.kind
  BY SucceededCases, FailedCases
<1>2. ASSUME j.kind = "scan" PROVE k.result \in Seq({<<t, <<t, t>>>> : t \in Tokens})
  <2> DEFINE U == {<<t, <<t, t>>>> : t \in Tokens}
  <2>1. j.result \in Seq(U) /\ j \in Job
    BY <1>2 DEF ScanOK, JobShape
  <2>2. \/ k = ScanAnswered(j)
        \/ k = [j EXCEPT !.stage = "code"]
    BY <1>2, SucceededCases, FailedCases DEF Metadata
  <2>3. CASE k = ScanAnswered(j)
    <3>1. k.result = j.result \/ \E e \in Seq(U) : k.result = j.result \o e
      BY <1>2, <2>3, ScanAnsweredCases
    <3> HIDE DEF U
    <3>2. \A e \in Seq(U) : j.result \o e \in Seq(U)
      BY <2>1, ConcatProperties
    <3>3. k.result \in Seq(U)
      BY <2>1, <3>1, <3>2
    <3> QED BY <3>3 DEF U
  <2>4. CASE k = [j EXCEPT !.stage = "code"]
    <3>1. k.result = j.result
      BY <2>1, <2>4 DEF Job
    <3> QED BY <2>1, <3>1
  <2> QED BY <2>2, <2>3, <2>4
<1> QED BY <1>1, <1>2 DEF ScanOK

\* A job that has returned is issued no request.
LEMMA IssueDone == ASSUME NEW j, j.out # "none" PROVE Issue(j) = j
  BY DEF Issue

LEMMA AnswersStep ==
  ASSUME IInv, Jobs, [Next]_vars, \A c \in Callers : BlocksOK(job[c]) /\ ScanOK(job[c])
  PROVE  \A c \in Callers : BlocksOK(job'[c]) /\ ScanOK(job'[c])
<1> SUFFICES ASSUME NEW c \in Callers PROVE BlocksOK(job'[c]) /\ ScanOK(job'[c])
  OBVIOUS
<1>1. JobStep(c)
  BY JobsStep
<1>2. CASE job'[c] = job[c]
  BY <1>2
<1>3. CASE \E o \in Operations[c] : job'[c] = Begin(o)
  <2>1. PICK o \in Operations[c] : job'[c] = Begin(o)
    BY <1>3
  <2>2. o \in Operation
    BY ClientAssumption
  <2>3. PICK j : /\ JobShape(j) /\ j.kind = o.kind /\ j.args = o.args /\ j.rest = o.args
                 /\ j.asked = <<>> /\ j.singles = <<>> /\ j.single = FALSE /\ j.stage = "code"
                 /\ j.result = <<>> /\ j.out = "none"
                 /\ Begin(o) = Issue(j) \/ (o.kind = "pair" /\ Begin(o) = Fail(j))
    BY <2>2, BeginCases
  <2>4. CASE Begin(o) = Issue(j)
    <3>1. Own(j.rest) \in Seq(Entry)
      BY <2>2, <2>3, OwnType DEF Operation
    <3>2. BlocksMid(j)
      BY <2>3, <3>1, ConcatEmptySeq DEF BlocksMid
    <3>3. ScanOK(j)
      BY <2>3 DEF ScanOK
    <3> QED BY <2>1, <2>3, <2>4, <3>2, <3>3, IssueBlocks, IssueScan
  <2>5. CASE o.kind = "pair" /\ Begin(o) = Fail(j)
    <3>1. Fail(j).kind = "pair"
      BY <2>3, <2>5 DEF Fail, JobShape, Job
    <3> QED BY <2>1, <2>5, <3>1 DEF BlocksOK, ScanOK
  <2> QED BY <2>3, <2>4, <2>5
<1>4. CASE /\ pc[c] # "idle"
           /\ \E k : (k = Succeeded(job[c]) \/ k = Failed(job[c])) /\ job'[c] = Issue(k)
  <2>1. PICK k : (k = Succeeded(job[c]) \/ k = Failed(job[c])) /\ job'[c] = Issue(k)
    BY <1>4
  <2>2. JobShape(job[c]) /\ job[c].out = "none"
    BY <1>4 DEF Jobs
  <2>3. /\ JobShape(k) /\ ScanOK(k)
        /\ k.out = "none" => BlocksMid(k)
        /\ k.out # "none" => BlocksOK(k)
    BY <2>1, <2>2, AnswerBlocks, AnswerScan
  <2>4. CASE k.out = "none"
    BY <2>1, <2>3, <2>4, IssueBlocks, IssueScan
  <2>5. CASE k.out # "none"
    BY <2>1, <2>3, <2>5, IssueDone
  <2> QED BY <2>4, <2>5
<1> QED BY <1>1, <1>2, <1>3, <1>4 DEF JobStep

-----------------------------------------------------------------------------
(* Made-up metadata.                                                       *)

\* The types that the jobs of the callers and the ticks do not show.
Ambient ==
    /\ client \in {"none", "refused", "open", "closed"}
    /\ holder \in Callers \cup {NoCaller}
    /\ ctxDone \in BOOLEAN
    /\ faults \in 0..MaxFaults

LEMMA AmbientStep ==
  ASSUME Ambient, [Next]_vars
  PROVE  Ambient' /\ faults' \in {faults, faults + 1} /\ (ctxDone => ctxDone')
<1>1. MaxFaults \in Nat /\ faults \in Nat /\ faults <= MaxFaults
  BY ClientAssumption DEF Ambient
<1>2. \/ faults' = faults
      \/ faults < MaxFaults /\ faults' = faults + 1
  BY DEF Next, NewClient, Close, Tick, Cancel, Ask, Lock, CallerStep, TakeTick, Succeed, Reject,
         RateLimited, Retry, BackoffCancelled, vars
<1>3. ctxDone' = ctxDone \/ ctxDone' = TRUE
  BY DEF Next, NewClient, Close, Tick, Cancel, Ask, Lock, CallerStep, TakeTick, Succeed, Reject,
         RateLimited, Retry, BackoffCancelled, Calling, vars
<1>4. client' = client \/ client' \in {"open", "refused", "closed"}
  BY DEF Next, NewClient, Close, Tick, Cancel, Ask, Lock, CallerStep, TakeTick, Succeed, Reject,
         RateLimited, Retry, BackoffCancelled, Calling, vars, limiter
<1>5. holder' = holder \/ holder' \in Callers \cup {NoCaller}
  BY DEF Next, NewClient, Close, Tick, Cancel, Ask, Lock, CallerStep, TakeTick, Succeed, Reject,
         RateLimited, Retry, BackoffCancelled, Calling, vars, limiter
<1>6. faults' \in 0..MaxFaults /\ faults' \in {faults, faults + 1}
  BY <1>1, <1>2
<1>7. client' \in {"none", "refused", "open", "closed"} /\ holder' \in Callers \cup {NoCaller}
  BY <1>4, <1>5 DEF Ambient
<1>8. ctxDone' \in BOOLEAN /\ (ctxDone => ctxDone')
  BY <1>3 DEF Ambient
<1> QED BY <1>6, <1>7, <1>8 DEF Ambient

\* Made-up entries of tokens that do not revert.
Unearned(j) ==
    {i \in DOMAIN j.result : j.result[i][2] = Fallback /\ Nature[j.result[i][1]] # "reverts"}

\* Each of them has cost a failed call; a request that waits to be tried again
\* has had one more.
Earned ==
    \A c \in Callers : job[c].kind = "metadata" /\ ~ctxDone =>
        Cardinality(Unearned(job[c])) + (IF pc[c] = "backoff" THEN 1 ELSE 0) <= faults

LEMMA UnearnedType ==
  ASSUME NEW j \in Job
  PROVE  IsFiniteSet(Unearned(j)) /\ Cardinality(Unearned(j)) \in Nat
<1>1. Len(j.result) \in Nat /\ DOMAIN j.result = 1..Len(j.result)
  BY DEF Job
<1>2. IsFiniteSet(1..Len(j.result))
  BY <1>1, FS_Interval
<1>3. Unearned(j) \subseteq 1..Len(j.result)
  BY <1>1 DEF Unearned
<1> QED BY <1>2, <1>3, FS_Subset, FS_CardinalityType

\* Entries with the data of their token are not made up.
LEMMA OwnIsEarned ==
  ASSUME NEW j, JobShape(j), NEW s \in Seq(Tokens), NEW k,
         k.result = j.result \o Own(s)
  PROVE  Unearned(k) = Unearned(j)
<1> PICK r, q : r = j.result /\ q = Own(s)
  OBVIOUS
<1>1. /\ r \in Seq(Entry) /\ q \in Seq(Entry) /\ Len(q) = Len(s) /\ Len(r) \in Nat
      /\ Len(s) \in Nat /\ DOMAIN r = 1..Len(r) /\ DOMAIN s = 1..Len(s)
  BY OwnType DEF JobShape, Job
<1>2. \A i \in 1..Len(s) : q[i][2] \in Tokens
  <2> TAKE i \in 1..Len(s)
  <2>1. q[i] = <<s[i], s[i]>> /\ s[i] \in Tokens
    BY <1>1, OwnType, ElementOfSeq
  <2> QED BY <2>1
<1>3. /\ DOMAIN (r \o q) = 1..Len(r) + Len(s)
      /\ \A i \in 1..Len(r) : (r \o q)[i] = r[i]
      /\ \A i \in 1..Len(r) + Len(s) : i \notin 1..Len(r) =>
            i - Len(r) \in 1..Len(s) /\ (r \o q)[i] = q[i - Len(r)]
  <2>1. /\ r \o q \in Seq(Entry) /\ Len(r \o q) = Len(r) + Len(q)
        /\ \A i \in 1..Len(r) + Len(q) :
              (r \o q)[i] = IF i <= Len(r) THEN r[i] ELSE q[i - Len(r)]
    <3>1. \A u, v \in Seq(Entry) :
            /\ u \o v \in Seq(Entry) /\ Len(u \o v) = Len(u) + Len(v)
            /\ \A i \in 1..Len(u) + Len(v) :
                  (u \o v)[i] = IF i <= Len(u) THEN u[i] ELSE v[i - Len(u)]
      BY ConcatProperties
    <3>2. r \in Seq(Entry) /\ q \in Seq(Entry)
      BY <1>1
    <3> QED BY <3>1, <3>2, Zenon
  <2>2. DOMAIN (r \o q) = 1..Len(r) + Len(s)
    BY <1>1, <2>1
  <2>3. ASSUME NEW i \in 1..Len(r) PROVE (r \o q)[i] = r[i]
    BY <1>1, <2>1
  <2>4. ASSUME NEW i \in 1..Len(r) + Len(s), i \notin 1..Len(r)
        PROVE  i - Len(r) \in 1..Len(s) /\ (r \o q)[i] = q[i - Len(r)]
    BY <1>1, <2>1, <2>4
  <2> QED BY <2>2, <2>3, <2>4
<1>4. \A i \in 1..Len(r) + Len(s) : i \notin 1..Len(r) => (r \o q)[i][2] # Fallback
  BY <1>2, <1>3, ClientAssumption
<1>5. 1..Len(r) \subseteq 1..Len(r) + Len(s)
  BY <1>1
<1>6. Unearned(k) = {i \in 1..Len(r) + Len(s) :
                        (r \o q)[i][2] = Fallback /\ Nature[(r \o q)[i][1]] # "reverts"}
  BY <1>3 DEF Unearned
<1>7. Unearned(j) = {i \in 1..Len(r) : r[i][2] = Fallback /\ Nature[r[i][1]] # "reverts"}
  BY <1>1 DEF Unearned
<1>8. \A i : i \in Unearned(k) <=> i \in Unearned(j)
  <2> TAKE i
  <2>1. CASE i \in 1..Len(r)
    <3>1. (r \o q)[i] = r[i] /\ i \in 1..Len(r) + Len(s)
      BY <1>3, <1>5, <2>1
    <3> QED BY <1>6, <1>7, <2>1, <3>1
  <2>2. CASE i \notin 1..Len(r)
    BY <1>4, <1>6, <1>7, <2>2, Zenon
  <2> QED BY <2>1, <2>2
<1> QED BY <1>6, <1>7, <1>8

LEMMA MadeIsOne ==
  ASSUME NEW j, JobShape(j), NEW t \in Tokens, NEW k \in Job,
         k.result = Append(j.result, Made(t))
  PROVE  /\ Cardinality(Unearned(k)) <= Cardinality(Unearned(j)) + 1
         /\ Nature[t] = "reverts" => Unearned(k) = Unearned(j)
<1> PICK r, e : r = j.result /\ e = Made(t)
  OBVIOUS
<1>1. r \in Seq(Entry) /\ Len(r) \in Nat /\ DOMAIN r = 1..Len(r) /\ j \in Job
  BY DEF JobShape, Job
<1>2. /\ DOMAIN Append(r, e) = 1..Len(r) + 1
      /\ \A i \in 1..Len(r) : Append(r, e)[i] = r[i]
      /\ Append(r, e)[Len(r) + 1] = e
  BY <1>1
<1>3. \A i \in 1..Len(r) + 1 : i \in 1..Len(r) \/ i = Len(r) + 1
  BY <1>1
<1>4. Unearned(k) = {i \in 1..Len(r) + 1 : Append(r, e)[i][2] = Fallback
                                            /\ Nature[Append(r, e)[i][1]] # "reverts"}
  BY <1>2 DEF Unearned
<1>5. Unearned(j) = {i \in 1..Len(r) : r[i][2] = Fallback /\ Nature[r[i][1]] # "reverts"}
  BY <1>1 DEF Unearned
<1>6. Unearned(k) \subseteq Unearned(j) \cup {Len(r) + 1}
  BY <1>2, <1>3, <1>4, <1>5, Zenon
<1>7. Cardinality(Unearned(k)) <= Cardinality(Unearned(j)) + 1
  <2>1. IsFiniteSet(Unearned(j)) /\ Cardinality(Unearned(j)) \in Nat
    BY <1>1, UnearnedType
  <2>2. /\ IsFiniteSet(Unearned(j) \cup {Len(r) + 1})
        /\ Cardinality(Unearned(j) \cup {Len(r) + 1}) <= Cardinality(Unearned(j)) + 1
    BY <2>1, FS_AddElement, SMTT(30)
  <2>3. Cardinality(Unearned(k)) <= Cardinality(Unearned(j) \cup {Len(r) + 1})
    BY <1>6, <2>2, FS_Subset
  <2>4. Cardinality(Unearned(k)) \in Nat /\ Cardinality(Unearned(j) \cup {Len(r) + 1}) \in Nat
    BY <2>2, UnearnedType, FS_CardinalityType
  <2> QED BY <2>1, <2>2, <2>3, <2>4
<1>8. ASSUME Nature[t] = "reverts" PROVE Unearned(k) = Unearned(j)
  <2>1. Len(r) + 1 \notin Unearned(k)
    BY <1>2, <1>4, <1>8 DEF Made
  <2>2. \A i \in 1..Len(r) : i \in 1..Len(r) + 1
    BY <1>1
  <2>3. \A i \in 1..Len(r) : i \in Unearned(k) <=> i \in Unearned(j)
    BY <1>2, <1>4, <1>5, <2>2, Zenon
  <2>4. Unearned(k) \subseteq 1..Len(r) /\ Unearned(j) \subseteq 1..Len(r)
    BY <1>3, <1>4, <1>5, <2>1
  <2> QED BY <2>3, <2>4
<1> QED BY <1>7, <1>8

LEMMA NoneUnearned ==
  ASSUME NEW j, j.result = <<>>
  PROVE  Unearned(j) = {} /\ Cardinality(Unearned(j)) = 0
<1>1. Unearned(j) = {}
  BY DEF Unearned
<1> QED BY <1>1, FS_EmptySet

\* A failed request for one token, which had to fail because of its token, or
\* else has cost a fault.
LEMMA FailedEarned ==
  ASSUME NEW j, JobShape(j), j.kind = "metadata", NEW k, k = Failed(j)
  PROVE  /\ Cardinality(Unearned(k)) <= Cardinality(Unearned(j)) + 1
         /\ Reverts(j) => Cardinality(Unearned(k)) <= Cardinality(Unearned(j))
<1>1. j \in Job /\ j.asked \in Seq(Tokens) /\ Cardinality(Unearned(j)) \in Nat /\ JobShape(k)
  BY UnearnedType, FailedCases DEF JobShape, Job
<1>2. CASE j.single /\ k = [j EXCEPT !.result = Append(j.result, Made(j.asked[1]))]
  <2>1. Len(j.asked) = 1 /\ DOMAIN j.asked = {1} /\ j.asked[1] \in Tokens
    BY <1>1, <1>2 DEF JobShape
  <2>2. k.result = Append(j.result, Made(j.asked[1])) /\ k \in Job
    BY <1>1, <1>2 DEF Job, JobShape
  <2>3. Reverts(j) => Nature[j.asked[1]] = "reverts"
    BY <2>1 DEF Reverts, AnswerOf, Method
  <2>4. /\ Cardinality(Unearned(k)) <= Cardinality(Unearned(j)) + 1
        /\ Nature[j.asked[1]] = "reverts" => Unearned(k) = Unearned(j)
    BY <2>1, <2>2, MadeIsOne
  <2> QED BY <1>1, <2>3, <2>4
<1>3. CASE k = [j EXCEPT !.singles = j.asked]
  <2>1. k.result = j.result
    BY <1>1, <1>3 DEF Job
  <2>2. Unearned(k) = Unearned(j)
    BY <2>1 DEF Unearned
  <2> QED BY <1>1, <2>2
<1>4. CASE k = Fail(j)
  <2>1. k.result = <<>>
    BY <1>1, <1>4 DEF Fail, Job
  <2> QED BY <1>1, <2>1, NoneUnearned
<1> QED BY <1>2, <1>3, <1>4, FailedCases

LEMMA EarnedStep ==
  ASSUME IInv, Jobs, Ambient, Earned, [Next]_vars
  PROVE  Earned'
<1> SUFFICES ASSUME NEW c \in Callers, job'[c].kind = "metadata", ~ctxDone'
             PROVE  Cardinality(Unearned(job'[c])) + (IF pc'[c] = "backoff" THEN 1 ELSE 0) <= faults'
  BY DEF Earned, Unearned
<1> PICK j, k : j = job[c] /\ k = job'[c]
  OBVIOUS
<1>1. JobStep(c) /\ JobShape(j) /\ JobShape(k) /\ ~ctxDone /\ faults' \in {faults, faults + 1}
  BY JobsStep, AmbientStep DEF Jobs
<1>2. /\ faults \in Nat /\ faults' \in Nat /\ faults <= faults'
      /\ Cardinality(Unearned(j)) \in Nat /\ Cardinality(Unearned(k)) \in Nat
  BY <1>1, UnearnedType, ClientAssumption DEF Ambient, JobShape
<1>3. j.kind = "metadata" => Cardinality(Unearned(j)) + (IF pc[c] = "backoff" THEN 1 ELSE 0) <= faults
  BY <1>1 DEF Earned
<1>4. CASE k = j /\ (pc'[c] = "backoff" => pc[c] = "backoff" \/ faults' = faults + 1)
  BY <1>2, <1>3, <1>4
<1>5. CASE pc'[c] # "backoff" /\ \E o \in Operations[c] : k = Begin(o)
  <2>1. PICK o \in Operations[c] : k = Begin(o)
    BY <1>5
  <2>2. PICK i : /\ JobShape(i) /\ i.kind = o.kind /\ i.result = <<>>
                 /\ Begin(o) = Issue(i) \/ (o.kind = "pair" /\ Begin(o) = Fail(i))
    <3>1. o \in Operation
      BY ClientAssumption
    <3> QED BY <3>1, BeginCases, ZenonT(30)
  <2>3. k.result = <<>>
    <3>1. CASE Begin(o) = Issue(i)
      BY <2>1, <2>2, <3>1, IssueKeeps
    <3>2. CASE Begin(o) = Fail(i)
      BY <2>1, <2>2, <3>2 DEF Fail, JobShape, Job
    <3> QED BY <2>2, <3>1, <3>2
  <2> QED BY <1>2, <1>5, <2>3, NoneUnearned
<1>6. CASE pc'[c] # "backoff" /\ k = Issue(Succeeded(j))
  <2> PICK i : i = Succeeded(j)
    OBVIOUS
  <2>1. JobShape(i) /\ k.kind = j.kind /\ k.result = i.result
    <3>1. JobShape(i) /\ i.kind = j.kind
      BY <1>1, SucceededCases
    <3>2. k = Issue(i)
      BY <1>6
    <3> QED BY <3>1, <3>2, IssueKeeps
  <2>2. Metadata(j) /\ j.kind = "metadata"
    BY <2>1 DEF Metadata
  <2>3. i = [j EXCEPT !.result = j.result \o Own(Select(j.asked, Unpacks))]
    BY <1>1, <2>2, SucceededCases DEF Metadata
  <2>4. i.result = j.result \o Own(Select(j.asked, Unpacks))
    BY <1>1, <2>3 DEF JobShape, Job
  <2>5. Select(j.asked, Unpacks) \in Seq(Tokens)
    BY <1>1, TokenSeq DEF Select, JobShape, Job
  <2>6. Unearned(k) = Unearned(j)
    <3>1. k.result = j.result \o Own(Select(j.asked, Unpacks))
      BY <2>1, <2>4
    <3> QED BY <1>1, <2>5, <3>1, OwnIsEarned
  <2> QED BY <1>2, <1>3, <1>6, <2>2, <2>6
<1>7. CASE /\ pc'[c] # "backoff" /\ k = Issue(Failed(j))
           /\ \/ pc[c] = "call" /\ (Reverts(j) \/ faults' = faults + 1)
              \/ pc[c] = "backoff"
  <2> PICK i : i = Failed(j)
    OBVIOUS
  <2>1. JobShape(i) /\ i.kind = j.kind /\ k.kind = j.kind /\ k.result = i.result
    BY <1>1, <1>7, FailedCases, IssueKeeps
  <2>2. Unearned(k) = Unearned(i)
    BY <2>1 DEF Unearned
  <2>3. /\ Cardinality(Unearned(i)) <= Cardinality(Unearned(j)) + 1
        /\ Reverts(j) => Cardinality(Unearned(i)) <= Cardinality(Unearned(j))
    BY <1>1, <2>1, FailedEarned
  <2>4. Cardinality(Unearned(k)) <= faults'
    <3>1. CASE Reverts(j)
      BY <1>2, <1>3, <2>1, <2>2, <2>3, <3>1
    <3>2. CASE pc[c] = "backoff" \/ faults' = faults + 1
      BY <1>2, <1>3, <2>1, <2>2, <2>3, <3>2
    <3> QED BY <1>7, <3>1, <3>2
  <2> QED BY <1>2, <1>7, <2>4
<1> QED BY <1>1, <1>4, <1>5, <1>6, <1>7 DEF JobStep

-----------------------------------------------------------------------------
(* Batches of metadata.                                                    *)

\* Lengths of some full batches of metadata.
Multiple == {k * MetadataBatch : k \in Nat}

LEMMA Multiples ==
  /\ 0 \in Multiple
  /\ \A m \in Multiple : /\ m \in Nat /\ m + MetadataBatch \in Multiple
                         /\ (m + 1) % MetadataBatch = 1
<1>1. MetadataBatch \in Nat /\ MetadataBatch > 1
  BY ClientAssumption
<1>2. 0 \in Multiple
  <2>1. 0 = 0 * MetadataBatch
    BY <1>1
  <2> QED BY <2>1 DEF Multiple
<1>3. ASSUME NEW m \in Multiple
      PROVE  m \in Nat /\ m + MetadataBatch \in Multiple /\ (m + 1) % MetadataBatch = 1
  <2> PICK k \in Nat : m = k * MetadataBatch
    BY DEF Multiple
  <2>1. m \in Nat
    BY <1>1
  <2>2. m + MetadataBatch = (k + 1) * MetadataBatch /\ k + 1 \in Nat
    BY <1>1
  <2>3. m + MetadataBatch \in Multiple
    BY <2>2 DEF Multiple
  <2>4. (m + 1) % MetadataBatch = 1
    <3> PICK q, r : q = (m + 1) \div MetadataBatch /\ r = (m + 1) % MetadataBatch
      OBVIOUS
    <3>1. q \in Int /\ r \in 0..MetadataBatch - 1 /\ m + 1 = MetadataBatch * q + r
      BY <1>1, <2>1
    <3> PICK d \in Int : d = k - q
      BY <3>1
    <3>2. k = q + d
      BY <3>1
    <3>3. k * MetadataBatch = q * MetadataBatch + d * MetadataBatch
      <4>1. \A x, y \in Int : (x + y) * MetadataBatch = x * MetadataBatch + y * MetadataBatch
        BY <1>1
      <4>2. q \in Int /\ d \in Int /\ k = q + d
        BY <3>1, <3>2
      <4> QED BY <4>1, <4>2
    <3>4. d * MetadataBatch = r - 1
      BY <1>1, <3>1, <3>3
    <3>5. d >= 1 => d * MetadataBatch >= MetadataBatch
      BY <1>1
    <3>6. d <= -1 => d * MetadataBatch <= -MetadataBatch
      BY <1>1
    <3>7. d = 0
      BY <1>1, <3>1, <3>4, <3>5, <3>6
    <3>8. r = 1
      BY <1>1, <3>1, <3>4, <3>7
    <3> QED BY <3>8
  <2> QED BY <2>1, <2>3, <2>4
<1> QED BY <1>2, <1>3

\* Before the tokens that GetTokensMetadata has not asked for there are full
\* batches; only the last batch is not full.
LoneMid(j) ==
    j.kind = "metadata" /\ j.out = "none" =>
        j.rest = <<>> \/ \E m \in Multiple : Len(j.args) = m + Len(j.rest)
Lone(j) ==
    /\ j.single => LoneMid(j)
    /\ j.kind = "metadata" /\ j.out = "none" /\ ~j.single =>
        /\ Len(j.asked) > 0
        /\ \E m \in Multiple : Len(j.args) = m + Len(j.asked) + Len(j.rest)
        /\ j.rest # <<>> => Len(j.asked) = MetadataBatch
    /\ j.kind = "metadata" /\ j.out = "error" => Len(j.args) % MetadataBatch = 1

LEMMA IssueLone ==
  ASSUME NEW j, JobShape(j), j.out = "none", LoneMid(j)
  PROVE  Lone(Issue(j))
<1> PICK k : k = Issue(j)
  OBVIOUS
<1> SUFFICES ASSUME k.kind = "metadata" PROVE Lone(k)
  BY IssueKeeps DEF Lone, LoneMid
<1>1. /\ j \in Job /\ j.rest \in Seq(Tokens) /\ j.args \in Seq(Tokens) /\ Len(j.rest) \in Nat
      /\ k \in Job /\ k.kind = j.kind /\ k.args = j.args
  BY IssueKeeps DEF JobShape, Job
<1>2. ~MidBatch(j)
  BY <1>1 DEF MidBatch
<1>3. CASE k = [j EXCEPT !.asked = <<Head(j.singles)>>, !.singles = Tail(j.singles),
                         !.single = TRUE]
  <2>1. k.single = TRUE /\ k.rest = j.rest /\ k.out = "none"
    BY <1>1, <1>3 DEF Job
  <2> QED BY <1>1, <2>1 DEF Lone, LoneMid
<1>4. CASE /\ j.rest # <<>>
           /\ k = [j EXCEPT !.asked = Prefix(j.rest, BatchSize(j)),
                            !.rest = Rest(j.rest, BatchSize(j)),
                            !.single = FALSE]
  <2> PICK p, q, B : p = Prefix(j.rest, B) /\ q = Rest(j.rest, B) /\ B = BatchSize(j)
    OBVIOUS
  <2>1. B = MetadataBatch /\ B \in Nat /\ B > 0
    BY <1>1, ClientAssumption DEF BatchSize, Metadata
  <2>2. p \in Seq(Tokens) /\ q \in Seq(Tokens) /\ Len(p) = Least(B, Len(j.rest))
        /\ Len(q) = Len(j.rest) - Least(B, Len(j.rest))
    BY <1>1, <2>1, Split
  <2>3. k.asked = p /\ k.rest = q /\ k.out = "none" /\ k.single = FALSE
    BY <1>1, <1>4 DEF Job
  <2>4. Len(j.rest) > 0
    BY <1>1, <1>4, EmptySeq
  <2>5. Len(p) > 0 /\ Len(p) + Len(q) = Len(j.rest) /\ (Len(q) # 0 => Len(p) = B)
    <3>1. Len(j.rest) \in Nat /\ B \in Nat /\ B > 0
      BY <1>1, <2>1
    <3>2. (Least(B, Len(j.rest)) = B /\ B < Len(j.rest)) \/ Least(B, Len(j.rest)) = Len(j.rest)
      BY <3>1 DEF Least
    <3> QED BY <2>2, <2>4, <3>1, <3>2
  <2>6. PICK m \in Multiple : Len(j.args) = m + Len(j.rest)
    BY <1>1, <1>4 DEF LoneMid
  <2>7. Len(j.args) = m + Len(p) + Len(q)
    <3>1. m \in Nat /\ Len(p) \in Nat /\ Len(q) \in Nat
      BY <2>2, Multiples
    <3> QED BY <2>5, <2>6, <3>1
  <2>8. q # <<>> => Len(p) = MetadataBatch
    BY <2>1, <2>2, <2>5, EmptySeq
  <2> QED BY <1>1, <2>3, <2>5, <2>7, <2>8 DEF Lone
<1>5. CASE k = Return(j)
  <2>1. k = [j EXCEPT !.out = "ok"]
    BY <1>1, <1>5 DEF Return
  <2>2. k.out = "ok"
    BY <1>1, <2>1 DEF Job
  <2> QED BY <2>2 DEF Lone, LoneMid
<1> QED BY <1>1, <1>2, <1>3, <1>4, <1>5, IssueCases

LEMMA AnswerLone ==
  ASSUME NEW j, JobShape(j), j.out = "none", Lone(j),
         NEW k, k = Succeeded(j) \/ k = Failed(j), k.kind = "metadata"
  PROVE  LoneMid(k) /\ (k.out # "none" => Lone(k))
<1>1. /\ JobShape(k) /\ k.kind = j.kind /\ j.kind = "metadata" /\ Metadata(j)
      /\ j \in Job /\ j.rest \in Seq(Tokens) /\ j.asked \in Seq(Tokens)
      /\ Len(j.rest) \in Nat /\ Len(j.asked) \in Nat
  <2>1. JobShape(k) /\ k.kind = j.kind
    BY SucceededCases, FailedCases
  <2>2. j \in Job /\ j.rest \in Seq(Tokens) /\ j.asked \in Seq(Tokens)
    BY DEF JobShape, Job
  <2> QED BY <2>1, <2>2 DEF Metadata
<1>2. LoneMid(j) \/ ~j.single
  BY DEF Lone
<1>3. ASSUME ~j.single
      PROVE  j.rest = <<>> \/ \E m \in Multiple : Len(j.args) = m + Len(j.rest)
  <2>1. PICK m \in Multiple : Len(j.args) = m + Len(j.asked) + Len(j.rest)
    BY <1>1, <1>3 DEF Lone
  <2>2. CASE j.rest # <<>>
    <3>1. Len(j.asked) = MetadataBatch
      BY <1>1, <1>3, <2>2 DEF Lone
    <3>2. m + MetadataBatch \in Multiple
      BY Multiples
    <3>3. Len(j.args) = (m + MetadataBatch) + Len(j.rest)
      BY <2>1, <3>1
    <3> QED BY <3>2, <3>3
  <2> QED BY <2>2
<1>4. LoneMid(j)
  BY <1>2, <1>3 DEF LoneMid
<1>5. CASE \/ \E r : k = [j EXCEPT !.result = r]
           \/ k = [j EXCEPT !.singles = j.asked]
  <2>1. k.rest = j.rest /\ k.args = j.args /\ k.out = "none"
    BY <1>1, <1>5 DEF Job
  <2> QED BY <1>1, <1>4, <2>1 DEF LoneMid
<1>6. CASE ~j.single /\ ~(Len(j.asked) > 1) /\ k = Fail(j)
  <2>1. k.out = "error" /\ k.args = j.args /\ k.single = FALSE
    BY <1>1, <1>6 DEF Fail, Job
  <2>2. Len(j.asked) = 1
    <3>1. Len(j.asked) > 0
      BY <1>1, <1>6 DEF Lone
    <3>2. \A n \in Nat : ~(n > 1) /\ n > 0 => n = 1
      OBVIOUS
    <3> QED BY <1>1, <1>6, <3>1, <3>2, Zenon
  <2>3. j.rest = <<>>
    BY <1>1, <1>6, <2>2, ClientAssumption DEF Lone
  <2>4. PICK m \in Multiple : Len(j.args) = m + Len(j.asked) + Len(j.rest)
    BY <1>1, <1>6 DEF Lone
  <2>5. Len(j.args) = m + 1
    <3>1. Len(j.rest) = 0 /\ m \in Nat
      BY <2>3, Multiples
    <3> QED BY <2>2, <2>4, <3>1
  <2>6. Len(k.args) % MetadataBatch = 1
    BY <2>1, <2>5, Multiples
  <2> QED BY <2>1, <2>6 DEF Lone, LoneMid
<1>7. k = Succeeded(j) => \E r : k = [j EXCEPT !.result = r]
  BY <1>1, SucceededCases DEF Metadata
<1>8. k = Failed(j) => \/ \E r : k = [j EXCEPT !.result = r]
                       \/ k = [j EXCEPT !.singles = j.asked]
                       \/ ~j.single /\ ~(Len(j.asked) > 1) /\ k = Fail(j)
  <2> SUFFICES ASSUME k = Failed(j)
               PROVE  \/ \E r : k = [j EXCEPT !.result = r]
                      \/ k = [j EXCEPT !.singles = j.asked]
                      \/ ~j.single /\ ~(Len(j.asked) > 1) /\ k = Fail(j)
    OBVIOUS
  <2>1. \/ k = [j EXCEPT !.result = Append(j.result, Made(j.asked[1]))]
        \/ k = [j EXCEPT !.singles = j.asked]
        \/ ~j.single /\ ~(Len(j.asked) > 1) /\ k = Fail(j)
        \/ j.kind = "scan"
    BY <1>1, FailedCases
  <2> QED BY <1>1, <2>1
<1> QED BY <1>5, <1>6, <1>7, <1>8

LEMMA LoneStep ==
  ASSUME IInv, Jobs, [Next]_vars, NEW c \in Callers, Lone(job[c])
  PROVE  Lone(job'[c])
<1>1. JobStep(c) /\ JobShape(job[c])
  BY JobsStep DEF Jobs
<1>2. CASE job'[c] = job[c]
  BY <1>2
<1>3. CASE \E o \in Operations[c] : job'[c] = Begin(o)
  <2>1. PICK o \in Operations[c] : job'[c] = Begin(o)
    BY <1>3
  <2>2. o \in Operation
    BY ClientAssumption
  <2>3. PICK j : /\ JobShape(j) /\ j.kind = o.kind /\ j.args = o.args /\ j.rest = o.args
                 /\ j.single = FALSE /\ j.out = "none"
                 /\ Begin(o) = Issue(j) \/ (o.kind = "pair" /\ Begin(o) = Fail(j))
    BY <2>2, BeginCases
  <2>4. CASE Begin(o) = Issue(j)
    <3>1. Len(j.args) = 0 + Len(j.rest)
      BY <2>2, <2>3 DEF Operation
    <3>2. LoneMid(j)
      BY <3>1, Multiples DEF LoneMid
    <3> QED BY <2>1, <2>3, <2>4, <3>2, IssueLone
  <2>5. CASE o.kind = "pair" /\ Begin(o) = Fail(j)
    <3>1. Fail(j).kind = "pair"
      BY <2>3, <2>5 DEF Fail, JobShape, Job
    <3> QED BY <2>1, <2>5, <3>1 DEF Lone, LoneMid
  <2> QED BY <2>3, <2>4, <2>5
<1>4. CASE /\ pc[c] # "idle"
           /\ \E k : (k = Succeeded(job[c]) \/ k = Failed(job[c])) /\ job'[c] = Issue(k)
  <2>1. PICK k : (k = Succeeded(job[c]) \/ k = Failed(job[c])) /\ job'[c] = Issue(k)
    BY <1>4
  <2>2. JobShape(job[c]) /\ job[c].out = "none"
    BY <1>1, <1>4 DEF Jobs
  <2>3. JobShape(k) /\ job'[c].kind = k.kind
    <3>1. JobShape(k)
      BY <2>1, <2>2, SucceededCases, FailedCases
    <3> QED BY <2>1, <3>1, IssueKeeps
  <2>4. CASE k.kind # "metadata"
    BY <2>3, <2>4 DEF Lone, LoneMid
  <2>5. CASE k.kind = "metadata" /\ k.out = "none"
    <3>1. LoneMid(k)
      BY <2>1, <2>2, <2>5, AnswerLone
    <3> QED BY <2>1, <2>3, <2>5, <3>1, IssueLone
  <2>6. CASE k.kind = "metadata" /\ k.out # "none"
    <3>1. Lone(k)
      BY <2>1, <2>2, <2>6, AnswerLone
    <3> QED BY <2>1, <2>6, <3>1, IssueDone
  <2> QED BY <2>4, <2>5, <2>6
<1> QED BY <1>1, <1>2, <1>3, <1>4 DEF JobStep

-----------------------------------------------------------------------------
(* The order of metadata.                                                  *)

Abouts(r) == [i \in DOMAIN r |-> r[i][1]]

\* Every entry has the data of its token, which unpack, or made-up data.
NamedEntry(e) == e[2] = Fallback \/ (e[2] = e[1] /\ Unpacks(e[1]))
Named(r) == \A i \in DOMAIN r : NamedEntry(r[i])

\* The entries r answer for done: in its order, and for every token that unpacks.
Answers(r, done) ==
    \E keep : /\ Abouts(r) = Picked(done, keep)
              /\ \A n \in DOMAIN done : Unpacks(done[n]) => n \in keep

LEMMA AboutsType ==
  ASSUME NEW r \in Seq(Entry)
  PROVE  /\ Abouts(r) \in Seq(Tokens) /\ Len(Abouts(r)) = Len(r) /\ DOMAIN Abouts(r) = DOMAIN r
         /\ \A i \in DOMAIN r : Abouts(r)[i] = r[i][1]
<1>1. Len(r) \in Nat /\ DOMAIN r = 1..Len(r)
  OBVIOUS
<1>2. \A i \in DOMAIN r : r[i][1] \in Tokens
  BY ElementOfSeq DEF Entry
<1>3. Abouts(r) \in [1..Len(r) -> Tokens]
  BY <1>1, <1>2 DEF Abouts
<1>4. Abouts(r) \in Seq(Tokens) /\ Len(Abouts(r)) = Len(r)
  BY <1>1, <1>3, IsASeq
<1> QED BY <1>1, <1>4 DEF Abouts

LEMMA AboutsConcat ==
  ASSUME NEW r \in Seq(Entry), NEW e \in Seq(Entry)
  PROVE  /\ Abouts(r \o e) = Abouts(r) \o Abouts(e)
         /\ Named(r) /\ Named(e) => Named(r \o e)
<1> PICK u : u = r \o e
  OBVIOUS
<1>1. /\ u \in Seq(Entry) /\ Len(u) = Len(r) + Len(e) /\ Len(r) \in Nat /\ Len(e) \in Nat
      /\ DOMAIN u = 1..Len(r) + Len(e) /\ DOMAIN r = 1..Len(r) /\ DOMAIN e = 1..Len(e)
  BY ConcatProperties
<1>2. \A i \in 1..Len(r) + Len(e) : u[i] = IF i <= Len(r) THEN r[i] ELSE e[i - Len(r)]
  BY ConcatProperties
<1>3. /\ \A i \in 1..Len(r) + Len(e) : i <= Len(r) => i \in 1..Len(r)
      /\ \A i \in 1..Len(r) + Len(e) : ~(i <= Len(r)) => i - Len(r) \in 1..Len(e)
  BY <1>1
<1> PICK a, b : a = Abouts(r) /\ b = Abouts(e)
  OBVIOUS
<1>4. /\ a \in Seq(Tokens) /\ b \in Seq(Tokens) /\ Len(a) = Len(r) /\ Len(b) = Len(e)
      /\ \A i \in 1..Len(r) : a[i] = r[i][1]
      /\ \A i \in 1..Len(e) : b[i] = e[i][1]
  BY <1>1, AboutsType
<1>5. /\ a \o b \in Seq(Tokens) /\ Len(a \o b) = Len(r) + Len(e)
      /\ \A i \in 1..Len(r) + Len(e) : (a \o b)[i] = IF i <= Len(r) THEN a[i] ELSE b[i - Len(r)]
  <2>1. \A v, w \in Seq(Tokens) :
          /\ v \o w \in Seq(Tokens) /\ Len(v \o w) = Len(v) + Len(w)
          /\ \A i \in 1..Len(v) + Len(w) : (v \o w)[i] = IF i <= Len(v) THEN v[i] ELSE w[i - Len(v)]
    BY ConcatProperties
  <2>2. /\ a \o b \in Seq(Tokens) /\ Len(a \o b) = Len(a) + Len(b)
        /\ \A i \in 1..Len(a) + Len(b) : (a \o b)[i] = IF i <= Len(a) THEN a[i] ELSE b[i - Len(a)]
    BY <1>4, <2>1, Zenon
  <2>3. Len(a) = Len(r) /\ Len(b) = Len(e)
    BY <1>4
  <2> QED BY <2>2, <2>3, Zenon
<1>6. /\ Abouts(u) \in Seq(Tokens) /\ Len(Abouts(u)) = Len(r) + Len(e)
      /\ \A i \in 1..Len(r) + Len(e) : Abouts(u)[i] = u[i][1]
  BY <1>1, AboutsType
<1>7. ASSUME NEW i \in 1..Len(r) + Len(e)
      PROVE  Abouts(u)[i] = (a \o b)[i]
  <2>1. CASE i <= Len(r)
    BY <1>2, <1>3, <1>4, <1>5, <1>6, <2>1, Zenon
  <2>2. CASE ~(i <= Len(r))
    BY <1>2, <1>3, <1>4, <1>5, <1>6, <2>2, Zenon
  <2> QED BY <2>1, <2>2
<1>8. Abouts(u) = a \o b
  BY <1>5, <1>6, <1>7, SeqEqual
<1>9. ASSUME Named(r), Named(e), NEW i \in 1..Len(r) + Len(e)
      PROVE  NamedEntry(u[i])
  <2>1. CASE i <= Len(r)
    BY <1>1, <1>2, <1>3, <1>9, <2>1, Zenon DEF Named
  <2>2. CASE ~(i <= Len(r))
    BY <1>1, <1>2, <1>3, <1>9, <2>2, Zenon DEF Named
  <2> QED BY <2>1, <2>2
<1> QED BY <1>1, <1>8, <1>9 DEF Named

LEMMA OwnAnswers ==
  ASSUME NEW s \in Seq(Tokens), \A n \in DOMAIN s : Unpacks(s[n])
  PROVE  Named(Own(s)) /\ Abouts(Own(s)) = s
<1>1. /\ Own(s) \in Seq(Entry) /\ Len(Own(s)) = Len(s) /\ DOMAIN Own(s) = DOMAIN s
      /\ DOMAIN s = 1..Len(s) /\ \A i \in DOMAIN s : Own(s)[i] = <<s[i], s[i]>>
  BY OwnType
<1>2. Named(Own(s))
  BY <1>1 DEF Named, NamedEntry
<1>3. /\ Abouts(Own(s)) \in Seq(Tokens) /\ Len(Abouts(Own(s))) = Len(s)
      /\ \A i \in 1..Len(s) : Abouts(Own(s))[i] = Own(s)[i][1]
  BY <1>1, AboutsType
<1>4. \A i \in 1..Len(s) : Abouts(Own(s))[i] = s[i]
  BY <1>1, <1>3
<1> QED BY <1>2, <1>3, <1>4, SeqEqual

\* A request more, and the entries that answer it.
LEMMA AnswersMore ==
  ASSUME NEW r \in Seq(Entry), NEW e \in Seq(Entry),
         NEW done \in Seq(Tokens), NEW asked \in Seq(Tokens),
         Answers(r, done), Answers(e, asked)
  PROVE  Answers(r \o e, done \o asked)
<1>1. PICK keep : /\ Abouts(r) = Picked(done, keep)
                  /\ \A n \in DOMAIN done : Unpacks(done[n]) => n \in keep
  BY DEF Answers
<1>2. PICK kept : /\ Abouts(e) = Picked(asked, kept)
                  /\ \A n \in DOMAIN asked : Unpacks(asked[n]) => n \in kept
  BY DEF Answers
<1>0. PICK u, D, A : u = done \o asked /\ D = Len(done) /\ A = Len(asked)
  OBVIOUS
<1>3. /\ D \in Nat /\ A \in Nat /\ DOMAIN done = 1..D /\ DOMAIN asked = 1..A
      /\ DOMAIN u = 1..D + A
      /\ \A n \in 1..D + A : u[n] = IF n <= D THEN done[n] ELSE asked[n - D]
  BY <1>0, ConcatProperties
<1> DEFINE both == {n \in 1..D + A : IF n <= D THEN n \in keep ELSE n - D \in kept}
<1>4. \A n \in DOMAIN done : n \in both <=> n \in keep
  BY <1>3
<1>5. \A n \in DOMAIN asked : D + n \in both <=> n \in kept
  <2> TAKE n \in DOMAIN asked
  <2>1. D + n \in 1..D + A /\ ~(D + n <= D) /\ (D + n) - D = n
    BY <1>3
  <2> QED BY <2>1
<1>6. \A n \in 1..D + A : Unpacks(u[n]) => n \in both
  <2> TAKE n \in 1..D + A
  <2>1. CASE n <= D
    <3>1. n \in DOMAIN done /\ u[n] = done[n]
      BY <1>3, <2>1
    <3> QED BY <1>1, <2>1, <3>1
  <2>2. CASE ~(n <= D)
    <3>1. n - D \in DOMAIN asked /\ u[n] = asked[n - D]
      BY <1>3, <2>2
    <3> QED BY <1>2, <2>2, <3>1
  <2> QED BY <2>1, <2>2
<1> HIDE DEF both
<1>7. Picked(u, both) = Picked(done, keep) \o Picked(asked, kept)
  <2>1. \A n \in DOMAIN asked : Len(done) + n \in both <=> n \in kept
    BY <1>0, <1>5
  <2>2. Picked(done \o asked, both) = Picked(done, keep) \o Picked(asked, kept)
    BY <1>4, <2>1, PickedConcat, SMTT(30)
  <2> QED BY <1>0, <2>2
<1>8. Abouts(r \o e) = Picked(u, both)
  BY <1>1, <1>2, <1>7, AboutsConcat
<1>9. /\ Abouts(r \o e) = Picked(u, both)
      /\ \A n \in DOMAIN u : Unpacks(u[n]) => n \in both
  BY <1>3, <1>6, <1>8
<1> QED BY <1>0, <1>9 DEF Answers

\* Made-up data answer for one token.
LEMMA MadeAnswers ==
  ASSUME NEW s \in Seq(Tokens), Len(s) = 1
  PROVE  /\ <<Made(s[1])>> \in Seq(Entry) /\ Named(<<Made(s[1])>>)
         /\ Answers(<<Made(s[1])>>, s)
<1>1. s[1] \in Tokens /\ DOMAIN s = 1..1
  OBVIOUS
<1>2. Made(s[1]) \in Entry /\ Made(s[1])[1] = s[1] /\ Made(s[1])[2] = Fallback
  BY <1>1 DEF Made, Entry
<1>3. <<Made(s[1])>> \in Seq(Entry)
  BY <1>2
<1>4. Named(<<Made(s[1])>>)
  BY <1>2 DEF Named, NamedEntry
<1>5. Abouts(<<Made(s[1])>>) = <<s[1]>>
  <2>1. /\ Abouts(<<Made(s[1])>>) \in Seq(Tokens) /\ Len(Abouts(<<Made(s[1])>>)) = 1
        /\ Abouts(<<Made(s[1])>>)[1] = s[1]
    <3> PICK m : m = <<Made(s[1])>>
      OBVIOUS
    <3>1. m \in Seq(Entry) /\ Len(m) = 1 /\ 1 \in DOMAIN m /\ m[1][1] = s[1]
      BY <1>2, <1>3
    <3> QED BY <3>1, AboutsType
  <2>2. <<s[1]>> \in Seq(Tokens) /\ Len(<<s[1]>>) = 1 /\ <<s[1]>>[1] = s[1]
    BY <1>1
  <2> PICK v, w : v = Abouts(<<Made(s[1])>>) /\ w = <<s[1]>>
    OBVIOUS
  <2>3. \A i \in 1..Len(v) : v[i] = w[i]
    BY <2>1, <2>2
  <2> QED BY <2>1, <2>2, <2>3, SeqEqual
<1>6. Picked(s, {1}) = <<s[1]>>
  <2>1. PICK f : Loop(s, {1}, f)
    BY LoopExists
  <2>2. f[1] = Append(f[1 - 1], s[1])
    BY <2>1 DEF Loop
  <2>3. f[1 - 1] = <<>> /\ Picked(s, {1}) = f[1]
    BY <2>1 DEF Loop
  <2> QED BY <2>2, <2>3
<1>7. \A n \in DOMAIN s : Unpacks(s[n]) => n \in {1}
  BY <1>1
<1> QED BY <1>3, <1>4, <1>5, <1>6, <1>7 DEF Answers

\* The tokens of GetTokensMetadata are those that the entries answer for, those
\* asked for, those of a failed batch that are still to be asked for one by one,
\* and the rest, in this order.
Aligned(j) ==
    j.kind = "metadata" =>
        /\ Distinct(j.args)
        /\ j.out = "none" =>
              /\ Named(j.result)
              /\ \E done \in Seq(Tokens) :
                    /\ j.args = ((done \o j.asked) \o j.singles) \o j.rest
                    /\ Answers(j.result, done)
              /\ ~j.single => j.singles = <<>>
        /\ j.out = "ok" => Named(j.result) /\ Answers(j.result, j.args)

\* The same between an answer and the next request.
AlignedMid(j) ==
    j.kind = "metadata" =>
        /\ Distinct(j.args)
        /\ j.out = "none" =>
              /\ Named(j.result)
              /\ \E done \in Seq(Tokens) :
                    /\ j.args = (done \o j.singles) \o j.rest
                    /\ Answers(j.result, done)
        /\ j.out # "ok"

LEMMA Concats ==
  /\ \A q, v, w \in Seq(Tokens) : (q \o v) \o w = q \o (v \o w)
  /\ \A v, w \in Seq(Tokens) : v \o w \in Seq(Tokens)
  /\ \A v \in Seq(Tokens) : v \o <<>> = v
  /\ <<>> \in Seq(Tokens)
<1>1. \A q, v, w \in Seq(Tokens) : (q \o v) \o w = q \o (v \o w)
  BY ConcatAssociative
<1>2. \A v, w \in Seq(Tokens) : v \o w \in Seq(Tokens)
  BY ConcatProperties
<1>3. \A v \in Seq(Tokens) : v \o <<>> = v
  BY ConcatEmptySeq
<1> QED BY <1>1, <1>2, <1>3, EmptySeq

LEMMA IssueAligned ==
  ASSUME NEW j, JobShape(j), j.out = "none", AlignedMid(j)
  PROVE  Aligned(Issue(j))
<1>0. PICK k : k = Issue(j)
  OBVIOUS
<1> SUFFICES ASSUME k.kind = "metadata" PROVE Aligned(k)
  BY <1>0 DEF Aligned
<1>1. /\ j \in Job /\ j.rest \in Seq(Tokens) /\ j.args \in Seq(Tokens) /\ j.singles \in Seq(Tokens)
      /\ k \in Job /\ k.kind = j.kind /\ k.args = j.args /\ k.result = j.result
      /\ ~MidBatch(j)
  <2>1. k \in Job /\ k.kind = j.kind /\ k.args = j.args /\ k.result = j.result
    BY <1>0, IssueKeeps DEF JobShape
  <2>2. /\ j \in Job /\ j.rest \in Seq(Tokens) /\ j.args \in Seq(Tokens)
        /\ j.singles \in Seq(Tokens)
    BY DEF JobShape, Job
  <2> QED BY <2>1, <2>2 DEF MidBatch
<1>2. Distinct(k.args) /\ Named(k.result)
  BY <1>1 DEF AlignedMid
<1>3. PICK done \in Seq(Tokens) : j.args = (done \o j.singles) \o j.rest /\ Answers(j.result, done)
  BY <1>1 DEF AlignedMid
<1>4. CASE /\ j.singles # <<>>
           /\ k = [j EXCEPT !.asked = <<Head(j.singles)>>, !.singles = Tail(j.singles),
                            !.single = TRUE]
  <2>1. PICK h, t : h = <<Head(j.singles)>> /\ t = Tail(j.singles)
    OBVIOUS
  <2>2. h \in Seq(Tokens) /\ t \in Seq(Tokens)
    <3>1. Head(j.singles) \in Tokens /\ Tail(j.singles) \in Seq(Tokens)
      BY <1>1, <1>4, HeadTailProperties
    <3> QED BY <2>1, <3>1
  <2>3. j.singles = h \o t
    BY <1>1, <1>4, <2>1, HeadTailProperties
  <2>4. j.args = ((done \o h) \o t) \o j.rest
    <3>1. (done \o h) \o t = done \o (h \o t)
      BY <2>2, ConcatAssociative
    <3> QED BY <1>3, <2>3, <3>1
  <2>5. k.asked = h /\ k.singles = t /\ k.rest = j.rest /\ k.single = TRUE /\ k.out = "none"
    BY <1>1, <1>4, <2>1 DEF Job
  <2>6. k.args = ((done \o k.asked) \o k.singles) \o k.rest /\ Answers(k.result, done)
    BY <1>1, <1>3, <2>4, <2>5
  <2> QED BY <1>2, <2>5, <2>6 DEF Aligned
<1>5. CASE /\ j.singles = <<>>
           /\ k = [j EXCEPT !.asked = Prefix(j.rest, BatchSize(j)),
                            !.rest = Rest(j.rest, BatchSize(j)),
                            !.single = FALSE]
  <2>1. PICK p, q : p = Prefix(j.rest, BatchSize(j)) /\ q = Rest(j.rest, BatchSize(j))
    OBVIOUS
  <2>2. p \in Seq(Tokens) /\ q \in Seq(Tokens) /\ j.rest = p \o q
    BY <1>1, <2>1, BatchSizeType, Split
  <2>3. j.args = ((done \o p) \o <<>>) \o q
    <3>1. done \o <<>> = done /\ done \o p \in Seq(Tokens)
      BY <2>2, Concats, Zenon
    <3>2. (done \o p) \o <<>> = done \o p
      BY <3>1, Concats, Zenon
    <3>3. (done \o p) \o q = done \o (p \o q)
      BY <2>2, ConcatAssociative
    <3> QED BY <1>3, <1>5, <2>2, <3>1, <3>2, <3>3
  <2>4. k.asked = p /\ k.rest = q /\ k.singles = <<>> /\ k.out = "none"
    BY <1>1, <1>5, <2>1 DEF Job
  <2>5. k.args = ((done \o k.asked) \o k.singles) \o k.rest /\ Answers(k.result, done)
    BY <1>1, <1>3, <2>3, <2>4
  <2> QED BY <1>2, <2>4, <2>5 DEF Aligned
<1>6. CASE j.singles = <<>> /\ j.rest = <<>> /\ k = Return(j)
  <2>1. k = [j EXCEPT !.out = "ok"]
    BY <1>1, <1>6 DEF Return
  <2>2. k.out = "ok"
    BY <1>1, <2>1 DEF Job
  <2>3. (done \o <<>>) \o <<>> = done
    BY Concats, Zenon
  <2>4. Answers(k.result, k.args)
    BY <1>1, <1>3, <1>6, <2>3
  <2> QED BY <1>2, <2>2, <2>4 DEF Aligned
<1> QED BY <1>0, <1>1, <1>4, <1>5, <1>6, IssueCases

\* A request that is answered for, by its entries e.
LEMMA MoreAligned ==
  ASSUME NEW j, JobShape(j), j.out = "none", Aligned(j), j.kind = "metadata",
         NEW e \in Seq(Entry), Named(e), Answers(e, j.asked),
         NEW k, k = [j EXCEPT !.result = j.result \o e]
  PROVE  AlignedMid(k)
<1>1. /\ j \in Job /\ j.result \in Seq(Entry) /\ j.asked \in Seq(Tokens)
  BY DEF JobShape, Job
<1>2. PICK done \in Seq(Tokens) : /\ j.args = ((done \o j.asked) \o j.singles) \o j.rest
                                  /\ Answers(j.result, done)
  BY DEF Aligned
<1>3. /\ k.args = j.args /\ k.singles = j.singles /\ k.rest = j.rest /\ k.out = "none"
      /\ k.result = j.result \o e
  BY <1>1 DEF Job
<1>4. done \o j.asked \in Seq(Tokens)
  BY <1>1, ConcatProperties
<1>5. Answers(k.result, done \o j.asked)
  BY <1>1, <1>2, <1>3, AnswersMore
<1>6. Named(k.result)
  <2>1. Named(j.result)
    BY DEF Aligned
  <2> QED BY <1>1, <1>3, <2>1, AboutsConcat
<1>7. k.args = ((done \o j.asked) \o k.singles) \o k.rest
  BY <1>2, <1>3
<1>8. Distinct(k.args)
  BY <1>3 DEF Aligned
<1> QED BY <1>3, <1>4, <1>5, <1>6, <1>7, <1>8 DEF AlignedMid

LEMMA AnswerAligned ==
  ASSUME NEW j, JobShape(j), j.out = "none", Aligned(j), j.kind = "metadata",
         NEW k, k = Succeeded(j) \/ k = Failed(j)
  PROVE  AlignedMid(k) /\ (k.out # "none" => Aligned(k))
<1>1. /\ j \in Job /\ j.result \in Seq(Entry) /\ j.asked \in Seq(Tokens) /\ Metadata(j)
      /\ j.rest \in Seq(Tokens)
  BY DEF JobShape, Job, Metadata
<1>2. CASE k = Succeeded(j)
  <2>1. PICK s : s = Select(j.asked, Unpacks)
    OBVIOUS
  <2>2. s \in Seq(Tokens)
    BY <1>1, <2>1, TokenSeq DEF Select
  <2>3. k = [j EXCEPT !.result = j.result \o Own(s)]
    BY <1>1, <1>2, <2>1, SucceededCases DEF Metadata
  <2>4. Own(s) \in Seq(Entry) /\ Named(Own(s)) /\ Abouts(Own(s)) = s
    <3> PICK U : U = {j.asked[n] : n \in DOMAIN j.asked
                        \cap {m \in DOMAIN j.asked : Unpacks(j.asked[m])}}
      OBVIOUS
    <3>1. s \in Seq(U)
      BY <1>1, <2>1, PickedType DEF Select
    <3>2. \A t \in U : Unpacks(t)
      OBVIOUS
    <3>3. \A n \in DOMAIN s : s[n] \in U
      BY <3>1, ElementOfSeq
    <3> QED BY <2>2, <3>2, <3>3, OwnType, OwnAnswers
  <2>5. s = Picked(j.asked, {n \in DOMAIN j.asked : Unpacks(j.asked[n])})
    BY <2>1 DEF Select
  <2>6. Answers(Own(s), j.asked)
    <3>1. PICK keep : keep = {n \in DOMAIN j.asked : Unpacks(j.asked[n])}
      OBVIOUS
    <3>2. /\ Abouts(Own(s)) = Picked(j.asked, keep)
          /\ \A n \in DOMAIN j.asked : Unpacks(j.asked[n]) => n \in keep
      BY <2>4, <2>5, <3>1
    <3> QED BY <3>2 DEF Answers
  <2>7. k.out = "none"
    BY <1>1, <2>3 DEF Job
  <2> QED BY <2>3, <2>4, <2>6, <2>7, MoreAligned
<1>3. CASE j.single /\ k = [j EXCEPT !.result = Append(j.result, Made(j.asked[1]))]
  <2>1. PICK e : e = <<Made(j.asked[1])>>
    OBVIOUS
  <2>2. Len(j.asked) = 1
    BY <1>3 DEF JobShape
  <2>3. e \in Seq(Entry) /\ Named(e) /\ Answers(e, j.asked)
    BY <1>1, <2>1, <2>2, MadeAnswers
  <2>4. Append(j.result, Made(j.asked[1])) = j.result \o e
    <3>1. j.asked[1] \in Tokens
      BY <1>1, <2>2
    <3>2. Made(j.asked[1]) \in Entry
      BY <3>1 DEF Made, Entry
    <3> QED BY <1>1, <2>1, <3>2, AppendIsConcat
  <2>5. k = [j EXCEPT !.result = j.result \o e]
    BY <1>3, <2>4
  <2>6. k.out = "none"
    BY <1>1, <2>5 DEF Job
  <2> QED BY <2>3, <2>5, <2>6, MoreAligned
<1>4. CASE ~j.single /\ k = [j EXCEPT !.singles = j.asked]
  <2>1. PICK done \in Seq(Tokens) : /\ j.args = ((done \o j.asked) \o j.singles) \o j.rest
                                    /\ Answers(j.result, done)
    BY DEF Aligned
  <2>2. j.singles = <<>>
    BY <1>4 DEF Aligned
  <2>3. done \o j.asked \in Seq(Tokens)
    BY <1>1, Concats, Zenon
  <2>4. (done \o j.asked) \o <<>> = done \o j.asked
    BY <2>3, Concats, Zenon
  <2>5. /\ k.args = j.args /\ k.singles = j.asked /\ k.rest = j.rest /\ k.out = "none"
        /\ k.result = j.result
    BY <1>1, <1>4 DEF Job
  <2>6. k.args = (done \o k.singles) \o k.rest /\ Answers(k.result, done)
    BY <2>1, <2>2, <2>4, <2>5
  <2>7. Distinct(k.args) /\ Named(k.result)
    BY <2>5 DEF Aligned
  <2> QED BY <2>5, <2>6, <2>7 DEF AlignedMid
<1>5. CASE k = Fail(j)
  <2>1. k.out = "error" /\ k.args = j.args
    BY <1>1, <1>5 DEF Fail, Job
  <2>2. Distinct(k.args)
    BY <2>1 DEF Aligned
  <2> QED BY <2>1, <2>2 DEF Aligned, AlignedMid
<1>6. CASE k = Failed(j)
  <2>1. \/ j.single /\ k = [j EXCEPT !.result = Append(j.result, Made(j.asked[1]))]
        \/ ~j.single /\ k = [j EXCEPT !.singles = j.asked]
        \/ k = Fail(j)
        \/ j.kind = "scan"
    BY <1>6, FailedCases
  <2> QED BY <1>3, <1>4, <1>5, <2>1
<1> QED BY <1>2, <1>6

LEMMA AlignedStep ==
  ASSUME IInv, Jobs, [Next]_vars, NEW c \in Callers, Aligned(job[c])
  PROVE  Aligned(job'[c])
<1>1. JobStep(c) /\ JobShape(job[c])
  BY JobsStep DEF Jobs
<1>2. CASE job'[c] = job[c]
  BY <1>2
<1>3. CASE \E o \in Operations[c] : job'[c] = Begin(o)
  <2>1. PICK o \in Operations[c] : job'[c] = Begin(o)
    BY <1>3
  <2>2. o \in Operation /\ o.args \in Seq(Tokens) /\ (o.kind = "metadata" => Distinct(o.args))
    BY ClientAssumption DEF Operation
  <2>3. PICK j : /\ JobShape(j) /\ j.kind = o.kind /\ j.args = o.args /\ j.rest = o.args
                 /\ j.asked = <<>> /\ j.singles = <<>> /\ j.result = <<>> /\ j.out = "none"
                 /\ Begin(o) = Issue(j) \/ (o.kind = "pair" /\ Begin(o) = Fail(j))
    BY <2>2, BeginCases
  <2>4. CASE Begin(o) = Issue(j)
    <3>1. Named(<<>>)
      BY DEF Named
    <3>2. Answers(<<>>, <<>>)
      <4>1. PICK f : Loop(<<>>, {}, f)
        BY EmptySeq, LoopExists
      <4>2. Picked(<<>>, {}) = <<>>
        BY <4>1 DEF Loop
      <4>3. Abouts(<<>>) = <<>>
        BY DEF Abouts
      <4> QED BY <4>2, <4>3 DEF Answers
    <3>3. j.args = (<<>> \o j.singles) \o j.rest
      <4>1. <<>> \o <<>> = <<>> /\ <<>> \o o.args = o.args
        BY <2>2, ConcatEmptySeq, EmptySeq
      <4> QED BY <2>3, <4>1
    <3>4. AlignedMid(j)
      BY <2>2, <2>3, <3>1, <3>2, <3>3, Concats DEF AlignedMid
    <3> QED BY <2>1, <2>3, <2>4, <3>4, IssueAligned
  <2>5. CASE o.kind = "pair" /\ Begin(o) = Fail(j)
    <3>1. Fail(j).kind = "pair"
      BY <2>3, <2>5 DEF Fail, JobShape, Job
    <3> QED BY <2>1, <2>5, <3>1 DEF Aligned
  <2> QED BY <2>3, <2>4, <2>5
<1>4. CASE /\ pc[c] # "idle"
           /\ \E k : (k = Succeeded(job[c]) \/ k = Failed(job[c])) /\ job'[c] = Issue(k)
  <2>1. PICK k : (k = Succeeded(job[c]) \/ k = Failed(job[c])) /\ job'[c] = Issue(k)
    BY <1>4
  <2>2. JobShape(job[c]) /\ job[c].out = "none"
    BY <1>1, <1>4 DEF Jobs
  <2>3. JobShape(k) /\ k.kind = job[c].kind /\ job'[c].kind = k.kind
    <3>1. JobShape(k) /\ k.kind = job[c].kind
      <4>1. CASE k = Succeeded(job[c])
        BY <2>2, <4>1, SucceededCases
      <4>2. CASE k = Failed(job[c])
        BY <2>2, <4>2, FailedCases
      <4> QED BY <2>1, <4>1, <4>2
    <3> QED BY <2>1, <3>1, IssueKeeps
  <2>4. CASE k.kind # "metadata"
    BY <2>3, <2>4 DEF Aligned
  <2>5. CASE k.kind = "metadata"
    <3>1. AlignedMid(k) /\ (k.out # "none" => Aligned(k))
      BY <2>1, <2>2, <2>3, <2>5, AnswerAligned
    <3>2. CASE k.out = "none"
      BY <2>1, <2>3, <3>1, <3>2, IssueAligned
    <3>3. CASE k.out # "none"
      BY <2>1, <3>1, <3>3, IssueDone
    <3> QED BY <3>2, <3>3
  <2> QED BY <2>4, <2>5
<1> QED BY <1>1, <1>2, <1>3, <1>4 DEF JobStep

-----------------------------------------------------------------------------
(* The theorems.                                                           *)

JobInv ==
    /\ IInv /\ Ambient /\ Jobs /\ Earned
    /\ \A c \in Callers : /\ BlocksOK(job[c]) /\ ScanOK(job[c])
                          /\ Lone(job[c]) /\ Aligned(job[c])

LEMMA JobInvInit == ASSUME Init, IInv PROVE JobInv
<1>1. Ambient
  <2>1. MaxFaults \in Nat
    BY ClientAssumption
  <2>2. faults \in 0..MaxFaults
    BY <2>1 DEF Init
  <2>3. /\ client \in {"none", "refused", "open", "closed"}
        /\ holder \in Callers \cup {NoCaller}
        /\ ctxDone \in BOOLEAN
    BY DEF Init
  <2> QED BY <2>2, <2>3 DEF Ambient
<1>2. /\ \A c \in Callers : job[c] = Idle /\ pc[c] = "idle"
      /\ job = [c \in Callers |-> Idle]
  BY DEF Init
<1>3. /\ Idle \in Job /\ Idle.kind = "once" /\ Idle.single = FALSE /\ Idle.singles = <<>>
      /\ Idle.out = "ok"
  <2>1. <<>> \in Seq(Tokens) /\ <<>> \in Seq(Entry)
    OBVIOUS
  <2> QED BY <2>1 DEF Idle, Job, Kinds
<1>4. JobShape(Idle)
  BY <1>3 DEF JobShape, MidBatch
<1>5. BlocksOK(Idle) /\ ScanOK(Idle) /\ Lone(Idle) /\ Aligned(Idle)
  BY <1>3 DEF BlocksOK, ScanOK, Lone, Aligned
<1>6. Jobs
  BY <1>2, <1>3, <1>4 DEF Jobs
<1>7. Earned
  BY <1>2, <1>3 DEF Earned
<1> QED BY <1>1, <1>2, <1>5, <1>6, <1>7 DEF JobInv

LEMMA JobInvStep == ASSUME JobInv, IInv', [Next]_vars PROVE JobInv'
<1>1. Ambient' /\ Jobs' /\ Earned'
  BY AmbientStep, JobsStep, EarnedStep DEF JobInv
<1>2. \A c \in Callers : BlocksOK(job'[c]) /\ ScanOK(job'[c])
  BY AnswersStep DEF JobInv
<1>3. \A c \in Callers : Lone(job'[c])
  BY LoneStep DEF JobInv
<1>4. \A c \in Callers : Aligned(job'[c])
  BY AlignedStep DEF JobInv
<1> QED BY <1>1, <1>2, <1>3, <1>4 DEF JobInv

LEMMA TypesFollow == JobInv => TypeOK
<1> SUFFICES ASSUME JobInv PROVE TypeOK
  OBVIOUS
<1>1. \A c \in Callers : job[c].out \in {"none", "ok", "error", "panic"}
  BY DEF JobInv, Jobs, Job
<1> QED BY <1>1 DEF JobInv, IInv, Shapes, Ambient, TypeOK

LEMMA AlignmentFollows == JobInv => MetadataAligned
<1> SUFFICES ASSUME JobInv, NEW c \in Callers, Done(c, "metadata")
             PROVE  /\ \A i \in DOMAIN job[c].result :
                          job[c].result[i][2] \in {About(c)[i], Fallback}
                    /\ About(c) = Select(job[c].args, LAMBDA t :
                          Unpacks(t) \/ \E i \in DOMAIN About(c) : About(c)[i] = t)
  BY DEF MetadataAligned
<1>1. PICK r, s, a : r = job[c].result /\ s = job[c].args /\ a = About(c)
  OBVIOUS
<1>2. a = Abouts(r) /\ r \in Seq(Entry) /\ s \in Seq(Tokens)
  BY <1>1 DEF About, Abouts, JobInv, Jobs, Job
<1>3. Distinct(s) /\ Named(r) /\ Answers(r, s)
  BY <1>1 DEF JobInv, Aligned, Done
<1>4. \A i \in DOMAIN r : r[i][2] \in {a[i], Fallback}
  BY <1>2, <1>3, AboutsType DEF Named, NamedEntry
<1>5. PICK keep : a = Picked(s, keep) /\ \A n \in DOMAIN s : Unpacks(s[n]) => n \in keep
  BY <1>2, <1>3 DEF Answers
<1>6. PICK kept : kept = {n \in DOMAIN s : Unpacks(s[n]) \/ \E i \in DOMAIN a : a[i] = s[n]}
  OBVIOUS
<1>7. ASSUME NEW n \in DOMAIN s
      PROVE  n \in keep <=> n \in kept
  <2>1. ASSUME n \in keep PROVE n \in kept
    <3>1. \E i \in DOMAIN a : a[i] = s[n]
      BY <1>2, <1>5, <2>1, PickedHas
    <3> QED BY <1>6, <3>1
  <2>2. ASSUME NEW i \in DOMAIN a, a[i] = s[n] PROVE n \in keep
    <3>1. PICK U : U = {s[m] : m \in DOMAIN s \cap keep}
      OBVIOUS
    <3>2. a \in Seq(U)
      BY <1>2, <1>5, <3>1, PickedType
    <3>3. a[i] \in U
      BY <2>2, <3>2, ElementOfSeq
    <3>4. PICK m \in DOMAIN s \cap keep : a[i] = s[m]
      BY <3>1, <3>3
    <3> QED BY <1>3, <2>2, <3>4 DEF Distinct
  <2> QED BY <1>5, <1>6, <2>1, <2>2
<1>8. Picked(s, keep) = Picked(s, kept)
  BY <1>2, <1>7, PickedSame
<1>9. About(c) = Picked(job[c].args, {n \in DOMAIN job[c].args :
                     \/ Unpacks(job[c].args[n])
                     \/ \E i \in DOMAIN About(c) : About(c)[i] = job[c].args[n]})
  BY <1>1, <1>5, <1>6, <1>8
<1>10. About(c) = Select(job[c].args, LAMBDA t :
                     Unpacks(t) \/ \E i \in DOMAIN About(c) : About(c)[i] = t)
  BY <1>9 DEF Select
<1> QED BY <1>1, <1>4, <1>10

LEMMA FallbacksFollow == JobInv => FallbackEarned
<1> SUFFICES ASSUME JobInv, NEW c \in Callers, Done(c, "metadata"), ~ctxDone
             PROVE  Cardinality({i \in MadeUp(c) : Nature[About(c)[i]] # "reverts"}) <= faults
  BY DEF FallbackEarned
<1>1. {i \in MadeUp(c) : Nature[About(c)[i]] # "reverts"} = Unearned(job[c])
  BY DEF MadeUp, About, Unearned
<1>2. Cardinality(Unearned(job[c])) + (IF pc[c] = "backoff" THEN 1 ELSE 0) <= faults
  BY DEF JobInv, Earned, Done
<1>3. pc[c] # "backoff" /\ Cardinality(Unearned(job[c])) \in Nat
  BY UnearnedType DEF JobInv, Jobs, Done
<1>4. Cardinality(Unearned(job[c])) <= faults
  <2>1. (IF pc[c] = "backoff" THEN 1 ELSE 0) = 0
    BY <1>3
  <2> QED BY <1>2, <1>3, <2>1
<1> QED BY <1>1, <1>4

\* Distinct tokens are as many as the positions they are at.
LEMMA TokensCount ==
  ASSUME NEW s \in Seq(Tokens), Distinct(s), NEW K, K \subseteq DOMAIN s
  PROVE  Cardinality({s[n] : n \in K}) = Cardinality(K)
<1> DEFINE T == {s[n] : n \in K}
           f == [n \in K |-> s[n]]
<1>1. IsFiniteSet(K)
  <2>1. Len(s) \in Nat /\ DOMAIN s = 1..Len(s)
    OBVIOUS
  <2>2. IsFiniteSet(DOMAIN s)
    BY <2>1, FS_Interval
  <2> QED BY <2>2, FS_Subset
<1>2. f \in Injection(K, T) /\ f \in Surjection(K, T)
  BY DEF Injection, IsInjective, Surjection, Distinct
<1> HIDE DEF T, f
<1>3. Cardinality(T) = Cardinality(K)
  BY <1>1, <1>2, FS_Surjection
<1> QED BY <1>3 DEF T

\* The made-up entries of tokens that do not unpack, one for each, are among
\* those that have cost a failed call.
LEMMA FallbacksCost ==
  ASSUME NEW j \in Job, Named(j.result), NEW F, \A t \in F : ~Unpacks(t),
         \A t \in F : \E i \in DOMAIN j.result : j.result[i][1] = t
  PROVE  Cardinality(F) \in Nat /\ Cardinality(F) <= Cardinality(Unearned(j))
<1> DEFINE f == [t \in F |-> CHOOSE i \in DOMAIN j.result : j.result[i][1] = t]
<1>1. ASSUME NEW t \in F PROVE f[t] \in DOMAIN j.result /\ j.result[f[t]][1] = t
  OBVIOUS
<1>2. ASSUME NEW t \in F PROVE f[t] \in Unearned(j)
  <2>1. NamedEntry(j.result[f[t]]) /\ ~Unpacks(j.result[f[t]][1])
    BY <1>1 DEF Named
  <2>2. j.result[f[t]][2] = Fallback /\ Nature[j.result[f[t]][1]] # "reverts"
    BY <2>1 DEF NamedEntry, Unpacks
  <2> QED BY <1>1, <2>2 DEF Unearned
<1>3. f \in [F -> Unearned(j)]
  <2>1. f \in [F -> DOMAIN j.result]
    BY <1>1
  <2> HIDE DEF f
  <2> QED BY <1>2, <2>1
<1>4. \A t, u \in F : f[t] = f[u] => t = u
  BY <1>1
<1> HIDE DEF f
<1>5. f \in Injection(F, Unearned(j))
  BY <1>3, <1>4 DEF Injection, IsInjective
<1> QED BY <1>5, UnearnedType, FS_Injection, FS_CardinalityType

LEMMA CountsFollow == JobInv => EntriesCounted
<1> SUFFICES ASSUME JobInv, NEW c \in Callers, Done(c, "metadata")
             PROVE  LET asked == {job[c].args[n] : n \in DOMAIN job[c].args}
                        unreadable == {t \in asked : ~Unpacks(t)}
                    IN \E fallback \in SUBSET unreadable :
                          /\ Len(job[c].result) = Cardinality((asked \ unreadable) \cup fallback)
                          /\ ~ctxDone => Cardinality(fallback) <= faults
  BY DEF EntriesCounted
<1>1. PICK r, s : r = job[c].result /\ s = job[c].args
  OBVIOUS
<1>2. job[c] \in Job /\ r \in Seq(Entry) /\ s \in Seq(Tokens)
  BY <1>1 DEF JobInv, Jobs, Job
<1>3. Distinct(s) /\ Named(r) /\ Answers(r, s)
  BY <1>1 DEF JobInv, Aligned, Done
<1>4. PICK keep : Abouts(r) = Picked(s, keep) /\ \A n \in DOMAIN s : Unpacks(s[n]) => n \in keep
  BY <1>3 DEF Answers
<1> DEFINE K == DOMAIN s \cap keep
           asked == {s[n] : n \in DOMAIN s}
           unreadable == {t \in asked : ~Unpacks(t)}
           fallback == {t \in {s[n] : n \in K} : ~Unpacks(t)}
<1>5. {s[n] : n \in K} = (asked \ unreadable) \cup fallback
  BY <1>4
<1>6. Len(r) = Cardinality((asked \ unreadable) \cup fallback)
  <2>1. Len(r) = Cardinality(K)
    BY <1>2, <1>4, AboutsType, PickedCount
  <2>2. Cardinality({s[n] : n \in K}) = Cardinality(K)
    BY <1>2, <1>3, TokensCount
  <2> QED BY <1>5, <2>1, <2>2
<1>7. ASSUME ~ctxDone PROVE Cardinality(fallback) <= faults
  <2>1. ASSUME NEW t \in fallback PROVE \E i \in DOMAIN r : r[i][1] = t
    <3>1. PICK n \in K : t = s[n]
      OBVIOUS
    <3>2. PICK i \in DOMAIN Picked(s, keep) : Picked(s, keep)[i] = s[n]
      BY <1>2, PickedHas
    <3> QED BY <1>2, <1>4, <3>1, <3>2, AboutsType
  <2>2. Cardinality(fallback) \in Nat /\ Cardinality(fallback) <= Cardinality(Unearned(job[c]))
    <3>1. \A t \in fallback : ~Unpacks(t)
      OBVIOUS
    <3> HIDE DEF fallback
    <3> QED BY <1>1, <1>2, <1>3, <2>1, <3>1, FallbacksCost
  <2>3. Cardinality(Unearned(job[c])) + (IF pc[c] = "backoff" THEN 1 ELSE 0) <= faults
    BY <1>7 DEF JobInv, Earned, Done
  <2>4. (IF pc[c] = "backoff" THEN 1 ELSE 0) = 0 /\ Cardinality(Unearned(job[c])) \in Nat
    BY <1>2, UnearnedType DEF Done
  <2>5. faults \in Nat
    BY DEF JobInv, Ambient
  <2> HIDE DEF fallback
  <2> QED BY <2>2, <2>3, <2>4, <2>5
<1>8. fallback \in SUBSET unreadable
  OBVIOUS
<1> HIDE DEF fallback
<1> QED BY <1>1, <1>6, <1>7, <1>8

LEMMA AnswersFollow == JobInv => OnlyLoneBatchFails /\ BlocksComplete /\ ScanKeyed
<1> SUFFICES ASSUME JobInv PROVE OnlyLoneBatchFails /\ BlocksComplete /\ ScanKeyed
  OBVIOUS
<1>1. OnlyLoneBatchFails
  BY DEF JobInv, Lone, OnlyLoneBatchFails
<1>2. BlocksComplete
  BY DEF JobInv, BlocksOK, BlocksComplete, Done
<1>3. ASSUME NEW c \in Callers, job[c].kind = "scan", NEW i \in DOMAIN job[c].result
      PROVE  job[c].result[i][2] = <<job[c].result[i][1], job[c].result[i][1]>>
  <2>1. job[c].result \in Seq({<<t, <<t, t>>>> : t \in Tokens})
    BY <1>3 DEF JobInv, ScanOK
  <2>2. PICK U : U = {<<t, <<t, t>>>> : t \in Tokens}
    OBVIOUS
  <2>3. job[c].result[i] \in U
    BY <2>1, <2>2, <1>3, ElementOfSeq
  <2>4. PICK t \in Tokens : job[c].result[i] = <<t, <<t, t>>>>
    BY <2>2, <2>3
  <2> QED BY <2>4
<1> QED BY <1>1, <1>2, <1>3 DEF ScanKeyed

LEMMA Invariants == Spec => []JobInv
<1>1. Init => JobInv
  BY IInvInit, JobInvInit
<1>2. JobInv /\ [Next]_vars => JobInv'
  BY IInvStep, JobInvStep DEF JobInv
<1> QED
  BY <1>1, <1>2, PTL DEF Spec

\* However many goroutines share the client, whatever they ask for and whatever
\* fails, no tick of the limiter is spent on more than MaxAttempts calls
\* (waitForRateLimit, retryWithBackoff).
THEOREM TicksPayForCalls == Spec => []Paced
<1>1. JobInv => Paced
  BY DEF JobInv, IInv
<1> QED
  BY <1>1, Invariants, PTL

\* Every variable has its type.
THEOREM ClientTypeCorrect == Spec => []TypeOK
  BY Invariants, TypesFollow, PTL

\* GetTokensMetadata answers in the order it was asked, whatever its batches,
\* the tokens of failed batches and the faults: no entry is at the place of
\* another token, and the tokens left out are among those that do not unpack.
THEOREM MetadataIsAligned == Spec => []MetadataAligned
  BY Invariants, AlignmentFollows, PTL

\* A token that reverts does not cost the others of its batch their data: every
\* made-up entry of another token has cost a call that the node failed.
THEOREM FallbacksAreEarned == Spec => []FallbackEarned
  BY Invariants, FallbacksFollow, PTL

\* GetTokensMetadata gives ScanForPairs, which indexes its answer by position, an
\* entry for every token that unpacks, and for one that does not only at the cost
\* of a failed call: the number of entries that Backfill assumes (EntryCounts).
THEOREM EntriesAreCounted == Spec => []EntriesCounted
  BY Invariants, CountsFollow, PTL

\* GetTokensMetadata fails as a whole only in a last batch of one token, which
\* has no second try.
THEOREM OnlyLoneBatchesFail == Spec => []OnlyLoneBatchFails
  BY Invariants, AnswersFollow, PTL

\* GetBlockTimes returns a time for every block it was asked for, or an error.
THEOREM BlocksAreComplete == Spec => []BlocksComplete
  BY Invariants, AnswersFollow, PTL

\* The three requests of a scan batch, the last two of which ask for the tokens
\* with code only, never give a token the symbol or the decimals of another.
THEOREM ScansAreKeyed == Spec => []ScanKeyed
  BY Invariants, AnswersFollow, PTL
=============================================================================
