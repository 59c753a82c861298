----------------------------- MODULE RpcClient -----------------------------
(***************************************************************************)
(* The client of src/internal/service/historical/eth_client.go, and the    *)
(* metadata scan of factory_scanner.go that uses it.                       *)
(*                                                                         *)
(* An operation is a sequence of requests.  A request takes the mutex,     *)
(* waits for a tick of the rate limiter while it holds it, and calls the   *)
(* node; Multicall and GetBlockTimes make the call again after a rate      *)
(* limit error, up to MaxAttempts times, without another tick.  What an    *)
(* operation does with the answer up to its next request is part of the    *)
(* step that receives it, written as functions on the locals (job) of the  *)
(* caller.                                                                 *)
(*                                                                         *)
(* Data are identified with what they are about: an entry is a pair        *)
(* <<about, from>>, where about is the token or block whose place it takes *)
(* and from the one whose data it holds, or Fallback.                      *)
(***************************************************************************)
EXTENDS Integers, Sequences, FiniteSets

CONSTANTS
    Callers,        \* goroutines that share the client
    NoCaller,       \* nobody holds the mutex
    Tokens,
    Nature,         \* Nature[t]: how t answers name, symbol, decimals
    CodeNature,     \* CodeNature[t]: how t answers a call without data
    Fallback,       \* the made-up data "Unknown", "UNK", 18
    AbiMethods,     \* methods of the ERC20 ABI
    Operations,     \* Operations[c]: [kind, args] that the caller c may ask for
    MetadataBatch,  \* batchSize of GetTokensMetadata (10)
    ScanBatch,      \* batchSize of the factory scanner (50)
    MaxAttempts,    \* maxRetries of retryWithBackoff (3)
    MaxFaults       \* bound: calls that the node fails

\* "good": the data unpack; "silent": no data; "garbled": data that do not
\* unpack; "reverts": the call, and with it the whole aggregate, fails.
Natures == {"good", "silent", "garbled", "reverts"}

Kinds == {"once", "blocks", "pair", "decimals", "metadata", "token", "scan"}

Operation == [kind: Kinds, args: Seq(Tokens)]

\* ScanForPairs collects the tokens it asks GetTokensMetadata for in a map.
Distinct(s) == \A m, n \in DOMAIN s : s[m] = s[n] => m = n

ASSUME ClientAssumption ==
    /\ NoCaller \notin Callers
    /\ Fallback \notin Tokens
    /\ Nature \in [Tokens -> Natures]
    /\ CodeNature \in [Tokens -> Natures]
    /\ MetadataBatch \in Nat \ {0, 1}
    /\ ScanBatch \in Nat \ {0}
    /\ MaxAttempts \in Nat \ {0}
    /\ MaxFaults \in Nat
    /\ \A c \in Callers : \A o \in Operations[c] : o \in Operation /\ o.args # <<>>
    /\ \A c \in Callers : \A o \in Operations[c] : o.kind = "metadata" => Distinct(o.args)

VARIABLES
    client,     \* "none", "refused", "open" or "closed"
    tick,       \* the ticker's channel, of capacity 1, holds a tick
    holder,     \* holder of mu
    pc,         \* where the call of each caller is
    attempt,    \* its attempt in retryWithBackoff
    job,        \* the locals of its operation
    ctxDone,    \* the context that the callers share is done
    faults,     \* calls the node has failed
    mine,       \* history: the last tick each caller took
    spent       \* history: spent[n]: calls to the node made with the n-th tick

limiter == <<client, tick, holder>>
calls   == <<pc, attempt, job>>
vars    == <<limiter, calls, ctxDone, faults, mine, spent>>

-----------------------------------------------------------------------------
(* Locals of an operation.                                                 *)
(*   rest    arguments not yet asked for                                   *)
(*   asked   arguments of the request under way                            *)
(*   singles tokens of a failed batch, still to be asked for one by one    *)
(*   single  the request under way is one of those                         *)
(*   stage   of a scan batch: "code", "symbol", "decimals"                 *)
(*   valid   its tokens with code                                          *)
(*   symbols its answers to symbol                                         *)
(*   result  entries so far                                                *)
(*   out     "none" while it runs; then "ok", "error" or "panic"           *)

Idle == [kind |-> "once", args |-> <<>>, rest |-> <<>>, asked |-> <<>>,
         singles |-> <<>>, single |-> FALSE, stage |-> "code", valid |-> <<>>,
         symbols |-> <<>>, result |-> <<>>, out |-> "ok"]

Least(a, b) == IF a < b THEN a ELSE b
Prefix(s, n) == SubSeq(s, 1, Least(n, Len(s)))
Rest(s, n)   == SubSeq(s, n + 1, Len(s))

\* The elements of s at the positions keep, in their order, as a loop appends
\* them.  (Select is SelectSeq, which proofs cannot expand.)
Picked(s, keep) ==
    LET f[n \in 0..Len(s)] ==
            IF n = 0 THEN <<>> ELSE IF n \in keep THEN Append(f[n - 1], s[n]) ELSE f[n - 1]
    IN f[Len(s)]
Select(s, Test(_)) == Picked(s, {n \in DOMAIN s : Test(s[n])})

Metadata(j) == j.kind \in {"metadata", "token"}

\* Arguments of one request.
BatchSize(j) ==
    CASE Metadata(j)       -> MetadataBatch
      [] j.kind = "scan"   -> ScanBatch
      [] j.kind = "blocks" -> 1
      [] OTHER             -> Len(j.args)

\* GetTokenMetadata takes the first entry, whether or not there is one.
Return(j) ==
    IF j.kind = "token" /\ j.result = <<>> THEN [j EXCEPT !.out = "panic"]
    ELSE [j EXCEPT !.out = "ok"]

Fail(j) == [j EXCEPT !.out = "error", !.result = <<>>]

\* A scan asks for a batch until its third answer.
MidBatch(j) == j.kind = "scan" /\ j.stage # "code"

\* The next request of a running operation, if there is one.
Issue(j) ==
    IF j.out # "none" \/ MidBatch(j) THEN j
    ELSE IF j.singles # <<>>
    THEN [j EXCEPT !.asked = <<Head(j.singles)>>, !.singles = Tail(j.singles),
                   !.single = TRUE]
    ELSE IF j.rest # <<>>
    THEN [j EXCEPT !.asked = Prefix(j.rest, BatchSize(j)),
                   !.rest = Rest(j.rest, BatchSize(j)),
                   !.single = FALSE]
    ELSE Return(j)

\* EncodeERC20Call fails for a method the ABI does not have.  GetPairTokens
\* asks the ERC20 ABI for methods of a pair.
Encodes(j) == j.kind = "pair" => {"token0", "token1"} \subseteq AbiMethods

Begin(o) ==
    LET j == [Idle EXCEPT !.kind = o.kind, !.args = o.args, !.rest = o.args,
                          !.out = "none"]
    IN IF Encodes(j) THEN Issue(j) ELSE Fail(j)

-----------------------------------------------------------------------------
(* Answers of the node.                                                    *)

Method(j) == IF j.kind = "scan" THEN j.stage ELSE "any"
AnswerOf(j, t) == IF Method(j) = "code" THEN CodeNature[t] ELSE Nature[t]

\* Multicall packs every call into one aggregate, which reverts as a whole.
Reverts(j) ==
    /\ j.kind \notin {"once", "blocks"}
    /\ \E i \in DOMAIN j.asked : AnswerOf(j, j.asked[i]) = "reverts"

\* retryWithBackoff serves Multicall and GetBlockTimes only.
Retried(j) == j.kind # "once"

\* The entries of the tokens of s, each in its place.
Own(s) == [i \in DOMAIN s |-> <<s[i], s[i]>>]
Made(t) == <<t, Fallback>>

\* getTokenMetadataBatch leaves out a token whose data do not unpack, and
\* gives one without data empty strings and 0 decimals.
Unpacks(t) == Nature[t] # "garbled"

MetadataAnswered(j) ==
    [j EXCEPT !.result = j.result \o Own(Select(j.asked, Unpacks))]

\* A token whose second try fails has made-up data.
MetadataSkipped(j) ==   \* faulty variant
    IF j.single THEN j
    ELSE IF Len(j.asked) > 1 THEN [j EXCEPT !.singles = j.asked] ELSE Fail(j)
MetadataGivenUp(j) ==   \* faulty variant
    IF Len(j.asked) > 1 THEN [j EXCEPT !.result = j.result \o [i \in DOMAIN j.asked |-> Made(j.asked[i])]]
    ELSE Fail(j)
MetadataDropped(j) == Fail(j)   \* faulty variant
MetadataFailed(j) ==
    IF j.single THEN [j EXCEPT !.result = Append(j.result, Made(j.asked[1]))]
    ELSE IF Len(j.asked) > 1 THEN [j EXCEPT !.singles = j.asked]
    ELSE Fail(j)

\* GetTokensDecimals and GetPairTokens need data that unpack from every call.
DecimalsAnswered(j) ==
    IF \A i \in DOMAIN j.asked : Nature[j.asked[i]] = "good"
    THEN [j EXCEPT !.result = Own(j.asked)]
    ELSE Fail(j)

\* GetBlockTimes collects the headers it asked for one by one.
BlockAnswered(j) == [j EXCEPT !.result = j.result \o Own(j.asked)]

\* The scanner of the factory: a batch asks for code, symbols and decimals in
\* turn.  An answer without data counts as a failure of that token's call.
HasCode(t) == CodeNature[t] \in {"good", "garbled"}

\* Entries of the tokens whose symbol and decimals both unpack, each made of
\* the answers at its position.
Keyed(s, symbols, decimals) ==
    Select([i \in DOMAIN s |-> <<s[i], <<symbols[i], decimals[i]>>>>],
              LAMBDA e : /\ Nature[e[2][1]] = "good" /\ Nature[e[2][2]] = "good")

\* Faulty variant: the answers are taken at the positions of the batch.
ScanUnfiltered(j) ==
    CASE j.stage = "code" ->
            LET valid == Select(j.asked, HasCode)
            IN IF valid = <<>> THEN j
               ELSE [j EXCEPT !.valid = j.asked, !.asked = valid, !.stage = "symbol"]
      [] j.stage = "symbol" ->
            [j EXCEPT !.symbols = j.asked, !.stage = "decimals"]
      [] j.stage = "decimals" ->
            [j EXCEPT !.stage = "code", !.result = j.result \o
                Keyed(Prefix(j.valid, Len(j.asked)), j.symbols, j.asked)]
ScanAnswered(j) ==
    CASE j.stage = "code" ->
            LET valid == Select(j.asked, HasCode)
            IN IF valid = <<>> THEN j
               ELSE [j EXCEPT !.valid = valid, !.asked = valid, !.stage = "symbol"]
      [] j.stage = "symbol" ->
            [j EXCEPT !.symbols = j.asked, !.stage = "decimals"]
      [] j.stage = "decimals" ->
            [j EXCEPT !.stage = "code",
                      !.result = j.result \o Keyed(j.valid, j.symbols, j.asked)]

\* A batch that fails at any of its three requests is left out.
ScanFailed(j) == [j EXCEPT !.stage = "code"]

\* What an operation does with the data of a request, or with its failure.
Succeeded(j) ==
    CASE Metadata(j)                    -> MetadataAnswered(j)
      [] j.kind = "scan"                -> ScanAnswered(j)
      [] j.kind \in {"pair", "decimals"} -> DecimalsAnswered(j)
      [] j.kind \in {"once", "blocks"}  -> BlockAnswered(j)

\* Faulty variant: GetBlockTimes goes on with the next block.
FailedSkipping(j) ==
    CASE Metadata(j)        -> MetadataFailed(j)
      [] j.kind = "scan"    -> ScanFailed(j)
      [] j.kind = "blocks"  -> j
      [] OTHER              -> Fail(j)
Failed(j) ==
    CASE Metadata(j)     -> MetadataFailed(j)
      [] j.kind = "scan" -> ScanFailed(j)
      [] OTHER           -> Fail(j)

-----------------------------------------------------------------------------
Init ==
    /\ client = "none" /\ tick = FALSE /\ holder = NoCaller
    /\ pc = [c \in Callers |-> "idle"]
    /\ attempt = [c \in Callers |-> 0]
    /\ job = [c \in Callers |-> Idle]
    /\ ctxDone = FALSE
    /\ faults = 0
    /\ mine = [c \in Callers |-> 0]
    /\ spent = <<>>

\* An index out of range ends the process.
Running == \A c \in Callers : job[c].out # "panic"

\* NewClient looks for the Multicall contract first; main exits without one.
NewClient ==
    /\ client = "none"
    /\ client' \in {"open", "refused"}
    /\ UNCHANGED <<tick, holder, calls, ctxDone, faults, mine, spent>>

\* Stopping the ticker neither closes its channel nor empties it.
Close ==
    /\ client = "open"
    /\ client' = "closed"
    /\ UNCHANGED <<tick, holder, calls, ctxDone, faults, mine, spent>>

\* The ticker drops a tick that finds its channel full.
Tick ==
    /\ Running
    /\ client = "open" /\ ~tick
    /\ tick' = TRUE
    /\ spent' = Append(spent, 0)
    /\ UNCHANGED <<client, holder, calls, ctxDone, faults, mine>>

\* main cancels the context that Run hands to its calls.
Cancel ==
    /\ Running
    /\ ~ctxDone
    /\ ctxDone' = TRUE
    /\ UNCHANGED <<limiter, calls, faults, mine, spent>>

\* Go on after a request, or begin: either at the limiter, or returned.
Proceed(c, j) ==
    /\ job' = [job EXCEPT ![c] = j]
    /\ pc' = [pc EXCEPT ![c] = IF j.out = "none" THEN "lock" ELSE "idle"]
    /\ attempt' = [attempt EXCEPT ![c] = 0]

\* (Bound: a caller asks once.)
Ask(c) ==
    /\ Running
    /\ client \in {"open", "closed"}
    /\ pc[c] = "idle" /\ job[c].args = <<>>
    /\ \E o \in Operations[c] : Proceed(c, Begin(o))
    /\ UNCHANGED <<limiter, ctxDone, faults, mine, spent>>

\* waitForRateLimit: the mutex, then, with the mutex held, a tick.
Lock(c) ==
    /\ Running
    /\ pc[c] = "lock" /\ holder = NoCaller
    /\ holder' = c
    /\ pc' = [pc EXCEPT ![c] = "tick"]
    /\ UNCHANGED <<client, tick, attempt, job, ctxDone, faults, mine, spent>>

\* Faulty variants: the tick stays in the channel, or the mutex is kept.
TakeTickPeeked(c) ==
    /\ Running
    /\ pc[c] = "tick" /\ tick
    /\ holder' = NoCaller
    /\ mine' = [mine EXCEPT ![c] = Len(spent)]
    /\ pc' = [pc EXCEPT ![c] = "call"]
    /\ UNCHANGED <<client, tick, attempt, job, ctxDone, faults, spent>>
TakeTickLocked(c) ==
    /\ Running
    /\ pc[c] = "tick" /\ tick
    /\ tick' = FALSE
    /\ mine' = [mine EXCEPT ![c] = Len(spent)]
    /\ pc' = [pc EXCEPT ![c] = "call"]
    /\ UNCHANGED <<client, holder, attempt, job, ctxDone, faults, spent>>
TakeTick(c) ==
    /\ Running
    /\ pc[c] = "tick" /\ tick
    /\ tick' = FALSE /\ holder' = NoCaller
    /\ mine' = [mine EXCEPT ![c] = Len(spent)]
    /\ pc' = [pc EXCEPT ![c] = "call"]
    /\ UNCHANGED <<client, attempt, job, ctxDone, faults, spent>>

\* A call to the node; with a context that is done it fails at once.
Calling(c) ==
    /\ Running
    /\ pc[c] = "call"
    /\ spent' = [spent EXCEPT ![mine[c]] = @ + 1]
    /\ UNCHANGED <<limiter, ctxDone, mine>>

Succeed(c) ==
    /\ Calling(c)
    /\ ~ctxDone /\ ~Reverts(job[c])
    /\ Proceed(c, Issue(Succeeded(job[c])))
    /\ UNCHANGED faults

\* An error that is not a rate limit, or a rate limit outside of
\* retryWithBackoff.  (A deadline's "exceeded" counts as a rate limit, but the
\* select then finds the context done.)
Reject(c) ==
    /\ Calling(c)
    /\ \/ ctxDone \/ Reverts(job[c])
       \/ faults < MaxFaults
    /\ faults' = IF ctxDone \/ Reverts(job[c]) THEN faults ELSE faults + 1
    /\ Proceed(c, Issue(Failed(job[c])))

RateLimited(c) ==
    /\ Calling(c)
    /\ ~ctxDone /\ faults < MaxFaults /\ Retried(job[c])
    /\ faults' = faults + 1
    /\ pc' = [pc EXCEPT ![c] = "backoff"]
    /\ UNCHANGED <<attempt, job>>

\* Faulty variant: one attempt too many.
RetryOverrun(c) ==
    /\ Running
    /\ pc[c] = "backoff"
    /\ IF attempt[c] < MaxAttempts
       THEN /\ attempt' = [attempt EXCEPT ![c] = @ + 1]
            /\ pc' = [pc EXCEPT ![c] = "call"]
            /\ UNCHANGED job
       ELSE Proceed(c, Issue(Failed(job[c])))
    /\ UNCHANGED <<limiter, ctxDone, faults, mine, spent>>
\* The wait is over, also after the last attempt.
Retry(c) ==
    /\ Running
    /\ pc[c] = "backoff"
    /\ IF attempt[c] + 1 < MaxAttempts
       THEN /\ attempt' = [attempt EXCEPT ![c] = @ + 1]
            /\ pc' = [pc EXCEPT ![c] = "call"]
            /\ UNCHANGED job
       ELSE Proceed(c, Issue(Failed(job[c])))
    /\ UNCHANGED <<limiter, ctxDone, faults, mine, spent>>

\* ctx.Done() during the wait.
BackoffCancelled(c) ==
    /\ Running
    /\ pc[c] = "backoff" /\ ctxDone
    /\ Proceed(c, Issue(Failed(job[c])))
    /\ UNCHANGED <<limiter, ctxDone, faults, mine, spent>>

CallerStep(c) ==
    TakeTick(c) \/ Succeed(c) \/ Reject(c) \/ RateLimited(c) \/ Retry(c)
        \/ BackoffCancelled(c)

Next ==
    \/ NewClient \/ Close \/ Tick \/ Cancel
    \/ \E c \in Callers : Ask(c) \/ Lock(c) \/ CallerStep(c)

Spec == Init /\ [][Next]_vars

\* The ticker ticks until it is stopped, a goroutine that can run is run, and
\* a waiter for the mutex is not overtaken for ever (the mutex hands itself
\* over to a waiter that has waited for a millisecond).
FairSpec ==
    /\ Spec
    /\ WF_vars(Tick)
    /\ \A c \in Callers : SF_vars(Lock(c)) /\ WF_vars(CallerStep(c))

-----------------------------------------------------------------------------
(* Properties.                                                             *)

\* Every variable has its type.
TypeOK ==
    /\ client \in {"none", "refused", "open", "closed"}
    /\ tick \in BOOLEAN
    /\ holder \in Callers \cup {NoCaller}
    /\ pc \in [Callers -> {"idle", "lock", "tick", "call", "backoff"}]
    /\ attempt \in [Callers -> 0..MaxAttempts - 1]
    /\ \A c \in Callers : job[c].out \in {"none", "ok", "error", "panic"}
    /\ ctxDone \in BOOLEAN
    /\ faults \in 0..MaxFaults
    /\ mine \in [Callers -> Nat]
    /\ spent \in Seq(Nat)

\* A tick of the rate limiter pays for the attempts of one request: no two
\* requests share one (the buffered tick, the mutex), and the retries, which
\* take no tick of their own, are at most MaxAttempts - 1.
Paced == \A n \in DOMAIN spent : spent[n] <= MaxAttempts

\* The successful answers of an operation of this kind.
Done(c, kind) == pc[c] = "idle" /\ job[c].kind = kind /\ job[c].out = "ok"

About(c) == [i \in DOMAIN job[c].result |-> job[c].result[i][1]]
MadeUp(c) == {i \in DOMAIN job[c].result : job[c].result[i][2] = Fallback}

\* GetTokensMetadata answers in the order it was asked, and leaves out no
\* token but one whose data do not unpack: its callers index the answer by
\* the position of the token.
MetadataAligned ==
    \A c \in Callers : Done(c, "metadata") =>
        /\ \A i \in DOMAIN job[c].result : job[c].result[i][2] \in {About(c)[i], Fallback}
        /\ About(c) = Select(job[c].args, LAMBDA t :
                Unpacks(t) \/ \E i \in DOMAIN About(c) : About(c)[i] = t)

\* A token that reverts fails the aggregate of its whole batch, yet it does
\* not cost the others of the batch their own data: made-up data need a failure of
\* the token's own request.
FallbackEarned ==
    \A c \in Callers : Done(c, "metadata") /\ ~ctxDone =>
        Cardinality({i \in MadeUp(c) : Nature[About(c)[i]] # "reverts"}) <= faults

\* The callers count on the number of entries: one for every token whose data
\* unpack, even in a batch that fails, and for the others at most one for each
\* failure of the node.  (What EntryCounts of Backfill takes for granted.)
EntriesCounted ==
    \A c \in Callers : Done(c, "metadata") =>
        LET asked == {job[c].args[n] : n \in DOMAIN job[c].args}
            unreadable == {t \in asked : ~Unpacks(t)}
        IN \E fallback \in SUBSET unreadable :
              /\ Len(job[c].result) = Cardinality((asked \ unreadable) \cup fallback)
              /\ ~ctxDone => Cardinality(fallback) <= faults

\* Only a last batch of one token can fail GetTokensMetadata.
OnlyLoneBatchFails ==
    \A c \in Callers :
        pc[c] = "idle" /\ job[c].kind = "metadata" /\ job[c].out = "error" =>
            Len(job[c].args) % MetadataBatch = 1

\* GetBlockTimes returns the time of every block it was asked for, or an error.
BlocksComplete ==
    \A c \in Callers : Done(c, "blocks") => job[c].result = Own(job[c].args)

\* The scan never gives a token the symbol or the decimals of another one,
\* although its three requests are about different lists of tokens.
ScanKeyed ==
    \A c \in Callers : job[c].kind = "scan" =>
        \A i \in DOMAIN job[c].result :
            job[c].result[i][2] = <<job[c].result[i][1], job[c].result[i][1]>>

\* Until Close, every operation returns: the mutex is held while waiting for
\* the ticker, yet every waiter gets a tick; retries and second tries end, also
\* when the context is done and every request fails.
Returns ==
    \A c \in Callers :
        pc[c] # "idle" ~> pc[c] = "idle" \/ client = "closed" \/ ~Running
=============================================================================
