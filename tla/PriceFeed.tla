------------------------------ MODULE PriceFeed ------------------------------
(***************************************************************************)
(* Price subscriptions of src/internal/service/uniswap/service.go.         *)
(*                                                                         *)
(* A call of SubscribeToPrice lists its subscription under the pair, takes *)
(* the initial price, and starts handleSyncEvents when the list then has   *)
(* one element.  The handler turns Sync events and subscription errors     *)
(* into broadcasts over the list.  The list is a Go slice: appends and     *)
(* removals work in place, while a broadcast walks the slice header it     *)
(* copied under the lock.  Critical sections of s.mu are single steps;     *)
(* the test of the list's length (line 127) and the sends hold no lock.    *)
(*                                                                         *)
(* A call is identified with its subscription; the handler it may start    *)
(* and the backing array its append may allocate carry the same name.      *)
(***************************************************************************)
EXTENDS Integers, Sequences, FiniteSets

CONSTANTS
    Subs,           \* calls of SubscribeToPrice
    None,           \* no array, or an unused cell of one
    Pairs,          \* pair addresses
    PairOf,         \* PairOf[s]: the pair s subscribes to
    Buffer,         \* capacity of an Updates channel (100)
    MaxAttempts,    \* retryConfig.MaxAttempts (3)
    MaxEvents,      \* bound: Sync events and ends of subscriptions
    MaxFaults       \* bound: failed calls to the node

ASSUME FeedAssumption ==
    /\ IsFiniteSet(Subs) /\ None \notin Subs
    /\ PairOf \in [Subs -> Pairs]
    /\ Buffer \in Nat \ {0} /\ MaxAttempts \in Nat
    /\ MaxEvents \in Nat /\ MaxFaults \in Nat

VARIABLES
    spc,        \* where the call of each subscription is
    bindings,   \* s.pairs: pairs with a binding
    built,      \* history: bindings made for each pair
    subs,       \* s.subs[p]: the header of the slice
    cells,      \* the backing array allocated by the append of s
    queued,     \* messages in s.Updates
    wpc,        \* where the handler started by s is
    up,         \* its current event subscription is alive
    buffered,   \* its current event channel has a buffer
    attempts,   \* its attempts
    frames,     \* its broadcasts, the innermost last
    crash,      \* what ended the process, or "none"
    events,     \* events of subscriptions so far
    faults      \* failed calls so far

lists    == <<subs, cells>>
handlers == <<wpc, up, buffered, attempts, frames>>
vars     == <<spc, bindings, built, lists, queued, handlers, crash, events, faults>>

\* The zero slice of a key that is not in the map.
Nil == [arr |-> None, len |-> 0]

Cap(h) == IF h.arr = None THEN 0 ELSE Len(cells[h.arr])

\* The subscription at the index i (from 1) of a slice.
At(h, i) == cells[h.arr][i]

Listed(p) == {At(subs[p], i) : i \in 1..subs[p].len}

-----------------------------------------------------------------------------
Zero     == [s \in Subs |-> 0]
NoCells  == [s \in Subs |-> <<>>]
NoFrames == [s \in Subs |-> <<>>]

\* NewService.
Init ==
    /\ spc = [s \in Subs |-> "lookup"]
    /\ bindings = {} /\ built = [p \in Pairs |-> 0]
    /\ subs = [p \in Pairs |-> Nil] /\ cells = NoCells
    /\ queued = Zero
    /\ wpc = [s \in Subs |-> "none"] /\ up = [s \in Subs |-> FALSE]
    /\ buffered = [s \in Subs |-> FALSE]
    /\ attempts = Zero /\ frames = NoFrames
    /\ events = 0 /\ faults = 0
    /\ crash = "none"

\* The process ends, and its memory with it.
Panic(reason) ==
    /\ spc' = [s \in Subs |-> "lookup"]
    /\ bindings' = {} /\ built' = [p \in Pairs |-> 0]
    /\ subs' = [p \in Pairs |-> Nil] /\ cells' = NoCells
    /\ queued' = Zero
    /\ wpc' = [s \in Subs |-> "none"] /\ up' = [s \in Subs |-> FALSE]
    /\ buffered' = [s \in Subs |-> FALSE]
    /\ attempts' = Zero /\ frames' = NoFrames
    /\ events' = 0 /\ faults' = 0
    /\ crash' = reason

\* The outcomes of a call to the node, and their count.
Outcomes == {TRUE} \cup (IF faults < MaxFaults THEN {FALSE} ELSE {})
Count(ok) == faults' = IF ok THEN faults ELSE faults + 1

-----------------------------------------------------------------------------
(* SubscribeToPrice.                                                       *)

\* getPair under the read lock.
Lookup(s) ==
    /\ spc[s] = "lookup"
    /\ spc' = [spc EXCEPT ![s] = IF PairOf[s] \in bindings THEN "add" ELSE "bind"]
    /\ UNCHANGED <<bindings, built, lists, queued, handlers, crash, events, faults>>

\* Faulty variant: getPair does not look again under the write lock.
BindUnchecked(s) ==
    /\ spc[s] = "bind"
    /\ built' = [built EXCEPT ![PairOf[s]] = @ + 1]
    /\ bindings' = bindings \cup {PairOf[s]}
    /\ spc' = [spc EXCEPT ![s] = "add"]
    /\ UNCHANGED <<lists, queued, handlers, crash, events, faults>>

\* getPair under the write lock.
Bind(s) ==
    /\ spc[s] = "bind"
    /\ built' = IF PairOf[s] \in bindings THEN built
                ELSE [built EXCEPT ![PairOf[s]] = @ + 1]
    /\ bindings' = bindings \cup {PairOf[s]}
    /\ spc' = [spc EXCEPT ![s] = "add"]
    /\ UNCHANGED <<lists, queued, handlers, crash, events, faults>>

\* append: in place while the array has room, else into one twice as large.
Add(s) ==
    LET p == PairOf[s]
        h == subs[p]
    IN
    /\ spc[s] = "add"
    /\ IF h.len < Cap(h)
       THEN /\ cells' = [cells EXCEPT ![h.arr][h.len + 1] = s]
            /\ subs' = [subs EXCEPT ![p].len = @ + 1]
       ELSE /\ cells' = [cells EXCEPT ![s] =
                    [i \in 1..(IF Cap(h) = 0 THEN 1 ELSE 2 * Cap(h)) |->
                        IF i <= h.len THEN At(h, i)
                        ELSE IF i = h.len + 1 THEN s ELSE None]]
            /\ subs' = [subs EXCEPT ![p] = [arr |-> s, len |-> h.len + 1]]
    /\ spc' = [spc EXCEPT ![s] = "price"]
    /\ UNCHANGED <<bindings, built, queued, handlers, crash, events, faults>>

\* The initial price goes into the channel unless broadcasts have filled it.
InitialPrice(s) ==
    /\ spc[s] = "price"
    /\ \E ok \in Outcomes :
          /\ Count(ok)
          /\ spc' = [spc EXCEPT ![s] = IF ok THEN "check" ELSE "undo"]
          /\ queued' = IF ok /\ queued[s] < Buffer THEN [queued EXCEPT ![s] = @ + 1]
                       ELSE queued
    /\ UNCHANGED <<bindings, built, lists, handlers, crash, events>>

\* Faulty variant: every call starts a handler.
WatchAlways(s) == TRUE
\* len(s.subs[pairAddress]) == 1, read without the lock.
WatchNeeded(s) == subs[PairOf[s]].len = 1

Check(s) ==
    /\ spc[s] = "check"
    /\ spc' = [spc EXCEPT ![s] = IF WatchNeeded(s) THEN "watch" ELSE "active"]
    /\ UNCHANGED <<bindings, built, lists, queued, handlers, crash, events, faults>>

\* The runtime may find that read to overlap a write of the map.
MapRace(s) ==
    /\ spc[s] = "check"
    /\ \E t \in Subs \ {s} : spc[t] \in {"add", "undo", "active"}
    /\ Panic("map")

\* WatchSync; unsub is set and the subscription returned.
Watch(s) ==
    /\ spc[s] = "watch"
    /\ \E ok \in Outcomes :
          /\ Count(ok)
          /\ IF ok THEN /\ wpc' = [wpc EXCEPT ![s] = "select"]
                        /\ up' = [up EXCEPT ![s] = TRUE]
                        /\ spc' = [spc EXCEPT ![s] = "active"]
                   ELSE spc' = [spc EXCEPT ![s] = "undo"] /\ UNCHANGED <<wpc, up>>
    /\ UNCHANGED <<bindings, built, lists, queued, buffered, attempts, frames, crash, events>>

\* Faulty variant: the whole list of the pair is dropped.
UndoAll(s) ==
    /\ spc[s] = "undo"
    /\ \/ subs[PairOf[s]].len = 0 /\ Panic("bounds")
       \/ /\ subs[PairOf[s]].len > 0
          /\ subs' = [subs EXCEPT ![PairOf[s]] = Nil]
          /\ spc' = [spc EXCEPT ![s] = "failed"]
          /\ UNCHANGED <<bindings, built, cells, queued, handlers, crash, events, faults>>

\* The call failed: subs[:len(subs)-1] removes the last element, whichever
\* it is, and panics on an empty list.
Undo(s) ==
    /\ spc[s] = "undo"
    /\ \/ subs[PairOf[s]].len = 0 /\ Panic("bounds")
       \/ /\ subs[PairOf[s]].len > 0
          /\ subs' = [subs EXCEPT ![PairOf[s]].len = @ - 1]
          /\ spc' = [spc EXCEPT ![s] = "failed"]
          /\ UNCHANGED <<bindings, built, cells, queued, handlers, crash, events, faults>>

-----------------------------------------------------------------------------
(* The caller.                                                             *)

\* Faulty variant: the elements above the index stay where they are.
ShiftNone(c, i, n) == c
\* append(subs[:i], subs[i+1:]...) moves the rest down; the old last cell stays.
Shift(c, i, n) == [j \in 1..Len(c) |-> IF i <= j /\ j < n THEN c[j + 1] ELSE c[j]]

\* Unsubscribe, called once.  Cancelling watchCtx has no effect on an event
\* subscription that is established.
Unsubscribe(s) ==
    LET p     == PairOf[s]
        h     == subs[p]
        mine  == {i \in 1..h.len : At(h, i) = s}
        first == CHOOSE i \in mine : \A j \in mine : i <= j
        rest  == IF mine = {} THEN h.len ELSE h.len - 1
    IN
    /\ spc[s] = "active"
    /\ cells' = IF mine = {} THEN cells
                ELSE [cells EXCEPT ![h.arr] = Shift(@, first, h.len)]
    /\ subs' = [subs EXCEPT ![p] = IF rest = 0 THEN Nil ELSE [h EXCEPT !.len = rest]]
    /\ spc' = [spc EXCEPT ![s] = "closed"]
    /\ UNCHANGED <<bindings, built, queued, handlers, crash, events, faults>>

Receive(s) ==
    /\ queued[s] > 0 /\ spc[s] \in {"active", "closed"}
    /\ queued' = [queued EXCEPT ![s] = @ - 1]
    /\ UNCHANGED <<spc, bindings, built, lists, handlers, crash, events, faults>>

-----------------------------------------------------------------------------
(* handleSyncEvents of the handler started by s.                           *)

\* A broadcast copies the header of the list and has yet to visit it.
Broadcast(s, kind) ==
    [kind |-> kind, arr |-> subs[PairOf[s]].arr, len |-> subs[PairOf[s]].len, next |-> 1]

Selecting(s) == wpc[s] = "select" /\ frames[s] = <<>> /\ events < MaxEvents

\* Faulty variant: one attempt too many.
AttemptsOverrun(s) == attempts[s] > MaxAttempts
AttemptsSpent(s) == attempts[s] >= MaxAttempts

\* The event subscription ends with an error: it is broadcast at once.
SubscriptionError(s) ==
    /\ Selecting(s) /\ up[s]
    /\ events' = events + 1
    /\ up' = [up EXCEPT ![s] = FALSE]
    /\ frames' = [frames EXCEPT ![s] = <<Broadcast(s, "error")>>]
    /\ wpc' = [wpc EXCEPT ![s] = IF AttemptsSpent(s) THEN "giveup" ELSE "backoff"]
    /\ UNCHANGED <<spc, bindings, built, lists, queued, buffered, attempts, crash, faults>>

\* It ends without one, as when the client is closed.  From then on Err() is a
\* closed channel, and the select takes its nil for ever.
SubscriptionClosed(s) ==
    /\ Selecting(s) /\ up[s]
    /\ events' = events + 1
    /\ up' = [up EXCEPT ![s] = FALSE]
    /\ UNCHANGED <<spc, bindings, built, lists, queued, wpc, buffered, attempts, frames, crash,
                   faults>>

GiveUp(s) ==
    /\ wpc[s] = "giveup" /\ frames[s] = <<>>
    /\ frames' = [frames EXCEPT ![s] = <<Broadcast(s, "error")>>]
    /\ wpc' = [wpc EXCEPT ![s] = "ended"]
    /\ UNCHANGED <<spc, bindings, built, lists, queued, up, buffered, attempts, crash, events,
                   faults>>

\* When it fails, Err() of the old subscription stays closed.
Resubscribe(s) ==
    /\ wpc[s] = "backoff" /\ frames[s] = <<>>
    /\ attempts' = [attempts EXCEPT ![s] = @ + 1]
    /\ \E ok \in Outcomes :
          /\ Count(ok)
          /\ up' = [up EXCEPT ![s] = ok]
          /\ buffered' = [buffered EXCEPT ![s] = @ \/ ok]
          /\ frames' = [frames EXCEPT ![s] = <<Broadcast(s, IF ok THEN "info" ELSE "error")>>]
    /\ wpc' = [wpc EXCEPT ![s] = "select"]
    /\ UNCHANGED <<spc, bindings, built, lists, queued, crash, events>>

\* A buffered event outlives its subscription.
SyncEvent(s) ==
    /\ Selecting(s) /\ (up[s] \/ buffered[s])
    /\ events' = events + 1
    /\ attempts' = [attempts EXCEPT ![s] = 0]
    /\ wpc' = [wpc EXCEPT ![s] = "price"]
    /\ UNCHANGED <<spc, bindings, built, lists, queued, up, buffered, frames, crash, faults>>

\* The price after all retries, or the error of the last one.
SyncPrice(s) ==
    /\ wpc[s] = "price"
    /\ \E ok \in Outcomes :
          /\ Count(ok)
          /\ frames' = [frames EXCEPT ![s] = <<Broadcast(s, IF ok THEN "price" ELSE "error")>>]
    /\ wpc' = [wpc EXCEPT ![s] = "select"]
    /\ UNCHANGED <<spc, bindings, built, lists, queued, up, buffered, attempts, crash, events>>

\* Faulty variant of Full: the send waits for room.
FullNever(t) == FALSE
Full(t) == queued[t] >= Buffer

\* The innermost broadcast visits its next cell, with whatever it holds now.
\* A price that finds a channel full is dropped, and a warning broadcast.
Send(s) ==
    LET n == Len(frames[s])
        f == frames[s][n]
        t == At(f, f.next)
        visited == [frames[s] EXCEPT ![n].next = @ + 1]
    IN
    /\ n > 0 /\ f.next <= f.len
    /\ \/ spc[t] = "closed" /\ Panic("send")
       \/ /\ spc[t] # "closed" /\ ~Full(t) /\ queued[t] < Buffer
          /\ queued' = [queued EXCEPT ![t] = @ + 1]
          /\ frames' = [frames EXCEPT ![s] = visited]
          /\ UNCHANGED <<spc, bindings, built, lists, wpc, up, buffered, attempts, crash, events,
                         faults>>
       \/ /\ spc[t] # "closed" /\ Full(t)
          /\ frames' = [frames EXCEPT ![s] =
                IF f.kind = "price" THEN Append(visited, Broadcast(s, "warning")) ELSE visited]
          /\ UNCHANGED <<spc, bindings, built, lists, queued, wpc, up, buffered, attempts, crash, events,
                         faults>>

\* The innermost broadcast has visited its list.
Sent(s) ==
    LET n == Len(frames[s]) IN
    /\ n > 0 /\ frames[s][n].next > frames[s][n].len
    /\ frames' = [frames EXCEPT ![s] = SubSeq(@, 1, n - 1)]
    /\ UNCHANGED <<spc, bindings, built, lists, queued, wpc, up, buffered, attempts, crash, events,
                   faults>>

-----------------------------------------------------------------------------
CallStep(s) ==
    \/ Lookup(s) \/ Bind(s) \/ Add(s) \/ InitialPrice(s) \/ Check(s) \/ MapRace(s)
    \/ Watch(s) \/ Undo(s)

HandlerStep(s) == GiveUp(s) \/ Resubscribe(s) \/ SyncPrice(s) \/ Send(s) \/ Sent(s)

EventStep(s) == SubscriptionError(s) \/ SubscriptionClosed(s) \/ SyncEvent(s)

Next ==
    /\ crash = "none"
    /\ \E s \in Subs : CallStep(s) \/ HandlerStep(s) \/ EventStep(s)
                       \/ Unsubscribe(s) \/ Receive(s)

Spec == Init /\ [][Next]_vars

\* Goroutines that can run are run.  Callers need neither subscribe, receive
\* nor unsubscribe, and the node need not send anything.
FairSpec == Spec /\ \A s \in Subs : WF_vars(crash = "none" /\ HandlerStep(s))

-----------------------------------------------------------------------------
(* Properties.                                                             *)

Frame == [kind : {"price", "error", "info", "warning"}, arr : Subs \cup {None},
          len : Nat, next : Nat]

\* Channels hold at most their capacity, a slice lies within its array, and a
\* handler makes at most MaxAttempts attempts in a row.
TypeOK ==
    /\ spc \in [Subs -> {"lookup", "bind", "add", "price", "check", "watch", "undo",
                         "active", "failed", "closed"}]
    /\ bindings \subseteq Pairs /\ built \in [Pairs -> Nat]
    /\ subs \in [Pairs -> [arr : Subs \cup {None}, len : Nat]]
    /\ \A p \in Pairs : subs[p].len <= Cap(subs[p])
    /\ cells \in [Subs -> Seq(Subs \cup {None})]
    /\ queued \in [Subs -> 0..Buffer]
    /\ wpc \in [Subs -> {"none", "select", "backoff", "giveup", "price", "ended"}]
    /\ up \in [Subs -> BOOLEAN] /\ buffered \in [Subs -> BOOLEAN]
    /\ attempts \in [Subs -> 0..MaxAttempts]
    /\ frames \in [Subs -> Seq(Frame)]
    /\ crash \in {"none", "map", "bounds", "send"}
    /\ events \in 0..MaxEvents /\ faults \in 0..MaxFaults

CallsOf(p) == {s \in Subs : PairOf[s] = p}

\* Calls of p that are listed under it, as far as they know.
Held(p) == {s \in CallsOf(p) : spc[s] \in {"price", "check", "watch", "undo", "active"}}

\* A failing call takes the last element of the list, which may be another
\* call's; yet the list never has fewer elements than calls that count on one,
\* so no rollback ever finds it empty.
RollbackInBounds ==
    /\ crash # "bounds"
    /\ \A p \in Pairs : Cardinality(Held(p)) <= subs[p].len

\* While no call of the pair has failed, its list holds every subscription
\* that is to be served, and nothing else, each of them once: in-place
\* appends and removals neither lose nor duplicate one.
ListedOnce ==
    \A p \in Pairs :
        (\A s \in CallsOf(p) : spc[s] # "failed") =>
            Listed(p) = Held(p) /\ subs[p].len = Cardinality(Held(p))

\* Whatever calls fail, a broadcast that starts never sees a closed channel.
ClosedUnlisted ==
    \A p \in Pairs : \A s \in Listed(p) : spc[s] # "closed"

\* As long as no subscription of a pair has ended, the pair has one handler
\* at most, however the calls overlap.
SingleHandler ==
    \A p \in Pairs :
        (\A s \in CallsOf(p) : spc[s] \notin {"undo", "failed", "closed"}) =>
            Cardinality({s \in CallsOf(p) : wpc[s] # "none"}) <= 1

\* Concurrent first calls for a pair share one binding.
OneBinding == \A p \in Pairs : built[p] <= 1

\* No subscriber can hold up a broadcast, received from or not.
BroadcastEnds == \A s \in Subs : frames[s] # <<>> ~> (frames[s] = <<>> \/ crash # "none")

\* "SubscribeToPrice subscribes to real-time price updates for a specific
\* pair" (service.go:88): once its calls have returned, a pair with a
\* subscription has a handler.
ActiveWatched ==
    \A p \in Pairs :
        /\ \A s \in CallsOf(p) : spc[s] \in {"lookup", "active", "failed", "closed"}
        /\ \E s \in CallsOf(p) : spc[s] = "active"
        => \E s \in CallsOf(p) : wpc[s] \notin {"none", "ended"}
=============================================================================
