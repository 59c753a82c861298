--------------------------- MODULE PriceFeed_proofs ---------------------------
(* One binding per pair, and rollbacks that never find an empty list, for   *)
(* any number of pairs, calls, events and faults.                          *)
EXTENDS PriceFeed, FiniteSetTheorems, SequenceTheorems, TLAPS

-----------------------------------------------------------------------------
(* OneBinding is inductive with what makes a binding new.                  *)

BindingInv ==
    /\ built \in [Pairs -> Nat] /\ bindings \subseteq Pairs
    /\ \A p \in Pairs : built[p] <= 1 /\ (p \notin bindings => built[p] = 0)

\* Every step keeps BindingInv: only Bind makes a binding, and it looks again.
LEMMA BindingStep == BindingInv /\ [Next]_vars => BindingInv'
<1> SUFFICES ASSUME BindingInv, [Next]_vars PROVE BindingInv'
  OBVIOUS
<1> USE FeedAssumption DEF BindingInv
<1>1. ASSUME NEW s \in Subs, Bind(s) PROVE BindingInv'
  BY <1>1 DEF Bind
<1>2. ASSUME NEW reason, Panic(reason) PROVE BindingInv'
  BY <1>2 DEF Panic
<1>3. CASE UNCHANGED <<bindings, built>>
  BY <1>3
<1>4. ASSUME NEW s \in Subs, CallStep(s), ~Bind(s)
      PROVE  UNCHANGED <<bindings, built>> \/ \E reason : Panic(reason)
  BY <1>4 DEF CallStep, Lookup, Add, InitialPrice, Check, MapRace, Watch, Undo
<1>5. ASSUME NEW s \in Subs, HandlerStep(s) \/ EventStep(s) \/ Unsubscribe(s) \/ Receive(s)
      PROVE  UNCHANGED <<bindings, built>> \/ \E reason : Panic(reason)
  BY <1>5 DEF HandlerStep, EventStep, GiveUp, Resubscribe, SyncPrice, Send, Sent,
     SubscriptionError, SubscriptionClosed, SyncEvent, Unsubscribe, Receive
<1> QED
  BY <1>1, <1>2, <1>3, <1>4, <1>5 DEF Next, vars

\* However many first calls for a pair overlap, getPair makes one binding.
THEOREM BindingsAreShared == Spec => []OneBinding
<1>1. Init => BindingInv
  BY DEF Init, BindingInv
<1>2. BindingInv => OneBinding
  BY DEF BindingInv, OneBinding
<1> QED
  BY <1>1, <1>2, BindingStep, PTL DEF Spec

-----------------------------------------------------------------------------
(* The length of a list against the calls that count on an element of it.  *)

HeldInv ==
    /\ spc \in [Subs -> {"lookup", "bind", "add", "price", "check", "watch", "undo",
                         "active", "failed", "closed"}]
    /\ subs \in [Pairs -> [arr : Subs \cup {None}, len : Nat]]
    /\ RollbackInBounds

\* The calls counted are finitely many.
LEMMA HeldFinite == ASSUME NEW p PROVE IsFiniteSet(Held(p)) /\ Cardinality(Held(p)) \in Nat
<1>1. Held(p) \subseteq Subs
  BY DEF Held, CallsOf
<1> QED
  BY <1>1, FeedAssumption, FS_Subset, FS_CardinalityType

\* A step that changes neither lists nor who counts on them keeps HeldInv.
LEMMA HeldFrame ==
    ASSUME HeldInv, crash' # "bounds", UNCHANGED subs,
           spc' \in [Subs -> {"lookup", "bind", "add", "price", "check", "watch", "undo",
                              "active", "failed", "closed"}],
           \A p \in Pairs : Held(p)' = Held(p)
    PROVE  HeldInv'
BY DEF HeldInv, RollbackInBounds

\* A process that has ended has empty lists and no calls.
LEMMA HeldPanic ==
    ASSUME NEW reason, reason # "bounds", Panic(reason)
    PROVE  HeldInv'
<1>1. \A p \in Pairs : Held(p)' = {}
  BY DEF Panic, Held, CallsOf
<1>2. Cardinality({}) = 0
  BY FS_EmptySet
<1> QED
  BY <1>1, <1>2 DEF HeldInv, RollbackInBounds, Panic, Nil

\* append makes the list longer by the one call that starts to count on it.
LEMMA HeldAdd ==
    ASSUME HeldInv, crash = "none", NEW s \in Subs, Add(s)
    PROVE  HeldInv'
<1> DEFINE q == PairOf[s]
<1>0. q \in Pairs
  BY FeedAssumption
<1>1. s \notin Held(q) /\ Held(q)' = Held(q) \cup {s}
  BY DEF HeldInv, Add, Held, CallsOf
<1>2. Cardinality(Held(q)') = Cardinality(Held(q)) + 1
  <2>1. IsFiniteSet(Held(q))
    BY HeldFinite
  <2>2. Cardinality(Held(q) \cup {s}) = Cardinality(Held(q)) + 1
    BY <1>1, <2>1, FS_AddElement
  <2> QED
    BY <1>1, <2>2
<1>3. subs'[q].len = subs[q].len + 1
  BY <1>0 DEF HeldInv, Add
<1>4. \A p \in Pairs \ {q} : Held(p)' = Held(p) /\ subs'[p] = subs[p]
  BY DEF HeldInv, Add, Held, CallsOf
<1>5. HeldInv!1'
  BY DEF HeldInv, Add
<1> DEFINE h == IF subs[q].len < Cap(subs[q]) THEN [subs[q] EXCEPT !.len = @ + 1]
                ELSE [arr |-> s, len |-> subs[q].len + 1]
<1>6. h \in [arr : Subs \cup {None}, len : Nat]
  BY <1>0 DEF HeldInv
<1>7. subs' = [subs EXCEPT ![q] = h]
  BY <1>0 DEF HeldInv, Add
<1>8. HeldInv!2'
  <2> HIDE DEF h, q
  <2> QED
    BY <1>0, <1>6, <1>7 DEF HeldInv
<1>9. \A p \in Pairs : Cardinality(Held(p)') <= subs'[p].len
  BY <1>0, <1>2, <1>3, <1>4, HeldFinite DEF HeldInv, RollbackInBounds
<1> QED
  BY <1>5, <1>9, <1>8 DEF HeldInv, RollbackInBounds, Add

\* A call that gives up or unsubscribes takes at most one element away, and no
\* longer counts on one.
LEMMA HeldDrop ==
    ASSUME HeldInv, NEW s \in Subs, spc[s] \in {"undo", "active"},
           NEW pc \in {"failed", "closed"}, spc' = [spc EXCEPT ![s] = pc],
           NEW h \in [arr : Subs \cup {None}, len : Nat],
           subs' = [subs EXCEPT ![PairOf[s]] = h],
           subs[PairOf[s]].len <= h.len + 1, UNCHANGED crash
    PROVE  HeldInv'
<1> DEFINE q == PairOf[s]
<1>0. q \in Pairs
  BY FeedAssumption
<1>1. s \in Held(q) /\ Held(q)' = Held(q) \ {s}
  BY DEF HeldInv, Held, CallsOf
<1>2. Cardinality(Held(q)') = Cardinality(Held(q)) - 1
  <2>1. IsFiniteSet(Held(q))
    BY HeldFinite
  <2>2. Cardinality(Held(q) \ {s}) = Cardinality(Held(q)) - 1
    BY <1>1, <2>1, FS_RemoveElement
  <2> QED
    BY <1>1, <2>2
<1>3. subs'[q].len = h.len
  BY <1>0 DEF HeldInv
<1>4. \A p \in Pairs \ {q} : Held(p)' = Held(p) /\ subs'[p] = subs[p]
  BY DEF HeldInv, Held, CallsOf
<1>5. HeldInv!1' /\ HeldInv!2'
  BY <1>0 DEF HeldInv
<1>6. \A p \in Pairs : Cardinality(Held(p)') <= subs'[p].len
  BY <1>0, <1>2, <1>3, <1>4, HeldFinite DEF HeldInv, RollbackInBounds
<1> QED
  BY <1>5, <1>6 DEF HeldInv, RollbackInBounds

\* A call counts on an element when it rolls back: the list is not empty.
LEMMA HeldUndo ==
    ASSUME HeldInv, crash = "none", NEW s \in Subs, Undo(s)
    PROVE  HeldInv'
<1> DEFINE q == PairOf[s]
<1>0. q \in Pairs
  BY FeedAssumption
<1>1. s \in Held(q)
  BY DEF Undo, Held, CallsOf
<1>2. Cardinality(Held(q)) # 0
  BY <1>1, HeldFinite, FS_EmptySet
<1>3. subs[q].len > 0
  BY <1>0, <1>2, HeldFinite DEF HeldInv, RollbackInBounds
<1>4. /\ subs' = [subs EXCEPT ![q].len = @ - 1]
      /\ spc' = [spc EXCEPT ![s] = "failed"] /\ UNCHANGED crash
  BY <1>3 DEF Undo
<1>5. spc[s] = "undo"
  BY DEF Undo
<1> DEFINE h == [subs[q] EXCEPT !.len = @ - 1]
<1>6. /\ h \in [arr : Subs \cup {None}, len : Nat] /\ h.len = subs[q].len - 1
      /\ subs' = [subs EXCEPT ![q] = h]
  BY <1>0, <1>3, <1>4 DEF HeldInv
<1>7. subs[q].len <= h.len + 1
  BY <1>0, <1>6 DEF HeldInv
<1> QED
  BY <1>4, <1>5, <1>6, <1>7, HeldDrop

\* Unsubscribe removes its own element, or none.
LEMMA HeldUnsubscribe ==
    ASSUME HeldInv, crash = "none", NEW s \in Subs, Unsubscribe(s)
    PROVE  HeldInv'
<1> DEFINE q == PairOf[s]
           mine == {i \in 1..subs[q].len : At(subs[q], i) = s}
           rest == IF mine = {} THEN subs[q].len ELSE subs[q].len - 1
           h == IF rest = 0 THEN Nil ELSE [subs[q] EXCEPT !.len = rest]
<1>0. q \in Pairs /\ subs[q] \in [arr : Subs \cup {None}, len : Nat]
  BY FeedAssumption DEF HeldInv
<1>1. /\ spc[s] = "active" /\ spc' = [spc EXCEPT ![s] = "closed"]
      /\ subs' = [subs EXCEPT ![q] = h] /\ UNCHANGED crash
  BY DEF Unsubscribe
<1>2. mine # {} => subs[q].len >= 1
  BY <1>0
<1>3. rest \in Nat /\ subs[q].len <= rest + 1
  BY <1>0, <1>2
<1>4. h \in [arr : Subs \cup {None}, len : Nat] /\ h.len = rest
  BY <1>0, <1>3 DEF Nil
<1> HIDE DEF h, rest, mine
<1> QED
  BY <1>1, <1>3, <1>4, HeldDrop

\* Every step keeps HeldInv.
LEMMA HeldStep == HeldInv /\ [Next]_vars => HeldInv'
<1> SUFFICES ASSUME HeldInv, [Next]_vars PROVE HeldInv'
  OBVIOUS
<1>0. ASSUME UNCHANGED <<spc, subs, crash>> PROVE HeldInv'
  BY <1>0 DEF HeldInv, RollbackInBounds, Held, CallsOf
<1>1. ASSUME NEW s \in Subs, crash = "none", CallStep(s) PROVE HeldInv'
  <2>1. CASE Lookup(s) \/ Bind(s) \/ InitialPrice(s) \/ Check(s) \/ Watch(s)
    <3>1. UNCHANGED <<subs, crash>>
      BY <2>1 DEF Lookup, Bind, InitialPrice, Check, Watch, lists
    <3>2. spc' \in [Subs -> {"lookup", "bind", "add", "price", "check", "watch", "undo",
                             "active", "failed", "closed"}]
      BY <2>1 DEF HeldInv, Lookup, Bind, InitialPrice, Check, Watch
    <3>3. ASSUME NEW p \in Pairs PROVE Held(p)' = Held(p)
      BY <2>1 DEF HeldInv, Lookup, Bind, InitialPrice, Check, Watch, Held, CallsOf
    <3> QED
      BY <1>1, <3>1, <3>2, <3>3, HeldFrame
  <2>2. CASE Add(s)
    BY <1>1, <2>2, HeldAdd
  <2>3. CASE MapRace(s)
    BY <2>3, HeldPanic DEF MapRace
  <2>4. CASE Undo(s)
    BY <1>1, <2>4, HeldUndo
  <2> QED
    BY <1>1, <2>1, <2>2, <2>3, <2>4 DEF CallStep
<1>2. ASSUME NEW s \in Subs, HandlerStep(s) \/ EventStep(s) \/ Receive(s) PROVE HeldInv'
  <2>1. UNCHANGED <<spc, subs, crash>> \/ Panic("send")
    BY <1>2 DEF HandlerStep, EventStep, GiveUp, Resubscribe, SyncPrice, Send, Sent,
       SubscriptionError, SubscriptionClosed, SyncEvent, Receive, lists
  <2> QED
    BY <1>0, <2>1, HeldPanic
<1> QED
  BY <1>0, <1>1, <1>2, HeldUnsubscribe DEF Next, vars, lists

\* A failing SubscribeToPrice, although it may take another call's element
\* away, never slices an empty list: the rollback cannot panic.
THEOREM RollbacksAreSafe == Spec => []RollbackInBounds
<1>1. Init => HeldInv
  <2> SUFFICES ASSUME Init PROVE HeldInv
    OBVIOUS
  <2>1. \A p \in Pairs : Held(p) = {}
    BY DEF Init, Held, CallsOf
  <2>2. \A p \in Pairs : Cardinality(Held(p)) = 0
    BY <2>1, FS_EmptySet
  <2> QED
    BY <2>2 DEF Init, HeldInv, RollbackInBounds, Nil
<1>2. HeldInv => RollbackInBounds
  BY DEF HeldInv
<1> QED
  BY <1>1, <1>2, HeldStep, PTL DEF Spec

-----------------------------------------------------------------------------
(* Types and the elements of the lists.  That a slice lies within its array  *)
(* takes to know whose the arrays are: an append that allocates must not     *)
(* take an array in use.                                                     *)

Phases == {"lookup", "bind", "add", "price", "check", "watch", "undo",
           "active", "failed", "closed"}

Header == [arr : Subs \cup {None}, len : Nat]

\* s has appended its subscription.
Past(s) == spc[s] \notin {"lookup", "bind", "add"}

\* A list is in an array that one of its own calls has allocated.
ArrayOwn(p) == subs[p].arr # None => subs[p].arr \in CallsOf(p) /\ Past(subs[p].arr)

\* Its elements are calls of the pair, each once, and none is closed.
Elements(p) ==
    \A i \in 1..subs[p].len :
        /\ At(subs[p], i) \in CallsOf(p) /\ Past(At(subs[p], i))
        /\ spc[At(subs[p], i)] # "closed"
        /\ \A j \in 1..subs[p].len : At(subs[p], i) = At(subs[p], j) => i = j

\* A handler that backs off has an attempt left.
AttemptLeft == \A s \in Subs : wpc[s] = "backoff" => attempts[s] < MaxAttempts

FeedInv == TypeOK /\ AttemptLeft /\ \A p \in Pairs : ArrayOwn(p) /\ Elements(p)

\* The parts of TypeOK about the calls, about the lists and about handlers.
CallTypes ==
    /\ spc \in [Subs -> Phases]
    /\ bindings \subseteq Pairs /\ built \in [Pairs -> Nat]
    /\ queued \in [Subs -> 0..Buffer]
    /\ crash \in {"none", "map", "bounds", "send"} /\ faults \in 0..MaxFaults

ListTypes ==
    /\ subs \in [Pairs -> Header] /\ cells \in [Subs -> Seq(Subs \cup {None})]
    /\ \A p \in Pairs : subs[p].len <= Cap(subs[p])

HandlerTypes ==
    /\ wpc \in [Subs -> {"none", "select", "backoff", "giveup", "price", "ended"}]
    /\ up \in [Subs -> BOOLEAN] /\ buffered \in [Subs -> BOOLEAN]
    /\ attempts \in [Subs -> 0..MaxAttempts]
    /\ frames \in [Subs -> Seq(Frame)]
    /\ events \in 0..MaxEvents
    /\ AttemptLeft

\* These parts are TypeOK.
LEMMA TypeParts ==
    /\ TypeOK /\ AttemptLeft <=> CallTypes /\ ListTypes /\ HandlerTypes
    /\ (TypeOK /\ AttemptLeft)' <=> (CallTypes /\ ListTypes /\ HandlerTypes)'
BY DEF TypeOK, CallTypes, ListTypes, HandlerTypes, Phases, Header

\* A panic leaves the state of a process that has not begun.
LEMMA FeedPanic ==
    ASSUME NEW reason \in {"map", "bounds", "send"}, Panic(reason)
    PROVE  FeedInv'
<1> USE FeedAssumption
<1>1. CallTypes'
  BY DEF Panic, CallTypes, Phases, Zero
<1>2. ListTypes'
  <2>1. <<>> \in Seq(Subs \cup {None})
    BY EmptySeq
  <2>2. Nil \in Header /\ Nil.len = 0 /\ Nil.arr = None
    BY DEF Nil, Header
  <2>3. subs' = [p \in Pairs |-> Nil] /\ cells' = [s \in Subs |-> <<>>]
    BY DEF Panic, NoCells
  <2> QED
    BY <2>1, <2>2, <2>3 DEF ListTypes, Cap
<1>3. HandlerTypes'
  <2>1. <<>> \in Seq(Frame)
    BY EmptySeq
  <2> QED
    BY <2>1 DEF Panic, HandlerTypes, AttemptLeft, Zero, NoFrames
<1>4. ASSUME NEW p \in Pairs PROVE ArrayOwn(p)' /\ Elements(p)'
  BY DEF Panic, Nil, ArrayOwn, Elements
<1> QED
  BY <1>1, <1>2, <1>3, <1>4, TypeParts DEF FeedInv

\* A failed call to the node is counted up to the bound.
LEMMA CountType ==
    ASSUME faults \in 0..MaxFaults, NEW ok \in Outcomes, Count(ok)
    PROVE  ok \in BOOLEAN /\ faults' \in 0..MaxFaults
<1>1. CASE ok = TRUE
  BY <1>1 DEF Count
<1>2. CASE ok = FALSE
  <2>1. faults < MaxFaults
    BY <1>2, Zenon DEF Outcomes
  <2>2. faults' = faults + 1
    BY <1>2 DEF Count
  <2>3. faults' \in 0..MaxFaults
    BY <2>1, <2>2, FeedAssumption
  <2> QED
    BY <1>2, <2>3
<1> QED
  BY <1>1, <1>2 DEF Outcomes

\* Calls move between their phases; a channel takes what it has room for.
LEMMA CallTypeStep ==
    ASSUME FeedInv, NEW s \in Subs, crash = "none",
           \/ CallStep(s) \/ HandlerStep(s) \/ EventStep(s) \/ Unsubscribe(s) \/ Receive(s)
    PROVE  CallTypes' \/ \E reason \in {"map", "bounds", "send"} : Panic(reason)
<1> USE FeedAssumption DEF CallTypes, Phases, lists, handlers
<1>0. CallTypes
  BY TypeParts DEF FeedInv
<1>1. CASE Lookup(s) \/ Bind(s)
  BY <1>0, <1>1 DEF Lookup, Bind
<1>2. CASE Add(s)
  BY <1>0, <1>2 DEF Add
<1>3. CASE InitialPrice(s)
  <2>1. PICK ok \in Outcomes :
           /\ Count(ok) /\ UNCHANGED <<bindings, built, crash>>
           /\ spc' = [spc EXCEPT ![s] = IF ok THEN "check" ELSE "undo"]
           /\ queued' = IF ok /\ queued[s] < Buffer THEN [queued EXCEPT ![s] = @ + 1]
                        ELSE queued
    BY <1>3 DEF InitialPrice
  <2>2. queued' \in [Subs -> 0..Buffer]
    BY <1>0, <2>1
  <2> QED
    BY <1>0, <2>1, <2>2, CountType
<1>4. CASE Check(s) \/ MapRace(s)
  BY <1>0, <1>4 DEF Check, MapRace
<1>5. CASE Watch(s)
  <2>1. PICK ok \in Outcomes :
           /\ Count(ok) /\ UNCHANGED <<bindings, built, queued, crash>>
           /\ spc' \in {[spc EXCEPT ![s] = "active"], [spc EXCEPT ![s] = "undo"]}
    BY <1>5 DEF Watch
  <2> QED
    BY <1>0, <2>1, CountType
<1>6. CASE Undo(s)
  BY <1>0, <1>6 DEF Undo
<1>7. CASE Unsubscribe(s)
  BY <1>0, <1>7 DEF Unsubscribe
<1>8. CASE Receive(s)
  BY <1>0, <1>8 DEF Receive
<1>9. CASE EventStep(s)
  BY <1>0, <1>9 DEF EventStep, SubscriptionError, SubscriptionClosed, SyncEvent
<1>10. CASE GiveUp(s) \/ Sent(s)
  BY <1>0, <1>10 DEF GiveUp, Sent
<1>11. CASE Resubscribe(s) \/ SyncPrice(s)
  <2>1. UNCHANGED <<spc, bindings, built, queued, crash>> /\ \E ok \in Outcomes : Count(ok)
    BY <1>11 DEF Resubscribe, SyncPrice
  <2> QED
    BY <1>0, <2>1, CountType
<1>12. CASE Send(s)
  <2> DEFINE t == At(frames[s][Len(frames[s])], frames[s][Len(frames[s])].next)
  <2>1. \/ Panic("send")
        \/ /\ UNCHANGED <<spc, bindings, built, crash, faults>>
           /\ queued' = queued \/ (queued[t] < Buffer /\ queued' = [queued EXCEPT ![t] = @ + 1])
    BY <1>12 DEF Send
  <2> HIDE DEF t
  <2>2. Panic("send") \/ queued' \in [Subs -> 0..Buffer]
    BY <1>0, <2>1
  <2> QED
    BY <1>0, <2>1, <2>2
<1> QED
  BY <1>1, <1>2, <1>3, <1>4, <1>5, <1>6, <1>7, <1>8, <1>9, <1>10, <1>11, <1>12
     DEF CallStep, HandlerStep

\* A broadcast is of the list of a pair.
LEMMA BroadcastType ==
    ASSUME ListTypes, NEW s \in Subs, NEW kind \in {"price", "error", "info", "warning"}
    PROVE  Broadcast(s, kind) \in Frame /\ <<Broadcast(s, kind)>> \in Seq(Frame)
<1>1. Broadcast(s, kind) \in Frame
  BY FeedAssumption DEF ListTypes, Header, Broadcast, Frame
<1> QED
  BY <1>1

\* Handlers keep their types, and an attempt is made only where one is left.
LEMMA HandlerTypeStep ==
    ASSUME FeedInv, NEW s \in Subs, crash = "none",
           \/ CallStep(s) \/ HandlerStep(s) \/ EventStep(s) \/ Unsubscribe(s) \/ Receive(s)
    PROVE  HandlerTypes' \/ \E reason \in {"map", "bounds", "send"} : Panic(reason)
<1> USE FeedAssumption DEF HandlerTypes, AttemptLeft, lists, handlers
<1>0. HandlerTypes /\ ListTypes
  BY TypeParts DEF FeedInv
<1>1. CASE CallStep(s) /\ ~Watch(s)
  BY <1>0, <1>1 DEF CallStep, Lookup, Bind, Add, InitialPrice, Check, MapRace, Undo
<1>2. CASE Watch(s)
  BY <1>0, <1>2 DEF Watch
<1>3. CASE Unsubscribe(s) \/ Receive(s)
  BY <1>0, <1>3 DEF Unsubscribe, Receive
<1>4. CASE SubscriptionError(s)
  BY <1>0, <1>4, BroadcastType DEF SubscriptionError, Selecting, AttemptsSpent
<1>5. CASE SubscriptionClosed(s) \/ SyncEvent(s)
  <2>1. events' \in 0..MaxEvents
    BY <1>0, <1>5 DEF SubscriptionClosed, SyncEvent, Selecting
  <2>2. CASE SubscriptionClosed(s)
    BY <1>0, <2>1, <2>2 DEF SubscriptionClosed
  <2>3. CASE SyncEvent(s)
    BY <1>0, <2>1, <2>3 DEF SyncEvent
  <2> QED
    BY <1>5, <2>2, <2>3
<1>6. CASE GiveUp(s)
  BY <1>0, <1>6, BroadcastType DEF GiveUp
<1>7. CASE Resubscribe(s)
  <2>1. PICK ok \in Outcomes :
           /\ Count(ok)
           /\ up' = [up EXCEPT ![s] = ok]
           /\ buffered' = [buffered EXCEPT ![s] = @ \/ ok]
           /\ frames' = [frames EXCEPT ![s] = <<Broadcast(s, IF ok THEN "info" ELSE "error")>>]
    BY <1>7 DEF Resubscribe
  <2>2. ok \in BOOLEAN
    BY <2>1 DEF Outcomes
  <2>3. frames' \in [Subs -> Seq(Frame)]
    <3>1. <<Broadcast(s, IF ok THEN "info" ELSE "error")>> \in Seq(Frame)
      BY <1>0, BroadcastType
    <3> QED
      BY <1>0, <2>1, <3>1
  <2>4. up' \in [Subs -> BOOLEAN] /\ buffered' \in [Subs -> BOOLEAN]
    BY <1>0, <2>1, <2>2
  <2>5. wpc[s] = "backoff" /\ attempts' = [attempts EXCEPT ![s] = @ + 1]
        /\ wpc' = [wpc EXCEPT ![s] = "select"] /\ UNCHANGED events
    BY <1>7 DEF Resubscribe
  <2>6. attempts' \in [Subs -> 0..MaxAttempts]
    BY <1>0, <2>5
  <2> QED
    BY <1>0, <2>3, <2>4, <2>5, <2>6
<1>8. CASE SyncPrice(s)
  BY <1>0, <1>8, BroadcastType DEF SyncPrice
<1>9. CASE Send(s)
  <2> DEFINE n == Len(frames[s])
             visited == [frames[s] EXCEPT ![n].next = @ + 1]
  <2>1. visited \in Seq(Frame)
    <3>1. frames[s] \in Seq(Frame) /\ n \in Nat /\ n > 0
      BY <1>0, <1>9 DEF Send
    <3>2. frames[s][n] \in Frame
      BY <3>1, ElementOfSeq
    <3>3. [frames[s][n] EXCEPT !.next = @ + 1] \in Frame
      <4>1. ASSUME NEW top \in Frame PROVE [top EXCEPT !.next = @ + 1] \in Frame
        BY DEF Frame
      <4> HIDE DEF n
      <4> QED
        BY <3>2, <4>1
    <3> QED
      BY <3>1, <3>3, ExceptSeq
  <2>2. Append(visited, Broadcast(s, "warning")) \in Seq(Frame)
    BY <1>0, <2>1, BroadcastType, AppendProperties
  <2> HIDE DEF visited, n
  <2>3. UNCHANGED <<wpc, up, buffered, attempts, events>> \/ Panic("send")
    BY <1>9 DEF Send
  <2>4. \/ Panic("send")
        \/ frames' = [frames EXCEPT ![s] = visited]
        \/ frames' = [frames EXCEPT ![s] = Append(visited, Broadcast(s, "warning"))]
    BY <1>9 DEF Send, visited, n
  <2>5. Panic("send") \/ frames' \in [Subs -> Seq(Frame)]
    <3>1. frames \in [Subs -> Seq(Frame)]
      BY <1>0
    <3> HIDE DEF HandlerTypes
    <3> QED
      BY <2>1, <2>2, <2>4, <3>1
  <2> QED
    BY <1>0, <2>3, <2>5
<1>10. CASE Sent(s)
  <2>1. frames[s] \in Seq(Frame) /\ Len(frames[s]) \in Nat /\ Len(frames[s]) > 0
    BY <1>0, <1>10 DEF Sent
  <2>2. SubSeq(frames[s], 1, Len(frames[s]) - 1) \in Seq(Frame)
    BY <2>1, SubSeqProperties
  <2> QED
    BY <1>0, <1>10, <2>2 DEF Sent
<1> QED
  BY <1>1, <1>2, <1>3, <1>4, <1>5, <1>6, <1>7, <1>8, <1>9, <1>10
     DEF HandlerStep, EventStep

\* What is claimed of the list of a pair.
ListGood(p) ==
    /\ subs[p] \in Header /\ subs[p].len <= Cap(subs[p])
    /\ ArrayOwn(p) /\ Elements(p)

\* FeedInv in the parts that its steps keep.
LEMMA FeedParts ==
    /\ FeedInv => CallTypes /\ HandlerTypes /\ ListTypes /\ \A p \in Pairs : ListGood(p)
    /\ /\ CallTypes' /\ HandlerTypes' /\ cells' \in [Subs -> Seq(Subs \cup {None})]
       /\ subs' \in [Pairs -> Header] /\ \A p \in Pairs : ListGood(p)'
       => FeedInv'
<1>1. FeedInv => CallTypes /\ HandlerTypes /\ ListTypes /\ \A p \in Pairs : ListGood(p)
  BY TypeParts DEF FeedInv, ListTypes, ListGood
<1>2. /\ CallTypes' /\ HandlerTypes' /\ cells' \in [Subs -> Seq(Subs \cup {None})]
      /\ subs' \in [Pairs -> Header] /\ \A p \in Pairs : ListGood(p)'
      => FeedInv'
  BY TypeParts DEF FeedInv, ListTypes, ListGood
<1> QED
  BY <1>1, <1>2

\* The elements of a list that lies within its array.
LEMMA AtType ==
    ASSUME ListTypes, NEW p \in Pairs, subs[p].len > 0
    PROVE  /\ subs[p].arr \in Subs /\ subs[p].arr # None /\ subs[p].len \in Nat
           /\ subs[p].len <= Len(cells[subs[p].arr])
           /\ cells[subs[p].arr] \in Seq(Subs \cup {None})
BY FeedAssumption DEF ListTypes, Header, Cap

\* The calls of p only go forward, and none of them closes.
Onward(p) ==
    \A s \in CallsOf(p) : /\ Past(s) => Past(s)'
                          /\ Past(s) /\ spc[s] # "closed" => spc'[s] # "closed"

\* A list that is not written stays good.
LEMMA ListKept ==
    ASSUME ListTypes, NEW p \in Pairs, Onward(p), ListGood(p), subs'[p] = subs[p],
           subs[p].arr # None => cells'[subs[p].arr] = cells[subs[p].arr]
    PROVE  ListGood(p)' /\ Listed(p)' = Listed(p)
<1> USE FeedAssumption
<1>1. ASSUME NEW i \in 1..subs[p].len PROVE At(subs[p], i)' = At(subs[p], i)
  BY AtType DEF At, ListTypes, Header
<1>2. subs'[p] \in Header /\ subs'[p].len <= Cap(subs[p])'
  BY DEF ListGood, Cap
<1>3. ArrayOwn(p)'
  BY DEF ListGood, ArrayOwn, Onward, CallsOf
<1>4. Elements(p)'
  BY <1>1 DEF ListGood, Elements, Onward, CallsOf
<1>5. Listed(p)' = Listed(p)
  BY <1>1 DEF Listed
<1> QED
  BY <1>2, <1>3, <1>4, <1>5 DEF ListGood

\* A list that a call appends to stays good.
LEMMA Appended ==
    ASSUME FeedInv, NEW q \in Pairs, Onward(q), NEW s \in CallsOf(q), spc[s] = "add",
           spc'[s] = "price", subs'[q].len = subs[q].len + 1,
           subs'[q].arr \in CallsOf(q), Past(subs'[q].arr) \/ subs'[q].arr = s,
           subs'[q] \in Header, subs'[q].len <= Cap(subs[q])',
           \A i \in 1..subs[q].len : cells'[subs'[q].arr][i] = At(subs[q], i),
           cells'[subs'[q].arr][subs[q].len + 1] = s
    PROVE  ListGood(q)' /\ Listed(q)' = Listed(q) \cup {s}
<1> DEFINE n == subs[q].len
<1>0. ListGood(q) /\ n \in Nat
  BY FeedParts DEF ListTypes, Header
<1>1. ASSUME NEW i \in 1..n PROVE At(subs[q], i)' = At(subs[q], i)
  BY <1>1 DEF At
<1>2. ASSUME NEW i, i = n + 1 PROVE At(subs[q], i)' = s
  BY <1>2 DEF At
<1>3. 1..(n + 1) = (1..n) \cup {n + 1}
  BY <1>0
<1>4. Listed(q)' = Listed(q) \cup {s}
  <2>1. Listed(q)' = {At(subs[q], i)' : i \in 1..(n + 1)}
    BY DEF Listed
  <2> QED
    BY <1>1, <1>2, <1>3, <2>1 DEF Listed
<1>5. ArrayOwn(q)'
  BY DEF ArrayOwn, CallsOf, Onward, Past
<1>6. Elements(q)'
  <2> SUFFICES ASSUME NEW i \in 1..n + 1
               PROVE  /\ At(subs[q], i)' \in CallsOf(q) /\ Past(At(subs[q], i))'
                      /\ spc'[At(subs[q], i)'] # "closed"
                      /\ \A j \in 1..n + 1 : At(subs[q], i)' = At(subs[q], j)' => i = j
    BY DEF Elements, CallsOf
  <2>1. s \in CallsOf(q) /\ ~Past(s) /\ Past(s)' /\ spc'[s] # "closed"
    BY DEF Past
  <2>2. \A j \in 1..n : /\ At(subs[q], j) \in CallsOf(q) /\ At(subs[q], j) \in Subs
                        /\ Past(At(subs[q], j)) /\ spc[At(subs[q], j)] # "closed"
                        /\ \A k \in 1..n : At(subs[q], j) = At(subs[q], k) => j = k
    BY <1>0 DEF ListGood, Elements, CallsOf
  <2> HIDE DEF n
  <2> QED
    BY <1>1, <1>2, <1>3, <2>1, <2>2 DEF Onward
<1> QED
  BY <1>4, <1>5, <1>6 DEF ListGood

\* append in place writes the first cell behind the list; else it copies the
\* list into an array of its own.  No other list is in either array.
LEMMA AddStep ==
    ASSUME FeedInv, NEW s \in Subs, Add(s)
    PROVE  /\ cells' \in [Subs -> Seq(Subs \cup {None})] /\ subs' \in [Pairs -> Header]
           /\ \A p \in Pairs : ListGood(p)'
           /\ \A p \in Pairs \ {PairOf[s]} : Listed(p)' = Listed(p) /\ subs'[p] = subs[p]
           /\ Listed(PairOf[s])' = Listed(PairOf[s]) \cup {s}
           /\ subs'[PairOf[s]].len = subs[PairOf[s]].len + 1
<1> DEFINE q == PairOf[s]
           h == subs[q]
           n == h.len
<1>0. /\ ListTypes /\ (\A p \in Pairs : ListGood(p)) /\ CallTypes
      /\ q \in Pairs /\ s \in CallsOf(q) /\ s # None
      /\ h \in Header /\ n \in Nat /\ n <= Cap(h) /\ Cap(h) \in Nat
  <2>1. /\ ListTypes /\ (\A p \in Pairs : ListGood(p)) /\ CallTypes
        /\ q \in Pairs /\ s \in CallsOf(q) /\ s # None /\ h \in Header /\ n <= Cap(h)
    BY FeedParts, FeedAssumption DEF CallsOf, ListTypes
  <2>2. h.arr # None => Len(cells[h.arr]) \in Nat
    BY <2>1, LenProperties DEF ListTypes, Header
  <2> QED
    BY <2>1, <2>2 DEF Header, Cap
<1>1. /\ spc[s] = "add" /\ spc'[s] = "price" /\ \A t \in Subs \ {s} : spc'[t] = spc[t]
  BY <1>0 DEF Add, CallTypes
<1>2. \A p \in Pairs : Onward(p)
  BY <1>1 DEF Onward, CallsOf, Past
<1>3. PICK a \in CallsOf(q), c \in Seq(Subs \cup {None}) :
         /\ cells' = [cells EXCEPT ![a] = c]
         /\ subs' = [subs EXCEPT ![q] = [arr |-> a, len |-> n + 1]]
         /\ a = s \/ (a = h.arr /\ Past(a))
         /\ n + 1 <= Len(c) /\ c[n + 1] = s
         /\ \A i \in 1..n : c[i] = At(h, i)
  <2>1. CASE n < Cap(h)
    <3> DEFINE a == h.arr
               c == [cells[a] EXCEPT ![n + 1] = s]
    <3>1. a \in CallsOf(q) /\ Past(a) /\ Len(cells[a]) = Cap(h)
          /\ cells[a] \in Seq(Subs \cup {None})
      BY <1>0, <2>1 DEF Cap, ListGood, ArrayOwn, ListTypes, Header
    <3>2. n + 1 \in 1..Len(cells[a])
      BY <1>0, <2>1, <3>1
    <3>3. c \in Seq(Subs \cup {None}) /\ Len(c) = Len(cells[a])
          /\ \A i \in 1..Len(cells[a]) : c[i] = IF i = n + 1 THEN s ELSE cells[a][i]
      BY <3>1, <3>2, ExceptSeq
    <3>4. cells' = [cells EXCEPT ![a] = c]
          /\ subs' = [subs EXCEPT ![q] = [arr |-> a, len |-> n + 1]]
      <4>1. subs[q] = [arr |-> a, len |-> n]
        BY <1>0 DEF Header
      <4> QED
        BY <1>0, <2>1, <4>1 DEF Add, ListTypes
    <3> HIDE DEF c
    <3>5. c[n + 1] = s
      BY <3>2, <3>3
    <3>6. ASSUME NEW i \in 1..n PROVE c[i] = At(h, i)
      <4>1. i \in 1..Len(cells[a]) /\ i # n + 1
        BY <1>0, <3>2
      <4> QED
        BY <3>3, <4>1 DEF At
    <3>7. a \in CallsOf(q) /\ (a = s \/ (a = h.arr /\ Past(a))) /\ n + 1 <= Len(c)
      BY <3>1, <3>2, <3>3
    <3> HIDE DEF a, n, h
    <3> QED
      BY <3>3, <3>4, <3>5, <3>6, <3>7
  <2>2. CASE ~(n < Cap(h))
    <3> DEFINE m == IF Cap(h) = 0 THEN 1 ELSE 2 * Cap(h)
               c == [i \in 1..m |-> IF i <= n THEN At(h, i)
                                    ELSE IF i = n + 1 THEN s ELSE None]
    <3>1. m \in Nat /\ n + 1 <= m
      BY <1>0, <2>2
    <3>2. ASSUME NEW i \in 1..n PROVE At(h, i) \in Subs \cup {None}
      BY <1>0 DEF ListGood, Elements, CallsOf
    <3>3. c \in Seq(Subs \cup {None}) /\ Len(c) = m
      <4>1. \A i \in 1..m : c[i] \in Subs \cup {None}
        BY <1>0, <3>2
      <4> HIDE DEF m
      <4> QED
        BY <3>1, <4>1, IsASeq
    <3>4. cells' = [cells EXCEPT ![s] = c]
          /\ subs' = [subs EXCEPT ![q] = [arr |-> s, len |-> n + 1]]
      BY <2>2 DEF Add
    <3>5. c[n + 1] = s /\ \A i \in 1..n : c[i] = At(h, i)
      <4>1. /\ n \in Nat /\ n + 1 \in 1..m /\ ~(n + 1 <= n)
            /\ \A i \in 1..n : i \in 1..m /\ i <= n
        <5> HIDE DEF m, c
        <5> QED
          BY <1>0, <3>1
      <4> HIDE DEF m
      <4>2. c[n + 1] = s
        BY <4>1
      <4>3. \A i \in 1..n : c[i] = At(h, i)
        BY <4>1
      <4> QED
        BY <4>2, <4>3
    <3> HIDE DEF c, m
    <3> QED
      BY <1>0, <3>1, <3>3, <3>4, <3>5
  <2> QED
    BY <2>1, <2>2
<1>4. /\ cells' \in [Subs -> Seq(Subs \cup {None})] /\ subs' \in [Pairs -> Header]
      /\ cells'[a] = c /\ \A b \in Subs \ {a} : cells'[b] = cells[b]
      /\ subs'[q] = [arr |-> a, len |-> n + 1] /\ a # None
      /\ \A p \in Pairs \ {q} : subs'[p] = subs[p]
  BY <1>0, <1>3, FeedAssumption DEF ListTypes, Header, CallsOf
<1>5. ASSUME NEW p \in Pairs \ {q} PROVE ListGood(p)' /\ Listed(p)' = Listed(p)
  <2>1. subs[p].arr # a
    BY <1>0, <1>3, <1>4 DEF ListGood, ArrayOwn, CallsOf
  <2>2. subs[p].arr \in Subs \cup {None}
    BY <1>0 DEF ListTypes, Header
  <2> QED
    BY <1>0, <1>2, <1>4, <2>1, <2>2, ListKept
<1>6. ListGood(q)' /\ Listed(q)' = Listed(q) \cup {s}
  <2>1. subs'[q] \in Header /\ subs'[q].len <= Cap(subs[q])'
    BY <1>0, <1>3, <1>4 DEF Cap, Header
  <2> QED
    BY <1>0, <1>1, <1>2, <1>3, <1>4, <2>1, Appended
<1> QED
  BY <1>0, <1>4, <1>5, <1>6

\* A rollback shortens the list; the array keeps what it holds.
LEMMA UndoStep ==
    ASSUME FeedInv, NEW s \in Subs, Undo(s)
    PROVE  \/ Panic("bounds")
           \/ /\ cells' \in [Subs -> Seq(Subs \cup {None})] /\ subs' \in [Pairs -> Header]
              /\ \A p \in Pairs : ListGood(p)'
              /\ \A p \in Pairs \ {PairOf[s]} : Listed(p)' = Listed(p) /\ subs'[p] = subs[p]
<1> DEFINE q == PairOf[s]
           n == subs[q].len
<1> SUFFICES ASSUME ~Panic("bounds")
             PROVE  /\ cells' \in [Subs -> Seq(Subs \cup {None})] /\ subs' \in [Pairs -> Header]
                    /\ \A p \in Pairs : ListGood(p)'
                    /\ \A p \in Pairs \ {q} : Listed(p)' = Listed(p) /\ subs'[p] = subs[p]
  OBVIOUS
<1>0. /\ ListTypes /\ (\A p \in Pairs : ListGood(p)) /\ CallTypes /\ q \in Pairs
      /\ subs[q] \in Header /\ n \in Nat
  BY FeedParts, FeedAssumption DEF ListTypes, Header
<1>1. /\ spc[s] = "undo" /\ n > 0 /\ UNCHANGED cells
      /\ subs' = [subs EXCEPT ![q].len = @ - 1]
      /\ spc' = [spc EXCEPT ![s] = "failed"]
  BY DEF Undo
<1>2. \A p \in Pairs : Onward(p)
  BY <1>0, <1>1 DEF Onward, CallsOf, Past, CallTypes
<1>3. /\ subs' \in [Pairs -> Header] /\ \A p \in Pairs \ {q} : subs'[p] = subs[p]
      /\ subs'[q].arr = subs[q].arr /\ subs'[q].len = n - 1 /\ subs'[q] \in Header
  <2> DEFINE h == [arr |-> subs[q].arr, len |-> n - 1]
  <2>1. h \in Header
    BY <1>0, <1>1 DEF Header
  <2>2. [subs[q] EXCEPT !.len = @ - 1] = h
    BY <1>0 DEF Header
  <2>3. subs' = [subs EXCEPT ![q] = h]
    BY <1>1, <2>2
  <2> QED
    BY <1>0, <2>1, <2>3 DEF ListTypes
<1>4. ASSUME NEW p \in Pairs \ {q} PROVE ListGood(p)' /\ Listed(p)' = Listed(p)
  BY <1>0, <1>1, <1>2, <1>3, ListKept
<1>5. ListGood(q)'
  <2>1. subs'[q].len <= Cap(subs[q])'
    <3>1. Cap(subs[q])' = Cap(subs[q]) /\ n <= Cap(subs[q])
      BY <1>0, <1>1, <1>3 DEF Cap, ListGood
    <3>2. Cap(subs[q]) \in Nat
      BY <1>0, LenProperties DEF Cap, ListTypes, Header
    <3> QED
      BY <1>0, <1>3, <3>1, <3>2
  <2>2. ArrayOwn(q)'
    BY <1>0, <1>2, <1>3 DEF ListGood, ArrayOwn, Onward, CallsOf
  <2>3. ASSUME NEW i \in 1..n PROVE At(subs[q], i)' = At(subs[q], i)
    BY <1>1, <1>3 DEF At
  <2>4. Elements(q)'
    BY <1>0, <1>2, <1>3, <2>3 DEF ListGood, Elements, Onward, CallsOf
  <2> QED
    BY <1>3, <2>1, <2>2, <2>4 DEF ListGood
<1> QED
  BY <1>0, <1>1, <1>3, <1>4, <1>5 DEF ListTypes

\* The cells d hold the first n elements of c but the one at k, each once.
Removed(d, c, k, n) ==
    /\ \A i \in 1..n - 1 : \A j \in 1..n - 1 : d[i] = d[j] => i = j
    /\ \A i \in 1..n - 1 : \E j \in 1..n : d[i] = c[j] /\ c[j] # c[k]
    /\ \A j \in 1..n : c[j] # c[k] => \E i \in 1..n - 1 : d[i] = c[j]

\* Unsubscribe moves the elements behind a removed one down.
LEMMA ShiftElements ==
    ASSUME NEW S, NEW c \in Seq(S), NEW n \in Nat, n <= Len(c), NEW k \in 1..n,
           \A i \in 1..n : \A j \in 1..n : c[i] = c[j] => i = j
    PROVE  /\ Shift(c, k, n) \in Seq(S) /\ Len(Shift(c, k, n)) = Len(c)
           /\ Removed(Shift(c, k, n), c, k, n)
<1> DEFINE d == Shift(c, k, n)
<1>0. Len(c) \in Nat /\ k \in Nat /\ c \in [1..Len(c) -> S]
  BY LenProperties
<1>1. d \in Seq(S) /\ Len(d) = Len(c)
  <2>1. d \in [1..Len(c) -> S]
    BY <1>0 DEF Shift
  <2> QED
    BY <1>0, <2>1 DEF Shift
<1>2. ASSUME NEW i \in 1..n - 1
      PROVE  d[i] = IF k <= i THEN c[i + 1] ELSE c[i]
  BY <1>0 DEF Shift
<1> HIDE DEF d
<1>3. ASSUME NEW i \in 1..n - 1, NEW j \in 1..n - 1, d[i] = d[j] PROVE i = j
  <2> DEFINE move(x) == IF k <= x THEN x + 1 ELSE x
  <2>1. move(i) \in 1..n /\ move(j) \in 1..n /\ d[i] = c[move(i)] /\ d[j] = c[move(j)]
    BY <1>0, <1>2
  <2>2. move(i) = move(j)
    BY <1>3, <2>1
  <2> QED
    BY <1>0, <2>2
<1>4. ASSUME NEW i \in 1..n - 1
      PROVE  \E j \in 1..n : d[i] = c[j] /\ c[j] # c[k]
  <2>1. CASE k <= i
    <3>1. i + 1 \in 1..n /\ i + 1 # k
      BY <1>0, <2>1
    <3> QED
      BY <1>2, <2>1, <3>1
  <2>2. CASE ~(k <= i)
    <3>1. i \in 1..n /\ i # k
      BY <1>0, <2>2
    <3> QED
      BY <1>2, <2>2, <3>1
  <2> QED
    BY <2>1, <2>2
<1>5. ASSUME NEW j \in 1..n, c[j] # c[k]
      PROVE  \E i \in 1..n - 1 : d[i] = c[j]
  <2>1. CASE j < k
    <3>1. j \in 1..n - 1 /\ ~(k <= j)
      BY <1>0, <2>1
    <3> QED
      BY <1>2, <3>1
  <2>2. CASE j > k
    <3>1. j - 1 \in 1..n - 1 /\ k <= j - 1 /\ (j - 1) + 1 = j
      BY <1>0, <2>2
    <3> QED
      BY <1>2, <3>1
  <2> QED
    BY <1>0, <1>5, <2>1, <2>2
<1>6. Removed(d, c, k, n)
  BY <1>3, <1>4, <1>5 DEF Removed
<1> QED
  BY <1>1, <1>6 DEF d

\* Unsubscribe takes its own element out, if the list still has it, and no
\* other: since each call is in it once, it is gone.
LEMMA UnsubscribeStep ==
    ASSUME FeedInv, NEW s \in Subs, Unsubscribe(s)
    PROVE  /\ cells' \in [Subs -> Seq(Subs \cup {None})] /\ subs' \in [Pairs -> Header]
           /\ \A p \in Pairs : ListGood(p)'
           /\ \A p \in Pairs \ {PairOf[s]} : Listed(p)' = Listed(p) /\ subs'[p] = subs[p]
           /\ Listed(PairOf[s])' = Listed(PairOf[s]) \ {s}
           /\ s \in Listed(PairOf[s]) => subs'[PairOf[s]].len = subs[PairOf[s]].len - 1
<1> DEFINE q == PairOf[s]
           h == subs[q]
           mine == {i \in 1..h.len : At(h, i) = s}
           first == CHOOSE i \in mine : \A j \in mine : i <= j
           rest == IF mine = {} THEN h.len ELSE h.len - 1
           k == IF rest = 0 THEN Nil ELSE [h EXCEPT !.len = rest]
<1>0. /\ ListTypes /\ (\A p \in Pairs : ListGood(p)) /\ CallTypes /\ q \in Pairs
      /\ h \in Header /\ h.len \in Nat /\ s \in CallsOf(q)
  BY FeedParts, FeedAssumption DEF ListTypes, Header, CallsOf
<1>1. /\ spc[s] = "active" /\ spc' = [spc EXCEPT ![s] = "closed"]
      /\ subs' = [subs EXCEPT ![q] = k]
      /\ mine = {} => UNCHANGED cells
      /\ mine # {} => cells' = [cells EXCEPT ![h.arr] = Shift(@, first, h.len)]
  BY DEF Unsubscribe
<1>2. rest \in Nat /\ k \in Header /\ k.len = rest /\ (rest # 0 => k.arr = h.arr)
      /\ (rest = 0 => k.arr = None)
  <2>1. mine # {} => h.len >= 1
    BY <1>0
  <2>2. rest \in Nat
    BY <1>0, <2>1
  <2> HIDE DEF rest, mine
  <2> QED
    BY <1>0, <2>2 DEF Nil, Header
<1>3. subs' \in [Pairs -> Header] /\ subs'[q] = k /\ \A p \in Pairs \ {q} : subs'[p] = subs[p]
  <2> HIDE DEF k
  <2> QED
    BY <1>0, <1>1, <1>2 DEF ListTypes
<1>4. \A t \in Subs \ {s} : (Past(t) => Past(t)') /\ spc'[t] = spc[t]
  BY <1>0, <1>1 DEF Past, CallTypes
<1>5. Past(s) /\ Past(s)'
  BY <1>0, <1>1 DEF Past, CallTypes
<1> HIDE DEF k, rest, first
<1>6. \A p \in Pairs \ {q} : Onward(p)
  BY <1>0, <1>4 DEF Onward, CallsOf
<1>7. CASE mine = {}
  <2>1. UNCHANGED cells /\ s \notin Listed(q) /\ rest = h.len
    BY <1>1, <1>7 DEF Listed, rest
  <2>2. ASSUME NEW i \in 1..h.len PROVE At(h, i) # s
    BY <1>7
  <2>3. ASSUME NEW p \in Pairs \ {q} PROVE ListGood(p)' /\ Listed(p)' = Listed(p)
    BY <1>0, <1>3, <1>6, <2>1, ListKept
  <2>4. ASSUME NEW i \in 1..rest PROVE At(subs[q], i)' = At(h, i)
    <3>1. rest # 0
      BY <1>2
    <3> QED
      BY <1>2, <1>3, <2>1, <3>1 DEF At
  <2>5. ListGood(q)' /\ Listed(q)' = Listed(q)
    <3>1. Cap(subs[q])' = IF rest = 0 THEN 0 ELSE Cap(h)
      BY <1>2, <1>3, <2>1 DEF Cap
    <3>2. k.len <= Cap(subs[q])'
      BY <1>0, <1>2, <2>1, <3>1 DEF ListGood
    <3>3. ArrayOwn(q)'
      BY <1>0, <1>2, <1>3, <1>4, <1>5 DEF ListGood, ArrayOwn, CallsOf
    <3>4. Elements(q)'
      BY <1>0, <1>2, <1>3, <1>4, <2>1, <2>2, <2>4 DEF ListGood, Elements, CallsOf
    <3>5. Listed(q)' = Listed(q)
      BY <1>2, <1>3, <2>1, <2>4 DEF Listed
    <3> QED
      BY <1>2, <1>3, <3>2, <3>3, <3>4, <3>5 DEF ListGood
  <2> QED
    BY <1>0, <1>3, <1>6, <2>1, <2>3, <2>5 DEF ListTypes
<1>8. CASE mine # {}
  <2> DEFINE c == cells[h.arr]
             n == h.len
  <2>1. PICK i \in 1..n : At(h, i) = s
    BY <1>8
  <2>2. mine = {i}
    BY <1>0, <2>1 DEF ListGood, Elements
  <2>3. first = i
    BY <2>2 DEF first
  <2>4. /\ h.arr \in CallsOf(q) /\ h.arr # None /\ n > 0 /\ n <= Len(c)
        /\ c \in Seq(Subs \cup {None})
    BY <1>0, <2>1, AtType, FeedAssumption DEF ListGood, ArrayOwn
  <2>0. PICK d : d = Shift(c, i, n)
    OBVIOUS
  <2>5. \A x \in 1..n : \A y \in 1..n : c[x] = c[y] => x = y
    BY <1>0 DEF ListGood, Elements, At
  <2>6. d \in Seq(Subs \cup {None}) /\ Len(d) = Len(c) /\ Removed(d, c, i, n)
    <3>1. n \in Nat /\ i \in 1..n
      BY <1>0
    <3> HIDE DEF c, n
    <3> QED
      BY <2>0, <2>4, <2>5, <3>1, ShiftElements
  <2>7. /\ cells' = [cells EXCEPT ![h.arr] = d] /\ rest = n - 1 /\ c[i] = s
    BY <1>1, <1>8, <2>0, <2>1, <2>3 DEF rest, At
  <2>8. /\ cells' \in [Subs -> Seq(Subs \cup {None})] /\ cells'[h.arr] = d
        /\ \A b \in Subs \ {h.arr} : cells'[b] = cells[b]
    BY <1>0, <2>4, <2>6, <2>7 DEF ListTypes, CallsOf
  <2>9. ASSUME NEW p \in Pairs \ {q} PROVE ListGood(p)' /\ Listed(p)' = Listed(p)
    <3>1. subs[p].arr # h.arr
      BY <1>0, <2>4 DEF ListGood, ArrayOwn, CallsOf
    <3>2. subs[p].arr \in Subs \cup {None}
      BY <1>0 DEF ListTypes, Header
    <3> QED
      BY <1>0, <1>3, <1>6, <2>8, <3>1, <3>2, ListKept
  <2>10. ASSUME NEW x \in 1..rest PROVE At(subs[q], x)' = d[x]
    <3>1. rest # 0
      BY <1>2
    <3> QED
      BY <1>2, <1>3, <2>8, <3>1 DEF At
  <2>11. Listed(q) = {c[x] : x \in 1..n}
    BY DEF Listed, At
  <2>12. Listed(q)' = Listed(q) \ {s}
    <3>1. Listed(q)' = {At(subs[q], x)' : x \in 1..rest}
      BY <1>2, <1>3 DEF Listed
    <3>2. Listed(q)' = {d[x] : x \in 1..n - 1}
      BY <2>7, <2>10, <3>1
    <3>3. /\ \A x \in 1..n - 1 : \E y \in 1..n : d[x] = c[y] /\ c[y] # s
          /\ \A y \in 1..n : c[y] # s => \E x \in 1..n - 1 : d[x] = c[y]
      <4> HIDE DEF c, n
      <4> QED
        BY <2>6, <2>7 DEF Removed
    <3> HIDE DEF c, n
    <3>4. {d[x] : x \in 1..n - 1} = {c[x] : x \in 1..n} \ {s}
      BY <3>3
    <3> QED
      BY <2>11, <3>2, <3>4
  <2>13. ListGood(q)'
    <3>1. k.len <= Cap(subs[q])'
      <4>1. CASE rest = 0
        BY <1>2, <1>3, <4>1 DEF Cap
      <4>2. CASE rest # 0
        <5>1. Cap(subs[q])' = Len(d) /\ k.len = n - 1
          BY <1>2, <1>3, <2>4, <2>7, <2>8, <4>2 DEF Cap
        <5>2. Len(c) \in Nat
          BY <2>4, LenProperties
        <5> QED
          BY <1>0, <2>4, <2>6, <5>1, <5>2
      <4> QED
        BY <4>1, <4>2
    <3>2. ArrayOwn(q)'
      BY <1>0, <1>2, <1>3, <1>4, <1>5 DEF ListGood, ArrayOwn, CallsOf
    <3>3. Elements(q)'
      <4>1. ASSUME NEW x \in 1..rest
            PROVE  /\ d[x] \in CallsOf(q) /\ Past(d[x]) /\ spc[d[x]] # "closed" /\ d[x] # s
                   /\ \A y \in 1..rest : d[x] = d[y] => x = y
        <5>2. PICK y \in 1..n : d[x] = c[y] /\ c[y] # s
          BY <2>6, <2>7 DEF Removed
        <5>3. d[x] \in CallsOf(q) /\ Past(d[x]) /\ spc[d[x]] # "closed"
          BY <1>0, <5>2 DEF ListGood, Elements, At
        <5> QED
          BY <2>6, <2>7, <5>2, <5>3 DEF Removed
      <4>2. ASSUME NEW x \in 1..rest
            PROVE  d[x] \in CallsOf(q) /\ Past(d[x])' /\ spc'[d[x]] # "closed"
        <5>1. d[x] \in Subs \ {s} /\ Past(d[x]) /\ spc[d[x]] # "closed" /\ d[x] \in CallsOf(q)
          BY <4>1 DEF CallsOf
        <5> QED
          BY <1>4, <5>1
      <4> SUFFICES ASSUME NEW x \in 1..rest
                   PROVE  /\ At(subs[q], x)' \in CallsOf(q) /\ Past(At(subs[q], x))'
                          /\ spc'[At(subs[q], x)'] # "closed"
                          /\ \A y \in 1..rest : At(subs[q], x)' = At(subs[q], y)' => x = y
        BY <1>2, <1>3 DEF Elements, CallsOf
      <4>3. At(subs[q], x)' = d[x] /\ \A y \in 1..rest : At(subs[q], y)' = d[y]
        BY <2>10
      <4>4. Past(d[x])' <=> spc'[d[x]] \notin {"lookup", "bind", "add"}
        BY DEF Past
      <4>5. Past(At(subs[q], x))' <=> spc'[At(subs[q], x)'] \notin {"lookup", "bind", "add"}
        BY DEF Past
      <4>6. Past(At(subs[q], x))' /\ At(subs[q], x)' \in CallsOf(q) /\ spc'[At(subs[q], x)'] # "closed"
        BY <4>2, <4>3, <4>4, <4>5
      <4>7. ASSUME NEW y \in 1..rest, At(subs[q], x)' = At(subs[q], y)' PROVE x = y
        BY <4>1, <4>3, <4>7
      <4> QED
        BY <4>6, <4>7
    <3> QED
      BY <1>2, <1>3, <3>1, <3>2, <3>3 DEF ListGood
  <2> QED
    BY <1>2, <1>3, <2>7, <2>8, <2>9, <2>12, <2>13
<1> QED
  BY <1>7, <1>8

\* Every other step leaves the lists alone and closes no call.
LEMMA OtherStep ==
    ASSUME FeedInv, NEW s \in Subs, ~Add(s), ~Undo(s), crash = "none",
           CallStep(s) \/ HandlerStep(s) \/ EventStep(s) \/ Receive(s)
    PROVE  \/ \E reason \in {"map", "bounds", "send"} : Panic(reason)
           \/ /\ UNCHANGED <<subs, cells>>
              /\ \A p \in Pairs : ListGood(p)' /\ Listed(p)' = Listed(p)
<1>0. ListTypes /\ CallTypes /\ \A p \in Pairs : ListGood(p)
  BY FeedParts
<1>1. CASE HandlerStep(s) \/ EventStep(s) \/ Receive(s)
  <2>1. UNCHANGED <<spc, subs, cells>> \/ Panic("send")
    BY <1>1 DEF HandlerStep, EventStep, GiveUp, Resubscribe, SyncPrice, Send, Sent,
       SubscriptionError, SubscriptionClosed, SyncEvent, Receive, lists
  <2>2. CASE UNCHANGED <<spc, subs, cells>>
    <3>1. \A p \in Pairs : Onward(p)
      BY <2>2 DEF Onward, Past
    <3> QED
      BY <1>0, <2>2, <3>1, ListKept
  <2> QED
    BY <2>1, <2>2
<1>2. CASE Lookup(s) \/ Bind(s) \/ InitialPrice(s) \/ Check(s) \/ Watch(s)
  <2>1. UNCHANGED <<subs, cells>>
    BY <1>2 DEF Lookup, Bind, InitialPrice, Check, Watch, lists
  <2>2. PICK phase \in Phases \ {"closed"} :
           /\ spc' = [spc EXCEPT ![s] = phase]
           /\ Past(s) => phase \notin {"lookup", "bind", "add"}
    BY <1>0, <1>2 DEF Lookup, Bind, InitialPrice, Check, Watch, Phases, Past
  <2>3. \A p \in Pairs : Onward(p)
    BY <1>0, <2>2 DEF Onward, Past, CallTypes, CallsOf
  <2> QED
    BY <1>0, <2>1, <2>3, ListKept
<1>3. CASE MapRace(s)
  BY <1>3 DEF MapRace
<1> QED
  BY <1>1, <1>2, <1>3 DEF CallStep

\* FeedInv is inductive.
LEMMA FeedStep == FeedInv /\ [Next]_vars => FeedInv'
<1> SUFFICES ASSUME FeedInv, [Next]_vars PROVE FeedInv'
  OBVIOUS
<1>1. CASE UNCHANGED vars
  <2> USE DEF vars, lists, handlers
  <2>1. CallTypes' /\ HandlerTypes' /\ UNCHANGED <<subs, cells>>
    BY <1>1, FeedParts DEF CallTypes, HandlerTypes, AttemptLeft
  <2>2. \A p \in Pairs : Onward(p)
    BY <1>1 DEF Onward, Past
  <2>3. ListTypes /\ \A p \in Pairs : ListGood(p)
    BY FeedParts
  <2>4. \A p \in Pairs : ListGood(p)'
    BY <2>1, <2>2, <2>3, ListKept
  <2> QED
    BY <2>1, <2>3, <2>4, FeedParts DEF ListTypes
<1>2. ASSUME NEW s \in Subs, crash = "none",
             CallStep(s) \/ HandlerStep(s) \/ EventStep(s) \/ Unsubscribe(s) \/ Receive(s),
             ~ \E reason \in {"map", "bounds", "send"} : Panic(reason)
      PROVE  FeedInv'
  <2>1. CallTypes' /\ HandlerTypes'
    BY <1>2, CallTypeStep, HandlerTypeStep
  <2>2. ListTypes
    BY FeedParts
  <2>3. /\ cells' \in [Subs -> Seq(Subs \cup {None})] /\ subs' \in [Pairs -> Header]
        /\ \A p \in Pairs : ListGood(p)'
    <3>1. CASE Add(s)
      BY <3>1, AddStep
    <3>2. CASE Undo(s)
      BY <1>2, <3>2, UndoStep
    <3>3. CASE Unsubscribe(s)
      BY <3>3, UnsubscribeStep
    <3>4. CASE ~Add(s) /\ ~Undo(s) /\ ~Unsubscribe(s)
      BY <1>2, <2>2, <3>4, OtherStep DEF ListTypes
    <3> QED
      BY <3>1, <3>2, <3>3, <3>4
  <2> QED
    BY <2>1, <2>3, FeedParts
<1> QED
  BY <1>1, <1>2, FeedPanic DEF Next

\* The lists are empty and no handler runs.
LEMMA FeedInit == Init => FeedInv
<1> SUFFICES ASSUME Init PROVE FeedInv
  OBVIOUS
<1> USE FeedAssumption DEF Init
<1>1. CallTypes
  BY DEF CallTypes, Phases, Zero
<1>2. ListTypes
  <2>1. <<>> \in Seq(Subs \cup {None})
    BY EmptySeq
  <2>2. Nil \in Header /\ Nil.len = 0 /\ Nil.arr = None
    BY DEF Nil, Header
  <2>3. subs = [p \in Pairs |-> Nil] /\ cells = [s \in Subs |-> <<>>]
    BY DEF NoCells
  <2> QED
    BY <2>1, <2>2, <2>3 DEF ListTypes, Cap
<1>3. HandlerTypes
  <2>1. <<>> \in Seq(Frame)
    BY EmptySeq
  <2> QED
    BY <2>1 DEF HandlerTypes, AttemptLeft, Zero, NoFrames
<1>4. ASSUME NEW p \in Pairs PROVE ArrayOwn(p) /\ Elements(p)
  BY DEF Nil, ArrayOwn, Elements
<1> QED
  BY <1>1, <1>2, <1>3, <1>4, TypeParts DEF FeedInv

\* A channel holds at most its capacity, a slice stays within its array however
\* appends, rollbacks and removals of overlapping calls interleave, and a handler
\* makes at most MaxAttempts attempts in a row.
THEOREM FeedTypeCorrect == Spec => []TypeOK
<1>1. FeedInv => TypeOK
  BY DEF FeedInv
<1> QED
  BY <1>1, FeedInit, FeedStep, PTL DEF Spec

\* Although a rollback may take another call's subscription off the list, and
\* the append of a new array leave the old one behind, a closed subscription is
\* in no list: a broadcast that starts never sends on a closed channel.
THEOREM ClosedAreUnlisted == Spec => []ClosedUnlisted
<1>1. FeedInv => ClosedUnlisted
  BY DEF FeedInv, ClosedUnlisted, Elements, Listed
<1> QED
  BY <1>1, FeedInit, FeedStep, PTL DEF Spec

-----------------------------------------------------------------------------
(* The list of a pair whose calls have not failed, and its handler.         *)

OnceInv == FeedInv /\ ListedOnce

\* ListedOnce is inductive with FeedInv: what has failed stays so, and what
\* has not counts on its element and on no other.
LEMMA OnceStep == OnceInv /\ [Next]_vars => OnceInv'
<1> SUFFICES ASSUME OnceInv, [Next]_vars PROVE OnceInv'
  OBVIOUS
<1>0. FeedInv /\ FeedInv' /\ CallTypes /\ ListTypes
  BY FeedStep, FeedParts DEF OnceInv
<1>1. CASE UNCHANGED vars
  BY <1>0, <1>1 DEF OnceInv, ListedOnce, Listed, Held, CallsOf, At, vars, lists
<1>2. ASSUME NEW reason, Panic(reason) PROVE ListedOnce'
  <2>1. \A p \in Pairs : Held(p)' = {} /\ Listed(p)' = {} /\ subs'[p].len = 0
    BY <1>2 DEF Panic, Held, Listed, CallsOf, Nil
  <2> QED
    BY <2>1, FS_EmptySet DEF ListedOnce
<1>3. ASSUME NEW s \in Subs, crash = "none",
             CallStep(s) \/ HandlerStep(s) \/ EventStep(s) \/ Unsubscribe(s) \/ Receive(s),
             ~ \E reason : Panic(reason), NEW p \in Pairs, \A t \in CallsOf(p) : spc'[t] # "failed"
      PROVE  Listed(p)' = Held(p)' /\ subs'[p].len = Cardinality(Held(p)')
  <2>1. CASE Add(s)
    <3>1. \A t \in CallsOf(p) : spc[t] # "failed"
      BY <1>0, <1>3, <2>1 DEF Add, CallTypes, CallsOf
    <3>2. CASE p = PairOf[s]
      <4>1. s \notin Held(p) /\ Held(p)' = Held(p) \cup {s}
        BY <1>0, <2>1, <3>2 DEF Add, CallTypes, Held, CallsOf
      <4> QED
        <5>1. Listed(p) = Held(p) /\ subs[p].len = Cardinality(Held(p))
          BY <3>1 DEF OnceInv, ListedOnce
        <5>2. Listed(p)' = Listed(p) \cup {s} /\ subs'[p].len = subs[p].len + 1
          BY <1>0, <2>1, <3>2, AddStep
        <5>3. Cardinality(Held(p) \cup {s}) = Cardinality(Held(p)) + 1
          BY <4>1, HeldFinite, FS_AddElement
        <5> QED
          BY <4>1, <5>1, <5>2, <5>3
    <3>3. CASE p # PairOf[s]
      <4>1. Held(p)' = Held(p)
        BY <1>0, <2>1, <3>3 DEF Add, CallTypes, Held, CallsOf
      <4> QED
        BY <1>0, <2>1, <3>1, <3>3, <4>1, AddStep DEF OnceInv, ListedOnce
    <3> QED
      BY <3>2, <3>3
  <2>2. CASE Undo(s)
    <3>1. spc' = [spc EXCEPT ![s] = "failed"]
      BY <1>3, <2>2 DEF Undo
    <3>2. p # PairOf[s]
      BY <1>0, <1>3, <3>1 DEF CallTypes, CallsOf
    <3>3. Held(p)' = Held(p) /\ \A t \in CallsOf(p) : spc[t] # "failed"
      BY <1>0, <1>3, <3>1, <3>2 DEF CallTypes, Held, CallsOf
    <3> QED
      BY <1>0, <1>3, <2>2, <3>2, <3>3, UndoStep DEF OnceInv, ListedOnce
  <2>3. CASE Unsubscribe(s)
    <3>1. spc[s] = "active" /\ spc' = [spc EXCEPT ![s] = "closed"]
      BY <2>3 DEF Unsubscribe
    <3>2. \A t \in CallsOf(p) : spc[t] # "failed"
      BY <1>0, <1>3, <3>1 DEF CallTypes, CallsOf
    <3>3. CASE p = PairOf[s]
      <4>1. s \in Held(p) /\ Held(p)' = Held(p) \ {s}
        BY <1>0, <3>1, <3>3 DEF CallTypes, Held, CallsOf
      <4> QED
        <5>1. Listed(p) = Held(p) /\ subs[p].len = Cardinality(Held(p))
          BY <3>2 DEF OnceInv, ListedOnce
        <5>2. Listed(p)' = Listed(p) \ {s} /\ subs'[p].len = subs[p].len - 1
          BY <1>0, <2>3, <3>3, <4>1, <5>1, UnsubscribeStep
        <5>3. Cardinality(Held(p) \ {s}) = Cardinality(Held(p)) - 1
          BY <4>1, HeldFinite, FS_RemoveElement
        <5> QED
          BY <4>1, <5>1, <5>2, <5>3
    <3>4. CASE p # PairOf[s]
      <4>1. Held(p)' = Held(p)
        BY <1>0, <3>1, <3>4 DEF CallTypes, Held, CallsOf
      <4> QED
        BY <1>0, <2>3, <3>2, <3>4, <4>1, UnsubscribeStep DEF OnceInv, ListedOnce
    <3> QED
      BY <3>3, <3>4
  <2>4. CASE ~Add(s) /\ ~Undo(s) /\ ~Unsubscribe(s)
    <3>1. UNCHANGED subs /\ Listed(p)' = Listed(p)
      BY <1>0, <1>3, <2>4, OtherStep
    <3>2. Held(p)' = Held(p) /\ \A t \in CallsOf(p) : spc'[t] = "failed" <=> spc[t] = "failed"
      <4>1. CASE HandlerStep(s) \/ EventStep(s) \/ Receive(s)
        <5>1. UNCHANGED spc
          BY <1>3, <4>1 DEF HandlerStep, EventStep, GiveUp, Resubscribe, SyncPrice, Send, Sent,
             SubscriptionError, SubscriptionClosed, SyncEvent, Receive
        <5> QED
          BY <5>1 DEF Held
      <4>2. CASE Lookup(s) \/ Bind(s) \/ InitialPrice(s) \/ Check(s) \/ Watch(s)
        BY <1>0, <4>2 DEF Lookup, Bind, InitialPrice, Check, Watch, Held, CallsOf, CallTypes
      <4> QED
        BY <1>3, <2>4, <4>1, <4>2 DEF CallStep, MapRace
    <3> QED
      BY <1>3, <3>1, <3>2 DEF OnceInv, ListedOnce
  <2> QED
    BY <2>1, <2>2, <2>3, <2>4
<1>4. ASSUME Next PROVE ListedOnce'
  <2>1. CASE \E reason : Panic(reason)
    BY <1>2, <2>1
  <2>2. CASE ~ \E reason : Panic(reason)
    BY <1>3, <1>4, <2>2 DEF Next, ListedOnce, CallsOf
  <2> QED
    BY <2>1, <2>2
<1> QED
  BY <1>0, <1>1, <1>4 DEF OnceInv

\* Nothing is listed, and no call counts on an element.
LEMMA OnceInit == Init => OnceInv
<1> SUFFICES ASSUME Init PROVE OnceInv
  OBVIOUS
<1>1. \A p \in Pairs : Held(p) = {} /\ Listed(p) = {} /\ subs[p].len = 0
  BY DEF Init, Held, CallsOf, Listed, Nil
<1> QED
  BY <1>1, FeedInit, FS_EmptySet DEF OnceInv, ListedOnce

\* However the calls of a pair overlap, the appends and removals of a slice in
\* place lose no subscription and duplicate none, as long as none has failed.
THEOREM SubscriptionsAreListed == Spec => []ListedOnce
<1>1. OnceInv => ListedOnce
  BY DEF OnceInv
<1> QED
  BY <1>1, OnceInit, OnceStep, PTL DEF Spec

\* No call of the pair has ended or is about to.
Undisturbed(p) == \A s \in CallsOf(p) : spc[s] \notin {"undo", "failed", "closed"}

\* Calls that have found the list to have one element.
Watching(p) == {s \in CallsOf(p) : spc[s] = "watch" \/ wpc[s] # "none"}

\* Of a pair that is undisturbed only one call has found a list of one: it is
\* still in it when another call looks.
WatchInv ==
    /\ OnceInv
    /\ \A s \in Subs : wpc[s] # "none" => spc[s] \in {"active", "closed"}
    /\ \A p \in Pairs : Undisturbed(p) => \A s, t \in Watching(p) : s = t

\* A list of one has no room for another call that counts on it.
LEMMA AloneInList ==
    ASSUME OnceInv, NEW p \in Pairs, Undisturbed(p), subs[p].len = 1,
           NEW s \in Held(p), NEW t \in Held(p)
    PROVE  s = t
<1>1. Cardinality(Held(p)) = 1
  BY DEF OnceInv, ListedOnce, Undisturbed
<1>2. PICK x : Held(p) = {x}
  BY <1>1, HeldFinite, FS_Singleton
<1> QED
  BY <1>2

\* WatchInv is inductive.
LEMMA WatchStep == WatchInv /\ [Next]_vars => WatchInv'
<1> SUFFICES ASSUME WatchInv, [Next]_vars PROVE WatchInv'
  OBVIOUS
<1>0. OnceInv /\ OnceInv' /\ CallTypes /\ HandlerTypes
  BY OnceStep, FeedParts DEF WatchInv, OnceInv
<1>1. CASE UNCHANGED <<spc, wpc>>
  BY <1>0, <1>1 DEF WatchInv, Undisturbed, Watching, CallsOf
<1>2. ASSUME NEW reason, Panic(reason) PROVE WatchInv'
  BY <1>0, <1>2 DEF Panic, WatchInv, Watching, CallsOf
<1>3. ASSUME NEW s \in Subs, UNCHANGED wpc, NEW phase, spc' = [spc EXCEPT ![s] = phase],
             phase # "watch", spc[s] \notin {"active", "undo", "failed", "closed"}
      PROVE  WatchInv'
  BY <1>0, <1>3 DEF CallTypes, WatchInv, Undisturbed, Watching, CallsOf
<1>4. ASSUME NEW s \in Subs, crash = "none", CallStep(s) PROVE WatchInv'
  <2>1. CASE Lookup(s) \/ Bind(s) \/ Add(s) \/ InitialPrice(s)
    BY <1>3, <2>1 DEF Lookup, Bind, Add, InitialPrice, handlers
  <2>2. CASE Check(s) /\ ~WatchNeeded(s)
    BY <1>3, <2>2 DEF Check, handlers
  <2>3. CASE Check(s) /\ WatchNeeded(s)
    <3>1. /\ spc[s] = "check" /\ spc' = [spc EXCEPT ![s] = "watch"] /\ UNCHANGED wpc
          /\ subs[PairOf[s]].len = 1
      BY <2>3 DEF Check, WatchNeeded, handlers
    <3>2. \A t \in Subs : wpc[t] # "none" => spc'[t] \in {"active", "closed"}
      BY <1>0, <3>1 DEF CallTypes, WatchInv
    <3>3. ASSUME NEW p \in Pairs, Undisturbed(p)' PROVE Undisturbed(p)
      BY <1>0, <3>1, <3>3 DEF CallTypes, Undisturbed, CallsOf
    <3>4. ASSUME NEW p \in Pairs, p # PairOf[s] PROVE Watching(p)' = Watching(p)
      BY <1>0, <3>1, <3>4 DEF CallTypes, Watching, CallsOf
    <3>5. ASSUME Undisturbed(PairOf[s]), NEW t \in Watching(PairOf[s])' PROVE t = s
      <4>1. PairOf[s] \in Pairs /\ s \in Held(PairOf[s])
        BY <3>1, FeedAssumption DEF Held, CallsOf
      <4>2. t \in Held(PairOf[s])
        BY <1>0, <3>1, <3>5 DEF CallTypes, Watching, Undisturbed, WatchInv, Held, CallsOf
      <4> QED
        BY <1>0, <3>1, <3>5, <4>1, <4>2, AloneInList
    <3> QED
      BY <1>0, <3>1, <3>2, <3>3, <3>4, <3>5 DEF WatchInv
  <2>4. CASE Watch(s)
    <3>1. /\ spc[s] = "watch"
          /\ \/ spc' = [spc EXCEPT ![s] = "undo"] /\ UNCHANGED wpc
             \/ spc' = [spc EXCEPT ![s] = "active"] /\ wpc' = [wpc EXCEPT ![s] = "select"]
      BY <2>4 DEF Watch
    <3>2. \A t \in Subs : wpc'[t] # "none" => spc'[t] \in {"active", "closed"}
      BY <1>0, <3>1 DEF CallTypes, HandlerTypes, WatchInv
    <3>3. ASSUME NEW p \in Pairs, Undisturbed(p)'
          PROVE  Undisturbed(p) /\ Watching(p)' \subseteq Watching(p)
      BY <1>0, <3>1, <3>3 DEF CallTypes, HandlerTypes, Undisturbed, Watching, CallsOf
    <3> QED
      BY <1>0, <3>2, <3>3 DEF WatchInv
  <2>5. CASE Undo(s)
    <3>1. Panic("bounds") \/ (spc[s] = "undo" /\ spc' = [spc EXCEPT ![s] = "failed"] /\ UNCHANGED wpc)
      BY <2>5 DEF Undo, handlers
    <3>2. CASE spc[s] = "undo" /\ spc' = [spc EXCEPT ![s] = "failed"] /\ UNCHANGED wpc
      BY <1>0, <3>2 DEF CallTypes, WatchInv, Undisturbed, Watching, CallsOf
    <3> QED
      BY <1>2, <3>1, <3>2
  <2>6. CASE MapRace(s)
    BY <1>2, <2>6 DEF MapRace
  <2> QED
    BY <1>4, <2>1, <2>2, <2>3, <2>4, <2>5, <2>6 DEF CallStep
<1>5. ASSUME NEW s \in Subs, Unsubscribe(s) PROVE WatchInv'
  <2>1. spc[s] = "active" /\ spc' = [spc EXCEPT ![s] = "closed"] /\ UNCHANGED wpc
    BY <1>5 DEF Unsubscribe, handlers
  <2> QED
    BY <1>0, <2>1 DEF CallTypes, WatchInv, Undisturbed, Watching, CallsOf
<1>6. ASSUME NEW s \in Subs, HandlerStep(s) \/ EventStep(s) PROVE WatchInv'
  <2>1. Panic("send") \/ UNCHANGED <<spc, wpc>>
        \/ (UNCHANGED spc /\ wpc[s] # "none" /\ \E w : wpc' = [wpc EXCEPT ![s] = w])
    BY <1>6 DEF HandlerStep, EventStep, GiveUp, Resubscribe, SyncPrice, Send, Sent, Selecting,
       SubscriptionError, SubscriptionClosed, SyncEvent
  <2>2. CASE UNCHANGED spc /\ wpc[s] # "none" /\ \E w : wpc' = [wpc EXCEPT ![s] = w]
    <3>1. \A t \in Subs : wpc'[t] # "none" => wpc[t] # "none"
      BY <1>0, <2>2 DEF HandlerTypes
    <3>2. \A p \in Pairs : Watching(p)' \subseteq Watching(p) /\ Undisturbed(p)' = Undisturbed(p)
      BY <2>2, <3>1 DEF Watching, Undisturbed, CallsOf
    <3> QED
      BY <1>0, <2>2, <3>1, <3>2 DEF WatchInv
  <2> QED
    BY <1>1, <1>2, <2>1, <2>2
<1>7. ASSUME NEW s \in Subs, Receive(s) PROVE WatchInv'
  BY <1>1, <1>7 DEF Receive, handlers
<1> QED
  BY <1>1, <1>4, <1>5, <1>6, <1>7 DEF Next, vars, handlers

\* As long as no subscription of a pair has ended, the pair has one handler at
\* most, although line 127 reads the length of the list without its lock.
THEOREM HandlerIsSingle == Spec => []SingleHandler
<1>1. Init => WatchInv
  BY OnceInit DEF Init, WatchInv, Watching, CallsOf
<1>2. WatchInv => SingleHandler
  <2> SUFFICES ASSUME WatchInv, NEW p \in Pairs, Undisturbed(p)
               PROVE  Cardinality({s \in CallsOf(p) : wpc[s] # "none"}) <= 1
    BY DEF SingleHandler, Undisturbed
  <2> DEFINE H == {s \in CallsOf(p) : wpc[s] # "none"}
  <2>1. \A s, t \in H : s = t
    BY DEF WatchInv, Watching
  <2>2. CASE H = {}
    BY <2>2, FS_EmptySet
  <2>3. CASE H # {}
    <3>1. PICK x : H = {x}
      BY <2>1, <2>3
    <3>2. Cardinality(H) = 1
      BY <3>1, FS_Singleton
    <3> QED
      BY <3>2
  <2> QED
    BY <2>2, <2>3
<1> QED
  BY <1>1, <1>2, WatchStep, PTL DEF Spec
=============================================================================
