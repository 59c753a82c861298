# A verification of pricey

pricey is a price service for Uniswap V2 pairs, written in Go. Its API process
backfills the pairs of the factory into PostgreSQL in the background, answers
price queries from the node, and offers subscriptions that follow the Sync
events of a pair. This directory holds TLA+ models of its stateful parts, the
TLC configurations that check them, and TLAPS proofs of the properties that
matter most. Every definition is a translation of the Go source;
`PROJECT.json` gives the lines of each one under `map`.

Conventions: an action is named after the code it models. A definition that
begins with "faulty variant" is a plausible bug; it is never part of a
specification, and `mutants` of `PROJECT.json` says which property notices it.

## 1. The system

| Component | State | Operations | Modelled by |
|---|---|---|---|
| Backfill loop, `historical/backfill.go` `Run` | cursor `lastScannedBlock`, `currentBlock`, a goroutine per pair | start, top of the loop, window, wait, record, next window or sweep | `Backfill`; abstractly `Sweep` |
| Pair scan, `ScanForPairs`, `insertTokenWithMetadata` | token and pair sets of the window | log query, token batches, metadata, token/pair inserts, first progress | `Backfill` |
| Pair worker, `processPair` | attempt, `lastProcessed`, `end` | read progress, fall back to the creation block, chunks, retry | `Backfill` |
| Tables, `database/database.go` | tokens, pairs, pair_sync_progress, global_sync_progress | migrations, upserts, reads | `Backfill`; `BackfillRows` and `SyncRegister` for the last one |
| Price service, `uniswap/service.go` | `pairs`, `subs`, the channels, one handler per watched pair | `SubscribeToPrice`, `Unsubscribe`, `handleSyncEvents`, broadcasts, `getPair` | `PriceFeed` |
| Historical client, `historical/eth_client.go` | ticker, mutex, locals of its operations | rate limit, backoff, multicall, block times, tokens, decimals, metadata with fallbacks | `RpcClient`; in `Backfill` as it is used there |
| Factory scanner, `historical/factory_scanner.go` | the entries of a scan | code, symbols and decimals of a batch | `RpcClient` |
| Historical collection, `historical/service.go` | none between calls | `CollectHistoricalData`, `processBatch` | `History` |
| Price table, `database/database.go`, `api/service.go` | `pair_prices` | insert, list of tokens with their prices | `PriceTables` |
| Pair graph, `graph/pair_graph.go` | edges, path cache | `AddPair`, `FindPath`; prices, stability, base pairs, confidence | `PairGraph`; `Pricing` |
| Price calculator, `price/calculator.go` | the graph | `GetUSDPrice` | `Pricing` |
| API process, `cmd/api/main.go` | the context | migrate, start, cancel, return | its part in `Backfill` |
| Other HTTP handlers and price queries, bindings, `cmd/backfill` | none | single calls | no (section 7) |

How they interact. `main` migrates the database, starts `Run` in a goroutine
with a context, serves HTTP, and on a signal cancels the context and returns
without waiting for `Run`. `Run` calls the node and the database, each call can
fail, and what it stores is all that a restarted process knows. The goroutines
of a window share nothing but the database; `Run` waits for them. The price
service is shared by its callers and by the handlers it starts. They meet in
the map `subs`, whose slices are changed in place under a lock and walked
without it, and in the buffered channels of the subscribers. Every caller of the
historical client waits at its one rate limiter. The collection of history uses
the client through an interface and writes `pair_prices`, which the API lists.
The calculator asks the graph for edges and paths, one lock at a time, while
others may add pairs.

What is hard about it, and hardly reached by a test, is listed under `hazards`
of `PROJECT.json`, each at its line. The main ones: unsigned arithmetic near
genesis; a crash or a cancellation between any two writes; failures that are
only logged; a retry that takes a first write for finished work; an answer that
is lost after the write was applied; a length read outside the lock; slices
that share an array; sends on channels that another goroutine closes; a path
computed outside the lock that is cached after the cache was emptied.

What makes each part correct:

- backfill: what is recorded as processed is stored, sweep by sweep; no block number leaves the
  chain; a worker that reports success has covered its range; a window is
  recorded only after its workers; waits and cancellations end; new pairs are
  found in the end;
- sync progress: a read returns the last write;
- price service: the list of a pair holds its subscribers, each once; no
  rollback panics; one handler per pair; a watched pair has a handler;
  broadcasts end and never hit a closed channel;
- pair graph: a cached path has the current reserves of its pairs and connects
  its ends, and tokens that are near each other have a shortest one;
- client: requests are apart by the interval and every caller is served; an
  answer is about the token or block whose place it has; a token that fails does
  not cost others their data;
- history: a collection that reports success has stored its range, a checkpoint
  is true, and a row is not older than its block;
- prices: what enters the average is the price of the token asked for, of
  confident paths only, and the reference pairs are stable.

## 2. The modules

### Backfill

`pc` is where `Run` and the scan it calls are, `wpc[p]` where the goroutine of
the pair `p` is. Every call to the node or to the database is one action; what
the code does with the answer up to its next call is part of that action. Block
numbers are unsigned: `Minus` wraps at `2 * (MaxBigint + 1)`, which is 2^64 for
BIGINT columns of 2^63 - 1.

A call has an outcome: `ok`, `error`, or, for a write, `unacked` (applied, its
answer lost). Only the calls in `FaultyCalls` fail, `MaxFaults` times in all.
After `Cancel` every call returns `ctx.Err()`, so it fails without being
counted. `Exit` is the return of `main` or a kill, at any point; `Panic` is the
index out of range of `insertTokenWithMetadata`. Both forget all locals.
`Restart` is `main` again: the migrations find their tables.

Worth knowing when reading it:

- `FetchMetadata` stands for `GetTokensMetadata` with its batches, the second
  try token by token, and its fallback entries. What matters to the caller is
  how many entries come back: a token whose data do not unpack has none, and the
  caller indexes the result by the position of the token it asked for.
- `InsertPair` refuses a pair whose tokens are not both stored (the foreign
  keys); `ScanForPairs` only warns.
- `low`, `liveTop` and `recTop` are history variables: how far down the chunks
  of a worker came, and the block at which the sweep under way, or the recorded
  one, began. No action reads `low` or `liveTop` to decide anything; `recTop`
  is copied into `liveTop` on a resume, because the sweep goes on.
- `Genesis(b)` is the code's test for the bottom, block 0 exactly; below it
  `Minus` wraps.
- `PairsHasCreatedAt` is FALSE for the schema of `RunMigrations`, which lacks
  the `created_at` column that `GetPair` selects, and TRUE for a table that was
  created by the SQL files. The runs use both.

### Sweep

What the backfill promises to whoever reads its tables, as a specification of
three variables beside the chain: the pairs stored, the recorded block (`floor`)
and the block at which the recorded sweep began (`top`). A sweep comes down
(`Proceed`) only when every pair between the new block and its top is stored. A
new one begins (`Begin`) only when the one before has left out no pair up to its
top, and no lower than that. Windows, calls, goroutines, failures and restarts
are below this level. `Backfill` implements it (`SweepRefined`) under
`stored <- pairs`, `floor <- global`, `top <- recTop`: every action but
`NewBlock`, `InsertPair` and `Record` maps to a stutter, and `Record` to
`Proceed`, to `Begin`, or, when it writes what is there already, to a stutter.

### BackfillRows and SyncRegister

`SyncRegister` is what `Run` expects of `GetGlobalSyncProgress` and
`UpdateGlobalSyncProgress`: a register, which `Backfill` keeps as the variable
`global`. `BackfillRows` puts the table beside it: its SERIAL column, the
migration's explicit row 1, the insert that names no id, the ids that failed
statements burn, and `ORDER BY id DESC LIMIT 1`. Each `Record` of `Backfill` does
to the table what its statement does, applied, lost or failed (`RecordRow`); each
`Restart` migrates again. The first update overwrites row 1, every later one adds
a row. The table implements the register (`ReadsLastWrite`, a refinement with
`value <- GetGlobalSyncProgress` and `written <- global`): what a `Run` would read
from its rows is at all times what `Backfill` keeps.

### PriceFeed

One call of `SubscribeToPrice` is identified with its subscription; the handler
that it may start and the array that its append may allocate have its name.
`spc[s]` is where the call is, `wpc[s]` where its handler is, `frames[s]` the
stack of broadcasts under way (a price that finds a channel full starts a
warning inside the price broadcast). A slice is a header, array and length, in
`subs`; the arrays are `cells`. `Add` is Go's append: in place while there is
room, else into an array twice as large. `Undo` is the rollback
`subs[:len-1]`, which takes the last element, whichever it is. `Unsubscribe` is
`append(subs[:i], subs[i+1:]...)`, in place, then `delete` of an empty list and
`close` of the channel. A broadcast copies the header and then visits its cells
one at a time (`Send`), reading what the array holds by then.

`getPair`, the appends, the rollbacks and `Unsubscribe` run under `s.mu` and
are single steps. The test `len(s.subs[pair]) == 1` is a step of its own,
without the lock; `MapRace` is the runtime's "concurrent map read and map
write" on it. A subscription to events ends with an error, which the handler
broadcasts, backs off from and answers by resubscribing, or without one, after
which the handler spins on a closed channel: that changes no state, so it is
not an action. A buffered event channel, which a resubscription makes, may
still hold events when its subscription has ended.

### PairGraph

`AddPair` runs under the write lock: one step, with the invalidation it makes.
`FindPath` takes the lock for each access, so the lookup, each `GetEdges` with
the loop over its result, and the final store are steps; `pc[f]` says which is
next: the direct pair, the pair to WETH, the two legs through WETH (the edges of
the second token are got anew for every first leg), the breadth-first search,
the store. An edge is its pair and a version of reserves and liquidity; a cached
nil is the empty path.

`Extended` is `append(current.path, edge)` with Go's capacities. The array of a
path has room for one more edge if the length of the path is in `Room`. An append
to an array that is full doubles it, so arrays of 1, 2 and 4 edges are full and
those lengths are not in `Room` (`RoomAssumption`); beyond them the capacity
depends on the size classes of the allocator, and the proofs leave it open. A path
of three edges has an array of four, so the paths of all neighbours it leads to
are written to the same cell, and all of them end with the edge written last
(`Queued`). An item of the queue names its array (`arr`), after the token for
whose path it was allocated: a longer path in the same array that was queued
before gets its edge overwritten too (`Overwritten`, `Rest`).

`overlapped` and `doubtful` are history variables: a call is overlapped when a
pair changes while it runs, and what it stores is doubtful. Nothing is claimed
for doubtful paths, because the code cannot promise anything: a search that
computed before `AddPair` emptied the cache stores afterwards.

### RpcClient

One operation per caller: `pc[c]` says whether it waits for the mutex, holds it
and waits for a tick, is about to call the node, or backs off. `job[c]` are the
locals of the operation. What it does with an answer, or with the failure of a
request, up to its next request is a function on `job` (`MetadataAnswered`,
`MetadataFailed`, `ScanAnswered`, `Issue`, ...), applied by the step that
receives it.

A token has a nature, which says how it answers: data that unpack, no data, data
that do not unpack, or a revert, which fails the whole aggregate (`Reverts`).
Entries of a result are pairs of the token whose place they take and the one
whose data they hold; made-up data are `Fallback`. "once" stands for the
operations that pass one request on. The history variables `spent` and `mine`
count the calls that each tick has paid for.

`EntriesCounted` is the contract with `Backfill`, whose `FetchMetadata` takes one
of `EntryCounts` for the length of the answer of `GetTokensMetadata`.

The scan of `factory_scanner.go` is an operation of three requests per batch,
through `TryAggregate`, which is `Multicall`.

### History and PriceTables

`History` is `CollectHistoricalData` with `processBatch`: `pc` is where the call
is, `range`, `i`, `next` and `done` are the range, the batch, and the next block
to be asked for and to be stored. The bounds of a batch are operators of the
range and `i`, in arithmetic modulo `Wrap` (`Sub`, `Plus`), as are the code's.
Calls of the node and writes have the outcomes they have in `Backfill`. What is
kept of reserves is the block they are of: `Multicall` asks for none, so it
answers with those of the head. Calls for a pair follow each other; `written` and
`writer` are history variables.

`PriceTables` is the table `pair_prices` and the query `GetActiveTokens`, one
operator per common table expression, and what the API makes of its NULLs.
`History` extends it.

### Pricing

`Pricing` extends `PairGraph` by the calculator. `GetUSDPrice` reads the stable
tokens under one read lock (`FindStableTokens`), the edges of each of them
(`BasePairs`, in the order of a map), ranks the pairs (`Rank`) and asks for two
paths per pair: at once (`PathAtOnce`), or in the steps of `PairGraph`
(`AskPath`, `FindingPath`, `PathFound`). `Receive` keeps a path that has enough
confidence. `Price` takes the average.

Floating point is modelled where it decides anything. Reserves are powers of
two, given by their exponents: a price is a sum of exponents, and the one ratio
that passes for stable is 1. A liquidity above the minimum is the minimum times a
power of two, which makes the logarithm of the score a number; the factors 0.85,
0.15, 1.5/4, 1.2 and the penalties are exact in 1/500000 and 1/50000000.
`Worth` is used by properties only: what each token is worth if all pairs agree.

## 3. The runs

| Run | Question | Result |
|---|---|---|
| `backfill_safe` | do types, block bounds, stored pairs, covered ranges and recorded windows survive failing reads, lost answers of the record, cancellation, restarts and a panic, are the tables those of one complete sweep after the other (`Sweep`), and do the rows of global_sync_progress implement the register? | passes |
| `backfill_live` | with every call failing at times: do waits end, does a cancelled `Run` return, does the sweep come down? | passes |
| `backfill_genesis` | are pairs that appear later found, when nothing at all fails? | violated: a finding |
| `backfill_retry` | does a worker that reports success cover its range if one progress write fails? | violated: a finding |
| `feed` | do list, rollback, handler and binding stay right while calls, failures, unsubscriptions and broadcasts overlap, and does every broadcast end although nobody receives? | passes |
| `feed_unwatched` | has a pair with subscribers a handler? | violated: a finding |
| `graph_safe` | are cached paths current, those of up to four pairs connecting although siblings share arrays, and right for near tokens, while pairs are added and updated during searches? | passes |
| `graph_shared` | does every cached path connect its tokens? | violated: a finding |
| `client` | while two callers share the rate limiter and calls fail, are limited and cancelled: are requests paced, are answers in their places and as many as `Backfill` expects, does every operation return? | passes |
| `history` | does a collection store what it reports and checkpoints, in both directions, through failures, crashes and new blocks, and does the API list the newest of it? | passes |
| `pricing` | while the graph is filled and updated: are the prices of paths that begin with the token asked for its own, is no other path of several pairs averaged, are confidences in bounds and reference pairs stable? | passes |
| `pricing_inverse` | is every price in the average that of the token asked for? | violated: a finding |

The findings in short (`findings` of `PROJECT.json` has the lines):

- `lastScannedBlock - BlockRange` wraps in the lowest window unless the sweep
  lands on block 0 exactly. The node rejects the window, and `Run` asks for it
  for ever instead of waiting for new blocks.
- The first chunk of a worker stores the head as the pair's progress. After a
  failure, the retry takes that for finished work and reports success.
- Two first subscriptions of a pair that overlap both find two elements in the
  list, and no handler is started.
- Paths of a search that go on from one token share an array when it has room
  (`Room`). In the chain a - b - c - d - e - h with a second pair of d, added
  after the pair d - e, the path from a to h comes back with that pair in place of
  d - e, and is cached.
- `CalculatePrice` begins with the Token0 of a path's first pair, whichever token
  was asked for. If the token is the Token1 of the only pair of a path, the inverse
  of its price enters the average.

Limits that the properties state rather than refute:

- A failed token or pair insert is only warned about and the window recorded all
  the same, so `NoPairLost` is claimed for runs in which these inserts succeed.
- A token that does not unpack has no metadata entry, and `insertTokenWithMetadata`
  indexes by position: the tokens after it get the data of others, and the last
  index ends the process (`Panic` of `Backfill`). `MetadataAligned` says exactly
  which entries are left out, `EntriesCounted` how many there are.
- A pair that connects two tokens three or more hops apart does not remove the
  nil cached between them; `NearestRight` says what the invalidation does reach.
- `SingleHandler` ends with the first subscription that ends, because handlers
  outlive their subscribers. A broadcast that copied the list before an
  unsubscription sends on the closed channel (`Panic` of `PriceFeed`).
- Retries take no tick of the rate limiter, so `Paced` allows `MaxAttempts` calls
  per tick. The wait after the last attempt is made as well. A wait for the
  limiter does not end with the context, and after `Close` it never ends, with
  the mutex held: `Returns` is claimed until then.
- One reverting token fails a batch of metadata. The repetition token by token
  gives made-up data to a token whose own request fails for any reason, which
  `Backfill` then stores for good; a last batch of one token fails the whole
  operation (`OnlyLoneBatchFails`).
- `GetPairTokens` packs methods that the ERC20 ABI does not have, so with this
  client it fails always, and so does every collection of history; `History` is
  a model over the interface `EthClient`.
- The lowest downward batch near genesis wraps and is lost (`Lost`). A downward
  checkpoint is the upper end of its batch, so that it says "from here upwards".
  Rows hold the reserves of the head, not of their block: `NeverOlder` is what is
  left of it.
- `PriceDirected` is what is true of prices beside the finding: a path that begins
  with the token asked for enters the average with the token's price, and a path of
  several pairs that does not begin with it fails in `CalculatePrice`, so that no
  wrong price of it is averaged (it counts in the divisor of the confidence all the
  same). It is said of paths of up to four pairs: a longer one need not end at the
  stable token.
- Reference pairs that change while a price is computed, paths that a search caches
  although a pair changed under it, and prices of rows collected long after their
  block are in the models; no property is claimed of them (`hazards` of
  `PROJECT.json` says so at each line).

### Bounds, and why they are enough

`backfill_*`: three pairs over three tokens, so that tokens are shared between
windows and a window holds one pair or two (created at blocks 2 and 4); the
third pair (block 8) appears when the first sweep is under way, so that only a
sweep that begins later finds it. `BlockRange` 3 with heads 6 to 8 gives two or
three windows and both ways of reaching the bottom: on block 0 (head 6), or
wrapping (7 and 8). `ChunkSize` 2 gives workers several chunks. `TokenBatch` and
`MetadataBatch` 2 give batches that are full, short, and of one. Two faults with
2 or 3 retries let an attempt fail and be repeated, and in `backfill_live` also
exhaust the retries. Two restarts are a crash, and a crash of what resumed;
`MaxId` 5 leaves ids for the windows of two sweeps and for statements that
failed, so that rows, gaps and the overwritten row 1 come in every order.
`MaxBigint` 15 is above every block and small enough to wrap. `backfill_live`
spreads the pairs so that the first window is empty (`CreatedApart`). A token in
both does not unpack, so the process may panic. `MaxHead` lets two blocks appear
during a sweep.

In `backfill_safe` the calls that fail are those whose failure, by the code,
loses nothing: reads, and the write of the window's record. The failures of the
other writes are the finding and the limit above.

`feed`, `feed_unwatched`: two calls for one pair, and three for the finding.
Calls for different pairs share only `watchCancel`, which has no effect here,
and the locks. With two calls an append grows the array, writes in place into one
that broadcasts still walk (after a rollback), and a rollback hits the element of
the other call. A channel of one cell is full as
soon as the initial price is in it. One attempt and three events reach the limit
of attempts, a resubscription, and events after it. Safety and liveness are
checked on the same states. That third and later calls change nothing is what
the proofs of section 4 say for every number of calls.

`graph_safe`: eight pairs over eight tokens. From a over WETH the way leads to
c, which forks: over d to two leaves, and over e to g. So a search from a to g,
before the pair WETH - g is added, goes through a path of three edges whose
array has room, queues its two extensions in that array, one over the other, and
finds and caches a path of four pairs beside them; once WETH - g is there the
path has two, by the branch for WETH. The stem WETH - c, an inner edge of the
long way, has two versions. Two finders, alike, store over each other. Two
CONSTRAINTs bound it: the pairs of the longer way are added from a outwards, in
either order of the branches (`StemFirst`; a pair that hangs on nothing yet is
one that no search from a meets), and a search from a to WETH, the second query,
overlaps no other search (`WethAlone`; pairs may change during it).

`graph_shared`: six pairs over seven tokens, the fewest that make a wrong path: a
path of three edges, two neighbours of its last token, and one pair behind the
first of them. One finder and one version of each pair are enough. `Room` is
{3, 5, 6, 7} in all runs, the lengths below 8 at which Go's arrays of this edge
type have room.

`client`: two callers, one with the operations of several requests, one that
contends. `MetadataBatch` 2 makes a batch with a reverting token, full and short
batches and a lone one; `ScanBatch` 3 a scan whose first token has no code. With
`MaxAttempts` 2 and two faults, a request is limited and fails after a
repetition, or fails and so does its second try. Each nature of a token occurs.

`history`: two pairs with a token in common. `BatchSize` 3 and `ChunkSize` 2 give
batches and chunks that are full and short. The ranges go upwards, downwards to a
start that is a batch's and to one that is not, downwards to genesis with a
lowest batch that wraps, and over no block. The head is at 5 or 6, so a range may
reach beyond it. Two calls and two faults let the second call go over what a
failed or crashed first one has left. `Wrap` 32 is above every sum of the bounds.

`pricing`: a token, WETH and three stable tokens, one with other decimals, over
five pairs that are added in any order while one caller asks. One pair has two
versions, with and without enough liquidity, so that stability and confidence
change during a call. `TopPairs` 1 gives two paths per price; with 3 the states
are too many, and more paths only make the average longer. There is one caller,
because calls meet only in the cache, which `graph_safe` checks with two.
`pricing_inverse` is the same instance with the property that fails.

Deadlock is checked in `graph_safe`, `pricing` and `pricing_inverse`, where
pairs can always change. Elsewhere it is not: `Run` may return, all events or
calls may be used up, a process that has ended in `PriceFeed` or `RpcClient`
stays ended, and in `graph_shared`, where pairs do not change, the only query is
answered in the end.

### Fairness

`Backfill`: weak fairness of `Run`'s steps together and of each worker's. That
is the Go scheduler: a goroutine that can run is run, and a call returns in the
end, with an answer or an error. Nothing is assumed about blocks,
cancellations, exits and restarts.

`PriceFeed`: weak fairness of each handler's own steps. Callers need neither
subscribe nor receive nor unsubscribe, and the node need not send anything.

`RpcClient`: weak fairness of the ticker, which ticks until it is stopped, and of
each caller's steps, which is the scheduler and the node's answering in the end.
Strong fairness of taking the mutex: a goroutine that waits for a `sync.Mutex`
longer than a millisecond is handed it (its starvation mode). Nothing is assumed
about callers, cancellation and `Close`.

## 4. What is proved

All for every value of the constants that satisfies the named assumptions.

| Theorem | States | Invariant |
|---|---|---|
| `Backfill_proofs!TypeCorrect` | `Spec => []TypeOK` | `TypeOK` |
| `Backfill_proofs!ProgressStaysWithinChain` | `Spec => []ProgressWithinChain` | `ChainInv` |
| `Backfill_proofs!RecordedPairsAreStored` | `Spec => []NoPairLost` if `FaultyCalls` and `LossyCalls` are disjoint | `LossInv` |
| `Backfill_proofs!BackfillImplementsSweep` | `Spec => SweepRefined` under the same hypothesis | `SweepInv` |
| `BackfillWorkers_proofs!SuccessCoversPair` | `Spec => []SuccessCovers` if also progress writes do not fail | `CoverInv` |
| `BackfillWorkers_proofs!WindowsAreProcessed` | `Spec => RecordedWhenProcessed` if also `MaxFaults < MaxRetries` | `CoverInv`, `AttemptsCounted` |
| `BackfillRows_proofs!RowsTypeCorrect` | `RowsSpec => []RowsTypeOK` | `RowsInv` |
| `BackfillRows_proofs!RowsImplementRegister` | `RowsSpec => ReadsLastWrite` | `RowsInv` |
| `BackfillRows_proofs!RestartsLoseNoPair` | what `NoPairLost` says of `global`, of the block read from the rows, under the hypothesis above | `RowsInv`, `LossInv` |
| `PriceFeed_proofs!BindingsAreShared` | `Spec => []OneBinding` | `BindingInv` |
| `PriceFeed_proofs!RollbacksAreSafe` | `Spec => []RollbackInBounds` | `HeldInv` |
| `PriceFeed_proofs!FeedTypeCorrect` | `Spec => []TypeOK` | `FeedInv` |
| `PriceFeed_proofs!ClosedAreUnlisted` | `Spec => []ClosedUnlisted` | `FeedInv` |
| `PriceFeed_proofs!SubscriptionsAreListed` | `Spec => []ListedOnce` | `OnceInv` |
| `PriceFeed_proofs!HandlerIsSingle` | `Spec => []SingleHandler` | `WatchInv` |
| `PairGraph_proofs!CachedIsCurrent` | `Spec => []CachedCurrent` | `IInv` |
| `PairGraph_proofs!GraphTypeCorrect` | `Spec => []TypeOK` | `NearInv` |
| `PairGraph_proofs!NearestStaysRight` | `Spec => []NearestRight` | `NearInv` |
| `PairGraph_proofs!ShortPathsConnect` | `Spec => []ShortConnects` | `LinkInv` |
| `RpcClient_proofs!TicksPayForCalls` | `Spec => []Paced` | `IInv` |
| `RpcClient_proofs!ClientTypeCorrect` | `Spec => []TypeOK` | `JobInv` |
| `RpcClient_proofs!MetadataIsAligned` | `Spec => []MetadataAligned` | `Aligned` in `JobInv` |
| `RpcClient_proofs!FallbacksAreEarned` | `Spec => []FallbackEarned` | `Earned` in `JobInv` |
| `RpcClient_proofs!EntriesAreCounted` | `Spec => []EntriesCounted` | `Aligned`, `Earned` in `JobInv` |
| `RpcClient_proofs!OnlyLoneBatchesFail` | `Spec => []OnlyLoneBatchFails` | `Lone` in `JobInv` |
| `RpcClient_proofs!BlocksAreComplete` | `Spec => []BlocksComplete` | `BlocksOK` in `JobInv` |
| `RpcClient_proofs!ScansAreKeyed` | `Spec => []ScanKeyed` | `ScanOK` in `JobInv` |
| `History_proofs!RowsAreNeverOlder` | `Spec => []NeverOlder` | `IInv` |
| `History_proofs!HistoryTypeCorrect` | `Spec => []TypeOK` | `WInv` |
| `History_proofs!SuccessfulCallsAreComplete` | `Spec => []SuccessCollects` | `WInv` |
| `History_proofs!CheckpointsAreTrue` | `Spec => []CheckpointTrue` | `WInv` |
| `History_proofs!BlocksAreStoredOnce` | `Spec => []StoredOnce` | `WInv` |
| `History_proofs!WritesStayWithin` | `Spec => WithinRange` | `WInv` |
| `History_proofs!ListIsNewest` | `Spec => []ListShowsNewest` | `TypeOK` |
| `Pricing_proofs!CalculatorUsesGraph` | `PricingSpec => Spec` | `AskInv` |
| `Pricing_proofs!PricesUseCurrentPaths` | `PricingSpec => []CachedCurrent` | by the theorems above |
| `Pricing_proofs!PricesTypeCorrect` | `PricingSpec => []PricingTypeOK` | `CalcInv` |
| `Pricing_proofs!ConfidenceIsSound` | `PricingSpec => []ConfidenceSound` | `Confident` in `CalcInv` |
| `Pricing_proofs!BasesAreStable` | `PricingSpec => []BasesStable` | `BasesNow` in `CalcInv` |
| `Pricing_proofs!PricesAreDirected` | `PricingSpec => []PriceDirected` | `SureInv` |

*ChainInv.* `ProgressWithinChain` is not inductive: both subtractions can wrap.
`WindowValid` says that a window that the node has accepted is not inverted, so
its start did not wrap; only such a window is recorded or makes the next cursor.
`WorkerBounds` says that a worker moves between its pair's creation and the
head, which with `FactoryAssumption` keeps its chunks from wrapping.

*LossInv.* What is recorded is covered because the window under way is covered
by the time it is recorded. `SweepStored` covers the windows above the cursor,
`WindowFound` says that the log query found every pair of the window,
`TokensKept` and `PairsKept` that between query and inserts a token or a pair is
always either stored or still to be stored. All four are claimed only while the
context is not cancelled: afterwards every call fails and pairs do drop out,
but the write of the record fails too.

*SweepInv.* A step of `Backfill` is a step of `Sweep` or a stutter (`StepMaps`);
all of the argument is in `Record`. `SweepOrder` says that the sweep under way
began no lower than the recorded one and at a block the node has had, and that
its cursor is not above its own beginning; so the record lowers the recorded
sweep or begins another. `PriorSwept` says that a sweep of which nothing is
recorded yet follows one that is complete: it was begun at `Genesis`, where
`SweepStored` of *LossInv* has reached block 0 (`GenesisCovered`), and what is
covered stays covered, because rows are never removed. With the context cancelled
neither holds, but then the record fails (`RecordCancelled`). `SweepFrame` and
`SweepOutside` carry both over the steps that do not touch the cursor and over
those of a `Run` that is not in a sweep, a crash and its restart among them.

*CoverInv.* A worker covers its range because the row it starts from is the block
of its pair's creation: `RowsFresh` says that the scan has reset the row of every
pair that it has inserted, whatever an earlier process left, and `Reach` carries
this through the worker, whose lowest block reached meets its next chunk. Hence
the hypothesis: if the write of a progress row fails, the finding
`backfill_retry` shows what happens. `Joined` says that workers run only while
`Run` waits for them.

*AttemptsCounted.* `Run` only logs that a worker failed and records its window all
the same. That this does not happen is a matter of counting: an attempt that
fails has cost a fault, so a worker has made no more attempts than there were
faults, and with fewer faults than retries none has given up; afterwards, only a
cancelled context fails workers, and then the record fails too.

*RowsInv.* The migration's row stays, and the row with the largest id is the
last write: the sequence only hands out larger ids, except its first, which
falls on row 1 while that is the only row. Only `Record` changes `global`
(`OnlyRecordWrites`), and restarts find row 1 in its place. With `NoPairLost` of
`Backfill` this gives `RestartsLoseNoPair`: a property of the register becomes one
of what a restarted process reads.

*HeldInv.* A rollback may take another call's element, so one cannot say which
elements are in a list. But one can count: a list has at least as many elements
as there are calls that appended and have neither failed nor unsubscribed. The
append adds one to both sides; a rollback or an unsubscription takes at most
one element and always one such call. Hence a call that rolls back finds the
list not empty.

*FeedInv.* The elements of a slice are in an array that some call allocated. An
append in place writes beyond the length of this list only, because `ArrayOwn`
says that the array of a pair's list was allocated by one of its own calls, so no
two pairs share one; a call that allocates has not appended before (`Past`), so
it does not take an array in use. `Elements` then says what is listed: calls of the
pair, each once, none of them closed. Removing one in place shifts the others
(`Removed`), and what is left behind the new length is claimed by nobody.

*OnceInv and WatchInv.* As long as no call of the pair has failed, the count of
*HeldInv* is exact, and every call that holds an element finds itself in the list.
A call that found the list to have one element is thus the only one in it
(`AloneInList`), and a second one that looks finds both: so one handler is
started, although the look is without the lock.

*IInv of PairGraph.* Only a call that is not overlapped stores a path for good,
so what such a call holds must be current all along: its first legs, the paths
of its queue and the path it is about to store (`ReadsCurrent`). A change of a
pair keeps this because it overlaps every call that holds anything (`Resting`:
an idle call holds nothing), and keeps the cache current because
`invalidatePathCache` removes every path with an edge of the pair. Sharing of
arrays does no harm here: the edge that takes the place of another is current
too.

*NearInv.* That a cached path of one or two hops stays right when pairs are added
is half the proof: such a pair touches an end of the key, and its path is removed.
The other half is that the search finds one. `Listed` says that the list of a
token holds its pairs, each once, so that a loop over it that finds nothing
(`FirstFinds`) has seen them all. `Seen` says what a call that is not overlapped
knows where it is: after the first branch that no pair has both its tokens, and
in the search (`Frontier`) that every token between the two is still in the queue
with a path of one edge, before all longer ones. The step that takes the head of
the queue keeps this (`FrontierKept`): the tokens next to the first one are queued
because each has a least index in the list (`FreshReaches`) and none is left out
(`InOrderOnto`), and a head that is between the two ends the search.

*LinkInv.* That a path connects its key is a fact about the search, and the shared
arrays disturb it: what is overwritten is the edge behind the current path, whose
length is in `Room`. Lengths 0, 1, 2 and 4 are not, so the edge is never one of the
first three (`RoomAssumption`). Hence `Reaching`: an item of the queue whose path
has at most three edges connects the first token of the search to the item's
token, whatever its siblings do, and the search finds its goal with one edge more,
which is appended to a path that nobody queues again (`Found`). That gives four.
Longer paths keep only `Begins`: their first edge has the token and the second
does not lead back to it, which is what the calculator sees of them. `Tied` holds
also for overlapped calls, until they store. The one- and two-hop branches of
`FindPath` are separate cases of the same facts. `Connects` states with a function
from positions to tokens what `ShortConnects` computes with the recursive function
`Chain`; that the two agree takes a least counterexample.

*IInv of RpcClient.* `Paced` bounds the calls of a tick, so one has to know who
makes them. `OwnTick` says that two requests under way never have the same tick,
`Unspent` that the tick in the channel is nobody's yet, `CallsCounted` that a
request has made as many calls as it has had attempts. The tick is taken with the
mutex held, and taking it empties the channel: that is the step that needs both.

*JobInv of RpcClient.* The other properties are about `job[c]`, and a step of the
client changes at most one job, in one of three ways (`JobStep`): an operation
begins, an answer or a failure is worked into it and its next request issued, or
it fails. So each is an invariant of a job, with a weaker form that holds between
the answer and the next request (`BlocksMid`, `LoneMid`, `AlignedMid`).
`Aligned` cuts the tokens asked for into those that the entries answer for, the
ones asked for now, those of a failed batch to be asked one by one, and the rest;
that the entries follow the first part is stated with `Picked`, the loop that
appends what passes. `Lone` says that full batches lie before what remains, so
that only a last batch of one has no second try. `Earned` weighs made-up entries
against the faults counted.

`EntriesCounted` needs both. The entries are as many as the positions that were
kept (`PickedCount`), the tokens there are distinct (`TokensCount`), and all that
unpack are kept; the tokens kept beyond those have made-up entries, because an
entry of their own data is made only of data that unpack (`Named`), so they are
at most as many as the entries that `Earned` counts (`FallbacksCost`).

Two assumptions about the operations are stated for it in `ClientAssumption`: a
batch of metadata has more than one token (the code's has 10), and the tokens of a
metadata operation differ, because `ScanForPairs` collects them in a map.

*IInv of History.* Reserves come from the head at the time of `Multicall`, so a
row is not older than its block if the block is one the node had. `BatchMined`
carries that from `BlockTimes`, which fails for a block without a header, to the
store; `InBatch` and `Onward` keep chunks within the batch, also where its bounds
wrap; `AnswerRecent` relates the answer to the head.

*WInv of History.* `Wrote` says which blocks a call has stored at each place of its
code: those of the batches before its own (`BeforeBatch`) and of its own those
behind it. What is left are facts about the batches of a range, in arithmetic
modulo `Wrap`: a batch begins where the one before ends, and together they are the
range without `Lost`, the lowest batch that wraps (`AllBatches`). `Held` says that
what a call has stored stays, which makes its checkpoints true.

*ListIsNewest* is a fact about every table of prices that has its types: a common
table expression that keeps the rows to which no other is preferred is not empty,
because a finite set of numbers has a greatest element.

*CalculatorUsesGraph.* Every step of the calculator is a step of `PairGraph` or
leaves its variables alone. What has to be shown is that it only asks for paths
between tokens: its targets are ends of base pairs, which are finitely many, so
that a ranking of them exists as a sequence (`BasesFinite`, `TargetsTyped`).
With it, what is proved of `PairGraph` holds with the calculator as its user.

*CalcInv.* While a call goes through the stable tokens, `BasesNow` says which
pairs it must have by now: the edges between two stable tokens of which one is
done, because `Listed` has each pair in the lists of both its tokens; a change of
any pair ends the claim. `IsStablePair` looks at the first pair of its two tokens
and `FindStableTokens` at all of them, so that they agree takes
`OnePairAssumption`, that the factory makes no second one. `InTurn` counts a path
against the target it answers, and `PathConfidenceBounds` weighs the penalty of
the hops against the weakest edge.

*SureInv.* A path that the calculator keeps and that no change of a pair has
overtaken (`sure`) is one that `FindPath` returned to it: from the cache or from
its own search, with *LinkInv* for either (`SurePaths`, `Asking`). The rest is about
the data: `Walk` follows the path from the Token0 of its first pair, so it is the
way from the token exactly if that is the token (`WalkAlong`); each edge then takes
the worth of one token to the next and the sum telescopes (`PriceAlong`). If the
first pair has the token as its Token1, the walk steps onto the token with its
first edge and finds no end of the second pair (`Begins`), which is why
`CalculatePrice` refuses a path of two or more. `Walk` and the prices are recursive
functions, so both lemmas take the least position at which they fail.

A note on induction. The theorems of induction take an operator, which the provers
do not instantiate. Where a fact needs it, the proofs take the least
counterexample: numbers are well-founded (`NatLessThanWellFounded`, `WFMin`), so a
set of them has a least element (`NatLeast`, `LeastIndex`). This is how loops over
sequences, such as `Picked`, batches of a range and least indices are dealt with.

Only model-checked: the liveness properties (`WaitEnds`, `CancelStops`,
`SweepDescends`, `BroadcastEnds`, `Returns`), since TLAPS does not reason about
fairness and ENABLED here. Only proved, and checked by no run: the types of the
rows (`RowsTypeOK`), `RestartsLoseNoPair`, and that batches do not overlap
(`StoredOnce`). Every invariant and every other action or temporal property of a
run that passes is stated by a theorem. `SuccessCovers` without its hypotheses,
`ActiveWatched`, `NewPairsFound`, `PathConnects` and `PriceOfToken` are false,
and the findings show it.

## 5. Assumptions

- The chain has no reorganisations below its head, and the head only rises.
- The node rejects a log query whose bounds are inverted or exceed int64.
- The factory was deployed above block 50000 (`FactoryAssumption`).
- One process at a time writes the backfill tables.
- A call that is under way when the context is cancelled is modelled as
  finished before the cancellation; later ones fail.
- Cancelling the context of an established event subscription has no effect on
  it (go-ethereum uses it for the request that sets it up).
- `Unsubscribe` is called at most once per subscription, after the call
  returned. A second one closes a closed channel.
- A shift of a slice under the lock is one step for a broadcast that walks the
  array without it.
- `FindPath` reads a list of edges in the step that gets it; an element that
  `AddPair` overwrites meanwhile is read before or after.
- Go's append doubles arrays of one and two edges, as its runtime does: an edge
  has 88 bytes, and no size class of the allocator leaves room for one more up to
  four. Beyond, any capacity is allowed (`RoomAssumption`).
- The tokens of the graph are finitely many (`FiniteAssumption`), and the exponents
  of `Worth` are whole numbers, as those of reserves and prices are.
- Between the same two tokens there is one pair, as the factory guarantees
  (`OnePairAssumption` of `Pricing`).
- A node answers a request of several calls for one block, its head at that time.
- Callers of the client share a context, as `Run` hands its own to all.
- A rate limit error is one that `retryWithBackoff` recognises; a request of
  which the context is done fails at once.
- Calls of `CollectHistoricalData` for a pair follow each other, and a block has
  one time, so that the time in the key of `pair_prices` tells nothing apart.
- Pairs that the calculator sees have reserves that are not 0.
- A process that panics loses its memory; in `PriceFeed` nothing follows.

## 6. Plan

What the project could still say:

1. An abstract graph whose cache is always right, and what `FindPath` promises
   against it: today `NearestRight` and `ShortConnects` say it for near tokens
   and short paths, as far as the code keeps it.
2. `Backfill` over `RpcClient` by refinement, operation by operation. What the one
   assumes of the other's metadata is stated and proved (`EntriesCounted`,
   `OnlyLoneBatchFails`); the other calls are single requests.
3. Liveness, if the provers come to support it.

## 7. Not modelled, and why

- `GetLatestPairPrice` reads a view that `RunMigrations` does not create, and
  `GetPairsForBackfill` is called from nowhere. `handleGetPrice` keeps no state:
  it hands the token to `GetPrice` as the address of a pair, and reads a
  `PriceUSD` that `GetPrice` never sets.
- `cmd/backfill` does not compile (it passes `historical.Config` for
  `types.Config`).
- Generated bindings, the generator, and the SQL migration files, which no Go
  code runs.
- The prices of `uniswap/service.go`: `PriceFeed` needs only whether a price was
  obtained. (A pair whose reserves are both 0 panics in `GetPrice`; that case is
  listed as a hazard.) `uniswap/eth_client.go` encodes and decodes one call.
- The prices and the TVL that `processBatch` computes. Its decimal adjustment is
  10 times the difference of the decimals, not 10 to its power, which makes all
  prices 0 for equal decimals; reserves are cut to 64 bits.
- TVL and reserves in the answer of `GetUSDPrice`; deviations from 1 that are not
  powers of two.
- Names, symbols and decimals of tokens, log lines, and durations of waits.
