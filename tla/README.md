# A TLA+ model of AuTopology

AuTopology indexes a source tree into a Neo4j code graph and answers questions
about the tree from that graph over the Model Context Protocol.  This directory
holds TLA+ modules for the parts of it where the order of steps matters, TLC
configurations that check them on small instances, and proofs checked by TLAPS.
`PROJECT.json` lists the runs, the source lines behind every definition, and the
mutants that show that each property can fail.

## Inventory

| Component | Code | State it keeps | Operations | What makes it correct |
|---|---|---|---|---|
| Indexing run | `indexer/src/index.ts` | locals of one run: list of paths, snapshot of recorded hashes, work lists, the file in hand | `indexRepo(full \| incremental)` | a finished run leaves the files of the tree in the graph; a recorded sha256 vouches for the file's subgraph; runs end |
| Graph writes | `storage-neo4j/src/repository.ts` | the graph: File, Function, TestCase, Module nodes and edges; `GraphMeta` with `indexed_at` | `applyBatch`, `deleteFileSubgraph`, `clearGraph`, `upsertModuleForFile`, `linkTestCasesByCalledNames`, `setIndexedNow` | no dangling or phantom edge; gate closed on a partial graph |
| Watcher | `indexer/src/watch.ts` | one debounce timer | file event, timer, `stop` | after the last save the graph catches up |
| Walk, parsers | `walk.ts`, `plugins.ts` | none | list files, parse, resolve imports | pure; seen by the run through what they yield |
| Response cache | `core/src/cache/*.ts`, `storage-neo4j/src/warm-cache.ts` | hot map per server process, warm rows in Neo4j, cold file per repository | `get`, `set`, `invalidateByNodes`, expiry | never an answer older than its stamp |
| Tool service | `mcp-server/src/service.ts` | freshness query in flight, active calls, lookup memo (in the repository object) | `runTool`, `cached`, `getFreshnessCached`, fifteen tools | an answer reflects what was published before the call; gate; every call is answered |
| Context budget | `core/src/budget.ts`, `progressive.ts`, `token.ts` | tokens used per call | `checkBudget`, `trackUsage`, `fitByBudget`, `maybeDetails`, `buildProgressiveOutput` | never grants beyond what is left; an answer says whether something was left out |
| Runtime spans | `runtime-hooks/src/index.ts` | aggregates, `OBSERVED_CALL` edges, hourly windows, `runtime_updated_at` | `ingestSpan`, `latestExecutionSnapshot`; read by `executionReality`, `queryExecutionTrace` | counts agree; an answer counts the spans of its lookback and explains its totals |
| Repo scope | `core/src/scope.ts`, `ids.ts` | none | prefixing of identifiers | repositories in one database do not meet |
| Queries | `repository.ts`, `retrieval.ts` | lookup memo | tests of a function or a file, impact, risk, refactoring plan, module boundary; ranking | what is there all the while is found, however many statements it takes; parts of one answer agree |
| CLI | `cli/src/index.ts` | none | `setup`, `graph create`, `graph prune`, `watch`, `ingest-runtime` | invalidates the warm tier after writes |

How they meet.  The CLI and the watcher start indexing runs, which write the graph
through the repository object; the server reads it through another one, in another
process.  The only agreement between them is the `GraphMeta` node: the run sets
`indexed_at`, span ingestion sets `runtime_updated_at`, and the server refuses calls
while `indexed_at` is null (`ensureScopeReady`) and stamps its cache entries with
both.  Every statement is its own transaction; there is no lock anywhere.

What is hard here.  A run has an await per statement, so edits of the tree, other
runs (watch callbacks exclude each other only by a debounce timer) and crashes fall
between any two of them.  The run compares the tree with a snapshot it took earlier,
reads each file twice, and writes a file's subgraph in four statements.  The server
reads a stamp, awaits, and stores under that stamp; it shares a query in flight among
concurrent calls; three cache tiers are filled at different moments, two of them
shared between processes.  `PROJECT.json` lists each hazard at its line.

## Modules

| Module | Models |
|---|---|
| `CodeGraph` | the graph of one scope, and what each repository call that writes it does to it |
| `Indexer` (`IndexerProofs`, `MCIndexer`) | one or more indexing runs over `CodeGraph`, the editor, crashes |
| `Watch` (`WatchProofs`, `MCWatch`) | the watcher, its timer and the callbacks, over the runs of `Indexer` |
| `Queries` (`QueriesProofs`, `MCQueries`) | tool calls that take several statements, over a `CodeGraph` that others write |
| `Serving` (`ServingProofs`, `MCServing`) | `Watch` and `Queries` over one graph: from a save to an answer |
| `RuntimeSpans` (`RuntimeSpansProofs`, `MCRuntimeSpans`) | ingestion of spans, and the tools that read them |
| `ToolCache` (`ToolCacheProofs`, `MCToolCache`) | a tool call's way to its answer: gate, freshness stamp, shared query, three tiers, memo; several servers, writers |
| `PublishedAnswers` (`ToolCacheRefinement`) | the abstract promise of `ToolCache`, and the proof that it is kept |
| `ContextBudget` (`ContextBudgetProofs`, `MCContextBudget`) | a tool call's budget, what fits into the answer and what it says of it, for all fifteen tools |

`CodeGraph` is shared: `Indexer` says in which order runs call its operations,
`Watch` composes `Indexer` with the timer that starts runs (`Watch` refines
`Indexer`: theorem `WatchIsIndexing`), and `Queries` reads it while writers call it
in any order.  `Serving` puts the last two together: its steps are those of the watcher,
of its runs and of tool calls, and it refines both `Watch` (`ServingIsWatching`) and
`Queries` (`ServingIsQuerying`), so that the runs are such writers.  `ToolCache` is about
any tool's answer, taken as one value; `Queries`, `RuntimeSpans` and `ContextBudget`
say what the producers behind it do.  These meet only in what the database does
between two statements, so that each may leave the others' state out.

One assumption is common to all of them: a Cypher statement that is sent by itself is
a transaction, and what it reads is modelled as read at one moment.  Neo4j's isolation
is read-committed, and a statement that is under way may see commits that happen
meanwhile; the models split time between statements, not within them.

The runs:

| Run | Shows |
|---|---|
| `indexer_lone` | one run at a time: the graph is what the texts say; runs are short and end |
| `indexer_full_reindex`, `indexer_ghosts`, `indexer_links` | what does not hold (below) |
| `watch` | two runs overlapping under the watcher: saves reach the graph |
| `queries_impact` | calls of several statements over a graph that anyone changes |
| `serving` | tests asked for while a watcher and its runs change the graph: what was saved is in the answers |
| `spans` | counters agree, answers count their lookback |
| `toolcache_servers`, `toolcache_shared`, `toolcache_returns` | answers are no older than promised; calls return |
| `budget_tools` | all fifteen tools around the limits of the budget |

## Indexer

State.  `disk` is the working tree; `file`, `syms`, `called`, `imports`, `tests`,
`modules`, `dependsOn` and `indexed` are the graph of one scope; the remaining
variables are the locals of each run, with `pc` the await it stands at; `quiet` is
history (no edit and no other run since the run started) and read by properties only.

Actions.  `Start` is the call of `indexRepo` with the walk; `GetFileSnapshot`,
`ClearNodes`, `ClearMeta` the statements before the loops; `HashFiles`/`HashFails` the
hashing pass and the comparison with the snapshot; `DeleteGone` one turn of the first
loop; `ParseFile`/`ParseFails`, `DeleteOld`, `ApplyBatch`, `UpsertModule`, `LinkTests`
one turn of the main loop; `SetIndexedNow` the end.  `Crash` is the death of the
process or a refused statement at any await, `EditFile` the editor.  What the repository
calls do to the graph is in `CodeGraph`.  An `M...` operator before a definition is a
mutant of it, in every module.

Data.  A text is a model value and stands for its sha256; what the parser finds in it
is a constant function.  A function symbol is its name and path.  Paths are numbers
so that the walk has an order: it decides which imports can be linked.

A `TestCase` has its line in its id, so a batch writes over those that other texts have
left on that line and keeps the others: `WriteFile` keeps any of them.  Of the edges from
modules to files, which `upsertModuleForFile` doubles under another id, nothing is kept.

What holds with any number of overlapping runs, all proved.  Checked in `watch`, where two
overlap: `SymbolsCoverSha` (the functions and called names of the recorded text are in
the graph, and perhaps those of others) and `ModuleGraphCovers`.  Checked in `indexer_lone`:
`QuietRunMirrorsDisk` (a run that nobody disturbs leaves the files of the tree, with the
sha256 of their texts, after whatever crashed or failed before), `FirstIndexLinksBackward`,
`UnchangedFilesKept` (an incremental run that is alone removes nothing that is as in the
tree) and `RunsAreShort`, which says why runs
end: each step of a run takes one off a number that nothing else raises.  `QuietRunsHeal`,
proved only, says how long the symbols and test cases of replaced texts stay that
overlapping runs have left: until a run that nobody disturbs indexes the path again.  What
needs one run at a time (checked in `indexer_lone`, and proved): `ShaVouchesForSymbols`,
`EdgesMatchText`, `GateClosedWhileRebuilding`.  `RunsEnd` is liveness and only checked.

Bounds.  Two files are the least with an edge, a direction and an order; path 1 is a
test file in another module than path 2, so a test and what it tests are met in the
unfavourable order.  Two texts with different symbols, imports and calls and one that
does not parse give every transition of a file.  Two runs suffice for overlap: a run
meets another only through the graph.  Edits are unbounded.

Fairness.  `FairSpec` asks weak fairness of each run's own steps: an await is resumed
by the event loop, and the database answers or refuses.  Starts, edits and crashes
have none.

### What the code does not do

| Run | What happens |
|---|---|
| `indexer_full_reindex` | the snapshot is read before `clearGraph`, so a second full run finds nothing changed, and leaves an empty graph marked as indexed |
| `indexer_ghosts` | two overlapping runs leave symbols of a replaced text under the new sha256 |
| `indexer_links` | re-indexing a file detaches the `IMPORTS` edges into it, and the files that import it are not looked at again |

Without a run of their own.  An import of a file later in the walk gets no edge
(`FirstIndexLinksBackward` says which ones do).  `resolveImportSpec` does not find
`x.ts` for an import of `./x.js`.  The gate is still open on an empty graph after the first
statement of `clearGraph`, and stays open after a crash there; docs/adr/0007:20 expects
it closed.  `Concept`, `Module` and `DEPENDS_ON` elements stay when their last file goes.

### Proofs

All theorems hold for every set of runs, files, texts and names and every parser
(`DataAssumption`, `ParserAssumption`).

* `Typing`: `TypeOK` is inductive.
* `Coverage`, `ModuleCoverage`: the two invariants are inductive with `TypeOK`, since a
  batch is one transaction and a deletion one statement.  `GraphSteps` says once which
  of three writes a step can be.
* `QuietRunsMirror`: the invariant is about the last state of a run only, so it needs
  `QuietProgress`, which says at each await what a quiet run has established (the
  list and the snapshot are current, every path that is not owed agrees) and that
  nobody else runs.
* `QuietRunsLeaveNoGhosts`: with `Healing`, a quiet run has nothing at its path between the
  deletion and the batch, so that the batch is all there is after it.
* `UnchangedKept`: an incremental quiet run has on its lists only what differs from the
  graph (`OnlyWhatDiffers`, on top of `QuietProgress`), and a step touches one path.
* `FirstIndexLinks`: a quiet run over an empty graph has nothing to delete, and takes up
  paths in the order of the walk, so the paths before the one in hand are there already
  and linked backward (`FirstIndexing`, on top of `QuietProgress`,
  `NothingWithoutFile` and `SymbolsCoverSha`).
* `ShortRuns`: `StepsLeft` counts the awaits ahead; the sets it counts are finite, and only
  the run itself changes them.
* `LoneRunsExact`, `LoneRunsNoPhantoms`, `LoneRunsGated` assume that no two runs exist
  (`\A p, q \in Runs : p = q`).  They rest on `CleanSlate` (no File node between
  deletion and batch), `ResolvedFromText` (imports are those of the text in hand, also with
  many runs) and `NothingWithoutFile`.

Only model-checked: `RunsEnd` (liveness).

## ToolCache

State.  `content` and `stamp` are the graph and its `GraphMeta`; `warm` the
`WarmCache` rows; `cold` the file `cold-cache.json`; `hot`, `memo` and `inFlight` the
hot cache, the repository object's `localMemo` and `freshnessInFlight` of each server
process; the remaining variables the locals of each call, with `pc` the await it
stands at.  `publishedAs`, `reused`, `atBegin` and `atAsk` are history.

A starting server asks for the freshness before any call can (`createMcpApp` calls
`warmUp`): the slots `WarmUp` are these queries, `Clients` the others.  `Init` and `Restart`
leave a server with such a query in flight, for its first calls to join; what else `warmUp`
does, `getMeta`, leaves no state.

Actions.  `Begin` is the call of `runTool`.  `Gate` is the answer of `ensureScopeReady`, a
refused call goes on from the catch block (`failing`); `Ask` is `getFreshnessCached`, in
the catch block too.  `FreshnessRead` is the moment
the database answers, `FreshnessArrives`/`FreshnessFails` the moment the promise settles
for everyone who awaits it: a call may join between the two.  `HotHit`, `HotMiss`,
`WarmGet`, `PromoteWarm`, `PromoteCold`, `ColdMiss` are `CacheManager.get`; `MemoHit` and
`QueryGraph` the producer; `SetHotTier`, `SetWarmTier`, `SetColdTier` are
`CacheManager.set`.  `CallFails` is a statement or a file write that fails: the call goes
to its catch block and leaves what it has stored.  `Restart` kills a server, possibly
between truncating and writing the cold file.  `WriteGraph`, `SetIndexedNow`,
`ClearMeta`, `InvalidateWarm`, `InitSchema` and `IngestSpan` are the other processes:
statements of indexing, of `graph prune`, of a starting process, of span ingestion.

Data.  The graph is the number of writes it has had, and an answer is that number at
the oldest query behind it: an answer of several queries is at least as new as its
first.  A stamp is `indexed_at` and `runtime_updated_at`; the other two parts of the
code's stamp never change alone.  There is no clock: a lookup may find any entry too
old.  Synchronous code of a server is one step, except that `writeFileSync` truncates
before it writes and other processes see the file in between; while one call is in
there no other call of that server runs (`EventLoopFree`).

What holds.  `StampVouchesForEntry`: tiers are filled long after the stamp was read, in any
order, by processes that overwrite each other; still an entry is never older than the stamp
it is found by, because the stamp is read before the answer is produced.
`AnswersReflectQuery`: hence an answer has everything that was published before the
freshness query behind it was sent.  `AnswersReflectPublished`: if client calls do not share
a server, also everything that was published before the call began, except that a call which
begins while the warm-up query is still under way may join that one, and then counts from
when it was sent. `OneQueryInFlight`, `CallsReturn`: nobody awaits a query that is gone, and
every call ends.  `CallsAreShort` says why: no call has more than sixteen steps before it,
whatever fails, since a failure leaves it only its catch block, and nothing that other
calls, writers and restarts do adds one.  The first three are about keys outside `MemoKeys`
and states in which no stamp has come back (`~reused`); they need both, as the next section
says.

Bounds.  `MaxContent` caps the writes at 2 (1 in `toolcache_returns`): one before and one
after a call's reads, which is what an old answer under a new stamp takes.  `Instants`
has two values, so that an index or a span can come later than another, or one value
where `indexed_at` starts with it and `runtime_updated_at` null (a graph pruned and
indexed again by a running process): spans, schemas and prunes then set new stamps.
One key, since keys meet only in
the cold file as a whole, and overwriting it loses entries but changes none.  Two
client calls, and a warm-up for each server: on two servers they share the warm and cold
tiers (`toolcache_servers`), on one also the query, the hot tier and the memo
(`toolcache_shared`).  Calls, and with them
servers where each has its own, are interchangeable, so those two runs use symmetry.

Fairness.  `FairSpec` asks strong fairness of each call's steps.  The database answers or
refuses, and the event loop is a queue, so a call that is ready again and again gets
its turn although other calls write files in between.  Beginnings, failures, restarts and
writers have none.

### What the code does not do

Without a run of their own.  docs/adr/0006:41 wants a freshness query per call, and the
diary of 2026-02-18 "strict freshness correctness for sequential calls".  But a call may
join a freshness query that was answered before the call began, that of another call or,
with calls one after the other, the warm-up's, and get an answer
from before an index that finished earlier (`AnswersReflectQuery` is what remains).
The tools of `MemoKeys` answer from the memo what they found up to 1.5 s before the last
index, and that goes under the new stamp into every tier.  A span with the time of an
earlier one leaves the stamp as it was, so that an answer cached in between is served
without it (hence `~reused`).  A call that has passed the gate is answered although the
scope is cleared meanwhile.  A cached answer of `execution_reality` does not move on
with the clock, since the stamp does not.

### The promise

`PublishedAnswers` has neither caches nor stamps nor queries: writers write and
publish, a call asks, alone or with another call of its server that still waits,
and is answered with a past content of the graph, no older than what was published when it
asked.  `KeepsPromise` says that `ToolCache` implements it: `asked` is `atAsk` from the
moment the call awaits a freshness query, `answer` is the value once it is answered, and a
call answered from the memo counts as gone.  Every await in between, every tier, restart
and failure is a stutter, an answer, or calls that leave.  `toolcache_servers` checks it,
`CachePromise` in `ToolCacheRefinement` proves it, for calls that share servers too.

### Proofs

All theorems hold for every set of servers, calls, keys and timestamps, and any number
of writes.  `Typing` and `SharedQueries` (with `FlightsLand`: what is in flight has an
owner that awaits it) come first.  The rest is one inductive invariant, `Fresh`:
`StampVouchesForEntry` needs that a call has in hand nothing older than its stamp
(`InHand`), that needs that stamps are set in the order of the writes (`AskedInOrder`)
and that only memo tools are in the memo (`HandEmpty`).  Two lemmas go through the
actions once each: `EntriesFrom` (a step puts into a tier only what was in one or in
the hands of a call) and `HandSteps` (six things a step can do to a call); the
invariants are proved from these.  `EntriesVouched` and `AnswersNoOlderThanQuery` follow.
`SequentialAnswers` assumes that client calls do not share a server, so that each sends its
own query or joins the warm-up's (`AskedAfterBegin`).

`CachePromise` needs one more invariant, `Past`: no tier, memo or call holds a content
that the graph has not had.  Each step is then one of the four kinds the mapping can see
(`RewritesImplement`, `ForgetsImplement`, `AnswersImplement`, `QueriesImplement`).

`ShortCalls` proves `CallsAreShort` from the types and `OneQueryInFlight`: a step leaves a
call `Undisturbed` or takes from its `StepsLeft`, and a call that shares a query loses a
step when the database answers it and more when it settles.

Only model-checked: `CallsReturn` (liveness).

## ContextBudget

State.  One call of a tool: `call` is its input and what its query finds; `step` its
place in the tool's plan; `used` is the manager's `usedTokens`; `shown`, `hasMore`,
`relationships`, `details`, `outcome` and `tokens` are the answer; `granted` is history.
Calls share nothing here (each makes a manager), so one call is all of it, and it stops
when the answer is built.

Tools.  A tool is a record: what it reserves for an item, how many items its query may
return, the order of its steps, and what it calls an empty answer.  The order differs:
list tools fit their items first and then take the summary and the details in either
order, the others take the summary first and then the whole object or nothing.

Actions.  `Found`, `NotFound` and `Fails` are what the query comes to; `FitItems` is
`fitByBudget`, `ShowObject` `maybeRelationshipsObject`, `ShowDetails` `maybeDetails`;
`Summarise` is the `trackUsage` nobody checks; `Build` is the tool's own `truncated` and
`buildProgressiveOutput`.

Data.  A payload is its number of tokens; sizes of parts add up, so the rounding of
`estimateTokens` and the punctuation between parts are left out.  The items of
`understand_codebase` are its entry points, the only part its `truncated` looks at.
`trace_impact` sorts the fitted items back into upstream and downstream by identifier, so
a node in a cycle appears on both sides; that only makes its items larger.

What holds, for any budget and any sizes (all proved, and checked in `budget_tools`).
`GrantsFitLimit`: what an earlier part took, the unchecked summary included, is not
given out again.  `TruncatedIffWithheld`: each tool works out its `completeness` by hand
from a different mix of flags, and it tells every time whether an item that was found or
the details asked for were left out; what it does not tell of is the result object of a tool
that found no item, which alone may be refused.  `ListNeverEmpty`: a list
tool that found something shows something; it would not if it took its summary first,
as the other tools do.  `LevelsNested`: details never come without relationships, though
each is checked on its own and the manager may refuse one and allow a later one.

Bounds.  The numbers are the code's (4000 and 200).  The counts lie on both sides of
the points where 45- and 35-token items stop fitting, the sizes are small, a third of
the budget, and all but a few tokens of it.

What the code does not do, without runs.  docs/update_docs/04:19 calls the budget a hard
limit and :477 wants `trace_impact` to stay under it.  But an item counts as a flat 30 to 50
tokens whatever its size, so a list that is fitted whole and called complete may be larger
than 4000 tokens; the summary is never refused, and long input makes it large; what
`get_tests_for_function`, `find_tests_by_path` and `query_execution_trace` put beside the
items is not counted; an answer that found nothing, `safe_refactor_plan` with no impacted
file for one, is called complete or partial although its object was too large and is not
there.

Proofs.  `Accounts` is the inductive invariant: `used` is what was granted plus the
summary if it is past (`Told`), what the items or the object step leaves
(`ItemsShown`, `ObjectShown`), nothing before its step (`NothingEarly`), and an answer
judged by the flags (`Judged`).  All that is needed of the plans is `OrderOfSteps`, of
the rounding `FittingFacts`.  `BudgetAssumption` asks for a budget in which four fifths
hold one item of 50 tokens.

## Watch

State.  `watching`, `noticed` and `timer` are the watcher, what chokidar has still to
tell, and the debounce timer; the runs are those of `Indexer`.  `late` and `excused` are
history: runs that began before the last save, and whether the code promises nothing
about the graph at the moment.

Actions.  `Open` and `Stop` are `startIndexWatch` and the function it returns; `Save` is
the editor; `Trigger` an event's handler, which sets the timer again; `Fire` the timer's
callback, which starts a run whether or not one is going; `ByHand` the commands;
`GoOn` any step of a run, whose error the callback swallows; `Dies` the end of the process.

What holds.  `RestedMirrors`: when no event, timer or run is left, the graph is the
tree.  `GraphFollows`: and it comes to that once saves stop.  Both with an excuse for
what the code cannot make good: a run that failed or died (nothing tries again until
the next event), a full run (`indexer_full_reindex`), a save nobody watched or that
`stop()` cut off, and a run that began before the last save and is still alive when the
run for that save starts: it may write the older text last.  An incremental run that
starts alone ends the excuse.  `StopIsFinal`: after `stop()` nothing starts but by
hand.  `SymbolsCoverSha` and `ModuleGraphCovers` hold of the runs the watcher overlaps.

Bounds and fairness.  Two runs, two files, two texts that define and call different
things, two saves or commands (`MaxActs`): a save, or a command, during the run for an
earlier one, of the text that run has read or of another.  The graph is empty at first, and
so is the tree in one of the initial states; in the others there is an excuse until a run
has started alone.  `FairWatch` asks
weak fairness of the event, the timer and each run.  A debounce timer can be put off for
ever by saves that never pause; `MaxActs` excludes that, and only that reason needs it
for liveness.

Proofs.  `WatchIsIndexing`: every step of the watcher is a step of `Indexer` or leaves it
alone, so everything proved of `Indexer` for any number of runs holds here.
`SavesReachTheGraph` needs `Following`: a run that began after the last save has the tree as
it is in its lists, and a path that is not as in the tree is owed by such a run, or an event
or the timer is still to come.  `RestedGraphIsTheTree` says what that comes to for a reader
of the graph: with no event, timer or run left and no excuse, every function and module of
the tree and all called names of its tests are there, and nothing but modules and their
`DEPENDS_ON` edges is left of a file that is gone.  `WatchedUnchangedKept`,
`WatchedFirstIndex` and `WatchedRunsAreShort` carry the rest over from `Indexer`.  Only
model-checked: `GraphFollows`.

## RuntimeSpans

State.  `agg`, `edge` and `window` are the counters on `RuntimeSpanAggregate` nodes,
`OBSERVED_CALL` edges and `RuntimeWindow` nodes, each as the set of spans it has counted;
`present` the function nodes; `cli` and `at` each ingesting process and its timestamp; the
rest the locals and rows of each tool call.  `lasting` and `torn` are history.

Actions.  `ReadClock` takes the timestamp and `IngestSpan` writes it, awaits later and
perhaps in another hour; `Remove`, `Restore` and `ClearGraph` are what indexing does to
function nodes; one action per
statement of `executionReality` (of one function, or of
all) and `queryExecutionTrace`, the fallbacks included.  `ResolveTarget` is the first of
those about one function (`resolveTargetNodeIds`): a name is looked up in the graph as it
is, or in the memo as it was, so it may find any function or none, and with none the answer
is `failed`.

What holds, proved for any spans, clock and number of calls, and checked in `spans`.
`WindowsAddUp`: the three counters agree, although edges are lost when a file is indexed
again and windows are not.  `AnswersWithinLookback`: no complete answer counts a span that
is too old.  `RecentSpansCounted`: none that is an hour inside the lookback is missed by an
answer that is not `failed`; `TotalsMatchRows`: samples and rows of one answer agree,
although four statements read them while spans come in, because what is counted only grows
unless the graph is cleared.

What the code does not do, without runs.  docs/adr/0004:25 wants windows to "support
lookback queries (30min, 1hour, ...)".  A window counts only when its hour starts within the
lookback, so that a lookback of up to an hour guarantees nothing, and one of half an hour
finds nothing at all in the second half of an hour.  A function whose node is away while its
file is indexed again, or was when its name was last looked up, gets a `failed` answer with
no samples, although its windows are there.  A partial answer's samples are lifetime counts
of outgoing calls, a windowed one's are of incoming calls.  Counters on edges are lost with
the file; the aggregates, which are not, are never read.

Bounds.  Three spans (one caller twice, one call of itself that fails), an hour of two
units and the first moment of the next, one call, limits of two rows.  Proofs.
`SpansInv` adds to the properties what each statement has established for the next
(`Answering`), and that a span counted anywhere was ingested.

## Queries

State.  The graph of `CodeGraph`; `memo` is `localMemo`; the rest are the locals of each
call, with `at` the statement it awaits.  `links` and `cleared` are history, and so are
`steady` and `cut` in a lookup: what has been there all the while, and whether a `LIMIT`
may have cut something off.

Actions.  `TestsForFunction`, `TestsByPath`, `TraceImpact`, `AssessChangeRisk`,
`RefactorPlan` and `ModuleBoundary` are the calls.  `FindFile` and `FunctionNames` are
the statements of `findTestsByPath`; `MemoHit` or `SendLookup`, `ReadTargets`,
`ReadDirect`, `ReadChain` and `ReadAlias` those of `getTestsForFunction`, which the other
calls go through for each name; `TraceUpstream` to `RuntimeSnapshot` those of impact and
risk, which a plan awaits at once (`left` is the set still to come); `ReadModule` to
`ReadCoupling` the five of `getModuleBoundary`.  `Fails` is a refused statement.
`Write` and `Clear` are the calls of any indexing runs, in any order.

Data.  Names match by `Like`, paths by `SuffixOf`; ranking by path, coverage (always
absent) and wording are left out.  One `Limit` stands for the limits 12 to 120, and any
choice of rows for every `ORDER BY`.  The score is computed in integers as the code does
in floating point, rounding apart.

What holds, proved for any repository, limits, number of calls and writers.
`SteadyTestsSuggested`: while a file is indexed again its functions and the `TESTS` edges
into them are gone for a moment, or for good if the run dies; a test case that has
called the function all the while is suggested all the same, with at least the
confidence of its called names, and from the memo too.  It holds because the statement by
called names is sent also when no target function was found.  `SteadyImpactFound`:
impact has what was connected to the target all the while, and a plan the files among it
(`WriteThePlan`: `inferFileFromNodeId` has none for a module), unless a limit or the plan's
slice cuts it off.
`RiskNotUnderstated`: the risk is at least what that amounts to; it needs that
the score grows with the blast radius (`ScoreGrows`), rounding and the cap at 50
included.  `BoundaryAgrees`: an orphan has no dependencies, dependents or cycle, and the
coupling is at least what is listed, since the first four statements read no more than
the last.  It would not hold if edges of modules could go; only `clearGraph` removes
them.

What the code does not do, without runs.  `isTestFile` takes more paths for tests than
`isLikelyTestPath`, and test cases of the difference are never suggested, whatever they
call; docs/update_docs/01-mcp-specification.md:299 wants all tests of a function.  A
direct `TESTS` edge has confidence .65 or .62, below the .66 of a name alone.
`findFileExact` answers for another file whose path ends in the one asked for.  An
unknown target has no blast radius, and a file between deletion and batch is one: its
risk is low.  A score of 70 is high and safe to proceed with, and none is above 90,
while :390 has review begin above 70.

Bounds.  `queries_impact`: two files that import each other in two modules, so that edges
form circles, and two rows, so that files are not cut, but files with modules may be; every
text defines one function and there are no tests, so lookups of a plan and of a path go
through their statements and find none.  Lookups that find something, with limits that cut,
are in `serving`.  One call at a time: calls meet only in the memo, which keeps what an
earlier call has found; the proofs are for any number.

Proofs.  `TestsSuggested` rests on `LookupInv` (a lookup under way has its steady callers
among those that still call), `ImpactIsFound` and `RiskIsCounted` on `TraceInv` (what is
no longer in `left` has been found or counted; `links` only shrinks), `BoundariesAgree` on
`BoundInv` (what was read is at most the degrees of the module, which only grow).

## Serving

State.  That of `Watch` and `Queries`, with one graph.  `upToDate` is history: the names a
call has looked up in the graph, and not in the memo, since every save is in it
(`Rested`: no event, timer or run is left, and nothing excuses the graph).

Actions.  `Index` is any step of the editor, the watcher or a run; calls under way are not
told, and what their history keeps as there all the while may get less.  `Serve` is the
beginning of a call, which needs `indexed` (`ensureScopeReady`) once; `Proceed` its
statements, `Refuse` one that fails, `Age` the memo's 1.5 s.

What holds.  `RunsWriteAsQueriesExpects` is the specification of `Queries`: `Queries` lets
writers do anything, with one condition, that imports resolve to targets of the text
that is written; a run keeps it although it parses in one step and writes in a later one.
Hence all that `Queries` promises of answers holds next to a watcher; `SteadyTestsSuggested`
is checked again here, where runs decide the order of writes.  `SavedTestsSuggested` needs
both halves: what is saved is in the answers once it is in the graph.  A likely test
file of the tree that calls a function is suggested for it, and `get_tests_for_function`
suggests no file that is gone, however runs overlapped, failed or died before, and
also when the next save comes between two statements: then the answer is not yet held to
it.  An answer from the memo is not meant, since it may be from before the last save; nor
one that a `LIMIT` cut; nor the tests of a plan or a path that are gone, for which an
earlier name's lookup may still speak.

Bounds.  One run, two saves or commands and one call: overlapping runs are in `watch` (and
here in the proofs), and
overlapping calls meet only in the memo, which stays from the call before.  Two test files
of which one is likely, two names, an alias in both, one lookup per path and one row per
statement, so that limits cut.

Proofs.  `ServingIsWatching` and `ServingIsQuerying` are refinements by projection: each step
is a step of the other specification or leaves its variables alone.  `ServingIsQuerying`
needs `ResolvedFromText` and the types to see a run's writes as those of `CodeGraph`.  So
`ServedTestsSuggested`, `ServedImpactFound`, `ServedRiskCounted` and
`ServedBoundariesAgree` follow from the theorems of `Queries`.  `SavesReachTheAnswers`
combines them with those of `Watch`: in a resting graph the called names are those of the
tree (`RestedMirrors`, `SymbolsCoverSha`), a name in `upToDate` has had its callers all
the while since it was sent (`SoughtIsSteady`), so that `SteadyTestsSuggested` speaks of
them, and what a lookup found then is a file of the tree (`FoundIsThere`, with
`NothingWithoutFile`).  These two make `AnswersFollow`, which is inductive: any save or
write that is not of a resting graph empties `upToDate`.

## What remains

Only liveness is left to TLC (`RunsEnd`, `GraphFollows`, `CallsReturn`); every invariant and
action property of the runs is stated by a theorem.  Reads inside one statement are taken
as atomic.  Two scopes in one database, and the order of flow steps in `followData`,
are the next things worth a module.

## Not modelled

Ranking and retrieval (`findTarget`, `retrieval.ts`), `followData`,
`understandCodebase`, `getContextForTask`, `generateContextForLlm` and the resources
read in one or two statements, rank and format; what matters of their answers is
modelled for any tool (`ToolCache`, `ContextBudget`).  Parsers are constants of
`CodeGraph`.  Identifiers and scopes, settings, path checks, logging, protocol
registration, command-line handling and packaging keep no state.  `PROJECT.json` gives
the reason for each.
