# Verification of jevgrep

jevgrep answers a natural-language question about a repository: it prepares the
files of an authorized root into fragments, asks a remote model to score every
fragment, and returns the best excerpts under a token budget, with a report that
accounts for what was scanned, sent and spent.  It runs as a command line and as
an MCP server on stdio.

This directory holds TLA+ models of the parts where the order of events decides
whether the program is right, the TLC configurations that check them, and the
proofs that TLAPS checks.  Paths below are relative to the repository; the
program is in `src/`.

## The system

| Component | Source | State | Operations | Hard behaviour |
|---|---|---|---|---|
| Search engine | `engine.ts` | per search: usage account, scores, plan | search, searchMany, continuation | one pipeline, many error exits |
| Evaluation scheduler | `evaluation/scheduler.ts` | cursor, terminal flag, cool-down, per-worker attempt | dispatch, retry, unwind | concurrent workers, every await is a gap |
| Search lifecycle | `lifecycle.ts` | stop kind, stop reasons, disposables | stop, cancel, deadline, dispose | a deadline noticed by reading the clock or by its timer |
| Provider adapters | `evaluation/jev.ts`, `http.ts`, `openrouter.ts`, `vercel-gateway.ts` | none | one bounded exchange | ambiguous failures: sent, perhaps billed |
| MCP server | `mcp.ts`, `mcp-calls.ts`, `mcp-framing.ts`, `mcp-jsonrpc.ts` | active ids, running and queued call, pending output | call, cancel, progress, shutdown | cancellation against completion, unread output, shutdown |
| Preparation pool | `source/prepare-pool.ts`, `prepare-worker.ts` | slots, tickets, results, waiters | submit, wait, forget, collect, lease | workers that die, results nobody waits for |
| Local directory | `local-directory.ts` | files of a private directory, a writer lock | read, write, remove, withLock | several processes, crashes, recovery of a dead owner's lock |
| Score cache | `evaluation/cache.ts` | one file per entry, sizes, shard stamps | read, writeMany, evict, clear | expiry, eviction under a byte limit, other processes |
| Preparation cache | `source/preparation-cache.ts` | shards in memory and on disk, dirty set | lookup, store, flush | lost flushes, stale verdicts |
| Planning and priority | `planning.ts`, `priority.ts`, `evaluation/policy.ts` | none | batching, admission under caps | limits on bytes, tokens and items at once |
| Selection and rendering | `response/*.ts` | merged ranges, budget | plan, fit, commit, render | a measured budget that the rendering must respect |
| Freshness | `source/freshness.ts` | verdict per file | check | files that change between scoring and answering |
| Source authorization | `source/authorization.ts` | pinned root, invalidated flag | read, list, resolve | every name may be replaced between two system calls |
| Inventory and preparation | `source/inventory.ts`, `ignore-rules.ts`, `prepare.ts`, `snapshot.ts` | stack of directories, counts, files read ahead | walk, read, check content, chunk | a tree that changes while it is walked, limits, stops |
| Chunkers | `source/chunker.ts`, `javascript-chunker.ts`, `line-windows.ts`, `*-boundaries.ts` | none | scan, plan, pack, cut | limits on lines, bytes and tokens at once; nothing may be lost |
| Windows attributes worker | `source/windows-attributes*.ts` | one helper process | query, time out, restart | a helper that hangs |
| Inspect | `inspect.ts` | none | inspectScope | its foresight must be what a search does |
| Configuration, init, CLI | `config.ts`, `init.ts`, `cli*.ts` | none | parse, create files, exit codes | exclusive creation of files |

How they interact.  The CLI and the MCP server call the engine; the engine owns a
`SearchContext` (lifecycle) that every stage polls (`canStartWork`) or awaits
(`signal`).  Preparation runs on the main thread and on pool workers and consults
the preparation cache; scores come from the score cache or, through
`runEvaluations`, from a provider.  The scheduler calls back into the engine three
times per attempt (`onDispatch`, then `onScores` or `onFailure`), and those
callbacks own the usage account.  Selection revalidates the files of what it picked
(freshness) before the report is rendered and checked against its contract.  Both
caches live in a `LocalDirectory`, whose lock excludes other processes.

What makes each part correct:

- evaluation: the usage account is exact, the caps hold, what may be billed is not
  sent twice, rate limits bind every worker, a stop is final, the report explains
  the scores that are missing, and the whole ends;
- MCP server: one search runs and one waits, cancelled calls stay silent, every other
  call is answered once, unread output is bounded, and the server ends;
- pool: a ticket has one result, nobody waits for a dead worker, forgotten results
  are dropped;
- lock and caches: one writer at a time, only a dead owner's lock is taken over, a
  cached value is never stale or of another identity, the byte limit holds;
- planning: batches measured in parallel are those of measuring them in turn, what is
  sent is the longest part the caps have room for, and what is told of the plan is true;
- selection: the response fits its budget, a range is never from a changed file;
- authorization: what is read is one version of a file of the pinned root;
- preparation: the eligible files and no other are prepared, and a preparation that left
  something out does not say that it is complete;
- preparation cache: no outcome of other bytes or another version, no work forgotten;
- chunkers: no line is lost, every fragment fits, a statement keeps its comments.

## Modules

| Module | Models | Kind |
|---|---|---|
| `ProviderExchange` | one attempt, from the HTTP reply to what the scheduler is told | operators |
| `Evaluation` | scheduler, engine handlers, lifecycle; extends `ProviderExchange` | state machine |
| `EvaluationProofs` | theorems about `ProviderExchange` and `Evaluation` | proofs |
| `SearchSlots` | what the MCP server promises about its calls | abstract specification |
| `McpServer` | server, call scheduler, shutdown; implements `SearchSlots` | state machine |
| `McpServerProofs` | theorems about `McpServer`, the refinement among them | proofs |
| `PreparePool` | pool and its leases, workers, preparation loop, token counts | state machine |
| `WorkProofs` | theorems about `PreparePool` and `Planning` | proofs |
| `WriteLock` | writer lock of a local directory, deaths and recovery | state machine |
| `StorageProofs` | theorems about `WriteLock` and `PreparationCache` | proofs |
| `ScoreCache` | score cache: passes under the lock, readers, deaths | state machine |
| `ScoreCacheProofs` | theorems about `ScoreCache` | proofs |
| `SourceAccess` | reads and listings, one system call at a time; the Windows attribute helper | state machine |
| `SourceProofs` | theorems about `SourceAccess`, `Preparation` and `Chunking` | proofs |
| `Preparation` | inventory walk, ignore rules, preparation loop | state machine |
| `PreparationCache` | preparation cache and the content stage that uses it | state machine |
| `Boundaries` | scanners of Python and Java, walk of the trees of Go and Rust | operators |
| `Chunking` | plans of units, windows and fragments; extends `Boundaries` | state machine |
| `Attachment` | what must stay together in a range of `Chunking`, defined anew on the text | operators |
| `Planning` | batches, the plan under caps and budgets, priority, preflight, `inspect` | state machine |
| `Selection` | ranges of lines chosen under a budget | operators |
| `Search` | a search from the request to its report, continuation included; extends `Selection` | state machine |
| `SearchProofs` | theorems about `Search` and `Selection` | proofs |
| `SumTheorems` | sums over finite sets, least elements and inductions, for the proofs above | proofs |
| `MC...` | constants for TLC, one for each state machine that needs them | |

How they compose.  `Search` is the whole pipeline with every stage reduced to what it may
end with; the other modules open the stages.  `Preparation` opens its preparation (what a
preparation calls complete, which files), `SourceAccess` one read of it, `PreparationCache`
and `PreparePool` how a file's content comes from the cache or a worker, `Chunking` how it
becomes fragments.  `Planning` opens the free choice of `Plan`, `Evaluation` the step from
planned to scored, `ProviderExchange` one attempt of it.  `WriteLock` and `ScoreCache` are
what the caches stand on.

### ProviderExchange

A reply is what provider and network make of an attempt: lost before a status is read, a
status, a body that can or cannot be received and parsed.  `Failures` is the set of what
the scheduler may be told of a failed attempt, each with whether the provider may have
billed it; `Evaluations` what it may be told of an answered one.  `BoundedFetch`,
`ClassifyStatus` and `DecisionFailure` follow the direct and OpenRouter adapters,
`StatusFromError` and `ClassifyGatewayError` the gateway, whose SDK wraps errors to any
depth while the code looks through four.  The answers of a reply are a sequence of keys as
they are in the text, repeated or not, since the code re-reads the raw text for keys that
`JSON.parse` hides.  `Evaluation` draws the ends of its attempts from both sets.

### Evaluation

One step is the code between two awaits.  `pc[w]` says where a worker of
`runEvaluations` waits: in `pauseUntil` ("pausing"), after it returned true
("ready"), for the provider ("inflight"), or nowhere ("done").  `next`, `terminal`
and `cooldownUntil` are the closure variables of the same names, `aborted` is
`controller.signal.aborted`; `stop` and `stopReasons` are the fields of
`SearchContext`; `usage` is the engine's `UsageAccount`.  `ledger` is history: what
became of each attempt of each batch, read by no action.

- `PauseOver`, `PauseAbandoned`: the two results of `pauseUntil`.
- `NothingLeft`, `StandDown`, `AdmissionThrows`, `CapReached`,
  `DeadlineInAdmission`, `Dispatch`: the ways on from a ready worker, in the order
  of `admitBatch`.  The admission and the reservation are one step, as they are
  synchronous in the code.
- `ProviderFails`, `Abandon`, `LateAnswer`: the catch block, for a failure of the
  exchange, an aborted wait, and an answer after the deadline that its timer has not
  announced yet.  `HandleFailure` is the block itself, `onFailure` included.
- `AnswerWithUsage`, `AnswerWithoutUsage`: `onScores`.
- `Report`, `Reject`: the end of `runEvaluations` and what the engine makes of it.
- `Tick`, `DeadlineTimer`, `ClientCancel`: the clock and the two stops.

What a failure is and what an answer scores come from `ProviderExchange`: `ProviderFails`
picks of `Failures`, the answers of `Evaluations`.  `UsageAgrees` are the cross-checks of
the contract on the usage of a report.

The clock counts ticks and stands still at the deadline, after which no behaviour
depends on it.  The Retry-After values, the jitter and the tokens an answer reports
are chosen freely from small sets.  A price that is unknown while a cost cap is
enabled is not modelled: the cap would then refuse every batch.  Nor is an error of the
exchange that is neither a `ProviderError` nor an abort, which the catch block rethrows
(`scheduler.ts:83`): the adapters turn theirs into one.  An admission that throws sets
`terminal` and aborts in a promise callback of its own (`scheduler.ts:103`);
`AdmissionThrows` does it at once: a worker that is admitted in between could as well have
been admitted right before the throw.

### McpServer and SearchSlots

`calls` is the state of `createCallScheduler`; each of its operations is an operator
from that state to the next.  A step of the server is one macrotask with the promise
callbacks it drains: a line from the client (`Receive`), the end of the input, with
or without an unterminated last line (`InputEnds`, `InputDestroyed`), a search that
settles (`EngineSettles`) or notifies progress, a stream error, the grace timer, and
the resolution of the server's own promise.  Output is counted in messages, and
`MaxPending` stands for the byte limit.  Lines are the kinds that framing and JSON-RPC
validation let through or refuse (`Malformed`, `AnsweredAtOnce`, `Silent`); a search ends
with the outcomes of its questions or throws, and `ToolResult` says which of these are an
error of the call.  `SearchSlots` says what the lifecycle rules
at the head of `mcp.ts` promise, per call; `McpServer` implements it under the
mapping `Phase`.

### PreparePool

`pool` is the object `PreparePool` in its asynchronous mode, and its methods are
operators from one state of it to the next; `resolved` stands for the promises that
`wait` returned.  The ports deliver in order (`inbox`, `outbox`), and as tickets are counted
up each is the set of its tickets, of which the least comes next.  A worker may die with
replies still under way, and its `error` and `exit` events are handled later
(`SlotFails`); replies and events of one worker may be handled in either order.  A
step of the main thread is the code between two returns to the event loop: of the jobs it
submits one after the other, `Routes` says which slot each is given to, by the loads that
those before it leave.

- `WorkerReplies`, `WorkerDies`, `SlotFails`, `Deliver`: workers and events.
- `Begin`, `TakeTurn`, `StopAtTurn`, `GoOn`, `Resume`, `StopAfterFile`, `Done`: the
  generator `preparationSteps` under its cooperative driver.  `TakeTurn` is
  `readAhead` and the shift, up to the `yield`; which files need a job (the cache
  holds the others) is chosen freely.
- `CountBegins`, `CountEnds`, `CountAborts`: `countTokensWithAsync`.  A signal already
  aborted when it is called is `CountAborts` right after `CountBegins`.
- `CloseIdle`: nobody took a lease before the idle time was over; the workers are ended,
  whatever they still owed, and the next caller starts another pool.

Callers come one after the other, as the engine's searches do, and share the pool, each
under a lease.  The contents of results, the byte thresholds that decide whether a pool is
used and the blocking mode are left out.

### WriteLock

A step is one call of the file system, or several of which only one can be seen or
disturbed.  A marker is a pair of a process and the number of its attempt, as the
marker's name is a process identifier and a random one; it also names the directory
made with it, so that `lock` says which directory is at `.write.lock`, `candidates`
which are still under their first name, and `marked` which hold their marker.
`Start` to `RenameFails` and `Enter` follow `withLock`, `Open` to `RmdirFails`
`#recoverLock`, `Leave` to `Cleanup` the finally block.  `assertCurrent` compares
device and inode, and an inode may be given to a new directory: the check of a
directory that was replaced may therefore pass, and safety does not rest on it.
Any process may die at any step, and its identifier may be given to another program.
Errors of the file system other than contention are left out, except for a marker
that cannot be written.  `Start` is the clean-up of the candidates of the dead
(`#cleanLockCandidates`) and the making of the own candidate, in one step: what the first
removes no living process uses, but for the clean-up of another.

### ScoreCache

A step is one call of the directory with the code up to the next await.  `disk` is the
shared directory; everything else belongs to a process: `seen`, `known` and `total` are
`#sizes` and `#totalBytes`, `current` the shards whose kept stamp (`#shardStamps`) still
holds.  A stamp is modelled by what it tells, whether the shard changed since it was
taken: a change of a file takes the shard out of every process's `current` and spoils a
stamp that is being used (`fresh`).

- `BeginWrite`, `BeginClear`: a pass under the lock.  The lock is the one of `WriteLock`,
  taken here as exclusive, and as taken over when its owner dies.
- `Stamp`, `StampFails`, `ReadShard`, `ReadShardFails`, `Loaded`: `#listEntries`, one
  shard after another.  The stamp comes before the listing, and other processes' readers
  may remove files between them.
- `Write`, `WriteFails`, `Restamp`: the loop of `writeMany` and its `finally`;
  `Remove`, `RemoveFails`: `#evict`, or the loop of `clear`; `Release` ends the pass.
- `Reject`, `DiscardRejected`, `DiscardFails`: a reader that finds a file it cannot use
  and removes it by name, without the lock, in a step of its own.
- `WriteRefused`, `ClearRefused`: the lock is busy or the directory cannot be listed.

A write that throws stored nothing (`WriteFails`): it throws after its rename only when the
cache directory itself was exchanged (`local-directory.ts:99`), which is left out.  Clocks may
be set back, so every reading of one is any time.  `unseen` (files the process
could not look at) and `stuck` (files it could not remove) are history: no action reads
them, and the properties hold but for them.  Left out: how an identity is hashed, the
statistics, `enforceSizeLimit` (called by tests only), the temporary files a dying writer
leaves, and the granularity of time stamps, since a stamp that does not change with its
shard would be a fault of the file system.

### SourceAccess

The tree is one path of three names, and other programs (`Environment`) may make any name
stand for another object, or write a file, between any two system calls.  `at` is the call
that comes next; `Lstat`, `Realpath`, `LstatAgain` and `CheckChain` are the walk and the
check of the chain, `OpenFile` to `LstatAfter` a read, `ReadDirectory` and `Listed` a
listing, `CheckedCatch` what `#checked` does with a refusal: it looks at the root again and
invalidates it for good when it is another object.  On Windows a helper process is asked
for the attributes before the walk and before every check of a chain (`AskHelper`,
`HelperAnswers`, `HelperCloses`, `WaitTimesOut`, `HelperGone`).  `seen` (what the path has
been since the call began) and `lost` (a check found another root) are history.  The
lexical checks of `path-policy.ts` are left out: the path is one that passes them.

### Preparation

A step is what happens between two yields of `inventorySteps` and `preparationSteps`;
between two of them the tree changes (`Change`), and `hit` says that a read was disturbed,
which `SourceAccess` shows to be refused.

- `ScopeEntry`, `WalkEntry`, `InventoryEnds`: the walk of each entry of the scope, with the
  ignore files from the root down (`IgnoreStackFor`), exclusions by name, size and rule,
  directories pruned, files met twice through overlapping entries.  A request's scope has its
  overlaps removed (`contracts.ts:113`); `prepareScope` itself takes any, and `CountsFit` is
  about what it does with them.
- `ReadAhead`, `TakeTurn`, `Finish`: the loop with its limits on files, bytes and
  fragments, the order of priority that reads late files first, and the counts it returns.
- `Stop`: the deadline or a cancellation, in any step.

A tree is `Above`: the paths that lead to each path.  The entries of a directory are a set,
taken in the order of the paths (`Entries`, `Nearest`, `Without`); the ignore stack is a
sequence of rule lists, one for each directory on the way.  A pattern of an ignore file is the
set of paths it matches; of the orders of priority the one furthest from path order is taken.

### PreparationCache

An entry is a mutable object of the process (`heap`), which its memory, the list of dirty
entries and the jobs read ahead refer to; the stored entries are shared with other
processes.  `PrepareContent` is `prepareContent` with an entry: what it makes of the file,
how it leaves the entry, whether it rejects it.  `ReadAhead`, `Turn` and `Rebuild` are the
way of a file through the loop, with a worker (seeded with what the entry knows, or wrong)
or without; `FlushWrite` and `FlushFails` the flush at the end, one entry at a time, and
`Evict` the listing for the eviction, whose removals (`Discard`, `RemovalEnds`) and `Clear`
are steps of their own; `SearchAgain`, `Restart`, `Others` a later search, a restart as another version, and other processes that
store, remove or spoil entries.  `Fresh` is what the bytes and the running version give.
`log` is history: the parts of entries that updates recorded and no flush has come to, the
entries they updated, the bytes of which an entry was rejected; only a restart and a clear,
which empties the cache on purpose, start it anew.  An entry of other bytes or another version
(`Foreign`) is refused for its line count or not believed; one whose boundaries fit the file's
lines and limits and are yet not those of its chunker is accepted by `resultOf`
(`source/preparation-cache.ts:163`), and left out: a chunk record is its last line.

### Boundaries and Chunking

A file is its lines (bytes, tokens, blank or not) and, by language, its tokens or its tree.
`Boundaries` has the scanners: `Scanned` is one token of `scanLogicalLines` with its
brackets, continuations and comments; `JavaScanned` one of the Java scanner with braces,
parentheses and the statements that go on after a block; `Collect` the walk over the trees
that the parsers of Go and Rust give, which enters the bodies of containers two levels deep
(`Deeper`, `Deepest`).  A boundary is [line, depth, label].

`Chunking` is what becomes of them.  The recursion of the planners is a list `work`, the
innermost part first; `pending` is the unit that may still grow, if there is one.

- `LongLine`, `ParseFile`: the file that is refused, the strategy of a file, its windows when
  it cannot be parsed.
- `PackUnit`: `packUnits`, which refines a unit that is too large by the boundaries below.
- `PlanNode`, `PlanUnit`, `EndOfUnits`, `MergeTiny`, `Planned`: the recursive plan over a
  syntax tree, headers that are carried, tiny ranges folded, damage kept local.
- `EmitRange`, `EmitWindow`, `LineWindow`, `FinishChunking`: ranges cut to the limits.

Labels are modelled by what they point at, not by their words: a label is the first lines
of the symbols it names, the outermost first, under the policy `local` or one with context
(`policy`); a window of a range knows the declaration it was cut from.  Which node
introduces a symbol follows `symbolOf`, its name and signature are wording.

`Attachment` says of the text or the tree alone, with no scanner, at which lines no statement
starts (`GluedPython`, `GluedJava`, `GluedItem`), and `AttachedTogether` that none of the
ranges planned starts there.

### Planning

A step is the code between two requests for exact measures.  A question is what it adds to
a body on its own and what the tokenizer adds or saves where it follows another one, so the
estimate a batch is closed on may be too low or too high.

- `MeasureSingles`, `TakeMeasures`, `Closed`, `MeasureAborts`: `batchingSteps` under its
  asynchronous driver.  The first batch that does not fit sheds its tail (`Shed`), and the
  ones after it are closed again from there (`Reclosed`).
- `PlanScan`: the whole batches the caps have room for, the head of the next one found by
  bisection (`HeadLength`), rejection, estimates.
- `Prioritize`: a cap cut an allowed partial scan, so the plan is made again in priority
  order: `Ranked` by scores that may be anything, with a share of the places kept for the
  sweep in path order (`Interleaved`).
- `Unpriced`: a cost budget without a price.
- `InspectScope`: the command `inspect`, over the same batches.

`EnabledCaps` are the operator's caps lowered by the budgets of the call; `Preflight` is
what the report tells of the plan, `CheckPreflight` the contract's cross-checks of it.

### Search and Selection

`Selection` is `RangeSet` and the loop of `selectRanges` as operators: `Better` is
`compareCandidates`, `Offered` is `plan`, `Fits` and `Committed` are `fits` and `commit`,
`Admission` offers the whole declaration first.  The cost of a range is a table.  The
policies `mmr` and `marginal` (`selectGreedy`) are `Pick` and `PicksEnd` in `Search`: any
candidate that fits may be the best by its value, and its plan is the one kept since the
last choice in its file (`Planned`, `Replanned`).

`Search` goes through `#run` and `#render` of `engine.ts`; `pc` names the stage.

- `Ask`: a request, new or with the token of the last report; `Refuse`: a request that is
  not valid, no credential, a response budget smaller than the report.
- `ReusePreparation`: a later question of `searchMany` takes what an earlier one prepared.
  Every error on the way ends in `Fails`: `ErrorCodeOf` maps it to the outcome of
  `SearchError`.
- `Inventory`, `PrepareFile`, `FileUnreadable`, `StopPreparing`, `PreparationEnds`: what
  preparation may end with.  A snapshot is taken when a file is read.
- `MeasureAborts`, `Plan`: the token counts and the plan, which may send any part of what
  is pending when a cap is enabled.
- `Answer`, `NoAnswer`, `CapInAdmission`, `AdmissionRefused`, `EvaluationEnds`: what the
  engine sees of an evaluation.
- `BeginSelection`, `Offer`, `CheckFile`, `CheckEnds`: `selectFresh`, one candidate and one
  file at a time.
- `BeginReport`, `Throw`, `Return`, `RemoveRange`, `EndContinuation`, `TooSmall`: the
  counters (`Report`), the contract of `contracts.ts` (`Valid`) and the loop of
  `renderSearchResult`.
- `Edit`, `Stop`: others change files; the deadline passes or the client cancels.

`disk` is the tree, `cached` the score cache, `snap`, `score`, `verdict`, `chosen`, `used`
and `kept` are the variables of the code.  A file changes only while it is still to be read
(`ToBeRead`), since a change after the last reading is seen by nobody and one before it is
the same as one later.  `given` is history: what the caller received in a chain of searches.
`Past` lets a first search be a continued one, so that a bound of one search covers chains.

Left out: usage and cost (they are in `Evaluation`), the counters of duplicates, the
values `mmr` and `marginal` compare, the encoding of tokens, progress.  Fragments keep
their lines when the contents of a file change.  `USAGE_UNKNOWN` stands for `ESTIMATE_OVERRUN`
too, which every check treats alike; `PROVIDER_AUTH` for the failures that end an evaluation.

## Runs

| Run | Checks | Bounds |
|---|---|---|
| `Evaluation` | `AccountMatchesLedger`, `CapsHold`, `BilledIsNotRepeated`, `LossIsExplained`, `QuietAfterStop`, `RateLimitHolds`, `Terminates` | 2 workers, 3 batches, 1 retry, 3 ticks, all four caps, statuses of every family, replies with up to 3 answers, reports of 0 and 3 tokens for batches estimated at 1 and 2 |
| `McpServer` | `CancelledIsSilent`, `ImplementsSlots`, `EveryCallAnswered`, `CloseTerminates` | 4 calls, two under one id, one unread message allowed, searches that settle only when aborted |
| `Pool` | `OnlyCutIsKept`, `LoadIsReal`, `HandedBack`, `CallersEnd` | 2 workers, 3 files, 2 chunks, 4 tickets; worker 1 may die, preparations may be stopped at any file, an idle pool may be closed |
| `PoolLost` | `PreparationEnds`, violated | worker 1 may die |
| `WriteLock` | `MutualExclusion`, `AloneEnters`, `NothingLeftBehind`, `OnlyTheDeadAreRobbed` | 3 processes, 2 attempts each |
| `ScoreCache` | `StampsAreHonest`, `WithinLimit`, `ClearedAll` | 2 processes, 2 shards of one file, sizes 1 and 2 under a limit of 2, 2 times, 3 passes, 1 failure or death |
| `SourceAccess` | `BytesAreOneVersion`, `LossIsFinal`, `CallsEnd` | a root and another, a directory and one outside, 4 files, 3 links, files of up to 2 blocks written once, 2 exchanges of directories during a call, with and without the helper |
| `Preparation` | `CompleteMeansAll`, `CountsFit`, `MatchesEligibility` | 14 paths with ignore files at three levels, 6 scopes, 8 sets of limits, 2 changes of the tree or reads hit by one |
| `PreparationCache` | `OutcomeIsFresh`, `RecordedIsKept` | 3 files, 2 of the same bytes; 2 versions; room for one remembered entry; 2 files read ahead; one restart, search or act of another process |
| `Chunking` | `EveryLineCovered`, `FragmentsFit`, `AttachedTogether` | all texts of 4 lines of 3 kinds and of 3 lines of 6 kinds, programs of Python and Java of 4 lines, trees of Go and Rust of all shapes over a few items and comments, four trees of JavaScript under both policies of labels, with damage |
| `Planning` | `ClosedInTurn`, `PlanIsTrue` | up to 4 questions of 3 kinds, 5 sets of caps, 4 requests, 4 ends of the preparation, with and without a price, any scores, a reserve of none and of half |
| `Search` | `ReportsBalance`, `NoStaleEvidence`, `ChosenFits`, `TokenIsExact`, `SearchEnds` | 2 files, 3 fragments, 2 contents, 1 search, first or continued, with its own preparation or an earlier question's; tokens of at most 2 fragments, budgets that may be too small for everything, for all ranges, or for the report |

What they show.  `Evaluation`: the account equals what was really sent in whatever order
workers settle, so that the caps, which are compared with the account, hold; nothing that
may have been billed is sent again; and it ends although the provider may never answer.
`McpServer`: every history of calls is one of `SearchSlots`.  `Pool`: of all the ways a job
can be given up only one leaves something behind.  `WriteLock`, `ScoreCache`: exclusion and
what is remembered without it.  `SourceAccess`: bytes returned are one version of a file
that the path inside the pinned root stood for during the call.  `Preparation`: complete
means that every file nobody touched was met; the eligible files are defined anew, path by
path, and compared with the walk.  `PreparationCache`: what the cache says never differs
from doing the work again, and what it recorded is written or still to be written but in two
cases.  `Chunking`: nothing is lost, every fragment fits, labels name
what a range holds, and comments, decorators, brackets and clauses stay with their
statement, where that is defined anew on the text (`GluedPython`, `GluedJava`,
`GluedItem`).  `Planning`: batches are compared with closing one at a time
(`OneAtATime`), what is sent with the longest prefix.  `Search`: the reports of every
history satisfy their contract, but for the ones below.

Why these bounds.  Two workers are enough for every interference between workers:
they share only the cursor, two flags, one cool-down and one account, and a third
worker can only do what the second does.  Three batches let one worker finish a
batch and take another while its sibling retries.  The caps are set so that the plan fits
and one retry does not fit with it.  Four calls fill both slots of the server, leave one to
be refused and one to reuse an id.  Three files over two workers put one behind another on a
worker, and four tickets let a count follow a preparation, or the reverse, on the same pool;
as the pool keeps no other state between callers, more of them add nothing.  Of three
processes one can die as owner while two recover, and a second attempt lets one
publish a new lock while another still recovers the old.  Three passes of the cache let
a process work on what it remembers after another changed the directory; one failure can
hit any call of any of them, and the sizes make one file fit, two small ones fit, and
anything larger not.  A path of three names has an entry of each kind that the walk treats
differently: the root, a directory in between, the last one; two blocks let a file be
written between them, and two exchanges let a directory go away and come back.  The tree of
`Preparation` has rules that a deeper file undoes, rules that it may not undo, a pruned
directory, files reached by two scopes, an excluded and a large one.  Two of the files of
`PreparationCache` have one entry, which one room for a remembered entry makes them fight
for.  Four lines with targets of two lines and three tokens reach every rule of the
chunkers, three levels of the trees the depth limit.  Four questions let a batch shed a
tail of which the next batch is closed again and sheds one itself.  In `Search` the first
file has a declaration of which a part was scored and a line that touches it, so that ranges
merge, or do not for want of tokens; one candidate of each file is enough to bring a file in
when another is found changed.  Three fragments exceed a token of two.  Where a
configuration does not check for deadlock, the system rests: no caller comes any more, the
passes, changes and searches allowed are over, or a file is done.

Fairness.  Timers fire and runnable promises run (`Fairness` of `Evaluation`,
`Fairness` of `McpServer`); nothing obliges a provider to answer, and only
`EveryCallAnswered` assumes that a search settles, which `Terminates` shows of the evaluation.
The grace timer and the deadline timer are unreferenced in the code: they need not fire when
nothing else keeps the process alive, and then the process is over anyway.

`Fairness` of `Search` says that a search goes on; its evaluation ends by `Terminates`.
Neither edits nor stops are obliged to happen.

`FairSpec` of `SourceAccess` says that the caller's code goes on and that a wait for the
helper ends by its timer; the helper owes nothing.

`FairSpec` of `PreparePool` says that workers that live answer, that messages and
events arrive and that a caller goes on; nothing obliges a worker to live.

### Where code and documentation disagree

`PoolLost` is the run of one: the head of `source/prepare-pool.ts` (lines 16-17) says that a
worker that fails hands its work back.  `#leastLoaded` does not look at `slot.failed`.  A
worker that died idle has the smallest load, so a later preparation gives it a file; its
exit was handled before, nothing will settle the ticket, `wait` is called without a signal,
and the search hangs.  The blocking `collect` does look at `slot.failed`.

The other disagreements met while modelling are in the models, and the properties are
stated around them, each with its exemption in the open:

- A rejection dispatches nothing, says the head of `engine.ts` (line 15).  `admitBatch`
  (line 721) throws `UnauthorizedPathError` for a file that changed right before its batch
  is sent, which is answered as `UNAUTHORIZED_SCOPE`, a rejection, while batches sent
  before may be billed already (`AdmissionRefused`, `Reject`).
- A preparation stopped at a file's turn has shifted that file off `ahead`, and its
  `finally` forgets only the jobs in `ahead` (`source/prepare.ts:294`): the result stays in
  the shared pool.  `OnlyCutIsKept` shows that this is the only way.
- With `require_fit` and no cap enabled, a file that cannot be read makes the preparation
  incomplete, and `#run` rejects the search as exceeding a budget (`engine.ts:310`).  The
  contract asks of a rejection that a cap be enabled (`contracts.ts:426`), so `search()`,
  which "never throws for caller input" (`engine.ts:170`), throws.  `ReportsBalance` shows
  that only a rejected search can throw, and `PlanIsTrue` when: the inventory is
  incomplete, or no cap is enabled.
- A read compares the tree with the chain that it walked first, three times, and then the
  file itself.  Whether what it returns stood at its path still depends on how often
  directories are exchanged during the call.  Below three exchanges it did (`ReadsAreReal`);
  on a small tree with links into the root TLC finds no exception with six exchanges, and
  one with seven, when every comparison meets the arrangement it expects.  `MaxSwaps` bounds
  what is promised, and not only what the run enumerates.
- `planScan` says that a cap was reached when fewer batches are sent than there are
  (`planning.ts:175`), but the last one sent may be the head of a batch.  When it is the
  head of the last, a part is left out and no `SCAN_CAP_REACHED` is reported, against the
  test at `tests/engine-search.test.ts:383` (`StopsAtCap`).
- A question of `searchMany` has its own deadline (`engine.ts:175`), yet it reuses a
  preparation that an earlier question's deadline cut short, when it does not allow a
  partial scan (`engine.ts:457`, `ReusePreparation`).
- `.git` and its like are "never entered, whatever the scope says" (`inventory.ts:66`), but
  the walk looks only at the names it meets: a scope entry that is such a directory itself,
  or is in one, is entered (`inventory.ts:284`, `ScopeEntry`).  `MatchesEligibility` and
  `EligibleIsPrepared` hold administrative directories to be out of bounds, and say nothing of
  such a scope, which the run has.
- What `update` records, "`flush` persists" (`source/preparation-cache.ts:242`).  The dirty map
  has one entry for some bytes (line 246), while jobs read ahead for two files of the same
  bytes may hold one each when neither was remembered (line 230): the entry updated last
  replaces the other, with what only that had.  And `reject` (line 250) drops the dirty entry
  with what other files of these bytes recorded in it.  Both cost work, not correctness;
  `RecordedIsKept` shows that a flush comes to everything else, which it writes unless the
  entry is too large (line 272).
- `inspect` lists the caps exceeded by the plan (`inspect.ts:59`), and not one that cut the
  preparation short (`inspect.ts:115`); its notes do tell that something did
  (`InspectScope`).

## Proofs

The first part of `EvaluationProofs` proves about `ProviderExchange`, for every adapter, reply,
depth of an SDK's error and sequence of answers, from `ExchangeAssumption`:

- `BilledIsAmbiguous`: a failure that may be repeated although the provider may have billed
  it is marked ambiguous;
- `ScoreIsTheSoleAnswer`: a score is the value of the only answer to its question, stated
  once.

The argument goes through the statuses: the families agree on which leave open whether the
request was evaluated, and an error too deep to find its status counts as one of these.

The rest proves about `Evaluation`, for any number of workers, batches, retries and ticks, any
caps and any prices, from the assumptions `EvaluationAssumption` and
`ExchangeAssumption`:

- `Invariance`: `Spec => []IInv`;
- `TypeCorrect`, `AccountExact`, `CapsRespected`: the conjuncts `TypeOK`,
  `AccountMatchesLedger` and `CapsHold` of `IInv`;
- `NoBillingTwice`: `BilledIsNotRepeated`;
- `StopsAreQuiet`, `PausesKept`: the action properties `QuietAfterStop` and
  `RateLimitHolds`;
- `LossesAreExplained`: `LossIsExplained`.

The argument.  The account is not inductive by itself: that a dispatch adds one new
attempt to the ledger needs the attempt to be new, and that a settlement releases the
right reservation needs the attempt to be in flight.  Both follow from ownership: no
two workers hold one batch (`OneOwner`), a batch beyond the cursor was never sent
(`TakenInOrder`), and the attempt a worker is about to make comes after all those in
the ledger (`AttemptIsNew`).  `BilledIsClosed` says that a batch that may have been
billed is held by nobody, from which `NoBillingTwice` follows; `ReadyHasWaited`
carries a worker's own back-off across the step from the pause to the dispatch.
Sums over the ledger are cardinalities of sets of units (`Weight`), so that adding or
removing an attempt is adding or removing a finite set (`WeightAdd`, `WeightRemove`),
and no recursion is needed.

`LossIsExplained` is about the end, and rests on a second invariant, `EInv`, on top of
`IInv`.  While no reason was given and nobody threw, a batch without its scores is still to
be taken or in a worker's hands, and workers leave only when the batches are used up
(`NothingLost`); whoever ends the evaluation gives a reason (`EndIsTold`).  A failure's code is
noted only when its batch is let go for good, and a batch let go is scored by nobody later
(`CodesCost`, `ScoredIsLetGo`): a retry that succeeds leaves no code.  The cross-checks of the
usage need that what is in flight is in flight for a worker (`InFlightIsHeld`), so that
nothing is when all have returned, and that usage is known of some attempt (`AccountTold`).

`StorageProofs` proves about `WriteLock`, for any set of processes, any number of attempts, whether
or not rename replaces an empty directory, from `LockAssumption`:

- `Invariance`: `Spec => []IInv`, and from it `TypeCorrect`, `Exclusion`
  (`MutualExclusion`), `Tidiness` (`NothingLeftBehind`) and `NobodyAliveIsRobbed`
  (`OnlyTheDeadAreRobbed`);
- `TheDeadStopNobody`: `AloneEnters`, from the stronger `AInv`.

The argument.  Exclusion follows from `HoldsLock`: from publication to release the
directory at `.write.lock` is the owner's own and holds its marker.  Nobody can end
that: a rename needs an empty directory, as does rmdir, and a recovery unlinks only the
marker it found, whose owner is dead (`FoundIsDead`), while markers name their owners
(`MarkersDiffer`).  None of this uses what `assertCurrent` checked.  `AloneEnters`
needs to know, step by step, what a process that is alone finds (`FindsWay`); the key
is that a lock it finds with a marker is a dead process's (`LockOfTheDead`), because a
living one's marker would be of its current attempt (`OnlyCurrent`).

And about `PreparationCache`, for any files, contents, versions and bounds, from
`CacheAssumption`: `CacheInvariant`, `CacheSpec => []CacheInv`, and from it
`OutcomesAreFresh` (`OutcomeIsFresh`) and `RecordedStaysKept` (`RecordedIsKept`).

The argument.  Only what the running version wrote, or what another process stored, can
mislead it, and neither can say more than to withhold: a chunk record is by what its key says,
and a verdict is that of its version or `ok`, which is not believed (`Sound`).  So what the
content stage makes of an entry filed under the content of the file is what the bytes give
(`ContentStage`), and the entry it leaves is sound again.  It remains that every entry is filed
under its content wherever something refers to it: the memory, the dirty list and the jobs
read ahead (`Refers`), although they share objects that the content stage changes; each
operation of the cache keeps that (`LookupsFit`, `RewriteFits`, `UpdateFits`, `RejectsFit`).
For `RecordedIsKept`, entries only gain parts while they live (`Keeps`, from
`ContentStageGrows` and `SeedGrows`), and an entry ceases to be dirty for one of the same bytes
only by an update of a second entry or by a rejection (`WorkStaysKept`).  Both are exempt by
name (`Excused`), for the code does lose work there.  During a flush, what is not written and
not exempt is in an entry that is still `pending`; so there is none by the time the dirty list
is emptied.

`McpServerProofs` proves, for any requests, any ids they share and any bound on the unread
output, from `McpAssumption`:

- `Invariance`: `Spec => []Inv`;
- `TheCancelledAreSilent`: the action property `CancelledIsSilent`;
- `ServerImplementsSlots`: `ImplementsSlots`, the refinement of `SearchSlots`.

The argument.  Each operation of the scheduler maps a well-formed state to one
(`DropQueuedKeeps` to `CompleteKeeps`): the active calls are the running and the waiting one,
each under its own id, and the waiting one is neither cancelled nor kept by a scheduler that
drains.  A step of the server is one or two of these operations and at most one reply;
`Moved` says what any of them does to the calls and the replies, and `NextMoves` that every step
is one.  With the invariant that what was not read, or is still to be answered, has no reply,
silence is read off `Moved`; and so is the refinement, a request at a time (`EachMoves`) and
for the two slots (`StepRefines`).

`WorkProofs` proves about `PreparePool`, for any number of slots, files, chunks and tickets,
whichever workers may die, from `PoolAssumption`: `Invariance`, `Spec => []Inv`, and from it
`LoadsAreReal` (`LoadIsReal`), `JobsAreHandedBack` (`HandedBack`) and `NothingElseIsKept`
(`OnlyCutIsKept`).

The argument.  The invariant has two halves.  `Ports`: a ticket is at one port at most, that of
the slot it was given to, and a working slot was given no others; a dead one is known to have
failed when its exits were handled, and until then what it had not answered waits for them.
This does not depend on who a job is owed to, so that the callers' steps leave it alone
(`PortsSame`) but for `SubmitPorts`.  `Owned`: a job that was given out is held by the
preparation, awaited, forgotten, or of a file at whose turn a preparation stopped; and a result
that came is held or cut off too, as long as no worker died, for a reply of a working slot is
always expected (`DeliverCalls`).  With a dead worker that fails: a late reply, after the exit
handed its job back, is kept for a ticket nobody remembers.  `HeldOnce` is what makes a job
leave the preparation's hands when it is awaited, and rests on tickets being new
(`TakeTurnKeeps`).

And about `Planning`, for any questions, limits, caps, budgets, prices, scores and reserves and
whatever the tokenizer adds or saves where two questions join, from `PlanningAssumption`:
`PlanningInvariant`, `PlanningSpec => []PlanningInv`, and from it `BatchesAreInTurn`
(`ClosedInTurn`) and, with a second invariant, `PlansAreTrue` (`PlanIsTrue`).

The argument.  The batches that are final are each the next one of closing one at a time; those
closed on the estimate take all that is left, each as far as its estimate admits
(`PlanningInv`).  A tail that was shed fits its estimate, as a part of what did
(`EstimateOfPart`), so closing from it with the tail carried is closing from there
(`CloseFromCovers`): the exact measures, which may be off the estimate either way, shorten only
the batch they are of.  The recursive functions of the model and of the definition it is
compared with are shown to exist (`Recursion`, `OneFromExists`).  The order of priority is a
permutation, as each place takes a position not yet taken, and the cursor passes only those that
are (`SomeFree`, `RankedIsOrder`).  The bisection keeps a length that fits below it and one
question above it a length that does not (`HalvedKeeps`, `HeadLengthIs`); it finds a longest
part in the sense of `IsLongest` though sizes need not grow with the part.  A cap is the lower
of the operator's and the caller's (`EnabledAre`), and what is told of the whole plan is its
sums (`NeedTyped`).

`ScoreCacheProofs` proves, for any processes, names, sizes, limit and bounds, from
`ScoreCacheAssumption`: `Invariance`, `Spec => []Inv`, and `HonestStamps`, the property
`StampsAreHonest`; from a second invariant, `Limits`, also `LimitIsKept`
(`WithinLimit`) and `ClearLeavesNothing` (`ClearedAll`).

The argument.  A shard whose stamp holds must be known completely.  A pass in progress
holds the lock (`HoldsLock`), so between the stamp and the listing of a shard, and
between a write and the new stamp, no other process writes: the only interleaved
steps are removals by readers, and these spoil the stamp for everybody.  What a pass wrote
it knows, and the shard is current for nobody until the writer stamps it again; the writer
had looked at that shard before (`ReadAll`, `Looked`), or it counts as unseen.
`KnowsDoomed` gives removals a file to remove.  That the stamps outlive the sizes is
harmless only because the next pass drops them first (`KeptStamps`).  The limit: while a
process removes files it knows those there are as they are, but for files readers
removed, and has each of them before it or tried (`Removing`), and its total is the sum of what
it knows (`Counting`); a total within the limit bounds what is there (`SumMonotone`), and a
queue used up leaves only what is stuck.  A clear ends by the second case.

`SumTheorems` has the facts about sums that this, `Search`, `Planning` and `Chunking` need, and
`LeastNatural`, which `PreparePool` needs too.  A sum is a fold, that is,
a recursive function chosen over the subsets of a finite set.  Induction over a *set* of
subsets, or of naturals (`SetInduction`, `NaturalInduction`), takes no operator as a
parameter, and follows from the library's theorem that a well-founded relation has minimal
elements; with it the recursion has one solution (`SummingUnique`), from which the
usual laws follow.

`SearchProofs` proves, for any files, fragments, contents, costs and budgets and any number of
searches, from `SelectionAssumption` and `SearchAssumption`: `Invariance`, `Spec => []Inv`,
`EvidenceIsFresh` (`NoStaleEvidence`), `TokensAreExact` (`TokenIsExact`), `WhatIsChosenFits`
(`ChosenFits`) and `ReportsDoBalance` (`ReportsBalance`).

The argument.  A round of selection chooses from no file known to be stale, so a round that is
followed by another found one stale file more (`CheckEndsKeeps`): there are at least as many as
rounds, and none was not read.  As there is one round more than files read, the last check
never goes unanswered (`RoundsSuffice`).  The token is right because no range returned is of a
stale file: what a report counts as represented is then what the token records
(`ReturnKeeps`).

`ChosenFits` needs that what was computed for an offer still holds when it is taken: a plan
that is kept between two picks stays true, as only ranges of other files were chosen since
(`PlansTrue`), so that the total changes by the difference of two sums over disjoint sets
(`Priced`), and the merged range touches none of the others (`Merged`).  `ReportsBalance` rests
on `Told`: whatever is missing from a report left its reason when it was lost, a stop, a cap, a
file found changed, an incomplete preparation, an answer that never came; and what is chosen
was `Earned`, as each range covers a fragment that qualifies and no two cover the same one
(`CountsBalance`).

`SourceProofs` proves about `SourceAccess`, for any tree, sizes, versions and behaviour of the helper, from
`AccessAssumption`: `Invariance`, `LossStays` (`LossIsFinal`), `BytesAreWhole` (what a
read returns is one whole version of a file, however much is exchanged and written), and
`ReadsAreReal` (`BytesAreOneVersion`, for `MaxSwaps < 3`).

The argument.  The version cannot change between the first and the last `fstat` without the
second one seeing it, and blocks are of versions in between (`Held`).  For what stood at the
path, exchanges are counted: the file is either the one seen at its place, or a directory
was exchanged for every check the call has passed since the walk (`Counted`), because each
check of the chain that passes found the root and the directory in place again.  Three checks
passed need three exchanges.

And about `Preparation`, for any tree, ignore files, scopes, limits and changes, from
`TreeAssumption`: `PreparationInvariant`, `PreparationSpec => []PInv`, and from it
`CompleteIsAll` (`CompleteMeansAll`), `CountsAlwaysFit` (`CountsFit`) and
`EligibleIsPrepared` (`MatchesEligibility`).

The argument.  A step that looks at a path ends in one of a few ways: it missed something and
is no longer complete, met the path again, added it, left it out, dropped it or entered it
(`Looked`).  What an entry of the scope asks for, and no change touched, is settled, in the files
or the exclusions or under a directory that was pruned, or it is still to come, it or the
directory that leads to it being among the rest of a frame (`Covers`, `CompletenessKept`).  The
counts fit because a path is taken once (`Sound`, `Told`, `LoopKept`).  On a tree that nothing
changes, the rules of a frame decide as those of the directories above it do (`SameRules`,
`Reachable`): an entry of the scope that is a directory has its own ignore files on the stack
before it is entered, and reading them once more changes nothing (`SameAppend`).  So what is
walked is what the definition of eligibility, which knows no walk, admits; the order of priority
is a permutation of the files (`SortFits`).

And about `Chunking`, for any file, lines, tree, statements found and limits, from
`LimitsAssumption` and `SourcesAssumption`: `ChunkingInvariant`,
`ChunkingSpec => []ChunkingInv`, and from it `LinesAreCovered` (`EveryLineCovered`),
`SizesAreKept` (`SizesFit`, the first half of `FragmentsFit`) and, where no scanner found
statements, `FragmentsAreTold` (`FragmentsFit`).

The argument.  The ranges planned, the unit pending and the work that is left take the lines
from the first to the last in turn (`Tiles`, `Plans`).  The units of a node or between
boundaries take the lines they are made for, however the children overlap and wherever
statements were found (`UnitsFit`, `BoundaryUnits`), every planning action keeps the lines
(`PackUnitFits`, `PlanNodeFits`, `PlanUnitFits`, `EndOfUnitsFits`), and so does folding tiny
ranges (`MergeFits`).  While ranges are cut, the fragments cover all lines before the cursor
that are not blank, and reach no further than the next window will (`Emits`, `Ends`, `Reach`):
a window that starts further down ends no earlier (`WindowKeeps`, `LineWindowKeeps`), which
is why fragments advance though they overlap.  The labels: symbols around a range start in
order, since a node starts no later than its children (`Sorted`, `SymbolAdded`), and a local
label names a line of its own range, that no range before it holds (`Labelled`, `Unnamed`,
`LabelAdded`).  The recursive functions of the plan are shown to exist first
(`RecursionFromZero`, `RunExists`).

The assumptions on the constants say what the code has by construction: the kinds of objects of
a tree are different, what leads to a path leads from the root through its directories and
starts as they do, what is there at first is in a directory that is, the names of a cache
directory and the files of a search are finite, an earlier question's preparation that is
complete left no file unread, an earlier token's fragments had a score that qualified, a file
that is cut has a line, lines read as one text count fewer tokens, though no fewer than the last of them, a
tree's file has a policy for its labels and a node starts no later than its children.  Caps,
budgets, prices and counts are naturals, and `None` is not one.

Only model-checked:

- liveness (`Terminates`, `EveryCallAnswered`, `CloseTerminates`, `CallersEnd`,
  `PreparationEnds`, `SearchEnds`, `CallsEnd`): the prover has no rule for fairness;
- `AttachedTogether`, and the labels of `FragmentsFit` where a scanner found statements.
  Both say what the folds of `Boundaries` make of a whole text, by induction over its tokens.
  The labels are not right in every text: in Java, where a method has its annotation on the
  line above and another method begins behind it, its range ends above the line of its name,
  which then names both.  `GluedJava` leaves out lines where something else begins, and in the
  programs of the run each statement of Java begins on a line of its own.

## Plan

Modelling left: the blocking mode of the pool, the byte thresholds that decide whether it
is used, the exclusive publication of files by `init`.  Left to prove: what
the scanners of `Boundaries` find, for texts whose statements begin on lines of their own.

Abstract specifications worth stating: the lock of `WriteLock` as the exclusive lock that
`ScoreCache` takes it for; the pool as a function from texts to results; the evaluation as the
step from planned to scored that `Search` takes it for.

### Not modelled

- The parsers of TypeScript, Go and Rust are libraries: their trees are inputs.  What the
  scanners of Python and Java do below the token (literals, comments, identifiers) is one
  call on characters, and the wording of labels, signatures and messages is formatting.
- The tokenizer, the hashes of identities and cache keys, lexical scores and the values that
  the policies `mmr` and `marginal` compare are functions of texts; the models let them give
  anything.
- The shape checks of requests, results and configuration files, and the reading of the
  configuration, are schemas without state.  Their cross-checks are in `Search`,
  `Evaluation` and `Planning`.
- `init` creates files once, and the command line parses arguments, prints and sets an exit
  code; `profiling.ts` keeps timers that nothing reads back; `testing/` is test support; the
  scripts under `scripts/` measure and compare, and are not part of the program.
- Glob patterns and the lexical rules of paths (`path-policy.ts`) are decided on characters.
