# A verification project for the Polygon validators monitoring bot

The bot reads checkpoints of the Polygon chain from Ethereum, stores who signed them and what they
earned, computes the performance of validators over a window of checkpoints, and publishes
metrics and alerts. This directory holds TLA+ models of that program, the TLC configurations that
check them on small instances, and TLAPS proofs of what matters most for any instance. Paths are
relative to the repository root; `worker.service.ts` is `src/worker/worker.service.ts`, and so on.

## 1. The system

| part | state | operations | talks to |
|---|---|---|---|
| **Main update cycle**, `WorkerService.runMainUpdateCycle` | cached last block, last published checkpoint, gauges | cron job: look for a new block, resume, scan by chunks, index, compute metrics, publish gauges | provider, `CheckpointsService`, `MetricsService`, Prometheus registry |
| **Checkpoint handlers**, `handleCheckpointEvent` | tables `checkpoints`, `duties`, `rewards` | one asynchronous handler per event of a chunk, all at once | `CheckpointsService`, `ValidatorsService`, registry |
| **Head of the sequence**, `getTheHighestSequentialCheckpointNumber` | none (reads the table) | min, max, missing numbers, first of them | database |
| **Duties and rewards**, `processCheckpointEvent` | none | decode the signatures, find signers, tracked and active validators, compute rewards | contracts |
| **Validators**, `ValidatorsService` | LRU cache of signers, map of monikers | ids by signer, active set, tracked set (registry V1 or V2), monikers | contracts, a JSON file |
| **Metrics**, `MetricsService` | table `metrics` | which checkpoints to compute, performance over a window | database |
| **Stake events job**, `stakeEvents` with `ShareEventsService` | table `share_events` | cron job: find the cursor, fetch two types of events, store each in a transaction of its own | provider, database |
| **Metrics retention job**, `metricsRetention` | label sets of a counter | cron job: read the registry, remove outdated label sets | registry |
| **Monikers**, `syncMonikers` | monikers in three tables | at start: copy the names to the rows | database |
| **Health checks** | none, but three queries one after another | gaps in the table; age of the latest block, memory, database | database, provider |
| configuration, provider wiring, logger, Sentry, console, ABIs, migrations, dashboards | none that changes | | |

**How they interact.** Three cron jobs run in one Node process. `@OneAtTime` drops a tick of a job
while the same job runs, so a job never overlaps itself; different jobs interleave at every
`await`. The main cycle starts a handler per event of a chunk and waits for all of them
(`allSettled`). The database is shared by the cycle, its handlers, the health check and the update of
monikers at start; the registry by the handlers, the gauges and the retention job; the signers cache by
the handlers; the map of monikers by everything that writes a row.

**What is hard.** Handlers of a chunk commit in any order and fail one by one; the provider falls
back between nodes, so a later answer may be older or lack events; a transaction may commit and
its acknowledgement fail; an unhandled rejection ends the process (`main.ts`) at any `await`. There
is no cursor anywhere: where to resume, what to compute and which events to fetch are all derived
from the rows present, so every partial failure is an input of the next run.

**What makes each part correct.**
- Main cycle: nothing is announced twice; a gap is filled later and never passed by; a performance,
  which is computed once, comes from the complete window; gauges tell the true run lengths.
- Head: the number returned is the end of the gapless prefix.
- Duties: a validator is judged by its own signers, at blocks they signed in, and tracked by its status at
  the checkpoint's block.
- Rewards: never more than the reward in all, and little lost.
- Stake events: nothing fetched twice, nothing lost by the failure of something else.
- Retention: recent label sets stay, outdated ones go.
- Performance: a rate is the share of a validator's own duties it fulfilled, and the benchmark comes
  from the median over validators, each counted once.
- Monikers: the duties of a validator carry one name, or it counts as two.
- Health: what is reported is missing indeed at that moment (the cycle may be about to fill it), and no
  gap that lasts goes unreported.

The hazards of this code, each at its line and with the properties that cover it, are in
`PROJECT.json`.

## 2. The modules

| module | models | notes |
|---|---|---|
| `CheckpointNumbers` | the checkpoints in sight | constants shared by the jobs |
| `CheckpointSeq` | the head of the gapless prefix | pure operators; `IsGaplessHead` is the reference |
| `CheckpointLog` | what indexing promises | abstract specification, three variables |
| `Indexer` | main cycle and handlers | implements `CheckpointLog` |
| `Duties` | signers cache, tracked and active sets, under concurrent handlers | |
| `CheckpointRewards` | the reward arithmetic of one checkpoint | |
| `Median` | `median` and `mean` | pure operators; `IsMedianTwice` is the reference |
| `Performance` | `computePerformance`, the map of monikers and its updates | uses `Median` |
| `ShareEvents` | stake events job | |
| `MetricsRetention` | retention job | uses the order of strings of `CheckpointSeq` |
| `Health` | the health check for gaps | reads the table of `Indexer` |
| `WorkerService` | the process | composes `Indexer`, `Health` and `MetricsRetention` |
| `NumberSets`, `IndexerProofs`, `IndexerGaugesProofs`, `WorkerServiceProofs`, `DutiesProofs`, `CheckpointRewardsProofs`, `PerformanceProofs`, `ShareEventsProofs` | proofs | `NumberSets` holds what they share: minima, maxima and sums over finite sets |
| `MCIndexer`, `MCWorkerService`, `MCDuties`, `MCPerformance`, `MCShareEvents` | instances for TLC | |

Several modules define a few operators before the ones they vary, with the comment "Faulty
variant": they are plausible bugs that show each property can fail, and are used nowhere else.

### `CheckpointSeq`
`getMissingCheckpointsNumbers` ends in `.sort()` without a comparator, which compares numbers as
strings. The module models that order on digits (`StringLess`), because the first element decides
where the cycle resumes and how far metrics are computed. Within numbers of one length it is the
order of numbers; across 9 -> 10 or 99 -> 100 it is not.

### `Indexer`
`pc` is the place of the main cycle between two awaits, `handler[n]` that of
`handleCheckpointEvent` for checkpoint n.

| action | code |
|---|---|
| `StartCycle` | tick, `getBlock('latest')`, `isNewBlock` |
| `Resume` | `getStartBlockNumber` |
| `Scan` | `getCheckpointEvents`, `checkEventsConsistency`, start of the handlers |
| `CheckExists`, `Process`, `Store`, `Expose` | the awaits of a handler |
| `StoreUnacknowledged`, `HandlerFails` | a commit whose acknowledgement is lost; any other failure |
| `Settle` | `allSettled` |
| `Advance`, `FastForward` | `updateLastBlock` in and after the loop |
| `ComputeMetrics` | a turn of the batch loop of `computeMetrics` |
| `PublishGauges` | `exposeUnderPerfStrike`, `exposeCheckpointMissesInRow`, either may fail alone |
| `CycleFails` | any other await of the cycle throws |
| `Crash` | the process dies and restarts; only the two tables survive |

`stored` stands for the three tables written in one transaction. `window[n]` holds the checkpoints
whose duties the performance of n was computed from: the value itself is a function of them. The
events of a block range, the tracked validators and the misses of each checkpoint are constants.
Time is counted in blocks. Blocks are not reorganised: `isNewBlock` compares hashes too, and the
model only numbers. `strikeAt`, `exposed` and `dryRuns`, the runs of the cycle of a dry run in one life of
the process, are history variables.

`Process` is one step here; its inside is `Duties` (what the shared cache makes of concurrent
handlers) and `CheckpointRewards` (the arithmetic), each with its own handlers, so that neither
multiplies the states of the cycle.

### `Duties`
What contracts answer at a block does not change, so only three things need steps: reads at the
latest block (`ReadTracked` with registry V2), lookups in the cache (`LookUp`, all of a checkpoint's
signers up to their await) and the answers (`Answer`). `Promise.all` gives up at the first failure
while other calls go on: `LateAnswer` lets them still fill the cache. `LRU.get` moves an entry to the end, and
`LookUp` calls it for all signers of a checkpoint without an await in between, so the entries end up in the
order of their last touch: `IsTouchOrder` says just that, and no fold is needed.

The cache knows no blocks, so a signer that signs before it is bound or after may leave a stale 0 or a stale
id for another checkpoint. `DutiesFaithful` says how far that goes: an id is found only through a signer of the
checkpoint that was bound to it at a checkpoint it signed up to then, and surely through a signer that was
never bound otherwise when it signed. For a validator whose signers sign only while bound to it, it has
fulfilled its duty exactly when one of them signed. The assumption in the comment of `signerToValidatorId`, that a
signer serves one validator, is not needed for this. Under it the only wrong answers are a 0 for an id
and the id for a 0.

### `CheckpointRewards`
The loop over the active set with all its integer divisions, and its two ways to throw. Sums over
validators are `SumFunctionOnSet` of the community modules.

### `ShareEvents`
A run of the job, its cursor per type (`SeekFrom`), one handler per event. `hit` records which
events were themselves left out of an answer, failed or were in flight in a crash.

### `Median`
The array of `median` is a function, and an element is told by how many others lie below it, so that
nothing has to be sorted. The results are doubled to stay whole. Of an even number n of elements the code
takes those at n/2 and n/2 + 1, counted from 0; of two elements the second of these is undefined and
the mean is `NaN`.

### `Performance`

| action | code |
|---|---|
| `Boot` | the start of the process: `monikers.json` is read, and each of its validators is due for an update |
| `UpdateDuties`, `UpdateMetrics`, `UpdateFails` | the statements of `syncMonikers` for one validator; any may throw, and skips the rest |
| `Synced` | `allSettled` and the catch after it; the jobs start |
| `Index` | the next checkpoint is stored, its duties with the names of the map |
| `ComputePerformance` | the query (groups by id and name), `perfPercent`, `computePB`, the save |
| `Stop` | the process ends, with or without a reason |

Rates are counted in 1 / `Scale` and benchmarks in 1 / (40 `Scale`), so that 95% of half a sum of two
rates is whole. `lapsed` is a history variable: the validators whose duties were left with names they no
longer go by, because their last update failed or was cut off, or because they left the file (nobody
clears a name). The properties speak of the others. In which order checkpoints are stored and computed
is the matter of `Indexer`; here they come in order, and each may be computed at any later time.

### `MetricsRetention`, `Health` and `WorkerService`
`ReadRegistry` is the job's await on the registry; `AddLabel` may come between it and
`RemoveOutdated`. A health check is `StartCheck`, then `ReadMin` and `ReadMax` in any order, then
`EndCheck`, which reads the missing numbers and answers (`Report`) or fails.

`WorkerService` lets them run against the whole main cycle of `Indexer`. `Announce` is the `expose` of a
handler together with the label set it adds; `Proceed` is every other step of the cycle and of the
chain; `Retain` and `CheckHealth` are steps of the job and of the check; `Die` ends them all at once.
The stake events job and the computation of performance share no variable with these and are checked by
themselves.

## 3. What TLC checks

| run | question | result |
|---|---|---|
| `indexer_safety` | `AnnouncedOnce`, `HandlersInsideCycle`, `WindowsComplete`, `InRowFaithful`, `StrikeFaithful`; `ResumesBelowGaps`: no scan starts above a gap; `AdvancesOverStored`: no chunk is left before its events are stored; `PrefixComputed`: no cycle comes to its gauges with metrics left to compute; and `ImplementsLog`: the cycle refines `CheckpointLog` | holds |
| `indexer_live` | `GapsHeal`: a checkpoint above the lowest stored one is eventually stored; `MetricsCatchUp`: a stored one eventually has its performance | holds |
| `indexer_gauges` | `StrikeFaithful` once more, where the chain is longer than three monitoring periods | holds |
| `indexer_dry_run` | `DryRunOnce`, `DryRunInWindow`: a dry run runs its cycle once, wherever it throws, and within its window; `AnnouncedOnce` when every restart scans the window again | holds |
| `duties` | `DutiesFaithful`, `TrackedFaithful` across a change of signer, a joining and a leaving validator, a signer that signs before and after it is bound, a cache smaller than the set of signers | holds |
| `share_events` | `NeverFetchedAgain`, `PassedOnlyWhenHit`, `EventuallyStored` | holds |
| `worker` | the jobs of the process together, over checkpoints 8..11: `KeepsRecent`, `RemovesOutdatedSameDigits`, `AlarmIsAGap`, `LastingGapReported`, `ServiceTypeOK`, once more `AnnouncedOnce`, where the head may be wrong, and `NeverScansBack`: wherever it is, no scan goes back below what is complete | holds |
| `performance` | `OneName`, `RatesFaithful`, `BenchmarkIsMedianOdd` and `BenchmarkNeverTooLow` (any number of validators) under renaming, failing updates and restarts | holds |
| `rewards` | `NeverOverpaid`, `DustBounded`, `DelegatorsEarnTheirPart` | holds |
| `head_gapless` | `HeadIsGapless`, the comment of `getTheHighestSequentialCheckpointNumber` | **violated** |
| `benchmark_median` | `BenchmarkIsMedian`, the comment of `computePB` and the name of `median` | **violated** |
| `registry_v2` | `TrackedFaithful` with the V2 registry while operators change | **violated** |

### The three disagreements
1. **The head across a power of ten** (`head_gapless`). With 8 and 11 stored the missing 9 and 10 are
   sorted to 10, 9, so the head is 9, which is not stored. `getStartBlockNumber` then reads `number`
   of null and every cycle fails until somebody fills the gap by hand; with other gaps the head is
   stored but lies above a gap, and performance may be computed from an incomplete window. It only ever
   errs upwards (`HeadNeverTooLow`, proved), so nothing is scanned again because of it (`NeverScansBack`).
2. **The median of an even number** (`benchmark_median`). Elements n and n+1 are taken for the middle ones,
   which are n-1 and n: with rates 0, 0, 0, 1 the benchmark is 0.475 instead of 0, so validators are
   found under it that are not. With two validators it is `NaN`. It is never too low, which is proved for any
   number of validators (`BenchmarkAtLeastMedian`).
3. **Registry V2** (`registry_v2`). The status of operators is read at the latest block, not at the
   checkpoint's: misses of an operator that stopped since are not announced.

Not in the list, for want of a document that says otherwise:
- The floor of the sequence is the lowest stored number. When the first run fails to store a checkpoint but
  stores a later one, the earlier is never indexed; `START_BLOCK` is where that run starts, as
  `.env.example` says, and is not looked at again.
- A share event whose storing fails while a later one of its type is stored is lost, as may be one in flight in a crash.
  `PassedOnlyWhenHit` and `EventuallyStored` exempt these (`hit`); what they say is that no event is lost by
  the failure of another.
- A validator whose last update of its name failed counts twice in the performance. `OneName`,
  `RatesFaithful` and `BenchmarkIsMedianOdd` exempt it (`lapsed`) until an update succeeds.
- The retention job finds the highest label by comparing strings too. With 9 and 12 in the registry it takes 9 and removes nothing, until the last
  short label is gone with a restart. `RemovesOutdatedSameDigits` has that condition; that the job never
  removes a recent label set holds without any.

### Bounds, and why they are enough
- Indexer: four checkpoints (five in `head_gapless`) and seven blocks in chunks of three, so that there are two chunks
  with a shared border block, a gap may arise within a chunk (a handler fails) and between chunks
  (events left out), and a window of three checkpoints (`MonitoringPeriod` 2) can lie above, across
  and below a gap. `BatchSize` 2 lets
  the loop of batches turn and a batch fail in one job after the other has saved; `InRowLimit` 2 is shorter than the longest
  run of misses; `StaleAfter` 2 makes checkpoints stale while they are being indexed. Two validators,
  one tracked throughout and one only in the middle. `MaxLag` 1 lets the provider answer an older block.
  `indexer_gauges` has five checkpoints in eight blocks, the chain starting at block 6, and `MonitoringPeriod` 1, so
  that a run under the benchmark is longer than the three periods the gauge looks back. In the dry run
  the window (2) is shorter than a chunk (3), as it is in the code: a run has one chunk, and one that throws in it
  leaves no block cached.
- Numbers: 1..4 have one digit, 8..11 cross a power of ten. There `WindowsComplete` and
  `ImplementsLog` are not checked, because disagreement 1 breaks them.
- Worker: checkpoints 8..11 in blocks 2 to 6, chunks of three, one validator, `CheckpointsToKeep` 0, so that
  two labels of one length suffice for one to be outdated and mixed lengths occur. The chain starts at
  block 6 and ends at 7, because the stake here is what happens within a cycle: about 2.8 million states.
- Performance: four validators, of which one joins at checkpoint 2 and one at checkpoint 3, so there are windows
  with two, three and four, and validators with fewer duties than the window has checkpoints; windows of two
  checkpoints, a name that comes and goes with the file. `benchmark_median` takes five validators, four of them active.
- Live runs: three checkpoints, six blocks, chunks of two.
- ShareEvents: three events of one type, two of them in one block, and two of the other.
- Duties: three checkpoints, three signers, a cache of two, one failure per handler. Both a stale 0 and a stale
  id occur.
- Rewards: two validators with stakes, commissions and shares on both sides of the roundings; the
  precision is 10 so that its rounding shows.

Runs with `CHECK_DEADLOCK FALSE` are those whose system really stops: a dry run, a finished reward
computation, a finished set of checkpoints.

### Fairness
Everything may fail, lag or crash while the chain is below `MaxBlock`; from there on the environment
works. This says "if failures stop, then ..." without asking for a bound on their number. `FairSpec`
assumes weak fairness of the job's steps and of each handler: the cron job keeps firing, and every
awaited call answers or throws (Node runs every settled promise). A call that
never returns is outside the models: the code puts no timeout of its own around a call, and the cycle would
wait for it. Strong fairness is nowhere used.

## 4. What is proved

All proofs hold for any constants that satisfy the named assumptions of the modules.

- **`IndexerProofs`**, first about the head, for any set of numbers. `GaplessHead`: if all numbers between the
  lowest and the highest stored have as many digits, `HighestSequential` is the head of the gapless prefix.
  `HeadNeverTooLow`: if they have not, it still lies between those two, the number after it is missing, and
  the head of the gapless prefix is never above it. The argument: to compare two strings is to compare their
  digits filled up with zeros to one length, and their lengths when these are equal (`StringOrder`), so every set has a first
  string (`FirstSortedExists`). It is a missing number, and no missing number lies in the gapless prefix.
  Then about the cycle: `TypeCorrect`; `NoOrphanHandlers`, `AnnouncedAtMostOnce` and `ChunksAreStored` for any
  chain, across powers of ten too; `WindowsAlwaysComplete` and `IndexerImplementsLog` under `Regular` (no dry
  run, as many digits), which TLC shows to be needed.
  *The invariants.* `HandlersInsideCycle` is inductive by itself. `AnnouncedOnce` is not: it also takes
  that a handler on its way to `expose` works on a stored checkpoint that was not announced, and one
  past the check on one that was not announced either; a second handler of the same checkpoint is
  excluded by `HandlersInsideCycle`. `AdvancesOverStored` takes that a handler that ended well has stored
  its checkpoint or found it stored. `WindowsComplete` needs that nothing is ever stored below the
  lowest stored checkpoint once a performance exists: the scan starts after the head's block, events
  are ordered by block, and handlers only work on events of the scanned range.
  *The refinement* maps the variables of `CheckpointLog` to those of the same name. `Store` is `Index`,
  `Expose` is `Announce`, `ComputeMetrics` is `Compute`, everything else stutters.
- **`IndexerGaugesProofs`.** `InRowAlwaysFaithful` and `StrikeAlwaysFaithful` under `Regular`, the second
  also when no two checkpoints share a block; `DryRunScansOnce` (the job of a dry run still waits for its only run, or that
  run has been counted) and `DryRunStaysInWindow` for any chain.
  `NoGapBelowResume` (under both conditions) and `ResumesAboveHead` (any chain, by `HeadNeverTooLow`) say where
  the scan starts, and `PrefixIsComputed` (any chain) what the loop of batches leaves behind, which is the safety
  half of `MetricsCatchUp`. Together with `ChunksAreStored` `NoGapBelowResume` is the safety half of `GapsHeal`: nothing missing is
  ever out of sight of the next cycle, and only an event left out of an answer lets a cycle pass it. Were
  two checkpoints in one block and only one of them stored, the scan would start above the other.
  *The invariant* (`GaugesInv`) is that gauges are published only after the metrics up to the head are
  computed, and so only while some performance exists. From then on the lowest stored checkpoint is
  settled, and a row counted down from the head stays what it was, because what is stored late
  lies above the head, not in the row (`FloorStays` of `IndexerProofs`). The condition on blocks is
  needed: computed checkpoints are recognised by the time of their block, so of two in one block the
  second is passed over, and the row counted through it is not the row of the checkpoints.
- **`DutiesProofs`.** `DutiesTypeCorrect`, `DutiesAlwaysFaithful` for any signers and any size of the cache,
  and `TrackedAlwaysFaithful` when no operator changes its status while V2 is asked (`StableSinceV2`), which
  the run `registry_v2` shows to be needed. *The invariant*: every cached id is one its signer was bound to at
  a checkpoint it signed up to now, and so are the ids a handler has found, of which there is one for every signer of
  its checkpoint it has heard of; answers still in flight for a failed handler belong to its signers. Nothing is
  assumed of who signs or how bindings change. The cache stays a sequence with different keys under `Put`, the
  eviction and the moves.
- **`CheckpointRewardsProofs`.** `NeverOverpaidHolds`, `DustIsBounded`, `DelegatorsEarnTheirPartHolds`, for any
  validators, stakes, rates, shares and precision. *The invariant* (`RewardsAreComputed`): what is on file is what the
  inputs give for the signers handled so far, and nothing for the rest. The bounds follow from it: what a
  signer and its delegators get is what its stake earned, plus the bonus for the proposer
  (`SplitOfReward`, `PaidIsGot`); the earned amount times the precision differs from stake times
  reward per stake by less than the precision, and such inequalities carry over from the parts to the
  sums (`SumsCompare` of `NumberSets`). Facts about sums need an induction over finite sets. The library's takes an
  operator as a parameter, so `NumberSets` reasons by a minimal counterexample instead: the sets that
  violate a fact form a set, which has a member of least cardinality (`MinimalMember`).
- **`PerformanceProofs`.** `MedianOfOdd`: for any odd number of elements, equal ones included, the element
  at the middle index is the median. The library has no sorting to lean on, so the element is found
  as the least value with enough elements at most as large. `OneNamePerValidator`: the duties
  of a validator that is not `lapsed` and not waiting for its update carry the name of the map. From that,
  groups of the query and validators correspond one to one, which gives `RatesAlwaysFaithful` and, with
  `MedianOfOdd`, `BenchmarkAlwaysMedianOdd`. `MedianNeverTooLow` is for any number of elements: what lies
  below the lower or the upper median is at most half of them, so neither exceeds the element at the middle
  index. With it `BenchmarkAtLeastMedian`: with two validators the benchmark is `NaN`, with any other number never below
  95% of the median. `PerformanceTypeCorrect` bounds rates and benchmarks.
- **`ShareEventsProofs`.** `ShareEventsTypeCorrect`, `NoEventTwice`, `CursorSafe`. The cursor is a maximum
  over the table and handlers store in any order, so the properties are not inductive. What is: every
  event up to a fetched one, and every event up to a stored one, is stored, hit or at work.
- **`WorkerServiceProofs`.** Of the retention job alone: `RetentionTypeCorrect`, `RecentLabelsKept` (for any
  numbers: the job may miss the highest label but never removes a recent one), `OutdatedLabelsRemoved` (as
  many digits). Of the process: `ServiceRunsIndexer` and `ServiceRunsRetention`: the composition, seen from one
  job, is that job, so all of the above carries over to it: `ServiceKeepsHandlers`, `ServiceScansForward`,
  `ServiceImplementsLog`, `ServiceKeepsRecent`, `ServiceRemovesOutdated`. `ServiceTypeCorrect` relates registry and
  table; `NoFalseAlarm` and `NoMissedAlarm` hold for any commits between the queries of a check, because
  the table only grows: its minimum read so far is at least the true one and its maximum at most, and
  both enclose what was missing at the start.

Only model-checked: all liveness (`GapsHeal`, `MetricsCatchUp`, `EventuallyStored`), because the prover
does not handle fairness and ENABLED. Every other property of a passing run is stated by a theorem, under the
conditions named above.

## 5. What is not modelled

- The decoding of transactions and the recovery of signers: no state, and a library's cryptography.
- ABIs, migrations, configuration, logging, wiring, Prometheus rules and dashboards: declarations.
- The average and the top rates saved beside the benchmark, which only dashboards read.
- The top-10 flag of a duty, whose comparator never returns 0; `rewards.moniker`, which no code updates;
  the monikers of share events, which nothing reads (their update is a way for the others to be skipped).
- The health checks of the heap, the database and the provider: single reads.
- Reorganisations of the chain: `isNewBlock` compares hashes, but no row is ever taken back.
- The rounding of rates in `real` columns: rates here are exact.
- Instances with two checkpoints in one block: the models cover the rule
  (`Uncomputed`), but every instance has distinct blocks, and the proofs of `StrikeFaithful` and
  `ResumesBelowGaps` assume it.

## 6. Plan

Done: `CheckpointSeq`, `CheckpointLog`, `Indexer`; `ShareEvents`, `MetricsRetention`; `CheckpointRewards`,
`Duties`; `Median`, `Performance`; `Health`, `WorkerService`; and the proofs of section 4.

Left, in this order: an instance of `Indexer` with two checkpoints in one block, and what its gauges promise
there; the average and top rates.
