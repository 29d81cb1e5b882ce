------------------------------- MODULE Indexer -------------------------------
(***************************************************************************)
(* The main update cycle of WorkerService with the CheckpointsService and  *)
(* MetricsService calls it makes: look for new blocks, resume after the    *)
(* head of the gapless prefix, scan the chain by chunks for NewHeaderBlock *)
(* events, index each checkpoint in a concurrent handler (look up, read    *)
(* the chain, store in one transaction, announce the misses), then compute *)
(* the performance of every checkpoint below the head and publish gauges.  *)
(*                                                                         *)
(* The environment is unreliable while the chain still grows to MaxBlock:  *)
(* the provider may lag, drop events from an answer or fail, transactions  *)
(* may fail or lose the acknowledgement of their commit, and the process   *)
(* may crash and restart.  From MaxBlock on everything works, so that what *)
(* must eventually happen can be asked for.  Time is counted in blocks.    *)
(***************************************************************************)
EXTENDS CheckpointNumbers, Integers

CONSTANTS
    EventBlock,         \* EventBlock[n]: the block of the event of checkpoint n
    Validators,         \* validators of interest
    Tracked,            \* Tracked[n]: validators tracked at checkpoint n
    Missed,             \* Missed[n]: validators that did not sign checkpoint n
    BelowBenchmark,     \* BelowBenchmark[n]: validators under the performance
                        \* benchmark over the window of checkpoint n
    StartBlock,         \* START_BLOCK
    BlockHandleChunk,   \* BLOCK_HANDLE_CHUNK
    InRowLimit,         \* CHECKPOINTS_IN_ROW_LIMIT
    MonitoringPeriod,   \* MONITORING_PERIOD
    BatchSize,          \* METRICS_COMPUTE_BATCH_SIZE
    StaleAfter,         \* STALE_CHECKPOINT_THRESHOLD, in blocks
    DryRun,             \* DRY_RUN
    DryRunWindow,       \* DRY_RUN_WINDOW
    FirstHead,          \* bound: the latest block when the service starts
    MaxBlock,           \* bound: the last block of the chain
    MaxLag              \* bound: how many blocks an unreliable provider lags

ASSUME ChainAssumption ==
    /\ EventBlock \in [Checkpoints -> Nat]
    /\ \A a, b \in Checkpoints : a <= b => EventBlock[a] <= EventBlock[b]
    /\ Tracked \in [Checkpoints -> SUBSET Validators]
    /\ Missed \in [Checkpoints -> SUBSET Validators]
    /\ BelowBenchmark \in [Checkpoints -> SUBSET Validators]

ASSUME ConfigAssumption ==
    /\ StartBlock \in Nat /\ BlockHandleChunk \in Nat \ {0}
    /\ InRowLimit \in Nat /\ MonitoringPeriod \in Nat /\ StaleAfter \in Nat
    /\ BatchSize \in Nat \ {0}
    /\ DryRun \in BOOLEAN /\ DryRunWindow \in Nat

ASSUME BoundsAssumption ==
    /\ FirstHead \in Nat \ {0} /\ MaxBlock \in Nat /\ MaxLag \in Nat
    /\ FirstHead <= MaxBlock

VARIABLES
    head,           \* the latest block of the chain, and the clock
    stored,         \* table checkpoints (with duties and rewards)
    window,         \* table metrics: window[n] holds the checkpoints the
                    \* performance of n was computed from, {} when it was not
    pc,             \* where the main cycle stands; "idle" between two cycles
    jobOn,          \* the cron job of the cycle is not stopped
    latest,         \* latestBlock.number of the running cycle
    rangeStart,     \* local variable of the running cycle
    handler,        \* handler[n]: where handleCheckpointEvent stands for n
    lastBlock,      \* number of the cached last block, NoBlock for null
    lastMultiMiss,  \* lastMultiMissCheckpointNumber, 0 for null
    inRow,          \* gauge missed_checkpoints_in_row, per validator
    strike,         \* gauge under_pb_strike, per validator
    strikeAt,       \* history: the checkpoint strike was last published for
    dryRuns,        \* history: how often the cycle of a dry run has run in
                    \* this life of the process
    exposed         \* history: exposed[n] counts announcements of the misses
                    \* of n, over all the lives of the process

database == <<stored, window>>
memory   == <<lastBlock, lastMultiMiss, inRow, strike, strikeAt, dryRuns>>
locals   == <<latest, rangeStart>>
vars     == <<head, database, pc, jobOn, locals, handler, memory, exposed>>

NoBlock == 0

Phases == {"idle", "resume", "scan", "handle", "advance", "metrics", "gauges"}
Active == {"check", "process", "store", "expose"}
HandlerStates == {"idle", "done", "failed"} \union Active

-----------------------------------------------------------------------------
(* The environment.                                                        *)

\* Failures, stale answers and crashes only happen before the last block.
Flaky == head < MaxBlock

\* Checkpoints whose event lies in the blocks from .. to.
EventsIn(from, to) ==
    {n \in Checkpoints : from <= EventBlock[n] /\ EventBlock[n] <= to}

\* What getBlock('latest') may answer.
LatestAnswers ==
    IF Flaky THEN {b \in 1 .. head : head <= b + MaxLag} ELSE {head}

\* What queryFilter may answer.
EventAnswers(from, to) ==
    IF Flaky THEN SUBSET EventsIn(from, to) ELSE {EventsIn(from, to)}

\* isStaleCheckpoint
IsStale(n) == head > EventBlock[n] + StaleAfter

Computed == {n \in Checkpoints : window[n] # {}}

Mine ==
    /\ head < MaxBlock
    /\ head' = head + 1
    /\ UNCHANGED <<database, pc, jobOn, locals, handler, memory, exposed>>

-----------------------------------------------------------------------------
(* The main cycle.                                                         *)

Init ==
    /\ head = FirstHead
    /\ stored = {}
    /\ window = [n \in Checkpoints |-> {}]
    /\ pc = "idle"
    /\ jobOn = TRUE
    /\ latest = NoBlock
    /\ rangeStart = 0
    /\ handler = [n \in Checkpoints |-> "idle"]
    /\ lastBlock = NoBlock
    /\ lastMultiMiss = 0
    /\ inRow = [v \in Validators |-> 0]
    /\ strike = [v \in Validators |-> 0]
    /\ strikeAt = 0
    /\ dryRuns = 0
    /\ exposed = [n \in Checkpoints |-> 0]

\* The cycle returns or ends in its catch; the finally clause stops the cron
\* job in a dry run, and the locals of the cycle are gone.
EndCycle ==
    /\ pc' = "idle"
    /\ jobOn' = (jobOn /\ ~DryRun)
    /\ latest' = NoBlock
    /\ rangeStart' = 0

\* The last block of the chunk that starts at rangeStart.
RangeStop ==
    IF rangeStart + BlockHandleChunk <= latest
    THEN rangeStart + BlockHandleChunk ELSE latest

\* Faulty variant: the cron job of a dry run is stopped at the end of the try
\* block, not in the finally clause.
CycleFailsKeepsJob ==
    /\ pc \in Phases \ {"idle", "handle"}
    /\ Flaky
    /\ pc' = "idle"
    /\ latest' = NoBlock
    /\ rangeStart' = 0
    /\ UNCHANGED <<head, database, jobOn, handler, memory, exposed>>

\* Some awaited call of the cycle throws.  updateLastBlock calls nothing when
\* the block is the cached one.
CycleFails ==
    /\ pc \in Phases \ {"idle", "handle"}
    /\ Flaky
    /\ pc = "advance" => RangeStop # lastBlock
    /\ pc = "scan" /\ rangeStart >= latest => latest # lastBlock
    /\ EndCycle
    /\ UNCHANGED <<head, database, handler, memory, exposed>>

\* isNewBlock: not the block seen last and not an older one.
IsNewBlock(b) == lastBlock = NoBlock \/ b > lastBlock

\* The cron job fires.  @OneAtTime drops the call while a cycle is running.
StartCycle ==
    /\ pc = "idle"
    /\ jobOn
    /\ \E b \in LatestAnswers :
          \/ /\ IsNewBlock(b)
             /\ pc' = "resume"
             /\ latest' = b
             /\ UNCHANGED <<jobOn, rangeStart>>
          \/ ~IsNewBlock(b) /\ EndCycle
          \/ Flaky /\ EndCycle   \* getBlock throws
    /\ dryRuns' = IF DryRun THEN dryRuns + 1 ELSE 0
    /\ UNCHANGED <<lastBlock, lastMultiMiss, inRow, strike, strikeAt>>
    /\ UNCHANGED <<head, database, handler, exposed>>

\* Faulty variants of Resume: go on after the highest checkpoint, over the gaps;
\* scan one chunk again, to be safe; start a dry run like any other run.
ResumeAt(block) ==
    /\ pc = "resume"
    /\ rangeStart' = block
    /\ pc' = "scan"
    /\ UNCHANGED <<jobOn, latest>>
    /\ UNCHANGED <<head, database, handler, memory, exposed>>

BlockAfter(h) == IF h = Undefined THEN StartBlock ELSE EventBlock[h] + 1

ResumeAfterHighest == ResumeAt(BlockAfter(HighestStored(stored)))

ResumeChunkBack ==
    ResumeAt(BlockAfter(HighestSequential(stored)) - BlockHandleChunk)

ResumeIgnoresDryRun == ResumeAt(BlockAfter(HighestSequential(stored)))

\* getStartBlockNumber.  The row of a head that is not stored is null, and
\* reading its number throws.
Resume ==
    /\ pc = "resume"
    /\ LET h == HighestSequential(stored)
           From(block) == /\ rangeStart' = block
                          /\ pc' = "scan"
                          /\ UNCHANGED <<jobOn, latest>>
       IN  \/ DryRun /\ From(latest - DryRunWindow)
           \/ ~DryRun /\ h = Undefined /\ From(StartBlock)
           \/ ~DryRun /\ h \in stored /\ From(EventBlock[h] + 1)
           \/ ~DryRun /\ h \notin stored \union {Undefined} /\ EndCycle
    /\ UNCHANGED <<head, database, handler, memory, exposed>>

\* checkEventsConsistency: no number is skipped between two events.
Consistent(events) ==
    \A a, b \in events : \A n \in a .. b : n \in events

\* The loop of the cycle reads the events of the next chunk and starts their
\* handlers, all at once (handleBlocksRange up to allSettled).
Scan ==
    /\ pc = "scan"
    /\ rangeStart < latest
    /\ \E events \in EventAnswers(rangeStart, RangeStop) :
          \/ /\ events = {}
             /\ pc' = "advance"
             /\ UNCHANGED <<jobOn, locals, handler>>
          \/ /\ events # {}
             /\ Consistent(events)
             /\ pc' = "handle"
             /\ handler' = [n \in Checkpoints |->
                              IF n \in events THEN "check" ELSE handler[n]]
             /\ UNCHANGED <<jobOn, locals>>
          \/ ~Consistent(events) /\ EndCycle /\ UNCHANGED handler
    /\ UNCHANGED <<head, database, memory, exposed>>

-----------------------------------------------------------------------------
(* The handlers of a chunk: handleCheckpointEvent, one per event.          *)

Goto(n, state) == handler' = [handler EXCEPT ![n] = state]

\* Faulty variant: an event is processed whether it is stored or not.
CheckNothing(n) ==
    /\ handler[n] = "check"
    /\ Goto(n, "process")
    /\ UNCHANGED <<stored, exposed>>

\* checkpointExists; a stored checkpoint is skipped.
CheckExists(n) ==
    /\ handler[n] = "check"
    /\ Goto(n, IF n \in stored THEN "done" ELSE "process")
    /\ UNCHANGED <<stored, exposed>>

\* processCheckpointEvent only reads, from the chain and from the contracts.
Process(n) ==
    /\ handler[n] = "process"
    /\ Goto(n, "store")
    /\ UNCHANGED <<stored, exposed>>

\* Faulty variant: a failed transaction is rolled back but its error is not
\* thrown on, so its misses are announced all the same.
StoreSwallowsError(n) ==
    /\ handler[n] = "store"
    /\ stored' = stored \union {n} \/ (Flaky /\ stored' = stored)
    /\ Goto(n, "expose")
    /\ UNCHANGED exposed

\* storeCheckpoint commits the checkpoint with its duties and rewards.
Store(n) ==
    /\ handler[n] = "store"
    /\ stored' = stored \union {n}
    /\ Goto(n, "expose")
    /\ UNCHANGED exposed

\* The commit takes effect but its acknowledgement, or the release of the
\* connection, fails: storeCheckpoint throws.
StoreUnacknowledged(n) ==
    /\ handler[n] = "store"
    /\ Flaky
    /\ stored' = stored \union {n}
    /\ Goto(n, "failed")
    /\ UNCHANGED exposed

\* exposeCheckpointMisses, unless the checkpoint is stale.
Expose(n) ==
    /\ handler[n] = "expose"
    /\ exposed' = IF IsStale(n) THEN exposed
                  ELSE [exposed EXCEPT ![n] = @ + 1]
    /\ Goto(n, "done")
    /\ UNCHANGED stored

\* An awaited call before the commit throws; the transaction is rolled back.
HandlerFails(n) ==
    /\ handler[n] \in {"check", "process", "store"}
    /\ Flaky
    /\ Goto(n, "failed")
    /\ UNCHANGED <<stored, exposed>>

Handle(n) ==
    /\ \/ CheckExists(n) \/ Process(n) \/ Store(n) \/ StoreUnacknowledged(n)
       \/ Expose(n) \/ HandlerFails(n)
    /\ UNCHANGED <<head, window, pc, jobOn, locals, memory>>

\* Faulty variant: Promise.all, which throws at the first failure.
SettleAtFirstFailure ==
    /\ pc = "handle"
    /\ \/ /\ \E n \in Checkpoints : handler[n] = "failed"
          /\ EndCycle
          /\ UNCHANGED handler
       \/ /\ \A n \in Checkpoints : handler[n] \in {"idle", "done"}
          /\ handler' = [n \in Checkpoints |-> "idle"]
          /\ pc' = "advance"
          /\ UNCHANGED <<jobOn, locals>>
    /\ UNCHANGED <<head, database, memory, exposed>>

\* Faulty variant: Promise.allSettled alone, which does not throw.
SettleSilently ==
    /\ pc = "handle"
    /\ \A n \in Checkpoints : handler[n] \notin Active
    /\ handler' = [n \in Checkpoints |-> "idle"]
    /\ pc' = "advance"
    /\ UNCHANGED <<jobOn, locals>>
    /\ UNCHANGED <<head, database, memory, exposed>>

\* allSettled: every handler has ended before the cycle goes on or throws.
Settle ==
    /\ pc = "handle"
    /\ \A n \in Checkpoints : handler[n] \notin Active
    /\ handler' = [n \in Checkpoints |-> "idle"]
    /\ IF \E n \in Checkpoints : handler[n] = "failed"
       THEN EndCycle
       ELSE pc' = "advance" /\ UNCHANGED <<jobOn, locals>>
    /\ UNCHANGED <<head, database, memory, exposed>>

\* updateLastBlock
UpdateLastBlock(b) ==
    /\ lastBlock' = b
    /\ UNCHANGED <<lastMultiMiss, inRow, strike, strikeAt, dryRuns>>

\* The end of the loop's body.
Advance ==
    /\ pc = "advance"
    /\ UpdateLastBlock(RangeStop)
    /\ rangeStart' = RangeStop
    /\ pc' = "scan"
    /\ UNCHANGED <<head, database, jobOn, latest, handler, exposed>>

\* The loop is over: fast-forward to the latest block.
FastForward ==
    /\ pc = "scan"
    /\ rangeStart >= latest
    /\ UpdateLastBlock(latest)
    /\ pc' = "metrics"
    /\ UNCHANGED <<head, database, jobOn, locals, handler, exposed>>

-----------------------------------------------------------------------------
(* Metrics.                                                                *)

\* getCheckpointsNumbersToProcess, without its limit.  A checkpoint counts as
\* computed when a metric has its block timestamp.
Uncomputed(e) ==
    {n \in stored : /\ n <= e
                    /\ \A m \in Computed : EventBlock[m] # EventBlock[n]}

\* The BatchSize highest of the numbers to process.
Batch(e) ==
    LET todo == Uncomputed(e)
    IN  {n \in todo : Cardinality({m \in todo : m > n}) < BatchSize}

\* The duties the query of computePerformance reads for checkpoint n.
RowsOf(n) == {m \in stored : m <= n /\ n <= m + MonitoringPeriod}

SaveMetrics(ok) ==
    window' = [n \in Checkpoints |-> IF n \in ok THEN RowsOf(n) ELSE window[n]]

\* Faulty variant: one batch per cycle, the loop is missing.
ComputeOneBatch ==
    /\ pc = "metrics"
    /\ LET e == HighestSequential(stored)
       IN  SaveMetrics(IF e = Undefined THEN {} ELSE Batch(e))
    /\ pc' = "gauges"
    /\ UNCHANGED <<head, stored, jobOn, locals, handler, memory, exposed>>

\* Faulty variant: the failures of a batch are logged, and the gauges published.
ComputeDespiteFailures ==
    /\ pc = "metrics"
    /\ LET e == HighestSequential(stored)
           nums == IF e = Undefined THEN {} ELSE Batch(e)
       IN  \/ /\ nums # {}
              /\ SaveMetrics(nums)
              /\ UNCHANGED pc
           \/ /\ nums = {} \/ Flaky
              /\ \E ok \in SUBSET nums : SaveMetrics(ok)
              /\ pc' = "gauges"
    /\ UNCHANGED <<head, stored, jobOn, locals, handler, memory, exposed>>

\* One turn of the loop of computeMetrics: the jobs of a batch run together
\* and each saves its metrics in one transaction.  Some may fail; then
\* allSettled throws.  The jobs read nothing another job writes.
ComputeMetrics ==
    /\ pc = "metrics"
    /\ LET e == HighestSequential(stored)
           nums == IF e = Undefined THEN {} ELSE Batch(e)
       IN  \/ /\ nums = {}
              /\ pc' = "gauges"
              /\ UNCHANGED <<window, jobOn, locals>>
           \/ /\ nums # {}
              /\ SaveMetrics(nums)
              /\ UNCHANGED <<pc, jobOn, locals>>
           \/ /\ Flaky
              /\ \E ok \in SUBSET nums : ok # nums /\ SaveMetrics(ok)
              /\ EndCycle
    /\ UNCHANGED <<head, stored, handler, memory, exposed>>

\* The length of the run of bad checkpoints that ends at the top of rows.
RunLength(rows, bad) ==
    Cardinality({m \in rows : \A k \in rows : k >= m => k \in bad})

\* The checkpoints of S that tracked v.
TrackedIn(S, v) == {m \in S : v \in Tracked[m]}

\* Faulty variant: the limit is off by one, the guard keeps the next number.
PublishInRowOffByOne(n) ==
    IF lastMultiMiss # 0 /\ lastMultiMiss > n
    THEN UNCHANGED <<inRow, lastMultiMiss>>
    ELSE /\ inRow' = [v \in Validators |->
              IF v \notin Tracked[n] THEN inRow[v]
              ELSE RunLength(
                     TrackedIn({m \in stored : n <= m + InRowLimit /\ m <= n}, v),
                     {m \in Checkpoints : v \in Missed[m]})]
         /\ lastMultiMiss' = n + 1

\* exposeCheckpointMissesInRow
PublishInRow(n) ==
    IF lastMultiMiss # 0 /\ lastMultiMiss >= n
    THEN UNCHANGED <<inRow, lastMultiMiss>>
    ELSE /\ inRow' = [v \in Validators |->
              IF v \notin Tracked[n] THEN inRow[v]
              ELSE RunLength(
                     TrackedIn({m \in stored : n < m + InRowLimit /\ m <= n}, v),
                     {m \in Checkpoints : v \in Missed[m]})]
         /\ lastMultiMiss' = n

\* Faulty variant: one checkpoint more than three periods.
PublishStrikeOffByOne(n) ==
    /\ strike' = [v \in Validators |->
         IF v \notin Tracked[n] THEN strike[v]
         ELSE RunLength(
                TrackedIn({m \in Computed : n <= m + 3 * MonitoringPeriod + 1 /\ m <= n}, v),
                {m \in Checkpoints : v \in BelowBenchmark[m]})]
    /\ strikeAt' = n

\* exposeUnderPerfStrike
PublishStrike(n) ==
    /\ strike' = [v \in Validators |->
         IF v \notin Tracked[n] THEN strike[v]
         ELSE RunLength(
                TrackedIn({m \in Computed : n <= m + 3 * MonitoringPeriod /\ m <= n}, v),
                {m \in Checkpoints : v \in BelowBenchmark[m]})]
    /\ strikeAt' = n

\* The end of the cycle: the gauges of the highest sequential checkpoint,
\* published side by side; when one fails the other is still published.
PublishGauges ==
    /\ pc = "gauges"
    /\ LET h == HighestSequential(stored)
           fresh == h \in stored /\ ~IsStale(h)
       IN  \/ ~fresh /\ UNCHANGED memory
           \/ /\ fresh
              /\ PublishInRow(h)
              /\ PublishStrike(h)
              /\ UNCHANGED <<lastBlock, dryRuns>>
           \/ /\ fresh /\ Flaky
              /\ PublishInRow(h)
              /\ UNCHANGED <<lastBlock, dryRuns, strike, strikeAt>>
           \/ /\ fresh /\ Flaky
              /\ PublishStrike(h)
              /\ UNCHANGED <<lastBlock, dryRuns, inRow, lastMultiMiss>>
    /\ EndCycle
    /\ UNCHANGED <<head, database, handler, exposed>>

\* The process dies anywhere and is started again: only the database is left.
Crash ==
    /\ Flaky
    /\ pc' = "idle"
    /\ jobOn' = TRUE
    /\ latest' = NoBlock
    /\ rangeStart' = 0
    /\ handler' = [n \in Checkpoints |-> "idle"]
    /\ lastBlock' = NoBlock
    /\ lastMultiMiss' = 0
    /\ inRow' = [v \in Validators |-> 0]
    /\ strike' = [v \in Validators |-> 0]
    /\ strikeAt' = 0
    /\ dryRuns' = 0
    /\ UNCHANGED <<head, database, exposed>>

Worker ==
    \/ StartCycle \/ Resume \/ Scan \/ Settle \/ Advance \/ FastForward
    \/ ComputeMetrics \/ PublishGauges

Next ==
    \/ Mine
    \/ Worker
    \/ \E n \in Checkpoints : Handle(n)
    \/ CycleFails
    \/ Crash

Spec == Init /\ [][Next]_vars

\* The cron job keeps firing, every awaited call answers or throws, and the
\* chain grows.
FairSpec ==
    /\ Spec
    /\ WF_vars(Mine)
    /\ WF_vars(Worker)
    /\ \A n \in Checkpoints : WF_vars(Handle(n))

-----------------------------------------------------------------------------
(* Properties.                                                             *)

Log == INSTANCE CheckpointLog
         WITH stored <- stored, window <- window, exposed <- exposed,
              Checkpoints <- Checkpoints, MonitoringPeriod <- MonitoringPeriod

\* Types; the locals of a cycle are only set while it runs.
TypeOK ==
    /\ head \in FirstHead .. MaxBlock
    /\ stored \in SUBSET Checkpoints
    /\ window \in [Checkpoints -> SUBSET Checkpoints]
    /\ pc \in Phases
    /\ jobOn \in BOOLEAN
    /\ latest \in Nat /\ latest <= head
    /\ rangeStart \in Int
    /\ handler \in [Checkpoints -> HandlerStates]
    /\ lastBlock \in Int
    /\ lastMultiMiss \in Checkpoints \union {0}
    /\ inRow \in [Validators -> Nat]
    /\ strike \in [Validators -> Nat]
    /\ strikeAt \in Checkpoints \union {0}
    /\ dryRuns \in Nat
    /\ exposed \in [Checkpoints -> Nat]

\* No handler outlives the cycle that started it: whatever fails, a handler is
\* at work only while its cycle waits for it, so @OneAtTime, which guards the
\* cycle, also keeps two handlers of one checkpoint apart
\* (worker.service.ts:496-498, promises.ts).
HandlersInsideCycle ==
    (\E n \in Checkpoints : handler[n] # "idle") => pc = "handle"

\* The misses of a checkpoint are announced at most once over all restarts,
\* failures and rescans of its block, and only when it is in the storage
\* (handleCheckpointEvent).
AnnouncedOnce ==
    \A n \in Checkpoints :
        /\ exposed[n] <= 1
        /\ exposed[n] = 1 => n \in stored

\* A performance is computed once and never again, so it has to be computed
\* from the full window: every checkpoint of the chain from the lowest stored
\* one on that the window covers (computeMetrics, computePerformance).
WindowsComplete ==
    \A n \in Computed :
        /\ window[n] = Log!FullWindow(n, stored)
        /\ window[n] \subseteq stored

\* missed_checkpoints_in_row is the true run of misses up to the checkpoint it
\* was published for, within its limit: no duty is absent from the rows.
InRowFaithful ==
    lastMultiMiss # 0 =>
        \A v \in Tracked[lastMultiMiss] :
            inRow[v] = RunLength(
                TrackedIn({m \in Checkpoints : /\ Min(stored) <= m /\ m <= lastMultiMiss
                                               /\ lastMultiMiss < m + InRowLimit}, v),
                {m \in Checkpoints : v \in Missed[m]})

\* under_pb_strike is the true run of checkpoints under the benchmark up to the
\* checkpoint it was published for: no performance is absent from the rows.
StrikeFaithful ==
    strikeAt # 0 =>
        \A v \in Tracked[strikeAt] :
            strike[v] = RunLength(
                TrackedIn({m \in Checkpoints : /\ Min(stored) <= m /\ m <= strikeAt
                                               /\ strikeAt <= m + 3 * MonitoringPeriod}, v),
                {m \in Checkpoints : v \in BelowBenchmark[m]})

\* A dry run runs its cycle once in the life of the process, whatever throws in
\* it and wherever: in its only chunk too, which leaves no block cached to tell
\* that it has run (the finally clause).
DryRunOnce == dryRuns <= 1

\* A dry run indexes nothing older than its window (getStartBlockNumber).
DryRunInWindow ==
    [][DryRun => \A n \in stored' \ stored : EventBlock[n] + DryRunWindow >= latest]_vars

\* The scan never starts above a gap: what is missing above the lowest stored
\* checkpoint, for whatever reason, lies in a block that is still to be read
\* (getStartBlockNumber).
ResumesBelowGaps ==
    [][pc = "resume" /\ pc' = "scan" /\ ~DryRun /\ stored # {} =>
          \A n \in Checkpoints \ stored :
              Min(stored) < n => rangeStart' <= EventBlock[n]]_vars

\* Nor does it go back below what is complete, wherever the head is taken to be
\* (getStartBlockNumber, getTheHighestSequentialCheckpointNumber).
NeverScansBack ==
    [][pc = "resume" /\ pc' = "scan" /\ ~DryRun =>
          \A h \in Checkpoints :
              IsGaplessHead(h, stored) => EventBlock[h] < rangeStart']_vars

\* And it leaves a chunk only when every event it read there is stored, however
\* its handlers ended (handleBlocksRange, allSettled).  Of all that can go wrong
\* only an event left out of an answer lets the scan pass a missing checkpoint.
AdvancesOverStored ==
    [][pc = "handle" /\ pc' = "advance" =>
          \A n \in Checkpoints : handler[n] # "idle" => n \in stored]_vars

\* A cycle that comes to its gauges has left nothing of the gapless prefix without
\* a performance, however many batches that took and whatever failed before.  Only
\* a checkpoint in the block of a computed one counts as computed (computeMetrics).
PrefixComputed ==
    [][pc = "metrics" /\ pc' = "gauges" =>
          \A h \in Checkpoints, n \in stored :
              IsGaplessHead(h, stored) /\ n <= h =>
                 \E m \in Computed : EventBlock[m] = EventBlock[n]]_vars

\* The main cycle implements the log of checkpoints.
ImplementsLog == Log!LogSpec

\* Every checkpoint above the lowest stored one is eventually indexed,
\* whatever was lost before: a gap is never passed by for good.
GapsHeal ==
    \A n \in Checkpoints : EventBlock[n] < MaxBlock =>
        ((stored # {} /\ Min(stored) < n) ~> n \in stored)

\* Every stored checkpoint eventually has its performance.
MetricsCatchUp ==
    \A n \in Checkpoints : n \in stored ~> n \in Computed

\* What the comment of getTheHighestSequentialCheckpointNumber says of it.
HeadIsGapless == IsGaplessHead(HighestSequential(stored), stored)

\* "resume processing from the last sequential checkpoint block": the cycle
\* always finds the checkpoint to resume after in the storage.
ResumePointStored ==
    pc = "resume" /\ ~DryRun /\ stored # {} => HighestSequential(stored) \in stored
=============================================================================
