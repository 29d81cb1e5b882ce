------------------------- MODULE IndexerGaugesProofs -------------------------
(***************************************************************************)
(* Theorems about what Indexer publishes, and about its dry runs.  The     *)
(* gauges are right outside of dry runs while the numbers have as many     *)
(* digits (Regular, of IndexerProofs); a dry run keeps its promises for    *)
(* any numbers.                                                            *)
(***************************************************************************)
EXTENDS IndexerProofs

USE CheckpointsAssumption, ChainAssumption, ConfigAssumption, BoundsAssumption

-----------------------------------------------------------------------------
(* Dry runs.                                                               *)

\* The job of a dry run still waits for its only run, or a run has been counted.
OnceInv ==
    /\ dryRuns \in {0, 1}
    /\ DryRun /\ jobOn /\ pc = "idle" => dryRuns = 0

\* Whatever throws and wherever, the cycle of a dry run runs once in the life of
\* the process (the finally clause of runMainUpdateCycle).
THEOREM DryRunScansOnce == Spec => []DryRunOnce
<1>1. Init => OnceInv
  BY DEF Init, OnceInv
<1>2. OnceInv /\ [Next]_vars => OnceInv'
  <2> SUFFICES ASSUME OnceInv, [Next]_vars PROVE OnceInv'
    OBVIOUS
  <2> USE DEF OnceInv, EndCycle, memory, locals
  <2>1. CASE StartCycle
    <3>1. DryRun /\ pc' = "idle" => ~jobOn'
      <4>1. pc' = "idle" => EndCycle
        BY <2>1, "resume" # "idle" DEF StartCycle
      <4> QED
        BY <4>1, Zenon
    <3>2. dryRuns' \in {0, 1}
      <4>1. DryRun => dryRuns = 0
        BY <2>1 DEF StartCycle
      <4>2. dryRuns' = IF DryRun THEN dryRuns + 1 ELSE 0
        BY <2>1 DEF StartCycle
      <4> QED
        BY <4>1, <4>2
    <3> QED
      BY <3>1, <3>2
  <2>2. CASE Mine \/ Resume \/ Scan \/ Settle \/ ComputeMetrics \/ CycleFails
    <3>1. UNCHANGED dryRuns
      BY <2>2 DEF Mine, Resume, Scan, Settle, ComputeMetrics, CycleFails
    <3>2. DryRun /\ jobOn' /\ pc' = "idle" => jobOn /\ pc = "idle"
      BY <2>2 DEF Mine, Resume, Scan, Settle, ComputeMetrics, CycleFails
    <3> QED
      BY <3>1, <3>2
  <2>3. CASE Advance \/ FastForward
    BY <2>3 DEF Advance, FastForward, UpdateLastBlock
  <2>4. CASE PublishGauges
    BY <2>4 DEF PublishGauges
  <2>5. CASE Crash
    BY <2>5 DEF Crash
  <2>6. CASE \E n \in Checkpoints : Handle(n)
    BY <2>6 DEF Handle
  <2>7. CASE UNCHANGED vars
    BY <2>7 DEF vars
  <2> QED
    BY <2>1, <2>2, <2>3, <2>4, <2>5, <2>6, <2>7 DEF Next, Worker
<1>3. OnceInv => DryRunOnce
  BY DEF OnceInv, DryRunOnce
<1> QED
  BY <1>1, <1>2, <1>3, PTL DEF Spec

\* The scan of a dry run never leaves its window downwards.
RangeInv ==
    DryRun =>
        /\ pc \in {"scan", "handle", "advance"} => latest <= rangeStart + DryRunWindow
        /\ \A n \in Checkpoints : handler[n] # "idle" => rangeStart <= EventBlock[n]

\* One step of the scan of a dry run.
LEMMA NextKeepsRangeInv ==
    ASSUME RangeInv, HandlerInv, HandlerInv', [Next]_vars
    PROVE  RangeInv'
<1> SUFFICES ASSUME DryRun PROVE RangeInv'
  BY DEF RangeInv
<1> USE DEF RangeInv, HandlerInv, HandlersInsideCycle, TypeOK, EndCycle, locals
<1>1. ASSUME pc' \notin {"scan", "handle", "advance"} PROVE RangeInv'
  BY <1>1
<1>2. CASE Mine
  BY <1>2 DEF Mine
<1>3. CASE StartCycle
  BY <1>1, <1>3 DEF StartCycle
<1>4. CASE Resume
  <2>1. \A n \in Checkpoints : handler'[n] = "idle"
    BY <1>4 DEF Resume
  <2>2. pc' = "scan" => latest' <= rangeStart' + DryRunWindow
    BY <1>4 DEF Resume
  <2> QED
    BY <1>4, <2>1, <2>2 DEF Resume
<1>5. CASE Scan
  <2>1. \A n \in Checkpoints : handler[n] = "idle"
    BY <1>5 DEF Scan
  <2>2. \A events \in EventAnswers(rangeStart, RangeStop) :
           \A n \in events : rangeStart <= EventBlock[n]
    BY DEF EventAnswers, EventsIn
  <2>3. CASE pc' = "idle"
    BY <1>1, <2>3
  <2>4. CASE pc' # "idle"
    <3>1. UNCHANGED <<latest, rangeStart>>
      BY <1>5, <2>4 DEF Scan
    <3>2. \A n \in Checkpoints : handler'[n] # "idle" => rangeStart <= EventBlock[n]
      BY <1>5, <2>1, <2>2 DEF Scan
    <3> QED
      BY <1>5, <3>1, <3>2 DEF Scan
  <2> QED
    BY <2>3, <2>4
<1>6. CASE Settle
  BY <1>6 DEF Settle
<1>7. CASE Advance
  <2>1. rangeStart <= RangeStop \/ latest = RangeStop
    BY DEF RangeStop
  <2>2. RangeStop \in Int
    BY DEF RangeStop
  <2>3. latest <= RangeStop + DryRunWindow
    BY <1>7, <2>1, <2>2 DEF Advance
  <2> QED
    BY <1>7, <2>3 DEF Advance
<1>8. CASE FastForward \/ ComputeMetrics \/ PublishGauges \/ CycleFails \/ Crash
  BY <1>1, <1>8 DEF FastForward, ComputeMetrics, PublishGauges, CycleFails, Crash
<1>9. CASE \E n \in Checkpoints : Handle(n)
  <2>1. UNCHANGED <<pc, latest, rangeStart>>
    BY <1>9 DEF Handle
  <2>2. \A n \in Checkpoints : handler'[n] # "idle" => handler[n] # "idle"
    BY <1>9 DEF Handle, CheckExists, Process, Store, StoreUnacknowledged, Expose,
                HandlerFails, Goto
  <2> QED
    BY <2>1, <2>2
<1>10. CASE UNCHANGED vars
  BY <1>10 DEF vars
<1> QED
  BY <1>2, <1>3, <1>4, <1>5, <1>6, <1>7, <1>8, <1>9, <1>10 DEF Next, Worker

\* A dry run stores nothing older than its window (getStartBlockNumber).
THEOREM DryRunStaysInWindow == Spec => DryRunInWindow
<1>1. Init => RangeInv
  BY DEF Init, RangeInv
<1>2. ASSUME RangeInv, HandlerInv, [Next]_vars
      PROVE  [DryRun => \A n \in stored' \ stored : EventBlock[n] + DryRunWindow >= latest]_vars
  <2> SUFFICES ASSUME DryRun, NEW n \in stored' \ stored
               PROVE  EventBlock[n] + DryRunWindow >= latest
    OBVIOUS
  <2>1. handler[n] # "idle" /\ n \in Checkpoints
    BY <1>2 DEF Next, Worker, Mine, StartCycle, Resume, Scan, Settle, Advance, FastForward,
           ComputeMetrics, PublishGauges, CycleFails, Crash, Handle, CheckExists, Process,
           Store, StoreUnacknowledged, Expose, HandlerFails, vars, database
  <2>2. pc = "handle"
    BY <1>2, <2>1 DEF HandlerInv, HandlersInsideCycle
  <2>3. latest <= rangeStart + DryRunWindow /\ rangeStart <= EventBlock[n]
    BY <1>2, <2>1, <2>2 DEF RangeInv
  <2>4. rangeStart \in Int /\ latest \in Nat /\ EventBlock[n] \in Nat
    BY <1>2, <2>1 DEF HandlerInv, TypeOK
  <2> QED
    BY <2>3, <2>4
<1> QED
  BY <1>1, <1>2, NextKeepsRangeInv, HandlersInvariant, PTL DEF Spec, DryRunInWindow

-----------------------------------------------------------------------------
(* The gauges.                                                             *)

\* All checkpoints up to h that have not got a performance share the block of
\* one that has: where the loop of computeMetrics ends.
AllComputed(h) == Uncomputed(h) = {}

\* The batch is empty only when nothing is left to compute.
LEMMA EmptyBatch ==
    ASSUME TypeOK, NEW e, Batch(e) = {}
    PROVE  AllComputed(e)
<1> DEFINE todo == Uncomputed(e)
           top  == Max(todo)
<1>1. SUFFICES ASSUME todo # {} PROVE FALSE
  BY DEF AllComputed
<1>2. todo \in SUBSET Nat /\ \A y \in todo : y <= LastCheckpoint
  <2>1. todo \subseteq Checkpoints
    BY DEF TypeOK, Uncomputed
  <2> QED
    BY <2>1 DEF Checkpoints
<1>3. Batch(e) = {n \in todo : Cardinality({m \in todo : m > n}) < BatchSize}
  BY DEF Batch
<1> HIDE DEF todo
<1>4. top \in todo /\ \A y \in todo : y <= top
  BY <1>1, <1>2, MaxIsGreatest
<1> HIDE DEF top
<1>5. {m \in todo : m > top} = {}
  <2> SUFFICES ASSUME NEW m \in todo PROVE ~(m > top)
    OBVIOUS
  <2>1. m \in Nat /\ top \in Nat /\ m <= top
    BY <1>2, <1>4
  <2> QED
    BY <2>1
<1>6. Cardinality({m \in todo : m > top}) < BatchSize
  BY <1>5, FS_EmptySet
<1>7. top \in Batch(e)
  BY <1>3, <1>4, <1>6
<1> QED
  BY <1>7

\* On any chain a cycle computes the whole gapless prefix before its gauges: the
\* head it works up to is never below the prefix (computeMetrics).
THEOREM PrefixIsComputed == Spec => PrefixComputed
<1>1. ASSUME TypeOK, [Next]_vars
      PROVE  [pc = "metrics" /\ pc' = "gauges" =>
                \A h \in Checkpoints, n \in stored :
                    IsGaplessHead(h, stored) /\ n <= h =>
                       \E m \in Computed : EventBlock[m] = EventBlock[n]]_vars
  <2> SUFFICES ASSUME pc = "metrics", pc' = "gauges", NEW h \in Checkpoints,
                      NEW n \in stored, IsGaplessHead(h, stored), n <= h
               PROVE  \E m \in Computed : EventBlock[m] = EventBlock[n]
    OBVIOUS
  <2> DEFINE top == HighestSequential(stored)
  <2>1. stored \in SUBSET (Nat \ {0}) /\ \A y \in stored : y <= LastCheckpoint
    BY <1>1 DEF TypeOK, Checkpoints
  <2>2. LastCheckpoint \in Nat /\ stored # {}
    OBVIOUS
  <2>3. top \in Min(stored) .. Max(stored) /\ h <= top
    BY <2>1, <2>2, HeadNeverTooLow
  <2>4. top # Undefined /\ top \in Nat
    <3>1. Min(stored) \in stored
      BY <2>1, <2>2, MinIsLeast
    <3>2. Min(stored) \in Nat \ {0}
      BY <2>1, <3>1
    <3> HIDE DEF top
    <3> QED
      BY <2>3, <3>2 DEF Undefined
  <2>5. ComputeMetrics
    BY <1>1 DEF Next, Worker, Mine, StartCycle, Resume, Scan, Settle, Advance, FastForward,
           PublishGauges, CycleFails, Crash, Handle, vars, EndCycle
  <2> HIDE DEF top
  <2>6. Batch(top) = {}
    BY <2>4, <2>5 DEF ComputeMetrics, EndCycle, top
  <2>7. Uncomputed(top) = {}
    BY <1>1, <2>6, EmptyBatch DEF AllComputed
  <2>8. n <= top
    <3>1. n \in Nat /\ h \in Nat
      BY <2>1 DEF Checkpoints
    <3> QED
      BY <2>3, <2>4, <3>1
  <2> QED
    BY <2>7, <2>8 DEF Uncomputed
<1> QED
  BY <1>1, TypeCorrect, PTL DEF Spec, PrefixComputed

\* Up to the head the stored checkpoints are those of the chain, from the lowest.
LEMMA StoredUpToHead ==
    ASSUME Regular, TypeOK, stored # {}
    PROVE  LET h == HighestSequential(stored)
           IN  /\ h \in stored
               /\ \A m \in Checkpoints : m <= h => (m \in stored <=> Min(stored) <= m)
<1> DEFINE h == HighestSequential(stored)
<1>1. h \in stored /\ (Min(stored) .. h) \subseteq stored
  BY RegularHead DEF TypeOK
<1>2. stored \in SUBSET Nat /\ stored \subseteq Checkpoints
  BY CheckpointsAreNumbers DEF TypeOK
<1>3. Min(stored) \in stored /\ \A y \in stored : Min(stored) <= y
  BY <1>2, MinIsLeast
<1> HIDE DEF h
<1>4. ASSUME NEW m \in Checkpoints, m <= h, Min(stored) <= m PROVE m \in stored
  <2>1. m \in Nat /\ h \in Nat /\ Min(stored) \in Nat
    BY <1>1, <1>2, <1>3, CheckpointsAreNumbers
  <2>2. m \in Min(stored) .. h
    BY <1>4, <2>1
  <2> QED
    BY <1>1, <2>2
<1> QED
  BY <1>1, <1>3, <1>4 DEF h

\* No two checkpoints are submitted in one block.
OnePerBlock == \A a, b \in Checkpoints : EventBlock[a] = EventBlock[b] => a = b

\* What is missing above the lowest stored checkpoint lies in the blocks the
\* scan starts with, when no two checkpoints share a block (getStartBlockNumber).
THEOREM NoGapBelowResume ==
    ASSUME Regular, OnePerBlock PROVE Spec => ResumesBelowGaps
<1>1. ASSUME TypeOK, [Next]_vars
      PROVE  [pc = "resume" /\ pc' = "scan" /\ ~DryRun /\ stored # {} =>
                \A n \in Checkpoints \ stored :
                    Min(stored) < n => rangeStart' <= EventBlock[n]]_vars
  <2> SUFFICES ASSUME pc = "resume", pc' = "scan", ~DryRun, stored # {},
                      NEW n \in Checkpoints \ stored, Min(stored) < n
               PROVE  rangeStart' <= EventBlock[n]
    OBVIOUS
  <2> DEFINE h == HighestSequential(stored)
  <2>1. h \in stored /\ \A m \in Checkpoints : m <= h => (m \in stored <=> Min(stored) <= m)
    BY <1>1, StoredUpToHead
  <2>2. h \in Checkpoints /\ h \in Nat /\ h # Undefined /\ n \in Nat
    BY <1>1, <2>1, CheckpointsAreNumbers DEF TypeOK, Undefined
  <2>3. Resume
    BY <1>1 DEF Next, Worker, Mine, StartCycle, Scan, Settle, Advance, FastForward,
           ComputeMetrics, PublishGauges, CycleFails, Crash, Handle, vars, EndCycle
  <2> HIDE DEF h
  <2>4. rangeStart' = EventBlock[h] + 1
    BY <2>1, <2>2, <2>3 DEF Resume, EndCycle, h
  <2>5. Min(stored) \in Nat
    BY <1>1, <2>1, MinIsLeast, CheckpointsAreNumbers DEF TypeOK
  <2>6. h < n
    BY <2>1, <2>2, <2>5
  <2>7. EventBlock[h] <= EventBlock[n] /\ EventBlock[h] # EventBlock[n]
    BY <2>2, <2>6 DEF OnePerBlock
  <2>8. EventBlock[h] \in Nat /\ EventBlock[n] \in Nat
    BY <2>2
  <2> QED
    BY <2>4, <2>7, <2>8
<1> QED
  BY <1>1, TypeCorrect, PTL DEF Spec, ResumesBelowGaps

\* On any chain the scan starts above the head of the gapless prefix: where the
\* string sort takes the head for higher it is higher still, or not in the
\* storage, and then the cycle ends (HeadNeverTooLow).
THEOREM ResumesAboveHead == Spec => NeverScansBack
<1>1. ASSUME TypeOK, [Next]_vars
      PROVE  [pc = "resume" /\ pc' = "scan" /\ ~DryRun =>
                \A h \in Checkpoints :
                    IsGaplessHead(h, stored) => EventBlock[h] < rangeStart']_vars
  <2> SUFFICES ASSUME pc = "resume", pc' = "scan", ~DryRun,
                      NEW h \in Checkpoints, IsGaplessHead(h, stored)
               PROVE  EventBlock[h] < rangeStart'
    OBVIOUS
  <2> DEFINE top == HighestSequential(stored)
  <2>1. stored # {} /\ h \in Nat /\ h # Undefined
    BY CheckpointsAreNumbers DEF IsGaplessHead, Undefined
  <2>2. stored \in SUBSET (Nat \ {0}) /\ stored \subseteq Checkpoints
        /\ \A y \in stored : y <= LastCheckpoint
    BY <1>1 DEF TypeOK, Checkpoints
  <2>3. LastCheckpoint \in Nat
    OBVIOUS
  <2>4. top \in Min(stored) .. Max(stored) /\ h <= top
    BY <2>1, <2>2, <2>3, HeadNeverTooLow
  <2>5. top # Undefined
    <3>1. Min(stored) \in Nat \ {0}
      BY <2>1, <2>2, MinIsLeast
    <3> QED
      BY <2>4, <3>1 DEF Undefined
  <2>6. Resume
    BY <1>1 DEF Next, Worker, Mine, StartCycle, Scan, Settle, Advance, FastForward,
           ComputeMetrics, PublishGauges, CycleFails, Crash, Handle, vars, EndCycle
  <2> HIDE DEF top
  <2>7. top \in stored /\ rangeStart' = EventBlock[top] + 1
    BY <2>5, <2>6 DEF Resume, EndCycle, top
  <2>8. EventBlock[h] <= EventBlock[top] /\ EventBlock[h] \in Nat /\ EventBlock[top] \in Nat
    BY <2>2, <2>4, <2>7
  <2> QED
    BY <2>7, <2>8
<1> QED
  BY <1>1, TypeCorrect, PTL DEF Spec, NeverScansBack

\* The computed checkpoints are stored ones.
LEMMA ComputedAreStored ==
    ASSUME WindowInv
    PROVE  Computed \subseteq stored
<1> SUFFICES ASSUME NEW n \in Computed PROVE n \in stored
  OBVIOUS
<1>1. /\ n \in Checkpoints /\ window[n] # {}
      /\ window[n] = Log!FullWindow(n, stored) /\ window[n] \subseteq stored
  BY DEF WindowInv, WindowsComplete, Computed
<1>2. stored # {} /\ stored \in SUBSET Nat /\ n \in Nat
  BY CheckpointsAreNumbers DEF WindowInv, FloorInv, HandlerInv, TypeOK, Computed
<1>3. Log!FullWindow(n, stored) =
        {m \in Checkpoints : m <= n /\ n <= m + MonitoringPeriod /\ Min(stored) <= m}
  BY DEF Log!FullWindow, Log!Min, Min
<1>4. PICK m \in Checkpoints : m <= n /\ Min(stored) <= m
  BY <1>1, <1>3
<1>5. Min(stored) \in Nat /\ m \in Nat
  BY <1>2, MinIsLeast, CheckpointsAreNumbers
<1>6. Min(stored) <= n /\ n <= n + MonitoringPeriod /\ n <= n
  BY <1>2, <1>4, <1>5
<1>7. n \in Log!FullWindow(n, stored)
  BY <1>1, <1>3, <1>6
<1> QED
  BY <1>1, <1>7

\* The inductive invariant: a gauge that is published was published after the
\* metrics were computed, so that the lowest checkpoint is settled.
GaugesInv ==
    /\ pc = "gauges" /\ stored # {} => AllComputed(HighestSequential(stored))
    /\ lastMultiMiss # 0 \/ strikeAt # 0 => Computed # {}
    /\ InRowFaithful

\* What is published for the head h is right when it is published.
LEMMA PublishedInRow ==
    ASSUME Regular, TypeOK, stored # {}, PublishInRow(HighestSequential(stored)),
           InRowFaithful, UNCHANGED stored
    PROVE  InRowFaithful'
<1> DEFINE h == HighestSequential(stored)
<1>1. h \in stored /\ \A m \in Checkpoints : m <= h => (m \in stored <=> Min(stored) <= m)
  BY StoredUpToHead
<1> HIDE DEF h
<1>2. CASE UNCHANGED <<inRow, lastMultiMiss>>
  BY <1>2 DEF InRowFaithful
<1>3. CASE /\ inRow' = [v \in Validators |->
                 IF v \notin Tracked[h] THEN inRow[v]
                 ELSE RunLength(
                        TrackedIn({m \in stored : h < m + InRowLimit /\ m <= h}, v),
                        {m \in Checkpoints : v \in Missed[m]})]
           /\ lastMultiMiss' = h
  <2>1. {m \in stored : h < m + InRowLimit /\ m <= h}
          = {m \in Checkpoints : Min(stored) <= m /\ m <= h /\ h < m + InRowLimit}
    BY <1>1 DEF TypeOK
  <2>2. Tracked[h] \subseteq Validators
    BY <1>1 DEF TypeOK
  <2> QED
    BY <1>3, <2>1, <2>2 DEF InRowFaithful
<1> QED
  BY <1>2, <1>3 DEF PublishInRow, h

\* And so is the strike, once all up to the head is computed.
LEMMA PublishedStrike ==
    ASSUME Regular, OnePerBlock, WindowInv, stored # {},
           AllComputed(HighestSequential(stored)),
           PublishStrike(HighestSequential(stored)), UNCHANGED stored
    PROVE  StrikeFaithful'
<1> DEFINE h == HighestSequential(stored)
<1>1. h \in stored /\ \A m \in Checkpoints : m <= h => (m \in stored <=> Min(stored) <= m)
  BY StoredUpToHead DEF WindowInv, HandlerInv
<1>2. \A m \in stored : m <= h => m \in Computed
  BY DEF AllComputed, Uncomputed, OnePerBlock, Computed, WindowInv, HandlerInv, TypeOK
<1>3. strike' = [v \in Validators |->
         IF v \notin Tracked[h] THEN strike[v]
         ELSE RunLength(
                TrackedIn({m \in Computed : h <= m + 3 * MonitoringPeriod /\ m <= h}, v),
                {m \in Checkpoints : v \in BelowBenchmark[m]})]
      /\ strikeAt' = h
  BY DEF PublishStrike
<1> HIDE DEF h
<1>4. {m \in Computed : h <= m + 3 * MonitoringPeriod /\ m <= h}
        = {m \in Checkpoints : Min(stored) <= m /\ m <= h /\ h <= m + 3 * MonitoringPeriod}
  <2>1. stored \subseteq Checkpoints /\ Computed \subseteq stored
    BY ComputedAreStored DEF WindowInv, HandlerInv, TypeOK
  <2> QED
    BY <1>1, <1>2, <2>1
<1>5. Tracked[h] \subseteq Validators
  BY <1>1 DEF WindowInv, HandlerInv, TypeOK
<1> QED
  BY <1>3, <1>4, <1>5 DEF StrikeFaithful

\* A step leaves the lowest stored checkpoint in place once a performance is
\* computed, and no performance is lost.
LEMMA ComputedStays ==
    ASSUME WindowInv, [Next]_vars, Computed # {}
    PROVE  Min(stored') = Min(stored) /\ Computed' # {}
<1>1. CASE UNCHANGED <<stored, window>>
  BY <1>1 DEF Computed
<1>2. CASE ComputeMetrics
  <2>1. UNCHANGED stored
    BY <1>2 DEF ComputeMetrics
  <2>2. PICK n \in Checkpoints : window[n] # {}
    BY DEF Computed
  <2>3. UNCHANGED window \/ \E e, ok : ok \subseteq Batch(e) /\ SaveMetrics(ok)
    BY <1>2 DEF ComputeMetrics
  <2>4. ASSUME NEW e, NEW ok, ok \subseteq Batch(e), SaveMetrics(ok)
        PROVE  window'[n] # {}
    <3>1. n \notin ok
      BY <2>2, <2>4 DEF Batch, Uncomputed, Computed
    <3> QED
      BY <2>2, <2>4, <3>1 DEF SaveMetrics
  <2> QED
    BY <2>1, <2>2, <2>3, <2>4 DEF Computed
<1>3. ASSUME NEW n \in Checkpoints, Handle(n)
      PROVE  Min(stored') = Min(stored) /\ Computed' # {}
  <2>1. /\ UNCHANGED window
        /\ stored' = stored \/ stored' = stored \union {n}
        /\ handler[n] # "idle"
    BY <1>3 DEF Handle, CheckExists, Process, Store, StoreUnacknowledged, Expose,
                HandlerFails
  <2> QED
    BY <2>1, FloorStays DEF Computed
<1> QED
  BY <1>1, <1>2, <1>3 DEF Next, Worker, Mine, StartCycle, Resume, Scan, Settle, Advance,
     FastForward, PublishGauges, CycleFails, Crash, database, vars

\* Only the end of a cycle publishes, and a crash forgets what was published.
LEMMA OnlyTheEndPublishes ==
    ASSUME [Next]_vars, ~PublishGauges
    PROVE  \/ UNCHANGED <<lastMultiMiss, inRow, strike, strikeAt>>
           \/ lastMultiMiss' = 0 /\ strikeAt' = 0
BY DEF Next, Worker, Mine, StartCycle, Resume, Scan, Settle, Advance, FastForward,
       UpdateLastBlock, ComputeMetrics, Handle, CycleFails, Crash, memory, vars

\* The cycle gets to the gauges when all up to the head is computed.
LEMMA ComputedBeforeGauges ==
    ASSUME Regular, WindowInv, GaugesInv, [Next]_vars, pc' = "gauges", stored' # {}
    PROVE  AllComputed(HighestSequential(stored))'
<1>1. CASE pc = "gauges" /\ UNCHANGED <<stored, window>>
  BY <1>1 DEF GaugesInv, AllComputed, Uncomputed, Computed
<1>2. CASE ComputeMetrics
  <2>1. UNCHANGED stored /\ HighestSequential(stored) \in stored
    BY <1>2, RegularHead DEF ComputeMetrics, WindowInv, HandlerInv, TypeOK
  <2>2. HighestSequential(stored) # Undefined
    BY <2>1, CheckpointsAreNumbers DEF WindowInv, HandlerInv, TypeOK, Undefined
  <2>3. Batch(HighestSequential(stored)) = {} /\ UNCHANGED window
    BY <1>2, <2>2 DEF ComputeMetrics, EndCycle
  <2>4. AllComputed(HighestSequential(stored))
    BY <2>3, EmptyBatch DEF WindowInv, HandlerInv
  <2> QED
    BY <2>1, <2>3, <2>4 DEF AllComputed, Uncomputed, Computed
<1>3. ASSUME NEW n \in Checkpoints, Handle(n) PROVE FALSE
  <2>1. handler[n] # "idle" /\ UNCHANGED pc
    BY <1>3 DEF Handle, CheckExists, Process, Store, StoreUnacknowledged, Expose,
                HandlerFails
  <2> QED
    BY <2>1 DEF WindowInv, HandlerInv, HandlersInsideCycle
<1> QED
  BY <1>1, <1>2, <1>3 DEF Next, Worker, Mine, StartCycle, Resume, Scan, Settle, Advance,
     FastForward, PublishGauges, CycleFails, Crash, EndCycle, database, vars

\* What is published is published for a stored head, all computed below it.
LEMMA PublishedForHead ==
    ASSUME WindowInv, GaugesInv, PublishGauges
    PROVE  LET h == HighestSequential(stored)
           IN  /\ UNCHANGED <<stored, window>>
               /\ \/ UNCHANGED <<inRow, lastMultiMiss>>
                  \/ h \in stored /\ PublishInRow(h)
               /\ \/ UNCHANGED <<strike, strikeAt>>
                  \/ h \in stored /\ PublishStrike(h)
               /\ h \in stored => AllComputed(h) /\ Computed # {}
<1>1. pc = "gauges" /\ UNCHANGED <<stored, window>>
  BY DEF PublishGauges, database
<1>2. ASSUME HighestSequential(stored) \in stored
      PROVE  AllComputed(HighestSequential(stored)) /\ Computed # {}
  <2>1. AllComputed(HighestSequential(stored))
    BY <1>1, <1>2 DEF GaugesInv
  <2>2. \A n \in stored : n <= n
    BY CheckpointsAreNumbers DEF WindowInv, HandlerInv, TypeOK
  <2> QED
    BY <1>2, <2>1, <2>2 DEF AllComputed, Uncomputed
<1> QED
  BY <1>1, <1>2 DEF PublishGauges, memory

\* One step of the cycle.
LEMMA NextKeepsGaugesInv ==
    ASSUME Regular, WindowInv, GaugesInv, [Next]_vars
    PROVE  GaugesInv'
<1>1. (pc = "gauges" /\ stored # {} => AllComputed(HighestSequential(stored)))'
  BY ComputedBeforeGauges
<1>2. CASE PublishGauges
  <2>1. UNCHANGED <<stored, window>> /\ Computed' = Computed
    BY <1>2, PublishedForHead DEF Computed
  <2>2. (lastMultiMiss # 0 \/ strikeAt # 0 => Computed # {})'
    BY <1>2, <2>1, PublishedForHead DEF GaugesInv
  <2>3. InRowFaithful'
    <3>1. CASE UNCHANGED <<inRow, lastMultiMiss>>
      BY <2>1, <3>1 DEF GaugesInv, InRowFaithful
    <3>2. CASE HighestSequential(stored) \in stored
               /\ PublishInRow(HighestSequential(stored))
      <4>1. stored # {}
        BY <3>2
      <4> QED
        BY <2>1, <3>2, <4>1, PublishedInRow DEF GaugesInv, WindowInv, HandlerInv
    <3> QED
      BY <1>2, <3>1, <3>2, PublishedForHead
  <2> QED
    BY <1>1, <2>2, <2>3 DEF GaugesInv
<1>3. CASE ~PublishGauges
  <2>1. CASE lastMultiMiss' = 0 /\ strikeAt' = 0
    BY <1>1, <2>1 DEF GaugesInv, InRowFaithful
  <2>2. CASE UNCHANGED <<lastMultiMiss, inRow, strike, strikeAt>>
    BY <1>1, <2>2, ComputedStays DEF GaugesInv, InRowFaithful
  <2> QED
    BY <1>3, <2>1, <2>2, OnlyTheEndPublishes
<1> QED
  BY <1>2, <1>3

\* The gauges invariant holds in every state of the main cycle (computeMetrics
\* before the gauges are published).
THEOREM GaugesInvariant == ASSUME Regular PROVE Spec => []GaugesInv
<1>1. Init => GaugesInv
  BY DEF Init, GaugesInv, InRowFaithful
<1>2. WindowInv /\ GaugesInv /\ [Next]_vars => GaugesInv'
  BY NextKeepsGaugesInv
<1> QED
  BY <1>1, <1>2, WindowsInvariant, PTL DEF Spec

\* missed_checkpoints_in_row is the true run of misses whatever was lost, late
\* or restarted before it was published, and stays so when checkpoints are
\* indexed later (exposeCheckpointMissesInRow).
THEOREM InRowAlwaysFaithful == ASSUME Regular PROVE Spec => []InRowFaithful
<1>1. GaugesInv => InRowFaithful
  BY DEF GaugesInv
<1> QED
  BY <1>1, GaugesInvariant, PTL

\* under_pb_strike is the true run of checkpoints under the benchmark, when no
\* two checkpoints share a block (exposeUnderPerfStrike, computeMetrics).
THEOREM StrikeAlwaysFaithful ==
    ASSUME Regular, OnePerBlock PROVE Spec => []StrikeFaithful
<1>1. Init => StrikeFaithful
  BY DEF Init, StrikeFaithful
<1>2. ASSUME WindowInv, GaugesInv, StrikeFaithful, [Next]_vars
      PROVE  StrikeFaithful'
  <2>1. CASE PublishGauges
    <3>1. UNCHANGED stored
      BY <2>1, <1>2, PublishedForHead
    <3>2. CASE UNCHANGED <<strike, strikeAt>>
      BY <1>2, <3>1, <3>2 DEF StrikeFaithful
    <3>3. CASE HighestSequential(stored) \in stored
               /\ PublishStrike(HighestSequential(stored))
      <4>1. stored # {} /\ AllComputed(HighestSequential(stored))
        BY <1>2, <2>1, <3>3, PublishedForHead
      <4> QED
        BY <1>2, <3>1, <3>3, <4>1, PublishedStrike
    <3> QED
      BY <1>2, <2>1, <3>2, <3>3, PublishedForHead
  <2>2. CASE ~PublishGauges
    <3>1. CASE strikeAt' = 0
      BY <3>1 DEF StrikeFaithful
    <3>2. CASE UNCHANGED <<strike, strikeAt>>
      BY <1>2, <3>2, ComputedStays DEF StrikeFaithful, GaugesInv
    <3> QED
      BY <1>2, <2>2, <3>1, <3>2, OnlyTheEndPublishes
  <2> QED
    BY <2>1, <2>2
<1> QED
  BY <1>1, <1>2, WindowsInvariant, GaugesInvariant, PTL DEF Spec
=============================================================================
