----------------------------- MODULE Performance -----------------------------
(***************************************************************************)
(* From duties to performance, and the names in between.  computePerformance*)
(* groups the duties of a window by validator and moniker, turns them into *)
(* rates and takes 95% of their median for the benchmark.  Monikers are    *)
(* copied into every row when it is written, and brought up to date when   *)
(* the process starts: three updates per validator, in statements of their *)
(* own, of which any may fail.  A validator with two names counts as two.  *)
(*                                                                         *)
(* Indexing is the business of Indexer: checkpoints come in order here, and*)
(* only in what they hold there is a choice.  Rates are counted in         *)
(* 1 / Scale, benchmarks in 1 / (40 * Scale).                              *)
(***************************************************************************)
EXTENDS Median

CONSTANTS
    LastCheckpoint,   \* the checkpoints are 1 .. LastCheckpoint
    Ids,              \* validators
    Active,           \* Active[n]: the active set at checkpoint n
    Tracked,          \* Tracked[n]: validators tracked at checkpoint n
    Anonymous,        \* the moniker of a validator that is not in the file
    Files,            \* contents of MONIKERS_JSON: a moniker or Anonymous for
                      \* each validator
    MonitoringPeriod, \* MONITORING_PERIOD
    Scale             \* bound: all rates are multiples of 1 / Scale

Checkpoints == 1 .. LastCheckpoint

Names == {Anonymous} \union UNION {{f[v] : v \in Ids} : f \in Files}

\* A checkpoint without an active set is not stored (the rewards are divided
\* by its stake).
ASSUME PerformanceAssumption ==
    /\ LastCheckpoint \in Nat /\ MonitoringPeriod \in Nat
    /\ IsFiniteSet(Ids)
    /\ Active \in [Checkpoints -> (SUBSET Ids) \ {{}}]
    /\ Tracked \in [Checkpoints -> SUBSET Ids]
    /\ Files \subseteq [Ids -> Names]
    /\ Scale \in Nat \ {0}
    /\ \A k \in 1 .. MonitoringPeriod + 1 : Scale % k = 0

VARIABLES
    pc,        \* "down", "sync" while monikers are updated, "up"
    monikers,  \* ValidatorsService.monikers, Anonymous for an absent key
    syncing,   \* syncing[v]: which update of v comes next
    duties,    \* table duties
    metrics,   \* table metrics: the rates of the tracked validators
    benchmark, \* table metrics: benchmark[n], NotComputed while there is none
    lapsed     \* history: validators whose duties were left with a name they
               \* no longer go by, since the last update that succeeded

vars == <<pc, monikers, syncing, duties, metrics, benchmark, lapsed>>

NotComputed == -2

Stored == {d.checkpoint : d \in duties}

Computed == {n \in Checkpoints : benchmark[n] # NotComputed}

DutiesOf(v) == {d \in duties : d.vId = v}

MetricsOf(v) == {m \in metrics : m.vId = v}

Init ==
    /\ pc = "down"
    /\ monikers = [v \in Ids |-> Anonymous]
    /\ syncing = [v \in Ids |-> "idle"]
    /\ duties = {}
    /\ metrics = {}
    /\ benchmark = [n \in Checkpoints |-> NotComputed]
    /\ lapsed = {}

-----------------------------------------------------------------------------
(* Monikers.                                                               *)

\* Duties of a validator that left the file keep its name.
LeftBehind(file) ==
    {v \in Ids : file[v] = Anonymous /\ \E d \in DutiesOf(v) : d.moniker # Anonymous}

\* Faulty variant: only changes against the map just read are synchronised.
BootWithDiff ==
    /\ pc = "down"
    /\ \E file \in Files :
          /\ monikers' = file
          /\ syncing' = [v \in Ids |-> "idle"]
          /\ lapsed' = lapsed \union LeftBehind(file)
    /\ pc' = "sync"
    /\ UNCHANGED <<duties, metrics, benchmark>>

\* The process starts: the file is read, and every validator in it is due.
Boot ==
    /\ pc = "down"
    /\ \E file \in Files :
          /\ monikers' = file
          /\ syncing' = [v \in Ids |->
                           IF file[v] = Anonymous THEN "idle" ELSE "duties"]
          /\ lapsed' = lapsed \union LeftBehind(file)
    /\ pc' = "sync"
    /\ UNCHANGED <<duties, metrics, benchmark>>

Rename(rows, v) ==
    {IF r.vId = v THEN [r EXCEPT !.moniker = monikers[v]] ELSE r : r \in rows}

UpdateDuties(v) ==
    /\ syncing[v] = "duties"
    /\ duties' = Rename(duties, v)
    /\ lapsed' = lapsed \ {v}
    /\ syncing' = [syncing EXCEPT ![v] = "metrics"]
    /\ UNCHANGED <<pc, monikers, metrics, benchmark>>

\* The labels are part of the primary key: two rates of one checkpoint under
\* different names cannot get the same name, and the update throws.
UpdateMetrics(v) ==
    /\ syncing[v] = "metrics"
    /\ metrics' = IF \E a, b \in MetricsOf(v) : a # b /\ a.checkpoint = b.checkpoint
                  THEN metrics ELSE Rename(metrics, v)
    /\ syncing' = [syncing EXCEPT ![v] = "idle"]
    /\ UNCHANGED <<pc, monikers, duties, benchmark, lapsed>>

\* An update of v throws, the one of the share events between the two others
\* included: those that follow are skipped.
UpdateFails(v) ==
    /\ syncing[v] # "idle"
    /\ syncing' = [syncing EXCEPT ![v] = "idle"]
    /\ lapsed' = IF syncing[v] = "duties" THEN lapsed \union {v} ELSE lapsed
    /\ UNCHANGED <<pc, monikers, duties, metrics, benchmark>>

\* allSettled, and a catch that lets the jobs start all the same.
Synced ==
    /\ pc = "sync"
    /\ \A v \in Ids : syncing[v] = "idle"
    /\ pc' = "up"
    /\ UNCHANGED <<monikers, syncing, duties, metrics, benchmark, lapsed>>

-----------------------------------------------------------------------------
(* The jobs.                                                               *)

\* The next checkpoint is stored, with the names of the map (getMoniker).
Index(n, committed) ==
    /\ pc = "up"
    /\ Stored = 1 .. n - 1
    /\ duties' = duties \union
         {[checkpoint |-> n, vId |-> v, moniker |-> monikers[v],
           fulfilled |-> v \in committed] : v \in Active[n]}
    /\ UNCHANGED <<pc, monikers, syncing, metrics, benchmark, lapsed>>

\* The rows of the window of n, and the groups of the query.
Window(n) ==
    {d \in duties : n <= d.checkpoint + MonitoringPeriod /\ d.checkpoint <= n}

Groups(n) == {<<d.vId, d.moniker>> : d \in Window(n)}

Group(rows, g) == {d \in rows : d.vId = g[1] /\ d.moniker = g[2]}

Fulfilled(rows) == {d \in rows : d.fulfilled}

\* Faulty variants: all the duties ever fulfilled; every validator is taken to
\* have had a duty in each checkpoint of the window.
PerfPercentEver(n, g) ==
    (Cardinality(Fulfilled(Group(duties, g))) * Scale)
        \div Cardinality(Group(Window(n), g))

PerfPercentOfWindow(n, g) ==
    (Cardinality(Fulfilled(Group(Window(n), g))) * Scale)
        \div Cardinality({d.checkpoint : d \in Window(n)})

\* 1 - misses / duties
PerfPercent(n, g) ==
    (Cardinality(Fulfilled(Group(Window(n), g))) * Scale)
        \div Cardinality(Group(Window(n), g))

\* computePB: 95% of the median, which is given twice.
Benchmark(rates) ==
    LET m == MedianTwice(rates) IN IF m = NaN THEN NaN ELSE 19 * m

\* computePerformance, saved by one statement.  A checkpoint is computed once.
ComputePerformance(n) ==
    LET rates == [g \in Groups(n) |-> PerfPercent(n, g)]
    IN  /\ pc = "up"
        /\ n \in Stored \ Computed
        /\ metrics' = metrics \union
             {[checkpoint |-> n, vId |-> g[1], moniker |-> g[2], rate |-> rates[g]] :
              g \in {h \in Groups(n) : h[1] \in Tracked[n] \cap Active[n]}}
        /\ benchmark' = [benchmark EXCEPT ![n] = Benchmark(rates)]
        /\ UNCHANGED <<pc, monikers, syncing, duties, lapsed>>

\* The process ends, by a failure or for a new version of the file.
Stop ==
    /\ pc # "down"
    /\ pc' = "down"
    /\ monikers' = [v \in Ids |-> Anonymous]
    /\ syncing' = [v \in Ids |-> "idle"]
    /\ lapsed' = lapsed \union {v \in Ids : syncing[v] = "duties"}
    /\ UNCHANGED <<duties, metrics, benchmark>>

Next ==
    \/ Boot \/ Synced \/ Stop
    \/ \E v \in Ids : UpdateDuties(v) \/ UpdateMetrics(v) \/ UpdateFails(v)
    \/ \E n \in Checkpoints :
          \/ ComputePerformance(n)
          \/ \E committed \in SUBSET Active[n] : Index(n, committed)

Spec == Init /\ [][Next]_vars

-----------------------------------------------------------------------------
(* Properties.                                                             *)

\* Types; a rate lies between 0 and 1, and the rows of a table differ in their
\* keys.
TypeOK ==
    /\ pc \in {"down", "sync", "up"}
    /\ monikers \in [Ids -> Names]
    /\ syncing \in [Ids -> {"idle", "duties", "metrics"}]
    /\ duties \subseteq [checkpoint : Checkpoints, vId : Ids, moniker : Names,
                          fulfilled : BOOLEAN]
    /\ metrics \subseteq [checkpoint : Checkpoints, vId : Ids, moniker : Names,
                           rate : 0 .. Scale]
    /\ benchmark \in [Checkpoints -> {NotComputed, NaN} \union 0 .. 38 * Scale]
    /\ lapsed \subseteq Ids
    /\ \A a, b \in duties :
          a # b => a.checkpoint # b.checkpoint \/ a.vId # b.vId
    /\ \A a, b \in metrics :
          a # b => a.checkpoint # b.checkpoint \/ a.vId # b.vId \/ a.moniker # b.moniker

\* While the jobs run all duties of a validator carry the name it goes by,
\* unless the last update of them failed, was cut off, or the validator left
\* the file: whatever names the file had in earlier lives (syncMonikers).
OneName ==
    pc = "up" => \A d \in duties : d.vId \notin lapsed => d.moniker = monikers[d.vId]

\* The validators with a duty in the window of n, and the share each fulfilled.
InWindow(n) == {d.vId : d \in Window(n)}

ShareOf(n, v) ==
    LET rows == {d \in Window(n) : d.vId = v}
    IN  (Cardinality(Fulfilled(rows)) * Scale) \div Cardinality(rows)

\* A performance is computed once, so it has to be right then: one rate for each
\* tracked validator, the share of its own duties in the window it fulfilled,
\* for a validator that was not in the active set all the time too, and under
\* whatever names it had before (computePerformance).
RatesFaithful ==
    [][\A n \in Checkpoints : ComputePerformance(n) =>
         \A v \in (Tracked[n] \cap Active[n]) \ lapsed :
            {<<m.moniker, m.rate>> : m \in {k \in MetricsOf(v)' : k.checkpoint = n}}
              = {<<monikers[v], ShareOf(n, v)>>}]_vars

\* The benchmark is 95% of the median over the validators, each counted once.
IsBenchmark(n, b) ==
    LET shares == [v \in InWindow(n) |-> ShareOf(n, v)]
    IN  \E m \in 0 .. 2 * Scale : IsMedianTwice(shares, m) /\ b = 19 * m

\* That holds for an odd number of validators with one name each (computePB).
BenchmarkIsMedianOdd ==
    [][\A n \in Checkpoints :
         ComputePerformance(n) /\ Cardinality(InWindow(n)) % 2 = 1
           /\ InWindow(n) \cap lapsed = {} => IsBenchmark(n, benchmark'[n])]_vars

\* For any number of them the benchmark errs on one side only: with two it is NaN,
\* with more it is never below 95% of the median of their shares, so that no
\* validator is taken for good because of it (computePB, median).
BenchmarkNeverTooLow ==
    [][\A n \in Checkpoints :
         ComputePerformance(n) /\ InWindow(n) \cap lapsed = {} =>
           IF Cardinality(InWindow(n)) = 2 THEN benchmark'[n] = NaN
           ELSE \A m \in 0 .. 2 * Scale :
                   IsMedianTwice([v \in InWindow(n) |-> ShareOf(n, v)], m) =>
                     19 * m <= benchmark'[n]]_vars

\* And for any number of them, as the comment of the multiplier, "Return median
\* value multiplier as defined in PIP-4", and the name of median() have it.
BenchmarkIsMedian ==
    [][\A n \in Checkpoints :
         ComputePerformance(n) /\ InWindow(n) \cap lapsed = {} =>
           IsBenchmark(n, benchmark'[n])]_vars
=============================================================================
