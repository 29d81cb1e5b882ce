-------------------------- MODULE WorkerServiceProofs --------------------------
(***************************************************************************)
(* Theorems about the retention job alone, and about the worker as one     *)
(* process.  It implements its parts, so that what is proved of the main   *)
(* cycle (IndexerProofs, IndexerGaugesProofs) and of the retention job     *)
(* holds of them together; and the health check, which reads the table in  *)
(* three steps while it is filled, neither invents nor overlooks a gap.    *)
(***************************************************************************)
EXTENDS WorkerService, IndexerGaugesProofs

-----------------------------------------------------------------------------
(* The retention job, for any checkpoints and any number of them to keep.  *)

USE CheckpointsAssumption, RetentionAssumption

\* What the job has read is still there when it removes.
THEOREM RetentionTypeCorrect == RetentionSpec => []RetentionTypeOK
<1>1. RetentionInit => RetentionTypeOK
  BY DEF RetentionInit, RetentionTypeOK
<1>2. RetentionTypeOK /\ [RetentionNext]_retentionVars => RetentionTypeOK'
  <2> SUFFICES ASSUME RetentionTypeOK, [RetentionNext]_retentionVars PROVE RetentionTypeOK'
    OBVIOUS
  <2> USE DEF RetentionTypeOK
  <2>1. ASSUME NEW n \in Checkpoints, AddLabel(n) PROVE RetentionTypeOK'
    BY <2>1 DEF AddLabel
  <2>2. CASE ReadRegistry
    BY <2>2 DEF ReadRegistry
  <2>3. CASE RemoveOutdated
    BY <2>3 DEF RemoveOutdated, Outdated
  <2>4. CASE ClearRegistry
    BY <2>4 DEF ClearRegistry
  <2>5. CASE UNCHANGED retentionVars
    BY <2>5 DEF retentionVars
  <2> QED
    BY <2>1, <2>2, <2>3, <2>4, <2>5 DEF RetentionNext
<1> QED
  BY <1>1, <1>2, PTL DEF RetentionSpec

\* The job never removes a recent label set.  Nothing is assumed of the order
\* of strings: whatever label the search returns, it is one of the registry.
THEOREM RecentLabelsKept == RetentionSpec => KeepsRecent
<1>1. ASSUME RetentionTypeOK, [RetentionNext]_retentionVars
      PROVE  [RemoveOutdated =>
                \A n \in labels \ labels' :
                    \E m \in labels : m > n + CheckpointsToKeep]_retentionVars
  BY <1>1 DEF RemoveOutdated, IsMaxLabel, Outdated, RetentionTypeOK
<1> QED
  BY <1>1, RetentionTypeCorrect, PTL DEF RetentionSpec, KeepsRecent

\* With labels of the same length the search finds the highest checkpoint, and
\* nothing outdated is left.
THEOREM OutdatedLabelsRemoved == RetentionSpec => RemovesOutdatedSameDigits
<1>1. ASSUME RetentionTypeOK, [RetentionNext]_retentionVars
      PROVE  [RemoveOutdated /\ snapshot # {} /\ SameDigits(snapshot) =>
                \A n \in snapshot :
                    n \in labels' => Max(snapshot) <= n + CheckpointsToKeep]_retentionVars
  <2> SUFFICES ASSUME RemoveOutdated, snapshot # {}, SameDigits(snapshot),
                      NEW n \in snapshot, n \in labels'
               PROVE  Max(snapshot) <= n + CheckpointsToKeep
    OBVIOUS
  <2> DEFINE top == Max(snapshot)
  <2>1. snapshot \in SUBSET Nat /\ \A k \in snapshot : k <= LastCheckpoint
    BY <1>1 DEF RetentionTypeOK, Checkpoints
  <2>2. top \in snapshot /\ \A k \in snapshot : k <= top
    BY <2>1, MaxIsGreatest
  <2>3. PICK m \in snapshot : /\ IsMaxLabel(m, snapshot)
                              /\ labels' = labels \ Outdated(snapshot, m)
    BY DEF RemoveOutdated, IsMaxLabel
  <2> HIDE DEF top
  <2>4. m = top
    <3>1. SUFFICES ASSUME top # m PROVE FALSE
      OBVIOUS
    <3>2. StringLess(top, m)
      BY <2>2, <2>3, <3>1 DEF IsMaxLabel
    <3>3. top < m
      BY <2>1, <2>2, <3>2, SameDigitsOrder DEF SameDigits
    <3> QED
      BY <2>1, <2>2, <3>3
  <2>5. ~(top > n + CheckpointsToKeep)
    BY <2>3, <2>4 DEF Outdated
  <2>6. top \in Nat /\ n \in Nat
    BY <2>1, <2>2
  <2>7. top <= n + CheckpointsToKeep
    BY <2>5, <2>6
  <2> QED
    BY <2>7 DEF top
<1> QED
  BY <1>1, RetentionTypeCorrect, PTL DEF RetentionSpec, RemovesOutdatedSameDigits

-----------------------------------------------------------------------------
(* Composition.                                                            *)

\* Neither the retention job nor the health check disturbs the main cycle.
THEOREM ServiceRunsIndexer == ServiceSpec => Spec
<1>1. ServiceInit => Init
  BY DEF ServiceInit
<1>2. [ServiceNext]_serviceVars => [Next]_vars
  BY DEF ServiceNext, serviceVars, Announce, Proceed, Retain, CheckHealth, Die, Next
<1> QED
  BY <1>1, <1>2, PTL DEF ServiceSpec, Spec

\* The main cycle only ever adds label sets, one at a time.
THEOREM ServiceRunsRetention == ServiceSpec => RetentionSpec
<1>1. ServiceInit => RetentionInit
  BY DEF ServiceInit
<1>2. [ServiceNext]_serviceVars => [RetentionNext]_retentionVars
  BY DEF ServiceNext, serviceVars, Announce, Proceed, Retain, CheckHealth, Die,
         RetentionNext
<1> QED
  BY <1>1, <1>2, PTL DEF ServiceSpec, RetentionSpec

\* So the job keeps recent label sets however it interleaves with the handlers.
THEOREM ServiceKeepsRecent == ServiceSpec => KeepsRecent
  BY ServiceRunsRetention, RecentLabelsKept, PTL

\* And removes the outdated ones, while labels have as many digits.
THEOREM ServiceRemovesOutdated == ServiceSpec => RemovesOutdatedSameDigits
  BY ServiceRunsRetention, OutdatedLabelsRemoved, PTL

\* No handler outlives its cycle and nothing is announced twice, whenever the
\* retention job and the health check run, and whenever all die together.
THEOREM ServiceKeepsHandlers == ServiceSpec => [](HandlersInsideCycle /\ AnnouncedOnce)
  BY ServiceRunsIndexer, NoOrphanHandlers, AnnouncedAtMostOnce, PTL

\* Nor is a checkpoint passed that is not stored, or scanned again from the head
\* of the storage down.
THEOREM ServiceScansForward == ServiceSpec => AdvancesOverStored /\ NeverScansBack
  BY ServiceRunsIndexer, ChunksAreStored, ResumesAboveHead, PTL

\* The worker as a whole implements the abstract log, and its gauge of misses in
\* a row is right, outside of dry runs and while numbers have as many digits.
THEOREM ServiceImplementsLog ==
    ASSUME Regular PROVE ServiceSpec => ImplementsLog /\ []InRowFaithful
  BY ServiceRunsIndexer, IndexerImplementsLog, InRowAlwaysFaithful, PTL

-----------------------------------------------------------------------------
(* The registry.                                                           *)

\* Every label set belongs to a stored checkpoint that was announced.
LabelsAnnounced == \A n \in labels : exposed[n] = 1 /\ n \in stored

\* Checkpoints stay in the table, and announcements are never taken back.
LEMMA OnlyGrows ==
    ASSUME HandlerInv, [Next]_vars
    PROVE  /\ stored \subseteq stored'
           /\ \A n \in Checkpoints : exposed[n] = 1 /\ exposed'[n] \in {0, 1} => exposed'[n] = 1
<1>1. ASSUME NEW n \in Checkpoints, Handle(n)
      PROVE  /\ stored \subseteq stored'
             /\ \A m \in Checkpoints : exposed[m] = 1 /\ exposed'[m] \in {0, 1} => exposed'[m] = 1
  BY <1>1 DEF Handle, CheckExists, Process, Store, StoreUnacknowledged, Expose,
              HandlerFails, HandlerInv, TypeOK
<1>2. CASE UNCHANGED <<stored, exposed>>
  BY <1>2
<1>3. \/ UNCHANGED <<stored, exposed>>
      \/ \E n \in Checkpoints : Handle(n)
  BY DEF Next, Worker, Mine, StartCycle, Resume, Scan, Settle, Advance, FastForward,
         ComputeMetrics, PublishGauges, CycleFails, Crash, vars, database
<1> QED
  BY <1>1, <1>2, <1>3

\* A label set in the registry was announced, for a checkpoint in the storage
\* (exposeCheckpointMisses).
THEOREM LabelsAlwaysAnnounced == ServiceSpec => []LabelsAnnounced
<1>1. ServiceInit => LabelsAnnounced
  BY DEF ServiceInit, RetentionInit, LabelsAnnounced
<1>2. ASSUME LabelsAnnounced, HandlerInv, HandlerInv', RetentionTypeOK, [Next]_vars,
             [ServiceNext]_serviceVars
      PROVE  LabelsAnnounced'
  <2> USE DEF LabelsAnnounced
  <2>1. \A n \in labels : n \in Checkpoints /\ exposed'[n] = 1 /\ n \in stored'
    BY <1>2, OnlyGrows DEF HandlerInv, RetentionTypeOK
  <2>2. ASSUME NEW n \in Checkpoints, Announce(n) PROVE LabelsAnnounced'
    <3>1. CASE exposed'[n] # exposed[n]
      <4>1. exposed'[n] = 1 /\ n \in stored'
        <5>1. n \in stored /\ exposed[n] = 0
          BY <1>2, <2>2 DEF Announce, HandlerInv
        <5>2. exposed'[n] \in {0, 1}
          BY <1>2 DEF HandlerInv
        <5> QED
          BY <1>2, <3>1, <5>1, <5>2, OnlyGrows
      <4> QED
        BY <2>1, <2>2, <4>1 DEF Announce, AddLabel, retentionVars
    <3>2. CASE exposed'[n] = exposed[n]
      BY <2>1, <2>2, <3>2 DEF Announce, retentionVars
    <3> QED
      BY <3>1, <3>2
  <2>3. CASE labels' \subseteq labels
    BY <2>1, <2>3
  <2>4. \/ labels' \subseteq labels
        \/ \E n \in Checkpoints : Announce(n)
    BY <1>2 DEF ServiceNext, serviceVars, Proceed, Retain, CheckHealth, Die, retentionVars,
                ReadRegistry, RemoveOutdated, ClearRegistry
  <2> QED
    BY <2>2, <2>3, <2>4
<1> QED
  BY <1>1, <1>2, ServiceRunsIndexer, ServiceRunsRetention, HandlersInvariant,
     RetentionTypeCorrect, PTL DEF ServiceSpec, Spec

-----------------------------------------------------------------------------
(* The health check.                                                       *)

\* What was read is still stored, and a number that was missing at the start
\* lies between two stored ones, and between the bounds as far as they are read.
CheckInv ==
    /\ stored \in SUBSET Checkpoints
    /\ low \in stored \union {Unread, Undefined}
    /\ high \in stored \union {Unread, Undefined}
    /\ check \in {"idle", "bounds"}
    /\ check = "idle" => low = Unread /\ high = Unread
    /\ \A g \in gapAtStart :
          /\ g \in Nat
          /\ \E a, b \in stored : a <= g /\ g <= b
          /\ low # Unread => low \in stored /\ low <= g
          /\ high # Unread => high \in stored /\ g <= high

\* All stored checkpoints lie between the two bounds a check reads.
LEMMA BoundsOfStored ==
    ASSUME stored \in SUBSET Checkpoints, stored # {}
    PROVE  /\ stored \in SUBSET Nat
           /\ Min(stored) \in stored /\ \A y \in stored : Min(stored) <= y
           /\ Max(stored) \in stored /\ \A y \in stored : y <= Max(stored)
<1>1. stored \in SUBSET Nat /\ \A y \in stored : y <= LastCheckpoint
  BY CheckpointsAreNumbers DEF Checkpoints
<1>2. LastCheckpoint \in Nat
  BY CheckpointsAssumption
<1> QED
  BY <1>1, <1>2, MinIsLeast, MaxIsGreatest

\* One step of the check.
LEMMA CheckKeepsInv ==
    ASSUME CheckInv, Check, UNCHANGED vars
    PROVE  CheckInv'
<1> USE DEF CheckInv, Unread, Undefined
<1>1. UNCHANGED stored
  BY DEF vars, database
<1>2. stored # {} => /\ stored \in SUBSET Nat
                     /\ Min(stored) \in stored /\ \A y \in stored : Min(stored) <= y
                     /\ Max(stored) \in stored /\ \A y \in stored : y <= Max(stored)
  BY BoundsOfStored
<1>3. \A n \in stored : n # Unread
  BY CheckpointsAreNumbers
<1>4. CASE StartCheck
  <2>1. \A g \in Gap : g \in Nat /\ \E a, b \in stored : a <= g /\ g <= b
    <3> SUFFICES ASSUME NEW g \in Gap
                 PROVE  g \in Nat /\ \E a, b \in stored : a <= g /\ g <= b
      OBVIOUS
    <3>1. stored # {} /\ g \in Min(stored) .. Max(stored)
      BY DEF Gap, Missing
    <3>2. Min(stored) \in Nat /\ Max(stored) \in Nat
      BY <1>2, <3>1
    <3>3. g \in Nat /\ Min(stored) <= g /\ g <= Max(stored)
      BY <3>1, <3>2
    <3> QED
      BY <1>2, <3>1, <3>3
  <2> QED
    BY <1>1, <1>4, <2>1 DEF StartCheck
<1>5. CASE ReadMin
  <2>1. \A g \in gapAtStart : stored # {} /\ Min(stored) \in stored /\ Min(stored) <= g
    <3> SUFFICES ASSUME NEW g \in gapAtStart
                 PROVE  stored # {} /\ Min(stored) \in stored /\ Min(stored) <= g
      OBVIOUS
    <3>1. PICK a \in stored : a <= g /\ g \in Nat
      OBVIOUS
    <3>2. Min(stored) \in stored /\ Min(stored) <= a /\ Min(stored) \in Nat /\ a \in Nat
      BY <1>2, <3>1
    <3> QED
      BY <3>1, <3>2
  <2> QED
    BY <1>1, <1>2, <1>5, <2>1 DEF ReadMin
<1>6. CASE ReadMax
  <2>1. \A g \in gapAtStart : stored # {} /\ Max(stored) \in stored /\ g <= Max(stored)
    <3> SUFFICES ASSUME NEW g \in gapAtStart
                 PROVE  stored # {} /\ Max(stored) \in stored /\ g <= Max(stored)
      OBVIOUS
    <3>1. PICK b \in stored : g <= b /\ g \in Nat
      OBVIOUS
    <3>2. Max(stored) \in stored /\ b <= Max(stored) /\ Max(stored) \in Nat /\ b \in Nat
      BY <1>2, <3>1
    <3> QED
      BY <3>1, <3>2
  <2> QED
    BY <1>1, <1>2, <1>6, <2>1 DEF ReadMax
<1>7. CASE EndCheck
  BY <1>1, <1>7 DEF EndCheck, ForgetCheck
<1> QED
  BY <1>4, <1>5, <1>6, <1>7 DEF Check

\* The cycle fills the table under a running check.
LEMMA ProgressKeepsCheckInv ==
    ASSUME CheckInv, UNCHANGED checkVars, stored \subseteq stored',
           stored' \in SUBSET Checkpoints
    PROVE  CheckInv'
  BY DEF CheckInv, checkVars

\* What a running check has read encloses every gap that was there when it began
\* (isHealthy).
THEOREM CheckInvariant == ServiceSpec => []CheckInv
<1>1. ServiceInit => CheckInv
  BY DEF ServiceInit, CheckInit, Init, CheckInv
<1>2. ASSUME CheckInv, HandlerInv, HandlerInv', [Next]_vars, [ServiceNext]_serviceVars
      PROVE  CheckInv'
  <2>1. stored \subseteq stored' /\ stored' \in SUBSET Checkpoints
    BY <1>2, OnlyGrows DEF HandlerInv, TypeOK
  <2>2. CASE UNCHANGED checkVars
    BY <1>2, <2>1, <2>2, ProgressKeepsCheckInv
  <2>3. CASE CheckHealth
    BY <1>2, <2>3, CheckKeepsInv DEF CheckHealth
  <2>4. CASE Die
    BY <2>1, <2>4 DEF Die, ForgetCheck, CheckInv
  <2>5. UNCHANGED checkVars \/ CheckHealth \/ Die
    BY <1>2 DEF ServiceNext, serviceVars, Announce, Proceed, Retain
  <2> QED
    BY <2>2, <2>3, <2>4, <2>5
<1> QED
  BY <1>1, <1>2, ServiceRunsIndexer, HandlersInvariant, PTL DEF ServiceSpec, Spec

\* No false alarm: however the handlers commit between the three queries, what
\* is reported is missing between two stored checkpoints (isHealthy).
THEOREM NoFalseAlarm == ServiceSpec => []AlarmIsAGap
<1>1. ASSUME CheckInv PROVE AlarmIsAGap
  <2> SUFFICES ASSUME BothRead, NEW g \in Report PROVE g \in Gap
    BY DEF AlarmIsAGap
  <2>1. low \in stored /\ high \in stored /\ g \in (low .. high) \ stored
    BY <1>1 DEF BothRead, Report, CheckInv, Missing
  <2>2. /\ stored \in SUBSET Nat
        /\ Min(stored) \in stored /\ \A y \in stored : Min(stored) <= y
        /\ Max(stored) \in stored /\ \A y \in stored : y <= Max(stored)
    BY <1>1, <2>1, BoundsOfStored DEF CheckInv
  <2>3. /\ low \in Nat /\ high \in Nat /\ Min(stored) \in Nat /\ Max(stored) \in Nat
        /\ Min(stored) <= low /\ high <= Max(stored)
    BY <2>1, <2>2
  <2>4. g \in Min(stored) .. Max(stored)
    BY <2>1, <2>3
  <2> QED
    BY <2>1, <2>4 DEF Gap, Missing
<1> QED
  BY <1>1, CheckInvariant, PTL

\* No missed alarm: a gap that outlasts the check is reported (isHealthy).
THEOREM NoMissedAlarm == ServiceSpec => []LastingGapReported
<1>1. ASSUME CheckInv PROVE LastingGapReported
  <2> SUFFICES ASSUME BothRead, NEW g \in gapAtStart \ stored PROVE g \in Report
    BY DEF LastingGapReported
  <2>1. g \in Nat /\ low \in stored /\ low <= g /\ high \in stored /\ g <= high
    BY <1>1 DEF BothRead, CheckInv
  <2>2. low \in Nat \ {0} /\ high \in Nat \ {0}
    BY <1>1, <2>1, CheckpointsAreNumbers DEF CheckInv
  <2>3. g \in low .. high
    BY <2>1, <2>2
  <2> QED
    BY <2>2, <2>3 DEF Report, Missing, Undefined
<1> QED
  BY <1>1, CheckInvariant, PTL

\* All parts keep their types, and the registry holds only label sets of
\* checkpoints that are stored and were announced (exposeCheckpointMisses).
THEOREM ServiceTypeCorrect == ServiceSpec => []ServiceTypeOK
<1>1. ASSUME CheckInv PROVE CheckTypeOK
  <2>1. \A g \in gapAtStart : g \in Checkpoints
    <3> SUFFICES ASSUME NEW g \in gapAtStart PROVE g \in Checkpoints
      OBVIOUS
    <3>1. PICK a, b \in Checkpoints : a <= g /\ g <= b /\ g \in Nat
      BY <1>1 DEF CheckInv
    <3> QED
      BY <3>1, CheckpointsAssumption DEF Checkpoints
  <2> QED
    BY <1>1, <2>1 DEF CheckInv, CheckTypeOK
<1>2. TypeOK /\ RetentionTypeOK /\ CheckTypeOK /\ LabelsAnnounced => ServiceTypeOK
  BY DEF ServiceTypeOK, LabelsAnnounced
<1> QED
  BY <1>1, <1>2, ServiceRunsIndexer, ServiceRunsRetention, TypeCorrect,
     RetentionTypeCorrect, LabelsAlwaysAnnounced, CheckInvariant, PTL
=============================================================================
