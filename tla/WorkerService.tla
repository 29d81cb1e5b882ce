---------------------------- MODULE WorkerService ----------------------------
(***************************************************************************)
(* The worker as one process: the main cycle, the retention job and the    *)
(* health check interleave at their awaits and die together.  They meet in *)
(* the table of checkpoints, which the cycle fills and the check reads, and*)
(* in the registry, where handlers of the cycle add the label sets that the*)
(* job removes.  The stake events job shares nothing with them and is      *)
(* checked by itself (ShareEvents).                                        *)
(***************************************************************************)
EXTENDS Health, MetricsRetention

serviceVars == <<vars, retentionVars, checkVars>>

ServiceInit == Init /\ RetentionInit /\ CheckInit

\* exposeCheckpointMisses: a label set for each tracked validator that missed.
Announce(n) ==
    /\ handler[n] = "expose"
    /\ Handle(n)
    /\ IF exposed'[n] # exposed[n] /\ Tracked[n] \cap Missed[n] # {}
       THEN AddLabel(n) ELSE UNCHANGED retentionVars
    /\ UNCHANGED checkVars

\* Every other step of the main cycle and its handlers, and of the chain.
Proceed ==
    /\ \/ Mine \/ Worker \/ CycleFails
       \/ \E n \in Checkpoints : handler[n] # "expose" /\ Handle(n)
    /\ UNCHANGED <<retentionVars, checkVars>>

\* The retention job, which is not scheduled in a dry run.
Retain ==
    /\ ~DryRun
    /\ ReadRegistry \/ RemoveOutdated
    /\ UNCHANGED <<vars, checkVars>>

CheckHealth == Check /\ UNCHANGED <<vars, retentionVars>>

\* The process dies: of all this only the tables are left.
Die ==
    /\ Crash
    /\ ClearRegistry
    /\ ForgetCheck

ServiceNext ==
    \/ \E n \in Checkpoints : Announce(n)
    \/ Proceed
    \/ Retain
    \/ CheckHealth
    \/ Die

ServiceSpec == ServiceInit /\ [][ServiceNext]_serviceVars

-----------------------------------------------------------------------------
(* Properties.                                                             *)

\* Types of all parts; and every label set of the registry was announced in
\* this life or an earlier one, for a checkpoint in the storage.
ServiceTypeOK ==
    /\ TypeOK
    /\ RetentionTypeOK
    /\ CheckTypeOK
    /\ \A n \in labels : exposed[n] = 1 /\ n \in stored
=============================================================================
