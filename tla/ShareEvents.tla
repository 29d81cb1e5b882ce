----------------------------- MODULE ShareEvents -----------------------------
(***************************************************************************)
(* The stake events job of WorkerService with the ShareEventsService calls *)
(* it makes.  A run of the job asks the storage for the last event of each *)
(* type, fetches what the chain emitted after its block, and stores every  *)
(* event in a transaction of its own, all of them concurrently.  There is  *)
(* no cursor but the events themselves: whatever is below the last stored  *)
(* event of its type is never asked for again.                             *)
(*                                                                         *)
(* The environment is unreliable until the chain reaches MaxBlock, as in   *)
(* Indexer.  The job shares no state with the main cycle.                  *)
(***************************************************************************)
EXTENDS Naturals, FiniteSetsExt

CONSTANTS
    Events,       \* the share events the chain will emit
    EventBlock,   \* EventBlock[e]: the block of e
    EventType,    \* EventType[e]: ShareMinted or ShareBurned
    StartBlock,   \* START_BLOCK
    DryRun,       \* DRY_RUN
    FirstHead,    \* bound: the latest block when the service starts
    MaxBlock      \* bound: the last block of the chain

Types == {"Minted", "Burned"}

ASSUME EventsAssumption ==
    /\ EventBlock \in [Events -> Nat]
    /\ EventType \in [Events -> Types]
    /\ StartBlock \in Nat /\ FirstHead \in Nat \ {0} /\ MaxBlock \in Nat
    /\ FirstHead <= MaxBlock
    /\ DryRun \in BOOLEAN

VARIABLES
    head,     \* the latest block of the chain
    stored,   \* table share_events
    pc,       \* where the job stands
    jobOn,    \* the cron job is not stopped
    latest,   \* latestBlock.number of the running job
    fetched,  \* the events the running job has fetched
    handler,  \* handler[e]: where the storing of e stands
    hit       \* history: the events that themselves were left out of an
              \* answer, failed to be stored, or were in flight in a crash

vars == <<head, stored, pc, jobOn, latest, fetched, handler, hit>>

Flaky == head < MaxBlock

Mine ==
    /\ head < MaxBlock
    /\ head' = head + 1
    /\ UNCHANGED <<stored, pc, jobOn, latest, fetched, handler, hit>>

Init ==
    /\ head = FirstHead
    /\ stored = {}
    /\ pc = "idle"
    /\ jobOn = TRUE
    /\ latest = 0
    /\ fetched = {}
    /\ handler = [e \in Events |-> "idle"]
    /\ hit = {}

\* Faulty variant: the finally clause does not look at DRY_RUN.
EndJobForGood ==
    /\ pc' = "idle"
    /\ jobOn' = FALSE
    /\ latest' = 0
    /\ fetched' = {}

\* The job returns, by its end or by its catch; the finally clause.
EndJob ==
    /\ pc' = "idle"
    /\ jobOn' = (jobOn /\ ~DryRun)
    /\ latest' = 0
    /\ fetched' = {}

\* An awaited call of the job throws before any event is handled.
JobFails ==
    /\ pc \in {"minted", "burned"}
    /\ Flaky
    /\ EndJob
    /\ UNCHANGED <<head, stored, handler, hit>>

\* Faulty variant: the job asks for the pending block.
StartJobPending ==
    /\ pc = "idle"
    /\ jobOn
    /\ latest' = head + 1
    /\ pc' = "minted"
    /\ UNCHANGED <<head, stored, jobOn, fetched, handler, hit>>

\* The cron job fires: getBlock('latest'), which a lagging provider answers
\* with an older block.
StartJob ==
    /\ pc = "idle"
    /\ jobOn
    /\ \/ /\ latest' \in (IF Flaky THEN 1 .. head ELSE {head})
          /\ pc' = "minted"
          /\ UNCHANGED <<jobOn, fetched>>
       \/ Flaky /\ EndJob   \* getBlock throws
    /\ UNCHANGED <<head, stored, handler, hit>>

OfType(S, type) == {e \in S : EventType[e] = type}

\* The last block of an event of the type in the storage.
LastBlock(type) == Max({EventBlock[e] : e \in OfType(stored, type)})

\* Faulty variants of SeekFrom: off by one, either way.
SeekFromLast(type) ==
    IF OfType(stored, type) = {} THEN StartBlock ELSE LastBlock(type)

SeekPastNext(type) ==
    IF OfType(stored, type) = {} THEN StartBlock ELSE LastBlock(type) + 2

\* The block to look from: after the last stored event of the type
\* (getLastStakeEvent, getLastUnstakeEvent).
SeekFrom(type) ==
    IF OfType(stored, type) = {} THEN StartBlock ELSE LastBlock(type) + 1

\* What the chain emitted of a type in the blocks from .. to.
Emitted(type, from, to) ==
    {e \in Events : EventType[e] = type /\ from <= EventBlock[e] /\ EventBlock[e] <= to}

\* getStakeEvents, getUnstakeEvents
Fetch(type) ==
    \E events \in SUBSET Emitted(type, SeekFrom(type), latest) :
        LET left == Emitted(type, SeekFrom(type), latest) \ events
        IN  /\ left # {} => Flaky
            /\ fetched' = fetched \union events
            /\ hit' = hit \union left

FetchMinted ==
    /\ pc = "minted"
    /\ Fetch("Minted")
    /\ pc' = "burned"
    /\ UNCHANGED <<head, stored, jobOn, latest, handler>>

\* The events of both types are handed to their handlers, all at once.
FetchBurned ==
    /\ pc = "burned"
    /\ Fetch("Burned")
    /\ handler' = [e \in Events |-> IF e \in fetched' THEN "process" ELSE "idle"]
    /\ pc' = "handle"
    /\ UNCHANGED <<head, stored, jobOn, latest>>

-----------------------------------------------------------------------------
(* The handlers: processShareEvent, then storeEvent.                       *)

Goto(e, state) == handler' = [handler EXCEPT ![e] = state]

\* processShareEvent only reads.
Process(e) ==
    /\ handler[e] = "process"
    /\ Goto(e, "store")
    /\ UNCHANGED <<stored, hit>>

\* storeEvent inserts a row; the unique index on (blockNumber, logIndex)
\* refuses a second row of the same event.
Store(e) ==
    /\ handler[e] = "store"
    /\ IF e \in stored
       THEN Goto(e, "failed") /\ UNCHANGED stored
       ELSE stored' = stored \union {e} /\ Goto(e, "done")
    /\ UNCHANGED hit

\* The commit takes effect but the call throws.
StoreUnacknowledged(e) ==
    /\ handler[e] = "store"
    /\ Flaky
    /\ e \notin stored
    /\ stored' = stored \union {e}
    /\ Goto(e, "failed")
    /\ UNCHANGED hit

\* getBlock, or the transaction before its commit, throws.
HandlerFails(e) ==
    /\ handler[e] \in {"process", "store"}
    /\ Flaky
    /\ Goto(e, "failed")
    /\ hit' = hit \union {e}
    /\ UNCHANGED stored

Handle(e) ==
    /\ Process(e) \/ Store(e) \/ StoreUnacknowledged(e) \/ HandlerFails(e)
    /\ UNCHANGED <<head, pc, jobOn, latest, fetched>>

\* allSettled
Settle ==
    /\ pc = "handle"
    /\ \A e \in Events : handler[e] \in {"idle", "done", "failed"}
    /\ handler' = [e \in Events |-> "idle"]
    /\ EndJob
    /\ UNCHANGED <<head, stored, hit>>

\* The process dies and is started again.
Crash ==
    /\ Flaky
    /\ pc' = "idle"
    /\ jobOn' = TRUE
    /\ latest' = 0
    /\ fetched' = {}
    /\ handler' = [e \in Events |-> "idle"]
    /\ hit' = hit \union {e \in Events : handler[e] \in {"process", "store"}}
    /\ UNCHANGED <<head, stored>>

Job == StartJob \/ FetchMinted \/ FetchBurned \/ Settle

Next ==
    \/ Mine
    \/ Job
    \/ \E e \in Events : Handle(e)
    \/ JobFails
    \/ Crash

Spec == Init /\ [][Next]_vars

\* The cron job keeps firing, every call answers or throws, the chain grows.
FairSpec ==
    /\ Spec
    /\ WF_vars(Mine)
    /\ WF_vars(Job)
    /\ \A e \in Events : WF_vars(Handle(e))

-----------------------------------------------------------------------------
(* Properties.                                                             *)

TypeOK ==
    /\ head \in FirstHead .. MaxBlock
    /\ stored \in SUBSET Events
    /\ pc \in {"idle", "minted", "burned", "handle"}
    /\ jobOn \in BOOLEAN
    /\ latest \in Nat /\ latest <= head
    /\ fetched \in SUBSET Events
    /\ handler \in [Events -> {"idle", "process", "store", "done", "failed"}]
    /\ hit \in SUBSET Events

\* An event is never fetched again once it is stored, so the unique index never
\* refuses an insert: a refused one would fail every later run of the job too
\* (stakeEvents, the index of shareEvent.entity.ts).
NeverFetchedAgain ==
    \A e \in Events : handler[e] \in {"process", "store"} => e \notin stored

\* An event the cursor of its type has passed is stored or about to be, unless
\* that very event was hit: the failures of others never lose it.
PassedOnlyWhenHit ==
    \A e \in Events :
        StartBlock <= EventBlock[e] /\ EventBlock[e] < SeekFrom(EventType[e])
            => e \in stored \union hit \/ handler[e] \in {"process", "store"}

\* Every event that is not itself hit is eventually stored.
EventuallyStored ==
    \A e \in Events :
        StartBlock <= EventBlock[e] /\ EventBlock[e] <= MaxBlock
            => <>(e \in stored \union hit)
=============================================================================
