-------------------------- MODULE ShareEventsProofs --------------------------
(***************************************************************************)
(* Theorems about ShareEvents, for any events: none is fetched again once  *)
(* it is stored, and the cursor of a type passes an event only when that   *)
(* very event was hit.  The cursor is a maximum over the table, and the    *)
(* handlers of a batch store in any order, so neither is inductive: what   *)
(* is, is that all events up to a fetched one are taken care of.           *)
(***************************************************************************)
EXTENDS ShareEvents, NumberSets

USE EventsAssumption

\* An event is at work in its handler.
Live(e) == handler[e] \in {"process", "store"}

\* Nothing is left to be done for an event, or its handler is about to.
Safe(e) == e \in stored \union hit \/ Live(e)

\* e is of the type of f, of the blocks the job looks at, and not after f.
UpTo(e, f) ==
    /\ EventType[e] = EventType[f]
    /\ StartBlock <= EventBlock[e] /\ EventBlock[e] <= EventBlock[f]

\* The inductive invariant.
InChain == \A e \in stored \union fetched : EventBlock[e] <= MaxBlock

StoredCovered == \A f \in stored : \A e \in Events : UpTo(e, f) => Safe(e)

BatchCovered ==
    /\ pc = "burned" =>
          \A f \in fetched :
             /\ EventType[f] = "Minted" /\ f \notin stored
             /\ \A e \in Events : UpTo(e, f) => e \in stored \union hit \union fetched
    /\ pc = "handle" =>
          \A f \in fetched : \A e \in Events : UpTo(e, f) => Safe(e)
    /\ pc \in {"idle", "minted"} => fetched = {}

HandlersCovered ==
    \A e \in Events :
        /\ handler[e] # "idle" => pc = "handle"
        /\ Live(e) => e \in fetched /\ e \notin stored

IInv == TypeOK /\ InChain /\ StoredCovered /\ BatchCovered /\ HandlersCovered

\* SeekFrom is right after the last stored event of the type.
LEMMA SeekFromIsNext ==
    ASSUME TypeOK, InChain, NEW type \in Types
    PROVE  /\ SeekFrom(type) \in Nat
           /\ \A f \in OfType(stored, type) : EventBlock[f] < SeekFrom(type)
           /\ \/ OfType(stored, type) = {} /\ SeekFrom(type) = StartBlock
              \/ \E f \in OfType(stored, type) : SeekFrom(type) = EventBlock[f] + 1
<1> DEFINE blocks == {EventBlock[e] : e \in OfType(stored, type)}
<1>1. CASE OfType(stored, type) = {}
  BY <1>1 DEF SeekFrom
<1>2. CASE OfType(stored, type) # {}
  <2>1. blocks \in SUBSET Nat /\ blocks # {} /\ MaxBlock \in Nat
    BY <1>2 DEF TypeOK, OfType
  <2>2. \A b \in blocks : b <= MaxBlock
    BY DEF InChain, OfType
  <2>3. Max(blocks) \in blocks /\ \A b \in blocks : b <= Max(blocks)
    BY <2>1, <2>2, MaxIsGreatest
  <2>4. SeekFrom(type) = Max(blocks) + 1
    BY <1>2 DEF SeekFrom, LastBlock
  <2>5. PICK f \in OfType(stored, type) : Max(blocks) = EventBlock[f]
    BY <2>3
  <2>6. \A g \in OfType(stored, type) : EventBlock[g] <= EventBlock[f]
    BY <2>3, <2>5
  <2>7. OfType(stored, type) \in SUBSET Events
    BY DEF OfType, TypeOK
  <2> HIDE DEF blocks
  <2> QED
    BY <2>4, <2>5, <2>6, <2>7
<1> QED
  BY <1>1, <1>2

LEMMA TypeKept == TypeOK /\ [Next]_vars => TypeOK'
<1> SUFFICES ASSUME TypeOK, [Next]_vars PROVE TypeOK'
  OBVIOUS
<1> USE DEF TypeOK
<1>1. CASE Mine
  BY <1>1 DEF Mine
<1>2. CASE StartJob
  <2>1. latest' \in Nat /\ latest' <= head
    <3>1. head \in Nat
      OBVIOUS
    <3>2. latest' \in 1 .. head \/ latest' = head \/ latest' = 0
      BY <1>2, Zenon DEF StartJob, EndJob
    <3> QED
      BY <3>1, <3>2
  <2>2. pc' \in {"idle", "minted"} /\ fetched' \in {fetched, {}} /\ jobOn' \in BOOLEAN
    BY <1>2 DEF StartJob, EndJob
  <2>3. UNCHANGED <<head, stored, handler, hit>>
    BY <1>2 DEF StartJob
  <2> QED
    BY <2>1, <2>2, <2>3
<1>3. CASE FetchMinted
  BY <1>3 DEF FetchMinted, Fetch, Emitted
<1>4. CASE FetchBurned
  BY <1>4 DEF FetchBurned, Fetch, Emitted
<1>5. CASE Settle
  BY <1>5 DEF Settle, EndJob
<1>6. ASSUME NEW e \in Events, Handle(e) PROVE TypeOK'
  BY <1>6 DEF Handle, Process, Store, StoreUnacknowledged, HandlerFails, Goto
<1>7. CASE JobFails
  BY <1>7 DEF JobFails, EndJob
<1>8. CASE Crash
  BY <1>8 DEF Crash
<1>9. CASE UNCHANGED vars
  BY <1>9 DEF vars
<1> QED
  BY <1>1, <1>2, <1>3, <1>4, <1>5, <1>6, <1>7, <1>8, <1>9 DEF Next, Job

\* What a fetch adds is new to the storage, and everything up to it is stored,
\* hit, or fetched with it.
LEMMA FetchCovers ==
    ASSUME IInv, NEW type \in Types, Fetch(type), \A e \in Events : ~Live(e)
    PROVE  /\ fetched \subseteq fetched' /\ hit \subseteq hit'
           /\ \A f \in fetched' \ fetched :
                 /\ EventType[f] = type /\ f \notin stored
                 /\ EventBlock[f] <= MaxBlock
                 /\ \A e \in Events :
                       UpTo(e, f) => e \in stored \union hit' \union fetched'
<1> DEFINE all == Emitted(type, SeekFrom(type), latest)
<1>1. PICK events \in SUBSET all :
        fetched' = fetched \union events /\ hit' = hit \union (all \ events)
  BY DEF Fetch
<1>2. /\ SeekFrom(type) \in Nat
      /\ \A f \in OfType(stored, type) : EventBlock[f] < SeekFrom(type)
      /\ \/ OfType(stored, type) = {} /\ SeekFrom(type) = StartBlock
         \/ \E f \in OfType(stored, type) : SeekFrom(type) = EventBlock[f] + 1
  BY SeekFromIsNext DEF IInv
<1>3. SUFFICES ASSUME NEW f \in events
               PROVE  /\ EventType[f] = type /\ f \notin stored
                      /\ EventBlock[f] <= MaxBlock
                      /\ \A e \in Events :
                            UpTo(e, f) => e \in stored \union hit' \union fetched'
  BY <1>1
<1>4. /\ f \in Events /\ EventType[f] = type
      /\ SeekFrom(type) <= EventBlock[f] /\ EventBlock[f] <= latest
  BY DEF Emitted
<1>5. f \notin stored
  BY <1>2, <1>4 DEF OfType
<1>6. EventBlock[f] <= MaxBlock
  BY <1>4 DEF IInv, TypeOK
<1>7. ASSUME NEW e \in Events, UpTo(e, f)
      PROVE  e \in stored \union hit' \union fetched'
  <2>1. CASE SeekFrom(type) <= EventBlock[e]
    <3>1. e \in all
      BY <1>4, <1>7, <2>1 DEF UpTo, Emitted, IInv, TypeOK
    <3> QED
      BY <1>1, <3>1
  <2>2. CASE EventBlock[e] < SeekFrom(type)
    <3>1. StartBlock <= EventBlock[e] /\ EventType[e] = type
      BY <1>4, <1>7 DEF UpTo
    <3>2. PICK g \in OfType(stored, type) : SeekFrom(type) = EventBlock[g] + 1
      BY <1>2, <2>2, <3>1
    <3>3. g \in stored /\ g \in Events /\ EventType[g] = type
      BY DEF OfType, IInv, TypeOK
    <3>4. UpTo(e, g)
      BY <2>2, <3>1, <3>2, <3>3 DEF UpTo
    <3>5. Safe(e)
      BY <3>3, <3>4 DEF IInv, StoredCovered
    <3> QED
      BY <1>1, <3>5 DEF Safe
  <2> QED
    BY <1>2, <2>1, <2>2
<1> QED
  BY <1>4, <1>5, <1>6, <1>7

\* A handler at work leaves its event taken care of, and touches no other.
LEMMA HandlersKeep ==
    ASSUME IInv, NEW x \in Events, Handle(x)
    PROVE  IInv'
<1> USE DEF IInv
<1>1. TypeOK'
  BY TypeKept DEF Next
<1>2. handler[x] \in {"process", "store"} /\ Live(x) /\ x \in fetched /\ pc = "handle"
  BY DEF Handle, Process, Store, StoreUnacknowledged, HandlerFails, HandlersCovered, Live
<1>3. UNCHANGED <<pc, fetched>>
  BY DEF Handle
<1>4. stored' \subseteq stored \union {x} /\ hit \subseteq hit' /\ stored \subseteq stored'
  BY DEF Handle, Process, Store, StoreUnacknowledged, HandlerFails
<1>5. /\ \A e \in Events \ {x} : handler'[e] = handler[e]
      /\ handler'[x] \in {"process", "store"} => x \notin stored'
  BY <1>2 DEF Handle, Process, Store, StoreUnacknowledged, HandlerFails, Goto,
              HandlersCovered, TypeOK
<1>6. ASSUME NEW e \in Events, Safe(e) PROVE Safe(e)'
  <2>1. CASE e \in stored \union hit
    BY <1>4, <2>1 DEF Safe
  <2>2. CASE Live(e) /\ e # x
    BY <1>5, <2>2 DEF Safe, Live
  <2>3. CASE e = x
    BY <1>2, <2>3 DEF Safe, Live, Handle, Process, Store, StoreUnacknowledged,
                      HandlerFails, Goto, TypeOK
  <2> QED
    BY <1>6, <2>1, <2>2, <2>3 DEF Safe
<1>7. InChain'
  BY <1>2, <1>3, <1>4 DEF InChain
<1>8. BatchCovered'
  BY <1>2, <1>3, <1>6 DEF BatchCovered, UpTo, TypeOK
<1>9. StoredCovered'
  BY <1>2, <1>4, <1>6 DEF StoredCovered, BatchCovered, UpTo, TypeOK
<1>10. HandlersCovered'
  <2> SUFFICES ASSUME NEW e \in Events
               PROVE  /\ handler'[e] # "idle" => pc' = "handle"
                      /\ Live(e)' => e \in fetched' /\ e \notin stored'
    BY DEF HandlersCovered
  <2>1. CASE e = x
    BY <1>2, <1>3, <1>5, <2>1 DEF Live
  <2>2. CASE e # x
    BY <1>3, <1>4, <1>5, <2>2 DEF Live, HandlersCovered
  <2> QED
    BY <2>1, <2>2
<1> QED
  BY <1>1, <1>7, <1>8, <1>9, <1>10

LEMMA FetchMintedKeeps == IInv /\ FetchMinted => IInv'
<1> SUFFICES ASSUME IInv, FetchMinted PROVE IInv'
  OBVIOUS
<1>1. TypeOK'
  BY TypeKept DEF Next, Job, IInv
<1>2. /\ pc = "minted" /\ pc' = "burned" /\ fetched = {}
      /\ \A e \in Events : handler[e] = "idle"
      /\ UNCHANGED <<stored, handler>> /\ Fetch("Minted") /\ "Minted" \in Types
  BY DEF FetchMinted, IInv, BatchCovered, HandlersCovered, Types
<1>3. \A e \in Events : ~Live(e) /\ ~Live(e)'
  BY <1>2 DEF Live
<1>4. /\ hit \subseteq hit'
      /\ \A f \in fetched' :
            /\ EventType[f] = "Minted" /\ f \notin stored
            /\ EventBlock[f] <= MaxBlock
            /\ \A e \in Events : UpTo(e, f) => e \in stored \union hit' \union fetched'
  BY <1>2, <1>3, FetchCovers
<1>5. InChain'
  BY <1>2, <1>4 DEF InChain, IInv
<1>6. StoredCovered'
  BY <1>2, <1>3, <1>4 DEF StoredCovered, IInv, Safe, UpTo
<1>7. BatchCovered'
  BY <1>2, <1>4 DEF BatchCovered, UpTo
<1>8. HandlersCovered'
  BY <1>2, <1>3 DEF HandlersCovered
<1> QED
  BY <1>1, <1>5, <1>6, <1>7, <1>8 DEF IInv

LEMMA FetchBurnedKeeps == IInv /\ FetchBurned => IInv'
<1> SUFFICES ASSUME IInv, FetchBurned PROVE IInv'
  OBVIOUS
<1>1. TypeOK'
  BY TypeKept DEF Next, Job, IInv
<1>2. /\ pc = "burned" /\ pc' = "handle"
      /\ \A e \in Events : handler[e] = "idle"
      /\ UNCHANGED stored /\ Fetch("Burned") /\ "Burned" \in Types
      /\ handler' = [e \in Events |-> IF e \in fetched' THEN "process" ELSE "idle"]
  BY DEF FetchBurned, IInv, HandlersCovered, Types
<1>3. \A e \in Events : ~Live(e) /\ (Live(e)' <=> e \in fetched')
  BY <1>2 DEF Live
<1>4. /\ hit \subseteq hit' /\ fetched \subseteq fetched'
      /\ \A f \in fetched' \ fetched :
            /\ f \notin stored /\ EventBlock[f] <= MaxBlock
            /\ \A e \in Events : UpTo(e, f) => e \in stored \union hit' \union fetched'
  BY <1>2, <1>3, FetchCovers
<1>5. \A f \in fetched' :
        /\ f \notin stored
        /\ \A e \in Events : UpTo(e, f) => e \in stored \union hit' \union fetched'
  BY <1>2, <1>4 DEF IInv, BatchCovered
<1>6. InChain'
  BY <1>2, <1>4 DEF InChain, IInv
<1>7. StoredCovered'
  BY <1>2, <1>3, <1>4 DEF StoredCovered, IInv, Safe, UpTo
<1>8. BatchCovered'
  BY <1>2, <1>3, <1>5 DEF BatchCovered, Safe, UpTo
<1>9. HandlersCovered'
  BY <1>2, <1>3, <1>5 DEF HandlersCovered
<1> QED
  BY <1>1, <1>6, <1>7, <1>8, <1>9 DEF IInv

\* The job ends, or the process dies, with no handler left at work.
LEMMA EndKeeps == IInv /\ (Settle \/ JobFails \/ Crash) => IInv'
<1> SUFFICES ASSUME IInv, Settle \/ JobFails \/ Crash PROVE IInv'
  OBVIOUS
<1>1. TypeOK'
  BY TypeKept DEF Next, Job, IInv
<1>2. pc' = "idle" /\ fetched' = {} /\ UNCHANGED stored
  BY DEF Settle, JobFails, Crash, EndJob
<1>3. \A e \in Events : handler'[e] = "idle" /\ ~Live(e)'
  BY DEF Settle, JobFails, Crash, IInv, HandlersCovered, Live
<1>4. \A e \in Events : Safe(e) => e \in stored \union hit'
  BY DEF Settle, JobFails, Crash, IInv, HandlersCovered, Safe, Live
<1>5. StoredCovered'
  BY <1>2, <1>4 DEF StoredCovered, IInv, Safe, UpTo, TypeOK
<1> QED
  BY <1>1, <1>2, <1>3, <1>5 DEF IInv, InChain, BatchCovered, HandlersCovered

LEMMA StartKeeps == IInv /\ StartJob => IInv'
<1> SUFFICES ASSUME IInv, StartJob PROVE IInv'
  OBVIOUS
<1>1. TypeOK'
  BY TypeKept DEF Next, Job, IInv
<1>2. /\ pc = "idle" /\ pc' \in {"idle", "minted"} /\ fetched = {} /\ fetched' = {}
      /\ UNCHANGED <<stored, handler, hit>>
  BY DEF StartJob, EndJob, IInv, BatchCovered
<1>3. InChain' /\ StoredCovered'
  BY <1>2 DEF IInv, InChain, StoredCovered, Safe, Live, UpTo
<1> QED
  BY <1>1, <1>2, <1>3 DEF IInv, BatchCovered, HandlersCovered, Live

LEMMA Invariance == Spec => []IInv
<1>1. Init => IInv
  BY DEF Init, IInv, TypeOK, InChain, StoredCovered, BatchCovered, HandlersCovered, Live
<1>2. IInv /\ [Next]_vars => IInv'
  <2> SUFFICES ASSUME IInv, [Next]_vars PROVE IInv'
    OBVIOUS
  <2>1. TypeOK'
    BY TypeKept DEF IInv
  <2>2. CASE Mine \/ UNCHANGED vars
    <3>1. UNCHANGED <<stored, pc, fetched, handler, hit>>
      BY <2>2 DEF Mine, vars
    <3> QED
      BY <2>1, <3>1 DEF IInv, InChain, StoredCovered, BatchCovered, HandlersCovered,
                        Safe, Live, UpTo
  <2>3. CASE Job
    BY <2>3, StartKeeps, FetchMintedKeeps, FetchBurnedKeeps, EndKeeps DEF Job
  <2>4. ASSUME NEW e \in Events, Handle(e) PROVE IInv'
    BY <2>4, HandlersKeep
  <2>5. CASE JobFails \/ Crash
    BY <2>5, EndKeeps
  <2> QED
    BY <2>2, <2>3, <2>4, <2>5 DEF Next
<1> QED
  BY <1>1, <1>2, PTL DEF Spec

-----------------------------------------------------------------------------
\* Every variable of the job keeps its type.
THEOREM ShareEventsTypeCorrect == Spec => []TypeOK
<1>1. IInv => TypeOK
  BY DEF IInv
<1> QED
  BY <1>1, Invariance, PTL

\* No stored event is ever handed to a handler: the unique index of the table
\* never refuses an insert.
THEOREM NoEventTwice == Spec => []NeverFetchedAgain
<1>1. IInv => NeverFetchedAgain
  BY DEF IInv, HandlersCovered, Live, NeverFetchedAgain
<1> QED
  BY <1>1, Invariance, PTL

\* The cursor of a type passes an event only when it is stored, about to be, or
\* was itself hit: the failure of one event loses no other.
THEOREM CursorSafe == Spec => []PassedOnlyWhenHit
<1>1. IInv => PassedOnlyWhenHit
  <2> SUFFICES ASSUME IInv, NEW e \in Events,
                      StartBlock <= EventBlock[e], EventBlock[e] < SeekFrom(EventType[e])
               PROVE  Safe(e)
    BY DEF PassedOnlyWhenHit, Safe, Live
  <2> DEFINE type == EventType[e]
  <2>1. type \in Types
    OBVIOUS
  <2>2. PICK f \in OfType(stored, type) : SeekFrom(type) = EventBlock[f] + 1
    <3> HIDE DEF type
    <3>1. SeekFrom(type) # StartBlock
      BY DEF type
    <3> QED
      BY <2>1, <3>1, SeekFromIsNext DEF IInv
  <2>3. f \in stored /\ f \in Events /\ EventType[f] = type
    BY DEF OfType, IInv, TypeOK
  <2>4. UpTo(e, f)
    BY <2>2, <2>3 DEF UpTo
  <2> QED
    BY <2>3, <2>4 DEF IInv, StoredCovered
<1> QED
  BY <1>1, Invariance, PTL
=============================================================================
