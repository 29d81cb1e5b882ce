------------------------------- MODULE Duties -------------------------------
(***************************************************************************)
(* Who is held to have missed a checkpoint: the part of                    *)
(* processCheckpointEvent that asks ValidatorsService for the tracked ids, *)
(* the active set and the ids of the signers, all as of the block of the   *)
(* checkpoint.  Handlers of several checkpoints run concurrently and share *)
(* the signers cache, which knows no blocks, while the chain goes on.      *)
(*                                                                         *)
(* What the contracts answer at a block never changes, so reads at the     *)
(* block of a checkpoint need no steps of their own; reads at the latest   *)
(* block and the answers that fill the cache do.                           *)
(***************************************************************************)
EXTENDS Integers, FiniteSets, SequencesExt

CONSTANTS
    Checkpoints,    \* numbers of the checkpoints
    Block,          \* Block[n]: the block of the event of n
    Signed,         \* Signed[n]: who signed n, in the order of the signatures
    Ids,            \* validator ids, above 0
    Signers,        \* signer addresses
    SignerToValidator, \* SignerToValidator[b][s]: what the stake manager answers
                       \* at block b, 0 for a signer not bound to a validator
    Info,           \* Info[b][v]: what its validators(v) answers at block b
    Registered,     \* Registered[b]: operators of the registry at block b
    ActiveOperator, \* ActiveOperator[b]: those of them that are active
    StaticIds,      \* TRACKED_IDS
    V2Block,        \* POLIDO_V2_BLOCK of the chain
    CacheSize,      \* size of signersCache
    FirstHead,      \* bound: the latest block when the service starts
    MaxBlock        \* bound: the last block of the chain

Blocks == 1 .. MaxBlock

ASSUME DutiesAssumption ==
    /\ Checkpoints \subseteq Nat /\ Ids \subseteq Nat \ {0}
    /\ Block \in [Checkpoints -> Blocks]
    /\ Signed \in [Checkpoints -> Seq(Signers)]
    /\ SignerToValidator \in [Blocks -> [Signers -> Ids \union {0}]]
    /\ Info \in [Blocks -> [Ids -> [amount : Nat, deactivationEpoch : Nat,
                                    active : BOOLEAN]]]
    /\ Registered \in [Blocks -> SUBSET Ids]
    /\ ActiveOperator \in [Blocks -> SUBSET Ids]
    /\ StaticIds \in SUBSET Ids
    /\ V2Block \in Nat /\ CacheSize \in Nat \ {0}
    /\ MaxBlock \in Nat /\ FirstHead \in Blocks

VARIABLES
    head,       \* the latest block of the chain
    cache,      \* signersCache: <<signer, id>> in the order of the Map
    handler,    \* handler[n]: where processCheckpointEvent stands for n
    tracked,    \* tracked[n]: trackedIds of n
    asked,      \* asked[n]: signers the handler of n awaits the id of
    committed,  \* committed[n]: ids found so far
    adrift,     \* calls <<n, s>> a failed handler has left in flight
    retried     \* bound: checkpoints whose handler has failed once

vars == <<head, cache, handler, tracked, asked, committed, adrift, retried>>

Init ==
    /\ head = FirstHead
    /\ cache = <<>>
    /\ handler = [n \in Checkpoints |-> "idle"]
    /\ tracked = [n \in Checkpoints |-> {}]
    /\ asked = [n \in Checkpoints |-> {}]
    /\ committed = [n \in Checkpoints |-> {}]
    /\ adrift = {}
    /\ retried = {}

Mine ==
    /\ head < MaxBlock
    /\ head' = head + 1
    /\ UNCHANGED <<cache, handler, tracked, asked, committed, adrift, retried>>

-----------------------------------------------------------------------------
(* The LRU cache, on an insertion-ordered Map.                             *)

Keys(c) == {c[i][1] : i \in DOMAIN c}

Lookup(c, s) == (CHOOSE e \in ToSet(c) : e[1] = s)[2]

\* LRU.get for the signers of a sequence, one after the other: every entry found
\* moves to the end in its turn, unless its value is falsy.  So the entries end up
\* in the order of their last touch; those not touched keep theirs, in front.
LastTouch(c, signed, i) ==
    IF c[i][2] # 0 /\ c[i][1] \in ToSet(signed)
    THEN Len(c) + Max({k \in DOMAIN signed : signed[k] = c[i][1]}) ELSE i

IsTouchOrder(p, c, signed) ==
    \A i, j \in DOMAIN c :
        i < j => LastTouch(c, signed, p[i]) < LastTouch(c, signed, p[j])

\* Map.set: a key that is present keeps its place.
Put(c, s, id) ==
    IF s \in Keys(c)
    THEN [i \in DOMAIN c |-> IF c[i][1] = s THEN <<s, id>> ELSE c[i]]
    ELSE Append(c, <<s, id>>)

\* Faulty variant: the size is checked before the new entry is counted.
SetEntryLate(c, s, id) == Put(IF Len(c) > CacheSize THEN Tail(c) ELSE c, s, id)

\* LRU.set: a cache that has grown too large loses its first entry.
SetEntry(c, s, id) ==
    LET d == Put(c, s, id) IN IF Len(d) > CacheSize THEN Tail(d) ELSE d

-----------------------------------------------------------------------------
(* The contracts as the service asks them.                                 *)

\* isValidator
IsValidator(info, epoch) ==
    /\ info.amount > 0
    /\ info.deactivationEpoch = 0 \/ info.deactivationEpoch > epoch
    /\ info.active

\* getValidatorsActiveSet at the block and the epoch of checkpoint n.
ActiveSet(n) == {v \in Ids : IsValidator(Info[Block[n]][v], n + 1)}

\* isPoLidoV1
IsPoLidoV1(n) == Block[n] < V2Block

\* getActiveLidoValidatorsIdsV1
TrackedV1(n) == Registered[Block[n]] \cap ActiveOperator[Block[n]]

\* getActiveLidoValidatorsIdsV2 passes no block to getNodeOperatorStatus.
TrackedV2(n) == Registered[Block[n]] \cap ActiveOperator[head]

\* Faulty variant: the modern registry is asked for old checkpoints too.
TrackedIdsModern(n) == IF StaticIds # {} THEN StaticIds ELSE TrackedV2(n)

\* getTrackedValidatorsIds
TrackedIds(n) ==
    CASE StaticIds # {}                  -> StaticIds
      [] StaticIds = {} /\ IsPoLidoV1(n)  -> TrackedV1(n)
      [] StaticIds = {} /\ ~IsPoLidoV1(n) -> TrackedV2(n)

-----------------------------------------------------------------------------
(* The handlers.                                                           *)

Goto(n, state) == handler' = [handler EXCEPT ![n] = state]

\* The event of n is found; the transaction, the tracked ids and the active set
\* are read.
ReadTracked(n) ==
    /\ handler[n] = "idle"
    /\ Block[n] <= head
    /\ tracked' = [tracked EXCEPT ![n] = TrackedIds(n)]
    /\ Goto(n, "lookup")
    /\ UNCHANGED <<head, cache, asked, committed, adrift, retried>>

\* signerToValidatorId of all signers, each up to its await: the cached ids are
\* found at once, for the others the contract is asked.
LookUp(n) ==
    LET signers == ToSet(Signed[n])
        hits    == signers \cap Keys(cache)
    IN  /\ handler[n] = "lookup"
        /\ \E p \in [DOMAIN cache -> DOMAIN cache] :
              /\ IsTouchOrder(p, cache, Signed[n])
              /\ cache' = [i \in DOMAIN cache |-> cache[p[i]]]
        /\ committed' = [committed EXCEPT ![n] = {Lookup(cache, s) : s \in hits}]
        /\ asked' = [asked EXCEPT ![n] = signers \ hits]
        /\ Goto(n, "answers")
        /\ UNCHANGED <<head, tracked, adrift, retried>>

\* Faulty variant: the contract is asked at the latest block.
AnswerAtLatest(n, s) ==
    /\ s \in asked[n]
    /\ LET id == SignerToValidator[head][s]
       IN  /\ cache' = SetEntry(cache, s, id)
           /\ committed' = [committed EXCEPT ![n] = @ \union {id}]
    /\ asked' = [asked EXCEPT ![n] = @ \ {s}]
    /\ UNCHANGED <<head, handler, tracked, adrift, retried>>

\* The answer for one signer arrives.
Answer(n, s) ==
    /\ s \in asked[n]
    /\ LET id == SignerToValidator[Block[n]][s]
       IN  /\ cache' = SetEntry(cache, s, id)
           /\ committed' = [committed EXCEPT ![n] = @ \union {id}]
    /\ asked' = [asked EXCEPT ![n] = @ \ {s}]
    /\ UNCHANGED <<head, handler, tracked, adrift, retried>>

\* All answers are there: the duties are made, and stored.
Finish(n) ==
    /\ handler[n] = "answers"
    /\ asked[n] = {}
    /\ Goto(n, "done")
    /\ UNCHANGED <<head, cache, tracked, asked, committed, adrift, retried>>

\* A call of the handler fails.  Promise.all gives up at once, but the calls in
\* flight go on.  A later cycle starts the handler again.
HandlerFails(n) ==
    /\ handler[n] \in {"lookup", "answers"}
    /\ n \notin retried
    /\ retried' = retried \union {n}
    /\ adrift' = adrift \union ({n} \X asked[n])
    /\ asked' = [asked EXCEPT ![n] = {}]
    /\ committed' = [committed EXCEPT ![n] = {}]
    /\ tracked' = [tracked EXCEPT ![n] = {}]
    /\ Goto(n, "idle")
    /\ UNCHANGED <<head, cache>>

\* The answer to a call of a failed handler still fills the cache.
LateAnswer(n, s) ==
    /\ <<n, s>> \in adrift
    /\ cache' = SetEntry(cache, s, SignerToValidator[Block[n]][s])
    /\ adrift' = adrift \ {<<n, s>>}
    /\ UNCHANGED <<head, handler, tracked, asked, committed, retried>>

\* The process dies and is started again; finished duties are in the database.
Crash ==
    LET kept == {n \in Checkpoints : handler[n] = "done"}
        Keep(f) == [n \in Checkpoints |-> IF n \in kept THEN f[n] ELSE {}]
    IN  /\ cache' = <<>>
        /\ handler' = [n \in Checkpoints |-> IF n \in kept THEN "done" ELSE "idle"]
        /\ tracked' = Keep(tracked)
        /\ committed' = Keep(committed)
        /\ asked' = [n \in Checkpoints |-> {}]
        /\ adrift' = {}
        /\ UNCHANGED <<head, retried>>

Next ==
    \/ Mine
    \/ \E n \in Checkpoints :
          \/ ReadTracked(n) \/ LookUp(n) \/ Finish(n) \/ HandlerFails(n)
          \/ \E s \in Signers : Answer(n, s) \/ LateAnswer(n, s)
    \/ Crash

Spec == Init /\ [][Next]_vars

-----------------------------------------------------------------------------
(* Properties.                                                             *)

\* Types; the cache never outgrows its size and holds one entry per signer.
TypeOK ==
    /\ head \in Blocks
    /\ cache \in Seq(Signers \X (Ids \union {0}))
    /\ Len(cache) <= CacheSize /\ IsInjective([i \in DOMAIN cache |-> cache[i][1]])
    /\ handler \in [Checkpoints -> {"idle", "lookup", "answers", "done"}]
    /\ tracked \in [Checkpoints -> SUBSET Ids]
    /\ asked \in [Checkpoints -> SUBSET Signers]
    /\ committed \in [Checkpoints -> SUBSET (Ids \union {0})]
    /\ adrift \in SUBSET (Checkpoints \X Signers)
    /\ retried \in SUBSET Checkpoints

\* What s was bound to at the checkpoints it has signed up to now.
BoundTo(s) ==
    {SignerToValidator[Block[n]][s] :
        n \in {m \in Checkpoints : Block[m] <= head /\ s \in ToSet(Signed[m])}}

\* An id is found only through the signatures of its own signers, and it is found
\* whenever one of them was never bound otherwise when it signed: the cache knows
\* no blocks, so an answer at another block may stand for the one asked for, but
\* never the answer for another signer, nor one at a block the signer did not sign
\* in, whoever filled or emptied the cache meanwhile (signerToValidatorId).  For a
\* validator whose signers sign only while they are bound to it this says that it
\* has fulfilled its duty exactly when one of them has signed.
DutiesFaithful ==
    \A n \in Checkpoints : handler[n] = "done" =>
        \A v \in ActiveSet(n) :
            /\ v \in committed[n] => \E s \in ToSet(Signed[n]) : v \in BoundTo(s)
            /\ (\E s \in ToSet(Signed[n]) : BoundTo(s) = {v}) => v \in committed[n]

\* The validators whose misses of a checkpoint are announced are those that were
\* active operators at its block, as the log of getActiveLidoValidatorsIds says:
\* "Lido validators ids: [...] at block N".
TrackedFaithful ==
    \A n \in Checkpoints : handler[n] = "done" /\ StaticIds = {} =>
        tracked[n] = Registered[Block[n]] \cap ActiveOperator[Block[n]]
=============================================================================
