----------------------------- MODULE DutiesProofs -----------------------------
(***************************************************************************)
(* Theorems about Duties, for any chain of contracts and any size of the   *)
(* cache: whatever handlers of several blocks do to the shared cache, every*)
(* validator is judged by its own signers, at blocks they signed in.       *)
(***************************************************************************)
EXTENDS Duties, NumberSets, SequenceTheorems

USE DutiesAssumption

-----------------------------------------------------------------------------
(* The LRU cache.                                                          *)

\* A function over 1 .. n is a sequence of length n.
LEMMA FunctionIsSeq ==
    ASSUME NEW S, NEW n \in Nat, NEW f \in [1 .. n -> S]
    PROVE  f \in Seq(S) /\ Len(f) = n
<1>1. f \in UNION {[1 .. m -> S] : m \in Nat}
  OBVIOUS
<1>2. f \in Seq(S)
  BY <1>1, SeqDef, Zenon
<1> QED
  BY <1>2, LenProperties

\* What the cache is made of.
Entry == Signers \X (Ids \union {0})

\* What a cache is: a sequence of entries with different keys.
IsCache(c) ==
    /\ c \in Seq(Entry)
    /\ \A i, j \in DOMAIN c : c[i][1] = c[j][1] => i = j

\* Entries of a cache after an id was put in are its own or the new one.
LEMMA PutProperties ==
    ASSUME NEW c, IsCache(c), NEW s \in Signers, NEW id \in Ids \union {0}
    PROVE  /\ IsCache(Put(c, s, id))
           /\ Len(Put(c, s, id)) <= Len(c) + 1
           /\ Put(c, s, id) # <<>>
           /\ \A i \in DOMAIN Put(c, s, id) :
                 Put(c, s, id)[i] = <<s, id>> \/ Put(c, s, id)[i] \in ToSet(c)
<1>1. /\ Len(c) \in Nat /\ DOMAIN c = 1 .. Len(c)
      /\ \A i \in DOMAIN c : c[i] \in Entry /\ c[i] \in ToSet(c)
  BY LenProperties DEF IsCache, ToSet
<1>2. <<s, id>> \in Entry
  BY DEF Entry
<1>3. CASE s \in Keys(c)
  <2> DEFINE d == [i \in DOMAIN c |-> IF c[i][1] = s THEN <<s, id>> ELSE c[i]]
  <2>1. Put(c, s, id) = d
    BY <1>3 DEF Put
  <2>2. d \in Seq(Entry) /\ Len(d) = Len(c)
    <3>1. d \in [1 .. Len(c) -> Entry]
      BY <1>1, <1>2
    <3> HIDE DEF d
    <3> QED
      BY <1>1, <3>1, FunctionIsSeq
  <2>3. \A i \in DOMAIN d : d[i][1] = c[i][1]
    OBVIOUS
  <2>4. \A i, j \in DOMAIN d : d[i][1] = d[j][1] => i = j
    BY <2>3 DEF IsCache
  <2>5. \A i \in DOMAIN d : d[i] = <<s, id>> \/ d[i] \in ToSet(c)
    BY <1>1
  <2>6. \E i \in DOMAIN c : TRUE
    BY <1>3 DEF Keys
  <2>7. DOMAIN d # {}
    BY <2>6
  <2> HIDE DEF d
  <2>8. d # <<>>
    BY <2>2, <2>7, EmptySeq, LenProperties
  <2> QED
    BY <1>1, <2>1, <2>2, <2>4, <2>5, <2>8 DEF IsCache
<1>4. CASE s \notin Keys(c)
  <2> DEFINE d == Append(c, <<s, id>>)
  <2>1. Put(c, s, id) = d
    BY <1>4 DEF Put
  <2>2. /\ d \in Seq(Entry) /\ Len(d) = Len(c) + 1 /\ DOMAIN d = 1 .. Len(c) + 1
        /\ \A i \in 1 .. Len(c) : d[i] = c[i]
        /\ d[Len(c) + 1] = <<s, id>>
    BY <1>1, <1>2, AppendProperties DEF IsCache
  <2> HIDE DEF d
  <2>3. \A i \in DOMAIN d : (i \in DOMAIN c /\ d[i] = c[i]) \/ i = Len(c) + 1
    BY <1>1, <2>2
  <2>4. \A i \in DOMAIN c : c[i][1] # s
    BY <1>4 DEF Keys
  <2>5. \A i \in DOMAIN d : i = Len(c) + 1 => d[i][1] = s
    BY <2>2
  <2>6. \A i, j \in DOMAIN d : d[i][1] = d[j][1] => i = j
    BY <2>3, <2>4, <2>5 DEF IsCache
  <2>7. \A i \in DOMAIN d : d[i] = <<s, id>> \/ d[i] \in ToSet(c)
    BY <1>1, <2>2, <2>3
  <2>8. d # <<>>
    BY <1>1, <2>2, EmptySeq
  <2> QED
    BY <1>1, <2>1, <2>2, <2>6, <2>7, <2>8 DEF IsCache
<1> QED
  BY <1>3, <1>4

\* The same of LRU.set; and the cache keeps its size.
LEMMA SetEntryProperties ==
    ASSUME NEW c, IsCache(c), Len(c) <= CacheSize, NEW s \in Signers,
           NEW id \in Ids \union {0}
    PROVE  /\ IsCache(SetEntry(c, s, id)) /\ Len(SetEntry(c, s, id)) <= CacheSize
           /\ \A i \in DOMAIN SetEntry(c, s, id) :
                 SetEntry(c, s, id)[i] = <<s, id>> \/ SetEntry(c, s, id)[i] \in ToSet(c)
<1> DEFINE d == Put(c, s, id)
<1>1. /\ IsCache(d) /\ Len(d) <= Len(c) + 1 /\ d # <<>>
      /\ \A i \in DOMAIN d : d[i] = <<s, id>> \/ d[i] \in ToSet(c)
  BY PutProperties
<1> HIDE DEF d
<1>2. SetEntry(c, s, id) = IF Len(d) > CacheSize THEN Tail(d) ELSE d
  BY DEF SetEntry, d
<1>3. Len(c) \in Nat /\ Len(d) \in Nat /\ DOMAIN d = 1 .. Len(d)
  BY <1>1, LenProperties DEF IsCache
<1>4. CASE Len(d) > CacheSize
  <2> DEFINE t == Tail(d)
  <2>1. /\ t \in Seq(Entry) /\ Len(t) = Len(d) - 1
        /\ \A i \in 1 .. Len(t) : t[i] = d[i + 1]
    BY <1>1, HeadTailProperties DEF IsCache
  <2> HIDE DEF t
  <2>2. DOMAIN t = 1 .. Len(t)
    BY <2>1, LenProperties
  <2>3. \A i \in DOMAIN t : i \in Int /\ i + 1 \in DOMAIN d /\ t[i] = d[i + 1]
    BY <1>3, <2>1, <2>2
  <2>4. \A i, j \in DOMAIN t : t[i][1] = t[j][1] => i = j
    <3> SUFFICES ASSUME NEW i \in DOMAIN t, NEW j \in DOMAIN t, t[i][1] = t[j][1] PROVE i = j
      OBVIOUS
    <3>1. i + 1 = j + 1
      BY <1>1, <2>3 DEF IsCache
    <3> QED
      BY <2>3, <3>1
  <2>5. Len(t) <= CacheSize
    BY <1>1, <1>3, <2>1
  <2>6. \A i \in DOMAIN t : t[i] = <<s, id>> \/ t[i] \in ToSet(c)
    BY <1>1, <2>3
  <2> QED
    BY <1>2, <1>4, <2>1, <2>4, <2>5, <2>6 DEF IsCache, t
<1>5. CASE ~(Len(d) > CacheSize)
  <2>1. SetEntry(c, s, id) = d
    BY <1>2, <1>5
  <2>2. Len(d) <= CacheSize
    BY <1>3, <1>5
  <2> QED
    BY <1>1, <2>1, <2>2
<1> QED
  BY <1>4, <1>5

\* A cache put in the order of its last touches is the same but for the order.
LEMMA TouchedProperties ==
    ASSUME NEW c, IsCache(c), NEW signed \in Seq(Signers),
           NEW p \in [DOMAIN c -> DOMAIN c], IsTouchOrder(p, c, signed)
    PROVE  LET d == [i \in DOMAIN c |-> c[p[i]]]
           IN  /\ IsCache(d) /\ Len(d) = Len(c)
               /\ \A i \in DOMAIN d : d[i] \in ToSet(c)
<1> DEFINE d == [i \in DOMAIN c |-> c[p[i]]]
<1>1. /\ Len(c) \in Nat /\ DOMAIN c = 1 .. Len(c)
      /\ \A i \in DOMAIN c : c[i] \in Entry /\ c[i] \in ToSet(c)
  BY LenProperties DEF IsCache, ToSet
<1>2. ASSUME NEW i \in DOMAIN c PROVE LastTouch(c, signed, i) \in Int
  <2>1. i \in Int /\ Len(c) \in Int
    BY <1>1
  <2>2. CASE c[i][2] # 0 /\ c[i][1] \in ToSet(signed)
    <3> DEFINE calls == {k \in DOMAIN signed : signed[k] = c[i][1]}
    <3>1. DOMAIN signed = 1 .. Len(signed) /\ Len(signed) \in Nat
      BY LenProperties
    <3>2. calls \in SUBSET Nat /\ calls # {} /\ \A k \in calls : k <= Len(signed)
      BY <2>2, <3>1 DEF ToSet
    <3>3. Max(calls) \in calls
      <4> HIDE DEF calls
      <4> QED
        BY <3>1, <3>2, MaxIsGreatest
    <3>4. Max(calls) \in Int
      BY <3>2, <3>3
    <3>5. LastTouch(c, signed, i) = Len(c) + Max(calls)
      BY <2>2 DEF LastTouch
    <3> QED
      BY <2>1, <3>4, <3>5
  <2>3. CASE ~(c[i][2] # 0 /\ c[i][1] \in ToSet(signed))
    BY <2>1, <2>3 DEF LastTouch
  <2> QED
    BY <2>2, <2>3
<1>3. ASSUME NEW i \in DOMAIN c, NEW j \in DOMAIN c, i < j
      PROVE  p[i] # p[j]
  <2>1. LastTouch(c, signed, p[i]) < LastTouch(c, signed, p[j])
    BY <1>3 DEF IsTouchOrder
  <2>2. LastTouch(c, signed, p[i]) \in Int
    BY <1>2
  <2> QED
    BY <2>1, <2>2
<1>4. \A i, j \in DOMAIN c : p[i] = p[j] => i = j
  BY <1>1, <1>3
<1>5. \A i, j \in DOMAIN c : d[i][1] = d[j][1] => i = j
  BY <1>4 DEF IsCache
<1>6. \A i \in DOMAIN c : d[i] \in ToSet(c)
  BY <1>1
<1>7. d \in Seq(Entry) /\ Len(d) = Len(c)
  <2>1. d \in [1 .. Len(c) -> Entry]
    BY <1>1
  <2> HIDE DEF d
  <2> QED
    BY <1>1, <2>1, FunctionIsSeq
<1> QED
  BY <1>5, <1>6, <1>7 DEF IsCache

-----------------------------------------------------------------------------
(* The duties.                                                             *)

\* The inductive invariant: the cache holds what its signers were bound to when
\* they signed, and so does every handler, for all signers it has heard of.
CacheInv ==
    /\ IsCache(cache) /\ Len(cache) <= CacheSize
    /\ \A i \in DOMAIN cache : cache[i][2] \in BoundTo(cache[i][1])

\* What is found comes from the signers of n, and every one gives something.
Found(n) ==
    /\ \A id \in committed[n] : \E s \in ToSet(Signed[n]) : id \in BoundTo(s)
    /\ \A s \in ToSet(Signed[n]) \ asked[n] : \E id \in committed[n] : id \in BoundTo(s)

HandlerInv(n) ==
    /\ asked[n] \subseteq ToSet(Signed[n])
    /\ handler[n] # "idle" => Block[n] <= head
    /\ handler[n] \in {"idle", "lookup"} => asked[n] = {}
    /\ handler[n] = "done" => asked[n] = {}
    /\ handler[n] \in {"answers", "done"} => Found(n)

CallsInv ==
    \A call \in adrift : call[2] \in ToSet(Signed[call[1]]) /\ Block[call[1]] <= head

StateType ==
    /\ head \in Blocks
    /\ handler \in [Checkpoints -> {"idle", "lookup", "answers", "done"}]
    /\ tracked \in [Checkpoints -> SUBSET Ids]
    /\ asked \in [Checkpoints -> SUBSET Signers]
    /\ committed \in [Checkpoints -> SUBSET (Ids \union {0})]
    /\ adrift \in SUBSET (Checkpoints \X Signers)
    /\ retried \in SUBSET Checkpoints

DutiesInv ==
    /\ StateType
    /\ CacheInv
    /\ \A n \in Checkpoints : HandlerInv(n)
    /\ CallsInv

\* What the service learns of a signer at a checkpoint it signed.
LEMMA AnswerIsBound ==
    ASSUME NEW n \in Checkpoints, NEW s \in ToSet(Signed[n])
    PROVE  /\ s \in Signers
           /\ SignerToValidator[Block[n]][s] \in Ids \union {0}
           /\ Block[n] <= head => SignerToValidator[Block[n]][s] \in BoundTo(s)
<1>1. s \in Signers
  BY LenProperties DEF ToSet
<1> QED
  BY <1>1 DEF BoundTo

\* What a signer was bound to it was bound to, while the chain goes on.
LEMMA BoundForGood ==
    ASSUME head \in Blocks, head' \in Blocks, head <= head', NEW s
    PROVE  BoundTo(s) \subseteq BoundTo(s)'
<1>1. \A m \in Checkpoints : Block[m] <= head => Block[m] <= head'
  BY DEF Blocks
<1> QED
  BY <1>1 DEF BoundTo

\* An answer put into the cache leaves it in order.
LEMMA AnswerKeepsCache ==
    ASSUME CacheInv, UNCHANGED head,
           NEW n \in Checkpoints, Block[n] <= head, NEW s \in ToSet(Signed[n]),
           cache' = SetEntry(cache, s, SignerToValidator[Block[n]][s])
    PROVE  CacheInv'
<1> DEFINE id == SignerToValidator[Block[n]][s]
<1>1. s \in Signers /\ id \in Ids \union {0} /\ id \in BoundTo(s)
  BY AnswerIsBound
<1> HIDE DEF id
<1>2. /\ IsCache(cache') /\ Len(cache') <= CacheSize
      /\ \A i \in DOMAIN cache' : cache'[i] = <<s, id>> \/ cache'[i] \in ToSet(cache)
  BY <1>1, SetEntryProperties DEF CacheInv, id
<1>3. \A e \in ToSet(cache) : e[2] \in BoundTo(e[1])
  BY DEF CacheInv, ToSet
<1>4. \A i \in DOMAIN cache' : cache'[i][2] \in BoundTo(cache'[i][1])
  BY <1>1, <1>2, <1>3
<1> QED
  BY <1>2, <1>4 DEF CacheInv, BoundTo

\* Lookups only change the order of the entries.
LEMMA LookUpKeepsCache ==
    ASSUME CacheInv, NEW n \in Checkpoints, LookUp(n) PROVE CacheInv'
<1>1. PICK p \in [DOMAIN cache -> DOMAIN cache] :
           IsTouchOrder(p, cache, Signed[n]) /\ cache' = [i \in DOMAIN cache |-> cache[p[i]]]
  BY DEF LookUp
<1>2. /\ IsCache(cache') /\ Len(cache') = Len(cache)
      /\ \A i \in DOMAIN cache' : cache'[i] \in ToSet(cache)
  <2>1. IsCache(cache) /\ Signed[n] \in Seq(Signers)
    BY DEF CacheInv
  <2> DEFINE d == [i \in DOMAIN cache |-> cache[p[i]]]
  <2>2. /\ IsCache(d) /\ Len(d) = Len(cache)
        /\ \A i \in DOMAIN d : d[i] \in ToSet(cache)
    BY <1>1, <2>1, TouchedProperties, Zenon
  <2>3. cache' = d
    BY <1>1
  <2> HIDE DEF d
  <2> QED
    BY <2>2, <2>3
<1>3. \A e \in ToSet(cache) : e[2] \in BoundTo(e[1])
  BY DEF CacheInv, ToSet
<1>4. \A i \in DOMAIN cache' : cache'[i][2] \in BoundTo(cache'[i][1])
  BY <1>2, <1>3
<1>5. UNCHANGED head
  BY DEF LookUp
<1> QED
  BY <1>2, <1>4, <1>5 DEF CacheInv, BoundTo

\* What is looked up is what is found so far.
LEMMA LookUpFinds ==
    ASSUME CacheInv, StateType, NEW n \in Checkpoints, HandlerInv(n), LookUp(n)
    PROVE  HandlerInv(n)' /\ committed'[n] \subseteq Ids \union {0}
<1> DEFINE hits == ToSet(Signed[n]) \cap Keys(cache)
<1>1. ASSUME NEW s \in hits
      PROVE  Lookup(cache, s) \in BoundTo(s) /\ Lookup(cache, s) \in Ids \union {0}
  <2>1. \E e \in ToSet(cache) : e[1] = s
    BY DEF Keys, ToSet
  <2> DEFINE e == CHOOSE x \in ToSet(cache) : x[1] = s
  <2>2. e \in ToSet(cache) /\ e[1] = s
    BY <2>1
  <2>3. Lookup(cache, s) = e[2]
    BY DEF Lookup
  <2> HIDE DEF e
  <2>4. e[2] \in BoundTo(s)
    BY <2>2 DEF CacheInv, ToSet
  <2>5. e \in Entry
    BY <2>2, LenProperties DEF CacheInv, IsCache, ToSet
  <2> QED
    BY <2>3, <2>4, <2>5 DEF Entry
<1>2. /\ asked'[n] = ToSet(Signed[n]) \ hits
      /\ committed'[n] = {Lookup(cache, s) : s \in hits}
      /\ handler'[n] = "answers"
      /\ UNCHANGED head
      /\ handler[n] = "lookup"
  BY DEF LookUp, Goto, StateType
<1>3. ToSet(Signed[n]) \ asked'[n] = hits
  BY <1>2
<1>4. \A s : BoundTo(s)' = BoundTo(s)
  BY <1>2 DEF BoundTo
<1>5. \A s \in hits : s \in ToSet(Signed[n])
  OBVIOUS
<1> HIDE DEF hits
<1>6. Found(n)'
  <2>1. \A id \in committed'[n] : \E s \in ToSet(Signed[n]) : id \in BoundTo(s)'
    BY <1>1, <1>2, <1>4, <1>5
  <2>2. \A s \in ToSet(Signed[n]) \ asked'[n] : \E id \in committed'[n] : id \in BoundTo(s)'
    BY <1>1, <1>2, <1>3, <1>4
  <2> QED
    BY <2>1, <2>2 DEF Found
<1>7. committed'[n] \subseteq Ids \union {0}
  BY <1>1, <1>2
<1> QED
  BY <1>2, <1>6, <1>7 DEF HandlerInv

\* A handler whose state does not change keeps what holds of it.
LEMMA OtherHandlersKeep ==
    ASSUME head \in Blocks, head' \in Blocks, head <= head',
           NEW n \in Checkpoints, HandlerInv(n),
           UNCHANGED <<handler[n], asked[n], committed[n]>>
    PROVE  HandlerInv(n)'
<1>1. \A s : BoundTo(s) \subseteq BoundTo(s)'
  BY BoundForGood
<1>2. Block[n] <= head => Block[n] <= head'
  BY DEF Blocks
<1>3. Found(n) => Found(n)'
  <2> SUFFICES ASSUME Found(n) PROVE Found(n)'
    OBVIOUS
  <2>1. \A id \in committed'[n] : \E s \in ToSet(Signed[n]) : id \in BoundTo(s)'
    BY <1>1 DEF Found
  <2>2. \A s \in ToSet(Signed[n]) \ asked'[n] : \E id \in committed'[n] : id \in BoundTo(s)'
    BY <1>1 DEF Found
  <2> QED
    BY <2>1, <2>2 DEF Found
<1> QED
  BY <1>2, <1>3 DEF HandlerInv

\* The chain stands still in the steps of the service.
LEMMA HeadStays ==
    ASSUME StateType, UNCHANGED head
    PROVE  head \in Blocks /\ head' \in Blocks /\ head <= head'
  BY DEF StateType, Blocks

\* One answer of the contract.
LEMMA AnswerKeepsInv ==
    ASSUME DutiesInv, NEW n \in Checkpoints, NEW s \in Signers, Answer(n, s)
    PROVE  DutiesInv'
<1> DEFINE id == SignerToValidator[Block[n]][s]
<1>1. s \in ToSet(Signed[n]) /\ handler[n] = "answers" /\ Found(n) /\ Block[n] <= head
  BY DEF Answer, DutiesInv, HandlerInv, StateType
<1>2. CacheInv'
  BY <1>1, AnswerKeepsCache DEF Answer, DutiesInv
<1>3. /\ asked' = [asked EXCEPT ![n] = @ \ {s}]
      /\ committed' = [committed EXCEPT ![n] = @ \union {id}]
      /\ UNCHANGED <<head, handler, tracked, adrift, retried>>
  BY DEF Answer
<1>4. id \in Ids \union {0} /\ id \in BoundTo(s)
  BY <1>1, AnswerIsBound
<1> HIDE DEF id
<1>5. HandlerInv(n)'
  <2>1. asked'[n] = asked[n] \ {s} /\ committed'[n] = committed[n] \union {id}
    BY <1>3 DEF DutiesInv, StateType
  <2>2. \A r : BoundTo(r)' = BoundTo(r)
    BY <1>3 DEF BoundTo
  <2>3. \A i \in committed'[n] : \E r \in ToSet(Signed[n]) : i \in BoundTo(r)'
    BY <1>1, <1>4, <2>1, <2>2 DEF Found
  <2>4. \A r \in ToSet(Signed[n]) \ asked'[n] : \E i \in committed'[n] : i \in BoundTo(r)'
    BY <1>1, <1>4, <2>1, <2>2 DEF Found
  <2>5. Found(n)'
    BY <2>3, <2>4 DEF Found
  <2> QED
    BY <1>1, <1>3, <2>1, <2>5 DEF DutiesInv, HandlerInv
<1>6. ASSUME NEW m \in Checkpoints, m # n PROVE HandlerInv(m)'
  <2>1. UNCHANGED <<handler[m], asked[m], committed[m]>>
    BY <1>3, <1>6 DEF DutiesInv, StateType
  <2> QED
    BY <1>3, <2>1, HeadStays, OtherHandlersKeep DEF DutiesInv
<1>7. StateType'
  BY <1>3, <1>4 DEF DutiesInv, StateType
<1> QED
  BY <1>2, <1>3, <1>5, <1>6, <1>7 DEF DutiesInv, CallsInv

\* All lookups of a handler up to their awaits.
LEMMA LookUpKeepsInv ==
    ASSUME DutiesInv, NEW n \in Checkpoints, LookUp(n) PROVE DutiesInv'
<1>1. CacheInv'
  BY LookUpKeepsCache DEF DutiesInv
<1>2. HandlerInv(n)' /\ committed'[n] \subseteq Ids \union {0}
  BY LookUpFinds DEF DutiesInv
<1>3. /\ handler' = [handler EXCEPT ![n] = "answers"]
      /\ asked' = [asked EXCEPT ![n] = ToSet(Signed[n]) \ (ToSet(Signed[n]) \cap Keys(cache))]
      /\ committed' = [committed EXCEPT ![n] = committed'[n]]
      /\ UNCHANGED <<head, tracked, adrift, retried>>
  BY DEF LookUp, Goto, DutiesInv, StateType
<1>4. ToSet(Signed[n]) \subseteq Signers
  BY AnswerIsBound
<1>5. ASSUME NEW m \in Checkpoints, m # n PROVE HandlerInv(m)'
  <2>1. UNCHANGED <<handler[m], asked[m], committed[m]>>
    BY <1>3, <1>5 DEF DutiesInv, StateType
  <2> QED
    BY <1>3, <2>1, HeadStays, OtherHandlersKeep DEF DutiesInv
<1>6. StateType'
  BY <1>2, <1>3, <1>4 DEF DutiesInv, StateType
<1> QED
  BY <1>1, <1>2, <1>3, <1>5, <1>6 DEF DutiesInv, CallsInv

\* One step of the service or of the chain.
LEMMA NextKeepsDutiesInv ==
    ASSUME DutiesInv, [Next]_vars PROVE DutiesInv'
<1> USE DEF DutiesInv
<1>1. ASSUME UNCHANGED <<head, cache>> PROVE CacheInv'
  BY <1>1 DEF CacheInv, BoundTo
<1>2. CASE Mine
  <2>1. head \in Blocks /\ head' \in Blocks /\ head <= head'
    BY <1>2 DEF Mine, StateType, Blocks
  <2>2. \A n \in Checkpoints : HandlerInv(n)'
    BY <1>2, <2>1, OtherHandlersKeep DEF Mine
  <2>3. CacheInv'
    BY <1>2, <2>1, BoundForGood DEF Mine, CacheInv
  <2>4. CallsInv'
    <3>1. \A n \in Checkpoints : Block[n] <= head => Block[n] <= head'
      BY <2>1 DEF Blocks
    <3>2. \A call \in adrift : call[1] \in Checkpoints
      BY DEF StateType
    <3> QED
      BY <1>2, <3>1, <3>2 DEF Mine, CallsInv
  <2> QED
    BY <1>2, <2>1, <2>2, <2>3, <2>4 DEF Mine, StateType
<1>3. ASSUME NEW n \in Checkpoints, ReadTracked(n) PROVE DutiesInv'
  <2>1. TrackedIds(n) \in SUBSET Ids
    BY DEF TrackedIds, TrackedV1, TrackedV2, StateType
  <2>2. StateType'
    BY <1>3, <2>1 DEF ReadTracked, Goto, StateType
  <2>3. HandlerInv(n)'
    BY <1>3 DEF ReadTracked, Goto, HandlerInv, StateType
  <2>4. ASSUME NEW m \in Checkpoints, m # n PROVE HandlerInv(m)'
    <3>1. UNCHANGED <<handler[m], asked[m], committed[m]>>
      BY <1>3, <2>4 DEF ReadTracked, Goto, StateType
    <3> QED
      BY <1>3, <3>1, HeadStays, OtherHandlersKeep DEF ReadTracked
  <2> QED
    BY <1>1, <1>3, <2>2, <2>3, <2>4 DEF ReadTracked, CallsInv
<1>4. ASSUME NEW n \in Checkpoints, Finish(n) PROVE DutiesInv'
  <2>1. StateType'
    BY <1>4 DEF Finish, Goto, StateType
  <2>2. HandlerInv(n)'
    BY <1>4 DEF Finish, Goto, HandlerInv, StateType, Found, BoundTo
  <2>3. ASSUME NEW m \in Checkpoints, m # n PROVE HandlerInv(m)'
    <3>1. UNCHANGED <<handler[m], asked[m], committed[m]>>
      BY <1>4, <2>3 DEF Finish, Goto, StateType
    <3> QED
      BY <1>4, <3>1, HeadStays, OtherHandlersKeep DEF Finish
  <2> QED
    BY <1>1, <1>4, <2>1, <2>2, <2>3 DEF Finish, CallsInv
<1>5. ASSUME NEW n \in Checkpoints, HandlerFails(n) PROVE DutiesInv'
  <2>1. StateType'
    BY <1>5 DEF HandlerFails, Goto, StateType
  <2>2. HandlerInv(n)'
    BY <1>5 DEF HandlerFails, Goto, HandlerInv, StateType
  <2>3. ASSUME NEW m \in Checkpoints, m # n PROVE HandlerInv(m)'
    <3>1. UNCHANGED <<handler[m], asked[m], committed[m]>>
      BY <1>5, <2>3 DEF HandlerFails, Goto, StateType
    <3> QED
      BY <1>5, <3>1, HeadStays, OtherHandlersKeep DEF HandlerFails
  <2>4. CallsInv'
    BY <1>5 DEF HandlerFails, CallsInv, HandlerInv
  <2> QED
    BY <1>1, <1>5, <2>1, <2>2, <2>3, <2>4 DEF HandlerFails
<1>6. ASSUME NEW n \in Checkpoints, NEW s \in Signers, LateAnswer(n, s) PROVE DutiesInv'
  <2>1. s \in ToSet(Signed[n])
    BY <1>6 DEF LateAnswer, CallsInv
  <2>2. CacheInv'
    <3>1. Block[n] <= head
      BY <1>6 DEF LateAnswer, CallsInv
    <3> QED
      BY <1>6, <2>1, <3>1, AnswerKeepsCache DEF LateAnswer
  <2>3. \A m \in Checkpoints : HandlerInv(m)'
    BY <1>6, HeadStays, OtherHandlersKeep DEF LateAnswer
  <2> QED
    BY <1>6, <2>2, <2>3 DEF LateAnswer, StateType, CallsInv
<1>7. CASE Crash
  <2>1. CacheInv'
    <3>1. cache' = <<>>
      BY <1>7 DEF Crash
    <3>2. DOMAIN cache' = {} /\ cache' \in Seq(Entry) /\ Len(cache') = 0
      BY <3>1, EmptySeq
    <3> QED
      BY <3>2 DEF CacheInv, IsCache
  <2>2. ASSUME NEW n \in Checkpoints PROVE HandlerInv(n)'
    <3>1. CASE handler[n] = "done"
      <4>1. UNCHANGED <<head, handler[n], asked[n], committed[n]>>
        BY <1>7, <3>1 DEF Crash, HandlerInv
      <4> QED
        BY <4>1, HeadStays, OtherHandlersKeep
    <3>2. CASE handler[n] # "done"
      BY <1>7, <3>2 DEF Crash, HandlerInv
    <3> QED
      BY <3>1, <3>2
  <2>3. StateType'
    BY <1>7 DEF Crash, StateType
  <2> QED
    BY <1>7, <2>1, <2>2, <2>3 DEF Crash, CallsInv
<1>8. CASE UNCHANGED vars
  <2>1. \A n \in Checkpoints : HandlerInv(n)'
    BY <1>8, HeadStays, OtherHandlersKeep DEF vars
  <2> QED
    BY <1>1, <1>8, <2>1 DEF vars, StateType, CallsInv
<1> QED
  BY <1>2, <1>3, <1>4, <1>5, <1>6, <1>7, <1>8, AnswerKeepsInv, LookUpKeepsInv DEF Next

\* The invariant holds of every behaviour.
LEMMA DutiesInvariant == Spec => []DutiesInv
<1>1. Init => DutiesInv
  <2> SUFFICES ASSUME Init PROVE DutiesInv
    OBVIOUS
  <2>1. DOMAIN cache = {} /\ cache \in Seq(Entry) /\ Len(cache) = 0
    BY EmptySeq DEF Init
  <2>2. CacheInv
    BY <2>1 DEF CacheInv, IsCache
  <2> QED
    BY <2>2 DEF Init, DutiesInv, StateType, HandlerInv, CallsInv
<1> QED
  BY <1>1, NextKeepsDutiesInv, PTL DEF Spec

\* Types; and the cache keeps to its size and holds an entry per signer, whatever
\* handlers ask at once and whatever answers come late (LRU).
THEOREM DutiesTypeCorrect == Spec => []TypeOK
<1>1. DutiesInv => TypeOK
  BY DEF DutiesInv, StateType, CacheInv, IsCache, Entry, TypeOK, IsInjective
<1> QED
  BY <1>1, DutiesInvariant, PTL

\* Whatever handlers of other blocks did to the cache, a finished checkpoint finds
\* an id through signatures of its own signers only, and surely through one that
\* was never bound otherwise when it signed (signerToValidatorId).
THEOREM DutiesAlwaysFaithful == Spec => []DutiesFaithful
<1>1. DutiesInv => DutiesFaithful
  <2> SUFFICES ASSUME DutiesInv, NEW n \in Checkpoints, handler[n] = "done",
                      NEW v \in ActiveSet(n)
               PROVE  /\ v \in committed[n] => \E s \in ToSet(Signed[n]) : v \in BoundTo(s)
                      /\ (\E s \in ToSet(Signed[n]) : BoundTo(s) = {v}) => v \in committed[n]
    BY DEF DutiesFaithful
  <2>1. asked[n] = {} /\ Found(n)
    BY DEF DutiesInv, HandlerInv
  <2> QED
    BY <2>1 DEF Found
<1> QED
  BY <1>1, DutiesInvariant, PTL

-----------------------------------------------------------------------------
(* Who is tracked.                                                         *)

\* No operator starts or stops once the registry V2 is asked.
StableSinceV2 ==
    \A a, b \in Blocks : V2Block <= a /\ a <= b => ActiveOperator[a] = ActiveOperator[b]

\* The tracked validators that were read are those of the checkpoint's block.
TrackedInv ==
    /\ StateType
    /\ \A n \in Checkpoints : handler[n] # "idle" /\ StaticIds = {} =>
          tracked[n] = Registered[Block[n]] \cap ActiveOperator[Block[n]]

\* With V1 always, and with V2 while no operator changes its status, a finished
\* checkpoint tracks the operators active at its block (getTrackedValidatorsIds).
THEOREM TrackedAlwaysFaithful == ASSUME StableSinceV2 PROVE Spec => []TrackedFaithful
<1>1. Init => TrackedInv
  BY DEF Init, TrackedInv, StateType
<1>2. ASSUME TrackedInv, DutiesInv', [Next]_vars PROVE TrackedInv'
  <2> USE DEF TrackedInv
  <2>1. StateType'
    BY <1>2 DEF DutiesInv
  <2>2. ASSUME NEW n \in Checkpoints, ReadTracked(n), StaticIds = {}
        PROVE  TrackedIds(n) = Registered[Block[n]] \cap ActiveOperator[Block[n]]
    <3>1. Block[n] \in Blocks /\ head \in Blocks /\ Block[n] <= head
      BY <1>2, <2>2 DEF ReadTracked, StateType
    <3>2. CASE IsPoLidoV1(n)
      BY <2>2, <3>2 DEF TrackedIds, TrackedV1
    <3>3. CASE ~IsPoLidoV1(n)
      <4>1. ActiveOperator[head] = ActiveOperator[Block[n]]
        BY <3>1, <3>3 DEF IsPoLidoV1, StableSinceV2, Blocks
      <4> QED
        BY <2>2, <3>3, <4>1 DEF TrackedIds, TrackedV2
    <3> QED
      BY <3>2, <3>3
  <2>3. ASSUME NEW n \in Checkpoints, ReadTracked(n) PROVE TrackedInv'
    BY <1>2, <2>1, <2>2, <2>3 DEF ReadTracked, Goto, StateType
  <2>4. CASE Crash
    BY <1>2, <2>1, <2>4 DEF Crash, StateType
  <2>5. ASSUME NEW n \in Checkpoints, HandlerFails(n) PROVE TrackedInv'
    BY <1>2, <2>1, <2>5 DEF HandlerFails, Goto, StateType
  <2>6. ASSUME NEW n \in Checkpoints, LookUp(n) \/ Finish(n) PROVE TrackedInv'
    BY <1>2, <2>1, <2>6 DEF LookUp, Finish, Goto, StateType
  <2>7. ASSUME NEW n \in Checkpoints, NEW s \in Signers, Answer(n, s) \/ LateAnswer(n, s)
        PROVE  TrackedInv'
    BY <1>2, <2>1, <2>7 DEF Answer, LateAnswer
  <2>8. CASE Mine \/ UNCHANGED vars
    BY <1>2, <2>1, <2>8 DEF Mine, vars
  <2> QED
    BY <1>2, <2>3, <2>4, <2>5, <2>6, <2>7, <2>8 DEF Next
<1>3. TrackedInv => TrackedFaithful
  BY DEF TrackedInv, TrackedFaithful
<1> QED
  BY <1>1, <1>2, <1>3, DutiesInvariant, PTL DEF Spec
=============================================================================
