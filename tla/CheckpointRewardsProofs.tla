----------------------- MODULE CheckpointRewardsProofs -----------------------
(***************************************************************************)
(* Theorems about CheckpointRewards, for every active set, stakes, rates,  *)
(* shares and precision that RewardsAssumption allows: the rewards of a    *)
(* checkpoint never exceed it, what the divisions lose is bounded, and so  *)
(* is what the monitored delegators are credited with.                     *)
(***************************************************************************)
EXTENDS CheckpointRewards, NumberSets

Signers == Validators \cap committed

InputsOK ==
    /\ amount \in [Validators -> Amounts]
    /\ delegatedAmount \in [Validators -> DelegatedAmounts]
    /\ commissionRate \in [Validators -> CommissionRates]
    /\ shares \in [Validators -> HeldShares]
    /\ totalReward \in TotalRewards

\* What is in the rewards is what the inputs give for the signers handled.
Computed ==
    /\ own = [v \in Validators |-> IF v \in committed \ todo THEN OwnReward(v) ELSE 0]
    /\ delegators =
          [v \in Validators |-> IF v \in committed \ todo THEN DelegatorsReward(v) ELSE 0]
    /\ earned = [v \in Validators |-> IF v \in committed \ todo THEN EarnedReward(v) ELSE 0]

IInv == InputsOK /\ todo \in SUBSET Validators /\ Computed

\* The amounts depend on the inputs only, which no step changes.
LEMMA SameInputs ==
    ASSUME UNCHANGED inputs
    PROVE  \A v \in Validators : /\ OwnReward(v)' = OwnReward(v)
                                 /\ DelegatorsReward(v)' = DelegatorsReward(v)
                                 /\ EarnedReward(v)' = EarnedReward(v)
<1>1. StakeOfSigners' = StakeOfSigners
  BY DEF inputs, StakeOfSigners, StakeOf, TotalStake
<1>2. ProposerReward' = ProposerReward
  BY DEF inputs, ProposerReward
<1>3. RewardPerStake' = RewardPerStake
  BY <1>1, <1>2 DEF inputs, RewardPerStake
<1>4. ASSUME NEW v \in Validators
      PROVE  /\ RewardsOnTotalStake(v)' = RewardsOnTotalStake(v)
             /\ RewardsOnOwnStake(v)' = RewardsOnOwnStake(v)
             /\ CommissionedRewards(v)' = CommissionedRewards(v)
  <2>1. TotalStake(v)' = TotalStake(v)
    BY DEF inputs, TotalStake
  <2>2. RewardsOnTotalStake(v)' = RewardsOnTotalStake(v)
    BY <1>3, <2>1 DEF RewardsOnTotalStake
  <2>3. RewardsOnOwnStake(v)' = RewardsOnOwnStake(v)
    BY <2>1, <2>2 DEF inputs, RewardsOnOwnStake
  <2> QED
    BY <2>2, <2>3 DEF inputs, CommissionedRewards
<1>5. \A v \in Validators : DelegatorsReward(v)' = DelegatorsReward(v)
  BY <1>4 DEF DelegatorsReward
<1>6. \A v \in Validators : OwnReward(v)' = OwnReward(v)
  BY <1>2, <1>4 DEF inputs, OwnReward
<1>7. \A v \in Validators : EarnedReward(v)' = EarnedReward(v)
  BY <1>5 DEF inputs, EarnedReward
<1> QED
  BY <1>5, <1>6, <1>7

LEMMA InitIInv == Init => IInv
<1> SUFFICES ASSUME Init PROVE IInv
  OBVIOUS
<1>1. InputsOK
  BY DEF Init, InputsOK
<1>2. \A v \in Validators : v \notin committed \ todo
  BY DEF Init
<1>3. Computed
  BY <1>2 DEF Init, Nothing, Computed
<1> QED
  BY <1>1, <1>3 DEF Init, IInv

LEMMA NextIInv == IInv /\ [Next]_vars => IInv'
<1> SUFFICES ASSUME IInv, [Next]_vars PROVE IInv'
  OBVIOUS
<1>1. UNCHANGED inputs
  BY DEF Next, vars, NoSigners, HandleValidator, SharesUnread
<1>2. InputsOK'
  BY <1>1 DEF IInv, InputsOK, inputs
<1>3. \A v \in Validators : /\ OwnReward(v)' = OwnReward(v)
                            /\ DelegatorsReward(v)' = DelegatorsReward(v)
                            /\ EarnedReward(v)' = EarnedReward(v)
  BY <1>1, SameInputs
<1>4. CASE UNCHANGED <<todo, rewards>>
  <2>1. Computed'
    BY <1>1, <1>3, <1>4 DEF IInv, Computed, rewards, inputs
  <2> QED
    BY <1>2, <1>4, <2>1 DEF IInv
<1>5. ASSUME NEW v \in Validators, HandleValidator(v) PROVE IInv'
  <2>1. todo' = todo \ {v} /\ v \in todo /\ committed' = committed
    BY <1>1, <1>5 DEF HandleValidator, inputs
  <2>2. \A w \in Validators : w \in committed' \ todo' <=>
                                 w \in committed \ todo \/ (w = v /\ v \in committed)
    BY <2>1
  <2>3. CASE v \in committed
    <3>1. /\ own' = [own EXCEPT ![v] = OwnReward(v)]
          /\ delegators' = [delegators EXCEPT ![v] = DelegatorsReward(v)]
          /\ earned' = [earned EXCEPT ![v] = EarnedReward(v)]
      BY <1>5, <2>3 DEF HandleValidator
    <3> QED
      BY <1>2, <1>3, <2>1, <2>2, <2>3, <3>1 DEF IInv, Computed
  <2>4. CASE v \notin committed
    <3>1. UNCHANGED rewards
      BY <1>5, <2>4 DEF HandleValidator
    <3> QED
      BY <1>2, <1>3, <2>1, <2>2, <2>4, <3>1 DEF IInv, Computed, rewards
  <2> QED
    BY <2>3, <2>4
<1>6. CASE NoSigners
  BY <1>4, <1>6 DEF NoSigners
<1>7. ASSUME NEW v \in Validators, SharesUnread(v) PROVE IInv'
  BY <1>4, <1>7 DEF SharesUnread
<1>8. CASE UNCHANGED vars
  BY <1>4, <1>8 DEF vars
<1> QED
  BY <1>5, <1>6, <1>7, <1>8 DEF Next

-----------------------------------------------------------------------------
(* Arithmetic.                                                             *)

\* An integer division rounds down, and loses less than one.
LEMMA DivBounds ==
    ASSUME NEW a \in Nat, NEW b \in Nat \ {0}
    PROVE  a \div b \in Nat /\ b * (a \div b) <= a /\ a < b * (a \div b) + b
OBVIOUS

LEMMA ProductOrder ==
    ASSUME NEW x \in Nat, NEW y \in Nat, NEW n \in Nat, x <= y
    PROVE  n * x <= n * y /\ x * n <= y * n
OBVIOUS

\* The order of two multiples of a positive number is that of the numbers.
LEMMA Cancel ==
    ASSUME NEW x \in Int, NEW y \in Int, NEW n \in Nat \ {0}, n * x <= n * y
    PROVE  x <= y
<1>1. SUFFICES ASSUME x >= y + 1 PROVE FALSE
  OBVIOUS
<1>2. PICK d \in Nat : x = y + 1 + d
  <2>1. x - (y + 1) \in Nat /\ x = y + 1 + (x - (y + 1))
    BY <1>1
  <2> QED
    BY <2>1
<1>3. n * (y + (1 + d)) = n * y + n * (1 + d) /\ n * y \in Int
  OBVIOUS
<1>4. n * (1 + d) >= n
  OBVIOUS
<1> QED
  BY <1>2, <1>3, <1>4

\* A part k / b of n is no more than n.
LEMMA PartOf ==
    ASSUME NEW n \in Nat, NEW b \in Nat \ {0}, NEW k \in Nat, k <= b
    PROVE  (n * k) \div b \in 0 .. n
<1>1. n * k \in Nat /\ n * k <= n * b /\ n * b = b * n
  BY ProductOrder
<1> DEFINE q == (n * k) \div b
<1>2. q \in Nat /\ b * q <= n * k
  BY <1>1, DivBounds
<1> HIDE DEF q
<1>3. b * q <= b * n
  BY <1>1, <1>2
<1>4. q <= n
  BY <1>2, <1>3, Cancel
<1> QED
  BY <1>2, <1>4 DEF q

-----------------------------------------------------------------------------
(* The amounts of one signer, and their sums.                              *)

Stakes == [v \in Validators |-> TotalStake(v)]

LEMMA InputFacts ==
    ASSUME InputsOK
    PROVE  /\ IsFiniteSet(Signers)
           /\ RewardPrecision \in Nat \ {0} /\ TotalShares \in Nat \ {0}
           /\ totalReward \in Nat
           /\ \A v \in Validators :
                 /\ amount[v] \in Nat /\ amount[v] <= TotalStake(v)
                 /\ TotalStake(v) \in Nat \ {0} /\ Stakes[v] = TotalStake(v)
                 /\ commissionRate[v] \in 0 .. 100
                 /\ shares[v] \in 0 .. TotalShares
<1>1. IsFiniteSet(Signers)
  BY RewardsAssumption, FS_Subset DEF Signers
<1>2. totalReward \in Nat /\ RewardPrecision \in Nat \ {0} /\ TotalShares \in Nat \ {0}
  BY RewardsAssumption DEF InputsOK
<1>3. ASSUME NEW v \in Validators
      PROVE  /\ amount[v] \in Nat /\ amount[v] <= TotalStake(v)
             /\ TotalStake(v) \in Nat \ {0} /\ Stakes[v] = TotalStake(v)
             /\ commissionRate[v] \in 0 .. 100
             /\ shares[v] \in 0 .. TotalShares
  <2>1. amount[v] \in Nat \ {0} /\ delegatedAmount[v] \in Nat
    BY RewardsAssumption DEF InputsOK
  <2>2. commissionRate[v] \in 0 .. 100 /\ shares[v] \in 0 .. TotalShares
    BY RewardsAssumption DEF InputsOK
  <2> QED
    BY <2>1, <2>2 DEF TotalStake, Stakes
<1> QED
  BY <1>1, <1>2, <1>3

LEMMA ProposerRewardIsPart ==
    ASSUME InputsOK
    PROVE  ProposerReward \in 0 .. totalReward
BY InputFacts, RewardsAssumption, PartOf DEF ProposerReward

\* Every signer of the active set has a stake: the division is defined.
LEMMA SignersHaveStake ==
    ASSUME InputsOK, Signers # {}
    PROVE  StakeOfSigners \in Nat \ {0}
<1>1. \A v \in Signers : Stakes[v] \in Nat \ {0}
  BY InputFacts DEF Signers
<1>2. IsFiniteSet(Signers) /\ Cardinality(Signers) \in Nat \ {0}
  BY InputFacts, FS_CardinalityType, FS_EmptySet
<1>3. StakeOfSigners = SumFunctionOnSet(Stakes, Signers)
  BY DEF StakeOfSigners, StakeOf, Stakes, Signers
<1>4. SumFunctionOnSet(Stakes, Signers) \in Int
  BY <1>1, <1>2, SumType
<1>5. \A v \in Signers : 0 * Stakes[v] <= 1 * Stakes[v] + (-1)
  BY <1>1
<1>6. 0 * SumFunctionOnSet(Stakes, Signers)
         <= 1 * SumFunctionOnSet(Stakes, Signers) + (-1) * Cardinality(Signers)
  BY <1>1, <1>2, <1>5, SumsCompare
<1> QED
  BY <1>2, <1>3, <1>4, <1>6

LEMMA RewardPerStakeBounds ==
    ASSUME InputsOK, Signers # {}
    PROVE  /\ RewardPerStake \in Nat
           /\ StakeOfSigners * RewardPerStake
                 <= (totalReward - ProposerReward) * RewardPrecision
           /\ (totalReward - ProposerReward) * RewardPrecision
                 < StakeOfSigners * RewardPerStake + StakeOfSigners
<1>1. totalReward - ProposerReward \in Nat
  BY InputFacts, ProposerRewardIsPart
<1>2. (totalReward - ProposerReward) * RewardPrecision \in Nat
  BY <1>1, InputFacts
<1> QED
  BY <1>2, SignersHaveStake, DivBounds DEF RewardPerStake

\* The reward of a signer splits into natural parts that add up to what its
\* stake has earned.
LEMMA SplitOfReward ==
    ASSUME InputsOK, NEW v \in Signers
    PROVE  /\ RewardsOnTotalStake(v) \in Nat
           /\ RewardPrecision * RewardsOnTotalStake(v) <= RewardPerStake * Stakes[v]
           /\ RewardPerStake * Stakes[v]
                 < RewardPrecision * RewardsOnTotalStake(v) + RewardPrecision
           /\ DelegatorsReward(v) \in Nat
           /\ OwnReward(v) \in Nat
           /\ OwnReward(v) + DelegatorsReward(v)
                 = RewardsOnTotalStake(v) + (IF v = proposer THEN ProposerReward ELSE 0)
<1>1. v \in Validators /\ Signers # {} /\ RewardPerStake \in Nat
  BY RewardPerStakeBounds DEF Signers
<1>2. /\ amount[v] \in Nat /\ amount[v] <= TotalStake(v)
      /\ TotalStake(v) \in Nat \ {0} /\ Stakes[v] = TotalStake(v)
      /\ commissionRate[v] \in Nat /\ commissionRate[v] <= 100
      /\ RewardPrecision \in Nat \ {0}
  BY <1>1, InputFacts
<1>3. /\ RewardsOnTotalStake(v) \in Nat
      /\ RewardPrecision * RewardsOnTotalStake(v) <= TotalStake(v) * RewardPerStake
      /\ TotalStake(v) * RewardPerStake
            < RewardPrecision * RewardsOnTotalStake(v) + RewardPrecision
  <2>1. TotalStake(v) * RewardPerStake \in Nat
    BY <1>1, <1>2
  <2> QED
    BY <1>2, <2>1, DivBounds DEF RewardsOnTotalStake
<1>4. TotalStake(v) * RewardPerStake = RewardPerStake * Stakes[v]
  BY <1>1, <1>2
<1>5. RewardsOnOwnStake(v) \in 0 .. RewardsOnTotalStake(v)
  BY <1>2, <1>3, PartOf DEF RewardsOnOwnStake
<1>6. RewardsOnTotalStake(v) - RewardsOnOwnStake(v) \in Nat
  BY <1>3, <1>5
<1>7. CommissionedRewards(v) \in 0 .. (RewardsOnTotalStake(v) - RewardsOnOwnStake(v))
  BY <1>2, <1>6, PartOf DEF CommissionedRewards
<1>8. DelegatorsReward(v) \in Nat
  BY <1>3, <1>5, <1>7 DEF DelegatorsReward
<1>9. ProposerReward \in Nat
  BY ProposerRewardIsPart, InputFacts
<1>10. /\ OwnReward(v) \in Nat
       /\ OwnReward(v) + DelegatorsReward(v)
             = RewardsOnTotalStake(v) + (IF v = proposer THEN ProposerReward ELSE 0)
  BY <1>3, <1>5, <1>7, <1>9 DEF OwnReward, DelegatorsReward
<1> QED
  BY <1>3, <1>4, <1>8, <1>10

\* What the stakes of the signers handled so far have earned.
Got == [v \in Validators |-> IF v \in committed \ todo THEN RewardsOnTotalStake(v) ELSE 0]

\* What is paid is what the stakes earned, and the bonus if the proposer is
\* among the signers handled.
LEMMA PaidIsGot ==
    ASSUME IInv
    PROVE  /\ SumFunctionOnSet(Got, Signers) \in Int
           /\ Paid = SumFunctionOnSet(Got, Signers)
                 + (IF proposer \in Signers \ todo THEN ProposerReward ELSE 0)
<1> DEFINE part == [v \in Validators |-> own[v] + delegators[v]]
           S == Signers
<1>0. InputsOK /\ S \subseteq Validators /\ IsFiniteSet(S) /\ IsFiniteSet(Validators)
      /\ ProposerReward \in Int
  BY InputFacts, ProposerRewardIsPart, RewardsAssumption DEF IInv, Signers
<1>1. ASSUME NEW v \in Validators
      PROVE  /\ Got[v] \in Int /\ part[v] \in Int
             /\ v \notin S => part[v] = 0
             /\ part[v] = Got[v] + (IF v = proposer /\ v \in S \ todo THEN ProposerReward ELSE 0)
  <2>1. CASE v \in committed \ todo
    <3>1. v \in S /\ own[v] = OwnReward(v) /\ delegators[v] = DelegatorsReward(v)
          /\ Got[v] = RewardsOnTotalStake(v)
      BY <2>1 DEF IInv, Computed, Got, Signers
    <3> QED
      BY <1>0, <2>1, <3>1, SplitOfReward
  <2>2. CASE v \notin committed \ todo
    <3>1. v \notin S \ todo /\ own[v] = 0 /\ delegators[v] = 0 /\ Got[v] = 0
      BY <2>2 DEF IInv, Computed, Got, Signers
    <3> QED
      BY <3>1
  <2> QED
    BY <2>1, <2>2
<1>2. Paid = SumFunctionOnSet(part, Validators)
  BY DEF Paid, SumFunction
<1> HIDE DEF part, S
<1>3. SumFunctionOnSet(part, Validators) = SumFunctionOnSet(part, S)
  <2>1. \A v \in Validators : part[v] = IF v \in S THEN part[v] ELSE 0
    BY <1>1
  <2> QED
    BY <1>0, <1>1, <2>1, SumOnSupport
<1>4. SumFunctionOnSet(Got, S) \in Int
  BY <1>0, <1>1, SumType
<1>5. CASE proposer \in S \ todo
  <2> DEFINE rest == S \ {proposer}
  <2>1. IsFiniteSet(rest)
    BY <1>0, FS_RemoveElement
  <2>2. /\ SumFunctionOnSet(part, S) = part[proposer] + SumFunctionOnSet(part, rest)
        /\ SumFunctionOnSet(Got, S) = Got[proposer] + SumFunctionOnSet(Got, rest)
    BY <1>0, <1>1, <1>5, SumRemove
  <2>3. \A v \in rest : part[v] = IF v \in rest THEN Got[v] ELSE 0
    BY <1>0, <1>1
  <2>4. SumFunctionOnSet(part, rest) = SumFunctionOnSet(Got, rest)
    BY <1>0, <1>1, <2>1, <2>3, SumOnSupport
  <2>5. part[proposer] = Got[proposer] + ProposerReward
    BY <1>0, <1>1, <1>5
  <2>6. SumFunctionOnSet(Got, rest) \in Int /\ Got[proposer] \in Int
    BY <1>0, <1>1, <1>5, <2>1, SumType
  <2> QED
    BY <1>0, <1>2, <1>3, <1>4, <1>5, <2>2, <2>4, <2>5, <2>6 DEF S
<1>6. CASE proposer \notin S \ todo
  <2>1. \A v \in S : part[v] = IF v \in S THEN Got[v] ELSE 0
    BY <1>0, <1>1, <1>6
  <2>2. SumFunctionOnSet(part, S) = SumFunctionOnSet(Got, S)
    BY <1>0, <1>1, <2>1, SumOnSupport
  <2> QED
    BY <1>2, <1>3, <1>4, <1>6, <2>2 DEF S
<1> QED
  BY <1>5, <1>6

LEMMA InvNeverOverpaid == IInv => NeverOverpaid
<1> SUFFICES ASSUME IInv PROVE NeverOverpaid
  OBVIOUS
<1> DEFINE got == SumFunctionOnSet(Got, Signers)
           left == totalReward - ProposerReward
<1>1. InputsOK /\ totalReward \in Nat /\ ProposerReward \in Nat /\ left \in Nat
      /\ RewardPrecision \in Nat \ {0} /\ IsFiniteSet(Signers)
  BY InputFacts, ProposerRewardIsPart DEF IInv
<1>2. got \in Int
      /\ Paid = got + (IF proposer \in Signers \ todo THEN ProposerReward ELSE 0)
  BY PaidIsGot
<1>3. got <= left
  <2>1. CASE Signers = {}
    <3>1. got = 0
      BY <2>1, SumEmpty
    <3> QED
      BY <1>1, <3>1
  <2>2. CASE Signers # {}
    <3>1. /\ RewardPerStake \in Nat
          /\ StakeOfSigners * RewardPerStake <= left * RewardPrecision
          /\ StakeOfSigners \in Nat
      BY <1>1, <2>2, RewardPerStakeBounds, SignersHaveStake
    <3>2. ASSUME NEW v \in Signers
          PROVE  /\ Got[v] \in Int /\ Stakes[v] \in Int
                 /\ RewardPrecision * Got[v] <= RewardPerStake * Stakes[v] + 0
      <4>1. v \in Validators /\ Stakes[v] \in Nat /\ RewardPerStake * Stakes[v] \in Nat
        BY <1>1, <3>1, InputFacts DEF Signers
      <4>2. RewardsOnTotalStake(v) \in Nat
            /\ RewardPrecision * RewardsOnTotalStake(v) <= RewardPerStake * Stakes[v]
        BY <1>1, SplitOfReward
      <4>3. Got[v] = RewardsOnTotalStake(v) \/ Got[v] = 0
        BY <4>1 DEF Got
      <4>4. RewardPrecision * 0 = 0
        BY <1>1
      <4> QED
        BY <1>1, <4>1, <4>2, <4>3, <4>4
    <3>3. RewardPrecision * got
             <= RewardPerStake * SumFunctionOnSet(Stakes, Signers) + 0 * Cardinality(Signers)
      <4>1. RewardPrecision \in Int /\ RewardPerStake \in Int /\ 0 \in Int
        BY <1>1, <3>1
      <4> QED
        BY <1>1, <3>2, <4>1, SumsCompare
    <3>4. StakeOfSigners = SumFunctionOnSet(Stakes, Signers)
      BY DEF StakeOfSigners, StakeOf, Stakes, Signers
    <3>5. Cardinality(Signers) \in Nat
      BY <1>1, FS_CardinalityType
    <3> HIDE DEF got, left
    <3>6. RewardPrecision * got <= RewardPrecision * left
      <4>1. 0 * Cardinality(Signers) = 0
        BY <3>5
      <4>2. RewardPerStake * StakeOfSigners = StakeOfSigners * RewardPerStake
            /\ RewardPrecision * left = left * RewardPrecision
            /\ StakeOfSigners * RewardPerStake \in Int
            /\ RewardPrecision * got \in Int /\ left * RewardPrecision \in Int
        BY <1>1, <1>2, <3>1
      <4> QED
        BY <3>1, <3>3, <3>4, <4>1, <4>2
    <3> QED
      BY <1>1, <1>2, <3>6, Cancel
  <2> QED
    BY <2>1, <2>2
<1>4. Paid <= totalReward
  BY <1>1, <1>2, <1>3
<1> QED
  BY <1>4 DEF NeverOverpaid

LEMMA InvDustBounded == IInv => DustBounded
<1> SUFFICES ASSUME IInv, todo = {}, proposer \in Signers
             PROVE  (totalReward - Paid - Cardinality(Signers)) * RewardPrecision
                        < StakeOfSigners
  BY DEF DustBounded, Signers
<1> DEFINE got == SumFunctionOnSet(Got, Signers)
           left == totalReward - ProposerReward
           k == Cardinality(Signers)
           P == RewardPrecision
           stake == StakeOfSigners
<1>1. InputsOK /\ totalReward \in Nat /\ ProposerReward \in Nat /\ left \in Nat
      /\ P \in Nat \ {0} /\ IsFiniteSet(Signers) /\ k \in Nat
  BY InputFacts, ProposerRewardIsPart, FS_CardinalityType DEF IInv
<1>2. got \in Int /\ Paid = got + ProposerReward
  BY PaidIsGot
<1>3. /\ RewardPerStake \in Nat /\ stake \in Nat
      /\ left * P < stake * RewardPerStake + stake
  BY <1>1, RewardPerStakeBounds, SignersHaveStake
<1>4. ASSUME NEW v \in Signers
      PROVE  /\ Got[v] \in Int /\ Stakes[v] \in Int
             /\ RewardPerStake * Stakes[v] <= P * Got[v] + (P - 1)
  <2>1. v \in Validators /\ Stakes[v] \in Nat /\ RewardPerStake * Stakes[v] \in Nat
    BY <1>1, <1>3, InputFacts DEF Signers
  <2>2. Got[v] = RewardsOnTotalStake(v)
    BY <2>1 DEF Got, Signers
  <2>3. Got[v] \in Nat /\ RewardPerStake * Stakes[v] < P * Got[v] + P
    BY <1>1, <2>2, SplitOfReward
  <2>4. P * Got[v] \in Nat
    BY <1>1, <2>3
  <2> QED
    BY <1>1, <2>1, <2>3, <2>4
<1>5. RewardPerStake * SumFunctionOnSet(Stakes, Signers) <= P * got + (P - 1) * k
  <2>1. P \in Int /\ P - 1 \in Int /\ RewardPerStake \in Int
    BY <1>1, <1>3
  <2> QED
    BY <1>1, <1>4, <2>1, SumsCompare
<1>6. stake = SumFunctionOnSet(Stakes, Signers)
  BY DEF StakeOfSigners, StakeOf, Stakes, Signers
<1>7. totalReward - Paid - k = left - got - k
  BY <1>1, <1>2
<1> HIDE DEF got, left, k, P, stake
<1>8. /\ stake * RewardPerStake = RewardPerStake * stake
      /\ RewardPerStake * stake \in Int
  BY <1>3
<1>9. left * P < P * got + (P - 1) * k + stake
  <2>1. left * P \in Int /\ P * got \in Int /\ (P - 1) * k \in Int
    BY <1>1, <1>2
  <2> QED
    BY <1>3, <1>5, <1>6, <1>8, <2>1
<1>10. (left - got - k) * P = left * P - P * got - P * k
  BY <1>1, <1>2
<1>11. (P - 1) * k = P * k - k /\ P * k \in Int /\ left * P \in Int /\ P * got \in Int
  BY <1>1, <1>2
<1>12. (left - got - k) * P < stake
  BY <1>1, <1>3, <1>9, <1>10, <1>11
<1> QED
  BY <1>7, <1>12 DEF P, stake, k

LEMMA InvDelegatorsEarnTheirPart == IInv => DelegatorsEarnTheirPart
<1> SUFFICES ASSUME IInv, NEW v \in Validators
             PROVE  /\ earned[v] <= delegators[v]
                    /\ shares[v] = TotalShares =>
                         (delegators[v] - earned[v] - 1) * RewardPrecision < TotalShares
  BY DEF DelegatorsEarnTheirPart
<1> DEFINE P == RewardPrecision
           T == TotalShares
           s == shares[v]
           D == DelegatorsReward(v)
           Q == (D * P) \div T
           E == (s * Q) \div P
<1>1. InputsOK /\ P \in Nat \ {0} /\ T \in Nat \ {0} /\ s \in Nat /\ s <= T
  BY InputFacts DEF IInv
<1>2. CASE v \in committed \ todo
  <2>1. delegators[v] = D /\ earned[v] = E
    BY <1>2 DEF IInv, Computed, EarnedReward
  <2>2. D \in Nat
    BY <1>1, <1>2, SplitOfReward DEF Signers
  <2> HIDE DEF D, P, T, s
  <2>3. D * P \in Nat
    BY <1>1, <2>2
  <2>4. Q \in Nat /\ T * Q <= D * P /\ D * P < T * Q + T
    BY <1>1, <2>3, DivBounds
  <2> HIDE DEF Q
  <2>5. s * Q \in Nat /\ s * Q <= T * Q
    BY <1>1, <2>4, ProductOrder
  <2>6. E \in Nat /\ P * E <= s * Q /\ s * Q < P * E + P
    BY <1>1, <2>5, DivBounds
  <2> HIDE DEF E
  <2>7. E <= D
    <3>1. D * P = P * D /\ P * E \in Nat /\ P * D \in Nat /\ T * Q \in Nat
      BY <1>1, <2>2, <2>4, <2>6
    <3>2. P * E <= P * D
      BY <2>3, <2>4, <2>5, <2>6, <3>1
    <3> QED
      BY <1>1, <2>2, <2>6, <3>2, Cancel
  <2>8. ASSUME s = T PROVE (D - E - 1) * P < T
    <3>1. (D - E - 1) * P = D * P - P * E - P /\ P * E \in Int
      BY <1>1, <2>2, <2>6
    <3> QED
      BY <1>1, <2>3, <2>4, <2>5, <2>6, <2>8, <3>1
  <2> QED
    BY <2>1, <2>7, <2>8 DEF P, T, s
<1>3. CASE v \notin committed \ todo
  <2>1. delegators[v] = 0 /\ earned[v] = 0
    BY <1>3 DEF IInv, Computed
  <2>2. (0 - 0 - 1) * P < T
    BY <1>1
  <2> QED
    BY <2>1, <2>2
<1> QED
  BY <1>2, <1>3

\* The rewards on file are always those of the signers handled, and nothing for
\* the rest (the loop of processCheckpointEvent).
THEOREM RewardsAreComputed == Spec => []IInv
BY InitIInv, NextIInv, PTL DEF Spec

\* However many validators are handled, the checkpoint never pays more than it
\* was rewarded with: the roundings only lose (processCheckpointEvent).
THEOREM NeverOverpaidHolds == Spec => []NeverOverpaid
BY RewardsAreComputed, InvNeverOverpaid, PTL

\* With all handled and the proposer among the signers, less than a unit per
\* signer and a unit per RewardPrecision of their stake is lost.
THEOREM DustIsBounded == Spec => []DustBounded
BY RewardsAreComputed, InvDustBounded, PTL

\* The monitored delegators earn at most what the delegators of the validator
\* got, and all but a bounded rest of it when they hold every share.
THEOREM DelegatorsEarnTheirPartHolds == Spec => []DelegatorsEarnTheirPart
BY RewardsAreComputed, InvDelegatorsEarnTheirPart, PTL
=============================================================================
