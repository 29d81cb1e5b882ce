-------------------------- MODULE CheckpointRewards --------------------------
(***************************************************************************)
(* The duties and rewards of one checkpoint, as processCheckpointEvent     *)
(* derives them from what it read from the contracts.  All amounts are     *)
(* integers and every division rounds down, so the parts of a reward never *)
(* quite add up to it: the questions are whether they can exceed it, and   *)
(* how much of it can be lost.  The code handles the active set in the     *)
(* order of stakes, which no amount depends on: any order here, and the    *)
(* flags of a duty (isTop, isTracked) are left out.  The shares that the   *)
(* monitored delegators hold are read within the loop, and a call that     *)
(* fails there gives the whole checkpoint up.                              *)
(***************************************************************************)
EXTENDS Integers, FiniteSets, Functions

CONSTANTS
    Validators,         \* the active set at the block of the checkpoint
    Nobody,             \* a proposer or a signer outside of the active set
    Amounts,            \* what a validator may stake of its own
    DelegatedAmounts,   \* what may be delegated to it
    CommissionRates,    \* its commission, in percent
    TotalRewards,       \* rewards a checkpoint may come with
    ProposerBonus,      \* stakeManager.proposerBonus, in percent
    TotalShares,        \* totalSupply of the share token of a validator
    HeldShares,         \* shares that the monitored DELEGATORS may hold of it
    RewardPrecision     \* REWARD_PRECISION

\* A validator of the active set has a stake of its own (isValidator).
ASSUME RewardsAssumption ==
    /\ IsFiniteSet(Validators) /\ Nobody \notin Validators
    /\ Amounts \subseteq Nat \ {0} /\ DelegatedAmounts \subseteq Nat
    /\ CommissionRates \subseteq 0 .. 100
    /\ TotalRewards \subseteq Nat
    /\ ProposerBonus \in 0 .. 100
    /\ TotalShares \in Nat \ {0} /\ HeldShares \subseteq 0 .. TotalShares
    /\ RewardPrecision \in Nat \ {0}

VARIABLES
    amount, delegatedAmount, commissionRate,   \* of each validator
    shares,        \* shares of each validator the monitored delegators hold
    committed,     \* who signed
    proposer,      \* who proposed the checkpoint
    totalReward,   \* the reward of the checkpoint
    todo,          \* validators the loop has not handled yet
    own, delegators, earned,   \* the rewards of each validator
    failed         \* processing threw: there is no checkpoint to store

inputs  == <<amount, delegatedAmount, commissionRate, shares, committed,
             proposer, totalReward>>
rewards == <<own, delegators, earned>>
vars    == <<inputs, todo, rewards, failed>>

Nothing == [v \in Validators |-> 0]

TotalStake(v) == amount[v] + delegatedAmount[v]

StakeOf(S) == SumFunctionOnSet([v \in Validators |-> TotalStake(v)], S)

\* Faulty variant: the stake of the whole active set.
StakeOfAll == StakeOf(Validators)

\* Signers outside of the active set do not count.
StakeOfSigners == StakeOf(Validators \cap committed)

ProposerReward == (totalReward * ProposerBonus) \div 100

\* Faulty variant: the bonus of the proposer is not set aside.
RewardPerStakeOfAll == (totalReward * RewardPrecision) \div StakeOfSigners

RewardPerStake ==
    ((totalReward - ProposerReward) * RewardPrecision) \div StakeOfSigners

RewardsOnTotalStake(v) ==
    (TotalStake(v) * RewardPerStake) \div RewardPrecision

RewardsOnOwnStake(v) ==
    (RewardsOnTotalStake(v) * amount[v]) \div TotalStake(v)

CommissionedRewards(v) ==
    ((RewardsOnTotalStake(v) - RewardsOnOwnStake(v)) * commissionRate[v]) \div 100

DelegatorsReward(v) ==
    RewardsOnTotalStake(v) - (RewardsOnOwnStake(v) + CommissionedRewards(v))

OwnReward(v) ==
    (IF v = proposer THEN ProposerReward ELSE 0)
        + RewardsOnOwnStake(v) + CommissionedRewards(v)

\* Faulty variant: the reward per share is rounded without the precision.
EarnedInUnits(v) == shares[v] * (DelegatorsReward(v) \div TotalShares)

\* What the monitored delegators get of the reward of all delegators.
EarnedReward(v) ==
    (shares[v] * ((DelegatorsReward(v) * RewardPrecision) \div TotalShares))
        \div RewardPrecision

Init ==
    /\ amount \in [Validators -> Amounts]
    /\ delegatedAmount \in [Validators -> DelegatedAmounts]
    /\ commissionRate \in [Validators -> CommissionRates]
    /\ shares \in [Validators -> HeldShares]
    /\ committed \in SUBSET (Validators \cup {Nobody})
    /\ proposer \in Validators \cup {Nobody}
    /\ totalReward \in TotalRewards
    /\ todo = Validators
    /\ own = Nothing /\ delegators = Nothing /\ earned = Nothing
    /\ failed = FALSE

\* No validator of the active set signed: the division by their stake throws.
NoSigners ==
    /\ ~failed
    /\ StakeOfSigners = 0
    /\ failed' = TRUE
    /\ UNCHANGED <<inputs, todo, rewards>>

\* The body of the loop over the active set.
HandleValidator(v) ==
    /\ ~failed
    /\ StakeOfSigners # 0
    /\ v \in todo
    /\ todo' = todo \ {v}
    /\ IF v \in committed
       THEN /\ own' = [own EXCEPT ![v] = OwnReward(v)]
            /\ delegators' = [delegators EXCEPT ![v] = DelegatorsReward(v)]
            /\ earned' = [earned EXCEPT ![v] = EarnedReward(v)]
       ELSE UNCHANGED rewards
    /\ UNCHANGED <<inputs, failed>>

\* Reading the shares that the delegators hold of a signer fails.
SharesUnread(v) ==
    /\ ~failed
    /\ StakeOfSigners # 0
    /\ v \in todo \cap committed
    /\ failed' = TRUE
    /\ UNCHANGED <<inputs, todo, rewards>>

Next ==
    \/ NoSigners
    \/ \E v \in Validators : HandleValidator(v) \/ SharesUnread(v)

Spec == Init /\ [][Next]_vars

-----------------------------------------------------------------------------
(* Properties.                                                             *)

Paid == SumFunction([v \in Validators |-> own[v] + delegators[v]])

\* However many validators are handled already, what they and their delegators
\* got is no more than the reward of the checkpoint (processCheckpointEvent).
NeverOverpaid == Paid <= totalReward

\* With all handled and the proposer among the signers, the roundings lost less
\* than a unit per signer and a unit per RewardPrecision of their stake.
DustBounded ==
    todo = {} /\ proposer \in committed \cap Validators =>
        (totalReward - Paid - Cardinality(Validators \cap committed)) * RewardPrecision
            < StakeOfSigners

\* The monitored delegators never earn more than all the delegators of their
\* validator, and when they hold all the shares they lose less than one unit and
\* one per RewardPrecision of shares.
DelegatorsEarnTheirPart ==
    \A v \in Validators :
        /\ earned[v] <= delegators[v]
        /\ shares[v] = TotalShares =>
              (delegators[v] - earned[v] - 1) * RewardPrecision < TotalShares
=============================================================================
