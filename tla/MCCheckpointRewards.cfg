CONSTANTS
    Nobody = Nobody
    Validators = {v1, v2}
    Amounts = {1, 2}
    DelegatedAmounts = {0, 3}
    CommissionRates = {0, 50}
    TotalRewards = {7, 50}
    ProposerBonus = 10
    TotalShares = 3
    HeldShares = {0, 2, 3}
    RewardPrecision = 10
SPECIFICATION Spec
INVARIANTS NeverOverpaid DustBounded DelegatorsEarnTheirPart
CHECK_DEADLOCK FALSE
