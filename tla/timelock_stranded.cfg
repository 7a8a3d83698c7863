\* What docs/proof/gov-timelock.md says InitGenesis refuses.
SPECIFICATION Spec
CONSTANTS
    MaxId = 1
    Faulty = {}
    DepositPeriod = 1
    ExpeditedPeriod = 1
    VotingPeriods = {2}
    MinimumDelay = 2
    GenesisDelays <- MCGenesisDelays
    GenesisHeights = {1}
    NumMsgs = 1
    Gaps = {1}
    MaxTime = 8
    MaxHeight = 2
INVARIANTS
    StrandedRefused
