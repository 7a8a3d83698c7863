\* Two proposals, one of which may be tampered with; every interleaving of
\* their votes, executions, upgrades, exports and forks within MaxTime.
SPECIFICATION Spec
CONSTANTS
    MaxId = 2
    Faulty = {1}
    DepositPeriod = 1
    ExpeditedPeriod = 1
    VotingPeriods <- MCVotingPeriods
    MinimumDelay = 2
    GenesisDelays <- MCGenesisDelays
    GenesisHeights <- MCGenesisHeights
    NumMsgs = 2
    Gaps <- MCGaps
    MaxTime = 5
    MaxHeight = 2
INVARIANTS
    TypeOK
    NoHalt
    AllOrNothing
    HookPerTally
    NothingOverdue
    FirstPassedFirstRun
    DepositsFollowVote
    NoneForgotten
    ExportAccepted
PROPERTIES
    NeverEarly
    ActiveForever
    ReleasedInOrder
