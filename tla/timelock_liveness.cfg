\* Two proposals under fair block production: every scheduled one is settled,
\* and every vote that ends within MaxTime concludes, though messages change the
\* voting period. The delay is below the minimum, as a test network's genesis.
SPECIFICATION FairSpec
CONSTANTS
    MaxId = 2
    Faulty = {1}
    DepositPeriod = 1
    ExpeditedPeriod = 1
    VotingPeriods <- MCVotingPeriods
    MinimumDelay = 2
    GenesisDelays = {1}
    GenesisHeights <- MCGenesisHeights
    NumMsgs = 1
    Gaps <- MCGaps
    MaxTime = 4
    MaxHeight = 2
PROPERTIES
    ImplementsPromise
    VoteConcludes
