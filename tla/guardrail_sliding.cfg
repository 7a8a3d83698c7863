\* Limits that stay as they are, epochs of two time units: deposits on both
\* sides of an epoch boundary.
SPECIFICATION SlidingSpec
CONSTANTS
    Accounts = {alice}
    NoOne = NoOne
    Native = native
    Tokens = {}
    Exact = {}
    EpochDuration = 2
    Amounts = {1, 2}
    LimitValues = {2, 4}
    MaxTime = 5
    MaxVault = 0
INVARIANTS
    SlidingWindow
