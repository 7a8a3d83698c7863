\* Transactions may be executed after their request was given up.
SPECIFICATION SlowSpec
CONSTANTS
    Accounts = {alice}
    Cap = 1
    Day = 6
    Second = 2
    Polls = 1
    MaxTime = 8
INVARIANTS
    DailyCap
