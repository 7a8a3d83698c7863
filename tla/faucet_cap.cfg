\* Two accounts that ask twice in a day against a cap of one, two ticks to a second.
SPECIFICATION FairSpec
CONSTANTS
    Accounts = {alice, bob}
    Cap = 1
    Day = 6
    Second = 2
    Polls = 2
    MaxTime = 8
INVARIANTS
    TypeOK
    CountsOnlyGrants
    CapUnlessLost
    RetryServed
PROPERTIES
    Answered
