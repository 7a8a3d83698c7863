\* Two packets for one account, one below the least amount, rewards of two kinds from two
\* validators, whom nothing tells apart. When all packets are settled and nobody's rewards
\* go to himself, nothing is left to do.
SPECIFICATION Spec
CONSTANTS
    alice = alice
    bob = bob
    wrapped = wrapped
    plain = plain
    Accounts = {alice, bob}
    Validators = {v1, v2}
    Denoms = {wrapped, plain}
    Pairs = {wrapped, plain}
    NativeERC20 = {wrapped}
    Wrappers = {wrapped}
    MinWithdraw = 2
    MaxVals = 2
    Packets <- MCPackets
    Holdings = {0}
    RewardAmounts = {3}
    ChangeBound = 2
SYMMETRY Symmetry
CHECK_DEADLOCK FALSE
INVARIANTS
    TypeOK
    NothingCreated
PROPERTIES
    ClaimExact
    ReceiveExact
    ImplementsSettlement
