\* Two accounts, each of which may own, guard and deposit; the native coin; two
\* epochs.
SPECIFICATION Spec
SYMMETRY AccountSymmetry
CONSTANTS
    Accounts = {alice, bob}
    NoOne = NoOne
    Native = native
    Tokens = {}
    Exact = {}
    EpochDuration = 1
    Amounts = {1, 2}
    LimitValues = {1, 2}
    MaxTime = 2
    MaxVault = 1
INVARIANTS
    TypeOK
    OfferFromOwner
    BooksAgree
    ViewsAgree
PROPERTIES
    EpochLimit
