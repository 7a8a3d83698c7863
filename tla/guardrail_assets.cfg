\* One account with every role; the native coin, a token that moves what it says
\* and one that may keep a part; transfers that call back, fail, or are undone.
SPECIFICATION Spec
CONSTANTS
    Accounts = {alice}
    NoOne = NoOne
    Native = native
    Tokens = {plain, taxed}
    Exact = {plain}
    EpochDuration = 1
    Amounts = {1}
    LimitValues = {1, 2}
    MaxTime = 1
    MaxVault = 0
INVARIANTS
    Solvent
    BooksAgree
PROPERTIES
    EpochLimit
