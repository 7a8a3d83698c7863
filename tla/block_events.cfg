\* Three blocks of different sizes, commands on several lists of them.
SPECIFICATION Spec
CONSTANTS
    Heights = {1, 2, 3}
    NumTxs <- MCNumTxs
    ArgLists <- MCArgLists
INVARIANTS
    TypeOK
    Whole
    Recoverable
PROPERTIES
    ReportsExact
