\* Proposals naming up to two accounts in any spelling, and every small transaction.
SPECIFICATION Spec
CONSTANTS
    alice = alice
    bob = bob
    Accounts <- MCAccounts
    Nobody = Nobody
    Txs <- MCTxs
    GenesisForms = {"lower"}
    MaxEntries = 2
    MaxPool = 1
INVARIANTS
    TypeOK
    ListMatches
    NoneSanctionedActs
    CleanAdmitted
