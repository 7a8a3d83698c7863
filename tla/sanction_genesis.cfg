\* A genesis file with every spelling that its validation accepts.
SPECIFICATION Spec
CONSTANTS
    alice = alice
    bob = bob
    Accounts <- MCAccounts
    Nobody = Nobody
    Txs <- MCTxs
    GenesisForms = {"lower", "upper"}
    MaxEntries = 1
    MaxPool = 1
INVARIANTS
    NoneSanctionedActs
