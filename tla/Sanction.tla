-------------------------------- MODULE Sanction --------------------------------
(***************************************************************************)
(* x/sanction and the decorators of app/ante that consult it: a list of      *)
(* accounts, changed by the governance authority's messages, and the check   *)
(* that every transaction passes when it enters the mempool and again when   *)
(* it is executed.                                                          *)
(*                                                                         *)
(* The store holds strings. An address has a canonical string - lower-case   *)
(* bech32 - and others that decode to it; strings that decode to nothing     *)
(* are "bad".                                                               *)
(***************************************************************************)
EXTENDS Integers, Sequences, FiniteSets, Functions

CONSTANTS
    Accounts,
    Nobody,         \* no fee granter
    Txs,            \* the transactions that may be sent
    GenesisForms,   \* how a genesis file writes the accounts it lists
    MaxEntries,     \* bound: accounts named by the messages of one proposal
    MaxPool         \* bound: transactions in the mempool

Form == {"lower", "upper", "hex", "bad"}
Spelling == [account : Accounts, form : Form]
Canonical(a) == [account |-> a, form |-> "lower"]

\* types.GenesisState.Validate decodes bech32, which may be all upper case.
ValidInGenesis == {"lower", "upper"}

\* A message inside a MsgExec; `within` are the accounts a nested MsgExec acts for.
Inner == {m \in [nested : BOOLEAN, signers : Seq(Accounts), within : SUBSET Accounts] :
              m.nested \/ m.within = {}}

Tx == [route : {"cosmos", "evm"},
       signers : SUBSET Accounts,              \* of the transaction, or `from`
       granter : Accounts \cup {Nobody},       \* of the fee
       execs : Seq(Seq(Inner)),                \* its MsgExecs
       signedFor : {"chain", "evmChain", "other"}]

ASSUME SanctionAssumption ==
    /\ Nobody \notin Accounts
    /\ Txs \subseteq Tx
    /\ \A tx \in Txs : tx.route = "evm" => tx.granter = Nobody /\ tx.execs = <<>>
    /\ GenesisForms \subseteq ValidInGenesis
    /\ MaxEntries \in Nat
    /\ MaxPool \in Nat

VARIABLES
    blacklist,    \* Keeper.BlacklistAccounts
    proposal,     \* the messages under execution, or NoProposal
    pool,         \* transactions that passed CheckTx
    sanctioned,   \* history: the accounts the passed proposals leave sanctioned
    ran           \* history: the transaction this step executed, or NoTx

vars == <<blacklist, proposal, pool, sanctioned, ran>>

NoProposal == [next |-> 0]
NoTx == [route |-> "none"]

\* What InitGenesis stores: the entries as they are written.
Init ==
    /\ blacklist \in SUBSET [account : Accounts, form : GenesisForms]
    /\ proposal = NoProposal
    /\ pool = {}
    /\ sanctioned = {s.account : s \in blacklist}
    /\ ran = NoTx

-------------------------------------------------------------------------------
(* Messages *)

Entry == [op : {"add", "remove"}, account : Spelling]

Valid(s) == s.form # "bad"

normalizeAddress(s) == Canonical(s.account)

\* The messages of a proposal that passed, one after the other in a context of
\* their own. `entries` are the accounts they name, in order.
Propose(entries) ==
    /\ proposal = NoProposal
    /\ proposal' = [next |-> 1, entries |-> entries, draft |-> blacklist]
    /\ ran' = NoTx
    /\ UNCHANGED <<blacklist, pool, sanctioned>>

Entering == proposal # NoProposal /\ proposal.next <= Len(proposal.entries)
Named == proposal.entries[proposal.next]
Listed == normalizeAddress(Named.account) \in proposal.draft

Accepts == Valid(Named.account) /\ (Named.op = "add" <=> ~Listed)

\* Mutant: the address is stored instead of its string.
ApplyAddress ==
    /\ Entering
    /\ Accepts
    /\ proposal' = [proposal EXCEPT
           !.next = @ + 1,
           !.draft = IF Named.op = "add" THEN @ \cup {Named.account.account}
                                         ELSE @ \ {normalizeAddress(Named.account)}]
    /\ ran' = NoTx
    /\ UNCHANGED <<blacklist, pool, sanctioned>>

\* One turn of the loop in AddToBlacklist or RemoveFromBlacklist.
Apply ==
    /\ Entering
    /\ Accepts
    /\ proposal' = [proposal EXCEPT
           !.next = @ + 1,
           !.draft = IF Named.op = "add" THEN @ \cup {normalizeAddress(Named.account)}
                                         ELSE @ \ {normalizeAddress(Named.account)}]
    /\ ran' = NoTx
    /\ UNCHANGED <<blacklist, pool, sanctioned>>

\* Mutant: an account that is refused is left out of the message.
Skip ==
    /\ Entering
    /\ ~Accepts
    /\ proposal' = [proposal EXCEPT !.next = @ + 1]
    /\ ran' = NoTx
    /\ UNCHANGED <<blacklist, pool, sanctioned>>

\* A refused account fails its message, and with it the proposal: the context is
\* dropped with all that was written to it.
Abort ==
    /\ Entering
    /\ ~Accepts
    /\ proposal' = NoProposal
    /\ ran' = NoTx
    /\ UNCHANGED <<blacklist, pool, sanctioned>>

\* An account is sanctioned after the first n entries if the last of them that
\* names it adds it, or if none names it and it was before.
After(entries, n, before) ==
    {a \in Accounts :
        \/ \E i \in 1..n : /\ entries[i].account.account = a
                           /\ entries[i].op = "add"
                           /\ \A j \in (i + 1)..n : entries[j].account.account # a
        \/ a \in before /\ \A i \in 1..n : entries[i].account.account # a}

Commit ==
    /\ proposal # NoProposal
    /\ proposal.next > Len(proposal.entries)
    /\ blacklist' = proposal.draft
    /\ sanctioned' = After(proposal.entries, Len(proposal.entries), sanctioned)
    /\ proposal' = NoProposal
    /\ ran' = NoTx
    /\ UNCHANGED pool

-------------------------------------------------------------------------------
(* The check *)

IsListed(a) == Canonical(a) \in blacklist

\* At most one MsgExec, and none inside it.
Plain(tx) == Len(tx.execs) <= 1 /\ \A e \in Range(tx.execs) : \A m \in Range(e) : ~m.nested

\* BlacklistCheckDecorator: every signer, the fee granter, and the first signer of
\* each message of a MsgExec; EVMBlacklistCheckDecorator: `from`.
Clear(tx) ==
    /\ \A a \in tx.signers : ~IsListed(a)
    /\ tx.route = "cosmos" =>
        /\ tx.granter # Nobody => ~IsListed(tx.granter)
        /\ Plain(tx)
        /\ \A e \in Range(tx.execs) : \A m \in Range(e) :
               m.signers # <<>> => ~IsListed(m.signers[1])

\* Mutant: the second chain id is not tried.
VerifiesOnce(tx) == tx.signedFor = "chain"

\* MultiChainIDDecorator: the chain's own id, then its EVM form.
Verifies(tx) == tx.signedFor = "chain" \/ tx.signedFor = "evmChain"

AnteHandle(tx) == Clear(tx) /\ (tx.route = "cosmos" => Verifies(tx))

CheckTx(tx) ==
    /\ AnteHandle(tx)
    /\ Cardinality(pool) < MaxPool
    /\ pool' = pool \cup {tx}
    /\ ran' = NoTx
    /\ UNCHANGED <<blacklist, proposal, sanctioned>>

\* Mutant: what is in the mempool was checked already.
ExecuteChecked(tx) ==
    /\ proposal = NoProposal
    /\ pool' = pool \ {tx}
    /\ ran' = tx
    /\ UNCHANGED <<blacklist, proposal, sanctioned>>

\* A block executes a transaction of the mempool, on the list as it is by then.
\* Transactions come before the proposals of their block.
Execute(tx) ==
    /\ proposal = NoProposal
    /\ AnteHandle(tx)
    /\ pool' = pool \ {tx}
    /\ ran' = tx
    /\ UNCHANGED <<blacklist, proposal, sanctioned>>

\* It fails the check by then, expires or is evicted.
Drop(tx) ==
    /\ pool' = pool \ {tx}
    /\ ran' = NoTx
    /\ UNCHANGED <<blacklist, proposal, sanctioned>>

\* ExportGenesis and InitGenesis on a new chain: the strings are kept.
ExportImport ==
    /\ proposal = NoProposal
    /\ \A s \in blacklist : s.form \in ValidInGenesis
    /\ pool' = {}
    /\ ran' = NoTx
    /\ UNCHANGED <<blacklist, proposal, sanctioned>>

Next ==
    \/ \E n \in 1..MaxEntries : \E entries \in [1..n -> Entry] : Propose(entries)
    \/ Apply \/ Abort \/ Commit
    \/ \E tx \in Txs : CheckTx(tx)
    \/ \E tx \in pool : Execute(tx) \/ Drop(tx)
    \/ ExportImport

Spec == Init /\ [][Next]_vars

-------------------------------------------------------------------------------
(* Properties *)

Proposal == [next : Nat \ {0}, entries : Seq(Entry), draft : SUBSET Spelling]

TypeOK ==
    /\ blacklist \in SUBSET Spelling
    /\ proposal \in Proposal \cup {NoProposal}
    /\ pool \in SUBSET Txs
    /\ sanctioned \in SUBSET Accounts
    /\ ran \in Txs \cup {NoTx}

\* The store holds exactly the strings the check looks up, for exactly the
\* accounts the passed proposals leave sanctioned: each proposal counts as a
\* whole or not at all, however it spells the accounts and in whatever order it
\* names them, and every entry can be found and removed again.
ListMatches == blacklist = {Canonical(a) : a \in sanctioned}

\* x/authz executes a message that has exactly one signer, and all or none.
AuthzRuns(tx) == \A e \in Range(tx.execs) : \A m \in Range(e) : Len(m.signers) = 1

\* The accounts a transaction acts for: it signs, pays, or is acted for.
ActsFor(tx) ==
    tx.signers \cup (IF tx.granter = Nobody THEN {} ELSE {tx.granter})
    \cup IF AuthzRuns(tx)
         THEN UNION {UNION {Range(m.signers) \cup m.within : m \in Range(e)} : e \in Range(tx.execs)}
         ELSE {}

\* No transaction is executed that acts for an account sanctioned by then, even
\* if it passed the check before the account was: "sanctioned addresses cannot
\* transact".
NoneSanctionedActs == ran # NoTx => ActsFor(ran) \cap sanctioned = {}

\* Nobody else is refused: a transaction of one MsgExec at most, none nested,
\* signed for either chain id, passes if it names no sanctioned account - as soon
\* as an account is removed, however it was spelled.
CleanAdmitted ==
    \A tx \in Txs :
        /\ Plain(tx)
        /\ tx.signedFor # "other"
        /\ tx.signers \cap sanctioned = {}
        /\ tx.granter \notin sanctioned
        /\ \A e \in Range(tx.execs) : \A m \in Range(e) : Range(m.signers) \cap sanctioned = {}
        => AnteHandle(tx)
================================================================================
