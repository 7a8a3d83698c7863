----------------------------- MODULE SanctionProofs -----------------------------
(***************************************************************************)
(* Proofs about Sanction: type correctness for every genesis file, and, for *)
(* genesis files in the canonical spelling, that the list is what the       *)
(* passed proposals say, that no sanctioned account acts and that nobody    *)
(* else is refused.                                                        *)
(***************************************************************************)
EXTENDS Sanction, TLAPS

-------------------------------------------------------------------------------
(* Types *)

\* Only records of the type Proposal are proposals under execution.
LEMMA ProposalType ==
    /\ TypeOK /\ proposal # NoProposal => proposal \in Proposal
    /\ NoProposal \notin Proposal
BY DEF TypeOK, Proposal, NoProposal

\* No transaction is the mark for none.
LEMMA TxType == NoTx \notin Txs
BY SanctionAssumption DEF Tx, NoTx

LEMMA CanonicalType == \A a \in Accounts : Canonical(a) \in Spelling
BY DEF Canonical, Spelling, Form

LEMMA NormalizeType == \A s \in Spelling : normalizeAddress(s) \in Spelling
BY CanonicalType DEF normalizeAddress, Spelling

\* The entry the loop is at.
LEMMA NamedType ==
    TypeOK /\ Entering => /\ proposal \in Proposal
                          /\ proposal.next \in Nat
                          /\ Named \in Entry
                          /\ Named.account \in Spelling
<1> SUFFICES ASSUME TypeOK, Entering
             PROVE  /\ proposal \in Proposal
                    /\ proposal.next \in Nat
                    /\ Named \in Entry
                    /\ Named.account \in Spelling
    OBVIOUS
<1>1. proposal \in Proposal
    BY ProposalType DEF Entering
<1>2. proposal.next \in Nat \ {0} /\ proposal.entries \in Seq(Entry)
    BY <1>1 DEF Proposal
<1>3. proposal.next \in 1..Len(proposal.entries)
    BY <1>2 DEF Entering
<1>4. Named \in Entry
    BY <1>2, <1>3 DEF Named
<1> QED
    BY <1>1, <1>2, <1>4 DEF Entry

LEMMA AfterType == \A entries, n, before : After(entries, n, before) \subseteq Accounts
BY DEF After

\* The first state and every step keep the types.
LEMMA InitType == Init => TypeOK
BY SanctionAssumption DEF Init, TypeOK, Spelling, Form, ValidInGenesis

LEMMA StepType == TypeOK /\ [Next]_vars => TypeOK'
<1> SUFFICES ASSUME TypeOK, [Next]_vars
             PROVE  TypeOK'
    OBVIOUS
<1>1. ASSUME NEW n \in 1..MaxEntries, NEW entries \in [1..n -> Entry], Propose(entries)
      PROVE  TypeOK'
    <2>1. entries \in Seq(Entry)
        BY <1>1, SanctionAssumption
    <2>2. proposal' \in Proposal
        BY <1>1, <2>1 DEF Propose, Proposal, TypeOK
    <2> QED
        BY <1>1, <2>2 DEF Propose, TypeOK
<1>2. CASE Apply
    <2>1. proposal \in Proposal /\ Named \in Entry /\ Named.account \in Spelling
        BY <1>2, NamedType DEF Apply
    <2>2. normalizeAddress(Named.account) \in Spelling
        BY <2>1, NormalizeType
    <2> DEFINE d == IF Named.op = "add" THEN proposal.draft \cup {normalizeAddress(Named.account)}
                                        ELSE proposal.draft \ {normalizeAddress(Named.account)}
    <2>3. d \in SUBSET Spelling
        BY <2>1, <2>2 DEF Proposal
    <2>4. proposal' = [proposal EXCEPT !.next = @ + 1, !.draft = d]
        BY <1>2 DEF Apply
    <2> HIDE DEF d
    <2>5. /\ proposal = [next |-> proposal.next, entries |-> proposal.entries,
                          draft |-> proposal.draft]
          /\ proposal.next \in Nat \ {0}
          /\ proposal.entries \in Seq(Entry)
        BY <2>1 DEF Proposal
    <2>6. proposal' = [next |-> proposal.next + 1, entries |-> proposal.entries, draft |-> d]
        BY <2>4, <2>5
    <2>7. proposal' \in Proposal
        BY <2>3, <2>5, <2>6 DEF Proposal
    <2> QED
        BY <1>2, <2>7 DEF Apply, TypeOK
<1>3. CASE Abort
    BY <1>3 DEF Abort, TypeOK
<1>4. CASE Commit
    <2>1. proposal \in Proposal
        BY <1>4, ProposalType DEF Commit
    <2>2. blacklist' \in SUBSET Spelling
        BY <1>4, <2>1 DEF Commit, Proposal
    <2> QED
        BY <1>4, <2>2, AfterType DEF Commit, TypeOK
<1>5. ASSUME NEW tx \in Txs, CheckTx(tx)
      PROVE  TypeOK'
    BY <1>5 DEF CheckTx, TypeOK
<1>6. ASSUME NEW tx \in pool, Execute(tx)
      PROVE  TypeOK'
    BY <1>6 DEF Execute, TypeOK
<1>7. ASSUME NEW tx \in pool, Drop(tx)
      PROVE  TypeOK'
    BY <1>7 DEF Drop, TypeOK
<1>8. CASE ExportImport
    BY <1>8 DEF ExportImport, TypeOK
<1>9. CASE UNCHANGED vars
    BY <1>9 DEF vars, TypeOK
<1> QED
    BY <1>1, <1>2, <1>3, <1>4, <1>5, <1>6, <1>7, <1>8, <1>9 DEF Next

\* The stores and the proposal under execution keep their types: the list never
\* holds anything but strings, whatever the messages name.
THEOREM SanctionTypeCorrect == Spec => []TypeOK
BY InitType, StepType, PTL DEF Spec

-------------------------------------------------------------------------------
(* The loop over the accounts of a proposal *)

\* What a list of accounts looks like in the store.
Strings(S) == {Canonical(a) : a \in S}

LEMMA CanonicalInjective == \A a, b : Canonical(a) = Canonical(b) => a = b
BY DEF Canonical

\* Nothing is changed by no entries.
LEMMA AfterNone ==
    ASSUME NEW entries, NEW before \in SUBSET Accounts
    PROVE  After(entries, 0, before) = before
<1>1. 1..0 = {}
    OBVIOUS
<1> QED
    BY <1>1 DEF After

\* One more entry changes the account that it names, and no other.
LEMMA AfterOneMore ==
    ASSUME NEW entries \in Seq(Entry), NEW before \in SUBSET Accounts,
           NEW k \in 1..Len(entries)
    PROVE  After(entries, k, before) =
               IF entries[k].op = "add"
               THEN After(entries, k - 1, before) \cup {entries[k].account.account}
               ELSE After(entries, k - 1, before) \ {entries[k].account.account}
<1> DEFINE acc(i) == entries[i].account.account
           c == acc(k)
<1>1. c \in Accounts
    <2>1. entries[k] \in Entry
        OBVIOUS
    <2>2. entries[k].account \in Spelling
        BY <2>1 DEF Entry
    <2> QED
        BY <2>2 DEF Spelling
<1>2. k \in Nat /\ k >= 1
    OBVIOUS
<1>3. ASSUME NEW a \in Accounts, a # c
      PROVE  a \in After(entries, k, before) <=> a \in After(entries, k - 1, before)
    <2>1. (\A i \in 1..k : acc(i) # a) <=> (\A i \in 1..(k - 1) : acc(i) # a)
        BY <1>2, <1>3
    <2>2. \A i \in 1..(k - 1) :
              (\A j \in (i + 1)..k : acc(j) # a) <=> (\A j \in (i + 1)..(k - 1) : acc(j) # a)
        BY <1>2, <1>3
    <2>3. (\E i \in 1..k : /\ acc(i) = a
                           /\ entries[i].op = "add"
                           /\ \A j \in (i + 1)..k : acc(j) # a)
          <=> (\E i \in 1..(k - 1) : /\ acc(i) = a
                                     /\ entries[i].op = "add"
                                     /\ \A j \in (i + 1)..(k - 1) : acc(j) # a)
        BY <1>2, <1>3, <2>2
    <2> QED
        BY <2>1, <2>3 DEF After
<1>4. c \in After(entries, k, before) <=> entries[k].op = "add"
    <2>1. ~ \A i \in 1..k : acc(i) # c
        BY <1>2
    <2>2. ASSUME NEW i \in 1..k, acc(i) = c, \A j \in (i + 1)..k : acc(j) # c
          PROVE  i = k
        BY <1>2, <2>2
    <2>3. (k + 1)..k = {}
        BY <1>2
    <2> QED
        BY <1>1, <1>2, <2>1, <2>2, <2>3 DEF After
<1> QED
    BY <1>1, <1>3, <1>4, AfterType

-------------------------------------------------------------------------------
(* The list *)

\* A running proposal is at one of its entries or behind the last, and its copy of
\* the list is what the entries before that one make of it.
DraftInv ==
    proposal # NoProposal =>
        /\ proposal.next <= Len(proposal.entries) + 1
        /\ proposal.draft = Strings(After(proposal.entries, proposal.next - 1, sanctioned))

IInv == TypeOK /\ ListMatches /\ DraftInv

LEMMA InitIInv == GenesisForms = {"lower"} /\ Init => IInv
<1> SUFFICES ASSUME GenesisForms = {"lower"}, Init
             PROVE  IInv
    OBVIOUS
<1>1. TypeOK
    BY InitType
<1>2. ListMatches
    <2>1. ASSUME NEW s \in blacklist
          PROVE  s = Canonical(s.account) /\ s.account \in sanctioned
        BY <2>1 DEF Init, Canonical
    <2>2. ASSUME NEW a \in sanctioned
          PROVE  Canonical(a) \in blacklist
        <3>1. PICK s \in blacklist : a = s.account
            BY <2>2 DEF Init
        <3> QED
            BY <2>1, <3>1
    <2> QED
        BY <2>1, <2>2 DEF ListMatches
<1>3. DraftInv
    BY DEF Init, DraftInv
<1> QED
    BY <1>1, <1>2, <1>3 DEF IInv

\* One turn of the loop does to the copy what the entry does to the accounts.
LEMMA DraftStep ==
    ASSUME NEW S \in SUBSET Accounts, NEW c \in Accounts
    PROVE  /\ Strings(S) \cup {Canonical(c)} = Strings(S \cup {c})
           /\ Strings(S) \ {Canonical(c)} = Strings(S \ {c})
<1>1. Strings(S) \cup {Canonical(c)} = Strings(S \cup {c})
    BY DEF Strings
<1>2. Strings(S) \ {Canonical(c)} = Strings(S \ {c})
    BY CanonicalInjective DEF Strings
<1> QED
    BY <1>1, <1>2

LEMMA StepIInv == IInv /\ [Next]_vars => IInv'
<1> SUFFICES ASSUME IInv, [Next]_vars
             PROVE  IInv'
    OBVIOUS
<1> USE DEF IInv
<1>0. TypeOK'
    BY StepType
<1>1. ASSUME NEW n \in 1..MaxEntries, NEW entries \in [1..n -> Entry], Propose(entries)
      PROVE  (ListMatches /\ DraftInv)'
    <2>1. sanctioned \in SUBSET Accounts
        BY DEF TypeOK
    <2>2. After(entries, 0, sanctioned) = sanctioned
        BY <2>1, AfterNone
    <2>3. entries \in Seq(Entry) /\ Len(entries) = n /\ n \in Nat
        BY SanctionAssumption
    <2>4. proposal' = [next |-> 1, entries |-> entries, draft |-> blacklist]
        BY <1>1 DEF Propose
    <2>5. /\ proposal'.next = 1
          /\ proposal'.entries = entries
          /\ proposal'.draft = blacklist
          /\ sanctioned' = sanctioned
        BY <1>1, <2>4 DEF Propose
    <2>6. DraftInv'
        BY <2>2, <2>3, <2>5 DEF DraftInv, ListMatches, Strings
    <2> QED
        BY <1>1, <2>6 DEF Propose, ListMatches
<1>2. ASSUME Apply
      PROVE  (ListMatches /\ DraftInv)'
    <2>1. /\ proposal \in Proposal
          /\ proposal.next \in Nat
          /\ Named \in Entry
          /\ Named.account \in Spelling
        BY <1>2, NamedType DEF Apply
    <2> DEFINE k == proposal.next
               es == proposal.entries
               c == Named.account.account
               S == After(es, k - 1, sanctioned)
    <2>2. /\ es \in Seq(Entry)
          /\ k \in 1..Len(es)
          /\ sanctioned \in SUBSET Accounts
          /\ c \in Accounts
        BY <1>2, <2>1 DEF Apply, Entering, Proposal, Spelling, TypeOK
    <2>3. proposal.draft = Strings(S) /\ S \in SUBSET Accounts
        BY <1>2, AfterType DEF Apply, Entering, DraftInv
    <2>4. After(es, k, sanctioned) = IF Named.op = "add" THEN S \cup {c} ELSE S \ {c}
        BY <2>2, AfterOneMore DEF Named
    <2>5. /\ proposal'.next = k + 1
          /\ proposal'.entries = es
          /\ proposal'.draft = IF Named.op = "add" THEN proposal.draft \cup {Canonical(c)}
                                                   ELSE proposal.draft \ {Canonical(c)}
          /\ sanctioned' = sanctioned
          /\ blacklist' = blacklist
        BY <1>2, <2>1 DEF Apply, Proposal, normalizeAddress
    <2>6. proposal'.draft = Strings(After(es, k, sanctioned))
        <3> HIDE DEF S, c, k, es
        <3>1. CASE Named.op = "add"
            <4>1. Strings(S) \cup {Canonical(c)} = Strings(S \cup {c})
                BY <2>2, <2>3, DraftStep
            <4> QED
                BY <2>3, <2>4, <2>5, <3>1, <4>1
        <3>2. CASE Named.op # "add"
            <4>1. Strings(S) \ {Canonical(c)} = Strings(S \ {c})
                BY <2>2, <2>3, DraftStep
            <4> QED
                BY <2>3, <2>4, <2>5, <3>2, <4>1
        <3> QED
            BY <3>1, <3>2
    <2>7. k + 1 <= Len(es) + 1 /\ (k + 1) - 1 = k
        BY <2>2
    <2>8. DraftInv'
        BY <2>5, <2>6, <2>7 DEF DraftInv
    <2> QED
        BY <2>5, <2>8 DEF ListMatches
<1>3. ASSUME Abort
      PROVE  (ListMatches /\ DraftInv)'
    BY <1>3 DEF Abort, ListMatches, DraftInv
<1>4. ASSUME Commit
      PROVE  (ListMatches /\ DraftInv)'
    <2>1. proposal \in Proposal
        BY <1>4, ProposalType DEF Commit
    <2>2. proposal.next \in Nat /\ proposal.entries \in Seq(Entry)
        BY <2>1 DEF Proposal
    <2>3. proposal.next - 1 = Len(proposal.entries)
        BY <1>4, <2>2 DEF Commit, DraftInv
    <2>4. blacklist' = Strings(sanctioned')
        BY <1>4, <2>3 DEF Commit, DraftInv
    <2>5. proposal' = NoProposal
        BY <1>4 DEF Commit
    <2> QED
        BY <2>4, <2>5 DEF ListMatches, Strings, DraftInv
<1>5. ASSUME NEW tx \in Txs, CheckTx(tx)
      PROVE  (ListMatches /\ DraftInv)'
    BY <1>5 DEF CheckTx, ListMatches, DraftInv
<1>6. ASSUME NEW tx \in pool, Execute(tx)
      PROVE  (ListMatches /\ DraftInv)'
    BY <1>6 DEF Execute, ListMatches, DraftInv
<1>7. ASSUME NEW tx \in pool, Drop(tx)
      PROVE  (ListMatches /\ DraftInv)'
    BY <1>7 DEF Drop, ListMatches, DraftInv
<1>8. ASSUME ExportImport
      PROVE  (ListMatches /\ DraftInv)'
    BY <1>8 DEF ExportImport, ListMatches, DraftInv
<1>9. ASSUME UNCHANGED vars
      PROVE  (ListMatches /\ DraftInv)'
    BY <1>9 DEF vars, ListMatches, DraftInv
<1> QED
    BY <1>0, <1>1, <1>2, <1>3, <1>4, <1>5, <1>6, <1>7, <1>8, <1>9 DEF Next

\* The list that decides is the one the passed proposals describe: a proposal that
\* is refused at any of its accounts leaves no trace of the earlier ones, and no
\* entry is in a spelling that the check and the removal would not find.
THEOREM ListMatchesProposals == GenesisForms = {"lower"} /\ Spec => []ListMatches
<1>1. IInv => ListMatches
    BY DEF IInv
<1> QED
    BY <1>1, InitIInv, StepIInv, PTL DEF Spec

-------------------------------------------------------------------------------
(* The check *)

\* With the list as it should be, an account is found exactly if it is sanctioned.
LEMMA Found == ListMatches => \A a \in Accounts : IsListed(a) <=> a \in sanctioned
BY CanonicalInjective DEF ListMatches, IsListed

\* What passes the check acts for no sanctioned account.
LEMMA ClearActsForNone ==
    TypeOK /\ ListMatches =>
        \A tx \in Txs : Clear(tx) => ActsFor(tx) \cap sanctioned = {}
<1> SUFFICES ASSUME TypeOK, ListMatches, NEW tx \in Txs, Clear(tx),
                    NEW a \in ActsFor(tx), a \in sanctioned
             PROVE  FALSE
    OBVIOUS
<1>1. tx \in Tx
    BY SanctionAssumption
<1>2. a \in Accounts /\ IsListed(a)
    BY Found DEF TypeOK
<1>3. tx.granter \in Accounts \cup {Nobody}
    BY <1>1 DEF Tx
<1>4. a \notin tx.signers
    BY <1>2 DEF Clear
<1>5. CASE tx.route = "evm"
    <2>1. tx.granter = Nobody /\ tx.execs = <<>>
        BY <1>5, SanctionAssumption
    <2>2. Range(tx.execs) = {}
        BY <2>1 DEF Range
    <2> QED
        BY <1>4, <2>1, <2>2 DEF ActsFor
<1>6. CASE tx.route = "cosmos"
    <2>1. tx.granter # Nobody => a # tx.granter
        BY <1>2, <1>6 DEF Clear
    <2>2. PICK e \in Range(tx.execs) : \E m \in Range(e) :
              AuthzRuns(tx) /\ a \in Range(m.signers) \cup m.within
        <3>1. a \in (IF AuthzRuns(tx)
                     THEN UNION {UNION {Range(m.signers) \cup m.within : m \in Range(e)}
                                 : e \in Range(tx.execs)}
                     ELSE {})
            BY <1>4, <2>1 DEF ActsFor
        <3> QED
            BY <3>1
    <2>0. PICK m \in Range(e) : AuthzRuns(tx) /\ a \in Range(m.signers) \cup m.within
        BY <2>2
    <2>3. m \in Inner
        <3>1. e \in Seq(Inner)
            BY <1>1 DEF Tx, Range
        <3> QED
            BY <3>1 DEF Range
    <2>4. m.within = {} /\ a \in Range(m.signers)
        BY <1>6, <2>0, <2>3 DEF Clear, Plain, Inner
    <2>5. Len(m.signers) = 1 /\ m.signers \in Seq(Accounts)
        BY <2>0, <2>3 DEF AuthzRuns, Inner
    <2>6. a = m.signers[1] /\ m.signers # <<>>
        BY <2>4, <2>5 DEF Range
    <2> QED
        BY <1>2, <1>6, <2>6 DEF Clear
<1> QED
    BY <1>1, <1>5, <1>6 DEF Tx

LEMMA StepActs == IInv /\ NoneSanctionedActs /\ [Next]_vars => NoneSanctionedActs'
<1> SUFFICES ASSUME IInv, NoneSanctionedActs, [Next]_vars
             PROVE  NoneSanctionedActs'
    OBVIOUS
<1>1. ASSUME NEW tx \in pool, Execute(tx)
      PROVE  NoneSanctionedActs'
    <2>1. tx \in Txs /\ Clear(tx)
        BY <1>1 DEF Execute, AnteHandle, IInv, TypeOK
    <2>2. ActsFor(tx) \cap sanctioned = {}
        BY <2>1, ClearActsForNone DEF IInv
    <2>3. ran' = tx /\ sanctioned' = sanctioned
        BY <1>1 DEF Execute
    <2>4. ActsFor(ran') \cap sanctioned' = {}
        BY <2>2, <2>3
    <2> QED
        BY <2>4 DEF NoneSanctionedActs
<1>2. CASE UNCHANGED vars
    BY <1>2 DEF vars, NoneSanctionedActs
<1>3. ASSUME ran' = NoTx
      PROVE  NoneSanctionedActs'
    BY <1>3 DEF NoneSanctionedActs
<1>4. CASE Next /\ ~ \E tx \in pool : Execute(tx)
    <2>1. ran' = NoTx
        BY <1>4 DEF Next, Propose, Apply, Abort, Commit, CheckTx, Drop, ExportImport
    <2> QED
        BY <1>3, <2>1
<1> QED
    BY <1>1, <1>2, <1>4

\* A transaction that passed the check before an account was sanctioned is checked
\* again when it is executed, so it never acts for the account; of a MsgExec the
\* first signers are enough, since x/authz runs no message with another.
THEOREM SanctionedNeverAct == GenesisForms = {"lower"} /\ Spec => []NoneSanctionedActs
<1>1. Init => NoneSanctionedActs
    BY DEF Init, NoneSanctionedActs
<1> QED
    BY <1>1, InitIInv, StepIInv, StepActs, PTL DEF Spec

\* Who has nothing to do with a sanctioned account is not refused, before, while and
\* after the list changes, and for either chain id.
THEOREM OthersAdmitted == GenesisForms = {"lower"} /\ Spec => []CleanAdmitted
<1>1. IInv => CleanAdmitted
    <2> SUFFICES ASSUME IInv, NEW tx \in Txs,
                        Plain(tx),
                        tx.signedFor # "other",
                        tx.signers \cap sanctioned = {},
                        tx.granter \notin sanctioned,
                        \A e \in Range(tx.execs) : \A m \in Range(e) :
                            Range(m.signers) \cap sanctioned = {}
                 PROVE  AnteHandle(tx)
        BY DEF CleanAdmitted
    <2>1. tx \in Tx
        BY SanctionAssumption
    <2>2. tx.signedFor = "chain" \/ tx.signedFor = "evmChain"
        BY <2>1 DEF Tx
    <2>3. \A a \in Accounts : IsListed(a) <=> a \in sanctioned
        BY Found DEF IInv
    <2>4. \A a \in tx.signers : ~IsListed(a)
        BY <2>1, <2>3 DEF Tx
    <2>5. tx.granter # Nobody => ~IsListed(tx.granter)
        BY <2>1, <2>3 DEF Tx
    <2>6. ASSUME NEW e \in Range(tx.execs), NEW m \in Range(e), m.signers # <<>>
          PROVE  ~IsListed(m.signers[1])
        <3>1. e \in Seq(Inner)
            BY <2>1 DEF Tx, Range
        <3>2. m \in Inner
            BY <3>1 DEF Range
        <3>3. m.signers \in Seq(Accounts)
            BY <3>2 DEF Inner
        <3>4. m.signers[1] \in Accounts /\ m.signers[1] \in Range(m.signers)
            BY <2>6, <3>3 DEF Range
        <3> QED
            BY <2>3, <3>4
    <2> QED
        BY <2>2, <2>4, <2>5, <2>6 DEF AnteHandle, Clear, Verifies
<1> QED
    BY <1>1, InitIInv, StepIInv, PTL DEF Spec
================================================================================
