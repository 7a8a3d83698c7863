------------------------- MODULE LaunchGuardrailProofs -------------------------
(***************************************************************************)
(* Theorems about LaunchGuardrail, for every set of accounts and tokens,    *)
(* every limit and amount, and every length of an epoch.                    *)
(***************************************************************************)
EXTENDS MCSlidingWindow, Sums, TLAPS

\* A call under way, and what its revert restores.
Frame ==
    [op : {"deposit", "withdraw"}, asset : Asset, amount : Nat,
     roles : Accounts \X (Accounts \cup {NoOne}) \X Accounts \X (Accounts \cup {NoOne}),
     paused : BOOLEAN,
     limits : Limits,
     books : [Asset -> Nat] \X [Account -> Window] \X [Account -> Nat],
     funds : [Asset -> Nat] \X [Asset -> Nat]]

\* The mutex is free exactly between calls, and what is under way is a deposit
\* of a token or a withdrawal.
FrameInv ==
    /\ unlocked <=> frame = Idle
    /\ frame # Idle => frame \in Frame
    /\ frame.op = "deposit" => frame.asset \in Tokens

\* Block time counted in epochs never goes back.
LEMMA EpochGrows ==
    ASSUME NEW t \in Nat
    PROVE  Epoch(t) \in Nat /\ Epoch(t + 1) \in Nat /\ Epoch(t) <= Epoch(t + 1)
<1> DEFINE d == EpochDuration
           q == t \div d
           r == (t + 1) \div d
<1>1. d \in Nat \ {0}
  BY NumbersAssumption
<1>2. q \in Nat /\ d * q <= t /\ t < d * q + d
  BY <1>1, SMTT(30)
<1>3. r \in Nat /\ d * r <= t + 1 /\ t + 1 < d * r + d
  BY <1>1, SMTT(30)
<1>4. q <= r
  BY <1>1, <1>2, <1>3, SMTT(30)
<1>5. QED
  BY <1>2, <1>3, <1>4 DEF Epoch

\* A call's record is told from Idle by its operation.
LEMMA HandOverFrame ==
    ASSUME TypeOK, NEW op \in {"deposit", "withdraw"}, NEW a \in Asset, NEW x \in Nat,
           HandOver(op, a, x), op = "deposit" => a \in Tokens
    PROVE  frame' # Idle /\ FrameInv' /\ unlocked' \in BOOLEAN
<1>1. frame'.op = op /\ frame'.asset = a /\ frame'.op # Idle.op
  BY DEF HandOver, Idle
<1>2. frame' \in Frame
  BY DEF HandOver, Frame, TypeOK, roles, books, funds
<1>3. QED
  BY <1>1, <1>2 DEF HandOver, FrameInv

\* What a deposit writes to the books keeps its type, and only grows.
LEMMA CreditTypes ==
    ASSUME TypeOK, NEW u \in Accounts, NEW a \in Asset, NEW x \in Nat, Credit(u, a, x)
    PROVE  /\ totalDeposited' \in [Asset -> Nat]
           /\ window' \in [Account -> Window]
           /\ spent' \in [Account -> Nat]
<1>1. <<u, a>> \in Account /\ window[<<u, a>>] \in Window
  BY DEF Account, TypeOK
<1>2. Deposited(u, a) \in Nat /\ Epoch(now) \in Nat
  BY <1>1, EpochGrows DEF Deposited, Window, TypeOK
<1>3. QED
  BY <1>1, <1>2 DEF Credit, TypeOK, Window

\* What the assumptions say of the inputs.
LEMMA Inputs == Amounts \subseteq Nat /\ Native \in Asset /\ Tokens \subseteq Asset
BY NumbersAssumption DEF Asset

\* A withdrawal cannot take what the contract does not own, and a revert
\* restores values of the same type.
THEOREM GuardrailTypeCorrect == Spec => [](TypeOK /\ FrameInv)
<1>1. Init => TypeOK /\ FrameInv
  <2> SUFFICES ASSUME Init
               PROVE  TypeOK /\ FrameInv
    OBVIOUS
  <2>1. window \in [Account -> Window]
    BY DEF Init, Window
  <2>2. limits \in Limits /\ now \in Nat
    BY NumbersAssumption DEF Init
  <2>3. TypeOK
    BY <2>1, <2>2 DEF Init, TypeOK
  <2>4. FrameInv
    BY DEF Init, FrameInv, Idle
  <2>5. QED
    BY <2>3, <2>4
<1>2. TypeOK /\ FrameInv /\ [Next]_vars => TypeOK' /\ FrameInv'
  <2> SUFFICES ASSUME TypeOK, FrameInv, [Next]_vars
               PROVE  TypeOK' /\ FrameInv'
    OBVIOUS
  <2>1. CASE UNCHANGED vars
    BY <2>1 DEF vars, roles, books, funds, TypeOK, FrameInv
  <2>2. ASSUME NEW u \in Accounts, NEW x \in Amounts, Deposit(u, x)
        PROVE  TypeOK' /\ FrameInv'
    BY <2>2, Inputs, CreditTypes DEF Deposit, roles, TypeOK, FrameInv
  <2>3. ASSUME NEW u \in Accounts, NEW x \in Amounts, NEW t \in Tokens, DepositToken(u, t, x)
        PROVE  TypeOK' /\ FrameInv'
    <3>1. x \in Nat /\ t \in Asset
      BY Inputs
    <3>2. FrameInv' /\ unlocked' \in BOOLEAN
      BY <2>3, <3>1, HandOverFrame DEF DepositToken
    <3>3. QED
      BY <2>3, <3>1, <3>2, CreditTypes DEF DepositToken, roles, funds, TypeOK
  <2>4. ASSUME NEW u \in Accounts, NEW x \in Amounts, NEW a \in Asset, Withdraw(u, a, x)
        PROVE  TypeOK' /\ FrameInv'
    <3>1. x \in Nat
      BY Inputs
    <3>2. FrameInv' /\ unlocked' \in BOOLEAN
      BY <2>4, <3>1, HandOverFrame DEF Withdraw
    <3>3. vault' \in [Asset -> Nat] /\ withdrawn' \in [Asset -> Nat]
      BY <2>4, <3>1 DEF Withdraw, TypeOK
    <3>4. QED
      BY <2>4, <3>2, <3>3 DEF Withdraw, roles, books, TypeOK
  <2>5. CASE Complete
    <3>1. frame \in Frame
      BY <2>5 DEF Complete, FrameInv
    <3>2. \A got \in Arrives(frame.asset, frame.amount) : got \in Nat
      BY <3>1 DEF Arrives, Frame
    <3>3. vault' \in [Asset -> Nat]
      BY <2>5, <3>1, <3>2 DEF Complete, Frame, TypeOK
    <3>4. FrameInv'
      BY <2>5 DEF Complete, FrameInv, Idle
    <3>5. QED
      BY <2>5, <3>3, <3>4 DEF Complete, roles, books, TypeOK
  <2>6. CASE Revert
    <3>1. frame \in Frame
      BY <2>6 DEF Revert, FrameInv
    <3>2. FrameInv'
      BY <2>6 DEF Revert, FrameInv, Idle
    <3>3. QED
      BY <2>6, <3>1, <3>2 DEF Revert, Frame, TypeOK
  <2>7. ASSUME NEW u \in Accounts,
               \/ EmergencyPause(u)
               \/ Unpause(u)
               \/ \E l \in Limits : SetLimits(u, l)
               \/ \E new \in Accounts : SetGuardian(u, new) \/ TransferOwnership(u, new)
               \/ AcceptOwnership(u)
        PROVE  TypeOK' /\ FrameInv'
    <3>1. Administration
      BY <2>7 DEF EmergencyPause, Unpause, SetLimits, SetGuardian, TransferOwnership,
                  AcceptOwnership
    <3>2. /\ owner' \in Accounts /\ emergencyGuardian' \in Accounts
          /\ pendingOwner' \in Accounts \cup {NoOne} /\ offeredBy' \in Accounts \cup {NoOne}
          /\ limits' \in Limits
      BY <2>7 DEF EmergencyPause, Unpause, SetLimits, SetGuardian, TransferOwnership,
                  AcceptOwnership, roles, TypeOK
    <3>3. paused' \in BOOLEAN
      BY <2>7 DEF EmergencyPause, Unpause, SetLimits, SetGuardian, TransferOwnership,
                  AcceptOwnership, TypeOK
    <3>4. QED
      BY <3>1, <3>2, <3>3 DEF Administration, books, funds, TypeOK, FrameInv
  <2>8. ASSUME NEW a \in Asset, Donate(a)
        PROVE  TypeOK' /\ FrameInv'
    BY <2>8 DEF Donate, roles, books, TypeOK, FrameInv
  <2>9. CASE Tick
    BY <2>9 DEF Tick, roles, funds, TypeOK, FrameInv
  <2>10. QED
    BY <2>1, <2>2, <2>3, <2>4, <2>5, <2>6, <2>7, <2>8, <2>9 DEF Next
<1>3. QED
  BY <1>1, <1>2, PTL DEF Spec

-------------------------------------------------------------------------------
(* The inductive invariant *)

\* The windows w say what was accepted in the current epoch, and none is ahead
\* of it.
WindowsCount(w, s) ==
    \A ua \in Account :
        /\ w[ua].currentEpoch <= Epoch(now)
        /\ s[ua] = IF w[ua].currentEpoch = Epoch(now) THEN w[ua].depositedInEpoch ELSE 0

\* What a deposit under way has credited and not yet moved.
Pending(a) == IF frame.op = "deposit" /\ frame.asset = a THEN frame.amount ELSE 0

\* The funds cover the books once what is pending has arrived.
FundsCover ==
    \A a \in Exact \cup {Native} :
        vault[a] + withdrawn[a] + Pending(a) >= totalDeposited[a]

\* A revert restores a state that was good, and no higher total.
RevertSafe ==
    frame # Idle =>
        /\ WindowsCount(frame.books[2], frame.books[3])
        /\ \A ua \in Account : frame.books[3][ua] <= spent[ua]
        /\ \A a \in Asset : frame.books[1][a] <= totalDeposited[a]
        /\ \A a \in Exact \cup {Native} :
               frame.funds[1][a] + frame.funds[2][a] >= frame.books[1][a]
        /\ frame.roles[2] # NoOne => frame.roles[4] = frame.roles[1]

\* The invariant: inductive together with TypeOK and FrameInv.
GuardrailInv == WindowsCount(window, spent) /\ FundsCover /\ RevertSafe /\ OfferFromOwner

\* Crediting a deposit keeps windows and history in step.
LEMMA CreditCounts ==
    ASSUME TypeOK, WindowsCount(window, spent), now' = now,
           NEW u \in Accounts, NEW a \in Asset, NEW x \in Nat, Credit(u, a, x)
    PROVE  /\ WindowsCount(window', spent')
           /\ spent' = [spent EXCEPT ![<<u, a>>] = Deposited(u, a) + x]
<1>1. <<u, a>> \in Account
  BY DEF Account
<1>2. Deposited(u, a) = spent[<<u, a>>] /\ Epoch(now) \in Nat
  BY <1>1, EpochGrows DEF Deposited, WindowsCount, TypeOK
<1>3. WindowsCount(window', spent')
  BY <1>1, <1>2 DEF Credit, WindowsCount, TypeOK, Window
<1>4. QED
  BY <1>1, <1>2, <1>3 DEF Credit, TypeOK

\* Every call, end of a call, donation and tick keeps the invariant.
LEMMA GuardrailStep ==
    ASSUME TypeOK, FrameInv, GuardrailInv, TypeOK', Next
    PROVE  GuardrailInv'
<1>inv. WindowsCount(window, spent) /\ FundsCover /\ RevertSafe /\ OfferFromOwner
  BY DEF GuardrailInv
<1>assets. Exact \cup {Native} \subseteq Asset /\ Native \notin Tokens
  BY AccountsAssumption DEF Asset
<1>1. ASSUME NEW u \in Accounts, NEW x \in Amounts, Deposit(u, x)
      PROVE  GuardrailInv'
  <2>1. frame = Idle /\ frame' = Idle /\ x \in Nat /\ Native \in Asset
    BY <1>1, Inputs DEF Deposit, Accepts, FrameInv
  <2>2. WindowsCount(window, spent)'
    BY <1>1, <1>inv, <2>1, CreditCounts DEF Deposit, WindowsCount
  <2>3. FundsCover'
    <3>1. \A a \in Exact \cup {Native} : Pending(a) = 0 /\ Pending(a)' = 0
      BY <2>1 DEF Pending, Idle
    <3>2. /\ vault' = [vault EXCEPT ![Native] = @ + x]
          /\ totalDeposited' = [totalDeposited EXCEPT ![Native] = @ + x]
          /\ withdrawn' = withdrawn
      BY <1>1 DEF Deposit, Credit
    <3>3. QED
      BY <1>inv, <1>assets, <2>1, <3>1, <3>2 DEF FundsCover, TypeOK
  <2>4. RevertSafe' /\ OfferFromOwner'
    BY <1>1, <1>inv, <2>1 DEF Deposit, RevertSafe, OfferFromOwner, roles
  <2>5. QED
    BY <2>2, <2>3, <2>4 DEF GuardrailInv
<1>2. ASSUME NEW u \in Accounts, NEW x \in Amounts, NEW t \in Tokens, DepositToken(u, t, x)
      PROVE  GuardrailInv'
  <2>1. frame = Idle /\ x \in Nat /\ t \in Asset
    BY <1>2, Inputs DEF DepositToken, Accepts, FrameInv
  <2>2. /\ frame'.op = "deposit" /\ frame'.asset = t /\ frame'.amount = x
        /\ frame'.roles = roles /\ frame'.books = books /\ frame'.funds = funds
    BY <1>2 DEF DepositToken, HandOver
  <2>3. WindowsCount(window, spent)'
    BY <1>2, <1>inv, <2>1, CreditCounts DEF DepositToken, WindowsCount
  <2>4. FundsCover'
    BY <1>2, <1>inv, <1>assets, <2>1, <2>2
       DEF DepositToken, Credit, funds, FundsCover, Pending, TypeOK, Idle
  <2>5. RevertSafe'
    <3>1. \A ua \in Account : spent[ua] <= spent'[ua]
      BY <1>2, <2>1 DEF DepositToken, Credit, TypeOK
    <3>2. \A a \in Asset : totalDeposited[a] <= totalDeposited'[a]
      BY <1>2, <2>1 DEF DepositToken, Credit, TypeOK
    <3>3. \A a \in Exact \cup {Native} : vault[a] + withdrawn[a] >= totalDeposited[a]
      BY <1>inv, <1>assets, <2>1 DEF FundsCover, Pending, Idle, TypeOK
    <3>4. now' = now
      BY <1>2 DEF DepositToken
    <3>5. QED
      BY <1>inv, <2>2, <3>1, <3>2, <3>3, <3>4
         DEF RevertSafe, WindowsCount, OfferFromOwner, roles, books, funds
  <2>6. OfferFromOwner'
    BY <1>2, <1>inv DEF DepositToken, OfferFromOwner, roles
  <2>7. QED
    BY <2>3, <2>4, <2>5, <2>6 DEF GuardrailInv
<1>3. ASSUME NEW u \in Accounts, NEW x \in Amounts, NEW a \in Asset, Withdraw(u, a, x)
      PROVE  GuardrailInv'
  <2>1. frame = Idle /\ x \in Nat
    BY <1>3, Inputs DEF Withdraw, FrameInv
  <2>2. /\ frame'.op = "withdraw"
        /\ frame'.roles = roles /\ frame'.books = books /\ frame'.funds = funds
    BY <1>3 DEF Withdraw, HandOver
  <2>3. UNCHANGED <<roles, books, now>>
    BY <1>3 DEF Withdraw
  <2>4. \A b \in Exact \cup {Native} : vault[b] + withdrawn[b] >= totalDeposited[b]
    BY <1>inv, <1>assets, <2>1 DEF FundsCover, Pending, Idle, TypeOK
  <2>5. FundsCover'
    BY <1>3, <1>assets, <2>1, <2>2, <2>3, <2>4 DEF Withdraw, books, FundsCover, Pending, TypeOK
  <2>6. RevertSafe'
    BY <1>inv, <2>2, <2>3, <2>4
       DEF RevertSafe, WindowsCount, OfferFromOwner, roles, books, funds, TypeOK
  <2>7. WindowsCount(window, spent)' /\ OfferFromOwner'
    BY <1>inv, <2>3 DEF WindowsCount, OfferFromOwner, roles, books
  <2>8. QED
    BY <2>5, <2>6, <2>7 DEF GuardrailInv
<1>4. CASE Complete
  <2>1. frame \in Frame /\ frame' = Idle /\ UNCHANGED <<roles, books, withdrawn, now>>
    BY <1>4 DEF Complete, FrameInv
  <2>2. FundsCover'
    <3> SUFFICES ASSUME NEW a \in Exact \cup {Native}
                 PROVE  vault'[a] + withdrawn'[a] + Pending(a)' >= totalDeposited'[a]
      BY DEF FundsCover
    <3>1. Pending(a)' = 0 /\ withdrawn'[a] = withdrawn[a] /\ totalDeposited'[a] = totalDeposited[a]
      BY <2>1 DEF Pending, Idle, books
    <3>2. PICK got \in Arrives(frame.asset, frame.amount) :
              vault' = [vault EXCEPT ![frame.asset] =
                           IF frame.op = "deposit" THEN @ + got ELSE @]
      BY <1>4 DEF Complete
    <3>3. frame.asset \in Exact => got = frame.amount
      BY <3>2 DEF Arrives
    <3>4. CASE frame.op = "deposit" /\ frame.asset = a
      <4>1. a \in Exact
        BY <1>assets, <3>4 DEF FrameInv
      <4>2. QED
        BY <1>inv, <1>assets, <2>1, <3>1, <3>2, <3>3, <3>4, <4>1
           DEF FundsCover, Pending, TypeOK, Frame
    <3>5. CASE ~(frame.op = "deposit" /\ frame.asset = a)
      <4>1. vault'[a] = vault[a]
        BY <1>assets, <3>2, <3>5 DEF TypeOK
      <4>2. QED
        BY <1>inv, <1>assets, <3>1, <3>5, <4>1 DEF FundsCover, Pending, TypeOK
    <3>6. QED
      BY <3>4, <3>5
  <2>3. WindowsCount(window, spent)' /\ OfferFromOwner' /\ RevertSafe'
    BY <1>inv, <2>1 DEF WindowsCount, OfferFromOwner, RevertSafe, roles, books
  <2>4. QED
    BY <2>2, <2>3 DEF GuardrailInv
<1>5. CASE Revert
  <2>1. frame # Idle /\ frame \in Frame /\ frame' = Idle /\ now' = now
    BY <1>5 DEF Revert, FrameInv
  <2>2. WindowsCount(window, spent)'
    BY <1>5, <1>inv, <2>1 DEF Revert, RevertSafe, WindowsCount
  <2>3. FundsCover'
    BY <1>5, <1>inv, <1>assets, <2>1 DEF Revert, RevertSafe, FundsCover, Pending, Frame, Idle
  <2>4. OfferFromOwner' /\ RevertSafe'
    BY <1>5, <1>inv, <2>1 DEF Revert, RevertSafe, OfferFromOwner
  <2>5. QED
    BY <2>2, <2>3, <2>4 DEF GuardrailInv
<1>6. ASSUME NEW u \in Accounts,
             \/ EmergencyPause(u)
             \/ Unpause(u)
             \/ \E l \in Limits : SetLimits(u, l)
             \/ \E new \in Accounts : SetGuardian(u, new) \/ TransferOwnership(u, new)
             \/ AcceptOwnership(u)
      PROVE  GuardrailInv'
  <2>1. Administration
    BY <1>6 DEF EmergencyPause, Unpause, SetLimits, SetGuardian, TransferOwnership,
                AcceptOwnership
  <2>2. OfferFromOwner'
    BY <1>6, <1>inv DEF EmergencyPause, Unpause, SetLimits, SetGuardian, TransferOwnership,
                AcceptOwnership, roles, OfferFromOwner
  <2>3. WindowsCount(window, spent)' /\ FundsCover' /\ RevertSafe'
    BY <1>inv, <2>1 DEF Administration, books, funds, WindowsCount, FundsCover, Pending, RevertSafe
  <2>4. QED
    BY <2>2, <2>3 DEF GuardrailInv
<1>7. ASSUME NEW a \in Asset, Donate(a)
      PROVE  GuardrailInv'
  <2>1. FundsCover'
    <3>1. \A b \in Asset : Pending(b) \in Nat /\ Pending(b)' = Pending(b)
      BY <1>7 DEF Donate, Pending, FrameInv, Frame, Idle
    <3>2. /\ vault' = [vault EXCEPT ![a] = @ + 1]
          /\ UNCHANGED <<totalDeposited, withdrawn>>
      BY <1>7 DEF Donate, books
    <3>3. QED
      BY <1>inv, <1>assets, <3>1, <3>2 DEF FundsCover, TypeOK
  <2>2. WindowsCount(window, spent)' /\ OfferFromOwner' /\ RevertSafe'
    BY <1>7, <1>inv DEF Donate, roles, books, WindowsCount, OfferFromOwner, RevertSafe
  <2>3. QED
    BY <2>1, <2>2 DEF GuardrailInv
<1>8. CASE Tick
  <2>1. frame = Idle /\ frame' = Idle /\ UNCHANGED <<roles, totalDeposited, window, funds>>
    BY <1>8 DEF Tick
  <2>2. Epoch(now) \in Nat /\ Epoch(now') \in Nat /\ Epoch(now) <= Epoch(now')
    BY <1>8, EpochGrows DEF Tick, TypeOK
  <2>3. WindowsCount(window, spent)'
    BY <1>8, <1>inv, <2>1, <2>2 DEF Tick, WindowsCount, TypeOK, Window
  <2>4. FundsCover' /\ OfferFromOwner' /\ RevertSafe'
    BY <1>inv, <2>1 DEF FundsCover, Pending, OfferFromOwner, RevertSafe, roles, funds
  <2>5. QED
    BY <2>3, <2>4 DEF GuardrailInv
<1>9. QED
  BY <1>1, <1>2, <1>3, <1>4, <1>5, <1>6, <1>7, <1>8 DEF Next

\* Windows, totals and funds agree between calls and during one, and every
\* revert is safe.
THEOREM GuardrailInvariant == Spec => []GuardrailInv
<1>1. Init => GuardrailInv
  <2> SUFFICES ASSUME Init
               PROVE  GuardrailInv
    OBVIOUS
  <2>1. Epoch(now) \in Nat
    BY EpochGrows, NumbersAssumption DEF Init
  <2>2. WindowsCount(window, spent)
    BY <2>1 DEF Init, WindowsCount
  <2>3. FundsCover
    <3>1. Exact \cup {Native} \subseteq Asset
      BY AccountsAssumption DEF Asset
    <3>2. QED
      BY <3>1 DEF Init, FundsCover, Pending, Idle
  <2>4. QED
    BY <2>2, <2>3 DEF Init, RevertSafe, OfferFromOwner, GuardrailInv
<1>2. TypeOK /\ FrameInv /\ GuardrailInv /\ TypeOK' /\ [Next]_vars => GuardrailInv'
  <2>1. ASSUME GuardrailInv, UNCHANGED vars
        PROVE  GuardrailInv'
    BY <2>1 DEF vars, roles, books, funds, GuardrailInv, WindowsCount, FundsCover, Pending,
                RevertSafe, OfferFromOwner
  <2>2. QED
    BY <2>1, GuardrailStep
<1>3. QED
  BY <1>1, <1>2, GuardrailTypeCorrect, PTL DEF Spec

-------------------------------------------------------------------------------
(* What follows *)

\* Between calls, what the books call deposited is in the vault or withdrawn:
\* a transfer that failed in depositToken has left no credit behind.
THEOREM BooksBacked == Spec => []Solvent
<1>1. TypeOK /\ GuardrailInv => Solvent
  <2> SUFFICES ASSUME TypeOK, GuardrailInv, frame = Idle, NEW a \in Exact \cup {Native}
               PROVE  vault[a] + withdrawn[a] >= totalDeposited[a]
    BY DEF Solvent
  <2>1. Pending(a) = 0 /\ a \in Asset
    BY AccountsAssumption DEF Pending, Idle, Asset
  <2>2. vault[a] + withdrawn[a] + 0 >= totalDeposited[a]
    BY <2>1 DEF GuardrailInv, FundsCover
  <2>3. QED
    BY <2>1, <2>2 DEF TypeOK
<1>2. QED
  BY <1>1, GuardrailTypeCorrect, GuardrailInvariant, PTL

\* acceptOwnership only ever completes an offer of the owner of the day, calls
\* undone in between included.
THEOREM OffersAreOwners == Spec => []OfferFromOwner
<1>1. GuardrailInv => OfferFromOwner
  BY DEF GuardrailInv
<1>2. QED
  BY <1>1, GuardrailInvariant, PTL

\* The only steps by which a total or an account's part of it grows are
\* deposits the contract accepts.
LEMMA WhoGrows ==
    ASSUME TypeOK, FrameInv, GuardrailInv, [Next]_vars
    PROVE  \/ \E u \in Accounts, a \in Asset, x \in Nat :
                  Accepts(u, a, x) /\ Credit(u, a, x) /\ now' = now
           \/ /\ \A ua \in Account : spent'[ua] <= spent[ua]
              /\ \A a \in Asset : totalDeposited'[a] <= totalDeposited[a]
<1>1. CASE UNCHANGED books
  BY <1>1 DEF books, TypeOK
<1>2. ASSUME NEW u \in Accounts, NEW x \in Amounts,
             Deposit(u, x) \/ \E t \in Tokens : DepositToken(u, t, x)
      PROVE  \E a \in Asset, y \in Nat : Accepts(u, a, y) /\ Credit(u, a, y) /\ now' = now
  BY <1>2, Inputs DEF Deposit, DepositToken
<1>3. CASE Revert
  BY <1>3 DEF Revert, GuardrailInv, RevertSafe
<1>4. CASE Tick
  BY <1>4 DEF Tick, TypeOK
<1>5. CASE UNCHANGED vars
  BY <1>1, <1>5 DEF vars
<1>6. CASE Complete
  BY <1>1, <1>6 DEF Complete
<1>7. ASSUME NEW u \in Accounts,
             \/ \E x \in Amounts, a \in Asset : Withdraw(u, a, x)
             \/ EmergencyPause(u)
             \/ Unpause(u)
             \/ \E l \in Limits : SetLimits(u, l)
             \/ \E new \in Accounts : SetGuardian(u, new) \/ TransferOwnership(u, new)
             \/ AcceptOwnership(u)
      PROVE  UNCHANGED books
  BY <1>7 DEF Withdraw, EmergencyPause, Unpause, SetLimits, SetGuardian, TransferOwnership,
              AcceptOwnership, Administration
<1>8. CASE \E a \in Asset : Donate(a)
  BY <1>1, <1>8 DEF Donate
<1>9. QED
  BY <1>1, <1>2, <1>3, <1>4, <1>5, <1>6, <1>7, <1>8 DEF Next

\* An account's deposits within one epoch stay within the daily limit in force,
\* although its window is reset lazily and calls may be undone.
THEOREM EpochLimitKept == Spec => EpochLimit
<1>1. TypeOK /\ FrameInv /\ GuardrailInv /\ TypeOK' /\ [Next]_vars =>
        [\A ua \in Account : spent'[ua] > spent[ua] => spent'[ua] <= limits.daily]_vars
  <2> SUFFICES ASSUME TypeOK, FrameInv, GuardrailInv, TypeOK', [Next]_vars,
                      NEW ua \in Account, spent'[ua] > spent[ua]
               PROVE  spent'[ua] <= limits.daily
    OBVIOUS
  <2>1. spent[ua] \in Nat /\ spent'[ua] \in Nat
    BY DEF TypeOK
  <2>2. CASE \A va \in Account : spent'[va] <= spent[va]
    BY <2>1, <2>2
  <2>3. ASSUME NEW u \in Accounts, NEW a \in Asset, NEW x \in Nat,
               Accepts(u, a, x), Credit(u, a, x), now' = now
        PROVE  spent'[ua] <= limits.daily
    <3>1. spent' = [spent EXCEPT ![<<u, a>>] = Deposited(u, a) + x]
      BY <2>3, CreditCounts DEF GuardrailInv
    <3>2. ua = <<u, a>>
      BY <2>1, <3>1 DEF TypeOK
    <3>3. QED
      BY <2>3, <3>1, <3>2 DEF Accepts, TypeOK
  <2>4. QED
    BY <2>2, <2>3, WhoGrows
<1>2. QED
  BY <1>1, GuardrailTypeCorrect, GuardrailInvariant, PTL DEF Spec, EpochLimit

\* Outside of a pause and of other calls the two capacity views and the limit
\* per transaction say exactly which deposits are accepted.
THEOREM ViewsTellTruth == Spec => []ViewsAgree
<1>1. TypeOK => ViewsAgree
  <2> SUFFICES ASSUME TypeOK, ~paused, unlocked,
                      NEW u \in Accounts, NEW a \in Asset, NEW x \in Amounts \ {0}
               PROVE  Accepts(u, a, x) <=> /\ x <= limits.perTx
                                           /\ x <= RemainingDailyLimit(u, a)
                                           /\ x <= RemainingTvlCapacity(a)
    BY DEF ViewsAgree
  <2> DEFINE before == Deposited(u, a)
             total == totalDeposited[a]
  <2>1. x \in Nat /\ x > 0
    BY NumbersAssumption
  <2>2. limits.daily \in Nat /\ limits.cap \in Nat /\ total \in Nat
    BY NumbersAssumption DEF TypeOK, Limits
  <2>3. before \in Nat
    BY DEF TypeOK, Deposited, Account, Window
  <2>4. x <= RemainingDailyLimit(u, a) <=> before + x <= limits.daily
    <3> HIDE DEF before
    <3>1. RemainingDailyLimit(u, a) = Without(before, limits.daily)
      BY DEF RemainingDailyLimit, before
    <3>2. QED
      BY <2>1, <2>2, <2>3, <3>1 DEF Without
  <2>5. x <= RemainingTvlCapacity(a) <=> total + x <= limits.cap
    BY <2>1, <2>2 DEF RemainingTvlCapacity, Without
  <2>6. QED
    BY <2>1, <2>4, <2>5 DEF Accepts
<1>2. QED
  BY <1>1, GuardrailTypeCorrect, PTL

-------------------------------------------------------------------------------
(* The total of the books *)

\* The totals are what the accounts of the windows are credited with.
Agree(total, win) == \A a \in Asset : total[a] = Credited(win, a)

\* So they are now, and where a revert would go back to.
BooksInv ==
    /\ Agree(totalDeposited, window)
    /\ frame # Idle => Agree(frame.books[1], frame.books[2])

\* A credit adds to the total what it adds to one account, whatever window of
\* the account it finds.
LEMMA CreditAgrees ==
    ASSUME TypeOK, Agree(totalDeposited, window),
           NEW u \in Accounts, NEW a \in Asset, NEW x \in Nat, Credit(u, a, x)
    PROVE  Agree(totalDeposited', window')
<1> SUFFICES ASSUME NEW b \in Asset
             PROVE  totalDeposited'[b] = Credited(window', b)
  BY DEF Agree
<1> DEFINE f == [v \in Accounts |-> window[<<v, b>>].totalCumulative]
           g == [v \in Accounts |-> window'[<<v, b>>].totalCumulative]
<1>1. \A v \in Accounts : <<v, b>> \in Account /\ window[<<v, b>>] \in Window
  BY DEF Account, TypeOK
<1>2. \A v \in Accounts : f[v] \in Int
  BY <1>1 DEF Window
<1>3. \A v \in Accounts : v # u \/ b # a => g[v] = f[v]
  BY <1>1 DEF Credit, TypeOK
<1>4. totalDeposited[b] = SumFunctionOnSet(f, Accounts)
  BY DEF Agree, Credited, SumFunction
<1>5. Credited(window', b) = SumFunctionOnSet(g, Accounts)
  BY DEF Credited, SumFunction
<1>6. CASE b = a
  <2>1. totalDeposited'[b] = totalDeposited[b] + x
    BY <1>6 DEF Credit, TypeOK
  <2>2. g[u] = f[u] + x
    BY <1>1, <1>6 DEF Credit, TypeOK
  <2>3. SumFunctionOnSet(g, Accounts) = SumFunctionOnSet(f, Accounts) + x
    <3> HIDE DEF f, g
    <3>1. QED
      BY <1>2, <1>3, <2>2, AccountsAssumption, SumChanges
  <2>4. QED
    BY <1>4, <1>5, <2>1, <2>3
<1>7. CASE b # a
  <2>1. totalDeposited'[b] = totalDeposited[b]
    BY <1>7 DEF Credit, TypeOK
  <2>2. g = f
    BY <1>3, <1>7
  <2>3. QED
    BY <1>4, <1>5, <2>1, <2>2
<1>8. QED
  BY <1>6, <1>7

LEMMA InitAgrees == Init => BooksInv
<1> SUFFICES ASSUME Init, NEW a \in Asset
             PROVE  totalDeposited[a] = Credited(window, a)
  BY DEF BooksInv, Agree, Init
<1> DEFINE f == [v \in Accounts |-> window[<<v, a>>].totalCumulative]
<1>1. \A v \in Accounts : f[v] = 0
  BY DEF Init, Account
<1>2. totalDeposited[a] = 0 /\ Credited(window, a) = SumFunctionOnSet(f, Accounts)
  BY DEF Init, Credited, SumFunction
<1>3. SumFunctionOnSet(f, Accounts) = 0
  <2> HIDE DEF f
  <2>1. QED
    BY <1>1, AccountsAssumption, SumZero
<1>4. QED
  BY <1>2, <1>3

LEMMA StepAgrees == TypeOK /\ FrameInv /\ BooksInv /\ [Next]_vars => BooksInv'
<1> SUFFICES ASSUME TypeOK, FrameInv, BooksInv, [Next]_vars
             PROVE  BooksInv'
  OBVIOUS
<1>inv. Agree(totalDeposited, window) /\ (frame # Idle => Agree(frame.books[1], frame.books[2]))
  BY DEF BooksInv
\* What leaves the books alone.
<1>same. ASSUME UNCHANGED <<books, frame>>
         PROVE  BooksInv'
  BY <1>inv, <1>same DEF books, BooksInv, Agree, Credited
\* What begins a call: the frame has the books as they are.
<1>call. ASSUME NEW op, NEW a, NEW x, HandOver(op, a, x), Agree(totalDeposited', window')
         PROVE  BooksInv'
  BY <1>inv, <1>call DEF HandOver, books, BooksInv, Agree, Credited
<1>1. ASSUME NEW u \in Accounts, NEW x \in Amounts, Deposit(u, x)
      PROVE  BooksInv'
  <2>1. Agree(totalDeposited', window')
    BY <1>1, <1>inv, Inputs, CreditAgrees DEF Deposit
  <2>2. frame = Idle /\ frame' = frame
    BY <1>1 DEF Deposit, Accepts, FrameInv
  <2>3. QED
    BY <2>1, <2>2 DEF BooksInv, Agree, Credited
<1>2. ASSUME NEW u \in Accounts, NEW x \in Amounts, NEW t \in Tokens, DepositToken(u, t, x)
      PROVE  BooksInv'
  BY <1>2, <1>inv, <1>call, Inputs, CreditAgrees DEF DepositToken
<1>3. ASSUME NEW u \in Accounts, NEW x \in Amounts, NEW a \in Asset, Withdraw(u, a, x)
      PROVE  BooksInv'
  <2>1. Agree(totalDeposited', window')
    BY <1>3, <1>inv DEF Withdraw, books, Agree, Credited
  <2>2. QED
    BY <1>3, <1>call, <2>1 DEF Withdraw
<1>4. CASE Complete
  <2>1. frame' = Idle /\ UNCHANGED books
    BY <1>4 DEF Complete
  <2>2. QED
    BY <1>inv, <2>1 DEF books, BooksInv, Agree, Credited
<1>5. CASE Revert
  <2>1. frame # Idle /\ frame' = Idle /\ totalDeposited' = frame.books[1] /\ window' = frame.books[2]
    BY <1>5 DEF Revert
  <2>2. QED
    BY <1>inv, <2>1 DEF BooksInv, Agree, Credited
<1>6. ASSUME NEW u \in Accounts,
             \/ EmergencyPause(u)
             \/ Unpause(u)
             \/ \E l \in Limits : SetLimits(u, l)
             \/ \E new \in Accounts : SetGuardian(u, new) \/ TransferOwnership(u, new)
             \/ AcceptOwnership(u)
      PROVE  BooksInv'
  BY <1>6, <1>same DEF EmergencyPause, Unpause, SetLimits, SetGuardian, TransferOwnership,
                       AcceptOwnership, Administration
<1>7. ASSUME NEW a \in Asset, Donate(a)
      PROVE  BooksInv'
  BY <1>7, <1>same DEF Donate
<1>8. CASE Tick
  <2>1. frame = Idle /\ frame' = Idle /\ UNCHANGED <<totalDeposited, window>>
    BY <1>8 DEF Tick
  <2>2. QED
    BY <1>inv, <2>1 DEF BooksInv, Agree, Credited
<1>9. CASE UNCHANGED vars
  BY <1>9, <1>same DEF vars
<1>10. QED
  BY <1>1, <1>2, <1>3, <1>4, <1>5, <1>6, <1>7, <1>8, <1>9 DEF Next

\* For any finite set of accounts, the total of an asset is the sum of what the
\* accounts have been credited with: no deposit is lost from the total or counted
\* twice, and a revert takes back from both the same (LaunchGuardrail.sol, the
\* state mutations of deposit and depositToken).
THEOREM TotalsAgree == Spec => []BooksAgree
<1>1. BooksInv => BooksAgree
  BY DEF BooksInv, Agree, BooksAgree
<1>2. QED
  BY <1>1, InitAgrees, StepAgrees, GuardrailTypeCorrect, PTL DEF Spec

-------------------------------------------------------------------------------
(* What an account gets accepted in the length of an epoch, wherever it starts *)

InEpoch(e) == {t \in Times : Epoch(t) = e}
AcceptedIn(ua, e) == SumFunctionOnSet(accepted[ua], InEpoch(e))

\* An account's part of what is recorded: nothing is recorded ahead of time, the
\* current epoch's records add up to what was spent in it, no epoch's to more than
\* the limit, and those of now are enough to take back what a revert would undo.
Books(ua) ==
    /\ spent[ua] <= limits.daily
    /\ AcceptedIn(ua, Epoch(now)) = spent[ua]
    /\ \A e \in Nat : AcceptedIn(ua, e) <= limits.daily
    /\ \A t \in Times : t > now => accepted[ua][t] = 0
    /\ frame # Idle => accepted[ua][now] + frame.books[3][ua] >= spent[ua]

SlidingInv ==
    /\ now \in Times
    /\ accepted \in [Account -> [Times -> Nat]]
    /\ \A ua \in Account : Books(ua)

\* Epochs are in the order of their times, and a time less than an epoch later is
\* in the same epoch or the next.
LEMMA EpochSpan ==
    ASSUME NEW s \in Nat, NEW t \in Nat, s <= t
    PROVE  /\ Epoch(s) \in Nat /\ Epoch(t) \in Nat
           /\ Epoch(s) <= Epoch(t)
           /\ t < s + EpochDuration => Epoch(t) \in {Epoch(s), Epoch(s) + 1}
<1> DEFINE d == EpochDuration
           q == s \div d
           r == t \div d
<1>1. d \in Nat \ {0}
  BY NumbersAssumption
<1>2. q \in Nat /\ d * q <= s /\ s < d * q + d
  BY <1>1, SMTT(30)
<1>3. r \in Nat /\ d * r <= t /\ t < d * r + d
  BY <1>1, SMTT(30)
<1>4. q <= r
  BY <1>1, <1>2, <1>3, SMTT(30)
<1>5. ASSUME t < s + d, r > q + 1
      PROVE  FALSE
  <2>1. d * (q + 2) <= d * r
    BY <1>1, <1>2, <1>3, <1>5, SMTT(30)
  <2>2. d * (q + 2) = d * q + d + d
    BY <1>1, <1>2, SMTT(30)
  <2>3. QED
    BY <1>1, <1>2, <1>3, <1>5, <2>1, <2>2, SMTT(30)
<1>6. QED
  BY <1>2, <1>3, <1>4, <1>5 DEF Epoch

LEMMA TimesFinite ==
    /\ Times \subseteq Nat /\ IsFiniteSet(Times)
    /\ \A e : InEpoch(e) \in SUBSET Times /\ IsFiniteSet(InEpoch(e))
<1>1. EpochDuration + MaxTime \in Nat
  BY NumbersAssumption
<1>2. Times \subseteq Nat /\ IsFiniteSet(Times)
  BY <1>1, FS_Interval DEF Times
<1>3. \A e : InEpoch(e) \in SUBSET Times
  BY DEF InEpoch
<1>4. QED
  BY <1>2, <1>3, FS_Subset

\* A step at the same time that changes what is spent by n changes the records by n.
LEMMA SameTime ==
    ASSUME now \in Times, now' = now, NEW ua \in Account, NEW n \in Int,
           accepted[ua] \in [Times -> Nat], spent[ua] \in Nat, Books(ua),
           spent'[ua] = spent[ua] + n, spent'[ua] \in Nat,
           limits' = limits, spent'[ua] <= limits.daily,
           accepted[ua][now] + n \in Nat,
           frame' # Idle => accepted[ua][now] + n + frame'.books[3][ua] >= spent'[ua],
           accepted'[ua] = [accepted[ua] EXCEPT ![now] = @ + n]
    PROVE  Books(ua)' /\ accepted'[ua] \in [Times -> Nat]
<1> DEFINE f == accepted[ua]
           g == accepted'[ua]
           E == InEpoch(Epoch(now))
<1>1. g \in [Times -> Nat] /\ g[now] = f[now] + n /\ \A t \in Times \ {now} : g[t] = f[t]
  OBVIOUS
<1>2. now \in E /\ E \in SUBSET Times /\ IsFiniteSet(E)
  BY TimesFinite DEF InEpoch
<1>3. \A x \in E : f[x] \in Int
  BY <1>2
<1>4. \A x \in E \ {now} : g[x] = f[x]
  BY <1>1, <1>2
<1>5. SumFunctionOnSet(g, E) = SumFunctionOnSet(f, E) + n
  <2> HIDE DEF f, g, E
  <2>1. QED
    BY <1>1, <1>2, <1>3, <1>4, SumChanges
<1>6. AcceptedIn(ua, Epoch(now))' = spent'[ua]
  <2>1. AcceptedIn(ua, Epoch(now))' = SumFunctionOnSet(g, E)
    BY DEF AcceptedIn
  <2>2. SumFunctionOnSet(f, E) = spent[ua]
    BY DEF Books, AcceptedIn
  <2>3. QED
    BY <1>5, <2>1, <2>2
<1>7. ASSUME NEW e \in Nat
      PROVE  AcceptedIn(ua, e)' <= limits'.daily
  <2>1. CASE e = Epoch(now)
    BY <1>6, <2>1
  <2>2. CASE e # Epoch(now)
    <3> DEFINE F == InEpoch(e)
    <3>1. IsFiniteSet(F) /\ \A x \in F : g[x] = f[x]
      BY <1>1, <2>2, TimesFinite DEF InEpoch
    <3>2. SumFunctionOnSet(g, F) = SumFunctionOnSet(f, F)
      <4> HIDE DEF f, g, F
      <4>1. QED
        BY <3>1, SumSame
    <3>3. AcceptedIn(ua, e)' = AcceptedIn(ua, e)
      BY <3>2 DEF AcceptedIn
    <3>4. QED
      BY <3>3 DEF Books
  <2>3. QED
    BY <2>1, <2>2
<1>8. \A t \in Times : t > now => g[t] = 0
  BY <1>1, TimesFinite DEF Books
<1>9. QED
  BY <1>1, <1>6, <1>7, <1>8 DEF Books

\* A tick leaves the records as they are; with a new epoch counting starts again.
LEMMA TimePasses ==
    ASSUME TypeOK, SlidingInv, Tick, accepted' = accepted, limits' = limits
    PROVE  SlidingInv'
<1>1. now \in Nat /\ now' = now + 1 /\ now' \in Times
  BY NumbersAssumption DEF Tick, Times, TypeOK
<1>2. frame' = Idle
  BY DEF Tick
<1>3. /\ Epoch(now) \in Nat /\ Epoch(now') \in Nat
      /\ \A t \in Times : Epoch(t) = Epoch(now') /\ Epoch(now') # Epoch(now) => t > now
  BY <1>1, EpochSpan, TimesFinite
<1>4. ASSUME NEW ua \in Account
      PROVE  Books(ua)'
  <2>1. Books(ua) /\ accepted[ua] \in [Times -> Nat] /\ limits.daily \in Nat
    BY NumbersAssumption DEF SlidingInv, TypeOK, Limits
  <2>2. \A e \in Nat : AcceptedIn(ua, e)' = AcceptedIn(ua, e)
    BY DEF AcceptedIn
  <2>3. spent'[ua] = AcceptedIn(ua, Epoch(now'))
    <3>1. CASE Epoch(now') = Epoch(now)
      BY <2>1, <3>1 DEF Tick, Books
    <3>2. CASE Epoch(now') # Epoch(now)
      <4> DEFINE f == accepted[ua]
                 F == InEpoch(Epoch(now'))
      <4>1. IsFiniteSet(F) /\ \A x \in F : f[x] = 0
        BY <1>3, <2>1, <3>2, TimesFinite DEF InEpoch, Books
      <4>2. SumFunctionOnSet(f, F) = 0
        <5> HIDE DEF f, F
        <5>1. QED
          BY <4>1, SumZero
      <4>3. spent'[ua] = 0
        BY <3>2 DEF Tick
      <4>4. QED
        BY <4>2, <4>3 DEF AcceptedIn
    <3>3. QED
      BY <3>1, <3>2
  <2>4. \A t \in Times : t > now' => accepted[ua][t] = 0
    BY <1>1, <2>1, TimesFinite DEF Books
  <2>5. QED
    BY <1>2, <1>3, <2>1, <2>2, <2>3, <2>4 DEF Books
<1>5. QED
  BY <1>1, <1>4 DEF SlidingInv

\* Deposits, the ends of calls and what others do in between change what is spent
\* within the limit, and no call takes back more than was accepted during it.
LEMMA SlidingStep ==
    ASSUME TypeOK, TypeOK', FrameInv, FrameInv', GuardrailInv, SlidingInv, SlidingNext
    PROVE  SlidingInv'
<1>1. CASE Tick
  <2>1. now' # now
    BY <1>1 DEF Tick, TypeOK
  <2>2. accepted' = accepted
    <3>1. accepted \in [Account -> [Times -> Nat]]
      BY DEF SlidingInv
    <3>2. accepted' = [ua \in Account |-> accepted[ua]]
      BY <2>1 DEF SlidingNext, Recorded
    <3>3. QED
      BY <3>1, <3>2
  <2>3. QED
    BY <1>1, <2>2, TimePasses DEF SlidingNext
<1> DEFINE Ok(ua) ==
        /\ spent'[ua] <= limits.daily
        /\ accepted[ua][now] + (spent'[ua] - spent[ua]) \in Nat
        /\ frame' # Idle => accepted[ua][now] + frame'.books[3][ua] >= spent[ua]
<1>types. ASSUME NEW ua \in Account
          PROVE  /\ spent[ua] \in Nat /\ spent'[ua] \in Nat /\ accepted[ua] \in [Times -> Nat]
                 /\ accepted[ua][now] \in Nat /\ limits.daily \in Nat /\ Books(ua)
  <2>1. limits.daily \in Nat
    BY NumbersAssumption DEF TypeOK, Limits
  <2>2. accepted[ua] \in [Times -> Nat] /\ now \in Times /\ Books(ua)
    BY DEF SlidingInv
  <2>3. QED
    BY <2>1, <2>2 DEF TypeOK
<1>2. ASSUME now' = now, \A ua \in Account : Ok(ua)
      PROVE  SlidingInv'
  <2>1. ASSUME NEW ua \in Account
        PROVE  Books(ua)' /\ accepted'[ua] \in [Times -> Nat]
    <3> DEFINE n == spent'[ua] - spent[ua]
    <3>1. n \in Int /\ spent'[ua] = spent[ua] + n
      BY <1>types
    <3>2. accepted'[ua] = [accepted[ua] EXCEPT ![now] = @ + n]
      <4>1. accepted'[ua] = [accepted[ua] EXCEPT ![now] = @ + spent'[ua] - spent[ua]]
        BY <1>2 DEF SlidingNext, Recorded
      <4>2. accepted[ua][now] + spent'[ua] - spent[ua] = accepted[ua][now] + n
        BY <1>types
      <4>3. QED
        BY <4>1, <4>2
    <3>3. frame' # Idle => accepted[ua][now] + n + frame'.books[3][ua] >= spent'[ua]
      <4>1. frame' # Idle => frame'.books[3][ua] \in Nat
        BY DEF FrameInv, Frame
      <4>2. QED
        BY <1>2, <1>types, <4>1
    <3>4. now \in Times /\ limits' = limits
      BY DEF SlidingInv, SlidingNext
    <3> HIDE DEF n
    <3>5. QED
      BY <1>2, <1>types, <3>1, <3>2, <3>3, <3>4, SameTime
  <2>2. accepted' \in [Account -> [Times -> Nat]]
    <3>1. accepted' = [ua \in Account |-> Recorded(ua)]
      BY DEF SlidingNext
    <3>2. QED
      BY <2>1, <3>1
  <2>3. QED
    BY <1>2, <2>1, <2>2 DEF SlidingInv
\* A deposit is within the limit, and begins a call or is none.
<1>3. ASSUME NEW u \in Accounts, NEW a \in Asset, NEW x \in Nat,
             Accepts(u, a, x), Credit(u, a, x), now' = now,
             frame' # Idle => frame'.books = books
      PROVE  SlidingInv'
  <2>1. spent' = [spent EXCEPT ![<<u, a>>] = Deposited(u, a) + x]
    BY <1>3, CreditCounts DEF GuardrailInv
  <2>2. Deposited(u, a) + x <= limits.daily
    BY <1>3 DEF Accepts
  <2>3. \A ua \in Account : spent'[ua] >= spent[ua]
    <3>1. spent' = [spent EXCEPT ![<<u, a>>] = @ + x] /\ spent \in [Account -> Nat]
      BY <1>3 DEF Credit, TypeOK
    <3>2. QED
      BY <3>1
  <2>4. ASSUME NEW ua \in Account
        PROVE  Ok(ua)
    <3>1. spent'[ua] <= limits.daily
      BY <1>types, <2>1, <2>2 DEF Books, TypeOK
    <3>2. frame' # Idle => frame'.books[3] = spent
      BY <1>3 DEF books
    <3>3. QED
      BY <1>types, <2>3, <3>1, <3>2
  <2>5. QED
    BY <1>2, <1>3, <2>4
\* What leaves alone what is spent may begin a call or go on with one.
<1>4. ASSUME spent' = spent, now' = now,
             frame' # Idle => frame' = frame \/ frame'.books = books
      PROVE  SlidingInv'
  <2>1. ASSUME NEW ua \in Account
        PROVE  Ok(ua)
    <3>1. accepted[ua][now] + (spent'[ua] - spent[ua]) = accepted[ua][now]
      BY <1>4, <1>types
    <3>2. frame' # Idle => accepted[ua][now] + frame'.books[3][ua] >= spent[ua]
      BY <1>4, <1>types DEF Books, books
    <3>3. QED
      BY <1>4, <1>types, <3>1, <3>2 DEF Books
  <2>2. QED
    BY <1>2, <1>4, <2>1
\* A revert takes back at most what the call's time has recorded.
<1>5. CASE Revert
  <2>1. frame # Idle /\ frame' = Idle /\ now' = now /\ spent' = frame.books[3]
    BY <1>5 DEF Revert
  <2>2. ASSUME NEW ua \in Account
        PROVE  Ok(ua)
    <3>1. frame.books[3][ua] <= spent[ua]
      BY <2>1 DEF GuardrailInv, RevertSafe
    <3>2. accepted[ua][now] + frame.books[3][ua] >= spent[ua] /\ spent[ua] <= limits.daily
      BY <1>types, <2>1 DEF Books
    <3>3. QED
      BY <1>types, <2>1, <3>1, <3>2
  <2>3. QED
    BY <1>2, <2>1, <2>2
<1>6. ASSUME NEW u \in Accounts, NEW x \in Amounts, Deposit(u, x)
      PROVE  SlidingInv'
  <2>1. frame' = Idle
    BY <1>6 DEF Deposit, Accepts, FrameInv
  <2>2. QED
    BY <1>3, <1>6, <2>1, Inputs DEF Deposit
<1>7. ASSUME NEW u \in Accounts, NEW x \in Amounts, NEW t \in Tokens, DepositToken(u, t, x)
      PROVE  SlidingInv'
  BY <1>3, <1>7, Inputs DEF DepositToken, HandOver
<1>8. ASSUME NEW u \in Accounts, NEW x \in Amounts, NEW a \in Asset, Withdraw(u, a, x)
      PROVE  SlidingInv'
  BY <1>4, <1>8 DEF Withdraw, HandOver, books
<1>9. CASE Complete
  BY <1>4, <1>9 DEF Complete, books
<1>10. ASSUME NEW u \in Accounts,
              \/ EmergencyPause(u)
              \/ Unpause(u)
              \/ \E l \in Limits : SetLimits(u, l)
              \/ \E new \in Accounts : SetGuardian(u, new) \/ TransferOwnership(u, new)
              \/ AcceptOwnership(u)
       PROVE  SlidingInv'
  <2>1. UNCHANGED <<spent, now, frame>>
    BY <1>10 DEF EmergencyPause, Unpause, SetLimits, SetGuardian, TransferOwnership,
                 AcceptOwnership, Administration, books
  <2>2. QED
    BY <1>4, <2>1
<1>11. ASSUME NEW a \in Asset, Donate(a)
       PROVE  SlidingInv'
  <2>1. UNCHANGED <<spent, now, frame>>
    BY <1>11 DEF Donate, books
  <2>2. QED
    BY <1>4, <2>1
<1>12. Next
  BY DEF SlidingNext
<1>13. QED
  BY <1>1, <1>5, <1>6, <1>7, <1>8, <1>9, <1>10, <1>11, <1>12 DEF Next

LEMMA InitSliding == SlidingInit => SlidingInv
<1> SUFFICES ASSUME SlidingInit
             PROVE  SlidingInv
  OBVIOUS
<1>1. now \in Times /\ now \in Nat /\ frame = Idle
  BY NumbersAssumption DEF SlidingInit, Init, Times
<1>2. limits.daily \in Nat
  BY NumbersAssumption DEF SlidingInit, Init, Limits
<1>3. accepted = [ua \in Account |-> [t \in Times |-> 0]] /\ spent = [ua \in Account |-> 0]
  BY DEF SlidingInit, Init
<1>4. Epoch(now) \in Nat
  BY <1>1, EpochSpan
<1>5. ASSUME NEW ua \in Account
      PROVE  Books(ua)
  <2>1. ASSUME NEW e \in Nat
        PROVE  AcceptedIn(ua, e) = 0
    <3> DEFINE f == accepted[ua]
               F == InEpoch(e)
    <3>1. IsFiniteSet(F) /\ \A x \in F : f[x] = 0
      BY <1>3, TimesFinite
    <3>2. SumFunctionOnSet(f, F) = 0
      <4> HIDE DEF f, F
      <4>1. QED
        BY <3>1, SumZero
    <3>3. QED
      BY <3>2 DEF AcceptedIn
  <2>2. QED
    BY <1>1, <1>2, <1>3, <1>4, <2>1 DEF Books
<1>6. QED
  BY <1>1, <1>3, <1>5 DEF SlidingInv

\* Two epochs hold any such stretch of time.
LEMMA StretchBound ==
    ASSUME TypeOK, SlidingInv, NEW ua \in Account, NEW start \in Times
    PROVE  AcceptedFrom(ua, start) <= 2 * limits.daily
<1> DEFINE W == {t \in Times : start <= t /\ t < start + EpochDuration}
           e == Epoch(start)
           A == W \cap InEpoch(e)
           f == accepted[ua]
<1>1. W \in SUBSET Times /\ A \in SUBSET W /\ IsFiniteSet(W)
  BY TimesFinite, FS_Subset
<1>2. e \in Nat
  BY EpochSpan, TimesFinite
<1>3. A \subseteq InEpoch(e) /\ W \ A \subseteq InEpoch(e + 1)
  <2> SUFFICES ASSUME NEW t \in W, Epoch(t) # e
               PROVE  Epoch(t) = e + 1
    BY DEF InEpoch
  <2>1. t \in Nat /\ start \in Nat
    BY TimesFinite
  <2>2. QED
    BY <2>1, EpochSpan
<1>4. f \in [Times -> Nat] /\ Books(ua) /\ limits.daily \in Nat
  BY NumbersAssumption DEF SlidingInv, TypeOK, Limits
<1>5. ASSUME NEW k \in Nat, NEW P, P \subseteq InEpoch(k)
      PROVE  SumFunctionOnSet(f, P) \in Nat /\ SumFunctionOnSet(f, P) <= limits.daily
  <2> DEFINE F == InEpoch(k)
  <2>1. IsFiniteSet(F) /\ P \in SUBSET F /\ \A x \in F : f[x] \in Nat
    BY <1>4, <1>5, TimesFinite
  <2>2. /\ SumFunctionOnSet(f, P) \in Nat
        /\ SumFunctionOnSet(f, P) <= SumFunctionOnSet(f, F)
    <3> HIDE DEF f, F
    <3>1. QED
      BY <2>1, SumOfPart
  <2>3. SumFunctionOnSet(f, F) <= limits.daily
    BY <1>4 DEF Books, AcceptedIn
  <2>4. SumFunctionOnSet(f, F) \in Nat
    <3> HIDE DEF f, F
    <3>1. QED
      BY <2>1, SumNat
  <2> HIDE DEF f, F
  <2>5. QED
    BY <1>4, <2>2, <2>3, <2>4
<1>6. SumFunctionOnSet(f, W) = SumFunctionOnSet(f, A) + SumFunctionOnSet(f, W \ A)
  <2>1. \A x \in W : f[x] \in Int
    BY <1>1, <1>4
  <2> HIDE DEF f, W, A
  <2>2. QED
    BY <1>1, <2>1, SumOfParts
<1>7. AcceptedFrom(ua, start) = SumFunctionOnSet(f, W)
  BY DEF AcceptedFrom
<1> HIDE DEF f, W, A, e
<1>8. /\ SumFunctionOnSet(f, A) \in Nat /\ SumFunctionOnSet(f, A) <= limits.daily
      /\ SumFunctionOnSet(f, W \ A) \in Nat /\ SumFunctionOnSet(f, W \ A) <= limits.daily
  BY <1>2, <1>3, <1>5
<1>9. QED
  BY <1>4, <1>6, <1>7, <1>8

\* As long as the limits stay as they are, an account gets at most twice the daily
\* limit accepted in any 24 hours, callbacks and undone calls included: what is true
\* of the "24-hour sliding window" of LaunchGuardrail.sol (10, 169), which a deposit
\* on either side of an epoch boundary exceeds.
THEOREM TwiceTheLimitKept == SlidingSpec => []TwiceTheLimit
<1>1. SlidingInit => Init /\ SlidingInv
  BY InitSliding DEF SlidingInit
<1>2. [SlidingNext]_<<vars, accepted>> => [Next]_vars
  BY DEF SlidingNext
<1>3. /\ TypeOK /\ TypeOK' /\ FrameInv /\ FrameInv' /\ GuardrailInv /\ SlidingInv
      /\ [SlidingNext]_<<vars, accepted>>
      => SlidingInv'
  <2>1. ASSUME SlidingInv, UNCHANGED <<vars, accepted>>
        PROVE  SlidingInv'
    BY <2>1 DEF vars, books, SlidingInv, Books, AcceptedIn
  <2>2. QED
    BY <2>1, SlidingStep
<1>4. TypeOK /\ SlidingInv => TwiceTheLimit
  BY StretchBound DEF TwiceTheLimit
<1>5. Spec => [](TypeOK /\ FrameInv /\ GuardrailInv)
  BY GuardrailTypeCorrect, GuardrailInvariant, PTL
<1>6. QED
  BY <1>1, <1>2, <1>3, <1>4, <1>5, PTL DEF SlidingSpec, Spec
================================================================================
