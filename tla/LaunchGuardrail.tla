---------------------------- MODULE LaunchGuardrail ----------------------------
(***************************************************************************)
(* scripts/chaos/contracts/LaunchGuardrail.sol: a vault that limits what is *)
(* deposited per transaction, per account and epoch, and in all, for the    *)
(* native coin and for each token.                                         *)
(*                                                                         *)
(* A call is one step, except that depositToken and the two withdrawals    *)
(* hand control to another contract: they begin, the other contract may    *)
(* call back into whatever the mutex leaves open, and they end or revert.   *)
(* A call the contract refuses changes nothing and is no step.              *)
(***************************************************************************)
EXTENDS Integers, FiniteSets, Functions

CONSTANTS
    Accounts,        \* every address that may call
    NoOne,           \* address(0)
    Native,          \* the chain's own coin
    Tokens,          \* ERC20 contracts
    Exact,           \* tokens that move exactly the amount asked for
    EpochDuration,   \* 1 days
    Amounts,         \* amounts a caller may pass
    LimitValues,     \* values a limit may be set to
    MaxTime,         \* bound: block time
    MaxVault         \* bound: what the vault may be given besides deposits

ASSUME AccountsAssumption ==
    /\ NoOne \notin Accounts
    /\ Native \notin Tokens
    /\ Exact \subseteq Tokens
    /\ IsFiniteSet(Accounts)

ASSUME NumbersAssumption ==
    /\ EpochDuration \in Nat \ {0}
    /\ Amounts \subseteq Nat
    /\ LimitValues \subseteq Nat
    /\ MaxTime \in Nat
    /\ MaxVault \in Nat

VARIABLES
    owner,
    pendingOwner,
    emergencyGuardian,
    paused,
    limits,          \* globalTvlCap, maxPerTxLimit, dailyAccountLimit
    totalDeposited,  \* totalDepositedNative and totalDepositedTokens, by asset
    window,          \* nativeDepositWindows and tokenDepositWindows
    unlocked,        \* _unlocked = 1
    vault,           \* what the contract owns of each asset
    now,             \* block.timestamp
    frame,           \* the call that has handed over control, or Idle
    withdrawn,       \* history: what the withdrawals of each asset add up to
    spent,           \* history: what was accepted in the epoch of now
    offeredBy        \* history: who made the pending offer of ownership

roles == <<owner, pendingOwner, emergencyGuardian, offeredBy>>
books == <<totalDeposited, window, spent>>
funds == <<vault, withdrawn>>
vars == <<roles, paused, limits, books, unlocked, funds, now, frame>>

Asset == Tokens \cup {Native}
Account == Accounts \X Asset

Limits == [cap : LimitValues, perTx : LimitValues, daily : LimitValues]
Window == [currentEpoch : Nat, depositedInEpoch : Nat, totalCumulative : Nat]

Idle == [op |-> "idle"]

\* _validateLimits
ValidLimits(l) == 0 < l.perTx /\ l.perTx <= l.daily /\ l.daily <= l.cap

Epoch(time) == time \div EpochDuration

\* currentEpochDeposited: a window of an earlier epoch counts as empty.
Deposited(u, a) ==
    IF window[<<u, a>>].currentEpoch = Epoch(now) THEN window[<<u, a>>].depositedInEpoch ELSE 0

-------------------------------------------------------------------------------
(* Constructor *)

Init ==
    /\ owner \in Accounts
    /\ pendingOwner = NoOne
    /\ emergencyGuardian \in Accounts
    /\ paused = FALSE
    /\ limits \in {l \in Limits : ValidLimits(l)}
    /\ totalDeposited = [a \in Asset |-> 0]
    /\ window = [ua \in Account |->
                    [currentEpoch |-> 0, depositedInEpoch |-> 0, totalCumulative |-> 0]]
    /\ unlocked = TRUE
    /\ vault = [a \in Asset |-> 0]
    /\ now = EpochDuration
    /\ frame = Idle
    /\ withdrawn = [a \in Asset |-> 0]
    /\ spent = [ua \in Account |-> 0]
    /\ offeredBy = NoOne

-------------------------------------------------------------------------------
(* Deposits *)

\* Mutant: the cap is compared with what was deposited before.
AcceptsBelowCap(u, a, amount) ==
    /\ ~paused /\ unlocked
    /\ amount # 0
    /\ amount <= limits.perTx
    /\ totalDeposited[a] <= limits.cap
    /\ Deposited(u, a) + amount <= limits.daily

\* The modifiers and the checks, in the order of the code.
Accepts(u, a, amount) ==
    /\ ~paused /\ unlocked
    /\ amount # 0
    /\ amount <= limits.perTx
    /\ totalDeposited[a] + amount <= limits.cap
    /\ Deposited(u, a) + amount <= limits.daily

\* Mutants: the window keeps its old epoch; the cumulative amount starts again
\* with each epoch; a token's deposit goes into the total of the native coin.
CreditStaleEpoch(u, a, amount) ==
    /\ window' = [window EXCEPT ![<<u, a>>] =
                     [currentEpoch |-> @.currentEpoch,
                      depositedInEpoch |-> Deposited(u, a) + amount,
                      totalCumulative |-> @.totalCumulative + amount]]
    /\ totalDeposited' = [totalDeposited EXCEPT ![a] = @ + amount]
    /\ spent' = [spent EXCEPT ![<<u, a>>] = @ + amount]
CreditEpochOnly(u, a, amount) ==
    /\ window' = [window EXCEPT ![<<u, a>>] =
                     [currentEpoch |-> Epoch(now),
                      depositedInEpoch |-> Deposited(u, a) + amount,
                      totalCumulative |-> Deposited(u, a) + amount]]
    /\ totalDeposited' = [totalDeposited EXCEPT ![a] = @ + amount]
    /\ spent' = [spent EXCEPT ![<<u, a>>] = @ + amount]
CreditOneTotal(u, a, amount) ==
    /\ window' = [window EXCEPT ![<<u, a>>] =
                     [currentEpoch |-> Epoch(now),
                      depositedInEpoch |-> Deposited(u, a) + amount,
                      totalCumulative |-> @.totalCumulative + amount]]
    /\ totalDeposited' = [totalDeposited EXCEPT ![Native] = @ + amount]
    /\ spent' = [spent EXCEPT ![<<u, a>>] = @ + amount]

\* The state mutations of both deposit functions. The cap is one number, but it is
\* held against the total of the asset deposited, not against all of them.
Credit(u, a, amount) ==
    /\ window' = [window EXCEPT ![<<u, a>>] =
                     [currentEpoch |-> Epoch(now),
                      depositedInEpoch |-> Deposited(u, a) + amount,
                      totalCumulative |-> @.totalCumulative + amount]]
    /\ totalDeposited' = [totalDeposited EXCEPT ![a] = @ + amount]
    /\ spent' = [spent EXCEPT ![<<u, a>>] = @ + amount]

\* deposit(): the coins come with the call.
Deposit(u, amount) ==
    /\ Accepts(u, Native, amount)
    /\ Credit(u, Native, amount)
    /\ vault' = [vault EXCEPT ![Native] = @ + amount]
    /\ UNCHANGED <<roles, paused, limits, unlocked, withdrawn, now, frame>>

\* Control passes to another contract; what a revert restores is kept.
HandOver(op, a, amount) ==
    /\ unlocked' = FALSE
    /\ frame' = [op |-> op, asset |-> a, amount |-> amount,
                 roles |-> roles, paused |-> paused, limits |-> limits,
                 books |-> books, funds |-> funds]

\* depositToken, up to the transfer.
DepositToken(u, t, amount) ==
    /\ Accepts(u, t, amount)
    /\ Credit(u, t, amount)
    /\ HandOver("deposit", t, amount)
    /\ UNCHANGED <<roles, paused, limits, funds, now>>

-------------------------------------------------------------------------------
(* Withdrawals and the end of a call *)

\* Mutant: what the contract owns is not looked at.
WithdrawUnchecked(u, a, amount) ==
    /\ u = owner /\ unlocked
    /\ vault' = [vault EXCEPT ![a] = @ - amount]
    /\ withdrawn' = [withdrawn EXCEPT ![a] = @ + amount]
    /\ HandOver("withdraw", a, amount)
    /\ UNCHANGED <<roles, paused, limits, books, now>>

\* withdrawNative and withdrawToken: the totals stay as they are.
Withdraw(u, a, amount) ==
    /\ u = owner /\ unlocked
    /\ amount <= vault[a]
    /\ vault' = [vault EXCEPT ![a] = @ - amount]
    /\ withdrawn' = [withdrawn EXCEPT ![a] = @ + amount]
    /\ HandOver("withdraw", a, amount)
    /\ UNCHANGED <<roles, paused, limits, books, now>>

\* What arrives when a token says it has moved the amount.
Arrives(a, amount) == IF a \in Exact THEN {amount} ELSE 0..amount

\* Mutant: _safeTransferFrom does not look at the value returned.
CompleteUnchecked ==
    /\ frame # Idle
    /\ \E got \in Arrives(frame.asset, frame.amount) \cup {0} :
           vault' = [vault EXCEPT ![frame.asset] =
                        IF frame.op = "deposit" THEN @ + got ELSE @]
    /\ unlocked' = TRUE
    /\ frame' = Idle
    /\ UNCHANGED <<roles, paused, limits, books, withdrawn, now>>

\* The other contract returns success (true, or nothing).
Complete ==
    /\ frame # Idle
    /\ \E got \in Arrives(frame.asset, frame.amount) :
           vault' = [vault EXCEPT ![frame.asset] =
                        IF frame.op = "deposit" THEN @ + got ELSE @]
    /\ unlocked' = TRUE
    /\ frame' = Idle
    /\ UNCHANGED <<roles, paused, limits, books, withdrawn, now>>

\* It fails, or returns false: everything since the call began is undone,
\* what was called back included.
Revert ==
    /\ frame # Idle
    /\ owner' = frame.roles[1]
    /\ pendingOwner' = frame.roles[2]
    /\ emergencyGuardian' = frame.roles[3]
    /\ offeredBy' = frame.roles[4]
    /\ paused' = frame.paused
    /\ limits' = frame.limits
    /\ totalDeposited' = frame.books[1]
    /\ window' = frame.books[2]
    /\ spent' = frame.books[3]
    /\ vault' = frame.funds[1]
    /\ withdrawn' = frame.funds[2]
    /\ unlocked' = TRUE
    /\ frame' = Idle
    /\ UNCHANGED now

-------------------------------------------------------------------------------
(* Administration: none of it takes the mutex *)

Administration == UNCHANGED <<books, unlocked, funds, now, frame>>

EmergencyPause(u) ==
    /\ u \in {owner, emergencyGuardian}
    /\ ~paused
    /\ paused' = TRUE
    /\ Administration /\ UNCHANGED <<roles, limits>>

Unpause(u) ==
    /\ u = owner
    /\ paused
    /\ paused' = FALSE
    /\ Administration /\ UNCHANGED <<roles, limits>>

SetLimits(u, l) ==
    /\ u = owner
    /\ ValidLimits(l)
    /\ limits' = l
    /\ Administration /\ UNCHANGED <<roles, paused>>

SetGuardian(u, new) ==
    /\ u = owner
    /\ emergencyGuardian' = new
    /\ Administration
    /\ UNCHANGED <<owner, pendingOwner, offeredBy, paused, limits>>

TransferOwnership(u, new) ==
    /\ u = owner
    /\ pendingOwner' = new
    /\ offeredBy' = u
    /\ Administration
    /\ UNCHANGED <<owner, emergencyGuardian, paused, limits>>

\* Mutant: the offer stays open after it was accepted.
AcceptLeavesOffer(u) ==
    /\ u = pendingOwner
    /\ owner' = u
    /\ Administration
    /\ UNCHANGED <<pendingOwner, offeredBy, emergencyGuardian, paused, limits>>

AcceptOwnership(u) ==
    /\ u = pendingOwner
    /\ owner' = u
    /\ pendingOwner' = NoOne
    /\ offeredBy' = NoOne
    /\ Administration
    /\ UNCHANGED <<emergencyGuardian, paused, limits>>

-------------------------------------------------------------------------------
(* The world around the contract (external) *)

\* Coins and tokens sent to the contract by means other than a deposit.
Donate(a) ==
    /\ vault[a] + withdrawn[a] < totalDeposited[a] + MaxVault
    /\ vault' = [vault EXCEPT ![a] = @ + 1]
    /\ UNCHANGED <<roles, paused, limits, books, unlocked, withdrawn, now, frame>>

\* Block time passes between calls.
Tick ==
    /\ frame = Idle
    /\ now < MaxTime
    /\ now' = now + 1
    /\ spent' = IF Epoch(now') = Epoch(now) THEN spent ELSE [ua \in Account |-> 0]
    /\ UNCHANGED <<roles, paused, limits, totalDeposited, window, unlocked, funds, frame>>

Next ==
    \/ \E u \in Accounts :
           \/ \E x \in Amounts : \/ Deposit(u, x)
                                 \/ \E t \in Tokens : DepositToken(u, t, x)
                                 \/ \E a \in Asset : Withdraw(u, a, x)
           \/ EmergencyPause(u)
           \/ Unpause(u)
           \/ \E l \in Limits : SetLimits(u, l)
           \/ \E new \in Accounts : SetGuardian(u, new) \/ TransferOwnership(u, new)
           \/ AcceptOwnership(u)
    \/ Complete
    \/ Revert
    \/ \E a \in Asset : Donate(a)
    \/ Tick

Spec == Init /\ [][Next]_vars

-------------------------------------------------------------------------------
(* Views *)

Without(part, whole) == IF part >= whole THEN 0 ELSE whole - part

\* getUserRemainingDailyLimit, getTokenUserRemainingDailyLimit
RemainingDailyLimit(u, a) == Without(Deposited(u, a), limits.daily)

\* getRemainingTvlCapacity, getTokenRemainingTvlCapacity
RemainingTvlCapacity(a) == Without(totalDeposited[a], limits.cap)

-------------------------------------------------------------------------------
(* Properties *)

TypeOK ==
    /\ owner \in Accounts
    /\ pendingOwner \in Accounts \cup {NoOne}
    /\ emergencyGuardian \in Accounts
    /\ paused \in BOOLEAN
    /\ limits \in Limits
    /\ totalDeposited \in [Asset -> Nat]
    /\ window \in [Account -> Window]
    /\ unlocked \in BOOLEAN
    /\ vault \in [Asset -> Nat]
    /\ now \in Nat
    /\ withdrawn \in [Asset -> Nat]
    /\ spent \in [Account -> Nat]
    /\ offeredBy \in Accounts \cup {NoOne}

\* What the books call deposited is in the vault or was withdrawn, for every
\* asset that moves what it says, once no transfer is under way: no failed or
\* refused transfer leaves a credit behind.
Solvent ==
    frame = Idle =>
        \A a \in Exact \cup {Native} : vault[a] + withdrawn[a] >= totalDeposited[a]

\* The total of an asset is what the accounts are credited with, added up:
\* deposits of different accounts, epochs and nested calls never overwrite each
\* other's part of the books.
Credited(win, a) == SumFunction([u \in Accounts |-> win[<<u, a>>].totalCumulative])

BooksAgree == \A a \in Asset : totalDeposited[a] = Credited(window, a)

\* An open offer of ownership was made by the current owner: nobody can take
\* the contract over on the word of an owner who has handed it on.
OfferFromOwner == pendingOwner # NoOne => offeredBy = owner

\* The views tell a depositor the truth: outside of a pause and of other calls,
\* exactly the amounts within the three limits they report are accepted.
ViewsAgree ==
    ~paused /\ unlocked =>
        \A u \in Accounts, a \in Asset, x \in Amounts \ {0} :
            Accepts(u, a, x) <=> /\ x <= limits.perTx
                                 /\ x <= RemainingDailyLimit(u, a)
                                 /\ x <= RemainingTvlCapacity(a)

\* All that an account gets accepted within one epoch is within the daily limit
\* in force when the last of it is accepted, whatever lay in its window before,
\* and whatever calls were reverted.
EpochLimit ==
    [][\A ua \in Account : spent'[ua] > spent[ua] => spent'[ua] <= limits.daily]_vars
================================================================================
