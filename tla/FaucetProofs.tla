------------------------------ MODULE FaucetProofs ------------------------------
(***************************************************************************)
(* Theorems about Faucet, for every set of accounts, every cap, every       *)
(* length of a day and of a second, and any number of polls.                *)
(***************************************************************************)
EXTENDS Faucet, FiniteSetTheorems, WellFoundedInduction, TLAPS

\* Grants whose record was not lost.
Counted(a) == granted[a] \ lost

\* What the file says, or will say again once it is written.
Known(a) == IF req.pc = "write" THEN req.state[Key(a)] ELSE file[Key(a)]

\* Everything that has happened has happened before the clock.
TimesInv ==
    /\ clock <= MaxTime
    /\ \A a \in Accounts : \A t \in granted[a] : t < clock
    /\ tx # NoTx => tx.at < clock

\* A transaction that may still be executed belongs to the request in hand, or
\* to one whose record is lost.
TxInv ==
    tx.status = "waiting" =>
        \/ tx.at \in lost
        \/ req.pc \in {"poll", "lookup"} /\ tx.at = req.now /\ tx.to = req.to

\* Nothing is paid twice under one time: what was not executed was not paid, and
\* what is about to be sent is newer than what was.
FreshInv ==
    /\ tx # NoTx /\ tx.status # "ok" => tx.at \notin granted[tx.to]
    /\ tx.status = "ok" => tx.at \in granted[tx.to]
    /\ req.pc = "broadcast" =>
           req.now \notin granted[req.to] /\ (tx # NoTx => tx.at < req.now)

\* The state a request works with says what the file said, and leaves room for
\* one more grant; what it will write has been paid.
RequestInv ==
    Locked =>
        /\ req.now < clock
        /\ req.key = Key(req.to)
        /\ \A t \in req.entries : t < req.now
        /\ req.entries \subseteq req.state[req.key]
        /\ IsFiniteSet(req.entries)
        /\ Cardinality(req.entries) + 1 <= Cap
        /\ req.pc \in {"save", "write"} => req.now \in granted[req.to]
        /\ \A t \in Counted(req.to) :
               req.now - t < Day => t \in req.entries \/ t = req.now

\* Until it is written, the file is what the request loaded.
LoadedInv == Locked /\ req.pc # "write" => req.state = file

\* No entry of the file, or of a state made from it, is not a grant.
PaidInv ==
    /\ CountsOnlyGrants
    /\ Locked => \A s \in Spelling : req.state[s] \subseteq granted[Account(s)]

\* A recent grant is known, unless its record was lost or is being made.
CountInv ==
    \A a \in Accounts : \A t \in Counted(a) :
        clock - t < Day => t \in Known(a) \/ (Locked /\ a = req.to /\ t = req.now)

\* No more than the cap is ever written for one account.
Small(state) == \A s \in Spelling : IsFiniteSet(state[s]) /\ Cardinality(state[s]) <= Cap

SizeInv == Small(file) /\ (Locked => Small(req.state))

\* An account told to come back has room once the entry it waits for is a day old.
Room(state, a) ==
    told[a] # 0 =>
        \E ts \in 0..MaxTime :
            /\ ts + Day <= told[a] + Second
            /\ Cardinality({t \in state[Key(a)] : t > ts}) < Cap

ToldInv ==
    \A a \in Accounts : Room(file, a) /\ (Locked => Room(req.state, a))

FaucetInv ==
    /\ TimesInv /\ TxInv /\ FreshInv /\ RequestInv /\ LoadedInv /\ PaidInv
    /\ CountInv /\ CapUnlessLost /\ SizeInv /\ ToldInv

-------------------------------------------------------------------------------
(* Sets of times *)

\* A part of a finite set is finite, and no larger.
LEMMA Smaller ==
    ASSUME NEW S, IsFiniteSet(S), NEW T \in SUBSET S
    PROVE  /\ IsFiniteSet(T)
           /\ Cardinality(T) \in Nat /\ Cardinality(S) \in Nat
           /\ Cardinality(T) <= Cardinality(S)
BY FS_Subset, FS_CardinalityType

\* One more time makes a set at most one larger.
LEMMA OneMore ==
    ASSUME NEW S, IsFiniteSet(S), NEW t
    PROVE  /\ IsFiniteSet(S \cup {t})
           /\ Cardinality(S) \in Nat /\ Cardinality(S \cup {t}) \in Nat
           /\ Cardinality(S \cup {t}) <= Cardinality(S) + 1
<1>1. Cardinality(S) \in Nat
  BY FS_CardinalityType
<1>2. /\ IsFiniteSet(S \cup {t})
      /\ Cardinality(S \cup {t}) = IF t \in S THEN Cardinality(S) ELSE Cardinality(S) + 1
  BY FS_AddElement
<1>3. QED
  BY <1>1, <1>2

\* What an account was paid is finite: it all lies before the clock.
LEMMA GrantsFinite ==
    ASSUME TypeOK, TimesInv, NEW a \in Accounts, NEW S \in SUBSET granted[a]
    PROVE  IsFiniteSet(S)
<1>1. S \in SUBSET Nat /\ \A t \in S : t <= clock
  BY DEF TypeOK, TimesInv
<1>2. QED
  BY <1>1, FS_BoundedSetOfNaturals DEF TypeOK

\* The request in hand is well typed, and told from no request by its pc.
LEMMA InHand ==
    ASSUME TypeOK
    PROVE  /\ Locked <=> req \in Request
           /\ req.pc \notin {"idle", "read"} <=> Locked
           /\ ~Locked => req \in {NoRequest, Reading} /\ req.pc \in {"idle", "read"}
BY DEF TypeOK, NoRequest, Reading, Locked, Request

\* A transaction that waits is one.
LEMMA Waiting ==
    ASSUME TypeOK
    PROVE  tx.status \in {"waiting", "ok"} => tx \in Tx /\ tx # NoTx
BY DEF TypeOK, NoTx, Tx

LEMMA Spelled ==
    /\ \A a \in Accounts : Key(a) \in Spelling /\ Account(Key(a)) = a
    /\ \A s \in Spelling : Account(s) \in Accounts /\ normalize_address(s) = Key(Account(s))
BY DEF Key, Spelling, Account, normalize_address

\* Losing records breaks no window.
LEMMA WindowsShrink ==
    ASSUME TypeOK, TimesInv, CapUnlessLost, granted' = granted, lost \subseteq lost'
    PROVE  CapUnlessLost'
<1> SUFFICES ASSUME NEW a \in Accounts, NEW start \in 0..MaxTime
             PROVE  Cardinality(Within(granted[a] \ lost', start)) <= Cap
  BY DEF CapUnlessLost, Within
<1> DEFINE S == Within(granted[a] \ lost, start)
           T == Within(granted[a] \ lost', start)
<1>1. T \in SUBSET S /\ S \in SUBSET granted[a]
  BY DEF Within
<1>2. IsFiniteSet(S)
  BY <1>1, GrantsFinite
<1>3. Cardinality(T) <= Cardinality(S) /\ Cardinality(T) \in Nat /\ Cardinality(S) \in Nat
  BY <1>1, <1>2, Smaller
<1>4. Cardinality(S) <= Cap
  BY DEF CapUnlessLost
<1>5. QED
  BY <1>3, <1>4, FaucetAssumption

-------------------------------------------------------------------------------
(* Type correctness *)

LEMMA ClockTypes ==
    ASSUME TypeOK
    PROVE  /\ \A n \in Nat : After(n) \in Nat
           /\ ReadClock => clock' \in Nat
BY FaucetAssumption DEF TypeOK, After, ReadClock

LEMMA OldestIsOne ==
    ASSUME NEW S \in SUBSET Nat, S # {}
    PROVE  Oldest(S) \in S /\ \A u \in S : Oldest(S) <= u
<1> DEFINE R == {p \in Nat \X Nat : p[1] < p[2]}
<1>1. IsWellFoundedOn(R, Nat)
  BY NatLessThanWellFounded, Zenon DEF OpToRel
<1>2. PICK m \in S : \A u \in S : <<u, m>> \notin R
  <2> HIDE DEF R
  <2> QED
    BY <1>1, WFMin, Zenon
<1>3. ASSUME NEW u \in S PROVE m <= u
  <2>1. u \in Nat /\ m \in Nat
    OBVIOUS
  <2>2. ~ (u < m)
    BY <1>2, <2>1
  <2> QED
    BY <2>1, <2>2
<1>4. QED
  BY <1>3 DEF Oldest

\* What an account is told is at least now, and comes within a second of when
\* the entry it waits for stops to count.
LEMMA ToldTime ==
    ASSUME TypeOK, NEW a \in Spelling, Entries(a) # {}
    PROVE  LET o == Oldest(Entries(a))
               t == clock + Second * ResetIn(Entries(a), clock)
           IN  /\ o \in Entries(a) /\ \A u \in Entries(a) : o <= u
               /\ t \in Nat
               /\ o + Day < t + Second
<1> DEFINE E == Entries(a)
           o == Oldest(E)
           x == Day - (clock - o)
           q == x \div Second
<1>1. E \in SUBSET Nat /\ \A t \in E : clock - t < Day
  BY Spelled DEF Entries, prune, TypeOK
<1>2. o \in E /\ \A u \in E : o <= u
  BY <1>1, OldestIsOne
<1>3. o \in Nat /\ clock \in Nat /\ Day \in Nat /\ Second \in Nat \ {0} /\ clock - o < Day
  BY <1>1, <1>2, FaucetAssumption DEF TypeOK
<1> HIDE DEF o
<1>4. x \in Nat
  BY <1>3
<1> HIDE DEF x
<1>5. q \in Nat /\ Second * q <= x /\ x < Second * q + Second
  BY <1>3, <1>4, SMTT(30)
<1>6. Second * q \in Nat
  BY <1>3, <1>5, SMTT(30)
<1>7. ResetIn(E, clock) = q
  BY DEF ResetIn, q, x, o
<1> HIDE DEF q
<1>8. o + Day < clock + Second * q + Second
  <2> DEFINE z == Second * q
  <2>1. z \in Nat /\ x < z + Second
    BY <1>5, <1>6
  <2> HIDE DEF z
  <2>2. o + Day < clock + z + Second
    BY <2>1, <1>3, <1>4 DEF x
  <2> QED
    BY <2>2 DEF z
<1>9. clock + Second * q \in Nat
  BY <1>3, <1>6
<1>10. QED
  BY <1>2, <1>7, <1>8, <1>9 DEF o

\* A step keeps the types.
LEMMA FaucetTypeStep ==
    ASSUME TypeOK, [Next]_vars
    PROVE  TypeOK'
<1> USE DEF TypeOK
<1>1. ASSUME NEW s \in Spelling, Refuse(s) PROVE TypeOK'
  <2>1. Entries(s) # {}
    <3>1. SUFFICES ASSUME Entries(s) = {} PROVE FALSE
      OBVIOUS
    <3>2. Cardinality(Entries(s)) = 0
      BY <3>1, FS_EmptySet
    <3>3. QED
      BY <1>1, <3>2, FaucetAssumption DEF Refuse
  <2>2. clock + Second * ResetIn(Entries(s), clock) \in Nat
    BY <2>1, ToldTime
  <2>3. clock' \in Nat
    BY <1>1 DEF Refuse, ReadClock
  <2>4. QED
    BY <1>1, <2>2, <2>3, Spelled DEF Refuse
<1>2. ASSUME NEW s \in Spelling, Start(s) PROVE TypeOK'
  <2>1. Entries(s) \in SUBSET Nat
    BY Spelled DEF Entries, prune
  <2>2. req' \in Request
    BY <1>2, <2>1, Spelled DEF Start, Request
  <2>3. QED
    BY <1>2, <2>2 DEF Start, ReadClock
<1>3. CASE Accepted
  <2>1. req \in Request
    BY <1>3, InHand DEF Accepted
  <2>2. tx' \in Tx
    BY <1>3, <2>1 DEF Accepted, Sent, Tx, Request
  <2>3. QED
    BY <1>3, <2>1, <2>2 DEF Accepted, Request
<1>4. CASE Rejected
  BY <1>4 DEF Rejected
<1>5. CASE Hung
  <2>1. req \in Request
    BY <1>5, InHand DEF Hung
  <2>2. tx' \in Tx
    BY <1>5, <2>1 DEF Hung, Sent, Tx, Request
  <2>3. QED
    BY <1>5, <2>1, <2>2 DEF Hung, Request
<1>5a. CASE Sleep
  <2>1. req \in Request /\ clock' \in Nat
    BY <1>5a, InHand, ClockTypes, FaucetAssumption DEF Sleep
  <2>2. QED
    BY <1>5a, <2>1 DEF Sleep, Request
<1>6. CASE PollFound
  <2>1. req \in Request
    BY <1>6, InHand DEF PollFound
  <2>2. QED
    BY <1>6, <2>1 DEF PollFound, Request
<1>7. CASE PollFailed
  BY <1>7 DEF PollFailed
<1>8. CASE PollAgain
  <2>1. req \in Request
    BY <1>8, InHand DEF PollAgain
  <2>2. req.polls + 1 \in Nat
    BY <2>1 DEF Request
  <2>3. req' = [req EXCEPT !.pc = "poll", !.polls = req.polls + 1]
    BY <1>8, <2>1 DEF PollAgain, Request
  <2>4. req' \in Request
    BY <2>1, <2>2, <2>3 DEF Request
  <2>5. QED
    BY <1>8, <2>4 DEF PollAgain
<1>9. CASE GiveUp
  <2>1. req \in Request
    BY <1>9, InHand DEF GiveUp
  <2>2. QED
    BY <1>9, <2>1 DEF GiveUp, Request
<1>10. CASE Truncate
  <2>1. req \in Request
    BY <1>10, InHand DEF Truncate
  <2>2. QED
    BY <1>10, <2>1 DEF Truncate, Request, NoGrants
<1>11. CASE Write
  <2>1. req \in Request
    BY <1>11, InHand DEF Write
  <2>2. file' \in [Spelling -> SUBSET Nat] /\ told' \in [Accounts -> Nat]
    BY <1>11, <2>1 DEF Write, Request
  <2>3. QED
    BY <1>11, <2>2 DEF Write
<1>12. CASE Crash
  <2>1. req \in Request
    BY <1>12, InHand DEF Crash
  <2>2. UNION {req.state[k] : k \in Spelling} \in SUBSET Nat /\ req.now \in Nat
    <3>1. req.state \in [Spelling -> SUBSET Nat] /\ req.now \in Nat
      BY <2>1 DEF Request
    <3>2. QED
      BY <3>1
  <2>3. lost' \in SUBSET Nat
    BY <1>12, <2>2 DEF Crash
  <2>4. QED
    BY <1>12, <2>3 DEF Crash
<1>13. CASE Pay
  <2>1. tx \in Tx
    BY <1>13, Waiting DEF Pay
  <2>2. QED
    BY <1>13, <2>1 DEF Pay, Tx
<1>14. CASE NotPaid
  <2>1. tx \in Tx
    BY <1>14, Waiting DEF NotPaid
  <2>2. QED
    BY <1>14, <2>1 DEF NotPaid, Tx
<1>15. CASE Tick
  BY <1>15, ClockTypes DEF Tick
<1>16. CASE UNCHANGED vars
  BY <1>16 DEF vars
<1>17. CASE Connect \/ Dismiss
  BY <1>17 DEF Connect, Dismiss
<1>18. QED
  BY <1>1, <1>2, <1>3, <1>4, <1>5, <1>5a, <1>6, <1>7, <1>8, <1>9, <1>10, <1>11, <1>12,
     <1>13, <1>14, <1>15, <1>16, <1>17 DEF Next, Timed, Looked

\* Every variable keeps its type: times are naturals, what is told is never
\* before time began.
THEOREM FaucetTypeCorrect == Spec => []TypeOK
<1>1. Init => TypeOK
  BY DEF Init, TypeOK, NoGrants, NoRequest, Reading, Locked, NoTx
<1>2. QED
  BY <1>1, FaucetTypeStep, PTL DEF Spec

-------------------------------------------------------------------------------
(* The inductive invariant *)


\* A request in hand keeps what it was begun with.
SameRequest ==
    /\ req \in Request /\ req' \in Request
    /\ req'.to = req.to /\ req'.key = req.key /\ req'.now = req.now
    /\ req'.state = req.state /\ req'.entries = req.entries

\* Time may pass and records may be lost.
LEMMA TimesKept ==
    ASSUME TypeOK, TypeOK', TimesInv, clock <= clock', clock' <= MaxTime,
           granted' = granted, tx' # NoTx => tx # NoTx /\ tx'.at = tx.at
    PROVE  TimesInv'
<1>1. \A a \in Accounts : granted[a] \in SUBSET Nat
  BY DEF TypeOK
<1>2. \A a \in Accounts : \A t \in granted'[a] : t < clock'
  BY <1>1 DEF TimesInv, TypeOK
<1>3. tx' # NoTx => tx'.at < clock'
  <2>1. SUFFICES ASSUME tx' # NoTx PROVE tx'.at < clock'
    OBVIOUS
  <2>2. tx \in Tx /\ tx'.at = tx.at /\ tx.at < clock
    BY <2>1 DEF TimesInv, TypeOK
  <2>3. QED
    BY <2>2 DEF TypeOK, Tx
<1>4. QED
  BY <1>2, <1>3 DEF TimesInv

LEMMA RequestKept ==
    ASSUME TypeOK, TypeOK', RequestInv, clock <= clock',
           granted' = granted, lost \subseteq lost',
           Locked' =>
               /\ SameRequest
               /\ req'.pc \in {"save", "write"} => req'.now \in granted[req'.to]
    PROVE  RequestInv'
<1>1. SUFFICES ASSUME Locked' PROVE RequestInv'
  BY DEF RequestInv
<1>2. SameRequest /\ Locked
  BY <1>1, InHand DEF SameRequest
<1>3. req.now < clock /\ req.now \in Nat /\ req.to \in Accounts
  BY <1>1, <1>2 DEF RequestInv, SameRequest, Request
<1>4. Counted(req.to)' \subseteq Counted(req.to)
  BY <1>2 DEF Counted, SameRequest
<1>5. req'.now < clock'
  BY <1>2, <1>3 DEF SameRequest, TypeOK
<1>6. QED
  BY <1>1, <1>2, <1>4, <1>5 DEF RequestInv, SameRequest

\* What is recent later is recent now.
LEMMA Recent ==
    ASSUME NEW now \in Nat, NEW later \in Nat, now <= later, NEW t \in Nat, later - t < Day
    PROVE  now - t < Day
BY FaucetAssumption

LEMMA CountKept ==
    ASSUME TypeOK, TypeOK', CountInv, clock <= clock',
           granted' = granted, lost \subseteq lost',
           \A a \in Accounts : Known(a) \subseteq Known(a)',
           Locked =>
               \/ Locked' /\ req'.now = req.now /\ req'.to = req.to
               \/ req.now \in lost'
               \/ req.now \notin granted[req.to]
    PROVE  CountInv'
<1>1. SUFFICES ASSUME NEW a \in Accounts, NEW t \in granted[a], t \notin lost', clock' - t < Day
               PROVE  t \in Known(a)' \/ (Locked' /\ a = req'.to /\ t = req'.now)
  BY DEF CountInv, Counted
<1>2. t \in Nat
  BY DEF TypeOK
<1>3. clock - t < Day /\ t \in Counted(a)
  <2>1. clock \in Nat /\ clock' \in Nat /\ Day \in Nat
    BY FaucetAssumption DEF TypeOK
  <2>2. clock - t < Day
    BY <1>1, <1>2, <2>1, Recent
  <2>3. t \in Counted(a)
    BY <1>1 DEF Counted
  <2>4. QED
    BY <2>2, <2>3
<1>4. t \in Known(a) \/ (Locked /\ a = req.to /\ t = req.now)
  BY <1>3 DEF CountInv
<1>5. QED
  BY <1>1, <1>4

LEMMA ToldKept ==
    ASSUME ToldInv, told' = told, file' = file, Locked' => Locked /\ req'.state = req.state
    PROVE  ToldInv'
BY DEF ToldInv, Room

LEMMA SizeKept ==
    ASSUME SizeInv, file' = file, Locked' => Locked /\ req'.state = req.state
    PROVE  SizeInv'
BY DEF SizeInv, Small

LEMMA PaidKept ==
    ASSUME TypeOK, PaidInv, granted' = granted, file' = file,
           Locked' => Locked /\ req'.state = req.state
    PROVE  PaidInv'
BY DEF PaidInv, CountsOnlyGrants

\* Steps that change neither the file, nor what was paid or told: they let time
\* pass, or move a request on, or end it outside of save_state.
LEMMA FaucetQuiet ==
    ASSUME TypeOK, TypeOK', FaucetInv,
           UNCHANGED <<file, granted, told>>,
           lost \subseteq lost',
           clock <= clock', clock' <= MaxTime,
           tx' # NoTx => tx # NoTx /\ tx'.at = tx.at,
           Locked' =>
               /\ SameRequest
               /\ req'.pc \in {"save", "write"} => req'.now \in granted[req'.to]
               /\ req'.pc = "write" <=> req.pc = "write",
           ~Locked' /\ Locked =>
               /\ req.pc # "write"
               /\ req.now \in lost' \/ req.now \notin granted[req.to],
           TxInv', FreshInv'
    PROVE  FaucetInv'
<1>1. TimesInv'
  BY TimesKept DEF FaucetInv
<1>2. RequestInv'
  BY RequestKept DEF FaucetInv
<1>3. Locked' => Locked /\ req'.state = req.state
  BY InHand DEF SameRequest
<1>4. LoadedInv' /\ PaidInv' /\ SizeInv' /\ ToldInv'
  BY <1>3, PaidKept, SizeKept, ToldKept DEF FaucetInv, LoadedInv
<1>5. \A a \in Accounts : Known(a) = Known(a)'
  <2>1. CASE Locked'
    BY <2>1, <1>3 DEF Known
  <2>2. CASE ~Locked'
    BY <2>2, InHand DEF Known, NoRequest, Reading, Locked, TypeOK
  <2>3. QED
    BY <2>1, <2>2
<1>6. CountInv'
  BY <1>5, CountKept DEF FaucetInv, SameRequest
<1>7. CapUnlessLost'
  BY WindowsShrink DEF FaucetInv
<1>8. QED
  BY <1>1, <1>2, <1>4, <1>6, <1>7 DEF FaucetInv

\* Time does not pass its bound.
LEMMA AfterBounds ==
    ASSUME TypeOK, clock <= MaxTime, NEW n \in Nat
    PROVE  clock <= After(n) /\ After(n) <= MaxTime
BY FaucetAssumption DEF After, TypeOK

LEMMA StepBroadcast ==
    ASSUME TypeOK, TypeOK', FaucetInv, Accepted \/ Rejected \/ Hung
    PROVE  FaucetInv'
<1>1. req \in Request /\ Locked /\ req.pc = "broadcast"
  BY InHand DEF Accepted, Rejected, Hung
<1>2. /\ req.now \notin granted[req.to]
      /\ tx # NoTx => tx.at < req.now
      /\ req.now < clock
  BY <1>1 DEF FaucetInv, FreshInv, RequestInv
<1>3. CASE Rejected
  <2>1. req' = NoRequest /\ ~Locked' /\ clock' = clock /\ tx' = tx /\ clock <= MaxTime
    BY <1>3 DEF Rejected, Locked, FaucetInv, TimesInv
  <2>2. TxInv'
    BY <1>1, <1>3, <2>1 DEF Rejected, FaucetInv, TxInv
  <2>3. FreshInv'
    BY <1>3, <2>1 DEF Rejected, FaucetInv, FreshInv, NoRequest, Reading, Locked
  <2>4. QED
    BY <1>1, <1>2, <1>3, <2>1, <2>2, <2>3, FaucetQuiet DEF Rejected, TypeOK
<1>4. CASE Accepted
  <2>1. SameRequest /\ req'.pc = "poll" /\ Locked'
    BY <1>1, <1>4 DEF Accepted, SameRequest, Request, NoRequest, Reading, Locked
  <2>2. tx' = Sent /\ tx'.at = req.now /\ tx'.to = req.to /\ tx'.status = "waiting" /\ tx' # NoTx
    BY <1>4 DEF Accepted, Sent, NoTx
  <2>3. TimesInv'
    BY <1>2, <1>4, <2>2 DEF Accepted, FaucetInv, TimesInv
  <2>4. TxInv'
    BY <2>1, <2>2 DEF TxInv, SameRequest
  <2>5. FreshInv'
    BY <1>2, <1>4, <2>1, <2>2 DEF Accepted, FreshInv
  <2>6. RequestInv'
    BY <1>1, <1>4, <2>1, RequestKept DEF Accepted, FaucetInv, TypeOK
  <2>7. LoadedInv' /\ PaidInv' /\ SizeInv' /\ ToldInv'
    BY <1>1, <1>4, <2>1, PaidKept, SizeKept, ToldKept
       DEF Accepted, FaucetInv, SameRequest, LoadedInv
  <2>8. CountInv'
    BY <1>1, <1>4, <2>1, CountKept DEF Accepted, FaucetInv, SameRequest, Known, TypeOK
  <2>9. CapUnlessLost'
    BY <1>4, WindowsShrink DEF Accepted, FaucetInv
  <2>10. QED
    BY <2>3, <2>4, <2>5, <2>6, <2>7, <2>8, <2>9 DEF FaucetInv
<1>5. CASE Hung
  <2>1. req' = NoRequest /\ ~Locked' /\ req'.pc = "idle"
    BY <1>5 DEF Hung, NoRequest, Reading, Locked
  <2>2. tx' = Sent /\ tx'.at = req.now /\ tx'.to = req.to /\ tx'.status = "waiting" /\ tx' # NoTx
    BY <1>5 DEF Hung, Sent, NoTx
  <2>3. TimesInv'
    BY <1>2, <1>5, <2>2 DEF Hung, FaucetInv, TimesInv
  <2>4. TxInv'
    BY <1>5, <2>2 DEF Hung, TxInv
  <2>5. FreshInv'
    BY <1>2, <1>5, <2>1, <2>2 DEF Hung, FreshInv
  <2>6. RequestInv'
    BY <2>1 DEF RequestInv
  <2>7. LoadedInv' /\ PaidInv' /\ SizeInv' /\ ToldInv'
    BY <1>5, <2>1, PaidKept, SizeKept, ToldKept DEF Hung, FaucetInv, LoadedInv
  <2>8. CountInv'
    BY <1>1, <1>5, <2>1, CountKept DEF Hung, FaucetInv, Known, TypeOK
  <2>9. CapUnlessLost'
    BY <1>5, WindowsShrink DEF Hung, FaucetInv
  <2>10. QED
    BY <2>3, <2>4, <2>5, <2>6, <2>7, <2>8, <2>9 DEF FaucetInv
<1>6. QED
  BY <1>3, <1>4, <1>5

LEMMA StepPoll ==
    ASSUME TypeOK, TypeOK', FaucetInv, Sleep \/ Looked
    PROVE  FaucetInv'
<1> USE DEF Sleep, Looked, PollFound, PollFailed, PollAgain, GiveUp
<1>1. /\ req \in Request /\ Locked /\ req.pc \in {"poll", "lookup"}
      /\ UNCHANGED <<file, tx, granted, told>>
  BY InHand
<1>2. clock <= clock' /\ clock' <= MaxTime
  BY AfterBounds, FaucetAssumption DEF FaucetInv, TimesInv, TypeOK
<1>3. CASE PollFound
  <2>1. /\ SameRequest /\ Locked' /\ req'.pc = "save"
        /\ tx.status = "ok" /\ tx.at = req.now /\ tx.to = req.to /\ lost' = lost
    BY <1>1, <1>3 DEF SameRequest, Request, NoRequest, Reading, Locked, Found
  <2>2. req.now \in granted[req.to]
    BY <2>1 DEF FaucetInv, FreshInv
  <2>3. TxInv' /\ FreshInv'
    BY <1>1, <2>1 DEF FaucetInv, TxInv, FreshInv
  <2>4. QED
    BY <1>1, <1>2, <2>1, <2>2, <2>3, FaucetQuiet DEF SameRequest
<1>4. CASE PollFailed
  <2>1. /\ req' = NoRequest /\ ~Locked' /\ req'.pc = "idle"
        /\ tx.status = "failed" /\ tx.at = req.now /\ tx.to = req.to /\ lost' = lost
    BY <1>1, <1>4 DEF NoRequest, Reading, Locked, Found
  <2>2. req.now \notin granted[req.to]
    BY <2>1, InHand DEF FaucetInv, FreshInv, NoTx
  <2>3. TxInv' /\ FreshInv'
    BY <1>1, <2>1 DEF FaucetInv, TxInv, FreshInv
  <2>4. QED
    BY <1>1, <1>2, <2>1, <2>2, <2>3, FaucetQuiet
<1>5. CASE PollAgain \/ Sleep
  <2>1. /\ SameRequest /\ req'.pc \in {"poll", "lookup"} /\ lost' = lost
        /\ req.pc # "write"
    <3>1. CASE PollAgain
      <4>1. req' = [req EXCEPT !.pc = "poll", !.polls = req.polls + 1] /\ req.polls + 1 \in Nat
        BY <1>1, <3>1 DEF Request
      <4>2. QED
        BY <1>1, <3>1, <4>1 DEF SameRequest, Request
    <3>2. CASE Sleep
      BY <1>1, <3>2 DEF SameRequest, Request
    <3>3. QED
      BY <1>5, <3>1, <3>2
  <2>2. Locked'
    BY <2>1 DEF NoRequest, Reading, Locked
  <2>3. TxInv' /\ FreshInv'
    BY <1>1, <2>1 DEF FaucetInv, TxInv, FreshInv, SameRequest
  <2>4. QED
    BY <1>1, <1>2, <2>1, <2>2, <2>3, FaucetQuiet
<1>6. CASE GiveUp
  <2>1. req' = NoRequest /\ ~Locked' /\ req'.pc = "idle" /\ lost' = lost \cup {req.now}
    BY <1>6 DEF NoRequest, Reading, Locked
  <2>2. TxInv' /\ FreshInv'
    BY <1>1, <2>1 DEF FaucetInv, TxInv, FreshInv
  <2>3. QED
    BY <1>1, <1>2, <2>1, <2>2, FaucetQuiet
<1>7. QED
  BY <1>3, <1>4, <1>5, <1>6

LEMMA StepCrashOrTick ==
    ASSUME TypeOK, TypeOK', FaucetInv, (Crash /\ req.pc # "write") \/ NotPaid \/ Tick
    PROVE  FaucetInv'
<1>1. clock <= MaxTime
  BY DEF FaucetInv, TimesInv
<1>2. CASE Crash /\ req.pc # "write"
  <2>1. /\ req' = NoRequest /\ ~Locked' /\ req'.pc = "idle" /\ lost' = lost \cup {req.now}
        /\ UNCHANGED <<clock, file, tx, granted, told>>
    BY <1>2 DEF NoRequest, Reading, Locked, Crash
  <2>2. TxInv' /\ FreshInv'
    BY <2>1 DEF FaucetInv, TxInv, FreshInv
  <2>3. clock <= clock'
    BY <2>1 DEF TypeOK
  <2>4. QED
    BY <1>1, <1>2, <2>1, <2>2, <2>3, FaucetQuiet
<1>3. CASE NotPaid
  <2>1. tx \in Tx /\ UNCHANGED <<clock, file, req, granted, lost, told>>
    BY <1>3, Waiting DEF NotPaid
  <2>2. /\ tx'.status \in {"failed", "dropped"} /\ tx' # NoTx /\ tx # NoTx
        /\ tx'.at = tx.at /\ tx'.to = tx.to /\ tx.status = "waiting"
    BY <1>3, <2>1 DEF NotPaid, Tx, NoTx
  <2>3. TxInv' /\ FreshInv'
    BY <2>1, <2>2 DEF FaucetInv, TxInv, FreshInv
  <2>4. clock <= clock' /\ clock' <= MaxTime
    BY <1>1, <2>1 DEF TypeOK
  <2>5. Locked' =>
            SameRequest /\ (req'.pc \in {"save", "write"} => req'.now \in granted[req'.to])
    BY <2>1, InHand DEF SameRequest, Locked, FaucetInv, RequestInv
  <2>6. QED
    BY <2>1, <2>2, <2>3, <2>4, <2>5, FaucetQuiet DEF Locked
<1>4. CASE Tick
  <2>1. UNCHANGED <<file, req, tx, granted, lost, told>>
    BY <1>4 DEF Tick
  <2>2. TxInv' /\ FreshInv'
    BY <2>1 DEF FaucetInv, TxInv, FreshInv
  <2>3. clock <= clock' /\ clock' <= MaxTime
    BY <1>1, <1>4, AfterBounds DEF Tick
  <2>4. Locked' =>
            SameRequest /\ (req'.pc \in {"save", "write"} => req'.now \in granted[req'.to])
    BY <2>1, InHand DEF SameRequest, Locked, FaucetInv, RequestInv
  <2>5. QED
    BY <2>1, <2>2, <2>3, <2>4, FaucetQuiet DEF Locked
<1>5. QED
  BY <1>2, <1>3, <1>4

\* Connections come and go without the lock.
LEMMA StepConnect ==
    ASSUME TypeOK, TypeOK', FaucetInv, Connect \/ Dismiss
    PROVE  FaucetInv'
<1>1. /\ ~Locked /\ ~Locked' /\ req.pc \notin {"poll", "lookup"} /\ req'.pc # "broadcast"
      /\ UNCHANGED <<clock, file, tx, granted, lost, told>>
  BY DEF Connect, Dismiss, Locked, NoRequest, Reading
<1>2. TxInv' /\ FreshInv'
  BY <1>1 DEF FaucetInv, TxInv, FreshInv
<1>3. clock <= clock' /\ clock' <= MaxTime
  BY <1>1 DEF FaucetInv, TimesInv, TypeOK
<1>4. QED
  BY <1>1, <1>2, <1>3, FaucetQuiet

\* A request begins with what the file says, and room for one more.
LEMMA StepStart ==
    ASSUME TypeOK, TypeOK', FaucetInv, NEW s \in Spelling, Start(s)
    PROVE  FaucetInv'
<1> DEFINE a == Account(s)
           E == Entries(s)
<1>1. a \in Accounts /\ Key(a) \in Spelling /\ Account(Key(a)) = a /\ normalize_address(s) = Key(a)
  BY Spelled
<1>2. /\ req = Reading /\ ~Locked /\ clock' = clock + 1 /\ clock < MaxTime
      /\ clock \in Nat /\ MaxTime \in Nat
      /\ UNCHANGED <<file, tx, granted, lost, told>>
      /\ Cardinality(E) + 1 <= Cap
  BY FaucetAssumption DEF Start, Locked, ReadClock, TypeOK
<1>3. /\ Locked' /\ req'.pc = "broadcast" /\ req'.to = a /\ req'.key = Key(a)
      /\ req'.now = clock /\ req'.state = file /\ req'.entries = E
  BY <1>1 DEF Start, NoRequest, Reading, Locked
<1>4. E = {t \in file[Key(a)] : clock - t < Day} /\ file[Key(a)] \in SUBSET Nat
  BY <1>1 DEF Entries, prune, TypeOK
<1>5. IsFiniteSet(E)
  BY <1>1, <1>4, Smaller DEF FaucetInv, SizeInv, Small
<1>6. \A b \in Accounts : \A t \in granted[b] : t \in Nat /\ t < clock
  BY DEF FaucetInv, TimesInv, TypeOK
<1>7. file[Key(a)] \subseteq granted[a]
  BY <1>1 DEF FaucetInv, PaidInv, CountsOnlyGrants
<1>8. TimesInv'
  BY <1>2, TimesKept DEF FaucetInv
<1>9. TxInv'
  BY <1>2 DEF FaucetInv, TxInv, NoRequest, Reading, Locked
<1>10. FreshInv'
  BY <1>1, <1>2, <1>3, <1>6 DEF FaucetInv, FreshInv, TimesInv
<1>11. RequestInv'
  <2>1. \A t \in Counted(a) : clock - t < Day => t \in E
    BY <1>1, <1>2, <1>4 DEF FaucetInv, CountInv, Known, NoRequest, Reading, Locked
  <2>2. Counted(req.to)' = Counted(a)
    BY <1>2, <1>3 DEF Counted
  <2>3. \A t \in E : t < clock
    BY <1>1, <1>4, <1>6, <1>7
  <2>4. clock < clock'
    BY <1>2
  <2>5. QED
    BY <1>1, <1>2, <1>3, <1>4, <1>5, <2>1, <2>2, <2>3, <2>4 DEF RequestInv
<1>12. LoadedInv' /\ PaidInv' /\ SizeInv' /\ ToldInv'
  BY <1>2, <1>3 DEF FaucetInv, LoadedInv, PaidInv, CountsOnlyGrants, SizeInv, Small, ToldInv, Room
<1>13. CountInv'
  BY <1>2, <1>3, CountKept DEF FaucetInv, Known, NoRequest, Reading, Locked
<1>14. CapUnlessLost'
  BY <1>2, WindowsShrink DEF FaucetInv
<1>15. QED
  BY <1>8, <1>9, <1>10, <1>11, <1>12, <1>13, <1>14 DEF FaucetInv

\* A refused account waits for its oldest entry: the others leave room.
LEMMA StepRefuse ==
    ASSUME TypeOK, TypeOK', FaucetInv, NEW s \in Spelling, Refuse(s)
    PROVE  FaucetInv'
<1> DEFINE a == Account(s)
           E == Entries(s)
           o == Oldest(E)
           F == file[Key(a)]
<1>1. a \in Accounts /\ Key(a) \in Spelling /\ Account(Key(a)) = a /\ normalize_address(s) = Key(a)
  BY Spelled
<1>2. /\ req = Reading /\ req' = NoRequest /\ ~Locked /\ ~Locked'
      /\ clock' = clock + 1 /\ clock < MaxTime /\ clock \in Nat /\ MaxTime \in Nat
      /\ UNCHANGED <<file, tx, granted, lost>>
      /\ told' = [told EXCEPT ![a] = clock + Second * ResetIn(E, clock)]
      /\ Cardinality(E) + 1 > Cap
  BY FaucetAssumption DEF Refuse, Locked, ReadClock, TypeOK
<1>3. E = {t \in F : clock - t < Day} /\ F \in SUBSET Nat
  BY <1>1 DEF Entries, prune, TypeOK
<1>4. IsFiniteSet(F) /\ Cardinality(F) <= Cap
  BY <1>1 DEF FaucetInv, SizeInv, Small
<1>5. E # {}
  BY <1>2, FS_EmptySet, FaucetAssumption
<1>6. o \in E /\ told'[a] \in Nat /\ o + Day < told'[a] + Second
  BY <1>1, <1>2, <1>5, ToldTime DEF TypeOK
<1>7. o \in 0..MaxTime
  <2>1. o \in granted[a]
    BY <1>1, <1>3, <1>6 DEF FaucetInv, PaidInv, CountsOnlyGrants
  <2>2. o < clock
    BY <1>1, <2>1 DEF FaucetInv, TimesInv
  <2>3. QED
    BY <1>2, <1>3, <1>6, <2>2
<1>8. Cardinality({t \in F : t > o}) < Cap
  <2>1. {t \in F : t > o} \in SUBSET (F \ {o})
    BY <1>3, <1>6
  <2>2. IsFiniteSet(F \ {o}) /\ Cardinality(F \ {o}) = Cardinality(F) - 1
    BY <1>3, <1>4, <1>6, FS_RemoveElement
  <2>3. /\ Cardinality({t \in F : t > o}) <= Cardinality(F \ {o})
        /\ Cardinality({t \in F : t > o}) \in Nat
    BY <2>1, <2>2, Smaller
  <2>4. Cardinality(F) \in Nat
    BY <1>4, FS_CardinalityType
  <2>5. QED
    BY <1>4, <2>2, <2>3, <2>4, FaucetAssumption
<1>9. ToldInv'
  <2>1. SUFFICES ASSUME NEW b \in Accounts PROVE Room(file, b)'
    BY <1>2 DEF ToldInv
  <2>2. CASE b = a
    <3>1. o + Day <= told'[a] + Second
      <4>1. o \in Nat /\ Day \in Nat /\ Second \in Nat /\ told'[a] \in Nat
        BY <1>3, <1>6, FaucetAssumption
      <4> HIDE DEF o
      <4>2. QED
        BY <1>6, <4>1
    <3> HIDE DEF o
    <3>2. QED
      BY <1>2, <1>7, <1>8, <2>2, <3>1 DEF Room
  <2>3. CASE b # a
    BY <1>2, <2>3 DEF FaucetInv, ToldInv, Room, TypeOK
  <2>4. QED
    BY <2>2, <2>3
<1>10. TimesInv'
  BY <1>2, TimesKept DEF FaucetInv
<1>11. TxInv' /\ FreshInv'
  BY <1>2 DEF FaucetInv, TxInv, FreshInv, NoRequest, Reading
<1>12. RequestInv' /\ LoadedInv' /\ PaidInv' /\ SizeInv'
  BY <1>2 DEF FaucetInv, RequestInv, LoadedInv, PaidInv, CountsOnlyGrants, SizeInv, Small
<1>13. CountInv'
  BY <1>2, CountKept DEF FaucetInv, Known, NoRequest, Reading
<1>14. CapUnlessLost'
  BY <1>2, WindowsShrink DEF FaucetInv
<1>15. QED
  BY <1>9, <1>10, <1>11, <1>12, <1>13, <1>14 DEF FaucetInv

\* A grant to the request in hand finds no more than its entries in any day that
\* ends with it; any other grant has lost its record.
LEMMA StepPay ==
    ASSUME TypeOK, TypeOK', FaucetInv, Pay
    PROVE  FaucetInv'
<1> DEFINE a == tx.to
           n == tx.at
<1>1. /\ tx \in Tx /\ tx # NoTx /\ tx.status = "waiting" /\ a \in Accounts /\ n \in Nat
      /\ UNCHANGED <<clock, file, req, lost, told>>
      /\ granted' = [granted EXCEPT ![a] = @ \cup {n}]
  BY Waiting DEF Pay, Tx
<1>2. tx' # NoTx /\ tx'.status = "ok" /\ tx'.at = n /\ tx'.to = a
  BY <1>1 DEF Pay, Tx, NoTx
<1>3. \A b \in Accounts : granted'[b] = granted[b] \cup (IF b = a THEN {n} ELSE {})
  BY <1>1 DEF TypeOK
<1>4. n \in lost \/ (req.pc \in {"poll", "lookup"} /\ Locked /\ n = req.now /\ a = req.to)
  BY <1>1, InHand DEF FaucetInv, TxInv
<1>5. TimesInv'
  BY <1>1, <1>2, <1>3 DEF FaucetInv, TimesInv
<1>6. TxInv'
  BY <1>2 DEF TxInv
<1>7. FreshInv'
  <2>1. req.pc = "broadcast" => req.now # n
    BY <1>1, InHand DEF FaucetInv, FreshInv, TypeOK, Request
  <2>2. req.pc = "broadcast" => req.to \in Accounts
    BY InHand DEF Request
  <2>3. QED
    BY <1>1, <1>2, <1>3, <2>1, <2>2 DEF FaucetInv, FreshInv
<1>8. \A b \in Accounts : \A t \in Counted(b)' :
          t \in Counted(b) \/ (Locked /\ b = req.to /\ t = req.now)
  BY <1>1, <1>3, <1>4 DEF Counted
<1>9. RequestInv'
  <2>1. SUFFICES ASSUME Locked PROVE RequestInv'
    BY <1>1 DEF RequestInv, Locked
  <2>2. req.to \in Accounts
    BY <2>1, InHand DEF Request
  <2>3. granted[req.to] \subseteq granted'[req.to]
    BY <1>3, <2>2
  <2>4. \A t \in Counted(req.to)' : t \in Counted(req.to) \/ t = req.now
    BY <1>1, <1>8, <2>2 DEF Counted
  <2>5. QED
    BY <1>1, <2>1, <2>3, <2>4 DEF FaucetInv, RequestInv, Locked
<1>10. PaidInv'
  BY <1>1, <1>3, Spelled DEF FaucetInv, PaidInv, CountsOnlyGrants, Locked
<1>11. CountInv'
  <2>1. \A b \in Accounts : Known(b)' = Known(b)
    BY <1>1 DEF Known
  <2>2. QED
    BY <1>1, <1>8, <2>1 DEF FaucetInv, CountInv, Locked
<1>12. CapUnlessLost'
  <2>1. SUFFICES ASSUME NEW b \in Accounts, NEW start \in 0..MaxTime
                 PROVE  Cardinality(Within(granted'[b] \ lost, start)) <= Cap
    BY <1>1 DEF CapUnlessLost, Within
  <2> DEFINE S == Within(granted[b] \ lost, start)
             T == Within(granted'[b] \ lost, start)
  <2>2. CASE T = S
    BY <2>2 DEF FaucetInv, CapUnlessLost
  <2>3. CASE T # S
    <3>1. b = a /\ n \notin lost /\ start <= n /\ n < start + Day
      BY <1>3, <2>3 DEF Within
    <3>2. Locked /\ n = req.now /\ a = req.to
      BY <1>4, <3>1
    <3>3. /\ IsFiniteSet(req.entries) /\ Cardinality(req.entries) + 1 <= Cap
          /\ \A t \in Counted(a) : n - t < Day => t \in req.entries \/ t = n
      BY <3>2 DEF FaucetInv, RequestInv
    <3>4. \A t \in S : t \in Counted(a) /\ n - t < Day
      <4>1. SUFFICES ASSUME NEW t \in S PROVE t \in Counted(a) /\ n - t < Day
        OBVIOUS
      <4>2. t \in Counted(a) /\ start <= t /\ t \in Nat
        BY <3>1 DEF Within, Counted, TypeOK
      <4>3. start \in Nat /\ Day \in Nat
        BY FaucetAssumption
      <4>4. QED
        BY <1>1, <3>1, <4>2, <4>3
    <3>5. T \in SUBSET (req.entries \cup {n})
      BY <1>3, <3>1, <3>3, <3>4 DEF Within
    <3>6. /\ IsFiniteSet(req.entries \cup {n})
          /\ Cardinality(req.entries \cup {n}) <= Cardinality(req.entries) + 1
          /\ Cardinality(req.entries) \in Nat
      BY <3>3, OneMore
    <3>7. Cardinality(T) <= Cardinality(req.entries \cup {n}) /\ Cardinality(T) \in Nat
          /\ Cardinality(req.entries \cup {n}) \in Nat
      BY <3>5, <3>6, Smaller
    <3>8. QED
      BY <3>3, <3>6, <3>7, FaucetAssumption
  <2>4. QED
    BY <2>2, <2>3
<1>13. LoadedInv' /\ SizeInv' /\ ToldInv'
  BY <1>1 DEF FaucetInv, LoadedInv, SizeInv, Small, ToldInv, Room, Locked
<1>14. QED
  BY <1>5, <1>6, <1>7, <1>9, <1>10, <1>11, <1>12, <1>13 DEF FaucetInv

LEMMA StepTruncate ==
    ASSUME TypeOK, TypeOK', FaucetInv, Truncate
    PROVE  FaucetInv'
<1>1. /\ req \in Request /\ Locked /\ req.pc = "save" /\ file' = NoGrants
      /\ UNCHANGED <<clock, tx, granted, lost, told>>
  BY InHand DEF Truncate
<1>2. SameRequest /\ req'.pc = "write" /\ Locked'
  BY <1>1 DEF Truncate, SameRequest, Request, NoRequest, Reading, Locked
<1>3. clock <= clock' /\ clock' <= MaxTime
  BY <1>1 DEF TypeOK, FaucetInv, TimesInv
<1>4. TimesInv' /\ TxInv' /\ FreshInv'
  BY <1>1, <1>2 DEF FaucetInv, TimesInv, TxInv, FreshInv
<1>5. RequestInv'
  BY <1>1, <1>2, <1>3, RequestKept DEF FaucetInv, RequestInv, SameRequest
<1>6. LoadedInv' /\ PaidInv'
  BY <1>1, <1>2 DEF FaucetInv, LoadedInv, PaidInv, CountsOnlyGrants, NoGrants, SameRequest
<1>7. CountInv'
  <2>1. \A a \in Accounts : Known(a)' = Known(a)
    BY <1>1, <1>2 DEF FaucetInv, LoadedInv, Known, SameRequest
  <2>2. QED
    BY <1>1, <1>2, <1>3, <2>1, CountKept DEF FaucetInv, SameRequest
<1>8. CapUnlessLost'
  BY <1>1, WindowsShrink DEF FaucetInv
<1>9. SizeInv'
  <2>1. Small(file)'
    BY <1>1, FS_EmptySet, FaucetAssumption DEF Small, NoGrants
  <2>2. QED
    BY <1>1, <1>2, <2>1 DEF FaucetInv, SizeInv, Small, SameRequest
<1>10. ToldInv'
  <2>1. \A a \in Accounts : Room(req.state, a)'
    BY <1>1, <1>2 DEF FaucetInv, ToldInv, Room, SameRequest
  <2>2. \A a \in Accounts : Room(file, a)'
    <3>1. SUFFICES ASSUME NEW a \in Accounts, told[a] # 0
                   PROVE  \E ts \in 0..MaxTime :
                              /\ ts + Day <= told[a] + Second
                              /\ Cardinality({t \in NoGrants[Key(a)] : t > ts}) < Cap
      BY <1>1 DEF Room
    <3>2. PICK ts \in 0..MaxTime : ts + Day <= told[a] + Second
      <4>1. Room(file, a)
        BY DEF FaucetInv, ToldInv
      <4>2. QED
        BY <3>1, <4>1 DEF Room
    <3>3. {t \in NoGrants[Key(a)] : t > ts} = {}
      BY Spelled DEF NoGrants
    <3>4. Cardinality({t \in NoGrants[Key(a)] : t > ts}) < Cap
      BY <3>3, FS_EmptySet, FaucetAssumption
    <3>5. QED
      BY <3>2, <3>4
  <2>3. QED
    BY <1>2, <2>1, <2>2 DEF ToldInv, SameRequest, Room
<1>11. QED
  BY <1>4, <1>5, <1>6, <1>7, <1>8, <1>9, <1>10 DEF FaucetInv

\* What is written is what was loaded, with the account's recent entries and the
\* new one.
LEMMA StepWrite ==
    ASSUME TypeOK, TypeOK', FaucetInv, Write
    PROVE  FaucetInv'
<1> DEFINE a == req.to
           N == req.entries \cup {req.now}
<1>1. /\ req \in Request /\ Locked /\ req.pc = "write" /\ a \in Accounts
      /\ req' = NoRequest /\ ~Locked' /\ req'.pc = "idle"
      /\ UNCHANGED <<clock, tx, granted, lost>>
  BY InHand DEF Write, Request, NoRequest, Reading, Locked
<1>2. /\ req.key = Key(a) /\ Key(a) \in Spelling /\ Account(Key(a)) = a
      /\ req.now \in granted[a] /\ req.entries \subseteq req.state[Key(a)]
      /\ IsFiniteSet(req.entries) /\ Cardinality(req.entries) + 1 <= Cap
      /\ req.now < clock /\ req.now \in Nat /\ clock \in Nat
  BY <1>1, Spelled DEF FaucetInv, RequestInv, Request, TypeOK
<1>3. /\ file'[Key(a)] = N
      /\ \A s \in Spelling : s # Key(a) => file'[s] = req.state[s]
      /\ told'[a] = 0 /\ \A b \in Accounts : b # a => told'[b] = told[b]
  BY <1>1, <1>2 DEF Write, Request, TypeOK
<1>4. TimesInv' /\ TxInv' /\ FreshInv' /\ RequestInv' /\ LoadedInv'
  BY <1>1 DEF FaucetInv, TimesInv, TxInv, FreshInv, RequestInv, LoadedInv
<1>5. PaidInv'
  <2>1. \A s \in Spelling : file'[s] \subseteq granted[Account(s)]
    BY <1>1, <1>2, <1>3 DEF FaucetInv, PaidInv
  <2>2. QED
    BY <1>1, <2>1 DEF PaidInv, CountsOnlyGrants
<1>6. CountInv'
  <2>1. SUFFICES ASSUME NEW b \in Accounts, NEW t \in Counted(b), clock - t < Day
                 PROVE  t \in file'[Key(b)]
    BY <1>1 DEF CountInv, Counted, Known
  <2>2. t \in Nat /\ t \in granted[b]
    BY DEF Counted, TypeOK
  <2>3. CASE b = a
    <3>1. req.now - t < Day
      BY <1>2, <2>1, <2>2, Recent
    <3>2. t \in N
      BY <1>1, <2>3, <3>1 DEF FaucetInv, RequestInv
    <3>3. QED
      BY <1>3, <2>3, <3>2
  <2>4. CASE b # a
    <3>1. t \in req.state[Key(b)]
      BY <1>1, <2>1, <2>4 DEF FaucetInv, CountInv, Known
    <3>2. Key(b) # Key(a) /\ Key(b) \in Spelling
      BY <2>4, Spelled DEF Key
    <3>3. QED
      BY <1>3, <3>1, <3>2
  <2>5. QED
    BY <2>3, <2>4
<1>7. CapUnlessLost'
  BY <1>1, WindowsShrink DEF FaucetInv
<1>8. SizeInv'
  <2>1. IsFiniteSet(N) /\ Cardinality(N) <= Cap
    <3>1. /\ IsFiniteSet(N)
          /\ Cardinality(req.entries) \in Nat /\ Cardinality(N) \in Nat
          /\ Cardinality(N) <= Cardinality(req.entries) + 1
      BY <1>2, OneMore
    <3> HIDE DEF N
    <3>2. QED
      BY <1>2, <3>1, FaucetAssumption
  <2>2. QED
    BY <1>1, <1>2, <1>3, <2>1 DEF FaucetInv, SizeInv, Small
<1>9. ToldInv'
  <2>1. SUFFICES ASSUME NEW b \in Accounts PROVE Room(file, b)'
    BY <1>1 DEF ToldInv
  <2>2. CASE b = a
    BY <1>3, <2>2 DEF Room
  <2>3. CASE b # a
    <3>1. Key(b) # Key(a) /\ Key(b) \in Spelling
      BY <2>3, Spelled DEF Key
    <3>2. QED
      BY <1>1, <1>3, <2>3, <3>1 DEF FaucetInv, ToldInv, Room
  <2>4. QED
    BY <2>2, <2>3
<1>10. QED
  BY <1>4, <1>5, <1>6, <1>7, <1>8, <1>9 DEF FaucetInv

\* A crash while the file is empty loses the records of all that it held.
LEMMA StepTorn ==
    ASSUME TypeOK, TypeOK', FaucetInv, Crash, req.pc = "write"
    PROVE  FaucetInv'
<1>1. /\ req \in Request /\ Locked /\ req' = NoRequest /\ ~Locked' /\ req'.pc = "idle"
      /\ lost' = lost \cup {req.now} \cup UNION {req.state[k] : k \in Spelling}
      /\ UNCHANGED <<clock, file, tx, granted, told>>
  BY InHand DEF Crash, NoRequest, Reading, Locked
<1>2. TimesInv' /\ TxInv' /\ FreshInv' /\ RequestInv' /\ LoadedInv' /\ SizeInv' /\ ToldInv'
  BY <1>1 DEF FaucetInv, TimesInv, TxInv, FreshInv, RequestInv, LoadedInv,
              SizeInv, Small, ToldInv, Room
<1>3. PaidInv'
  BY <1>1 DEF FaucetInv, PaidInv, CountsOnlyGrants
<1>4. CountInv'
  <2>1. SUFFICES ASSUME NEW a \in Accounts, NEW t \in granted[a], t \notin lost',
                        clock - t < Day
                 PROVE  FALSE
    BY <1>1 DEF CountInv, Counted
  <2>2. t \in Counted(a)
    BY <1>1, <2>1 DEF Counted
  <2>3. t \in req.state[Key(a)] \/ t = req.now
    BY <2>1, <2>2 DEF FaucetInv, CountInv, Known
  <2>4. QED
    BY <1>1, <2>1, <2>3, Spelled
<1>5. CapUnlessLost'
  BY <1>1, WindowsShrink DEF FaucetInv
<1>6. QED
  BY <1>2, <1>3, <1>4, <1>5 DEF FaucetInv

-------------------------------------------------------------------------------
(* Theorems *)

LEMMA FaucetInvInit == Init => FaucetInv
<1> SUFFICES ASSUME Init PROVE FaucetInv
  OBVIOUS
<1> USE DEF Init
<1>1. TimesInv /\ TxInv /\ FreshInv /\ RequestInv /\ LoadedInv
  BY FaucetAssumption DEF TimesInv, TxInv, FreshInv, RequestInv, LoadedInv, NoTx, NoRequest, Reading, Locked
<1>2. PaidInv /\ CountInv
  BY DEF PaidInv, CountsOnlyGrants, NoGrants, CountInv, Counted, NoRequest, Reading, Locked
<1>3. CapUnlessLost
  <2>1. \A a \in Accounts, start \in 0..MaxTime : Within(granted[a] \ lost, start) = {}
    BY DEF Within
  <2>2. QED
    BY <2>1, FS_EmptySet, FaucetAssumption DEF CapUnlessLost
<1>4. SizeInv /\ ToldInv
  BY FS_EmptySet, FaucetAssumption DEF SizeInv, Small, NoGrants, ToldInv, Room, Locked
<1>5. QED
  BY <1>1, <1>2, <1>3, <1>4 DEF FaucetInv

LEMMA FaucetInvStep ==
    ASSUME TypeOK, TypeOK', FaucetInv, [Next]_vars
    PROVE  FaucetInv'
<1>1. CASE \E s \in Spelling : Refuse(s) \/ Start(s)
  BY <1>1, StepRefuse, StepStart
<1>2. CASE Timed \/ Looked
  BY <1>2, StepBroadcast, StepPoll, StepTruncate, StepWrite DEF Timed
<1>3. CASE Crash
  BY <1>3, StepTorn, StepCrashOrTick
<1>4. CASE Pay
  BY <1>4, StepPay
<1>5. CASE NotPaid \/ Tick
  BY <1>5, StepCrashOrTick
<1>6. CASE UNCHANGED vars
  BY <1>6 DEF vars, FaucetInv, TimesInv, TxInv, FreshInv, RequestInv, LoadedInv, PaidInv,
              CountsOnlyGrants, CountInv, Counted, Known, CapUnlessLost, Within,
              SizeInv, Small, ToldInv, Room, Locked
<1>7. CASE Connect \/ Dismiss
  BY <1>7, StepConnect
<1>8. QED
  BY <1>1, <1>2, <1>3, <1>4, <1>5, <1>6, <1>7 DEF Next

\* The conjunction of what is needed to see that the cap holds.
THEOREM FaucetInvariant == Spec => [](TypeOK /\ FaucetInv)
<1>1. Spec => []TypeOK
  BY FaucetTypeCorrect
<1>2. TypeOK /\ TypeOK' /\ FaucetInv /\ [Next]_vars => FaucetInv'
  BY FaucetInvStep
<1>3. QED
  BY <1>1, <1>2, FaucetInvInit, PTL DEF Spec

\* Nobody is refused for a grant he did not get: every entry of the file was paid,
\* whatever failed, hung or was killed.
THEOREM OnlyGrantsCounted == Spec => []CountsOnlyGrants
BY FaucetInvariant, PTL DEF FaucetInv, PaidInv

\* Over any day an account gets at most the cap, apart from the grants whose
\* record was lost: late transactions and new ones do not add up otherwise.
THEOREM CapHeld == Spec => []CapUnlessLost
BY FaucetInvariant, PTL DEF FaucetInv

\* One second after the time it was told, an account is served, for every cap, day
\* and length of a second.
THEOREM RetryHeld == Spec => []RetryServed
<1>1. TypeOK /\ FaucetInv => RetryServed
  <2>1. SUFFICES ASSUME TypeOK, FaucetInv, NEW a \in Accounts,
                        told[a] # 0, clock >= told[a] + Second
                 PROVE  Served(a)
    BY DEF RetryServed
  <2> DEFINE F == file[Key(a)]
  <2>2. PICK ts \in 0..MaxTime :
            ts + Day <= told[a] + Second /\ Cardinality({t \in F : t > ts}) < Cap
    BY <2>1 DEF FaucetInv, ToldInv, Room
  <2>3. F \in SUBSET Nat /\ IsFiniteSet(F) /\ told[a] \in Nat /\ clock \in Nat
    BY <2>1, Spelled DEF FaucetInv, SizeInv, Small, TypeOK
  <2>4. prune(F, clock) \in SUBSET {t \in F : t > ts}
    <3>1. SUFFICES ASSUME NEW t \in F, clock - t < Day PROVE t > ts
      BY DEF prune
    <3>2. t \in Nat /\ Day \in Nat /\ Second \in Nat
      BY <2>3, FaucetAssumption
    <3>3. QED
      BY <2>1, <2>2, <2>3, <3>1, <3>2
  <2>5. IsFiniteSet({t \in F : t > ts})
    BY <2>3, Smaller
  <2>6. /\ Cardinality(prune(F, clock)) <= Cardinality({t \in F : t > ts})
        /\ Cardinality(prune(F, clock)) \in Nat /\ Cardinality({t \in F : t > ts}) \in Nat
    BY <2>4, <2>5, Smaller
  <2>7. QED
    BY <2>2, <2>6, FaucetAssumption DEF Served
<1>2. QED
  BY <1>1, FaucetInvariant, PTL
-------------------------------------------------------------------------------
(* Every request ends, if its lookups return: what of Answered is a matter of *)
(* safety                                                                  *)

PollsInv == Locked => req.polls \in 0..(Polls - 1)

\* The most steps that the request in hand has left, once it holds the lock; a turn
\* of the loop is two, a sleep and a lookup.
StepsLeft ==
    CASE ~Locked -> 0
      [] Locked /\ req.pc = "broadcast" -> 2 * Polls + 3
      [] Locked /\ req.pc = "poll" -> 2 * (Polls - req.polls) + 2
      [] Locked /\ req.pc = "lookup" -> 2 * (Polls - req.polls) + 1
      [] Locked /\ req.pc = "save" -> 2
      [] OTHER -> 1

\* Each step of the thread, and each lookup that returns, brings the request nearer
\* to its end, and nothing the chain, the clock or a crash does sends it back.
NeverSentBack ==
    [][/\ Timed \/ Looked => StepsLeft' < StepsLeft
       /\ Locked => StepsLeft' <= StepsLeft]_vars

LEMMA StepsOf ==
    ASSUME TypeOK, PollsInv
    PROVE  /\ StepsLeft \in 0..(2 * Polls + 3)
           /\ ~Locked => StepsLeft = 0
           /\ Locked => StepsLeft > 0
<1>1. Polls \in Nat \ {0}
  BY FaucetAssumption
<1>2. CASE ~Locked
  BY <1>1, <1>2 DEF StepsLeft
<1>3. CASE Locked
  <2>1. req.polls \in 0..(Polls - 1)
    BY <1>3 DEF PollsInv
  <2>2. QED
    BY <1>1, <1>3, <2>1 DEF StepsLeft
<1>4. QED
  BY <1>2, <1>3

\* The steps of the thread are those of a request in hand.
LEMMA InLock ==
    ASSUME TypeOK, Timed \/ Looked
    PROVE  Locked /\ req \in Request
BY InHand DEF Timed, Looked, Accepted, Rejected, Hung, Sleep, PollFound, PollFailed,
              PollAgain, GiveUp, Truncate, Write

\* The loop of lookups is bounded, and only it counts them.
LEMMA PollsStep == TypeOK /\ PollsInv /\ [Next]_vars => PollsInv'
<1> SUFFICES ASSUME TypeOK, PollsInv, [Next]_vars PROVE PollsInv'
  OBVIOUS
<1>1. Polls \in Nat \ {0}
  BY FaucetAssumption
<1>2. CASE UNCHANGED req
  BY <1>2 DEF PollsInv, Locked
<1>3. CASE req' \in {NoRequest, Reading}
  BY <1>3 DEF PollsInv, Locked
<1>4. ASSUME NEW s \in Spelling, Start(s) PROVE PollsInv'
  BY <1>1, <1>4 DEF Start, PollsInv
<1>5. CASE Locked /\ \E pc : req' = [req EXCEPT !.pc = pc]
  <2>1. req \in Request
    BY <1>5, InHand
  <2>2. req'.polls = req.polls
    BY <1>5, <2>1 DEF Request
  <2>3. QED
    BY <1>5, <2>2 DEF PollsInv
<1>6. CASE PollAgain
  <2>1. req \in Request /\ req.polls \in 0..(Polls - 1)
    BY <1>6, InLock DEF Looked, PollsInv
  <2>2. req'.polls = req.polls + 1 /\ req.polls + 1 < Polls
    BY <1>6, <2>1 DEF PollAgain, Request
  <2>3. QED
    BY <1>1, <2>1, <2>2 DEF PollsInv
<1>7. CASE Accepted \/ Sleep \/ PollFound \/ Truncate
  BY <1>5, <1>7, InLock DEF Timed, Looked, Accepted, Sleep, PollFound, Truncate
<1>8. CASE Rejected \/ Hung \/ PollFailed \/ GiveUp \/ Write
  BY <1>3, <1>8 DEF Rejected, Hung, PollFailed, GiveUp, Write
<1>9. QED
  BY <1>2, <1>3, <1>4, <1>6, <1>7, <1>8
     DEF Next, Timed, Looked, Connect, Dismiss, Refuse, Crash, Pay, NotPaid, Tick, vars

\* A request that holds the lock takes at most 2 * Polls + 3 steps, lookups that
\* return among them, whatever happens in between.
THEOREM RequestsBounded == Spec => [](StepsLeft \in 0..(2 * Polls + 3)) /\ NeverSentBack
<1>1. Init => PollsInv
  BY DEF Init, PollsInv, Locked
<1>2. TypeOK /\ PollsInv => StepsLeft \in 0..(2 * Polls + 3)
  BY StepsOf
<1>3. TypeOK /\ PollsInv /\ [Next]_vars =>
        [/\ Timed \/ Looked => StepsLeft' < StepsLeft
         /\ Locked => StepsLeft' <= StepsLeft]_vars
  <2> SUFFICES ASSUME TypeOK, PollsInv, Next
               PROVE  /\ Timed \/ Looked => StepsLeft' < StepsLeft
                      /\ Locked => StepsLeft' <= StepsLeft
    BY DEF vars
  <2>1. Polls \in Nat \ {0} /\ StepsLeft \in Nat
    BY StepsOf, FaucetAssumption
  <2>2. CASE ~(Timed \/ Looked)
    <3>1. \/ ~Locked \/ req' = req \/ ~Locked'
      BY <2>2 DEF Next, Connect, Dismiss, Refuse, Start, Crash, Pay, NotPaid, Tick, Locked
    <3>2. CASE req' = req
      BY <2>1, <2>2, <3>2 DEF StepsLeft, Locked
    <3>3. CASE ~Locked'
      BY <2>1, <2>2, <3>3 DEF StepsLeft
    <3>4. QED
      BY <2>2, <3>1, <3>2, <3>3
  <2>3. CASE Timed \/ Looked
    <3>1. Locked /\ StepsLeft > 0
      BY <2>3, StepsOf, InLock
    <3>2. req \in Request /\ req.polls \in 0..(Polls - 1)
      BY <2>3, <3>1, InLock DEF PollsInv
    <3>3. CASE Rejected \/ Hung \/ PollFailed \/ GiveUp \/ Write
      BY <2>1, <3>1, <3>3 DEF StepsLeft, Locked, Rejected, Hung, PollFailed, GiveUp, Write
    <3>4. CASE Accepted
      <4>1. req.pc = "broadcast" /\ req'.pc = "poll" /\ Locked'
            /\ req'.polls \in 0..(Polls - 1)
        BY <3>2, <3>4 DEF Accepted, Request, NoRequest, Reading, Locked
      <4>2. QED
        BY <2>1, <3>1, <4>1 DEF StepsLeft
    <3>5. CASE Sleep
      <4>1. req.pc = "poll" /\ req'.pc = "lookup" /\ Locked' /\ req'.polls = req.polls
        BY <3>2, <3>5 DEF Sleep, Request, NoRequest, Reading, Locked
      <4>2. QED
        BY <2>1, <3>1, <3>2, <4>1 DEF StepsLeft
    <3>6. CASE PollFound
      <4>1. req.pc = "lookup" /\ req'.pc = "save" /\ Locked'
        BY <3>2, <3>6 DEF PollFound, Request, NoRequest, Reading, Locked
      <4>2. QED
        BY <2>1, <3>1, <3>2, <4>1 DEF StepsLeft
    <3>7. CASE PollAgain
      <4>1. req.pc = "lookup" /\ req'.pc = "poll" /\ Locked'
            /\ req'.polls = req.polls + 1
        BY <3>2, <3>7 DEF PollAgain, Request, NoRequest, Reading, Locked
      <4>2. QED
        BY <2>1, <3>1, <3>2, <4>1 DEF StepsLeft
    <3>8. CASE Truncate
      <4>1. req.pc = "save" /\ req'.pc = "write" /\ Locked'
        BY <3>2, <3>8 DEF Truncate, Request, NoRequest, Reading, Locked
      <4>2. QED
        BY <2>1, <3>1, <4>1 DEF StepsLeft
    <3>9. QED
      BY <2>3, <3>3, <3>4, <3>5, <3>6, <3>7, <3>8 DEF Timed, Looked
  <2>4. QED
    BY <2>2, <2>3
<1>4. QED
  BY <1>1, <1>2, <1>3, PollsStep, FaucetTypeCorrect, PTL DEF Spec, NeverSentBack
================================================================================
