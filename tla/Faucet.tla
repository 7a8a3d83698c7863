--------------------------------- MODULE Faucet ---------------------------------
(***************************************************************************)
(* ops/docker/faucet/faucet.py: a server that sends an amount on request,   *)
(* up to a cap per account and day, and keeps what it sent in a file.       *)
(*                                                                         *)
(* One thread serves one request at a time. It reads the request, and then, *)
(* under the lock, refuses it at once or goes through broadcast, a bounded  *)
(* number of lookups, and the two steps of writing the file; the process    *)
(* may be killed between any two of them, and the chain settles the         *)
(* transaction whenever it likes, or never. Neither the client that is read *)
(* from nor a lookup need ever answer. Every grant has the same amount, so  *)
(* the cap is a number of grants. Times are ticks, several to a second.     *)
(***************************************************************************)
EXTENDS Integers, FiniteSets

CONSTANTS
    Accounts,   \* accounts of the chain
    Cap,        \* DAILY_CAP_ESP \div AMOUNT_ESP
    Day,        \* 86400 seconds, in ticks
    Second,     \* ticks per second
    Polls,      \* how often the transaction is looked up
    MaxTime     \* bound: the clock stops there

ASSUME FaucetAssumption ==
    /\ Cap \in Nat \ {0}
    /\ Day \in Nat \ {0}
    /\ Second \in Nat \ {0}
    /\ Polls \in Nat \ {0}
    /\ MaxTime \in Nat \ {0}

VARIABLES
    clock,    \* time.time()
    file,     \* STATE_FILE as load_state reads it: times of the grants, by key
    req,      \* the request in hand
    tx,       \* the faucet key's last transaction: the next one needs its sequence
    granted,  \* history: the times of the requests the chain has paid, by account
    lost,     \* history: the times of the requests whose record was lost
    told      \* history: when an account was told to come back, 0 if it was not

vars == <<clock, file, req, tx, granted, lost, told>>

\* An account is written as 0x... or as ark1..., and only once as the latter.
Spelling == Accounts \X {"bech32", "hex"}
Account(spelling) == spelling[1]
Key(a) == <<a, "bech32">>

\* Mutant: what was sent is used as it is.
AsSent(spelling) == spelling

normalize_address(spelling) == Key(Account(spelling))

\* A file that is missing or cut short reads as no grants at all.
NoGrants == [k \in Spelling |-> {}]

NoRequest == [pc |-> "idle"]
Reading == [pc |-> "read"]

\* The thread holds the lock.
Locked == req \notin {NoRequest, Reading}

NoTx == [status |-> "none"]

Init ==
    /\ clock = 1
    /\ file = NoGrants
    /\ req = NoRequest
    /\ tx = NoTx
    /\ granted = [a \in Accounts |-> {}]
    /\ lost = {}
    /\ told = [a \in Accounts |-> 0]

-------------------------------------------------------------------------------
(* do_POST, up to the broadcast *)

\* The thread takes a connection and reads from it: without the lock, but it is
\* the only thread.
Connect ==
    /\ req = NoRequest
    /\ req' = Reading
    /\ UNCHANGED <<clock, file, tx, granted, lost, told>>

\* A page, a request refused as it stands (400, 404), a client that goes away, or
\* a process that is killed meanwhile.
Dismiss ==
    /\ req = Reading
    /\ req' = NoRequest
    /\ UNCHANGED <<clock, file, tx, granted, lost, told>>

prune(entries, now) == {t \in entries : now - t < Day}

Oldest(entries) == CHOOSE t \in entries : \A u \in entries : t <= u

\* Mutant: the second in which the oldest entry expires is not counted.
ResetTooEarly(entries, now) ==
    IF entries = {} THEN Day \div Second ELSE (Day - (now - Oldest(entries))) \div Second - 1

\* retry_after_seconds: int() cuts off what is left of a second.
ResetIn(entries, now) ==
    IF entries = {} THEN Day \div Second ELSE (Day - (now - Oldest(entries))) \div Second

\* The clock is read once, and never gives the same time twice.
ReadClock ==
    /\ clock < MaxTime
    /\ clock' = clock + 1

Entries(spelling) == prune(file[normalize_address(spelling)], clock)

\* 429, all in one step: nothing else runs.
Refuse(spelling) ==
    /\ req = Reading
    /\ ReadClock
    /\ Cardinality(Entries(spelling)) + 1 > Cap
    /\ req' = NoRequest
    /\ told' = [told EXCEPT ![Account(spelling)] =
                   clock + Second * ResetIn(Entries(spelling), clock)]
    /\ UNCHANGED <<file, tx, granted, lost>>

\* Mutant: only the account's part of the file is loaded.
StartLoadsOne(spelling) ==
    /\ req = Reading
    /\ ReadClock
    /\ Cardinality(Entries(spelling)) + 1 <= Cap
    /\ req' = [pc |-> "broadcast", to |-> Account(spelling),
               key |-> normalize_address(spelling), now |-> clock,
               state |-> [k \in {normalize_address(spelling)} |-> file[k]],
               entries |-> Entries(spelling), polls |-> 0]
    /\ UNCHANGED <<file, tx, granted, lost, told>>

\* The file is loaded once; what is written at the end is built from that.
Start(spelling) ==
    /\ req = Reading
    /\ ReadClock
    /\ Cardinality(Entries(spelling)) + 1 <= Cap
    /\ req' = [pc |-> "broadcast", to |-> Account(spelling),
               key |-> normalize_address(spelling), now |-> clock,
               state |-> file, entries |-> Entries(spelling), polls |-> 0]
    /\ UNCHANGED <<file, tx, granted, lost, told>>

-------------------------------------------------------------------------------
(* broadcast_and_confirm *)

Sent == [to |-> req.to, at |-> req.now, status |-> "waiting"]

\* While one transaction waits, another with the same sequence is rejected.
Accepted ==
    /\ req.pc = "broadcast"
    /\ tx.status # "waiting"
    /\ tx' = Sent
    /\ req' = [req EXCEPT !.pc = "poll"]
    /\ UNCHANGED <<clock, file, granted, lost, told>>

\* No gas price, a rejection, or a gas price query that hangs: nothing was sent.
Rejected ==
    /\ req.pc = "broadcast"
    /\ req' = NoRequest
    /\ UNCHANGED <<clock, file, tx, granted, lost, told>>

\* The broadcast hangs past its timeout after the node took the transaction: the
\* exception is not a FaucetError, and ends the request with no answer.
Hung ==
    /\ req.pc = "broadcast"
    /\ tx.status # "waiting"
    /\ tx' = Sent
    /\ lost' = lost \cup {req.now}
    /\ req' = NoRequest
    /\ UNCHANGED <<clock, file, granted, told>>

\* Time stops at its bound; what sleeps there goes on.
After(ticks) == IF clock + ticks <= MaxTime THEN clock + ticks ELSE MaxTime

Found(status) == tx = [to |-> req.to, at |-> req.now, status |-> status]

\* One turn of the loop: a second's sleep, and then the lookup is started. It is
\* given no timeout, and need not return.
Sleep ==
    /\ req.pc = "poll"
    /\ clock' = After(Second)
    /\ req' = [req EXCEPT !.pc = "lookup"]
    /\ UNCHANGED <<file, tx, granted, lost, told>>

\* Mutant: the code of the transaction found is not looked at.
PollFoundAny ==
    /\ req.pc = "lookup"
    /\ Found("ok") \/ Found("failed")
    /\ req' = [req EXCEPT !.pc = "save"]
    /\ UNCHANGED <<clock, file, tx, granted, lost, told>>

\* The transaction was executed.
PollFound ==
    /\ req.pc = "lookup"
    /\ Found("ok")
    /\ req' = [req EXCEPT !.pc = "save"]
    /\ UNCHANGED <<clock, file, tx, granted, lost, told>>

\* The transaction failed on chain: 502.
PollFailed ==
    /\ req.pc = "lookup"
    /\ Found("failed")
    /\ req' = NoRequest
    /\ UNCHANGED <<clock, file, tx, granted, lost, told>>

\* The node does not know the transaction, or answers with an error.
PollAgain ==
    /\ req.pc = "lookup"
    /\ req.polls + 1 < Polls
    /\ req' = [req EXCEPT !.pc = "poll", !.polls = @ + 1]
    /\ UNCHANGED <<clock, file, tx, granted, lost, told>>

\* Mutant: the last lookup waits for another.
GiveUpNever ==
    /\ req.pc = "lookup"
    /\ req.polls + 1 >= Polls
    /\ req' = [req EXCEPT !.pc = "poll"]
    /\ UNCHANGED <<clock, file, tx, granted, lost, told>>

\* Nor did the last lookup find it: 502, and the transaction is forgotten.
GiveUp ==
    /\ req.pc = "lookup"
    /\ req.polls + 1 >= Polls
    /\ lost' = lost \cup {req.now}
    /\ req' = NoRequest
    /\ UNCHANGED <<clock, file, tx, granted, told>>

-------------------------------------------------------------------------------
(* save_state *)

\* Opening the file for writing empties it.
Truncate ==
    /\ req.pc = "save"
    /\ file' = NoGrants
    /\ req' = [req EXCEPT !.pc = "write"]
    /\ UNCHANGED <<clock, tx, granted, lost, told>>

\* The state is written, and the request answered with 200.
Write ==
    /\ req.pc = "write"
    /\ file' = [req.state EXCEPT ![req.key] = req.entries \cup {req.now}]
    /\ told' = [told EXCEPT ![req.to] = 0]
    /\ req' = NoRequest
    /\ UNCHANGED <<clock, tx, granted, lost>>

-------------------------------------------------------------------------------
(* Faults and the chain *)

\* The process is killed and started again: the request in hand is gone, and
\* between the two steps of save_state the file is too.
Crash ==
    /\ Locked
    /\ lost' = lost \cup {req.now}
                    \cup IF req.pc = "write" THEN UNION {req.state[k] : k \in Spelling} ELSE {}
    /\ req' = NoRequest
    /\ UNCHANGED <<clock, file, tx, granted, told>>

\* The chain executes the transaction: the account is paid.
Pay ==
    /\ tx.status = "waiting"
    /\ tx' = [tx EXCEPT !.status = "ok"]
    /\ granted' = [granted EXCEPT ![tx.to] = @ \cup {tx.at}]
    /\ UNCHANGED <<clock, file, req, lost, told>>

\* It fails on chain, or is dropped before it gets there.
NotPaid ==
    /\ tx.status = "waiting"
    /\ \E status \in {"failed", "dropped"} : tx' = [tx EXCEPT !.status = status]
    /\ UNCHANGED <<clock, file, req, granted, lost, told>>

Tick ==
    /\ clock' = After(1)
    /\ UNCHANGED <<file, req, tx, granted, lost, told>>

-------------------------------------------------------------------------------

\* What the process does by itself with the request in hand, and the code bounds:
\* the gas price query and the broadcast have timeouts, a sleep ends, and the file
\* is on the local disk.
Timed == Accepted \/ Rejected \/ Hung \/ Sleep \/ Truncate \/ Write

\* What a lookup comes to, if it returns.
Looked == PollFound \/ PollFailed \/ PollAgain \/ GiveUp

Next ==
    \/ Connect \/ Dismiss
    \/ \E s \in Spelling : Refuse(s) \/ Start(s)
    \/ Timed \/ Looked
    \/ Crash
    \/ Pay \/ NotPaid
    \/ Tick

Spec == Init /\ [][Next]_vars

\* No client is taken to send the rest of its request, and no lookup to return.
FairSpec == Spec /\ WF_vars(Timed)

-------------------------------------------------------------------------------
(* Properties *)

Request ==
    [pc : {"broadcast", "poll", "lookup", "save", "write"}, to : Accounts, key : Spelling, now : Nat,
     state : [Spelling -> SUBSET Nat], entries : SUBSET Nat, polls : Nat]

Tx == [to : Accounts, at : Nat, status : {"waiting", "ok", "failed", "dropped"}]

TypeOK ==
    /\ clock \in Nat
    /\ file \in [Spelling -> SUBSET Nat]
    /\ req \in Request \cup {NoRequest, Reading}
    /\ tx \in Tx \cup {NoTx}
    /\ granted \in [Accounts -> SUBSET Nat]
    /\ lost \in SUBSET Nat
    /\ told \in [Accounts -> Nat]

\* Nobody is refused for something he did not get: all that the file counts
\* against an account was paid to it, whatever failed, hung or was killed.
CountsOnlyGrants == \A s \in Spelling : file[s] \subseteq granted[Account(s)]

\* The times of a set that lie within a day from start.
Within(times, start) == {t \in times : start <= t /\ t < start + Day}

\* The cap holds for all grants but those whose record was lost: over any day,
\* wherever it starts, whichever way the account is spelled, and with
\* transactions that are executed after their request was given up.
CapUnlessLost ==
    \A a \in Accounts, start \in 0..MaxTime :
        Cardinality(Within(granted[a] \ lost, start)) <= Cap

\* "{cap} KASH max per address per 24h", as the form says.
DailyCap ==
    \A a \in Accounts, start \in 0..MaxTime : Cardinality(Within(granted[a], start)) <= Cap

\* Whether the file would let the account have a grant now.
Served(a) == Cardinality(prune(file[Key(a)], clock)) + 1 <= Cap

\* An account that waits one second longer than it was told is served, unless it
\* got a grant in the meantime.
RetryServed == \A a \in Accounts : told[a] # 0 /\ clock >= told[a] + Second => Served(a)

\* The thread becomes free again and again, whatever the chain executes, refuses or
\* forgets, and however slowly, but for the two waits the code puts no end to: for
\* the rest of a client's request, and for one lookup that never returns.
Answered ==
    []<>(req = NoRequest) \/ <>[](req = Reading) \/ <>[](req.pc = "lookup")
================================================================================
