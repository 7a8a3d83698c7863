------------------------------- MODULE Settlement -------------------------------
(***************************************************************************)
(* What the receive middleware and the claim precompile promise to an        *)
(* account, with nothing of how a call runs, in which form the account holds *)
(* what it has, or where a call fails: a packet is settled once, for its      *)
(* whole amount or not at all, what is claimed is exactly what was owed, and  *)
(* nothing else moves.  All that may be lost is what does not make up a unit  *)
(* of the underlying token.  Module Unwrap is shown to implement this one.   *)
(***************************************************************************)
EXTENDS Integers, Functions

CONSTANTS
    Accounts, Validators, Denoms,
    Packets,        \* with the account, denomination and amount of each
    MinWithdraw     \* one unit of an underlying token

VARIABLES
    wealth,         \* wealth[a][d]: what account a has of denomination d, in any form
    owed,           \* owed[a][v][d]: the rewards a has yet to claim from validator v
    status          \* of each packet

vars == <<wealth, owed, status>>

Init ==
    /\ wealth \in [Accounts -> [Denoms -> Nat]]
    /\ owed = [a \in Accounts |-> [v \in Validators |-> [d \in Denoms |-> 0]]]
    /\ status = [p \in Packets |-> "sent"]

\* What may be lost of an amount when it is unwrapped.
Dust(amount) == 0..(amount % MinWithdraw)

More(a, d) == wealth'[a][d] - wealth[a][d]

\* What a's validators owe it in all.
Due(a, d) == SumFunction([v \in Validators |-> owed[a][v][d]])
Paid(a, d) == Due(a, d) - Due(a, d)'

\* p's receiver gets its amount, or shares it with an account that a contract called
\* back by the packet has given some of it.
Receive(p) ==
    /\ status[p] = "sent"
    /\ status' = [status EXCEPT ![p] = "received"]
    /\ \E a \in Accounts :
           /\ \A b \in Accounts \ {p.to, a} : wealth'[b] = wealth[b]
           /\ \A b \in {p.to, a}, d \in Denoms \ {p.denom} : More(b, d) = 0
           /\ a = p.to => p.amount - More(p.to, p.denom) \in Dust(p.amount)
           /\ a # p.to =>
                  /\ More(a, p.denom) > 0
                  /\ p.amount - More(p.to, p.denom) - More(a, p.denom) \in Dust(p.amount)
    /\ UNCHANGED owed

\* p is refused, or not received in time.
Refund(p) ==
    /\ status[p] = "sent"
    /\ \E s \in {"refused", "refunded"} : status' = [status EXCEPT ![p] = s]
    /\ UNCHANGED <<wealth, owed>>

\* a is paid all that some validators owe it; of one denomination it may be unwrapped.
Claim(a) ==
    /\ owed' # owed
    /\ \A b \in Accounts \ {a} : wealth'[b] = wealth[b] /\ owed'[b] = owed[b]
    /\ \A v \in Validators : owed'[a][v] \in {owed[a][v], [d \in Denoms |-> 0]}
    /\ \E d \in Denoms :
           /\ \A e \in Denoms \ {d} : More(a, e) = Paid(a, e)
           /\ Paid(a, d) - More(a, d) \in Dust(Paid(a, d))
    /\ UNCHANGED status

\* v owes a more of d.
Accrue(a, v, d) ==
    /\ owed'[a][v][d] > owed[a][v][d]
    /\ owed' = [owed EXCEPT ![a][v][d] = owed'[a][v][d]]
    /\ UNCHANGED <<wealth, status>>

Next ==
    \/ \E p \in Packets : Receive(p) \/ Refund(p)
    \/ \E a \in Accounts :
           \/ Claim(a)
           \/ \E v \in Validators, d \in Denoms : Accrue(a, v, d)

Spec == Init /\ [][Next]_vars
================================================================================
