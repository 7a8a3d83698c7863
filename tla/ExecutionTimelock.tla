--------------------------- MODULE ExecutionTimelock ---------------------------
(***************************************************************************)
(* What the governance execution timelock promises, with nothing of how it *)
(* is done: once the timelock is armed, a decision that passes waits the    *)
(* chain's delay, and then takes effect once or is discarded; it is never   *)
(* left waiting.  Module GovTimelock is shown to implement this one.        *)
(***************************************************************************)
EXTENDS Naturals

CONSTANT Id         \* the decisions (proposals) ever made

VARIABLES
    clock,          \* block time
    wait,           \* how long a passed decision waits, fixed at genesis
    armed,          \* does the timelock govern execution?
    stage,          \* stage[p]: where decision p stands
    decidedAt       \* decidedAt[p]: when the vote on p passed

vars == <<clock, wait, armed, stage, decidedAt>>

Init ==
    /\ clock \in Nat
    /\ wait \in Nat \ {0}
    /\ armed \in BOOLEAN
    /\ stage = [p \in Id |-> "open"]
    /\ decidedAt = [p \in Id |-> 0]

MoveOn(p, s) == stage' = [stage EXCEPT ![p] = s]

Decide(p) == decidedAt' = [decidedAt EXCEPT ![p] = clock]

\* A new block; the timelock is armed at some block and stays armed.
Tick ==
    /\ clock' \in Nat
    /\ clock' >= clock
    /\ armed' \in BOOLEAN
    /\ armed => armed'
    /\ UNCHANGED <<wait, stage, decidedAt>>

\* The vote on p passes under the timelock.
Pass(p) ==
    /\ armed
    /\ stage[p] = "open"
    /\ MoveOn(p, "waiting")
    /\ Decide(p)
    /\ UNCHANGED <<clock, wait, armed>>

\* The vote on p passes before the timelock is armed: it takes effect, or
\* fails to, at once.
PassAtOnce(p) ==
    /\ ~armed
    /\ stage[p] = "open"
    /\ MoveOn(p, "effective") \/ MoveOn(p, "void")
    /\ Decide(p)
    /\ UNCHANGED <<clock, wait, armed>>

\* p is closed without having passed.
Close(p) ==
    /\ stage[p] = "open"
    /\ MoveOn(p, "void")
    /\ UNCHANGED <<clock, wait, armed, decidedAt>>

\* p has waited long enough: it takes effect or is discarded.
Release(p) ==
    /\ stage[p] = "waiting"
    /\ clock >= decidedAt[p] + wait
    /\ MoveOn(p, "effective") \/ MoveOn(p, "void")
    /\ UNCHANGED <<clock, wait, armed, decidedAt>>

\* A fork of the chain starts armed, and with nothing waiting.
Fork ==
    /\ clock' \in Nat
    /\ clock' >= clock
    /\ armed' = TRUE
    /\ stage' = [p \in Id |-> IF stage[p] = "waiting" THEN "void" ELSE stage[p]]
    /\ UNCHANGED <<wait, decidedAt>>

Next ==
    \/ Tick
    \/ Fork
    \/ \E p \in Id : Pass(p) \/ PassAtOnce(p) \/ Close(p) \/ Release(p)

Safety == Init /\ [][Next]_vars

Spec == Safety /\ \A p \in Id : WF_vars(Release(p))
================================================================================
