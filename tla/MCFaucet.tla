-------------------------------- MODULE MCFaucet --------------------------------
(***************************************************************************)
(* Faucet with some of its faults left out.                                *)
(***************************************************************************)
EXTENDS Faucet

\* Nothing hangs and nothing is killed: what is left to go wrong is that a
\* transaction is executed after the last poll.
SlowNext ==
    \/ Connect \/ \E s \in Spelling : Refuse(s) \/ Start(s)
    \/ Accepted \/ Sleep \/ Looked \/ Truncate \/ Write
    \/ Pay \/ NotPaid \/ Tick

SlowSpec == Init /\ [][SlowNext]_vars
================================================================================
