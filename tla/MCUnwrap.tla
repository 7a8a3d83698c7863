-------------------------------- MODULE MCUnwrap --------------------------------
(***************************************************************************)
(* Unwrap with two accounts and two packets for one of them, the second of   *)
(* less than what can be unwrapped.                                        *)
(***************************************************************************)
EXTENDS Unwrap, TLC

CONSTANTS alice, bob, wrapped, plain

MCPackets ==
    {[id |-> 1, denom |-> wrapped, to |-> alice, amount |-> 3, unwrap |-> TRUE],
     [id |-> 2, denom |-> wrapped, to |-> alice, amount |-> 1, unwrap |-> TRUE]}

\* No action and no property tells validators apart.
Symmetry == Permutations(Validators)
================================================================================
