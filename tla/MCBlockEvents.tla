------------------------------ MODULE MCBlockEvents ------------------------------
(***************************************************************************)
(* BlockEvents with three blocks, of no, one and two transactions.          *)
(***************************************************************************)
EXTENDS BlockEvents

MCNumTxs == [h \in Heights |-> h - 1]

\* One height, several, or one twice.
MCArgLists == {<<1>>, <<2>>, <<2, 3>>, <<3, 2, 3>>}
================================================================================
