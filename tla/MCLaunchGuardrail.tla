--------------------------- MODULE MCLaunchGuardrail ---------------------------
(***************************************************************************)
(* Small instances of LaunchGuardrail for TLC.                             *)
(***************************************************************************)
EXTENDS LaunchGuardrail, TLC

\* No account is special: owner and guardian are any of them.
AccountSymmetry == Permutations(Accounts)
================================================================================
