----------------------------- MODULE MCGovTimelock -----------------------------
(***************************************************************************)
(* Small instances of GovTimelock for TLC.                                 *)
(***************************************************************************)
EXTENDS GovTimelock

\* A chain that existed before the timelock (no activation height until the
\* upgrade), and a new one that activates at its second block.
MCGenesisHeights == {0, 2}

\* Unset, so that GetExecutionDelay falls back to MinimumDelay.
MCGenesisDelays == {0}

\* Consecutive blocks, and one gap in block time long enough to let entries
\* that were due apart become due together.
MCGaps == {1, 2}

\* Periods a message may change the voting period between, during a vote.
MCVotingPeriods == {2, 3}
================================================================================
