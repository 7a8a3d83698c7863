---------------------------- MODULE MCSlidingWindow ----------------------------
(***************************************************************************)
(* LaunchGuardrail with a record of when each amount was accepted, to       *)
(* compare its fixed epochs with the sliding window its comments describe.  *)
(***************************************************************************)
EXTENDS LaunchGuardrail

VARIABLE accepted   \* history: what was accepted of each account at each time

\* Block time: it starts at EpochDuration and stops at MaxTime.
Times == 0..(EpochDuration + MaxTime)

SlidingInit == Init /\ accepted = [ua \in Account |-> [t \in Times |-> 0]]

\* A revert takes back what it accepted; time does not pass during a call.
Recorded(ua) ==
    IF now' = now THEN [accepted[ua] EXCEPT ![now] = @ + spent'[ua] - spent[ua]]
                  ELSE accepted[ua]

\* The limits stay as they are: no deposit is judged by two of them.
SlidingNext ==
    /\ Next
    /\ UNCHANGED limits
    /\ accepted' = [ua \in Account |-> Recorded(ua)]

SlidingSpec == SlidingInit /\ [][SlidingNext]_<<vars, accepted>>

\* What was accepted of an account in the EpochDuration from start on.
AcceptedFrom(ua, start) ==
    SumFunctionOnSet(accepted[ua], {t \in Times : start <= t /\ t < start + EpochDuration})

\* What an account deposits in any 24 hours is within the daily limit: the
\* "24-hour sliding window" of LaunchGuardrail.sol's comments.
SlidingWindow == \A ua \in Account, start \in Times : AcceptedFrom(ua, start) <= limits.daily

\* What does hold of any 24 hours: twice the daily limit, once for each of the two
\* epochs they may lie in.
TwiceTheLimit ==
    \A ua \in Account, start \in Times : AcceptedFrom(ua, start) <= 2 * limits.daily
================================================================================
