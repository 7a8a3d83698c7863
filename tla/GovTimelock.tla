------------------------------ MODULE GovTimelock ------------------------------
(***************************************************************************)
(* x/govtimelock: the end-of-block processing of governance proposals with *)
(* a delay between a passed vote and the execution of its messages, with    *)
(* the parts of x/gov it drives and is driven by (external), the v8.5.0     *)
(* upgrade, and the two kinds of genesis export.                            *)
(*                                                                         *)
(* A block is the phases                                                   *)
(*   "deliver"  transactions (x/gov's message handlers),                   *)
(*   "inactive" processInactiveProposals,                                  *)
(*   "tally"    processEndedVotingPeriods,                                 *)
(*   "matured"  executeMaturedProposals,                                   *)
(*   "commit"   EndBlock returned, the block is committed.                 *)
(* Each loop of EndBlocker ranges over a snapshot of a queue, kept in work, *)
(* and takes its entries in key order, one per step.                        *)
(***************************************************************************)
EXTENDS Integers, FiniteSets

CONSTANTS
    MaxId,            \* proposals 1..MaxId are ever submitted
    DepositPeriod,    \* x/gov max_deposit_period
    ExpeditedPeriod,  \* x/gov expedited_voting_period
    VotingPeriods,    \* the values x/gov voting_period may take
    MinimumDelay,     \* types.MinimumDelay, the fallback of GetExecutionDelay
    GenesisDelays,    \* execution_delay in genesis (0 when unset)
    GenesisHeights,   \* activation_height in genesis (0 when unset)
    NumMsgs,          \* messages of a proposal
    Faulty,           \* proposals whose record may be lost or altered
    Gaps,             \* how far block time can advance between two blocks
    MaxTime,          \* bound: block time saturates here
    MaxHeight         \* bound: block height saturates here

ASSUME SizeAssumption ==
    /\ MaxId \in Nat
    /\ Faulty \subseteq 1..MaxId
    /\ NumMsgs \in Nat \ {0}
    /\ MaxTime \in Nat \ {0}
    /\ MaxHeight \in Nat \ {0}
    /\ Gaps \subseteq Nat \ {0}

ASSUME PeriodAssumption ==
    /\ DepositPeriod \in Nat \ {0}
    /\ ExpeditedPeriod \in Nat \ {0}
    /\ VotingPeriods \subseteq Nat \ {0}
    /\ VotingPeriods # {}
    /\ \A v \in VotingPeriods : ExpeditedPeriod < v   \* x/gov Params.ValidateBasic

ASSUME GenesisAssumption ==
    /\ MinimumDelay \in Nat \ {0}
    /\ GenesisDelays \subseteq Nat
    /\ GenesisHeights \subseteq 0..MaxHeight

VARIABLES
    height,       \* ctx.BlockHeight()
    now,          \* ctx.BlockTime()
    phase,        \* where the block is
    work,         \* entries of the running loop's snapshot still to process
    active,       \* EndBlocker's local: IsActive when EndBlock began
    nextId,       \* x/gov's proposal id sequence
    status,       \* x/gov Proposals: status of each record
    expedited,    \* Proposal.Expedited
    depositEnd,   \* Proposal.DepositEndTime (0 when nil)
    votingStart,  \* Proposal.VotingStartTime (0 when nil)
    votingEnd,    \* Proposal.VotingEndTime (0 when nil)
    inactiveQ,    \* x/gov InactiveProposalsQueue, keys <<time, id>>
    activeQ,      \* x/gov ActiveProposalsQueue, keys <<time, id>>
    deposit,      \* what became of the proposal's deposits
    votingPeriod, \* x/gov Params.VotingPeriod
    schedule,     \* Keeper.ScheduledProposals, keys <<time, id>>
    activation,   \* Keeper.ActivationHeight (0 when unset)
    delay,        \* Keeper.ExecutionDelay (0 when unset)
    written,      \* how many of the proposal's messages are in committed state
    hooked,       \* calls of AfterProposalVotingPeriodEnded
    tallies,      \* history: votes of the proposal that were counted
    passedAt,     \* history: block time of the tally that passed (0: none yet)
    forked        \* history: proposals whose schedule a zero-height export cleared

record == <<status, expedited, depositEnd, votingStart, votingEnd>>
timelock == <<schedule, activation, delay>>
block == <<height, now>>
history == <<tallies, passedAt, forked>>

vars == <<height, now, phase, work, active, nextId, record, inactiveQ, activeQ,
          deposit, votingPeriod, timelock, written, hooked, history>>

Id == 1..MaxId
Entry == Nat \X Id

\* "absent": no record; "corrupt": Proposals.Get returns ErrEncoding, as for a
\* record with a message type the running binary does not know.
Status == {"absent", "deposit", "voting", "passed", "rejected", "failed", "corrupt"}
Loaded == Status \ {"absent", "corrupt"}
Deposit == {"none", "held", "refunded", "burned", "charged"}

AtMost(x, bound) == IF x < bound THEN x ELSE bound

-------------------------------------------------------------------------------
(* Keeper *)

\* Mutant: an unset activation height counts as height 0.
IsActiveWhenUnset == height >= activation

\* IsActive: unset is inactive, whatever the height.
IsActive == activation # 0 /\ height >= activation

\* GetExecutionDelay(MinimumDelay): a stored value of zero or less means unset.
ExecutionDelay == IF delay > 0 THEN delay ELSE MinimumDelay

\* Mutant: the range ends before now.
DueBeforeNow(queue) == {e \in queue : e[1] < now}

\* NewPrefixUntilPairRange(now): the entries at or before now.
Due(queue) == {e \in queue : e[1] <= now}

\* Key order of collections.Pair[time, id].
Before(e, f) == e[1] < f[1] \/ (e[1] = f[1] /\ e[2] < f[2])

\* Mutant: the snapshot is taken in no particular order.
TakesAny(e) == e \in work

\* The entry the running loop takes next.
Takes(e) == e \in work /\ \A f \in work : f = e \/ Before(e, f)

Scheduled == {e[2] : e \in schedule}

-------------------------------------------------------------------------------
(* Genesis *)

Init ==
    /\ height = 1
    /\ now = 1
    /\ phase = "deliver"
    /\ work = {}
    /\ active = FALSE
    /\ nextId = 1
    /\ status = [p \in Id |-> "absent"]
    /\ expedited = [p \in Id |-> FALSE]
    /\ depositEnd = [p \in Id |-> 0]
    /\ votingStart = [p \in Id |-> 0]
    /\ votingEnd = [p \in Id |-> 0]
    /\ inactiveQ = {}
    /\ activeQ = {}
    /\ deposit = [p \in Id |-> "none"]
    /\ votingPeriod \in VotingPeriods
    /\ schedule = {}
    /\ activation \in GenesisHeights
    /\ delay \in GenesisDelays
    /\ written = [p \in Id |-> 0]
    /\ hooked = [p \in Id |-> 0]
    /\ tallies = [p \in Id |-> 0]
    /\ passedAt = [p \in Id |-> 0]
    /\ forked = {}

-------------------------------------------------------------------------------
(* x/gov transactions (external) *)

Delivering == phase = "deliver" /\ UNCHANGED <<block, phase, work, active, timelock,
                                   votingPeriod, written, hooked, history>>

\* MsgSubmitProposal, with an initial deposit below the minimum.
Submit ==
    /\ Delivering
    /\ nextId \in Id
    /\ \E x \in BOOLEAN : expedited' = [expedited EXCEPT ![nextId] = x]
    /\ status' = [status EXCEPT ![nextId] = "deposit"]
    /\ depositEnd' = [depositEnd EXCEPT ![nextId] = now + DepositPeriod]
    /\ inactiveQ' = inactiveQ \cup {<<now + DepositPeriod, nextId>>}
    /\ deposit' = [deposit EXCEPT ![nextId] = "held"]
    /\ nextId' = nextId + 1
    /\ UNCHANGED <<votingStart, votingEnd, activeQ>>

\* MsgDeposit that reaches the minimum: Keeper.ActivateVotingPeriod.
StartVoting(p) ==
    /\ Delivering
    /\ status[p] = "deposit"
    /\ LET end == now + IF expedited[p] THEN ExpeditedPeriod ELSE votingPeriod
       IN /\ votingEnd' = [votingEnd EXCEPT ![p] = end]
          /\ activeQ' = activeQ \cup {<<end, p>>}
    /\ votingStart' = [votingStart EXCEPT ![p] = now]
    /\ status' = [status EXCEPT ![p] = "voting"]
    /\ inactiveQ' = inactiveQ \ {<<depositEnd[p], p>>}
    /\ UNCHANGED <<nextId, expedited, depositEnd, deposit>>

\* A record replaced by one with a status and no other field, or removed.
Overwrite(p, s) ==
    /\ status' = [status EXCEPT ![p] = s]
    /\ expedited' = [expedited EXCEPT ![p] = FALSE]
    /\ depositEnd' = [depositEnd EXCEPT ![p] = 0]
    /\ votingStart' = [votingStart EXCEPT ![p] = 0]
    /\ votingEnd' = [votingEnd EXCEPT ![p] = 0]

\* Keeper.DeleteProposal: the queue keys come from the record it loads.
DeleteProposal(p) ==
    /\ Overwrite(p, "absent")
    /\ inactiveQ' = inactiveQ \ {<<depositEnd[p], p>>}
    /\ activeQ' = activeQ \ {<<votingEnd[p], p>>}

\* MsgCancelProposal by the proposer, before the vote has ended.
Cancel(p) ==
    /\ Delivering
    /\ status[p] \in {"deposit", "voting"}
    /\ status[p] = "voting" => votingEnd[p] >= now
    /\ DeleteProposal(p)
    /\ deposit' = [deposit EXCEPT ![p] = "charged"]
    /\ UNCHANGED nextId

\* A record EndBlocker has yet to read stops decoding: the new binary of a
\* restart no longer registers one of its message types.
Unregister(p) ==
    /\ Delivering
    /\ status[p] \in {"deposit", "voting", "passed"}
    /\ status[p] = "passed" => p \in Scheduled
    /\ status' = [status EXCEPT ![p] = "corrupt"]
    /\ UNCHANGED <<nextId, expedited, depositEnd, votingStart, votingEnd,
                   inactiveQ, activeQ, deposit>>

\* Something outside x/govtimelock removes a scheduled proposal's record or
\* moves it off StatusPassed.
Meddle(p) ==
    /\ Delivering
    /\ p \in Scheduled
    /\ status[p] = "passed"
    /\ \E s \in {"absent", "failed"} : Overwrite(p, s)
    /\ UNCHANGED <<nextId, inactiveQ, activeQ, deposit>>

-------------------------------------------------------------------------------
(* EndBlocker: processInactiveProposals *)

\* EndBlocker begins: active is read once, for the whole of EndBlock.
BeginEndBlock ==
    /\ phase = "deliver"
    /\ phase' = "inactive"
    /\ active' = IsActive
    /\ work' = Due(inactiveQ)
    /\ UNCHANGED <<block, nextId, record, inactiveQ, activeQ, deposit, votingPeriod,
                   timelock, written, hooked, history>>

\* RefundAndDeleteDeposits, DeleteAndBurnDeposits: nothing to do a second time.
SettleDeposit(p, how) ==
    deposit' = [deposit EXCEPT ![p] = IF @ = "held" THEN how ELSE @]

Inactive(e) == phase = "inactive" /\ Takes(e) /\ work' = work \ {e}
               /\ UNCHANGED <<block, phase, active, nextId, votingPeriod, timelock,
                              written, hooked, history>>

\* Mutant: the queue entry is left to DeleteProposal.
InactiveEntryKept(e) ==
    /\ Inactive(e)
    /\ status[e[2]] = "corrupt"
    /\ Overwrite(e[2], "absent")
    /\ SettleDeposit(e[2], "refunded")
    /\ UNCHANGED <<inactiveQ, activeQ>>

\* failUnsupportedProposal overwrites the record with one that has no queue
\* times, so the queue entry is removed by its own key.
InactiveUnsupported(e) ==
    /\ Inactive(e)
    /\ status[e[2]] = "corrupt"
    /\ Overwrite(e[2], "absent")
    /\ SettleDeposit(e[2], "refunded")
    /\ inactiveQ' = inactiveQ \ {e}
    /\ UNCHANGED activeQ

\* The minimum deposit was not met.  The parameter burn_proposal_deposit_prevote
\* decides what becomes of the deposits.
InactiveDropped(e) ==
    /\ Inactive(e)
    /\ status[e[2]] \in Loaded
    /\ DeleteProposal(e[2])
    /\ \E how \in {"refunded", "burned"} : SettleDeposit(e[2], how)

\* An entry without a record makes the loop, and EndBlock with it, return an
\* error: no step is left, the chain halts.
InactiveDone ==
    /\ phase = "inactive"
    /\ work = {}
    /\ phase' = "tally"
    /\ work' = Due(activeQ)
    /\ UNCHANGED <<block, active, nextId, record, inactiveQ, activeQ, deposit, votingPeriod,
                   timelock, written, hooked, history>>

-------------------------------------------------------------------------------
(* EndBlocker: processEndedVotingPeriods *)

\* runVotingPeriodEndedHook: called once, whether or not the hook fails.
RunHook(p) == hooked' = [hooked EXCEPT ![p] = @ + 1]

\* Mutant: the messages run on the block's own context.
ExecuteUncached(p) ==
    \E done \in 0..NumMsgs :
        /\ status' = [status EXCEPT ![p] = IF done = NumMsgs THEN "passed" ELSE "failed"]
        /\ written' = [written EXCEPT ![p] = @ + done]
        /\ votingPeriod' \in VotingPeriods

\* executeProposal: the messages run in order on a cache context, which is
\* written only if all of them succeed.  What a message changes is, of the
\* state here, at most the voting period.
ExecuteProposal(p) ==
    \E done \in 0..NumMsgs :
        IF done = NumMsgs
        THEN /\ status' = [status EXCEPT ![p] = "passed"]
             /\ written' = [written EXCEPT ![p] = @ + done]
             /\ votingPeriod' \in VotingPeriods
        ELSE /\ status' = [status EXCEPT ![p] = "failed"]
             /\ UNCHANGED <<written, votingPeriod>>

Tally(e) == phase = "tally" /\ Takes(e) /\ work' = work \ {e}
            /\ UNCHANGED <<block, phase, active, nextId, inactiveQ, activation, delay, forked>>

Counted(e) == Tally(e) /\ status[e[2]] \in Loaded
              /\ tallies' = [tallies EXCEPT ![e[2]] = @ + 1]
              /\ UNCHANGED <<depositEnd, votingStart>>

SettleByTally(p) == \E how \in {"refunded", "burned"} : SettleDeposit(p, how)

TallyUnsupported(e) ==
    /\ Tally(e)
    /\ status[e[2]] = "corrupt"
    /\ Overwrite(e[2], "failed")
    /\ SettleDeposit(e[2], "refunded")
    /\ activeQ' = activeQ \ {e}
    /\ UNCHANGED <<votingPeriod, schedule, written, hooked,
                   tallies, passedAt>>

\* passes && !active: stock x/gov, the messages run in this block.
TallyPassedStock(e) ==
    /\ Counted(e)
    /\ ~active
    /\ SettleByTally(e[2])
    /\ activeQ' = activeQ \ {e}
    /\ ExecuteProposal(e[2])
    /\ passedAt' = [passedAt EXCEPT ![e[2]] = now]
    /\ RunHook(e[2])
    /\ UNCHANGED <<expedited, votingEnd, schedule>>

\* Mutant: the hook runs at the tally, as in stock x/gov.
TallyScheduledHooked(e) ==
    /\ Counted(e)
    /\ active
    /\ SettleByTally(e[2])
    /\ activeQ' = activeQ \ {e}
    /\ schedule' = schedule \cup {<<now + ExecutionDelay, e[2]>>}
    /\ status' = [status EXCEPT ![e[2]] = "passed"]
    /\ passedAt' = [passedAt EXCEPT ![e[2]] = now]
    /\ RunHook(e[2])
    /\ UNCHANGED <<expedited, votingEnd, votingPeriod, written>>

\* Mutant: an expedited proposal skips the delay.
TallyExpeditedAtOnce(e) ==
    /\ Counted(e)
    /\ active
    /\ SettleByTally(e[2])
    /\ activeQ' = activeQ \ {e}
    /\ schedule' = schedule \cup
           {<<IF expedited[e[2]] THEN now ELSE now + ExecutionDelay, e[2]>>}
    /\ status' = [status EXCEPT ![e[2]] = "passed"]
    /\ passedAt' = [passedAt EXCEPT ![e[2]] = now]
    /\ UNCHANGED <<expedited, votingEnd, votingPeriod, written, hooked>>

\* passes: the messages wait, and so does the hook.
TallyPassedScheduled(e) ==
    /\ Counted(e)
    /\ active
    /\ SettleByTally(e[2])
    /\ activeQ' = activeQ \ {e}
    /\ schedule' = schedule \cup {<<now + ExecutionDelay, e[2]>>}
    /\ status' = [status EXCEPT ![e[2]] = "passed"]
    /\ passedAt' = [passedAt EXCEPT ![e[2]] = now]
    /\ UNCHANGED <<expedited, votingEnd, votingPeriod, written, hooked>>

\* Mutants: the deposits are settled too soon; the vote is not queued again.
Converted(e, settles, requeues) ==
    /\ Counted(e)
    /\ expedited[e[2]]
    /\ expedited' = [expedited EXCEPT ![e[2]] = FALSE]
    /\ IF settles THEN SettleByTally(e[2]) ELSE UNCHANGED deposit
    /\ LET end == votingStart[e[2]] + votingPeriod
       IN /\ votingEnd' = [votingEnd EXCEPT ![e[2]] = end]
          /\ activeQ' = (activeQ \ {e}) \cup IF requeues THEN {<<end, e[2]>>} ELSE {}
    /\ RunHook(e[2])
    /\ UNCHANGED <<status, votingPeriod, schedule, written, passedAt>>

ConvertedSettled(e) == Converted(e, TRUE, TRUE)
ConvertedNotQueued(e) == Converted(e, FALSE, FALSE)

\* An expedited vote that fails becomes a regular one: it goes back to the
\* queue, to end a voting period after its start, and keeps its deposits.
TallyConverted(e) ==
    /\ Counted(e)
    /\ expedited[e[2]]
    /\ expedited' = [expedited EXCEPT ![e[2]] = FALSE]
    /\ LET end == votingStart[e[2]] + votingPeriod
       IN /\ votingEnd' = [votingEnd EXCEPT ![e[2]] = end]
          /\ activeQ' = (activeQ \ {e}) \cup {<<end, e[2]>>}
    /\ RunHook(e[2])
    /\ UNCHANGED <<status, deposit, votingPeriod, schedule, written, passedAt>>

TallyRejected(e) ==
    /\ Counted(e)
    /\ ~expedited[e[2]]
    /\ SettleByTally(e[2])
    /\ activeQ' = activeQ \ {e}
    /\ status' = [status EXCEPT ![e[2]] = "rejected"]
    /\ RunHook(e[2])
    /\ UNCHANGED <<expedited, votingEnd, votingPeriod, schedule, written, passedAt>>

\* Mutant: every scheduled entry counts as matured.
TallyDoneAllMatured ==
    /\ phase = "tally"
    /\ work = {}
    /\ IF active THEN phase' = "matured" /\ work' = schedule
                 ELSE phase' = "commit" /\ work' = {}
    /\ UNCHANGED <<block, active, nextId, record, inactiveQ, activeQ, deposit, votingPeriod,
                   timelock, written, hooked, history>>

\* EndBlocker returns here when the timelock is not active.
TallyDone ==
    /\ phase = "tally"
    /\ work = {}
    /\ IF active THEN phase' = "matured" /\ work' = Due(schedule)
                 ELSE phase' = "commit" /\ work' = {}
    /\ UNCHANGED <<block, active, nextId, record, inactiveQ, activeQ, deposit, votingPeriod,
                   timelock, written, hooked, history>>

-------------------------------------------------------------------------------
(* EndBlocker: executeMaturedProposals *)

Matured(e) == phase = "matured" /\ Takes(e) /\ work' = work \ {e}
              /\ schedule' = schedule \ {e}
              /\ RunHook(e[2])
              /\ UNCHANGED <<block, phase, active, nextId, inactiveQ, activeQ, deposit,
                             activation, delay, history>>

\* Mutant: a record that does not decode ends the loop.
MaturedUnloadableStops(e) ==
    /\ Matured(e)
    /\ status[e[2]] = "absent"
    /\ UNCHANGED <<record, written, votingPeriod>>

\* The record cannot be loaded: one that does not decode is overwritten, and
\* the entry is dropped.
MaturedUnloadable(e) ==
    /\ Matured(e)
    /\ \/ status[e[2]] = "absent" /\ UNCHANGED record
       \/ status[e[2]] = "corrupt" /\ Overwrite(e[2], "failed")
    /\ UNCHANGED <<written, votingPeriod>>

\* The proposal is no longer StatusPassed: the entry is dropped.
MaturedMoved(e) ==
    /\ Matured(e)
    /\ status[e[2]] \in Loaded \ {"passed"}
    /\ UNCHANGED <<record, written, votingPeriod>>

MaturedExecuted(e) ==
    /\ Matured(e)
    /\ status[e[2]] = "passed"
    /\ ExecuteProposal(e[2])
    /\ UNCHANGED <<expedited, depositEnd, votingStart, votingEnd>>

MaturedDone ==
    /\ phase = "matured"
    /\ work = {}
    /\ phase' = "commit"
    /\ UNCHANGED <<block, work, active, nextId, record, inactiveQ, activeQ, deposit,
                   votingPeriod, timelock, written, hooked, history>>

-------------------------------------------------------------------------------
(* The next block, the v8.5.0 upgrade, and genesis export *)

Later == /\ phase = "commit"
         /\ phase' = "deliver"
         /\ work' = {}
         /\ active' = FALSE
         /\ \E gap \in Gaps : now' = AtMost(now + gap, MaxTime)
         /\ UNCHANGED <<nextId, record, deposit, votingPeriod, written, hooked,
                        tallies, passedAt>>

NextBlock ==
    /\ Later
    /\ height' = AtMost(height + 1, MaxHeight)
    /\ UNCHANGED <<inactiveQ, activeQ, timelock, forked>>

\* A block whose PreBlocker runs the v8.5.0 upgrade handler, which skips
\* InitGenesis and records the height of this block.
UpgradeBlock ==
    /\ Later
    /\ height' = AtMost(height + 1, MaxHeight)
    /\ activation' = height'
    /\ UNCHANGED <<inactiveQ, activeQ, schedule, delay, forked>>

\* x/gov InitGenesis fills its queues from the records.
GovInitGenesis ==
    /\ inactiveQ' = {<<depositEnd[p], p>> : p \in {q \in Id : status[q] = "deposit"}}
    /\ activeQ' = {<<votingEnd[p], p>> : p \in {q \in Id : status[q] = "voting"}}

\* validateAgainstGov: every entry of the genesis schedule names a proposal
\* that x/gov has, with StatusPassed.
ValidAgainstGov(sch) == \A e \in sch : status[e[2]] = "passed"

\* GenesisState.Validate, for the state an export writes.
Validates(sch, act, del) ==
    /\ del = 0 \/ del >= MinimumDelay
    /\ act = 0 => sch = {}
    /\ \A e \in sch : e[1] # 0 /\ e[2] # 0
    /\ \A e, f \in sch : e[2] = f[2] => e = f

\* x/gov's ExportGenesis walks every record, so all of them must decode.
Exportable == \A p \in Id : status[p] # "corrupt"

\* The chain is exported at its last height and restarted from the export.
ExportImport ==
    /\ Later
    /\ Exportable
    /\ ValidAgainstGov(schedule)
    /\ GovInitGenesis
    /\ height' = AtMost(height + 1, MaxHeight)
    /\ delay' = ExecutionDelay
    /\ UNCHANGED <<schedule, activation, forked>>

\* Mutants: the activation height carries over; the fork starts at height 0.
Forked(act, hgt) ==
    /\ Later
    /\ Exportable
    /\ GovInitGenesis
    /\ height' = hgt
    /\ activation' = act
    /\ delay' = ExecutionDelay
    /\ schedule' = {}
    /\ forked' = forked \cup Scheduled
ForkKeepsActivation == Forked(activation, 1)
ForkAtHeightZero == Forked(1, 0)

\* prepForZeroHeightGenesis clears the schedule and activates the timelock
\* from the first block of the fork.
ZeroHeightFork ==
    /\ Later
    /\ Exportable
    /\ GovInitGenesis
    /\ height' = 1
    /\ activation' = 1
    /\ delay' = ExecutionDelay
    /\ schedule' = {}
    /\ forked' = forked \cup Scheduled

-------------------------------------------------------------------------------

Transactions == Submit \/ \E p \in Id : StartVoting(p) \/ Cancel(p)

\* What the code defends against without being its cause.
Faults == \E p \in Faulty : Unregister(p) \/ Meddle(p)

EndBlocker ==
    \/ BeginEndBlock
    \/ \E e \in work : InactiveUnsupported(e) \/ InactiveDropped(e)
    \/ InactiveDone
    \/ \E e \in work : \/ TallyUnsupported(e)
                       \/ TallyPassedStock(e)
                       \/ TallyPassedScheduled(e)
                       \/ TallyConverted(e)
                       \/ TallyRejected(e)
    \/ TallyDone
    \/ \E e \in work : MaturedUnloadable(e) \/ MaturedMoved(e) \/ MaturedExecuted(e)
    \/ MaturedDone

Boundary == NextBlock \/ UpgradeBlock \/ ExportImport \/ ZeroHeightFork

Next == Transactions \/ Faults \/ EndBlocker \/ Boundary

Spec == Init /\ [][Next]_vars

\* Consensus keeps producing blocks and each EndBlock runs to its end.
FairSpec == Spec /\ WF_vars(EndBlocker) /\ WF_vars(Boundary)

-------------------------------------------------------------------------------
(* Properties *)

TypeOK ==
    /\ height \in 1..MaxHeight
    /\ now \in 1..MaxTime
    /\ phase \in {"deliver", "inactive", "tally", "matured", "commit"}
    /\ work \in SUBSET Entry
    /\ active \in BOOLEAN
    /\ nextId \in 1..(MaxId + 1)
    /\ status \in [Id -> Status]
    /\ expedited \in [Id -> BOOLEAN]
    /\ depositEnd \in [Id -> Nat]
    /\ votingStart \in [Id -> Nat]
    /\ votingEnd \in [Id -> Nat]
    /\ inactiveQ \in SUBSET Entry
    /\ activeQ \in SUBSET Entry
    /\ deposit \in [Id -> Deposit]
    /\ votingPeriod \in VotingPeriods
    /\ schedule \in SUBSET Entry
    /\ activation \in 0..MaxHeight
    /\ delay \in Nat
    /\ written \in [Id -> Nat]
    /\ hooked \in [Id -> Nat]
    /\ tallies \in [Id -> Nat]
    /\ passedAt \in [Id -> Nat]
    /\ forked \in SUBSET Id

\* No queue entry is left without a record: processInactiveProposals and
\* processEndedVotingPeriods return Proposals.Get's not-found error, which
\* would halt the chain at this block and at every later one.
NoHalt ==
    phase \in {"inactive", "tally"} => \A e \in work : status[e[2]] # "absent"

\* A proposal's messages take effect together or not at all, and only once:
\* what executeProposal writes is all of them, and a proposal that failed, or
\* still waits, has written none.
AllOrNothing ==
    \A p \in Id :
        /\ written[p] \in {0, NumMsgs}
        /\ written[p] # 0 => status[p] = "passed" /\ p \notin Scheduled

\* Every counted vote calls AfterProposalVotingPeriodEnded exactly once; the
\* one call that is deferred is owed for as long as the proposal is scheduled,
\* and only a zero-height export, which clears the schedule, loses it.
HookPerTally ==
    \A p \in Id :
        hooked[p] + (IF p \in Scheduled \cup forked THEN 1 ELSE 0) = tallies[p]

\* A block that ends with the timelock active leaves nothing due behind: a
\* malformed entry is dropped, not retried.
NothingOverdue ==
    phase = "commit" => /\ \A e \in inactiveQ : e[1] > now
                        /\ active => \A e \in schedule : e[1] > now

\* While a passed proposal waits, no proposal that passed after it has taken
\* effect: a follow-up proposal cannot overtake the one it reacts to.
FirstPassedFirstRun ==
    \A p, q \in Id :
        p \in Scheduled /\ passedAt[p] < passedAt[q] => written[q] = 0

\* Deposits stay held exactly while the vote is open, a conversion of an
\* expedited proposal included, and are settled by the time it is closed.
DepositsFollowVote ==
    \A p \in Id :
        deposit[p] = "held" <=> \/ status[p] \in {"deposit", "voting"}
                                \/ status[p] = "corrupt" /\ p \notin Scheduled

\* No open proposal is forgotten: one in its deposit or voting period is on its queue
\* under the time of its record, one that stopped decoding is on some queue, and a
\* block leaves a vote past its end open only if it has been extended - once, even if
\* the longer period was over by then as well - so that the next count closes it.
NoneForgotten ==
    \A p \in Id :
        /\ status[p] = "deposit" => <<depositEnd[p], p>> \in inactiveQ
        /\ status[p] = "voting" => /\ <<votingEnd[p], p>> \in activeQ
                                   /\ tallies[p] <= IF expedited[p] THEN 0 ELSE 1
        /\ status[p] = "corrupt" /\ p \notin Scheduled =>
               \E e \in inactiveQ \cup activeQ : e[2] = p
        /\ phase = "commit" /\ status[p] = "voting" /\ votingEnd[p] <= now => tallies[p] = 1

\* Whatever the chain did before, the state it exports is one that
\* GenesisState.Validate and InitGenesis accept (records nobody tampered with,
\* a delay that was not set below the minimum).
ExportAccepted ==
    /\ delay = 0 \/ delay >= MinimumDelay => Validates(schedule, activation, ExecutionDelay)
    /\ \A e \in schedule : e[2] \notin Faulty => status[e[2]] = "passed"

\* InitGenesis refuses a genesis in which a passed proposal has no schedule
\* (docs/proof/gov-timelock.md): one would be stranded, its messages never run.
StrandedRefused ==
    ValidAgainstGov(schedule) => \A p \in Id : status[p] = "passed" => p \in Scheduled

\* Under the timelock no message takes effect before the delay has passed
\* since the tally, and a proposal whose schedule a fork dropped never does.
NeverEarly ==
    [][\A p \in Id : active /\ written'[p] # written[p] =>
           /\ passedAt[p] # 0
           /\ now >= passedAt[p] + ExecutionDelay
           /\ p \notin forked]_vars

\* Once it governs execution the timelock does so in every later block, after
\* an upgrade, a restart from an export, and a zero-height fork as well.
ActiveForever == [][IsActive => IsActive']_vars

\* Entries leave the schedule in order of execution time, then of id.
ReleasedInOrder ==
    [][phase = "matured" => \A e \in schedule \ schedule' :
           \A f \in schedule : f = e \/ Before(e, f)]_vars

\* A vote ends: an expedited one may be extended, once, to the length of a
\* regular one.  (MaxTime bounds the votes this can be asked of.)
VoteConcludes ==
    \A p \in Id :
        (status[p] = "voting" /\ \A v \in VotingPeriods : votingStart[p] + v <= MaxTime)
            ~> status[p] # "voting"

-------------------------------------------------------------------------------
(* The inductive invariant behind the theorems of GovTimelockProofs *)

\* The votes on p have yet to decide it.
Undecided(p) == \/ p >= nextId
                \/ status[p] \in {"deposit", "voting"}
                \/ status[p] = "corrupt" /\ p \notin Scheduled

\* What the running loop may rely on.
LoopInv ==
    /\ phase = "deliver" => ~active
    /\ phase # "deliver" => active = IsActive
    /\ phase = "inactive" => work \subseteq inactiveQ
    /\ phase = "tally" => work \subseteq activeQ
    /\ phase = "matured" => active /\ work = Due(schedule)

\* A queue entry is under the time its record holds, and no record has two.
QueueInv ==
    /\ \A e \in inactiveQ : /\ e[1] = depositEnd[e[2]]
                            /\ status[e[2]] \in {"deposit", "corrupt"}
                            /\ e[2] < nextId
                            /\ e[2] \notin Scheduled
                            /\ \A f \in activeQ : f[2] # e[2]
    /\ \A e \in activeQ : /\ e[1] = votingEnd[e[2]]
                          /\ status[e[2]] \in {"voting", "corrupt"}
                          /\ e[2] < nextId
                          /\ e[2] \notin Scheduled

UndecidedInv ==
    \A p \in Id : /\ p >= nextId => status[p] = "absent"
                  /\ Undecided(p) => /\ passedAt[p] = 0
                                     /\ written[p] = 0
                                     /\ p \notin forked
                                     /\ p \notin Scheduled

ScheduleInv ==
    /\ schedule # {} => IsActive
    /\ \A e \in schedule : /\ passedAt[e[2]] # 0
                           /\ e[1] = passedAt[e[2]] + ExecutionDelay
                           /\ written[e[2]] = 0
                           /\ e[2] \notin forked

HistoryInv ==
    \A p \in Id : /\ passedAt[p] <= now
                  /\ written[p] \in {0, NumMsgs}
                  /\ written[p] # 0 => status[p] = "passed"

IInv == LoopInv /\ QueueInv /\ UndecidedInv /\ ScheduleInv /\ HistoryInv

\* The promise: what is scheduled waits; what executed, or closed without
\* executing, is settled; what the votes have yet to decide is open.
stage ==
    [p \in Id |-> IF p \in Scheduled THEN "waiting"
                  ELSE IF written[p] # 0 THEN "effective"
                  ELSE IF p >= nextId \/ status[p] \in {"deposit", "voting", "corrupt"}
                  THEN "open"
                  ELSE "void"]

Promise == INSTANCE ExecutionTimelock
           WITH clock <- now, wait <- ExecutionDelay, armed <- IsActive,
                decidedAt <- passedAt

\* The chain implements the execution timelock.
ImplementsPromise == Promise!Spec
================================================================================
