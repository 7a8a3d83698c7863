# Verification of ArkConstellation

ArkConstellation is a Cosmos SDK chain (a fork of MANTRA: Go, with some Solidity, Python
and shell around it). This directory holds TLA+ models of its own logic, the TLC
configurations that check them, and proofs that TLAPS checks. The heart of the chain's
own code is the governance execution timelock, `x/govtimelock`, which replaces x/gov's
end blocker. Modelled, checked and proved besides it are the launch vault contract, the
sanction blacklist with the check of transactions, the two paths that unwrap ERC20
wrappers, the devnet faucet, and the commands that clear stored block events. Section 5
says what is not modelled, and why.

## 1. Inventory

| Part | State it keeps | Operations | What is hard about it |
|---|---|---|---|
| **A. `x/govtimelock`**, `app/upgrades/v8_5`, `app/export.go` 241-262 | the schedule (execution time, proposal id), activation height, delay; drives x/gov's records, two queues, deposits | `EndBlocker` (inactive, tally, matured loops), `Schedule`/`Remove`/`Due`, upgrade handler, `InitGenesis`/`ExportGenesis`/`Validate`, zero-height preparation | loops over snapshots that change what they loop over; an error halts the chain; a delay that spans upgrades, restarts and forks; messages that fail half-way; records that no longer decode |
| **B. `x/sanction`, `app/ante`** | the blacklist (normalised addresses), params | add/remove messages, Cosmos and EVM decorators, two-chain-id signature check, genesis | lists applied in part; signers hidden in authz messages; two spellings of one address |
| **C. `x/denommetadata`** | bank metadata entries | one gov-only message on a list | partial application |
| **D. IBC unwrap middleware** | none of its own (balances) | receive, then a best-effort unwrap | failure after a successful receive, with the acknowledgement already decided |
| **E. `distrclaim` precompile** | none of its own (rewards, balances) | withdraw all, convert, unwrap | failure part-way in one EVM call |
| **F. `LaunchGuardrail.sol`** | limits, per-asset totals, per-account epochs, pause, owners, mutex | deposits, withdrawals, pause, limits, two-step ownership | epoch boundaries, lowered limits, token callbacks |
| **G. Faucet** | grants per address in a JSON file | one POST handler | confirmation timeout against late inclusion; waits without a timeout on the only thread; crash while writing; two spellings of one address |
| **H. block-event commands** | events stored per height, one export file | cleanup, export, import | failure or kill part-way; an export over the only copy of what was cleared; mismatched lengths |
| **I. gentx collection script** | files of one run | gate sequence | accepting on a timed-out boot |
| J. wiring, CLI, release check, drills, monitoring | - | - | no logic of their own beyond SDK calls or I/O |

How A interacts: `app.go` registers `GovAppModule`, whose `EndBlock` is the end blocker
here instead of x/gov's; x/gov's message handlers (submit, deposit, cancel) run earlier
in the block and fill the queues; x/upgrade's pre-blocker may run the v8.5.0 handler
before any transaction of a block; executed messages may change anything their module
allows, x/gov's parameters included; hooks go to x/gov's hook consumers; export and
import go through every module's genesis.

Correctness of A, in order of weight: nothing takes effect before its delay, out of
order, twice or in part; the chain cannot be halted by one bad record; every vote
concludes and every scheduled proposal is settled; deposits and hooks are handled
exactly once per vote; an active timelock never goes off, whatever is upgraded, exported
or forked; what is exported can be imported.

How F interacts: accounts call it; `depositToken` and the withdrawals call another
contract, which may call back before it returns; a failed call is undone as a whole by
the EVM. Correctness of F: no account gets more accepted in an epoch than the limits in
force allow; what is credited arrived, and an asset's total is what its accounts were
credited with; the views say what a deposit would be refused for; ownership passes only
by the current owner's offer.

How B interacts: governance changes the list in the context of its proposal; every
transaction is checked against it on entering the mempool and again in its block, with
any number of proposals in between; export and import carry it to a new chain.
Correctness of B: the list is what the passed proposals say, each as a whole, however
they spell an account; nothing is executed for a sanctioned account; nobody else is
refused.

How D and E interact: both end in the same two calls of a wrapper contract. D runs under
core IBC, which drops the state of a receive whose acknowledgement is an error, on top
of the transfer, ERC20 and callbacks modules; E runs in an EVM call, which undoes its
state on an error, and calls x/distribution and x/erc20. Correctness: nothing is created
or lost, and what is acknowledged, logged or returned is what the account got, whichever
step failed.

How G interacts: the faucet sends a transaction of its one key through a node, polls for
it, and records the grant in its file. Correctness: no account gets more than the cap in
a day, nobody is refused for what he did not get, and the one thread becomes free again,
however slow the chain is. (Two waits have no end in the code, so that the last holds
but for them: see `Answered` below.)

How H interacts: an operator runs the commands between runs of the node, on its state
database. Correctness: no command leaves a response in part, its report is true, and an
operator who keeps to rules that can be stated loses nothing.

The hazards, each at its line with the property that covers it, are in `PROJECT.json`.

## 2. Modules

| Module | Content |
|---|---|
| `ExecutionTimelock` | the abstract promise: a passed decision waits, then takes effect once or is discarded |
| `GovTimelock` | component A; at its end its properties, the inductive invariant, and the refinement mapping |
| `MCGovTimelock` | the small instances TLC runs |
| `GovTimelockProofs` | type correctness and the inductive invariant |
| `GovTimelockTheorems` | one theorem per safety and action property, and that GovTimelock implements the safety part of ExecutionTimelock |
| `LaunchGuardrail` | component F and its properties |
| `MCLaunchGuardrail` | its small instances |
| `MCSlidingWindow` | LaunchGuardrail with a record of when each amount was accepted; what its comments say of any 24 hours, and what does hold |
| `LaunchGuardrailProofs` | its type correctness, inductive invariant and safety theorems |
| `Faucet`, `MCFaucet`, `FaucetProofs` | component G; without hangs and kills; its theorems |
| `Sanction`, `MCSanction`, `SanctionProofs` | component B; small transactions of two accounts; its theorems |
| `Settlement` | the abstract promise of a receive and a claim: a packet is settled once, what is owed is paid, nothing else moves |
| `Unwrap`, `MCUnwrap`, `UnwrapProofs` | components D and E, and the refinement mapping; small packets; its theorems, and that it implements Settlement |
| `BlockEvents`, `MCBlockEvents`, `BlockEventsProofs` | component H; three small blocks; its theorems |
| `Sums` | lemmas on sums over finite sets, for the books of LaunchGuardrail and the balances of Unwrap |

### State and actions of `GovTimelock`

A block is a sequence of phases: `deliver` (x/gov transactions), then the three loops of
`EndBlocker` - `inactive`, `tally`, `matured` - and `commit`. Each loop in the code
collects a snapshot of a queue first (`iter.KeyValues()`, `Keeper.Due`) and then takes
its entries in key order; `work` is the part of the snapshot still to take, and one
action processes one entry, so that what one entry changes is seen by the next, as in
the code.

| Code | Model |
|---|---|
| `Keeper.ScheduledProposals` / `ActivationHeight` / `ExecutionDelay` | `schedule`, `activation`, `delay` (0 when unset) |
| x/gov `Proposals` | `status`, `expedited`, `depositEnd`, `votingStart`, `votingEnd` (0 when nil) |
| x/gov `InactiveProposalsQueue`, `ActiveProposalsQueue` | `inactiveQ`, `activeQ` |
| deposits of a proposal | `deposit`: held, refunded, burned or charged |
| committed effects of a proposal's messages | `written`, how many |
| `AfterProposalVotingPeriodEnded` | `hooked`, how many calls |
| `EndBlocker`, local `active` | `active` |
| `processInactiveProposals` | `BeginEndBlock`, `InactiveUnsupported`, `InactiveDropped`, `InactiveDone` |
| `processEndedVotingPeriods` | `TallyUnsupported`, `TallyPassedStock`, `TallyPassedScheduled`, `TallyConverted`, `TallyRejected`, `TallyDone` |
| `executeMaturedProposals` | `MaturedUnloadable`, `MaturedMoved`, `MaturedExecuted`, `MaturedDone` |
| v8.5.0 handler | `UpgradeBlock` |
| export + `InitGenesis` | `ExportImport`; with `prepForZeroHeightGenesis`, `ZeroHeightFork` |

`tallies`, `passedAt` and `forked` are history variables for the properties.

Abstractions. Tallies are decided by choice: any vote may pass, fail or burn its
deposits. Messages are a count, `NumMsgs`, and the number that succeed before the first
failure; what they change is, of the state modelled, at most the voting period (a
message that cancels another proposal is not modelled). x/gov's handlers are modelled
from how this code uses them and are marked external in the map: `Submit`,
`StartVoting`, `Cancel`, `DeleteProposal`, the deposit calls, x/gov's `InitGenesis`. Two
faults the code defends against without being their cause are actions on the proposals
of `Faulty`: `Unregister` (a record stops decoding, as when a binary no longer knows a
message type) and `Meddle` (a scheduled record disappears or leaves StatusPassed). Where
EndBlock returns an error the chain halts: the model has no successor there, and
`NoHalt` says that it is not reached. `UpgradeBlock` may happen more than once, which
x/upgrade would not do: a weaker assumption. The genesis states are those of
`DefaultGenesis` (activation 1), of an existing chain (0), and of one set to activate
later.

### State and actions of `LaunchGuardrail`

Variables have the names of the contract's; `totalDeposited` and `window` hold the
native and the token mappings in one, by asset. A call is atomic on chain, so it is one
step, unless it hands control to another contract. Then it is a begin (`DepositToken`,
`Withdraw`), which takes the mutex and keeps in `frame` what a revert restores, any
number of steps of others - the administration does not take the mutex, so a callback
may pause, change limits or move ownership - and an end: `Complete`, when the other
contract returns true or nothing, or `Revert`, which undoes everything since the begin,
callbacks included. A refused call changes nothing and is no step.

| Code | Model |
|---|---|
| `deposit` | `Deposit` |
| `depositToken` + `_safeTransferFrom` | `DepositToken`, then `Complete` or `Revert` |
| `withdrawNative`, `withdrawToken` + `_safeTransfer` | `Withdraw`, then `Complete` or `Revert` |
| `emergencyPause`, `unpause`, `setLimits`, `setGuardian`, `transferOwnership`, `acceptOwnership` | the actions of those names |
| `getUserRemainingDailyLimit`, `getRemainingTvlCapacity` and their token forms | `RemainingDailyLimit`, `RemainingTvlCapacity` |
| `_unlocked`, balances, `block.timestamp` | `unlocked`, `vault`, `now` |

Tokens in `Exact` move the amount they are asked for; of the others any part may arrive
(a fee). Assets sent to the contract without a deposit are `Donate`. `withdrawn`,
`spent` (accepted in the epoch of now) and `offeredBy` are history variables. Integers
are unbounded: Solidity 0.8 reverts where they would overflow, and a reverted call is no
step. A token contract that moves assets of the vault on its own is not modelled.

### State and actions of `Sanction`

The store holds strings, so an entry is an account and the form it is written in; only
the canonical one, lower-case bech32, is ever looked up. A proposal works on a `draft`,
the cached context its messages run in.

| Code | Model |
|---|---|
| `Keeper.BlacklistAccounts` | `blacklist` |
| `normalizeAddress` | `normalizeAddress` |
| a turn of the loops of `AddToBlacklist`, `RemoveFromBlacklist` | `Apply`; refused, `Abort` |
| a passed proposal with such messages | `Propose`, then `Commit` |
| `BlacklistCheckDecorator`, `EVMBlacklistCheckDecorator` | `Clear` |
| `MultiChainIDDecorator` | `Verifies` |
| the ante chain in CheckTx and in a block | `CheckTx`, `Execute` |
| `InitGenesis`, `Validate`, `ExportGenesis` | `Init`, `ExportImport` |

A transaction is who signs it, who pays its fee, its authz messages with their signers
and what is nested in them, and the chain id it was signed for. `sanctioned` is a
history variable, defined from what the passed proposals say and not from what the loops
write. x/authz runs a message only if it has exactly one signer (`AuthzRuns`); that only
the first signer is looked up does no harm because of it.

### State and actions of `Unwrap`

Balances of a denomination are bank coins (`coin`), tokens of its ERC20 contract
(`token`) and the token underneath a wrapper (`under`). A packet or a claim is a
sequence of steps; `call` holds its locals and, in `frame`, the balances that core IBC
or the EVM go back to when it is undone. Each step that can fail has an action for it.

| Code | Model |
|---|---|
| `OnRecvPacket`, inner modules | `RecvPacket`, `Transfer`, `ConvertReceived` or `LeaveCoins`, `Callback`, `InnerRefuses` |
| `OnRecvPacket` after them, `tryUnwrap` | `InnerAccepts`, `TryUnwrap`, `Unwrapped`, `UnwrapFailed`, `Acknowledge` |
| `claimRewardsAndConvertCoin` | `Claim`, `WithdrawDelegationRewards`, `NothingToConvert`, `ConvertCoin`, `Return`, `ClaimFails` |
| `tryUnwrapWrapper` | `TryUnwrapWrapper`, `ClaimUnwrapped`, `ClaimNotUnwrapped` |
| `evmutil`: `underlying`, `withdrawTo` | `ProbeSucceeds`, `WithdrawTo` |
| gas running out under a relayer | `RecvPanics` |

Outside the code are rewards that accrue, withdraw addresses and pairs that change
between calls, and packets that time out. Of the wrapper contract only its interface is
assumed: `withdrawTo` reverts, or takes the amount and gives the whole units in it; it
may keep the remainder or leave it to the holder. A contract called back by the packet
may spend what the receiver just got (`Callback`).

### State and actions of `Faucet`

| Code | Model |
|---|---|
| `STATE_FILE`, `load_state` | `file`: times of grants by key; one that does not parse reads as empty |
| `normalize_address`, `prune`, `retry_after_seconds` | the operator of the first name, `prune`, `ResetIn` |
| a connection taken and read | `Connect`; `Dismiss` (a page, 400, 404, or the client is gone) |
| `do_POST` up to the broadcast | `Refuse` (429), `Start` |
| `broadcast_and_confirm` | `Accepted`, `Rejected`, `Hung`; `Sleep`, then a lookup: `PollFound`, `PollFailed`, `PollAgain`, `GiveUp` |
| `save_state` | `Truncate`, `Write` |
| the process killed | `Crash` |
| the chain | `Pay`, `NotPaid` |

The server has one thread, so a request is the only one (`req`): first being read, then,
under the lock, refused in one step, which writes nothing, or taken through the steps of
a grant. A lookup ends in an action of its own, which need not come; it may answer with
an error although the transaction was executed. Every grant has the same amount, so the
cap counts grants.
The clock has several ticks to a second because `retry_after_seconds` cuts off fractions
of one. `granted`, `lost` and `told` are history variables: what the chain paid, the
grants whose record was lost, and what an account was last told to wait.

### State and actions of `BlockEvents`

| Code | Model |
|---|---|
| finalize block responses in the state database | `store` |
| `block-events-export.json` | `file` |
| `loadBlockEventsExport`, `applyBlockEventsExport` | `LoadBlockEventsExport`, `Apply` |
| `exportBlockEvents` | `StartExport`, `ExportHeight`, `ExportMisses`, `Truncate`, `WriteFile` |
| `cleanupBlockEvents` | `StartCleanup`, `CleanupHeight`, `CleanupReports`, `CleanupMisses`, `CleanupFails`, `CleanupEnds` |
| `importBlockEvents` | `StartImport`, `ImportHeight`, `ImportReports`, `ImportMisses`, `ImportEnds` |
| a kill, or an early error | `Killed` |
| the node, between commands | `Commit`, `Prune` |

`cmd` is the command under way with the heights left and reported. Which events a
transaction has makes no difference, whose they are does. `careful` and `restored` are
history variables that say whether the operator has kept to two rules: only heights the
file lists are cleaned up, and after a cleanup there is no export until an import has
restored every height. The code enforces neither, and without either one events are
lost.

Definitions marked "Mutant" state a plausible bug of one operation. They are not part of
`Next`; each is there so that a property can be seen to fail with it.

## 3. Runs

| Run | Properties | Result |
|---|---|---|
| `timelock_safety` | `TypeOK` `NoHalt` `AllOrNothing` `HookPerTally` `NothingOverdue` `FirstPassedFirstRun` `DepositsFollowVote` `NoneForgotten` `ExportAccepted` `NeverEarly` `ActiveForever` `ReleasedInOrder` | hold |
| `timelock_liveness` | `ImplementsPromise` `VoteConcludes` | hold under `FairSpec` |
| `timelock_stranded` | `StrandedRefused` | violated, as expected (finding) |
| `guardrail_accounts` | `TypeOK` `OfferFromOwner` `BooksAgree` `ViewsAgree` `EpochLimit` | hold |
| `guardrail_assets` | `Solvent` `BooksAgree` `EpochLimit` | hold |
| `guardrail_sliding` | `SlidingWindow` | violated, as expected (finding) |
| `faucet_cap` | `TypeOK` `CountsOnlyGrants` `CapUnlessLost` `RetryServed` `Answered` | hold, the last under `FairSpec` |
| `faucet_late` | `DailyCap` | violated, as expected (finding) |
| `sanction_list` | `TypeOK` `ListMatches` `NoneSanctionedActs` `CleanAdmitted` | hold |
| `sanction_genesis` | `NoneSanctionedActs` | violated, as expected (finding) |
| `unwrap` | `TypeOK` `NothingCreated` `ClaimExact` `ReceiveExact` `ImplementsSettlement` | hold |
| `block_events` | `TypeOK` `Whole` `Recoverable` `ReportsExact` | hold |

Bounds of `GovTimelock`. Two proposals are what ordering, overtaking and shared queues
need; one of them may be tampered with, the other may not, so both kinds of neighbour
occur. Block time saturates at `MaxTime` and the height at `MaxHeight` = 2. With an
expedited period of 1, voting periods of 2 and 3 that messages switch between, and a
delay of 2 with `MaxTime` = 5 (safety) or of 1 with `MaxTime` = 4 (liveness), that is
long enough for a submission, an expedited vote, its conversion, a second vote, the
delay and an execution, in blocks 1 or 2 apart, so that an entry may mature in the block
it is due, late, or with another. Height 2 is enough for the three activations: from
genesis, at a later height, by the upgrade. Time and height stay at their bound rather
than stop the model, so the states at the bound go on; what matures after the bound
simply never does. The delay's fallback is exercised with `GenesisDelays` = {0}
(safety), a delay below the minimum of 2, such as the test networks configure, with
`GenesisDelays` = {1} (liveness); a larger instance with delays {0, 1}, heights {0, 1,
2}, `MaxTime` 6 and `MaxHeight` 3 was also run (29 million states) with the same result.
The proofs need no bound.

`NoneForgotten` is what of `VoteConcludes` a single state can show: an open proposal is
on its queue, wherever it is put back (an expedited vote that failed, the queues that
`InitGenesis` fills), and an expedited vote is extended once, even when the longer
period is over at once because a block came late or a proposal cut the voting period.

`NoHalt` and `DepositsFollowVote` deserve a word: both hold although
`failUnsupportedProposal` overwrites a record with one that has no queue times, because
the callers remove the queue entry by its own key; dropping that line is `NoHalt`'s
mutant. `FirstPassedFirstRun` also shows that a follow-up proposal cannot take effect
before the one it reacts to, so of the reactions `docs/proof/gov-timelock.md` lists, a
proposal can only help if it was passed earlier or acts by other means. `ExportAccepted`
is conditional on a delay that is not below the minimum: `InitGenesis` accepts smaller
ones on purpose (`module.go` 80-88), and then the export would not pass `Validate`.

Fairness. `FairSpec` assumes weak fairness of `EndBlocker` as a whole (a block that has
begun to end ends: EndBlock is one sequential call) and of `Boundary` as a whole
(consensus goes on to a next block of some kind). Nothing is assumed of transactions,
faults, or of any particular outcome of a vote. Boundaries that fork or upgrade for ever
are allowed. `VoteConcludes` asks only for votes that end within `MaxTime`; the fairness
of `ImplementsPromise` needs no such condition, since a release is only enabled once the
clock has reached it.

Bounds of `LaunchGuardrail`. In `guardrail_accounts` two accounts can each be owner,
pending owner, guardian and depositor at once or in turn; they are interchangeable, so
the run uses their symmetry (no property is a liveness property). Limits of 1 and 2 give
a daily limit reached by one account and a cap reached only by both, and limits cut
below what was deposited; an epoch is one time unit, so `MaxTime` = 2 gives two epochs,
and a window read stale in the second. Limits of 1 and 3 were run too, with the same
result. `guardrail_assets` has one account with every role, for what depends on assets:
native coin, exact token and taxing token, each with transfers that complete, call back,
or fail; `BooksAgree` is checked there too, since an undone call must take back the
total of its own asset. There the amount is 1, so that what a taxing token delivers is
all or nothing; amounts of 1 and 2 were run too. `guardrail_sliding` has epochs of two
time units, so that one boundary lies inside a window. `MaxTime` stops the clock and
`MaxVault` the donations; the proofs need neither bound.

Bounds of `Faucet`. Two accounts show that one's request does not disturb the other's
entry, and their two spellings that one account has one entry. A cap of 1 in a day of 6
ticks, two to a second, with 2 polls lets a request be granted, refused, and made again
when the first entry has just expired, `MaxTime` = 8. A cap of 2, where the oldest of
several entries decides, was checked too, with one account and `MaxTime` = 10. The
proofs need no bound.

`Answered` assumes weak fairness of `Timed` only: what the code itself puts an end to.
The gas price query and the broadcast have timeouts (`faucet.py` 117, 135), a sleep
ends, and the file is on the local disk. Two waits have no timeout, and nothing is
assumed of them: the read of a request's body by the only thread (227), and the lookup
of a transaction (146), which is made with the lock held. `Answered` says that they are
the only ones: the thread becomes free again and again, or some client is read from for
ever, or some single lookup never returns; a loop of lookups that do return always ends.
That an answer of a few hundred bytes can be written without the client's help is taken
for granted.

`CapUnlessLost` counts a grant at the time of its request, as the file does, and leaves
out the grants whose record was lost; that records are lost is the finding below, and
the property says that nothing else breaks the cap.

Bounds of `Sanction`. Two accounts are sanctioned or not, alone or together, in one
transaction as signer, fee granter, or (first or second) signer of an authz message.
`MaxEntries` = 2 lets a proposal name an account twice, or fail at the second entry; 3
was checked too (848 000 states). One transaction in the mempool is enough: they are
checked one by one.

Bounds of `Unwrap`. Two accounts (receiver or delegator, and another), two validators,
two denominations: one a wrapper's, one not. `MinWithdraw` = 2 with packets of 3 and 1
and rewards of 3 makes amounts with a remainder and one that is too small; two packets
to one account make the second find what the first left, so that nobody needs to hold
anything at first (`Holdings` = {0}). Initial holdings of 0 and 2 with rewards of 1 and
2 were run too (3.5 million states); the proofs allow any. `ChangeBound` = 2 allows two
accruals or settings that change, and each call may fail at each step. Nothing tells
validators apart, so the run uses their symmetry (no property is a liveness property).
In the end all packets are settled and
there are no rewards to claim, so deadlock is not checked.

Bounds of `BlockEvents`. Blocks with 0, 1 and 2 transactions; lists of one height, of
several, and of one twice, so that a height is exported or cleaned up again in one
command. The commands may follow one another in any order and number; the state is
bounded by the blocks alone.

Findings. `docs/proof/gov-timelock.md` line 24 says that `InitGenesis` also refuses a
passed proposal with no schedule, as stranded. The code does not, and cannot: a proposal
that executed is in exactly that state, as the comment of `validateAgainstGov` explains.
The comment in `app/upgrades/v8_5/upgrades.go` 36-54 still describes the check the
document describes.

`LaunchGuardrail.sol` lines 10 and 169 call the per-account limit a 24-hour sliding
window. The code counts per fixed epoch of `block.timestamp / 1 days`, so a deposit of
the whole limit at the end of one epoch and another at the start of the next are both
accepted. What does hold is the limit per epoch, `EpochLimit`, and of any 24 hours
twice the limit, `TwiceTheLimit`; both are proved.

The faucet's form promises a maximum per address and day (`faucet.py` 172). A
transaction that is executed after the last poll is on chain and in no record
(`faucet_late`), so another is granted. What does hold, `CapUnlessLost`, is the cap for
all grants whose record was not lost. The model has two more ways to lose one, which
`faucet_late` leaves out and nothing in the repository rules out: a broadcast that
hangs, and a process killed before the file is written - if in the middle of writing it,
all records are lost. `retry_after_seconds` cuts off a fraction of a second, so an
account that comes back exactly when it was told may be refused once more, with 0
seconds to wait; `RetryServed` gives it one second longer.

`docs/ARCHITECTURE-AND-FORK-BREAKDOWN.md` 742-751 says that sanctioned addresses cannot
transact and asks to verify that entries imported by `InitGenesis` are normalised. They
are not, and an upper-case bech32 entry passes `Validate` but is never looked up
(`sanction_genesis`). With canonical entries all holds (`sanction_list`).

Met on the way, with no run of its own: `precompile.go` 34 says the claim precompile
"sets the caller's withdraw address", but `tx.go` 91-97 refuses a claim unless it
already is the caller's, which is what `ClaimExact` relies on. `LaunchGuardrail.sol` 8
promises a "Global Total Value Locked (TVL) ceiling across all deposits", but
`globalTvlCap` is compared with the native total (166-167) or with that of one token
(197-199), never with all of them: with n assets the vault may hold n times the cap.

## 4. Proofs

### GovTimelock

All assumptions are the three `ASSUME`s of `GovTimelock`: sizes are positive, an
expedited period is shorter than a voting period (x/gov validates this), the fallback
delay is positive, genesis values are in range. Nothing else about periods, delays, gaps
between blocks or the number of proposals is assumed.

*The invariant.* None of the properties is inductive. A `schedule` entry is harmless to
release only if its time is the tally time plus the delay, its messages have not run,
and the timelock is active; a queue entry is harmless only if its record is there,
undecided and under that very time, or an entry of one queue could close a vote decided
by another. `IInv` has these parts:

- `LoopInv` - the snapshot of the running loop is still part of its queue, and exactly
  the due entries of the schedule in the last loop; `active` still says what `IsActive`
  says;
- `QueueInv` - each queue entry is under the time its record holds, the record is
  undecided, and no proposal is in both queues;
- `UndecidedInv` - an undecided proposal has no history of passing, is not scheduled,
  and has written nothing;
- `ScheduleInv` - a non-empty schedule means an active timelock; an entry's time is its
  tally plus the delay (so no proposal has two), and it has written nothing;
- `HistoryInv` - no tally lies in the future; messages are all or none.

`GovTimelockProofs` proves `TypeCorrect`, that `Init` establishes `IInv`, and that each
action keeps it: one step per action, and under it one per part the action can disturb.
From `InductiveInvariant` follow `MessagesAllOrNothing` and `QueuesNeverHalt` at once;
`DelayRespected` and `ReleaseOrder` from what `IInv` says of the entry the last loop
takes (`MaturedEntry`); `StaysActive` from the heights alone. `HookOncePerTally` and
`NoOvertaking` are inductive relative to `IInv`; `DepositsSettled`, `NothingLeftDue` and
`ExportsAccepted` rest on a second invariant, `BooksInv`, inductive relative to `IInv`:
what is held is undecided, a record nobody may tamper with stays passed while scheduled,
and each loop leaves nothing due behind it. `NoVoteForgotten` rests on a third,
`VotesInv`: an open proposal is on its queue, a proposal not yet voted on was never
counted, and whatever is over and not in the snapshot of the tally loop has been counted
and extended in it.

*Every block ends.* `BlocksEnd` proves what the liveness of `EndBlocker` stands on. A
loop that has entries left has a first one in key order (`FirstEntry`: times and ids are
well-founded) and, by `NoHalt`, a case for it; and each step leaves a loop for a later
one or takes an entry from a finite snapshot, which nothing refills although conversions
put entries back on the queue it was taken from.

*The refinement.* `SafetyOfPromise` maps a proposal to waiting while scheduled, to
effective once its messages are written, to open while undecided, to void otherwise, and
shows that every step of the chain is one step of `ExecutionTimelock` or none. The
timelock's own variables do not determine when the vote passed, so the history variable
`passedAt` is the abstract `decidedAt`.

### LaunchGuardrail

The assumptions are those of the module: there are finitely many accounts, `NoOne` is
none of them, the native coin no token, an epoch has a positive length, amounts and
limits are naturals.

`GuardrailTypeCorrect` carries `FrameInv` with it: the mutex is taken exactly while a
call is under way, and what its revert would restore is well typed; without that a
`Revert` could put anything back. `GuardrailInv` then says that a window of the current
epoch holds exactly what was accepted in it and no window is ahead (`WindowsCount`,
which needs that block time in epochs never goes back, `EpochGrows`); that vault,
withdrawals and the transfer under way cover the totals (`FundsCover`); and that what a
revert restores satisfies the same and is no higher than what it replaces (`RevertSafe`)
- otherwise an undone call could be the one that breaks a limit. `BooksBacked` and
`OffersAreOwners` follow at once; `EpochLimitKept` from `WhoGrows`: only accepted
deposits make an account's part grow. `ViewsTellTruth` needs types
only: it is arithmetic, with the views' cut-off at zero as the interesting case.

`TotalsAgree` proves `BooksAgree`, that a total is the sum of the accounts' parts. The
contract never adds them up: it keeps the two in step through deposits, the end of an
epoch, callbacks and reverts. Its invariant, `BooksInv`, asks the same of the frame a
revert restores; an accepted deposit changes one summand (`SumChanges`).

`TwiceTheLimitKept` is about `MCSlidingWindow`, whose record of deposits by time exists
for the property alone. `SlidingInv` ties it to the contract: what is recorded in the
current epoch adds up to `spent`, in no epoch to more than the limit, and while a call
is under way the record of now has at least what its revert takes back. A day that
starts anywhere lies in two epochs (`EpochSpan`), so its sum is at most two of theirs
(`SumOfParts`). The limits are held fixed there: what is compared is one limit.

### Faucet

Assumed are positive sizes only. `FaucetInv` has ten parts. Two lie under the rest:
times are in the past and used once (`TimesInv`, `TxInv`, `FreshInv`), and what the
request in hand loaded is what the file still holds or, while it is being written, held
(`RequestInv`, `LoadedInv`). On them rest that what the file counts was paid
(`PaidInv`), and that a recent grant is in the file, with the request in hand, or lost
(`CountInv`). `CapUnlessLost` follows by counting when a grant is paid, since no more
than the cap is ever in the file for one account (`SizeInv`); `RetryServed` from
`ToldInv`, that the entry an account was told to wait for leaves room once it is a day
old.

`RequestsBounded` is the part of `Answered` that needs no fairness: a request that holds
the lock has at most 2 * `Polls` + 3 steps, those of `Timed` and the lookups that return
(`Looked`), each uses one up (`StepsLeft`), and no step of the chain, the clock or a
crash gives one back. It needs that the turn of the loop stays below `Polls`
(`PollsInv`).

### Sanction

`IInv` says that the list is the canonical strings of the accounts sanctioned
(`ListMatches`) and that the draft of a proposal is the same for its first entries
(`DraftInv`): `After` at n and at n + 1 differ by exactly one turn of the loop. From the
list's exactness follow `NoneSanctionedActs` and `CleanAdmitted` for all sets of
transactions. The theorems have the hypothesis `GenesisForms = {"lower"}`; the finding
shows that it is needed.

### Unwrap

The invariant compares the balances now with those in the call's frame, step by step:
`RecvInv` and `ClaimInv` say at each step who may hold more or less than before, of what
and by how much. At the last step that is `ReceiveExact` and `ClaimExact`; if it is
undone, the balances are the frame's. Assumed is that there are finitely many accounts,
validators and packets; nothing is assumed of rewards, amounts, how much an account
holds at first, or the order of events.

`UnwrapNothingCreated` adds everything up: balances in three forms, rewards still owed,
and the packets acknowledged. Its invariant, `TotalInv`, says that during a call the
balances of its frame are covered, and that there is no more now than in the frame but
what the packet in hand brought. Each step moves an amount between two summands or
changes one; a withdrawal from the wrapper can only lose. A packet counts once because
its status is "sent" until it is acknowledged, and a panic, which leaves it so, gives
back the frame.

`UnwrapSettles` shows that Unwrap implements `Settlement`. A call shows when it ends:
during one, the mapping takes the balances of its frame (`Seen`), and of an account only
what it has in any form. So every step within a call is a stutter, as is a call that
ends undone, and the last step of one that succeeds is a `Receive` of its packet or a
`Claim`. That a claim's is exactly what validators owed needs one more invariant,
`SettleInv`: what was withdrawn so far and what is still owed add up, by denomination,
to what was owed at the start, and a validator has paid all or nothing.

### BlockEvents

`IInv` says that whatever is stored or exported is a block's whole events or nothing
(`Types`), that the file says one thing of a height (`FileAgrees`), and what each
command has done so far: an export has what is stored, a cleanup has cleared what it
reports and only lists what the file restores, and an import has restored what it
reports, with what is still cleared still to come (`Exporting`, `Cleaning`,
`Importing`). Under the two rules the file has the events of everything cleared
(`Kept`). `Recoverable` alone is not inductive: an import could give back less than was
there, if the file disagreed with itself.

### Sums

`SumFunctionOnSet` of the community modules folds a function over a set, taking elements
in the order of `CHOOSE`. That the order does not matter is an induction on finite sets,
and the library's induction theorems take an operator as a parameter, which the provers
cannot instantiate. `Sums` argues by a smallest counterexample instead: strict inclusion
of finite sets is well-founded (`Smallest`), so if a sum were wrong there would be a
smallest set for which it is, and removing an element leads to a contradiction. On it
rest that sums are naturals or integers (`SumNat`), that changing one value changes the
sum by as much (`SumChanges`), and how sums of parts add up (`SumOfParts`).

### Not proved

Model-checked only: `VoteConcludes`, `Answered` and the fairness part of
`ImplementsPromise`, and the violations. Liveness under fairness, and which action is
enabled, are outside the prover's reach. What is proved is the safety each of the three
rests on: `NoVoteForgotten` and `BlocksEnd`, `RequestsBounded`, and `NothingLeftDue`.

## 5. Plan, and what is not modelled

Done, in this order: `GovTimelock`, `LaunchGuardrail`, `Faucet`, `Sanction`, `Unwrap`,
`BlockEvents`, each with its runs and theorems; then the sums of `LaunchGuardrail` and
`Unwrap`, what holds of any 24 hours, and `Settlement`.

Of the modelled components, not modelled are: messages of a proposal that change the
timelock's own queues; a token contract that moves the vault's assets by itself; a
contract that calls the claim precompile again while it runs, wrappers that do not keep
to the interface, and the caching of the second state database of `tx.go` 185; the
arithmetic of bech32; that the response CometBFT keeps apart for restarting after a
crash between a block's commit and its state is overwritten by a cleanup or import too,
since CometBFT is not in the repository.

Not modelled:

- `x/denommetadata`: one message for the authority, which rewrites a list of x/bank's
  metadata and keeps no state. That the list is all or nothing is the cached context of
  the proposal, which `AllOrNothing` shows for every message.
- The gentx collection script: sequential, and what is accepted is decided by `jq` and
  the node's own commands. (A boot cut off by its timeout is accepted once its log
  mentions InitChain, line 230, whether or not the replay has come to this transaction's
  signature, which is what the header, 14-17, is after.)
- The rest of the zero-height export: it resets SDK modules through their own keepers.
- Wiring, upgrade v8.4, command line, release check, drills and monitoring: they hold no
  state whose change is more than one SDK call, or are tests of the chain.
- `client/docs/static/swagger`: the Swagger UI bundle, minified third-party code, and
  generated code. The chain's own logic is Go, Solidity, Python and shell, and it is all
  the models are about.
