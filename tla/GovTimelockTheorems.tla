-------------------------- MODULE GovTimelockTheorems --------------------------
(***************************************************************************)
(* What follows from the inductive invariant of GovTimelockProofs: a        *)
(* theorem for each property of the runs, and that GovTimelock implements    *)
(* the safety part of ExecutionTimelock.                                   *)
(***************************************************************************)
EXTENDS GovTimelockProofs, FiniteSetTheorems, WellFoundedInduction

\* executeProposal writes all the messages of a proposal or none, and once.
THEOREM MessagesAllOrNothing == Spec => []AllOrNothing
<1>1. IInv => AllOrNothing
  BY DEF IInv, HistoryInv, ScheduleInv, AllOrNothing, Scheduled
<1>2. QED
  BY <1>1, InductiveInvariant, PTL

\* Neither of the first two loops of EndBlocker ever meets an entry without a
\* record, the one error that would halt the chain.
THEOREM QueuesNeverHalt == Spec => []NoHalt
<1>1. IInv => NoHalt
  BY DEF IInv, LoopInv, QueueInv, NoHalt
<1>2. QED
  BY <1>1, InductiveInvariant, PTL

\* No step turns Keeper.IsActive off.
LEMMA ActiveStep == TypeOK /\ [Next]_vars => (IsActive => IsActive')
<1> SUFFICES ASSUME TypeOK, [Next]_vars, IsActive
             PROVE  IsActive'
  OBVIOUS
<1>1. /\ height \in 1..MaxHeight /\ activation \in 0..MaxHeight /\ MaxHeight \in Nat
  BY SizeAssumption DEF TypeOK
<1>2. CASE UNCHANGED <<height, activation>>
  BY <1>2 DEF IsActive
<1>3. CASE NextBlock \/ ExportImport
  BY <1>1, <1>3 DEF NextBlock, ExportImport, timelock, AtMost, IsActive
<1>4. CASE UpgradeBlock
  BY <1>1, <1>4 DEF UpgradeBlock, AtMost, IsActive
<1>5. CASE ZeroHeightFork
  BY <1>5 DEF ZeroHeightFork, IsActive
<1>6. QED
  <2>1. CASE UNCHANGED vars
    BY <1>2, <2>1 DEF vars, timelock
  <2>2. CASE Transactions \/ Faults
    BY <1>2, <2>2
       DEF Transactions, Faults, Submit, StartVoting, Cancel, Unregister, Meddle, Delivering,
           block, timelock
  <2>3. CASE EndBlocker
    BY <1>2, <2>3
       DEF EndBlocker, block, timelock, BeginEndBlock, InactiveUnsupported, InactiveDropped,
           Inactive, InactiveDone, TallyUnsupported, TallyPassedStock, TallyPassedScheduled,
           TallyConverted, TallyRejected, Counted, Tally, TallyDone, MaturedUnloadable,
           MaturedMoved, MaturedExecuted, Matured, MaturedDone
  <2>4. QED
    BY <1>3, <1>4, <1>5, <2>1, <2>2, <2>3 DEF Next, Boundary

\* An active timelock stays active through the upgrade handler, an export and
\* import, and prepForZeroHeightGenesis.
THEOREM StaysActive == Spec => ActiveForever
<1>1. TypeOK /\ [Next]_vars => [IsActive => IsActive']_vars
  BY ActiveStep
<1>2. QED
  BY <1>1, TypeCorrect, PTL DEF Spec, ActiveForever
-------------------------------------------------------------------------------
(* The delay and the order *)

\* What executeMaturedProposals may rely on of the entry it takes: it is due,
\* the first of those that are, under its tally time plus the delay, and unrun.
LEMMA MaturedEntry ==
    ASSUME TypeOK, IInv, NEW e \in work, Matured(e)
    PROVE  /\ active
           /\ e \in Due(schedule)
           /\ e[1] = passedAt[e[2]] + ExecutionDelay
           /\ e[1] \in Nat /\ e[2] \in Id
           /\ written[e[2]] = 0
           /\ passedAt[e[2]] # 0
           /\ e[2] \notin forked
           /\ \A f \in schedule : f[1] <= now => f = e \/ Before(e, f)
<1>1. active /\ work = Due(schedule)
  BY DEF Matured, IInv, LoopInv
<1>2. e \in schedule /\ \A f \in schedule : f[1] <= now => f = e \/ Before(e, f)
  BY <1>1 DEF Matured, Takes, Due
<1>3. QED
  BY <1>1, <1>2, EntryFacts DEF IInv, ScheduleInv, Matured

\* Messages are written only at a tally without the timelock and by
\* executeMaturedProposals.
LEMMA WhoWrites ==
    ASSUME TypeOK, IInv, Next
    PROVE  \/ UNCHANGED written
           \/ \E e \in work : TallyPassedStock(e)
           \/ \E e \in work : MaturedExecuted(e)
<1>1. CASE Transactions \/ Faults
  BY <1>1
     DEF Transactions, Faults, Submit, StartVoting, Cancel, Unregister, Meddle, Delivering
<1>2. CASE Boundary
  BY <1>2 DEF Boundary, NextBlock, UpgradeBlock, ExportImport, ZeroHeightFork, Later
<1>3. CASE EndBlocker
  BY <1>3
     DEF EndBlocker, BeginEndBlock, InactiveUnsupported, InactiveDropped, Inactive,
         InactiveDone, TallyUnsupported, TallyPassedScheduled, TallyConverted, TallyRejected,
         Counted, Tally, TallyDone, MaturedUnloadable, MaturedMoved, Matured, MaturedDone
<1>4. QED
  BY <1>1, <1>2, <1>3 DEF Next

\* With the timelock active, messages take effect no earlier than the delay
\* after the tally that passed the proposal.
THEOREM DelayRespected == Spec => NeverEarly
<1>1. TypeOK /\ IInv /\ [Next]_vars =>
        [\A p \in Id : active /\ written'[p] # written[p] =>
           /\ passedAt[p] # 0
           /\ now >= passedAt[p] + ExecutionDelay
           /\ p \notin forked]_vars
  <2> SUFFICES ASSUME TypeOK, IInv, Next, NEW p \in Id, active, written'[p] # written[p]
               PROVE  passedAt[p] # 0 /\ now >= passedAt[p] + ExecutionDelay /\ p \notin forked
    OBVIOUS
  <2>1. PICK e \in work : MaturedExecuted(e)
    BY WhoWrites DEF TallyPassedStock
  <2>2. e[2] = p
    BY <2>1 DEF MaturedExecuted, ExecuteProposal, TypeOK
  <2>3. QED
    BY <2>1, <2>2, MaturedEntry DEF MaturedExecuted, Due
<1>2. QED
  BY <1>1, InductiveInvariant, PTL DEF Spec, NeverEarly

\* executeMaturedProposals releases entries in the order of execution time
\* and id, across blocks as well as within one.
THEOREM ReleaseOrder == Spec => ReleasedInOrder
<1>1. TypeOK /\ IInv /\ [Next]_vars =>
        [phase = "matured" => \A e \in schedule \ schedule' :
           \A f \in schedule : f = e \/ Before(e, f)]_vars
  <2> SUFFICES ASSUME TypeOK, IInv, Next, phase = "matured", NEW e \in schedule \ schedule',
                      NEW f \in schedule
               PROVE  f = e \/ Before(e, f)
    OBVIOUS
  <2>1. PICK g \in work : Matured(g)
    <3>1. \E g \in work : MaturedUnloadable(g) \/ MaturedMoved(g) \/ MaturedExecuted(g)
      BY DEF Next, Transactions, Faults, Submit, StartVoting, Cancel, Unregister, Meddle,
         Delivering,
        Boundary, NextBlock, UpgradeBlock, ExportImport, ZeroHeightFork, Later,
        EndBlocker, BeginEndBlock, InactiveUnsupported, InactiveDropped, Inactive, InactiveDone,
        TallyUnsupported, TallyPassedStock, TallyPassedScheduled, TallyConverted, TallyRejected,
        Counted, Tally, TallyDone, MaturedDone, timelock
    <3>2. QED
      BY <3>1 DEF MaturedUnloadable, MaturedMoved, MaturedExecuted
  <2>2. g = e
    BY <2>1 DEF Matured
  <2>3. e[1] <= now /\ now \in Nat /\ f[1] \in Nat
    BY <2>1, <2>2, MaturedEntry, EntryFacts DEF Due, TypeOK
  <2>4. CASE f[1] <= now
    BY <2>1, <2>2, <2>4, MaturedEntry
  <2>5. CASE f[1] > now
    BY <2>1, <2>2, <2>3, <2>5, MaturedEntry DEF Before
  <2>6. QED
    BY <2>3, <2>4, <2>5
<1>2. QED
  BY <1>1, InductiveInvariant, PTL DEF Spec, ReleasedInOrder
-------------------------------------------------------------------------------
(* Hooks and overtaking *)

\* A proposal is scheduled by its tally, and unscheduled by the last loop or
\* by a zero-height export.
LEMMA ScheduledBecomes ==
    ASSUME TypeOK, IInv, [Next]_vars
    PROVE  \/ Scheduled' = Scheduled
           \/ \E e \in work : TallyPassedScheduled(e) /\ Scheduled' = Scheduled \cup {e[2]}
           \/ \E e \in work : Matured(e) /\ Scheduled' = Scheduled \ {e[2]}
           \/ ZeroHeightFork /\ Scheduled' = {}
<1>1. CASE UNCHANGED schedule
  BY <1>1, ScheduledKeep
<1>2. CASE \E e \in work : TallyPassedScheduled(e)
  BY <1>2, ScheduledAdd DEF TallyPassedScheduled
<1>3. ASSUME NEW e \in work, Matured(e)
      PROVE  Scheduled' = Scheduled \ {e[2]}
  BY <1>3, MaturedEntry, ScheduledDrop DEF Matured, Due
<1>4. CASE ZeroHeightFork
  BY <1>4 DEF ZeroHeightFork, Scheduled
<1>5. CASE Transactions \/ Faults
  BY <1>1, <1>5
     DEF Transactions, Faults, Submit, StartVoting, Cancel, Unregister, Meddle, Delivering,
         timelock
<1>6. CASE NextBlock \/ UpgradeBlock \/ ExportImport
  BY <1>1, <1>6 DEF NextBlock, UpgradeBlock, ExportImport, timelock
<1>7. CASE EndBlocker
  <2>1. \/ UNCHANGED schedule
        \/ \E e \in work : TallyPassedScheduled(e)
        \/ \E e \in work : Matured(e)
    BY <1>7
       DEF EndBlocker, BeginEndBlock, InactiveUnsupported, InactiveDropped, Inactive,
           InactiveDone, TallyUnsupported, TallyPassedStock, TallyConverted, TallyRejected,
           TallyDone, MaturedUnloadable, MaturedMoved, MaturedExecuted, MaturedDone, timelock
  <2>2. QED
    BY <1>1, <1>2, <1>3, <2>1
<1>8. QED
  BY <1>1, <1>4, <1>5, <1>6, <1>7 DEF Next, Boundary, vars, timelock

\* runVotingPeriodEndedHook is called once per counted vote, at the tally or,
\* for a scheduled proposal, when it leaves the schedule.
THEOREM HookOncePerTally == Spec => []HookPerTally
<1>1. Init => HookPerTally
  BY DEF Init, HookPerTally, Scheduled
<1>2. TypeOK /\ IInv /\ HookPerTally /\ [Next]_vars => HookPerTally'
  <2> SUFFICES ASSUME TypeOK, IInv, HookPerTally, [Next]_vars
               PROVE  HookPerTally'
    OBVIOUS
  <2> DEFINE Owes(p) == IF p \in Scheduled \cup forked THEN 1 ELSE 0
  <2>1. hooked \in [Id -> Nat] /\ tallies \in [Id -> Nat] /\ Scheduled \subseteq Id
    BY ScheduledIds DEF TypeOK
  <2>2. CASE UNCHANGED <<hooked, tallies, Scheduled, forked>>
    BY <2>2 DEF HookPerTally
  <2>3. ASSUME NEW e \in work, Counted(e), RunHook(e[2]), Scheduled' = Scheduled
        PROVE  HookPerTally'
    BY <2>1, <2>3, EntryFacts DEF Counted, Tally, RunHook, HookPerTally
  <2>4. ASSUME NEW e \in work, TallyPassedScheduled(e), Scheduled' = Scheduled \cup {e[2]}
        PROVE  HookPerTally'
    <3>1. e[2] \in Id /\ e[2] \notin Scheduled \cup forked
      BY <2>4, EntryFacts
         DEF TallyPassedScheduled, Counted, Tally, Takes, Loaded, Status, IInv, LoopInv,
             QueueInv, UndecidedInv, Undecided
    <3>2. QED
      BY <2>1, <2>4, <3>1 DEF TallyPassedScheduled, Counted, Tally, HookPerTally
  <2>5. ASSUME NEW e \in work, Matured(e), Scheduled' = Scheduled \ {e[2]}
        PROVE  HookPerTally'
    <3>1. e[2] \in Id /\ e[2] \in Scheduled /\ e[2] \notin forked
      BY <2>5, MaturedEntry DEF Scheduled, Due
    <3>2. QED
      BY <2>1, <2>5, <3>1 DEF Matured, RunHook, history, HookPerTally
  <2>6. CASE ZeroHeightFork
    BY <2>6 DEF ZeroHeightFork, Later, HookPerTally, Scheduled
  <2>7. CASE ~(\E e \in work : TallyPassedScheduled(e) \/ Matured(e)) /\ ~ZeroHeightFork
    <3>1. Scheduled' = Scheduled
      BY <2>7, ScheduledBecomes
    <3>2. CASE UNCHANGED vars
      BY <2>2, <3>1, <3>2 DEF vars, history
    <3>3. CASE Transactions \/ Faults
      BY <2>2, <3>1, <3>3
         DEF Transactions, Faults, Submit, StartVoting, Cancel, Unregister, Meddle, Delivering,
             history
    <3>4. CASE NextBlock \/ UpgradeBlock \/ ExportImport
      BY <2>2, <3>1, <3>4 DEF NextBlock, UpgradeBlock, ExportImport, Later
    <3>5. CASE EndBlocker
      <4>1. \/ UNCHANGED <<hooked, tallies, forked>>
            \/ \E e \in work : Counted(e) /\ RunHook(e[2])
        BY <2>7, <3>5
           DEF EndBlocker, BeginEndBlock, InactiveUnsupported, InactiveDropped, Inactive,
               InactiveDone, TallyUnsupported, Tally, TallyPassedStock, TallyConverted,
               TallyRejected, TallyDone, MaturedUnloadable, MaturedMoved, MaturedExecuted,
               MaturedDone, history
      <4>2. QED
        BY <2>2, <2>3, <3>1, <4>1
    <3>6. QED
      BY <2>7, <3>2, <3>3, <3>4, <3>5 DEF Next, Boundary
  <2>8. QED
    <3>1. CASE \E e \in work : TallyPassedScheduled(e)
      BY <2>4, <3>1, ScheduledAdd DEF TallyPassedScheduled
    <3>2. CASE \E e \in work : Matured(e)
      BY <2>5, <3>2, MaturedEntry, ScheduledDrop DEF Matured, Due
    <3>3. QED
      BY <2>6, <2>7, <3>1, <3>2
<1>3. QED
  BY <1>1, <1>2, InductiveInvariant, PTL DEF Spec

\* A proposal that passed later does not take effect while one that passed
\* earlier still waits in the schedule.
THEOREM NoOvertaking == Spec => []FirstPassedFirstRun
<1>1. Init => FirstPassedFirstRun
  BY DEF Init, FirstPassedFirstRun, Scheduled
<1>2. TypeOK /\ IInv /\ FirstPassedFirstRun /\ [Next]_vars => FirstPassedFirstRun'
  <2> SUFFICES ASSUME TypeOK, IInv, FirstPassedFirstRun, [Next]_vars,
                      NEW p \in Id, NEW q \in Id, p \in Scheduled', (passedAt[p] < passedAt[q])'
               PROVE  written'[q] = 0
    BY DEF FirstPassedFirstRun
  <2>1. /\ passedAt \in [Id -> Nat] /\ written \in [Id -> Nat]
        /\ now \in Nat \ {0} /\ ExecutionDelay \in Nat
    BY GenesisAssumption DEF TypeOK, ExecutionDelay
  <2>2. \A r \in Id : passedAt[r] <= now
    BY DEF IInv, HistoryInv
  <2>3. ASSUME NEW e \in work, TallyPassedStock(e)
        PROVE  FALSE
    <3>1. schedule = {}
      BY <2>3 DEF TallyPassedStock, Counted, Tally, IInv, LoopInv, ScheduleInv
    <3>2. QED
      BY <2>3, <3>1 DEF TallyPassedStock, Scheduled
  <2>4. ASSUME NEW e \in work, TallyPassedScheduled(e)
        PROVE  written'[q] = 0
    <3>1. e[2] \in Id /\ written[e[2]] = 0
      BY <2>4, EntryFacts
         DEF TallyPassedScheduled, Counted, Tally, Takes, Loaded, Status, IInv, LoopInv,
             QueueInv, UndecidedInv, Undecided
    <3>2. p # e[2] => p \in Scheduled
      BY <2>4, ScheduledAdd DEF TallyPassedScheduled
    <3>3. p # e[2]
      BY <2>1, <2>2, <2>4, <3>1 DEF TallyPassedScheduled
    <3>4. QED
      BY <2>1, <2>4, <3>1, <3>2, <3>3 DEF TallyPassedScheduled, FirstPassedFirstRun
  <2>5. ASSUME NEW e \in work, MaturedExecuted(e)
        PROVE  written'[q] = 0
    <3>1. p \in Scheduled /\ p # e[2] /\ passedAt[p] < passedAt[q]
      BY <2>5, MaturedEntry, ScheduledDrop DEF MaturedExecuted, Matured, Due, history
    <3>2. CASE q = e[2]
      <4>1. PICK f \in schedule : f[2] = p
        BY <3>1 DEF Scheduled
      <4>2. f[1] = passedAt[p] + ExecutionDelay
        BY <4>1 DEF IInv, ScheduleInv
      <4>3. e[1] = passedAt[q] + ExecutionDelay /\ e[1] <= now
        BY <2>5, <3>2, MaturedEntry DEF MaturedExecuted, Due
      <4>4. f[1] < e[1] /\ f[1] <= now
        BY <2>1, <3>1, <4>2, <4>3
      <4>5. Before(e, f)
        BY <2>5, <3>1, <4>1, <4>4, MaturedEntry DEF MaturedExecuted
      <4>6. QED
        BY <2>1, <3>1, <4>2, <4>3, <4>4, <4>5 DEF Before
    <3>3. CASE q # e[2]
      BY <2>1, <2>5, <3>1, <3>3 DEF MaturedExecuted, ExecuteProposal, FirstPassedFirstRun
    <3>4. QED
      BY <3>2, <3>3
  <2>6. CASE UNCHANGED <<written, passedAt>> /\ Scheduled' \subseteq Scheduled
    BY <2>6 DEF FirstPassedFirstRun
  <2>7. QED
    <3>1. CASE \E e \in work : TallyPassedStock(e) \/ TallyPassedScheduled(e) \/ MaturedExecuted(e)
      BY <2>3, <2>4, <2>5, <3>1
    <3>2. CASE ~\E e \in work : TallyPassedStock(e) \/ TallyPassedScheduled(e) \/ MaturedExecuted(e)
      <4>1. Scheduled' \subseteq Scheduled
        BY <3>2, ScheduledBecomes
      <4>2. UNCHANGED <<written, passedAt>>
        <5>1. CASE UNCHANGED vars
          BY <5>1 DEF vars, history
        <5>2. CASE Transactions \/ Faults
          BY <5>2
             DEF Transactions, Faults, Submit, StartVoting, Cancel, Unregister, Meddle,
                 Delivering, history
        <5>3. CASE Boundary
          BY <5>3 DEF Boundary, NextBlock, UpgradeBlock, ExportImport, ZeroHeightFork, Later
        <5>4. CASE EndBlocker
          BY <3>2, <5>4
             DEF EndBlocker, BeginEndBlock, InactiveUnsupported, InactiveDropped, Inactive,
                 InactiveDone, TallyUnsupported, TallyConverted, TallyRejected, TallyDone,
                 MaturedUnloadable, MaturedMoved, Matured, MaturedDone, history
        <5>5. QED
          BY <5>1, <5>2, <5>3, <5>4 DEF Next
      <4>3. QED
        BY <2>6, <4>1, <4>2
    <3>3. QED
      BY <3>1, <3>2
<1>3. QED
  BY <1>1, <1>2, InductiveInvariant, PTL DEF Spec
-------------------------------------------------------------------------------
(* Deposits, overdue entries and exports *)

\* The record of a scheduled proposal stays StatusPassed unless it is tampered
\* with.
Untampered == \A e \in schedule : e[2] \notin Faulty => status[e[2]] = "passed"

\* Each loop of EndBlocker leaves nothing due behind it.
Drained ==
    /\ phase = "inactive" => \A e \in inactiveQ : e[1] <= now => e \in work
    /\ phase \in {"tally", "matured", "commit"} => \A e \in inactiveQ : e[1] > now
    /\ phase = "commit" /\ active => \A e \in schedule : e[1] > now

\* The second invariant, inductive relative to IInv.
BooksInv == DepositsFollowVote /\ Untampered /\ Drained

\* Every handler, fault and block boundary keeps BooksInv: one step per action,
\* and under it one per part.
LEMMA BooksStep ==
    ASSUME TypeOK, IInv, BooksInv, Next
    PROVE  BooksInv'
<1> USE DEF record, timelock, block, history
<1>types. /\ status \in [Id -> Status] /\ deposit \in [Id -> Deposit]
          /\ depositEnd \in [Id -> Nat] /\ nextId \in Nat /\ now \in Nat /\ MaxId \in Nat
          /\ Faulty \subseteq Id
          /\ DepositPeriod \in Nat \ {0} /\ schedule \in SUBSET Entry
  <2>1. /\ nextId \in Nat /\ now \in Nat /\ MaxId \in Nat
        /\ Faulty \subseteq Id /\ DepositPeriod \in Nat \ {0}
    BY SizeAssumption, PeriodAssumption DEF TypeOK, Id
  <2>2. QED
    BY <2>1 DEF TypeOK
<1>entries. \A e \in inactiveQ \cup activeQ \cup schedule \cup work :
              e[1] \in Nat /\ e[2] \in Id /\ e = <<e[1], e[2]>>
  BY EntryFacts
<1>inv. LoopInv /\ QueueInv /\ UndecidedInv /\ DepositsFollowVote /\ Untampered /\ Drained
  BY DEF IInv, BooksInv
<1>member. \A e \in schedule : e[2] \in Scheduled
  BY DEF Scheduled
<1>1. CASE Submit
  <2>1. Scheduled' = Scheduled
    BY <1>1, ScheduledKeep DEF Submit, Delivering
  <2>2. DepositsFollowVote'
    BY <1>1, <1>types, <1>inv, <2>1 DEF Submit, DepositsFollowVote
  <2>3. Untampered'
    BY <1>1, <1>inv DEF Submit, Delivering, Untampered, UndecidedInv, Id
  <2>4. Drained'
    BY <1>1 DEF Submit, Delivering, Drained
  <2>5. QED
    BY <2>2, <2>3, <2>4 DEF BooksInv
<1>2. ASSUME NEW p \in Id, StartVoting(p)
      PROVE  BooksInv'
  <2>1. Scheduled' = Scheduled
    BY <1>2, ScheduledKeep DEF StartVoting, Delivering
  <2>2. DepositsFollowVote'
    BY <1>2, <1>inv, <2>1 DEF StartVoting, DepositsFollowVote
  <2>3. Untampered'
    BY <1>2, <1>inv DEF StartVoting, Delivering, Untampered
  <2>4. Drained'
    BY <1>2 DEF StartVoting, Delivering, Drained
  <2>5. QED
    BY <2>2, <2>3, <2>4 DEF BooksInv
<1>3. ASSUME NEW p \in Id, Cancel(p)
      PROVE  BooksInv'
  <2>1. Scheduled' = Scheduled
    BY <1>3, ScheduledKeep DEF Cancel, Delivering
  <2>2. DepositsFollowVote'
    BY <1>3, <1>types, <1>inv, <2>1
       DEF Cancel, DeleteProposal, Overwrite, DepositsFollowVote
  <2>3. Untampered'
    BY <1>3, <1>inv DEF Cancel, Delivering, DeleteProposal, Overwrite, Untampered
  <2>4. Drained'
    BY <1>3 DEF Cancel, Delivering, Drained
  <2>5. QED
    BY <2>2, <2>3, <2>4 DEF BooksInv
<1>4. ASSUME NEW p \in Faulty, Unregister(p)
      PROVE  BooksInv'
  <2>1. Scheduled' = Scheduled
    BY <1>4, ScheduledKeep DEF Unregister, Delivering
  <2>2. DepositsFollowVote'
    BY <1>4, <1>inv, <2>1 DEF Unregister, DepositsFollowVote, Undecided, UndecidedInv
  <2>3. Untampered'
    BY <1>4, <1>inv DEF Unregister, Delivering, Untampered
  <2>4. Drained'
    BY <1>4 DEF Unregister, Delivering, Drained
  <2>5. QED
    BY <2>2, <2>3, <2>4 DEF BooksInv
<1>5. ASSUME NEW p \in Faulty, Meddle(p)
      PROVE  BooksInv'
  <2>1. Scheduled' = Scheduled
    BY <1>5, ScheduledKeep DEF Meddle, Delivering
  <2>2. DepositsFollowVote'
    BY <1>5, <1>inv, <2>1 DEF Meddle, Overwrite, DepositsFollowVote
  <2>3. Untampered'
    BY <1>5, <1>inv DEF Meddle, Delivering, Overwrite, Untampered
  <2>4. Drained'
    BY <1>5 DEF Meddle, Delivering, Drained
  <2>5. QED
    BY <2>2, <2>3, <2>4 DEF BooksInv
<1>6. CASE BeginEndBlock
  <2>1. Scheduled' = Scheduled
    BY <1>6, ScheduledKeep DEF BeginEndBlock
  <2>2. DepositsFollowVote'
    BY <1>6, <1>inv, <2>1 DEF BeginEndBlock, DepositsFollowVote
  <2>3. Untampered'
    BY <1>6, <1>inv DEF BeginEndBlock, Untampered
  <2>4. Drained'
    BY <1>6 DEF BeginEndBlock, Due, Drained
  <2>5. QED
    BY <2>2, <2>3, <2>4 DEF BooksInv
<1>7. ASSUME NEW e \in work, InactiveUnsupported(e)
      PROVE  BooksInv'
  <2>1. Scheduled' = Scheduled
    BY <1>7, ScheduledKeep DEF InactiveUnsupported, Inactive
  <2>2. e \in inactiveQ
    BY <1>7, <1>inv DEF InactiveUnsupported, Inactive, LoopInv
  <2>3. DepositsFollowVote'
    BY <1>7, <1>types, <1>inv, <2>1
       DEF InactiveUnsupported, Overwrite, SettleDeposit, DepositsFollowVote
  <2>4. Untampered'
    BY <1>7, <1>inv DEF InactiveUnsupported, Inactive, Overwrite, Untampered
  <2>5. Drained'
    BY <1>7, <1>inv DEF InactiveUnsupported, Inactive, Drained
  <2>6. QED
    BY <2>3, <2>4, <2>5 DEF BooksInv
<1>8. ASSUME NEW e \in work, InactiveDropped(e)
      PROVE  BooksInv'
  <2>1. Scheduled' = Scheduled
    BY <1>8, ScheduledKeep DEF InactiveDropped, Inactive
  <2>2. e \in inactiveQ
    BY <1>8, <1>inv DEF InactiveDropped, Inactive, LoopInv
  <2>3. e = <<depositEnd[e[2]], e[2]>>
    BY <1>inv, <1>entries, <2>2 DEF QueueInv
  <2>4. DepositsFollowVote'
    BY <1>8, <1>types, <1>inv, <2>1
       DEF InactiveDropped, DeleteProposal, Overwrite, SettleDeposit, DepositsFollowVote
  <2>5. Untampered'
    BY <1>8, <1>inv, <2>2
       DEF InactiveDropped, Inactive, DeleteProposal, Overwrite, Untampered, QueueInv
  <2>6. Drained'
    BY <1>8, <1>inv, <2>3 DEF InactiveDropped, Inactive, DeleteProposal, Drained
  <2>7. QED
    BY <2>4, <2>5, <2>6 DEF BooksInv
<1>9. CASE InactiveDone
  <2>1. Scheduled' = Scheduled
    BY <1>9, ScheduledKeep DEF InactiveDone
  <2>2. DepositsFollowVote'
    BY <1>9, <1>inv, <2>1 DEF InactiveDone, DepositsFollowVote
  <2>3. Untampered'
    BY <1>9, <1>inv DEF InactiveDone, Untampered
  <2>4. Drained'
    BY <1>9, <1>types, <1>entries, <1>inv DEF InactiveDone, Drained
  <2>5. QED
    BY <2>2, <2>3, <2>4 DEF BooksInv
<1>10. ASSUME NEW e \in work, TallyUnsupported(e)
      PROVE  BooksInv'
  <2>1. Scheduled' = Scheduled
    BY <1>10, ScheduledKeep DEF TallyUnsupported
  <2>2. e \in activeQ
    BY <1>10, <1>inv DEF TallyUnsupported, Tally, LoopInv
  <2>3. DepositsFollowVote'
    BY <1>10, <1>types, <1>inv, <2>1
       DEF TallyUnsupported, Overwrite, SettleDeposit, DepositsFollowVote
  <2>4. Untampered'
    BY <1>10, <1>inv DEF TallyUnsupported, Overwrite, Untampered
  <2>5. Drained'
    BY <1>10, <1>inv DEF TallyUnsupported, Tally, Drained
  <2>6. QED
    BY <2>3, <2>4, <2>5 DEF BooksInv
<1>11. ASSUME NEW e \in work, TallyPassedStock(e)
      PROVE  BooksInv'
  <2>1. Scheduled' = Scheduled
    BY <1>11, ScheduledKeep DEF TallyPassedStock
  <2>2. e \in activeQ
    BY <1>11, <1>inv DEF TallyPassedStock, Counted, Tally, LoopInv
  <2>3. DepositsFollowVote'
    BY <1>11, <1>types, <1>inv, <2>1
       DEF TallyPassedStock, ExecuteProposal, SettleByTally, SettleDeposit, DepositsFollowVote
  <2>4. Untampered'
    BY <1>11, <1>types, <1>entries, <1>inv, <2>2
       DEF TallyPassedStock, ExecuteProposal, Untampered, QueueInv
  <2>5. Drained'
    BY <1>11, <1>inv DEF TallyPassedStock, Counted, Tally, Drained
  <2>6. QED
    BY <2>3, <2>4, <2>5 DEF BooksInv
<1>12. ASSUME NEW e \in work, TallyPassedScheduled(e)
      PROVE  BooksInv'
  <2>1. Scheduled' = Scheduled \cup {e[2]}
    BY <1>12, ScheduledAdd DEF TallyPassedScheduled
  <2>2. e \in activeQ
    BY <1>12, <1>inv DEF TallyPassedScheduled, Counted, Tally, LoopInv
  <2>3. DepositsFollowVote'
    BY <1>12, <1>types, <1>inv, <2>1
       DEF TallyPassedScheduled, SettleByTally, SettleDeposit, DepositsFollowVote
  <2>4. Untampered'
    BY <1>12, <1>types, <1>entries, <1>inv DEF TallyPassedScheduled, Untampered
  <2>5. Drained'
    BY <1>12, <1>inv DEF TallyPassedScheduled, Counted, Tally, Drained
  <2>6. QED
    BY <2>3, <2>4, <2>5 DEF BooksInv
<1>13. ASSUME NEW e \in work, TallyConverted(e)
      PROVE  BooksInv'
  <2>1. Scheduled' = Scheduled
    BY <1>13, ScheduledKeep DEF TallyConverted
  <2>2. e \in activeQ
    BY <1>13, <1>inv DEF TallyConverted, Counted, Tally, LoopInv
  <2>3. DepositsFollowVote'
    BY <1>13, <1>inv, <2>1 DEF TallyConverted, DepositsFollowVote
  <2>4. Untampered'
    BY <1>13, <1>inv DEF TallyConverted, Untampered
  <2>5. Drained'
    BY <1>13, <1>inv DEF TallyConverted, Counted, Tally, Drained
  <2>6. QED
    BY <2>3, <2>4, <2>5 DEF BooksInv
<1>14. ASSUME NEW e \in work, TallyRejected(e)
      PROVE  BooksInv'
  <2>1. Scheduled' = Scheduled
    BY <1>14, ScheduledKeep DEF TallyRejected
  <2>2. e \in activeQ
    BY <1>14, <1>inv DEF TallyRejected, Counted, Tally, LoopInv
  <2>3. DepositsFollowVote'
    BY <1>14, <1>types, <1>inv, <2>1
       DEF TallyRejected, SettleByTally, SettleDeposit, DepositsFollowVote
  <2>4. Untampered'
    BY <1>14, <1>inv, <2>2 DEF TallyRejected, Untampered, QueueInv
  <2>5. Drained'
    BY <1>14, <1>inv DEF TallyRejected, Counted, Tally, Drained
  <2>6. QED
    BY <2>3, <2>4, <2>5 DEF BooksInv
<1>15. CASE TallyDone
  <2>1. Scheduled' = Scheduled
    BY <1>15, ScheduledKeep DEF TallyDone
  <2>2. DepositsFollowVote'
    BY <1>15, <1>inv, <2>1 DEF TallyDone, DepositsFollowVote
  <2>3. Untampered'
    BY <1>15, <1>inv DEF TallyDone, Untampered
  <2>4. Drained'
    BY <1>15, <1>inv DEF TallyDone, Drained
  <2>5. QED
    BY <2>2, <2>3, <2>4 DEF BooksInv
<1>16. ASSUME NEW e \in work, MaturedUnloadable(e)
      PROVE  BooksInv'
  <2>1. e \in schedule /\ Scheduled' = Scheduled \ {e[2]}
    BY <1>16, MaturedEntry, ScheduledDrop DEF MaturedUnloadable, Matured, Due
  <2>2. DepositsFollowVote'
    BY <1>16, <1>types, <1>inv, <1>member, <2>1
       DEF MaturedUnloadable, Matured, Overwrite, DepositsFollowVote
  <2>3. Untampered'
    BY <1>16, <1>types, <1>entries, <1>inv
       DEF MaturedUnloadable, Matured, Overwrite, Untampered
  <2>4. Drained'
    BY <1>16, <1>inv DEF MaturedUnloadable, Matured, Drained
  <2>5. QED
    BY <2>2, <2>3, <2>4 DEF BooksInv
<1>17. ASSUME NEW e \in work, MaturedMoved(e)
      PROVE  BooksInv'
  <2>1. e \in schedule /\ Scheduled' = Scheduled \ {e[2]}
    BY <1>17, MaturedEntry, ScheduledDrop DEF MaturedMoved, Matured, Due
  <2>2. DepositsFollowVote'
    BY <1>17, <1>inv, <2>1 DEF MaturedMoved, Matured, DepositsFollowVote, Loaded
  <2>3. Untampered'
    BY <1>17, <1>inv DEF MaturedMoved, Matured, Untampered
  <2>4. Drained'
    BY <1>17, <1>inv DEF MaturedMoved, Matured, Drained
  <2>5. QED
    BY <2>2, <2>3, <2>4 DEF BooksInv
<1>18. ASSUME NEW e \in work, MaturedExecuted(e)
      PROVE  BooksInv'
  <2>1. e \in schedule /\ Scheduled' = Scheduled \ {e[2]}
    BY <1>18, MaturedEntry, ScheduledDrop DEF MaturedExecuted, Matured, Due
  <2>2. DepositsFollowVote'
    BY <1>18, <1>types, <1>inv, <2>1
       DEF MaturedExecuted, Matured, ExecuteProposal, DepositsFollowVote
  <2>3. Untampered'
    BY <1>18, <1>types, <1>entries, <1>inv, <2>1, UniqueKeys
       DEF MaturedExecuted, Matured, ExecuteProposal, Untampered
  <2>4. Drained'
    BY <1>18, <1>inv DEF MaturedExecuted, Matured, Drained
  <2>5. QED
    BY <2>2, <2>3, <2>4 DEF BooksInv
<1>19. CASE MaturedDone
  <2>1. Scheduled' = Scheduled
    BY <1>19, ScheduledKeep DEF MaturedDone
  <2>2. DepositsFollowVote'
    BY <1>19, <1>inv, <2>1 DEF MaturedDone, DepositsFollowVote
  <2>3. Untampered'
    BY <1>19, <1>inv DEF MaturedDone, Untampered
  <2>4. Drained'
    BY <1>19, <1>types, <1>entries, <1>inv DEF MaturedDone, Drained, Due, LoopInv
  <2>5. QED
    BY <2>2, <2>3, <2>4 DEF BooksInv
<1>20. CASE NextBlock
  <2>1. Scheduled' = Scheduled
    BY <1>20, ScheduledKeep DEF NextBlock
  <2>2. DepositsFollowVote'
    BY <1>20, <1>inv, <2>1 DEF NextBlock, Later, DepositsFollowVote
  <2>3. Untampered'
    BY <1>20, <1>inv DEF NextBlock, Later, Untampered
  <2>4. Drained'
    BY <1>20 DEF NextBlock, Later, Drained
  <2>5. QED
    BY <2>2, <2>3, <2>4 DEF BooksInv
<1>21. CASE UpgradeBlock
  <2>1. Scheduled' = Scheduled
    BY <1>21, ScheduledKeep DEF UpgradeBlock
  <2>2. DepositsFollowVote'
    BY <1>21, <1>inv, <2>1 DEF UpgradeBlock, Later, DepositsFollowVote
  <2>3. Untampered'
    BY <1>21, <1>inv DEF UpgradeBlock, Later, Untampered
  <2>4. Drained'
    BY <1>21 DEF UpgradeBlock, Later, Drained
  <2>5. QED
    BY <2>2, <2>3, <2>4 DEF BooksInv
<1>22. CASE ExportImport
  <2>1. Scheduled' = Scheduled
    BY <1>22, ScheduledKeep DEF ExportImport
  <2>2. DepositsFollowVote'
    BY <1>22, <1>inv DEF ExportImport, Later, Exportable, DepositsFollowVote
  <2>3. Untampered'
    BY <1>22, <1>inv DEF ExportImport, Later, Untampered
  <2>4. Drained'
    BY <1>22 DEF ExportImport, Later, Drained
  <2>5. QED
    BY <2>2, <2>3, <2>4 DEF BooksInv
<1>23. CASE ZeroHeightFork
  <2>1. Scheduled' = {}
    BY <1>23 DEF ZeroHeightFork, Scheduled
  <2>2. DepositsFollowVote'
    BY <1>23, <1>inv DEF ZeroHeightFork, Later, Exportable, DepositsFollowVote
  <2>3. Untampered'
    BY <1>23 DEF ZeroHeightFork, Untampered
  <2>4. Drained'
    BY <1>23 DEF ZeroHeightFork, Later, Drained
  <2>5. QED
    BY <2>2, <2>3, <2>4 DEF BooksInv
<1>24. QED
  BY <1>1, <1>2, <1>3, <1>4, <1>5, <1>6, <1>7, <1>8, <1>9, <1>10, <1>11, <1>12, <1>13, <1>14,
     <1>15, <1>16, <1>17, <1>18, <1>19, <1>20, <1>21, <1>22, <1>23
     DEF Id, Next, Transactions, Faults, EndBlocker, Boundary

\* Deposits, scheduled records and the drained queues are always as BooksInv
\* says.
THEOREM BooksAreKept == Spec => []BooksInv
<1>1. Init => BooksInv
  BY DEF Init, BooksInv, DepositsFollowVote, Untampered, Drained
<1>2. TypeOK /\ IInv /\ BooksInv /\ [Next]_vars => BooksInv'
  <2> SUFFICES ASSUME TypeOK, IInv, BooksInv, [Next]_vars
               PROVE  BooksInv'
    OBVIOUS
  <2>1. CASE UNCHANGED vars
    BY <2>1, ScheduledKeep
       DEF vars, record, timelock, block, BooksInv, DepositsFollowVote, Untampered, Drained
  <2>2. QED
    BY <2>1, BooksStep
<1>3. QED
  BY <1>1, <1>2, InductiveInvariant, PTL DEF Spec

\* RefundAndDeleteDeposits and DeleteAndBurnDeposits are applied exactly when
\* a vote is closed, and not at a conversion.
THEOREM DepositsSettled == Spec => []DepositsFollowVote
<1>1. BooksInv => DepositsFollowVote
  BY DEF BooksInv
<1>2. QED
  BY <1>1, BooksAreKept, PTL

\* A block that ends under the timelock leaves no due entry in the inactive
\* queue or the schedule.
THEOREM NothingLeftDue == Spec => []NothingOverdue
<1>1. BooksInv => NothingOverdue
  BY DEF BooksInv, Drained, NothingOverdue
<1>2. QED
  BY <1>1, BooksAreKept, PTL

\* What ExportGenesis writes satisfies GenesisState.Validate and the check of
\* InitGenesis against x/gov.
THEOREM ExportsAccepted == Spec => []ExportAccepted
<1>1. TypeOK /\ IInv /\ BooksInv => ExportAccepted
  <2> SUFFICES ASSUME TypeOK, IInv, BooksInv
               PROVE  ExportAccepted
    OBVIOUS
  <2>1. ASSUME delay = 0 \/ delay >= MinimumDelay
        PROVE  Validates(schedule, activation, ExecutionDelay)
    <3>1. ExecutionDelay >= MinimumDelay
      BY <2>1, GenesisAssumption DEF ExecutionDelay
    <3>2. activation = 0 => schedule = {}
      BY DEF IInv, ScheduleInv, IsActive
    <3>3. \A e \in schedule : e[1] # 0 /\ e[2] # 0
      <4> SUFFICES ASSUME NEW e \in schedule
                   PROVE  e[1] # 0 /\ e[2] # 0
        OBVIOUS
      <4>1. e[2] \in Id /\ e[2] # 0
        BY EntryFacts DEF Id
      <4>2. ExecutionDelay \in Nat \ {0} /\ passedAt[e[2]] \in Nat
        BY <4>1, GenesisAssumption DEF ExecutionDelay, TypeOK
      <4>3. e[1] = passedAt[e[2]] + ExecutionDelay
        BY DEF IInv, ScheduleInv
      <4>4. QED
        BY <4>1, <4>2, <4>3
    <3>4. QED
      BY <3>1, <3>2, <3>3, UniqueKeys DEF Validates
  <2>2. QED
    BY <2>1 DEF ExportAccepted, BooksInv, Untampered
<1>2. QED
  BY <1>1, InductiveInvariant, BooksAreKept, PTL

-------------------------------------------------------------------------------
(* Votes *)

\* An open proposal is on its queue.
Queued ==
    \A p \in Id :
        /\ status[p] = "deposit" => <<depositEnd[p], p>> \in inactiveQ
        /\ status[p] = "voting" => <<votingEnd[p], p>> \in activeQ
        /\ status[p] = "corrupt" /\ p \notin Scheduled =>
               \E e \in inactiveQ \cup activeQ : e[2] = p

\* How often an open vote was counted.
Counts ==
    \A p \in Id :
        /\ p >= nextId \/ status[p] = "deposit" => tallies[p] = 0
        /\ status[p] = "voting" => tallies[p] <= IF expedited[p] THEN 0 ELSE 1

Extended(p) == status[p] = "voting" /\ tallies[p] = 1

\* The second loop of EndBlocker counts every vote that is over, and leaves open
\* only those it extends.
DueCounted ==
    /\ phase = "tally" => \A e \in activeQ : e[1] <= now => e \in work \/ Extended(e[2])
    /\ phase \in {"matured", "commit"} =>
           \A e \in activeQ : e[1] <= now => Extended(e[2])

\* The third invariant, inductive relative to IInv.
VotesInv == Queued /\ Counts /\ DueCounted

\* Every handler, fault and block boundary keeps VotesInv: one step per action,
\* and under it one per part.
LEMMA VotesStep ==
    ASSUME TypeOK, IInv, VotesInv, Next
    PROVE  VotesInv'
<1> USE DEF record, timelock, block, history
<1>types. /\ status \in [Id -> Status] /\ expedited \in [Id -> BOOLEAN]
          /\ depositEnd \in [Id -> Nat] /\ votingStart \in [Id -> Nat]
          /\ votingEnd \in [Id -> Nat] /\ tallies \in [Id -> Nat]
          /\ nextId \in Nat /\ now \in Nat /\ MaxId \in Nat /\ Faulty \subseteq Id
  <2>1. /\ nextId \in Nat /\ now \in Nat /\ MaxId \in Nat /\ Faulty \subseteq Id
    BY SizeAssumption DEF TypeOK, Id
  <2>2. QED
    BY <2>1 DEF TypeOK
<1>entries. \A e \in inactiveQ \cup activeQ \cup schedule \cup work :
              e[1] \in Nat /\ e[2] \in Id /\ e = <<e[1], e[2]>>
  BY EntryFacts
<1>keys. /\ \A e, f \in inactiveQ : e[2] = f[2] => e = f
         /\ \A e, f \in activeQ : e[2] = f[2] => e = f
  BY UniqueKeys
<1>inv. LoopInv /\ QueueInv /\ UndecidedInv /\ Queued /\ Counts /\ DueCounted
  BY DEF IInv, VotesInv
<1>1. CASE Submit
  <2>1. Scheduled' = Scheduled
    BY <1>1, ScheduledKeep DEF Submit, Delivering
  <2>2. Queued'
    BY <1>1, <1>types, <1>entries, <1>keys, <1>inv, <2>1
       DEF Submit, Delivering, QueueInv, Queued
  <2>3. Counts'
    BY <1>1, <1>types, <1>entries, <1>inv, <2>1 DEF Submit, Delivering, Counts, Id
  <2>4. DueCounted'
    BY <1>1, <1>types, <1>entries, <1>keys, <1>inv, <2>1
       DEF Submit, Delivering, LoopInv, QueueInv, DueCounted, Extended
  <2>5. QED
    BY <2>2, <2>3, <2>4 DEF VotesInv
<1>2. ASSUME NEW p \in Id, StartVoting(p)
      PROVE  VotesInv'
  <2>1. Scheduled' = Scheduled
    BY <1>2, ScheduledKeep DEF StartVoting, Delivering
  <2>2. Queued'
    BY <1>2, <1>types, <1>entries, <1>keys, <1>inv, <2>1
       DEF StartVoting, Delivering, QueueInv, Queued
  <2>3. Counts'
    BY <1>2, <1>types, <1>entries, <1>inv, <2>1 DEF StartVoting, Delivering, Counts
  <2>4. DueCounted'
    BY <1>2, <1>types, <1>entries, <1>keys, <1>inv, <2>1
       DEF StartVoting, Delivering, LoopInv, QueueInv, DueCounted, Extended
  <2>5. QED
    BY <2>2, <2>3, <2>4 DEF VotesInv
<1>3. ASSUME NEW p \in Id, Cancel(p)
      PROVE  VotesInv'
  <2>1. Scheduled' = Scheduled
    BY <1>3, ScheduledKeep DEF Cancel, Delivering, DeleteProposal, Overwrite
  <2>2. Queued'
    BY <1>3, <1>types, <1>entries, <1>keys, <1>inv, <2>1
       DEF Cancel, Delivering, DeleteProposal, Overwrite, QueueInv, Queued
  <2>3. Counts'
    BY <1>3, <1>types, <1>entries, <1>inv, <2>1
       DEF Cancel, Delivering, DeleteProposal, Overwrite, Counts
  <2>4. DueCounted'
    BY <1>3, <1>types, <1>entries, <1>keys, <1>inv, <2>1
       DEF Cancel, Delivering, DeleteProposal, Overwrite, LoopInv, QueueInv, DueCounted,
           Extended
  <2>5. QED
    BY <2>2, <2>3, <2>4 DEF VotesInv
<1>4. ASSUME NEW p \in Faulty, Unregister(p)
      PROVE  VotesInv'
  <2>1. Scheduled' = Scheduled
    BY <1>4, ScheduledKeep DEF Unregister, Delivering
  <2>2. Queued'
    BY <1>4, <1>types, <1>entries, <1>keys, <1>inv, <2>1
       DEF Unregister, Delivering, QueueInv, Queued
  <2>3. Counts'
    BY <1>4, <1>types, <1>entries, <1>inv, <2>1 DEF Unregister, Delivering, Counts
  <2>4. DueCounted'
    BY <1>4, <1>types, <1>entries, <1>keys, <1>inv, <2>1
       DEF Unregister, Delivering, LoopInv, QueueInv, DueCounted, Extended
  <2>5. QED
    BY <2>2, <2>3, <2>4 DEF VotesInv
<1>5. ASSUME NEW p \in Faulty, Meddle(p)
      PROVE  VotesInv'
  <2>1. Scheduled' = Scheduled
    BY <1>5, ScheduledKeep DEF Meddle, Delivering, Overwrite
  <2>2. Queued'
    BY <1>5, <1>types, <1>entries, <1>keys, <1>inv, <2>1
       DEF Meddle, Delivering, Overwrite, QueueInv, Queued
  <2>3. Counts'
    BY <1>5, <1>types, <1>entries, <1>inv, <2>1 DEF Meddle, Delivering, Overwrite, Counts
  <2>4. DueCounted'
    BY <1>5, <1>types, <1>entries, <1>keys, <1>inv, <2>1
       DEF Meddle, Delivering, Overwrite, LoopInv, QueueInv, DueCounted, Extended
  <2>5. QED
    BY <2>2, <2>3, <2>4 DEF VotesInv
<1>6. CASE BeginEndBlock
  <2>1. Scheduled' = Scheduled
    BY <1>6, ScheduledKeep DEF BeginEndBlock
  <2>2. Queued'
    BY <1>6, <1>types, <1>entries, <1>keys, <1>inv, <2>1 DEF BeginEndBlock, QueueInv, Queued
  <2>3. Counts'
    BY <1>6, <1>types, <1>entries, <1>inv, <2>1 DEF BeginEndBlock, Counts
  <2>4. DueCounted'
    BY <1>6, <1>types, <1>entries, <1>keys, <1>inv, <2>1
       DEF BeginEndBlock, LoopInv, QueueInv, DueCounted, Extended
  <2>5. QED
    BY <2>2, <2>3, <2>4 DEF VotesInv
<1>7. ASSUME NEW e \in work, InactiveUnsupported(e)
      PROVE  VotesInv'
  <2>1. Scheduled' = Scheduled
    BY <1>7, ScheduledKeep DEF InactiveUnsupported, Inactive, Overwrite
  <2>2. e \in inactiveQ /\ status[e[2]] \in {"deposit", "corrupt"}
    BY <1>7, <1>inv DEF InactiveUnsupported, Inactive, LoopInv, QueueInv
  <2>3. Queued'
    BY <1>7, <1>types, <1>entries, <1>keys, <1>inv, <2>1, <2>2
       DEF InactiveUnsupported, Inactive, Overwrite, QueueInv, Queued
  <2>4. Counts'
    BY <1>7, <1>types, <1>entries, <1>inv, <2>1, <2>2
       DEF InactiveUnsupported, Inactive, Overwrite, Counts
  <2>5. DueCounted'
    BY <1>7, <1>types, <1>entries, <1>keys, <1>inv, <2>1, <2>2
       DEF InactiveUnsupported, Inactive, Overwrite, LoopInv, QueueInv, DueCounted, Extended
  <2>6. QED
    BY <2>3, <2>4, <2>5 DEF VotesInv
<1>8. ASSUME NEW e \in work, InactiveDropped(e)
      PROVE  VotesInv'
  <2>1. Scheduled' = Scheduled
    BY <1>8, ScheduledKeep DEF InactiveDropped, Inactive, DeleteProposal, Overwrite
  <2>2. e \in inactiveQ /\ status[e[2]] \in {"deposit", "corrupt"}
    BY <1>8, <1>inv DEF InactiveDropped, Inactive, LoopInv, QueueInv
  <2>3. Queued'
    BY <1>8, <1>types, <1>entries, <1>keys, <1>inv, <2>1, <2>2
       DEF InactiveDropped, Inactive, DeleteProposal, Overwrite, QueueInv, Queued
  <2>4. Counts'
    BY <1>8, <1>types, <1>entries, <1>inv, <2>1, <2>2
       DEF InactiveDropped, Inactive, DeleteProposal, Overwrite, Counts
  <2>5. DueCounted'
    BY <1>8, <1>types, <1>entries, <1>keys, <1>inv, <2>1, <2>2
       DEF InactiveDropped, Inactive, DeleteProposal, Overwrite, LoopInv, QueueInv,
           DueCounted, Extended
  <2>6. QED
    BY <2>3, <2>4, <2>5 DEF VotesInv
<1>9. CASE InactiveDone
  <2>1. Scheduled' = Scheduled
    BY <1>9, ScheduledKeep DEF InactiveDone, Due
  <2>2. Queued'
    BY <1>9, <1>types, <1>entries, <1>keys, <1>inv, <2>1
       DEF InactiveDone, Due, QueueInv, Queued
  <2>3. Counts'
    BY <1>9, <1>types, <1>entries, <1>inv, <2>1 DEF InactiveDone, Due, Counts
  <2>4. DueCounted'
    BY <1>9, <1>types, <1>entries, <1>keys, <1>inv, <2>1
       DEF InactiveDone, Due, LoopInv, QueueInv, DueCounted, Extended
  <2>5. QED
    BY <2>2, <2>3, <2>4 DEF VotesInv
<1>10. ASSUME NEW e \in work, TallyUnsupported(e)
      PROVE  VotesInv'
  <2>1. Scheduled' = Scheduled
    BY <1>10, ScheduledKeep DEF TallyUnsupported, Tally, Overwrite
  <2>2. /\ e \in activeQ /\ e[1] = votingEnd[e[2]] /\ status[e[2]] \in {"voting", "corrupt"}
        /\ e[2] < nextId /\ e[2] \in Id
    BY <1>10, <1>entries, <1>inv DEF TallyUnsupported, Tally, LoopInv, QueueInv
  <2>3. Queued'
    BY <1>10, <1>types, <1>entries, <1>keys, <1>inv, <2>1, <2>2
       DEF TallyUnsupported, Tally, Overwrite, QueueInv, Queued
  <2>4. Counts'
    BY <1>10, <1>types, <1>entries, <1>inv, <2>1, <2>2
       DEF TallyUnsupported, Tally, Overwrite, Counts, Id
  <2>5. DueCounted'
    BY <1>10, <1>types, <1>entries, <1>keys, <1>inv, <2>1, <2>2
       DEF TallyUnsupported, Tally, Overwrite, LoopInv, QueueInv, DueCounted, Extended
  <2>6. QED
    BY <2>3, <2>4, <2>5 DEF VotesInv
<1>11. ASSUME NEW e \in work, TallyPassedStock(e)
      PROVE  VotesInv'
  <2>1. Scheduled' = Scheduled
    BY <1>11, ScheduledKeep DEF TallyPassedStock, Counted, Tally, ExecuteProposal
  <2>2. /\ e \in activeQ /\ e[1] = votingEnd[e[2]] /\ status[e[2]] \in {"voting", "corrupt"}
        /\ e[2] < nextId /\ e[2] \in Id
    BY <1>11, <1>entries, <1>inv DEF TallyPassedStock, Counted, Tally, LoopInv, QueueInv
  <2>3. Queued'
    BY <1>11, <1>types, <1>entries, <1>keys, <1>inv, <2>1, <2>2
       DEF TallyPassedStock, Counted, Tally, ExecuteProposal, QueueInv, Queued
  <2>4. Counts'
    BY <1>11, <1>types, <1>entries, <1>inv, <2>1, <2>2
       DEF TallyPassedStock, Counted, Tally, ExecuteProposal, Counts, Id
  <2>5. DueCounted'
    BY <1>11, <1>types, <1>entries, <1>keys, <1>inv, <2>1, <2>2
       DEF TallyPassedStock, Counted, Tally, ExecuteProposal, LoopInv, QueueInv, DueCounted,
           Extended
  <2>6. QED
    BY <2>3, <2>4, <2>5 DEF VotesInv
<1>12. ASSUME NEW e \in work, TallyPassedScheduled(e)
      PROVE  VotesInv'
  <2>1. Scheduled' = Scheduled \cup {e[2]}
    BY <1>12, ScheduledAdd DEF TallyPassedScheduled
  <2>2. /\ e \in activeQ /\ e[1] = votingEnd[e[2]] /\ status[e[2]] \in {"voting", "corrupt"}
        /\ e[2] < nextId /\ e[2] \in Id
    BY <1>12, <1>entries, <1>inv DEF TallyPassedScheduled, Counted, Tally, LoopInv, QueueInv
  <2>3. Queued'
    BY <1>12, <1>types, <1>entries, <1>keys, <1>inv, <2>1, <2>2
       DEF TallyPassedScheduled, Counted, Tally, QueueInv, Queued
  <2>4. Counts'
    BY <1>12, <1>types, <1>entries, <1>inv, <2>1, <2>2
       DEF TallyPassedScheduled, Counted, Tally, Counts, Id
  <2>5. DueCounted'
    BY <1>12, <1>types, <1>entries, <1>keys, <1>inv, <2>1, <2>2
       DEF TallyPassedScheduled, Counted, Tally, LoopInv, QueueInv, DueCounted, Extended
  <2>6. QED
    BY <2>3, <2>4, <2>5 DEF VotesInv
<1>13. ASSUME NEW e \in work, TallyConverted(e)
      PROVE  VotesInv'
  <2>1. Scheduled' = Scheduled
    BY <1>13, ScheduledKeep DEF TallyConverted, Counted, Tally
  <2>2. /\ e \in activeQ /\ e[1] = votingEnd[e[2]] /\ status[e[2]] \in {"voting", "corrupt"}
        /\ e[2] < nextId /\ e[2] \in Id
    BY <1>13, <1>entries, <1>inv DEF TallyConverted, Counted, Tally, LoopInv, QueueInv
  <2>3. Queued'
    BY <1>13, <1>types, <1>entries, <1>keys, <1>inv, <2>1, <2>2
       DEF TallyConverted, Counted, Tally, QueueInv, Queued
  <2>4. Counts'
    BY <1>13, <1>types, <1>entries, <1>inv, <2>1, <2>2
       DEF TallyConverted, Counted, Tally, Counts, Id
  <2>5. DueCounted'
    <3>1. status[e[2]] = "voting" /\ expedited[e[2]] /\ status' = status
      BY <1>13, <2>2 DEF TallyConverted, Counted, Loaded
    <3>2. tallies[e[2]] = 0
      BY <1>types, <1>inv, <2>2, <3>1 DEF Counts
    <3>3. Extended(e[2])'
      BY <1>13, <1>types, <2>2, <3>1, <3>2 DEF TallyConverted, Counted, Extended
    <3>4. ASSUME NEW f \in activeQ', f[1] <= now PROVE f \in work' \/ Extended(f[2])'
      <4>1. CASE f[2] = e[2]
        BY <3>3, <4>1
      <4>2. CASE f[2] # e[2]
        <5>1. f \in activeQ /\ f # e
          BY <1>13, <3>4, <4>2 DEF TallyConverted
        <5>2. f \in work \/ Extended(f[2])
          BY <1>13, <1>inv, <3>4, <5>1 DEF TallyConverted, Counted, Tally, DueCounted
        <5>3. Extended(f[2]) => Extended(f[2])'
          BY <1>13, <1>types, <3>1, <4>2 DEF TallyConverted, Counted, Extended
        <5>4. QED
          BY <1>13, <5>1, <5>2, <5>3 DEF TallyConverted, Counted, Tally
      <4>3. QED
        BY <4>1, <4>2
    <3>5. QED
      BY <1>13, <3>4 DEF TallyConverted, Counted, Tally, DueCounted
  <2>6. QED
    BY <2>3, <2>4, <2>5 DEF VotesInv
<1>14. ASSUME NEW e \in work, TallyRejected(e)
      PROVE  VotesInv'
  <2>1. Scheduled' = Scheduled
    BY <1>14, ScheduledKeep DEF TallyRejected, Counted, Tally
  <2>2. /\ e \in activeQ /\ e[1] = votingEnd[e[2]] /\ status[e[2]] \in {"voting", "corrupt"}
        /\ e[2] < nextId /\ e[2] \in Id
    BY <1>14, <1>entries, <1>inv DEF TallyRejected, Counted, Tally, LoopInv, QueueInv
  <2>3. Queued'
    BY <1>14, <1>types, <1>entries, <1>keys, <1>inv, <2>1, <2>2
       DEF TallyRejected, Counted, Tally, QueueInv, Queued
  <2>4. Counts'
    BY <1>14, <1>types, <1>entries, <1>inv, <2>1, <2>2
       DEF TallyRejected, Counted, Tally, Counts, Id
  <2>5. DueCounted'
    BY <1>14, <1>types, <1>entries, <1>keys, <1>inv, <2>1, <2>2
       DEF TallyRejected, Counted, Tally, LoopInv, QueueInv, DueCounted, Extended
  <2>6. QED
    BY <2>3, <2>4, <2>5 DEF VotesInv
<1>15. CASE TallyDone
  <2>1. Scheduled' = Scheduled
    BY <1>15, ScheduledKeep DEF TallyDone
  <2>2. Queued'
    BY <1>15, <1>types, <1>entries, <1>keys, <1>inv, <2>1 DEF TallyDone, QueueInv, Queued
  <2>3. Counts'
    BY <1>15, <1>types, <1>entries, <1>inv, <2>1 DEF TallyDone, Counts
  <2>4. DueCounted'
    BY <1>15, <1>types, <1>entries, <1>keys, <1>inv, <2>1
       DEF TallyDone, LoopInv, QueueInv, DueCounted, Extended
  <2>5. QED
    BY <2>2, <2>3, <2>4 DEF VotesInv
<1>16. ASSUME NEW e \in work, MaturedUnloadable(e)
      PROVE  VotesInv'
  <2>1. e \in schedule /\ Scheduled' = Scheduled \ {e[2]}
    BY <1>16, MaturedEntry, ScheduledDrop DEF MaturedUnloadable, Matured, Due
  <2>2. Queued'
    BY <1>16, <1>types, <1>entries, <1>keys, <1>inv, <2>1
       DEF MaturedUnloadable, Matured, Overwrite, QueueInv, Queued
  <2>3. Counts'
    BY <1>16, <1>types, <1>entries, <1>inv, <2>1
       DEF MaturedUnloadable, Matured, Overwrite, Counts
  <2>4. DueCounted'
    BY <1>16, <1>types, <1>entries, <1>keys, <1>inv, <2>1
       DEF MaturedUnloadable, Matured, Overwrite, LoopInv, QueueInv, DueCounted, Extended
  <2>5. QED
    BY <2>2, <2>3, <2>4 DEF VotesInv
<1>17. ASSUME NEW e \in work, MaturedMoved(e)
      PROVE  VotesInv'
  <2>1. e \in schedule /\ Scheduled' = Scheduled \ {e[2]}
    BY <1>17, MaturedEntry, ScheduledDrop DEF MaturedMoved, Matured, Due
  <2>2. Queued'
    BY <1>17, <1>types, <1>entries, <1>keys, <1>inv, <2>1
       DEF MaturedMoved, Matured, Loaded, QueueInv, Queued
  <2>3. Counts'
    BY <1>17, <1>types, <1>entries, <1>inv, <2>1 DEF MaturedMoved, Matured, Counts
  <2>4. DueCounted'
    BY <1>17, <1>types, <1>entries, <1>keys, <1>inv, <2>1
       DEF MaturedMoved, Matured, LoopInv, QueueInv, DueCounted, Extended
  <2>5. QED
    BY <2>2, <2>3, <2>4 DEF VotesInv
<1>18. ASSUME NEW e \in work, MaturedExecuted(e)
      PROVE  VotesInv'
  <2>1. e \in schedule /\ Scheduled' = Scheduled \ {e[2]}
    BY <1>18, MaturedEntry, ScheduledDrop DEF MaturedExecuted, Matured, Due
  <2>2. Queued'
    BY <1>18, <1>types, <1>entries, <1>keys, <1>inv, <2>1
       DEF MaturedExecuted, Matured, ExecuteProposal, QueueInv, Queued
  <2>3. Counts'
    BY <1>18, <1>types, <1>entries, <1>inv, <2>1
       DEF MaturedExecuted, Matured, ExecuteProposal, Counts
  <2>4. DueCounted'
    BY <1>18, <1>types, <1>entries, <1>keys, <1>inv, <2>1
       DEF MaturedExecuted, Matured, ExecuteProposal, LoopInv, QueueInv, DueCounted,
           Extended
  <2>5. QED
    BY <2>2, <2>3, <2>4 DEF VotesInv
<1>19. CASE MaturedDone
  <2>1. Scheduled' = Scheduled
    BY <1>19, ScheduledKeep DEF MaturedDone
  <2>2. Queued'
    BY <1>19, <1>types, <1>entries, <1>keys, <1>inv, <2>1 DEF MaturedDone, QueueInv, Queued
  <2>3. Counts'
    BY <1>19, <1>types, <1>entries, <1>inv, <2>1 DEF MaturedDone, Counts
  <2>4. DueCounted'
    BY <1>19, <1>types, <1>entries, <1>keys, <1>inv, <2>1
       DEF MaturedDone, LoopInv, QueueInv, DueCounted, Extended
  <2>5. QED
    BY <2>2, <2>3, <2>4 DEF VotesInv
<1>20. CASE NextBlock
  <2>1. Scheduled' = Scheduled
    BY <1>20, ScheduledKeep DEF NextBlock, Later
  <2>2. Queued'
    BY <1>20, <1>types, <1>entries, <1>keys, <1>inv, <2>1
       DEF NextBlock, Later, QueueInv, Queued
  <2>3. Counts'
    BY <1>20, <1>types, <1>entries, <1>inv, <2>1 DEF NextBlock, Later, Counts
  <2>4. DueCounted'
    BY <1>20, <1>types, <1>entries, <1>keys, <1>inv, <2>1
       DEF NextBlock, Later, LoopInv, QueueInv, DueCounted, Extended
  <2>5. QED
    BY <2>2, <2>3, <2>4 DEF VotesInv
<1>21. CASE UpgradeBlock
  <2>1. Scheduled' = Scheduled
    BY <1>21, ScheduledKeep DEF UpgradeBlock, Later
  <2>2. Queued'
    BY <1>21, <1>types, <1>entries, <1>keys, <1>inv, <2>1
       DEF UpgradeBlock, Later, QueueInv, Queued
  <2>3. Counts'
    BY <1>21, <1>types, <1>entries, <1>inv, <2>1 DEF UpgradeBlock, Later, Counts
  <2>4. DueCounted'
    BY <1>21, <1>types, <1>entries, <1>keys, <1>inv, <2>1
       DEF UpgradeBlock, Later, LoopInv, QueueInv, DueCounted, Extended
  <2>5. QED
    BY <2>2, <2>3, <2>4 DEF VotesInv
<1>22. CASE ExportImport
  <2>1. Scheduled' = Scheduled
    BY <1>22, ScheduledKeep DEF ExportImport, Later, GovInitGenesis, Exportable
  <2>2. Queued'
    BY <1>22, <1>types, <1>entries, <1>keys, <1>inv, <2>1
       DEF ExportImport, Later, GovInitGenesis, Exportable, QueueInv, Queued
  <2>3. Counts'
    BY <1>22, <1>types, <1>entries, <1>inv, <2>1
       DEF ExportImport, Later, GovInitGenesis, Exportable, Counts
  <2>4. DueCounted'
    BY <1>22, <1>types, <1>entries, <1>keys, <1>inv, <2>1
       DEF ExportImport, Later, GovInitGenesis, Exportable, LoopInv, QueueInv, DueCounted,
           Extended
  <2>5. QED
    BY <2>2, <2>3, <2>4 DEF VotesInv
<1>23. CASE ZeroHeightFork
  <2>1. Scheduled' = {}
    BY <1>23 DEF ZeroHeightFork, Scheduled
  <2>2. Queued'
    BY <1>23, <1>types, <1>entries, <1>keys, <1>inv, <2>1
       DEF ZeroHeightFork, Later, GovInitGenesis, Exportable, QueueInv, Queued
  <2>3. Counts'
    BY <1>23, <1>types, <1>entries, <1>inv, <2>1
       DEF ZeroHeightFork, Later, GovInitGenesis, Exportable, Counts
  <2>4. DueCounted'
    BY <1>23, <1>types, <1>entries, <1>keys, <1>inv, <2>1
       DEF ZeroHeightFork, Later, GovInitGenesis, Exportable, LoopInv, QueueInv, DueCounted,
           Extended
  <2>5. QED
    BY <2>2, <2>3, <2>4 DEF VotesInv
<1>24. QED
  BY <1>1, <1>2, <1>3, <1>4, <1>5, <1>6, <1>7, <1>8, <1>9, <1>10, <1>11, <1>12, <1>13, <1>14, <1>15, <1>16, <1>17, <1>18, <1>19, <1>20, <1>21, <1>22, <1>23
     DEF Id, Next, Transactions, Faults, EndBlocker, Boundary

\* Open proposals, how often they were counted, and what a loop leaves open are
\* always as VotesInv says.
THEOREM VotesAreCounted == Spec => []VotesInv
<1>1. Init => VotesInv
  BY DEF Init, VotesInv, Queued, Counts, DueCounted
<1>2. TypeOK /\ IInv /\ VotesInv /\ [Next]_vars => VotesInv'
  <2> SUFFICES ASSUME TypeOK, IInv, VotesInv, [Next]_vars
               PROVE  VotesInv'
    OBVIOUS
  <2>1. CASE UNCHANGED vars
    BY <2>1, ScheduledKeep
       DEF vars, record, timelock, block, history, VotesInv, Queued, Counts, DueCounted, Extended
  <2>2. QED
    BY <2>1, VotesStep
<1>3. QED
  BY <1>1, <1>2, InductiveInvariant, PTL DEF Spec

\* processInactiveProposals and processEndedVotingPeriods find every open proposal
\* when its period is over, and no vote is extended twice.
THEOREM NoVoteForgotten == Spec => []NoneForgotten
<1>1. TypeOK /\ VotesInv => NoneForgotten
  <2> SUFFICES ASSUME TypeOK, VotesInv, NEW p \in Id
               PROVE  /\ status[p] = "deposit" => <<depositEnd[p], p>> \in inactiveQ
                      /\ status[p] = "voting" => /\ <<votingEnd[p], p>> \in activeQ
                                                 /\ tallies[p] <= IF expedited[p] THEN 0 ELSE 1
                      /\ status[p] = "corrupt" /\ p \notin Scheduled =>
                             \E e \in inactiveQ \cup activeQ : e[2] = p
                      /\ phase = "commit" /\ status[p] = "voting" /\ votingEnd[p] <= now =>
                             tallies[p] = 1
    BY DEF NoneForgotten
  <2>1. ASSUME phase = "commit", status[p] = "voting", votingEnd[p] <= now
        PROVE  tallies[p] = 1
    <3>1. <<votingEnd[p], p>> \in activeQ
      BY <2>1 DEF VotesInv, Queued
    <3>2. QED
      BY <2>1, <3>1 DEF VotesInv, DueCounted, Extended
  <2>2. QED
    BY <2>1 DEF VotesInv, Queued, Counts
<1>2. QED
  BY <1>1, TypeCorrect, VotesAreCounted, PTL
-------------------------------------------------------------------------------
(* Every block ends: what of the liveness of EndBlocker is a matter of safety *)

\* Whatever loop of EndBlock runs, there is a next entry, and its record is one of
\* those the loop has a case for.
NeverStuck ==
    phase \in {"inactive", "tally", "matured"} /\ work # {} =>
        \E e \in work : Takes(e) /\ (phase # "matured" => status[e[2]] # "absent")

Stage == [deliver |-> 0, inactive |-> 1, tally |-> 2, matured |-> 3, commit |-> 4]

\* A step of EndBlock leaves its loop for a later one, or has an entry less to do.
EachStepCloser ==
    [][EndBlocker => \/ Stage[phase] < Stage[phase']
                     \/ phase' = phase /\ Cardinality(work') < Cardinality(work)]_vars

WorkIsDue == \A e \in work : e[1] <= now

\* Times, and ids, have a first.
LEMMA LeastNatural ==
    ASSUME NEW S \in SUBSET Nat, S # {}
    PROVE  \E n \in S : \A m \in S : n <= m
<1>1. PICK n \in S : \A m \in S : ~(<<m, n>> \in OpToRel(<, Nat))
  BY NatLessThanWellFounded, WFMin
<1>2. ASSUME NEW m \in S PROVE n <= m
  <2>1. n \in Nat /\ m \in Nat
    OBVIOUS
  <2>2. ~(m < n)
    BY <1>1, <2>1 DEF OpToRel
  <2>3. QED
    BY <2>1, <2>2
<1>3. QED
  BY <1>2

\* Key order has a first entry, whatever a loop has to do.
LEMMA FirstEntry ==
    ASSUME TypeOK, work # {}
    PROVE  \E e \in work : Takes(e)
<1>1. \A e \in work : e[1] \in Nat /\ e[2] \in Nat /\ e = <<e[1], e[2]>>
  BY EntryFacts, SizeAssumption DEF Id
<1>2. PICK t \in {e[1] : e \in work} : \A e \in work : t <= e[1]
  <2> DEFINE T == {e[1] : e \in work}
  <2>1. T \in SUBSET Nat /\ T # {}
    BY <1>1
  <2>2. \A e \in work : e[1] \in T
    OBVIOUS
  <2> HIDE DEF T
  <2>3. PICK t \in T : \A m \in T : t <= m
    BY <2>1, LeastNatural
  <2>4. QED
    BY <2>2, <2>3 DEF T
<1>3. PICK p \in {e[2] : e \in {f \in work : f[1] = t}} :
          \A e \in work : e[1] = t => p <= e[2]
  <2> DEFINE P == {e[2] : e \in {f \in work : f[1] = t}}
  <2>1. P \in SUBSET Nat /\ P # {}
    BY <1>1, <1>2
  <2>2. \A e \in work : e[1] = t => e[2] \in P
    OBVIOUS
  <2> HIDE DEF P
  <2>3. PICK p \in P : \A m \in P : p <= m
    BY <2>1, LeastNatural
  <2>4. QED
    BY <2>2, <2>3 DEF P
<1>4. PICK e \in work : e[1] = t /\ e[2] = p
  BY <1>3
<1>5. ASSUME NEW f \in work PROVE f = e \/ Before(e, f)
  BY <1>1, <1>2, <1>3, <1>4 DEF Before
<1>6. QED
  BY <1>4, <1>5 DEF Takes

\* A snapshot of entries up to now is finite.
LEMMA FiniteWork ==
    ASSUME TypeOK, WorkIsDue
    PROVE  IsFiniteSet(work)
<1>1. now \in Nat /\ MaxId \in Nat
  BY SizeAssumption DEF TypeOK
<1>2. IsFiniteSet(0..now) /\ IsFiniteSet(1..MaxId)
  BY <1>1, FS_Interval
<1>3. IsFiniteSet((0..now) \X (1..MaxId))
  BY <1>2, FS_Product
<1>4. work \in SUBSET ((0..now) \X (1..MaxId))
  BY <1>1, EntryFacts DEF WorkIsDue, Id
<1>5. QED
  BY <1>3, <1>4, FS_Subset

LEMMA WorkIsDueStep == TypeOK /\ WorkIsDue /\ [Next]_vars => WorkIsDue'
<1> SUFFICES ASSUME TypeOK, WorkIsDue, [Next]_vars PROVE WorkIsDue'
  OBVIOUS
<1>1. CASE UNCHANGED vars \/ Transactions \/ Faults
  BY <1>1
     DEF WorkIsDue, vars, block, Transactions, Faults, Submit, StartVoting, Cancel, Unregister,
         Meddle, Delivering
<1>2. CASE EndBlocker
  BY <1>2
     DEF WorkIsDue, block, EndBlocker, BeginEndBlock, InactiveUnsupported, InactiveDropped,
         Inactive, InactiveDone, TallyUnsupported, TallyPassedStock, TallyPassedScheduled,
         TallyConverted, TallyRejected, Counted, Tally, TallyDone, MaturedUnloadable,
         MaturedMoved, MaturedExecuted, Matured, MaturedDone, Due
<1>3. CASE Boundary
  BY <1>3 DEF WorkIsDue, Boundary, NextBlock, UpgradeBlock, ExportImport, ZeroHeightFork, Later
<1>4. QED
  BY <1>1, <1>2, <1>3 DEF Next

LEMMA EndBlockStep ==
    ASSUME TypeOK, WorkIsDue, EndBlocker
    PROVE  \/ Stage[phase] < Stage[phase']
           \/ phase' = phase /\ Cardinality(work') < Cardinality(work)
<1>1. CASE BeginEndBlock \/ InactiveDone \/ TallyDone \/ MaturedDone
  BY <1>1 DEF BeginEndBlock, InactiveDone, TallyDone, MaturedDone, Stage
<1>2. ASSUME NEW e \in work, work' = work \ {e}, phase' = phase
      PROVE  phase' = phase /\ Cardinality(work') < Cardinality(work)
  <2>1. IsFiniteSet(work)
    BY FiniteWork
  <2>2. Cardinality(work') = Cardinality(work) - 1 /\ Cardinality(work) \in Nat
    BY <1>2, <2>1, FS_RemoveElement, FS_CardinalityType
  <2>3. QED
    BY <1>2, <2>2
<1>3. QED
  BY <1>1, <1>2
     DEF EndBlocker, InactiveUnsupported, InactiveDropped, Inactive, TallyUnsupported,
         TallyPassedStock, TallyPassedScheduled, TallyConverted, TallyRejected, Counted, Tally,
         MaturedUnloadable, MaturedMoved, MaturedExecuted, Matured

\* EndBlock is never without a next step before it returns, and takes finitely many:
\* an entry it puts back on a queue is not part of the snapshot it walks.
THEOREM BlocksEnd == Spec => []NeverStuck /\ EachStepCloser
<1>1. TypeOK /\ NoHalt => NeverStuck
  BY FirstEntry DEF NoHalt, NeverStuck
<1>2. Init => WorkIsDue
  BY DEF Init, WorkIsDue
<1>3. TypeOK /\ WorkIsDue /\ [Next]_vars =>
        [EndBlocker => \/ Stage[phase] < Stage[phase']
                       \/ phase' = phase /\ Cardinality(work') < Cardinality(work)]_vars
  BY EndBlockStep
<1>4. QED
  BY <1>1, <1>2, <1>3, WorkIsDueStep, TypeCorrect, QueuesNeverHalt, PTL
     DEF Spec, EachStepCloser
-------------------------------------------------------------------------------
(* GovTimelock implements the safety part of ExecutionTimelock *)

\* The delay never changes: an export writes what GetExecutionDelay returned.
LEMMA SameDelay == TypeOK /\ [Next]_vars => UNCHANGED ExecutionDelay
<1> SUFFICES ASSUME TypeOK, [Next]_vars PROVE ExecutionDelay' = ExecutionDelay
  OBVIOUS
<1>1. CASE UNCHANGED delay
  BY <1>1 DEF ExecutionDelay
<1>2. CASE ExportImport \/ ZeroHeightFork
  <2>1. delay' = ExecutionDelay /\ ExecutionDelay > 0
    BY <1>2, GenesisAssumption DEF ExportImport, ZeroHeightFork, ExecutionDelay, TypeOK
  <2>2. QED
    BY <2>1 DEF ExecutionDelay
<1>3. CASE Transactions \/ Faults
  BY <1>1, <1>3
     DEF Transactions, Faults, Submit, StartVoting, Cancel, Unregister, Meddle, Delivering,
         timelock
<1>4. CASE EndBlocker
  BY <1>1, <1>4
     DEF EndBlocker, timelock, BeginEndBlock, InactiveUnsupported, InactiveDropped, Inactive,
         InactiveDone, TallyUnsupported, TallyPassedStock, TallyPassedScheduled, TallyConverted,
         TallyRejected, Counted, Tally, TallyDone, MaturedUnloadable, MaturedMoved, MaturedExecuted,
         Matured, MaturedDone
<1>5. QED
  BY <1>1, <1>2, <1>3, <1>4 DEF Next, Boundary, NextBlock, UpgradeBlock, vars, timelock

\* A scheduled proposal is at stage "waiting", an undecided one at "open".
LEMMA StageOf ==
    ASSUME TypeOK, IInv, NEW p \in Id
    PROVE  /\ p \in Scheduled => stage[p] = "waiting"
           /\ Undecided(p) => stage[p] = "open"
BY DEF stage, IInv, UndecidedInv, Undecided, Status, TypeOK

\* A stage depends on the schedule, the record and what was written.
LEMMA StageStays ==
    ASSUME UNCHANGED <<written, status, nextId>>, Scheduled' = Scheduled
    PROVE  stage' = stage
BY DEF stage

\* A step that touches one proposal moves the stage of that one only.
LEMMA StageMoves ==
    ASSUME NEW p \in Id, UNCHANGED nextId,
        \A q \in Id \ {p} : /\ status'[q] = status[q] /\ written'[q] = written[q]
                            /\ q \in Scheduled' <=> q \in Scheduled
  PROVE stage' = [stage EXCEPT ![p] = stage'[p]]
BY DEF stage

LEMMA StageSame ==
    ASSUME NEW p \in Id, stage' = [stage EXCEPT ![p] = stage'[p]], stage'[p] = stage[p]
    PROVE  stage' = stage
<1>1. stage = [q \in Id |-> stage[q]]
  BY DEF stage
<1>2. QED
  BY <1>1

\* The chain implements the safety part of ExecutionTimelock: the initial
\* states are initial, and every step is one of the promise or stutters.
THEOREM SafetyOfPromise == Spec => Promise!Safety
<1>1. Init => Promise!Init
  <2> SUFFICES ASSUME Init PROVE Promise!Init
    OBVIOUS
  <2>1. stage = [p \in Id |-> "open"]
    BY DEF Init, stage, Scheduled, Id
  <2>2. now \in Nat /\ ExecutionDelay \in Nat \ {0} /\ IsActive \in BOOLEAN
    BY GenesisAssumption DEF Init, ExecutionDelay, IsActive
  <2>3. QED
    BY <2>1, <2>2 DEF Promise!Init, Init
<1>2. TypeOK /\ IInv /\ [Next]_vars => [Promise!Next]_(Promise!vars)
  <2> SUFFICES ASSUME TypeOK, IInv, [Next]_vars
               PROVE  Promise!Next \/ UNCHANGED Promise!vars
    OBVIOUS
  <2>wait. ExecutionDelay' = ExecutionDelay
    BY SameDelay
  <2>types. /\ status \in [Id -> Status] /\ written \in [Id -> Nat] /\ passedAt \in [Id -> Nat]
            /\ nextId \in Nat /\ now \in Nat /\ NumMsgs # 0
            /\ Scheduled \subseteq Id
    BY SizeAssumption, ScheduledIds DEF TypeOK
  <2>stutter. ASSUME UNCHANGED <<now, height, activation, passedAt>>, stage' = stage
              PROVE  UNCHANGED Promise!vars
    BY <2>wait, <2>stutter DEF Promise!vars, IsActive
  <2>close. ASSUME NEW p \in Id, UNCHANGED <<now, height, activation, passedAt, written, nextId>>,
                   Undecided(p), p < nextId, Scheduled' = Scheduled,
                   \A q \in Id \ {p} : status'[q] = status[q],
                   status'[p] \notin {"deposit", "voting", "corrupt"}
            PROVE  Promise!Close(p)
    <3>1. stage[p] = "open" /\ written[p] = 0 /\ p \notin Scheduled
      BY <2>close, StageOf DEF IInv, UndecidedInv
    <3>2. stage' = [stage EXCEPT ![p] = stage'[p]]
      BY <2>close, StageMoves
    <3>3. stage'[p] = "void"
      BY <2>close, <2>types, <3>1 DEF stage, Id
    <3>4. QED
      BY <2>wait, <2>close, <3>1, <3>2, <3>3 DEF Promise!Close, Promise!MoveOn, IsActive
  <2>release. ASSUME NEW e \in work, Matured(e),
                     \A q \in Id \ {e[2]} : status'[q] = status[q] /\ written'[q] = written[q],
                     status'[e[2]] \notin {"deposit", "voting", "corrupt"}
              PROVE  Promise!Release(e[2])
    <3>1. /\ e[2] \in Id /\ e[2] \in Scheduled
          /\ now >= passedAt[e[2]] + ExecutionDelay
          /\ Scheduled' = Scheduled \ {e[2]}
      BY <2>release, MaturedEntry, ScheduledDrop DEF Due, Scheduled, Matured
    <3>2. UNCHANGED <<now, height, activation, passedAt, nextId>>
      BY <2>release DEF Matured, block, history
    <3>3. stage[e[2]] = "waiting" /\ e[2] < nextId
      BY <2>types, <3>1, StageOf DEF IInv, UndecidedInv, Undecided, Id
    <3>4. stage' = [stage EXCEPT ![e[2]] = stage'[e[2]]]
      BY <2>release, <3>1, <3>2, StageMoves
    <3>5. stage'[e[2]] \in {"effective", "void"}
      BY <2>release, <2>types, <3>1, <3>2, <3>3 DEF stage, Id
    <3>6. QED
      BY <2>wait, <3>1, <3>2, <3>3, <3>4, <3>5 DEF Promise!Release, Promise!MoveOn, IsActive
  <2>pass. ASSUME NEW e \in work, Counted(e), UNCHANGED activation,
                  passedAt' = [passedAt EXCEPT ![e[2]] = now],
                  \A q \in Id \ {e[2]} : /\ status'[q] = status[q]
                                         /\ written'[q] = written[q]
                                         /\ q \in Scheduled' <=> q \in Scheduled
           PROVE  /\ e[2] \in Id /\ e[2] < nextId
                  /\ stage[e[2]] = "open"
                  /\ stage' = [stage EXCEPT ![e[2]] = stage'[e[2]]]
                  /\ UNCHANGED <<now, IsActive, nextId>>
                  /\ Promise!Decide(e[2])
                  /\ active = IsActive
    <3>1. e[2] \in Id /\ e[2] < nextId /\ Undecided(e[2]) /\ active = IsActive
      BY <2>pass, EntryFacts
         DEF Counted, Tally, Takes, Loaded, Status, IInv, LoopInv, QueueInv, Undecided
    <3>2. UNCHANGED <<now, height, activation, nextId>>
      BY <2>pass DEF Counted, Tally, block
    <3>3. QED
      BY <2>pass, <3>1, <3>2, StageOf, StageMoves DEF Promise!Decide, IsActive
  <2>1. CASE UNCHANGED vars
    BY <2>1, <2>stutter, ScheduledKeep, StageStays
       DEF vars, record, block, timelock, history
  <2>2. CASE Submit
    <3>1. stage' = stage
      <4>1. Scheduled' = Scheduled /\ written' = written
        BY <2>2, ScheduledKeep DEF Submit, Delivering, timelock
      <4>2. ASSUME NEW p \in Id
            PROVE  stage'[p] = stage[p]
        <5>1. /\ nextId \in Id /\ nextId' = nextId + 1
              /\ status' = [status EXCEPT ![nextId] = "deposit"]
          BY <2>2 DEF Submit
        <5>2. QED
          BY <2>types, <4>1, <5>1 DEF stage, Id
      <4>3. QED
        BY <4>2 DEF stage
    <3>2. QED
      BY <2>2, <2>stutter, <3>1 DEF Submit, Delivering, block, timelock, history
  <2>3. ASSUME NEW p \in Id, StartVoting(p)
        PROVE  Promise!Next \/ UNCHANGED Promise!vars
    <3>1. Scheduled' = Scheduled /\ UNCHANGED <<written, nextId>>
      BY <2>3, ScheduledKeep DEF StartVoting, Delivering, timelock
    <3>2. stage' = [stage EXCEPT ![p] = stage'[p]]
      BY <2>3, <2>types, <3>1, StageMoves DEF StartVoting, Delivering
    <3>3. stage'[p] = stage[p]
      BY <2>3, <2>types, <3>1 DEF StartVoting, Delivering, stage
    <3>4. stage' = stage
      BY <3>2, <3>3, StageSame
    <3>5. QED
      BY <2>3, <2>stutter, <3>4 DEF StartVoting, Delivering, block, timelock, history
  <2>4. ASSUME NEW p \in Id, Cancel(p)
        PROVE  Promise!Next \/ UNCHANGED Promise!vars
    <3>1. p \in Id /\ p < nextId /\ Undecided(p)
      BY <2>4, <2>types, EntryFacts
         DEF Cancel, Delivering, DeleteProposal, Overwrite, IInv, LoopInv, QueueInv,
             UndecidedInv, Undecided, Takes, Loaded, Status, Id
    <3>2. Scheduled' = Scheduled
      BY <2>4, ScheduledKeep DEF Cancel, Delivering, DeleteProposal, Overwrite, timelock
    <3>3. Promise!Close(p)
      BY <2>4, <2>types, <2>close, <3>1, <3>2
         DEF Cancel, Delivering, DeleteProposal, Overwrite, block, timelock, history
    <3>4. QED
      BY <3>1, <3>3 DEF Promise!Next
  <2>5. ASSUME NEW p \in Id, Unregister(p)
        PROVE  Promise!Next \/ UNCHANGED Promise!vars
    <3>1. Scheduled' = Scheduled /\ UNCHANGED <<written, nextId>>
      BY <2>5, ScheduledKeep DEF Unregister, Delivering, timelock
    <3>2. stage' = [stage EXCEPT ![p] = stage'[p]]
      BY <2>5, <2>types, <3>1, StageMoves DEF Unregister, Delivering
    <3>3. stage'[p] = stage[p]
      BY <2>5, <2>types, <3>1 DEF Unregister, Delivering, stage
    <3>4. stage' = stage
      BY <3>2, <3>3, StageSame
    <3>5. QED
      BY <2>5, <2>stutter, <3>4 DEF Unregister, Delivering, block, timelock, history
  <2>6. ASSUME NEW p \in Id, Meddle(p)
        PROVE  Promise!Next \/ UNCHANGED Promise!vars
    <3>1. Scheduled' = Scheduled /\ UNCHANGED <<written, nextId>>
      BY <2>6, ScheduledKeep DEF Meddle, Delivering, Overwrite, timelock
    <3>2. stage' = [stage EXCEPT ![p] = stage'[p]]
      BY <2>6, <2>types, <3>1, StageMoves DEF Meddle, Delivering, Overwrite
    <3>3. stage'[p] = stage[p]
      BY <2>6, <2>types, <3>1 DEF Meddle, Delivering, Overwrite, stage
    <3>4. stage' = stage
      BY <3>2, <3>3, StageSame
    <3>5. QED
      BY <2>6, <2>stutter, <3>4 DEF Meddle, Delivering, Overwrite, block, timelock, history
  <2>7. CASE BeginEndBlock
    BY <2>7, <2>stutter, ScheduledKeep, StageStays
       DEF BeginEndBlock, block, timelock, record, history
  <2>8. ASSUME NEW e \in work, InactiveUnsupported(e)
        PROVE  Promise!Next \/ UNCHANGED Promise!vars
    <3>1. e[2] \in Id /\ e[2] < nextId /\ Undecided(e[2])
      BY <2>8, <2>types, EntryFacts
         DEF InactiveUnsupported, Inactive, Overwrite, IInv, LoopInv, QueueInv, UndecidedInv,
             Undecided, Takes, Loaded, Status, Id
    <3>2. Scheduled' = Scheduled
      BY <2>8, ScheduledKeep DEF InactiveUnsupported, Inactive, Overwrite, timelock
    <3>3. Promise!Close(e[2])
      BY <2>8, <2>types, <2>close, <3>1, <3>2
         DEF InactiveUnsupported, Inactive, Overwrite, block, timelock, history
    <3>4. QED
      BY <3>1, <3>3 DEF Promise!Next
  <2>9. ASSUME NEW e \in work, InactiveDropped(e)
        PROVE  Promise!Next \/ UNCHANGED Promise!vars
    <3>1. e[2] \in Id /\ e[2] < nextId /\ Undecided(e[2])
      BY <2>9, <2>types, EntryFacts
         DEF InactiveDropped, Inactive, DeleteProposal, Overwrite, IInv, LoopInv, QueueInv,
             UndecidedInv, Undecided, Takes, Loaded, Status, Id
    <3>2. Scheduled' = Scheduled
      BY <2>9, ScheduledKeep
         DEF InactiveDropped, Inactive, DeleteProposal, Overwrite, timelock
    <3>3. Promise!Close(e[2])
      BY <2>9, <2>types, <2>close, <3>1, <3>2
         DEF InactiveDropped, Inactive, DeleteProposal, Overwrite, block, timelock, history
    <3>4. QED
      BY <3>1, <3>3 DEF Promise!Next
  <2>10. CASE InactiveDone
    BY <2>10, <2>stutter, ScheduledKeep, StageStays
       DEF InactiveDone, block, timelock, record, history
  <2>11. ASSUME NEW e \in work, TallyUnsupported(e)
        PROVE  Promise!Next \/ UNCHANGED Promise!vars
    <3>1. e[2] \in Id /\ e[2] < nextId /\ Undecided(e[2])
      BY <2>11, <2>types, EntryFacts
         DEF TallyUnsupported, Tally, Overwrite, IInv, LoopInv, QueueInv, UndecidedInv,
             Undecided, Takes, Loaded, Status, Id
    <3>2. Scheduled' = Scheduled
      BY <2>11, ScheduledKeep DEF TallyUnsupported, Tally, Overwrite, timelock
    <3>3. Promise!Close(e[2])
      BY <2>11, <2>types, <2>close, <3>1, <3>2
         DEF TallyUnsupported, Tally, Overwrite, block, timelock, history
    <3>4. QED
      BY <3>1, <3>3 DEF Promise!Next
  <2>12. ASSUME NEW e \in work, TallyPassedStock(e)
        PROVE  Promise!Next \/ UNCHANGED Promise!vars
    <3>1. Scheduled' = Scheduled /\ UNCHANGED <<activation, delay>> /\ schedule = {}
      BY <2>12, ScheduledKeep
         DEF TallyPassedStock, Counted, Tally, IInv, LoopInv, ScheduleInv
    <3>2. \A q \in Id \ {e[2]} : status'[q] = status[q] /\ written'[q] = written[q]
      BY <2>12, <2>types DEF TallyPassedStock, ExecuteProposal
    <3>3. status'[e[2]] \in {"passed", "failed"} /\ e[2] \in Id
      BY <2>12, <2>types, EntryFacts DEF TallyPassedStock, ExecuteProposal
    <3>4. stage'[e[2]] \in {"effective", "void"}
      <4>1. e[2] \notin Scheduled' /\ e[2] < nextId /\ nextId' = nextId
        BY <2>12, <2>pass, <3>1, <3>2 DEF TallyPassedStock, Scheduled
      <4>2. QED
        BY <2>types, <3>3, <4>1 DEF stage, Id
    <3>5. Promise!PassAtOnce(e[2])
      BY <2>12, <2>pass, <2>wait, <3>1, <3>2, <3>4
         DEF TallyPassedStock, Promise!PassAtOnce, Promise!MoveOn
    <3>6. QED
      BY <3>3, <3>5 DEF Promise!Next
  <2>13. ASSUME NEW e \in work, TallyPassedScheduled(e)
        PROVE  Promise!Next \/ UNCHANGED Promise!vars
    <3>1. Scheduled' = Scheduled \cup {e[2]} /\ UNCHANGED activation /\ e[2] \in Id
      BY <2>13, ScheduledAdd, EntryFacts DEF TallyPassedScheduled, Counted, Tally
    <3>2. stage'[e[2]] = "waiting"
      BY <3>1 DEF stage
    <3>3. \A q \in Id \ {e[2]} : status'[q] = status[q] /\ written'[q] = written[q]
      BY <2>13, <2>types DEF TallyPassedScheduled
    <3>4. Promise!Pass(e[2])
      BY <2>13, <2>pass, <2>wait, <3>1, <3>2, <3>3
         DEF TallyPassedScheduled, Promise!Pass, Promise!MoveOn
    <3>5. QED
      BY <3>1, <3>4 DEF Promise!Next
  <2>14. ASSUME NEW e \in work, TallyConverted(e)
        PROVE  Promise!Next \/ UNCHANGED Promise!vars
    BY <2>14, <2>stutter, ScheduledKeep, StageStays
       DEF TallyConverted, Counted, Tally, block, timelock, record, history
  <2>15. ASSUME NEW e \in work, TallyRejected(e)
        PROVE  Promise!Next \/ UNCHANGED Promise!vars
    <3>1. e[2] \in Id /\ e[2] < nextId /\ Undecided(e[2])
      BY <2>15, <2>types, EntryFacts
         DEF TallyRejected, Counted, Tally, IInv, LoopInv, QueueInv, UndecidedInv, Undecided,
             Takes, Loaded, Status, Id
    <3>2. Scheduled' = Scheduled
      BY <2>15, ScheduledKeep DEF TallyRejected, Counted, Tally, timelock
    <3>3. Promise!Close(e[2])
      BY <2>15, <2>types, <2>close, <3>1, <3>2
         DEF TallyRejected, Counted, Tally, block, timelock, history
    <3>4. QED
      BY <3>1, <3>3 DEF Promise!Next
  <2>16. CASE TallyDone
    BY <2>16, <2>stutter, ScheduledKeep, StageStays
       DEF TallyDone, block, timelock, record, history
  <2>17. ASSUME NEW e \in work, MaturedUnloadable(e)
        PROVE  Promise!Next \/ UNCHANGED Promise!vars
    <3>1. Matured(e) /\ e[2] \in Id /\ ~Undecided(e[2])
      BY <2>17, MaturedEntry DEF MaturedUnloadable, Undecided, IInv, UndecidedInv
    <3>2. \A q \in Id \ {e[2]} : status'[q] = status[q] /\ written'[q] = written[q]
      BY <2>17, <2>types DEF MaturedUnloadable, Overwrite, record
    <3>3. status'[e[2]] \notin {"deposit", "voting", "corrupt"}
      BY <2>17, <2>types, <3>1 DEF MaturedUnloadable, Overwrite, record
    <3>4. QED
      BY <2>release, <3>1, <3>2, <3>3 DEF Promise!Next
  <2>18. ASSUME NEW e \in work, MaturedMoved(e)
        PROVE  Promise!Next \/ UNCHANGED Promise!vars
    <3>1. Matured(e) /\ e[2] \in Id /\ ~Undecided(e[2])
      BY <2>18, MaturedEntry DEF MaturedMoved, Undecided, IInv, UndecidedInv
    <3>2. \A q \in Id \ {e[2]} : status'[q] = status[q] /\ written'[q] = written[q]
      BY <2>18, <2>types DEF MaturedMoved, record
    <3>3. status'[e[2]] \notin {"deposit", "voting", "corrupt"}
      BY <2>18, <2>types, <3>1 DEF MaturedMoved, record, Loaded, Undecided
    <3>4. QED
      BY <2>release, <3>1, <3>2, <3>3 DEF Promise!Next
  <2>19. ASSUME NEW e \in work, MaturedExecuted(e)
        PROVE  Promise!Next \/ UNCHANGED Promise!vars
    <3>1. Matured(e) /\ e[2] \in Id /\ ~Undecided(e[2])
      BY <2>19, MaturedEntry DEF MaturedExecuted, Undecided, IInv, UndecidedInv
    <3>2. \A q \in Id \ {e[2]} : status'[q] = status[q] /\ written'[q] = written[q]
      BY <2>19, <2>types DEF MaturedExecuted, ExecuteProposal
    <3>3. status'[e[2]] \notin {"deposit", "voting", "corrupt"}
      BY <2>19, <2>types, <3>1 DEF MaturedExecuted, ExecuteProposal
    <3>4. QED
      BY <2>release, <3>1, <3>2, <3>3 DEF Promise!Next
  <2>20. CASE MaturedDone
    BY <2>20, <2>stutter, ScheduledKeep, StageStays
       DEF MaturedDone, block, timelock, record, history
  <2>21. CASE NextBlock \/ UpgradeBlock \/ ExportImport
    <3>1. Later /\ UNCHANGED schedule /\ now' \in Nat /\ now' >= now
      BY <2>21, LaterTime DEF NextBlock, UpgradeBlock, ExportImport, timelock
    <3>2. stage' = stage
      BY <3>1, ScheduledKeep, StageStays DEF Later, record
    <3>3. IsActive => IsActive'
      BY <2>21, ActiveStep
    <3>4. Promise!Tick
      BY <2>wait, <3>1, <3>2, <3>3 DEF Promise!Tick, Later, IsActive
    <3>5. QED
      BY <3>4 DEF Promise!Next
  <2>22. CASE ZeroHeightFork
    <3>1. Later /\ Scheduled' = {} /\ now' \in Nat /\ now' >= now /\ IsActive'
      BY <2>22, LaterTime DEF ZeroHeightFork, Scheduled, IsActive
    <3>2. stage' = [p \in Id |-> IF stage[p] = "waiting" THEN "void" ELSE stage[p]]
      <4>1. ASSUME NEW p \in Id
            PROVE  stage'[p] = IF stage[p] = "waiting" THEN "void" ELSE stage[p]
        <5>1. CASE p \in Scheduled
          BY <2>types, <2>22, <3>1, <5>1
             DEF stage, Later, record, ZeroHeightFork, Exportable, IInv, ScheduleInv,
                 UndecidedInv, Undecided, Scheduled, Id
        <5>2. CASE p \notin Scheduled
          BY <3>1, <5>2 DEF stage, Later, record
        <5>3. QED
          BY <5>1, <5>2
      <4>2. QED
        BY <4>1 DEF stage
    <3>3. Promise!Fork
      BY <2>wait, <3>1, <3>2 DEF Promise!Fork, Later
    <3>4. QED
      BY <3>3 DEF Promise!Next
  <2>23. QED
    BY <2>1, <2>2, <2>3, <2>4, <2>5, <2>6, <2>7, <2>8, <2>9, <2>10, <2>11, <2>12, <2>13, <2>14,
       <2>15, <2>16, <2>17, <2>18, <2>19, <2>20, <2>21, <2>22, SizeAssumption
       DEF Id, Next, Transactions, Faults, EndBlocker, Boundary
<1>3. QED
  BY <1>1, <1>2, InductiveInvariant, PTL DEF Promise!Safety, Spec
================================================================================
