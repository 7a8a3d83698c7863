--------------------------- MODULE GovTimelockProofs ---------------------------
(***************************************************************************)
(* Theorems about GovTimelock, for every number of proposals, every length  *)
(* of the periods and of the delay, and every genesis.                      *)
(***************************************************************************)
EXTENDS GovTimelock, TLAPS

\* The bounds of time and height saturate.
LEMMA AtMostStays ==
    ASSUME NEW bound \in Nat \ {0}, NEW x \in Nat \ {0}
    PROVE  AtMost(x, bound) \in 1..bound
BY DEF AtMost

\* Between blocks time advances within its bound.
LEMMA LaterTime ==
    ASSUME TypeOK, Later
    PROVE  now' \in 1..MaxTime /\ now' >= now
<1>1. PICK gap \in Gaps : now' = AtMost(now + gap, MaxTime)
  BY DEF Later
<1>2. now \in 1..MaxTime /\ gap \in Nat \ {0} /\ MaxTime \in Nat \ {0}
  BY SizeAssumption DEF TypeOK
<1>3. QED
  BY <1>1, <1>2 DEF AtMost

\* Genesis import fills the queues with entries.
LEMMA GovInitGenesisTypes ==
    ASSUME TypeOK, GovInitGenesis
    PROVE  inactiveQ' \in SUBSET Entry /\ activeQ' \in SUBSET Entry
<1>1. depositEnd \in [Id -> Nat] /\ votingEnd \in [Id -> Nat]
  BY DEF TypeOK
<1>2. QED
  BY <1>1 DEF GovInitGenesis, Entry

\* Only submitted ids are ever scheduled.
LEMMA ScheduledIds ==
    ASSUME TypeOK
    PROVE  Scheduled \subseteq Id
<1>1. schedule \subseteq Nat \X Id
  BY DEF TypeOK, Entry
<1>2. QED
  BY <1>1 DEF Scheduled

\* Every variable keeps its type: in particular a height and a block time are
\* never zero and a queue only ever holds <<time, id>> keys.
THEOREM TypeCorrect == Spec => []TypeOK
<1> USE SizeAssumption, PeriodAssumption, GenesisAssumption
<1>1. Init => TypeOK
  <2> SUFFICES ASSUME Init PROVE TypeOK
    OBVIOUS
  <2>1. /\ height \in 1..MaxHeight /\ now \in 1..MaxTime /\ nextId \in 1..(MaxId + 1)
        /\ votingPeriod \in VotingPeriods /\ activation \in 0..MaxHeight /\ delay \in Nat
    BY DEF Init
  <2>2. QED
    BY <2>1 DEF Init, TypeOK, Entry, Status, Deposit
<1>2. TypeOK /\ [Next]_vars => TypeOK'
  <2> SUFFICES ASSUME TypeOK, [Next]_vars
               PROVE  TypeOK'
    OBVIOUS
  <2> USE DEF TypeOK, Entry, Status, Deposit, record, timelock, block, history
  <2>1. CASE UNCHANGED vars
    BY <2>1 DEF vars
  <2>2. CASE Submit
    <3>1. nextId' \in 1..(MaxId + 1) /\ nextId \in Id /\ now + DepositPeriod \in Nat
      BY <2>2 DEF Submit, Id
    <3>2. QED
      BY <2>2, <3>1 DEF Submit, Delivering
  <2>3. ASSUME NEW p \in Id, StartVoting(p)
        PROVE  TypeOK'
    BY <2>3 DEF StartVoting, Delivering
  <2>4. ASSUME NEW p \in Id, Cancel(p)
        PROVE  TypeOK'
    BY <2>4 DEF Cancel, Delivering, DeleteProposal, Overwrite
  <2>5. ASSUME NEW p \in Id, Unregister(p)
        PROVE  TypeOK'
    BY <2>5 DEF Unregister, Delivering
  <2>6. ASSUME NEW p \in Id, Meddle(p)
        PROVE  TypeOK'
    BY <2>6 DEF Meddle, Delivering, Overwrite
  <2>7. CASE BeginEndBlock
    BY <2>7 DEF BeginEndBlock, Due, IsActive
  <2>8. ASSUME NEW e \in work, InactiveUnsupported(e)
        PROVE  TypeOK'
    BY <2>8 DEF InactiveUnsupported, Inactive, Overwrite, SettleDeposit
  <2>9. ASSUME NEW e \in work, InactiveDropped(e)
        PROVE  TypeOK'
    BY <2>9 DEF InactiveDropped, Inactive, DeleteProposal, Overwrite, SettleDeposit
  <2>10. ASSUME NEW e \in work, TallyUnsupported(e)
        PROVE  TypeOK'
    BY <2>10 DEF TallyUnsupported, Tally, Overwrite, SettleDeposit
  <2>11. ASSUME NEW e \in work, TallyPassedStock(e)
        PROVE  TypeOK'
    BY <2>11 DEF TallyPassedStock, Counted, Tally, SettleByTally, SettleDeposit,
       ExecuteProposal, RunHook
  <2>12. ASSUME NEW e \in work, TallyPassedScheduled(e)
        PROVE  TypeOK'
    BY <2>12 DEF TallyPassedScheduled, Counted, Tally, SettleByTally, SettleDeposit, ExecutionDelay
  <2>13. ASSUME NEW e \in work, TallyConverted(e)
        PROVE  TypeOK'
    BY <2>13 DEF TallyConverted, Counted, Tally, RunHook
  <2>14. ASSUME NEW e \in work, TallyRejected(e)
        PROVE  TypeOK'
    BY <2>14 DEF TallyRejected, Counted, Tally, SettleByTally, SettleDeposit, RunHook
  <2>15. ASSUME NEW e \in work, MaturedUnloadable(e)
        PROVE  TypeOK'
    <3>1. CASE UNCHANGED record
      BY <2>15, <3>1 DEF MaturedUnloadable, Matured, RunHook
    <3>2. CASE Overwrite(e[2], "failed")
      BY <2>15, <3>2 DEF MaturedUnloadable, Matured, RunHook, Overwrite
    <3>3. QED
      BY <2>15, <3>1, <3>2 DEF MaturedUnloadable
  <2>16. ASSUME NEW e \in work, MaturedMoved(e)
        PROVE  TypeOK'
    BY <2>16 DEF MaturedMoved, Matured, RunHook
  <2>17. ASSUME NEW e \in work, MaturedExecuted(e)
        PROVE  TypeOK'
    BY <2>17 DEF MaturedExecuted, Matured, RunHook, ExecuteProposal
  <2>18. CASE InactiveDone
    BY <2>18 DEF InactiveDone, Due
  <2>19. CASE TallyDone
    BY <2>19 DEF TallyDone, Due
  <2>20. CASE MaturedDone
    BY <2>20 DEF MaturedDone
  <2>21. CASE NextBlock
    <3>1. Later /\ height' \in 1..MaxHeight
      BY <2>21, AtMostStays DEF NextBlock
    <3>2. QED
      BY <2>21, <3>1, LaterTime DEF NextBlock, Later
  <2>22. CASE UpgradeBlock
    <3>1. Later /\ height' \in 1..MaxHeight
      BY <2>22, AtMostStays DEF UpgradeBlock
    <3>2. activation' \in 0..MaxHeight
      BY <2>22, <3>1 DEF UpgradeBlock
    <3>3. QED
      BY <2>22, <3>1, <3>2, LaterTime DEF UpgradeBlock, Later
  <2>23. CASE ExportImport
    <3>1. Later /\ height' \in 1..MaxHeight
      BY <2>23, AtMostStays DEF ExportImport
    <3>2. inactiveQ' \in SUBSET Entry /\ activeQ' \in SUBSET Entry
      BY <2>23, GovInitGenesisTypes DEF ExportImport
    <3>3. QED
      BY <2>23, <3>1, <3>2, LaterTime DEF ExportImport, Later, ExecutionDelay
  <2>24. CASE ZeroHeightFork
    <3>1. Later /\ forked' \in SUBSET Id
      BY <2>24, ScheduledIds DEF ZeroHeightFork
    <3>2. inactiveQ' \in SUBSET Entry /\ activeQ' \in SUBSET Entry
      BY <2>24, GovInitGenesisTypes DEF ZeroHeightFork
    <3>3. height' \in 1..MaxHeight /\ activation' \in 0..MaxHeight /\ delay' \in Nat
      BY <2>24 DEF ZeroHeightFork, ExecutionDelay
    <3>4. QED
      BY <2>24, <3>1, <3>2, <3>3, LaterTime DEF ZeroHeightFork, Later
  <2> HIDE DEF TypeOK, Entry, Status, Deposit, record, timelock, block, history
  <2>25. QED
    BY <2>1, <2>2, <2>3, <2>4, <2>5, <2>6, <2>7, <2>8, <2>9, <2>10, <2>11, <2>12, <2>13,
       <2>14, <2>15, <2>16, <2>17, <2>18, <2>19, <2>20, <2>21, <2>22, <2>23, <2>24
       DEF Id, Next, Transactions, Faults, EndBlocker, Boundary
<1>3. QED
  BY <1>1, <1>2, PTL DEF Spec

-------------------------------------------------------------------------------
(* The inductive invariant *)

\* Queue, schedule and snapshot entries are pairs of a time and an id.
LEMMA EntryFacts ==
    ASSUME TypeOK
    PROVE  \A e \in inactiveQ \cup activeQ \cup schedule \cup work :
               e[1] \in Nat /\ e[2] \in Id /\ e = <<e[1], e[2]>>
BY DEF TypeOK, Entry

\* No queue and no schedule holds a proposal under two times: what
\* dropScheduledEntry removes by key is all there is of the proposal.
LEMMA UniqueKeys ==
    ASSUME TypeOK, IInv
    PROVE  /\ \A e, f \in inactiveQ : e[2] = f[2] => e = f
           /\ \A e, f \in activeQ : e[2] = f[2] => e = f
           /\ \A e, f \in schedule : e[2] = f[2] => e = f
<1>1. \A e, f \in inactiveQ : e[2] = f[2] => e = f
  BY EntryFacts DEF IInv, QueueInv
<1>2. \A e, f \in activeQ : e[2] = f[2] => e = f
  BY EntryFacts DEF IInv, QueueInv
<1>3. \A e, f \in schedule : e[2] = f[2] => e = f
  BY EntryFacts DEF IInv, ScheduleInv
<1>4. QED
  BY <1>1, <1>2, <1>3

\* Dropping an entry unschedules exactly its proposal.
LEMMA ScheduledDrop ==
    ASSUME TypeOK, IInv, NEW e \in schedule, schedule' = schedule \ {e}
    PROVE  Scheduled' = Scheduled \ {e[2]}
BY UniqueKeys DEF Scheduled

\* Keeper.Schedule schedules exactly its proposal.
LEMMA ScheduledAdd ==
    ASSUME NEW t, NEW p, schedule' = schedule \cup {<<t, p>>}
    PROVE  Scheduled' = Scheduled \cup {p}
<1>1. <<t, p>>[2] = p
  OBVIOUS
<1>2. ASSUME NEW q \in Scheduled' PROVE q \in Scheduled \cup {p}
  <2>1. PICK f \in schedule \cup {<<t, p>>} : q = f[2]
    BY <1>2 DEF Scheduled
  <2>2. QED
    BY <1>1, <2>1 DEF Scheduled
<1>3. ASSUME NEW q \in Scheduled PROVE q \in Scheduled'
  BY <1>3 DEF Scheduled
<1>4. p \in Scheduled'
  BY <1>1 DEF Scheduled
<1>5. QED
  BY <1>2, <1>3, <1>4

\* Who is scheduled depends on the schedule alone.
LEMMA ScheduledKeep ==
    ASSUME UNCHANGED schedule
    PROVE  Scheduled' = Scheduled
BY DEF Scheduled

\* Every handler, fault and block boundary keeps the invariant: one step per
\* action, and under it one per part of IInv.
LEMMA StepIInv ==
    ASSUME TypeOK, IInv, Next
    PROVE  IInv'
<1> USE DEF record, timelock, block, history
<1>types. /\ status \in [Id -> Status] /\ written \in [Id -> Nat] /\ passedAt \in [Id -> Nat]
          /\ depositEnd \in [Id -> Nat] /\ votingEnd \in [Id -> Nat] /\ votingStart \in [Id -> Nat]
          /\ nextId \in Nat /\ now \in Nat \ {0} /\ height \in 1..MaxHeight /\ delay \in Nat
          /\ activation \in Nat /\ votingPeriod \in Nat
  <2>1. nextId \in Nat /\ now \in Nat \ {0} /\ height \in 1..MaxHeight /\ delay \in Nat
        /\ activation \in Nat /\ votingPeriod \in Nat
    BY PeriodAssumption DEF TypeOK
  <2>2. QED
    BY <2>1 DEF TypeOK
<1>entries. \A e \in inactiveQ \cup activeQ \cup schedule \cup work :
              e[1] \in Nat /\ e[2] \in Id /\ e = <<e[1], e[2]>>
  BY EntryFacts
<1>keys. /\ \A e, f \in inactiveQ : e[2] = f[2] => e = f
         /\ \A e, f \in activeQ : e[2] = f[2] => e = f
         /\ \A e, f \in schedule : e[2] = f[2] => e = f
  BY UniqueKeys
<1>inv. LoopInv /\ QueueInv /\ UndecidedInv /\ ScheduleInv /\ HistoryInv
  BY DEF IInv
<1>member. \A e \in schedule : e[2] \in Scheduled
  BY DEF Scheduled
<1>nat. \A p \in Id : p \in Nat
  BY DEF Id
<1>waits. \A p \in Scheduled : written[p] = 0 /\ passedAt[p] # 0 /\ p \notin forked
  BY <1>inv DEF Scheduled, ScheduleInv
<1>1. CASE Submit
  <2>1. Scheduled' = Scheduled
    BY <1>1, ScheduledKeep DEF Submit, Delivering
  <2>2. LoopInv'
    BY <1>1, <1>inv DEF Submit, Delivering, LoopInv
  <2>3. QueueInv'
    BY <1>1, <1>types, <1>entries, <1>inv, <1>nat, <2>1
       DEF Submit, QueueInv, UndecidedInv, Undecided
  <2>4. UndecidedInv'
    BY <1>1, <1>inv, <1>nat, <2>1 DEF Submit, Delivering, UndecidedInv, Undecided
  <2>5. ScheduleInv'
    BY <1>1, <1>inv DEF Submit, Delivering, ScheduleInv, IsActive, ExecutionDelay
  <2>6. HistoryInv'
    BY <1>1, <1>types, <1>inv DEF Submit, Delivering, UndecidedInv, HistoryInv
  <2>7. QED
    BY <2>2, <2>3, <2>4, <2>5, <2>6 DEF IInv
<1>2. ASSUME NEW p \in Id, StartVoting(p)
      PROVE  IInv'
  <2>1. Scheduled' = Scheduled
    BY <1>2, ScheduledKeep DEF StartVoting, Delivering
  <2>2. LoopInv'
    BY <1>2, <1>inv DEF StartVoting, Delivering, LoopInv
  <2>3. QueueInv'
    BY <1>2, <1>types, <1>entries, <1>inv, <1>nat, <2>1
       DEF StartVoting, QueueInv, UndecidedInv, Undecided
  <2>4. UndecidedInv'
    BY <1>2, <1>inv, <2>1 DEF StartVoting, Delivering, UndecidedInv, Undecided
  <2>5. ScheduleInv'
    BY <1>2, <1>inv DEF StartVoting, Delivering, ScheduleInv, IsActive, ExecutionDelay
  <2>6. HistoryInv'
    BY <1>2, <1>inv DEF StartVoting, Delivering, HistoryInv
  <2>7. QED
    BY <2>2, <2>3, <2>4, <2>5, <2>6 DEF IInv
<1>3. ASSUME NEW p \in Id, Cancel(p)
      PROVE  IInv'
  <2>1. Scheduled' = Scheduled
    BY <1>3, ScheduledKeep DEF Cancel, Delivering
  <2>2. LoopInv'
    BY <1>3, <1>inv DEF Cancel, Delivering, LoopInv
  <2>3. QueueInv'
    BY <1>3, <1>entries, <1>inv, <2>1 DEF Cancel, DeleteProposal, Overwrite, QueueInv
  <2>4. UndecidedInv'
    BY <1>3, <1>inv, <2>1
       DEF Cancel, Delivering, DeleteProposal, Overwrite, UndecidedInv, Undecided
  <2>5. ScheduleInv'
    BY <1>3, <1>inv DEF Cancel, Delivering, ScheduleInv, IsActive, ExecutionDelay
  <2>6. HistoryInv'
    BY <1>3, <1>inv DEF Cancel, Delivering, DeleteProposal, Overwrite, HistoryInv
  <2>7. QED
    BY <2>2, <2>3, <2>4, <2>5, <2>6 DEF IInv
<1>4. ASSUME NEW p \in Id, Unregister(p)
      PROVE  IInv'
  <2>1. Scheduled' = Scheduled
    BY <1>4, ScheduledKeep DEF Unregister, Delivering
  <2>2. LoopInv'
    BY <1>4, <1>inv DEF Unregister, Delivering, LoopInv
  <2>3. QueueInv'
    BY <1>4, <1>inv, <2>1 DEF Unregister, QueueInv
  <2>4. UndecidedInv'
    BY <1>4, <1>inv, <2>1 DEF Unregister, Delivering, UndecidedInv, Undecided
  <2>5. ScheduleInv'
    BY <1>4, <1>inv DEF Unregister, Delivering, ScheduleInv, IsActive, ExecutionDelay
  <2>6. HistoryInv'
    BY <1>4, <1>inv, <1>waits DEF Unregister, Delivering, HistoryInv
  <2>7. QED
    BY <2>2, <2>3, <2>4, <2>5, <2>6 DEF IInv
<1>5. ASSUME NEW p \in Id, Meddle(p)
      PROVE  IInv'
  <2>1. Scheduled' = Scheduled
    BY <1>5, ScheduledKeep DEF Meddle, Delivering
  <2>2. LoopInv'
    BY <1>5, <1>inv DEF Meddle, Delivering, LoopInv
  <2>3. QueueInv'
    BY <1>5, <1>inv, <2>1 DEF Meddle, Overwrite, QueueInv
  <2>4. UndecidedInv'
    BY <1>5, <1>inv, <2>1 DEF Meddle, Delivering, Overwrite, UndecidedInv, Undecided
  <2>5. ScheduleInv'
    BY <1>5, <1>inv DEF Meddle, Delivering, ScheduleInv, IsActive, ExecutionDelay
  <2>6. HistoryInv'
    BY <1>5, <1>inv, <1>waits DEF Meddle, Delivering, Overwrite, HistoryInv
  <2>7. QED
    BY <2>2, <2>3, <2>4, <2>5, <2>6 DEF IInv
<1>6. CASE BeginEndBlock
  <2>1. Scheduled' = Scheduled
    BY <1>6, ScheduledKeep DEF BeginEndBlock
  <2>2. LoopInv'
    BY <1>6 DEF BeginEndBlock, IsActive, Due, LoopInv
  <2>3. QueueInv'
    BY <1>6, <1>inv, <2>1 DEF BeginEndBlock, QueueInv
  <2>4. UndecidedInv'
    BY <1>6, <1>inv, <2>1 DEF BeginEndBlock, UndecidedInv, Undecided
  <2>5. ScheduleInv'
    BY <1>6, <1>inv DEF BeginEndBlock, ScheduleInv, IsActive, ExecutionDelay
  <2>6. HistoryInv'
    BY <1>6, <1>inv DEF BeginEndBlock, HistoryInv
  <2>7. QED
    BY <2>2, <2>3, <2>4, <2>5, <2>6 DEF IInv
<1>7. ASSUME NEW e \in work, InactiveUnsupported(e)
      PROVE  IInv'
  <2>1. Scheduled' = Scheduled
    BY <1>7, ScheduledKeep DEF InactiveUnsupported, Inactive
  <2>2. e \in inactiveQ
    BY <1>7, <1>inv DEF InactiveUnsupported, Inactive, LoopInv
  <2>3. LoopInv'
    BY <1>7, <1>inv DEF InactiveUnsupported, Inactive, IsActive, LoopInv
  <2>4. QueueInv'
    BY <1>7, <1>entries, <1>inv, <2>1, <2>2
       DEF InactiveUnsupported, Inactive, Overwrite, QueueInv
  <2>5. UndecidedInv'
    BY <1>7, <1>inv, <2>1 DEF InactiveUnsupported, Inactive, Overwrite, UndecidedInv, Undecided
  <2>6. ScheduleInv'
    BY <1>7, <1>inv DEF InactiveUnsupported, Inactive, ScheduleInv, IsActive, ExecutionDelay
  <2>7. HistoryInv'
    BY <1>7, <1>inv DEF InactiveUnsupported, Inactive, Overwrite, HistoryInv
  <2>8. QED
    BY <2>3, <2>4, <2>5, <2>6, <2>7 DEF IInv
<1>8. ASSUME NEW e \in work, InactiveDropped(e)
      PROVE  IInv'
  <2>1. Scheduled' = Scheduled
    BY <1>8, ScheduledKeep DEF InactiveDropped, Inactive
  <2>2. e \in inactiveQ
    BY <1>8, <1>inv DEF InactiveDropped, Inactive, LoopInv
  <2>3. LoopInv'
    BY <1>8, <1>keys, <1>inv DEF InactiveDropped, Inactive, DeleteProposal, IsActive, LoopInv
  <2>4. QueueInv'
    BY <1>8, <1>entries, <1>inv, <2>1
       DEF InactiveDropped, Inactive, DeleteProposal, Overwrite, QueueInv
  <2>5. UndecidedInv'
    BY <1>8, <1>inv, <2>1
       DEF InactiveDropped, Inactive, DeleteProposal, Overwrite, UndecidedInv, Undecided
  <2>6. ScheduleInv'
    BY <1>8, <1>inv DEF InactiveDropped, Inactive, ScheduleInv, IsActive, ExecutionDelay
  <2>7. HistoryInv'
    BY <1>8, <1>inv
       DEF InactiveDropped, Inactive, DeleteProposal, Overwrite, LoopInv, QueueInv, HistoryInv
  <2>8. QED
    BY <2>3, <2>4, <2>5, <2>6, <2>7 DEF IInv
<1>9. CASE InactiveDone
  <2>1. Scheduled' = Scheduled
    BY <1>9, ScheduledKeep DEF InactiveDone
  <2>2. LoopInv'
    BY <1>9, <1>inv DEF InactiveDone, IsActive, Due, LoopInv
  <2>3. QueueInv'
    BY <1>9, <1>inv, <2>1 DEF InactiveDone, QueueInv
  <2>4. UndecidedInv'
    BY <1>9, <1>inv, <2>1 DEF InactiveDone, UndecidedInv, Undecided
  <2>5. ScheduleInv'
    BY <1>9, <1>inv DEF InactiveDone, ScheduleInv, IsActive, ExecutionDelay
  <2>6. HistoryInv'
    BY <1>9, <1>inv DEF InactiveDone, HistoryInv
  <2>7. QED
    BY <2>2, <2>3, <2>4, <2>5, <2>6 DEF IInv
<1>10. ASSUME NEW e \in work, TallyUnsupported(e)
       PROVE  IInv'
  <2>1. Scheduled' = Scheduled
    BY <1>10, ScheduledKeep DEF TallyUnsupported
  <2>2. e \in activeQ
    BY <1>10, <1>inv DEF TallyUnsupported, Tally, LoopInv
  <2>3. LoopInv'
    BY <1>10, <1>inv DEF TallyUnsupported, Tally, IsActive, LoopInv
  <2>4. QueueInv'
    BY <1>10, <1>entries, <1>inv, <2>1, <2>2 DEF TallyUnsupported, Tally, Overwrite, QueueInv
  <2>5. UndecidedInv'
    BY <1>10, <1>inv, <2>1 DEF TallyUnsupported, Tally, Overwrite, UndecidedInv, Undecided
  <2>6. ScheduleInv'
    BY <1>10, <1>inv DEF TallyUnsupported, Tally, ScheduleInv, IsActive, ExecutionDelay
  <2>7. HistoryInv'
    BY <1>10, <1>inv DEF TallyUnsupported, Tally, Overwrite, HistoryInv
  <2>8. QED
    BY <2>3, <2>4, <2>5, <2>6, <2>7 DEF IInv
<1>11. ASSUME NEW e \in work, TallyPassedStock(e)
       PROVE  IInv'
  <2>1. Scheduled' = Scheduled
    BY <1>11, ScheduledKeep DEF TallyPassedStock
  <2>2. e \in activeQ
    BY <1>11, <1>inv DEF TallyPassedStock, Counted, Tally, LoopInv
  <2>3. LoopInv'
    BY <1>11, <1>inv DEF TallyPassedStock, Counted, Tally, IsActive, LoopInv
  <2>4. QueueInv'
    BY <1>11, <1>types, <1>entries, <1>inv, <2>1, <2>2
       DEF TallyPassedStock, Counted, Tally, ExecuteProposal, QueueInv
  <2>5. UndecidedInv'
    BY <1>11, <1>types, <1>inv, <2>1
       DEF TallyPassedStock, Counted, Tally, ExecuteProposal, LoopInv, QueueInv, UndecidedInv,
           Undecided
  <2>6. ScheduleInv'
    BY <1>11, <1>types, <1>entries, <1>inv
       DEF TallyPassedStock, Counted, Tally, ExecuteProposal, LoopInv, QueueInv, UndecidedInv,
           Undecided, ScheduleInv
  <2>7. HistoryInv'
    BY <1>11, <1>types, <1>inv
       DEF TallyPassedStock, Counted, Tally, ExecuteProposal, LoopInv, QueueInv, HistoryInv
  <2>8. QED
    BY <2>3, <2>4, <2>5, <2>6, <2>7 DEF IInv
<1>12. ASSUME NEW e \in work, TallyPassedScheduled(e)
       PROVE  IInv'
  <2>1. Scheduled' = Scheduled \cup {e[2]}
    BY <1>12, ScheduledAdd DEF TallyPassedScheduled
  <2>2. e \in activeQ
    BY <1>12, <1>inv DEF TallyPassedScheduled, Counted, Tally, LoopInv
  <2>3. LoopInv'
    BY <1>12, <1>types, <1>entries, <1>keys, <1>inv, <1>member, <1>nat, <1>waits, <2>1, <2>2
       DEF TallyPassedScheduled, Counted, Tally, IsActive, Due, LoopInv
  <2>4. QueueInv'
    BY <1>12, <1>entries, <1>inv, <2>1, <2>2 DEF TallyPassedScheduled, Counted, Tally, QueueInv
  <2>5. UndecidedInv'
    BY <1>12, <1>types, <1>inv, <2>1
       DEF TallyPassedScheduled, Counted, Tally, LoopInv, QueueInv, UndecidedInv, Undecided
  <2>6. ScheduleInv'
    <3>1. schedule' = schedule \cup {<<now + ExecutionDelay, e[2]>>} /\ IsActive'
      BY <1>12, <1>inv DEF TallyPassedScheduled, Counted, Tally, LoopInv, IsActive
    <3>2. e[2] \notin Scheduled /\ e[2] \notin forked /\ written[e[2]] = 0 /\ e[2] \in Id
      BY <1>entries, <1>inv, <2>2 DEF QueueInv, UndecidedInv, Undecided
    <3>3. passedAt' = [passedAt EXCEPT ![e[2]] = now] /\ written' = written /\ forked' = forked
          /\ ExecutionDelay' = ExecutionDelay
      BY <1>12 DEF TallyPassedScheduled, Counted, Tally, ExecutionDelay
    <3>4. ASSUME NEW f \in schedule
          PROVE  /\ passedAt'[f[2]] # 0
                 /\ f[1] = passedAt'[f[2]] + ExecutionDelay
                 /\ written'[f[2]] = 0
                 /\ f[2] \notin forked'
      BY <3>2, <3>3, <1>member, <1>inv DEF ScheduleInv
    <3>5. QED
      BY <3>1, <3>2, <3>3, <3>4, <1>types DEF ScheduleInv
  <2>7. HistoryInv'
    BY <1>12, <1>types, <1>inv DEF TallyPassedScheduled, Counted, Tally, HistoryInv
  <2>8. QED
    BY <2>3, <2>4, <2>5, <2>6, <2>7 DEF IInv
<1>13. ASSUME NEW e \in work, TallyConverted(e)
       PROVE  IInv'
  <2>1. Scheduled' = Scheduled
    BY <1>13, ScheduledKeep DEF TallyConverted
  <2>2. e \in activeQ
    BY <1>13, <1>inv DEF TallyConverted, Counted, Tally, LoopInv
  <2>3. LoopInv'
    BY <1>13, <1>inv DEF TallyConverted, Counted, Tally, IsActive, LoopInv
  <2>4. QueueInv'
    BY <1>13, <1>types, <1>entries, <1>inv, <2>1, <2>2
       DEF TallyConverted, Counted, Tally, QueueInv
  <2>5. UndecidedInv'
    BY <1>13, <1>inv, <2>1 DEF TallyConverted, Counted, Tally, UndecidedInv, Undecided
  <2>6. ScheduleInv'
    BY <1>13, <1>inv DEF TallyConverted, Counted, Tally, ScheduleInv, IsActive, ExecutionDelay
  <2>7. HistoryInv'
    BY <1>13, <1>inv DEF TallyConverted, Counted, Tally, HistoryInv
  <2>8. QED
    BY <2>3, <2>4, <2>5, <2>6, <2>7 DEF IInv
<1>14. ASSUME NEW e \in work, TallyRejected(e)
       PROVE  IInv'
  <2>1. Scheduled' = Scheduled
    BY <1>14, ScheduledKeep DEF TallyRejected
  <2>2. e \in activeQ
    BY <1>14, <1>inv DEF TallyRejected, Counted, Tally, LoopInv
  <2>3. LoopInv'
    BY <1>14, <1>inv DEF TallyRejected, Counted, Tally, IsActive, LoopInv
  <2>4. QueueInv'
    BY <1>14, <1>entries, <1>inv, <2>1, <2>2 DEF TallyRejected, Counted, Tally, QueueInv
  <2>5. UndecidedInv'
    BY <1>14, <1>inv, <2>1
       DEF TallyRejected, Counted, Tally, LoopInv, QueueInv, UndecidedInv, Undecided
  <2>6. ScheduleInv'
    BY <1>14, <1>inv DEF TallyRejected, Counted, Tally, ScheduleInv, IsActive, ExecutionDelay
  <2>7. HistoryInv'
    BY <1>14, <1>inv DEF TallyRejected, Counted, Tally, LoopInv, QueueInv, HistoryInv
  <2>8. QED
    BY <2>3, <2>4, <2>5, <2>6, <2>7 DEF IInv
<1>15. CASE TallyDone
  <2>1. Scheduled' = Scheduled
    BY <1>15, ScheduledKeep DEF TallyDone
  <2>2. LoopInv'
    BY <1>15, <1>inv DEF TallyDone, IsActive, Due, LoopInv
  <2>3. QueueInv'
    BY <1>15, <1>inv, <2>1 DEF TallyDone, QueueInv
  <2>4. UndecidedInv'
    BY <1>15, <1>inv, <2>1 DEF TallyDone, UndecidedInv, Undecided
  <2>5. ScheduleInv'
    BY <1>15, <1>inv DEF TallyDone, ScheduleInv, IsActive, ExecutionDelay
  <2>6. HistoryInv'
    BY <1>15, <1>inv DEF TallyDone, HistoryInv
  <2>7. QED
    BY <2>2, <2>3, <2>4, <2>5, <2>6 DEF IInv
<1>16. ASSUME NEW e \in work, MaturedUnloadable(e)
       PROVE  IInv'
  <2>1. e \in schedule
    BY <1>16, <1>inv DEF MaturedUnloadable, Matured, LoopInv, Due
  <2>2. Scheduled' = Scheduled \ {e[2]}
    BY <1>16, <2>1, ScheduledDrop DEF MaturedUnloadable, Matured
  <2>3. LoopInv'
    BY <1>16, <1>inv DEF MaturedUnloadable, Matured, IsActive, Due, LoopInv
  <2>4. QueueInv'
    BY <1>16, <1>types, <1>entries, <1>inv, <1>member, <2>1, <2>2
       DEF MaturedUnloadable, Matured, Overwrite, QueueInv
  <2>5. UndecidedInv'
    BY <1>16, <1>types, <1>inv, <2>2
       DEF MaturedUnloadable, Matured, Overwrite, UndecidedInv, Undecided
  <2>6. ScheduleInv'
    BY <1>16, <1>inv DEF MaturedUnloadable, Matured, ScheduleInv, IsActive, ExecutionDelay
  <2>7. HistoryInv'
    BY <1>16, <1>types, <1>inv DEF MaturedUnloadable, Matured, Overwrite, HistoryInv
  <2>8. QED
    BY <2>3, <2>4, <2>5, <2>6, <2>7 DEF IInv
<1>17. ASSUME NEW e \in work, MaturedMoved(e)
       PROVE  IInv'
  <2>1. e \in schedule
    BY <1>17, <1>inv DEF MaturedMoved, Matured, LoopInv, Due
  <2>2. Scheduled' = Scheduled \ {e[2]}
    BY <1>17, <2>1, ScheduledDrop DEF MaturedMoved, Matured
  <2>3. LoopInv'
    BY <1>17, <1>inv DEF MaturedMoved, Matured, IsActive, Due, LoopInv
  <2>4. QueueInv'
    BY <1>17, <1>inv, <2>2 DEF MaturedMoved, Matured, QueueInv
  <2>5. UndecidedInv'
    BY <1>17, <1>inv, <2>2 DEF MaturedMoved, Matured, UndecidedInv, Undecided, Loaded
  <2>6. ScheduleInv'
    BY <1>17, <1>inv DEF MaturedMoved, Matured, ScheduleInv, IsActive, ExecutionDelay
  <2>7. HistoryInv'
    BY <1>17, <1>inv DEF MaturedMoved, Matured, HistoryInv
  <2>8. QED
    BY <2>3, <2>4, <2>5, <2>6, <2>7 DEF IInv
<1>18. ASSUME NEW e \in work, MaturedExecuted(e)
       PROVE  IInv'
  <2>1. e \in schedule
    BY <1>18, <1>inv DEF MaturedExecuted, Matured, LoopInv, Due
  <2>2. Scheduled' = Scheduled \ {e[2]}
    BY <1>18, <2>1, ScheduledDrop DEF MaturedExecuted, Matured
  <2>3. LoopInv'
    BY <1>18, <1>inv DEF MaturedExecuted, Matured, IsActive, Due, LoopInv
  <2>4. QueueInv'
    BY <1>18, <1>types, <1>entries, <1>inv, <2>2
       DEF MaturedExecuted, Matured, ExecuteProposal, QueueInv
  <2>5. UndecidedInv'
    BY <1>18, <1>types, <1>inv, <2>2
       DEF MaturedExecuted, Matured, ExecuteProposal, UndecidedInv, Undecided
  <2>6. ScheduleInv'
    BY <1>18, <1>types, <1>entries, <1>inv, <2>1
       DEF MaturedExecuted, Matured, ExecuteProposal, ScheduleInv, IsActive, ExecutionDelay
  <2>7. HistoryInv'
    BY <1>18, <1>types, <1>inv, <2>1
       DEF MaturedExecuted, Matured, ExecuteProposal, ScheduleInv, HistoryInv
  <2>8. QED
    BY <2>3, <2>4, <2>5, <2>6, <2>7 DEF IInv
<1>19. CASE MaturedDone
  <2>1. Scheduled' = Scheduled
    BY <1>19, ScheduledKeep DEF MaturedDone
  <2>2. LoopInv'
    BY <1>19, <1>inv DEF MaturedDone, IsActive, LoopInv
  <2>3. QueueInv'
    BY <1>19, <1>inv, <2>1 DEF MaturedDone, QueueInv
  <2>4. UndecidedInv'
    BY <1>19, <1>inv, <2>1 DEF MaturedDone, UndecidedInv, Undecided
  <2>5. ScheduleInv'
    BY <1>19, <1>inv DEF MaturedDone, ScheduleInv, IsActive, ExecutionDelay
  <2>6. HistoryInv'
    BY <1>19, <1>inv DEF MaturedDone, HistoryInv
  <2>7. QED
    BY <2>2, <2>3, <2>4, <2>5, <2>6 DEF IInv
<1>20. CASE NextBlock
  <2>1. Scheduled' = Scheduled
    BY <1>20, ScheduledKeep DEF NextBlock
  <2>2. now' \in Nat /\ now' >= now /\ now' # 0
    BY <1>20, LaterTime DEF NextBlock
  <2>3. height' >= height /\ height' \in 1..MaxHeight
    BY <1>20, <1>types, SizeAssumption DEF NextBlock, AtMost
  <2>4. LoopInv'
    BY <1>20 DEF NextBlock, Later, LoopInv
  <2>5. QueueInv'
    BY <1>20, <1>inv, <2>1 DEF NextBlock, Later, QueueInv
  <2>6. UndecidedInv'
    BY <1>20, <1>inv, <2>1 DEF NextBlock, Later, UndecidedInv, Undecided
  <2>7. ScheduleInv'
    BY <1>20, <1>types, <1>inv, <2>3 DEF NextBlock, Later, ScheduleInv, IsActive, ExecutionDelay
  <2>8. HistoryInv'
    BY <1>20, <1>types, <1>inv, <2>2 DEF NextBlock, Later, HistoryInv
  <2>9. QED
    BY <2>4, <2>5, <2>6, <2>7, <2>8 DEF IInv
<1>21. CASE UpgradeBlock
  <2>1. Scheduled' = Scheduled
    BY <1>21, ScheduledKeep DEF UpgradeBlock
  <2>2. now' \in Nat /\ now' >= now /\ now' # 0
    BY <1>21, LaterTime DEF UpgradeBlock
  <2>3. height' >= height /\ height' \in 1..MaxHeight
    BY <1>21, <1>types, SizeAssumption DEF UpgradeBlock, AtMost
  <2>4. LoopInv'
    BY <1>21 DEF UpgradeBlock, Later, LoopInv
  <2>5. QueueInv'
    BY <1>21, <1>inv, <2>1 DEF UpgradeBlock, Later, QueueInv
  <2>6. UndecidedInv'
    BY <1>21, <1>inv, <2>1 DEF UpgradeBlock, Later, UndecidedInv, Undecided
  <2>7. ScheduleInv'
    BY <1>21, <1>inv, <2>3 DEF UpgradeBlock, Later, ScheduleInv, IsActive, ExecutionDelay
  <2>8. HistoryInv'
    BY <1>21, <1>types, <1>inv, <2>2 DEF UpgradeBlock, Later, HistoryInv
  <2>9. QED
    BY <2>4, <2>5, <2>6, <2>7, <2>8 DEF IInv
<1>22. CASE ExportImport
  <2>1. Scheduled' = Scheduled
    BY <1>22, ScheduledKeep DEF ExportImport
  <2>2. now' \in Nat /\ now' >= now /\ now' # 0
    BY <1>22, LaterTime DEF ExportImport
  <2>3. height' >= height /\ height' \in 1..MaxHeight
    BY <1>22, <1>types, SizeAssumption DEF ExportImport, AtMost
  <2>4. LoopInv'
    BY <1>22 DEF ExportImport, Later, LoopInv
  <2>5. QueueInv'
    BY <1>22, <1>types, <1>inv, <1>nat, <2>1
       DEF ExportImport, Later, GovInitGenesis, QueueInv, UndecidedInv, Undecided
  <2>6. UndecidedInv'
    BY <1>22, <1>inv, <2>1 DEF ExportImport, Later, UndecidedInv, Undecided
  <2>7. ScheduleInv'
    BY <1>22, <1>types, <1>inv, <2>3
       DEF ExportImport, Later, ScheduleInv, IsActive, ExecutionDelay
  <2>8. HistoryInv'
    BY <1>22, <1>types, <1>inv, <2>2 DEF ExportImport, Later, HistoryInv
  <2>9. QED
    BY <2>4, <2>5, <2>6, <2>7, <2>8 DEF IInv
<1>23. CASE ZeroHeightFork
  <2>1. Scheduled' = {}
    BY <1>23 DEF ZeroHeightFork, Scheduled
  <2>2. now' \in Nat /\ now' >= now /\ now' # 0
    BY <1>23, LaterTime DEF ZeroHeightFork
  <2>3. LoopInv'
    BY <1>23 DEF ZeroHeightFork, Later, LoopInv
  <2>4. QueueInv'
    BY <1>23, <1>types, <1>inv, <1>nat, <2>1
       DEF ZeroHeightFork, Later, GovInitGenesis, QueueInv, UndecidedInv
  <2>5. UndecidedInv'
    BY <1>23, <1>inv, <2>1 DEF ZeroHeightFork, Later, Exportable, UndecidedInv, Undecided
  <2>6. ScheduleInv'
    BY <1>23 DEF ZeroHeightFork, ScheduleInv
  <2>7. HistoryInv'
    BY <1>23, <1>types, <1>inv, <2>2 DEF ZeroHeightFork, Later, HistoryInv
  <2>8. QED
    BY <2>3, <2>4, <2>5, <2>6, <2>7 DEF IInv
<1>24. QED
  BY <1>1, <1>2, <1>3, <1>4, <1>5, <1>6, <1>7, <1>8, <1>9, <1>10, <1>11, <1>12, <1>13, <1>14,
     <1>15, <1>16, <1>17, <1>18, <1>19, <1>20, <1>21, <1>22, <1>23, SizeAssumption
     DEF Id, Next, Transactions, Faults, EndBlocker, Boundary

\* Genesis establishes the invariant.
LEMMA IInvInit == Init => IInv
BY SizeAssumption
   DEF Init, IInv, LoopInv, QueueInv, UndecidedInv, ScheduleInv, HistoryInv, Id, Scheduled,
       Undecided

\* Every step, a stutter included, keeps the invariant.
LEMMA IInvStep == TypeOK /\ IInv /\ [Next]_vars => IInv'
<1> SUFFICES ASSUME TypeOK, IInv, [Next]_vars PROVE IInv'
  OBVIOUS
<1>1. CASE Next
  BY <1>1, StepIInv
<1>2. CASE UNCHANGED vars
  BY <1>2
     DEF vars, record, timelock, block, history, IInv, LoopInv, QueueInv, UndecidedInv,
         ScheduleInv, HistoryInv, Undecided, Scheduled, IsActive, Due, ExecutionDelay
<1>3. QED
  BY <1>1, <1>2

\* The queues, the schedule, the running loop and the history always fit
\* together: what each loop of EndBlocker relies on when it takes an entry.
THEOREM InductiveInvariant == Spec => [](TypeOK /\ IInv)
<1>1. TypeOK /\ IInv /\ [Next]_vars => IInv'
  BY IInvStep
<1>2. QED
  BY <1>1, IInvInit, TypeCorrect, PTL DEF Spec
================================================================================
