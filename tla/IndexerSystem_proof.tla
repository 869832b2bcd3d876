------------------------ MODULE IndexerSystem_proof ------------------------
(***************************************************************************)
(* Proofs about IndexerSystem, for every number of blocks, event classes,  *)
(* interval functions, faults and forced runs, every chunk size and every  *)
(* set of poisoned events.  The inductive invariant IInv is built from one *)
(* part per concern; each part has a lemma for the step, with one case per *)
(* action.  What the properties need follows from IInv, in two cases with  *)
(* a further invariant under a further assumption.                         *)
(***************************************************************************)
EXTENDS IndexerSystem, TLAPS

\* The block an interval function ran at last is a number, also for a new row.
LEMMA LastRunType ==
    ASSUME NEW s \in Seq(Nat)
    PROVE  FunctionLastRun(s) \in Nat
<1>1. CASE s = <<>>
  BY <1>1, IntervalsAssumption DEF FunctionLastRun, BlockLastRun
<1>2. CASE s # <<>>
  <2>1. Len(s) \in Nat /\ Len(s) # 0
    BY <1>2
  <2>2. s[Len(s)] \in Nat
    BY <2>1
  <2>3. QED
    BY <1>2, <2>2, IntervalsAssumption DEF FunctionLastRun, BlockLastRun
<1>3. QED
  BY <1>1, <1>2

\* Integer division of naturals stays in the naturals.
LEMMA DivNat ==
    ASSUME NEW a \in Nat, NEW d \in Nat \ {0}
    PROVE  a \div d \in Nat
OBVIOUS

\* What index_intervals adds to a function's runs is a sequence of blocks, once
\* the test for a block in the past has been passed.
LEMMA DueBlocksType ==
    ASSUME NEW s \in Seq(Nat), NEW block \in Nat, ~InThePast(s, block)
    PROVE  DueBlocks(s, block) \in Seq(Nat)
<1> DEFINE last == FunctionLastRun(s)
           n == (block - last - 1) \div Interval
<1>1. last \in Nat /\ Interval \in Nat \ {0}
  BY LastRunType, IntervalsAssumption
<1>2. n \in Nat
  <2>1. block - last - 1 \in Nat
    BY <1>1 DEF InThePast
  <2> HIDE DEF last
  <2>2. QED
    BY <1>1, <2>1, DivNat
<1>3. \A i \in 1..n : last + i * Interval \in Nat
  BY <1>1, <1>2
<1>4. [i \in 1..n |-> last + i * Interval] \in Seq(Nat)
  <2> HIDE DEF n, last
  <2>1. QED BY <1>2, <1>3
<1>5. QED
  BY <1>4 DEF DueBlocks

\* A transaction that has written nothing is a transaction.
LEMMA NoWritesType == NoWrites \in WriteSet
BY DEF NoWrites, WriteSet

\* A commit keeps the tables in their types and frees the lock.
LEMMA ApplyWritesType ==
    ASSUME NEW w \in WriteSet, DatabaseTypeOK, ApplyWrites(w)
    PROVE  /\ rows' \in [Kind \X Block -> Seq(Nat)]
           /\ runs' \in [Func -> Seq(Nat)]
           /\ lock' = "free"
BY DEF DatabaseTypeOK, ApplyWrites, WriteSet

\* Every step keeps the types.  ControlInv is needed to bound the position in the
\* event classes.
LEMMA TypeStep ==
    ASSUME TypeOK, ControlInv, [Next]_vars
    PROVE  TypeOK'
<1> USE DEF TypeOK, ChainTypeOK, DatabaseTypeOK, LoopTypeOK, ForceTypeOK, WaitTypeOK
<1>1. CASE ChainMoves
  BY <1>1, ChainAssumption
     DEF ChainMoves, ChainNext, Mine, Reorg, Block, dbVars, loopVars, forceVars, waitVars
<1>2. CASE IndexerMoves
  <2>1. ChainTypeOK' /\ ForceTypeOK' /\ WaitTypeOK'
    BY <1>2 DEF IndexerMoves, chainVars, forceVars, waitVars
  <2>2. DatabaseTypeOK' /\ LoopTypeOK'
    <3> USE DEF dbVars, CloseSession, UnlockIndexer
    <3>1. CASE Start
      BY <3>1 DEF Start
    <3>2. CASE ReadHead
      BY <3>2, IndexerLoopAssumption DEF ReadHead, EndOfRange, Block
    <3>3. CASE AcquireLock
      BY <3>3 DEF AcquireLock
    <3>4. CASE IndexKind
      <4>1. \A kb \in Kind \X Block :
                /\ tx.rows[kb] \in Seq(Nat)
                /\ Append(tx.rows[kb], canon[kb[2]]) \in Seq(Nat)
        <5> TAKE kb \in Kind \X Block
        <5>1. tx.rows[kb] \in Seq(Nat) /\ kb[2] \in Block
          BY DEF WriteSet
        <5>2. canon[kb[2]] \in Nat
          BY <5>1
        <5>3. QED
          BY <5>1, <5>2
      <4>4. tx' \in WriteSet
        BY <3>4, <4>1 DEF IndexKind, WriteSet
      <4>2. kind' \in 1 .. NumKinds + 1
        BY <3>4, DatabaseAssumption DEF IndexKind, NextKind, ControlInv
      <4>3. QED
        BY <3>4, <4>4, <4>2 DEF IndexKind, NextKind
    <3>5. CASE FlushFails
      <4>1. kind' \in 1 .. NumKinds + 1
        BY <3>5, DatabaseAssumption DEF FlushFails, NextKind, ControlInv
      <4>2. QED
        BY <3>5, <4>1, NoWritesType DEF FlushFails, NextKind
    <3>6. CASE PendingRollback \/ CallRaises \/ IntervalInThePast
      BY <3>6, NoWritesType, DatabaseAssumption, IndexerLoopAssumption
         DEF PendingRollback, CallRaises, IntervalInThePast, Abort, Fault
    <3>7. CASE IndexIntervals
      <4>1. \A f \in Func : DueBlocks(runs[f], endBlock) \in Seq(Nat)
        BY <3>7, DueBlocksType DEF IndexIntervals
      <4>2. tx' \in WriteSet
        BY <3>7, <4>1 DEF IndexIntervals, WriteSet
      <4>3. QED
        BY <3>7, <4>2 DEF IndexIntervals
    <3>8. CASE Commit \/ CommitAckLost
      <4>1. /\ rows' \in [Kind \X Block -> Seq(Nat)]
            /\ runs' \in [Func -> Seq(Nat)]
            /\ lock' = "free"
        BY <3>8, ApplyWritesType DEF Commit, CommitAckLost
      <4>2. QED
        BY <3>8, <4>1, NoWritesType, DatabaseAssumption, IndexerLoopAssumption
           DEF Commit, CommitAckLost, EndRange, StartBlockAfter, Fault
    <3>9. CASE CommitLost
      BY <3>9, NoWritesType, DatabaseAssumption, IndexerLoopAssumption
         DEF CommitLost, EndRange, StartBlockAfter, Fault, DropWrites
    <3>10. CASE Crash
      BY <3>10, NoWritesType, DatabaseAssumption, IndexerLoopAssumption DEF Crash, Fault
    <3>11. QED
      BY <1>2, <3>1, <3>2, <3>3, <3>4, <3>5, <3>6, <3>7, <3>8, <3>9, <3>10
         DEF IndexerMoves, LoopNext, LoopStep
  <2>3. QED
    BY <2>1, <2>2
<1>3. CASE OperatorMoves
  <2>1. ChainTypeOK' /\ LoopTypeOK' /\ WaitTypeOK'
    BY <1>3 DEF OperatorMoves, chainVars, loopVars, waitVars
  <2>2. CASE ForceIntervals
    BY <2>1, <2>2, ForceRunAssumption DEF ForceIntervals, ForcedBlock, ForcedBlocks, Block
  <2>3. CASE AnswerYes
    <3>1. [NoWrites EXCEPT !.runs = opRuns] \in WriteSet
      BY NoWritesType DEF WriteSet
    <3>2. QED
      BY <2>1, <2>3, <3>1, ApplyWritesType, NoWritesType DEF AnswerYes, WriteSet
  <2>4. CASE AnswerNo
    BY <2>1, <2>4, NoWritesType DEF AnswerNo, DropWrites, WriteSet
  <2>5. QED
    BY <1>3, <2>2, <2>3, <2>4 DEF OperatorMoves, ForceNext
<1>4. CASE ClientMoves
  BY <1>4, WaitAssumption
     DEF ClientMoves, WaitNext, Request, PollOk, PollAgain, GiveUp,
         chainVars, dbVars, loopVars, forceVars
<1>5. CASE UNCHANGED vars
  BY <1>5 DEF vars, chainVars, dbVars, loopVars, forceVars, waitVars
<1>6. QED
  BY <1>1, <1>2, <1>3, <1>4, <1>5 DEF Next

\* Every step keeps the position in the event classes, and the state of the
\* session, in line with where the thread is.
LEMMA ControlStep ==
    ASSUME TypeOK, ControlInv, [Next]_vars
    PROVE  ControlInv'
<1> USE DEF ControlInv
<1>1. CASE IndexerMoves
  <2> USE DatabaseAssumption DEF CloseSession, Abort, EndRange, NextKind, TypeOK, LoopTypeOK
  <2>1. CASE Start \/ ReadHead \/ AcquireLock
    BY <2>1 DEF Start, ReadHead, AcquireLock
  <2>2. CASE IndexKind \/ FlushFails
    BY <2>2 DEF IndexKind, FlushFails
  <2>3. CASE PendingRollback \/ CallRaises \/ IntervalInThePast
    BY <2>3 DEF PendingRollback, CallRaises, IntervalInThePast
  <2>4. CASE IndexIntervals
    BY <2>4 DEF IndexIntervals
  <2>5. CASE Commit \/ CommitAckLost \/ CommitLost
    BY <2>5 DEF Commit, CommitAckLost, CommitLost
  <2>6. CASE Crash
    BY <2>6 DEF Crash
  <2>7. QED
    BY <1>1, <2>1, <2>2, <2>3, <2>4, <2>5, <2>6 DEF IndexerMoves, LoopNext, LoopStep
<1>2. CASE UNCHANGED loopVars
  BY <1>2 DEF loopVars
<1>3. QED
  BY <1>1, <1>2 DEF Next, ChainMoves, OperatorMoves, ClientMoves, vars

\* The parameters, the initial values and the actions of the specification keep
\* every variable in its type.
THEOREM TypeCorrect == Spec => []TypeOK
<1>1. Init => TypeOK /\ ControlInv
  BY NoWritesType, ChainAssumption, DatabaseAssumption, IndexerLoopAssumption,
     ForceRunAssumption, WaitAssumption
     DEF Init, ChainInit, DatabaseInit, LoopInit, ForceInit, WaitInit, Block,
         TypeOK, ChainTypeOK, DatabaseTypeOK, LoopTypeOK, ForceTypeOK, WaitTypeOK,
         ControlInv, WriteSet
<1>2. TypeOK /\ ControlInv /\ [Next]_vars => TypeOK' /\ ControlInv'
  BY TypeStep, ControlStep
<1>3. QED
  BY <1>1, <1>2, PTL DEF Spec

\* Every step keeps the lock with whoever has a transaction open: the flush that
\* fails gives it back, and so do the abort and the crash.
LEMMA LockStep ==
    ASSUME TypeOK, ControlInv, LockInv, [Next]_vars
    PROVE  LockInv'
<1> USE DEF LockInv, TxOpen
<1>1. CASE IndexerMoves
  <2>0. opPc' = opPc
    BY <1>1 DEF IndexerMoves, forceVars
  <2> USE <2>0 DEF CloseSession, UnlockIndexer, Abort, EndRange, NextKind, dbVars, ControlInv
  <2>1. CASE Start \/ ReadHead \/ AcquireLock
    BY <2>1 DEF Start, ReadHead, AcquireLock
  <2>2. CASE IndexKind \/ FlushFails
    BY <2>2 DEF IndexKind, FlushFails
  <2>3. CASE PendingRollback \/ CallRaises \/ IntervalInThePast
    BY <2>3 DEF PendingRollback, CallRaises, IntervalInThePast
  <2>4. CASE IndexIntervals
    BY <2>4 DEF IndexIntervals
  <2>5. CASE Commit \/ CommitAckLost \/ CommitLost
    BY <2>5 DEF Commit, CommitAckLost, CommitLost, ApplyWrites, DropWrites
  <2>6. CASE Crash
    BY <2>6 DEF Crash
  <2>7. QED
    BY <1>1, <2>1, <2>2, <2>3, <2>4, <2>5, <2>6 DEF IndexerMoves, LoopNext, LoopStep
<1>2. CASE OperatorMoves
  BY <1>2 DEF OperatorMoves, ForceNext, ForceIntervals, AnswerYes, AnswerNo,
              ApplyWrites, DropWrites, loopVars
<1>3. CASE UNCHANGED <<dbVars, loopVars, forceVars>>
  BY <1>3 DEF dbVars, loopVars, forceVars
<1>4. QED
  BY <1>1, <1>2, <1>3 DEF Next, ChainMoves, ClientMoves, vars

\* Every step keeps start_block and the database in line, and the range not
\* empty.
LEMMA RangeStep ==
    ASSUME TypeOK, ControlInv, RangeInv, [Next]_vars
    PROVE  RangeInv'
<1> USE DEF RangeInv
<1>1. CASE IndexerMoves
  <2> USE DatabaseAssumption
      DEF TypeOK, DatabaseTypeOK, LoopTypeOK, Abort, EndRange, StartBlockAfter, NextKind,
          dbVars, Block
  <2>1. CASE Start \/ AcquireLock
    BY <2>1 DEF Start, AcquireLock
  <2>2. CASE ReadHead
    BY <2>2, ChainAssumption, IndexerLoopAssumption DEF ReadHead, EndOfRange, ChainTypeOK
  <2>3. CASE IndexKind \/ FlushFails
    BY <2>3 DEF IndexKind, FlushFails
  <2>4. CASE PendingRollback \/ CallRaises \/ IntervalInThePast
    BY <2>4 DEF PendingRollback, CallRaises, IntervalInThePast
  <2>5. CASE IndexIntervals
    BY <2>5 DEF IndexIntervals
  <2>6. CASE Commit \/ CommitAckLost
    BY <2>6 DEF Commit, CommitAckLost
  <2>7. CASE CommitLost
    BY <2>7 DEF CommitLost, DropWrites, Fault
  <2>8. CASE Crash
    BY <2>8 DEF Crash
  <2>9. QED
    BY <1>1, <2>1, <2>2, <2>3, <2>4, <2>5, <2>6, <2>7, <2>8
       DEF IndexerMoves, LoopNext, LoopStep
<1>2. CASE lastBlock' = lastBlock /\ UNCHANGED loopVars
  BY <1>2 DEF loopVars
<1>3. QED
  BY <1>1, <1>2
     DEF Next, ChainMoves, OperatorMoves, ClientMoves, vars, dbVars,
         ForceNext, ForceIntervals, AnswerYes, AnswerNo, DropWrites

\* A transaction that has written nothing holds no event.
LEMMA NoWritesEmpty ==
    \A kb \in Kind \X Block : Len(NoWrites.rows[kb]) = 0
BY DEF NoWrites

\* Every step keeps the open transaction at one entry for each event of the
\* classes passed so far: a class is handled once, and an abort forgets all.
LEMMA TxStep ==
    ASSUME TypeOK, ControlInv, TxInv, [Next]_vars
    PROVE  TxInv'
<1> USE DEF TxInv, TxOpen, InRange
<1>1. CASE IndexerMoves
  <2> USE DEF ControlInv, CloseSession, Abort, EndRange
  <2>1. CASE Start \/ ReadHead \/ AcquireLock
    \* kind is 1: the transaction is empty before and after.
    <3>1. kind' = 1 /\ tx' = tx /\ \A kb \in Kind \X Block : ~(kb[1] < 1)
      BY <2>1 DEF Start, ReadHead, AcquireLock, Kind
    <3>2. kind = 1
      BY <2>1, <3>1 DEF Start, ReadHead, AcquireLock
    <3>3. QED
      BY <3>1, <3>2
  <2>2. CASE IndexKind
    <3> TAKE kb \in Kind \X Block
    <3>1. /\ session' = session /\ startBlock' = startBlock /\ endBlock' = endBlock
          /\ kind' = kind + 1 /\ pc' \in {"events", "intervals"}
          /\ pc = "events" /\ session = "clean"
      BY <2>2 DEF IndexKind, NextKind
    <3>2. kind \in Int /\ kb[1] \in Int
      BY DEF TypeOK, LoopTypeOK, Kind
    <3>3. CASE kb[1] = kind /\ InRange(kb[2])
      <4>1. tx.rows[kb] \in Seq(Nat) /\ Len(tx.rows[kb]) = 0
        BY <3>2, <3>3 DEF TypeOK, LoopTypeOK, WriteSet
      <4>2. tx'.rows[kb] = Append(tx.rows[kb], canon[kb[2]])
        BY <2>2, <3>3 DEF IndexKind, TypeOK, LoopTypeOK, WriteSet
      <4>3. Len(tx'.rows[kb]) = 1
        BY <4>1, <4>2
      <4>4. QED
        BY <3>1, <3>2, <3>3, <4>3
    <3>4. CASE ~(kb[1] = kind /\ InRange(kb[2]))
      <4>1. tx'.rows[kb] = tx.rows[kb]
        BY <2>2, <3>4 DEF IndexKind, TypeOK, LoopTypeOK, WriteSet
      <4>2. (kb[1] < kind' /\ InRange(kb[2])) <=> (kb[1] < kind /\ InRange(kb[2]))
        BY <3>1, <3>2, <3>4
      <4>3. QED
        BY <3>1, <4>1, <4>2
    <3>5. QED
      BY <3>3, <3>4
  <2>3. CASE FlushFails
    BY <2>3, NoWritesEmpty DEF FlushFails, NextKind
  <2>4. CASE PendingRollback \/ CallRaises \/ IntervalInThePast
    BY <2>4, NoWritesEmpty DEF PendingRollback, CallRaises, IntervalInThePast
  <2>5. CASE IndexIntervals
    <3>1. tx'.rows = tx.rows
      BY <2>5 DEF IndexIntervals, TypeOK, LoopTypeOK, WriteSet
    <3>2. QED
      BY <2>5, <3>1 DEF IndexIntervals
  <2>6. CASE Commit \/ CommitAckLost \/ CommitLost
    BY <2>6, NoWritesEmpty DEF Commit, CommitAckLost, CommitLost
  <2>7. CASE Crash
    BY <2>7, NoWritesEmpty DEF Crash
  <2>8. QED
    BY <1>1, <2>1, <2>2, <2>3, <2>4, <2>5, <2>6, <2>7 DEF IndexerMoves, LoopNext, LoopStep
<1>2. CASE UNCHANGED loopVars
  BY <1>2 DEF loopVars
<1>3. QED
  BY <1>1, <1>2 DEF Next, ChainMoves, OperatorMoves, ClientMoves, vars

\* A committed range adds one to every kind of its blocks, and to nothing else.
LEMMA CommitLengths ==
    ASSUME TypeOK, ControlInv, TxInv, Commit \/ CommitAckLost,
           NEW kb \in Kind \X Block
    PROVE  Len(rows'[kb]) = IF InRange(kb[2]) THEN Len(rows[kb]) + 1 ELSE Len(rows[kb])
<1>1. pc = "commit" /\ session = "clean" /\ kind = NumKinds + 1
  BY DEF Commit, CommitAckLost, ControlInv
<1>2. kb[1] < kind
  BY <1>1, DatabaseAssumption DEF Kind
<1>3. Len(tx.rows[kb]) = IF InRange(kb[2]) THEN 1 ELSE 0
  BY <1>1, <1>2 DEF TxInv, TxOpen
<1>4. rows'[kb] = rows[kb] \o tx.rows[kb]
  BY DEF Commit, CommitAckLost, ApplyWrites
<1>5. rows[kb] \in Seq(Nat) /\ tx.rows[kb] \in Seq(Nat)
  BY DEF TypeOK, DatabaseTypeOK, LoopTypeOK, WriteSet
<1>6. Len(rows[kb]) \in Nat /\ Len(rows'[kb]) = Len(rows[kb]) + Len(tx.rows[kb])
  BY <1>4, <1>5
<1>7. CASE InRange(kb[2])
  BY <1>3, <1>6, <1>7
<1>8. CASE ~InRange(kb[2])
  BY <1>3, <1>6, <1>8
<1>9. QED
  BY <1>7, <1>8

\* Only a commit of the indexer touches last_block and the applied events.
LEMMA OnlyCommitsWrite ==
    ASSUME TypeOK, [Next]_vars,
           ~(IndexerMoves /\ (Commit \/ CommitAckLost))
    PROVE  lastBlock' = lastBlock /\ rows' = rows
<1>1. CASE IndexerMoves
  BY <1>1 DEF IndexerMoves, LoopNext, LoopStep, Start, ReadHead, AcquireLock, IndexKind,
              FlushFails, PendingRollback, IndexIntervals, IntervalInThePast, CallRaises,
              CommitLost, Crash, Abort, DropWrites, dbVars
<1>2. CASE OperatorMoves
  <2>1. CASE AnswerYes
    <3>1. lastBlock' = lastBlock
      BY <2>1 DEF AnswerYes
    <3>2. \A kb \in Kind \X Block : rows[kb] \in Seq(Nat) /\ rows[kb] \o <<>> = rows[kb]
      BY DEF TypeOK, DatabaseTypeOK
    <3>3. [NoWrites EXCEPT !.runs = opRuns].rows = [kb \in Kind \X Block |-> <<>>]
      BY DEF NoWrites
    <3>4. rows' = [kb \in Kind \X Block |-> rows[kb]]
      BY <2>1, <3>2, <3>3 DEF AnswerYes, ApplyWrites
    <3>5. QED
      BY <3>1, <3>4 DEF TypeOK, DatabaseTypeOK
  <2>2. QED
    BY <1>2, <2>1 DEF OperatorMoves, ForceNext, ForceIntervals, AnswerNo, DropWrites
<1>3. CASE ChainMoves \/ ClientMoves \/ UNCHANGED vars
  BY <1>3 DEF ChainMoves, ClientMoves, vars, dbVars
<1>4. QED
  BY <1>1, <1>2, <1>3 DEF Next

\* Every step keeps the applied events at once or never, the same for all kinds,
\* and none at or after last_block.
LEMMA RowsStep ==
    ASSUME TypeOK, ControlInv, RangeInv, TxInv, RowsInv, [Next]_vars
    PROVE  RowsInv'
<1>1. CASE IndexerMoves /\ (Commit \/ CommitAckLost)
  <2>1. /\ lastBlock \in Nat /\ startBlock \in Nat /\ endBlock \in Nat
        /\ lastBlock <= startBlock /\ startBlock <= endBlock
        /\ lastBlock' = endBlock + 1
    BY <1>1 DEF Commit, CommitAckLost, StartBlockAfter, RangeInv, TypeOK, DatabaseTypeOK,
                LoopTypeOK
  <2>2. \A kb \in Kind \X Block :
            Len(rows'[kb]) = IF InRange(kb[2]) THEN Len(rows[kb]) + 1 ELSE Len(rows[kb])
    BY <1>1, CommitLengths
  <2>3. \A kb \in Kind \X Block :
            /\ Len(rows[kb]) \in Nat
            /\ Len(rows[kb]) <= 1
            /\ InRange(kb[2]) => Len(rows[kb]) = 0
            /\ endBlock + 1 <= kb[2] => Len(rows[kb]) = 0
    <3> TAKE kb \in Kind \X Block
    <3>1. kb[2] \in Nat
      BY DEF Block
    <3>2. rows[kb] \in Seq(Nat)
      BY DEF TypeOK, DatabaseTypeOK
    <3>3. QED
      BY <2>1, <3>1, <3>2 DEF RowsInv, AtMostOnce, InRange
  <2>4. AtMostOnce'
    BY <2>2, <2>3 DEF AtMostOnce
  <2>5. \A kb \in Kind \X Block : lastBlock' <= kb[2] => Len(rows'[kb]) = 0
    <3> SUFFICES ASSUME NEW kb \in Kind \X Block, lastBlock' <= kb[2]
                 PROVE  Len(rows'[kb]) = 0
      OBVIOUS
    <3>1. kb[2] \in Nat
      BY DEF Block
    <3>2. QED
      BY <2>1, <2>2, <2>3, <3>1 DEF InRange
  <2>6. \A k, l \in Kind, b \in Block : Len(rows'[<<k, b>>]) = Len(rows'[<<l, b>>])
    <3> TAKE k, l \in Kind, b \in Block
    <3>1. <<k, b>> \in Kind \X Block /\ <<l, b>> \in Kind \X Block
      OBVIOUS
    <3>2. Len(rows[<<k, b>>]) = Len(rows[<<l, b>>])
      BY DEF RowsInv
    <3>3. QED
      BY <2>2, <3>1, <3>2
  <2>7. QED
    BY <2>4, <2>5, <2>6 DEF RowsInv
<1>2. CASE ~(IndexerMoves /\ (Commit \/ CommitAckLost))
  BY <1>2, OnlyCommitsWrite DEF RowsInv, AtMostOnce
<1>3. QED
  BY <1>1, <1>2

\* The inductive invariant holds at the start.
LEMMA InitIInv == Init => IInv
<1> SUFFICES ASSUME Init PROVE IInv
  OBVIOUS
<1>1. TypeOK
  BY NoWritesType, ChainAssumption, DatabaseAssumption, IndexerLoopAssumption,
     ForceRunAssumption, WaitAssumption
     DEF Init, ChainInit, DatabaseInit, LoopInit, ForceInit, WaitInit, Block,
         TypeOK, ChainTypeOK, DatabaseTypeOK, LoopTypeOK, ForceTypeOK, WaitTypeOK, WriteSet
<1>2. ControlInv /\ LockInv
  BY DEF Init, DatabaseInit, LoopInit, ForceInit, ControlInv, LockInv, TxOpen
<1>3. RangeInv
  BY DatabaseAssumption DEF Init, DatabaseInit, LoopInit, RangeInv, Block
<1>4. TxInv /\ RowsInv
  BY NoWritesEmpty DEF Init, DatabaseInit, LoopInit, TxInv, TxOpen, RowsInv, AtMostOnce
<1>5. QED
  BY <1>1, <1>2, <1>3, <1>4 DEF IInv

\* The inductive invariant is kept by every step.
LEMMA StepIInv == IInv /\ [Next]_vars => IInv'
BY TypeStep, ControlStep, LockStep, RangeStep, TxStep, RowsStep DEF IInv

\* The inductive invariant holds in every reachable state, for every number of
\* event kinds, interval functions, blocks and faults.
THEOREM Invariance == Spec => []IInv
<1>1. QED
  BY InitIInv, StepIInv, PTL DEF Spec

\* No event is applied twice, with any number of crashes, exceptions, lost
\* commits and lost acknowledgements.
THEOREM AppliedAtMostOnce == Spec => []AtMostOnce
<1>1. IInv => AtMostOnce
  BY DEF IInv, RowsInv
<1>2. QED
  BY <1>1, Invariance, PTL

\* A reader never sees a block with some kinds of its events and not others.
THEOREM BlocksAreWhole == Spec => []WholeBlocks
<1>1. IInv => WholeBlocks
  <2> SUFFICES ASSUME IInv, NEW b \in Block, NEW k \in Kind, rows[<<k, b>>] # <<>>,
                      NEW l \in Kind
               PROVE  rows[<<l, b>>] # <<>>
    BY DEF WholeBlocks, Indexed
  <2>1. rows[<<k, b>>] \in Seq(Nat) /\ rows[<<l, b>>] \in Seq(Nat)
    BY DEF IInv, TypeOK, DatabaseTypeOK
  <2>2. Len(rows[<<k, b>>]) = Len(rows[<<l, b>>])
    BY DEF IInv, RowsInv
  <2>3. QED
    BY <2>1, <2>2
<1>2. QED
  BY <1>1, Invariance, PTL

-----------------------------------------------------------------------------
(* The abstract specification.                                             *)

\* Every behaviour of the system is one of BlockIndex: ranges of blocks are
\* applied whole, once, in order, and without a gap when no commit is lost.
THEOREM Refinement == Spec => ImplementsBlockIndex
<1>1. Init => Promise!Init
  BY NoWritesEmpty DEF Init, DatabaseInit, Promise!Init
<1>2. IInv /\ [Next]_vars => [Promise!Next]_Promise!vars
  <2> SUFFICES ASSUME IInv, [Next]_vars
               PROVE  [Promise!Next]_Promise!vars
    OBVIOUS
  <2>1. CASE IndexerMoves /\ (Commit \/ CommitAckLost)
    <3>1. startBlock \in Block /\ endBlock \in Block
      BY <2>1, ChainAssumption, DatabaseAssumption
         DEF IInv, RangeInv, TypeOK, DatabaseTypeOK, LoopTypeOK, Commit, CommitAckLost, Block
    <3>2. /\ lastBlock <= startBlock /\ startBlock <= endBlock
          /\ startBlock = lastBlock \/ "commit_lost" \in FaultKinds
          /\ lastBlock' = endBlock + 1
      BY <2>1 DEF IInv, RangeInv, Commit, CommitAckLost, StartBlockAfter
    <3>3. \A kb \in Kind \X Block :
              Len(rows'[kb]) = IF startBlock <= kb[2] /\ kb[2] <= endBlock
                               THEN Len(rows[kb]) + 1 ELSE Len(rows[kb])
      BY <2>1, CommitLengths DEF IInv, InRange
    <3>4. PICK first, end \in Block : first = startBlock /\ end = endBlock
      BY <3>1
    <3>5. Promise!Advance(first, end)
      BY <3>2, <3>3, <3>4 DEF Promise!Advance
    <3>6. QED
      BY <3>5 DEF Promise!Next
  <2>2. CASE ~(IndexerMoves /\ (Commit \/ CommitAckLost))
    BY <2>2, OnlyCommitsWrite DEF IInv, Promise!vars
  <2>3. QED
    BY <2>1, <2>2
<1>3. QED
  BY <1>1, <1>2, Invariance, PTL DEF Spec, ImplementsBlockIndex, Promise!Spec

-----------------------------------------------------------------------------
(* What a client is told.                                                  *)

\* When no commit can be lost, every step keeps the blocks below last_block
\* applied, and the block of an answered client among them.
LEMMA WaitStep ==
    ASSUME IInv, WaitInv, [Next]_vars, "commit_lost" \notin FaultKinds
    PROVE  WaitInv'
<1>0. lastBlock \in Nat /\ waitBlock \in Nat /\ StartBlock \in Nat
  BY DatabaseAssumption DEF IInv, TypeOK, DatabaseTypeOK, WaitTypeOK, Block
<1>1. CASE IndexerMoves /\ (Commit \/ CommitAckLost)
  <2>1. /\ startBlock = lastBlock /\ startBlock <= endBlock
        /\ lastBlock' = endBlock + 1 /\ endBlock \in Nat
    BY <1>1 DEF Commit, CommitAckLost, StartBlockAfter, IInv, RangeInv, TypeOK, LoopTypeOK
  <2>2. waiter' = waiter /\ waitBlock' = waitBlock
    BY <1>1 DEF IndexerMoves, waitVars
  <2>3. ASSUME NEW kb \in Kind \X Block, StartBlock <= kb[2], kb[2] < lastBlock'
        PROVE  Len(rows'[kb]) = 1
    <3>1. kb[2] \in Nat /\ rows[kb] \in Seq(Nat)
      BY DEF Block, IInv, TypeOK, DatabaseTypeOK
    <3>2. Len(rows'[kb]) = IF InRange(kb[2]) THEN Len(rows[kb]) + 1 ELSE Len(rows[kb])
      BY <1>1, CommitLengths DEF IInv
    <3>3. CASE InRange(kb[2])
      <4>1. Len(rows[kb]) = 0
        BY <1>0, <2>1, <3>1, <3>3 DEF InRange, IInv, RowsInv
      <4>2. QED
        BY <3>2, <3>3, <4>1
    <3>4. CASE ~InRange(kb[2])
      <4>1. kb[2] < lastBlock
        BY <1>0, <2>1, <2>3, <3>1, <3>4 DEF InRange
      <4>2. QED
        BY <2>3, <3>2, <3>4, <4>1 DEF WaitInv
    <3>5. QED
      BY <3>3, <3>4
  <2>4. QED
    BY <1>0, <2>1, <2>2, <2>3 DEF WaitInv
<1>2. CASE ~(IndexerMoves /\ (Commit \/ CommitAckLost))
  <2>1. lastBlock' = lastBlock /\ rows' = rows
    BY <1>2, OnlyCommitsWrite DEF IInv
  <2>2. CASE ClientMoves
    BY <2>1, <2>2 DEF ClientMoves, WaitNext, Request, PollOk, PollAgain, GiveUp, Processed,
                      WaitInv
  <2>3. CASE UNCHANGED waitVars
    BY <2>1, <2>3 DEF waitVars, WaitInv
  <2>4. QED
    BY <2>2, <2>3 DEF Next, ChainMoves, IndexerMoves, OperatorMoves, vars
<1>3. QED
  BY <1>1, <1>2

\* When no commit is lost, a client told that a block was processed finds its
\* events in the database.
THEOREM ClientIsToldTheTruth ==
    ASSUME "commit_lost" \notin FaultKinds
    PROVE  Spec => []WaitHonest
<1>1. Init => WaitInv
  BY DatabaseAssumption DEF Init, DatabaseInit, WaitInit, WaitInv, Block
<1>2. IInv /\ WaitInv /\ [Next]_vars => WaitInv'
  BY WaitStep
<1>3. IInv /\ WaitInv => WaitHonest
  <2> SUFFICES ASSUME IInv, WaitInv, waiter = "ok", StartBlock <= waitBlock, NEW k \in Kind
               PROVE  rows[<<k, waitBlock>>] # <<>>
    BY DEF WaitHonest, Indexed
  <2>1. <<k, waitBlock>> \in Kind \X Block /\ rows[<<k, waitBlock>>] \in Seq(Nat)
    BY DEF IInv, TypeOK, DatabaseTypeOK, WaitTypeOK
  <2>2. Len(rows[<<k, waitBlock>>]) = 1
    BY <2>1 DEF WaitInv
  <2>3. QED
    BY <2>1, <2>2
<1>4. QED
  BY <1>1, <1>2, <1>3, Invariance, PTL DEF Spec

-----------------------------------------------------------------------------
(* Reorganisations.                                                        *)

\* When all entries of two sequences are c, so are those of their concatenation.
LEMMA ConcatOfEqual ==
    ASSUME NEW s \in Seq(Nat), NEW t \in Seq(Nat), NEW c,
           \A i \in 1 .. Len(s) : s[i] = c,
           \A i \in 1 .. Len(t) : t[i] = c
    PROVE  \A i \in 1 .. Len(s \o t) : (s \o t)[i] = c
<1> SUFFICES ASSUME NEW i \in 1 .. Len(s \o t)
             PROVE  (s \o t)[i] = c
  OBVIOUS
<1>1. /\ Len(s) \in Nat /\ Len(t) \in Nat /\ Len(s \o t) = Len(s) + Len(t)
      /\ i \in Int /\ 1 <= i /\ i <= Len(s) + Len(t)
  OBVIOUS
<1>2. CASE i <= Len(s)
  BY <1>1, <1>2
<1>3. CASE ~(i <= Len(s))
  <2>1. i - Len(s) \in 1 .. Len(t)
    BY <1>1, <1>3
  <2>2. (s \o t)[i] = t[i - Len(s)]
    BY <1>1, <1>3
  <2>3. QED
    BY <2>1, <2>2
<1>4. QED
  BY <1>2, <1>3

\* When a reorg replaces at most the newest block, every step keeps what was read
\* below the head, and so on the canonical chain.
LEMMA CanonStep ==
    ASSUME IInv, CanonInv, [Next]_vars, ReorgDepth <= 1
    PROVE  CanonInv'
<1> USE DEF CanonInv
<1>0. /\ head \in Nat /\ endBlock \in Nat
      /\ \A kb \in Kind \X Block :
            kb[2] \in Nat /\ rows[kb] \in Seq(Nat) /\ tx.rows[kb] \in Seq(Nat)
  BY DEF IInv, TypeOK, ChainTypeOK, LoopTypeOK, DatabaseTypeOK, WriteSet, Block
<1>1. CASE ChainMoves
  <2>1. /\ head <= head'
        /\ head' \in Nat
        /\ \A b \in Block : b < head => canon'[b] = canon[b]
    <3>1. CASE Mine
      BY <3>1, <1>0 DEF Mine
    <3>2. CASE Reorg
      BY <3>2, <1>0, ChainAssumption DEF Reorg, Block, IInv, TypeOK, ChainTypeOK
    <3>3. QED
      BY <1>1, <3>1, <3>2 DEF ChainMoves, ChainNext
  <2>2. /\ pc' = pc /\ endBlock' = endBlock /\ rows' = rows /\ tx' = tx
    BY <1>1 DEF ChainMoves, dbVars, loopVars
  <2>3. \A kb \in Kind \X Block : Len(tx.rows[kb]) > 0 => kb[2] < head
    <3> SUFFICES ASSUME NEW kb \in Kind \X Block, Len(tx.rows[kb]) > 0
                 PROVE  kb[2] < head
      OBVIOUS
    <3>1. TxOpen /\ InRange(kb[2])
      BY DEF IInv, TxInv
    <3>2. QED
      BY <1>0, <3>1 DEF TxOpen, InRange
  <2>4. QED
    <3>1. pc' \in {"locking", "events", "intervals", "commit"} => endBlock' < head'
      BY <1>0, <2>1, <2>2
    <3>2. ASSUME NEW kb \in Kind \X Block
          PROVE  /\ Len(rows'[kb]) > 0 => kb[2] < head'
                 /\ \A i \in 1 .. Len(rows'[kb]) : rows'[kb][i] = canon'[kb[2]]
                 /\ \A i \in 1 .. Len(tx'.rows[kb]) : tx'.rows[kb][i] = canon'[kb[2]]
      <4>1. /\ Len(rows[kb]) \in Nat /\ Len(tx.rows[kb]) \in Nat
            /\ kb[2] < head => canon'[kb[2]] = canon[kb[2]]
        BY <1>0, <2>1
      <4>2. QED
        BY <1>0, <2>1, <2>2, <2>3, <4>1
    <3>3. QED
      BY <3>1, <3>2
<1>2. CASE IndexerMoves
  <2>0. head' = head /\ canon' = canon
    BY <1>2 DEF IndexerMoves, chainVars
  <2>1. pc' \in {"locking", "events", "intervals", "commit"} => endBlock' < head'
    BY <1>2, <1>0, <2>0, ChainAssumption, IndexerLoopAssumption
       DEF IndexerMoves, LoopNext, LoopStep, Start, ReadHead, EndOfRange, AcquireLock,
           IndexKind, FlushFails, PendingRollback, IndexIntervals, IntervalInThePast, Commit,
           CallRaises, CommitLost, CommitAckLost, Crash, Abort, EndRange, NextKind,
           IInv, TypeOK, LoopTypeOK
  <2>2. CASE Commit \/ CommitAckLost
    <3> SUFFICES ASSUME NEW kb \in Kind \X Block
                 PROVE  /\ Len(rows'[kb]) > 0 => kb[2] < head'
                        /\ \A i \in 1 .. Len(rows'[kb]) : rows'[kb][i] = canon'[kb[2]]
                        /\ \A i \in 1 .. Len(tx'.rows[kb]) : tx'.rows[kb][i] = canon'[kb[2]]
      BY <2>1
    <3>1. tx'.rows[kb] = <<>>
      BY <2>2 DEF Commit, CommitAckLost, EndRange, CloseSession, NoWrites
    <3>2. Len(rows'[kb]) = IF InRange(kb[2]) THEN Len(rows[kb]) + 1 ELSE Len(rows[kb])
      BY <2>2, CommitLengths DEF IInv
    <3>3. rows'[kb] = rows[kb] \o tx.rows[kb]
      BY <2>2 DEF Commit, CommitAckLost, ApplyWrites
    <3>4. \A i \in 1 .. Len(rows'[kb]) : rows'[kb][i] = canon'[kb[2]]
      <4>1. /\ \A i \in 1 .. Len(rows[kb]) : rows[kb][i] = canon[kb[2]]
            /\ \A i \in 1 .. Len(tx.rows[kb]) : tx.rows[kb][i] = canon[kb[2]]
        OBVIOUS
      <4>2. rows[kb] \in Seq(Nat) /\ tx.rows[kb] \in Seq(Nat)
        BY <1>0
      <4>3. \A i \in 1 .. Len(rows[kb] \o tx.rows[kb]) :
                (rows[kb] \o tx.rows[kb])[i] = canon[kb[2]]
        BY <4>1, <4>2, ConcatOfEqual
      <4>4. QED
        BY <2>0, <3>3, <4>3
    <3>5. InRange(kb[2]) => kb[2] < head
      BY <1>0, <2>2 DEF InRange, Commit, CommitAckLost
    <3>6. Len(rows'[kb]) > 0 => kb[2] < head'
      BY <1>0, <2>0, <3>2, <3>5
    <3>7. QED
      BY <3>1, <3>4, <3>6
  <2>3. CASE ~(Commit \/ CommitAckLost)
    <3>1. rows' = rows
      BY <1>2, <2>3, OnlyCommitsWrite DEF IInv
    <3>2. CASE IndexKind
      <4>1. ASSUME NEW kb \in Kind \X Block
            PROVE  \A i \in 1 .. Len(tx'.rows[kb]) : tx'.rows[kb][i] = canon[kb[2]]
        <5>1. tx'.rows[kb] = IF kb[1] = kind /\ InRange(kb[2])
                             THEN Append(tx.rows[kb], canon[kb[2]]) ELSE tx.rows[kb]
          BY <3>2 DEF IndexKind, IInv, TypeOK, LoopTypeOK, WriteSet
        <5>2. QED
          BY <1>0, <5>1
      <4>2. QED
        BY <2>0, <2>1, <3>1, <4>1
    <3>3. CASE IndexIntervals
      <4>1. tx'.rows = tx.rows
        BY <3>3 DEF IndexIntervals, IInv, TypeOK, LoopTypeOK, WriteSet
      <4>2. QED
        BY <2>0, <2>1, <3>1, <4>1
    <3>4. CASE tx' = NoWrites
      <4>1. \A kb \in Kind \X Block : tx'.rows[kb] = <<>>
        BY <3>4 DEF NoWrites
      <4>2. QED
        BY <2>0, <2>1, <3>1, <4>1
    <3>5. CASE tx' = tx
      BY <2>0, <2>1, <3>1, <3>5
    <3>6. QED
      BY <1>2, <2>3, <3>2, <3>3, <3>4, <3>5
         DEF IndexerMoves, LoopNext, LoopStep, Start, ReadHead, AcquireLock, FlushFails,
             PendingRollback, IntervalInThePast, CallRaises, CommitLost, Crash, Abort,
             EndRange, CloseSession
  <2>4. QED
    BY <2>2, <2>3
<1>3. CASE OperatorMoves \/ ClientMoves \/ UNCHANGED vars
  <2>1. rows' = rows
    BY <1>3, OnlyCommitsWrite
       DEF IInv, OperatorMoves, ClientMoves, vars, IndexerMoves, Commit, CommitAckLost,
           loopVars, dbVars, EndRange, ControlInv
  <2>2. UNCHANGED chainVars /\ UNCHANGED loopVars
    BY <1>3 DEF OperatorMoves, ClientMoves, vars
  <2>3. QED
    BY <2>1, <2>2 DEF chainVars, loopVars
<1>4. QED
  BY <1>1, <1>2, <1>3 DEF Next

\* With reorganisations of at most one block, everything applied stays on the
\* canonical chain: the one block the indexer stays behind is enough.
THEOREM AppliedIsCanonical ==
    ASSUME ReorgDepth <= 1
    PROVE  Spec => []OnlyCanonical
<1>1. Init => CanonInv
  BY DEF Init, DatabaseInit, LoopInit, CanonInv, NoWrites
<1>2. IInv /\ CanonInv /\ [Next]_vars => CanonInv'
  BY CanonStep
<1>3. CanonInv => OnlyCanonical
  BY DEF CanonInv, OnlyCanonical
<1>4. QED
  BY <1>1, <1>2, <1>3, Invariance, PTL DEF Spec
-----------------------------------------------------------------------------
(* The interval functions.                                                 *)

\* Consecutive runs are between one block and one period and a block apart.
Spaced(s) == \A i \in 2 .. Len(s) : s[i] - s[i - 1] \in 1 .. Interval + 1

\* No run is at block 0, which index_intervals would take for no run.
NoneAtZero(s) == \A i \in 1 .. Len(s) : s[i] # 0

\* Runs added after the last one, at a distance that is right, leave all runs
\* at the right distance, and the last of them is the last run.
LEMMA SpacedConcat ==
    ASSUME NEW s \in Seq(Nat), NEW t \in Seq(Nat),
           Spaced(s), NoneAtZero(s), Spaced(t), NoneAtZero(t),
           t # <<>> => t[1] - FunctionLastRun(s) \in 1 .. Interval + 1
    PROVE  /\ Spaced(s \o t) /\ NoneAtZero(s \o t)
           /\ FunctionLastRun(s \o t) = IF t = <<>> THEN FunctionLastRun(s) ELSE t[Len(t)]
<1> DEFINE u == s \o t
<1>1. /\ u \in Seq(Nat) /\ Len(s) \in Nat /\ Len(t) \in Nat /\ Len(u) = Len(s) + Len(t)
      /\ \A i \in 1 .. Len(s) : u[i] = s[i]
      /\ t = <<>> <=> Len(t) = 0
      /\ s = <<>> <=> Len(s) = 0
      /\ t = <<>> => u = s
  OBVIOUS
<1>2. \A j \in 1 .. Len(t) : u[Len(s) + j] = t[j]
  <2> TAKE j \in 1 .. Len(t)
  <2>1. /\ Len(s) + j \in 1 .. Len(s) + Len(t)
        /\ ~(Len(s) + j <= Len(s)) /\ (Len(s) + j) - Len(s) = j
    BY <1>1
  <2>2. QED
    BY <1>1, <2>1
<1> HIDE DEF u
<1>3. NoneAtZero(u)
  <2> SUFFICES ASSUME NEW i \in 1 .. Len(u)
               PROVE  u[i] # 0
    BY DEF NoneAtZero
  <2>1. CASE i \in 1 .. Len(s)
    BY <1>1, <2>1 DEF NoneAtZero
  <2>2. CASE i \notin 1 .. Len(s)
    <3> DEFINE j == i - Len(s)
    <3>1. j \in 1 .. Len(t) /\ i = Len(s) + j
      BY <1>1, <2>2
    <3> HIDE DEF j
    <3>2. QED
      BY <1>2, <3>1 DEF NoneAtZero
  <2>3. QED
    BY <2>1, <2>2
<1>4. s # <<>> => FunctionLastRun(s) = s[Len(s)]
  BY <1>1 DEF NoneAtZero, FunctionLastRun, BlockLastRun
<1>5. Spaced(u)
  <2> SUFFICES ASSUME NEW i \in 2 .. Len(u)
               PROVE  u[i] - u[i - 1] \in 1 .. Interval + 1
    BY DEF Spaced
  <2>0. i \in Int /\ 2 <= i /\ i <= Len(s) + Len(t)
    BY <1>1
  <2>1. CASE i <= Len(s)
    <3>1. i \in 1 .. Len(s) /\ i - 1 \in 1 .. Len(s) /\ i \in 2 .. Len(s)
      BY <1>1, <2>0, <2>1
    <3>2. QED
      BY <1>1, <3>1 DEF Spaced
  <2>2. CASE i = Len(s) + 1
    <3>1. /\ Len(t) # 0 /\ Len(s) # 0 /\ i - 1 = Len(s)
          /\ 1 \in 1 .. Len(t) /\ Len(s) \in 1 .. Len(s)
      BY <1>1, <2>0, <2>2
    <3>2. u[i] = t[1] /\ u[i - 1] = s[Len(s)]
      BY <1>1, <1>2, <2>2, <3>1
    <3>3. QED
      BY <1>1, <1>4, <3>1, <3>2
  <2>3. CASE i > Len(s) + 1
    <3> DEFINE j == i - Len(s)
    <3>1. /\ j \in 2 .. Len(t) /\ j \in 1 .. Len(t) /\ j - 1 \in 1 .. Len(t)
          /\ i = Len(s) + j /\ i - 1 = Len(s) + (j - 1)
      BY <1>1, <2>0, <2>3
    <3> HIDE DEF j
    <3>2. u[i] = t[j] /\ u[i - 1] = t[j - 1]
      BY <1>2, <3>1
    <3>3. QED
      BY <3>1, <3>2 DEF Spaced
  <2>4. QED
    BY <1>1, <2>0, <2>1, <2>2, <2>3
<1>6. FunctionLastRun(u) = IF t = <<>> THEN FunctionLastRun(s) ELSE t[Len(t)]
  <2>1. CASE t = <<>>
    BY <1>1, <2>1
  <2>2. CASE t # <<>>
    <3>1. Len(t) \in 1 .. Len(t) /\ Len(u) \in 1 .. Len(u)
      BY <1>1, <2>2
    <3>2. u[Len(u)] = t[Len(t)] /\ u # <<>> /\ u[Len(u)] # 0
      BY <1>1, <1>3, <1>2, <3>1 DEF NoneAtZero
    <3>3. QED
      BY <2>2, <3>2 DEF FunctionLastRun, BlockLastRun
  <2>3. QED
    BY <2>1, <2>2
<1>7. QED
  BY <1>3, <1>5, <1>6 DEF u

\* The quotient of a division, as the multiples around the dividend.
LEMMA Quotient ==
    ASSUME NEW a \in Nat, NEW d \in Nat \ {0}
    PROVE  (a \div d) * d <= a /\ a < (a \div d) * d + d
OBVIOUS

\* What the unforced loop adds keeps the runs spaced, and the last run is then
\* less than a period before the end of the range.
LEMMA DueBlocksOnTime ==
    ASSUME NEW s \in Seq(Nat), NEW block \in Nat, ~InThePast(s, block),
           Spaced(s), NoneAtZero(s)
    PROVE  /\ Spaced(s \o DueBlocks(s, block)) /\ NoneAtZero(s \o DueBlocks(s, block))
           /\ FunctionLastRun(s \o DueBlocks(s, block)) + Interval >= block
<1> DEFINE last == FunctionLastRun(s)
           n == (block - last - 1) \div Interval
           t == DueBlocks(s, block)
<1>1. last \in Nat /\ Interval \in Nat \ {0}
  BY LastRunType, IntervalsAssumption
<1>2. block - last - 1 \in Nat
  BY <1>1 DEF InThePast
<1>3. n \in Nat /\ block - last - 1 < n * Interval + Interval
  <2> DEFINE a == block - last - 1
  <2>1. a \in Nat
    BY <1>2
  <2> HIDE DEF a
  <2>2. a \div Interval \in Nat /\ a < (a \div Interval) * Interval + Interval
    BY <1>1, <2>1, DivNat, Quotient
  <2>3. QED
    BY <2>2 DEF a
<1>4. t = [i \in 1 .. n |-> last + i * Interval] /\ t \in Seq(Nat)
  BY DueBlocksType DEF DueBlocks
<1> HIDE DEF last, n, t
<1>5. Len(t) = n /\ \A i \in 1 .. n : t[i] = last + i * Interval
  BY <1>3, <1>4
<1>6. NoneAtZero(t)
  <2> SUFFICES ASSUME NEW i \in 1 .. n
               PROVE  t[i] # 0
    BY <1>5 DEF NoneAtZero
  <2>1. t[i] = last + i * Interval /\ i \in Nat /\ i >= 1
    BY <1>3, <1>5
  <2>2. i * Interval \in Nat /\ i * Interval > 0
    BY <1>1, <2>1
  <2>3. QED
    BY <1>1, <2>1, <2>2
<1>7. Spaced(t)
  <2> SUFFICES ASSUME NEW i \in 2 .. n
               PROVE  t[i] - t[i - 1] \in 1 .. Interval + 1
    BY <1>5 DEF Spaced
  <2>1. i \in Nat /\ i \in 1 .. n /\ i - 1 \in 1 .. n
    BY <1>3
  <2>2. t[i] = last + i * Interval /\ t[i - 1] = last + (i - 1) * Interval
    BY <1>5, <2>1
  <2>3. i * Interval = (i - 1) * Interval + Interval /\ i * Interval \in Nat
        /\ (i - 1) * Interval \in Int
    BY <1>1, <2>1
  <2>4. t[i] - t[i - 1] = Interval
    BY <1>1, <2>2, <2>3
  <2>5. QED
    BY <1>1, <2>4
<1>8. t # <<>> => t[1] - last \in 1 .. Interval + 1
  <2>1. t # <<>> => 1 \in 1 .. n
    BY <1>3, <1>4, <1>5
  <2>2. t # <<>> => t[1] = last + 1 * Interval
    BY <1>5, <2>1
  <2>3. QED
    BY <1>1, <2>2
<1>9. /\ Spaced(s \o t) /\ NoneAtZero(s \o t)
      /\ FunctionLastRun(s \o t) = IF t = <<>> THEN last ELSE t[Len(t)]
  BY <1>4, <1>6, <1>7, <1>8, SpacedConcat DEF last
<1>10. FunctionLastRun(s \o t) = last + n * Interval
  <2>1. CASE n = 0
    BY <1>1, <1>4, <1>5, <1>9, <2>1
  <2>2. CASE n # 0
    <3>1. t # <<>> /\ t[Len(t)] = last + n * Interval
      BY <1>3, <1>4, <1>5, <2>2
    <3>2. QED
      BY <1>9, <3>1
  <2>3. QED
    BY <2>1, <2>2
<1>11. n * Interval \in Nat
  BY <1>1, <1>3
<1>12. last + n * Interval + Interval >= block
  BY <1>1, <1>3, <1>11
<1>13. QED
  BY <1>9, <1>10, <1>12 DEF t

\* A forced run at a block not past last_block keeps the runs spaced and none
\* overdue.
LEMMA ForcedOnTime ==
    ASSUME NEW s \in Seq(Nat), NEW b \in Nat, ~InThePast(s, b),
           Spaced(s), NoneAtZero(s), lastBlock \in Nat, b <= lastBlock,
           FunctionLastRun(s) + Interval >= lastBlock - 1
    PROVE  /\ Spaced(s \o <<b>>) /\ NoneAtZero(s \o <<b>>)
           /\ FunctionLastRun(s \o <<b>>) + Interval >= lastBlock - 1
<1>1. FunctionLastRun(s) \in Nat /\ Interval \in Nat \ {0}
  BY LastRunType, IntervalsAssumption
<1>2. FunctionLastRun(s) < b
  BY <1>1 DEF InThePast
<1>3. b - FunctionLastRun(s) \in 1 .. Interval + 1 /\ b + Interval >= lastBlock - 1 /\ b # 0
  BY <1>1, <1>2
<1>4. <<b>> \in Seq(Nat) /\ Len(<<b>>) = 1 /\ <<b>>[1] = b /\ <<b>> # <<>>
  OBVIOUS
<1>5. Spaced(<<b>>) /\ NoneAtZero(<<b>>)
  BY <1>3, <1>4 DEF Spaced, NoneAtZero
<1>6. /\ Spaced(s \o <<b>>) /\ NoneAtZero(s \o <<b>>)
      /\ FunctionLastRun(s \o <<b>>) = b
  BY <1>3, <1>4, <1>5, SpacedConcat
<1>7. QED
  BY <1>3, <1>6

\* Every step keeps the runs on time.  A commit finds what was due from the last
\* runs, because the lock keeps the operator out, and the other way round.
LEMMA OnTimeStep ==
    ASSUME IInv, OnTimeInv, [Next]_vars
    PROVE  OnTimeInv'
<1>0. /\ runs \in [Func -> Seq(Nat)] /\ lastBlock \in Nat /\ endBlock \in Nat
      /\ \A f \in Func : /\ Spaced(runs[f]) /\ NoneAtZero(runs[f])
                         /\ FunctionLastRun(runs[f]) + Interval >= lastBlock - 1
      /\ ~(pc = "commit" /\ opPc = "asking")
  BY DEF IInv, TypeOK, DatabaseTypeOK, LoopTypeOK, OnTimeInv, IntervalsOnTime, Spaced,
         NoneAtZero, ControlInv, LockInv, TxOpen
<1>1. CASE IndexerMoves
  <2>0. opPc' = opPc /\ opRuns' = opRuns
    BY <1>1 DEF IndexerMoves, forceVars
  <2>1. CASE Commit \/ CommitAckLost
    <3>1. /\ pc = "commit" /\ pc' # "commit" /\ opPc' # "asking"
          /\ lastBlock' = endBlock + 1
          /\ runs' = [f \in Func |-> runs[f] \o tx.runs[f]]
      BY <1>0, <2>0, <2>1 DEF Commit, CommitAckLost, StartBlockAfter, EndRange, ApplyWrites
    <3>2. ASSUME NEW f \in Func
          PROVE  /\ Spaced(runs'[f]) /\ NoneAtZero(runs'[f])
                 /\ FunctionLastRun(runs'[f]) + Interval >= lastBlock' - 1
      <4>1. ~InThePast(runs[f], endBlock) /\ tx.runs[f] = DueBlocks(runs[f], endBlock)
        BY <3>1 DEF OnTimeInv
      <4>2. runs'[f] = runs[f] \o DueBlocks(runs[f], endBlock)
        BY <3>1, <4>1
      <4>3. /\ Spaced(runs'[f]) /\ NoneAtZero(runs'[f])
            /\ FunctionLastRun(runs'[f]) + Interval >= endBlock
        BY <1>0, <4>1, <4>2, DueBlocksOnTime
      <4>4. lastBlock' - 1 = endBlock
        BY <1>0, <3>1
      <4>5. QED
        BY <4>3, <4>4
    <3>3. QED
      BY <3>1, <3>2 DEF OnTimeInv, IntervalsOnTime, Spaced, NoneAtZero
  <2>2. CASE ~(Commit \/ CommitAckLost)
    <3>1. lastBlock' = lastBlock /\ runs' = runs
      BY <1>1, <2>2
         DEF IndexerMoves, LoopNext, LoopStep, Start, ReadHead, AcquireLock, IndexKind,
             FlushFails, PendingRollback, IndexIntervals, IntervalInThePast, CallRaises,
             CommitLost, Crash, Abort, DropWrites, dbVars
    <3>2. pc' = "commit" =>
              \A f \in Func : /\ ~InThePast(runs[f], endBlock')
                              /\ tx'.runs[f] = DueBlocks(runs[f], endBlock')
      <4>1. CASE IndexIntervals
        BY <4>1 DEF IndexIntervals, IInv, TypeOK, LoopTypeOK, WriteSet
      <4>2. CASE ~IndexIntervals
        BY <1>1, <2>2, <4>2
           DEF IndexerMoves, LoopNext, LoopStep, Start, ReadHead, AcquireLock, IndexKind,
               FlushFails, NextKind, PendingRollback, IntervalInThePast, CallRaises,
               CommitLost, Crash, Abort, EndRange
      <4>3. QED
        BY <4>1, <4>2
    <3>3. QED
      BY <2>0, <3>1, <3>2 DEF OnTimeInv, IntervalsOnTime, ForcedBlock
  <2>3. QED
    BY <2>1, <2>2
<1>2. CASE OperatorMoves
  <2>0. pc' = pc /\ tx' = tx /\ endBlock' = endBlock
    BY <1>2 DEF OperatorMoves, loopVars
  <2>1. CASE AnswerYes
    <3>1. /\ opPc = "asking" /\ opPc' # "asking" /\ pc' # "commit" /\ lastBlock' = lastBlock
          /\ runs' = [f \in Func |-> runs[f] \o opRuns[f]]
      BY <1>0, <2>0, <2>1 DEF AnswerYes, ApplyWrites, NoWrites
    <3>2. PICK b \in ForcedBlock :
              \A f \in Func : ~InThePast(runs[f], b) /\ opRuns[f] = <<b>>
      BY <3>1 DEF OnTimeInv, ForcedBlocks
    <3>3. b \in Nat /\ b <= lastBlock
      BY DEF ForcedBlock, Block
    <3>4. ASSUME NEW f \in Func
          PROVE  /\ Spaced(runs'[f]) /\ NoneAtZero(runs'[f])
                 /\ FunctionLastRun(runs'[f]) + Interval >= lastBlock' - 1
      <4>1. runs'[f] = runs[f] \o <<b>>
        BY <3>1, <3>2
      <4>2. QED
        BY <1>0, <3>1, <3>2, <3>3, <4>1, ForcedOnTime
    <3>5. QED
      BY <3>1, <3>4 DEF OnTimeInv, IntervalsOnTime, Spaced, NoneAtZero
  <2>2. CASE ForceIntervals
    <3>1. PICK b \in ForcedBlock :
              /\ \A f \in Func : ~InThePast(runs[f], b)
              /\ opRuns' = [f \in Func |-> ForcedBlocks(b)]
              /\ UNCHANGED <<lastBlock, rows, runs>>
      BY <2>2 DEF ForceIntervals
    <3>2. QED
      BY <2>0, <3>1 DEF OnTimeInv, IntervalsOnTime, ForcedBlock
  <2>3. CASE AnswerNo
    BY <2>0, <2>3 DEF AnswerNo, DropWrites, OnTimeInv, IntervalsOnTime
  <2>4. QED
    BY <1>2, <2>1, <2>2, <2>3 DEF OperatorMoves, ForceNext
<1>3. CASE UNCHANGED <<dbVars, loopVars, forceVars>>
  BY <1>3 DEF dbVars, loopVars, forceVars, OnTimeInv, IntervalsOnTime, ForcedBlock
<1>4. QED
  BY <1>1, <1>2, <1>3 DEF Next, ChainMoves, ClientMoves, vars

\* When database.py was told to start at INDEXER_START_BLOCK, or at most a period
\* after it, every interval function runs at least once a period and a block,
\* never twice at a block, and is never overdue, whatever fails and whoever
\* forces a run (index_intervals, force_interval_run.py).
THEOREM RunsAreOnTime ==
    ASSUME StartBlock <= IndexerStartBlock + Interval
    PROVE  Spec => []IntervalsOnTime
<1>1. Init => OnTimeInv
  <2> SUFFICES ASSUME Init PROVE OnTimeInv
    OBVIOUS
  <2>1. /\ runs = [f \in Func |-> <<>>] /\ lastBlock = StartBlock
        /\ pc = "down" /\ opPc = "idle"
    BY DEF Init, DatabaseInit, LoopInit, ForceInit, NoWrites
  <2>2. StartBlock \in Nat /\ Interval \in Nat /\ IndexerStartBlock \in Nat
    BY DatabaseAssumption, IntervalsAssumption DEF Block
  <2>3. \A f \in Func : Len(runs[f]) = 0 /\ FunctionLastRun(runs[f]) = IndexerStartBlock - 1
    BY <2>1 DEF FunctionLastRun, BlockLastRun
  <2>4. \A f \in Func : FunctionLastRun(runs[f]) + Interval >= lastBlock - 1
    BY <2>1, <2>2, <2>3
  <2>5. QED
    BY <2>1, <2>3, <2>4 DEF OnTimeInv, IntervalsOnTime
<1>2. IInv /\ OnTimeInv /\ [Next]_vars => OnTimeInv'
  BY OnTimeStep
<1>3. OnTimeInv => IntervalsOnTime
  BY DEF OnTimeInv
<1>4. QED
  BY <1>1, <1>2, <1>3, Invariance, PTL DEF Spec
=============================================================================
