---------------------------- MODULE IndexerLoop ----------------------------
(***************************************************************************)
(* Indexer.start of indexer.py: the loop that takes the next range of      *)
(* blocks, applies the events of the range and the interval functions that *)
(* are due in one database transaction, and moves indexer_state.last_block *)
(* past the range.  One action per step another party can come between: a  *)
(* remote call (the chain may move), the wait for the advisory lock (an    *)
(* operator may hold it), the commit (readers see it).                     *)
(*                                                                         *)
(* Each event class is one step, because get_event_logs_in_range asks the  *)
(* events cache once for each.  The cache is taken to answer with the      *)
(* chain as it is.  Every block is taken to hold one event of each kind.   *)
(***************************************************************************)
EXTENDS Database, Intervals

CONSTANTS
    ChunkSize,      \* the 100_000 of start: a range has at most ChunkSize + 1 blocks
    Poison,         \* the <<kind, block>> whose event violates a constraint
    FaultKinds,     \* the faults that may happen
    MaxFaults       \* bound: how many of them do

ASSUME IndexerLoopAssumption ==
    /\ ChunkSize \in Nat \ {0}
    /\ Poison \subseteq Kind \X Block
    /\ FaultKinds \subseteq {"crash", "raise", "commit_lost", "commit_ack_lost"}
    /\ MaxFaults \in Nat

VARIABLES
    pc,             \* where the thread is; "down" when there is none
    startBlock,     \* start_block, a local variable: lost in a crash
    endBlock,       \* end_block
    kind,           \* the event class index_events fetches next
    session,        \* "failed" after a flush raised: every later use raises
    tx,             \* the writes of the open transaction
    faults          \* how many faults there have been

loopVars == <<pc, startBlock, endBlock, kind, session, tx, faults>>

LoopTypeOK ==
    /\ pc \in {"down", "ready", "locking", "events", "intervals", "commit"}
    /\ startBlock \in Nat /\ endBlock \in Nat
    /\ kind \in 1 .. NumKinds + 1
    /\ session \in {"clean", "failed"}
    /\ tx \in WriteSet
    /\ faults \in 0..MaxFaults

LoopInit ==
    /\ pc = "down"
    /\ startBlock = 0 /\ endBlock = 0
    /\ kind = 1
    /\ session = "clean"
    /\ tx = NoWrites
    /\ faults = 0

InRange(b) == startBlock <= b /\ b <= endBlock

\* Mutant: the position in self.events survives the range.
CloseSession_KeepsKind == session' = "clean" /\ tx' = NoWrites /\ UNCHANGED kind

\* The session is closed, or was never used: nothing is left of it.
CloseSession == kind' = 1 /\ session' = "clean" /\ tx' = NoWrites

\* Mutant: the finally clause does not close the session.
UnlockIndexer_Forgotten == UNCHANGED lock

\* s.close(), or the death of the process, ends the indexer's transaction.
UnlockIndexer == lock' = IF lock = "indexer" THEN "free" ELSE lock

Fault(f) ==
    /\ f \in FaultKinds
    /\ faults < MaxFaults
    /\ faults' = faults + 1

-----------------------------------------------------------------------------
\* The process starts: start_block comes from the database, once.
Start ==
    /\ pc = "down"
    /\ pc' = "ready"
    /\ startBlock' = lastBlock
    /\ UNCHANGED <<endBlock, kind, session, tx, faults, dbVars>>

\* Mutant: the range ends at the newest block.
EndOfRange_AtHead ==
    IF startBlock + ChunkSize >= head THEN head ELSE startBlock + ChunkSize

\* The head of the range is one block behind the chain, and at most ChunkSize
\* after its start.
EndOfRange ==
    IF startBlock + ChunkSize >= head - 1 THEN head - 1 ELSE startBlock + ChunkSize

\* current_block is read and the range fixed; when the first block of the
\* range is not yet mined the thread sleeps and asks again.
ReadHead ==
    /\ pc = "ready"
    /\ startBlock <= EndOfRange
    /\ endBlock' = EndOfRange
    /\ pc' = "locking"
    /\ UNCHANGED <<startBlock, kind, session, tx, faults, dbVars>>

\* Mutant: the transaction starts without the lock.
AcquireLock_Forgotten ==
    /\ pc = "locking"
    /\ pc' = "events"
    /\ UNCHANGED <<startBlock, endBlock, kind, session, tx, faults, dbVars>>

\* select pg_advisory_xact_lock(1): waits until nobody holds the lock.
AcquireLock ==
    /\ pc = "locking"
    /\ lock = "free"
    /\ lock' = "indexer"
    /\ pc' = "events"
    /\ UNCHANGED <<startBlock, endBlock, kind, session, tx, faults, lastBlock, rows, runs>>

\* The loop over self.events goes on to the next class, or ends.
NextKind ==
    /\ kind' = kind + 1
    /\ pc' = IF kind = NumKinds THEN "intervals" ELSE "events"

\* Mutant: each event class is committed on its own.
IndexKind_Commits ==
    /\ pc = "events" /\ session = "clean"
    /\ rows' = [kb \in Kind \X Block |->
                 IF kb[1] = kind /\ InRange(kb[2])
                 THEN Append(rows[kb], canon[kb[2]]) ELSE rows[kb]]
    /\ NextKind
    /\ UNCHANGED <<startBlock, endBlock, session, tx, faults, lastBlock, runs, lock>>

\* One event class: its entries in the range, as the chain has them now, are
\* handed to the handler one after the other.
IndexKind ==
    /\ pc = "events" /\ session = "clean"
    /\ \A b \in Block : InRange(b) => <<kind, b>> \notin Poison
    /\ tx' = [tx EXCEPT !.rows = [kb \in Kind \X Block |->
                 IF kb[1] = kind /\ InRange(kb[2])
                 THEN Append(tx.rows[kb], canon[kb[2]]) ELSE tx.rows[kb]]]
    /\ NextKind
    /\ UNCHANGED <<startBlock, endBlock, session, faults, dbVars>>

\* Mutant: the failed event is skipped and the transaction goes on.
FlushFails_Skips ==
    /\ pc = "events" /\ session = "clean"
    /\ \E b \in Block : InRange(b) /\ <<kind, b>> \in Poison
    /\ NextKind
    /\ UNCHANGED <<startBlock, endBlock, session, tx, faults, dbVars>>

\* A handler's flush raises IntegrityError.  The flush has rolled the
\* transaction back, lock included; index_events logs and continues, with a
\* session that refuses every later statement.  A row that no later query of
\* its class flushes is flushed by the next class or by index_intervals, before
\* the commit, and the range is given up all the same.
FlushFails ==
    /\ pc = "events" /\ session = "clean"
    /\ \E b \in Block : InRange(b) /\ <<kind, b>> \in Poison
    /\ session' = "failed"
    /\ tx' = NoWrites
    /\ lock' = "free"
    /\ NextKind
    /\ UNCHANGED <<startBlock, endBlock, faults, lastBlock, rows, runs>>

\* The except clause of start: log, close the session, take the same range again.
Abort ==
    /\ pc' = "ready"
    /\ CloseSession
    /\ UnlockIndexer
    /\ UNCHANGED <<startBlock, endBlock, lastBlock, rows, runs>>

\* The first statement after a failed flush raises PendingRollbackError.
PendingRollback ==
    /\ pc \in {"events", "intervals"} /\ session = "failed"
    /\ Abort
    /\ UNCHANGED faults

\* A call to the node, the database or an API raises, its retries exhausted.
CallRaises ==
    /\ pc \in {"events", "intervals"}
    /\ Fault("raise")
    /\ Abort

\* index_intervals: every function runs at the blocks that are due for it.  None
\* meets an IntegrityError, see Intervals.
IndexIntervals ==
    /\ pc = "intervals" /\ session = "clean"
    /\ \A f \in Func : ~InThePast(runs[f], endBlock)
    /\ tx' = [tx EXCEPT !.runs = [f \in Func |-> DueBlocks(runs[f], endBlock)]]
    /\ pc' = "commit"
    /\ UNCHANGED <<startBlock, endBlock, kind, session, faults, dbVars>>

\* index_intervals raises RuntimeError.
IntervalInThePast ==
    /\ pc = "intervals" /\ session = "clean"
    /\ \E f \in Func : InThePast(runs[f], endBlock)
    /\ Abort
    /\ UNCHANGED faults

\* Mutant: the next range starts with the last block of this one.
StartBlockAfter_SameBlock == endBlock

\* start_block is moved past the range before the commit is tried.
StartBlockAfter == endBlock + 1

EndRange ==
    /\ pc' = "ready"
    /\ startBlock' = StartBlockAfter
    /\ CloseSession
    /\ UNCHANGED endBlock

Commit ==
    /\ pc = "commit"
    /\ lastBlock' = StartBlockAfter
    /\ ApplyWrites(tx)
    /\ EndRange
    /\ UNCHANGED faults

\* The database did not commit: the exception is caught like any other.
CommitLost ==
    /\ pc = "commit"
    /\ Fault("commit_lost")
    /\ DropWrites
    /\ EndRange

\* Mutant: start_block is moved after the commit, which raised.
CommitAckLost_StartBlockLate ==
    /\ pc = "commit"
    /\ Fault("commit_ack_lost")
    /\ lastBlock' = StartBlockAfter
    /\ ApplyWrites(tx)
    /\ pc' = "ready"
    /\ CloseSession
    /\ UNCHANGED <<startBlock, endBlock>>

\* The database committed, but the answer did not come: again an exception.
CommitAckLost ==
    /\ pc = "commit"
    /\ Fault("commit_ack_lost")
    /\ lastBlock' = StartBlockAfter
    /\ ApplyWrites(tx)
    /\ EndRange

\* The process dies; PostgreSQL rolls its transaction back.
Crash ==
    /\ pc # "down"
    /\ Fault("crash")
    /\ pc' = "down"
    /\ startBlock' = 0 /\ endBlock' = 0
    /\ CloseSession
    /\ UnlockIndexer
    /\ UNCHANGED <<lastBlock, rows, runs>>

\* What the running thread does.
LoopStep ==
    \/ ReadHead \/ AcquireLock \/ IndexKind \/ FlushFails \/ PendingRollback
    \/ IndexIntervals \/ IntervalInThePast \/ Commit

LoopNext ==
    \/ Start \/ LoopStep
    \/ CallRaises \/ CommitLost \/ CommitAckLost \/ Crash
=============================================================================
