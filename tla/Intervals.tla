----------------------------- MODULE Intervals -----------------------------
(***************************************************************************)
(* The arithmetic of Indexer.index_intervals: which blocks an interval     *)
(* function is run at.  All functions share one period,                    *)
(* settings.INDEXER_STATS_BLOCKS_PER_CALL.                                 *)
(*                                                                         *)
(* The except branch for an IntegrityError of a function (indexer.py:      *)
(* 707-714) is left out, since it is never taken.  The tables the          *)
(* functions insert into have no constraint but a generated primary key    *)
(* and columns that are always given a value, and what the events of the   *)
(* range wrote was flushed before, by the query of interval_functions.     *)
(***************************************************************************)
EXTENDS Integers, Sequences

CONSTANTS
    Interval,           \* INDEXER_STATS_BLOCKS_PER_CALL
    IndexerStartBlock   \* INDEXER_START_BLOCK

ASSUME IntervalsAssumption ==
    Interval \in Nat \ {0} /\ IndexerStartBlock \in Nat \ {0}

\* IntervalFunction.block_last_run after the executions in s: 0 for a new row.
BlockLastRun(s) == IF s = <<>> THEN 0 ELSE s[Len(s)]

\* block_last_run or settings.INDEXER_START_BLOCK - 1
FunctionLastRun(s) ==
    IF BlockLastRun(s) = 0 THEN IndexerStartBlock - 1 ELSE BlockLastRun(s)

\* The condition of RuntimeError("Can not run interval function in the past").
InThePast(s, block) == block <= FunctionLastRun(s)

\* The blocks a run of the unforced loop visits, in its order: one every
\* Interval blocks after the last, strictly below block.  None when it is
\* too soon.
DueBlocks(s, block) ==
    LET last == FunctionLastRun(s)
    IN  [i \in 1 .. (block - last - 1) \div Interval |-> last + i * Interval]

\* A forced run visits the given block, once.
ForcedBlocks(block) == <<block>>
=============================================================================
