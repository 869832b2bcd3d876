----------------------------- MODULE BlockIndex -----------------------------
(***************************************************************************)
(* What the indexer promises, without threads, transactions or faults: the *)
(* events of all kinds of a range of blocks are applied together, once,    *)
(* and the next range starts where the last one ended.  MaySkip weakens    *)
(* the promise to what is left when a commit can fail: the next range may  *)
(* start later, and the blocks between are never applied.                  *)
(***************************************************************************)
EXTENDS Integers

CONSTANTS Kind, Block, StartBlock, MaySkip

VARIABLES
    last,       \* the first block of the next range
    applied     \* applied[k, b]: how often the events of kind k at b were applied

vars == <<last, applied>>

Init ==
    /\ last = StartBlock
    /\ applied = [kb \in Kind \X Block |-> 0]

\* The blocks from first to end are applied.
Advance(first, end) ==
    /\ last <= first /\ first <= end
    /\ first = last \/ MaySkip
    /\ applied' = [kb \in Kind \X Block |->
           IF first <= kb[2] /\ kb[2] <= end THEN applied[kb] + 1 ELSE applied[kb]]
    /\ last' = end + 1

Next == \E first, end \in Block : Advance(first, end)

Spec == Init /\ [][Next]_vars
=============================================================================
