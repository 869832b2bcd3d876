--------------------------- MODULE IndexerSystem ---------------------------
(***************************************************************************)
(* The indexer thread, the operator's script and the view a client waits   *)
(* in, over one database and one chain.                                    *)
(***************************************************************************)
EXTENDS IndexerLoop, ForceRun, WaitForBlock

vars == <<chainVars, dbVars, loopVars, forceVars, waitVars>>

\* Every variable has its type, and the bounded counters stay in their bounds.
TypeOK ==
    /\ ChainTypeOK /\ DatabaseTypeOK
    /\ LoopTypeOK /\ ForceTypeOK /\ WaitTypeOK

Init == ChainInit /\ DatabaseInit /\ LoopInit /\ ForceInit /\ WaitInit

ChainMoves == ChainNext /\ UNCHANGED <<dbVars, loopVars, forceVars, waitVars>>
IndexerMoves == LoopNext /\ UNCHANGED <<chainVars, forceVars, waitVars>>
OperatorMoves == ForceNext /\ UNCHANGED <<chainVars, loopVars, waitVars>>
ClientMoves == WaitNext /\ UNCHANGED <<chainVars, dbVars, loopVars, forceVars>>

Next == ChainMoves \/ IndexerMoves \/ OperatorMoves \/ ClientMoves

Spec == Init /\ [][Next]_vars

\* The running thread goes on; the operator answers; a waiting view polls.
\* Nothing obliges anybody to restart a dead process, to mine, or to ask.
Fairness ==
    /\ WF_vars(LoopStep /\ UNCHANGED <<chainVars, forceVars, waitVars>>)
    /\ WF_vars((AnswerYes \/ AnswerNo) /\ UNCHANGED <<chainVars, loopVars, waitVars>>)
    /\ WF_vars((PollOk \/ PollAgain \/ GiveUp)
               /\ UNCHANGED <<chainVars, dbVars, loopVars, forceVars>>)

FairSpec == Spec /\ Fairness

-----------------------------------------------------------------------------
\* No event is applied twice, whatever fails between the database and the
\* loop's own start_block (indexer.py:673-681).
AtMostOnce == \A kb \in Kind \X Block : Len(rows[kb]) <= 1

\* A block is in the database with the events of all kinds, or not at all:
\* a range is one transaction (indexer.py:656-675).
WholeBlocks ==
    \A b \in Block : (\E k \in Kind : rows[<<k, b>>] # <<>>) => Indexed(b)

\* What was applied is what the chain kept.  This is the point of staying one
\* block behind (indexer.py:618-640), although each kind of event is fetched
\* by a call of its own and the chain moves in between.
OnlyCanonical ==
    \A kb \in Kind \X Block : \A i \in 1 .. Len(rows[kb]) : rows[kb][i] = canon[kb[2]]

\* A client told that a block was processed finds its events
\* (views/chain.py:33-36).
WaitHonest ==
    (waiter = "ok" /\ StartBlock <= waitBlock) => Indexed(waitBlock)

\* From one run of an interval function to the next there is at least one
\* block and at most one period, plus the one block by which last_block is
\* ahead when an operator forces a run there; and no run is overdue, even
\* after blocks were skipped or the process was down (indexer.py:683-717).
IntervalsOnTime ==
    \A f \in Func :
        /\ \A i \in 2 .. Len(runs[f]) :
              runs[f][i] - runs[f][i - 1] \in 1 .. Interval + 1
        /\ FunctionLastRun(runs[f]) + Interval >= lastBlock - 1

\* Every block the chain has left two behind is indexed in the end, unless
\* the process is dead.  One behind is not enough: after a run forced at
\* last_block, the range of that block alone is refused.
EventuallyIndexed ==
    \A b \in Block :
        head >= b + 2 ~> (lastBlock > b \/ pc = "down")

\* The events of a range become visible together, once, and ranges follow one
\* another without a gap as long as no commit fails.
Promise == INSTANCE BlockIndex WITH
    last <- lastBlock,
    applied <- [kb \in Kind \X Block |-> Len(rows[kb])],
    MaySkip <- "commit_lost" \in FaultKinds

ImplementsBlockIndex == Promise!Spec

-----------------------------------------------------------------------------
(* The inductive invariant behind AtMostOnce, WholeBlocks and the          *)
(* refinement.                                                             *)

\* The indexer's transaction is open and not rolled back.
TxOpen == pc \in {"events", "intervals", "commit"} /\ session = "clean"

ControlInv ==
    /\ pc \in {"down", "ready", "locking"} => kind = 1
    /\ pc = "events" => kind <= NumKinds
    /\ pc \in {"intervals", "commit"} => kind = NumKinds + 1
    /\ pc \in {"down", "ready", "locking", "commit"} => session = "clean"

\* The advisory lock is held by who has a transaction open, and by nobody else.
LockInv ==
    /\ lock = "indexer" <=> TxOpen
    /\ lock = "operator" <=> opPc = "asking"

\* start_block is never behind the database, and not ahead of it unless a
\* commit was lost; a range is not empty and ends below the head.
RangeInv ==
    /\ StartBlock <= lastBlock
    /\ pc # "down" => lastBlock <= startBlock
    /\ pc # "down" /\ "commit_lost" \notin FaultKinds => startBlock = lastBlock
    /\ pc \in {"locking", "events", "intervals", "commit"} =>
          startBlock <= endBlock /\ endBlock \in Block

\* The open transaction holds each event of the kinds passed so far once.
TxInv ==
    \A kb \in Kind \X Block :
        Len(tx.rows[kb]) = IF TxOpen /\ kb[1] < kind /\ InRange(kb[2]) THEN 1 ELSE 0

\* From last_block on nothing is in the database; below, each block is there
\* with the events of all kinds once, or with none.
RowsInv ==
    /\ \A kb \in Kind \X Block : lastBlock <= kb[2] => Len(rows[kb]) = 0
    /\ AtMostOnce
    /\ \A k, l \in Kind, b \in Block : Len(rows[<<k, b>>]) = Len(rows[<<l, b>>])

\* For WaitHonest, when no commit is lost: no gap below last_block, and the
\* client was not answered early.
WaitInv ==
    /\ \A kb \in Kind \X Block :
          StartBlock <= kb[2] /\ kb[2] < lastBlock => Len(rows[kb]) = 1
    /\ waiter = "ok" => waitBlock < lastBlock

\* For OnlyCanonical, when no reorg is deeper than one block: what was read is
\* below the head, out of the reach of a reorg, in the transaction and after.
CanonInv ==
    /\ pc \in {"locking", "events", "intervals", "commit"} => endBlock < head
    /\ \A kb \in Kind \X Block :
          /\ Len(rows[kb]) > 0 => kb[2] < head
          /\ \A i \in 1 .. Len(rows[kb]) : rows[kb][i] = canon[kb[2]]
          /\ \A i \in 1 .. Len(tx.rows[kb]) : tx.rows[kb][i] = canon[kb[2]]

\* For IntervalsOnTime: besides, no run is at block 0, which would be read as no
\* run, and an open transaction runs each function at what is due from its
\* last run, or all of them at one later block that is not past last_block.
OnTimeInv ==
    /\ IntervalsOnTime
    /\ \A f \in Func : \A i \in 1 .. Len(runs[f]) : runs[f][i] # 0
    /\ pc = "commit" =>
          \A f \in Func : /\ ~InThePast(runs[f], endBlock)
                           /\ tx.runs[f] = DueBlocks(runs[f], endBlock)
    /\ opPc = "asking" =>
          \E b \in ForcedBlock :
              \A f \in Func : ~InThePast(runs[f], b) /\ opRuns[f] = ForcedBlocks(b)

IInv == TypeOK /\ ControlInv /\ LockInv /\ RangeInv /\ TxInv /\ RowsInv
=============================================================================
