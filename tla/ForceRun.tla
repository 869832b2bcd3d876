------------------------------ MODULE ForceRun ------------------------------
(***************************************************************************)
(* force_interval_run.py: an operator runs every interval function once at *)
(* a block of choice, inspects the output, and commits or rolls back.  The *)
(* script holds the advisory lock while it waits for the answer.           *)
(***************************************************************************)
EXTENDS Database, Intervals

CONSTANT MaxForced      \* bound: how often the script is started

ASSUME ForceRunAssumption == MaxForced \in Nat

VARIABLES
    opPc,       \* "idle", or "asking" (y/n) with the transaction open
    opRuns,     \* what the open transaction adds to runs
    forced      \* how often the script was started

forceVars == <<opPc, opRuns, forced>>

ForceTypeOK ==
    /\ opPc \in {"idle", "asking"}
    /\ opRuns \in [Func -> Seq(Nat)]
    /\ forced \in 0..MaxForced

ForceInit == opPc = "idle" /\ opRuns = NoWrites.runs /\ forced = 0

\* args.block if args.block else indx.last_block, under the assertion
\* block <= indx.last_block.
ForcedBlock == {b \in Block : b <= lastBlock}

\* The script runs up to its question.  A block in the past raises and
\* leaves nothing behind.
ForceIntervals ==
    \E b \in ForcedBlock :
        /\ opPc = "idle" /\ lock = "free"
        /\ forced < MaxForced
        /\ \A f \in Func : ~InThePast(runs[f], b)
        /\ lock' = "operator"
        /\ opPc' = "asking"
        /\ opRuns' = [f \in Func |-> ForcedBlocks(b)]
        /\ forced' = forced + 1
        /\ UNCHANGED <<lastBlock, rows, runs>>

\* "y": commit.
AnswerYes ==
    /\ opPc = "asking"
    /\ opPc' = "idle"
    /\ ApplyWrites([NoWrites EXCEPT !.runs = opRuns])
    /\ opRuns' = NoWrites.runs
    /\ UNCHANGED <<forced, lastBlock>>

\* "n", an exception or an interrupt: roll back.
AnswerNo ==
    /\ opPc = "asking"
    /\ opPc' = "idle"
    /\ opRuns' = NoWrites.runs
    /\ DropWrites
    /\ UNCHANGED forced

ForceNext == ForceIntervals \/ AnswerYes \/ AnswerNo
=============================================================================
