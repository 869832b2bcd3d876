---------------------------- MODULE WaitForBlock ----------------------------
(***************************************************************************)
(* views/chain.py: a client asks GET /wait-for-block?block=b; the view     *)
(* reads indexer_state.last_block once a second until it has passed b or   *)
(* the tries are used up.                                                  *)
(***************************************************************************)
EXTENDS Database

CONSTANT MaxTries       \* max_tries, 60

ASSUME WaitAssumption == MaxTries \in Nat \ {0}

VARIABLES
    waiter,     \* "idle", "waiting", or the answer: "ok", "timeout"
    waitBlock,  \* the block asked for
    tryCount    \* try_count

waitVars == <<waiter, waitBlock, tryCount>>

WaitTypeOK ==
    /\ waiter \in {"idle", "waiting", "ok", "timeout"}
    /\ waitBlock \in Block
    /\ tryCount \in 0..MaxTries

WaitInit == waiter = "idle" /\ waitBlock = 1 /\ tryCount = 0

\* A client asks, for the first time or again.
Request(b) ==
    /\ waiter # "waiting"
    /\ waiter' = "waiting"
    /\ waitBlock' = b
    /\ tryCount' = 0

\* Mutant: last_block taken for the last block indexed.
Processed_Inclusive(b) == lastBlock >= b

\* last_indexer_block > block
Processed(b) == lastBlock > b

PollOk ==
    /\ waiter = "waiting"
    /\ tryCount < MaxTries
    /\ Processed(waitBlock)
    /\ waiter' = "ok"
    /\ UNCHANGED <<waitBlock, tryCount>>

PollAgain ==
    /\ waiter = "waiting"
    /\ tryCount < MaxTries
    /\ ~Processed(waitBlock)
    /\ tryCount' = tryCount + 1
    /\ UNCHANGED <<waiter, waitBlock>>

GiveUp ==
    /\ waiter = "waiting"
    /\ tryCount = MaxTries
    /\ waiter' = "timeout"
    /\ UNCHANGED <<waitBlock, tryCount>>

WaitNext == (\E b \in Block : Request(b)) \/ PollOk \/ PollAgain \/ GiveUp
=============================================================================
