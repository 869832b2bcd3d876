------------------------------ MODULE Database ------------------------------
(***************************************************************************)
(* The committed content of the PostgreSQL database, reduced to what tells *)
(* correct from incorrect indexing: the row of indexer_state, what each    *)
(* event handler stored for each block, at which blocks each interval      *)
(* function ran (interval_functions.block_last_run is the last of these),  *)
(* and the holder of the advisory lock 1.                                  *)
(***************************************************************************)
EXTENDS Chain, Sequences

CONSTANTS
    NumKinds,       \* event classes in Indexer.events
    NumFuncs,       \* interval functions in Indexer.intervals
    StartBlock      \* the argument of database.py

ASSUME DatabaseAssumption ==
    /\ NumKinds \in Nat \ {0} /\ NumFuncs \in Nat \ {0}
    /\ StartBlock \in Block

\* An event class is its position in the dictionary: index_events follows it.
Kind == 1..NumKinds
Func == 1..NumFuncs

VARIABLES
    lastBlock,      \* indexer_state.last_block
    rows,           \* rows[<<k, b>>]: the blocks at height b whose events of kind k
                    \*   were applied, once for each time they were
    runs,           \* runs[f]: the blocks f was run at
    lock            \* who holds pg_advisory_xact_lock(1)

dbVars == <<lastBlock, rows, runs, lock>>

\* What a transaction has written and not yet committed.
WriteSet == [rows : [Kind \X Block -> Seq(Nat)], runs : [Func -> Seq(Nat)]]

NoWrites == [rows |-> [kb \in Kind \X Block |-> <<>>],
             runs |-> [f \in Func |-> <<>>]]

DatabaseTypeOK ==
    /\ lastBlock \in Nat
    /\ rows \in [Kind \X Block -> Seq(Nat)]
    /\ runs \in [Func -> Seq(Nat)]
    /\ lock \in {"free", "indexer", "operator"}

\* database.py: run(start_block)
DatabaseInit ==
    /\ lastBlock = StartBlock
    /\ rows = NoWrites.rows
    /\ runs = NoWrites.runs
    /\ lock = "free"

\* COMMIT: the writes become visible and the transaction's lock is released.
ApplyWrites(w) ==
    /\ rows' = [kb \in Kind \X Block |-> rows[kb] \o w.rows[kb]]
    /\ runs' = [f \in Func |-> runs[f] \o w.runs[f]]
    /\ lock' = "free"

\* ROLLBACK, or the connection is gone.
DropWrites ==
    /\ lock' = "free"
    /\ UNCHANGED <<lastBlock, rows, runs>>

\* Block b is indexed: all of its events of every kind are in the database.
Indexed(b) == \A k \in Kind : rows[<<k, b>>] # <<>>
=============================================================================
