------------------------------ MODULE MCStats ------------------------------
(***************************************************************************)
(* Stats for TLC.                                                          *)
(***************************************************************************)
EXTENDS Stats

\* Slow growth, then fast, then a loss, then a recovery.
Worth == [b \in Block |-> <<2, 3, 3, 4, 6, 9, 5, 7, 8>>[b]]

Locked == [b \in Block |-> 1 + (b % 2)]

\* One protocol is added while the other is covered, which then leaves.
Spreadsheet == <<"p", "q">>
Insured == [b \in Block |-> IF b < 3 THEN {"p"} ELSE IF b < 7 THEN {"p", "q"} ELSE {"q"}]

\* Strategies are emptied at block 4.
Invested == [b \in Block |-> IF b \in {4, 5} THEN 0 ELSE b]

\* Nothing, and too much with a part that is an incentive.
Premiums == {[stakers |-> 0, incentives |-> 0], [stakers |-> 9, incentives |-> 2]}
=============================================================================
