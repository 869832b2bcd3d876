---------------------------- MODULE MCStatsPages ----------------------------
(***************************************************************************)
(* StatsPages for TLC.                                                     *)
(***************************************************************************)
EXTENDS StatsPages

\* A gain, then a loss.
Worth == [b \in Block |-> <<2, 4, 3, 5>>[b]]

Locked == [b \in Block |-> 1 + (b % 2)]

\* One protocol is added while the other is covered, which then leaves.
Spreadsheet == <<"p", "q">>
Insured == [b \in Block |-> IF b < 2 THEN {"p"} ELSE IF b < 3 THEN {"p", "q"} ELSE {"q"}]

\* Strategies are emptied at block 2.
Invested == [b \in Block |-> IF b = 2 THEN 0 ELSE b]

\* Nothing, and too much with a part that is an incentive.
Premiums == {[stakers |-> 0, incentives |-> 0], [stakers |-> 9, incentives |-> 2]}
=============================================================================
