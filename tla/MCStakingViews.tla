--------------------------- MODULE MCStakingViews ---------------------------
(***************************************************************************)
(* StakingViews for TLC.                                                   *)
(***************************************************************************)
EXTENDS StakingViews

\* Every pair of blocks has a growth of its own, so that wrong factors show.
GrowingPrice == [b \in Block |-> 2 * b * b + b]

Symmetry == Permutations(Id) \cup Permutations(Owner)
=============================================================================
