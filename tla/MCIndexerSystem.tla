-------------------------- MODULE MCIndexerSystem --------------------------
(***************************************************************************)
(* IndexerSystem for TLC.                                                  *)
(***************************************************************************)
EXTENDS IndexerSystem

\* An event of the second kind in block 4 violates a constraint.
PoisonAtFour == {<<2, 4>>}
=============================================================================
