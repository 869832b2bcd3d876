------------------------- MODULE MCProtocolRegistry -------------------------
(***************************************************************************)
(* ProtocolRegistry for TLC.                                               *)
(***************************************************************************)
EXTENDS ProtocolRegistry, TLC

Symmetry == Permutations(Agent) \cup Permutations(Protocol)
=============================================================================
