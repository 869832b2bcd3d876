---------------------------- MODULE MCDependents ----------------------------
(***************************************************************************)
(* Dependents for TLC.                                                     *)
(***************************************************************************)
EXTENDS Dependents
=============================================================================
