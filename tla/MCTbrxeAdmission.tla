-------------------------- MODULE MCTbrxeAdmission --------------------------
(***************************************************************************)
(* TbrxeAdmission for TLC.                                                 *)
(***************************************************************************)
EXTENDS TbrxeAdmission

QpSymmetry == Permutations(Qps)
=============================================================================
