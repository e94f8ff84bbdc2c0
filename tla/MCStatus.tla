------------------------------ MODULE MCStatus ------------------------------
(***************************************************************************)
(* Instance of Status for TLC.  The runs are interchangeable, and no       *)
(* property of this instance is about fairness.                            *)
(***************************************************************************)
EXTENDS Status, TLC

Symmetry == Permutations(Runners)
=============================================================================
