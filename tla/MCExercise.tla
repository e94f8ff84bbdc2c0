----------------------------- MODULE MCExercise -----------------------------
(***************************************************************************)
(* Instances of Exercise for TLC.  The runs are not interchangeable for a  *)
(* liveness property, so there is no symmetry.                             *)
(***************************************************************************)
EXTENDS Exercise, TLC
=============================================================================
