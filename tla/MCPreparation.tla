--------------------------- MODULE MCPreparation ---------------------------
(***************************************************************************)
(* Instance of Preparation for TLC.  Terminals, passwords, starts and      *)
(* tenants are interchangeable, and no property is about fairness.         *)
(***************************************************************************)
EXTENDS Preparation, TLC

Symmetry == Permutations(Terminals) \cup Permutations(Secrets)
              \cup Permutations(Starts) \cup Permutations(Tenants)
=============================================================================
