------------------------------ MODULE MCOutbox ------------------------------
(***************************************************************************)
(* The instance of Outbox for TLC.  Liveness is checked, so there is no    *)
(* symmetry.                                                               *)
(***************************************************************************)
EXTENDS Outbox, TLC
=============================================================================
