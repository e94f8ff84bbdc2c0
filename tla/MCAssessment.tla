---------------------------- MODULE MCAssessment ----------------------------
(* x is revised once, y never; both belong to one event. *)
EXTENDS Assessment
CONSTANTS x, y
Revised == [i \in Ids |-> IF i = x THEN 2 ELSE 1]
OneFamily == [i \in Ids |-> CHOOSE f \in Families : TRUE]
=============================================================================
