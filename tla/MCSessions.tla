----------------------------- MODULE MCSessions -----------------------------
(***************************************************************************)
(* Instances of Sessions for TLC: two permissions under one approval id,   *)
(* which differ in a role.                                                 *)
(***************************************************************************)
EXTENDS Sessions, TLC

CONSTANTS u1, p1, p2

OneApproval == [p \in Permissions |-> "approval"]
Listed == [p \in Permissions |-> {<<u, IF p = p1 THEN "viewer" ELSE "admin">> : u \in Users}]

Symmetry == Permutations(Logins) \cup Permutations(Challenges)
=============================================================================
