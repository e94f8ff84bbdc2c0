------------------------------ MODULE MCLedger ------------------------------
(***************************************************************************)
(* Two approvals of the model, as when one replaces the other.  Buckets    *)
(* sort by day: an approval began before the days.                         *)
(***************************************************************************)
EXTENDS Ledger, TLC
CONSTANTS m1, m2
Kind == [a \in Approvals |-> "model"]
Scope == [requests |-> 2, tokens |-> 4]
Daily == [requests |-> 2, tokens |-> 5]
Urgent == [requests |-> 1, tokens |-> 2]
ByDay == [b \in Buckets |->
    (IF b[2] = "requests" THEN 0 ELSE 1)
    + (CASE b[1] = m1 -> 0 [] b[1] = m2 -> 2 [] OTHER -> 10 * b[1][1])]
=============================================================================
