--------------------------- MODULE DeliveryPromise ---------------------------
(***************************************************************************)
(* What the outbox promises about one message per delivery, without        *)
(* workers, leases, attempts or time: a message is transmitted at most     *)
(* once, and the outcome the outbox reports is the truth or is "doubtful". *)
(***************************************************************************)
CONSTANTS
    Deliveries,     \* delivery identities
    Attempts        \* what distinguishes two transmissions of one message

VARIABLES
    outcome,        \* per delivery, what the outbox reports
    transmitted     \* per delivery, the transmissions that reached the provider

promiseVars == <<outcome, transmitted>>

Init ==
    /\ outcome = [d \in Deliveries |-> "open"]
    /\ transmitted = [d \in Deliveries |-> {}]

\* A message is transmitted once, before its outcome is reported or after the
\* outcome has been given up as doubtful.
Transmit(d, a) ==
    /\ outcome[d] \in {"open", "doubtful"}
    /\ transmitted[d] = {}
    /\ transmitted' = [transmitted EXCEPT ![d] = {a}]
    /\ UNCHANGED outcome

ReportDelivered(d) ==
    /\ outcome[d] = "open"
    /\ transmitted[d] # {}
    /\ outcome' = [outcome EXCEPT ![d] = "delivered"]
    /\ UNCHANGED transmitted

ReportFailed(d) ==
    /\ outcome[d] = "open"
    /\ transmitted[d] = {}
    /\ outcome' = [outcome EXCEPT ![d] = "failed"]
    /\ UNCHANGED transmitted

\* Several deliveries may be given up together by one recovery.
ReportDoubtful(D) ==
    /\ \A d \in D : outcome[d] = "open"
    /\ outcome' = [d \in Deliveries |-> IF d \in D THEN "doubtful" ELSE outcome[d]]
    /\ UNCHANGED transmitted

Next ==
    \/ \E d \in Deliveries, a \in Attempts : Transmit(d, a)
    \/ \E d \in Deliveries : ReportDelivered(d)
    \/ \E d \in Deliveries : ReportFailed(d)
    \/ \E D \in SUBSET Deliveries : ReportDoubtful(D)

Spec == Init /\ [][Next]_promiseVars
=============================================================================
