------------------------------ MODULE Requests ------------------------------
(***************************************************************************)
(* Sending under an approval that counts every request to the provider, as *)
(* the C1 exercise and the personal status notices do (storage/c1.py,      *)
(* storage/status.py): a request is reserved in the ledger, within the     *)
(* approval's limits, before it is made, and what came of it is observed   *)
(* after.  The token is a request of its own, kept for the process's life; *)
(* so are the two requests of the lookup of the tenant.                    *)
(*                                                                         *)
(* A worker's delivery is a row of the outbox and goes through module      *)
(* Outbox.  Whether a delivery is still authorized is the caller's to say. *)
(***************************************************************************)
EXTENDS Naturals, FiniteSets

CONSTANTS
    Deliveries,     \* the messages of the approval
    Workers,        \* processes that send them
    MaxAttempts,    \* max_send_attempts of the approval
    MaxRequests,    \* max_requests of the approval
    None            \* no delivery

VARIABLES
    rows, pc, claim, token, result, arrived, sendable,  \* of Outbox
    calls,      \* provider_calls: the requests reserved, with what was observed
    cached      \* the processes that hold a token

OB == INSTANCE Outbox

outbox == <<rows, pc, claim, token, result, arrived, sendable>>

-----------------------------------------------------------------------------
\* A request is made for one attempt of one delivery, or for a lookup, which is
\* counted here and belongs to no delivery.
Request == {"tenant_token", "tenant_query", "message_send"}
               \X (Deliveries \cup {None}) \X (1..3)

Phases == {"reserved", "started", "responded", "transport_failure"}

TypeOK ==
    /\ OB!TypeOK
    /\ DOMAIN calls \subseteq Request
    /\ \A q \in DOMAIN calls : calls[q] \in Phases
    /\ cached \subseteq Workers

Init == OB!Init /\ calls = << >> /\ cached = {}

Made == DOMAIN calls
Sends == {q \in Made : q[1] = "message_send"}

\* The request of a worker's current attempt.
Own(w, operation) == <<operation, claim[w], token[w]>>

PhaseOf(q) == IF q \in Made THEN calls[q] ELSE "none"

Observe(q, phase) ==
    calls' = [p \in Made \cup {q} |-> IF p = q THEN phase ELSE calls[p]]

\* reserve_provider_call, within the approval's requests of every kind.
Charge(q) ==
    /\ Cardinality(Made) < MaxRequests
    /\ Observe(q, "reserved")

\* Where in the sending of a message each request is reserved and made.
MadeAt == [tenant_token |-> "admitted", message_send |-> "cleared"]

\* A slip: the live authorization is not read again.
ReserveUnchecked(w, operation, live) ==
    /\ pc[w] = MadeAt[operation]
    /\ Own(w, operation) \notin Made
    /\ OB!OwnsLease(w)
    /\ operation = "message_send" => Cardinality(Sends) < MaxAttempts
    /\ Charge(Own(w, operation))
    /\ UNCHANGED <<outbox, cached>>

\* A slip: each message has its own allowance.
ReservePerMessage(w, operation, live) ==
    /\ pc[w] = MadeAt[operation]
    /\ Own(w, operation) \notin Made
    /\ OB!OwnsLease(w)
    /\ live
    /\ operation = "message_send" =>
         Cardinality({q \in Sends : q[2] = claim[w]}) < MaxAttempts
    /\ Charge(Own(w, operation))
    /\ UNCHANGED <<outbox, cached>>

\* reserve_c1_request, reserve_status_request: under the lease, with the live
\* authorization read again in the same transaction, and within both allowances.
Reserve(w, operation, live) ==
    /\ pc[w] = MadeAt[operation]
    /\ Own(w, operation) \notin Made
    /\ OB!OwnsLease(w)
    /\ live
    /\ operation = "message_send" => Cardinality(Sends) < MaxAttempts
    /\ Charge(Own(w, operation))
    /\ UNCHANGED <<outbox, cached>>

\* send_pending and the channel check the authorization as for any delivery.
\* The ledger is charged by the request, not by the delivery.
CheckAuthorization(w, live) ==
    /\ \/ live /\ OB!Authorize(w)
       \/ ~(live /\ OB!LeaseLive(claim[w])) /\ OB!AuthorizationRefused(w)
       \/ OB!Reserve(w)
    /\ UNCHANGED <<calls, cached>>

RequestToken(w) ==
    /\ pc[w] = "admitted"
    /\ PhaseOf(Own(w, "tenant_token")) = "reserved"
    /\ Observe(Own(w, "tenant_token"), "started")
    /\ UNCHANGED <<outbox, cached>>

\* The token is fetched, or one fetched earlier by this process is still good.
GetToken(w) ==
    /\ OB!GetToken(w)
    /\ \/ /\ PhaseOf(Own(w, "tenant_token")) = "started"
          /\ Observe(Own(w, "tenant_token"), "responded")
          /\ cached' = cached \cup {w}
       \/ /\ Own(w, "tenant_token") \notin Made
          /\ w \in cached
          /\ UNCHANGED <<calls, cached>>

\* Nothing was posted: a check or reservation refuses, the token request fails,
\* an observation cannot be recorded, a deadline passes.
NotSent(w) ==
    /\ pc[w] # "posted"
    /\ OB!PermanentFailure(w) \/ OB!TransientFailure(w) \/ OB!Unclassified(w)
    /\ \/ UNCHANGED calls
       \/ /\ pc[w] = "admitted"
          /\ PhaseOf(Own(w, "tenant_token")) = "started"
          /\ \E phase \in {"responded", "transport_failure"} :
               Observe(Own(w, "tenant_token"), phase)
       \/ /\ pc[w] = "cleared"
          /\ PhaseOf(Own(w, "message_send")) = "reserved"
          /\ Observe(Own(w, "message_send"), "started")
    /\ UNCHANGED cached

\* The start is recorded, then the message goes out.
Post(w) ==
    /\ OB!Post(w)
    /\ PhaseOf(Own(w, "message_send")) = "reserved"
    /\ Observe(Own(w, "message_send"), "started")
    /\ UNCHANGED cached

\* What came back is recorded; when that fails, an answer proves nothing, and a
\* failure to connect still does.
Respond(w, outcome) ==
    /\ OB!Respond(w, outcome)
    /\ \/ /\ outcome # "not_connected"
          /\ Observe(Own(w, "message_send"), "responded")
       \/ /\ outcome \in {"ambiguous", "not_connected"}
          /\ Observe(Own(w, "message_send"), "transport_failure")
       \/ /\ outcome \in {"ambiguous", "not_connected"}
          /\ UNCHANGED calls
    /\ UNCHANGED cached

Overdue(w) ==
    /\ pc[w] = "posted"
    /\ OB!Unclassified(w)
    /\ UNCHANGED <<calls, cached>>

\* Everything between the claim of a delivery and the recording of its result.
SendStep(w, live) ==
    \/ \E operation \in DOMAIN MadeAt : Reserve(w, operation, live)
    \/ CheckAuthorization(w, live)
    \/ RequestToken(w)
    \/ GetToken(w)
    \/ NotSent(w)
    \/ Post(w)
    \/ \E outcome \in OB!Outcomes : Respond(w, outcome)
    \/ Overdue(w)

\* A sending in progress is cut off: the row is what its last transaction left.
Abort(w) == IF pc[w] = "idle" THEN UNCHANGED outbox ELSE OB!Crash(w)

-----------------------------------------------------------------------------
\* FeishuTenantLookup.lookup, the n-th: a token, then the query; each request is
\* reserved, made and observed in turn.
Lookup(n) == <<"tenant_token", None, n>>
Query(n) == <<"tenant_query", None, n>>

ReserveLookup(n, live) ==
    /\ live
    /\ \/ Lookup(n) \notin Made /\ Charge(Lookup(n))
       \/ /\ PhaseOf(Lookup(n)) = "responded"
          /\ Query(n) \notin Made /\ Charge(Query(n))
    /\ UNCHANGED <<outbox, cached>>

ObserveLookup(n) ==
    /\ \E q \in {Lookup(n), Query(n)} :
         \/ PhaseOf(q) = "reserved" /\ Observe(q, "started")
         \/ /\ PhaseOf(q) = "started"
            /\ \E phase \in {"responded", "transport_failure"} : Observe(q, phase)
    /\ UNCHANGED <<outbox, cached>>
=============================================================================
