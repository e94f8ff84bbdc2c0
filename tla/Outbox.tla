------------------------------- MODULE Outbox -------------------------------
(***************************************************************************)
(* The per-recipient outbox: the delivery rows of storage/delivery.py, the *)
(* workers that run Runtime.send_pending over them, the Feishu and dry-run *)
(* channels those workers call, and the recovery of expired leases.        *)
(*                                                                         *)
(* A transaction is one action; a worker's handler is cut at every await,  *)
(* where other workers, the recovery tick, a crash or the passing of time  *)
(* may come between.  Time is abstracted to the deadlines the code         *)
(* compares with its clock: a lease is live until LeaseExpires, a backoff  *)
(* holds until BackoffElapses, and both may happen at any moment.          *)
(*                                                                         *)
(* Whether a row's authorization is live is decided outside this module:   *)
(* every check has an action for each answer, and module Notifications     *)
(* conjoins the answer _live_grant really gives.                           *)
(***************************************************************************)
EXTENDS Naturals

CONSTANTS
    Deliveries,     \* delivery identities
    Workers,        \* processes that run send_pending
    MaxAttempts,    \* min(max_attempts, 3): three, or the permission's own bound
    None            \* no delivery

ASSUME OutboxAssumption ==
    /\ MaxAttempts \in 1..3
    /\ None \notin Deliveries

VARIABLES
    rows,       \* the deliveries table
    pc,         \* where each worker is in send_pending
    claim,      \* the delivery of the worker's DeliveryClaim, or None
    token,      \* the claim's lease token (see Claim)
    result,     \* the result the worker will hand to finish_delivery
    arrived,    \* per delivery, the attempts whose POST reached the provider
    sendable    \* send_pending's own configuration and permission check passes

outboxVars == <<rows, pc, claim, token, result, arrived, sendable>>
workerVars == <<pc, claim, token, result>>

-----------------------------------------------------------------------------
Channels == {"dry_run", "feishu"}

DeliveryStates ==
    {"absent", "pending", "in_flight", "accepted", "acked",
     "failed_retryable", "failed_final", "unknown", "dry_run"}

Claimable == {"pending", "failed_retryable"}

Results == {"accepted", "dry_run", "failed_retryable", "failed_final", "unknown"}

Tokens == 0..3      \* 0: no lease token

Steps == {"idle", "claimed", "authorized", "reserved", "admitted", "tokened",
          "cleared", "posted", "finishing"}

\* The DeliveryRow columns the handlers read or write.  backoff abstracts
\* next_attempt_at and lease lease_until, both against the clock.
Rows == [state : DeliveryStates, attempt : 0..3, token : Tokens,
         lease : {"none", "live", "expired"}, backoff : {"over", "waiting"}, channel : Channels]

NoRow == [state |-> "absent", attempt |-> 0, token |-> 0, lease |-> "none",
          backoff |-> "over", channel |-> "dry_run"]

TypeOK ==
    /\ rows \in [Deliveries -> Rows]
    /\ pc \in [Workers -> Steps]
    /\ claim \in [Workers -> Deliveries \cup {None}]
    /\ token \in [Workers -> Tokens]
    /\ result \in [Workers -> Results \cup {"none"}]
    /\ arrived \in [Deliveries -> SUBSET (1..3)]
    /\ sendable \in BOOLEAN

Init ==
    /\ rows = [d \in Deliveries |-> NoRow]
    /\ pc = [w \in Workers |-> "idle"]
    /\ claim = [w \in Workers |-> None]
    /\ token = [w \in Workers |-> 0]
    /\ result = [w \in Workers |-> "none"]
    /\ arrived = [d \in Deliveries |-> {}]
    /\ sendable \in BOOLEAN

-----------------------------------------------------------------------------
NewRow(channel) ==
    [state |-> "pending", attempt |-> 0, token |-> 0, lease |-> "none",
     backoff |-> "over", channel |-> channel]

\* _intent inserts an intent and its pending delivery for every recipient the
\* caller selected, all in the caller's transaction.
Enqueue(D, channel) ==
    /\ \A d \in D : rows[d].state = "absent"
    /\ rows' = [d \in Deliveries |-> IF d \in D THEN NewRow(channel) ELSE rows[d]]
    /\ UNCHANGED <<workerVars, arrived, sendable>>

\* claim_deliveries selects a row that is due and has attempts left.
MayClaim(d) ==
    /\ sendable
    /\ rows[d].state \in Claimable
    /\ rows[d].attempt < MaxAttempts
    /\ rows[d].backoff = "over"

\* The selected row's grant is live: lease it to the worker.  The lease token
\* is fresh for every claim; a row's attempt number, which every claim
\* increments and nothing decrements, serves as that identity.
Claim(w, d) ==
    /\ pc[w] = "idle"
    /\ MayClaim(d)
    /\ LET attempt == rows[d].attempt + 1 IN
       /\ rows' = [rows EXCEPT ![d] =
                      [@ EXCEPT !.state = "in_flight", !.attempt = attempt,
                                !.token = attempt, !.lease = "live"]]
       /\ token' = [token EXCEPT ![w] = attempt]
    /\ pc' = [pc EXCEPT ![w] = "claimed"]
    /\ claim' = [claim EXCEPT ![w] = d]
    /\ UNCHANGED <<result, arrived, sendable>>

\* The selected row's grant is not live: the row fails without being claimed.
ClaimRevoked(d) ==
    /\ MayClaim(d)
    /\ rows' = [rows EXCEPT ![d].state = "failed_final"]
    /\ UNCHANGED <<workerVars, arrived, sendable>>

\* The part of authorize_intent and authorize_recipient that reads the row:
\* it is in flight under a lease that has not run out.  Neither looks at the
\* claim's token.
LeaseLive(d) == rows[d].state = "in_flight" /\ rows[d].lease = "live"

Goto(w, from, to) ==
    /\ pc[w] = from
    /\ pc' = [pc EXCEPT ![w] = to]
    /\ UNCHANGED <<rows, claim, token, result, arrived, sendable>>

\* The worker has its result and goes on to finish_delivery.
Conclude(w, r) ==
    /\ pc' = [pc EXCEPT ![w] = "finishing"]
    /\ result' = [result EXCEPT ![w] = r]
    /\ UNCHANGED <<rows, claim, token, arrived, sendable>>

\* A check of the live authorization: by send_pending after the claim, by the
\* channel before it fetches its token, and again after that network work.
CheckPoints == [claimed |-> "authorized", reserved |-> "admitted", tokened |-> "cleared"]

Authorize(w) ==
    /\ pc[w] \in DOMAIN CheckPoints
    /\ LeaseLive(claim[w])
    /\ Goto(w, pc[w], CheckPoints[pc[w]])

AuthorizationRefused(w) ==
    /\ pc[w] \in DOMAIN CheckPoints
    /\ Conclude(w, "failed_final")

\* send_pending spends the trial permission's ledger, or the daily delivery
\* budget, before it calls the live channel.
Reserve(w) ==
    /\ pc[w] = "authorized"
    /\ rows[claim[w]].channel = "feishu"
    /\ Goto(w, "authorized", "reserved")

\* DryRunChannel.send only builds a receipt.
DryRunSend(w) ==
    /\ pc[w] = "authorized"
    /\ rows[claim[w]].channel = "dry_run"
    /\ Conclude(w, "dry_run")

\* The channel's tenant access token, cached or fetched.
GetToken(w) == Goto(w, "admitted", "tokened")

\* Nothing has been sent and the cause is permanent: quota exhausted or
\* permission gone when reserving, an invalid intent or unconfigured recipient,
\* a token request the provider refuses, a refused request reservation.
PermanentFailure(w) ==
    /\ pc[w] \in {"authorized", "reserved", "admitted", "cleared"}
    /\ pc[w] = "authorized" => rows[claim[w]].channel = "feishu"
    /\ Conclude(w, "failed_final")

\* Nothing has been sent and the cause is transient: the channel's deadline,
\* a transport failure of the token request, a retryable provider refusal.
TransientFailure(w) ==
    /\ pc[w] \in {"reserved", "admitted", "tokened", "cleared"}
    /\ Conclude(w, "failed_retryable")

\* bounded()'s deadline, or an exception send_pending has no known-safe class
\* for, at any point of the send: the outcome is unknown.
Unclassified(w) ==
    /\ pc[w] \in {"authorized", "reserved", "admitted", "tokened", "cleared", "posted"}
    /\ Conclude(w, "unknown")

\* The message POST leaves the process; it may or may not reach the provider.
Post(w) ==
    /\ pc[w] = "cleared"
    /\ \E reached \in {{}, {token[w]}} :
          arrived' = [arrived EXCEPT ![claim[w]] = @ \cup reached]
    /\ pc' = [pc EXCEPT ![w] = "posted"]
    /\ UNCHANGED <<rows, claim, token, result, sendable>>

\* How FeishuChannel.send classifies what came back of the POST.
Outcomes == {"accepted", "ambiguous", "refused", "refused_for_now", "not_connected"}

\* Slips: no answer taken for a refusal, to be retried or to be final.
ClassifyAsRetryable(outcome) ==
    CASE outcome = "accepted" -> "accepted"
      [] outcome = "refused" -> "failed_final"
      [] OTHER -> "failed_retryable"

ClassifyAsRefused(outcome) ==
    CASE outcome = "accepted" -> "accepted"
      [] outcome \in {"ambiguous", "refused"} -> "failed_final"
      [] OTHER -> "failed_retryable"

Classify(outcome) ==
    CASE outcome = "accepted" -> "accepted"
      [] outcome = "ambiguous" -> "unknown"
      [] outcome = "refused" -> "failed_final"
      [] outcome \in {"refused_for_now", "not_connected"} -> "failed_retryable"

\* What the provider's answers say of the message: an acceptance with a message
\* id proves arrival, an explicit refusal and a failed connection prove that
\* nothing arrived, anything else (no answer, a server error, a malformed body,
\* acceptance without an id, "still sending") proves neither.
Proves(outcome, reached) ==
    CASE outcome = "accepted" -> reached
      [] outcome = "ambiguous" -> TRUE
      [] OTHER -> ~reached

Respond(w, outcome) ==
    /\ pc[w] = "posted"
    /\ Proves(outcome, token[w] \in arrived[claim[w]])
    /\ Conclude(w, Classify(outcome))

\* The worker leaves send_pending, by returning, by an exception or by dying;
\* the row is what the last transaction left.
Leave(w) ==
    /\ pc' = [pc EXCEPT ![w] = "idle"]
    /\ claim' = [claim EXCEPT ![w] = None]
    /\ token' = [token EXCEPT ![w] = 0]
    /\ result' = [result EXCEPT ![w] = "none"]

\* finish_delivery accepts the result of the current lease only.
OwnsLease(w) == LeaseLive(claim[w]) /\ rows[claim[w]].token = token[w]

\* A slip: a retryable failure stays one however often it was tried.
FinalStateUnbounded(w) == result[w]

\* A retryable failure of the last attempt is final.
FinalState(w) ==
    IF result[w] = "failed_retryable" /\ rows[claim[w]].attempt >= MaxAttempts
    THEN "failed_final"
    ELSE result[w]

Finish(w) ==
    /\ pc[w] = "finishing"
    /\ OwnsLease(w)
    /\ rows' = [rows EXCEPT ![claim[w]] =
                   [@ EXCEPT !.state = FinalState(w), !.token = 0,
                             !.lease = "none", !.backoff = "waiting"]]
    /\ Leave(w)
    /\ UNCHANGED <<arrived, sendable>>

\* "Delivery result is fenced out".
FencedOut(w) ==
    /\ pc[w] = "finishing"
    /\ ~OwnsLease(w)
    /\ Leave(w)
    /\ UNCHANGED <<rows, arrived, sendable>>

\* The worker process dies, or an exception outside the classified region ends
\* its handler, between two of its steps.
Crash(w) ==
    /\ pc[w] # "idle"
    /\ Leave(w)
    /\ UNCHANGED <<rows, arrived, sendable>>

-----------------------------------------------------------------------------
Expired(d) == rows[d].state = "in_flight" /\ rows[d].lease = "expired"

\* A slip: an expired delivery is put back for another attempt.
RecoverByRetrying ==
    /\ rows' = [d \in Deliveries |->
                  IF Expired(d)
                  THEN [rows[d] EXCEPT !.state = "failed_retryable", !.token = 0, !.lease = "none"]
                  ELSE rows[d]]
    /\ UNCHANGED <<workerVars, arrived, sendable>>

\* recover_deliveries: every expired in-flight row becomes unknown.
RecoverDeliveries ==
    /\ rows' = [d \in Deliveries |->
                  IF Expired(d)
                  THEN [rows[d] EXCEPT !.state = "unknown", !.token = 0, !.lease = "none"]
                  ELSE rows[d]]
    /\ UNCHANGED <<workerVars, arrived, sendable>>

\* The first acknowledgement of an accepted delivery.
Acked(d) ==
    /\ rows[d].state = "accepted"
    /\ rows' = [rows EXCEPT ![d].state = "acked"]
    /\ UNCHANGED <<workerVars, arrived, sendable>>

LeaseExpires(d) ==
    /\ LeaseLive(d)
    /\ rows' = [rows EXCEPT ![d].lease = "expired"]
    /\ UNCHANGED <<workerVars, arrived, sendable>>

BackoffElapses(d) ==
    /\ rows[d].backoff = "waiting"
    /\ rows[d].state \in Claimable
    /\ rows' = [rows EXCEPT ![d].backoff = "over"]
    /\ UNCHANGED <<workerVars, arrived, sendable>>

\* An administrator changes the business configuration, or the window of the
\* sending permission opens or closes.
SendableChanges ==
    /\ sendable' = ~sendable
    /\ UNCHANGED <<rows, workerVars, arrived>>

-----------------------------------------------------------------------------
\* Everything a worker does between claiming a row and leaving it, beside the
\* checks of its authorization.
SendStep(w) ==
    \/ Reserve(w)
    \/ DryRunSend(w)
    \/ GetToken(w)
    \/ PermanentFailure(w)
    \/ TransientFailure(w)
    \/ Unclassified(w)
    \/ Post(w)
    \/ \E outcome \in Outcomes : Respond(w, outcome)
    \/ Finish(w)
    \/ FencedOut(w)

WorkerStep(w) == Authorize(w) \/ AuthorizationRefused(w) \/ SendStep(w)

Next ==
    \/ \E D \in SUBSET Deliveries, c \in Channels : Enqueue(D, c)
    \/ \E w \in Workers, d \in Deliveries : Claim(w, d)
    \/ \E d \in Deliveries : ClaimRevoked(d)
    \/ \E w \in Workers : WorkerStep(w)
    \/ \E w \in Workers : Crash(w)
    \/ RecoverDeliveries
    \/ \E d \in Deliveries : Acked(d)
    \/ \E d \in Deliveries : LeaseExpires(d)
    \/ \E d \in Deliveries : BackoffElapses(d)
    \/ SendableChanges

Spec == Init /\ [][Next]_outboxVars

\* The deliver task and the recovery tick run every minute (runtime/tasks.py),
\* a worker's awaits are bounded by deadlines, and time passes.  Nothing is
\* assumed of crashes, revocations, acknowledgements or the configuration.
Fairness ==
    /\ \A d \in Deliveries :
         /\ WF_outboxVars(ClaimRevoked(d) \/ \E w \in Workers : Claim(w, d))
         /\ WF_outboxVars(LeaseExpires(d))
         /\ WF_outboxVars(BackoffElapses(d))
    /\ \A w \in Workers : WF_outboxVars(WorkerStep(w))
    /\ WF_outboxVars(RecoverDeliveries)

FairSpec == Spec /\ Fairness

-----------------------------------------------------------------------------
Undelivered == {"pending", "failed_retryable", "failed_final", "dry_run"}

\* No message is sent twice: however workers crash, leases run out and retries
\* follow, at most one attempt of a delivery reaches the provider
\* (README: "ambiguous delivery outcomes remain UNKNOWN without blind resend").
AtMostOneArrival ==
    \A d \in Deliveries : \A a, b \in arrived[d] : a = b

\* The table never lies about the message: a row that may still be sent, or was
\* recorded as failed for good, reached nobody, and a row recorded as accepted
\* or acknowledged did reach the provider.
RowsTellTheTruth ==
    \A d \in Deliveries :
        /\ rows[d].state \in Undelivered => arrived[d] = {}
        /\ rows[d].state \in {"accepted", "acked"} => arrived[d] # {}

\* Two workers never work on the same delivery, even after a lease has run out
\* under the first of them.
OneWorkerPerDelivery ==
    \A v, w \in Workers : v # w /\ claim[v] = claim[w] => claim[v] = None

\* A retryable row always has an attempt left, so no row waits for a claim that
\* claim_deliveries would never make.
RetryableHasAttemptsLeft ==
    \A d \in Deliveries :
        rows[d].state \in Claimable => rows[d].attempt < MaxAttempts

\* Neither recovery nor a late worker's result turns an unknown row into
\* anything else, and the other final states are final (delivery.py:3).
Settled == {"unknown", "failed_final", "dry_run", "acked"}

SettledIsFinal ==
    [][\A d \in Deliveries :
         rows[d].state \in Settled => rows'[d].state = rows[d].state]_rows

\* What a worker knows of the delivery it holds, at each step of send_pending:
\* the row is still its own or has been given up as unknown, nothing has
\* arrived before the POST, and a result other than unknown is the truth.
WorkerKnows(w, d) ==
    /\ token[w] \in 1..3
    /\ rows[d].state \in {"in_flight", "unknown"}
    /\ rows[d].state = "in_flight" => rows[d].token = token[w]
    /\ pc[w] \notin {"posted", "finishing"} => arrived[d] = {}
    /\ pc[w] \in {"posted", "finishing"} => arrived[d] \subseteq {token[w]}
    /\ pc[w] = "finishing" =>
         /\ result[w] \in Results
         /\ result[w] = "accepted" => arrived[d] # {}
         /\ result[w] \in Undelivered => arrived[d] = {}

\* The strengthening that makes the properties above inductive: they hold of
\* every row together with what its worker, dead or alive, may still do.
IInv ==
    /\ TypeOK
    /\ AtMostOneArrival
    /\ RowsTellTheTruth
    /\ OneWorkerPerDelivery
    /\ RetryableHasAttemptsLeft
    /\ \A d \in Deliveries : rows[d].state = "absent" => arrived[d] = {}
    /\ \A w \in Workers : (pc[w] = "idle") <=> (claim[w] = None)
    /\ \A w \in Workers : claim[w] # None => WorkerKnows(w, claim[w])

\* What a row's state tells the reader of the table about the message.
Reported(state) ==
    CASE state \in {"accepted", "acked"} -> "delivered"
      [] state \in {"failed_final", "dry_run"} -> "failed"
      [] state = "unknown" -> "doubtful"
      [] OTHER -> "open"

Promise == INSTANCE DeliveryPromise
               WITH Attempts <- 1..3,
                    outcome <- [d \in Deliveries |-> Reported(rows[d].state)],
                    transmitted <- arrived

\* The outbox keeps the promise of DeliveryPromise: one transmission at most,
\* and no reported outcome that the provider's side contradicts.
KeepsPromise == Promise!Spec

\* While sending stays permitted, every delivery, whatever becomes of the workers
\* that claim it, is eventually accepted, recorded as a dry run, failed for good or
\* reported unknown.
DeliverySettles ==
    \A d \in Deliveries :
        rows[d].state \in Claimable ~>
            (rows[d].state \in Settled \cup {"accepted"} \/ ~sendable)
=============================================================================
