---------------------------- MODULE OutboxProofs ----------------------------
(***************************************************************************)
(* Safety of the outbox for any number of deliveries and workers.          *)
(***************************************************************************)
EXTENDS Outbox, TLAPS

\* Initially no row exists, no worker holds a claim and nothing has arrived.
LEMMA InitIInv == Init => IInv
BY OutboxAssumption
   DEF Init, IInv, TypeOK, AtMostOneArrival, RowsTellTheTruth, OneWorkerPerDelivery,
       RetryableHasAttemptsLeft, NoRow, Rows, DeliveryStates, Channels, Tokens, Steps,
       Results, Claimable, Undelivered

\* The three updates of a whole row, by a claim, a result and a recovery, give
\* a row again.
LEMMA RowUpdates ==
    ASSUME NEW r \in Rows, NEW s \in DeliveryStates, NEW t \in Tokens, NEW a \in 0..3
    PROVE  /\ [r EXCEPT !.state = s, !.attempt = a, !.token = t, !.lease = "live"] \in Rows
           /\ [r EXCEPT !.state = s, !.token = t, !.lease = "none",
                        !.backoff = "waiting"] \in Rows
           /\ [r EXCEPT !.state = s, !.token = t, !.lease = "none"] \in Rows
BY DEF Rows

\* What an enqueuing transaction does to one row.
LEMMA EnqueuedRow ==
    ASSUME NEW D, NEW c, Enqueue(D, c), NEW d \in Deliveries
    PROVE  \/ rows'[d] = rows[d]
           \/ /\ rows[d].state = "absent"
              /\ rows'[d].state = "pending" /\ rows'[d].attempt = 0
<1>0. rows'[d] = IF d \in D THEN NewRow(c) ELSE rows[d]
  BY Zenon DEF Enqueue
<1>1. CASE d \in D
  <2>1. rows'[d] = NewRow(c) /\ rows[d].state = "absent"
    BY <1>0, <1>1, Zenon DEF Enqueue
  <2> QED
    BY <2>1 DEF NewRow
<1>2. CASE d \notin D
  BY <1>0, <1>2, Zenon
<1> QED
  BY <1>1, <1>2

\* Everything the code does to the rows and workers keeps the columns in range.
LEMMA TypeStep == IInv /\ [Next]_outboxVars => TypeOK'
<1> SUFFICES ASSUME IInv, [Next]_outboxVars PROVE TypeOK' OBVIOUS
<1>0. TypeOK
  BY DEF IInv
<1>a. 0 \in Tokens /\ 0 \in 0..3 /\ "unknown" \in DeliveryStates
  BY DEF Tokens, DeliveryStates
<1> USE DEF TypeOK, workerVars
<1>1. ASSUME NEW D \in SUBSET Deliveries, NEW c \in Channels, Enqueue(D, c) PROVE TypeOK'
  <2>1. NewRow(c) \in Rows
    BY DEF NewRow, Rows, DeliveryStates, Tokens
  <2> QED
    BY <1>0, <1>1, <2>1 DEF Enqueue
<1>2. ASSUME NEW w \in Workers, NEW d \in Deliveries, Claim(w, d) PROVE TypeOK'
  <2>1. rows[d].attempt + 1 \in 0..3 /\ rows[d].attempt + 1 \in Tokens
    BY <1>0, <1>2, OutboxAssumption DEF Claim, MayClaim, Rows, Tokens
  <2>2. "in_flight" \in DeliveryStates /\ "claimed" \in Steps
    BY DEF DeliveryStates, Steps
  <2>3. [rows[d] EXCEPT !.state = "in_flight", !.attempt = rows[d].attempt + 1,
                        !.token = rows[d].attempt + 1, !.lease = "live"] \in Rows
    BY <1>0, <2>1, <2>2, RowUpdates
  <2> QED
    BY <1>0, <1>2, <2>1, <2>2, <2>3 DEF Claim
<1>3. ASSUME NEW d \in Deliveries, ClaimRevoked(d) PROVE TypeOK'
  BY <1>0, <1>3 DEF ClaimRevoked, Rows, DeliveryStates
<1>4. ASSUME NEW w \in Workers, WorkerStep(w) PROVE TypeOK'
  <2>1. CASE Authorize(w)
    BY <1>0, <2>1 DEF Authorize, Goto, CheckPoints, Steps
  <2>2. ASSUME NEW r \in Results, Conclude(w, r) PROVE TypeOK'
    BY <1>0, <2>2 DEF Conclude, Steps
  <2>3. CASE Reserve(w) \/ GetToken(w)
    BY <1>0, <2>3 DEF Reserve, GetToken, Goto, Steps
  <2>4. CASE \/ AuthorizationRefused(w) \/ DryRunSend(w) \/ PermanentFailure(w)
             \/ TransientFailure(w) \/ Unclassified(w)
    BY <2>2, <2>4 DEF AuthorizationRefused, DryRunSend, PermanentFailure,
                      TransientFailure, Unclassified, Results
  <2>5. CASE Post(w)
    <3>1. PICK reached \in {{}, {token[w]}} :
            arrived' = [arrived EXCEPT ![claim[w]] = @ \cup reached]
      BY <2>5 DEF Post
    <3>2. claim[w] \in Deliveries /\ reached \subseteq 1..3
      BY <1>0, <2>5 DEF Post, IInv, WorkerKnows
    <3> QED
      BY <1>0, <2>5, <3>1, <3>2 DEF Post, Steps
  <2>6. ASSUME NEW o \in Outcomes, Respond(w, o) PROVE TypeOK'
    <3>1. Classify(o) \in Results
      BY DEF Classify, Outcomes, Results
    <3> QED
      BY <2>2, <2>6, <3>1 DEF Respond
  <2>7. CASE Finish(w)
    <3>1. claim[w] \in Deliveries /\ result[w] \in Results
      BY <1>0, <2>7 DEF Finish, IInv, WorkerKnows
    <3>2. FinalState(w) \in DeliveryStates
      BY <3>1 DEF FinalState, DeliveryStates, Results
    <3>3. [rows[claim[w]] EXCEPT !.state = FinalState(w), !.token = 0,
                                 !.lease = "none", !.backoff = "waiting"] \in Rows
      BY <1>0, <1>a, <3>1, <3>2, RowUpdates
    <3> QED
      BY <1>0, <2>7, <3>1, <3>3 DEF Finish, Leave, Steps, Tokens
  <2>8. CASE FencedOut(w)
    BY <1>0, <2>8 DEF FencedOut, Leave, Steps, Tokens
  <2> QED
    BY <1>4, <2>1, <2>3, <2>4, <2>5, <2>6, <2>7, <2>8 DEF WorkerStep, SendStep
<1>5. ASSUME NEW w \in Workers, Crash(w) PROVE TypeOK'
  BY <1>0, <1>5 DEF Crash, Leave, Steps, Tokens
<1>6. CASE RecoverDeliveries
  <2>1. \A d \in Deliveries :
          [rows[d] EXCEPT !.state = "unknown", !.token = 0, !.lease = "none"] \in Rows
    BY <1>0, <1>a, RowUpdates
  <2> QED
    BY <1>0, <1>6, <2>1 DEF RecoverDeliveries
<1>7. ASSUME NEW d \in Deliveries, Acked(d) \/ LeaseExpires(d) \/ BackoffElapses(d)
      PROVE TypeOK'
  BY <1>0, <1>7 DEF Acked, LeaseExpires, BackoffElapses, Rows, DeliveryStates
<1>8. CASE SendableChanges
  BY <1>0, <1>8 DEF SendableChanges
<1>9. CASE UNCHANGED outboxVars
  BY <1>0, <1>9 DEF outboxVars
<1> QED
  BY <1>1, <1>2, <1>3, <1>4, <1>5, <1>6, <1>7, <1>8, <1>9 DEF Next

\* The inductive step: no action of a worker, of recovery, of a crash or of time
\* breaks what the rows and the workers know.
LEMMA StepIInv == IInv /\ [Next]_outboxVars => IInv'
<1> SUFFICES ASSUME IInv, [Next]_outboxVars PROVE IInv' OBVIOUS
<1>0. TypeOK /\ TypeOK'
  BY TypeStep DEF IInv
<1> USE DEF TypeOK, Rows, workerVars, IInv, AtMostOneArrival, RowsTellTheTruth,
        OneWorkerPerDelivery, RetryableHasAttemptsLeft, WorkerKnows, Undelivered, Claimable
<1>1. ASSUME NEW D \in SUBSET Deliveries, NEW c \in Channels, Enqueue(D, c) PROVE IInv'
  <2>1. /\ \A d \in Deliveries :
              \/ rows'[d] = rows[d]
              \/ /\ rows[d].state = "absent"
                 /\ rows'[d].state = "pending" /\ rows'[d].attempt = 0
        /\ pc' = pc /\ claim' = claim /\ token' = token /\ result' = result
        /\ arrived' = arrived
    <3>1. ASSUME NEW d \in Deliveries
          PROVE  \/ rows'[d] = rows[d]
                 \/ /\ rows[d].state = "absent"
                    /\ rows'[d].state = "pending" /\ rows'[d].attempt = 0
      BY <1>1, EnqueuedRow
    <3>2. /\ pc' = pc /\ claim' = claim /\ token' = token /\ result' = result
          /\ arrived' = arrived
      BY <1>1 DEF Enqueue
    <3> QED
      BY <3>1, <3>2, Zenon
  <2>2. AtMostOneArrival' /\ RowsTellTheTruth' /\ RetryableHasAttemptsLeft'
    BY <1>0, <2>1, OutboxAssumption
  <2>3. \A w \in Workers : claim'[w] # None => WorkerKnows(w, claim[w])'
    BY <1>0, <2>1
  <2>4. \A d \in Deliveries : rows'[d].state = "absent" => arrived'[d] = {}
    BY <1>0, <2>1
  <2> QED
    BY <1>0, <2>1, <2>2, <2>3, <2>4
<1>2. ASSUME NEW w \in Workers, NEW d \in Deliveries, Claim(w, d) PROVE IInv'
  <2>1. /\ rows'[d].state = "in_flight" /\ rows'[d].token = token'[w]
        /\ \A e \in Deliveries \ {d} : rows'[e] = rows[e]
        /\ pc'[w] = "claimed" /\ claim'[w] = d /\ token'[w] \in 1..3
        /\ \A v \in Workers \ {w} :
              pc'[v] = pc[v] /\ claim'[v] = claim[v] /\ token'[v] = token[v]
        /\ result' = result /\ arrived' = arrived
    BY <1>0, <1>2, OutboxAssumption DEF Claim, MayClaim
  <2>2. arrived[d] = {} /\ \A v \in Workers : claim[v] # d
    BY <1>0, <1>2, OutboxAssumption DEF Claim, MayClaim
  <2>3. AtMostOneArrival' /\ RowsTellTheTruth' /\ RetryableHasAttemptsLeft'
    <3>1. ASSUME NEW e \in Deliveries \ {d}
          PROVE  /\ rows'[e].state \in Undelivered => arrived'[e] = {}
                 /\ rows'[e].state \in {"accepted", "acked"} => arrived'[e] # {}
                 /\ rows'[e].state \in Claimable => rows'[e].attempt < MaxAttempts
      BY <2>1
    <3>2. rows'[d].state \notin Undelivered \cup {"accepted", "acked"} \cup Claimable
      BY <2>1
    <3>3. AtMostOneArrival'
      BY <2>1
    <3> QED
      BY <3>1, <3>2, <3>3
  <2>4. OneWorkerPerDelivery'
    BY <1>0, <2>1, <2>2
  <2>5. \A v \in Workers : (pc'[v] = "idle") <=> (claim'[v] = None)
    BY <1>0, <2>1, OutboxAssumption
  <2>6. \A v \in Workers : claim'[v] # None => WorkerKnows(v, claim[v])'
    <3>1. WorkerKnows(w, claim[w])'
      BY <2>1, <2>2
    <3>2. ASSUME NEW v \in Workers \ {w}, claim'[v] # None
          PROVE  WorkerKnows(v, claim[v])'
      <4>1. claim[v] \in Deliveries \ {d} /\ WorkerKnows(v, claim[v])
        BY <1>0, <2>1, <2>2, <3>2
      <4> QED
        BY <2>1, <4>1
    <3> QED
      BY <3>1, <3>2
  <2> QED
    BY <1>0, <2>1, <2>2, <2>3, <2>4, <2>5, <2>6
<1>3. ASSUME NEW d \in Deliveries, ClaimRevoked(d) PROVE IInv'
  BY <1>0, <1>3 DEF ClaimRevoked, MayClaim
<1>4. ASSUME NEW w \in Workers, WorkerStep(w) PROVE IInv'
  <2>1. CASE Authorize(w)
    BY <1>0, <2>1 DEF Authorize, Goto, CheckPoints, Steps
  <2>2. CASE Reserve(w) \/ GetToken(w)
    BY <1>0, <2>2 DEF Reserve, GetToken, Goto
  <2>3. CASE AuthorizationRefused(w)
    BY <1>0, <2>3 DEF AuthorizationRefused, CheckPoints, Conclude, Results
  <2>4. CASE \/ DryRunSend(w) \/ PermanentFailure(w) \/ TransientFailure(w)
             \/ Unclassified(w)
    BY <1>0, <2>4 DEF DryRunSend, PermanentFailure, TransientFailure, Unclassified,
                      Conclude, Results
  <2>5. CASE Post(w)
    BY <1>0, <2>5 DEF Post
  <2>6. ASSUME NEW o \in Outcomes, Respond(w, o) PROVE IInv'
    BY <1>0, <2>6 DEF Respond, Conclude, Classify, Proves, Outcomes, Results
  <2>7. CASE Finish(w)
    <3> DEFINE d == claim[w]
    <3>1. /\ d \in Deliveries /\ rows[d].state = "in_flight"
          /\ result[w] \in Results
          /\ result[w] = "accepted" => arrived[d] # {}
          /\ result[w] \in Undelivered => arrived[d] = {}
      BY <1>0, <2>7 DEF Finish, OwnsLease, LeaseLive
    <3>2. /\ rows'[d].state = FinalState(w) /\ rows'[d].attempt = rows[d].attempt
          /\ \A e \in Deliveries \ {d} : rows'[e] = rows[e]
          /\ pc'[w] = "idle" /\ claim'[w] = None
          /\ \A v \in Workers \ {w} : /\ pc'[v] = pc[v] /\ claim'[v] = claim[v]
                                      /\ token'[v] = token[v] /\ result'[v] = result[v]
          /\ arrived' = arrived
      BY <1>0, <2>7, <3>1 DEF Finish, Leave
    <3>3. \A v \in Workers \ {w} : claim[v] # d
      BY <1>0, <2>7, <3>1, OutboxAssumption
    <3>4. /\ FinalState(w) = "accepted" => arrived[d] # {}
          /\ FinalState(w) \in Undelivered => arrived[d] = {}
          /\ FinalState(w) \notin {"absent", "acked", "pending"}
          /\ FinalState(w) = "failed_retryable" => rows[d].attempt < MaxAttempts
      <4>1. rows[d].attempt \in 0..3 /\ MaxAttempts \in 1..3
        BY <1>0, <3>1, OutboxAssumption
      <4>2. CASE result[w] = "failed_retryable" /\ rows[d].attempt >= MaxAttempts
        BY <3>1, <4>1, <4>2 DEF FinalState
      <4>3. CASE ~(result[w] = "failed_retryable" /\ rows[d].attempt >= MaxAttempts)
        <5>1. FinalState(w) = result[w]
          BY <4>3 DEF FinalState
        <5> QED
          BY <3>1, <4>1, <4>3, <5>1 DEF Results
      <4> QED
        BY <4>2, <4>3
    <3>5. AtMostOneArrival' /\ RowsTellTheTruth' /\ RetryableHasAttemptsLeft'
      BY <1>0, <3>1, <3>2, <3>4
    <3>6. OneWorkerPerDelivery'
      BY <1>0, <3>1, <3>2
    <3>7. \A v \in Workers : (pc'[v] = "idle") <=> (claim'[v] = None)
      BY <1>0, <3>2
    <3>8. \A v \in Workers : claim'[v] # None => WorkerKnows(v, claim[v])'
      BY <1>0, <3>1, <3>2, <3>3
    <3>9. \A e \in Deliveries : rows'[e].state = "absent" => arrived'[e] = {}
      BY <1>0, <3>1, <3>2, <3>4
    <3> QED
      BY <1>0, <3>5, <3>6, <3>7, <3>8, <3>9
  <2>8. CASE FencedOut(w)
    BY <1>0, <2>8 DEF FencedOut, Leave
  <2> QED
    BY <1>4, <2>1, <2>2, <2>3, <2>4, <2>5, <2>6, <2>7, <2>8 DEF WorkerStep, SendStep
<1>5. ASSUME NEW w \in Workers, Crash(w) PROVE IInv'
  BY <1>0, <1>5 DEF Crash, Leave
<1>6. CASE RecoverDeliveries
  <2>1. /\ \A d \in Deliveries :
              \/ rows'[d] = rows[d]
              \/ rows[d].state = "in_flight" /\ rows'[d].state = "unknown"
        /\ pc' = pc /\ claim' = claim /\ token' = token /\ result' = result
        /\ arrived' = arrived
    <3>1. ASSUME NEW d \in Deliveries
          PROVE  \/ rows'[d] = rows[d]
                 \/ rows[d].state = "in_flight" /\ rows'[d].state = "unknown"
      <4>0. rows'[d] = IF Expired(d)
                       THEN [rows[d] EXCEPT !.state = "unknown", !.token = 0, !.lease = "none"]
                       ELSE rows[d]
        BY <1>6, Zenon DEF RecoverDeliveries
      <4>1. CASE Expired(d)
        BY <1>0, <4>0, <4>1 DEF Expired
      <4>2. CASE ~Expired(d)
        BY <4>0, <4>2, Zenon
      <4> QED
        BY <4>1, <4>2
    <3> QED
      BY <1>6, <3>1 DEF RecoverDeliveries
  <2>2. AtMostOneArrival' /\ RowsTellTheTruth' /\ RetryableHasAttemptsLeft'
    BY <1>0, <2>1
  <2>3. \A w \in Workers : claim'[w] # None => WorkerKnows(w, claim[w])'
    BY <1>0, <2>1
  <2>4. \A d \in Deliveries : rows'[d].state = "absent" => arrived'[d] = {}
    BY <1>0, <2>1
  <2> QED
    BY <1>0, <2>1, <2>2, <2>3, <2>4
<1>7. ASSUME NEW d \in Deliveries, Acked(d) \/ LeaseExpires(d) \/ BackoffElapses(d)
      PROVE IInv'
  <2>1. CASE Acked(d)
    BY <1>0, <2>1 DEF Acked
  <2>2. CASE LeaseExpires(d)
    BY <1>0, <2>2 DEF LeaseExpires, LeaseLive
  <2>3. CASE BackoffElapses(d)
    BY <1>0, <2>3 DEF BackoffElapses
  <2> QED
    BY <1>7, <2>1, <2>2, <2>3
<1>8. CASE SendableChanges
  BY <1>0, <1>8 DEF SendableChanges
<1>9. CASE UNCHANGED outboxVars
  BY <1>0, <1>9 DEF outboxVars
<1> QED
  BY <1>1, <1>2, <1>3, <1>4, <1>5, <1>6, <1>7, <1>8, <1>9 DEF Next

\* In every reachable state of any instance the columns are in range.
THEOREM TypeCorrect == Spec => []TypeOK
<1>1. IInv => TypeOK
  BY DEF IInv
<1> QED
  BY InitIInv, StepIInv, <1>1, PTL DEF Spec

\* For every set of deliveries and workers, at most one attempt of a delivery
\* reaches the provider.
THEOREM NoDuplicateMessage == Spec => []AtMostOneArrival
<1>1. IInv => AtMostOneArrival
  BY DEF IInv
<1> QED
  BY InitIInv, StepIInv, <1>1, PTL DEF Spec

\* For every set of deliveries and workers, a row's recorded outcome is never
\* contradicted by what reached the provider.
THEOREM TruthfulRows == Spec => []RowsTellTheTruth
<1>1. IInv => RowsTellTheTruth
  BY DEF IInv
<1> QED
  BY InitIInv, StepIInv, <1>1, PTL DEF Spec

\* What a step may do to the state of one row: the life cycle of a delivery.
RowStep(from, to) ==
    \/ from = to
    \/ from = "absent" /\ to = "pending"
    \/ from \in Claimable /\ to \in {"in_flight", "failed_final"}
    \/ from = "in_flight" /\ to \in Results
    \/ from = "accepted" /\ to = "acked"

\* No step takes a row along an edge the life cycle does not have.
LEMMA RowLifeCycle ==
    ASSUME IInv, [Next]_outboxVars, NEW d \in Deliveries
    PROVE  RowStep(rows[d].state, rows'[d].state)
<1>0. TypeOK
  BY DEF IInv
<1> USE DEF TypeOK, Rows, workerVars, RowStep
<1>1. ASSUME NEW D \in SUBSET Deliveries, NEW c \in Channels, Enqueue(D, c)
      PROVE  RowStep(rows[d].state, rows'[d].state)
  BY <1>1, EnqueuedRow
<1>2. ASSUME NEW w \in Workers, NEW e \in Deliveries, Claim(w, e)
      PROVE  RowStep(rows[d].state, rows'[d].state)
  BY <1>0, <1>2 DEF Claim, MayClaim
<1>3. ASSUME NEW e \in Deliveries,
             \/ ClaimRevoked(e) \/ Acked(e) \/ LeaseExpires(e) \/ BackoffElapses(e)
      PROVE  RowStep(rows[d].state, rows'[d].state)
  BY <1>0, <1>3 DEF ClaimRevoked, MayClaim, Acked, LeaseExpires, BackoffElapses
<1>4. ASSUME NEW w \in Workers, Finish(w)
      PROVE  RowStep(rows[d].state, rows'[d].state)
  <2>1. claim[w] \in Deliveries /\ FinalState(w) \in Results
    BY <1>4 DEF Finish, IInv, WorkerKnows, FinalState, Results
  <2>2. rows[claim[w]].state = "in_flight"
    BY <1>4 DEF Finish, OwnsLease, LeaseLive
  <2> QED
    BY <1>0, <1>4, <2>1, <2>2 DEF Finish
<1>5. ASSUME NEW w \in Workers, WorkerStep(w), ~Finish(w)
      PROVE  RowStep(rows[d].state, rows'[d].state)
  <2>1. rows' = rows
    BY <1>5 DEF WorkerStep, SendStep, Authorize, Goto, AuthorizationRefused, Conclude, Reserve,
         DryRunSend, GetToken, PermanentFailure, TransientFailure, Unclassified, Post,
         Respond, FencedOut
  <2> QED
    BY <2>1
<1>6. CASE RecoverDeliveries
  <2>0. rows'[d] = IF Expired(d)
                   THEN [rows[d] EXCEPT !.state = "unknown", !.token = 0, !.lease = "none"]
                   ELSE rows[d]
    BY <1>6, Zenon DEF RecoverDeliveries
  <2>1. CASE Expired(d)
    BY <1>0, <2>0, <2>1 DEF Expired, Results
  <2>2. CASE ~Expired(d)
    <3>1. rows'[d] = rows[d]
      BY <2>0, <2>2, Zenon
    <3> QED
      BY <3>1
  <2> QED
    BY <2>1, <2>2
<1>7. CASE (\E w \in Workers : Crash(w)) \/ SendableChanges \/ UNCHANGED outboxVars
  <2>1. rows' = rows
    BY <1>7 DEF Crash, SendableChanges, outboxVars
  <2> QED
    BY <2>1
<1> QED
  BY <1>1, <1>2, <1>3, <1>4, <1>5, <1>6, <1>7 DEF Next

\* A delivery that has been reported unknown, failed for good, dry-run or
\* acknowledged is never reported as anything else, by any number of workers.
THEOREM FinalStatesAreFinal == Spec => SettledIsFinal
<1>1. IInv /\ [Next]_outboxVars =>
        [\A d \in Deliveries : rows[d].state \in Settled => rows'[d].state = rows[d].state]_rows
  <2>1. ASSUME IInv, [Next]_outboxVars, NEW d \in Deliveries, rows[d].state \in Settled
        PROVE  rows'[d].state = rows[d].state
    BY <2>1, RowLifeCycle DEF RowStep, Settled, Claimable
  <2> QED
    BY <2>1
<1> QED
  BY InitIInv, StepIInv, <1>1, PTL DEF Spec, SettledIsFinal

\* Every step of the outbox is a step of DeliveryPromise or leaves what it
\* speaks of unchanged.
LEMMA PromiseStep == IInv /\ [Next]_outboxVars => [Promise!Next]_(Promise!promiseVars)
<1> DEFINE out == [d \in Deliveries |-> Reported(rows[d].state)]
<1> SUFFICES ASSUME IInv, [Next]_outboxVars
             PROVE  Promise!Next \/ (out' = out /\ arrived' = arrived)
  BY DEF Promise!promiseVars
<1>0. TypeOK /\ TypeOK'
  BY TypeStep DEF IInv
<1> USE DEF TypeOK, Rows, workerVars
<1>1. ASSUME rows' = rows, arrived' = arrived
      PROVE  out' = out /\ arrived' = arrived
  BY <1>1
<1>2. ASSUME NEW e \in Deliveries, \A d \in Deliveries \ {e} : rows'[d] = rows[d],
             Reported(rows'[e].state) = Reported(rows[e].state)
      PROVE  out' = out
  BY <1>2
<1>3. ASSUME NEW e \in Deliveries, \A d \in Deliveries \ {e} : rows'[d] = rows[d],
             arrived' = arrived, Reported(rows[e].state) = "open",
             \/ Reported(rows'[e].state) = "delivered" /\ arrived[e] # {}
             \/ Reported(rows'[e].state) = "failed" /\ arrived[e] = {}
             \/ Reported(rows'[e].state) = "doubtful"
      PROVE  Promise!Next
  <2>0. out[e] = "open"
    BY <1>3
  <2>1. out' = [out EXCEPT ![e] = Reported(rows'[e].state)]
    <3>1. ASSUME NEW d \in Deliveries
          PROVE  out'[d] = [out EXCEPT ![e] = Reported(rows'[e].state)][d]
      <4>1. CASE d = e
        BY <4>1, Zenon
      <4>2. CASE d # e
        BY <1>3, <4>2
      <4> QED
        BY <4>1, <4>2
    <3> QED
      BY <3>1
  <2>2. CASE Reported(rows'[e].state) = "delivered" /\ arrived[e] # {}
    BY <1>3, <2>0, <2>1, <2>2 DEF Promise!Next, Promise!ReportDelivered
  <2>3. CASE Reported(rows'[e].state) = "failed" /\ arrived[e] = {}
    BY <1>3, <2>0, <2>1, <2>3 DEF Promise!Next, Promise!ReportFailed
  <2>4. CASE Reported(rows'[e].state) = "doubtful"
    <3>1. out' = [d \in Deliveries |-> IF d \in {e} THEN "doubtful" ELSE out[d]]
      BY <2>1, <2>4
    <3>2. Promise!ReportDoubtful({e})
      BY <1>3, <2>0, <2>1, <3>1 DEF Promise!ReportDoubtful
    <3> QED
      BY <3>2 DEF Promise!Next
  <2> QED
    BY <1>3, <2>2, <2>3, <2>4
<1>4. ASSUME NEW D \in SUBSET Deliveries, NEW c \in Channels, Enqueue(D, c)
      PROVE  out' = out /\ arrived' = arrived
  <2>1. ASSUME NEW d \in Deliveries
        PROVE  Reported(rows'[d].state) = Reported(rows[d].state)
    <3>1. \/ rows'[d] = rows[d]
          \/ rows[d].state = "absent" /\ rows'[d].state = "pending"
      BY <1>4, EnqueuedRow
    <3> QED
      BY <3>1 DEF Reported
  <2> QED
    BY <1>4, <2>1 DEF Enqueue
<1>5. ASSUME NEW w \in Workers, NEW e \in Deliveries, Claim(w, e)
      PROVE  out' = out /\ arrived' = arrived
  <2>1. Reported(rows'[e].state) = Reported(rows[e].state)
    BY <1>0, <1>5 DEF Claim, MayClaim, Claimable, Reported
  <2> QED
    BY <1>0, <1>2, <1>5, <2>1 DEF Claim
<1>6. ASSUME NEW e \in Deliveries, ClaimRevoked(e) PROVE Promise!Next
  <2>1. Reported(rows[e].state) = "open" /\ Reported(rows'[e].state) = "failed"
    BY <1>0, <1>6 DEF ClaimRevoked, MayClaim, Claimable, Reported
  <2>2. arrived[e] = {}
    BY <1>6 DEF ClaimRevoked, MayClaim, IInv, RowsTellTheTruth, Undelivered, Claimable
  <2> QED
    BY <1>0, <1>3, <1>6, <2>1, <2>2 DEF ClaimRevoked
<1>7. ASSUME NEW e \in Deliveries, Acked(e) \/ LeaseExpires(e) \/ BackoffElapses(e)
      PROVE  out' = out /\ arrived' = arrived
  <2>1. CASE Acked(e)
    <3>1. Reported(rows'[e].state) = Reported(rows[e].state)
      BY <1>0, <2>1 DEF Acked, Reported
    <3> QED
      BY <1>0, <1>2, <2>1, <3>1 DEF Acked
  <2>2. CASE LeaseExpires(e) \/ BackoffElapses(e)
    <3>1. rows'[e].state = rows[e].state
      BY <1>0, <2>2 DEF LeaseExpires, BackoffElapses
    <3> QED
      BY <1>0, <1>2, <2>2, <3>1 DEF LeaseExpires, BackoffElapses
  <2> QED
    BY <1>7, <2>1, <2>2
<1>8. ASSUME NEW w \in Workers, Finish(w) PROVE Promise!Next \/ (out' = out /\ arrived' = arrived)
  <2> DEFINE e == claim[w]
  <2>1. /\ e \in Deliveries /\ rows[e].state = "in_flight" /\ result[w] \in Results
        /\ result[w] = "accepted" => arrived[e] # {}
        /\ result[w] \in Undelivered => arrived[e] = {}
    BY <1>8 DEF Finish, OwnsLease, LeaseLive, IInv, WorkerKnows
  <2>2. /\ rows'[e].state = FinalState(w) /\ arrived' = arrived
        /\ \A d \in Deliveries \ {e} : rows'[d] = rows[d]
    BY <1>0, <1>8, <2>1 DEF Finish
  <2>3. Reported(rows[e].state) = "open"
    BY <2>1 DEF Reported
  <2>4. CASE FinalState(w) = "accepted"
    <3>1. result[w] = "accepted"
      BY <2>4 DEF FinalState
    <3>2. Reported(rows'[e].state) = "delivered"
      BY <2>2, <2>4 DEF Reported
    <3> QED
      BY <1>3, <2>1, <2>2, <2>3, <3>1, <3>2
  <2>5. CASE FinalState(w) \in {"failed_final", "dry_run"}
    <3>1. arrived[e] = {}
      BY <2>1, <2>5 DEF FinalState, Undelivered
    <3>2. Reported(rows'[e].state) = "failed"
      BY <2>2, <2>5 DEF Reported
    <3> QED
      BY <1>3, <2>1, <2>2, <2>3, <3>1, <3>2
  <2>6. CASE FinalState(w) = "unknown"
    <3>1. Reported(rows'[e].state) = "doubtful"
      BY <2>2, <2>6 DEF Reported
    <3> QED
      BY <1>3, <2>1, <2>2, <2>3, <3>1
  <2>7. CASE FinalState(w) = "failed_retryable"
    <3>1. Reported(rows'[e].state) = "open"
      BY <2>2, <2>7 DEF Reported
    <3> QED
      BY <1>2, <2>1, <2>2, <2>3, <3>1
  <2> QED
    BY <2>1, <2>4, <2>5, <2>6, <2>7 DEF FinalState, Results
<1>9. ASSUME NEW w \in Workers, Post(w) PROVE Promise!Next \/ (out' = out /\ arrived' = arrived)
  <2> DEFINE e == claim[w]
  <2>1. PICK reached \in {{}, {token[w]}} :
          arrived' = [arrived EXCEPT ![e] = @ \cup reached]
    BY <1>9 DEF Post
  <2>2. /\ e \in Deliveries /\ arrived[e] = {} /\ token[w] \in 1..3
        /\ rows[e].state \in {"in_flight", "unknown"} /\ rows' = rows
    BY <1>9 DEF Post, IInv, WorkerKnows
  <2>3. out[e] \in {"open", "doubtful"} /\ out' = out
    BY <2>2 DEF Reported
  <2>4. CASE reached = {}
    BY <1>0, <2>1, <2>2, <2>3, <2>4
  <2>5. CASE reached = {token[w]}
    <3>1. arrived' = [arrived EXCEPT ![e] = {token[w]}]
      BY <1>0, <2>1, <2>2, <2>5
    <3>2. Promise!Transmit(e, token[w])
      BY <2>2, <2>3, <3>1 DEF Promise!Transmit
    <3> QED
      BY <2>2, <3>2 DEF Promise!Next
  <2> QED
    BY <2>1, <2>4, <2>5
<1>10. ASSUME NEW w \in Workers, WorkerStep(w), ~Finish(w), ~Post(w)
       PROVE  out' = out /\ arrived' = arrived
  <2>1. rows' = rows /\ arrived' = arrived
    BY <1>10 DEF WorkerStep, SendStep, Authorize, Goto, AuthorizationRefused, Conclude, Reserve,
         DryRunSend, GetToken, PermanentFailure, TransientFailure, Unclassified,
         Respond, FencedOut
  <2> QED
    BY <1>1, <2>1
<1>11. CASE RecoverDeliveries
  <2> DEFINE D == {d \in Deliveries : Expired(d)}
  <2>1. \A d \in D : out[d] = "open"
    BY DEF Expired, Reported
  <2>2. ASSUME NEW d \in Deliveries
        PROVE  out'[d] = IF d \in D THEN "doubtful" ELSE out[d]
    <3>0. rows'[d] = IF Expired(d)
                     THEN [rows[d] EXCEPT !.state = "unknown", !.token = 0, !.lease = "none"]
                     ELSE rows[d]
      BY <1>11, Zenon DEF RecoverDeliveries
    <3>1. CASE Expired(d)
      <4>1. rows'[d].state = "unknown"
        BY <1>0, <3>0, <3>1
      <4> QED
        BY <3>1, <4>1 DEF Reported
    <3>2. CASE ~Expired(d)
      <4>1. rows'[d] = rows[d]
        BY <3>0, <3>2, Zenon
      <4> QED
        BY <3>2, <4>1
    <3> QED
      BY <3>1, <3>2
  <2>3. out' = [d \in Deliveries |-> IF d \in D THEN "doubtful" ELSE out[d]]
    BY <2>2
  <2>4. Promise!ReportDoubtful(D)
    BY <1>11, <2>1, <2>3 DEF Promise!ReportDoubtful, RecoverDeliveries
  <2> QED
    BY <2>4 DEF Promise!Next
<1>12. CASE (\E w \in Workers : Crash(w)) \/ SendableChanges \/ UNCHANGED outboxVars
  <2>1. rows' = rows /\ arrived' = arrived
    BY <1>12 DEF Crash, SendableChanges, outboxVars
  <2> QED
    BY <1>1, <2>1
<1> QED
  BY <1>4, <1>5, <1>6, <1>7, <1>8, <1>9, <1>10, <1>11, <1>12 DEF Next

\* For every set of deliveries and workers the outbox implements DeliveryPromise:
\* one transmission at most per message, and no false outcome.
THEOREM OutboxKeepsPromise == Spec => KeepsPromise
<1>1. Init => Promise!Init
  BY DEF Init, Promise!Init, NoRow, Reported
<1> QED
  BY <1>1, InitIInv, StepIInv, PromiseStep, PTL DEF Spec, KeepsPromise, Promise!Spec

\* What workers, recovery and time do: everything but to insert a row or to
\* record an acknowledgement.
Serves ==
    \/ \E w \in Workers, d \in Deliveries : Claim(w, d)
    \/ \E d \in Deliveries : ClaimRevoked(d) \/ LeaseExpires(d) \/ BackoffElapses(d)
    \/ \E w \in Workers : WorkerStep(w) \/ Crash(w)
    \/ RecoverDeliveries
    \/ SendableChanges

\* Only an insertion makes a row, and nothing changes the channel of one.
LEMMA ServedRow ==
    ASSUME IInv, NEW d \in Deliveries,
           Serves \/ (\E e \in Deliveries : Acked(e)) \/ UNCHANGED outboxVars
    PROVE  /\ rows'[d].channel = rows[d].channel
           /\ rows[d].state = "absent" => rows'[d].state = "absent"
<1>0. TypeOK
  BY DEF IInv
<1> DEFINE Goal == /\ rows'[d].channel = rows[d].channel
                   /\ rows[d].state = "absent" => rows'[d].state = "absent"
<1> USE DEF TypeOK, Rows, workerVars
<1>1. ASSUME NEW w \in Workers, NEW e \in Deliveries, Claim(w, e) PROVE Goal
  BY <1>0, <1>1 DEF Claim, MayClaim, Claimable
<1>2. ASSUME NEW e \in Deliveries,
             \/ ClaimRevoked(e) \/ Acked(e) \/ LeaseExpires(e) \/ BackoffElapses(e)
      PROVE  Goal
  BY <1>0, <1>2 DEF ClaimRevoked, MayClaim, Claimable, Acked, LeaseExpires, LeaseLive,
                    BackoffElapses
<1>3. ASSUME NEW w \in Workers, Finish(w) PROVE Goal
  <2>1. claim[w] \in Deliveries
    BY <1>0, <1>3 DEF Finish, IInv
  <2>2. rows[claim[w]].state = "in_flight"
    BY <1>3 DEF Finish, OwnsLease, LeaseLive
  <2> QED
    BY <1>0, <1>3, <2>1, <2>2 DEF Finish
<1>4. ASSUME NEW w \in Workers, WorkerStep(w), ~Finish(w) PROVE Goal
  <2>1. rows' = rows
    BY <1>4 DEF WorkerStep, SendStep, Authorize, Goto, AuthorizationRefused, Conclude, Reserve,
         DryRunSend, GetToken, PermanentFailure, TransientFailure, Unclassified, Post,
         Respond, FencedOut
  <2> QED
    BY <2>1
<1>5. CASE RecoverDeliveries
  <2>0. rows'[d] = IF Expired(d)
                   THEN [rows[d] EXCEPT !.state = "unknown", !.token = 0, !.lease = "none"]
                   ELSE rows[d]
    BY <1>5, Zenon DEF RecoverDeliveries
  <2>1. CASE Expired(d)
    BY <1>0, <2>0, <2>1 DEF Expired
  <2>2. CASE ~Expired(d)
    <3>1. rows'[d] = rows[d]
      BY <2>0, <2>2, Zenon
    <3> QED
      BY <3>1
  <2> QED
    BY <2>1, <2>2
<1>6. CASE (\E w \in Workers : Crash(w)) \/ SendableChanges \/ UNCHANGED outboxVars
  <2>1. rows' = rows
    BY <1>6 DEF Crash, SendableChanges, outboxVars
  <2> QED
    BY <2>1
<1> QED
  BY <1>1, <1>2, <1>3, <1>4, <1>5, <1>6 DEF Serves

\* Only an acknowledgement takes an accepted row any further.
LEMMA AcceptedStays ==
    ASSUME IInv, NEW d \in Deliveries, rows[d].state = "accepted",
           \/ \E D \in SUBSET Deliveries, c \in Channels : Enqueue(D, c)
           \/ Serves
           \/ UNCHANGED outboxVars
    PROVE  rows'[d].state = "accepted"
<1>0. TypeOK
  BY DEF IInv
<1> USE DEF TypeOK, Rows, workerVars
<1>1. ASSUME NEW w \in Workers, NEW e \in Deliveries, Claim(w, e)
      PROVE  rows'[d].state = "accepted"
  BY <1>0, <1>1 DEF Claim, MayClaim, Claimable
<1>2. ASSUME NEW e \in Deliveries, ClaimRevoked(e) \/ LeaseExpires(e) \/ BackoffElapses(e)
      PROVE  rows'[d].state = "accepted"
  BY <1>0, <1>2 DEF ClaimRevoked, MayClaim, Claimable, LeaseExpires, BackoffElapses
<1>3. ASSUME NEW w \in Workers, Finish(w) PROVE rows'[d].state = "accepted"
  <2>1. rows[claim[w]].state = "in_flight" /\ claim[w] # d
    BY <1>3 DEF Finish, OwnsLease, LeaseLive
  <2> QED
    BY <1>0, <1>3, <2>1 DEF Finish
<1>4. ASSUME NEW w \in Workers, WorkerStep(w), ~Finish(w) PROVE rows'[d].state = "accepted"
  BY <1>4 DEF WorkerStep, SendStep, Authorize, Goto, AuthorizationRefused, Conclude, Reserve,
     DryRunSend, GetToken, PermanentFailure, TransientFailure, Unclassified, Post, Respond,
     FencedOut
<1>5. CASE RecoverDeliveries
  <2>1. ~Expired(d)
    BY DEF Expired
  <2>2. rows'[d] = rows[d]
    BY <1>5, <2>1, Zenon DEF RecoverDeliveries
  <2> QED
    BY <2>2
<1>6. ASSUME NEW D \in SUBSET Deliveries, NEW c \in Channels, Enqueue(D, c)
      PROVE  rows'[d].state = "accepted"
  BY <1>6, EnqueuedRow
<1>7. CASE (\E w \in Workers : Crash(w)) \/ SendableChanges \/ UNCHANGED outboxVars
  <2>1. rows' = rows
    BY <1>7 DEF Crash, SendableChanges, outboxVars
  <2> QED
    BY <2>1
<1> QED
  BY <1>1, <1>2, <1>3, <1>4, <1>5, <1>6, <1>7 DEF Serves

\* A row is recorded as a dry run, or is about to be, on that channel only.
DryRunsAreDry ==
    /\ \A d \in Deliveries : rows[d].state = "dry_run" => rows[d].channel = "dry_run"
    /\ \A w \in Workers : pc[w] = "finishing" /\ result[w] = "dry_run" =>
         rows[claim[w]].channel = "dry_run"

\* Every step keeps it so: a result is a dry run's only if DryRunSend produced it.
LEMMA DryRunStep == IInv /\ DryRunsAreDry /\ [Next]_outboxVars => DryRunsAreDry'
<1> SUFFICES ASSUME IInv, DryRunsAreDry, [Next]_outboxVars PROVE DryRunsAreDry'
  OBVIOUS
<1>0. TypeOK
  BY DEF IInv
<1>a. \A d \in Deliveries : rows[d].state # "absent" => rows'[d].channel = rows[d].channel
  <2>1. ASSUME NEW d \in Deliveries, rows[d].state # "absent",
               NEW D \in SUBSET Deliveries, NEW c \in Channels, Enqueue(D, c)
        PROVE  rows'[d] = rows[d]
    BY <2>1, Zenon DEF Enqueue
  <2> QED
    BY <2>1, ServedRow DEF Next, Serves
<1>b. \A d \in Deliveries : RowStep(rows[d].state, rows'[d].state)
  BY RowLifeCycle
<1>c. ASSUME NEW w \in Workers, pc[w] = "finishing"
      PROVE  claim[w] \in Deliveries /\ rows[claim[w]].state \in {"in_flight", "unknown"}
  BY <1>c DEF IInv, TypeOK, WorkerKnows
<1>1. ASSUME NEW w \in Workers, pc'[w] = "finishing", result'[w] = "dry_run",
             ~(pc[w] = "finishing" /\ result[w] = "dry_run" /\ claim'[w] = claim[w])
      PROVE  DryRunSend(w)
  <2>1. ~(pc'[w] = pc[w] /\ result'[w] = result[w] /\ claim'[w] = claim[w])
    BY <1>1
  <2>2. ASSUME NEW v \in Workers, WorkerStep(v) PROVE DryRunSend(w)
    <3>1. v = w
      BY <1>0, <2>1, <2>2 DEF TypeOK, WorkerStep, SendStep, Authorize, Goto, AuthorizationRefused,
         Conclude, Reserve, DryRunSend, GetToken, PermanentFailure, TransientFailure,
         Unclassified, Post, Respond, Finish, FencedOut, Leave
    <3>2. ASSUME NEW o \in Outcomes PROVE Classify(o) # "dry_run"
      BY DEF Outcomes, Classify
    <3> QED
      BY <1>0, <1>1, <2>2, <3>1, <3>2 DEF TypeOK, WorkerStep, SendStep, Authorize, Goto,
         AuthorizationRefused, Conclude, Reserve, DryRunSend, GetToken, PermanentFailure,
         TransientFailure, Unclassified, Post, Respond, Finish, FencedOut, Leave, CheckPoints
  <2>3. ASSUME NEW v \in Workers, NEW d \in Deliveries, Claim(v, d) PROVE FALSE
    BY <1>0, <1>1, <2>3 DEF TypeOK, Claim
  <2>4. ASSUME NEW v \in Workers, Crash(v) PROVE FALSE
    BY <1>0, <1>1, <2>4 DEF TypeOK, Crash, Leave
  <2> QED
    BY <2>1, <2>2, <2>3, <2>4 DEF Next, outboxVars, workerVars, Enqueue, ClaimRevoked, Acked,
       LeaseExpires, BackoffElapses, RecoverDeliveries, SendableChanges
<1>2. ASSUME NEW w \in Workers, pc'[w] = "finishing", result'[w] = "dry_run"
      PROVE  rows'[claim'[w]].channel = "dry_run"
  <2>1. CASE DryRunSend(w)
    BY <2>1 DEF DryRunSend, Conclude
  <2>2. CASE pc[w] = "finishing" /\ result[w] = "dry_run" /\ claim'[w] = claim[w]
    BY <1>a, <1>c, <2>2 DEF DryRunsAreDry
  <2> QED
    BY <1>1, <1>2, <2>1, <2>2
<1>3. ASSUME NEW d \in Deliveries, rows'[d].state = "dry_run"
      PROVE  rows'[d].channel = "dry_run"
  <2>1. CASE rows[d].state = "dry_run"
    BY <1>a, <2>1 DEF DryRunsAreDry
  <2>2. CASE rows[d].state # "dry_run"
    <3>1. rows[d].state = "in_flight"
      BY <1>3, <1>b, <2>2 DEF RowStep
    <3>2. PICK w \in Workers : Finish(w) /\ claim[w] = d
      <4>1. ASSUME NEW D \in SUBSET Deliveries, NEW c \in Channels, Enqueue(D, c) PROVE FALSE
        BY <1>3, <3>1, <4>1, Zenon DEF Enqueue
      <4>2. ASSUME NEW v \in Workers, NEW e \in Deliveries, Claim(v, e) PROVE FALSE
        BY <1>0, <1>3, <3>1, <4>2 DEF Claim, MayClaim, Claimable, TypeOK, Rows
      <4>3. ASSUME NEW e \in Deliveries,
                   \/ ClaimRevoked(e) \/ Acked(e) \/ LeaseExpires(e) \/ BackoffElapses(e)
            PROVE  FALSE
        BY <1>0, <1>3, <3>1, <4>3 DEF ClaimRevoked, MayClaim, Claimable, Acked, LeaseExpires,
             BackoffElapses, TypeOK, Rows
      <4>4. CASE RecoverDeliveries
        <5>1. rows'[d] = IF Expired(d)
                   THEN [rows[d] EXCEPT !.state = "unknown", !.token = 0, !.lease = "none"]
                   ELSE rows[d]
          BY <4>4, Zenon DEF RecoverDeliveries
        <5> QED
          BY <1>0, <1>3, <3>1, <5>1 DEF TypeOK, Rows
      <4>5. ASSUME NEW v \in Workers, WorkerStep(v), ~(Finish(v) /\ claim[v] = d) PROVE FALSE
        <5>1. CASE Finish(v)
          <6>1. claim[v] # d /\ claim[v] \in Deliveries
            BY <1>c, <4>5, <5>1 DEF Finish
          <6> QED
            BY <1>0, <1>3, <3>1, <5>1, <6>1 DEF Finish, TypeOK
        <5>2. CASE ~Finish(v)
          BY <1>3, <3>1, <4>5, <5>2 DEF WorkerStep, SendStep, Authorize, Goto,
             AuthorizationRefused, Conclude, Reserve, DryRunSend, GetToken, PermanentFailure,
             TransientFailure, Unclassified, Post, Respond, FencedOut
        <5> QED
          BY <5>1, <5>2
      <4> QED
        BY <1>3, <3>1, <4>1, <4>2, <4>3, <4>4, <4>5 DEF Next, outboxVars, Crash, SendableChanges
    <3>3. result[w] = "dry_run"
      BY <1>0, <1>3, <3>2 DEF Finish, FinalState, TypeOK, Rows
    <3> QED
      BY <1>a, <3>1, <3>2, <3>3 DEF Finish, DryRunsAreDry
  <2> QED
    BY <2>1, <2>2
<1> QED
  BY <1>2, <1>3 DEF DryRunsAreDry

\* For every set of deliveries and workers, only a row of the dry-run channel is
\* ever recorded as a dry run (DryRunChannel.send): a live delivery is not.
THEOREM LiveDeliveriesAreNotDry == Spec => []DryRunsAreDry
<1>1. Init => DryRunsAreDry
  BY DEF Init, NoRow, DryRunsAreDry
<1> QED
  BY <1>1, InitIInv, StepIInv, DryRunStep, PTL DEF Spec
=============================================================================
