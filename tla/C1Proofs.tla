------------------------------ MODULE C1Proofs ------------------------------
(***************************************************************************)
(* For any number of processes and any allowances: the exercise implements *)
(* Outbox, and so inherits what OutboxProofs proves; the second message    *)
(* comes second; the allowances hold; a stop is a stop; a completion is of  *)
(* both messages.                                                          *)
(*                                                                         *)
(* These rest on the invariant of OutboxProofs, carried over by the        *)
(* refinement, and on what the ledger of the requests says: a worker that  *)
(* has posted has its request there (Posted), no request for the second    *)
(* message is there before its time (Ordered), and the requests there are  *)
(* within the allowances and cover all that has arrived (Accounted).  What *)
(* a run reports is carried with it from the row it read (Scheduled).      *)
(***************************************************************************)
EXTENDS Exercise, Preparation, TLAPS, FiniteSetTheorems

\* The sending of a message is the outbox's, with the requests accounted for.
LEMMA SendSimulation ==
    ASSUME NEW r \in Runners, NEW live, RQ!SendStep(r, live)
    PROVE  OB!WorkerStep(r) \/ UNCHANGED OB!outboxVars
<1> USE DEF OB!WorkerStep, OB!SendStep, RQ!OB!Goto, OB!Goto, RQ!OB!Conclude, OB!Conclude
<1>1. CASE \/ \E operation \in DOMAIN RQ!MadeAt : RQ!Reserve(r, operation, live)
           \/ RQ!RequestToken(r)
  BY <1>1 DEF RQ!Reserve, RQ!RequestToken, RQ!outbox, OB!outboxVars
<1>2. CASE RQ!CheckAuthorization(r, live)
  BY <1>2 DEF RQ!CheckAuthorization, RQ!OB!Authorize, OB!Authorize,
     RQ!OB!AuthorizationRefused, OB!AuthorizationRefused, RQ!OB!Reserve, OB!Reserve,
     RQ!OB!CheckPoints, OB!CheckPoints, RQ!OB!LeaseLive, OB!LeaseLive
<1>3. CASE RQ!GetToken(r)
  BY <1>3 DEF RQ!GetToken, RQ!OB!GetToken, OB!GetToken
<1>4. CASE RQ!NotSent(r) \/ RQ!Overdue(r)
  BY <1>4 DEF RQ!NotSent, RQ!Overdue, RQ!OB!PermanentFailure, OB!PermanentFailure,
     RQ!OB!TransientFailure, OB!TransientFailure, RQ!OB!Unclassified, OB!Unclassified
<1>5. CASE RQ!Post(r)
  BY <1>5 DEF RQ!Post, RQ!OB!Post, OB!Post
<1>6. ASSUME NEW outcome \in RQ!OB!Outcomes, RQ!Respond(r, outcome) PROVE OB!WorkerStep(r)
  BY <1>6 DEF RQ!Respond, RQ!OB!Respond, OB!Respond, RQ!OB!Outcomes, OB!Outcomes,
     RQ!OB!Proves, OB!Proves, RQ!OB!Classify, OB!Classify
<1> QED
  BY <1>1, <1>2, <1>3, <1>4, <1>5, <1>6 DEF RQ!SendStep

\* A run that is killed or cut off leaves its delivery as a crash does.
LEMMA AbortSimulation ==
    ASSUME NEW r \in Runners, RQ!Abort(r)
    PROVE  OB!Crash(r) \/ UNCHANGED OB!outboxVars
BY DEF RQ!Abort, RQ!OB!Crash, OB!Crash, RQ!OB!Leave, OB!Leave, RQ!outbox, OB!outboxVars

\* The exercise begins with an empty outbox.
LEMMA InitSimulation == Init => OB!Init
BY DEF Init, RQ!Init, RQ!OB!Init, OB!Init, RQ!OB!NoRow, OB!NoRow

\* What the exercise does with the outbox: everything but to acknowledge.
Uses ==
    \/ \E D \in SUBSET Messages, c \in OB!Channels : OB!Enqueue(D, c)
    \/ \E w \in Runners, d \in Messages : OB!Claim(w, d)
    \/ \E d \in Messages : OB!ClaimRevoked(d) \/ OB!LeaseExpires(d) \/ OB!BackoffElapses(d)
    \/ \E w \in Runners : OB!WorkerStep(w) \/ OB!Crash(w)
    \/ OB!RecoverDeliveries
    \/ OB!SendableChanges

\* Each step of a run, of the user, or of time is such a use or leaves the outbox.
LEMMA StepUses == [Next]_vars => Uses \/ UNCHANGED OB!outboxVars
<1> SUFFICES ASSUME [Next]_vars PROVE Uses \/ UNCHANGED OB!outboxVars
  OBVIOUS
<1> USE DEF outbox, approval, OB!outboxVars
<1>1. ASSUME NEW r \in Runners, RunStep(r) PROVE Uses \/ UNCHANGED OB!outboxVars
  <2>1. CASE Recover(r)
    BY <2>1 DEF Recover, Uses
  <2>2. CASE \/ Assess(r) \/ CheckStopped(r) \/ Look(r) \/ ClaimNothing(r) \/ Fail(r)
             \/ Judge(r) \/ \E m \in {0, 1} : TakeJob(r, m)
    BY <2>2 DEF Assess, CheckStopped, Look, ClaimNothing, Fail, Judge, TakeJob
  <2>3. ASSUME NEW m \in Messages, Prepare(r, m) PROVE Uses \/ UNCHANGED OB!outboxVars
    BY <2>3 DEF Prepare, Uses, OB!Channels
  <2>4. ASSUME NEW m \in Messages, Claim(r, m) PROVE Uses
    BY <2>4 DEF Claim, Uses
  <2>5. CASE SendStep(r)
    BY <2>5, SendSimulation DEF SendStep, Sending, Finish, Uses, OB!WorkerStep, OB!SendStep
  <2>6. CASE Close(r)
    BY <2>6 DEF Close
  <2> QED
    BY <1>1, <2>1, <2>2, <2>3, <2>4, <2>5, <2>6 DEF RunStep
<1>2. ASSUME NEW r \in Runners, Start(r) \/ TakeJob(r, 2) PROVE UNCHANGED OB!outboxVars
  BY <1>2 DEF Start, TakeJob
<1>3. ASSUME NEW r \in Runners, DatabaseFails(r) \/ TimesOut(r) \/ Crash(r)
      PROVE  Uses \/ UNCHANGED OB!outboxVars
  BY <1>3, AbortSimulation DEF DatabaseFails, TimesOut, Crash, Uses
<1>4. CASE Stop \/ Wake \/ Revoke \/ DueElapses
  BY <1>4 DEF Stop, Wake, Revoke, DueElapses
<1>5. CASE WindowEnds
  BY <1>5 DEF WindowEnds, Uses, OB!SendableChanges, OB!workerVars
<1>6. ASSUME NEW m \in Messages, TimePasses(m) PROVE Uses
  BY <1>6 DEF TimePasses, Uses
<1>7. CASE UNCHANGED vars
  BY <1>7 DEF vars
<1> QED
  BY <1>1, <1>2, <1>3, <1>4, <1>5, <1>6, <1>7 DEF Next

\* The uses are steps of the outbox.
LEMMA StepSimulation == [Next]_vars => [OB!Next]_(OB!outboxVars)
BY StepUses DEF Uses, OB!Next

\* Whatever is started, stopped, resumed or killed, the exercise uses the outbox
\* as every sender does (create_c1_exercise, send_c1_once): what is proved of the
\* outbox holds of its two messages.
THEOREM ExerciseImplementsOutbox == Spec => OB!Spec
BY InitSimulation, StepSimulation, PTL DEF Spec, OB!Spec
\* What is proved of the outbox, for the two messages.
OBP == INSTANCE OutboxProofs WITH
        Deliveries <- Messages, Workers <- Runners, sendable <- open

\* The outbox's assumption on its constants holds.
LEMMA OutboxAssumed == OBP!OutboxAssumption
BY ExerciseAssumption DEF OBP!OutboxAssumption

\* The outbox of OutboxProofs is the outbox of Exercise.
LEMMA SameOutbox ==
    /\ OB!Init <=> OBP!Init
    /\ [OB!Next]_(OB!outboxVars) <=> [OBP!Next]_(OBP!outboxVars)
BY DEF OB!Init, OBP!Init, OB!Next, OBP!Next, OB!outboxVars, OBP!outboxVars, OB!workerVars,
       OBP!workerVars, OB!Channels, OBP!Channels, OB!NoRow, OBP!NoRow, OB!NewRow, OBP!NewRow,
       OB!Enqueue, OBP!Enqueue, OB!Claim, OBP!Claim, OB!MayClaim, OBP!MayClaim, OB!ClaimRevoked,
       OBP!ClaimRevoked, OB!LeaseLive, OBP!LeaseLive, OB!Goto, OBP!Goto, OB!Conclude,
       OBP!Conclude, OB!CheckPoints, OBP!CheckPoints, OB!Authorize, OBP!Authorize,
       OB!AuthorizationRefused, OBP!AuthorizationRefused, OB!Reserve, OBP!Reserve, OB!DryRunSend,
       OBP!DryRunSend, OB!GetToken, OBP!GetToken, OB!PermanentFailure, OBP!PermanentFailure,
       OB!TransientFailure, OBP!TransientFailure, OB!Unclassified, OBP!Unclassified, OB!Post,
       OBP!Post, OB!Outcomes, OBP!Outcomes, OB!Classify, OBP!Classify, OB!Proves, OBP!Proves,
       OB!Respond, OBP!Respond, OB!Leave, OBP!Leave, OB!OwnsLease, OBP!OwnsLease, OB!FinalState,
       OBP!FinalState, OB!Finish, OBP!Finish, OB!FencedOut, OBP!FencedOut, OB!Crash, OBP!Crash,
       OB!Expired, OBP!Expired, OB!RecoverDeliveries, OBP!RecoverDeliveries, OB!Acked, OBP!Acked,
       OB!LeaseExpires, OBP!LeaseExpires, OB!BackoffElapses, OBP!BackoffElapses,
       OB!SendableChanges, OBP!SendableChanges, OB!SendStep, OBP!SendStep, OB!WorkerStep,
       OBP!WorkerStep, OB!Claimable, OBP!Claimable

\* A use of the outbox is a service of OutboxProofs's, or inserts rows.
LEMMA ServingStep ==
    ASSUME Uses
    PROVE  OBP!Serves \/ \E D \in SUBSET Messages, c \in OBP!Channels : OBP!Enqueue(D, c)
BY DEF Uses, OBP!Serves, OB!outboxVars, OBP!outboxVars, OB!workerVars, OBP!workerVars, OB!Claim,
       OBP!Claim, OB!MayClaim, OBP!MayClaim, OB!ClaimRevoked, OBP!ClaimRevoked, OB!LeaseLive,
       OBP!LeaseLive, OB!Goto, OBP!Goto, OB!Conclude, OBP!Conclude, OB!CheckPoints,
       OBP!CheckPoints, OB!Authorize, OBP!Authorize, OB!AuthorizationRefused,
       OBP!AuthorizationRefused, OB!Reserve, OBP!Reserve, OB!DryRunSend, OBP!DryRunSend,
       OB!GetToken, OBP!GetToken, OB!PermanentFailure, OBP!PermanentFailure, OB!TransientFailure,
       OBP!TransientFailure, OB!Unclassified, OBP!Unclassified, OB!Post, OBP!Post, OB!Outcomes,
       OBP!Outcomes, OB!Classify, OBP!Classify, OB!Proves, OBP!Proves, OB!Respond, OBP!Respond,
       OB!Leave, OBP!Leave, OB!OwnsLease, OBP!OwnsLease, OB!FinalState, OBP!FinalState, OB!Finish,
       OBP!Finish, OB!FencedOut, OBP!FencedOut, OB!Crash, OBP!Crash, OB!Expired, OBP!Expired,
       OB!RecoverDeliveries, OBP!RecoverDeliveries, OB!Acked, OBP!Acked, OB!LeaseExpires,
       OBP!LeaseExpires, OB!BackoffElapses, OBP!BackoffElapses, OB!SendableChanges,
       OBP!SendableChanges, OB!SendStep, OBP!SendStep, OB!WorkerStep, OBP!WorkerStep, OB!Enqueue,
       OBP!Enqueue, OB!NewRow, OBP!NewRow, OB!Channels, OBP!Channels, OB!Claimable, OBP!Claimable

\* Requests are recorded, one at a time, and none is forgotten.
LEMMA Recording ==
    ASSUME NEW q, NEW phase, RQ!Observe(q, phase)
    PROVE  /\ RQ!Made' = RQ!Made \cup {q}
           /\ \A p : RQ!PhaseOf(p)' = IF p = q THEN phase ELSE RQ!PhaseOf(p)
<1>1. calls' = [p \in RQ!Made \cup {q} |-> IF p = q THEN phase ELSE calls[p]]
  BY DEF RQ!Observe
<1>2. RQ!Made' = RQ!Made \cup {q}
  BY <1>1 DEF RQ!Made
<1>3. ASSUME NEW p PROVE RQ!PhaseOf(p)' = IF p = q THEN phase ELSE RQ!PhaseOf(p)
  <2>1. CASE p \in RQ!Made \cup {q}
    BY <1>1, <1>2, <2>1 DEF RQ!PhaseOf
  <2>2. CASE p \notin RQ!Made \cup {q}
    BY <1>2, <2>2 DEF RQ!PhaseOf
  <2> QED
    BY <2>1, <2>2
<1> QED
  BY <1>2, <1>3

\* A posted message has been accounted for.
Posted == \A r \in Runners : pc[r] = "posted" => RQ!Own(r, "message_send") \in RQ!Made

\* Only the sending of a message is entered in the ledger.
LEMMA OnlySendingCounts ==
    ASSUME [Next]_vars, ~\E r \in Runners : Sending(r)
    PROVE  calls' = calls
BY DEF Next, RunStep, vars, ledger, approval, Start, Recover, Assess, TakeJob, CheckStopped, Look,
   Prepare, Claim, ClaimNothing, Fail, SendStep, Finish, Judge, Close, Release, DatabaseFails, TimesOut, Crash,
   Stop, Wake, Revoke, WindowEnds, DueElapses, TimePasses

\* Requests are added by reservations only; what else is recorded of one is that
\* it was made or what came of it.
LEMMA LedgerStep ==
    ASSUME Posted, [Next]_vars
    PROVE  \/ \E r \in Runners : \E operation \in DOMAIN RQ!MadeAt :
                RQ!Reserve(r, operation, Live(claim[r]))
           \/ calls' = calls
           \/ \E q \in RQ!Made, phase \in {"started", "responded", "transport_failure"} :
                RQ!Observe(q, phase)
<1> USE DEF RQ!PhaseOf
<1>1. ASSUME NEW r \in Runners, Sending(r)
      PROVE  \/ \E operation \in DOMAIN RQ!MadeAt : RQ!Reserve(r, operation, Live(claim[r]))
             \/ calls' = calls
             \/ \E q \in RQ!Made, phase \in {"started", "responded", "transport_failure"} :
                  RQ!Observe(q, phase)
  <2>1. CASE \E operation \in DOMAIN RQ!MadeAt : RQ!Reserve(r, operation, Live(claim[r]))
    BY <2>1
  <2>2. CASE RQ!CheckAuthorization(r, Live(claim[r])) \/ RQ!Overdue(r)
    BY <2>2 DEF RQ!CheckAuthorization, RQ!Overdue
  <2>3. CASE RQ!RequestToken(r) \/ RQ!GetToken(r)
    BY <2>3 DEF RQ!RequestToken, RQ!GetToken
  <2>4. CASE RQ!NotSent(r)
    BY <2>4 DEF RQ!NotSent
  <2>5. CASE RQ!Post(r)
    BY <2>5 DEF RQ!Post
  <2>6. ASSUME NEW outcome \in RQ!OB!Outcomes, RQ!Respond(r, outcome)
        PROVE  \/ calls' = calls
               \/ \E q \in RQ!Made, phase \in {"started", "responded", "transport_failure"} :
                    RQ!Observe(q, phase)
    <3>1. RQ!Own(r, "message_send") \in RQ!Made
      BY <2>6 DEF Posted, RQ!Respond, RQ!OB!Respond
    <3> QED
      BY <2>6, <3>1 DEF RQ!Respond
  <2> QED
    BY <1>1, <2>1, <2>2, <2>3, <2>4, <2>5, <2>6 DEF Sending, RQ!SendStep
<1>2. calls' = calls \/ \E r \in Runners : Sending(r)
  BY OnlySendingCounts
<1> QED
  BY <1>1, <1>2

\* A recorded request stays recorded.
LEMMA NothingForgotten ==
    ASSUME Posted, [Next]_vars
    PROVE  RQ!Made \subseteq RQ!Made'
<1>1. ASSUME NEW q, NEW phase, RQ!Observe(q, phase) PROVE RQ!Made \subseteq RQ!Made'
  BY <1>1, Recording
<1>2. calls' = calls => RQ!Made \subseteq RQ!Made'
  BY DEF RQ!Made
<1> QED
  BY <1>1, <1>2, LedgerStep DEF RQ!Reserve, RQ!Charge

\* A worker that has posted keeps its attempt until it hands it over.
LEMMA PostedStep == OBP!IInv /\ Posted /\ [Next]_vars => Posted'
<1> SUFFICES ASSUME OBP!IInv, Posted, [Next]_vars, NEW r \in Runners, pc'[r] = "posted"
             PROVE  RQ!Own(r, "message_send")' \in RQ!Made'
  BY DEF Posted
<1> DEFINE Kept == pc[r] = "posted" /\ claim'[r] = claim[r] /\ token'[r] = token[r]
<1> USE DEF OBP!IInv, OBP!TypeOK
<1>1. CASE RQ!Post(r)
  <2>1. RQ!Own(r, "message_send") \in RQ!Made'
    BY <1>1, Recording DEF RQ!Post
  <2>2. claim' = claim /\ token' = token
    BY <1>1 DEF RQ!Post, RQ!OB!Post
  <2> QED
    BY <2>1, <2>2 DEF RQ!Own
<1>2. ASSUME NEW v \in Runners, Sending(v), ~RQ!Post(r) PROVE Kept
  <2>1. CASE \/ \E operation \in DOMAIN RQ!MadeAt : RQ!Reserve(v, operation, Live(claim[v]))
             \/ RQ!RequestToken(v)
    BY <2>1 DEF RQ!Reserve, RQ!RequestToken, RQ!outbox
  <2>2. CASE RQ!CheckAuthorization(v, Live(claim[v]))
    <3>1. \A x \in DOMAIN RQ!OB!CheckPoints : RQ!OB!CheckPoints[x] # "posted"
      BY DEF RQ!OB!CheckPoints
    <3> QED
      BY <2>2, <3>1 DEF RQ!CheckAuthorization, RQ!OB!Authorize, RQ!OB!AuthorizationRefused,
         RQ!OB!Reserve, RQ!OB!Goto, RQ!OB!Conclude
  <2>3. CASE RQ!GetToken(v) \/ RQ!NotSent(v) \/ RQ!Overdue(v)
    BY <2>3 DEF RQ!GetToken, RQ!NotSent, RQ!Overdue, RQ!OB!GetToken, RQ!OB!PermanentFailure,
       RQ!OB!TransientFailure, RQ!OB!Unclassified, RQ!OB!Goto, RQ!OB!Conclude
  <2>4. CASE RQ!Post(v)
    BY <1>2, <2>4 DEF RQ!Post, RQ!OB!Post
  <2>5. CASE \E outcome \in RQ!OB!Outcomes : RQ!Respond(v, outcome)
    BY <2>5 DEF RQ!Respond, RQ!OB!Respond, RQ!OB!Conclude
  <2> QED
    BY <1>2, <2>1, <2>2, <2>3, <2>4, <2>5 DEF Sending, RQ!SendStep
<1>3. ASSUME ~\E v \in Runners : Sending(v) PROVE Kept
  <2>1. ASSUME NEW v \in Runners,
               \/ OB!Finish(v) \/ OB!FencedOut(v) \/ RQ!Abort(v)
               \/ \E m \in Messages : OB!Claim(v, m)
        PROVE  Kept
    BY <2>1 DEF OB!Finish, OB!FencedOut, OB!Leave, RQ!Abort, RQ!outbox, RQ!OB!Crash, RQ!OB!Leave,
       OB!Claim
  <2>2. ASSUME \/ \E D \in SUBSET Messages, c \in OB!Channels : OB!Enqueue(D, c)
               \/ \E m \in Messages :
                    OB!ClaimRevoked(m) \/ OB!LeaseExpires(m) \/ OB!BackoffElapses(m)
               \/ OB!RecoverDeliveries
               \/ UNCHANGED <<pc, claim, token>>
        PROVE  Kept
    BY <2>2 DEF OB!Enqueue, OB!ClaimRevoked, OB!LeaseExpires, OB!BackoffElapses,
       OB!RecoverDeliveries, OB!workerVars
  <2>3. ASSUME NEW v \in Runners, NEW m \in Messages, Prepare(v, m) PROVE Kept
    BY <2>3 DEF Prepare, OB!Enqueue, OB!workerVars, outbox
  <2> QED
    BY <1>3, <2>1, <2>2, <2>3 DEF Next, RunStep, vars, outbox, ledger, approval, Start, Recover,
       Assess, TakeJob, CheckStopped, Look, Claim, ClaimNothing, Fail, SendStep, Finish,
       Judge, Close, Release, DatabaseFails, TimesOut, Crash, Stop, Wake, Revoke, WindowEnds, DueElapses,
       TimePasses
<1>4. CASE Kept
  BY <1>4, NothingForgotten DEF Posted, RQ!Own
<1> QED
  BY <1>1, <1>2, <1>3, <1>4

\* The order of the messages: no request for the second one before its time.
Ordered == \A q \in RQ!Sends : q[2] = 2 => rows[1].state = "accepted" /\ due

\* What has been reserved is counted, and what has arrived was started.
Accounted ==
    /\ IsFiniteSet(RQ!Made)
    /\ Cardinality(RQ!Sends) <= MaxAttempts
    /\ Cardinality(RQ!Made) <= MaxRequests
    /\ \A m \in Messages : \A a \in arrived[m] :
         RQ!PhaseOf(<<"message_send", m, a>>) \notin {"none", "reserved"}

\* Requests counts as this module does.
LEMMA SameCardinality == \A S : RQ!Cardinality(S) = Cardinality(S)
BY DEF RQ!Cardinality, Cardinality

\* A reservation adds one request of the worker's own, while it is authorized.
LEMMA Reservation ==
    ASSUME NEW r \in Runners, NEW operation \in DOMAIN RQ!MadeAt,
           RQ!Reserve(r, operation, Live(claim[r]))
    PROVE  /\ Live(claim[r])
           /\ RQ!Own(r, operation) \notin RQ!Made
           /\ RQ!Made' = RQ!Made \cup {RQ!Own(r, operation)}
           /\ RQ!Sends' = RQ!Sends \cup (IF operation = "message_send" THEN {RQ!Own(r, operation)}
                                         ELSE {})
           /\ Cardinality(RQ!Made) < MaxRequests
           /\ operation = "message_send" => Cardinality(RQ!Sends) < MaxAttempts
           /\ \A p : RQ!PhaseOf(p)' = IF p = RQ!Own(r, operation) THEN "reserved"
                                      ELSE RQ!PhaseOf(p)
<1>1. RQ!Observe(RQ!Own(r, operation), "reserved")
  BY DEF RQ!Reserve, RQ!Charge
<1>2. RQ!Made' = RQ!Made \cup {RQ!Own(r, operation)}
  BY <1>1, Recording
<1>3. RQ!Own(r, operation)[1] = operation
  BY DEF RQ!Own
<1>4. RQ!Sends' = RQ!Sends \cup (IF operation = "message_send" THEN {RQ!Own(r, operation)} ELSE {})
  BY <1>2, <1>3 DEF RQ!Sends
<1> QED
  BY <1>1, <1>2, <1>4, Recording, SameCardinality DEF RQ!Reserve, RQ!Charge

\* A request for the second message is reserved when the first was accepted and
\* its time has come, and neither is taken back.
LEMMA OrderedStep == OBP!IInv /\ Posted /\ Ordered /\ [Next]_vars => Ordered'
<1> SUFFICES ASSUME OBP!IInv, Posted, Ordered, [Next]_vars,
                    NEW q \in RQ!Sends', q[2] = 2
             PROVE  rows'[1].state = "accepted" /\ due'
  BY DEF Ordered
<1>1. rows[1].state = "accepted" /\ due
  <2>1. CASE q \in RQ!Sends
    BY <2>1 DEF Ordered
  <2>2. CASE q \notin RQ!Sends
    <3>1. RQ!Made' # RQ!Made
      BY <2>2 DEF RQ!Sends
    <3>2. ASSUME NEW p \in RQ!Made, NEW phase, RQ!Observe(p, phase) PROVE FALSE
      BY <3>1, <3>2, Recording
    <3>3. calls' # calls
      BY <3>1 DEF RQ!Made
    <3>4. PICK r \in Runners, operation \in DOMAIN RQ!MadeAt :
            RQ!Reserve(r, operation, Live(claim[r]))
      BY <3>2, <3>3, LedgerStep
    <3>5. q = RQ!Own(r, operation) /\ Live(claim[r])
      BY <2>2, <3>4, Reservation
    <3> QED
      BY <3>5 DEF RQ!Own, Live, SecondDue
  <2> QED
    BY <2>1, <2>2
<1>2. rows'[1].state = "accepted"
  <2>1. 1 \in Messages
    BY DEF Messages
  <2>2. UNCHANGED OB!outboxVars => UNCHANGED OBP!outboxVars
    BY DEF OB!outboxVars, OBP!outboxVars
  <2> QED
    BY <1>1, <2>1, <2>2, StepUses, ServingStep, OutboxAssumed, OBP!AcceptedStays
<1>3. due'
  BY <1>1 DEF Next, RunStep, vars, outbox, ledger, approval, Start, Recover, Assess, TakeJob,
     CheckStopped, Look, Prepare, Claim, ClaimNothing, Fail, SendStep, Sending, Finish, Judge,
     Close, Release, DatabaseFails, TimesOut, Crash, Stop, Wake, Revoke, WindowEnds, DueElapses, TimePasses
<1> QED
  BY <1>2, <1>3

\* Only the posting of a message makes it arrive.
LEMMA Posting ==
    ASSUME OBP!IInv, [Next]_vars, NEW m \in Messages, arrived'[m] # arrived[m]
    PROVE  \E r \in Runners : RQ!Post(r) /\ claim[r] = m
<1> USE DEF OBP!IInv, OBP!TypeOK
<1>1. ASSUME NEW r \in Runners, RQ!Post(r) PROVE claim[r] = m
  BY <1>1 DEF RQ!Post, RQ!OB!Post
<1>2. ASSUME NEW r \in Runners, Sending(r), ~RQ!Post(r) PROVE FALSE
  BY <1>2 DEF Sending, RQ!SendStep, RQ!Reserve, RQ!RequestToken, RQ!outbox, RQ!CheckAuthorization,
     RQ!OB!Authorize, RQ!OB!AuthorizationRefused, RQ!OB!Reserve, RQ!OB!Goto, RQ!OB!Conclude,
     RQ!GetToken, RQ!OB!GetToken, RQ!NotSent, RQ!Overdue, RQ!OB!PermanentFailure,
     RQ!OB!TransientFailure, RQ!OB!Unclassified, RQ!Respond, RQ!OB!Respond
<1>3. ASSUME ~\E r \in Runners : Sending(r) PROVE FALSE
  <2>1. ASSUME \/ \E r \in Runners : OB!Finish(r) \/ OB!FencedOut(r) \/ RQ!Abort(r)
               \/ \E r \in Runners, d \in Messages : OB!Claim(r, d)
               \/ \E d \in Messages :
                    OB!ClaimRevoked(d) \/ OB!LeaseExpires(d) \/ OB!BackoffElapses(d)
               \/ OB!RecoverDeliveries
        PROVE  arrived' = arrived
    BY <2>1 DEF OB!Finish, OB!FencedOut, RQ!Abort, RQ!outbox, RQ!OB!Crash, OB!Claim,
       OB!ClaimRevoked, OB!LeaseExpires, OB!BackoffElapses, OB!RecoverDeliveries
  <2>2. ASSUME NEW r \in Runners, NEW d \in Messages, Prepare(r, d) PROVE arrived' = arrived
    BY <2>2 DEF Prepare, OB!Enqueue, outbox
  <2>3. arrived' = arrived
    BY <1>3, <2>1, <2>2 DEF Next, RunStep, vars, outbox, ledger, approval, Start, Recover,
       Assess, TakeJob, CheckStopped, Look, Claim, ClaimNothing, Fail, SendStep, Finish,
       Judge, Close, Release, DatabaseFails, TimesOut, Crash, Stop, Wake, Revoke, WindowEnds, DueElapses,
       TimePasses
  <2> QED
    BY <2>3
<1> QED
  BY <1>1, <1>2, <1>3

\* It is the worker's current attempt that arrives.
LEMMA Arrival ==
    ASSUME OBP!IInv, [Next]_vars, NEW m \in Messages, NEW a \in arrived'[m], a \notin arrived[m]
    PROVE  \E r \in Runners : RQ!Post(r) /\ claim[r] = m /\ token[r] = a
<1>1. arrived \in [Messages -> SUBSET (1..3)]
  BY DEF OBP!IInv, OBP!TypeOK
<1>2. PICK r \in Runners : RQ!Post(r) /\ claim[r] = m
  BY Posting
<1>3. PICK reached \in {{}, {token[r]}} :
        arrived' = [arrived EXCEPT ![claim[r]] = @ \cup reached]
  BY <1>2 DEF RQ!Post, RQ!OB!Post
<1>4. arrived'[m] = arrived[m] \cup reached
  BY <1>1, <1>2, <1>3
<1>5. a = token[r]
  BY <1>3, <1>4
<1> QED
  BY <1>2, <1>5

\* Both allowances hold for every request, and no arrival goes unrecorded.
LEMMA AccountedStep == OBP!IInv /\ Posted /\ Accounted /\ [Next]_vars => Accounted'
<1> SUFFICES ASSUME OBP!IInv, Posted, Accounted, [Next]_vars PROVE Accounted'
  OBVIOUS
<1>a. RQ!Sends \subseteq RQ!Made /\ IsFiniteSet(RQ!Sends)
  BY FS_Subset DEF RQ!Sends, Accounted
<1>1. /\ IsFiniteSet(RQ!Made)'
      /\ Cardinality(RQ!Sends)' <= MaxAttempts
      /\ Cardinality(RQ!Made)' <= MaxRequests
  <2>1. ASSUME RQ!Made' = RQ!Made
        PROVE  /\ IsFiniteSet(RQ!Made)'
               /\ Cardinality(RQ!Sends)' <= MaxAttempts
               /\ Cardinality(RQ!Made)' <= MaxRequests
    <3>1. RQ!Sends' = RQ!Sends
      BY <2>1 DEF RQ!Sends
    <3> QED
      BY <2>1, <3>1 DEF Accounted
  <2>2. ASSUME NEW r \in Runners, NEW operation \in DOMAIN RQ!MadeAt,
               RQ!Reserve(r, operation, Live(claim[r]))
        PROVE  /\ IsFiniteSet(RQ!Made)'
               /\ Cardinality(RQ!Sends)' <= MaxAttempts
               /\ Cardinality(RQ!Made)' <= MaxRequests
    <3> DEFINE q == RQ!Own(r, operation)
    <3>1. /\ RQ!Made' = RQ!Made \cup {q} /\ q \notin RQ!Made /\ q \notin RQ!Sends
          /\ Cardinality(RQ!Made) < MaxRequests
          /\ operation = "message_send" => Cardinality(RQ!Sends) < MaxAttempts
          /\ RQ!Sends' = RQ!Sends \cup (IF operation = "message_send" THEN {q} ELSE {})
      BY <1>a, <2>2, Reservation
    <3>2. IsFiniteSet(RQ!Made \cup {q}) /\ Cardinality(RQ!Made \cup {q}) = Cardinality(RQ!Made) + 1
      BY <3>1, FS_AddElement DEF Accounted
    <3>3. Cardinality(RQ!Sends \cup {q}) = Cardinality(RQ!Sends) + 1
      BY <1>a, <3>1, FS_AddElement
    <3>4. Cardinality(RQ!Made) \in Nat /\ Cardinality(RQ!Sends) \in Nat
      BY <1>a, FS_CardinalityType DEF Accounted
    <3>5. Cardinality(RQ!Sends') <= MaxAttempts
      <4>1. CASE operation = "message_send"
        BY <3>1, <3>3, <3>4, <4>1, ExerciseAssumption
      <4>2. CASE operation # "message_send"
        <5>1. RQ!Sends' = RQ!Sends
          BY <3>1, <4>2
        <5> QED
          BY <5>1 DEF Accounted
      <4> QED
        BY <4>1, <4>2
    <3>6. Cardinality(RQ!Made') <= MaxRequests /\ IsFiniteSet(RQ!Made')
      BY <3>1, <3>2, <3>4, ExerciseAssumption
    <3> QED
      BY <3>5, <3>6
  <2>3. ASSUME NEW p \in RQ!Made, NEW phase, RQ!Observe(p, phase) PROVE RQ!Made' = RQ!Made
    BY <2>3, Recording
  <2>4. calls' = calls => RQ!Made' = RQ!Made
    BY DEF RQ!Made
  <2> QED
    BY <2>1, <2>2, <2>3, <2>4, LedgerStep
<1>2. ASSUME NEW p, RQ!PhaseOf(p) \notin {"none", "reserved"}
      PROVE  RQ!PhaseOf(p)' \notin {"none", "reserved"}
  <2>1. CASE calls' = calls
    BY <1>2, <2>1 DEF RQ!PhaseOf, RQ!Made
  <2>2. ASSUME NEW r \in Runners, NEW operation \in DOMAIN RQ!MadeAt,
               RQ!Reserve(r, operation, Live(claim[r]))
        PROVE  RQ!PhaseOf(p)' = RQ!PhaseOf(p)
    <3>1. p \in RQ!Made
      BY <1>2 DEF RQ!PhaseOf
    <3> QED
      BY <2>2, <3>1, Reservation
  <2>3. ASSUME NEW q \in RQ!Made, NEW phase \in {"started", "responded", "transport_failure"},
               RQ!Observe(q, phase)
        PROVE  RQ!PhaseOf(p)' \notin {"none", "reserved"}
    BY <1>2, <2>3, Recording
  <2> QED
    BY <1>2, <2>1, <2>2, <2>3, LedgerStep
<1>3. ASSUME NEW m \in Messages, NEW a \in arrived'[m]
      PROVE  RQ!PhaseOf(<<"message_send", m, a>>)' \notin {"none", "reserved"}
  <2>1. CASE a \in arrived[m]
    BY <1>2, <2>1 DEF Accounted
  <2>2. CASE a \notin arrived[m]
    <3>1. PICK r \in Runners : RQ!Post(r) /\ claim[r] = m /\ token[r] = a
      BY <1>3, <2>2, Arrival
    <3>2. RQ!Own(r, "message_send") = <<"message_send", m, a>>
      BY <3>1 DEF RQ!Own
    <3> QED
      BY <3>1, <3>2, Recording DEF RQ!Post
  <2> QED
    BY <2>1, <2>2
<1> QED
  BY <1>1, <1>3 DEF Accounted

\* What a step in the sending of a message leaves alone.
LEMMA SendFrame ==
    ASSUME OBP!IInv, NEW r \in Runners, NEW live, RQ!SendStep(r, live)
    PROVE  /\ UNCHANGED <<rows, claim, token>>
           /\ pc[r] # "idle" /\ pc'[r] # "idle"
           /\ \A v \in Runners \ {r} : pc'[v] = pc[v] /\ result'[v] = result[v]
           /\ result'[r] = result[r] \/ result'[r] # "dry_run"
           /\ pc'[r] = "posted" => pc[r] = "posted" \/ RQ!Post(r)
<1> USE DEF OBP!IInv, OBP!TypeOK
<1>1. CASE \/ \E operation \in DOMAIN RQ!MadeAt : RQ!Reserve(r, operation, live)
           \/ RQ!RequestToken(r)
  BY <1>1 DEF RQ!Reserve, RQ!RequestToken, RQ!outbox, RQ!MadeAt
<1>2. CASE RQ!CheckAuthorization(r, live)
  <2>1. \A x \in DOMAIN RQ!OB!CheckPoints :
          x # "idle" /\ RQ!OB!CheckPoints[x] \notin {"idle", "posted"}
    BY DEF RQ!OB!CheckPoints
  <2> QED
    BY <1>2, <2>1 DEF RQ!CheckAuthorization, RQ!OB!Authorize, RQ!OB!AuthorizationRefused,
       RQ!OB!Reserve, RQ!OB!Goto, RQ!OB!Conclude
<1>3. CASE RQ!GetToken(r)
  BY <1>3 DEF RQ!GetToken, RQ!OB!GetToken, RQ!OB!Goto
<1>4. CASE RQ!NotSent(r) \/ RQ!Overdue(r)
  BY <1>4 DEF RQ!NotSent, RQ!Overdue, RQ!OB!PermanentFailure, RQ!OB!TransientFailure,
     RQ!OB!Unclassified, RQ!OB!Conclude
<1>5. CASE RQ!Post(r)
  BY <1>5 DEF RQ!Post, RQ!OB!Post
<1>6. ASSUME NEW outcome \in RQ!OB!Outcomes, RQ!Respond(r, outcome)
      PROVE  /\ UNCHANGED <<rows, claim, token>>
             /\ pc[r] # "idle" /\ pc'[r] = "finishing"
             /\ \A v \in Runners \ {r} : pc'[v] = pc[v] /\ result'[v] = result[v]
             /\ result'[r] # "dry_run"
  BY <1>6 DEF RQ!Respond, RQ!OB!Respond, RQ!OB!Conclude, RQ!OB!Classify, RQ!OB!Outcomes
<1> QED
  BY <1>1, <1>2, <1>3, <1>4, <1>5, <1>6 DEF RQ!SendStep

\* A run that is cut off leaves the rows alone, and its delivery.
LEMMA AbortFrame ==
    ASSUME OBP!IInv, NEW r \in Runners, RQ!Abort(r)
    PROVE  /\ rows' = rows /\ pc'[r] = "idle" /\ result'[r] \in {result[r], "none"}
           /\ \A v \in Runners \ {r} : /\ pc'[v] = pc[v] /\ claim'[v] = claim[v]
                                       /\ token'[v] = token[v] /\ result'[v] = result[v]
BY DEF OBP!IInv, OBP!TypeOK, RQ!Abort, RQ!OB!Crash, RQ!OB!Leave, RQ!outbox

\* So does the recording of a result, but for the row of the run.
LEMMA FinishFrame ==
    ASSUME OBP!IInv, NEW r \in Runners, OB!Finish(r) \/ OB!FencedOut(r)
    PROVE  /\ pc'[r] = "idle" /\ result'[r] = "none"
           /\ \A v \in Runners \ {r} : /\ pc'[v] = pc[v] /\ claim'[v] = claim[v]
                                       /\ token'[v] = token[v] /\ result'[v] = result[v]
BY DEF OBP!IInv, OBP!TypeOK, OB!Finish, OB!FencedOut, OB!Leave

\* A claim is the claiming run's.
LEMMA ClaimFrame ==
    ASSUME OBP!IInv, NEW r \in Runners, NEW m \in Messages, OB!Claim(r, m)
    PROVE  /\ pc'[r] = "claimed" /\ claim'[r] = m /\ result' = result
           /\ \A v \in Runners \ {r} : /\ pc'[v] = pc[v] /\ claim'[v] = claim[v]
                                       /\ token'[v] = token[v]
BY DEF OBP!IInv, OBP!TypeOK, OB!Claim

\* Who uses the outbox.
LEMMA Users ==
    ASSUME [Next]_vars
    PROVE  \/ UNCHANGED outbox
           \/ \E r \in Runners :
                \/ Recover(r) \/ Finish(r) \/ Sending(r) \/ DatabaseFails(r) \/ TimesOut(r) \/ Crash(r)
                \/ \E n \in Messages : Prepare(r, n) \/ Claim(r, n)
           \/ \E n \in Messages : TimePasses(n)
<1>1. ASSUME NEW r \in Runners, RunStep(r), ~Recover(r), ~Finish(r), ~Sending(r),
             ~\E n \in Messages : Prepare(r, n) \/ Claim(r, n)
      PROVE  UNCHANGED outbox
  <2>1. CASE \/ Assess(r) \/ CheckStopped(r) \/ Look(r) \/ ClaimNothing(r) \/ Fail(r)
             \/ Judge(r) \/ Close(r) \/ \E m \in {0, 1} : TakeJob(r, m)
    BY <2>1 DEF Assess, CheckStopped, Look, ClaimNothing, Fail, Judge, Close, TakeJob
  <2> QED
    BY <1>1, <2>1 DEF RunStep, SendStep
<1>2. ASSUME NEW r \in Runners, Start(r) \/ TakeJob(r, 2) PROVE UNCHANGED outbox
  BY <1>2 DEF Start, TakeJob
<1>3. CASE Stop \/ Wake \/ Revoke \/ WindowEnds \/ DueElapses \/ UNCHANGED vars
  BY <1>3 DEF Stop, Wake, Revoke, WindowEnds, DueElapses, vars
<1> QED
  BY <1>1, <1>2, <1>3 DEF Next

\* A first version of a row is inserted by the task of its message only.
LEMMA RowBegins ==
    ASSUME OBP!IInv, [Next]_vars, NEW m \in Messages,
           rows[m].state = "absent", rows'[m].state # "absent"
    PROVE  \E r \in Runners : Prepare(r, m)
<1>0. rows \in [Messages -> OBP!Rows] /\ OBP!TypeOK
  BY DEF OBP!IInv, OBP!TypeOK
<1>1. ASSUME NEW r \in Runners, NEW n \in Messages, Prepare(r, n), n # m PROVE FALSE
  BY <1>0, <1>1 DEF Prepare, OB!Enqueue, outbox
<1>2. ASSUME NEW r \in Runners, NEW n \in Messages, Claim(r, n) PROVE FALSE
  BY <1>0, <1>2 DEF Claim, OB!Claim, OB!ClaimRevoked, OB!MayClaim,
     OB!Claimable, OBP!Rows
<1>3. ASSUME NEW r \in Runners, Recover(r) PROVE FALSE
  <2>1. ~OB!Expired(m) /\ OB!RecoverDeliveries
    BY <1>3 DEF Recover, OB!Expired
  <2>2. rows'[m] = rows[m]
    BY <2>1, Zenon DEF OB!RecoverDeliveries
  <2> QED
    BY <2>2
<1>4. ASSUME NEW r \in Runners, Finish(r) PROVE FALSE
  <2>1. CASE OB!Finish(r)
    <3>1. rows[claim[r]].state = "in_flight"
      BY <2>1 DEF OB!Finish, OB!OwnsLease, OB!LeaseLive
    <3>2. claim[r] # m
      BY <3>1
    <3> QED
      BY <1>0, <2>1, <3>2 DEF OB!Finish, OBP!Rows
  <2>2. CASE OB!FencedOut(r)
    BY <2>2 DEF OB!FencedOut
  <2> QED
    BY <1>4, <2>1, <2>2 DEF Finish
<1>5. ASSUME NEW n \in Messages, TimePasses(n) PROVE FALSE
  BY <1>0, <1>5 DEF TimePasses, OB!LeaseExpires, OB!LeaseLive, OB!BackoffElapses,
     OB!Claimable, OBP!Rows
<1>6. ASSUME NEW r \in Runners, Sending(r) \/ DatabaseFails(r) \/ TimesOut(r) \/ Crash(r) PROVE FALSE
  <2>1. rows' = rows
    BY <1>6, SendFrame, AbortFrame DEF Sending, DatabaseFails, TimesOut, Crash
  <2> QED
    BY <2>1
<1>7. ~UNCHANGED outbox
  BY DEF outbox
<1>8. PICK r \in Runners : \E n \in Messages : Prepare(r, n)
  BY <1>2, <1>3, <1>4, <1>5, <1>6, <1>7, Users
<1> QED
  BY <1>1, <1>8

\* An accepted row stays accepted.
LEMMA StaysAccepted ==
    ASSUME OBP!IInv, [Next]_vars, NEW m \in Messages, rows[m].state = "accepted"
    PROVE  rows'[m].state = "accepted"
<1>1. UNCHANGED OB!outboxVars => UNCHANGED OBP!outboxVars
  BY DEF OB!outboxVars, OBP!outboxVars
<1> QED
  BY <1>1, StepUses, ServingStep, OutboxAssumed, OBP!AcceptedStays

\* What the rows say of a run: its second task follows the first one's acceptance,
\* and an acceptance it reports, of a message or of both, is theirs.
Warranted(x, table) ==
    /\ x.message = 2 => table[1].state = "accepted"
    /\ x.step = "judging" /\ x.status = "accepted" /\ x.message \in Messages =>
         table[x.message].state = "accepted"
    /\ x.step = "closing" /\ x.status = "C1_COMPLETED" =>
         \A m \in Messages : table[m].state = "accepted"

\* So with the second task when it waits in the queue, and with the second row.
Scheduled ==
    /\ run \in [Runners -> Runs]
    /\ (2 \in jobs) \/ rows[2].state # "absent" => rows[1].state = "accepted"
    /\ \A r \in Runners : Warranted(run[r], rows)

RunSteps == {"out", "recovering", "assessing", "working", "checking", "looking", "preparing",
             "claiming", "sending", "judging", "closing"}

\* Nothing is taken for an acceptance that is none, by no run.
LEMMA ScheduledStep == OBP!IInv /\ Scheduled /\ [Next]_vars => Scheduled'
<1> SUFFICES ASSUME OBP!IInv, Scheduled, [Next]_vars PROVE Scheduled'
  OBVIOUS
<1> DEFINE Queued == 2 \in jobs' => rows[1].state = "accepted"
<1>a. Messages = {1, 2}
  BY DEF Messages
<1>b. \A m \in Messages : rows[m].state = "accepted" => rows'[m].state = "accepted"
  BY StaysAccepted
<1>c. rows'[2].state # "absent" => rows'[1].state = "accepted"
  <2>1. ASSUME NEW r \in Runners, Prepare(r, 2) PROVE rows[1].state = "accepted"
    BY <2>1 DEF Prepare, Live, SecondDue
  <2> QED
    BY <1>a, <1>b, <2>1, RowBegins DEF Scheduled
<1>1. ASSUME NEW r \in Runners, NEW x \in Runs, run' = [run EXCEPT ![r] = x],
             Warranted(x, rows'), Queued
      PROVE  Scheduled'
  <2>1. run' \in [Runners -> Runs]
    BY <1>1 DEF Scheduled
  <2>2. ASSUME NEW v \in Runners PROVE Warranted(run'[v], rows')
    <3>1. CASE v = r
      BY <1>1, <3>1 DEF Scheduled
    <3>2. CASE v # r
      <4>1. run'[v] = run[v] /\ Warranted(run[v], rows)
        BY <1>1, <3>2 DEF Scheduled
      <4> QED
        BY <1>a, <1>b, <4>1 DEF Warranted
    <3> QED
      BY <3>1, <3>2
  <2> QED
    BY <1>a, <1>b, <1>c, <1>1, <2>1, <2>2 DEF Scheduled
<1>2. ASSUME run' = run, Queued PROVE Scheduled'
  <2>1. ASSUME NEW v \in Runners PROVE Warranted(run'[v], rows')
    BY <1>a, <1>b, <1>2 DEF Scheduled, Warranted
  <2> QED
    BY <1>a, <1>b, <1>c, <1>2, <2>1 DEF Scheduled
<1>3. ASSUME NEW r \in Runners, NEW from, NEW to \in RunSteps \ {"judging", "closing"},
             Goto(r, from, to), Queued
      PROVE  Scheduled'
  <2>1. run[r] \in Runs /\ Warranted(run[r], rows)
    BY DEF Scheduled
  <2>2. PICK x : x = [run[r] EXCEPT !.step = to]
    OBVIOUS
  <2>3. x \in Runs /\ x.step = to /\ x.message = run[r].message
    BY <2>1, <2>2 DEF Runs, RunSteps
  <2>4. Warranted(x, rows')
    BY <1>a, <1>b, <2>1, <2>3 DEF Warranted
  <2>5. run' = [run EXCEPT ![r] = x]
    BY <1>3, <2>2 DEF Goto
  <2> QED
    BY <1>1, <1>3, <2>3, <2>4, <2>5
<1>4. ASSUME NEW r \in Runners, NEW status \in Statuses, Conclude(r, status), Queued,
             status = "C1_COMPLETED" => \A m \in Messages : rows'[m].state = "accepted"
      PROVE  Scheduled'
  <2>1. run[r] \in Runs /\ Warranted(run[r], rows)
    BY DEF Scheduled
  <2>2. PICK x : x = [run[r] EXCEPT !.step = "closing", !.status = status]
    OBVIOUS
  <2>3. x \in Runs /\ x.step = "closing" /\ x.message = run[r].message /\ x.status = status
    BY <2>1, <2>2 DEF Runs
  <2>4. Warranted(x, rows')
    BY <1>a, <1>b, <1>4, <2>1, <2>3 DEF Warranted
  <2>5. run' = [run EXCEPT ![r] = x]
    BY <1>4, <2>2 DEF Conclude
  <2> QED
    BY <1>1, <1>4, <2>3, <2>4, <2>5
<1>5. ASSUME NEW r \in Runners, run' = [run EXCEPT ![r] = NoRun], Queued PROVE Scheduled'
  <2>1. NoRun \in Runs /\ Warranted(NoRun, rows')
    BY DEF NoRun, Runs, Warranted
  <2> QED
    BY <1>1, <1>5, <2>1
<1>6. jobs' \subseteq jobs \cup {0, 1} => Queued
  BY DEF Scheduled
<1> HIDE DEF Queued
<1>7. ASSUME NEW r \in Runners, RunStep(r) PROVE Scheduled'
  <2>1. CASE Recover(r)
    BY <1>3, <1>6, <2>1 DEF Recover, RunSteps
  <2>2. CASE Assess(r)
    <3>1. ASSUME SelectedStatus = "C1_COMPLETED"
          PROVE  \A m \in Messages : rows[m].state = "accepted"
      BY <3>1 DEF SelectedStatus
    <3>2. CASE Conclude(r, SelectedStatus) /\ jobs' = jobs
      <4>1. SelectedStatus \in Statuses
        BY DEF SelectedStatus, Statuses
      <4> QED
        BY <1>b, <1>4, <1>6, <3>1, <3>2, <4>1
    <3>3. CASE Goto(r, "assessing", "working") /\ jobs' = jobs \cup {1}
      BY <1>3, <1>6, <3>3 DEF RunSteps
    <3> QED
      BY <2>2, <3>2, <3>3 DEF Assess
  <2>3. ASSUME NEW m \in {0, 1}, TakeJob(r, m) PROVE Scheduled'
    <3>1. PICK x : x = [run[r] EXCEPT !.step = "checking", !.message = m]
      OBVIOUS
    <3>2. run[r] \in Runs
      BY DEF Scheduled
    <3>3. x \in Runs
      BY <3>1, <3>2 DEF Runs
    <3>4. x.step = "checking" /\ x.message # 2
      BY <3>1, <3>2 DEF Runs
    <3>5. Warranted(x, rows')
      BY <3>4 DEF Warranted
    <3>6. run' = [run EXCEPT ![r] = x] /\ jobs' \subseteq jobs
      BY <2>3, <3>1 DEF TakeJob
    <3> QED
      BY <1>1, <1>6, <3>3, <3>5, <3>6
  <2>4. CASE CheckStopped(r)
    BY <1>3, <1>4, <1>6, <2>4 DEF CheckStopped, RunSteps, Statuses
  <2>5. CASE Look(r)
    <3>1. CASE /\ rows[run[r].message].state = "accepted" /\ jobs' = jobs
               /\ run' = [run EXCEPT ![r] = [run[r] EXCEPT !.step = "judging",
                                                          !.status = "accepted"]]
      <4>1. PICK x : x = [run[r] EXCEPT !.step = "judging", !.status = "accepted"]
        OBVIOUS
      <4>2. run[r] \in Runs /\ Warranted(run[r], rows)
        BY DEF Scheduled
      <4>3. x \in Runs /\ x.step = "judging" /\ x.message = run[r].message
        BY <4>1, <4>2 DEF Runs, OB!DeliveryStates
      <4>4. Warranted(x, rows')
        BY <1>a, <1>b, <3>1, <4>2, <4>3 DEF Warranted
      <4> QED
        BY <1>1, <1>6, <3>1, <4>1, <4>3, <4>4
    <3>2. CASE /\ Conclude(r, "C1_UNKNOWN") \/ Conclude(r, "C1_FAILED")
               /\ jobs' = jobs
      BY <1>4, <1>6, <3>2 DEF Statuses
    <3>3. CASE Goto(r, "looking", "preparing") /\ jobs' = jobs
      BY <1>3, <1>6, <3>3 DEF RunSteps
    <3> QED
      BY <2>5, <3>1, <3>2, <3>3 DEF Look
  <2>6. ASSUME NEW m \in Messages, Prepare(r, m) PROVE Scheduled'
    BY <1>3, <1>6, <2>6 DEF Prepare, RunSteps
  <2>7. ASSUME NEW m \in Messages, Claim(r, m) PROVE Scheduled'
    BY <1>3, <1>4, <1>6, <2>7 DEF Claim, RunSteps, Statuses
  <2>8. CASE ClaimNothing(r) \/ Fail(r)
    BY <1>4, <1>6, <2>8 DEF ClaimNothing, Fail, Statuses
  <2>9. CASE Sending(r)
    BY <1>2, <1>6, <2>9 DEF Sending
  <2>10. CASE Finish(r)
    <3>1. CASE Conclude(r, "C1_EXECUTION_FAILED")
      BY <1>4, <1>6, <2>10, <3>1 DEF Finish, Statuses
    <3>2. CASE /\ OB!Finish(r)
               /\ run' = [run EXCEPT ![r] = [run[r] EXCEPT !.step = "judging",
                                                          !.status = OB!FinalState(r)]]
      <4>1. PICK x : x = [run[r] EXCEPT !.step = "judging", !.status = OB!FinalState(r)]
        OBVIOUS
      <4>2. run[r] \in Runs /\ Warranted(run[r], rows)
        BY DEF Scheduled
      <4>3. /\ rows \in [Messages -> OBP!Rows]
            /\ pc[r] = "finishing" /\ claim[r] \in Messages
            /\ OB!FinalState(r) \in OB!DeliveryStates
        <5>1. pc[r] = "finishing" /\ claim[r] \in Messages /\ result[r] \in OBP!Results
          BY <3>2 DEF OB!Finish, OBP!IInv, OBP!TypeOK, OBP!WorkerKnows
        <5> QED
          BY <5>1 DEF OBP!IInv, OBP!TypeOK, OBP!Results, OB!FinalState, OB!DeliveryStates
      <4>4. /\ x \in Runs /\ x.step = "judging" /\ x.message = run[r].message
            /\ x.status = OB!FinalState(r)
        BY <4>1, <4>2, <4>3 DEF Runs
      <4>5. rows[claim[r]].state = "in_flight" /\ rows'[claim[r]].state = OB!FinalState(r)
        BY <3>2, <4>3 DEF OB!Finish, OB!OwnsLease, OB!LeaseLive, OBP!Rows
      <4>6. x.status = "accepted" /\ x.message \in Messages => rows'[x.message].state = "accepted"
        <5>1. CASE claim[r] = 2
          <6>1. rows[1].state = "accepted" /\ rows'[1].state = "accepted"
            BY <1>a, <1>b, <4>5, <5>1 DEF Scheduled
          <6> QED
            BY <1>a, <4>4, <4>5, <5>1, <6>1
        <5>2. CASE claim[r] = 1
          <6>1. x.message # 2
            BY <4>2, <4>4, <4>5, <5>2 DEF Warranted
          <6> QED
            BY <1>a, <4>4, <4>5, <5>2, <6>1
        <5> QED
          BY <1>a, <4>3, <5>1, <5>2
      <4>7. Warranted(x, rows')
        BY <1>a, <1>b, <4>2, <4>4, <4>6 DEF Warranted
      <4> QED
        BY <1>1, <1>6, <2>10, <3>2, <4>1, <4>4, <4>7 DEF Finish
    <3> QED
      BY <2>10, <3>1, <3>2 DEF Finish
  <2>11. CASE Judge(r)
    <3>0. Warranted(run[r], rows)
      BY DEF Scheduled
    <3>1. CASE /\ run[r].step = "judging" /\ run[r].status = "accepted" /\ run[r].message = 1
               /\ Goto(r, "judging", "working")
      <4>1. rows[1].state = "accepted"
        BY <1>a, <3>0, <3>1 DEF Warranted
      <4> QED
        BY <1>3, <3>1, <4>1 DEF RunSteps, Queued
    <3>2. CASE Conclude(r, "C1_EXPIRED") /\ jobs' = jobs
      BY <1>4, <1>6, <3>2 DEF Statuses
    <3>3. ASSUME run[r].step = "judging", run[r].status = "accepted" => run[r].message = 2,
                 jobs' = jobs,
                 NEW status, Conclude(r, status),
                 status = CASE run[r].status = "accepted" -> "C1_COMPLETED"
                            [] run[r].status = "unknown" -> "C1_UNKNOWN"
                            [] OTHER -> "C1_FAILED"
          PROVE  Scheduled'
      <4>1. status \in Statuses /\ (status = "C1_COMPLETED" => run[r].status = "accepted")
        BY <3>3 DEF Statuses
      <4>2. run[r].status = "accepted" => \A m \in Messages : rows[m].state = "accepted"
        BY <1>a, <3>0, <3>3 DEF Warranted
      <4> QED
        BY <1>b, <1>4, <1>6, <3>3, <4>1, <4>2
    <3> QED
      BY <2>11, <3>1, <3>2, <3>3 DEF Judge
  <2>12. CASE Close(r)
    BY <1>5, <1>6, <2>12 DEF Close
  <2> QED
    BY <1>7, <2>1, <2>2, <2>3, <2>4, <2>5, <2>6, <2>7, <2>8, <2>9, <2>10, <2>11, <2>12
       DEF RunStep, SendStep
<1>8. ASSUME NEW r \in Runners, Start(r) PROVE Scheduled'
  BY <1>3, <1>6, <1>8 DEF Start, RunSteps
<1>9. ASSUME NEW r \in Runners, TakeJob(r, 2) PROVE Scheduled'
  <2>1. PICK x : x = [run[r] EXCEPT !.step = "checking", !.message = 2]
    OBVIOUS
  <2>2. run[r] \in Runs /\ rows'[1].state = "accepted"
    BY <1>a, <1>b, <1>9 DEF Scheduled, TakeJob
  <2>3. x \in Runs /\ Warranted(x, rows')
    BY <2>1, <2>2 DEF Runs, Warranted
  <2>4. run' = [run EXCEPT ![r] = x] /\ jobs' \subseteq jobs
    BY <1>9, <2>1 DEF TakeJob
  <2> QED
    BY <1>1, <1>6, <2>3, <2>4
<1>10. ASSUME NEW r \in Runners, DatabaseFails(r) \/ TimesOut(r) PROVE Scheduled'
  BY <1>4, <1>6, <1>10 DEF DatabaseFails, TimesOut, Statuses
<1>11. ASSUME NEW r \in Runners, Crash(r) PROVE Scheduled'
  BY <1>5, <1>6, <1>11 DEF Crash
<1>12. CASE \/ Stop \/ Wake \/ Revoke \/ WindowEnds \/ DueElapses \/ UNCHANGED vars
            \/ \E m \in Messages : TimePasses(m)
  BY <1>2, <1>6, <1>12 DEF Stop, Wake, Revoke, WindowEnds, DueElapses, TimePasses, vars
<1> QED
  BY <1>7, <1>8, <1>9, <1>10, <1>11, <1>12 DEF Next

\* What was answered stays so, until the attempt it belongs to is answered again.
LEMMA AnswerStays ==
    ASSUME Posted, [Next]_vars, NEW q \in RQ!Made, calls[q] = "responded"
    PROVE  /\ q \in RQ!Made'
           /\ \/ calls'[q] = "responded"
              \/ \E r \in Runners : \E outcome \in RQ!OB!Outcomes :
                   Sending(r) /\ RQ!Respond(r, outcome) /\ q = RQ!Own(r, "message_send")
<1>1. q \in RQ!Made'
  BY NothingForgotten
<1> DEFINE Kept == calls'[q] = "responded"
<1>2. ASSUME NEW p, NEW phase, RQ!Observe(p, phase), p # q PROVE Kept
  BY <1>2 DEF RQ!Observe
<1>3. RQ!PhaseOf(q) = "responded"
  BY DEF RQ!PhaseOf
<1>4. ASSUME NEW r \in Runners, Sending(r), ~\E outcome \in RQ!OB!Outcomes : RQ!Respond(r, outcome)
      PROVE  Kept
  <2>1. CASE \E operation \in DOMAIN RQ!MadeAt : RQ!Reserve(r, operation, Live(claim[r]))
    BY <1>2, <2>1 DEF RQ!Reserve, RQ!Charge
  <2>2. CASE RQ!CheckAuthorization(r, Live(claim[r])) \/ RQ!Overdue(r)
    BY <2>2 DEF RQ!CheckAuthorization, RQ!Overdue
  <2>3. CASE RQ!RequestToken(r)
    BY <1>2, <1>3, <2>3 DEF RQ!RequestToken
  <2>4. CASE RQ!GetToken(r)
    BY <1>2, <1>3, <2>4 DEF RQ!GetToken
  <2>5. CASE RQ!NotSent(r)
    BY <1>2, <1>3, <2>5 DEF RQ!NotSent
  <2>6. CASE RQ!Post(r)
    BY <1>2, <1>3, <2>6 DEF RQ!Post
  <2> QED
    BY <1>4, <2>1, <2>2, <2>3, <2>4, <2>5, <2>6 DEF Sending, RQ!SendStep
<1>5. ASSUME calls' = calls PROVE Kept
  BY <1>5
<1>6. calls' = calls \/ \E r \in Runners : Sending(r)
  BY OnlySendingCounts
<1>7. ASSUME NEW r \in Runners, Sending(r), NEW outcome \in RQ!OB!Outcomes, RQ!Respond(r, outcome),
             q # RQ!Own(r, "message_send")
      PROVE  Kept
  BY <1>2, <1>7 DEF RQ!Respond
<1> QED
  BY <1>1, <1>4, <1>5, <1>6, <1>7

\* A request to send a message was answered.
Responded(p) == \E q \in RQ!Sends : q[2] = p /\ calls[q] = "responded"

\* An acceptance, recorded or about to be, comes from an answer in the ledger.
Answered ==
    /\ \A r \in Runners :
         pc[r] = "finishing" /\ result[r] = "accepted" => Responded(claim[r])
    /\ \A p \in Messages : rows[p].state = "accepted" => Responded(p)

\* A message that was answered stays so while none of its attempts is under way.
LEMMA RespondedStays ==
    ASSUME Posted, [Next]_vars, NEW p, Responded(p),
           \A r \in Runners : pc[r] = "posted" => claim[r] # p
    PROVE  Responded(p)'
<1>1. PICK q \in RQ!Sends : q[2] = p /\ calls[q] = "responded"
  BY DEF Responded
<1>2. q \in RQ!Made /\ q[1] = "message_send"
  BY <1>1 DEF RQ!Sends
<1>3. ASSUME NEW r \in Runners, NEW outcome, RQ!Respond(r, outcome), q = RQ!Own(r, "message_send")
      PROVE  FALSE
  BY <1>1, <1>3 DEF RQ!Respond, RQ!OB!Respond, RQ!Own
<1>4. q \in RQ!Made' /\ calls'[q] = "responded"
  BY <1>1, <1>2, <1>3, AnswerStays
<1> QED
  BY <1>1, <1>2, <1>4 DEF Responded, RQ!Sends

\* Only an answer makes an acceptance.
LEMMA Acceptance ==
    ASSUME OBP!IInv, Posted, Answered, [Next]_vars,
           NEW r \in Runners, pc'[r] = "finishing", result'[r] = "accepted"
    PROVE  \E q \in RQ!Sends' : q[2] = claim'[r] /\ calls'[q] = "responded"
<1>1. CASE pc[r] = "finishing" /\ result[r] = "accepted" /\ claim'[r] = claim[r]
  <2>1. \A v \in Runners : pc[v] = "posted" => claim[v] # claim[r]
    <3>1. claim[r] # None
      BY <1>1 DEF OBP!IInv
    <3> QED
      BY <1>1, <3>1 DEF OBP!IInv, OBP!OneWorkerPerDelivery
  <2>2. Responded(claim[r])
    BY <1>1 DEF Answered
  <2> QED
    BY <1>1, <2>1, <2>2, RespondedStays DEF Responded
<1>2. CASE Sending(r) /\ ~(pc[r] = "finishing" /\ result[r] = "accepted")
  <2>1. pc \in [Runners -> OBP!Steps] /\ result \in [Runners -> OBP!Results \cup {"none"}]
    BY DEF OBP!IInv, OBP!TypeOK
  <2>2. PICK outcome \in RQ!OB!Outcomes : RQ!Respond(r, outcome)
    <3>1. CASE \/ \E operation \in DOMAIN RQ!MadeAt :
                    RQ!Reserve(r, operation, Live(claim[r]))
               \/ RQ!RequestToken(r)
      BY <1>2, <3>1 DEF RQ!Reserve, RQ!RequestToken, RQ!outbox
    <3>2. CASE RQ!CheckAuthorization(r, Live(claim[r]))
      <4>1. \A x \in DOMAIN RQ!OB!CheckPoints : RQ!OB!CheckPoints[x] # "finishing"
        BY DEF RQ!OB!CheckPoints
      <4> QED
        BY <2>1, <3>2, <4>1 DEF RQ!CheckAuthorization, RQ!OB!Authorize,
           RQ!OB!AuthorizationRefused, RQ!OB!Reserve, RQ!OB!Goto, RQ!OB!Conclude
    <3>3. CASE RQ!GetToken(r) \/ RQ!Post(r)
      BY <2>1, <3>3 DEF RQ!GetToken, RQ!OB!GetToken, RQ!OB!Goto, RQ!Post, RQ!OB!Post
    <3>4. CASE RQ!NotSent(r) \/ RQ!Overdue(r)
      BY <2>1, <3>4 DEF RQ!NotSent, RQ!Overdue, RQ!OB!PermanentFailure, RQ!OB!TransientFailure,
         RQ!OB!Unclassified, RQ!OB!Conclude
    <3> QED
      BY <1>2, <3>1, <3>2, <3>3, <3>4 DEF Sending, RQ!SendStep
  <2>3. outcome = "accepted"
    BY <2>1, <2>2 DEF RQ!Respond, RQ!OB!Respond, RQ!OB!Conclude, RQ!OB!Classify, RQ!OB!Outcomes
  <2> DEFINE q == RQ!Own(r, "message_send")
  <2>4. RQ!Observe(q, "responded") /\ claim' = claim
    BY <2>2, <2>3 DEF RQ!Respond, RQ!OB!Respond, RQ!OB!Conclude
  <2>5. q \in RQ!Made' /\ calls'[q] = "responded"
    BY <2>4, Recording DEF RQ!Observe
  <2>6. q[1] = "message_send" /\ q[2] = claim'[r]
    BY <2>4 DEF RQ!Own
  <2> HIDE DEF q
  <2> QED
    BY <2>5, <2>6 DEF Responded, RQ!Sends
<1>3. CASE ~Sending(r)
  <2> DEFINE Same == pc[r] = "finishing" /\ result[r] = "accepted" /\ claim'[r] = claim[r]
  <2>1. ASSUME NEW v \in Runners, Sending(v) PROVE Same
    BY <1>3, <2>1, SendFrame DEF Sending
  <2>2. ASSUME NEW v \in Runners, Finish(v) \/ DatabaseFails(v) \/ TimesOut(v) \/ Crash(v) PROVE Same
    BY <2>2, FinishFrame, AbortFrame DEF Finish, DatabaseFails, TimesOut, Crash
  <2>3. ASSUME NEW v \in Runners, NEW m \in Messages, Claim(v, m) PROVE Same
    <3>1. OB!Claim(v, m) \/ UNCHANGED <<pc, claim, result>>
      BY <2>3 DEF Claim, OB!ClaimRevoked, OB!workerVars
    <3> QED
      BY <3>1, ClaimFrame
  <2>4. ASSUME UNCHANGED <<pc, claim, result>> PROVE Same
    BY <2>4
  <2>5. ASSUME \/ \E v \in Runners, m \in Messages : Prepare(v, m)
               \/ \E v \in Runners : Recover(v)
               \/ \E m \in Messages : TimePasses(m)
               \/ UNCHANGED outbox
        PROVE  Same
    <3>1. ASSUME NEW v \in Runners, NEW m \in Messages, Prepare(v, m)
          PROVE  UNCHANGED <<pc, claim, result>>
      BY <3>1 DEF Prepare, OB!Enqueue, OB!workerVars, outbox
    <3>2. ASSUME NEW v \in Runners, Recover(v) PROVE UNCHANGED <<pc, claim, result>>
      <4>1. UNCHANGED OB!workerVars
        BY <3>2, Zenon DEF Recover, OB!RecoverDeliveries
      <4> QED
        BY <4>1 DEF OB!workerVars
    <3>3. ASSUME NEW m \in Messages, TimePasses(m) PROVE UNCHANGED <<pc, claim, result>>
      BY <3>3 DEF TimePasses, OB!LeaseExpires, OB!BackoffElapses, OB!workerVars
    <3>4. UNCHANGED outbox => UNCHANGED <<pc, claim, result>>
      BY DEF outbox
    <3> QED
      BY <2>4, <2>5, <3>1, <3>2, <3>3, <3>4
  <2> HIDE DEF Same
  <2>6. Same
    BY <2>1, <2>2, <2>3, <2>5, Users
  <2> QED
    BY <1>1, <2>6 DEF Same
<1> QED
  BY <1>1, <1>2, <1>3, SendFrame DEF Sending

\* A row is accepted by the worker whose result says so.
LEMMA RowAccepted ==
    ASSUME OBP!IInv, [Next]_vars, NEW m \in Messages,
           rows[m].state # "accepted", rows'[m].state = "accepted"
    PROVE  \E r \in Runners : pc[r] = "finishing" /\ result[r] = "accepted" /\ claim[r] = m
<1>0. rows \in [Messages -> OBP!Rows]
  BY DEF OBP!IInv, OBP!TypeOK
<1>1. ASSUME NEW r \in Runners, NEW n \in Messages, Prepare(r, n) PROVE FALSE
  BY <1>0, <1>1 DEF Prepare, OB!Enqueue, OB!NewRow, outbox
<1>2. ASSUME NEW r \in Runners, NEW n \in Messages, Claim(r, n) PROVE FALSE
  BY <1>0, <1>2 DEF Claim, OB!Claim, OB!ClaimRevoked, OBP!Rows
<1>3. ASSUME NEW r \in Runners, Recover(r) PROVE FALSE
  <2>1. rows'[m] = IF OB!Expired(m)
                   THEN [rows[m] EXCEPT !.state = "unknown", !.token = 0, !.lease = "none"]
                   ELSE rows[m]
    BY <1>3, Zenon DEF Recover, OB!RecoverDeliveries
  <2> QED
    BY <1>0, <2>1 DEF OBP!Rows
<1>4. ASSUME NEW n \in Messages, TimePasses(n) PROVE FALSE
  BY <1>0, <1>4 DEF TimePasses, OB!LeaseExpires, OB!BackoffElapses, OBP!Rows
<1>5. ASSUME NEW r \in Runners, Sending(r) \/ DatabaseFails(r) \/ TimesOut(r) \/ Crash(r) PROVE FALSE
  <2>1. rows' = rows
    BY <1>5, SendFrame, AbortFrame DEF Sending, DatabaseFails, TimesOut, Crash
  <2> QED
    BY <2>1
<1>6. ASSUME NEW r \in Runners, Finish(r)
      PROVE  pc[r] = "finishing" /\ result[r] = "accepted" /\ claim[r] = m
  <2>1. OB!Finish(r)
    BY <1>6 DEF Finish, OB!FencedOut
  <2>2. claim[r] = m
    BY <1>0, <2>1 DEF OB!Finish, OBP!Rows
  <2>3. OB!FinalState(r) = "accepted"
    BY <1>0, <2>1, <2>2 DEF OB!Finish, OBP!Rows
  <2> QED
    BY <2>1, <2>2, <2>3 DEF OB!Finish, OB!FinalState
<1>7. ~UNCHANGED outbox
  BY DEF outbox
<1> QED
  BY <1>1, <1>2, <1>3, <1>4, <1>5, <1>6, <1>7, Users

\* No acceptance is recorded that the ledger does not answer for.
LEMMA AnsweredStep == OBP!IInv /\ Posted /\ Answered /\ [Next]_vars => Answered'
<1> SUFFICES ASSUME OBP!IInv, Posted, Answered, [Next]_vars PROVE Answered'
  OBVIOUS
<1>1. ASSUME NEW m \in Messages, rows'[m].state = "accepted" PROVE Responded(m)'
  <2>1. CASE rows[m].state = "accepted"
    <3>1. ASSUME NEW r \in Runners, pc[r] = "posted", claim[r] = m PROVE FALSE
      BY <2>1, <3>1, ExerciseAssumption DEF OBP!IInv, OBP!WorkerKnows
    <3> QED
      BY <2>1, <3>1, RespondedStays DEF Answered
  <2>2. CASE rows[m].state # "accepted"
    <3>1. PICK r \in Runners : pc[r] = "finishing" /\ result[r] = "accepted" /\ claim[r] = m
      BY <1>1, <2>2, RowAccepted
    <3>2. \A v \in Runners : pc[v] = "posted" => claim[v] # m
      BY <3>1, ExerciseAssumption DEF OBP!IInv, OBP!OneWorkerPerDelivery
    <3> QED
      BY <3>1, <3>2, RespondedStays DEF Answered
  <2> QED
    BY <2>1, <2>2
<1> QED
  BY <1>1, Acceptance DEF Answered, Responded

\* All of it together, in every reachable state.
LEMMA Carried ==
    Spec => [](OBP!IInv /\ Posted /\ Ordered /\ Accounted /\ Scheduled /\ Answered)
<1>1. OBP!Init => OBP!IInv
  BY OutboxAssumed, OBP!InitIInv
<1>2. OBP!IInv /\ [OBP!Next]_(OBP!outboxVars) => OBP!IInv'
  BY OutboxAssumed, OBP!StepIInv
<1>3. Init => Posted /\ Ordered /\ Accounted /\ Answered
  <2> SUFFICES ASSUME Init PROVE Posted /\ Ordered /\ Accounted /\ Answered
    OBVIOUS
  <2>1. calls = << >> /\ \A r \in Runners : pc[r] = "idle"
    BY DEF Init, RQ!Init, RQ!OB!Init
  <2>2. \A m \in Messages : arrived[m] = {}
    BY DEF Init, RQ!Init, RQ!OB!Init
  <2>3. RQ!Made = {} /\ RQ!Sends = {}
    BY <2>1 DEF RQ!Made, RQ!Sends
  <2>4. IsFiniteSet({}) /\ Cardinality({}) = 0
    BY FS_EmptySet
  <2>5. \A m \in Messages : rows[m].state = "absent"
    BY DEF Init, RQ!Init, RQ!OB!Init, RQ!OB!NoRow
  <2> QED
    BY <2>1, <2>2, <2>3, <2>4, <2>5, ExerciseAssumption DEF Posted, Ordered, Accounted, Answered
<1>4. Init => Scheduled
  <2> SUFFICES ASSUME Init PROVE Scheduled
    OBVIOUS
  <2>1. run = [r \in Runners |-> NoRun] /\ NoRun \in Runs /\ jobs = {}
    BY DEF Init, NoRun, Runs
  <2>2. \A r \in Runners : run[r] = NoRun
    BY <2>1
  <2>3. Warranted(NoRun, rows)
    BY DEF Warranted, NoRun
  <2>4. rows[2].state = "absent"
    BY DEF Init, RQ!Init, RQ!OB!Init, RQ!OB!NoRow, Messages
  <2> QED
    BY <2>1, <2>2, <2>3, <2>4 DEF Scheduled
<1> QED
  BY <1>1, <1>2, <1>3, <1>4, InitSimulation, StepSimulation, SameOutbox, PostedStep, OrderedStep,
     AccountedStep, ScheduledStep, AnsweredStep, PTL DEF Spec

\* Neither message is sent twice, and its row tells the truth of it, whatever is
\* resumed, killed or run at once, for any number of runs and any allowances
\* (send_c1_once).
THEOREM NoMessageTwice == Spec => [](OB!AtMostOneArrival /\ OB!RowsTellTheTruth)
<1>1. OBP!IInv => OB!AtMostOneArrival /\ OB!RowsTellTheTruth
  BY DEF OBP!IInv, OBP!AtMostOneArrival, OB!AtMostOneArrival, OBP!RowsTellTheTruth,
         OB!RowsTellTheTruth, OBP!Undelivered, OB!Undelivered
<1> QED
  BY <1>1, Carried, PTL

\* For any number of runs, no request for the second message is made before its
\* time (c1_second_due, reserve_c1_request).
THEOREM SecondComesSecond == Spec => []SecondAfterFirst
<1>1. OBP!IInv /\ Ordered => SecondAfterFirst
  BY DEF OBP!IInv, OBP!RowsTellTheTruth, Ordered, SecondAfterFirst, Messages
<1> QED
  BY <1>1, Carried, PTL

\* For any number of runs, the approval's allowances are shared by all of them,
\* and what arrived was recorded as started (reserve_c1_request).
THEOREM AllowancesHold == Spec => []WithinApproval
<1>1. Accounted => WithinApproval
  BY SameCardinality DEF Accounted, WithinApproval
<1> QED
  BY <1>1, Carried, PTL

\* For any number of runs, a stop or a revocation lets nothing go out that was not
\* reserved before (c1_live_grant).
THEOREM StopIsSilence == Spec => StoppedStaysSilent
<1>1. ASSUME OBP!IInv, Posted, [Next]_vars, blocked \/ revoked
      PROVE  /\ RQ!Made' = RQ!Made
             /\ \A m \in Messages : arrived'[m] # arrived[m] =>
                  \E q \in RQ!Sends : q[2] = m /\ calls[q] = "reserved"
  <2>1. RQ!Made' = RQ!Made
    <3>1. ASSUME NEW p \in RQ!Made, NEW phase, RQ!Observe(p, phase) PROVE RQ!Made' = RQ!Made
      BY <3>1, Recording
    <3>2. calls' = calls => RQ!Made' = RQ!Made
      BY DEF RQ!Made
    <3>3. ASSUME NEW r \in Runners PROVE ~Live(claim[r])
      BY <1>1 DEF Live
    <3>4. ASSUME NEW r \in Runners, NEW operation \in DOMAIN RQ!MadeAt,
                 RQ!Reserve(r, operation, Live(claim[r]))
          PROVE  FALSE
      BY <3>3, <3>4, Reservation
    <3> QED
      BY <1>1, <3>1, <3>2, <3>4, LedgerStep
  <2>2. ASSUME NEW m \in Messages, arrived'[m] # arrived[m]
        PROVE  \E q \in RQ!Sends : q[2] = m /\ calls[q] = "reserved"
    <3>1. PICK r \in Runners : RQ!Post(r) /\ claim[r] = m
      BY <1>1, <2>2, Posting
    <3> DEFINE q == RQ!Own(r, "message_send")
    <3>2. q \in RQ!Made /\ calls[q] = "reserved"
      BY <3>1 DEF RQ!Post, RQ!PhaseOf
    <3>3. q[1] = "message_send" /\ q[2] = m
      BY <3>1 DEF RQ!Own
    <3> QED
      BY <3>2, <3>3 DEF RQ!Sends
  <2> QED
    BY <2>1, <2>2
<1>2. OBP!IInv /\ Posted /\ [Next]_vars =>
        [blocked \/ revoked =>
           /\ RQ!Made' = RQ!Made
           /\ \A m \in Messages : arrived'[m] # arrived[m] =>
                \E q \in RQ!Sends : q[2] = m /\ calls[q] = "reserved"]_vars
  BY <1>1
<1> QED
  BY <1>2, Carried, PTL DEF Spec, StoppedStaysSilent

\* For any number of runs, one that prints C1_COMPLETED is right of both messages,
\* whatever an earlier run left and however often the exercise was resumed
\* (selected_status, run_two_tasks).
THEOREM CompletionMeansBoth == Spec => []CompletedMeansBoth
<1>1. OBP!IInv /\ Scheduled /\ Answered => CompletedMeansBoth
  <2> SUFFICES ASSUME OBP!IInv, Scheduled, Answered,
                      NEW r \in Runners, Prints(r, "C1_COMPLETED"), NEW m \in Messages
               PROVE  /\ rows[m].state = "accepted" /\ arrived[m] # {}
                      /\ \E q \in RQ!Sends : q[2] = m /\ calls[q] = "responded"
    BY DEF CompletedMeansBoth
  <2>1. rows[m].state = "accepted"
    BY DEF Scheduled, Warranted, Prints
  <2> QED
    BY <2>1 DEF OBP!IInv, OBP!RowsTellTheTruth, Answered, Responded
<1> QED
  BY <1>1, Carried, PTL

-----------------------------------------------------------------------------
(* The preparation of the exercise, for any terminals, passwords, starts   *)
(* and tenants.  Its properties rest on what a command knows: what it      *)
(* remembers of the file is still there (Remembered), as a field is bound  *)
(* once and only against the file it read; each step has what the steps    *)
(* before it made sure of (Needs); and the database that exists was made   *)
(* with the file's password (OwnDatabase), from which no other is ever     *)
(* opened.                                                                 *)

Commands == [kind : Kinds, step : Steps, known : Configurations]

\* What a command remembers of the file is still there: a field is bound once.
Remembered(t) == \A f \in Fields : Known(t, f) # Null => Known(t, f) = file[f]

\* The container there is was made with the password of the file, and so was the
\* volume; the container written down is that one.
OwnDatabase ==
    /\ container # Nothing => /\ container.id \in {Fixed, Composed}
                              /\ file.password # Null
                              /\ container.key = file.password /\ volume = file.password
    /\ file.database # Null => container # Nothing /\ container.id = file.database

\* What a command has made sure of when it comes to a step.
HasPassword == {"verifying", "composing", "connecting", "deciding"}

Needs(t, step) ==
    /\ step \in HasPassword => Known(t, "password") # Null
    /\ step = "composing" => volume \in {Null, file.password}
    /\ step = "naming" => container # Nothing
    /\ step \in {"connecting", "deciding"} => Known(t, "database") # Null
    /\ step = "deciding" => schema = {"tables", "queue"}
    /\ step \in {"launching", "looking", "binding", "sending"} => Known(t, "start") # Null
    /\ step = "sending" => Known(t, "tenant") # Null
    /\ step \in {"looking", "binding"} => executing = t
    /\ step = "looking" => asked = 0

Founded(t) == Needs(t, cmd[t].step)

\* The tenant is asked for once at most.
AskedOnce == asked \in {0, 1}

\* Messages were sent for what the file says and will say for ever.
SentForTheFile ==
    acted # {} => /\ file.start # Null /\ file.tenant # Null
                  /\ acted = {<<file.start, file.tenant>>}

PreparationInv ==
    /\ PreparationTypeOK /\ cmd \in [Terminals -> Commands]
    /\ \A t \in Terminals : Remembered(t) /\ Founded(t)
    /\ OwnDatabase /\ AskedOnce /\ SentForTheFile

-----------------------------------------------------------------------------
\* A configuration of which one field is bound is a configuration.
LEMMA BoundConfiguration ==
    ASSUME NEW c \in Configurations, NEW f \in Fields, NEW v \in Values[f]
    PROVE  /\ [c EXCEPT ![f] = v] \in Configurations
           /\ [c EXCEPT ![f] = v][f] = v
           /\ \A g \in Fields : g # f => [c EXCEPT ![f] = v][g] = c[g]
  BY DEF Configurations

\* The file of an empty machine has no field bound.
LEMMA BlankConfiguration == Blank \in Configurations /\ \A f \in Fields : Blank[f] = Null
  <1>1. \A S : Blank \in [Fields -> S \cup {Null}]
    BY DEF Blank
  <1>2. \A f \in Fields : Blank[f] \in Values[f] \cup {Null}
    BY DEF Blank
  <1>3. Blank \in Configurations
    <2> DEFINE S == UNION {Values[f] : f \in Fields}
    <2>1. Blank \in [Fields -> S \cup {Null}]
      BY ONLY <1>1
    <2> QED
      BY ONLY <1>2, <2>1 DEF Configurations
  <1> QED
    BY <1>3 DEF Blank

\* What each field of a configuration may hold.
LEMMA FieldTypes ==
    ASSUME NEW c \in Configurations
    PROVE  /\ c.password \in Secrets \cup {Null} /\ c.database \in {Fixed, Composed, Null}
           /\ c.start \in Starts \cup {Null} /\ c.tenant \in Tenants \cup {Null}
  BY DEF Configurations, Fields, Values

\* What a command would bind, and when.
LEMMA OfferedWhen ==
    ASSUME PreparationInv, NEW t \in Terminals, NEW f, NEW v \in Offered(t, f)
    PROVE  /\ f \in Fields /\ v \in Values[f]
           /\ \/ f = "password" /\ At(t, "drawing") /\ v \in Secrets
              \/ f = "database" /\ At(t, "naming") /\ v = container.id /\ container # Nothing
              \/ f = "start" /\ At(t, "deciding") /\ v \in Starts
              \/ f = "scope" /\ At(t, "deciding")
              \/ f = "tenant" /\ At(t, "binding") /\ v \in Tenants
  <1>1. (At(t, "naming") => container # Nothing /\ container.id \in {Fixed, Composed})
    BY DEF PreparationInv, Founded, Needs, OwnDatabase, At
  <1> QED
    BY <1>1 DEF Offered, Fields, Values

\* What binding a field does to the file.
LEMMA BindFacts ==
    ASSUME PreparationInv, NEW t \in Terminals, NEW f \in Fields, NEW v \in Values[f],
           Bind(t, f, v)
    PROVE  /\ file = cmd[t].known /\ file[f] = Null
           /\ file' \in Configurations /\ file'[f] = v
           /\ \A g \in Fields : g # f => file'[g] = file[g]
  <1>1. file \in Configurations
    BY DEF PreparationInv, PreparationTypeOK
  <1> QED
    BY <1>1, BoundConfiguration DEF Bind

\* A container that exists has its password in the file, so that none is bound
\* any more; and the one that is written down exists.
LEMMA BindKeepsDatabase ==
    ASSUME PreparationInv, NEW t \in Terminals, NEW f, NEW v \in Offered(t, f), Bind(t, f, v),
           UNCHANGED <<container, volume>>
    PROVE  OwnDatabase'
  <1>1. /\ f \in Fields /\ v \in Values[f]
        /\ f = "database" => v = container.id /\ container # Nothing
    BY OfferedWhen
  <1>2. /\ file[f] = Null /\ file'[f] = v
        /\ \A g \in Fields : g # f => file'[g] = file[g]
        /\ file \in Configurations /\ file' \in Configurations
    BY <1>1, BindFacts DEF PreparationInv, PreparationTypeOK
  <1>3. OwnDatabase
    BY DEF PreparationInv
  <1>4. "password" \in Fields /\ "database" \in Fields
    BY DEF Fields
  <1>5. container # Nothing => f # "password" /\ file'["password"] = file["password"]
    BY <1>2, <1>3, <1>4 DEF OwnDatabase
  <1>6. file'["database"] # Null => container # Nothing /\ container.id = file'["database"]
    BY <1>1, <1>2, <1>3, <1>4 DEF OwnDatabase
  <1> QED
    BY <1>2, <1>3, <1>5, <1>6 DEF OwnDatabase, Nothing

\* Binding a field changes nothing of what was sent under the file.
LEMMA BindKeepsSent ==
    ASSUME PreparationInv, NEW t \in Terminals, NEW f \in Fields, NEW v \in Values[f],
           Bind(t, f, v), UNCHANGED acted
    PROVE  SentForTheFile'
  <1>1. /\ file[f] = Null
        /\ \A g \in Fields : g # f => file'[g] = file[g]
    BY BindFacts
  <1>2. "start" \in Fields /\ "tenant" \in Fields
    BY DEF Fields
  <1>3. SentForTheFile
    BY DEF PreparationInv
  <1> QED
    BY <1>1, <1>2, <1>3 DEF SentForTheFile

-----------------------------------------------------------------------------
\* What one command may do without shaking what another has made sure of.
Leaves(o) ==
    /\ \A f \in Fields : file[f] # Null => file'[f] = file[f]
    /\ volume' \in {volume, file.password}
    /\ container # Nothing => container' # Nothing
    /\ schema \subseteq schema' /\ schema' \subseteq {"tables", "queue"}
    /\ executing = o => executing' = o /\ asked' = asked

\* What a terminal leaves alone, another command may go on to rely on.
LEMMA OthersFounded ==
    ASSUME PreparationInv, NEW o \in Terminals, cmd'[o] = cmd[o], Leaves(o)
    PROVE  Remembered(o)' /\ Founded(o)'
  <1>1. Remembered(o) /\ Founded(o)
    BY DEF PreparationInv
  <1>2. Remembered(o)'
    BY <1>1 DEF Remembered, Known, Leaves
  <1>3. At(o, "composing") => volume' \in {Null, file'.password}
    <2>1. "password" \in Fields
      BY DEF Fields
    <2>2. At(o, "composing") => file.password # Null /\ file'.password = file.password
      BY <1>1, <2>1 DEF Remembered, Founded, Needs, HasPassword, At, Leaves, Known
    <2> QED
      BY <1>1, <2>2 DEF Founded, Needs, Leaves, At
  <1>4. /\ At(o, "naming") => container' # Nothing
        /\ At(o, "deciding") => schema' = {"tables", "queue"}
        /\ cmd[o].step \in {"looking", "binding"} => executing' = o
        /\ At(o, "looking") => asked' = 0
    BY <1>1 DEF Founded, Needs, Leaves, At
  <1> QED
    BY <1>1, <1>2, <1>3, <1>4 DEF Founded, Needs, Known, At, HasPassword, Nothing

\* One command moves on, to a step whose conditions are met.
LEMMA CommandInv ==
    ASSUME PreparationInv, NEW t \in Terminals, NEW c \in Commands,
           cmd' = [cmd EXCEPT ![t] = c],
           file' \in Configurations, torn' \in BOOLEAN,
           volume' \in Secrets \cup {Lost, Null}, network' \in BOOLEAN,
           container' \in [id : {Fixed, Composed, Null}, key : Secrets \cup {Lost, Null},
                           state : {"absent", "created", "running", "exited"}],
           {port', executing'} \subseteq Terminals \cup {Null},
           over' \in BOOLEAN, acted' \subseteq Starts \X Tenants,
           \A o \in Terminals : o # t => Leaves(o),
           schema' \subseteq {"tables", "queue"},
           Remembered(t)', Founded(t)', OwnDatabase', AskedOnce', SentForTheFile'
    PROVE  PreparationInv'
  <1>1. cmd' \in [Terminals -> Commands] /\ \A o \in Terminals : o # t => cmd'[o] = cmd[o]
    BY DEF PreparationInv
  <1>2. \A o \in Terminals : Remembered(o)' /\ Founded(o)'
    BY <1>1, OthersFounded
  <1>3. PreparationTypeOK'
    <2>1. \A o \in Terminals : cmd'[o] \in Commands
      BY <1>1
    <2> QED
      BY <1>1, <2>1 DEF PreparationTypeOK, Commands, AskedOnce
  <1> QED
    BY <1>1, <1>2, <1>3 DEF PreparationInv

-----------------------------------------------------------------------------
\* A terminal at which no command runs.
LEMMA IdleCommand == Idle \in Commands /\ Idle.known = Blank /\ Idle.step = "out"
  BY BlankConfiguration DEF Idle, Commands, Kinds, Steps

\* A command that goes on, or reads the file, is a command.
LEMMA CommandTypes ==
    ASSUME PreparationInv, NEW t \in Terminals
    PROVE  /\ cmd[t] \in Commands
           /\ cmd[t].kind \in Kinds /\ cmd[t].step \in Steps /\ cmd[t].known \in Configurations
           /\ \A s \in Steps : [cmd[t] EXCEPT !.step = s] \in Commands
           /\ \A s \in Steps, k \in Configurations :
                [cmd[t] EXCEPT !.step = s, !.known = k] \in Commands
           /\ \A s \in Steps, k \in Kinds : [cmd[t] EXCEPT !.kind = k, !.step = s] \in Commands
  <1>1. cmd[t] \in Commands
    BY DEF PreparationInv
  <1> QED
    BY <1>1 DEF Commands

\* A command moves on and touches nothing but what is its own.
LEMMA QuietCommand ==
    ASSUME PreparationInv, NEW t \in Terminals, NEW c \in Commands,
           cmd' = [cmd EXCEPT ![t] = c],
           UNCHANGED <<file, torn, machine, over, asked, acted>>,
           {port', executing'} \subseteq Terminals \cup {Null},
           \A o \in Terminals : o # t => (executing = o => executing' = o),
           Remembered(t)', Founded(t)'
    PROVE  PreparationInv'
  <1>1. PreparationTypeOK /\ OwnDatabase /\ AskedOnce /\ SentForTheFile
    BY DEF PreparationInv
  <1>2. OwnDatabase' /\ AskedOnce' /\ SentForTheFile'
    BY <1>1 DEF OwnDatabase, AskedOnce, SentForTheFile, machine, Nothing
  <1>3. \A o \in Terminals : o # t => Leaves(o)
    BY <1>1 DEF Leaves, machine, PreparationTypeOK
  <1>4. /\ file' \in Configurations /\ torn' \in BOOLEAN
        /\ volume' \in Secrets \cup {Lost, Null} /\ network' \in BOOLEAN
        /\ container' \in [id : {Fixed, Composed, Null}, key : Secrets \cup {Lost, Null},
                           state : {"absent", "created", "running", "exited"}]
        /\ over' \in BOOLEAN /\ acted' \subseteq Starts \X Tenants
        /\ schema' \subseteq {"tables", "queue"}
    BY <1>1 DEF PreparationTypeOK, machine
  <1> QED
    BY <1>2, <1>3, <1>4, CommandInv

\* A command goes on to a step whose needs are met, and changes nothing else.
LEMMA ProceedInv ==
    ASSUME PreparationInv, NEW t \in Terminals, NEW s \in Steps, Proceed(t, s),
           UNCHANGED <<file, torn, machine, progress>>, port' \in {port, t}, Needs(t, s)
    PROVE  PreparationInv'
  <1> DEFINE c == [cmd[t] EXCEPT !.step = s]
  <1>1. c \in Commands /\ c.known = cmd[t].known /\ c.step = s
    BY CommandTypes DEF Commands
  <1>2. cmd' = [cmd EXCEPT ![t] = c]
    BY DEF Proceed, PreparationInv
  <1> HIDE DEF c
  <1>3. cmd'[t] = c
    BY <1>2 DEF PreparationInv
  <1>4. Remembered(t)'
    <2>1. Remembered(t)
      BY DEF PreparationInv
    <2> QED
      BY <1>1, <1>3, <2>1 DEF Remembered, Known
  <1>5. Founded(t)'
    BY <1>1, <1>3 DEF Founded, Needs, Known, machine, progress, Nothing
  <1>6. {port', executing'} \subseteq Terminals \cup {Null} /\ UNCHANGED <<over, executing, asked, acted>>
    BY DEF PreparationInv, PreparationTypeOK, progress
  <1> QED
    BY <1>1, <1>2, <1>4, <1>5, <1>6, QuietCommand

\* A command reads the file and moves on.
LEMMA ReadsInv ==
    ASSUME PreparationInv, NEW t \in Terminals, NEW s \in Steps,
           cmd' = [cmd EXCEPT ![t] = [cmd[t] EXCEPT !.step = s, !.known = file]],
           UNCHANGED <<file, torn, machine, over, asked, acted>>,
           port' \in {port, t}, executing' = executing \/ (executing = Null /\ executing' = t),
           s \in HasPassword => file.password # Null,
           s \notin {"composing", "naming", "deciding"},
           s = "connecting" => file.database # Null,
           s \in {"launching", "looking", "binding", "sending"} => file.start # Null,
           s = "sending" => file.tenant # Null,
           s \in {"looking", "binding"} => executing' = t,
           s = "looking" => asked = 0
    PROVE  PreparationInv'
  <1> DEFINE c == [cmd[t] EXCEPT !.step = s, !.known = file]
  <1>1. c \in Commands /\ c.known = file /\ c.step = s
    BY CommandTypes DEF Commands, PreparationInv, PreparationTypeOK
  <1>2. cmd' = [cmd EXCEPT ![t] = c]
    OBVIOUS
  <1> HIDE DEF c
  <1>3. cmd'[t] = c
    BY <1>2 DEF PreparationInv
  <1>4. Remembered(t)'
    BY <1>1, <1>3 DEF Remembered, Known
  <1>5. Founded(t)'
    BY <1>1, <1>3 DEF Founded, Needs, Known
  <1>6. /\ {port', executing'} \subseteq Terminals \cup {Null}
        /\ \A o \in Terminals : o # t => (executing = o => executing' = o)
    BY PreparationAssumption DEF PreparationInv, PreparationTypeOK
  <1> QED
    BY ONLY <1>1, <1>2, <1>4, <1>5, <1>6, QuietCommand, PreparationInv, t \in Terminals,
       UNCHANGED <<file, torn, machine, over, asked, acted>>

\* A command ends, having done to the file and to the machine what others can bear.
LEMMA EndInv ==
    ASSUME PreparationInv, NEW t \in Terminals, Leave(t), over' = over, asked' = asked,
           file' \in Configurations, torn' \in BOOLEAN,
           volume' \in Secrets \cup {Lost, Null}, network' \in BOOLEAN,
           container' \in [id : {Fixed, Composed, Null}, key : Secrets \cup {Lost, Null},
                           state : {"absent", "created", "running", "exited"}],
           acted' \subseteq Starts \X Tenants,
           \A f \in Fields : file[f] # Null => file'[f] = file[f],
           volume' \in {volume, file.password},
           container # Nothing => container' # Nothing,
           schema \subseteq schema', schema' \subseteq {"tables", "queue"},
           OwnDatabase', SentForTheFile'
    PROVE  PreparationInv'
  <1>1. /\ PreparationTypeOK /\ AskedOnce /\ cmd \in [Terminals -> Commands]
    BY DEF PreparationInv
  <1>2. cmd' = [cmd EXCEPT ![t] = Idle] /\ cmd'[t] = Idle
    BY <1>1 DEF Leave
  <1>3. Remembered(t)' /\ Founded(t)'
    BY <1>2, IdleCommand, BlankConfiguration
    DEF Remembered, Founded, Needs, Known, HasPassword
  <1>4. \A o \in Terminals : o # t => Leaves(o)
    BY DEF Leaves, Leave
  <1>5. {port', executing'} \subseteq Terminals \cup {Null} /\ over' \in BOOLEAN /\ AskedOnce'
    BY <1>1 DEF PreparationTypeOK, AskedOnce, Leave
  <1> QED
    BY <1>2, <1>3, <1>4, <1>5, IdleCommand, CommandInv

-----------------------------------------------------------------------------
\* A field is bound and the command goes on with the file as it is now.
LEMMA BoundInv ==
    ASSUME PreparationInv, NEW t \in Terminals, NEW f, NEW v \in Offered(t, f), Bind(t, f, v),
           NEW s \in Steps,
           cmd' = [cmd EXCEPT ![t] = [cmd[t] EXCEPT !.step = s, !.known = file']],
           UNCHANGED <<torn, machine, port, over, asked, acted>>, executing' \in {executing, Null},
           s \notin {"composing", "naming", "connecting", "deciding", "looking", "binding"},
           f = "password" => s \in {"verifying", "starting"},
           f = "database" => s \in {"migrating", "starting"},
           f = "start" => s = "launching",
           f = "tenant" => s = "sending" /\ executing = t,
           f # "tenant" => executing' = executing,
           f # "scope"
    PROVE  PreparationInv'
  <1> DEFINE c == [cmd[t] EXCEPT !.step = s, !.known = file']
  <1>1. /\ f \in Fields /\ v \in Values[f]
        /\ \/ f = "password" /\ v \in Secrets
           \/ f = "database"
           \/ f = "start" /\ v \in Starts
           \/ f = "tenant" /\ v \in Tenants /\ At(t, "binding")
    BY OfferedWhen
  <1>2. /\ file = cmd[t].known /\ file[f] = Null
        /\ file' \in Configurations /\ file'[f] = v
        /\ \A g \in Fields : g # f => file'[g] = file[g]
    BY <1>1, BindFacts
  <1>3. /\ PreparationTypeOK /\ AskedOnce /\ cmd \in [Terminals -> Commands] /\ Founded(t)
    BY DEF PreparationInv
  <1>4. c \in Commands /\ c.known = file' /\ c.step = s
    BY <1>2, CommandTypes DEF Commands
  <1>5. cmd' = [cmd EXCEPT ![t] = c]
    OBVIOUS
  <1> HIDE DEF c
  <1>6. cmd'[t] = c
    BY <1>3, <1>5
  <1>7. Remembered(t)'
    BY <1>4, <1>6 DEF Remembered, Known
  <1>8. {"password", "database", "start", "scope", "tenant"} = Fields
    BY DEF Fields
  <1>9. f = "tenant" => file["start"] # Null
    BY <1>1, <1>2, <1>3 DEF Founded, Needs, At, Known
  <1>10. Founded(t)'
    <2>1. /\ s = "verifying" => file'["password"] # Null
          /\ s \in {"launching", "sending"} => file'["start"] # Null
          /\ s = "sending" => file'["tenant"] # Null
      BY <1>1, <1>2, <1>8, <1>9, PreparationAssumption
    <2>2. s \in HasPassword => s = "verifying"
      BY DEF HasPassword
    <2> QED
      BY <1>4, <1>6, <2>1, <2>2 DEF Founded, Needs, Known
  <1>11. OwnDatabase' /\ SentForTheFile' /\ AskedOnce'
    BY <1>1, <1>3, BindKeepsDatabase, BindKeepsSent DEF machine, AskedOnce
  <1>12. \A o \in Terminals : o # t => Leaves(o)
    <2>1. \A g \in Fields : file[g] # Null => file'[g] = file[g]
      BY <1>2
    <2>2. \A o \in Terminals : o # t => (executing = o => executing' = o)
      BY <1>1
    <2> QED
      BY <1>3, <2>1, <2>2 DEF Leaves, machine, PreparationTypeOK
  <1>13. /\ torn' \in BOOLEAN
         /\ volume' \in Secrets \cup {Lost, Null} /\ network' \in BOOLEAN
         /\ container' \in [id : {Fixed, Composed, Null}, key : Secrets \cup {Lost, Null},
                            state : {"absent", "created", "running", "exited"}]
         /\ {port', executing'} \subseteq Terminals \cup {Null}
         /\ over' \in BOOLEAN /\ acted' \subseteq Starts \X Tenants
         /\ schema' \subseteq {"tables", "queue"}
    BY <1>3 DEF PreparationTypeOK, machine
  <1> QED
    BY ONLY PreparationInv, t \in Terminals, <1>2, <1>4, <1>5, <1>7, <1>10, <1>11, <1>12, <1>13,
       CommandInv

\* A field is bound, and the command ends with it or is cut off.
LEMMA BoundLast ==
    ASSUME PreparationInv, NEW t \in Terminals, NEW f, NEW v \in Offered(t, f), Bind(t, f, v),
           End(t), UNCHANGED <<torn, machine>>
    PROVE  PreparationInv'
  <1>1. /\ f \in Fields /\ v \in Values[f]
    BY OfferedWhen
  <1>2. /\ file[f] = Null /\ file' \in Configurations
        /\ \A g \in Fields : g # f => file'[g] = file[g]
    BY <1>1, BindFacts
  <1>3. OwnDatabase' /\ SentForTheFile'
    BY <1>1, BindKeepsDatabase, BindKeepsSent DEF machine, End
  <1>4. \A g \in Fields : file[g] # Null => file'[g] = file[g]
    BY <1>2
  <1> QED
    BY <1>2, <1>3, <1>4, EndInv DEF PreparationInv, PreparationTypeOK, machine, End

\* A command that ends leaves the file and the machine to the others.
LEMMA EndsInv ==
    ASSUME PreparationInv, NEW t \in Terminals, End(t), UNCHANGED <<file, machine>>,
           torn' \in BOOLEAN
    PROVE  PreparationInv'
  <1>1. OwnDatabase' /\ SentForTheFile'
    BY DEF PreparationInv, OwnDatabase, SentForTheFile, machine, End, Nothing
  <1> QED
    BY <1>1, EndInv DEF PreparationInv, PreparationTypeOK, machine, End

-----------------------------------------------------------------------------
\* What the first look at the file leads to (prepare_database).
LEMMA InspectInv ==
    ASSUME PreparationInv, NEW t \in Terminals, Inspect(t) PROVE PreparationInv'
  <1> DEFINE s == IF Known(t, "password") = Null THEN "drawing"
                  ELSE IF Repairing(t) THEN "repairing"
                  ELSE IF Known(t, "database") = Null THEN "verifying" ELSE "starting"
  <1>1. s \in Steps /\ Needs(t, s)
    BY DEF Steps, Needs, HasPassword
  <1> QED
    BY <1>1, ProceedInv DEF Inspect

\* Compose fills in what is missing: when it begins there is no volume, or one
\* that another terminal has made since with the same password.
LEMMA ComposeInv ==
    ASSUME PreparationInv, NEW t \in Terminals, Compose(t) PROVE PreparationInv'
  <1> DEFINE key == Known(t, "password")
             made == IF container # Nothing THEN container
                     ELSE [id |-> Composed, key |-> key, state |-> "created"]
  <1>1. /\ PreparationTypeOK /\ OwnDatabase /\ AskedOnce /\ SentForTheFile
        /\ Founded(t) /\ Remembered(t) /\ At(t, "composing")
    BY DEF PreparationInv, Compose
  <1>2. "password" \in Fields /\ file["password"] = file.password
    BY DEF Fields
  <1>3. key = file.password /\ key # Null /\ volume \in {Null, key} /\ key \in Secrets
    <2>1. key = file.password /\ key # Null /\ volume \in {Null, key}
      BY <1>1, <1>2 DEF Founded, Needs, HasPassword, At, Remembered
    <2> QED
      BY <1>1, <2>1, FieldTypes DEF PreparationTypeOK
  <1>4. /\ container = Nothing \/ (container # Nothing /\ volume = key)
        /\ file.database # Null => container # Nothing
    BY <1>1, <1>3 DEF OwnDatabase
  <1>5. /\ made \in [id : {Fixed, Composed, Null}, key : Secrets \cup {Lost, Null},
                     state : {"absent", "created", "running", "exited"}]
        /\ made # Nothing /\ made.key = key /\ made.id \in {Fixed, Composed}
        /\ container # Nothing => made = container
    BY <1>1, <1>3, PreparationAssumption DEF PreparationTypeOK, OwnDatabase, Nothing
  <1> HIDE DEF made
  <1>6. /\ [made EXCEPT !.state = "running"] \in
             [id : {Fixed, Composed, Null}, key : Secrets \cup {Lost, Null},
              state : {"absent", "created", "running", "exited"}]
        /\ [made EXCEPT !.state = "running"].key = key
        /\ [made EXCEPT !.state = "running"].id = made.id
    BY <1>5
  <1>7. [made EXCEPT !.state = "running"] # Nothing
    BY <1>6, <1>5, PreparationAssumption DEF Nothing
  <1>8. /\ UNCHANGED <<file, torn, schema>> /\ network' = TRUE
        /\ \/ UNCHANGED <<volume, container>>
           \/ /\ volume' = key
              /\ container' \in {container, made, [made EXCEPT !.state = "running"]}
    BY <1>3 DEF Compose, made
  <1>9. /\ volume' \in {volume, file.password} /\ volume' \in Secrets \cup {Lost, Null}
        /\ container' \in [id : {Fixed, Composed, Null}, key : Secrets \cup {Lost, Null},
                           state : {"absent", "created", "running", "exited"}]
        /\ container # Nothing => container' # Nothing
    BY <1>1, <1>3, <1>5, <1>6, <1>7, <1>8 DEF PreparationTypeOK
  <1>10. OwnDatabase'
    BY <1>1, <1>3, <1>4, <1>5, <1>6, <1>8 DEF OwnDatabase, Nothing
  <1>11. CASE End(t)
    <2>1. SentForTheFile'
      BY <1>1, <1>8, <1>11 DEF SentForTheFile, End
    <2> QED
      BY <1>1, <1>8, <1>9, <1>10, <1>11, <2>1, EndInv DEF End, PreparationTypeOK
  <1>12. CASE Proceed(t, "identifying") /\ UNCHANGED <<port, progress>>
    <2> DEFINE c == [cmd[t] EXCEPT !.step = "identifying"]
    <2>1. c \in Commands /\ c.known = cmd[t].known /\ c.step = "identifying"
      <3>1. "identifying" \in Steps
        BY DEF Steps
      <3> QED
        BY <3>1, CommandTypes DEF Commands
    <2>2. cmd' = [cmd EXCEPT ![t] = c] /\ cmd'[t] = c
      BY <1>12 DEF Proceed, PreparationInv
    <2> HIDE DEF c
    <2>3. Remembered(t)' /\ Founded(t)'
      BY <1>1, <1>8, <2>1, <2>2 DEF Remembered, Known, Founded, Needs, HasPassword
    <2>4. \A o \in Terminals : o # t => Leaves(o)
      BY <1>1, <1>8, <1>9, <1>12 DEF Leaves, progress, PreparationTypeOK
    <2>5. AskedOnce' /\ SentForTheFile'
      BY <1>1, <1>8, <1>12 DEF AskedOnce, SentForTheFile, progress
    <2>6. /\ file' \in Configurations /\ torn' \in BOOLEAN /\ network' \in BOOLEAN
          /\ {port', executing'} \subseteq Terminals \cup {Null}
          /\ over' \in BOOLEAN /\ acted' \subseteq Starts \X Tenants
          /\ schema' \subseteq {"tables", "queue"}
      BY <1>1, <1>8, <1>12 DEF PreparationTypeOK, progress
    <2> QED
      BY ONLY PreparationInv, t \in Terminals, <1>9, <1>10, <2>1, <2>2, <2>3, <2>4, <2>5, <2>6,
         CommandInv
  <1> QED
    BY <1>11, <1>12 DEF Compose

-----------------------------------------------------------------------------
\* A command is typed.
LEMMA TypeInv ==
    ASSUME PreparationInv, NEW t \in Terminals, NEW kind \in Kinds, Type(t, kind)
    PROVE  PreparationInv'
  <1> DEFINE c == [cmd[t] EXCEPT !.kind = kind, !.step = "loading"]
  <1>1. "loading" \in Steps
    BY DEF Steps
  <1>2. c \in Commands /\ c.known = cmd[t].known /\ c.step = "loading"
    BY <1>1, CommandTypes DEF Commands
  <1>3. cmd' = [cmd EXCEPT ![t] = c]
    BY DEF Type
  <1> HIDE DEF c
  <1>4. cmd'[t] = c
    BY <1>3 DEF PreparationInv
  <1>5. Remembered(t)' /\ Founded(t)'
    <2>1. Remembered(t) /\ file' = file
      BY DEF PreparationInv, Type
    <2>2. Remembered(t)'
      BY <1>2, <1>4, <2>1 DEF Remembered, Known
    <2>3. Founded(t)'
      BY <1>2, <1>4 DEF Founded, Needs, HasPassword
    <2> QED
      BY <2>2, <2>3
  <1>6. /\ UNCHANGED <<file, torn, machine, over, asked, acted>>
        /\ {port', executing'} \subseteq Terminals \cup {Null} /\ executing' = executing
    BY DEF Type, progress, PreparationInv, PreparationTypeOK
  <1> QED
    BY <1>2, <1>3, <1>5, <1>6, QuietCommand

\* A command reads the file.
LEMMA LoadInv ==
    ASSUME PreparationInv, NEW t \in Terminals, Load(t) PROVE PreparationInv'
  <1> DEFINE s == First[cmd[t].kind]
  <1>1. s \in {"inspecting", "operating", "checking"} /\ s \in Steps
    BY CommandTypes DEF First, Steps, Kinds
  <1>2. cmd' = [cmd EXCEPT ![t] = [cmd[t] EXCEPT !.step = s, !.known = file]]
    BY DEF Load
  <1>3. /\ UNCHANGED <<file, torn, machine, over, asked, acted>>
        /\ port' \in {port, t} /\ executing' = executing
    BY DEF Load, progress
  <1> HIDE DEF s
  <1> QED
    BY <1>1, <1>2, <1>3, ReadsInv DEF HasPassword

\* Nothing of another configuration is left on the machine (operate).
LEMMA VerifyInv ==
    ASSUME PreparationInv, NEW t \in Terminals, Verify(t) PROVE PreparationInv'
  <1>1. "composing" \in Steps
    BY DEF Steps
  <1>2. volume = Null
    BY DEF Verify, Resources
  <1>3. Known(t, "password") # Null
    BY DEF Verify, At, PreparationInv, Founded, Needs, HasPassword
  <1>4. Needs(t, "composing")
    BY <1>2, <1>3 DEF Needs
  <1> QED
    BY <1>1, <1>4, ProceedInv DEF Verify

\* The container that was found is looked at.
LEMMA IdentifyInv ==
    ASSUME PreparationInv, NEW t \in Terminals, Identify(t) PROVE PreparationInv'
  <1>1. "naming" \in Steps
    BY DEF Steps
  <1>2. Needs(t, "naming")
    BY DEF Identify, Snapshot, Nothing, Needs, HasPassword
  <1> QED
    BY <1>1, <1>2, ProceedInv DEF Identify

\* The container of an interrupted attempt is looked for.
LEMMA RepairInv ==
    ASSUME PreparationInv, NEW t \in Terminals, Repair(t) PROVE PreparationInv'
  <1> DEFINE s == IF Known(t, "database") = Null THEN "naming" ELSE "migrating"
  <1>1. s \in Steps
    BY DEF Steps
  <1>2. container # Nothing
    BY DEF Repair, Healthy, Nothing
  <1>3. Needs(t, s)
    BY <1>2 DEF Needs, HasPassword
  <1> QED
    BY <1>1, <1>3, ProceedInv DEF Repair

\* The database already runs.
LEMMA FoundRunningInv ==
    ASSUME PreparationInv, NEW t \in Terminals, FoundRunning(t) PROVE PreparationInv'
  <1>1. "migrating" \in Steps /\ Needs(t, "migrating")
    BY DEF Steps, Needs, HasPassword
  <1> QED
    BY <1>1, ProceedInv DEF FoundRunning

\* What is installed stays installed.
LEMMA InstallInv ==
    ASSUME PreparationInv, NEW t \in Terminals, End(t),
           UNCHANGED <<file, torn, volume, network, container>>,
           schema \subseteq schema', schema' \subseteq {"tables", "queue"}
    PROVE  PreparationInv'
  <1>1. OwnDatabase' /\ SentForTheFile'
    BY DEF PreparationInv, OwnDatabase, SentForTheFile, End, Nothing
  <1> QED
    BY <1>1, EndInv DEF PreparationInv, PreparationTypeOK, End

\* The tables are made.
LEMMA MigrateInv ==
    ASSUME PreparationInv, NEW t \in Terminals, Migrate(t) PROVE PreparationInv'
  <1>1. /\ schema \subseteq schema' /\ schema' \subseteq {"tables", "queue"}
        /\ UNCHANGED <<file, torn, volume, network, container>>
    BY DEF Migrate, PreparationInv, PreparationTypeOK
  <1>2. CASE End(t)
    BY <1>1, <1>2, InstallInv
  <1>3. CASE Proceed(t, "installing") /\ UNCHANGED <<port, progress>>
    <2> DEFINE c == [cmd[t] EXCEPT !.step = "installing"]
    <2>1. "installing" \in Steps
      BY DEF Steps
    <2>2. c \in Commands /\ c.known = cmd[t].known /\ c.step = "installing"
      BY <2>1, CommandTypes DEF Commands
    <2>3. cmd' = [cmd EXCEPT ![t] = c] /\ cmd'[t] = c
      BY <1>3 DEF Proceed, PreparationInv
    <2> HIDE DEF c
    <2>4. Remembered(t)' /\ Founded(t)'
      BY <1>1, <2>2, <2>3
      DEF PreparationInv, Remembered, Known, Founded, Needs, HasPassword
    <2>5. \A o \in Terminals : o # t => Leaves(o)
      BY <1>1, <1>3 DEF Leaves, progress
    <2>6. OwnDatabase' /\ AskedOnce' /\ SentForTheFile'
      BY <1>1, <1>3 DEF PreparationInv, OwnDatabase, AskedOnce, SentForTheFile, progress, Nothing
    <2>7. /\ file' \in Configurations /\ torn' \in BOOLEAN
          /\ volume' \in Secrets \cup {Lost, Null} /\ network' \in BOOLEAN
          /\ container' \in [id : {Fixed, Composed, Null}, key : Secrets \cup {Lost, Null},
                             state : {"absent", "created", "running", "exited"}]
          /\ {port', executing'} \subseteq Terminals \cup {Null}
          /\ over' \in BOOLEAN /\ acted' \subseteq Starts \X Tenants
      BY <1>1, <1>3 DEF PreparationInv, PreparationTypeOK, progress
    <2> QED
      BY ONLY PreparationInv, t \in Terminals, <1>1, <2>2, <2>3, <2>4, <2>5, <2>6, <2>7,
         CommandInv
  <1> QED
    BY <1>2, <1>3 DEF Migrate

\* The database is started or stopped.
LEMMA OperateInv ==
    ASSUME PreparationInv, NEW t \in Terminals, Operate(t) PROVE PreparationInv'
  <1> DEFINE state == IF cmd[t].kind = "db-stop" THEN "exited" ELSE "running"
  <1>1. /\ container # Nothing
        /\ container' = [container EXCEPT !.state = state]
        /\ UNCHANGED <<file, torn, volume, network, schema>> /\ End(t)
    BY DEF Operate, Snapshot, Nothing
  <1>2. PreparationTypeOK /\ OwnDatabase /\ SentForTheFile
    BY DEF PreparationInv
  <1>3. /\ container'.id = container.id /\ container'.key = container.key
        /\ container'.state = state /\ state \in {"exited", "running"}
        /\ container' \in [id : {Fixed, Composed, Null}, key : Secrets \cup {Lost, Null},
                           state : {"absent", "created", "running", "exited"}]
    BY <1>1, <1>2 DEF PreparationTypeOK
  <1>4. container' # Nothing
    BY <1>3 DEF Nothing
  <1>5. OwnDatabase' /\ SentForTheFile'
    BY <1>1, <1>2, <1>3, <1>4 DEF OwnDatabase, SentForTheFile, End, Nothing
  <1> QED
    BY <1>1, <1>2, <1>3, <1>4, <1>5, EndInv DEF PreparationTypeOK, End

\* Docker is asked before an exercise starts (prepared_config).
LEMMA CheckInv ==
    ASSUME PreparationInv, NEW t \in Terminals, Check(t) PROVE PreparationInv'
  <1>1. "connecting" \in Steps
    BY DEF Steps
  <1>2. cmd' = [cmd EXCEPT ![t] = [cmd[t] EXCEPT !.step = "connecting", !.known = file]]
    BY DEF Check
  <1>3. /\ UNCHANGED <<file, torn, machine, over, asked, acted>>
        /\ port' \in {port, t} /\ executing' = executing
        /\ file.password # Null /\ file.database # Null
    BY DEF Check, progress
  <1> QED
    BY <1>1, <1>2, <1>3, ReadsInv

\* The database is asked before an exercise starts (prepared_config).
LEMMA ConnectInv ==
    ASSUME PreparationInv, NEW t \in Terminals, Connect(t) PROVE PreparationInv'
  <1>1. "deciding" \in Steps
    BY DEF Steps
  <1>2. Founded(t) /\ At(t, "connecting") /\ schema = {"tables", "queue"}
    BY DEF PreparationInv, Connect, Ready
  <1>3. Needs(t, "deciding")
    BY <1>2 DEF Founded, Needs, HasPassword, At
  <1> QED
    BY <1>1, <1>3, ProceedInv DEF Connect

\* A resumed exercise takes the start it has read.
LEMMA UseStartInv ==
    ASSUME PreparationInv, NEW t \in Terminals, UseStart(t) PROVE PreparationInv'
  <1>1. "launching" \in Steps
    BY DEF Steps
  <1>2. Needs(t, "launching")
    BY DEF UseStart, Needs, HasPassword
  <1> QED
    BY <1>1, <1>2, ProceedInv DEF UseStart

\* The run of an exercise is launched.
LEMMA LaunchInv ==
    ASSUME PreparationInv, NEW t \in Terminals, Launch(t) PROVE PreparationInv'
  <1>1. "looking" \in Steps /\ "sending" \in Steps
    BY DEF Steps
  <1>2. /\ file.start # Null
        /\ UNCHANGED <<file, torn, machine, over, asked, acted>> /\ port' \in {port, t}
    BY DEF Launch, PreparationInv, Founded, Needs, At, Known
  <1>3. CASE file.tenant = Null
    <2>1. cmd' = [cmd EXCEPT ![t] = [cmd[t] EXCEPT !.step = "looking", !.known = file]]
      BY <1>3 DEF Launch
    <2>2. executing = Null /\ executing' = t /\ asked = 0
      BY <1>3 DEF Launch
    <2> QED
      BY <1>1, <1>2, <2>1, <2>2, ReadsInv DEF HasPassword
  <1>4. CASE file.tenant # Null
    <2>1. cmd' = [cmd EXCEPT ![t] = [cmd[t] EXCEPT !.step = "sending", !.known = file]]
      BY <1>4 DEF Launch
    <2>2. executing' = executing
      BY <1>4 DEF Launch
    <2> QED
      BY <1>1, <1>2, <1>4, <2>1, <2>2, ReadsInv DEF HasPassword
  <1> QED
    BY <1>3, <1>4

\* Whoever looks the tenant up holds the lock, and nothing was asked before.
LEMMA LookUpInv ==
    ASSUME PreparationInv, NEW t \in Terminals, LookUp(t) PROVE PreparationInv'
  <1> DEFINE c == [cmd[t] EXCEPT !.step = "binding"]
  <1>1. "binding" \in Steps
    BY DEF Steps
  <1>2. c \in Commands /\ c.known = cmd[t].known /\ c.step = "binding"
    BY <1>1, CommandTypes DEF Commands
  <1>3. cmd' = [cmd EXCEPT ![t] = c] /\ cmd'[t] = c
    BY DEF LookUp, Proceed, PreparationInv
  <1> HIDE DEF c
  <1>4. /\ executing = t /\ asked = 0 /\ asked' = 1 /\ Known(t, "start") # Null
        /\ UNCHANGED <<file, torn, machine, port, over, executing, acted>>
    BY DEF LookUp, PreparationInv, Founded, Needs, At
  <1>5. Remembered(t)' /\ Founded(t)'
    BY <1>2, <1>3, <1>4 DEF PreparationInv, Remembered, Known, Founded, Needs, HasPassword
  <1>6. \A o \in Terminals : o # t => Leaves(o)
    BY <1>4 DEF PreparationInv, PreparationTypeOK, Leaves, machine
  <1>7. OwnDatabase' /\ AskedOnce' /\ SentForTheFile'
    BY <1>4 DEF PreparationInv, OwnDatabase, AskedOnce, SentForTheFile, machine, Nothing
  <1>8. /\ file' \in Configurations /\ torn' \in BOOLEAN
        /\ volume' \in Secrets \cup {Lost, Null} /\ network' \in BOOLEAN
        /\ container' \in [id : {Fixed, Composed, Null}, key : Secrets \cup {Lost, Null},
                           state : {"absent", "created", "running", "exited"}]
        /\ {port', executing'} \subseteq Terminals \cup {Null}
        /\ over' \in BOOLEAN /\ acted' \subseteq Starts \X Tenants
        /\ schema' \subseteq {"tables", "queue"}
    BY <1>4 DEF PreparationInv, PreparationTypeOK, machine
  <1> QED
    BY ONLY PreparationInv, t \in Terminals, <1>2, <1>3, <1>5, <1>6, <1>7, <1>8, CommandInv

\* A tenant that was found is bound, or found bound.
LEMMA BindTenantInv ==
    ASSUME PreparationInv, NEW t \in Terminals, BindTenant(t) PROVE PreparationInv'
  <1>1. PICK v \in Offered(t, "tenant") : Bind(t, "tenant", v)
    BY DEF BindTenant
  <1>2. "sending" \in Steps
    BY DEF Steps
  <1>3. At(t, "binding")
    BY OfferedWhen
  <1>4. executing = t
    BY <1>3 DEF PreparationInv, Founded, Needs, At
  <1>5. /\ cmd' = [cmd EXCEPT ![t] = [cmd[t] EXCEPT !.step = "sending", !.known = file']]
        /\ UNCHANGED <<torn, machine, port, over, asked, acted>> /\ executing' = Null
    BY DEF BindTenant
  <1> QED
    BY <1>1, <1>2, <1>4, <1>5, BoundInv DEF HasPassword

\* A message goes out under the tenant of the file.
LEMMA SendInv ==
    ASSUME PreparationInv, NEW t \in Terminals, Send(t) PROVE PreparationInv'
  <1>1. /\ PreparationTypeOK /\ OwnDatabase /\ SentForTheFile /\ Founded(t) /\ Remembered(t)
    BY DEF PreparationInv
  <1>2. "start" \in Fields /\ "tenant" \in Fields
    BY DEF Fields
  <1>3. /\ Known(t, "start") = file.start /\ file.start # Null
        /\ Known(t, "tenant") = file.tenant /\ file.tenant # Null
    BY <1>1, <1>2 DEF Send, At, Founded, Needs, Remembered
  <1>4. /\ acted' = acted \cup {<<file.start, file.tenant>>}
        /\ Leave(t) /\ UNCHANGED <<file, torn, machine, over, asked>>
    BY <1>3 DEF Send
  <1>5. file.start \in Starts /\ file.tenant \in Tenants
    BY <1>1, <1>3, FieldTypes DEF PreparationTypeOK
  <1>6. acted' \subseteq Starts \X Tenants
    BY <1>1, <1>4, <1>5 DEF PreparationTypeOK
  <1>7. SentForTheFile'
    BY <1>1, <1>3, <1>4 DEF SentForTheFile
  <1>8. OwnDatabase'
    BY <1>1, <1>4 DEF OwnDatabase, machine, Nothing
  <1> QED
    BY <1>1, <1>4, <1>6, <1>7, <1>8, EndInv DEF PreparationTypeOK, machine

-----------------------------------------------------------------------------
\* The steps that bind a field, whole or cut off.
LEMMA BindingInv ==
    ASSUME PreparationInv, NEW t \in Terminals
    PROVE  /\ DrawPassword(t) => PreparationInv'
           /\ Name(t) => PreparationInv'
           /\ RecordStart(t) => PreparationInv'
           /\ BindScope(t) => PreparationInv'
           /\ WriteCutOff(t) => PreparationInv'
  <1>1. ASSUME NEW f, NEW v \in Offered(t, f), NEW s \in {"verifying", "starting", "migrating", "launching"},
               Bound(t, f, v, s),
               f = "password" => s \in {"verifying", "starting"},
               f = "database" => s \in {"migrating", "starting"},
               f = "start" => s = "launching", f \notin {"tenant", "scope"}
        PROVE  PreparationInv'
    <2>1. cmd' = [cmd EXCEPT ![t] = [cmd[t] EXCEPT !.step = s, !.known = file']]
      BY <1>1 DEF Bound
    <2>2. /\ Bind(t, f, v) /\ UNCHANGED <<torn, machine, port, over, asked, acted>> /\ executing' = executing
      BY <1>1 DEF Bound, progress
    <2>3. s \in Steps
      BY DEF Steps
    <2> QED
      BY <1>1, <2>1, <2>2, <2>3, BoundInv
  <1>2. ASSUME DrawPassword(t) PROVE PreparationInv'
    BY <1>1, <1>2 DEF DrawPassword
  <1>3. ASSUME Name(t) PROVE PreparationInv'
    BY <1>1, <1>3 DEF Name
  <1>4. ASSUME RecordStart(t) PROVE PreparationInv'
    BY <1>1, <1>4 DEF RecordStart
  <1>5. ASSUME BindScope(t) PROVE PreparationInv'
    BY <1>5, BoundLast DEF BindScope
  <1>6. ASSUME WriteCutOff(t) PROVE PreparationInv'
    BY <1>6, BoundLast DEF WriteCutOff
  <1> QED
    BY <1>2, <1>3, <1>4, <1>5, <1>6

\* Every step keeps the invariant.
THEOREM PreparationStep == PreparationInv /\ [PreparationNext]_preparationVars => PreparationInv'
  <1> SUFFICES ASSUME PreparationInv, [PreparationNext]_preparationVars PROVE PreparationInv'
    OBVIOUS
  <1>1. ASSUME NEW t \in Terminals, CommandStep(t) PROVE PreparationInv'
    <2>1. ASSUME NEW kind \in Kinds, Type(t, kind) PROVE PreparationInv'
      BY <2>1, TypeInv
    <2>2. CASE Load(t) \/ Inspect(t) \/ Verify(t) \/ Compose(t)
      BY <2>2, LoadInv, InspectInv, VerifyInv, ComposeInv
    <2>3. CASE Identify(t) \/ Repair(t) \/ FoundRunning(t)
      BY <2>3, IdentifyInv, RepairInv, FoundRunningInv
    <2>4. CASE DrawPassword(t) \/ Name(t) \/ RecordStart(t) \/ BindScope(t) \/ WriteCutOff(t)
      BY <2>4, BindingInv
    <2>5. CASE Migrate(t) \/ Operate(t)
      BY <2>5, MigrateInv, OperateInv
    <2>6. CASE InstallQueue(t)
      BY <2>6, InstallInv DEF InstallQueue, PreparationInv, PreparationTypeOK
    <2>7. CASE Check(t) \/ Connect(t) \/ UseStart(t)
      BY <2>7, CheckInv, ConnectInv, UseStartInv
    <2>8. CASE Launch(t) \/ LookUp(t) \/ BindTenant(t) \/ Send(t)
      BY <2>8, LaunchInv, LookUpInv, BindTenantInv, SendInv
    <2>9. CASE WriteTorn(t)
      BY <2>9, EndsInv DEF WriteTorn
    <2>10. CASE Ends(t)
      BY <2>10, EndsInv DEF Ends, PreparationInv, PreparationTypeOK
    <2> QED
      BY <1>1, <2>1, <2>2, <2>3, <2>4, <2>5, <2>6, <2>7, <2>8, <2>9, <2>10 DEF CommandStep
  <1>2. CASE WindowCloses
    BY <1>2 DEF WindowCloses, PreparationInv, PreparationTypeOK, Remembered, Founded, Needs, Known, At,
       OwnDatabase, AskedOnce, SentForTheFile, machine, Nothing
  <1>3. CASE UNCHANGED preparationVars
    BY <1>3 DEF preparationVars, PreparationInv, PreparationTypeOK, Remembered, Founded, Needs, Known, At,
       OwnDatabase, AskedOnce, SentForTheFile, machine, progress, Nothing
  <1> QED
    BY <1>1, <1>2, <1>3 DEF PreparationNext

\* It holds of every machine on which the preparation may begin.
THEOREM PreparationStarts == PreparationInit => PreparationInv
  <1> SUFFICES ASSUME PreparationInit PROVE PreparationInv
    OBVIOUS
  <1>1. /\ torn = FALSE /\ schema = {} /\ port = Null /\ over = FALSE /\ executing = Null
        /\ asked = 0 /\ acted = {} /\ cmd = [t \in Terminals |-> Idle]
    BY DEF PreparationInit
  <1>2. cmd \in [Terminals -> Commands] /\ \A t \in Terminals : cmd[t] = Idle
    BY <1>1, IdleCommand
  <1>3. \A t \in Terminals : Remembered(t) /\ Founded(t)
    BY <1>2, IdleCommand, BlankConfiguration DEF Remembered, Founded, Needs, Known, HasPassword
  <1>4. /\ file \in Configurations /\ network \in BOOLEAN
        /\ volume \in Secrets \cup {Lost, Null}
        /\ container \in [id : {Fixed, Composed, Null}, key : Secrets \cup {Lost, Null},
                          state : {"absent", "created", "running", "exited"}]
        /\ OwnDatabase
    <2>1. "password" \in Fields /\ "database" \in Fields
      BY DEF Fields
    <2>2. CASE file = Blank /\ volume \in {Null, Lost} /\ network \in BOOLEAN /\ container = Nothing
      BY <2>1, <2>2, BlankConfiguration DEF OwnDatabase, Nothing
    <2>3. CASE /\ network = TRUE
               /\ \E key \in Secrets : /\ file = [Blank EXCEPT !.password = key]
                                       /\ volume = key
                                       /\ container = [id |-> Fixed, key |-> key, state |-> "running"]
      <3>1. PICK key \in Secrets : /\ file = [Blank EXCEPT !["password"] = key]
                                   /\ volume = key
                                   /\ container = [id |-> Fixed, key |-> key, state |-> "running"]
        BY <2>3
      <3>2. key \in Values["password"]
        BY DEF Values
      <3>3. file \in Configurations /\ file["password"] = key /\ file["database"] = Null
        <4>1. Blank \in Configurations /\ Blank["database"] = Null
          BY <2>1, BlankConfiguration
        <4>2. /\ [Blank EXCEPT !["password"] = key] \in Configurations
              /\ [Blank EXCEPT !["password"] = key]["password"] = key
              /\ [Blank EXCEPT !["password"] = key]["database"] = Blank["database"]
          BY ONLY <2>1, <3>2, <4>1, BoundConfiguration
        <4> QED
          BY ONLY <3>1, <4>1, <4>2
      <3>4. key # Null
        BY PreparationAssumption
      <3> QED
        BY <2>3, <3>1, <3>3, <3>4 DEF OwnDatabase, Nothing
    <2> QED
      BY <2>2, <2>3 DEF PreparationInit
  <1>5. PreparationTypeOK
    <2>1. \A t \in Terminals : cmd[t] \in Commands
      BY <1>2
    <2>2. \A t \in Terminals :
            cmd[t].kind \in Kinds /\ cmd[t].step \in Steps /\ cmd[t].known \in Configurations
      BY <2>1 DEF Commands
    <2>3. {port, executing} \subseteq Terminals \cup {Null} /\ asked \in 0..2
      BY <1>1
    <2>4. acted \subseteq Starts \X Tenants /\ schema \subseteq {"tables", "queue"}
      BY <1>1
    <2>5. over \in BOOLEAN /\ torn \in BOOLEAN
      BY <1>1
    <2> QED
      BY <1>2, <1>4, <2>2, <2>3, <2>4, <2>5 DEF PreparationTypeOK
  <1> QED
    BY <1>1, <1>2, <1>3, <1>4, <1>5 DEF PreparationInv, AskedOnce, SentForTheFile

\* Every reachable state is well formed, each command knows of the file what is
\* still true, and what was found on the machine is still there when it is used.
THEOREM PreparationInvariant == PreparationSpec => []PreparationInv
  BY PreparationStarts, PreparationStep, PTL DEF PreparationSpec

\* The container written down in the private file is a database its password
\* opens, whatever another configuration has left on the machine and from however
\* many terminals it is prepared (prepare_database, _bind_private_field).
THEOREM OpensWhatItNames == PreparationSpec => []OpensItsDatabase
  <1>1. PreparationInv => OpensItsDatabase
    BY DEF PreparationInv, OwnDatabase, OpensItsDatabase
  <1> QED
    BY <1>1, PreparationInvariant, PTL

\* All messages of an exercise are sent for one start and one tenant, however
\* often it is started, resumed and cut off (bind_selected_tenant).
THEOREM OneIdentity == PreparationSpec => []OneStartOneTenant
  <1>1. PreparationInv => OneStartOneTenant
    <2> SUFFICES ASSUME SentForTheFile PROVE Cardinality(acted) <= 1
      BY DEF PreparationInv, OneStartOneTenant
    <2>1. CASE acted = {}
      BY <2>1, FS_EmptySet
    <2>2. CASE acted # {}
      <3>1. acted = {<<file.start, file.tenant>>}
        BY <2>2 DEF SentForTheFile
      <3>2. Cardinality(acted) = 1
        BY <3>1, FS_Singleton, Zenon
      <3> QED
        BY <3>2
    <2> QED
      BY <2>1, <2>2
  <1> QED
    BY <1>1, PreparationInvariant, PTL

\* The provider is asked for the tenant at most once under a start, though the
\* run that asks may be killed and others try (execute_tenant_lookup).
THEOREM TenantAskedOnce == PreparationSpec => [](asked <= 1)
  <1>1. PreparationInv => asked <= 1
    BY DEF PreparationInv, AskedOnce
  <1> QED
    BY <1>1, PreparationInvariant, PTL

\* What is bound stays bound: no later command, repair or retry changes a field
\* of the private file (_bind_private_field opens it as it was read).
FieldsAreBoundOnce == [][\A f \in Fields : file[f] # Null => file'[f] = file[f]]_preparationVars

\* The file changes only where a command binds a field that it has read as blank.
LEMMA FileChanges ==
    ASSUME PreparationInv, [PreparationNext]_preparationVars
    PROVE  \/ file' = file
           \/ \E t \in Terminals, f \in Fields : \E v \in Offered(t, f) : Bind(t, f, v)
  <1>1. ASSUME NEW t \in Terminals, CommandStep(t), file' # file
        PROVE  \E f \in Fields : \E v \in Offered(t, f) : Bind(t, f, v)
    <2>1. "password" \in Fields /\ "database" \in Fields /\ "start" \in Fields
          /\ "scope" \in Fields /\ "tenant" \in Fields
      BY DEF Fields
    <2>2. CASE DrawPassword(t) \/ Name(t) \/ RecordStart(t)
      BY <2>1, <2>2 DEF DrawPassword, Name, RecordStart, Bound
    <2>3. CASE BindScope(t) \/ WriteCutOff(t) \/ BindTenant(t)
      BY <2>1, <2>3 DEF BindScope, WriteCutOff, BindTenant
    <2> QED
      BY <1>1, <2>2, <2>3
      DEF CommandStep, Type, Load, Inspect, Verify, Compose, Identify, Repair, FoundRunning,
          Migrate, InstallQueue, Operate, Check, Connect, UseStart, Launch, LookUp, Send,
          WriteTorn, Ends
  <1> QED
    BY <1>1 DEF PreparationNext, WindowCloses, preparationVars

\* A field of the private file is never bound again (_bind_private_field).
THEOREM BoundOnce == PreparationSpec => FieldsAreBoundOnce
  <1> DEFINE P == \A f \in Fields : file[f] # Null => file'[f] = file[f]
  <1>1. PreparationInv /\ [PreparationNext]_preparationVars => [P]_preparationVars
    <2> SUFFICES ASSUME PreparationInv, [PreparationNext]_preparationVars PROVE P
      OBVIOUS
    <2>1. ASSUME NEW t \in Terminals, NEW f \in Fields, NEW v \in Offered(t, f), Bind(t, f, v)
          PROVE  P
      BY <2>1, OfferedWhen, BindFacts
    <2> QED
      BY <2>1, FileChanges
  <1> QED
    BY <1>1, PreparationInvariant, PTL DEF PreparationSpec, FieldsAreBoundOnce

\* The thirty minutes of a start begin with a database that is installed to its end
\* and was made with the file's password; another terminal may have stopped it
\* since (start_exercise, prepared_config).
THEOREM ClockNeedsDatabase == PreparationSpec => ClockStartsInstalled
  <1> DEFINE P == file'.start # file.start =>
                     /\ schema = {"tables", "queue"}
                     /\ container.id = file.database /\ volume = file.password
  <1>1. PreparationInv /\ [PreparationNext]_preparationVars => [P]_preparationVars
    <2> SUFFICES ASSUME PreparationInv, [PreparationNext]_preparationVars, file'.start # file.start PROVE P
      OBVIOUS
    <2>1. PICK t \in Terminals, f \in Fields : \E v \in Offered(t, f) : Bind(t, f, v)
      BY FileChanges
    <2>2. PICK v \in Offered(t, f) : Bind(t, f, v)
      BY <2>1
    <2>3. /\ f = "start" => At(t, "deciding")
          /\ v \in Values[f]
      BY OfferedWhen
    <2>4. /\ file = cmd[t].known
          /\ \A g \in Fields : g # f => file'[g] = file[g]
      BY <2>2, <2>3, BindFacts
    <2>5. f = "start"
      BY <2>4 DEF Fields
    <2>6. schema = {"tables", "queue"} /\ file.database # Null
      BY <2>3, <2>4, <2>5 DEF PreparationInv, Founded, Needs, At, Known
    <2> QED
      BY <2>6 DEF PreparationInv, OwnDatabase
  <1> QED
    BY <1>1, PreparationInvariant, PTL DEF PreparationSpec, ClockStartsInstalled

\* The file, the machine and the commands keep their types (C1Preparation,
\* operate).
THEOREM PreparationTypesHold == PreparationSpec => []PreparationTypeOK
<1>1. PreparationInv => PreparationTypeOK
  BY DEF PreparationInv
<1> QED
  BY <1>1, PreparationInvariant, PTL
=============================================================================
