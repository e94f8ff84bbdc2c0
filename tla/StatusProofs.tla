---------------------------- MODULE StatusProofs ----------------------------
(***************************************************************************)
(* For any number of processes and any allowances: the status notices      *)
(* implement Outbox, and so inherit what OutboxProofs proves; a notice     *)
(* gets one attempt, in its window, and nothing is requested in doubt; the *)
(* tenant is looked up once; a printed acceptance is true.                 *)
(*                                                                         *)
(* The execution lock is what these rest on: a run between its lookup, or  *)
(* its choice, and its end is alone (Runnings), so that what it has read   *)
(* of the rows and of the ledger is still so (Requested, Undoubted), and   *)
(* only a run that is sending has a delivery (Senders).                    *)
(***************************************************************************)
EXTENDS Status, TLAPS, FiniteSetTheorems

\* The sending of a message is the outbox's, with the requests accounted for.
LEMMA SendSimulation ==
    ASSUME NEW r \in Runners, NEW live, RQ!SendStep(r, live)
    PROVE  OB!WorkerStep(r) \/ UNCHANGED OB!outboxVars
<1> USE DEF OB!WorkerStep, OB!SendStep, RQ!OB!Goto, OB!Goto, RQ!OB!Conclude, OB!Conclude
<1>1. CASE \/ \E operation \in DOMAIN RQ!MadeAt : RQ!Reserve(r, operation, live)
           \/ RQ!RequestToken(r)
  BY <1>1 DEF RQ!Reserve, RQ!RequestToken, RQ!outbox, OB!outboxVars
<1>2. CASE RQ!CheckAuthorization(r, live)
  BY <1>2 DEF RQ!CheckAuthorization, RQ!OB!Authorize, OB!Authorize,
     RQ!OB!AuthorizationRefused, OB!AuthorizationRefused, RQ!OB!Reserve, OB!Reserve,
     RQ!OB!CheckPoints, OB!CheckPoints, RQ!OB!LeaseLive, OB!LeaseLive
<1>3. CASE RQ!GetToken(r)
  BY <1>3 DEF RQ!GetToken, RQ!OB!GetToken, OB!GetToken
<1>4. CASE RQ!NotSent(r) \/ RQ!Overdue(r)
  BY <1>4 DEF RQ!NotSent, RQ!Overdue, RQ!OB!PermanentFailure, OB!PermanentFailure,
     RQ!OB!TransientFailure, OB!TransientFailure, RQ!OB!Unclassified, OB!Unclassified
<1>5. CASE RQ!Post(r)
  BY <1>5 DEF RQ!Post, RQ!OB!Post, OB!Post
<1>6. ASSUME NEW outcome \in RQ!OB!Outcomes, RQ!Respond(r, outcome) PROVE OB!WorkerStep(r)
  BY <1>6 DEF RQ!Respond, RQ!OB!Respond, OB!Respond, RQ!OB!Outcomes, OB!Outcomes,
     RQ!OB!Proves, OB!Proves, RQ!OB!Classify, OB!Classify
<1> QED
  BY <1>1, <1>2, <1>3, <1>4, <1>5, <1>6 DEF RQ!SendStep

\* A run that is killed or cut off leaves its delivery as a crash does.
LEMMA AbortSimulation ==
    ASSUME NEW r \in Runners, RQ!Abort(r)
    PROVE  OB!Crash(r) \/ UNCHANGED OB!outboxVars
BY DEF RQ!Abort, RQ!OB!Crash, OB!Crash, RQ!OB!Leave, OB!Leave, RQ!outbox, OB!outboxVars

\* The initial outbox is empty.
LEMMA InitSimulation == Init => OB!Init
BY DEF Init, RQ!Init, RQ!OB!Init, OB!Init, RQ!OB!NoRow, OB!NoRow

\* Each step of a run, of the user, or of time is one of the outbox or leaves it.
LEMMA StepSimulation == [Next]_vars => [OB!Next]_(OB!outboxVars)
<1> SUFFICES ASSUME [Next]_vars PROVE OB!Next \/ UNCHANGED OB!outboxVars
  OBVIOUS
<1> USE DEF outbox, approval, Active, OB!outboxVars
<1>1. ASSUME NEW r \in Runners, RunStep(r) PROVE OB!Next \/ UNCHANGED OB!outboxVars
  <2>1. CASE Recover(r)
    BY <2>1 DEF Recover, OB!Next
  <2>2. CASE \/ Enter(r) \/ Review(r) \/ Bind(r) \/ Assess(r) \/ Check(r) \/ Fail(r) \/ Close(r)
             \/ \E t \in Tasks : TakeTask(r, t)
    BY <2>2 DEF Enter, Review, Bind, Assess, Check, Fail, Close, TakeTask
  <2>3. CASE Ask(r)
    BY <2>3 DEF Ask, RQ!ReserveLookup, RQ!ObserveLookup, RQ!outbox
  <2>4. ASSUME NEW p \in Purposes, Prepare(r, p) PROVE OB!Next \/ UNCHANGED OB!outboxVars
    BY <2>4 DEF Prepare, OB!Next, OB!Channels
  <2>5. ASSUME NEW p \in Purposes, Claim(r, p) PROVE OB!Next \/ UNCHANGED OB!outboxVars
    BY <2>5 DEF Claim, OB!Next
  <2>6. CASE Send(r)
    BY <2>6, SendSimulation DEF Send, OB!Next
  <2>7. CASE Finish(r)
    BY <2>7 DEF Finish, OB!Next, OB!WorkerStep, OB!SendStep
  <2>8. CASE DatabaseFails(r) \/ TimesOut(r) \/ Crash(r)
    BY <2>8, AbortSimulation DEF DatabaseFails, TimesOut, Crash, OB!Next
  <2> QED
    BY <1>1, <2>1, <2>2, <2>3, <2>4, <2>5, <2>6, <2>7, <2>8 DEF RunStep
<1>2. ASSUME NEW r \in Runners, NEW p \in Purposes, Launch(r, p) PROVE UNCHANGED OB!outboxVars
  BY <1>2 DEF Launch
<1>3. CASE Stop \/ Wake \/ Revoke
  BY <1>3 DEF Stop, Wake, Revoke
<1>4. CASE TimeGoesOn
  BY <1>4 DEF TimeGoesOn, OB!Next, OB!SendableChanges, OB!workerVars
<1>5. ASSUME NEW p \in Purposes, LeaseExpires(p) PROVE OB!Next
  BY <1>5 DEF LeaseExpires, OB!Next
<1>6. CASE UNCHANGED vars
  BY <1>6 DEF vars
<1> QED
  BY <1>1, <1>2, <1>3, <1>4, <1>5, <1>6 DEF Next

\* Whatever is launched, stopped, repeated or killed, the notices use the outbox
\* as every sender does (create_status_notification, send_status_once): what is
\* proved of the outbox holds of both of them.
THEOREM StatusImplementsOutbox == Spec => OB!Spec
BY InitSimulation, StepSimulation, PTL DEF Spec, OB!Spec

\* What is proved of the outbox, for the two notices.
OBP == INSTANCE OutboxProofs WITH
        Deliveries <- Purposes, Workers <- Runners, sendable <- Active

\* The outbox's assumption on its constants holds.
LEMMA OutboxAssumed == OBP!OutboxAssumption
BY StatusAssumption DEF OBP!OutboxAssumption

\* The outbox of OutboxProofs is the outbox of Status.
LEMMA SameOutbox ==
    /\ OB!Init <=> OBP!Init
    /\ [OB!Next]_(OB!outboxVars) <=> [OBP!Next]_(OBP!outboxVars)
BY DEF OB!Init, OBP!Init, OB!Next, OBP!Next, OB!outboxVars, OBP!outboxVars, OB!workerVars,
       OBP!workerVars, OB!Channels, OBP!Channels, OB!NoRow, OBP!NoRow, OB!NewRow, OBP!NewRow,
       OB!Enqueue, OBP!Enqueue, OB!Claim, OBP!Claim, OB!MayClaim, OBP!MayClaim, OB!ClaimRevoked,
       OBP!ClaimRevoked, OB!LeaseLive, OBP!LeaseLive, OB!Goto, OBP!Goto, OB!Conclude,
       OBP!Conclude, OB!CheckPoints, OBP!CheckPoints, OB!Authorize, OBP!Authorize,
       OB!AuthorizationRefused, OBP!AuthorizationRefused, OB!Reserve, OBP!Reserve, OB!DryRunSend,
       OBP!DryRunSend, OB!GetToken, OBP!GetToken, OB!PermanentFailure, OBP!PermanentFailure,
       OB!TransientFailure, OBP!TransientFailure, OB!Unclassified, OBP!Unclassified, OB!Post,
       OBP!Post, OB!Outcomes, OBP!Outcomes, OB!Classify, OBP!Classify, OB!Proves, OBP!Proves,
       OB!Respond, OBP!Respond, OB!Leave, OBP!Leave, OB!OwnsLease, OBP!OwnsLease, OB!FinalState,
       OBP!FinalState, OB!Finish, OBP!Finish, OB!FencedOut, OBP!FencedOut, OB!Crash, OBP!Crash,
       OB!Expired, OBP!Expired, OB!RecoverDeliveries, OBP!RecoverDeliveries, OB!Acked, OBP!Acked,
       OB!LeaseExpires, OBP!LeaseExpires, OB!BackoffElapses, OBP!BackoffElapses,
       OB!SendableChanges, OBP!SendableChanges, OB!SendStep, OBP!SendStep, OB!WorkerStep,
       OBP!WorkerStep, OB!Claimable, OBP!Claimable

\* The steps of a run under the execution lock: to look up the tenant, and to send
\* its notice; those after it has found that the notice is to be sent.
LookingUp == {"reviewing", "asking", "binding"}
Chosen == {"working", "checking", "preparing", "claiming"}
Delivering == Chosen \cup {"recovering", "assessing", "sending"}
Locked == LookingUp \cup Delivering

\* What a run's step says of the lock, of its purpose, and of the tenant.
Stands(r) ==
    /\ run[r].step \in Locked => holder = r
    /\ run[r].step # "out" => run[r].purpose \in Purposes
    /\ run[r].step \in LookingUp => ~run[r].knows
    /\ run[r].step \in Delivering => run[r].knows
    /\ run[r].step # "out" /\ run[r].knows => tenant

Runnings ==
    /\ run \in [Runners -> Runs]
    /\ tenant \in BOOLEAN
    /\ \A r \in Runners : Stands(r)

\* Only a run that is sending has a delivery, which is its own notice's.
Senders ==
    \A r \in Runners :
        /\ pc[r] # "idle" => run[r].step = "sending"
        /\ run[r].step = "sending" => pc[r] # "idle" /\ claim[r] = run[r].purpose
        /\ result[r] # "dry_run"

\* A posted message has been accounted for.
Posted == \A r \in Runners : pc[r] = "posted" => RQ!Own(r, "message_send") \in RQ!Made

\* A request for a notice was made under its one attempt; a request for no notice
\* is the one lookup's.
Tried == {"in_flight", "accepted", "failed_retryable", "failed_final", "unknown"}

Requested ==
    /\ \A q \in RQ!Made :
         /\ q[2] \in Purposes => rows[q[2]].state \in Tried
         /\ q[2] \notin Purposes \/ q[1] = "tenant_query" =>
              q \in {RQ!Lookup(lookups), RQ!Query(lookups)}
    /\ \A r \in Runners :
         /\ run[r].step \in Chosen => \A q \in RQ!Made : q[2] # run[r].purpose
         /\ run[r].step = "sending" =>
              \A q \in RQ!Made : q[2] = run[r].purpose => q[3] = token[r]
         /\ run[r].step = "binding" => RQ!Made # {}
         /\ run[r].step # "out" /\ ~run[r].knows /\ tenant => RQ!Made # {}

\* While a run is on its way to send, the other notice is not in doubt; while one
\* looks up the tenant, there is no notice.
Undoubted ==
    /\ \A p \in Purposes : rows[p].state # "absent" => tenant
    /\ \A r \in Runners :
         /\ run[r].step = "asking" => ~tenant
         /\ run[r].step \in Chosen \cup {"sending"} =>
              \A p \in Purposes \ {run[r].purpose} : rows[p].state \notin {"unknown", "in_flight"}

\* Requests are recorded, one at a time, and none is forgotten.
LEMMA Recording ==
    ASSUME NEW q, NEW phase, RQ!Observe(q, phase)
    PROVE  /\ RQ!Made' = RQ!Made \cup {q}
           /\ \A p : RQ!PhaseOf(p)' = IF p = q THEN phase ELSE RQ!PhaseOf(p)
<1>1. calls' = [p \in RQ!Made \cup {q} |-> IF p = q THEN phase ELSE calls[p]]
  BY DEF RQ!Observe
<1>2. RQ!Made' = RQ!Made \cup {q}
  BY <1>1 DEF RQ!Made
<1>3. ASSUME NEW p PROVE RQ!PhaseOf(p)' = IF p = q THEN phase ELSE RQ!PhaseOf(p)
  <2>1. CASE p \in RQ!Made \cup {q}
    BY <1>1, <1>2, <2>1 DEF RQ!PhaseOf
  <2>2. CASE p \notin RQ!Made \cup {q}
    BY <1>2, <2>2 DEF RQ!PhaseOf
  <2> QED
    BY <2>1, <2>2
<1> QED
  BY <1>2, <1>3

\* What a step in the sending of a notice leaves alone.
LEMMA SendFrame ==
    ASSUME OBP!IInv, NEW r \in Runners, NEW live, RQ!SendStep(r, live)
    PROVE  /\ UNCHANGED <<rows, claim, token>>
           /\ pc[r] # "idle" /\ pc'[r] # "idle"
           /\ \A v \in Runners \ {r} : pc'[v] = pc[v] /\ result'[v] = result[v]
           /\ result'[r] = result[r] \/ result'[r] # "dry_run"
           /\ pc'[r] = "posted" => pc[r] = "posted" \/ RQ!Post(r)
<1> USE DEF OBP!IInv, OBP!TypeOK
<1>1. CASE \/ \E operation \in DOMAIN RQ!MadeAt : RQ!Reserve(r, operation, live)
           \/ RQ!RequestToken(r)
  BY <1>1 DEF RQ!Reserve, RQ!RequestToken, RQ!outbox, RQ!MadeAt
<1>2. CASE RQ!CheckAuthorization(r, live)
  <2>1. \A x \in DOMAIN RQ!OB!CheckPoints :
          x # "idle" /\ RQ!OB!CheckPoints[x] \notin {"idle", "posted"}
    BY DEF RQ!OB!CheckPoints
  <2> QED
    BY <1>2, <2>1 DEF RQ!CheckAuthorization, RQ!OB!Authorize, RQ!OB!AuthorizationRefused,
       RQ!OB!Reserve, RQ!OB!Goto, RQ!OB!Conclude
<1>3. CASE RQ!GetToken(r)
  BY <1>3 DEF RQ!GetToken, RQ!OB!GetToken, RQ!OB!Goto
<1>4. CASE RQ!NotSent(r) \/ RQ!Overdue(r)
  BY <1>4 DEF RQ!NotSent, RQ!Overdue, RQ!OB!PermanentFailure, RQ!OB!TransientFailure,
     RQ!OB!Unclassified, RQ!OB!Conclude
<1>5. CASE RQ!Post(r)
  BY <1>5 DEF RQ!Post, RQ!OB!Post
<1>6. ASSUME NEW outcome \in RQ!OB!Outcomes, RQ!Respond(r, outcome)
      PROVE  /\ UNCHANGED <<rows, claim, token>>
             /\ pc[r] # "idle" /\ pc'[r] = "finishing"
             /\ \A v \in Runners \ {r} : pc'[v] = pc[v] /\ result'[v] = result[v]
             /\ result'[r] # "dry_run"
  BY <1>6 DEF RQ!Respond, RQ!OB!Respond, RQ!OB!Conclude, RQ!OB!Classify, RQ!OB!Outcomes
<1> QED
  BY <1>1, <1>2, <1>3, <1>4, <1>5, <1>6 DEF RQ!SendStep

\* A run that is cut off leaves the rows alone, and its delivery.
LEMMA AbortFrame ==
    ASSUME OBP!IInv, NEW r \in Runners, RQ!Abort(r)
    PROVE  /\ rows' = rows /\ pc'[r] = "idle" /\ result'[r] \in {result[r], "none"}
           /\ \A v \in Runners \ {r} : /\ pc'[v] = pc[v] /\ claim'[v] = claim[v]
                                       /\ token'[v] = token[v] /\ result'[v] = result[v]
BY DEF OBP!IInv, OBP!TypeOK, RQ!Abort, RQ!OB!Crash, RQ!OB!Leave, RQ!outbox

\* So does the recording of a result, but for the row of the run.
LEMMA FinishFrame ==
    ASSUME OBP!IInv, NEW r \in Runners, OB!Finish(r) \/ OB!FencedOut(r)
    PROVE  /\ pc'[r] = "idle" /\ result'[r] = "none"
           /\ \A v \in Runners \ {r} : /\ pc'[v] = pc[v] /\ claim'[v] = claim[v]
                                       /\ token'[v] = token[v] /\ result'[v] = result[v]
BY DEF OBP!IInv, OBP!TypeOK, OB!Finish, OB!FencedOut, OB!Leave

\* A claim is the claiming run's.
LEMMA ClaimFrame ==
    ASSUME OBP!IInv, NEW r \in Runners, NEW p \in Purposes, OB!Claim(r, p)
    PROVE  /\ pc'[r] = "claimed" /\ claim'[r] = p /\ result' = result
           /\ \A v \in Runners \ {r} : /\ pc'[v] = pc[v] /\ claim'[v] = claim[v]
                                       /\ token'[v] = token[v]
BY DEF OBP!IInv, OBP!TypeOK, OB!Claim

\* A run has gone on to a step.
Moved(r, step) ==
    /\ run' \in [Runners -> Runs]
    /\ \A v \in Runners \ {r} : run'[v] = run[v]
    /\ run'[r].step = step
    /\ run'[r].purpose = run[r].purpose /\ run'[r].knows = run[r].knows

RunSteps == {"out", "invoked", "reviewing", "asking", "binding", "recovering", "assessing",
             "working", "checking", "preparing", "claiming", "sending", "closing"}

\* How the actions move a run.
LEMMA Going ==
    ASSUME Runnings, NEW r \in Runners, NEW from, NEW to \in RunSteps, Goto(r, from, to)
    PROVE  Moved(r, to) /\ run[r].step = from
<1>1. run[r] \in Runs /\ run' = [run EXCEPT ![r].step = to]
  BY DEF Runnings, Goto
<1>2. [run[r] EXCEPT !.step = to] \in Runs
  BY <1>1 DEF Runs, RunSteps
<1>3. run' = [run EXCEPT ![r] = [run[r] EXCEPT !.step = to]]
  BY <1>1
<1> QED
  BY <1>1, <1>2, <1>3 DEF Runnings, Moved, Goto, Runs

LEMMA Concluding ==
    ASSUME Runnings, NEW r \in Runners, NEW status \in Statuses, Conclude(r, status)
    PROVE  Moved(r, "closing") /\ run'[r].status = status
<1>1. run[r] \in Runs
  BY DEF Runnings
<1>2. [run[r] EXCEPT !.step = "closing", !.status = status] \in Runs
  BY <1>1 DEF Runs
<1> QED
  BY <1>1, <1>2 DEF Runnings, Moved, Conclude, Runs

LEMMA Performing ==
    ASSUME Runnings, NEW r \in Runners, NEW status \in Statuses, Perform(r, status)
    PROVE  Moved(r, "closing") /\ run'[r].status = status
BY Concluding DEF Perform

LEMMA Leaving ==
    ASSUME Runnings, NEW r \in Runners, run' = [run EXCEPT ![r] = NoRun]
    PROVE  /\ run' \in [Runners -> Runs]
           /\ \A v \in Runners \ {r} : run'[v] = run[v]
           /\ run'[r].step = "out"
<1>1. NoRun \in Runs
  BY DEF NoRun, Runs
<1> QED
  BY <1>1 DEF Runnings, NoRun

\* A run that moves on keeps what its step says, when it goes on from a step that
\* says as much.
LEMMA MovesOn ==
    ASSUME Runnings, NEW r \in Runners, NEW step \in RunSteps, Moved(r, step),
           tenant' = tenant, holder' = holder, run[r].step # "out",
           step \in LookingUp => run[r].step \in LookingUp,
           step \in Delivering => run[r].step \in Delivering
    PROVE  Runnings'
<1>1. ASSUME NEW v \in Runners PROVE Stands(v)'
  BY DEF Runnings, Stands, Moved, Locked
<1> QED
  BY <1>1 DEF Runnings, Moved

\* Every action of a run but those that take or give up the lock moves it on, in
\* order.
LEMMA Course ==
    ASSUME Runnings, NEW r \in Runners, RunStep(r),
           ~Enter(r), ~Bind(r), ~Close(r), ~Crash(r)
    PROVE  /\ UNCHANGED <<tenant, lock>>
           /\ \/ UNCHANGED run
              \/ /\ Moved(r, "closing") /\ run[r].step # "out"
              \/ \E to \in RunSteps :
                   /\ Moved(r, to)
                   /\ <<run[r].step, to>> \in
                        {<<"reviewing", "asking">>, <<"asking", "binding">>,
                         <<"recovering", "assessing">>, <<"assessing", "working">>,
                         <<"working", "checking">>, <<"checking", "preparing">>,
                         <<"preparing", "claiming">>, <<"claiming", "sending">>}
<1> USE DEF Statuses, RunSteps, private, lock
<1>1. CASE Review(r)
  BY <1>1, Going, Concluding DEF Review
<1>2. CASE Ask(r)
  BY <1>2, Going DEF Ask
<1>3. CASE Recover(r)
  BY <1>3, Going DEF Recover
<1>4. CASE Assess(r)
  <2>1. SelectedStatus(run[r].purpose) \in Statuses
    BY DEF SelectedStatus
  <2> QED
    BY <1>4, <2>1, Going, Concluding DEF Assess
<1>5. ASSUME NEW t \in Tasks, TakeTask(r, t)
      PROVE  UNCHANGED <<tenant, lock>> /\ Moved(r, "checking") /\ run[r].step = "working"
  <2>1. run[r] \in Runs /\ [run[r] EXCEPT !.step = "checking", !.task = t] \in Runs
    BY DEF Runnings, Runs
  <2> QED
    BY <1>5, <2>1 DEF TakeTask, Moved, Runnings, Runs
<1>6. CASE Check(r)
  BY <1>6, Going, Performing DEF Check
<1>7. ASSUME NEW p \in Purposes, Prepare(r, p)
      PROVE  UNCHANGED <<tenant, lock>> /\ Moved(r, "claiming") /\ run[r].step = "preparing"
  BY <1>7, Going DEF Prepare
<1>8. ASSUME NEW p \in Purposes, Claim(r, p)
      PROVE  /\ UNCHANGED <<tenant, lock>> /\ run[r].step = "claiming"
             /\ Moved(r, "sending") \/ Moved(r, "closing")
  BY <1>8, Going, Performing DEF Claim
<1>9. CASE Send(r)
  BY <1>9 DEF Send
<1>10. CASE Finish(r)
  BY <1>10, Performing DEF Finish
<1>11. CASE Fail(r)
  BY <1>11, Performing DEF Fail
<1>12. CASE DatabaseFails(r) \/ TimesOut(r)
  BY <1>12, Performing, Concluding DEF DatabaseFails, TimesOut
<1> QED
  BY <1>1, <1>2, <1>3, <1>4, <1>5, <1>6, <1>7, <1>8, <1>9, <1>10, <1>11, <1>12 DEF RunStep

\* What is not a run's doing leaves the runs alone, but for a launch.
LEMMA Elsewhere ==
    ASSUME [Next]_vars, ~\E r \in Runners : RunStep(r),
           ~\E r \in Runners, p \in Purposes : Launch(r, p)
    PROVE  UNCHANGED <<run, tenant, lookups, lock, ledger, pc, claim, token, result, arrived>>
BY DEF Next, vars, outbox, private, lock, ledger, Stop, Wake, Revoke, TimeGoesOn, LeaseExpires,
   OB!LeaseExpires, OB!BackoffElapses, OB!workerVars

\* The lock admits one run, and each step of a run follows on the one before.
LEMMA RunningsStep == Runnings /\ [Next]_vars => Runnings'
<1> SUFFICES ASSUME Runnings, [Next]_vars PROVE Runnings'
  OBVIOUS
<1> USE DEF LookingUp, Chosen, Delivering, RunSteps
<1>1. ASSUME NEW r \in Runners, RunStep(r), ~Enter(r), ~Bind(r), ~Close(r), ~Crash(r)
      PROVE  Runnings'
  <2>1. UNCHANGED run \/ \E to \in RunSteps : Moved(r, to)
    BY <1>1, Course
  <2>2. UNCHANGED <<run, tenant, lock>> => Runnings'
    BY DEF Runnings, Stands, lock
  <2>3. CASE Moved(r, "closing") /\ run[r].step # "out"
    BY <1>1, <2>3, Course, MovesOn DEF lock
  <2> QED
    BY <1>1, <2>2, <2>3, Course, MovesOn DEF lock
<1>2. ASSUME NEW r \in Runners, Enter(r) PROVE Runnings'
  <2>1. tenant' = tenant /\ run[r].step = "invoked"
    BY <1>2 DEF Enter, private
  <2>2. CASE Conclude(r, "STATUS_ALREADY_RUNNING") /\ UNCHANGED lock
    <3>1. Moved(r, "closing")
      BY <2>2, Concluding DEF Statuses
    <3> QED
      BY <2>1, <2>2, <3>1, MovesOn DEF lock
  <2>3. ASSUME Goto(r, "invoked", IF run[r].knows THEN "recovering" ELSE "reviewing"), Acquire(r)
        PROVE  Runnings'
    <3>1. Moved(r, IF run[r].knows THEN "recovering" ELSE "reviewing")
      BY <2>3, Going
    <3>2. holder = None /\ holder' = r /\ None \notin Runners
      BY <2>3, StatusAssumption DEF Acquire
    <3>3. ASSUME NEW v \in Runners PROVE Stands(v)'
      BY <2>1, <3>1, <3>2 DEF Runnings, Stands, Moved, Locked
    <3> QED
      BY <2>1, <3>1, <3>3 DEF Runnings, Moved
  <2> QED
    BY <1>2, <2>2, <2>3 DEF Enter
<1>3. ASSUME NEW r \in Runners, Bind(r) PROVE Runnings'
  <2>1. run[r].step = "binding" /\ holder = r
    BY <1>3 DEF Bind, Runnings, Stands, Locked
  <2>2. CASE /\ Conclude(r, "STATUS_LOOKUP_BINDING_FAILED")
             /\ UNCHANGED lock /\ tenant' \in {tenant, TRUE}
    <3>1. Moved(r, "closing")
      BY <2>2, Concluding DEF Statuses
    <3>a. tenant' \in BOOLEAN /\ (tenant => tenant')
      <4>1. CASE tenant' = tenant
        BY <4>1 DEF Runnings
      <4>2. CASE tenant' = TRUE
        BY <4>2
      <4> QED
        BY <2>2, <4>1, <4>2
    <3>2. holder' = holder /\ tenant' \in BOOLEAN /\ (tenant => tenant')
      BY <2>2, <3>a DEF lock
    <3>3. ASSUME NEW v \in Runners PROVE Stands(v)'
      BY <2>1, <3>1, <3>2 DEF Runnings, Stands, Moved, Locked
    <3> QED
      BY <3>1, <3>2, <3>3 DEF Runnings, Moved
  <2>3. ASSUME run' = [run EXCEPT ![r] = [run[r] EXCEPT !.step = "invoked", !.knows = TRUE]],
               Release(r), tenant' = TRUE
        PROVE  Runnings'
    <3>1. run[r] \in Runs
      BY DEF Runnings
    <3>2. [run[r] EXCEPT !.step = "invoked", !.knows = TRUE] \in Runs
      BY <3>1 DEF Runs
    <3>3. /\ run' \in [Runners -> Runs] /\ \A v \in Runners \ {r} : run'[v] = run[v]
          /\ run'[r].step = "invoked" /\ run'[r].purpose = run[r].purpose
      BY <2>3, <3>1, <3>2 DEF Runnings, Runs
    <3>4. ASSUME NEW v \in Runners PROVE Stands(v)'
      BY <2>1, <2>3, <3>3 DEF Runnings, Stands, Locked, Release
    <3> QED
      BY <2>3, <3>3, <3>4 DEF Runnings
  <2> QED
    BY <1>3, <2>2, <2>3 DEF Bind
<1>4. ASSUME NEW r \in Runners, Close(r) \/ Crash(r) PROVE Runnings'
  <2>1. /\ run' = [run EXCEPT ![r] = NoRun] /\ tenant' \in {tenant, TRUE}
        /\ holder' = IF holder = r THEN None ELSE holder
    BY <1>4 DEF Close, Crash, Leave, Release, private
  <2>2. /\ run' \in [Runners -> Runs] /\ \A v \in Runners \ {r} : run'[v] = run[v]
        /\ run'[r].step = "out"
    BY <2>1, Leaving
  <2>3. ASSUME NEW v \in Runners PROVE Stands(v)'
    BY <2>1, <2>2 DEF Runnings, Stands, Locked
  <2> QED
    BY <2>1, <2>2, <2>3 DEF Runnings
<1>5. ASSUME NEW r \in Runners, NEW p \in Purposes, Launch(r, p) PROVE Runnings'
  <2> DEFINE step == IF Missed(p) THEN "closing" ELSE "invoked"
             status == IF Missed(p) THEN "STATUS_MISSED" ELSE "none"
  <2>1. run' = [run EXCEPT ![r] = [run[r] EXCEPT !.step = step, !.status = status,
                                                 !.purpose = p, !.knows = tenant]]
    BY <1>5 DEF Launch
  <2>2. step \in {"closing", "invoked"} /\ status \in Statuses \cup {"none"}
    BY DEF Statuses
  <2> HIDE DEF step, status
  <2>3. run[r] \in Runs
    BY DEF Runnings
  <2>4. [run[r] EXCEPT !.step = step, !.status = status, !.purpose = p, !.knows = tenant] \in Runs
    BY <2>2, <2>3 DEF Runs, Runnings
  <2>5. /\ run' \in [Runners -> Runs] /\ \A v \in Runners \ {r} : run'[v] = run[v]
        /\ run'[r].step = step /\ run'[r].purpose = p /\ run'[r].knows = tenant
    BY <2>1, <2>3, <2>4 DEF Runnings, Runs
  <2>6. tenant' = tenant /\ holder' = holder
    BY <1>5 DEF Launch, private
  <2>7. ASSUME NEW v \in Runners PROVE Stands(v)'
    BY <2>2, <2>5, <2>6 DEF Runnings, Stands, Locked
  <2> QED
    BY <2>5, <2>6, <2>7 DEF Runnings
<1>6. CASE UNCHANGED <<run, tenant, lock>>
  BY <1>6 DEF Runnings, Stands, lock
<1> QED
  BY <1>1, <1>2, <1>3, <1>4, <1>5, <1>6, Elsewhere

\* Before it claims, and once it has finished, a run touches no claim.
LEMMA Quiet ==
    ASSUME Runnings, NEW r \in Runners, RunStep(r),
           ~Send(r), ~Finish(r), ~DatabaseFails(r), ~TimesOut(r), ~Crash(r),
           ~\E p \in Purposes : Claim(r, p)
    PROVE  /\ UNCHANGED <<pc, claim, token, result, arrived>>
           /\ \A v \in Runners \ {r} : run'[v] = run[v]
           /\ run[r].step # "sending" /\ run'[r].step # "sending"
<1>1. CASE Enter(r)
  <2>1. UNCHANGED <<pc, claim, token, result, arrived>>
    BY <1>1 DEF Enter, outbox
  <2>2. Moved(r, IF run[r].knows THEN "recovering" ELSE "reviewing") \/ Moved(r, "closing")
    BY <1>1, Going, Concluding DEF Enter, RunSteps, Statuses
  <2> QED
    BY <1>1, <2>1, <2>2 DEF Enter, Moved
<1>2. CASE Bind(r)
  <2>1. UNCHANGED <<pc, claim, token, result, arrived>> /\ run[r].step = "binding"
    BY <1>2 DEF Bind, outbox
  <2>2. CASE Conclude(r, "STATUS_LOOKUP_BINDING_FAILED")
    BY <2>1, <2>2, Concluding DEF Moved, Statuses
  <2>3. CASE run' = [run EXCEPT ![r] = [run[r] EXCEPT !.step = "invoked", !.knows = TRUE]]
    BY <2>1, <2>3 DEF Runnings, Runs
  <2> QED
    BY <1>2, <2>2, <2>3 DEF Bind
<1>3. CASE Close(r)
  <2>1. UNCHANGED <<pc, claim, token, result, arrived>> /\ run[r].step = "closing"
    BY <1>3 DEF Close, outbox
  <2> QED
    BY <1>3, <2>1, Leaving DEF Close, Leave
<1>4. CASE ~Enter(r) /\ ~Bind(r) /\ ~Close(r)
  <2>1. UNCHANGED <<pc, claim, token, result, arrived>> /\ run[r].step # "sending"
    <3>1. CASE \/ Review(r) \/ Assess(r) \/ Check(r) \/ Fail(r)
               \/ \E t \in Tasks : TakeTask(r, t)
      BY <3>1 DEF Review, Assess, Check, Fail, TakeTask, Goto, outbox
    <3>2. CASE Ask(r)
      BY <3>2 DEF Ask, RQ!ReserveLookup, RQ!ObserveLookup, RQ!outbox, outbox
    <3>3. CASE Recover(r)
      BY <3>3 DEF Recover, OB!RecoverDeliveries, OB!workerVars, Goto
    <3>4. ASSUME NEW p \in Purposes, Prepare(r, p)
          PROVE  UNCHANGED <<pc, claim, token, result, arrived>> /\ run[r].step # "sending"
      BY <3>4 DEF Prepare, OB!Enqueue, OB!workerVars, outbox, Goto
    <3> QED
      BY <1>4, <3>1, <3>2, <3>3, <3>4 DEF RunStep
  <2>2. /\ \A v \in Runners \ {r} : run'[v] = run[v]
        /\ run'[r].step = run[r].step \/ run'[r].step # "sending" \/ run[r].step = "claiming"
    BY <1>4, Course DEF Moved
  <2>3. CASE run[r].step = "claiming"
    <3>1. Fail(r)
      BY <1>4, <2>3 DEF RunStep, Review, Ask, Recover, Assess, Check, TakeTask, Prepare, Goto
    <3> QED
      BY <2>1, <2>2, <3>1, Performing DEF Fail, Moved, Statuses
  <2> QED
    BY <2>1, <2>2, <2>3
<1> QED
  BY <1>1, <1>2, <1>3, <1>4

\* Only a run that is sending has a delivery, and it is its notice's.
LEMMA SendersStep == OBP!IInv /\ Runnings /\ Senders /\ [Next]_vars => Senders'
<1> SUFFICES ASSUME OBP!IInv, Runnings, Senders, [Next]_vars PROVE Senders'
  OBVIOUS
<1>1. ASSUME NEW r \in Runners, RunStep(r) PROVE Senders'
  <2>1. CASE Send(r)
    BY <2>1, SendFrame DEF Send, Senders
  <2>2. CASE Finish(r)
    <3>1. Moved(r, "closing") /\ (OB!Finish(r) \/ OB!FencedOut(r))
      BY <2>2, Performing DEF Finish, Statuses
    <3> QED
      BY <3>1, FinishFrame DEF Senders, Moved
  <2>3. CASE DatabaseFails(r) \/ TimesOut(r)
    <3>1. Moved(r, "closing") /\ RQ!Abort(r)
      BY <2>3, Performing, Concluding DEF DatabaseFails, TimesOut, Statuses
    <3> QED
      BY <3>1, AbortFrame DEF Senders, Moved
  <2>4. CASE Crash(r)
    <3>1. RQ!Abort(r) /\ run' = [run EXCEPT ![r] = NoRun]
      BY <2>4 DEF Crash, Leave
    <3>2. run'[r].step = "out" /\ \A v \in Runners \ {r} : run'[v] = run[v]
      BY <3>1, Leaving
    <3>3. pc'[r] = "idle" /\ result'[r] # "dry_run"
      BY <3>1, AbortFrame DEF Senders
    <3> QED
      BY <3>1, <3>2, <3>3, AbortFrame DEF Senders
  <2>5. ASSUME NEW p \in Purposes, Claim(r, p) PROVE Senders'
    <3>0. run[r].step = "claiming" /\ run[r].purpose = p
      BY <2>5 DEF Claim
    <3>1. CASE OB!Claim(r, p) /\ Goto(r, "claiming", "sending")
      <4>1. Moved(r, "sending")
        BY <3>1, Going DEF RunSteps
      <4> QED
        BY <3>0, <3>1, <4>1, ClaimFrame DEF Senders, Moved
    <3>2. CASE Perform(r, "STATUS_FAILED") /\ UNCHANGED <<pc, claim, result>>
      BY <3>0, <3>2, Performing DEF Senders, Moved, Statuses
    <3> QED
      BY <2>5, <3>1, <3>2 DEF Claim, OB!ClaimRevoked, OB!workerVars, outbox
  <2>6. CASE /\ ~Send(r) /\ ~Finish(r) /\ ~DatabaseFails(r) /\ ~TimesOut(r) /\ ~Crash(r)
             /\ ~\E p \in Purposes : Claim(r, p)
    BY <1>1, <2>6, Quiet DEF Senders
  <2> QED
    BY <2>1, <2>2, <2>3, <2>4, <2>5, <2>6
<1>2. ASSUME NEW r \in Runners, NEW p \in Purposes, Launch(r, p) PROVE Senders'
  <2>1. UNCHANGED <<pc, claim, result>> /\ run[r].step = "out"
    BY <1>2 DEF Launch, outbox
  <2>2. run'[r].step # "sending" /\ \A v \in Runners \ {r} : run'[v] = run[v]
    BY <1>2 DEF Launch, Runnings, Runs
  <2> QED
    BY <2>1, <2>2 DEF Senders
<1>3. CASE UNCHANGED <<run, pc, claim, result>>
  BY <1>3 DEF Senders
<1> QED
  BY <1>1, <1>2, <1>3, Elsewhere

\* Who changes the state of a row, and to what.
LEMMA RowChange ==
    ASSUME OBP!IInv, Runnings, Senders, [Next]_vars, NEW p \in Purposes,
           rows'[p].state # rows[p].state
    PROVE  \E r \in Runners :
             \/ /\ run[r].step = "recovering"
                /\ rows[p].state = "in_flight" /\ rows'[p].state = "unknown"
             \/ /\ run[r].step = "preparing"
                /\ rows[p].state = "absent" /\ rows'[p].state = "pending"
             \/ /\ run[r].step = "claiming" /\ run[r].purpose = p
                /\ rows[p].state \in {"pending", "failed_retryable"}
                /\ rows'[p].state \in {"in_flight", "failed_final"}
             \/ /\ run[r].step = "sending" /\ run[r].purpose = p
                /\ rows[p].state = "in_flight" /\ rows'[p].state \in Tried
                /\ rows'[p].state = "accepted" =>
                     pc[r] = "finishing" /\ result[r] = "accepted" /\ claim[r] = p
<1>0. rows \in [Purposes -> OBP!Rows]
  BY DEF OBP!IInv, OBP!TypeOK
<1> USE DEF OBP!Rows
<1>1. ASSUME NEW r \in Runners, Recover(r)
      PROVE  /\ run[r].step = "recovering"
             /\ rows[p].state = "in_flight" /\ rows'[p].state = "unknown"
  <2>1. run[r].step = "recovering" /\ OB!RecoverDeliveries
    BY <1>1 DEF Recover, Goto
  <2>2. rows'[p] = IF OB!Expired(p)
                   THEN [rows[p] EXCEPT !.state = "unknown", !.token = 0, !.lease = "none"]
                   ELSE rows[p]
    BY <2>1, Zenon DEF OB!RecoverDeliveries
  <2>3. OB!Expired(p)
    BY <2>2, Zenon
  <2> QED
    BY <1>0, <2>1, <2>2, <2>3 DEF OB!Expired
<1>2. ASSUME NEW r \in Runners, NEW q \in Purposes, Prepare(r, q)
      PROVE  /\ run[r].step = "preparing"
             /\ rows[p].state = "absent" /\ rows'[p].state = "pending"
  BY <1>2 DEF Prepare, Goto, OB!Enqueue, OB!NewRow, outbox
<1>3. ASSUME NEW r \in Runners, NEW q \in Purposes, Claim(r, q)
      PROVE  /\ run[r].step = "claiming" /\ run[r].purpose = p
             /\ rows[p].state \in {"pending", "failed_retryable"}
             /\ rows'[p].state \in {"in_flight", "failed_final"}
  <2>1. /\ run[r].step = "claiming" /\ run[r].purpose = q
        /\ OB!Claim(r, q) \/ OB!ClaimRevoked(q)
    BY <1>3 DEF Claim, outbox
  <2>2. q = p
    BY <1>0, <2>1 DEF OB!Claim, OB!ClaimRevoked
  <2>3. CASE OB!Claim(r, q)
    BY <1>0, <2>1, <2>2, <2>3 DEF OB!Claim, OB!MayClaim, OB!Claimable
  <2>4. CASE OB!ClaimRevoked(q)
    BY <1>0, <2>1, <2>2, <2>4 DEF OB!ClaimRevoked, OB!MayClaim, OB!Claimable
  <2> QED
    BY <2>1, <2>3, <2>4
<1>4. ASSUME NEW r \in Runners, Finish(r)
      PROVE  /\ run[r].step = "sending" /\ run[r].purpose = p
             /\ rows[p].state = "in_flight" /\ rows'[p].state \in Tried
             /\ rows'[p].state = "accepted" =>
                  pc[r] = "finishing" /\ result[r] = "accepted" /\ claim[r] = p
  <2>1. OB!Finish(r) /\ run[r].step = "sending"
    BY <1>4 DEF Finish, OB!FencedOut
  <2>2. claim[r] = p /\ run[r].purpose = p
    BY <1>0, <2>1 DEF OB!Finish, Senders
  <2>3. rows[p].state = "in_flight" /\ rows'[p].state = OB!FinalState(r)
    BY <1>0, <2>1, <2>2 DEF OB!Finish, OB!OwnsLease, OB!LeaseLive
  <2>4. OB!FinalState(r) \in Tried
    <3>1. result[r] \in OBP!Results /\ result[r] # "dry_run"
      <4>1. claim[r] # None /\ pc[r] = "finishing"
        BY <2>1, <2>2, StatusAssumption DEF OB!Finish
      <4> QED
        BY <4>1 DEF Senders, OBP!IInv, OBP!WorkerKnows
    <3> QED
      BY <3>1 DEF OB!FinalState, OBP!Results, Tried
  <2>5. pc[r] = "finishing" /\ (OB!FinalState(r) = "accepted" => result[r] = "accepted")
    BY <2>1 DEF OB!Finish, OB!FinalState
  <2> QED
    BY <2>1, <2>2, <2>3, <2>4, <2>5
<1>5. ASSUME NEW r \in Runners, Send(r) \/ DatabaseFails(r) \/ TimesOut(r) \/ Crash(r) PROVE FALSE
  BY <1>5, SendFrame, AbortFrame DEF Send, DatabaseFails, TimesOut, Crash
<1>6. ASSUME NEW r \in Runners,
             \/ Enter(r) \/ Review(r) \/ Ask(r) \/ Bind(r) \/ Assess(r) \/ Check(r) \/ Fail(r)
             \/ Close(r) \/ \E t \in Tasks : TakeTask(r, t)
      PROVE  FALSE
  BY <1>6 DEF Enter, Review, Ask, RQ!ReserveLookup, RQ!ObserveLookup, RQ!outbox, Bind, Assess,
     Check, Fail, Close, TakeTask, outbox
<1>7. ASSUME NEW r \in Runners, NEW q \in Purposes, Launch(r, q) PROVE FALSE
  BY <1>7 DEF Launch, outbox
<1>8. CASE Stop \/ Wake \/ Revoke \/ TimeGoesOn \/ UNCHANGED vars
  BY <1>8 DEF Stop, Wake, Revoke, TimeGoesOn, vars, outbox
<1>9. ASSUME NEW q \in Purposes, LeaseExpires(q) PROVE FALSE
  BY <1>0, <1>9 DEF LeaseExpires, OB!LeaseExpires, OB!BackoffElapses
<1> QED
  BY <1>1, <1>2, <1>3, <1>4, <1>5, <1>6, <1>7, <1>8, <1>9 DEF Next, RunStep

\* Requests are added by reservations only; what else is recorded of one is that
\* it was made or what came of it.
LEMMA LedgerStep ==
    ASSUME Posted, [Next]_vars
    PROVE  \/ \E r \in Runners : \E operation \in DOMAIN RQ!MadeAt :
                Send(r) /\ RQ!Reserve(r, operation, Live(run[r].purpose))
           \/ \E r \in Runners : \E q \in {RQ!Lookup(lookups), RQ!Query(lookups)} :
                Ask(r) /\ RQ!Observe(q, "reserved")
           \/ calls' = calls
           \/ \E q \in RQ!Made, phase \in {"started", "responded", "transport_failure"} :
                RQ!Observe(q, phase)
<1> DEFINE Recorded ==
             \/ calls' = calls
             \/ \E q \in RQ!Made, phase \in {"started", "responded", "transport_failure"} :
                  RQ!Observe(q, phase)
<1>1. ASSUME NEW r \in Runners, Send(r),
             ~\E operation \in DOMAIN RQ!MadeAt : RQ!Reserve(r, operation, Live(run[r].purpose))
      PROVE  Recorded
  <2> USE DEF RQ!PhaseOf
  <2>1. CASE RQ!CheckAuthorization(r, Live(run[r].purpose)) \/ RQ!Overdue(r)
    BY <2>1 DEF RQ!CheckAuthorization, RQ!Overdue
  <2>2. CASE RQ!RequestToken(r) \/ RQ!GetToken(r)
    BY <2>2 DEF RQ!RequestToken, RQ!GetToken
  <2>3. CASE RQ!NotSent(r)
    BY <2>3 DEF RQ!NotSent
  <2>4. CASE RQ!Post(r)
    BY <2>4 DEF RQ!Post
  <2>5. ASSUME NEW outcome \in RQ!OB!Outcomes, RQ!Respond(r, outcome) PROVE Recorded
    <3>1. RQ!Own(r, "message_send") \in RQ!Made
      BY <2>5 DEF Posted, RQ!Respond, RQ!OB!Respond
    <3> QED
      BY <2>5, <3>1 DEF RQ!Respond
  <2> QED
    BY <1>1, <2>1, <2>2, <2>3, <2>4, <2>5 DEF Send, RQ!SendStep
<1>2. ASSUME NEW r \in Runners, Ask(r)
      PROVE  Recorded \/ \E q \in {RQ!Lookup(lookups), RQ!Query(lookups)} :
                           RQ!Observe(q, "reserved")
  BY <1>2 DEF Ask, RQ!ReserveLookup, RQ!ObserveLookup, RQ!Charge, RQ!PhaseOf, ledger
<1>3. ASSUME ~\E r \in Runners : Send(r) \/ Ask(r) PROVE calls' = calls
  BY <1>3 DEF Next, RunStep, vars, ledger, Launch, Enter, Review, Bind, Recover, Assess,
     TakeTask, Check, Prepare, Claim, Finish, Fail, DatabaseFails, TimesOut, Close, Crash, Stop, Wake, Revoke,
     TimeGoesOn, LeaseExpires
<1> QED
  BY <1>1, <1>2, <1>3

\* A new request is an attempt's, made under its lease and a live grant, or the
\* lookup's; and none is forgotten.
LEMMA NewRequest ==
    ASSUME Posted, [Next]_vars
    PROVE  /\ RQ!Made \subseteq RQ!Made'
           /\ \A q \in RQ!Made' \ RQ!Made :
                \/ \E r \in Runners : \E operation \in {"tenant_token", "message_send"} :
                     /\ Send(r) /\ q = RQ!Own(r, operation)
                     /\ RQ!OB!OwnsLease(r) /\ Live(run[r].purpose)
                \/ \E r \in Runners : Ask(r) /\ q \in {RQ!Lookup(lookups), RQ!Query(lookups)}
<1>1. ASSUME NEW r \in Runners, NEW operation \in DOMAIN RQ!MadeAt,
             Send(r), RQ!Reserve(r, operation, Live(run[r].purpose))
      PROVE  /\ RQ!Made' = RQ!Made \cup {RQ!Own(r, operation)}
             /\ operation \in {"tenant_token", "message_send"}
             /\ RQ!OB!OwnsLease(r) /\ Live(run[r].purpose)
  BY <1>1, Recording DEF RQ!Reserve, RQ!Charge, RQ!MadeAt
<1>2. ASSUME NEW q, NEW phase, RQ!Observe(q, phase) PROVE RQ!Made' = RQ!Made \cup {q}
  BY <1>2, Recording
<1>3. calls' = calls => RQ!Made' = RQ!Made
  BY DEF RQ!Made
<1> QED
  BY <1>1, <1>2, <1>3, LedgerStep

\* A worker that has posted keeps its attempt until it hands it over.
LEMMA PostedStep == OBP!IInv /\ Runnings /\ Senders /\ Posted /\ [Next]_vars => Posted'
<1> SUFFICES ASSUME OBP!IInv, Runnings, Senders, Posted, [Next]_vars,
                    NEW r \in Runners, pc'[r] = "posted"
             PROVE  RQ!Own(r, "message_send")' \in RQ!Made'
  BY DEF Posted
<1>1. CASE RQ!Post(r)
  <2>1. RQ!Own(r, "message_send") \in RQ!Made'
    BY <1>1, Recording DEF RQ!Post
  <2>2. claim' = claim /\ token' = token
    BY <1>1 DEF RQ!Post, RQ!OB!Post
  <2> QED
    BY <2>1, <2>2 DEF RQ!Own
<1>2. CASE ~RQ!Post(r)
  <2>1. pc[r] = "posted" /\ claim'[r] = claim[r] /\ token'[r] = token[r]
    <3>1. ASSUME NEW v \in Runners, Send(v) PROVE pc[r] = "posted" /\ UNCHANGED <<claim, token>>
      BY <1>2, <3>1, SendFrame DEF Send
    <3>2. ASSUME NEW v \in Runners, Finish(v) \/ DatabaseFails(v) \/ TimesOut(v) \/ Crash(v)
          PROVE  pc[r] = "posted" /\ claim'[r] = claim[r] /\ token'[r] = token[r]
      BY <3>2, FinishFrame, AbortFrame DEF Finish, DatabaseFails, TimesOut, Crash
    <3>3. ASSUME NEW v \in Runners, NEW p \in Purposes, Claim(v, p)
          PROVE  pc[r] = "posted" /\ claim'[r] = claim[r] /\ token'[r] = token[r]
      <4>1. OB!Claim(v, p) \/ UNCHANGED <<pc, claim, token>>
        BY <3>3 DEF Claim, OB!ClaimRevoked, OB!workerVars, outbox
      <4> QED
        BY <4>1, ClaimFrame
    <3>4. ASSUME NEW v \in Runners, NEW p \in Purposes, Launch(v, p)
          PROVE  UNCHANGED <<pc, claim, token>>
      BY <3>4 DEF Launch, outbox
    <3> QED
      BY <3>1, <3>2, <3>3, <3>4, Quiet, Elsewhere
  <2> QED
    BY <2>1, NewRequest DEF Posted, RQ!Own
<1> QED
  BY <1>1, <1>2

\* A notice that was tried stays so.
LEMMA TriedStays ==
    ASSUME OBP!IInv, Runnings, Senders, [Next]_vars, NEW p \in Purposes, rows[p].state \in Tried
    PROVE  rows'[p].state \in Tried
BY RowChange DEF Tried

\* The knowledge of the tenant: it is bound by a run that has asked.
LEMMA Binding ==
    ASSUME Runnings, [Next]_vars
    PROVE  /\ tenant => tenant'
           /\ tenant' = tenant \/ \E r \in Runners : run[r].step = "binding"
           /\ lookups' = lookups \/ RQ!Made = {}
<1>1. ASSUME NEW r \in Runners, RunStep(r), ~Enter(r), ~Bind(r), ~Close(r), ~Crash(r), ~Review(r)
      PROVE  UNCHANGED <<tenant, lookups>>
  BY <1>1 DEF RunStep, Ask, Recover, Assess, TakeTask, Check, Prepare, Claim, Send, Finish, Fail,
     DatabaseFails, TimesOut, private
<1>2. ASSUME NEW r \in Runners, Enter(r) \/ Close(r) PROVE UNCHANGED <<tenant, lookups>>
  BY <1>2 DEF Enter, Close, private
<1>3. ASSUME NEW r \in Runners, Review(r)
      PROVE  tenant' = tenant /\ (lookups' = lookups \/ RQ!Made = {})
  BY <1>3 DEF Review
<1>4. ASSUME NEW r \in Runners, Bind(r) \/ Crash(r)
      PROVE  /\ lookups' = lookups /\ (tenant' = tenant \/ tenant' = TRUE)
             /\ tenant' = tenant \/ run[r].step = "binding"
  BY <1>4 DEF Bind, Crash
<1>5. ASSUME NEW r \in Runners, NEW p \in Purposes, Launch(r, p) PROVE UNCHANGED <<tenant, lookups>>
  BY <1>5 DEF Launch, private
<1>6. tenant' = tenant \/ tenant' = TRUE
  BY <1>1, <1>2, <1>3, <1>4, <1>5, Elsewhere
<1>7. tenant => tenant'
  <2>1. CASE tenant' = tenant
    BY <2>1
  <2>2. CASE tenant' = TRUE
    BY <2>2
  <2> QED
    BY <1>6, <2>1, <2>2
<1> QED
  BY <1>1, <1>2, <1>3, <1>4, <1>5, <1>7, Elsewhere

\* A run is moved by its own steps only.
LEMMA Alone ==
    ASSUME Runnings, [Next]_vars, NEW r \in Runners, run'[r] # run[r]
    PROVE  RunStep(r) \/ \E p \in Purposes : Launch(r, p)
<1>1. ASSUME NEW v \in Runners, RunStep(v), v # r PROVE FALSE
  <2>1. CASE Enter(v)
    BY <1>1, <2>1, Going, Concluding DEF Enter, Moved, RunSteps, Statuses
  <2>2. CASE Bind(v)
    <3>1. CASE Conclude(v, "STATUS_LOOKUP_BINDING_FAILED")
      BY <1>1, <3>1, Concluding DEF Moved, Statuses
    <3>2. CASE run' = [run EXCEPT ![v] = [run[v] EXCEPT !.step = "invoked", !.knows = TRUE]]
      BY <1>1, <3>2 DEF Runnings
    <3> QED
      BY <2>2, <3>1, <3>2 DEF Bind
  <2>3. CASE Close(v) \/ Crash(v)
    BY <1>1, <2>3, Leaving DEF Close, Crash, Leave
  <2>4. CASE ~Enter(v) /\ ~Bind(v) /\ ~Close(v) /\ ~Crash(v)
    BY <1>1, <2>4, Course DEF Moved
  <2> QED
    BY <2>1, <2>2, <2>3, <2>4
<1>2. ASSUME NEW v \in Runners, NEW p \in Purposes, Launch(v, p), v # r PROVE FALSE
  BY <1>2 DEF Launch, Runnings
<1> QED
  BY <1>1, <1>2, Elsewhere

\* The steps that have one way in.
LEMMA Before ==
    ASSUME Runnings, [Next]_vars, NEW r \in Runners
    PROVE  /\ run'[r].step \in Chosen =>
                /\ run'[r].purpose = run[r].purpose
                /\ \/ run[r].step \in Chosen
                   \/ run[r].step = "assessing" /\ SelectedStatus(run[r].purpose) = "STATUS_WAITING"
           /\ run'[r].step = "sending" =>
                /\ run'[r].purpose = run[r].purpose
                /\ run[r].step \in {"claiming", "sending"}
           /\ run'[r].step = "binding" => run[r].step = "binding" \/ RQ!Made # {}
           /\ run'[r].step = "asking" =>
                \/ run[r].step = "asking"
                \/ run[r].step = "reviewing" /\ RQ!Made = {}
           /\ run'[r].step # "out" /\ ~run'[r].knows =>
                ~tenant' \/ (run[r].step # "out" /\ ~run[r].knows)
<1>1. CASE run'[r] = run[r]
  BY <1>1
<1>2. ASSUME NEW p \in Purposes, Launch(r, p)
      PROVE  run'[r].step \in {"closing", "invoked"} /\ (~run'[r].knows => ~tenant')
  <2>1. run'[r].knows = tenant /\ run'[r].step \in {"closing", "invoked"}
    BY <1>2 DEF Launch, Runnings, Runs
  <2>2. tenant' = tenant
    BY <1>2 DEF Launch, private
  <2> QED
    BY <2>1, <2>2
<1>3. CASE Enter(r)
  <2>1. run[r].step = "invoked"
    BY <1>3 DEF Enter
  <2>2. Moved(r, "recovering") \/ Moved(r, "reviewing") \/ Moved(r, "closing")
    BY <1>3, Going, Concluding DEF Enter, RunSteps, Statuses
  <2> QED
    BY <2>1, <2>2 DEF Moved, Chosen
<1>4. CASE Bind(r)
  <2>1. CASE Conclude(r, "STATUS_LOOKUP_BINDING_FAILED")
    BY <1>4, <2>1, Concluding DEF Bind, Moved, Chosen, Statuses
  <2>2. CASE run' = [run EXCEPT ![r] = [run[r] EXCEPT !.step = "invoked", !.knows = TRUE]]
    BY <2>2 DEF Runnings, Runs, Chosen
  <2> QED
    BY <1>4, <2>1, <2>2 DEF Bind
<1>5. CASE Close(r) \/ Crash(r)
  BY <1>5, Leaving DEF Close, Crash, Leave, Chosen
<1>6. CASE RunStep(r) /\ ~Enter(r) /\ ~Bind(r) /\ ~Close(r) /\ ~Crash(r)
  <2>1. ASSUME Moved(r, "working"), run[r].step = "assessing"
        PROVE  SelectedStatus(run[r].purpose) = "STATUS_WAITING"
    <3>1. Assess(r) \/ Fail(r)
      BY <1>6, <2>1 DEF RunStep, Review, Ask, Recover, Check, TakeTask, Prepare, Claim, Send,
         Finish, DatabaseFails, TimesOut, Goto, Moved
    <3>2. ~Fail(r)
      BY <2>1, Performing DEF Fail, Moved, Statuses
    <3>3. SelectedStatus(run[r].purpose) \in Statuses
      BY DEF SelectedStatus, Statuses
    <3> QED
      BY <2>1, <3>1, <3>2, <3>3, Concluding DEF Assess, Moved
  <2>2. ASSUME Moved(r, "binding"), run[r].step = "asking" PROVE RQ!Made # {}
    <3>1. Ask(r) \/ Fail(r)
      BY <1>6, <2>2 DEF RunStep, Review, Assess, Recover, Check, TakeTask, Prepare, Claim, Send,
         Finish, DatabaseFails, TimesOut, Goto, Moved
    <3>2. ~Fail(r)
      BY <2>2, Performing DEF Fail, Moved, Statuses
    <3> QED
      BY <2>2, <3>1, <3>2 DEF Ask, Moved, RQ!PhaseOf
  <2>3. ASSUME Moved(r, "asking"), run[r].step = "reviewing" PROVE RQ!Made = {}
    <3>1. Review(r) \/ Fail(r)
      BY <1>6, <2>3 DEF RunStep, Ask, Assess, Recover, Check, TakeTask, Prepare, Claim, Send,
         Finish, DatabaseFails, TimesOut, Goto, Moved
    <3>2. ~Fail(r)
      BY <2>3, Performing DEF Fail, Moved, Statuses
    <3> QED
      BY <2>3, <3>1, <3>2, Concluding DEF Review, Moved, Statuses
  <2>4. CASE UNCHANGED run
    BY <2>4
  <2>5. CASE Moved(r, "closing") /\ run[r].step # "out"
    BY <2>5 DEF Moved, Chosen
  <2>6. ASSUME NEW to \in RunSteps, Moved(r, to),
               <<run[r].step, to>> \in
                  {<<"reviewing", "asking">>, <<"asking", "binding">>,
                   <<"recovering", "assessing">>, <<"assessing", "working">>,
                   <<"working", "checking">>, <<"checking", "preparing">>,
                   <<"preparing", "claiming">>, <<"claiming", "sending">>}
        PROVE  /\ run'[r].purpose = run[r].purpose /\ run'[r].knows = run[r].knows
               /\ run[r].step # "out"
               /\ to \in Chosen => run[r].step \in Chosen
                                   \/ (run[r].step = "assessing" /\ Moved(r, "working"))
               /\ to = "sending" => run[r].step = "claiming"
               /\ to = "binding" => run[r].step = "asking" /\ Moved(r, "binding")
               /\ to = "asking" => run[r].step = "reviewing" /\ Moved(r, "asking")
    BY <2>6 DEF Moved, Chosen
  <2>7. CASE \E to \in RunSteps :
               /\ Moved(r, to)
               /\ <<run[r].step, to>> \in
                    {<<"reviewing", "asking">>, <<"asking", "binding">>,
                     <<"recovering", "assessing">>, <<"assessing", "working">>,
                     <<"working", "checking">>, <<"checking", "preparing">>,
                     <<"preparing", "claiming">>, <<"claiming", "sending">>}
    <3>1. PICK to \in RunSteps :
               /\ Moved(r, to)
               /\ <<run[r].step, to>> \in
                    {<<"reviewing", "asking">>, <<"asking", "binding">>,
                     <<"recovering", "assessing">>, <<"assessing", "working">>,
                     <<"working", "checking">>, <<"checking", "preparing">>,
                     <<"preparing", "claiming">>, <<"claiming", "sending">>}
      BY <2>7
    <3>2. run'[r].step = to
      BY <3>1 DEF Moved
    <3> QED
      BY <2>1, <2>2, <2>3, <2>6, <3>1, <3>2
  <2> QED
    BY <1>6, <2>4, <2>5, <2>7, Course
<1> QED
  BY <1>1, <1>2, <1>3, <1>4, <1>5, <1>6, Alone DEF Chosen

\* While a run has the lock, the requests are its own.
LEMMA OwnRequest ==
    ASSUME Runnings, Senders, Posted, [Next]_vars,
           NEW r \in Runners, run[r].step \in Locked, NEW q \in RQ!Made' \ RQ!Made
    PROVE  \/ /\ Send(r) /\ run[r].step = "sending"
              /\ q[2] = run[r].purpose /\ q[3] = token[r]
           \/ /\ Ask(r) /\ run[r].step = "asking" /\ q[2] = None
<1>1. ASSUME NEW v \in Runners, Send(v) PROVE v = r /\ run[v].step = "sending"
  BY <1>1 DEF Send, Runnings, Stands, Locked, Delivering
<1>2. ASSUME NEW v \in Runners, Ask(v) PROVE v = r /\ run[v].step = "asking"
  BY <1>2 DEF Ask, Runnings, Stands, Locked, LookingUp
<1>3. CASE \E v \in Runners : \E operation \in {"tenant_token", "message_send"} :
             Send(v) /\ q = RQ!Own(v, operation)
  BY <1>1, <1>3 DEF RQ!Own, Senders
<1>4. CASE \E v \in Runners : Ask(v) /\ q \in {RQ!Lookup(lookups), RQ!Query(lookups)}
  BY <1>2, <1>4 DEF RQ!Lookup, RQ!Query
<1> QED
  BY <1>3, <1>4, NewRequest

\* A sending run keeps its attempt.
LEMMA SameAttempt ==
    ASSUME OBP!IInv, Runnings, Senders, [Next]_vars, NEW r \in Runners,
           run[r].step = "sending", run'[r].step = "sending"
    PROVE  token'[r] = token[r]
<1>1. ASSUME NEW v \in Runners, Send(v) PROVE token'[r] = token[r]
  BY <1>1, SendFrame DEF Send
<1>2. ASSUME NEW v \in Runners, Finish(v) PROVE token'[r] = token[r]
  <2>1. v # r /\ (OB!Finish(v) \/ OB!FencedOut(v))
    BY <1>2, Performing DEF Finish, Moved, Statuses
  <2> QED
    BY <2>1, FinishFrame
<1>3. ASSUME NEW v \in Runners, DatabaseFails(v) \/ TimesOut(v) PROVE token'[r] = token[r]
  <2>1. v # r /\ RQ!Abort(v)
    BY <1>3, Performing, Concluding DEF DatabaseFails, TimesOut, Moved, Statuses
  <2> QED
    BY <2>1, AbortFrame
<1>4. ASSUME NEW v \in Runners, Crash(v) PROVE token'[r] = token[r]
  <2>1. v # r /\ RQ!Abort(v)
    BY <1>4, Leaving DEF Crash, Leave
  <2> QED
    BY <2>1, AbortFrame
<1>5. ASSUME NEW v \in Runners, NEW p \in Purposes, Claim(v, p) PROVE token'[r] = token[r]
  <2>1. v # r /\ (OB!Claim(v, p) \/ UNCHANGED token)
    BY <1>5 DEF Claim, OB!ClaimRevoked, OB!workerVars, outbox
  <2> QED
    BY <2>1, ClaimFrame
<1>6. ASSUME NEW v \in Runners, NEW p \in Purposes, Launch(v, p) PROVE token'[r] = token[r]
  BY <1>6 DEF Launch, outbox
<1> QED
  BY <1>1, <1>2, <1>3, <1>4, <1>5, <1>6, Quiet, Elsewhere

\* A notice gets one attempt at most, and the tenant one lookup.
LEMMA RequestedStep ==
    OBP!IInv /\ Runnings /\ Senders /\ Posted /\ Requested /\ [Next]_vars => Requested'
<1> SUFFICES ASSUME OBP!IInv, Runnings, Senders, Posted, Requested, [Next]_vars PROVE Requested'
  OBVIOUS
<1>1. ASSUME NEW q \in RQ!Made'
      PROVE  /\ q[2] \in Purposes => rows'[q[2]].state \in Tried
             /\ q[2] \notin Purposes \/ q[1] = "tenant_query" =>
                  q \in {RQ!Lookup(lookups'), RQ!Query(lookups')}
  <2>1. CASE q \in RQ!Made
    BY <2>1, TriedStays, Binding DEF Requested
  <2>2. ASSUME NEW r \in Runners, NEW operation \in {"tenant_token", "message_send"},
               Send(r), q = RQ!Own(r, operation), RQ!OB!OwnsLease(r)
        PROVE  /\ q[2] \in Purposes /\ rows'[q[2]].state \in Tried
               /\ q[1] # "tenant_query"
    <3>1. rows' = rows /\ run[r].step = "sending"
      BY <2>2, SendFrame DEF Send
    <3>2. q[1] = operation /\ q[2] = claim[r]
      BY <2>2 DEF RQ!Own
    <3>3. claim[r] \in Purposes
      BY <3>1 DEF Senders, Runnings, Stands
    <3> QED
      BY <2>2, <3>1, <3>2, <3>3 DEF RQ!OB!OwnsLease, RQ!OB!LeaseLive, Tried
  <2>3. ASSUME NEW r \in Runners, Ask(r), q \in {RQ!Lookup(lookups), RQ!Query(lookups)}
        PROVE  q[2] \notin Purposes /\ lookups' = lookups
    BY <2>3, StatusAssumption DEF Ask, private, RQ!Lookup, RQ!Query
  <2> QED
    BY <2>1, <2>2, <2>3, NewRequest
<1>2. ASSUME NEW r \in Runners, run'[r].step \in Chosen, NEW q \in RQ!Made'
      PROVE  q[2] # run'[r].purpose
  <2>1. /\ run'[r].purpose = run[r].purpose
        /\ run[r].step \in Chosen \/ run[r].step = "assessing"
    BY <1>2, Before
  <2>2. q \in RQ!Made
    BY <2>1, OwnRequest DEF Locked, Delivering, Chosen
  <2>3. CASE run[r].step \in Chosen
    BY <2>1, <2>2, <2>3 DEF Requested
  <2>4. CASE run[r].step \notin Chosen
    <3>1. SelectedStatus(run[r].purpose) = "STATUS_WAITING" /\ run[r].purpose \in Purposes
      BY <1>2, <2>1, <2>4, Before DEF Runnings, Stands
    <3>2. rows[run[r].purpose].state \notin Tried
      BY <3>1 DEF SelectedStatus, Tried
    <3> QED
      BY <2>1, <2>2, <3>1, <3>2 DEF Requested
  <2> QED
    BY <2>3, <2>4
<1>3. ASSUME NEW r \in Runners, run'[r].step = "sending",
             NEW q \in RQ!Made', q[2] = run'[r].purpose
      PROVE  q[3] = token'[r]
  <2>1. run'[r].purpose = run[r].purpose /\ run[r].step \in {"claiming", "sending"}
    BY <1>3, Before
  <2>2. run[r].step \in Locked /\ run[r].purpose # None
    BY <2>1, StatusAssumption DEF Locked, Delivering, Chosen, Runnings, Stands
  <2>3. CASE run[r].step = "claiming"
    BY <1>3, <2>1, <2>2, <2>3, OwnRequest DEF Requested, Chosen
  <2>4. CASE run[r].step = "sending"
    <3>1. token'[r] = token[r]
      BY <1>3, <2>4, SameAttempt
    <3>2. q \in RQ!Made => q[3] = token[r]
      BY <1>3, <2>1, <2>4 DEF Requested
    <3> QED
      BY <1>3, <2>1, <2>2, <3>1, <3>2, OwnRequest
  <2> QED
    BY <2>1, <2>3, <2>4
<1>4. ASSUME NEW r \in Runners, run'[r].step = "binding" PROVE RQ!Made' # {}
  <2>1. RQ!Made # {}
    BY <1>4, Before DEF Requested
  <2> QED
    BY <2>1, NewRequest
<1>5. ASSUME NEW r \in Runners, run'[r].step # "out", ~run'[r].knows, tenant' PROVE RQ!Made' # {}
  <2>1. run[r].step # "out" /\ ~run[r].knows
    BY <1>5, Before
  <2>2. tenant' = tenant \/ \E v \in Runners : run[v].step = "binding"
    BY Binding
  <2>3. RQ!Made # {}
    BY <1>5, <2>1, <2>2 DEF Requested
  <2> QED
    BY <2>3, NewRequest
<1>6. \A x : RQ!Lookup(x)' = RQ!Lookup(x') /\ RQ!Query(x)' = RQ!Query(x')
  BY DEF RQ!Lookup, RQ!Query
<1> QED
  BY <1>1, <1>2, <1>3, <1>4, <1>5 DEF Requested, RQ!Lookup, RQ!Query

\* A run that sends has found the other notice not in doubt, and it stays so.
LEMMA UndoubtedStep ==
    /\ OBP!IInv /\ Runnings /\ Senders /\ Posted /\ Requested /\ Undoubted
    /\ [Next]_vars
    => Undoubted'
<1> SUFFICES ASSUME OBP!IInv, Runnings, Senders, Posted, Requested, Undoubted, [Next]_vars
             PROVE  Undoubted'
  OBVIOUS
<1>1. ASSUME NEW p \in Purposes, rows'[p].state # "absent" PROVE tenant'
  <2>1. CASE rows[p].state # "absent"
    BY <2>1, Binding DEF Undoubted
  <2>2. CASE rows[p].state = "absent"
    <3>1. PICK r \in Runners : run[r].step = "preparing"
      BY <1>1, <2>2, RowChange
    <3> QED
      BY <3>1, Binding DEF Runnings, Stands, Delivering, Chosen
  <2> QED
    BY <2>1, <2>2
<1>2. ASSUME NEW r \in Runners, run'[r].step = "asking" PROVE ~tenant'
  <2>1. \/ run[r].step = "asking"
        \/ run[r].step = "reviewing" /\ RQ!Made = {}
    BY <1>2, Before
  <2>2. ~tenant
    BY <2>1 DEF Undoubted, Requested, Runnings, Stands, LookingUp
  <2>3. tenant' = tenant
    BY <2>1, Binding DEF Runnings, Stands, Locked, LookingUp
  <2> QED
    BY <2>2, <2>3
<1>3. ASSUME NEW r \in Runners, run'[r].step \in Chosen \cup {"sending"},
             NEW p \in Purposes \ {run'[r].purpose}
      PROVE  rows'[p].state \notin {"unknown", "in_flight"}
  <2>1. /\ run'[r].purpose = run[r].purpose
        /\ \/ run[r].step \in Chosen \cup {"sending"}
           \/ run[r].step = "assessing" /\ SelectedStatus(run[r].purpose) = "STATUS_WAITING"
    BY <1>3, Before DEF Chosen
  <2>2. rows[p].state \notin {"unknown", "in_flight"}
    <3>1. CASE run[r].step \in Chosen \cup {"sending"}
      BY <1>3, <2>1, <3>1 DEF Undoubted
    <3>2. CASE SelectedStatus(run[r].purpose) = "STATUS_WAITING"
      BY <3>2 DEF SelectedStatus
    <3> QED
      BY <2>1, <3>1, <3>2
  <2>3. ASSUME rows'[p].state # rows[p].state PROVE rows'[p].state = "pending"
    <3>1. ASSUME NEW v \in Runners, run[v].step \in {"recovering", "claiming", "sending"}
          PROVE  v = r /\ run[v].step # "recovering"
      BY <2>1, <3>1 DEF Runnings, Stands, Locked, Delivering, Chosen
    <3> QED
      BY <1>3, <2>1, <2>3, <3>1, RowChange
  <2> QED
    BY <2>2, <2>3
<1> QED
  BY <1>1, <1>2, <1>3 DEF Undoubted

\* What was answered stays so, until the attempt it belongs to is answered again.
LEMMA AnswerStays ==
    ASSUME Posted, [Next]_vars, NEW q \in RQ!Made, calls[q] = "responded"
    PROVE  /\ q \in RQ!Made'
           /\ \/ calls'[q] = "responded"
              \/ \E r \in Runners : \E outcome \in RQ!OB!Outcomes :
                   Send(r) /\ RQ!Respond(r, outcome) /\ q = RQ!Own(r, "message_send")
<1>1. q \in RQ!Made'
  BY NewRequest
<1> DEFINE Kept == calls'[q] = "responded"
<1>2. ASSUME NEW p, NEW phase, RQ!Observe(p, phase), p # q PROVE Kept
  BY <1>2 DEF RQ!Observe
<1>3. RQ!PhaseOf(q) = "responded"
  BY DEF RQ!PhaseOf
<1>4. ASSUME NEW r \in Runners, Send(r), ~\E outcome \in RQ!OB!Outcomes : RQ!Respond(r, outcome)
      PROVE  Kept
  <2>1. CASE \E operation \in DOMAIN RQ!MadeAt : RQ!Reserve(r, operation, Live(run[r].purpose))
    BY <1>2, <2>1 DEF RQ!Reserve, RQ!Charge
  <2>2. CASE RQ!CheckAuthorization(r, Live(run[r].purpose)) \/ RQ!Overdue(r)
    BY <2>2 DEF RQ!CheckAuthorization, RQ!Overdue
  <2>3. CASE RQ!RequestToken(r)
    BY <1>2, <1>3, <2>3 DEF RQ!RequestToken
  <2>4. CASE RQ!GetToken(r)
    BY <1>2, <1>3, <2>4 DEF RQ!GetToken
  <2>5. CASE RQ!NotSent(r)
    BY <1>2, <1>3, <2>5 DEF RQ!NotSent
  <2>6. CASE RQ!Post(r)
    BY <1>2, <1>3, <2>6 DEF RQ!Post
  <2> QED
    BY <1>4, <2>1, <2>2, <2>3, <2>4, <2>5, <2>6 DEF Send, RQ!SendStep
<1>5. ASSUME NEW r \in Runners, Ask(r) PROVE Kept
  BY <1>2, <1>3, <1>5 DEF Ask, RQ!ReserveLookup, RQ!ObserveLookup, RQ!Charge, ledger
<1>6. ASSUME calls' = calls PROVE Kept
  BY <1>6
<1>7. calls' = calls \/ \E r \in Runners : Send(r) \/ Ask(r)
  BY DEF Next, RunStep, vars, ledger, Launch, Enter, Review, Bind, Recover, Assess, TakeTask,
     Check, Prepare, Claim, Finish, Fail, DatabaseFails, TimesOut, Close, Crash, Stop, Wake, Revoke, TimeGoesOn,
     LeaseExpires
<1>8. ASSUME NEW r \in Runners, Send(r), NEW outcome \in RQ!OB!Outcomes, RQ!Respond(r, outcome),
             q # RQ!Own(r, "message_send")
      PROVE  Kept
  BY <1>2, <1>8 DEF RQ!Respond
<1> QED
  BY <1>1, <1>4, <1>5, <1>6, <1>7, <1>8

\* A request to send a notice was answered.
Responded(p) == \E q \in RQ!Sends : q[2] = p /\ calls[q] = "responded"

\* An acceptance, recorded or about to be, comes from an answer in the ledger.
Answered ==
    /\ \A r \in Runners :
         pc[r] = "finishing" /\ result[r] = "accepted" => Responded(claim[r])
    /\ \A p \in Purposes : rows[p].state = "accepted" => Responded(p)

\* A notice that was answered stays so while none of its attempts is under way.
LEMMA RespondedStays ==
    ASSUME Posted, [Next]_vars, NEW p, Responded(p),
           \A r \in Runners : pc[r] = "posted" => claim[r] # p
    PROVE  Responded(p)'
<1>1. PICK q \in RQ!Sends : q[2] = p /\ calls[q] = "responded"
  BY DEF Responded
<1>2. q \in RQ!Made /\ q[1] = "message_send"
  BY <1>1 DEF RQ!Sends
<1>3. ASSUME NEW r \in Runners, NEW outcome, RQ!Respond(r, outcome), q = RQ!Own(r, "message_send")
      PROVE  FALSE
  BY <1>1, <1>3 DEF RQ!Respond, RQ!OB!Respond, RQ!Own
<1>4. q \in RQ!Made' /\ calls'[q] = "responded"
  BY <1>1, <1>2, <1>3, AnswerStays
<1> QED
  BY <1>1, <1>2, <1>4 DEF Responded, RQ!Sends

\* Only an answer makes an acceptance.
LEMMA Acceptance ==
    ASSUME OBP!IInv, Runnings, Senders, Posted, Answered, [Next]_vars,
           NEW r \in Runners, pc'[r] = "finishing", result'[r] = "accepted"
    PROVE  \E q \in RQ!Sends' : q[2] = claim'[r] /\ calls'[q] = "responded"
<1>1. CASE pc[r] = "finishing" /\ result[r] = "accepted" /\ claim'[r] = claim[r]
  <2>1. \A v \in Runners : pc[v] = "posted" => claim[v] # claim[r]
    BY <1>1 DEF Senders, Runnings, Stands, Locked, Delivering
  <2>2. Responded(claim[r])
    BY <1>1 DEF Answered
  <2> QED
    BY <1>1, <2>1, <2>2, RespondedStays DEF Responded
<1>2. CASE Send(r) /\ ~(pc[r] = "finishing" /\ result[r] = "accepted")
  <2>1. pc \in [Runners -> OBP!Steps] /\ result \in [Runners -> OBP!Results \cup {"none"}]
    BY DEF OBP!IInv, OBP!TypeOK
  <2>2. PICK outcome \in RQ!OB!Outcomes : RQ!Respond(r, outcome)
    <3>1. CASE \/ \E operation \in DOMAIN RQ!MadeAt :
                    RQ!Reserve(r, operation, Live(run[r].purpose))
               \/ RQ!RequestToken(r)
      BY <1>2, <3>1 DEF RQ!Reserve, RQ!RequestToken, RQ!outbox
    <3>2. CASE RQ!CheckAuthorization(r, Live(run[r].purpose))
      <4>1. \A x \in DOMAIN RQ!OB!CheckPoints : RQ!OB!CheckPoints[x] # "finishing"
        BY DEF RQ!OB!CheckPoints
      <4> QED
        BY <2>1, <3>2, <4>1 DEF RQ!CheckAuthorization, RQ!OB!Authorize,
           RQ!OB!AuthorizationRefused, RQ!OB!Reserve, RQ!OB!Goto, RQ!OB!Conclude
    <3>3. CASE RQ!GetToken(r) \/ RQ!Post(r)
      BY <2>1, <3>3 DEF RQ!GetToken, RQ!OB!GetToken, RQ!OB!Goto, RQ!Post, RQ!OB!Post
    <3>4. CASE RQ!NotSent(r) \/ RQ!Overdue(r)
      BY <2>1, <3>4 DEF RQ!NotSent, RQ!Overdue, RQ!OB!PermanentFailure, RQ!OB!TransientFailure,
         RQ!OB!Unclassified, RQ!OB!Conclude
    <3> QED
      BY <1>2, <3>1, <3>2, <3>3, <3>4 DEF Send, RQ!SendStep
  <2>3. outcome = "accepted"
    BY <2>1, <2>2 DEF RQ!Respond, RQ!OB!Respond, RQ!OB!Conclude, RQ!OB!Classify, RQ!OB!Outcomes
  <2> DEFINE q == RQ!Own(r, "message_send")
  <2>4. RQ!Observe(q, "responded") /\ claim' = claim
    BY <2>2, <2>3 DEF RQ!Respond, RQ!OB!Respond, RQ!OB!Conclude
  <2>5. q \in RQ!Made' /\ calls'[q] = "responded"
    BY <2>4, Recording DEF RQ!Observe
  <2>6. q[1] = "message_send" /\ q[2] = claim'[r]
    BY <2>4 DEF RQ!Own
  <2> HIDE DEF q
  <2> QED
    BY <2>5, <2>6 DEF Responded, RQ!Sends
<1>3. CASE ~Send(r)
  <2> DEFINE Same == pc[r] = "finishing" /\ result[r] = "accepted" /\ claim'[r] = claim[r]
  <2>1. ASSUME NEW v \in Runners, Send(v) PROVE Same
    BY <1>3, <2>1, SendFrame DEF Send
  <2>2. ASSUME NEW v \in Runners, Finish(v) \/ DatabaseFails(v) \/ TimesOut(v) \/ Crash(v) PROVE Same
    BY <2>2, FinishFrame, AbortFrame DEF Finish, DatabaseFails, TimesOut, Crash
  <2>3. ASSUME NEW v \in Runners, NEW p \in Purposes, Claim(v, p) PROVE Same
    <3>1. OB!Claim(v, p) \/ UNCHANGED <<pc, claim, result>>
      BY <2>3 DEF Claim, OB!ClaimRevoked, OB!workerVars, outbox
    <3> QED
      BY <3>1, ClaimFrame
  <2>4. ASSUME NEW v \in Runners, NEW p \in Purposes, Launch(v, p) PROVE Same
    BY <2>4 DEF Launch, outbox
  <2>5. Same
    BY <2>1, <2>2, <2>3, <2>4, Quiet, Elsewhere
  <2> QED
    BY <1>1, <2>5
<1> QED
  BY <1>1, <1>2, <1>3, SendFrame DEF Send

LEMMA AnsweredStep ==
    OBP!IInv /\ Runnings /\ Senders /\ Posted /\ Answered /\ [Next]_vars => Answered'
<1> SUFFICES ASSUME OBP!IInv, Runnings, Senders, Posted, Answered, [Next]_vars PROVE Answered'
  OBVIOUS
<1>1. ASSUME NEW p \in Purposes, rows'[p].state = "accepted" PROVE Responded(p)'
  <2>1. CASE rows[p].state = "accepted"
    <3>1. ASSUME NEW r \in Runners, pc[r] = "posted", claim[r] = p PROVE FALSE
      BY <2>1, <3>1, StatusAssumption DEF OBP!IInv, OBP!WorkerKnows
    <3> QED
      BY <2>1, <3>1, RespondedStays DEF Answered
  <2>2. CASE rows[p].state # "accepted"
    <3>1. PICK r \in Runners :
            run[r].step = "sending" /\ pc[r] = "finishing" /\ result[r] = "accepted" /\ claim[r] = p
      BY <1>1, <2>2, RowChange
    <3>2. \A v \in Runners : pc[v] = "posted" => claim[v] # p
      BY <3>1 DEF Senders, Runnings, Stands, Locked, Delivering
    <3> QED
      BY <3>1, <3>2, RespondedStays DEF Answered
  <2> QED
    BY <2>1, <2>2
<1> QED
  BY <1>1, Acceptance DEF Answered, Responded

\* A run that is to print an acceptance has read one, or recorded it.
LEMMA AcceptanceIs ==
    ASSUME OBP!IInv, Runnings, Senders, [Next]_vars, NEW r \in Runners, run'[r] # run[r],
           run'[r].step = "closing", run'[r].status = "STATUS_ACCEPTED"
    PROVE  /\ run'[r].purpose = run[r].purpose
           /\ rows'[run[r].purpose].state = "accepted"
<1>1. ASSUME NEW p \in Purposes, Launch(r, p) PROVE FALSE
  BY <1>1 DEF Launch, Runnings, Runs
<1>2. RunStep(r)
  BY <1>1, Alone
<1>3. CASE Assess(r)
  <2> DEFINE p == run[r].purpose
  <2>1. run[r].step = "assessing" /\ p \in Purposes
    BY <1>3 DEF Assess, Runnings, Stands
  <2>2. SelectedStatus(p) \in Statuses
    BY DEF SelectedStatus, Statuses
  <2>3. SelectedStatus(p) = "STATUS_ACCEPTED" /\ run'[r].purpose = p
    BY <1>3, <2>2, Going, Concluding DEF Assess, Moved, Statuses, RunSteps
  <2>4. rows[p].state = "accepted"
    BY <2>3 DEF SelectedStatus
  <2> QED
    BY <1>3, <2>3, <2>4 DEF Assess, outbox
<1>4. CASE Finish(r)
  <2>1. OB!Finish(r) /\ run'[r].purpose = run[r].purpose /\ result[r] = "accepted"
    BY <1>4, Performing DEF Finish, Moved, Statuses
  <2>2. claim[r] = run[r].purpose /\ run[r].purpose \in Purposes
    BY <1>4 DEF Finish, Senders, Runnings, Stands
  <2>3. rows \in [Purposes -> OBP!Rows]
    BY DEF OBP!IInv, OBP!TypeOK
  <2> QED
    BY <2>1, <2>2, <2>3 DEF OB!Finish, OB!FinalState, OBP!Rows
<1>5. CASE \/ Enter(r) \/ Review(r) \/ Bind(r) \/ Check(r) \/ Fail(r) \/ DatabaseFails(r) \/ TimesOut(r)
           \/ \E p \in Purposes : Claim(r, p)
  <2>1. ASSUME NEW status \in Statuses \ {"STATUS_ACCEPTED"},
               Conclude(r, status) \/ Perform(r, status)
        PROVE  FALSE
    BY <2>1, Concluding, Performing
  <2>2. ASSUME NEW from, NEW to \in RunSteps \ {"closing"}, Goto(r, from, to) PROVE FALSE
    BY <2>2, Going DEF Moved
  <2>3. CASE Enter(r)
    BY <2>1, <2>2, <2>3 DEF Enter, Statuses, RunSteps
  <2>4. CASE Bind(r)
    BY <2>1, <2>4 DEF Bind, Statuses, Runnings, Runs
  <2>5. CASE Review(r) \/ Check(r)
    BY <2>1, <2>2, <2>5 DEF Review, Check, Statuses, RunSteps
  <2>6. CASE Fail(r) \/ DatabaseFails(r) \/ TimesOut(r)
    BY <2>1, <2>6 DEF Fail, DatabaseFails, TimesOut, Statuses
  <2>7. ASSUME NEW p \in Purposes, Claim(r, p) PROVE FALSE
    BY <2>1, <2>2, <2>7 DEF Claim, Statuses, RunSteps
  <2> QED
    BY <1>5, <2>3, <2>4, <2>5, <2>6, <2>7
<1>6. CASE Close(r) \/ Crash(r)
  BY <1>6, Leaving DEF Close, Crash, Leave
<1>7. CASE Ask(r) \/ Recover(r) \/ Send(r) \/ \E p \in Purposes : Prepare(r, p)
  BY <1>7, Going DEF Ask, Recover, Send, Prepare, Moved, RunSteps
<1>8. ASSUME NEW t \in Tasks, TakeTask(r, t) PROVE FALSE
  BY <1>8 DEF TakeTask, Runnings, Runs
<1> QED
  BY <1>2, <1>3, <1>4, <1>5, <1>6, <1>7, <1>8 DEF RunStep

\* An accepted row arrived and was answered, and stays accepted.
LEMMA AcceptedStep ==
    /\ OBP!IInv /\ OBP!IInv' /\ Runnings /\ Senders /\ Posted /\ Answered /\ AcceptedIsTrue
    /\ [Next]_vars
    => AcceptedIsTrue'
<1> SUFFICES ASSUME OBP!IInv, OBP!IInv', Runnings, Senders, Posted, Answered', AcceptedIsTrue,
                    [Next]_vars, Runnings', NEW r \in Runners,
                    run'[r].step = "closing", run'[r].status = "STATUS_ACCEPTED"
             PROVE  /\ rows'[run'[r].purpose].state = "accepted"
                    /\ arrived'[run'[r].purpose] # {}
                    /\ \E q \in RQ!Sends' : q[2] = run'[r].purpose /\ calls'[q] = "responded"
  BY RunningsStep, AnsweredStep DEF AcceptedIsTrue
<1>1. PICK p \in Purposes : p = run'[r].purpose
  BY DEF Runnings, Stands
<1>2. rows'[p].state = "accepted"
  <2>1. CASE run'[r] = run[r]
    <3>1. rows[p].state = "accepted"
      BY <1>1, <2>1 DEF AcceptedIsTrue
    <3> QED
      BY <3>1, RowChange
  <2>2. CASE run'[r] # run[r]
    BY <1>1, <2>2, AcceptanceIs
  <2> QED
    BY <2>1, <2>2
<1>3. arrived'[p] # {}
  BY <1>2 DEF OBP!IInv, OBP!RowsTellTheTruth
<1> QED
  BY <1>1, <1>2, <1>3 DEF Answered, Responded

\* All of it together, in every reachable state.
LEMMA Carried ==
    Spec => [](/\ OBP!IInv /\ Runnings /\ Senders /\ Posted
               /\ Requested /\ Undoubted /\ Answered /\ AcceptedIsTrue)
<1>1. OBP!Init => OBP!IInv
  BY OutboxAssumed, OBP!InitIInv
<1>2. OBP!IInv /\ [OBP!Next]_(OBP!outboxVars) => OBP!IInv'
  BY OutboxAssumed, OBP!StepIInv
<1>3. Init => /\ Runnings /\ Senders /\ Posted /\ Requested
              /\ Undoubted /\ Answered /\ AcceptedIsTrue
  <2> SUFFICES ASSUME Init
               PROVE  /\ Runnings /\ Senders /\ Posted /\ Requested
                      /\ Undoubted /\ Answered /\ AcceptedIsTrue
    OBVIOUS
  <2>1. NoRun \in Runs
    BY DEF NoRun, Runs
  <2>2. /\ run \in [Runners -> Runs] /\ tenant \in BOOLEAN
        /\ \A r \in Runners : run[r].step = "out"
    BY <2>1 DEF Init, NoRun
  <2>3. /\ calls = << >> /\ \A r \in Runners : pc[r] = "idle" /\ result[r] = "none"
        /\ \A p \in Purposes : rows[p].state = "absent"
    BY DEF Init, RQ!Init, RQ!OB!Init, RQ!OB!NoRow
  <2>4. RQ!Made = {}
    BY <2>3 DEF RQ!Made
  <2> QED
    BY <2>2, <2>3, <2>4 DEF Runnings, Stands, Locked, LookingUp, Delivering, Chosen, Senders,
       Posted, Requested, Undoubted, Answered, AcceptedIsTrue
<1> QED
  BY <1>1, <1>2, <1>3, InitSimulation, StepSimulation, SameOutbox, RunningsStep, SendersStep,
     PostedStep, RequestedStep, UndoubtedStep, AnsweredStep, AcceptedStep, PTL DEF Spec

\* Neither notice is sent twice, and its row tells the truth of it, whatever is
\* launched again, killed or recovered (send_status_once).
THEOREM NoNoticeTwice == Spec => [](OB!AtMostOneArrival /\ OB!RowsTellTheTruth)
<1>1. OBP!IInv => OB!AtMostOneArrival /\ OB!RowsTellTheTruth
  BY DEF OBP!IInv, OBP!AtMostOneArrival, OB!AtMostOneArrival, OBP!RowsTellTheTruth,
         OB!RowsTellTheTruth, OBP!Undelivered, OB!Undelivered
<1> QED
  BY <1>1, Carried, PTL

\* A run that prints STATUS_ACCEPTED is right, whoever was killed before it and
\* whatever else runs (selected_status, send_status_once).
THEOREM AcceptanceIsTrue == Spec => []AcceptedIsTrue
BY Carried, PTL

\* The tenant is looked up once, by whichever run finds it missing
\* (FeishuTenantLookup.lookup, bind_status_tenant).
THEOREM OneLookup == Spec => []LookedUpOnce
<1>1. ASSUME Requested PROVE LookedUpOnce
  <2>1. ASSUME NEW S, NEW x, S \subseteq {x} PROVE Cardinality(S) <= 1
    <3>1. S = {} \/ S = {x}
      BY <2>1
    <3>2. Cardinality({}) = 0 /\ Cardinality({x}) = 1
      BY FS_EmptySet, FS_Singleton
    <3>3. CASE S = {}
      BY <3>2, <3>3
    <3>4. CASE S = {x}
      BY <3>2, <3>4
    <3> QED
      BY <3>1, <3>3, <3>4
  <2>2. {q \in RQ!Made : q[1] = "tenant_query"} \subseteq {RQ!Query(lookups)}
    BY <1>1 DEF Requested, RQ!Lookup, RQ!Query
  <2>3. {q \in RQ!Made : q[1] = "tenant_token" /\ q[2] = None} \subseteq {RQ!Lookup(lookups)}
    BY <1>1, StatusAssumption DEF Requested, RQ!Lookup, RQ!Query
  <2> QED
    BY <2>1, <2>2, <2>3 DEF LookedUpOnce
<1> QED
  BY <1>1, Carried, PTL

\* A notice is requested under one attempt only, and in its own window
\* (status_live_grant, reserve_status_request).
THEOREM OneAttemptInTime == Spec => OnceInItsWindow
<1>1. ASSUME Runnings, Senders, Posted, Requested, [Next]_vars,
             NEW q \in RQ!Made' \ RQ!Made, q[2] \in Purposes
      PROVE  /\ Within(q[2])
             /\ \A earlier \in RQ!Made : earlier[2] = q[2] => earlier[3] = q[3]
  <2>1. PICK r \in Runners, operation \in {"tenant_token", "message_send"} :
          /\ Send(r) /\ q = RQ!Own(r, operation) /\ Live(run[r].purpose)
    BY <1>1, NewRequest, StatusAssumption DEF RQ!Lookup, RQ!Query
  <2>2. run[r].step = "sending" /\ q[2] = run[r].purpose /\ q[3] = token[r]
    BY <1>1, <2>1 DEF Send, Senders, RQ!Own
  <2> QED
    BY <1>1, <2>1, <2>2 DEF Live, Requested
<1>2. Runnings /\ Senders /\ Posted /\ Requested /\ [Next]_vars =>
        [\A q \in RQ!Made' \ RQ!Made :
           q[2] \in Purposes =>
               /\ Within(q[2])
               /\ \A earlier \in RQ!Made : earlier[2] = q[2] => earlier[3] = q[3]]_vars
  BY <1>1
<1> QED
  BY <1>2, Carried, PTL DEF Spec, OnceInItsWindow

\* While either notice may or may not have arrived, nothing is requested
\* (selected_status, reserve_status_request).
THEOREM DoubtIsSilence == Spec => UnknownStopsAll
<1>1. ASSUME Runnings, Senders, Posted, Undoubted, [Next]_vars,
             NEW p \in Purposes, rows[p].state = "unknown"
      PROVE  RQ!Made' = RQ!Made
  <2>1. ASSUME NEW r \in Runners, Send(r), RQ!OB!OwnsLease(r) PROVE FALSE
    <3>1. run[r].step = "sending" /\ claim[r] = run[r].purpose
      BY <1>1, <2>1 DEF Send, Senders
    <3>2. rows[run[r].purpose].state = "in_flight"
      BY <2>1, <3>1 DEF RQ!OB!OwnsLease, RQ!OB!LeaseLive
    <3> QED
      BY <1>1, <3>1, <3>2 DEF Undoubted
  <2>2. ASSUME NEW r \in Runners, Ask(r) PROVE FALSE
    BY <1>1, <2>2 DEF Ask, Undoubted
  <2> QED
    BY <1>1, <2>1, <2>2, NewRequest
<1>2. Runnings /\ Senders /\ Posted /\ Undoubted /\ [Next]_vars =>
        [\A p \in Purposes : rows[p].state = "unknown" => RQ!Made' = RQ!Made]_vars
  BY <1>1
<1> QED
  BY <1>2, Carried, PTL DEF Spec, UnknownStopsAll
=============================================================================
