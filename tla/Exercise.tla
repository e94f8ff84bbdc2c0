------------------------------ MODULE Exercise ------------------------------
(***************************************************************************)
(* The C1 exercise (storage/c1.py, runtime/c1.py, runtime/c1_runner.py): a *)
(* foreground run sends a first message and, two minutes after it was      *)
(* accepted, a second one, to one person, within an approved window and    *)
(* number of requests.  The user may stop it, resume it, or kill it.       *)
(*                                                                         *)
(* A run is run_two_tasks, cut at every transaction and request.  Its      *)
(* deliveries are rows of the outbox and go through module Outbox; here    *)
(* they are named by their message.  Every request to the provider is      *)
(* reserved before and observed after it is made.  The queue's clock need  *)
(* not be the program's: a scheduled task may come early or late.          *)
(***************************************************************************)
EXTENDS Naturals, FiniteSets

CONSTANTS
    Runners,        \* foreground processes, started or resumed by the user
    MaxAttempts,    \* max_send_attempts of the approval
    MaxRequests,    \* max_requests of the approval
    MaxStarts,      \* bound: how often the user starts or resumes
    None            \* no delivery; nobody

Messages == {1, 2}

ASSUME ExerciseAssumption ==
    /\ MaxAttempts \in 1..3
    /\ MaxRequests \in Nat /\ MaxStarts \in Nat
    /\ None \notin Messages \cup Runners

VARIABLES
    rows, pc, claim, token, result, arrived,    \* of Outbox
    open,       \* the approval's window has not ended
    blocked,    \* the application's approval is blocked
    waking,     \* the stop command has still to queue its wake-up call
    revoked,    \* the recipient, or the grant, has been revoked
    due,        \* two minutes have passed since the first acceptance
    calls, cached,      \* of Requests
    jobs,       \* the tasks waiting in the queue; 0 is the wake-up call
    run,        \* the runs: step, the task's message, what has been made of it
    starts,     \* how often a run was started
    holder      \* the run that holds the execution lock

outbox == <<rows, pc, claim, token, result, arrived>>
approval == <<open, blocked, waking, revoked, due>>
lock == <<starts, holder>>
ledger == <<calls, cached>>
vars == <<outbox, approval, ledger, jobs, run, lock>>

OB == INSTANCE Outbox WITH
        Deliveries <- Messages, Workers <- Runners, sendable <- open

RQ == INSTANCE Requests WITH
        Deliveries <- Messages, Workers <- Runners, sendable <- open

-----------------------------------------------------------------------------
Statuses == {"C1_STOPPED", "C1_UNKNOWN", "C1_COMPLETED", "C1_FAILED", "C1_EXPIRED",
             "C1_WAITING", "C1_EXECUTION_FAILED", "C1_NO_DELIVERY_CLAIMED"}

Runs == [step : {"out", "recovering", "assessing", "working", "checking", "looking", "preparing",
                 "claiming", "sending", "judging", "closing"},
         message : {0, 1, 2},
         status : Statuses \cup OB!DeliveryStates \cup {"none"}]

NoRun == [step |-> "out", message |-> 0, status |-> "none"]

TypeOK ==
    /\ RQ!TypeOK
    /\ {blocked, waking, revoked, due} \subseteq BOOLEAN
    /\ jobs \subseteq {0, 1, 2}
    /\ run \in [Runners -> Runs]
    /\ starts \in 0..MaxStarts /\ holder \in Runners \cup {None}
    /\ \A r \in Runners : run[r].step = "closing" => run[r].status \in Statuses

Init ==
    /\ RQ!Init
    /\ open = TRUE
    /\ blocked = FALSE /\ waking = FALSE /\ revoked = FALSE /\ due = FALSE
    /\ jobs = {}
    /\ run = [r \in Runners |-> NoRun]
    /\ starts = 0 /\ holder = None

-----------------------------------------------------------------------------
\* A slip: the second message follows the first at once.
AcceptedIsEnough == rows[1].state = "accepted"

\* c1_second_due
SecondDue == rows[1].state = "accepted" /\ due

\* c1_live_grant: both approvals current, the person and the grant active.
Live(m) == open /\ ~blocked /\ ~revoked /\ (m = 2 => SecondDue)

\* selected_status, of a run that has come to no conclusion of its own.
SelectedStatus ==
    LET some(states) == \E m \in Messages : rows[m].state \in states
    IN  CASE blocked -> "C1_STOPPED"
          [] ~blocked /\ some({"unknown", "in_flight"}) -> "C1_UNKNOWN"
          [] ~blocked /\ \A m \in Messages : rows[m].state = "accepted" -> "C1_COMPLETED"
          [] OTHER ->
               IF some({"failed_final", "failed_retryable"}) THEN "C1_FAILED"
               ELSE IF open THEN "C1_WAITING" ELSE "C1_EXPIRED"

\* The run goes on to another step, or to its end with a status.
Goto(r, from, to) == run[r].step = from /\ run' = [run EXCEPT ![r].step = to]

Conclude(r, status) ==
    run' = [run EXCEPT ![r] = [@ EXCEPT !.step = "closing", !.status = status]]

-----------------------------------------------------------------------------
\* The user starts or resumes the exercise; another run's lock turns it away.
Start(r) ==
    /\ open /\ holder = None
    /\ starts < MaxStarts
    /\ Goto(r, "out", "recovering")
    /\ starts' = starts + 1 /\ holder' = r
    /\ UNCHANGED <<outbox, approval, ledger, jobs>>

Recover(r) ==
    /\ Goto(r, "recovering", "assessing")
    /\ OB!RecoverDeliveries
    /\ UNCHANGED <<approval, ledger, jobs, lock>>

\* What earlier runs have left either ends this one or is taken up again, from
\* the first task.
Assess(r) ==
    /\ run[r].step = "assessing"
    /\ \/ /\ SelectedStatus \in {"C1_STOPPED", "C1_UNKNOWN", "C1_COMPLETED", "C1_EXPIRED"}
          /\ Conclude(r, SelectedStatus)
          /\ UNCHANGED jobs
       \/ /\ SelectedStatus \in {"C1_FAILED", "C1_WAITING"}
          /\ Goto(r, "assessing", "working")
          /\ jobs' = jobs \cup {1}
    /\ UNCHANGED <<outbox, approval, ledger, lock>>

TakeJob(r, m) ==
    /\ m \in jobs
    /\ run[r].step = "working"
    /\ run' = [run EXCEPT ![r] = [@ EXCEPT !.step = "checking", !.message = m]]
    /\ jobs' = jobs \ {m}
    /\ UNCHANGED <<outbox, approval, ledger, lock>>

\* The wake-up call, or a stop.
CheckStopped(r) ==
    /\ run[r].step = "checking"
    /\ \/ /\ (run[r].message = 0) \/ blocked
          /\ Conclude(r, "C1_STOPPED")
       \/ /\ run[r].message # 0 /\ ~blocked
          /\ Goto(r, "checking", "looking")
    /\ UNCHANGED <<outbox, approval, ledger, jobs, lock>>

\* What has become of the task's message decides whether to go on.
Look(r) ==
    LET state == rows[run[r].message].state
        failed == \/ state = "failed_final"
                  \/ state = "failed_retryable" /\ run[r].message = 1
    IN
    /\ run[r].step = "looking"
    /\ open
    /\ \/ /\ state = "accepted"
          /\ run' = [run EXCEPT ![r] = [@ EXCEPT !.step = "judging", !.status = state]]
       \/ /\ state \in {"unknown", "in_flight"}
          /\ Conclude(r, "C1_UNKNOWN")
       \/ /\ failed
          /\ Conclude(r, "C1_FAILED")
       \/ /\ state \in {"absent", "pending", "failed_retryable"} /\ ~failed
          /\ Goto(r, "looking", "preparing")
    /\ UNCHANGED <<outbox, approval, ledger, jobs, lock>>

\* create_c1_exercise, with the grant, intent and delivery it makes, unless an
\* earlier run has created the message.
Prepare(r, m) ==
    /\ run[r].message = m
    /\ Goto(r, "preparing", "claiming")
    /\ Live(m)
    /\ \/ rows[m].state = "absent" /\ OB!Enqueue({m}, "feishu")
       \/ rows[m].state # "absent" /\ UNCHANGED outbox
    /\ UNCHANGED <<approval, ledger, jobs, lock>>

\* send_c1_once: a due message is claimed, or found to be no longer allowed.
Claim(r, m) ==
    /\ run[r].step = "claiming"
    /\ \/ /\ Live(m) /\ OB!Claim(r, m)
          /\ Goto(r, "claiming", "sending")
       \/ /\ ~Live(m) /\ OB!ClaimRevoked(m)
          /\ Conclude(r, "C1_NO_DELIVERY_CLAIMED")
    /\ UNCHANGED <<approval, ledger, jobs, lock>>

ClaimNothing(r) ==
    /\ run[r].step = "claiming"
    /\ open /\ \A m \in Messages : ~OB!MayClaim(m)
    /\ Conclude(r, "C1_NO_DELIVERY_CLAIMED")
    /\ UNCHANGED <<outbox, approval, ledger, jobs, lock>>

\* A guard of the run's current step fails, or the database does.
Fail(r) ==
    /\ run[r].step \in {"checking", "looking", "preparing", "claiming"}
    /\ Conclude(r, "C1_EXECUTION_FAILED")
    /\ UNCHANGED <<outbox, approval, ledger, jobs, lock>>

-----------------------------------------------------------------------------
\* The sending itself, with the exercise's live authorization.
Sending(r) ==
    /\ RQ!SendStep(r, Live(claim[r]))
    /\ UNCHANGED <<approval, jobs, run, lock>>

Finish(r) ==
    /\ \/ /\ OB!Finish(r)
          /\ run' = [run EXCEPT ![r] = [@ EXCEPT !.step = "judging",
                                                 !.status = OB!FinalState(r)]]
       \/ /\ OB!FencedOut(r)
          /\ Conclude(r, "C1_EXECUTION_FAILED")
    /\ UNCHANGED <<approval, ledger, jobs, lock>>

SendStep(r) ==
    /\ run[r].step = "sending"
    /\ Sending(r) \/ Finish(r)

\* A slip: the first message's acceptance completes the exercise.
JudgeEither(r) ==
    /\ run[r].step = "judging"
    /\ Conclude(r, CASE run[r].status = "accepted" -> "C1_COMPLETED"
                     [] run[r].status = "unknown" -> "C1_UNKNOWN"
                     [] OTHER -> "C1_FAILED")
    /\ UNCHANGED <<outbox, approval, ledger, jobs, lock>>

\* What has become of the message ends the run, unless it is the first and was
\* accepted: then the second is scheduled, if the window is long enough for it
\* (whether it is, is a choice).
Judge(r) ==
    /\ run[r].step = "judging"
    /\ \/ /\ run[r].status = "accepted" /\ run[r].message = 1
          /\ Goto(r, "judging", "working")
          /\ jobs' = jobs \cup {2}
       \/ /\ run[r].status = "accepted" /\ run[r].message = 1
          /\ ~due
          /\ Conclude(r, "C1_EXPIRED")
          /\ UNCHANGED jobs
       \/ /\ run[r].status = "accepted" => run[r].message = 2
          /\ Conclude(r, CASE run[r].status = "accepted" -> "C1_COMPLETED"
                           [] run[r].status = "unknown" -> "C1_UNKNOWN"
                           [] OTHER -> "C1_FAILED")
          /\ UNCHANGED jobs
    /\ UNCHANGED <<outbox, approval, ledger, lock>>

\* The execution lock ends with the run, or with its connection, and the token
\* with the process.
Release(r) == holder' = None /\ cached' = cached \ {r} /\ UNCHANGED starts

\* The run prints its status, with the approval's block and the counts as they
\* are now, and releases its lock.
Close(r) ==
    /\ run[r].step = "closing"
    /\ run' = [run EXCEPT ![r] = NoRun]
    /\ Release(r)
    /\ UNCHANGED <<outbox, approval, calls, jobs>>

\* The database fails a run that is recovering, waits for a task, is sending or
\* schedules the second message; a row in flight is left as it is.
DatabaseFails(r) ==
    /\ \/ run[r].step \in {"recovering", "assessing", "working", "sending"}
       \/ run[r].step = "judging" /\ run[r].status = "accepted" /\ run[r].message = 1
    /\ Conclude(r, "C1_EXECUTION_FAILED")
    /\ UNCHANGED <<approval, ledger, jobs, lock>>
    /\ RQ!Abort(r)

\* The window's end cancels the worker, in whatever it is doing.
TimesOut(r) ==
    /\ ~open
    /\ run[r].step \notin {"out", "recovering", "assessing", "closing"}
    /\ Conclude(r, "C1_EXPIRED")
    /\ UNCHANGED <<approval, ledger, jobs, lock>>
    /\ RQ!Abort(r)

\* The process is killed; the database releases its lock.
Crash(r) ==
    /\ run[r].step # "out"
    /\ run' = [run EXCEPT ![r] = NoRun]
    /\ Release(r)
    /\ UNCHANGED <<approval, calls, jobs>>
    /\ RQ!Abort(r)

-----------------------------------------------------------------------------
\* The stop command blocks the approval, then wakes the worker.
Stop ==
    /\ ~blocked
    /\ blocked' = TRUE /\ waking' = TRUE
    /\ UNCHANGED <<outbox, open, revoked, due, ledger, jobs, run, lock>>

\* A slip: the stop command only blocks.
WakeNobody ==
    /\ waking /\ waking' = FALSE
    /\ UNCHANGED <<outbox, open, blocked, revoked, due, ledger, jobs, run, lock>>

Wake ==
    /\ waking /\ waking' = FALSE
    /\ jobs' = jobs \cup {0}
    /\ UNCHANGED <<outbox, open, blocked, revoked, due, ledger, run, lock>>

\* An administrator revokes the person.
Revoke ==
    /\ ~revoked /\ revoked' = TRUE
    /\ UNCHANGED <<outbox, open, blocked, waking, due, ledger, jobs, run, lock>>

WindowEnds ==
    /\ open /\ open' = FALSE
    /\ UNCHANGED <<outbox, blocked, waking, revoked, due, ledger, jobs, run, lock>>

DueElapses ==
    /\ rows[1].state = "accepted"
    /\ ~due /\ due' = TRUE
    /\ UNCHANGED <<outbox, open, blocked, waking, revoked, ledger, jobs, run, lock>>

TimePasses(m) ==
    /\ OB!LeaseExpires(m) \/ OB!BackoffElapses(m)
    /\ UNCHANGED <<approval, ledger, jobs, run, lock>>

\* What a run does without waiting for a time that has still to come.
RunStep(r) ==
    \/ Recover(r)
    \/ Assess(r)
    \/ \E m \in {0, 1} : TakeJob(r, m)
    \/ CheckStopped(r)
    \/ Look(r)
    \/ \E m \in Messages : Prepare(r, m)
    \/ \E m \in Messages : Claim(r, m)
    \/ ClaimNothing(r)
    \/ Fail(r)
    \/ SendStep(r)
    \/ Judge(r)
    \/ Close(r)

Next ==
    \/ \E r \in Runners : Start(r) \/ RunStep(r) \/ TakeJob(r, 2)
    \/ \E r \in Runners : DatabaseFails(r) \/ TimesOut(r) \/ Crash(r)
    \/ Stop \/ Wake \/ Revoke
    \/ WindowEnds \/ DueElapses
    \/ \E m \in Messages : TimePasses(m)

Spec == Init /\ [][Next]_vars

\* A run goes on while it has something to do (its awaits have deadlines), and
\* the stop command finishes.  No end of the window is assumed, nor that the
\* second message's time comes.
FairSpec == Spec /\ WF_vars(Wake) /\ \A r \in Runners : WF_vars(RunStep(r))

-----------------------------------------------------------------------------
\* Every step is a step of the outbox, so the exercise inherits what holds of it:
\* neither message is sent twice, and the table does not contradict the provider.
ImplementsOutbox == OB!Spec

\* No request for the second message is made before the first has been accepted
\* and its two minutes have passed, whatever is resumed, requeued or run early
\* (c1-preparation.md: "at the first actual acceptance time plus 120 seconds").
SecondAfterFirst ==
    (\E q \in RQ!Sends : q[2] = 2) =>
        rows[1].state = "accepted" /\ arrived[1] # {} /\ due

\* After a stop or a revocation no further request is reserved, and what still
\* arrives was reserved before ("an already dispatched request may still
\* complete"), in whichever run.
StoppedStaysSilent ==
    [][blocked \/ revoked =>
         /\ RQ!Made' = RQ!Made
         /\ \A m \in Messages : arrived'[m] # arrived[m] =>
              \E q \in RQ!Sends : q[2] = m /\ calls[q] = "reserved"]_vars

\* Both messages, over all runs, share the approval's sends and requests, and
\* no message arrives without a recorded start of its own request.
WithinApproval ==
    /\ Cardinality(RQ!Sends) <= MaxAttempts
    /\ Cardinality(RQ!Made) <= MaxRequests
    /\ \A m \in Messages : \A a \in arrived[m] :
         RQ!PhaseOf(<<"message_send", m, a>>) \notin {"none", "reserved"}

Prints(r, status) == run[r].step = "closing" /\ run[r].status = status

\* A run that prints C1_COMPLETED is right: both messages were accepted, arrived
\* and were answered (all that checked_status asks of it, but the block).
CompletedMeansBoth ==
    (\E r \in Runners : Prints(r, "C1_COMPLETED")) =>
        \A m \in Messages :
            /\ rows[m].state = "accepted" /\ arrived[m] # {}
            /\ \E q \in RQ!Sends : q[2] = m /\ calls[q] = "responded"

\* Once stopped, a run ends, even one that waits for the second message's time.
StopEndsTheRun ==
    \A r \in Runners : blocked /\ run[r].step # "out" ~> run[r].step = "out"

=============================================================================
