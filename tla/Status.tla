------------------------------- MODULE Status -------------------------------
(***************************************************************************)
(* The dated personal status notices (storage/status.py, runtime/status.py,*)
(* runtime/status_local.py): one person is sent an onboarding notice and,  *)
(* the next morning, a second one, each by a process of its own and within *)
(* its own window, under one approval.                                     *)
(*                                                                         *)
(* The first process to run also looks up the person's tenant, which is    *)
(* kept in the private configuration.  A run is execute_status, cut at     *)
(* every transaction and request; the approval's execution lock admits one *)
(* run to the lookup and one to the sending.  The task that wakes the run  *)
(* at its time waits in the queue, outlives a run that is killed, and may  *)
(* come early or late, since the queue's clock is not the program's.       *)
(***************************************************************************)
EXTENDS Naturals, FiniteSets

CONSTANTS
    Runners,        \* foreground processes, started by the user or by Windows
    MaxAttempts,    \* max_send_attempts of the approval
    MaxRequests,    \* max_requests of the approval
    MaxStarts,      \* bound: how often a run is started
    None            \* no delivery; nobody

Purposes == {"onboarding", "morning_status"}

ASSUME StatusAssumption ==
    /\ MaxAttempts \in 1..3
    /\ MaxRequests \in Nat /\ MaxStarts \in 1..3
    /\ None \notin Purposes \cup Runners

VARIABLES
    rows, pc, claim, token, result, arrived,    \* of Outbox
    calls, cached,      \* of Requests
    time,       \* the part of the approval's day, below
    blocked,    \* the approval is blocked
    waking,     \* the stop command has still to queue its wake-up call
    revoked,    \* the recipient, or the grant, has been revoked
    tenant,     \* the private configuration holds the tenant
    lookups,    \* how many lookups were begun
    todo, doing,    \* the tasks waiting in the queue, and those taken from it
    run,        \* the runs: step, purpose, what is known and found
    starts,     \* how often a run was started
    holder      \* the run that holds the execution lock

\* StatusAppPermission.delivery_window: the onboarding notice is due at once, the
\* morning's later that day; a run may come ten minutes before it ("warmup"),
\* while the onboarding notice is still due ("both") when the scope was made
\* shortly before.  In a part of the day that a day lacks nothing is done; the
\* hours between the notices are a "warmup" that nobody uses.
Day == <<"onboarding", "both", "warmup", "morning", "over">>

Window == [onboarding |-> 1..2, morning_status |-> 4..4]
Earliest == [onboarding |-> 1, morning_status |-> 2]

Within(p) == time \in Window[p]
Missed(p) == \A t \in Window[p] : time > t
Active == time < 5

outbox == <<rows, pc, claim, token, result, arrived>>
ledger == <<calls, cached>>
approval == <<time, blocked, waking, revoked>>
private == <<tenant, lookups>>
jobs == <<todo, doing>>
lock == <<starts, holder>>
vars == <<outbox, ledger, approval, private, jobs, run, lock>>

OB == INSTANCE Outbox WITH
        Deliveries <- Purposes, Workers <- Runners, sendable <- Active

RQ == INSTANCE Requests WITH
        Deliveries <- Purposes, Workers <- Runners, sendable <- Active

-----------------------------------------------------------------------------
Statuses == {"STATUS_ACCEPTED", "STATUS_WAITING", "STATUS_STOPPED", "STATUS_UNKNOWN",
             "STATUS_FAILED", "STATUS_MISSED", "STATUS_ALREADY_RUNNING",
             "STATUS_QUEUE_BUSY", "STATUS_LOOKUP_REQUIRES_REVIEW",
             "STATUS_LOOKUP_BINDING_FAILED"}

\* A task is for one purpose, or the stop command's call.
Tasks == Purposes \cup {"_stop"}

Runs == [step : {"out", "invoked", "reviewing", "asking", "binding", "recovering",
                 "assessing", "working", "checking", "preparing", "claiming", "sending",
                 "closing"},
         purpose : Purposes \cup {None},
         knows : BOOLEAN,
         task : Tasks \cup {None},
         status : Statuses \cup {"none"}]

NoRun == [step |-> "out", purpose |-> None, knows |-> FALSE, task |-> None, status |-> "none"]

TypeOK ==
    /\ RQ!TypeOK
    /\ time \in DOMAIN Day
    /\ {blocked, waking, revoked, tenant} \subseteq BOOLEAN
    /\ lookups \in 0..MaxStarts
    /\ todo \subseteq Tasks /\ doing \subseteq Tasks
    /\ run \in [Runners -> Runs]
    /\ starts \in 0..MaxStarts /\ holder \in Runners \cup {None}

Init ==
    /\ time = 1 /\ blocked = FALSE /\ waking = FALSE /\ revoked = FALSE
    /\ tenant \in BOOLEAN /\ lookups = 0
    /\ RQ!Init
    /\ todo = {} /\ doing = {}
    /\ run = [r \in Runners |-> NoRun]
    /\ starts = 0 /\ holder = None

-----------------------------------------------------------------------------
\* status_live_grant: within the notice's own window, the approval, the person
\* and the grant current.
Live(p) == Within(p) /\ ~blocked /\ ~revoked

\* A slip: a notice that failed is tried again.
SelectedWithRetry(p) ==
    CASE blocked -> "STATUS_STOPPED"
      [] ~blocked /\ \E q \in Purposes : rows[q].state \in {"unknown", "in_flight"} ->
           "STATUS_UNKNOWN"
      [] OTHER ->
           IF rows[p].state = "accepted" THEN "STATUS_ACCEPTED"
           ELSE IF rows[p].state = "failed_final" THEN "STATUS_FAILED"
           ELSE IF Missed(p) THEN "STATUS_MISSED" ELSE "STATUS_WAITING"

\* A slip: only the selected notice is looked at.
SelectedAlone(p) ==
    CASE blocked -> "STATUS_STOPPED"
      [] ~blocked /\ rows[p].state \in {"unknown", "in_flight"} -> "STATUS_UNKNOWN"
      [] OTHER ->
           IF rows[p].state = "accepted" THEN "STATUS_ACCEPTED"
           ELSE IF rows[p].state \in {"failed_final", "failed_retryable"} THEN "STATUS_FAILED"
           ELSE IF Missed(p) THEN "STATUS_MISSED" ELSE "STATUS_WAITING"

\* selected_status, of a run that has come to no conclusion of its own.
SelectedStatus(p) ==
    CASE blocked -> "STATUS_STOPPED"
      [] ~blocked /\ \E q \in Purposes : rows[q].state \in {"unknown", "in_flight"} ->
           "STATUS_UNKNOWN"
      [] OTHER ->
           IF rows[p].state = "accepted" THEN "STATUS_ACCEPTED"
           ELSE IF rows[p].state \in {"failed_final", "failed_retryable"} THEN "STATUS_FAILED"
           ELSE IF Missed(p) THEN "STATUS_MISSED" ELSE "STATUS_WAITING"

Goto(r, from, to) == run[r].step = from /\ run' = [run EXCEPT ![r].step = to]

Conclude(r, status) ==
    run' = [run EXCEPT ![r] = [@ EXCEPT !.step = "closing", !.status = status]]

Acquire(r) == holder = None /\ holder' = r /\ UNCHANGED starts
Release(r) == holder' = (IF holder = r THEN None ELSE holder) /\ UNCHANGED starts

-----------------------------------------------------------------------------
\* launch and the fixed child: refused before the warm-up, recorded and given up
\* after the window.  The configuration is read now.
Launch(r, p) ==
    /\ time >= Earliest[p]
    /\ starts < MaxStarts
    /\ run[r].step = "out"
    /\ run' = [run EXCEPT ![r] =
                  [@ EXCEPT !.step = IF Missed(p) THEN "closing" ELSE "invoked",
                            !.status = IF Missed(p) THEN "STATUS_MISSED" ELSE "none",
                            !.purpose = p, !.knows = tenant]]
    /\ starts' = starts + 1
    /\ UNCHANGED <<outbox, ledger, approval, private, jobs, holder>>

\* The execution lock is tried, for the lookup or for the sending.
Enter(r) ==
    /\ run[r].step = "invoked"
    /\ \/ Goto(r, "invoked", IF run[r].knows THEN "recovering" ELSE "reviewing") /\ Acquire(r)
       \/ /\ holder # None
          /\ Conclude(r, "STATUS_ALREADY_RUNNING")
          /\ UNCHANGED lock
    /\ UNCHANGED <<outbox, ledger, approval, private, jobs>>

\* A slip: whatever was asked before, the lookup is made.
ReviewNothing(r) ==
    /\ Goto(r, "reviewing", "asking")
    /\ lookups' = lookups + 1
    /\ UNCHANGED <<outbox, ledger, approval, tenant, jobs, lock>>

\* A lookup is made only under an approval that nothing was asked under.
Review(r) ==
    /\ run[r].step = "reviewing"
    /\ \/ /\ RQ!Made # {} \/ blocked
          /\ Conclude(r, "STATUS_LOOKUP_REQUIRES_REVIEW")
          /\ UNCHANGED lookups
       \/ /\ RQ!Made = {} /\ ~blocked
          /\ Goto(r, "reviewing", "asking")
          /\ lookups' = lookups + 1
    /\ UNCHANGED <<outbox, ledger, approval, tenant, jobs, lock>>

Ask(r) ==
    /\ run[r].step = "asking"
    /\ UNCHANGED <<approval, private, jobs, lock>>
    /\ \/ /\ RQ!ReserveLookup(lookups, Active /\ ~blocked) \/ RQ!ObserveLookup(lookups)
          /\ UNCHANGED run
       \/ /\ RQ!PhaseOf(RQ!Query(lookups)) = "responded"
          /\ Goto(r, "asking", "binding")
          /\ UNCHANGED <<outbox, ledger>>

\* bind_status_tenant writes the tenant where none is, and the run goes on as
\* one that knows it; or the file has changed, or cannot be written or read back.
Bind(r) ==
    /\ run[r].step = "binding"
    /\ \/ /\ ~tenant /\ Active
          /\ tenant' = TRUE
          /\ run' = [run EXCEPT ![r] = [@ EXCEPT !.step = "invoked", !.knows = TRUE]]
          /\ Release(r)
       \/ /\ tenant' \in {tenant, TRUE}
          /\ Conclude(r, "STATUS_LOOKUP_BINDING_FAILED")
          /\ UNCHANGED lock
    /\ UNCHANGED <<outbox, ledger, approval, lookups, jobs>>

\* recover_deliveries, whose leases have run out since an earlier run was killed.
Recover(r) ==
    /\ Goto(r, "recovering", "assessing")
    /\ UNCHANGED <<ledger, approval, private, jobs, lock>>
    /\ OB!RecoverDeliveries

\* status_queue_clear: no other task is waiting or was left unfinished.
QueueClear(p) == (todo \cup doing) \subseteq {p, "_stop"}

\* "No automatic retry, catch-up, or second acceptance": only a notice that was
\* never tried is scheduled.
Assess(r) ==
    LET p == run[r].purpose IN
    /\ run[r].step = "assessing"
    /\ \/ /\ SelectedStatus(p) # "STATUS_WAITING"
          /\ Conclude(r, SelectedStatus(p))
          /\ UNCHANGED todo
       \/ /\ SelectedStatus(p) = "STATUS_WAITING" /\ ~QueueClear(p)
          /\ Conclude(r, "STATUS_QUEUE_BUSY")
          /\ UNCHANGED todo
       \/ /\ SelectedStatus(p) = "STATUS_WAITING" /\ QueueClear(p)
          /\ Goto(r, "assessing", "working")
          /\ todo' = todo \cup {p}
    /\ UNCHANGED <<outbox, ledger, approval, private, doing, lock>>

TakeTask(r, t) ==
    /\ t \in todo
    /\ run[r].step = "working"
    /\ run' = [run EXCEPT ![r] = [@ EXCEPT !.step = "checking", !.task = t]]
    /\ todo' = todo \ {t} /\ doing' = doing \cup {t}
    /\ UNCHANGED <<outbox, ledger, approval, private, lock>>

\* The end of perform, which ends the worker.
Perform(r, status) ==
    /\ Conclude(r, status)
    /\ doing' = doing \ {run[r].task} /\ UNCHANGED todo

Check(r) ==
    LET t == run[r].task IN
    /\ run[r].step = "checking"
    /\ \/ t \notin {run[r].purpose, "_stop"} /\ Perform(r, "STATUS_QUEUE_BUSY")
       \/ t \in {run[r].purpose, "_stop"} /\ blocked /\ Perform(r, "STATUS_STOPPED")
       \/ t = "_stop" /\ ~blocked /\ Perform(r, "STATUS_FAILED")
       \/ t = run[r].purpose /\ ~blocked /\ ~Within(t) /\ Perform(r, "STATUS_MISSED")
       \/ /\ t = run[r].purpose /\ ~blocked /\ Within(t)
          /\ Goto(r, "checking", "preparing")
          /\ UNCHANGED jobs
    /\ UNCHANGED <<outbox, ledger, approval, private, lock>>

\* create_status_notification, with the grant, intent and delivery it makes,
\* unless an earlier run has created the notice.
Prepare(r, p) ==
    /\ run[r].purpose = p
    /\ Goto(r, "preparing", "claiming")
    /\ Live(p)
    /\ UNCHANGED <<ledger, approval, private, jobs, lock>>
    /\ \/ rows[p].state = "absent" /\ OB!Enqueue({p}, "feishu")
       \/ rows[p].state # "absent" /\ UNCHANGED outbox

\* send_status_once: the notice is claimed, or found to be no longer allowed, or
\* not due for another attempt.
Claim(r, p) ==
    /\ run[r].step = "claiming" /\ run[r].purpose = p
    /\ UNCHANGED <<ledger, approval, private, lock>>
    /\ \/ /\ Live(p) /\ OB!Claim(r, p)
          /\ Goto(r, "claiming", "sending")
          /\ UNCHANGED jobs
       \/ /\ ~Live(p) /\ OB!ClaimRevoked(p)
          /\ Perform(r, "STATUS_FAILED")
       \/ /\ ~OB!MayClaim(p)
          /\ Perform(r, "STATUS_FAILED")
          /\ UNCHANGED outbox

Send(r) ==
    /\ run[r].step = "sending"
    /\ UNCHANGED <<approval, private, jobs, run, lock>>
    /\ RQ!SendStep(r, Live(run[r].purpose))

\* A slip: an unknown outcome is printed as an acceptance.
FinishHopefully(r) ==
    /\ run[r].step = "sending"
    /\ UNCHANGED <<ledger, approval, private, lock>>
    /\ \/ /\ OB!Finish(r)
          /\ Perform(r, IF result[r] \in {"accepted", "unknown"}
                        THEN "STATUS_ACCEPTED" ELSE "STATUS_FAILED")
       \/ OB!FencedOut(r) /\ Perform(r, "STATUS_FAILED")

\* The result is recorded, and decides what is printed; a late one is refused.
Finish(r) ==
    /\ run[r].step = "sending"
    /\ UNCHANGED <<ledger, approval, private, lock>>
    /\ \/ /\ OB!Finish(r)
          /\ Perform(r, CASE result[r] = "accepted" -> "STATUS_ACCEPTED"
                          [] result[r] = "unknown" -> "STATUS_UNKNOWN"
                          [] OTHER -> "STATUS_FAILED")
       \/ OB!FencedOut(r) /\ Perform(r, "STATUS_FAILED")

\* A guard of the run's current step fails, or the database, or the lookup does.
Fail(r) ==
    /\ run[r].step \in {"invoked", "reviewing", "asking", "recovering", "assessing",
                        "checking", "preparing", "claiming"}
    /\ Perform(r, "STATUS_FAILED")
    /\ UNCHANGED <<outbox, ledger, approval, private, lock>>

\* The database fails a run that waits for its task or is sending: the row in
\* flight is left as it is, and whether its message was sent is found out later.
DatabaseFails(r) ==
    /\ run[r].step \in {"working", "sending"}
    /\ Perform(r, "STATUS_FAILED")
    /\ UNCHANGED <<ledger, approval, private, lock>>
    /\ RQ!Abort(r)

\* The window's end cancels the worker, in whatever it is doing and even when it
\* has just done it; its task is finished, or left as it is.
TimesOut(r) ==
    /\ \/ run[r].step \in {"working", "checking", "preparing", "claiming", "sending"}
       \/ run[r].step = "closing" /\ run[r].task # None
    /\ Missed(run[r].purpose)
    /\ \/ Perform(r, "STATUS_MISSED")
       \/ Conclude(r, "STATUS_MISSED") /\ UNCHANGED jobs
    /\ UNCHANGED <<ledger, approval, private, lock>>
    /\ RQ!Abort(r)

\* The run ends, and prints its status with the counts as they are now; its
\* lock ends with it, and its token with its process.
Leave(r) ==
    /\ run' = [run EXCEPT ![r] = NoRun]
    /\ cached' = cached \ {r}
    /\ Release(r)

Close(r) ==
    /\ run[r].step = "closing"
    /\ Leave(r)
    /\ UNCHANGED <<outbox, calls, approval, private, jobs>>

\* The process is killed.  A write of the configuration that had begun may have
\* been made; a task that was taken stays taken.
Crash(r) ==
    /\ run[r].step # "out"
    /\ Leave(r)
    /\ tenant' \in IF run[r].step = "binding" THEN {tenant, TRUE} ELSE {tenant}
    /\ UNCHANGED <<calls, approval, lookups, jobs>>
    /\ RQ!Abort(r)

-----------------------------------------------------------------------------
\* The stop command blocks the approval, then wakes the worker.
Stop ==
    /\ ~blocked
    /\ blocked' = TRUE /\ waking' = TRUE
    /\ UNCHANGED <<outbox, ledger, time, revoked, private, jobs, run, lock>>

Wake ==
    /\ waking /\ waking' = FALSE
    /\ todo' = todo \cup {"_stop"}
    /\ UNCHANGED <<outbox, ledger, time, blocked, revoked, private, doing, run, lock>>

\* An administrator revokes the person.
Revoke ==
    /\ ~revoked /\ revoked' = TRUE
    /\ UNCHANGED <<outbox, ledger, time, blocked, waking, private, jobs, run, lock>>

TimeGoesOn ==
    /\ Active /\ time' = time + 1
    /\ UNCHANGED <<outbox, ledger, blocked, waking, revoked, private, jobs, run, lock>>

LeaseExpires(p) ==
    /\ UNCHANGED <<ledger, approval, private, jobs, run, lock>>
    /\ OB!LeaseExpires(p) \/ OB!BackoffElapses(p)

RunStep(r) ==
    \/ Enter(r) \/ Review(r) \/ Ask(r) \/ Bind(r)
    \/ Recover(r) \/ Assess(r)
    \/ \E t \in Tasks : TakeTask(r, t)
    \/ Check(r)
    \/ \E p \in Purposes : Prepare(r, p) \/ Claim(r, p)
    \/ Send(r) \/ Finish(r)
    \/ Fail(r) \/ DatabaseFails(r) \/ TimesOut(r) \/ Close(r) \/ Crash(r)

Next ==
    \/ \E r \in Runners, p \in Purposes : Launch(r, p)
    \/ \E r \in Runners : RunStep(r)
    \/ Stop \/ Wake \/ Revoke \/ TimeGoesOn
    \/ \E p \in Purposes : LeaseExpires(p)

Spec == Init /\ [][Next]_vars

-----------------------------------------------------------------------------
\* Every step is a step of the outbox, so what holds of it holds of the notices:
\* none is sent twice, and the table does not contradict the provider.
ImplementsOutbox == OB!Spec

\* A notice is tried once at most and only in its own window, whatever is killed,
\* started again or comes late: every request for it is made then, for one
\* attempt ("No automatic retry, catch-up, or second acceptance", status_local.py).
OnceInItsWindow ==
    [][\A q \in RQ!Made' \ RQ!Made :
         q[2] \in Purposes =>
             /\ Within(q[2])
             /\ \A earlier \in RQ!Made : earlier[2] = q[2] => earlier[3] = q[3]]_vars

\* "Any unknown outcome stops progression" (c1-preparation.md), of either notice:
\* what may have arrived is not followed by a request for the other.
UnknownStopsAll ==
    [][\A p \in Purposes :
         rows[p].state = "unknown" => RQ!Made' = RQ!Made]_vars

\* The tenant is asked for once, "no blind lookup retry" (c1-preparation.md):
\* not by two runs that both found it missing, nor after one was killed.
LookedUpOnce ==
    /\ Cardinality({q \in RQ!Made : q[1] = "tenant_query"}) <= 1
    /\ Cardinality({q \in RQ!Made : q[1] = "tenant_token" /\ q[2] = None}) <= 1

\* A run that prints STATUS_ACCEPTED, which alone exits 0, speaks of its own
\* notice and is right: it was accepted, and answered.
AcceptedIsTrue ==
    \A r \in Runners :
        run[r].step = "closing" /\ run[r].status = "STATUS_ACCEPTED" =>
            LET p == run[r].purpose IN
            /\ rows[p].state = "accepted" /\ arrived[p] # {}
            /\ \E q \in RQ!Sends : q[2] = p /\ calls[q] = "responded"
=============================================================================
