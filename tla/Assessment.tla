----------------------------- MODULE Assessment -----------------------------
(***************************************************************************)
(* Source records on their way into event versions: the source_records     *)
(* table and its leases (storage/ingestion.py), the assessment task        *)
(* (Runtime.assess_pending) and the versions of the event families it      *)
(* commits (storage/decisions.py).                                         *)
(*                                                                         *)
(* A worker claims a batch, assesses it, reads the families' current       *)
(* evidence, assesses again if that added history, and commits.  Only the  *)
(* claim, the reading and the commit are transactions; other workers,      *)
(* recovery and expiry come between.  The assessment is abstracted to the  *)
(* evidence it cites: the latest revision of every record it was given.    *)
(***************************************************************************)
EXTENDS Naturals, FiniteSets, Sequences, SequencesExt

CONSTANTS
    Ids,            \* stable record ids
    LastRevision,   \* bound on the revisions of each record
    Families,       \* explicit event families
    FamilyOf,       \* the family of each record id
    Workers,
    MaxAttempts,    \* attempts of a record: three in the code
    MaxBatches      \* bound on the batches ever claimed

ASSUME AssessmentAssumption ==
    /\ LastRevision \in [Ids -> Nat \ {0}]
    /\ MaxAttempts \in Nat \ {0} /\ MaxBatches \in Nat
    /\ FamilyOf \in [Ids -> Families]

VARIABLES
    rows,       \* the source_records table
    versions,   \* per family, the evidence of its versions
    job,        \* what each worker is doing
    batches,    \* batches claimed so far; a batch's number is its lease token
    funded      \* the processing budget of the day is not exhausted

vars == <<rows, versions, job, batches, funded>>

-----------------------------------------------------------------------------
Records == UNION {{i} \X (1..LastRevision[i]) : i \in Ids}

Family(r) == FamilyOf[r[1]]

Rows == [state : {"absent", "pending", "processing", "done", "failed", "quarantined"},
         attempt : 0..MaxAttempts, token : 0..MaxBatches,
         lease : {"none", "live", "expired"}, backoff : {"over", "waiting"}]

NewRow(state) ==
    [state |-> state, attempt |-> 0, token |-> 0, lease |-> "none", backoff |-> "over"]

Steps == {"idle", "claimed", "reassessing", "deciding", "failing", "deferring"}

\* A job: the batch and its token, the captured heads, the records assessed,
\* and whether a failure may be retried.
Jobs == [step : Steps, batch : SUBSET Records, token : 0..MaxBatches,
         heads : [Families -> Nat], input : SUBSET Records, retry : BOOLEAN]

NoJob == [step |-> "idle", batch |-> {}, token |-> 0,
          heads |-> [f \in Families |-> 0], input |-> {}, retry |-> FALSE]

TypeOK ==
    /\ rows \in [Records -> Rows]
    /\ \A f \in Families : versions[f] \in Seq(SUBSET Records)
    /\ job \in [Workers -> Jobs]
    /\ batches \in 0..MaxBatches
    /\ funded \in BOOLEAN

Init ==
    /\ rows = [r \in Records |-> NewRow("absent")]
    /\ versions = [f \in Families |-> <<>>]
    /\ job = [w \in Workers |-> NoJob]
    /\ batches = 0
    /\ funded = TRUE

-----------------------------------------------------------------------------
\* A source batch commits a new record; one with an unusable time is kept apart.
Insert(r, state) ==
    /\ rows[r].state = "absent"
    /\ r[2] > 1 => rows[<<r[1], r[2] - 1>>].state # "absent"
    /\ rows' = [rows EXCEPT ![r] = NewRow(state)]
    /\ UNCHANGED <<versions, job, batches, funded>>

Claimable(r) ==
    /\ rows[r].state = "pending"
    /\ rows[r].attempt < MaxAttempts
    /\ rows[r].backoff = "over"

\* assess_pending charges the processing budget and claims a batch; how many
\* records fit depends on their number and length.
Claim(w, B) ==
    /\ job[w].step = "idle"
    /\ funded
    /\ batches < MaxBatches
    /\ B # {} /\ \A r \in B : Claimable(r)
    /\ batches' = batches + 1
    /\ rows' = [r \in Records |->
                  IF r \in B
                  THEN [rows[r] EXCEPT !.state = "processing", !.attempt = @ + 1,
                                       !.token = batches', !.lease = "live"]
                  ELSE rows[r]]
    /\ job' = [job EXCEPT ![w] = [NoJob EXCEPT !.step = "claimed", !.batch = B,
                                               !.token = batches']]
    /\ UNCHANGED <<versions, funded>>

Touched(B) == {Family(r) : r \in B}

\* The evidence of a family's current version.
Current(f) == IF versions[f] = <<>> THEN {} ELSE Last(versions[f])

\* The first assessment has returned; prepare_assessment captures the heads of
\* its families and adds their current evidence to the records to assess.
Prepare(w) ==
    /\ job[w].step = "claimed"
    /\ LET fs == Touched(job[w].batch)
           input == job[w].batch \cup UNION {Current(f) : f \in fs}
       IN  job' = [job EXCEPT ![w].step = IF input = job[w].batch THEN "deciding"
                                          ELSE "reassessing",
                              ![w].heads = [f \in Families |-> IF f \in fs THEN Len(versions[f]) ELSE 0],
                              ![w].input = input]
    /\ UNCHANGED <<rows, versions, batches, funded>>

\* The second assessment, of the batch with its history, is charged again.
Reassess(w) ==
    /\ job[w].step = "reassessing"
    /\ funded
    /\ job' = [job EXCEPT ![w].step = "deciding"]
    /\ UNCHANGED <<rows, versions, batches, funded>>

\* What is left of a job that is given up: the batch to settle.
Left(w, step, retry) ==
    [NoJob EXCEPT !.step = step, !.batch = job[w].batch, !.token = job[w].token,
                  !.retry = retry]

OverBudget(w) ==
    /\ job[w].step = "reassessing"
    /\ ~funded
    /\ job' = [job EXCEPT ![w] = Left(w, "deferring", FALSE)]
    /\ UNCHANGED <<rows, versions, batches, funded>>

\* An assessment, or a check of its output, fails: a timeout or an unavailable
\* service may be retried, anything else not.
AssessmentFails(w, retry) ==
    /\ job[w].step \in {"claimed", "reassessing", "deciding"}
    /\ job' = [job EXCEPT ![w] = Left(w, "failing", retry)]
    /\ UNCHANGED <<rows, versions, batches, funded>>

-----------------------------------------------------------------------------
\* A slip: the lease is not compared, a row that was claimed is enough.
OwnsRows(w) == \A r \in job[w].batch : rows[r].attempt > 0

\* lock_claims: every row of the batch is still leased to this claim.
Owns(w) ==
    \A r \in job[w].batch : /\ rows[r].state = "processing"
                            /\ rows[r].token = job[w].token
                            /\ rows[r].lease = "live"

\* A slip: the heads are not compared again at the commit.
HeadsNotCompared(w) == job[w].step = "deciding"

\* No family of the batch has got a version since its head was captured.
HeadsUnchanged(w) ==
    \A f \in Touched(job[w].batch) : Len(versions[f]) = job[w].heads[f]

\* A slip: of the revisions of a record the oldest is cited.
OldestEvidence(f, records) ==
    {r \in records : /\ Family(r) = f
                     /\ \A s \in records : s[1] = r[1] => r[2] <= s[2]}

\* The evidence an assessment of the records cites for a family: the latest
\* revision of each record.  Every adapter refuses an item without text, so
\* there is something to quote in each.
Evidence(f, records) ==
    {r \in records : /\ Family(r) = f
                     /\ \A s \in records : s[1] = r[1] => s[2] <= r[2]}

\* The new evidence cites an older revision of a record than the current one.
Regresses(f, evidence) ==
    \E r \in evidence, s \in Current(f) : r[1] = s[1] /\ r[2] < s[2]

\* commit_assessments: a version for every family whose decision is new, and
\* the batch is done.  The same evidence can be judged anew: it has aged, or the
\* model took part.
Commit(w, rejudged) ==
    /\ job[w].step = "deciding"
    /\ Owns(w) /\ HeadsUnchanged(w)
    /\ versions' = [f \in Families |->
                      LET evidence == Evidence(f, job[w].input) IN
                      IF \/ f \notin Touched(job[w].batch)
                         \/ Regresses(f, evidence)
                         \/ evidence = Current(f) /\ f \notin rejudged
                      THEN versions[f] ELSE Append(versions[f], evidence)]
    /\ rows' = [r \in Records |->
                  IF r \in job[w].batch
                  THEN [rows[r] EXCEPT !.state = "done", !.token = 0, !.lease = "none"]
                  ELSE rows[r]]
    /\ job' = [job EXCEPT ![w] = NoJob]
    /\ UNCHANGED <<batches, funded>>

\* A stale lease or a changed head: the whole transaction is rejected with
\* REVISION_MISMATCH, which may be retried.
CommitRefused(w) ==
    /\ job[w].step = "deciding"
    /\ ~(Owns(w) /\ HeadsUnchanged(w))
    /\ job' = [job EXCEPT ![w] = Left(w, "failing", TRUE)]
    /\ UNCHANGED <<rows, versions, batches, funded>>

\* fail_records: back to pending if it may be retried and attempts are left.
Fail(w) ==
    /\ job[w].step = "failing"
    /\ Owns(w)
    /\ rows' = [r \in Records |->
                  IF r \in job[w].batch
                  THEN [rows[r] EXCEPT !.state = IF job[w].retry /\ rows[r].attempt < MaxAttempts
                                                 THEN "pending" ELSE "failed",
                                       !.token = 0, !.lease = "none", !.backoff = "waiting"]
                  ELSE rows[r]]
    /\ job' = [job EXCEPT ![w] = NoJob]
    /\ UNCHANGED <<versions, batches, funded>>

\* defer_records_for_budget: to tomorrow, and the attempt does not count.
Defer(w) ==
    /\ job[w].step = "deferring"
    /\ Owns(w)
    /\ rows' = [r \in Records |->
                  IF r \in job[w].batch
                  THEN [rows[r] EXCEPT !.state = "pending", !.attempt = @ - 1,
                                       !.token = 0, !.lease = "none", !.backoff = "waiting"]
                  ELSE rows[r]]
    /\ job' = [job EXCEPT ![w] = NoJob]
    /\ UNCHANGED <<versions, batches, funded>>

\* "A newer attempt owns the row; never overwrite its result."
Overtaken(w) ==
    /\ job[w].step \in {"failing", "deferring"}
    /\ ~Owns(w)
    /\ job' = [job EXCEPT ![w] = NoJob]
    /\ UNCHANGED <<rows, versions, batches, funded>>

Crash(w) ==
    /\ job[w].step # "idle"
    /\ job' = [job EXCEPT ![w] = NoJob]
    /\ UNCHANGED <<rows, versions, batches, funded>>

-----------------------------------------------------------------------------
\* A slip: recovery leaves the last attempt to its worker.
ExpiredWithAttemptsLeft(r) ==
    rows[r].state = "processing" /\ rows[r].lease = "expired" /\ rows[r].attempt < MaxAttempts

Expired(r) == rows[r].state = "processing" /\ rows[r].lease = "expired"

\* recover_records: expired records are claimed again while attempts are left.
RecoverRecords ==
    /\ rows' = [r \in Records |->
                  IF Expired(r)
                  THEN [rows[r] EXCEPT !.state = IF rows[r].attempt < MaxAttempts
                                                 THEN "pending" ELSE "failed",
                                       !.token = 0, !.lease = "none"]
                  ELSE rows[r]]
    /\ UNCHANGED <<versions, job, batches, funded>>

\* The records of a batch were leased until the same moment.
LeaseExpires(b) ==
    /\ \E r \in Records : rows[r].token = b /\ rows[r].lease = "live"
    /\ rows' = [r \in Records |->
                  IF rows[r].token = b /\ rows[r].lease = "live"
                  THEN [rows[r] EXCEPT !.lease = "expired"] ELSE rows[r]]
    /\ UNCHANGED <<versions, job, batches, funded>>

BackoffElapses(r) ==
    /\ rows[r].state = "pending" /\ rows[r].backoff = "waiting"
    /\ rows' = [rows EXCEPT ![r].backoff = "over"]
    /\ UNCHANGED <<versions, job, batches, funded>>

\* charge_budget: the calls of the day are spent, or a new day begins.
FundingChanges ==
    /\ funded' = ~funded
    /\ UNCHANGED <<rows, versions, job, batches>>

-----------------------------------------------------------------------------
WorkerStep(w) ==
    \/ Prepare(w)
    \/ Reassess(w)
    \/ OverBudget(w)
    \/ \E retry \in BOOLEAN : AssessmentFails(w, retry)
    \/ \E rejudged \in SUBSET Touched(job[w].batch) : Commit(w, rejudged)
    \/ CommitRefused(w)
    \/ Fail(w)
    \/ Defer(w)
    \/ Overtaken(w)

Next ==
    \/ \E r \in Records, state \in {"pending", "quarantined"} : Insert(r, state)
    \/ \E w \in Workers, B \in SUBSET Records : Claim(w, B)
    \/ \E w \in Workers : WorkerStep(w)
    \/ \E w \in Workers : Crash(w)
    \/ RecoverRecords
    \/ \E b \in 1..MaxBatches : LeaseExpires(b)
    \/ \E r \in Records : BackoffElapses(r)
    \/ FundingChanges

Spec == Init /\ [][Next]_vars

\* The recovery task runs every minute, leases and backoffs end, a started job
\* goes on or its worker dies, and the assessment task is queued every minute
\* and after every ingestion.  Nothing promises that the budget lasts.
Progress ==
    \/ RecoverRecords
    \/ \E b \in 1..MaxBatches : LeaseExpires(b)
    \/ \E r \in Records : BackoffElapses(r)
    \/ \E w \in Workers : WorkerStep(w)
    \/ \E w \in Workers, B \in SUBSET Records : Claim(w, B)

\* Each of these happens by itself; it is enough to assume that something does
\* as long as anything can.
Fairness == WF_vars(Progress)

FairSpec == Spec /\ Fairness

-----------------------------------------------------------------------------
Settled == {"done", "failed", "quarantined"}

\* No update is lost: a new version of an event cites every record the version
\* before it cited, in the same revision or a newer one, whatever other worker
\* committed while this one was assessing (commit_assessments under the heads
\* that prepare_assessment captured).
NoLostUpdate ==
    \A f \in Families : \A k \in 2..Len(versions[f]) : \A r \in versions[f][k - 1] :
        \E s \in versions[f][k] : s[1] = r[1] /\ s[2] >= r[2]

\* A record is done only when the current version of its event cites it, or a
\* newer revision of it: no record is consumed by a commit that left it out.
DoneIsAccounted ==
    \A r \in Records : rows[r].state = "done" =>
        \E s \in Current(Family(r)) : s[1] = r[1] /\ s[2] >= r[2]

\* A settled record is never touched again: not by a worker that lost its lease
\* and finishes late, and not by recovery (lock_claims, recover_records).
SettledIsFinal ==
    [][\A r \in Records : rows[r].state \in Settled => rows'[r] = rows[r]]_vars

\* While the budget lasts every record settles: again and again nothing is left
\* pending or processing.  Crashes, lost races and failures only cost attempts
\* (recover_records, fail_records).
RecordsSettle ==
    []<>(\/ \A r \in Records : rows[r].state \in Settled \cup {"absent"}
         \/ ~funded
         \/ batches = MaxBatches)

=============================================================================
