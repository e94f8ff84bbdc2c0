---------------------------- MODULE DailyReport ----------------------------
(***************************************************************************)
(* The report of one business day: Runtime.build_daily and the lease,      *)
(* snapshot and commit under it (reserve_report and commit_report of       *)
(* storage/decisions.py, report_snapshot of storage/queries.py), while     *)
(* news and quotes keep arriving.                                          *)
(*                                                                         *)
(* A builder reserves the day, reads records, events and observations in   *)
(* three statements that see different committed states, builds and        *)
(* commits.  The queue runs one report job at a time, but a job that was   *)
(* taken over can still be running: what keeps two builders apart is the   *)
(* lease.  A lease's 90 seconds are abstract; the clock counts the times   *)
(* the content of the report tells apart.                                  *)
(***************************************************************************)
EXTENDS ReportContent, Quotes

CONSTANTS
    Attempts,       \* bound on the builds begun: each has one lease, and its token is its number
    NewsIds,        \* news items: numbers, apart from the rows of quotes
    LastRevision,   \* bound on the revisions of a news item
    Wording,        \* what each revision says: [cues, effects, passages]
    MaxClock,       \* bound on the clock
    DueAt,          \* the configured time of the report
    MaxFailures,    \* bound on failed, killed and overtaken builds
    MaxArrivals     \* bound on news items stored and quote files previewed

ASSUME DailyReportAssumption ==
    /\ NewsIds \subseteq Nat /\ NewsIds \cap Rows = {}
    /\ {LastRevision, MaxClock, DueAt, MaxFailures, MaxArrivals, Attempts} \subseteq Nat
    /\ DueAt > 0

VARIABLES
    clock,
    news,       \* the news rows of source_records
    events,     \* the versions of the events
    day,        \* the report's subject row: token and lease
    builder,    \* what each build is doing
    report,     \* the committed report, or NoReport
    health,     \* the health record of the component "report"
    failures    \* failed and killed builds so far

newsVars == <<news, events>>
buildVars == <<day, builder, report, health, failures>>
reportVars == <<clock, newsVars, buildVars, quoteVars>>

-----------------------------------------------------------------------------
NewsKeys == NewsIds \X (1..LastRevision)

NoNews == [state |-> "absent", quality |-> "valid", discovered |-> 0]

NoReport == [cutoff |-> 0, facts |-> {}, impacts |-> {}, watched |-> {}, changes |-> {}]

Builders == 1..Attempts

NotBegun == [step |-> "none", cutoff |-> 0, records |-> {}, events |-> {}, content |-> NoReport]

Over == [NotBegun EXCEPT !.step = "over"]

BuildSteps == {"none", "reserved", "records", "events", "built", "committed", "failing", "over"}

ReportInit ==
    /\ clock = 0
    /\ news = [k \in NewsKeys |-> NoNews]
    /\ events = {}
    /\ day = [token |-> 0, lease |-> "none"]
    /\ builder = [b \in Builders |-> NotBegun]
    /\ report = NoReport
    /\ health = "none"
    /\ failures = 0
    /\ QuotesInit

-----------------------------------------------------------------------------
Arrivals == Cardinality({k \in NewsKeys : news[k].state # "absent"})
            + Cardinality({p \in Previews : previews[p].state # "none"})

\* A fetched item is stored, quarantined when it is not usable.  The fetch and
\* its transaction fall into one unit of the clock, not into one step of a build.
StoreNews(k, quality) ==
    /\ Arrivals < MaxArrivals
    /\ news[k].state = "absent"
    /\ k[2] > 1 => news[<<k[1], k[2] - 1>>].state # "absent"
    /\ news' = [news EXCEPT ![k] =
                  [state |-> IF quality = "valid" THEN "pending" ELSE "quarantined",
                   quality |-> quality, discovered |-> clock]]
    /\ UNCHANGED <<clock, events, buildVars, quoteVars>>

NewsRecord(k) ==
    [id |-> k[1], rev |-> k[2], origin |-> "wire", quality |-> news[k].quality,
     published |-> {news[k].discovered}, occurred |-> {}, provided |-> {},
     discovered |-> news[k].discovered, cues |-> Wording[k].cues,
     effects |-> Wording[k].effects, passages |-> Wording[k].passages]

Versions(i) == {e \in events : e.event = i}

\* The assessment of a record ends (see Assessment): a version that judges it
\* with the current evidence of its event, or a failure that is final.
Assess(k) ==
    LET current == {e \in Versions(k[1]) : e.version = Cardinality(Versions(k[1]))}
        evidence == {k} \cup UNION {e.verdict.cites : e \in current}
        verdict == Judge({NewsRecord(c) : c \in evidence}, <<>>, <<>>, clock)
    IN  /\ news[k].state = "pending"
        /\ news' = [news EXCEPT ![k].state = "done"]
        /\ events' = IF \E e \in current : e.verdict = verdict THEN events
                     ELSE events \cup {[event |-> k[1], version |-> Cardinality(Versions(k[1])) + 1,
                                        at |-> clock, verdict |-> verdict]}
        /\ UNCHANGED <<clock, buildVars, quoteVars>>

AssessmentFails(k) ==
    /\ news[k].state = "pending"
    /\ news' = [news EXCEPT ![k].state = "failed"]
    /\ UNCHANGED <<clock, events, buildVars, quoteVars>>

\* Bound: time passes beyond the time of the report only once a build has begun.
Tick ==
    /\ clock < MaxClock
    /\ clock < DueAt \/ builder[1].step # "none"
    /\ clock' = clock + 1
    /\ UNCHANGED <<newsVars, buildVars, quoteVars>>

-----------------------------------------------------------------------------
Goto(b, step) == builder' = [builder EXCEPT ![b].step = step]

\* A slip: a lease that ran out is not taken over.
NeverTakenOver == report = NoReport /\ day.lease = "none"

\* No report yet, and no builder holds the day.
Free == report = NoReport /\ day.lease # "live"

\* build_daily and reserve_report: the day is due and free; the cutoff is now.
Reserve(b) ==
    /\ builder[b].step = "none" /\ \A c \in 1..(b - 1) : builder[c].step # "none"
    /\ clock >= DueAt
    /\ Free
    /\ day' = [token |-> b, lease |-> "live"]
    /\ builder' = [builder EXCEPT ![b].step = "reserved", ![b].cutoff = clock]
    /\ UNCHANGED <<clock, newsVars, report, health, failures, quoteVars>>

\* A slip: records whose assessment has not ended are left out.
AssessedRecords(cutoff) ==
    {NewsRecord(k) : k \in {n \in NewsKeys : /\ news[n].state = "done"
                                             /\ news[n].discovered <= cutoff}}
    \cup {QuoteRecord(r) : r \in {q \in StoredQuotes : /\ quotes[q].quality = "valid"
                                                       /\ quotes[q].discovered <= cutoff}}

\* What the first statement of report_snapshot selects: everything discovered by
\* the cutoff that is neither quarantined nor failed.
SnapshotRecords(cutoff) ==
    {NewsRecord(k) : k \in {n \in NewsKeys : /\ news[n].state \in {"pending", "done"}
                                             /\ news[n].discovered <= cutoff}}
    \cup {QuoteRecord(r) : r \in {q \in StoredQuotes : /\ quotes[q].quality = "valid"
                                                       /\ quotes[q].discovered <= cutoff}}

\* The processing budget is charged and the records are read.
ReadRecords(b) ==
    /\ builder[b].step = "reserved"
    /\ builder' = [builder EXCEPT ![b].step = "records", ![b].records = SnapshotRecords(builder[b].cutoff)]
    /\ UNCHANGED <<clock, newsVars, day, report, health, failures, quoteVars>>

\* The second statement: of every event the newest version stored by the cutoff.
ReadEvents(b) ==
    /\ builder[b].step = "records"
    /\ builder' = [builder EXCEPT ![b].step = "events",
                                  ![b].events = CurrentEvents(events, builder[b].cutoff)]
    /\ UNCHANGED <<clock, newsVars, day, report, health, failures, quoteVars>>

\* The third statement, of the observations, and the build, which is pure.
Build(b) ==
    /\ builder[b].step = "events"
    /\ builder' = [builder EXCEPT ![b] = [@ EXCEPT
                     !.step = "built", !.records = {}, !.events = {},
                     !.content = Content(builder[b].records, builder[b].events,
                                         {Observation(r) : r \in {q \in StoredQuotes :
                                             Line[q].asOf <= builder[b].cutoff}},
                                         builder[b].cutoff)]]
    /\ UNCHANGED <<clock, newsVars, day, report, health, failures, quoteVars>>

\* A slip: whoever has built commits.
HasBuilt(b) == builder[b].step = "built"

\* commit_report compares token, lease and revision under the row's lock.
HoldsLease(b) ==
    /\ day.token = b
    /\ day.lease = "live"
    /\ report = NoReport

\* commit_report: the evidence exists and was discovered by the cutoff.
EvidenceAsOf(content, cutoff) ==
    \A k \in content.facts \cup content.impacts \cup content.watched :
        news[k].state # "absent" /\ news[k].discovered <= cutoff

Commit(b) ==
    /\ builder[b].step = "built"
    /\ HoldsLease(b)
    /\ EvidenceAsOf(builder[b].content, builder[b].cutoff)
    /\ report' = builder[b].content
    /\ day' = [token |-> 0, lease |-> "none"]
    /\ builder' = [builder EXCEPT ![b] = [NotBegun EXCEPT !.step = "committed"]]
    /\ UNCHANGED <<clock, newsVars, health, failures, quoteVars>>

CommitRefused(b) ==
    /\ builder[b].step = "built"
    /\ ~(HoldsLease(b) /\ EvidenceAsOf(builder[b].content, builder[b].cutoff))
    /\ Goto(b, "failing")
    /\ UNCHANGED <<clock, newsVars, day, report, health, failures, quoteVars>>

\* The commit stands before the health record says so.
RecordSuccess(b) ==
    /\ builder[b].step = "committed"
    /\ health' = "ok"
    /\ builder' = [builder EXCEPT ![b] = Over]
    /\ UNCHANGED <<clock, newsVars, day, report, failures, quoteVars>>

\* An exhausted budget, a deadline, invalid output.
BuildFails(b) ==
    /\ builder[b].step \in {"reserved", "records", "events", "built"}
    /\ failures < MaxFailures
    /\ failures' = failures + 1
    /\ Goto(b, "failing")
    /\ UNCHANGED <<clock, newsVars, day, report, health, quoteVars>>

\* "Keep the lease until expiry."
RecordFailure(b) ==
    /\ builder[b].step = "failing"
    /\ health' = "degraded"
    /\ builder' = [builder EXCEPT ![b] = Over]
    /\ UNCHANGED <<clock, newsVars, day, report, failures, quoteVars>>

Crash(b) ==
    /\ builder[b].step \notin {"none", "over"}
    /\ failures < MaxFailures
    /\ failures' = failures + 1
    /\ builder' = [builder EXCEPT ![b] = Over]
    /\ UNCHANGED <<clock, newsVars, day, report, health, quoteVars>>

\* The build is given less time than the lease: only a slow builder is overtaken,
\* which counts as a failure.
Working(b) == day.token = b /\ builder[b].step \notin {"failing", "over"}

LeaseExpires ==
    /\ day.lease = "live"
    /\ day' = [day EXCEPT !.lease = "expired"]
    /\ IF \E b \in Builders : Working(b)
       THEN failures < MaxFailures /\ failures' = failures + 1
       ELSE failures' = failures
    /\ UNCHANGED <<clock, newsVars, builder, report, health, quoteVars>>

-----------------------------------------------------------------------------
BuilderStep(b) ==
    \/ ReadRecords(b)
    \/ ReadEvents(b)
    \/ Build(b)
    \/ Commit(b)
    \/ CommitRefused(b)
    \/ RecordSuccess(b)
    \/ RecordFailure(b)

NewsNext ==
    \/ \E k \in NewsKeys, q \in {"valid", "future_quarantined"} : StoreNews(k, q)
    \/ \E k \in NewsKeys : Assess(k)
    \/ \E k \in NewsKeys : AssessmentFails(k)

QuotesNext ==
    /\ \/ \E p \in Previews, f \in Files : Arrivals < MaxArrivals /\ Preview(p, f, clock)
       \/ \E p \in Previews : Import(p, clock)
       \/ \E p \in Previews : ImportAgain(p)
       \/ \E p \in Previews : PreviewExpires(p)
    /\ UNCHANGED <<clock, newsVars, buildVars>>

ReportNext ==
    \/ NewsNext
    \/ QuotesNext
    \/ Tick
    \/ \E b \in Builders : Reserve(b)
    \/ \E b \in Builders : BuilderStep(b)
    \/ \E b \in Builders : BuildFails(b)
    \/ \E b \in Builders : Crash(b)
    \/ LeaseExpires

ReportSpec == ReportInit /\ [][ReportNext]_reportVars

\* The report task is queued every minute and a started build goes on; leases
\* end; the clock reaches the time of the report.  Each of these can happen only
\* so often, so it is enough that they do not all stop.
Progress ==
    \/ Tick
    \/ LeaseExpires
    \/ \E b \in Builders : Reserve(b)
    \/ \E b \in Builders : BuilderStep(b)

Fairness == WF_reportVars(Progress)

FairSpec == ReportSpec /\ Fairness

-----------------------------------------------------------------------------
Contents == UNION {{builder[b].content : b \in Builders}, {report}}

ReportTypeOK ==
    /\ clock \in 0..MaxClock
    /\ \A k \in NewsKeys : news[k].state \in {"absent", "pending", "done", "failed", "quarantined"}
    /\ day.token \in 0..Attempts /\ day.lease \in {"none", "live", "expired"}
    /\ \A b \in Builders : builder[b].step \in BuildSteps
    /\ health \in {"none", "ok", "degraded"}
    /\ failures \in 0..MaxFailures

\* One report a day: once committed it is never replaced, by a builder whose
\* lease ran out while it was building, by a retry or after a restart
\* (commit_report, reserve_report).
ReportIsFinal == [][report # NoReport => report' = report]_reportVars

\* No fact of the report was out of date: no revision of the same item that was
\* stored before the report's cutoff, and is neither quarantined nor failed,
\* replaces it, though records and events are read at different moments
\* (report_snapshot, SnapshotReportService.build).
FactsWereCurrent ==
    \A k \in report.facts \cup report.impacts, n \in NewsKeys :
        /\ n[1] = k[1] /\ n[2] > k[2]
        /\ news[n].state \in {"pending", "done"}
        => news[n].discovered >= report.cutoff

\* "An unusable correction must not revive an earlier assertion": nor does a
\* quarantined revision leave the one it replaces among the facts.
UnusableCorrectionsCount ==
    \A k \in report.facts \cup report.impacts, n \in NewsKeys :
        /\ n[1] = k[1] /\ n[2] > k[2]
        /\ news[n].state = "quarantined"
        => news[n].discovered >= report.cutoff

\* A change of price the report states is the difference of undisputed quotes:
\* every quote stored before the cutoff, on any basis, was taken into account
\* (report_snapshot's third statement, PriceChange).
ChangesAreUndisputed ==
    \A c \in report.changes : c.verdict = "change" =>
        LET known == {Observation(q) : q \in {r \in StoredQuotes :
                          quotes[r].stored < report.cutoff \/ r \in c.rows}}
            group == {o \in Grounded(known, {QuoteRecord(r) : r \in StoredQuotes}, report.cutoff) :
                          \E r \in c.rows : ComparisonKey(o) = ComparisonKey(Observation(r))}
        IN  c.delta \in TrueChange(group)

\* The report of the day appears once it is due, however builds fail and die:
\* a kept lease only delays the next.
DueReportAppears == clock >= DueAt ~> report # NoReport

=============================================================================
