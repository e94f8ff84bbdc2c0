# oil-agent in TLA+

A formal model of the oil-agent program: which sources it reads, how records
become event versions, who is told about them, and what every provider request
costs. The modules are translated from the Python source under
`src/src/oil_agent/` (paths below are relative to that directory); TLC checks
them on small instances, and TLAPS proves every safety property the runs check, and
more, for every instance. Words of the code's documents that the code contradicts
are collected in section 6.

    tlasany M.tla                          parse a module
    tlc -workers 2 -config X.cfg M         check a run
    tlapm M.tla                            check the proofs of a module

## 1. The system

oil-agent watches oil-market sources, has rules and a language model judge each
record, keeps a versioned history of events, and tells provisioned users about
them over Feishu. It is one Python package run as several processes: an HTTP
service, Procrastinate workers and a callback listener. All of them share one
PostgreSQL database and nothing else, so every interaction is a row that one
transaction writes and another reads.

| component | state it keeps | operations |
|---|---|---|
| source ingestion (`storage/ingestion.py`, `ingestion/*`) | `source_checkpoints`, `source_records` | `persist_batch`, adapters' fetch, `background_state` |
| assessment (`storage/ingestion.py`, `storage/decisions.py`, `runtime/service.py`) | leases on `source_records`, `subjects`, `subject_versions` | `claim_records`, `prepare_assessment`, `commit_assessments`, `fail_records`, `defer_records_for_budget`, `recover_records` |
| notifications (`storage/delivery.py`, `storage/operations.py`) | `recipient_authorizations`, `notification_intents`, `acknowledgements` | `create_notifications`, `create_due_reminders`, `acknowledge`, `acknowledge_web` |
| outbox (`storage/delivery.py`, `runtime/service.py`, `channels/feishu.py`) | `deliveries`: state, attempt, lease | `claim_deliveries`, `authorize_intent`, `authorize_recipient`, `finish_delivery`, `recover_deliveries`, `send_pending` |
| ledger (`storage/permissions.py`) | `budget_counters`, `permission_scopes`, `provider_calls` | `reserve_provider_call`, `bind_permission`, `record_model_usage`, `charge_budget` |
| daily report (`storage/decisions.py`) | the build lease in `subjects`, `subject_versions` | `reserve_report`, `report_snapshot`, `commit_report` |
| identity and access (`storage/auth.py`, `api/auth.py`) | `users`, `sessions`, `login_states` | `create_login_state`, `consume_login_state`, `issue_session`, `resolve_session`, `revoke_user`, `check_actor` |
| configuration (`storage/queries.py`) | `business_config`, `audit_log` | `update_config` |
| quotes (`storage/queries.py`, `ingestion/quotes.py`) | `quote_previews`, `market_observations` | `save_preview`, `import_preview` |
| C1 exercise (`storage/c1.py`, `runtime/c1*.py`) | the two exercise messages, `provider_calls` of the lane, an advisory lock | `run_two_tasks`, `create_c1_exercise`, `reserve_c1_request`, `observe_c1_request`, `stop_c1` |
| personal status (`storage/status.py`, `runtime/status*.py`) | the two notices, `provider_calls` of the lane, the tenant, an advisory lock | `execute_status`, `create_status_notification`, `send_status_once`, `reserve_status_request`, `selected_status` |
| preparation (`runtime/c1_local.py`, `runtime/c1_database.py`, `runtime/c1_private.py`) | one private file; a Docker container, volume and network | `db-prepare`, `db-start`, `db-stop`, repair, tenant lookup, the first start and a resume |
| intelligence (`intelligence/*`), report content (`reporting/*`), message cards (`channels/cards.py`) | none: pure computations | |
| transports (`ingestion/http.py`, `ingestion/mcp.py`, `channels/common.py`) | connections | bounded requests |
| queue (`runtime/tasks.py`) | Procrastinate's tables | a tick of every task each minute |

**Interaction.** An ingestion transaction inserts records; the assessment task
leases them, asks the model (charging the ledger), and commits versions, and
the same commit creates grants, intents and deliveries; the delivery task
leases deliveries and sends them (charging the ledger again), checking before
and after each network call that the recipient is still authorized; callbacks
and the web acknowledge deliveries; the recovery tick takes back expired
leases and creates reminders. The administrator changes configuration and
revokes users at any moment of all this.

**What is hard.** A worker's handler is a sequence of transactions with network
calls between them, so between any two of its steps another worker, recovery,
a revocation or its own death may come. Leases run out while their holder is
still alive. The answer to a message POST can be lost, and then neither "sent"
nor "not sent" may be assumed. Configuration read without a lock is stale when
the transaction commits. PROJECT.json lists these places line by line as
`hazards`, with the properties that would catch them.

**What makes each component correct.**

* Outbox: no message is sent twice; the table never contradicts the provider's
  side; a lease is held by one worker; nothing stays in flight for ever.
* Notifications: what is revoked before the last check is not sent; reminders
  follow delivered, unacknowledged originals, once; acknowledgements bind to
  one delivery and one revision.
* Assessment: no committed evidence is lost to a concurrent commit; no record
  is consumed without being accounted for; a record's final state is final.
* Ledger: the buckets are the sum of the recorded calls, never over a limit;
  background work leaves the urgent reserve alone; a blocked approval is used
  no more; reservations do not deadlock.
* Daily report: one report a day, committed by the holder of the lease; its
  facts were current at the cutoff, its price changes are differences of
  undisputed quotes, and it appears once it is due.
* Access: a revoked user has no session and gets none; a login state is used
  once; a session is good only for the permission it was issued under.
* Ingestion: a later revision is a later text, a position never moves back or
  over a record, and what a source holds is stored in the end.
* Quotes: a repeated import answers what the first one did, and what the imports
  answered adds up to what is stored, with two previews of one file as well.
* Exercise: two messages in order, the second only after the first was accepted
  and long enough ago, none reserved after the stop, and a stop ends the run.
* Personal status: each notice is tried once, in its own window; an unknown
  outcome stops both; the tenant is asked for once; what is printed is true.
* Preparation of the exercise: the private file's password opens the database
  that is used, an exercise has one start and one tenant, and its clock starts
  on an installed database of the file's own password (not on a running one:
  section 6).

## 2. Modules

| module | models | its relations |
|---|---|---|
| `Outbox` | the delivery rows, the workers' `send_pending`, the channels, recovery | implements `DeliveryPromise` |
| `DeliveryPromise` | what the outbox promises: one transmission at most, truthful outcomes | abstract specification |
| `Notifications` | grants, publication, reminders, acknowledgements, configuration, revocation | composed with `Outbox` by `INSTANCE`; implements `Outbox!Spec` |
| `Requests` | sending under an approval that counts every request | operators on top of an `INSTANCE` of `Outbox` |
| `Exercise` | the two-message C1 run, its queue, lock, stop and resume | composed with `Requests`; implements `Outbox!Spec` |
| `Status` | the two personal notices, the tenant's lookup, their windows and tasks | composed with `Requests`; implements `Outbox!Spec` |
| `Preparation` | the commands that make an exercise ready and start it, against Docker and the private file | |
| `Assessment` | record leases, assessment, commit of versions | |
| `Judgement` | rules, cues, and how the records of one event become one assessment | pure |
| `Ingestion` | polls of the sources, checkpoints, revisions | |
| `Ledger` | reservations with their locks, usage reports, blocking | |
| `Sessions` | login challenges, sessions, roles, revocation, restarts with other permissions | |
| `Quotes` | previews and imports of quote files | |
| `ReportContent` | what a report says of a snapshot; price comparison | pure; extends `Judgement` |
| `DailyReport` | the build lease, the snapshot, the commit, health | extends `ReportContent` and `Quotes` |
| `OutboxProofs`, `StatusProofs`, `AssessmentProofs`, `IngestionProofs`, `LedgerProofs`, `SessionsProofs` | theorems about the module of that name | extend it |
| `PublicationProofs` | theorems about what is published: `Notifications`, `DailyReport` with `Quotes`, and the pure `Judgement` and `ReportContent` | extends them |
| `C1Proofs` | theorems about the exercise lane: `Exercise` and `Preparation` | extends them |
| `MC...` | constants and symmetry for TLC | extend the above |

Type invariants (`TypeOK`) are in every module with state; they are checked while
a module is developed and proved where a proof needs them. The runs leave them
out in favour of the properties that say something of the program. Operators
called "a slip" are plausible mistakes in the definition that follows; replacing
the definition by its slip makes TLC find the property it guards violated.

### Outbox

`rows[d]` is the `DeliveryRow` of a delivery: its state, attempt, lease token,
and what the code compares with the clock. `lease` says whether `lease_until`
is in the future, `backoff` whether `next_attempt_at` is. Time is no variable:
`LeaseExpires` and `BackoffElapses` may come at any moment, which covers every
speed of every process.

A worker's program counter follows `send_pending`: `claimed` (a row leased),
`authorized` (first check), `reserved` (budget spent), `admitted` (the
channel's check), `tokened` (tenant token fetched), `cleared` (the channel's
second check), `posted`, `finishing`. Each is an await of the code. A worker
may die at every one (`Crash`); the row is what its last transaction left.
`arrived[d]` is what the provider really got, which the program cannot see;
the properties compare the table with it. `Respond` admits each answer that
agrees with what arrived, and `Classify` is how `FeishuChannel.send` turns it
into a state. The lease token is the attempt number: both are fresh for each
claim of a row. `Enqueue` inserts the deliveries of one transaction.

### Notifications

One event, published revision after revision. `PublishRead` and
`PublishCommit` are one transaction cut between the reading of the
configuration and the commit, since PostgreSQL's READ COMMITTED lets others
commit in between and the code takes no lock there; `RemindersRead` and
`RemindersCommit` are the two transactions of `create_due_reminders`. The
outbox's actions are those of module `Outbox`, with every answer to "is this
still authorized?" replaced by `LiveGrant`, which is `_live_grant`. Which
severities the policy reports first, and whether half an hour has gone by, are
choices of the model. An acknowledgement comes as a provider's callback or
through the web, which derives its callback id from the actor and the delivery.

Of the outbound modes only `dry_run` and `trial` are modelled: `update_config`
accepts no other in a deployment that starts.

### Requests, Exercise, Status

`calls` holds every request an approval has been charged with and what was
observed of it: reserved, started, responded or a transport failure. A worker's
delivery goes through `Outbox`; `Requests` adds the reservation
(`reserve_c1_request`, `reserve_status_request`), which reads the live
authorization in its own transaction, and the observations before and after the
network call. Whether a delivery is authorized is the caller's to say:
`c1_live_grant` in `Exercise`, `status_live_grant` in `Status`.

In `Exercise`, `run[r]` is a foreground process in `run_two_tasks`; `jobs` are
the tasks that wait in the queue, with 0 for the wake-up call of the stop
command. The queue compares a task's time with the database's clock and the
program with its own, so a scheduled task may come early. Crash, stop, resume,
revocation and the window's end may come at every step.

In `Status`, a run is `execute_status`: under the execution lock it looks up the
tenant where the private configuration has none, takes the lock again, recovers
and reviews what earlier processes left, and sends its one notice. `time` is the
part of the approval's day, of which each notice has its own; the warm-up of the
second overlaps the window of the first when the scope was prepared less than
twenty-five minutes before the morning. A task stays in the queue when its
process dies (`todo`, `doing`) and the next process finds it.

In both, `Fail` is a guard or a transaction of a step that fails before a message
is claimed, and `DatabaseFails` a failure while the run recovers, waits or sends:
the row in flight stays, and the next run, or recovery, finds it. `Fail` is among
what a run of the exercise goes on with, since a guard that fails does end it;
`DatabaseFails` is not, so that a stopped run does not end by luck.

### Preparation

A terminal types one command at a time; a command is cut at every call of
Docker, of the database and of the file, and may be killed there. The file's
fields are bound once, by a command that compares the file with what it read
before. The container, volume and network outlive every command. Which password
the database was initialised with, which the file holds and which a command
carries are kept apart, for that is what can go wrong.

### Assessment and Judgement

`rows` are the source records of every id and revision, `versions[f]` the
evidence cited by the versions of a family. A worker claims a batch, assesses
it, captures the heads of the families (`Prepare`), assesses again if that
added history, and commits if the lease and the heads are as it left them. A
judgement is the set of records it cites: the latest revision of each record
given. Every adapter refuses an item without text, so every record can be
quoted; the same evidence may be judged anew (`rejudged`), since it ages.

What status, severity and standing those records yield is `Judgement`: approved
rules match a record by one passage or not at all, cues only ever lower what was
proposed, and a second independent origin raises the standing. It is used by
`DailyReport`, whose events carry real verdicts.

`prepare_assessment` refuses more than 64 records of an event's history as
invalid input: an event that has gathered so many takes in no further record.
That bound is outside the instances.

### Ingestion

A poll reads the checkpoint, fetches, and stores batch and checkpoint in one
transaction (`persist_batch`) that refuses when the checkpoint has changed. The
queue only keeps two polls of one source from waiting together, so fetches
overlap. A `Feed` is Jin10, read in pages that move while they are read, whose
items are compared with what is stored to number their revisions; a `Replay`
reads on from its position in a fixed corpus; `Points` are the EIA and news
series, whose rows are always revision 1.

### Quotes, ReportContent, DailyReport

A quote file is previewed and imported; its rows are identified by the file's
digest and their place. `ImportAgain` is the request repeated: it returns the
answer stored with the preview, so it changes nothing, and its slip counts again. A builder reserves the day, reads records, events and
observations in three statements that see different committed states, builds
and commits. `Content` is `SnapshotReportService.build`: which records are
facts, which support an impact, which are only watched, and which prices can be
compared. A statement is the set of records or quotes it rests on; wording and
rendering are left out.

### Ledger

`reserve_provider_call` is one transaction that binds an approval and charges
two buckets, or four for a model. It is cut at every lock it takes: the
approval's, then each bucket's in sorted order. A caller's writes show at its
commit. `Begin` reads the day before the transaction, as the code does.
`RecordUsage` is `record_model_usage`; an overrun blocks the approval under its
lock. The advisory lock of a bucket and the row it guards are one lock.

### Sessions

A server handles a login as `login` does: it consumes the challenge, reserves
the exchange, asks the identity provider, looks the user up, and issues the
session in a transaction that locks the user's row. `LockUser` and `Issue` are
that transaction, cut at the lock, so a revocation comes before or after it.
A scope is the pair of approval id and digest. `Redeploy` restarts a server
with another permission, possibly under the same approval id, or with none.

## 3. Runs

Every bound is a CONSTANT of the module.

| run | instance | shows |
|---|---|---|
| `outbox` | 2 deliveries, 2 workers, 3 attempts, fairness | no double send, truthful table, refinement of `DeliveryPromise`, deliveries settle |
| `notifications` | 1 recipient, 2 revisions, both channels, 1 worker, 1 attempt, 2 changes of configuration or permission | what is silenced stays silent, acknowledgements are of delivered messages and stay in their revision, one reminder |
| `assessment` | 2 records of one event, one revised, 2 workers, 2 attempts, 3 batches, fairness | no lost update, done records are accounted for, settled ones final, records settle while the budget lasts |
| `ledger` | 2 model approvals, 2 callers, 2 calls before the last begin, 2 days, fairness | the sums, the limits, blocking, over midnight; every transaction ends |
| `sessions` | 1 user, 2 logins on 2 servers, 2 permissions under one approval id | revocation, one session per challenge, scopes |
| `exercise` | 2 processes, 3 starts, 2 sends, 5 requests, fairness | the order of the messages, true completion, shared allowances, silence after a stop; a stop ends the run before any deadline |
| `status` | 2 processes, 2 starts, 2 sends, 5 requests | one attempt in its own window, unknown outcomes stop both notices, one lookup, true acceptance |
| `preparation` | 2 terminals, 2 passwords and a lost one, 2 starts, 2 tenants | the bound database opens, one start and one tenant, the clock starts on an installed database of the file's password |
| `ingestion` | a feed of 3 items of which one is corrected, a replay, a series of 1 point, 2 workers, pages of 1, 1 failure, fairness | no roll-back, nothing skipped, positions go forward, everything is caught up |
| `reports` | 2 builds, 2 revisions of a news item, 2 quote files that dispute a date, 2 arrivals, 1 failure, fairness | current facts, undisputed changes, imports add up, one final report, which appears |
| `revived_assertion` | as `reports` | a finding, below |
| `second_poll` | a series of 2 points, 2 workers, 1 failure, fairness | a finding, below |

Why these are enough: the outbox's races are between two holders of one row, or
of one holder and recovery, and its counters stop at three attempts, which the
instance has in full. The notification rules speak of one recipient and of two
revisions at most; retries are the outbox's, so there one attempt is enough, and
acknowledgements of the web bring in every moment a provider's callback could
(the theorems of `PublicationProofs` have both). A lost update needs two
workers and one event; three batches let a commit pass between the head and the
commit of another, and are one more than a record's attempts. Two callers that
share two buckets and hold different approvals are all a circular wait or a lost
charge needs; the limits are chosen so that every bucket can be the one that
refuses. Two logins with the same or different challenges are all a double use
needs. Three starts of the exercise reach a failed first run, a failed second
message and its repetition; two sends are fewer than both messages can ask for.
Two starts are one for each of the two notices, or two for the same. A page of
one item moves over an item with every publication. Two builds are an owner and
the one that takes over; two files that give one date different prices are a
dispute, and one correction is enough to revive what it corrects.

`MCDailyReport` also has TLC evaluate two assumptions over bounded inputs: the
comparison of prices, taken from the code's sorted list, finds the true change
of undisputed quotes (`PriceChangeIsTrue`, which `PriceChangesAreTrue` proves for
every finite set of valid ones), and the direction of a daily close
is that of its difference when the earlier close is positive
(`CloseDirectionIsTrue`).

Two runs expect a violation, one per finding:

* `revived_assertion`: the report service promises that an unusable correction
  does not revive what it corrects. The snapshot it is given leaves quarantined
  records out, so it never sees the correction.
* `second_poll`: a series is meant to bring its latest points at every poll.
  Points fetched again carry another time of discovery, a stored revision is
  immutable down to that time, and so the whole batch is refused: new points
  arrive only while no point of the page is known. The `ingestion` run has one
  point for that reason.

### Fairness

* Outbox: `claim_deliveries`, recovery and the deliver task are queued every
  minute (`runtime/tasks.py`), a started handler goes on because each await has
  a deadline, and time passes. A worker may always crash, and nothing is assumed
  of the administrator: `DeliverySettles` holds unless sending is switched off.
* Assessment, DailyReport: the same ticks, as one weak fairness of whatever can
  go forward: each of these steps can be taken only so often, so it suffices
  that they do not all stop. Nothing promises that the budget lasts;
  `RecordsSettle` allows it to run out. `DueReportAppears` allows each bounded
  failure, crash and expired lease.
* Ingestion: a poll of every source begins again and again, though workers are
  taken by others in between (strong fairness of its beginning), and a fetch that
  has begun goes on or ends (weak).
* Exercise: a run goes on while it has something to do, as its awaits have
  deadlines, and a stop command finishes. `StopEndsTheRun` assumes neither the
  end of the window nor the second message's time.
* Ledger: a waiting lock is granted in the order of arrival, so a transaction
  that is enabled again and again proceeds: strong fairness.

The ticks are Procrastinate's (external). A job whose worker was killed keeps its
lock until the queue's own recovery takes it back; that this happens is assumed.

## 4. Proofs

Each proof module assumes only the named assumption on the constants of the
module it extends: any number of workers, deliveries, records, users, and any
allowances (attempts are one to three, as the code bounds them).

**The outbox and what is built on it.** `OutboxProofs` proves `TypeCorrect`,
`NoDuplicateMessage`, `TruthfulRows`, `FinalStatesAreFinal`,
`LiveDeliveriesAreNotDry` and the refinement `OutboxKeepsPromise`. They rest on
`IInv`. At-most-once arrival is not inductive by itself: a retryable row may be
sent again, so the invariant must say that nothing has arrived for a claimable
row; and since a worker may have lost its lease without knowing, it must say of
every worker, dead or alive, what the row it still holds can be. `WorkerKnows`
says it: the row is in flight under the worker's own token or has been given up
as unknown, nothing has arrived before the POST, and a result other than unknown
is the truth.

`NotificationsImplementOutbox`, `ExerciseImplementsOutbox` and
`StatusImplementsOutbox` show that every step of the three senders is a step of
the outbox or leaves it. The invariant of `OutboxProofs` is thereby theirs
(`INSTANCE OutboxProofs`): nothing any of them sends arrives twice, and their rows
tell the truth (`NoNotificationTwice`, `NoNoticeTwice`, `NoMessageTwice`). Their own
theorems build on it:

* In `PublicationProofs`: `OnlyDeliveredIsAcked`, `OneReminder`, `AcksAreConfined`
  and `RevokedIsNotSent`. The last needs what each moment of publication and
  recovery knows of the rows and grants of older revisions (`Published`,
  `Recorded`, `RevisionsOfRows`), since a grant once withdrawn must not come back
  with the row of another revision.
* In `C1Proofs`: `SecondComesSecond`, `AllowancesHold`, `StopIsSilence` and
  `CompletionMeansBoth`, from what the ledger of requests says: a worker that has
  posted has its request there (`Posted`), no request for the second message is
  there before its time (`Ordered`), and the requests there are within the
  allowances and cover what has arrived (`Accounted`). That the first message stays
  accepted is the outbox's life cycle (`AcceptedStays`). A completion is right
  because a second task is queued, and a second row inserted, only behind the first
  acceptance; so whichever row a run has claimed, an accepted result means that its
  own message is accepted (`Scheduled`); and no acceptance lacks its answer
  (`Answered`).
* `StatusProofs`: `AcceptanceIsTrue`, `OneLookup`, `OneAttemptInTime` and
  `DoubtIsSilence`, from the execution lock: a run between its lookup and its end is
  alone (`Runnings`), so what it has read of the rows and of the ledger still holds
  when it uses it (`Requested`, `Undoubted`); only a run that is sending has a
  delivery in hand (`Senders`); and an acceptance comes from a recorded answer
  (`Answered`).

**Assessment.** `NothingIsLost`, `DoneMeansCited`, `SettledForGood`, from `AInv`. A
commit appends evidence that covers the current one only because the worker has
seen it: `Informed` says of every worker between `Prepare` and its commit that the
evidence of a captured head is among its records unless the head has moved. That
the newest revision among the records assessed exists is shown from the
well-foundedness of the numbers (`Highest`).

**Ingestion.** `RevisionsInOrder`, `ReplayIsComplete`, `NoStepBack`, from `IInv`. A
fetch reads, page by page, what the source may meanwhile have changed, and another
fetch may commit before it does. `Knows` says what is left of its knowledge: while
no other commit has come in between, an item it has read is no older than what is
stored of it, and a row of its batch is stored already or may follow (`Newer`:
numbered one after the stored revisions, with a later text than each); of a fetch
that was overtaken nothing is said, and the comparison of checkpoints refuses it.
The proofs assume that a feed shows an item once and that the constants bound its
ids, as the named assumption of `Ingestion` states.

**Ledger.** `LedgerInvariant`, `NeverOverdrawn`, `NothingAfterBlock`, from
`LedgerInv`: what a transaction has read of a bucket is still what the bucket
holds, because it has the bucket's lock (`Reads`), and an approval that is bound is
not blocked while its lock is held (`Bound`). `NothingLostOrLeftBehind` is that a
bucket holds what the recorded calls charged it: calls of one bucket are counted
(`CallsOn`), so a commit that records one call adds one amount to each of its
buckets, and an end without a commit adds none, because charges are the
transaction's own until then.

**Sessions.** `SessionsInvariant`, `TypeCorrect`, `NoSessionAfterRevocation`,
`ChallengesAreOneTime`, `ScopeHolds`, `RevocationIsForGood`, from `SessionsInv`. That
a revoked user has no session is not inductive: between the lock of the user and
the commit a login is about to add one, so the invariant says that such a login
holds the lock and its user is active. That a scope is honoured needs the bindings
of approval ids, which never change once made.

**Preparation.** `OpensWhatItNames`, `OneIdentity`, `ClockNeedsDatabase`,
`TenantAskedOnce` and `BoundOnce`, from `PreparationInv`. A command acts on what it
read of the file and of the machine many calls of Docker ago, while another
terminal goes on. `Remembered` says that a field it has read as bound is still
bound to that value, since fields are bound once; `Needs`, clause by clause, what
the steps before one have made sure of and no other terminal can take back (to
compose, that there is no volume or that it is the password's own; to record the
start, that the database is installed); `OwnDatabase` that a container there was
made with the file's password, as was its volume, and is the one the file names if
it names one. One start and one tenant follow from `SentForTheFile`: what was sent
was sent for the values in the file, which stay. All of it holds from each of the
machines the preparation may begin on: new, with what another configuration left,
or with an own container that was never written down.

**Daily report.** `FactsAreNotSuperseded`, `ChangesWereUndisputed`, `OneReportADay`,
from `ReportInv`. The three statements of a snapshot see different states, and
rows are stored between them and while the report is built. The invariant says of
a builder that has read the records that they are complete to its cutoff
(`CompleteTo`), and of the content it has built that it is right at the cutoff
(`CurrentTo`, `UndisputedTo`). These stay true because nothing is stored in the
past: every step leaves what was stored as it was and stores what it adds at the
clock's time, which is not before any cutoff (`Past`, `Onward`). That a change of
price is the true one needs that the last two quotes of a comparison exist
(`LatestExists`, from the well-foundedness of the numbers).

**Quotes.** `ImportsAnswerTruly`, from `ImportsInv`: the sum over the previews is
taken apart into a function on the sets of previews (`Adds`), and it is shown by
the size of those sets that one more import adds what it answers (`SumGrows`).
That is an induction on numbers, which the prover has, in place of one on sets.

**The pure algorithms.** For all inputs, `TextOnlyLowers`: the words of a text never
raise what was proposed of it. `ModelsDoNotConvince`: a credible verdict does not
depend on what the model claims, since a verified record has a review or its one
rule. `AlarmsHaveAReason`: a severity above routine is a review's or an approved
rule's, of a recent occurrence with no word against it, in a group whose records
are all verified. `ImpactsAreQuotedAndWatched` relates the parts of a report, and
`PriceChangesAreTrue` shows the comparison of prices to agree with a definition
that knows nothing of rows or sorting (`TrueChange`).

`C1Proofs` and `PublicationProofs` each hold the proofs of components that share
nothing but the module; `Preparation` and `DailyReport` prefix the names of their
`Init`, `Next` and `Spec` for that reason.

**Only model-checked.** All liveness (`DeliverySettles`, `RecordsSettle`,
`TransactionsEnd`, `StopEndsTheRun`, `CaughtUp`, `DueReportAppears`): fairness and
ENABLED are outside the prover. The direction of a daily close
(`CloseDirectionIsTrue`) is computed from a sorted sequence; what a sort or a fold
computes for every input would need induction over data, which the prover does not
offer. The two findings are counterexamples, and TLC's.

## 5. Not modelled

* Signatures, ages and parsing of callbacks, HTTP and MCP framing, file
  permissions, message wording and cards: no state of the program depends on them
  beyond success or failure, which is a choice where it matters.
* The requests to model services, and change detection between versions.
* The execution lock of the exercise belongs to a database connection of its own;
  that this connection breaks while the run goes on is not modelled.
* The queueing locks of Procrastinate (external): without them more handlers run
  at once than with them, so the modules check more interleavings.
* Within one transaction, statements are taken to be atomic with each other,
  except in `Notifications` (publication, reminders), `Ledger` and `DailyReport`,
  where a read without a lock, the order of locks or the statements' different
  snapshots matter.
* The `tenant-lookup` command of `c1_private.py`, which takes no lock, and the
  one-message variant of the exercise.
* The HTTP routes, the browser application and the operator's scripts: they check
  the actor and call operations that are modelled.

## 6. Where the documents and the code part

Besides the two findings, modelling met these. Each is a reading of the code; the
first ones are sequences of steps of the modules, the others concern details that
the modules abstract from.

* A repeated callback of a reminder is refused, for its acknowledgement has
  withdrawn the reminder's own authorization (`storage/delivery.py:273`); the
  handoff document calls repetition idempotent (`runtime-handoff.md:67`).
* Disabling reminders is said to stop existing grants (`storage/queries.py:81`). A
  publication that read the configuration before commits its grant after
  (`storage/delivery.py:97`).
* A newer revision is said to suppress reminders (`runtime-handoff.md:88`). It keeps
  new ones from being created; a pending one is still sent
  (`storage/delivery.py:256`).
* `start` is said to check the database's readiness before it records the start
  (`config/c1-preparation.md:456`: "checks protected configuration and database
  readiness before recording"), and so it does; but no lock is held from the check
  to the record (`runtime/c1_local.py:335`). `db-stop` typed in another terminal in
  between lets the thirty minutes begin on a stopped database, in `Preparation` the
  steps `Connect`, `Operate` of the other terminal, `RecordStart`.
  `ClockStartsInstalled` says what does hold then.
* A stop that arrives after the second acceptance and before the run prints its
  result leaves a completion with a blocked approval, which `checked_status`
  reads as `C1_UNKNOWN` (`runtime/c1_runner.py:86`).
* A builder that was overtaken writes its failure over the health record of the
  one that succeeded (`runtime/service.py:570`); the handoff document only speaks of
  a busy builder (`runtime-handoff.md:92`).
* The EIA adapter's content hash is of the product and the excerpt, not of the
  title it stores (`ingestion/eia.py:151`).
* A quote row that was quarantined as future carries its quality in the stored
  payload, so the same file uploaded once the time has come is refused as a
  changed revision (`storage/ingestion.py:96`).
* The change of a daily close is divided by the earlier close
  (`intelligence/price_alert.py:115`): a negative one turns its direction around.
* A poll of Jin10 whose pages hold more items than `max_items` is refused whole,
  and the next one starts where it did (`ingestion/jin10.py:208`).
* A process killed after Docker created the database and before its container id
  was bound leaves a state that `db-prepare` refuses for ever
  (`runtime/c1_database.py:418`), unless it is the one container the repair command
  names.
* A notice's task left over by a killed process keeps the other notice of the day
  from being sent (`storage/status.py:71`).

## 7. Plan

1. `Outbox` with `Ledger`: what a claim is charged to when the channel changes
   between reading and reserving.
2. Change detection between versions, and the message cards' choice of wording by
   status and standing, as pure modules.
3. Proofs: the type invariants of `Exercise`, `Status` and `Notifications`; the
   direction of a daily close, once its closes are stated as a set.
