------------------------- MODULE PublicationProofs -------------------------
(***************************************************************************)
(* What is published: notifications and the daily report.                  *)
(*                                                                         *)
(* Notifications implements Outbox, for any number of recipients,          *)
(* revisions and workers; with what OutboxProofs has proved of the outbox, *)
(* its own properties follow.  The proofs about DailyReport come after     *)
(* them: the two components share nothing but this module.                 *)
(***************************************************************************)
EXTENDS Notifications, DailyReport, FiniteSetTheorems, WellFoundedInduction, TLAPS

\* A step that leaves the outbox alone changes what it sees of the
\* configuration or nothing.
LEMMA OutsideStep == UNCHANGED outbox => [OB!Next]_(OB!outboxVars)
<1> SUFFICES ASSUME UNCHANGED outbox PROVE [OB!Next]_(OB!outboxVars)
  OBVIOUS
<1>1. Sendable \in BOOLEAN /\ Sendable' \in BOOLEAN
  BY DEF Sendable
<1>2. CASE Sendable' = Sendable
  BY <1>2 DEF outbox, OB!outboxVars
<1>3. CASE Sendable' = ~Sendable
  BY <1>3 DEF outbox, OB!Next, OB!SendableChanges, OB!workerVars
<1> QED
  BY <1>1, <1>2, <1>3

\* A transaction's intents are enqueued on one of the outbox's channels.
LEMMA EnqueueStep ==
    ASSUME NEW D \in SUBSET AllDeliveries, NEW mode, OB!Enqueue(D, Channel(mode))
    PROVE  OB!Next
<1>1. Channel(mode) \in OB!Channels
  BY DEF Channel, OB!Channels
<1> QED
  BY <1>1, Zenon DEF OB!Next

\* What a publication has read names provisioned users, and there is a revision
\* left for it: only one publication is under way.
Published ==
    /\ active \subseteq Recipients
    /\ current \in 0..MaxRevision
    /\ publisher # Idle => publisher.users \subseteq Recipients /\ current < MaxRevision

\* Nothing has been read at first.
LEMMA InitPublished == Init => Published
BY NotificationsAssumption DEF Init, Published

\* Only the publication that has read goes on to commit.
LEMMA PublishedStep == Published /\ [Next]_vars => Published'
<1> SUFFICES ASSUME Published, [Next]_vars PROVE Published'
  OBVIOUS
<1>1. ASSUME NEW correction \in BOOLEAN, PublishRead(correction) PROVE Published'
  BY <1>1 DEF PublishRead, Published, directory, ledger
<1>2. ASSUME NEW policy \in BOOLEAN, PublishCommit(policy) PROVE Published'
  <2>1. current < MaxRevision /\ current' = current + 1 /\ publisher' = Idle /\ active' = active
    BY <1>2 DEF PublishCommit, Published, directory
  <2> QED
    BY <2>1, NotificationsAssumption DEF Published
<1>3. CASE PublishAbort
  BY <1>3 DEF PublishAbort, Published, directory, ledger
<1>4. ASSUME NEW r \in Recipients, RevokeUser(r) PROVE Published'
  BY <1>4 DEF RevokeUser, Published
<1>5. CASE UNCHANGED <<active, current, publisher>>
  BY <1>5 DEF Published
<1>6. ASSUME \/ RemindersRead \/ RemindersAbort \/ \E old \in SUBSET Recipients : RemindersCommit(old)
             \/ \E new \in Configs : UpdateConfig(new)
             \/ ApprovalChanges \/ Deliver
             \/ \E d \in AllDeliveries : \E callback \in CallbackIds(d) : Acknowledge(d, callback)
             \/ UNCHANGED vars
      PROVE  UNCHANGED <<active, current, publisher>>
  BY <1>6 DEF RemindersRead, RemindersAbort, RemindersCommit, UpdateConfig, ApprovalChanges,
              Deliver, Acknowledge, vars, directory, ledger
<1> QED
  BY <1>1, <1>2, <1>3, <1>4, <1>5, <1>6 DEF Next

\* The initial outbox is empty.
LEMMA InitSimulation == Init => OB!Init
BY DEF Init

\* Every step of a publication, a reminder, an acknowledgement, the directory or
\* a worker is a step of the outbox, or leaves it as it is.
LEMMA StepSimulation == Published /\ [Next]_vars => [OB!Next]_(OB!outboxVars)
<1> SUFFICES ASSUME Published, [Next]_vars PROVE [OB!Next]_(OB!outboxVars)
  OBVIOUS
<1>1. ASSUME NEW correction \in BOOLEAN, PublishRead(correction) PROVE UNCHANGED outbox
  BY <1>1 DEF PublishRead
<1>2. ASSUME NEW policy \in BOOLEAN, PublishCommit(policy) PROVE OB!Next
  <2> DEFINE users == IF approved THEN publisher.users ELSE {}
             channel == Channel(publisher.config.mode)
             D == [revision : {current + 1}, kind : {"original"}, channel : {channel},
                   recipient : Notified(users, publisher.correction, policy)]
  <2>1. current + 1 \in Revisions
    BY <1>2, NotificationsAssumption DEF PublishCommit, Published, Revisions
  <2>2. Notified(users, publisher.correction, policy) \subseteq Recipients
    BY <1>2 DEF PublishCommit, Published, Notified
  <2>3. D \subseteq AllDeliveries
    BY <2>1, <2>2 DEF AllDeliveries, Kinds, Channel
  <2>4. OB!Enqueue(D, channel)
    BY <1>2 DEF PublishCommit
  <2> QED
    BY <2>3, <2>4, EnqueueStep
<1>3. ASSUME PublishAbort \/ RemindersRead \/ RemindersAbort PROVE UNCHANGED outbox
  BY <1>3 DEF PublishAbort, RemindersRead, RemindersAbort
<1>4. ASSUME NEW old \in SUBSET Recipients, RemindersCommit(old) PROVE OB!Next
  BY <1>4, EnqueueStep DEF RemindersCommit
<1>5. ASSUME NEW new \in Configs, UpdateConfig(new) PROVE UNCHANGED outbox
  BY <1>5 DEF UpdateConfig
<1>6. ASSUME NEW r \in Recipients, RevokeUser(r) PROVE UNCHANGED outbox
  BY <1>6 DEF RevokeUser
<1>7. ASSUME ApprovalChanges PROVE UNCHANGED outbox
  BY <1>7 DEF ApprovalChanges
<1>8. ASSUME NEW d \in AllDeliveries, NEW callback \in CallbackIds(d), Acknowledge(d, callback)
      PROVE  OB!Next \/ UNCHANGED outbox
  BY <1>8 DEF Acknowledge, OB!Next
<1>9. ASSUME Deliver PROVE OB!Next
  BY <1>9 DEF Deliver, OB!Next, OB!WorkerStep
<1>10. CASE UNCHANGED vars
  BY <1>10, OutsideStep DEF vars
<1> QED
  BY <1>1, <1>2, <1>3, <1>4, <1>5, <1>6, <1>7, <1>8, <1>9, <1>10, OutsideStep DEF Next

\* Publication, reminders, acknowledgements and administration only use the
\* outbox as it is meant to be used (delivery.py, operations.py): whatever is
\* proved of the outbox holds of the notifications.
THEOREM NotificationsImplementOutbox == Spec => OB!Spec
BY InitPublished, PublishedStep, InitSimulation, StepSimulation, PTL DEF Spec, OB!Spec

\* What is proved of the outbox, for these deliveries.
OBP == INSTANCE OutboxProofs WITH Deliveries <- AllDeliveries, sendable <- Sendable

\* The outbox's assumption on its constants holds.
LEMMA OutboxAssumed == OBP!OutboxAssumption
BY NotificationsAssumption DEF OBP!OutboxAssumption

\* The outbox of OutboxProofs is the outbox of Notifications.
LEMMA SameOutbox ==
    /\ OB!Init <=> OBP!Init
    /\ [OB!Next]_(OB!outboxVars) <=> [OBP!Next]_(OBP!outboxVars)
BY DEF OB!Init, OBP!Init, OB!Next, OBP!Next, OB!outboxVars, OBP!outboxVars, OB!workerVars,
       OBP!workerVars, OB!Channels, OBP!Channels, OB!NoRow, OBP!NoRow, OB!NewRow, OBP!NewRow,
       OB!Enqueue, OBP!Enqueue, OB!Claim, OBP!Claim, OB!MayClaim, OBP!MayClaim, OB!ClaimRevoked,
       OBP!ClaimRevoked, OB!LeaseLive, OBP!LeaseLive, OB!Goto, OBP!Goto, OB!Conclude,
       OBP!Conclude, OB!CheckPoints, OBP!CheckPoints, OB!Authorize, OBP!Authorize,
       OB!AuthorizationRefused, OBP!AuthorizationRefused, OB!Reserve, OBP!Reserve, OB!DryRunSend,
       OBP!DryRunSend, OB!GetToken, OBP!GetToken, OB!PermanentFailure, OBP!PermanentFailure,
       OB!TransientFailure, OBP!TransientFailure, OB!Unclassified, OBP!Unclassified, OB!Post,
       OBP!Post, OB!Outcomes, OBP!Outcomes, OB!Classify, OBP!Classify, OB!Proves, OBP!Proves,
       OB!Respond, OBP!Respond, OB!Leave, OBP!Leave, OB!OwnsLease, OBP!OwnsLease, OB!FinalState,
       OBP!FinalState, OB!Finish, OBP!Finish, OB!FencedOut, OBP!FencedOut, OB!Crash, OBP!Crash,
       OB!Expired, OBP!Expired, OB!RecoverDeliveries, OBP!RecoverDeliveries, OB!Acked, OBP!Acked,
       OB!LeaseExpires, OBP!LeaseExpires, OB!BackoffElapses, OBP!BackoffElapses,
       OB!SendableChanges, OBP!SendableChanges, OB!SendStep, OBP!SendStep, OB!WorkerStep,
       OBP!WorkerStep, OB!Claimable, OBP!Claimable

\* The steps that serve the outbox insert nothing into it.
LEMMA ServingStep ==
    ASSUME Deliver
    PROVE  OBP!Serves
BY DEF Deliver, OBP!Serves, OBP!outboxVars, OB!workerVars, OBP!workerVars, OB!Claim, OBP!Claim,
       OB!MayClaim, OBP!MayClaim, OB!ClaimRevoked, OBP!ClaimRevoked, OB!LeaseLive, OBP!LeaseLive,
       OB!Goto, OBP!Goto, OB!Conclude, OBP!Conclude, OB!CheckPoints, OBP!CheckPoints,
       OB!Authorize, OBP!Authorize, OB!AuthorizationRefused, OBP!AuthorizationRefused, OB!Reserve,
       OBP!Reserve, OB!DryRunSend, OBP!DryRunSend, OB!GetToken, OBP!GetToken, OB!PermanentFailure,
       OBP!PermanentFailure, OB!TransientFailure, OBP!TransientFailure, OB!Unclassified,
       OBP!Unclassified, OB!Post, OBP!Post, OB!Outcomes, OBP!Outcomes, OB!Classify, OBP!Classify,
       OB!Proves, OBP!Proves, OB!Respond, OBP!Respond, OB!Leave, OBP!Leave, OB!OwnsLease,
       OBP!OwnsLease, OB!FinalState, OBP!FinalState, OB!Finish, OBP!Finish, OB!FencedOut,
       OBP!FencedOut, OB!Crash, OBP!Crash, OB!Expired, OBP!Expired, OB!RecoverDeliveries,
       OBP!RecoverDeliveries, OB!Acked, OBP!Acked, OB!LeaseExpires, OBP!LeaseExpires,
       OB!BackoffElapses, OBP!BackoffElapses, OB!SendStep, OBP!SendStep, OBP!WorkerStep,
       OB!Claimable, OBP!Claimable

\* What a step does to one row.  Only publications make originals, and only
\* reminder ticks make reminders, each on its own channel.
Inserted(d) ==
    /\ rows'[d].channel = d.channel
    /\ \/ d.kind = "original" /\ d.revision = current'
       \/ \E old \in SUBSET Recipients :
            /\ RemindersCommit(old)
            /\ d.kind = "reminder" /\ d.channel = Channel(config.mode)
            /\ d.recipient \in Remindable(d.revision)

\* A row comes from such an insertion and keeps its channel.
LEMMA RowOrigin ==
    ASSUME OBP!IInv, [Next]_vars, NEW d \in AllDeliveries
    PROVE  \/ /\ rows'[d].channel = rows[d].channel
              /\ rows[d].state = "absent" => rows'[d].state = "absent"
           \/ (rows[d].state = "absent" /\ Inserted(d))
<1>1. ASSUME Deliver \/ (\E e \in AllDeliveries : OB!Acked(e))
      PROVE  /\ rows'[d].channel = rows[d].channel
             /\ rows[d].state = "absent" => rows'[d].state = "absent"
  <2>1. ASSUME NEW e \in AllDeliveries, OB!Acked(e) PROVE OBP!Acked(e)
    BY <2>1 DEF OB!Acked, OBP!Acked, OB!workerVars, OBP!workerVars
  <2> QED
    BY <1>1, <2>1, ServingStep, OutboxAssumed, OBP!ServedRow
<1>2. ASSUME NEW D \in SUBSET AllDeliveries, NEW mode, OB!Enqueue(D, Channel(mode))
      PROVE  \/ rows'[d] = rows[d]
             \/ /\ rows[d].state = "absent"
                /\ rows'[d].channel = Channel(mode) /\ d \in D
  <2>1. rows'[d] = IF d \in D THEN OB!NewRow(Channel(mode)) ELSE rows[d]
    BY <1>2, Zenon DEF OB!Enqueue
  <2>2. d \in D => rows[d].state = "absent"
    BY <1>2, Zenon DEF OB!Enqueue
  <2>3. OB!NewRow(Channel(mode)).channel = Channel(mode)
    BY DEF OB!NewRow
  <2> QED
    BY <2>1, <2>2, <2>3
<1>3. ASSUME NEW policy \in BOOLEAN, PublishCommit(policy)
      PROVE  rows'[d] = rows[d] \/ (rows[d].state = "absent" /\ Inserted(d))
  <2> DEFINE channel == Channel(publisher.config.mode)
             told == Notified(IF approved THEN publisher.users ELSE {}, publisher.correction, policy)
             D == [revision : {current + 1}, kind : {"original"}, channel : {channel},
                   recipient : told] \cap AllDeliveries
  <2>1. OB!Enqueue([revision : {current + 1}, kind : {"original"}, channel : {channel},
                   recipient : told], channel)
    BY <1>3 DEF PublishCommit
  <2>2. OB!Enqueue(D, channel)
    BY <2>1, Zenon DEF OB!Enqueue
  <2>3. d \in D => d.kind = "original" /\ d.channel = channel /\ d.revision = current + 1
    OBVIOUS
  <2>4. current' = current + 1
    BY <1>3 DEF PublishCommit
  <2> QED
    BY <1>2, <2>2, <2>3, <2>4 DEF Inserted
<1>4. ASSUME NEW old \in SUBSET Recipients, RemindersCommit(old)
      PROVE  rows'[d] = rows[d] \/ (rows[d].state = "absent" /\ Inserted(d))
  <2> DEFINE channel == Channel(config.mode)
             D == {e \in AllDeliveries : /\ e.kind = "reminder" /\ e.channel = channel
                                         /\ e.recipient \in old \cap Remindable(e.revision)}
  <2>1. OB!Enqueue(D, channel)
    BY <1>4 DEF RemindersCommit
  <2>2. d \in D => /\ d.kind = "reminder" /\ d.channel = channel
                   /\ d.recipient \in Remindable(d.revision)
    OBVIOUS
  <2> QED
    BY <1>2, <1>4, <2>1, <2>2 DEF Inserted
<1>5. ASSUME \/ \E correction \in BOOLEAN : PublishRead(correction)
             \/ PublishAbort \/ RemindersRead \/ RemindersAbort
             \/ \E new \in Configs : UpdateConfig(new)
             \/ \E r \in Recipients : RevokeUser(r)
             \/ ApprovalChanges \/ UNCHANGED vars
      PROVE  rows' = rows
  BY <1>5 DEF PublishRead, PublishAbort, RemindersRead, RemindersAbort, UpdateConfig, RevokeUser,
              ApprovalChanges, vars, outbox
<1>6. ASSUME NEW e \in AllDeliveries, NEW callback \in CallbackIds(e), Acknowledge(e, callback)
      PROVE  rows' = rows \/ OB!Acked(e)
  BY <1>6 DEF Acknowledge, outbox
<1> QED
  BY <1>1, <1>3, <1>4, <1>5, <1>6 DEF Next

\* A row is of its delivery's own channel; what was acknowledged is recorded so.
Recorded ==
    /\ \A d \in AllDeliveries : rows[d].state # "absent" => rows[d].channel = d.channel
    /\ \A ack \in acks : /\ ack.delivery \in AllDeliveries
                         /\ rows[ack.delivery].state \in {"acked", "dry_run"}

\* A row's state follows the life cycle of a delivery.
LEMMA LifeCycle ==
    ASSUME OBP!IInv, Published, [Next]_vars, NEW d \in AllDeliveries
    PROVE  OBP!RowStep(rows[d].state, rows'[d].state)
BY StepSimulation, SameOutbox, OutboxAssumed, OBP!RowLifeCycle

\* Acknowledged rows stay acknowledged, and rows on their channel.
LEMMA RecordedStep ==
    OBP!IInv /\ Published /\ Recorded /\ [Next]_vars => Recorded'
<1> SUFFICES ASSUME OBP!IInv, Published, Recorded, [Next]_vars PROVE Recorded'
  OBVIOUS
<1>1. ASSUME NEW d \in AllDeliveries, rows'[d].state # "absent"
      PROVE  rows'[d].channel = d.channel
  BY <1>1, RowOrigin DEF Recorded, Inserted
<1>2. ASSUME NEW d \in AllDeliveries, rows[d].state \in {"acked", "dry_run"}
      PROVE  rows'[d].state \in {"acked", "dry_run"}
  BY <1>2, LifeCycle DEF OBP!RowStep, OBP!Claimable
<1>3. ASSUME NEW d \in AllDeliveries, NEW callback \in CallbackIds(d), Acknowledge(d, callback)
      PROVE  /\ acks' = acks \cup {[delivery |-> d, callback |-> callback]}
             /\ rows'[d].state \in {"acked", "dry_run"}
  <2>1. acks' = acks \cup {[delivery |-> d, callback |-> callback]}
    BY <1>3 DEF Acknowledge
  <2>2. CASE rows[d].state = "accepted"
    <3>1. OB!Acked(d)
      BY <1>3, <2>2 DEF Acknowledge
    <3>2. rows'[d].state = "acked"
      BY <3>1 DEF OB!Acked, OBP!IInv, OBP!TypeOK, OBP!Rows
    <3> QED
      BY <2>1, <3>2
  <2>3. CASE rows[d].state \in {"acked", "dry_run"}
    BY <1>2, <2>1, <2>3
  <2> QED
    BY <1>3, <2>2, <2>3 DEF Acknowledge
<1>4. ASSUME NEW ack \in acks' PROVE /\ ack.delivery \in AllDeliveries
                                     /\ rows'[ack.delivery].state \in {"acked", "dry_run"}
  <2>1. CASE ack \in acks
    BY <1>2, <2>1 DEF Recorded
  <2>2. CASE ack \notin acks
    <3>1. acks' # acks
      BY <1>4, <2>2
    <3>2. PICK d \in AllDeliveries : \E callback \in CallbackIds(d) : Acknowledge(d, callback)
      BY <3>1 DEF Next, vars, directory, ledger, PublishRead, PublishCommit, PublishAbort,
         RemindersRead, RemindersCommit, RemindersAbort, UpdateConfig, RevokeUser,
         ApprovalChanges, Deliver
    <3>3. PICK callback \in CallbackIds(d) : Acknowledge(d, callback)
      BY <3>2
    <3> QED
      BY <1>3, <1>4, <2>2, <3>3
  <2> QED
    BY <2>1, <2>2
<1> QED
  BY <1>1, <1>4 DEF Recorded

\* The invariants of the outbox, carried over to Notifications.
LEMMA Carried == Spec => [](OBP!IInv /\ OBP!DryRunsAreDry /\ Published /\ Recorded)
<1>1. Init => Recorded
  BY DEF Init, Recorded, OB!Init, OB!NoRow
<1>2. OBP!Init => OBP!IInv /\ OBP!DryRunsAreDry
  <2>1. OBP!Init => OBP!DryRunsAreDry
    BY DEF OBP!Init, OBP!NoRow, OBP!DryRunsAreDry
  <2> QED
    BY <2>1, OutboxAssumed, OBP!InitIInv
<1>3. OBP!IInv /\ OBP!DryRunsAreDry /\ [OBP!Next]_(OBP!outboxVars)
      => (OBP!IInv /\ OBP!DryRunsAreDry)'
  BY OutboxAssumed, OBP!StepIInv, OBP!DryRunStep
<1> QED
  BY <1>1, <1>2, <1>3, InitPublished, PublishedStep, InitSimulation, StepSimulation, SameOutbox,
     RecordedStep, PTL DEF Spec

\* No notification and no reminder of any revision reaches its recipient twice over
\* a channel, and its row tells the truth of it, whatever administrators, retries
\* and recovery do (send_pending).
THEOREM NoNotificationTwice == Spec => [](OB!AtMostOneArrival /\ OB!RowsTellTheTruth)
<1>1. OBP!IInv => OB!AtMostOneArrival /\ OB!RowsTellTheTruth
  BY DEF OBP!IInv, OBP!AtMostOneArrival, OB!AtMostOneArrival, OBP!RowsTellTheTruth,
         OB!RowsTellTheTruth, OBP!Undelivered, OB!Undelivered
<1> QED
  BY <1>1, Carried, PTL

\* For any numbers of recipients, revisions and workers, every recorded
\* acknowledgement is of a message that was delivered (acknowledge).
THEOREM OnlyDeliveredIsAcked == Spec => []AcksOfDelivered
<1>1. OBP!IInv /\ OBP!DryRunsAreDry /\ Recorded => AcksOfDelivered
  BY DEF OBP!IInv, OBP!RowsTellTheTruth, OBP!DryRunsAreDry, Recorded, AcksOfDelivered
<1> QED
  BY <1>1, Carried, PTL

\* For any numbers of recipients, revisions and workers, a recipient is reminded
\* of a revision once, and not before the revision was delivered
\* (create_due_reminders).
THEOREM OneReminder == Spec => []RemindedOnceAfterDelivery
<1>1. Init => RemindedOnceAfterDelivery
  BY DEF Init, RemindedOnceAfterDelivery, Exists, OB!Init, OB!NoRow
<1>2. ASSUME OBP!IInv, Published, RemindedOnceAfterDelivery, [Next]_vars
      PROVE  RemindedOnceAfterDelivery'
  <2> DEFINE Old(d) == d.kind = "reminder" /\ rows[d].state # "absent"
             New(d) == d.kind = "reminder" /\ rows'[d].state # "absent"
             Done(d) == \E e \in AllDeliveries :
                          /\ e.kind = "original"
                          /\ e.revision = d.revision /\ e.recipient = d.recipient
                          /\ rows[e].state \in {"accepted", "acked", "dry_run"}
  <2>1. ASSUME NEW d \in AllDeliveries, rows[d].state \in {"accepted", "acked", "dry_run"}
        PROVE  rows'[d].state \in {"accepted", "acked", "dry_run"}
    BY <1>2, <2>1, LifeCycle DEF OBP!RowStep, OBP!Claimable
  <2>2. ASSUME NEW d \in AllDeliveries, New(d), ~Old(d)
        PROVE  /\ d.channel = Channel(config.mode)
               /\ Done(d)
               /\ \A e \in AllDeliveries :
                    Old(e) /\ e.revision = d.revision /\ e.recipient = d.recipient => FALSE
    <3>1. d.channel = Channel(config.mode) /\ d.recipient \in Remindable(d.revision)
      BY <1>2, <2>2, RowOrigin DEF Inserted
    <3> QED
      BY <3>1 DEF Remindable, OriginalAwaitsAck, Reminded, Exists
  <2>3. ASSUME NEW d \in AllDeliveries, Old(d)
        PROVE  /\ Done(d)
               /\ \A e \in AllDeliveries :
                    Old(e) /\ e.revision = d.revision /\ e.recipient = d.recipient => e = d
    BY <1>2, <2>3 DEF RemindedOnceAfterDelivery, Exists
  <2>4. ASSUME NEW d \in AllDeliveries, New(d),
               NEW e \in AllDeliveries, New(e),
               e.revision = d.revision, e.recipient = d.recipient
        PROVE  e = d
    <3>1. CASE Old(d) /\ Old(e)
      BY <2>3, <2>4, <3>1
    <3>2. CASE ~Old(d) /\ ~Old(e)
      <4>1. d.channel = e.channel /\ d.kind = e.kind
        BY <2>2, <2>4, <3>2
      <4> QED
        BY <2>4, <4>1 DEF AllDeliveries
    <3> QED
      BY <2>2, <2>4, <3>1, <3>2
  <2>5. ASSUME NEW d \in AllDeliveries, New(d) PROVE Done(d)
    BY <2>2, <2>3, <2>5
  <2> QED
    BY <2>1, <2>4, <2>5 DEF RemindedOnceAfterDelivery, Exists
<1> QED
  BY <1>1, <1>2, Carried, PTL DEF Spec

\* For any numbers of recipients, revisions and workers, an acknowledgement
\* changes no authorization of another revision or recipient (acknowledge).
THEOREM AcksAreConfined == Spec => AcksStayInTheirRevision
<1>1. ASSUME [Next]_vars, NEW ack \in acks' \ acks, NEW d \in AllDeliveries,
             ~(d.revision = ack.delivery.revision /\ d.recipient = ack.delivery.recipient)
      PROVE  LiveGrant(d)' = LiveGrant(d)
  <2>1. acks' # acks
    BY <1>1
  <2>2. PICK e \in AllDeliveries : \E callback \in CallbackIds(e) : Acknowledge(e, callback)
    BY <1>1, <2>1 DEF Next, vars, directory, ledger, PublishRead, PublishCommit, PublishAbort,
       RemindersRead, RemindersCommit, RemindersAbort, UpdateConfig, RevokeUser,
       ApprovalChanges, Deliver
  <2>3. PICK callback \in CallbackIds(e) : Acknowledge(e, callback)
    BY <2>2
  <2>4. acks' = acks \cup {[delivery |-> e, callback |-> callback]} /\ UNCHANGED <<directory, grants>>
    BY <2>3 DEF Acknowledge
  <2>5. ack = [delivery |-> e, callback |-> callback]
    BY <1>1, <2>4
  <2>6. AckedBy(d.revision, d.recipient)' <=> AckedBy(d.revision, d.recipient)
    BY <1>1, <2>4, <2>5 DEF AckedBy
  <2> QED
    BY <2>4, <2>6 DEF LiveGrant, Grant, directory
<1>2. [Next]_vars =>
        [\A ack \in acks' \ acks, d \in AllDeliveries :
           \/ /\ d.revision = ack.delivery.revision
              /\ d.recipient = ack.delivery.recipient
           \/ LiveGrant(d)' = LiveGrant(d)]_vars
  BY <1>1
<1> QED
  BY <1>2, PTL DEF Spec, AcksStayInTheirRevision

\* A row is of a revision that has been published.
RevisionsOfRows == \A d \in AllDeliveries : rows[d].state # "absent" => d.revision <= current

\* Publications and reminders are of the current revision, which grows.
LEMMA RevisionsStep == OBP!IInv /\ Published /\ RevisionsOfRows /\ [Next]_vars => RevisionsOfRows'
<1> SUFFICES ASSUME OBP!IInv, Published, RevisionsOfRows, [Next]_vars,
                    NEW d \in AllDeliveries, rows'[d].state # "absent"
             PROVE  d.revision <= current'
  BY DEF RevisionsOfRows
<1>1. current' \in Nat /\ current \in Nat /\ current' >= current /\ d.revision \in Nat
  <2>1. current' = current \/ current' = current + 1
    BY DEF Next, vars, directory, ledger, PublishRead, PublishCommit, PublishAbort,
       RemindersRead, RemindersCommit, RemindersAbort, UpdateConfig, RevokeUser,
       ApprovalChanges, Deliver, Acknowledge
  <2>2. current \in Nat
    BY NotificationsAssumption DEF Published
  <2> QED
    BY <2>1, <2>2, NotificationsAssumption DEF AllDeliveries, Revisions
<1>2. CASE rows[d].state # "absent"
  BY <1>1, <1>2 DEF RevisionsOfRows
<1>3. CASE rows[d].state = "absent"
  <2>1. d.recipient \in Remindable(d.revision) => d.revision = current
    BY Zenon DEF Remindable
  <2>2. Inserted(d)
    BY <1>3, RowOrigin
  <2> QED
    BY <1>1, <2>1, <2>2 DEF Inserted
<1> QED
  BY <1>2, <1>3

\* The last check of the authorization is passed only while the delivery is
\* authorized.
LEMMA LastCheck ==
    ASSUME OBP!IInv, [Next]_vars, NEW w \in Workers, pc'[w] = "cleared"
    PROVE  /\ claim'[w] = claim[w]
           /\ pc[w] = "cleared" \/ LiveGrant(claim[w])
<1> DEFINE Goal == claim'[w] = claim[w] /\ (pc[w] = "cleared" \/ LiveGrant(claim[w]))
<1> USE DEF OB!workerVars, OBP!IInv, OBP!TypeOK
<1>1. ASSUME NEW v \in Workers, NEW d \in AllDeliveries, OB!Claim(v, d) PROVE Goal
  BY <1>1 DEF OB!Claim
<1>2. ASSUME NEW v \in Workers, OB!Authorize(v), LiveGrant(claim[v]) PROVE Goal
  BY <1>2 DEF OB!Authorize, OB!Goto
<1>3. ASSUME NEW v \in Workers, OB!AuthorizationRefused(v) \/ OB!SendStep(v) \/ OB!Crash(v) PROVE Goal
  BY <1>3 DEF OB!AuthorizationRefused, OB!SendStep, OB!Crash, OB!Leave, OB!Goto, OB!Conclude,
     OB!Reserve, OB!DryRunSend, OB!GetToken, OB!PermanentFailure, OB!TransientFailure,
     OB!Unclassified, OB!Post, OB!Respond, OB!Finish, OB!FencedOut
<1>4. ASSUME UNCHANGED OB!workerVars PROVE Goal
  BY <1>4
<1>5. ASSUME Deliver PROVE Goal
  BY <1>1, <1>2, <1>3, <1>4, <1>5 DEF Deliver, OB!ClaimRevoked, OB!RecoverDeliveries,
     OB!LeaseExpires, OB!BackoffElapses
<1>6. ASSUME [Next]_vars, ~Deliver PROVE UNCHANGED OB!workerVars
  BY <1>6 DEF Next, vars, outbox, PublishRead, PublishCommit, PublishAbort, RemindersRead,
     RemindersCommit, RemindersAbort, UpdateConfig, RevokeUser, ApprovalChanges, Acknowledge,
     OB!Enqueue, OB!Acked
<1> QED
  BY <1>4, <1>5, <1>6

\* Only a worker that has passed the last check makes a message arrive.
LEMMA Arrival ==
    ASSUME OBP!IInv, [Next]_vars, NEW d \in AllDeliveries, arrived'[d] # arrived[d]
    PROVE  \E w \in Workers : claim[w] = d /\ pc[w] = "cleared"
<1> USE DEF OB!workerVars, OBP!IInv, OBP!TypeOK
<1>1. ASSUME NEW w \in Workers, OB!Post(w) PROVE claim[w] = d /\ pc[w] = "cleared"
  BY <1>1 DEF OB!Post
<1>2. ASSUME NEW w \in Workers, OB!SendStep(w), ~OB!Post(w) PROVE FALSE
  BY <1>2 DEF OB!SendStep, OB!Leave, OB!Goto, OB!Conclude,
     OB!Reserve, OB!DryRunSend, OB!GetToken, OB!PermanentFailure, OB!TransientFailure,
     OB!Unclassified, OB!Respond, OB!Finish, OB!FencedOut
<1>3. ASSUME Deliver PROVE \E w \in Workers : OB!Post(w)
  BY <1>2, <1>3 DEF Deliver, OB!Claim, OB!ClaimRevoked, OB!Authorize, OB!Goto,
     OB!AuthorizationRefused, OB!Conclude, OB!Crash, OB!RecoverDeliveries, OB!LeaseExpires,
     OB!BackoffElapses
<1>4. ASSUME [Next]_vars, ~Deliver PROVE FALSE
  BY <1>4 DEF Next, vars, outbox, PublishRead, PublishCommit, PublishAbort, RemindersRead,
     RemindersCommit, RemindersAbort, UpdateConfig, RevokeUser, ApprovalChanges, Acknowledge,
     OB!Enqueue, OB!Acked
<1> QED
  BY <1>1, <1>3, <1>4

\* What silences a delivery is never taken back.
Unauthorized(d) ==
    \/ Grant(d).status = "inactive"
    \/ d.recipient \notin active
    \/ d.kind = "reminder" /\ AckedBy(d.revision, d.recipient)

\* No step authorizes again: a grant is written once, for a new revision.
LEMMA StaysUnauthorized ==
    ASSUME Published, [Next]_vars, NEW d \in AllDeliveries, d.revision <= current, Unauthorized(d),
           DOMAIN grants = Revisions \X Recipients
    PROVE  Unauthorized(d)'
<1> DEFINE g == <<d.revision, d.recipient>>
<1>0. g \in DOMAIN grants /\ d.revision \in Nat /\ current \in Nat
  BY NotificationsAssumption DEF AllDeliveries, Published, Revisions
<1>1. active' \subseteq active
  BY DEF Next, vars, directory, ledger, PublishRead, PublishCommit, PublishAbort,
     RemindersRead, RemindersCommit, RemindersAbort, UpdateConfig, RevokeUser,
     ApprovalChanges, Deliver, Acknowledge
<1>2. acks \subseteq acks'
  BY DEF Next, vars, directory, ledger, PublishRead, PublishCommit, PublishAbort,
     RemindersRead, RemindersCommit, RemindersAbort, UpdateConfig, RevokeUser,
     ApprovalChanges, Deliver, Acknowledge
<1>3. grants[g].status = "inactive" => grants'[g].status = "inactive"
  <2>1. ASSUME NEW removed, NEW keep, grants' = RestrictGrants(removed, keep)
        PROVE  grants[g].status = "inactive" => grants'[g].status = "inactive"
    <3> DEFINE status == IF g[2] \in removed /\ grants[g].status = "active" THEN "inactive"
                         ELSE grants[g].status
               reminded == grants[g].reminders /\ keep
    <3>1. grants'[g] = [status |-> status, reminders |-> reminded]
      BY <1>0, <2>1, Zenon DEF RestrictGrants
    <3>2. grants[g].status = "inactive" => status = "inactive"
      OBVIOUS
    <3> HIDE DEF status, reminded
    <3>3. grants'[g].status = status
      BY <3>1
    <3> QED
      BY <3>2, <3>3
  <2>2. ASSUME NEW policy \in BOOLEAN, PublishCommit(policy) PROVE grants'[g] = grants[g]
    <3>1. g[1] # current + 1
      BY <1>0
    <3>2. grants' = [h \in DOMAIN grants |->
                       IF h[1] = current + 1 /\ h[2] \in (IF approved THEN publisher.users ELSE {})
                       THEN [status |-> "active", reminders |-> publisher.config.reminders]
                       ELSE grants[h]]
      BY <2>2, Zenon DEF PublishCommit
    <3> QED
      BY <1>0, <3>1, <3>2, Zenon
  <2>3. ASSUME ~\E policy \in BOOLEAN : PublishCommit(policy),
               ~\E removed, keep : grants' = RestrictGrants(removed, keep)
        PROVE  grants' = grants
    BY <2>3 DEF Next, vars, directory, ledger, PublishRead, PublishAbort,
     RemindersRead, RemindersCommit, RemindersAbort, UpdateConfig, RevokeUser,
     ApprovalChanges, Deliver, Acknowledge
  <2> QED
    BY <2>1, <2>2, <2>3
<1> QED
  BY <1>1, <1>2, <1>3 DEF Unauthorized, Grant, AckedBy

\* The tables the check reads keep their shape.
LEMMA GrantsStep ==
    DOMAIN grants = Revisions \X Recipients /\ [Next]_vars
        => (DOMAIN grants = Revisions \X Recipients)'
BY DEF Next, vars, directory, ledger, PublishRead, PublishCommit, PublishAbort,
       RemindersRead, RemindersCommit, RemindersAbort, UpdateConfig, RevokeUser,
       ApprovalChanges, Deliver, Acknowledge, RestrictGrants

\* For any numbers of recipients, revisions and workers, a delivery that loses its
\* authorization before the last check of it never leaves (authorize_intent).
THEOREM RevokedIsNotSent == Spec => SilencedStaysSilent
<1> DEFINE Shape == RevisionsOfRows /\ DOMAIN grants = Revisions \X Recipients
<1>1. Init => Shape
  BY DEF Init, RevisionsOfRows, OB!Init, OB!NoRow
<1>2. OBP!IInv /\ Published /\ Shape /\ [Next]_vars => Shape'
  BY RevisionsStep, GrantsStep
<1>3. ASSUME OBP!IInv, Published, Shape, [Next]_vars, NEW d \in AllDeliveries, Silenced(d)
      PROVE  Silenced(d)'
  <2>1. rows[d].state # "absent" /\ Unauthorized(d) /\ arrived[d] = {}
    BY <1>3 DEF Silenced, Exists, Unauthorized
  <2>2. \A w \in Workers : claim[w] = d => pc[w] # "cleared"
    BY <1>3 DEF Silenced, AboutToPost
  <2>3. rows'[d].state # "absent"
    BY <1>3, <2>1, LifeCycle DEF OBP!RowStep, OBP!Claimable, OBP!Results
  <2>4. Unauthorized(d)'
    BY <1>3, <2>1, StaysUnauthorized DEF RevisionsOfRows
  <2>5. arrived'[d] = {}
    BY <1>3, <2>1, <2>2, Arrival
  <2>6. ASSUME NEW w \in Workers, claim'[w] = d PROVE pc'[w] # "cleared"
    <3>1. ~LiveGrant(d)
      BY <2>1 DEF Unauthorized, LiveGrant
    <3> QED
      BY <1>3, <2>2, <2>6, <3>1, LastCheck
  <2> QED
    BY <2>3, <2>4, <2>5, <2>6 DEF Silenced, Exists, Unauthorized, AboutToPost
<1>4. OBP!IInv /\ Published /\ Shape /\ [Next]_vars =>
        [\A d \in AllDeliveries : Silenced(d) => Silenced(d)']_vars
  BY <1>3
<1> QED
  BY <1>1, <1>2, <1>4, Carried, PTL DEF Spec, SilencedStaysSilent

-----------------------------------------------------------------------------
(* The daily report, for any news, files and builds.  A report is current  *)
(* because every record it did not read was stored at or after its cutoff: *)
(* that is what CompleteTo says of a snapshot, and it stays true whatever  *)
(* is stored while the build goes on, since nothing is stored in the past  *)
(* (Past, Onward).  CurrentTo and UndisputedTo say of a report in the      *)
(* making what the properties say of the committed one.                    *)

Story == [state : {"absent", "pending", "done", "failed", "quarantined"},
          quality : {"valid", "future_quarantined"}, discovered : Nat]

Quote == [state : {"absent", "stored"}, quality : {"valid", "future_quarantined"},
          discovered : Nat, stored : Nat]

PreviewRow == [state : {"none", "open", "imported", "expired"}, file : Files \cup {"none"},
               discovered : Nat, inserted : Nat]

\* A build, and a report, have their five parts.
IsBuild(x) == x = [step |-> x.step, cutoff |-> x.cutoff, records |-> x.records,
                   events |-> x.events, content |-> x.content]

ReportTypes ==
    /\ clock \in Nat
    /\ news \in [NewsKeys -> Story] /\ quotes \in [Rows -> Quote]
    /\ previews \in [Previews -> PreviewRow]
    /\ DOMAIN builder = Builders
    /\ \A b \in Builders : /\ IsBuild(builder[b])
                           /\ builder[b].step \in BuildSteps /\ builder[b].cutoff \in Nat
                           /\ builder[b].content.cutoff \in Nat
    /\ report.cutoff \in Nat

\* Nothing has happened later than now.
Past ==
    /\ \A k \in NewsKeys : news[k].discovered <= clock
    /\ \A r \in Rows : quotes[r].discovered <= quotes[r].stored /\ quotes[r].stored <= clock
    /\ \A p \in Previews :
         /\ previews[p].discovered <= clock
         /\ previews[p].state = "open" => previews[p].file \in Files
    /\ \A b \in Builders : builder[b].cutoff <= clock /\ builder[b].content.cutoff <= clock
    /\ report.cutoff <= clock

\* What was read of the records up to a cutoff holds every usable one that was
\* stored before it, whatever has been stored since.
CompleteTo(records, cutoff) ==
    /\ \A r \in records : \/ r.id \in NewsIds /\ r.rev \in Nat
                          \/ \E q \in StoredQuotes : r = QuoteRecord(q)
    /\ \A n \in NewsKeys : news[n].state \in {"pending", "done"} /\ news[n].discovered < cutoff =>
           \E r \in records : r.id = n[1] /\ r.rev = n[2] /\ r.discovered <= cutoff
    /\ \A q \in StoredQuotes : quotes[q].quality = "valid" /\ quotes[q].stored < cutoff =>
           QuoteRecord(q) \in records

\* What the facts of a report rest on is current as of its cutoff.
CurrentTo(content) ==
    \A k \in content.facts \cup content.impacts, n \in NewsKeys :
        /\ n[1] = k[1] /\ n[2] > k[2]
        /\ news[n].state \in {"pending", "done"}
        => news[n].discovered >= content.cutoff

\* The quotes that a stated change is to be measured against.
Comparable(compared, cutoff) ==
    {o \in Grounded({Observation(q) : q \in {r \in StoredQuotes : quotes[r].stored < cutoff \/ r \in compared}},
                    {QuoteRecord(r) : r \in StoredQuotes}, cutoff) :
        \E r \in compared : ComparisonKey(o) = ComparisonKey(Observation(r))}

UndisputedTo(content) ==
    \A c \in content.changes : c.verdict = "change" =>
        /\ c.rows \subseteq StoredQuotes
        /\ c.delta \in TrueChange(Comparable(c.rows, content.cutoff))

\* What the builds have read and not yet used.
Snapshots == {<<builder[b].records, builder[b].cutoff>> :
                  b \in {c \in Builders : builder[c].step \in {"records", "events"}}}

ReportInv ==
    /\ ReportTypes /\ Past
    /\ \A s \in Snapshots : CompleteTo(s[1], s[2])
    /\ \A content \in Contents : CurrentTo(content) /\ UndisputedTo(content)

\* Only an import has inserted anything.
ImportsInv ==
    /\ ImportsAddUp
    /\ \A p \in Previews : previews[p].state # "imported" => previews[p].inserted = 0

\* What a step may do to what has been stored: nothing is moved into the past.
Onward ==
    /\ clock <= clock'
    /\ \A n \in NewsKeys : news'[n].state \in {"pending", "done"} =>
           \/ news[n].state \in {"pending", "done"} /\ news'[n].discovered = news[n].discovered
           \/ news'[n].discovered = clock
    /\ \A q \in Rows : \/ quotes'[q] = quotes[q]
                       \/ quotes[q].state = "absent" /\ quotes'[q].stored = clock

-----------------------------------------------------------------------------
(* Sums over a finite set, as MapThenSumSet computes them.                  *)

\* F gives the sum of g over every part of S.
Adds(F, g, S) ==
    F = [s \in SUBSET S |-> IF s = {} THEN 0
                            ELSE g[CHOOSE x \in s : TRUE] + F[s \ {CHOOSE x \in s : TRUE}]]

\* What holds of zero and of each successor holds of every number.
LEMMA EveryNumber ==
    ASSUME NEW S, 0 \in S, \A n \in Nat : n \in S => n + 1 \in S
    PROVE  Nat \subseteq S
<1> DEFINE below == OpToRel(<, Nat)
           T == {n \in Nat : n \notin S}
<1>1. \A x, y \in Nat : <<x, y>> \in below <=> x < y
  BY DEF OpToRel
<1>2. IsWellFoundedOn(below, Nat)
  BY NatLessThanWellFounded
<1> HIDE DEF below
<1> SUFFICES ASSUME T # {} PROVE FALSE
  OBVIOUS
<1>3. PICK m \in T : \A y \in T : <<y, m>> \notin below
  BY <1>2, WFMin
<1>4. m \in Nat /\ m # 0 /\ m \notin S
  OBVIOUS
<1>5. m - 1 \in Nat /\ m - 1 < m /\ (m - 1) + 1 = m
  BY <1>4
<1>6. m - 1 \in S
  BY <1>1, <1>3, <1>4, <1>5
<1> QED
  BY <1>4, <1>5, <1>6

\* Taking an element out of a part makes a smaller part.
LEMMA SmallerPart ==
    ASSUME NEW S, IsFiniteSet(S), NEW s \in SUBSET S, s # {}
    PROVE  LET x == CHOOSE y \in s : TRUE
           IN  /\ x \in s /\ x \in S /\ s \ {x} \in SUBSET S
               /\ Cardinality(s) \in Nat /\ Cardinality(s \ {x}) \in Nat
               /\ Cardinality(s \ {x}) = Cardinality(s) - 1
<1> DEFINE x == CHOOSE y \in s : TRUE
<1>1. x \in s
  OBVIOUS
<1> HIDE DEF x
<1>2. IsFiniteSet(s) /\ s \ {x} \in SUBSET S
  BY FS_Subset
<1>3. IsFiniteSet(s \ {x}) /\ Cardinality(s \ {x}) = Cardinality(s) - 1
  BY <1>1, <1>2, FS_RemoveElement
<1>4. Cardinality(s) \in Nat /\ Cardinality(s \ {x}) \in Nat
  BY <1>2, <1>3, FS_CardinalityType
<1> QED
  BY <1>1, <1>2, <1>3, <1>4 DEF x

\* The sums exist: those of the parts of at most n + 1 elements come from those of
\* the parts of at most n.
LEMMA SumsExist ==
    ASSUME NEW S, IsFiniteSet(S), NEW g
    PROVE  \E F : Adds(F, g, S)
<1> DEFINE pick(s) == CHOOSE x \in s : TRUE
           Small(n) == {s \in SUBSET S : Cardinality(s) <= n}
           Partial(F, n) == \A s \in Small(n) :
                                F[s] = IF s = {} THEN 0 ELSE g[pick(s)] + F[s \ {pick(s)}]
           N == {n \in Nat : \E F : Partial(F, n)}
<1>0. \A s \in SUBSET S : IsFiniteSet(s) /\ Cardinality(s) \in Nat
  BY FS_Subset, FS_CardinalityType
<1>1. \A s \in SUBSET S : s # {} => /\ s \ {pick(s)} \in SUBSET S
                                    /\ Cardinality(s \ {pick(s)}) \in Nat
                                    /\ Cardinality(s \ {pick(s)}) = Cardinality(s) - 1
  BY SmallerPart
<1>2. 0 \in N
  <2>1. \A s \in Small(0) : s = {}
    BY <1>0, FS_EmptySet
  <2>2. Partial([s \in SUBSET S |-> 0], 0)
    BY <2>1
  <2> HIDE DEF Partial
  <2> QED
    BY <2>2
<1>3. ASSUME NEW n \in Nat, n \in N PROVE n + 1 \in N
  <2>1. PICK F : Partial(F, n)
    BY <1>3
  <2> DEFINE G == [s \in SUBSET S |-> IF Cardinality(s) <= n THEN F[s]
                                      ELSE g[pick(s)] + F[s \ {pick(s)}]]
  <2>2. ASSUME NEW s \in Small(n + 1)
        PROVE  G[s] = IF s = {} THEN 0 ELSE g[pick(s)] + G[s \ {pick(s)}]
    <3>0. s \in SUBSET S /\ Cardinality(s) \in Nat /\ Cardinality(s) <= n + 1
      BY <1>0
    <3>1. CASE s = {}
      <4>1. Cardinality(s) = 0
        BY <3>1, FS_EmptySet
      <4>2. s \in Small(n) /\ G[s] = F[s]
        BY <3>0, <4>1
      <4> QED
        BY <2>1, <3>1, <4>2
    <3>2. CASE s # {}
      <4> DEFINE r == s \ {pick(s)}
      <4>1. r \in SUBSET S /\ Cardinality(r) \in Nat /\ Cardinality(r) = Cardinality(s) - 1
        BY <1>1, <3>0, <3>2
      <4>2. Cardinality(r) <= n
        BY <3>0, <4>1
      <4>3. G[r] = F[r]
        BY <4>1, <4>2
      <4>4. CASE Cardinality(s) <= n
        <5>1. s \in Small(n) /\ G[s] = F[s]
          BY <3>0, <4>4
        <5> QED
          BY <2>1, <3>2, <4>3, <5>1
      <4>5. CASE ~(Cardinality(s) <= n)
        <5>1. G[s] = g[pick(s)] + F[r]
          BY <3>0, <4>5
        <5> QED
          BY <3>2, <4>3, <5>1
      <4> QED
        BY <4>4, <4>5
    <3> QED
      BY <3>1, <3>2
  <2>3. Partial(G, n + 1)
    BY <2>2
  <2> HIDE DEF Partial, G
  <2> QED
    BY <2>3
<1>4. Nat \subseteq N
  <2> HIDE DEF N
  <2> QED
    BY <1>2, <1>3, EveryNumber
<1>5. PICK F : Partial(F, Cardinality(S))
  BY <1>0, <1>4
<1>6. \A s \in SUBSET S : Cardinality(s) <= Cardinality(S)
  BY FS_Subset
<1> DEFINE H == [s \in SUBSET S |-> F[s]]
<1>7. ASSUME NEW s \in SUBSET S
      PROVE  H[s] = IF s = {} THEN 0 ELSE g[pick(s)] + H[s \ {pick(s)}]
  <2>1. F[s] = IF s = {} THEN 0 ELSE g[pick(s)] + F[s \ {pick(s)}]
    BY <1>5, <1>6
  <2>2. s \ {pick(s)} \in SUBSET S
    OBVIOUS
  <2> QED
    BY <2>1, <2>2
<1>8. H = [s \in SUBSET S |-> IF s = {} THEN 0 ELSE g[pick(s)] + H[s \ {pick(s)}]]
  <2> DEFINE K == [s \in SUBSET S |-> IF s = {} THEN 0 ELSE g[pick(s)] + H[s \ {pick(s)}]]
  <2>1. \A s \in SUBSET S : H[s] = K[s]
    BY <1>7
  <2> QED
    BY <2>1
<1> QED
  BY <1>8 DEF Adds

\* One more at one place is one more in the sum.
LEMMA SumGrows ==
    ASSUME NEW S, IsFiniteSet(S), NEW g \in [S -> Nat], NEW h \in [S -> Nat],
           NEW p \in S, g[p] = 0, \A x \in S \ {p} : h[x] = g[x],
           NEW F, Adds(F, g, S), NEW G, Adds(G, h, S)
    PROVE  F[S] \in Nat /\ G[S] = F[S] + h[p]
<1> DEFINE pick(s) == CHOOSE x \in s : TRUE
           Right(s) == F[s] \in Nat /\ G[s] = F[s] + (IF p \in s THEN h[p] ELSE 0)
           N == {n \in Nat : \A s \in SUBSET S : Cardinality(s) <= n => Right(s)}
<1>0. \A s \in SUBSET S : IsFiniteSet(s) /\ Cardinality(s) \in Nat
  BY FS_Subset, FS_CardinalityType
<1>1. ASSUME NEW s \in SUBSET S
      PROVE  /\ F[s] = IF s = {} THEN 0 ELSE g[pick(s)] + F[s \ {pick(s)}]
             /\ G[s] = IF s = {} THEN 0 ELSE h[pick(s)] + G[s \ {pick(s)}]
  BY DEF Adds
<1>2. Right({})
  <2>1. F[{}] = 0 /\ G[{}] = 0
    BY <1>1
  <2> QED
    BY <2>1
<1>3. 0 \in N
  BY <1>0, <1>2, FS_EmptySet
<1>4. ASSUME NEW n \in Nat, n \in N PROVE n + 1 \in N
  <2>1. ASSUME NEW s \in SUBSET S, Cardinality(s) <= n + 1 PROVE Right(s)
    <3>1. CASE s = {}
      BY <1>2, <3>1
    <3>2. CASE s # {}
      <4> DEFINE x == pick(s)
                 r == s \ {x}
      <4>1. /\ x \in s /\ x \in S /\ r \in SUBSET S
            /\ Cardinality(r) \in Nat /\ Cardinality(r) = Cardinality(s) - 1
        BY <3>2, SmallerPart
      <4>2. Cardinality(r) <= n
        BY <1>0, <2>1, <4>1
      <4>3. Right(r)
        BY <1>4, <4>1, <4>2
      <4>4. F[s] = g[x] + F[r] /\ G[s] = h[x] + G[r]
        BY <1>1, <3>2
      <4>5. g[x] \in Nat /\ h[x] \in Nat /\ h[p] \in Nat
        BY <4>1
      <4>6. CASE x = p
        <5>1. p \in s /\ p \notin r
          BY <4>1, <4>6
        <5>2. F[r] \in Nat /\ G[r] = F[r]
          BY <4>3, <5>1
        <5>3. F[s] = 0 + F[r] /\ G[s] = h[p] + G[r]
          BY <4>4, <4>6
        <5> HIDE DEF x, r
        <5>4. F[s] \in Nat /\ G[s] = F[s] + h[p]
          BY <4>5, <5>2, <5>3
        <5> QED
          BY <5>1, <5>4
      <4>7. CASE x # p
        <5>1. h[x] = g[x] /\ (p \in s <=> p \in r)
          BY <4>1, <4>7
        <5> QED
          BY <4>3, <4>4, <4>5, <5>1
      <4> QED
        BY <4>6, <4>7
    <3> QED
      BY <3>1, <3>2
  <2> HIDE DEF Right
  <2> QED
    BY <2>1
<1>5. Nat \subseteq N
  <2> HIDE DEF N
  <2> QED
    BY <1>3, <1>4, EveryNumber
<1>6. Right(S)
  <2> HIDE DEF Right
  <2> QED
    BY <1>0, <1>5
<1> QED
  BY <1>6

\* A sum of zeros is zero.
LEMMA SumOfZeros ==
    ASSUME NEW S, IsFiniteSet(S), NEW g, \A x \in S : g[x] = 0, NEW F, Adds(F, g, S)
    PROVE  F[S] = 0
<1> DEFINE pick(s) == CHOOSE x \in s : TRUE
           N == {n \in Nat : \A s \in SUBSET S : Cardinality(s) <= n => F[s] = 0}
<1>0. \A s \in SUBSET S : IsFiniteSet(s) /\ Cardinality(s) \in Nat
  BY FS_Subset, FS_CardinalityType
<1>1. \A s \in SUBSET S : F[s] = IF s = {} THEN 0 ELSE g[pick(s)] + F[s \ {pick(s)}]
  BY DEF Adds
<1>2. 0 \in N
  <2>1. F[{}] = 0
    BY <1>1
  <2>2. \A s \in SUBSET S : Cardinality(s) <= 0 => s = {}
    BY <1>0, FS_EmptySet
  <2> QED
    BY <2>1, <2>2
<1>3. ASSUME NEW n \in Nat, n \in N PROVE n + 1 \in N
  <2>1. ASSUME NEW s \in SUBSET S, Cardinality(s) <= n + 1, s # {} PROVE F[s] = 0
    <3> DEFINE x == pick(s)
               r == s \ {x}
    <3>1. /\ x \in S /\ r \in SUBSET S
          /\ Cardinality(r) \in Nat /\ Cardinality(r) = Cardinality(s) - 1
      BY <2>1, SmallerPart
    <3>2. Cardinality(r) <= n
      BY <1>0, <2>1, <3>1
    <3>3. F[r] = 0 /\ g[x] = 0
      BY <1>3, <3>1, <3>2
    <3>4. F[s] = g[x] + F[r]
      BY <1>1, <2>1
    <3> HIDE DEF x, r
    <3> QED
      BY <3>3, <3>4
  <2>2. F[{}] = 0
    BY <1>1
  <2> QED
    BY <2>1, <2>2
<1>4. Nat \subseteq N
  <2> HIDE DEF N
  <2> QED
    BY <1>2, <1>3, EveryNumber
<1> QED
  BY <1>0, <1>4

-----------------------------------------------------------------------------
(* What a report says of what was read.                                    *)

\* What is quoted or derived has an available record.
LEMMA FactsAreAvailable ==
    ASSUME NEW versions, NEW available, NEW cutoff
    PROVE  Facts(versions, available) \cup Impacts(versions, available, cutoff) \subseteq Keys(available)
<1>1. Facts(versions, available) \subseteq Keys(available)
  BY DEF Facts, Supported
<1>2. ASSUME NEW e PROVE Affecting(e, available) \subseteq Keys(available)
  BY DEF Affecting, Keys
<1>3. Impacts(versions, available, cutoff) \subseteq Keys(available)
  BY <1>2 DEF Impacts
<1> QED
  BY <1>1, <1>3

\* The parts of a report.
LEMMA ContentParts ==
    ASSUME NEW records, NEW versions, NEW observations, NEW cutoff
    PROVE  LET content == Content(records, versions, observations, cutoff)
               usable == Grounded(observations, Available(records, cutoff), cutoff)
           IN  /\ content.cutoff = cutoff
               /\ content.facts \cup content.impacts \subseteq Keys(Available(records, cutoff))
               /\ content.changes = {PriceChange(GroupOf(k, usable)) : k \in Groups(usable)}
<1>1. Facts(CurrentEvents(versions, cutoff), Available(records, cutoff))
          \cup Impacts(CurrentEvents(versions, cutoff), Available(records, cutoff), cutoff)
          \subseteq Keys(Available(records, cutoff))
  BY FactsAreAvailable
<1> QED
  BY <1>1 DEF Content

\* The records read are of news items and of stored quotes.
LEMMA RevisionsAreNumbers ==
    ASSUME NEW records, NEW cutoff, CompleteTo(records, cutoff), NEW r \in records
    PROVE  r.rev \in Nat
BY DEF CompleteTo, QuoteRecord

\* A report of records that are complete to its cutoff states current facts.
LEMMA FactsAreCurrent ==
    ASSUME ReportTypes, NEW records, NEW versions, NEW observations, NEW cutoff \in Nat,
           CompleteTo(records, cutoff)
    PROVE  CurrentTo(Content(records, versions, observations, cutoff))
<1> DEFINE content == Content(records, versions, observations, cutoff)
           available == Available(records, cutoff)
<1>1. content.cutoff = cutoff /\ content.facts \cup content.impacts \subseteq Keys(available)
  BY ContentParts
<1> HIDE DEF content
<1>2. ASSUME NEW k \in content.facts \cup content.impacts, NEW n \in NewsKeys,
             n[1] = k[1], n[2] > k[2], news[n].state \in {"pending", "done"},
             ~(news[n].discovered >= cutoff)
      PROVE  FALSE
  <2>1. PICK r \in available : k = <<r.id, r.rev>>
    BY <1>1, <1>2 DEF Keys
  <2>2. r \in KnownBy(records, cutoff) /\ r \in records
    BY <2>1 DEF Available, KnownBy, Newest
  <2>3. news[n].discovered < cutoff
    BY <1>2 DEF ReportTypes, Story
  <2>4. PICK s \in records : s.id = n[1] /\ s.rev = n[2] /\ s.discovered <= cutoff
    BY <1>2, <2>3 DEF CompleteTo
  <2>5. s.id = r.id
    BY <1>2, <2>1, <2>4
  <2>6. s.rev <= r.rev
    BY <2>2, <2>4, <2>5 DEF KnownBy, Newest
  <2>7. s.rev \in Nat /\ r.rev \in Nat
    BY <2>2, <2>4, RevisionsAreNumbers
  <2>8. s.rev > r.rev
    BY <1>2, <2>1, <2>4
  <2> QED
    BY <2>6, <2>7, <2>8
<1>3. CurrentTo(content)
  BY <1>1, <1>2 DEF CurrentTo
<1> QED
  BY <1>3 DEF content

\* Observations of one time are told apart by their rows: a group has a latest one.
LEMMA LatestExists ==
    ASSUME NEW group, IsFiniteSet(group), group # {},
           \A o \in group : o.asOf \in Int /\ o.row \in Nat,
           \A o, p \in group : o.row = p.row => o = p
    PROVE  /\ Latest(group) \in group
           /\ \A p \in group : p = Latest(group) \/ Earlier(p, Latest(group))
<1> DEFINE IsLatest(o, g) == \A p \in g : p = o \/ Earlier(p, o)
           N == {n \in Nat : \A g \in SUBSET group :
                     Cardinality(g) = n /\ g # {} => \E o \in g : IsLatest(o, g)}
<1>0. \A g \in SUBSET group : IsFiniteSet(g) /\ Cardinality(g) \in Nat
  BY FS_Subset, FS_CardinalityType
<1>1. 0 \in N
  BY <1>0, FS_EmptySet
<1>2. ASSUME NEW n \in Nat, n \in N PROVE n + 1 \in N
  <2>1. ASSUME NEW g \in SUBSET group, Cardinality(g) = n + 1, g # {}
        PROVE  \E o \in g : IsLatest(o, g)
    <3>1. PICK x \in g : TRUE
      BY <2>1
    <3> DEFINE r == g \ {x}
    <3>2. Cardinality(r) = n /\ r \in SUBSET group
      BY <1>0, <2>1, <3>1, FS_RemoveElement
    <3>3. CASE r = {}
      <4>1. IsLatest(x, g)
        BY <3>3
      <4> QED
        BY <4>1
    <3>4. CASE r # {}
      <4>1. PICK o \in r : IsLatest(o, r)
        BY <1>2, <3>2, <3>4
      <4>2. o # x /\ o \in group /\ x \in group /\ o.row # x.row
        BY <3>2
      <4>3. /\ o.asOf \in Int /\ o.row \in Nat /\ x.asOf \in Int /\ x.row \in Nat
            /\ \A p \in r : p.asOf \in Int /\ p.row \in Nat
        BY <3>2, <4>2
      <4>4. Earlier(o, x) \/ Earlier(x, o)
        BY <4>2, <4>3 DEF Earlier
      <4>5. CASE Earlier(o, x)
        <5>1. ASSUME NEW p \in r PROVE Earlier(p, x)
          <6>1. p = o \/ Earlier(p, o)
            BY <4>1
          <6> QED
            BY <4>3, <4>5, <6>1 DEF Earlier
        <5>2. IsLatest(x, g)
          BY <5>1
        <5> QED
          BY <5>2
      <4>6. CASE Earlier(x, o)
        <5>1. IsLatest(o, g) /\ o \in g
          BY <4>1, <4>6
        <5> QED
          BY <5>1
      <4> QED
        BY <4>4, <4>5, <4>6
    <3> QED
      BY <3>3, <3>4
  <2> HIDE DEF IsLatest
  <2> QED
    BY <2>1
<1>3. Nat \subseteq N
  <2> HIDE DEF N
  <2> QED
    BY <1>1, <1>2, EveryNumber
<1>4. \E o \in group : IsLatest(o, group)
  <2> HIDE DEF IsLatest
  <2> QED
    BY <1>0, <1>3
<1> QED
  BY <1>4 DEF Latest

\* The one value of the latest time, today, less the one value of the time before
\* it is the change of a group.
LEMMA TrueChangeOf ==
    ASSUME NEW group, NEW l \in group, NEW b \in group,
           \A o \in group : o.asOf \in Int,
           l.asOf \in Today, b.asOf < l.asOf,
           \A o \in group : o.asOf = l.asOf \/ (o.asOf < l.asOf /\ o.asOf <= b.asOf),
           \A o \in group : o.asOf = l.asOf => o.value = l.value,
           \A o \in group : o.asOf = b.asOf => o.value = b.value
    PROVE  l.value - b.value \in TrueChange(group)
<1> DEFINE times == {o.asOf : o \in group}
           values(t) == {o.value : o \in {p \in group : p.asOf = t}}
           latest == CHOOSE t \in times : \A u \in times : u <= t
           earlier == times \ {latest}
           before == CHOOSE t \in earlier : \A u \in earlier : u <= t
<1>1. latest = l.asOf
  <2>1. l.asOf \in times /\ \A u \in times : u \in Int /\ u <= l.asOf
    OBVIOUS
  <2> HIDE DEF times
  <2>2. latest \in times /\ \A u \in times : u <= latest
    BY <2>1
  <2> HIDE DEF latest
  <2> QED
    BY <2>1, <2>2
<1> HIDE DEF latest
<1>2. before = b.asOf
  <2>1. b.asOf \in earlier /\ \A u \in earlier : u \in Int /\ u <= b.asOf
    BY <1>1
  <2> HIDE DEF earlier
  <2>2. before \in earlier /\ \A u \in earlier : u <= before
    BY <2>1
  <2> HIDE DEF before
  <2> QED
    BY <2>1, <2>2
<1>3. earlier # {}
  BY <1>1
<1> HIDE DEF before
<1>4. values(latest) = {l.value} /\ values(before) = {b.value}
  BY <1>1, <1>2
<1>5. Cardinality(values(latest)) = 1 /\ Cardinality(values(before)) = 1
  <2> HIDE DEF values
  <2> QED
    BY <1>4, FS_Singleton
<1>6. latest \in Today
  BY <1>1
<1>7. TrueChange(group) = {v - w : v \in values(latest), w \in values(before)}
  BY <1>3, <1>5, <1>6 DEF TrueChange, latest, before
<1>8. l.value \in values(latest) /\ b.value \in values(before)
  BY <1>4
<1> HIDE DEF values
<1> QED
  BY <1>7, <1>8

\* The observations of a set of rows are finite in number, apart by their rows.
LEMMA ObservationsOfRows ==
    ASSUME NEW group, \A o \in group : \E q \in Rows : o = Observation(q)
    PROVE  /\ IsFiniteSet(group)
           /\ \A o \in group : o.row \in Rows /\ o = Observation(o.row) /\ o.asOf \in Int /\ o.row \in Nat
           /\ \A o, p \in group : o.row = p.row => o = p
<1> DEFINE f == [q \in Rows |-> Observation(q)]
           all == {Observation(q) : q \in Rows}
<1>1. IsFiniteSet(Rows) /\ Rows \subseteq Nat /\ \A q \in Rows : Line[q].asOf \in Int
  BY QuotesAssumption
<1>2. IsFiniteSet(all)
  <2>1. f \in Surjection(Rows, all)
    BY DEF Surjection
  <2> HIDE DEF f, all
  <2> QED
    BY <1>1, <2>1, FS_Surjection
<1>3. group \subseteq all
  OBVIOUS
<1>4. IsFiniteSet(group)
  BY <1>2, <1>3, FS_Subset
<1>5. \A q \in Rows : Observation(q).row = q /\ Observation(q).asOf = Line[q].asOf
  BY DEF Observation
<1>6. \A o \in group : o.row \in Rows /\ o = Observation(o.row) /\ o.asOf \in Int /\ o.row \in Nat
  BY <1>1, <1>5
<1> QED
  BY <1>4, <1>6

\* A stored quote that is in a complete snapshot is available as soon as neither
\* it nor its publication lies after the cutoff.
LEMMA StoredQuotesAreAvailable ==
    ASSUME NEW records, NEW cutoff \in Nat, CompleteTo(records, cutoff),
           NEW q \in StoredQuotes, QuoteRecord(q) \in records, quotes[q].quality = "valid",
           quotes[q].discovered <= cutoff, \A t \in Line[q].published : t <= cutoff
    PROVE  <<q, 1>> \in Keys(Available(records, cutoff))
<1> DEFINE r == QuoteRecord(q)
<1>0. q \in Rows /\ q \notin NewsIds
  BY DailyReportAssumption DEF StoredQuotes
<1>1. /\ r.id = q /\ r.rev = 1 /\ r.discovered = quotes[q].discovered /\ r.quality = quotes[q].quality
      /\ r.published = Line[q].published /\ r.occurred = {} /\ r.provided = {}
  BY DEF QuoteRecord
<1>2. ASSUME NEW s \in records, s.id = q PROVE s.rev = 1
  <2>1. PICK p \in StoredQuotes : s = QuoteRecord(p)
    BY <1>0, <1>2 DEF CompleteTo
  <2> QED
    BY <2>1 DEF QuoteRecord
<1> HIDE DEF r
<1>3. r \in KnownBy(records, cutoff)
  <2>1. r \in {s \in records : s.discovered <= cutoff}
    BY <1>1 DEF r
  <2>2. \A s \in {x \in records : x.discovered <= cutoff} : r.id = s.id => s.rev <= r.rev
    BY <1>1, <1>2
  <2> QED
    BY <2>1, <2>2 DEF KnownBy, Newest
<1>4. ~Future(r, cutoff)
  <2>1. \A t \in Line[q].published : t \in Int
    BY <1>0, QuotesAssumption
  <2> QED
    BY <1>1, <2>1 DEF Future
<1>5. r \in Available(records, cutoff)
  BY <1>1, <1>3, <1>4 DEF Available
<1> QED
  BY <1>1, <1>5 DEF Keys

\* A report of quotes that are complete to its cutoff states undisputed changes.
LEMMA ChangesUndisputed ==
    ASSUME ReportTypes, Past, NEW records, NEW versions, NEW cutoff \in Nat,
           CompleteTo(records, cutoff)
    PROVE  UndisputedTo(Content(records, versions,
               {Observation(r) : r \in {q \in StoredQuotes : Line[q].asOf <= cutoff}}, cutoff))
<1> DEFINE observations == {Observation(r) : r \in {q \in StoredQuotes : Line[q].asOf <= cutoff}}
           available == Available(records, cutoff)
           usable == Grounded(observations, available, cutoff)
           content == Content(records, versions, observations, cutoff)
<1>1. /\ content.cutoff = cutoff
      /\ content.changes = {PriceChange(GroupOf(k, usable)) : k \in Groups(usable)}
  <2> HIDE DEF observations
  <2> QED
    BY ContentParts
<1> HIDE DEF content
<1>2. ASSUME NEW c \in content.changes, c.verdict = "change"
      PROVE  c.rows \subseteq StoredQuotes /\ c.delta \in TrueChange(Comparable(c.rows, cutoff))
  <2>1. PICK k \in Groups(usable) : c = PriceChange(GroupOf(k, usable))
    BY <1>1
  <2> DEFINE G == GroupOf(k, usable)
             L == Latest(G)
             E == {o \in G : o.asOf < L.asOf}
             B == Latest(E)
             H == Comparable(c.rows, cutoff)
  <2>2. \A o \in G : /\ o \in observations /\ k \in ComparisonKey(o) /\ o.quality # "invalid"
                     /\ o.asOf <= cutoff /\ \A t \in o.published : t <= cutoff
    BY DEF GroupOf, Grounded
  <2>3. G # {}
    BY DEF Groups, GroupOf
  <2>4. \A o \in G : \E q \in StoredQuotes : o = Observation(q) /\ Line[q].asOf <= cutoff
    BY <2>2
  <2>5. \A o \in G : \E q \in Rows : o = Observation(q)
    BY <2>4 DEF StoredQuotes
  <2> HIDE DEF G
  <2>6. /\ IsFiniteSet(G)
        /\ \A o \in G : o.row \in Rows /\ o = Observation(o.row) /\ o.asOf \in Int /\ o.row \in Nat
        /\ \A o, p \in G : o.row = p.row => o = p
    BY <2>5, ObservationsOfRows
  <2>7. L \in G /\ \A p \in G : p = L \/ Earlier(p, L)
    BY <2>3, <2>6, LatestExists
  <2> HIDE DEF L
  <2>8. /\ L.asOf \in Today /\ E # {} /\ ~Disputed(L, G) /\ ~Disputed(B, G)
        /\ c.delta = L.value - B.value /\ c.rows = {L.row, B.row}
    BY <1>2, <2>1 DEF PriceChange, G, L
  <2>9. B \in E /\ \A p \in E : p = B \/ Earlier(p, B)
    <3>1. IsFiniteSet(E)
      BY <2>6, FS_Subset
    <3>2. /\ \A o \in E : o.asOf \in Int /\ o.row \in Nat
          /\ \A o, p \in E : o.row = p.row => o = p
      BY <2>6
    <3> HIDE DEF E
    <3> QED
      BY <2>8, <3>1, <3>2, LatestExists
  <2>10. B \in G /\ B.asOf < L.asOf
    BY <2>9
  <2>11. \A o \in G : o.asOf = L.asOf \/ (o.asOf < L.asOf /\ o.asOf <= B.asOf)
    <3> SUFFICES ASSUME NEW o \in G PROVE o.asOf = L.asOf \/ (o.asOf < L.asOf /\ o.asOf <= B.asOf)
      OBVIOUS
    <3>1. o = L \/ o.asOf = L.asOf \/ o.asOf < L.asOf
      BY <2>7 DEF Earlier
    <3>2. o.asOf < L.asOf => o.asOf <= B.asOf
      <4>1. o.asOf < L.asOf => (o = B \/ Earlier(o, B))
        BY <2>9
      <4>2. o.asOf \in Int /\ B.asOf \in Int
        BY <2>6, <2>10
      <4> HIDE DEF B
      <4> QED
        BY <4>1, <4>2 DEF Earlier
    <3> QED
      BY <3>1, <3>2
  <2> HIDE DEF B, E
  <2>12. \A o \in G : (o.asOf = L.asOf => o.value = L.value) /\ (o.asOf = B.asOf => o.value = B.value)
    BY <2>8 DEF Disputed
  <2>13. ASSUME NEW o \in G
         PROVE  /\ o.row \in StoredQuotes /\ o = Observation(o.row) /\ quotes[o.row].quality = "valid"
                /\ o.source = <<o.row, 1>>
    <3>1. PICK q \in StoredQuotes : o = Observation(q)
      BY <2>4
    <3>2. o.row = q /\ o.source = <<q, 1>>
      BY <3>1 DEF Observation
    <3>3. quotes[q].quality = "valid"
      BY <2>2, <3>1 DEF Observation
    <3> QED
      BY <3>1, <3>2, <3>3
  <2>14. c.rows \subseteq StoredQuotes
    BY <2>7, <2>8, <2>10, <2>13
  <2>15. ASSUME NEW o \in G, o.row \in c.rows PROVE o \in H
    <3> DEFINE known == {Observation(q) : q \in {r \in StoredQuotes :
                             quotes[r].stored < cutoff \/ r \in c.rows}}
    <3>1. o \in known
      BY <2>13, <2>15
    <3>2. o.source \in Keys({QuoteRecord(r) : r \in StoredQuotes})
      <4>1. QuoteRecord(o.row).id = o.row /\ QuoteRecord(o.row).rev = 1
        BY DEF QuoteRecord
      <4> QED
        BY <2>13, <4>1 DEF Keys
    <3>3. o \in Grounded(known, {QuoteRecord(r) : r \in StoredQuotes}, cutoff)
      <4> HIDE DEF known
      <4> QED
        BY <2>2, <3>1, <3>2 DEF Grounded
    <3>4. \E r \in c.rows : ComparisonKey(o) = ComparisonKey(Observation(r))
      BY <2>13, <2>15
    <3> QED
      BY <3>3, <3>4 DEF Comparable
  <2>16. ASSUME NEW o \in H PROVE o \in G
    <3>1. PICK q \in StoredQuotes : o = Observation(q) /\ (quotes[q].stored < cutoff \/ q \in c.rows)
      BY DEF Comparable, Grounded
    <3>2. /\ o.asOf <= cutoff /\ (\A t \in o.published : t <= cutoff) /\ o.quality # "invalid"
      BY DEF Comparable, Grounded
    <3>3. PICK r \in c.rows : ComparisonKey(o) = ComparisonKey(Observation(r))
      BY DEF Comparable
    <3>4. CASE q \in c.rows
      BY <2>7, <2>8, <2>10, <2>13, <3>1, <3>4
    <3>5. CASE q \notin c.rows
      <4>1. /\ o.source = <<q, 1>> /\ o.asOf = Line[q].asOf /\ o.published = Line[q].published
            /\ quotes[q].quality = "valid"
        BY <3>1, <3>2 DEF Observation
      <4>2. quotes[q].stored < cutoff /\ quotes[q].discovered <= quotes[q].stored
        BY <3>1, <3>5 DEF Past, StoredQuotes
      <4>3. quotes[q].discovered <= cutoff
        BY <4>2 DEF ReportTypes, Quote, StoredQuotes
      <4>4. QuoteRecord(q) \in records
        BY <4>1, <4>2 DEF CompleteTo
      <4>5. o.source \in Keys(available)
        <5>1. \A t \in Line[q].published : t <= cutoff
          BY <3>2, <4>1
        <5> HIDE DEF available
        <5> QED
          BY <4>1, <4>3, <4>4, <5>1, StoredQuotesAreAvailable DEF available
      <4>6. o \in observations
        BY <3>1, <3>2, <4>1
      <4>7. o \in usable
        <5> HIDE DEF observations, available
        <5> QED
          BY <3>2, <4>5, <4>6 DEF Grounded
      <4>8. k \in ComparisonKey(o)
        <5>1. r \in {L.row, B.row} /\ Observation(r) \in G
          BY <2>7, <2>8, <2>10, <2>13
        <5> QED
          BY <2>2, <3>3, <5>1
      <4> QED
        BY <4>7, <4>8 DEF G, GroupOf
    <3> QED
      BY <3>4, <3>5
  <2>17. L \in H /\ B \in H
    BY <2>7, <2>8, <2>10, <2>15
  <2>18. L.value - B.value \in TrueChange(H)
    <3>1. /\ \A o \in H : o.asOf \in Int
          /\ \A o \in H : o.asOf = L.asOf \/ (o.asOf < L.asOf /\ o.asOf <= B.asOf)
          /\ \A o \in H : o.asOf = L.asOf => o.value = L.value
          /\ \A o \in H : o.asOf = B.asOf => o.value = B.value
      BY <2>6, <2>11, <2>12, <2>16
    <3> HIDE DEF H
    <3> QED
      BY <2>8, <2>10, <2>17, <3>1, TrueChangeOf
  <2> QED
    BY <2>8, <2>14, <2>18
<1>3. UndisputedTo(content)
  BY <1>1, <1>2 DEF UndisputedTo
<1> QED
  BY <1>3 DEF content

-----------------------------------------------------------------------------
(* What has been established of a snapshot or of a report stays so, whatever
   is stored afterwards: what comes later is not before its cutoff.        *)

\* A stored quote stays as it is.
LEMMA StoredStays ==
    ASSUME Onward, NEW q \in StoredQuotes
    PROVE  /\ q \in Rows /\ quotes'[q] = quotes[q] /\ q \in StoredQuotes'
           /\ QuoteRecord(q)' = QuoteRecord(q) /\ Observation(q)' = Observation(q)
<1>1. q \in Rows /\ quotes[q].state = "stored"
  BY DEF StoredQuotes
<1>2. quotes'[q] = quotes[q]
  BY <1>1 DEF Onward
<1> QED
  BY <1>1, <1>2 DEF StoredQuotes, QuoteRecord, Observation

\* A snapshot complete to its cutoff remains so.
LEMMA CompleteStays ==
    ASSUME ReportTypes, Onward, ReportTypes', NEW records, NEW cutoff \in Nat, cutoff <= clock,
           CompleteTo(records, cutoff)
    PROVE  CompleteTo(records, cutoff)'
<1>1. ASSUME NEW r \in records
      PROVE  \/ r.id \in NewsIds /\ r.rev \in Nat
             \/ \E q \in StoredQuotes' : r = QuoteRecord(q)'
  BY StoredStays DEF CompleteTo
<1>2. ASSUME NEW n \in NewsKeys, news'[n].state \in {"pending", "done"}, news'[n].discovered < cutoff
      PROVE  \E r \in records : r.id = n[1] /\ r.rev = n[2] /\ r.discovered <= cutoff
  <2>1. news'[n].discovered # clock
    BY <1>2 DEF ReportTypes, Story
  <2>2. news[n].state \in {"pending", "done"} /\ news[n].discovered < cutoff
    BY <1>2, <2>1 DEF Onward
  <2> QED
    BY <2>2 DEF CompleteTo
<1>3. ASSUME NEW q \in StoredQuotes', quotes'[q].quality = "valid", quotes'[q].stored < cutoff
      PROVE  QuoteRecord(q)' \in records
  <2>1. q \in Rows /\ quotes'[q].state = "stored"
    BY DEF StoredQuotes
  <2>2. quotes'[q].stored # clock
    BY <1>3, <2>1 DEF ReportTypes, Quote
  <2>3. quotes'[q] = quotes[q]
    BY <2>1, <2>2 DEF Onward
  <2>4. q \in StoredQuotes
    BY <2>1, <2>3 DEF StoredQuotes
  <2> QED
    BY <1>3, <2>3, <2>4, StoredStays DEF CompleteTo
<1> QED
  BY <1>1, <1>2, <1>3 DEF CompleteTo

\* So do facts that are current to it.
LEMMA CurrentStays ==
    ASSUME ReportTypes, Onward, NEW content, content.cutoff \in Nat, content.cutoff <= clock,
           CurrentTo(content)
    PROVE  CurrentTo(content)'
<1> SUFFICES ASSUME NEW k \in content.facts \cup content.impacts, NEW n \in NewsKeys,
                    n[1] = k[1], n[2] > k[2], news'[n].state \in {"pending", "done"}
             PROVE  news'[n].discovered >= content.cutoff
  BY DEF CurrentTo
<1>1. CASE news[n].state \in {"pending", "done"} /\ news'[n].discovered = news[n].discovered
  BY <1>1 DEF CurrentTo
<1>2. CASE news'[n].discovered = clock
  BY <1>2 DEF ReportTypes
<1> QED
  BY <1>1, <1>2 DEF Onward

\* The quotes that can be compared at a cutoff stay the same.
LEMMA ComparableStays ==
    ASSUME ReportTypes, Onward, NEW compared \in SUBSET StoredQuotes, NEW cutoff \in Nat, cutoff <= clock
    PROVE  Comparable(compared, cutoff)' = Comparable(compared, cutoff)
<1> DEFINE Known == {r \in StoredQuotes : quotes[r].stored < cutoff \/ r \in compared}
           Fits(o) == /\ o.asOf <= cutoff /\ (\A t \in o.published : t <= cutoff)
                      /\ o.quality # "invalid"
<1>1. ASSUME NEW r PROVE r \in StoredQuotes' /\ (quotes'[r].stored < cutoff \/ r \in compared)
                         <=> r \in Known
  <2>1. CASE r \in StoredQuotes
    BY <2>1, StoredStays
  <2>2. CASE r \notin StoredQuotes /\ r \in StoredQuotes'
    <3>1. r \in Rows /\ quotes[r].state # "stored" /\ quotes'[r].state = "stored"
      BY <2>2 DEF StoredQuotes
    <3>2. quotes'[r].stored = clock
      BY <3>1 DEF Onward
    <3> QED
      BY <2>2, <3>2 DEF ReportTypes
  <2> QED
    BY <2>1, <2>2
<1>2. {r \in StoredQuotes' : quotes'[r].stored < cutoff \/ r \in compared} = Known
  BY <1>1
<1>3. \A q \in Known : q \in StoredQuotes /\ q \in StoredQuotes' /\ Observation(q)' = Observation(q)
  BY StoredStays
<1>4. \A r \in compared : Observation(r)' = Observation(r)
  BY StoredStays
<1>5. ASSUME NEW q PROVE /\ q \in StoredQuotes => <<q, 1>> \in Keys({QuoteRecord(r) : r \in StoredQuotes})
                         /\ q \in StoredQuotes' => <<q, 1>> \in Keys({QuoteRecord(r)' : r \in StoredQuotes'})
  <2>1. QuoteRecord(q).id = q /\ QuoteRecord(q).rev = 1
    BY DEF QuoteRecord
  <2>2. (QuoteRecord(q)').id = q /\ (QuoteRecord(q)').rev = 1
    BY DEF QuoteRecord
  <2>3. q \in StoredQuotes => <<q, 1>> \in Keys({QuoteRecord(r) : r \in StoredQuotes})
    BY <2>1 DEF Keys
  <2>4. q \in StoredQuotes' => <<q, 1>> \in Keys({QuoteRecord(r)' : r \in StoredQuotes'})
    BY <2>2 DEF Keys
  <2> QED
    BY <2>3, <2>4
<1>6. \A q : Observation(q).source = <<q, 1>>
  BY DEF Observation
<1>7. ASSUME NEW o
      PROVE  /\ o \in Comparable(compared, cutoff) <=>
                    /\ \E q \in Known : o = Observation(q)
                    /\ Fits(o) /\ \E r \in compared : ComparisonKey(o) = ComparisonKey(Observation(r))
             /\ o \in Comparable(compared, cutoff)' <=>
                    /\ \E q \in Known : o = Observation(q)
                    /\ Fits(o) /\ \E r \in compared : ComparisonKey(o) = ComparisonKey(Observation(r))
  <2>1. o \in Comparable(compared, cutoff) <=>
            /\ \E q \in Known : o = Observation(q)
            /\ o.source \in Keys({QuoteRecord(r) : r \in StoredQuotes})
            /\ Fits(o) /\ \E r \in compared : ComparisonKey(o) = ComparisonKey(Observation(r))
    BY DEF Comparable, Grounded
  <2>2. o \in Comparable(compared, cutoff)' <=>
            /\ \E q \in Known : o = Observation(q)'
            /\ o.source \in Keys({QuoteRecord(r)' : r \in StoredQuotes'})
            /\ Fits(o) /\ \E r \in compared : ComparisonKey(o) = ComparisonKey(Observation(r)')
    BY <1>2 DEF Comparable, Grounded
  <2> HIDE DEF Known, Fits
  <2> QED
    BY <1>3, <1>4, <1>5, <1>6, <2>1, <2>2
<1> HIDE DEF Known, Fits
<1> QED
  BY <1>7 DEF Comparable, Grounded

\* So changes that are undisputed at it remain so.
LEMMA UndisputedStays ==
    ASSUME ReportTypes, Onward, NEW content, content.cutoff \in Nat, content.cutoff <= clock,
           UndisputedTo(content)
    PROVE  UndisputedTo(content)'
<1> SUFFICES ASSUME NEW c \in content.changes, c.verdict = "change"
             PROVE  /\ c.rows \subseteq StoredQuotes'
                    /\ c.delta \in TrueChange(Comparable(c.rows, content.cutoff)')
  BY DEF UndisputedTo
<1>1. c.rows \subseteq StoredQuotes /\ c.delta \in TrueChange(Comparable(c.rows, content.cutoff))
  BY DEF UndisputedTo
<1>2. Comparable(c.rows, content.cutoff)' = Comparable(c.rows, content.cutoff)
  BY <1>1, ComparableStays
<1> QED
  BY <1>1, <1>2, StoredStays

\* The invariant holds again when all that is new was established in the step.
LEMMA InvCarried ==
    ASSUME ReportInv, Onward, ReportTypes', Past',
           \A s \in Snapshots' : \/ s \in Snapshots
                                 \/ s[2] \in Nat /\ s[2] <= clock /\ CompleteTo(s[1], s[2]),
           \A content \in Contents' :
               \/ content \in Contents
               \/ content.cutoff \in Nat /\ content.cutoff <= clock
                  /\ CurrentTo(content) /\ UndisputedTo(content)
    PROVE  ReportInv'
<1>1. \A s \in Snapshots : s[2] \in Nat /\ s[2] <= clock /\ CompleteTo(s[1], s[2])
  BY DEF ReportInv, ReportTypes, Past, Snapshots
<1>2. \A content \in Contents : content.cutoff \in Nat /\ content.cutoff <= clock
                                /\ CurrentTo(content) /\ UndisputedTo(content)
  BY DEF ReportInv, ReportTypes, Past, Contents
<1>3. ASSUME NEW s \in Snapshots' PROVE CompleteTo(s[1], s[2])'
  BY <1>1, CompleteStays DEF ReportInv
<1>4. ASSUME NEW content \in Contents' PROVE CurrentTo(content)' /\ UndisputedTo(content)'
  BY <1>2, CurrentStays, UndisputedStays DEF ReportInv
<1> QED
  BY <1>3, <1>4 DEF ReportInv

-----------------------------------------------------------------------------
(* Every step preserves the invariant.                                     *)

Replaced(b, row) ==
    /\ DOMAIN builder' = Builders /\ builder'[b] = row
    /\ \A c \in Builders : c # b => builder'[c] = builder[c]

Row(step, cutoff, records, versions, content) ==
    [step |-> step, cutoff |-> cutoff, records |-> records, events |-> versions, content |-> content]

\* The empty report states nothing that could be wrong.
LEMMA NothingStated == CurrentTo(NoReport) /\ UndisputedTo(NoReport) /\ NoReport.cutoff = 0
BY DEF CurrentTo, UndisputedTo, NoReport

\* A step of one build: its row is replaced, its report may become the report.
LEMMA BuildKeeps ==
    ASSUME ReportInv, NEW b \in Builders, NEW step \in BuildSteps, NEW cutoff \in Nat,
           NEW records, NEW versions, NEW content, content.cutoff \in Nat,
           Replaced(b, Row(step, cutoff, records, versions, content)),
           UNCHANGED <<clock, newsVars, quoteVars>>,
           report' \in {report, builder[b].content},
           cutoff <= clock, content.cutoff <= clock,
           step \in {"records", "events"} => CompleteTo(records, cutoff),
           CurrentTo(content), UndisputedTo(content)
    PROVE  ReportInv'
<1> DEFINE row == Row(step, cutoff, records, versions, content)
<1>1. /\ row.step = step /\ row.cutoff = cutoff /\ row.records = records /\ row.content = content
      /\ row = [step |-> row.step, cutoff |-> row.cutoff, records |-> row.records,
                events |-> row.events, content |-> row.content]
  BY DEF Row
<1>2. /\ clock' = clock /\ news' = news /\ quotes' = quotes /\ previews' = previews
  BY DEF newsVars, quoteVars
<1> HIDE DEF row
<1>3. Replaced(b, row)
  BY DEF row
<1>4. report'.cutoff \in Nat /\ report'.cutoff <= clock
  BY DEF ReportInv, ReportTypes, Past
<1>5. ReportTypes'
  BY <1>1, <1>2, <1>3, <1>4 DEF ReportInv, ReportTypes, Replaced, IsBuild, NewsKeys
<1>6. Past'
  BY <1>1, <1>2, <1>3, <1>4 DEF ReportInv, Past, Replaced
<1>7. Onward
  BY <1>2 DEF Onward, ReportInv, ReportTypes
<1>8. ASSUME NEW s \in Snapshots'
      PROVE  s \in Snapshots \/ (s[2] \in Nat /\ s[2] <= clock /\ CompleteTo(s[1], s[2]))
  <2>1. PICK c \in Builders : /\ builder'[c].step \in {"records", "events"}
                              /\ s = <<builder'[c].records, builder'[c].cutoff>>
    BY DEF Snapshots
  <2>2. CASE c = b
    BY <1>1, <1>3, <2>1, <2>2 DEF Replaced
  <2>3. CASE c # b
    BY <1>3, <2>1, <2>3 DEF Replaced, Snapshots
  <2> QED
    BY <2>2, <2>3
<1>9. ASSUME NEW c \in Contents'
      PROVE  c \in Contents \/ (c.cutoff \in Nat /\ c.cutoff <= clock /\ CurrentTo(c) /\ UndisputedTo(c))
  <2>1. c = report' \/ \E d \in Builders : c = builder'[d].content
    BY DEF Contents
  <2>2. \/ c \in {report, builder[b].content}
        \/ c = content \/ \E d \in Builders : c = builder[d].content
    BY <1>1, <1>3, <2>1 DEF Replaced
  <2> QED
    BY <2>2 DEF Contents
<1> QED
  BY <1>5, <1>6, <1>7, <1>8, <1>9, InvCarried

\* A step that stores something: no build and no report changes.
LEMMA StoringKeeps ==
    ASSUME ReportInv, Onward, UNCHANGED <<builder, report>>,
           clock' \in Nat, news' \in [NewsKeys -> Story], quotes' \in [Rows -> Quote],
           previews' \in [Previews -> PreviewRow],
           \A k \in NewsKeys : news'[k].discovered <= clock',
           \A r \in Rows : quotes'[r].discovered <= quotes'[r].stored /\ quotes'[r].stored <= clock',
           \A p \in Previews : /\ previews'[p].discovered <= clock'
                               /\ previews'[p].state = "open" => previews'[p].file \in Files
    PROVE  ReportInv'
<1>0. clock \in Nat /\ clock <= clock'
  BY DEF Onward, ReportInv, ReportTypes
<1>1. ReportTypes'
  BY DEF ReportInv, ReportTypes, IsBuild, NewsKeys
<1>2. \A b \in Builders : builder[b].cutoff <= clock' /\ builder[b].content.cutoff <= clock'
  BY <1>0 DEF ReportInv, ReportTypes, Past
<1>3. report.cutoff <= clock'
  BY <1>0 DEF ReportInv, ReportTypes, Past
<1>4. Past'
  BY <1>2, <1>3 DEF Past, NewsKeys
<1>5. Snapshots' = Snapshots /\ Contents' = Contents
  BY DEF Snapshots, Contents
<1> QED
  BY <1>1, <1>4, <1>5, InvCarried

\* A record is stored.
LEMMA StoreNewsKeeps ==
    ASSUME ReportInv, NEW k \in NewsKeys, NEW q \in {"valid", "future_quarantined"}, StoreNews(k, q)
    PROVE  ReportInv'
<1> DEFINE row == [state |-> IF q = "valid" THEN "pending" ELSE "quarantined",
                   quality |-> q, discovered |-> clock]
<1>1. /\ news[k].state = "absent" /\ news' = [news EXCEPT ![k] = row]
      /\ UNCHANGED <<clock, builder, report, quotes, previews>>
  BY DEF StoreNews, buildVars, quoteVars
<1>2. clock \in Nat /\ news \in [NewsKeys -> Story]
  BY DEF ReportInv, ReportTypes
<1>3. row \in Story /\ row.discovered = clock
  BY <1>2 DEF Story
<1> HIDE DEF row
<1>4. /\ news' \in [NewsKeys -> Story] /\ news'[k] = row
      /\ \A n \in NewsKeys : n # k => news'[n] = news[n]
  BY <1>1, <1>2, <1>3
<1>5. Onward
  BY <1>1, <1>2, <1>3, <1>4 DEF Onward
<1>6. \A n \in NewsKeys : news'[n].discovered <= clock'
  BY <1>1, <1>2, <1>3, <1>4 DEF ReportInv, Past
<1> QED
  BY <1>1, <1>4, <1>5, <1>6, StoringKeeps DEF ReportInv, ReportTypes, Past

\* The record of a news item that was assessed keeps its time.
LEMMA JudgedKeeps ==
    ASSUME ReportInv, NEW k \in NewsKeys, NEW state \in {"done", "failed"},
           news[k].state = "pending", news' = [news EXCEPT ![k].state = state],
           UNCHANGED <<clock, builder, report, quotes, previews>>
    PROVE  ReportInv'
<1>1. clock \in Nat /\ news \in [NewsKeys -> Story]
  BY DEF ReportInv, ReportTypes
<1>2. /\ news' \in [NewsKeys -> Story]
      /\ news'[k].state = state /\ news'[k].discovered = news[k].discovered
      /\ \A n \in NewsKeys : n # k => news'[n] = news[n]
  BY <1>1 DEF Story
<1>3. Onward
  BY <1>1, <1>2 DEF Onward
<1>4. \A n \in NewsKeys : news'[n].discovered <= clock'
  BY <1>1, <1>2 DEF ReportInv, Past
<1> QED
  BY <1>2, <1>3, <1>4, StoringKeeps DEF ReportInv, ReportTypes, Past

\* The steps of the news.
LEMMA NewsKeeps ==
    ASSUME ReportInv, NewsNext
    PROVE  ReportInv'
<1>1. ASSUME NEW k \in NewsKeys, NEW q \in {"valid", "future_quarantined"}, StoreNews(k, q)
      PROVE  ReportInv'
  BY <1>1, StoreNewsKeeps
<1>2. ASSUME NEW k \in NewsKeys, Assess(k) PROVE ReportInv'
  <2>1. /\ news[k].state = "pending" /\ news' = [news EXCEPT ![k].state = "done"]
        /\ UNCHANGED <<clock, builder, report, quotes, previews>>
    BY <1>2 DEF Assess, buildVars, quoteVars
  <2> QED
    BY <2>1, JudgedKeeps
<1>3. ASSUME NEW k \in NewsKeys, AssessmentFails(k) PROVE ReportInv'
  <2>1. /\ news[k].state = "pending" /\ news' = [news EXCEPT ![k].state = "failed"]
        /\ UNCHANGED <<clock, builder, report, quotes, previews>>
    BY <1>3 DEF AssessmentFails, buildVars, quoteVars
  <2> QED
    BY <2>1, JudgedKeeps
<1> QED
  BY <1>1, <1>2, <1>3 DEF NewsNext

\* A file is previewed.
LEMMA PreviewKeeps ==
    ASSUME ReportInv, NEW p \in Previews, NEW f \in Files, Preview(p, f, clock),
           UNCHANGED <<clock, newsVars, buildVars>>
    PROVE  ReportInv'
<1> DEFINE row == [NoPreview EXCEPT !.state = "open", !.file = f, !.discovered = clock]
<1>1. /\ previews' = [previews EXCEPT ![p] = row]
      /\ UNCHANGED <<clock, news, builder, report, quotes>>
  BY DEF Preview, newsVars, buildVars
<1>2. clock \in Nat /\ previews \in [Previews -> PreviewRow]
  BY DEF ReportInv, ReportTypes
<1>3. row \in PreviewRow /\ row.discovered = clock /\ row.file \in Files
  BY <1>2 DEF PreviewRow, NoPreview
<1> HIDE DEF row
<1>4. /\ previews' \in [Previews -> PreviewRow] /\ previews'[p] = row
      /\ \A o \in Previews : o # p => previews'[o] = previews[o]
  BY <1>1, <1>2, <1>3
<1>5. Onward
  BY <1>1, <1>2 DEF Onward
<1>6. \A o \in Previews : /\ previews'[o].discovered <= clock'
                          /\ previews'[o].state = "open" => previews'[o].file \in Files
  BY <1>1, <1>2, <1>3, <1>4 DEF ReportInv, Past
<1> QED
  BY <1>1, <1>4, <1>5, <1>6, StoringKeeps DEF ReportInv, ReportTypes, Past

\* A preview expires.
LEMMA ExpiryKeeps ==
    ASSUME ReportInv, NEW p \in Previews, PreviewExpires(p), UNCHANGED <<clock, newsVars, buildVars>>
    PROVE  ReportInv'
<1> DEFINE row == [NoPreview EXCEPT !.state = "expired"]
<1>1. /\ previews' = [previews EXCEPT ![p] = row]
      /\ UNCHANGED <<clock, news, builder, report, quotes>>
  BY DEF PreviewExpires, newsVars, buildVars
<1>2. clock \in Nat /\ previews \in [Previews -> PreviewRow]
  BY DEF ReportInv, ReportTypes
<1>3. row \in PreviewRow /\ row.discovered = 0 /\ row.state # "open"
  BY DEF PreviewRow, NoPreview
<1> HIDE DEF row
<1>4. /\ previews' \in [Previews -> PreviewRow] /\ previews'[p] = row
      /\ \A o \in Previews : o # p => previews'[o] = previews[o]
  BY <1>1, <1>2, <1>3
<1>5. Onward
  BY <1>1, <1>2 DEF Onward
<1>6. \A o \in Previews : /\ previews'[o].discovered <= clock'
                          /\ previews'[o].state = "open" => previews'[o].file \in Files
  BY <1>1, <1>2, <1>3, <1>4 DEF ReportInv, Past
<1> QED
  BY <1>1, <1>4, <1>5, <1>6, StoringKeeps DEF ReportInv, ReportTypes, Past

\* The rows of a preview that is imported are rows, and finite in number.
LEMMA NewRowsAreRows ==
    ASSUME ReportInv, NEW p \in Previews, previews[p].state = "open"
    PROVE  /\ RowsOf(p) \subseteq Rows /\ NewRows(p) \subseteq Rows
           /\ IsFiniteSet(NewRows(p)) /\ Cardinality(NewRows(p)) \in Nat
<1>1. previews[p].file \in Files
  BY DEF ReportInv, Past
<1>2. RowsOf(p) \subseteq Rows
  BY <1>1 DEF RowsOf, Rows
<1>3. NewRows(p) \subseteq Rows
  BY <1>2 DEF NewRows
<1>4. IsFiniteSet(NewRows(p))
  BY <1>3, QuotesAssumption, FS_Subset
<1> QED
  BY <1>2, <1>3, <1>4, FS_CardinalityType

\* A preview is imported.
LEMMA ImportKeeps ==
    ASSUME ReportInv, NEW p \in Previews, Import(p, clock), UNCHANGED <<clock, newsVars, buildVars>>
    PROVE  ReportInv'
<1> DEFINE row == [NoPreview EXCEPT !.state = "imported", !.inserted = Cardinality(NewRows(p))]
           stored(r) == [state |-> "stored", quality |-> RowQuality(r, previews[p].discovered),
                         discovered |-> previews[p].discovered, stored |-> clock]
           fresh(r) == r \in RowsOf(p) /\ quotes[r].state = "absent"
<1>1. /\ previews[p].state = "open"
      /\ previews' = [previews EXCEPT ![p] = row]
      /\ quotes' = [r \in Rows |-> IF fresh(r) THEN stored(r) ELSE quotes[r]]
      /\ UNCHANGED <<clock, news, builder, report>>
  BY DEF Import, newsVars, buildVars
<1>2. /\ clock \in Nat /\ previews \in [Previews -> PreviewRow] /\ quotes \in [Rows -> Quote]
      /\ previews[p].discovered \in Nat /\ previews[p].discovered <= clock
  BY DEF ReportInv, ReportTypes, Past, PreviewRow
<1>3. row \in PreviewRow /\ row.discovered = 0 /\ row.state # "open"
  BY <1>1, NewRowsAreRows DEF PreviewRow, NoPreview
<1> HIDE DEF row
<1>4. /\ previews' \in [Previews -> PreviewRow] /\ previews'[p] = row
      /\ \A o \in Previews : o # p => previews'[o] = previews[o]
  BY <1>1, <1>2, <1>3
<1>5. ASSUME NEW r \in Rows
      PROVE  /\ stored(r) \in Quote /\ stored(r).stored = clock
             /\ stored(r).discovered <= stored(r).stored
  BY <1>2 DEF Quote, RowQuality
<1> HIDE DEF stored
<1>6. \A r \in Rows : \/ fresh(r) /\ quotes'[r] = stored(r)
                      \/ ~fresh(r) /\ quotes'[r] = quotes[r]
  BY <1>1
<1>7. quotes' \in [Rows -> Quote]
  <2>1. \A r \in Rows : (IF fresh(r) THEN stored(r) ELSE quotes[r]) \in Quote
    BY <1>2, <1>5
  <2> HIDE DEF fresh
  <2> QED
    BY <1>1, <2>1
<1>8. Onward
  BY <1>1, <1>2, <1>5, <1>6 DEF Onward
<1>9. \A r \in Rows : quotes'[r].discovered <= quotes'[r].stored /\ quotes'[r].stored <= clock'
  <2>1. \A r \in Rows : quotes[r].discovered <= quotes[r].stored /\ quotes[r].stored <= clock
    BY DEF ReportInv, Past
  <2> HIDE DEF fresh
  <2> QED
    BY <1>1, <1>2, <1>5, <1>6, <2>1
<1>10. \A o \in Previews : /\ previews'[o].discovered <= clock'
                           /\ previews'[o].state = "open" => previews'[o].file \in Files
  BY <1>1, <1>2, <1>3, <1>4 DEF ReportInv, Past
<1> QED
  BY <1>1, <1>4, <1>7, <1>8, <1>9, <1>10, StoringKeeps DEF ReportInv, ReportTypes, Past

\* Time passes.
LEMMA ClockKeeps ==
    ASSUME ReportInv, UNCHANGED <<newsVars, builder, report, quoteVars>>, clock' \in {clock, clock + 1}
    PROVE  ReportInv'
<1>1. UNCHANGED <<news, quotes, previews>> /\ clock \in Nat
  BY DEF newsVars, quoteVars, ReportInv, ReportTypes
<1>2. Onward
  BY <1>1 DEF Onward
<1>3. /\ \A k \in NewsKeys : news[k].discovered \in Nat
      /\ \A r \in Rows : quotes[r].stored \in Nat /\ quotes[r].discovered \in Nat
      /\ \A p \in Previews : previews[p].discovered \in Nat
  BY DEF ReportInv, ReportTypes, Story, Quote, PreviewRow
<1>4. /\ \A k \in NewsKeys : news'[k].discovered <= clock'
      /\ \A r \in Rows : quotes'[r].discovered <= quotes'[r].stored /\ quotes'[r].stored <= clock'
      /\ \A p \in Previews : /\ previews'[p].discovered <= clock'
                             /\ previews'[p].state = "open" => previews'[p].file \in Files
  BY <1>1, <1>3 DEF ReportInv, Past
<1>5. /\ clock' \in Nat /\ news' \in [NewsKeys -> Story] /\ quotes' \in [Rows -> Quote]
      /\ previews' \in [Previews -> PreviewRow]
  BY <1>1 DEF ReportInv, ReportTypes
<1> QED
  BY <1>2, <1>4, <1>5, StoringKeeps

\* The steps of the quote files.
LEMMA QuotesKeep ==
    ASSUME ReportInv, QuotesNext
    PROVE  ReportInv'
<1>1. ASSUME NEW p \in Previews, ImportAgain(p), UNCHANGED <<clock, newsVars, buildVars>>
      PROVE  ReportInv'
  BY <1>1, ClockKeeps DEF ImportAgain, buildVars
<1> QED
  BY <1>1, PreviewKeeps, ImportKeeps, ExpiryKeeps DEF QuotesNext

\* What is known of a build before one of its steps.
LEMMA BuildRow ==
    ASSUME ReportInv, NEW b \in Builders
    PROVE  /\ DOMAIN builder = Builders
           /\ builder[b] = Row(builder[b].step, builder[b].cutoff, builder[b].records,
                               builder[b].events, builder[b].content)
           /\ builder[b].cutoff \in Nat /\ builder[b].cutoff <= clock /\ clock \in Nat
           /\ builder[b].content.cutoff \in Nat /\ builder[b].content.cutoff <= clock
           /\ CurrentTo(builder[b].content) /\ UndisputedTo(builder[b].content)
           /\ builder[b].step \in {"records", "events"} =>
                  CompleteTo(builder[b].records, builder[b].cutoff)
<1>1. builder[b].content \in Contents
  BY DEF Contents
<1>2. builder[b].step \in {"records", "events"} =>
          <<builder[b].records, builder[b].cutoff>> \in Snapshots
  BY DEF Snapshots
<1> QED
  BY <1>1, <1>2 DEF ReportInv, ReportTypes, Past, IsBuild, Row

\* A build that ends keeps nothing of what it had.
LEMMA EndingKeeps ==
    ASSUME ReportInv, NEW b \in Builders, NEW step \in {"committed", "over"},
           builder' = [builder EXCEPT ![b] = [NotBegun EXCEPT !.step = step]],
           UNCHANGED <<clock, newsVars, quoteVars>>, report' \in {report, builder[b].content}
    PROVE  ReportInv'
<1>1. Replaced(b, Row(step, 0, {}, {}, NoReport))
  BY BuildRow DEF Replaced, Row, NotBegun
<1>2. step \in BuildSteps /\ step \notin {"records", "events"}
  BY DEF BuildSteps
<1>3. NoReport.cutoff \in Nat /\ NoReport.cutoff <= clock /\ 0 <= clock
  BY NothingStated, BuildRow
<1> QED
  BY <1>1, <1>2, <1>3, NothingStated, BuildKeeps

\* A build that fails keeps what it has, and does not use it.
LEMMA FailingKeeps ==
    ASSUME ReportInv, NEW b \in Builders, Goto(b, "failing"),
           UNCHANGED <<clock, newsVars, report, quoteVars>>
    PROVE  ReportInv'
<1>1. PICK old : old = builder[b]
  OBVIOUS
<1>2. Replaced(b, Row("failing", old.cutoff, old.records, old.events, old.content))
  <2>1. old = Row(old.step, old.cutoff, old.records, old.events, old.content)
    BY <1>1, BuildRow
  <2>2. Row("failing", old.cutoff, old.records, old.events, old.content) = [old EXCEPT !.step = "failing"]
    BY <2>1 DEF Row
  <2>3. builder' = [builder EXCEPT ![b] = [old EXCEPT !.step = "failing"]]
    BY <1>1 DEF Goto
  <2> QED
    BY <2>2, <2>3, BuildRow DEF Replaced
<1>3. "failing" \in BuildSteps /\ "failing" \notin {"records", "events"}
  BY DEF BuildSteps
<1> QED
  BY <1>1, <1>2, <1>3, BuildRow, BuildKeeps

\* A builder reserves the day.
LEMMA ReserveKeeps ==
    ASSUME ReportInv, NEW b \in Builders, Reserve(b)
    PROVE  ReportInv'
<1>1. PICK old, now : old = builder[b] /\ now = clock
  OBVIOUS
<1>2. Replaced(b, Row("reserved", now, old.records, old.events, old.content))
  <2>1. old = Row(old.step, old.cutoff, old.records, old.events, old.content)
    BY <1>1, BuildRow
  <2>2. Row("reserved", now, old.records, old.events, old.content)
            = [old EXCEPT !.step = "reserved", !.cutoff = now]
    <3>1. [old EXCEPT !.step = "reserved"] = Row("reserved", old.cutoff, old.records, old.events, old.content)
      BY <2>1 DEF Row
    <3>2. [Row("reserved", old.cutoff, old.records, old.events, old.content) EXCEPT !.cutoff = now]
            = Row("reserved", now, old.records, old.events, old.content)
      BY DEF Row
    <3> QED
      BY <3>1, <3>2
  <2>3. builder' = [builder EXCEPT ![b] = [old EXCEPT !.step = "reserved", !.cutoff = now]]
    BY <1>1 DEF Reserve
  <2> QED
    BY <2>2, <2>3, BuildRow DEF Replaced
<1>3. "reserved" \in BuildSteps /\ "reserved" \notin {"records", "events"}
  BY DEF BuildSteps
<1>4. UNCHANGED <<clock, newsVars, report, quoteVars>>
  BY DEF Reserve
<1> QED
  BY <1>1, <1>2, <1>3, <1>4, BuildRow, BuildKeeps

\* The records read are complete to the cutoff: what is assessed only later was read too.
LEMMA SnapshotIsComplete ==
    ASSUME ReportInv, NEW cutoff \in Nat
    PROVE  CompleteTo(SnapshotRecords(cutoff), cutoff)
<1> DEFINE known == {n \in NewsKeys : news[n].state \in {"pending", "done"} /\ news[n].discovered <= cutoff}
           offered == {q \in StoredQuotes : quotes[q].quality = "valid" /\ quotes[q].discovered <= cutoff}
<1>1. SnapshotRecords(cutoff) = {NewsRecord(k) : k \in known} \cup {QuoteRecord(r) : r \in offered}
  BY DEF SnapshotRecords
<1>2. ASSUME NEW k \in NewsKeys
      PROVE  /\ NewsRecord(k).id = k[1] /\ NewsRecord(k).rev = k[2]
             /\ NewsRecord(k).discovered = news[k].discovered
             /\ k[1] \in NewsIds /\ k[2] \in Nat
  BY DEF NewsRecord, NewsKeys
<1>3. ASSUME NEW r \in SnapshotRecords(cutoff)
      PROVE  (r.id \in NewsIds /\ r.rev \in Nat) \/ \E q \in StoredQuotes : r = QuoteRecord(q)
  BY <1>1, <1>2
<1>4. ASSUME NEW n \in NewsKeys, news[n].state \in {"pending", "done"}, news[n].discovered < cutoff
      PROVE  \E r \in SnapshotRecords(cutoff) : r.id = n[1] /\ r.rev = n[2] /\ r.discovered <= cutoff
  <2>1. news[n].discovered <= cutoff
    BY <1>4 DEF ReportInv, ReportTypes, Story
  <2>2. NewsRecord(n) \in SnapshotRecords(cutoff)
    BY <1>1, <1>4, <2>1
  <2> QED
    BY <1>2, <2>1, <2>2
<1>5. ASSUME NEW q \in StoredQuotes, quotes[q].quality = "valid", quotes[q].stored < cutoff
      PROVE  QuoteRecord(q) \in SnapshotRecords(cutoff)
  <2>1. q \in Rows
    BY DEF StoredQuotes
  <2>2. quotes[q].discovered <= cutoff
    BY <1>5, <2>1 DEF ReportInv, ReportTypes, Quote, Past
  <2> QED
    BY <1>1, <1>5, <2>2
<1> QED
  BY <1>3, <1>4, <1>5 DEF CompleteTo

\* It reads the records.
LEMMA ReadRecordsKeeps ==
    ASSUME ReportInv, NEW b \in Builders, ReadRecords(b)
    PROVE  ReportInv'
<1>1. PICK old, read : old = builder[b] /\ read = SnapshotRecords(builder[b].cutoff)
  OBVIOUS
<1>2. Replaced(b, Row("records", old.cutoff, read, old.events, old.content))
  <2>1. old = Row(old.step, old.cutoff, old.records, old.events, old.content)
    BY <1>1, BuildRow
  <2>2. Row("records", old.cutoff, read, old.events, old.content)
            = [old EXCEPT !.step = "records", !.records = read]
    <3>1. [old EXCEPT !.step = "records"] = Row("records", old.cutoff, old.records, old.events, old.content)
      BY <2>1 DEF Row
    <3>2. [Row("records", old.cutoff, old.records, old.events, old.content) EXCEPT !.records = read]
            = Row("records", old.cutoff, read, old.events, old.content)
      BY DEF Row
    <3> QED
      BY <3>1, <3>2
  <2>3. builder' = [builder EXCEPT ![b] = [old EXCEPT !.step = "records", !.records = read]]
    BY <1>1 DEF ReadRecords
  <2> QED
    BY <2>2, <2>3, BuildRow DEF Replaced
<1>3. "records" \in BuildSteps
  BY DEF BuildSteps
<1>4. UNCHANGED <<clock, newsVars, report, quoteVars>>
  BY DEF ReadRecords
<1>5. CompleteTo(read, old.cutoff)
  BY <1>1, BuildRow, SnapshotIsComplete
<1> QED
  BY <1>1, <1>2, <1>3, <1>4, <1>5, BuildRow, BuildKeeps

\* It reads the events.
LEMMA ReadEventsKeeps ==
    ASSUME ReportInv, NEW b \in Builders, ReadEvents(b)
    PROVE  ReportInv'
<1>1. PICK old, read : old = builder[b] /\ read = CurrentEvents(events, builder[b].cutoff)
  OBVIOUS
<1>2. Replaced(b, Row("events", old.cutoff, old.records, read, old.content))
  <2>1. old = Row(old.step, old.cutoff, old.records, old.events, old.content)
    BY <1>1, BuildRow
  <2>2. Row("events", old.cutoff, old.records, read, old.content)
            = [old EXCEPT !.step = "events", !.events = read]
    <3>1. [old EXCEPT !.step = "events"] = Row("events", old.cutoff, old.records, old.events, old.content)
      BY <2>1 DEF Row
    <3>2. [Row("events", old.cutoff, old.records, old.events, old.content) EXCEPT !.events = read]
            = Row("events", old.cutoff, old.records, read, old.content)
      BY DEF Row
    <3> QED
      BY <3>1, <3>2
  <2>3. builder' = [builder EXCEPT ![b] = [old EXCEPT !.step = "events", !.events = read]]
    BY <1>1 DEF ReadEvents
  <2> QED
    BY <2>2, <2>3, BuildRow DEF Replaced
<1>3. "events" \in BuildSteps
  BY DEF BuildSteps
<1>4. UNCHANGED <<clock, newsVars, report, quoteVars>>
  BY DEF ReadEvents
<1>5. CompleteTo(old.records, old.cutoff)
  BY <1>1, BuildRow DEF ReadEvents
<1> QED
  BY <1>1, <1>2, <1>3, <1>4, <1>5, BuildRow, BuildKeeps

\* It builds what the report says.
LEMMA BuildingKeeps ==
    ASSUME ReportInv, NEW b \in Builders, Build(b)
    PROVE  ReportInv'
<1> DEFINE stated == Content(builder[b].records, builder[b].events,
                             {Observation(r) : r \in {q \in StoredQuotes :
                                 Line[q].asOf <= builder[b].cutoff}}, builder[b].cutoff)
<1>1. PICK old, content : old = builder[b] /\ content = stated
  OBVIOUS
<1>2. Replaced(b, Row("built", old.cutoff, {}, {}, content))
  <2>1. builder' = [builder EXCEPT ![b] = [builder[b] EXCEPT !.step = "built", !.records = {},
                                                             !.events = {}, !.content = stated]]
    BY DEF Build
  <2> HIDE DEF stated
  <2>2. old = Row(old.step, old.cutoff, old.records, old.events, old.content)
    BY <1>1, BuildRow
  <2>3. Row("built", old.cutoff, {}, {}, content)
            = [old EXCEPT !.step = "built", !.records = {}, !.events = {}, !.content = content]
    <3>1. [old EXCEPT !.step = "built"] = Row("built", old.cutoff, old.records, old.events, old.content)
      BY <2>2 DEF Row
    <3>2. [Row("built", old.cutoff, old.records, old.events, old.content) EXCEPT !.records = {}]
            = Row("built", old.cutoff, {}, old.events, old.content)
      BY DEF Row
    <3>3. [Row("built", old.cutoff, {}, old.events, old.content) EXCEPT !.events = {}]
            = Row("built", old.cutoff, {}, {}, old.content)
      BY DEF Row
    <3>4. [Row("built", old.cutoff, {}, {}, old.content) EXCEPT !.content = content]
            = Row("built", old.cutoff, {}, {}, content)
      BY DEF Row
    <3> QED
      BY <3>1, <3>2, <3>3, <3>4
  <2> QED
    BY <1>1, <2>1, <2>3, BuildRow DEF Replaced
<1>3. "built" \in BuildSteps /\ "built" \notin {"records", "events"}
  BY DEF BuildSteps
<1>4. UNCHANGED <<clock, newsVars, report, quoteVars>>
  BY DEF Build
<1>5. CompleteTo(builder[b].records, builder[b].cutoff)
  BY BuildRow DEF Build
<1>6. CurrentTo(stated)
  BY <1>5, BuildRow, FactsAreCurrent DEF ReportInv
<1>7. UndisputedTo(stated)
  BY <1>5, BuildRow, ChangesUndisputed DEF ReportInv
<1>8. stated.cutoff = builder[b].cutoff
  BY ContentParts
<1> HIDE DEF stated
<1>9. content.cutoff \in Nat /\ content.cutoff <= clock /\ CurrentTo(content) /\ UndisputedTo(content)
  BY <1>1, <1>6, <1>7, <1>8, BuildRow
<1> QED
  BY <1>1, <1>2, <1>3, <1>4, <1>9, BuildRow, BuildKeeps

\* The steps of one builder.
LEMMA BuilderKeeps ==
    ASSUME ReportInv, NEW b \in Builders, BuilderStep(b)
    PROVE  ReportInv'
<1>1. CASE Commit(b)
  BY <1>1, EndingKeeps DEF Commit
<1>2. CASE CommitRefused(b)
  BY <1>2, FailingKeeps DEF CommitRefused
<1>3. CASE RecordSuccess(b)
  BY <1>3, EndingKeeps DEF RecordSuccess, Over
<1>4. CASE RecordFailure(b)
  BY <1>4, EndingKeeps DEF RecordFailure, Over
<1> QED
  BY <1>1, <1>2, <1>3, <1>4, ReadRecordsKeeps, ReadEventsKeeps, BuildingKeeps DEF BuilderStep

\* The invariant holds at first.
LEMMA ReportStarts == ReportInit => ReportInv
<1> SUFFICES ASSUME ReportInit PROVE ReportInv
  OBVIOUS
<1>1. ReportTypes
  BY DEF ReportInit, QuotesInit, ReportTypes, Story, Quote, PreviewRow, NoNews, NoQuote, NoPreview,
         IsBuild, NotBegun, NoReport, BuildSteps
<1>2. Past
  BY DEF ReportInit, QuotesInit, Past, NoNews, NoQuote, NoPreview, NotBegun, NoReport
<1>3. Snapshots = {}
  BY DEF ReportInit, Snapshots, NotBegun
<1>4. Contents \subseteq {NoReport}
  BY DEF ReportInit, Contents, NotBegun
<1> QED
  BY <1>1, <1>2, <1>3, <1>4, NothingStated DEF ReportInv

\* Every step keeps it.
LEMMA ReportStep == ReportInv /\ [ReportNext]_reportVars => ReportInv'
<1> SUFFICES ASSUME ReportInv, [ReportNext]_reportVars PROVE ReportInv'
  OBVIOUS
<1>1. CASE UNCHANGED reportVars
  BY <1>1, ClockKeeps DEF reportVars, buildVars
<1>2. CASE Tick
  BY <1>2, ClockKeeps DEF Tick, buildVars
<1>3. CASE LeaseExpires
  BY <1>3, ClockKeeps DEF LeaseExpires
<1>4. ASSUME NEW b \in Builders, BuildFails(b) PROVE ReportInv'
  BY <1>4, FailingKeeps DEF BuildFails
<1>5. ASSUME NEW b \in Builders, Crash(b) PROVE ReportInv'
  BY <1>5, EndingKeeps DEF Crash, Over
<1> QED
  BY <1>1, <1>2, <1>3, <1>4, <1>5, NewsKeeps, QuotesKeep, ReserveKeeps, BuilderKeeps DEF ReportNext

\* In every reachable state, for any news, files and builds, the snapshots taken are
\* complete to their cutoffs and the reports in the making are right (build_daily).
THEOREM ReportInvariant == ReportSpec => []ReportInv
BY ReportStarts, ReportStep, PTL DEF ReportSpec

\* No fact of a committed report was out of date at its cutoff (report_snapshot,
\* SnapshotReportService.build).
THEOREM FactsAreNotSuperseded == ReportSpec => []FactsWereCurrent
<1>1. ReportInv => FactsWereCurrent
  <2> SUFFICES ASSUME ReportInv PROVE FactsWereCurrent
    OBVIOUS
  <2>1. report \in Contents
    BY DEF Contents
  <2>2. CurrentTo(report)
    BY <2>1 DEF ReportInv
  <2> QED
    BY <2>2 DEF CurrentTo, FactsWereCurrent
<1> QED
  BY <1>1, ReportInvariant, PTL

\* A change of price that a committed report states is the difference of quotes
\* that no other quote known by the cutoff disputes (report_snapshot, PriceChange).
THEOREM ChangesWereUndisputed == ReportSpec => []ChangesAreUndisputed
<1>1. ReportInv => ChangesAreUndisputed
  <2> SUFFICES ASSUME ReportInv PROVE ChangesAreUndisputed
    OBVIOUS
  <2>1. report \in Contents
    BY DEF Contents
  <2>2. UndisputedTo(report)
    BY <2>1 DEF ReportInv
  <2> QED
    BY <2>2 DEF UndisputedTo, Comparable, ChangesAreUndisputed
<1> QED
  BY <1>1, ReportInvariant, PTL

\* A committed report is never replaced: every commit needs the day to have none,
\* under the lock of its row (commit_report).
THEOREM OneReportADay == ReportSpec => ReportIsFinal
<1> DEFINE Final == report # NoReport => report' = report
<1>1. [ReportNext]_reportVars => [Final]_reportVars
  <2> SUFFICES ASSUME ReportNext PROVE Final
    OBVIOUS
  <2>1. CASE NewsNext \/ QuotesNext
    BY <2>1 DEF NewsNext, QuotesNext, StoreNews, Assess, AssessmentFails, buildVars
  <2>2. CASE Tick \/ LeaseExpires
    BY <2>2 DEF Tick, LeaseExpires, buildVars
  <2>3. ASSUME NEW b \in Builders, Reserve(b) \/ BuildFails(b) \/ Crash(b) PROVE Final
    BY <2>3 DEF Reserve, BuildFails, Crash
  <2>4. ASSUME NEW b \in Builders, BuilderStep(b) PROVE Final
    BY <2>4 DEF BuilderStep, ReadRecords, ReadEvents, Build, Commit, HoldsLease, CommitRefused,
                RecordSuccess, RecordFailure
  <2> QED
    BY <2>1, <2>2, <2>3, <2>4 DEF ReportNext
<1> QED
  BY <1>1, PTL DEF ReportSpec, ReportIsFinal

-----------------------------------------------------------------------------
(* The imports add up.                                                     *)

\* The answers of a table of previews add up to the number of rows.
SumsTo(table, listed) == MapThenSumSet(LAMBDA p : table[p].inserted, Previews) = Cardinality(listed)

\* The sum over the previews that ImportsAddUp speaks of, as a function on the sets
\* of previews.
LEMMA SumOfInserted ==
    ASSUME NEW table, NEW listed
    PROVE  \E F : /\ Adds(F, [p \in Previews |-> table[p].inserted], Previews)
                  /\ SumsTo(table, listed) <=> F[Previews] = Cardinality(listed)
<1> DEFINE g == [p \in Previews |-> table[p].inserted]
           Sums(F) == F = [s \in SUBSET Previews |->
                              IF s = {} THEN 0
                              ELSE table[CHOOSE x \in s : TRUE].inserted
                                   + F[s \ {CHOOSE x \in s : TRUE}]]
           sum == CHOOSE F : Sums(F)
<1>1. SumsTo(table, listed) <=> sum[Previews] = Cardinality(listed)
  BY DEF SumsTo, MapThenSumSet, MapThenFoldSet
<1>2. ASSUME NEW F PROVE Adds(F, g, Previews) <=> Sums(F)
  <2>1. ASSUME NEW s \in SUBSET Previews
        PROVE  (IF s = {} THEN 0 ELSE g[CHOOSE x \in s : TRUE] + F[s \ {CHOOSE x \in s : TRUE}])
               = (IF s = {} THEN 0 ELSE table[CHOOSE x \in s : TRUE].inserted
                                        + F[s \ {CHOOSE x \in s : TRUE}])
    OBVIOUS
  <2>2. [s \in SUBSET Previews |->
            IF s = {} THEN 0 ELSE g[CHOOSE x \in s : TRUE] + F[s \ {CHOOSE x \in s : TRUE}]]
        = [s \in SUBSET Previews |->
            IF s = {} THEN 0 ELSE table[CHOOSE x \in s : TRUE].inserted
                                  + F[s \ {CHOOSE x \in s : TRUE}]]
    BY <2>1
  <2> HIDE DEF g
  <2> QED
    BY <2>2 DEF Adds
<1>3. \E F : Adds(F, g, Previews)
  BY QuotesAssumption, SumsExist
<1> HIDE DEF g, Sums
<1>4. Sums(sum)
  BY <1>2, <1>3
<1> HIDE DEF sum
<1>5. Adds(sum, g, Previews)
  BY <1>2, <1>4
<1> QED
  BY <1>1, <1>5 DEF g

\* One preview inserts what is stored on top.
LEMMA InsertedGrows ==
    ASSUME ReportInv, ReportInv', ImportsAddUp, NEW p \in Previews, previews[p].inserted = 0,
           \A o \in Previews : o # p => previews'[o] = previews[o],
           Cardinality(StoredQuotes') = Cardinality(StoredQuotes) + previews'[p].inserted
    PROVE  ImportsAddUp'
<1>1. PICK before, after, held, now :
          before = previews /\ after = previews' /\ held = StoredQuotes /\ now = StoredQuotes'
  OBVIOUS
<1> DEFINE g == [o \in Previews |-> before[o].inserted]
           h == [o \in Previews |-> after[o].inserted]
<1>2. g \in [Previews -> Nat] /\ h \in [Previews -> Nat]
  BY <1>1 DEF ReportInv, ReportTypes, PreviewRow
<1>3. g[p] = 0 /\ h[p] = after[p].inserted /\ \A o \in Previews \ {p} : h[o] = g[o]
  BY <1>1
<1>4. PICK F : Adds(F, g, Previews) /\ (SumsTo(before, held) <=> F[Previews] = Cardinality(held))
  BY SumOfInserted
<1>5. PICK G : Adds(G, h, Previews) /\ (SumsTo(after, now) <=> G[Previews] = Cardinality(now))
  BY SumOfInserted
<1>6. SumsTo(before, held)
  BY <1>1 DEF ImportsAddUp, SumsTo
<1> HIDE DEF g, h
<1>7. G[Previews] = F[Previews] + h[p]
  <2>1. IsFiniteSet(Previews)
    BY QuotesAssumption
  <2>2. Adds(F, g, Previews) /\ Adds(G, h, Previews)
    BY <1>4, <1>5
  <2>3. g[p] = 0 /\ \A x \in Previews \ {p} : h[x] = g[x]
    BY <1>3
  <2> QED
    BY ONLY <1>2, <2>1, <2>2, <2>3, p \in Previews, SumGrows
<1>8. SumsTo(after, now)
  <2>1. F[Previews] = Cardinality(held)
    BY <1>4, <1>6
  <2>2. Cardinality(now) = Cardinality(held) + after[p].inserted
    BY <1>1
  <2>3. G[Previews] = Cardinality(now)
    BY <1>3, <1>7, <2>1, <2>2
  <2> QED
    BY <1>5, <2>3
<1>9. SumsTo(previews', StoredQuotes')
  BY <1>1, <1>8
<1> QED
  BY <1>9 DEF ImportsAddUp, SumsTo, MapThenSumSet, MapThenFoldSet

\* An import stores as many quotes as it answers.
LEMMA ImportCounts ==
    ASSUME ReportInv, NEW p \in Previews, Import(p, clock)
    PROVE  Cardinality(StoredQuotes') = Cardinality(StoredQuotes) + Cardinality(NewRows(p))
<1>1. /\ previews[p].state = "open"
      /\ quotes' = [r \in Rows |->
                      IF r \in RowsOf(p) /\ quotes[r].state = "absent"
                      THEN [state |-> "stored", quality |-> RowQuality(r, previews[p].discovered),
                            discovered |-> previews[p].discovered, stored |-> clock]
                      ELSE quotes[r]]
  BY DEF Import
<1>2. NewRows(p) \subseteq Rows /\ IsFiniteSet(NewRows(p)) /\ Cardinality(NewRows(p)) \in Nat
  BY <1>1, NewRowsAreRows
<1>3. StoredQuotes \subseteq Rows
  BY DEF StoredQuotes
<1>4. IsFiniteSet(StoredQuotes)
  BY <1>3, QuotesAssumption, FS_Subset
<1>5. ASSUME NEW r \in Rows PROVE quotes'[r].state = "stored" <=> r \in StoredQuotes \cup NewRows(p)
  BY <1>1 DEF StoredQuotes, NewRows
<1>6. StoredQuotes' = StoredQuotes \cup NewRows(p)
  BY <1>2, <1>3, <1>5 DEF StoredQuotes
<1>7. StoredQuotes \cap NewRows(p) = {}
  BY DEF StoredQuotes, NewRows
<1>8. Cardinality(StoredQuotes \cup NewRows(p))
          = Cardinality(StoredQuotes) + Cardinality(NewRows(p)) - Cardinality(StoredQuotes \cap NewRows(p))
  BY <1>2, <1>4, FS_Union
<1>9. Cardinality(StoredQuotes \cap NewRows(p)) = 0 /\ Cardinality(StoredQuotes) \in Nat
  BY <1>4, <1>7, FS_EmptySet, FS_CardinalityType
<1> QED
  BY <1>2, <1>6, <1>8, <1>9

\* The answers add up at first.
LEMMA ImportsStart == ReportInit => ImportsInv
<1> SUFFICES ASSUME ReportInit PROVE ImportsInv
  OBVIOUS
<1>1. PICK table, held : table = previews /\ held = StoredQuotes
  OBVIOUS
<1> DEFINE g == [p \in Previews |-> table[p].inserted]
<1>2. \A p \in Previews : previews[p].inserted = 0 /\ g[p] = 0
  BY <1>1 DEF ReportInit, QuotesInit, NoPreview
<1>3. PICK F : Adds(F, g, Previews) /\ (SumsTo(table, held) <=> F[Previews] = Cardinality(held))
  BY SumOfInserted
<1> HIDE DEF g
<1>4. F[Previews] = 0
  BY <1>2, <1>3, QuotesAssumption, SumOfZeros
<1>5. StoredQuotes = {}
  BY DEF ReportInit, QuotesInit, NoQuote, StoredQuotes
<1>6. Cardinality(held) = 0
  BY <1>1, <1>5, FS_EmptySet
<1>7. ImportsAddUp
  BY <1>1, <1>3, <1>4, <1>6 DEF ImportsAddUp, SumsTo
<1> QED
  BY <1>2, <1>7 DEF ImportsInv

\* Every step keeps the sum.
LEMMA ImportsStep == ReportInv /\ ImportsInv /\ ReportInv' /\ [ReportNext]_reportVars => ImportsInv'
<1> SUFFICES ASSUME ReportInv, ImportsInv, ReportInv', [ReportNext]_reportVars PROVE ImportsInv'
  OBVIOUS
<1>1. CASE UNCHANGED quoteVars
  <2>1. PICK table, held : table = previews /\ held = StoredQuotes
    OBVIOUS
  <2>2. table = previews' /\ held = StoredQuotes'
    BY <1>1, <2>1 DEF StoredQuotes, quoteVars
  <2>3. SumsTo(table, held)
    BY <2>1 DEF ImportsInv, ImportsAddUp, SumsTo
  <2>4. SumsTo(previews', StoredQuotes')
    BY <2>2, <2>3
  <2>5. ImportsAddUp'
    BY <2>4 DEF ImportsAddUp, SumsTo, MapThenSumSet, MapThenFoldSet
  <2> QED
    BY <1>1, <2>5 DEF ImportsInv, quoteVars
<1>2. ASSUME NEW p \in Previews, NEW row,
             previews[p].state # "imported", previews' = [previews EXCEPT ![p] = row],
             row.state # "imported" => row.inserted = 0,
             Cardinality(StoredQuotes') = Cardinality(StoredQuotes) + row.inserted
      PROVE  ImportsInv'
  <2>1. previews'[p] = row /\ \A o \in Previews : o # p => previews'[o] = previews[o]
    BY <1>2 DEF ReportInv, ReportTypes
  <2>2. previews[p].inserted = 0
    BY <1>2 DEF ImportsInv
  <2>3. ImportsAddUp'
    BY <1>2, <2>1, <2>2, InsertedGrows DEF ImportsInv
  <2> QED
    BY <1>2, <2>1, <2>3 DEF ImportsInv
<1>3. Cardinality(StoredQuotes) \in Nat
  BY QuotesAssumption, FS_Subset, FS_CardinalityType DEF StoredQuotes
<1>4. ASSUME NEW p \in Previews, NEW f \in Files, Preview(p, f, clock) PROVE ImportsInv'
  <2>1. PICK row : row = [NoPreview EXCEPT !.state = "open", !.file = f, !.discovered = clock]
    OBVIOUS
  <2>2. row.state = "open" /\ row.inserted = 0
    BY <2>1 DEF NoPreview
  <2>3. StoredQuotes' = StoredQuotes
    BY <1>4 DEF Preview, StoredQuotes
  <2>4. previews[p].state = "none" /\ previews' = [previews EXCEPT ![p] = row]
    BY <1>4, <2>1 DEF Preview
  <2>5. Cardinality(StoredQuotes') = Cardinality(StoredQuotes) + row.inserted
    BY <1>3, <2>2, <2>3
  <2> QED
    BY <1>2, <2>2, <2>4, <2>5
<1>5. ASSUME NEW p \in Previews, PreviewExpires(p) PROVE ImportsInv'
  <2>1. PICK row : row = [NoPreview EXCEPT !.state = "expired"]
    OBVIOUS
  <2>2. row.state = "expired" /\ row.inserted = 0
    BY <2>1 DEF NoPreview
  <2>3. StoredQuotes' = StoredQuotes
    BY <1>5 DEF PreviewExpires, StoredQuotes
  <2>4. previews[p].state = "open" /\ previews' = [previews EXCEPT ![p] = row]
    BY <1>5, <2>1 DEF PreviewExpires
  <2>5. Cardinality(StoredQuotes') = Cardinality(StoredQuotes) + row.inserted
    BY <1>3, <2>2, <2>3
  <2> QED
    BY <1>2, <2>2, <2>4, <2>5
<1>6. ASSUME NEW p \in Previews, Import(p, clock) PROVE ImportsInv'
  <2>1. PICK row : row = [NoPreview EXCEPT !.state = "imported", !.inserted = Cardinality(NewRows(p))]
    OBVIOUS
  <2>2. row.state = "imported" /\ row.inserted = Cardinality(NewRows(p))
    BY <2>1 DEF NoPreview
  <2>3. previews[p].state = "open" /\ previews' = [previews EXCEPT ![p] = row]
    BY <1>6, <2>1 DEF Import
  <2> QED
    BY <1>2, <1>6, <2>2, <2>3, ImportCounts
<1> QED
  BY <1>1, <1>4, <1>5, <1>6 DEF ReportNext, reportVars, QuotesNext, NewsNext, StoreNews, Assess,
     AssessmentFails, ImportAgain, Tick, Reserve, BuilderStep, ReadRecords, ReadEvents, Build, Commit,
     CommitRefused, RecordSuccess, RecordFailure, BuildFails, Crash, LeaseExpires

\* What the imports answered is what is stored: no row is counted twice and none
\* is lost (import_preview's immutable rows).
THEOREM ImportsAnswerTruly == ReportSpec => []ImportsAddUp
<1>1. ReportSpec => []ImportsInv
  BY ReportInvariant, ImportsStart, ImportsStep, PTL DEF ReportSpec
<1>2. ImportsInv => ImportsAddUp
  BY DEF ImportsInv
<1> QED
  BY <1>1, <1>2, PTL

\* The day's row has its two parts.
DayTypes == ReportTypeOK /\ day \in [token : 0..Attempts, lease : {"none", "live", "expired"}]

\* The variables of the report have their types (the columns of subjects and
\* subject_versions and the row of runtime_health).
THEOREM ReportTypesHold == ReportSpec => []ReportTypeOK
<1>0. /\ {MaxClock, MaxFailures, Attempts} \subseteq Nat
      /\ 0 \in 0..MaxClock /\ 0 \in 0..MaxFailures /\ 0 \in 0..Attempts
      /\ \A b \in Builders : b \in 0..Attempts
  BY DailyReportAssumption DEF Builders
<1>1. ReportInit => DayTypes
  BY <1>0 DEF ReportInit, DayTypes, ReportTypeOK, NoNews, NotBegun, BuildSteps
<1>2. ReportInv /\ DayTypes /\ ReportInv' /\ [ReportNext]_reportVars => DayTypes'
  <2> SUFFICES ASSUME ReportInv, DayTypes, ReportInv', [ReportNext]_reportVars PROVE DayTypes'
    OBVIOUS
  <2>1. /\ \A k \in NewsKeys : news'[k].state \in {"absent", "pending", "done", "failed", "quarantined"}
        /\ \A b \in Builders : builder'[b].step \in BuildSteps
    BY DEF ReportInv, ReportTypes, Story, NewsKeys
  <2>2. clock' \in 0..MaxClock
    <3>1. CASE Tick
      BY <1>0, <3>1 DEF Tick, DayTypes, ReportTypeOK
    <3>2. CASE ~Tick
      <4>1. clock' = clock
        BY <3>2 DEF ReportNext, reportVars, NewsNext, QuotesNext, StoreNews, Assess, AssessmentFails,
           Reserve, BuilderStep, ReadRecords, ReadEvents, Build, Commit, CommitRefused, RecordSuccess,
           RecordFailure, BuildFails, Crash, LeaseExpires
      <4> QED
        BY <4>1 DEF DayTypes, ReportTypeOK
    <3> QED
      BY <3>1, <3>2
  <2>3. day' \in [token : 0..Attempts, lease : {"none", "live", "expired"}]
    <3>1. ASSUME NEW b \in Builders, Reserve(b) PROVE day' = [token |-> b, lease |-> "live"]
      BY <3>1 DEF Reserve
    <3>2. ASSUME NEW b \in Builders, Commit(b) PROVE day' = [token |-> 0, lease |-> "none"]
      BY <3>2 DEF Commit
    <3>3. CASE LeaseExpires
      BY <3>3 DEF LeaseExpires, DayTypes
    <3>4. CASE ~LeaseExpires /\ (\A b \in Builders : ~Reserve(b) /\ ~Commit(b))
      <4>1. day' = day
        BY <3>4 DEF ReportNext, reportVars, buildVars, NewsNext, QuotesNext, StoreNews, Assess,
           AssessmentFails, Tick, BuilderStep, ReadRecords, ReadEvents, Build, CommitRefused,
           RecordSuccess, RecordFailure, BuildFails, Crash
      <4> QED
        BY <4>1 DEF DayTypes
    <3> QED
      BY <1>0, <3>1, <3>2, <3>3, <3>4
  <2>4. health' \in {"none", "ok", "degraded"}
    BY DEF DayTypes, ReportTypeOK, ReportNext, reportVars, buildVars, NewsNext, QuotesNext, StoreNews,
       Assess, AssessmentFails, Tick, Reserve, BuilderStep, ReadRecords, ReadEvents, Build, Commit,
       CommitRefused, RecordSuccess, RecordFailure, BuildFails, Crash, LeaseExpires
  <2>5. failures' \in 0..MaxFailures
    <3>1. failures' = failures \/ (failures < MaxFailures /\ failures' = failures + 1)
      BY DEF ReportNext, reportVars, buildVars, NewsNext, QuotesNext, StoreNews, Assess,
         AssessmentFails, Tick, Reserve, BuilderStep, ReadRecords, ReadEvents, Build, Commit,
         CommitRefused, RecordSuccess, RecordFailure, BuildFails, Crash, LeaseExpires
    <3> QED
      BY <1>0, <3>1 DEF DayTypes, ReportTypeOK
  <2> QED
    BY <2>1, <2>2, <2>3, <2>4, <2>5 DEF DayTypes, ReportTypeOK, NewsKeys
<1>3. DayTypes => ReportTypeOK
  BY DEF DayTypes
<1> QED
  BY <1>1, <1>2, <1>3, ReportInvariant, PTL DEF ReportSpec

-----------------------------------------------------------------------------
(* The pure algorithms, for every input: the verdicts of assessment.py and
   the comparisons and statements of SnapshotReportService.build.          *)

\* The words of a text only ever lower what was proposed of it: an occurrence is
\* one that was proposed, of a usable record, with no word against it
\* (guarded_status).
THEOREM TextOnlyLowers ==
    ASSUME NEW r, NEW proposed, NEW now, Guarded(r, proposed, now) = "occurred"
    PROVE  /\ proposed = "occurred"
           /\ r.quality = "valid" /\ ~Future(r, now)
           /\ r.cues \cap {"denial", "plan", "doubt", "archive", "blocker", "casualty_only"} = {}
<1>1. proposed = "occurred"
  BY DEF Guarded
<1>2. /\ "casualty_only" \notin r.cues /\ "denial" \notin r.cues /\ "plan" \notin r.cues
      /\ ~Future(r, now) /\ r.quality = "valid" /\ "blocker" \notin r.cues
      /\ r.cues \cap {"doubt", "archive"} = {}
  BY <1>1 DEF Guarded
<1> QED
  BY <1>1, <1>2

\* A record that is verified was reviewed or has its one rule: its basis does not
\* depend on what the model claims.
LEMMA VerifiedBasis ==
    ASSUME NEW r, NEW reviews, NEW claims, NEW others, NEW now, Verified(r, reviews, claims, now)
    PROVE  Basis(r, reviews, others, now) = Basis(r, reviews, claims, now)
<1>1. CASE <<r.id, r.rev>> \in DOMAIN reviews
  BY <1>1 DEF Basis
<1>2. CASE <<r.id, r.rev>> \notin DOMAIN reviews /\ Matches(r, now) # {}
  BY <1>2 DEF Basis
<1>3. CASE <<r.id, r.rev>> \notin DOMAIN reviews /\ Matches(r, now) = {}
  <2>1. Basis(r, reviews, claims, now).standing = "open"
    BY <1>3 DEF Basis
  <2> QED
    BY <2>1 DEF Verified
<1> QED
  BY <1>1, <1>2, <1>3

\* The verdict of a group: it is credible only if every one of its newest records
\* is verified, and then all of them say the same.
LEMMA CredibleVerdict ==
    ASSUME NEW records, NEW reviews, NEW claims, NEW now,
           Judge(records, reviews, claims, now).standing
               \in {"credible_single_source", "independent_multi_source"}
    PROVE  \A r \in Newest(records) : Verified(r, reviews, claims, now)
BY DEF Judge

\* The model convinces nobody: a verdict that is credible would be the same had
\* the model claimed something else, or nothing (_validate).
THEOREM ModelsDoNotConvince ==
    ASSUME NEW records, NEW reviews, NEW claims, NEW others, NEW now,
           Judge(records, reviews, claims, now).standing
               \in {"credible_single_source", "independent_multi_source"}
    PROVE  Judge(records, reviews, others, now) = Judge(records, reviews, claims, now)
<1>1. \A r \in Newest(records) : Basis(r, reviews, others, now) = Basis(r, reviews, claims, now)
  BY CredibleVerdict, VerifiedBasis
<1>2. ASSUME NEW r \in Newest(records)
      PROVE  /\ StatusOf(r, reviews, others, now) = StatusOf(r, reviews, claims, now)
             /\ Verified(r, reviews, others, now) <=> Verified(r, reviews, claims, now)
             /\ SeverityOf(r, reviews, others, now) = SeverityOf(r, reviews, claims, now)
  <2>1. Basis(r, reviews, others, now) = Basis(r, reviews, claims, now)
    BY <1>1
  <2>2. StatusOf(r, reviews, others, now) = StatusOf(r, reviews, claims, now)
    BY <2>1 DEF StatusOf
  <2>3. Verified(r, reviews, others, now) <=> Verified(r, reviews, claims, now)
    BY <2>1, <2>2 DEF Verified
  <2> QED
    BY <2>1, <2>2, <2>3 DEF SeverityOf
<1> DEFINE group == Newest(records)
<1>3. /\ {StatusOf(r, reviews, others, now) : r \in group} = {StatusOf(r, reviews, claims, now) : r \in group}
      /\ (\A r \in group : Verified(r, reviews, others, now))
             <=> (\A r \in group : Verified(r, reviews, claims, now))
      /\ {SeverityOf(r, reviews, others, now) : r \in group} = {SeverityOf(r, reviews, claims, now) : r \in group}
  <2> HIDE DEF group
  <2>1. \A r \in group : /\ StatusOf(r, reviews, others, now) = StatusOf(r, reviews, claims, now)
                         /\ Verified(r, reviews, others, now) <=> Verified(r, reviews, claims, now)
                         /\ SeverityOf(r, reviews, others, now) = SeverityOf(r, reviews, claims, now)
    BY <1>2 DEF group
  <2> QED
    BY <2>1
<1> DEFINE Verdict(statuses, verified, severities) ==
               LET standing == IF Cardinality(statuses) > 1 THEN "conflicting"
                               ELSE IF verified /\ Cardinality(Origins(group)) > 1 THEN "independent_multi_source"
                               ELSE IF verified /\ Origins(group) \subseteq Trusted THEN "credible_single_source"
                               ELSE "unverified"
               IN  [status |-> IF Cardinality(statuses) = 1 THEN CHOOSE s \in statuses : TRUE ELSE "unknown",
                    standing |-> standing,
                    severity |-> IF standing \in {"unverified", "conflicting"} THEN "routine"
                                 ELSE Highest(severities),
                    cites |-> {<<r.id, r.rev>> : r \in group}]
<1>4. \A model : Judge(records, reviews, model, now)
                    = Verdict({StatusOf(r, reviews, model, now) : r \in group},
                              \A r \in group : Verified(r, reviews, model, now),
                              {SeverityOf(r, reviews, model, now) : r \in group})
  BY Zenon DEF Judge
<1>5. (\A r \in group : Verified(r, reviews, others, now))
          = (\A r \in group : Verified(r, reviews, claims, now))
  BY <1>3
<1> HIDE DEF group, Verdict
<1> QED
  BY <1>3, <1>4, <1>5, Zenon

\* The highest of some severities is one of them.
LEMMA HighestIsOne ==
    ASSUME NEW S \in SUBSET Severities, S # {}
    PROVE  Highest(S) \in S
<1>1. Rank["routine"] = 0 /\ Rank["important"] = 1 /\ Rank["urgent"] = 2
  BY DEF Rank, Severities
<1>2. \E s \in S : \A o \in S : Rank[o] <= Rank[s]
  <2>1. CASE "urgent" \in S
    BY <1>1, <2>1 DEF Severities
  <2>2. CASE "urgent" \notin S /\ "important" \in S
    <3>1. \A o \in S : o \in {"routine", "important"}
      BY <2>2 DEF Severities
    <3>2. \A o \in S : Rank[o] <= 1
      BY <1>1, <3>1
    <3> QED
      BY <1>1, <2>2, <3>2
  <2>3. CASE "urgent" \notin S /\ "important" \notin S
    <3>1. \A o \in S : o = "routine"
      BY <2>3 DEF Severities
    <3>2. "routine" \in S /\ \A o \in S : Rank[o] <= 0
      BY <1>1, <3>1
    <3> QED
      BY <1>1, <3>2
  <2> QED
    BY <2>1, <2>2, <2>3
<1> QED
  BY <1>2 DEF Highest

\* The severity an assessment starts from is one of the three.
LEMMA BasisSeverity ==
    ASSUME NEW r, NEW reviews, NEW claims, NEW now,
           \A k \in DOMAIN reviews : reviews[k].severity \in Severities
    PROVE  Basis(r, reviews, claims, now).severity \in Severities
<1>1. "routine" \in Severities
  BY DEF Severities
<1>2. \A p \in Matches(r, now) : p.rule.severity \in Severities
  BY JudgementAssumption DEF Matches, Applicable
<1>3. CASE <<r.id, r.rev>> \in DOMAIN reviews
  BY <1>3 DEF Basis
<1>4. CASE <<r.id, r.rev>> \notin DOMAIN reviews /\ Matches(r, now) # {}
  <2>1. (CHOOSE p \in Matches(r, now) : TRUE) \in Matches(r, now)
    BY <1>4
  <2>2. Basis(r, reviews, claims, now).severity = (CHOOSE p \in Matches(r, now) : TRUE).rule.severity
    BY <1>4 DEF Basis
  <2> QED
    BY <1>2, <2>1, <2>2
<1>5. CASE <<r.id, r.rev>> \notin DOMAIN reviews /\ Matches(r, now) = {}
  BY <1>1, <1>5 DEF Basis
<1> QED
  BY <1>3, <1>4, <1>5

\* Nobody is alarmed without a reason: a verdict above routine has only verified
\* records, and one of them is a recent occurrence, of a usable text with no word
\* against it, to which a review or an approved rule gives that severity (_validate).
THEOREM AlarmsHaveAReason ==
    ASSUME NEW records, NEW reviews, NEW claims, NEW now,
           \A k \in DOMAIN reviews : reviews[k].severity \in Severities,
           Judge(records, reviews, claims, now).severity # "routine",
           Newest(records) # {}
    PROVE  /\ \A r \in Newest(records) : Verified(r, reviews, claims, now)
           /\ \E r \in Newest(records) :
                  /\ Basis(r, reviews, claims, now).severity = Judge(records, reviews, claims, now).severity
                  /\ Fresh(r, now) /\ r.quality = "valid" /\ ~Future(r, now)
                  /\ r.cues \cap {"denial", "plan", "doubt", "archive", "blocker", "casualty_only"} = {}
<1> DEFINE group == Newest(records)
           S == {SeverityOf(r, reviews, claims, now) : r \in group}
           verdict == Judge(records, reviews, claims, now)
<1>1. verdict.standing \notin {"unverified", "conflicting"} /\ verdict.severity = Highest(S)
  BY DEF Judge
<1>2. verdict.standing \in {"credible_single_source", "independent_multi_source"}
  BY <1>1 DEF Judge
<1>3. \A r \in group : Verified(r, reviews, claims, now)
  BY <1>2, CredibleVerdict
<1>4. \A r \in group : SeverityOf(r, reviews, claims, now) \in Severities
  BY BasisSeverity DEF SeverityOf, Severities
<1>5. S \in SUBSET Severities /\ S # {}
  <2> HIDE DEF group
  <2>1. group # {}
    BY DEF group
  <2> QED
    BY <1>4, <2>1
<1>6. Highest(S) \in S
  <2> HIDE DEF S
  <2> QED
    BY <1>5, HighestIsOne
<1>7. PICK r \in group : SeverityOf(r, reviews, claims, now) = verdict.severity
  BY <1>1, <1>6
<1>8. /\ verdict.severity = Basis(r, reviews, claims, now).severity
      /\ Fresh(r, now) /\ StatusOf(r, reviews, claims, now) = "occurred"
  BY <1>7 DEF SeverityOf
<1>9. /\ r.quality = "valid" /\ ~Future(r, now)
      /\ r.cues \cap {"denial", "plan", "doubt", "archive", "blocker", "casualty_only"} = {}
  <2>1. Guarded(r, Basis(r, reviews, claims, now).status, now) = "occurred"
    BY <1>8 DEF StatusOf
  <2> QED
    BY <2>1, TextOnlyLowers
<1> QED
  BY <1>3, <1>8, <1>9

\* An impact is discussed only of what is quoted as a fact, put on the watch list
\* and read from an available text with no word against it
\* (SnapshotReportService.build).
THEOREM ImpactsAreQuotedAndWatched ==
    ASSUME NEW records, NEW versions, NEW observations, NEW cutoff
    PROVE  LET content == Content(records, versions, observations, cutoff)
           IN  /\ content.impacts \subseteq content.facts \cap content.watched
               /\ \A k \in content.impacts : \E r \in Available(records, cutoff) :
                     k = <<r.id, r.rev>> /\ Guarded(r, "occurred", cutoff) = "occurred"
<1> DEFINE available == Available(records, cutoff)
           standing == CurrentEvents(versions, cutoff)
           content == Content(records, versions, observations, cutoff)
<1>1. /\ content.facts = Facts(standing, available)
      /\ content.impacts = Impacts(standing, available, cutoff)
      /\ content.watched = Watched(standing, available, cutoff)
  BY DEF Content
<1> HIDE DEF available, standing, content
<1>2. ASSUME NEW k \in Impacts(standing, available, cutoff)
      PROVE  /\ k \in Facts(standing, available)
             /\ \E r \in available : k = <<r.id, r.rev>> /\ Guarded(r, "occurred", cutoff) = "occurred"
  <2>1. PICK e \in standing : Usable(e, available, cutoff) /\ k \in Affecting(e, available)
    BY DEF Impacts
  <2>2. PICK r \in available : k = <<r.id, r.rev>> /\ k \in e.verdict.cites
    BY <2>1 DEF Affecting
  <2>3. Supported(e, available) /\ Guarded(r, "occurred", cutoff) = "occurred"
    BY <2>1, <2>2 DEF Usable
  <2> QED
    BY <2>2, <2>3 DEF Facts
<1>3. Impacts(standing, available, cutoff) \subseteq Watched(standing, available, cutoff)
  BY DEF Watched
<1> QED
  BY <1>1, <1>2, <1>3 DEF available, content

\* The comparison of prices is right: of quotes that do not dispute each other it
\* finds the change there is, and none where there is none (the metrics of
\* SnapshotReportService.build).
THEOREM PriceChangesAreTrue ==
    ASSUME NEW group, IsFiniteSet(group), group # {},
           \A o \in group : o.asOf \in Int /\ o.row \in Nat /\ o.quality = "valid",
           \A o, p \in group : o.row = p.row => o = p,
           \A o, p \in group : o.asOf = p.asOf => o.value = p.value
    PROVE  TrueChange(group) = IF PriceChange(group).verdict = "change"
                               THEN {PriceChange(group).delta} ELSE {}
<1> DEFINE L == Latest(group)
           E == {o \in group : o.asOf < L.asOf}
           B == Latest(E)
           times == {o.asOf : o \in group}
           values(t) == {o.value : o \in {p \in group : p.asOf = t}}
           latest == CHOOSE t \in times : \A u \in times : u <= t
           earlier == times \ {latest}
           before == CHOOSE t \in earlier : \A u \in earlier : u <= t
<1>0. TrueChange(group) = IF /\ latest \in Today /\ earlier # {}
                             /\ Cardinality(values(latest)) = 1 /\ Cardinality(values(before)) = 1
                          THEN {v - w : v \in values(latest), w \in values(before)} ELSE {}
  BY DEF TrueChange
<1>1. L \in group /\ \A p \in group : p = L \/ Earlier(p, L)
  BY LatestExists
<1> HIDE DEF L
<1>2. latest = L.asOf
  <2>1. L.asOf \in times /\ \A u \in times : u \in Int /\ u <= L.asOf
    BY <1>1 DEF Earlier
  <2> HIDE DEF times
  <2>2. latest \in times /\ \A u \in times : u <= latest
    BY <2>1
  <2> HIDE DEF latest
  <2> QED
    BY <2>1, <2>2
<1> HIDE DEF latest
<1>3. E = {} <=> earlier = {}
  <2>1. \A o \in group : o.asOf \in Int /\ (o.asOf = L.asOf \/ o.asOf < L.asOf)
    BY <1>1 DEF Earlier
  <2> QED
    BY <1>1, <1>2, <2>1
<1>4. E # {} => B \in E /\ \A p \in E : p = B \/ Earlier(p, B)
  <2>1. IsFiniteSet(E)
    BY FS_Subset
  <2>2. (\A o \in E : o.asOf \in Int /\ o.row \in Nat) /\ \A o, p \in E : o.row = p.row => o = p
    OBVIOUS
  <2> HIDE DEF E
  <2> QED
    BY <2>1, <2>2, LatestExists
<1> HIDE DEF B
<1>5. ASSUME NEW o \in group PROVE ~Disputed(o, group)
  BY DEF Disputed
<1>6. PriceChange(group) =
          IF L.asOf \notin Today \/ L.quality # "valid"
          THEN [verdict |-> "stale", delta |-> 0, rows |-> {L.row}]
          ELSE IF Disputed(L, group) \/ (E # {} /\ Disputed(B, group))
          THEN [verdict |-> "conflict", delta |-> 0, rows |-> {L.row}]
          ELSE IF E = {}
          THEN [verdict |-> "first", delta |-> 0, rows |-> {L.row}]
          ELSE [verdict |-> "change", delta |-> L.value - B.value, rows |-> {L.row, B.row}]
  BY DEF PriceChange, L, B
<1>7. CASE L.asOf \notin Today
  <2>1. PriceChange(group).verdict = "stale"
    BY <1>6, <1>7
  <2>2. TrueChange(group) = {}
    BY <1>0, <1>2, <1>7
  <2> QED
    BY <2>1, <2>2
<1>8. CASE L.asOf \in Today /\ E = {}
  <2>1. PriceChange(group).verdict = "first"
    BY <1>1, <1>5, <1>6, <1>8
  <2>2. earlier = {}
    BY <1>3, <1>8
  <2>3. TrueChange(group) = {}
    <3> HIDE DEF earlier, times
    <3> QED
      BY <1>0, <2>2
  <2> QED
    BY <2>1, <2>2, <2>3
<1>9. CASE L.asOf \in Today /\ E # {}
  <2>1. B \in E /\ B \in group /\ \A p \in E : p = B \/ Earlier(p, B)
    BY <1>4, <1>9
  <2>2. PriceChange(group).verdict = "change" /\ PriceChange(group).delta = L.value - B.value
    <3>1. ~Disputed(L, group) /\ ~Disputed(B, group) /\ L.quality = "valid"
      BY <1>1, <1>5, <2>1
    <3> HIDE DEF E
    <3> QED
      BY <1>6, <1>9, <3>1
  <2>3. before = B.asOf
    <3>1. B.asOf \in earlier /\ \A u \in earlier : u \in Int /\ u <= B.asOf
      <4>1. \A o \in group : o.asOf \in Int /\ (o = L \/ o.asOf = L.asOf \/ o.asOf < L.asOf)
        BY <1>1 DEF Earlier
      <4>2. \A o \in E : o.asOf <= B.asOf
        BY <2>1 DEF Earlier
      <4> QED
        BY <1>1, <1>2, <2>1, <4>1, <4>2
    <3> HIDE DEF earlier
    <3>2. before \in earlier /\ \A u \in earlier : u <= before
      BY <3>1
    <3> HIDE DEF before
    <3> QED
      BY <3>1, <3>2
  <2> HIDE DEF before
  <2>4. values(latest) = {L.value} /\ values(before) = {B.value}
    BY <1>1, <1>2, <2>1, <2>3
  <2>5. earlier # {}
    BY <1>3, <1>9
  <2>6. TrueChange(group) = {v - w : v \in values(latest), w \in values(before)}
    <3>1. Cardinality(values(latest)) = 1 /\ Cardinality(values(before)) = 1
      <4> HIDE DEF values
      <4> QED
        BY <2>4, FS_Singleton
    <3> QED
      BY <1>0, <1>2, <1>9, <2>5, <3>1
  <2>7. TrueChange(group) = {L.value - B.value}
    <3> HIDE DEF values
    <3> QED
      BY <2>4, <2>6
  <2> QED
    BY <2>2, <2>7
<1> QED
  BY <1>7, <1>8, <1>9

=============================================================================
