--------------------------- MODULE Notifications ---------------------------
(***************************************************************************)
(* Who may be told what, and the delivery of it: the per-revision grants,  *)
(* reminders and acknowledgements of storage/delivery.py and               *)
(* storage/operations.py, the administrator's configuration and the        *)
(* revocation of users, composed with the Outbox.                          *)
(*                                                                         *)
(* One event is published, revision after revision, to a set of users.     *)
(* Two transactions act on a configuration read before they commit: the    *)
(* publication of a version and the creation of due reminders.  Each is    *)
(* two actions here, so that configuration changes, revocations and        *)
(* acknowledgements may come between.                                      *)
(*                                                                         *)
(* The outbox answers "is this authorization live?" either way; here the   *)
(* answer is LiveGrant, what _live_grant computes from the tables.         *)
(***************************************************************************)
EXTENDS Naturals

CONSTANTS
    Recipients,     \* provisioned users, named by their recipient id
    MaxRevision,    \* bound on the revisions of the event
    Callbacks,      \* event ids of provider callbacks
    Modes,          \* outbound modes of the deployment: dry_run, and trial where
                    \* the settings carry a trial permission
    Workers,
    MaxAttempts,
    MaxChanges,     \* bound: changes of the configuration and of the permissions
    None

VARIABLES
    rows, pc, claim, token, result, arrived,    \* the outbox
    config,     \* the business configuration row
    active,     \* users whose account is active
    approved,   \* the trial permissions are current, valid and not blocked
    grants,     \* the recipient_authorizations table
    acks,       \* the acknowledgements table
    current,    \* the event's current revision
    publisher,  \* the transaction that commits a new version
    changes,    \* how often the configuration or the permissions have changed
    reminders   \* the create_due_reminders call of the recovery tick

outbox == <<rows, pc, claim, token, result, arrived>>
directory == <<config, active, approved, changes>>
ledger == <<grants, acks, current>>
vars == <<outbox, directory, ledger, publisher, reminders>>

-----------------------------------------------------------------------------
Revisions == 1..MaxRevision

Kinds == {"original", "reminder"}

\* Deliveries are unique by revision, recipient, kind and channel
\* (IntentRow, and the intent's idempotency key).
AllDeliveries == [revision : Revisions, recipient : Recipients,
                  kind : Kinds, channel : {"dry_run", "feishu"}]

ASSUME NotificationsAssumption ==
    /\ MaxRevision \in Nat \ {0} /\ MaxChanges \in Nat /\ MaxAttempts \in 1..3
    /\ "dry_run" \in Modes
    /\ Modes \subseteq {"dry_run", "trial"}
    /\ None \notin AllDeliveries

Channel(mode) == IF mode = "trial" THEN "feishu" ELSE "dry_run"

\* The part of BusinessConfig that decides about deliveries.
Configs == [recipients : SUBSET Recipients, reminders : BOOLEAN, mode : Modes]

\* acknowledge_web derives its callback id from the actor and the delivery.
WebCallback(d) == <<"web", d>>

CallbackIds(d) == Callbacks \cup {WebCallback(d)}

Idle == [phase |-> "idle"]

\* send_pending's check before it claims: a live channel needs an approved,
\* non-empty trial configuration.
Sendable == config.mode = "trial" => approved /\ config.recipients # {}

OB == INSTANCE Outbox WITH Deliveries <- AllDeliveries, sendable <- Sendable

TypeOK ==
    /\ OB!TypeOK
    /\ config \in Configs
    /\ active \subseteq Recipients
    /\ approved \in BOOLEAN /\ changes \in 0..MaxChanges
    /\ grants \in [Revisions \X Recipients ->
                     [status : {"none", "active", "inactive"}, reminders : BOOLEAN]]
    /\ \A ack \in acks : ack.delivery \in AllDeliveries
                         /\ ack.callback \in CallbackIds(ack.delivery)
    /\ current \in 0..MaxRevision
    /\ publisher \in {Idle} \cup
         [phase : {"read"}, config : Configs, users : SUBSET Recipients,
          correction : BOOLEAN]
    /\ reminders \in {"idle", "due"}

Init ==
    /\ config = [recipients |-> {}, reminders |-> FALSE, mode |-> "dry_run"]
    /\ active = Recipients
    /\ approved = TRUE
    /\ changes = 0
    /\ OB!Init
    /\ grants = [g \in Revisions \X Recipients |-> [status |-> "none", reminders |-> FALSE]]
    /\ acks = {}
    /\ current = 0
    /\ publisher = Idle
    /\ reminders = "idle"

-----------------------------------------------------------------------------
Grant(d) == grants[<<d.revision, d.recipient>>]

Exists(d) == rows[d].state # "absent"

\* A slip: acknowledgements counted for the event, not for the revision.
AckedEvent(revision, recipient) ==
    \E ack \in acks : ack.delivery.recipient = recipient

\* Any delivery of the revision to the recipient has been acknowledged.
AckedBy(revision, recipient) ==
    \E ack \in acks : /\ ack.delivery.revision = revision
                      /\ ack.delivery.recipient = recipient

\* A slip: a reminder is authorized as its original was.
LiveAsOriginal(d) ==
    /\ d.channel = Channel(config.mode)
    /\ approved
    /\ Grant(d).status = "active"
    /\ d.recipient \in active
    /\ d.recipient \in config.recipients

\* _live_grant: is the delivery still authorized, as the tables stand?
LiveGrant(d) ==
    /\ d.kind = "reminder" =>
         /\ Grant(d).reminders
         /\ config.reminders
         /\ ~AckedBy(d.revision, d.recipient)
    /\ d.channel = Channel(config.mode)
    /\ approved
    /\ Grant(d).status = "active"
    /\ d.recipient \in active
    /\ d.recipient \in config.recipients

-----------------------------------------------------------------------------
\* create_notifications reads the configuration and the active users in the
\* transaction that stores the next version; it locks neither.
PublishRead(correction) ==
    /\ publisher = Idle
    /\ current < MaxRevision
    /\ correction => current > 0
    /\ publisher' = [phase |-> "read", config |-> config,
                     users |-> active \cap config.recipients, correction |-> correction]
    /\ UNCHANGED <<outbox, directory, ledger, reminders>>

\* Recipients with an intent for an earlier revision.
PriorRecipients ==
    {r \in Recipients : \E d \in AllDeliveries : d.recipient = r /\ Exists(d)}

\* The recipients who get an intent: for a correction those who were told
\* before, otherwise all or none, as the first-report policy has it.
Notified(users, correction, policy) ==
    IF correction THEN users \cap PriorRecipients
    ELSE IF policy THEN users ELSE {}

\* The transaction commits: the new current revision, a grant for every user it
\* read, and the intents and deliveries.  A user outside the approved scope is
\* passed over.
PublishCommit(policy) ==
    /\ publisher # Idle
    /\ UNCHANGED <<directory, acks, reminders>>
    /\ LET revision == current + 1
           users == IF approved THEN publisher.users ELSE {}
           channel == Channel(publisher.config.mode)
       IN
       /\ OB!Enqueue([revision : {revision}, kind : {"original"}, channel : {channel},
                      recipient : Notified(users, publisher.correction, policy)],
                     channel)
       /\ grants' = [g \in DOMAIN grants |->
                       IF g[1] = revision /\ g[2] \in users
                       THEN [status |-> "active", reminders |-> publisher.config.reminders]
                       ELSE grants[g]]
       /\ current' = revision
    /\ publisher' = Idle

\* The transaction rolls back: a check of it fails, or the process dies.
PublishAbort ==
    /\ publisher # Idle
    /\ publisher' = Idle
    /\ UNCHANGED <<outbox, directory, ledger, reminders>>

-----------------------------------------------------------------------------
\* create_due_reminders reads the configuration in a transaction of its own.
RemindersRead ==
    /\ reminders = "idle"
    /\ config.reminders
    /\ reminders' = "due"
    /\ UNCHANGED <<outbox, directory, ledger, publisher>>

\* The original was accepted, or recorded as a dry run, and not acknowledged.
OriginalAwaitsAck(revision, recipient) ==
    /\ \E d \in AllDeliveries :
         /\ d.revision = revision /\ d.recipient = recipient /\ d.kind = "original"
         /\ rows[d].state \in {"accepted", "dry_run"}
    /\ ~AckedBy(revision, recipient)

\* A slip: only the current channel's reminders are looked for, as _intent does.
RemindedOnChannel(revision, recipient) ==
    \E d \in AllDeliveries : /\ d.revision = revision /\ d.recipient = recipient
                             /\ d.kind = "reminder" /\ d.channel = Channel(config.mode)
                             /\ Exists(d)

\* A reminder of the revision was created before, whatever its channel.
Reminded(revision, recipient) ==
    \E d \in AllDeliveries : /\ d.revision = revision /\ d.recipient = recipient
                             /\ d.kind = "reminder" /\ Exists(d)

\* The recipients to be reminded of a revision, were half an hour gone by.
Remindable(revision) ==
    {r \in active :
        /\ grants[<<revision, r>>] = [status |-> "active", reminders |-> TRUE]
        /\ revision = current
        /\ OriginalAwaitsAck(revision, r)
        /\ ~Reminded(revision, r)
        /\ approved}

\* The second transaction commits the reminders of grants that are old enough,
\* on the channel configured by then.
RemindersCommit(old) ==
    /\ reminders = "due"
    /\ reminders' = "idle"
    /\ UNCHANGED <<directory, ledger, publisher>>
    /\ LET channel == Channel(config.mode) IN
       OB!Enqueue({d \in AllDeliveries : /\ d.kind = "reminder" /\ d.channel = channel
                                         /\ d.recipient \in old \cap Remindable(d.revision)},
                  channel)

\* The second transaction rolls back or never runs.
RemindersAbort ==
    /\ reminders = "due"
    /\ reminders' = "idle"
    /\ UNCHANGED <<outbox, directory, ledger, publisher>>

-----------------------------------------------------------------------------
\* The grants as update_config leaves them: inactive for removed recipients,
\* and without reminders when these are disabled.
RestrictGrants(removed, keepReminders) ==
    [g \in DOMAIN grants |->
       [status |-> IF g[2] \in removed /\ grants[g].status = "active" THEN "inactive"
                   ELSE grants[g].status,
        reminders |-> grants[g].reminders /\ keepReminders]]

\* Administrators change things without end; the bound stands for it.
Change == changes < MaxChanges /\ changes' = changes + 1

UpdateConfig(new) ==
    /\ Change
    /\ new # config
    /\ new.mode = "trial" => approved /\ new.recipients # {}
    /\ new.recipients \subseteq active
    /\ config' = new
    /\ grants' = RestrictGrants(config.recipients \ new.recipients, new.reminders)
    /\ UNCHANGED <<outbox, active, approved, acks, current, publisher, reminders>>

\* An account is revoked; there is no operation that activates it again.
RevokeUser(r) ==
    /\ r \in active
    /\ active' = active \ {r}
    /\ grants' = RestrictGrants({r}, TRUE)
    /\ UNCHANGED <<outbox, config, approved, changes, acks, current, publisher, reminders>>

\* A trial permission starts, runs out, or is blocked or replaced.
ApprovalChanges ==
    /\ Change
    /\ "trial" \in Modes
    /\ approved' = ~approved
    /\ UNCHANGED <<outbox, config, active, ledger, publisher, reminders>>

-----------------------------------------------------------------------------
\* acknowledge lets a verified callback of the delivery's own recipient pass.
Admits(d) == Exists(d) /\ d.recipient \in active /\ LiveGrant(d)

\* Callback ids are unique in the acknowledgements table.
Used(callback) == \E ack \in acks : ack.callback = callback

\* A slip: whatever was sent may be acknowledged.
AcknowledgeSent(d, callback) ==
    /\ Admits(d)
    /\ ~Used(callback)
    /\ acks' = acks \cup {[delivery |-> d, callback |-> callback]}
    /\ UNCHANGED <<directory, grants, current, publisher, reminders>>
    /\ IF rows[d].state = "accepted" THEN OB!Acked(d) ELSE UNCHANGED outbox

\* A verified callback with a new id is recorded, and an accepted delivery
\* becomes acknowledged; a dry run stays one.  A callback with a used id is
\* answered from the table, or refused, and changes nothing.
Acknowledge(d, callback) ==
    /\ Admits(d)
    /\ ~Used(callback)
    /\ rows[d].state \in {"accepted", "acked", "dry_run"}
    /\ acks' = acks \cup {[delivery |-> d, callback |-> callback]}
    /\ UNCHANGED <<directory, grants, current, publisher, reminders>>
    /\ IF rows[d].state = "accepted" THEN OB!Acked(d) ELSE UNCHANGED outbox

-----------------------------------------------------------------------------
\* The outbox, with every question about authorization answered by LiveGrant.
Deliver ==
    /\ UNCHANGED <<directory, ledger, publisher, reminders>>
    /\ \/ \E w \in Workers, d \in AllDeliveries : OB!Claim(w, d) /\ LiveGrant(d)
       \/ \E d \in AllDeliveries : OB!ClaimRevoked(d) /\ ~LiveGrant(d)
       \/ \E w \in Workers : OB!Authorize(w) /\ LiveGrant(claim[w])
       \/ \E w \in Workers :
            /\ OB!AuthorizationRefused(w)
            /\ ~(OB!LeaseLive(claim[w]) /\ LiveGrant(claim[w]))
       \/ \E w \in Workers : OB!SendStep(w)
       \/ \E w \in Workers : OB!Crash(w)
       \/ OB!RecoverDeliveries
       \/ \E d \in AllDeliveries : OB!LeaseExpires(d)
       \/ \E d \in AllDeliveries : OB!BackoffElapses(d)

Next ==
    \/ \E correction \in BOOLEAN : PublishRead(correction)
    \/ \E policy \in BOOLEAN : PublishCommit(policy)
    \/ PublishAbort
    \/ RemindersRead
    \/ \E old \in SUBSET Recipients : RemindersCommit(old)
    \/ RemindersAbort
    \/ \E new \in Configs : UpdateConfig(new)
    \/ \E r \in Recipients : RevokeUser(r)
    \/ ApprovalChanges
    \/ \E d \in AllDeliveries : \E callback \in CallbackIds(d) : Acknowledge(d, callback)
    \/ Deliver

Spec == Init /\ [][Next]_vars

-----------------------------------------------------------------------------
\* The worker has passed its last check of the authorization: the message goes
\* out next and can no longer be held back.
AboutToPost(w) == pc[w] = "cleared"

\* The recipient has lost the authorization, or a reminder has nothing left to
\* remind of, before the message went out.
Silenced(d) ==
    /\ Exists(d)
    /\ \/ Grant(d).status = "inactive"
       \/ d.recipient \notin active
       \/ d.kind = "reminder" /\ AckedBy(d.revision, d.recipient)
    /\ arrived[d] = {}
    /\ \A w \in Workers : claim[w] = d => ~AboutToPost(w)

\* A message that is revoked before the last check is never sent, not even when
\* the recipient is configured again or the claim had already been made: the
\* checks after the claim and after the token request are not for nothing.
SilencedStaysSilent ==
    [][\A d \in AllDeliveries : Silenced(d) => Silenced(d)']_vars

\* Whatever has been acknowledged was delivered: its row says so, and over the
\* live channel the provider has it.
AcksOfDelivered ==
    \A ack \in acks :
        /\ rows[ack.delivery].state \in {"acked", "dry_run"}
        /\ ack.delivery.channel = "feishu" => arrived[ack.delivery] # {}

\* A recipient is reminded of a revision at most once, on whatever channel, and
\* only after the revision itself was delivered.
RemindedOnceAfterDelivery ==
    \A d \in AllDeliveries :
        d.kind = "reminder" /\ Exists(d) =>
          /\ \A e \in AllDeliveries :
                (/\ e.kind = "reminder" /\ Exists(e)
                 /\ e.revision = d.revision /\ e.recipient = d.recipient) => e = d
          /\ \E e \in AllDeliveries :
                /\ e.kind = "original"
                /\ e.revision = d.revision /\ e.recipient = d.recipient
                /\ rows[e].state \in {"accepted", "acked", "dry_run"}

\* An acknowledgement changes nothing for another revision or recipient: what
\* was authorized there, a reminder included, still is
\* (handoff: "An old revision acknowledgement cannot suppress a newer revision").
AcksStayInTheirRevision ==
    [][\A ack \in acks' \ acks, d \in AllDeliveries :
         \/ /\ d.revision = ack.delivery.revision
            /\ d.recipient = ack.delivery.recipient
         \/ LiveGrant(d)' = LiveGrant(d)]_vars

=============================================================================
