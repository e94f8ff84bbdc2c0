----------------------------- MODULE Judgement -----------------------------
(***************************************************************************)
(* How a group of source records becomes one event assessment: the         *)
(* approved source rules (intelligence/rules.py), the words that lower     *)
(* confidence and the combination of the records of one event              *)
(* (intelligence/assessment.py).                                           *)
(*                                                                         *)
(* A text is abstracted to the cues it contains and to the passages that   *)
(* meet every criterion of a rule; a time that may be missing is a set of  *)
(* at most one time.                                                       *)
(***************************************************************************)
EXTENDS Integers, FiniteSets

CONSTANTS
    Rules,          \* approved rules: [name, origin, age, severity]; {} when none are approved
    Approval,       \* the times at which the approval of the rules is valid
    MaxAge,         \* AssessmentPolicy.max_age_hours
    Trusted         \* publishers whose word alone counts; {} when no single source does

Statuses == {"occurred", "planned", "denied", "unknown"}

Severities == {"routine", "important", "urgent"}

Standings == {"unverified", "conflicting", "credible_single_source", "independent_multi_source"}

Cues == {"denial", "plan", "doubt", "archive", "blocker", "question", "casualty_only"}

Rank == [s \in Severities |-> CASE s = "routine" -> 0 [] s = "important" -> 1 [] s = "urgent" -> 2]

ASSUME JudgementAssumption ==
    /\ \A rule \in Rules : rule.severity \in Severities
    /\ MaxAge \in Nat

-----------------------------------------------------------------------------
\* What is known of a record that happens or appears later than now.
Future(r, now) == \E t \in r.published \cup r.occurred \cup r.provided : t > now

\* guarded_status: the cues of a text only ever lower what was proposed of it.
Guarded(r, proposed, now) ==
    IF proposed = "occurred" /\ "casualty_only" \in r.cues THEN "unknown"
    ELSE IF {"denial", "plan"} \subseteq r.cues THEN "unknown"
    ELSE IF "denial" \in r.cues THEN "denied"
    ELSE IF "plan" \in r.cues THEN "planned"
    ELSE IF \/ Future(r, now)
            \/ r.cues \cap {"doubt", "archive"} # {}
            \/ r.quality # "valid"
            \/ proposed = "occurred" /\ "blocker" \in r.cues
    THEN "unknown" ELSE proposed

\* The rules that may speak of the record now.
Applicable(r, now) ==
    IF /\ now \in Approval
       /\ r.quality = "valid"
       /\ r.published # {} /\ ~Future(r, now) /\ r.discovered <= now
       /\ r.cues \cap {"question", "blocker"} = {}
    THEN {rule \in Rules : /\ rule.origin = r.origin
                           /\ \A t \in r.published \cup r.occurred : t >= now - rule.age}
    ELSE {}

\* ApprovedRules.match: one passage, under one rule, or nothing.
Matches(r, now) ==
    LET found == {p \in r.passages : p.rule \in Applicable(r, now)}
    IN  IF Cardinality(found) = 1 THEN found ELSE {}

-----------------------------------------------------------------------------
\* What an assessment starts from: a review of this very revision, or else the
\* one matching rule, or else what the model claims, or else nothing.
Basis(r, reviews, claims, now) ==
    IF <<r.id, r.rev>> \in DOMAIN reviews THEN reviews[<<r.id, r.rev>>]
    ELSE IF Matches(r, now) # {}
    THEN [status |-> "occurred", standing |-> "trusted",
          severity |-> (CHOOSE p \in Matches(r, now) : TRUE).rule.severity]
    ELSE [status |-> IF <<r.id, r.rev>> \in DOMAIN claims THEN claims[<<r.id, r.rev>>] ELSE "unknown",
          standing |-> "open", severity |-> "routine"]

\* A recent occurrence, or a recent publication when that is all that is known.
Fresh(r, now) ==
    \E t \in IF r.occurred # {} THEN r.occurred ELSE r.published : t >= now - MaxAge

StatusOf(r, reviews, claims, now) == Guarded(r, Basis(r, reviews, claims, now).status, now)

Verified(r, reviews, claims, now) ==
    LET basis == Basis(r, reviews, claims, now)
    IN  basis.standing = "trusted" /\ StatusOf(r, reviews, claims, now) = basis.status

SeverityOf(r, reviews, claims, now) ==
    IF /\ Verified(r, reviews, claims, now)
       /\ Fresh(r, now)
       /\ StatusOf(r, reviews, claims, now) = "occurred"
    THEN Basis(r, reviews, claims, now).severity ELSE "routine"

\* _validate considers the latest revision of each record it was given.
Newest(records) == {r \in records : \A s \in records : s.id = r.id => s.rev <= r.rev}

Origins(group) == {r.origin : r \in group}

Highest(severities) ==
    CHOOSE s \in severities : \A o \in severities : Rank[o] <= Rank[s]

\* One event from the records of its group.
Judge(records, reviews, claims, now) ==
    LET group == Newest(records)
        statuses == {StatusOf(r, reviews, claims, now) : r \in group}
        verified == \A r \in group : Verified(r, reviews, claims, now)
        standing == IF Cardinality(statuses) > 1 THEN "conflicting"
                    ELSE IF verified /\ Cardinality(Origins(group)) > 1 THEN "independent_multi_source"
                    ELSE IF verified /\ Origins(group) \subseteq Trusted THEN "credible_single_source"
                    ELSE "unverified"
    IN  [status |-> IF Cardinality(statuses) = 1 THEN CHOOSE s \in statuses : TRUE ELSE "unknown",
         standing |-> standing,
         severity |-> IF standing \in {"unverified", "conflicting"} THEN "routine"
                      ELSE Highest({SeverityOf(r, reviews, claims, now) : r \in group}),
         cites |-> {<<r.id, r.rev>> : r \in group}]

=============================================================================
