------------------------------- MODULE Ledger -------------------------------
(***************************************************************************)
(* The budget ledger (storage/permissions.py, tables budget_counters,      *)
(* permission_scopes, provider_calls): every request to a provider is      *)
(* reserved before it is made, in one transaction that binds the approval  *)
(* and charges two or four buckets, and what a model reports to have used  *)
(* may block its approval for good.                                        *)
(*                                                                         *)
(* A transaction takes PostgreSQL locks one after the other and holds them *)
(* until it commits or rolls back; what it writes shows only at the        *)
(* commit.  An advisory lock of the code and the row it protects are one   *)
(* lock here.                                                              *)
(***************************************************************************)
EXTENDS Naturals, FiniteSets, Sequences

CONSTANTS
    Callers,        \* threads that reserve requests
    NoOne,
    Approvals,      \* permissions of the deployment
    KindOf,         \* the kind of provider an approval admits
    LastDay,        \* bound on the days
    MaxCalls,       \* bound on the reservations
    Reservation,    \* tokens a model request reserves
    ScopeLimit,     \* max_requests and max_tokens of an approval
    DailyLimit,     \* daily_model_calls and daily_model_tokens
    Reserve,        \* urgent_model_reserve and urgent_model_token_reserve
    Rank            \* the order of sorted(budgets)

Units == {"requests", "tokens"}
Lanes == {"normal", "urgent"}
Days == 1..LastDay
Kinds == {KindOf[a] : a \in Approvals}

\* An approval has a bucket for each unit, and so has a kind of provider on
\* each day.
Buckets == (Approvals \cup (Days \X Kinds)) \X Units

ASSUME LedgerAssumption ==
    /\ NoOne \notin Callers
    /\ Approvals # {}
    /\ LastDay \in Nat \ {0} /\ MaxCalls \in Nat
    /\ Reservation \in Nat \ {0}
    /\ ScopeLimit \in [Units -> Nat] /\ DailyLimit \in [Units -> Nat]
    /\ Reserve \in [Units -> Nat]
    /\ Rank \in [Buckets -> Nat]
    /\ \A b, c \in Buckets : Rank[b] = Rank[c] => b = c

VARIABLES
    today,
    used,       \* budget_counters: what each bucket has been charged
    blocked,    \* permission_scopes: the approvals that are blocked
    expired,    \* the approvals whose window is over
    calls,      \* provider_calls
    locks,      \* who holds the lock of a bucket or of an approval
    tx          \* the transaction of each caller

vars == <<today, used, blocked, expired, calls, locks, tx>>

-----------------------------------------------------------------------------
\* What a request under an approval charges on a day, bucket by bucket.
Charged(a, day) ==
    {a, <<day, KindOf[a]>>} \X (IF KindOf[a] = "model" THEN Units ELSE {"requests"})

Amount(b) == IF b[2] = "requests" THEN 1 ELSE Reservation

\* What the reserve of a day leaves to background work.
Unreserved(u) == IF DailyLimit[u] > Reserve[u] THEN DailyLimit[u] - Reserve[u] ELSE 0

Limit(b, lane) ==
    IF b[1] \in Approvals THEN ScopeLimit[b[2]]
    ELSE IF lane = "urgent" THEN DailyLimit[b[2]] ELSE Unreserved(b[2])

\* A slip: a bucket that is not yet over its limit takes the charge.
NotOver(b, lane) == used[b] <= Limit(b, lane)

Fits(b, lane) == used[b] + Amount(b) <= Limit(b, lane)

Transactions == [step : {"idle", "binding", "charging"}, approval : Approvals,
                 lane : Lanes, day : Days, done : SUBSET Buckets, read : [Buckets -> Nat]]

NoTransaction == [step |-> "idle", approval |-> CHOOSE a \in Approvals : TRUE,
                  lane |-> "normal", day |-> 1, done |-> {}, read |-> [b \in Buckets |-> 0]]

Calls == [approval : Approvals, day : Days, usage : {"open", "reported"}]

TypeOK ==
    /\ today \in Days
    /\ used \in [Buckets -> Nat]
    /\ blocked \subseteq Approvals /\ expired \subseteq Approvals
    /\ calls \in Seq(Calls)
    /\ locks \in [Buckets \cup Approvals -> Callers \cup {NoOne}]
    /\ tx \in [Callers -> Transactions]

Init ==
    /\ today = 1
    /\ used = [b \in Buckets |-> 0]
    /\ blocked = {} /\ expired = {}
    /\ calls = <<>>
    /\ locks = [l \in Buckets \cup Approvals |-> NoOne]
    /\ tx = [c \in Callers |-> NoTransaction]

-----------------------------------------------------------------------------
\* A slip: nobody waits for the lock of another.
Held(l) == l \in DOMAIN locks

Free(l) == locks[l] = NoOne

\* A slip: a transaction that is rolled back keeps its locks.
Kept(c) == locks

Released(c) == [l \in Buckets \cup Approvals |-> IF locks[l] = c THEN NoOne ELSE locks[l]]

\* The transaction ends, committed or rolled back.
Ended(c) == [tx EXCEPT ![c] = NoTransaction]

Mine(c) == Charged(tx[c].approval, tx[c].day)

\* reserve_provider_call reads the day before its transaction begins.
Begin(c, a, lane) ==
    /\ tx[c].step = "idle"
    /\ Len(calls) < MaxCalls
    /\ tx' = [tx EXCEPT ![c].step = "binding", ![c].approval = a, ![c].lane = lane,
                        ![c].day = today]
    /\ UNCHANGED <<today, used, blocked, expired, calls, locks>>

\* bind_permission locks the approval, which must be active and not blocked.
Bind(c) ==
    /\ tx[c].step = "binding"
    /\ LET a == tx[c].approval IN
       /\ Free(a)
       /\ IF a \in blocked \cup expired
          THEN tx' = Ended(c) /\ UNCHANGED locks
          ELSE /\ tx' = [tx EXCEPT ![c].step = "charging"]
               /\ locks' = [locks EXCEPT ![a] = c]
    /\ UNCHANGED <<today, used, blocked, expired, calls>>

\* The buckets are locked in their order; what is read is read under the lock.
IsNext(c, b) ==
    /\ b \in Mine(c) \ tx[c].done
    /\ \A d \in Mine(c) \ tx[c].done : Rank[b] <= Rank[d]

Charge(c, b) ==
    /\ tx[c].step = "charging"
    /\ IsNext(c, b) /\ Free(b)
    /\ Fits(b, tx[c].lane)
    /\ locks' = [locks EXCEPT ![b] = c]
    /\ tx' = [tx EXCEPT ![c].read = [@ EXCEPT ![b] = used[b]],
                        ![c].done = @ \cup {b}]
    /\ UNCHANGED <<today, used, blocked, expired, calls>>

\* QUOTA_EXHAUSTED: the transaction is rolled back.
Refuse(c, b) ==
    /\ tx[c].step = "charging"
    /\ IsNext(c, b) /\ Free(b)
    /\ ~Fits(b, tx[c].lane)
    /\ tx' = Ended(c)
    /\ locks' = Released(c)
    /\ UNCHANGED <<today, used, blocked, expired, calls>>

Commit(c) ==
    /\ tx[c].step = "charging"
    /\ Mine(c) \subseteq tx[c].done
    /\ used' = [b \in Buckets |-> IF b \in Mine(c) THEN tx[c].read[b] + Amount(b) ELSE used[b]]
    /\ calls' = Append(calls, [approval |-> tx[c].approval, day |-> tx[c].day, usage |-> "open"])
    /\ tx' = Ended(c)
    /\ locks' = Released(c)
    /\ UNCHANGED <<today, blocked, expired>>

\* The connection is lost: PostgreSQL rolls the transaction back.
Crash(c) ==
    /\ tx[c].step # "idle"
    /\ tx' = Ended(c)
    /\ locks' = Released(c)
    /\ UNCHANGED <<today, used, blocked, expired, calls>>

\* A slip: the approval is blocked under the feet of whoever has bound it.
BlockAtOnce(k, overrun) ==
    /\ KindOf[calls[k].approval] = "model" /\ calls[k].usage = "open"
    /\ calls' = [calls EXCEPT ![k].usage = "reported"]
    /\ blocked' = IF overrun THEN blocked \cup {calls[k].approval} ELSE blocked
    /\ UNCHANGED <<today, used, expired, locks, tx>>

\* record_model_usage: more tokens than were reserved block the approval.
RecordUsage(k, overrun) ==
    /\ KindOf[calls[k].approval] = "model" /\ calls[k].usage = "open"
    /\ calls' = [calls EXCEPT ![k].usage = "reported"]
    /\ IF overrun
       THEN Free(calls[k].approval) /\ blocked' = blocked \cup {calls[k].approval}
       ELSE UNCHANGED blocked
    /\ UNCHANGED <<today, used, expired, locks, tx>>

Expire(a) ==
    /\ a \notin expired
    /\ expired' = expired \cup {a}
    /\ UNCHANGED <<today, used, blocked, calls, locks, tx>>

NextDay ==
    /\ today < LastDay
    /\ today' = today + 1
    /\ UNCHANGED <<used, blocked, expired, calls, locks, tx>>

Step(c) == Bind(c) \/ (\E b \in Mine(c) : Charge(c, b) \/ Refuse(c, b)) \/ Commit(c)

Next ==
    \/ \E c \in Callers, a \in Approvals, lane \in Lanes : Begin(c, a, lane)
    \/ \E c \in Callers : Step(c)
    \/ \E c \in Callers : Crash(c)
    \/ \E k \in DOMAIN calls, overrun \in BOOLEAN : RecordUsage(k, overrun)
    \/ \E a \in Approvals : Expire(a)
    \/ NextDay

Spec == Init /\ [][Next]_vars

\* PostgreSQL grants a lock to whoever has waited longest.
Fairness == \A c \in Callers : SF_vars(Step(c))

FairSpec == Spec /\ Fairness

-----------------------------------------------------------------------------
\* The amount that some of the calls charged a bucket.
ChargedBy(ks, b) ==
    Amount(b) * Cardinality({k \in ks : b \in Charged(calls[k].approval, calls[k].day)})

\* Every bucket holds exactly what the recorded calls charged it: no charge is
\* lost between two transactions, and none stays behind a refused or broken one
\* (reserve_provider_call is all or nothing).
LedgerAddsUp == \A b \in Buckets : used[b] = ChargedBy(DOMAIN calls, b)

\* No bucket is ever charged beyond its limit.
WithinLimits == \A b \in Buckets : used[b] <= Limit(b, "urgent")

\* Once an overrun has blocked an approval no further request is reserved under
\* it, not even one whose transaction had begun before.
BlockedForGood ==
    [][\A k \in DOMAIN calls' \ DOMAIN calls : calls'[k].approval \notin blocked]_vars

\* Every reservation comes to an end: transactions never wait on each other for
\* ever, since all take their locks in one order.
TransactionsEnd == \A c \in Callers : tx[c].step # "idle" ~> tx[c].step = "idle"
=============================================================================
