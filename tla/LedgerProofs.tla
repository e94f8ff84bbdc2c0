---------------------------- MODULE LedgerProofs ----------------------------
(***************************************************************************)
(* No bucket of the ledger is overdrawn, each holds exactly what the       *)
(* recorded calls charged it, and a blocked approval reserves nothing      *)
(* more, for any number of callers, approvals, days and limits.            *)
(*                                                                         *)
(* WithinLimits is not inductive: a commit writes what its transaction     *)
(* read long before.  The strengthening says what the locks are for: what  *)
(* an open transaction has read is still so, because it holds the locks of *)
(* all it has read, and of its approval.                                   *)
(***************************************************************************)
EXTENDS Ledger, FiniteSetTheorems, TLAPS

\* What a transaction that is charging knows of the buckets it has charged.
Reads(c) ==
    \A b \in tx[c].done : /\ locks[b] = c
                          /\ tx[c].read[b] = used[b]
                          /\ used[b] + Amount(b) <= Limit(b, tx[c].lane)

\* Only a charging transaction has charged anything; it holds its approval,
\* which is not blocked.
Bound(c) ==
    /\ tx[c].step # "charging" => tx[c].done = {}
    /\ tx[c].step = "charging" => /\ locks[tx[c].approval] = c
                                  /\ tx[c].approval \notin blocked

LocksProtect == \A c \in Callers : Reads(c) /\ Bound(c)

LedgerInv == TypeOK /\ WithinLimits /\ LocksProtect

-----------------------------------------------------------------------------
LEMMA BucketFacts ==
    /\ \A b \in Buckets : b[2] \in Units
    /\ \A a \in Approvals, d \in Days : Charged(a, d) \subseteq Buckets
  BY DEF Buckets, Charged, Kinds, Units

LEMMA AmountFacts ==
    ASSUME NEW b \in Buckets, NEW lane
    PROVE  /\ Amount(b) \in Nat
           /\ Limit(b, lane) \in Nat
           /\ Limit(b, lane) <= Limit(b, "urgent")
  <1>1. b[2] \in Units
    BY BucketFacts
  <1>2. /\ ScopeLimit[b[2]] \in Nat /\ DailyLimit[b[2]] \in Nat /\ Reserve[b[2]] \in Nat
        /\ Reservation \in Nat
    BY <1>1, LedgerAssumption
  <1>3. Amount(b) \in Nat
    BY <1>2 DEF Amount
  <1>4. Unreserved(b[2]) \in Nat /\ Unreserved(b[2]) <= DailyLimit[b[2]]
    BY <1>2 DEF Unreserved
  <1> QED
    BY <1>2, <1>3, <1>4 DEF Limit

LEMMA NoTransactionType == NoTransaction \in Transactions
  <1>1. (CHOOSE a \in Approvals : TRUE) \in Approvals
    BY LedgerAssumption
  <1>2. 1 \in Days
    BY LedgerAssumption DEF Days
  <1> QED
    BY <1>1, <1>2 DEF NoTransaction, Transactions, Lanes

\* The invariant holds at first.
THEOREM InitInv == Init => LedgerInv
  <1> SUFFICES ASSUME Init PROVE LedgerInv
    OBVIOUS
  <1>1. TypeOK
    <2>1. tx \in [Callers -> Transactions]
      BY NoTransactionType DEF Init
    <2>2. today \in Days
      BY LedgerAssumption DEF Init, Days
    <2> QED
      BY <2>1, <2>2 DEF Init, TypeOK
  <1>2. WithinLimits
    BY AmountFacts DEF Init, WithinLimits
  <1>3. LocksProtect
    BY DEF Init, LocksProtect, Reads, Bound, NoTransaction
  <1> QED
    BY <1>1, <1>2, <1>3 DEF LedgerInv

-----------------------------------------------------------------------------
(* A transaction that ends gives its own locks back and nobody else's. *)

LEMMA EndedType ==
    ASSUME TypeOK, NEW c \in Callers
    PROVE  /\ Ended(c) \in [Callers -> Transactions]
           /\ Released(c) \in [Buckets \cup Approvals -> Callers \cup {NoOne}]
  BY NoTransactionType DEF TypeOK, Ended, Released

\* What holds of the other transactions when c has ended, at any charge or none.
LEMMA EndedProtects ==
    ASSUME LedgerInv, NEW c \in Callers,
           tx' = Ended(c), locks' = Released(c), UNCHANGED blocked,
           \A b \in Buckets : locks[b] # c => used'[b] = used[b]
    PROVE  LocksProtect'
  <1> SUFFICES ASSUME NEW o \in Callers PROVE Reads(o)' /\ Bound(o)'
    BY DEF LocksProtect
  <1>1. CASE o = c
    <2>1. tx'[o] = NoTransaction
      BY <1>1 DEF LedgerInv, TypeOK, Ended
    <2> QED
      BY <2>1 DEF Reads, Bound, NoTransaction
  <1>2. CASE o # c
    <2>1. tx'[o] = tx[o]
      BY <1>2 DEF LedgerInv, TypeOK, Ended
    <2>2. Reads(o) /\ Bound(o) /\ o # NoOne
      BY LedgerAssumption DEF LedgerInv, LocksProtect
    <2>3. tx[o] \in Transactions
      BY DEF LedgerInv, TypeOK
    <2>4. \A l \in Buckets \cup Approvals : locks[l] = o => locks'[l] = o
      BY <1>2 DEF Released
    <2>5. tx[o].done \subseteq Buckets /\ tx[o].approval \in Approvals
      BY <2>3 DEF Transactions
    <2>6. Reads(o)'
      <3> SUFFICES ASSUME NEW b \in tx[o].done
                   PROVE  /\ locks'[b] = o
                          /\ tx[o].read[b] = used'[b]
                          /\ used'[b] + Amount(b) <= Limit(b, tx[o].lane)
        BY <2>1 DEF Reads, Amount, Limit, Unreserved
      <3>1. locks[b] = o /\ b \in Buckets
        BY <2>2, <2>5 DEF Reads
      <3>2. used'[b] = used[b]
        BY <3>1, <1>2
      <3> QED
        BY <3>1, <3>2, <2>2, <2>4 DEF Reads
    <2>7. Bound(o)'
      BY <2>1, <2>2, <2>4, <2>5 DEF Bound
    <2> QED
      BY <2>6, <2>7
  <1> QED
    BY <1>1, <1>2

\* The transactions that a step leaves alone keep what they know, as long as
\* their locks, what these protect and their approvals stay.
LEMMA OthersProtected ==
    ASSUME LedgerInv, NEW o \in Callers, tx'[o] = tx[o], UNCHANGED used,
           \A l \in Buckets \cup Approvals : locks[l] = o => locks'[l] = o,
           \A a \in Approvals : locks[a] = o => (a \in blocked' => a \in blocked)
    PROVE  Reads(o)' /\ Bound(o)'
  <1>1. Reads(o) /\ Bound(o)
    BY DEF LedgerInv, LocksProtect
  <1>2. tx[o].done \subseteq Buckets /\ tx[o].approval \in Approvals
    BY DEF LedgerInv, TypeOK, Transactions
  <1>3. Reads(o)'
    BY <1>1, <1>2 DEF Reads, Amount, Limit, Unreserved
  <1>4. Bound(o)'
    BY <1>1, <1>2 DEF Bound
  <1> QED
    BY <1>3, <1>4

-----------------------------------------------------------------------------
LEMMA BeginInv ==
    ASSUME LedgerInv, NEW c \in Callers, NEW a \in Approvals, NEW lane \in Lanes,
           Begin(c, a, lane)
    PROVE  LedgerInv'
  <1>1. tx[c] \in Transactions /\ today \in Days /\ tx[c].done = {}
    BY DEF LedgerInv, TypeOK, LocksProtect, Bound, Begin
  <1>2. tx'[c] = [tx[c] EXCEPT !.step = "binding", !.approval = a, !.lane = lane, !.day = today]
    BY DEF Begin, LedgerInv, TypeOK
  <1>3. tx'[c] \in Transactions /\ tx'[c].done = {} /\ tx'[c].step = "binding"
    BY <1>1, <1>2 DEF Transactions
  <1>4. TypeOK'
    BY <1>3 DEF Begin, LedgerInv, TypeOK
  <1>5. WithinLimits'
    BY DEF Begin, LedgerInv, WithinLimits, Limit, Unreserved
  <1>6. \A o \in Callers : Reads(o)' /\ Bound(o)'
    <2> TAKE o \in Callers
    <2>1. CASE o = c
      BY <2>1, <1>3 DEF Reads, Bound
    <2>2. CASE o # c
      <3>1. tx'[o] = tx[o] /\ UNCHANGED <<used, locks, blocked>>
        BY <2>2 DEF Begin, LedgerInv, TypeOK
      <3> QED
        BY <3>1, OthersProtected
    <2> QED
      BY <2>1, <2>2
  <1> QED
    BY <1>4, <1>5, <1>6 DEF LedgerInv, LocksProtect

LEMMA BindInv ==
    ASSUME LedgerInv, NEW c \in Callers, Bind(c)
    PROVE  LedgerInv'
  <1> DEFINE a == tx[c].approval
  <1>1. tx[c] \in Transactions /\ a \in Approvals /\ tx[c].done = {}
    BY DEF LedgerInv, TypeOK, LocksProtect, Bound, Bind, Transactions
  <1>2. locks[a] = NoOne /\ UNCHANGED <<today, used, blocked, expired, calls>>
    BY DEF Bind, Free
  <1>3. WithinLimits'
    BY <1>2 DEF LedgerInv, WithinLimits, Limit, Unreserved
  <1>4. CASE a \in blocked \cup expired
    <2>1. tx' = Ended(c) /\ UNCHANGED locks
      BY <1>4 DEF Bind
    <2>2. TypeOK'
      BY <1>2, <2>1, EndedType DEF LedgerInv, TypeOK
    <2>3. \A o \in Callers : Reads(o)' /\ Bound(o)'
      <3> TAKE o \in Callers
      <3>1. CASE o = c
        <4>1. tx'[o] = NoTransaction
          BY <2>1, <3>1 DEF LedgerInv, TypeOK, Ended
        <4> QED
          BY <4>1 DEF Reads, Bound, NoTransaction
      <3>2. CASE o # c
        <4>1. tx'[o] = tx[o]
          BY <2>1, <3>2 DEF LedgerInv, TypeOK, Ended
        <4> QED
          BY <4>1, <1>2, <2>1, OthersProtected
      <3> QED
        BY <3>1, <3>2
    <2> QED
      BY <1>3, <2>2, <2>3 DEF LedgerInv, LocksProtect
  <1>5. CASE a \notin blocked \cup expired
    <2>1. /\ tx' = [tx EXCEPT ![c].step = "charging"]
          /\ locks' = [locks EXCEPT ![a] = c]
      BY <1>5 DEF Bind
    <2>2. /\ tx'[c] = [tx[c] EXCEPT !.step = "charging"]
          /\ locks'[a] = c
          /\ \A l \in Buckets \cup Approvals : l # a => locks'[l] = locks[l]
      BY <2>1, <1>1 DEF LedgerInv, TypeOK
    <2>3. /\ tx'[c] \in Transactions /\ tx'[c].done = {} /\ tx'[c].approval = a
          /\ tx'[c].step = "charging"
      BY <2>2, <1>1 DEF Transactions
    <2>4. TypeOK'
      BY <1>1, <1>2, <2>1, <2>3 DEF LedgerInv, TypeOK
    <2>5. \A o \in Callers : Reads(o)' /\ Bound(o)'
      <3> TAKE o \in Callers
      <3>1. CASE o = c
        BY <3>1, <2>2, <2>3, <1>2, <1>5 DEF Reads, Bound
      <3>2. CASE o # c
        <4>1. tx'[o] = tx[o] /\ o # NoOne
          BY <2>1, <3>2, LedgerAssumption DEF LedgerInv, TypeOK
        <4>2. \A l \in Buckets \cup Approvals : locks[l] = o => locks'[l] = o
          BY <4>1, <2>2, <1>2
        <4> QED
          BY <4>1, <4>2, <1>2, OthersProtected
      <3> QED
        BY <3>1, <3>2
    <2> QED
      BY <1>3, <2>4, <2>5 DEF LedgerInv, LocksProtect
  <1> QED
    BY <1>4, <1>5

\* Reading one more bucket leaves a transaction a transaction.
LEMMA ReadMore ==
    ASSUME NEW t \in Transactions, NEW r \in [Buckets -> Nat], NEW b \in Buckets
    PROVE  [t EXCEPT !.read = r, !.done = t.done \cup {b}] \in Transactions
  BY DEF Transactions

LEMMA ChargeInv ==
    ASSUME LedgerInv, NEW c \in Callers, NEW b \in Buckets, Charge(c, b)
    PROVE  LedgerInv'
  <1>1. /\ tx[c] \in Transactions /\ used[b] \in Nat
        /\ Reads(c) /\ Bound(c) /\ tx[c].step = "charging"
    BY DEF LedgerInv, TypeOK, LocksProtect, Charge
  <1>2. /\ locks[b] = NoOne /\ Fits(b, tx[c].lane)
        /\ locks' = [locks EXCEPT ![b] = c]
        /\ tx' = [tx EXCEPT ![c].read = [@ EXCEPT ![b] = used[b]], ![c].done = @ \cup {b}]
        /\ UNCHANGED <<today, used, blocked, expired, calls>>
    BY DEF Charge, Free
  <1>3. /\ locks'[b] = c
        /\ \A l \in Buckets \cup Approvals : l # b => locks'[l] = locks[l]
    BY <1>2 DEF LedgerInv, TypeOK
  <1>4. /\ tx'[c] \in Transactions /\ tx'[c].done = tx[c].done \cup {b}
        /\ tx'[c].step = "charging" /\ tx'[c].approval = tx[c].approval
        /\ tx'[c].lane = tx[c].lane
        /\ tx'[c].read = [tx[c].read EXCEPT ![b] = used[b]]
    <2> DEFINE read == [tx[c].read EXCEPT ![b] = used[b]]
    <2>1. tx'[c] = [tx[c] EXCEPT !.read = read, !.done = tx[c].done \cup {b}]
      BY <1>2 DEF LedgerInv, TypeOK
    <2>2. read \in [Buckets -> Nat]
      BY <1>1 DEF Transactions
    <2> HIDE DEF read
    <2>3. tx'[c] \in Transactions
      <3>1. [tx[c] EXCEPT !.read = read, !.done = tx[c].done \cup {b}] \in Transactions
        BY ONLY <1>1, <2>2, ReadMore, b \in Buckets
      <3> QED
        BY ONLY <3>1, <2>1
    <2>4. /\ tx'[c].done = tx[c].done \cup {b}
          /\ tx'[c].step = "charging" /\ tx'[c].approval = tx[c].approval
          /\ tx'[c].lane = tx[c].lane /\ tx'[c].read = read
      BY ONLY <2>1, <1>1 DEF Transactions
    <2> QED
      BY <2>3, <2>4 DEF read
  <1>5. TypeOK'
    BY <1>2, <1>4 DEF LedgerInv, TypeOK
  <1>6. WithinLimits'
    BY <1>2 DEF LedgerInv, WithinLimits, Limit, Unreserved
  <1>7. \A o \in Callers : Reads(o)' /\ Bound(o)'
    <2> TAKE o \in Callers
    <2>0. o # NoOne /\ \A l \in Buckets \cup Approvals : locks[l] = o => locks'[l] = o
      BY <1>2, <1>3, LedgerAssumption
    <2>1. CASE o = c
      <3>1. tx[c].done \subseteq Buckets /\ tx[c].approval \in Approvals
            /\ tx[c].read \in [Buckets -> Nat]
        BY <1>1 DEF Transactions
      <3>2. Reads(c)'
        <4> SUFFICES ASSUME NEW d \in tx'[c].done
                     PROVE  /\ locks'[d] = c
                            /\ tx'[c].read[d] = used[d]
                            /\ used[d] + Amount(d) <= Limit(d, tx[c].lane)
          BY <1>2, <1>4 DEF Reads, Amount, Limit, Unreserved
        <4>1. CASE d = b
          BY <4>1, <1>2, <1>3, <1>4, <3>1 DEF Fits
        <4>2. CASE d # b
          <5>1. d \in tx[c].done /\ d \in Buckets
            BY <4>2, <1>4, <3>1
          <5>2. locks[d] = c /\ tx[c].read[d] = used[d]
                /\ used[d] + Amount(d) <= Limit(d, tx[c].lane)
            BY <5>1, <1>1 DEF Reads
          <5>3. tx'[c].read[d] = tx[c].read[d]
            BY <5>1, <4>2, <1>4, <3>1
          <5> QED
            BY <5>1, <5>2, <5>3, <1>3, <4>2
        <4> QED
          BY <4>1, <4>2
      <3>3. Bound(c)'
        <4>1. locks[tx[c].approval] = c /\ tx[c].approval \notin blocked
          BY <1>1 DEF Bound
        <4>2. locks'[tx[c].approval] = c
          BY <4>1, <3>1, <2>0, <2>1
        <4>3. tx'[c].approval = tx[c].approval /\ tx'[c].step = "charging" /\ UNCHANGED blocked
          BY <1>2, <1>4
        <4> QED
          BY <4>1, <4>2, <4>3 DEF Bound
      <3> QED
        BY <2>1, <3>2, <3>3
    <2>2. CASE o # c
      <3>1. tx'[o] = tx[o]
        BY <2>2, <1>2 DEF LedgerInv, TypeOK
      <3> QED
        BY <3>1, <2>0, <1>2, OthersProtected
    <2> QED
      BY <2>1, <2>2
  <1> QED
    BY <1>5, <1>6, <1>7 DEF LedgerInv, LocksProtect

\* A transaction that is refused or lost leaves no trace.
LEMMA RollbackInv ==
    ASSUME LedgerInv, NEW c \in Callers, tx' = Ended(c), locks' = Released(c),
           UNCHANGED <<today, used, blocked, expired, calls>>
    PROVE  LedgerInv'
  <1>1. TypeOK'
    BY EndedType DEF LedgerInv, TypeOK
  <1>2. WithinLimits'
    BY DEF LedgerInv, WithinLimits, Limit, Unreserved
  <1>3. LocksProtect'
    BY EndedProtects
  <1> QED
    BY <1>1, <1>2, <1>3 DEF LedgerInv

LEMMA CommitInv ==
    ASSUME LedgerInv, NEW c \in Callers, Commit(c)
    PROVE  LedgerInv'
  <1>1. tx[c] \in Transactions /\ Reads(c) /\ Mine(c) \subseteq tx[c].done
    BY DEF LedgerInv, TypeOK, LocksProtect, Commit
  <1>2. Mine(c) \subseteq Buckets
    BY <1>1, BucketFacts DEF Mine, Transactions
  <1>3. used' = [b \in Buckets |-> IF b \in Mine(c) THEN tx[c].read[b] + Amount(b) ELSE used[b]]
    BY Zenon DEF Commit
  <1>4. ASSUME NEW b \in Buckets
        PROVE  /\ used'[b] \in Nat
               /\ used'[b] <= Limit(b, "urgent")
               /\ locks[b] # c => used'[b] = used[b]
    <2>0. used[b] \in Nat /\ used[b] <= Limit(b, "urgent")
      BY DEF LedgerInv, TypeOK, WithinLimits
    <2>1. CASE b \in Mine(c)
      <3>1. used'[b] = tx[c].read[b] + Amount(b)
        BY <1>3, <2>1
      <3>2. /\ locks[b] = c /\ tx[c].read[b] = used[b]
            /\ used[b] + Amount(b) <= Limit(b, tx[c].lane)
        BY <1>1, <2>1 DEF Reads
      <3>3. Amount(b) \in Nat /\ Limit(b, tx[c].lane) \in Nat /\ Limit(b, "urgent") \in Nat
            /\ Limit(b, tx[c].lane) <= Limit(b, "urgent")
        BY AmountFacts
      <3> QED
        BY <2>0, <3>1, <3>2, <3>3
    <2>2. CASE b \notin Mine(c)
      <3>1. used'[b] = used[b]
        BY <1>3, <2>2, Zenon
      <3> QED
        BY <3>1, <2>0
    <2> QED
      BY <2>1, <2>2
  <1>5. TypeOK'
    <2>1. used' \in [Buckets -> Nat]
      BY <1>3, <1>4
    <2>2. calls' \in Seq(Calls)
      <3>1. [approval |-> tx[c].approval, day |-> tx[c].day, usage |-> "open"] \in Calls
        BY <1>1 DEF Transactions, Calls
      <3> QED
        BY <3>1 DEF Commit, LedgerInv, TypeOK
    <2> QED
      BY <2>1, <2>2, EndedType DEF Commit, LedgerInv, TypeOK
  <1>6. WithinLimits'
    BY <1>4 DEF WithinLimits, Limit, Unreserved
  <1>7. LocksProtect'
    BY <1>4, EndedProtects DEF Commit
  <1> QED
    BY <1>5, <1>6, <1>7 DEF LedgerInv

LEMMA RecordUsageInv ==
    ASSUME LedgerInv, NEW k \in DOMAIN calls, NEW overrun \in BOOLEAN, RecordUsage(k, overrun)
    PROVE  LedgerInv'
  <1>1. calls[k] \in Calls /\ calls[k].approval \in Approvals
    <2>1. calls[k] \in Calls
      BY DEF LedgerInv, TypeOK
    <2> QED
      BY <2>1 DEF Calls
  <1>2. \/ UNCHANGED blocked
        \/ locks[calls[k].approval] = NoOne /\ blocked' = blocked \cup {calls[k].approval}
    BY DEF RecordUsage, Free
  <1>3. UNCHANGED <<today, used, expired, locks, tx>>
    BY DEF RecordUsage
  <1>4. TypeOK'
    <2>1. [calls[k] EXCEPT !.usage = "reported"] \in Calls
      BY <1>1 DEF Calls
    <2>2. calls' = [calls EXCEPT ![k] = [calls[k] EXCEPT !.usage = "reported"]]
      BY DEF RecordUsage
    <2>3. calls' \in Seq(Calls)
      BY <2>1, <2>2 DEF LedgerInv, TypeOK
    <2> QED
      BY <2>3, <1>1, <1>2, <1>3 DEF LedgerInv, TypeOK
  <1>5. WithinLimits'
    BY <1>3 DEF LedgerInv, WithinLimits, Limit, Unreserved
  <1>6. \A o \in Callers : Reads(o)' /\ Bound(o)'
    <2> TAKE o \in Callers
    <2>1. o # NoOne
      BY LedgerAssumption
    <2>2. \A a \in Approvals : locks[a] = o => (a \in blocked' => a \in blocked)
      BY <1>2, <2>1
    <2> QED
      BY <2>2, <1>3, OthersProtected
  <1> QED
    BY <1>4, <1>5, <1>6 DEF LedgerInv, LocksProtect

\* A step that touches neither the ledger nor its transactions.
LEMMA QuietInv ==
    ASSUME LedgerInv, UNCHANGED <<used, blocked, calls, locks, tx>>,
           today' \in Days, expired' \subseteq Approvals
    PROVE  LedgerInv'
  <1>1. TypeOK' /\ WithinLimits'
    BY DEF LedgerInv, TypeOK, WithinLimits, Limit, Unreserved
  <1>2. \A o \in Callers : Reads(o)' /\ Bound(o)'
    BY OthersProtected
  <1> QED
    BY <1>1, <1>2 DEF LedgerInv, LocksProtect

\* Every step keeps it.
THEOREM NextInv == LedgerInv /\ [Next]_vars => LedgerInv'
  <1> SUFFICES ASSUME LedgerInv, [Next]_vars PROVE LedgerInv'
    OBVIOUS
  <1>1. ASSUME NEW c \in Callers, NEW a \in Approvals, NEW lane \in Lanes, Begin(c, a, lane)
        PROVE  LedgerInv'
    BY <1>1, BeginInv
  <1>2. ASSUME NEW c \in Callers, Step(c) PROVE LedgerInv'
    <2>1. CASE Bind(c)
      BY <2>1, BindInv
    <2>2. ASSUME NEW b \in Mine(c), Charge(c, b) PROVE LedgerInv'
      <3>1. b \in Buckets
        BY BucketFacts DEF Mine, LedgerInv, TypeOK, Transactions
      <3> QED
        BY <2>2, <3>1, ChargeInv
    <2>3. ASSUME NEW b \in Mine(c), Refuse(c, b) PROVE LedgerInv'
      BY <2>3, RollbackInv DEF Refuse
    <2>4. CASE Commit(c)
      BY <2>4, CommitInv
    <2> QED
      BY <1>2, <2>1, <2>2, <2>3, <2>4 DEF Step
  <1>3. ASSUME NEW c \in Callers, Crash(c) PROVE LedgerInv'
    BY <1>3, RollbackInv DEF Crash
  <1>4. ASSUME NEW k \in DOMAIN calls, NEW overrun \in BOOLEAN, RecordUsage(k, overrun)
        PROVE  LedgerInv'
    BY <1>4, RecordUsageInv
  <1>5. ASSUME NEW a \in Approvals, Expire(a) PROVE LedgerInv'
    BY <1>5, QuietInv DEF Expire, LedgerInv, TypeOK
  <1>6. CASE NextDay
    BY <1>6, QuietInv, LedgerAssumption DEF NextDay, LedgerInv, TypeOK, Days
  <1>7. CASE UNCHANGED vars
    BY <1>7, QuietInv DEF vars, LedgerInv, TypeOK
  <1> QED
    BY <1>1, <1>2, <1>3, <1>4, <1>5, <1>6, <1>7 DEF Next

\* Every reachable state of the ledger is well formed and its locks protect what
\* open transactions have read.
THEOREM LedgerInvariant == Spec => []LedgerInv
  BY InitInv, NextInv, PTL DEF Spec

\* reserve_provider_call never overdraws a bucket, however many threads reserve
\* at once and whatever the limits are.
THEOREM NeverOverdrawn == Spec => []WithinLimits
  BY LedgerInvariant, PTL DEF LedgerInv

\* Once record_model_usage has blocked an approval, no transaction commits a
\* request under it.
THEOREM NothingAfterBlock == Spec => BlockedForGood
  <1> DEFINE P == \A k \in DOMAIN calls' \ DOMAIN calls : calls'[k].approval \notin blocked
  <1>1. LedgerInv /\ [Next]_vars => [P]_vars
    <2> SUFFICES ASSUME LedgerInv, Next PROVE P
      BY DEF vars
    <2>1. ASSUME NEW c \in Callers, Commit(c) PROVE P
      <3> DEFINE call == [approval |-> tx[c].approval, day |-> tx[c].day, usage |-> "open"]
      <3>1. calls \in Seq(Calls) /\ tx[c].approval \notin blocked
        BY <2>1 DEF LedgerInv, TypeOK, LocksProtect, Bound, Commit
      <3>2. calls' = Append(calls, call)
        BY <2>1 DEF Commit
      <3>3. \A k \in DOMAIN calls' \ DOMAIN calls : calls'[k] = call
        BY <3>1, <3>2
      <3> QED
        BY <3>1, <3>3
    <2>2. ASSUME NEW k \in DOMAIN calls, NEW overrun \in BOOLEAN, RecordUsage(k, overrun)
          PROVE  P
      <3>1. DOMAIN calls' = DOMAIN calls
        BY <2>2 DEF RecordUsage, LedgerInv, TypeOK
      <3> QED
        BY <3>1
    <2>3. CASE UNCHANGED calls
      BY <2>3
    <2> QED
      BY <2>1, <2>2, <2>3
      DEF Next, Step, Begin, Bind, Charge, Refuse, Crash, Expire, NextDay
  <1> QED
    BY <1>1, LedgerInvariant, PTL DEF Spec, BlockedForGood

-----------------------------------------------------------------------------
\* The calls that charged a bucket.
CallsOn(b) == {k \in DOMAIN calls : b \in Charged(calls[k].approval, calls[k].day)}

LEMMA CallsOnFinite ==
    ASSUME LedgerInv, NEW b
    PROVE  IsFiniteSet(CallsOn(b)) /\ Cardinality(CallsOn(b)) \in Nat
  <1>1. DOMAIN calls = 1..Len(calls) /\ Len(calls) \in Nat
    BY DEF LedgerInv, TypeOK
  <1>2. IsFiniteSet(DOMAIN calls)
    BY <1>1, FS_Interval
  <1>3. CallsOn(b) \in SUBSET DOMAIN calls
    BY DEF CallsOn
  <1> QED
    BY <1>2, <1>3, FS_Subset, FS_CardinalityType

LEMMA AddsUpOn ==
    LedgerAddsUp <=> \A b \in Buckets : used[b] = Amount(b) * Cardinality(CallsOn(b))
  BY DEF LedgerAddsUp, ChargedBy, CallsOn

\* The amount of n + 1 charges is the amount of n and one more.
LEMMA OneMore ==
    ASSUME NEW m \in Nat, NEW n \in Nat PROVE m * (n + 1) = m * n + m
  OBVIOUS

\* A reservation that commits adds one call, and to every bucket that this call
\* charges what it charges: what was read is still so, since the locks were held.
LEMMA CommitAddsUp ==
    ASSUME LedgerInv, LedgerAddsUp, NEW c \in Callers, Commit(c)
    PROVE  LedgerAddsUp'
  <1> DEFINE call == [approval |-> tx[c].approval, day |-> tx[c].day, usage |-> "open"]
             last == Len(calls) + 1
  <1>1. /\ tx[c] \in Transactions /\ Reads(c) /\ Mine(c) \subseteq tx[c].done
        /\ calls \in Seq(Calls)
    BY DEF LedgerInv, TypeOK, LocksProtect, Commit
  <1>2. calls' = Append(calls, call)
    BY DEF Commit
  <1>3. /\ DOMAIN calls' = DOMAIN calls \cup {last} /\ last \notin DOMAIN calls
        /\ calls'[last] = call
        /\ \A k \in DOMAIN calls : calls'[k] = calls[k]
    BY <1>1, <1>2
  <1>4. Charged(call.approval, call.day) = Mine(c)
    BY DEF Mine
  <1>5. used' = [b \in Buckets |-> IF b \in Mine(c) THEN tx[c].read[b] + Amount(b) ELSE used[b]]
    BY Zenon DEF Commit
  <1>6. ASSUME NEW b \in Buckets
        PROVE  used'[b] = Amount(b) * Cardinality(CallsOn(b)')
    <2>0. /\ used[b] = Amount(b) * Cardinality(CallsOn(b))
          /\ Amount(b) \in Nat
          /\ IsFiniteSet(CallsOn(b)) /\ Cardinality(CallsOn(b)) \in Nat
      BY AddsUpOn, AmountFacts, CallsOnFinite
    <2>1. CASE b \in Mine(c)
      <3>1. used'[b] = used[b] + Amount(b)
        <4>1. used'[b] = tx[c].read[b] + Amount(b)
          BY <1>5, <2>1
        <4>2. tx[c].read[b] = used[b]
          BY <1>1, <2>1 DEF Reads
        <4> QED
          BY <4>1, <4>2
      <3>2. CallsOn(b)' = CallsOn(b) \cup {last} /\ last \notin CallsOn(b)
        BY <1>3, <1>4, <2>1 DEF CallsOn, Charged
      <3>3. Cardinality(CallsOn(b)') = Cardinality(CallsOn(b)) + 1
        BY <2>0, <3>2, FS_AddElement
      <3> QED
        BY ONLY <2>0, <3>1, <3>3, OneMore
    <2>2. CASE b \notin Mine(c)
      <3>1. used'[b] = used[b]
        BY <1>5, <2>2, Zenon
      <3>2. CallsOn(b)' = CallsOn(b)
        BY <1>3, <1>4, <2>2 DEF CallsOn, Charged
      <3> QED
        BY <2>0, <3>1, <3>2
    <2> QED
      BY <2>1, <2>2
  <1> QED
    BY <1>6 DEF LedgerAddsUp, ChargedBy, CallsOn, Amount

\* What a model reports changes a call's usage and none of its charges.
LEMMA UsageAddsUp ==
    ASSUME LedgerInv, LedgerAddsUp,
           NEW k \in DOMAIN calls, NEW overrun \in BOOLEAN, RecordUsage(k, overrun)
    PROVE  LedgerAddsUp'
  <1>1. calls \in Seq(Calls) /\ calls[k] \in Calls
    BY DEF LedgerInv, TypeOK
  <1>2. calls' = [calls EXCEPT ![k] = [calls[k] EXCEPT !.usage = "reported"]] /\ UNCHANGED used
    BY DEF RecordUsage
  <1>3. DOMAIN calls' = DOMAIN calls
    BY <1>2
  <1>4. \A j \in DOMAIN calls : calls'[j].approval = calls[j].approval /\ calls'[j].day = calls[j].day
    BY <1>1, <1>2 DEF Calls
  <1>5. \A b \in Buckets : CallsOn(b)' = CallsOn(b)
    BY <1>3, <1>4 DEF CallsOn, Charged
  <1> QED
    BY <1>2, <1>5, AddsUpOn DEF LedgerAddsUp, ChargedBy, CallsOn, Amount

\* Every bucket holds exactly what the recorded calls charged it, however
\* reservations interleave, are refused or are cut off
\* (reserve_provider_call is all or nothing).
THEOREM NothingLostOrLeftBehind == Spec => []LedgerAddsUp
  <1>1. Init => LedgerAddsUp
    <2> SUFFICES ASSUME Init, NEW b \in Buckets PROVE used[b] = ChargedBy(DOMAIN calls, b)
      BY DEF LedgerAddsUp
    <2>1. DOMAIN calls = {} /\ used[b] = 0
      BY DEF Init
    <2>2. {k \in DOMAIN calls : b \in Charged(calls[k].approval, calls[k].day)} = {}
      BY <2>1
    <2>3. Amount(b) \in Nat
      BY AmountFacts
    <2> QED
      BY <2>1, <2>2, <2>3, FS_EmptySet DEF ChargedBy
  <1>2. LedgerInv /\ LedgerAddsUp /\ [Next]_vars => LedgerAddsUp'
    <2> SUFFICES ASSUME LedgerInv, LedgerAddsUp, [Next]_vars PROVE LedgerAddsUp'
      OBVIOUS
    <2>1. ASSUME NEW c \in Callers, Commit(c) PROVE LedgerAddsUp'
      BY <2>1, CommitAddsUp
    <2>2. ASSUME NEW k \in DOMAIN calls, NEW overrun \in BOOLEAN, RecordUsage(k, overrun)
          PROVE  LedgerAddsUp'
      BY <2>2, UsageAddsUp
    <2>3. CASE UNCHANGED <<used, calls>>
      BY <2>3 DEF LedgerAddsUp, ChargedBy, Charged, Amount
    <2> QED
      BY <2>1, <2>2, <2>3, Zenon
      DEF Next, Step, Begin, Bind, Charge, Refuse, Crash, Expire, NextDay, vars
  <1> QED
    BY <1>1, <1>2, LedgerInvariant, PTL DEF Spec

\* The tables of the ledger, and every open transaction, keep their types
\* (budget_counters, provider_calls).
THEOREM TypeCorrect == Spec => []TypeOK
<1>1. LedgerInv => TypeOK
  BY DEF LedgerInv
<1> QED
  BY <1>1, LedgerInvariant, PTL
=============================================================================
