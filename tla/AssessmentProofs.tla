-------------------------- MODULE AssessmentProofs --------------------------
(***************************************************************************)
(* For any records, families, workers and bounds: no committed evidence is *)
(* lost, no record is consumed without being accounted for, and a settled  *)
(* record is never touched again.                                          *)
(*                                                                         *)
(* The argument: a worker that has looked at the heads knows the evidence  *)
(* of every head that has not moved since (Informed); a commit needs every *)
(* head of its batch unmoved, so what it cites covers what was cited and   *)
(* what it was given.  That the newest revision of a record exists among   *)
(* those assessed is the well-foundedness of the numbers.                  *)
(***************************************************************************)
EXTENDS Assessment, SequenceTheorems, WellFoundedInduction, TLAPS

\* The updates of a whole row, by a claim, a result and a deferral, give a row
\* again.
LEMMA RowUpdates ==
    ASSUME NEW row \in Rows, NEW a \in 0..MaxAttempts, NEW t \in 0..MaxBatches
    PROVE  /\ [row EXCEPT !.state = "processing", !.attempt = a, !.token = t, !.lease = "live"] \in Rows
           /\ [row EXCEPT !.state = "pending", !.attempt = a, !.token = 0, !.lease = "none",
                          !.backoff = "waiting"] \in Rows
<1>1. 0 \in 0..MaxBatches
  BY AssessmentAssumption
<1> QED
  BY <1>1 DEF Rows

\* So do those by a result or a recovery.
LEMMA Returned ==
    ASSUME NEW row \in Rows, NEW s \in {"pending", "done", "failed"}
    PROVE  /\ [row EXCEPT !.state = s, !.token = 0, !.lease = "none"] \in Rows
           /\ [row EXCEPT !.state = s, !.token = 0, !.lease = "none", !.backoff = "waiting"] \in Rows
<1>1. 0 \in 0..MaxBatches
  BY AssessmentAssumption
<1> QED
  BY <1>1 DEF Rows

\* Records are pairs of an id and a revision.
LEMMA RecordType ==
    ASSUME NEW r \in Records
    PROVE  /\ r[1] \in Ids /\ r[2] \in 1..LastRevision[r[1]] /\ r[2] \in Nat
           /\ LastRevision[r[1]] \in Nat
           /\ r = <<r[1], r[2]>>
           /\ Family(r) \in Families
BY AssessmentAssumption DEF Records, Family

\* The current evidence of a family consists of records.
LEMMA CurrentType ==
    ASSUME TypeOK, NEW f \in Families
    PROVE  Current(f) \subseteq Records /\ Len(versions[f]) \in Nat
BY DEF TypeOK, Current, Last

\* A row that nobody holds has no lease, and one that is held has been tried.
Held == \A r \in Records :
    /\ rows[r].state # "processing" => rows[r].lease = "none"
    /\ rows[r].state = "processing" => rows[r].attempt > 0

\* What a step does to a row.
RowStep(r) ==
    \/ rows'[r] = rows[r]
    \/ /\ rows[r].state = "absent" /\ rows'[r] \in {NewRow("pending"), NewRow("quarantined")}
    \/ /\ rows[r].state = "pending" /\ rows'[r].state = "processing" /\ rows'[r].attempt > 0
    \/ /\ rows[r].state = "pending" /\ rows'[r].state = "pending" /\ rows'[r].lease = rows[r].lease
    \/ /\ rows[r].state = "processing" /\ rows'[r].state = "processing"
       /\ rows'[r].attempt = rows[r].attempt
    \/ /\ rows[r].state = "processing" /\ rows'[r].state \in {"pending", "failed", "done"}
       /\ rows'[r].lease = "none"

\* Rows stay rows, and each goes on along its life cycle.
LEMMA RowsType ==
    ASSUME TypeOK, Held, [Next]_vars
    PROVE  rows' \in [Records -> Rows] /\ \A r \in Records : RowStep(r)
<1> USE DEF TypeOK
<1>1. ASSUME NEW r \in Records, NEW state \in {"pending", "quarantined"}, Insert(r, state)
      PROVE  rows' \in [Records -> Rows] /\ \A q \in Records : RowStep(q)
  <2>1. NewRow(state) \in Rows
    BY AssessmentAssumption DEF NewRow, Rows
  <2> QED
    BY <1>1, <2>1 DEF Insert, RowStep
<1>2. ASSUME NEW w \in Workers, NEW B \in SUBSET Records, Claim(w, B)
      PROVE  rows' \in [Records -> Rows] /\ \A q \in Records : RowStep(q)
  <2> SUFFICES ASSUME NEW q \in Records PROVE rows'[q] \in Rows /\ RowStep(q)
    BY <1>2 DEF Claim
  <2>1. CASE q \notin B
    BY <1>2, <2>1 DEF Claim, RowStep
  <2>2. CASE q \in B
    <3>1. /\ rows'[q] = [rows[q] EXCEPT !.state = "processing", !.attempt = rows[q].attempt + 1,
                                        !.token = batches', !.lease = "live"]
          /\ rows[q].state = "pending"
      BY <1>2, <2>2 DEF Claim, Claimable
    <3>2. rows[q].attempt + 1 \in 1..MaxAttempts /\ batches' \in 0..MaxBatches
      <4>1. rows[q].attempt \in 0..MaxAttempts /\ rows[q].attempt < MaxAttempts
        BY <1>2, <2>2 DEF Claim, Claimable, Rows
      <4>2. batches' = batches + 1 /\ batches < MaxBatches /\ batches \in 0..MaxBatches
        BY <1>2 DEF Claim
      <4> QED
        BY <4>1, <4>2, AssessmentAssumption
    <3>3. rows'[q] \in Rows
      <4>1. rows[q] \in Rows /\ rows[q].attempt + 1 \in 0..MaxAttempts
        BY <3>2, AssessmentAssumption
      <4>2. [rows[q] EXCEPT !.state = "processing", !.attempt = rows[q].attempt + 1,
                            !.token = batches', !.lease = "live"] \in Rows
        BY <3>2, <4>1, RowUpdates
      <4> QED
        BY <3>1, <4>2
    <3>4. rows'[q].state = "processing" /\ rows'[q].attempt = rows[q].attempt + 1
      BY <3>1 DEF Rows
    <3> QED
      BY <3>1, <3>2, <3>3, <3>4 DEF RowStep
  <2> QED
    BY <2>1, <2>2
<1>3. ASSUME NEW w \in Workers, NEW rejudged, Commit(w, rejudged)
      PROVE  rows' \in [Records -> Rows] /\ \A q \in Records : RowStep(q)
  <2> SUFFICES ASSUME NEW q \in Records PROVE rows'[q] \in Rows /\ RowStep(q)
    BY <1>3 DEF Commit
  <2>1. CASE q \notin job[w].batch
    BY <1>3, <2>1 DEF Commit, RowStep
  <2>2. CASE q \in job[w].batch
    <3>1. /\ rows'[q] = [rows[q] EXCEPT !.state = "done", !.token = 0, !.lease = "none"]
          /\ rows[q].state = "processing"
      BY <1>3, <2>2 DEF Commit, Owns
    <3>2. rows'[q].state = "done" /\ rows'[q].lease = "none"
      BY <3>1 DEF Rows
    <3>4. rows'[q] \in Rows
      <4>1. rows[q] \in Rows
        OBVIOUS
      <4>2. [rows[q] EXCEPT !.state = "done", !.token = 0, !.lease = "none"] \in Rows
        BY <4>1, Returned
      <4> QED
        BY <3>1, <4>2
    <3> QED
      BY <3>1, <3>2, <3>4 DEF RowStep
  <2> QED
    BY <2>1, <2>2
<1>4. ASSUME NEW w \in Workers, Fail(w)
      PROVE  rows' \in [Records -> Rows] /\ \A q \in Records : RowStep(q)
  <2> SUFFICES ASSUME NEW q \in Records PROVE rows'[q] \in Rows /\ RowStep(q)
    BY <1>4 DEF Fail
  <2>1. CASE q \notin job[w].batch
    BY <1>4, <2>1 DEF Fail, RowStep
  <2>2. CASE q \in job[w].batch
    <3>1. PICK s \in {"pending", "failed"} :
             rows'[q] = [rows[q] EXCEPT !.state = s, !.token = 0, !.lease = "none",
                                        !.backoff = "waiting"]
      BY <1>4, <2>2 DEF Fail
    <3>2. rows[q].state = "processing"
      BY <1>4, <2>2 DEF Fail, Owns
    <3>3. rows'[q].state = s /\ rows'[q].lease = "none"
      BY <3>1 DEF Rows
    <3>5. rows'[q] \in Rows
      <4>1. rows[q] \in Rows
        OBVIOUS
      <4>2. [rows[q] EXCEPT !.state = s, !.token = 0, !.lease = "none",
                            !.backoff = "waiting"] \in Rows
        BY <4>1, Returned
      <4> QED
        BY <3>1, <4>2
    <3> QED
      BY <3>2, <3>3, <3>5 DEF RowStep
  <2> QED
    BY <2>1, <2>2
<1>5. ASSUME NEW w \in Workers, Defer(w)
      PROVE  rows' \in [Records -> Rows] /\ \A q \in Records : RowStep(q)
  <2> SUFFICES ASSUME NEW q \in Records PROVE rows'[q] \in Rows /\ RowStep(q)
    BY <1>5 DEF Defer
  <2>1. CASE q \notin job[w].batch
    BY <1>5, <2>1 DEF Defer, RowStep
  <2>2. CASE q \in job[w].batch
    <3>1. rows'[q] = [rows[q] EXCEPT !.state = "pending", !.attempt = rows[q].attempt - 1,
                                     !.token = 0, !.lease = "none", !.backoff = "waiting"]
      BY <1>5, <2>2 DEF Defer
    <3>2. rows[q].state = "processing"
      BY <1>5, <2>2 DEF Defer, Owns
    <3>3. rows'[q].state = "pending" /\ rows'[q].lease = "none"
      BY <3>1 DEF Rows
    <3>4. rows[q].attempt - 1 \in 0..MaxAttempts
      <4>1. rows[q].attempt \in 0..MaxAttempts /\ rows[q].attempt > 0
        BY <3>2 DEF Held, Rows
      <4> QED
        BY <4>1, AssessmentAssumption
    <3>5. rows'[q] \in Rows
      <4>1. rows[q] \in Rows
        OBVIOUS
      <4>2. [rows[q] EXCEPT !.state = "pending", !.attempt = rows[q].attempt - 1,
                            !.token = 0, !.lease = "none", !.backoff = "waiting"] \in Rows
        BY <3>4, <4>1, RowUpdates
      <4> QED
        BY <3>1, <4>2
    <3> QED
      BY <3>2, <3>3, <3>5 DEF RowStep
  <2> QED
    BY <2>1, <2>2
<1>6. ASSUME RecoverRecords PROVE rows' \in [Records -> Rows] /\ \A q \in Records : RowStep(q)
  <2> SUFFICES ASSUME NEW q \in Records PROVE rows'[q] \in Rows /\ RowStep(q)
    BY <1>6 DEF RecoverRecords
  <2>1. CASE ~Expired(q)
    BY <1>6, <2>1 DEF RecoverRecords, RowStep
  <2>2. CASE Expired(q)
    <3>1. PICK s \in {"pending", "failed"} :
             rows'[q] = [rows[q] EXCEPT !.state = s, !.token = 0, !.lease = "none"]
      BY <1>6, <2>2 DEF RecoverRecords
    <3>2. rows'[q].state = s /\ rows'[q].lease = "none"
      BY <3>1 DEF Rows
    <3>4. rows'[q] \in Rows
      <4>1. rows[q] \in Rows
        OBVIOUS
      <4>2. [rows[q] EXCEPT !.state = s, !.token = 0, !.lease = "none"] \in Rows
        BY <4>1, Returned
      <4> QED
        BY <3>1, <4>2
    <3> QED
      BY <2>2, <3>2, <3>4 DEF RowStep, Expired
  <2> QED
    BY <2>1, <2>2
<1>7. ASSUME NEW b, LeaseExpires(b) PROVE rows' \in [Records -> Rows] /\ \A q \in Records : RowStep(q)
  <2> SUFFICES ASSUME NEW q \in Records PROVE rows'[q] \in Rows /\ RowStep(q)
    BY <1>7 DEF LeaseExpires
  <2>1. CASE ~(rows[q].token = b /\ rows[q].lease = "live")
    BY <1>7, <2>1 DEF LeaseExpires, RowStep
  <2>2. CASE rows[q].token = b /\ rows[q].lease = "live"
    <3>1. rows'[q] = [rows[q] EXCEPT !.lease = "expired"]
      BY <1>7, <2>2 DEF LeaseExpires
    <3>2. rows[q].state = "processing"
      BY <2>2 DEF Held
    <3>3. rows'[q].state = "processing" /\ rows'[q].attempt = rows[q].attempt /\ rows'[q] \in Rows
      BY <3>1, <3>2 DEF Rows
    <3> QED
      BY <3>2, <3>3 DEF RowStep
  <2> QED
    BY <2>1, <2>2
<1>8. ASSUME NEW r \in Records, BackoffElapses(r)
      PROVE  rows' \in [Records -> Rows] /\ \A q \in Records : RowStep(q)
  BY <1>8 DEF BackoffElapses, RowStep, Rows
<1>9. rows' = rows => rows' \in [Records -> Rows] /\ \A q \in Records : RowStep(q)
  BY DEF RowStep
<1>10. ASSUME NEW w \in Workers, WorkerStep(w)
       PROVE  rows' \in [Records -> Rows] /\ \A q \in Records : RowStep(q)
  BY <1>3, <1>4, <1>5, <1>9, <1>10 DEF WorkerStep, Prepare, Reassess, OverBudget, AssessmentFails,
     CommitRefused, Overtaken
<1> QED
  BY <1>1, <1>2, <1>6, <1>7, <1>8, <1>9, <1>10 DEF Next, Crash, FundingChanges, vars

\* A bounded set of numbers has a greatest one.
LEMMA Highest ==
    ASSUME NEW N \in Nat, NEW S, S \subseteq 0..N, S # {}
    PROVE  \E m \in S : \A k \in S : k <= m
<1> DEFINE below == OpToRel(<, Nat)
           T == {n \in Nat : N - n \in S}
<1>1. \A x, y \in Nat : <<x, y>> \in below <=> x < y
  BY DEF OpToRel
<1>2. IsWellFoundedOn(below, Nat)
  BY NatLessThanWellFounded
<1>3. T \subseteq Nat /\ T # {}
  <2>1. PICK k \in S : TRUE
    OBVIOUS
  <2>2. N - k \in T
    BY <2>1
  <2> QED
    BY <2>2
<1> HIDE DEF below
<1>4. PICK m \in T : \A y \in T : <<y, m>> \notin below
  <2> HIDE DEF T
  <2> QED
    BY <1>2, <1>3, WFMin
<1>5. m \in Nat /\ N - m \in S
  OBVIOUS
<1>6. \A k \in S : k <= N - m
  <2> SUFFICES ASSUME NEW k \in S PROVE k <= N - m
    OBVIOUS
  <2>1. N - k \in T /\ N - k \in Nat /\ k \in Nat
    OBVIOUS
  <2>2. ~(N - k < m)
    BY <1>1, <1>4, <1>5, <2>1
  <2> QED
    BY <1>5, <2>1, <2>2
<1> QED
  BY <1>5, <1>6

\* A record is covered when it, or a newer revision of it, is cited.
Covered(r, evidence) == \E s \in evidence : s[1] = r[1] /\ s[2] >= r[2]

\* An assessment leaves no record out: it cites its newest revision.
LEMMA NothingLeftOut ==
    ASSUME NEW input \in SUBSET Records, NEW r \in input
    PROVE  Covered(r, Evidence(Family(r), input))
<1> DEFINE S == {n \in 1..LastRevision[r[1]] : <<r[1], n>> \in input}
<1>1. LastRevision[r[1]] \in Nat /\ r[2] \in S
  BY RecordType
<1>2. S \subseteq 0..LastRevision[r[1]] /\ S # {}
  BY <1>1
<1>3. PICK m \in S : \A k \in S : k <= m
  <2> HIDE DEF S
  <2> QED
    BY <1>1, <1>2, Highest
<1>4. <<r[1], m>> \in input /\ r[2] <= m
  BY <1>1, <1>3
<1>5. Family(<<r[1], m>>) = Family(r)
  BY DEF Family
<1>6. \A s \in input : s[1] = r[1] => s[2] <= m
  <2> SUFFICES ASSUME NEW s \in input, s[1] = r[1] PROVE s[2] <= m
    OBVIOUS
  <2>1. s = <<r[1], s[2]>> /\ s[2] \in 1..LastRevision[r[1]]
    BY RecordType
  <2> QED
    BY <1>3, <2>1
<1>7. <<r[1], m>> \in Evidence(Family(r), input)
  BY <1>4, <1>5, <1>6 DEF Evidence
<1>8. r[2] \in Nat /\ m \in Nat
  BY <1>1, <1>3
<1> QED
  BY <1>4, <1>7, <1>8 DEF Covered

\* To be covered is transitive.
LEMMA CoveredAgain ==
    ASSUME NEW r \in Records, NEW D \in SUBSET Records, NEW E \in SUBSET Records,
           Covered(r, D), \A s \in D : Covered(s, E)
    PROVE  Covered(r, E)
<1>1. PICK s \in D : s[1] = r[1] /\ s[2] >= r[2]
  BY DEF Covered
<1>2. PICK t \in E : t[1] = s[1] /\ t[2] >= s[2]
  BY DEF Covered
<1>3. r[2] \in Nat /\ s[2] \in Nat /\ t[2] \in Nat
  BY RecordType
<1> QED
  BY <1>1, <1>2, <1>3 DEF Covered

\* Each family's evidence is its own.
Filed == \A f \in Families : \A k \in 1..Len(versions[f]) : \A r \in versions[f][k] : Family(r) = f

\* A worker that has looked at the heads knows the evidence of every head that
\* has not moved since.
Informed ==
    \A w \in Workers : job[w].step \in {"reassessing", "deciding"} =>
        /\ job[w].batch \subseteq job[w].input
        /\ \A f \in Touched(job[w].batch) :
             /\ job[w].heads[f] <= Len(versions[f])
             /\ job[w].heads[f] = Len(versions[f]) => Current(f) \subseteq job[w].input

\* A version is added, and covers the one before it, or none is.
VersionStep(f) ==
    \/ versions'[f] = versions[f]
    \/ \E e \in SUBSET Records :
         /\ versions'[f] = Append(versions[f], e)
         /\ \A r \in e : Family(r) = f
         /\ \A r \in Current(f) : Covered(r, e)

\* A job speaks of records and families.
LEMMA TouchedType ==
    ASSUME TypeOK, NEW w \in Workers
    PROVE  /\ job[w].batch \in SUBSET Records /\ job[w].input \in SUBSET Records
           /\ job[w].heads \in [Families -> Nat]
           /\ Touched(job[w].batch) \subseteq Families
<1>1. job[w].batch \in SUBSET Records /\ job[w].input \in SUBSET Records
      /\ job[w].heads \in [Families -> Nat]
  BY DEF TypeOK, Jobs
<1> QED
  BY <1>1, RecordType DEF Touched

\* A commit covers what it found and what it was given.
LEMMA CommitCovers ==
    ASSUME TypeOK, Filed, Informed, NEW w \in Workers, NEW rejudged, Commit(w, rejudged),
           NEW f \in Touched(job[w].batch)
    PROVE  /\ \/ versions'[f] = versions[f] /\ Evidence(f, job[w].input) = Current(f)
              \/ versions'[f] = Append(versions[f], Evidence(f, job[w].input))
           /\ Evidence(f, job[w].input) \in SUBSET Records
           /\ \A r \in Evidence(f, job[w].input) : Family(r) = f
           /\ \A r \in Current(f) : Covered(r, Evidence(f, job[w].input))
           /\ \A r \in job[w].batch : Family(r) = f => Covered(r, Evidence(f, job[w].input))
<1> DEFINE input == job[w].input
           evidence == Evidence(f, input)
<1>0. f \in Families /\ input \in SUBSET Records /\ job[w].batch \subseteq input
  BY TouchedType DEF Informed, Commit
<1>1. Current(f) \subseteq input
  BY DEF Informed, Commit, HeadsUnchanged
<1>2. evidence \in SUBSET Records /\ \A r \in evidence : Family(r) = f
  BY <1>0 DEF Evidence
<1>3. \A r \in Current(f) : Family(r) = f
  <2>1. CASE versions[f] = << >>
    BY <2>1 DEF Current
  <2>2. CASE versions[f] # << >>
    <3>1. Len(versions[f]) \in 1..Len(versions[f])
      BY <1>0, <2>2 DEF TypeOK
    <3> QED
      BY <1>0, <2>2, <3>1 DEF Current, Last, Filed
  <2> QED
    BY <2>1, <2>2
<1>4. \A r \in input : Family(r) = f => Covered(r, evidence)
  BY <1>0, NothingLeftOut
<1>5. ~Regresses(f, evidence)
  <2> SUFFICES ASSUME NEW r \in evidence, NEW s \in Current(f), r[1] = s[1], r[2] < s[2]
               PROVE  FALSE
    BY DEF Regresses
  <2>1. s[2] <= r[2]
    BY <1>1 DEF Evidence
  <2>2. r[2] \in Nat /\ s[2] \in Nat
    BY <1>0, <1>1, <1>2, RecordType
  <2> QED
    BY <2>1, <2>2
<1>6. \/ versions'[f] = versions[f] /\ evidence = Current(f)
      \/ versions'[f] = Append(versions[f], evidence)
  BY <1>0, <1>5 DEF Commit
<1> QED
  BY <1>0, <1>1, <1>2, <1>3, <1>4, <1>6

\* Whatever a step does, it takes no version away and loses no evidence.
LEMMA VersionsStep ==
    ASSUME TypeOK, Filed, Informed, [Next]_vars, NEW f \in Families
    PROVE  VersionStep(f)
<1>1. ASSUME NEW w \in Workers, NEW rejudged, Commit(w, rejudged) PROVE VersionStep(f)
  <2>1. CASE f \in Touched(job[w].batch)
    BY <1>1, <2>1, CommitCovers DEF VersionStep
  <2>2. CASE f \notin Touched(job[w].batch)
    BY <1>1, <2>2 DEF VersionStep, Commit
  <2> QED
    BY <2>1, <2>2
<1>2. versions' = versions => VersionStep(f)
  BY DEF VersionStep
<1> QED
  BY <1>1, <1>2 DEF Next, WorkerStep, Insert, Claim, Prepare, Reassess, OverBudget, AssessmentFails,
     CommitRefused, Fail, Defer, Overtaken, Crash, RecoverRecords, LeaseExpires, BackoffElapses,
     FundingChanges, vars

\* What a version step does to the sequence.
LEMMA Grown ==
    ASSUME TypeOK, NEW f \in Families, VersionStep(f)
    PROVE  /\ versions'[f] \in Seq(SUBSET Records)
           /\ Len(versions'[f]) \in Nat /\ Len(versions[f]) \in Nat
           /\ Len(versions[f]) <= Len(versions'[f])
           /\ Len(versions[f]) = Len(versions'[f]) => versions'[f] = versions[f]
           /\ \A k \in 1..Len(versions[f]) : versions'[f][k] = versions[f][k]
<1>1. versions[f] \in Seq(SUBSET Records) /\ Len(versions[f]) \in Nat
  BY DEF TypeOK
<1>2. CASE versions'[f] = versions[f]
  BY <1>1, <1>2
<1>3. ASSUME NEW e \in SUBSET Records, versions'[f] = Append(versions[f], e)
      PROVE  /\ versions'[f] \in Seq(SUBSET Records) /\ Len(versions'[f]) = Len(versions[f]) + 1
             /\ \A k \in 1..Len(versions[f]) : versions'[f][k] = versions[f][k]
  BY <1>1, <1>3, AppendProperties
<1> QED
  BY <1>1, <1>2, <1>3 DEF VersionStep

\* A version that is added becomes the current one.
LEMMA AppendedType ==
    ASSUME TypeOK, NEW f \in Families, NEW e \in SUBSET Records, versions'[f] = Append(versions[f], e)
    PROVE  /\ Len(versions'[f]) = Len(versions[f]) + 1
           /\ versions'[f][Len(versions[f]) + 1] = e
           /\ Current(f)' = e
<1>1. versions[f] \in Seq(SUBSET Records) /\ Len(versions[f]) \in Nat
  BY DEF TypeOK
<1>2. /\ Len(versions'[f]) = Len(versions[f]) + 1
      /\ versions'[f][Len(versions[f]) + 1] = e
      /\ versions'[f] # << >>
  BY <1>1, AppendProperties
<1> QED
  BY <1>2 DEF Current, Last

\* Evidence stays with its family.
LEMMA FiledStep ==
    ASSUME TypeOK, Filed, Informed, [Next]_vars PROVE Filed'
<1> SUFFICES ASSUME NEW f \in Families, NEW k \in 1..Len(versions'[f]), NEW r \in versions'[f][k]
             PROVE  Family(r) = f
  BY DEF Filed, Family
<1>1. VersionStep(f)
  BY VersionsStep
<1>2. CASE k \in 1..Len(versions[f])
  BY <1>1, <1>2, Grown DEF Filed
<1>3. CASE k \notin 1..Len(versions[f])
  <2>1. Len(versions[f]) \in Nat
    BY DEF TypeOK
  <2>2. versions'[f] # versions[f]
    BY <1>3
  <2>3. PICK e \in SUBSET Records : versions'[f] = Append(versions[f], e) /\ \A q \in e : Family(q) = f
    BY <1>1, <2>2 DEF VersionStep
  <2>4. k = Len(versions[f]) + 1
    BY <1>3, <2>1, <2>3, AppendedType
  <2> QED
    BY <2>3, <2>4, AppendedType
<1> QED
  BY <1>2, <1>3

\* No step loses an update.
LEMMA NoLostUpdateStep ==
    ASSUME TypeOK, Filed, Informed, NoLostUpdate, [Next]_vars PROVE NoLostUpdate'
<1> SUFFICES ASSUME NEW f \in Families, NEW k \in 2..Len(versions'[f]), NEW r \in versions'[f][k - 1]
             PROVE  \E s \in versions'[f][k] : s[1] = r[1] /\ s[2] >= r[2]
  BY DEF NoLostUpdate
<1>1. VersionStep(f)
  BY VersionsStep
<1>2. Len(versions[f]) \in Nat
  BY DEF TypeOK
<1>3. CASE k \in 2..Len(versions[f])
  <2>1. k - 1 \in 1..Len(versions[f]) /\ k \in 1..Len(versions[f])
    BY <1>2, <1>3
  <2>2. versions'[f][k - 1] = versions[f][k - 1] /\ versions'[f][k] = versions[f][k]
    BY <1>1, <2>1, Grown
  <2> QED
    BY <1>3, <2>2 DEF NoLostUpdate
<1>4. CASE k \notin 2..Len(versions[f])
  <2>1. versions'[f] # versions[f]
    BY <1>4
  <2>2. PICK e \in SUBSET Records :
          versions'[f] = Append(versions[f], e) /\ \A q \in Current(f) : Covered(q, e)
    BY <1>1, <2>1 DEF VersionStep
  <2>3. k = Len(versions[f]) + 1
    BY <1>2, <1>4, <2>2, AppendedType
  <2>4. Len(versions[f]) \in 1..Len(versions[f]) /\ versions[f] # << >>
    BY <1>2, <2>3
  <2>5. versions'[f][k - 1] = Current(f)
    BY <1>1, <1>2, <2>3, <2>4, Grown DEF Current, Last
  <2>6. versions'[f][k] = e
    BY <2>2, <2>3, AppendedType
  <2> QED
    BY <2>2, <2>5, <2>6 DEF Covered
<1> QED
  BY <1>3, <1>4

\* What is cited stays covered.
LEMMA CurrentStep ==
    ASSUME TypeOK, Filed, Informed, [Next]_vars, NEW f \in Families, NEW r \in Records,
           Covered(r, Current(f))
    PROVE  Covered(r, Current(f)')
<1>1. CASE versions'[f] = versions[f]
  BY <1>1 DEF Current
<1>2. CASE versions'[f] # versions[f]
  <2>1. PICK e \in SUBSET Records :
          versions'[f] = Append(versions[f], e) /\ \A q \in Current(f) : Covered(q, e)
    BY <1>2, VersionsStep DEF VersionStep
  <2>2. Current(f)' = e
    BY <2>1, AppendedType
  <2>3. Current(f) \in SUBSET Records
    BY CurrentType
  <2> QED
    BY <2>1, <2>2, <2>3, CoveredAgain
<1> QED
  BY <1>1, <1>2

\* A record is done by the commit of its batch.
LEMMA DoneByCommit ==
    ASSUME TypeOK, Held, [Next]_vars, NEW r \in Records, rows[r].state # "done",
           rows'[r].state = "done"
    PROVE  \E w \in Workers : \E rejudged \in SUBSET Touched(job[w].batch) :
             Commit(w, rejudged) /\ r \in job[w].batch
<1> USE DEF TypeOK
<1>1. ASSUME NEW w \in Workers, NEW rejudged, Commit(w, rejudged) PROVE r \in job[w].batch
  BY <1>1 DEF Commit
<1>2. ASSUME NEW q \in Records, NEW state \in {"pending", "quarantined"}, Insert(q, state) PROVE FALSE
  BY <1>2 DEF Insert, NewRow
<1>3. ASSUME NEW w \in Workers, NEW B \in SUBSET Records, Claim(w, B) PROVE FALSE
  BY <1>3 DEF Claim, Rows
<1>a. rows[r] \in Rows
  OBVIOUS
<1>4. ASSUME NEW w \in Workers, Fail(w) \/ Defer(w) PROVE FALSE
  <2>1. CASE Fail(w)
    <3>1. PICK s \in {"pending", "failed"} :
            rows'[r] = [rows[r] EXCEPT !.state = s, !.token = 0, !.lease = "none",
                                       !.backoff = "waiting"]
      BY <2>1 DEF Fail
    <3>2. rows'[r].state = s
      BY <1>a, <3>1 DEF Rows
    <3> QED
      BY <3>2
  <2>2. CASE Defer(w)
    <3>1. rows'[r] = [rows[r] EXCEPT !.state = "pending", !.attempt = @ - 1, !.token = 0,
                                     !.lease = "none", !.backoff = "waiting"]
      BY <2>2 DEF Defer
    <3>2. rows'[r].state = "pending"
      BY <1>a, <3>1 DEF Rows
    <3> QED
      BY <3>2
  <2> QED
    BY <1>4, <2>1, <2>2
<1>5. ASSUME \/ RecoverRecords
             \/ \E b \in 1..MaxBatches : LeaseExpires(b)
             \/ \E q \in Records : BackoffElapses(q)
      PROVE  FALSE
  <2>1. ASSUME RecoverRecords PROVE FALSE
    <3>1. PICK s \in {"pending", "failed"} :
            rows'[r] = [rows[r] EXCEPT !.state = s, !.token = 0, !.lease = "none"]
      BY <2>1 DEF RecoverRecords
    <3>2. rows'[r].state = s
      BY <1>a, <3>1 DEF Rows
    <3> QED
      BY <3>2
  <2>2. ASSUME NEW b, LeaseExpires(b) PROVE FALSE
    <3>1. rows'[r] = [rows[r] EXCEPT !.lease = "expired"]
      BY <2>2 DEF LeaseExpires
    <3> QED
      BY <1>a, <3>1 DEF Rows
  <2>3. ASSUME NEW q \in Records, BackoffElapses(q) PROVE FALSE
    BY <2>3 DEF BackoffElapses, Rows
  <2> QED
    BY <1>5, <2>1, <2>2, <2>3
<1>6. rows' # rows
  OBVIOUS
<1> QED
  BY <1>1, <1>2, <1>3, <1>4, <1>5, <1>6 DEF Next, WorkerStep, Prepare, Reassess, OverBudget,
     AssessmentFails, CommitRefused, Overtaken, Crash, FundingChanges, vars

\* No step leaves a record out that it calls done.
LEMMA DoneStep ==
    ASSUME TypeOK, Held, Filed, Informed, DoneIsAccounted, [Next]_vars PROVE DoneIsAccounted'
<1> SUFFICES ASSUME NEW r \in Records, rows'[r].state = "done"
             PROVE  Covered(r, Current(Family(r))')
  BY DEF DoneIsAccounted, Covered, Family, Current
<1>0. Family(r) \in Families
  BY RecordType
<1>1. CASE rows[r].state = "done"
  <2>1. Covered(r, Current(Family(r)))
    BY <1>1 DEF DoneIsAccounted, Covered
  <2> QED
    BY <1>0, <2>1, CurrentStep
<1>2. CASE rows[r].state # "done"
  <2>1. PICK w \in Workers : \E rejudged \in SUBSET Touched(job[w].batch) :
             Commit(w, rejudged) /\ r \in job[w].batch
    BY <1>2, DoneByCommit
  <2>2. PICK rejudged : Commit(w, rejudged)
    BY <2>1
  <2> DEFINE evidence == Evidence(Family(r), job[w].input)
  <2>3. Family(r) \in Touched(job[w].batch)
    BY <2>1 DEF Touched
  <2>4. /\ Covered(r, evidence) /\ evidence \in SUBSET Records
        /\ \/ versions'[Family(r)] = versions[Family(r)] /\ evidence = Current(Family(r))
           \/ versions'[Family(r)] = Append(versions[Family(r)], evidence)
    BY <2>1, <2>2, <2>3, CommitCovers
  <2>5. Current(Family(r))' = evidence
    <3>1. CASE versions'[Family(r)] = versions[Family(r)] /\ evidence = Current(Family(r))
      BY <3>1 DEF Current
    <3>2. CASE versions'[Family(r)] = Append(versions[Family(r)], evidence)
      BY <1>0, <2>4, <3>2, AppendedType
    <3> QED
      BY <2>4, <3>1, <3>2
  <2> QED
    BY <2>4, <2>5
<1> QED
  BY <1>1, <1>2

\* Batches are counted up to their bound.
LEMMA BatchesStep ==
    ASSUME TypeOK, NEW w \in Workers, NEW B \in SUBSET Records, Claim(w, B)
    PROVE  batches' \in 0..MaxBatches
<1>1. batches \in 0..MaxBatches /\ batches < MaxBatches /\ batches' = batches + 1
  BY DEF TypeOK, Claim
<1>2. MaxBatches \in Nat
  BY AssessmentAssumption
<1> QED
  BY <1>1, <1>2

\* The updates of a job give a job again.
LEMMA JobUpdates ==
    ASSUME NEW j \in Jobs, NEW s \in Steps, NEW B \in SUBSET Records, NEW t \in 0..MaxBatches,
           NEW retry \in BOOLEAN, NEW heads \in [Families -> Nat]
    PROVE  /\ NoJob \in Jobs
           /\ [j EXCEPT !.step = s] \in Jobs
           /\ [j EXCEPT !.step = s, !.heads = heads, !.input = B] \in Jobs
           /\ [NoJob EXCEPT !.step = s, !.batch = B, !.token = t] \in Jobs
           /\ [NoJob EXCEPT !.step = s, !.batch = B, !.token = t, !.retry = retry] \in Jobs
<1>1. 0 \in 0..MaxBatches /\ "idle" \in Steps
  BY AssessmentAssumption DEF Steps
<1>2. [f \in Families |-> 0] \in [Families -> Nat]
  OBVIOUS
<1> QED
  BY <1>1, <1>2 DEF Jobs, NoJob

\* What a step does to a worker's job.
JobStep(w) ==
    \/ job'[w] = job[w]
    \/ job'[w].step \notin {"reassessing", "deciding"}
    \/ /\ job[w].step = "reassessing"
       /\ job'[w].batch = job[w].batch /\ job'[w].heads = job[w].heads
       /\ job'[w].input = job[w].input
    \/ /\ versions' = versions
       /\ job'[w].batch = job[w].batch
       /\ \A f \in Touched(job[w].batch) : job'[w].heads[f] = Len(versions[f])
       /\ job'[w].input = job[w].batch \cup UNION {Current(f) : f \in Touched(job[w].batch)}

\* What the step does to the job of the worker that takes it.
LEMMA WorkersJob ==
    ASSUME TypeOK, NEW w \in Workers,
           \/ \E B \in SUBSET Records : Claim(w, B)
           \/ WorkerStep(w) \/ Crash(w)
    PROVE  \E j \in Jobs : job' = [job EXCEPT ![w] = j] /\ JobStep(w)
<1>0. job \in [Workers -> Jobs] /\ job[w] \in Jobs
  BY DEF TypeOK
<1>1. ASSUME job' = [job EXCEPT ![w] = NoJob]
      PROVE  \E j \in Jobs : job' = [job EXCEPT ![w] = j] /\ JobStep(w)
  <2>1. NoJob \in Jobs /\ NoJob.step = "idle"
    <3>1. 0 \in 0..MaxBatches /\ [f \in Families |-> 0] \in [Families -> Nat]
      BY AssessmentAssumption
    <3> QED
      BY <3>1 DEF NoJob, Jobs, Steps
  <2> QED
    BY <1>0, <1>1, <2>1 DEF JobStep
<1>2. ASSUME NEW B \in SUBSET Records, Claim(w, B)
      PROVE  \E j \in Jobs : job' = [job EXCEPT ![w] = j] /\ JobStep(w)
  <2> DEFINE j == [NoJob EXCEPT !.step = "claimed", !.batch = B, !.token = batches']
  <2>1. batches' \in 0..MaxBatches /\ "claimed" \in Steps
    BY <1>2, BatchesStep DEF Steps
  <2>2. j \in Jobs
    <3>1. [f \in Families |-> 0] \in [Families -> Nat]
      OBVIOUS
    <3> QED
      BY <1>0, <2>1, <3>1, JobUpdates
  <2>3. j.step = "claimed"
    BY DEF NoJob
  <2>4. job' = [job EXCEPT ![w] = j]
    BY <1>2 DEF Claim
  <2> HIDE DEF j
  <2>5. JobStep(w)
    BY <1>0, <2>3, <2>4 DEF JobStep
  <2> QED
    BY <2>2, <2>4, <2>5
<1>3. CASE Prepare(w)
  <2> DEFINE fs == Touched(job[w].batch)
             input == job[w].batch \cup UNION {Current(f) : f \in fs}
             heads == [f \in Families |-> IF f \in fs THEN Len(versions[f]) ELSE 0]
             step == IF input = job[w].batch THEN "deciding" ELSE "reassessing"
             j == [job[w] EXCEPT !.step = step, !.heads = heads, !.input = input]
  <2>1. job' = [job EXCEPT ![w] = j]
    BY <1>0, <1>3 DEF Prepare
  <2>2. fs \subseteq Families /\ job[w].batch \in SUBSET Records
    BY TouchedType
  <2>3. \A f \in Families : Current(f) \subseteq Records /\ Len(versions[f]) \in Nat
    BY CurrentType
  <2>4. input \in SUBSET Records
    BY <2>2, <2>3
  <2>5. heads \in [Families -> Nat] /\ \A f \in fs : heads[f] = Len(versions[f])
    BY <2>2, <2>3
  <2>6. step \in Steps
    BY DEF Steps
  <2>7. versions' = versions
    BY <1>3 DEF Prepare
  <2> HIDE DEF input, heads, step, fs
  <2>8. j \in Jobs
    <3>1. 0 \in 0..MaxBatches
      BY AssessmentAssumption
    <3> QED
      BY <1>0, <2>4, <2>5, <2>6, <3>1, JobUpdates
  <2>9. j.batch = job[w].batch /\ j.heads = heads /\ j.input = input
    BY <1>0 DEF Jobs
  <2> HIDE DEF j
  <2>10. job'[w] = j
    BY <1>0, <2>1
  <2>11. JobStep(w)
    BY <2>5, <2>7, <2>9, <2>10 DEF JobStep, fs, input
  <2> QED
    BY <2>1, <2>8, <2>11
<1>4. CASE Reassess(w)
  <2> DEFINE j == [job[w] EXCEPT !.step = "deciding"]
  <2>1. job' = [job EXCEPT ![w] = j]
    BY <1>0, <1>4 DEF Reassess
  <2>2. j \in Jobs /\ j.batch = job[w].batch /\ j.heads = job[w].heads /\ j.input = job[w].input
    BY <1>0 DEF Jobs, Steps
  <2> HIDE DEF j
  <2>3. JobStep(w)
    BY <1>0, <1>4, <2>1, <2>2 DEF JobStep, Reassess
  <2> QED
    BY <2>1, <2>2, <2>3
<1>5. ASSUME NEW s \in {"failing", "deferring"}, NEW retry \in BOOLEAN,
             job' = [job EXCEPT ![w] = Left(w, s, retry)]
      PROVE  \E j \in Jobs : job' = [job EXCEPT ![w] = j] /\ JobStep(w)
  <2>1. job[w].batch \in SUBSET Records /\ job[w].token \in 0..MaxBatches /\ s \in Steps
    BY <1>0 DEF Jobs, Steps
  <2>2. Left(w, s, retry) \in Jobs
    <3>1. [f \in Families |-> 0] \in [Families -> Nat]
      OBVIOUS
    <3> QED
      BY <1>0, <2>1, <3>1, JobUpdates DEF Left
  <2>3. Left(w, s, retry).step = s
    BY DEF Left, NoJob
  <2>4. JobStep(w)
    BY <1>0, <1>5, <2>3 DEF JobStep
  <2> QED
    BY <1>5, <2>2, <2>4
<1>6. CASE \/ \E rejudged \in SUBSET Touched(job[w].batch) : Commit(w, rejudged)
           \/ Fail(w) \/ Defer(w) \/ Overtaken(w) \/ Crash(w)
  BY <1>1, <1>6 DEF Commit, Fail, Defer, Overtaken, Crash
<1>7. CASE OverBudget(w) \/ CommitRefused(w) \/ \E retry \in BOOLEAN : AssessmentFails(w, retry)
  BY <1>5, <1>7 DEF OverBudget, CommitRefused, AssessmentFails
<1> QED
  BY <1>2, <1>3, <1>4, <1>6, <1>7 DEF WorkerStep

\* Only the worker that takes a step changes its job.
LEMMA JobsStep ==
    ASSUME TypeOK, [Next]_vars
    PROVE  job' \in [Workers -> Jobs] /\ \A w \in Workers : JobStep(w)
<1>0. job \in [Workers -> Jobs]
  BY DEF TypeOK
<1>1. ASSUME NEW w \in Workers, NEW j \in Jobs, job' = [job EXCEPT ![w] = j], JobStep(w)
      PROVE  job' \in [Workers -> Jobs] /\ \A v \in Workers : JobStep(v)
  <2>1. \A v \in Workers \ {w} : job'[v] = job[v]
    BY <1>0, <1>1
  <2> QED
    BY <1>0, <1>1, <2>1 DEF JobStep
<1>2. job' = job => job' \in [Workers -> Jobs] /\ \A v \in Workers : JobStep(v)
  BY <1>0 DEF JobStep
<1>3. ASSUME NEW w \in Workers,
             \/ \E B \in SUBSET Records : Claim(w, B)
             \/ WorkerStep(w) \/ Crash(w)
      PROVE  job' \in [Workers -> Jobs] /\ \A v \in Workers : JobStep(v)
  BY <1>1, <1>3, WorkersJob
<1> QED
  BY <1>2, <1>3 DEF Next, Insert, RecoverRecords, LeaseExpires, BackoffElapses, FundingChanges, vars

\* Workers stay informed: the head of a family they know nothing new of has moved.
LEMMA InformedStep ==
    ASSUME TypeOK, Filed, Informed, [Next]_vars PROVE Informed'
<1> SUFFICES ASSUME NEW w \in Workers, job'[w].step \in {"reassessing", "deciding"}
             PROVE  /\ job'[w].batch \subseteq job'[w].input
                    /\ \A f \in Touched(job'[w].batch) :
                         /\ job'[w].heads[f] <= Len(versions'[f])
                         /\ job'[w].heads[f] = Len(versions'[f]) => Current(f)' \subseteq job'[w].input
  BY DEF Informed, Touched, Family
<1>1. Touched(job[w].batch) \subseteq Families /\ job[w].heads \in [Families -> Nat]
  BY TouchedType
<1>2. ASSUME job[w].step \in {"reassessing", "deciding"}, job'[w].batch = job[w].batch,
             job'[w].heads = job[w].heads, job'[w].input = job[w].input
      PROVE  /\ job'[w].batch \subseteq job'[w].input
             /\ \A f \in Touched(job'[w].batch) :
                  /\ job'[w].heads[f] <= Len(versions'[f])
                  /\ job'[w].heads[f] = Len(versions'[f]) => Current(f)' \subseteq job'[w].input
  <2>1. job'[w].batch \subseteq job'[w].input
    BY <1>2 DEF Informed
  <2>2. ASSUME NEW f \in Touched(job[w].batch)
        PROVE  /\ job[w].heads[f] <= Len(versions'[f])
               /\ job[w].heads[f] = Len(versions'[f]) => Current(f)' \subseteq job[w].input
    <3>1. /\ job[w].heads[f] <= Len(versions[f])
          /\ job[w].heads[f] = Len(versions[f]) => Current(f) \subseteq job[w].input
      BY <1>2 DEF Informed
    <3>2. VersionStep(f) /\ f \in Families
      BY <1>1, VersionsStep
    <3>3. /\ Len(versions'[f]) \in Nat /\ Len(versions[f]) \in Nat
          /\ Len(versions[f]) <= Len(versions'[f])
          /\ Len(versions[f]) = Len(versions'[f]) => versions'[f] = versions[f]
      BY <3>2, Grown
    <3>4. job[w].heads[f] \in Nat
      BY <1>1, <3>2
    <3>5. job[w].heads[f] = Len(versions'[f]) => versions'[f] = versions[f] /\ job[w].heads[f] = Len(versions[f])
      BY <3>1, <3>3, <3>4
    <3>6. versions'[f] = versions[f] => Current(f)' = Current(f)
      BY DEF Current
    <3> QED
      BY <3>1, <3>3, <3>4, <3>5, <3>6
  <2> QED
    BY <1>2, <2>1, <2>2
<1>3. ASSUME versions' = versions, job'[w].batch = job[w].batch,
             \A f \in Touched(job[w].batch) : job'[w].heads[f] = Len(versions[f]),
             job'[w].input = job[w].batch \cup UNION {Current(f) : f \in Touched(job[w].batch)}
      PROVE  /\ job'[w].batch \subseteq job'[w].input
             /\ \A f \in Touched(job'[w].batch) :
                  /\ job'[w].heads[f] <= Len(versions'[f])
                  /\ job'[w].heads[f] = Len(versions'[f]) => Current(f)' \subseteq job'[w].input
  <2>1. \A f : Current(f)' = Current(f)
    BY <1>3 DEF Current
  <2>2. \A f \in Families : Len(versions[f]) \in Nat
    BY CurrentType
  <2> QED
    BY <1>1, <1>3, <2>1, <2>2
<1>4. JobStep(w)
  BY JobsStep
<1> QED
  BY <1>2, <1>3, <1>4 DEF JobStep

\* Types are kept.
LEMMA TypeStep == ASSUME TypeOK, Held, Filed, Informed, [Next]_vars PROVE TypeOK' /\ Held'
<1>1. rows' \in [Records -> Rows] /\ \A r \in Records : RowStep(r)
  BY RowsType
<1>2. \A f \in Families : versions'[f] \in Seq(SUBSET Records)
  BY VersionsStep, Grown
<1>3. job' \in [Workers -> Jobs]
  BY JobsStep
<1>4. batches' \in 0..MaxBatches /\ funded' \in BOOLEAN
  <2>1. batches' = batches \/ \E w \in Workers, B \in SUBSET Records : Claim(w, B)
    BY DEF Next, WorkerStep, Insert, Claim, Prepare, Reassess, OverBudget, AssessmentFails, Commit,
       CommitRefused, Fail, Defer, Overtaken, Crash, RecoverRecords, LeaseExpires,
       BackoffElapses, FundingChanges, vars
  <2>2. batches' \in 0..MaxBatches
    BY <2>1, BatchesStep DEF TypeOK
  <2>3. funded' = funded \/ funded' = ~funded
    BY DEF Next, WorkerStep, Insert, Claim, Prepare, Reassess, OverBudget, AssessmentFails, Commit,
       CommitRefused, Fail, Defer, Overtaken, Crash, RecoverRecords, LeaseExpires,
       BackoffElapses, FundingChanges, vars
  <2> QED
    BY <2>2, <2>3 DEF TypeOK
<1>5. Held'
  <2> SUFFICES ASSUME NEW r \in Records
               PROVE  /\ rows'[r].state # "processing" => rows'[r].lease = "none"
                      /\ rows'[r].state = "processing" => rows'[r].attempt > 0
    BY DEF Held
  <2>1. RowStep(r)
    BY <1>1
  <2>2. \A state \in {"pending", "quarantined"} :
          NewRow(state).lease = "none" /\ NewRow(state).state = state
    BY DEF NewRow
  <2> QED
    BY <2>1, <2>2 DEF RowStep, Held
<1> QED
  BY <1>1, <1>2, <1>3, <1>4, <1>5 DEF TypeOK

\* The inductive invariant.
AInv == TypeOK /\ Held /\ Filed /\ Informed /\ NoLostUpdate /\ DoneIsAccounted

\* It holds of the empty tables.
LEMMA InitAInv == Init => AInv
<1> SUFFICES ASSUME Init PROVE AInv
  OBVIOUS
<1>1. \A r \in Records : rows[r].state = "absent" /\ rows[r].lease = "none"
  BY DEF Init, NewRow
<1>2. \A f \in Families : versions[f] = << >>
  BY DEF Init
<1>3. NewRow("absent") \in Rows /\ NoJob \in Jobs /\ 0 \in 0..MaxBatches /\ NoJob.step = "idle"
  <2>1. 0 \in 0..MaxBatches /\ 0 \in 0..MaxAttempts /\ [f \in Families |-> 0] \in [Families -> Nat]
    BY AssessmentAssumption
  <2> QED
    BY <2>1 DEF NewRow, Rows, NoJob, Jobs, Steps
<1>4. TypeOK
  BY <1>2, <1>3 DEF Init, TypeOK
<1>5. Informed
  BY <1>3 DEF Init, Informed
<1>6. Held /\ Filed /\ NoLostUpdate /\ DoneIsAccounted
  BY <1>1, <1>2 DEF Held, Filed, NoLostUpdate, DoneIsAccounted
<1> QED
  BY <1>4, <1>5, <1>6 DEF AInv

\* Every step keeps it.
LEMMA StepAInv == AInv /\ [Next]_vars => AInv'
BY TypeStep, FiledStep, InformedStep, NoLostUpdateStep, DoneStep DEF AInv

\* In every reachable state, for any records, workers and bounds, workers that
\* assess know the evidence of the heads they captured (prepare_assessment).
THEOREM AssessmentInvariant == Spec => []AInv
BY InitAInv, StepAInv, PTL DEF Spec

\* For any records, workers and bounds, a version of an event cites all that the
\* version before it did (commit_assessments under the captured heads).
THEOREM NothingIsLost == Spec => []NoLostUpdate
<1>1. AInv => NoLostUpdate
  BY DEF AInv
<1> QED
  BY <1>1, AssessmentInvariant, PTL

\* For any records, workers and bounds, no commit consumes a record without citing
\* it or a newer revision of it (commit_assessments).
THEOREM DoneMeansCited == Spec => []DoneIsAccounted
<1>1. AInv => DoneIsAccounted
  BY DEF AInv
<1> QED
  BY <1>1, AssessmentInvariant, PTL

\* For any records, workers and bounds, a settled row is never written again, not
\* by a late worker and not by recovery (lock_claims, recover_records).
THEOREM SettledForGood == Spec => SettledIsFinal
<1>1. ASSUME AInv, [Next]_vars, NEW r \in Records, rows[r].state \in Settled
      PROVE  rows'[r] = rows[r]
  <2>1. RowStep(r)
    BY <1>1, RowsType DEF AInv
  <2> QED
    BY <1>1, <2>1 DEF RowStep, Settled
<1>2. AInv /\ [Next]_vars =>
        [\A r \in Records : rows[r].state \in Settled => rows'[r] = rows[r]]_vars
  BY <1>1
<1> QED
  BY <1>2, AssessmentInvariant, PTL DEF Spec, SettledIsFinal

\* The rows, versions and captured heads keep their types (source_records,
\* subject_versions).
THEOREM TypeCorrect == Spec => []TypeOK
<1>1. AInv => TypeOK
  BY DEF AInv
<1> QED
  BY <1>1, AssessmentInvariant, PTL
=============================================================================
