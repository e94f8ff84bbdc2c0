-------------------------- MODULE IngestionProofs --------------------------
(***************************************************************************)
(* What overlapping polls cannot do to the stored records, for any number  *)
(* of sources, items and workers: no later revision of an item is an       *)
(* earlier text, no replayed row is skipped, and no position goes back.    *)
(*                                                                         *)
(* A fetch knows something of the stored records only while no other       *)
(* commit has come in between, and then all it knows is about the time it  *)
(* began: what it reads a page later is no older than what was stored      *)
(* then.  Knows says that of one fetch, and is all that persist_batch's    *)
(* comparison of checkpoints has to protect.                               *)
(***************************************************************************)
EXTENDS Ingestion, TLAPS, FiniteSetTheorems, SequenceTheorems, NaturalsInduction, WellFoundedInduction

USE IngestionAssumption

Item == [id : Nat, text : Nat]
Row == [source : Sources, id : Nat, text : Nat, rev : Nat]
Candidates == [row : Row, kept : {"yes", "no"}]
Fetches == [step : {"idle", "reading", "read", "ready"}, source : Sources \cup {"none"},
            expected : {"current", "overtaken"}, offset : Nat, pages : Nat,
            read : SUBSET Item, batch : SUBSET Candidates]

Types ==
    /\ provider \in [Sources -> Seq(Item)]
    /\ stored \in SUBSET Row
    /\ checkpoint \in [Sources -> [offset : Nat, watermark : Nat]]
    /\ fetch \in [Workers -> Fetches]

\* Items keep to their bounds, and a feed shows an item once.
Provided ==
    /\ \A s \in Sources : \A n \in DOMAIN provider[s] : provider[s][n].id <= LastId[s]
    /\ \A s \in Feeds : \A m, n \in DOMAIN provider[s] :
          provider[s][m].id = provider[s][n].id => m = n

\* The source has come to show a text of an item, or a later one.
Shown(s, id, text) ==
    \E n \in DOMAIN provider[s] : provider[s][n].id = id /\ text <= provider[s][n].text

\* What is stored was shown once, and is numbered as its adapter numbers it.
Stored ==
    \A r \in stored :
        /\ r.source \in Feeds =>
              /\ Shown(r.source, r.id, r.text)
              /\ r.rev <= Cardinality(Versions(r.source, r.id))
        /\ r.source \in Replays => r.rev = r.text
        /\ r.source \in Points => r.rev = 1

Finite == \A s \in Feeds : \A id \in 0..LastId[s] : IsFiniteSet(Versions(s, id))

Checkpoints ==
    \A s \in Sources : /\ checkpoint[s].offset <= Len(provider[s])
                       /\ checkpoint[s].watermark <= LastId[s]

\* A revision that may be added to those of its item.
Newer(row) ==
    /\ row.rev = 1 + Cardinality(Versions(row.source, row.id))
    /\ \A r \in Versions(row.source, row.id) : r.text < row.text

KnowsPages(f) ==
    /\ \A x, y \in f.read : x.id = y.id => x = y
    /\ \A x \in f.read :
          /\ Shown(f.source, x.id, x.text)
          /\ f.expected = "current" => \A r \in Versions(f.source, x.id) : r.text <= x.text

KnowsBatch(f) ==
    /\ \A c, d \in f.batch : c.row.id = d.row.id => c = d
    /\ \A c \in f.batch :
          /\ Shown(f.source, c.row.id, c.row.text)
          /\ f.expected = "current" => c.row \in stored \/ Newer(c.row)

ReadsOn(f, p, corpus) ==
    f.expected = "current" =>
        /\ f.step = "reading" => f.offset = p
        /\ f.step = "ready" =>
              /\ f.offset >= p
              /\ \A n \in (p + 1)..f.offset :
                    \E c \in f.batch : c.row.id = corpus[n].id /\ c.row.text = corpus[n].text

KnowsCorpus(f) == ReadsOn(f, checkpoint[f.source].offset, provider[f.source])

\* What a fetch knows of its source.
Knows(f) ==
    f.step # "idle" =>
        /\ f.source \in Sources
        /\ f.offset <= Len(provider[f.source])
        /\ f.step = "read" => f.source \in Feeds
        /\ \A c \in f.batch :
              /\ c.row.source = f.source /\ c.row.id <= LastId[f.source]
              /\ f.source \in Replays => c.row.rev = c.row.text
              /\ f.source \in Points => c.row.rev = 1
        /\ f.source \in Feeds /\ f.step \in {"reading", "read"} => KnowsPages(f)
        /\ f.source \in Feeds /\ f.step = "ready" => KnowsBatch(f)
        /\ f.source \in Replays => KnowsCorpus(f)

\* The invariant; NoRollback and NothingSkipped are part of it.
IInv ==
    /\ Types /\ Provided /\ Stored /\ Finite /\ Checkpoints
    /\ NoRollback /\ NothingSkipped
    /\ \A w \in Workers : Knows(fetch[w])

-----------------------------------------------------------------------------
\* Facts about sequences and numbers.

\* The items of a source are bounded.
LEMMA Bounds == \A s \in Sources : LastId[s] \in Nat
  OBVIOUS

\* The lesser of two numbers.
LEMMA Least ==
    ASSUME NEW a \in Nat, NEW b \in Nat
    PROVE  /\ Min({a, b}) \in {a, b}
           /\ Min({a, b}) <= a /\ Min({a, b}) <= b
<1>1. \E x \in {a, b} : \A y \in {a, b} : x <= y
  <2>1. CASE a <= b
    BY <2>1
  <2>2. CASE ~(a <= b)
    BY <2>2
  <2> QED
    BY <2>1, <2>2
<1> QED
  BY <1>1 DEF Min

\* A bounded set of numbers has a greatest one, which Max finds.
LEMMA Highest ==
    ASSUME NEW N \in Nat, NEW S, S \subseteq 0..N, S # {}
    PROVE  Max(S) \in S /\ \A k \in S : k <= Max(S)
<1> DEFINE below == OpToRel(<, Nat)
           T == {n \in Nat : N - n \in S}
<1>1. \A x, y \in Nat : <<x, y>> \in below <=> x < y
  BY DEF OpToRel
<1>2. IsWellFoundedOn(below, Nat)
  BY NatLessThanWellFounded
<1>3. T \subseteq Nat /\ T # {}
  <2>1. PICK k \in S : TRUE
    OBVIOUS
  <2>2. N - k \in T
    BY <2>1
  <2> QED
    BY <2>2
<1> HIDE DEF below
<1>4. PICK m \in T : \A y \in T : <<y, m>> \notin below
  <2> HIDE DEF T
  <2> QED
    BY <1>2, <1>3, WFMin
<1>5. m \in Nat /\ N - m \in S
  OBVIOUS
<1>6. \A k \in S : N - m >= k
  <2> SUFFICES ASSUME NEW k \in S PROVE N - m >= k
    OBVIOUS
  <2>1. k \in 0..N /\ N - k \in T
    OBVIOUS
  <2>2. ~(N - k < m)
    BY <1>1, <1>4, <1>5, <2>1
  <2> QED
    BY <1>5, <2>1, <2>2
<1>7. Max(S) \in S /\ \A k \in S : Max(S) >= k
  <2> HIDE DEF T
  <2> QED
    BY <1>5, <1>6 DEF Max
<1> HIDE DEF T
<1>8. \A k \in S : k \in Nat
  OBVIOUS
<1>9. \A a, b \in Nat : a >= b => b <= a
  OBVIOUS
<1> QED
  BY <1>7, <1>8, <1>9

\* What stands in a part of a sequence.
LEMMA PartOf ==
    ASSUME NEW S, NEW q \in Seq(S), NEW m \in Nat \ {0}, NEW b \in Nat, b <= Len(q)
    PROVE  /\ \A x \in ToSet(SubSeq(q, m, b)) : \E n \in DOMAIN q : x = q[n]
           /\ \A n \in m..b : n \in DOMAIN q /\ q[n] \in ToSet(SubSeq(q, m, b))
<1> DEFINE p == SubSeq(q, m, b)
<1>1. \A n \in m..b : n \in DOMAIN q /\ q[n] \in S
  OBVIOUS
<1>2. /\ p \in Seq(S)
      /\ Len(p) = IF m <= b THEN b - m + 1 ELSE 0
      /\ \A i \in 1..(b - m + 1) : p[i] = q[m + i - 1]
  BY <1>1, SubSeqProperties
<1> HIDE DEF p
<1>3. DOMAIN p = 1..Len(p)
  BY <1>2
<1>4. ASSUME NEW i \in DOMAIN p PROVE \E n \in DOMAIN q : p[i] = q[n]
  <2>1. i \in 1..(b - m + 1)
    BY <1>2, <1>3
  <2>2. p[i] = q[m + i - 1] /\ m + i - 1 \in m..b
    BY <1>2, <2>1
  <2> QED
    BY <1>1, <2>2
<1>5. ASSUME NEW n \in m..b PROVE \E i \in DOMAIN p : p[i] = q[n]
  <2>1. n - m + 1 \in 1..(b - m + 1) /\ Len(p) = b - m + 1
    BY <1>2
  <2>2. n - m + 1 \in DOMAIN p
    BY <1>3, <2>1
  <2>3. p[n - m + 1] = q[m + (n - m + 1) - 1] /\ m + (n - m + 1) - 1 = n
    BY <1>2, <2>1
  <2> QED
    BY <2>2, <2>3
<1>6. ToSet(p) = {p[i] : i \in DOMAIN p}
  BY DEF ToSet
<1>7. \A x \in ToSet(p) : \E n \in DOMAIN q : x = q[n]
  BY <1>4, <1>6
<1>8. \A n \in m..b : q[n] \in ToSet(p)
  BY <1>5, <1>6
<1> QED
  BY <1>1, <1>7, <1>8 DEF p

\* The fields of a stored row.
LEMMA RowFields == \A r \in Row : /\ r.source \in Sources /\ r.id \in Nat
                                  /\ r.text \in Nat /\ r.rev \in Nat
  BY DEF Row

\* A candidate has a row.
LEMMA CandidateFields == \A c \in Candidates : c.row \in Row
  BY DEF Candidates

-----------------------------------------------------------------------------
\* The initial states.
LEMMA InitInvariant == Init => IInv
<1> SUFFICES ASSUME Init PROVE IInv
  OBVIOUS
<1> USE DEF Init
<1>1. NoFetch \in Fetches /\ NoFetch.step = "idle"
  BY DEF NoFetch, Fetches
<1>2. Types
  <2>1. provider \in [Sources -> Seq(Item)]
    BY DEF Item
  <2>2. fetch \in [Workers -> Fetches]
    BY <1>1
  <2> QED
    BY <2>1, <2>2 DEF Types
<1>3. Provided
  BY DEF Provided, Sources
<1>4. Stored /\ NoRollback
  BY DEF Stored, NoRollback
<1>5. Finite
  BY FS_EmptySet DEF Finite, Versions
<1>6. Checkpoints
  <2>1. \A s \in Sources : Len(provider[s]) \in Nat
    BY <1>2 DEF Types
  <2> QED
    BY <2>1, Bounds DEF Checkpoints
<1>7. NothingSkipped
  BY DEF NothingSkipped, Sources
<1>8. \A w \in Workers : Knows(fetch[w])
  BY <1>1 DEF Knows
<1> QED
  BY <1>2, <1>3, <1>4, <1>5, <1>6, <1>7, <1>8 DEF IInv

-----------------------------------------------------------------------------
\* Sources that show more, or later texts, disturb nothing.
LEMMA Later ==
    ASSUME IInv,
           provider' \in [Sources -> Seq(Item)], Provided',
           \A s \in Sources : Len(provider[s]) <= Len(provider'[s]),
           \A s \in Replays : provider'[s] = provider[s],
           \A s \in Sources, id \in Nat, text \in Nat : Shown(s, id, text) => Shown(s, id, text)',
           UNCHANGED <<stored, checkpoint, fetch>>
    PROVE  IInv'
<1>1. Types' /\ Finite' /\ NoRollback'
  BY DEF IInv, Types, Finite, NoRollback, Versions
<1>2. Stored'
  <2> SUFFICES ASSUME NEW r \in stored
               PROVE  /\ r.source \in Feeds =>
                            /\ Shown(r.source, r.id, r.text)'
                            /\ r.rev <= Cardinality(Versions(r.source, r.id))
                      /\ r.source \in Replays => r.rev = r.text
                      /\ r.source \in Points => r.rev = 1
    BY DEF Stored, Versions
  <2>1. r \in Row
    BY DEF IInv, Types
  <2> QED
    BY <2>1, RowFields DEF IInv, Stored
<1>3. Checkpoints'
  <2> SUFFICES ASSUME NEW s \in Sources
               PROVE  checkpoint[s].offset <= Len(provider'[s]) /\ checkpoint[s].watermark <= LastId[s]
    BY DEF Checkpoints
  <2>1. checkpoint[s].offset <= Len(provider[s]) /\ checkpoint[s].watermark <= LastId[s]
    BY DEF IInv, Checkpoints
  <2>2. checkpoint[s].offset \in Nat /\ Len(provider[s]) \in Nat /\ Len(provider'[s]) \in Nat
    BY DEF IInv, Types
  <2>3. Len(provider[s]) <= Len(provider'[s])
    OBVIOUS
  <2> QED
    BY <2>1, <2>2, <2>3
<1>4. NothingSkipped'
  <2> SUFFICES ASSUME NEW s \in Replays, NEW n \in 1..checkpoint[s].offset
               PROVE  \E r \in stored : /\ r.source = s /\ r.id = provider'[s][n].id
                                        /\ r.text = provider'[s][n].text
    BY DEF NothingSkipped
  <2>1. provider'[s] = provider[s]
    OBVIOUS
  <2> QED
    BY <2>1 DEF IInv, NothingSkipped
<1>5. ASSUME NEW w \in Workers PROVE Knows(fetch[w])'
  <2> DEFINE f == fetch[w]
             s == f.source
  <2> SUFFICES ASSUME f.step # "idle" PROVE Knows(f)'
    BY DEF Knows
  <2>1. f \in Fetches /\ f' = f
    BY DEF IInv, Types
  <2>2. Knows(f)
    BY DEF IInv
  <2>3. s \in Sources /\ f.offset <= Len(provider[s])
    BY <2>2 DEF Knows
  <2>4. f.offset <= Len(provider'[s])
    <3>1. f.offset \in Nat /\ Len(provider[s]) \in Nat /\ Len(provider'[s]) \in Nat
      BY <2>1, <2>3 DEF Fetches, IInv, Types
    <3>2. Len(provider[s]) <= Len(provider'[s])
      BY <2>3
    <3> QED
      BY <2>3, <3>1, <3>2
  <2>5. f.read \subseteq Item /\ f.batch \subseteq Candidates
    BY <2>1 DEF Fetches
  <2>6. KnowsPages(f) => KnowsPages(f)'
    <3> SUFFICES ASSUME KnowsPages(f), NEW x \in f.read PROVE Shown(s, x.id, x.text)'
      BY <2>1 DEF KnowsPages, Versions
    <3> QED
      BY <2>3, <2>5 DEF KnowsPages, Item
  <2>7. KnowsBatch(f) => KnowsBatch(f)'
    <3> SUFFICES ASSUME KnowsBatch(f), NEW c \in f.batch PROVE Shown(s, c.row.id, c.row.text)'
      BY <2>1 DEF KnowsBatch, Newer, Versions
    <3>1. c.row.id \in Nat /\ c.row.text \in Nat
      BY <2>5, CandidateFields, RowFields
    <3> QED
      BY <2>3, <3>1 DEF KnowsBatch
  <2>8. s \in Replays => (KnowsCorpus(f) => KnowsCorpus(f)')
    <3> SUFFICES ASSUME s \in Replays, KnowsCorpus(f) PROVE KnowsCorpus(f)'
      OBVIOUS
    <3>1. provider'[s] = provider[s] /\ checkpoint' = checkpoint
      OBVIOUS
    <3> HIDE DEF f
    <3> QED
      BY <2>1, <3>1 DEF KnowsCorpus
  <2> HIDE DEF f
  <2> QED
    BY <2>1, <2>2, <2>3, <2>4, <2>6, <2>7, <2>8 DEF Knows
<1> QED
  BY <1>1, <1>2, <1>3, <1>4, <1>5 DEF IInv

\* A source publishes.
LEMMA PublishKeeps ==
    ASSUME IInv, NEW s \in Sources, Publish(s)
    PROVE  IInv'
<1>1. PICK id \in 1..LastId[s] :
        /\ id \notin Held(s)
        /\ provider' = [provider EXCEPT ![s] = <<[id |-> id, text |-> 1]>> \o @]
  BY DEF Publish
<1> DEFINE new == [id |-> id, text |-> 1]
           old == provider[s]
<1>2. provider \in [Sources -> Seq(Item)] /\ old \in Seq(Item) /\ new \in Item
  BY DEF IInv, Types, Item
<1>3. /\ provider' \in [Sources -> Seq(Item)]
      /\ provider'[s] = <<new>> \o old
      /\ \A t \in Sources : t # s => provider'[t] = provider[t]
  BY <1>1, <1>2
<1>4. /\ Len(provider'[s]) = Len(old) + 1
      /\ DOMAIN provider'[s] = 1..(Len(old) + 1)
      /\ provider'[s][1] = new
      /\ \A n \in 1..Len(old) : provider'[s][n + 1] = old[n]
  BY <1>2, <1>3
<1>5. Len(old) \in Nat /\ DOMAIN old = 1..Len(old)
  BY <1>2
<1>6. \A n \in DOMAIN provider'[s] : \/ n = 1 /\ provider'[s][n] = new
                                     \/ n - 1 \in DOMAIN old /\ provider'[s][n] = old[n - 1]
  <2> SUFFICES ASSUME NEW n \in 1..(Len(old) + 1), n # 1
               PROVE  n - 1 \in DOMAIN old /\ provider'[s][n] = old[n - 1]
    BY <1>4
  <2>1. n - 1 \in 1..Len(old) /\ (n - 1) + 1 = n
    BY <1>5
  <2> QED
    BY <1>4, <1>5, <2>1
<1>7. \A n \in DOMAIN old : old[n].id # id
  BY <1>1 DEF Held
<1>8. Provided'
  <2>1. \A t \in Sources : \A n \in DOMAIN provider'[t] : provider'[t][n].id <= LastId[t]
    <3> SUFFICES ASSUME NEW t \in Sources, NEW n \in DOMAIN provider'[t]
                 PROVE  provider'[t][n].id <= LastId[t]
      OBVIOUS
    <3>1. CASE t # s
      BY <1>3, <3>1 DEF IInv, Provided
    <3>2. CASE t = s
      <4>1. new.id <= LastId[s]
        BY Bounds
      <4>2. \A k \in DOMAIN old : old[k].id <= LastId[s]
        BY DEF IInv, Provided
      <4> QED
        BY <1>6, <3>2, <4>1, <4>2
    <3> QED
      BY <3>1, <3>2
  <2>2. ASSUME NEW t \in Feeds, NEW m \in DOMAIN provider'[t], NEW n \in DOMAIN provider'[t],
               provider'[t][m].id = provider'[t][n].id
        PROVE  m = n
    <3>1. t \in Sources
      BY DEF Sources
    <3>2. CASE t # s
      BY <1>3, <2>2, <3>1, <3>2 DEF IInv, Provided
    <3>3. CASE t = s
      <4>1. \A j \in DOMAIN provider'[s] :
               /\ j \in Nat
               /\ j # 1 => /\ j - 1 \in DOMAIN old /\ provider'[s][j].id = old[j - 1].id
                          /\ provider'[s][j].id # id
        <5> SUFFICES ASSUME NEW j \in DOMAIN provider'[s]
                     PROVE  /\ j \in Nat
                            /\ j # 1 => /\ j - 1 \in DOMAIN old
                                       /\ provider'[s][j].id = old[j - 1].id
                                       /\ provider'[s][j].id # id
          OBVIOUS
        <5>1. j \in Nat
          BY <1>4, <1>5
        <5>2. ASSUME j # 1 PROVE j - 1 \in DOMAIN old /\ provider'[s][j] = old[j - 1]
          <6> HIDE DEF old, new
          <6> QED
            BY <1>6, <5>2
        <5> QED
          <6> HIDE DEF old, new
          <6> QED
            BY <1>7, <5>1, <5>2
      <4>2. provider'[s][1].id = id
        BY <1>4
      <4>3. CASE m = 1 \/ n = 1
        <5> HIDE DEF old
        <5> QED
          BY <2>2, <3>3, <4>1, <4>2, <4>3
      <4>4. CASE m # 1 /\ n # 1
        <5>1. m - 1 \in DOMAIN old /\ n - 1 \in DOMAIN old /\ old[m - 1].id = old[n - 1].id
          <6> HIDE DEF old
          <6> QED
            BY <2>2, <3>3, <4>1, <4>4
        <5>2. m - 1 = n - 1
          BY <3>3, <5>1 DEF IInv, Provided
        <5>3. m \in Nat /\ n \in Nat
          BY <3>3, <4>1
        <5> QED
          BY <5>2, <5>3
      <4> QED
        BY <4>3, <4>4
    <3> QED
      BY <3>2, <3>3
  <2> QED
    BY <2>1, <2>2 DEF Provided
<1>9. ASSUME NEW t \in Sources, NEW i \in Nat, NEW text \in Nat, Shown(t, i, text)
      PROVE  Shown(t, i, text)'
  <2>1. PICK n \in DOMAIN provider[t] : provider[t][n].id = i /\ text <= provider[t][n].text
    BY <1>9 DEF Shown
  <2>2. CASE t # s
    BY <1>3, <2>1, <2>2 DEF Shown
  <2>3. CASE t = s
    <3>0. n \in DOMAIN old
      BY <2>3
    <3>1. n \in 1..Len(old) /\ n + 1 \in DOMAIN provider'[s]
      <4> HIDE DEF old, new
      <4> QED
        BY <1>4, <1>5, <3>0
    <3>2. provider'[s][n + 1] = old[n]
      BY <1>4, <3>1
    <3> QED
      BY <2>1, <2>3, <3>1, <3>2 DEF Shown
  <2> QED
    BY <2>2, <2>3
<1>10. \A t \in Sources : Len(provider[t]) <= Len(provider'[t])
  <2> SUFFICES ASSUME NEW t \in Sources PROVE Len(provider[t]) <= Len(provider'[t])
    OBVIOUS
  <2>1. Len(provider[t]) \in Nat
    BY <1>2
  <2>2. CASE t = s
    BY <1>4, <1>5, <2>2
  <2>3. CASE t # s
    BY <1>3, <2>1, <2>3
  <2> QED
    BY <2>2, <2>3
<1>11. \A t \in Replays : provider'[t] = provider[t]
  BY <1>3 DEF Publish, Sources
<1> QED
  BY <1>3, <1>8, <1>9, <1>10, <1>11, Later DEF Publish

\* The record of an item that is corrected once more.
LEMMA Retold ==
    ASSUME NEW x \in Item
    PROVE  LET y == [x EXCEPT !.text = @ + 1]
           IN  y \in Item /\ y.id = x.id /\ y.text = x.text + 1
<1>1. x.id \in Nat /\ x.text \in Nat /\ x = [id |-> x.id, text |-> x.text]
  BY DEF Item
<1>2. [x EXCEPT !.text = @ + 1] = [id |-> x.id, text |-> x.text + 1]
  BY <1>1
<1> QED
  BY <1>1, <1>2 DEF Item

\* A source corrects an item.
LEMMA CorrectKeeps ==
    ASSUME IInv, NEW s \in Sources, NEW k \in 1..LastId[s], Correct(s, k)
    PROVE  IInv'
<1> DEFINE old == provider[s]
           new == [old[k] EXCEPT !.text = @ + 1]
<1>1. /\ s \in Feeds /\ k \in DOMAIN old
      /\ provider' = [provider EXCEPT ![s] = [@ EXCEPT ![k] = new]]
  BY DEF Correct
<1>2. provider \in [Sources -> Seq(Item)] /\ old \in Seq(Item) /\ old[k] \in Item
  BY <1>1 DEF IInv, Types
<1>3. new \in Item /\ new.id = old[k].id /\ new.text = old[k].text + 1
  <2> HIDE DEF old
  <2> QED
    BY <1>2, Retold
<1> HIDE DEF new
<1>4. /\ provider' \in [Sources -> Seq(Item)]
      /\ provider'[s] = [old EXCEPT ![k] = new]
      /\ \A t \in Sources : t # s => provider'[t] = provider[t]
  BY <1>1, <1>2, <1>3
<1>5. /\ DOMAIN provider'[s] = DOMAIN old
      /\ Len(provider'[s]) = Len(old)
      /\ provider'[s][k] = new
      /\ \A n \in DOMAIN old : n # k => provider'[s][n] = old[n]
  BY <1>1, <1>2, <1>3, <1>4
<1>6. \A n \in DOMAIN old : provider'[s][n].id = old[n].id
  BY <1>3, <1>5
<1>7. Provided'
  <2>1. \A t \in Sources : \A n \in DOMAIN provider'[t] : provider'[t][n].id <= LastId[t]
    BY <1>4, <1>5, <1>6 DEF IInv, Provided
  <2>2. ASSUME NEW t \in Feeds, NEW m \in DOMAIN provider'[t], NEW n \in DOMAIN provider'[t],
               provider'[t][m].id = provider'[t][n].id
        PROVE  m = n
    <3>1. t \in Sources
      BY DEF Sources
    <3>2. CASE t = s
      <4>1. m \in DOMAIN old /\ n \in DOMAIN old /\ old[m].id = old[n].id
        BY <1>5, <1>6, <2>2, <3>2
      <4> QED
        BY <3>2, <4>1 DEF IInv, Provided
    <3>3. CASE t # s
      BY <1>4, <2>2, <3>1, <3>3 DEF IInv, Provided
    <3> QED
      BY <3>2, <3>3
  <2> QED
    BY <2>1, <2>2 DEF Provided
<1>8. ASSUME NEW t \in Sources, NEW i \in Nat, NEW text \in Nat, Shown(t, i, text)
      PROVE  Shown(t, i, text)'
  <2>1. PICK n \in DOMAIN provider[t] : provider[t][n].id = i /\ text <= provider[t][n].text
    BY <1>8 DEF Shown
  <2>2. CASE t # s
    BY <1>4, <2>1, <2>2 DEF Shown
  <2>3. CASE t = s /\ n # k
    BY <1>5, <2>1, <2>3 DEF Shown
  <2>4. CASE t = s /\ n = k
    <3>1. old[k].text \in Nat
      BY <1>2 DEF Item
    <3>2. text <= new.text
      BY <1>3, <2>1, <2>4, <3>1
    <3> QED
      BY <1>3, <1>5, <2>1, <2>4, <3>2 DEF Shown
  <2> QED
    BY <2>2, <2>3, <2>4
<1>9. \A t \in Sources : Len(provider[t]) <= Len(provider'[t])
  <2> SUFFICES ASSUME NEW t \in Sources PROVE Len(provider[t]) <= Len(provider'[t])
    OBVIOUS
  <2>1. Len(provider[t]) \in Nat
    BY <1>2
  <2>2. CASE t = s
    BY <1>5, <2>1, <2>2
  <2>3. CASE t # s
    BY <1>4, <2>1, <2>3
  <2> QED
    BY <2>2, <2>3
<1>10. \A t \in Replays : provider'[t] = provider[t]
  BY <1>1, <1>4 DEF Sources
<1> QED
  BY <1>4, <1>7, <1>8, <1>9, <1>10, Later DEF Correct

-----------------------------------------------------------------------------
\* A step of one fetch that stores nothing.
LEMMA OneFetch ==
    ASSUME IInv, NEW w \in Workers, NEW f \in Fetches, Knows(f),
           fetch' = [fetch EXCEPT ![w] = f],
           UNCHANGED <<provider, stored, checkpoint>>
    PROVE  IInv'
<1> USE DEF IInv
<1>0. provider' = provider /\ stored' = stored /\ checkpoint' = checkpoint
  OBVIOUS
<1>1. Types'
  BY DEF Types
<1>2. /\ \A s, i : Versions(s, i)' = Versions(s, i)
      /\ \A s, i, t : Shown(s, i, t)' <=> Shown(s, i, t)
  BY <1>0 DEF Versions, Shown
<1>3. \A r : Newer(r)' <=> Newer(r)
  BY <1>2 DEF Newer
<1>4. Provided' /\ NoRollback' /\ NothingSkipped' /\ Checkpoints'
  BY <1>0 DEF Provided, Checkpoints, NoRollback, NothingSkipped
<1>5. Stored' /\ Finite'
  BY <1>0, <1>2 DEF Stored, Finite
<1>6. ASSUME NEW v \in Workers PROVE Knows(fetch[v])'
  <2>1. PICK g \in Fetches : fetch'[v] = g /\ Knows(g)
    BY DEF Types
  <2>2. (Knows(fetch[v]))' <=> Knows(g)
    <3> USE <1>0, <1>2, <1>3, <2>1
    <3>1. (KnowsPages(fetch[v]))' <=> KnowsPages(g)
      BY DEF KnowsPages
    <3>2. (KnowsBatch(fetch[v]))' <=> KnowsBatch(g)
      BY DEF KnowsBatch
    <3>3. (KnowsCorpus(fetch[v]))' <=> KnowsCorpus(g)
      <4>1. /\ (checkpoint[fetch[v].source])' = checkpoint[g.source]
            /\ (provider[fetch[v].source])' = provider[g.source]
            /\ (fetch[v])' = g
        OBVIOUS
      <4> QED
        BY <4>1 DEF KnowsCorpus
    <3> QED
      BY <3>1, <3>2, <3>3 DEF Knows
  <2> QED
    BY <2>1, <2>2
<1> QED
  BY <1>1, <1>4, <1>5, <1>6

\* A fetch is given up.
LEMMA DroppedKeeps ==
    ASSUME IInv, NEW w \in Workers, fetch' = [fetch EXCEPT ![w] = NoFetch],
           UNCHANGED <<provider, stored, checkpoint>>
    PROVE  IInv'
<1>1. NoFetch \in Fetches /\ Knows(NoFetch)
  BY DEF NoFetch, Fetches, Knows
<1> QED
  BY <1>1, OneFetch

\* A poll begins.
LEMMA BeginKeeps ==
    ASSUME IInv, NEW w \in Workers, NEW s \in Sources, Begin(w, s)
    PROVE  IInv'
<1> DEFINE f == [NoFetch EXCEPT !.step = "reading", !.source = s, !.offset = checkpoint[s].offset]
<1>1. checkpoint[s].offset \in Nat /\ checkpoint[s].offset <= Len(provider[s])
  BY DEF IInv, Types, Checkpoints
<1>2. /\ f \in Fetches /\ f.step = "reading" /\ f.source = s
      /\ f.offset = checkpoint[s].offset /\ f.read = {} /\ f.batch = {}
  BY <1>1 DEF NoFetch, Fetches
<1>3. fetch' = [fetch EXCEPT ![w] = f] /\ UNCHANGED <<provider, stored, checkpoint>>
  BY DEF Begin
<1> HIDE DEF f
<1>4. Knows(f)
  BY <1>1, <1>2 DEF Knows, KnowsPages, KnowsCorpus, ReadsOn
<1> QED
  BY <1>2, <1>3, <1>4, OneFetch

-----------------------------------------------------------------------------
\* What a fetch reads.

\* What a page shows is what the source has.
LEMMA PageItems ==
    ASSUME IInv, NEW s \in Sources, NEW o \in Nat
    PROVE  \A x \in ToSet(Page(s, o)) : \E n \in DOMAIN provider[s] : x = provider[s][n]
<1>1. provider[s] \in Seq(Item) /\ Len(provider[s]) \in Nat
  BY DEF IInv, Types
<1>2. o + PageSize \in Nat
  OBVIOUS
<1> DEFINE b == Min({o + PageSize, Len(provider[s])})
<1>3. b \in Nat /\ b <= Len(provider[s])
  BY <1>1, <1>2, Least
<1> DEFINE q == provider[s]
<1>4. q \in Seq(Item) /\ b \in Nat /\ b <= Len(q) /\ Page(s, o) = SubSeq(q, o + 1, b)
  BY <1>1, <1>3 DEF Page
<1> HIDE DEF b, q
<1>5. \A x \in ToSet(SubSeq(q, o + 1, b)) : \E n \in DOMAIN q : x = q[n]
  BY <1>4, PartOf
<1> QED
  BY <1>4, <1>5 DEF q

\* An item a feed shows now is no older than anything stored of it.
LEMMA ShownNow ==
    ASSUME IInv, NEW s \in Feeds, NEW n \in DOMAIN provider[s]
    PROVE  LET x == provider[s][n]
           IN  /\ x \in Item /\ x.id <= LastId[s] /\ Shown(s, x.id, x.text)
               /\ \A r \in Versions(s, x.id) : r.text <= x.text
<1> DEFINE x == provider[s][n]
<1>1. s \in Sources
  BY DEF Sources
<1>2. x \in Item /\ x.id <= LastId[s]
  BY <1>1 DEF IInv, Types, Provided
<1>3. Shown(s, x.id, x.text)
  BY <1>2 DEF Shown, Item
<1>4. ASSUME NEW r \in Versions(s, x.id) PROVE r.text <= x.text
  <2>1. r \in stored /\ r.source = s /\ r.id = x.id
    BY DEF Versions
  <2>2. Shown(s, x.id, r.text)
    <3> HIDE DEF x
    <3> QED
      BY <2>1 DEF IInv, Stored
  <2>3. PICK m \in DOMAIN provider[s] : provider[s][m].id = x.id /\ r.text <= provider[s][m].text
    <3> HIDE DEF x
    <3> QED
      BY <2>2 DEF Shown
  <2>4. m = n
    BY <2>3 DEF IInv, Provided
  <2> QED
    BY <2>3, <2>4
<1> QED
  BY <1>2, <1>3, <1>4

\* A fetch reads a page of a feed, or its last one.
LEMMA ReadPageKeeps ==
    ASSUME IInv, NEW w \in Workers, ReadPage(w)
    PROVE  IInv'
<1> DEFINE f == fetch[w]
           s == f.source
           page == Page(s, f.offset)
<1>1. f \in Fetches /\ Knows(f) /\ f.step = "reading" /\ s \in Feeds /\ s \in Sources
  BY DEF IInv, Types, ReadPage, Sources
<1>2. f.offset \in Nat /\ f.pages \in Nat /\ f.read \in SUBSET Item /\ f.batch \in SUBSET Candidates
  BY <1>1 DEF Fetches
<1>3. PICK st \in {"reading", "read"} :
        fetch' = [fetch EXCEPT ![w] = [f EXCEPT !.step = st,
                                                !.offset = NextOffset(s, f.offset),
                                                !.pages = @ + 1,
                                                !.read = @ \cup ToSet(page)]]
  <2> DEFINE st == IF f.offset + PageSize < Len(provider[s]) /\ f.pages + 1 < MaxPages
                   THEN "reading" ELSE "read"
  <2>1. st \in {"reading", "read"}
    OBVIOUS
  <2>2. fetch' = [fetch EXCEPT ![w] = [f EXCEPT !.step = st,
                                                !.offset = NextOffset(s, f.offset),
                                                !.pages = @ + 1,
                                                !.read = @ \cup ToSet(page)]]
    BY DEF ReadPage
  <2> QED
    BY <2>1, <2>2
<1>4. NextOffset(s, f.offset) \in Nat /\ NextOffset(s, f.offset) <= Len(provider[s])
  <2>1. Len(provider[s]) \in Nat
    BY <1>1 DEF IInv, Types
  <2> QED
    BY <1>2, <2>1 DEF NextOffset
<1>5. \A x \in ToSet(page) : \E n \in DOMAIN provider[s] : x = provider[s][n]
  BY <1>1, <1>2, PageItems
<1>6. \A x \in ToSet(page) :
         /\ x \in Item /\ Shown(s, x.id, x.text)
         /\ \A r \in Versions(s, x.id) : r.text <= x.text
  BY <1>1, <1>5, ShownNow
<1>7. \A x, y \in ToSet(page) : x.id = y.id => x = y
  <2>1. \A m, n \in DOMAIN provider[s] : provider[s][m].id = provider[s][n].id => m = n
    BY <1>1 DEF IInv, Provided
  <2> HIDE DEF page, s
  <2> SUFFICES ASSUME NEW x \in ToSet(page), NEW y \in ToSet(page), x.id = y.id PROVE x = y
    OBVIOUS
  <2>2. PICK m \in DOMAIN provider[s] : x = provider[s][m]
    BY <1>5
  <2>3. PICK n \in DOMAIN provider[s] : y = provider[s][n]
    BY <1>5
  <2> QED
    BY <2>1, <2>2, <2>3
<1>8. \A x \in ToSet(page), y \in f.read : x.id = y.id => x = y
  BY DEF ReadPage, Refusable
<1> DEFINE g == [f EXCEPT !.step = st, !.offset = NextOffset(s, f.offset),
                          !.pages = @ + 1, !.read = @ \cup ToSet(page)]
<1>9. /\ g \in Fetches
      /\ g.step = st /\ g.source = s /\ g.offset = NextOffset(s, f.offset)
      /\ g.read = f.read \cup ToSet(page) /\ g.batch = f.batch /\ g.expected = f.expected
  <2>1. ToSet(page) \subseteq Item
    BY <1>6
  <2> DEFINE o == NextOffset(s, f.offset)
             new == ToSet(page)
  <2>2. f \in Fetches /\ f.pages + 1 \in Nat /\ f.read \cup new \in SUBSET Item /\ o \in Nat
    BY <1>1, <1>2, <1>4, <2>1
  <2> HIDE DEF f, o, new
  <2>3. [f EXCEPT !.step = st, !.offset = o, !.pages = @ + 1, !.read = @ \cup new] \in Fetches
    BY <2>2 DEF Fetches
  <2>4. g = [f EXCEPT !.step = st, !.offset = o, !.pages = @ + 1, !.read = @ \cup new]
    BY DEF o, new
  <2> QED
    BY <2>2, <2>3, <2>4 DEF Fetches, o, new
<1>10. KnowsPages(f)
  BY <1>1 DEF Knows
<1> HIDE DEF f, page, g
<1>11. KnowsPages(g)
  <2>1. \A x, y \in g.read : x.id = y.id => x = y
    BY <1>7, <1>8, <1>9, <1>10 DEF KnowsPages
  <2>2. \A x \in g.read : Shown(g.source, x.id, x.text)
    BY <1>6, <1>9, <1>10 DEF KnowsPages
  <2>3. g.expected = "current" => \A x \in g.read : \A r \in Versions(g.source, x.id) : r.text <= x.text
    BY <1>6, <1>9, <1>10 DEF KnowsPages
  <2> QED
    BY <2>1, <2>2, <2>3 DEF KnowsPages
<1>12. s \notin Replays
  BY <1>1
<1>13. Knows(g)
  BY <1>1, <1>4, <1>9, <1>11, <1>12 DEF Knows
<1>14. UNCHANGED <<provider, stored, checkpoint>>
  BY DEF ReadPage
<1> QED
  BY <1>3, <1>9, <1>13, <1>14, OneFetch DEF f, g

\* The revisions of an item are finitely many, so one is the latest.
LEMMA LatestExists ==
    ASSUME IInv, NEW s \in Feeds, NEW id \in 0..LastId[s], NEW r \in Versions(s, id)
    PROVE  \E top \in Latest(s, id) : r.rev <= top.rev
<1> DEFINE V == Versions(s, id)
           S == {q.rev : q \in V}
<1>1. Cardinality(V) \in Nat
  BY FS_CardinalityType DEF IInv, Finite
<1>2. \A q \in V : q.rev \in Nat /\ q.rev <= Cardinality(V)
  <2> SUFFICES ASSUME NEW q \in V PROVE q.rev \in Nat /\ q.rev <= Cardinality(V)
    OBVIOUS
  <2>1. q \in stored /\ q.source = s /\ q.id = id
    BY DEF Versions
  <2>2. q.rev \in Nat
    BY <2>1, RowFields DEF IInv, Types
  <2> QED
    BY <2>1, <2>2 DEF IInv, Stored
<1>3. S \subseteq 0..Cardinality(V) /\ r.rev \in S
  BY <1>1, <1>2
<1>4. Max(S) \in S /\ \A k \in S : k <= Max(S)
  <2> HIDE DEF S, V
  <2> QED
    BY <1>1, <1>3, Highest
<1>5. PICK top \in V : top.rev = Max(S)
  BY <1>4
<1>6. \A o \in V : o.rev <= top.rev
  BY <1>4, <1>5
<1> QED
  BY <1>3, <1>4, <1>5, <1>6 DEF Latest

\* What an item becomes: a row that is stored, or one that may follow.
LEMMA CandidateIs ==
    ASSUME IInv, NEW s \in Feeds, NEW x \in Item, Shown(s, x.id, x.text)
    PROVE  LET c == Candidate(s, x)
           IN  /\ c \in Candidates /\ c.row.source = s /\ c.row.id = x.id
               /\ c.row.id <= LastId[s]
               /\ Shown(s, c.row.id, c.row.text)
               /\ (\A r \in Versions(s, x.id) : r.text <= x.text)
                     => c.row \in stored \/ Newer(c.row)
<1> DEFINE V == Versions(s, x.id)
           c == Candidate(s, x)
<1>1. s \in Sources /\ x.id \in Nat /\ x.text \in Nat
  BY DEF Sources, Item
<1>2. x.id <= LastId[s]
  BY <1>1 DEF Shown, IInv, Provided
<1>3. x.id \in 0..LastId[s]
  BY <1>1, <1>2, Bounds
<1>4. CASE \E r \in Latest(s, x.id) : r.text = x.text
  <2>1. PICK r \in Latest(s, x.id) : c = [row |-> r, kept |-> "yes"]
    BY <1>4 DEF Candidate
  <2>2. r \in stored /\ r \in Row /\ r.source = s /\ r.id = x.id
    BY DEF Latest, Versions, IInv, Types
  <2>3. Shown(s, r.id, r.text)
    BY <2>2 DEF IInv, Stored
  <2> QED
    BY <1>2, <2>1, <2>2, <2>3 DEF Candidates
<1>5. CASE ~(\E r \in Latest(s, x.id) : r.text = x.text)
  <2>1. Cardinality(V) \in Nat
    BY <1>3, FS_CardinalityType DEF IInv, Finite
  <2> DEFINE row == [source |-> s, id |-> x.id, text |-> x.text, rev |-> 1 + Cardinality(V)]
  <2>2. c = [row |-> row, kept |-> "no"]
    BY <1>5 DEF Candidate
  <2>3. row \in Row
    BY <1>1, <2>1 DEF Row
  <2>4. ASSUME \A r \in V : r.text <= x.text PROVE Newer(row)
    <3> SUFFICES ASSUME NEW r \in V PROVE r.text < x.text
      BY DEF Newer
    <3>1. r \in stored /\ r \in Row /\ r.source = s /\ r.id = x.id
      BY DEF Versions, IInv, Types
    <3>2. PICK top \in Latest(s, x.id) : r.rev <= top.rev
      BY <1>3, LatestExists
    <3>3. top \in V /\ top \in stored /\ top \in Row /\ top.source = s /\ top.id = x.id
      BY DEF Latest, Versions, IInv, Types
    <3>4. top.text # x.text /\ top.text <= x.text /\ top.text \in Nat /\ top.rev \in Nat
      BY <1>5, <2>4, <3>3, RowFields
    <3>5. r.text \in Nat /\ r.rev \in Nat
      BY <3>1, RowFields
    <3>6. CASE r.rev < top.rev
      <4>1. r.text < top.text
        BY <3>1, <3>3, <3>6 DEF IInv, NoRollback
      <4> QED
        BY <1>1, <3>4, <3>5, <4>1
    <3>7. CASE r.rev = top.rev
      <4>1. r \in Latest(s, x.id)
        BY <3>7 DEF Latest
      <4>2. r.text # x.text /\ r.text <= x.text
        BY <1>5, <2>4, <4>1
      <4> QED
        BY <1>1, <3>5, <4>2
    <3> QED
      BY <3>2, <3>4, <3>5, <3>6, <3>7
  <2> QED
    BY <1>2, <2>2, <2>3, <2>4 DEF Candidates
<1> QED
  BY <1>4, <1>5

\* A fetch of a feed compares its items with what is stored.
LEMMA LookUpKeeps ==
    ASSUME IInv, NEW w \in Workers, LookUp(w)
    PROVE  IInv'
<1> DEFINE f == fetch[w]
           s == f.source
           made == {Candidate(s, item) : item \in f.read}
           g == [f EXCEPT !.step = "ready", !.read = {}, !.pages = 0, !.batch = made]
<1>1. f \in Fetches /\ Knows(f) /\ f.step = "read"
  BY DEF IInv, Types, LookUp
<1>2. s \in Feeds /\ s \in Sources /\ KnowsPages(f) /\ f.offset <= Len(provider[s])
  BY <1>1 DEF Knows
<1>3. f.read \in SUBSET Item
  BY <1>1 DEF Fetches
<1>4. fetch' = [fetch EXCEPT ![w] = g] /\ UNCHANGED <<provider, stored, checkpoint>>
  BY DEF LookUp
<1>5. ASSUME NEW x \in f.read
      PROVE  LET c == Candidate(s, x)
             IN  /\ c \in Candidates /\ c.row.source = s /\ c.row.id = x.id
                 /\ c.row.id <= LastId[s]
                 /\ Shown(s, c.row.id, c.row.text)
                 /\ f.expected = "current" => c.row \in stored \/ Newer(c.row)
  <2>1. /\ x \in Item /\ Shown(s, x.id, x.text)
        /\ f.expected = "current" => \A r \in Versions(s, x.id) : r.text <= x.text
    BY <1>2, <1>3 DEF KnowsPages
  <2> HIDE DEF f
  <2> QED
    BY <1>2, <2>1, CandidateIs
<1>6. made \in SUBSET Candidates
  BY <1>5
<1> HIDE DEF made
<1>7. /\ g \in Fetches
      /\ g.step = "ready" /\ g.source = s /\ g.offset = f.offset
      /\ g.batch = made /\ g.expected = f.expected
  BY <1>1, <1>6 DEF Fetches
<1> HIDE DEF f, g
<1>8. KnowsBatch(g)
  <2>1. ASSUME NEW c \in g.batch, NEW d \in g.batch, c.row.id = d.row.id
        PROVE  c = d
    <3>1. PICK x \in f.read : c = Candidate(s, x)
      BY <1>7 DEF made
    <3>2. PICK y \in f.read : d = Candidate(s, y)
      BY <1>7 DEF made
    <3>3. x.id = y.id
      BY <1>5, <2>1, <3>1, <3>2
    <3> QED
      BY <1>2, <3>1, <3>2, <3>3 DEF KnowsPages
  <2>2. ASSUME NEW c \in g.batch
        PROVE  /\ Shown(g.source, c.row.id, c.row.text)
               /\ g.expected = "current" => c.row \in stored \/ Newer(c.row)
    BY <1>5, <1>7 DEF made
  <2> QED
    BY <2>1, <2>2 DEF KnowsBatch
<1>9. s \notin Replays /\ s \notin Points
  BY <1>2
<1>10. \A c \in g.batch : c.row.source = s /\ c.row.id <= LastId[s]
  BY <1>5, <1>7 DEF made
<1>11. Knows(g)
  BY <1>2, <1>7, <1>8, <1>9, <1>10 DEF Knows
<1> QED
  BY <1>4, <1>7, <1>11, OneFetch

\* A fetch reads on in a corpus.
LEMMA ReadReplayKeeps ==
    ASSUME IInv, NEW w \in Workers, ReadReplay(w)
    PROVE  IInv'
<1> DEFINE f == fetch[w]
           s == f.source
           q == provider[s]
           end == ReplayEnd(s, f.offset)
           RowOf(x) == [row |-> [source |-> s, id |-> x.id, text |-> x.text, rev |-> x.text],
                        kept |-> "yes"]
           batch == {RowOf(x) : x \in ToSet(Selected(s, f.offset))}
           g == [f EXCEPT !.step = "ready", !.offset = end, !.batch = batch]
<1>1. f \in Fetches /\ Knows(f) /\ f.step = "reading" /\ s \in Replays /\ s \in Sources
  BY DEF IInv, Types, ReadReplay, Sources
<1>2. f.offset \in Nat /\ f.offset <= Len(q)
  BY <1>1 DEF Fetches, Knows
<1>3. q \in Seq(Item) /\ Len(q) \in Nat
  BY <1>1 DEF IInv, Types
<1>4. end \in Nat /\ end <= Len(q) /\ end >= f.offset
  <2>1. PageSize * MaxPages \in Nat
    <3>1. PageSize \in Nat /\ MaxPages \in Nat
      OBVIOUS
    <3>2. \A a, b \in Nat : a * b \in Nat
      OBVIOUS
    <3> QED
      BY <3>1, <3>2
  <2> DEFINE far == f.offset + PageSize * MaxPages
  <2>2. far \in Nat /\ far >= f.offset
    BY <1>2, <2>1
  <2>3. end = Min({far, Len(q)})
    BY DEF ReplayEnd
  <2> HIDE DEF far, end
  <2>4. end \in {far, Len(q)} /\ end <= Len(q)
    BY <1>3, <2>2, <2>3, Least
  <2> QED
    BY <1>2, <1>3, <2>2, <2>4
<1>5. /\ \A x \in ToSet(Selected(s, f.offset)) : \E n \in DOMAIN q : x = q[n]
      /\ \A n \in (f.offset + 1)..end : q[n] \in ToSet(Selected(s, f.offset))
  <2>1. Selected(s, f.offset) = SubSeq(q, f.offset + 1, end)
    BY DEF Selected
  <2> DEFINE m == f.offset + 1
  <2>2. m \in Nat \ {0}
    BY <1>2
  <2>3. Selected(s, f.offset) = SubSeq(q, m, end)
    BY <2>1
  <2> SUFFICES /\ \A x \in ToSet(SubSeq(q, m, end)) : \E n \in DOMAIN q : x = q[n]
               /\ \A n \in m..end : q[n] \in ToSet(SubSeq(q, m, end))
    BY <2>3
  <2> HIDE DEF q, end, m
  <2> QED
    BY <1>3, <1>4, <2>2, PartOf
<1>6. ASSUME NEW x \in ToSet(Selected(s, f.offset))
      PROVE  /\ x.id \in Nat /\ x.text \in Nat /\ x.id <= LastId[s]
             /\ RowOf(x) \in Candidates /\ RowOf(x).row.source = s
             /\ RowOf(x).row.id = x.id /\ RowOf(x).row.rev = RowOf(x).row.text
  <2>1. PICK n \in DOMAIN q : x = q[n]
    BY <1>5
  <2>2. x \in Item
    BY <1>3, <2>1
  <2>3. x.id <= LastId[s]
    BY <1>1, <2>1 DEF IInv, Provided
  <2>4. x.id \in Nat /\ x.text \in Nat
    BY <2>2 DEF Item
  <2>5. RowOf(x).row \in Row
    BY <1>1, <2>4 DEF Row
  <2> QED
    BY <2>3, <2>4, <2>5 DEF Candidates
<1>7. batch \in SUBSET Candidates
  BY <1>6
<1>8. \A c \in batch : c.row.source = s /\ c.row.id <= LastId[s] /\ c.row.rev = c.row.text
  <2> SUFFICES ASSUME NEW x \in ToSet(Selected(s, f.offset))
               PROVE  LET c == RowOf(x)
                      IN  c.row.source = s /\ c.row.id <= LastId[s] /\ c.row.rev = c.row.text
    OBVIOUS
  <2> QED
    BY <1>6
<1>9. \A n \in (f.offset + 1)..end : \E c \in batch : c.row.id = q[n].id /\ c.row.text = q[n].text
  <2> SUFFICES ASSUME NEW n \in (f.offset + 1)..end
               PROVE  \E c \in batch : c.row.id = q[n].id /\ c.row.text = q[n].text
    OBVIOUS
  <2>1. RowOf(q[n]) \in batch
    BY <1>5
  <2>2. RowOf(q[n]).row.id = q[n].id /\ RowOf(q[n]).row.text = q[n].text
    OBVIOUS
  <2> QED
    BY <2>1, <2>2
<1>10. fetch' = [fetch EXCEPT ![w] = g] /\ UNCHANGED <<provider, stored, checkpoint>>
  BY DEF ReadReplay
<1>11. KnowsCorpus(f)
  BY <1>1 DEF Knows
<1> HIDE DEF end, batch
<1>12. /\ g \in Fetches
       /\ g.step = "ready" /\ g.source = s /\ g.offset = end
       /\ g.batch = batch /\ g.expected = f.expected
  <2> HIDE DEF f
  <2> QED
    BY <1>1, <1>4, <1>7 DEF Fetches
<1> HIDE DEF f, g
<1>13. KnowsCorpus(g)
  <2>1. f.expected = "current" => f.offset = checkpoint[s].offset
    BY <1>1, <1>11 DEF KnowsCorpus, ReadsOn
  <2> QED
    BY <1>4, <1>9, <1>12, <2>1 DEF KnowsCorpus, ReadsOn
<1>14. s \notin Feeds /\ s \notin Points
  BY <1>1
<1>15. Knows(g)
  BY <1>1, <1>4, <1>8, <1>12, <1>13, <1>14 DEF Knows
<1> QED
  BY <1>10, <1>12, <1>15, OneFetch

\* A fetch reads the latest points of a series.
LEMMA ReadPointsKeeps ==
    ASSUME IInv, NEW w \in Workers, ReadPoints(w)
    PROVE  IInv'
<1> DEFINE f == fetch[w]
           s == f.source
           q == provider[s]
           end == Min({MaxItems, Len(q)})
           batch == {PointRow(s, x) : x \in ToSet(LatestPoints(s))}
           g == [f EXCEPT !.step = "ready", !.batch = batch]
<1>1. f \in Fetches /\ Knows(f) /\ f.step = "reading" /\ s \in Points /\ s \in Sources
  BY DEF IInv, Types, ReadPoints, Sources
<1>2. q \in Seq(Item) /\ Len(q) \in Nat /\ MaxItems \in Nat
  BY <1>1 DEF IInv, Types
<1>3. end \in Nat /\ end <= Len(q)
  <2> HIDE DEF q
  <2> QED
    BY <1>2, Least
<1>4. \A x \in ToSet(LatestPoints(s)) : \E n \in DOMAIN q : x = q[n]
  <2>1. LatestPoints(s) = SubSeq(q, 1, end)
    BY DEF LatestPoints
  <2> HIDE DEF q, end
  <2> QED
    BY <1>2, <1>3, <2>1, PartOf
<1>5. ASSUME NEW x \in ToSet(LatestPoints(s))
      PROVE  LET c == PointRow(s, x)
             IN  /\ c \in Candidates /\ c.row.source = s
                 /\ c.row.id <= LastId[s] /\ c.row.rev = 1
  <2>1. PICK n \in DOMAIN q : x = q[n]
    BY <1>4
  <2>2. x \in Item
    BY <1>2, <2>1
  <2>3. x.id <= LastId[s]
    BY <1>1, <2>1 DEF IInv, Provided
  <2>4. x.id \in Nat /\ x.text \in Nat
    BY <2>2 DEF Item
  <2>5. PointRow(s, x).row \in Row
    BY <1>1, <2>4 DEF Row, PointRow
  <2> QED
    BY <2>3, <2>5 DEF Candidates, PointRow
<1>6. batch \in SUBSET Candidates
  BY <1>5
<1>7. \A c \in batch : c.row.source = s /\ c.row.id <= LastId[s] /\ c.row.rev = 1
  BY <1>5
<1>8. fetch' = [fetch EXCEPT ![w] = g] /\ UNCHANGED <<provider, stored, checkpoint>>
  BY DEF ReadPoints
<1>9. f.offset <= Len(q)
  BY <1>1 DEF Knows
<1> HIDE DEF batch
<1>10. /\ g \in Fetches
       /\ g.step = "ready" /\ g.source = s /\ g.offset = f.offset
       /\ g.batch = batch /\ g.expected = f.expected
  <2> HIDE DEF f
  <2> QED
    BY <1>1, <1>6 DEF Fetches
<1>11. s \notin Feeds /\ s \notin Replays
  BY <1>1
<1> HIDE DEF f, g
<1>12. Knows(g)
  BY <1>1, <1>7, <1>9, <1>10, <1>11 DEF Knows
<1> QED
  BY <1>8, <1>10, <1>12, OneFetch

-----------------------------------------------------------------------------
\* A batch is stored.

\* Who stores, and what.
LEMMA Storing ==
    ASSUME IInv, NEW w \in Workers, Persist(w)
    PROVE  LET f == fetch[w]
               new == {c.row : c \in f.batch}
           IN  /\ f \in Fetches /\ Knows(f) /\ f.step = "ready" /\ f.expected = "current"
               /\ f.source \in Sources
               /\ \A c \in f.batch : c.row \in Row
               /\ \A r \in new : r \in Row /\ r.source = f.source /\ r.id <= LastId[f.source]
               /\ stored' = stored \cup new
               /\ \A t, i : Versions(t, i)' = Versions(t, i) \cup {r \in new : r.source = t /\ r.id = i}
<1> DEFINE f == fetch[w]
           new == {c.row : c \in f.batch}
<1>1. f \in Fetches /\ Knows(f) /\ f.step = "ready" /\ f.expected = "current"
  BY DEF IInv, Types, Persist, Unchanged
<1>2. f.source \in Sources
  BY <1>1 DEF Knows
<1>3. \A c \in f.batch : c.row \in Row /\ c.row.source = f.source /\ c.row.id <= LastId[f.source]
  <2>1. f.batch \in SUBSET Candidates
    BY <1>1 DEF Fetches
  <2> QED
    BY <1>1, <2>1, CandidateFields DEF Knows
<1>4. stored' = stored \cup new
  BY DEF Persist
<1>5. \A t, i : Versions(t, i)' = Versions(t, i) \cup {r \in new : r.source = t /\ r.id = i}
  <2> HIDE DEF new
  <2> QED
    BY <1>4 DEF Versions
<1> QED
  BY <1>1, <1>2, <1>3, <1>4, <1>5

\* An item of a feed gets one later revision, or none.
LEMMA OneLater ==
    ASSUME IInv, NEW w \in Workers, Persist(w), NEW t \in Feeds, NEW i
    PROVE  \/ Versions(t, i)' = Versions(t, i)
           \/ \E row \in Row : /\ row.source = t /\ row.id = i
                               /\ row \in stored' /\ row \notin stored
                               /\ Versions(t, i)' = Versions(t, i) \cup {row}
                               /\ Newer(row) /\ Shown(t, i, row.text)
<1> DEFINE f == fetch[w]
           new == {c.row : c \in f.batch}
           here == {r \in new : r.source = t /\ r.id = i}
<1>1. /\ Knows(f) /\ f.step = "ready" /\ f.expected = "current"
      /\ \A r \in new : r \in Row /\ r.source = f.source
      /\ stored' = stored \cup new
      /\ Versions(t, i)' = Versions(t, i) \cup here
  <2>1. /\ Knows(f) /\ f.step = "ready" /\ f.expected = "current"
        /\ \A r \in new : r \in Row /\ r.source = f.source
        /\ stored' = stored \cup new
    BY Storing
  <2>2. \A a, b : Versions(a, b)' = Versions(a, b) \cup {r \in new : r.source = a /\ r.id = b}
    BY Storing
  <2> QED
    BY <2>1, <2>2
<1>2. CASE here \subseteq stored
  <2>1. here \subseteq Versions(t, i)
    BY <1>2 DEF Versions
  <2> HIDE DEF here
  <2> QED
    BY <1>1, <2>1
<1>3. CASE ~(here \subseteq stored)
  <2>1. PICK c \in f.batch : c.row \in here /\ c.row \notin stored
    BY <1>3
  <2>2. f.source = t /\ c.row.id = i /\ c.row.source = t /\ c.row \in Row /\ c.row \in stored'
    BY <1>1, <2>1
  <2>3. KnowsBatch(f)
    BY <1>1, <2>2 DEF Knows
  <2>4. here = {c.row}
    <3> SUFFICES ASSUME NEW r \in here PROVE r = c.row
      <4> HIDE DEF here
      <4> QED
        BY <2>1
    <3>0. PICK d \in f.batch : d.row = r
      OBVIOUS
    <3>1. d.row.id = c.row.id
      BY <2>1, <3>0
    <3> HIDE DEF f, here
    <3> QED
      BY <2>3, <3>0, <3>1 DEF KnowsBatch
  <2>5. Newer(c.row) /\ Shown(t, i, c.row.text)
    BY <1>1, <2>1, <2>2, <2>3 DEF KnowsBatch
  <2> HIDE DEF here, f
  <2> QED
    BY <1>1, <2>1, <2>2, <2>4, <2>5
<1> QED
  BY <1>2, <1>3

\* What is stored remains shown and numbered.
LEMMA PersistStored ==
    ASSUME IInv, NEW w \in Workers, Persist(w)
    PROVE  Stored' /\ Finite'
<1> DEFINE f == fetch[w]
           new == {c.row : c \in f.batch}
<1>1. /\ Knows(f) /\ f.source \in Sources /\ f.step = "ready"
      /\ \A r \in new : r \in Row /\ r.source = f.source /\ r.id <= LastId[f.source]
      /\ stored' = stored \cup new
  BY Storing
<1>2. ASSUME NEW t \in Feeds, NEW i \in 0..LastId[t]
      PROVE  /\ IsFiniteSet(Versions(t, i)')
             /\ Cardinality(Versions(t, i)') \in Nat
             /\ Cardinality(Versions(t, i)) \in Nat
             /\ Cardinality(Versions(t, i)) <= Cardinality(Versions(t, i)')
             /\ \A r \in Versions(t, i)' : r \notin stored =>
                    /\ r.rev = 1 + Cardinality(Versions(t, i))
                    /\ Cardinality(Versions(t, i)') = 1 + Cardinality(Versions(t, i))
                    /\ Shown(t, i, r.text)
  <2>1. IsFiniteSet(Versions(t, i)) /\ Cardinality(Versions(t, i)) \in Nat
    BY FS_CardinalityType DEF IInv, Finite
  <2>2. Versions(t, i) \subseteq stored
    BY DEF Versions
  <2>3. CASE Versions(t, i)' = Versions(t, i)
    BY <2>1, <2>2, <2>3
  <2>4. CASE \E row \in Row : /\ row.source = t /\ row.id = i
                              /\ row \in stored' /\ row \notin stored
                              /\ Versions(t, i)' = Versions(t, i) \cup {row}
                              /\ Newer(row) /\ Shown(t, i, row.text)
    <3>1. PICK row \in Row : /\ row.source = t /\ row.id = i
                             /\ row \notin stored
                             /\ Versions(t, i)' = Versions(t, i) \cup {row}
                             /\ Newer(row) /\ Shown(t, i, row.text)
      BY <2>4
    <3>2. row \notin Versions(t, i)
      BY <2>2, <3>1
    <3>3. /\ IsFiniteSet(Versions(t, i) \cup {row})
          /\ Cardinality(Versions(t, i) \cup {row}) = Cardinality(Versions(t, i)) + 1
      BY <2>1, <3>2, FS_AddElement
    <3>4. row.rev = 1 + Cardinality(Versions(t, i))
      BY <3>1 DEF Newer
    <3>5. \A r \in Versions(t, i)' : r \notin stored => r = row
      BY <2>2, <3>1
    <3>6. /\ IsFiniteSet(Versions(t, i)')
          /\ Cardinality(Versions(t, i)') = 1 + Cardinality(Versions(t, i))
      BY <2>1, <3>1, <3>3
    <3>7. /\ Cardinality(Versions(t, i)') \in Nat
          /\ Cardinality(Versions(t, i)) <= Cardinality(Versions(t, i)')
      BY <2>1, <3>6
    <3>8. ASSUME NEW r \in Versions(t, i)', r \notin stored
          PROVE  r.rev = 1 + Cardinality(Versions(t, i)) /\ Shown(t, i, r.text)
      BY <3>1, <3>4, <3>5, <3>8
    <3> QED
      BY <2>1, <3>6, <3>7, <3>8
  <2> QED
    BY <2>3, <2>4, OneLater
<1>3. Finite'
  BY <1>2 DEF Finite
<1>4. provider' = provider
  BY DEF Persist
<1>5. \A t, i, x : Shown(t, i, x)' <=> Shown(t, i, x)
  BY <1>4 DEF Shown
<1>6. ASSUME NEW r \in stored', r.source \in Feeds
      PROVE  /\ Shown(r.source, r.id, r.text)
             /\ r.rev <= Cardinality(Versions(r.source, r.id)')
  <2> DEFINE t == r.source
             i == r.id
  <2>1. r \in Row /\ t \in Sources
    BY <1>1, RowFields DEF IInv, Types
  <2>2. r \in Versions(t, i)'
    BY DEF Versions
  <2>3. i <= LastId[t]
    <3>1. CASE r \in new
      BY <1>1, <3>1
    <3>2. CASE r \in stored
      <4>1. Shown(t, i, r.text)
        BY <1>6, <3>2 DEF IInv, Stored
      <4> QED
        BY <2>1, <4>1 DEF Shown, IInv, Provided
    <3> HIDE DEF new
    <3> QED
      BY <1>1, <3>1, <3>2
  <2>4. i \in Nat /\ r.rev \in Nat
    BY <2>1, RowFields
  <2>5. i \in 0..LastId[t]
    BY <2>1, <2>3, <2>4, Bounds
  <2>6. CASE r \in stored
    <3>1. Shown(t, i, r.text) /\ r.rev <= Cardinality(Versions(t, i))
      BY <1>6, <2>6 DEF IInv, Stored
    <3>2. /\ Cardinality(Versions(t, i)) \in Nat /\ Cardinality(Versions(t, i)') \in Nat
          /\ Cardinality(Versions(t, i)) <= Cardinality(Versions(t, i)')
      BY <1>2, <1>6, <2>5
    <3> QED
      BY <2>4, <3>1, <3>2
  <2>7. CASE r \notin stored
    <3>1. /\ r.rev = 1 + Cardinality(Versions(t, i))
          /\ Cardinality(Versions(t, i)') = 1 + Cardinality(Versions(t, i))
          /\ Shown(t, i, r.text)
      BY <1>2, <1>6, <2>2, <2>5, <2>7
    <3> QED
      BY <2>4, <3>1
  <2> QED
    BY <2>6, <2>7
<1>7. ASSUME NEW r \in stored'
      PROVE  /\ r.source \in Replays => r.rev = r.text
             /\ r.source \in Points => r.rev = 1
  <2>1. CASE r \in stored
    BY <2>1 DEF IInv, Stored
  <2>2. CASE r \in new
    <3>1. PICK c \in f.batch : r = c.row
      BY <2>2
    <3> QED
      BY <1>1, <3>1 DEF Knows
  <2> HIDE DEF new
  <2> QED
    BY <1>1, <2>1, <2>2
<1>8. Stored'
  <2> SUFFICES ASSUME NEW r \in stored'
               PROVE  /\ r.source \in Feeds =>
                            /\ Shown(r.source, r.id, r.text)'
                            /\ r.rev <= Cardinality(Versions(r.source, r.id)')
                      /\ r.source \in Replays => r.rev = r.text
                      /\ r.source \in Points => r.rev = 1
    BY DEF Stored
  <2> QED
    BY <1>5, <1>6, <1>7
<1> QED
  BY <1>3, <1>8

\* Later revisions stay later texts.
LEMMA PersistOrdered ==
    ASSUME IInv, NEW w \in Workers, Persist(w)
    PROVE  NoRollback'
<1> SUFFICES ASSUME NEW r \in stored', NEW q \in stored',
                    r.source = q.source, r.id = q.id, r.rev < q.rev
             PROVE  r.text < q.text
  BY DEF NoRollback
<1> DEFINE t == r.source
           i == r.id
<1>1. Stored' /\ Finite'
  BY PersistStored
<1>2. r \in Row /\ q \in Row
  <2>1. stored' = stored \cup {c.row : c \in fetch[w].batch}
    BY Storing
  <2>2. \A c \in fetch[w].batch : c.row \in Row
    BY Storing
  <2> QED
    BY <2>1, <2>2 DEF IInv, Types
<1>3. t \in Sources /\ r.rev \in Nat /\ q.rev \in Nat /\ r.text \in Nat /\ q.text \in Nat
  BY <1>2, RowFields
<1>4. CASE t \in Replays
  BY <1>1, <1>4 DEF Stored
<1>5. CASE t \in Points
  BY <1>1, <1>5 DEF Stored
<1>6. CASE t \in Feeds
  <2>1. r \in Versions(t, i)' /\ q \in Versions(t, i)'
    BY DEF Versions
  <2>2. CASE r \in Versions(t, i) /\ q \in Versions(t, i)
    BY <2>2 DEF Versions, IInv, NoRollback
  <2>3. CASE ~(r \in Versions(t, i) /\ q \in Versions(t, i))
    <3>1. PICK row \in Row : /\ row.source = t /\ row.id = i /\ row \notin stored
                             /\ Versions(t, i)' = Versions(t, i) \cup {row}
                             /\ Newer(row)
      BY <1>6, <2>1, <2>3, OneLater
    <3>2. /\ row.rev = 1 + Cardinality(Versions(t, i))
          /\ \A o \in Versions(t, i) : o.text < row.text
      BY <3>1 DEF Newer
    <3>3. CASE q = row
      <4>1. r # row
        BY <1>3, <3>3
      <4>2. r \in Versions(t, i)
        BY <2>1, <3>1, <4>1
      <4> QED
        BY <3>2, <3>3, <4>2
    <3>4. CASE q # row
      <4>1. q \in Versions(t, i) /\ r = row
        BY <2>1, <2>3, <3>1, <3>4
      <4>2. q \in stored
        BY <4>1 DEF Versions
      <4>3. q.rev <= Cardinality(Versions(t, i))
        <5>1. q.source = t /\ q.id = i
          OBVIOUS
        <5> QED
          BY <1>6, <4>2, <5>1 DEF IInv, Stored
      <4>4. row.rev = r.rev /\ r.rev < q.rev
        BY <4>1
      <4>5. Cardinality(Versions(t, i)) = r.rev - 1
        <5>1. Cardinality(Versions(t, i)) \in Nat
          <6>1. Shown(t, i, q.text)
            BY <1>6, <4>2 DEF IInv, Stored
          <6>2. i \in 0..LastId[t]
            <7>1. i <= LastId[t]
              BY <1>3, <6>1 DEF Shown, IInv, Provided
            <7>2. i \in Nat
              BY <1>2, RowFields
            <7> QED
              BY <1>3, <7>1, <7>2, Bounds
          <6> QED
            BY <1>6, <6>2, FS_CardinalityType DEF IInv, Finite
        <5> QED
          BY <1>3, <3>2, <4>4, <5>1
      <4> QED
        BY <1>3, <4>3, <4>4, <4>5
    <3> QED
      BY <3>3, <3>4
  <2> QED
    BY <2>2, <2>3
<1> QED
  BY <1>3, <1>4, <1>5, <1>6 DEF Sources

\* The watermark is the highest of what the checkpoint and the batch have.
LEMMA WatermarkRises ==
    ASSUME IInv, NEW w \in Workers, Persist(w)
    PROVE  LET s == fetch[w].source
           IN  /\ Watermark(w) \in Nat /\ Watermark(w) <= LastId[s]
               /\ checkpoint[s].watermark <= Watermark(w)
<1> DEFINE f == fetch[w]
           s == f.source
           old == checkpoint[s].watermark
           S == {c.row.id : c \in f.batch} \cup {old}
<1>1. /\ s \in Sources
      /\ \A c \in f.batch : c.row \in Row /\ c.row.id <= LastId[s]
  BY Storing DEF Knows
<1>2. old \in Nat /\ old <= LastId[s] /\ LastId[s] \in Nat
  BY <1>1, Bounds DEF IInv, Types, Checkpoints
<1>3. S \subseteq 0..LastId[s] /\ old \in S
  <2> HIDE DEF f, old
  <2>1. \A c \in f.batch : c.row.id \in Nat
    BY <1>1, RowFields
  <2> QED
    BY <1>1, <1>2, <2>1
<1>4. Watermark(w) = Max(S)
  BY DEF Watermark
<1> HIDE DEF S
<1>5. Max(S) \in S /\ old <= Max(S)
  BY <1>2, <1>3, Highest
<1>6. Max(S) \in 0..LastId[s]
  BY <1>3, <1>5
<1> QED
  BY <1>2, <1>4, <1>5, <1>6

\* What the checkpoint of the stored source becomes.
LEMMA NewCheckpoint ==
    ASSUME IInv, NEW w \in Workers, Persist(w)
    PROVE  LET s == fetch[w].source
           IN  /\ checkpoint' \in [Sources -> [offset : Nat, watermark : Nat]]
               /\ checkpoint'[s].offset = fetch[w].offset
               /\ checkpoint'[s].watermark = Watermark(w)
               /\ \A t \in Sources : t # s => checkpoint'[t] = checkpoint[t]
<1> DEFINE f == fetch[w]
           s == f.source
           new == [offset |-> f.offset, watermark |-> Watermark(w)]
<1>1. s \in Sources /\ f.offset \in Nat
  BY Storing DEF Fetches
<1>2. Watermark(w) \in Nat
  BY WatermarkRises
<1>3. checkpoint' = [checkpoint EXCEPT ![s] = new]
  BY DEF Persist
<1>4. checkpoint \in [Sources -> [offset : Nat, watermark : Nat]]
  BY DEF IInv, Types
<1>5. new \in [offset : Nat, watermark : Nat] /\ new.offset = f.offset /\ new.watermark = Watermark(w)
  BY <1>1, <1>2
<1> HIDE DEF new
<1> QED
  BY <1>1, <1>3, <1>4, <1>5

\* Positions move forward.
LEMMA PersistForward ==
    ASSUME IInv, NEW w \in Workers, Persist(w), NEW t \in Sources
    PROVE  /\ checkpoint'[t].watermark >= checkpoint[t].watermark
           /\ t \in Replays => checkpoint'[t].offset >= checkpoint[t].offset
<1> DEFINE f == fetch[w]
           s == f.source
<1>1. checkpoint[t].watermark \in Nat /\ checkpoint[t].offset \in Nat
  BY DEF IInv, Types
<1>2. CASE t # s
  BY <1>1, <1>2, NewCheckpoint
<1>3. CASE t = s
  <2>1. checkpoint'[t].watermark = Watermark(w) /\ checkpoint'[t].offset = f.offset
    BY <1>3, NewCheckpoint
  <2>2. checkpoint[t].watermark <= Watermark(w) /\ Watermark(w) \in Nat
    BY <1>3, WatermarkRises
  <2>3. ASSUME t \in Replays PROVE f.offset >= checkpoint[t].offset
    <3>1. Knows(f) /\ f.step = "ready" /\ f.expected = "current"
      BY Storing
    <3>2. KnowsCorpus(f)
      BY <1>3, <2>3, <3>1 DEF Knows
    <3> HIDE DEF f
    <3> QED
      BY <1>3, <3>1, <3>2 DEF KnowsCorpus, ReadsOn
  <2> QED
    BY <1>1, <2>1, <2>2, <2>3
<1> QED
  BY <1>2, <1>3

\* What a replay's position has gone over is stored.
LEMMA PersistSkipsNothing ==
    ASSUME IInv, NEW w \in Workers, Persist(w)
    PROVE  NothingSkipped'
<1> DEFINE f == fetch[w]
           s == f.source
           new == {c.row : c \in f.batch}
<1>1. /\ Knows(f) /\ f.step = "ready" /\ f.expected = "current" /\ f \in Fetches /\ s \in Sources
      /\ \A r \in new : r.source = s
      /\ stored' = stored \cup new
  BY Storing
<1>2. provider' = provider
  BY DEF Persist
<1> SUFFICES ASSUME NEW t \in Replays, NEW n \in 1..checkpoint'[t].offset
             PROVE  \E r \in stored' : /\ r.source = t /\ r.id = provider[t][n].id
                                       /\ r.text = provider[t][n].text
  BY <1>2 DEF NothingSkipped
<1>3. t \in Sources /\ checkpoint[t].offset \in Nat /\ checkpoint'[t].offset \in Nat
  BY NewCheckpoint DEF Sources, IInv, Types
<1>4. CASE n \in 1..checkpoint[t].offset
  BY <1>1, <1>4 DEF IInv, NothingSkipped
<1>5. CASE n \notin 1..checkpoint[t].offset
  <2>1. t = s
    BY <1>3, <1>5, NewCheckpoint
  <2>2. checkpoint'[t].offset = f.offset
    BY <2>1, NewCheckpoint
  <2>3. n \in (checkpoint[s].offset + 1)..f.offset
    BY <1>3, <1>5, <2>1, <2>2
  <2>4. KnowsCorpus(f)
    BY <1>1, <2>1 DEF Knows
  <2>5. PICK c \in f.batch : c.row.id = provider[s][n].id /\ c.row.text = provider[s][n].text
    <3> HIDE DEF f
    <3> QED
      BY <1>1, <2>3, <2>4 DEF KnowsCorpus, ReadsOn
  <2>6. c.row \in stored' /\ c.row.source = s
    BY <1>1
  <2> QED
    BY <2>1, <2>5, <2>6
<1> QED
  BY <1>4, <1>5

\* What the other fetches know.
LEMMA PersistOthers ==
    ASSUME IInv, NEW w \in Workers, Persist(w), NEW v \in Workers
    PROVE  fetch'[v] \in Fetches /\ Knows(fetch[v])'
<1> DEFINE f == fetch[w]
           s == f.source
           g == fetch[v]
           new == {c.row : c \in f.batch}
<1>1. /\ s \in Sources
      /\ \A r \in new : r.source = s
      /\ stored' = stored \cup new
      /\ \A t, i : Versions(t, i)' = Versions(t, i) \cup {r \in new : r.source = t /\ r.id = i}
  <2>1. /\ s \in Sources
        /\ \A r \in new : r.source = s
        /\ stored' = stored \cup new
    BY Storing
  <2>2. \A t, i : Versions(t, i)' = Versions(t, i) \cup {r \in new : r.source = t /\ r.id = i}
    BY Storing
  <2> QED
    BY <2>1, <2>2
<1>2. provider' = provider
  BY DEF Persist
<1>3. g \in Fetches /\ Knows(g)
  BY DEF IInv, Types
<1>4. fetch'[v] = IF v = w THEN NoFetch
                  ELSE IF g.step # "idle" /\ g.source = s
                  THEN [g EXCEPT !.expected = "overtaken"] ELSE g
  BY DEF Persist
<1>5. \A t, i, x : Shown(t, i, x)' <=> Shown(t, i, x)
  BY <1>2 DEF Shown
<1>6. CASE v = w
  <2>1. fetch'[v] = NoFetch
    BY <1>4, <1>6
  <2> QED
    BY <2>1 DEF NoFetch, Fetches, Knows
<1>7. CASE v # w /\ g.step # "idle" /\ g.source = s
  <2> DEFINE h == [g EXCEPT !.expected = "overtaken"]
  <2>1. fetch'[v] = h
    BY <1>4, <1>7
  <2> HIDE DEF g
  <2>2. /\ h \in Fetches /\ h.expected = "overtaken"
        /\ h.step = g.step /\ h.source = g.source /\ h.offset = g.offset
        /\ h.read = g.read /\ h.batch = g.batch
    BY <1>3 DEF Fetches
  <2> HIDE DEF h, f
  <2>3. KnowsPages(g) => (KnowsPages(fetch[v]))'
    BY <1>5, <2>1, <2>2 DEF KnowsPages
  <2>4. KnowsBatch(g) => (KnowsBatch(fetch[v]))'
    BY <1>5, <2>1, <2>2 DEF KnowsBatch
  <2>5. (KnowsCorpus(fetch[v]))'
    BY <2>1, <2>2 DEF KnowsCorpus, ReadsOn
  <2> QED
    BY <1>2, <1>3, <2>1, <2>2, <2>3, <2>4, <2>5 DEF Knows
<1>8. CASE v # w /\ g.step = "idle"
  <2>1. fetch'[v] = g
    BY <1>4, <1>8
  <2> QED
    BY <1>3, <1>8, <2>1 DEF Knows
<1>9. CASE v # w /\ g.step # "idle" /\ g.source # s
  <2>1. fetch'[v] = g
    BY <1>4, <1>9
  <2>0. PICK t : t = g.source
    OBVIOUS
  <2>2. t \in Sources
    BY <1>3, <1>9, <2>0 DEF Knows
  <2>3. \A i : Versions(t, i)' = Versions(t, i)
    <3> SUFFICES ASSUME NEW i PROVE Versions(t, i)' = Versions(t, i)
      OBVIOUS
    <3> HIDE DEF new, f
    <3>1. {r \in new : r.source = t /\ r.id = i} = {}
      BY <1>1, <1>9, <2>0
    <3>2. Versions(t, i)' = Versions(t, i) \cup {r \in new : r.source = t /\ r.id = i}
      BY <1>1
    <3> QED
      BY <3>1, <3>2
  <2>4. checkpoint'[t] = checkpoint[t]
    BY <1>9, <2>0, <2>2, NewCheckpoint
  <2>5. \A row : row.source = t => (Newer(row)' <=> Newer(row))
    <3> SUFFICES ASSUME NEW row, row.source = t PROVE Newer(row)' <=> Newer(row)
      OBVIOUS
    <3>1. Versions(row.source, row.id)' = Versions(row.source, row.id)
      BY <2>3
    <3> QED
      BY <3>1 DEF Newer
  <2>6. \A c \in g.batch : c.row.source = t
    BY <1>3, <1>9, <2>0 DEF Knows
  <2> HIDE DEF f, g, new
  <2>7. KnowsPages(g) => (KnowsPages(fetch[v]))'
    <3>1. (fetch[v])' = g /\ (fetch[v].source)' = t /\ g.source = t
      BY <2>0, <2>1
    <3> QED
      BY <1>5, <2>3, <3>1 DEF KnowsPages
  <2>8. KnowsBatch(g) => (KnowsBatch(fetch[v]))'
    BY <1>1, <1>5, <2>0, <2>1, <2>5, <2>6 DEF KnowsBatch
  <2>9. KnowsCorpus(g) => (KnowsCorpus(fetch[v]))'
    BY <1>2, <2>0, <2>1, <2>4 DEF KnowsCorpus
  <2> QED
    BY <1>2, <1>3, <2>1, <2>7, <2>8, <2>9 DEF Knows
<1> QED
  BY <1>6, <1>7, <1>8, <1>9

\* A batch is stored with its checkpoint.
LEMMA PersistKeeps ==
    ASSUME IInv, NEW w \in Workers, Persist(w)
    PROVE  IInv'
<1> DEFINE s == fetch[w].source
           new == {c.row : c \in fetch[w].batch}
<1>1. provider' = provider
  BY DEF Persist
<1>2. Types'
  <2>1. stored' \in SUBSET Row
    <3>1. stored' = stored \cup new /\ \A r \in new : r \in Row
      BY Storing
    <3> HIDE DEF new
    <3> QED
      BY <3>1 DEF IInv, Types
  <2>2. fetch' \in [Workers -> Fetches]
    <3>1. DOMAIN fetch' = Workers /\ fetch' = [v \in Workers |-> fetch'[v]]
      BY DEF Persist
    <3>2. \A v \in Workers : fetch'[v] \in Fetches
      BY PersistOthers
    <3> QED
      BY <3>1, <3>2
  <2>3. checkpoint' \in [Sources -> [offset : Nat, watermark : Nat]]
    BY NewCheckpoint
  <2> QED
    BY <1>1, <2>1, <2>2, <2>3 DEF IInv, Types
<1>3. Provided'
  BY <1>1 DEF IInv, Provided
<1>4. Checkpoints'
  <2> SUFFICES ASSUME NEW t \in Sources
               PROVE  /\ checkpoint'[t].offset <= Len(provider[t])
                      /\ checkpoint'[t].watermark <= LastId[t]
    BY <1>1 DEF Checkpoints
  <2>1. CASE t # s
    BY <2>1, NewCheckpoint DEF IInv, Checkpoints
  <2>2. CASE t = s
    <3>1. checkpoint'[t].offset = fetch[w].offset /\ checkpoint'[t].watermark = Watermark(w)
      BY <2>2, NewCheckpoint
    <3>2. fetch[w].offset <= Len(provider[t])
      BY <2>2, Storing DEF Knows
    <3>3. Watermark(w) <= LastId[t]
      BY <2>2, WatermarkRises
    <3> QED
      BY <3>1, <3>2, <3>3
  <2> QED
    BY <2>1, <2>2
<1> QED
  BY <1>2, <1>3, <1>4, PersistStored, PersistOrdered, PersistSkipsNothing, PersistOthers DEF IInv

-----------------------------------------------------------------------------
\* Every step keeps the invariant.
LEMMA StepKeeps == IInv /\ [Next]_vars => IInv'
<1> SUFFICES ASSUME IInv, [Next]_vars PROVE IInv'
  OBVIOUS
<1>1. CASE UNCHANGED vars
  <2>1. provider' = provider /\ stored' = stored /\ checkpoint' = checkpoint /\ fetch' = fetch
    BY <1>1 DEF vars
  <2> QED
    BY <2>1, Later DEF IInv, Types, Provided, Shown
<1>2. ASSUME NEW s \in Sources, Publish(s) PROVE IInv'
  BY <1>2, PublishKeeps
<1>3. ASSUME NEW s \in Sources, NEW n \in 1..LastId[s], Correct(s, n) PROVE IInv'
  BY <1>3, CorrectKeeps
<1>4. ASSUME NEW w \in Workers, NEW s \in Sources, Begin(w, s) PROVE IInv'
  BY <1>4, BeginKeeps
<1>5. ASSUME NEW w \in Workers, WorkerStep(w) PROVE IInv'
  <2>1. CASE ReadPage(w)
    BY <2>1, ReadPageKeeps
  <2>2. CASE PageRefused(w) \/ PersistRefused(w)
    BY <2>2, DroppedKeeps DEF PageRefused, PersistRefused, GivesUp
  <2>3. CASE LookUp(w)
    BY <2>3, LookUpKeeps
  <2>4. CASE ReadReplay(w)
    BY <2>4, ReadReplayKeeps
  <2>5. CASE ReadPoints(w)
    BY <2>5, ReadPointsKeeps
  <2>6. CASE Persist(w)
    BY <2>6, PersistKeeps
  <2> QED
    BY <1>5, <2>1, <2>2, <2>3, <2>4, <2>5, <2>6 DEF WorkerStep
<1>6. ASSUME NEW w \in Workers, FetchFails(w) PROVE IInv'
  BY <1>6, DroppedKeeps DEF FetchFails
<1> QED
  BY <1>1, <1>2, <1>3, <1>4, <1>5, <1>6 DEF Next

\* The invariant of ingestion: the stored rows were shown and are numbered in the
\* order of their texts, and a fetch that is not overtaken knows its source
\* (persist_batch, Jin10Source._fetch, ReplaySource.fetch).
THEOREM IngestionInvariant == Spec => []IInv
<1>1. Init => IInv
  BY InitInvariant
<1>2. IInv /\ [Next]_vars => IInv'
  BY StepKeeps
<1> QED
  BY <1>1, <1>2, PTL DEF Spec

\* A later revision is a later text, whatever fetches overlap (persist_batch,
\* Jin10Source._fetch).
THEOREM RevisionsInOrder == Spec => []NoRollback
<1>1. IInv => NoRollback
  BY DEF IInv
<1> QED
  BY <1>1, IngestionInvariant, PTL

\* Nothing before a replay's position is missing (ReplaySource.fetch, persist_batch).
THEOREM ReplayIsComplete == Spec => []NothingSkipped
<1>1. IInv => NothingSkipped
  BY DEF IInv
<1> QED
  BY <1>1, IngestionInvariant, PTL

\* No watermark and no replay's position goes back (persist_batch).
THEOREM NoStepBack == Spec => PositionsMoveForward
<1> DEFINE Forward == \A s \in Sources :
                        /\ checkpoint'[s].watermark >= checkpoint[s].watermark
                        /\ s \in Replays => checkpoint'[s].offset >= checkpoint[s].offset
<1>1. IInv /\ [Next]_vars => [Forward]_vars
  <2> SUFFICES ASSUME IInv, Next PROVE Forward
    OBVIOUS
  <2>1. ASSUME checkpoint' = checkpoint PROVE Forward
    BY <2>1 DEF IInv, Types
  <2>2. ASSUME NEW w \in Workers, Persist(w) PROVE Forward
    BY <2>2, PersistForward
  <2> QED
    BY <2>1, <2>2 DEF Next, Publish, Correct, Begin, WorkerStep, ReadPage, PageRefused, LookUp,
                      ReadReplay, ReadPoints, PersistRefused, GivesUp, FetchFails
<1> QED
  BY <1>1, IngestionInvariant, PTL DEF Spec, PositionsMoveForward

=============================================================================
