----------------------------- MODULE Ingestion -----------------------------
(***************************************************************************)
(* How source records come in: the minute tick queues a poll of a source   *)
(* that is due (runtime/tasks.py), a worker reads the checkpoint, fetches  *)
(* with the source's adapter and stores the batch and the next checkpoint  *)
(* in one transaction (Runtime.ingest, persist_batch).                     *)
(*                                                                         *)
(* Three kinds of adapter: a feed is read page by page from its head and   *)
(* numbers the revisions of an item itself (jin10.py); a replay reads on   *)
(* from its position in a fixed corpus (replay.py); points are the latest  *)
(* few of a series, always revision 1 (eia.py, gnews.py).                  *)
(*                                                                         *)
(* A poll's queueing lock keeps two polls of a source from waiting, not    *)
(* from running: fetches of one source overlap.  Every commit writes a new *)
(* time into the checkpoint, so comparing checkpoints is modelled as what  *)
(* it does: a commit makes every other fetch under way out of date.        *)
(***************************************************************************)
EXTENDS Integers, Sequences, FiniteSets, FiniteSetsExt, SequencesExt

CONSTANTS
    Feeds, Replays, Points,     \* sources, by their adapter
    Workers,
    Corpus,         \* what each source holds at first, a sequence of [id, text]
    LastId,         \* per source, a bound on its items: ids are 1..LastId[s], in order of publication
    LastText,       \* bound on the corrections of an item
    Correctable,    \* bound on the items that are corrected
    PageSize,       \* items on a page of the provider
    MaxPages,       \* pages read in one fetch
    MaxItems,       \* items accepted in one fetch
    MaxFailures     \* bound on failed and killed fetches

Sources == Feeds \cup Replays \cup Points

ASSUME IngestionAssumption ==
    /\ PageSize > 0 /\ MaxPages > 0
    /\ LastId \in [Sources -> Nat]
    /\ Corpus \in [Sources -> Seq([id : Nat, text : Nat])]
    /\ \A s \in Sources : \A n \in DOMAIN Corpus[s] : Corpus[s][n].id <= LastId[s]
    /\ \A s \in Feeds : \A m, n \in DOMAIN Corpus[s] : Corpus[s][m].id = Corpus[s][n].id => m = n
    /\ {LastText, PageSize, MaxPages, MaxItems, MaxFailures} \subseteq Nat
    /\ Feeds \cap Replays = {} /\ Feeds \cap Points = {} /\ Replays \cap Points = {}

VARIABLES
    provider,   \* what each source holds now: newest first, a corpus in order of arrival
    stored,     \* rows of source_records: [source, id, rev, text]
    checkpoint, \* per source: position and watermark
    fetch,      \* what each worker is doing
    failures

vars == <<provider, stored, checkpoint, fetch, failures>>

-----------------------------------------------------------------------------
NoFetch == [step |-> "idle", source |-> "none", expected |-> "current", offset |-> 0, pages |-> 0,
            read |-> {}, batch |-> {}]

Init ==
    /\ provider = Corpus
    /\ stored = {}
    /\ checkpoint = [s \in Sources |-> [offset |-> 0, watermark |-> 0]]
    /\ fetch = [w \in Workers |-> NoFetch]
    /\ failures = 0

Held(s) == {provider[s][n].id : n \in DOMAIN provider[s]}

\* A source publishes, at its head.
Publish(s) ==
    /\ s \notin Replays
    /\ \E id \in 1..LastId[s] :
        /\ id \notin Held(s) /\ \A older \in 1..(id - 1) : older \in Held(s)
        /\ provider' = [provider EXCEPT ![s] = <<[id |-> id, text |-> 1]>> \o @]
    /\ UNCHANGED <<stored, checkpoint, fetch, failures>>

\* A source corrects an item in its place.
Correct(s, n) ==
    /\ s \in Feeds
    /\ n \in DOMAIN provider[s]
    /\ provider[s][n].id \in Correctable /\ provider[s][n].text < LastText
    /\ provider' = [provider EXCEPT ![s][n].text = @ + 1]
    /\ UNCHANGED <<stored, checkpoint, fetch, failures>>

-----------------------------------------------------------------------------
\* The interval of the source has passed since its last success, the tick queued
\* a poll and a worker takes it up: the request is accounted for and the
\* checkpoint is read.  How long a poll waits is left out.
Begin(w, s) ==
    /\ fetch[w].step = "idle"
    /\ fetch' = [fetch EXCEPT ![w] = [NoFetch EXCEPT !.step = "reading", !.source = s,
                                                     !.offset = checkpoint[s].offset]]
    /\ UNCHANGED <<provider, stored, checkpoint, failures>>

GivesUp(w) ==
    /\ fetch' = [fetch EXCEPT ![w] = NoFetch]
    /\ UNCHANGED <<provider, stored, checkpoint, failures>>

\* A fetch that fails or is killed; a poll begins again later, as the queue's
\* retry of a timeout or with the next tick.
FetchFails(w) ==
    /\ fetch[w].step # "idle"
    /\ failures < MaxFailures
    /\ failures' = failures + 1
    /\ fetch' = [fetch EXCEPT ![w] = NoFetch]
    /\ UNCHANGED <<provider, stored, checkpoint>>

-----------------------------------------------------------------------------
\* What a page of a feed shows at an offset.
Page(s, offset) ==
    SubSeq(provider[s], offset + 1, Min({offset + PageSize, Len(provider[s])}))

\* Two pages of one fetch that show one item differently, or more than is accepted.
Refusable(w, page) ==
    \/ Len(page) + Cardinality(fetch[w].read) > MaxItems
    \/ \E x \in ToSet(page), y \in fetch[w].read : x.id = y.id /\ x # y

\* A slip: after the last page the next poll reads the last page again.
StayAtTheEnd(s, offset) ==
    IF offset + PageSize < Len(provider[s]) THEN offset + PageSize ELSE offset

\* Where the next page or the next poll begins: after the last page, at the head.
NextOffset(s, offset) ==
    IF offset + PageSize < Len(provider[s]) THEN offset + PageSize ELSE 0

ReadPage(w) ==
    LET s == fetch[w].source
        page == Page(s, fetch[w].offset)
        next == NextOffset(s, fetch[w].offset)
    IN  /\ fetch[w].step = "reading" /\ s \in Feeds
        /\ ~Refusable(w, page)
        /\ fetch' = [fetch EXCEPT ![w] = [@ EXCEPT
                       !.step = IF fetch[w].offset + PageSize < Len(provider[s])
                                   /\ fetch[w].pages + 1 < MaxPages THEN "reading" ELSE "read",
                       !.offset = next,
                       !.pages = fetch[w].pages + 1,
                       !.read = fetch[w].read \cup ToSet(page)]]
        /\ UNCHANGED <<provider, stored, checkpoint, failures>>

PageRefused(w) ==
    /\ fetch[w].step = "reading" /\ fetch[w].source \in Feeds
    /\ Refusable(w, Page(fetch[w].source, fetch[w].offset))
    /\ GivesUp(w)

Versions(s, id) == {r \in stored : r.source = s /\ r.id = id}

\* latest_source_record
Latest(s, id) == {r \in Versions(s, id) : \A o \in Versions(s, id) : o.rev <= r.rev}

\* An item of a feed: the stored revision itself when it says the same, or else
\* the revision after it.
Candidate(s, item) ==
    IF \E r \in Latest(s, item.id) : r.text = item.text
    THEN [row |-> CHOOSE r \in Latest(s, item.id) : TRUE, kept |-> "yes"]
    ELSE [row |-> [source |-> s, id |-> item.id, text |-> item.text,
                   rev |-> 1 + Cardinality(Versions(s, item.id))],
          kept |-> "no"]

\* The items are compared with what is committed now.
LookUp(w) ==
    /\ fetch[w].step = "read"
    /\ fetch' = [fetch EXCEPT ![w] = [@ EXCEPT
                   !.step = "ready", !.read = {}, !.pages = 0,
                   !.batch = {Candidate(fetch[w].source, item) : item \in fetch[w].read}]]
    /\ UNCHANGED <<provider, stored, checkpoint, failures>>

-----------------------------------------------------------------------------
\* A replay reads on from its position; a row it has read before is the same row.
ReplayEnd(s, offset) == Min({offset + PageSize * MaxPages, Len(provider[s])})

\* A slip: the record at the position is taken for read.
SelectedAfter(s, offset) == SubSeq(provider[s], offset + 2, ReplayEnd(s, offset))

Selected(s, offset) == SubSeq(provider[s], offset + 1, ReplayEnd(s, offset))

ReadReplay(w) ==
    LET s == fetch[w].source
    IN  /\ fetch[w].step = "reading" /\ s \in Replays
        /\ fetch' = [fetch EXCEPT ![w] = [@ EXCEPT
                       !.step = "ready",
                       !.offset = ReplayEnd(s, fetch[w].offset),
                       !.batch = {[row |-> [source |-> s, id |-> x.id, text |-> x.text, rev |-> x.text],
                                   kept |-> "yes"] : x \in ToSet(Selected(s, fetch[w].offset))}]]
        /\ UNCHANGED <<provider, stored, checkpoint, failures>>

\* The latest points of a series, as many as are asked for.
LatestPoints(s) == SubSeq(provider[s], 1, Min({MaxItems, Len(provider[s])}))

\* A point is always revision 1, discovered now, whatever is stored.
PointRow(s, x) == [row |-> [source |-> s, id |-> x.id, text |-> x.text, rev |-> 1], kept |-> "no"]

ReadPoints(w) ==
    LET s == fetch[w].source
    IN  /\ fetch[w].step = "reading" /\ s \in Points
        /\ fetch' = [fetch EXCEPT ![w] = [@ EXCEPT
                       !.step = "ready",
                       !.batch = {PointRow(s, x) : x \in ToSet(LatestPoints(s))}]]
        /\ UNCHANGED <<provider, stored, checkpoint, failures>>

-----------------------------------------------------------------------------
\* A slip: the checkpoint the fetch began with is not compared.
NotCompared(w) == fetch[w].step = "ready"

\* persist_batch: the checkpoint is still the one the fetch began with.
Unchanged(w) == fetch[w].expected = "current"

\* _insert_record: a stored revision is immutable, down to the time of its discovery.
Immutable(w) ==
    \A c \in fetch[w].batch :
        (\E r \in stored : r.source = c.row.source /\ r.id = c.row.id /\ r.rev = c.row.rev)
            => c.row \in stored /\ c.kept = "yes"

\* A slip: the watermark of the last batch alone.
BatchWatermark(w) == Max({c.row.id : c \in fetch[w].batch} \cup {0})

\* The latest publication seen so far.
Watermark(w) ==
    Max({c.row.id : c \in fetch[w].batch} \cup {checkpoint[fetch[w].source].watermark})

\* The batch and its checkpoint are one transaction.
Persist(w) ==
    LET s == fetch[w].source
    IN  /\ fetch[w].step = "ready" /\ Unchanged(w) /\ Immutable(w)
        /\ stored' = stored \cup {c.row : c \in fetch[w].batch}
        /\ checkpoint' = [checkpoint EXCEPT ![s] =
                            [offset |-> fetch[w].offset, watermark |-> Watermark(w)]]
        /\ fetch' = [v \in Workers |->
                        IF v = w THEN NoFetch
                        ELSE IF fetch[v].step # "idle" /\ fetch[v].source = s
                        THEN [fetch[v] EXCEPT !.expected = "overtaken"] ELSE fetch[v]]
        /\ UNCHANGED <<provider, failures>>

\* Nothing of a refused batch is stored; the job is not retried.
PersistRefused(w) ==
    /\ fetch[w].step = "ready" /\ ~(Unchanged(w) /\ Immutable(w))
    /\ GivesUp(w)

-----------------------------------------------------------------------------
WorkerStep(w) ==
    \/ ReadPage(w)
    \/ PageRefused(w)
    \/ LookUp(w)
    \/ ReadReplay(w)
    \/ ReadPoints(w)
    \/ Persist(w)
    \/ PersistRefused(w)

Next ==
    \/ \E s \in Sources : Publish(s)
    \/ \E s \in Sources : \E n \in 1..LastId[s] : Correct(s, n)
    \/ \E w \in Workers, s \in Sources : Begin(w, s)
    \/ \E w \in Workers : WorkerStep(w)
    \/ \E w \in Workers : FetchFails(w)

Spec == Init /\ [][Next]_vars

\* The tick runs every minute and the queue is first in, first out: a poll of
\* every source begins again and again though workers are taken by others.  A
\* fetch that has begun goes on or ends.
Fairness ==
    /\ \A s \in Sources : SF_vars(\E w \in Workers : Begin(w, s))
    /\ \A w \in Workers : WF_vars(WorkerStep(w))

FairSpec == Spec /\ Fairness

-----------------------------------------------------------------------------
TypeOK ==
    /\ \A s \in Sources : /\ provider[s] \in Seq([id : 1..LastId[s], text : 1..LastText])
                          /\ checkpoint[s] \in [offset : 0..LastId[s] * LastText, watermark : 0..LastId[s]]
    /\ \A w \in Workers : /\ fetch[w].step \in {"idle", "reading", "read", "ready"}
                          /\ fetch[w].source \in Sources \cup {"none"}
                          /\ fetch[w].expected \in {"current", "overtaken"}
    /\ failures \in 0..MaxFailures

\* Revisions follow the provider: a later revision of an item is a later text,
\* however fetches overlap; an outdated page never comes back as a correction
\* (persist_batch, Jin10Source._fetch).
NoRollback ==
    \A r, q \in stored :
        r.source = q.source /\ r.id = q.id /\ r.rev < q.rev => r.text < q.text

\* A replay's position says what is stored: nothing before it was skipped
\* (ReplaySource.fetch with persist_batch).
NothingSkipped ==
    \A s \in Replays : \A n \in 1..checkpoint[s].offset :
        \E r \in stored : /\ r.source = s /\ r.id = provider[s][n].id
                          /\ r.text = provider[s][n].text

\* Neither a replay's position nor any watermark ever goes back, so no slow fetch
\* makes the next one repeat or miss anything (persist_batch).
PositionsMoveForward ==
    [][\A s \in Sources :
          /\ checkpoint'[s].watermark >= checkpoint[s].watermark
          /\ s \in Replays => checkpoint'[s].offset >= checkpoint[s].offset]_vars

\* Sooner or later the latest stored revision of every item is what its source
\* says, and stays so: paging, corrections behind the page being read, refused
\* and failed fetches only delay it (ingest_tick, Jin10Source._fetch).
CaughtUp ==
    <>[](\A s \in Sources : \A n \in DOMAIN provider[s] :
            \E r \in stored : /\ r.source = s /\ r.id = provider[s][n].id
                              /\ r.text = provider[s][n].text)

=============================================================================
