--------------------------- MODULE ReportContent ---------------------------
(***************************************************************************)
(* What the daily report says of a snapshot: SnapshotReportService.build    *)
(* (reporting/service.py) and the price comparisons it uses                *)
(* (intelligence/price_alert.py, comparison_key of ingestion/quotes.py).   *)
(* Pure: nothing here has state.  A statement is abstracted to the records *)
(* or quotes it rests on; its wording is left out.                         *)
(***************************************************************************)
EXTENDS Judgement, SequencesExt

CONSTANT
    Today       \* the times of the report's business date

-----------------------------------------------------------------------------
Keys(records) == {<<r.id, r.rev>> : r \in records}

\* The newest revision of every record known by the cutoff, usable or not: "an
\* unusable correction must not revive an earlier assertion".
KnownBy(records, cutoff) == Newest({r \in records : r.discovered <= cutoff})

\* Those of them that are usable.
Available(records, cutoff) ==
    {r \in KnownBy(records, cutoff) : r.quality = "valid" /\ ~Future(r, cutoff)}

\* The newest version of every event that had been assessed by the cutoff.
CurrentEvents(events, cutoff) ==
    LET assessed == {e \in events : e.at <= cutoff}
    IN  {e \in assessed : \A o \in assessed : o.event = e.event => o.version <= e.version}

Supported(e, available) == e.verdict.cites \subseteq Keys(available)

Reliable(verdict) ==
    /\ verdict.standing \in {"credible_single_source", "independent_multi_source"}
    /\ verdict.status = "occurred"

\* An event whose impact may be discussed: reliable, and no cited text lowers it.
Usable(e, available, cutoff) ==
    /\ Supported(e, available)
    /\ Reliable(e.verdict)
    /\ \A r \in available : <<r.id, r.rev>> \in e.verdict.cites =>
            Guarded(r, "occurred", cutoff) = "occurred"

\* The statements quoted as facts, the ones an impact is derived from and the
\* ones put on the watch list.
Facts(events, available) == UNION {e.verdict.cites : e \in {x \in events : Supported(x, available)}}

Affecting(e, available) ==
    {<<r.id, r.rev>> : r \in {x \in available : x.effects # {} /\ <<x.id, x.rev>> \in e.verdict.cites}}

Impacts(events, available, cutoff) ==
    UNION {Affecting(e, available) : e \in {x \in events : Usable(x, available, cutoff)}}

\* Everything still to be verified: events not usable, impacts and what a single
\* publisher says.
Watched(events, available, cutoff) ==
    Impacts(events, available, cutoff) \cup
    UNION {e.verdict.cites : e \in {x \in events :
        /\ Supported(x, available)
        /\ ~Usable(x, available, cutoff) \/ x.verdict.standing # "independent_multi_source"}}

-----------------------------------------------------------------------------
\* Observations that may be used: the exact row they were read from is
\* available, and neither they nor their publication lie after the cutoff.
Grounded(observations, available, cutoff) ==
    {o \in observations : /\ o.source \in Keys(available)
                          /\ o.asOf <= cutoff
                          /\ \A t \in o.published : t <= cutoff
                          /\ o.quality # "invalid"}

\* comparison_key: quotes are compared only on a complete basis; {} is none.
ComparisonKey(o) ==
    IF o.period # "none" \/ o.quality \in {"invalid", "incomplete"} THEN {} ELSE o.basis

Groups(observations) == UNION {ComparisonKey(o) : o \in observations}

GroupOf(k, observations) == {o \in observations : k \in ComparisonKey(o)}

Earlier(o, p) == o.asOf < p.asOf \/ (o.asOf = p.asOf /\ o.row < p.row)

\* A slip: quotes of one time that differ go unnoticed.
NeverDisputed(o, group) == FALSE

\* Another quote of the same time says something else.
Disputed(o, group) == \E p \in group : p.asOf = o.asOf /\ p.value # o.value

Latest(group) == CHOOSE o \in group : \A p \in group : p = o \/ Earlier(p, o)

\* The latest quote of a group against the last one of an earlier time.  The
\* result is the rows compared and the difference, or why there is none.
PriceChange(group) ==
    LET latest == Latest(group)
        earlier == {o \in group : o.asOf < latest.asOf}
        before == Latest(earlier)
    IN  IF latest.asOf \notin Today \/ latest.quality # "valid"
        THEN [verdict |-> "stale", delta |-> 0, rows |-> {latest.row}]
        ELSE IF Disputed(latest, group) \/ (earlier # {} /\ Disputed(before, group))
        THEN [verdict |-> "conflict", delta |-> 0, rows |-> {latest.row}]
        ELSE IF earlier = {}
        THEN [verdict |-> "first", delta |-> 0, rows |-> {latest.row}]
        ELSE [verdict |-> "change", delta |-> latest.value - before.value,
              rows |-> {latest.row, before.row}]

\* What a change of price is: the difference of the one value of the latest time,
\* which must be today, and the one value of the time before it.
TrueChange(group) ==
    LET times == {o.asOf : o \in group}
        values(t) == {o.value : o \in {p \in group : p.asOf = t}}
        latest == CHOOSE t \in times : \A u \in times : u <= t
        earlier == times \ {latest}
        before == CHOOSE t \in earlier : \A u \in earlier : u <= t
    IN  IF /\ latest \in Today /\ earlier # {}
           /\ Cardinality(values(latest)) = 1 /\ Cardinality(values(before)) = 1
        THEN {v - w : v \in values(latest), w \in values(before)} ELSE {}

-----------------------------------------------------------------------------
\* _latest_two and assess_price_change: the last two daily closes of a series,
\* as a fraction of the earlier one in percent; a close of zero has none.
CloseOrder(p, q) == p.at < q.at \/ (p.at = q.at /\ p.period < q.period)

DailyClose(points, threshold) ==
    LET ordered == SetToSortSeq(points, CloseOrder)
        latest == ordered[Len(ordered)]
        previous == ordered[Len(ordered) - 1]
        move == latest.close - previous.close
        size == IF move < 0 THEN -move ELSE move
        base == IF previous.close < 0 THEN -previous.close ELSE previous.close
    IN  IF Cardinality(points) < 2 \/ previous.close = 0
        THEN [verdict |-> "incomparable", direction |-> "none", urgent |-> "no"]
        ELSE [verdict |-> "change",
              direction |-> IF move = 0 THEN "flat"
                            ELSE IF (move > 0) = (previous.close > 0) THEN "up" ELSE "down",
              urgent |-> IF threshold # {} /\ \A t \in threshold : size * 100 >= t * base
                         THEN "yes" ELSE "no"]

-----------------------------------------------------------------------------
\* The report of a snapshot.
Content(records, events, observations, cutoff) ==
    LET available == Available(records, cutoff)
        current == CurrentEvents(events, cutoff)
        quotes == Grounded(observations, available, cutoff)
    IN  [cutoff |-> cutoff,
         facts |-> Facts(current, available),
         impacts |-> Impacts(current, available, cutoff),
         watched |-> Watched(current, available, cutoff),
         changes |-> {PriceChange(GroupOf(k, quotes)) : k \in Groups(quotes)}]

=============================================================================
