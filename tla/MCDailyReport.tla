--------------------------- MODULE MCDailyReport ---------------------------
EXTENDS DailyReport, TLC
CONSTANTS pair, single
TheRule == [name |-> "outage", origin |-> "wire", age |-> 2, severity |-> "important"]
TheRules == {TheRule}
Always == 0..3
TrustedWire == {"wire"}
ThisDay == 1..3
Sheets == [f \in Files |-> IF f = pair THEN <<11, 12>> ELSE <<13>>]
Said(value, asOf) ==
    [basis |-> {"diesel"}, value |-> value, asOf |-> asOf, published |-> {}, period |-> "none", flaws |-> {}]
Lines == [r \in 11..13 |-> CASE r = 11 -> Said(70, 0) [] r = 12 -> Said(72, 1) [] r = 13 -> Said(71, 1)]
Outage == [cues |-> {}, effects |-> {"supply"}, passages |-> {[rule |-> TheRule, clause |-> 1]}]
Denial == [cues |-> {"denial"}, effects |-> {}, passages |-> {}]
Corrected == [k \in NewsIds \X (1..LastRevision) |-> IF k[2] = 1 THEN Outage ELSE Denial]

\* The price comparison, as the code computes it from a sorted list, finds the
\* true change of undisputed quotes (ChangesAreUndisputed is about the others).
Quoted(f, rows) ==
    {[row |-> r, source |-> <<r, 1>>, basis |-> {"diesel"}, value |-> f[r][2], asOf |-> f[r][1],
      published |-> {}, period |-> "none", quality |-> "valid"] : r \in rows}
ASSUME PriceChangeIsTrue ==
    \A f \in [1..3 -> (0..2) \X {70, 71}], rows \in SUBSET (1..3) : rows # {} =>
        LET group == Quoted(f, rows)
            change == PriceChange(group)
        IN  (\A o, p \in group : o.asOf = p.asOf => o.value = p.value) =>
            TrueChange(group) = IF change.verdict = "change" THEN {change.delta} ELSE {}

\* The direction of a daily close is that of its difference when the earlier
\* close is above zero.
ASSUME CloseDirectionIsTrue ==
    \A p \in 1..3, q \in -2..3 :
        LET points == {[at |-> 0, period |-> 1, close |-> p], [at |-> 1, period |-> 1, close |-> q]}
        IN  DailyClose(points, {5}).direction = IF q = p THEN "flat" ELSE IF q > p THEN "up" ELSE "down"
=============================================================================
