------------------------------- MODULE Quotes -------------------------------
(***************************************************************************)
(* Uploaded quotes: an administrator uploads a file, gets a preview of its *)
(* rows and imports it (ingestion/quotes.py, ingestion/parser.py,          *)
(* Runtime.quote_preview, save_preview and import_preview of               *)
(* storage/queries.py).                                                    *)
(*                                                                         *)
(* The identity of a row is a digest of the whole file and the row's       *)
(* place in it: only the same file uploaded again has the same rows.  An   *)
(* import is one transaction, under the lock of the preview and of the     *)
(* source of the rows.  A request refused because its user may not make it *)
(* changes nothing (who may is part of Sessions).  The clock belongs to    *)
(* the module that composes.                                               *)
(***************************************************************************)
EXTENDS Integers, FiniteSets, FiniteSetsExt, Sequences

CONSTANTS
    Files,          \* uploads, by the digest of their bytes and the mapping of their columns
    Sheet,          \* the rows of each file, in order: numbers
    Line,           \* what each row says: [basis, value, asOf, published, period, flaws]
    Previews        \* bound on the previews ever made: numbers, given in order

VARIABLES
    previews,   \* the quote_previews table
    quotes      \* per row, its source record and its observation

quoteVars == <<previews, quotes>>

Rows == UNION {{Sheet[f][n] : n \in DOMAIN Sheet[f]} : f \in Files}

ASSUME QuotesAssumption ==
    /\ Rows \subseteq Nat /\ Previews \subseteq Nat
    /\ IsFiniteSet(Rows) /\ IsFiniteSet(Previews)
    /\ \A r \in Rows : Line[r].asOf \in Int /\ Line[r].published \subseteq Int
    /\ \A f, g \in Files : f # g => {Sheet[f][n] : n \in DOMAIN Sheet[f]}
                                        \cap {Sheet[g][n] : n \in DOMAIN Sheet[g]} = {}

NoPreview == [state |-> "none", file |-> "none", discovered |-> 0, inserted |-> 0]

NoQuote == [state |-> "absent", quality |-> "valid", discovered |-> 0, stored |-> 0]

QuotesInit ==
    /\ previews = [p \in Previews |-> NoPreview]
    /\ quotes = [r \in Rows |-> NoQuote]

-----------------------------------------------------------------------------
\* preview_quotes: what is wrong with the n-th row of a file, its own flaws and
\* being the repetition of an earlier row.
RowErrors(f, n) ==
    Line[Sheet[f][n]].flaws \cup
    {"duplicate_row" : m \in {k \in 1..(n - 1) : [Line[Sheet[f][k]] EXCEPT !.flaws = {}]
                                               = [Line[Sheet[f][n]] EXCEPT !.flaws = {}]}}

\* A preview can be imported when it has rows and no row has an error.
CanImport(f) == Sheet[f] # <<>> /\ \A n \in DOMAIN Sheet[f] : RowErrors(f, n) = {}

\* A row that speaks of a time after its upload is kept, but never used.
RowQuality(r, discovered) ==
    IF \E t \in {Line[r].asOf} \cup Line[r].published : t > discovered
    THEN "future_quarantined" ELSE "valid"

\* save_preview
Preview(p, f, now) ==
    /\ previews[p].state = "none" /\ \A o \in Previews : o < p => previews[o].state # "none"
    /\ previews' = [previews EXCEPT ![p] = [NoPreview EXCEPT !.state = "open", !.file = f,
                                                             !.discovered = now]]
    /\ UNCHANGED quotes

RowsOf(p) == {Sheet[previews[p].file][n] : n \in DOMAIN Sheet[previews[p].file]}

\* _insert_record with rediscovered=True: a stored row must say the same, apart
\* from the time of its discovery.
Agrees(p, r) ==
    quotes[r].state = "absent" \/ quotes[r].quality = RowQuality(r, previews[p].discovered)

\* The rows of a preview that are not stored yet.
NewRows(p) == {r \in RowsOf(p) : quotes[r].state = "absent"}

\* import_preview, of a preview that was not imported before.
Import(p, now) ==
    /\ previews[p].state = "open"
    /\ CanImport(previews[p].file)
    /\ \A r \in RowsOf(p) : Agrees(p, r)
    /\ quotes' = [r \in Rows |->
                    IF r \in RowsOf(p) /\ quotes[r].state = "absent"
                    THEN [state |-> "stored", quality |-> RowQuality(r, previews[p].discovered),
                          discovered |-> previews[p].discovered, stored |-> now]
                    ELSE quotes[r]]
    /\ previews' = [previews EXCEPT ![p] = [NoPreview EXCEPT !.state = "imported",
                                                             !.inserted = Cardinality(NewRows(p))]]

\* A slip: an import that is repeated counts again, and finds every row stored.
ImportAnew(p) ==
    /\ previews[p].state = "imported"
    /\ previews' = [previews EXCEPT ![p].inserted = 0]
    /\ UNCHANGED quotes

\* import_preview, repeated: the answer of the first import is returned.
ImportAgain(p) ==
    /\ previews[p].state = "imported"
    /\ UNCHANGED quoteVars

\* Fifteen minutes after it was made.
PreviewExpires(p) ==
    /\ previews[p].state = "open"
    /\ previews' = [previews EXCEPT ![p] = [NoPreview EXCEPT !.state = "expired"]]
    /\ UNCHANGED quotes

-----------------------------------------------------------------------------
\* The source record and the observation of a stored row, as a report reads them.
QuoteRecord(r) ==
    [id |-> r, rev |-> 1, origin |-> "upload", quality |-> quotes[r].quality,
     published |-> Line[r].published, occurred |-> {}, provided |-> {},
     discovered |-> quotes[r].discovered, cues |-> {}, effects |-> {}, passages |-> {}]

Observation(r) ==
    [row |-> r, source |-> <<r, 1>>, basis |-> Line[r].basis, value |-> Line[r].value,
     asOf |-> Line[r].asOf, published |-> Line[r].published, period |-> Line[r].period,
     quality |-> IF quotes[r].quality # "valid" THEN "invalid"
                 ELSE IF Line[r].basis = {} THEN "incomplete" ELSE "valid"]

StoredQuotes == {r \in Rows : quotes[r].state = "stored"}

-----------------------------------------------------------------------------
\* What the imports last answered adds up to what is stored: a file uploaded
\* twice, an import repeated after its answer was lost and two previews of one
\* file count no row twice and lose none (import_preview's immutable rows).
ImportsAddUp ==
    MapThenSumSet(LAMBDA p : previews[p].inserted, Previews) = Cardinality(StoredQuotes)

=============================================================================
