------------------------------ MODULE FillLedger ------------------------------
(***************************************************************************)
(* The fill ledger behind CSV imports: app/src/lib/csv-fill-ledger.ts, fed  *)
(* by parseStatementBatch of frontend/engine.js and reduced to trades by    *)
(* PositionCycles.  An account has a history of executions that no one      *)
(* sees; a user imports statements of parts of it, in any order, with and   *)
(* without exchange identifiers, listed oldest or newest first, and the     *)
(* ledger merges each statement or refuses it as a whole.                   *)
(*                                                                         *)
(* A row of a statement carries the ghost field exec, the execution it      *)
(* reports; no operator of the program reads it.  A digest is the content   *)
(* it is the digest of.  The capabilities of a statement are cut to the     *)
(* execution-order marker (trusted) and pnlReported.  Size limits and the   *)
(* account scope (one account here) are not modelled.                       *)
(***************************************************************************)
EXTENDS PositionCycles

CONSTANTS
    Histories,      \* the account histories considered: sequences of executions
                    \* [id, time, book, side, qty, price, fee, asset, pnl]
    Kinds,          \* the kinds of statement: [exact, ids, newestFirst, doubled, damaged]
    MaxBatches      \* bound on the statements a ledger keeps

\* Executions are numbered in time, and within a symbol the exchange's identifiers ascend with them.
ASSUME HistoriesAssumption ==
    \A h \in Histories :
        /\ Len(h) \in Nat /\ DOMAIN h = 1..Len(h)
        /\ \A i \in DOMAIN h : h[i].time \in Int /\ h[i].id \in Int
        /\ \A i, j \in DOMAIN h :
              i < j => /\ h[i].time <= h[j].time
                       /\ h[i].book[1] = h[j].book[1] => h[i].id < h[j].id

\* A statement that repeats a row says so: without an identifier two equal rows are two executions.
ASSUME KindsAssumption == \A kind \in Kinds : kind.doubled => kind.ids # "none"

VARIABLES
    history,        \* the history of the account
    ledger,         \* the CsvFillLedger of the session, or NoLedger
    trades          \* the trades on display

csvVars == <<history, ledger, trades>>

NoLedger == [batches |-> <<>>, fills |-> {}]

NoId == <<>>

-------------------------------------------------------------------------------
(* Statements and how the engine reads them                                *)

\* rowsToFills: the fill of a row, its Trade Id kept as the opaque text of the file ("7" and "07"
\* are two texts of one number), its result null without a column for it.
RowOf(e, kind) ==
    [exec |-> e,
     id   |-> IF kind.ids = "none" THEN NoId
              ELSE <<history[e].id, IF kind.ids = "padded" THEN 1 ELSE 0>>,
     num  |-> history[e].id,
     time |-> history[e].time, book |-> history[e].book, side |-> history[e].side,
     qty  |-> history[e].qty, price |-> history[e].price, fee |-> history[e].fee,
     pnl  |-> IF kind.exact THEN history[e].pnl ELSE NoPnl]

\* The numbers of a set in order.
Ascending(S) ==
    [n \in 1..Cardinality(S) |-> CHOOSE i \in S : Cardinality({j \in S : j < i}) = n - 1]

\* A statement covers every execution of a period, in the order of its exporter.
Listed(lo, hi, kind) ==
    LET covered == Ascending({e \in DOMAIN history : history[e].time >= lo /\ history[e].time <= hi})
        listed  == IF kind.newestFirst THEN Reverse(covered) ELSE covered
    IN  IF kind.doubled /\ listed # <<>> THEN Append(listed, listed[1]) ELSE listed

\* sniffHeader: only the exact USD-M header with a Trade Id column orders executions.
TrustedHeader(kind) == kind.exact /\ kind.ids # "none"

\* parseStatementBatch: the fills of the readable rows (a damaged file loses its first row) and what
\* the file is evidence of.
Statement(lo, hi, kind) ==
    LET listed == Listed(lo, hi, kind)
        read   == IF kind.damaged THEN Tail(listed) ELSE listed
    IN  [rows     |-> [i \in DOMAIN read |-> RowOf(read[i], kind)],
         evidence |-> [trusted |-> TrustedHeader(kind), pnlReported |-> kind.exact],
         dropped  |-> IF kind.damaged THEN 1 ELSE 0]

ReportTimes == {history[e].time : e \in DOMAIN history}

Statements ==
    {Statement(p[1], p[2], kind) :
        p \in {q \in ReportTimes \X ReportTimes : q[1] <= q[2]}, kind \in Kinds}

-------------------------------------------------------------------------------
(* The ledger                                                              *)

\* fillDigestShape
Content(row) == [id |-> row.id, time |-> row.time, book |-> row.book, side |-> row.side,
                 qty |-> row.qty, price |-> row.price, fee |-> row.fee, pnl |-> row.pnl]

DigestOf(rows) == [i \in DOMAIN rows |-> Content(rows[i])]

\* providerKey: the symbol and the opaque identifier.
ProviderKey(row) == <<row.book[1], row.id>>

PointOfIdentifier(row) == <<row.time, row.book, row.id>>        \* mutant: an identifier is a point

\* The execution point of a fill: nothing orders two fills of a point but their identifiers.
Point(row) == <<row.time, row.book>>

\* sourceRef: the identity of a stored fill.
SourceRef(row, digest, i) ==
    IF row.id # NoId THEN [key |-> ProviderKey(row), batch |-> <<>>, row |-> 0]
    ELSE [key |-> <<>>, batch |-> digest, row |-> i]

Stored(row, digest, i) ==
    [exec |-> row.exec, id |-> row.id, num |-> row.num, time |-> row.time, book |-> row.book,
     side |-> row.side, qty |-> row.qty, price |-> row.price, fee |-> row.fee,
     pnl |-> row.pnl, batch |-> digest, row |-> i, ref |-> SourceRef(row, digest, i)]

Digests(l) == {l.batches[k].digest : k \in DOMAIN l.batches}

EvidenceOf(l, digest) ==
    (CHOOSE b \in ToSet(l.batches) : b.digest = digest).evidence

\* intervalsOf: the closed period each position book of these rows spans.
IntervalsOf(rows) ==
    LET of(b) == {rows[i].time : i \in {j \in DOMAIN rows : rows[j].book = b}}
    IN  {[book |-> b, min |-> Min(of(b)), max |-> Max(of(b))] :
            b \in {rows[i].book : i \in DOMAIN rows}}

IntervalsOverlap(left, right) ==
    \E a \in left, b \in right : a.book = b.book /\ a.min <= b.max /\ b.min <= a.max

\* A fill whose identifier may be compared across statements: decimal, from a trusted statement.
Ordering(l, fill) == fill.id # NoId /\ EvidenceOf(l, fill.batch).trusted

AtPoint(l, point) == {f \in l.fills : Point(f) = point}

UniquelyOrdered(l, fills) ==
    /\ \A f \in fills : Ordering(l, f)
    /\ \A f, g \in fills : f # g => f.num # g.num

\* executionOrderedFills refuses a point several statements contribute to without a common order.
OrderAmbiguous(l) ==
    \E f \in l.fills :
        /\ \E g \in AtPoint(l, Point(f)) : g.batch # f.batch
        /\ ~UniquelyOrdered(l, AtPoint(l, Point(f)))

\* mutant: rows are taken in the order of the file
PrecedesByRow(l, f, g) == f.time < g.time \/ (f.time = g.time /\ f.row < g.row)

\* executionOrderedFills: by time; within a point by identifier when it is a common order, else by row.
Precedes(l, f, g) ==
    \/ f.time < g.time
    \/ /\ f.time = g.time
       /\ IF UniquelyOrdered(l, AtPoint(l, Point(f))) THEN f.num < g.num ELSE f.row < g.row

ExecutionOrdered(l, book) ==
    SetToSortSeq({f \in l.fills : f.book = book}, LAMBDA f, g : Precedes(l, f, g))

\* replayCsvFillLedger: the closed trades of the whole ledger, named by their lineage.
Replayed(l) ==
    UNION {NetBook(ExecutionOrdered(l, b), b).closed : b \in {f.book : f \in l.fills}}

\* normalizeCsvFillLedger: the structure every stored ledger has.
WellFormed(l) ==
    /\ l.batches # <<>>
    /\ Cardinality(Digests(l)) = Len(l.batches)
    /\ \A k \in DOMAIN l.batches :
          {l.batches[k].plan[i].new : i \in DOMAIN l.batches[k].plan} \ {0}
              = DOMAIN l.batches[k].rows
    /\ \A f \in l.fills :
          \E k \in DOMAIN l.batches :
              l.batches[k].digest = f.batch /\ f.row \in DOMAIN l.batches[k].rows
    /\ \A f, g \in l.fills :
          f # g => /\ f.ref # g.ref
                   /\ f.id = NoId \/ g.id = NoId \/ ProviderKey(f) # ProviderKey(g)

-------------------------------------------------------------------------------
(* Merging a statement (mergeInternal)                                     *)

KnownFill(l, row) == {f \in l.fills : row.id # NoId /\ f.id # NoId
                                      /\ ProviderKey(f) = ProviderKey(row)}

\* The first row of the statement with the same identifier.
FirstOf(rows, i) ==
    IF rows[i].id = NoId THEN i
    ELSE Min({j \in 1..i : rows[j].id # NoId /\ ProviderKey(rows[j]) = ProviderKey(rows[i])})

\* PROVIDER_TRADE_ID_CONFLICT: one identifier, two contents.
ProviderConflict(l, rows) ==
    \E i \in DOMAIN rows :
        \/ Content(rows[i]) # Content(rows[FirstOf(rows, i)])
        \/ \E f \in KnownFill(l, rows[i]) : Content(f) # Content(rows[i])

NewIndexes(l, rows) ==
    Ascending({i \in DOMAIN rows : KnownFill(l, rows[i]) = {} /\ FirstOf(rows, i) = i})

NewRows(l, rows) ==
    LET new == NewIndexes(l, rows) IN [k \in DOMAIN new |-> rows[new[k]]]

\* rowPlan: each row of the statement is a fill of an earlier statement or one of its own new rows.
RowPlan(l, rows) ==
    LET new == NewIndexes(l, rows)
    IN  [i \in DOMAIN rows |->
            IF KnownFill(l, rows[i]) # {}
            THEN [old |-> {f.ref : f \in KnownFill(l, rows[i])}, new |-> 0]
            ELSE [old |-> {},
                  new |-> CHOOSE k \in DOMAIN new : new[k] = FirstOf(rows, i)]]

\* AMBIGUOUS_EXECUTION_ORDER: a new fill joins a point of the ledger without a common order.
PointAmbiguous(l, s) ==
    \E row \in ToSet(NewRows(l, s.rows)) :
        LET there == AtPoint(l, Point(row))
        IN  /\ there # {}
            /\ \/ \E f \in there : ~Ordering(l, f) \/ f.num = row.num
               \/ row.id = NoId \/ ~s.evidence.trusted

Unidentified(rows) == \E i \in DOMAIN rows : rows[i].id = NoId

\* AMBIGUOUS_NO_ID_OVERLAP: fills without identifiers may be those of the other statement.
NoIdOverlap(l, rows) ==
    \E b \in ToSet(l.batches) :
        /\ Unidentified(rows) \/ b.unidentified
        /\ IntervalsOverlap(IntervalsOf(rows), b.intervals)

\* mergeSameBatchEvidence: a statement seen twice keeps what both copies prove.
BothProve(a, b) == [trusted |-> a.trusted /\ b.trusted,
                    pnlReported |-> a.pnlReported /\ b.pnlReported]

Downgraded(l, digests, evidence) ==
    [l EXCEPT !.batches =
        [k \in DOMAIN l.batches |->
            LET b == l.batches[k]
            IN  IF b.digest \in digests
                THEN [b EXCEPT !.evidence = BothProve(b.evidence, evidence)]
                ELSE b]]

\* The statements whose fills this one repeats.
Touched(l, rows) == UNION {{f.batch : f \in KnownFill(l, rows[i])} : i \in DOMAIN rows}

\* mutant: the period of a statement is that of all its rows, not of the rows it adds
AppendedWholePeriod(l, s) ==
    LET digest == DigestOf(s.rows)
        new    == NewRows(l, s.rows)
    IN  [batches |-> Append(l.batches,
            [digest |-> digest, rows |-> new, plan |-> RowPlan(l, s.rows),
             unidentified |-> Unidentified(new), intervals |-> IntervalsOf(s.rows),
             evidence |-> s.evidence]),
         fills |-> l.fills \cup {Stored(new[i], digest, i) : i \in DOMAIN new}]

\* A statement with new rows becomes a batch of its own, its new rows fills of the ledger.
Appended(l, s) ==
    LET digest == DigestOf(s.rows)
        new    == NewRows(l, s.rows)
    IN  [batches |-> Append(l.batches,
            [digest |-> digest, rows |-> new, plan |-> RowPlan(l, s.rows),
             unidentified |-> Unidentified(new), intervals |-> IntervalsOf(new),
             evidence |-> s.evidence]),
         fills |-> l.fills \cup {Stored(new[i], digest, i) : i \in DOMAIN new}]

\* EMPTY_BATCH and assertCompleteBatch: a statement with a dropped row is refused as a whole.
Complete(s) == s.rows # <<>> /\ s.dropped = 0

\* The statement is a copy of one in the ledger, or adds no row to it.
Repeated(l, s) == DigestOf(s.rows) \in Digests(l)

AddsNothing(l, s) == l # NoLedger /\ NewRows(l, s.rows) = <<>>

\* What the ledger becomes.
MergedLedger(l, s) ==
    IF Repeated(l, s) THEN Downgraded(l, {DigestOf(s.rows)}, s.evidence)
    ELSE IF AddsNothing(l, s) THEN Downgraded(l, Touched(l, s.rows), s.evidence)
    ELSE Appended(l, s)

\* The refusals before a ledger is built.  A copy of a statement is not looked at again.
Admissible(l, s) ==
    \/ Repeated(l, s)
    \/ /\ ~ProviderConflict(l, s.rows)
       /\ l # NoLedger => ~PointAmbiguous(l, s)
       /\ AddsNothing(l, s) \/ ~NoIdOverlap(l, NewRows(l, s.rows))

\* The refusals of the built ledger: its structure, its execution order, and the trades on display
\* (assertHistoricalSubset), each of which must be there unchanged.
Acceptable(next) ==
    /\ WellFormed(next)
    /\ ~OrderAmbiguous(next)
    /\ trades \subseteq Replayed(next)

CsvInit ==
    /\ history \in Histories
    /\ ledger = NoLedger
    /\ trades = {}

\* The ledgers an import can leave behind: a refused statement leaves none.
Imports ==
    {next \in {MergedLedger(ledger, s) :
                   s \in {t \in Statements : Complete(t) /\ Admissible(ledger, t)}} :
        Len(next.batches) <= MaxBatches /\ Acceptable(next)}

\* setImported with fills: mergeCsvFillBatch, or createCsvFillLedger for the first statement.  A
\* refused statement changes nothing.
Import(next) ==
    /\ ledger' = next
    /\ trades' = Replayed(next)
    /\ UNCHANGED history

CsvNext == \E next \in Imports : Import(next)

CsvSpec == CsvInit /\ [][CsvNext]_csvVars

-------------------------------------------------------------------------------
(* Reopening a saved ledger (verifyCsvFillLedgerIntegrity)                  *)

\* The rows of a statement, rebuilt from its own new rows and the fills of earlier statements.
Rebuilt(l, k) ==
    LET earlier == {f \in l.fills : \E j \in 1..(k - 1) : l.batches[j].digest = f.batch}
        b       == l.batches[k]
    IN  [i \in DOMAIN b.plan |->
            IF b.plan[i].new # 0 THEN {Content(b.rows[b.plan[i].new])}
            ELSE {Content(f) : f \in {g \in earlier : g.ref \in b.plan[i].old}}]

BatchVerifies(l, k) ==
    LET b == l.batches[k]
    IN  /\ Rebuilt(l, k) = [i \in DOMAIN b.digest |-> {b.digest[i]}]
        /\ b.unidentified = Unidentified(b.rows)
        /\ b.intervals = IntervalsOf(b.rows)
        /\ \A j \in 1..(k - 1) :
              ~(/\ b.unidentified \/ l.batches[j].unidentified
                /\ IntervalsOverlap(b.intervals, l.batches[j].intervals))

\* The fills of a ledger are exactly the new rows of its statements.
LineageFills(l) ==
    UNION {{Stored(l.batches[k].rows[i], l.batches[k].digest, i) :
                i \in DOMAIN l.batches[k].rows} : k \in DOMAIN l.batches}

Verifies(l) ==
    /\ WellFormed(l)
    /\ ~OrderAmbiguous(l)
    /\ \A k \in DOMAIN l.batches : BatchVerifies(l, k)
    /\ l.fills = LineageFills(l)

-------------------------------------------------------------------------------
(* Properties                                                              *)

\* What is saved can be opened again and shows the same trades: every ledger that merging produces
\* passes the integrity check a reload, a restore and a vault hydration run on it (store.tsx 1153,
\* 1462, 1558), and replays to the trades on display.
ReopensAsShown ==
    ledger # NoLedger => Verifies(ledger) /\ Replayed(ledger) = trades

\* However statements overlap, whichever identifiers they carry and in whatever order they are
\* imported, no execution of the account is in the ledger twice.
CountedOnce ==
    \A f, g \in ledger.fills : f.exec = g.exec => f = g

\* A ledger of trusted statements replays every book in the order of its executions, whatever the
\* order of the statements and of the rows in them.
TrustedReplayFollowsHistory ==
    (\A b \in ToSet(ledger.batches) : b.evidence.trusted) =>
        \A f, g \in ledger.fills :
            f.book = g.book /\ Precedes(ledger, f, g) => f.exec < g.exec
===============================================================================
