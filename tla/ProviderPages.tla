----------------------------- MODULE ProviderPages -----------------------------
(***************************************************************************)
(* How the rows of one dataset of one symbol come from Binance into the    *)
(* source events: sync jobs, one after the other, each reading pages from  *)
(* where the provider starts to the first page that is not full, by        *)
(* invocations of the Edge worker that may stop anywhere, while the        *)
(* provider's rows grow, change and leave.  What a commit does besides is  *)
(* in SyncPlane.                                                           *)
(***************************************************************************)
EXTENDS Integers, Sequences, FiniteSets

CONSTANTS
    Fetchers,         \* invocations of the sync route
    Datasets,         \* of {"fills", "orders", "income", "force_orders"}
    PageLimit,        \* rows of a full page (1000 in the code)
    FirstRows,        \* rows the provider has at first
    MaxRows,          \* rows it will have
    JobsOf,           \* jobs of each dataset, one after the other
    MaxSyncFailures,  \* failures of one job (8 in the code)
    NullCursorFails,  \* whether the commit of a last page fails (it does: see the README)
    None

ASSUME PagesAssumption ==
    /\ PageLimit \in Nat \ {0} /\ FirstRows \in Nat \ {0} /\ MaxRows \in Nat /\ FirstRows <= MaxRows
    /\ Datasets \subseteq {"fills", "orders", "income", "force_orders"}
    /\ JobsOf \in [Datasets -> Nat] /\ MaxSyncFailures \in Nat \ {0} /\ NullCursorFails \in BOOLEAN
    /\ None \notin Nat
    /\ None \notin [key : {"fromId", "orderId", "page", "startTime"}, from : Nat]

VARIABLES
    dataset,    \* the dataset of this behaviour
    provided,   \* the provider's rows by id: their millisecond and revision
    gone,       \* the oldest ids, no longer served
    events,     \* the revision of each row that is stored
    conflicted, \* the partition's coverage is CONFLICT
    syncJob,    \* the job's row
    jobsLeft,   \* jobs that will still be enqueued
    fetcher,    \* what each invocation knows
    span        \* of the current job: the first id it was given, the last that existed
                \* before it, and whether rows left meanwhile

pageVars == <<dataset, provided, gone, events, conflicted, syncJob, jobsLeft, fetcher, span>>

----------------------------------------------------------------------------
(* Rows, cursors and pages *)

Row(at, rev) == [at |-> at, rev |-> rev]
RowIds == 1..MaxRows
Existing == DOMAIN provided

\* A cursor is empty, or one bound under the name its dataset gives it.
Start == [key |-> "start", from |-> 0]
Cursor(key, n) == [key |-> key, from |-> n]
CursorKey ==
    [fills |-> "fromId", orders |-> "orderId", income |-> "page", force_orders |-> "startTime"]

NewSyncJob == [status |-> "QUEUED", cursor |-> Start, digest |-> None, holder |-> None,
               lease |-> FALSE, failures |-> 0]
NoFetch == [step |-> "idle", cursor |-> Start, digest |-> None, rows |-> <<>>]
Gone(step) == [NoFetch EXCEPT !.step = step]
NewSpan == [from |-> None, upto |-> Len(provided), moved |-> FALSE]

Smaller(a, b) == IF a < b THEN a ELSE b
\* Up to PageLimit rows from one id, with what they say now.
RowsFrom(first) ==
    [i \in 1..Smaller(PageLimit, Len(provided) - first + 1) |->
        [id |-> first + i - 1, at |-> provided[first + i - 1].at, rev |-> provided[first + i - 1].rev]]

\* Where the provider starts to read: it chooses where an empty cursor starts,
\* except for pages of income, which count from the oldest row it still serves.
FirstIds(cursor) ==
    IF dataset = "income"
    THEN {gone + 1 + PageLimit * (IF cursor = Start THEN 0 ELSE cursor.from - 1)}
    ELSE IF cursor = Start THEN 1..(Len(provided) + 1)
    ELSE IF dataset = "force_orders"
    THEN {Cardinality({i \in Existing : provided[i].at < cursor.from}) + 1}
    ELSE {cursor.from}

\* Pages the provider may answer with.
PagesAt(cursor) ==
    {IF i > Len(provided) THEN <<>> ELSE RowsFrom(i) : i \in FirstIds(cursor)}

\* Mutant: the bound of the last row, with one to spare.
CursorAfterNext(cursor, rows) ==
    IF Len(rows) < PageLimit THEN None
    ELSE Cursor(CursorKey[dataset], rows[Len(rows)].id + 2)
\* A full page has a continuation: past its largest id or time, or the next page.
CursorAfter(cursor, rows) ==
    IF Len(rows) < PageLimit THEN None
    ELSE Cursor(CursorKey[dataset],
            CASE dataset = "income" -> (IF cursor = Start THEN 1 ELSE cursor.from) + 1
              [] dataset = "force_orders" -> rows[Len(rows)].at + 1
              [] OTHER -> rows[Len(rows)].id + 1)

\* What the worker accepts: a page that is not the one before, whose
\* continuation is beyond the cursor it was asked with.
Advances(cursor, next) == cursor = Start \/ next.from > cursor.from
Acceptable(cursor, digest, rows) ==
    /\ rows # digest
    /\ CursorAfter(cursor, rows) # None => Advances(cursor, CursorAfter(cursor, rows))

PagesInit ==
    /\ dataset \in Datasets
    /\ provided \in {[i \in 1..FirstRows |-> Row(at[i], 0)] :
            at \in {a \in [1..FirstRows -> 1..FirstRows] :
                        a[1] = 1 /\ \A i \in 2..FirstRows : a[i] \in {a[i - 1], a[i - 1] + 1}}}
    /\ dataset # "force_orders" => \A i \in 1..FirstRows : provided[i].at = i
    /\ gone = 0
    /\ events = [i \in RowIds |-> None]
    /\ conflicted = FALSE
    /\ syncJob = NewSyncJob
    /\ jobsLeft = JobsOf[dataset] - 1
    /\ fetcher = [f \in Fetchers |-> NoFetch]
    /\ span = NewSpan

----------------------------------------------------------------------------
(* The provider *)

Store == <<events, conflicted, syncJob, jobsLeft, fetcher>>

\* A new row, in the millisecond of the last one or later.
RowAppears ==
    /\ Len(provided) < MaxRows
    /\ \E later \in IF dataset = "force_orders" THEN {0, 1} ELSE {1} :
        provided' = Append(provided, Row(provided[Len(provided)].at + later, 0))
    /\ UNCHANGED <<dataset, gone, Store, span>>

\* An order is filled or cancelled, one of them here; an execution never changes.
RowChanges(i) ==
    /\ dataset = "orders" /\ \A k \in Existing : provided[k].rev = 0
    /\ provided' = [provided EXCEPT ![i].rev = 1]
    /\ UNCHANGED <<dataset, gone, Store, span>>

\* The oldest row leaves the window of income the provider serves.
RowLeaves ==
    /\ dataset = "income" /\ gone < Len(provided)
    /\ gone' = gone + 1
    /\ span' = [span EXCEPT !.moved = TRUE]
    /\ UNCHANGED <<dataset, provided, Store>>

----------------------------------------------------------------------------
(* Jobs and the worker *)

Provider == <<dataset, provided, gone>>

\* The scheduler or the user enqueues another job when there is none.
NextSyncJob ==
    /\ jobsLeft > 0 /\ syncJob.status \in {"SUCCEEDED", "FAILED"}
    /\ jobsLeft' = jobsLeft - 1
    /\ syncJob' = NewSyncJob
    /\ span' = NewSpan
    /\ UNCHANGED <<Provider, events, conflicted, fetcher>>

ClaimSyncJob(f) ==
    /\ fetcher[f].step = "idle"
    /\ syncJob.status = "QUEUED" \/ (syncJob.status = "CLAIMED" /\ ~syncJob.lease)
    /\ syncJob.failures < MaxSyncFailures
    /\ syncJob' = [syncJob EXCEPT !.status = "CLAIMED", !.holder = f, !.lease = TRUE]
    /\ fetcher' = [fetcher EXCEPT ![f] = [step |-> "claimed", cursor |-> syncJob.cursor,
                                          digest |-> syncJob.digest, rows |-> <<>>]]
    /\ UNCHANGED <<Provider, events, conflicted, jobsLeft, span>>

FetchBinancePage(f) ==
    /\ fetcher[f].step = "claimed"
    /\ \E rows \in PagesAt(fetcher[f].cursor) :
        fetcher' = [fetcher EXCEPT ![f] =
            IF Acceptable(@.cursor, @.digest, rows)
            THEN [step |-> "fetched", cursor |-> @.cursor, digest |-> None, rows |-> rows]
            ELSE Gone("invalid")]
    /\ UNCHANGED <<Provider, events, conflicted, syncJob, jobsLeft, span>>

\* What can be wrong with an answer, and whether another try is worth while: the
\* call or its status, the text that is not lossless JSON, a row that is not what
\* the dataset's rows must be.
CallFaults == {"failed", "invalid"}
TextFaults == {"invalid"}
RowFaults == {"invalid"}

FetchFails(f) ==
    /\ fetcher[f].step = "claimed"
    /\ \E step \in CallFaults \cup TextFaults \cup RowFaults :
            fetcher' = [fetcher EXCEPT ![f] = Gone(step)]
    /\ UNCHANGED <<Provider, events, conflicted, syncJob, jobsLeft, span>>

LeaseOfFetcher(f) == syncJob.status = "CLAIMED" /\ syncJob.lease /\ syncJob.holder = f

\* The same identity with another payload, now or ever in this partition.
Conflicting(rows) == {i \in 1..Len(rows) : events[rows[i].id] \notin {None, rows[i].rev}}

\* What is stored after a page, and the job when it is.
Stored(rows) ==
    [i \in RowIds |->
        IF events[i] = None /\ \E k \in 1..Len(rows) : rows[k].id = i
        THEN (CHOOSE r \in {rows[k] : k \in 1..Len(rows)} : r.id = i).rev
        ELSE events[i]]

FirstGiven(rows) == IF span.from = None /\ rows # <<>> THEN rows[1].id ELSE span.from

JobAfter(cursor, rows) ==
    [syncJob EXCEPT !.status = IF CursorAfter(cursor, rows) = None THEN "SUCCEEDED" ELSE "QUEUED",
                    !.cursor = IF CursorAfter(cursor, rows) = None THEN Start
                               ELSE CursorAfter(cursor, rows),
                    !.digest = rows, !.holder = None, !.lease = FALSE]

\* The answer may be lost: the worker then reports a failure, too late.
CommitSyncPage(f) ==
    LET rows == fetcher[f].rows  cursor == fetcher[f].cursor
    IN  /\ fetcher[f].step = "fetched" /\ LeaseOfFetcher(f)
        /\ ~(NullCursorFails /\ CursorAfter(cursor, rows) = None)
        /\ IF Conflicting(rows) # {} \/ conflicted
           THEN /\ conflicted' = TRUE
                /\ syncJob' = [syncJob EXCEPT !.status = "FAILED", !.holder = None, !.lease = FALSE]
                /\ UNCHANGED <<events, span>>
           ELSE /\ events' = Stored(rows)
                /\ syncJob' = JobAfter(cursor, rows)
                /\ span' = [span EXCEPT !.from = FirstGiven(rows)]
                /\ UNCHANGED conflicted
        /\ \E lost \in BOOLEAN :
            fetcher' = [fetcher EXCEPT ![f] = IF lost THEN Gone("failed") ELSE NoFetch]
        /\ UNCHANGED <<Provider, jobsLeft>>

CommitFails(f) ==
    /\ fetcher[f].step = "fetched"
    /\ fetcher' = [fetcher EXCEPT ![f] = Gone("failed")]
    /\ UNCHANGED <<Provider, events, conflicted, syncJob, jobsLeft, span>>

\* The page is read again from the same cursor, by a later claim.
FailSyncJob(f) ==
    /\ fetcher[f].step \in {"failed", "invalid"}
    /\ syncJob' = IF ~LeaseOfFetcher(f) THEN syncJob ELSE
            [syncJob EXCEPT
                !.status = IF fetcher[f].step = "failed" /\ syncJob.failures < MaxSyncFailures - 1
                           THEN "QUEUED" ELSE "FAILED",
                !.failures = @ + 1, !.holder = None, !.lease = FALSE]
    /\ fetcher' = [fetcher EXCEPT ![f] = NoFetch]
    /\ UNCHANGED <<Provider, events, conflicted, jobsLeft, span>>

FetcherStops(f) ==
    /\ fetcher[f].step # "idle"
    /\ fetcher' = [fetcher EXCEPT ![f] = NoFetch]
    /\ UNCHANGED <<Provider, events, conflicted, syncJob, jobsLeft, span>>

SyncLeaseExpires ==
    /\ syncJob.status = "CLAIMED" /\ syncJob.lease
    /\ syncJob' = [syncJob EXCEPT !.lease = FALSE]
    /\ UNCHANGED <<Provider, events, conflicted, jobsLeft, fetcher, span>>

PagesNext ==
    \/ RowAppears
    \/ \E i \in Existing : RowChanges(i)
    \/ RowLeaves
    \/ NextSyncJob
    \/ \E f \in Fetchers : ClaimSyncJob(f)
    \/ \E f \in Fetchers : FetchBinancePage(f)
    \/ \E f \in Fetchers : FetchFails(f)
    \/ \E f \in Fetchers : CommitSyncPage(f)
    \/ \E f \in Fetchers : CommitFails(f)
    \/ \E f \in Fetchers : FailSyncJob(f)
    \/ \E f \in Fetchers : FetcherStops(f)
    \/ SyncLeaseExpires

PagesSpec == PagesInit /\ [][PagesNext]_pageVars

----------------------------------------------------------------------------
(* Properties *)

\* Why a row that a job should have read may be missing: another row of its
\* millisecond was stored and the continuation starts after that millisecond;
\* or rows left the provider's window while pages of it were counted.
Excused(i) ==
    \/ dataset = "force_orders"
        /\ \E k \in Existing \ {i} : events[k] # None /\ provided[k].at = provided[i].at
    \/ dataset = "income" /\ span.moved

\* Nothing is skipped between the first row a job was given and its cursor, and
\* a job that ends has stored every row that existed when it began: whichever
\* invocations read its pages, stopped after storing one, lost its answer or
\* came back with one after their lease.  The two exceptions are the code's.
NothingIsSkipped ==
    \A i \in Existing : span.from # None /\ span.from <= i /\ events[i] = None =>
        \/ Excused(i)
        \/ /\ syncJob.status = "SUCCEEDED" => i > span.upto
           /\ dataset \in {"fills", "orders"} /\ syncJob.cursor # Start => i >= syncJob.cursor.from

================================================================================
