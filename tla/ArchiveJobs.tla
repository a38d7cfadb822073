------------------------------ MODULE ArchiveJobs ------------------------------
(***************************************************************************)
(* History the API does not serve any more, through one archive job of the *)
(* rv2 data plane: an Edge worker asks Binance for an archive and polls for *)
(* its download link, the link waits in a private table, and a run of the  *)
(* private workflow takes it once, attests the file it downloaded, ingests *)
(* its rows in batches and finalizes them into the source events, which    *)
(* pages of the sync worker are writing at the same time.                  *)
(*                                                                         *)
(* The workflow's program is not in this repository.  It is taken to send  *)
(* what is true of the file it downloaded, in any order and any number of  *)
(* times; a request whose answer it gave up on may still be executed.      *)
(***************************************************************************)
EXTENDS Integers, FiniteSets

CONSTANTS
    Workers,          \* invocations of the Edge archive route
    Urls,             \* links Binance may hand out for the job's window
    ArchiveRuns,      \* run attempts of the private workflow
    FileOf,           \* the file behind each link: its rows, by batch
    Ids,              \* provider event ids
    Digests,          \* digests of an event's body
    PageRows,         \* rows the sync worker may bring for the same ids
    MaxPolls,         \* polls of one download (120 in the code)
    MaxArchiveFailures, \* failures of a job (8 in the code)
    Nothing

ASSUME ArchiveAssumption ==
    /\ MaxPolls \in Nat /\ MaxArchiveFailures \in Nat \ {0}
    /\ \A u \in Urls : \A b \in DOMAIN FileOf[u] : FileOf[u][b] \subseteq Ids \X Digests
    /\ \A u \in Urls : /\ IsFiniteSet(DOMAIN FileOf[u])
                       /\ \A b \in DOMAIN FileOf[u] : IsFiniteSet(FileOf[u][b])
    /\ PageRows \subseteq Ids \X Digests
    /\ Nothing \notin Urls \cup Digests \cup {"page"} /\ "page" \notin Urls

VARIABLES
    owner,      \* the connection: its status, and whether the job's credential is current
    archiveJob, \* the job's row
    worker,     \* what each Edge invocation knows
    archive,    \* rv2_archives, one row per link that was staged
    claimOf,    \* run attempts: valid until the OIDC claim expires
    staged,     \* batches ingested for each archive
    finalizing, \* the archive being finalized, and the ids found in conflict
    page,       \* the row a page of the sync worker is about to write
    event,      \* rv2_source_events: for each id its digest and who wrote it
    registered  \* ids in rv2_source_event_conflicts

archiveVars == <<owner, archiveJob, worker, archive, claimOf, staged, finalizing, page,
                 event, registered>>

----------------------------------------------------------------------------
(* Rows *)

\* archive_state: what to ask Binance next.
AskArchive == [status |-> "REQUEST_PENDING", polls |-> 0, url |-> Nothing]
Poll(n) == [status |-> "POLL_PENDING", polls |-> n, url |-> Nothing]
Csv(n) == [status |-> "CSV_REQUIRED", polls |-> n, url |-> Nothing]
StagedAt(u, n) == [status |-> "STAGED", polls |-> n, url |-> u]

\* The lease is the invocation whose claim token the row carries.
NewJob == [status |-> "QUEUED", state |-> AskArchive, holder |-> Nothing, lease |-> FALSE,
           failures |-> 0]
Idle == [step |-> "idle", state |-> AskArchive, url |-> Nothing]
NoArchive == [status |-> "none", run |-> Nothing, expired |-> FALSE]

Finished == {"STAGED", "CSV_REQUIRED", "FAILED", "CANCELLED"}
Rows(u) == UNION {FileOf[u][b] : b \in DOMAIN FileOf[u]}
StagedRows(u) == UNION {FileOf[u][b] : b \in staged[u]}
Written(d, by) == [digest |-> d, by |-> by]
Unwritten == [digest |-> Nothing, by |-> Nothing]
NoFinalize == [url |-> Nothing, conflicts |-> {}]

ArchiveInit ==
    /\ owner = [status |-> "ACTIVE", current |-> TRUE]
    /\ archiveJob = NewJob
    /\ worker = [w \in Workers |-> Idle]
    /\ archive = [u \in Urls |-> NoArchive]
    /\ claimOf = [r \in ArchiveRuns |-> "valid"]
    /\ staged = [u \in Urls |-> {}]
    /\ finalizing = NoFinalize
    /\ page = Nothing
    /\ event = [i \in Ids |-> Unwritten]
    /\ registered = {}

----------------------------------------------------------------------------
(* The Edge worker: one bounded step of the job per invocation *)

Evidence == <<finalizing, page, event, registered>>
Downloads == <<archive, claimOf, staged, Evidence>>

\* Every call of the worker carries the claim token of a lease that still runs.
LeaseOf(w) == archiveJob.status = "CLAIMED" /\ archiveJob.lease /\ archiveJob.holder = w

ClaimArchiveJob(w) ==
    /\ worker[w].step = "idle"
    /\ \/ archiveJob.status \in {"QUEUED", "REQUEST_PENDING", "POLL_PENDING"}
       \/ archiveJob.status = "CLAIMED" /\ ~archiveJob.lease
    /\ archiveJob.failures < MaxArchiveFailures
    /\ owner = [status |-> "ACTIVE", current |-> TRUE]
    /\ archiveJob' = [archiveJob EXCEPT !.status = "CLAIMED", !.holder = w, !.lease = TRUE]
    \* The token is new: an older invocation that holds the same name is over.
    /\ worker' = [worker EXCEPT ![w] = [step |-> "claimed", state |-> archiveJob.state,
                                        url |-> Nothing]]
    /\ UNCHANGED <<owner, Downloads>>

\* The state the invocation will commit.
Answered(w, state) ==
    /\ worker' = [worker EXCEPT ![w] = [step |-> "answered", state |-> state, url |-> Nothing]]
    /\ UNCHANGED <<owner, archiveJob, Downloads>>

RequestArchive(w) ==
    /\ worker[w].step = "claimed" /\ worker[w].state.status = "REQUEST_PENDING"
    /\ Answered(w, Poll(0))

PollArchive(w) ==
    LET polls == worker[w].state.polls
    IN  /\ worker[w].step = "claimed" /\ worker[w].state.status = "POLL_PENDING"
        /\ \/ polls >= MaxPolls /\ Answered(w, Csv(polls))
           \/ polls < MaxPolls /\ Answered(w, Poll(polls + 1))
           \* The link has expired.
           \/ polls < MaxPolls /\ Answered(w, Csv(polls))
           \/ \E u \in Urls :
                /\ polls < MaxPolls
                /\ worker' = [worker EXCEPT ![w].step = "linked", ![w].url = u]
                /\ UNCHANGED <<owner, archiveJob, Downloads>>

\* The same link of the same download is one archive, whatever became of it.
StageLink(w) ==
    LET u == worker[w].url
    IN  /\ worker[w].step = "linked" /\ LeaseOf(w)
        /\ archive' = [archive EXCEPT ![u] =
                IF @.status = "none" THEN [NoArchive EXCEPT !.status = "PENDING"]
                                     ELSE @]
        /\ worker' = [worker EXCEPT ![w] =
                [step |-> "answered", state |-> StagedAt(u, worker[w].state.polls + 1),
                 url |-> Nothing]]
        /\ UNCHANGED <<owner, archiveJob, claimOf, staged, Evidence>>

CommitArchiveState(w) ==
    /\ worker[w].step = "answered" /\ LeaseOf(w)
    /\ archiveJob' = [archiveJob EXCEPT !.status = worker[w].state.status,
                                        !.state = worker[w].state,
                                        !.holder = Nothing, !.lease = FALSE]
    /\ worker' = [worker EXCEPT ![w] = Idle]
    /\ UNCHANGED <<owner, Downloads>>

\* A failure of any step is reported with the token; codes that stop the
\* connection stop it only while its credential is the job's.
ConnectionAfter(code) ==
    IF owner.current /\ code = "AUTH_DISABLED" THEN "AUTH_ERROR"
    ELSE IF owner.current /\ code = "RATE_LIMITED" THEN "RATE_LIMITED"
    ELSE owner.status

FailArchiveJob(w) ==
    \E code \in {"AUTH_DISABLED", "RATE_LIMITED", "UPSTREAM_UNAVAILABLE", "ARCHIVE_RESPONSE_INVALID"} :
        /\ worker[w].step \in {"claimed", "linked", "answered"} /\ LeaseOf(w)
        /\ archiveJob' = [archiveJob EXCEPT
                !.status = IF code \in {"RATE_LIMITED", "UPSTREAM_UNAVAILABLE"}
                              /\ archiveJob.failures < MaxArchiveFailures - 1
                           THEN "QUEUED" ELSE "FAILED",
                !.failures = @ + 1, !.holder = Nothing, !.lease = FALSE]
        /\ owner' = [owner EXCEPT !.status = ConnectionAfter(code)]
        /\ worker' = [worker EXCEPT ![w] = Idle]
        /\ UNCHANGED Downloads

\* The deadline of the function, a call the database refused, or a crash.
WorkerStops(w) ==
    /\ worker[w].step # "idle"
    /\ worker' = [worker EXCEPT ![w] = Idle]
    /\ UNCHANGED <<owner, archiveJob, Downloads>>

ArchiveLeaseExpires ==
    /\ archiveJob.status = "CLAIMED" /\ archiveJob.lease
    /\ archiveJob' = [archiveJob EXCEPT !.lease = FALSE]
    /\ UNCHANGED <<owner, worker, Downloads>>

\* The job is cancelled with its credential, unless it was finished.
CancelledJob ==
    IF archiveJob.status \in Finished THEN archiveJob
    ELSE [archiveJob EXCEPT !.status = "CANCELLED", !.holder = Nothing, !.lease = FALSE]

RotateOwner ==
    /\ owner.current
    /\ owner' = [status |-> "ACTIVE", current |-> FALSE]
    /\ archiveJob' = CancelledJob
    /\ UNCHANGED <<worker, Downloads>>

RevokeOwner ==
    /\ owner.status # "REVOKED"
    /\ owner' = [owner EXCEPT !.status = "REVOKED"]
    /\ archiveJob' = CancelledJob
    /\ UNCHANGED <<worker, Downloads>>

----------------------------------------------------------------------------
(* Time *)

Edge == <<owner, archiveJob, worker>>

\* The end of a link (which can be claimed in its last ten minutes only), and of
\* the ten minutes a run has to attest what it claimed.
ArchiveAges(u) ==
    /\ archive[u].status \in {"PENDING", "CLAIMED"} /\ ~archive[u].expired
    /\ archive' = [archive EXCEPT ![u].expired = TRUE]
    /\ UNCHANGED <<Edge, claimOf, staged, Evidence>>

RunExpires(r) ==
    /\ claimOf[r] = "valid"
    /\ claimOf' = [claimOf EXCEPT ![r] = "expired"]
    /\ UNCHANGED <<Edge, archive, staged, Evidence>>

----------------------------------------------------------------------------
(* The private workflow *)

\* A row that is being finalized is locked.
Free(u) == finalizing.url # u

\* What a claim does to the other rows: a refused claim is rolled back whole.
Swept(a) ==
    IF ~a.expired THEN a
    ELSE [a EXCEPT !.status = IF @ = "PENDING" THEN "EXPIRED" ELSE "FAILED", !.expired = FALSE]

ClaimDownload(r, u) ==
    /\ claimOf[r] = "valid" /\ \A v \in Urls : archive[v].run # r
    /\ archive[u].status = "PENDING" /\ ~archive[u].expired
    /\ archive' = [v \in Urls |->
            IF v = u THEN [archive[u] EXCEPT !.status = "CLAIMED", !.run = r]
                     ELSE Swept(archive[v])]
    /\ UNCHANGED <<Edge, claimOf, staged, Evidence>>

\* The file's digest is recorded.  A download that was cut short has another:
\* against a digest already recorded it fails the archive.
AttestPayload(r, u) ==
    \E whole \in BOOLEAN :
        /\ claimOf[r] = "valid" /\ archive[u].run = r /\ Free(u)
        /\ \/ archive[u].status = "CLAIMED" /\ ~archive[u].expired /\ whole
              /\ archive' = [archive EXCEPT ![u].status = "ATTESTED"]
           \/ archive[u].status = "ATTESTED" /\ ~whole
              /\ archive' = [archive EXCEPT ![u].status = "FAILED"]
        /\ UNCHANGED <<Edge, claimOf, staged, Evidence>>

Failable(a) == a.status \in {"CLAIMED", "ATTESTED"}

FailClaim(r, u) ==
    /\ claimOf[r] = "valid" /\ archive[u].run = r /\ Free(u)
    /\ Failable(archive[u])
    /\ archive' = [archive EXCEPT ![u].status = "FAILED", ![u].expired = FALSE]
    /\ UNCHANGED <<Edge, claimOf, staged, Evidence>>

\* A batch and its rows are one transaction; a replay changes nothing.
IngestBatch(r, u, b) ==
    /\ archive[u].run = r /\ archive[u].status = "ATTESTED" /\ Free(u)
    /\ b \in DOMAIN FileOf[u] /\ b \notin staged[u]
    /\ staged' = [staged EXCEPT ![u] = @ \cup {b}]
    /\ UNCHANGED <<Edge, archive, claimOf, Evidence>>

\* Mutant: the batches that arrived are taken for the set.
SomeBatches(u) == staged[u] # {}

\* As many batches as each of them says there are, with their rows.
BatchSetComplete(u) == staged[u] = DOMAIN FileOf[u]

\* Two rows of the file, or a row and a stored event, disagree about an id.
Disagrees(u, i) ==
    \/ Cardinality({row \in StagedRows(u) : row[1] = i}) > 1
    \/ \E d \in Digests : <<i, d>> \in StagedRows(u) /\ event[i].digest \notin {Nothing, d}

\* The batch set is checked and conflicts are looked for by one statement, and
\* rows are written by a later one of the same transaction.
StartFinalize(r, u) ==
    /\ finalizing = NoFinalize
    /\ claimOf[r] = "valid" /\ archive[u].run = r /\ archive[u].status = "ATTESTED"
    /\ BatchSetComplete(u)
    /\ finalizing' = [url |-> u, conflicts |-> {i \in Ids : Disagrees(u, i)}]
    /\ UNCHANGED <<Edge, archive, claimOf, staged, page, event, registered>>

\* Whatever became of the job since it staged the link.
Settle(status) ==
    /\ archive' = [archive EXCEPT ![finalizing.url].status = status]
    /\ archiveJob' = [archiveJob EXCEPT !.status = "STAGED",
                                        !.state = StagedAt(finalizing.url, 0),
                                        !.holder = Nothing, !.lease = FALSE]
    /\ finalizing' = NoFinalize
    /\ UNCHANGED <<owner, worker, claimOf, staged, page>>

FinalizeConflict ==
    /\ finalizing.url # Nothing /\ finalizing.conflicts # {}
    /\ registered' = registered \cup finalizing.conflicts
    /\ Settle("CONFLICT")
    /\ UNCHANGED event

\* An id that is stored by now is counted as a replay.
FinalizeArchive ==
    LET u == finalizing.url
    IN  /\ u # Nothing /\ finalizing.conflicts = {}
        /\ event' = [i \in Ids |->
                IF event[i] = Unwritten /\ \E row \in StagedRows(u) : row[1] = i
                THEN Written(CHOOSE d \in Digests : <<i, d>> \in StagedRows(u), u)
                ELSE event[i]]
        /\ Settle("COMPLETED")
        /\ UNCHANGED registered

\* The statement's deadline, or a page that is inserting the same id.
FinalizeRollsBack ==
    /\ finalizing # NoFinalize
    /\ finalizing' = NoFinalize
    /\ UNCHANGED <<Edge, archive, claimOf, staged, page, event, registered>>

----------------------------------------------------------------------------
(* Pages of the sync worker, as far as they write the same ids *)

PageScans(i, d) ==
    /\ page = Nothing /\ event[i].digest # d
    /\ IF event[i] = Unwritten
       THEN page' = <<i, d>> /\ UNCHANGED registered
       ELSE registered' = registered \cup {i} /\ UNCHANGED page
    /\ UNCHANGED <<Edge, archive, claimOf, staged, finalizing, event>>

\* On conflict do nothing.
PageWrites ==
    /\ page # Nothing
    /\ page' = Nothing
    /\ event' = [event EXCEPT ![page[1]] = IF @ = Unwritten THEN Written(page[2], "page") ELSE @]
    /\ UNCHANGED <<Edge, archive, claimOf, staged, finalizing, registered>>

----------------------------------------------------------------------------

ArchiveNext ==
    \/ \E w \in Workers : ClaimArchiveJob(w)
    \/ \E w \in Workers : RequestArchive(w)
    \/ \E w \in Workers : PollArchive(w)
    \/ \E w \in Workers : StageLink(w)
    \/ \E w \in Workers : CommitArchiveState(w)
    \/ \E w \in Workers : FailArchiveJob(w)
    \/ \E w \in Workers : WorkerStops(w)
    \/ ArchiveLeaseExpires
    \/ RotateOwner
    \/ RevokeOwner
    \/ \E u \in Urls : ArchiveAges(u)
    \/ \E r \in ArchiveRuns : RunExpires(r)
    \/ \E r \in ArchiveRuns, u \in Urls : ClaimDownload(r, u)
    \/ \E r \in ArchiveRuns, u \in Urls : AttestPayload(r, u)
    \/ \E r \in ArchiveRuns, u \in Urls : FailClaim(r, u)
    \/ \E r \in ArchiveRuns, u \in Urls : \E b \in DOMAIN FileOf[u] : IngestBatch(r, u, b)
    \/ \E r \in ArchiveRuns, u \in Urls : StartFinalize(r, u)
    \/ FinalizeConflict
    \/ FinalizeArchive
    \/ FinalizeRollsBack
    \/ \E row \in PageRows : PageScans(row[1], row[2])
    \/ PageWrites

ArchiveSpec == ArchiveInit /\ [][ArchiveNext]_archiveVars

----------------------------------------------------------------------------
(* Properties *)

\* An archive is finalized whole or not at all, whatever its run repeats, gives
\* up or loses: every id of the file of a COMPLETED archive is stored, with the
\* file's digest unless a page of the sync worker stored it, and an event an
\* archive wrote is a row of a COMPLETED archive's file.
CompletedIsWhole ==
    /\ \A u \in Urls : archive[u].status = "COMPLETED" =>
        \A row \in Rows(u) : event[row[1]].digest = row[2] \/ event[row[1]].by = "page"
    /\ \A i \in Ids : event[i].by \in Urls =>
        /\ archive[event[i].by].status = "COMPLETED"
        /\ <<i, event[i].digest>> \in Rows(event[i].by)

\* Not so (see the README): a page that commits between the two statements of a
\* finalization hides a conflict of identity.
ConflictsAreRegistered ==
    \A u \in Urls : archive[u].status = "COMPLETED" =>
        \A row \in Rows(u) : event[row[1]].digest = row[2] \/ row[1] \in registered

================================================================================
