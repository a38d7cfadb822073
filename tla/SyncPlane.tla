------------------------------ MODULE SyncPlane ------------------------------
(***************************************************************************)
(* The sync queue with the data its pages carry: source events and their   *)
(* identity conflicts, coverage watermarks, the post-commit outbox and the *)
(* published generations, all of                                           *)
(* supabase/migrations/20260831000100_invite_beta_rv2_data_plane.sql.      *)
(*                                                                         *)
(* A page commit and its outbox row are one transaction, and so are the    *)
(* completion of an outbox row, the advance of the trusted watermark and   *)
(* the publication it may trigger: each is one action, which is an action  *)
(* of SyncQueue with the rest of the transaction conjoined.  Watermarks    *)
(* are partition-local stamps: a page fetched by the k-th non-empty commit *)
(* of a partition has committed_through k, and 0 stands for null.          *)
(***************************************************************************)
EXTENDS SyncQueue

CONSTANTS
  EventIds,         \* dataset x provider_event_id
  EventPart,        \* the partition an identity belongs to
  Hashes,           \* canonical digests, in the order of their text
  Discovers,        \* the partitions the rows of a partition's pages name
  ManifestGuarded,  \* rv2_enforce_generation_state_transition freezes manifests
  CompletionErrors, \* a completion may fail although the database would accept it
  MaxDelta,         \* rv2_generations_jobs_check: 128
  MaxGenerations,   \* bound: generations of a connection
  MaxWorkClaims     \* bound: claims of one outbox row

ASSUME EventsAssumption ==
  /\ EventPart \in [EventIds -> Partitions]
  /\ Hashes \subseteq Nat \ {0}
  /\ Discovers \in [Partitions -> SUBSET Partitions]
ASSUME PublishingAssumption ==
  /\ ManifestGuarded \in BOOLEAN /\ CompletionErrors \in BOOLEAN
  /\ MaxDelta \in Nat /\ MaxGenerations \in Nat /\ MaxWorkClaims \in Nat

VARIABLES
  coverage,    \* rv2_sync_coverage: [state, committed, trusted]
  event,       \* rv2_source_events: [hash, job, page, time]; hash 0 is no event, time 0 is
               \* history, time k the fetch of committed_through k
  conflict,    \* rv2_source_event_conflicts: [existing, observed]; existing 0 is no row, and a
               \* row, once there, stays OPEN
  work,        \* rv2_post_commit_work, by job and page_number: attempt is the source attempt, the
               \* claims-th claim owns lease_token
  generation,  \* rv2_generations: [status, jobs, root]
  current      \* rv2_connections.current_generation

dataVars  == <<coverage, event, conflict, work, generation, current>>
planeVars == <<queueVars, dataVars>>

PageNos == 1..MaxPages
GenerationNos == 1..MaxGenerations

NoWork == [status |-> "NONE", attempt |-> 0, failures |-> 0, claims |-> 0,
           live |-> FALSE, available |-> FALSE]

PlaneInit ==
  /\ Init
  /\ coverage = [c \in Connections |-> [p \in Partitions |->
                   [state |-> "NONE", committed |-> 0, trusted |-> 0]]]
  /\ event = [c \in Connections |-> [e \in EventIds |->
                [hash |-> 0, job |-> 0, page |-> 0, time |-> 0]]]
  /\ conflict = [c \in Connections |-> [e \in EventIds |-> [existing |-> 0, observed |-> 0]]]
  /\ work = [j \in Jobs |-> [n \in PageNos |-> NoWork]]
  /\ generation = [c \in Connections |-> [g \in GenerationNos |->
                     [status |-> "NONE", jobs |-> {}, root |-> {}]]]
  /\ current = [c \in Connections |-> 0]

-----------------------------------------------------------------------------
(* Pages: a page is a set of <<event id, digest>> rows of one partition.   *)

Pages(p) == SUBSET ({e \in EventIds : EventPart[e] = p} \X Hashes)

Stored(c, e) == event[c][e].hash # 0
Conflicting(c, e) == conflict[c][e].existing # 0

\* Every digest known for identity e once the page is seen.
Digests(c, page, e) ==
  {r[2] : r \in {q \in page : q[1] = e}} \cup (IF Stored(c, e) THEN {event[c][e].hash} ELSE {})

\* The identities of the page that have more than one digest.
Diverging(c, page) ==
  {e \in {r[1] : r \in page} : \E h, k \in Digests(c, page, e) : h # k}

Least(S)    == CHOOSE h \in S : \A k \in S : h <= k
Greatest(S) == CHOOSE h \in S : \A k \in S : h >= k

\* The upsert of one conflict: only observed_sha256 moves on a known identity.
Upserted(c, e, digests) ==
  [existing |-> IF Conflicting(c, e) THEN conflict[c][e].existing ELSE Least(digests),
   observed |-> Greatest(digests)]

\* rv2_source_event_conflicts_digest_check.
RowAccepted(row) == row.existing # row.observed

\* Slip: a page is checked for itself, its partition is not.
DivergesOnly(c, p, page) == Diverging(c, page) # {}

\* The page is quarantined instead of stored.
Quarantined(c, p, page) ==
  Diverging(c, page) # {} \/ coverage[c][p].state = "CONFLICT"

\* Rows whose identity is stored already are left as they are.
EventsWith(c, j, page, time) ==
  [event EXCEPT ![c] = [e \in EventIds |->
     IF e \in {r[1] : r \in page} /\ ~Stored(c, e)
     THEN [hash |-> Least(Digests(c, page, e)), job |-> j, page |-> job[j].pages + 1,
           time |-> time]
     ELSE event[c][e]]]

Stamp(c, p) == coverage[c][p].committed + 1

\* Slip: an empty page, which proves nothing, clears the watermark.
CoverageReset(c, p, page) ==
  [coverage EXCEPT ![c][p] =
     IF page = {} THEN [@ EXCEPT !.state = "UNKNOWN", !.committed = 0]
     ELSE [@ EXCEPT !.state = "PARTIAL", !.committed = Stamp(c, p)]]

\* An empty page has no committed_through, and greatest() ignores null.
CoverageWith(c, p, page) ==
  [coverage EXCEPT ![c][p] =
     [coverage[c][p] EXCEPT !.state = IF @ = "CONFLICT" THEN @
                                      ELSE IF page = {} THEN "UNKNOWN" ELSE "PARTIAL",
                            !.committed = IF page = {} THEN @ ELSE Stamp(c, p)]]

OutboxWith(j, n) ==
  [work EXCEPT ![j][job[j].pages + 1] =
     [NoWork EXCEPT !.status = "PENDING", !.attempt = n, !.available = TRUE]]

\* recent: the rows are as young as the fetch; else they are history.
StorePage(j, n, more, page, recent) ==
  LET c == job[j].conn
      p == job[j].part IN
  /\ CommitSyncPage(j, n, more)
  /\ ~Quarantined(c, p, page)
  /\ event' = EventsWith(c, j, page, IF recent THEN Stamp(c, p) ELSE 0)
  /\ coverage' = CoverageWith(c, p, page)
  /\ work' = OutboxWith(j, n)
  /\ UNCHANGED <<conflict, generation, current>>

\* Slip: a partition that no page has covered yet is not marked.
ConflictMarkedIfCovered(c, p) ==
  IF coverage[c][p].state = "NONE" THEN coverage
  ELSE [coverage EXCEPT ![c][p].state = "CONFLICT"]

ConflictMarked(c, p) == [coverage EXCEPT ![c][p].state = "CONFLICT"]

\* The evidence and the CONFLICT coverage outlive the page.
StoreConflict(j, n, page) ==
  LET c == job[j].conn
      p == job[j].part
      rows == [e \in Diverging(c, page) |-> Upserted(c, e, Digests(c, page, e))] IN
  /\ QuarantinePage(j, n)
  /\ Quarantined(c, p, page)
  /\ \A e \in DOMAIN rows : RowAccepted(rows[e])
  /\ conflict' = [conflict EXCEPT ![c] = [e \in EventIds |->
       IF e \in DOMAIN rows THEN rows[e] ELSE conflict[c][e]]]
  /\ coverage' = ConflictMarked(c, p)
  /\ UNCHANGED <<event, work, generation, current>>

-----------------------------------------------------------------------------
(* The post-commit outbox.                                                 *)

WorkLive(j, n) == work[j][n].status = "CLAIMED" /\ work[j][n].live

\* rv2_service_claim_post_commit_work; which eligible row comes first is open.
ClaimPostCommitWork(j, n) ==
  LET w == work[j][n] IN
  /\ \A k \in Jobs, m \in PageNos : ~WorkLive(k, m)
  /\ w.status = "PENDING" \/ (w.status = "CLAIMED" /\ ~w.live)
  /\ w.available
  /\ w.failures < MaxFailures
  /\ Usable(job[j].conn, job[j].version)
  /\ w.claims < MaxWorkClaims
  /\ work' = [work EXCEPT ![j][n] = [w EXCEPT !.status = "CLAIMED", !.live = TRUE,
                                              !.claims = @ + 1]]
  /\ UNCHANGED <<queueVars, coverage, event, conflict, generation, current>>

HoldsWork(j, n, t) == WorkLive(j, n) /\ work[j][n].claims = t

\* The bound leaves the row the claims that its retries may still need.
WorkLeaseExpires(j, n) ==
  /\ WorkLive(j, n)
  /\ work[j][n].claims + MaxFailures - work[j][n].failures <= MaxWorkClaims
  /\ work' = [work EXCEPT ![j][n].live = FALSE]
  /\ UNCHANGED <<queueVars, coverage, event, conflict, generation, current>>

WorkBackoffElapses(j, n) ==
  /\ work[j][n].status = "PENDING"
  /\ ~work[j][n].available
  /\ work' = [work EXCEPT ![j][n].available = TRUE]
  /\ UNCHANGED <<queueVars, coverage, event, conflict, generation, current>>

-----------------------------------------------------------------------------
(* Publication: what rv2_service_publish_generation, called at the end of  *)
(* a completion, sees of the outbox w and of the coverage v.               *)

OfConnection(c) == {j \in Jobs : job[j].conn = c /\ job[j].version = conn[c].version}

RowsOf(w, j) == {n \in PageNos : w[j][n].status # "NONE"}

\* Slip: the completion under way does not count.
RowsOpenBefore(c, w) ==
  \E j \in OfConnection(c), n \in PageNos : work[j][n].status \in {"PENDING", "CLAIMED", "FAILED"}

RowsOpen(c, w) ==
  \E j \in OfConnection(c), n \in PageNos : w[j][n].status \in {"PENDING", "CLAIMED", "FAILED"}

\* Open source or outbox work, an incomplete outbox, or an open conflict.
Outstanding(c, w) ==
  \/ \E j \in OfConnection(c) : job[j].status \in Unfinished
  \/ RowsOpen(c, w)
  \/ \E j \in OfConnection(c) :
       job[j].status = "SUCCEEDED" /\ Cardinality(RowsOf(w, j)) # job[j].pages
  \/ \E e \in EventIds : Conflicting(c, e)

PublishedJobs(c) == UNION {generation[c][g].jobs : g \in GenerationNos}

AllDone(w, j) == Cardinality({n \in PageNos : w[j][n].status = "DONE"}) = job[j].pages

\* Slip: every finished job, published or not.
DeltaAgain(c, w) == {j \in OfConnection(c) : job[j].status = "SUCCEEDED" /\ AllDone(w, j)}

Delta(c, w) ==
  {j \in OfConnection(c) :
     job[j].status = "SUCCEEDED" /\ AllDone(w, j) /\ j \notin PublishedJobs(c)}

\* The events under the trusted watermark of their partition.
Root(c, v) ==
  {e \in EventIds : /\ Stored(c, e)
                    /\ v[EventPart[e]].trusted > 0
                    /\ event[c][e].time <= v[EventPart[e]].trusted}

\* The UPDATE that replaces the placeholder manifest passes the row trigger.
FinalizationAllowed == ~ManifestGuarded

\* Nothing to publish yet, or nothing that keeps the publication from it.
PublicationAccepted(c, w) ==
  \/ Outstanding(c, w) \/ Delta(c, w) = {}
  \/ /\ Cardinality(Delta(c, w)) <= MaxDelta
     /\ FinalizationAllowed
     /\ current[c] + 1 \in GenerationNos

Superseded(g) == IF g.status = "PUBLISHED" THEN [g EXCEPT !.status = "SUPERSEDED"] ELSE g

PublishGeneration(c, w, v) ==
  LET new == [status |-> "PUBLISHED", jobs |-> Delta(c, w), root |-> Root(c, v)] IN
  /\ PublicationAccepted(c, w)
  /\ IF Outstanding(c, w) \/ new.jobs = {}
     THEN UNCHANGED <<generation, current>>
     ELSE /\ current' = [current EXCEPT ![c] = @ + 1]
          /\ generation' = [generation EXCEPT ![c] = [g \in GenerationNos |->
               IF g = current'[c] THEN new ELSE Superseded(generation[c][g])]]

WorkDone(j, n) ==
  [work EXCEPT ![j][n] = [@ EXCEPT !.status = "DONE", !.live = FALSE]]

\* The source attempt, its job and its connection are still what they were
\* when the page was committed.
SourceIntact(j, n) ==
  /\ attempt[j][work[j][n].attempt] = "COMMITTED"
  /\ job[j].pages >= n
  /\ Usable(job[j].conn, job[j].version)

\* rv2_service_complete_post_commit_work; any failure, the publication's
\* too, rolls all of it back.
CompletePostCommitWork(j, n, t) ==
  LET c == job[j].conn
      p == job[j].part IN
  /\ HoldsWork(j, n, t)
  /\ SourceIntact(j, n)
  /\ DiscoverPartitions(c, Discovers[p])
  /\ work' = WorkDone(j, n)
  /\ coverage' = [coverage EXCEPT ![c][p].trusted =
       IF coverage[c][p].state # "CONFLICT" THEN coverage[c][p].committed ELSE @]
  /\ PublishGeneration(c, work', coverage'[c])
  /\ UNCHANGED <<event, conflict>>

\* rv2_service_fail_post_commit_work, called when a completion was refused or
\* failed on its way: the worker calls every failure retryable, with at least
\* a second of delay.
FailPostCommitWork(j, n, t) ==
  LET w == work[j][n]
      retry == w.failures + 1 < MaxFailures IN
  /\ HoldsWork(j, n, t)
  /\ \/ CompletionErrors
     \/ ~SourceIntact(j, n)
     \/ ~PublicationAccepted(job[j].conn, WorkDone(j, n))
  /\ work' = [work EXCEPT ![j][n] = [w EXCEPT !.status = IF retry THEN "PENDING" ELSE "FAILED",
                                              !.failures = @ + 1,
                                              !.live = FALSE,
                                              !.available = ~retry]]
  /\ UNCHANGED <<queueVars, coverage, event, conflict, generation, current>>

-----------------------------------------------------------------------------
(* Rotation and disconnect close the outbox rows of the jobs they cancel.  *)

WorkClosed(S) ==
  [j \in Jobs |-> [n \in PageNos |->
     IF j \in S /\ work[j][n].status \in {"PENDING", "CLAIMED"}
     THEN [work[j][n] EXCEPT !.status = "FAILED", !.live = FALSE] ELSE work[j][n]]]

RotateWithOutbox(c, v, ok) ==
  /\ RotateConnection(c, v, ok)
  /\ work' = WorkClosed(OfConnection(c))
  /\ UNCHANGED <<coverage, event, conflict, generation, current>>

DisconnectWithOutbox(c, v) ==
  /\ DisconnectConnection(c, v)
  /\ work' = WorkClosed({j \in Jobs : job[j].conn = c})
  /\ UNCHANGED <<coverage, event, conflict, generation, current>>

\* The partitions that the symbols of stored events name.
NamedPartitions(c) == UNION {Discovers[EventPart[e]] : e \in {d \in EventIds : Stored(c, d)}}

-----------------------------------------------------------------------------
\* The functions that touch the queue alone.
ConnectionOnly(c) ==
  \/ \E ok \in BOOLEAN : CreateConnection(c, ok)
  \/ EnqueueRead(c)
  \/ \E j \in Jobs, p \in Partitions : EnqueueInsert(c, j, p)
  \/ EnqueueReturn(c)
  \/ \E ids \in Assignments : EnqueueDue(c, NamedPartitions(c), ids)
  \/ DueTimeComes(c)

JobOnly(j) ==
  \/ ClaimSyncJob(j)
  \/ \E n \in AttemptNos : \/ RenewSyncJob(j, n)
                           \/ \E code \in ReportedCodes : FailSyncJob(j, n, code)
  \/ LeaseTick(j)
  \/ BackoffElapses(j)

QueueOnly ==
  /\ \/ \E c \in Connections : ConnectionOnly(c)
     \/ \E j \in Jobs : JobOnly(j)
     \/ ArchiveStep
     \/ CircuitCloses
  /\ UNCHANGED dataVars

\* A call of attempt n that brings a page.
PageStep(j, n) ==
  \E page \in Pages(job[j].part) :
    \/ \E more, recent \in BOOLEAN : StorePage(j, n, more, page, recent)
    \/ StoreConflict(j, n, page)

FinishWork(j, n) ==
  \E t \in 1..MaxWorkClaims : CompletePostCommitWork(j, n, t) \/ FailPostCommitWork(j, n, t)

OutboxStep(j, n) ==
  \/ ClaimPostCommitWork(j, n)
  \/ FinishWork(j, n)
  \/ WorkLeaseExpires(j, n)
  \/ WorkBackoffElapses(j, n)

PlaneNext ==
  \/ QueueOnly
  \/ \E j \in Jobs, n \in AttemptNos : PageStep(j, n)
  \/ \E j \in Jobs, n \in PageNos : OutboxStep(j, n)
  \/ \E c \in Connections, v \in 1..MaxVersion :
       DisconnectWithOutbox(c, v) \/ \E ok \in BOOLEAN : RotateWithOutbox(c, v, ok)

PlaneSpec == PlaneInit /\ [][PlaneNext]_planeVars

(***************************************************************************)
(* The queue's fairness; and every minute the sync worker first drains one *)
(* outbox row, so a row that is again and again claimable is claimed, and  *)
(* a worker that keeps its lease reports.                                  *)
(***************************************************************************)
PlaneFairness ==
  /\ SF_planeVars(UNCHANGED dataVars /\ \E j \in Jobs : ClaimSyncJob(j))
  /\ \A j \in Jobs : WF_planeVars(\E n \in AttemptNos :
       \/ PageStep(j, n)
       \/ UNCHANGED dataVars /\ \E code \in ReportedCodes : FailSyncJob(j, n, code))
  /\ \A j \in Jobs : WF_planeVars(UNCHANGED dataVars /\ BackoffElapses(j))
  /\ WF_planeVars(UNCHANGED dataVars /\ ReleaseArchiveJob)
  /\ WF_planeVars(UNCHANGED dataVars /\ CircuitCloses)
  /\ SF_planeVars(\E j \in Jobs, n \in PageNos : ClaimPostCommitWork(j, n))
  /\ \A j \in Jobs, n \in PageNos : WF_planeVars(FinishWork(j, n))
  /\ \A j \in Jobs, n \in PageNos : WF_planeVars(WorkBackoffElapses(j, n))

FairPlaneSpec == PlaneSpec /\ PlaneFairness

-----------------------------------------------------------------------------
(* What the data plane promises.                                           *)

\* A partition is in CONFLICT just when one of its identities has evidence of
\* two digests, whatever pages of other jobs were stored in between.
ConflictsAreQuarantined ==
  \A c \in Connections, p \in Partitions :
    coverage[c][p].state = "CONFLICT" <=> \E e \in EventIds : EventPart[e] = p /\ Conflicting(c, e)

\* The generations of a connection are numbered without gaps, only the current
\* one is PUBLISHED, no job is published twice, and the effects of every page
\* of a published job are done, also after the credential has been rotated.
PublishedOnce ==
  \A c \in Connections :
    /\ \A g \in GenerationNos :
         /\ generation[c][g].status # "NONE" <=> g <= current[c]
         /\ generation[c][g].status = "PUBLISHED" <=> g = current[c]
         /\ \A j \in generation[c][g].jobs :
              /\ job[j].status = "SUCCEEDED" /\ job[j].conn = c
              /\ \A n \in 1..job[j].pages : work[j][n].status = "DONE"
    /\ \A g, h \in GenerationNos : g # h => generation[c][g].jobs \cap generation[c][h].jobs = {}

\* The source root of a later generation holds every event of an earlier one:
\* a review made against a generation never refers to an event that is gone.
RootsGrow ==
  \A c \in Connections : \A g, h \in 1..current[c] :
    g < h => generation[c][g].root \subseteq generation[c][h].root

\* What rv2_service_publish_generation promises the reviews that refer to it.
PublicationsAreSound == PublishedOnce /\ RootsGrow

\* Once a partition is in CONFLICT its watermarks stay where they are and no
\* event is added to it, and while a connection has evidence of a conflict it
\* publishes nothing.
QuarantineIsPermanent ==
  [][\A c \in Connections :
       /\ \A p \in Partitions : coverage[c][p].state = "CONFLICT" =>
            /\ coverage'[c][p] = coverage[c][p]
            /\ \A e \in EventIds : EventPart[e] = p => event'[c][e] = event[c][e]
       /\ (\E e \in EventIds : Conflicting(c, e)) => generation'[c] = generation[c]]_planeVars

\* What a connection has stored is never rewritten or withdrawn by a retry, a
\* replayed page, a rotation or a publication: events, the watermarks of a
\* partition and the contents of a generation only grow.
HistoryIsAppendOnly ==
  [][\A c \in Connections :
       /\ \A e \in EventIds : Stored(c, e) => event'[c][e] = event[c][e]
       /\ \A p \in Partitions : /\ coverage'[c][p].committed >= coverage[c][p].committed
                                 /\ coverage'[c][p].trusted >= coverage[c][p].trusted
                                 /\ coverage'[c][p].trusted <= coverage'[c][p].committed
       /\ \A g \in 1..current[c] : /\ generation'[c][g].jobs = generation[c][g].jobs
                                    /\ generation'[c][g].root = generation[c][g].root
       /\ current'[c] \in {current[c], current[c] + 1}]_planeVars

\* With its pages, conflicts, outbox and publications the queue is still the
\* queue of SyncQueue.
ImplementsQueue == Spec

PublishedOrUnusable(j) ==
  (\E c \in Connections : j \in PublishedJobs(c)) \/ ~Usable(job[j].conn, job[j].version)

\* With a provider that does not fail, a job that succeeded is listed by a
\* generation in the end, unless its connection stops being usable or one of
\* its outbox rows ran out of retries: whatever other job of the connection
\* was open when its own effects were done, a later completion publishes it.
SucceededJobsPublished ==
  \A j \in Jobs :
    job[j].status = "SUCCEEDED"
      ~> \/ PublishedOrUnusable(j)
         \/ \E k \in Jobs, n \in PageNos : work[k][n].status = "FAILED"

-----------------------------------------------------------------------------
(* What comments of the migration say, and the code does not keep.         *)

\* "The immutable event page becomes trusted only after its durable
\* post-commit effect is complete" (rv2_service_complete_post_commit_work).
TrustedPagesAreDone ==
  \A c \in Connections : \A e \in Root(c, coverage[c]) :
    work[event[c][e].job][event[c][e].page].status = "DONE"

\* The placeholder manifest "is replaced by the final source+projection-bound
\* manifest before the transaction can commit" (rv2_service_publish_generation):
\* while no call fails for a reason of its own, a job that succeeded is published.
PublicationFinalizes ==
  \A j \in Jobs : job[j].status = "SUCCEEDED" ~> PublishedOrUnusable(j)

\* A last page, which the worker commits with a null cursor, completes its job
\* (tests/binance-beta-worker.test.mjs): with a provider that does not fail,
\* a job succeeds, is cancelled or loses its connection.
JobsSucceed ==
  \A j \in Jobs :
    job[j].status \in Unfinished
      ~> (job[j].status \in {"SUCCEEDED", "CANCELLED"} \/ ~Usable(job[j].conn, job[j].version))

=============================================================================
