------------------------------ MODULE SyncQueue ------------------------------
(***************************************************************************)
(* The sync queue of the rv2 data plane: connections and their credential  *)
(* versions, sync jobs, the attempts made on them, the one egress lease    *)
(* that every worker shares, the global circuit breaker and the order in   *)
(* which jobs are served.                                                  *)
(*                                                                         *)
(* One action is one PL/pgSQL function (one transaction) of                *)
(* supabase/migrations/20260831000100_invite_beta_rv2_data_plane.sql,      *)
(* except rv2_enqueue_sync, which reads the connection without a lock and  *)
(* inserts the job later: it is two actions.  Time is abstract: a lease is *)
(* a number of ticks left, a backoff, a due time and the circuit breaker   *)
(* are flags that an action of their own clears.                           *)
(*                                                                         *)
(* The worker is not trusted to be alive, alone or on time: every action   *)
(* of a lease holder takes the attempt number n whose claim token the call *)
(* carries, and any attempt ever made may still have a call under way.     *)
(***************************************************************************)
EXTENDS Integers, FiniteSets

CONSTANTS
  Connections,         \* connection ids
  NoConnection,        \* "no connection"
  ArchiveConnections,  \* the connections that also have archive work
  Jobs,                \* sync job ids; their order is the uuid order
  Partitions,          \* dataset x partition_key
  DefaultPartitions,   \* the partitions every connection is given
  NoPartition,
  ErrorCodes,          \* the failures the provider and the worker produce
  FinalCursorIsNull,   \* what a worker sends as p_next_cursor of a last page
  MaxActive,           \* rv2_enforce_tenant_limits: 10
  MaxFailures,         \* rv2_sync_jobs_failure_check: 8
  MaxAttempts,         \* rv2_sync_jobs_attempt_check: 10000
  LeaseTerm,           \* ticks in a lease
  MaxPages,            \* bound: pages in the longest backlog
  MaxVersion,          \* bound: credential versions of a connection
  MaxExpiries          \* bound: leases lost by one job

(***************************************************************************)
(* The classes of error code rv2_service_fail_sync_job tells apart.  The   *)
(* worker retries the first three.  UPSTREAM_UNAVAILABLE stands for every  *)
(* retryable code without a delay and PAGE_INVALID for every terminal code *)
(* that leaves the connection alone.                                       *)
(***************************************************************************)
RetryableCodes == {"RATE_LIMITED", "GLOBAL_CIRCUIT_OPEN", "UPSTREAM_UNAVAILABLE"}
DelayedCodes   == {"RATE_LIMITED", "GLOBAL_CIRCUIT_OPEN"}
FailureCodes   == RetryableCodes \cup {"AUTH_DISABLED", "PAGE_INVALID"}

ASSUME ConnectionsAssumption ==
  /\ NoConnection \notin Connections
  /\ ArchiveConnections \subseteq Connections
ASSUME JobsAssumption == Jobs \subseteq Nat
ASSUME PartitionsAssumption ==
  /\ NoPartition \notin Partitions
  /\ DefaultPartitions \subseteq Partitions
ASSUME CodesAssumption ==
  /\ ErrorCodes \subseteq FailureCodes
  /\ FinalCursorIsNull \in BOOLEAN
ASSUME BoundsAssumption ==
  /\ MaxActive \in Nat \ {0} /\ MaxFailures \in Nat \ {0}
  /\ MaxAttempts \in Nat \ {0} /\ LeaseTerm \in Nat \ {0}
  /\ MaxPages \in Nat \ {0} /\ MaxVersion \in Nat \ {0}
  /\ MaxExpiries \in Nat

VARIABLES
  conn,           \* rv2_connections
  known,          \* rv2_sync_partitions: the partitions of each connection
  job,            \* rv2_sync_jobs
  attempt,        \* rv2_sync_attempts, by job and attempt_no
  before,         \* <<i, j>> \in before: available_at of i precedes that of j
  reading,        \* the version an rv2_enqueue_sync call under way has read
  circuitOpen,    \* rv2_worker_control.circuit_open_until lies in the future
  archiveHolder   \* the connection whose archive job holds the shared lease

queueVars == <<conn, known, job, attempt, before, reading, circuitOpen, archiveHolder>>

ConnStatus    == {"ABSENT", "ACTIVE", "AUTH_ERROR", "RATE_LIMITED", "DISABLED", "REVOKED"}
JobStatus     == {"NONE", "QUEUED", "CLAIMED", "SUCCEEDED", "FAILED", "CANCELLED"}
AttemptStatus == {"NONE", "CLAIMED", "COMMITTED", "FAILED", "EXPIRED"}
Unfinished    == {"QUEUED", "CLAIMED"}
Settled       == {"SUCCEEDED", "FAILED", "CANCELLED"}
AttemptNos    == 1..MaxAttempts

\* verified is permission_state = 'READ_ONLY_VERIFIED'; due is next_due_at <= now.
Connection == [status   : ConnStatus,
               verified : BOOLEAN,
               version  : 0..MaxVersion,
               due      : BOOLEAN]

\* token is the attempt that owns claim_token (0 for null); available is
\* available_at <= now; lease is what is left of lease_expires_at.
Job == [status    : JobStatus,
        conn      : Connections \cup {NoConnection},
        part      : Partitions \cup {NoPartition},
        version   : 0..MaxVersion,
        attempts  : 0..MaxAttempts,
        failures  : 0..MaxFailures,
        token     : 0..MaxAttempts,
        lease     : 0..LeaseTerm,
        available : BOOLEAN,
        pages     : 0..MaxPages]

NoJob == [status |-> "NONE", conn |-> NoConnection, part |-> NoPartition,
          version |-> 0, attempts |-> 0, failures |-> 0, token |-> 0,
          lease |-> 0, available |-> FALSE, pages |-> 0]

TypeOK ==
  /\ conn \in [Connections -> Connection]
  /\ known \in [Connections -> SUBSET Partitions]
  /\ job \in [Jobs -> Job]
  /\ attempt \in [Jobs -> [AttemptNos -> AttemptStatus]]
  /\ before \in SUBSET (Jobs \X Jobs)
  /\ reading \in [Connections -> 0..MaxVersion]
  /\ circuitOpen \in BOOLEAN
  /\ archiveHolder \in Connections \cup {NoConnection}

Init ==
  /\ conn = [c \in Connections |->
               [status |-> "ABSENT", verified |-> FALSE, version |-> 0, due |-> FALSE]]
  /\ known = [c \in Connections |-> {}]
  /\ job = [j \in Jobs |-> NoJob]
  /\ attempt = [j \in Jobs |-> [n \in AttemptNos |-> "NONE"]]
  /\ before = {}
  /\ reading = [c \in Connections |-> 0]
  /\ circuitOpen = FALSE
  /\ archiveHolder = NoConnection

-----------------------------------------------------------------------------
(* Leases, eligibility and order.                                          *)

Live(j) == job[j].status = "CLAIMED" /\ job[j].lease > 0

\* Slip: a sync claim that looks at the sync leases alone.
LeaseHeldBySync == \E j \in Jobs : Live(j)

LeaseHeld == archiveHolder # NoConnection \/ \E j \in Jobs : Live(j)

\* Slips: a fence that compares the token alone, or forgets the clock.
HoldsToken(j, n) == n # 0 /\ job[j].token = n
HoldsPastLease(j, n) == job[j].status = "CLAIMED" /\ job[j].token = n

\* The fence of every call of a lease holder: its token is the current one
\* and its lease has not run out.
Holds(j, n) == Live(j) /\ job[j].token = n

\* The connection may be read from with credential version v.
Usable(c, v) ==
  c \in Connections /\ conn[c].status = "ACTIVE" /\ conn[c].verified /\ conn[c].version = v

InLine == {j \in Jobs : job[j].status \in Unfinished /\ job[j].available}

Leave(S) == {p \in before : p[1] \notin S /\ p[2] \notin S}

\* The jobs of S get available_at = now: they go behind every job in line,
\* those that share a timestamp in job_id order.
ToBack(S) ==
  Leave(S) \cup ((InLine \ S) \X S) \cup {p \in S \X S : p[1] < p[2]}

\* Slip: a claim whose lease ran out is never taken over.
EligibleQueued(j) ==
  /\ job[j].available
  /\ job[j].status = "QUEUED"
  /\ job[j].failures < MaxFailures
  /\ Usable(job[j].conn, job[j].version)

Eligible(j) ==
  /\ job[j].available
  /\ job[j].status = "QUEUED" \/ (job[j].status = "CLAIMED" /\ job[j].lease = 0)
  /\ job[j].failures < MaxFailures
  /\ Usable(job[j].conn, job[j].version)

\* order by available_at, job_id limit 1.
Head(j) == Eligible(j) /\ \A k \in Jobs : Eligible(k) => <<k, j>> \notin before

Expiries(j) ==
  Cardinality({n \in AttemptNos : attempt[j][n] = "EXPIRED"})

-----------------------------------------------------------------------------
(* Connections.                                                            *)

\* rv2_enforce_tenant_limits, run when a row becomes ACTIVE.
WithinLimit(c, status) ==
  status = "ACTIVE" /\ conn[c].status # "ACTIVE" =>
    Cardinality({d \in Connections : conn[d].status = "ACTIVE"}) < MaxActive

\* rv2_connections after an update of the status and the due time of c.
ConnectionLeft(c, status, due) ==
  [conn EXCEPT ![c] = [conn[c] EXCEPT !.status = status, !.due = due]]

GrantedStatus(ok) == IF ok THEN "ACTIVE" ELSE "DISABLED"

CreateConnection(c, ok) ==
  /\ conn[c].status = "ABSENT"
  /\ WithinLimit(c, GrantedStatus(ok))
  /\ conn' = [conn EXCEPT ![c] = [status |-> GrantedStatus(ok), verified |-> ok,
                                  version |-> 1, due |-> ok]]
  /\ UNCHANGED <<known, job, attempt, before, reading, circuitOpen, archiveHolder>>

\* Slips: jobs under way are left to finish; attempts that ended are closed again.
CancelledQueued(S) ==
  [j \in Jobs |-> IF j \in S /\ job[j].status = "QUEUED"
                  THEN [job[j] EXCEPT !.status = "CANCELLED"] ELSE job[j]]
AttemptsAllClosed(S) ==
  [j \in Jobs |-> [n \in AttemptNos |->
     IF j \in S /\ attempt[j][n] # "NONE" THEN "FAILED" ELSE attempt[j][n]]]

\* The jobs of S are CANCELLED; their claimed attempts FAILED.
Cancelled(S) ==
  [j \in Jobs |-> IF j \in S THEN [job[j] EXCEPT !.status = "CANCELLED", !.lease = 0]
                             ELSE job[j]]
AttemptsClosed(S) ==
  [j \in Jobs |-> [n \in AttemptNos |->
     IF j \in S /\ attempt[j][n] = "CLAIMED" THEN "FAILED" ELSE attempt[j][n]]]

\* The archive jobs of c are CANCELLED, and with them the lease one may hold.
ArchiveReleased(c) == IF archiveHolder = c THEN NoConnection ELSE archiveHolder

\* A rotation closes the attempts before it cancels the jobs, and a claim does
\* not lock the connection: an attempt claimed in between is missed.  Its lease
\* is still full.
JustClaimed(S) == {j \in S : job[j].lease = LeaseTerm}

RotateConnection(c, expected, ok) ==
  LET old == {j \in Jobs : /\ job[j].conn = c /\ job[j].version = conn[c].version
                           /\ job[j].status \in Unfinished} IN
  /\ conn[c].status # "ABSENT"
  /\ conn[c].version = expected
  /\ expected < MaxVersion
  /\ WithinLimit(c, GrantedStatus(ok))
  /\ conn' = [conn EXCEPT ![c] = [status |-> GrantedStatus(ok), verified |-> ok,
                                  version |-> expected + 1, due |-> ok]]
  /\ job' = Cancelled(old)
  /\ \E missed \in SUBSET JustClaimed(old) : attempt' = AttemptsClosed(old \ missed)
  /\ before' = Leave(old)
  /\ archiveHolder' = ArchiveReleased(c)
  /\ UNCHANGED <<known, reading, circuitOpen>>

DisconnectConnection(c, expected) ==
  LET open == {j \in Jobs : job[j].conn = c /\ job[j].status \in Unfinished}
      gone == open \cup {j \in Jobs : job[j].conn = c /\ job[j].status = "CANCELLED"} IN
  /\ conn[c].status \notin {"ABSENT", "REVOKED"}
  /\ conn[c].version = expected
  /\ conn' = ConnectionLeft(c, "REVOKED", FALSE)
  /\ job' = Cancelled(open)
  /\ attempt' = AttemptsClosed(gone)
  /\ before' = Leave(open)
  /\ archiveHolder' = ArchiveReleased(c)
  /\ UNCHANGED <<known, reading, circuitOpen>>

-----------------------------------------------------------------------------
(* Enqueueing.                                                             *)

NewJob(c, p, v) == [NoJob EXCEPT !.status = "QUEUED", !.conn = c, !.part = p,
                                 !.version = v, !.available = TRUE]

\* rv2_enqueue_sync up to the advisory lock: the version is read, no row is
\* locked.
EnqueueRead(c) ==
  /\ reading[c] = 0
  /\ Usable(c, conn[c].version)
  /\ reading' = [reading EXCEPT ![c] = conn[c].version]
  /\ UNCHANGED <<conn, known, job, attempt, before, circuitOpen, archiveHolder>>

\* ... and from there on: a first use of the idempotency key inserts the job.
EnqueueInsert(c, j, p) ==
  /\ reading[c] # 0
  /\ job[j].status = "NONE"
  /\ known' = [known EXCEPT ![c] = @ \cup {p}]
  /\ job' = [job EXCEPT ![j] = NewJob(c, p, reading[c])]
  /\ before' = ToBack({j})
  /\ reading' = [reading EXCEPT ![c] = 0]
  /\ UNCHANGED <<conn, attempt, circuitOpen, archiveHolder>>

\* ... a key already used, with this request or another, or a lost call.
EnqueueReturn(c) ==
  /\ reading[c] # 0
  /\ reading' = [reading EXCEPT ![c] = 0]
  /\ UNCHANGED <<conn, known, job, attempt, before, circuitOpen, archiveHolder>>

Busy(c, p) == \E j \in Jobs : /\ job[j].conn = c /\ job[j].part = p
                              /\ job[j].version = conn[c].version
                              /\ job[j].status \in Unfinished

\* rv2_service_enqueue_due_syncs for one due connection.  found are the
\* partitions of the symbols its stored events name; ids gives the new job of
\* each partition that has none open under this version.
EnqueueDue(c, found, ids) ==
  LET fresh == {ids[p] : p \in DOMAIN ids} IN
  /\ conn[c].due
  /\ Usable(c, conn[c].version)
  /\ known' = [known EXCEPT ![c] = @ \cup DefaultPartitions \cup found]
  /\ DOMAIN ids = {p \in known'[c] : ~Busy(c, p)}
  /\ \A p \in DOMAIN ids : job[ids[p]].status = "NONE"
  /\ \A p, q \in DOMAIN ids : ids[p] = ids[q] => p = q
  /\ job' = [j \in Jobs |->
               IF j \in fresh
               THEN NewJob(c, CHOOSE p \in DOMAIN ids : ids[p] = j, conn[c].version)
               ELSE job[j]]
  /\ before' = ToBack(fresh)
  /\ conn' = [conn EXCEPT ![c].due = FALSE]
  /\ UNCHANGED <<attempt, reading, circuitOpen, archiveHolder>>

\* rv2_service_complete_post_commit_work and rv2_service_schedule_discovered_symbols:
\* the symbols of a committed page become partitions.
DiscoverPartitions(c, found) ==
  /\ \E j \in Jobs : /\ job[j].conn = c /\ job[j].pages > 0
                     /\ Usable(c, job[j].version)
  /\ known' = [known EXCEPT ![c] = @ \cup found]
  /\ UNCHANGED <<conn, job, attempt, before, reading, circuitOpen, archiveHolder>>

-----------------------------------------------------------------------------
(* The worker's calls.                                                     *)

\* The row job[j] as each call leaves it.
ClaimedRow(j) ==
  [job[j] EXCEPT !.status = "CLAIMED", !.attempts = @ + 1, !.token = job[j].attempts + 1,
                 !.lease = LeaseTerm]
PagedRow(j, more) ==
  [job[j] EXCEPT !.status = IF more THEN "QUEUED" ELSE "SUCCEEDED", !.pages = @ + 1,
                 !.token = IF more THEN 0 ELSE @, !.lease = 0]
QuarantinedRow(j) == [job[j] EXCEPT !.status = "FAILED", !.lease = 0]
ReportedRow(j, retry, waits) ==
  [job[j] EXCEPT !.status = IF retry THEN "QUEUED" ELSE "FAILED", !.failures = @ + 1,
                 !.token = IF retry THEN 0 ELSE @, !.lease = 0, !.available = ~waits]

\* rv2_service_claim_sync_job.  At MaxAttempts the row's check refuses the
\* head of the line, and nothing behind it is tried.
ClaimSyncJob(j) ==
  LET n == job[j].attempts + 1 IN
  /\ ~circuitOpen
  /\ ~LeaseHeld
  /\ Head(j)
  /\ n \in AttemptNos
  /\ job' = [job EXCEPT ![j] = ClaimedRow(j)]
  /\ attempt' = [attempt EXCEPT ![j] = [m \in AttemptNos |->
                   IF m = n THEN "CLAIMED"
                   ELSE IF @[m] = "CLAIMED" THEN "EXPIRED" ELSE @[m]]]
  /\ UNCHANGED <<conn, known, before, reading, circuitOpen, archiveHolder>>

\* rv2_service_renew_sync_job.
RenewSyncJob(j, n) ==
  /\ Holds(j, n)
  /\ conn[job[j].conn].status = "ACTIVE"
  /\ conn[job[j].conn].version = job[j].version
  /\ job' = [job EXCEPT ![j].lease = LeaseTerm]
  /\ UNCHANGED <<conn, known, attempt, before, reading, circuitOpen, archiveHolder>>

\* What rv2_service_commit_sync_page asks of the caller before it looks at
\* the page.
MayCommit(j, n) ==
  /\ Holds(j, n)
  /\ attempt[j][n] = "CLAIMED"
  /\ Usable(job[j].conn, job[j].version)

\* A page whose identities agree with the stored ones.  The row's page_cursor
\* is NOT NULL: a null p_next_cursor with a last page fails the whole call.
CommitSyncPage(j, n, more) ==
  /\ MayCommit(j, n)
  /\ IF more THEN job[j].pages + 1 < MaxPages ELSE ~FinalCursorIsNull
  /\ job[j].pages < MaxPages
  /\ job' = [job EXCEPT ![j] = PagedRow(j, more)]
  /\ attempt' = [attempt EXCEPT ![j][n] = "COMMITTED"]
  /\ before' = IF more THEN ToBack({j}) ELSE Leave({j})
  /\ conn' = ConnectionLeft(job[j].conn, "ACTIVE", more /\ conn[job[j].conn].due)
  /\ UNCHANGED <<known, reading, circuitOpen, archiveHolder>>

\* A page that contradicts a stored identity, or whose partition is in
\* CONFLICT: it is quarantined and the job ends.
QuarantinePage(j, n) ==
  /\ MayCommit(j, n)
  /\ job' = [job EXCEPT ![j] = QuarantinedRow(j)]
  /\ attempt' = [attempt EXCEPT ![j][n] = "FAILED"]
  /\ before' = Leave({j})
  /\ UNCHANGED <<conn, known, reading, circuitOpen, archiveHolder>>

\* The status a failure report leaves its connection in.
StatusAfter(code, status) ==
  CASE code = "AUTH_DISABLED" -> "AUTH_ERROR"
    [] code \in DelayedCodes  -> "RATE_LIMITED"
    [] OTHER                  -> status

\* rv2_service_fail_sync_job.
FailSyncJob(j, n, code) ==
  LET c == job[j].conn
      retry == code \in RetryableCodes /\ job[j].failures + 1 < MaxFailures
      waits == retry /\ code \in DelayedCodes IN
  /\ Holds(j, n)
  /\ conn[c].version = job[j].version
  /\ job' = [job EXCEPT ![j] = ReportedRow(j, retry, waits)]
  /\ attempt' = [attempt EXCEPT ![j][n] = IF @ = "CLAIMED" THEN "FAILED" ELSE @]
  /\ before' = IF retry /\ ~waits THEN ToBack({j}) ELSE Leave({j})
  /\ conn' = ConnectionLeft(c, StatusAfter(code, conn[c].status), ~waits)
  /\ circuitOpen' = (circuitOpen \/ code = "GLOBAL_CIRCUIT_OPEN")
  /\ UNCHANGED <<known, reading, archiveHolder>>

-----------------------------------------------------------------------------
(* Archive jobs, as far as they share the lease, the circuit breaker and   *)
(* the status of a connection with sync jobs.                              *)

ClaimArchiveJob(c) ==
  /\ ~circuitOpen
  /\ ~LeaseHeld
  /\ Usable(c, conn[c].version)
  /\ archiveHolder' = c
  /\ UNCHANGED <<conn, known, job, attempt, before, reading, circuitOpen>>

\* rv2_service_commit_archive_state, or the lease running out.
ReleaseArchiveJob ==
  /\ archiveHolder # NoConnection
  /\ archiveHolder' = NoConnection
  /\ UNCHANGED <<conn, known, job, attempt, before, reading, circuitOpen>>

\* rv2_service_open_worker_circuit, called in the middle of an archive step.
OpenWorkerCircuit ==
  /\ archiveHolder # NoConnection
  /\ "GLOBAL_CIRCUIT_OPEN" \in ErrorCodes
  /\ circuitOpen' = TRUE
  /\ UNCHANGED <<conn, known, job, attempt, before, reading, archiveHolder>>

\* rv2_service_fail_archive_job; due is next_due_at = v_available_at.
FailArchiveJob(code, due) ==
  /\ archiveHolder # NoConnection
  /\ archiveHolder' = NoConnection
  /\ conn' = ConnectionLeft(archiveHolder, StatusAfter(code, conn[archiveHolder].status), due)
  /\ circuitOpen' = (circuitOpen \/ code = "GLOBAL_CIRCUIT_OPEN")
  /\ UNCHANGED <<known, job, attempt, before, reading>>

-----------------------------------------------------------------------------
(* Time.                                                                   *)

LeaseTick(j) ==
  /\ Live(j)
  /\ job[j].lease = 1 => Expiries(j) < MaxExpiries
  /\ job' = [job EXCEPT ![j].lease = @ - 1]
  /\ UNCHANGED <<conn, known, attempt, before, reading, circuitOpen, archiveHolder>>

BackoffElapses(j) ==
  /\ job[j].status = "QUEUED"
  /\ ~job[j].available
  /\ job' = [job EXCEPT ![j].available = TRUE]
  /\ before' = ToBack({j})
  /\ UNCHANGED <<conn, known, attempt, reading, circuitOpen, archiveHolder>>

DueTimeComes(c) ==
  /\ conn[c].status = "ACTIVE"
  /\ ~conn[c].due
  /\ conn' = [conn EXCEPT ![c].due = TRUE]
  /\ UNCHANGED <<known, job, attempt, before, reading, circuitOpen, archiveHolder>>

CircuitCloses ==
  /\ circuitOpen
  /\ circuitOpen' = FALSE
  /\ UNCHANGED <<conn, known, job, attempt, before, reading, archiveHolder>>

-----------------------------------------------------------------------------
\* The assignments of new jobs to partitions that EnqueueDue may be given.
Assignments == UNION {[S -> Jobs] : S \in SUBSET Partitions}

ConnectionStep(c) ==
  \/ \E ok \in BOOLEAN : CreateConnection(c, ok)
  \/ \E v \in 1..MaxVersion, ok \in BOOLEAN : RotateConnection(c, v, ok)
  \/ \E v \in 1..MaxVersion : DisconnectConnection(c, v)
  \/ EnqueueRead(c)
  \/ \E j \in Jobs, p \in Partitions : EnqueueInsert(c, j, p)
  \/ EnqueueReturn(c)
  \/ \E found \in SUBSET Partitions, ids \in Assignments : EnqueueDue(c, found, ids)
  \/ \E found \in SUBSET Partitions : DiscoverPartitions(c, found)
  \/ DueTimeComes(c)

\* The worker reports a commit the database refused like an outage.
ReportedCodes ==
  ErrorCodes \cup (IF FinalCursorIsNull THEN {"UPSTREAM_UNAVAILABLE"} ELSE {})

\* A call that reports the outcome of attempt n.
Report(j, n) ==
  \/ \E more \in BOOLEAN : CommitSyncPage(j, n, more)
  \/ QuarantinePage(j, n)
  \/ \E code \in ReportedCodes : FailSyncJob(j, n, code)

JobStep(j) ==
  \/ ClaimSyncJob(j)
  \/ \E n \in AttemptNos : RenewSyncJob(j, n) \/ Report(j, n)
  \/ LeaseTick(j)
  \/ BackoffElapses(j)

ArchiveStep ==
  \/ \E c \in ArchiveConnections : ClaimArchiveJob(c)
  \/ ReleaseArchiveJob
  \/ OpenWorkerCircuit
  \/ \E code \in ErrorCodes, due \in BOOLEAN : FailArchiveJob(code, due)

Next ==
  \/ \E c \in Connections : ConnectionStep(c)
  \/ \E j \in Jobs : JobStep(j)
  \/ ArchiveStep
  \/ CircuitCloses

Spec == Init /\ [][Next]_queueVars

(***************************************************************************)
(* pg_cron wakes one sync worker a minute and one archive worker every ten *)
(* minutes, so a job that is again and again claimable is claimed; a call  *)
(* that keeps the lease to its end reports; time passes.  Nobody is        *)
(* obliged to connect, rotate, disconnect, enqueue or lose a lease.        *)
(***************************************************************************)
Fairness ==
  /\ SF_queueVars(\E j \in Jobs : ClaimSyncJob(j))
  /\ \A j \in Jobs : WF_queueVars(\E n \in AttemptNos : Report(j, n))
  /\ \A j \in Jobs : WF_queueVars(BackoffElapses(j))
  /\ WF_queueVars(ReleaseArchiveJob)
  /\ WF_queueVars(CircuitCloses)

FairSpec == Spec /\ Fairness

-----------------------------------------------------------------------------
(* What the queue promises.                                                *)

\* However calls of live, late and dead workers interleave, at most one
\* unexpired lease exists, sync and archive together (claim_sync_job and
\* claim_archive_job, "one global egress lease").
SharedLease ==
  /\ \A j, k \in Jobs : Live(j) /\ Live(k) => j = k
  /\ \A j \in Jobs : Live(j) => archiveHolder = NoConnection

\* The attempts table and the job row agree: the claim in force has an open
\* attempt, no other attempt of the job is open, except one a rotation missed
\* of a job it cancelled, and no attempt lies in the future.
AttemptsAgree ==
  \A j \in Jobs, n \in AttemptNos :
    /\ job[j].status = "CLAIMED" /\ job[j].token = n => attempt[j][n] = "CLAIMED"
    /\ attempt[j][n] = "CLAIMED" =>
         job[j].token = n /\ job[j].status \in {"CLAIMED", "CANCELLED"}
    /\ attempt[j][n] # "NONE" <=> n <= job[j].attempts

\* A claimed job, its lease live or lost, reads with the current credential of
\* a connection that was neither disabled nor revoked: rotation and disconnect
\* leave no claim of the old credential behind.
ClaimsUseCurrentCredential ==
  \A j \in Jobs : job[j].status = "CLAIMED" =>
    /\ job[j].version = conn[job[j].conn].version
    /\ conn[job[j].conn].status \in {"ACTIVE", "AUTH_ERROR", "RATE_LIMITED"}

SettledKept ==
  /\ \A j \in Jobs : job[j].status \in Settled => job'[j] = job[j]
  /\ \A j \in Jobs, n \in AttemptNos :
       attempt[j][n] \in {"COMMITTED", "FAILED", "EXPIRED"} => attempt'[j][n] = attempt[j][n]

\* A settled job and a settled attempt never change again: no late report,
\* retry, rotation or disconnect rewrites what a worker was told.
SettledForever == [][SettledKept]_queueVars

PagesFenced ==
  \A j \in Jobs : job'[j].pages # job[j].pages =>
    /\ job'[j].pages = job[j].pages + 1
    /\ Live(j)
    /\ Usable(job[j].conn, job[j].version)
    /\ attempt'[j][job[j].token] = "COMMITTED"

\* A page is added only by the attempt that holds the unexpired lease, on a
\* connection that can still be read with that attempt's credential.
PagesNeedTheLease == [][PagesFenced]_queueVars

\* A job that can be served is served to its end, unless its connection stops
\* being usable: expired leases, retries, the circuit breaker and archive work
\* only delay it.
JobsSettle ==
  \A j \in Jobs :
    job[j].status \in Unfinished
      ~> (job[j].status \in Settled \/ ~Usable(job[j].conn, job[j].version))

-----------------------------------------------------------------------------
(* What the documents and tests say, and the code does not keep.           *)

\* "429: honour Retry-After ...", "418: ... wait for a manual or timed release"
\* (docs/INVITE-BETA-BACKEND.md): a job that waits on a rate-limited connection
\* is tried again, or its connection is rotated or disconnected.
DelayedJobsRetried ==
  \A j \in Jobs :
    (job[j].status = "QUEUED" /\ conn[job[j].conn].status = "RATE_LIMITED")
      ~> job[j].status # "QUEUED"

\* "Rotation ... cancels every unfinished task of the old versions"
\* (docs/INVITE-BETA-BACKEND.md): no job of another version than the current
\* one is waiting or running.
OldVersionsCancelled ==
  \A j \in Jobs : job[j].status \in Unfinished => job[j].version = conn[job[j].conn].version

-----------------------------------------------------------------------------
\* The queue implements page logs that share one lease.
Holders == {j \in Jobs : Live(j)}
PageLog == [j \in Jobs |-> job[j].pages]
Phase   == [j \in Jobs |-> IF job[j].status = "NONE" THEN "absent"
                           ELSE IF job[j].status \in Unfinished THEN "open" ELSE "closed"]

Log == INSTANCE LeasedLog WITH
  holders <- Holders, outside <- (archiveHolder # NoConnection), log <- PageLog, phase <- Phase

\* Every behaviour of the queue is a behaviour of leased page logs: retries,
\* lost leases, late calls and cancellations never add, drop or reopen a page.
ImplementsLeasedLog == Log!Spec

=============================================================================
