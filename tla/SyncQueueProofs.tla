--------------------------- MODULE SyncQueueProofs ---------------------------
(***************************************************************************)
(* The invariants of SyncQueue, for every number of connections, jobs and  *)
(* partitions and every bound.                                             *)
(*                                                                         *)
(* TypeOK, SharedLease, AttemptsAgree and ClaimsUseCurrentCredential are   *)
(* not inductive by themselves: a failure report keeps failures in range   *)
(* only if an open job is below the limit, the insertion of a job keeps    *)
(* the attempts table in step only if an unused id has made no attempt,    *)
(* and a report finds the connection of its job only if there is one.      *)
(* RowsInv adds these three facts.  One lemma per action; actions of the   *)
(* same shape share one (rows created, rows cancelled, leases moved, rows  *)
(* left alone).                                                            *)
(***************************************************************************)
EXTENDS SyncQueue, TLAPS

UnusedJobsAreFresh ==
  \A j \in Jobs : job[j].status = "NONE" => job[j] = NoJob
OpenJobsMayFail ==
  \A j \in Jobs : job[j].status \in Unfinished => job[j].failures < MaxFailures
JobsHaveConnections ==
  \A j \in Jobs : job[j].status # "NONE" => job[j].conn \in Connections

RowsInv == UnusedJobsAreFresh /\ OpenJobsMayFail /\ JobsHaveConnections
QueueInv == TypeOK /\ RowsInv /\ SharedLease /\ AttemptsAgree /\ ClaimsUseCurrentCredential

\* Sending jobs to the back of the line, or taking them out, leaves a relation on jobs.
LEMMA OrderTyped ==
  ASSUME before \in SUBSET (Jobs \X Jobs), NEW S \in SUBSET Jobs
  PROVE  /\ ToBack(S) \in SUBSET (Jobs \X Jobs)
         /\ Leave(S) \in SUBSET (Jobs \X Jobs)
  BY DEF ToBack, Leave, InLine

\* Writing one job row leaves every other row as it was.
LEMMA RowWritten ==
  ASSUME TypeOK, NEW j \in Jobs, NEW row \in Job, job' = [job EXCEPT ![j] = row]
  PROVE  /\ job' \in [Jobs -> Job]
         /\ job'[j] = row
         /\ \A k \in Jobs : k # j => job'[k] = job[k]
  BY DEF TypeOK

\* The members of the ranges that the rows are built from.
LEMMA Bounds ==
  /\ 0 \in 0..MaxFailures /\ 0 \in 0..MaxAttempts /\ 0 \in 0..MaxPages
  /\ 0 \in 0..MaxVersion /\ 1 \in 0..MaxVersion
  /\ 0 \in 0..LeaseTerm /\ LeaseTerm \in 0..LeaseTerm /\ LeaseTerm > 0
  /\ 0 < MaxFailures
  /\ \A n \in AttemptNos : n \in 0..MaxAttempts /\ n # 0
  BY BoundsAssumption DEF AttemptNos

\* The placeholder of an id that no job uses yet is a row.
LEMMA NoJobTyped == NoJob \in Job
  BY Bounds DEF NoJob, Job, JobStatus

\* A freshly inserted job is a row: queued, unclaimed, without failures or pages.
LEMMA NewJobTyped ==
  ASSUME NEW c \in Connections, NEW p \in Partitions, NEW v \in 0..MaxVersion
  PROVE  /\ NewJob(c, p, v) \in Job
         /\ NewJob(c, p, v).status = "QUEUED" /\ NewJob(c, p, v).conn = c
         /\ NewJob(c, p, v).version = v /\ NewJob(c, p, v).token = 0
         /\ NewJob(c, p, v).attempts = 0 /\ NewJob(c, p, v).failures = 0
         /\ NewJob(c, p, v).pages = 0
  BY Bounds DEF NewJob, NoJob, Job, JobStatus

\* The empty database satisfies the invariant.
LEMMA InitInv == Init => QueueInv
<1> SUFFICES ASSUME Init PROVE QueueInv
  OBVIOUS
<1>1. TypeOK
  <2>1. conn \in [Connections -> Connection]
    BY Bounds DEF Init, Connection, ConnStatus
  <2>2. attempt \in [Jobs -> [AttemptNos -> AttemptStatus]]
    BY DEF Init, AttemptStatus
  <2>3. QED
    BY <2>1, <2>2, NoJobTyped, Bounds DEF Init, TypeOK
<1>2. RowsInv
  BY DEF Init, RowsInv, UnusedJobsAreFresh, OpenJobsMayFail, JobsHaveConnections, NoJob, Unfinished
<1>3. SharedLease
  BY DEF Init, SharedLease, Live, NoJob
<1>4. AttemptsAgree
  BY DEF Init, AttemptsAgree, NoJob, AttemptNos
<1>5. ClaimsUseCurrentCredential
  BY DEF Init, ClaimsUseCurrentCredential, NoJob
<1>6. QED
  BY <1>1, <1>2, <1>3, <1>4, <1>5 DEF QueueInv

\* An update of the status and due time of one connection is typed, keeps every
\* credential version and the status of every other connection.
LEMMA ConnectionTyped ==
  ASSUME TypeOK, NEW c, NEW status \in ConnStatus, NEW due \in BOOLEAN,
         conn' = ConnectionLeft(c, status, due)
  PROVE  /\ conn' \in [Connections -> Connection]
         /\ \A d \in Connections : /\ conn'[d].version = conn[d].version
                                   /\ d = c => conn'[d].status = status
                                   /\ d # c => conn'[d].status = conn[d].status
  BY DEF TypeOK, ConnectionLeft, Connection

\* rv2_service_commit_sync_page, the page stored, preserves the invariant.
LEMMA CommitInv ==
  ASSUME QueueInv, NEW j \in Jobs, NEW n \in AttemptNos, NEW more \in BOOLEAN,
         CommitSyncPage(j, n, more)
  PROVE  QueueInv'
<1> DEFINE row == PagedRow(j, more)
<1>1. TypeOK /\ job[j] \in Job
  BY DEF QueueInv, TypeOK
<1>2. MayCommit(j, n) /\ Live(j)
  BY DEF CommitSyncPage, MayCommit, Holds
<1>3. job[j].pages + 1 \in 0..MaxPages
  BY <1>1, BoundsAssumption DEF CommitSyncPage, Job
<1>4. row \in Job
  BY <1>1, <1>3, Bounds DEF PagedRow, Job, JobStatus
<1>5. /\ row.status = (IF more THEN "QUEUED" ELSE "SUCCEEDED") /\ row.lease = 0
      /\ row.token = (IF more THEN 0 ELSE job[j].token)
      /\ row.conn = job[j].conn /\ row.version = job[j].version
      /\ row.attempts = job[j].attempts /\ row.failures = job[j].failures
  BY <1>1 DEF PagedRow, Job
<1>6. /\ job' \in [Jobs -> Job]
      /\ job'[j] = row
      /\ \A k \in Jobs : k # j => job'[k] = job[k]
  BY <1>1, <1>4, RowWritten DEF CommitSyncPage
<1> HIDE DEF row
<1>7. TypeOK'
  <2>1. conn' \in [Connections -> Connection]
    BY <1>1, <1>2, ConnectionTyped DEF TypeOK, CommitSyncPage, MayCommit, Usable, Connection, ConnStatus
  <2>2. attempt' \in [Jobs -> [AttemptNos -> AttemptStatus]]
    BY <1>1 DEF TypeOK, CommitSyncPage, AttemptStatus
  <2>3. before' \in SUBSET (Jobs \X Jobs)
    BY <1>1, OrderTyped DEF TypeOK, CommitSyncPage
  <2>4. QED
    BY <2>1, <2>2, <2>3, <1>1, <1>6 DEF TypeOK, CommitSyncPage
<1>8. RowsInv'
  BY <1>2, <1>5, <1>6 DEF QueueInv, RowsInv, UnusedJobsAreFresh, OpenJobsMayFail,
     JobsHaveConnections, Unfinished, Live
<1>9. SharedLease'
  BY <1>5, <1>6 DEF QueueInv, SharedLease, Live, CommitSyncPage
<1>10. AttemptsAgree'
  BY <1>1, <1>2, <1>5, <1>6 DEF QueueInv, TypeOK, AttemptsAgree, CommitSyncPage, MayCommit, Holds, Live
<1>11. ClaimsUseCurrentCredential'
  BY <1>1, <1>2, <1>5, <1>6 DEF QueueInv, TypeOK, RowsInv, JobsHaveConnections, ClaimsUseCurrentCredential,
     CommitSyncPage, ConnectionLeft, Connection
<1>12. QED
  BY <1>7, <1>8, <1>9, <1>10, <1>11 DEF QueueInv

\* rv2_service_commit_sync_page, the page quarantined, preserves the invariant.
LEMMA QuarantineInv ==
  ASSUME QueueInv, NEW j \in Jobs, NEW n \in AttemptNos, QuarantinePage(j, n)
  PROVE  QueueInv'
<1> DEFINE row == QuarantinedRow(j)
<1>1. TypeOK /\ job[j] \in Job
  BY DEF QueueInv, TypeOK
<1>2. MayCommit(j, n) /\ Live(j)
  BY DEF QuarantinePage, MayCommit, Holds
<1>3. row \in Job
  BY <1>1, Bounds DEF QuarantinedRow, Job, JobStatus
<1>4. /\ row.status = "FAILED" /\ row.lease = 0 /\ row.token = job[j].token
      /\ row.conn = job[j].conn /\ row.version = job[j].version
      /\ row.attempts = job[j].attempts /\ row.failures = job[j].failures
  BY <1>1 DEF QuarantinedRow, Job
<1>5. /\ job' \in [Jobs -> Job]
      /\ job'[j] = row
      /\ \A k \in Jobs : k # j => job'[k] = job[k]
  BY <1>1, <1>3, RowWritten DEF QuarantinePage
<1> HIDE DEF row
<1>6. TypeOK'
  <2>1. attempt' \in [Jobs -> [AttemptNos -> AttemptStatus]]
    BY <1>1 DEF TypeOK, QuarantinePage, AttemptStatus
  <2>2. before' \in SUBSET (Jobs \X Jobs)
    BY <1>1, OrderTyped DEF TypeOK, QuarantinePage
  <2>3. QED
    BY <2>1, <2>2, <1>1, <1>5 DEF TypeOK, QuarantinePage
<1>7. RowsInv'
  BY <1>2, <1>4, <1>5 DEF QueueInv, RowsInv, UnusedJobsAreFresh, OpenJobsMayFail,
     JobsHaveConnections, Unfinished, Live, QuarantinePage
<1>8. SharedLease'
  BY <1>4, <1>5 DEF QueueInv, SharedLease, Live, QuarantinePage
<1>9. AttemptsAgree'
  BY <1>1, <1>2, <1>4, <1>5 DEF QueueInv, TypeOK, AttemptsAgree, QuarantinePage, MayCommit,
     Holds, Live
<1>10. ClaimsUseCurrentCredential'
  BY <1>4, <1>5 DEF QueueInv, ClaimsUseCurrentCredential, QuarantinePage
<1>11. QED
  BY <1>6, <1>7, <1>8, <1>9, <1>10 DEF QueueInv

\* rv2_service_fail_sync_job preserves the invariant: the failure count of a job that
\* may be retried is below its limit, and the connection stays one it may be read with.
LEMMA FailInv ==
  ASSUME QueueInv, NEW j \in Jobs, NEW n \in AttemptNos, NEW code, FailSyncJob(j, n, code)
  PROVE  QueueInv'
<1> DEFINE retry == code \in RetryableCodes /\ job[j].failures + 1 < MaxFailures
           waits == retry /\ code \in DelayedCodes
           row == ReportedRow(j, retry, waits)
           c == job[j].conn
<1>1. TypeOK /\ job[j] \in Job
  BY DEF QueueInv, TypeOK
<1>2. Holds(j, n) /\ Live(j)
  BY DEF FailSyncJob, Holds
<1>3. c \in Connections /\ job[j].failures < MaxFailures
  BY <1>2 DEF QueueInv, RowsInv, JobsHaveConnections, OpenJobsMayFail, Live, Unfinished
<1>4. job[j].failures + 1 \in 0..MaxFailures
  BY <1>1, <1>3, BoundsAssumption DEF Job
<1>5. row \in Job
  BY <1>1, <1>4, Bounds DEF ReportedRow, Job, JobStatus
<1>6. /\ row.status = (IF retry THEN "QUEUED" ELSE "FAILED") /\ row.lease = 0
      /\ row.token = (IF retry THEN 0 ELSE job[j].token)
      /\ row.conn = job[j].conn /\ row.version = job[j].version
      /\ row.attempts = job[j].attempts /\ row.failures = job[j].failures + 1
  BY <1>1 DEF ReportedRow, Job
<1>7. job' = [job EXCEPT ![j] = row]
  BY DEF FailSyncJob
<1>8. /\ job' \in [Jobs -> Job]
      /\ job'[j] = row
      /\ \A k \in Jobs : k # j => job'[k] = job[k]
  BY <1>1, <1>5, <1>7, RowWritten
<1>9. attempt[j][n] = "CLAIMED"
  BY <1>2 DEF QueueInv, AttemptsAgree, Holds, Live
<1>10. StatusAfter(code, conn[c].status) \in ConnStatus
  BY <1>1, <1>3 DEF StatusAfter, TypeOK, Connection, ConnStatus
<1>11. conn' = ConnectionLeft(c, StatusAfter(code, conn[c].status), ~waits)
  BY DEF FailSyncJob
<1> HIDE DEF row
<1>12. TypeOK'
  <2>1. conn' \in [Connections -> Connection]
    BY <1>1, <1>10, <1>11, ConnectionTyped
  <2>2. attempt' \in [Jobs -> [AttemptNos -> AttemptStatus]]
    BY <1>1 DEF TypeOK, FailSyncJob, AttemptStatus
  <2>3. before' \in SUBSET (Jobs \X Jobs)
    BY <1>1, OrderTyped DEF TypeOK, FailSyncJob
  <2>4. circuitOpen' \in BOOLEAN
    BY <1>1 DEF TypeOK, FailSyncJob
  <2>5. QED
    BY <2>1, <2>2, <2>3, <2>4, <1>1, <1>8 DEF TypeOK, FailSyncJob
<1>13. RowsInv'
  BY <1>2, <1>6, <1>8 DEF QueueInv, RowsInv, UnusedJobsAreFresh, OpenJobsMayFail,
     JobsHaveConnections, Unfinished, Live
<1>14. SharedLease'
  BY <1>6, <1>8 DEF QueueInv, SharedLease, Live, FailSyncJob
<1>15. AttemptsAgree'
  <2>1. attempt' = [attempt EXCEPT ![j][n] = "FAILED"]
    BY <1>9 DEF FailSyncJob
  <2>2. QED
    BY <2>1, <1>1, <1>2, <1>6, <1>8 DEF QueueInv, TypeOK, AttemptsAgree, Holds, Live
<1>16. ClaimsUseCurrentCredential'
  <2>1. \A d \in Connections :
          /\ conn'[d].version = conn[d].version
          /\ d = c => conn'[d].status = StatusAfter(code, conn[c].status)
          /\ d # c => conn'[d].status = conn[d].status
    <3> DEFINE after == StatusAfter(code, conn[c].status)
               due   == ~waits
    <3>1. due \in BOOLEAN /\ after \in ConnStatus /\ conn' = ConnectionLeft(c, after, due)
      BY <1>10, <1>11
    <3> HIDE DEF due, after, c
    <3>2. \A d \in Connections : /\ conn'[d].version = conn[d].version
                                 /\ d = c => conn'[d].status = after
                                 /\ d # c => conn'[d].status = conn[d].status
      BY <1>1, <3>1, ConnectionTyped
    <3>3. QED
      BY <3>2 DEF after
  <2>2. QED
    BY <2>1, <1>6, <1>8 DEF QueueInv, RowsInv, JobsHaveConnections, ClaimsUseCurrentCredential,
       StatusAfter
<1>17. QED
  BY <1>12, <1>13, <1>14, <1>15, <1>16 DEF QueueInv

\* rv2_service_claim_sync_job preserves the invariant: the new attempt is the only
\* open one of its job, because the previous one, if still open, is expired by the claim.
LEMMA ClaimInv ==
  ASSUME QueueInv, NEW j \in Jobs, ClaimSyncJob(j)
  PROVE  QueueInv'
<1> DEFINE n == job[j].attempts + 1
           row == ClaimedRow(j)
<1>1. TypeOK /\ job[j] \in Job
  BY DEF QueueInv, TypeOK
<1>2. n \in AttemptNos /\ Eligible(j) /\ ~LeaseHeld
  BY DEF ClaimSyncJob, Head
<1>3. Usable(job[j].conn, job[j].version) /\ job[j].failures < MaxFailures
  BY <1>2 DEF Eligible
<1>4. row \in Job
  BY <1>1, <1>2, Bounds DEF ClaimedRow, Job, JobStatus
<1>5. /\ row.status = "CLAIMED" /\ row.token = n /\ row.attempts = n
      /\ row.conn = job[j].conn /\ row.version = job[j].version
      /\ row.failures = job[j].failures
  BY <1>1 DEF ClaimedRow, Job
<1>6. /\ job' \in [Jobs -> Job]
      /\ job'[j] = row
      /\ \A k \in Jobs : k # j => job'[k] = job[k]
  BY <1>1, <1>4, RowWritten DEF ClaimSyncJob
<1>7. /\ attempt' \in [Jobs -> [AttemptNos -> AttemptStatus]]
      /\ \A m \in AttemptNos : attempt'[j][m] =
           IF m = n THEN "CLAIMED" ELSE IF attempt[j][m] = "CLAIMED" THEN "EXPIRED" ELSE attempt[j][m]
      /\ \A k \in Jobs : k # j => attempt'[k] = attempt[k]
  BY <1>1 DEF ClaimSyncJob, TypeOK, AttemptStatus
<1> HIDE DEF row
<1>8. TypeOK'
  BY <1>1, <1>6, <1>7 DEF TypeOK, ClaimSyncJob
<1>9. RowsInv'
  BY <1>3, <1>5, <1>6 DEF QueueInv, RowsInv, UnusedJobsAreFresh, OpenJobsMayFail,
     JobsHaveConnections, Usable, ClaimSyncJob
<1>10. SharedLease'
  BY <1>2, <1>6 DEF SharedLease, LeaseHeld, Live, ClaimSyncJob
<1>11. AttemptsAgree'
  <2>1. \A m \in AttemptNos : m <= n <=> m <= job[j].attempts \/ m = n
    BY <1>1 DEF Job, AttemptNos
  <2>2. QED
    BY <2>1, <1>2, <1>5, <1>6, <1>7 DEF QueueInv, AttemptsAgree
<1>12. ClaimsUseCurrentCredential'
  BY <1>3, <1>5, <1>6 DEF QueueInv, ClaimsUseCurrentCredential, Usable, ClaimSyncJob
<1>13. QED
  BY <1>8, <1>9, <1>10, <1>11, <1>12 DEF QueueInv

\* Renewing a lease or losing time of it preserves the invariant.
LEMMA LeaseMovesInv ==
  ASSUME QueueInv, NEW j \in Jobs, NEW l \in 0..LeaseTerm, Live(j),
         job' = [job EXCEPT ![j].lease = l],
         UNCHANGED <<conn, known, attempt, before, reading, circuitOpen, archiveHolder>>
  PROVE  QueueInv'
<1>1. TypeOK /\ job[j] \in Job
  BY DEF QueueInv, TypeOK
<1>2. job' \in [Jobs -> Job]
  BY <1>1 DEF TypeOK, Job
<1>3. \A k \in Jobs :
        /\ job'[k].status = job[k].status /\ job'[k].conn = job[k].conn
        /\ job'[k].version = job[k].version /\ job'[k].token = job[k].token
        /\ job'[k].attempts = job[k].attempts /\ job'[k].failures = job[k].failures
        /\ k # j => job'[k] = job[k]
  BY <1>1 DEF TypeOK, Job
<1>4. TypeOK'
  BY <1>1, <1>2 DEF TypeOK
<1>5. RowsInv'
  BY <1>3 DEF QueueInv, RowsInv, UnusedJobsAreFresh, OpenJobsMayFail, JobsHaveConnections, Live
<1>6. SharedLease'
  BY <1>3 DEF QueueInv, SharedLease, Live
<1>7. AttemptsAgree' /\ ClaimsUseCurrentCredential'
  BY <1>3 DEF QueueInv, AttemptsAgree, ClaimsUseCurrentCredential
<1>8. QED
  BY <1>4, <1>5, <1>6, <1>7 DEF QueueInv

\* rv2_service_renew_sync_job preserves the invariant.
LEMMA RenewInv ==
  ASSUME QueueInv, NEW j \in Jobs, NEW n \in AttemptNos, RenewSyncJob(j, n)
  PROVE  QueueInv'
  BY LeaseMovesInv, Bounds DEF RenewSyncJob, Holds

\* The passage of time preserves the invariant.
LEMMA LeaseTickInv ==
  ASSUME QueueInv, NEW j \in Jobs, LeaseTick(j)
  PROVE  QueueInv'
<1>1. job[j].lease - 1 \in 0..LeaseTerm
  BY BoundsAssumption DEF QueueInv, TypeOK, Job, LeaseTick, Live
<1>2. QED
  BY <1>1, LeaseMovesInv DEF LeaseTick

\* The end of a backoff preserves the invariant.
LEMMA BackoffInv ==
  ASSUME QueueInv, NEW j \in Jobs, BackoffElapses(j)
  PROVE  QueueInv'
<1>1. TypeOK /\ job[j] \in Job
  BY DEF QueueInv, TypeOK
<1>2. job' \in [Jobs -> Job]
  BY <1>1 DEF TypeOK, Job, BackoffElapses
<1>3. \A k \in Jobs :
        /\ job'[k].status = job[k].status /\ job'[k].conn = job[k].conn
        /\ job'[k].version = job[k].version /\ job'[k].token = job[k].token
        /\ job'[k].attempts = job[k].attempts /\ job'[k].failures = job[k].failures
        /\ job'[k].lease = job[k].lease
        /\ k # j => job'[k] = job[k]
  BY <1>1 DEF TypeOK, Job, BackoffElapses
<1>4. TypeOK'
  BY <1>1, <1>2, OrderTyped DEF TypeOK, BackoffElapses
<1>5. RowsInv'
  BY <1>3 DEF QueueInv, RowsInv, UnusedJobsAreFresh, OpenJobsMayFail, JobsHaveConnections,
     BackoffElapses
<1>6. SharedLease'
  BY <1>3 DEF QueueInv, SharedLease, Live, BackoffElapses
<1>7. AttemptsAgree' /\ ClaimsUseCurrentCredential'
  BY <1>3 DEF QueueInv, AttemptsAgree, ClaimsUseCurrentCredential, BackoffElapses
<1>8. QED
  BY <1>4, <1>5, <1>6, <1>7 DEF QueueInv

\* Inserting queued jobs under unused ids preserves the invariant, whatever the
\* credential version they carry.
LEMMA CreatedInv ==
  ASSUME QueueInv, NEW S \in SUBSET Jobs,
         \A j \in S : job[j].status = "NONE",
         job' \in [Jobs -> Job],
         \A j \in Jobs \ S : job'[j] = job[j],
         \A j \in S : \E c \in Connections, p \in Partitions, v \in 0..MaxVersion :
           job'[j] = NewJob(c, p, v),
         before' = ToBack(S), known' \in [Connections -> SUBSET Partitions],
         conn' \in [Connections -> Connection],
         \A c \in Connections : /\ conn'[c].version = conn[c].version
                                /\ conn'[c].status = conn[c].status,
         reading' \in [Connections -> 0..MaxVersion],
         UNCHANGED <<attempt, circuitOpen, archiveHolder>>
  PROVE  QueueInv'
<1>1. \A j \in S : /\ job'[j].status = "QUEUED" /\ job'[j].token = 0 /\ job'[j].attempts = 0
                   /\ job'[j].failures = 0 /\ job'[j].conn \in Connections
  BY NewJobTyped
<1>2. \A j \in S : job[j].attempts = 0 /\ job[j].token = 0
  BY DEF QueueInv, RowsInv, UnusedJobsAreFresh, NoJob
<1>3. TypeOK'
  BY OrderTyped DEF QueueInv, TypeOK
<1>4. RowsInv'
  BY <1>1, Bounds DEF QueueInv, RowsInv, UnusedJobsAreFresh, OpenJobsMayFail, JobsHaveConnections
<1>5. SharedLease'
  BY <1>1 DEF QueueInv, SharedLease, Live
<1>6. AttemptsAgree'
  BY <1>1, <1>2, Bounds DEF QueueInv, AttemptsAgree
<1>7. ClaimsUseCurrentCredential'
  <2> SUFFICES ASSUME NEW j \in Jobs, job'[j].status = "CLAIMED"
               PROVE  /\ job'[j].version = conn'[job'[j].conn].version
                      /\ conn'[job'[j].conn].status \in {"ACTIVE", "AUTH_ERROR", "RATE_LIMITED"}
    BY DEF ClaimsUseCurrentCredential
  <2>1. job'[j] = job[j] /\ job[j].conn \in Connections
    BY <1>1 DEF QueueInv, RowsInv, JobsHaveConnections
  <2>2. QED
    BY <2>1 DEF QueueInv, ClaimsUseCurrentCredential
<1>8. QED
  BY <1>3, <1>4, <1>5, <1>6, <1>7 DEF QueueInv

\* rv2_enqueue_sync preserves the invariant, also when the version it read is stale.
LEMMA EnqueueInsertInv ==
  ASSUME QueueInv, NEW c \in Connections, NEW j \in Jobs, NEW p \in Partitions,
         EnqueueInsert(c, j, p)
  PROVE  QueueInv'
<1>1. TypeOK /\ reading[c] \in 0..MaxVersion
  BY DEF QueueInv, TypeOK
<1> DEFINE row == NewJob(c, p, reading[c])
<1>2. row \in Job
  BY <1>1, NewJobTyped
<1>3. /\ job' \in [Jobs -> Job]
      /\ job'[j] = row
      /\ \A k \in Jobs : k # j => job'[k] = job[k]
  BY <1>1, <1>2, RowWritten DEF EnqueueInsert
<1>4. /\ known' \in [Connections -> SUBSET Partitions]
      /\ reading' \in [Connections -> 0..MaxVersion]
  BY <1>1, Bounds DEF EnqueueInsert, TypeOK
<1>5. \A k \in {j} : \E d \in Connections, q \in Partitions, v \in 0..MaxVersion :
        job'[k] = NewJob(d, q, v)
  BY <1>1, <1>3
<1>6. /\ {j} \in SUBSET Jobs
      /\ \A k \in {j} : job[k].status = "NONE"
      /\ \A k \in Jobs \ {j} : job'[k] = job[k]
      /\ before' = ToBack({j}) /\ UNCHANGED <<conn, attempt, circuitOpen, archiveHolder>>
  BY <1>3 DEF EnqueueInsert
<1>7. conn' \in [Connections -> Connection]
  BY <1>1, <1>6 DEF TypeOK
<1> HIDE DEF row
<1>8. QED
  BY <1>3, <1>4, <1>5, <1>6, <1>7, CreatedInv

\* rv2_service_enqueue_due_syncs preserves the invariant.
LEMMA EnqueueDueInv ==
  ASSUME QueueInv, NEW c \in Connections, NEW found \in SUBSET Partitions,
         NEW ids \in Assignments, EnqueueDue(c, found, ids)
  PROVE  QueueInv'
<1> DEFINE fresh == {ids[p] : p \in DOMAIN ids}
           part(j) == CHOOSE p \in DOMAIN ids : ids[p] = j
<1>1. TypeOK /\ conn[c] \in Connection /\ conn[c].version \in 0..MaxVersion
  BY DEF QueueInv, TypeOK, Connection
<1>2. known' \in [Connections -> SUBSET Partitions] /\ DOMAIN ids \subseteq Partitions
  BY <1>1, PartitionsAssumption DEF EnqueueDue, TypeOK
<1>3. fresh \in SUBSET Jobs /\ \A j \in fresh : job[j].status = "NONE"
  BY DEF EnqueueDue, Assignments
<1>4. \A j \in fresh : part(j) \in Partitions
  BY <1>2
<1>5. \A j \in Jobs : job'[j] = IF j \in fresh THEN NewJob(c, part(j), conn[c].version) ELSE job[j]
  BY DEF EnqueueDue
<1>6. job' \in [Jobs -> Job]
  <2>1. \A j \in Jobs : job'[j] \in Job
    <3> SUFFICES ASSUME NEW j \in Jobs PROVE job'[j] \in Job
      OBVIOUS
    <3>1. CASE j \in fresh
      BY <3>1, <1>1, <1>4, <1>5, NewJobTyped
    <3>2. CASE j \notin fresh
      BY <3>2, <1>1, <1>5 DEF TypeOK
    <3>3. QED
      BY <3>1, <3>2
  <2>2. job' = [j \in Jobs |-> job'[j]]
    BY DEF EnqueueDue
  <2>3. QED
    BY <2>1, <2>2
<1>7. /\ conn' \in [Connections -> Connection]
      /\ \A d \in Connections : /\ conn'[d].version = conn[d].version
                                /\ conn'[d].status = conn[d].status
  BY <1>1 DEF EnqueueDue, TypeOK, Connection
<1>8. \A j \in fresh : \E d \in Connections, q \in Partitions, v \in 0..MaxVersion :
        job'[j] = NewJob(d, q, v)
  BY <1>1, <1>3, <1>4, <1>5
<1>9. before' = ToBack(fresh) /\ UNCHANGED <<attempt, reading, circuitOpen, archiveHolder>>
  BY DEF EnqueueDue
<1>10. \A j \in Jobs \ fresh : job'[j] = job[j]
  BY <1>5
<1> HIDE DEF fresh
<1>11. QED
  BY <1>1, <1>2, <1>3, <1>6, <1>7, <1>8, <1>9, <1>10, CreatedInv DEF TypeOK

\* Cancelling the open jobs of S and closing the open attempts of G, which holds no
\* claimed job outside S, preserves the parts that do not look at connections.
LEMMA CancelledInv ==
  ASSUME QueueInv, NEW S \in SUBSET Jobs, NEW G \in SUBSET Jobs,
         \A j \in S : job[j].status \in Unfinished,
         \A j \in G \ S : job[j].status # "CLAIMED",
         job' = Cancelled(S), attempt' = AttemptsClosed(G), before' = Leave(S),
         conn' \in [Connections -> Connection],
         archiveHolder' \in {archiveHolder, NoConnection},
         UNCHANGED <<known, reading, circuitOpen>>
  PROVE  /\ TypeOK' /\ RowsInv' /\ SharedLease' /\ AttemptsAgree'
         /\ \A j \in Jobs : job'[j].status = "CLAIMED" => j \notin S /\ job'[j] = job[j]
<1>1. TypeOK
  BY DEF QueueInv
<1>2. \A j \in S : [job[j] EXCEPT !.status = "CANCELLED", !.lease = 0] \in Job
  <2> SUFFICES ASSUME NEW j \in S
               PROVE  [job[j] EXCEPT !.status = "CANCELLED", !.lease = 0] \in Job
    OBVIOUS
  <2>1. job[j] \in Job
    BY <1>1 DEF TypeOK
  <2>2. QED
    BY <2>1, Bounds DEF Job, JobStatus
<1>3. job' \in [Jobs -> Job]
  BY <1>1, <1>2 DEF Cancelled, TypeOK
<1>4. \A j \in S :
        /\ job'[j].status = "CANCELLED" /\ job'[j].lease = 0
        /\ job'[j].conn = job[j].conn /\ job'[j].token = job[j].token
        /\ job'[j].attempts = job[j].attempts /\ job'[j].failures = job[j].failures
  <2> SUFFICES ASSUME NEW j \in S
               PROVE  /\ job'[j].status = "CANCELLED" /\ job'[j].lease = 0
                      /\ job'[j].conn = job[j].conn /\ job'[j].token = job[j].token
                      /\ job'[j].attempts = job[j].attempts
                      /\ job'[j].failures = job[j].failures
    OBVIOUS
  <2>1. job[j] \in Job /\ job'[j] = [job[j] EXCEPT !.status = "CANCELLED", !.lease = 0]
    BY <1>1 DEF Cancelled, TypeOK
  <2>2. QED
    BY <2>1 DEF Job
<1>5. \A j \in Jobs \ S : job'[j] = job[j]
  BY DEF Cancelled
<1>6. /\ attempt' \in [Jobs -> [AttemptNos -> AttemptStatus]]
      /\ \A j \in Jobs, n \in AttemptNos :
           attempt'[j][n] = IF j \in G /\ attempt[j][n] = "CLAIMED" THEN "FAILED" ELSE attempt[j][n]
  BY <1>1 DEF AttemptsClosed, TypeOK, AttemptStatus
<1>7. TypeOK'
  BY <1>1, <1>3, <1>6, OrderTyped DEF TypeOK
<1>8. RowsInv'
  BY <1>4, <1>5 DEF QueueInv, RowsInv, UnusedJobsAreFresh, OpenJobsMayFail, JobsHaveConnections,
     Unfinished
<1>9. SharedLease'
  BY <1>4, <1>5 DEF QueueInv, SharedLease, Live
<1>10. AttemptsAgree'
  BY <1>4, <1>5, <1>6 DEF QueueInv, AttemptsAgree
<1>11. QED
  BY <1>4, <1>5, <1>7, <1>8, <1>9, <1>10

\* Rotation preserves the invariant, whichever just claimed attempts it misses: every
\* claim of the connection carries the version that is replaced and is cancelled.
LEMMA RotateInv ==
  ASSUME QueueInv, NEW c \in Connections, NEW v \in 1..MaxVersion, NEW ok \in BOOLEAN,
         RotateConnection(c, v, ok)
  PROVE  QueueInv'
<1> DEFINE old == {j \in Jobs : /\ job[j].conn = c /\ job[j].version = conn[c].version
                                /\ job[j].status \in Unfinished}
           row == [status |-> GrantedStatus(ok), verified |-> ok, version |-> v + 1, due |-> ok]
<1>1. TypeOK
  BY DEF QueueInv
<1>2. row \in Connection
  <2>1. v + 1 \in 0..MaxVersion
    BY BoundsAssumption DEF RotateConnection
  <2>2. QED
    BY <2>1 DEF GrantedStatus, Connection, ConnStatus
<1>3. conn' = [conn EXCEPT ![c] = row]
  BY DEF RotateConnection
<1>4. /\ conn' \in [Connections -> Connection]
      /\ \A d \in Connections : d # c => conn'[d] = conn[d]
  BY <1>1, <1>2, <1>3 DEF TypeOK
<1>5. /\ job' = Cancelled(old) /\ before' = Leave(old)
      /\ archiveHolder' \in {archiveHolder, NoConnection}
      /\ UNCHANGED <<known, reading, circuitOpen>>
  BY DEF RotateConnection, ArchiveReleased
<1>6. old \in SUBSET Jobs /\ \A j \in old : job[j].status \in Unfinished
  OBVIOUS
<1>7. PICK missed \in SUBSET JustClaimed(old) : attempt' = AttemptsClosed(old \ missed)
  BY DEF RotateConnection
<1> DEFINE closed == old \ missed
<1>8. /\ closed \in SUBSET Jobs /\ attempt' = AttemptsClosed(closed)
      /\ \A j \in closed \ old : job[j].status # "CLAIMED"
  BY <1>7
<1>9. \A j \in Jobs : job[j].status = "CLAIMED" /\ job[j].conn = c => j \in old
  BY DEF QueueInv, ClaimsUseCurrentCredential, Unfinished
<1> HIDE DEF old, row, closed
<1>10. /\ TypeOK' /\ RowsInv' /\ SharedLease' /\ AttemptsAgree'
       /\ \A j \in Jobs : job'[j].status = "CLAIMED" => j \notin old /\ job'[j] = job[j]
  BY <1>4, <1>5, <1>6, <1>8, CancelledInv
<1>11. ClaimsUseCurrentCredential'
  BY <1>4, <1>9, <1>10 DEF QueueInv, RowsInv, JobsHaveConnections, ClaimsUseCurrentCredential
<1>12. QED
  BY <1>10, <1>11 DEF QueueInv

\* rv2_disconnect_connection preserves the invariant.
LEMMA DisconnectInv ==
  ASSUME QueueInv, NEW c \in Connections, NEW v \in 1..MaxVersion, DisconnectConnection(c, v)
  PROVE  QueueInv'
<1> DEFINE open == {j \in Jobs : job[j].conn = c /\ job[j].status \in Unfinished}
           gone == open \cup {j \in Jobs : job[j].conn = c /\ job[j].status = "CANCELLED"}
<1>1. TypeOK /\ "REVOKED" \in ConnStatus /\ conn' = ConnectionLeft(c, "REVOKED", FALSE)
  BY DEF QueueInv, ConnStatus, DisconnectConnection
<1>2. /\ conn' \in [Connections -> Connection]
      /\ \A d \in Connections : d # c => /\ conn'[d].status = conn[d].status
                                         /\ conn'[d].version = conn[d].version
  BY <1>1, ConnectionTyped
<1>3. /\ job' = Cancelled(open) /\ attempt' = AttemptsClosed(gone) /\ before' = Leave(open)
      /\ archiveHolder' \in {archiveHolder, NoConnection}
      /\ UNCHANGED <<known, reading, circuitOpen>>
  BY DEF DisconnectConnection, ArchiveReleased
<1>4. /\ open \in SUBSET Jobs /\ gone \in SUBSET Jobs
      /\ \A j \in open : job[j].status \in Unfinished
      /\ \A j \in gone \ open : job[j].status # "CLAIMED"
  OBVIOUS
<1>5. \A j \in Jobs : job[j].status = "CLAIMED" /\ job[j].conn = c => j \in open
  BY DEF Unfinished
<1> HIDE DEF open, gone
<1>6. /\ TypeOK' /\ RowsInv' /\ SharedLease' /\ AttemptsAgree'
      /\ \A j \in Jobs : job'[j].status = "CLAIMED" => j \notin open /\ job'[j] = job[j]
  BY <1>2, <1>3, <1>4, CancelledInv
<1>7. ClaimsUseCurrentCredential'
  BY <1>2, <1>5, <1>6 DEF QueueInv, RowsInv, JobsHaveConnections, ClaimsUseCurrentCredential
<1>8. QED
  BY <1>6, <1>7 DEF QueueInv

\* A step that touches no job and no attempt preserves the invariant if it grants the
\* lease only when it is free and spoils no usable connection.
LEMMA QuietInv ==
  ASSUME QueueInv, TypeOK', UNCHANGED <<job, attempt>>,
         archiveHolder' \in {archiveHolder, NoConnection} \/ ~LeaseHeld,
         \A d \in Connections :
           conn[d].status \in {"ACTIVE", "AUTH_ERROR", "RATE_LIMITED"} =>
             /\ conn'[d].version = conn[d].version
             /\ conn'[d].status \in {"ACTIVE", "AUTH_ERROR", "RATE_LIMITED"}
  PROVE  QueueInv'
<1>1. RowsInv' /\ AttemptsAgree'
  BY DEF QueueInv, RowsInv, UnusedJobsAreFresh, OpenJobsMayFail, JobsHaveConnections, AttemptsAgree
<1>2. SharedLease'
  BY DEF QueueInv, SharedLease, LeaseHeld, Live
<1>3. ClaimsUseCurrentCredential'
  BY DEF QueueInv, RowsInv, JobsHaveConnections, ClaimsUseCurrentCredential
<1>4. QED
  BY <1>1, <1>2, <1>3 DEF QueueInv

\* The creation of a connection preserves the invariant: no claim refers to an absent one.
LEMMA CreateInv ==
  ASSUME QueueInv, NEW c \in Connections, NEW ok \in BOOLEAN, CreateConnection(c, ok)
  PROVE  QueueInv'
<1> DEFINE row == [status |-> GrantedStatus(ok), verified |-> ok, version |-> 1, due |-> ok]
<1>1. TypeOK /\ row \in Connection
  BY Bounds DEF QueueInv, GrantedStatus, Connection, ConnStatus
<1>2. conn' = [conn EXCEPT ![c] = row] /\ conn[c].status = "ABSENT"
  BY DEF CreateConnection
<1>3. TypeOK'
  BY <1>1, <1>2 DEF TypeOK, CreateConnection
<1>4. \A d \in Connections : d # c => conn'[d] = conn[d]
  BY <1>1, <1>2 DEF TypeOK
<1>5. QED
  BY <1>2, <1>3, <1>4, QuietInv DEF CreateConnection

\* rv2_service_fail_archive_job preserves the invariant.
LEMMA FailArchiveInv ==
  ASSUME QueueInv, NEW code, NEW due \in BOOLEAN, FailArchiveJob(code, due)
  PROVE  QueueInv'
<1> DEFINE after == StatusAfter(code, conn[archiveHolder].status)
<1>1. TypeOK /\ archiveHolder \in Connections
  BY DEF QueueInv, TypeOK, FailArchiveJob
<1>2. conn' = ConnectionLeft(archiveHolder, after, due)
  BY DEF FailArchiveJob
<1>3. /\ after \in ConnStatus
      /\ conn[archiveHolder].status \in {"ACTIVE", "AUTH_ERROR", "RATE_LIMITED"} =>
           after \in {"ACTIVE", "AUTH_ERROR", "RATE_LIMITED"}
  BY <1>1 DEF StatusAfter, TypeOK, Connection, ConnStatus
<1> HIDE DEF after
<1>4. /\ conn' \in [Connections -> Connection]
      /\ \A d \in Connections :
           /\ conn'[d].version = conn[d].version
           /\ d = archiveHolder => conn'[d].status = after
           /\ d # archiveHolder => conn'[d].status = conn[d].status
  BY <1>1, <1>2, <1>3, ConnectionTyped
<1>5. TypeOK'
  BY <1>1, <1>4 DEF TypeOK, FailArchiveJob
<1>6. QED
  BY <1>3, <1>4, <1>5, QuietInv DEF FailArchiveJob

\* The steps that touch no job row preserve the invariant.
LEMMA StandingInv ==
  ASSUME QueueInv, NEW c \in Connections,
         \/ EnqueueRead(c)
         \/ EnqueueReturn(c)
         \/ \E found \in SUBSET Partitions : DiscoverPartitions(c, found)
         \/ DueTimeComes(c)
         \/ ClaimArchiveJob(c)
         \/ ReleaseArchiveJob
         \/ OpenWorkerCircuit
  PROVE  QueueInv'
<1>1. TypeOK /\ conn[c].version \in 0..MaxVersion
  BY DEF QueueInv, TypeOK, Connection
<1>2. CASE EnqueueRead(c) \/ EnqueueReturn(c)
  <2>1. TypeOK'
    BY <1>1, <1>2, Bounds DEF TypeOK, EnqueueRead, EnqueueReturn
  <2>2. QED
    BY <1>2, <2>1, QuietInv DEF EnqueueRead, EnqueueReturn
<1>3. CASE \E found \in SUBSET Partitions : DiscoverPartitions(c, found)
  <2>1. TypeOK'
    BY <1>1, <1>3 DEF TypeOK, DiscoverPartitions
  <2>2. QED
    BY <1>3, <2>1, QuietInv DEF DiscoverPartitions
<1>4. CASE DueTimeComes(c)
  <2>1. TypeOK'
    BY <1>1, <1>4 DEF TypeOK, DueTimeComes, Connection
  <2>2. \A d \in Connections : /\ conn'[d].version = conn[d].version
                               /\ conn'[d].status = conn[d].status
    BY <1>1, <1>4 DEF TypeOK, DueTimeComes, Connection
  <2>3. QED
    BY <1>4, <2>1, <2>2, QuietInv DEF DueTimeComes
<1>5. CASE ClaimArchiveJob(c)
  <2>1. TypeOK'
    BY <1>1, <1>5 DEF TypeOK, ClaimArchiveJob
  <2>2. QED
    BY <1>5, <2>1, QuietInv DEF ClaimArchiveJob
<1>6. CASE ReleaseArchiveJob \/ OpenWorkerCircuit
  <2>1. TypeOK'
    BY <1>1, <1>6 DEF TypeOK, ReleaseArchiveJob, OpenWorkerCircuit
  <2>2. QED
    BY <1>6, <2>1, QuietInv DEF ReleaseArchiveJob, OpenWorkerCircuit
<1>7. QED
  BY <1>2, <1>3, <1>4, <1>5, <1>6

\* The invariant is inductive.
LEMMA NextInv == QueueInv /\ [Next]_queueVars => QueueInv'
<1> SUFFICES ASSUME QueueInv, [Next]_queueVars PROVE QueueInv'
  OBVIOUS
<1>1. ASSUME NEW c \in Connections, ConnectionStep(c) PROVE QueueInv'
  <2>1. CASE \E ok \in BOOLEAN : CreateConnection(c, ok)
    BY <2>1, CreateInv
  <2>2. CASE \E v \in 1..MaxVersion, ok \in BOOLEAN : RotateConnection(c, v, ok)
    BY <2>2, RotateInv
  <2>3. CASE \E v \in 1..MaxVersion : DisconnectConnection(c, v)
    BY <2>3, DisconnectInv
  <2>4. CASE \E j \in Jobs, p \in Partitions : EnqueueInsert(c, j, p)
    BY <2>4, EnqueueInsertInv
  <2>5. CASE \E found \in SUBSET Partitions, ids \in Assignments : EnqueueDue(c, found, ids)
    BY <2>5, EnqueueDueInv
  <2>6. CASE \/ EnqueueRead(c) \/ EnqueueReturn(c) \/ DueTimeComes(c)
             \/ \E found \in SUBSET Partitions : DiscoverPartitions(c, found)
    BY <2>6, StandingInv
  <2>7. QED
    BY <1>1, <2>1, <2>2, <2>3, <2>4, <2>5, <2>6 DEF ConnectionStep
<1>2. ASSUME NEW j \in Jobs, JobStep(j) PROVE QueueInv'
  <2>1. CASE ClaimSyncJob(j) \/ LeaseTick(j) \/ BackoffElapses(j)
    BY <2>1, ClaimInv, LeaseTickInv, BackoffInv
  <2>2. CASE \E n \in AttemptNos : RenewSyncJob(j, n)
    BY <2>2, RenewInv
  <2>3. CASE \E n \in AttemptNos : Report(j, n)
    BY <2>3, CommitInv, QuarantineInv, FailInv DEF Report
  <2>4. QED
    BY <1>2, <2>1, <2>2, <2>3 DEF JobStep
<1>3. ASSUME ArchiveStep PROVE QueueInv'
  <2>1. CASE \E c \in ArchiveConnections : ClaimArchiveJob(c)
    BY <2>1, ConnectionsAssumption, StandingInv
  <2>2. CASE ReleaseArchiveJob \/ OpenWorkerCircuit
    <3>1. archiveHolder \in Connections
      BY <2>2 DEF QueueInv, TypeOK, ReleaseArchiveJob, OpenWorkerCircuit
    <3>2. QED
      BY <2>2, <3>1, StandingInv
  <2>3. CASE \E code \in ErrorCodes, due \in BOOLEAN : FailArchiveJob(code, due)
    BY <2>3, FailArchiveInv
  <2>4. QED
    BY <1>3, <2>1, <2>2, <2>3 DEF ArchiveStep
<1>4. CASE CircuitCloses
  <2>1. TypeOK'
    BY <1>4 DEF QueueInv, TypeOK, CircuitCloses
  <2>2. QED
    BY <1>4, <2>1, QuietInv DEF CircuitCloses
<1>5. CASE UNCHANGED queueVars
  <2>1. TypeOK'
    BY <1>5 DEF QueueInv, TypeOK, queueVars
  <2>2. QED
    BY <1>5, <2>1, QuietInv DEF queueVars
<1>6. QED
  BY <1>1, <1>2, <1>3, <1>4, <1>5 DEF Next

\* Every reachable state satisfies the inductive invariant: types, bounded failures,
\* jobs with connections, one lease, agreeing attempts, current credentials.
THEOREM QueueInvariant == Spec => []QueueInv
  BY InitInv, NextInv, PTL DEF Spec

\* Every reachable state is typed: no counter of rv2_sync_jobs leaves the range its
\* check constraint allows.
THEOREM TypeCorrect == Spec => []TypeOK
<1>1. QueueInv => TypeOK
  BY DEF QueueInv
<1>2. QED
  BY <1>1, QueueInvariant, PTL

\* At most one unexpired lease exists in every reachable state, for any number of
\* connections, jobs, attempts and ticks: claim_sync_job and claim_archive_job each
\* test both kinds of lease.
THEOREM LeaseIsShared == Spec => []SharedLease
<1>1. QueueInv => SharedLease
  BY DEF QueueInv
<1>2. QED
  BY <1>1, QueueInvariant, PTL

\* The attempts table and the job rows agree in every reachable state: a claim in
\* force is the one open attempt of its job, and what else is open is an attempt that
\* a rotation missed, of a job it cancelled.
THEOREM AttemptsAlwaysAgree == Spec => []AttemptsAgree
<1>1. QueueInv => AttemptsAgree
  BY DEF QueueInv
<1>2. QED
  BY <1>1, QueueInvariant, PTL

\* No claim outlives the credential it was made with.
THEOREM ClaimsStayCurrent == Spec => []ClaimsUseCurrentCredential
<1>1. QueueInv => ClaimsUseCurrentCredential
  BY DEF QueueInv
<1>2. QED
  BY <1>1, QueueInvariant, PTL

----------------------------------------------------------------------------
(* What the steps may never do, and that each of them is a step of         *)
(* LeasedLog: one lemma per action shows the three together, under the     *)
(* inductive invariant.                                                    *)

StepKept == SettledKept /\ PagesFenced /\ [Log!Next]_(Log!vars)

\* An unfinished job is an open log.
LEMMA PhaseOfOpen ==
  ASSUME NEW j \in Jobs, job[j].status \in Unfinished
  PROVE  Phase[j] = "open"
  BY DEF Phase, Unfinished

\* Writing one job row moves the abstract state of that job alone.
LEMMA OneRow ==
  ASSUME TypeOK, NEW j \in Jobs, job' \in [Jobs -> Job],
         \A k \in Jobs : k # j => job'[k] = job[k]
  PROVE  /\ Phase' = [Phase EXCEPT ![j] = Phase'[j]]
         /\ PageLog' = [PageLog EXCEPT ![j] = job'[j].pages]
         /\ \A k \in Jobs : k # j => (k \in Holders' <=> k \in Holders)
<1>1. Phase' = [Phase EXCEPT ![j] = Phase'[j]]
  BY DEF Phase
<1>2. PageLog' = [PageLog EXCEPT ![j] = job'[j].pages]
  BY DEF PageLog
<1>3. \A k \in Jobs : k # j => (k \in Holders' <=> k \in Holders)
  BY DEF Holders, Live
<1>4. QED
  BY <1>1, <1>2, <1>3

\* A job that holds the lease is the only holder.
LEMMA OnlyHolder ==
  ASSUME QueueInv, NEW j \in Jobs, Live(j)
  PROVE  Holders = {j} /\ archiveHolder = NoConnection
  BY DEF QueueInv, SharedLease, Holders

\* A committed page is an append of the lease holder.
LEMMA CommitKept ==
  ASSUME QueueInv, NEW j \in Jobs, NEW n \in AttemptNos, NEW more \in BOOLEAN,
         CommitSyncPage(j, n, more)
  PROVE  StepKept
<1> DEFINE row == PagedRow(j, more)
<1>1. TypeOK /\ job[j] \in Job /\ QueueInv'
  BY CommitInv DEF QueueInv, TypeOK
<1>2. MayCommit(j, n) /\ Live(j) /\ job[j].token = n /\ Usable(job[j].conn, job[j].version)
  BY DEF CommitSyncPage, MayCommit, Holds
<1>3. /\ row.status = (IF more THEN "QUEUED" ELSE "SUCCEEDED") /\ row.lease = 0
      /\ row.pages = job[j].pages + 1
  BY <1>1 DEF PagedRow, Job
<1>4. /\ job'[j] = row /\ job' \in [Jobs -> Job]
      /\ \A k \in Jobs : k # j => job'[k] = job[k]
  BY <1>1 DEF CommitSyncPage, TypeOK, QueueInv
<1> HIDE DEF row
<1>5. SettledKept
  BY <1>1, <1>2, <1>4 DEF SettledKept, Settled, Live, MayCommit, CommitSyncPage, TypeOK
<1>6. PagesFenced
  BY <1>1, <1>2, <1>3, <1>4 DEF PagesFenced, CommitSyncPage, TypeOK
<1>7. Log!Append(j)
  <2>1. Phase'[j] \in {"open", "closed"}
    BY <1>3, <1>4 DEF Phase, Unfinished
  <2>2. Holders' = {} /\ j \in Holders
    BY <1>2, <1>3, <1>4, OneRow, OnlyHolder, <1>1 DEF Holders, Live
  <2>3. PageLog' = [PageLog EXCEPT ![j] = @ + 1]
    BY <1>1, <1>3, <1>4, OneRow DEF PageLog
  <2>4. Phase' = [Phase EXCEPT ![j] = Phase'[j]]
    BY <1>1, <1>4, OneRow
  <2>5. QED
    BY <2>1, <2>2, <2>3, <2>4 DEF Log!Append, CommitSyncPage
<1>8. QED
  BY <1>5, <1>6, <1>7 DEF StepKept, Log!Next

\* A holder whose lease ends without a page gives it up.
LEMMA GivenUp ==
  ASSUME QueueInv, QueueInv', NEW j \in Jobs, Live(j),
         \A k \in Jobs : k # j => job'[k] = job[k],
         job'[j].lease = 0, job'[j].pages = job[j].pages,
         job'[j].status # "NONE", UNCHANGED archiveHolder
  PROVE  Log!GiveUp(j)
<1>1. TypeOK /\ job' \in [Jobs -> Job]
  BY DEF QueueInv, TypeOK
<1>2. Phase'[j] \in {"open", "closed"}
  BY DEF Phase
<1>3. Holders' = {} /\ j \in Holders
  BY <1>1, OneRow, OnlyHolder DEF Holders, Live
<1>4. PageLog' = PageLog
  BY DEF PageLog
<1>5. Phase' = [Phase EXCEPT ![j] = Phase'[j]]
  BY <1>1, OneRow
<1>6. QED
  BY <1>2, <1>3, <1>4, <1>5 DEF Log!GiveUp

\* A quarantined page gives the lease up.
LEMMA QuarantineKept ==
  ASSUME QueueInv, NEW j \in Jobs, NEW n \in AttemptNos, QuarantinePage(j, n)
  PROVE  StepKept
<1> DEFINE row == QuarantinedRow(j)
<1>1. TypeOK /\ job[j] \in Job /\ QueueInv'
  BY QuarantineInv DEF QueueInv, TypeOK
<1>2. MayCommit(j, n) /\ Live(j)
  BY DEF QuarantinePage, MayCommit, Holds
<1>3. row.status = "FAILED" /\ row.lease = 0 /\ row.pages = job[j].pages
  BY <1>1 DEF QuarantinedRow, Job
<1>4. /\ job'[j] = row
      /\ \A k \in Jobs : k # j => job'[k] = job[k]
  BY <1>1 DEF QuarantinePage, TypeOK
<1> HIDE DEF row
<1>5. SettledKept
  BY <1>1, <1>2, <1>4 DEF SettledKept, Settled, Live, MayCommit, QuarantinePage, TypeOK
<1>6. PagesFenced
  BY <1>3, <1>4 DEF PagesFenced
<1>7. Log!GiveUp(j)
  BY <1>1, <1>2, <1>3, <1>4, GivenUp DEF QuarantinePage
<1>8. QED
  BY <1>5, <1>6, <1>7 DEF StepKept, Log!Next

\* A failure report gives the lease up.
LEMMA FailKept ==
  ASSUME QueueInv, NEW j \in Jobs, NEW n \in AttemptNos, NEW code, FailSyncJob(j, n, code)
  PROVE  StepKept
<1> DEFINE retry == code \in RetryableCodes /\ job[j].failures + 1 < MaxFailures
           waits == retry /\ code \in DelayedCodes
           row   == ReportedRow(j, retry, waits)
<1>1. TypeOK /\ job[j] \in Job /\ QueueInv'
  BY FailInv DEF QueueInv, TypeOK
<1>2. Holds(j, n) /\ Live(j)
  BY DEF FailSyncJob, Holds
<1>3. row.status \in {"QUEUED", "FAILED"} /\ row.lease = 0 /\ row.pages = job[j].pages
  BY <1>1 DEF ReportedRow, Job
<1>4. job' = [job EXCEPT ![j] = row]
  BY DEF FailSyncJob
<1> HIDE DEF row
<1>5. /\ job'[j] = row
      /\ \A k \in Jobs : k # j => job'[k] = job[k]
  BY <1>1, <1>4 DEF TypeOK
<1>6. attempt[j][n] = "CLAIMED"
  BY <1>2 DEF QueueInv, AttemptsAgree, Holds, Live
<1>7. attempt' = [attempt EXCEPT ![j][n] = "FAILED"] /\ UNCHANGED archiveHolder
  BY <1>6 DEF FailSyncJob
<1>8. SettledKept
  BY <1>1, <1>2, <1>5, <1>6, <1>7 DEF SettledKept, Settled, Live, TypeOK
<1>9. PagesFenced
  BY <1>3, <1>5 DEF PagesFenced
<1>10. Log!GiveUp(j)
  BY <1>1, <1>2, <1>3, <1>5, <1>7, GivenUp
<1>11. QED
  BY <1>8, <1>9, <1>10 DEF StepKept, Log!Next

\* A claim grants the free lease and rewrites no settled attempt.
LEMMA ClaimKept ==
  ASSUME QueueInv, NEW j \in Jobs, ClaimSyncJob(j)
  PROVE  StepKept
<1> DEFINE n   == job[j].attempts + 1
           row == ClaimedRow(j)
<1>1. TypeOK /\ job[j] \in Job
  BY DEF QueueInv, TypeOK
<1>2. n \in AttemptNos /\ job[j].status \in Unfinished /\ ~LeaseHeld
  BY DEF ClaimSyncJob, Head, Eligible, Unfinished
<1>3. /\ row.status = "CLAIMED" /\ row.lease = LeaseTerm /\ row.pages = job[j].pages
      /\ row.attempts = n
  BY <1>1 DEF ClaimedRow, Job
<1>4. /\ job'[j] = row
      /\ \A k \in Jobs : k # j => job'[k] = job[k]
  BY <1>1 DEF ClaimSyncJob, TypeOK
<1>5. /\ \A m \in AttemptNos : attempt'[j][m] =
           IF m = n THEN "CLAIMED" ELSE IF attempt[j][m] = "CLAIMED" THEN "EXPIRED" ELSE attempt[j][m]
      /\ \A k \in Jobs : k # j => attempt'[k] = attempt[k]
  BY <1>1 DEF ClaimSyncJob, TypeOK
<1>6. attempt[j][n] = "NONE"
  <2>1. ~(n <= job[j].attempts)
    BY <1>1 DEF Job
  <2>2. QED
    BY <1>2, <2>1 DEF QueueInv, AttemptsAgree
<1> HIDE DEF row
<1>7. SettledKept
  BY <1>2, <1>4, <1>5, <1>6 DEF SettledKept, Settled, Unfinished
<1>8. PagesFenced
  BY <1>3, <1>4 DEF PagesFenced
<1>9. Log!Grant(j)
  <2>1. Holders = {} /\ archiveHolder = NoConnection
    BY <1>2 DEF LeaseHeld, Holders
  <2>2. Phase[j] = "open"
    BY <1>2, PhaseOfOpen
  <2>3. Holders' = {j}
    BY <2>1, <1>3, <1>4, Bounds DEF Holders, Live
  <2>4. Phase' = Phase
    BY <1>2, <1>3, <1>4 DEF Phase, Unfinished
  <2>5. PageLog' = PageLog
    BY <1>3, <1>4 DEF PageLog
  <2>6. QED
    BY <2>1, <2>2, <2>3, <2>4, <2>5 DEF Log!Grant, Log!Free, ClaimSyncJob
<1>10. QED
  BY <1>7, <1>8, <1>9 DEF StepKept, Log!Next

\* A lease that moves is given up when it reaches zero and is not seen otherwise.
LEMMA LeaseMovesKept ==
  ASSUME QueueInv, NEW j \in Jobs, NEW l \in 0..LeaseTerm, Live(j),
         job' = [job EXCEPT ![j].lease = l],
         UNCHANGED <<conn, known, attempt, before, reading, circuitOpen, archiveHolder>>
  PROVE  StepKept
<1>1. TypeOK /\ QueueInv'
  BY LeaseMovesInv DEF QueueInv
<1>2. \A k \in Jobs :
        /\ job'[k].status = job[k].status /\ job'[k].pages = job[k].pages
        /\ k # j => job'[k] = job[k]
        /\ k = j => job'[k].lease = l
  BY <1>1 DEF TypeOK, Job
<1>3. SettledKept
  BY <1>2 DEF SettledKept, Settled, Live
<1>4. PagesFenced
  BY <1>2 DEF PagesFenced
<1>5. Phase' = Phase /\ PageLog' = PageLog
  BY <1>2 DEF Phase, PageLog
<1>6. CASE l = 0
  <2>1. Log!GiveUp(j)
    BY <1>1, <1>2, <1>6, GivenUp DEF Live
  <2>2. QED
    BY <2>1, <1>3, <1>4 DEF StepKept, Log!Next
<1>7. CASE l # 0
  <2>1. Holders' = Holders
    BY <1>2, <1>7, BoundsAssumption DEF Holders, Live
  <2>2. QED
    BY <2>1, <1>3, <1>4, <1>5 DEF StepKept, Log!vars
<1>8. QED
  BY <1>6, <1>7

\* A renewal is not seen by the log.
LEMMA RenewKept ==
  ASSUME QueueInv, NEW j \in Jobs, NEW n \in AttemptNos, RenewSyncJob(j, n)
  PROVE  StepKept
  BY LeaseMovesKept, Bounds DEF RenewSyncJob, Holds

\* The passage of time is a lost lease or nothing.
LEMMA LeaseTickKept ==
  ASSUME QueueInv, NEW j \in Jobs, LeaseTick(j)
  PROVE  StepKept
<1>1. job[j].lease - 1 \in 0..LeaseTerm
  BY BoundsAssumption DEF QueueInv, TypeOK, Job, LeaseTick, Live
<1>2. QED
  BY <1>1, LeaseMovesKept DEF LeaseTick

\* The end of a backoff is not seen by the log.
LEMMA BackoffKept ==
  ASSUME QueueInv, NEW j \in Jobs, BackoffElapses(j)
  PROVE  StepKept
<1>1. \A k \in Jobs :
        /\ job'[k].status = job[k].status /\ job'[k].pages = job[k].pages
        /\ job'[k].lease = job[k].lease
        /\ k # j => job'[k] = job[k]
  BY DEF QueueInv, TypeOK, Job, BackoffElapses
<1>2. SettledKept /\ PagesFenced
  BY <1>1 DEF SettledKept, Settled, PagesFenced, BackoffElapses
<1>3. UNCHANGED <<Holders, PageLog, Phase, archiveHolder>>
  BY <1>1 DEF Holders, Live, PageLog, Phase, BackoffElapses
<1>4. QED
  BY <1>2, <1>3 DEF StepKept, Log!vars

\* A step that touches no job, no attempt and no archive lease is not seen by the log.
LEMMA StandingKept ==
  ASSUME UNCHANGED <<job, attempt>>, (archiveHolder' # NoConnection) = (archiveHolder # NoConnection)
  PROVE  StepKept
<1>1. SettledKept /\ PagesFenced
  BY DEF SettledKept, PagesFenced
<1>2. UNCHANGED <<Holders, PageLog, Phase>>
  BY DEF Holders, Live, PageLog, Phase
<1>3. QED
  BY <1>1, <1>2 DEF StepKept, Log!vars

\* The end of an archive claim gives the outside lease up.
LEMMA ReleaseKept ==
  ASSUME UNCHANGED <<job, attempt>>, archiveHolder # NoConnection, archiveHolder' = NoConnection
  PROVE  StepKept
<1>1. SettledKept /\ PagesFenced
  BY DEF SettledKept, PagesFenced
<1>2. UNCHANGED <<Holders, PageLog, Phase>>
  BY DEF Holders, Live, PageLog, Phase
<1>3. Log!GiveUpOutside
  BY <1>2 DEF Log!GiveUpOutside
<1>4. QED
  BY <1>1, <1>3 DEF StepKept, Log!Next

\* An archive claim takes the free lease from outside.
LEMMA ClaimArchiveKept ==
  ASSUME NEW c \in Connections, ClaimArchiveJob(c)
  PROVE  StepKept
<1>1. SettledKept /\ PagesFenced
  BY DEF SettledKept, PagesFenced, ClaimArchiveJob
<1>2. UNCHANGED <<Holders, PageLog, Phase>>
  BY DEF Holders, Live, PageLog, Phase, ClaimArchiveJob
<1>3. Log!GrantOutside
  BY <1>2, ConnectionsAssumption DEF Log!GrantOutside, Log!Free, ClaimArchiveJob, LeaseHeld, Holders
<1>4. QED
  BY <1>1, <1>3 DEF StepKept, Log!Next

\* New jobs are opened logs.
LEMMA CreatedKept ==
  ASSUME QueueInv, NEW S \in SUBSET Jobs,
         \A j \in S : job[j].status = "NONE" /\ job'[j].status = "QUEUED" /\ job'[j].pages = 0,
         \A j \in Jobs \ S : job'[j] = job[j],
         UNCHANGED <<attempt, archiveHolder>>
  PROVE  StepKept
<1>1. SettledKept
  BY DEF SettledKept, Settled
<1>2. \A j \in Jobs : job'[j].pages = job[j].pages
  BY DEF QueueInv, RowsInv, UnusedJobsAreFresh, NoJob
<1>3. PagesFenced /\ UNCHANGED PageLog
  BY <1>2 DEF PagesFenced, PageLog
<1>4. UNCHANGED Holders
  BY DEF Holders, Live
<1>5. /\ \A j \in S : Phase[j] = "absent"
      /\ Phase' = [j \in Jobs |-> IF j \in S THEN "open" ELSE Phase[j]]
  BY DEF Phase, Unfinished
<1>6. Log!Open(S)
  BY <1>3, <1>4, <1>5 DEF Log!Open
<1>7. QED
  BY <1>1, <1>3, <1>6 DEF StepKept, Log!Next

\* Rotation and disconnect cancel logs, with the leases held on them.
LEMMA CancelledKept ==
  ASSUME QueueInv, NEW S \in SUBSET Jobs, NEW G \in SUBSET Jobs,
         \A j \in S : job[j].status \in Unfinished,
         job' = Cancelled(S), attempt' = AttemptsClosed(G),
         archiveHolder' \in {archiveHolder, NoConnection}
  PROVE  StepKept
<1>1. TypeOK
  BY DEF QueueInv
<1>2. \A j \in S : /\ job'[j].status = "CANCELLED" /\ job'[j].lease = 0
                   /\ job'[j].pages = job[j].pages
  <2> SUFFICES ASSUME NEW j \in S
               PROVE  /\ job'[j].status = "CANCELLED" /\ job'[j].lease = 0
                      /\ job'[j].pages = job[j].pages
    OBVIOUS
  <2>1. job[j] \in Job /\ job'[j] = [job[j] EXCEPT !.status = "CANCELLED", !.lease = 0]
    BY <1>1 DEF Cancelled, TypeOK
  <2>2. QED
    BY <2>1 DEF Job
<1>3. \A j \in Jobs \ S : job'[j] = job[j]
  BY DEF Cancelled
<1>4. SettledKept
  BY <1>1, <1>3 DEF SettledKept, Settled, Unfinished, AttemptsClosed, TypeOK
<1>5. PagesFenced /\ UNCHANGED PageLog
  BY <1>2, <1>3 DEF PagesFenced, PageLog
<1>6. Holders' = Holders \ S
  BY <1>2, <1>3 DEF Holders, Live
<1>7. /\ \A j \in S : Phase[j] = "open"
      /\ Phase' = [j \in Jobs |-> IF j \in S THEN "closed" ELSE Phase[j]]
  BY <1>2, <1>3 DEF Phase, Unfinished
<1>8. Log!Cancel(S)
  BY <1>5, <1>6, <1>7 DEF Log!Cancel
<1>9. QED
  BY <1>4, <1>5, <1>8 DEF StepKept, Log!Next

\* Every step keeps what is settled, adds pages under the lease alone and is a step of
\* the log or none.
LEMMA NextKept == QueueInv /\ [Next]_queueVars => StepKept
<1> SUFFICES ASSUME QueueInv, [Next]_queueVars PROVE StepKept
  OBVIOUS
<1>1. ASSUME NEW c \in Connections, ConnectionStep(c) PROVE StepKept
  <2>1. CASE \E ok \in BOOLEAN : CreateConnection(c, ok)
    BY <2>1, StandingKept DEF CreateConnection
  <2>2. ASSUME NEW v \in 1..MaxVersion, NEW ok \in BOOLEAN, RotateConnection(c, v, ok)
        PROVE  StepKept
    <3> DEFINE old == {j \in Jobs : /\ job[j].conn = c /\ job[j].version = conn[c].version
                                    /\ job[j].status \in Unfinished}
    <3>1. PICK missed \in SUBSET JustClaimed(old) : attempt' = AttemptsClosed(old \ missed)
      BY <2>2 DEF RotateConnection
    <3> DEFINE closed == old \ missed
    <3>2. job' = Cancelled(old) /\ archiveHolder' \in {archiveHolder, NoConnection}
      BY <2>2 DEF RotateConnection, ArchiveReleased
    <3>3. /\ old \in SUBSET Jobs /\ \A j \in old : job[j].status \in Unfinished
          /\ closed \in SUBSET Jobs /\ attempt' = AttemptsClosed(closed)
      BY <3>1
    <3> HIDE DEF old, closed
    <3>4. QED
      BY <3>2, <3>3, CancelledKept
  <2>3. ASSUME NEW v \in 1..MaxVersion, DisconnectConnection(c, v)
        PROVE  StepKept
    <3> DEFINE open == {j \in Jobs : job[j].conn = c /\ job[j].status \in Unfinished}
               gone == open \cup {j \in Jobs : job[j].conn = c /\ job[j].status = "CANCELLED"}
    <3>1. job' = Cancelled(open) /\ attempt' = AttemptsClosed(gone)
      BY <2>3 DEF DisconnectConnection
    <3>2. archiveHolder' \in {archiveHolder, NoConnection}
      BY <2>3 DEF DisconnectConnection, ArchiveReleased
    <3>3. /\ open \in SUBSET Jobs /\ gone \in SUBSET Jobs
          /\ \A j \in open : job[j].status \in Unfinished
      OBVIOUS
    <3> HIDE DEF open, gone
    <3>4. QED
      BY <3>1, <3>2, <3>3, CancelledKept
  <2>4. ASSUME NEW j \in Jobs, NEW p \in Partitions, EnqueueInsert(c, j, p)
        PROVE  StepKept
    <3>1. job'[j] = NewJob(c, p, reading[c]) /\ \A k \in Jobs \ {j} : job'[k] = job[k]
      BY <2>4 DEF QueueInv, TypeOK, EnqueueInsert
    <3>2. job[j].status = "NONE" /\ job'[j].status = "QUEUED" /\ job'[j].pages = 0
      BY <2>4, <3>1, NewJobTyped DEF QueueInv, TypeOK, EnqueueInsert
    <3>3. QED
      BY <2>4, <3>1, <3>2, CreatedKept DEF EnqueueInsert
  <2>5. ASSUME NEW found \in SUBSET Partitions, NEW ids \in Assignments, EnqueueDue(c, found, ids)
        PROVE  StepKept
    <3> DEFINE fresh   == {ids[p] : p \in DOMAIN ids}
               part(j) == CHOOSE p \in DOMAIN ids : ids[p] = j
    <3>1. fresh \in SUBSET Jobs /\ \A j \in fresh : job[j].status = "NONE"
      BY <2>5 DEF EnqueueDue, Assignments
    <3>2. \A j \in Jobs :
            job'[j] = IF j \in fresh THEN NewJob(c, part(j), conn[c].version) ELSE job[j]
      BY <2>5 DEF EnqueueDue
    <3>3. \A p : NewJob(c, p, conn[c].version).status = "QUEUED" /\ NewJob(c, p, conn[c].version).pages = 0
      BY DEF NewJob, NoJob
    <3>4. \A j \in fresh : job'[j].status = "QUEUED" /\ job'[j].pages = 0
      BY <3>1, <3>2, <3>3
    <3>5. \A j \in Jobs \ fresh : job'[j] = job[j]
      BY <3>2
    <3> HIDE DEF fresh
    <3>6. QED
      BY <2>5, <3>1, <3>4, <3>5, CreatedKept DEF EnqueueDue
  <2>6. CASE \/ EnqueueRead(c) \/ EnqueueReturn(c) \/ DueTimeComes(c)
             \/ \E found \in SUBSET Partitions : DiscoverPartitions(c, found)
    BY <2>6, StandingKept DEF EnqueueRead, EnqueueReturn, DueTimeComes, DiscoverPartitions
  <2>7. QED
    BY <1>1, <2>1, <2>2, <2>3, <2>4, <2>5, <2>6 DEF ConnectionStep
<1>2. ASSUME NEW j \in Jobs, JobStep(j) PROVE StepKept
  <2>1. CASE ClaimSyncJob(j) \/ LeaseTick(j) \/ BackoffElapses(j)
    BY <2>1, ClaimKept, LeaseTickKept, BackoffKept
  <2>2. CASE \E n \in AttemptNos : RenewSyncJob(j, n)
    BY <2>2, RenewKept
  <2>3. CASE \E n \in AttemptNos : Report(j, n)
    BY <2>3, CommitKept, QuarantineKept, FailKept DEF Report
  <2>4. QED
    BY <1>2, <2>1, <2>2, <2>3 DEF JobStep
<1>3. ASSUME ArchiveStep PROVE StepKept
  <2>1. CASE \E c \in ArchiveConnections : ClaimArchiveJob(c)
    BY <2>1, ConnectionsAssumption, ClaimArchiveKept
  <2>2. CASE ReleaseArchiveJob \/ \E code \in ErrorCodes, due \in BOOLEAN : FailArchiveJob(code, due)
    BY <2>2, ReleaseKept DEF ReleaseArchiveJob, FailArchiveJob
  <2>3. CASE OpenWorkerCircuit
    BY <2>3, StandingKept DEF OpenWorkerCircuit
  <2>4. QED
    BY <1>3, <2>1, <2>2, <2>3 DEF ArchiveStep
<1>4. CASE CircuitCloses \/ UNCHANGED queueVars
  BY <1>4, StandingKept DEF CircuitCloses, queueVars
<1>5. QED
  BY <1>1, <1>2, <1>3, <1>4 DEF Next

\* The empty database is an empty set of logs.
LEMMA InitMaps == Init => Log!Init
<1> SUFFICES ASSUME Init PROVE Log!Init
  OBVIOUS
<1>1. Holders = {}
  BY DEF Init, Holders, Live, NoJob
<1>2. PageLog = [j \in Jobs |-> 0] /\ Phase = [j \in Jobs |-> "absent"]
  BY DEF Init, PageLog, Phase, NoJob
<1>3. QED
  BY <1>1, <1>2 DEF Init, Log!Init

\* No step of any call, however late, rewrites a settled job or a settled attempt.
THEOREM SettlesForever == Spec => SettledForever
<1>1. QueueInv /\ [Next]_queueVars => [SettledKept]_queueVars
  BY NextKept DEF StepKept
<1>2. QED
  BY <1>1, QueueInvariant, PTL DEF Spec, SettledForever

\* No page is added without the unexpired lease of a usable connection.
THEOREM PagesAreFenced == Spec => PagesNeedTheLease
<1>1. QueueInv /\ [Next]_queueVars => [PagesFenced]_queueVars
  BY NextKept DEF StepKept
<1>2. QED
  BY <1>1, QueueInvariant, PTL DEF Spec, PagesNeedTheLease

\* The queue implements page logs that share one lease.
THEOREM QueueRefinesLog == Spec => ImplementsLeasedLog
<1>1. QueueInv /\ [Next]_queueVars => [Log!Next]_(Log!vars)
  BY NextKept DEF StepKept
<1>2. QED
  BY <1>1, InitMaps, QueueInvariant, PTL DEF Spec, ImplementsLeasedLog, Log!Spec
=============================================================================
