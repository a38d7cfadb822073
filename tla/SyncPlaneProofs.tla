--------------------------- MODULE SyncPlaneProofs ---------------------------
(***************************************************************************)
(* With its pages, conflicts, outbox rows and publications the plane is    *)
(* still the queue: every transaction of SyncPlane is an action of         *)
(* SyncQueue or leaves the queue alone.  So everything that is proved of   *)
(* the queue holds of the plane, for any partitions, events and bounds.    *)
(***************************************************************************)
EXTENDS SyncPlane, SyncQueueProofs, FiniteSetTheorems, TLAPS

\* The jobs of a connection read a partition.
JobsHavePartitions ==
  \A j \in Jobs : job[j].conn \in Connections => job[j].part \in Partitions

\* A step moves no job to another connection or partition, and gives a new job
\* a partition.
RowsStayPlaced ==
  \A j \in Jobs :
    \/ job'[j].conn = job[j].conn /\ job'[j].part = job[j].part
    \/ job'[j].part \in Partitions

\* Rewriting one row, or cancelling some, leaves every job where it was.
LEMMA RewrittenInPlace ==
  ASSUME TypeOK, NEW j \in Jobs, NEW row, job' = [job EXCEPT ![j] = row],
         row.conn = job[j].conn, row.part = job[j].part
  PROVE  RowsStayPlaced
  BY DEF RowsStayPlaced, TypeOK

\* Cancelling jobs leaves each row where it is.
LEMMA CancelledInPlace ==
  ASSUME TypeOK, NEW S, job' = Cancelled(S)
  PROVE  RowsStayPlaced
  BY DEF RowsStayPlaced, TypeOK, Cancelled, Job

\* New jobs are given partitions, however many there are.
LEMMA InsertedInPlace ==
  ASSUME TypeOK, NEW c \in Connections, NEW j \in Jobs, NEW p \in Partitions,
         EnqueueInsert(c, j, p)
  PROVE  RowsStayPlaced
  BY DEF RowsStayPlaced, TypeOK, EnqueueInsert, NewJob, NoJob

\* The schedule gives a connection's partitions a job each.
LEMMA DueJobsInPlace ==
  ASSUME TypeOK, NEW c \in Connections, NEW found \in SUBSET Partitions,
         NEW ids \in Assignments, EnqueueDue(c, found, ids)
  PROVE  RowsStayPlaced
<1>1. DOMAIN ids \subseteq Partitions
  BY DEF Assignments
<1> DEFINE fresh == {ids[p] : p \in DOMAIN ids}
           part(j) == CHOOSE p \in DOMAIN ids : ids[p] = j
<1>2. ASSUME NEW j \in fresh PROVE part(j) \in Partitions
  BY <1>1
<1>3. ASSUME NEW j \in Jobs
      PROVE  job'[j] = IF j \in fresh THEN NewJob(c, part(j), conn[c].version) ELSE job[j]
  BY DEF EnqueueDue
<1>4. ASSUME NEW p PROVE NewJob(c, p, conn[c].version).part = p
  BY DEF NewJob, NoJob
<1> HIDE DEF fresh, part
<1>5. ASSUME NEW j \in Jobs
      PROVE  \/ job'[j].conn = job[j].conn /\ job'[j].part = job[j].part
             \/ job'[j].part \in Partitions
  <2>1. CASE j \in fresh
    BY <2>1, <1>2, <1>3, <1>4
  <2>2. CASE j \notin fresh
    BY <2>2, <1>3
  <2> QED BY <2>1, <2>2
<1> QED BY <1>5 DEF RowsStayPlaced

\* Rows nobody writes stay where they are.
LEMMA StandingInPlace ==
  ASSUME UNCHANGED job
  PROVE  RowsStayPlaced
  BY DEF RowsStayPlaced

\* A report changes its own row only, and not which partition it is for.
LEMMA ReportedInPlace ==
  ASSUME TypeOK, NEW j \in Jobs, NEW n \in AttemptNos, Report(j, n)
  PROVE  RowsStayPlaced
<1>1. job[j] \in Job
  BY DEF TypeOK
<1>2. CASE \E more \in BOOLEAN : CommitSyncPage(j, n, more)
  <2>1. PICK more \in BOOLEAN : job' = [job EXCEPT ![j] = PagedRow(j, more)]
    BY <1>2 DEF CommitSyncPage
  <2>2. PagedRow(j, more).conn = job[j].conn /\ PagedRow(j, more).part = job[j].part
    BY <1>1 DEF PagedRow, Job
  <2> QED BY <2>1, <2>2, RewrittenInPlace
<1>3. CASE QuarantinePage(j, n)
  <2>1. QuarantinedRow(j).conn = job[j].conn /\ QuarantinedRow(j).part = job[j].part
    BY <1>1 DEF QuarantinedRow, Job
  <2> QED BY <1>3, <2>1, RewrittenInPlace DEF QuarantinePage
<1>4. CASE \E code \in ReportedCodes : FailSyncJob(j, n, code)
  <2>1. PICK retry, waits : job' = [job EXCEPT ![j] = ReportedRow(j, retry, waits)]
    BY <1>4 DEF FailSyncJob
  <2>2. /\ ReportedRow(j, retry, waits).conn = job[j].conn
        /\ ReportedRow(j, retry, waits).part = job[j].part
    BY <1>1 DEF ReportedRow, Job
  <2> QED BY <2>1, <2>2, RewrittenInPlace
<1> QED BY <1>2, <1>3, <1>4 DEF Report

\* No step of the queue moves a job to another partition.
LEMMA StepsInPlace == TypeOK /\ [Next]_queueVars => RowsStayPlaced
<1> SUFFICES ASSUME TypeOK, [Next]_queueVars PROVE RowsStayPlaced
  OBVIOUS
<1>1. ASSUME NEW c \in Connections, ConnectionStep(c) PROVE RowsStayPlaced
  <2>1. CASE \E v \in 1..MaxVersion, ok \in BOOLEAN : RotateConnection(c, v, ok)
    BY <2>1, CancelledInPlace DEF RotateConnection
  <2>2. CASE \E v \in 1..MaxVersion : DisconnectConnection(c, v)
    BY <2>2, CancelledInPlace DEF DisconnectConnection
  <2>3. CASE \E j \in Jobs, p \in Partitions : EnqueueInsert(c, j, p)
    BY <2>3, InsertedInPlace
  <2>4. CASE \E found \in SUBSET Partitions, ids \in Assignments : EnqueueDue(c, found, ids)
    BY <2>4, DueJobsInPlace
  <2>5. CASE \/ \E ok \in BOOLEAN : CreateConnection(c, ok)
             \/ EnqueueRead(c) \/ EnqueueReturn(c) \/ DueTimeComes(c)
             \/ \E found \in SUBSET Partitions : DiscoverPartitions(c, found)
    <3>1. UNCHANGED job
      BY <2>5 DEF CreateConnection, EnqueueRead, EnqueueReturn, DueTimeComes, DiscoverPartitions
    <3> QED BY <3>1, StandingInPlace
  <2> QED BY <1>1, <2>1, <2>2, <2>3, <2>4, <2>5 DEF ConnectionStep
<1>2. ASSUME NEW j \in Jobs, JobStep(j) PROVE RowsStayPlaced
  <2>1. job[j] \in Job
    BY DEF TypeOK
  <2>2. CASE ClaimSyncJob(j)
    <3>1. ClaimedRow(j).conn = job[j].conn /\ ClaimedRow(j).part = job[j].part
      BY <2>1 DEF ClaimedRow, Job
    <3> QED BY <2>2, <3>1, RewrittenInPlace DEF ClaimSyncJob
  <2>3. CASE \/ \E n \in AttemptNos : RenewSyncJob(j, n)
             \/ LeaseTick(j) \/ BackoffElapses(j)
    <3>1. \/ \E l : job' = [job EXCEPT ![j] = [job[j] EXCEPT !.lease = l]]
          \/ job' = [job EXCEPT ![j] = [job[j] EXCEPT !.available = TRUE]]
      BY <2>3 DEF RenewSyncJob, LeaseTick, BackoffElapses, TypeOK
    <3>2. ASSUME NEW l
          PROVE  /\ [job[j] EXCEPT !.lease = l].conn = job[j].conn
                 /\ [job[j] EXCEPT !.lease = l].part = job[j].part
      BY <2>1 DEF Job
    <3>3. /\ [job[j] EXCEPT !.available = TRUE].conn = job[j].conn
          /\ [job[j] EXCEPT !.available = TRUE].part = job[j].part
      BY <2>1 DEF Job
    <3> QED BY <3>1, <3>2, <3>3, RewrittenInPlace
  <2>4. CASE \E n \in AttemptNos : Report(j, n)
    BY <2>4, ReportedInPlace
  <2> QED BY <1>2, <2>2, <2>3, <2>4 DEF JobStep
<1>3. CASE ArchiveStep \/ CircuitCloses \/ UNCHANGED queueVars
  <2>1. UNCHANGED job
    BY <1>3 DEF ArchiveStep, ClaimArchiveJob, ReleaseArchiveJob, OpenWorkerCircuit,
                FailArchiveJob, CircuitCloses, queueVars
  <2> QED BY <2>1, StandingInPlace
<1> QED BY <1>1, <1>2, <1>3 DEF Next

-----------------------------------------------------------------------------
(* The actions of the plane are actions of the queue.                      *)

PlaneInv == QueueInv /\ JobsHavePartitions

\* What the symbols of stored events name are partitions.
LEMMA NamedTyped ==
  ASSUME NEW c
  PROVE  NamedPartitions(c) \in SUBSET Partitions
<1>1. ASSUME NEW e \in EventIds PROVE Discovers[EventPart[e]] \subseteq Partitions
  BY EventsAssumption
<1> QED BY <1>1 DEF NamedPartitions

\* An action without pages is one of the queue.
LEMMA QueueOnlyMaps == QueueOnly => Next
<1>1. ASSUME NEW c \in Connections, ConnectionOnly(c)
      PROVE  ConnectionStep(c)
  <2>1. CASE \E ids \in Assignments : EnqueueDue(c, NamedPartitions(c), ids)
    BY <2>1, NamedTyped DEF ConnectionStep
  <2>2. CASE ~ \E ids \in Assignments : EnqueueDue(c, NamedPartitions(c), ids)
    BY <1>1, <2>2 DEF ConnectionOnly, ConnectionStep
  <2> QED BY <2>1, <2>2
<1>2. ASSUME NEW j \in Jobs, JobOnly(j)
      PROVE  JobStep(j)
  BY <1>2 DEF JobOnly, JobStep, Report
<1> QED BY <1>1, <1>2 DEF QueueOnly, Next

\* A commit or quarantine with its page is one of the queue.
LEMMA PageStepMaps ==
  ASSUME NEW j \in Jobs, NEW n \in AttemptNos, PageStep(j, n)
  PROVE  Next
<1>1. Report(j, n)
  BY DEF PageStep, StorePage, StoreConflict, Report
<1> QED BY <1>1 DEF Next, JobStep

\* A completion discovers the partitions of its page; the rest of the outbox
\* leaves the queue alone.
LEMMA OutboxStepMaps ==
  ASSUME JobsHavePartitions, NEW j \in Jobs, NEW n \in PageNos, OutboxStep(j, n)
  PROVE  [Next]_queueVars
<1>1. CASE \E t \in 1..MaxWorkClaims : CompletePostCommitWork(j, n, t)
  <2>1. /\ Usable(job[j].conn, job[j].version)
        /\ DiscoverPartitions(job[j].conn, Discovers[job[j].part])
    BY <1>1 DEF CompletePostCommitWork, SourceIntact
  <2>2. job[j].conn \in Connections
    BY <2>1 DEF Usable
  <2>3. Discovers[job[j].part] \in SUBSET Partitions
    BY <2>2, EventsAssumption DEF JobsHavePartitions
  <2>4. ConnectionStep(job[j].conn)
    BY <2>1, <2>3 DEF ConnectionStep
  <2> QED BY <2>2, <2>4 DEF Next
<1>2. CASE \/ ClaimPostCommitWork(j, n) \/ WorkLeaseExpires(j, n) \/ WorkBackoffElapses(j, n)
           \/ \E t \in 1..MaxWorkClaims : FailPostCommitWork(j, n, t)
  BY <1>2 DEF ClaimPostCommitWork, WorkLeaseExpires, WorkBackoffElapses, FailPostCommitWork
<1> QED BY <1>1, <1>2 DEF OutboxStep, FinishWork

\* A rotation or disconnection with its outbox is one of the queue.
LEMMA RevocationMaps ==
  ASSUME NEW c \in Connections, NEW v \in 1..MaxVersion,
         DisconnectWithOutbox(c, v) \/ \E ok \in BOOLEAN : RotateWithOutbox(c, v, ok)
  PROVE  Next
<1>1. ConnectionStep(c)
  BY DEF DisconnectWithOutbox, RotateWithOutbox, ConnectionStep
<1> QED BY <1>1 DEF Next

\* So every step of the plane is one of the queue, or none.
LEMMA PlaneStepMaps ==
  JobsHavePartitions /\ [PlaneNext]_planeVars => [Next]_queueVars
  BY QueueOnlyMaps, PageStepMaps, OutboxStepMaps, RevocationMaps DEF PlaneNext, planeVars

\* The invariant of rows and types holds always.
LEMMA PlaneInvHolds == PlaneSpec => []PlaneInv
<1>1. PlaneInit => PlaneInv
  BY InitInv, ConnectionsAssumption DEF PlaneInit, PlaneInv, JobsHavePartitions, Init, NoJob
<1>2. PlaneInv /\ [PlaneNext]_planeVars => PlaneInv'
  <2> SUFFICES ASSUME PlaneInv, [PlaneNext]_planeVars PROVE PlaneInv'
    OBVIOUS
  <2>1. [Next]_queueVars
    BY PlaneStepMaps DEF PlaneInv
  <2>2. QueueInv'
    BY <2>1, NextInv DEF PlaneInv
  <2>3. RowsStayPlaced
    BY <2>1, StepsInPlace DEF PlaneInv, QueueInv
  <2>4. JobsHavePartitions'
    BY <2>3 DEF PlaneInv, JobsHavePartitions, RowsStayPlaced
  <2> QED BY <2>2, <2>4 DEF PlaneInv
<1> QED BY <1>1, <1>2, PTL DEF PlaneSpec

-----------------------------------------------------------------------------
(* What the transactions do to pages, outbox rows and generations.         *)

CoverageStates == {"NONE", "UNKNOWN", "PARTIAL", "CONFLICT"}
WorkStates     == {"NONE", "PENDING", "CLAIMED", "DONE", "FAILED"}

Coverage   == [state : CoverageStates, committed : Nat, trusted : Nat]
Event      == [hash : Hashes \cup {0}, job : Jobs \cup {0}, page : Nat, time : Nat]
Work       == [status : WorkStates, attempt : Nat, failures : Nat, claims : Nat,
               live : BOOLEAN, available : BOOLEAN]
Generation == [status : {"NONE", "PUBLISHED", "SUPERSEDED"}, jobs : SUBSET Jobs,
               root : SUBSET EventIds]

\* The rows of the plane; of a conflict only its place, as a digest that is
\* greatest in an infinite set would be none.
PlaneTypeOK ==
  /\ coverage \in [Connections -> [Partitions -> Coverage]]
  /\ event \in [Connections -> [EventIds -> Event]]
  /\ conflict = [c \in Connections |-> [e \in EventIds |-> conflict[c][e]]]
  /\ work \in [Jobs -> [PageNos -> Work]]
  /\ generation \in [Connections -> [GenerationNos -> Generation]]
  /\ current \in [Connections -> 0..MaxGenerations]

\* A page is trusted only after it was committed.
TrustFollows ==
  \A c \in Connections, p \in Partitions : coverage[c][p].trusted <= coverage[c][p].committed

\* The outbox has a row for each page that was committed, and no other.
OutboxNumbered ==
  \A j \in Jobs, n \in PageNos : work[j][n].status # "NONE" <=> n <= job[j].pages

\* What was published is still under the watermarks.
RootsCovered ==
  \A c \in Connections : \A g \in 1..current[c] :
    generation[c][g].root \subseteq Root(c, coverage[c])

DataInv ==
  /\ PlaneTypeOK /\ TrustFollows /\ OutboxNumbered
  /\ ConflictsAreQuarantined /\ PublishedOnce /\ RootsCovered /\ RootsGrow

\* What a step does to the data, apart from the invariant.
Appended(c) ==
  /\ \A e \in EventIds : Stored(c, e) => event'[c][e] = event[c][e]
  /\ \A p \in Partitions : /\ coverage'[c][p].committed >= coverage[c][p].committed
                           /\ coverage'[c][p].trusted >= coverage[c][p].trusted
  /\ \A g \in 1..current[c] : /\ generation'[c][g].jobs = generation[c][g].jobs
                              /\ generation'[c][g].root = generation[c][g].root
  /\ current'[c] \in {current[c], current[c] + 1}

Isolated(c) ==
  /\ \A p \in Partitions : coverage[c][p].state = "CONFLICT" =>
       /\ coverage'[c][p] = coverage[c][p]
       /\ \A e \in EventIds : EventPart[e] = p => event'[c][e] = event[c][e]
  /\ (\E e \in EventIds : Conflicting(c, e)) => generation'[c] = generation[c]

DataKept == \A c \in Connections : Appended(c) /\ Isolated(c)

\* A set of natural numbers has a least element: its initial segments are
\* finite, and finite sets are well-founded.
LEMMA LeastNatural ==
  ASSUME NEW S \in SUBSET Nat, S # {}
  PROVE  \E m \in S : \A k \in S : m <= k
<1> DEFINE T == {0..x : x \in S}
<1>1. T \subseteq FiniteSubsetsOf(Nat) /\ T # {}
  <2>1. \A x \in S : IsFiniteSet(0..x) /\ 0..x \in SUBSET Nat
    BY FS_Interval
  <2> QED BY <2>1 DEF FiniteSubsetsOf
<1>2. IsWellFoundedOn(StrictSubsetOrdering(Nat), FiniteSubsetsOf(Nat))
  BY FS_StrictSubsetOrderingWellFounded
<1> HIDE DEF T
<1>3. PICK t \in T : \A u \in T : <<u, t>> \notin StrictSubsetOrdering(Nat)
  BY <1>1, <1>2, WFMin
<1>4. PICK m \in S : t = 0..m
  BY <1>3 DEF T
<1>5. ASSUME NEW k \in S, k < m PROVE FALSE
  <2>1. 0..k \in T
    BY DEF T
  <2>2. /\ 0..k \in SUBSET Nat /\ 0..m \in SUBSET Nat /\ 0..k \subseteq 0..m
        /\ m \in 0..m /\ m \notin 0..k
    BY <1>5
  <2>3. <<0..k, 0..m>> \in StrictSubsetOrdering(Nat)
    BY <2>2 DEF StrictSubsetOrdering
  <2> QED BY <2>1, <2>3, <1>3, <1>4
<1> QED BY <1>5

\* The least of some digests is one of them.
LEMMA LeastDigest ==
  ASSUME NEW S \in SUBSET Hashes, S # {}
  PROVE  Least(S) \in S
<1>1. \E m \in S : \A k \in S : m <= k
  BY LeastNatural, EventsAssumption
<1> QED BY <1>1 DEF Least

\* The digests of an identity that a page names are digests.
LEMMA DigestsTyped ==
  ASSUME PlaneTypeOK, NEW c \in Connections, NEW p \in Partitions, NEW page \in Pages(p),
         NEW e \in EventIds, e \in {r[1] : r \in page}
  PROVE  Digests(c, page, e) \in SUBSET Hashes /\ Digests(c, page, e) # {} /\ EventPart[e] = p
<1>1. \A r \in page : r \in {d \in EventIds : EventPart[d] = p} \X Hashes
  BY DEF Pages
<1>2. event[c][e].hash \in Hashes \cup {0}
  BY DEF PlaneTypeOK, Event
<1>3. PICK r \in page : r[1] = e
  OBVIOUS
<1>4. r[2] \in Digests(c, page, e) /\ EventPart[e] = p
  BY <1>1, <1>3 DEF Digests
<1>5. Digests(c, page, e) \subseteq Hashes
  BY <1>1, <1>2 DEF Digests, Stored
<1> QED BY <1>4, <1>5

\* A step that adds no page and no row, and undoes no effect.
Quiet ==
  /\ UNCHANGED <<coverage, event, conflict, generation, current>>
  /\ work' \in [Jobs -> [PageNos -> Work]]
  /\ \A j \in Jobs, n \in PageNos :
       /\ work'[j][n].status = "NONE" <=> work[j][n].status = "NONE"
       /\ work[j][n].status = "DONE" => work'[j][n].status = "DONE"
  /\ \A j \in Jobs : job'[j].pages = job[j].pages

\* A published job is settled, so its row and its effects stay.
LEMMA PublishedStays ==
  ASSUME PlaneInv, PublishedOnce, SettledKept, NEW c \in Connections,
         UNCHANGED <<generation, current>>,
         \A j \in Jobs, n \in PageNos :
           work[j][n].status = "DONE" => work'[j][n].status = "DONE",
         PlaneTypeOK
  PROVE  \A g \in GenerationNos :
           /\ generation'[c][g].status # "NONE" <=> g <= current'[c]
           /\ generation'[c][g].status = "PUBLISHED" <=> g = current'[c]
           /\ \A j \in generation'[c][g].jobs :
                /\ job'[j].status = "SUCCEEDED" /\ job'[j].conn = c
                /\ \A n \in 1..job'[j].pages : work'[j][n].status = "DONE"
<1>1. ASSUME NEW g \in GenerationNos, NEW j \in generation[c][g].jobs
      PROVE  /\ job'[j].status = "SUCCEEDED" /\ job'[j].conn = c
             /\ \A n \in 1..job'[j].pages : work'[j][n].status = "DONE"
  <2>1. j \in Jobs
    BY DEF PlaneTypeOK, Generation
  <2>2. /\ job[j].status = "SUCCEEDED" /\ job[j].conn = c
        /\ \A n \in 1..job[j].pages : work[j][n].status = "DONE"
    BY DEF PublishedOnce
  <2>3. job'[j] = job[j]
    BY <2>1, <2>2 DEF SettledKept, Settled
  <2>4. job[j].pages \in 0..MaxPages
    BY <2>1 DEF PlaneInv, QueueInv, TypeOK, Job
  <2>5. 1..job[j].pages \subseteq PageNos
    BY <2>4, BoundsAssumption DEF PageNos
  <2> QED BY <2>1, <2>2, <2>3, <2>5
<1> QED BY <1>1 DEF PublishedOnce

\* What stores no event and publishes nothing keeps the data invariant.
LEMMA QuietKept ==
  ASSUME PlaneInv, DataInv, SettledKept, Quiet
  PROVE  DataInv' /\ DataKept
<1>1. PlaneTypeOK'
  BY DEF DataInv, PlaneTypeOK, Quiet
<1>2. TrustFollows' /\ ConflictsAreQuarantined'
  BY DEF DataInv, Quiet, TrustFollows, ConflictsAreQuarantined, Conflicting
<1>3. OutboxNumbered'
  BY DEF DataInv, Quiet, OutboxNumbered
<1>4. RootsCovered' /\ RootsGrow'
  BY DEF DataInv, Quiet, RootsCovered, RootsGrow, Root, Stored
<1>5. PublishedOnce'
  <2>1. \A c \in Connections, g, h \in GenerationNos :
          g # h => generation'[c][g].jobs \cap generation'[c][h].jobs = {}
    BY DEF DataInv, Quiet, PublishedOnce
  <2> QED BY <2>1, PublishedStays DEF DataInv, Quiet, PublishedOnce
<1>6. DataKept
  <2>1. ASSUME NEW c \in Connections, NEW p \in Partitions
        PROVE  /\ coverage'[c][p].committed >= coverage[c][p].committed
               /\ coverage'[c][p].trusted >= coverage[c][p].trusted
    BY DEF DataInv, PlaneTypeOK, Coverage, Quiet
  <2> QED BY <2>1 DEF Quiet, DataKept, Appended, Isolated
<1> QED BY <1>1, <1>2, <1>3, <1>4, <1>5, <1>6 DEF DataInv

\* The functions that touch the queue alone commit no page.
LEMMA QueueOnlyQuiet ==
  ASSUME PlaneInv, PlaneTypeOK, QueueOnly
  PROVE  Quiet
<1>1. ASSUME NEW c \in Connections, ConnectionOnly(c)
      PROVE  \A j \in Jobs : job'[j].pages = job[j].pages
  <2>1. CASE \E j \in Jobs, p \in Partitions : EnqueueInsert(c, j, p)
    BY <2>1 DEF EnqueueInsert, NewJob, NoJob, PlaneInv, QueueInv, RowsInv, UnusedJobsAreFresh, TypeOK
  <2>2. CASE \E ids \in Assignments : EnqueueDue(c, NamedPartitions(c), ids)
    <3>1. PICK ids \in Assignments : EnqueueDue(c, NamedPartitions(c), ids)
      BY <2>2
    <3> DEFINE fresh   == {ids[p] : p \in DOMAIN ids}
               part(j) == CHOOSE p \in DOMAIN ids : ids[p] = j
    <3>2. \A j \in Jobs :
            job'[j] = IF j \in fresh THEN NewJob(c, part(j), conn[c].version) ELSE job[j]
      BY <3>1 DEF EnqueueDue
    <3>3. \A j \in fresh : job[j].status = "NONE"
      BY <3>1 DEF EnqueueDue
    <3>4. \A p : NewJob(c, p, conn[c].version).pages = 0
      BY DEF NewJob, NoJob
    <3>5. \A j \in Jobs : job[j].status = "NONE" => job[j].pages = 0
      BY DEF PlaneInv, QueueInv, RowsInv, UnusedJobsAreFresh, NoJob
    <3> HIDE DEF fresh, part
    <3> QED BY <3>2, <3>3, <3>4, <3>5
  <2>3. CASE \/ \E ok \in BOOLEAN : CreateConnection(c, ok)
             \/ EnqueueRead(c) \/ EnqueueReturn(c) \/ DueTimeComes(c)
    BY <2>3 DEF CreateConnection, EnqueueRead, EnqueueReturn, DueTimeComes
  <2> QED BY <1>1, <2>1, <2>2, <2>3 DEF ConnectionOnly
<1>2. ASSUME NEW k \in Jobs, JobOnly(k)
      PROVE  \A j \in Jobs : job'[j].pages = job[j].pages
  <2>1. job[k] \in Job /\ job \in [Jobs -> Job]
    BY DEF PlaneInv, QueueInv, TypeOK
  <2>2. PICK row : job' = [job EXCEPT ![k] = row] /\ row.pages = job[k].pages
    <3>1. CASE ClaimSyncJob(k)
      <4>1. ClaimedRow(k).pages = job[k].pages
        BY <2>1 DEF ClaimedRow, Job
      <4> QED BY <3>1, <4>1 DEF ClaimSyncJob
    <3>2. CASE \E n \in AttemptNos : RenewSyncJob(k, n)
      BY <2>1, <3>2 DEF RenewSyncJob, Job
    <3>3. CASE \E n \in AttemptNos, code \in ReportedCodes : FailSyncJob(k, n, code)
      <4>1. PICK retry, waits : job' = [job EXCEPT ![k] = ReportedRow(k, retry, waits)]
        BY <3>3 DEF FailSyncJob
      <4>2. ReportedRow(k, retry, waits).pages = job[k].pages
        BY <2>1 DEF ReportedRow, Job
      <4> QED BY <4>1, <4>2
    <3>4. CASE LeaseTick(k) \/ BackoffElapses(k)
      BY <2>1, <3>4 DEF LeaseTick, BackoffElapses, Job
    <3> QED BY <1>2, <3>1, <3>2, <3>3, <3>4 DEF JobOnly
  <2> QED BY <2>1, <2>2
<1>3. CASE ArchiveStep \/ CircuitCloses
  <2>1. UNCHANGED job
    BY <1>3 DEF ArchiveStep, ClaimArchiveJob, ReleaseArchiveJob, OpenWorkerCircuit,
                FailArchiveJob, CircuitCloses
  <2> QED BY <2>1, <1>3 DEF QueueOnly, Quiet, dataVars, PlaneTypeOK
<1> QED BY <1>1, <1>2, <1>3 DEF QueueOnly, Quiet, dataVars, PlaneTypeOK

\* A claim, a lost lease, a passed delay and a failure report move one row that
\* is neither missing nor done.
LEMMA OneRowQuiet ==
  ASSUME PlaneTypeOK, NEW j \in Jobs, NEW n \in PageNos, NEW row \in Work,
         work[j][n].status \in {"PENDING", "CLAIMED"}, row.status # "NONE",
         work' = [work EXCEPT ![j][n] = row],
         UNCHANGED <<queueVars, coverage, event, conflict, generation, current>>
  PROVE  Quiet
  BY DEF Quiet, PlaneTypeOK, queueVars

\* The rows that claims, lost leases, passed delays and failures leave.
LEMMA WorkRows ==
  ASSUME NEW w \in Work
  PROVE  /\ [w EXCEPT !.status = "CLAIMED", !.live = TRUE, !.claims = @ + 1] \in Work
         /\ [w EXCEPT !.live = FALSE] \in Work
         /\ [w EXCEPT !.available = TRUE] \in Work
         /\ \A retry \in BOOLEAN :
              [w EXCEPT !.status = IF retry THEN "PENDING" ELSE "FAILED", !.failures = @ + 1,
                        !.live = FALSE, !.available = ~retry] \in Work
         /\ [w EXCEPT !.status = "DONE", !.live = FALSE] \in Work
<1>1. /\ w.status \in WorkStates /\ w.attempt \in Nat /\ w.failures \in Nat /\ w.claims \in Nat
      /\ w.live \in BOOLEAN /\ w.available \in BOOLEAN
  BY DEF Work
<1>2. w.claims + 1 \in Nat /\ w.failures + 1 \in Nat
  BY <1>1
<1>3. {"CLAIMED", "PENDING", "FAILED", "DONE"} \subseteq WorkStates
  BY DEF WorkStates
<1>4. [w EXCEPT !.status = "CLAIMED", !.live = TRUE, !.claims = @ + 1] \in Work
  BY <1>1, <1>2, <1>3, Zenon DEF Work
<1>5. [w EXCEPT !.live = FALSE] \in Work /\ [w EXCEPT !.available = TRUE] \in Work
  BY DEF Work
<1>6. ASSUME NEW retry \in BOOLEAN
      PROVE  [w EXCEPT !.status = IF retry THEN "PENDING" ELSE "FAILED", !.failures = @ + 1,
                       !.live = FALSE, !.available = ~retry] \in Work
  BY <1>1, <1>2, <1>3, Zenon DEF Work
<1>7. [w EXCEPT !.status = "DONE", !.live = FALSE] \in Work
  BY <1>3 DEF Work
<1> QED BY <1>4, <1>5, <1>6, <1>7

\* Claiming, losing, delaying or failing outbox work is of that kind.
LEMMA OutboxQuiet ==
  ASSUME PlaneTypeOK, NEW j \in Jobs, NEW n \in PageNos,
         \/ ClaimPostCommitWork(j, n) \/ WorkLeaseExpires(j, n) \/ WorkBackoffElapses(j, n)
         \/ \E t \in 1..MaxWorkClaims : FailPostCommitWork(j, n, t)
  PROVE  Quiet
<1>1. work \in [Jobs -> [PageNos -> Work]] /\ work[j][n] \in Work
  BY DEF PlaneTypeOK
<1>2. UNCHANGED <<queueVars, coverage, event, conflict, generation, current>>
  BY DEF ClaimPostCommitWork, WorkLeaseExpires, WorkBackoffElapses, FailPostCommitWork
<1>3. work[j][n].status \in {"PENDING", "CLAIMED"}
  BY DEF ClaimPostCommitWork, WorkLeaseExpires, WorkBackoffElapses, FailPostCommitWork,
         HoldsWork, WorkLive
<1>4. PICK row : work' = [work EXCEPT ![j][n] = row] /\ row \in Work /\ row.status # "NONE"
  <2> DEFINE claimed       == [work[j][n] EXCEPT !.status = "CLAIMED", !.live = TRUE, !.claims = @ + 1]
             expired       == [work[j][n] EXCEPT !.live = FALSE]
             due           == [work[j][n] EXCEPT !.available = TRUE]
             failed(retry) == [work[j][n] EXCEPT !.status = IF retry THEN "PENDING" ELSE "FAILED",
                                                 !.failures = @ + 1, !.live = FALSE,
                                                 !.available = ~retry]
  <2>1. claimed \in Work /\ expired \in Work /\ due \in Work /\ \A retry \in BOOLEAN : failed(retry) \in Work
    BY <1>1, WorkRows
  <2>2. /\ claimed.status # "NONE" /\ expired.status # "NONE" /\ due.status # "NONE"
        /\ \A retry \in BOOLEAN : failed(retry).status # "NONE"
    BY <1>1, <1>3 DEF Work
  <2>3. \/ work' = [work EXCEPT ![j][n] = claimed]
        \/ work' = [work EXCEPT ![j][n] = expired]
        \/ work' = [work EXCEPT ![j][n] = due]
        \/ \E retry \in BOOLEAN : work' = [work EXCEPT ![j][n] = failed(retry)]
    <3>1. CASE ClaimPostCommitWork(j, n)
      BY <1>1, <3>1 DEF ClaimPostCommitWork
    <3>2. CASE WorkLeaseExpires(j, n)
      BY <1>1, <3>2 DEF WorkLeaseExpires
    <3>3. CASE WorkBackoffElapses(j, n)
      BY <1>1, <3>3 DEF WorkBackoffElapses
    <3>4. CASE \E t \in 1..MaxWorkClaims : FailPostCommitWork(j, n, t)
      <4> DEFINE retry == work[j][n].failures + 1 < MaxFailures
      <4>1. work' = [work EXCEPT ![j][n] = failed(retry)]
        BY <1>1, <3>4 DEF FailPostCommitWork
      <4> QED BY <4>1
    <3> QED BY <3>1, <3>2, <3>3, <3>4
  <2> HIDE DEF claimed, expired, due, failed
  <2> QED BY <2>1, <2>2, <2>3
<1> QED BY <1>2, <1>3, <1>4, OneRowQuiet

\* Rotation and disconnect close rows that are pending or claimed.
LEMMA RevocationQuiet ==
  ASSUME PlaneInv, PlaneTypeOK, NEW c \in Connections, NEW v \in 1..MaxVersion,
         DisconnectWithOutbox(c, v) \/ \E ok \in BOOLEAN : RotateWithOutbox(c, v, ok)
  PROVE  Quiet
<1>1. PICK S : job' = Cancelled(S)
  BY DEF DisconnectWithOutbox, RotateWithOutbox, DisconnectConnection, RotateConnection
<1>2. \A j \in Jobs : job'[j].pages = job[j].pages
  BY <1>1 DEF Cancelled, PlaneInv, QueueInv, TypeOK, Job
<1>3. PICK T : work' = WorkClosed(T)
  BY DEF DisconnectWithOutbox, RotateWithOutbox
<1>4. ASSUME NEW j \in Jobs, NEW n \in PageNos
      PROVE  /\ work'[j][n] \in Work
             /\ work'[j][n].status = "NONE" <=> work[j][n].status = "NONE"
             /\ work[j][n].status = "DONE" => work'[j][n].status = "DONE"
  <2>1. work[j][n] \in Work
    BY DEF PlaneTypeOK
  <2>2. work'[j][n] = IF j \in T /\ work[j][n].status \in {"PENDING", "CLAIMED"}
                      THEN [work[j][n] EXCEPT !.status = "FAILED", !.live = FALSE]
                      ELSE work[j][n]
    BY <1>3 DEF WorkClosed
  <2> QED BY <2>1, <2>2 DEF Work, WorkStates
<1>5. work' \in [Jobs -> [PageNos -> Work]]
  BY <1>3, <1>4 DEF WorkClosed
<1> QED BY <1>2, <1>4, <1>5 DEF Quiet, DisconnectWithOutbox, RotateWithOutbox

\* What is under the watermarks stays there while events are kept and
\* watermarks only rise.
LEMMA RootMonotone ==
  ASSUME PlaneTypeOK, PlaneTypeOK', NEW c \in Connections,
         \A e \in EventIds : Stored(c, e) => event'[c][e] = event[c][e],
         \A p \in Partitions : coverage'[c][p].trusted >= coverage[c][p].trusted
  PROVE  Root(c, coverage[c]) \subseteq Root(c, coverage[c])'
<1> SUFFICES ASSUME NEW e \in Root(c, coverage[c]) PROVE e \in Root(c, coverage[c])'
  OBVIOUS
<1>1. /\ e \in EventIds /\ Stored(c, e) /\ coverage[c][EventPart[e]].trusted > 0
      /\ event[c][e].time <= coverage[c][EventPart[e]].trusted
  BY DEF Root
<1>2. EventPart[e] \in Partitions
  BY <1>1, EventsAssumption
<1>3. /\ event'[c][e] = event[c][e]
      /\ coverage'[c][EventPart[e]].trusted >= coverage[c][EventPart[e]].trusted
  BY <1>1, <1>2
<1>4. /\ coverage[c][EventPart[e]].trusted \in Nat /\ coverage'[c][EventPart[e]].trusted \in Nat
      /\ event[c][e].time \in Nat
  BY <1>1, <1>2 DEF PlaneTypeOK, Coverage, Event
<1> QED BY <1>1, <1>3, <1>4 DEF Root, Stored

\* Without a publication, new events leave the generations and what they cover.
LEMMA RootsStay ==
  ASSUME DataInv, PlaneTypeOK', UNCHANGED <<generation, current>>, \A c \in Connections : Appended(c)
  PROVE  RootsCovered' /\ RootsGrow'
<1>1. \A c \in Connections : Root(c, coverage[c]) \subseteq Root(c, coverage[c])'
  BY RootMonotone DEF DataInv, Appended
<1>2. RootsCovered'
  BY <1>1 DEF DataInv, RootsCovered
<1>3. RootsGrow'
  BY DEF DataInv, RootsGrow
<1> QED BY <1>2, <1>3

\* A stored page: new events with their digests, the next committed stamp, the
\* next outbox row.
LEMMA StoreKept ==
  ASSUME PlaneInv, DataInv, SettledKept, NEW j \in Jobs, NEW n \in AttemptNos,
         NEW page \in Pages(job[j].part), NEW more \in BOOLEAN, NEW recent \in BOOLEAN,
         StorePage(j, n, more, page, recent)
  PROVE  DataInv' /\ DataKept
<1> DEFINE c     == job[j].conn
           p     == job[j].part
           pages == job[j].pages
           time  == IF recent THEN Stamp(c, p) ELSE 0
<1>1. PlaneTypeOK /\ TypeOK /\ job[j] \in Job
  BY DEF PlaneInv, QueueInv, TypeOK, DataInv
<1>2. CommitSyncPage(j, n, more) /\ ~Quarantined(c, p, page)
  BY DEF StorePage
<1>3. c \in Connections /\ p \in Partitions
  BY <1>2 DEF PlaneInv, JobsHavePartitions, CommitSyncPage, MayCommit, Usable
<1>4. pages \in Nat /\ pages + 1 \in PageNos
  BY <1>1, <1>2, BoundsAssumption DEF CommitSyncPage, Job, PageNos
<1>5. \A k \in Jobs : job'[k].pages = IF k = j THEN pages + 1 ELSE job[k].pages
  <2>1. PagedRow(j, more).pages = pages + 1
    BY <1>1 DEF PagedRow, Job
  <2> QED BY <2>1, <1>1, <1>2 DEF CommitSyncPage, TypeOK
<1>6. PICK row \in Coverage :
        /\ coverage' = [coverage EXCEPT ![c][p] = row]
        /\ row.state # "CONFLICT" /\ coverage[c][p].state # "CONFLICT"
        /\ row.committed >= coverage[c][p].committed /\ row.trusted = coverage[c][p].trusted
  <2> DEFINE state     == IF page = {} THEN "UNKNOWN" ELSE "PARTIAL"
             committed == IF page = {} THEN coverage[c][p].committed ELSE Stamp(c, p)
             row       == [coverage[c][p] EXCEPT !.state = state, !.committed = committed]
  <2>1. coverage[c][p] \in Coverage /\ coverage[c][p].state # "CONFLICT"
    BY <1>1, <1>2, <1>3 DEF PlaneTypeOK, Quarantined
  <2>2. /\ coverage[c][p].committed \in Nat /\ committed \in Nat
        /\ committed >= coverage[c][p].committed
    BY <2>1 DEF Coverage, Stamp
  <2>3. state \in CoverageStates /\ state # "CONFLICT"
    BY DEF CoverageStates
  <2>4. coverage' = [coverage EXCEPT ![c][p] = row]
    BY <2>1 DEF StorePage, CoverageWith
  <2> HIDE DEF state, committed
  <2>5. row \in Coverage /\ row.state = state /\ row.committed = committed /\ row.trusted = coverage[c][p].trusted
    BY <2>1, <2>2, <2>3 DEF Coverage
  <2> HIDE DEF row
  <2> QED BY <2>1, <2>2, <2>3, <2>4, <2>5
<1>7. \A d \in Connections, e \in EventIds :
        \/ event'[d][e] = event[d][e]
        \/ d = c /\ ~Stored(d, e) /\ EventPart[e] = p /\ event'[d][e] \in Event
  <2>1. ASSUME NEW e \in EventIds, e \in {r[1] : r \in page}
        PROVE  EventPart[e] = p /\ Least(Digests(c, page, e)) \in Hashes
    BY <2>1, <1>1, <1>3, DigestsTyped, LeastDigest
  <2>2. time \in Nat
    BY <1>1, <1>3 DEF PlaneTypeOK, Coverage, Stamp
  <2>3. \A e \in EventIds :
          event'[c][e] = IF e \in {r[1] : r \in page} /\ ~Stored(c, e)
                         THEN [hash |-> Least(Digests(c, page, e)), job |-> j, page |-> pages + 1,
                               time |-> time]
                         ELSE event[c][e]
    BY <1>1, <1>3 DEF StorePage, EventsWith, PlaneTypeOK
  <2>4. \A d \in Connections : d # c => event'[d] = event[d]
    BY <1>1, <1>3 DEF StorePage, EventsWith, PlaneTypeOK
  <2>5. ASSUME NEW h \in Hashes
        PROVE  [hash |-> h, job |-> j, page |-> pages + 1, time |-> time] \in Event
    BY <2>2, <1>4 DEF Event
  <2> HIDE DEF time
  <2> QED BY <2>1, <2>3, <2>4, <2>5
<1>8. PICK effect \in Work : work' = [work EXCEPT ![j][pages + 1] = effect] /\ effect.status = "PENDING"
  <2>1. n \in Nat
    BY DEF AttemptNos
  <2>2. [NoWork EXCEPT !.status = "PENDING", !.attempt = n, !.available = TRUE] \in Work
    BY <2>1 DEF NoWork, Work, WorkStates
  <2>3. [NoWork EXCEPT !.status = "PENDING", !.attempt = n, !.available = TRUE].status = "PENDING"
    BY DEF NoWork
  <2> QED BY <2>2, <2>3 DEF StorePage, OutboxWith
<1>9. UNCHANGED <<conflict, generation, current>>
  BY DEF StorePage
<1> HIDE DEF c, p, pages, time
<1>10. PlaneTypeOK'
  <2>1. coverage' \in [Connections -> [Partitions -> Coverage]]
    BY <1>1, <1>3, <1>6 DEF PlaneTypeOK
  <2>2. event' \in [Connections -> [EventIds -> Event]]
    <3>1. \A d \in Connections, e \in EventIds : event'[d][e] \in Event
      BY <1>1, <1>7 DEF PlaneTypeOK
    <3>2. event' = [d \in Connections |-> [e \in EventIds |-> event'[d][e]]]
      BY <1>1 DEF StorePage, EventsWith, PlaneTypeOK
    <3> QED BY <3>1, <3>2
  <2>3. work' \in [Jobs -> [PageNos -> Work]]
    BY <1>1, <1>4, <1>8 DEF PlaneTypeOK
  <2> QED BY <2>1, <2>2, <2>3, <1>1, <1>9 DEF PlaneTypeOK
<1>11. TrustFollows'
  BY <1>1, <1>3, <1>6 DEF DataInv, TrustFollows, PlaneTypeOK, Coverage
<1>12. OutboxNumbered'
  <2>1. ASSUME NEW k \in Jobs, NEW m \in PageNos
        PROVE  work'[k][m].status # "NONE" <=> m <= job'[k].pages
    <3>1. work[k][m].status # "NONE" <=> m <= job[k].pages
      BY DEF DataInv, OutboxNumbered
    <3>2. CASE k = j /\ m = pages + 1
      BY <3>2, <1>1, <1>4, <1>5, <1>8 DEF PlaneTypeOK
    <3>3. CASE k = j /\ m # pages + 1
      <4>1. work'[k][m] = work[k][m]
        BY <3>3, <1>1, <1>4, <1>8 DEF PlaneTypeOK
      <4>2. m <= pages <=> m <= pages + 1
        BY <3>3, <1>4 DEF PageNos
      <4> QED BY <3>1, <3>3, <4>1, <4>2, <1>5 DEF pages
    <3>4. CASE k # j
      <4>1. work'[k][m] = work[k][m]
        BY <3>4, <1>1, <1>8 DEF PlaneTypeOK
      <4> QED BY <3>1, <3>4, <4>1, <1>5
    <3> QED BY <3>2, <3>3, <3>4
  <2> QED BY <2>1 DEF OutboxNumbered
<1>13. ConflictsAreQuarantined'
  <2>1. \A d \in Connections, q \in Partitions :
          coverage'[d][q].state = "CONFLICT" <=> coverage[d][q].state = "CONFLICT"
    BY <1>1, <1>3, <1>6 DEF PlaneTypeOK
  <2> QED BY <2>1, <1>9 DEF DataInv, ConflictsAreQuarantined, Conflicting
<1>14. PublishedOnce'
  <2>1. \A k \in Jobs, m \in PageNos :
          work[k][m].status = "DONE" => work'[k][m].status = "DONE"
    <3>1. work[j][pages + 1].status = "NONE"
      BY <1>4 DEF DataInv, OutboxNumbered, pages
    <3> QED BY <3>1, <1>1, <1>8 DEF PlaneTypeOK
  <2>2. \A d \in Connections, g, h \in GenerationNos :
          g # h => generation'[d][g].jobs \cap generation'[d][h].jobs = {}
    BY <1>9 DEF DataInv, PublishedOnce
  <2> QED BY <2>1, <2>2, <1>1, <1>9, PublishedStays DEF DataInv, PublishedOnce
<1>15. \A d \in Connections : Appended(d)
  <2>1. ASSUME NEW d \in Connections, NEW q \in Partitions
        PROVE  /\ coverage'[d][q].committed >= coverage[d][q].committed
               /\ coverage'[d][q].trusted >= coverage[d][q].trusted
    BY <1>1, <1>3, <1>6 DEF PlaneTypeOK, Coverage
  <2> QED BY <2>1, <1>7, <1>9 DEF Appended
<1>16. \A d \in Connections : Isolated(d)
  <2>1. ASSUME NEW d \in Connections, NEW q \in Partitions, coverage[d][q].state = "CONFLICT"
        PROVE  /\ coverage'[d][q] = coverage[d][q]
               /\ \A e \in EventIds : EventPart[e] = q => event'[d][e] = event[d][e]
    <3>1. ~(d = c /\ q = p)
      BY <2>1, <1>6
    <3> QED BY <3>1, <1>1, <1>3, <1>6, <1>7 DEF PlaneTypeOK
  <2> QED BY <2>1, <1>9 DEF Isolated
<1>17. RootsCovered' /\ RootsGrow'
  BY <1>9, <1>10, <1>15, RootsStay
<1> QED BY <1>10, <1>11, <1>12, <1>13, <1>14, <1>15, <1>16, <1>17 DEF DataInv, DataKept

\* A quarantined page: evidence for its diverging identities, CONFLICT for its
\* partition, and nothing else.
LEMMA ConflictKept ==
  ASSUME PlaneInv, DataInv, SettledKept, NEW j \in Jobs, NEW n \in AttemptNos,
         NEW page \in Pages(job[j].part), StoreConflict(j, n, page)
  PROVE  DataInv' /\ DataKept
<1> DEFINE c       == job[j].conn
           p       == job[j].part
           rows(e) == Upserted(c, e, Digests(c, page, e))
<1>1. PlaneTypeOK /\ TypeOK /\ job[j] \in Job
  BY DEF PlaneInv, QueueInv, TypeOK, DataInv
<1>2. QuarantinePage(j, n) /\ Quarantined(c, p, page)
  BY DEF StoreConflict
<1>3. c \in Connections /\ p \in Partitions
  BY <1>2 DEF PlaneInv, JobsHavePartitions, QuarantinePage, MayCommit, Usable
<1>4. \A k \in Jobs : job'[k].pages = job[k].pages
  <2>1. QuarantinedRow(j).pages = job[j].pages
    BY <1>1 DEF QuarantinedRow, Job
  <2> QED BY <2>1, <1>1, <1>2 DEF QuarantinePage, TypeOK
<1>5. PICK row \in Coverage :
        /\ coverage' = [coverage EXCEPT ![c][p] = row] /\ row.state = "CONFLICT"
        /\ row.committed = coverage[c][p].committed /\ row.trusted = coverage[c][p].trusted
        /\ coverage[c][p].state = "CONFLICT" => row = coverage[c][p]
  <2> DEFINE row == [coverage[c][p] EXCEPT !.state = "CONFLICT"]
  <2>1. coverage[c][p] \in Coverage
    BY <1>1, <1>3 DEF PlaneTypeOK
  <2>2. row \in Coverage /\ row.state = "CONFLICT"
    BY <2>1 DEF Coverage, CoverageStates
  <2>3. row.committed = coverage[c][p].committed /\ row.trusted = coverage[c][p].trusted
    BY <2>1 DEF Coverage
  <2>4. coverage' = [coverage EXCEPT ![c][p] = row]
    BY <2>1 DEF StoreConflict, ConflictMarked
  <2>5. coverage[c][p].state = "CONFLICT" => row = coverage[c][p]
    BY <2>1 DEF Coverage
  <2> QED BY <2>2, <2>3, <2>4, <2>5
<1>6. UNCHANGED <<event, work, generation, current>>
  BY DEF StoreConflict
<1>7. \A d \in Connections, e \in EventIds :
        conflict'[d][e] = IF d = c /\ e \in Diverging(c, page) THEN rows(e) ELSE conflict[d][e]
  BY <1>1, <1>3 DEF StoreConflict, PlaneTypeOK
<1>8. ASSUME NEW e \in Diverging(c, page) PROVE e \in EventIds /\ EventPart[e] = p /\ rows(e).existing # 0
  <2>1. e \in {r[1] : r \in page}
    BY DEF Diverging
  <2>2. e \in EventIds
    BY <2>1 DEF Pages
  <2>3. Least(Digests(c, page, e)) \in Hashes /\ EventPart[e] = p
    BY <2>1, <2>2, <1>1, <1>3, DigestsTyped, LeastDigest
  <2> QED BY <2>2, <2>3, EventsAssumption DEF Upserted, Conflicting
<1> HIDE DEF c, p, rows
<1>9. PlaneTypeOK'
  <2>1. coverage' \in [Connections -> [Partitions -> Coverage]]
    BY <1>1, <1>3, <1>5 DEF PlaneTypeOK
  <2>2. conflict' = [d \in Connections |-> [e \in EventIds |-> conflict'[d][e]]]
    BY <1>1, <1>3 DEF StoreConflict, PlaneTypeOK, c
  <2> QED BY <2>1, <2>2, <1>1, <1>6 DEF PlaneTypeOK
<1>10. TrustFollows'
  BY <1>1, <1>3, <1>5 DEF DataInv, TrustFollows, PlaneTypeOK, Coverage
<1>11. OutboxNumbered'
  BY <1>4, <1>6 DEF DataInv, OutboxNumbered
<1>12. ConflictsAreQuarantined'
  <2>1. \A d \in Connections, q \in Partitions :
          coverage'[d][q].state = "CONFLICT"
            <=> coverage[d][q].state = "CONFLICT" \/ (d = c /\ q = p)
    BY <1>1, <1>3, <1>5 DEF PlaneTypeOK
  <2>2. \A d \in Connections, e \in EventIds :
          Conflicting(d, e)' <=> Conflicting(d, e) \/ (d = c /\ e \in Diverging(c, page))
    BY <1>7, <1>8 DEF Conflicting
  <2>3. coverage[c][p].state = "CONFLICT" \/ Diverging(c, page) # {}
    BY <1>2 DEF Quarantined
  <2>4. \A d \in Connections, q \in Partitions :
          coverage[d][q].state = "CONFLICT" <=> \E e \in EventIds : EventPart[e] = q /\ Conflicting(d, e)
    BY DEF DataInv, ConflictsAreQuarantined
  <2>5. ASSUME NEW d \in Connections, NEW q \in Partitions
        PROVE  coverage'[d][q].state = "CONFLICT"
                 <=> \E e \in EventIds : EventPart[e] = q /\ Conflicting(d, e)'
    <3>1. CASE d = c /\ q = p
      BY <3>1, <1>3, <1>8, <2>1, <2>2, <2>3, <2>4
    <3>2. CASE ~(d = c /\ q = p)
      BY <3>2, <1>8, <2>1, <2>2, <2>4
    <3> QED BY <3>1, <3>2
  <2> QED BY <2>5 DEF ConflictsAreQuarantined
<1>13. PublishedOnce'
  <2>1. \A d \in Connections, g, h \in GenerationNos :
          g # h => generation'[d][g].jobs \cap generation'[d][h].jobs = {}
    BY <1>6 DEF DataInv, PublishedOnce
  <2> QED BY <2>1, <1>1, <1>6, PublishedStays DEF DataInv, PublishedOnce
<1>14. \A d \in Connections : Appended(d)
  <2>1. ASSUME NEW d \in Connections, NEW q \in Partitions
        PROVE  /\ coverage'[d][q].committed >= coverage[d][q].committed
               /\ coverage'[d][q].trusted >= coverage[d][q].trusted
    BY <1>1, <1>3, <1>5 DEF PlaneTypeOK, Coverage
  <2> QED BY <2>1, <1>6 DEF Appended
<1>15. \A d \in Connections : Isolated(d)
  <2>1. ASSUME NEW d \in Connections, NEW q \in Partitions, coverage[d][q].state = "CONFLICT"
        PROVE  coverage'[d][q] = coverage[d][q]
    BY <2>1, <1>1, <1>3, <1>5 DEF PlaneTypeOK
  <2> QED BY <2>1, <1>6 DEF Isolated
<1>16. RootsCovered' /\ RootsGrow'
  BY <1>6, <1>9, <1>14, RootsStay
<1> QED BY <1>9, <1>10, <1>11, <1>12, <1>13, <1>14, <1>15, <1>16 DEF DataInv, DataKept

\* As many effects done as pages committed: all of them are done.
LEMMA AllPagesDone ==
  ASSUME NEW w, NEW j \in Jobs, job[j].pages \in 0..MaxPages, AllDone(w, j),
         \A n \in PageNos : w[j][n].status = "DONE" => n <= job[j].pages
  PROVE  \A n \in 1..job[j].pages : w[j][n].status = "DONE"
<1> DEFINE done == {n \in PageNos : w[j][n].status = "DONE"}
<1>1. done \subseteq 1..job[j].pages
  BY DEF PageNos
<1>2. IsFiniteSet(1..job[j].pages) /\ Cardinality(1..job[j].pages) = job[j].pages
  <2>1. job[j].pages \in Nat
    BY BoundsAssumption
  <2>2. /\ IsFiniteSet(1..job[j].pages)
        /\ Cardinality(1..job[j].pages) = IF 1 > job[j].pages THEN 0 ELSE job[j].pages - 1 + 1
    <3>1. 1 \in Int /\ job[j].pages \in Int
      BY <2>1
    <3> QED BY <3>1, FS_Interval, Zenon
  <2> QED BY <2>1, <2>2
<1>3. Cardinality(done) = job[j].pages
  BY DEF AllDone
<1> HIDE DEF done
<1>4. done = 1..job[j].pages
  BY <1>1, <1>2, <1>3, FS_Subset
<1> QED BY <1>4 DEF done

\* What a publication leaves: the next generation, of jobs not published before
\* whose effects are all done, and the earlier ones with their contents.
LEMMA PublishedNext ==
  ASSUME PlaneInv, DataInv, NEW c \in Connections, NEW v, UNCHANGED job,
         PublishGeneration(c, work', v), current' # current,
         \A j \in Jobs, n \in PageNos : work[j][n].status = "DONE" => work'[j][n].status = "DONE",
         \A j \in Jobs, n \in PageNos : work'[j][n].status = "DONE" => n <= job[j].pages
  PROVE  /\ current[c] + 1 \in GenerationNos
         /\ current' = [current EXCEPT ![c] = current[c] + 1]
         /\ generation' \in [Connections -> [GenerationNos -> Generation]]
         /\ \A d \in Connections : d # c => generation'[d] = generation[d]
         /\ \A g \in GenerationNos : g # current[c] + 1 =>
              /\ generation'[c][g].jobs = generation[c][g].jobs
              /\ generation'[c][g].root = generation[c][g].root
         /\ generation'[c][current[c] + 1].root = Root(c, v)
         /\ PublishedOnce'
         /\ \A e \in EventIds : ~Conflicting(c, e)
<1> DEFINE k   == current[c] + 1
           new == [status |-> "PUBLISHED", jobs |-> Delta(c, work'), root |-> Root(c, v)]
<1>1. PlaneTypeOK /\ TypeOK
  BY DEF PlaneInv, QueueInv, DataInv
<1>2. /\ ~Outstanding(c, work') /\ Delta(c, work') # {} /\ PublicationAccepted(c, work')
      /\ current' = [current EXCEPT ![c] = k]
      /\ generation' = [generation EXCEPT ![c] = [g \in GenerationNos |->
           IF g = current'[c] THEN new ELSE Superseded(generation[c][g])]]
  BY DEF PublishGeneration
<1>3. k \in GenerationNos /\ current[c] \in Nat
  BY <1>1, <1>2, PublishingAssumption DEF PublicationAccepted, PlaneTypeOK
<1>4. current'[c] = k /\ \A d \in Connections : d # c => current'[d] = current[d]
  BY <1>1, <1>2 DEF PlaneTypeOK
<1>5. new \in Generation /\ new.status = "PUBLISHED" /\ new.jobs = Delta(c, work') /\ new.root = Root(c, v)
  BY DEF Generation, Delta, OfConnection, Root
<1>6. /\ \A d \in Connections : d # c => generation'[d] = generation[d]
      /\ \A g \in GenerationNos :
           generation'[c][g] = IF g = k THEN new ELSE Superseded(generation[c][g])
  BY <1>1, <1>2, <1>4 DEF PlaneTypeOK
<1>7. ASSUME NEW g \in GenerationNos
      PROVE  /\ Superseded(generation[c][g]) \in Generation
             /\ Superseded(generation[c][g]).jobs = generation[c][g].jobs
             /\ Superseded(generation[c][g]).root = generation[c][g].root
             /\ Superseded(generation[c][g]).status # "PUBLISHED"
             /\ Superseded(generation[c][g]).status = "NONE" <=> generation[c][g].status = "NONE"
  <2>1. generation[c][g] \in Generation
    BY <1>1 DEF PlaneTypeOK
  <2> QED BY <2>1 DEF Superseded, Generation
<1> HIDE DEF k, new
<1>8. generation' \in [Connections -> [GenerationNos -> Generation]]
  BY <1>1, <1>2, <1>5, <1>7 DEF PlaneTypeOK
<1>9. ASSUME NEW d \in Connections, NEW g \in GenerationNos
      PROVE  /\ generation'[d][g].status # "NONE" <=> g <= current'[d]
             /\ generation'[d][g].status = "PUBLISHED" <=> g = current'[d]
  <2>1. /\ generation[d][g].status # "NONE" <=> g <= current[d]
        /\ generation[d][g].status = "PUBLISHED" <=> g = current[d]
    BY DEF DataInv, PublishedOnce
  <2>2. CASE d # c
    BY <2>1, <2>2, <1>4, <1>6
  <2>3. CASE d = c /\ g = k
    BY <2>3, <1>3, <1>4, <1>5, <1>6 DEF GenerationNos
  <2>4. CASE d = c /\ g # k
    <3>1. g <= current[c] <=> g <= k
      BY <2>4, <1>3 DEF k, GenerationNos
    <3> QED BY <2>1, <2>4, <3>1, <1>4, <1>6, <1>7
  <2> QED BY <2>2, <2>3, <2>4
<1>10. ASSUME NEW d \in Connections, NEW g \in GenerationNos, NEW j \in generation'[d][g].jobs
       PROVE  /\ job'[j].status = "SUCCEEDED" /\ job'[j].conn = d
              /\ \A n \in 1..job'[j].pages : work'[j][n].status = "DONE"
  <2>1. CASE d = c /\ g = k
    <3>1. j \in Delta(c, work')
      BY <2>1, <1>5, <1>6
    <3>2. /\ j \in Jobs /\ job[j].conn = c /\ job[j].status = "SUCCEEDED" /\ AllDone(work', j)
      BY <3>1 DEF Delta, OfConnection
    <3>3. job[j].pages \in 0..MaxPages
      BY <3>2, <1>1 DEF TypeOK, Job
    <3> QED BY <2>1, <3>2, <3>3, AllPagesDone
  <2>2. CASE ~(d = c /\ g = k)
    <3>1. j \in generation[d][g].jobs
      BY <2>2, <1>6, <1>7
    <3>2. j \in Jobs
      BY <3>1, <1>1 DEF PlaneTypeOK, Generation
    <3>3. /\ job[j].status = "SUCCEEDED" /\ job[j].conn = d
          /\ \A n \in 1..job[j].pages : work[j][n].status = "DONE"
      BY <3>1 DEF DataInv, PublishedOnce
    <3>4. 1..job[j].pages \subseteq PageNos
      BY <3>2, <1>1, BoundsAssumption DEF TypeOK, Job, PageNos
    <3> QED BY <3>2, <3>3, <3>4
  <2> QED BY <2>1, <2>2
<1>11. ASSUME NEW d \in Connections, NEW g \in GenerationNos, NEW h \in GenerationNos, g # h
       PROVE  generation'[d][g].jobs \cap generation'[d][h].jobs = {}
  <2>1. generation[d][g].jobs \cap generation[d][h].jobs = {}
    BY <1>11 DEF DataInv, PublishedOnce
  <2>2. ASSUME NEW f \in GenerationNos PROVE Delta(c, work') \cap generation[c][f].jobs = {}
    BY DEF Delta, PublishedJobs
  <2>3. CASE d # c
    BY <2>1, <2>3, <1>6
  <2>4. CASE d = c
    BY <2>1, <2>2, <2>4, <1>5, <1>6, <1>7, <1>11
  <2> QED BY <2>3, <2>4
<1>12. PublishedOnce'
  BY <1>9, <1>10, <1>11 DEF PublishedOnce
<1>13. \A e \in EventIds : ~Conflicting(c, e)
  BY <1>2 DEF Outstanding
<1> QED BY <1>2, <1>3, <1>5, <1>6, <1>7, <1>8, <1>12, <1>13 DEF k

\* A completion: one effect is done, its page is trusted, and what is now
\* complete may be published.
LEMMA CompleteKept ==
  ASSUME PlaneInv, DataInv, SettledKept, NEW j \in Jobs, NEW n \in PageNos,
         NEW t \in 1..MaxWorkClaims, CompletePostCommitWork(j, n, t)
  PROVE  DataInv' /\ DataKept
<1>1. PlaneTypeOK /\ TypeOK
  BY DEF PlaneInv, QueueInv, DataInv
<1>2. PICK c \in Connections, p \in Partitions : c = job[j].conn /\ p = job[j].part
  BY DEF PlaneInv, JobsHavePartitions, CompletePostCommitWork, SourceIntact, Usable
<1>3. UNCHANGED <<job, event, conflict>>
  BY DEF CompletePostCommitWork, DiscoverPartitions
<1>4. PICK effect \in Work :
        work' = [work EXCEPT ![j][n] = effect] /\ effect.status = "DONE" /\ work[j][n].status = "CLAIMED"
  <2> DEFINE effect == [work[j][n] EXCEPT !.status = "DONE", !.live = FALSE]
  <2>1. work[j][n] \in Work
    BY <1>1 DEF PlaneTypeOK
  <2>2. effect \in Work /\ effect.status = "DONE"
    BY <2>1, WorkRows DEF Work
  <2>3. work' = [work EXCEPT ![j][n] = effect]
    BY <2>1 DEF CompletePostCommitWork, WorkDone
  <2>4. work[j][n].status = "CLAIMED"
    BY DEF CompletePostCommitWork, HoldsWork, WorkLive
  <2> QED BY <2>2, <2>3, <2>4
<1>5. PICK row \in Coverage :
        /\ coverage' = [coverage EXCEPT ![c][p] = row]
        /\ row.state = coverage[c][p].state /\ row.committed = coverage[c][p].committed
        /\ row.trusted >= coverage[c][p].trusted /\ row.trusted <= row.committed
        /\ coverage[c][p].state = "CONFLICT" => row = coverage[c][p]
  <2> DEFINE trusted == IF coverage[c][p].state # "CONFLICT" THEN coverage[c][p].committed
                        ELSE coverage[c][p].trusted
             row     == [coverage[c][p] EXCEPT !.trusted = trusted]
  <2>1. coverage[c][p] \in Coverage
    BY <1>1, <1>2 DEF PlaneTypeOK
  <2>2. coverage[c][p].trusted <= coverage[c][p].committed
    BY <1>2 DEF DataInv, TrustFollows
  <2>3. /\ trusted \in Nat /\ trusted >= coverage[c][p].trusted
        /\ trusted <= coverage[c][p].committed
        /\ coverage[c][p].state = "CONFLICT" => trusted = coverage[c][p].trusted
    BY <2>1, <2>2 DEF Coverage
  <2>4. coverage' = [coverage EXCEPT ![c][p] = row]
    BY <1>2, <2>1 DEF CompletePostCommitWork
  <2> HIDE DEF trusted
  <2>5. /\ row \in Coverage /\ row.state = coverage[c][p].state
        /\ row.committed = coverage[c][p].committed /\ row.trusted = trusted
        /\ trusted = coverage[c][p].trusted => row = coverage[c][p]
    BY <2>1, <2>3 DEF Coverage
  <2> HIDE DEF row
  <2> QED BY <2>3, <2>4, <2>5
<1>6. PublishGeneration(c, work', coverage'[c])
  BY <1>2 DEF CompletePostCommitWork
<1>7. \A k \in Jobs, m \in PageNos :
        /\ work'[k][m].status # "NONE" <=> work[k][m].status # "NONE"
        /\ work[k][m].status = "DONE" => work'[k][m].status = "DONE"
  BY <1>1, <1>4 DEF PlaneTypeOK
<1>8. \A k \in Jobs, m \in PageNos : work'[k][m].status # "NONE" <=> m <= job[k].pages
  BY <1>7 DEF DataInv, OutboxNumbered
<1>9. coverage' \in [Connections -> [Partitions -> Coverage]] /\ work' \in [Jobs -> [PageNos -> Work]]
  BY <1>1, <1>2, <1>4, <1>5 DEF PlaneTypeOK
<1>10. TrustFollows'
  BY <1>1, <1>2, <1>5 DEF DataInv, TrustFollows, PlaneTypeOK
<1>11. OutboxNumbered'
  BY <1>3, <1>8 DEF OutboxNumbered
<1>12. ConflictsAreQuarantined'
  <2>1. \A d \in Connections, q \in Partitions : coverage'[d][q].state = coverage[d][q].state
    BY <1>1, <1>2, <1>5 DEF PlaneTypeOK
  <2> QED BY <2>1, <1>3 DEF DataInv, ConflictsAreQuarantined, Conflicting
<1>13. ASSUME NEW d \in Connections, NEW q \in Partitions
       PROVE  /\ coverage'[d][q].committed >= coverage[d][q].committed
              /\ coverage'[d][q].trusted >= coverage[d][q].trusted
              /\ coverage[d][q].state = "CONFLICT" => coverage'[d][q] = coverage[d][q]
  BY <1>1, <1>2, <1>5 DEF PlaneTypeOK, Coverage
<1>14. CASE UNCHANGED <<generation, current>>
  <2>1. PlaneTypeOK'
    BY <1>1, <1>3, <1>9, <1>14 DEF PlaneTypeOK
  <2>2. \A d \in Connections : Appended(d) /\ Isolated(d)
    BY <1>3, <1>13, <1>14 DEF Appended, Isolated
  <2>3. RootsCovered' /\ RootsGrow'
    BY <2>1, <2>2, <1>14, RootsStay
  <2>4. PublishedOnce'
    <3>1. \A d \in Connections, g, h \in GenerationNos :
            g # h => generation'[d][g].jobs \cap generation'[d][h].jobs = {}
      BY <1>14 DEF DataInv, PublishedOnce
    <3> QED BY <3>1, <1>1, <1>7, <1>14, PublishedStays DEF DataInv, PublishedOnce
  <2> QED BY <2>1, <2>2, <2>3, <2>4, <1>10, <1>11, <1>12 DEF DataInv, DataKept
<1>15. CASE ~UNCHANGED <<generation, current>>
  <2> DEFINE k == current[c] + 1
  <2>1. current' # current
    BY <1>1, <1>2, <1>6, <1>15 DEF PublishGeneration, PlaneTypeOK
  <2>2. /\ k \in GenerationNos /\ current' = [current EXCEPT ![c] = k]
        /\ generation' \in [Connections -> [GenerationNos -> Generation]]
        /\ \A d \in Connections : d # c => generation'[d] = generation[d]
        /\ \A g \in GenerationNos : g # k =>
             /\ generation'[c][g].jobs = generation[c][g].jobs
             /\ generation'[c][g].root = generation[c][g].root
        /\ generation'[c][k].root = Root(c, coverage'[c])
        /\ PublishedOnce'
        /\ \A e \in EventIds : ~Conflicting(c, e)
    BY <2>1, <1>2, <1>3, <1>6, <1>7, <1>8, PublishedNext
  <2>3. current[c] \in Nat /\ current'[c] = k /\ \A d \in Connections : d # c => current'[d] = current[d]
    BY <2>2, <1>1, <1>2, PublishingAssumption DEF PlaneTypeOK
  <2>4. PlaneTypeOK'
    <3>1. current' \in [Connections -> 0..MaxGenerations]
      <4>1. k \in 0..MaxGenerations
        BY <2>2, <2>3, PublishingAssumption DEF GenerationNos
      <4> QED BY <4>1, <2>2, <1>1 DEF PlaneTypeOK
    <3> QED BY <3>1, <2>2, <1>1, <1>3, <1>9 DEF PlaneTypeOK
  <2>5. ASSUME NEW d \in Connections PROVE Appended(d) /\ Isolated(d)
    <3>1. ASSUME NEW g \in 1..current[d]
          PROVE  /\ generation'[d][g].jobs = generation[d][g].jobs
                 /\ generation'[d][g].root = generation[d][g].root
      <4>1. CASE d = c
        <5>1. g \in GenerationNos /\ g # k
          BY <4>1, <2>2, <2>3, PublishingAssumption DEF GenerationNos
        <5> QED BY <4>1, <5>1, <2>2
      <4>2. CASE d # c
        BY <4>2, <2>2
      <4> QED BY <4>1, <4>2
    <3>2. current'[d] \in {current[d], current[d] + 1}
      BY <2>3
    <3>3. (\E e \in EventIds : Conflicting(d, e)) => generation'[d] = generation[d]
      BY <2>2
    <3> QED BY <3>1, <3>2, <3>3, <1>3, <1>13 DEF Appended, Isolated
  <2>6. ASSUME NEW d \in Connections PROVE Root(d, coverage[d]) \subseteq Root(d, coverage[d])'
    BY <2>4, <2>5, <1>1, RootMonotone DEF Appended
  <2>7. generation'[c][k].root = Root(c, coverage[c])'
    <3>1. Root(c, coverage'[c]) = Root(c, coverage[c])'
      BY <1>3 DEF Root, Stored
    <3> QED BY <2>2, <3>1
  <2>8. ASSUME NEW d \in Connections, NEW g \in 1..current[d]
        PROVE  generation'[d][g].root = generation[d][g].root /\ generation[d][g].root \subseteq Root(d, coverage[d])
    BY <2>5 DEF Appended, DataInv, RootsCovered
  <2>9. \A d \in Connections : 1..current'[d] = IF d = c THEN 1..current[d] \cup {k} ELSE 1..current[d]
    <3>1. 1..k = 1..current[c] \cup {k}
      BY <2>3
    <3> QED BY <3>1, <2>3
  <2> HIDE DEF k
  <2>10. RootsCovered'
    <3>1. ASSUME NEW d \in Connections, NEW g \in 1..current'[d]
          PROVE  generation'[d][g].root \subseteq Root(d, coverage[d])'
      <4>1. CASE d = c /\ g = k
        BY <4>1, <2>7
      <4>2. CASE ~(d = c /\ g = k)
        <5>1. g \in 1..current[d]
          BY <4>2, <2>9
        <5> QED BY <5>1, <2>6, <2>8
      <4> QED BY <4>1, <4>2
    <3> QED BY <3>1 DEF RootsCovered
  <2>11. RootsGrow'
    <3>1. ASSUME NEW d \in Connections, NEW g \in 1..current'[d], NEW h \in 1..current'[d], g < h
          PROVE  generation'[d][g].root \subseteq generation'[d][h].root
      <4>1. CASE d = c /\ h = k
        <5>1. g \in 1..current[d]
          BY <3>1, <4>1, <2>3 DEF k
        <5>2. generation'[d][g].root \subseteq Root(d, coverage[d])
          BY <5>1, <2>8
        <5>3. generation'[d][h].root = Root(d, coverage[d])'
          BY <4>1, <2>7
        <5> QED BY <5>2, <5>3, <2>6
      <4>2. CASE ~(d = c /\ h = k)
        <5>1. h \in 1..current[d]
          BY <4>2, <2>9
        <5>2. g \in 1..current[d]
          BY <5>1, <3>1, <2>3, <1>1, PublishingAssumption DEF PlaneTypeOK
        <5>3. generation[d][g].root \subseteq generation[d][h].root
          BY <5>1, <5>2, <3>1 DEF DataInv, RootsGrow
        <5> QED BY <5>1, <5>2, <5>3, <2>8
      <4> QED BY <4>1, <4>2
    <3> QED BY <3>1 DEF RootsGrow
  <2> QED BY <2>2, <2>4, <2>5, <2>10, <2>11, <1>10, <1>11, <1>12 DEF DataInv, DataKept
<1> QED BY <1>14, <1>15

\* At first nothing is stored, in conflict or published.
LEMMA DataInit == PlaneInit => DataInv
<1> SUFFICES ASSUME PlaneInit PROVE DataInv
  OBVIOUS
<1>1. PlaneTypeOK
  <2>1. [state |-> "NONE", committed |-> 0, trusted |-> 0] \in Coverage
    BY DEF Coverage, CoverageStates
  <2>2. [hash |-> 0, job |-> 0, page |-> 0, time |-> 0] \in Event
    BY DEF Event
  <2>3. NoWork \in Work
    BY DEF NoWork, Work, WorkStates
  <2>4. [status |-> "NONE", jobs |-> {}, root |-> {}] \in Generation
    BY DEF Generation
  <2>5. current \in [Connections -> 0..MaxGenerations]
    BY PublishingAssumption DEF PlaneInit
  <2>6. conflict = [c \in Connections |-> [e \in EventIds |-> conflict[c][e]]]
    BY DEF PlaneInit
  <2> QED BY <2>1, <2>2, <2>3, <2>4, <2>5, <2>6 DEF PlaneInit, PlaneTypeOK
<1>2. TrustFollows /\ ConflictsAreQuarantined
  BY EventsAssumption DEF PlaneInit, TrustFollows, ConflictsAreQuarantined, Conflicting
<1>3. OutboxNumbered
  BY DEF PlaneInit, Init, NoJob, NoWork, OutboxNumbered, PageNos
<1>4. PublishedOnce
  BY DEF PlaneInit, PublishedOnce, GenerationNos
<1>5. RootsCovered /\ RootsGrow
  BY DEF PlaneInit, RootsCovered, RootsGrow
<1> QED BY <1>1, <1>2, <1>3, <1>4, <1>5 DEF DataInv

\* Each transaction keeps the invariant and only adds to the data.
LEMMA DataStep == PlaneInv /\ DataInv /\ [PlaneNext]_planeVars => DataInv' /\ DataKept
<1> SUFFICES ASSUME PlaneInv, DataInv, [PlaneNext]_planeVars PROVE DataInv' /\ DataKept
  OBVIOUS
<1>1. SettledKept
  BY PlaneStepMaps, NextKept DEF PlaneInv, StepKept
<1>2. PlaneTypeOK
  BY DEF DataInv
<1>3. CASE QueueOnly
  BY <1>1, <1>2, <1>3, QueueOnlyQuiet, QuietKept
<1>4. ASSUME NEW j \in Jobs, NEW n \in AttemptNos, PageStep(j, n)
      PROVE  DataInv' /\ DataKept
  <2>1. PICK page \in Pages(job[j].part) :
          \/ \E more, recent \in BOOLEAN : StorePage(j, n, more, page, recent)
          \/ StoreConflict(j, n, page)
    BY <1>4 DEF PageStep
  <2> QED BY <2>1, <1>1, StoreKept, ConflictKept
<1>5. ASSUME NEW j \in Jobs, NEW n \in PageNos, OutboxStep(j, n)
      PROVE  DataInv' /\ DataKept
  <2>1. CASE \E t \in 1..MaxWorkClaims : CompletePostCommitWork(j, n, t)
    BY <2>1, <1>1, CompleteKept
  <2>2. CASE \/ ClaimPostCommitWork(j, n) \/ WorkLeaseExpires(j, n) \/ WorkBackoffElapses(j, n)
             \/ \E t \in 1..MaxWorkClaims : FailPostCommitWork(j, n, t)
    <3>1. Quiet
      BY <2>2, <1>2, OutboxQuiet
    <3> QED BY <3>1, <1>1, QuietKept
  <2> QED BY <1>5, <2>1, <2>2 DEF OutboxStep, FinishWork
<1>6. ASSUME NEW c \in Connections, NEW v \in 1..MaxVersion,
             DisconnectWithOutbox(c, v) \/ \E ok \in BOOLEAN : RotateWithOutbox(c, v, ok)
      PROVE  DataInv' /\ DataKept
  <2>1. Quiet
    BY <1>2, <1>6, RevocationQuiet
  <2> QED BY <2>1, <1>1, QuietKept
<1>7. CASE UNCHANGED planeVars
  <2>1. Quiet
    BY <1>2, <1>7 DEF planeVars, dataVars, queueVars, Quiet, PlaneTypeOK
  <2> QED BY <2>1, <1>1, QuietKept
<1> QED BY <1>3, <1>4, <1>5, <1>6, <1>7 DEF PlaneNext

\* The data invariant holds always.
LEMMA DataInvHolds == PlaneSpec => []DataInv
<1>1. PlaneInv /\ DataInv /\ [PlaneNext]_planeVars => DataInv'
  BY DataStep
<1> QED BY <1>1, DataInit, PlaneInvHolds, PTL DEF PlaneSpec

\* The rows of the plane keep their types, and no watermark is trusted before it
\* was committed.
THEOREM PlaneTypeCorrect == PlaneSpec => [](PlaneTypeOK /\ TrustFollows)
<1>1. DataInv => PlaneTypeOK /\ TrustFollows
  BY DEF DataInv
<1> QED BY <1>1, DataInvHolds, PTL

\* A partition is in CONFLICT just when one of its identities has evidence of
\* two digests (rv2_service_commit_sync_page), whatever pages of other jobs of
\* the partition were stored before or after.
THEOREM ConflictsStayQuarantined == PlaneSpec => []ConflictsAreQuarantined
<1>1. DataInv => ConflictsAreQuarantined
  BY DEF DataInv
<1> QED BY <1>1, DataInvHolds, PTL

\* Generations are numbered without gaps, publish no job twice and only jobs
\* whose effects are all done, and their source roots grow
\* (rv2_service_publish_generation).
THEOREM PublicationsStaySound == PlaneSpec => []PublicationsAreSound
<1>1. DataInv => PublicationsAreSound
  BY DEF DataInv, PublicationsAreSound
<1> QED BY <1>1, DataInvHolds, PTL

\* No page, completion or publication changes a partition in CONFLICT, and a
\* connection with evidence of a conflict publishes nothing.
THEOREM QuarantineHolds == PlaneSpec => QuarantineIsPermanent
<1>1. PlaneInv /\ DataInv /\ [PlaneNext]_planeVars =>
        [\A c \in Connections :
           /\ \A p \in Partitions : coverage[c][p].state = "CONFLICT" =>
                /\ coverage'[c][p] = coverage[c][p]
                /\ \A e \in EventIds : EventPart[e] = p => event'[c][e] = event[c][e]
           /\ (\E e \in EventIds : Conflicting(c, e)) => generation'[c] = generation[c]]_planeVars
  BY DataStep DEF DataKept, Isolated
<1> QED BY <1>1, PlaneInvHolds, DataInvHolds, PTL DEF PlaneSpec, QuarantineIsPermanent

\* Events, watermarks and the contents of generations only grow, whatever is
\* retried, replayed, rotated or published.
THEOREM HistoryGrows == PlaneSpec => HistoryIsAppendOnly
<1>1. PlaneInv /\ DataInv /\ [PlaneNext]_planeVars =>
        [\A c \in Connections :
           /\ \A e \in EventIds : Stored(c, e) => event'[c][e] = event[c][e]
           /\ \A p \in Partitions : /\ coverage'[c][p].committed >= coverage[c][p].committed
                                     /\ coverage'[c][p].trusted >= coverage[c][p].trusted
                                     /\ coverage'[c][p].trusted <= coverage'[c][p].committed
           /\ \A g \in 1..current[c] : /\ generation'[c][g].jobs = generation[c][g].jobs
                                        /\ generation'[c][g].root = generation[c][g].root
           /\ current'[c] \in {current[c], current[c] + 1}]_planeVars
  BY DataStep DEF DataKept, Appended, DataInv, TrustFollows
<1> QED BY <1>1, PlaneInvHolds, DataInvHolds, PTL DEF PlaneSpec, HistoryIsAppendOnly

-----------------------------------------------------------------------------
\* The plane implements the queue: whatever its transactions do to pages,
\* outbox rows and generations, the queue sees an action of its own or nothing.
THEOREM PlaneImplementsQueue == PlaneSpec => ImplementsQueue
<1>1. PlaneInit => Init
  BY DEF PlaneInit
<1>2. PlaneInv /\ [PlaneNext]_planeVars => [Next]_queueVars
  BY PlaneStepMaps DEF PlaneInv
<1> QED BY <1>1, <1>2, PlaneInvHolds, PTL DEF PlaneSpec, ImplementsQueue, Spec

\* One worker at a time reads from the provider, also while outbox rows are
\* completed and generations published.
THEOREM PlaneLeaseIsShared == PlaneSpec => []SharedLease
  BY PlaneImplementsQueue, LeaseIsShared, PTL DEF ImplementsQueue

\* No completion, publication, rotation or disconnect of the plane leaves a
\* claim of an old credential.
THEOREM PlaneClaimsStayCurrent == PlaneSpec => []ClaimsUseCurrentCredential
  BY PlaneImplementsQueue, ClaimsStayCurrent, PTL DEF ImplementsQueue

\* The plane is a set of page logs that share one lease.
THEOREM PlaneRefinesLog == PlaneSpec => ImplementsLeasedLog
  BY PlaneImplementsQueue, QueueRefinesLog DEF ImplementsQueue
==============================================================================
