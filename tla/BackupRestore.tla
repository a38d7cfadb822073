----------------------------- MODULE BackupRestore -----------------------------
(***************************************************************************)
(* Backup and recovery of the rv2 data plane: a project from which users   *)
(* delete their data, its deletion journal in R2, a backup job that freezes *)
(* and signs a snapshot, and an empty project in which an operator stages  *)
(* the snapshot, the owners recover their tenants, and the whole is        *)
(* published at once.                                                      *)
(*                                                                         *)
(* Two times are compared: a deletion event's committedAt and a snapshot's *)
(* createdAt, each the start of a statement that may write much later.  An *)
(* intent therefore remembers which exports had started before its         *)
(* statement, and which were frozen before it was written.                 *)
(***************************************************************************)
EXTENDS OperationsGrants, Integers, FiniteSets

CONSTANTS
    Tenants,     \* each with one owner, known by a verified email
    Stranger,    \* a user of the new project who owned nothing
    Intents,     \* deletions users may ask for
    MaxVersions, \* times a tenant starts over with an empty connection
    MaxInvites,  \* recovery invites issued to one owner
    None

ASSUME BackupAssumption ==
    MaxVersions \in Nat /\ MaxInvites \in Nat /\ Stranger \notin Tenants

VARIABLES
    member,   \* the membership of each owner: ACTIVE or DELETED
    content,  \* the data of each tenant, by a number; 0 for none
    revoked,  \* tenants whose connection was disconnected
    intents,  \* rv2_restore_v2_deletion_intents, and their events in R2
    export,   \* the export of each backup job, frozen in the database
    evidence, \* pages of it with a receipt
    call,     \* what the beta-operations function is doing for a job
    held,     \* pages each runner holds
    sealed,   \* jobs whose ciphertext is in R2, with a journal proof
    envelope, \* jobs whose runner holds the signed manifest
    proof,    \* the last journal proof the operator read
    run,      \* the restore run of the new project
    claim,    \* rv2_restore_v2_owner_claims
    inhabited, \* somebody was admitted to the new project
    target    \* rows published in it

source == <<member, content, revoked, intents>>
backup == <<export, evidence, call, held, sealed, envelope>>
recovery == <<run, claim, inhabited, target>>
vars == <<grantVars, source, backup, proof, recovery>>

----------------------------------------------------------------------------
(* Rows, exports and proofs *)

\* The datasets are tenants, memberships, connections and data: a connection, and the events,
\* generations, reviews and so on that hang from it, are one row each.
Row(dataset, t, version) == [dataset |-> dataset, tenant |-> t, version |-> version]

\* Rows leave in the order of their datasets; a page ends between two of them.
Pages == 1..2

\* version is the data the tenant had when it asked, removed what was deleted.
NoIntent == [tenant |-> None, state |-> "none", version |-> 0, removed |-> 0,
             after |-> {}, missed |-> {}]
NoExport == [status |-> "none", rows |-> {}]
NoCall == [step |-> "none", page |-> 0]
NoProof == [read |-> FALSE, events |-> {}]
NoRun == [state |-> "none", reason |-> "none", job |-> None, received |-> {},
          suppressed |-> {}, verified |-> FALSE, graph |-> FALSE, events |-> {}]
NoClaim == [state |-> "none", generation |-> 0, user |-> None]

RowsNow ==
    {Row(d, t, 0) : d \in {"tenants", "memberships"}, t \in {u \in Tenants : member[u] = "ACTIVE"}}
    \cup {Row("connections", t, content[t]) : t \in {u \in Tenants : content[u] # 0 /\ u \notin revoked}}
    \cup {Row("data", t, content[t]) : t \in {u \in Tenants : content[u] # 0}}

\* Tenants with a deletion event at or after the snapshot.
Deleted(events, j) == {intents[i].tenant : i \in {e \in events : j \in intents[e].after}}

Of(rows, dataset) == {r \in rows : r.dataset = dataset}
TenantsOf(rows) == {r.tenant : r \in Of(rows, "tenants")}

\* Every row belongs to a tenant of the snapshot, every row of a connection to
\* a connection of that tenant, and every tenant has its one owner.
GraphValid(rows) ==
    /\ \A r \in rows : r.tenant \in TenantsOf(rows)
    /\ \A r \in Of(rows, "data") : Row("connections", r.tenant, r.version) \in rows
    /\ \A t \in TenantsOf(rows) : Row("memberships", t, 0) \in rows

\* Events in R2; the database hears of one later, before anything is deleted.
Journal == {i \in Intents : intents[i].state \in {"APPENDED", "JOURNALED", "DELETED"}}

----------------------------------------------------------------------------
(* Users of the project *)

Init ==
    /\ GrantsInit
    /\ member = [t \in Tenants |-> "ACTIVE"]
    /\ content = [t \in Tenants |-> 1]
    /\ revoked = {}
    /\ intents = [i \in Intents |-> NoIntent]
    /\ export = [j \in Jobs |-> NoExport]
    /\ evidence = [j \in Jobs |-> {}]
    /\ call = [j \in Jobs |-> NoCall]
    /\ held = [j \in Jobs |-> {}]
    /\ sealed = {} /\ envelope = {}
    /\ proof = NoProof
    /\ run = NoRun
    /\ claim = [t \in Tenants |-> NoClaim]
    /\ inhabited = FALSE
    /\ target = {}

\* What users do is followed until the recovery is published, and what they keep
\* until the last snapshot is signed.
Watched == run.state # "PUBLISHED"
BackupAhead == envelope # Jobs
SourceStep == Watched /\ UNCHANGED <<grantVars, backup, proof, recovery>>

\* A tenant that cleared its data connects again.
Cleared(t) == {i \in Intents : intents[i].tenant = t /\ intents[i].removed # 0}
Connect(t) ==
    /\ BackupAhead /\ member[t] = "ACTIVE" /\ content[t] = 0
    /\ Cardinality(Cleared(t)) < MaxVersions
    /\ content' = [content EXCEPT ![t] = Cardinality(Cleared(t)) + 1]
    /\ UNCHANGED <<member, revoked, intents>> /\ SourceStep

\* rv2_disconnect_connection revokes the connection and keeps its data.
Disconnect(t) ==
    /\ BackupAhead /\ member[t] = "ACTIVE" /\ content[t] # 0 /\ t \notin revoked
    /\ revoked' = revoked \cup {t}
    /\ UNCHANGED <<member, content, intents>> /\ SourceStep

Started(j) == export[j].status # "none"
Frozen(j) == export[j].status \in {"READY", "SIGNED"}

\* The statement starts: its start is what it will write as committedAt.  Only
\* the same operation is refused for a while; deletions of a tenant overlap.
StartDeletion(i, t) ==
    /\ intents[i].state = "none"
    /\ member[t] = "ACTIVE"
    /\ intents' = [intents EXCEPT ![i] =
            [tenant |-> t, state |-> "called", version |-> content[t], removed |-> 0,
             after |-> {j \in Jobs : Started(j)}, missed |-> {}]]
    /\ UNCHANGED <<member, content, revoked>> /\ SourceStep

\* It writes after any export that locked the tables first, unless the
\* membership is gone by then: the call fails.
CreateDeletionIntent(i) ==
    /\ intents[i].state = "called"
    /\ member[intents[i].tenant] = "ACTIVE"
    /\ intents' = [intents EXCEPT ![i].state = "PENDING_JOURNAL",
                                  ![i].missed = {j \in Jobs : Frozen(j)}]
    /\ UNCHANGED <<member, content, revoked>> /\ SourceStep

\* The event is appended in R2; the database still has PENDING_JOURNAL ...
AppendDeletionEvent(i) ==
    /\ intents[i].state = "PENDING_JOURNAL"
    /\ intents' = [intents EXCEPT ![i].state = "APPENDED"]
    /\ UNCHANGED <<member, content, revoked>> /\ SourceStep

\* ... until the append is attested to it.
AttestDeletionJournal(i) ==
    /\ intents[i].state = "APPENDED"
    /\ intents' = [intents EXCEPT ![i].state = "JOURNALED"]
    /\ UNCHANGED <<member, content, revoked>> /\ SourceStep

\* Business data goes with either operation, the membership with the account.
\* Without an ACTIVE membership nothing is deleted and the call fails.
ExecuteDeletion(i, operation) ==
    /\ intents[i].state = "JOURNALED"
    /\ LET t == intents[i].tenant IN
        /\ member[t] = "ACTIVE"
        /\ content' = [content EXCEPT ![t] = 0]
        /\ revoked' = revoked \ {t}
        /\ member' = [member EXCEPT ![t] = IF operation = "DELETE_ACCOUNT"
                                           THEN "DELETED" ELSE @]
        /\ intents' = [intents EXCEPT ![i].state = "DELETED", ![i].removed = content[t]]
    /\ SourceStep

----------------------------------------------------------------------------
(* A backup job.  The function answers when its last step is done; until   *)
(* then the runner may have stopped waiting.                               *)

BackupStep == UNCHANGED <<grantVars, member, content, revoked, proof, recovery>>
Idle(j) == Authorized(j, "beta-backup") /\ call[j] = NoCall

\* The first page materialises the export: its statement starts, later than
\* every deletion's so far ...
StartExport(j) ==
    /\ Idle(j) /\ ClaimLive(j) /\ export[j].status = "none"
    /\ export' = [export EXCEPT ![j].status = "MATERIALIZING"]
    /\ intents' = [i \in Intents |-> [intents[i] EXCEPT !.after = @ \ {j}]]
    /\ call' = [call EXCEPT ![j] = [step |-> "export", page |-> 1]]
    /\ UNCHANGED <<evidence, held, sealed, envelope>> /\ BackupStep

\* Mutant: an intent that is already in the journal is let through.
InTransitionUnjournaled ==
    \E i \in Intents : intents[i].state \in {"PENDING_JOURNAL", "APPENDED"}
InTransition ==
    \E i \in Intents : intents[i].state \in {"PENDING_JOURNAL", "APPENDED", "JOURNALED"}
Exportable == ~InTransition /\ Of(RowsNow, "connections") # {} /\ Of(RowsNow, "tenants") # {}

\* ... locks the tables, and freezes what they hold, or is undone.
Materialize(j) ==
    /\ export[j].status = "MATERIALIZING"
    /\ export' = [export EXCEPT ![j] =
            IF Exportable THEN [@ EXCEPT !.status = "READY", !.rows = RowsNow] ELSE NoExport]
    /\ call' = [call EXCEPT ![j] = IF Exportable /\ @.step = "export"
                                   THEN [step |-> "page", page |-> 1] ELSE NoCall]
    /\ UNCHANGED <<intents, evidence, held, sealed, envelope>> /\ BackupStep

\* The runner follows nextCursor.
ReadBackupPage(j, p) ==
    /\ Idle(j) /\ ClaimLive(j) /\ export[j].status = "READY"
    /\ p = 1 \/ p - 1 \in held[j]
    /\ p \notin held[j]
    /\ call' = [call EXCEPT ![j] = [step |-> "page", page |-> p]]
    /\ UNCHANGED <<intents, export, evidence, held, sealed, envelope>> /\ BackupStep

\* The page is read again, compared, and its receipt written; then it is sent.
RecordPageEvidence(j) ==
    /\ call[j].step = "page" /\ ClaimLive(j)
    /\ evidence' = [evidence EXCEPT ![j] = @ \cup {call[j].page}]
    /\ held' \in {held, [held EXCEPT ![j] = @ \cup {call[j].page}]}
    /\ call' = [call EXCEPT ![j] = NoCall]
    /\ UNCHANGED <<intents, export, sealed, envelope>> /\ BackupStep

\* The runner encrypts the pages, uploads them, and reads the journal twice.
Seal(j) ==
    /\ Idle(j) /\ held[j] = Pages /\ j \notin sealed
    /\ sealed' = sealed \cup {j}
    /\ UNCHANGED <<intents, export, evidence, call, held, envelope>> /\ BackupStep

\* The claim comes before the signature and lets only the first one through.
ClaimSigning(j) ==
    /\ Idle(j) /\ ClaimLive(j) /\ j \in sealed
    /\ export[j].status = "READY" /\ evidence[j] = Pages
    /\ export' = [export EXCEPT ![j].status = "SIGNED"]
    /\ call' = [call EXCEPT ![j] = [step |-> "sign", page |-> 0]]
    /\ UNCHANGED <<intents, evidence, held, sealed, envelope>> /\ BackupStep

SignManifest(j) ==
    /\ call[j].step = "sign"
    /\ envelope' = envelope \cup {j}
    /\ call' = [call EXCEPT ![j] = NoCall]
    /\ UNCHANGED <<intents, export, evidence, held, sealed>> /\ BackupStep

\* The deadline passes, or the answer is lost.
StopWaiting(j) ==
    /\ call[j] # NoCall
    /\ call' = [call EXCEPT ![j] = NoCall]
    /\ UNCHANGED <<intents, export, evidence, held, sealed, envelope>> /\ BackupStep

----------------------------------------------------------------------------
(* The new project *)

RecoveryStep == UNCHANGED <<grantVars, source, backup>>

\* The operator calls restore-v2 with the service role, or through
\* beta-operations with a grant for it.
Operators == {"service_role"} \cup {j \in Jobs : Authorized(j, "beta-restore")}

Snapshot == export[run.job]
Suppressed == Deleted(run.events, run.job)

\* Two passes over the journal that list the same events; the proof is dated
\* after the second, and is good for five minutes.
ReadJournalProof ==
    /\ envelope # {} /\ Watched /\ run.state # "STAGING"
    /\ proof' = [read |-> TRUE, events |-> Journal]
    /\ UNCHANGED recovery /\ RecoveryStep

RestoreStep == UNCHANGED proof /\ RecoveryStep

LiveTarget == inhabited

\* The claim of a snapshot is made once: what is wrong with it then leaves its
\* journal proof unverified for good.
ClaimRestore(by, j, fresh) ==
    /\ by \in Operators /\ j \in envelope /\ run.state = "none" /\ proof.read
    /\ LET accepted == fresh /\ ~LiveTarget IN
        run' = [NoRun EXCEPT
            !.state = IF accepted THEN "STAGING" ELSE "QUARANTINED",
            !.reason = CASE accepted -> "none"
                         [] ~fresh -> "EXTERNAL_JOURNAL_PROOF_MISSING"
                         [] OTHER -> "TARGET_PROJECT_NOT_EMPTY",
            !.job = j, !.verified = accepted, !.events = proof.events]
    /\ UNCHANGED <<claim, inhabited, target>> /\ RestoreStep

Survivors == TenantsOf(Snapshot.rows) \ Suppressed

\* A batch that was staged before changes nothing, nor does one for a proof that
\* was not verified; the last one closes the staging.
StageBatch(by, p) ==
    /\ by \in Operators /\ run.state \in {"STAGING", "NOT_READY"} /\ p \notin run.received
    /\ run.verified
    /\ IF run.received \cup {p} # Pages
       THEN run' = [run EXCEPT !.received = @ \cup {p}] /\ UNCHANGED claim
       ELSE /\ run' = [run EXCEPT !.received = Pages,
                        !.suppressed = Suppressed,
                        !.graph = GraphValid(Snapshot.rows),
                        !.state = IF GraphValid(Snapshot.rows) /\ Survivors # {}
                                  THEN "AWAITING_OWNER_CLAIMS" ELSE "QUARANTINED",
                        !.reason = IF GraphValid(Snapshot.rows) THEN "none"
                                   ELSE "CROSS_TENANT_REFERENCE"]
            /\ claim' = IF run'.state = "QUARANTINED" THEN claim
                        ELSE [t \in Tenants |-> IF t \in Survivors
                                THEN [NoClaim EXCEPT !.state = "PENDING_INVITE"] ELSE NoClaim]
    /\ UNCHANGED <<inhabited, target>> /\ RestoreStep

\* A new delivery makes the invite before it void.
IssueOwnerInvite(by, t) ==
    /\ by \in Operators
    /\ claim[t].state \in {"PENDING_INVITE", "INVITED"} /\ claim[t].generation < MaxInvites
    /\ run.state = "AWAITING_OWNER_CLAIMS"
    /\ claim' = [claim EXCEPT ![t].state = "INVITED", ![t].generation = @ + 1]
    /\ UNCHANGED <<run, inhabited, target>> /\ RestoreStep

Users == Tenants \cup {Stranger}
\* A user is known by a verified email; the tag of a principal is of one email.
TagMatches(u, t) == u = t

Claimed(t, u) == [claim EXCEPT ![t].state = "CLAIMED", ![t].user = u]

\* The last owner opens the publication, if the run still waits for owners.
RunAfter(claims) ==
    IF run.state = "AWAITING_OWNER_CLAIMS"
       /\ \A t \in Tenants : claims[t].state \in {"none", "CLAIMED"}
    THEN [run EXCEPT !.state = "PUBLISHABLE", !.reason = "none"] ELSE run

\* An invite that was issued before the current one does not match it.
ClaimOwner(u, t, generation) ==
    /\ claim[t].state = "INVITED"
    /\ TagMatches(u, t) /\ generation = claim[t].generation
    /\ claim' = Claimed(t, u) /\ run' = RunAfter(Claimed(t, u))
    /\ UNCHANGED <<inhabited, target>> /\ RestoreStep

\* An owner signs in with the verified email and asks for the tenant.
RecoverOwner(u) ==
    /\ run.state = "AWAITING_OWNER_CLAIMS" /\ run.graph /\ run.verified
    /\ \E t \in Tenants :
        /\ claim[t].state \in {"PENDING_INVITE", "INVITED"} /\ TagMatches(u, t)
        /\ claim' = Claimed(t, u) /\ run' = RunAfter(Claimed(t, u))
    /\ UNCHANGED <<inhabited, target>> /\ RestoreStep

\* Somebody is admitted to the new project.
Admit ==
    /\ ~inhabited /\ Watched /\ envelope # {}
    /\ inhabited' = TRUE
    /\ UNCHANGED <<run, claim, target>> /\ RestoreStep

----------------------------------------------------------------------------
(* Publication *)

\* What stands in the way, in the order the database looks.
Blocking(fresh, capacity) ==
    LET deleted == Deleted(proof.events, run.job)
        unrecovered == {t \in TenantsOf(Snapshot.rows) \ deleted : claim[t].state # "CLAIMED"}
                       \cup {t \in Tenants \ deleted : claim[t].state \notin {"none", "CLAIMED"}}
    IN  IF run.state \notin {"PUBLISHABLE", "NOT_READY"} \/ ~run.graph THEN "OWNER_RECOVERY_INCOMPLETE"
        ELSE IF ~run.verified THEN "EXTERNAL_JOURNAL_PROOF_MISSING"
        ELSE IF ~fresh THEN "FINAL_JOURNAL_PROOF_REQUIRED"
        ELSE IF unrecovered # {} THEN "OWNER_RECOVERY_INCOMPLETE"
        ELSE IF capacity = "unknown" THEN "TARGET_CAPACITY_OBSERVATION_REQUIRED"
        ELSE IF capacity = "blocked" THEN "TARGET_CAPACITY_GUARD_BLOCKED"
        ELSE IF LiveTarget THEN "TARGET_PROJECT_NOT_EMPTY"
        ELSE "none"

\* Mutant: the suppression decided while staging stands.
FinalAsStaged(events) == run.suppressed
\* Suppression is decided again, from the final proof.
Final(events) == Deleted(events, run.job)

\* The lineage of every owner who recovered is written, and refers to the
\* lineage of a tenant that is restored.
LineageComplete(gone) == \A t \in Tenants : claim[t].state = "CLAIMED" => t \notin gone

Restored(r) == [row |-> r, owner |-> claim[r.tenant].user]

Published ==
    LET gone == Final(proof.events) IN
    IF LineageComplete(gone)
    THEN /\ target' = {Restored(r) : r \in {s \in Snapshot.rows : s.tenant \notin gone}}
         /\ run' = [run EXCEPT !.state = "PUBLISHED", !.reason = "none", !.suppressed = gone,
                               !.events = proof.events]
    ELSE /\ run' = [run EXCEPT !.state = "QUARANTINED",
                               !.reason = "PUBLISH_TRANSACTION_ROLLED_BACK"]
         /\ UNCHANGED target

\* A run that was published says so again; any other that is not complete, a
\* quarantined one too, becomes NOT_READY, and the next call may publish it.
\* The reason a run is not ready for is only shown.
Publish(by, fresh, capacity) ==
    /\ by \in Operators /\ proof.read
    /\ run.state \notin {"none", "PUBLISHED"}
    /\ IF Blocking(fresh, capacity) = "none" THEN Published
       ELSE /\ run' = IF Blocking(fresh, capacity) = "TARGET_PROJECT_NOT_EMPTY"
                      THEN [run EXCEPT !.state = "QUARANTINED", !.reason = "TARGET_PROJECT_NOT_EMPTY"]
                      ELSE [run EXCEPT !.state = "NOT_READY"]
            /\ UNCHANGED target
    /\ UNCHANGED <<claim, inhabited>> /\ RestoreStep

----------------------------------------------------------------------------
\* The grant of a job that has its manifest is of no use to it.
GrantStep ==
    /\ \/ \E j \in Jobs \ envelope : ClaimOidcJti(j)
       \/ \E j \in Jobs \ envelope : IssueGrant(j)
       \/ \E j \in Jobs \ envelope : ExchangeFails(j)
       \/ \E j \in Jobs \ envelope : GrantExpires(j)
       \/ \E j \in Jobs \ envelope : AssertionExpires(j)
    /\ UNCHANGED <<source, backup, proof, recovery>>

Next ==
    \/ GrantStep
    \/ \E t \in Tenants : Connect(t)
    \/ \E t \in Tenants : Disconnect(t)
    \/ \E i \in Intents, t \in Tenants : StartDeletion(i, t)
    \/ \E i \in Intents : CreateDeletionIntent(i)
    \/ \E i \in Intents : AppendDeletionEvent(i)
    \/ \E i \in Intents : AttestDeletionJournal(i)
    \/ \E i \in Intents, o \in {"DELETE_BUSINESS_DATA", "DELETE_ACCOUNT"} : ExecuteDeletion(i, o)
    \/ \E j \in Jobs : StartExport(j)
    \/ \E j \in Jobs : Materialize(j)
    \/ \E j \in Jobs, p \in Pages : ReadBackupPage(j, p)
    \/ \E j \in Jobs : RecordPageEvidence(j)
    \/ \E j \in Jobs : Seal(j)
    \/ \E j \in Jobs : ClaimSigning(j)
    \/ \E j \in Jobs : SignManifest(j)
    \/ \E j \in Jobs : StopWaiting(j)
    \/ ReadJournalProof
    \/ \E by \in Operators, j \in Jobs, f \in BOOLEAN : ClaimRestore(by, j, f)
    \/ \E by \in Operators, p \in Pages : StageBatch(by, p)
    \/ \E by \in Operators, t \in Tenants : IssueOwnerInvite(by, t)
    \/ \E u \in Users, t \in Tenants, g \in 1..MaxInvites : ClaimOwner(u, t, g)
    \/ \E u \in Users : RecoverOwner(u)
    \/ Admit
    \/ \E by \in Operators, f \in BOOLEAN, c \in {"unknown", "blocked", "allowed"} :
            Publish(by, f, c)

Spec == Init /\ [][Next]_vars

----------------------------------------------------------------------------
(* Properties *)

\* A deletion whose statement started before the snapshot's and wrote after
\* it: the export did not see it.
Straddles(i) == run.job \notin intents[i].after /\ run.job \in intents[i].missed

\* A published row is data that a deletion of the final proof was about: what the
\* tenant had when it asked, or what was removed.
Returned(r, i) ==
    /\ intents[i].tenant = r.row.tenant
    /\ r.row.version \in {intents[i].version, intents[i].removed}

\* Data that a deletion in the final journal proof was about is not restored,
\* unless the deletion's statement straddled the export.
DeletedStaysGone ==
    \A i \in run.events, r \in {s \in target : s.row.dataset = "data"} :
        Returned(r, i) => Straddles(i)

\* restore-v2's comment on the export: no deletion event precedes a snapshot
\* that still contains the subject's rows, so nothing deleted comes back.
NothingDeletedReturns ==
    \A i \in run.events, r \in {s \in target : s.row.dataset = "data"} : ~Returned(r, i)

\* A published run restored every row of every tenant of the snapshot that was
\* not deleted since, each to the user with the verified email of its owner,
\* and nothing else, into a project nobody lives in.
RestoredExactly ==
    run.state = "PUBLISHED" =>
        /\ ~inhabited
        /\ target = {[row |-> r, owner |-> r.tenant] :
                    r \in {s \in Snapshot.rows :
                            ~\E i \in run.events : /\ intents[i].tenant = s.tenant
                                                   /\ run.job \in intents[i].after}}

\* A snapshot that was signed can be restored as far as its own rows go.
SignedSnapshotsAreWhole == run.reason # "CROSS_TENANT_REFERENCE"

\* A job whose assertion the function accepts is not refused its first grant.
FirstExchangeIsGranted == \A j \in Jobs : exchange[j] = "refused" => j \in claimed

================================================================================
