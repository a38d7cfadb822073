------------------------- MODULE BackupRestoreProofs -------------------------
(***************************************************************************)
(* Three things, for any tenants, jobs, intents, operators and bounds.     *)
(*                                                                         *)
(* A grant in use stands on a recorded run attempt and on an assertion     *)
(* that is still valid: an exchange that is past its claim is recorded,    *)
(* which is why the grant it issues is.                                    *)
(*                                                                         *)
(* Nothing that backup and recovery do touches a grant except the steps of *)
(* its exchange, so the same holds of the whole.                           *)
(*                                                                         *)
(* A recovery restores what its signed snapshot froze, less what the       *)
(* journal and the snapshot know to be deleted.  Deletions of a tenant may *)
(* overlap; the argument is that data gets a number that no deletion has   *)
(* removed or was asked for before, that no snapshot is frozen while a     *)
(* deletion is written and not executed, and that one frozen before is     *)
(* among those the deletion remembers.                                     *)
(***************************************************************************)
EXTENDS BackupRestore, FiniteSetTheorems, TLAPS

(* The exchange of grants.                                                 *)

\* The values each variable takes.
GrantsTypeOK ==
    /\ assertion \in [Jobs -> {"valid", "expired"}]
    /\ claimed \in SUBSET Jobs
    /\ exchange \in [Jobs -> {"none", "claimed", "granted", "failed", "refused"}]
    /\ grant \in [Jobs -> {"none", "live", "expired"}]

\* A recorded run attempt asked for a capability the database knows.
ClaimedAreKnown == \A j \in claimed : Capability[j] \in ClaimedCapabilities

\* An exchange past its claim is recorded.
ClaimedExchanges == \A j \in Jobs : exchange[j] \in {"claimed", "granted"} => j \in claimed

GrantsInv == GrantsTypeOK /\ ClaimedAreKnown /\ ClaimedExchanges /\ LiveGrantsAreRecorded

\* Before the first exchange no grant stands on anything.
LEMMA GrantsInitially == GrantsInit => GrantsInv
BY DEF GrantsInit, GrantsInv, GrantsTypeOK, ClaimedAreKnown, ClaimedExchanges,
       LiveGrantsAreRecorded

\* rv2_ops_claim_oidc_jti records the assertion it accepts and replaces none.
LEMMA ClaimStep ==
    ASSUME GrantsInv, NEW j \in Jobs, ClaimOidcJti(j)
    PROVE  GrantsInv'
<1> USE DEF GrantsInv, ClaimOidcJti
<1>1. GrantsTypeOK'
    BY DEF GrantsTypeOK
<1>2. ClaimedAreKnown' /\ claimed \subseteq claimed'
    BY DEF ClaimedAreKnown, Claimable, GrantsTypeOK
<1>3. ClaimedExchanges'
    BY DEF ClaimedExchanges, GrantsTypeOK
<1>4. LiveGrantsAreRecorded'
    BY <1>2 DEF LiveGrantsAreRecorded, ClaimLive
<1> QED BY <1>1, <1>2, <1>3, <1>4

\* A grant is issued on the assertion that was just recorded.
LEMMA IssueStep ==
    ASSUME GrantsInv, NEW j \in Jobs, IssueGrant(j)
    PROVE  GrantsInv'
<1> USE DEF GrantsInv, IssueGrant
<1>1. GrantsTypeOK'
    BY DEF GrantsTypeOK
<1>2. ClaimedAreKnown'
    BY DEF ClaimedAreKnown
<1>3. ClaimedExchanges'
    BY DEF ClaimedExchanges, GrantsTypeOK
<1>4. j \in claimed /\ Capability[j] \in ClaimedCapabilities
    BY DEF ClaimedExchanges, ClaimedAreKnown
<1>5. LiveGrantsAreRecorded'
    BY <1>4 DEF LiveGrantsAreRecorded, ClaimLive, GrantsTypeOK
<1> QED BY <1>1, <1>2, <1>3, <1>5

\* What ends an exchange, a grant or an assertion leaves recorded what live grants need.
LEMMA EndingStep ==
    ASSUME GrantsInv, NEW j \in Jobs,
           ExchangeFails(j) \/ GrantExpires(j) \/ AssertionExpires(j)
    PROVE  GrantsInv'
<1> USE DEF GrantsInv, GrantsTypeOK, ClaimedAreKnown, ClaimedExchanges,
            LiveGrantsAreRecorded, ClaimLive
<1>1. CASE ExchangeFails(j) BY <1>1 DEF ExchangeFails
<1>2. CASE GrantExpires(j) BY <1>2 DEF GrantExpires
<1>3. CASE AssertionExpires(j)
    <2>1. GrantsTypeOK' BY <1>3 DEF AssertionExpires, Lapsed
    <2>2. \A k \in Jobs : grant'[k] = "live" => k # j /\ grant[k] = "live"
        BY <1>3 DEF AssertionExpires, Lapsed
    <2>3. LiveGrantsAreRecorded' BY <1>3, <2>2 DEF AssertionExpires
    <2> QED BY <1>3, <2>1, <2>3 DEF AssertionExpires
<1> QED BY <1>1, <1>2, <1>3

\* A grant in use stands on a recorded run attempt of a known capability and on
\* an assertion that has not expired.
THEOREM LiveGrantsRecorded == GrantsSpec => []LiveGrantsAreRecorded
<1>1. GrantsInit => GrantsInv BY GrantsInitially
<1>2. GrantsInv /\ [GrantsNext]_grantVars => GrantsInv'
    <2> SUFFICES ASSUME GrantsInv, [GrantsNext]_grantVars PROVE GrantsInv'
        OBVIOUS
    <2>1. CASE UNCHANGED grantVars
        BY <2>1 DEF grantVars, GrantsInv, GrantsTypeOK, ClaimedAreKnown, ClaimedExchanges,
                    LiveGrantsAreRecorded, ClaimLive
    <2>2. CASE GrantsNext BY <2>2, ClaimStep, IssueStep, EndingStep DEF GrantsNext
    <2> QED BY <2>1, <2>2
<1>3. GrantsInv => LiveGrantsAreRecorded BY DEF GrantsInv
<1> QED BY <1>1, <1>2, <1>3, PTL DEF GrantsSpec

----------------------------------------------------------------------------
(* Backup and recovery leave the grants alone.                             *)

\* The users and the deletions of the source project use no grant.
LEMMA SourceKeepsGrants ==
    ASSUME \/ \E t \in Tenants : Connect(t)
           \/ \E t \in Tenants : Disconnect(t)
           \/ \E i \in Intents, t \in Tenants : StartDeletion(i, t)
           \/ \E i \in Intents : CreateDeletionIntent(i)
           \/ \E i \in Intents : AppendDeletionEvent(i)
           \/ \E i \in Intents : AttestDeletionJournal(i)
           \/ \E i \in Intents, o \in {"DELETE_BUSINESS_DATA", "DELETE_ACCOUNT"} :
                    ExecuteDeletion(i, o)
    PROVE  UNCHANGED grantVars
<1>1. SourceStep => UNCHANGED grantVars BY DEF SourceStep
<1>2. ASSUME NEW t \in Tenants, Connect(t) PROVE SourceStep BY <1>2 DEF Connect
<1>3. ASSUME NEW t \in Tenants, Disconnect(t) PROVE SourceStep BY <1>3 DEF Disconnect
<1>4. ASSUME NEW i \in Intents, NEW t \in Tenants, StartDeletion(i, t) PROVE SourceStep
    BY <1>4 DEF StartDeletion
<1>5. ASSUME NEW i \in Intents, CreateDeletionIntent(i) PROVE SourceStep
    BY <1>5 DEF CreateDeletionIntent
<1>6. ASSUME NEW i \in Intents, AppendDeletionEvent(i) \/ AttestDeletionJournal(i) PROVE SourceStep
    BY <1>6 DEF AppendDeletionEvent, AttestDeletionJournal
<1>7. ASSUME NEW i \in Intents, NEW o, ExecuteDeletion(i, o) PROVE SourceStep
    BY <1>7 DEF ExecuteDeletion
<1> QED BY <1>1, <1>2, <1>3, <1>4, <1>5, <1>6, <1>7

\* A backup uses its grant and changes none.
LEMMA BackupKeepsGrants ==
    ASSUME NEW j \in Jobs,
           \/ StartExport(j) \/ Materialize(j) \/ \E p \in Pages : ReadBackupPage(j, p)
           \/ RecordPageEvidence(j) \/ Seal(j) \/ ClaimSigning(j) \/ SignManifest(j)
           \/ StopWaiting(j)
    PROVE  UNCHANGED grantVars
<1>1. BackupStep => UNCHANGED grantVars BY DEF BackupStep
<1>2. StartExport(j) => BackupStep BY DEF StartExport
<1>3. Materialize(j) => BackupStep BY DEF Materialize
<1>4. ASSUME NEW p \in Pages, ReadBackupPage(j, p) PROVE BackupStep BY <1>4 DEF ReadBackupPage
<1>5. RecordPageEvidence(j) => BackupStep BY DEF RecordPageEvidence
<1>6. Seal(j) => BackupStep BY DEF Seal
<1>7. ClaimSigning(j) => BackupStep BY DEF ClaimSigning
<1>8. SignManifest(j) => BackupStep BY DEF SignManifest
<1>9. StopWaiting(j) => BackupStep BY DEF StopWaiting
<1> QED BY <1>1, <1>2, <1>3, <1>4, <1>5, <1>6, <1>7, <1>8, <1>9

\* So does a recovery.
LEMMA RecoveryKeepsGrants ==
    ASSUME \/ ReadJournalProof
           \/ \E by \in Operators, j \in Jobs, f \in BOOLEAN : ClaimRestore(by, j, f)
           \/ \E by \in Operators, p \in Pages : StageBatch(by, p)
           \/ \E by \in Operators, t \in Tenants : IssueOwnerInvite(by, t)
           \/ \E u \in Users, t \in Tenants, g \in 1..MaxInvites : ClaimOwner(u, t, g)
           \/ \E u \in Users : RecoverOwner(u)
           \/ Admit
           \/ \E by \in Operators, f \in BOOLEAN, c \in {"unknown", "blocked", "allowed"} :
                    Publish(by, f, c)
    PROVE  UNCHANGED grantVars
<1>1. RecoveryStep => UNCHANGED grantVars BY DEF RecoveryStep
<1>2. RestoreStep => RecoveryStep BY DEF RestoreStep
<1>3. ReadJournalProof => RecoveryStep BY DEF ReadJournalProof
<1>4. ASSUME NEW by, NEW j, NEW f, ClaimRestore(by, j, f) PROVE RestoreStep
    BY <1>4 DEF ClaimRestore
<1>5. ASSUME NEW by, NEW p, StageBatch(by, p) PROVE RestoreStep BY <1>5 DEF StageBatch
<1>6. ASSUME NEW by, NEW t, IssueOwnerInvite(by, t) PROVE RestoreStep
    BY <1>6 DEF IssueOwnerInvite
<1>7. ASSUME NEW u, NEW t, NEW g, ClaimOwner(u, t, g) PROVE RestoreStep
    BY <1>7 DEF ClaimOwner
<1>8. ASSUME NEW u, RecoverOwner(u) PROVE RestoreStep BY <1>8 DEF RecoverOwner
<1>9. Admit => RestoreStep BY DEF Admit
<1>10. ASSUME NEW by, NEW f, NEW c, Publish(by, f, c) PROVE RestoreStep
    BY <1>10 DEF Publish
<1> QED BY <1>1, <1>2, <1>3, <1>4, <1>5, <1>6, <1>7, <1>8, <1>9, <1>10

\* Backup and recovery implement the exchange: each of their steps is one of
\* its steps or leaves the grants alone.
THEOREM BackupImplementsGrants == Spec => GrantsSpec
<1>1. Init => GrantsInit BY DEF Init
<1>2. [Next]_vars => [GrantsNext]_grantVars
    <2>1. UNCHANGED vars => UNCHANGED grantVars BY DEF vars
    <2>2. GrantStep => GrantsNext BY DEF GrantStep, GrantsNext
    <2>3. Next => GrantStep \/ UNCHANGED grantVars
        BY SourceKeepsGrants, BackupKeepsGrants, RecoveryKeepsGrants DEF Next
    <2> QED BY <2>1, <2>2, <2>3
<1> QED BY <1>1, <1>2, PTL DEF Spec, GrantsSpec

\* So a grant in use is recorded and stands on a valid assertion throughout a
\* backup and a recovery.
THEOREM BackupGrantsRecorded == Spec => []LiveGrantsAreRecorded
BY BackupImplementsGrants, LiveGrantsRecorded, PTL

----------------------------------------------------------------------------
(* What is deleted stays gone, and what is restored is whole.              *)

IntentStates == {"none", "called", "PENDING_JOURNAL", "APPENDED", "JOURNALED", "DELETED"}
Intent == [tenant : Tenants \cup {None}, state : IntentStates, version : Nat, removed : Nat,
           after : SUBSET Jobs, missed : SUBSET Jobs]

Written(i) == intents[i].state \in {"PENDING_JOURNAL", "APPENDED", "JOURNALED", "DELETED"}

SourceTypeOK == content \in [Tenants -> Nat] /\ intents \in [Intents -> Intent]

\* An intent is about a tenant, and has removed something only when it was executed.
IntentsAreSound ==
    \A i \in Intents : /\ intents[i].state # "none" => intents[i].tenant \in Tenants
                       /\ intents[i].state # "DELETED" => intents[i].removed = 0

\* The data of tenant t, if it has any, has the number after those that were
\* removed from it.
NumbersGrow(t) ==
    /\ IsFiniteSet(Cleared(t))
    /\ content[t] # 0 => content[t] = Cardinality(Cleared(t)) + 1

\* What a deletion i was asked for or has removed has a number that was given
\* out; when it is executed, to data that is gone.
NumberIsOld(i) ==
    LET removals == Cardinality(Cleared(intents[i].tenant))
    IN  /\ \/ intents[i].version <= removals
           \/ intents[i].state # "DELETED" /\ intents[i].version = content[intents[i].tenant]
        /\ intents[i].removed <= removals

NumbersAreUsedOnce ==
    /\ \A t \in Tenants : NumbersGrow(t)
    /\ \A i \in Intents : intents[i].state # "none" => NumberIsOld(i)

SourceInv == SourceTypeOK /\ IntentsAreSound /\ NumbersAreUsedOnce

\* At first no data is deleted and no intent is under way.
LEMMA SourceInit == Init => SourceInv
<1> SUFFICES ASSUME Init PROVE SourceInv OBVIOUS
<1>1. SourceTypeOK
    BY DEF Init, SourceTypeOK, NoIntent, Intent, IntentStates
<1>2. IntentsAreSound /\ \A i \in Intents : intents[i].state = "none"
    BY DEF Init, IntentsAreSound, NoIntent
<1>3. \A t : Cleared(t) = {}
    BY DEF Init, Cleared, NoIntent
<1>4. ASSUME NEW t \in Tenants PROVE NumbersGrow(t)
    <2>1. Cardinality(Cleared(t)) = 0 /\ IsFiniteSet(Cleared(t))
        BY <1>3, FS_EmptySet
    <2>2. content[t] = 1
        BY DEF Init
    <2> QED BY <2>1, <2>2 DEF NumbersGrow
<1> QED BY <1>1, <1>2, <1>4 DEF SourceInv, NumbersAreUsedOnce

\* Steps that execute no deletion and connect nothing.
LEMMA SourceStands ==
    ASSUME SourceInv, UNCHANGED content, intents' \in [Intents -> Intent],
           \A i \in Intents :
            \/ /\ intents'[i].tenant = intents[i].tenant
               /\ intents'[i].version = intents[i].version
               /\ intents'[i].removed = intents[i].removed
               /\ intents'[i].state = "none" <=> intents[i].state = "none"
               /\ intents'[i].state = "DELETED" <=> intents[i].state = "DELETED"
            \/ /\ intents[i].state = "none" /\ intents'[i].state = "called"
               /\ intents'[i].tenant \in Tenants /\ intents'[i].removed = 0
               /\ intents'[i].version = content[intents'[i].tenant]
    PROVE  SourceInv'
<1>1. SourceTypeOK' /\ IntentsAreSound'
    BY DEF SourceInv, SourceTypeOK, IntentsAreSound
<1>2. \A t : Cleared(t)' = Cleared(t)
    BY DEF Cleared, SourceInv, IntentsAreSound
<1>3. \A t \in Tenants : Cardinality(Cleared(t)) \in Nat
    BY FS_CardinalityType DEF SourceInv, NumbersAreUsedOnce, NumbersGrow
<1>4. ASSUME NEW t \in Tenants PROVE NumbersGrow(t)'
    BY <1>2 DEF SourceInv, NumbersAreUsedOnce, NumbersGrow
<1>5. ASSUME NEW i \in Intents, intents'[i].state # "none" PROVE NumberIsOld(i)'
    <2>1. CASE intents[i].state = "none"
        <3>1. /\ intents'[i].state = "called" /\ intents'[i].tenant \in Tenants
              /\ intents'[i].removed = 0 /\ intents'[i].version = content[intents'[i].tenant]
            BY <1>5, <2>1
        <3> QED BY <3>1, <1>2, <1>3 DEF NumberIsOld
    <2>2. CASE intents[i].state # "none"
        <3>1. /\ intents'[i].tenant = intents[i].tenant /\ intents'[i].version = intents[i].version
              /\ intents'[i].removed = intents[i].removed
              /\ intents'[i].state = "DELETED" <=> intents[i].state = "DELETED"
            BY <2>2
        <3>2. NumberIsOld(i)
            BY <2>2 DEF SourceInv, NumbersAreUsedOnce
        <3> QED BY <3>1, <3>2, <1>2 DEF NumberIsOld
    <2> QED BY <2>1, <2>2
<1> QED BY <1>1, <1>4, <1>5 DEF SourceInv, NumbersAreUsedOnce

\* A new connection gets a number that was never given out.
LEMMA ConnectSource == ASSUME SourceInv, NEW t \in Tenants, Connect(t) PROVE SourceInv'
<1> DEFINE n == Cardinality(Cleared(t))
<1>1. IsFiniteSet(Cleared(t)) /\ n \in Nat
    BY FS_CardinalityType DEF SourceInv, NumbersAreUsedOnce, NumbersGrow
<1>2. /\ UNCHANGED intents /\ content[t] = 0
      /\ content' = [content EXCEPT ![t] = n + 1] /\ content' \in [Tenants -> Nat]
    BY <1>1 DEF Connect, SourceInv, SourceTypeOK
<1>3. content'[t] = n + 1 /\ \A u \in Tenants : u # t => content'[u] = content[u]
    BY <1>2 DEF SourceInv, SourceTypeOK
<1>4. \A u : Cleared(u)' = Cleared(u)
    BY <1>2 DEF Cleared
<1>5. ASSUME NEW u \in Tenants PROVE NumbersGrow(u)'
    BY <1>1, <1>3, <1>4 DEF SourceInv, NumbersAreUsedOnce, NumbersGrow
<1>6. ASSUME NEW i \in Intents, intents'[i].state # "none" PROVE NumberIsOld(i)'
    <2>1. NumberIsOld(i) /\ intents'[i] = intents[i] /\ intents[i].tenant \in Tenants
        BY <1>2, <1>6 DEF SourceInv, NumbersAreUsedOnce, IntentsAreSound
    <2>2. CASE intents[i].tenant = t
        <3>1. intents[i].version <= n /\ intents[i].removed <= n
            BY <2>1, <2>2, <1>1, <1>2 DEF NumberIsOld
        <3> QED BY <3>1, <2>1, <2>2, <1>4 DEF NumberIsOld
    <2>3. CASE intents[i].tenant # t
        BY <2>1, <2>3, <1>3, <1>4 DEF NumberIsOld
    <2> QED BY <2>2, <2>3
<1>7. SourceTypeOK' /\ IntentsAreSound'
    BY <1>2 DEF SourceInv, SourceTypeOK, IntentsAreSound
<1> QED BY <1>5, <1>6, <1>7 DEF SourceInv, NumbersAreUsedOnce

\* Data that is deleted is one more removal, and its number was the last one.
LEMMA ExecuteSource ==
    ASSUME SourceInv, NEW i \in Intents, NEW o, ExecuteDeletion(i, o)
    PROVE  SourceInv'
<1>1. PICK t \in Tenants : t = intents[i].tenant /\ intents[i].state = "JOURNALED"
    BY DEF ExecuteDeletion, SourceInv, IntentsAreSound
<1>2. content[t] \in Nat /\ intents[i] \in Intent
    BY DEF SourceInv, SourceTypeOK
<1> DEFINE row == [intents[i] EXCEPT !.state = "DELETED", !.removed = content[t]]
<1>3. /\ content' = [content EXCEPT ![t] = 0] /\ intents' = [intents EXCEPT ![i] = row]
    BY <1>1, <1>2 DEF ExecuteDeletion, SourceInv, SourceTypeOK
<1>4. /\ row \in Intent /\ row.state = "DELETED" /\ row.removed = content[t]
      /\ row.tenant = t /\ row.version = intents[i].version
    BY <1>1, <1>2 DEF Intent, IntentStates
<1> HIDE DEF row
<1>5. intents'[i] = row /\ \A k \in Intents : k # i => intents'[k] = intents[k]
    BY <1>3 DEF SourceInv, SourceTypeOK
<1>6. content'[t] = 0 /\ \A u \in Tenants : u # t => content'[u] = content[u]
    BY <1>3 DEF SourceInv, SourceTypeOK
<1>7. SourceTypeOK' /\ IntentsAreSound'
    BY <1>3, <1>4, <1>5, <1>2 DEF SourceInv, SourceTypeOK, IntentsAreSound
<1>8. /\ i \notin Cleared(t)
      /\ Cleared(t)' = IF content[t] = 0 THEN Cleared(t) ELSE Cleared(t) \cup {i}
      /\ \A u \in Tenants : u # t => Cleared(u)' = Cleared(u)
    BY <1>1, <1>4, <1>5 DEF Cleared, SourceInv, IntentsAreSound
<1>9. \A u \in Tenants : IsFiniteSet(Cleared(u)) /\ Cardinality(Cleared(u)) \in Nat
    BY FS_CardinalityType DEF SourceInv, NumbersAreUsedOnce, NumbersGrow
<1>10. /\ IsFiniteSet(Cleared(t)')
       /\ Cardinality(Cleared(t)') = IF content[t] = 0 THEN Cardinality(Cleared(t)) ELSE content[t]
       /\ Cardinality(Cleared(t)) <= Cardinality(Cleared(t)')
    <2>1. CASE content[t] = 0
        BY <2>1, <1>8, <1>9
    <2>2. CASE content[t] # 0
        <3>1. content[t] = Cardinality(Cleared(t)) + 1
            BY <2>2 DEF SourceInv, NumbersAreUsedOnce, NumbersGrow
        <3>2. /\ IsFiniteSet(Cleared(t) \cup {i})
              /\ Cardinality(Cleared(t) \cup {i}) = Cardinality(Cleared(t)) + 1
            BY <1>8, <1>9, FS_AddElement
        <3> QED BY <3>1, <3>2, <2>2, <1>8, <1>9
    <2> QED BY <2>1, <2>2
<1>11. ASSUME NEW u \in Tenants PROVE NumbersGrow(u)'
    <2>1. CASE u = t
        BY <2>1, <1>6, <1>10 DEF NumbersGrow
    <2>2. CASE u # t
        BY <2>2, <1>6, <1>8 DEF SourceInv, NumbersAreUsedOnce, NumbersGrow
    <2> QED BY <2>1, <2>2
<1>12. ASSUME NEW k \in Intents, intents'[k].state # "none" PROVE NumberIsOld(k)'
    <2>1. /\ NumberIsOld(k) /\ intents[k].tenant \in Tenants
          /\ intents[k].version \in Nat /\ intents[k].removed \in Nat
          /\ intents'[k].tenant = intents[k].tenant /\ intents'[k].version = intents[k].version
        BY <1>1, <1>4, <1>5, <1>12
        DEF SourceInv, NumbersAreUsedOnce, IntentsAreSound, SourceTypeOK, Intent
    <2>2. CASE intents[k].tenant # t
        <3>1. intents'[k] = intents[k]
            BY <2>2, <1>1, <1>5
        <3> QED BY <2>1, <2>2, <3>1, <1>6, <1>8 DEF NumberIsOld
    <2>3. CASE intents[k].tenant = t
        <3>1. intents'[k].version <= Cardinality(Cleared(t)')
            BY <2>1, <2>3, <1>2, <1>9, <1>10 DEF NumberIsOld
        <3>2. intents'[k].removed <= Cardinality(Cleared(t)')
            <4>1. CASE k = i
                BY <4>1, <1>2, <1>4, <1>5, <1>9, <1>10
            <4>2. CASE k # i
                BY <4>2, <2>1, <2>3, <1>5, <1>2, <1>9, <1>10 DEF NumberIsOld
            <4> QED BY <4>1, <4>2
        <3> QED BY <3>1, <3>2, <2>1, <2>3 DEF NumberIsOld
    <2> QED BY <2>2, <2>3
<1> QED BY <1>7, <1>11, <1>12 DEF SourceInv, NumbersAreUsedOnce

----------------------------------------------------------------------------
(* Snapshots.                                                              *)

ExportRows == [dataset : {"tenants", "memberships", "connections", "data"},
               tenant : Tenants, version : Nat]

\* A signed job has its export as it was frozen, and a signature is only asked
\* for after that.
SnapshotsSigned ==
    /\ export \in [Jobs -> [status : {"none", "MATERIALIZING", "READY", "SIGNED"},
                            rows : SUBSET ExportRows]]
    /\ DOMAIN call = Jobs /\ envelope \subseteq Jobs
    /\ \A j \in Jobs : call[j].step = "sign" => export[j].status = "SIGNED"
    /\ \A j \in envelope : export[j].status = "SIGNED"

\* Row r is data that deletion i was asked for or has removed.
About(i, r) == /\ r.tenant = intents[i].tenant
               /\ r.version \in {intents[i].version, intents[i].removed}

\* A frozen export that holds what a written deletion was about was started
\* before its statement, or frozen before it was written; as any is that is
\* frozen while the deletion is not executed.
SnapshotsSeen ==
    \A j \in Jobs, i \in Intents : Frozen(j) /\ Written(i) =>
        /\ intents[i].state # "DELETED" => j \in intents[i].missed
        /\ \A r \in Of(export[j].rows, "data") :
            About(i, r) => j \in intents[i].after \/ j \in intents[i].missed

\* What a step leaves of the journal and of the signed snapshots.
Steady ==
    /\ \A i \in Journal : i \in Journal' /\ intents'[i].tenant = intents[i].tenant
    /\ \A j \in envelope :
        /\ j \in envelope' /\ export'[j] = export[j]
        /\ \A i \in Journal : j \in intents'[i].after <=> j \in intents[i].after

SnapshotInv == SourceInv /\ SnapshotsSigned /\ SnapshotsSeen

\* At first there is no snapshot to agree with.
LEMMA SnapshotInit == Init => SnapshotInv
<1> SUFFICES ASSUME Init PROVE SnapshotInv OBVIOUS
<1>1. SnapshotsSigned
    BY DEF Init, SnapshotsSigned, NoExport, NoCall
<1>2. SnapshotsSeen
    BY DEF Init, SnapshotsSeen, Frozen, NoExport
<1> QED BY <1>1, <1>2, SourceInit DEF SnapshotInv

\* What users do changes no export.
LEMMA UserStep ==
    ASSUME SnapshotInv,
           \/ \E t \in Tenants : Connect(t)
           \/ \E t \in Tenants : Disconnect(t)
           \/ \E i \in Intents, t \in Tenants : StartDeletion(i, t)
           \/ \E i \in Intents : CreateDeletionIntent(i)
           \/ \E i \in Intents : AppendDeletionEvent(i)
           \/ \E i \in Intents : AttestDeletionJournal(i)
           \/ \E i \in Intents, o \in {"DELETE_BUSINESS_DATA", "DELETE_ACCOUNT"} :
                    ExecuteDeletion(i, o)
    PROVE  SnapshotInv' /\ Steady
<1>1. SourceStep
    BY DEF Connect, Disconnect, StartDeletion, CreateDeletionIntent, AppendDeletionEvent,
           AttestDeletionJournal, ExecuteDeletion
<1>2. UNCHANGED <<export, call, envelope>>
    BY <1>1 DEF SourceStep, backup
<1>3. SourceInv /\ intents \in [Intents -> Intent] /\ content \in [Tenants -> Nat]
    BY DEF SnapshotInv, SourceInv, SourceTypeOK
<1>4. SnapshotsSigned'
    BY <1>2 DEF SnapshotInv, SnapshotsSigned
\* One intent moves; once it is written it remembers every frozen export until
\* it is executed, and keeps its tenant and what it came after.
<1>5. ASSUME SourceInv',
             \A i \in Intents :
                \/ intents'[i] = intents[i]
                \/ /\ ~Written(i)
                   /\ Written(i)' => \A j \in Jobs : Frozen(j) => j \in intents'[i].missed
                \/ /\ Written(i) /\ intents[i].state # "DELETED" /\ (i \in Journal => i \in Journal')
                   /\ intents'[i].tenant = intents[i].tenant
                   /\ intents'[i].after = intents[i].after /\ intents'[i].missed = intents[i].missed
      PROVE  SnapshotInv' /\ Steady
    <2>1. SnapshotsSeen'
        <3>1. ASSUME NEW j \in Jobs, NEW i \in Intents, Frozen(j)', Written(i)'
              PROVE  /\ intents'[i].state # "DELETED" => j \in intents'[i].missed
                     /\ \A r \in Of(export'[j].rows, "data") :
                            About(i, r)' => j \in intents'[i].after \/ j \in intents'[i].missed
            <4>1. Frozen(j) /\ export'[j] = export[j]
                BY <3>1, <1>2 DEF Frozen
            <4>2. CASE intents'[i] = intents[i]
                BY <3>1, <4>1, <4>2 DEF SnapshotInv, SnapshotsSeen, Written, About
            <4>3. CASE \A k \in Jobs : Frozen(k) => k \in intents'[i].missed
                BY <4>1, <4>3
            <4>4. CASE /\ Written(i) /\ intents[i].state # "DELETED"
                       /\ intents'[i].missed = intents[i].missed
                BY <4>1, <4>4 DEF SnapshotInv, SnapshotsSeen
            <4> QED BY <3>1, <4>2, <4>3, <4>4, <1>5
        <3> QED BY <3>1 DEF SnapshotsSeen, Of, About
    <2>2. ASSUME NEW i \in Journal
          PROVE  /\ i \in Journal' /\ intents'[i].tenant = intents[i].tenant
                 /\ intents'[i].after = intents[i].after
        <3>1. i \in Intents /\ Written(i)
            BY DEF Journal, Written
        <3> QED BY <3>1, <1>5 DEF Journal
    <2>3. Steady
        BY <2>2, <1>2 DEF Steady
    <2> QED BY <2>1, <2>3, <1>4, <1>5 DEF SnapshotInv
\* An intent is called, written, appended or attested.
<1>6. ASSUME NEW i \in Intents, NEW row \in Intent, UNCHANGED content,
             intents' = [intents EXCEPT ![i] = row],
             \/ /\ intents[i].state = "none" /\ row.state = "called"
                /\ row.tenant \in Tenants /\ row.removed = 0 /\ row.version = content[row.tenant]
             \/ /\ row.tenant = intents[i].tenant /\ row.version = intents[i].version
                /\ row.removed = intents[i].removed
                /\ \/ /\ intents[i].state = "called" /\ row.state = "PENDING_JOURNAL"
                      /\ row.missed = {j \in Jobs : Frozen(j)}
                   \/ /\ intents[i].state \in {"PENDING_JOURNAL", "APPENDED"}
                      /\ row.state \in {"APPENDED", "JOURNALED"}
                      /\ row.after = intents[i].after /\ row.missed = intents[i].missed
      PROVE  SnapshotInv' /\ Steady
    <2>1. intents'[i] = row /\ \A k \in Intents : k # i => intents'[k] = intents[k]
        BY <1>3, <1>6
    <2>2. intents' \in [Intents -> Intent]
        BY <1>3, <1>6
    <2>3. SourceInv'
        BY <2>1, <2>2, <1>3, <1>6, SourceStands
    <2> QED BY <2>1, <2>3, <1>5, <1>6 DEF Written, Journal
<1>7. CASE \E t \in Tenants : Connect(t)
    <2>1. UNCHANGED intents
        BY <1>7 DEF Connect
    <2> QED BY <2>1, <1>3, <1>5, <1>7, ConnectSource
<1>8. CASE \E t \in Tenants : Disconnect(t)
    <2>1. UNCHANGED <<content, intents>>
        BY <1>8 DEF Disconnect
    <2> QED BY <2>1, <1>3, <1>5, SourceStands
<1>9. CASE \E i \in Intents, t \in Tenants : StartDeletion(i, t)
    <2>1. PICK i \in Intents, t \in Tenants : StartDeletion(i, t)
        BY <1>9
    <2> DEFINE row == [tenant |-> t, state |-> "called", version |-> content[t], removed |-> 0,
                       after |-> {j \in Jobs : Started(j)}, missed |-> {}]
    <2>2. intents[i].state = "none" /\ UNCHANGED content /\ intents' = [intents EXCEPT ![i] = row]
        BY <2>1 DEF StartDeletion
    <2>3. /\ row \in Intent /\ row.state = "called" /\ row.tenant = t
          /\ row.removed = 0 /\ row.version = content[t]
        BY <1>3 DEF Intent, IntentStates
    <2> HIDE DEF row
    <2> QED BY <2>2, <2>3, <1>6
<1>10. CASE \E i \in Intents : CreateDeletionIntent(i)
    <2>1. PICK i \in Intents : CreateDeletionIntent(i)
        BY <1>10
    <2> DEFINE row == [intents[i] EXCEPT !.state = "PENDING_JOURNAL", !.missed = {j \in Jobs : Frozen(j)}]
    <2>2. intents[i].state = "called" /\ UNCHANGED content /\ intents' = [intents EXCEPT ![i] = row]
        BY <2>1, <1>3 DEF CreateDeletionIntent
    <2>3. /\ row \in Intent /\ row.state = "PENDING_JOURNAL" /\ row.missed = {j \in Jobs : Frozen(j)}
          /\ row.tenant = intents[i].tenant /\ row.version = intents[i].version
          /\ row.removed = intents[i].removed
        BY <1>3 DEF Intent, IntentStates
    <2> HIDE DEF row
    <2> QED BY <2>2, <2>3, <1>6
<1>11. CASE \E i \in Intents : AppendDeletionEvent(i) \/ AttestDeletionJournal(i)
    <2>1. PICK i \in Intents, s \in {"APPENDED", "JOURNALED"} :
            /\ intents[i].state \in {"PENDING_JOURNAL", "APPENDED"} /\ UNCHANGED content
            /\ intents' = [intents EXCEPT ![i] = [intents[i] EXCEPT !.state = s]]
        BY <1>11, <1>3 DEF AppendDeletionEvent, AttestDeletionJournal
    <2> DEFINE row == [intents[i] EXCEPT !.state = s]
    <2>2. /\ row \in Intent /\ row.state = s
          /\ row.tenant = intents[i].tenant /\ row.version = intents[i].version
          /\ row.removed = intents[i].removed
          /\ row.after = intents[i].after /\ row.missed = intents[i].missed
        BY <1>3 DEF Intent, IntentStates
    <2> HIDE DEF row
    <2>3. intents' = [intents EXCEPT ![i] = row]
        BY <2>1 DEF row
    <2> QED BY <2>1, <2>2, <2>3, <1>6
<1>12. CASE \E i \in Intents, o \in {"DELETE_BUSINESS_DATA", "DELETE_ACCOUNT"} : ExecuteDeletion(i, o)
    <2>1. PICK i \in Intents, o \in {"DELETE_BUSINESS_DATA", "DELETE_ACCOUNT"} : ExecuteDeletion(i, o)
        BY <1>12
    <2>2. PICK n \in Nat :
            /\ intents[i].state = "JOURNALED"
            /\ intents' = [intents EXCEPT ![i] = [intents[i] EXCEPT !.state = "DELETED", !.removed = n]]
        <3>1. content[intents[i].tenant] \in Nat
            BY <2>1, <1>3 DEF ExecuteDeletion, SourceInv, IntentsAreSound
        <3> QED BY <2>1, <3>1, <1>3 DEF ExecuteDeletion
    <2>3. /\ intents'[i].state = "DELETED" /\ intents'[i].tenant = intents[i].tenant
          /\ intents'[i].after = intents[i].after /\ intents'[i].missed = intents[i].missed
          /\ \A k \in Intents : k # i => intents'[k] = intents[k]
        BY <2>2, <1>3 DEF Intent
    <2>4. SourceInv'
        BY <2>1, <1>3, ExecuteSource
    <2> QED BY <2>2, <2>3, <2>4, <1>5 DEF Written, Journal
<1> QED BY <1>7, <1>8, <1>9, <1>10, <1>11, <1>12

\* Data is exported under its present number.
LEMMA RowsExported ==
    ASSUME SourceTypeOK, NEW r \in RowsNow
    PROVE  /\ r \in ExportRows
           /\ r.dataset = "data" => r.version = content[r.tenant] /\ content[r.tenant] # 0
<1>1. PICK d \in {"tenants", "memberships", "connections", "data"}, t \in Tenants, v \in Nat :
        r = Row(d, t, v) /\ (d = "data" => v = content[t] /\ content[t] # 0)
    <2>1. CASE r \in {Row(d, t, 0) : d \in {"tenants", "memberships"},
                                  t \in {u \in Tenants : member[u] = "ACTIVE"}}
        BY <2>1
    <2>2. CASE r \in {Row("connections", t, content[t]) :
                      t \in {u \in Tenants : content[u] # 0 /\ u \notin revoked}}
        BY <2>2 DEF SourceTypeOK
    <2>3. CASE r \in {Row("data", t, content[t]) : t \in {u \in Tenants : content[u] # 0}}
        BY <2>3 DEF SourceTypeOK
    <2> QED BY <2>1, <2>2, <2>3 DEF RowsNow
<1> QED BY <1>1 DEF Row, ExportRows

\* What a backup does moves no deletion: it only changes what they came after.
LEMMA BackupRows ==
    ASSUME SnapshotInv, NEW j \in Jobs,
           \/ StartExport(j) \/ Materialize(j) \/ \E p \in Pages : ReadBackupPage(j, p)
           \/ RecordPageEvidence(j) \/ Seal(j) \/ ClaimSigning(j) \/ SignManifest(j)
           \/ StopWaiting(j)
    PROVE  SnapshotInv' /\ Steady
<1>1. BackupStep
    BY DEF StartExport, Materialize, ReadBackupPage, RecordPageEvidence, Seal, ClaimSigning,
           SignManifest, StopWaiting
<1>2. /\ UNCHANGED <<member, content, revoked>>
      /\ SourceInv /\ intents \in [Intents -> Intent] /\ content \in [Tenants -> Nat]
    BY <1>1 DEF BackupStep, SnapshotInv, SourceInv, SourceTypeOK
<1>3. export \in [Jobs -> [status : {"none", "MATERIALIZING", "READY", "SIGNED"},
                           rows : SUBSET ExportRows]]
      /\ export[j].status \in {"none", "MATERIALIZING", "READY", "SIGNED"}
      /\ export[j].rows \in SUBSET ExportRows
    BY DEF SnapshotInv, SnapshotsSigned
<1>4. DOMAIN call = Jobs
    BY DEF SnapshotInv, SnapshotsSigned
\* Steps that change neither an export nor a deletion.
<1>5. ASSUME UNCHANGED <<export, intents>>, DOMAIN call' = Jobs,
             envelope' = envelope \/ (envelope' = envelope \cup {j} /\ call[j].step = "sign"),
             \A k \in Jobs : call'[k].step = "sign" => call[k].step = "sign"
      PROVE  SnapshotInv' /\ Steady
    <2>1. SourceInv'
        BY <1>2, <1>5, SourceStands
    <2>2. SnapshotsSigned'
        BY <1>5 DEF SnapshotInv, SnapshotsSigned
    <2>3. SnapshotsSeen'
        BY <1>5 DEF SnapshotInv, SnapshotsSeen, Frozen, Written, Of, About
    <2>4. Steady
        BY <1>5 DEF Steady, Journal
    <2> QED BY <2>1, <2>2, <2>3, <2>4 DEF SnapshotInv
<1>6. CASE StartExport(j)
    <2>1. /\ export[j].status = "none" /\ UNCHANGED envelope
          /\ export' = [export EXCEPT ![j] = [export[j] EXCEPT !.status = "MATERIALIZING"]]
          /\ call' = [call EXCEPT ![j] = [step |-> "export", page |-> 1]]
        BY <1>3, <1>6 DEF StartExport
    <2>2. ASSUME NEW i \in Intents
          PROVE  /\ intents'[i] \in Intent /\ intents'[i].tenant = intents[i].tenant
                 /\ intents'[i].version = intents[i].version /\ intents'[i].state = intents[i].state
                 /\ intents'[i].removed = intents[i].removed /\ intents'[i].missed = intents[i].missed
                 /\ intents'[i].after = intents[i].after \ {j}
        <3>1. intents'[i] = [intents[i] EXCEPT !.after = intents[i].after \ {j}]
            BY <1>6 DEF StartExport
        <3>2. intents[i] \in Intent
            BY <1>2
        <3> QED BY <3>1, <3>2 DEF Intent
    <2>3. intents' \in [Intents -> Intent]
        BY <2>2, <1>6 DEF StartExport
    <2>4. SourceInv'
        BY <2>2, <2>3, <1>2, <1>6, SourceStands
    <2>5. /\ export'[j].status = "MATERIALIZING" /\ \A k \in Jobs : k # j => export'[k] = export[k]
          /\ export' \in [Jobs -> [status : {"none", "MATERIALIZING", "READY", "SIGNED"},
                                   rows : SUBSET ExportRows]]
        BY <2>1, <1>3
    <2>6. j \notin envelope /\ \A k \in Jobs : call'[k].step = "sign" => k # j /\ call[k].step = "sign"
        BY <2>1, <1>4 DEF SnapshotInv, SnapshotsSigned
    <2>7. SnapshotsSigned'
        BY <2>1, <2>5, <2>6, <1>4 DEF SnapshotInv, SnapshotsSigned
    <2>8. SnapshotsSeen'
        <3>1. ASSUME NEW k \in Jobs, NEW i \in Intents, Frozen(k)', Written(i)'
              PROVE  /\ intents'[i].state # "DELETED" => k \in intents'[i].missed
                     /\ \A r \in Of(export'[k].rows, "data") :
                            About(i, r)' => k \in intents'[i].after \/ k \in intents'[i].missed
            <4>1. k # j /\ Frozen(k) /\ Written(i) /\ export'[k] = export[k]
                BY <3>1, <2>2, <2>5 DEF Frozen, Written
            <4>2. \A r : About(i, r)' => About(i, r)
                BY <2>2 DEF About
            <4>3. /\ intents[i].state # "DELETED" => k \in intents[i].missed
                  /\ \A r \in Of(export[k].rows, "data") :
                        About(i, r) => k \in intents[i].after \/ k \in intents[i].missed
                BY <4>1 DEF SnapshotInv, SnapshotsSeen
            <4> QED BY <4>1, <4>2, <4>3, <2>2
        <3> QED BY <3>1 DEF SnapshotsSeen, Of, About
    <2>9. Steady
        <3>1. \A i \in Journal : i \in Intents
            BY DEF Journal
        <3>2. \A k \in envelope : k \in Jobs /\ k # j
            BY <2>6 DEF SnapshotInv, SnapshotsSigned
        <3> QED BY <3>1, <3>2, <2>1, <2>2, <2>5 DEF Steady, Journal
    <2> QED BY <2>4, <2>7, <2>8, <2>9 DEF SnapshotInv
<1>7. CASE Materialize(j)
    <2>1. /\ export[j].status = "MATERIALIZING" /\ UNCHANGED <<intents, envelope>>
        BY <1>7 DEF Materialize
    <2>2. /\ \/ /\ Exportable /\ export' = [export EXCEPT ![j] = [export[j] EXCEPT !.status = "READY", !.rows = RowsNow]]
             \/ export' = [export EXCEPT ![j] = NoExport]
          /\ \/ call' = [call EXCEPT ![j] = [step |-> "page", page |-> 1]]
             \/ call' = [call EXCEPT ![j] = NoCall]
        BY <1>3, <1>4, <1>7 DEF Materialize
    <2>3. RowsNow \in SUBSET ExportRows
        BY <1>2, RowsExported DEF SourceTypeOK
    <2>4. /\ \A k \in Jobs : k # j => export'[k] = export[k]
          /\ export' \in [Jobs -> [status : {"none", "MATERIALIZING", "READY", "SIGNED"},
                                   rows : SUBSET ExportRows]]
          /\ \/ export'[j].status = "none"
             \/ Exportable /\ export'[j].rows = RowsNow
        <3>1. NoExport \in [status : {"none", "MATERIALIZING", "READY", "SIGNED"}, rows : SUBSET ExportRows]
              /\ NoExport.status = "none"
            BY DEF NoExport
        <3> DEFINE row == [export[j] EXCEPT !.status = "READY", !.rows = RowsNow]
        <3>2. /\ row \in [status : {"none", "MATERIALIZING", "READY", "SIGNED"}, rows : SUBSET ExportRows]
              /\ row.rows = RowsNow
            BY <2>3, <1>3
        <3>3. \/ Exportable /\ export' = [export EXCEPT ![j] = row]
              \/ export' = [export EXCEPT ![j] = NoExport]
            BY <2>2
        <3> HIDE DEF row
        <3> QED BY <3>1, <3>2, <3>3, <1>3
    <2>5. /\ DOMAIN call' = Jobs /\ j \notin envelope
          /\ \A k \in Jobs : call'[k].step = "sign" => k # j /\ call[k].step = "sign"
        BY <2>1, <2>2, <1>4 DEF SnapshotInv, SnapshotsSigned, NoCall
    <2>6. SnapshotsSigned'
        BY <2>1, <2>4, <2>5 DEF SnapshotInv, SnapshotsSigned
    <2>7. SourceInv'
        BY <2>1, <1>2, SourceStands
    <2>8. SnapshotsSeen'
        <3>1. ASSUME NEW k \in Jobs, NEW i \in Intents, Frozen(k)', Written(i)
              PROVE  /\ intents[i].state # "DELETED" => k \in intents[i].missed
                     /\ \A r \in Of(export'[k].rows, "data") :
                            About(i, r) => k \in intents[i].after \/ k \in intents[i].missed
            <4>1. CASE k # j
                BY <3>1, <4>1, <2>4 DEF SnapshotInv, SnapshotsSeen, Frozen
            <4>2. CASE k = j
                <5>1. Exportable /\ export'[k].rows = RowsNow
                    BY <3>1, <4>2, <2>4 DEF Frozen
                <5>2. intents[i].state = "DELETED"
                    BY <3>1, <5>1 DEF Exportable, InTransition, Written
                <5>3. ASSUME NEW r \in Of(RowsNow, "data"), About(i, r) PROVE FALSE
                    <6>1. /\ r.tenant = intents[i].tenant /\ intents[i].tenant \in Tenants
                          /\ r.version = content[r.tenant] /\ content[r.tenant] # 0
                        BY <5>2, <5>3, <1>2, RowsExported
                        DEF Of, SourceTypeOK, About, SourceInv, IntentsAreSound
                    <6>2. /\ NumberIsOld(i) /\ NumbersGrow(r.tenant)
                          /\ IsFiniteSet(Cleared(r.tenant))
                        BY <5>2, <6>1, <1>2 DEF SourceInv, NumbersAreUsedOnce, NumbersGrow
                    <6>3. Cardinality(Cleared(r.tenant)) \in Nat
                        BY <6>2, FS_CardinalityType
                    <6>4. intents[i].version \in Nat /\ intents[i].removed \in Nat
                        BY <1>2 DEF Intent
                    <6> QED BY <5>2, <5>3, <6>1, <6>2, <6>3, <6>4 DEF NumberIsOld, NumbersGrow, About
                <5> QED BY <5>1, <5>2, <5>3
            <4> QED BY <4>1, <4>2
        <3>2. intents' = intents
            BY <2>1
        <3> QED BY <3>1, <3>2 DEF SnapshotsSeen, Of, Written, About
    <2>9. Steady
        <3>1. \A k \in envelope : k \in Jobs /\ k # j
            BY <2>5 DEF SnapshotInv, SnapshotsSigned
        <3> QED BY <3>1, <2>1, <2>4 DEF Steady, Journal
    <2> QED BY <2>6, <2>7, <2>8, <2>9 DEF SnapshotInv
<1>8. CASE ClaimSigning(j)
    <2> DEFINE row == [export[j] EXCEPT !.status = "SIGNED"]
    <2>1. /\ export[j].status = "READY" /\ UNCHANGED <<intents, envelope>>
          /\ export' = [export EXCEPT ![j] = row]
          /\ call' = [call EXCEPT ![j] = [step |-> "sign", page |-> 0]]
        BY <1>3, <1>8 DEF ClaimSigning
    <2>2. /\ row \in [status : {"none", "MATERIALIZING", "READY", "SIGNED"}, rows : SUBSET ExportRows]
          /\ row.status = "SIGNED" /\ row.rows = export[j].rows
        BY <1>3
    <2> HIDE DEF row
    <2>3. /\ export'[j] = row /\ \A k \in Jobs : k # j => export'[k] = export[k]
          /\ export' \in [Jobs -> [status : {"none", "MATERIALIZING", "READY", "SIGNED"},
                                   rows : SUBSET ExportRows]]
        BY <2>1, <2>2, <1>3
    <2>4. DOMAIN call' = Jobs /\ \A k \in Jobs : k # j => call'[k] = call[k]
        BY <2>1, <1>4
    <2>5. j \notin envelope
        BY <2>1 DEF SnapshotInv, SnapshotsSigned
    <2>6. SnapshotsSigned'
        BY <2>1, <2>2, <2>3, <2>4 DEF SnapshotInv, SnapshotsSigned
    <2>7. SourceInv'
        BY <2>1, <1>2, SourceStands
    <2>8. SnapshotsSeen'
        <3>1. \A k \in Jobs : export'[k].rows = export[k].rows /\ (Frozen(k)' => Frozen(k))
            BY <2>1, <2>2, <2>3 DEF Frozen
        <3> QED BY <3>1, <2>1 DEF SnapshotInv, SnapshotsSeen, Written, Of, About
    <2>9. Steady
        <3>1. \A k \in envelope : k \in Jobs /\ k # j
            BY <2>5 DEF SnapshotInv, SnapshotsSigned
        <3> QED BY <3>1, <2>1, <2>3 DEF Steady, Journal
    <2> QED BY <2>6, <2>7, <2>8, <2>9 DEF SnapshotInv
<1>9. CASE \/ \E p \in Pages : ReadBackupPage(j, p)
           \/ RecordPageEvidence(j) \/ StopWaiting(j)
    <2>1. /\ UNCHANGED <<export, intents, envelope>>
          /\ \/ \E p \in Pages : call' = [call EXCEPT ![j] = [step |-> "page", page |-> p]]
             \/ call' = [call EXCEPT ![j] = NoCall]
        BY <1>9 DEF ReadBackupPage, RecordPageEvidence, StopWaiting
    <2>2. DOMAIN call' = Jobs /\ \A k \in Jobs : call'[k].step = "sign" => call[k].step = "sign"
        BY <2>1, <1>4 DEF NoCall
    <2> QED BY <2>1, <2>2, <1>5
<1>10. CASE Seal(j)
    <2>1. UNCHANGED <<export, intents, envelope, call>>
        BY <1>10 DEF Seal
    <2> QED BY <2>1, <1>4, <1>5
<1>11. CASE SignManifest(j)
    <2>1. /\ UNCHANGED <<export, intents>> /\ envelope' = envelope \cup {j} /\ call[j].step = "sign"
          /\ call' = [call EXCEPT ![j] = NoCall]
        BY <1>11 DEF SignManifest
    <2>2. DOMAIN call' = Jobs /\ \A k \in Jobs : call'[k].step = "sign" => call[k].step = "sign"
        BY <2>1, <1>4 DEF NoCall
    <2> QED BY <2>1, <2>2, <1>5
<1> QED BY <1>6, <1>7, <1>8, <1>9, <1>10, <1>11

\* Steps of the new project and of the grant exchange.
LEMMA SnapshotStands ==
    ASSUME SnapshotInv, UNCHANGED <<content, intents, export, call, envelope>>
    PROVE  SnapshotInv' /\ Steady
<1>1. SourceInv'
    BY SourceStands DEF SnapshotInv, SourceInv, SourceTypeOK
<1>2. SnapshotsSigned' /\ SnapshotsSeen'
    BY DEF SnapshotInv, SnapshotsSigned, SnapshotsSeen, Frozen, Written, Of, About
<1>3. Steady
    BY DEF Steady, Journal
<1> QED BY <1>1, <1>2, <1>3 DEF SnapshotInv

----------------------------------------------------------------------------
(* The new project.                                                        *)

RunStates == {"none", "STAGING", "AWAITING_OWNER_CLAIMS", "PUBLISHABLE", "NOT_READY",
              "PUBLISHED", "QUARANTINED"}
Reasons == {"none", "EXTERNAL_JOURNAL_PROOF_MISSING", "TARGET_PROJECT_NOT_EMPTY",
            "CROSS_TENANT_REFERENCE", "PUBLISH_TRANSACTION_ROLLED_BACK"}
Run == [state : RunStates, reason : Reasons, job : Jobs \cup {None}, received : SUBSET Pages,
        suppressed : SUBSET (Tenants \cup {None}), verified : BOOLEAN, graph : BOOLEAN,
        events : SUBSET Intents]
OwnerClaim == [state : {"none", "PENDING_INVITE", "INVITED", "CLAIMED"}, generation : Nat,
               user : Users \cup {None}]

RecoveryTypeOK == run \in Run /\ claim \in [Tenants -> OwnerClaim] /\ inhabited \in BOOLEAN

\* A run is about a signed snapshot and events of the journal; owners claim
\* their own tenant; nothing is in the project before it is published.
RecoverySound ==
    /\ run.state # "none" => run.job \in envelope
    /\ proof.events \subseteq Journal /\ run.events \subseteq Journal
    /\ run.graph => run.state # "none" /\ GraphValid(Snapshot.rows)
    /\ \A t \in Tenants : claim[t].state = "CLAIMED" => claim[t].user = t
    /\ run.state # "PUBLISHED" => target = {}

RecoveryInv == RecoveryTypeOK /\ RecoverySound /\ RestoredExactly
BackupInv == SnapshotInv /\ RecoveryInv

\* At first the empty project has nothing to agree with a snapshot.
LEMMA RecoveryInit == Init => RecoveryInv
<1> SUFFICES ASSUME Init PROVE RecoveryInv OBVIOUS
<1>1. RecoveryTypeOK
    BY DEF Init, RecoveryTypeOK, NoRun, NoClaim, Run, RunStates, Reasons, OwnerClaim
<1>2. RecoverySound /\ RestoredExactly
    BY DEF Init, RecoverySound, RestoredExactly, NoRun, NoClaim, NoProof
<1> QED BY <1>1, <1>2 DEF RecoveryInv

\* Neither users nor backups move what a run stands on.
LEMMA RecoveryStands ==
    ASSUME BackupInv, Steady, UNCHANGED <<proof, recovery>>
    PROVE  RecoveryInv'
<1>1. UNCHANGED <<run, claim, inhabited, target>>
    BY DEF recovery
<1>2. /\ run.state # "none" => run.job \in envelope
      /\ run.events \subseteq Journal /\ proof.events \subseteq Journal
    BY DEF BackupInv, RecoveryInv, RecoverySound
<1>3. run.state # "none" => Snapshot' = Snapshot /\ run.job \in envelope'
    BY <1>1, <1>2 DEF Steady, Snapshot
<1>4. RecoveryTypeOK'
    BY <1>1 DEF BackupInv, RecoveryInv, RecoveryTypeOK
<1>5. RecoverySound'
    <2>1. proof'.events \subseteq Journal' /\ run'.events \subseteq Journal'
        BY <1>1, <1>2 DEF Steady
    <2>2. run.graph => GraphValid(Snapshot.rows)' /\ run.state # "none"
        BY <1>3 DEF BackupInv, RecoveryInv, RecoverySound, GraphValid, TenantsOf, Of
    <2> QED BY <2>1, <2>2, <1>1, <1>3 DEF BackupInv, RecoveryInv, RecoverySound
<1>6. RestoredExactly'
    <2>1. CASE run.state # "PUBLISHED"
        BY <2>1, <1>1 DEF RestoredExactly
    <2>2. CASE run.state = "PUBLISHED"
        <3>1. \A i \in run.events : /\ intents'[i].tenant = intents[i].tenant
                                    /\ run.job \in intents'[i].after <=> run.job \in intents[i].after
            BY <2>2, <1>2 DEF Steady
        <3> QED BY <2>2, <3>1, <1>1, <1>3 DEF BackupInv, RecoveryInv, RestoredExactly
    <2> QED BY <2>1, <2>2
<1> QED BY <1>4, <1>5, <1>6 DEF RecoveryInv

\* Before the publication a run may move as it likes, about the same snapshot
\* and events.
LEMMA RunMoves ==
    ASSUME BackupInv, UNCHANGED <<source, backup, proof, target>>, RecoveryTypeOK',
           run.state \notin {"none", "PUBLISHED"}, run'.state \notin {"none", "PUBLISHED"},
           run'.job = run.job, run'.events = run.events,
           run'.graph => run.graph \/ GraphValid(Snapshot.rows),
           \A t \in Tenants : claim'[t].state = "CLAIMED" => claim'[t].user = t
    PROVE  RecoveryInv'
<1>1. UNCHANGED <<intents, export, envelope>>
    BY DEF source, backup
<1>2. Snapshot' = Snapshot /\ Journal' = Journal
    BY <1>1 DEF Snapshot, Journal
<1>3. GraphValid(Snapshot.rows)' <=> GraphValid(Snapshot.rows)
    BY <1>2 DEF GraphValid, TenantsOf, Of
<1>4. RecoverySound'
    BY <1>1, <1>2, <1>3 DEF BackupInv, RecoveryInv, RecoverySound
<1>5. RestoredExactly'
    BY DEF RestoredExactly
<1> QED BY <1>4, <1>5 DEF RecoveryInv

\* The steps of the operator and of the owners that publish nothing.
LEMMA StagingKept ==
    ASSUME BackupInv,
           \/ ReadJournalProof
           \/ \E by \in Operators, j \in Jobs, f \in BOOLEAN : ClaimRestore(by, j, f)
           \/ \E by \in Operators, p \in Pages : StageBatch(by, p)
           \/ Admit
    PROVE  RecoveryInv'
<1>1. /\ run \in Run /\ claim \in [Tenants -> OwnerClaim] /\ inhabited \in BOOLEAN
      /\ RecoverySound /\ RestoredExactly
    BY DEF BackupInv, RecoveryInv, RecoveryTypeOK
<1>2. UNCHANGED <<source, backup>>
    BY DEF ReadJournalProof, ClaimRestore, StageBatch, Admit, RestoreStep, RecoveryStep
<1>3. UNCHANGED <<intents, export, envelope>>
    BY <1>2 DEF source, backup
<1>4. /\ run' = run => Snapshot' = Snapshot
      /\ Journal' = Journal
    BY <1>3 DEF Snapshot, Journal
<1>5. CASE ReadJournalProof
    <2>1. UNCHANGED <<run, claim, inhabited, target>> /\ proof'.events = Journal
        BY <1>5 DEF ReadJournalProof, recovery
    <2>2. RecoveryTypeOK'
        BY <2>1, <1>1 DEF RecoveryTypeOK
    <2>3. run.graph => GraphValid(Snapshot.rows)' /\ run.state # "none"
        BY <2>1, <1>1, <1>4 DEF RecoverySound, GraphValid, TenantsOf, Of
    <2>4. RecoverySound'
        BY <2>1, <2>3, <1>1, <1>3, <1>4 DEF RecoverySound
    <2>5. RestoredExactly'
        BY <2>1, <1>1, <1>3, <1>4 DEF RestoredExactly
    <2> QED BY <2>2, <2>4, <2>5 DEF RecoveryInv
<1>6. CASE \E by \in Operators, j \in Jobs, f \in BOOLEAN : ClaimRestore(by, j, f)
    <2>1. PICK by \in Operators, j \in Jobs, f \in BOOLEAN : ClaimRestore(by, j, f)
        BY <1>6
    <2> DEFINE accepted == f /\ ~LiveTarget
               reason == CASE accepted -> "none"
                           [] ~f -> "EXTERNAL_JOURNAL_PROOF_MISSING"
                           [] OTHER -> "TARGET_PROJECT_NOT_EMPTY"
               state == IF accepted THEN "STAGING" ELSE "QUARANTINED"
    <2>2. /\ j \in envelope /\ run.state = "none" /\ UNCHANGED <<claim, inhabited, target, proof>>
          /\ run' = [NoRun EXCEPT !.state = state, !.reason = reason, !.job = j,
                                  !.verified = accepted, !.events = proof.events]
        BY <2>1 DEF ClaimRestore, RestoreStep
    <2>3. accepted \in BOOLEAN /\ reason \in Reasons /\ state \in RunStates /\ state \notin {"none", "PUBLISHED"}
        BY DEF Reasons, RunStates
    <2> HIDE DEF accepted, reason, state
    <2>4. proof.events \subseteq Journal /\ proof.events \in SUBSET Intents /\ target = {}
        BY <2>2, <1>1 DEF RecoverySound, Journal
    <2>5. run' \in Run /\ run'.state = state /\ run'.job = j /\ run'.events = proof.events /\ run'.graph = FALSE
        BY <2>2, <2>3, <2>4 DEF NoRun, Run
    <2>6. RecoverySound' /\ RestoredExactly'
        BY <2>2, <2>3, <2>4, <2>5, <1>1, <1>3, <1>4 DEF RecoverySound, RestoredExactly
    <2> QED BY <2>2, <2>5, <2>6, <1>1 DEF RecoveryInv, RecoveryTypeOK
<1>7. CASE \E by \in Operators, p \in Pages : StageBatch(by, p)
    <2>1. PICK by \in Operators, p \in Pages : StageBatch(by, p)
        BY <1>7
    <2>2. /\ run.state \in {"STAGING", "NOT_READY"} /\ UNCHANGED <<inhabited, target, proof>>
        BY <2>1 DEF StageBatch, RestoreStep
    <2>3. CASE run.received \cup {p} # Pages
        <3>1. run' = [run EXCEPT !.received = run.received \cup {p}] /\ UNCHANGED claim
            BY <2>1, <2>3 DEF StageBatch
        <3>2. run.received \cup {p} \in SUBSET Pages
            BY <1>1 DEF Run
        <3>3. /\ run' \in Run /\ run'.state = run.state /\ run'.job = run.job
              /\ run'.events = run.events /\ run'.graph = run.graph
            BY <3>1, <3>2, <1>1 DEF Run
        <3> QED BY <2>2, <3>1, <3>3, <1>1, <1>2, RunMoves DEF RecoveryTypeOK, RecoverySound
    <2>4. CASE run.received \cup {p} = Pages
        <3> DEFINE state == IF GraphValid(Snapshot.rows) /\ Survivors # {}
                            THEN "AWAITING_OWNER_CLAIMS" ELSE "QUARANTINED"
                   reason == IF GraphValid(Snapshot.rows) THEN "none" ELSE "CROSS_TENANT_REFERENCE"
        <3>1. run' = [run EXCEPT !.received = Pages, !.suppressed = Suppressed,
                                 !.graph = GraphValid(Snapshot.rows), !.state = state, !.reason = reason]
            BY <2>1, <2>4 DEF StageBatch
        <3>2. state \in RunStates /\ state \notin {"none", "PUBLISHED"} /\ reason \in Reasons
            BY DEF RunStates, Reasons
        <3>3. GraphValid(Snapshot.rows) \in BOOLEAN
            BY DEF GraphValid
        <3>4. Suppressed \in SUBSET (Tenants \cup {None})
            <4>1. run.events \subseteq Intents
                BY <1>1 DEF Run
            <4> QED BY <4>1 DEF Suppressed, Deleted, BackupInv, SnapshotInv, SourceInv, SourceTypeOK, Intent
        <3> HIDE DEF state, reason
        <3>5. /\ run' \in Run /\ run'.state = state /\ run'.job = run.job
              /\ run'.events = run.events /\ (run'.graph => GraphValid(Snapshot.rows))
            BY <3>1, <3>2, <3>3, <3>4, <1>1 DEF Run
        <3>6. claim' = claim
              \/ claim' = [t \in Tenants |-> IF t \in Survivors
                             THEN [NoClaim EXCEPT !.state = "PENDING_INVITE"] ELSE NoClaim]
            BY <2>1, <2>4 DEF StageBatch
        <3>7. /\ [NoClaim EXCEPT !.state = "PENDING_INVITE"] \in OwnerClaim /\ NoClaim \in OwnerClaim
              /\ [NoClaim EXCEPT !.state = "PENDING_INVITE"].state # "CLAIMED" /\ NoClaim.state # "CLAIMED"
            BY DEF NoClaim, OwnerClaim
        <3>8. /\ claim' \in [Tenants -> OwnerClaim]
              /\ \A t \in Tenants : claim'[t].state = "CLAIMED" => claim'[t].user = t
            BY <3>6, <3>7, <1>1 DEF RecoverySound
        <3> QED BY <2>2, <3>2, <3>5, <3>8, <1>1, <1>2, RunMoves DEF RecoveryTypeOK
    <2> QED BY <2>3, <2>4
<1>8. CASE Admit
    <2>1. UNCHANGED <<run, claim, target, proof>> /\ inhabited' = TRUE /\ run.state # "PUBLISHED"
        BY <1>8 DEF Admit, Watched, RestoreStep
    <2>2. run.graph => GraphValid(Snapshot.rows)' /\ run.state # "none"
        BY <2>1, <1>1, <1>4 DEF RecoverySound, GraphValid, TenantsOf, Of
    <2>3. RecoverySound' /\ RestoredExactly'
        BY <2>1, <2>2, <1>1, <1>3, <1>4 DEF RecoverySound, RestoredExactly
    <2> QED BY <2>1, <2>3, <1>1 DEF RecoveryInv, RecoveryTypeOK
<1> QED BY <1>5, <1>6, <1>7, <1>8

\* An owner who claims moves the run at most to PUBLISHABLE.
LEMMA OwnersKept ==
    ASSUME BackupInv,
           \/ \E by \in Operators, t \in Tenants : IssueOwnerInvite(by, t)
           \/ \E u \in Users, t \in Tenants, g \in 1..MaxInvites : ClaimOwner(u, t, g)
           \/ \E u \in Users : RecoverOwner(u)
    PROVE  RecoveryInv'
<1>1. /\ run \in Run /\ claim \in [Tenants -> OwnerClaim] /\ inhabited \in BOOLEAN
      /\ RecoverySound /\ RestoredExactly
    BY DEF BackupInv, RecoveryInv, RecoveryTypeOK
<1>2. UNCHANGED <<source, backup, inhabited, target, proof>>
    BY DEF IssueOwnerInvite, ClaimOwner, RecoverOwner, RestoreStep, RecoveryStep
<1>3. /\ claim' \in [Tenants -> OwnerClaim]
      /\ \A t \in Tenants : claim'[t].state = "CLAIMED" => claim'[t].user = t
    <2>1. PICK t \in Tenants, row \in OwnerClaim :
            claim' = [claim EXCEPT ![t] = row] /\ (row.state = "CLAIMED" => row.user = t)
        <3>1. ASSUME NEW t \in Tenants, NEW by, IssueOwnerInvite(by, t)
              PROVE  \E row \in OwnerClaim : claim' = [claim EXCEPT ![t] = row] /\ row.state # "CLAIMED"
            <4> DEFINE row == [claim[t] EXCEPT !.state = "INVITED", !.generation = claim[t].generation + 1]
            <4>1. claim[t] \in OwnerClaim
                BY <1>1
            <4>2. row \in OwnerClaim /\ row.state = "INVITED"
                <5>1. claim[t].generation + 1 \in Nat
                    BY <4>1 DEF OwnerClaim
                <5> QED BY <4>1, <5>1 DEF OwnerClaim
            <4>3. claim' = [claim EXCEPT ![t] = row]
                BY <3>1, <4>1 DEF IssueOwnerInvite
            <4> HIDE DEF row
            <4> QED BY <4>2, <4>3
        <3>2. ASSUME NEW t \in Tenants, NEW u \in Users, u = t, claim' = Claimed(t, u)
              PROVE  \E row \in OwnerClaim : claim' = [claim EXCEPT ![t] = row] /\ row.user = t
            <4> DEFINE row == [claim[t] EXCEPT !.state = "CLAIMED", !.user = u]
            <4>1. claim[t] \in OwnerClaim
                BY <1>1
            <4>2. row \in OwnerClaim /\ row.user = t
                BY <3>2, <4>1 DEF OwnerClaim
            <4>3. claim' = [claim EXCEPT ![t] = row]
                BY <3>2, <4>1 DEF Claimed
            <4> HIDE DEF row
            <4> QED BY <4>2, <4>3
        <3>3. CASE \E by \in Operators, t \in Tenants : IssueOwnerInvite(by, t)
            BY <3>1, <3>3
        <3>4. CASE ~ \E by \in Operators, t \in Tenants : IssueOwnerInvite(by, t)
            <4>1. \E t \in Tenants, u \in Users : u = t /\ claim' = Claimed(t, u)
                BY <3>4 DEF ClaimOwner, RecoverOwner, TagMatches
            <4> QED BY <4>1, <3>2
        <3> QED BY <3>3, <3>4
    <2> QED BY <2>1, <1>1 DEF RecoverySound
<1>4. \/ run' = run
      \/ /\ run.state = "AWAITING_OWNER_CLAIMS"
         /\ run' = [run EXCEPT !.state = "PUBLISHABLE", !.reason = "none"]
    BY DEF IssueOwnerInvite, ClaimOwner, RecoverOwner, RunAfter
<1>5. CASE run' = run
    <2>1. UNCHANGED <<intents, export, envelope>>
        BY <1>2 DEF source, backup
    <2>2. Snapshot' = Snapshot /\ Journal' = Journal
        BY <2>1, <1>5 DEF Snapshot, Journal
    <2>3. run.graph => GraphValid(Snapshot.rows)' /\ run.state # "none"
        BY <2>2, <1>1 DEF RecoverySound, GraphValid, TenantsOf, Of
    <2>4. RecoverySound' /\ RestoredExactly'
        BY <2>1, <2>2, <2>3, <1>1, <1>2, <1>3, <1>5 DEF RecoverySound, RestoredExactly
    <2> QED BY <2>4, <1>1, <1>2, <1>3, <1>5 DEF RecoveryInv, RecoveryTypeOK
<1>6. CASE /\ run.state = "AWAITING_OWNER_CLAIMS"
           /\ run' = [run EXCEPT !.state = "PUBLISHABLE", !.reason = "none"]
    <2>1. /\ run' \in Run /\ run'.state = "PUBLISHABLE" /\ run'.job = run.job
          /\ run'.events = run.events /\ run'.graph = run.graph
        BY <1>1, <1>6 DEF Run, RunStates, Reasons
    <2> QED BY <2>1, <1>1, <1>2, <1>3, <1>6, RunMoves DEF RecoveryTypeOK
<1> QED BY <1>4, <1>5, <1>6

\* A publication that nothing blocks restores the snapshot without the tenants
\* that the final proof deletes.
LEMMA PublishKept ==
    ASSUME BackupInv, NEW by \in Operators, NEW f \in BOOLEAN,
           NEW c \in {"unknown", "blocked", "allowed"}, Publish(by, f, c)
    PROVE  RecoveryInv'
<1>1. /\ run \in Run /\ claim \in [Tenants -> OwnerClaim] /\ inhabited \in BOOLEAN
      /\ RecoverySound /\ RestoredExactly
    BY DEF BackupInv, RecoveryInv, RecoveryTypeOK
<1>2. /\ UNCHANGED <<source, backup, inhabited, claim, proof>>
      /\ run.state \notin {"none", "PUBLISHED"}
    BY DEF Publish, RestoreStep, RecoveryStep
<1>3. UNCHANGED <<intents, export, envelope>>
    BY <1>2 DEF source, backup
<1>4. CASE Blocking(f, c) # "none" \/ ~LineageComplete(Final(proof.events))
    <2>1. PICK s \in {"QUARANTINED", "NOT_READY"}, reason \in Reasons :
            /\ run' = [run EXCEPT !.state = s, !.reason = reason]
            /\ UNCHANGED target
        <3>1. CASE Blocking(f, c) = "none"
            BY <1>4, <3>1 DEF Publish, Published, Reasons
        <3>2. CASE Blocking(f, c) # "none"
            <4>1. /\ UNCHANGED target
                  /\ \/ run' = [run EXCEPT !.state = "QUARANTINED", !.reason = "TARGET_PROJECT_NOT_EMPTY"]
                     \/ run' = [run EXCEPT !.state = "NOT_READY"]
                BY <3>2 DEF Publish
            <4>2. [run EXCEPT !.state = "NOT_READY"] = [run EXCEPT !.state = "NOT_READY", !.reason = run.reason]
                  /\ run.reason \in Reasons
                BY <1>1 DEF Run
            <4> QED BY <4>1, <4>2 DEF Reasons
        <3> QED BY <3>1, <3>2
    <2>2. /\ run' \in Run /\ run'.state = s /\ run'.job = run.job
          /\ run'.events = run.events /\ run'.graph = run.graph
        BY <2>1, <1>1 DEF Run, RunStates
    <2> QED BY <2>1, <2>2, <1>1, <1>2, RunMoves DEF RecoveryTypeOK, RecoverySound
<1>5. CASE Blocking(f, c) = "none" /\ LineageComplete(Final(proof.events))
    <2> DEFINE gone == Deleted(proof.events, run.job)
    <2>1. /\ run.graph /\ ~inhabited
          /\ {t \in TenantsOf(Snapshot.rows) \ gone : claim[t].state # "CLAIMED"} = {}
        BY <1>5 DEF Blocking, LiveTarget
    <2>2. /\ target' = {Restored(r) : r \in {s \in Snapshot.rows : s.tenant \notin gone}}
          /\ run' = [run EXCEPT !.state = "PUBLISHED", !.reason = "none", !.suppressed = gone,
                                !.events = proof.events]
        BY <1>5 DEF Publish, Published, Final
    <2>3. /\ run.job \in envelope /\ run.job \in Jobs /\ Snapshot.rows \in SUBSET ExportRows
          /\ GraphValid(Snapshot.rows) /\ proof.events \subseteq Journal /\ Journal \subseteq Intents
        BY <2>1, <1>1 DEF RecoverySound, Snapshot, BackupInv, SnapshotInv, SnapshotsSigned, Journal
    <2>4. gone \in SUBSET (Tenants \cup {None})
        BY <2>3 DEF Deleted, BackupInv, SnapshotInv, SourceInv, SourceTypeOK, Intent
    <2> HIDE DEF gone
    <2>5. /\ run' \in Run /\ run'.state = "PUBLISHED" /\ run'.job = run.job
          /\ run'.events = proof.events /\ run'.graph = run.graph
        BY <2>2, <2>3, <2>4, <1>1 DEF Run, RunStates, Reasons
    <2>6. Snapshot' = Snapshot /\ Journal' = Journal
        BY <2>5, <1>3 DEF Snapshot, Journal
    <2>7. GraphValid(Snapshot.rows)'
        BY <2>3, <2>6 DEF GraphValid, TenantsOf, Of
    <2>8. RecoverySound'
        BY <2>3, <2>5, <2>6, <2>7, <1>1, <1>2, <1>3 DEF RecoverySound
    <2>9. ASSUME NEW r \in Snapshot.rows, r.tenant \notin gone
          PROVE  Restored(r) = [row |-> r, owner |-> r.tenant]
        <3>1. r.tenant \in TenantsOf(Snapshot.rows) /\ r.tenant \in Tenants
            BY <2>3 DEF GraphValid, ExportRows
        <3>2. claim[r.tenant].user = r.tenant
            BY <3>1, <2>1, <2>9, <1>1 DEF RecoverySound
        <3> QED BY <3>2 DEF Restored
    <2>10. \A r \in Snapshot.rows :
             r.tenant \in gone <=> \E i \in proof.events : /\ intents[i].tenant = r.tenant
                                                           /\ run.job \in intents[i].after
        BY DEF gone, Deleted
    <2>11. RestoredExactly'
        BY <2>1, <2>2, <2>5, <2>6, <2>9, <2>10, <1>2, <1>3 DEF RestoredExactly
    <2> QED BY <2>5, <2>8, <2>11, <1>1, <1>2 DEF RecoveryInv, RecoveryTypeOK
<1> QED BY <1>4, <1>5

\* Every step of users, deletions, backups and recoveries keeps the invariant.
LEMMA BackupInvStep == BackupInv /\ [Next]_vars => BackupInv'
<1> SUFFICES ASSUME BackupInv, [Next]_vars PROVE BackupInv' OBVIOUS
<1>1. SnapshotInv
    BY DEF BackupInv
<1>2. CASE \/ \E t \in Tenants : Connect(t)
           \/ \E t \in Tenants : Disconnect(t)
           \/ \E i \in Intents, t \in Tenants : StartDeletion(i, t)
           \/ \E i \in Intents : CreateDeletionIntent(i)
           \/ \E i \in Intents : AppendDeletionEvent(i)
           \/ \E i \in Intents : AttestDeletionJournal(i)
           \/ \E i \in Intents, o \in {"DELETE_BUSINESS_DATA", "DELETE_ACCOUNT"} :
                    ExecuteDeletion(i, o)
    <2>1. UNCHANGED <<proof, recovery>>
        BY <1>2 DEF Connect, Disconnect, StartDeletion, CreateDeletionIntent, AppendDeletionEvent,
                    AttestDeletionJournal, ExecuteDeletion, SourceStep
    <2>2. SnapshotInv' /\ Steady
        BY <1>1, <1>2, UserStep
    <2> QED BY <2>1, <2>2, RecoveryStands DEF BackupInv
<1>3. ASSUME NEW j \in Jobs,
             \/ StartExport(j) \/ Materialize(j) \/ \E p \in Pages : ReadBackupPage(j, p)
             \/ RecordPageEvidence(j) \/ Seal(j) \/ ClaimSigning(j) \/ SignManifest(j)
             \/ StopWaiting(j)
      PROVE  BackupInv'
    <2>1. UNCHANGED <<proof, recovery>>
        BY <1>3 DEF StartExport, Materialize, ReadBackupPage, RecordPageEvidence, Seal,
                    ClaimSigning, SignManifest, StopWaiting, BackupStep
    <2>2. SnapshotInv' /\ Steady
        BY <1>1, <1>3, BackupRows
    <2> QED BY <2>1, <2>2, RecoveryStands DEF BackupInv
<1>4. ASSUME RecoveryInv', UNCHANGED <<source, backup>> PROVE BackupInv'
    <2>1. UNCHANGED <<content, intents, export, call, envelope>>
        BY <1>4 DEF source, backup
    <2> QED BY <2>1, <1>1, <1>4, SnapshotStands DEF BackupInv
<1>5. CASE \/ ReadJournalProof
           \/ \E by \in Operators, j \in Jobs, f \in BOOLEAN : ClaimRestore(by, j, f)
           \/ \E by \in Operators, p \in Pages : StageBatch(by, p)
           \/ Admit
    <2>1. UNCHANGED <<source, backup>>
        BY <1>5 DEF ReadJournalProof, ClaimRestore, StageBatch, Admit, RestoreStep, RecoveryStep
    <2> QED BY <2>1, <1>4, <1>5, StagingKept
<1>6. CASE \/ \E by \in Operators, t \in Tenants : IssueOwnerInvite(by, t)
           \/ \E u \in Users, t \in Tenants, g \in 1..MaxInvites : ClaimOwner(u, t, g)
           \/ \E u \in Users : RecoverOwner(u)
    <2>1. UNCHANGED <<source, backup>>
        BY <1>6 DEF IssueOwnerInvite, ClaimOwner, RecoverOwner, RestoreStep, RecoveryStep
    <2> QED BY <2>1, <1>4, <1>6, OwnersKept
<1>7. ASSUME NEW by \in Operators, NEW f \in BOOLEAN, NEW c \in {"unknown", "blocked", "allowed"},
             Publish(by, f, c)
      PROVE  BackupInv'
    <2>1. UNCHANGED <<source, backup>>
        BY <1>7 DEF Publish, RestoreStep, RecoveryStep
    <2> QED BY <2>1, <1>4, <1>7, PublishKept
<1>8. CASE GrantStep \/ UNCHANGED vars
    <2>1. UNCHANGED <<source, backup, proof, recovery>>
        BY <1>8 DEF GrantStep, vars
    <2>2. UNCHANGED <<content, intents, export, call, envelope>>
        BY <2>1 DEF source, backup
    <2> QED BY <2>1, <2>2, <1>1, SnapshotStands, RecoveryStands DEF BackupInv
<1> QED BY <1>2, <1>3, <1>5, <1>6, <1>7, <1>8 DEF Next

\* So it holds always.
LEMMA BackupInvHolds == Spec => []BackupInv
<1>1. Init => BackupInv
    BY SnapshotInit, RecoveryInit DEF BackupInv
<1> QED BY <1>1, BackupInvStep, PTL DEF Spec

\* A published run holds every row of every tenant of its snapshot that was not
\* deleted since, each with the user whose verified email owned it, and nothing
\* else, in a project nobody lives in (publish_restore_v2).
THEOREM RestoresAreExact == Spec => []RestoredExactly
<1>1. BackupInv => RestoredExactly
    BY DEF BackupInv, RecoveryInv
<1> QED BY <1>1, BackupInvHolds, PTL

\* Data that a deletion in the final journal proof was about is not restored,
\* unless the deletion's statement straddled the export.
THEOREM DeletedDataStaysGone == Spec => []DeletedStaysGone
<1>1. BackupInv => DeletedStaysGone
    <2> SUFFICES ASSUME BackupInv, NEW i \in run.events, NEW r \in target,
                        r.row.dataset = "data", Returned(r, i)
                 PROVE  Straddles(i)
        BY DEF DeletedStaysGone
    <2>1. RecoverySound /\ RestoredExactly /\ SnapshotsSigned /\ SnapshotsSeen
        BY DEF BackupInv, RecoveryInv, SnapshotInv
    <2>2. run.state = "PUBLISHED" /\ run.job \in envelope /\ i \in Journal
        BY <2>1 DEF RecoverySound
    <2>3. r.row \in Snapshot.rows /\ run.job \notin intents[i].after
        BY <2>1, <2>2 DEF RestoredExactly, Returned
    <2>4. run.job \in Jobs /\ Frozen(run.job) /\ i \in Intents /\ Written(i)
        BY <2>1, <2>2 DEF SnapshotsSigned, Frozen, Journal, Written
    <2>5. r.row \in Of(export[run.job].rows, "data")
        BY <2>3 DEF Of, Snapshot
    <2> QED BY <2>1, <2>3, <2>4, <2>5 DEF SnapshotsSeen, Returned, About, Straddles
<1> QED BY <1>1, BackupInvHolds, PTL

================================================================================
