--------------------------- MODULE OperationsGrants ---------------------------
(***************************************************************************)
(* How a job of a GitHub workflow run gets its grant from the              *)
(* beta-operations function: it presents an OIDC assertion, the function   *)
(* verifies it, the database records the run attempt, and a grant (with R2 *)
(* credentials for a backup) is issued, signed by the function and kept    *)
(* nowhere.  Every step may be the last: the deadline of the function, or  *)
(* a connection that breaks, leaves the record without the grant.          *)
(***************************************************************************)
CONSTANTS
    Jobs,       \* jobs, one per run attempt
    Capability  \* the capability each job asks for

ASSUME GrantsAssumption ==
    Capability \in [Jobs -> {"beta-backup", "beta-archive", "beta-capacity-observe",
                             "beta-restore"}]

VARIABLES
    assertion, \* the OIDC assertion of each job: valid or expired
    claimed,   \* run attempts in rv2_ops_oidc_claims
    exchange,  \* where each job is in the exchange
    grant      \* the grant each runner holds

grantVars == <<assertion, claimed, exchange, grant>>

\* Capabilities the database records a claim for.
ClaimedCapabilities == {"beta-backup", "beta-archive", "beta-capacity-observe"}

GrantsInit ==
    /\ assertion = [j \in Jobs |-> "valid"]
    /\ claimed = {}
    /\ exchange = [j \in Jobs |-> "none"]
    /\ grant = [j \in Jobs |-> "none"]

\* The assertion is verified against the policy of the capability it asks for,
\* and its run attempt is recorded unless it was before.
Claimable(j) == Capability[j] \in ClaimedCapabilities /\ j \notin claimed

ClaimOidcJti(j) ==
    /\ exchange[j] \in {"none", "failed"} /\ assertion[j] = "valid"
    /\ claimed' = IF Claimable(j) THEN claimed \cup {j} ELSE claimed
    /\ exchange' = [exchange EXCEPT ![j] = IF Claimable(j) THEN "claimed" ELSE "refused"]
    /\ UNCHANGED <<assertion, grant>>

\* A grant lives no longer than the assertion, and may ask for less.
IssueGrant(j) ==
    /\ exchange[j] = "claimed" /\ assertion[j] = "valid"
    /\ exchange' = [exchange EXCEPT ![j] = "granted"]
    /\ grant' = [grant EXCEPT ![j] = "live"]
    /\ UNCHANGED <<assertion, claimed>>

\* The deadline, R2 credentials that were not minted, an answer that was lost.
ExchangeFails(j) ==
    /\ exchange[j] = "claimed"
    /\ exchange' = [exchange EXCEPT ![j] = "failed"]
    /\ UNCHANGED <<assertion, claimed, grant>>

\* Mutant: a grant has its own lifetime only.
LapsedByItself(g) == g
\* A grant ends with its assertion at the latest.
Lapsed(g) == IF g = "live" THEN "expired" ELSE g

GrantExpires(j) ==
    /\ grant[j] = "live"
    /\ grant' = [grant EXCEPT ![j] = "expired"]
    /\ UNCHANGED <<assertion, claimed, exchange>>

AssertionExpires(j) ==
    /\ assertion[j] = "valid"
    /\ assertion' = [assertion EXCEPT ![j] = "expired"]
    /\ grant' = [grant EXCEPT ![j] = Lapsed(@)]
    /\ UNCHANGED <<claimed, exchange>>

GrantsNext ==
    \/ \E j \in Jobs : ClaimOidcJti(j)
    \/ \E j \in Jobs : IssueGrant(j)
    \/ \E j \in Jobs : ExchangeFails(j)
    \/ \E j \in Jobs : GrantExpires(j)
    \/ \E j \in Jobs : AssertionExpires(j)

GrantsSpec == GrantsInit /\ [][GrantsNext]_grantVars

\* A route verifies the grant before it reads the request; the database looks
\* for a claim of the run attempt that has not expired.
Authorized(j, capability) == Capability[j] = capability /\ grant[j] = "live"
ClaimLive(j) == j \in claimed /\ assertion[j] = "valid"

\* A grant in use stands on a recorded run attempt of a capability the database
\* knows, and on an assertion that has not expired: what the database checks
\* again on every call agrees with the token the runner carries.
LiveGrantsAreRecorded ==
    \A j \in Jobs : grant[j] = "live" =>
        ClaimLive(j) /\ Capability[j] \in ClaimedCapabilities

================================================================================
