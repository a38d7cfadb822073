--------------------------- MODULE AccountDeletion ---------------------------
(***************************************************************************)
(* Deleting a workspace, the business data or the whole account of one     *)
(* user: the browser's recovery capabilities, the Edge function's chain of *)
(* steps, and what each step leaves in the database, in the R2 journal and *)
(* in Auth.                                                                *)
(*                                                                         *)
(* Every step of the Edge function is a transaction of its own.  The       *)
(* function may stop before any of them, and the browser may stop          *)
(* listening at any time while the function goes on.  The user retries     *)
(* with the same capability, or asks for the status.                       *)
(*                                                                         *)
(* Items are encrypted workspaces and exchange connections with all that   *)
(* hangs from them; an item that was removed never comes back under the    *)
(* same name.                                                              *)
(***************************************************************************)
EXTENDS Integers, FiniteSets, Sequences

CONSTANTS
    Workspaces,
    Connections,
    MaxRequests, \* recovery capabilities the browser creates
    MaxCalls,    \* requests sent to the Edge function
    MaxMoves,    \* steps of the user and of time between them
    None

ASSUME DeletionAssumption ==
    /\ MaxRequests \in Nat /\ MaxCalls \in Nat /\ MaxMoves \in Nat
    /\ Workspaces \cap Connections = {}
    /\ None \notin Nat
    /\ None \notin [operation : {"delete_workspace", "clear_business_data", "delete_account"},
                     workspace : Workspaces \cup {None}]

VARIABLES
    rows,        \* destructive_operation_requests, by request
    intents,     \* deletion intents, by the receipt that is their event
    journal,     \* events in the R2 deletion journal
    member,      \* the rv2 membership: NONE, ACTIVE or DELETED
    store,       \* items that exist
    made,        \* items that have ever existed
    auth,        \* the Auth identity exists
    removed,     \* ... or an operator removed it
    capability,  \* what each capability was created for
    recovery,    \* the capability sessionStorage holds for each operation
    prepared,    \* the account's recovery file was saved within five minutes
    file,        \* the capability in the saved recovery file
    signedIn,
    asked,       \* requests sent at least once
    reported,    \* requests reported to the user as completed
    call,        \* calls of the Edge function
    moves

database == <<rows, intents, member, store, made>>
server == <<database, journal, auth, removed>>
browser == <<capability, recovery, prepared, file, signedIn>>
vars == <<server, browser, asked, reported, call, moves>>

Requests == 1..MaxRequests
Calls == 1..MaxCalls
Items == Workspaces \cup Connections
Operations == {"delete_workspace", "clear_business_data", "delete_account"}

----------------------------------------------------------------------------
(* Rows, intents and calls *)

NoRow == [status |-> "none", receipt |-> 0, live |-> FALSE, scope |-> {}]
NoIntent == [operation |-> "none", state |-> "none", recent |-> FALSE]
NoCall == [kind |-> "none", req |-> None, todo |-> <<>>, at |-> "none",
           answer |-> "none", status |-> "none", receipt |-> 0, heard |-> FALSE]

OperationOf(c) == capability[call[c].req].operation
RowOf(c) == rows[call[c].req]
WorkspaceOf(c) == capability[call[c].req].workspace

\* executeJournaledDeletion.
Journaled == <<"prepare", "append", "attest", "execute">>

\* What is left to do once the row of a deletion has been read.
Chain(operation, status) ==
    CASE operation = "delete_workspace" ->
           IF status = "completed" THEN <<>> ELSE <<"workspace">>
      [] operation = "clear_business_data" ->
           Journaled \o IF status = "completed" THEN <<>> ELSE <<"business">>
      [] operation = "delete_account" ->
           Journaled \o IF status = "completed" THEN <<>> ELSE <<"deleting", "identity", "complete">>

\* Mutant: an absent identity is proof enough.
ResumedUnproved == <<"complete">>

\* A status query of an account whose identity is gone proves the deletion
\* before it says so.
Resumed == Journaled \o <<"complete">>

Running(c) == call[c].at = "running"
Next_(c) == Head(call[c].todo)
Doing(c, step) == Running(c) /\ call[c].todo # <<>> /\ Next_(c) = step

\* The step is done; the answer follows the last one.
Passed(c, status) ==
    [call EXCEPT ![c].todo = Tail(@), ![c].status = status]
\* A failure leaves the browser as it was, with its capability.
Over == [NoCall EXCEPT !.kind = "over"]
Replied(c, answer) ==
    [call EXCEPT ![c] = IF @.heard /\ answer # "failed"
                        THEN [@ EXCEPT !.at = "answered", !.todo = <<>>, !.status = "none",
                                       !.answer = answer]
                        ELSE Over]

\* A step that changes nothing but the call.
ServerUnchanged == UNCHANGED <<server, browser, asked, reported, moves>>
OnlyRows == UNCHANGED <<intents, journal, member, store, made, auth, removed,
                        browser, asked, reported, moves>>

\* A step whose precondition does not hold answers at once.
Refuse(c, answer) == call' = Replied(c, answer) /\ ServerUnchanged

Move == moves < MaxMoves /\ moves' = moves + 1

----------------------------------------------------------------------------
(* The browser *)

Init ==
    /\ rows = [r \in Requests |-> NoRow]
    /\ intents = [n \in Calls |-> NoIntent]
    /\ journal = {}
    /\ member \in {"NONE", "ACTIVE"}
    /\ \E owned \in SUBSET Connections :
        /\ Cardinality(owned) = IF member = "ACTIVE" THEN 1 ELSE 0
        /\ store = Workspaces \cup owned
    /\ made = store
    /\ auth = TRUE /\ removed = FALSE
    /\ capability = [r \in Requests |-> None]
    /\ recovery = [o \in Operations |-> None]
    /\ prepared = FALSE /\ file = None /\ signedIn = TRUE
    /\ asked = {} /\ reported = {}
    /\ call = [c \in Calls |-> NoCall]
    /\ moves = 0

Fresh(r) ==
    capability[r] = None /\ \A q \in 1..(r - 1) : capability[q] # None

May(c) == call[c].kind = "none" /\ \A d \in 1..(c - 1) : call[d].kind # "none"

Waiting(operation, kinds) ==
    \E c \in Calls : /\ call[c].heard /\ call[c].kind \in kinds
                     /\ call[c].at \in {"running", "answered"}
                     /\ OperationOf(c) = operation

Sent(c, kind, r, first) ==
    call' = [call EXCEPT ![c] =
        [NoCall EXCEPT !.kind = kind, !.req = r, !.todo = <<first>>,
                       !.at = "running", !.heard = TRUE]]

Capability(operation, w) == [operation |-> operation, workspace |-> w]

\* A second deletion of the same kind reuses the stored capability, and one
\* of another workspace waits for the first to be settled.
DeleteData(c) ==
    /\ May(c)
    /\ signedIn
    /\ \E o \in {"delete_workspace", "clear_business_data"} :
        /\ ~Waiting(o, {"delete"})
        /\ \E w \in IF o = "delete_workspace" THEN made \cap Workspaces ELSE {None} :
           \E r \in Requests :
            /\ \/ /\ recovery[o] = None /\ Fresh(r)
                  /\ capability' = [capability EXCEPT ![r] = Capability(o, w)]
               \/ /\ recovery[o] = r /\ capability[r].workspace = w
                  /\ UNCHANGED capability
            /\ recovery' = [recovery EXCEPT ![o] = r]
            /\ asked' = asked \cup {r}
            /\ Sent(c, "delete", r, "begin")
    /\ UNCHANGED <<server, prepared, file, signedIn, reported, moves>>

\* prepareRecoveryFile, the file saved and confirmed.
PrepareRecoveryFile ==
    /\ signedIn
    /\ ~prepared
    /\ ~Waiting("delete_account", {"delete", "status"})
    /\ \E r \in Requests :
        /\ \/ /\ recovery["delete_account"] = None /\ Fresh(r)
              /\ capability' = [capability EXCEPT ![r] = Capability("delete_account", None)]
           \/ recovery["delete_account"] = r /\ UNCHANGED capability
        /\ recovery' = [recovery EXCEPT !["delete_account"] = r]
        /\ file' = r
    /\ prepared' = TRUE
    /\ UNCHANGED <<server, signedIn, asked, reported, call, moves>>

DeleteAccount(c) ==
    /\ May(c)
    /\ signedIn /\ prepared
    /\ ~Waiting("delete_account", {"delete", "status"})
    /\ LET r == recovery["delete_account"] IN
        /\ r # None
        /\ asked' = asked \cup {r}
        /\ Sent(c, "delete", r, "begin")
    /\ UNCHANGED <<server, browser, reported, moves>>

\* The panels query the capability they hold; the account's does so signed
\* out as well.
QueryStatus(c) ==
    /\ May(c)
    /\ \E o \in Operations :
        /\ recovery[o] # None
        /\ o = "delete_account" \/ signedIn
        /\ ~Waiting(o, IF o = "delete_account" THEN {"delete", "status"} ELSE {"status"})
        /\ Sent(c, "status", recovery[o], "lookup")
    /\ UNCHANGED <<server, browser, asked, reported, moves>>

Forget(o) == recovery' = [recovery EXCEPT ![o] = None]

\* Receipts, 410 and, for a query, 404 settle the capability.
Settles(c) ==
    \/ call[c].answer \in {"completed", "410"}
    \/ call[c].answer = "404" /\ call[c].kind = "status"

Completed(c) == call[c].answer = "completed"

\* The browser reads an answer.  The account is signed out once its deletion
\* is confirmed.
Hear(c) ==
    /\ call[c].at = "answered" /\ call[c].heard
    /\ call' = [call EXCEPT ![c] = Over]
    /\ LET o == OperationOf(c) IN
        /\ IF Settles(c) THEN Forget(o) ELSE UNCHANGED recovery
        /\ reported' = IF Completed(c) THEN reported \cup {call[c].req} ELSE reported
        /\ signedIn' = (signedIn /\ ~(Completed(c) /\ o = "delete_account"))
        /\ prepared' = (prepared /\ ~(Settles(c) /\ o = "delete_account"))
    /\ UNCHANGED <<server, capability, file, asked, moves>>

Unheard(k) == IF k.at = "answered" THEN Over ELSE [k EXCEPT !.heard = FALSE]

\* A timeout, a lost connection, or an answer that is no receipt.
StopListening(c) ==
    /\ call[c].heard
    /\ call' = [call EXCEPT ![c] = Unheard(@)]
    /\ Move
    /\ UNCHANGED <<server, browser, asked, reported>>

\* A reload keeps sessionStorage, except for capabilities that are too old; a
\* closed tab loses it, and the Auth session with it.
Leave ==
    /\ \/ /\ recovery' \in [Operations -> {None} \cup Requests]
          /\ \A o \in Operations : recovery'[o] \in {recovery[o], None}
          /\ UNCHANGED signedIn
       \/ recovery' = [o \in Operations |-> None] /\ signedIn' = FALSE
    /\ call' = [c \in Calls |-> IF call[c].heard THEN Unheard(call[c]) ELSE call[c]]
    /\ prepared' = FALSE
    /\ Move
    /\ UNCHANGED <<server, capability, file, asked, reported>>

SignIn ==
    /\ ~signedIn /\ auth
    /\ signedIn' = TRUE
    /\ UNCHANGED <<server, capability, recovery, prepared, file, asked, reported, call, moves>>

\* parseAccountDeletionRecoveryFile accepts the file or finds it too old.
ImportRecoveryFile ==
    /\ ~signedIn
    /\ recovery["delete_account"] = None
    /\ file # None
    /\ recovery' = [recovery EXCEPT !["delete_account"] = file]
    /\ UNCHANGED <<server, capability, prepared, file, signedIn, asked, reported, call, moves>>

\* The user connects an exchange or creates a workspace.
CreateItem ==
    /\ signedIn /\ auth
    /\ \E i \in Items \ made :
        /\ i \in Connections => member = "ACTIVE"
        /\ store' = store \cup {i} /\ made' = made \cup {i}
    /\ Move
    /\ UNCHANGED <<rows, intents, journal, member, auth, removed, browser, asked, reported, call>>

----------------------------------------------------------------------------
(* The Edge function, one transaction at a time *)

\* Everything the user owned when the request was first accepted.
Scope(c) == IF OperationOf(c) = "delete_workspace" THEN {WorkspaceOf(c)} ELSE store

RowAfterBegin(c) ==
    IF RowOf(c) = NoRow
    THEN [status |-> "pending", receipt |-> c, live |-> TRUE, scope |-> Scope(c)]
    ELSE RowOf(c)

\* Auth vouches for the token, and a code was entered within five minutes.
Reverified == auth

\* Then the row, which asks for a live session as well.
Begin(c) ==
    /\ Doing(c, "begin")
    /\ Reverified
    /\ rows' = [rows EXCEPT ![call[c].req] = RowAfterBegin(c)]
    /\ LET row == RowAfterBegin(c) IN
        call' = IF ~row.live THEN Replied(c, "410")
                ELSE [call EXCEPT ![c].todo = Chain(OperationOf(c), row.status),
                                  ![c].status = row.status, ![c].receipt = row.receipt]
    /\ OnlyRows

ReadRow(c) == [call EXCEPT ![c].status = RowOf(c).status, ![c].receipt = RowOf(c).receipt]

Lookup(c) ==
    /\ Doing(c, "lookup")
    /\ ServerUnchanged
    /\ LET row == RowOf(c) IN
        call' = IF row = NoRow THEN Replied(c, "404")
                ELSE IF ~row.live THEN Replied(c, "410")
                ELSE IF OperationOf(c) = "delete_account" /\ row.status # "completed"
                     THEN [ReadRow(c) EXCEPT ![c].todo = <<"exists">>]
                     ELSE [ReadRow(c) EXCEPT ![c].todo = <<>>]

AuthUserExists(c) ==
    /\ Doing(c, "exists")
    /\ call' = [call EXCEPT ![c].todo = IF auth THEN <<>> ELSE Resumed]
    /\ ServerUnchanged

\* rv2_restore_v2_prepare_public_deletion: the intent of this receipt, or a new
\* one for the owner of an active tenant, within the journal's limits.
IntentKind(c) == OperationOf(c)
Limited(kind) == \E n \in Calls : intents[n].operation = kind /\ intents[n].recent

PrepareIntent(c) ==
    /\ Doing(c, "prepare")
    /\ LET n == call[c].receipt IN
        \/ /\ intents[n] # NoIntent
           /\ call' = Passed(c, call[c].status)
           /\ ServerUnchanged
        \/ /\ intents[n] = NoIntent
           /\ member = "ACTIVE" /\ ~Limited(IntentKind(c))
           /\ intents' = [intents EXCEPT ![n] =
                [operation |-> IntentKind(c), state |-> "PENDING", recent |-> TRUE]]
           /\ call' = Passed(c, call[c].status)
           /\ UNCHANGED <<rows, journal, member, store, made, auth, removed,
                          browser, asked, reported, moves>>
        \/ intents[n] = NoIntent /\ member # "ACTIVE" /\ Refuse(c, "404")
        \/ /\ intents[n] = NoIntent /\ member = "ACTIVE" /\ Limited(IntentKind(c))
           /\ Refuse(c, "failed")

\* A conditional put, and two listings that agree.
AppendAndProve(c) ==
    /\ Doing(c, "append")
    /\ journal' = journal \cup {call[c].receipt}
    /\ call' = Passed(c, call[c].status)
    /\ UNCHANGED <<database, auth, removed, browser, asked, reported, moves>>

Attested(i) == IF i.state = "PENDING" THEN [i EXCEPT !.state = "JOURNALED"] ELSE i

Attest(c) ==
    /\ Doing(c, "attest")
    /\ call[c].receipt \in journal
    /\ intents' = [intents EXCEPT ![call[c].receipt] = Attested(@)]
    /\ call' = Passed(c, call[c].status)
    /\ UNCHANGED <<rows, journal, member, store, made, auth, removed,
                   browser, asked, reported, moves>>

\* Mutant: executed as often as it is asked for.
UnexecutedAgain(n) == intents[n].state \in {"JOURNALED", "DELETED"}

\* rv2_restore_v2_execute_deletion: the connections of the tenant go, with the
\* membership when the account goes; a deletion that was executed is not
\* executed again.
Unexecuted(n) == intents[n].state = "JOURNALED"

Execute(c) ==
    /\ Doing(c, "execute")
    /\ LET n == call[c].receipt IN
        \/ /\ ~Unexecuted(n)
           /\ call' = Passed(c, call[c].status)
           /\ ServerUnchanged
        \/ /\ Unexecuted(n) /\ member = "ACTIVE"
           /\ store' = store \ Connections
           /\ member' = IF intents[n].operation = "delete_account" THEN "DELETED" ELSE member
           /\ intents' = [intents EXCEPT ![n].state = "DELETED"]
           /\ call' = Passed(c, call[c].status)
           /\ UNCHANGED <<rows, journal, made, auth, removed, browser, asked, reported, moves>>
        \/ Unexecuted(n) /\ member # "ACTIVE" /\ Refuse(c, "failed")

\* A row that has not expired, in the name of a live session.
Row(c, status) == rows' = [rows EXCEPT ![call[c].req].status = status]
Gone(c) == ~RowOf(c).live /\ Refuse(c, "404")

\* The workspace, or the profile with every workspace, and the receipt, in one
\* transaction.
Content(c) == IF Next_(c) = "workspace" THEN {WorkspaceOf(c)} ELSE Workspaces

ExecuteContentDeletion(c) ==
    /\ Doing(c, "workspace") \/ Doing(c, "business")
    /\ auth
    /\ \/ /\ RowOf(c).live
          /\ store' = IF RowOf(c).status = "completed" THEN store ELSE store \ Content(c)
          /\ Row(c, "completed")
          /\ call' = Passed(c, "completed")
          /\ UNCHANGED <<intents, journal, member, made, auth, removed,
                         browser, asked, reported, moves>>
       \/ Gone(c)

MarkDeleting(c) ==
    /\ Doing(c, "deleting")
    /\ auth
    /\ \/ /\ RowOf(c).live
          /\ Row(c, IF RowOf(c).status = "completed" THEN "completed" ELSE "deleting")
          /\ call' = IF RowOf(c).status = "completed" THEN Replied(c, "completed")
                     ELSE Passed(c, "deleting")
          /\ OnlyRows
       \/ Gone(c)

\* The identity goes, and with it the membership row and every workspace.
IdentityGone ==
    /\ auth' = FALSE
    /\ member' = "NONE"
    /\ store' = store \ Workspaces

DeleteAuthUser(c) ==
    /\ Doing(c, "identity")
    /\ IdentityGone
    /\ call' = Passed(c, call[c].status)
    /\ UNCHANGED <<rows, intents, journal, made, removed, browser, asked, reported, moves>>

MarkCompleted(c) ==
    /\ Doing(c, "complete")
    /\ \/ /\ RowOf(c).live
          /\ Row(c, "completed")
          /\ call' = Passed(c, "completed")
          /\ OnlyRows
       \/ Gone(c)

Answer(c) ==
    /\ Running(c) /\ call[c].todo = <<>>
    /\ Refuse(c, call[c].status)

\* The proof is refused, a limit is reached, a dependency fails, or the ten
\* seconds are over; what the last step did stays done.
Unavailable(c) ==
    /\ Running(c)
    /\ Refuse(c, "failed")

----------------------------------------------------------------------------
(* Time, and an operator *)

RowExpires ==
    /\ \E r \in Requests :
        /\ rows[r].live
        /\ rows' = [rows EXCEPT ![r].live = FALSE]
    /\ Move
    /\ UNCHANGED <<intents, journal, member, store, made, auth, removed, browser,
                   asked, reported, call>>

\* rv_prune_destructive_operation_requests.
PruneRows ==
    /\ \E r \in Requests :
        /\ rows[r] # NoRow /\ ~rows[r].live
        /\ rows' = [rows EXCEPT ![r] = NoRow]
    /\ UNCHANGED <<intents, journal, member, store, made, auth, removed, browser,
                   asked, reported, call, moves>>

\* A day for business data, thirty-two for an account: nothing that was
\* running is running still, and no row is alive.
LimitPasses ==
    /\ \E n \in Calls : intents[n].recent
    /\ \A c \in Calls : ~Running(c)
    /\ intents' = [n \in Calls |-> [intents[n] EXCEPT !.recent = FALSE]]
    /\ rows' = [r \in Requests |-> NoRow]
    /\ Move
    /\ UNCHANGED <<journal, member, store, made, auth, removed, browser, asked, reported, call>>

\* An operator deletes the Auth user in the dashboard.
RemoveIdentity ==
    /\ auth
    /\ IdentityGone
    /\ removed' = TRUE
    /\ Move
    /\ UNCHANGED <<rows, intents, journal, made, browser, asked, reported, call>>

Browser(c) == DeleteData(c) \/ DeleteAccount(c) \/ QueryStatus(c) \/ Hear(c) \/ StopListening(c)
Edge(c) ==
    \/ Begin(c) \/ Lookup(c) \/ AuthUserExists(c)
    \/ PrepareIntent(c) \/ AppendAndProve(c) \/ Attest(c) \/ Execute(c)
    \/ ExecuteContentDeletion(c) \/ MarkDeleting(c) \/ DeleteAuthUser(c) \/ MarkCompleted(c)
    \/ Answer(c) \/ Unavailable(c)

Next ==
    \/ \E c \in Calls : Browser(c) \/ Edge(c)
    \/ PrepareRecoveryFile \/ Leave \/ SignIn \/ ImportRecoveryFile \/ CreateItem
    \/ RowExpires \/ PruneRows \/ LimitPasses \/ RemoveIdentity

Spec == Init /\ [][Next]_vars

----------------------------------------------------------------------------
(* Properties *)

\* A completed row speaks for everything the request covered when it was first
\* accepted: the connections, the workspaces and, for an account, the
\* identity, whichever call, retry or status query completed it.
CompletedIsDone ==
    \A r \in Requests : rows[r].status = "completed" =>
        /\ rows[r].scope \cap store = {}
        /\ capability[r].operation = "delete_account" => ~auth

\* What a request may remove.
Covers(r) ==
    IF capability[r].operation = "delete_workspace" THEN {capability[r].workspace} ELSE Items

\* Items disappear only for a request the user sent and whose row does not say
\* it is complete: no retry, replay or late call deletes what was created
\* after the deletion it belongs to.
DeletionsAreAuthorised ==
    [][\A i \in store \ store' :
        \/ removed' # removed
        \/ \E r \in asked : i \in Covers(r) /\ rows[r].status # "completed"]_vars

\* AccountView and WorkspacePanel tell the user of a pending request that the
\* server has not begun to delete anything.
PendingMeansUntouched ==
    \A c \in Calls :
        (call[c].kind = "status" /\ call[c].at = "answered" /\ call[c].answer = "pending")
            => intents[call[c].receipt].state # "DELETED"
=============================================================================
