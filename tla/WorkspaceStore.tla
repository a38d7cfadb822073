--------------------------- MODULE WorkspaceStore ---------------------------
(***************************************************************************)
(* One tab's store (app/src/store.tsx): the session on screen, the browser *)
(* workspace it is kept in, and the unlocked vault workspace it may be      *)
(* saved to.  Everything that awaits is a task; between two of its steps    *)
(* the user, other tabs, other devices and the vault context may act, and   *)
(* the task finds out by comparing the epochs it captured.                  *)
(*                                                                          *)
(* A review, journal entry, guard, action or experiment is a MARK: the task *)
(* that made it and the dataset it belongs to.  Datasets are sets of        *)
(* imported files (a CSV ledger merges batches), all under one account      *)
(* scope; the demo and the live Binance data have a scope of their own.     *)
(***************************************************************************)
EXTENDS Integers, FiniteSets, Sequences, SequencesExt

CONSTANTS
    MaxTasks,    \* asynchronous operations of this tab
    Kinds,       \* the kinds of operation considered
    Workspaces,  \* vault workspaces of the account
    Files,       \* CSV batches, archives and backups
    MaxMoves,    \* steps of the user outside tasks, other tabs and devices
    NoWs, NoToken, None

VARIABLES
    ep,          \* request, cancel, restore, intent and vault-queue epochs
    task,        \* the operations, in the order they were started
    vaultQ,      \* vault tasks that hold a place in a queue
    importQ,     \* imports that have not released the next one
    session,     \* sessionRef.current
    shown,       \* the reducer's session, rendered or about to be
    token,       \* browserSessionTokenRef
    ready,       \* browserRestoreRecoveryReadyRef
    fence,       \* the browser storage's effective token
    clears,      \* how many tokens the browser storage has had
    kept,        \* what the browser storage holds in each scope
    head,        \* the committed head of each vault workspace
    vault,       \* what the vault context has unlocked
    seen,        \* the same, as of the last render
    committed,   \* committedVaultSessionRef
    restored,    \* restoredRef
    suppressed,  \* suppressedVaultHydrationWorkspaceRef
    hyd,         \* the hydration under way
    cloud,       \* marks held by the cloud data plane
    owed,        \* marks and files acknowledged to the user, by place
    unseen,      \* in each vault, reviews whose migration was reported but not displayed
    overtaken,   \* a hydration has ended after a later head was saved
    blanked,     \* a Binance answer has taken a vault session off the screen
    moves

storage == <<fence, clears, kept>>
refs == <<committed, restored, suppressed, hyd>>
ghosts == <<owed, unseen, blanked, overtaken>>
vars == <<ep, task, vaultQ, importQ, session, shown, token, ready, storage,
          head, vault, seen, refs, cloud, ghosts, moves>>

Ids == 1..MaxTasks
Scopes == {"demo", "browser", "runtime"}
Data == Files \cup {"demo", "runtime"}
Marks == Ids \X Data

\* No name is two things.
ASSUME StoreAssumption ==
    /\ MaxTasks \in Nat \ {0} /\ MaxMoves \in Nat
    /\ Kinds \subseteq {"mark", "migrate", "import", "archive", "restore", "load", "clear"}
    /\ Workspaces \cap Scopes = {} /\ NoWs \notin Workspaces
    /\ None \notin Marks /\ None \notin [files : SUBSET Files, marks : SUBSET Marks]
    /\ None \notin [ws : Workspaces, session :
          [where : {"vault"}, ws : Workspaces, files : SUBSET Files, marks : SUBSET Marks]]

----------------------------------------------------------------------------
(* Sessions *)

\* A session: where it is kept, its files and its marks.
Session(where, ws, files, marks) ==
    [where |-> where, ws |-> ws, files |-> files, marks |-> marks]

Demo(load) == Session("demo", NoWs, {}, IF load THEN kept["demo"] ELSE {})

\* A live snapshot brings its own reviews when it is a cloud workspace.
Live(mode) == Session(mode, NoWs, {}, IF mode = "cloud" THEN cloud ELSE kept["runtime"])

Connecting == Session("runtime", NoWs, {}, {})

\* Marks stay with their trades when the dataset is replaced.
Retained(marks, files) == {m \in marks : m[2] \in files}

\* What a mark made now would belong to.
Subjects(s) == CASE s.where = "demo" -> {"demo"}
                 [] s.where \in {"runtime", "cloud"} -> {"runtime"}
                 [] OTHER -> s.files

SameTarget(a, b) == <<a.where, a.ws, a.files>> = <<b.where, b.ws, b.files>>

Display(s) == session' = s /\ shown' = s

----------------------------------------------------------------------------
(* Epochs *)

Advanced(e, names) == [n \in DOMAIN e |-> IF n \in names THEN e[n] + 1 ELSE e[n]]

\* cancelRestoreIntent: everything older is revoked before it next awaits.
Revoked(e) == Advanced(e, {"restore", "cancel", "request"})

\* Mutant: the binding follows, the session stays.
InvalidateToken(observed, e) ==
    /\ token' = observed
    /\ ep' = Revoked(e)
    /\ UNCHANGED <<session, shown>>

\* The token has moved: forget what was read under the old one.
Invalidate(observed, e) ==
    /\ token' = observed
    /\ ep' = Revoked(e)
    /\ IF session.where = "vault" THEN UNCHANGED <<session, shown>>
       ELSE Display(Demo(FALSE))

\* Bind the empty or demo session to the token just read.
EnterDemo == token' = fence /\ Display(Demo(fence # NoToken))

\* Fails closed: the session follows the token, the operation ends.
Follow(observed) ==
    IF token = observed THEN UNCHANGED <<token, ep, session, shown>>
    ELSE Invalidate(observed, ep)

TokenMoved(t) == token # task[t].token \/ fence # task[t].token

\* The epochs an operation compares before it acts.
Watched(kind) ==
    CASE kind \in {"mark", "migrate", "restore"} ->
            {"request", "cancel", "restore", "intent", "queue"}
      [] kind = "import" -> {"request", "cancel", "queue"}
      [] OTHER -> {"request"}

Current(t) ==
    /\ \A e \in Watched(task[t].kind) : ep[e] = task[t].ep[e]
    /\ seen.ws = task[t].ws

----------------------------------------------------------------------------
(* Tasks *)

NoSnap == [files |-> {}, marks |-> {}]
Closed == [ws |-> NoWs, gen |-> 0, snap |-> None]

NewTask(kind) ==
    [kind |-> kind, at |-> "new", ep |-> ep, ws |-> seen.ws, token |-> token,
     file |-> None, mark |-> None, base |-> session, next |-> NoSnap,
     extend |-> FALSE, won |-> FALSE, lost |-> FALSE]

NoTask == [NewTask("none") EXCEPT !.at = "none", !.base = None, !.ep = None,
                                  !.token = NoToken, !.ws = NoWs]

Started(t) == task[t].at # "none"
Done(t) == task[t].at = "done"
May(t, kind) == kind \in Kinds /\ task[t].at = "none" /\ \A u \in 1..(t - 1) : Started(u)

To(t, at) == task' = [task EXCEPT ![t].at = at]
Finish(t) == To(t, "done")

\* The slot is released; nothing else of the store is touched.
Dequeued(q, t) ==
    IF \E i \in 1..Len(q) : q[i] = t
    THEN RemoveAt(q, CHOOSE i \in 1..Len(q) : q[i] = t) ELSE q

\* Mutant: nothing is queued.
VaultTurnAtOnce(t) == t \in Range(vaultQ)

\* A place in a queue: only earlier tasks of the same chain come first.
VaultTurn(t) ==
    \A i, j \in 1..Len(vaultQ) :
        vaultQ[j] = t /\ i < j => task[vaultQ[i]].ep.queue # task[t].ep.queue

Owe(place, what) == owed' = [owed EXCEPT ![place] = @ \cup what]

\* A tab without a vault, or one that has just hydrated the vault it opened.
Init ==
    /\ ep = [request |-> 0, cancel |-> 0, restore |-> 0, intent |-> 0, queue |-> 0]
    /\ fence = 0 /\ clears = 0 /\ token = 0 /\ ready = TRUE
    /\ kept = [s \in Scopes |-> {}]
    /\ \E stored \in SUBSET Workspaces, f \in Files :
        /\ head = [w \in Workspaces |-> IF w \in stored
                    THEN [gen |-> 1, snap |-> [files |-> {f}, marks |-> {}]]
                    ELSE [gen |-> 0, snap |-> None]]
        /\ vault \in IF stored = {} THEN {Closed}
                     ELSE {[ws |-> w, gen |-> 1, snap |-> head[w].snap] : w \in stored}
        /\ session = IF vault = Closed THEN [where |-> "demo", ws |-> NoWs, files |-> {}, marks |-> {}]
                     ELSE [where |-> "vault", ws |-> vault.ws, files |-> {f}, marks |-> {}]
    /\ seen = vault /\ shown = session
    /\ restored = IF vault = Closed THEN None ELSE [ws |-> vault.ws, gen |-> 1]
    /\ committed = IF vault = Closed THEN None ELSE [ws |-> vault.ws, session |-> session]
    /\ suppressed = NoWs /\ hyd = None
    /\ task = [t \in Ids |-> NoTask]
    /\ vaultQ = <<>> /\ importQ = <<>>
    /\ cloud = {}
    /\ owed = [p \in Scopes \cup Workspaces |-> {}]
    /\ unseen = [w \in Workspaces |-> {}] /\ blanked = FALSE /\ overtaken = FALSE
    /\ moves = 0

----------------------------------------------------------------------------
(* Saving a mark: saveTradeReview and its siblings *)

\* Where the mark goes is decided by the session at the call.
Mark(t, f) ==
    /\ \E kind \in {"mark", "migrate"} :
        /\ May(t, kind)
        /\ f \in Subjects(session)
        /\ kind = "migrate" => session.where \notin {"demo", "cloud"}
        /\ LET new == [NewTask(kind) EXCEPT !.mark = <<t, f>>]
               fails == task' = [task EXCEPT ![t] = [new EXCEPT !.at = "done"]]
           IN CASE session.where = "cloud" ->
                     /\ task' = [task EXCEPT ![t] = [new EXCEPT !.at = "cloud"]]
                     /\ UNCHANGED <<vaultQ, token, ep, session, shown>>
                [] session.where = "vault" ->
                     /\ IF seen.ws = NoWs THEN fails /\ UNCHANGED vaultQ
                        ELSE /\ task' = [task EXCEPT ![t] = [new EXCEPT !.at = "queued"]]
                             /\ vaultQ' = Append(vaultQ, t)
                     /\ UNCHANGED <<token, ep, session, shown>>
                [] OTHER ->
                     /\ IF token = NoToken \/ token # fence
                        THEN fails /\ Follow(fence)
                        ELSE /\ task' = [task EXCEPT ![t] = [new EXCEPT !.at = "lock"]]
                             /\ UNCHANGED <<token, ep, session, shown>>
                     /\ UNCHANGED vaultQ
    /\ UNCHANGED <<importQ, ready, storage, head, vault, seen, refs, cloud, ghosts, moves>>

\* Only a migration also watches the epochs of other operations.
MarkCurrent(t) ==
    /\ SameTarget(task[t].base, session)
    /\ token = task[t].token
    /\ task[t].kind = "migrate" => \A e \in {"request", "restore", "cancel"} : ep[e] = task[t].ep[e]

\* Under the browser-wide lock: the latest content plus the mark, or nothing.
MarkStored(t) ==
    /\ task[t].at = "lock"
    /\ LET s == task[t].base.where
           writes == fence = task[t].token /\ MarkCurrent(t)
       IN \/ /\ writes
             /\ kept' = [kept EXCEPT ![s] = @ \cup {task[t].mark}]
             /\ Owe(s, {task[t].mark})
             /\ task' = [task EXCEPT ![t].at = "stored", ![t].won = TRUE,
                                     ![t].next = [files |-> {}, marks |-> kept'[s]]]
          \/ /\ To(t, "stored")
             /\ UNCHANGED <<kept, owed>>
    /\ UNCHANGED <<ep, vaultQ, importQ, session, shown, token, ready, fence, clears, head,
                   vault, seen, refs, cloud, unseen, blanked, overtaken, moves>>

\* The committed content replaces the marks of the session on screen.
MarkShown(t) ==
    /\ task[t].at = "stored"
    /\ Finish(t)
    /\ IF TokenMoved(t)
       THEN /\ IF token = fence /\ session.where = "vault"
               THEN UNCHANGED <<token, ep, session, shown>>
               ELSE Invalidate(fence, ep)
       ELSE /\ UNCHANGED <<token, ep>>
            /\ IF task[t].won /\ MarkCurrent(t)
               THEN Display([session EXCEPT !.marks = task[t].next.marks])
               ELSE UNCHANGED <<session, shown>>
    /\ UNCHANGED <<vaultQ, importQ, ready, storage, head, vault, seen, refs, cloud, ghosts,
                   moves>>

\* commitCloudMutation: one at a time, against the workspace then on screen.
CloudTurn(t) == task[t].at = "cloud" /\ \A u \in 1..(t - 1) : task[u].at \notin {"cloud", "sentCloud"}

MarkSentToCloud(t) ==
    /\ CloudTurn(t)
    /\ \/ /\ session.where = "cloud"
          /\ cloud' = cloud \cup {task[t].mark}
          /\ To(t, "sentCloud")
       \/ UNCHANGED cloud /\ Finish(t)
    /\ UNCHANGED <<ep, vaultQ, importQ, session, shown, token, ready, storage, head, vault,
                   seen, refs, ghosts, moves>>

\* The receipt proves the write; the refresh may fail or come too late.
MarkBackFromCloud(t) ==
    /\ task[t].at = "sentCloud"
    /\ Finish(t)
    /\ \/ ep.request = task[t].ep.request /\ session.where = "cloud" /\ Display(Live("cloud"))
       \/ UNCHANGED <<session, shown>>
    /\ UNCHANGED <<ep, vaultQ, importQ, token, ready, storage, head, vault, seen, refs,
                   cloud, ghosts, moves>>

----------------------------------------------------------------------------
(* Saving to the vault: queueVaultMutation, and the vault halves of          *)
(* setImported and restorePortableBackup                                     *)

\* Mutant: the vault queue moves on, the import queue does not.
DropFromVault(t) ==
    /\ Finish(t)
    /\ vaultQ' = Dequeued(vaultQ, t)
    /\ UNCHANGED importQ

Drop(t) ==
    /\ Finish(t)
    /\ vaultQ' = Dequeued(vaultQ, t)
    /\ importQ' = Dequeued(importQ, t)

\* A mutation starts from the session on screen.
MarkTaken(t) ==
    /\ task[t].kind \in {"mark", "migrate"} /\ task[t].at = "queued" /\ VaultTurn(t)
    /\ IF /\ \A e \in {"queue", "intent"} : ep[e] = task[t].ep[e]
          /\ seen.ws = task[t].ws
          /\ session.where = "vault" /\ session.ws = task[t].ws
       THEN /\ task' = [task EXCEPT ![t].at = "taken",
                   ![t].next = [files |-> session.files, marks |-> session.marks \cup {task[t].mark}]]
            /\ UNCHANGED <<vaultQ, importQ>>
       ELSE Drop(t)
    /\ UNCHANGED <<ep, session, shown, token, ready, storage, head, vault, seen, refs, cloud,
                   ghosts, moves>>

\* What an import adds to: the last confirmed head, else the session.
ImportBase(t) ==
    IF committed # None /\ committed.ws = task[t].ws THEN committed.session ELSE session

Merge(t, base) ==
    LET files == IF task[t].extend THEN base.files \cup {task[t].file} ELSE {task[t].file}
    IN [files |-> files, marks |-> Retained(base.marks, files)]

Unchanged(t, base) ==
    /\ base.where \in {"browser", "vault"}
    /\ IF task[t].extend THEN task[t].file \in base.files ELSE base.files = {task[t].file}

\* An import starts from the last confirmed head; a vault with an archive
\* that is not on screen yet refuses it.
ImportTaken(t) ==
    /\ task[t].kind = "import" /\ task[t].at = "queued" /\ VaultTurn(t)
    /\ LET base == ImportBase(t)
           foreign == /\ seen.snap # None
                      /\ base.where # "vault" \/ base.ws # task[t].ws
       IN \/ Drop(t)   \* it is refused, does not verify, or brings nothing new
          \/ /\ Current(t) /\ ~foreign /\ ~Unchanged(t, base)
             /\ task' = [task EXCEPT ![t].at = "taken", ![t].next = Merge(t, base)]
             /\ UNCHANGED <<vaultQ, importQ>>
    /\ UNCHANGED <<ep, session, shown, token, ready, storage, head, vault, seen, refs, cloud,
                   ghosts, moves>>

BackupMarks(t) == {<<t, task[t].file>>}

\* A restore replaces everything; a demo backup is never encrypted.
RestoreTaken(t) ==
    /\ task[t].kind = "restore" /\ task[t].at = "queued" /\ VaultTurn(t)
    /\ \/ Drop(t)   \* the backup does not verify
       \/ /\ task[t].file # "demo"
          /\ task' = [task EXCEPT ![t].at = "taken",
                 ![t].next = [files |-> {task[t].file}, marks |-> BackupMarks(t)]]
          /\ UNCHANGED <<vaultQ, importQ>>
    /\ UNCHANGED <<ep, session, shown, token, ready, storage, head, vault, seen, refs, cloud,
                   ghosts, moves>>

\* The last look before the irreversible call.
MaySend(t) == Current(t)

\* saveSnapshot: the head moves if nobody else moved it, if it is reached.
VaultSent(t) ==
    /\ task[t].at = "taken"
    /\ IF ~MaySend(t) \/ vault.ws # task[t].ws
       THEN Drop(t) /\ UNCHANGED <<head, owed>>
       ELSE LET w == task[t].ws
                replaces == task[t].kind = "restore" \/ ~(task[t].extend \/ task[t].mark # None)
            IN /\ \/ /\ head[w].gen = vault.gen
                     /\ head' = [head EXCEPT ![w] = [gen |-> @.gen + 1, snap |-> task[t].next]]
                     /\ task' = [task EXCEPT ![t].at = "sent", ![t].won = TRUE]
                     /\ owed' = IF replaces THEN [owed EXCEPT ![w] = {}] ELSE owed
                  \/ To(t, "sent") /\ UNCHANGED <<head, owed>>
               /\ UNCHANGED <<vaultQ, importQ>>
    /\ UNCHANGED <<ep, session, shown, token, ready, storage, vault, seen, refs, cloud,
                   unseen, blanked, overtaken, moves>>

\* The answer, unless the vault was locked or the outcome stayed unknown.
Saved(t) == task[t].won /\ ~task[t].lost

VaultSession(t) ==
    Session("vault", task[t].ws, task[t].next.files, task[t].next.marks)

\* A confirmed head is the base of what follows, whatever is on screen.
Rebased(t) ==
    IF task[t].kind = "restore" THEN Current(t)
    ELSE task[t].kind = "import" \/ ep.intent = task[t].ep.intent

\* What the user takes as saved when the operation answers true.  A review is
\* saved and answered true even when its trade has left the dataset meanwhile;
\* the next import drops it then.
Promise(t) ==
    IF task[t].kind = "restore" THEN {task[t].file} \cup task[t].next.marks
    ELSE IF task[t].kind = "import" THEN {task[t].file}
    ELSE {m \in {task[t].mark} : m[2] \in task[t].next.files}

\* A superseded save is not displayed and answers false; only a migration
\* then still returns its receipt, because its head was committed.
VaultAnswered(t) ==
    /\ task[t].at = "sent"
    /\ Drop(t)
    /\ \/ /\ Saved(t)
          /\ vault' = [ws |-> vault.ws, gen |-> vault.gen + 1, snap |-> task[t].next]
          /\ IF Rebased(t)
             THEN /\ restored' = [ws |-> task[t].ws, gen |-> vault.gen + 1]
                  /\ committed' = [ws |-> task[t].ws, session |-> VaultSession(t)]
             ELSE UNCHANGED <<restored, committed>>
          /\ IF Current(t)
             THEN /\ Display(VaultSession(t))
                  /\ Owe(task[t].ws, Promise(t))
                  /\ unseen' = [unseen EXCEPT ![task[t].ws] =
                        @ \ Retained(task[t].next.marks, task[t].next.files)]
             ELSE /\ UNCHANGED <<session, shown>>
                  /\ IF task[t].kind = "migrate"
                     THEN /\ Owe(task[t].ws, Promise(t))
                          /\ unseen' = [unseen EXCEPT ![task[t].ws] = @ \cup Promise(t)]
                     ELSE UNCHANGED <<owed, unseen>>
       \/ UNCHANGED <<vault, restored, committed, session, shown, owed, unseen>>
    /\ UNCHANGED <<ep, token, ready, storage, head, seen, suppressed, hyd, cloud, blanked,
                   overtaken, moves>>

----------------------------------------------------------------------------
(* Imports: setImported and restoreSessionArchive                           *)

\* The call takes its place in the import queue.  Without a vault it first
\* joins the storage generation in force.
ImportCalled(t, new) ==
    LET moved == seen.ws = NoWs /\ token # fence
        refused == seen.ws = NoWs /\ fence = NoToken
    IN /\ IF moved THEN Invalidate(fence, ep) ELSE UNCHANGED <<token, ep, session, shown>>
       /\ task' = [task EXCEPT ![t] = [new EXCEPT !.ep = ep', !.ws = seen.ws, !.token = fence,
                                        !.at = IF refused THEN "done" ELSE "turn"]]
       /\ importQ' = IF refused THEN importQ ELSE Append(importQ, t)

Import(t, f) ==
    /\ May(t, "import")
    /\ ImportCalled(t, [NewTask("import") EXCEPT !.file = f, !.extend = TRUE])
    /\ UNCHANGED <<vaultQ, ready, storage, head, vault, seen, refs, cloud, ghosts, moves>>

\* An archive revokes what is older at once, and is imported once verified.
Archive(t, f) ==
    /\ May(t, "archive")
    /\ ep' = Advanced(Revoked(ep), {"intent"})
    /\ task' = [task EXCEPT ![t] =
          [NewTask("archive") EXCEPT !.file = f, !.ep = ep', !.at = "verifying"]]
    /\ UNCHANGED <<vaultQ, importQ, session, shown, token, ready, storage, head, vault, seen,
                   refs, cloud, ghosts, moves>>

ArchiveVerified(t) ==
    /\ task[t].at = "verifying"
    /\ \/ /\ \A e \in {"cancel", "restore"} : ep[e] = task[t].ep[e]
          /\ ImportCalled(t, [task[t] EXCEPT !.kind = "import"])
       \/ Finish(t) /\ UNCHANGED <<ep, importQ, session, shown, token>>
    /\ UNCHANGED <<vaultQ, ready, storage, head, vault, seen, refs, cloud, ghosts, moves>>

\* First in the queue: a new request, for the vault or for the browser.
ImportTurn(t) ==
    /\ task[t].at = "turn" /\ Head(importQ) = t
    /\ IF ep.cancel # task[t].ep.cancel
       THEN Drop(t) /\ UNCHANGED ep
       ELSE /\ ep' = Advanced(ep, {"request"})
            /\ task' = [task EXCEPT ![t].ep = ep', ![t].base = session,
                   ![t].at = IF seen.ws # NoWs THEN "queued" ELSE "preparing"]
            /\ vaultQ' = IF seen.ws # NoWs THEN Append(vaultQ, t) ELSE vaultQ
            /\ UNCHANGED importQ
    /\ UNCHANGED <<session, shown, token, ready, storage, head, vault, seen, refs, cloud,
                   ghosts, moves>>

\* The dataset is prepared from the session the import started on; reviews
\* are taken from the session now on screen, or read from the storage.
ImportShown(t) ==
    /\ task[t].at = "preparing"
    /\ Drop(t)
    /\ \/ UNCHANGED <<token, ep, session, shown>>   \* the batch does not verify
       \/ /\ ep.request = task[t].ep.request /\ ready
          /\ IF TokenMoved(t)
             THEN Follow(fence)
             ELSE /\ UNCHANGED <<token, ep>>
                  /\ LET files == Merge(t, task[t].base).files
                         marks == IF session.where = "browser"
                                  THEN Retained(session.marks, files) ELSE kept["browser"]
                     IN IF Unchanged(t, task[t].base) /\ session.where = "browser"
                        THEN UNCHANGED <<session, shown>>
                        ELSE Display(Session("browser", NoWs, files, marks))
    /\ UNCHANGED <<ready, storage, head, vault, seen, refs, cloud, ghosts, moves>>

----------------------------------------------------------------------------
(* restorePortableBackup                                                    *)

\* The intent is published and the queue place taken before anything yields.
Restore(t, f) ==
    /\ May(t, "restore")
    /\ LET e == Advanced(Revoked(ep), {"intent"})
           new == [NewTask("restore") EXCEPT !.file = f, !.ep = e]
       IN IF seen.ws # NoWs
          THEN /\ task' = [task EXCEPT ![t] = [new EXCEPT !.at = "queued"]]
               /\ vaultQ' = Append(vaultQ, t) /\ ep' = e
               /\ UNCHANGED <<token, session, shown>>
          ELSE /\ UNCHANGED vaultQ
               /\ IF token = fence /\ token # NoToken
                  THEN /\ task' = [task EXCEPT ![t] = [new EXCEPT !.at = "restoring"]]
                       /\ ep' = e /\ UNCHANGED <<token, session, shown>>
                  ELSE /\ task' = [task EXCEPT ![t] = [new EXCEPT !.at = "done"]]
                       /\ IF token # fence THEN Invalidate(fence, e)
                          ELSE ep' = e /\ UNCHANGED <<token, session, shown>>
    /\ UNCHANGED <<importQ, ready, storage, head, vault, seen, refs, cloud, ghosts, moves>>

Place(t) == IF task[t].file = "demo" THEN "demo" ELSE "browser"

\* The whole workspace is replaced, under the token of the session.
RestoreStored(t) ==
    /\ task[t].kind = "restore" /\ task[t].at = "restoring"
    /\ \/ /\ Current(t) /\ token = task[t].token /\ fence = task[t].token
          /\ kept' = [kept EXCEPT ![Place(t)] = BackupMarks(t)]
          /\ owed' = [owed EXCEPT ![Place(t)] = BackupMarks(t)]
          /\ ready' = TRUE
          /\ task' = [task EXCEPT ![t].at = "stored2", ![t].won = TRUE]
       \/ \* it does not verify, storage is not recovered, or the writer is refused
          /\ To(t, "stored2")
          /\ ready' \in {ready, TRUE}
          /\ UNCHANGED <<kept, owed>>
    /\ UNCHANGED <<ep, vaultQ, importQ, session, shown, token, fence, clears, head, vault,
                   seen, refs, cloud, unseen, blanked, overtaken, moves>>

RestoreShown(t) ==
    /\ task[t].at = "stored2"
    /\ Finish(t)
    /\ IF TokenMoved(t)
       THEN Follow(fence)
       ELSE /\ UNCHANGED <<token, ep>>
            /\ IF task[t].won /\ Current(t)
               THEN Display(Session(Place(t), NoWs, {task[t].file} \ {"demo"}, BackupMarks(t)))
               ELSE UNCHANGED <<session, shown>>
    /\ UNCHANGED <<vaultQ, importQ, ready, storage, head, vault, seen, refs, cloud, ghosts,
                   moves>>

----------------------------------------------------------------------------
(* Binance data: loadBinance, syncBinance and connectBinance                *)

\* The intent revokes what is older and dispatches an empty, connecting
\* session, taken as rendered before anything else reads sessionRef.
Load(t) ==
    /\ May(t, "load")
    /\ LET e == IF fence # NoToken /\ token = fence THEN Revoked(ep) ELSE Revoked(Revoked(ep))
       IN /\ ep' = e
          /\ token' = fence
          /\ IF fence = NoToken
             THEN /\ task' = [task EXCEPT ![t] = [NewTask("load") EXCEPT !.at = "done"]]
                  /\ IF session.where = "vault" THEN UNCHANGED <<session, shown>>
                     ELSE Display(Demo(FALSE))
                  /\ UNCHANGED suppressed
             ELSE /\ task' = [task EXCEPT ![t] =
                        [NewTask("load") EXCEPT !.ep = e, !.token = fence, !.at = "loading"]]
                  /\ Display(Connecting)
                  /\ suppressed' = seen.ws
    /\ UNCHANGED <<vaultQ, importQ, ready, storage, head, vault, seen, committed, restored,
                   hyd, cloud, ghosts, moves>>

\* An error keeps the place of the session shown and empties the rest.
Blocked(s) == [s EXCEPT !.files = {}, !.marks = {}]

\* Only the reducer's session changes; sessionRef follows at the next render.
LoadAnswered(t) ==
    /\ task[t].at = "loading"
    /\ Finish(t)
    /\ IF ep.request # task[t].ep.request
       THEN UNCHANGED <<token, ep, session, shown>>
       ELSE IF TokenMoved(t)
       THEN Follow(fence)
       ELSE /\ \/ \E mode \in {"runtime", "cloud"} : shown' = Live(mode)
               \/ shown' = Blocked(shown)
            /\ UNCHANGED <<token, ep, session>>
    /\ blanked' = (blanked \/ (shown.where = "vault" /\ shown' # shown))
    /\ UNCHANGED <<vaultQ, importQ, ready, storage, head, vault, seen, refs, cloud, owed, unseen,
                   overtaken, moves>>

----------------------------------------------------------------------------
(* clearBrowserData *)

Clear(t) ==
    /\ May(t, "clear")
    /\ ep' = Advanced(Revoked(ep), {"intent"})
    /\ suppressed' = seen.ws
    /\ ready' = FALSE
    /\ task' = [task EXCEPT ![t] = [NewTask("clear") EXCEPT !.at = "clearing", !.ep = ep']]
    /\ UNCHANGED <<vaultQ, importQ, session, shown, token, storage, head, vault, seen, committed,
                   restored, hyd, cloud, ghosts, moves>>

Emptied ==
    /\ clears' = clears + 1 /\ fence' = clears + 1
    /\ kept' = [s \in Scopes |-> {}]
    /\ owed' = [p \in DOMAIN owed |-> IF p \in Scopes THEN {} ELSE owed[p]]

ClearStored(t) ==
    /\ task[t].at = "clearing"
    /\ \/ Emptied /\ To(t, "cleared")
       \/ Finish(t) /\ UNCHANGED <<storage, owed>>
    /\ UNCHANGED <<ep, vaultQ, importQ, session, shown, token, ready, head, vault, seen, refs,
                   cloud, unseen, blanked, overtaken, moves>>

ClearShown(t) ==
    /\ task[t].at = "cleared"
    /\ Finish(t)
    /\ ready' = TRUE
    /\ EnterDemo
    /\ UNCHANGED <<ep, vaultQ, importQ, storage, head, vault, seen, refs, cloud, ghosts, moves>>

----------------------------------------------------------------------------
(* The user, other tabs, other devices and the vault context                *)

Move == moves < MaxMoves /\ moves' = moves + 1

\* activateDemo.
ShowDemo ==
    /\ Move
    /\ ep' = Revoked(ep) /\ suppressed' = seen.ws /\ EnterDemo
    /\ UNCHANGED <<task, vaultQ, importQ, ready, storage, head, vault, seen, committed, restored,
                   hyd, cloud, ghosts>>

\* A file is chosen, even one that turns out to be invalid.
CancelRestoreIntent ==
    /\ Move
    /\ ep' = Revoked(ep)
    /\ UNCHANGED <<task, vaultQ, importQ, session, shown, token, ready, storage, head, vault,
                   seen, refs, cloud, ghosts>>

\* Another tab clears the storage, or damages what identifies its state.
OtherTab ==
    /\ Move
    /\ \/ Emptied
       \/ fence' = NoToken /\ UNCHANGED <<clears, kept, owed>>
    /\ UNCHANGED <<ep, task, vaultQ, importQ, session, shown, token, ready, head, vault, seen,
                   refs, cloud, unseen, blanked, overtaken>>

\* The storage event arrives, some time after the change.
StorageEvent ==
    /\ token # fence
    /\ Invalidate(fence, ep)
    /\ UNCHANGED <<task, vaultQ, importQ, ready, storage, head, vault, seen, refs, cloud, ghosts,
                   moves>>

\* recoverBrowserRestoreTransaction has been run by an earlier call.
Recover ==
    /\ ~ready /\ \A t \in Ids : task[t].at \notin {"clearing", "cleared"}
    /\ ready' = TRUE
    /\ UNCHANGED <<ep, task, vaultQ, importQ, session, shown, token, storage, head, vault, seen,
                   refs, cloud, ghosts, moves>>

OtherDevice(w) ==
    /\ Move
    /\ head[w].snap # None
    /\ head' = [head EXCEPT ![w].gen = @ + 1]
    /\ UNCHANGED <<ep, task, vaultQ, importQ, session, shown, token, ready, storage, vault, seen,
                   refs, cloud, ghosts>>

\* The vault context has verified a head; the store sees it when rendered.
Unlock(w) ==
    /\ Move
    /\ vault = Closed
    /\ vault' = [ws |-> w, gen |-> head[w].gen, snap |-> head[w].snap]
    /\ UNCHANGED <<ep, task, vaultQ, importQ, session, shown, token, ready, storage, head, seen,
                   refs, cloud, ghosts>>

\* Mutant: only another archive replaces the session.
LeavesNever(v) == FALSE

\* The session of a vault that is no longer unlocked is left.
Leaves(v) == shown.where = "vault" /\ shown.ws # v.ws /\ v.snap = None

\* The store is rendered with what the vault context then holds: another
\* workspace cancels imports and starts a new queue; the effect leaves the
\* vault's session, or starts to hydrate the one unlocked.
Render(v) ==
    LET moved == seen.ws # v.ws
        e == IF moved THEN Advanced(ep, {"cancel", "queue"}) ELSE ep
        key == [ws |-> v.ws, gen |-> v.gen]
    IN /\ seen' = v
       /\ committed' = IF moved THEN None ELSE committed
       /\ IF v = seen
          THEN /\ session' = shown /\ ep' = e
               /\ UNCHANGED <<shown, token, restored, suppressed, hyd>>
          ELSE /\ ep' = IF v.ws = NoWs THEN Advanced(e, {"request"}) ELSE e
               /\ IF Leaves(v)
                  THEN EnterDemo ELSE session' = shown /\ UNCHANGED <<shown, token>>
               /\ suppressed' = IF v.ws = NoWs THEN NoWs ELSE suppressed
               /\ restored' = IF v.ws = NoWs THEN None
                              ELSE IF v.snap # None /\ suppressed = v.ws THEN key ELSE restored
               /\ hyd' = IF v.snap # None /\ restored # key /\ suppressed # v.ws
                         THEN [ws |-> v.ws, gen |-> v.gen, snap |-> v.snap, ep |-> e] ELSE None

Rendered ==
    /\ seen # vault \/ session # shown
    /\ Render(vault)
    /\ UNCHANGED <<task, vaultQ, importQ, ready, storage, head, vault, cloud, ghosts, moves>>

\* A click that locks is rendered at once, and aborts the save under way.
Lock ==
    /\ Move
    /\ vault # Closed
    /\ vault' = Closed
    /\ Render(Closed)
    /\ task' = [t \in Ids |-> [task[t] EXCEPT !.lost = @ \/ task[t].at = "sent"]]
    /\ UNCHANGED <<vaultQ, importQ, ready, storage, head, cloud, ghosts>>

\* The archive has verified: it becomes the session if nothing newer began.
Hydrated ==
    /\ hyd # None
    /\ hyd' = None
    /\ IF /\ \A e \in {"request", "cancel"} : ep[e] = hyd.ep[e]
          /\ seen.ws = hyd.ws
       THEN LET s == Session("vault", hyd.ws, hyd.snap.files, hyd.snap.marks)
            IN /\ restored' = [ws |-> hyd.ws, gen |-> hyd.gen]
               /\ committed' = [ws |-> hyd.ws, session |-> s]
               /\ Display(s)
               /\ overtaken' = (overtaken \/ vault.gen # hyd.gen)
       ELSE UNCHANGED <<restored, committed, session, shown, overtaken>>
    /\ UNCHANGED <<ep, task, vaultQ, importQ, token, ready, storage, head, vault, seen,
                   suppressed, cloud, owed, unseen, blanked, moves>>

Next ==
    \/ \E t \in Ids :
        \/ \E f \in Data : Mark(t, f)
        \/ \E f \in Files : Import(t, f) \/ Archive(t, f)
        \/ \E f \in Files \cup {"demo"} : Restore(t, f)
        \/ Load(t) \/ Clear(t)
    \/ \E t \in Ids :
        \/ MarkStored(t) \/ MarkShown(t)
        \/ MarkSentToCloud(t) \/ MarkBackFromCloud(t)
        \/ MarkTaken(t) \/ ImportTaken(t) \/ RestoreTaken(t)
        \/ VaultSent(t) \/ VaultAnswered(t)
        \/ ArchiveVerified(t) \/ ImportTurn(t) \/ ImportShown(t)
        \/ RestoreStored(t) \/ RestoreShown(t)
        \/ LoadAnswered(t) \/ ClearStored(t) \/ ClearShown(t)
    \/ ShowDemo \/ CancelRestoreIntent \/ OtherTab \/ StorageEvent \/ Recover
    \/ \E w \in Workspaces : OtherDevice(w) \/ Unlock(w)
    \/ Rendered \/ Lock \/ Hydrated

Spec == Init /\ [][Next]_vars

\* What is under way can go on: promises and requests settle, the repository's requests time out.
Step(t) ==
    \/ MarkStored(t) \/ MarkShown(t) \/ MarkSentToCloud(t) \/ MarkBackFromCloud(t)
    \/ MarkTaken(t) \/ ImportTaken(t) \/ RestoreTaken(t) \/ VaultSent(t) \/ VaultAnswered(t)
    \/ ArchiveVerified(t) \/ ImportTurn(t) \/ ImportShown(t)
    \/ RestoreStored(t) \/ RestoreShown(t) \/ LoadAnswered(t) \/ ClearStored(t) \/ ClearShown(t)

----------------------------------------------------------------------------
(* Properties *)

Content(w) == IF head[w].snap = None THEN {} ELSE head[w].snap.files \cup head[w].snap.marks

\* What an operation reported as saved is in the committed head, or in the
\* browser storage, until the user replaces or clears it, whatever was
\* queued, superseded, refused or rehydrated since.  Three exceptions: a Binance
\* answer took the vault's session off the screen; a hydration came back after
\* a later save and put an older head there; and a migrated review whose
\* receipt was returned without its display, until a later save shows it.
AcknowledgedWorkIsKept ==
    /\ ~blanked /\ ~overtaken => \A w \in Workspaces : owed[w] \ unseen[w] \subseteq Content(w)
    /\ \A s \in Scopes : owed[s] \subseteq kept[s]

\* What was made in one vault workspace is never committed in another.
WorkspacesDoNotMix ==
    \A w \in Workspaces : head[w].snap # None =>
        \A m \in head[w].snap.marks : task[m[1]].base.where = "vault" => task[m[1]].base.ws = w

\* The session on screen shows nothing made under another storage token than
\* the one it is bound to: a clear in any tab cannot be undone by a late step.
NoClearedData ==
    ~blanked => \A s \in {session, shown} : s.where \in Scopes =>
        \A m \in s.marks : task[m[1]].token = token

\* No queue ever waits for an operation that is gone: as long as one is
\* under way, one of them can go on.
NothingIsStuck ==
    (\E t \in Ids : Started(t) /\ ~Done(t)) => \E t \in Ids : ENABLED Step(t)

\* A Binance answer leaves the session of an unlocked vault alone.
LateAnswersLeaveTheVault == ~blanked

\* A receipt returned for a migrated review means that it stays in the vault,
\* though a newer request suppressed its display.
ReceiptsAreKept ==
    ~blanked /\ ~overtaken => \A w \in Workspaces : owed[w] \subseteq Content(w)
=============================================================================
