------------------------------ MODULE StoreProofs ------------------------------
(***************************************************************************)
(* The store of a tab, for any number of operations, vault workspaces,     *)
(* files and moves of the user, other tabs and other devices.              *)
(*                                                                         *)
(* ShapeInv says what the variables hold and which steps an operation of a *)
(* kind goes through.  One Effect lemma for each action states what it     *)
(* does to the tab, the storage, the vault and its operation; the          *)
(* invariants after it are proved from those alone.                        *)
(*                                                                         *)
(* ClearInv: what the browser keeps, and the session on screen, were made  *)
(* by operations that held the token they are bound to.                    *)
(*                                                                         *)
(* PlacesInv: what is in a workspace, its session, its queue or on its way *)
(* to the server was made there.                                           *)
(*                                                                         *)
(* QueueInv: operations wait in one queue, and of those of one epoch only  *)
(* the first has left it.  KeptInv: whatever such an operation, a          *)
(* hydration or a render brings on screen or to the server holds what was  *)
(* promised.                                                               *)
(***************************************************************************)
EXTENDS WorkspaceStore, SequenceTheorems, TLAPS

\* What the variables hold.
AllKinds == {"none", "mark", "migrate", "import", "archive", "restore", "load", "clear"}
Stages == {"none", "lock", "stored", "cloud", "sentCloud", "queued", "taken", "sent", "verifying",
           "turn", "preparing", "restoring", "stored2", "loading", "clearing", "cleared", "done"}
Tokens == Nat \cup {NoToken}
SomeWs == Workspaces \cup {NoWs}
EpochNames == {"request", "cancel", "restore", "intent", "queue"}
Epochs == [EpochNames -> Nat]
Sessions == [where : Scopes \cup {"cloud", "vault"}, ws : SomeWs, files : SUBSET Files,
             marks : SUBSET Marks]
Snaps == [files : SUBSET Files, marks : SUBSET Marks]
Heads == [gen : Nat, snap : Snaps \cup {None}]
Vaults == [ws : SomeWs, gen : Nat, snap : Snaps \cup {None}]
Hydrations == [ws : SomeWs, gen : Nat, snap : Snaps, ep : Epochs]
Confirmed == [ws : SomeWs, session : Sessions]
TaskRecs == [kind : AllKinds, at : Stages, ep : Epochs \cup {None}, ws : SomeWs, token : Tokens,
             file : Data \cup {None}, mark : Marks \cup {None}, base : Sessions \cup {None},
             next : Snaps, extend : BOOLEAN, won : BOOLEAN, lost : BOOLEAN]

\* The tab, the storage, the vault and the operations.
TabOK == ep \in Epochs /\ session \in Sessions /\ shown \in Sessions /\ token \in Tokens
StorageOK ==
    /\ fence \in Tokens /\ clears \in Nat
    /\ kept \in [Scopes -> SUBSET Marks] /\ cloud \in SUBSET Marks
    /\ owed \in [Scopes \cup Workspaces -> SUBSET (Files \cup Marks)]
VaultOK ==
    /\ head \in [Workspaces -> Heads]
    /\ vault \in Vaults /\ seen \in Vaults
    /\ committed = None \/ committed \in Confirmed
    /\ hyd = None \/ hyd \in Hydrations
    /\ overtaken \in BOOLEAN /\ blanked \in BOOLEAN
    /\ unseen \in [Workspaces -> SUBSET Marks]
TasksOK == task \in [Ids -> TaskRecs]
StoreTypeOK == TabOK /\ StorageOK /\ VaultOK /\ TasksOK /\ vaultQ \in Seq(Ids)

\* Where an operation can be, and what it carries there.
StagesOf(k) ==
    CASE k = "none" -> {"none"}
      [] k \in {"mark", "migrate"} ->
           {"lock", "stored", "cloud", "sentCloud", "queued", "taken", "sent", "done"}
      [] k = "import" -> {"turn", "queued", "taken", "sent", "preparing", "done"}
      [] k = "archive" -> {"verifying", "done"}
      [] k = "restore" -> {"queued", "taken", "sent", "restoring", "stored2", "done"}
      [] k = "load" -> {"loading", "done"}
      [] OTHER -> {"clearing", "cleared", "done"}

\* Operation t is at a step of its kind and has what it needs there.
Ripe(r, t) ==
    /\ r.at \in StagesOf(r.kind)
    /\ r.kind # "none" => r.ep \in Epochs /\ r.base \in Sessions
    /\ r.kind \in {"mark", "migrate"} => r.mark \in Marks /\ r.mark[1] = t
    /\ r.kind \notin {"mark", "migrate"} => r.mark = None
    /\ r.kind \in {"import", "archive"} => r.file \in Files
    /\ r.kind = "restore" => r.file \in Files \cup {"demo"}
    /\ r.at \in {"lock", "stored"} => r.base.where \in Scopes
    /\ r.at \in {"cloud", "sentCloud"} => r.base.where = "cloud"
    /\ r.at \in {"taken", "sent"} =>
          /\ r.kind = "restore" => r.next = [files |-> {r.file}, marks |-> {<<t, r.file>>}]
          /\ r.kind \in {"mark", "migrate"} => r.mark \in r.next.marks
          /\ r.kind = "import" => r.file \in r.next.files
    /\ r.won => r.at \in {"stored", "stored2", "sent", "done"}
    /\ r.lost => r.at \in {"sent", "done"}

ShapeInv == StoreTypeOK /\ \A t \in Ids : Ripe(task[t], t)

-----------------------------------------------------------------------------
(* The pieces of a step *)

LEMMA Advancing ==
  ASSUME NEW e \in Epochs, NEW names
  PROVE  /\ Advanced(e, names) \in Epochs
         /\ \A n \in EpochNames : Advanced(e, names)[n] = IF n \in names THEN e[n] + 1 ELSE e[n]
  BY DEF Epochs, EpochNames, Advanced

LEMMA Revoking ==
  ASSUME NEW e \in Epochs
  PROVE  /\ Revoked(e) \in Epochs
         /\ \A n \in EpochNames : Revoked(e)[n] = IF n \in {"intent", "queue"} THEN e[n] ELSE e[n] + 1
  BY Advancing DEF Revoked, EpochNames

LEMMA Dequeuing ==
  ASSUME NEW S, NEW q \in Seq(S), NEW t
  PROVE  Dequeued(q, t) \in Seq(S)
<1>1. CASE \E i \in 1..Len(q) : q[i] = t
  <2> DEFINE i == CHOOSE i \in 1..Len(q) : q[i] = t
  <2>1. i \in 1..Len(q) /\ q[i] = t  BY <1>1
  <2>2. SubSeq(q, 1, i - 1) \in Seq(S) /\ SubSeq(q, i + 1, Len(q)) \in Seq(S)
    BY <2>1, SubSeqProperties
  <2> QED  BY <1>1, <2>2, ConcatProperties DEF Dequeued, RemoveAt
<1> QED  BY <1>1 DEF Dequeued

LEMMA SessionFields ==
  ASSUME NEW where \in Scopes \cup {"cloud", "vault"}, NEW ws \in SomeWs,
         NEW files \in SUBSET Files, NEW marks \in SUBSET Marks
  PROVE  /\ Session(where, ws, files, marks) \in Sessions
         /\ Session(where, ws, files, marks).where = where
         /\ Session(where, ws, files, marks).ws = ws
         /\ Session(where, ws, files, marks).files = files
         /\ Session(where, ws, files, marks).marks = marks
  BY DEF Session, Sessions

LEMMA SessionKinds ==
  ASSUME StorageOK
  PROVE  /\ \A b \in BOOLEAN : /\ Demo(b) \in Sessions /\ Demo(b).where = "demo"
                               /\ Demo(b).ws = NoWs
                               /\ Demo(b).marks = IF b THEN kept["demo"] ELSE {}
         /\ \A mode \in {"runtime", "cloud"} :
               /\ Live(mode) \in Sessions /\ Live(mode).where = mode /\ Live(mode).ws = NoWs
               /\ Live(mode).marks = IF mode = "cloud" THEN cloud ELSE kept["runtime"]
         /\ Connecting \in Sessions /\ Connecting.where = "runtime" /\ Connecting.ws = NoWs
         /\ Connecting.marks = {}
<1>1. /\ \A s \in Scopes : s \in Scopes \cup {"cloud", "vault"} /\ kept[s] \in SUBSET Marks
      /\ cloud \in SUBSET Marks /\ NoWs \in SomeWs /\ {} \in SUBSET Files /\ {} \in SUBSET Marks
      /\ "demo" \in Scopes /\ "runtime" \in Scopes /\ "cloud" \in Scopes \cup {"cloud", "vault"}
  BY DEF StorageOK, Scopes, SomeWs
<1>2. ASSUME NEW b \in BOOLEAN
      PROVE  /\ Demo(b) \in Sessions /\ Demo(b).where = "demo" /\ Demo(b).ws = NoWs
             /\ Demo(b).marks = IF b THEN kept["demo"] ELSE {}
  BY <1>1, SessionFields DEF Demo
<1>3. ASSUME NEW mode \in {"runtime", "cloud"}
      PROVE  /\ Live(mode) \in Sessions /\ Live(mode).where = mode /\ Live(mode).ws = NoWs
             /\ Live(mode).marks = IF mode = "cloud" THEN cloud ELSE kept["runtime"]
  BY <1>1, SessionFields DEF Live
<1>4. /\ Connecting \in Sessions /\ Connecting.where = "runtime" /\ Connecting.ws = NoWs
      /\ Connecting.marks = {}
  BY <1>1, SessionFields DEF Connecting
<1> QED  BY <1>2, <1>3, <1>4

LEMMA Remarked ==
  ASSUME NEW s \in Sessions, NEW marks \in SUBSET Marks, NEW q, q = [s EXCEPT !.marks = marks]
  PROVE  q \in Sessions /\ q.where = s.where /\ q.ws = s.ws /\ q.files = s.files /\ q.marks = marks
  BY DEF Sessions

LEMMA Blocking ==
  ASSUME NEW s \in Sessions
  PROVE  Blocked(s) \in Sessions /\ Blocked(s).where = s.where /\ Blocked(s).ws = s.ws
         /\ Blocked(s).marks = {}
  BY DEF Sessions, Blocked

\* The epochs of the tab have moved on, but not the one of the vault's queue.
Later == ep' \in Epochs /\ ep'.queue = ep.queue /\ ep'.cancel >= ep.cancel

\* The token moves: a session of the browser is left, a vault's is not.
Rebound(k) ==
    /\ TabOK' /\ token' = k /\ Later
    /\ \/ session.where = "vault" /\ session' = session /\ shown' = shown
       \/ session.where # "vault" /\ session' = Demo(FALSE) /\ shown' = Demo(FALSE)

\* What a step leaves alone.
TabStays == UNCHANGED <<ep, session, shown, token>>
StorageStays == UNCHANGED <<fence, clears, kept, cloud, owed>>
VaultStays == UNCHANGED <<head, vault, seen, committed, hyd, unseen, overtaken, blanked>>

LEMMA LaterRevoked ==
  ASSUME TabOK
  PROVE  /\ ep' = Revoked(ep) => Later
         /\ ep' = Revoked(Revoked(ep)) => Later
         /\ ep' = Revoked(Advanced(Revoked(ep), {"intent"})) => Later
         /\ ep' = Advanced(Revoked(ep), {"intent"}) => Later
         /\ ep' = Advanced(ep, {"request"}) => Later
         /\ ep' = ep => Later
<1>1. ep \in Epochs /\ \A n \in EpochNames : ep[n] \in Nat  BY DEF TabOK, Epochs
<1>2. /\ Revoked(ep) \in Epochs /\ Revoked(ep).queue = ep.queue /\ Revoked(ep).cancel = ep.cancel + 1
  BY <1>1, Revoking DEF EpochNames
<1>3. LET e == Advanced(Revoked(ep), {"intent"})
      IN  e \in Epochs /\ e.queue = ep.queue /\ e.cancel = ep.cancel + 1
  BY <1>2, Advancing DEF EpochNames
<1>4. LET e == Revoked(Revoked(ep))
      IN  e \in Epochs /\ e.queue = ep.queue /\ e.cancel = ep.cancel + 2
  BY <1>1, <1>2, Revoking DEF EpochNames
<1>5. LET e == Revoked(Advanced(Revoked(ep), {"intent"}))
      IN  e \in Epochs /\ e.queue = ep.queue /\ e.cancel = ep.cancel + 2
  BY <1>1, <1>3, Revoking DEF EpochNames
<1>6. LET e == Advanced(ep, {"request"})
      IN  e \in Epochs /\ e.queue = ep.queue /\ e.cancel = ep.cancel
  BY <1>1, Advancing DEF EpochNames
<1>7. ep.cancel \in Nat  BY <1>1 DEF EpochNames
<1> QED  BY <1>1, <1>2, <1>3, <1>4, <1>5, <1>6, <1>7 DEF Later

LEMMA Invalidating ==
  ASSUME TabOK, StorageOK, NEW k \in Tokens, NEW e, Invalidate(k, e), ep' = Revoked(e) => Later
  PROVE  Rebound(k)
<1>1. ep' = Revoked(e) /\ token' = k  BY DEF Invalidate
<1>2. CASE session.where = "vault"
  BY <1>1, <1>2 DEF TabOK, Invalidate, Rebound, Later
<1>3. CASE session.where # "vault"
  BY <1>1, <1>3, SessionKinds DEF TabOK, Invalidate, Display, Rebound, Later
<1> QED  BY <1>2, <1>3

LEMMA Following ==
  ASSUME TabOK, StorageOK, NEW k \in Tokens, Follow(k)
  PROVE  TabStays \/ Rebound(k)
  BY Invalidating, LaterRevoked DEF Follow, TabStays

LEMMA EnteringDemo ==
  ASSUME StorageOK, EnterDemo
  PROVE  /\ token' = fence /\ token' \in Tokens
         /\ session' = shown' /\ session' = Demo(fence # NoToken) /\ session' \in Sessions
  BY SessionKinds DEF StorageOK, EnterDemo, Display

\* One operation moves on, the others stay.
Others(t) == \A u \in Ids : u # t => task'[u] = task[u]
\* What an operation keeps from its call on.
Carries(q, r) ==
    /\ q.kind = r.kind /\ q.ep = r.ep /\ q.ws = r.ws /\ q.token = r.token /\ q.file = r.file
    /\ q.mark = r.mark /\ q.base = r.base /\ q.extend = r.extend /\ q.lost = r.lost

LEMMA Replaced ==
  ASSUME TasksOK, NEW t \in Ids, NEW r \in TaskRecs, task' = [task EXCEPT ![t] = r]
  PROVE  TasksOK' /\ Others(t) /\ task'[t] = r
  BY DEF TasksOK, Others

LEMMA MovedTo ==
  ASSUME TasksOK, NEW t \in Ids, NEW a \in Stages, To(t, a)
  PROVE  /\ TasksOK' /\ Others(t) /\ task'[t].at = a /\ Carries(task'[t], task[t])
         /\ task'[t].next = task[t].next /\ task'[t].won = task[t].won
<1>1. [task[t] EXCEPT !.at = a] \in TaskRecs  BY DEF TasksOK, TaskRecs
<1>2. task' = [task EXCEPT ![t] = [task[t] EXCEPT !.at = a]]  BY DEF To, TasksOK
<1>3. TasksOK' /\ Others(t) /\ task'[t] = [task[t] EXCEPT !.at = a]  BY <1>1, <1>2, Replaced
<1> QED  BY <1>3 DEF TasksOK, TaskRecs, Carries

LEMMA Finishing ==
  ASSUME TasksOK, NEW t \in Ids, Finish(t)
  PROVE  /\ TasksOK' /\ Others(t) /\ task'[t].at = "done" /\ Carries(task'[t], task[t])
         /\ task'[t].next = task[t].next /\ task'[t].won = task[t].won
  BY MovedTo DEF Finish, Stages

LEMMA Won ==
  ASSUME TasksOK, NEW t \in Ids, NEW a \in Stages,
         task' = [task EXCEPT ![t].at = a, ![t].won = TRUE]
  PROVE  /\ TasksOK' /\ Others(t) /\ task'[t].at = a /\ Carries(task'[t], task[t])
         /\ task'[t].next = task[t].next /\ task'[t].won = TRUE
<1>1. [task[t] EXCEPT !.at = a, !.won = TRUE] \in TaskRecs  BY DEF TasksOK, TaskRecs
<1>2. task' = [task EXCEPT ![t] = [task[t] EXCEPT !.at = a, !.won = TRUE]]  BY DEF TasksOK
<1>3. TasksOK' /\ Others(t) /\ task'[t] = [task[t] EXCEPT !.at = a, !.won = TRUE]
  BY <1>1, <1>2, Replaced
<1> QED  BY <1>3 DEF TasksOK, TaskRecs, Carries

LEMMA Taken ==
  ASSUME TasksOK, NEW t \in Ids, NEW n \in Snaps,
         task' = [task EXCEPT ![t].at = "taken", ![t].next = n]
  PROVE  /\ TasksOK' /\ Others(t) /\ task'[t].at = "taken" /\ Carries(task'[t], task[t])
         /\ task'[t].next = n /\ task'[t].won = task[t].won
<1>1. [task[t] EXCEPT !.at = "taken", !.next = n] \in TaskRecs  BY DEF TasksOK, TaskRecs, Stages
<1>2. task' = [task EXCEPT ![t] = [task[t] EXCEPT !.at = "taken", !.next = n]]  BY DEF TasksOK
<1>3. TasksOK' /\ Others(t) /\ task'[t] = [task[t] EXCEPT !.at = "taken", !.next = n]
  BY <1>1, <1>2, Replaced
<1> QED  BY <1>3 DEF TasksOK, TaskRecs, Carries

\* What an operation begins with.
Begins(q, k) ==
    /\ q.kind = k /\ q.ws = seen.ws /\ q.base = session /\ q.next = NoSnap
    /\ q.won = FALSE /\ q.lost = FALSE

LEMMA Beginning ==
  ASSUME StoreTypeOK, NEW k \in AllKinds
  PROVE  /\ Begins(NewTask(k), k)
         /\ NewTask(k).ep = ep /\ NewTask(k).token = token /\ NewTask(k).mark = None
         /\ NewTask(k).file = None /\ NewTask(k).extend = FALSE
         /\ \A a \in Stages : [NewTask(k) EXCEPT !.at = a] \in TaskRecs
  BY DEF NewTask, Begins, TaskRecs, StoreTypeOK, TabOK, VaultOK, Vaults, NoSnap, Snaps

-----------------------------------------------------------------------------
(* What each step does *)

\* An operation begins; it goes on; what it is to save and whether it was saved.
Starts(t, k) == task[t].at = "none" /\ TasksOK' /\ Others(t) /\ Begins(task'[t], k)
Goes(t, a) == TasksOK' /\ Others(t) /\ task'[t].at = a /\ Carries(task'[t], task[t])
OutcomeStays(t) == task'[t].next = task[t].next /\ task'[t].won = task[t].won

LEMMA EffectMark ==
  ASSUME StoreTypeOK, NEW t \in Ids, NEW f \in Data, Mark(t, f)
  PROVE  LET q == task'[t] IN
         /\ Starts(t, q.kind) /\ q.kind \in {"mark", "migrate"}
         /\ q.mark = <<t, f>> /\ q.ep = ep /\ q.token = token
         /\ StorageStays /\ VaultStays
         /\ \/ q.at = "cloud" /\ session.where = "cloud" /\ TabStays /\ vaultQ' = vaultQ
            \/ /\ q.at = "queued" /\ session.where = "vault" /\ seen.ws # NoWs /\ TabStays
               /\ vaultQ' = Append(vaultQ, t)
            \/ /\ q.at = "lock" /\ session.where \in Scopes /\ token # NoToken /\ token = fence
               /\ TabStays /\ vaultQ' = vaultQ
            \/ q.at = "done" /\ vaultQ' = vaultQ /\ (TabStays \/ Rebound(fence))
<1>1. PICK kind \in {"mark", "migrate"} :
        /\ May(t, kind)
        /\ LET new == [NewTask(kind) EXCEPT !.mark = <<t, f>>]
               fails == task' = [task EXCEPT ![t] = [new EXCEPT !.at = "done"]]
           IN CASE session.where = "cloud" ->
                     /\ task' = [task EXCEPT ![t] = [new EXCEPT !.at = "cloud"]]
                     /\ UNCHANGED <<vaultQ, token, ep, session, shown>>
                [] session.where = "vault" ->
                     /\ IF seen.ws = NoWs THEN fails /\ UNCHANGED vaultQ
                        ELSE /\ task' = [task EXCEPT ![t] = [new EXCEPT !.at = "queued"]]
                             /\ vaultQ' = Append(vaultQ, t)
                     /\ UNCHANGED <<token, ep, session, shown>>
                [] OTHER ->
                     /\ IF token = NoToken \/ token # fence
                        THEN fails /\ Follow(fence)
                        ELSE /\ task' = [task EXCEPT ![t] = [new EXCEPT !.at = "lock"]]
                             /\ UNCHANGED <<token, ep, session, shown>>
                     /\ UNCHANGED vaultQ
  BY DEF Mark
<1> DEFINE r(a) == [[NewTask(kind) EXCEPT !.mark = <<t, f>>] EXCEPT !.at = a]
<1>2. <<t, f>> \in Marks /\ kind \in AllKinds /\ seen.ws \in SomeWs /\ token \in Tokens /\ ep \in Epochs
      /\ session \in Sessions
  BY DEF Marks, AllKinds, StoreTypeOK, VaultOK, TabOK, Vaults
<1>3. ASSUME NEW a \in Stages, task' = [task EXCEPT ![t] = r(a)]
      PROVE  /\ Starts(t, kind) /\ task'[t].at = a /\ task'[t].kind = kind
             /\ task'[t].mark = <<t, f>> /\ task'[t].ep = ep /\ task'[t].token = token
  <2>1. /\ r(a) \in TaskRecs /\ Begins(r(a), kind) /\ r(a).at = a
        /\ r(a).ep = ep /\ r(a).token = token /\ r(a).mark = <<t, f>>
    BY <1>2, <1>3, Beginning DEF NewTask, TaskRecs, Begins
  <2> HIDE DEF r
  <2>2. TasksOK' /\ Others(t) /\ task'[t] = r(a)
    BY <1>3, <2>1, Replaced DEF StoreTypeOK
  <2> QED  BY <1>1, <2>1, <2>2 DEF Starts, May, Begins
<1>4. StorageStays /\ VaultStays
  BY DEF Mark, StorageStays, VaultStays, storage, refs, ghosts
<1>5. TabOK /\ StorageOK /\ fence \in Tokens  BY DEF StoreTypeOK, StorageOK
<1>6. CASE session.where = "cloud"
  BY <1>1, <1>3, <1>4, <1>6 DEF Stages, TabStays
<1>7. CASE session.where = "vault"
  BY <1>1, <1>3, <1>4, <1>7 DEF Stages, TabStays
<1>8. CASE session.where \notin {"cloud", "vault"}
  <2>1. session.where \in Scopes  BY <1>2, <1>8 DEF Sessions
  <2>2. CASE token = NoToken \/ token # fence
    BY <1>1, <1>3, <1>4, <1>5, <1>8, <2>2, Following DEF Stages
  <2>3. CASE ~(token = NoToken \/ token # fence)
    BY <1>1, <1>3, <1>4, <1>8, <2>1, <2>3 DEF Stages, TabStays
  <2> QED  BY <2>2, <2>3
<1> QED  BY <1>6, <1>7, <1>8

\* The call of an import, at the end of whatever precedes it.
LEMMA EffectCalled ==
  ASSUME StoreTypeOK, NEW t \in Ids, NEW new, ImportCalled(t, new)
  PROVE  /\ IF seen.ws = NoWs /\ token # fence THEN Rebound(fence) ELSE TabStays
         /\ TabOK'
         /\ task' = [task EXCEPT ![t] = [new EXCEPT !.ep = ep', !.ws = seen.ws, !.token = fence,
              !.at = IF seen.ws = NoWs /\ fence = NoToken THEN "done" ELSE "turn"]]
<1>1. TabOK /\ StorageOK /\ fence \in Tokens  BY DEF StoreTypeOK, StorageOK
<1>2. IF seen.ws = NoWs /\ token # fence THEN Rebound(fence) ELSE TabStays
  BY <1>1, Invalidating, LaterRevoked DEF ImportCalled, TabStays
<1>3. TabOK'  BY <1>1, <1>2 DEF Rebound, TabStays, TabOK
<1> QED  BY <1>2, <1>3 DEF ImportCalled

\* An import that was called just now.
Imports(q) ==
    /\ q.kind = "import" /\ q.file \in Files /\ q.mark = None /\ q.token = fence
    /\ q.ep = ep' /\ q.ep \in Epochs /\ q.ws = seen.ws /\ q.won = FALSE /\ q.lost = FALSE
    /\ \/ q.at = "done"
       \/ q.at = "turn" /\ (seen.ws = NoWs => fence # NoToken)

LEMMA EffectImport ==
  ASSUME StoreTypeOK, NEW t \in Ids, NEW f \in Files, Import(t, f)
  PROVE  /\ Starts(t, "import") /\ Imports(task'[t])
         /\ TabOK' /\ (TabStays \/ Rebound(fence))
         /\ vaultQ' = vaultQ /\ StorageStays /\ VaultStays
<1> DEFINE a == IF seen.ws = NoWs /\ fence = NoToken THEN "done" ELSE "turn"
           r == [[NewTask("import") EXCEPT !.file = f, !.extend = TRUE]
                   EXCEPT !.ep = ep', !.ws = seen.ws, !.token = fence, !.at = a]
<1>1. /\ IF seen.ws = NoWs /\ token # fence THEN Rebound(fence) ELSE TabStays
      /\ TabOK' /\ task' = [task EXCEPT ![t] = r]
  BY EffectCalled DEF Import
<1>2. a \in Stages /\ "import" \in AllKinds /\ ep' \in Epochs /\ seen.ws \in SomeWs
      /\ fence \in Tokens /\ f \in Data \cup {None}
  BY <1>1 DEF Stages, AllKinds, TabOK, StoreTypeOK, VaultOK, Vaults, StorageOK, Data
<1>3. /\ r \in TaskRecs /\ Begins(r, "import") /\ r.at = a /\ r.ep = ep' /\ r.token = fence
      /\ r.file = f /\ r.mark = None
  BY <1>2, Beginning DEF NewTask, TaskRecs, Begins
<1>4. May(t, "import")  BY DEF Import
<1> HIDE DEF r, a
<1>5. TasksOK' /\ Others(t) /\ task'[t] = r
  BY <1>1, <1>3, Replaced DEF StoreTypeOK
<1>6. vaultQ' = vaultQ /\ StorageStays /\ VaultStays
  BY DEF Import, StorageStays, VaultStays, storage, refs, ghosts
<1>7. Starts(t, "import") /\ Imports(task'[t])
  BY <1>2, <1>3, <1>4, <1>5 DEF Starts, May, Begins, Imports, a
<1> QED  BY <1>1, <1>6, <1>7

LEMMA EffectArchive ==
  ASSUME StoreTypeOK, NEW t \in Ids, NEW f \in Files, Archive(t, f)
  PROVE  /\ Starts(t, "archive") /\ task'[t].at = "verifying" /\ task'[t].file = f
         /\ task'[t].mark = None /\ task'[t].ep \in Epochs
         /\ Later /\ UNCHANGED <<session, shown, token, vaultQ>> /\ StorageStays /\ VaultStays
<1>1. /\ May(t, "archive") /\ ep' = Advanced(Revoked(ep), {"intent"})
      /\ task' = [task EXCEPT ![t] = [NewTask("archive") EXCEPT !.file = f, !.ep = ep',
                                                                !.at = "verifying"]]
  BY DEF Archive
<1>2. Later /\ ep' \in Epochs  BY <1>1, LaterRevoked DEF StoreTypeOK, Later
<1>3. /\ "verifying" \in Stages /\ "archive" \in AllKinds /\ seen.ws \in SomeWs
      /\ token \in Tokens /\ f \in Data \cup {None}
  BY DEF Stages, AllKinds, TabOK, StoreTypeOK, VaultOK, Vaults, Data
<1> DEFINE r == [NewTask("archive") EXCEPT !.file = f, !.ep = ep', !.at = "verifying"]
<1>4. /\ r \in TaskRecs /\ Begins(r, "archive") /\ r.at = "verifying" /\ r.ep = ep'
      /\ r.file = f /\ r.mark = None
  BY <1>2, <1>3, Beginning DEF NewTask, TaskRecs, Begins
<1> HIDE DEF r
<1>5. Starts(t, "archive") /\ task'[t] = r
  BY <1>1, <1>4, Replaced DEF StoreTypeOK, Starts, May, r
<1>6. UNCHANGED <<session, shown, token, vaultQ>> /\ StorageStays /\ VaultStays
  BY DEF Archive, StorageStays, VaultStays, storage, refs, ghosts
<1> QED  BY <1>2, <1>4, <1>5, <1>6

LEMMA EffectRestore ==
  ASSUME StoreTypeOK, NEW t \in Ids, NEW f \in Files \cup {"demo"}, Restore(t, f)
  PROVE  LET q == task'[t] IN
         /\ Starts(t, "restore") /\ q.file = f /\ q.mark = None /\ q.token = token
         /\ q.ep \in Epochs /\ q.ep.queue = ep.queue /\ Later
         /\ StorageStays /\ VaultStays
         /\ \/ /\ q.at = "queued" /\ seen.ws # NoWs /\ vaultQ' = Append(vaultQ, t)
               /\ UNCHANGED <<token, session, shown>>
            \/ /\ q.at = "restoring" /\ seen.ws = NoWs /\ token # NoToken
               /\ UNCHANGED <<token, session, shown, vaultQ>>
            \/ /\ q.at = "done" /\ vaultQ' = vaultQ
               /\ UNCHANGED <<token, session, shown>> \/ Rebound(fence)
<1> DEFINE e == Advanced(Revoked(ep), {"intent"})
           new == [NewTask("restore") EXCEPT !.file = f, !.ep = e]
<1>1. /\ May(t, "restore")
      /\ IF seen.ws # NoWs
          THEN /\ task' = [task EXCEPT ![t] = [new EXCEPT !.at = "queued"]]
               /\ vaultQ' = Append(vaultQ, t) /\ ep' = e
               /\ UNCHANGED <<token, session, shown>>
          ELSE /\ UNCHANGED vaultQ
               /\ IF token = fence /\ token # NoToken
                  THEN /\ task' = [task EXCEPT ![t] = [new EXCEPT !.at = "restoring"]]
                       /\ ep' = e /\ UNCHANGED <<token, session, shown>>
                  ELSE /\ task' = [task EXCEPT ![t] = [new EXCEPT !.at = "done"]]
                       /\ IF token # fence THEN Invalidate(fence, e)
                          ELSE ep' = e /\ UNCHANGED <<token, session, shown>>
  BY DEF Restore
<1>2. /\ f \in Data \cup {None} /\ "restore" \in AllKinds /\ TabOK /\ StorageOK
      /\ fence \in Tokens /\ ep \in Epochs
  BY DEF Data, AllKinds, StoreTypeOK, StorageOK, TabOK
<1>3. e \in Epochs /\ e.queue = ep.queue  BY <1>2, Revoking, Advancing DEF EpochNames
<1>4. ASSUME NEW a \in Stages, task' = [task EXCEPT ![t] = [new EXCEPT !.at = a]]
      PROVE  LET q == task'[t] IN
             /\ Starts(t, "restore") /\ q.at = a /\ q.file = f /\ q.mark = None
             /\ q.token = token /\ q.ep = e
  <2> DEFINE r == [new EXCEPT !.at = a]
  <2>1. /\ r \in TaskRecs /\ Begins(r, "restore") /\ r.at = a /\ r.ep = e /\ r.token = token
        /\ r.file = f /\ r.mark = None
    BY <1>2, <1>3, <1>4, Beginning DEF NewTask, TaskRecs, Begins
  <2>2. task' = [task EXCEPT ![t] = r]  BY <1>4
  <2> HIDE DEF r
  <2>3. TasksOK' /\ Others(t) /\ task'[t] = r
    BY <2>1, <2>2, Replaced DEF StoreTypeOK
  <2> QED  BY <1>1, <2>1, <2>3 DEF Starts, May
<1>5. StorageStays /\ VaultStays
  BY DEF Restore, StorageStays, VaultStays, storage, refs, ghosts
<1>6. ep' = e => Later  BY <1>2, LaterRevoked
<1> HIDE DEF e, new
<1>7. CASE seen.ws # NoWs
  BY <1>1, <1>3, <1>4, <1>5, <1>6, <1>7 DEF Stages
<1>8. CASE seen.ws = NoWs /\ token = fence /\ token # NoToken
  BY <1>1, <1>3, <1>4, <1>5, <1>6, <1>8 DEF Stages
<1>9. CASE seen.ws = NoWs /\ ~(token = fence /\ token # NoToken)
  <2>1. /\ task' = [task EXCEPT ![t] = [new EXCEPT !.at = "done"]] /\ vaultQ' = vaultQ
        /\ IF token # fence THEN Invalidate(fence, e)
           ELSE ep' = e /\ UNCHANGED <<token, session, shown>>
    BY <1>1, <1>9
  <2>2. ep' = Revoked(e) => Later  BY <1>2, LaterRevoked DEF e
  <2>3. CASE token # fence
    <3>1. Rebound(fence)  BY <1>2, <2>1, <2>2, <2>3, Invalidating
    <3> QED  BY <1>3, <1>4, <1>5, <2>1, <3>1 DEF Stages, Rebound
  <2>4. CASE token = fence
    BY <1>3, <1>4, <1>5, <1>6, <2>1, <2>4 DEF Stages
  <2> QED  BY <2>3, <2>4
<1> QED  BY <1>7, <1>8, <1>9

LEMMA EffectLoad ==
  ASSUME StoreTypeOK, NEW t \in Ids, Load(t)
  PROVE  LET q == task'[t] IN
         /\ Starts(t, "load") /\ q.mark = None /\ q.ep \in Epochs /\ Later
         /\ token' = fence /\ vaultQ' = vaultQ /\ StorageStays /\ VaultStays
         /\ \/ /\ q.at = "done"
               /\ \/ session.where = "vault" /\ UNCHANGED <<session, shown>>
                  \/ session' = Demo(FALSE) /\ shown' = Demo(FALSE)
            \/ /\ q.at = "loading" /\ q.token = fence /\ fence # NoToken
               /\ session' = Connecting /\ shown' = Connecting
<1>1. TabOK /\ StorageOK /\ fence \in Tokens /\ ep \in Epochs /\ "load" \in AllKinds
      /\ "done" \in Stages /\ "loading" \in Stages
  BY DEF StoreTypeOK, StorageOK, TabOK, AllKinds, Stages
<1>2. Later /\ May(t, "load") /\ token' = fence
  BY <1>1, LaterRevoked DEF Load
<1>3. vaultQ' = vaultQ /\ StorageStays /\ VaultStays
  BY DEF Load, StorageStays, VaultStays, storage, refs, ghosts
<1>4. CASE fence = NoToken
  <2> DEFINE r == [NewTask("load") EXCEPT !.at = "done"]
  <2>1. task' = [task EXCEPT ![t] = r]  BY <1>4 DEF Load
  <2>2. r \in TaskRecs /\ Begins(r, "load") /\ r.at = "done" /\ r.ep = ep /\ r.mark = None
    BY <1>1, Beginning DEF NewTask, TaskRecs, Begins
  <2> HIDE DEF r
  <2>3. TasksOK' /\ Others(t) /\ task'[t] = r  BY <2>1, <2>2, Replaced DEF StoreTypeOK
  <2>4. \/ session.where = "vault" /\ UNCHANGED <<session, shown>>
        \/ session' = Demo(FALSE) /\ shown' = Demo(FALSE)
    BY <1>4 DEF Load, Display
  <2> QED  BY <1>1, <1>2, <1>3, <2>2, <2>3, <2>4 DEF Starts, May
<1>5. CASE fence # NoToken
  <2>1. PICK e : /\ e = ep'
                 /\ task' = [task EXCEPT ![t] =
                       [NewTask("load") EXCEPT !.ep = e, !.token = fence, !.at = "loading"]]
    BY <1>5 DEF Load
  <2> DEFINE r == [NewTask("load") EXCEPT !.ep = e, !.token = fence, !.at = "loading"]
  <2>2. e \in Epochs  BY <1>2, <2>1 DEF Later
  <2>3. /\ r \in TaskRecs /\ Begins(r, "load") /\ r.at = "loading" /\ r.ep = e /\ r.mark = None
        /\ r.token = fence
    BY <1>1, <2>2, Beginning DEF NewTask, TaskRecs, Begins
  <2>4. task' = [task EXCEPT ![t] = r]  BY <2>1
  <2> HIDE DEF r
  <2>5. TasksOK' /\ Others(t) /\ task'[t] = r  BY <2>3, <2>4, Replaced DEF StoreTypeOK
  <2>6. session' = Connecting /\ shown' = Connecting  BY <1>5 DEF Load, Display
  <2> QED  BY <1>2, <1>3, <1>5, <2>2, <2>3, <2>5, <2>6 DEF Starts, May
<1> QED  BY <1>4, <1>5

LEMMA EffectClear ==
  ASSUME StoreTypeOK, NEW t \in Ids, Clear(t)
  PROVE  /\ Starts(t, "clear") /\ task'[t].at = "clearing" /\ task'[t].mark = None
         /\ task'[t].ep \in Epochs /\ Later
         /\ UNCHANGED <<session, shown, token, vaultQ>> /\ StorageStays /\ VaultStays
<1> DEFINE r == [NewTask("clear") EXCEPT !.at = "clearing", !.ep = ep']
<1>1. May(t, "clear") /\ task' = [task EXCEPT ![t] = r] /\ ep' = Advanced(Revoked(ep), {"intent"})
  BY DEF Clear
<1>2. Later /\ ep' \in Epochs  BY <1>1, LaterRevoked DEF StoreTypeOK, Later
<1>3. "clear" \in AllKinds /\ "clearing" \in Stages  BY DEF AllKinds, Stages
<1>4. r \in TaskRecs /\ Begins(r, "clear") /\ r.at = "clearing" /\ r.ep = ep' /\ r.mark = None
  BY <1>2, <1>3, Beginning DEF NewTask, TaskRecs, Begins
<1> HIDE DEF r
<1>5. TasksOK' /\ Others(t) /\ task'[t] = r  BY <1>1, <1>4, Replaced DEF StoreTypeOK
<1>6. UNCHANGED <<session, shown, token, vaultQ>> /\ StorageStays /\ VaultStays
  BY DEF Clear, StorageStays, VaultStays, storage, refs, ghosts
<1> QED  BY <1>1, <1>2, <1>4, <1>5, <1>6 DEF Starts, May

\* What is kept and owed grows by a mark at one place, or is replaced there.
LEMMA EffectMarkStored ==
  ASSUME ShapeInv, NEW t \in Ids, MarkStored(t)
  PROVE  LET s == task[t].base.where
             m == task[t].mark IN
         /\ task[t].at = "lock" /\ Goes(t, "stored") /\ s \in Scopes /\ m \in Marks /\ m[1] = t
         /\ task[t].kind \in {"mark", "migrate"}
         /\ TabStays /\ VaultStays /\ StorageOK' /\ UNCHANGED <<fence, cloud, vaultQ>>
         /\ \/ /\ fence = task[t].token /\ task'[t].won
               /\ task'[t].next.marks = kept'[s] /\ kept'[s] = kept[s] \cup {m}
               /\ \A u \in Scopes : u # s => kept'[u] = kept[u] /\ owed'[u] = owed[u]
               /\ owed'[s] = owed[s] \cup {m}
               /\ \A w \in Workspaces : owed'[w] = owed[w]
            \/ UNCHANGED <<kept, owed>> /\ OutcomeStays(t)
<1> DEFINE s == task[t].base.where
           m == task[t].mark
<1>1. task[t].at = "lock" /\ Ripe(task[t], t)  BY DEF MarkStored, ShapeInv
<1>2. s \in Scopes /\ task[t].kind \in {"mark", "migrate"} /\ m \in Marks /\ m[1] = t
  BY <1>1, ShapeInv DEF Ripe, StagesOf, ShapeInv, StoreTypeOK, TasksOK, TaskRecs, AllKinds
<1>3. TabStays /\ VaultStays /\ UNCHANGED <<fence, clears, cloud, vaultQ>>
  BY DEF MarkStored, TabStays, VaultStays, refs
<1>4. TasksOK /\ StorageOK  BY DEF ShapeInv, StoreTypeOK
<1>5. \/ /\ fence = task[t].token
         /\ kept' = [kept EXCEPT ![s] = @ \cup {m}]
         /\ owed' = [owed EXCEPT ![s] = @ \cup {m}]
         /\ task' = [task EXCEPT ![t].at = "stored", ![t].won = TRUE,
                                 ![t].next = [files |-> {}, marks |-> kept'[s]]]
      \/ To(t, "stored") /\ UNCHANGED <<kept, owed>>
  BY DEF MarkStored, Owe
<1>6. CASE To(t, "stored") /\ UNCHANGED <<kept, owed>>
  BY <1>1, <1>2, <1>3, <1>4, <1>6, MovedTo DEF Stages, Goes, OutcomeStays, StorageOK
<1>7. CASE /\ fence = task[t].token
           /\ kept' = [kept EXCEPT ![s] = @ \cup {m}]
           /\ owed' = [owed EXCEPT ![s] = @ \cup {m}]
           /\ task' = [task EXCEPT ![t].at = "stored", ![t].won = TRUE,
                                   ![t].next = [files |-> {}, marks |-> kept'[s]]]
  <2>1. /\ kept' \in [Scopes -> SUBSET Marks] /\ kept'[s] = kept[s] \cup {m}
        /\ \A u \in Scopes : u # s => kept'[u] = kept[u]
    BY <1>2, <1>4, <1>7 DEF StorageOK
  <2>2. /\ owed' \in [Scopes \cup Workspaces -> SUBSET (Files \cup Marks)]
        /\ owed'[s] = owed[s] \cup {m}
        /\ \A u \in Scopes \cup Workspaces : u # s => owed'[u] = owed[u]
    BY <1>2, <1>4, <1>7 DEF StorageOK
  <2>3. \A w \in Workspaces : w # s  BY <1>2, StoreAssumption
  <2> DEFINE n == [files |-> {}, marks |-> kept'[s]]
             r == [task[t] EXCEPT !.at = "stored", !.won = TRUE, !.next = n]
  <2>4. task[t] \in TaskRecs /\ kept'[s] \in SUBSET Marks
    BY <1>2, <1>4, <2>1 DEF TasksOK
  <2>5. n \in Snaps /\ n.marks = kept'[s]  BY <2>4 DEF Snaps
  <2>6. task' = [task EXCEPT ![t] = r]  BY <1>4, <1>7 DEF TasksOK
  <2> HIDE DEF n
  <2>7. /\ r \in TaskRecs /\ r.at = "stored" /\ r.won /\ r.next = n /\ Carries(r, task[t])
    BY <2>4, <2>5 DEF TaskRecs, Stages, Carries
  <2> HIDE DEF r
  <2>8. TasksOK' /\ Others(t) /\ task'[t] = r  BY <1>4, <2>6, <2>7, Replaced
  <2> QED  BY <1>1, <1>2, <1>3, <1>4, <1>7, <2>1, <2>2, <2>3, <2>5, <2>7, <2>8 DEF StorageOK, Goes
<1> QED  BY <1>5, <1>6, <1>7

LEMMA EffectMarkShown ==
  ASSUME ShapeInv, NEW t \in Ids, MarkShown(t)
  PROVE  /\ task[t].at = "stored" /\ Goes(t, "done") /\ OutcomeStays(t)
         /\ TabOK' /\ StorageStays /\ VaultStays /\ vaultQ' = vaultQ
         /\ \/ TabStays
            \/ Rebound(fence)
            \/ /\ UNCHANGED <<ep, token>> /\ token = task[t].token /\ task[t].won
               /\ session.where = task[t].base.where /\ session'.where = session.where
               /\ session'.ws = session.ws /\ session'.marks = task[t].next.marks
               /\ shown' = session'
<1>1. /\ TabOK /\ StorageOK /\ TasksOK /\ fence \in Tokens /\ session \in Sessions
      /\ task[t].next.marks \in SUBSET Marks
  BY DEF ShapeInv, StoreTypeOK, TabOK, StorageOK, TasksOK, TaskRecs, Snaps
<1>2. task[t].at = "stored" /\ Goes(t, "done") /\ OutcomeStays(t)
  BY <1>1, Finishing DEF MarkShown, Goes, OutcomeStays
<1>3. StorageStays /\ VaultStays /\ vaultQ' = vaultQ
  BY DEF MarkShown, StorageStays, VaultStays, storage, refs, ghosts
<1>4. CASE TokenMoved(t)
  <2>1. TabStays \/ Invalidate(fence, ep)  BY <1>4 DEF MarkShown, TabStays
  <2>2. TabStays \/ Rebound(fence)  BY <1>1, <2>1, Invalidating, LaterRevoked
  <2> QED  BY <1>1, <1>2, <1>3, <2>2 DEF TabStays, Rebound, TabOK
<1>5. CASE ~TokenMoved(t)
  <2>1. token = task[t].token /\ UNCHANGED <<ep, token>>  BY <1>5 DEF TokenMoved, MarkShown
  <2>2. CASE task[t].won /\ MarkCurrent(t)
    <3>1. /\ session' = [session EXCEPT !.marks = task[t].next.marks] /\ shown' = session'
          /\ session.where = task[t].base.where
      BY <1>5, <2>2 DEF MarkShown, Display, MarkCurrent, SameTarget
    <3>2. /\ session' \in Sessions /\ session'.where = session.where /\ session'.ws = session.ws
          /\ session'.marks = task[t].next.marks
      BY <1>1, <3>1, Remarked
    <3> QED  BY <1>1, <1>2, <1>3, <2>1, <2>2, <3>1, <3>2 DEF TabOK
  <2>3. CASE ~(task[t].won /\ MarkCurrent(t))
    BY <1>1, <1>2, <1>3, <1>5, <2>1, <2>3 DEF MarkShown, TabStays, TabOK
  <2> QED  BY <2>2, <2>3
<1> QED  BY <1>4, <1>5

LEMMA EffectMarkSentToCloud ==
  ASSUME ShapeInv, NEW t \in Ids, MarkSentToCloud(t)
  PROVE  LET m == task[t].mark IN
         /\ task[t].at = "cloud" /\ (Goes(t, "sentCloud") \/ Goes(t, "done")) /\ OutcomeStays(t)
         /\ task[t].kind \in {"mark", "migrate"} /\ m \in Marks /\ m[1] = t
         /\ (cloud' = cloud \/ cloud' = cloud \cup {m}) /\ StorageOK'
         /\ UNCHANGED <<fence, kept, owed>> /\ TabStays /\ VaultStays /\ vaultQ' = vaultQ
<1>1. TasksOK /\ StorageOK /\ Ripe(task[t], t) /\ task[t].at = "cloud"
  BY DEF ShapeInv, StoreTypeOK, MarkSentToCloud, CloudTurn
<1>2. task[t].kind \in {"mark", "migrate"} /\ task[t].mark \in Marks /\ task[t].mark[1] = t
  BY <1>1 DEF Ripe, StagesOf, TasksOK, TaskRecs, AllKinds
<1>3. (Goes(t, "sentCloud") \/ Goes(t, "done")) /\ OutcomeStays(t)
  BY <1>1, MovedTo DEF MarkSentToCloud, Finish, Stages, Goes, OutcomeStays
<1>4. /\ (cloud' = cloud \/ cloud' = cloud \cup {task[t].mark})
      /\ UNCHANGED <<fence, clears, kept, owed>> /\ TabStays /\ VaultStays /\ vaultQ' = vaultQ
  BY DEF MarkSentToCloud, TabStays, VaultStays, storage, refs, ghosts
<1> QED  BY <1>1, <1>2, <1>3, <1>4 DEF StorageOK

LEMMA EffectMarkBackFromCloud ==
  ASSUME ShapeInv, NEW t \in Ids, MarkBackFromCloud(t)
  PROVE  /\ task[t].at = "sentCloud" /\ Goes(t, "done") /\ OutcomeStays(t)
         /\ TabOK' /\ StorageStays /\ VaultStays /\ vaultQ' = vaultQ
         /\ \/ TabStays
            \/ /\ UNCHANGED <<ep, token>> /\ session.where = "cloud"
               /\ session' = Live("cloud") /\ shown' = session'
<1>1. TasksOK /\ StorageOK /\ TabOK  BY DEF ShapeInv, StoreTypeOK
<1>2. task[t].at = "sentCloud" /\ Goes(t, "done") /\ OutcomeStays(t)
  BY <1>1, Finishing DEF MarkBackFromCloud, Goes, OutcomeStays
<1>3. StorageStays /\ VaultStays /\ vaultQ' = vaultQ
  BY DEF MarkBackFromCloud, StorageStays, VaultStays, storage, refs, ghosts
<1>4. \/ TabStays
      \/ /\ UNCHANGED <<ep, token>> /\ session.where = "cloud"
         /\ session' = Live("cloud") /\ shown' = session'
  BY DEF MarkBackFromCloud, Display, TabStays
<1> QED  BY <1>1, <1>2, <1>3, <1>4, SessionKinds DEF TabStays, TabOK

\* Leaving the queue, or going on in it.
LeavesQueue(t) == Goes(t, "done") /\ OutcomeStays(t) /\ vaultQ' = Dequeued(vaultQ, t)

LEMMA Dropping ==
  ASSUME TasksOK, NEW t \in Ids, Drop(t)
  PROVE  LeavesQueue(t)
  BY Finishing DEF Drop, LeavesQueue, Goes, OutcomeStays

TakenFrom(t, c) ==
    /\ Goes(t, "taken") /\ task'[t].won = task[t].won /\ vaultQ' = vaultQ
    /\ task'[t].next \in Snaps /\ task'[t].next = c

LEMMA EffectMarkTaken ==
  ASSUME ShapeInv, NEW t \in Ids, MarkTaken(t)
  PROVE  /\ task[t].at = "queued" /\ VaultTurn(t) /\ task[t].kind \in {"mark", "migrate"}
         /\ TabStays /\ StorageStays /\ VaultStays
         /\ \/ LeavesQueue(t)
            \/ /\ TakenFrom(t, [files |-> session.files, marks |-> session.marks \cup {task[t].mark}])
               /\ task[t].mark \in Marks /\ task[t].mark[1] = t
               /\ seen.ws = task[t].ws /\ session.where = "vault" /\ session.ws = task[t].ws
<1> DEFINE n == [files |-> session.files, marks |-> session.marks \cup {task[t].mark}]
<1>1. TasksOK /\ session \in Sessions /\ Ripe(task[t], t)
  BY DEF ShapeInv, StoreTypeOK, TabOK
<1>2. /\ task[t].at = "queued" /\ VaultTurn(t) /\ task[t].kind \in {"mark", "migrate"}
      /\ TabStays /\ StorageStays /\ VaultStays
  BY DEF MarkTaken, TabStays, StorageStays, VaultStays, storage, refs, ghosts
<1>3. task[t].mark \in Marks /\ task[t].mark[1] = t  BY <1>1, <1>2 DEF Ripe
<1>4. n \in Snaps  BY <1>1, <1>3 DEF Snaps, Sessions
<1>5. CASE Drop(t)  BY <1>1, <1>2, <1>5, Dropping
<1>6. CASE ~Drop(t)
  <2>1. /\ task' = [task EXCEPT ![t].at = "taken", ![t].next = n] /\ vaultQ' = vaultQ
        /\ seen.ws = task[t].ws /\ session.where = "vault" /\ session.ws = task[t].ws
    BY <1>6 DEF MarkTaken
  <2> HIDE DEF n
  <2>2. TakenFrom(t, n)  BY <1>1, <1>4, <2>1, Taken DEF TakenFrom, Goes
  <2> QED  BY <1>2, <1>3, <2>1, <2>2 DEF n
<1> QED  BY <1>5, <1>6

LEMMA Bases ==
  ASSUME ShapeInv, NEW t \in Ids
  PROVE  ImportBase(t) \in Sessions
  BY DEF ImportBase, ShapeInv, StoreTypeOK, TabOK, VaultOK, Confirmed

LEMMA Merging ==
  ASSUME NEW t \in Ids, NEW base \in Sessions, task[t].file \in Files
  PROVE  /\ Merge(t, base) \in Snaps /\ task[t].file \in Merge(t, base).files
         /\ Merge(t, base).marks = {m \in base.marks : m[2] \in Merge(t, base).files}
         /\ task[t].extend => base.files \subseteq Merge(t, base).files
  BY DEF Merge, Retained, Snaps, Sessions

LEMMA EffectImportTaken ==
  ASSUME ShapeInv, NEW t \in Ids, ImportTaken(t)
  PROVE  /\ task[t].at = "queued" /\ VaultTurn(t) /\ task[t].kind = "import"
         /\ TabStays /\ StorageStays /\ VaultStays
         /\ \/ LeavesQueue(t)
            \/ /\ TakenFrom(t, Merge(t, ImportBase(t)))
               /\ seen.ws = task[t].ws
               /\ seen.snap # None =>
                    ImportBase(t).where = "vault" /\ ImportBase(t).ws = task[t].ws
<1>1. TasksOK /\ Ripe(task[t], t)  BY DEF ShapeInv, StoreTypeOK
<1>2. /\ task[t].at = "queued" /\ VaultTurn(t) /\ task[t].kind = "import"
      /\ TabStays /\ StorageStays /\ VaultStays
  BY DEF ImportTaken, TabStays, StorageStays, VaultStays, storage, refs, ghosts
<1>3. Merge(t, ImportBase(t)) \in Snaps  BY <1>1, <1>2, Bases, Merging DEF Ripe
<1>4. CASE Drop(t)  BY <1>1, <1>2, <1>4, Dropping
<1>5. CASE ~Drop(t)
  <2>1. /\ task' = [task EXCEPT ![t].at = "taken", ![t].next = Merge(t, ImportBase(t))]
        /\ vaultQ' = vaultQ /\ Current(t)
        /\ seen.snap # None => ImportBase(t).where = "vault" /\ ImportBase(t).ws = task[t].ws
    BY <1>5 DEF ImportTaken
  <2>2. TakenFrom(t, Merge(t, ImportBase(t)))
    BY <1>1, <1>3, <2>1, Taken DEF TakenFrom, Goes
  <2> QED  BY <1>2, <2>1, <2>2 DEF Current
<1> QED  BY <1>4, <1>5

LEMMA EffectRestoreTaken ==
  ASSUME ShapeInv, NEW t \in Ids, RestoreTaken(t)
  PROVE  /\ task[t].at = "queued" /\ VaultTurn(t) /\ task[t].kind = "restore"
         /\ TabStays /\ StorageStays /\ VaultStays
         /\ \/ LeavesQueue(t)
            \/ /\ TakenFrom(t, [files |-> {task[t].file}, marks |-> {<<t, task[t].file>>}])
               /\ task[t].file \in Files
<1> DEFINE n == [files |-> {task[t].file}, marks |-> {<<t, task[t].file>>}]
<1>1. TasksOK /\ Ripe(task[t], t)  BY DEF ShapeInv, StoreTypeOK
<1>2. /\ task[t].at = "queued" /\ VaultTurn(t) /\ task[t].kind = "restore"
      /\ TabStays /\ StorageStays /\ VaultStays
  BY DEF RestoreTaken, TabStays, StorageStays, VaultStays, storage, refs, ghosts
<1>3. CASE Drop(t)  BY <1>1, <1>2, <1>3, Dropping
<1>4. CASE ~Drop(t)
  <2>1. /\ task' = [task EXCEPT ![t].at = "taken", ![t].next = n] /\ vaultQ' = vaultQ
        /\ task[t].file # "demo"
    BY <1>4 DEF RestoreTaken, BackupMarks
  <2>2. task[t].file \in Files  BY <1>1, <1>2, <2>1 DEF Ripe
  <2>3. n \in Snaps  BY <2>2 DEF Snaps, Marks, Data
  <2> HIDE DEF n
  <2>4. TakenFrom(t, n)  BY <1>1, <2>1, <2>3, Taken DEF TakenFrom, Goes
  <2> QED  BY <1>2, <2>2, <2>4 DEF n
<1> QED  BY <1>3, <1>4

LEMMA CurrentTask ==
  ASSUME NEW t \in Ids, task[t].kind \in {"mark", "migrate", "import", "restore"}, Current(t)
  PROVE  seen.ws = task[t].ws /\ ep.queue = task[t].ep.queue /\ ep.cancel = task[t].ep.cancel
<1>1. "queue" \in Watched(task[t].kind) /\ "cancel" \in Watched(task[t].kind)  BY DEF Watched
<1> QED  BY <1>1 DEF Current

\* The steps at which an operation holds a place in the queue.
InVaultQueue == {"queued", "taken", "sent"}
LEMMA QueuedKinds ==
  ASSUME ShapeInv, NEW t \in Ids, task[t].at \in {"taken", "sent"}
  PROVE  task[t].kind \in {"mark", "migrate", "import", "restore"}
  BY DEF ShapeInv, Ripe, StagesOf, StoreTypeOK, TasksOK, TaskRecs, AllKinds

\* An operation that replaces what the workspace holds, with all that was promised.
Replaces(t) == task[t].kind = "restore" \/ ~(task[t].extend \/ task[t].mark # None)

LEMMA EffectVaultSent ==
  ASSUME ShapeInv, NEW t \in Ids, VaultSent(t)
  PROVE  LET w == task[t].ws IN
         /\ task[t].at = "taken" /\ TabStays
         /\ UNCHANGED <<fence, clears, kept, cloud, vault, seen, committed, hyd, unseen, overtaken, blanked>>
         /\ StorageOK' /\ VaultOK'
         /\ \/ LeavesQueue(t) /\ UNCHANGED <<head, owed>>
            \/ /\ Goes(t, "sent") /\ task'[t].next = task[t].next /\ vaultQ' = vaultQ
               /\ seen.ws = w /\ vault.ws = w /\ ep.queue = task[t].ep.queue
               /\ \/ UNCHANGED <<head, owed>> /\ task'[t].won = task[t].won
                  \/ /\ \A u \in Workspaces : u # w => head'[u] = head[u]
                     /\ w \in Workspaces => head'[w].snap = task[t].next
                     /\ \A u \in Scopes \cup Workspaces :
                           owed'[u] = IF u = w /\ Replaces(t) THEN {} ELSE owed[u]
<1> DEFINE w == task[t].ws
<1>1. TasksOK /\ StorageOK /\ VaultOK /\ task[t].at = "taken"  BY DEF ShapeInv, StoreTypeOK, VaultSent
<1>2. TabStays /\ UNCHANGED <<fence, clears, kept, cloud, vault, seen, committed, hyd, unseen, overtaken, blanked>>
  BY DEF VaultSent, TabStays, storage, refs
<1>3. CASE Drop(t) /\ UNCHANGED <<head, owed>>
  BY <1>1, <1>2, <1>3, Dropping DEF StorageOK, VaultOK
<1>4. CASE ~(Drop(t) /\ UNCHANGED <<head, owed>>)
  <2>1. /\ Current(t) /\ vault.ws = w /\ vaultQ' = vaultQ
        /\ \/ To(t, "sent") /\ UNCHANGED <<head, owed>>
           \/ /\ head' = [head EXCEPT ![w] = [gen |-> @.gen + 1, snap |-> task[t].next]]
              /\ task' = [task EXCEPT ![t].at = "sent", ![t].won = TRUE]
              /\ owed' = IF Replaces(t) THEN [owed EXCEPT ![w] = {}] ELSE owed
    BY <1>4 DEF VaultSent, MaySend, Replaces
  <2>2. seen.ws = w /\ ep.queue = task[t].ep.queue
    BY <1>1, <2>1, QueuedKinds, CurrentTask
  <2>3. CASE To(t, "sent") /\ UNCHANGED <<head, owed>>
    <3>1. Goes(t, "sent") /\ task'[t].next = task[t].next /\ task'[t].won = task[t].won
      BY <1>1, <2>3, MovedTo DEF Stages, Goes
    <3> QED  BY <1>1, <1>2, <2>1, <2>2, <2>3, <3>1 DEF StorageOK, VaultOK
  <2>4. CASE /\ head' = [head EXCEPT ![w] = [gen |-> @.gen + 1, snap |-> task[t].next]]
             /\ task' = [task EXCEPT ![t].at = "sent", ![t].won = TRUE]
             /\ owed' = IF Replaces(t) THEN [owed EXCEPT ![w] = {}] ELSE owed
    <3>1. Goes(t, "sent") /\ task'[t].next = task[t].next
      BY <1>1, <2>4, Won DEF Stages, Goes
    <3>2. /\ owed' \in [Scopes \cup Workspaces -> SUBSET (Files \cup Marks)]
          /\ \A u \in Scopes \cup Workspaces :
                owed'[u] = IF u = w /\ Replaces(t) THEN {} ELSE owed[u]
      BY <1>1, <2>4 DEF StorageOK
    <3>3. task[t].next \in Snaps  BY <1>1 DEF TasksOK, TaskRecs
    <3>4. /\ head' \in [Workspaces -> Heads]
          /\ \A u \in Workspaces : u # w => head'[u] = head[u]
          /\ w \in Workspaces => head'[w].snap = task[t].next
      <4>1. head \in [Workspaces -> Heads]  BY <1>1 DEF VaultOK
      <4>2. CASE w \in Workspaces
        <5> DEFINE r == [gen |-> head[w].gen + 1, snap |-> task[t].next]
        <5>1. r \in Heads /\ r.snap = task[t].next  BY <3>3, <4>1, <4>2 DEF Heads
        <5>2. head' = [head EXCEPT ![w] = r]  BY <2>4
        <5> HIDE DEF r
        <5> QED  BY <4>1, <4>2, <5>1, <5>2
      <4>3. CASE w \notin Workspaces  BY <2>4, <4>1, <4>3
      <4> QED  BY <4>2, <4>3
    <3> QED  BY <1>1, <1>2, <2>1, <2>2, <3>1, <3>2, <3>4 DEF StorageOK, VaultOK
  <2> QED  BY <2>1, <2>3, <2>4
<1> QED  BY <1>3, <1>4

\* What was saved is promised to the user.
Promised(t) ==
    LET next == task[t].next IN
    Promise(t) \subseteq Files \cup Marks
    /\ \A x \in Promise(t) : x \in next.files \/ (x \in next.marks /\ x[2] \in next.files)

LEMMA Promising ==
  ASSUME ShapeInv, NEW t \in Ids, task[t].at = "sent"
  PROVE  Promised(t)
<1>1. task[t].kind \in {"mark", "migrate", "import", "restore"} /\ Ripe(task[t], t)
  BY QueuedKinds DEF ShapeInv
<1>2. task[t].next \in Snaps  BY DEF ShapeInv, StoreTypeOK, TasksOK, TaskRecs
<1>3. CASE task[t].kind = "restore"
  <2> DEFINE f == task[t].file
  <2>1. task[t].next = [files |-> {f}, marks |-> {<<t, f>>}]  BY <1>1, <1>3 DEF Ripe
  <2>2. task[t].next.files = {f} /\ task[t].next.marks = {<<t, f>>}  BY <2>1
  <2>3. Promise(t) = {f} \cup {<<t, f>>}  BY <1>3, <2>2 DEF Promise
  <2> QED  BY <1>2, <2>2, <2>3 DEF Promised, Snaps
<1>4. CASE task[t].kind = "import"
  BY <1>1, <1>2, <1>4 DEF Promise, Promised, Snaps, Ripe
<1>5. CASE task[t].kind \in {"mark", "migrate"}
  BY <1>1, <1>2, <1>5 DEF Promise, Promised, Snaps, Ripe
<1> QED  BY <1>1, <1>3, <1>4, <1>5

\* What a workspace owes and has displayed: what its next head must hold.
Due(w) == owed[w] \ unseen[w]
DueThen(w) == owed'[w] \ unseen'[w]

LEMMA EffectVaultAnswered ==
  ASSUME ShapeInv, NEW t \in Ids, VaultAnswered(t)
  PROVE  LET w == task[t].ws
             n == task[t].next IN
         /\ task[t].at = "sent" /\ LeavesQueue(t)
         /\ UNCHANGED <<ep, token, fence, clears, kept, cloud, head, seen, hyd, overtaken, blanked>>
         /\ TabOK' /\ StorageOK' /\ VaultOK'
         /\ \A u \in Scopes \cup Workspaces : u # w => owed'[u] = owed[u]
         /\ \A u \in Workspaces : u # w => unseen'[u] = unseen[u]
         /\ \/ UNCHANGED <<vault, committed, session, shown, owed, unseen>>
            \/ /\ task[t].won /\ ~task[t].lost
               /\ vault'.ws = vault.ws /\ vault'.gen = vault.gen + 1 /\ vault'.snap = n
               /\ \/ committed' = committed
                  \/ /\ committed' \in Confirmed /\ committed'.ws = w
                     /\ committed'.session = VaultSession(t)
               /\ \/ /\ UNCHANGED <<session, shown>>
                     /\ w \in Workspaces => DueThen(w) \subseteq Due(w)
                  \/ /\ session' = VaultSession(t) /\ shown' = VaultSession(t)
                     /\ ep.queue = task[t].ep.queue
                     /\ committed' \in Confirmed /\ committed'.ws = w
                     /\ committed'.session = VaultSession(t)
                     /\ w \in Workspaces =>
                          DueThen(w) \subseteq Due(w) \cup Promise(t) \cup Retained(n.marks, n.files)
<1> DEFINE w == task[t].ws
           n == task[t].next
           v == VaultSession(t)
<1>1. /\ TasksOK /\ TabOK /\ StorageOK /\ VaultOK /\ task[t].at = "sent"
      /\ task[t].next \in Snaps /\ task[t].ws \in SomeWs
  BY DEF ShapeInv, StoreTypeOK, VaultAnswered, TasksOK, TaskRecs
<1>2. /\ LeavesQueue(t)
      /\ UNCHANGED <<ep, token, fence, clears, kept, cloud, head, seen, hyd, overtaken, blanked>>
  BY <1>1, Dropping DEF VaultAnswered, storage
<1>3. v \in Sessions  BY <1>1, SessionFields DEF VaultSession, Snaps
<1>4. CASE UNCHANGED <<vault, committed, session, shown, owed, unseen>>
  BY <1>1, <1>2, <1>4 DEF TabOK, StorageOK, VaultOK
<1>5. CASE ~UNCHANGED <<vault, committed, session, shown, owed, unseen>>
  <2>1. /\ Saved(t)
        /\ vault' = [ws |-> vault.ws, gen |-> vault.gen + 1, snap |-> task[t].next]
        /\ IF Rebased(t) THEN committed' = [ws |-> w, session |-> v] ELSE committed' = committed
        /\ IF Current(t)
           THEN /\ session' = v /\ shown' = v
                /\ owed' = [owed EXCEPT ![w] = @ \cup Promise(t)]
                /\ unseen' = [unseen EXCEPT ![w] = @ \ Retained(n.marks, n.files)]
           ELSE /\ UNCHANGED <<session, shown>>
                /\ IF task[t].kind = "migrate"
                   THEN /\ owed' = [owed EXCEPT ![w] = @ \cup Promise(t)]
                        /\ unseen' = [unseen EXCEPT ![w] = @ \cup Promise(t)]
                   ELSE UNCHANGED <<owed, unseen>>
    BY <1>5 DEF VaultAnswered, Display, Owe
  <2>2. vault' \in Vaults /\ vault'.ws = vault.ws /\ vault'.gen = vault.gen + 1 /\ vault'.snap = n
    BY <1>1, <2>1 DEF VaultOK, Vaults
  <2>3. Rebased(t) => /\ committed' \in Confirmed /\ committed'.ws = w
                      /\ committed'.session = v
    BY <1>1, <1>3, <2>1 DEF Confirmed
  <2>4. Current(t) => Rebased(t)
    BY <1>1, QueuedKinds DEF Rebased, Current, Watched
  <2>5. Promise(t) \subseteq Files \cup Marks  BY <1>1, Promising DEF Promised
  <2>6. task[t].kind = "migrate" => Promise(t) \subseteq Marks
    <3>1. Ripe(task[t], t)  BY DEF ShapeInv
    <3> QED  BY <1>1, <3>1 DEF Promise, Ripe
  <2>7. /\ owed \in [Scopes \cup Workspaces -> SUBSET (Files \cup Marks)]
        /\ unseen \in [Workspaces -> SUBSET Marks]
    BY <1>1 DEF StorageOK, VaultOK
  <2>8. CASE owed' = [owed EXCEPT ![w] = @ \cup Promise(t)]
    <3>1. /\ owed' \in [Scopes \cup Workspaces -> SUBSET (Files \cup Marks)]
          /\ \A u \in Scopes \cup Workspaces :
                owed'[u] = IF u = w THEN owed[u] \cup Promise(t) ELSE owed[u]
      BY <2>5, <2>7, <2>8
    <3> DEFINE m == Retained(n.marks, n.files)
    <3>2. CASE Current(t)
      <4>1. ep.queue = task[t].ep.queue  BY <1>1, <3>2, QueuedKinds, CurrentTask
      <4>2. /\ unseen' \in [Workspaces -> SUBSET Marks]
            /\ \A u \in Workspaces :
                  unseen'[u] = IF u = w THEN unseen[u] \ m ELSE unseen[u]
        <5> HIDE DEF m
        <5>1. unseen' = [unseen EXCEPT ![w] = @ \ m]  BY <2>1, <3>2 DEF m
        <5> QED  BY <2>7, <5>1
      <4>3. w \in Workspaces => DueThen(w) \subseteq Due(w) \cup Promise(t) \cup m
        BY <3>1, <4>2 DEF Due, DueThen
      <4>4. VaultOK'  BY <1>1, <1>2, <2>1, <2>2, <2>3, <4>2 DEF VaultOK
      <4>5. TabOK' /\ StorageOK'  BY <1>1, <1>2, <1>3, <2>1, <3>1, <3>2 DEF TabOK, StorageOK
      <4> HIDE DEF m, v
      <4> QED  BY <1>1, <1>2, <2>1, <2>2, <2>3, <2>4, <3>1, <3>2, <4>1, <4>2, <4>3, <4>4, <4>5
               DEF Saved, m, v
    <3>3. CASE ~Current(t) /\ unseen' = [unseen EXCEPT ![w] = @ \cup Promise(t)]
                 /\ Promise(t) \subseteq Marks
      <4>1. /\ unseen' \in [Workspaces -> SUBSET Marks]
            /\ \A u \in Workspaces :
                  unseen'[u] = IF u = w THEN unseen[u] \cup Promise(t) ELSE unseen[u]
        BY <2>7, <3>3
      <4>2. w \in Workspaces => DueThen(w) \subseteq Due(w)  BY <3>1, <4>1 DEF Due, DueThen
      <4>3. VaultOK'  BY <1>1, <1>2, <2>1, <2>2, <2>3, <4>1 DEF VaultOK
      <4>4. TabOK' /\ StorageOK'  BY <1>1, <1>2, <2>1, <3>1, <3>3 DEF TabOK, StorageOK
      <4> HIDE DEF v
      <4> QED  BY <1>1, <1>2, <2>1, <2>2, <2>3, <3>1, <3>3, <4>1, <4>2, <4>3, <4>4 DEF Saved, v
    <3>4. CASE ~Current(t) /\ UNCHANGED <<owed, unseen>>
      <4>1. VaultOK'  BY <1>1, <1>2, <2>1, <2>2, <2>3, <3>4 DEF VaultOK
      <4>2. TabOK' /\ StorageOK'  BY <1>1, <1>2, <2>1, <3>4 DEF TabOK, StorageOK
      <4> HIDE DEF v
      <4> QED  BY <1>1, <1>2, <2>1, <2>2, <2>3, <3>4, <4>1, <4>2 DEF Saved, Due, DueThen, v
    <3> QED  BY <2>1, <2>6, <3>2, <3>3, <3>4
  <2>9. CASE ~Current(t) /\ UNCHANGED <<owed, unseen>>
    <3>1. VaultOK'  BY <1>1, <1>2, <2>1, <2>2, <2>3, <2>9 DEF VaultOK
    <3>2. TabOK' /\ StorageOK'  BY <1>1, <1>2, <2>1, <2>9 DEF TabOK, StorageOK
    <3> HIDE DEF v
    <3> QED  BY <1>1, <1>2, <2>1, <2>2, <2>3, <2>9, <3>1, <3>2 DEF Saved, Due, DueThen, v
  <2> QED  BY <2>1, <2>8, <2>9
<1> QED  BY <1>4, <1>5

LEMMA EffectArchiveVerified ==
  ASSUME ShapeInv, NEW t \in Ids, ArchiveVerified(t)
  PROVE  /\ task[t].at = "verifying" /\ TasksOK' /\ Others(t) /\ TabOK'
         /\ task'[t].mark = None /\ task'[t].won = FALSE /\ task'[t].base = task[t].base
         /\ task'[t].next = task[t].next
         /\ StorageStays /\ VaultStays /\ vaultQ' = vaultQ
         /\ \/ Imports(task'[t]) /\ (TabStays \/ Rebound(fence))
            \/ Goes(t, "done") /\ TabStays
<1>1. /\ StoreTypeOK /\ TasksOK /\ TabOK /\ Ripe(task[t], t) /\ task[t].at = "verifying"
      /\ task[t] \in TaskRecs
  BY DEF ShapeInv, StoreTypeOK, ArchiveVerified, TasksOK
<1>2. /\ task[t].kind = "archive" /\ task[t].mark = None /\ task[t].file \in Files
      /\ task[t].won = FALSE /\ task[t].lost = FALSE
  BY <1>1 DEF Ripe, StagesOf, TaskRecs, AllKinds
<1>3. StorageStays /\ VaultStays /\ vaultQ' = vaultQ
  BY DEF ArchiveVerified, StorageStays, VaultStays, storage, refs, ghosts
<1>4. CASE Finish(t) /\ UNCHANGED <<ep, session, shown, token>>
  BY <1>1, <1>2, <1>3, <1>4, Finishing DEF Goes, Carries, TabStays, TabOK
<1>5. CASE ImportCalled(t, [task[t] EXCEPT !.kind = "import"])
  <2> DEFINE a == IF seen.ws = NoWs /\ fence = NoToken THEN "done" ELSE "turn"
             r == [[task[t] EXCEPT !.kind = "import"]
                     EXCEPT !.ep = ep', !.ws = seen.ws, !.token = fence, !.at = a]
  <2>1. /\ IF seen.ws = NoWs /\ token # fence THEN Rebound(fence) ELSE TabStays
        /\ TabOK' /\ task' = [task EXCEPT ![t] = r]
    BY <1>1, <1>5, EffectCalled
  <2>2. a \in Stages /\ "import" \in AllKinds /\ ep' \in Epochs /\ seen.ws \in SomeWs
        /\ fence \in Tokens
    BY <1>1, <2>1 DEF Stages, AllKinds, TabOK, StoreTypeOK, VaultOK, Vaults, StorageOK
  <2>3. /\ r \in TaskRecs /\ r.at = a /\ r.ep = ep' /\ r.token = fence /\ r.ws = seen.ws
        /\ r.file = task[t].file /\ r.mark = task[t].mark /\ r.won = task[t].won
        /\ r.base = task[t].base /\ r.next = task[t].next /\ r.kind = "import"
        /\ r.lost = task[t].lost
    BY <1>1, <2>2 DEF TaskRecs
  <2> HIDE DEF r
  <2>4. TasksOK' /\ Others(t) /\ task'[t] = r  BY <1>1, <2>1, <2>3, Replaced
  <2> QED  BY <1>1, <1>2, <1>3, <2>1, <2>2, <2>3, <2>4 DEF Imports
<1> QED  BY <1>4, <1>5 DEF ArchiveVerified

LEMMA EffectImportTurn ==
  ASSUME ShapeInv, NEW t \in Ids, ImportTurn(t)
  PROVE  LET q == task'[t] IN
         /\ task[t].at = "turn" /\ task[t].kind = "import" /\ task[t].ep \in Epochs
         /\ UNCHANGED <<session, shown, token>> /\ Later /\ TabOK' /\ StorageStays /\ VaultStays
         /\ \/ LeavesQueue(t)
            \/ /\ ep.cancel = task[t].ep.cancel /\ TasksOK' /\ Others(t)
               /\ q.kind = "import" /\ q.ep \in Epochs /\ q.ep.queue = ep.queue
               /\ q.ws = task[t].ws /\ q.token = task[t].token /\ q.file = task[t].file
               /\ q.mark = task[t].mark /\ q.won = task[t].won /\ q.lost = task[t].lost
               /\ q.next = task[t].next /\ q.base \in Sessions
               /\ \/ q.at = "queued" /\ seen.ws # NoWs /\ vaultQ' = Append(vaultQ, t)
                  \/ q.at = "preparing" /\ seen.ws = NoWs /\ vaultQ' = vaultQ
<1>1. /\ TasksOK /\ TabOK /\ Ripe(task[t], t) /\ task[t].at = "turn" /\ task[t] \in TaskRecs
      /\ session \in Sessions
  BY DEF ShapeInv, StoreTypeOK, ImportTurn, TasksOK, TabOK
<1>2. task[t].kind = "import"  BY <1>1 DEF Ripe, StagesOf, TaskRecs, AllKinds
<1>3. task[t].ep \in Epochs  BY <1>1, <1>2 DEF Ripe
<1>4. UNCHANGED <<session, shown, token>> /\ StorageStays /\ VaultStays
  BY DEF ImportTurn, StorageStays, VaultStays, storage, refs, ghosts
<1>5. CASE ep.cancel # task[t].ep.cancel
  <2>1. Drop(t) /\ ep' = ep  BY <1>5 DEF ImportTurn
  <2> QED  BY <1>1, <1>2, <1>3, <1>4, <2>1, Dropping, LaterRevoked DEF TabOK
<1>6. CASE ep.cancel = task[t].ep.cancel
  <2> DEFINE a == IF seen.ws # NoWs THEN "queued" ELSE "preparing"
             r == [task[t] EXCEPT !.ep = ep', !.base = session, !.at = a]
  <2>1. /\ ep' = Advanced(ep, {"request"})
        /\ task' = [task EXCEPT ![t].ep = ep', ![t].base = session, ![t].at = a]
        /\ vaultQ' = IF seen.ws # NoWs THEN Append(vaultQ, t) ELSE vaultQ
    BY <1>6 DEF ImportTurn
  <2>2. Later /\ TabOK' /\ ep' \in Epochs /\ ep'.queue = ep.queue
    BY <1>1, <1>4, <2>1, LaterRevoked DEF Later, TabOK
  <2>3. task' = [task EXCEPT ![t] = r]  BY <1>1, <2>1 DEF TasksOK
  <2>4. /\ r \in TaskRecs /\ r.at = a /\ r.ep = ep' /\ r.token = task[t].token
        /\ r.ws = task[t].ws /\ r.file = task[t].file /\ r.mark = task[t].mark
        /\ r.won = task[t].won /\ r.base = session /\ r.next = task[t].next
        /\ r.kind = task[t].kind /\ r.lost = task[t].lost
    BY <1>1, <2>2 DEF TaskRecs, Stages
  <2> HIDE DEF r
  <2>5. TasksOK' /\ Others(t) /\ task'[t] = r  BY <1>1, <2>3, <2>4, Replaced
  <2> QED  BY <1>1, <1>2, <1>3, <1>4, <1>6, <2>1, <2>2, <2>4, <2>5
<1> QED  BY <1>5, <1>6

LEMMA EffectImportShown ==
  ASSUME ShapeInv, NEW t \in Ids, ImportShown(t)
  PROVE  /\ task[t].at = "preparing" /\ LeavesQueue(t)
         /\ TabOK' /\ StorageStays /\ VaultStays
         /\ \/ TabStays
            \/ Rebound(fence)
            \/ /\ UNCHANGED <<ep, token>> /\ token = task[t].token /\ fence = task[t].token
               /\ session'.where = "browser" /\ session'.ws = NoWs /\ shown' = session'
               /\ \/ session.where = "browser" /\ session'.marks \subseteq session.marks
                  \/ session'.marks = kept["browser"]
<1>1. /\ TasksOK /\ TabOK /\ StorageOK /\ Ripe(task[t], t) /\ task[t].at = "preparing"
      /\ task[t] \in TaskRecs /\ session \in Sessions /\ fence \in Tokens
  BY DEF ShapeInv, StoreTypeOK, ImportShown, TasksOK, TabOK, StorageOK
<1>2. task[t].kind = "import"  BY <1>1 DEF Ripe, StagesOf, TaskRecs, AllKinds
<1>3. task[t].base \in Sessions /\ task[t].file \in Files  BY <1>1, <1>2 DEF Ripe
<1>4. LeavesQueue(t) /\ StorageStays /\ VaultStays
  BY <1>1, Dropping DEF ImportShown, StorageStays, VaultStays, storage, refs, ghosts
<1> DEFINE files == Merge(t, task[t].base).files
           marks == IF session.where = "browser" THEN Retained(session.marks, files)
                    ELSE kept["browser"]
           s == Session("browser", NoWs, files, marks)
<1>5. \/ TabStays
      \/ Follow(fence)
      \/ /\ ~TokenMoved(t) /\ UNCHANGED <<token, ep>> /\ session' = s /\ shown' = s
  BY DEF ImportShown, Display, TabStays
<1>6. files \in SUBSET Files  BY <1>3, Merging DEF Snaps
<1>7. /\ marks \in SUBSET Marks
      /\ \/ session.where = "browser" /\ marks \subseteq session.marks
         \/ marks = kept["browser"]
  BY <1>1 DEF Retained, Sessions, StorageOK, Scopes
<1> HIDE DEF files, marks
<1>8. s \in Sessions /\ s.where = "browser" /\ s.ws = NoWs /\ s.marks = marks
  BY <1>6, <1>7, SessionFields DEF Scopes, SomeWs
<1> HIDE DEF s
<1>9. TabStays => TabOK'  BY <1>1 DEF TabStays, TabOK
<1>10. Follow(fence) => TabOK' /\ (TabStays \/ Rebound(fence))
  BY <1>1, <1>9, Following DEF Rebound
<1>11. ~TokenMoved(t) => token = task[t].token /\ fence = task[t].token  BY DEF TokenMoved
<1> QED  BY <1>1, <1>4, <1>5, <1>7, <1>8, <1>9, <1>10, <1>11 DEF TabOK

LEMMA EffectRestoreStored ==
  ASSUME ShapeInv, NEW t \in Ids, RestoreStored(t)
  PROVE  LET p == Place(t)
             b == {<<t, task[t].file>>} IN
         /\ task[t].at = "restoring" /\ task[t].kind = "restore" /\ Goes(t, "stored2")
         /\ task'[t].next = task[t].next
         /\ TabStays /\ VaultStays /\ StorageOK' /\ UNCHANGED <<fence, cloud, vaultQ>>
         /\ p \in Scopes /\ b \subseteq Marks
         /\ \/ /\ token = task[t].token /\ fence = task[t].token
               /\ \A u \in Scopes : kept'[u] = IF u = p THEN b ELSE kept[u]
               /\ \A u \in Scopes : owed'[u] = IF u = p THEN b ELSE owed[u]
               /\ \A w \in Workspaces : owed'[w] = owed[w]
            \/ UNCHANGED <<kept, owed>>
<1> DEFINE p == Place(t)
           b == {<<t, task[t].file>>}
<1>1. /\ TasksOK /\ StorageOK /\ Ripe(task[t], t) /\ task[t].at = "restoring"
      /\ task[t].kind = "restore"
  BY DEF ShapeInv, StoreTypeOK, RestoreStored
<1>2. p \in Scopes /\ p \notin Workspaces /\ b \subseteq Marks
  BY <1>1, StoreAssumption DEF Ripe, Place, Scopes, Marks, Data
<1>3. TabStays /\ VaultStays /\ UNCHANGED <<fence, clears, cloud, vaultQ>>
  BY DEF RestoreStored, TabStays, VaultStays, refs
<1>4. CASE To(t, "stored2") /\ UNCHANGED <<kept, owed>>
  BY <1>1, <1>2, <1>3, <1>4, MovedTo DEF Stages, Goes, StorageOK
<1>5. CASE ~(To(t, "stored2") /\ UNCHANGED <<kept, owed>>)
  <2>1. /\ token = task[t].token /\ fence = task[t].token
        /\ kept' = [kept EXCEPT ![p] = b] /\ owed' = [owed EXCEPT ![p] = b]
        /\ task' = [task EXCEPT ![t].at = "stored2", ![t].won = TRUE]
    BY <1>5 DEF RestoreStored, BackupMarks
  <2>2. Goes(t, "stored2") /\ task'[t].next = task[t].next
    BY <1>1, <2>1, Won DEF Stages, Goes
  <2>3. /\ kept' \in [Scopes -> SUBSET Marks]
        /\ \A u \in Scopes : kept'[u] = IF u = p THEN b ELSE kept[u]
    BY <1>1, <1>2, <2>1 DEF StorageOK
  <2>4. /\ owed' \in [Scopes \cup Workspaces -> SUBSET (Files \cup Marks)]
        /\ \A u \in Scopes : owed'[u] = IF u = p THEN b ELSE owed[u]
        /\ \A w \in Workspaces : owed'[w] = owed[w]
    BY <1>1, <1>2, <2>1 DEF StorageOK
  <2> QED  BY <1>1, <1>2, <1>3, <2>1, <2>2, <2>3, <2>4 DEF StorageOK
<1> QED  BY <1>4, <1>5

LEMMA EffectRestoreShown ==
  ASSUME ShapeInv, NEW t \in Ids, RestoreShown(t)
  PROVE  /\ task[t].at = "stored2" /\ task[t].kind = "restore" /\ Goes(t, "done") /\ OutcomeStays(t)
         /\ TabOK' /\ StorageStays /\ VaultStays /\ vaultQ' = vaultQ
         /\ \/ TabStays
            \/ Rebound(fence)
            \/ /\ UNCHANGED <<ep, token>> /\ token = task[t].token
               /\ session'.where \in Scopes /\ session'.ws = NoWs /\ shown' = session'
               /\ session'.marks = {<<t, task[t].file>>}
<1>1. /\ TasksOK /\ TabOK /\ StorageOK /\ Ripe(task[t], t) /\ task[t].at = "stored2"
      /\ task[t] \in TaskRecs /\ fence \in Tokens
  BY DEF ShapeInv, StoreTypeOK, RestoreShown, TasksOK, StorageOK
<1>2. task[t].kind = "restore"  BY <1>1 DEF Ripe, StagesOf, TaskRecs, AllKinds
<1>3. task[t].file \in Files \cup {"demo"}  BY <1>1, <1>2 DEF Ripe
<1>4. Goes(t, "done") /\ OutcomeStays(t) /\ StorageStays /\ VaultStays /\ vaultQ' = vaultQ
  BY <1>1, Finishing DEF RestoreShown, StorageStays, VaultStays, storage, refs, ghosts, Goes, OutcomeStays
<1> DEFINE p == Place(t)
           f == {task[t].file} \ {"demo"}
           b == {<<t, task[t].file>>}
           s == Session(p, NoWs, f, b)
<1>5. \/ TabStays
      \/ Follow(fence)
      \/ /\ ~TokenMoved(t) /\ UNCHANGED <<token, ep>> /\ session' = s /\ shown' = s
  BY DEF RestoreShown, Display, TabStays, BackupMarks
<1>6. p \in Scopes /\ f \in SUBSET Files /\ b \in SUBSET Marks
  BY <1>3 DEF Place, Scopes, Marks, Data
<1> HIDE DEF p, f
<1>7. s \in Sessions /\ s.where = p /\ s.ws = NoWs /\ s.marks = b
  BY <1>6, SessionFields DEF SomeWs
<1> HIDE DEF s
<1>8. TabStays => TabOK'  BY <1>1 DEF TabStays, TabOK
<1>9. Follow(fence) => TabOK' /\ (TabStays \/ Rebound(fence))
  BY <1>1, <1>8, Following DEF Rebound
<1>10. ~TokenMoved(t) => token = task[t].token  BY DEF TokenMoved
<1> QED  BY <1>1, <1>2, <1>4, <1>5, <1>6, <1>7, <1>8, <1>9, <1>10 DEF TabOK

LEMMA EffectLoadAnswered ==
  ASSUME ShapeInv, NEW t \in Ids, LoadAnswered(t)
  PROVE  /\ task[t].at = "loading" /\ Goes(t, "done") /\ OutcomeStays(t)
         /\ TabOK' /\ StorageStays /\ vaultQ' = vaultQ
         /\ UNCHANGED <<head, vault, seen, committed, hyd, unseen, overtaken>>
         /\ blanked' = (blanked \/ (shown.where = "vault" /\ shown' # shown)) /\ VaultOK'
         /\ \/ TabStays
            \/ Rebound(fence)
            \/ /\ UNCHANGED <<ep, token, session>>
               /\ token = task[t].token /\ fence = task[t].token
               /\ \/ \E mode \in {"runtime", "cloud"} : shown' = Live(mode)
                  \/ shown' = Blocked(shown)
<1>1. TasksOK /\ TabOK /\ StorageOK /\ fence \in Tokens  BY DEF ShapeInv, StoreTypeOK, StorageOK
<1>2. task[t].at = "loading" /\ Goes(t, "done") /\ OutcomeStays(t)
  BY <1>1, Finishing DEF LoadAnswered, Goes, OutcomeStays
<1>3. /\ StorageStays /\ vaultQ' = vaultQ /\ UNCHANGED <<head, vault, seen, committed, hyd, unseen, overtaken>>
      /\ blanked' = (blanked \/ (shown.where = "vault" /\ shown' # shown))
  BY DEF LoadAnswered, StorageStays, storage, refs
<1>4. \/ TabStays
      \/ Follow(fence)
      \/ /\ ~TokenMoved(t) /\ UNCHANGED <<ep, token, session>>
         /\ \/ \E mode \in {"runtime", "cloud"} : shown' = Live(mode)
            \/ shown' = Blocked(shown)
  BY DEF LoadAnswered, TabStays
<1>5. TabStays => TabOK'  BY <1>1 DEF TabStays, TabOK
<1>6. Follow(fence) => TabOK' /\ (TabStays \/ Rebound(fence))
  BY <1>1, <1>5, Following DEF Rebound
<1>7. ~TokenMoved(t) => token = task[t].token /\ fence = task[t].token  BY DEF TokenMoved
<1>8. VaultOK /\ blanked' \in BOOLEAN  BY <1>3 DEF ShapeInv, StoreTypeOK, VaultOK
<1>9. VaultOK'  BY <1>3, <1>8 DEF VaultOK
<1> QED  BY <1>1, <1>2, <1>3, <1>4, <1>5, <1>6, <1>7, <1>9, SessionKinds, Blocking DEF TabOK

\* The storage is cleared, with all that was promised of it.
Empties ==
    /\ fence' \in Tokens /\ clears' \in Nat
    /\ \A s \in Scopes : kept'[s] = {} /\ owed'[s] = {}
    /\ \A w \in Workspaces : owed'[w] = owed[w]

LEMMA Emptying ==
  ASSUME StorageOK, Emptied, cloud' = cloud
  PROVE  Empties /\ StorageOK'
<1>1. \A w \in Workspaces : w \notin Scopes  BY StoreAssumption
<1>2. \A s \in Scopes \cup Workspaces : owed'[s] = IF s \in Scopes THEN {} ELSE owed[s]
  BY DEF Emptied, StorageOK
<1> QED  BY <1>1, <1>2 DEF StorageOK, Emptied, Empties, Tokens

LEMMA EffectClearStored ==
  ASSUME ShapeInv, NEW t \in Ids, ClearStored(t)
  PROVE  /\ task[t].at = "clearing" /\ OutcomeStays(t) /\ TabStays /\ VaultStays
         /\ StorageOK' /\ UNCHANGED <<vaultQ, cloud>>
         /\ \/ Goes(t, "cleared") /\ Empties
            \/ Goes(t, "done") /\ StorageStays
<1>1. TasksOK /\ StorageOK  BY DEF ShapeInv, StoreTypeOK
<1>2. TabStays /\ VaultStays /\ UNCHANGED <<vaultQ, cloud>> /\ task[t].at = "clearing"
  BY DEF ClearStored, TabStays, VaultStays, refs
<1>3. CASE Emptied /\ To(t, "cleared")
  BY <1>1, <1>2, <1>3, Emptying, MovedTo DEF Stages, Goes, OutcomeStays
<1>4. CASE Finish(t) /\ UNCHANGED <<storage, owed>>
  BY <1>1, <1>2, <1>4, Finishing DEF Goes, OutcomeStays, StorageStays, storage, StorageOK
<1> QED  BY <1>3, <1>4 DEF ClearStored

LEMMA EffectClearShown ==
  ASSUME ShapeInv, NEW t \in Ids, ClearShown(t)
  PROVE  /\ task[t].at = "cleared" /\ Goes(t, "done") /\ OutcomeStays(t)
         /\ EnterDemo /\ ep' = ep /\ StorageStays /\ VaultStays /\ vaultQ' = vaultQ
<1>1. TasksOK  BY DEF ShapeInv, StoreTypeOK
<1>2. /\ task[t].at = "cleared" /\ EnterDemo /\ ep' = ep /\ vaultQ' = vaultQ
      /\ StorageStays /\ VaultStays
  BY DEF ClearShown, StorageStays, VaultStays, storage, refs, ghosts
<1> QED  BY <1>1, <1>2, Finishing DEF ClearShown, Goes, OutcomeStays

\* No operation moves.
TasksStay == UNCHANGED <<task, vaultQ>>

LEMMA EffectShowDemo ==
  ASSUME ShapeInv, ShowDemo
  PROVE  EnterDemo /\ Later /\ TasksStay /\ StorageStays /\ VaultStays
  BY LaterRevoked DEF ShapeInv, StoreTypeOK, ShowDemo, TasksStay, StorageStays, VaultStays,
     storage, ghosts

LEMMA EffectCancelRestoreIntent ==
  ASSUME ShapeInv, CancelRestoreIntent
  PROVE  Later /\ UNCHANGED <<session, shown, token>> /\ TasksStay /\ StorageStays /\ VaultStays
  BY LaterRevoked DEF ShapeInv, StoreTypeOK, CancelRestoreIntent, TasksStay, StorageStays,
     VaultStays, storage, refs, ghosts

LEMMA EffectOtherTab ==
  ASSUME ShapeInv, OtherTab
  PROVE  /\ TabStays /\ TasksStay /\ VaultStays /\ StorageOK' /\ cloud' = cloud
         /\ \/ Empties
            \/ fence' = NoToken /\ UNCHANGED <<kept, owed>>
<1>1. TabStays /\ TasksStay /\ VaultStays /\ cloud' = cloud /\ StorageOK
  BY DEF ShapeInv, StoreTypeOK, OtherTab, TabStays, TasksStay, VaultStays, refs
<1>2. Emptied \/ (fence' = NoToken /\ UNCHANGED <<clears, kept, owed>>)  BY DEF OtherTab
<1>3. CASE Emptied  BY <1>1, <1>3, Emptying
<1>4. CASE fence' = NoToken /\ UNCHANGED <<clears, kept, owed>>
  BY <1>1, <1>4 DEF StorageOK, Tokens
<1> QED  BY <1>2, <1>3, <1>4

LEMMA EffectStorageEvent ==
  ASSUME ShapeInv, StorageEvent
  PROVE  Rebound(fence) /\ TasksStay /\ StorageStays /\ VaultStays
<1>1. TabOK /\ StorageOK /\ fence \in Tokens  BY DEF ShapeInv, StoreTypeOK, StorageOK
<1>2. Rebound(fence)  BY <1>1, Invalidating, LaterRevoked DEF StorageEvent
<1> QED  BY <1>2 DEF StorageEvent, TasksStay, StorageStays, VaultStays, storage, refs, ghosts

LEMMA EffectRecover ==
  ASSUME Recover
  PROVE  TabStays /\ TasksStay /\ StorageStays /\ VaultStays
  BY DEF Recover, TabStays, TasksStay, StorageStays, VaultStays, storage, refs, ghosts

LEMMA EffectOtherDevice ==
  ASSUME ShapeInv, NEW w \in Workspaces, OtherDevice(w)
  PROVE  /\ TabStays /\ TasksStay /\ StorageStays /\ VaultOK'
         /\ UNCHANGED <<vault, seen, committed, hyd, unseen, overtaken, blanked>>
         /\ \A u \in Workspaces : head'[u].snap = head[u].snap
<1>1. /\ head' = [head EXCEPT ![w].gen = @ + 1] /\ VaultOK
      /\ UNCHANGED <<vault, seen, committed, hyd, unseen, overtaken, blanked>>
      /\ TabStays /\ TasksStay /\ StorageStays
  BY DEF ShapeInv, StoreTypeOK, OtherDevice, TabStays, TasksStay, StorageStays, storage, refs, ghosts
<1>2. head' \in [Workspaces -> Heads] /\ \A u \in Workspaces : head'[u].snap = head[u].snap
  BY <1>1 DEF VaultOK, Heads
<1> QED  BY <1>1, <1>2 DEF VaultOK

LEMMA EffectUnlock ==
  ASSUME ShapeInv, NEW w \in Workspaces, Unlock(w)
  PROVE  /\ TabStays /\ TasksStay /\ StorageStays /\ VaultOK'
         /\ UNCHANGED <<head, seen, committed, hyd, unseen, overtaken, blanked>>
         /\ vault = Closed /\ vault'.ws = w /\ vault'.snap = head[w].snap
<1>1. /\ vault' = [ws |-> w, gen |-> head[w].gen, snap |-> head[w].snap] /\ vault = Closed
      /\ VaultOK /\ UNCHANGED <<head, seen, committed, hyd, unseen, overtaken, blanked>>
      /\ TabStays /\ TasksStay /\ StorageStays
  BY DEF ShapeInv, StoreTypeOK, Unlock, TabStays, TasksStay, StorageStays, storage, refs, ghosts
<1> QED  BY <1>1 DEF VaultOK, Vaults, Heads, SomeWs

\* The store rendered with v: the epochs, the session and what is hydrated.
Renders(v) ==
    /\ TabOK' /\ seen' = v
    /\ committed' = IF seen.ws # v.ws THEN None ELSE committed
    /\ ep'.cancel >= ep.cancel
    /\ IF seen.ws = v.ws THEN ep'.queue = ep.queue
       ELSE ep'.queue = ep.queue + 1 /\ ep'.cancel = ep.cancel + 1
    /\ \/ session' = shown /\ UNCHANGED <<shown, token>> /\ (v = seen \/ ~Leaves(v))
       \/ Leaves(v) /\ EnterDemo
    /\ \/ hyd' = None
       \/ v = seen /\ hyd' = hyd
       \/ /\ hyd' \in Hydrations /\ v.snap # None
          /\ hyd'.ws = v.ws /\ hyd'.gen = v.gen /\ hyd'.snap = v.snap

LEMMA Rendering ==
  ASSUME TabOK, StorageOK, VaultOK, NEW v \in Vaults, Render(v)
  PROVE  Renders(v)
<1> DEFINE e == IF seen.ws # v.ws THEN Advanced(ep, {"cancel", "queue"}) ELSE ep
<1>1. ep \in Epochs /\ \A n \in EpochNames : ep[n] \in Nat  BY DEF TabOK, Epochs
<1>2. /\ e \in Epochs
      /\ IF seen.ws = v.ws THEN e.queue = ep.queue /\ e.cancel = ep.cancel
         ELSE e.queue = ep.queue + 1 /\ e.cancel = ep.cancel + 1
  BY <1>1, Advancing DEF EpochNames
<1>3. LET x == Advanced(e, {"request"})
      IN  x \in Epochs /\ x.queue = e.queue /\ x.cancel = e.cancel
  BY <1>2, Advancing DEF EpochNames
<1>4. ep' \in {e, Advanced(e, {"request"})}  BY DEF Render
<1>5. ep.cancel \in Nat /\ ep.queue \in Nat  BY <1>1 DEF EpochNames
<1>6. /\ ep' \in Epochs /\ ep'.cancel >= ep.cancel
      /\ IF seen.ws = v.ws THEN ep'.queue = ep.queue
         ELSE ep'.queue = ep.queue + 1 /\ ep'.cancel = ep.cancel + 1
  BY <1>2, <1>3, <1>4, <1>5
<1>7. /\ \/ session' = shown /\ UNCHANGED <<shown, token>> /\ (v = seen \/ ~Leaves(v))
         \/ Leaves(v) /\ EnterDemo
      /\ seen' = v /\ committed' = IF seen.ws # v.ws THEN None ELSE committed
  BY DEF Render
<1>8. session' \in Sessions /\ shown' \in Sessions /\ token' \in Tokens
  BY <1>7, EnteringDemo DEF TabOK, EnterDemo
<1>9. \/ hyd' = None
      \/ v = seen /\ hyd' = hyd
      \/ v.snap # None /\ hyd' = [ws |-> v.ws, gen |-> v.gen, snap |-> v.snap, ep |-> e]
  <2> HIDE DEF e
  <2>1. e = IF seen.ws # v.ws THEN Advanced(ep, {"cancel", "queue"}) ELSE ep  BY DEF e
  <2>2. CASE v = seen  BY <2>2 DEF Render
  <2>3. CASE v # seen
    <3>1. hyd' = IF v.snap # None /\ restored # [ws |-> v.ws, gen |-> v.gen] /\ suppressed # v.ws
                 THEN [ws |-> v.ws, gen |-> v.gen, snap |-> v.snap, ep |-> e] ELSE None
      BY <2>1, <2>3 DEF Render
    <3> QED  BY <3>1
  <2> QED  BY <2>2, <2>3
<1>10. ASSUME v.snap # None, hyd' = [ws |-> v.ws, gen |-> v.gen, snap |-> v.snap, ep |-> e]
       PROVE  hyd' \in Hydrations /\ hyd'.ws = v.ws /\ hyd'.gen = v.gen /\ hyd'.snap = v.snap
  BY <1>2, <1>10 DEF Hydrations, Vaults
<1> HIDE DEF e
<1> QED  BY <1>6, <1>7, <1>8, <1>9, <1>10 DEF Renders, TabOK

LEMMA EffectRendered ==
  ASSUME ShapeInv, Rendered
  PROVE  /\ Renders(vault) /\ TasksStay /\ StorageStays /\ VaultOK'
         /\ UNCHANGED <<head, vault, unseen, overtaken, blanked>>
<1>1. TabOK /\ StorageOK /\ VaultOK /\ vault \in Vaults /\ Render(vault)
  BY DEF ShapeInv, StoreTypeOK, VaultOK, Rendered
<1>2. Renders(vault)  BY <1>1, Rendering
<1>3. TasksStay /\ StorageStays /\ UNCHANGED <<head, vault, unseen, overtaken, blanked>>
  BY DEF Rendered, TasksStay, StorageStays, storage, ghosts
<1> QED  BY <1>1, <1>2, <1>3 DEF VaultOK, Renders

LEMMA EffectLock ==
  ASSUME ShapeInv, Lock
  PROVE  /\ Renders(Closed) /\ vault' = Closed /\ StorageStays /\ VaultOK' /\ vaultQ' = vaultQ
         /\ UNCHANGED <<head, unseen, overtaken, blanked>> /\ TasksOK'
         /\ \A u \in Ids : LET q == task'[u]
                               r == task[u] IN
              /\ q.kind = r.kind /\ q.at = r.at /\ q.ep = r.ep /\ q.ws = r.ws /\ q.token = r.token
              /\ q.file = r.file /\ q.mark = r.mark /\ q.base = r.base /\ q.next = r.next
              /\ q.extend = r.extend /\ q.won = r.won /\ q.lost = (r.lost \/ r.at = "sent")
<1>1. TabOK /\ StorageOK /\ VaultOK /\ TasksOK /\ Render(Closed) /\ vault' = Closed
  BY DEF ShapeInv, StoreTypeOK, Lock
<1>2. Closed \in Vaults  BY DEF Closed, Vaults, SomeWs
<1>3. Renders(Closed)  BY <1>1, <1>2, Rendering
<1>4. StorageStays /\ vaultQ' = vaultQ /\ UNCHANGED <<head, unseen, overtaken, blanked>>
  BY DEF Lock, StorageStays, storage, ghosts
<1>5. VaultOK'  BY <1>1, <1>2, <1>3, <1>4 DEF VaultOK, Renders
<1>6. ASSUME NEW u \in Ids
      PROVE  LET q == task'[u]
                 r == task[u] IN
             /\ q \in TaskRecs
             /\ q.kind = r.kind /\ q.at = r.at /\ q.ep = r.ep /\ q.ws = r.ws /\ q.token = r.token
             /\ q.file = r.file /\ q.mark = r.mark /\ q.base = r.base /\ q.next = r.next
             /\ q.extend = r.extend /\ q.won = r.won /\ q.lost = (r.lost \/ r.at = "sent")
  <2>1. task[u] \in TaskRecs  BY <1>1 DEF TasksOK
  <2>2. task'[u] = [task[u] EXCEPT !.lost = task[u].lost \/ task[u].at = "sent"]  BY DEF Lock
  <2> QED  BY <2>1, <2>2 DEF TaskRecs
<1>7. TasksOK'  BY <1>6 DEF TasksOK, Lock
<1> QED  BY <1>1, <1>3, <1>4, <1>5, <1>6, <1>7

LEMMA EffectHydrated ==
  ASSUME ShapeInv, Hydrated
  PROVE  /\ hyd \in Hydrations /\ hyd' = None /\ TabOK' /\ VaultOK' /\ TasksStay /\ StorageStays
         /\ UNCHANGED <<ep, token, head, vault, seen, unseen, blanked>>
         /\ \/ UNCHANGED <<committed, session, shown, overtaken>>
            \/ LET s == Session("vault", hyd.ws, hyd.snap.files, hyd.snap.marks) IN
               /\ session' = s /\ shown' = s
               /\ committed' \in Confirmed /\ committed'.ws = hyd.ws /\ committed'.session = s
               /\ overtaken' = (overtaken \/ vault.gen # hyd.gen)
<1> DEFINE s == Session("vault", hyd.ws, hyd.snap.files, hyd.snap.marks)
<1>1. TabOK /\ VaultOK /\ hyd \in Hydrations /\ hyd' = None
  BY DEF ShapeInv, StoreTypeOK, VaultOK, Hydrated
<1>2. s \in Sessions  BY <1>1, SessionFields DEF Hydrations, Snaps
<1>3. /\ TasksStay /\ StorageStays /\ UNCHANGED <<ep, token, head, vault, seen, unseen, blanked>>
      /\ \/ UNCHANGED <<committed, session, shown, overtaken>>
         \/ /\ committed' = [ws |-> hyd.ws, session |-> s]
            /\ session' = s /\ shown' = s
            /\ overtaken' = (overtaken \/ vault.gen # hyd.gen)
  BY DEF Hydrated, TasksStay, StorageStays, storage, Display
<1> HIDE DEF s
<1>4. [ws |-> hyd.ws, session |-> s] \in Confirmed  BY <1>1, <1>2 DEF Confirmed, Hydrations
<1>5. overtaken' \in BOOLEAN  BY <1>1, <1>3 DEF VaultOK
<1>6. TabOK'  BY <1>1, <1>2, <1>3 DEF TabOK
<1>7. VaultOK'
  <2>1. committed' = None \/ committed' \in Confirmed  BY <1>1, <1>3, <1>4 DEF VaultOK
  <2> QED  BY <1>1, <1>3, <1>5, <2>1 DEF VaultOK
<1>8. committed' = [ws |-> hyd.ws, session |-> s] =>
        committed' \in Confirmed /\ committed'.ws = hyd.ws /\ committed'.session = s
  BY <1>4
<1> QED  BY <1>1, <1>3, <1>6, <1>7, <1>8 DEF s

-----------------------------------------------------------------------------
(* Types and stages *)

LEMMA ShapeInit == Init => ShapeInv
<1> SUFFICES ASSUME Init PROVE ShapeInv
  OBVIOUS
<1>1. PICK stored \in SUBSET Workspaces, f \in Files :
        /\ head = [w \in Workspaces |-> IF w \in stored
                    THEN [gen |-> 1, snap |-> [files |-> {f}, marks |-> {}]]
                    ELSE [gen |-> 0, snap |-> None]]
        /\ vault \in IF stored = {} THEN {Closed}
                     ELSE {[ws |-> w, gen |-> 1, snap |-> head[w].snap] : w \in stored}
        /\ session = IF vault = Closed THEN [where |-> "demo", ws |-> NoWs, files |-> {}, marks |-> {}]
                     ELSE [where |-> "vault", ws |-> vault.ws, files |-> {f}, marks |-> {}]
  BY DEF Init
<1> DEFINE snap == [files |-> {f}, marks |-> {}]
<1>2. snap \in Snaps  BY DEF Snaps
<1>3. head \in [Workspaces -> Heads] /\ \A w \in stored : head[w].snap = snap
  BY <1>1, <1>2 DEF Heads
<1>4. vault = Closed \/ \E w \in stored : vault = [ws |-> w, gen |-> 1, snap |-> snap]
  BY <1>1, <1>3
<1> HIDE DEF snap
<1>5. vault \in Vaults  BY <1>2, <1>4 DEF Vaults, Closed, SomeWs
<1>6. session \in Sessions
  BY <1>1, <1>5 DEF Sessions, Scopes, SomeWs, Vaults
<1>7. ep \in Epochs  BY DEF Init, Epochs, EpochNames
<1>8. TabOK  BY <1>6, <1>7 DEF Init, TabOK, Tokens
<1>9. StorageOK  BY DEF Init, StorageOK, Tokens
<1>10. committed = None \/ committed \in Confirmed
  BY <1>5, <1>6 DEF Init, Confirmed, Vaults
<1>11. VaultOK  BY <1>3, <1>5, <1>10 DEF Init, VaultOK
<1>12. /\ NoTask \in TaskRecs /\ NoTask.kind = "none" /\ NoTask.at = "none" /\ NoTask.mark = None
       /\ NoTask.won = FALSE /\ NoTask.lost = FALSE
  <2>1. /\ NoToken \in Tokens /\ NoWs \in SomeWs /\ NoSnap \in Snaps /\ "none" \in AllKinds
        /\ "none" \in Stages
    BY DEF Tokens, SomeWs, NoSnap, Snaps, AllKinds, Stages
  <2> QED  BY <2>1 DEF NoTask, NewTask, TaskRecs
<1>13. TasksOK /\ \A t \in Ids : task[t] = NoTask  BY <1>12 DEF Init, TasksOK
<1>14. \A t \in Ids : Ripe(task[t], t)
  BY <1>12, <1>13 DEF Ripe, StagesOf
<1>15. vaultQ \in Seq(Ids)  BY DEF Init
<1> QED  BY <1>8, <1>9, <1>11, <1>13, <1>14, <1>15 DEF ShapeInv, StoreTypeOK

LEMMA Stays ==
  ASSUME ShapeInv
  PROVE  /\ TabStays => TabOK'
         /\ StorageStays => StorageOK'
         /\ VaultStays => VaultOK'
         /\ vaultQ' = vaultQ => vaultQ' \in Seq(Ids)
         /\ \A t \in Ids : vaultQ' = Append(vaultQ, t) => vaultQ' \in Seq(Ids)
         /\ \A t \in Ids : vaultQ' = Dequeued(vaultQ, t) => vaultQ' \in Seq(Ids)
<1>1. StoreTypeOK  BY DEF ShapeInv
<1>2. \A t \in Ids : Dequeued(vaultQ, t) \in Seq(Ids)  BY <1>1, Dequeuing DEF StoreTypeOK
<1>3. TabStays => TabOK'  BY <1>1 DEF StoreTypeOK, TabStays, TabOK
<1>4. StorageStays => StorageOK'  BY <1>1 DEF StoreTypeOK, StorageStays, StorageOK
<1>5. VaultStays => VaultOK'
  <2> SUFFICES ASSUME VaultStays PROVE VaultOK'
    OBVIOUS
  <2>1. /\ head' = head /\ vault' = vault /\ seen' = seen /\ committed' = committed /\ hyd' = hyd
        /\ unseen' = unseen /\ overtaken' = overtaken /\ blanked' = blanked
    BY DEF VaultStays
  <2> QED  BY <1>1, <2>1 DEF StoreTypeOK, VaultOK
<1>6. \A t \in Ids : Append(vaultQ, t) \in Seq(Ids)  BY <1>1 DEF StoreTypeOK
<1> QED  BY <1>1, <1>2, <1>3, <1>4, <1>5, <1>6 DEF StoreTypeOK

LEMMA ShapeFrom ==
  ASSUME ShapeInv, NEW t \in Ids, TabOK', StorageOK', VaultOK', TasksOK', vaultQ' \in Seq(Ids),
         Others(t), Ripe(task'[t], t)
  PROVE  ShapeInv'
<1>1. \A u \in Ids : Ripe(task'[u], u)  BY DEF ShapeInv, Others
<1> QED  BY <1>1 DEF ShapeInv, StoreTypeOK

\* An operation that is through, or has left the queue, is as it was.
LEMMA RipeDone ==
  ASSUME ShapeInv, NEW t \in Ids, Goes(t, "done"), task[t].at # "none"
  PROVE  Ripe(task'[t], t)
<1>1. Ripe(task[t], t) /\ task[t] \in TaskRecs /\ task'[t] \in TaskRecs
  BY DEF ShapeInv, StoreTypeOK, TasksOK, Goes
<1> QED  BY <1>1 DEF Goes, Carries, Ripe, StagesOf, TaskRecs, AllKinds

LEMMA ShapeStarts ==
  ASSUME ShapeInv, NEW t \in Ids, NEW k \in AllKinds, Starts(t, k), k # "none",
         task'[t].at \in StagesOf(k) \ {"taken", "sent", "stored", "stored2", "sentCloud"},
         task'[t].ep \in Epochs,
         IF k \in {"mark", "migrate"} THEN task'[t].mark \in Marks /\ task'[t].mark[1] = t
         ELSE task'[t].mark = None,
         k \in {"import", "archive"} => task'[t].file \in Files,
         k = "restore" => task'[t].file \in Files \cup {"demo"},
         task'[t].at = "lock" => session.where \in Scopes,
         task'[t].at = "cloud" => session.where = "cloud"
  PROVE  TasksOK' /\ Others(t) /\ Ripe(task'[t], t)
<1>1. session \in Sessions  BY DEF ShapeInv, StoreTypeOK, TabOK
<1> QED  BY <1>1 DEF Starts, Begins, Ripe

LEMMA ShapeCalls ==
  ASSUME ShapeInv, NEW t \in Ids,
         \/ \E f \in Data : Mark(t, f)
         \/ \E f \in Files : Import(t, f) \/ Archive(t, f)
         \/ \E f \in Files \cup {"demo"} : Restore(t, f)
         \/ Load(t) \/ Clear(t)
  PROVE  ShapeInv'
<1>1. StoreTypeOK /\ TabOK /\ StorageOK /\ fence \in Tokens /\ ep \in Epochs /\ session \in Sessions
  BY DEF ShapeInv, StoreTypeOK, StorageOK, TabOK
<1>2. ASSUME NEW f \in Data, Mark(t, f) PROVE ShapeInv'
  <2>1. /\ Starts(t, task'[t].kind) /\ task'[t].kind \in {"mark", "migrate"}
        /\ task'[t].mark = <<t, f>> /\ task'[t].ep = ep /\ StorageStays /\ VaultStays
        /\ task'[t].at \in {"cloud", "queued", "lock", "done"}
        /\ task'[t].at = "cloud" => session.where = "cloud"
        /\ task'[t].at = "lock" => session.where \in Scopes
        /\ vaultQ' = vaultQ \/ vaultQ' = Append(vaultQ, t)
        /\ TabStays \/ Rebound(fence)
    BY <1>1, <1>2, EffectMark
  <2>2. <<t, f>> \in Marks /\ <<t, f>>[1] = t  BY DEF Marks
  <2>3. task'[t].kind \in AllKinds \ {"none", "import", "archive", "restore"}
        /\ task'[t].at \in StagesOf(task'[t].kind) \ {"taken", "sent", "stored", "stored2", "sentCloud"}
    BY <2>1 DEF AllKinds, StagesOf
  <2>4. TasksOK' /\ Others(t) /\ Ripe(task'[t], t)
    BY <1>1, <2>1, <2>2, <2>3, ShapeStarts
  <2> QED  BY <2>1, <2>4, Stays, ShapeFrom DEF Rebound
<1>3. ASSUME NEW f \in Files, Import(t, f) PROVE ShapeInv'
  <2>1. /\ Starts(t, "import") /\ Imports(task'[t]) /\ TabOK'
        /\ vaultQ' = vaultQ /\ StorageStays /\ VaultStays
    BY <1>1, <1>3, EffectImport
  <2>2. TasksOK' /\ Others(t) /\ Ripe(task'[t], t)
    BY <2>1, ShapeStarts DEF Imports, AllKinds, StagesOf
  <2> QED  BY <2>1, <2>2, Stays, ShapeFrom
<1>4. ASSUME NEW f \in Files, Archive(t, f) PROVE ShapeInv'
  <2>1. /\ Starts(t, "archive") /\ task'[t].at = "verifying" /\ task'[t].file = f
        /\ task'[t].mark = None /\ task'[t].ep \in Epochs
        /\ Later /\ UNCHANGED <<session, shown, token, vaultQ>> /\ StorageStays /\ VaultStays
    BY <1>1, <1>4, EffectArchive
  <2>2. TasksOK' /\ Others(t) /\ Ripe(task'[t], t)
    BY <2>1, ShapeStarts DEF AllKinds, StagesOf
  <2>3. TabOK'  BY <1>1, <2>1 DEF TabOK, Later
  <2> QED  BY <2>1, <2>2, <2>3, Stays, ShapeFrom
<1>5. ASSUME NEW f \in Files \cup {"demo"}, Restore(t, f) PROVE ShapeInv'
  <2>1. /\ Starts(t, "restore") /\ task'[t].file = f /\ task'[t].mark = None
        /\ task'[t].ep \in Epochs /\ Later /\ StorageStays /\ VaultStays
        /\ task'[t].at \in {"queued", "restoring", "done"}
        /\ vaultQ' = vaultQ \/ vaultQ' = Append(vaultQ, t)
        /\ UNCHANGED <<token, session, shown>> \/ Rebound(fence)
    BY <1>1, <1>5, EffectRestore
  <2>2. TasksOK' /\ Others(t) /\ Ripe(task'[t], t)
    BY <2>1, ShapeStarts DEF AllKinds, StagesOf
  <2>3. TabOK'  BY <1>1, <2>1 DEF TabOK, Later, Rebound
  <2> QED  BY <2>1, <2>2, <2>3, Stays, ShapeFrom
<1>6. ASSUME Load(t) PROVE ShapeInv'
  <2>1. /\ Starts(t, "load") /\ task'[t].mark = None /\ task'[t].ep \in Epochs /\ Later
        /\ token' = fence /\ vaultQ' = vaultQ /\ StorageStays /\ VaultStays
        /\ task'[t].at \in {"done", "loading"}
        /\ \/ UNCHANGED <<session, shown>>
           \/ session' = Demo(FALSE) /\ shown' = Demo(FALSE)
           \/ session' = Connecting /\ shown' = Connecting
    BY <1>1, <1>6, EffectLoad
  <2>2. TasksOK' /\ Others(t) /\ Ripe(task'[t], t)
    BY <2>1, ShapeStarts DEF AllKinds, StagesOf
  <2>3. TabOK'  BY <1>1, <2>1, SessionKinds DEF TabOK, Later
  <2> QED  BY <2>1, <2>2, <2>3, Stays, ShapeFrom
<1>7. ASSUME Clear(t) PROVE ShapeInv'
  <2>1. /\ Starts(t, "clear") /\ task'[t].at = "clearing" /\ task'[t].mark = None
        /\ task'[t].ep \in Epochs /\ Later
        /\ UNCHANGED <<session, shown, token, vaultQ>> /\ StorageStays /\ VaultStays
    BY <1>1, <1>7, EffectClear
  <2>2. TasksOK' /\ Others(t) /\ Ripe(task'[t], t)
    BY <2>1, ShapeStarts DEF AllKinds, StagesOf
  <2>3. TabOK'  BY <1>1, <2>1 DEF TabOK, Later
  <2> QED  BY <2>1, <2>2, <2>3, Stays, ShapeFrom
<1> QED  BY <1>2, <1>3, <1>4, <1>5, <1>6, <1>7

LEMMA ShapeSteps ==
  ASSUME ShapeInv, NEW t \in Ids, Step(t)
  PROVE  ShapeInv'
<1>1. /\ StoreTypeOK /\ TabOK /\ StorageOK /\ VaultOK /\ TasksOK /\ Ripe(task[t], t)
      /\ task[t] \in TaskRecs
  BY DEF ShapeInv, StoreTypeOK, TasksOK
<1>2. CASE MarkStored(t)
  <2>1. /\ Goes(t, "stored") /\ task[t].at = "lock" /\ TabStays /\ VaultStays /\ StorageOK' /\ vaultQ' = vaultQ
    BY <1>2, EffectMarkStored
  <2>2. Ripe(task'[t], t)
    BY <1>1, <2>1 DEF Goes, Carries, Ripe, StagesOf, TaskRecs, AllKinds
  <2> QED  BY <2>1, <2>2, Stays, ShapeFrom DEF Goes
<1>3. CASE MarkShown(t)
  <2>1. task[t].at = "stored" /\ Goes(t, "done") /\ TabOK' /\ StorageStays /\ VaultStays /\ vaultQ' = vaultQ
    BY <1>3, EffectMarkShown
  <2> QED  BY <2>1, RipeDone, Stays, ShapeFrom DEF Goes
<1>4. CASE MarkSentToCloud(t)
  <2>1. /\ task[t].at = "cloud" /\ (Goes(t, "sentCloud") \/ Goes(t, "done")) /\ OutcomeStays(t)
        /\ StorageOK' /\ TabStays /\ VaultStays /\ vaultQ' = vaultQ
    BY <1>4, EffectMarkSentToCloud
  <2>2. Ripe(task'[t], t)
    BY <1>1, <2>1 DEF Goes, Carries, OutcomeStays, Ripe, StagesOf, TaskRecs, AllKinds
  <2> QED  BY <2>1, <2>2, Stays, ShapeFrom DEF Goes
<1>5. CASE MarkBackFromCloud(t)
  <2>1. task[t].at = "sentCloud" /\ Goes(t, "done") /\ TabOK' /\ StorageStays /\ VaultStays /\ vaultQ' = vaultQ
    BY <1>5, EffectMarkBackFromCloud
  <2> QED  BY <2>1, RipeDone, Stays, ShapeFrom DEF Goes
<1>6. CASE MarkTaken(t)
  <2>1. /\ task[t].at = "queued" /\ task[t].kind \in {"mark", "migrate"}
        /\ TabStays /\ StorageStays /\ VaultStays
        /\ \/ LeavesQueue(t)
           \/ TakenFrom(t, [files |-> session.files, marks |-> session.marks \cup {task[t].mark}])
    BY <1>6, EffectMarkTaken
  <2>2. CASE LeavesQueue(t)
    BY <2>1, <2>2, RipeDone, Stays, ShapeFrom DEF Goes, LeavesQueue
  <2>3. CASE TakenFrom(t, [files |-> session.files, marks |-> session.marks \cup {task[t].mark}])
    <3>1. Goes(t, "taken") /\ vaultQ' = vaultQ /\ task[t].mark \in task'[t].next.marks
          /\ task'[t].won = task[t].won
      BY <2>3 DEF TakenFrom
    <3>2. Ripe(task'[t], t)
      BY <1>1, <2>1, <3>1 DEF Goes, Carries, Ripe, StagesOf
    <3> QED  BY <2>1, <3>1, <3>2, Stays, ShapeFrom DEF Goes
  <2> QED  BY <2>1, <2>2, <2>3
<1>7. CASE ImportTaken(t)
  <2>1. /\ task[t].at = "queued" /\ task[t].kind = "import" /\ TabStays /\ StorageStays /\ VaultStays
        /\ LeavesQueue(t) \/ TakenFrom(t, Merge(t, ImportBase(t)))
    BY <1>7, EffectImportTaken
  <2>2. CASE LeavesQueue(t)
    BY <2>1, <2>2, RipeDone, Stays, ShapeFrom DEF Goes, LeavesQueue
  <2>3. CASE TakenFrom(t, Merge(t, ImportBase(t)))
    <3>1. Goes(t, "taken") /\ vaultQ' = vaultQ /\ task'[t].next = Merge(t, ImportBase(t))
          /\ task'[t].won = task[t].won
      BY <2>3 DEF TakenFrom
    <3>2. task[t].file \in task'[t].next.files
      BY <1>1, <2>1, <3>1, Bases, Merging DEF Ripe
    <3>3. Ripe(task'[t], t)
      BY <1>1, <2>1, <3>1, <3>2 DEF Goes, Carries, Ripe, StagesOf
    <3> QED  BY <2>1, <3>1, <3>3, Stays, ShapeFrom DEF Goes
  <2> QED  BY <2>1, <2>2, <2>3
<1>8. CASE RestoreTaken(t)
  <2>1. /\ task[t].at = "queued" /\ task[t].kind = "restore" /\ TabStays /\ StorageStays /\ VaultStays
        /\ \/ LeavesQueue(t)
           \/ /\ TakenFrom(t, [files |-> {task[t].file}, marks |-> {<<t, task[t].file>>}])
              /\ task[t].file \in Files
    BY <1>8, EffectRestoreTaken
  <2>2. CASE LeavesQueue(t)
    BY <2>1, <2>2, RipeDone, Stays, ShapeFrom DEF Goes, LeavesQueue
  <2>3. CASE TakenFrom(t, [files |-> {task[t].file}, marks |-> {<<t, task[t].file>>}])
    <3>1. Goes(t, "taken") /\ vaultQ' = vaultQ /\ task'[t].won = task[t].won
          /\ task'[t].next = [files |-> {task[t].file}, marks |-> {<<t, task[t].file>>}]
      BY <2>3 DEF TakenFrom
    <3>2. Ripe(task'[t], t)
      BY <1>1, <2>1, <3>1 DEF Goes, Carries, Ripe, StagesOf
    <3> QED  BY <2>1, <3>1, <3>2, Stays, ShapeFrom DEF Goes
  <2> QED  BY <2>1, <2>2, <2>3
<1>9. CASE VaultSent(t)
  <2>1. /\ task[t].at = "taken" /\ TabStays /\ StorageOK' /\ VaultOK'
        /\ \/ LeavesQueue(t)
           \/ Goes(t, "sent") /\ task'[t].next = task[t].next /\ vaultQ' = vaultQ
    BY <1>9, EffectVaultSent
  <2>2. CASE LeavesQueue(t)
    BY <2>1, <2>2, RipeDone, Stays, ShapeFrom DEF Goes, LeavesQueue
  <2>3. CASE Goes(t, "sent") /\ task'[t].next = task[t].next /\ vaultQ' = vaultQ
    <3>1. Ripe(task'[t], t)
      BY <1>1, <2>1, <2>3 DEF Goes, Carries, Ripe, StagesOf, TaskRecs, AllKinds
    <3> QED  BY <2>1, <2>3, <3>1, Stays, ShapeFrom DEF Goes
  <2> QED  BY <2>1, <2>2, <2>3
<1>10. CASE VaultAnswered(t)
  <2>1. task[t].at = "sent" /\ LeavesQueue(t) /\ TabOK' /\ StorageOK' /\ VaultOK'
    BY <1>10, EffectVaultAnswered
  <2> QED  BY <2>1, RipeDone, Stays, ShapeFrom DEF Goes, LeavesQueue
<1>11. CASE ArchiveVerified(t)
  <2>1. /\ task[t].at = "verifying" /\ TasksOK' /\ Others(t) /\ TabOK'
        /\ task'[t].mark = None /\ task'[t].won = FALSE /\ task'[t].base = task[t].base
        /\ StorageStays /\ VaultStays /\ vaultQ' = vaultQ
        /\ Imports(task'[t]) \/ Goes(t, "done")
    BY <1>11, EffectArchiveVerified
  <2>2. CASE Goes(t, "done")
    BY <2>1, <2>2, RipeDone, Stays, ShapeFrom
  <2>3. CASE Imports(task'[t])
    <3>1. task[t].kind # "none"  BY <1>1, <2>1 DEF Ripe, StagesOf
    <3>2. Ripe(task'[t], t)
      BY <1>1, <2>1, <2>3, <3>1 DEF Imports, Ripe, StagesOf
    <3> QED  BY <2>1, <3>2, Stays, ShapeFrom
  <2> QED  BY <2>1, <2>2, <2>3
<1>12. CASE ImportTurn(t)
  <2>1. /\ task[t].at = "turn" /\ task[t].kind = "import" /\ TabOK' /\ StorageStays /\ VaultStays
    BY <1>12, EffectImportTurn
  <2>2. CASE LeavesQueue(t)
    BY <2>1, <2>2, RipeDone, Stays, ShapeFrom DEF Goes, LeavesQueue
  <2>3. CASE ~LeavesQueue(t)
    <3>1. LET q == task'[t] IN
          /\ TasksOK' /\ Others(t) /\ q.kind = "import" /\ q.ep \in Epochs /\ q.file = task[t].file
          /\ q.mark = task[t].mark /\ q.won = task[t].won /\ q.lost = task[t].lost
          /\ q.base \in Sessions /\ q.at \in {"queued", "preparing"}
          /\ vaultQ' = vaultQ \/ vaultQ' = Append(vaultQ, t)
      BY <1>12, <2>3, EffectImportTurn
    <3>2. Ripe(task'[t], t)
      BY <1>1, <2>1, <3>1 DEF Ripe, StagesOf
    <3> QED  BY <2>1, <3>1, <3>2, Stays, ShapeFrom
  <2> QED  BY <2>2, <2>3
<1>13. CASE ImportShown(t)
  <2>1. task[t].at = "preparing" /\ LeavesQueue(t) /\ TabOK' /\ StorageStays /\ VaultStays
    BY <1>13, EffectImportShown
  <2> QED  BY <2>1, RipeDone, Stays, ShapeFrom DEF Goes, LeavesQueue
<1>14. CASE RestoreStored(t)
  <2>1. /\ task[t].at = "restoring" /\ task[t].kind = "restore" /\ Goes(t, "stored2")
        /\ TabStays /\ VaultStays /\ StorageOK' /\ vaultQ' = vaultQ
    BY <1>14, EffectRestoreStored
  <2>2. Ripe(task'[t], t)
    BY <1>1, <2>1 DEF Goes, Carries, Ripe, StagesOf
  <2> QED  BY <2>1, <2>2, Stays, ShapeFrom DEF Goes
<1>15. CASE RestoreShown(t)
  <2>1. task[t].at = "stored2" /\ Goes(t, "done") /\ TabOK' /\ StorageStays /\ VaultStays /\ vaultQ' = vaultQ
    BY <1>15, EffectRestoreShown
  <2> QED  BY <2>1, RipeDone, Stays, ShapeFrom DEF Goes
<1>16. CASE LoadAnswered(t)
  <2>1. task[t].at = "loading" /\ Goes(t, "done") /\ TabOK' /\ StorageStays /\ VaultOK' /\ vaultQ' = vaultQ
    BY <1>16, EffectLoadAnswered
  <2> QED  BY <2>1, RipeDone, Stays, ShapeFrom DEF Goes
<1>17. CASE ClearStored(t)
  <2>1. /\ task[t].at = "clearing" /\ OutcomeStays(t) /\ (Goes(t, "cleared") \/ Goes(t, "done"))
        /\ TabStays /\ VaultStays /\ StorageOK' /\ vaultQ' = vaultQ
    BY <1>17, EffectClearStored
  <2>2. Ripe(task'[t], t)
    BY <1>1, <2>1 DEF Goes, Carries, OutcomeStays, Ripe, StagesOf, TaskRecs, AllKinds
  <2> QED  BY <2>1, <2>2, Stays, ShapeFrom DEF Goes
<1>18. CASE ClearShown(t)
  <2>1. /\ task[t].at = "cleared" /\ Goes(t, "done") /\ EnterDemo /\ ep' = ep
        /\ StorageStays /\ VaultStays /\ vaultQ' = vaultQ
    BY <1>18, EffectClearShown
  <2>2. TabOK'  BY <1>1, <2>1, EnteringDemo DEF TabOK
  <2> QED  BY <2>1, <2>2, RipeDone, Stays, ShapeFrom DEF Goes
<1> QED
  BY <1>2, <1>3, <1>4, <1>5, <1>6, <1>7, <1>8, <1>9, <1>10, <1>11, <1>12, <1>13, <1>14, <1>15,
     <1>16, <1>17, <1>18 DEF Step

LEMMA ShapeMoves ==
  ASSUME ShapeInv,
         \/ ShowDemo \/ CancelRestoreIntent \/ OtherTab \/ StorageEvent \/ Recover
         \/ \E w \in Workspaces : OtherDevice(w) \/ Unlock(w)
         \/ Rendered \/ Lock \/ Hydrated
  PROVE  ShapeInv'
<1>1. TabOK /\ StorageOK /\ VaultOK /\ TasksOK  BY DEF ShapeInv, StoreTypeOK
<1>2. ASSUME TabOK', StorageOK', VaultOK', TasksStay PROVE ShapeInv'
  <2>1. task' = task /\ vaultQ' = vaultQ  BY <1>2 DEF TasksStay
  <2> QED  BY <1>2, <2>1 DEF ShapeInv, StoreTypeOK, TasksOK
<1>3. ASSUME Later, UNCHANGED <<session, shown, token>> PROVE TabOK'
  BY <1>1, <1>3 DEF TabOK, Later
<1>4. ASSUME Later \/ ep' = ep, EnterDemo PROVE TabOK'
  BY <1>1, <1>4, EnteringDemo DEF TabOK, Later
<1>5. CASE ShowDemo  BY <1>2, <1>4, <1>5, EffectShowDemo, Stays
<1>6. CASE CancelRestoreIntent  BY <1>2, <1>3, <1>6, EffectCancelRestoreIntent, Stays
<1>7. CASE OtherTab  BY <1>2, <1>7, EffectOtherTab, Stays
<1>8. CASE StorageEvent  BY <1>2, <1>8, EffectStorageEvent, Stays DEF Rebound
<1>9. CASE Recover  BY <1>2, <1>9, EffectRecover, Stays
<1>10. ASSUME NEW w \in Workspaces, OtherDevice(w) PROVE ShapeInv'
  BY <1>2, <1>10, EffectOtherDevice, Stays
<1>11. ASSUME NEW w \in Workspaces, Unlock(w) PROVE ShapeInv'
  BY <1>2, <1>11, EffectUnlock, Stays
<1>12. CASE Rendered  BY <1>2, <1>12, EffectRendered, Stays DEF Renders
<1>13. CASE Lock
  <2>1. TabOK' /\ StorageOK' /\ VaultOK' /\ TasksOK' /\ vaultQ' = vaultQ
    BY <1>13, EffectLock, Stays DEF Renders
  <2>2. ASSUME NEW u \in Ids PROVE Ripe(task'[u], u)
    <3>1. LET q == task'[u]
              r == task[u] IN
          /\ q.kind = r.kind /\ q.at = r.at /\ q.ep = r.ep /\ q.file = r.file /\ q.mark = r.mark
          /\ q.base = r.base /\ q.next = r.next /\ q.won = r.won
          /\ q.lost = (r.lost \/ r.at = "sent")
      BY <1>13, EffectLock
    <3>2. Ripe(task[u], u)  BY DEF ShapeInv
    <3>3. task'[u].lost => task'[u].at \in {"sent", "done"}  BY <3>1, <3>2 DEF Ripe
    <3> QED  BY <3>1, <3>2, <3>3 DEF Ripe
  <2> QED  BY <2>1, <2>2 DEF ShapeInv, StoreTypeOK
<1>14. CASE Hydrated  BY <1>2, <1>14, EffectHydrated, Stays
<1> QED  BY <1>5, <1>6, <1>7, <1>8, <1>9, <1>10, <1>11, <1>12, <1>13, <1>14

LEMMA ShapeNext == ShapeInv /\ [Next]_vars => ShapeInv'
<1> SUFFICES ASSUME ShapeInv, [Next]_vars PROVE ShapeInv'
  OBVIOUS
<1>1. CASE UNCHANGED vars
  <2>1. TabStays /\ StorageStays /\ VaultStays /\ vaultQ' = vaultQ /\ task' = task
    BY <1>1 DEF vars, TabStays, StorageStays, VaultStays, storage, refs, ghosts
  <2> QED  BY <2>1, Stays DEF ShapeInv, StoreTypeOK, TasksOK
<1> QED  BY <1>1, ShapeCalls, ShapeSteps, ShapeMoves DEF Next, Step

\* Whatever the tab, the user and the others do, the store's variables keep
\* their types and every operation is at a step of its kind, with what it needs
\* there.
THEOREM StoreShape == Spec => []ShapeInv
  BY ShapeInit, ShapeNext, PTL DEF Spec

-----------------------------------------------------------------------------
(* Who made a mark does not change *)

\* The operations that make marks; they keep what they were called with.
Makers == {"mark", "migrate", "restore"}

MakersStay == \A u \in Ids : task[u].kind \in Makers =>
    /\ task'[u].kind = task[u].kind /\ task'[u].token = task[u].token
    /\ task'[u].ws = task[u].ws /\ task'[u].base = task[u].base /\ task'[u].mark = task[u].mark

LEMMA MakersGo ==
  ASSUME NEW t \in Ids, Others(t), Carries(task'[t], task[t])
  PROVE  MakersStay
  BY DEF Others, Carries, MakersStay

LEMMA MakersStart ==
  ASSUME ShapeInv, NEW t \in Ids, Others(t), task[t].at = "none"
  PROVE  MakersStay
<1>1. task[t].kind \notin Makers  BY DEF ShapeInv, Ripe, StagesOf, Makers
<1> QED  BY <1>1 DEF Others, MakersStay

LEMMA MakersNext ==
  ASSUME ShapeInv, [Next]_vars
  PROVE  MakersStay
<1>1. /\ StoreTypeOK
      /\ \A t \in Ids : Ripe(task[t], t) /\ task[t] \in TaskRecs
  BY DEF ShapeInv, StoreTypeOK, TasksOK
<1>2. ASSUME NEW t \in Ids, NEW k, Starts(t, k) PROVE MakersStay
  BY <1>2, MakersStart DEF Starts
<1>3. ASSUME NEW t \in Ids, NEW a, Goes(t, a) PROVE MakersStay
  BY <1>3, MakersGo DEF Goes
<1>4. ASSUME NEW t \in Ids, NEW f \in Data, Mark(t, f) PROVE MakersStay
  BY <1>1, <1>2, <1>4, EffectMark
<1>5. ASSUME NEW t \in Ids, NEW f \in Files, Import(t, f) PROVE MakersStay
  BY <1>1, <1>2, <1>5, EffectImport
<1>6. ASSUME NEW t \in Ids, NEW f \in Files, Archive(t, f) PROVE MakersStay
  BY <1>1, <1>2, <1>6, EffectArchive
<1>7. ASSUME NEW t \in Ids, NEW f \in Files \cup {"demo"}, Restore(t, f) PROVE MakersStay
  BY <1>1, <1>2, <1>7, EffectRestore
<1>8. ASSUME NEW t \in Ids, Load(t) PROVE MakersStay  BY <1>1, <1>2, <1>8, EffectLoad
<1>9. ASSUME NEW t \in Ids, Clear(t) PROVE MakersStay  BY <1>1, <1>2, <1>9, EffectClear
<1>10. ASSUME NEW t \in Ids, Step(t) PROVE MakersStay
  <2>1. CASE MarkStored(t)  BY <1>3, <2>1, EffectMarkStored
  <2>2. CASE MarkShown(t)  BY <1>3, <2>2, EffectMarkShown
  <2>3. CASE MarkSentToCloud(t)  BY <1>3, <2>3, EffectMarkSentToCloud
  <2>4. CASE MarkBackFromCloud(t)  BY <1>3, <2>4, EffectMarkBackFromCloud
  <2>5. CASE MarkTaken(t)  BY <1>3, <2>5, EffectMarkTaken DEF LeavesQueue, TakenFrom
  <2>6. CASE ImportTaken(t)  BY <1>3, <2>6, EffectImportTaken DEF LeavesQueue, TakenFrom
  <2>7. CASE RestoreTaken(t)  BY <1>3, <2>7, EffectRestoreTaken DEF LeavesQueue, TakenFrom
  <2>8. CASE VaultSent(t)  BY <1>3, <2>8, EffectVaultSent DEF LeavesQueue
  <2>9. CASE VaultAnswered(t)  BY <1>3, <2>9, EffectVaultAnswered DEF LeavesQueue
  <2>10. CASE ArchiveVerified(t)
    <3>1. task[t].at = "verifying" /\ Others(t)  BY <2>10, EffectArchiveVerified
    <3>2. task[t].kind \notin Makers
      BY <1>1, <3>1 DEF Ripe, StagesOf, Makers
    <3> QED  BY <3>1, <3>2 DEF Others, MakersStay
  <2>11. CASE ImportTurn(t)
    <3>1. /\ task[t].kind = "import"
          /\ Others(t)
      BY <2>11, EffectImportTurn DEF LeavesQueue, Goes
    <3> QED  BY <3>1 DEF Others, MakersStay, Makers
  <2>12. CASE ImportShown(t)  BY <1>3, <2>12, EffectImportShown DEF LeavesQueue
  <2>13. CASE RestoreStored(t)  BY <1>3, <2>13, EffectRestoreStored
  <2>14. CASE RestoreShown(t)  BY <1>3, <2>14, EffectRestoreShown
  <2>15. CASE LoadAnswered(t)  BY <1>3, <2>15, EffectLoadAnswered
  <2>16. CASE ClearStored(t)  BY <1>3, <2>16, EffectClearStored
  <2>17. CASE ClearShown(t)  BY <1>3, <2>17, EffectClearShown
  <2> QED
    BY <1>10, <2>1, <2>2, <2>3, <2>4, <2>5, <2>6, <2>7, <2>8, <2>9, <2>10, <2>11, <2>12, <2>13,
       <2>14, <2>15, <2>16, <2>17 DEF Step
<1>11. task' = task => MakersStay  BY DEF MakersStay
<1>12. CASE \/ ShowDemo \/ CancelRestoreIntent \/ OtherTab \/ StorageEvent \/ Recover
            \/ \E w \in Workspaces : OtherDevice(w) \/ Unlock(w)
            \/ Rendered \/ Hydrated
  <2>1. TasksStay
    BY <1>12, EffectShowDemo, EffectCancelRestoreIntent, EffectOtherTab, EffectStorageEvent,
       EffectRecover, EffectOtherDevice, EffectUnlock, EffectRendered, EffectHydrated
  <2> QED  BY <1>11, <2>1 DEF TasksStay
<1>13. CASE Lock  BY <1>13, EffectLock DEF MakersStay
<1>14. CASE UNCHANGED vars  BY <1>11, <1>14 DEF vars
<1> QED  BY <1>4, <1>5, <1>6, <1>7, <1>8, <1>9, <1>10, <1>12, <1>13, <1>14 DEF Next, Step

-----------------------------------------------------------------------------
(* A clear cannot be undone *)

\* A mark made by an operation that held token k.
Of(tasks, m, k) == tasks[m[1]].kind \in Makers /\ tasks[m[1]].token = k
AllOf(tasks, marks, k) == \A m \in marks : Of(tasks, m, k)

\* What is kept, and what is on screen, under their tokens.
KeptUnder == fence # NoToken => \A s \in Scopes : AllOf(task, kept[s], fence)

ShownUnder == ~blanked =>
    /\ session.where = "vault" <=> shown.where = "vault"
    /\ session.where \in Scopes => AllOf(task, session.marks, token)
    /\ shown.where \in Scopes => AllOf(task, shown.marks, token)

\* The steps between which an operation relies on its token.
Holding == {"lock", "stored", "restoring", "stored2", "loading", "preparing"}

\* The token an operation holds, and what an import in the queue still knows.
Bound(t) ==
    /\ task[t].at = "stored" /\ task[t].won => AllOf(task, task[t].next.marks, task[t].token)
    /\ task[t].at \in Holding => task[t].token # NoToken
    /\ task[t].at = "turn" =>
         /\ task[t].ws = NoWs => task[t].token # NoToken
         /\ task[t].ep.cancel <= ep.cancel
         /\ task[t].ep.cancel = ep.cancel => seen.ws = task[t].ws

ClearInv == KeptUnder /\ ShownUnder /\ \A t \in Ids : Bound(t)

LEMMA OfStays ==
  ASSUME MakersStay, NEW marks \in SUBSET Marks, NEW k, AllOf(task, marks, k)
  PROVE  AllOf(task', marks, k)
  BY DEF MakersStay, AllOf, Of, Marks

LEMMA MarksHeld ==
  ASSUME ShapeInv
  PROVE  /\ \A s \in Scopes : kept[s] \in SUBSET Marks
         /\ session.marks \in SUBSET Marks /\ shown.marks \in SUBSET Marks
         /\ \A t \in Ids : task[t].next.marks \in SUBSET Marks
         /\ cloud \in SUBSET Marks
<1>1. session \in Sessions /\ shown \in Sessions /\ StorageOK /\ \A t \in Ids : task[t].next \in Snaps
  BY DEF ShapeInv, StoreTypeOK, TabOK, TasksOK, TaskRecs
<1> QED  BY <1>1 DEF StorageOK, Sessions, Snaps

LEMMA KeptStays ==
  ASSUME ShapeInv, KeptUnder, MakersStay, UNCHANGED <<fence, kept>>
  PROVE  KeptUnder'
<1>1. \A s \in Scopes : AllOf(task, kept[s], fence) => AllOf(task', kept[s], fence)
  BY MarksHeld, OfStays
<1> QED  BY <1>1 DEF KeptUnder

LEMMA ShownStays ==
  ASSUME ShapeInv, ShownUnder, MakersStay, blanked => blanked',
         UNCHANGED <<session, shown, token>> \/ \E k : Rebound(k)
  PROVE  ShownUnder'
<1>1. CASE UNCHANGED <<session, shown, token>>
  <2>1. /\ AllOf(task, session.marks, token) => AllOf(task', session.marks, token)
        /\ AllOf(task, shown.marks, token) => AllOf(task', shown.marks, token)
    BY MarksHeld, OfStays
  <2> QED  BY <1>1, <2>1 DEF ShownUnder
<1>2. ASSUME NEW k, Rebound(k) PROVE ShownUnder'
  <2>1. CASE session.where = "vault" /\ session' = session /\ shown' = shown
    BY <2>1 DEF ShownUnder, Scopes
  <2>2. CASE session' = Demo(FALSE) /\ shown' = Demo(FALSE)
    <3>1. Demo(FALSE).where = "demo" /\ Demo(FALSE).marks = {}
      BY SessionKinds DEF ShapeInv, StoreTypeOK
    <3> QED  BY <2>2, <3>1 DEF ShownUnder, AllOf
  <2> QED  BY <1>2, <2>1, <2>2 DEF Rebound
<1> QED  BY <1>1, <1>2

\* One session is on screen from now on.
LEMMA ShownOne ==
  ASSUME shown' = session', session'.where \in Scopes => AllOf(task', session'.marks, token')
  PROVE  ShownUnder'
  BY DEF ShownUnder

LEMMA DemoUnder ==
  ASSUME ShapeInv, KeptUnder, MakersStay, EnterDemo
  PROVE  ShownUnder'
<1>1. session' = shown' /\ token' = fence /\ session' = Demo(fence # NoToken)
  BY EnteringDemo DEF ShapeInv, StoreTypeOK
<1>2. session'.marks = IF fence # NoToken THEN kept["demo"] ELSE {}
  BY <1>1, SessionKinds DEF ShapeInv, StoreTypeOK
<1>3. fence # NoToken => AllOf(task', kept["demo"], fence)
  BY MarksHeld, OfStays DEF KeptUnder, Scopes
<1>4. AllOf(task', {}, fence)  BY DEF AllOf
<1> QED  BY <1>1, <1>2, <1>3, <1>4, ShownOne

\* The epoch of imports does not go back.
Onward == ep' \in Epochs /\ ep'.cancel >= ep.cancel

LEMMA OnwardLater ==
  ASSUME ShapeInv
  PROVE  /\ Later => Onward
         /\ ep' = ep => Onward
         /\ TabStays => Onward
         /\ \A k : Rebound(k) => Onward
         /\ \A v : Renders(v) => Onward
<1>1. ep \in Epochs /\ ep.cancel \in Nat  BY DEF ShapeInv, StoreTypeOK, TabOK, Epochs, EpochNames
<1>2. ep' = ep => Onward  BY <1>1 DEF Onward
<1>3. Later => Onward  BY DEF Later, Onward
<1>4. ASSUME NEW k, Rebound(k) PROVE Onward  BY <1>3, <1>4 DEF Rebound
<1>5. ASSUME NEW v, Renders(v) PROVE Onward  BY <1>5 DEF Renders, TabOK, Onward
<1> QED  BY <1>2, <1>3, <1>4, <1>5 DEF TabStays

LEMMA BoundStays ==
  ASSUME ShapeInv, MakersStay, Onward, NEW u \in Ids, Bound(u),
         task'[u] = task[u] \/ (task'[u].at = task[u].at /\ task'[u].won = task[u].won
            /\ task'[u].next = task[u].next /\ task'[u].token = task[u].token
            /\ task'[u].ws = task[u].ws /\ task'[u].ep = task[u].ep),
         seen'.ws = seen.ws \/ ep'.cancel = ep.cancel + 1
  PROVE  Bound(u)'
<1>1. ep.cancel \in Nat /\ ep'.cancel \in Nat
  BY DEF ShapeInv, StoreTypeOK, TabOK, Epochs, EpochNames, Onward
<1>2. task[u].at = "turn" => task[u].ep.cancel \in Nat
  <2>1. Ripe(task[u], u)  BY DEF ShapeInv
  <2> QED  BY <2>1 DEF Ripe, StagesOf, Epochs, EpochNames
<1>3. AllOf(task, task[u].next.marks, task[u].token) => AllOf(task', task[u].next.marks, task[u].token)
  BY MarksHeld, OfStays
<1>4. /\ task'[u].at = task[u].at /\ task'[u].won = task[u].won
      /\ task'[u].next = task[u].next /\ task'[u].token = task[u].token
      /\ task'[u].ws = task[u].ws /\ task'[u].ep = task[u].ep
  OBVIOUS
<1>5. Bound(u) => (task[u].at = "stored" /\ task[u].won =>
                     AllOf(task', task[u].next.marks, task[u].token))
  BY <1>3 DEF Bound
<1>6. task'[u].at = "stored" /\ task'[u].won => AllOf(task', task'[u].next.marks, task'[u].token)
  BY <1>4, <1>5
<1>7. task'[u].at \in Holding => task'[u].token # NoToken  BY <1>4 DEF Bound
<1>8. task'[u].at = "turn" =>
         /\ task'[u].ws = NoWs => task'[u].token # NoToken
         /\ task'[u].ep.cancel <= ep'.cancel
         /\ task'[u].ep.cancel = ep'.cancel => seen'.ws = task'[u].ws
  <2>1. Bound(u) => (task[u].at = "turn" =>
         /\ task[u].ws = NoWs => task[u].token # NoToken
         /\ task[u].ep.cancel <= ep.cancel
         /\ task[u].ep.cancel = ep.cancel => seen.ws = task[u].ws)
    BY DEF Bound
  <2> QED  BY <1>1, <1>2, <1>4, <2>1 DEF Onward
<1> QED  BY <1>6, <1>7, <1>8 DEF Bound

LEMMA Unbound ==
  ASSUME NEW t \in Ids, task'[t].at \notin Holding \cup {"turn"}
  PROVE  Bound(t)'
  BY DEF Bound, Holding

LEMMA ClearFrom ==
  ASSUME ShapeInv, ClearInv, MakersStay, Onward, NEW t \in Ids, Others(t), seen' = seen,
         Bound(t)', KeptUnder', ShownUnder'
  PROVE  ClearInv'
<1>1. \A u \in Ids : u # t => Bound(u)'  BY BoundStays DEF Others, ClearInv
<1> QED  BY <1>1 DEF ClearInv

LEMMA ClearInit == Init => ClearInv
<1> SUFFICES ASSUME Init PROVE ClearInv
  OBVIOUS
<1>1. kept = [s \in Scopes |-> {}] /\ shown = session /\ \A t \in Ids : task[t] = NoTask
  BY DEF Init
<1>2. session.where \in Scopes => session.marks = {}
  <2>1. \/ session = [where |-> "demo", ws |-> NoWs, files |-> {}, marks |-> {}]
        \/ \E f \in Files : session = [where |-> "vault", ws |-> vault.ws, files |-> {f}, marks |-> {}]
    BY DEF Init
  <2> QED  BY <2>1
<1>3. NoTask.at = "none"  BY DEF NoTask, NewTask
<1>4. KeptUnder /\ ShownUnder  BY <1>1, <1>2 DEF KeptUnder, ShownUnder, AllOf
<1> QED  BY <1>1, <1>3, <1>4 DEF ClearInv, Bound, Holding

LEMMA ClearCalls ==
  ASSUME ShapeInv, ClearInv, MakersStay, NEW t \in Ids,
         \/ \E f \in Data : Mark(t, f)
         \/ \E f \in Files : Import(t, f) \/ Archive(t, f)
         \/ \E f \in Files \cup {"demo"} : Restore(t, f)
         \/ Load(t) \/ Clear(t)
  PROVE  ClearInv'
<1>1. StoreTypeOK /\ KeptUnder /\ ShownUnder /\ ep \in Epochs  BY DEF ShapeInv, ClearInv, StoreTypeOK, TabOK
<1>2. ASSUME StorageStays, VaultStays, Others(t), Bound(t)', Onward, ShownUnder' PROVE ClearInv'
  BY <1>1, <1>2, KeptStays, ClearFrom DEF StorageStays, VaultStays
<1>3. ASSUME VaultStays, UNCHANGED <<session, shown, token>> \/ \E k : Rebound(k)
      PROVE  ShownUnder'
  BY <1>1, <1>3, ShownStays DEF VaultStays
<1>4. ASSUME NEW f \in Data, Mark(t, f) PROVE ClearInv'
  <2>1. /\ Others(t) /\ StorageStays /\ VaultStays /\ (TabStays \/ Rebound(fence))
        /\ \/ task'[t].at \in {"cloud", "queued", "done"}
           \/ task'[t].at = "lock" /\ task'[t].token # NoToken
    BY <1>1, <1>4, EffectMark DEF Starts
  <2>2. Bound(t)'  BY <2>1 DEF Bound, Holding
  <2>3. ShownUnder'  BY <1>3, <2>1 DEF TabStays
  <2> QED  BY <1>2, <2>1, <2>2, <2>3, OnwardLater
<1>5. ASSUME NEW f \in Files, Import(t, f) PROVE ClearInv'
  <2>1. /\ Others(t) /\ StorageStays /\ VaultStays /\ (TabStays \/ Rebound(fence))
        /\ Imports(task'[t])
    BY <1>1, <1>5, EffectImport DEF Starts
  <2>2. Onward  BY <2>1, OnwardLater
  <2>3. ep'.cancel \in Nat  BY <2>2 DEF Onward, Epochs, EpochNames
  <2>4. Bound(t)'  BY <2>1, <2>3 DEF Imports, VaultStays, Bound, Holding
  <2>5. ShownUnder'  BY <1>3, <2>1 DEF TabStays
  <2> QED  BY <1>2, <2>1, <2>2, <2>4, <2>5
<1>6. ASSUME NEW f \in Files, Archive(t, f) PROVE ClearInv'
  <2>1. /\ Others(t) /\ StorageStays /\ VaultStays /\ Later /\ task'[t].at = "verifying"
        /\ UNCHANGED <<session, shown, token>>
    BY <1>1, <1>6, EffectArchive DEF Starts
  <2> QED  BY <1>2, <1>3, <2>1, OnwardLater, Unbound DEF Holding
<1>7. ASSUME NEW f \in Files \cup {"demo"}, Restore(t, f) PROVE ClearInv'
  <2>1. /\ Others(t) /\ StorageStays /\ VaultStays /\ Later
        /\ \/ task'[t].at \in {"queued", "done"}
           \/ task'[t].at = "restoring" /\ task'[t].token # NoToken
        /\ UNCHANGED <<session, shown, token>> \/ Rebound(fence)
    BY <1>1, <1>7, EffectRestore DEF Starts
  <2>2. Bound(t)'  BY <2>1 DEF Bound, Holding
  <2> QED  BY <1>2, <1>3, <2>1, <2>2, OnwardLater
<1>8. ASSUME Load(t) PROVE ClearInv'
  <2>1. /\ Others(t) /\ StorageStays /\ VaultStays /\ Later
        /\ \/ task'[t].at = "done"
           \/ task'[t].at = "loading" /\ task'[t].token # NoToken
        /\ \/ session.where = "vault" /\ UNCHANGED <<session, shown>>
           \/ session' = Demo(FALSE) /\ shown' = Demo(FALSE)
           \/ session' = Connecting /\ shown' = Connecting
    BY <1>1, <1>8, EffectLoad DEF Starts
  <2>2. Bound(t)'  BY <2>1 DEF Bound, Holding
  <2>3. ShownUnder'
    <3>1. CASE session.where = "vault" /\ UNCHANGED <<session, shown>>
      BY <1>1, <2>1, <3>1 DEF ShownUnder, VaultStays, Scopes
    <3>2. CASE session' = shown' /\ session'.marks = {}
      BY <3>2, ShownOne DEF AllOf
    <3>3. Demo(FALSE).marks = {} /\ Connecting.marks = {}
      BY <1>1, SessionKinds DEF StoreTypeOK
    <3> QED  BY <2>1, <3>1, <3>2, <3>3
  <2> QED  BY <1>2, <2>1, <2>2, <2>3, OnwardLater
<1>9. ASSUME Clear(t) PROVE ClearInv'
  <2>1. /\ Others(t) /\ StorageStays /\ VaultStays /\ Later /\ task'[t].at = "clearing"
        /\ UNCHANGED <<session, shown, token>>
    BY <1>1, <1>9, EffectClear DEF Starts
  <2> QED  BY <1>2, <1>3, <2>1, OnwardLater, Unbound DEF Holding
<1> QED  BY <1>4, <1>5, <1>6, <1>7, <1>8, <1>9

\* A mark joins what is kept, under the token of the operation that made it.
LEMMA KeptGrows ==
  ASSUME ShapeInv, KeptUnder, MakersStay, NEW t \in Ids, NEW s \in Scopes,
         task[t].kind \in Makers, fence = task[t].token, fence' = fence,
         \A u \in Scopes : u # s => kept'[u] = kept[u],
         \A m \in kept'[s] : m \in kept[s] \/ m[1] = t
  PROVE  KeptUnder' /\ (fence # NoToken => AllOf(task', kept'[s], fence))
<1>1. CASE fence = NoToken  BY <1>1 DEF KeptUnder
<1>2. CASE fence # NoToken
  <2>1. \A u \in Scopes : AllOf(task', kept[u], fence)
    BY <1>2, MarksHeld, OfStays DEF KeptUnder
  <2>2. AllOf(task', kept'[s], fence)
    BY <2>1 DEF AllOf, Of, MakersStay
  <2> QED  BY <2>1, <2>2 DEF KeptUnder
<1> QED  BY <1>1, <1>2

LEMMA ClearSteps ==
  ASSUME ShapeInv, ClearInv, MakersStay, NEW t \in Ids, Step(t)
  PROVE  ClearInv'
<1>1. /\ StoreTypeOK /\ KeptUnder /\ ShownUnder /\ ep \in Epochs /\ Ripe(task[t], t) /\ Bound(t)
      /\ task[t] \in TaskRecs
  BY DEF ShapeInv, ClearInv, StoreTypeOK, TabOK, TasksOK
<1>2. ASSUME StorageStays, VaultStays, Others(t), Bound(t)', Onward, ShownUnder' PROVE ClearInv'
  BY <1>1, <1>2, KeptStays, ClearFrom DEF StorageStays, VaultStays
<1>3. ASSUME VaultStays, UNCHANGED <<session, shown, token>> \/ \E k : Rebound(k)
      PROVE  ShownUnder'
  BY <1>1, <1>3, ShownStays DEF VaultStays
<1>4. ASSUME NEW a \in {"done", "sentCloud", "taken", "sent", "cleared"}, Goes(t, a)
      PROVE  Others(t) /\ Bound(t)'
  BY <1>4, Unbound DEF Goes, Holding
<1>5. ASSUME LeavesQueue(t) PROVE Others(t) /\ Bound(t)'
  BY <1>4, <1>5 DEF LeavesQueue
<1>6. TabStays => Onward /\ UNCHANGED <<session, shown, token>>
  BY OnwardLater DEF TabStays
<1>7. CASE MarkStored(t)
  <2> DEFINE s == task[t].base.where
  <2>1. /\ task[t].at = "lock" /\ Goes(t, "stored") /\ s \in Scopes /\ task[t].mark[1] = t
        /\ task[t].kind \in {"mark", "migrate"}
        /\ TabStays /\ VaultStays /\ fence' = fence
    BY <1>7, EffectMarkStored
  <2>2. /\ task'[t].token = task[t].token /\ task[t].token # NoToken /\ task'[t].at = "stored"
        /\ Others(t) /\ task[t].kind \in Makers
    BY <1>1, <2>1 DEF Goes, Carries, Bound, Holding, Makers
  <2>3. ShownUnder' /\ Onward /\ seen' = seen  BY <1>3, <1>6, <2>1 DEF VaultStays
  <2>4. CASE UNCHANGED <<kept, owed>> /\ OutcomeStays(t)
    <3>1. ~task[t].won  BY <1>1, <2>1 DEF Ripe
    <3>2. Bound(t)'  BY <2>2, <2>4, <3>1 DEF Bound, OutcomeStays
    <3>3. KeptUnder'  BY <1>1, <2>1, <2>4, KeptStays
    <3> QED  BY <2>2, <2>3, <3>2, <3>3, ClearFrom
  <2>5. CASE ~(UNCHANGED <<kept, owed>> /\ OutcomeStays(t))
    <3>1. /\ fence = task[t].token /\ task'[t].next.marks = kept'[s]
          /\ kept'[s] = kept[s] \cup {task[t].mark}
          /\ \A u \in Scopes : u # s => kept'[u] = kept[u]
      BY <1>7, <2>5, EffectMarkStored
    <3>2. KeptUnder' /\ AllOf(task', kept'[s], fence)
      BY <1>1, <2>1, <2>2, <3>1, KeptGrows
    <3>3. Bound(t)'  BY <2>2, <3>1, <3>2 DEF Bound
    <3> QED  BY <2>2, <2>3, <3>2, <3>3, ClearFrom
  <2> QED  BY <2>4, <2>5
<1>8. CASE MarkShown(t)
  <2>1. /\ task[t].at = "stored" /\ Goes(t, "done") /\ TabOK' /\ StorageStays /\ VaultStays
        /\ \/ TabStays
           \/ Rebound(fence)
           \/ /\ UNCHANGED <<ep, token>> /\ token = task[t].token /\ task[t].won
              /\ session'.marks = task[t].next.marks /\ shown' = session'
    BY <1>8, EffectMarkShown
  <2>2. ASSUME /\ UNCHANGED <<ep, token>> /\ token = task[t].token /\ task[t].won
               /\ session'.marks = task[t].next.marks /\ shown' = session'
        PROVE  ShownUnder' /\ Onward
    <3>1. AllOf(task', task[t].next.marks, task[t].token)
      BY <1>1, <2>1, <2>2, MarksHeld, OfStays DEF Bound
    <3> QED  BY <2>2, <3>1, ShownOne, OnwardLater
  <2> QED  BY <1>2, <1>3, <1>4, <1>6, <2>1, <2>2, OnwardLater
<1>9. CASE MarkSentToCloud(t)
  <2>1. /\ (Goes(t, "sentCloud") \/ Goes(t, "done"))
        /\ UNCHANGED <<fence, kept>> /\ TabStays /\ VaultStays
    BY <1>9, EffectMarkSentToCloud
  <2>2. Others(t) /\ Bound(t)'  BY <1>4, <2>1
  <2> QED  BY <1>1, <1>3, <1>6, <2>1, <2>2, KeptStays, ClearFrom DEF VaultStays
<1>10. CASE MarkBackFromCloud(t)
  <2>1. /\ Goes(t, "done") /\ StorageStays /\ VaultStays
        /\ \/ TabStays
           \/ /\ UNCHANGED <<ep, token>> /\ session' = Live("cloud") /\ shown' = session'
    BY <1>10, EffectMarkBackFromCloud
  <2>2. Live("cloud").where \notin Scopes  BY <1>1, SessionKinds DEF StoreTypeOK, Scopes
  <2> QED  BY <1>2, <1>3, <1>4, <1>6, <2>1, <2>2, ShownOne, OnwardLater
<1>11. CASE MarkTaken(t) \/ ImportTaken(t) \/ RestoreTaken(t)
  <2>1. /\ TabStays /\ StorageStays /\ VaultStays
        /\ LeavesQueue(t) \/ Goes(t, "taken")
    BY <1>11, EffectMarkTaken, EffectImportTaken, EffectRestoreTaken DEF TakenFrom
  <2> QED  BY <1>2, <1>3, <1>4, <1>5, <1>6, <2>1
<1>12. CASE VaultSent(t)
  <2>1. /\ TabStays /\ UNCHANGED <<fence, kept, seen, blanked>>
        /\ LeavesQueue(t) \/ Goes(t, "sent")
    BY <1>12, EffectVaultSent
  <2>2. Others(t) /\ Bound(t)'  BY <1>4, <1>5, <2>1
  <2>3. ShownUnder'  BY <1>1, <1>6, <2>1, ShownStays
  <2> QED  BY <1>1, <1>6, <2>1, <2>2, <2>3, KeptStays, ClearFrom
<1>13. CASE VaultAnswered(t)
  <2>1. /\ LeavesQueue(t) /\ UNCHANGED <<ep, token, fence, kept, seen, blanked>>
        /\ \/ UNCHANGED <<session, shown>>
           \/ session' = VaultSession(t) /\ shown' = VaultSession(t)
    BY <1>13, EffectVaultAnswered
  <2>2. Others(t) /\ Bound(t)'  BY <1>5, <2>1
  <2>3. VaultSession(t).where = "vault"  BY DEF VaultSession, Session
  <2>4. ShownUnder'
    BY <1>1, <2>1, <2>3, ShownStays, ShownOne DEF Scopes
  <2> QED  BY <1>1, <2>1, <2>2, <2>4, KeptStays, ClearFrom, OnwardLater
<1>14. CASE ArchiveVerified(t)
  <2>1. /\ Others(t) /\ StorageStays /\ VaultStays /\ (TabStays \/ Rebound(fence))
        /\ Imports(task'[t]) \/ Goes(t, "done")
    BY <1>14, EffectArchiveVerified
  <2>2. Onward  BY <2>1, OnwardLater
  <2>3. ep'.cancel \in Nat  BY <2>2 DEF Onward, Epochs, EpochNames
  <2>4. Imports(task'[t]) => Bound(t)'  BY <2>1, <2>3 DEF Imports, VaultStays, Bound, Holding
  <2>5. ShownUnder'  BY <1>3, <2>1 DEF TabStays
  <2> QED  BY <1>2, <1>4, <2>1, <2>2, <2>4, <2>5
<1>15. CASE ImportTurn(t)
  <2>1. /\ task[t].at = "turn" /\ UNCHANGED <<session, shown, token>> /\ Later
        /\ StorageStays /\ VaultStays
    BY <1>15, EffectImportTurn
  <2>2. CASE LeavesQueue(t)  BY <1>2, <1>3, <1>5, <2>1, <2>2, OnwardLater
  <2>3. CASE ~LeavesQueue(t)
    <3>1. /\ ep.cancel = task[t].ep.cancel /\ Others(t)
          /\ task'[t].token = task[t].token
          /\ \/ task'[t].at = "queued"
             \/ task'[t].at = "preparing" /\ seen.ws = NoWs
      BY <1>15, <2>3, EffectImportTurn
    <3>2. Bound(t)'  BY <1>1, <2>1, <3>1 DEF Bound, Holding
    <3> QED  BY <1>2, <1>3, <2>1, <3>1, <3>2, OnwardLater
  <2> QED  BY <2>2, <2>3
<1>16. CASE ImportShown(t)
  <2>1. /\ task[t].at = "preparing" /\ LeavesQueue(t) /\ TabOK' /\ StorageStays /\ VaultStays
        /\ \/ TabStays
           \/ Rebound(fence)
           \/ /\ UNCHANGED <<ep, token>> /\ token = task[t].token /\ fence = task[t].token
              /\ shown' = session'
              /\ \/ session.where = "browser" /\ session'.marks \subseteq session.marks
                 \/ session'.marks = kept["browser"]
    BY <1>16, EffectImportShown
  <2>2. ASSUME /\ UNCHANGED <<ep, token>> /\ token = task[t].token /\ fence = task[t].token
               /\ shown' = session'
        PROVE  ShownUnder' /\ Onward
    <3>1. CASE session.where = "browser" /\ session'.marks \subseteq session.marks
      <4>1. ~blanked => AllOf(task', session.marks, token)
        BY <1>1, <3>1, MarksHeld, OfStays DEF ShownUnder, Scopes
      <4>2. ~blanked => AllOf(task', session'.marks, token')
        BY <2>2, <3>1, <4>1 DEF AllOf
      <4> QED  BY <2>1, <2>2, <4>2, ShownOne, OnwardLater DEF ShownUnder, VaultStays
    <3>2. CASE session'.marks = kept["browser"]
      <4>1. fence # NoToken  BY <1>1, <2>1, <2>2 DEF Bound, Holding
      <4>2. AllOf(task', kept["browser"], fence)
        BY <1>1, <4>1, MarksHeld, OfStays DEF KeptUnder, Scopes
      <4> QED  BY <2>2, <3>2, <4>2, ShownOne, OnwardLater
    <3>3. CASE TabStays  BY <1>3, <1>6, <2>1, <3>3
    <3>4. CASE Rebound(fence)  BY <1>3, <2>1, <3>4, OnwardLater
    <3> QED  BY <2>1, <3>1, <3>2, <3>3, <3>4
  <2> QED  BY <1>2, <1>3, <1>5, <1>6, <2>1, <2>2, OnwardLater
<1>17. CASE RestoreStored(t)
  <2> DEFINE p == Place(t)
             b == {<<t, task[t].file>>}
  <2>1. /\ task[t].at = "restoring" /\ task[t].kind = "restore" /\ Goes(t, "stored2")
        /\ TabStays /\ VaultStays /\ fence' = fence /\ p \in Scopes
        /\ \/ /\ fence = task[t].token
              /\ \A u \in Scopes : kept'[u] = IF u = p THEN b ELSE kept[u]
           \/ kept' = kept
    BY <1>17, EffectRestoreStored
  <2>2. /\ Others(t) /\ task'[t].token = task[t].token /\ task'[t].at = "stored2"
    BY <2>1 DEF Goes, Carries
  <2>3. Bound(t)'  BY <1>1, <2>1, <2>2 DEF Bound, Holding
  <2>4. ShownUnder' /\ Onward /\ seen' = seen  BY <1>3, <1>6, <2>1 DEF VaultStays
  <2>5. KeptUnder'
    <3>1. CASE kept' = kept  BY <1>1, <2>1, <3>1, KeptStays
    <3>2. CASE /\ fence = task[t].token
               /\ \A u \in Scopes : kept'[u] = IF u = p THEN b ELSE kept[u]
      <4> HIDE DEF p
      <4>1. kept'[p] = b /\ \A m \in b : m[1] = t  BY <2>1, <3>2
      <4> HIDE DEF b
      <4> QED  BY <1>1, <2>1, <3>2, <4>1, KeptGrows DEF Makers
    <3> QED  BY <2>1, <3>1, <3>2
  <2> QED  BY <2>2, <2>3, <2>4, <2>5, ClearFrom
<1>18. CASE RestoreShown(t)
  <2>1. /\ task[t].kind = "restore" /\ Goes(t, "done") /\ StorageStays /\ VaultStays
        /\ \/ TabStays
           \/ Rebound(fence)
           \/ /\ UNCHANGED <<ep, token>> /\ token = task[t].token /\ shown' = session'
              /\ session'.marks = {<<t, task[t].file>>}
    BY <1>18, EffectRestoreShown
  <2>2. ASSUME /\ UNCHANGED <<ep, token>> /\ token = task[t].token /\ shown' = session'
               /\ session'.marks = {<<t, task[t].file>>}
        PROVE  ShownUnder' /\ Onward
    <3>1. AllOf(task', session'.marks, token')
      BY <2>1, <2>2 DEF AllOf, Of, MakersStay, Makers
    <3> QED  BY <2>2, <3>1, ShownOne, OnwardLater
  <2> QED  BY <1>2, <1>3, <1>4, <1>6, <2>1, <2>2, OnwardLater
<1>19. CASE LoadAnswered(t)
  <2>1. /\ task[t].at = "loading" /\ Goes(t, "done") /\ StorageStays /\ seen' = seen
        /\ blanked' = (blanked \/ (shown.where = "vault" /\ shown' # shown))
        /\ \/ TabStays
           \/ Rebound(fence)
           \/ /\ UNCHANGED <<ep, token, session>>
              /\ token = task[t].token /\ fence = task[t].token
              /\ \/ \E mode \in {"runtime", "cloud"} : shown' = Live(mode)
                 \/ shown' = Blocked(shown)
    BY <1>19, EffectLoadAnswered
  <2>2. CASE blanked'
    <3>1. ShownUnder'  BY <2>2 DEF ShownUnder
    <3>2. Onward  BY <1>6, <2>1, OnwardLater
    <3> QED  BY <1>1, <1>4, <2>1, <3>1, <3>2, KeptStays, ClearFrom DEF StorageStays
  <2>3. CASE ~blanked'
    <3>1. ~blanked /\ (shown.where = "vault" => shown' = shown)  BY <2>1, <2>3
    <3>2. ASSUME UNCHANGED <<session, shown, token>> \/ \E k : Rebound(k) PROVE ShownUnder'
      BY <1>1, <3>1, <3>2, ShownStays
    <3>3. ASSUME /\ UNCHANGED <<ep, token, session>>
                 /\ token = task[t].token /\ fence = task[t].token
                 /\ \/ \E mode \in {"runtime", "cloud"} : shown' = Live(mode)
                    \/ shown' = Blocked(shown)
          PROVE  ShownUnder'
      <4>1. fence # NoToken  BY <1>1, <2>1, <3>3 DEF Bound, Holding
      <4>2. AllOf(task', kept["runtime"], token)
        BY <1>1, <3>3, <4>1, MarksHeld, OfStays DEF KeptUnder, Scopes
      <4>3. session.where \in Scopes => AllOf(task', session.marks, token)
        BY <1>1, <3>1, MarksHeld, OfStays DEF ShownUnder
      <4>4. CASE shown.where = "vault"
        <5>1. shown' = shown  BY <3>1, <4>4
        <5>2. UNCHANGED <<session, shown, token>>  BY <3>3, <5>1
        <5> QED  BY <3>2, <5>2
      <4>5. CASE shown.where # "vault"
        <5>1. session.where # "vault"  BY <1>1, <3>1, <4>5 DEF ShownUnder
        <5>2. shown'.where # "vault" /\ (shown'.where \in Scopes => AllOf(task', shown'.marks, token))
          <6>1. shown \in Sessions /\ StorageOK  BY <1>1 DEF StoreTypeOK, TabOK
          <6>2. CASE shown' = Blocked(shown)
            BY <4>5, <6>1, <6>2, Blocking DEF AllOf
          <6>3. ASSUME NEW mode \in {"runtime", "cloud"}, shown' = Live(mode)
                PROVE shown'.where # "vault" /\ (shown'.where \in Scopes => AllOf(task', shown'.marks, token))
            <7>1. shown'.where = mode /\ shown'.marks = IF mode = "cloud" THEN cloud ELSE kept["runtime"]
              BY <6>1, <6>3, SessionKinds
            <7> QED  BY <4>2, <6>3, <7>1 DEF Scopes
          <6> QED  BY <3>3, <6>2, <6>3
        <5>3. session' = session /\ token' = token  BY <3>3
        <5> QED  BY <4>3, <5>1, <5>2, <5>3 DEF ShownUnder
      <4> QED  BY <4>4, <4>5
    <3>4. ShownUnder' /\ Onward
      <4>1. CASE TabStays  BY <1>6, <3>2, <4>1
      <4>2. CASE Rebound(fence)  BY <3>2, <4>2, OnwardLater
      <4> QED  BY <2>1, <3>3, <4>1, <4>2, OnwardLater
    <3> QED  BY <1>1, <1>4, <2>1, <3>4, KeptStays, ClearFrom DEF StorageStays
  <2> QED  BY <2>2, <2>3
<1>20. CASE ClearStored(t)
  <2>1. /\ (Goes(t, "cleared") \/ Goes(t, "done")) /\ TabStays /\ VaultStays
        /\ Empties \/ StorageStays
    BY <1>20, EffectClearStored
  <2>2. KeptUnder'
    BY <1>1, <2>1, KeptStays DEF Empties, StorageStays, KeptUnder, AllOf
  <2>3. Others(t) /\ Bound(t)'  BY <1>4, <2>1
  <2> QED  BY <1>3, <1>6, <2>1, <2>2, <2>3, ClearFrom DEF VaultStays
<1>21. CASE ClearShown(t)
  <2>1. Goes(t, "done") /\ EnterDemo /\ ep' = ep /\ StorageStays /\ VaultStays
    BY <1>21, EffectClearShown
  <2> QED  BY <1>1, <1>2, <1>4, <2>1, DemoUnder, OnwardLater
<1> QED
  BY <1>7, <1>8, <1>9, <1>10, <1>11, <1>12, <1>13, <1>14, <1>15, <1>16, <1>17, <1>18, <1>19,
     <1>20, <1>21 DEF Step

LEMMA ClearMoves ==
  ASSUME ShapeInv, ClearInv, MakersStay,
         \/ ShowDemo \/ CancelRestoreIntent \/ OtherTab \/ StorageEvent \/ Recover
         \/ \E w \in Workspaces : OtherDevice(w) \/ Unlock(w)
         \/ Rendered \/ Lock \/ Hydrated
  PROVE  ClearInv'
<1>1. /\ StoreTypeOK /\ KeptUnder /\ ShownUnder /\ \A t \in Ids : Bound(t)
  BY DEF ShapeInv, ClearInv
<1>2. ASSUME StorageStays, ShownUnder', Onward, seen'.ws = seen.ws, TasksStay PROVE ClearInv'
  <2>1. \A u \in Ids : Bound(u)'  BY <1>1, <1>2, BoundStays DEF TasksStay
  <2> QED  BY <1>1, <1>2, <2>1, KeptStays DEF ClearInv, StorageStays
<1>3. ASSUME UNCHANGED <<session, shown, token>> \/ \E k : Rebound(k), blanked' = blanked
      PROVE  ShownUnder'
  BY <1>1, <1>3, ShownStays
<1>4. CASE ShowDemo
  BY <1>1, <1>2, <1>4, EffectShowDemo, DemoUnder, OnwardLater DEF VaultStays
<1>5. CASE CancelRestoreIntent
  BY <1>2, <1>3, <1>5, EffectCancelRestoreIntent, OnwardLater DEF VaultStays
<1>6. CASE OtherTab
  <2>1. TabStays /\ TasksStay /\ VaultStays /\ (Empties \/ fence' = NoToken)
    BY <1>6, EffectOtherTab
  <2>2. KeptUnder'  BY <2>1 DEF Empties, KeptUnder, AllOf
  <2>3. ShownUnder'  BY <1>3, <2>1 DEF TabStays, VaultStays
  <2>4. \A u \in Ids : Bound(u)'
    BY <1>1, <2>1, BoundStays, OnwardLater DEF TasksStay, VaultStays
  <2> QED  BY <2>2, <2>3, <2>4 DEF ClearInv
<1>7. CASE StorageEvent
  BY <1>2, <1>3, <1>7, EffectStorageEvent, OnwardLater DEF VaultStays
<1>8. CASE Recover
  BY <1>2, <1>3, <1>8, EffectRecover, OnwardLater DEF VaultStays, TabStays
<1>9. ASSUME NEW w \in Workspaces, OtherDevice(w) PROVE ClearInv'
  BY <1>2, <1>3, <1>9, EffectOtherDevice, OnwardLater DEF TabStays
<1>10. ASSUME NEW w \in Workspaces, Unlock(w) PROVE ClearInv'
  BY <1>2, <1>3, <1>10, EffectUnlock, OnwardLater DEF TabStays
<1>11. ASSUME NEW v, Renders(v), blanked' = blanked PROVE ShownUnder'
  <2>1. CASE session' = shown /\ UNCHANGED <<shown, token>>
    <3>1. AllOf(task, shown.marks, token) => AllOf(task', shown.marks, token)
      BY MarksHeld, OfStays
    <3> QED  BY <1>1, <1>11, <2>1, <3>1 DEF ShownUnder
  <2>2. CASE EnterDemo  BY <1>1, <2>2, DemoUnder
  <2> QED  BY <1>11, <2>1, <2>2 DEF Renders
<1>12. ASSUME NEW v, Renders(v) PROVE Onward /\ (seen'.ws = seen.ws \/ ep'.cancel = ep.cancel + 1)
  BY <1>12, OnwardLater DEF Renders
<1>13. CASE Rendered
  <2>1. Renders(vault) /\ TasksStay /\ StorageStays /\ blanked' = blanked
    BY <1>13, EffectRendered
  <2>2. ShownUnder' /\ Onward /\ (seen'.ws = seen.ws \/ ep'.cancel = ep.cancel + 1)
    BY <1>11, <1>12, <2>1
  <2>3. \A u \in Ids : Bound(u)'  BY <1>1, <2>1, <2>2, BoundStays DEF TasksStay
  <2> QED  BY <1>1, <2>1, <2>2, <2>3, KeptStays DEF ClearInv, StorageStays
<1>14. CASE Lock
  <2>1. /\ Renders(Closed) /\ StorageStays /\ blanked' = blanked
        /\ \A u \in Ids : /\ task'[u].at = task[u].at /\ task'[u].won = task[u].won
                          /\ task'[u].next = task[u].next /\ task'[u].token = task[u].token
                          /\ task'[u].ws = task[u].ws /\ task'[u].ep = task[u].ep
    BY <1>14, EffectLock
  <2>2. ShownUnder' /\ Onward /\ (seen'.ws = seen.ws \/ ep'.cancel = ep.cancel + 1)
    BY <1>11, <1>12, <2>1
  <2>3. \A u \in Ids : Bound(u)'  BY <1>1, <2>1, <2>2, BoundStays
  <2> QED  BY <1>1, <2>1, <2>2, <2>3, KeptStays DEF ClearInv, StorageStays
<1>15. CASE Hydrated
  <2>1. /\ TasksStay /\ StorageStays /\ UNCHANGED <<ep, token, seen, blanked>>
        /\ \/ UNCHANGED <<session, shown>>
           \/ /\ session' = Session("vault", hyd.ws, hyd.snap.files, hyd.snap.marks)
              /\ shown' = session'
    BY <1>15, EffectHydrated
  <2>2. ShownUnder'
    BY <1>3, <2>1, ShownOne DEF Session, Scopes
  <2> QED  BY <1>2, <2>1, <2>2, OnwardLater
<1> QED  BY <1>4, <1>5, <1>6, <1>7, <1>8, <1>9, <1>10, <1>13, <1>14, <1>15

LEMMA ClearNext == ShapeInv /\ ClearInv /\ [Next]_vars => ClearInv'
<1> SUFFICES ASSUME ShapeInv, ClearInv, [Next]_vars PROVE ClearInv'
  OBVIOUS
<1>1. MakersStay  BY MakersNext
<1>2. CASE UNCHANGED vars
  <2>1. TabStays /\ StorageStays /\ VaultStays /\ task' = task
    BY <1>2 DEF vars, TabStays, StorageStays, VaultStays, storage, refs, ghosts
  <2>2. KeptUnder'  BY <1>1, <2>1, KeptStays DEF ClearInv, StorageStays
  <2>3. ShownUnder'  BY <1>1, <2>1, ShownStays DEF ClearInv, TabStays, VaultStays
  <2>4. \A u \in Ids : Bound(u)'
    BY <1>1, <2>1, BoundStays, OnwardLater DEF ClearInv, VaultStays
  <2> QED  BY <2>2, <2>3, <2>4 DEF ClearInv
<1> QED  BY <1>1, <1>2, ClearCalls, ClearSteps, ClearMoves DEF Next, Step

\* A clear in any tab cannot be undone by a late step: unless a Binance answer
\* took the vault's session off the screen, a browser session shows nothing that
\* was made under another token than the one it is bound to.
THEOREM ClearedStaysCleared == Spec => []NoClearedData
<1>1. ShapeInv /\ ClearInv => NoClearedData
  BY DEF ClearInv, ShownUnder, AllOf, Of, NoClearedData
<1> QED  BY <1>1, ShapeInit, ShapeNext, ClearInit, ClearNext, PTL DEF Spec

-----------------------------------------------------------------------------
(* What belongs where *)

\* Marks made by operations that had no vault on screen, or that of w.
Owned(tasks, marks, w) == \A m \in marks :
    /\ tasks[m[1]].kind \in Makers
    /\ tasks[m[1]].base.where = "vault" => tasks[m[1]].base.ws = w

\* A session of the vault shows one workspace, any other shows nothing made in one.
Belongs(tasks, s, w) ==
    /\ IF s.where = "vault" THEN s.ws = w /\ w # NoWs ELSE s.ws = NoWs
    /\ Owned(tasks, s.marks, s.ws)

\* The same of the screen, the storage, the heads and the vault.
ScreenPlaced == Belongs(task, session, seen.ws) /\ Belongs(task, shown, seen.ws)

StoresPlaced == Owned(task, cloud, NoWs) /\ \A s \in Scopes : Owned(task, kept[s], NoWs)

HeadsPlaced == \A w \in Workspaces : head[w].snap # None => Owned(task, head[w].snap.marks, w)

VaultPlaced ==
    /\ vault.ws = NoWs => vault = Closed
    /\ vault.snap # None => Owned(task, vault.snap.marks, vault.ws)
    /\ seen = Closed \/ (seen.ws = vault.ws /\ seen.ws # NoWs)
    /\ committed # None =>
         /\ committed.ws = seen.ws /\ committed.session.where = "vault"
         /\ Belongs(task, committed.session, seen.ws)
    /\ hyd # None =>
         /\ hyd.ws = seen.ws /\ hyd.ws = vault.ws /\ hyd.ws # NoWs
         /\ Owned(task, hyd.snap.marks, hyd.ws)

Sending(t) == task[t].at = "sent" /\ ~task[t].lost
\* The steps outside the vault.
AtBrowser == {"lock", "stored", "cloud", "sentCloud", "restoring", "stored2"}

\* Where an operation and what it carries belong.
Assigned(t) ==
    /\ task[t].at \in InVaultQueue => task[t].ws # NoWs
    /\ Sending(t) => vault.ws = task[t].ws /\ seen.ws = task[t].ws
    /\ task[t].kind \in Makers /\ task[t].base.where = "vault" =>
          task[t].base.ws = task[t].ws /\ task[t].ws # NoWs
    /\ task[t].at \in AtBrowser => task[t].base.where # "vault"
    /\ task[t].at \in {"taken", "sent"} => Owned(task, task[t].next.marks, task[t].ws)
    /\ task[t].at = "stored" /\ task[t].won => Owned(task, task[t].next.marks, NoWs)

PlacesInv == ScreenPlaced /\ StoresPlaced /\ HeadsPlaced /\ VaultPlaced /\ \A t \in Ids : Assigned(t)

LEMMA OwnedStays ==
  ASSUME MakersStay, NEW marks \in SUBSET Marks, NEW w, Owned(task, marks, w)
  PROVE  Owned(task', marks, w)
  BY DEF MakersStay, Owned, Marks

LEMMA BelongsStays ==
  ASSUME MakersStay, NEW s \in Sessions, NEW w, Belongs(task, s, w)
  PROVE  Belongs(task', s, w)
<1>1. s.marks \in SUBSET Marks  BY DEF Sessions
<1> QED  BY <1>1, OwnedStays DEF Belongs

\* What no vault made may be kept in any of them.
LEMMA OwnedAnywhere ==
  ASSUME \A t \in Ids : Assigned(t), NEW marks \in SUBSET Marks, NEW w, Owned(task, marks, NoWs)
  PROVE  Owned(task, marks, w)
  BY DEF Assigned, Owned, Marks

LEMMA VaultHeld ==
  ASSUME ShapeInv
  PROVE  /\ \A w \in Workspaces : head[w].snap # None => head[w].snap.marks \in SUBSET Marks
         /\ vault.snap # None => vault.snap.marks \in SUBSET Marks
         /\ committed # None => committed.session \in Sessions
         /\ hyd # None => hyd.snap.marks \in SUBSET Marks
         /\ session \in Sessions /\ shown \in Sessions
<1>1. VaultOK /\ TabOK  BY DEF ShapeInv, StoreTypeOK
<1> QED  BY <1>1 DEF VaultOK, TabOK, Heads, Vaults, Confirmed, Hydrations, Snaps

LEMMA StoresStay ==
  ASSUME ShapeInv, PlacesInv, MakersStay, UNCHANGED <<kept, cloud>>
  PROVE  StoresPlaced'
<1>1. /\ Owned(task', cloud, NoWs) /\ \A s \in Scopes : Owned(task', kept[s], NoWs)
  BY MarksHeld, OwnedStays DEF PlacesInv, StoresPlaced
<1> QED  BY <1>1 DEF StoresPlaced

LEMMA HeadsStay ==
  ASSUME ShapeInv, PlacesInv, MakersStay,
         \A w \in Workspaces : head'[w].snap = head[w].snap
            \/ (head'[w].snap # None => Owned(task', head'[w].snap.marks, w))
  PROVE  HeadsPlaced'
<1>1. \A w \in Workspaces : head[w].snap # None => Owned(task', head[w].snap.marks, w)
  BY VaultHeld, OwnedStays DEF PlacesInv, HeadsPlaced
<1> QED  BY <1>1 DEF HeadsPlaced

LEMMA ScreenStays ==
  ASSUME ShapeInv, PlacesInv, MakersStay, seen'.ws = seen.ws,
         UNCHANGED <<session, shown>> \/ \E k : Rebound(k)
  PROVE  ScreenPlaced'
<1>1. Belongs(task', session, seen.ws) /\ Belongs(task', shown, seen.ws)
  BY VaultHeld, BelongsStays DEF PlacesInv, ScreenPlaced
<1>2. CASE UNCHANGED <<session, shown>>  BY <1>1, <1>2 DEF ScreenPlaced
<1>3. CASE session' = Demo(FALSE) /\ shown' = Demo(FALSE)
  <2>1. Demo(FALSE).where = "demo" /\ Demo(FALSE).ws = NoWs /\ Demo(FALSE).marks = {}
    BY SessionKinds DEF ShapeInv, StoreTypeOK
  <2>2. Belongs(task', Demo(FALSE), seen.ws)  BY <2>1 DEF Belongs, Owned
  <2> QED  BY <1>3, <2>2 DEF ScreenPlaced
<1> QED  BY <1>2, <1>3 DEF Rebound

\* One session, of no vault, is on screen from now on.
LEMMA ScreenOutside ==
  ASSUME session' = shown', session'.where # "vault", session'.ws = NoWs,
         Owned(task', session'.marks, NoWs)
  PROVE  ScreenPlaced'
  BY DEF ScreenPlaced, Belongs

LEMMA DemoPlaced ==
  ASSUME ShapeInv, PlacesInv, MakersStay, EnterDemo
  PROVE  ScreenPlaced'
<1>1. session' = shown' /\ session' = Demo(fence # NoToken)
  BY EnteringDemo DEF ShapeInv, StoreTypeOK
<1>2. /\ session'.where = "demo" /\ session'.ws = NoWs
      /\ session'.marks = IF fence # NoToken THEN kept["demo"] ELSE {}
  BY <1>1, SessionKinds DEF ShapeInv, StoreTypeOK
<1>3. Owned(task', kept["demo"], NoWs)
  BY MarksHeld, OwnedStays DEF PlacesInv, StoresPlaced, Scopes
<1>4. Owned(task', {}, NoWs)  BY DEF Owned
<1> QED  BY <1>1, <1>2, <1>3, <1>4, ScreenOutside

LEMMA VaultPlacedStays ==
  ASSUME ShapeInv, PlacesInv, MakersStay, UNCHANGED <<vault, seen, committed, hyd>>
  PROVE  VaultPlaced'
<1>1. vault.snap # None => Owned(task', vault.snap.marks, vault.ws)
  BY VaultHeld, OwnedStays DEF PlacesInv, VaultPlaced
<1>2. committed # None => Belongs(task', committed.session, seen.ws)
  BY VaultHeld, BelongsStays DEF PlacesInv, VaultPlaced
<1>3. hyd # None => Owned(task', hyd.snap.marks, hyd.ws)
  BY VaultHeld, OwnedStays DEF PlacesInv, VaultPlaced
<1> QED  BY <1>1, <1>2, <1>3 DEF PlacesInv, VaultPlaced

\* The operation is where it was.
SameCourse(q, r) ==
    /\ q.kind = r.kind /\ q.at = r.at /\ q.ws = r.ws /\ q.base = r.base /\ q.next = r.next
    /\ q.won => r.won
    /\ r.lost => q.lost

LEMMA AssignedStays ==
  ASSUME ShapeInv, MakersStay, NEW u \in Ids, Assigned(u), SameCourse(task'[u], task[u]),
         Sending(u)' => vault'.ws = vault.ws /\ seen'.ws = seen.ws
  PROVE  Assigned(u)'
<1>1. /\ task'[u].kind = task[u].kind /\ task'[u].at = task[u].at /\ task'[u].ws = task[u].ws
      /\ task'[u].base = task[u].base /\ task'[u].next = task[u].next
  BY DEF SameCourse
<1>2. task[u].next.marks \in SUBSET Marks  BY MarksHeld
<1>3. task'[u].at \in {"taken", "sent"} => Owned(task', task'[u].next.marks, task'[u].ws)
  BY <1>1, <1>2, OwnedStays DEF Assigned
<1>4. task[u].at = "stored" /\ task[u].won => Owned(task', task[u].next.marks, NoWs)
  BY <1>2, OwnedStays DEF Assigned
<1>5. task'[u].at = "stored" /\ task'[u].won => Owned(task', task'[u].next.marks, NoWs)
  BY <1>1, <1>4 DEF SameCourse
<1>6. Sending(u)' => Sending(u)  BY <1>1 DEF SameCourse, Sending
<1>7. Sending(u)' => vault'.ws = task'[u].ws /\ seen'.ws = task'[u].ws
  BY <1>1, <1>6 DEF Assigned
<1> QED  BY <1>1, <1>3, <1>5, <1>7 DEF Assigned

\* An operation that is through leaves nothing to place.
LEMMA AssignedDone ==
  ASSUME NEW t \in Ids, Assigned(t), Carries(task'[t], task[t]),
         task'[t].at \notin InVaultQueue \cup {"stored"},
         task'[t].at \in AtBrowser => task[t].at \in AtBrowser
  PROVE  Assigned(t)'
  BY DEF Assigned, Carries, Sending, InVaultQueue

LEMMA PlacesFrom ==
  ASSUME ShapeInv, PlacesInv, MakersStay, NEW t \in Ids, Others(t),
         vault'.ws = vault.ws, seen'.ws = seen.ws,
         Assigned(t)', ScreenPlaced', StoresPlaced', HeadsPlaced', VaultPlaced'
  PROVE  PlacesInv'
<1>1. \A u \in Ids : u # t => SameCourse(task'[u], task[u])  BY DEF Others, SameCourse
<1>2. \A u \in Ids : u # t => Assigned(u)'  BY <1>1, AssignedStays DEF PlacesInv
<1> QED  BY <1>2 DEF PlacesInv

LEMMA PlacesInit == Init => PlacesInv
<1> SUFFICES ASSUME Init PROVE PlacesInv
  OBVIOUS
<1>1. PICK stored \in SUBSET Workspaces, f \in Files :
        /\ head = [w \in Workspaces |-> IF w \in stored
                    THEN [gen |-> 1, snap |-> [files |-> {f}, marks |-> {}]]
                    ELSE [gen |-> 0, snap |-> None]]
        /\ vault \in IF stored = {} THEN {Closed}
                     ELSE {[ws |-> w, gen |-> 1, snap |-> head[w].snap] : w \in stored}
        /\ session = IF vault = Closed THEN [where |-> "demo", ws |-> NoWs, files |-> {}, marks |-> {}]
                     ELSE [where |-> "vault", ws |-> vault.ws, files |-> {f}, marks |-> {}]
  BY DEF Init
<1>2. \A w \in Workspaces : head[w].snap # None => head[w].snap.marks = {}  BY <1>1
<1>3. vault = Closed \/ \E w \in stored : vault = [ws |-> w, gen |-> 1, snap |-> head[w].snap]
  BY <1>1
<1>4. /\ vault.ws = NoWs => vault = Closed
      /\ vault.snap # None => vault.snap.marks = {}
      /\ vault # Closed => vault.ws # NoWs
  BY <1>2, <1>3, StoreAssumption DEF Closed
<1>5. /\ session.where = "vault" <=> vault # Closed
      /\ session.ws = vault.ws /\ session.marks = {}
  BY <1>1 DEF Closed
<1>6. /\ shown = session /\ seen = vault /\ hyd = None /\ kept = [s \in Scopes |-> {}] /\ cloud = {}
      /\ committed = IF vault = Closed THEN None ELSE [ws |-> vault.ws, session |-> session]
      /\ task = [t \in Ids |-> NoTask]
  BY DEF Init
<1>7. \A w : Owned(task, {}, w)  BY DEF Owned
<1>8. Belongs(task, session, seen.ws)  BY <1>4, <1>5, <1>6, <1>7 DEF Belongs, Closed
<1>9. VaultPlaced
  BY <1>4, <1>5, <1>6, <1>7, <1>8 DEF VaultPlaced
<1>10. HeadsPlaced  BY <1>2, <1>7 DEF HeadsPlaced
<1>11. StoresPlaced  BY <1>6, <1>7 DEF StoresPlaced
<1>12. NoTask.at = "none" /\ NoTask.kind = "none"  BY DEF NoTask, NewTask
<1>13. \A t \in Ids : Assigned(t)
  BY <1>6, <1>12 DEF Assigned, Sending, InVaultQueue, AtBrowser, Makers
<1> QED  BY <1>6, <1>8, <1>9, <1>10, <1>11, <1>13 DEF PlacesInv, ScreenPlaced

LEMMA PlacesCalls ==
  ASSUME ShapeInv, PlacesInv, MakersStay, NEW t \in Ids,
         \/ \E f \in Data : Mark(t, f)
         \/ \E f \in Files : Import(t, f) \/ Archive(t, f)
         \/ \E f \in Files \cup {"demo"} : Restore(t, f)
         \/ Load(t) \/ Clear(t)
  PROVE  PlacesInv'
<1>1. StoreTypeOK /\ ScreenPlaced  BY DEF ShapeInv, PlacesInv
<1>2. ASSUME StorageStays, VaultStays, Others(t), Assigned(t)', ScreenPlaced' PROVE PlacesInv'
  <2>1. UNCHANGED <<kept, cloud>> /\ UNCHANGED <<vault, seen, committed, hyd>> /\ head' = head
    BY <1>2 DEF StorageStays, VaultStays
  <2>2. StoresPlaced' /\ HeadsPlaced' /\ VaultPlaced'
    BY <2>1, StoresStay, HeadsStay, VaultPlacedStays
  <2> QED  BY <1>2, <2>1, <2>2, PlacesFrom
<1>3. ASSUME VaultStays, UNCHANGED <<session, shown>> \/ \E k : Rebound(k) PROVE ScreenPlaced'
  BY <1>3, ScreenStays DEF VaultStays
\* A new operation has the session on screen for its base.
<1>4. ASSUME NEW k, Starts(t, k),
             task'[t].at \in {"queued", "taken", "sent"} => task'[t].at = "queued" /\ seen.ws # NoWs,
             task'[t].at \notin {"stored", "stored2", "sentCloud"},
             task'[t].at \in AtBrowser => session.where # "vault"
      PROVE  Others(t) /\ Assigned(t)'
  <2>1. /\ Others(t) /\ task'[t].ws = seen.ws /\ task'[t].base = session
    BY <1>4 DEF Starts, Begins
  <2>2. session.where = "vault" => session.ws = seen.ws /\ seen.ws # NoWs
    BY <1>1 DEF ScreenPlaced, Belongs
  <2> QED  BY <1>4, <2>1, <2>2 DEF Assigned, Sending, InVaultQueue, AtBrowser
<1>5. ASSUME NEW f \in Data, Mark(t, f) PROVE PlacesInv'
  <2>1. /\ Starts(t, task'[t].kind) /\ StorageStays /\ VaultStays /\ (TabStays \/ Rebound(fence))
        /\ \/ task'[t].at = "cloud" /\ session.where = "cloud"
           \/ task'[t].at = "queued" /\ seen.ws # NoWs
           \/ task'[t].at = "lock" /\ session.where \in Scopes
           \/ task'[t].at = "done"
    BY <1>1, <1>5, EffectMark
  <2>2. Others(t) /\ Assigned(t)'  BY <1>4, <2>1 DEF Scopes, AtBrowser
  <2>3. ScreenPlaced'  BY <1>3, <2>1 DEF TabStays
  <2> QED  BY <1>2, <2>1, <2>2, <2>3
<1>6. ASSUME NEW f \in Files, Import(t, f) PROVE PlacesInv'
  <2>1. /\ Starts(t, "import") /\ Imports(task'[t]) /\ StorageStays /\ VaultStays
        /\ TabStays \/ Rebound(fence)
    BY <1>1, <1>6, EffectImport
  <2>2. Others(t) /\ Assigned(t)'  BY <1>4, <2>1 DEF Imports, AtBrowser
  <2>3. ScreenPlaced'  BY <1>3, <2>1 DEF TabStays
  <2> QED  BY <1>2, <2>1, <2>2, <2>3
<1>7. ASSUME NEW f \in Files, Archive(t, f) PROVE PlacesInv'
  <2>1. /\ Starts(t, "archive") /\ task'[t].at = "verifying" /\ StorageStays /\ VaultStays
        /\ UNCHANGED <<session, shown>>
    BY <1>1, <1>7, EffectArchive
  <2>2. Others(t) /\ Assigned(t)'  BY <1>4, <2>1 DEF AtBrowser
  <2> QED  BY <1>2, <1>3, <2>1, <2>2
<1>8. ASSUME NEW f \in Files \cup {"demo"}, Restore(t, f) PROVE PlacesInv'
  <2>1. /\ Starts(t, "restore") /\ StorageStays /\ VaultStays
        /\ UNCHANGED <<session, shown>> \/ Rebound(fence)
        /\ \/ task'[t].at = "queued" /\ seen.ws # NoWs
           \/ task'[t].at = "restoring" /\ seen.ws = NoWs
           \/ task'[t].at = "done"
    BY <1>1, <1>8, EffectRestore
  <2>2. seen.ws = NoWs => session.where # "vault"  BY <1>1 DEF ScreenPlaced, Belongs
  <2>3. Others(t) /\ Assigned(t)'  BY <1>4, <2>1, <2>2 DEF AtBrowser
  <2> QED  BY <1>2, <1>3, <2>1, <2>3
<1>9. ASSUME Load(t) PROVE PlacesInv'
  <2>1. /\ Starts(t, "load") /\ StorageStays /\ VaultStays /\ task'[t].at \in {"done", "loading"}
        /\ \/ UNCHANGED <<session, shown>>
           \/ session' = Demo(FALSE) /\ shown' = Demo(FALSE)
           \/ session' = Connecting /\ shown' = Connecting
    BY <1>1, <1>9, EffectLoad
  <2>2. /\ Demo(FALSE).where = "demo" /\ Demo(FALSE).ws = NoWs /\ Demo(FALSE).marks = {}
        /\ Connecting.where = "runtime" /\ Connecting.ws = NoWs /\ Connecting.marks = {}
    BY <1>1, SessionKinds DEF StoreTypeOK
  <2>3. Owned(task', {}, NoWs)  BY DEF Owned
  <2>4. ScreenPlaced'  BY <1>3, <2>1, <2>2, <2>3, ScreenOutside
  <2>5. Others(t) /\ Assigned(t)'  BY <1>4, <2>1 DEF AtBrowser
  <2> QED  BY <1>2, <2>1, <2>4, <2>5
<1>10. ASSUME Clear(t) PROVE PlacesInv'
  <2>1. /\ Starts(t, "clear") /\ task'[t].at = "clearing" /\ StorageStays /\ VaultStays
        /\ UNCHANGED <<session, shown>>
    BY <1>1, <1>10, EffectClear
  <2>2. Others(t) /\ Assigned(t)'  BY <1>4, <2>1 DEF AtBrowser
  <2> QED  BY <1>2, <1>3, <2>1, <2>2
<1> QED  BY <1>5, <1>6, <1>7, <1>8, <1>9, <1>10

LEMMA VaultSessions ==
  ASSUME ShapeInv, NEW t \in Ids
  PROVE  LET s == VaultSession(t) IN
         /\ s \in Sessions /\ s.where = "vault" /\ s.ws = task[t].ws
         /\ s.files = task[t].next.files /\ s.marks = task[t].next.marks
<1>1. task[t].next \in Snaps /\ task[t].ws \in SomeWs
  BY DEF ShapeInv, StoreTypeOK, TasksOK, TaskRecs
<1> QED  BY <1>1, SessionFields DEF VaultSession, Snaps

LEMMA HydratedSession ==
  ASSUME hyd \in Hydrations
  PROVE  LET s == Session("vault", hyd.ws, hyd.snap.files, hyd.snap.marks) IN
         /\ s.where = "vault" /\ s.ws = hyd.ws
         /\ s.files = hyd.snap.files /\ s.marks = hyd.snap.marks
  BY SessionFields DEF Hydrations, Snaps

\* Taken from the queue: what is to be sent belongs to the workspace of the operation.
LEMMA TakenPlaced ==
  ASSUME ShapeInv, PlacesInv, MakersStay, NEW t \in Ids, NEW c, TakenFrom(t, c),
         task[t].at = "queued", Owned(task, c.marks, task[t].ws)
  PROVE  Assigned(t)'
<1>1. /\ task'[t].kind = task[t].kind /\ task'[t].at = "taken" /\ task'[t].ws = task[t].ws
      /\ task'[t].base = task[t].base /\ task'[t].next = c /\ c \in Snaps
  BY DEF TakenFrom, Goes, Carries
<1>2. Owned(task', c.marks, task[t].ws)  BY <1>1, OwnedStays DEF Snaps
<1> QED  BY <1>1, <1>2 DEF PlacesInv, Assigned, Sending, InVaultQueue, AtBrowser

LEMMA PlacesSteps ==
  ASSUME ShapeInv, ClearInv, PlacesInv, MakersStay, NEW t \in Ids, Step(t)
  PROVE  PlacesInv'
<1>1. /\ StoreTypeOK /\ ScreenPlaced /\ StoresPlaced /\ HeadsPlaced /\ VaultPlaced /\ Assigned(t)
      /\ Ripe(task[t], t) /\ task[t] \in TaskRecs /\ \A u \in Ids : Assigned(u)
  BY DEF ShapeInv, PlacesInv, StoreTypeOK, TasksOK
<1>2. ASSUME UNCHANGED <<kept, cloud>>, VaultStays, Others(t), Assigned(t)', ScreenPlaced'
      PROVE PlacesInv'
  <2>1. UNCHANGED <<vault, seen, committed, hyd>> /\ head' = head
    BY <1>2 DEF VaultStays
  <2>2. StoresPlaced' /\ HeadsPlaced' /\ VaultPlaced'
    BY <1>2, <2>1, StoresStay, HeadsStay, VaultPlacedStays
  <2> QED  BY <1>2, <2>1, <2>2, PlacesFrom
<1>3. ASSUME VaultStays, TabStays \/ \E k : Rebound(k) PROVE ScreenPlaced'
  BY <1>3, ScreenStays DEF VaultStays, TabStays
<1>4. ASSUME NEW a \in {"done", "cleared", "sentCloud", "stored2"}, Goes(t, a),
             a \in {"sentCloud", "stored2"} => task[t].at \in AtBrowser
      PROVE  Others(t) /\ Assigned(t)'
  <2>1. /\ Others(t) /\ Carries(task'[t], task[t]) /\ task'[t].at \notin InVaultQueue \cup {"stored"}
        /\ task'[t].at \in AtBrowser => task[t].at \in AtBrowser
    BY <1>4 DEF Goes, InVaultQueue, AtBrowser
  <2> QED  BY <1>1, <2>1, AssignedDone
<1>5. ASSUME LeavesQueue(t) PROVE Others(t) /\ Assigned(t)'
  BY <1>4, <1>5 DEF LeavesQueue
<1>6. StorageStays => UNCHANGED <<kept, cloud>>  BY DEF StorageStays
<1>7. CASE MarkStored(t)
  <2> DEFINE s == task[t].base.where
  <2>1. /\ task[t].at = "lock" /\ Goes(t, "stored") /\ s \in Scopes /\ task[t].mark[1] = t
        /\ task[t].kind \in {"mark", "migrate"}
        /\ TabStays /\ VaultStays /\ cloud' = cloud
    BY <1>7, EffectMarkStored
  <2>2. /\ task'[t].kind = task[t].kind /\ task'[t].base = task[t].base /\ task'[t].ws = task[t].ws
        /\ task'[t].at = "stored" /\ Others(t) /\ task[t].kind \in Makers
        /\ task[t].base.where # "vault"
    BY <1>1, <2>1 DEF Goes, Carries, Makers, Assigned, AtBrowser
  <2>3. ScreenPlaced'  BY <1>3, <2>1
  <2>4. CASE UNCHANGED <<kept, owed>> /\ OutcomeStays(t)
    <3>1. ~task[t].won  BY <1>1, <2>1 DEF Ripe
    <3>2. ~task'[t].won  BY <2>4, <3>1 DEF OutcomeStays
    <3>3. Assigned(t)'  BY <2>2, <3>2 DEF Assigned, Sending, InVaultQueue
    <3> QED  BY <1>2, <2>1, <2>2, <2>3, <2>4, <3>3
  <2>5. CASE ~(UNCHANGED <<kept, owed>> /\ OutcomeStays(t))
    <3>1. /\ task'[t].next.marks = kept'[s] /\ kept'[s] = kept[s] \cup {task[t].mark}
          /\ \A u \in Scopes : u # s => kept'[u] = kept[u]
      BY <1>7, <2>5, EffectMarkStored
    <3>2. \A u \in Scopes : Owned(task', kept[u], NoWs)
      BY <1>1, MarksHeld, OwnedStays DEF StoresPlaced
    <3>3. Owned(task', {task[t].mark}, NoWs)  BY <2>1, <2>2 DEF Owned
    <3>4. Owned(task', kept'[s], NoWs)  BY <2>1, <3>1, <3>2, <3>3 DEF Owned
    <3>5. Assigned(t)'  BY <2>2, <3>1, <3>4 DEF Assigned, Sending, InVaultQueue
    <3>6. Owned(task', cloud, NoWs)  BY <1>1, MarksHeld, OwnedStays DEF StoresPlaced
    <3>7. StoresPlaced'  BY <2>1, <3>1, <3>2, <3>4, <3>6 DEF StoresPlaced
    <3>8. HeadsPlaced' /\ VaultPlaced'
      BY <2>1, HeadsStay, VaultPlacedStays DEF VaultStays
    <3> QED  BY <2>1, <2>2, <2>3, <3>5, <3>7, <3>8, PlacesFrom DEF VaultStays
  <2> QED  BY <2>4, <2>5
<1>8. CASE MarkShown(t)
  <2>1. /\ task[t].at = "stored" /\ Goes(t, "done") /\ StorageStays /\ VaultStays
        /\ \/ TabStays
           \/ Rebound(fence)
           \/ /\ task[t].won /\ session.where = task[t].base.where /\ session'.where = session.where
              /\ session'.ws = session.ws
              /\ session'.marks = task[t].next.marks /\ shown' = session'
    BY <1>8, EffectMarkShown
  <2>2. ASSUME /\ task[t].won /\ session.where = task[t].base.where /\ session'.where = session.where
               /\ session'.ws = session.ws
               /\ session'.marks = task[t].next.marks /\ shown' = session'
        PROVE  ScreenPlaced'
    <3>1. session.where # "vault"  BY <1>1, <2>1, <2>2 DEF Assigned, AtBrowser
    <3>2. session.ws = NoWs  BY <1>1, <3>1 DEF ScreenPlaced, Belongs
    <3>3. Owned(task', task[t].next.marks, NoWs)
      BY <1>1, <2>1, <2>2, MarksHeld, OwnedStays DEF Assigned
    <3> QED  BY <2>2, <3>1, <3>2, <3>3, ScreenOutside
  <2> QED  BY <1>2, <1>3, <1>4, <1>6, <2>1, <2>2
<1>9. CASE MarkSentToCloud(t)
  <2>1. /\ task[t].at = "cloud" /\ (Goes(t, "sentCloud") \/ Goes(t, "done"))
        /\ task[t].kind \in {"mark", "migrate"} /\ task[t].mark[1] = t
        /\ (cloud' = cloud \/ cloud' = cloud \cup {task[t].mark})
        /\ kept' = kept /\ TabStays /\ VaultStays
    BY <1>9, EffectMarkSentToCloud
  <2>2. Others(t) /\ Assigned(t)'  BY <1>4, <2>1 DEF AtBrowser
  <2>3. \A u \in Scopes : Owned(task', kept[u], NoWs)
    BY <1>1, MarksHeld, OwnedStays DEF StoresPlaced
  <2>4. Owned(task', cloud, NoWs)  BY <1>1, MarksHeld, OwnedStays DEF StoresPlaced
  <2>5. task[t].kind \in Makers /\ task[t].base.where # "vault"
    BY <1>1, <2>1 DEF Makers, Assigned, AtBrowser
  <2>6. Owned(task', {task[t].mark}, NoWs)  BY <2>1, <2>5 DEF Owned, MakersStay
  <2>7. Owned(task', cloud', NoWs)  BY <2>1, <2>4, <2>6 DEF Owned
  <2>8. StoresPlaced'  BY <2>1, <2>3, <2>7 DEF StoresPlaced
  <2>9. HeadsPlaced' /\ VaultPlaced'
    BY <2>1, HeadsStay, VaultPlacedStays DEF VaultStays
  <2> QED  BY <1>3, <2>1, <2>2, <2>8, <2>9, PlacesFrom DEF VaultStays
<1>10. CASE MarkBackFromCloud(t)
  <2>1. /\ Goes(t, "done") /\ StorageStays /\ VaultStays
        /\ \/ TabStays
           \/ session' = Live("cloud") /\ shown' = session'
    BY <1>10, EffectMarkBackFromCloud
  <2>2. Live("cloud").where = "cloud" /\ Live("cloud").ws = NoWs /\ Live("cloud").marks = cloud
    BY <1>1, SessionKinds DEF StoreTypeOK
  <2>3. Owned(task', cloud, NoWs)  BY <1>1, MarksHeld, OwnedStays DEF StoresPlaced
  <2>4. ScreenPlaced'  BY <1>3, <2>1, <2>2, <2>3, ScreenOutside
  <2> QED  BY <1>2, <1>4, <1>6, <2>1, <2>4
<1>11. CASE MarkTaken(t)
  <2> DEFINE c == [files |-> session.files, marks |-> session.marks \cup {task[t].mark}]
  <2>1. /\ task[t].at = "queued" /\ task[t].kind \in {"mark", "migrate"}
        /\ TabStays /\ StorageStays /\ VaultStays
        /\ \/ LeavesQueue(t)
           \/ /\ TakenFrom(t, c) /\ task[t].mark[1] = t
              /\ session.where = "vault" /\ session.ws = task[t].ws
    BY <1>11, EffectMarkTaken
  <2>2. ASSUME TakenFrom(t, c), task[t].mark[1] = t, session.ws = task[t].ws
        PROVE  Others(t) /\ Assigned(t)'
    <3>1. Owned(task, session.marks, task[t].ws)  BY <1>1, <2>2 DEF ScreenPlaced, Belongs
    <3>2. Owned(task, {task[t].mark}, task[t].ws)  BY <1>1, <2>1, <2>2 DEF Owned, Assigned, Makers
    <3>3. Owned(task, c.marks, task[t].ws)  BY <3>1, <3>2 DEF Owned
    <3> HIDE DEF c
    <3> QED  BY <2>1, <2>2, <3>3, TakenPlaced DEF TakenFrom, Goes
  <2> QED  BY <1>2, <1>3, <1>5, <1>6, <2>1, <2>2
<1>12. CASE ImportTaken(t)
  <2> DEFINE b == ImportBase(t)
  <2>1. /\ task[t].at = "queued" /\ task[t].kind = "import" /\ TabStays /\ StorageStays /\ VaultStays
        /\ LeavesQueue(t) \/ (TakenFrom(t, Merge(t, b)) /\ seen.ws = task[t].ws)
    BY <1>12, EffectImportTaken
  <2>2. ASSUME TakenFrom(t, Merge(t, b)), seen.ws = task[t].ws
        PROVE  Others(t) /\ Assigned(t)'
    <3>1. Owned(task, b.marks, task[t].ws)
      <4>1. CASE committed # None /\ committed.ws = task[t].ws
        <5>1. b = committed.session  BY <4>1 DEF ImportBase
        <5> QED  BY <1>1, <2>2, <4>1, <5>1 DEF VaultPlaced, Belongs
      <4>2. CASE ~(committed # None /\ committed.ws = task[t].ws)
        <5>1. b = session  BY <4>2 DEF ImportBase
        <5>2. session.marks \in SUBSET Marks  BY MarksHeld
        <5>3. Belongs(task, session, seen.ws)  BY <1>1 DEF ScreenPlaced
        <5> QED  BY <1>1, <2>2, <5>1, <5>2, <5>3, OwnedAnywhere DEF Belongs
      <4> QED  BY <4>1, <4>2
    <3>2. b \in Sessions /\ task[t].file \in Files  BY <1>1, <2>1, Bases DEF Ripe
    <3> HIDE DEF b
    <3>3. Merge(t, b).marks \subseteq b.marks  BY <3>2, Merging
    <3>4. Owned(task, Merge(t, b).marks, task[t].ws)  BY <3>1, <3>3 DEF Owned
    <3> QED  BY <2>1, <2>2, <3>4, TakenPlaced DEF TakenFrom, Goes
  <2> QED  BY <1>2, <1>3, <1>5, <1>6, <2>1, <2>2
<1>13. CASE RestoreTaken(t)
  <2> DEFINE c == [files |-> {task[t].file}, marks |-> {<<t, task[t].file>>}]
  <2>1. /\ task[t].at = "queued" /\ task[t].kind = "restore" /\ TabStays /\ StorageStays /\ VaultStays
        /\ LeavesQueue(t) \/ TakenFrom(t, c)
    BY <1>13, EffectRestoreTaken
  <2>2. Owned(task, {<<t, task[t].file>>}, task[t].ws)  BY <1>1, <2>1 DEF Owned, Assigned, Makers
  <2>3. Owned(task, c.marks, task[t].ws)  BY <2>2
  <2> HIDE DEF c
  <2>4. TakenFrom(t, c) => Others(t) /\ Assigned(t)'
    BY <2>1, <2>3, TakenPlaced DEF TakenFrom, Goes
  <2> QED  BY <1>2, <1>3, <1>5, <1>6, <2>1, <2>4
<1>14. CASE VaultSent(t)
  <2> DEFINE w == task[t].ws
  <2>1. /\ task[t].at = "taken" /\ TabStays
        /\ UNCHANGED <<kept, cloud>> /\ UNCHANGED <<vault, seen, committed, hyd>>
        /\ \/ LeavesQueue(t) /\ head' = head
           \/ /\ Goes(t, "sent") /\ task'[t].next = task[t].next
              /\ seen.ws = w /\ vault.ws = w
              /\ \/ head' = head
                 \/ /\ \A u \in Workspaces : u # w => head'[u] = head[u]
                    /\ w \in Workspaces => head'[w].snap = task[t].next
    BY <1>14, EffectVaultSent
  <2>2. ScreenPlaced' /\ StoresPlaced' /\ VaultPlaced'
    BY <2>1, ScreenStays, StoresStay, VaultPlacedStays DEF TabStays
  <2>3. Owned(task', task[t].next.marks, w)
    BY <1>1, <2>1, MarksHeld, OwnedStays DEF Assigned
  <2>4. HeadsPlaced'
    <3>1. CASE head' = head  BY <3>1, HeadsStay
    <3>2. CASE /\ \A u \in Workspaces : u # w => head'[u] = head[u]
               /\ w \in Workspaces => head'[w].snap = task[t].next
      BY <2>3, <3>2, HeadsStay
    <3> QED  BY <2>1, <3>1, <3>2
  <2>5. Goes(t, "sent") /\ task'[t].next = task[t].next /\ seen.ws = w /\ vault.ws = w => Assigned(t)'
    BY <1>1, <2>1, <2>3 DEF Goes, Carries, Assigned, Sending, InVaultQueue, AtBrowser
  <2>6. Others(t) /\ Assigned(t)'  BY <1>5, <2>1, <2>5 DEF Goes
  <2> QED  BY <2>1, <2>2, <2>4, <2>6, PlacesFrom
<1>15. CASE VaultAnswered(t)
  <2> DEFINE w == task[t].ws
             n == task[t].next
             v == VaultSession(t)
  <2>1. /\ task[t].at = "sent" /\ LeavesQueue(t)
        /\ UNCHANGED <<kept, cloud>> /\ UNCHANGED <<head, seen, hyd>>
        /\ \/ UNCHANGED <<vault, committed, session, shown>>
           \/ /\ ~task[t].lost /\ vault'.ws = vault.ws /\ vault'.snap = n
              /\ \/ committed' = committed
                 \/ committed'.ws = w /\ committed'.session = v
              /\ \/ UNCHANGED <<session, shown>>
                 \/ session' = v /\ shown' = v
    BY <1>15, EffectVaultAnswered
  <2>2. Others(t) /\ Assigned(t)'  BY <1>5, <2>1
  <2>3. StoresPlaced' /\ HeadsPlaced'  BY <2>1, StoresStay, HeadsStay
  <2>4. CASE UNCHANGED <<vault, committed, session, shown>>
    BY <2>1, <2>2, <2>3, <2>4, ScreenStays, VaultPlacedStays, PlacesFrom
  <2>5. CASE /\ ~task[t].lost /\ vault'.ws = vault.ws /\ vault'.snap = n
             /\ \/ committed' = committed
                \/ committed'.ws = w /\ committed'.session = v
             /\ \/ UNCHANGED <<session, shown>>
                \/ session' = v /\ shown' = v
    <3>1. vault.ws = w /\ seen.ws = w /\ w # NoWs
      BY <1>1, <2>1, <2>5 DEF Assigned, Sending, InVaultQueue
    <3>2. Owned(task', n.marks, w)  BY <1>1, <2>1, MarksHeld, OwnedStays DEF Assigned
    <3>3. v.where = "vault" /\ v.ws = w /\ v.marks = n.marks  BY VaultSessions
    <3>4. Belongs(task', v, w)  BY <3>1, <3>2, <3>3 DEF Belongs
    <3> HIDE DEF v, n, w
    <3>5. ScreenPlaced'
      <4>1. CASE session' = v /\ shown' = v  BY <2>1, <3>1, <3>4, <4>1 DEF ScreenPlaced
      <4> QED  BY <2>1, <2>5, <4>1, ScreenStays
    <3>6. committed # None => Belongs(task', committed.session, seen.ws)
      BY <1>1, VaultHeld, BelongsStays DEF VaultPlaced
    <3>7. hyd # None => Owned(task', hyd.snap.marks, hyd.ws)
      BY <1>1, VaultHeld, OwnedStays DEF VaultPlaced
    <3>8. committed' # None =>
             /\ committed'.ws = seen.ws /\ committed'.session.where = "vault"
             /\ Belongs(task', committed'.session, seen.ws)
      BY <1>1, <2>5, <3>1, <3>3, <3>4, <3>6 DEF VaultPlaced
    <3>9. VaultPlaced'
      BY <1>1, <2>1, <2>5, <3>1, <3>2, <3>7, <3>8 DEF VaultPlaced, Closed
    <3> QED  BY <2>1, <2>2, <2>3, <2>5, <3>5, <3>9, PlacesFrom
  <2> QED  BY <2>1, <2>4, <2>5
<1>16. CASE ArchiveVerified(t)
  <2>1. /\ task[t].at = "verifying" /\ Others(t) /\ StorageStays /\ VaultStays
        /\ TabStays \/ Rebound(fence)
        /\ Imports(task'[t]) \/ Goes(t, "done")
    BY <1>16, EffectArchiveVerified
  <2>2. Imports(task'[t]) => Assigned(t)'
    BY DEF Imports, Assigned, Sending, InVaultQueue, AtBrowser, Makers
  <2> QED  BY <1>2, <1>3, <1>4, <1>6, <2>1, <2>2
<1>17. CASE ImportTurn(t)
  <2>1. /\ task[t].at = "turn" /\ UNCHANGED <<session, shown>> /\ StorageStays /\ VaultStays
    BY <1>17, EffectImportTurn
  <2>2. ScreenPlaced'  BY <2>1, ScreenStays DEF VaultStays
  <2>3. CASE LeavesQueue(t)  BY <1>2, <1>5, <1>6, <2>1, <2>2, <2>3
  <2>4. CASE ~LeavesQueue(t)
    <3>1. /\ ep.cancel = task[t].ep.cancel /\ Others(t) /\ task'[t].kind = "import"
          /\ task'[t].ws = task[t].ws
          /\ \/ task'[t].at = "queued" /\ seen.ws # NoWs
             \/ task'[t].at = "preparing"
      BY <1>17, <2>4, EffectImportTurn
    <3>2. seen.ws = task[t].ws  BY <2>1, <3>1 DEF ClearInv, Bound
    <3>3. Assigned(t)'
      BY <3>1, <3>2 DEF Assigned, Sending, InVaultQueue, AtBrowser, Makers
    <3> QED  BY <1>2, <1>6, <2>1, <2>2, <3>1, <3>3
  <2> QED  BY <2>3, <2>4
<1>18. CASE ImportShown(t)
  <2>1. /\ LeavesQueue(t) /\ StorageStays /\ VaultStays
        /\ \/ TabStays
           \/ Rebound(fence)
           \/ /\ session'.where = "browser" /\ session'.ws = NoWs /\ shown' = session'
              /\ \/ session.where = "browser" /\ session'.marks \subseteq session.marks
                 \/ session'.marks = kept["browser"]
    BY <1>18, EffectImportShown
  <2>2. ASSUME session'.where = "browser" /\ session'.ws = NoWs /\ shown' = session'
        PROVE  ScreenPlaced'
    <3>1. CASE session.where = "browser" /\ session'.marks \subseteq session.marks
      <4>1. Owned(task', session.marks, NoWs)
        BY <1>1, <3>1, MarksHeld, OwnedStays DEF ScreenPlaced, Belongs
      <4>2. Owned(task', session'.marks, NoWs)  BY <3>1, <4>1 DEF Owned
      <4> QED  BY <2>2, <4>2, ScreenOutside
    <3>2. CASE session'.marks = kept["browser"]
      <4>1. Owned(task', kept["browser"], NoWs)
        BY <1>1, MarksHeld, OwnedStays DEF StoresPlaced, Scopes
      <4> QED  BY <2>2, <3>2, <4>1, ScreenOutside
    <3>3. CASE TabStays  BY <1>3, <2>1, <3>3
    <3>4. CASE Rebound(fence)  BY <1>3, <2>1, <3>4
    <3> QED  BY <2>1, <3>1, <3>2, <3>3, <3>4
  <2> QED  BY <1>2, <1>3, <1>5, <1>6, <2>1, <2>2
<1>19. CASE RestoreStored(t)
  <2> DEFINE p == Place(t)
             b == {<<t, task[t].file>>}
  <2>1. /\ task[t].at = "restoring" /\ task[t].kind = "restore" /\ Goes(t, "stored2")
        /\ TabStays /\ VaultStays /\ cloud' = cloud
        /\ \/ \A u \in Scopes : kept'[u] = IF u = p THEN b ELSE kept[u]
           \/ kept' = kept
    BY <1>19, EffectRestoreStored
  <2>2. Others(t) /\ Assigned(t)'  BY <1>4, <2>1 DEF AtBrowser
  <2>3. Owned(task', b, NoWs)
    <3>1. task[t].kind \in Makers /\ task[t].base.where # "vault"
      BY <1>1, <2>1 DEF Makers, Assigned, AtBrowser
    <3> QED  BY <3>1 DEF Owned, MakersStay
  <2> HIDE DEF p, b
  <2>4. \A u \in Scopes : Owned(task', kept[u], NoWs)
    BY <1>1, MarksHeld, OwnedStays DEF StoresPlaced
  <2>5. Owned(task', cloud, NoWs)  BY <1>1, MarksHeld, OwnedStays DEF StoresPlaced
  <2>6. StoresPlaced'  BY <2>1, <2>3, <2>4, <2>5 DEF StoresPlaced
  <2>7. HeadsPlaced' /\ VaultPlaced'
    BY <2>1, HeadsStay, VaultPlacedStays DEF VaultStays
  <2> QED  BY <1>3, <2>1, <2>2, <2>6, <2>7, PlacesFrom DEF VaultStays
<1>20. CASE RestoreShown(t)
  <2>1. /\ task[t].at = "stored2" /\ task[t].kind = "restore" /\ Goes(t, "done")
        /\ StorageStays /\ VaultStays
        /\ \/ TabStays
           \/ Rebound(fence)
           \/ /\ session'.where \in Scopes /\ session'.ws = NoWs /\ shown' = session'
              /\ session'.marks = {<<t, task[t].file>>}
    BY <1>20, EffectRestoreShown
  <2>2. Owned(task', {<<t, task[t].file>>}, NoWs)
    <3>1. task[t].kind \in Makers /\ task[t].base.where # "vault"
      BY <1>1, <2>1 DEF Makers, Assigned, AtBrowser
    <3> QED  BY <3>1 DEF Owned, MakersStay
  <2>3. /\ session'.where \in Scopes /\ session'.ws = NoWs /\ shown' = session'
        /\ session'.marks = {<<t, task[t].file>>}
        => ScreenPlaced'
    BY <2>2, ScreenOutside DEF Scopes
  <2> QED  BY <1>2, <1>3, <1>4, <1>6, <2>1, <2>3
<1>21. CASE LoadAnswered(t)
  <2>1. /\ Goes(t, "done") /\ StorageStays /\ UNCHANGED <<head, vault, seen, committed, hyd>>
        /\ \/ TabStays
           \/ Rebound(fence)
           \/ /\ session' = session
              /\ \/ \E mode \in {"runtime", "cloud"} : shown' = Live(mode)
                 \/ shown' = Blocked(shown)
    BY <1>21, EffectLoadAnswered
  <2>2. ASSUME session' = session,
               \/ \E mode \in {"runtime", "cloud"} : shown' = Live(mode)
               \/ shown' = Blocked(shown)
        PROVE  ScreenPlaced'
    <3>1. Belongs(task', session, seen.ws)
      BY <1>1, VaultHeld, BelongsStays DEF ScreenPlaced
    <3>2. CASE shown' = Blocked(shown)
      <4>1. /\ shown'.where = shown.where /\ shown'.ws = shown.ws /\ shown'.marks = {}
        BY <3>2, VaultHeld, Blocking
      <4>2. Belongs(task', shown', seen.ws)
        BY <1>1, <4>1 DEF ScreenPlaced, Belongs, Owned
      <4> QED  BY <2>1, <2>2, <3>1, <4>2 DEF ScreenPlaced
    <3>3. ASSUME NEW mode \in {"runtime", "cloud"}, shown' = Live(mode) PROVE ScreenPlaced'
      <4>1. /\ Live(mode).where = mode /\ Live(mode).ws = NoWs
            /\ Live(mode).marks = IF mode = "cloud" THEN cloud ELSE kept["runtime"]
        BY <1>1, SessionKinds DEF StoreTypeOK
      <4>2. Owned(task', cloud, NoWs) /\ Owned(task', kept["runtime"], NoWs)
        BY <1>1, MarksHeld, OwnedStays DEF StoresPlaced, Scopes
      <4>3. Belongs(task', shown', seen.ws)
        BY <3>3, <4>1, <4>2 DEF Belongs
      <4> QED  BY <2>1, <2>2, <3>1, <4>3 DEF ScreenPlaced
    <3> QED  BY <2>2, <3>2, <3>3
  <2>3. ScreenPlaced'
    <3>1. CASE TabStays  BY <2>1, <3>1, ScreenStays DEF TabStays
    <3>2. CASE Rebound(fence)  BY <2>1, <3>2, ScreenStays
    <3> QED  BY <2>1, <2>2, <3>1, <3>2
  <2>4. StoresPlaced' /\ HeadsPlaced' /\ VaultPlaced'
    BY <1>6, <2>1, StoresStay, HeadsStay, VaultPlacedStays
  <2> QED  BY <1>4, <2>1, <2>3, <2>4, PlacesFrom
<1>22. CASE ClearStored(t)
  <2>1. /\ (Goes(t, "cleared") \/ Goes(t, "done")) /\ TabStays /\ VaultStays /\ cloud' = cloud
        /\ Empties \/ StorageStays
    BY <1>22, EffectClearStored
  <2>2. StoresPlaced'
    <3>1. Owned(task', cloud, NoWs)  BY <1>1, MarksHeld, OwnedStays DEF StoresPlaced
    <3>2. CASE Empties  BY <2>1, <3>1, <3>2 DEF Empties, StoresPlaced, Owned
    <3> QED  BY <1>6, <2>1, <3>2, StoresStay
  <2>3. Others(t) /\ Assigned(t)'  BY <1>4, <2>1
  <2>4. HeadsPlaced' /\ VaultPlaced'
    BY <2>1, HeadsStay, VaultPlacedStays DEF VaultStays
  <2> QED  BY <1>3, <2>1, <2>2, <2>3, <2>4, PlacesFrom DEF VaultStays
<1>23. CASE ClearShown(t)
  <2>1. Goes(t, "done") /\ EnterDemo /\ StorageStays /\ VaultStays
    BY <1>23, EffectClearShown
  <2> QED  BY <1>2, <1>4, <1>6, <2>1, DemoPlaced
<1> QED
  BY <1>7, <1>8, <1>9, <1>10, <1>11, <1>12, <1>13, <1>14, <1>15, <1>16, <1>17, <1>18, <1>19,
     <1>20, <1>21, <1>22, <1>23 DEF Step

LEMMA PlacesMoves ==
  ASSUME ShapeInv, PlacesInv, MakersStay,
         \/ ShowDemo \/ CancelRestoreIntent \/ OtherTab \/ StorageEvent \/ Recover
         \/ \E w \in Workspaces : OtherDevice(w) \/ Unlock(w)
         \/ Rendered \/ Lock \/ Hydrated
  PROVE  PlacesInv'
<1>1. /\ StoreTypeOK /\ ScreenPlaced /\ StoresPlaced /\ HeadsPlaced /\ VaultPlaced
      /\ \A u \in Ids : Assigned(u)
  BY DEF ShapeInv, PlacesInv
<1>2. TasksStay => \A u \in Ids : SameCourse(task'[u], task[u])  BY DEF TasksStay, SameCourse
<1>3. ASSUME TasksStay, UNCHANGED <<vault, seen>> PROVE \A u \in Ids : Assigned(u)'
  BY <1>1, <1>2, <1>3, AssignedStays
<1>4. ASSUME UNCHANGED <<kept, cloud>>, VaultStays, TasksStay, ScreenPlaced' PROVE PlacesInv'
  <2>1. UNCHANGED <<vault, seen, committed, hyd>> /\ head' = head
    BY <1>4 DEF VaultStays
  <2>2. StoresPlaced' /\ HeadsPlaced' /\ VaultPlaced'
    BY <1>4, <2>1, StoresStay, HeadsStay, VaultPlacedStays
  <2> QED  BY <1>3, <1>4, <2>1, <2>2 DEF PlacesInv
<1>5. StorageStays => UNCHANGED <<kept, cloud>>  BY DEF StorageStays
<1>6. CASE ShowDemo
  BY <1>4, <1>5, <1>6, EffectShowDemo, DemoPlaced
<1>7. CASE CancelRestoreIntent
  BY <1>4, <1>5, <1>7, EffectCancelRestoreIntent, ScreenStays DEF VaultStays
<1>8. CASE OtherTab
  <2>1. /\ TabStays /\ TasksStay /\ VaultStays /\ cloud' = cloud
        /\ Empties \/ kept' = kept
    BY <1>8, EffectOtherTab
  <2>2. StoresPlaced'
    <3>1. Owned(task', cloud, NoWs)  BY <1>1, MarksHeld, OwnedStays DEF StoresPlaced
    <3>2. CASE Empties  BY <2>1, <3>1, <3>2 DEF Empties, StoresPlaced, Owned
    <3> QED  BY <2>1, <3>2, StoresStay
  <2>3. UNCHANGED <<vault, seen, committed, hyd>> /\ head' = head /\ UNCHANGED <<session, shown>>
    BY <2>1 DEF VaultStays, TabStays
  <2>4. HeadsPlaced' /\ VaultPlaced' /\ ScreenPlaced'
    BY <2>3, HeadsStay, VaultPlacedStays, ScreenStays
  <2> QED  BY <1>3, <2>1, <2>2, <2>3, <2>4 DEF PlacesInv
<1>9. CASE StorageEvent
  BY <1>4, <1>5, <1>9, EffectStorageEvent, ScreenStays DEF VaultStays
<1>10. CASE Recover
  BY <1>4, <1>5, <1>10, EffectRecover, ScreenStays DEF VaultStays, TabStays
<1>11. ASSUME NEW w \in Workspaces, OtherDevice(w) PROVE PlacesInv'
  <2>1. /\ TabStays /\ TasksStay /\ StorageStays /\ UNCHANGED <<vault, seen, committed, hyd>>
        /\ \A u \in Workspaces : head'[u].snap = head[u].snap
    BY <1>11, EffectOtherDevice
  <2>2. ScreenPlaced' /\ StoresPlaced' /\ HeadsPlaced' /\ VaultPlaced'
    BY <1>5, <2>1, ScreenStays, StoresStay, HeadsStay, VaultPlacedStays DEF TabStays
  <2> QED  BY <1>3, <2>1, <2>2 DEF PlacesInv
\* Nothing is being sent while no vault is unlocked.
<1>12. ASSUME vault = Closed \/ seen.ws = NoWs, NEW u \in Ids PROVE ~Sending(u)
  BY <1>1, <1>12 DEF Assigned, Sending, InVaultQueue, Closed
<1>13. ASSUME NEW w \in Workspaces, Unlock(w) PROVE PlacesInv'
  <2>1. /\ TabStays /\ TasksStay /\ StorageStays /\ UNCHANGED <<head, seen, committed, hyd>>
        /\ vault = Closed /\ vault'.ws = w /\ vault'.snap = head[w].snap
    BY <1>13, EffectUnlock
  <2>2. ScreenPlaced' /\ StoresPlaced' /\ HeadsPlaced'
    BY <1>5, <2>1, ScreenStays, StoresStay, HeadsStay DEF TabStays
  <2>3. w # NoWs  BY StoreAssumption
  <2>4. seen = Closed /\ committed = None /\ hyd = None
    BY <1>1, <2>1 DEF VaultPlaced, Belongs, Closed
  <2>5. head[w].snap # None => Owned(task', head[w].snap.marks, w)
    BY <1>1, VaultHeld, OwnedStays DEF HeadsPlaced
  <2>6. VaultPlaced'  BY <2>1, <2>3, <2>4, <2>5 DEF VaultPlaced
  <2>7. \A u \in Ids : Sending(u)' => Sending(u)  BY <2>1 DEF TasksStay, Sending
  <2>8. \A u \in Ids : Assigned(u)'
    BY <1>1, <1>2, <1>12, <2>1, <2>7, AssignedStays
  <2> QED  BY <2>2, <2>6, <2>8 DEF PlacesInv
\* Rendered with v: the session of another vault is left.
<1>14. ASSUME NEW v, Renders(v), v = Closed \/ v = vault
       PROVE  ScreenPlaced'
  <2>1. CASE EnterDemo  BY <2>1, DemoPlaced
  <2>2. CASE session' = shown /\ shown' = shown /\ (v = seen \/ ~Leaves(v))
    <3>1. Belongs(task', shown, seen.ws)  BY <1>1, VaultHeld, BelongsStays DEF ScreenPlaced
    <3>2. seen' = v  BY <1>14 DEF Renders
    <3>3. shown.where = "vault" => seen.ws = v.ws
      <4>1. CASE shown.where = "vault" /\ v # seen
        <5>1. shown.ws = seen.ws /\ seen.ws # NoWs  BY <1>1, <4>1 DEF ScreenPlaced, Belongs
        <5>2. seen.ws = vault.ws  BY <1>1, <5>1 DEF VaultPlaced, Closed
        <5>3. CASE v = Closed
          BY <2>2, <4>1, <5>1, <5>3 DEF Leaves, Closed
        <5> QED  BY <1>14, <5>2, <5>3
      <4> QED  BY <4>1
    <3>4. Belongs(task', shown, v.ws)  BY <3>1, <3>3 DEF Belongs
    <3> QED  BY <2>2, <3>2, <3>4 DEF ScreenPlaced
  <2> QED  BY <1>14, <2>1, <2>2 DEF Renders
<1>15. CASE Rendered
  <2>1. /\ Renders(vault) /\ TasksStay /\ StorageStays /\ UNCHANGED <<head, vault>>
    BY <1>15, EffectRendered
  <2>2. /\ seen' = vault
        /\ committed' = IF seen.ws # vault.ws THEN None ELSE committed
        /\ \/ hyd' = None
           \/ vault = seen /\ hyd' = hyd
           \/ /\ vault.snap # None
              /\ hyd'.ws = vault.ws /\ hyd'.snap = vault.snap
    BY <2>1 DEF Renders
  <2>3. ScreenPlaced' /\ StoresPlaced' /\ HeadsPlaced'
    BY <1>5, <1>14, <2>1, StoresStay, HeadsStay
  <2>4. vault.snap # None => Owned(task', vault.snap.marks, vault.ws) /\ vault.ws # NoWs
    BY <1>1, VaultHeld, OwnedStays DEF VaultPlaced, Closed
  <2>5. committed # None => Belongs(task', committed.session, seen.ws)
    BY <1>1, VaultHeld, BelongsStays DEF VaultPlaced
  <2>6. hyd # None => Owned(task', hyd.snap.marks, hyd.ws)
    BY <1>1, VaultHeld, OwnedStays DEF VaultPlaced
  <2>7. committed' # None =>
          /\ committed'.ws = vault.ws /\ committed'.session.where = "vault"
          /\ Belongs(task', committed'.session, vault.ws)
    BY <1>1, <2>2, <2>5 DEF VaultPlaced
  <2>8. hyd' # None =>
          /\ hyd'.ws = vault.ws /\ hyd'.ws # NoWs /\ Owned(task', hyd'.snap.marks, hyd'.ws)
    BY <1>1, <2>2, <2>4, <2>6 DEF VaultPlaced
  <2>9. VaultPlaced'
    BY <1>1, <2>1, <2>2, <2>4, <2>7, <2>8 DEF VaultPlaced
  <2>10. \A u \in Ids : Sending(u)' => seen.ws = vault.ws
    <3>1. seen.ws = vault.ws \/ seen.ws = NoWs  BY <1>1 DEF VaultPlaced, Closed
    <3>2. \A u \in Ids : Sending(u)' => Sending(u)  BY <2>1 DEF TasksStay, Sending
    <3> QED  BY <1>12, <3>1, <3>2
  <2>11. \A u \in Ids : Assigned(u)'
    BY <1>1, <1>2, <2>1, <2>2, <2>10, AssignedStays
  <2> QED  BY <2>3, <2>9, <2>11 DEF PlacesInv
<1>16. CASE Lock
  <2>1. /\ Renders(Closed) /\ StorageStays /\ vault' = Closed /\ head' = head
        /\ \A u \in Ids : LET q == task'[u]
                              r == task[u] IN
             /\ q.kind = r.kind /\ q.at = r.at /\ q.ws = r.ws /\ q.base = r.base /\ q.next = r.next
             /\ q.won = r.won /\ q.lost = (r.lost \/ r.at = "sent")
    BY <1>16, EffectLock
  <2>2. /\ seen' = Closed
        /\ committed' = IF seen.ws # NoWs THEN None ELSE committed
        /\ hyd' = None \/ (Closed = seen /\ hyd' = hyd)
    BY <2>1 DEF Renders, Closed
  <2>3. ScreenPlaced' /\ StoresPlaced' /\ HeadsPlaced'
    BY <1>5, <1>14, <2>1, StoresStay, HeadsStay
  <2>4. committed' = None /\ hyd' = None
    BY <1>1, <2>2 DEF VaultPlaced, Belongs, Closed
  <2>5. VaultPlaced'  BY <2>1, <2>2, <2>4 DEF VaultPlaced, Closed
  <2>6. ASSUME NEW u \in Ids PROVE Assigned(u)'
    <3>1. SameCourse(task'[u], task[u])  BY <2>1 DEF SameCourse
    <3>2. ~Sending(u)'  BY <2>1 DEF Sending
    <3> QED  BY <1>1, <3>1, <3>2, AssignedStays
  <2> QED  BY <2>3, <2>5, <2>6 DEF PlacesInv
<1>17. CASE Hydrated
  <2> DEFINE s == Session("vault", hyd.ws, hyd.snap.files, hyd.snap.marks)
  <2>1. /\ hyd \in Hydrations /\ hyd' = None /\ TasksStay /\ StorageStays
        /\ UNCHANGED <<head, vault, seen>>
        /\ \/ UNCHANGED <<committed, session, shown>>
           \/ /\ session' = s /\ shown' = s
              /\ committed' \in Confirmed /\ committed'.ws = hyd.ws /\ committed'.session = s
    BY <1>17, EffectHydrated
  <2>2. StoresPlaced' /\ HeadsPlaced' /\ \A u \in Ids : Assigned(u)'
    BY <1>3, <1>5, <2>1, StoresStay, HeadsStay
  <2>3. hyd # None  BY <1>17 DEF Hydrated
  <2>4. hyd.ws = seen.ws /\ hyd.ws # NoWs /\ Owned(task', hyd.snap.marks, hyd.ws)
    BY <1>1, <2>3, VaultHeld, OwnedStays DEF VaultPlaced
  <2>5. s.where = "vault" /\ s.ws = hyd.ws /\ s.marks = hyd.snap.marks
    BY <2>1, HydratedSession
  <2> HIDE DEF s
  <2>6. Belongs(task', s, seen.ws)  BY <2>4, <2>5 DEF Belongs
  <2>7. ScreenPlaced'
    <3>1. CASE session' = s /\ shown' = s  BY <2>1, <2>6, <3>1 DEF ScreenPlaced
    <3> QED  BY <2>1, <3>1, ScreenStays
  <2>8. vault.snap # None => Owned(task', vault.snap.marks, vault.ws)
    BY <1>1, VaultHeld, OwnedStays DEF VaultPlaced
  <2>9. committed # None => Belongs(task', committed.session, seen.ws)
    BY <1>1, VaultHeld, BelongsStays DEF VaultPlaced
  <2>10. committed' # None =>
          /\ committed'.ws = seen.ws /\ committed'.session.where = "vault"
          /\ Belongs(task', committed'.session, seen.ws)
    BY <1>1, <2>1, <2>4, <2>5, <2>6, <2>9 DEF VaultPlaced
  <2>11. VaultPlaced'  BY <1>1, <2>1, <2>8, <2>10 DEF VaultPlaced
  <2> QED  BY <2>2, <2>7, <2>11 DEF PlacesInv
<1> QED  BY <1>6, <1>7, <1>8, <1>9, <1>10, <1>11, <1>13, <1>15, <1>16, <1>17

LEMMA PlacesNext == ShapeInv /\ ClearInv /\ PlacesInv /\ [Next]_vars => PlacesInv'
<1> SUFFICES ASSUME ShapeInv, ClearInv, PlacesInv, [Next]_vars PROVE PlacesInv'
  OBVIOUS
<1>1. MakersStay  BY MakersNext
<1>2. CASE UNCHANGED vars
  <2>1. /\ UNCHANGED <<kept, cloud>> /\ UNCHANGED <<session, shown>> /\ head' = head
        /\ UNCHANGED <<vault, seen, committed, hyd>> /\ task' = task
    BY <1>2 DEF vars, storage, refs
  <2>2. StoresPlaced' /\ HeadsPlaced' /\ VaultPlaced' /\ ScreenPlaced'
    BY <1>1, <2>1, StoresStay, HeadsStay, VaultPlacedStays, ScreenStays
  <2>3. \A u \in Ids : SameCourse(task'[u], task[u])  BY <2>1 DEF SameCourse
  <2>4. \A u \in Ids : Assigned(u)'  BY <1>1, <2>1, <2>3, AssignedStays DEF PlacesInv
  <2> QED  BY <2>2, <2>4 DEF PlacesInv
<1> QED  BY <1>1, <1>2, PlacesCalls, PlacesSteps, PlacesMoves DEF Next, Step

\* What was made in one vault workspace is never committed in another, however
\* late an operation that was queued, sent or hydrated there goes on.
THEOREM WorkspacesStayApart == Spec => []WorkspacesDoNotMix
<1>1. PlacesInv => WorkspacesDoNotMix
  BY DEF PlacesInv, HeadsPlaced, Owned, WorkspacesDoNotMix
<1> QED
  BY <1>1, ShapeInit, ShapeNext, ClearInit, ClearNext, PlacesInit, PlacesNext, PTL DEF Spec
-----------------------------------------------------------------------------
(* The queue of vault operations *)

\* No operation waits twice.
NoneTwice(q) == \A i, j \in 1..Len(q) : q[i] = q[j] => i = j

\* An operation holds one place as long as it is on its way, and of those of one
\* epoch only the first has left its place.
Ordered(q, tasks) ==
    /\ NoneTwice(q)
    /\ \A i \in 1..Len(q) : tasks[q[i]].at \in InVaultQueue
    /\ \A t \in Ids : tasks[t].at \in InVaultQueue => \E i \in 1..Len(q) : q[i] = t
    /\ \A i, j \in 1..Len(q) :
          i < j /\ tasks[q[i]].ep.queue = tasks[q[j]].ep.queue => tasks[q[j]].at = "queued"

\* The queue is in order, and its epoch has not been overtaken.
QueueInv ==
    /\ Ordered(vaultQ, task)
    /\ \A t \in Ids : task[t].at \in InVaultQueue => task[t].ep.queue <= ep.queue

\* Sequence q without its element t, the others in their order.
Without(q, t, r) ==
    /\ r \in Seq(Ids)
    /\ \A i, j \in 1..Len(r) : i < j =>
          \E k, m \in 1..Len(q) : k < m /\ q[k] = r[i] /\ q[m] = r[j]
    /\ \A u \in Ids : u # t /\ (\E k \in 1..Len(q) : q[k] = u) => \E i \in 1..Len(r) : r[i] = u
    /\ \A i \in 1..Len(r) : r[i] # t /\ \E k \in 1..Len(q) : q[k] = r[i]

LEMMA DequeuedElements ==
  ASSUME NEW q \in Seq(Ids), NEW t \in Ids, NoneTwice(q), NEW r, r = Dequeued(q, t)
  PROVE  Without(q, t, r)
<1>1. CASE ~\E i \in 1..Len(q) : q[i] = t
  <2>1. r = q  BY <1>1 DEF Dequeued
  <2> QED  BY <1>1, <2>1 DEF Without
<1>2. CASE \E i \in 1..Len(q) : q[i] = t
  <2> DEFINE n == CHOOSE i \in 1..Len(q) : q[i] = t
  <2>1. n \in 1..Len(q) /\ q[n] = t  BY <1>2
  <2>2. r = SubSeq(q, 1, n - 1) \o SubSeq(q, n + 1, Len(q))  BY <1>2 DEF Dequeued, RemoveAt
  <2> HIDE DEF n
  <2> DEFINE a == SubSeq(q, 1, n - 1)
             b == SubSeq(q, n + 1, Len(q))
  <2>3. /\ a \in Seq(Ids) /\ Len(a) = n - 1 /\ \A i \in 1..Len(a) : a[i] = q[i]
        /\ b \in Seq(Ids) /\ Len(b) = Len(q) - n /\ \A i \in 1..Len(b) : b[i] = q[i + n]
    BY <2>1, SubSeqProperties
  <2> HIDE DEF a, b
  <2>4. /\ a \o b \in Seq(Ids) /\ Len(a \o b) = Len(a) + Len(b)
        /\ \A i \in 1..(Len(a) + Len(b)) : (a \o b)[i] = IF i <= Len(a) THEN a[i] ELSE b[i - Len(a)]
    BY <2>3, ConcatProperties
  <2>5. r = a \o b  BY <2>2 DEF a, b
  <2>6. Len(q) \in Nat /\ n \in Nat /\ n >= 1 /\ n <= Len(q)  BY <2>1, LenProperties
  <2>7. r \in Seq(Ids) /\ Len(r) = Len(a) + Len(b)  BY <2>4, <2>5
  <2>8. /\ r \in Seq(Ids) /\ Len(r) = Len(q) - 1 /\ Len(q) \in Nat /\ n \in Nat
        /\ Len(a) = n - 1 /\ Len(b) = Len(q) - n
    BY <2>3, <2>6, <2>7
  <2>9. ASSUME NEW i \in 1..Len(r) PROVE r[i] = IF i < n THEN q[i] ELSE q[i + 1]
    <3>1. i \in 1..(Len(a) + Len(b))  BY <2>8, <2>1
    <3>2. r[i] = IF i <= Len(a) THEN a[i] ELSE b[i - Len(a)]  BY <2>4, <2>5, <3>1
    <3>3. CASE i < n
      <4>1. i \in 1..Len(a)  BY <2>8, <3>3
      <4> QED  BY <2>3, <3>2, <3>3, <4>1
    <3>4. CASE ~(i < n)
      <4>1. i - Len(a) \in 1..Len(b) /\ ~(i <= Len(a))  BY <2>8, <2>1, <3>4
      <4>2. b[i - Len(a)] = q[(i - Len(a)) + n]  BY <2>3, <4>1
      <4>3. (i - Len(a)) + n = i + 1  BY <2>8
      <4> QED  BY <3>2, <3>4, <4>1, <4>2, <4>3
    <3> QED  BY <3>3, <3>4
  <2>10. /\ r \in Seq(Ids) /\ Len(r) = Len(q) - 1
        /\ \A i \in 1..Len(r) : r[i] = IF i < n THEN q[i] ELSE q[i + 1]
    BY <2>8, <2>9
  <2>11. \A i, j \in 1..Len(r) : i < j =>
           \E k, m \in 1..Len(q) : k < m /\ q[k] = r[i] /\ q[m] = r[j]
    <3> TAKE i, j \in 1..Len(r)
    <3> HAVE i < j
    <3> DEFINE k == IF i < n THEN i ELSE i + 1
               m == IF j < n THEN j ELSE j + 1
    <3>1. k \in 1..Len(q) /\ m \in 1..Len(q) /\ k < m  BY <2>8, <2>1
    <3>2. q[k] = r[i] /\ q[m] = r[j]  BY <2>10
    <3> QED  BY <3>1, <3>2
  <2>12. \A u \in Ids : u # t /\ (\E k \in 1..Len(q) : q[k] = u) => \E i \in 1..Len(r) : r[i] = u
    <3> SUFFICES ASSUME NEW k \in 1..Len(q), q[k] # t PROVE \E i \in 1..Len(r) : r[i] = q[k]
      OBVIOUS
    <3>1. k # n  BY <2>1
    <3>2. IF k < n THEN k \in 1..Len(r) /\ r[k] = q[k]
          ELSE k - 1 \in 1..Len(r) /\ r[k - 1] = q[k]
      BY <2>1, <2>10, <3>1
    <3> QED  BY <3>2
  <2>13. \A i \in 1..Len(r) : r[i] # t /\ \E k \in 1..Len(q) : q[k] = r[i]
    <3> TAKE i \in 1..Len(r)
    <3> DEFINE k == IF i < n THEN i ELSE i + 1
    <3>1. k \in 1..Len(q) /\ q[k] = r[i] /\ k # n  BY <2>1, <2>10
    <3> QED  BY <2>1, <3>1 DEF NoneTwice
  <2> QED  BY <2>10, <2>11, <2>12, <2>13 DEF Without
<1> QED  BY <1>1, <1>2

\* Nobody's place is before an operation of the same epoch that has left its own.
LEMMA OneUnderWay ==
  ASSUME ShapeInv, QueueInv, NEW t \in Ids, NEW u \in Ids,
         task[t].at \in {"taken", "sent"}, task[u].at \in {"taken", "sent"},
         task[t].ep.queue = task[u].ep.queue
  PROVE  t = u
<1>1. PICK i \in 1..Len(vaultQ) : vaultQ[i] = t  BY DEF QueueInv, Ordered, InVaultQueue
<1>2. PICK j \in 1..Len(vaultQ) : vaultQ[j] = u  BY DEF QueueInv, Ordered, InVaultQueue
<1>3. ~(i < j) /\ ~(j < i)  BY <1>1, <1>2 DEF QueueInv, Ordered
<1> QED  BY <1>1, <1>2, <1>3

\* The queue's epoch does not go back.
Forward == ep.queue \in Nat /\ ep'.queue \in Nat /\ ep'.queue >= ep.queue

LEMMA EpochOfQueued ==
  ASSUME ShapeInv, NEW t \in Ids, task[t].at \in InVaultQueue
  PROVE  task[t].ep \in Epochs /\ task[t].ep.queue \in Nat
<1>1. Ripe(task[t], t)  BY DEF ShapeInv
<1>2. task[t].kind # "none"  BY <1>1 DEF Ripe, StagesOf, InVaultQueue
<1> QED  BY <1>1, <1>2 DEF Ripe, Epochs, EpochNames

LEMMA QueueStays ==
  ASSUME ShapeInv, QueueInv, vaultQ' = vaultQ, Forward,
         \A u \in Ids : task'[u].at \in InVaultQueue <=> task[u].at \in InVaultQueue,
         \A u \in Ids : task[u].at \in InVaultQueue => task'[u].ep = task[u].ep,
         \A u \in Ids : task[u].at = "queued" => task'[u].at = "queued" \/ VaultTurn(u)
  PROVE  QueueInv'
<1>1. \A i \in 1..Len(vaultQ) : vaultQ[i] \in Ids /\ task[vaultQ[i]].at \in InVaultQueue
  BY DEF QueueInv, Ordered, ShapeInv, StoreTypeOK
<1>2. ASSUME NEW i \in 1..Len(vaultQ), NEW j \in 1..Len(vaultQ), i < j,
             task'[vaultQ[i]].ep.queue = task'[vaultQ[j]].ep.queue
      PROVE  task'[vaultQ[j]].at = "queued"
  <2>1. task[vaultQ[i]].ep.queue = task[vaultQ[j]].ep.queue  BY <1>1, <1>2
  <2>2. task[vaultQ[j]].at = "queued"  BY <1>2, <2>1 DEF QueueInv, Ordered
  <2>3. ~VaultTurn(vaultQ[j])  BY <1>2, <2>1 DEF VaultTurn
  <2> QED  BY <1>1, <2>2, <2>3
<1>3. /\ NoneTwice(vaultQ)
      /\ \A i \in 1..Len(vaultQ) : task'[vaultQ[i]].at \in InVaultQueue
      /\ \A t \in Ids : task'[t].at \in InVaultQueue => \E i \in 1..Len(vaultQ) : vaultQ[i] = t
  BY <1>1 DEF QueueInv, Ordered
<1>4. Ordered(vaultQ, task')  BY <1>2, <1>3 DEF Ordered
<1>5. \A t \in Ids : task'[t].at \in InVaultQueue => task'[t].ep.queue <= ep'.queue
  <2> TAKE t \in Ids
  <2> HAVE task'[t].at \in InVaultQueue
  <2>1. task[t].ep.queue \in Nat /\ task'[t].ep = task[t].ep  BY EpochOfQueued
  <2>2. task[t].ep.queue <= ep.queue  BY DEF QueueInv
  <2> QED  BY <2>1, <2>2 DEF Forward
<1> QED  BY <1>4, <1>5 DEF QueueInv

LEMMA QueueLeft ==
  ASSUME ShapeInv, QueueInv, Forward, NEW t \in Ids, Others(t),
         vaultQ' = Dequeued(vaultQ, t), task'[t].at \notin InVaultQueue
  PROVE  QueueInv'
<1> DEFINE r == Dequeued(vaultQ, t)
<1>0. vaultQ \in Seq(Ids) /\ NoneTwice(vaultQ) /\ r = Dequeued(vaultQ, t)
  BY DEF QueueInv, Ordered, ShapeInv, StoreTypeOK
<1> HIDE DEF r
<1>1. Without(vaultQ, t, r)  BY <1>0, DequeuedElements
<1>2. \A i \in 1..Len(r) : r[i] \in Ids /\ r[i] # t  BY <1>1 DEF Without
<1>3. \A i \in 1..Len(r) : task'[r[i]] = task[r[i]]  BY <1>2 DEF Others
<1>4. ASSUME NEW i \in 1..Len(r), NEW j \in 1..Len(r), i < j PROVE r[i] # r[j]
  <2>1. PICK k, m \in 1..Len(vaultQ) : k < m /\ vaultQ[k] = r[i] /\ vaultQ[m] = r[j]
    BY <1>1, <1>4 DEF Without
  <2> QED  BY <2>1 DEF QueueInv, Ordered, NoneTwice
<1>5. NoneTwice(r)
  <2> SUFFICES ASSUME NEW i \in 1..Len(r), NEW j \in 1..Len(r), r[i] = r[j] PROVE i = j
    BY DEF NoneTwice
  <2>1. i < j \/ j < i \/ i = j  OBVIOUS
  <2> QED  BY <1>4, <2>1
<1>6. \A i \in 1..Len(r) : task'[r[i]].at \in InVaultQueue
  <2> TAKE i \in 1..Len(r)
  <2>1. \E k \in 1..Len(vaultQ) : vaultQ[k] = r[i]  BY <1>1 DEF Without
  <2>2. task[r[i]].at \in InVaultQueue  BY <2>1 DEF QueueInv, Ordered
  <2> QED  BY <1>3, <2>2
<1>7. \A u \in Ids : task'[u].at \in InVaultQueue => \E i \in 1..Len(r) : r[i] = u
  <2> TAKE u \in Ids
  <2> HAVE task'[u].at \in InVaultQueue
  <2>1. u # t  OBVIOUS
  <2>2. task[u].at \in InVaultQueue  BY <2>1 DEF Others
  <2> QED  BY <1>1, <2>1, <2>2 DEF QueueInv, Ordered, Without
<1>8. ASSUME NEW i \in 1..Len(r), NEW j \in 1..Len(r), i < j,
             task'[r[i]].ep.queue = task'[r[j]].ep.queue
      PROVE  task'[r[j]].at = "queued"
  <2>1. PICK k, m \in 1..Len(vaultQ) : k < m /\ vaultQ[k] = r[i] /\ vaultQ[m] = r[j]
    BY <1>1, <1>8 DEF Without
  <2>2. task[r[i]].ep.queue = task[r[j]].ep.queue  BY <1>3, <1>8
  <2>3. task[r[j]].at = "queued"  BY <2>1, <2>2 DEF QueueInv, Ordered
  <2> QED  BY <1>3, <2>3
<1>9. Ordered(r, task')  BY <1>5, <1>6, <1>7, <1>8 DEF Ordered
<1>10. \A u \in Ids : task'[u].at \in InVaultQueue => task'[u].ep.queue <= ep'.queue
  <2> TAKE u \in Ids
  <2> HAVE task'[u].at \in InVaultQueue
  <2>1. u # t  OBVIOUS
  <2>2. task'[u] = task[u]  BY <2>1 DEF Others
  <2>3. task[u].ep.queue \in Nat  BY <2>2, EpochOfQueued
  <2>4. task[u].ep.queue <= ep.queue  BY <2>2 DEF QueueInv
  <2> QED  BY <2>2, <2>3, <2>4 DEF Forward
<1> QED  BY <1>0, <1>9, <1>10 DEF QueueInv

LEMMA QueueJoined ==
  ASSUME ShapeInv, QueueInv, Forward, NEW t \in Ids, Others(t), task[t].at \notin InVaultQueue,
         vaultQ' = Append(vaultQ, t), task'[t].at = "queued", task'[t].ep.queue = ep.queue
  PROVE  QueueInv'
<1> DEFINE r == Append(vaultQ, t)
           n == Len(vaultQ)
<1>1. vaultQ \in Seq(Ids)  BY DEF ShapeInv, StoreTypeOK
<1>2. /\ r \in Seq(Ids) /\ Len(r) = n + 1 /\ r[n + 1] = t /\ n \in Nat
      /\ \A i \in 1..n : r[i] = vaultQ[i]
  BY <1>1, AppendProperties
<1>3. \A i \in 1..n : vaultQ[i] \in Ids /\ vaultQ[i] # t
  BY <1>1 DEF QueueInv, Ordered
<1>4. \A i \in 1..n : r[i] \in Ids /\ r[i] # t /\ task'[r[i]] = task[vaultQ[i]]
  BY <1>2, <1>3 DEF Others
<1> HIDE DEF r
<1>5. NoneTwice(r)
  <2> SUFFICES ASSUME NEW i \in 1..Len(r), NEW j \in 1..Len(r), r[i] = r[j] PROVE i = j
    BY DEF NoneTwice
  <2>1. CASE i \in 1..n /\ j \in 1..n  BY <1>2, <2>1 DEF QueueInv, Ordered, NoneTwice
  <2>2. CASE i = n + 1 \/ j = n + 1  BY <1>2, <1>4, <2>2
  <2> QED  BY <1>2, <2>1, <2>2
<1>6. \A i \in 1..Len(r) : task'[r[i]].at \in InVaultQueue
  <2> TAKE i \in 1..Len(r)
  <2>1. CASE i \in 1..n  BY <1>4, <2>1 DEF QueueInv, Ordered
  <2>2. CASE i = n + 1  BY <1>2, <2>2 DEF InVaultQueue
  <2> QED  BY <1>2, <2>1, <2>2
<1>7. \A u \in Ids : task'[u].at \in InVaultQueue => \E i \in 1..Len(r) : r[i] = u
  <2> TAKE u \in Ids
  <2> HAVE task'[u].at \in InVaultQueue
  <2>1. CASE u = t
    <3>1. n + 1 \in 1..Len(r) /\ r[n + 1] = u  BY <1>2, <2>1
    <3> QED  BY <3>1
  <2>2. CASE u # t
    <3>1. task[u].at \in InVaultQueue  BY <2>2 DEF Others
    <3>2. PICK i \in 1..n : vaultQ[i] = u  BY <3>1 DEF QueueInv, Ordered
    <3>3. i \in 1..Len(r) /\ r[i] = u  BY <1>2, <3>2
    <3> QED  BY <3>3
  <2> QED  BY <2>1, <2>2
<1>8. ASSUME NEW i \in 1..Len(r), NEW j \in 1..Len(r), i < j,
             task'[r[i]].ep.queue = task'[r[j]].ep.queue
      PROVE  task'[r[j]].at = "queued"
  <2>1. i \in 1..n /\ (j \in 1..n \/ j = n + 1)  BY <1>2, <1>8
  <2>2. CASE j \in 1..n
    <3>1. task[vaultQ[i]].ep.queue = task[vaultQ[j]].ep.queue  BY <1>4, <1>8, <2>1, <2>2
    <3>2. task[vaultQ[j]].at = "queued"  BY <1>8, <2>1, <2>2, <3>1 DEF QueueInv, Ordered
    <3> QED  BY <1>4, <2>2, <3>2
  <2>3. CASE j = n + 1  BY <1>2, <2>3
  <2> QED  BY <2>1, <2>2, <2>3
<1>9. Ordered(r, task')  BY <1>5, <1>6, <1>7, <1>8 DEF Ordered
<1>10. \A u \in Ids : task'[u].at \in InVaultQueue => task'[u].ep.queue <= ep'.queue
  <2> TAKE u \in Ids
  <2> HAVE task'[u].at \in InVaultQueue
  <2>1. CASE u = t  BY <2>1 DEF Forward
  <2>2. CASE u # t
    <3>1. task'[u] = task[u]  BY <2>2 DEF Others
    <3>2. task[u].ep.queue \in Nat  BY <3>1, EpochOfQueued
    <3>3. task[u].ep.queue <= ep.queue  BY <3>1 DEF QueueInv
    <3> QED  BY <3>1, <3>2, <3>3 DEF Forward
  <2> QED  BY <2>1, <2>2
<1> QED  BY <1>9, <1>10 DEF QueueInv, r

LEMMA QueueOutside ==
  ASSUME ShapeInv, QueueInv, Forward, NEW t \in Ids, Others(t), vaultQ' = vaultQ,
         task[t].at \notin InVaultQueue, task'[t].at \notin InVaultQueue
  PROVE  QueueInv'
<1>1. \A u \in Ids : task[u].at \in InVaultQueue => task'[u] = task[u]  BY DEF Others
<1>2. \A u \in Ids : task'[u].at \in InVaultQueue => task'[u] = task[u]  BY DEF Others
<1>3. \A u \in Ids : task[u].at = "queued" => task'[u].at = "queued"  BY <1>1 DEF InVaultQueue
<1> QED  BY <1>1, <1>2, <1>3, QueueStays

LEMMA QueueWithin ==
  ASSUME ShapeInv, QueueInv, Forward, NEW t \in Ids, Others(t), vaultQ' = vaultQ,
         task[t].at \in InVaultQueue, task'[t].at \in InVaultQueue, task'[t].ep = task[t].ep,
         task[t].at = "queued" => VaultTurn(t)
  PROVE  QueueInv'
<1>1. \A u \in Ids : task'[u] = task[u] \/ u = t  BY DEF Others
<1> QED  BY <1>1, QueueStays

LEMMA Forwards ==
  ASSUME ShapeInv
  PROVE  /\ Later => Forward
         /\ ep' = ep => Forward
         /\ TabStays => Forward
         /\ \A k : Rebound(k) => Forward
         /\ \A v : Renders(v) => Forward
<1>1. ep \in Epochs /\ ep.queue \in Nat
  BY DEF ShapeInv, StoreTypeOK, TabOK, Epochs, EpochNames
<1>2. ep' = ep => Forward  BY <1>1 DEF Forward
<1>3. Later => Forward  BY <1>1 DEF Later, Forward
<1>4. ASSUME NEW k, Rebound(k) PROVE Forward  BY <1>3, <1>4 DEF Rebound
<1>5. ASSUME NEW v, Renders(v) PROVE Forward
  <2>1. ep'.queue = ep.queue \/ ep'.queue = ep.queue + 1  BY <1>5 DEF Renders
  <2> QED  BY <1>1, <2>1 DEF Forward
<1> QED  BY <1>2, <1>3, <1>4, <1>5 DEF TabStays

LEMMA QueueInit == Init => QueueInv
<1> SUFFICES ASSUME Init PROVE QueueInv
  OBVIOUS
<1>1. vaultQ = <<>> /\ \A t \in Ids : task[t] = NoTask  BY DEF Init
<1>2. NoTask.at \notin InVaultQueue  BY DEF NoTask, NewTask, InVaultQueue
<1>3. Len(vaultQ) = 0  BY <1>1
<1> QED  BY <1>1, <1>2, <1>3 DEF QueueInv, Ordered, NoneTwice

LEMMA QueueCalls ==
  ASSUME ShapeInv, QueueInv, NEW t \in Ids,
         \/ \E f \in Data : Mark(t, f)
         \/ \E f \in Files : Import(t, f) \/ Archive(t, f)
         \/ \E f \in Files \cup {"demo"} : Restore(t, f)
         \/ Load(t) \/ Clear(t)
  PROVE  QueueInv'
<1>1. StoreTypeOK  BY DEF ShapeInv
<1>2. ASSUME Forward, Others(t), task[t].at = "none", vaultQ' = vaultQ,
             task'[t].at \notin InVaultQueue
      PROVE  QueueInv'
  BY <1>2, QueueOutside DEF InVaultQueue
<1>3. ASSUME Forward, Others(t), task[t].at = "none", vaultQ' = Append(vaultQ, t),
             task'[t].at = "queued", task'[t].ep.queue = ep.queue
      PROVE  QueueInv'
  BY <1>3, QueueJoined DEF InVaultQueue
<1>4. ASSUME NEW f \in Data, Mark(t, f) PROVE QueueInv'
  <2>1. /\ Others(t) /\ task[t].at = "none" /\ task'[t].ep = ep /\ (TabStays \/ Rebound(fence))
        /\ \/ task'[t].at \in {"cloud", "lock", "done"} /\ vaultQ' = vaultQ
           \/ task'[t].at = "queued" /\ vaultQ' = Append(vaultQ, t)
    BY <1>1, <1>4, EffectMark DEF Starts
  <2> QED  BY <1>2, <1>3, <2>1, Forwards DEF InVaultQueue
<1>5. ASSUME NEW f \in Files, Import(t, f) PROVE QueueInv'
  <2>1. /\ Others(t) /\ task[t].at = "none" /\ (TabStays \/ Rebound(fence)) /\ vaultQ' = vaultQ
        /\ task'[t].at \in {"done", "turn"}
    BY <1>1, <1>5, EffectImport DEF Starts, Imports
  <2> QED  BY <1>2, <2>1, Forwards DEF InVaultQueue
<1>6. ASSUME NEW f \in Files, Archive(t, f) PROVE QueueInv'
  <2>1. /\ Others(t) /\ task[t].at = "none" /\ Later /\ vaultQ' = vaultQ
        /\ task'[t].at = "verifying"
    BY <1>1, <1>6, EffectArchive DEF Starts
  <2> QED  BY <1>2, <2>1, Forwards DEF InVaultQueue
<1>7. ASSUME NEW f \in Files \cup {"demo"}, Restore(t, f) PROVE QueueInv'
  <2>1. /\ Others(t) /\ task[t].at = "none" /\ task'[t].ep.queue = ep.queue /\ Later
        /\ \/ task'[t].at \in {"restoring", "done"} /\ vaultQ' = vaultQ
           \/ task'[t].at = "queued" /\ vaultQ' = Append(vaultQ, t)
    BY <1>1, <1>7, EffectRestore DEF Starts
  <2> QED  BY <1>2, <1>3, <2>1, Forwards DEF InVaultQueue
<1>8. ASSUME Load(t) PROVE QueueInv'
  <2>1. /\ Others(t) /\ task[t].at = "none" /\ Later /\ vaultQ' = vaultQ
        /\ task'[t].at \in {"done", "loading"}
    BY <1>1, <1>8, EffectLoad DEF Starts
  <2> QED  BY <1>2, <2>1, Forwards DEF InVaultQueue
<1>9. ASSUME Clear(t) PROVE QueueInv'
  <2>1. /\ Others(t) /\ task[t].at = "none" /\ Later /\ vaultQ' = vaultQ
        /\ task'[t].at = "clearing"
    BY <1>1, <1>9, EffectClear DEF Starts
  <2> QED  BY <1>2, <2>1, Forwards DEF InVaultQueue
<1> QED  BY <1>4, <1>5, <1>6, <1>7, <1>8, <1>9

LEMMA QueueSteps ==
  ASSUME ShapeInv, QueueInv, NEW t \in Ids, Step(t)
  PROVE  QueueInv'
<1>1. ASSUME Forward, Others(t), task[t].at \notin InVaultQueue, vaultQ' = vaultQ,
             task'[t].at \notin InVaultQueue
      PROVE  QueueInv'
  BY <1>1, QueueOutside
<1>2. ASSUME Forward, LeavesQueue(t) PROVE QueueInv'
  BY <1>2, QueueLeft DEF LeavesQueue, Goes, InVaultQueue
<1>3. ASSUME Forward, NEW a \in {"stored", "sentCloud", "done", "stored2", "cleared"}, Goes(t, a),
             task[t].at \notin InVaultQueue, vaultQ' = vaultQ
      PROVE  QueueInv'
  BY <1>1, <1>3 DEF Goes, InVaultQueue
<1>4. ASSUME Forward, NEW a \in {"taken", "sent"}, Goes(t, a), vaultQ' = vaultQ,
             task[t].at \in InVaultQueue, task[t].at = "queued" => VaultTurn(t)
      PROVE  QueueInv'
  BY <1>4, QueueWithin DEF Goes, Carries, InVaultQueue
<1>5. CASE MarkStored(t)
  BY <1>3, <1>5, EffectMarkStored, Forwards DEF InVaultQueue
<1>6. CASE MarkShown(t)
  <2>1. task[t].at = "stored" /\ Goes(t, "done") /\ vaultQ' = vaultQ /\ (ep' = ep \/ Rebound(fence))
    BY <1>6, EffectMarkShown DEF TabStays
  <2> QED  BY <1>3, <2>1, Forwards DEF InVaultQueue
<1>7. CASE MarkSentToCloud(t)
  BY <1>3, <1>7, EffectMarkSentToCloud, Forwards DEF InVaultQueue
<1>8. CASE MarkBackFromCloud(t)
  <2>1. task[t].at = "sentCloud" /\ Goes(t, "done") /\ vaultQ' = vaultQ /\ ep' = ep
    BY <1>8, EffectMarkBackFromCloud DEF TabStays
  <2> QED  BY <1>3, <2>1, Forwards DEF InVaultQueue
<1>9. CASE MarkTaken(t) \/ ImportTaken(t) \/ RestoreTaken(t)
  <2>1. /\ task[t].at = "queued" /\ VaultTurn(t) /\ TabStays
        /\ LeavesQueue(t) \/ (Goes(t, "taken") /\ vaultQ' = vaultQ)
    BY <1>9, EffectMarkTaken, EffectImportTaken, EffectRestoreTaken DEF TakenFrom
  <2> QED  BY <1>2, <1>4, <2>1, Forwards DEF InVaultQueue
<1>10. CASE VaultSent(t)
  <2>1. /\ task[t].at = "taken" /\ TabStays
        /\ LeavesQueue(t) \/ (Goes(t, "sent") /\ vaultQ' = vaultQ)
    BY <1>10, EffectVaultSent
  <2> QED  BY <1>2, <1>4, <2>1, Forwards DEF InVaultQueue
<1>11. CASE VaultAnswered(t)
  BY <1>2, <1>11, EffectVaultAnswered, Forwards
<1>12. CASE ArchiveVerified(t)
  <2>1. /\ task[t].at = "verifying" /\ Others(t) /\ vaultQ' = vaultQ
        /\ task'[t].at \in {"done", "turn"} /\ (TabStays \/ Rebound(fence))
    BY <1>12, EffectArchiveVerified DEF Imports, Goes
  <2> QED  BY <1>1, <2>1, Forwards DEF InVaultQueue
<1>13. CASE ImportTurn(t)
  <2>1. /\ task[t].at = "turn" /\ Later
        /\ \/ LeavesQueue(t)
           \/ /\ Others(t) /\ task'[t].ep.queue = ep.queue
              /\ \/ task'[t].at = "queued" /\ vaultQ' = Append(vaultQ, t)
                 \/ task'[t].at = "preparing" /\ vaultQ' = vaultQ
    BY <1>13, EffectImportTurn
  <2> QED  BY <1>1, <1>2, <2>1, QueueJoined, Forwards DEF InVaultQueue
<1>14. CASE ImportShown(t)
  <2>1. LeavesQueue(t) /\ (ep' = ep \/ Rebound(fence))
    BY <1>14, EffectImportShown DEF TabStays
  <2> QED  BY <1>2, <2>1, Forwards
<1>15. CASE RestoreStored(t)
  BY <1>3, <1>15, EffectRestoreStored, Forwards DEF InVaultQueue
<1>16. CASE RestoreShown(t)
  <2>1. task[t].at = "stored2" /\ Goes(t, "done") /\ vaultQ' = vaultQ /\ (ep' = ep \/ Rebound(fence))
    BY <1>16, EffectRestoreShown DEF TabStays
  <2> QED  BY <1>3, <2>1, Forwards DEF InVaultQueue
<1>17. CASE LoadAnswered(t)
  <2>1. task[t].at = "loading" /\ Goes(t, "done") /\ vaultQ' = vaultQ /\ (ep' = ep \/ Rebound(fence))
    BY <1>17, EffectLoadAnswered DEF TabStays
  <2> QED  BY <1>3, <2>1, Forwards DEF InVaultQueue
<1>18. CASE ClearStored(t)
  BY <1>3, <1>18, EffectClearStored, Forwards DEF InVaultQueue
<1>19. CASE ClearShown(t)
  BY <1>3, <1>19, EffectClearShown, Forwards DEF InVaultQueue
<1> QED
  BY <1>5, <1>6, <1>7, <1>8, <1>9, <1>10, <1>11, <1>12, <1>13, <1>14, <1>15, <1>16, <1>17,
     <1>18, <1>19 DEF Step

LEMMA QueueMoves ==
  ASSUME ShapeInv, QueueInv,
         \/ ShowDemo \/ CancelRestoreIntent \/ OtherTab \/ StorageEvent \/ Recover
         \/ \E w \in Workspaces : OtherDevice(w) \/ Unlock(w)
         \/ Rendered \/ Lock \/ Hydrated
  PROVE  QueueInv'
<1>1. ASSUME Forward, vaultQ' = vaultQ,
             \A u \in Ids : task'[u].at = task[u].at /\ task'[u].ep = task[u].ep
      PROVE  QueueInv'
  BY <1>1, QueueStays
<1>2. CASE Lock  BY <1>1, <1>2, EffectLock, Forwards
<1>3. CASE ~Lock
  <2>1. TasksStay /\ (Later \/ ep' = ep \/ Rebound(fence) \/ Renders(vault))
    BY <1>3, EffectShowDemo, EffectCancelRestoreIntent, EffectOtherTab, EffectStorageEvent,
       EffectRecover, EffectOtherDevice, EffectUnlock, EffectRendered, EffectHydrated DEF TabStays
  <2>2. Forward  BY <2>1, Forwards
  <2> QED  BY <1>1, <2>1, <2>2 DEF TasksStay
<1> QED  BY <1>2, <1>3

LEMMA QueueNext == ShapeInv /\ QueueInv /\ [Next]_vars => QueueInv'
<1> SUFFICES ASSUME ShapeInv, QueueInv, [Next]_vars PROVE QueueInv'
  OBVIOUS
<1>1. CASE UNCHANGED vars
  <2>1. UNCHANGED <<task, vaultQ, ep>>  BY <1>1 DEF vars
  <2> QED  BY <2>1 DEF QueueInv, Ordered
<1> QED  BY <1>1, QueueCalls, QueueSteps, QueueMoves DEF Next, Step

-----------------------------------------------------------------------------
(* The steps that bring nothing to a workspace *)

\* The screen shows what it did, or something of no vault.
ScreenAway ==
    /\ session' = session \/ session'.where # "vault"
    /\ shown' = shown \/ shown'.where # "vault"

\* No operation comes to hold content for a workspace, and none gets there.
Quiet ==
    /\ \A u \in Ids : task'[u].at \in {"taken", "sent"} => task'[u] = task[u]
    /\ ep'.queue = ep.queue
    /\ \A w \in Workspaces : head'[w].snap = head[w].snap /\ owed'[w] = owed[w]
    /\ UNCHANGED <<vault, seen, committed, hyd, unseen, overtaken>>
    /\ ~blanked' => ~blanked /\ ScreenAway

LEMMA QuietStep ==
  ASSUME NEW t \in Ids, Others(t), task'[t].at \notin {"taken", "sent"}, ep'.queue = ep.queue,
         VaultStays, \A w \in Workspaces : owed'[w] = owed[w], ScreenAway
  PROVE  Quiet
<1>1. head' = head /\ blanked' = blanked /\ UNCHANGED <<vault, seen, committed, hyd, unseen, overtaken>>
  BY DEF VaultStays
<1>2. \A u \in Ids : task'[u].at \in {"taken", "sent"} => task'[u] = task[u]  BY DEF Others
<1> QED  BY <1>1, <1>2 DEF Quiet

LEMMA QuietMove ==
  ASSUME TasksStay, ep'.queue = ep.queue, VaultStays,
         \A w \in Workspaces : owed'[w] = owed[w], ScreenAway
  PROVE  Quiet
<1>1. head' = head /\ blanked' = blanked /\ UNCHANGED <<vault, seen, committed, hyd, unseen, overtaken>>
  BY DEF VaultStays
<1>2. \A u \in Ids : task'[u] = task[u]  BY DEF TasksStay
<1> QED  BY <1>1, <1>2 DEF Quiet

LEMMA AwayFromVault ==
  ASSUME ShapeInv
  PROVE  /\ TabStays => ScreenAway /\ ep'.queue = ep.queue
         /\ UNCHANGED <<session, shown>> => ScreenAway
         /\ \A k : Rebound(k) => ScreenAway /\ ep'.queue = ep.queue
         /\ session' = shown' /\ session'.where # "vault" => ScreenAway
         /\ EnterDemo => ScreenAway
         /\ \A mode \in {"runtime", "cloud"} : Live(mode).where # "vault"
         /\ Demo(FALSE).where # "vault" /\ Connecting.where # "vault"
         /\ Later => ep'.queue = ep.queue
         /\ StorageStays => \A w \in Workspaces : owed'[w] = owed[w]
         /\ owed' = owed => \A w \in Workspaces : owed'[w] = owed[w]
<1>1. StorageOK  BY DEF ShapeInv, StoreTypeOK
<1>2. /\ \A mode \in {"runtime", "cloud"} : Live(mode).where # "vault"
      /\ Demo(FALSE).where # "vault" /\ Connecting.where # "vault"
  BY <1>1, SessionKinds
<1>3. EnterDemo => ScreenAway
  <2> SUFFICES ASSUME EnterDemo PROVE ScreenAway
    OBVIOUS
  <2>1. session' = shown' /\ session' = Demo(fence # NoToken)  BY <1>1, EnteringDemo
  <2>2. Demo(fence # NoToken).where = "demo"  BY <1>1, SessionKinds
  <2> QED  BY <2>1, <2>2 DEF ScreenAway
<1>4. \A k : Rebound(k) => ScreenAway /\ ep'.queue = ep.queue
  BY <1>2 DEF Rebound, Later, ScreenAway
<1> QED  BY <1>2, <1>3, <1>4 DEF TabStays, ScreenAway, Later, StorageStays

LEMMA QuietCalls ==
  ASSUME ShapeInv, NEW t \in Ids,
         \/ \E f \in Data : Mark(t, f)
         \/ \E f \in Files : Import(t, f) \/ Archive(t, f)
         \/ \E f \in Files \cup {"demo"} : Restore(t, f)
         \/ Load(t) \/ Clear(t)
  PROVE  Quiet
<1>1. StoreTypeOK  BY DEF ShapeInv
<1>2. ASSUME Others(t), task'[t].at \notin {"taken", "sent"}, ep'.queue = ep.queue,
             StorageStays, VaultStays, ScreenAway
      PROVE  Quiet
  BY <1>2, QuietStep, AwayFromVault
<1>3. ASSUME NEW f \in Data, Mark(t, f) PROVE Quiet
  <2>1. /\ Others(t) /\ (TabStays \/ Rebound(fence)) /\ StorageStays /\ VaultStays
        /\ task'[t].at \in {"cloud", "lock", "done", "queued"}
    BY <1>1, <1>3, EffectMark DEF Starts
  <2> QED  BY <1>2, <2>1, AwayFromVault
<1>4. ASSUME NEW f \in Files, Import(t, f) PROVE Quiet
  <2>1. /\ Others(t) /\ (TabStays \/ Rebound(fence)) /\ StorageStays /\ VaultStays
        /\ task'[t].at \in {"done", "turn"}
    BY <1>1, <1>4, EffectImport DEF Starts, Imports
  <2> QED  BY <1>2, <2>1, AwayFromVault
<1>5. ASSUME NEW f \in Files, Archive(t, f) PROVE Quiet
  <2>1. /\ Others(t) /\ Later /\ UNCHANGED <<session, shown>> /\ StorageStays /\ VaultStays
        /\ task'[t].at = "verifying"
    BY <1>1, <1>5, EffectArchive DEF Starts
  <2> QED  BY <1>2, <2>1, AwayFromVault
<1>6. ASSUME NEW f \in Files \cup {"demo"}, Restore(t, f) PROVE Quiet
  <2>1. /\ Others(t) /\ Later /\ StorageStays /\ VaultStays
        /\ task'[t].at \in {"restoring", "done", "queued"}
        /\ UNCHANGED <<session, shown>> \/ Rebound(fence)
    BY <1>1, <1>6, EffectRestore DEF Starts
  <2> QED  BY <1>2, <2>1, AwayFromVault
<1>7. ASSUME Load(t) PROVE Quiet
  <2>1. /\ Others(t) /\ Later /\ StorageStays /\ VaultStays
        /\ task'[t].at \in {"done", "loading"}
        /\ \/ UNCHANGED <<session, shown>>
           \/ session' = Demo(FALSE) /\ shown' = Demo(FALSE)
           \/ session' = Connecting /\ shown' = Connecting
    BY <1>1, <1>7, EffectLoad DEF Starts
  <2> QED  BY <1>2, <2>1, AwayFromVault
<1>8. ASSUME Clear(t) PROVE Quiet
  <2>1. /\ Others(t) /\ Later /\ UNCHANGED <<session, shown>> /\ StorageStays /\ VaultStays
        /\ task'[t].at = "clearing"
    BY <1>1, <1>8, EffectClear DEF Starts
  <2> QED  BY <1>2, <2>1, AwayFromVault
<1> QED  BY <1>3, <1>4, <1>5, <1>6, <1>7, <1>8

\* The steps that take content from somewhere for a workspace.
Takes(t) ==
    /\ task[t].at = "queued" /\ Goes(t, "taken") /\ TabStays /\ StorageStays /\ VaultStays
    /\ task'[t].won = task[t].won

LEMMA QuietSteps ==
  ASSUME ShapeInv, PlacesInv, NEW t \in Ids, Step(t)
  PROVE  \/ Quiet
         \/ (MarkTaken(t) \/ ImportTaken(t) \/ RestoreTaken(t)) /\ Takes(t)
         \/ VaultSent(t) /\ Goes(t, "sent")
         \/ VaultAnswered(t) /\ task[t].won /\ ~task[t].lost
<1>1. ASSUME NEW a \in Stages \ {"taken", "sent"}, Goes(t, a), ep'.queue = ep.queue,
             VaultStays, \A w \in Workspaces : owed'[w] = owed[w], ScreenAway
      PROVE  Quiet
  BY <1>1, QuietStep DEF Goes
<1>2. CASE MarkStored(t)
  <2>1. /\ Goes(t, "stored") /\ TabStays /\ VaultStays /\ \A w \in Workspaces : owed'[w] = owed[w]
    BY <1>2, EffectMarkStored
  <2> QED  BY <1>1, <2>1, AwayFromVault DEF Stages
<1>3. CASE MarkShown(t)
  <2>1. task[t].base.where # "vault" \/ task[t].at # "stored"  BY DEF PlacesInv, Assigned, AtBrowser
  <2>2. /\ task[t].at = "stored" /\ Goes(t, "done") /\ StorageStays /\ VaultStays
        /\ \/ TabStays \/ Rebound(fence)
           \/ /\ ep' = ep /\ shown' = session'
              /\ session.where = task[t].base.where /\ session'.where = session.where
    BY <1>3, EffectMarkShown
  <2>3. ep'.queue = ep.queue /\ ScreenAway  BY <2>1, <2>2, AwayFromVault
  <2> QED  BY <1>1, <2>2, <2>3, AwayFromVault DEF Stages
<1>4. CASE MarkSentToCloud(t)
  <2>1. (Goes(t, "sentCloud") \/ Goes(t, "done")) /\ TabStays /\ VaultStays /\ owed' = owed
    BY <1>4, EffectMarkSentToCloud
  <2> QED  BY <1>1, <2>1, AwayFromVault DEF Stages
<1>5. CASE MarkBackFromCloud(t)
  <2>1. /\ Goes(t, "done") /\ StorageStays /\ VaultStays
        /\ TabStays \/ (ep' = ep /\ session' = Live("cloud") /\ shown' = session')
    BY <1>5, EffectMarkBackFromCloud
  <2>2. ep'.queue = ep.queue /\ ScreenAway  BY <2>1, AwayFromVault
  <2> QED  BY <1>1, <2>1, <2>2, AwayFromVault DEF Stages
<1>6. ASSUME LeavesQueue(t), TabStays, StorageStays, VaultStays PROVE Quiet
  BY <1>1, <1>6, AwayFromVault DEF LeavesQueue, Stages
<1>7. CASE MarkTaken(t)
  <2>1. /\ task[t].at = "queued" /\ TabStays /\ StorageStays /\ VaultStays
        /\ LeavesQueue(t) \/ (Goes(t, "taken") /\ task'[t].won = task[t].won)
    BY <1>7, EffectMarkTaken DEF TakenFrom
  <2> QED  BY <1>6, <1>7, <2>1 DEF Takes
<1>8. CASE ImportTaken(t)
  <2>1. /\ task[t].at = "queued" /\ TabStays /\ StorageStays /\ VaultStays
        /\ LeavesQueue(t) \/ (Goes(t, "taken") /\ task'[t].won = task[t].won)
    BY <1>8, EffectImportTaken DEF TakenFrom
  <2> QED  BY <1>6, <1>8, <2>1 DEF Takes
<1>9. CASE RestoreTaken(t)
  <2>1. /\ task[t].at = "queued" /\ TabStays /\ StorageStays /\ VaultStays
        /\ LeavesQueue(t) \/ (Goes(t, "taken") /\ task'[t].won = task[t].won)
    BY <1>9, EffectRestoreTaken DEF TakenFrom
  <2> QED  BY <1>6, <1>9, <2>1 DEF Takes
<1>10. CASE VaultSent(t)
  <2>1. /\ TabStays /\ UNCHANGED <<vault, seen, committed, hyd, unseen, overtaken, blanked>>
        /\ (LeavesQueue(t) /\ UNCHANGED <<head, owed>>) \/ Goes(t, "sent")
    BY <1>10, EffectVaultSent
  <2>2. ASSUME LeavesQueue(t), UNCHANGED <<head, owed>> PROVE Quiet
    <3>1. VaultStays  BY <2>1, <2>2 DEF VaultStays
    <3> QED  BY <1>1, <2>1, <2>2, <3>1, AwayFromVault DEF LeavesQueue, Stages
  <2> QED  BY <1>10, <2>1, <2>2
<1>11. CASE VaultAnswered(t)
  <2>1. /\ LeavesQueue(t) /\ UNCHANGED <<ep, token, head, seen, hyd, overtaken, blanked>>
        /\ \/ UNCHANGED <<vault, committed, session, shown, owed, unseen>>
           \/ task[t].won /\ ~task[t].lost
    BY <1>11, EffectVaultAnswered
  <2>2. ASSUME UNCHANGED <<vault, committed, session, shown, owed, unseen>> PROVE Quiet
    <3>1. VaultStays /\ TabStays  BY <2>1, <2>2 DEF VaultStays, TabStays
    <3> QED  BY <1>1, <2>1, <2>2, <3>1, AwayFromVault DEF LeavesQueue, Stages
  <2> QED  BY <1>11, <2>1, <2>2
<1>12. CASE ArchiveVerified(t)
  <2>1. /\ Others(t) /\ task'[t].at \in {"done", "turn"} /\ (TabStays \/ Rebound(fence))
        /\ StorageStays /\ VaultStays
    BY <1>12, EffectArchiveVerified DEF Imports, Goes
  <2> QED  BY <2>1, QuietStep, AwayFromVault
<1>13. CASE ImportTurn(t)
  <2>1. /\ Later /\ UNCHANGED <<session, shown>> /\ StorageStays /\ VaultStays
        /\ LeavesQueue(t) \/ (Others(t) /\ task'[t].at \in {"queued", "preparing"})
    BY <1>13, EffectImportTurn
  <2>2. Others(t) /\ task'[t].at \notin {"taken", "sent"}  BY <2>1 DEF LeavesQueue, Goes
  <2> QED  BY <2>1, <2>2, QuietStep, AwayFromVault
<1>14. CASE ImportShown(t)
  <2>1. /\ LeavesQueue(t) /\ StorageStays /\ VaultStays
        /\ \/ TabStays \/ Rebound(fence)
           \/ ep' = ep /\ session'.where = "browser" /\ shown' = session'
    BY <1>14, EffectImportShown
  <2>2. ep'.queue = ep.queue /\ ScreenAway  BY <2>1, AwayFromVault
  <2> QED  BY <1>1, <2>1, <2>2, AwayFromVault DEF LeavesQueue, Stages
<1>15. CASE RestoreStored(t)
  <2>1. /\ Goes(t, "stored2") /\ TabStays /\ VaultStays /\ \A w \in Workspaces : owed'[w] = owed[w]
    BY <1>15, EffectRestoreStored
  <2> QED  BY <1>1, <2>1, AwayFromVault DEF Stages
<1>16. CASE RestoreShown(t)
  <2>1. /\ Goes(t, "done") /\ StorageStays /\ VaultStays
        /\ \/ TabStays \/ Rebound(fence)
           \/ ep' = ep /\ session'.where \in Scopes /\ shown' = session'
    BY <1>16, EffectRestoreShown
  <2>2. ep'.queue = ep.queue /\ ScreenAway  BY <2>1, AwayFromVault DEF Scopes
  <2> QED  BY <1>1, <2>1, <2>2, AwayFromVault DEF Stages
<1>17. CASE LoadAnswered(t)
  <2>1. /\ Goes(t, "done") /\ StorageStays
        /\ UNCHANGED <<head, vault, seen, committed, hyd, unseen, overtaken>>
        /\ blanked' = (blanked \/ (shown.where = "vault" /\ shown' # shown))
        /\ \/ TabStays
           \/ Rebound(fence)
           \/ /\ UNCHANGED <<ep, token, session>>
              /\ \/ \E mode \in {"runtime", "cloud"} : shown' = Live(mode)
                 \/ shown' = Blocked(shown)
    BY <1>17, EffectLoadAnswered
  <2>2. shown \in Sessions  BY DEF ShapeInv, StoreTypeOK, TabOK
  <2>3. Blocked(shown).where = shown.where  BY <2>2, Blocking
  <2>4. ep'.queue = ep.queue  BY <2>1, AwayFromVault
  <2>5. ~blanked' => ~blanked /\ ScreenAway
    <3>1. CASE TabStays \/ Rebound(fence)  BY <2>1, <3>1, AwayFromVault
    <3>2. CASE UNCHANGED <<ep, token, session>> /\ \E mode \in {"runtime", "cloud"} : shown' = Live(mode)
      BY <2>1, <3>2, AwayFromVault DEF ScreenAway
    <3>3. CASE UNCHANGED <<ep, token, session>> /\ shown' = Blocked(shown)
      BY <2>1, <2>3, <3>3 DEF ScreenAway
    <3> QED  BY <2>1, <3>1, <3>2, <3>3
  <2>6. \A u \in Ids : task'[u].at \in {"taken", "sent"} => task'[u] = task[u]
    BY <2>1 DEF Goes, Others
  <2>7. Quiet  BY <2>1, <2>4, <2>5, <2>6, AwayFromVault DEF Quiet
  <2> QED  BY <2>7
<1>18. CASE ClearStored(t)
  <2>1. /\ TabStays /\ VaultStays /\ (Goes(t, "cleared") \/ Goes(t, "done"))
        /\ \A w \in Workspaces : owed'[w] = owed[w]
    BY <1>18, EffectClearStored DEF Empties, StorageStays
  <2> QED  BY <1>1, <2>1, AwayFromVault DEF Stages
<1>19. CASE ClearShown(t)
  <2>1. Goes(t, "done") /\ EnterDemo /\ ep' = ep /\ StorageStays /\ VaultStays
    BY <1>19, EffectClearShown
  <2> QED  BY <1>1, <2>1, AwayFromVault DEF Stages
<1> QED
  BY <1>2, <1>3, <1>4, <1>5, <1>7, <1>8, <1>9, <1>10, <1>11, <1>12, <1>13, <1>14, <1>15, <1>16,
     <1>17, <1>18, <1>19 DEF Step

LEMMA QuietMoves ==
  ASSUME ShapeInv,
         \/ ShowDemo \/ CancelRestoreIntent \/ OtherTab \/ StorageEvent \/ Recover
         \/ \E w \in Workspaces : OtherDevice(w)
  PROVE  Quiet
<1>1. CASE ShowDemo  BY <1>1, EffectShowDemo, QuietMove, AwayFromVault
<1>2. CASE CancelRestoreIntent
  <2>1. Later /\ UNCHANGED <<session, shown>> /\ TasksStay /\ StorageStays /\ VaultStays
    BY <1>2, EffectCancelRestoreIntent
  <2> QED  BY <2>1, QuietMove, AwayFromVault
<1>3. CASE OtherTab
  <2>1. TabStays /\ TasksStay /\ VaultStays /\ \A w \in Workspaces : owed'[w] = owed[w]
    BY <1>3, EffectOtherTab DEF Empties
  <2> QED  BY <2>1, QuietMove, AwayFromVault
<1>4. CASE StorageEvent  BY <1>4, EffectStorageEvent, QuietMove, AwayFromVault
<1>5. CASE Recover  BY <1>5, EffectRecover, QuietMove, AwayFromVault
<1>6. ASSUME NEW w \in Workspaces, OtherDevice(w) PROVE Quiet
  <2>1. /\ TabStays /\ TasksStay /\ StorageStays
        /\ UNCHANGED <<vault, seen, committed, hyd, unseen, overtaken, blanked>>
        /\ \A u \in Workspaces : head'[u].snap = head[u].snap
    BY <1>6, EffectOtherDevice
  <2>2. \A u \in Ids : task'[u] = task[u]  BY <2>1 DEF TasksStay
  <2> QED  BY <2>1, <2>2, AwayFromVault DEF Quiet
<1> QED  BY <1>1, <1>2, <1>3, <1>4, <1>5, <1>6

\* A step is quiet, takes, sends or confirms what is saved, or it is the vault's.
LEMMA StepsOfTheStore ==
  ASSUME ShapeInv, PlacesInv, [Next]_vars
  PROVE  \/ Quiet
         \/ \E t \in Ids : (MarkTaken(t) \/ ImportTaken(t) \/ RestoreTaken(t)) /\ Takes(t)
         \/ \E t \in Ids : VaultSent(t) /\ Goes(t, "sent")
         \/ \E t \in Ids : VaultAnswered(t) /\ task[t].won /\ ~task[t].lost
         \/ \E w \in Workspaces : Unlock(w)
         \/ Rendered \/ Lock \/ Hydrated
<1>1. CASE UNCHANGED vars
  <2>1. /\ UNCHANGED <<task, ep, head, owed, session, shown, blanked>>
        /\ UNCHANGED <<vault, seen, committed, hyd, unseen, overtaken>>
    BY <1>1 DEF vars, refs, ghosts
  <2> QED  BY <2>1 DEF Quiet, ScreenAway
<1>2. CASE Next
  BY <1>2, QuietCalls, QuietSteps, QuietMoves DEF Next, Step
<1> QED  BY <1>1, <1>2

-----------------------------------------------------------------------------
(* What is on its way to the server, and what is being hydrated *)

\* An operation under way to the server is of the queue's epoch, and what it
\* saved is still the head.
Sent(t) ==
    Sending(t) =>
        /\ task[t].ep.queue = ep.queue
        /\ task[t].won => head[task[t].ws].snap = task[t].next

\* An archive that is hydrated came from the vault as it is, or as it was before.
HydratedFrom == hyd # None =>
    hyd.gen <= vault.gen /\ (hyd.gen = vault.gen => hyd.snap = vault.snap)

SendingInv == HydratedFrom /\ \A t \in Ids : Sent(t)

LEMMA QueuedPlace ==
  ASSUME ShapeInv, PlacesInv, NEW t \in Ids, task[t].at \in InVaultQueue
  PROVE  task[t].ws \in Workspaces
<1>1. task[t].ws \in SomeWs /\ task[t].ws # NoWs
  BY DEF ShapeInv, StoreTypeOK, TasksOK, TaskRecs, PlacesInv, Assigned
<1> QED  BY <1>1 DEF SomeWs

\* The operation is where it was, and its workspace holds what it held.
LEMMA SentStays ==
  ASSUME ShapeInv, PlacesInv, SendingInv, NEW u \in Ids,
         task'[u].at = task[u].at, task'[u].ep = task[u].ep, task'[u].ws = task[u].ws,
         task'[u].next = task[u].next, task'[u].won => task[u].won, ~task'[u].lost => ~task[u].lost,
         task'[u].at = "sent" /\ ~task'[u].lost => ep'.queue = ep.queue,
         \A w \in Workspaces : head'[w].snap = head[w].snap
  PROVE  Sent(u)'
<1> SUFFICES ASSUME task'[u].at = "sent", ~task'[u].lost
             PROVE  /\ task'[u].ep.queue = ep'.queue
                    /\ task'[u].won => head'[task'[u].ws].snap = task'[u].next
  BY DEF Sent, Sending
<1>1. task[u].ws \in Workspaces  BY QueuedPlace DEF InVaultQueue
<1>2. /\ task[u].ep.queue = ep.queue
      /\ task[u].won => head[task[u].ws].snap = task[u].next
  BY DEF SendingInv, Sent, Sending
<1> QED  BY <1>1, <1>2

LEMMA SendingInit == Init => SendingInv
<1> SUFFICES ASSUME Init PROVE SendingInv
  OBVIOUS
<1>1. \A t \in Ids : task[t].at = "none"  BY DEF Init, NoTask, NewTask
<1>2. hyd = None  BY DEF Init
<1> QED  BY <1>1, <1>2 DEF SendingInv, Sent, Sending, HydratedFrom

LEMMA SendingQuiet ==
  ASSUME ShapeInv, PlacesInv, SendingInv, Quiet
  PROVE  SendingInv'
<1>1. ASSUME NEW u \in Ids PROVE Sent(u)'
  <2>1. CASE task'[u].at = "sent"
    <3>1. task'[u] = task[u]  BY <2>1 DEF Quiet
    <3> QED  BY <3>1, SentStays DEF Quiet
  <2>2. CASE task'[u].at # "sent"  BY <2>2 DEF Sent, Sending
  <2> QED  BY <2>1, <2>2
<1>2. HydratedFrom'  BY DEF Quiet, SendingInv, HydratedFrom
<1> QED  BY <1>1, <1>2 DEF SendingInv

LEMMA SendingNext ==
  ShapeInv /\ PlacesInv /\ QueueInv /\ SendingInv /\ [Next]_vars => SendingInv'
<1> SUFFICES ASSUME ShapeInv, PlacesInv, QueueInv, SendingInv, [Next]_vars PROVE SendingInv'
  OBVIOUS
<1>1. CASE Quiet  BY <1>1, SendingQuiet
<1>2. ASSUME NEW t \in Ids, Takes(t) PROVE SendingInv'
  <2>1. /\ Others(t) /\ task'[t].at = "taken" /\ ep' = ep /\ head' = head
        /\ UNCHANGED <<vault, hyd>>
    BY <1>2 DEF Takes, Goes, TabStays, VaultStays
  <2>2. ASSUME NEW u \in Ids PROVE Sent(u)'
    <3>1. CASE u = t  BY <2>1, <3>1 DEF Sent, Sending
    <3>2. CASE u # t
      <4>1. task'[u] = task[u]  BY <2>1, <3>2 DEF Others
      <4> QED  BY <2>1, <4>1, SentStays
    <3> QED  BY <3>1, <3>2
  <2>3. HydratedFrom'  BY <2>1 DEF SendingInv, HydratedFrom
  <2> QED  BY <2>2, <2>3 DEF SendingInv
<1>3. ASSUME NEW t \in Ids, VaultSent(t), Goes(t, "sent") PROVE SendingInv'
  <2> DEFINE w == task[t].ws
  <2>1. task[t].at = "taken" /\ w \in Workspaces
    BY <1>3, EffectVaultSent, QueuedPlace DEF InVaultQueue
  <2>2. /\ ep' = ep /\ UNCHANGED <<vault, hyd>> /\ task'[t].next = task[t].next
        /\ ep.queue = task[t].ep.queue
        /\ \/ head' = head /\ task'[t].won = task[t].won
           \/ /\ \A u \in Workspaces : u # w => head'[u] = head[u]
              /\ head'[w].snap = task[t].next
    <3>1. ~LeavesQueue(t)  BY <1>3 DEF LeavesQueue, Goes
    <3> QED  BY <1>3, <2>1, <3>1, EffectVaultSent DEF TabStays
  <2>3. Others(t) /\ task'[t].ep = task[t].ep /\ task'[t].ws = w /\ task'[t].at = "sent"
    BY <1>3 DEF Goes, Carries
  <2>4. ~task[t].won  BY <2>1 DEF ShapeInv, Ripe
  <2>5. Sent(t)'
    <3>1. task'[t].won => head'[w].snap = task'[t].next  BY <2>2, <2>4
    <3> QED  BY <2>2, <2>3, <3>1 DEF Sent, Sending
  <2>6. ASSUME NEW u \in Ids, u # t PROVE Sent(u)'
    <3>1. task'[u] = task[u]  BY <2>3, <2>6 DEF Others
    <3>2. CASE head' = head  BY <2>2, <3>1, <3>2, SentStays
    <3>3. CASE task[u].at = "sent" /\ ~task[u].lost
      <4>1. task[u].ep.queue = ep.queue  BY <3>3 DEF SendingInv, Sent, Sending
      <4>2. u = t  BY <2>1, <2>2, <3>3, <4>1, OneUnderWay
      <4> QED  BY <2>6, <4>2
    <3>4. CASE ~(task[u].at = "sent" /\ ~task[u].lost)  BY <3>1, <3>4 DEF Sent, Sending
    <3> QED  BY <3>3, <3>4
  <2>7. HydratedFrom'  BY <2>2 DEF SendingInv, HydratedFrom
  <2> QED  BY <2>5, <2>6, <2>7 DEF SendingInv
<1>4. ASSUME NEW t \in Ids, VaultAnswered(t), task[t].won, ~task[t].lost PROVE SendingInv'
  <2>1. LeavesQueue(t) /\ ep' = ep /\ UNCHANGED <<head, hyd>>
        /\ (UNCHANGED vault \/ vault'.gen = vault.gen + 1)
    BY <1>4, EffectVaultAnswered
  <2>2. ASSUME NEW u \in Ids PROVE Sent(u)'
    <3>1. CASE u = t  BY <2>1, <3>1 DEF LeavesQueue, Goes, Sent, Sending
    <3>2. CASE u # t
      <4>1. task'[u] = task[u]  BY <2>1, <3>2 DEF LeavesQueue, Goes, Others
      <4> QED  BY <2>1, <4>1, SentStays
    <3> QED  BY <3>1, <3>2
  <2>3. HydratedFrom'
    <3>1. vault.gen \in Nat /\ (hyd # None => hyd.gen \in Nat)
      BY DEF ShapeInv, StoreTypeOK, VaultOK, Vaults, Hydrations
    <3>2. hyd # None /\ vault'.gen = vault.gen + 1 => hyd.gen <= vault'.gen /\ hyd.gen # vault'.gen
      BY <3>1 DEF SendingInv, HydratedFrom
    <3> QED  BY <2>1, <3>2 DEF SendingInv, HydratedFrom
  <2> QED  BY <2>2, <2>3 DEF SendingInv
<1>5. ASSUME NEW w \in Workspaces, Unlock(w) PROVE SendingInv'
  <2>1. TabStays /\ TasksStay /\ UNCHANGED <<head, hyd>> /\ vault = Closed
    BY <1>5, EffectUnlock
  <2>2. hyd = None  BY <2>1 DEF PlacesInv, VaultPlaced, Closed
  <2>3. ASSUME NEW u \in Ids PROVE Sent(u)'
    <3>1. task'[u] = task[u] /\ ep' = ep  BY <2>1 DEF TasksStay, TabStays
    <3> QED  BY <2>1, <3>1, SentStays
  <2>4. HydratedFrom'  BY <2>1, <2>2 DEF HydratedFrom
  <2> QED  BY <2>3, <2>4 DEF SendingInv
<1>6. CASE Rendered
  <2>1. Renders(vault) /\ TasksStay /\ UNCHANGED <<head, vault>>  BY <1>6, EffectRendered
  <2>2. ASSUME NEW u \in Ids PROVE Sent(u)'
    <3>1. task'[u] = task[u]  BY <2>1 DEF TasksStay
    <3>2. task[u].at = "sent" /\ ~task[u].lost => seen.ws = vault.ws
      BY DEF PlacesInv, Assigned, Sending
    <3>3. task[u].at = "sent" /\ ~task[u].lost => ep'.queue = ep.queue
      BY <2>1, <3>2 DEF Renders
    <3> QED  BY <2>1, <3>1, <3>3, SentStays
  <2>3. HydratedFrom'
    <3>1. vault.gen \in Nat  BY DEF ShapeInv, StoreTypeOK, VaultOK, Vaults
    <3>2. \/ hyd' = None \/ hyd' = hyd
          \/ hyd' # None /\ hyd'.gen = vault.gen /\ hyd'.snap = vault.snap
      BY <2>1 DEF Renders
    <3> QED  BY <2>1, <3>1, <3>2 DEF SendingInv, HydratedFrom
  <2> QED  BY <2>2, <2>3 DEF SendingInv
<1>7. CASE Lock
  <2>1. /\ Renders(Closed) /\ head' = head
        /\ \A u \in Ids : /\ task'[u].at = task[u].at
                          /\ task'[u].lost = (task[u].lost \/ task[u].at = "sent")
    BY <1>7, EffectLock
  <2>2. \A u \in Ids : Sent(u)'
    <3> TAKE u \in Ids
    <3> QED  BY <2>1 DEF Sent, Sending
  <2>3. hyd' = None
    <3>1. hyd' = None \/ (Closed = seen /\ hyd' = hyd)  BY <2>1 DEF Renders, Closed
    <3>2. Closed = seen => hyd = None  BY DEF PlacesInv, VaultPlaced, Closed
    <3> QED  BY <3>1, <3>2
  <2> QED  BY <2>2, <2>3 DEF SendingInv, HydratedFrom
<1>8. CASE Hydrated
  <2>1. hyd' = None /\ TasksStay /\ UNCHANGED <<ep, head>>  BY <1>8, EffectHydrated
  <2>2. ASSUME NEW u \in Ids PROVE Sent(u)'
    <3>1. task'[u] = task[u]  BY <2>1 DEF TasksStay
    <3> QED  BY <2>1, <3>1, SentStays
  <2> QED  BY <2>1, <2>2 DEF SendingInv, HydratedFrom
<1> QED  BY <1>1, <1>2, <1>3, <1>4, <1>5, <1>6, <1>7, <1>8, StepsOfTheStore

-----------------------------------------------------------------------------
(* What was acknowledged is in everything the next head can come from *)

USE DEF Due, DueThen

\* What was promised is in a session or snapshot, a mark with its dataset.
Covers(o, c) == \A x \in o : x \in c.files \/ (x \in c.marks /\ x[2] \in c.files)
HeldBy(o, snap) == IF snap = None THEN o = {} ELSE Covers(o, snap)

\* The heads, what is unlocked, and what is on screen.
HeadsKeep == \A w \in Workspaces : HeldBy(Due(w), head[w].snap)
VaultKeeps == vault.ws # NoWs => HeldBy(Due(vault.ws), vault.snap)
SessionKeeps(s) == s.where = "vault" => Covers(Due(s.ws), s)
ScreenKeeps == SessionKeeps(session) /\ SessionKeeps(shown)
\* The confirmed session; a workspace that showed no archive and has confirmed
\* nothing was promised nothing.
ConfirmedKeeps ==
    /\ committed # None => Covers(Due(committed.ws), committed.session)
    /\ seen.ws # NoWs /\ seen.snap = None /\ committed = None => Due(seen.ws) = {}
\* What an operation of the queue's epoch is about to send.
TakenKeeps(t) ==
    task[t].at = "taken" /\ ~Replaces(t) /\ task[t].ep.queue = ep.queue =>
        Covers(Due(task[t].ws), task[t].next)

\* All of them, unless a late answer or hydration has changed what is on screen.
Kept == HeadsKeep /\ VaultKeeps /\ ScreenKeeps /\ ConfirmedKeeps /\ \A t \in Ids : TakenKeeps(t)
KeptInv == ~blanked /\ ~overtaken => Kept

\* Nothing more is promised in a workspace.
Shrinks == \A w \in Workspaces : DueThen(w) \subseteq Due(w)

LEMMA PlacesNamed ==
  ASSUME ShapeInv, PlacesInv
  PROVE  /\ vault.ws # NoWs => vault.ws \in Workspaces
         /\ seen.ws # NoWs => seen.ws \in Workspaces
         /\ session.where = "vault" => session.ws \in Workspaces /\ session.ws = seen.ws
         /\ shown.where = "vault" => shown.ws \in Workspaces /\ shown.ws = seen.ws
         /\ committed # None =>
              /\ committed.ws \in Workspaces /\ committed.ws = seen.ws
              /\ committed.session.where = "vault" /\ committed.session.ws = seen.ws
         /\ NoWs \notin Workspaces
<1>1. /\ vault.ws \in SomeWs /\ seen.ws \in SomeWs /\ session.ws \in SomeWs
      /\ shown.ws \in SomeWs
  BY DEF ShapeInv, StoreTypeOK, TabOK, VaultOK, Vaults, Sessions
<1>2. /\ session.where = "vault" => session.ws = seen.ws /\ seen.ws # NoWs
      /\ shown.where = "vault" => shown.ws = seen.ws /\ seen.ws # NoWs
  BY DEF PlacesInv, ScreenPlaced, Belongs
<1>3. committed # None =>
        /\ committed.ws = seen.ws /\ seen.ws # NoWs
        /\ committed.session.where = "vault" /\ committed.session.ws = seen.ws
  BY DEF PlacesInv, VaultPlaced, Belongs
<1> QED  BY <1>1, <1>2, <1>3, StoreAssumption DEF SomeWs

LEMMA StillHeld ==
  ASSUME NEW o, NEW p, p \subseteq o
  PROVE  /\ \A c : Covers(o, c) => Covers(p, c)
         /\ \A c : HeldBy(o, c) => HeldBy(p, c)
  BY DEF Covers, HeldBy

LEMMA HeadsStillKeep ==
  ASSUME Kept, Shrinks, \A w \in Workspaces : head'[w].snap = head[w].snap
  PROVE  HeadsKeep'
<1>1. \A w \in Workspaces : HeldBy(DueThen(w), head[w].snap)
  <2> HIDE DEF Due, DueThen
  <2> QED  BY StillHeld DEF Kept, HeadsKeep, Shrinks
<1> QED  BY <1>1 DEF HeadsKeep

LEMMA VaultStillKeeps ==
  ASSUME ShapeInv, PlacesInv, Kept, Shrinks, vault' = vault
  PROVE  VaultKeeps'
<1>1. vault.ws # NoWs => HeldBy(DueThen(vault.ws), vault.snap)
  BY PlacesNamed, StillHeld DEF Kept, VaultKeeps, Shrinks
<1> QED  BY <1>1 DEF VaultKeeps

LEMMA ScreenStillKeeps ==
  ASSUME ShapeInv, PlacesInv, Kept, Shrinks, ScreenAway
  PROVE  ScreenKeeps'
<1>1. session.where = "vault" => Covers(DueThen(session.ws), session)
  BY PlacesNamed, StillHeld DEF Kept, ScreenKeeps, SessionKeeps, Shrinks
<1>2. shown.where = "vault" => Covers(DueThen(shown.ws), shown)
  BY PlacesNamed, StillHeld DEF Kept, ScreenKeeps, SessionKeeps, Shrinks
<1> QED  BY <1>1, <1>2 DEF ScreenAway, ScreenKeeps, SessionKeeps

LEMMA ConfirmedStillKeeps ==
  ASSUME ShapeInv, PlacesInv, Kept, Shrinks, UNCHANGED <<seen, committed>>
  PROVE  ConfirmedKeeps'
<1>1. committed # None => Covers(DueThen(committed.ws), committed.session)
  BY PlacesNamed, StillHeld DEF Kept, ConfirmedKeeps, Shrinks
<1>2. seen.ws # NoWs /\ seen.snap = None /\ committed = None => DueThen(seen.ws) = {}
  BY PlacesNamed DEF Kept, ConfirmedKeeps, Shrinks
<1> QED  BY <1>1, <1>2 DEF ConfirmedKeeps

LEMMA TakenStillKeeps ==
  ASSUME ShapeInv, PlacesInv, Kept, Shrinks, NEW u \in Ids,
         task'[u].at = "taken" =>
            /\ task[u].at = "taken" /\ task'[u].kind = task[u].kind /\ task'[u].extend = task[u].extend
            /\ task'[u].mark = task[u].mark /\ task'[u].ws = task[u].ws
            /\ task'[u].next = task[u].next
            /\ task'[u].ep.queue = ep'.queue => task[u].ep.queue = ep.queue
  PROVE  TakenKeeps(u)'
<1> SUFFICES ASSUME task'[u].at = "taken", ~Replaces(u)', task'[u].ep.queue = ep'.queue
             PROVE  Covers(DueThen(task'[u].ws), task'[u].next)
  BY DEF TakenKeeps, Covers
<1>1. task[u].at = "taken" /\ ~Replaces(u) /\ task[u].ep.queue = ep.queue  BY DEF Replaces
<1>2. task[u].ws \in Workspaces  BY <1>1, QueuedPlace DEF InVaultQueue
<1>3. Covers(Due(task[u].ws), task[u].next)  BY <1>1 DEF Kept, TakenKeeps
<1> QED  BY <1>2, <1>3, StillHeld DEF Shrinks

LEMMA KeptInit == Init => KeptInv
<1> SUFFICES ASSUME Init PROVE Kept
  BY DEF KeptInv
<1>0. ShapeInv /\ PlacesInv  BY ShapeInit, PlacesInit
<1>1. \A w \in Workspaces : Due(w) = {}  BY DEF Init
<1>2. \A c : Covers({}, c) /\ HeldBy({}, c)  BY DEF Covers, HeldBy
<1>3. \A t \in Ids : task[t].at = "none"  BY DEF Init, NoTask, NewTask
<1>4. HeadsKeep  BY <1>1, <1>2 DEF HeadsKeep
<1>5. VaultKeeps  BY <1>0, <1>1, <1>2, PlacesNamed DEF VaultKeeps
<1>6. ScreenKeeps  BY <1>0, <1>1, <1>2, PlacesNamed DEF ScreenKeeps, SessionKeeps
<1>7. ConfirmedKeeps  BY <1>0, <1>1, <1>2, PlacesNamed DEF ConfirmedKeeps
<1> QED  BY <1>3, <1>4, <1>5, <1>6, <1>7 DEF Kept, TakenKeeps

LEMMA KeptQuiet ==
  ASSUME ShapeInv, PlacesInv, KeptInv, Quiet
  PROVE  KeptInv'
<1> SUFFICES ASSUME ~blanked', ~overtaken' PROVE Kept'
  BY DEF KeptInv
<1>1. Kept /\ Shrinks /\ ScreenAway  BY DEF KeptInv, Quiet, Shrinks
<1>2. HeadsKeep' /\ VaultKeeps' /\ ScreenKeeps' /\ ConfirmedKeeps'
  BY <1>1, HeadsStillKeep, VaultStillKeeps, ScreenStillKeeps, ConfirmedStillKeeps DEF Quiet
<1>3. ASSUME NEW u \in Ids PROVE TakenKeeps(u)'
  <2>1. task'[u].at = "taken" => task'[u] = task[u]  BY DEF Quiet
  <2> QED  BY <1>1, <2>1, TakenStillKeeps DEF Quiet
<1> QED  BY <1>2, <1>3 DEF Kept

\* What is taken from the session, the confirmed head or a backup.
LEMMA KeptTaken ==
  ASSUME ShapeInv, PlacesInv, KeptInv, NEW t \in Ids, Takes(t),
         MarkTaken(t) \/ ImportTaken(t) \/ RestoreTaken(t)
  PROVE  KeptInv'
<1> SUFFICES ASSUME ~blanked', ~overtaken' PROVE Kept'
  BY DEF KeptInv
<1>1. /\ UNCHANGED <<ep, session, shown, head, vault, seen, committed, owed, unseen>>
      /\ blanked' = blanked /\ overtaken' = overtaken
  BY DEF Takes, TabStays, VaultStays, StorageStays
<1>2. Kept /\ Shrinks /\ ScreenAway  BY <1>1 DEF KeptInv, Shrinks, ScreenAway
<1>3. HeadsKeep' /\ VaultKeeps' /\ ScreenKeeps' /\ ConfirmedKeeps'
  BY <1>1, <1>2, HeadsStillKeep, VaultStillKeeps, ScreenStillKeeps, ConfirmedStillKeeps
<1>4. /\ Others(t) /\ task[t].at = "queued" /\ task'[t].at = "taken"
      /\ task'[t].kind = task[t].kind /\ task'[t].extend = task[t].extend
      /\ task'[t].mark = task[t].mark /\ task'[t].ws = task[t].ws
  BY DEF Takes, Goes, Carries
<1>5. ASSUME NEW u \in Ids, u # t PROVE TakenKeeps(u)'
  <2>1. task'[u] = task[u]  BY <1>4, <1>5 DEF Others
  <2> QED  BY <1>1, <1>2, <2>1, TakenStillKeeps
<1>6. ~LeavesQueue(t)  BY <1>4 DEF LeavesQueue, Goes
<1>7. TakenKeeps(t)'
  <2> SUFFICES ASSUME ~Replaces(t)' PROVE Covers(Due(task[t].ws), task'[t].next)
    BY <1>1, <1>4 DEF TakenKeeps
  <2>1. ~Replaces(t)  BY <1>4 DEF Replaces
  <2>2. task[t].ws \in Workspaces  BY <1>4, QueuedPlace DEF InVaultQueue
  <2>3. CASE MarkTaken(t)
    <3>1. /\ task'[t].next = [files |-> session.files, marks |-> session.marks \cup {task[t].mark}]
          /\ session.where = "vault" /\ session.ws = task[t].ws
      BY <1>6, <2>3, EffectMarkTaken DEF TakenFrom
    <3>2. Covers(Due(task[t].ws), session)  BY <1>2, <3>1 DEF Kept, ScreenKeeps, SessionKeeps
    <3> QED  BY <3>1, <3>2 DEF Covers
  <2>4. CASE ImportTaken(t)
    <3>1. /\ task[t].kind = "import" /\ task'[t].next = Merge(t, ImportBase(t))
          /\ seen.ws = task[t].ws
          /\ seen.snap # None => ImportBase(t).where = "vault" /\ ImportBase(t).ws = task[t].ws
      BY <1>6, <2>4, EffectImportTaken DEF TakenFrom
    <3>2. task[t].extend /\ task[t].file \in Files /\ ImportBase(t) \in Sessions
      <4>1. Ripe(task[t], t)  BY DEF ShapeInv
      <4>2. task[t].mark = None /\ task[t].file \in Files  BY <3>1, <4>1 DEF Ripe
      <4> QED  BY <2>1, <3>1, <4>2, Bases DEF Replaces
    <3>3. Covers(Due(task[t].ws), ImportBase(t))
      <4>1. CASE committed # None
        <5>1. committed.ws = task[t].ws  BY <3>1, <4>1, PlacesNamed
        <5>2. ImportBase(t) = committed.session  BY <4>1, <5>1 DEF ImportBase
        <5> QED  BY <1>2, <4>1, <5>1, <5>2 DEF Kept, ConfirmedKeeps
      <4>2. CASE committed = None /\ seen.snap # None
        <5>1. ImportBase(t) = session  BY <4>2 DEF ImportBase
        <5> QED  BY <1>2, <3>1, <4>2, <5>1 DEF Kept, ScreenKeeps, SessionKeeps
      <4>3. CASE committed = None /\ seen.snap = None
        <5>1. seen.ws # NoWs  BY <2>2, <3>1, PlacesNamed
        <5>2. Due(task[t].ws) = {}  BY <1>2, <3>1, <4>3, <5>1 DEF Kept, ConfirmedKeeps
        <5> QED  BY <5>2 DEF Covers
      <4> QED  BY <4>1, <4>2, <4>3
    <3>4. /\ ImportBase(t).files \subseteq Merge(t, ImportBase(t)).files
          /\ Merge(t, ImportBase(t)).marks =
               {m \in ImportBase(t).marks : m[2] \in Merge(t, ImportBase(t)).files}
      BY <3>2, Merging
    <3> HIDE DEF ImportBase
    <3> QED  BY <3>1, <3>3, <3>4 DEF Covers
  <2>5. CASE RestoreTaken(t)
    <3>1. task[t].kind = "restore"  BY <2>5, EffectRestoreTaken
    <3> QED  BY <2>1, <3>1 DEF Replaces
  <2> QED  BY <2>3, <2>4, <2>5
<1> QED  BY <1>3, <1>5, <1>7 DEF Kept

\* A confirmed session of a workspace is one.
LEMMA ConfirmedNamed ==
  ASSUME NEW c \in Confirmed, c.ws \in Workspaces, c.session.where = "vault",
         c.session.ws \in Workspaces
  PROVE  c # None
<1> DEFINE S == [where : {"vault"}, ws : Workspaces, files : SUBSET Files, marks : SUBSET Marks]
<1>1. c.session \in Sessions /\ c = [ws |-> c.ws, session |-> c.session]  BY DEF Confirmed
<1>2. c.session \in S  BY <1>1 DEF Sessions
<1> QED  BY <1>1, <1>2, StoreAssumption

\* A render with another workspace leaves no operation of the queue's epoch.
LEMMA QueueRendered ==
  ASSUME ShapeInv, QueueInv, NEW u \in Ids, NEW v, Renders(v), task[u].at \in InVaultQueue,
         task[u].ep.queue = ep'.queue
  PROVE  task[u].ep.queue = ep.queue
<1>1. task[u].ep.queue <= ep.queue /\ ep.queue \in Nat
  BY DEF QueueInv, ShapeInv, StoreTypeOK, TabOK, Epochs, EpochNames
<1> QED  BY <1>1 DEF Renders

LEMMA ScreenRendered ==
  ASSUME ShapeInv, Kept, NEW v, Renders(v), UNCHANGED <<owed, unseen>>
  PROVE  ScreenKeeps'
<1>1. CASE session' = shown /\ shown' = shown
  BY <1>1 DEF Kept, ScreenKeeps, SessionKeeps
<1>2. CASE EnterDemo
  <2>1. session' = shown' /\ session' = Demo(fence # NoToken)
    BY <1>2, EnteringDemo DEF ShapeInv, StoreTypeOK
  <2>2. session'.where = "demo"  BY <2>1, SessionKinds DEF ShapeInv, StoreTypeOK
  <2> QED  BY <2>1, <2>2 DEF ScreenKeeps, SessionKeeps
<1> QED  BY <1>1, <1>2 DEF Renders

\* A head that moves holds what the operation was to keep.
LEMMA KeptSent ==
  ASSUME ShapeInv, PlacesInv, QueueInv, KeptInv, NEW t \in Ids, VaultSent(t), Goes(t, "sent")
  PROVE  KeptInv'
<1> SUFFICES ASSUME ~blanked', ~overtaken' PROVE Kept'
  BY DEF KeptInv
<1> DEFINE w == task[t].ws
<1>1. task[t].at = "taken" /\ w \in Workspaces
  BY EffectVaultSent, QueuedPlace DEF InVaultQueue
<1>2. ~LeavesQueue(t)  BY DEF LeavesQueue, Goes
<1>3. /\ UNCHANGED <<ep, session, shown, vault, seen, committed, unseen, overtaken, blanked>>
      /\ ep.queue = task[t].ep.queue
      /\ \/ UNCHANGED <<head, owed>>
         \/ /\ \A u \in Workspaces : u # w => head'[u] = head[u]
            /\ head'[w].snap = task[t].next
            /\ \A u \in Workspaces : owed'[u] = IF u = w /\ Replaces(t) THEN {} ELSE owed[u]
  BY <1>1, <1>2, EffectVaultSent DEF TabStays
<1>4. Shrinks
  <2>1. CASE owed' = owed  BY <1>3, <2>1 DEF Shrinks
  <2>2. CASE \A u \in Workspaces : owed'[u] = IF u = w /\ Replaces(t) THEN {} ELSE owed[u]
    BY <1>3, <2>2 DEF Shrinks
  <2> QED  BY <1>3, <2>1, <2>2
<1>5. Kept /\ ScreenAway  BY <1>3 DEF KeptInv, ScreenAway
<1>6. VaultKeeps' /\ ScreenKeeps' /\ ConfirmedKeeps'
  BY <1>3, <1>4, <1>5, VaultStillKeeps, ScreenStillKeeps, ConfirmedStillKeeps
<1>7. HeadsKeep'
  <2>1. CASE UNCHANGED <<head, owed>>  BY <1>4, <1>5, <2>1, HeadsStillKeep
  <2>2. CASE /\ \A u \in Workspaces : u # w => head'[u] = head[u]
             /\ head'[w].snap = task[t].next
             /\ \A u \in Workspaces : owed'[u] = IF u = w /\ Replaces(t) THEN {} ELSE owed[u]
    <3>1. task[t].next # None
      BY StoreAssumption DEF ShapeInv, StoreTypeOK, TasksOK, TaskRecs, Snaps
    <3>2. Covers(DueThen(w), task[t].next)
      <4>1. CASE Replaces(t)  BY <1>1, <2>2, <4>1 DEF Covers
      <4>2. CASE ~Replaces(t)
        <5>1. Covers(Due(w), task[t].next)
          BY <1>1, <1>3, <1>5, <4>2 DEF Kept, TakenKeeps
        <5> QED  BY <1>1, <1>4, <5>1, StillHeld DEF Shrinks
      <4> QED  BY <4>1, <4>2
    <3>3. HeldBy(DueThen(w), head'[w].snap)  BY <2>2, <3>1, <3>2 DEF HeldBy
    <3>4. ASSUME NEW u \in Workspaces, u # w PROVE HeldBy(DueThen(u), head'[u].snap)
      <4> HIDE DEF Due, DueThen
      <4> QED  BY <1>4, <1>5, <2>2, <3>4, StillHeld DEF Kept, HeadsKeep, Shrinks
    <3> QED  BY <3>3, <3>4 DEF HeadsKeep
  <2> QED  BY <1>3, <2>1, <2>2
<1>8. ASSUME NEW u \in Ids PROVE TakenKeeps(u)'
  <2>1. CASE u = t  BY <2>1 DEF Goes, TakenKeeps
  <2>2. CASE u # t
    <3>1. task'[u] = task[u]  BY <2>2 DEF Goes, Others
    <3> QED  BY <1>3, <1>4, <1>5, <3>1, TakenStillKeeps
  <2> QED  BY <2>1, <2>2
<1> QED  BY <1>6, <1>7, <1>8 DEF Kept

\* The answer: what it acknowledges is in the head it saved.
LEMMA KeptAnswered ==
  ASSUME ShapeInv, PlacesInv, QueueInv, SendingInv, KeptInv, NEW t \in Ids, VaultAnswered(t),
         task[t].won, ~task[t].lost
  PROVE  KeptInv'
<1> SUFFICES ASSUME ~blanked', ~overtaken' PROVE Kept'
  BY DEF KeptInv
<1> DEFINE w == task[t].ws
           n == task[t].next
           s == VaultSession(t)
<1>1. /\ task[t].at = "sent" /\ LeavesQueue(t)
      /\ UNCHANGED <<ep, head, seen, overtaken, blanked>>
  BY EffectVaultAnswered
<1>2. w \in Workspaces  BY <1>1, QueuedPlace DEF InVaultQueue
<1>3. seen.ws = w /\ vault.ws = w  BY <1>1 DEF PlacesInv, Assigned, Sending
<1>4. task[t].ep.queue = ep.queue /\ head[w].snap = n  BY <1>1 DEF SendingInv, Sent, Sending
<1>5. Kept /\ ep' = ep  BY <1>1 DEF KeptInv
<1>6. n \in Snaps /\ n # None
  BY StoreAssumption DEF ShapeInv, StoreTypeOK, TasksOK, TaskRecs, Snaps
<1>7. Covers(Due(w), n)  BY <1>2, <1>4, <1>5, <1>6 DEF Kept, HeadsKeep, HeldBy
<1>8. Covers(Due(w) \cup Promise(t), n)
  <2>1. Promised(t)  BY <1>1, Promising
  <2> QED  BY <1>7, <2>1 DEF Promised, Covers
<1>9. s.where = "vault" /\ s.ws = w /\ s.files = n.files /\ s.marks = n.marks
  BY DEF VaultSession, Session
<1>10. \A o : Covers(o, n) => Covers(o, s)  BY <1>9 DEF Covers
<1> HIDE DEF s
<1>11. \/ UNCHANGED <<vault, committed, session, shown, owed, unseen>>
       \/ /\ vault'.ws = w /\ vault'.snap = n
          /\ \/ committed' = committed
             \/ committed' # None /\ committed'.ws = w /\ committed'.session = s
          /\ \/ UNCHANGED <<session, shown>> /\ DueThen(w) \subseteq Due(w)
             \/ /\ session' = s /\ shown' = s
                /\ committed' # None /\ committed'.ws = w /\ committed'.session = s
                /\ DueThen(w) \subseteq Due(w) \cup Promise(t) \cup Retained(n.marks, n.files)
  <2>1. \A c \in Confirmed : c.ws = w /\ c.session = s => c # None
    BY <1>2, <1>9, ConfirmedNamed
  <2> HIDE DEF Due, DueThen
  <2> QED  BY <1>2, <1>3, <2>1, EffectVaultAnswered DEF s
<1>12. /\ \A u \in Workspaces : u # w => DueThen(u) = Due(u)
       /\ DueThen(w) \subseteq Due(w) \cup Promise(t) \cup Retained(n.marks, n.files)
  <2>1. \A u \in Workspaces : u # w => owed'[u] = owed[u] /\ unseen'[u] = unseen[u]
    BY EffectVaultAnswered
  <2> QED  BY <1>11, <2>1
<1>13. Covers(DueThen(w), n)
  <2> HIDE DEF Due, DueThen
  <2> QED  BY <1>8, <1>12 DEF Covers, Retained
<1>14. HeadsKeep'
  <2>1. HeldBy(DueThen(w), head'[w].snap)  BY <1>1, <1>4, <1>6, <1>13 DEF HeldBy
  <2>2. \A u \in Workspaces : u # w => HeldBy(DueThen(u), head'[u].snap)
    <3> HIDE DEF Due, DueThen
    <3> QED  BY <1>1, <1>5, <1>12 DEF Kept, HeadsKeep
  <2> QED  BY <2>1, <2>2 DEF HeadsKeep
<1>15. ASSUME NEW u \in Ids PROVE TakenKeeps(u)'
  <2>1. CASE u = t  BY <1>1, <2>1 DEF LeavesQueue, Goes, TakenKeeps
  <2>2. CASE u # t
    <3>1. task'[u] = task[u]  BY <1>1, <2>2 DEF LeavesQueue, Goes, Others
    <3>2. task[u].at = "taken" /\ task[u].ep.queue = ep.queue => u = t
      BY <1>1, <1>4, OneUnderWay
    <3> QED  BY <1>5, <2>2, <3>1, <3>2 DEF TakenKeeps
  <2> QED  BY <2>1, <2>2
<1>16. CASE UNCHANGED <<vault, committed, session, shown, owed, unseen>>
  <2>1. Shrinks /\ ScreenAway /\ UNCHANGED <<seen, committed, vault>>
    BY <1>1, <1>16 DEF Shrinks, ScreenAway
  <2>2. VaultKeeps' /\ ScreenKeeps' /\ ConfirmedKeeps'
    BY <1>5, <2>1, VaultStillKeeps, ScreenStillKeeps, ConfirmedStillKeeps
  <2> QED  BY <1>14, <1>15, <2>2 DEF Kept
<1>17. CASE ~UNCHANGED <<vault, committed, session, shown, owed, unseen>>
  <2>1. VaultKeeps'
    <3>1. vault'.ws = w /\ vault'.snap = n  BY <1>11, <1>17
    <3> QED  BY <1>6, <1>13, <3>1 DEF VaultKeeps, HeldBy
  <2>2. committed' # None /\ committed'.ws = w /\ committed'.session = s => ConfirmedKeeps'
    BY <1>10, <1>13 DEF ConfirmedKeeps
  <2>3. CASE UNCHANGED <<session, shown>> /\ DueThen(w) \subseteq Due(w)
    <3>1. Shrinks /\ ScreenAway
      <4> HIDE DEF Due, DueThen
      <4> QED  BY <1>12, <2>3 DEF Shrinks, ScreenAway
    <3>2. ScreenKeeps'  BY <1>5, <3>1, ScreenStillKeeps
    <3>3. committed' = committed => ConfirmedKeeps'
      BY <1>1, <1>5, <3>1, ConfirmedStillKeeps
    <3>4. ConfirmedKeeps'  BY <1>11, <1>17, <2>2, <3>3
    <3> QED  BY <1>14, <1>15, <2>1, <3>2, <3>4 DEF Kept
  <2>4. CASE ~(UNCHANGED <<session, shown>> /\ DueThen(w) \subseteq Due(w))
    <3>1. /\ session' = s /\ shown' = s
          /\ committed' # None /\ committed'.ws = w /\ committed'.session = s
      BY <1>11, <1>17, <2>4
    <3>2. ScreenKeeps'  BY <1>9, <1>10, <1>13, <3>1 DEF ScreenKeeps, SessionKeeps
    <3> QED  BY <1>14, <1>15, <2>1, <2>2, <3>1, <3>2 DEF Kept
  <2> QED  BY <2>3, <2>4
<1> QED  BY <1>16, <1>17

\* The vault context opens, closes or is rendered; an archive is hydrated.
LEMMA KeptMoves ==
  ASSUME ShapeInv, PlacesInv, QueueInv, SendingInv, KeptInv,
         (\E w \in Workspaces : Unlock(w)) \/ Rendered \/ Lock \/ Hydrated
  PROVE  KeptInv'
<1> SUFFICES ASSUME ~blanked', ~overtaken' PROVE Kept'
  BY DEF KeptInv
<1>1. ASSUME NEW w \in Workspaces, Unlock(w) PROVE Kept'
  <2>1. /\ TabStays /\ TasksStay /\ StorageStays /\ vault'.ws = w /\ vault'.snap = head[w].snap
        /\ UNCHANGED <<head, seen, committed, unseen, overtaken, blanked>>
    BY <1>1, EffectUnlock
  <2>2. UNCHANGED <<ep, session, shown, owed, unseen>> /\ \A u \in Ids : task'[u] = task[u]
    BY <2>1 DEF TabStays, StorageStays, TasksStay
  <2>3. Kept /\ Shrinks /\ ScreenAway  BY <2>1, <2>2 DEF KeptInv, Shrinks, ScreenAway
  <2>4. HeadsKeep' /\ ScreenKeeps' /\ ConfirmedKeeps'
    BY <2>1, <2>3, HeadsStillKeep, ScreenStillKeeps, ConfirmedStillKeeps
  <2>5. VaultKeeps'  BY <2>1, <2>2, <2>3 DEF Kept, HeadsKeep, VaultKeeps
  <2>6. \A u \in Ids : TakenKeeps(u)'  BY <2>2, <2>3, TakenStillKeeps
  <2> QED  BY <2>4, <2>5, <2>6 DEF Kept
<1>2. CASE Rendered
  <2>1. Renders(vault) /\ TasksStay /\ StorageStays /\ UNCHANGED <<head, vault, unseen, overtaken, blanked>>
    BY <1>2, EffectRendered
  <2>2. UNCHANGED <<owed, unseen>> /\ \A u \in Ids : task'[u] = task[u]
    BY <2>1 DEF StorageStays, TasksStay
  <2>3. Kept /\ Shrinks  BY <2>1, <2>2 DEF KeptInv, Shrinks
  <2>4. HeadsKeep' /\ VaultKeeps'  BY <2>1, <2>3, HeadsStillKeep, VaultStillKeeps
  <2>5. ScreenKeeps'  BY <2>1, <2>2, <2>3, ScreenRendered
  <2>6. ConfirmedKeeps'
    <3>1. seen' = vault /\ (committed' = committed \/ committed' = None)  BY <2>1 DEF Renders
    <3>2. committed' # None => Covers(DueThen(committed'.ws), committed'.session)
      BY <2>2, <2>3, <3>1 DEF Kept, ConfirmedKeeps
    <3>3. vault.ws # NoWs /\ vault.snap = None => DueThen(vault.ws) = {}
      BY <2>2, <2>3 DEF Kept, VaultKeeps, HeldBy
    <3> QED  BY <3>1, <3>2, <3>3 DEF ConfirmedKeeps
  <2>7. ASSUME NEW u \in Ids PROVE TakenKeeps(u)'
    <3>1. task'[u].at = "taken" /\ task'[u].ep.queue = ep'.queue => task[u].ep.queue = ep.queue
      BY <2>1, <2>2, QueueRendered DEF InVaultQueue
    <3> QED  BY <2>2, <2>3, <3>1, TakenStillKeeps
  <2> QED  BY <2>4, <2>5, <2>6, <2>7 DEF Kept
<1>3. CASE Lock
  <2>1. /\ Renders(Closed) /\ vault' = Closed /\ StorageStays
        /\ UNCHANGED <<head, unseen, overtaken, blanked>>
        /\ \A u \in Ids : /\ task'[u].at = task[u].at /\ task'[u].ep = task[u].ep
                          /\ task'[u].ws = task[u].ws /\ task'[u].next = task[u].next
                          /\ task'[u].kind = task[u].kind /\ task'[u].mark = task[u].mark
                          /\ task'[u].extend = task[u].extend
    BY <1>3, EffectLock
  <2>2. UNCHANGED <<owed, unseen>>  BY <2>1 DEF StorageStays
  <2>3. Kept /\ Shrinks  BY <2>1, <2>2 DEF KeptInv, Shrinks
  <2>4. HeadsKeep'  BY <2>1, <2>3, HeadsStillKeep
  <2>5. VaultKeeps'  BY <2>1 DEF VaultKeeps, Closed
  <2>6. ScreenKeeps'  BY <2>1, <2>2, <2>3, ScreenRendered
  <2>7. ConfirmedKeeps'
    <3>1. seen' = Closed /\ (committed' = committed \/ committed' = None)  BY <2>1 DEF Renders
    <3>2. committed' # None => Covers(DueThen(committed'.ws), committed'.session)
      BY <2>2, <2>3, <3>1 DEF Kept, ConfirmedKeeps
    <3> QED  BY <3>1, <3>2 DEF ConfirmedKeeps, Closed
  <2>8. ASSUME NEW u \in Ids PROVE TakenKeeps(u)'
    <3>1. task'[u].at = "taken" /\ task'[u].ep.queue = ep'.queue => task[u].ep.queue = ep.queue
      BY <2>1, QueueRendered DEF InVaultQueue
    <3> QED  BY <2>1, <2>3, <3>1, TakenStillKeeps
  <2> QED  BY <2>4, <2>5, <2>6, <2>7, <2>8 DEF Kept
<1>4. CASE Hydrated
  <2>1. /\ hyd \in Hydrations /\ TasksStay /\ StorageStays
        /\ UNCHANGED <<ep, head, vault, seen, unseen, blanked>>
        /\ \/ UNCHANGED <<committed, session, shown, overtaken>>
           \/ LET s == Session("vault", hyd.ws, hyd.snap.files, hyd.snap.marks) IN
              /\ session' = s /\ shown' = s
              /\ committed' \in Confirmed /\ committed'.ws = hyd.ws /\ committed'.session = s
              /\ overtaken' = (overtaken \/ vault.gen # hyd.gen)
    BY <1>4, EffectHydrated
  <2>2. UNCHANGED <<owed, unseen>> /\ \A u \in Ids : task'[u] = task[u]
    BY <2>1 DEF StorageStays, TasksStay
  <2>3. ~overtaken  BY <2>1
  <2>4. Kept /\ Shrinks  BY <2>1, <2>2, <2>3 DEF KeptInv, Shrinks
  <2>5. HeadsKeep' /\ VaultKeeps'  BY <2>1, <2>4, HeadsStillKeep, VaultStillKeeps
  <2>6. \A u \in Ids : TakenKeeps(u)'  BY <2>1, <2>2, <2>4, TakenStillKeeps
  <2>7. CASE UNCHANGED <<committed, session, shown>>
    <3>1. ScreenAway  BY <2>7 DEF ScreenAway
    <3>2. ScreenKeeps' /\ ConfirmedKeeps'
      BY <2>1, <2>4, <2>7, <3>1, ScreenStillKeeps, ConfirmedStillKeeps
    <3> QED  BY <2>5, <2>6, <3>2 DEF Kept
  <2>8. CASE ~UNCHANGED <<committed, session, shown>>
    <3> DEFINE s == Session("vault", hyd.ws, hyd.snap.files, hyd.snap.marks)
    <3>1. /\ session' = s /\ shown' = s /\ vault.gen = hyd.gen
          /\ committed' \in Confirmed /\ committed'.ws = hyd.ws /\ committed'.session = s
      BY <2>1, <2>8
    <3>2. s.where = "vault" /\ s.ws = hyd.ws /\ s.files = hyd.snap.files /\ s.marks = hyd.snap.marks
      BY DEF Session
    <3> HIDE DEF s
    <3>3. hyd # None  BY <1>4 DEF Hydrated
    <3>4. vault.snap = hyd.snap /\ vault.ws = hyd.ws /\ vault.ws # NoWs
      BY <3>1, <3>3 DEF SendingInv, HydratedFrom, PlacesInv, VaultPlaced
    <3>10. committed' # None
      BY <3>1, <3>2, <3>4, PlacesNamed, ConfirmedNamed
    <3>5. hyd.snap # None  BY <2>1, StoreAssumption DEF Hydrations, Snaps
    <3>6. Covers(Due(hyd.ws), hyd.snap)  BY <2>4, <3>4, <3>5 DEF Kept, VaultKeeps, HeldBy
    <3>7. Covers(DueThen(hyd.ws), s)  BY <2>2, <3>2, <3>6 DEF Covers
    <3>8. ScreenKeeps'  BY <3>1, <3>2, <3>7 DEF ScreenKeeps, SessionKeeps
    <3>9. ConfirmedKeeps'  BY <3>1, <3>7, <3>10 DEF ConfirmedKeeps
    <3> QED  BY <2>5, <2>6, <3>8, <3>9 DEF Kept
  <2> QED  BY <2>7, <2>8
<1> QED  BY <1>1, <1>2, <1>3, <1>4

LEMMA KeptNext ==
  ShapeInv /\ PlacesInv /\ QueueInv /\ SendingInv /\ KeptInv /\ [Next]_vars => KeptInv'
<1> SUFFICES ASSUME ShapeInv, PlacesInv, QueueInv, SendingInv, KeptInv, [Next]_vars PROVE KeptInv'
  OBVIOUS
<1> QED  BY StepsOfTheStore, KeptQuiet, KeptTaken, KeptSent, KeptAnswered, KeptMoves

-----------------------------------------------------------------------------
(* What was acknowledged in the browser is kept there *)

\* In each scope.
ScopesKeep == \A s \in Scopes : owed[s] \subseteq kept[s]

LEMMA ScopesInit == Init => ScopesKeep
<1> SUFFICES ASSUME Init PROVE ScopesKeep
  OBVIOUS
<1>1. owed = [p \in Scopes \cup Workspaces |-> {}]  BY DEF Init
<1> QED  BY <1>1 DEF ScopesKeep

LEMMA ScopesStay ==
  ASSUME ScopesKeep, kept' = kept, \A s \in Scopes : owed'[s] \subseteq owed[s]
  PROVE  ScopesKeep'
  BY DEF ScopesKeep

LEMMA ScopesSteps ==
  ASSUME ShapeInv, PlacesInv, ScopesKeep, NEW t \in Ids, Step(t)
  PROVE  ScopesKeep'
<1>1. StorageStays => ScopesKeep'  BY ScopesStay DEF StorageStays
<1>2. UNCHANGED <<kept, owed>> => ScopesKeep'  BY ScopesStay
<1>3. CASE MarkStored(t)
  <2> DEFINE p == task[t].base.where
             m == task[t].mark
  <2>1. \/ /\ kept'[p] = kept[p] \cup {m} /\ owed'[p] = owed[p] \cup {m}
           /\ \A u \in Scopes : u # p => kept'[u] = kept[u] /\ owed'[u] = owed[u]
        \/ UNCHANGED <<kept, owed>>
    BY <1>3, EffectMarkStored
  <2>2. \A u \in Scopes : owed'[u] \subseteq kept'[u]
    BY <2>1 DEF ScopesKeep
  <2> QED  BY <2>2 DEF ScopesKeep
<1>4. CASE MarkShown(t)  BY <1>1, <1>4, EffectMarkShown
<1>5. CASE MarkSentToCloud(t)  BY <1>2, <1>5, EffectMarkSentToCloud
<1>6. CASE MarkBackFromCloud(t)  BY <1>1, <1>6, EffectMarkBackFromCloud
<1>7. CASE MarkTaken(t) \/ ImportTaken(t) \/ RestoreTaken(t)
  BY <1>1, <1>7, EffectMarkTaken, EffectImportTaken, EffectRestoreTaken
<1>8. CASE VaultSent(t)
  <2> DEFINE w == task[t].ws
  <2>1. task[t].at = "taken" /\ w \in Workspaces
    BY <1>8, EffectVaultSent, QueuedPlace DEF InVaultQueue
  <2>2. \A s \in Scopes : s # w  BY <2>1, StoreAssumption
  <2>3. kept' = kept /\ \A s \in Scopes : owed'[s] = owed[s]  BY <1>8, <2>2, EffectVaultSent
  <2> QED  BY <2>3, ScopesStay
<1>9. CASE VaultAnswered(t)
  <2> DEFINE w == task[t].ws
  <2>1. task[t].at = "sent" /\ w \in Workspaces
    BY <1>9, EffectVaultAnswered, QueuedPlace DEF InVaultQueue
  <2>2. \A s \in Scopes : s # w  BY <2>1, StoreAssumption
  <2>3. kept' = kept /\ \A s \in Scopes : owed'[s] = owed[s]
    BY <1>9, <2>2, EffectVaultAnswered
  <2> QED  BY <2>3, ScopesStay
<1>10. CASE ArchiveVerified(t)  BY <1>1, <1>10, EffectArchiveVerified
<1>11. CASE ImportTurn(t)  BY <1>1, <1>11, EffectImportTurn
<1>12. CASE ImportShown(t)  BY <1>1, <1>12, EffectImportShown
<1>13. CASE RestoreStored(t)
  <2>1. \/ \A u \in Scopes : /\ kept'[u] = IF u = Place(t) THEN {<<t, task[t].file>>} ELSE kept[u]
                             /\ owed'[u] = IF u = Place(t) THEN {<<t, task[t].file>>} ELSE owed[u]
        \/ UNCHANGED <<kept, owed>>
    BY <1>13, EffectRestoreStored
  <2> QED  BY <1>2, <2>1 DEF ScopesKeep
<1>14. CASE RestoreShown(t)  BY <1>1, <1>14, EffectRestoreShown
<1>15. CASE LoadAnswered(t)  BY <1>1, <1>15, EffectLoadAnswered
<1>16. CASE ClearStored(t)
  <2>1. StorageStays \/ Empties  BY <1>16, EffectClearStored
  <2> QED  BY <1>1, <2>1 DEF Empties, ScopesKeep
<1>17. CASE ClearShown(t)  BY <1>1, <1>17, EffectClearShown
<1> QED
  BY <1>3, <1>4, <1>5, <1>6, <1>7, <1>8, <1>9, <1>10, <1>11, <1>12, <1>13, <1>14, <1>15, <1>16,
     <1>17 DEF Step

LEMMA ScopesNext == ShapeInv /\ PlacesInv /\ ScopesKeep /\ [Next]_vars => ScopesKeep'
<1> SUFFICES ASSUME ShapeInv, PlacesInv, ScopesKeep, [Next]_vars PROVE ScopesKeep'
  OBVIOUS
<1>1. StoreTypeOK  BY DEF ShapeInv
<1>2. StorageStays => ScopesKeep'  BY ScopesStay DEF StorageStays
<1>3. CASE UNCHANGED vars
  <2>1. UNCHANGED <<kept, owed>>  BY <1>3 DEF vars, storage, ghosts
  <2> QED  BY <2>1, ScopesStay
<1>4. ASSUME NEW t \in Ids,
             \/ \E f \in Data : Mark(t, f)
             \/ \E f \in Files : Import(t, f) \/ Archive(t, f)
             \/ \E f \in Files \cup {"demo"} : Restore(t, f)
             \/ Load(t) \/ Clear(t)
      PROVE  StorageStays
  <2>1. \A f \in Data : Mark(t, f) => StorageStays  BY <1>1, EffectMark
  <2>2. \A f \in Files : Import(t, f) => StorageStays  BY <1>1, EffectImport
  <2>3. \A f \in Files : Archive(t, f) => StorageStays  BY <1>1, EffectArchive
  <2>4. \A f \in Files \cup {"demo"} : Restore(t, f) => StorageStays  BY <1>1, EffectRestore
  <2>5. Load(t) \/ Clear(t) => StorageStays  BY <1>1, EffectLoad, EffectClear
  <2> QED  BY <1>4, <2>1, <2>2, <2>3, <2>4, <2>5
<1>5. CASE OtherTab
  <2>1. Empties \/ UNCHANGED <<kept, owed>>  BY <1>5, EffectOtherTab
  <2> QED  BY <2>1, ScopesStay DEF Empties, ScopesKeep
<1>6. ASSUME \/ ShowDemo \/ CancelRestoreIntent \/ StorageEvent \/ Recover
             \/ \E w \in Workspaces : OtherDevice(w) \/ Unlock(w)
             \/ Rendered \/ Lock \/ Hydrated
      PROVE  StorageStays
  BY <1>6, EffectShowDemo, EffectCancelRestoreIntent, EffectStorageEvent, EffectRecover,
     EffectOtherDevice, EffectUnlock, EffectRendered, EffectLock, EffectHydrated
<1> QED  BY <1>2, <1>3, <1>4, <1>5, <1>6, ScopesSteps DEF Next, Step

\* What an operation reported as saved is in the committed head of its workspace,
\* or in the browser's storage, until the user replaces or clears it - unless a
\* Binance answer took the vault's session off the screen, a hydration came back
\* after a later save, or it is a migrated review whose receipt was returned
\* without its display and that no later save has shown.
THEOREM SavedWorkIsKept == Spec => []AcknowledgedWorkIsKept
<1>1. KeptInv /\ ScopesKeep => AcknowledgedWorkIsKept
  BY DEF KeptInv, Kept, HeadsKeep, HeldBy, Covers, ScopesKeep, Content, AcknowledgedWorkIsKept
<1> QED
  BY <1>1, ShapeInit, ShapeNext, ClearInit, ClearNext, PlacesInit, PlacesNext, QueueInit,
     QueueNext, SendingInit, SendingNext, KeptInit, KeptNext, ScopesInit, ScopesNext,
     PTL DEF Spec
================================================================================
