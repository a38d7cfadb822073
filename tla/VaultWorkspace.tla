--------------------------- MODULE VaultWorkspace ---------------------------
(***************************************************************************)
(* The encrypted workspaces of one account: the server's immutable objects *)
(* and the head that names the active one, and on every device the vault   *)
(* context, its controller and the requests it has under way.              *)
(*                                                                         *)
(* A device gives a request up when it is aborted, times out or loses its  *)
(* answer.  What it has sent may still be applied, before or after the     *)
(* device asks what became of it.                                          *)
(*                                                                         *)
(* A snapshot is the set of saves it contains.  Signatures and envelopes   *)
(* are reduced to whether a stored object still verifies and decrypts.     *)
(***************************************************************************)
EXTENDS Integers, FiniteSets, Sequences, SequencesExt

CONSTANTS
    Devices,
    Kits,        \* recovery kits; each is the root of one workspace
    MaxOps,      \* operations that await, over all devices
    MaxMoves,    \* locks, selections, sign-outs and damaged objects
    None

Ops == 1..MaxOps

\* Kits, devices and operations are told apart, and nothing from what there is.
ASSUME VaultAssumption ==
    /\ MaxOps \in Nat /\ MaxMoves \in Nat
    /\ (Kits \cup Devices \cup {None}) \cap Ops = {}
    /\ None \notin Kits \cup Devices
    /\ None \notin [kit : Kits, gen : Nat, parent : Ops \cup Kits \cup {None}, snap : SUBSET Ops]
    /\ None \notin [kit : Kits, gen : Nat, snap : SUBSET Ops, ro : BOOLEAN]
    /\ None \notin [kit : Kits, parent : Ops \cup Kits, ro : BOOLEAN]

VARIABLES
    made,        \* kits handed to the user
    booted,      \* workspaces that exist on the server
    devices,     \* registered devices
    objects,     \* uploaded objects, by the operation that made them
    damaged,     \* stored objects that no longer verify or decrypt
    history,     \* the published objects of each workspace, oldest first
    late,        \* requests that were given up and may still be applied
    ctx,         \* the vault context of each device
    keys,        \* its controller's signing session for each workspace
    sess,        \* the signing sessions, by the operation that made them, or by
                 \* the device that had one from the start
    op,          \* the operations, in the order they were started
    reported,    \* saves reported to their caller
    refused,     \* saves reported as certainly not applied, and how
    moves

server == <<booted, devices, objects, damaged, history>>
vars == <<made, server, late, ctx, keys, sess, op, reported, refused, moves>>

Requests == {"bootstrap", "register", "upload", "publish"}

----------------------------------------------------------------------------
(* Objects and heads *)

\* An object is named after the operation that uploads it, the first object
\* of a workspace that exists from the start after its kit.
Object(kit, gen, parent, snap) ==
    [kit |-> kit, gen |-> gen, parent |-> parent, snap |-> snap]

HeadOf(k) == IF history[k] = <<>> THEN None ELSE Last(history[k])

\* What readers can verify: newest first, without the one that failed.
Readable(k, except) ==
    {g \in 1..Len(history[k]) : history[k][g] \notin damaged \cup {except}}
Newest(k, except) ==
    history[k][CHOOSE g \in Readable(k, except) : \A h \in Readable(k, except) : h <= g]

UploadAccepted(o) ==
    /\ <<op[o].dev, op[o].kit>> \in devices
    /\ LET obj == op[o].obj IN
        \/ obj.gen = 1 /\ obj.parent = None
        \/ /\ obj.parent \in DOMAIN objects
           /\ objects[obj.parent] # None
           /\ objects[obj.parent].kit = obj.kit
           /\ objects[obj.parent].gen = obj.gen - 1

\* The Edge function and the compare-and-swap ask the same of the head.
MayFollow(o) ==
    /\ objects[o] # None
    /\ objects[o].parent = HeadOf(op[o].kit)
    /\ objects[o].gen = Len(history[op[o].kit]) + 1

Stored(o) == objects' = [objects EXCEPT ![o] = op[o].obj]
Published(o) == history' = [history EXCEPT ![op[o].kit] = Append(@, o)]

----------------------------------------------------------------------------
(* The context of a device *)

Ref(kit, gen, snap, ro) == [kit |-> kit, gen |-> gen, snap |-> snap, ro |-> ro]

SignedOut ==
    [phase |-> "SIGNED_OUT", owner |-> 0, code |-> None, sel |-> None, unl |-> None,
     open |-> FALSE, kit |-> None, acked |-> TRUE, ctl |-> None, rows |-> {}]

NoKeys == [k \in Kits |-> None]

NoOp == [dev |-> None, kind |-> "none", kit |-> None, at |-> "none", cur |-> FALSE,
         live |-> TRUE, quiet |-> FALSE, ctl |-> None, base |-> None, sid |-> None,
         obj |-> None, skip |-> None]

May(o) == op[o].at = "none" /\ \A p \in 1..(o - 1) : op[p].at # "none"
Busy(o) == op[o].at \notin {"none", "done"}

\* The epoch moves on: nothing older may touch the context, and whoever owns
\* the abort signal is aborted.
Superseded(d) ==
    [o \in Ops |-> IF op[o].dev # d THEN op[o]
                   ELSE [op[o] EXCEPT !.cur = FALSE, !.live = @ /\ o # ctx[d].owner]]

New(d, o, kind, kit, at) ==
    [NoOp EXCEPT !.dev = d, !.kind = kind, !.kit = kit, !.at = at, !.cur = TRUE,
                 !.ctl = IF ctx[d].ctl = None THEN o ELSE ctx[d].ctl]

Start(d, o, new) == op' = [Superseded(d) EXCEPT ![o] = new]

Signalled(o) == op[o].kind \in {"commit", "save"}

\* Mutant: an answer counts whatever happened since the request.
CurrentAlways(o) == ctx[op[o].dev].phase # "SIGNED_OUT"

\* isCurrentOperation, and the epoch alone for the others.
Current(o) ==
    /\ op[o].cur
    /\ Signalled(o) => op[o].live /\ ctx[op[o].dev].owner = o

ToContext(o, c) ==
    LET d == op[o].dev
        freed == IF c.owner = o THEN [c EXCEPT !.owner = 0] ELSE c
    IN ctx' = [ctx EXCEPT ![d] = freed]

Step(o, at) == op' = [op EXCEPT ![o].at = at]
Done(o) == op' = [op EXCEPT ![o] = [@ EXCEPT !.at = "done", !.cur = FALSE, !.live = FALSE,
                                            !.quiet = FALSE, !.ctl = None, !.base = None, !.sid = None]]

\* A move of the user or of the environment between two steps.
Move == moves < MaxMoves /\ moves' = moves + 1

\* The context of a device that has listed the stored workspaces, and perhaps
\* unlocked the one it selected.
Listing(stored, sel, unlocked) ==
    [SignedOut EXCEPT !.ctl = 0, !.rows = stored, !.sel = sel,
        !.phase = IF stored = {} THEN "NEEDS_SETUP" ELSE IF unlocked THEN "UNLOCKED" ELSE "LOCKED",
        !.open = unlocked,
        !.code = IF unlocked THEN sel ELSE None,
        !.unl = IF unlocked THEN Ref(sel, 1, {}, FALSE) ELSE None]

Init ==
    /\ \E stored \in SUBSET Kits :
       \E sel \in IF stored = {} THEN {None} ELSE stored :
       \E unlocked \in IF stored = {} THEN {{}} ELSE SUBSET Devices :
        /\ made = stored /\ booted = stored
        /\ history = [k \in Kits |-> IF k \in stored THEN <<k>> ELSE <<>>]
        /\ objects = [i \in Ops \cup Kits |->
                        IF i \in stored THEN Object(i, 1, None, {}) ELSE None]
        /\ devices = {<<d, sel>> : d \in unlocked}
        /\ ctx = [d \in Devices |-> Listing(stored, sel, d \in unlocked)]
        /\ sess = [i \in Ops \cup Devices |->
                     IF i \in unlocked THEN [kit |-> sel, parent |-> sel, ro |-> FALSE] ELSE None]
        /\ keys = [d \in Devices |-> [k \in Kits |->
                     IF d \in unlocked /\ k = sel THEN d ELSE None]]
    /\ damaged = {} /\ late = {}
    /\ op = [o \in Ops |-> NoOp]
    /\ reported = {} /\ refused = {} /\ moves = 0

----------------------------------------------------------------------------
(* Operations begin *)

\* A new Auth session, or a deletion that asks for the list again.  Only the
\* former disposes of the controller at once.
Refresh(d, o) ==
    /\ May(o)
    /\ Start(d, o, [New(d, o, "refresh", None, "list") EXCEPT !.ctl = o])
    /\ keys' \in {keys, [keys EXCEPT ![d] = NoKeys]}
    /\ ctx' = [ctx EXCEPT ![d] = [@ EXCEPT !.phase = "LOADING", !.owner = 0, !.code = None,
                                           !.open = FALSE, !.kit = None, !.acked = TRUE]]
    /\ UNCHANGED <<made, server, late, sess, reported, refused, moves>>

Dropped(d) == [keys EXCEPT ![d][ctx[d].sel] = None]
LockedKeys(d) == IF ctx[d].sel = None THEN keys ELSE Dropped(d)

CreateWorkspace(d, o) ==
    /\ May(o)
    /\ ctx[d].kit = None
    /\ \/ ctx[d].phase = "NEEDS_SETUP"
       \/ ctx[d].phase = "ERROR" /\ ctx[d].sel = None
    /\ Start(d, o, New(d, o, "create", None, "prepare"))
    /\ keys' = LockedKeys(d)
    /\ ctx' = [ctx EXCEPT ![d] = [@ EXCEPT !.phase = "CREATING", !.owner = 0, !.code = None,
                                           !.open = FALSE, !.unl = None]]
    /\ UNCHANGED <<made, server, late, sess, reported, refused, moves>>

\* dismissRecoveryKit with the kit on the screen, or a kit file chosen for
\* the selected workspace; either replaces what the phase was about.
CommitRecoveryKit(d, o) ==
    /\ May(o)
    /\ \E k \in made :
        /\ \/ ctx[d].kit = k /\ ctx[d].phase # "COMMITTING"
           \/ /\ ctx[d].kit = None /\ ctx[d].phase \in {"LOCKED", "UNLOCKING"}
              /\ ctx[d].sel = k /\ k \in ctx[d].rows
        /\ Start(d, o, New(d, o, "commit", k, "bootstrap"))
        /\ ctx' = [ctx EXCEPT ![d] = [@ EXCEPT !.phase = "COMMITTING", !.owner = o, !.kit = k,
                                               !.acked = FALSE, !.ctl = op'[o].ctl]]
    /\ UNCHANGED <<made, server, late, keys, sess, reported, refused, moves>>

UnlockWorkspace(d, o) ==
    /\ May(o)
    /\ ctx[d].phase = "LOCKED" /\ ctx[d].kit = None
    /\ ctx[d].sel # None /\ ctx[d].ctl # None
    /\ Start(d, o, New(d, o, "unlock", ctx[d].sel, "register"))
    /\ ctx' = [ctx EXCEPT ![d] = [@ EXCEPT !.phase = "UNLOCKING", !.owner = 0]]
    /\ UNCHANGED <<made, server, late, keys, sess, reported, refused, moves>>

MaySave(c) ==
    /\ c.ctl # None /\ c.sel # None /\ c.unl # None /\ c.code # None
    /\ ~c.unl.ro
    /\ c.acked

\* The store sends one save at a time to an unlocked workspace.
SaveSnapshot(d, o) ==
    LET c == ctx[d] IN
    /\ May(o)
    /\ MaySave(c)
    /\ c.owner # 0 => op[c.owner].kind # "save"
    /\ Start(d, o, [New(d, o, "save", c.sel, "seal") EXCEPT !.base = c.unl,
                                                            !.sid = keys[d][c.sel]])
    /\ ctx' = [ctx EXCEPT ![d] = [@ EXCEPT !.phase = "SAVING", !.owner = o]]
    /\ UNCHANGED <<made, server, late, keys, sess, reported, refused, moves>>

----------------------------------------------------------------------------
(* Operations end *)

\* A signing session goes into the map of the controller that opened it,
\* whether or not the context still listens.
Activated(o, parent, ro) ==
    /\ sess' = [sess EXCEPT ![o] = [kit |-> op[o].kit, parent |-> parent, ro |-> ro]]
    /\ keys' = IF op[o].ctl # ctx[op[o].dev].ctl THEN keys
               ELSE [keys EXCEPT ![op[o].dev][op[o].kit] = o]

Unlocked(o, ref) ==
    LET c == ctx[op[o].dev] IN
    IF ~Current(o) THEN ToContext(o, c)
    ELSE ToContext(o, [c EXCEPT !.phase = "UNLOCKED", !.unl = ref, !.open = TRUE,
                                !.code = ref.kit, !.sel = ref.kit, !.kit = None, !.acked = TRUE,
                                !.rows = IF op[o].kind = "commit" THEN @ \cup {ref.kit} ELSE @])

\* A generation was verified and decrypted.
Opened(o, id, ro) ==
    /\ Done(o)
    /\ Activated(o, id, ro)
    /\ Unlocked(o, Ref(op[o].kit, objects[id].gen, objects[id].snap, ro))
    /\ UNCHANGED <<late, reported, refused>>

\* The head is known to be this operation's own.
Saved(o) ==
    LET obj == op[o].obj
        ref == Ref(obj.kit, obj.gen, obj.snap, FALSE)
        c == ctx[op[o].dev]
    IN  /\ Done(o)
        /\ IF op[o].kind = "commit" THEN Activated(o, o, FALSE) /\ Unlocked(o, ref)
           ELSE /\ sess' = [sess EXCEPT ![op[o].sid].parent = o]
                /\ keys' = keys
                /\ IF ~Current(o) THEN ToContext(o, c)
                   ELSE ToContext(o, [c EXCEPT !.phase = "UNLOCKED", !.unl = ref, !.sel = ref.kit,
                                               !.open = TRUE])
        /\ reported' = IF op[o].kind = "save" /\ Current(o) THEN reported \cup {o} ELSE reported
        /\ UNCHANGED refused

PhaseAfter == [save |-> "UNLOCKED", unlock |-> "LOCKED", commit |-> "RECOVERY_READY"]

\* The operation throws.  Its error says that nothing was applied, unless the
\* outcome is unknown; "overtaken" is the conflict that a save reports which
\* lost its answer and finds another head in place.
Failed(o, told) ==
    LET c == ctx[op[o].dev] IN
    /\ Done(o)
    /\ IF ~Current(o) THEN ToContext(o, c)
       ELSE ToContext(o, [c EXCEPT !.phase = PhaseAfter[op[o].kind],
                                   !.code = IF op[o].kind = "save" THEN @ ELSE None])
    /\ refused' = IF op[o].kind = "save" /\ told # "unknown" THEN refused \cup {<<o, told>>}
                  ELSE refused
    /\ UNCHANGED <<keys, sess, reported>>

\* The first save of a kit asks what is there instead of failing.
Reconciled(o, told, conflict) ==
    IF op[o].kind = "commit" /\ (told = "unknown" \/ conflict)
    THEN /\ op' = [op EXCEPT ![o].at = "load", ![o].quiet = TRUE]
         /\ UNCHANGED <<ctx, keys, sess, reported, refused>>
    ELSE Failed(o, told)

----------------------------------------------------------------------------
(* Local steps and answered requests *)

Listed(o) ==
    LET d == op[o].dev IN
    /\ op[o].at = "list"
    /\ Done(o)
    /\ IF ~op[o].cur THEN UNCHANGED <<ctx, keys>>
       ELSE \/ /\ keys' = [keys EXCEPT ![d] = NoKeys]
               /\ \E first \in IF booted = {} THEN {None} ELSE booted :
                    ctx' = [ctx EXCEPT ![d] = [@ EXCEPT !.ctl = o, !.rows = booted, !.sel = first,
                               !.phase = IF booted = {} THEN "NEEDS_SETUP" ELSE "LOCKED"]]
            \/ /\ ctx' = [ctx EXCEPT ![d].phase = "ERROR"]
               /\ UNCHANGED keys
    /\ UNCHANGED <<made, server, late, sess, reported, refused, moves>>

Prepared(o) ==
    LET d == op[o].dev IN
    /\ op[o].at = "prepare"
    /\ Done(o)
    /\ IF ~op[o].cur THEN UNCHANGED <<ctx, made>>
       ELSE \E k \in Kits \ made :
              /\ made' = made \cup {k}
              /\ ctx' = [ctx EXCEPT ![d] = [@ EXCEPT !.ctl = op[o].ctl, !.code = None, !.kit = k,
                             !.acked = FALSE, !.unl = None, !.open = FALSE, !.phase = "RECOVERY_READY"]]
    /\ UNCHANGED <<server, late, keys, sess, reported, refused, moves>>

\* Encrypted and signed over the parent the signing session names by now.
Seal(o) ==
    LET parent == IF op[o].kind = "commit" THEN None
                  ELSE IF op[o].sid = None THEN None ELSE sess[op[o].sid].parent
        gen == IF op[o].kind = "commit" THEN 1 ELSE op[o].base.gen + 1
        snap == IF op[o].kind = "commit" THEN {} ELSE op[o].base.snap \cup {o}
        fits == IF op[o].kind = "commit" THEN TRUE
                ELSE /\ op[o].sid # None /\ ~sess[op[o].sid].ro
                     /\ objects[parent].gen = op[o].base.gen
    IN  /\ op[o].at = "seal"
        /\ IF fits /\ op[o].live
           THEN /\ op' = [op EXCEPT ![o].at = "upload",
                                    ![o].obj = Object(op[o].kit, gen, parent, snap)]
                /\ UNCHANGED <<ctx, keys, sess, reported, refused>>
           ELSE Failed(o, "refused")
        /\ UNCHANGED <<made, server, late, moves>>

\* The answer arrives: the request has been applied.
Listens(o) == op[o].live \/ op[o].quiet

Bootstrapped(o) ==
    /\ op[o].at = "bootstrap" /\ Listens(o)
    /\ booted' = booted \cup {op[o].kit}
    /\ Step(o, "register")
    /\ UNCHANGED <<made, devices, objects, damaged, history, late, ctx, keys, sess,
                   reported, refused, moves>>

Registered(o) ==
    /\ op[o].at = "register" /\ Listens(o)
    /\ op[o].kit \in booted
    /\ devices' = devices \cup {<<op[o].dev, op[o].kit>>}
    /\ Step(o, "load")
    /\ UNCHANGED <<made, booted, objects, damaged, history, late, ctx, keys, sess,
                   reported, refused, moves>>

\* readActiveGeneration, and the history when the active one does not verify.
Loaded(o) ==
    LET head == HeadOf(op[o].kit) IN
    /\ op[o].at = "load" /\ Listens(o)
    /\ IF head = None
       THEN /\ IF op[o].kind = "commit" /\ ~op[o].quiet
               THEN Step(o, "seal") /\ UNCHANGED <<ctx, keys, sess, reported, refused>>
               ELSE Failed(o, "unknown")
            /\ UNCHANGED late
       ELSE IF head \notin damaged THEN Opened(o, head, FALSE)
       ELSE /\ op' = [op EXCEPT ![o].at = "history", ![o].skip = head]
            /\ UNCHANGED <<late, ctx, keys, sess, reported, refused>>
    /\ UNCHANGED <<made, server, moves>>

HistoryRead(o) ==
    /\ op[o].at = "history" /\ Listens(o)
    /\ IF Readable(op[o].kit, op[o].skip) = {}
       THEN Failed(o, "unknown") /\ UNCHANGED late
       ELSE Opened(o, Newest(op[o].kit, op[o].skip), TRUE)
    /\ UNCHANGED <<made, server, moves>>

UploadAnswered(o) ==
    /\ op[o].at = "upload" /\ Listens(o)
    /\ UploadAccepted(o)
    /\ Stored(o)
    /\ Step(o, "publish")
    /\ UNCHANGED <<made, booted, devices, damaged, history, late, ctx, keys, sess,
                   reported, refused, moves>>

\* The Edge function has read the head, the candidate and its signature.
PublishChecked(o) ==
    /\ op[o].at = "publish" /\ Listens(o)
    /\ IF MayFollow(o)
       THEN Step(o, "swap") /\ UNCHANGED <<ctx, keys, sess, reported, refused>>
       ELSE Reconciled(o, "refused", TRUE)
    /\ UNCHANGED <<made, server, late, moves>>

\* rv_service_publish_vault_head: compare and swap.
PublishAnswered(o) ==
    /\ op[o].at = "swap" /\ Listens(o)
    /\ IF MayFollow(o) THEN Published(o) /\ Saved(o)
       ELSE Reconciled(o, "refused", TRUE) /\ UNCHANGED history
    /\ UNCHANGED <<made, booted, devices, objects, damaged, late, moves>>

\* Any request may be refused without effect: rate limits, a revoked session,
\* a wrong recovery code.  A read that is aborted ends the same way.
Refused(o) ==
    /\ op[o].at \in {"bootstrap", "register", "load", "history", "upload", "publish", "swap"}
    /\ Listens(o) \/ op[o].at \in {"load", "history"}
    /\ Failed(o, "refused")
    /\ UNCHANGED <<made, server, late, moves>>

----------------------------------------------------------------------------
(* Requests whose outcome is unknown *)

\* What was sent and would still change something if it arrived.
Sent(o) ==
    LET at == op[o].at
        changes == CASE at = "bootstrap" -> op[o].kit \notin booted
                     [] at = "register" -> <<op[o].dev, op[o].kit>> \notin devices
                     [] at = "upload" -> UploadAccepted(o)
                     [] at \in {"publish", "swap"} -> MayFollow(o)
    IN  IF changes THEN {<<o, IF at = "swap" THEN "publish" ELSE at>>} ELSE {}

\* Aborted, timed out, or the answer was lost.
GiveUp(o) ==
    /\ op[o].at \in {"bootstrap", "register", "upload", "publish", "swap"}
    /\ late' = late \cup Sent(o)
    /\ CASE op[o].at = "upload" ->
              Step(o, "look") /\ UNCHANGED <<ctx, keys, sess, reported, refused>>
         [] op[o].at \in {"publish", "swap"} ->
              Step(o, "confirm") /\ UNCHANGED <<ctx, keys, sess, reported, refused>>
         [] OTHER -> Failed(o, "unknown")
    /\ UNCHANGED <<made, server, moves>>

\* The server applies it after all, or it never arrives.  The check of the
\* Edge function and the swap ask the same, so here they are one.
Late(o, sent) ==
    /\ <<o, sent>> \in late
    /\ late' = late \ {<<o, sent>>}
    /\ \/ /\ sent = "bootstrap"
          /\ booted' = booted \cup {op[o].kit}
          /\ UNCHANGED <<devices, objects, history>>
       \/ /\ sent = "register" /\ op[o].kit \in booted
          /\ devices' = devices \cup {<<op[o].dev, op[o].kit>>}
          /\ UNCHANGED <<booted, objects, history>>
       \/ /\ sent = "upload" /\ UploadAccepted(o)
          /\ Stored(o)
          /\ UNCHANGED <<booted, devices, history>>
       \/ /\ sent = "publish" /\ MayFollow(o)
          /\ Published(o)
          /\ UNCHANGED <<booted, devices, objects>>
    /\ UNCHANGED <<made, damaged, ctx, keys, sess, op, reported, refused, moves>>

\* readGenerationObject: only this very object counts as uploaded.
Look(o) ==
    /\ op[o].at = "look"
    /\ \/ /\ objects[o] # None
          /\ IF op[o].live
             THEN Step(o, "publish") /\ UNCHANGED <<ctx, keys, sess, reported, refused>>
             ELSE Failed(o, "refused")
       \/ Reconciled(o, "unknown", FALSE)
    /\ UNCHANGED <<made, server, late, moves>>

\* Mutant: a head that is still the old one proves that nothing was applied.
ConfirmDenies(o) ==
    /\ op[o].at = "confirm"
    /\ IF HeadOf(op[o].kit) = o THEN Saved(o) ELSE Reconciled(o, "refused", FALSE)
    /\ UNCHANGED <<made, server, late, moves>>

\* readActiveGeneration after a publish: one's own head, a newer one, or no
\* verdict.
Confirm(o) ==
    /\ op[o].at = "confirm"
    /\ \/ HeadOf(op[o].kit) = o /\ Saved(o)
       \/ /\ HeadOf(op[o].kit) # o
          /\ Len(history[op[o].kit]) >= op[o].obj.gen
          /\ Reconciled(o, "overtaken", TRUE)
       \/ Reconciled(o, "unknown", FALSE)
    /\ UNCHANGED <<made, server, late, moves>>

----------------------------------------------------------------------------
(* The user and the environment *)

\* Mutant: the lock leaves the phase of what it interrupts.
LockWorkspaceKeepsPhase(d) ==
    /\ Move
    /\ ctx[d].open /\ ctx[d].kit = None
    /\ op' = Superseded(d)
    /\ keys' = LockedKeys(d)
    /\ ctx' = [ctx EXCEPT ![d] = [@ EXCEPT !.owner = 0, !.code = None, !.open = FALSE, !.unl = None]]
    /\ UNCHANGED <<made, server, late, sess, reported, refused>>

LockWorkspace(d) ==
    /\ Move
    /\ ctx[d].open /\ ctx[d].kit = None
    /\ op' = Superseded(d)
    /\ keys' = LockedKeys(d)
    /\ ctx' = [ctx EXCEPT ![d] = [@ EXCEPT !.phase = "LOCKED", !.owner = 0, !.code = None,
                                           !.open = FALSE, !.unl = None]]
    /\ UNCHANGED <<made, server, late, sess, reported, refused>>

SelectWorkspace(d) ==
    /\ Move
    /\ ctx[d].phase \in {"LOCKED", "UNLOCKING"} /\ ctx[d].kit = None
    /\ \E k \in ctx[d].rows \ {ctx[d].sel} :
        ctx' = [ctx EXCEPT ![d] = [@ EXCEPT !.phase = "LOCKED", !.owner = 0, !.code = None,
                                            !.open = FALSE, !.unl = None, !.sel = k]]
    /\ op' = Superseded(d)
    /\ keys' = LockedKeys(d)
    /\ UNCHANGED <<made, server, late, sess, reported, refused>>

SignOut(d) ==
    /\ Move
    /\ ctx[d].phase # "SIGNED_OUT"
    /\ op' = Superseded(d)
    /\ keys' = [keys EXCEPT ![d] = NoKeys]
    /\ ctx' = [ctx EXCEPT ![d] = SignedOut]
    /\ UNCHANGED <<made, server, late, sess, reported, refused>>

\* A stored object stops verifying.
Damage(k) ==
    /\ Move
    /\ HeadOf(k) # None
    /\ damaged' = damaged \cup {HeadOf(k)}
    /\ UNCHANGED <<made, booted, devices, objects, history, late, ctx, keys, sess, op,
                   reported, refused>>

Next ==
    \/ \E d \in Devices, o \in Ops : Refresh(d, o)
    \/ \E d \in Devices, o \in Ops : CreateWorkspace(d, o)
    \/ \E d \in Devices, o \in Ops : CommitRecoveryKit(d, o)
    \/ \E d \in Devices, o \in Ops : UnlockWorkspace(d, o)
    \/ \E d \in Devices, o \in Ops : SaveSnapshot(d, o)
    \/ \E o \in Ops : Listed(o) \/ Prepared(o) \/ Seal(o)
    \/ \E o \in Ops : Bootstrapped(o) \/ Registered(o) \/ Loaded(o) \/ HistoryRead(o)
    \/ \E o \in Ops : UploadAnswered(o) \/ PublishChecked(o) \/ PublishAnswered(o)
    \/ \E o \in Ops : Refused(o) \/ GiveUp(o) \/ Look(o) \/ Confirm(o)
    \/ \E o \in Ops, sent \in Requests : Late(o, sent)
    \/ \E d \in Devices : LockWorkspace(d) \/ SelectWorkspace(d) \/ SignOut(d)
    \/ \E k \in Kits : Damage(k)

Spec == Init /\ [][Next]_vars

----------------------------------------------------------------------------
(* Properties *)

\* Each workspace behaves as a register whose versions only add to one
\* another: no device overwrites what another saved, a save reported to the
\* store is in the head, and one that was refused never gets there, however
\* late its requests arrive (WorkspaceVaultService.save, the Edge function
\* and the compare-and-swap together).
Versions(k) == [g \in 1..Len(history[k]) |-> objects[history[k][g]].snap]
Of(k, saves) == {o \in saves : op[o].kit = k}
Told(how) == {o \in Ops : <<o, how>> \in refused}
Register(k) == INSTANCE VersionedRegister WITH
    Edits <- Ops, versions <- Versions(k),
    reported <- Of(k, reported), refused <- Of(k, Told("refused"))
NothingIsOverwritten ==
    /\ \A k \in Kits : Register(k)!Init
    /\ [][\A k \in Kits : [Register(k)!Next]_(Register(k)!registerVars)]_vars

\* A save whose error says NOT_APPLIED is in no generation: also the conflict
\* that save() reports after a lost answer, when the head it reads belongs to
\* a later generation (workspace-vault-service.ts).
RefusedIsNotApplied ==
    \A k \in Kits : \A g \in 1..Len(history[k]) :
        Versions(k)[g] \cap Told("overtaken") = {}

\* What a device shows as unlocked is a generation somebody published, of the
\* workspace that is selected and whose recovery code is in memory
\* (WorkspaceProvider keeps the three in separate references).
UnlockedIsPublished ==
    \A d \in Devices : ctx[d].open =>
        LET u == ctx[d].unl IN
        /\ u # None
        /\ u.kit = ctx[d].sel /\ u.kit = ctx[d].code
        /\ u.gen \in 1..Len(history[u.kit])
        /\ objects[history[u.kit][u.gen]].snap = u.snap

\* A device that shows a busy phase has an operation that will end it: no
\* superseded operation leaves the panel waiting for ever.
Waits == [LOADING |-> "refresh", CREATING |-> "create", COMMITTING |-> "commit",
          UNLOCKING |-> "unlock", SAVING |-> "save"]
BusyPhaseEnds ==
    \A d \in Devices : ctx[d].phase \in DOMAIN Waits =>
        \E o \in Ops : /\ op[o].dev = d /\ Busy(o) /\ Current(o)
                       /\ op[o].kind = Waits[ctx[d].phase]
=============================================================================
