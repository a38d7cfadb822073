-------------------------- MODULE BrowserStorage --------------------------
(***************************************************************************)
(* The workspace of a user in localStorage, as                             *)
(* app/src/lib/browser-restore-transaction.ts writes it.  A replacement of *)
(* the workspace is an undo journal followed by one setItem per key; a     *)
(* clear is a redo journal that is also the fence against late writers.    *)
(* Every setItem and removeItem is a step: a tab may die between any two,  *)
(* and a setItem that would exceed the quota of the origin throws.         *)
(*                                                                         *)
(* `run` is the operation of the tab that holds the Web Lock.  Writers are *)
(* pending writes of the tabs, each with the token it captured when it was *)
(* queued.                                                                 *)
(***************************************************************************)
EXTENDS Integers, Sequences, FiniteSets, FiniteSetsExt

CONSTANTS
    Writers,
    Family,          \* the three keys of the workspace, in the order they are written
    OtherKeys,       \* further keys a clear removes (other scopes, the old session)
    Sizes,           \* sizes of serialized values; 1 is the size of a clear marker
    Capacity,        \* the quota of the origin
    MaxGeneration,   \* Number.MAX_SAFE_INTEGER
    MaxEpochs,       \* bound: random epochs handed out
    MaxStamps,       \* bound: replacements that reach their journal
    MaxCrashes,      \* bound: tabs that die or lose their session in an operation
    ForeignSize      \* size of keys that no clear touches (theme, device id)

ASSUME FamilyAssumption ==
    /\ Len(Family) = 3
    /\ \A i, j \in 1..3 : i # j => Family[i] # Family[j]
ASSUME KeysAssumption == IsFiniteSet(OtherKeys)
ASSUME BoundsAssumption ==
    /\ Sizes \subseteq Nat \ {0}
    /\ {Capacity, MaxGeneration, MaxEpochs, MaxStamps, MaxCrashes, ForeignSize} \subseteq Nat

VARIABLES user,      \* user[k]: the value under a key that holds user data
          stored,    \* rv-browser-storage-generation-v1
          epoch,     \* rv-browser-storage-epoch-v1
          journal,   \* rv-browser-restore-transaction-v1
          foreign,   \* size of the keys no clear touches
          token,     \* the write token a writer has captured
          run,       \* the operation under the lock
          stamps, epochs, crashes    \* counters of the bounds

diskVars == <<user, stored, epoch, journal, foreign>>
boundVars == <<stamps, epochs, crashes>>
storageVars == <<user, stored, epoch, journal, foreign, token, run, stamps, epochs, crashes>>

----------------------------------------------------------------------------
(* What is on disk.                                                        *)

FamilyKeys == {Family[i] : i \in 1..3}
Keys == FamilyKeys \cup OtherKeys

Missing == -1        \* getItem returned null
Damaged == -2        \* a value no version of the page has written

NoValue == [kind |-> "none", size |-> 0, stamp |-> 0]
Data(s, n) == [kind |-> "data", size |-> n, stamp |-> s]
Marker(g) == [kind |-> "marker", size |-> 1, stamp |-> g]    \* clears generation g

NoJournal == [kind |-> "NONE", size |-> 0]
DamagedJournal == [kind |-> "DAMAGED", size |-> 1]
ReplaceJournal(entries) ==
    [kind |-> "REPLACE", entries |-> entries, foreignAt |-> foreign,
     size |-> 1 + MapThenSumSet(LAMBDA k : entries[k].size, FamilyKeys)]
ClearJournal(g) == [kind |-> "CLEAR_ALL", size |-> 2, before |-> g]
RepairJournal(e) == [kind |-> "REPAIR_CLEAR_ALL", size |-> 2, epochAfter |-> e]

Present == {k \in Keys : user[k] # NoValue}
Marked == {k \in Keys : user[k].kind = "marker"}

FieldSize(x) == IF x = Missing THEN 0 ELSE 1
Fits(u, g, e, j) ==
    MapThenSumSet(LAMBDA k : u[k].size, Keys)
        + FieldSize(g) + FieldSize(e) + j.size + foreign <= Capacity

Put(k, v) == [user EXCEPT ![k] = v]

Generation == IF stored = Missing THEN 0 ELSE stored
Epoch == IF epoch = Missing THEN 0 ELSE epoch          \* 0 is legacy-v1

NoToken == [generation |-> Damaged, epoch |-> Damaged]

\* The generation a clear under way leaves behind, by journal or by marker.
Pending ==
    {user[k].stamp : k \in Marked}
        \cup (IF journal.kind = "CLEAR_ALL" THEN {journal.before} ELSE {})

Readable ==
    /\ stored # Damaged /\ epoch # Damaged
    /\ Cardinality(Marked) <= 1
    /\ Cardinality(Pending) <= 1
    /\ \A g \in Pending : Generation \in {g, g + 1}

CurrentToken ==
    IF journal.kind = "REPAIR_CLEAR_ALL"
    THEN [generation |-> 0, epoch |-> journal.epochAfter]
    ELSE IF ~Readable THEN NoToken
    ELSE [generation |-> IF Pending = {} THEN Generation
                         ELSE 1 + CHOOSE g \in Pending : TRUE,
          epoch |-> Epoch]

\* What recovery will leave: the journal and the marker decide.
Cleared == [k \in Keys |-> NoValue]
Recovered ==
    IF Marked # {} \/ journal.kind \in {"CLEAR_ALL", "REPAIR_CLEAR_ALL"} THEN Cleared
    ELSE IF journal.kind = "REPLACE"
    THEN [k \in Keys |-> IF k \in FamilyKeys THEN journal.entries[k] ELSE user[k]]
    ELSE user

----------------------------------------------------------------------------
(* The operation under the lock.                                           *)

Ops == {"recover", "replace", "clear"}

Idle == [op |-> "none", pc |-> "idle", writer |-> CHOOSE w \in Writers : TRUE,
         next |-> Cleared, left |-> 0, final |-> FALSE, cleared |-> FALSE]

At(p) == run.pc = p
Goto(p) == run' = [run EXCEPT !.pc = p]
Finish == run' = Idle

\* Recovery is through: an operation that asked for more goes on.
Ready == IF run.op = "recover" THEN Finish ELSE Goto("ready")
ReadyCleared ==
    IF run.op = "recover" THEN Finish
    ELSE run' = [run EXCEPT !.pc = "ready", !.cleared = TRUE]

\* Recovery met a damaged generation: only an explicit clear repairs it.
DamagedGeneration == IF run.op = "clear" THEN Goto("repair") ELSE Finish

\* The forward part of a clear is through: its own, and it returns, or that of
\* an earlier clear, and the operation goes on.
Forward == IF run.final THEN Finish ELSE ReadyCleared

Write(u, g, e, j) ==
    /\ user' = u /\ stored' = g /\ epoch' = e /\ journal' = j
    /\ UNCHANGED <<foreign, token, boundVars>>

StorageInit ==
    /\ \/ user = Cleared
       \/ \E sizes \in [Keys -> Sizes] : user = [k \in Keys |-> Data(0, sizes[k])]
    /\ stored \in {Missing, Damaged}
    /\ epoch \in {Missing, Damaged}
    /\ journal \in {NoJournal, DamagedJournal}
    /\ foreign = 0
    /\ Fits(user, stored, epoch, journal)
    /\ token = [w \in Writers |-> NoToken]
    /\ run = Idle
    /\ stamps = 0 /\ epochs = 0 /\ crashes = 0

\* A tab reads its write token, without the lock.
Capture(w) ==
    /\ ~(run.op = "replace" /\ run.writer = w)
    /\ token' = [token EXCEPT ![w] = CurrentToken]
    /\ UNCHANGED <<diskVars, run, boundVars>>

\* The lock is taken only if it is free; a busy lock refuses the operation.
Begin(op) ==
    /\ run = Idle
    /\ op \in {"recover", "clear"}
    /\ op = "clear" => epochs < MaxEpochs
    /\ run' = [Idle EXCEPT !.op = op, !.pc = "look"]
    /\ UNCHANGED <<diskVars, token, boundVars>>

BeginReplace(w) ==
    /\ run = Idle
    /\ stamps < MaxStamps
    /\ token[w] # NoToken
    /\ run' = [Idle EXCEPT !.op = "replace", !.pc = "look", !.writer = w]
    /\ UNCHANGED <<diskVars, token, boundVars>>

\* The tab dies, or its session stops being current at the next owns().
Abandon ==
    /\ run # Idle
    /\ crashes < MaxCrashes
    /\ crashes' = crashes + 1
    /\ Finish
    /\ UNCHANGED <<diskVars, token, stamps, epochs>>

\* The page stores a theme or a device id.
ForeignWrite ==
    /\ foreign = 0 /\ foreign' = ForeignSize
    /\ Fits(user, stored, epoch, [journal EXCEPT !.size = @ + ForeignSize])
    /\ UNCHANGED <<user, stored, epoch, journal, token, run, boundVars>>

----------------------------------------------------------------------------
(* recoverLocked                                                           *)

\* Which recovery the journal or the marker asks for.
Look ==
    /\ At("look")
    /\ UNCHANGED <<diskVars, token, boundVars>>
    /\ \/ journal.kind = "NONE" /\ (Marked = {} \/ run.op = "dismiss") /\ Ready
       \/ journal.kind = "NONE" /\ Marked # {} /\ run.op # "dismiss"
             /\ IF Readable THEN Goto("mark_fence") ELSE DamagedGeneration
       \/ journal.kind = "REPLACE" /\ run' = [run EXCEPT !.pc = "undo", !.left = 3]
       \/ journal.kind = "CLEAR_ALL"
             /\ IF stored = Damaged THEN DamagedGeneration
                ELSE IF Generation \in {journal.before, journal.before + 1}
                     THEN Goto("clear_fence")
                ELSE Finish
       \/ journal.kind = "REPAIR_CLEAR_ALL" /\ Goto("repair_epoch")
       \/ /\ journal.kind = "DAMAGED"
          /\ IF run.op # "clear" \/ (Marked # {} /\ ~Readable) THEN Finish
             ELSE Goto(IF Marked = {} THEN "ready" ELSE "mark_fence")

\* rollbackLocked: the last key written is the first one undone.
UndoStep(i) == Put(Family[i], journal.entries[Family[i]])

Undo ==
    /\ At("undo") /\ run.left > 0
    /\ LET u == UndoStep(run.left) IN
       IF Fits(u, stored, epoch, journal)
       THEN /\ Write(u, stored, epoch, journal)
            /\ run' = [run EXCEPT !.left = @ - 1]
       ELSE /\ Finish
            /\ UNCHANGED <<diskVars, token, boundVars>>

UndoDone ==
    /\ At("undo") /\ run.left = 0
    /\ Write(user, stored, epoch, NoJournal)
    /\ IF run.final THEN Finish ELSE Ready

\* The first of a set of keys in the order they are enumerated.
FirstKeyOf(S) == CHOOSE k \in S : TRUE

\* Mutant of the clear: a generation that does not fit ends it.
ClearFenceOrFail ==
    /\ At("clear_fence")
    /\ IF Generation = journal.before + 1 \/ Fits(user, journal.before + 1, epoch, journal)
       THEN Write(user, journal.before + 1, epoch, journal) /\ Goto("clear_data")
       ELSE Finish /\ UNCHANGED <<diskVars, token, boundVars>>

\* recoverClearLocked: the generation first, making room if it must.
ClearFence ==
    /\ At("clear_fence")
    /\ LET after == journal.before + 1 IN
       \/ /\ Generation = after
          /\ Goto("clear_data")
          /\ UNCHANGED <<diskVars, token, boundVars>>
       \/ /\ Generation # after /\ Fits(user, after, epoch, journal)
          /\ Write(user, after, epoch, journal)
          /\ Goto("clear_data")
       \/ /\ Generation # after /\ ~Fits(user, after, epoch, journal)
          /\ IF Present = {}
             THEN Finish /\ UNCHANGED <<diskVars, token, boundVars>>
             ELSE /\ Write(Put(FirstKeyOf(Present), NoValue), stored, epoch, journal)
                  /\ UNCHANGED run

ClearData ==
    /\ At("clear_data")
    /\ IF Present # {}
       THEN /\ Write(Put(FirstKeyOf(Present), NoValue), stored, epoch, journal)
            /\ UNCHANGED run
       ELSE /\ Write(user, stored, epoch, NoJournal)
            /\ Forward

\* recoverEmergencyClearLocked: the marker is the fence and goes last.
MarkFence ==
    /\ At("mark_fence")
    /\ LET g == CHOOSE g \in Pending : TRUE
           others == Present \ Marked IN
       \/ /\ Generation = g + 1
          /\ Goto("mark_data")
          /\ UNCHANGED <<diskVars, token, boundVars>>
       \/ /\ Generation # g + 1 /\ Fits(user, g + 1, epoch, journal)
          /\ Write(user, g + 1, epoch, journal)
          /\ Goto("mark_data")
       \/ /\ Generation # g + 1 /\ ~Fits(user, g + 1, epoch, journal)
          /\ IF others = {}
             THEN Finish /\ UNCHANGED <<diskVars, token, boundVars>>
             ELSE /\ Write(Put(FirstKeyOf(others), NoValue), stored, epoch, journal)
                  /\ UNCHANGED run

MarkData ==
    /\ At("mark_data")
    /\ IF Present \ Marked # {}
       THEN /\ Write(Put(FirstKeyOf(Present \ Marked), NoValue), stored, epoch, journal)
            /\ UNCHANGED run
       ELSE /\ Write(Cleared, stored, epoch, journal)
            /\ IF run.op = "clear" /\ journal # NoJournal THEN Goto("mark_journal")
               ELSE Forward

\* Only a clear gets here: it drops the damaged journal it has made obsolete.
MarkJournal ==
    /\ At("mark_journal")
    /\ Write(user, stored, epoch, NoJournal)
    /\ Forward

\* recoverRepairClearAllLocked: no key is touched before both fields are new.
RepairEpoch ==
    /\ At("repair_epoch")
    /\ IF Fits(user, stored, journal.epochAfter, journal)
       THEN Write(user, stored, journal.epochAfter, journal) /\ Goto("repair_generation")
       ELSE Finish /\ UNCHANGED <<diskVars, token, boundVars>>

RepairGeneration ==
    /\ At("repair_generation")
    /\ IF Fits(user, 0, epoch, journal)
       THEN Write(user, 0, epoch, journal) /\ Goto("repair_data")
       ELSE Finish /\ UNCHANGED <<diskVars, token, boundVars>>

RepairData ==
    /\ At("repair_data")
    /\ IF Present # {}
       THEN /\ Write(Put(FirstKeyOf(Present), NoValue), stored, epoch, journal)
            /\ UNCHANGED run
       ELSE /\ Write(user, stored, epoch, NoJournal)
            /\ Forward

----------------------------------------------------------------------------
(* mutateBrowserWorkspace and replaceBrowserWorkspace                      *)

\* Mutant of the fence: the epoch of a repair is ignored.
SameGeneration == token[run.writer].generation = CurrentToken.generation

\* Is the token of the writer the one in force?
StillCurrent == token[run.writer] = CurrentToken

\* The token must still be in force; the writer decides what to store, and the
\* undo journal is written.
Prepare ==
    /\ At("ready") /\ run.op = "replace"
    /\ LET undo == ReplaceJournal([k \in FamilyKeys |-> user[k]])
           allowed == StillCurrent /\ stamps < MaxStamps IN
       \/ /\ allowed /\ Fits(user, stored, epoch, undo)
          /\ journal' = undo
          /\ \E sizes \in [FamilyKeys -> Sizes] :
                run' = [run EXCEPT !.pc = "write", !.left = 1,
                          !.next = [k \in FamilyKeys |-> Data(stamps + 1, sizes[k])]]
          /\ stamps' = stamps + 1
          /\ UNCHANGED <<user, stored, epoch, foreign, token, epochs, crashes>>
       \/ /\ Finish          \* refused, no room for the journal, or the writer declines
          /\ UNCHANGED <<diskVars, token, boundVars>>

\* commitLocked: one setItem per key; the first that throws starts the undo.
WriteKey ==
    /\ At("write") /\ run.left <= 3
    /\ LET k == Family[run.left]
           u == Put(k, run.next[k]) IN
       IF Fits(u, stored, epoch, journal)
       THEN /\ Write(u, stored, epoch, journal)
            /\ run' = [run EXCEPT !.left = @ + 1]
       ELSE /\ run' = [run EXCEPT !.pc = "undo", !.left = 3, !.final = TRUE]
            /\ UNCHANGED <<diskVars, token, boundVars>>

\* Dropping the journal is the commit.
Commit ==
    /\ At("write") /\ run.left > 3
    /\ Write(user, stored, epoch, NoJournal)
    /\ Finish

----------------------------------------------------------------------------
(* clearBrowserUserData                                                    *)

\* A damaged or exhausted generation is replaced by a new epoch.
MustRepair == CurrentToken = NoToken \/ CurrentToken.generation >= MaxGeneration

\* The values a marker may replace, and the one it does replace: the largest.
Replaceable == {k \in Present : user[k].kind = "data" /\ user[k].size > Marker(0).size}
Largest == CHOOSE k \in Replaceable : \A l \in Replaceable : user[l].size <= user[k].size

ClearInstall ==
    /\ At("ready") /\ run.op = "clear"
    /\ LET g == CurrentToken.generation
           redo == ClearJournal(g) IN
       \/ /\ MustRepair
          /\ Goto("repair")
          /\ UNCHANGED <<diskVars, token, boundVars>>
       \/ /\ ~MustRepair /\ run.cleared /\ Present = {}
          /\ Finish
          /\ UNCHANGED <<diskVars, token, boundVars>>
       \/ /\ ~MustRepair /\ ~(run.cleared /\ Present = {})
          /\ \/ /\ Fits(user, stored, epoch, redo)
                /\ Write(user, stored, epoch, redo)
                /\ run' = [run EXCEPT !.pc = "clear_fence", !.final = TRUE]
             \/ /\ ~Fits(user, stored, epoch, redo) /\ Replaceable # {}
                /\ Write(Put(Largest, Marker(g)), stored, epoch, journal)
                /\ run' = [run EXCEPT !.pc = "mark_fence", !.final = TRUE]
             \/ /\ ~Fits(user, stored, epoch, redo) /\ Replaceable = {}
                /\ Finish
                /\ UNCHANGED <<diskVars, token, boundVars>>

\* repairDamagedGenerationAndClear: a random epoch fences before any removal.
Repair ==
    /\ At("repair")
    /\ IF Fits(user, stored, epoch, RepairJournal(epochs + 1))
       THEN /\ journal' = RepairJournal(epochs + 1)
            /\ epochs' = epochs + 1
            /\ run' = [run EXCEPT !.pc = "repair_epoch", !.final = TRUE]
            /\ UNCHANGED <<user, stored, epoch, foreign, token, stamps, crashes>>
       ELSE /\ Finish
            /\ UNCHANGED <<diskVars, token, boundVars>>

----------------------------------------------------------------------------
Recovery ==
    \/ Look \/ Undo \/ UndoDone \/ ClearFence \/ ClearData
    \/ MarkFence \/ MarkData \/ MarkJournal
    \/ RepairEpoch \/ RepairGeneration \/ RepairData

Step == Recovery \/ Prepare \/ WriteKey \/ Commit \/ ClearInstall \/ Repair

Start == (\E op \in Ops : Begin(op)) \/ (\E w \in Writers : BeginReplace(w))

StorageNext ==
    \/ Step \/ Start \/ Abandon \/ ForeignWrite
    \/ \E w \in Writers : Capture(w)

StorageSpec == StorageInit /\ [][StorageNext]_storageVars

\* The holder of the lock runs on unless its tab dies; pages keep being opened,
\* and each of them starts with a recovery.
FairStorageSpec == StorageSpec /\ WF_storageVars(Step) /\ WF_storageVars(Start)

----------------------------------------------------------------------------
(* Properties.                                                             *)

Tokens == [generation : 0..MaxGeneration, epoch : 0..MaxEpochs]
Values == {NoValue} \cup {Data(s, n) : s \in 0..MaxStamps, n \in Sizes \cup {1}}

\* Epochs are random and the model numbers them in the order they are drawn.
Earlier(s, t) ==
    s = NoToken \/ s.epoch < t.epoch \/ (s.epoch = t.epoch /\ s.generation < t.generation)

\* The storage is an atomic store: whatever the crashes and the quota, recovery
\* finds the last replacement or nothing, and no writer whose token predates a
\* clear replaces anything after it.
Store == INSTANCE AtomicStore WITH
    Contents <- [Keys -> Values], Empty <- Cleared,
    Fences <- Tokens, NoFence <- NoToken, Before <- Earlier,
    content <- Recovered, fence <- CurrentToken
ImplementsAtomicStore == Store!Spec

\* A clear that has been fenced is completed by the operations that follow, even
\* one interrupted at full quota.  Only a marker beside a damaged journal has to
\* wait for the next explicit clear: ordinary recovery refuses such a journal.
ClearsComplete ==
    (journal.kind = "CLEAR_ALL" \/ (Marked # {} /\ journal = NoJournal))
        ~> (journal.kind # "CLEAR_ALL" /\ Marked = {})

============================================================================
