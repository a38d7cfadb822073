------------------------------- MODULE VaultProofs -------------------------------
(*****************************************************************************)
(* Encrypted workspaces, for any number of devices, workspaces and           *)
(* operations.                                                               *)
(*                                                                           *)
(* What a device shows as unlocked was published, and a busy phase has an    *)
(* operation that ends it (WorkspaceProvider, WorkspaceVaultService). The    *)
(* generations of a workspace follow their parents and are never replaced,   *)
(* a signing session names a published parent, and a device has at most one  *)
(* current operation, which is the one its phase waits for.                  *)
(*                                                                           *)
(* A device opens only rows as a save sent them, whatever parts are spoiled. *)
(* A row that verifies carries a signature some save made; its manifest      *)
(* fixes the place of the row and the digest of its envelope, so the row is  *)
(* that save's in every part.                                                *)
(*****************************************************************************)
EXTENDS VaultWorkspace, VaultObjects, FiniteSetTheorems, SequenceTheorems, TLAPS

\* A row a save of some device uploads as object o.
IsUpload(row, o) ==
    /\ DOMAIN row = Columns
    /\ row.object = o
    /\ row.digest = Sha256(row.envelope)
    /\ row.signature = Signed(row.vault, Manifest(row))
    /\ row.vault \in {Vault[d] : d \in Sealers}

\* A signature that a save made, or that is spoiled.
KnownSignature(signature) ==
    \/ \E o \in DOMAIN sent : signature = sent[o].signature
    \/ signature = Signed(Spoiled, Spoiled)

\* Only the stored rows are ever spoiled, and their signatures are not forged.
ObjectInv ==
    /\ \A o \in DOMAIN sent : IsUpload(sent[o], o)
    /\ \A o \in DOMAIN rows : DOMAIN rows[o] = Columns /\ KnownSignature(rows[o].signature)
    /\ DOMAIN held \subseteq Sealers
    /\ OpenedAsSaved

--------------------------------------------------------------------------------
\* A spoiled row keeps its columns, and its signature unless that is the part replaced.
LEMMA ReplacedRow ==
    ASSUME NEW row, NEW part, NEW value, DOMAIN row = Columns
    PROVE  /\ DOMAIN Replaced(row, part, value) = Columns
           /\ Replaced(row, part, value).signature
                  = IF part = "signature" THEN value ELSE row.signature
  <1>1. CASE part \in Columns
    BY <1>1 DEF Replaced, Changed, Columns
  <1>2. CASE part \notin Columns
    <2> DEFINE envelope == Changed(row.envelope, part, value)
    <2>1. Replaced(row, part, value) = Changed(row, "envelope", envelope)
      BY <1>2 DEF Replaced
    <2> HIDE DEF envelope
    <2>2. part # "signature"
      BY <1>2 DEF Columns
    <2> QED  BY <2>1, <2>2 DEF Changed, Columns
  <1> QED  BY <1>1, <1>2

\* A row that verifies is the row of the save whose signature it carries.
LEMMA OpenedIsSent ==
    ASSUME ObjectInv, NEW o \in DOMAIN rows, NEW d \in Sealers, OpensFor(rows[o], Vault[d])
    PROVE  /\ rows[o].vault = Vault[d]
           /\ rows[o].object \in DOMAIN sent
           /\ SameRow(rows[o], sent[rows[o].object])
  <1>1. /\ rows[o].vault = Vault[d]
        /\ rows[o].digest = rows[o].envelope
        /\ rows[o].signature = Signed(Vault[d], Manifest(rows[o]))
    BY DEF OpensFor, DigestHolds, Sha256
  <1>2. rows[o].signature # Signed(Spoiled, Spoiled)
    BY <1>1, VaultObjectsAssumption DEF Signed
  <1>3. PICK q \in DOMAIN sent : rows[o].signature = sent[q].signature
    BY <1>2 DEF ObjectInv, KnownSignature
  <1>4. /\ sent[q].object = q
        /\ sent[q].digest = sent[q].envelope
        /\ sent[q].signature = Signed(sent[q].vault, Manifest(sent[q]))
    BY DEF ObjectInv, IsUpload, Sha256
  <1>5. Manifest(rows[o]) = Manifest(sent[q])
    BY <1>1, <1>3, <1>4 DEF Signed
  <1>6. /\ rows[o].object = sent[q].object
        /\ rows[o].digest = sent[q].digest
    BY <1>5 DEF Manifest
  <1> QED  BY <1>1, <1>4, <1>5, <1>6 DEF SameRow

\* At first nothing was sent, stored or opened.
LEMMA ObjectInit_Inv == ObjectInit => ObjectInv
  BY DEF ObjectInit, ObjectInv, OpenedAsSaved

\* What a save uploads is an upload, continues what the device holds and names the workspace.
LEMMA UploadedRow ==
    ASSUME NEW d \in Sealers, NEW o
    PROVE  LET row == Uploaded(Unsigned(d, o))
           IN  /\ IsUpload(row, o)
               /\ row.vault = Vault[d]
               /\ d \in DOMAIN held => /\ row.parent = held[d].object
                                       /\ row.parentDigest = held[d].digest
                                       /\ row.generation = held[d].generation + 1
               /\ d \notin DOMAIN held => row.parent = NoObject
  <1> DEFINE u == Unsigned(d, o)
             row == Uploaded(u)
  <1>1. /\ u.vault = Vault[d] /\ u.object = o
        /\ u.digest = Sha256(u.envelope)
        /\ u.generation = Following(d)
        /\ u.parent = IF d \in DOMAIN held THEN held[d].object ELSE NoObject
        /\ u.parentDigest = IF d \in DOMAIN held THEN held[d].digest ELSE NoObject
    BY DEF Unsigned
  <1> HIDE DEF u
  <1>2. /\ DOMAIN row = Columns
        /\ row.vault = u.vault /\ row.object = u.object /\ row.generation = u.generation
        /\ row.parent = u.parent /\ row.parentDigest = u.parentDigest
        /\ row.digest = u.digest /\ row.envelope = u.envelope
        /\ row.signature = Signed(u.vault, Manifest(u))
    BY DEF Uploaded, Columns
  <1> HIDE DEF row
  <1>3. Manifest(u) = Manifest(row)
    BY <1>2 DEF Manifest
  <1>4. IsUpload(row, o)
    BY <1>1, <1>2, <1>3 DEF IsUpload
  <1>5. QED
    BY <1>1, <1>2, <1>4 DEF Following, row, u

\* A save adds a row that is what it sent.
LEMMA SaveObject_Inv ==
    ASSUME ObjectInv, NEW d \in Sealers, NEW o \in Unused, SaveObject(d, o)
    PROVE  ObjectInv'
  <1> DEFINE row == Uploaded(Unsigned(d, o))
  <1>1. /\ IsUpload(row, o)
        /\ row.vault = Vault[d]
        /\ d \in DOMAIN held => /\ row.parent = held[d].object
                                /\ row.parentDigest = held[d].digest
                                /\ row.generation = held[d].generation + 1
        /\ d \notin DOMAIN held => row.parent = NoObject
    BY UploadedRow
  <1>2. /\ o \notin DOMAIN sent
        /\ sent' = With(sent, o, row) /\ rows' = With(rows, o, row) /\ held' = With(held, d, row)
    BY DEF SaveObject, Unused
  <1> HIDE DEF row
  <1>3. /\ DOMAIN sent' = DOMAIN sent \cup {o} /\ sent'[o] = row
        /\ \A q \in DOMAIN sent : q # o /\ sent'[q] = sent[q]
    BY <1>2 DEF With
  <1>4. /\ DOMAIN rows' = DOMAIN rows \cup {o} /\ rows'[o] = row
        /\ \A q \in DOMAIN rows : q # o => rows'[q] = rows[q]
    BY <1>2 DEF With
  <1>5. /\ DOMAIN held' = DOMAIN held \cup {d} /\ held'[d] = row
        /\ \A e \in DOMAIN held : e # d => held'[e] = held[e]
    BY <1>2 DEF With
  <1>6. \A q \in DOMAIN sent' : IsUpload(sent'[q], q)
    BY <1>1, <1>3 DEF ObjectInv
  <1>7. (\A q \in DOMAIN rows : DOMAIN rows[q] = Columns /\ KnownSignature(rows[q].signature))'
    <2>1. \A signature : KnownSignature(signature) => KnownSignature(signature)'
      BY <1>3 DEF KnownSignature
    <2>2. \A signature : signature = row.signature => KnownSignature(signature)'
      BY <1>3 DEF KnownSignature
    <2>3. ASSUME NEW q \in DOMAIN rows'
          PROVE  DOMAIN rows'[q] = Columns /\ KnownSignature(rows[q].signature)'
      <3>1. CASE q = o
        BY <1>1, <1>4, <2>2, <3>1 DEF IsUpload
      <3>2. CASE q # o
        BY <1>4, <2>1, <3>2 DEF ObjectInv
      <3> QED  BY <3>1, <3>2
    <2> QED  BY <2>3
  <1>8. \A e \in DOMAIN held' : /\ held'[e].vault = Vault[e]
                                /\ held'[e].object \in DOMAIN sent'
                                /\ SameRow(held'[e], sent'[held'[e].object])
    <2>1. row.object = o /\ SameRow(row, row)
      BY <1>1 DEF IsUpload, SameRow
    <2>2. \A e \in DOMAIN held : /\ held[e].vault = Vault[e]
                                 /\ held[e].object \in DOMAIN sent
                                 /\ SameRow(held[e], sent[held[e].object])
      BY DEF ObjectInv, OpenedAsSaved
    <2> QED  BY <1>1, <1>3, <1>5, <2>1, <2>2
  <1>9. \A q \in DOMAIN sent' : sent'[q].parent # NoObject =>
           /\ sent'[q].parent \in DOMAIN sent'
           /\ sent'[sent'[q].parent].vault = sent'[q].vault
           /\ sent'[sent'[q].parent].generation + 1 = sent'[q].generation
           /\ sent'[sent'[q].parent].digest = sent'[q].parentDigest
    <2>1. CASE d \in DOMAIN held
      <3>1. /\ held[d].vault = Vault[d] /\ held[d].object \in DOMAIN sent
            /\ SameRow(held[d], sent[held[d].object])
        BY <2>1 DEF ObjectInv, OpenedAsSaved
      <3>2. /\ sent[held[d].object].vault = Vault[d]
            /\ sent[held[d].object].generation = held[d].generation
            /\ sent[held[d].object].digest = held[d].digest
        BY <3>1 DEF SameRow, Manifest
      <3> QED  BY <1>1, <1>3, <2>1, <3>1, <3>2 DEF ObjectInv, OpenedAsSaved
    <2>2. CASE d \notin DOMAIN held
      BY <1>1, <1>3, <2>2 DEF ObjectInv, OpenedAsSaved
    <2> QED  BY <2>1, <2>2
  <1> QED  BY <1>5, <1>6, <1>7, <1>8, <1>9 DEF ObjectInv, OpenedAsSaved

\* A device opens a row only if it is one that was sent.
LEMMA OpenObject_Inv ==
    ASSUME ObjectInv, NEW d \in Sealers, NEW o \in DOMAIN rows, OpenObject(d, o)
    PROVE  ObjectInv'
  <1>1. /\ sent' = sent /\ rows' = rows /\ held' = With(held, d, rows[o])
        /\ OpensFor(rows[o], Vault[d])
    BY DEF OpenObject
  <1>2. /\ rows[o].vault = Vault[d] /\ rows[o].object \in DOMAIN sent
        /\ SameRow(rows[o], sent[rows[o].object])
    BY <1>1, OpenedIsSent
  <1>3. /\ DOMAIN held' = DOMAIN held \cup {d} /\ held'[d] = rows[o]
        /\ \A e \in DOMAIN held : e # d => held'[e] = held[e]
    BY <1>1 DEF With
  <1>4. \A signature : KnownSignature(signature)' = KnownSignature(signature)
    BY <1>1 DEF KnownSignature
  <1>5. \A e \in DOMAIN held' : /\ held'[e].vault = Vault[e]
                                /\ held'[e].object \in DOMAIN sent'
                                /\ SameRow(held'[e], sent'[held'[e].object])
    BY <1>1, <1>2, <1>3 DEF ObjectInv, OpenedAsSaved
  <1> QED  BY <1>1, <1>3, <1>4, <1>5 DEF ObjectInv, OpenedAsSaved

\* A spoiled part gives no row a signature nobody made.
LEMMA SpoilObject_Inv ==
    ASSUME ObjectInv, NEW o \in DOMAIN rows, SpoilObject(o)
    PROVE  ObjectInv'
  <1>1. sent' = sent /\ held' = held
    BY DEF SpoilObject
  <1>2. PICK row : /\ rows' = [rows EXCEPT ![o] = row]
                   /\ DOMAIN row = Columns
                   /\ KnownSignature(row.signature)
    <2>1. CASE \E q \in DOMAIN rows \ {o}, part \in Columns \cup Parts :
                   rows' = [rows EXCEPT ![o] = Replaced(rows[o], part, PartOf(rows[q], part))]
      <3>1. PICK q \in DOMAIN rows \ {o}, part \in Columns \cup Parts :
                   rows' = [rows EXCEPT ![o] = Replaced(rows[o], part, PartOf(rows[q], part))]
        BY <2>1
      <3> DEFINE row == Replaced(rows[o], part, PartOf(rows[q], part))
      <3>2. /\ DOMAIN row = Columns
            /\ row.signature = IF part = "signature" THEN PartOf(rows[q], part)
                                                    ELSE rows[o].signature
        BY ReplacedRow DEF ObjectInv
      <3>3. part = "signature" => PartOf(rows[q], part) = rows[q].signature
        BY DEF PartOf, Columns
      <3> HIDE DEF row
      <3>4. KnownSignature(row.signature)
        BY <3>2, <3>3 DEF ObjectInv
      <3> QED  BY <3>1, <3>2, <3>4 DEF row
    <2>2. CASE \E part \in (Columns \ {"envelope"}) \cup Parts :
                   rows' = [rows EXCEPT ![o] = Replaced(rows[o], part, Garbage(part))]
      <3>1. PICK part \in (Columns \ {"envelope"}) \cup Parts :
                   rows' = [rows EXCEPT ![o] = Replaced(rows[o], part, Garbage(part))]
        BY <2>2
      <3> DEFINE row == Replaced(rows[o], part, Garbage(part))
      <3>2. /\ DOMAIN row = Columns
            /\ row.signature = IF part = "signature" THEN Garbage(part) ELSE rows[o].signature
        BY ReplacedRow DEF ObjectInv
      <3>3. Garbage("signature") = Signed(Spoiled, Spoiled)
        BY DEF Garbage
      <3> HIDE DEF row
      <3>4. KnownSignature(row.signature)
        BY <3>2, <3>3 DEF ObjectInv, KnownSignature
      <3> QED  BY <3>1, <3>2, <3>4 DEF row
    <2> QED  BY <2>1, <2>2 DEF SpoilObject
  <1>3. DOMAIN rows' = DOMAIN rows /\ rows'[o] = row
        /\ \A q \in DOMAIN rows : q # o => rows'[q] = rows[q]
    BY <1>2
  <1>4. \A signature : KnownSignature(signature)' = KnownSignature(signature)
    BY <1>1 DEF KnownSignature
  <1> QED  BY <1>1, <1>2, <1>3, <1>4 DEF ObjectInv, OpenedAsSaved

\* Whatever is stored, spoiled or mixed up, a device shows and builds upon exactly what a save sent.
THEOREM OnlySavedOpens == ObjectSpec => []OpenedAsSaved
  <1>1. ObjectInv /\ [ObjectNext]_objectVars => ObjectInv'
    <2> SUFFICES ASSUME ObjectInv, [ObjectNext]_objectVars PROVE ObjectInv'
      OBVIOUS
    <2>1. CASE UNCHANGED objectVars
      BY <2>1 DEF objectVars, ObjectInv, OpenedAsSaved, KnownSignature
    <2>2. NextId \subseteq Unused
      BY DEF NextId
    <2> QED  BY <2>1, <2>2, SaveObject_Inv, OpenObject_Inv, SpoilObject_Inv DEF ObjectNext
  <1>2. ObjectInv => OpenedAsSaved
    BY DEF ObjectInv
  <1> QED  BY <1>1, <1>2, ObjectInit_Inv, PTL DEF ObjectSpec

--------------------------------------------------------------------------------
(* Workspaces: what the variables hold *)

Ids == Ops \cup Kits
Signers == Ops \cup Devices
VaultObject == [kit : Kits, gen : Nat, parent : Ids \cup {None}, snap : SUBSET Ops]
VaultRef == [kit : Kits, gen : Nat, snap : SUBSET Ops, ro : BOOLEAN]
Session == [kit : Kits, parent : Ids, ro : BOOLEAN]
Kinds == {"none", "refresh", "create", "commit", "unlock", "save"}
Before == {"none", "list", "prepare", "bootstrap", "register", "seal"}
Sending == {"upload", "look", "publish", "swap", "confirm"}
Operation ==
    [dev : Devices \cup {None}, kind : Kinds, kit : Kits \cup {None},
     at : Before \cup Sending \cup {"load", "history", "done"},
     cur : BOOLEAN, live : BOOLEAN, quiet : BOOLEAN, ctl : Ops \cup {0, None},
     base : VaultRef \cup {None}, sid : Signers \cup {None}, obj : VaultObject \cup {None},
     skip : Ids \cup {None}]
Phases == {"SIGNED_OUT", "NEEDS_SETUP", "LOCKED", "UNLOCKED", "LOADING", "CREATING", "COMMITTING",
           "UNLOCKING", "SAVING", "RECOVERY_READY", "ERROR"}
Context ==
    [phase : Phases, owner : Ops \cup {0}, code : Kits \cup {None}, sel : Kits \cup {None},
     unl : VaultRef \cup {None}, open : BOOLEAN, kit : Kits \cup {None}, acked : BOOLEAN,
     ctl : Ops \cup {0, None}, rows : SUBSET Kits]

VaultTypeOK ==
    /\ made \in SUBSET Kits /\ booted \in SUBSET Kits
    /\ history \in [Kits -> Seq(Ids)]
    /\ objects \in [Ids -> VaultObject \cup {None}]
    /\ ctx \in [Devices -> Context]
    /\ keys \in [Devices -> [Kits -> Signers \cup {None}]]
    /\ sess \in [Signers -> Session \cup {None}]
    /\ op \in [Ops -> Operation]

\* What each kind of operation has at each of its steps.
StepsFollow(o) ==
    /\ op[o].at = "none" => op[o] = NoOp
    /\ op[o].at # "none" => op[o].dev \in Devices /\ op[o].kind # "none"
    /\ op[o].kind \in {"commit", "unlock", "save"} => op[o].kit \in Kits
    /\ op[o].at = "list" => op[o].kind = "refresh"
    /\ op[o].at = "prepare" => op[o].kind = "create"
    /\ op[o].at = "bootstrap" => op[o].kind = "commit"
    /\ op[o].at \in {"register", "load", "history"} => op[o].kind \in {"commit", "unlock"}
    /\ op[o].at \in {"seal"} \cup Sending => op[o].kind \in {"commit", "save"}
    /\ op[o].kind = "refresh" => op[o].at \in {"list", "done"}
    /\ op[o].kind = "create" => op[o].at \in {"prepare", "done"}
    /\ op[o].at \in Before => op[o].obj = None
    /\ op[o].at = "load" /\ ~op[o].quiet => op[o].obj = None
    /\ op[o].at \in Sending => op[o].obj # None

PublishedIn(k) == {history[k][g] : g \in 1..Len(history[k])}

\* Generations of a workspace are its objects in the order of their parents,
\* and hold the saves that were published, each of them by then.
GenerationOf(k, g) ==
    LET id == history[k][g]
        x == objects[id]
    IN  /\ x # None /\ x.kit = k /\ x.gen = g
        /\ \A e \in x.snap : \E h \in 1..g : history[k][h] = e
        /\ g = 1 => x.snap = {}
        /\ id \in Ops => op[id].kit = k
HistoryOf(k) == \A g \in 1..Len(history[k]) : GenerationOf(k, g)

\* An object adds its save to a published one, or is the first.
ObjectOf(o) ==
    /\ objects[o] # None => objects[o] = op[o].obj
    /\ op[o].obj # None =>
        /\ op[o].obj.kit = op[o].kit /\ op[o].kind \in {"commit", "save"}
        /\ op[o].kind = "commit" => op[o].obj = Object(op[o].kit, 1, None, {})
        /\ op[o].kind = "save" =>
            /\ op[o].obj.parent \in PublishedIn(op[o].kit)
            /\ op[o].obj.gen = objects[op[o].obj.parent].gen + 1
            /\ op[o].obj.snap = objects[op[o].obj.parent].snap \cup {o}

\* When an operation may have been published, and what may still arrive.
MayBePublished(o) == op[o].at \in {"confirm", "done"} \/ (op[o].quiet /\ op[o].at \in {"load", "history"})
NotYetPublished(o) ==
    /\ (\E k \in Kits : o \in PublishedIn(k)) => MayBePublished(o)
    /\ <<o, "publish">> \in late => MayBePublished(o)
    /\ \A request \in {"bootstrap", "register", "upload", "publish"} :
          <<o, request>> \in late => op[o].kind \in {"commit", "unlock", "save"}
    /\ <<o, "upload">> \in late => op[o].obj # None

ServerInv ==
    /\ \A k \in Kits : HistoryOf(k)
    /\ \A o \in Ops : ObjectOf(o) /\ NotYetPublished(o)

\* Signing sessions name a published parent.
SessionOf(i) ==
    sess[i] # None =>
        /\ sess[i].parent \in PublishedIn(sess[i].kit)
        /\ i \in Ops => op[i].at = "done" /\ op[i].kit = sess[i].kit
KeyOf(d, k) == keys[d][k] # None => sess[keys[d][k]] # None /\ sess[keys[d][k]].kit = k
IsPublished(u) ==
    /\ u.gen \in 1..Len(history[u.kit])
    /\ objects[history[u.kit][u.gen]].snap = u.snap
SaveOf(o) ==
    op[o].kind = "save" /\ op[o].at # "done" =>
        /\ op[o].base # None /\ op[o].base.kit = op[o].kit /\ IsPublished(op[o].base)
        /\ op[o].sid # None => sess[op[o].sid] # None /\ sess[op[o].sid].kit = op[o].kit
        /\ op[o].at # "seal" => op[o].sid # None

SessionsInv ==
    /\ \A i \in Signers : SessionOf(i)
    /\ \A d \in Devices, k \in Kits : KeyOf(d, k)
    /\ \A o \in Ops : SaveOf(o)

\* The context and the one operation it waits for.
CurrentOf(o) ==
    op[o].cur =>
        /\ Busy(o)
        /\ ctx[op[o].dev].phase \in DOMAIN Waits /\ Waits[ctx[op[o].dev].phase] = op[o].kind
        /\ Signalled(o) => op[o].live /\ ctx[op[o].dev].owner = o
        /\ op[o].kind = "save" => ctx[op[o].dev].open /\ ctx[op[o].dev].sel = op[o].kit
        /\ \A p \in Ops : op[p].cur /\ op[p].dev = op[o].dev => p = o
OpenOf(d) ==
    /\ ctx[d].open =>
        /\ ctx[d].phase \in {"UNLOCKED", "SAVING"}
        /\ ctx[d].unl # None /\ ctx[d].unl.kit = ctx[d].sel /\ ctx[d].unl.kit = ctx[d].code
        /\ IsPublished(ctx[d].unl)
    /\ ctx[d].code # None => ctx[d].open \/ ctx[d].kit # None
    /\ ctx[d].kit # None => ~ctx[d].acked /\ ~ctx[d].open
ContextInv ==
    /\ \A o \in Ops : CurrentOf(o)
    /\ \A d \in Devices : OpenOf(d)
    /\ BusyPhaseEnds

\* What a save was told.
ToldInv ==
    /\ \A o \in reported :
          o \in Ops /\ op[o].at = "done" /\ op[o].kit \in Kits /\ o \in PublishedIn(op[o].kit)
    /\ \A o \in Told("refused") :
          /\ op[o].at = "done" /\ op[o].kit \in Kits
          /\ <<o, "publish">> \notin late
          /\ \A k \in Kits : o \notin PublishedIn(k)

VaultInv ==
    /\ VaultTypeOK /\ (\A o \in Ops : StepsFollow(o)) /\ ServerInv /\ SessionsInv /\ ContextInv
    /\ ToldInv
----------------------------------------------------------------------------
(* Names and records *)

\* Operations, kits, devices and records are told apart, and none of them is None.
LEMMA Names ==
  /\ None \notin Ids /\ None \notin Ops /\ None \notin Kits /\ None \notin Devices
  /\ None \notin VaultObject /\ None \notin VaultRef /\ None \notin Session
  /\ Kits \cap Ops = {} /\ Devices \cap Ops = {} /\ 0 \notin Ops
  BY VaultAssumption DEF Ids, Ops, VaultObject, VaultRef, Session

\* What an operation is, and what it has besides the step it is at.
SameIdentity(a, b) == a.dev = b.dev /\ a.kind = b.kind /\ a.kit = b.kit
SameHold(a, b) == a.ctl = b.ctl /\ a.base = b.base /\ a.sid = b.sid
SameTurn(a, b) == a.cur = b.cur /\ a.live = b.live

OthersStay(o) == \A p \in Ops : p # o => op'[p] = op[p]

\* To change one operation leaves the others.
LEMMA ChangedOp ==
  ASSUME VaultTypeOK, NEW o \in Ops, NEW new \in Operation, op' = [op EXCEPT ![o] = new]
  PROVE  op' \in [Ops -> Operation] /\ op'[o] = new /\ OthersStay(o)
  BY DEF VaultTypeOK, OthersStay

\* An operation that goes on changes nothing but the step it is at.
LEMMA Stepped ==
  ASSUME VaultTypeOK, NEW o \in Ops,
         NEW at \in Before \cup Sending \cup {"load", "history", "done"}, Step(o, at)
  PROVE  /\ op' \in [Ops -> Operation] /\ OthersStay(o)
         /\ op'[o].at = at /\ op'[o].obj = op[o].obj /\ op'[o].quiet = op[o].quiet
         /\ SameIdentity(op'[o], op[o]) /\ SameHold(op'[o], op[o]) /\ SameTurn(op'[o], op[o])
<1> DEFINE new == [op[o] EXCEPT !.at = at]
<1>1. op[o] \in Operation
  BY DEF VaultTypeOK
<1>2. new \in Operation
  BY <1>1 DEF Operation
<1>3. /\ new.at = at /\ new.obj = op[o].obj /\ new.quiet = op[o].quiet
      /\ SameIdentity(new, op[o]) /\ SameHold(new, op[o]) /\ SameTurn(new, op[o])
  BY <1>1 DEF Operation, SameIdentity, SameHold, SameTurn
<1>4. op' = [op EXCEPT ![o] = new]
  BY DEF Step, VaultTypeOK
<1> HIDE DEF new
<1> QED BY <1>2, <1>3, <1>4, ChangedOp

\* One that is done keeps what it is and the object it made, and nothing else.
LEMMA Ended ==
  ASSUME VaultTypeOK, NEW o \in Ops, Done(o)
  PROVE  /\ op' \in [Ops -> Operation] /\ OthersStay(o)
         /\ op'[o].at = "done" /\ op'[o].obj = op[o].obj /\ ~op'[o].cur /\ ~op'[o].live
         /\ SameIdentity(op'[o], op[o])
<1> DEFINE new == [op[o] EXCEPT !.at = "done", !.cur = FALSE, !.live = FALSE, !.quiet = FALSE,
                                !.ctl = None, !.base = None, !.sid = None]
<1>1. op[o] \in Operation
  BY DEF VaultTypeOK
<1>2. new \in Operation
  BY <1>1 DEF Operation
<1>3. /\ new.at = "done" /\ new.obj = op[o].obj /\ ~new.cur /\ ~new.live
      /\ SameIdentity(new, op[o])
  BY <1>1 DEF Operation, SameIdentity
<1>4. op' = [op EXCEPT ![o] = new]
  BY DEF Done, VaultTypeOK
<1> HIDE DEF new
<1> QED BY <1>2, <1>3, <1>4, ChangedOp

\* A first save that asks what is there keeps everything but its step.
LEMMA QuietLoad ==
  ASSUME VaultTypeOK, NEW o \in Ops, op' = [op EXCEPT ![o].at = "load", ![o].quiet = TRUE]
  PROVE  /\ op' \in [Ops -> Operation] /\ OthersStay(o)
         /\ op'[o].at = "load" /\ op'[o].obj = op[o].obj /\ op'[o].quiet
         /\ SameIdentity(op'[o], op[o]) /\ SameHold(op'[o], op[o]) /\ SameTurn(op'[o], op[o])
<1> DEFINE new == [op[o] EXCEPT !.at = "load", !.quiet = TRUE]
<1>1. op[o] \in Operation
  BY DEF VaultTypeOK
<1>2. new \in Operation
  BY <1>1 DEF Operation
<1>3. /\ new.at = "load" /\ new.obj = op[o].obj /\ new.quiet
      /\ SameIdentity(new, op[o]) /\ SameHold(new, op[o]) /\ SameTurn(new, op[o])
  BY <1>1 DEF Operation, SameIdentity, SameHold, SameTurn
<1>4. op' = [op EXCEPT ![o] = new]
  BY DEF VaultTypeOK
<1> HIDE DEF new
<1> QED BY <1>2, <1>3, <1>4, ChangedOp

\* So does an unlock that asks for an older generation.
LEMMA HistoryAsked ==
  ASSUME VaultTypeOK, NEW o \in Ops, NEW id \in Ids,
         op' = [op EXCEPT ![o].at = "history", ![o].skip = id]
  PROVE  /\ op' \in [Ops -> Operation] /\ OthersStay(o)
         /\ op'[o].at = "history" /\ op'[o].obj = op[o].obj /\ op'[o].quiet = op[o].quiet
         /\ SameIdentity(op'[o], op[o]) /\ SameHold(op'[o], op[o]) /\ SameTurn(op'[o], op[o])
<1> DEFINE new == [op[o] EXCEPT !.at = "history", !.skip = id]
<1>1. op[o] \in Operation
  BY DEF VaultTypeOK
<1>2. new \in Operation
  BY <1>1 DEF Operation
<1>3. /\ new.at = "history" /\ new.obj = op[o].obj /\ new.quiet = op[o].quiet
      /\ SameIdentity(new, op[o]) /\ SameHold(new, op[o]) /\ SameTurn(new, op[o])
  BY <1>1 DEF Operation, SameIdentity, SameHold, SameTurn
<1>4. op' = [op EXCEPT ![o] = new]
  BY DEF VaultTypeOK
<1> HIDE DEF new
<1> QED BY <1>2, <1>3, <1>4, ChangedOp

\* Sealing gives an operation its object.
LEMMA SealedOp ==
  ASSUME VaultTypeOK, NEW o \in Ops, NEW x \in VaultObject,
         op' = [op EXCEPT ![o].at = "upload", ![o].obj = x]
  PROVE  /\ op' \in [Ops -> Operation] /\ OthersStay(o)
         /\ op'[o].at = "upload" /\ op'[o].obj = x /\ op'[o].quiet = op[o].quiet
         /\ SameIdentity(op'[o], op[o]) /\ SameHold(op'[o], op[o]) /\ SameTurn(op'[o], op[o])
<1> DEFINE new == [op[o] EXCEPT !.at = "upload", !.obj = x]
<1>1. op[o] \in Operation
  BY DEF VaultTypeOK
<1>2. new \in Operation
  BY <1>1 DEF Operation, Sending
<1>3. /\ new.at = "upload" /\ new.obj = x /\ new.quiet = op[o].quiet
      /\ SameIdentity(new, op[o]) /\ SameHold(new, op[o]) /\ SameTurn(new, op[o])
  BY <1>1 DEF Operation, SameIdentity, SameHold, SameTurn
<1>4. op' = [op EXCEPT ![o] = new]
  BY DEF VaultTypeOK
<1> HIDE DEF new
<1> QED BY <1>2, <1>3, <1>4, ChangedOp

\* A new epoch takes away the turn of a device's operations, and not what they are.
LEMMA SupersededOps ==
  ASSUME VaultTypeOK, \A o \in Ops : StepsFollow(o), NEW d \in Devices
  PROVE  /\ Superseded(d) \in [Ops -> Operation]
         /\ \A p \in Ops :
              LET s == Superseded(d)[p]
              IN  /\ op[p].dev # d => s = op[p]
                  /\ op[p].dev = d => ~s.cur
                  /\ op[p].at = "none" => s = op[p]
                  /\ s.at = op[p].at /\ s.obj = op[p].obj /\ s.quiet = op[p].quiet
                  /\ SameIdentity(s, op[p]) /\ SameHold(s, op[p])
<1>1. \A p \in Ops : op[p] \in Operation
  BY DEF VaultTypeOK
<1>2. ASSUME NEW p \in Ops
      PROVE  LET s == Superseded(d)[p]
             IN  /\ s \in Operation
                 /\ op[p].dev # d => s = op[p]
                 /\ op[p].dev = d => ~s.cur
                 /\ op[p].at = "none" => s = op[p]
                 /\ s.at = op[p].at /\ s.obj = op[p].obj /\ s.quiet = op[p].quiet
                 /\ SameIdentity(s, op[p]) /\ SameHold(s, op[p])
  <2> DEFINE s == Superseded(d)[p]
             live == op[p].live /\ p # ctx[d].owner
             new == [op[p] EXCEPT !.cur = FALSE, !.live = live]
  <2>1. op[p].at = "none" => op[p].dev = None /\ op[p].dev # d
    BY Names DEF StepsFollow, NoOp
  <2>2. CASE op[p].dev # d
    <3>1. s = op[p]
      BY <2>2 DEF Superseded
    <3> QED BY <1>1, <2>2, <3>1 DEF SameIdentity, SameHold
  <2>3. CASE op[p].dev = d
    <3>1. s = new
      BY <2>3 DEF Superseded
    <3>2. live \in BOOLEAN
      OBVIOUS
    <3> HIDE DEF live
    <3>3. new \in Operation
      BY <1>1, <3>2 DEF Operation
    <3>4. /\ ~new.cur /\ new.at = op[p].at /\ new.obj = op[p].obj /\ new.quiet = op[p].quiet
          /\ SameIdentity(new, op[p]) /\ SameHold(new, op[p])
      BY <1>1 DEF Operation, SameIdentity, SameHold
    <3> HIDE DEF new
    <3> QED BY <2>1, <2>3, <3>1, <3>3, <3>4
  <2> QED BY <2>2, <2>3
<1>3. Superseded(d) = [p \in Ops |-> Superseded(d)[p]]
  BY DEF Superseded
<1> QED BY <1>2, <1>3

----------------------------------------------------------------------------
(* The server *)

\* History is only added to, and an object stays what it is.
ServerGrows ==
    /\ \A k \in Kits : /\ Len(history[k]) <= Len(history'[k])
                       /\ \A g \in 1..Len(history[k]) : history'[k][g] = history[k][g]
    /\ \A id \in Ids : objects[id] # None => objects'[id] = objects[id]

\* An operation keeps what it is, and having been published.
OpsKept ==
    /\ op' \in [Ops -> Operation]
    /\ \A p \in Ops : /\ op[p].at # "none" => op'[p].at # "none" /\ SameIdentity(op'[p], op[p])
                      /\ MayBePublished(p) => MayBePublished(p)'
ObjKept == \A p \in Ops : op'[p].obj = op[p].obj

\* What is sent from now on was made ready for it.
LateKept ==
    \A p \in Ops, request \in {"bootstrap", "register", "upload", "publish"} :
        <<p, request>> \in late' /\ <<p, request>> \notin late =>
            /\ request = "publish" => MayBePublished(p)'
            /\ request = "upload" => op[p].obj # None
            /\ op[p].kind \in {"commit", "unlock", "save"}

\* What was published stays, with its content.
LEMMA PublishedStays ==
  ASSUME VaultTypeOK, ServerInv, ServerGrows
  PROVE  /\ \A k \in Kits : PublishedIn(k) \subseteq PublishedIn(k)'
         /\ \A u \in VaultRef : IsPublished(u) => IsPublished(u)'
         /\ \A k \in Kits : \A id \in PublishedIn(k) :
              id \in Ids /\ objects[id] # None /\ objects'[id] = objects[id]
<1>1. \A k \in Kits : \A g \in 1..Len(history[k]) :
        /\ history[k][g] \in Ids /\ objects[history[k][g]] # None
        /\ history'[k][g] = history[k][g] /\ g \in 1..Len(history'[k])
        /\ objects'[history[k][g]] = objects[history[k][g]]
  <2> TAKE k \in Kits
  <2> TAKE g \in 1..Len(history[k])
  <2>1. history[k][g] \in Ids
    BY DEF VaultTypeOK
  <2>2. objects[history[k][g]] # None
    BY DEF ServerInv, HistoryOf, GenerationOf
  <2>3. g \in 1..Len(history'[k])
    BY DEF VaultTypeOK, ServerGrows
  <2> QED BY <2>1, <2>2, <2>3 DEF ServerGrows
<1>2. \A k \in Kits : PublishedIn(k) \subseteq PublishedIn(k)'
  BY <1>1 DEF PublishedIn
<1>3. \A u \in VaultRef : IsPublished(u) => IsPublished(u)'
  <2> TAKE u \in VaultRef
  <2>1. u.kit \in Kits
    BY DEF VaultRef
  <2> QED BY <2>1, <1>1 DEF IsPublished
<1>4. \A k \in Kits : \A id \in PublishedIn(k) :
        id \in Ids /\ objects[id] # None /\ objects'[id] = objects[id]
  BY <1>1 DEF PublishedIn
<1> QED BY <1>2, <1>3, <1>4

\* A generation keeps its place, its parents and its content.
LEMMA GenerationStays ==
  ASSUME NEW k \in Kits, NEW g \in Nat, GenerationOf(k, g),
         \A h \in 1..g : history'[k][h] = history[k][h], history'[k][g] = history[k][g],
         objects'[history[k][g]] = objects[history[k][g]],
         history[k][g] \in Ops => op'[history[k][g]].kit = op[history[k][g]].kit
  PROVE  GenerationOf(k, g)'
<1> DEFINE x == objects[history[k][g]]
<1>1. \A e \in x.snap : \E h \in 1..g : history'[k][h] = e
  BY DEF GenerationOf
<1> QED BY <1>1 DEF GenerationOf

\* Nothing is published, and no operation gets its object.
LEMMA ServerKept ==
  ASSUME VaultTypeOK, \A o \in Ops : StepsFollow(o), ServerInv,
         history' = history, \A id \in Ids : objects[id] # None => objects'[id] = objects[id],
         \A p \in Ops : objects'[p] # None => objects'[p] = op[p].obj,
         OpsKept, ObjKept, LateKept
  PROVE  ServerInv'
<1>1. ServerGrows
  BY DEF ServerGrows, VaultTypeOK
<1>2. \A k \in Kits : PublishedIn(k)' = PublishedIn(k)
  BY DEF PublishedIn
<1>3. \A k \in Kits : \A id \in PublishedIn(k) :
        id \in Ids /\ objects[id] # None /\ objects'[id] = objects[id]
  BY <1>1, PublishedStays
<1>4. \A p \in Ops : MayBePublished(p) => SameIdentity(op'[p], op[p])
  BY DEF MayBePublished, OpsKept
<1>5. ASSUME NEW k \in Kits PROVE HistoryOf(k)'
  <2>1. \A g \in 1..Len(history[k]) : history[k][g] \in PublishedIn(k)
    BY DEF PublishedIn
  <2>2. \A p \in Ops : p \in PublishedIn(k) => op'[p].kit = op[p].kit
    BY <1>4 DEF ServerInv, NotYetPublished, SameIdentity
  <2> SUFFICES ASSUME NEW g \in 1..Len(history[k]) PROVE GenerationOf(k, g)'
    BY DEF HistoryOf
  <2>3. GenerationOf(k, g) /\ g \in Nat
    BY DEF ServerInv, HistoryOf
  <2> QED BY <1>3, <2>1, <2>2, <2>3, GenerationStays
<1>6. ASSUME NEW o \in Ops PROVE ObjectOf(o)'
  <2>1. ObjectOf(o) /\ StepsFollow(o) /\ op'[o].obj = op[o].obj
    BY DEF ServerInv, ObjKept
  <2>2. op[o].obj # None => SameIdentity(op'[o], op[o])
    BY <2>1 DEF StepsFollow, NoOp, OpsKept
  <2>3. op[o].kind \in {"commit", "save"} => op[o].kit \in Kits
    BY <2>1 DEF StepsFollow
  <2>4. op[o].obj # None /\ op[o].kind = "save" =>
          /\ op[o].obj.parent \in PublishedIn(op[o].kit)
          /\ objects'[op[o].obj.parent] = objects[op[o].obj.parent]
    BY <1>3, <2>1, <2>3 DEF ObjectOf
  <2> QED BY <1>2, <2>1, <2>2, <2>3, <2>4 DEF ObjectOf, SameIdentity
<1>7. ASSUME NEW o \in Ops PROVE NotYetPublished(o)'
  <2>1. NotYetPublished(o) /\ StepsFollow(o)
    BY DEF ServerInv
  <2>2. op[o].kind \in {"commit", "unlock", "save"} => op'[o].kind = op[o].kind
    BY <2>1 DEF StepsFollow, NoOp, OpsKept, SameIdentity
  <2>3. (\E k \in Kits : o \in PublishedIn(k)') => MayBePublished(o)'
    BY <1>2, <2>1 DEF NotYetPublished, OpsKept
  <2>4. ASSUME NEW request \in {"bootstrap", "register", "upload", "publish"}, <<o, request>> \in late'
        PROVE  /\ request = "publish" => MayBePublished(o)'
               /\ request = "upload" => op[o].obj # None
               /\ op'[o].kind \in {"commit", "unlock", "save"}
    BY <2>1, <2>2, <2>4 DEF NotYetPublished, LateKept, OpsKept
  <2> QED BY <2>3, <2>4 DEF NotYetPublished, ObjKept
<1> QED BY <1>5, <1>6, <1>7 DEF ServerInv

\* An operation gets its object, before anything was uploaded.
LEMMA ServerSealed ==
  ASSUME VaultTypeOK, \A p \in Ops : StepsFollow(p), ServerInv,
         UNCHANGED <<history, objects, late>>, NEW o \in Ops, op[o].at = "seal",
         NEW x \in VaultObject, op' = [op EXCEPT ![o].at = "upload", ![o].obj = x],
         x.kit = op[o].kit,
         op[o].kind = "commit" => x = Object(op[o].kit, 1, None, {}),
         op[o].kind = "save" => /\ x.parent \in PublishedIn(op[o].kit)
                                /\ x.gen = objects[x.parent].gen + 1
                                /\ x.snap = objects[x.parent].snap \cup {o}
  PROVE  ServerInv'
<1>1. /\ op' \in [Ops -> Operation] /\ OthersStay(o) /\ op'[o].at = "upload" /\ op'[o].obj = x
      /\ SameIdentity(op'[o], op[o])
  BY SealedOp
<1>2. ~MayBePublished(o) /\ op[o].obj = None /\ objects[o] = None
  <2>1. ~MayBePublished(o)
    BY DEF MayBePublished
  <2>2. op[o].obj = None
    BY DEF StepsFollow, Before
  <2>3. ObjectOf(o) /\ objects[o] \in VaultObject \cup {None}
    BY DEF ServerInv, VaultTypeOK, Ids
  <2> QED BY <2>1, <2>2, <2>3, Names DEF ObjectOf
<1>3. \A k \in Kits : PublishedIn(k)' = PublishedIn(k) /\ o \notin PublishedIn(k)
  BY <1>2 DEF PublishedIn, ServerInv, NotYetPublished
<1>4. ASSUME NEW k \in Kits PROVE HistoryOf(k)'
  <2>1. \A g \in 1..Len(history[k]) : history[k][g] \in PublishedIn(k)
    BY DEF PublishedIn
  <2> SUFFICES ASSUME NEW g \in 1..Len(history[k]) PROVE GenerationOf(k, g)'
    BY DEF HistoryOf
  <2>2. GenerationOf(k, g) /\ g \in Nat
    BY DEF ServerInv, HistoryOf
  <2> QED BY <1>1, <1>3, <2>1, <2>2, GenerationStays DEF OthersStay
<1>5. ASSUME NEW p \in Ops, p # o PROVE ObjectOf(p)' /\ NotYetPublished(p)'
  <2>1. op'[p] = op[p] /\ ObjectOf(p) /\ NotYetPublished(p)
    BY <1>1, <1>5 DEF OthersStay, ServerInv
  <2>2. op[p].kind = "save" => op[p].kit \in Kits
    BY DEF StepsFollow
  <2>3. ObjectOf(p)'
    BY <1>3, <2>1, <2>2 DEF ObjectOf
  <2>4. NotYetPublished(p)'
    BY <1>3, <2>1 DEF NotYetPublished, MayBePublished
  <2> QED BY <2>3, <2>4
<1>6. ObjectOf(o)'
  <2>1. op[o].kind \in {"commit", "save"} /\ op[o].kit \in Kits
    BY DEF StepsFollow
  <2> QED BY <1>1, <1>2, <1>3, <2>1 DEF ObjectOf, SameIdentity
<1>7. NotYetPublished(o)'
  <2>1. NotYetPublished(o)
    BY DEF ServerInv
  <2>2. x # None
    BY Names
  <2> QED BY <1>1, <1>2, <1>3, <2>1, <2>2 DEF NotYetPublished, SameIdentity
<1> QED BY <1>4, <1>5, <1>6, <1>7 DEF ServerInv

\* An object follows the head: the newest generation it adds its save to.
LEMMA ServerPublished ==
  ASSUME VaultTypeOK, \A p \in Ops : StepsFollow(p), ServerInv,
         NEW o \in Ops, NEW k \in Kits, k = op[o].kit, MayFollow(o), Published(o), objects' = objects,
         OpsKept, ObjKept, LateKept, op[o].at # "none", MayBePublished(o)'
  PROVE  /\ ServerInv' /\ history' \in [Kits -> Seq(Ids)] /\ ServerGrows
         /\ \A j \in Kits : j # k => history'[j] = history[j]
         /\ history'[k] = Append(history[k], o) /\ op[o].obj # None
         /\ op[o].obj.gen = Len(history'[k]) /\ objects[o] = op[o].obj
         /\ PublishedIn(k)' = PublishedIn(k) \cup {o}
         /\ op[o].kind = "commit" => history[k] = <<>> /\ op[o].obj.snap = {}
         /\ op[o].kind = "save" =>
              /\ history[k] # <<>>
              /\ op[o].obj.snap = objects[history[k][Len(history[k])]].snap \cup {o}
<1>0. PICK n \in Nat : n = Len(history[k])
  <2>1. history[k] \in Seq(Ids)
    BY DEF VaultTypeOK
  <2> QED BY <2>1
<1>1. /\ history[k] \in Seq(Ids) /\ n = Len(history[k]) /\ n \in Nat /\ o \in Ids
      /\ history' = [history EXCEPT ![k] = Append(history[k], o)]
  BY <1>0 DEF VaultTypeOK, Published, Ids
<1>2. /\ history'[k] = Append(history[k], o) /\ \A j \in Kits : j # k => history'[j] = history[j]
      /\ history' \in [Kits -> Seq(Ids)]
  BY <1>1 DEF VaultTypeOK
<1>3. /\ Len(history'[k]) = n + 1 /\ history'[k][n + 1] = o
      /\ \A g \in 1..n : history'[k][g] = history[k][g]
  BY <1>1, <1>2
<1>4. ServerGrows
  <2> SUFFICES ASSUME NEW j \in Kits
               PROVE  /\ Len(history[j]) <= Len(history'[j])
                      /\ \A g \in 1..Len(history[j]) : history'[j][g] = history[j][g]
    BY DEF ServerGrows
  <2>1. CASE j = k
    BY <1>1, <1>3, <2>1
  <2>2. CASE j # k
    <3>1. Len(history[j]) \in Nat
      BY DEF VaultTypeOK
    <3> QED BY <1>2, <2>2, <3>1
  <2> QED BY <2>1, <2>2
<1>5. /\ \A j \in Kits : j # k => PublishedIn(j)' = PublishedIn(j)
      /\ PublishedIn(k)' = PublishedIn(k) \cup {o}
  <2>1. \A g \in 1..(n + 1) : g \in 1..n \/ g = n + 1
    BY <1>1
  <2>2. n + 1 \in 1..(n + 1) /\ \A g \in 1..n : g \in 1..(n + 1)
    BY <1>1
  <2>3. PublishedIn(k)' = PublishedIn(k) \cup {o}
    <3>1. PublishedIn(k)' = {history'[k][g] : g \in 1..(n + 1)}
      BY <1>3 DEF PublishedIn
    <3>2. PublishedIn(k) = {history[k][g] : g \in 1..n}
      BY <1>1 DEF PublishedIn
    <3>3. ASSUME NEW e \in PublishedIn(k)' PROVE e \in PublishedIn(k) \cup {o}
      BY <1>3, <2>1, <3>1, <3>2
    <3>4. ASSUME NEW e \in PublishedIn(k) \cup {o} PROVE e \in PublishedIn(k)'
      BY <1>3, <2>2, <3>1, <3>2
    <3> QED BY <3>3, <3>4
  <2>4. \A j \in Kits : j # k => PublishedIn(j)' = PublishedIn(j)
    BY <1>2 DEF PublishedIn
  <2> QED BY <2>3, <2>4
<1>6. /\ objects[o] # None /\ objects[o] = op[o].obj /\ op[o].obj # None
      /\ op[o].obj.kit = k /\ op[o].kind \in {"commit", "save"}
      /\ op[o].obj.gen = n + 1 /\ op[o].obj.parent = HeadOf(k) /\ op[o].obj \in VaultObject
  <2>1. ObjectOf(o) /\ objects[o] \in VaultObject \cup {None}
    BY <1>1 DEF ServerInv, VaultTypeOK
  <2>2. /\ objects[o] # None /\ objects[o].parent = HeadOf(k) /\ objects[o].gen = n + 1
    BY <1>1 DEF MayFollow
  <2>3. objects[o] = op[o].obj
    BY <2>1, <2>2 DEF ObjectOf
  <2> QED BY <2>1, <2>2, <2>3 DEF ObjectOf
<1>7. op[o].kind = "commit" => op[o].obj = Object(k, 1, None, {})
  BY <1>6 DEF ServerInv, ObjectOf
<1>8. op[o].kind = "save" =>
        /\ op[o].obj.parent \in PublishedIn(k)
        /\ op[o].obj.snap = objects[op[o].obj.parent].snap \cup {o}
  BY <1>6 DEF ServerInv, ObjectOf
<1>9. op[o].kind = "commit" => history[k] = <<>> /\ op[o].obj.snap = {}
  <2>1. op[o].kind = "commit" => n = 0
    BY <1>1, <1>6, <1>7 DEF Object
  <2> QED BY <1>1, <1>7, <2>1 DEF Object
<1>10. op[o].kind = "save" =>
         /\ n > 0 /\ history[k] # <<>>
         /\ op[o].obj.snap = objects[history[k][n]].snap \cup {o}
  <2> SUFFICES ASSUME op[o].kind = "save"
               PROVE  /\ n > 0 /\ history[k] # <<>>
                      /\ op[o].obj.snap = objects[history[k][n]].snap \cup {o}
    OBVIOUS
  <2>1. n > 0 /\ history[k] # <<>>
    BY <1>1, <1>8 DEF PublishedIn
  <2>2. HeadOf(k) = history[k][n]
    BY <1>1, <2>1 DEF HeadOf, Last
  <2> QED BY <1>6, <1>8, <2>1, <2>2
<1>11. \A p \in Ops : MayBePublished(p) \/ p = o => SameIdentity(op'[p], op[p])
  BY DEF MayBePublished, OpsKept
<1>12. ASSUME NEW j \in Kits PROVE HistoryOf(j)'
  <2>1. ASSUME NEW g \in 1..Len(history[j]) PROVE GenerationOf(j, g)'
    <3>1. history[j][g] \in PublishedIn(j)
      BY DEF PublishedIn
    <3>2. history[j][g] \in Ops => op'[history[j][g]].kit = op[history[j][g]].kit
      BY <1>11, <3>1 DEF ServerInv, NotYetPublished, SameIdentity
    <3>3. GenerationOf(j, g) /\ g \in Nat /\ \A h \in 1..g : h \in 1..Len(history[j])
      BY DEF ServerInv, HistoryOf, VaultTypeOK
    <3>4. \A h \in 1..Len(history[j]) : history'[j][h] = history[j][h]
      BY <1>4 DEF ServerGrows
    <3> QED BY <3>2, <3>3, <3>4, GenerationStays
  <2>2. CASE j # k
    BY <1>2, <2>1, <2>2 DEF HistoryOf
  <2>3. CASE j = k
    <3>1. GenerationOf(k, n + 1)'
      <4>1. op'[o].kit = k
        BY <1>11 DEF SameIdentity
      <4>2. CASE op[o].kind = "commit"
        <5>1. objects[o].snap = {}
          BY <1>6, <1>7, <4>2 DEF Object
        <5> QED BY <1>3, <1>6, <4>1, <5>1 DEF GenerationOf
      <4>3. CASE op[o].kind = "save"
        <5>1. GenerationOf(k, n) /\ n \in 1..n
          BY <1>1, <1>10, <4>3 DEF ServerInv, HistoryOf
        <5>2. \A h \in 1..n : h \in 1..(n + 1) /\ history'[k][h] = history[k][h]
          BY <1>1, <1>3
        <5>3. \A e \in objects[history[k][n]].snap : \E h \in 1..n : history[k][h] = e
          BY <5>1 DEF GenerationOf
        <5>4. \A e \in objects[history[k][n]].snap : \E h \in 1..(n + 1) : history'[k][h] = e
          BY <5>2, <5>3
        <5>5. \E h \in 1..(n + 1) : history'[k][h] = o
          BY <1>1, <1>3
        <5>6. objects[o].snap = objects[history[k][n]].snap \cup {o}
          BY <1>6, <1>10, <4>3
        <5>7. \A e \in objects[o].snap : \E h \in 1..(n + 1) : history'[k][h] = e
          BY <5>4, <5>5, <5>6
        <5>8. n + 1 # 1
          BY <1>1, <1>10, <4>3
        <5> QED BY <1>3, <1>6, <4>1, <5>7, <5>8 DEF GenerationOf
      <4> QED BY <1>6, <4>2, <4>3
    <3>2. \A g \in 1..(n + 1) : g \in 1..n \/ g = n + 1
      BY <1>1
    <3>3. \A g \in 1..n : GenerationOf(k, g)'
      BY <1>1, <2>1, <2>3
    <3>4. \A g \in 1..(n + 1) : GenerationOf(k, g)'
      BY <3>1, <3>2, <3>3
    <3> QED BY <1>3, <2>3, <3>4 DEF HistoryOf
  <2> QED BY <2>2, <2>3
<1>13. ASSUME NEW p \in Ops PROVE ObjectOf(p)' /\ NotYetPublished(p)'
  <2>1. ObjectOf(p) /\ StepsFollow(p) /\ NotYetPublished(p) /\ op'[p].obj = op[p].obj
    BY DEF ServerInv, ObjKept
  <2>2. op[p].obj # None => SameIdentity(op'[p], op[p])
    BY <2>1 DEF StepsFollow, NoOp, OpsKept
  <2>3. op[p].kind \in {"commit", "save"} => op[p].kit \in Kits
    BY <2>1 DEF StepsFollow
  <2>9. \A j \in Kits : PublishedIn(j) \subseteq PublishedIn(j)'
    BY <1>5
  <2>4. ObjectOf(p)'
    <3>1. CASE op[p].obj = None
      BY <2>1, <3>1 DEF ObjectOf
    <3>2. CASE op[p].obj # None
      <4>1. op'[p].kind = op[p].kind /\ op'[p].kit = op[p].kit /\ op[p].kit \in Kits
        BY <2>1, <2>2, <2>3, <3>2 DEF ObjectOf, SameIdentity
      <4> QED BY <2>1, <2>9, <3>2, <4>1 DEF ObjectOf
    <3> QED BY <3>1, <3>2
  <2>5. op[p].kind \in {"commit", "unlock", "save"} => op'[p].kind = op[p].kind
    BY <2>1 DEF StepsFollow, NoOp, OpsKept, SameIdentity
  <2>6. (\E j \in Kits : p \in PublishedIn(j)') => MayBePublished(p)'
    <3>1. \A j \in Kits : p \in PublishedIn(j)' => p \in PublishedIn(j) \/ p = o
      BY <1>5
    <3> QED BY <2>1, <3>1 DEF NotYetPublished, OpsKept
  <2>7. ASSUME NEW request \in {"bootstrap", "register", "upload", "publish"}, <<p, request>> \in late'
        PROVE  /\ request = "publish" => MayBePublished(p)'
               /\ request = "upload" => op[p].obj # None
               /\ op'[p].kind \in {"commit", "unlock", "save"}
    BY <2>1, <2>5, <2>7 DEF NotYetPublished, LateKept, OpsKept
  <2>8. NotYetPublished(p)'
    BY <2>6, <2>7 DEF NotYetPublished, ObjKept
  <2> QED BY <2>4, <2>8
<1>14. ServerInv'
  BY <1>12, <1>13 DEF ServerInv
<1>15. op[o].obj.gen = Len(history'[k])
  BY <1>3, <1>6
<1>16. op[o].kind = "save" =>
         /\ history[k] # <<>>
         /\ op[o].obj.snap = objects[history[k][Len(history[k])]].snap \cup {o}
  BY <1>1, <1>10
<1> QED BY <1>2, <1>4, <1>5, <1>6, <1>9, <1>14, <1>15, <1>16

----------------------------------------------------------------------------
(* Carrying the invariant of the devices over a step *)

StoreTypeOK ==
    /\ made \in SUBSET Kits /\ booted \in SUBSET Kits
    /\ history \in [Kits -> Seq(Ids)]
    /\ objects \in [Ids -> VaultObject \cup {None}]
ClientTypeOK ==
    /\ ctx \in [Devices -> Context]
    /\ keys \in [Devices -> [Kits -> Signers \cup {None}]]
    /\ sess \in [Signers -> Session \cup {None}]
    /\ op \in [Ops -> Operation]
ClientInv == ClientTypeOK /\ (\A o \in Ops : StepsFollow(o)) /\ SessionsInv /\ ContextInv

BusyOf(d) ==
    ctx[d].phase \in DOMAIN Waits =>
        \E o \in Ops : /\ op[o].dev = d /\ Busy(o) /\ Current(o)
                       /\ op[o].kind = Waits[ctx[d].phase]

\* Only an operation with the turn counts as current.
LEMMA CurrentIs ==
  ASSUME VaultInv, NEW o \in Ops PROVE Current(o) <=> op[o].cur
  BY DEF VaultInv, ContextInv, CurrentOf, Current

\* History that grows keeps what devices show as published.
LEMMA Grown ==
  ASSUME VaultInv, history' = history, objects' = objects
  PROVE  ServerGrows /\ \A k \in Kits : PublishedIn(k)' = PublishedIn(k)
  BY DEF VaultInv, VaultTypeOK, ServerGrows, PublishedIn

\* A device that keeps what it shows shows it rightly.
LEMMA OpenStays ==
  ASSUME VaultInv, ServerGrows, NEW d \in Devices,
         ctx'[d].phase = ctx[d].phase, ctx'[d].open = ctx[d].open, ctx'[d].unl = ctx[d].unl,
         ctx'[d].sel = ctx[d].sel, ctx'[d].code = ctx[d].code, ctx'[d].kit = ctx[d].kit,
         ctx'[d].acked = ctx[d].acked
  PROVE  OpenOf(d)'
<1>1. OpenOf(d) /\ ctx[d] \in Context
  BY DEF VaultInv, VaultTypeOK, ContextInv
<1> PICK u \in VaultRef \cup {None} : u = ctx[d].unl
  BY <1>1 DEF Context
<1>2. u # None /\ IsPublished(u) => IsPublished(u)'
  BY PublishedStays DEF VaultInv
<1>3. u = ctx'[d].unl
  OBVIOUS
<1> QED BY <1>1, <1>2, <1>3 DEF OpenOf

\* The devices that do not take the step see none of it.
LEMMA OtherDevices ==
  ASSUME VaultInv, ServerGrows, NEW d \in Devices,
         \A e \in Devices : e # d => ctx'[e] = ctx[e],
         \A p \in Ops : \/ op'[p] = op[p] /\ op[p].dev # d
                        \/ op'[p].dev = d /\ op[p].dev \in {d, None},
         \A p \in Ops : op'[p].dev = d => CurrentOf(p)',
         OpenOf(d)', BusyOf(d)'
  PROVE  ContextInv'
<1>1. ASSUME NEW p \in Ops PROVE CurrentOf(p)'
  <2>1. CASE op'[p].dev = d
    BY <2>1
  <2>2. CASE op'[p].dev # d
    <3>1. op'[p] = op[p] /\ op[p].dev # d /\ CurrentOf(p) /\ StepsFollow(p)
      BY <2>2 DEF VaultInv, ContextInv
    <3>2. op[p].cur => op[p].dev \in Devices /\ ctx'[op[p].dev] = ctx[op[p].dev]
      BY <3>1 DEF StepsFollow, CurrentOf, Busy
    <3>3. \A q \in Ops : op'[q].cur /\ op'[q].dev = op'[p].dev => op[q].cur /\ op[q].dev = op[p].dev
      BY <2>2, <3>1
    <3> QED BY <3>1, <3>2, <3>3 DEF CurrentOf, Busy, Signalled
  <2> QED BY <2>1, <2>2
<1>2. ASSUME NEW e \in Devices PROVE OpenOf(e)'
  <2>1. CASE e = d
    BY <2>1
  <2>2. CASE e # d
    BY <2>2, OpenStays
  <2> QED BY <2>1, <2>2
<1>3. ASSUME NEW e \in Devices PROVE BusyOf(e)'
  <2>1. CASE e = d
    BY <2>1
  <2>2. CASE e # d
    <3>1. BusyOf(e) /\ ctx'[e] = ctx[e]
      BY <2>2 DEF VaultInv, ContextInv, BusyPhaseEnds, BusyOf
    <3>2. \A p \in Ops : op[p].dev = e => op'[p] = op[p]
      BY <2>2, Names
    <3> QED BY <3>1, <3>2 DEF BusyOf, Busy, Current, Signalled
  <2> QED BY <2>1, <2>2
<1> QED BY <1>1, <1>2, <1>3 DEF ContextInv, BusyPhaseEnds, BusyOf


\* The device waits for nothing any more.
LEMMA ContextQuiet ==
  ASSUME VaultInv, ServerGrows, NEW d \in Devices,
         \A e \in Devices : e # d => ctx'[e] = ctx[e],
         \A p \in Ops : \/ op'[p] = op[p] /\ op[p].dev # d
                        \/ op'[p].dev = d /\ op[p].dev \in {d, None},
         \A p \in Ops : op'[p].dev = d => ~op'[p].cur,
         ctx'[d].phase \notin DOMAIN Waits, OpenOf(d)'
  PROVE  ContextInv'
<1>1. BusyOf(d)' /\ \A p \in Ops : op'[p].dev = d => CurrentOf(p)'
  BY DEF BusyOf, CurrentOf
<1> QED BY <1>1, OtherDevices

\* The one operation the context waited for ends.
LEMMA ContextAnswered ==
  ASSUME VaultInv, ServerGrows, NEW o \in Ops, Busy(o), op[o].cur, OthersStay(o),
         SameIdentity(op'[o], op[o]), ~op'[o].cur, NEW d \in Devices, d = op[o].dev,
         \A e \in Devices : e # d => ctx'[e] = ctx[e],
         ctx'[d].phase \notin DOMAIN Waits, OpenOf(d)'
  PROVE  ContextInv'
<1>1. op'[o].dev = d /\ \A p \in Ops : p # o => op'[p] = op[p]
  BY DEF SameIdentity, OthersStay
<1>2. \A p \in Ops : op'[p].dev = d => ~op'[p].cur
  <2>1. CurrentOf(o)
    BY DEF VaultInv, ContextInv
  <2> QED BY <1>1, <2>1 DEF CurrentOf
<1>3. \A p \in Ops : \/ op'[p] = op[p] /\ op[p].dev # d
                     \/ op'[p].dev = d /\ op[p].dev \in {d, None}
  BY <1>1
<1> QED BY <1>2, <1>3, ContextQuiet

\* An operation the context no longer waits for ends or goes on.
LEMMA ContextLeft ==
  ASSUME VaultInv, ServerGrows, NEW o \in Ops, Busy(o), ~op[o].cur, OthersStay(o),
         SameIdentity(op'[o], op[o]), ~op'[o].cur,
         \A e \in Devices : e # op[o].dev => ctx'[e] = ctx[e],
         \/ ctx'[op[o].dev] = ctx[op[o].dev]
         \/ ctx[op[o].dev].owner = o /\ ctx'[op[o].dev] = [ctx[op[o].dev] EXCEPT !.owner = 0]
  PROVE  ContextInv'
<1> PICK d \in Devices : d = op[o].dev
  BY DEF VaultInv, StepsFollow, Busy
<1>0. ctx[d] \in Context
  BY DEF VaultInv, VaultTypeOK
<1>1. op'[o].dev = d /\ \A p \in Ops : p # o => op'[p] = op[p]
  BY DEF SameIdentity, OthersStay
<1>2. /\ ctx'[d].phase = ctx[d].phase /\ ctx'[d].open = ctx[d].open /\ ctx'[d].unl = ctx[d].unl
      /\ ctx'[d].sel = ctx[d].sel /\ ctx'[d].code = ctx[d].code /\ ctx'[d].kit = ctx[d].kit
      /\ ctx'[d].acked = ctx[d].acked /\ (ctx[d].owner # o => ctx'[d].owner = ctx[d].owner)
  BY <1>0 DEF Context
<1>3. ASSUME NEW p \in Ops, op'[p].dev = d PROVE CurrentOf(p)'
  <2>1. CASE p = o
    BY <2>1 DEF CurrentOf
  <2>2. CASE p # o
    <3>1. CurrentOf(p) /\ op'[p] = op[p] /\ op[p].dev = d
      BY <1>1, <1>3, <2>2 DEF VaultInv, ContextInv
    <3>2. \A q \in Ops : op'[q].cur /\ op'[q].dev = d => op[q].cur /\ op[q].dev = d
      BY <1>1
    <3> QED BY <1>2, <2>2, <3>1, <3>2 DEF CurrentOf, Busy, Signalled
  <2> QED BY <2>1, <2>2
<1>4. BusyOf(d)'
  <2> SUFFICES ASSUME ctx'[d].phase \in DOMAIN Waits
               PROVE \E p \in Ops : (/\ op[p].dev = d /\ Busy(p) /\ Current(p)
                                     /\ op[p].kind = Waits[ctx[d].phase])'
    BY DEF BusyOf
  <2>1. BusyOf(d)
    BY DEF VaultInv, ContextInv, BusyPhaseEnds, BusyOf
  <2>2. PICK p \in Ops : op[p].dev = d /\ Busy(p) /\ Current(p) /\ op[p].kind = Waits[ctx[d].phase]
    BY <1>2, <2>1 DEF BusyOf
  <2>3. p # o /\ op'[p] = op[p]
    BY <1>1, <2>2 DEF Current
  <2>4. Busy(p)' /\ (Signalled(p)' <=> Signalled(p))
    BY <2>2, <2>3 DEF Busy, Signalled
  <2>5. Current(p)'
    <3>1. op[p].cur /\ (Signalled(p) => op[p].live /\ ctx[d].owner = p)
      BY <2>2 DEF Current
    <3>2. ctx[d].owner = p => ctx'[d].owner = p
      BY <1>2, <2>3
    <3> QED BY <2>2, <2>3, <2>4, <3>1, <3>2 DEF Current
  <2> QED BY <1>2, <2>2, <2>3, <2>4, <2>5
<1>5. OpenOf(d)'
  BY <1>2, OpenStays
<1>6. \A e \in Devices : e # d => ctx'[e] = ctx[e]
  OBVIOUS
<1>7. \A p \in Ops : \/ op'[p] = op[p] /\ op[p].dev # d
                     \/ op'[p].dev = d /\ op[p].dev \in {d, None}
  BY <1>1
<1> QED BY <1>3, <1>4, <1>5, <1>6, <1>7, OtherDevices

\* An operation goes on to its next request.
LEMMA ContextGoesOn ==
  ASSUME VaultInv, ServerGrows, NEW o \in Ops, Busy(o), Busy(o)', OthersStay(o),
         SameIdentity(op'[o], op[o]), SameTurn(op'[o], op[o]), ctx' = ctx
  PROVE  ContextInv'
<1> PICK d \in Devices : d = op[o].dev
  BY DEF VaultInv, StepsFollow, Busy
<1>1. op'[o].dev = d /\ \A p \in Ops : p # o => op'[p] = op[p]
  BY DEF SameIdentity, OthersStay
<1>2. \A p \in Ops : SameIdentity(op'[p], op[p]) /\ SameTurn(op'[p], op[p])
                     /\ (Busy(p) => Busy(p)')
  BY <1>1 DEF SameIdentity, SameTurn, Busy
<1>3. ASSUME NEW p \in Ops, op'[p].dev = d PROVE CurrentOf(p)'
  <2>1. CurrentOf(p)
    BY DEF VaultInv, ContextInv
  <2> QED BY <1>2, <2>1 DEF CurrentOf, Signalled, SameIdentity, SameTurn
<1>4. BusyOf(d)'
  <2>1. BusyOf(d)
    BY DEF VaultInv, ContextInv, BusyPhaseEnds, BusyOf
  <2> QED BY <1>2, <2>1 DEF BusyOf, Current, Signalled, SameIdentity, SameTurn
<1>5. OpenOf(d)'
  BY OpenStays
<1>6. \A e \in Devices : e # d => ctx'[e] = ctx[e]
  OBVIOUS
<1>7. \A p \in Ops : \/ op'[p] = op[p] /\ op[p].dev # d
                     \/ op'[p].dev = d /\ op[p].dev \in {d, None}
  BY <1>1
<1> QED BY <1>3, <1>4, <1>5, <1>6, <1>7, OtherDevices

\* A new operation is what the context waits for now.
LEMMA ContextStarts ==
  ASSUME VaultInv, ServerGrows, NEW d \in Devices, NEW o \in Ops, NEW new \in Operation,
         op[o].at = "none", Start(d, o, new), op' \in [Ops -> Operation],
         new.dev = d, new.at \notin {"none", "done"}, new.cur, new.live,
         \A e \in Devices : e # d => ctx'[e] = ctx[e],
         ctx'[d].phase \in DOMAIN Waits, Waits[ctx'[d].phase] = new.kind,
         new.kind \in {"commit", "save"} => ctx'[d].owner = o,
         new.kind = "save" => ctx'[d].open /\ ctx'[d].sel = new.kit,
         OpenOf(d)'
  PROVE  ContextInv'
<1>1. op'[o] = new /\ \A p \in Ops : p # o => op'[p] = Superseded(d)[p]
  BY DEF Start, Superseded
<1>2. op[o].dev = None
  BY DEF VaultInv, StepsFollow, NoOp
<1>3. \A p \in Ops : p # o => /\ op[p].dev # d => op'[p] = op[p]
                              /\ op[p].dev = d => ~op'[p].cur /\ op'[p].dev = d
  BY <1>1, SupersededOps DEF VaultInv, SameIdentity
<1>4. ASSUME NEW p \in Ops, op'[p].dev = d PROVE CurrentOf(p)'
  <2>1. CASE p # o
    BY <1>3, <1>4, <2>1 DEF CurrentOf
  <2>2. CASE p = o
    <3>1. \A q \in Ops : op'[q].cur /\ op'[q].dev = d => q = o
      BY <1>3
    <3> QED BY <1>1, <2>2, <3>1 DEF CurrentOf, Busy, Signalled
  <2> QED BY <2>1, <2>2
<1>5. BusyOf(d)'
  BY <1>1 DEF BusyOf, Busy, Current, Signalled
<1>6. \A p \in Ops : \/ op'[p] = op[p] /\ op[p].dev # d
                     \/ op'[p].dev = d /\ op[p].dev \in {d, None}
  BY <1>1, <1>2, <1>3
<1> QED BY <1>4, <1>5, <1>6, OtherDevices

\* The environment acts: no device takes a step.
LEMMA ContextUntouched ==
  ASSUME VaultInv, ServerGrows, ctx' = ctx, op' = op
  PROVE  ContextInv'
<1>1. ASSUME NEW p \in Ops PROVE CurrentOf(p)'
  BY DEF VaultInv, ContextInv, CurrentOf, Busy, Signalled
<1>2. BusyPhaseEnds'
  BY DEF VaultInv, ContextInv, BusyPhaseEnds, Busy, Current, Signalled
<1>3. ASSUME NEW d \in Devices PROVE OpenOf(d)'
  BY OpenStays
<1> QED BY <1>1, <1>2, <1>3 DEF ContextInv


----------------------------------------------------------------------------
(* Signing sessions *)

\* A save goes on with what it started from, and has a session once sealed.
SaveKept(p) ==
    /\ op[p].kind = "save" /\ op[p].at # "done" /\ op'[p].kit = op[p].kit
    /\ op'[p].base = op[p].base /\ op'[p].sid = op[p].sid
    /\ op'[p].at # "seal" => op[p].at # "seal" \/ op[p].sid # None
OpsHold ==
    \A p \in Ops : /\ op[p].at = "done" => op'[p].at = "done" /\ op'[p].kit = op[p].kit
                   /\ op'[p].kind = "save" /\ op'[p].at # "done" => SaveKept(p) \/ SaveOf(p)'

\* A session goes on naming a published parent while history grows.
LEMMA SessionsCarry ==
  ASSUME VaultInv, ServerGrows, ClientTypeOK', OpsHold,
         \A i \in Signers : SessionOf(i)',
         \A i \in Signers : sess[i] # None => sess'[i] # None /\ sess'[i].kit = sess[i].kit,
         \A d \in Devices, k \in Kits :
            \/ keys'[d][k] \in {keys[d][k], None}
            \/ sess'[keys'[d][k]] # None /\ sess'[keys'[d][k]].kit = k
  PROVE  SessionsInv'
<1>1. ASSUME NEW d \in Devices, NEW k \in Kits PROVE KeyOf(d, k)'
  <2>1. KeyOf(d, k) /\ keys[d][k] \in Signers \cup {None}
    BY DEF VaultInv, VaultTypeOK, SessionsInv
  <2> QED BY <2>1 DEF KeyOf
<1>2. ASSUME NEW p \in Ops PROVE SaveOf(p)'
  <2> SUFFICES ASSUME SaveKept(p), op'[p].kind = "save", op'[p].at # "done" PROVE SaveOf(p)'
    BY DEF OpsHold, SaveOf
  <2>1. SaveOf(p) /\ op[p] \in Operation
    BY DEF VaultInv, VaultTypeOK, SessionsInv
  <2>2. op[p].base \in VaultRef \cup {None} /\ op[p].sid \in Signers \cup {None}
    BY <2>1 DEF Operation
  <2> PICK u \in VaultRef : u = op[p].base
    BY <2>1, <2>2 DEF SaveOf, SaveKept
  <2>3. IsPublished(u)
    BY <2>1 DEF SaveOf, SaveKept
  <2>4. IsPublished(u)'
    BY <2>3, PublishedStays DEF VaultInv
  <2>5. u = op'[p].base /\ u # None /\ u.kit = op'[p].kit
    BY <2>1, Names DEF SaveKept, SaveOf
  <2>6. op'[p].sid # None => /\ op[p].sid \in Signers /\ op'[p].sid = op[p].sid
                             /\ sess'[op'[p].sid] # None /\ sess'[op'[p].sid].kit = op'[p].kit
    BY <2>1, <2>2 DEF SaveKept, SaveOf
  <2>7. op'[p].at # "seal" => op'[p].sid # None
    BY <2>1 DEF SaveKept, SaveOf
  <2> QED BY <2>4, <2>5, <2>6, <2>7 DEF SaveOf
<1> QED BY <1>1, <1>2 DEF SessionsInv

\* In particular one that is not touched.
LEMMA SessionStays ==
  ASSUME VaultInv, ServerGrows, ClientTypeOK', OpsHold, NEW i \in Signers, sess'[i] = sess[i]
  PROVE  SessionOf(i)'
<1>1. SessionOf(i) /\ sess[i] \in Session \cup {None}
  BY DEF VaultInv, VaultTypeOK, SessionsInv
<1>2. sess[i] # None => sess[i].kit \in Kits
  BY <1>1 DEF Session
<1> PICK s \in Session \cup {None} : s = sess[i] /\ s = sess'[i]
  BY <1>1
<1>3. s # None => s.parent \in PublishedIn(s.kit)'
  BY <1>1, <1>2, PublishedStays DEF VaultInv, SessionOf
<1>4. i \in Ops /\ s # None => op'[i].at = "done" /\ op'[i].kit = s.kit
  BY <1>1 DEF SessionOf, OpsHold
<1> QED BY <1>3, <1>4 DEF SessionOf, PublishedIn

\* So all of them do when none is touched.
LEMMA SessionsKept ==
  ASSUME VaultInv, ServerGrows, ClientTypeOK', OpsHold, sess' = sess,
         \A d \in Devices, k \in Kits : keys'[d][k] \in {keys[d][k], None}
  PROVE  SessionsInv'
<1>1. \A i \in Signers : SessionOf(i)'
  BY SessionStays
<1> QED BY <1>1, SessionsCarry

\* A session that is opened names the generation it was opened with.
LEMMA SessionsActivated ==
  ASSUME VaultInv, ServerGrows, NEW o \in Ops, NEW d \in Devices, NEW k \in Kits,
         d = op[o].dev, k = op[o].kit, op[o].at # "done", op'[o].at = "done", op'[o].kit = k,
         NEW parent \in Ids, parent \in PublishedIn(k)', NEW ro \in BOOLEAN,
         Activated(o, parent, ro), OpsHold, op' \in [Ops -> Operation],
         ctx' \in [Devices -> Context]
  PROVE  ClientTypeOK' /\ SessionsInv'
<1> DEFINE s == [kit |-> k, parent |-> parent, ro |-> ro]
<1>1. s \in Session /\ s # None /\ s.kit = k /\ s.parent = parent
  <2>1. s \in Session
    BY DEF Session
  <2> QED BY <2>1, Names
<1>2. sess' = [sess EXCEPT ![o] = s] /\ o \in Signers
  BY DEF Activated, Signers
<1> HIDE DEF s
<1>3. sess' \in [Signers -> Session \cup {None}] /\ sess'[o] = s
      /\ \A i \in Signers : i # o => sess'[i] = sess[i]
  BY <1>1, <1>2 DEF VaultInv, VaultTypeOK
<1>4. /\ keys' \in [Devices -> [Kits -> Signers \cup {None}]]
      /\ \A e \in Devices, j \in Kits : keys'[e][j] = keys[e][j] \/ (j = k /\ keys'[e][j] = o)
  BY <1>2 DEF Activated, VaultInv, VaultTypeOK
<1>5. ClientTypeOK'
  BY <1>3, <1>4 DEF ClientTypeOK
<1>6. sess[o] = None
  BY <1>2 DEF VaultInv, SessionsInv, SessionOf
<1>7. SessionOf(o)'
  BY <1>1, <1>3 DEF SessionOf, PublishedIn
<1>8. \A i \in Signers : SessionOf(i)'
  BY <1>3, <1>5, <1>7, SessionStays
<1>9. \A e \in Devices, j \in Kits :
         \/ keys'[e][j] \in {keys[e][j], None}
         \/ sess'[keys'[e][j]] # None /\ sess'[keys'[e][j]].kit = j
  BY <1>1, <1>3, <1>4
<1>10. \A i \in Signers : sess[i] # None => sess'[i] # None /\ sess'[i].kit = sess[i].kit
  BY <1>3, <1>6
<1> QED BY <1>5, <1>8, <1>9, <1>10, SessionsCarry

\* After a save its session names what the save has published.
LEMMA SessionsMovedOn ==
  ASSUME VaultInv, ServerGrows, NEW o \in Ops, NEW k \in Kits, k = op[o].kit,
         NEW i \in Signers, sess[i] # None, sess[i].kit = k, o \in PublishedIn(k)',
         sess' = [sess EXCEPT ![i].parent = o], keys' = keys, OpsHold,
         op' \in [Ops -> Operation], ctx' \in [Devices -> Context]
  PROVE  ClientTypeOK' /\ SessionsInv'
<1> DEFINE s == [sess[i] EXCEPT !.parent = o]
<1>1. sess[i] \in Session /\ o \in Ids
  BY DEF VaultInv, VaultTypeOK, Ids
<1>2. s \in Session /\ s # None /\ s.kit = k /\ s.parent = o
  <2>1. s \in Session /\ s.kit = k /\ s.parent = o
    BY <1>1 DEF Session
  <2> QED BY <2>1, Names
<1>3. sess' = [sess EXCEPT ![i] = s]
  BY DEF VaultInv, VaultTypeOK
<1> HIDE DEF s
<1>4. sess' \in [Signers -> Session \cup {None}] /\ sess'[i] = s
      /\ \A j \in Signers : j # i => sess'[j] = sess[j]
  BY <1>2, <1>3 DEF VaultInv, VaultTypeOK
<1>5. ClientTypeOK'
  BY <1>4 DEF ClientTypeOK, VaultInv, VaultTypeOK
<1>6. SessionOf(i)'
  <2>1. SessionOf(i)
    BY DEF VaultInv, SessionsInv
  <2> QED BY <1>2, <1>4, <2>1 DEF SessionOf, PublishedIn, OpsHold
<1>7. \A j \in Signers : SessionOf(j)'
  BY <1>4, <1>5, <1>6, SessionStays
<1>8. \A j \in Signers : sess[j] # None => sess'[j] # None /\ sess'[j].kit = sess[j].kit
  BY <1>2, <1>4
<1>9. \A e \in Devices, j \in Kits : keys'[e][j] \in {keys[e][j], None}
  OBVIOUS
<1> QED BY <1>5, <1>7, <1>8, <1>9, SessionsCarry


----------------------------------------------------------------------------
(* How an operation ends *)

SameView(c, e) ==
    /\ c.phase = e.phase /\ c.code = e.code /\ c.sel = e.sel /\ c.unl = e.unl
    /\ c.open = e.open /\ c.kit = e.kit /\ c.acked = e.acked

\* Only the context of the operation's device changes, whoever owns it.
LEMMA ToContextIs ==
  ASSUME VaultInv, NEW o \in Ops, NEW d \in Devices, d = op[o].dev, NEW c \in Context, ToContext(o, c)
  PROVE  /\ ctx' \in [Devices -> Context] /\ \A e \in Devices : e # d => ctx'[e] = ctx[e]
         /\ ctx'[d] = c \/ (c.owner = o /\ ctx'[d] = [c EXCEPT !.owner = 0])
         /\ SameView(ctx'[d], c)
<1> DEFINE freed == [c EXCEPT !.owner = 0]
<1>1. freed \in Context /\ SameView(freed, c) /\ SameView(c, c)
  BY DEF Context, SameView
<1>2. ctx' = [ctx EXCEPT ![d] = c] \/ (c.owner = o /\ ctx' = [ctx EXCEPT ![d] = freed])
  BY DEF ToContext
<1> HIDE DEF freed
<1>3. /\ ctx' \in [Devices -> Context] /\ \A e \in Devices : e # d => ctx'[e] = ctx[e]
      /\ ctx'[d] = c \/ (c.owner = o /\ ctx'[d] = freed)
  BY <1>1, <1>2 DEF VaultInv, VaultTypeOK
<1> QED BY <1>1, <1>3 DEF freed

\* One operation moves on, or ends.
LEMMA MovedOn ==
  ASSUME VaultInv, NEW o \in Ops, Busy(o), op' \in [Ops -> Operation], OthersStay(o),
         SameIdentity(op'[o], op[o]), op'[o].at # "none",
         op'[o].at = "done" \/ SameHold(op'[o], op[o]),
         op'[o].at # "done" /\ op[o].at = "seal" /\ op[o].kind = "save" => op[o].sid # None,
         MayBePublished(o) => MayBePublished(o)'
  PROVE  OpsHold /\ OpsKept
<1>1. \A p \in Ops : p # o => op'[p] = op[p]
  BY DEF OthersStay
<1>2. OpsKept
  BY <1>1 DEF OpsKept, MayBePublished, SameIdentity
<1>3. ASSUME NEW p \in Ops, op[p].at = "done" PROVE op'[p].at = "done" /\ op'[p].kit = op[p].kit
  BY <1>1, <1>3 DEF Busy
<1>4. ASSUME NEW p \in Ops, op'[p].kind = "save", op'[p].at # "done" PROVE SaveKept(p)
  <2>1. SaveOf(p)
    BY DEF VaultInv, SessionsInv
  <2>2. CASE p # o
    BY <1>1, <1>4, <2>1, <2>2 DEF SaveKept, SaveOf
  <2>3. CASE p = o
    <3>1. op[o].kind = "save" /\ op[o].at # "done" /\ op'[o].kit = op[o].kit /\ SameHold(op'[o], op[o])
      BY <1>4, <2>3 DEF SameIdentity, Busy
    <3> QED BY <1>4, <2>3, <3>1 DEF SaveKept, SameHold
  <2> QED BY <2>2, <2>3
<1>5. OpsHold
  BY <1>3, <1>4 DEF OpsHold
<1> QED BY <1>2, <1>5

\* An operation that is done keeps all of the devices' invariant but its own context.
LEMMA DoneIs ==
  ASSUME VaultInv, NEW o \in Ops, Busy(o), Done(o)
  PROVE  /\ OpsHold /\ OpsKept /\ ObjKept /\ OthersStay(o) /\ SameIdentity(op'[o], op[o])
         /\ op' \in [Ops -> Operation] /\ op'[o].at = "done" /\ ~op'[o].cur
         /\ \A p \in Ops : StepsFollow(p)'
<1>1. /\ op' \in [Ops -> Operation] /\ OthersStay(o)
      /\ op'[o].at = "done" /\ op'[o].obj = op[o].obj /\ ~op'[o].cur /\ ~op'[o].live
      /\ SameIdentity(op'[o], op[o])
  BY Ended DEF VaultInv
<1>2. OpsHold /\ OpsKept
  BY <1>1, MovedOn DEF MayBePublished
<1>3. ObjKept
  BY <1>1 DEF ObjKept, OthersStay
<1>4. ASSUME NEW p \in Ops PROVE StepsFollow(p)'
  <2>1. StepsFollow(p)
    BY DEF VaultInv
  <2>2. CASE p # o
    BY <1>1, <2>1, <2>2 DEF OthersStay, StepsFollow
  <2>3. CASE p = o
    BY <1>1, <2>1, <2>3 DEF StepsFollow, SameIdentity, Busy, Before, Sending
  <2> QED BY <2>2, <2>3
<1> QED BY <1>1, <1>2, <1>3, <1>4

\* The context of an operation it no longer waits for.
LEMMA EndedUnheard ==
  ASSUME VaultInv, ServerGrows, NEW o \in Ops, Busy(o), Done(o), ~Current(o),
         NEW d \in Devices, d = op[o].dev, ToContext(o, ctx[d])
  PROVE  ctx' \in [Devices -> Context] /\ ContextInv'
<1>1. ctx[d] \in Context
  BY DEF VaultInv, VaultTypeOK
<1>2. /\ ctx' \in [Devices -> Context] /\ \A e \in Devices : e # d => ctx'[e] = ctx[e]
      /\ ctx'[d] = ctx[d] \/ (ctx[d].owner = o /\ ctx'[d] = [ctx[d] EXCEPT !.owner = 0])
  BY <1>1, ToContextIs
<1>3. ~op[o].cur
  BY CurrentIs
<1>4. OthersStay(o) /\ SameIdentity(op'[o], op[o]) /\ ~op'[o].cur
  BY DoneIs
<1> QED BY <1>2, <1>3, <1>4, ContextLeft

\* An operation that fails shows an error, or nothing when it was superseded.
LEMMA FailedKeeps ==
  ASSUME VaultInv, ServerGrows, NEW o \in Ops, Busy(o), op[o].kind \in {"commit", "unlock", "save"},
         NEW told, Failed(o, told)
  PROVE  ClientInv' /\ OpsKept /\ ObjKept /\ op'[o].at = "done"
<1> PICK d \in Devices : d = op[o].dev
  BY DEF VaultInv, StepsFollow, Busy
<1>1. /\ OpsHold /\ OpsKept /\ ObjKept /\ OthersStay(o) /\ SameIdentity(op'[o], op[o])
      /\ op' \in [Ops -> Operation] /\ op'[o].at = "done" /\ ~op'[o].cur
      /\ \A p \in Ops : StepsFollow(p)'
  BY DoneIs DEF Failed
<1>2. ctx' \in [Devices -> Context] /\ ContextInv'
  <2>1. CASE ~Current(o)
    BY <2>1, EndedUnheard DEF Failed
  <2>2. CASE Current(o)
    <3> DEFINE c == [ctx[d] EXCEPT !.phase = PhaseAfter[op[o].kind],
                                   !.code = IF op[o].kind = "save" THEN @ ELSE None]
    <3>1. ToContext(o, c)
      BY <2>2 DEF Failed
    <3>2. ctx[d] \in Context /\ OpenOf(d) /\ CurrentOf(o) /\ op[o].cur
      BY <2>2 DEF VaultInv, VaultTypeOK, ContextInv, Current
    <3>3. PhaseAfter[op[o].kind] \in Phases \ DOMAIN Waits
      BY DEF PhaseAfter, Waits, Phases
    <3>4. c \in Context
      BY <3>2, <3>3, ZenonT(60) DEF Context
    <3>5. /\ c.phase = PhaseAfter[op[o].kind] /\ c.open = ctx[d].open /\ c.unl = ctx[d].unl
          /\ c.sel = ctx[d].sel /\ c.kit = ctx[d].kit /\ c.acked = ctx[d].acked
          /\ c.code = IF op[o].kind = "save" THEN ctx[d].code ELSE None
      BY <3>2 DEF Context
    <3> HIDE DEF c
    <3>6. /\ ctx' \in [Devices -> Context] /\ \A e \in Devices : e # d => ctx'[e] = ctx[e]
          /\ SameView(ctx'[d], c)
      <4> PICK x \in Context : x = c
        BY <3>4
      <4>1. ToContext(o, x)
        BY <3>1
      <4>2. ctx' \in [Devices -> Context]
        BY <4>1, ToContextIs
      <4>3. \A e \in Devices : e # d => ctx'[e] = ctx[e]
        BY <4>1 DEF ToContext
      <4>4. SameView(ctx'[d], x)
        BY <4>1, ToContextIs
      <4> QED BY <4>2, <4>3, <4>4
    <3>7. OpenOf(d)'
      <4>1. CASE op[o].kind = "save"
        <5>1. ctx[d].open /\ ctx[d].phase \in {"UNLOCKED", "SAVING"}
          BY <3>2, <4>1 DEF CurrentOf, OpenOf
        <5>2. ctx'[d].phase = "UNLOCKED" /\ ctx'[d].open
          BY <3>5, <3>6, <4>1, <5>1 DEF SameView, PhaseAfter
        <5> PICK u \in VaultRef : u = ctx[d].unl
          BY <3>2, <5>1 DEF OpenOf, Context
        <5>3. u = ctx'[d].unl /\ IsPublished(u)'
          <6>1. IsPublished(u)
            BY <3>2, <5>1 DEF OpenOf
          <6> QED BY <3>5, <3>6, <6>1, PublishedStays DEF SameView, VaultInv
        <5> QED BY <3>2, <3>5, <3>6, <4>1, <5>1, <5>2, <5>3, SMTT(40) DEF OpenOf, SameView
      <4>2. CASE op[o].kind # "save"
        <5>1. ~ctx[d].open
          BY <3>2, <4>2 DEF CurrentOf, OpenOf, Waits
        <5> QED BY <3>2, <3>5, <3>6, <4>2, <5>1 DEF OpenOf, SameView
      <4> QED BY <4>1, <4>2
    <3>8. ctx'[d].phase \notin DOMAIN Waits
      BY <3>3, <3>5, <3>6 DEF SameView
    <3> QED BY <1>1, <3>2, <3>6, <3>7, <3>8, ContextAnswered
  <2> QED BY <2>1, <2>2
<1>3. ClientTypeOK'
  BY <1>1, <1>2 DEF ClientTypeOK, Failed, VaultInv, VaultTypeOK
<1>4. SessionsInv'
  <2>1. sess' = sess /\ \A e \in Devices, j \in Kits : keys'[e][j] \in {keys[e][j], None}
    BY DEF Failed
  <2> QED BY <1>1, <1>3, <2>1, SessionsKept
<1> QED BY <1>1, <1>2, <1>3, <1>4 DEF ClientInv


\* A published object is the generation it says it is.
LEMMA PublishedRef ==
  ASSUME ServerInv', StoreTypeOK', NEW k \in Kits, NEW id \in Ids, id \in PublishedIn(k)',
         NEW x \in VaultObject, x = objects'[id], NEW ro \in BOOLEAN,
         NEW u, u = Ref(k, x.gen, x.snap, ro)
  PROVE  u \in VaultRef /\ u.kit = k /\ IsPublished(u)'
<1>1. u \in VaultRef /\ u.kit = k /\ u.gen = x.gen /\ u.snap = x.snap
  BY DEF Ref, VaultRef, VaultObject
<1>2. PICK g \in 1..Len(history'[k]) : history'[k][g] = id
  BY DEF PublishedIn
<1>3. x.gen = g
  BY <1>2 DEF ServerInv, HistoryOf, GenerationOf
<1> QED BY <1>1, <1>2, <1>3 DEF IsPublished

\* An unlock shows a published generation, or nothing when it was superseded.
LEMMA UnlockedKeeps ==
  ASSUME VaultInv, ServerGrows, ServerInv', StoreTypeOK', NEW o \in Ops, Busy(o),
         op[o].kind \in {"commit", "unlock"}, Done(o), NEW k \in Kits, k = op[o].kit,
         NEW id \in Ids, id \in PublishedIn(k)', NEW x \in VaultObject, x = objects'[id],
         NEW ro \in BOOLEAN, Activated(o, id, ro), NEW u, u = Ref(k, x.gen, x.snap, ro),
         Unlocked(o, u)
  PROVE  ClientInv' /\ OpsKept /\ ObjKept /\ op'[o].at = "done"
<1> PICK d \in Devices : d = op[o].dev
  BY DEF VaultInv, StepsFollow, Busy
<1>1. /\ OpsHold /\ OpsKept /\ ObjKept /\ OthersStay(o) /\ SameIdentity(op'[o], op[o])
      /\ op' \in [Ops -> Operation] /\ op'[o].at = "done" /\ ~op'[o].cur
      /\ \A p \in Ops : StepsFollow(p)'
  BY DoneIs
<1>2. u \in VaultRef /\ u.kit = k /\ IsPublished(u)' /\ u # None
  BY PublishedRef, Names
<1>3. ctx' \in [Devices -> Context] /\ ContextInv'
  <2>1. CASE ~Current(o)
    BY <2>1, EndedUnheard DEF Unlocked
  <2>2. CASE Current(o)
    <3> DEFINE listed == IF op[o].kind = "commit" THEN ctx[d].rows \cup {u.kit} ELSE ctx[d].rows
               c == [ctx[d] EXCEPT !.phase = "UNLOCKED", !.unl = u, !.open = TRUE,
                                   !.code = u.kit, !.sel = u.kit, !.kit = None, !.acked = TRUE,
                                   !.rows = listed]
    <3>1. ctx[d] \in Context /\ op[o].cur
      BY <2>2 DEF VaultInv, VaultTypeOK, Current
    <3>2. ToContext(o, c)
      BY <2>2, <3>1 DEF Unlocked, Context
    <3>3. listed \in SUBSET Kits
      BY <1>2, <3>1 DEF Context
    <3> HIDE DEF listed
    <3>4. c \in Context
      <4> DEFINE half == [ctx[d] EXCEPT !.phase = "UNLOCKED", !.unl = u, !.open = TRUE]
      <4>1. half \in Context
        BY <1>2, <3>1, ZenonT(60) DEF Context, Phases
      <4>2. c = [half EXCEPT !.code = k, !.sel = k, !.kit = None, !.acked = TRUE, !.rows = listed]
        BY <1>2, <3>1 DEF Context
      <4> HIDE DEF half, c
      <4> QED BY <1>2, <3>3, <4>1, <4>2 DEF Context
    <3>5. /\ c.phase = "UNLOCKED" /\ c.open /\ c.unl = u /\ c.sel = k /\ c.kit = None
          /\ c.code = k
      BY <1>2, <3>1 DEF Context
    <3> HIDE DEF c
    <3> PICK z \in Context : z = c
      BY <3>4
    <3>6. ToContext(o, z)
      BY <3>2
    <3>7. /\ ctx' \in [Devices -> Context] /\ SameView(ctx'[d], z)
      BY <3>6, ToContextIs
    <3>8. \A e \in Devices : e # d => ctx'[e] = ctx[e]
      BY <3>6 DEF ToContext
    <3>9. OpenOf(d)'
      BY <1>2, <3>5, <3>7 DEF OpenOf, SameView, IsPublished
    <3>10. ctx'[d].phase \notin DOMAIN Waits
      BY <3>5, <3>7 DEF SameView, Waits
    <3> QED BY <1>1, <3>1, <3>7, <3>8, <3>9, <3>10, ContextAnswered
  <2> QED BY <2>1, <2>2
<1>4. ClientTypeOK' /\ SessionsInv'
  <2>1. op[o].at # "done" /\ op'[o].kit = k
    BY <1>1 DEF Busy, SameIdentity
  <2> QED BY <1>1, <1>3, <2>1, SessionsActivated
<1> QED BY <1>1, <1>3, <1>4 DEF ClientInv

\* A save that is known to be published.
LEMMA SavedKeeps ==
  ASSUME VaultInv, ServerGrows, ServerInv', StoreTypeOK', NEW o \in Ops, Busy(o), Saved(o),
         op[o].kind \in {"commit", "save"}, op[o].at # "seal",
         NEW k \in Kits, k = op[o].kit, o \in PublishedIn(k)',
         NEW x \in VaultObject, x = objects'[o], x = op[o].obj
  PROVE  ClientInv' /\ OpsKept /\ ObjKept /\ op'[o].at = "done"
<1> PICK d \in Devices : d = op[o].dev
  BY DEF VaultInv, StepsFollow, Busy
<1>0. x.kit = k
  BY Names DEF VaultInv, ServerInv, ObjectOf
<1>1. /\ OpsHold /\ OpsKept /\ ObjKept /\ OthersStay(o) /\ SameIdentity(op'[o], op[o])
      /\ op' \in [Ops -> Operation] /\ op'[o].at = "done" /\ ~op'[o].cur
      /\ \A p \in Ops : StepsFollow(p)'
  BY DoneIs DEF Saved
<1> PICK u : u = Ref(k, x.gen, x.snap, FALSE)
  OBVIOUS
<1>2. u \in VaultRef /\ u.kit = k /\ IsPublished(u)' /\ u # None
  <2>1. u \in VaultRef /\ u.kit = k /\ u.gen = x.gen /\ u.snap = x.snap
    BY DEF Ref, VaultRef, VaultObject
  <2>2. IsPublished(u)'
    <3>1. PICK g \in 1..Len(history'[k]) : history'[k][g] = o
      BY DEF PublishedIn
    <3>2. x.gen = g
      <4>1. HistoryOf(k)'
        BY DEF ServerInv
      <4>2. GenerationOf(k, g)'
        BY <3>1, <4>1 DEF HistoryOf
      <4>3. objects'[history'[k][g]].gen = g
        BY <4>2 DEF GenerationOf
      <4> QED BY <3>1, <4>3
    <3> QED BY <2>1, <3>1, <3>2 DEF IsPublished
  <2> QED BY <2>1, <2>2, Names
<1>3. CASE op[o].kind = "commit"
  <2>1. Activated(o, o, FALSE) /\ Unlocked(o, u) /\ Done(o)
    BY <1>0, <1>3 DEF Saved
  <2> QED BY <1>3, <2>1, UnlockedKeeps DEF Ids
<1>4. CASE op[o].kind = "save"
  <2>1. SaveOf(o) /\ op[o] \in Operation /\ CurrentOf(o)
    BY DEF VaultInv, VaultTypeOK, SessionsInv, ContextInv
  <2> PICK i \in Signers : i = op[o].sid /\ sess[i] # None /\ sess[i].kit = k
    BY <1>4, <2>1, Names DEF SaveOf, Busy, Operation
  <2>2. sess' = [sess EXCEPT ![i].parent = o] /\ keys' = keys
    BY <1>4 DEF Saved
  <2>3. ctx' \in [Devices -> Context] /\ ContextInv'
    <3>1. CASE ~Current(o)
      BY <1>4, <3>1, EndedUnheard DEF Saved
    <3>2. CASE Current(o)
      <4> DEFINE c == [ctx[d] EXCEPT !.phase = "UNLOCKED", !.unl = u, !.sel = u.kit, !.open = TRUE]
      <4>1. ctx[d] \in Context /\ op[o].cur /\ OpenOf(d)
        BY <3>2 DEF VaultInv, VaultTypeOK, Current, ContextInv
      <4>2. ToContext(o, c)
        BY <1>0, <1>4, <3>2 DEF Saved
      <4>3. c \in Context
        BY <1>2, <4>1, ZenonT(60) DEF Context, Phases
      <4>4. /\ c.phase = "UNLOCKED" /\ c.open /\ c.unl = u /\ c.sel = k /\ c.kit = ctx[d].kit
            /\ c.code = ctx[d].code /\ c.acked = ctx[d].acked
        BY <1>2, <4>1 DEF Context
      <4> HIDE DEF c
      <4> PICK z \in Context : z = c
        BY <4>3
      <4>5. ToContext(o, z)
        BY <4>2
      <4>6. ctx' \in [Devices -> Context] /\ SameView(ctx'[d], z)
        BY <4>5, ToContextIs
      <4>7. \A e \in Devices : e # d => ctx'[e] = ctx[e]
        BY <4>5 DEF ToContext
      <4>8. ctx[d].code = k
        <5>1. ctx[d].open /\ ctx[d].sel = k
          BY <1>4, <2>1, <4>1 DEF CurrentOf
        <5> QED BY <4>1, <5>1 DEF OpenOf
      <4>9. OpenOf(d)'
        <5>1. /\ ctx'[d].phase = "UNLOCKED" /\ ctx'[d].unl = u /\ ctx'[d].sel = k /\ ctx'[d].code = k
              /\ ctx'[d].open /\ ctx'[d].kit = ctx[d].kit /\ ctx'[d].acked = ctx[d].acked
          BY <4>4, <4>6, <4>8 DEF SameView
        <5>2. ctx[d].kit = None
          BY <1>4, <2>1, <4>1 DEF OpenOf, CurrentOf
        <5> QED BY <1>2, <5>1, <5>2 DEF OpenOf, IsPublished
      <4>10. ctx'[d].phase \notin DOMAIN Waits
        BY <4>4, <4>6 DEF SameView, Waits
      <4> QED BY <1>1, <4>1, <4>6, <4>7, <4>9, <4>10, ContextAnswered
    <3> QED BY <3>1, <3>2
  <2>4. ClientTypeOK' /\ SessionsInv'
    BY <1>1, <2>2, <2>3, SessionsMovedOn
  <2> QED BY <1>1, <2>3, <2>4 DEF ClientInv
<1> QED BY <1>3, <1>4


----------------------------------------------------------------------------
(* What a save was told *)

\* What saves were told stays true while nothing of theirs is published.
LEMMA ToldKept ==
  ASSUME VaultInv, ServerGrows, OpsHold, NEW o \in Ops, o \notin Told("refused"),
         \A p \in Ops : <<p, "publish">> \in late' => <<p, "publish">> \in late \/ p = o,
         \A k \in Kits : PublishedIn(k)' \subseteq PublishedIn(k) \cup {o},
         reported' \subseteq reported \cup {o},
         o \in reported' =>
            \/ o \in reported
            \/ op'[o].at = "done" /\ \E k \in Kits : op'[o].kit = k /\ o \in PublishedIn(k)',
         \A p \in Ops : <<p, "refused">> \in refused' => <<p, "refused">> \in refused \/ p = o,
         <<o, "refused">> \in refused' =>
            /\ op'[o].at = "done" /\ op'[o].kit \in Kits /\ <<o, "publish">> \notin late'
            /\ \A k \in Kits : o \notin PublishedIn(k)'
  PROVE  ToldInv'
<1>1. ASSUME NEW p \in Ops, <<p, "refused">> \in refused'
      PROVE  /\ op'[p].at = "done" /\ op'[p].kit \in Kits /\ <<p, "publish">> \notin late'
             /\ \A k \in Kits : p \notin PublishedIn(k)'
  <2>1. CASE p = o
    BY <1>1, <2>1
  <2>2. CASE p # o
    <3>1. p \in Told("refused")
      BY <1>1, <2>2 DEF Told
    <3>2. /\ op[p].at = "done" /\ op[p].kit \in Kits /\ <<p, "publish">> \notin late
          /\ \A k \in Kits : p \notin PublishedIn(k)
      BY <3>1 DEF VaultInv, ToldInv
    <3>3. op'[p].at = "done" /\ op'[p].kit \in Kits
      BY <3>2 DEF OpsHold
    <3> QED BY <2>2, <3>2, <3>3
  <2> QED BY <2>1, <2>2
<1>2. ASSUME NEW p \in reported'
      PROVE  p \in Ops /\ op'[p].at = "done" /\ \E k \in Kits : op'[p].kit = k /\ p \in PublishedIn(k)'
  <2>1. CASE p \in reported
    <3> PICK k \in Kits : p \in Ops /\ op[p].at = "done" /\ op[p].kit = k /\ p \in PublishedIn(k)
      BY <2>1 DEF VaultInv, ToldInv
    <3>1. p \in PublishedIn(k)'
      BY PublishedStays DEF VaultInv
    <3>2. op'[p].at = "done" /\ op'[p].kit = k
      BY DEF OpsHold
    <3> QED BY <3>1, <3>2
  <2>2. CASE p \notin reported
    BY <2>2
  <2> QED BY <2>1, <2>2
<1>3. \A p \in Told("refused")' : p \in Ops /\ <<p, "refused">> \in refused'
  BY DEF Told
<1>4. \A p \in reported' :
         p \in Ops /\ op'[p].at = "done" /\ op'[p].kit \in Kits /\ (p \in PublishedIn(op[p].kit))'
  BY <1>2 DEF PublishedIn
<1>5. \A p \in Told("refused")' :
         /\ op'[p].at = "done" /\ op'[p].kit \in Kits /\ <<p, "publish">> \notin late'
         /\ \A k \in Kits : p \notin PublishedIn(k)'
  BY <1>1, <1>3
<1> QED BY <1>4, <1>5 DEF ToldInv, PublishedIn

\* Only a save that is done was told anything.
LEMMA NotTold ==
  ASSUME VaultInv, NEW o \in Ops, op[o].at # "done"
  PROVE  o \notin Told("refused") /\ o \notin reported
  BY DEF VaultInv, ToldInv

\* Nothing is published and nobody is told anything.
LEMMA ToldSame ==
  ASSUME VaultInv, OpsHold, NEW o \in Ops, op[o].at # "done",
         history' = history, objects' = objects, reported' = reported, refused' = refused,
         \A p \in Ops : <<p, "publish">> \in late' => <<p, "publish">> \in late \/ p = o
  PROVE  ToldInv'
<1>1. o \notin Told("refused") /\ o \notin reported
  BY NotTold
<1>2. <<o, "refused">> \notin refused
  BY <1>1 DEF Told
<1>3. ServerGrows /\ \A k \in Kits : PublishedIn(k)' = PublishedIn(k)
  BY Grown
<1> QED BY <1>1, <1>2, <1>3, ToldKept

\* The invariant is that of the server, that of the devices and what saves were told.
LEMMA Assembled ==
  ASSUME StoreTypeOK', ClientInv', ServerInv', ToldInv'
  PROVE  VaultInv'
  BY DEF StoreTypeOK, ClientInv, ClientTypeOK, VaultInv, VaultTypeOK

\* Objects on the server are those their operations made.
LEMMA ObjectsAreTheirs ==
  ASSUME VaultInv, NEW p \in Ops, objects[p] # None
  PROVE  objects[p] = op[p].obj
  BY DEF VaultInv, ServerInv, ObjectOf

----------------------------------------------------------------------------
(* One step of an operation *)

\* It fails, and nothing that was sent can publish it after a refusal.
LEMMA FailedInv ==
  ASSUME VaultInv, NEW o \in Ops, Busy(o), op[o].kind \in {"commit", "unlock", "save"},
         NEW told, Failed(o, told), told = "refused" => op[o].at # "confirm",
         UNCHANGED <<made, booted, objects, history>>,
         \A p \in Ops, request \in {"bootstrap", "register", "upload", "publish"} :
            <<p, request>> \in late' => <<p, request>> \in late \/ (p = o /\ request \in {"bootstrap", "register"})
  PROVE  VaultInv'
<1>1. ServerGrows /\ \A k \in Kits : PublishedIn(k)' = PublishedIn(k)
  BY Grown
<1>2. StoreTypeOK'
  BY DEF StoreTypeOK, VaultInv, VaultTypeOK
<1>3. ClientInv' /\ OpsKept /\ ObjKept /\ op'[o].at = "done"
  BY <1>1, FailedKeeps
<1>4. LateKept
  BY DEF LateKept
<1>5. ServerInv'
  <2>1. \A id \in Ids : objects[id] # None => objects'[id] = objects[id]
    OBVIOUS
  <2>2. \A p \in Ops : objects'[p] # None => objects'[p] = op[p].obj
    BY ObjectsAreTheirs
  <2> QED BY <1>3, <1>4, <2>1, <2>2, ServerKept DEF VaultInv
<1>6. ToldInv'
  <2>1. OpsHold /\ SameIdentity(op'[o], op[o]) /\ op[o].at # "done" /\ op[o].kit \in Kits
    BY DoneIs DEF Failed, Busy, VaultInv, StepsFollow
  <2>2. o \notin Told("refused") /\ o \notin reported
    BY <2>1, NotTold
  <2>3. ASSUME NEW p \in Ops, <<p, "refused">> \in refused'
        PROVE  <<p, "refused">> \in refused \/ (p = o /\ op[o].kind = "save" /\ told = "refused")
    BY <2>3 DEF Failed
  <2>4. \A p \in Ops : <<p, "publish">> \in late' => <<p, "publish">> \in late
    OBVIOUS
  <2>5. ASSUME <<o, "refused">> \in refused'
        PROVE  /\ op'[o].at = "done" /\ op'[o].kit \in Kits /\ <<o, "publish">> \notin late'
               /\ \A k \in Kits : o \notin PublishedIn(k)'
    <3>1. op[o].kind = "save" /\ told = "refused"
      BY <2>2, <2>3, <2>5 DEF Told
    <3>2. ~MayBePublished(o)
      BY <2>1, <3>1 DEF MayBePublished, VaultInv, StepsFollow
    <3>3. NotYetPublished(o)
      BY DEF VaultInv, ServerInv
    <3> QED BY <1>1, <1>3, <2>1, <2>4, <3>2, <3>3 DEF NotYetPublished, SameIdentity
  <2>6. reported' = reported
    BY DEF Failed
  <2> QED BY <1>1, <2>1, <2>2, <2>3, <2>4, <2>5, <2>6, ToldKept
<1> QED BY <1>2, <1>3, <1>5, <1>6, Assembled

\* It goes on to its next request.
LEMMA AdvancedInv ==
  ASSUME VaultInv, NEW o \in Ops, Busy(o), Busy(o)', op[o].at # "seal",
         op' \in [Ops -> Operation], OthersStay(o), op'[o].obj = op[o].obj,
         SameIdentity(op'[o], op[o]), SameHold(op'[o], op[o]), SameTurn(op'[o], op[o]),
         StepsFollow(o)', MayBePublished(o) => MayBePublished(o)',
         UNCHANGED <<made, history, ctx, keys, sess, reported, refused>>,
         StoreTypeOK', \A id \in Ids : objects[id] # None => objects'[id] = objects[id],
         \A p \in Ops : objects'[p] # None => objects'[p] = op[p].obj,
         \A p \in Ops, request \in {"bootstrap", "register", "upload", "publish"} :
            <<p, request>> \in late' /\ <<p, request>> \notin late =>
               /\ p = o /\ op[o].kind \in {"commit", "unlock", "save"}
               /\ request = "publish" => MayBePublished(o)'
               /\ request = "upload" => op[o].obj # None
  PROVE  VaultInv'
<1>1. ServerGrows /\ \A k \in Kits : PublishedIn(k)' = PublishedIn(k)
  BY DEF ServerGrows, VaultInv, VaultTypeOK, PublishedIn
<1>2. OpsHold /\ OpsKept
  BY MovedOn DEF Busy
<1>3. ObjKept
  BY DEF ObjKept, OthersStay
<1>4. LateKept
  BY DEF LateKept
<1>5. ServerInv'
  BY <1>2, <1>3, <1>4, ServerKept DEF VaultInv
<1>6. ClientTypeOK'
  BY DEF ClientTypeOK, VaultInv, VaultTypeOK
<1>7. ClientInv'
  <2>1. ContextInv'
    BY <1>1, ContextGoesOn
  <2>2. SessionsInv'
    BY <1>1, <1>2, <1>6, SessionsKept
  <2>3. \A p \in Ops : StepsFollow(p)'
    BY DEF VaultInv, OthersStay, StepsFollow
  <2> QED BY <1>6, <2>1, <2>2, <2>3 DEF ClientInv
<1>8. ToldInv'
  <2>1. o \notin Told("refused") /\ o \notin reported
    BY NotTold DEF Busy
  <2>2. <<o, "refused">> \notin refused
    BY <2>1 DEF Told
  <2>3. \A p \in Ops : <<p, "publish">> \in late' => <<p, "publish">> \in late \/ p = o
    OBVIOUS
  <2> QED BY <1>1, <1>2, <2>1, <2>2, <2>3, ToldKept
<1> QED BY <1>5, <1>7, <1>8, Assembled


----------------------------------------------------------------------------
(* Steps of operations under way *)

\* A first save without a verdict asks what is there; another save fails.
LEMMA ReconciledInv ==
  ASSUME VaultInv, NEW o \in Ops, op[o].at \in {"look", "publish", "swap", "confirm"},
         NEW told, NEW conflict, Reconciled(o, told, conflict),
         told = "refused" => op[o].at # "confirm",
         UNCHANGED <<made, booted, objects, history, late>>
  PROVE  VaultInv'
<1>1. op[o].kind \in {"commit", "save"} /\ Busy(o) /\ op[o].obj # None
  BY DEF VaultInv, StepsFollow, Busy, Sending
<1>2. CASE Failed(o, told)
  BY <1>1, <1>2, FailedInv
<1>3. CASE ~Failed(o, told)
  <2>1. /\ op' = [op EXCEPT ![o].at = "load", ![o].quiet = TRUE] /\ op[o].kind = "commit"
        /\ UNCHANGED <<ctx, keys, sess, reported, refused>>
    BY <1>3 DEF Reconciled
  <2>2. /\ op' \in [Ops -> Operation] /\ OthersStay(o)
        /\ op'[o].at = "load" /\ op'[o].obj = op[o].obj /\ op'[o].quiet
        /\ SameIdentity(op'[o], op[o]) /\ SameHold(op'[o], op[o]) /\ SameTurn(op'[o], op[o])
    BY <2>1, QuietLoad DEF VaultInv
  <2>3. StepsFollow(o)' /\ Busy(o)' /\ MayBePublished(o)'
    BY <1>1, <2>1, <2>2 DEF StepsFollow, VaultInv, SameIdentity, Busy, Before, Sending, MayBePublished
  <2>4. StoreTypeOK' /\ \A id \in Ids : objects[id] # None => objects'[id] = objects[id]
    BY DEF StoreTypeOK, VaultInv, VaultTypeOK
  <2>5. \A p \in Ops : objects'[p] # None => objects'[p] = op[p].obj
    BY ObjectsAreTheirs
  <2> QED BY <1>1, <2>1, <2>2, <2>3, <2>4, <2>5, AdvancedInv
<1> QED BY <1>2, <1>3

\* An upload stores the object its operation sealed.
LEMMA StoredIs ==
  ASSUME VaultInv, NEW o \in Ops, Stored(o)
  PROVE  /\ objects' \in [Ids -> VaultObject \cup {None}]
         /\ \A id \in Ids : objects[id] # None => objects'[id] = objects[id]
         /\ \A p \in Ops : objects'[p] # None => objects'[p] = op[p].obj
<1>1. op[o].obj \in VaultObject \cup {None} /\ o \in Ids
  BY DEF VaultInv, VaultTypeOK, Operation, Ids
<1>2. \A p \in Ops : objects[p] # None => objects[p] = op[p].obj
  BY ObjectsAreTheirs
<1> QED BY <1>1, <1>2 DEF Stored, VaultInv, VaultTypeOK, Ids

\* A request is answered, and the server has done what it asked.
LEMMA AnsweredInv ==
  ASSUME VaultInv, NEW o \in Ops, Bootstrapped(o) \/ Registered(o) \/ UploadAnswered(o)
  PROVE  VaultInv'
<1> PICK at \in {"register", "load", "publish"} :
      /\ Step(o, at)
      /\ <<op[o].at, at>> \in {<<"bootstrap", "register">>, <<"register", "load">>, <<"upload", "publish">>}
  BY DEF Bootstrapped, Registered, UploadAnswered
<1>1. /\ op' \in [Ops -> Operation] /\ OthersStay(o)
      /\ op'[o].at = at /\ op'[o].obj = op[o].obj /\ op'[o].quiet = op[o].quiet
      /\ SameIdentity(op'[o], op[o]) /\ SameHold(op'[o], op[o]) /\ SameTurn(op'[o], op[o])
  BY Stepped DEF VaultInv, Before, Sending
<1>2. StepsFollow(o) /\ op[o].at \in {"bootstrap", "register", "upload"} /\ op[o].kit \in Kits
  BY DEF VaultInv, StepsFollow, Sending
<1>3. StepsFollow(o)' /\ Busy(o) /\ Busy(o)' /\ op[o].at # "seal" /\ ~MayBePublished(o)
  <2>1. at = "load" => op[o].at = "register"
    OBVIOUS
  <2> QED BY <1>1, <1>2, <2>1 DEF StepsFollow, SameIdentity, Busy, Before, Sending, MayBePublished
<1>4. StoreTypeOK' /\ \A id \in Ids : objects[id] # None => objects'[id] = objects[id]
  <2>1. CASE UploadAnswered(o)
    BY <2>1, StoredIs DEF UploadAnswered, StoreTypeOK, VaultInv, VaultTypeOK
  <2>2. CASE Bootstrapped(o)
    BY <1>2, <2>2 DEF Bootstrapped, StoreTypeOK, VaultInv, VaultTypeOK
  <2>3. CASE Registered(o)
    BY <2>3 DEF Registered, StoreTypeOK, VaultInv, VaultTypeOK
  <2> QED BY <2>1, <2>2, <2>3
<1>5. \A p \in Ops : objects'[p] # None => objects'[p] = op[p].obj
  <2>1. CASE UploadAnswered(o)
    BY <2>1, StoredIs DEF UploadAnswered
  <2>2. CASE Bootstrapped(o) \/ Registered(o)
    BY <2>2, ObjectsAreTheirs DEF Bootstrapped, Registered
  <2> QED BY <2>1, <2>2
<1>6. UNCHANGED <<made, history, ctx, keys, sess, reported, refused, late>>
  BY DEF Bootstrapped, Registered, UploadAnswered
<1> QED BY <1>1, <1>3, <1>4, <1>5, <1>6, AdvancedInv

\* It goes on while the server stays as it is.
LEMMA StepInv ==
  ASSUME VaultInv, NEW o \in Ops, NEW at \in Before \cup Sending \cup {"load", "history"}, Step(o, at),
         <<op[o].at, at>> \in {<<"publish", "swap">>, <<"upload", "look">>, <<"publish", "confirm">>,
                               <<"swap", "confirm">>, <<"look", "publish">>}
           \/ (op[o].at = "load" /\ at = "seal" /\ op[o].kind = "commit" /\ ~op[o].quiet),
         UNCHANGED <<made, booted, objects, history, ctx, keys, sess, reported, refused>>,
         \A p \in Ops, request \in {"bootstrap", "register", "upload", "publish"} :
            <<p, request>> \in late' /\ <<p, request>> \notin late =>
               /\ p = o
               /\ request = "publish" => at = "confirm"
               /\ request = "upload" => op[o].obj # None
  PROVE  VaultInv'
<1>1. /\ op' \in [Ops -> Operation] /\ OthersStay(o)
      /\ op'[o].at = at /\ op'[o].obj = op[o].obj /\ op'[o].quiet = op[o].quiet
      /\ SameIdentity(op'[o], op[o]) /\ SameHold(op'[o], op[o]) /\ SameTurn(op'[o], op[o])
  BY Stepped DEF VaultInv
<1>2. StepsFollow(o) /\ op[o].at \in {"load", "upload", "look", "publish", "swap"}
      /\ at \in {"seal", "swap", "look", "confirm", "publish"} /\ (at = "seal" => op[o].at = "load")
  BY DEF VaultInv
<1>3. StepsFollow(o)' /\ Busy(o) /\ Busy(o)' /\ op[o].at # "seal"
      /\ op[o].kind \in {"commit", "unlock", "save"}
  BY <1>1, <1>2 DEF StepsFollow, SameIdentity, Busy, Before, Sending
<1>4. ~MayBePublished(o) /\ (at = "confirm" => MayBePublished(o)')
  BY <1>1, <1>2 DEF MayBePublished
<1>5. StoreTypeOK' /\ \A id \in Ids : objects[id] # None => objects'[id] = objects[id]
  BY DEF StoreTypeOK, VaultInv, VaultTypeOK
<1>6. \A p \in Ops : objects'[p] # None => objects'[p] = op[p].obj
  BY ObjectsAreTheirs
<1> QED BY <1>1, <1>3, <1>4, <1>5, <1>6, AdvancedInv


\* A set of the numbers up to n that is not empty has a greatest element.
LEMMA GreatestOf ==
  ASSUME NEW n \in Nat, NEW S \in SUBSET (1..n), S # {}
  PROVE  \E m \in S : \A h \in S : h <= m
<1> DEFINE T == {x..n : x \in S}
<1>1. T \subseteq FiniteSubsetsOf(Nat) /\ T # {}
  <2>1. \A x \in S : IsFiniteSet(x..n) /\ x..n \in SUBSET Nat
    BY FS_Interval
  <2> QED BY <2>1 DEF FiniteSubsetsOf
<1>2. IsWellFoundedOn(StrictSubsetOrdering(Nat), FiniteSubsetsOf(Nat))
  BY FS_StrictSubsetOrderingWellFounded
<1> HIDE DEF T
<1>3. PICK t \in T : \A u \in T : <<u, t>> \notin StrictSubsetOrdering(Nat)
  BY <1>1, <1>2, WFMin
<1>4. PICK m \in S : t = m..n
  BY <1>3 DEF T
<1>5. ASSUME NEW h \in S, h > m PROVE FALSE
  <2>1. h..n \in T
    BY DEF T
  <2>2. /\ h..n \in SUBSET Nat /\ m..n \in SUBSET Nat /\ h..n \subseteq m..n
        /\ m \in m..n /\ m \notin h..n
    BY <1>5
  <2>3. <<h..n, m..n>> \in StrictSubsetOrdering(Nat)
    BY <2>2 DEF StrictSubsetOrdering
  <2> QED BY <2>1, <2>3, <1>3, <1>4
<1>6. \A h \in S : h <= m
  BY <1>5
<1> QED BY <1>6

\* What a reader falls back to was published.
LEMMA NewestIsPublished ==
  ASSUME VaultInv, NEW k \in Kits, NEW except, Readable(k, except) # {}
  PROVE  Newest(k, except) \in PublishedIn(k)
<1>1. Len(history[k]) \in Nat
  BY DEF VaultInv, VaultTypeOK
<1>2. Readable(k, except) \in SUBSET (1..Len(history[k]))
  BY DEF Readable
<1>3. \E m \in Readable(k, except) : \A h \in Readable(k, except) : h <= m
  BY <1>1, <1>2, GreatestOf
<1>4. PICK g \in Readable(k, except) : Newest(k, except) = history[k][g]
  BY <1>3 DEF Newest
<1> QED BY <1>2, <1>4 DEF PublishedIn

\* The head is a published generation.
LEMMA HeadIsPublished ==
  ASSUME VaultInv, NEW k \in Kits, HeadOf(k) # None
  PROVE  HeadOf(k) \in PublishedIn(k)
<1>1. history[k] \in Seq(Ids) /\ history[k] # <<>> /\ HeadOf(k) = history[k][Len(history[k])]
  BY DEF VaultInv, VaultTypeOK, HeadOf, Last
<1>2. Len(history[k]) \in 1..Len(history[k])
  BY <1>1
<1> QED BY <1>1, <1>2 DEF PublishedIn

\* To open a published generation keeps the invariant.
LEMMA OpenedInv ==
  ASSUME VaultInv, NEW o \in Ops, Busy(o), op[o].kind \in {"commit", "unlock"},
         NEW id, id \in PublishedIn(op[o].kit), NEW ro \in BOOLEAN, Opened(o, id, ro),
         UNCHANGED <<made, booted, objects, history>>
  PROVE  VaultInv'
<1> PICK k \in Kits : k = op[o].kit
  BY DEF VaultInv, StepsFollow
<1>1. ServerGrows /\ \A j \in Kits : PublishedIn(j)' = PublishedIn(j)
  BY Grown
<1>2. StoreTypeOK'
  BY DEF StoreTypeOK, VaultInv, VaultTypeOK
<1>3. Done(o) /\ Activated(o, id, ro) /\ UNCHANGED <<late, reported, refused>>
      /\ Unlocked(o, Ref(k, objects[id].gen, objects[id].snap, ro))
  BY DEF Opened
<1>4. OpsHold /\ OpsKept /\ ObjKept
  BY <1>3, DoneIs
<1>5. ServerInv'
  <2>1. LateKept
    BY <1>3 DEF LateKept
  <2>2. \A i \in Ids : objects[i] # None => objects'[i] = objects[i]
    OBVIOUS
  <2>3. \A p \in Ops : objects'[p] # None => objects'[p] = op[p].obj
    BY ObjectsAreTheirs
  <2> QED BY <1>4, <2>1, <2>2, <2>3, ServerKept DEF VaultInv
<1>6. id \in Ids /\ objects[id] # None
  BY <1>1, PublishedStays DEF VaultInv
<1> PICK x \in VaultObject : x = objects'[id]
  BY <1>6 DEF VaultInv, VaultTypeOK
<1> PICK u : u = Ref(k, x.gen, x.snap, ro)
  OBVIOUS
<1>7. Unlocked(o, u) /\ id \in PublishedIn(k)'
  BY <1>1, <1>3
<1>8. ClientInv'
  BY <1>1, <1>2, <1>3, <1>5, <1>6, <1>7, UnlockedKeeps
<1>9. ToldInv'
  <2>1. op[o].at # "done"
    BY DEF Busy
  <2> QED BY <1>3, <1>4, <2>1, ToldSame
<1> QED BY <1>2, <1>5, <1>8, <1>9, Assembled

\* readActiveGeneration does, whatever it finds.
LEMMA LoadedInv ==
  ASSUME VaultInv, NEW o \in Ops, Loaded(o)
  PROVE  VaultInv'
<1> PICK k \in Kits : k = op[o].kit
  BY DEF VaultInv, StepsFollow, Loaded
<1>1. /\ op[o].at = "load" /\ Busy(o) /\ op[o].kind \in {"commit", "unlock"}
      /\ UNCHANGED <<made, booted, objects, history>>
  BY DEF Loaded, VaultInv, StepsFollow, Busy, server
<1>2. CASE HeadOf(k) = None /\ op[o].kind = "commit" /\ ~op[o].quiet
  <2>1. Step(o, "seal") /\ UNCHANGED <<ctx, keys, sess, reported, refused, late>>
    BY <1>2 DEF Loaded
  <2>2. "seal" \in Before \cup Sending \cup {"load", "history"}
    BY DEF Before
  <2> QED BY <1>1, <1>2, <2>1, <2>2, StepInv
<1>3. CASE HeadOf(k) = None /\ ~(op[o].kind = "commit" /\ ~op[o].quiet)
  <2>1. Failed(o, "unknown") /\ late' = late
    BY <1>3 DEF Loaded
  <2> QED BY <1>1, <2>1, FailedInv
<1>4. CASE HeadOf(k) # None /\ HeadOf(k) \notin damaged
  <2> PICK id : id = HeadOf(k)
    OBVIOUS
  <2>1. Opened(o, id, FALSE) /\ id \in PublishedIn(op[o].kit)
    BY <1>4, HeadIsPublished DEF Loaded
  <2> PICK ro \in BOOLEAN : ro = FALSE
    OBVIOUS
  <2>2. Opened(o, id, ro)
    BY <2>1
  <2> QED BY <1>1, <2>1, <2>2, OpenedInv
<1>5. CASE HeadOf(k) # None /\ HeadOf(k) \in damaged
  <2> PICK id \in Ids : id = HeadOf(k)
    <3>1. HeadOf(k) \in PublishedIn(k)
      BY <1>5, HeadIsPublished
    <3>2. \A g \in 1..Len(history[k]) : history[k][g] \in Ids
      BY DEF VaultInv, VaultTypeOK
    <3> QED BY <3>1, <3>2 DEF PublishedIn
  <2>1. /\ op' = [op EXCEPT ![o].at = "history", ![o].skip = id]
        /\ UNCHANGED <<late, ctx, keys, sess, reported, refused>>
    BY <1>5 DEF Loaded
  <2>2. /\ op' \in [Ops -> Operation] /\ OthersStay(o)
        /\ op'[o].at = "history" /\ op'[o].obj = op[o].obj /\ op'[o].quiet = op[o].quiet
        /\ SameIdentity(op'[o], op[o]) /\ SameHold(op'[o], op[o]) /\ SameTurn(op'[o], op[o])
    BY <2>1, HistoryAsked DEF VaultInv
  <2>3. StepsFollow(o)' /\ Busy(o)' /\ (MayBePublished(o) => MayBePublished(o)')
    BY <1>1, <2>2 DEF StepsFollow, VaultInv, SameIdentity, Busy, Before, Sending, MayBePublished
  <2>4. StoreTypeOK' /\ \A i \in Ids : objects[i] # None => objects'[i] = objects[i]
    BY <1>1 DEF StoreTypeOK, VaultInv, VaultTypeOK
  <2>5. \A p \in Ops : objects'[p] # None => objects'[p] = op[p].obj
    BY <1>1, ObjectsAreTheirs
  <2> QED BY <1>1, <2>1, <2>2, <2>3, <2>4, <2>5, AdvancedInv
<1> QED BY <1>2, <1>3, <1>4, <1>5

\* So does the newest older generation that still verifies.
LEMMA HistoryReadInv ==
  ASSUME VaultInv, NEW o \in Ops, HistoryRead(o)
  PROVE  VaultInv'
<1> PICK k \in Kits : k = op[o].kit
  BY DEF VaultInv, StepsFollow, HistoryRead
<1>1. /\ op[o].at = "history" /\ Busy(o) /\ op[o].kind \in {"commit", "unlock"}
      /\ UNCHANGED <<made, booted, objects, history>>
  BY DEF HistoryRead, VaultInv, StepsFollow, Busy, server
<1>2. CASE Readable(k, op[o].skip) = {}
  <2>1. Failed(o, "unknown") /\ late' = late
    BY <1>2 DEF HistoryRead
  <2> QED BY <1>1, <2>1, FailedInv
<1>3. CASE Readable(k, op[o].skip) # {}
  <2> PICK id : id = Newest(k, op[o].skip)
    OBVIOUS
  <2> PICK ro \in BOOLEAN : ro = TRUE
    OBVIOUS
  <2>1. Opened(o, id, ro)
    BY <1>3 DEF HistoryRead
  <2>2. id \in PublishedIn(op[o].kit)
    BY <1>3, NewestIsPublished
  <2> QED BY <1>1, <2>1, <2>2, OpenedInv
<1> QED BY <1>2, <1>3


\* The object a save seals follows the parent its session names by then.
LEMMA SealedObject ==
  ASSUME VaultInv, NEW o \in Ops, op[o].at = "seal", op[o].kind = "save", NEW k \in Kits, k = op[o].kit,
         op[o].sid # None, NEW parent, parent = sess[op[o].sid].parent,
         NEW base, base = op[o].base, objects[parent].gen = base.gen
  PROVE  /\ parent \in PublishedIn(k) /\ parent \in Ids
         /\ base.gen \in Nat /\ base.snap \in SUBSET Ops /\ base.snap = objects[parent].snap
<1>1. SaveOf(o) /\ op[o] \in Operation
  BY DEF VaultInv, VaultTypeOK, SessionsInv
<1>2. base \in VaultRef /\ base.kit = k /\ IsPublished(base)
  BY <1>1, Names DEF SaveOf, Operation
<1> PICK i \in Signers : i = op[o].sid /\ sess[i] # None /\ sess[i].kit = k
  BY <1>1, Names DEF SaveOf, Operation
<1>3. parent \in PublishedIn(k)
  BY DEF VaultInv, SessionsInv, SessionOf
<1>4. PICK g \in 1..Len(history[k]) : history[k][g] = parent
  BY <1>3 DEF PublishedIn
<1>5. GenerationOf(k, g)
  BY DEF VaultInv, ServerInv, HistoryOf
<1>6. objects[parent].gen = g
  BY <1>4, <1>5 DEF GenerationOf
<1>7. history[k][g] \in Ids
  BY DEF VaultInv, VaultTypeOK
<1> QED BY <1>2, <1>3, <1>4, <1>6, <1>7 DEF IsPublished, VaultRef

\* Sealing over the parent the session names does.
LEMMA SealInv ==
  ASSUME VaultInv, NEW o \in Ops, Seal(o)
  PROVE  VaultInv'
<1> PICK k \in Kits : k = op[o].kit
  BY DEF VaultInv, StepsFollow, Seal
<1>1. /\ op[o].at = "seal" /\ Busy(o) /\ op[o].kind \in {"commit", "save"}
      /\ UNCHANGED <<made, booted, objects, history, late>>
  BY DEF Seal, VaultInv, StepsFollow, Busy, server
<1>2. CASE Failed(o, "refused")
  BY <1>1, <1>2, FailedInv
<1>3. CASE ~Failed(o, "refused")
  <2>1. PICK x \in VaultObject :
          /\ op' = [op EXCEPT ![o].at = "upload", ![o].obj = x] /\ x.kit = k
          /\ op[o].kind = "commit" => x = Object(k, 1, None, {})
          /\ op[o].kind = "save" => /\ op[o].sid # None
                                    /\ x.parent \in PublishedIn(k)
                                    /\ x.gen = objects[x.parent].gen + 1
                                    /\ x.snap = objects[x.parent].snap \cup {o}
    <3>1. CASE op[o].kind = "commit"
      <4> PICK x : x = Object(k, 1, None, {})
        OBVIOUS
      <4>1. x \in VaultObject /\ x.kit = k
        BY DEF Object, VaultObject
      <4>2. op' = [op EXCEPT ![o].at = "upload", ![o].obj = x]
        BY <1>3, <3>1 DEF Seal
      <4> QED BY <3>1, <4>1, <4>2
    <3>2. CASE op[o].kind = "save"
      <4>1. PICK parent : parent = sess[op[o].sid].parent
        OBVIOUS
      <4>2. PICK base : base = op[o].base
        OBVIOUS
      <4>3. PICK x : x = Object(k, base.gen + 1, parent, base.snap \cup {o})
        OBVIOUS
      <4>4. op[o].sid # None /\ objects[parent].gen = base.gen
        BY <1>3, <3>2, <4>1, <4>2 DEF Seal
      <4>5. /\ parent \in PublishedIn(k) /\ parent \in Ids
            /\ base.gen \in Nat /\ base.snap \in SUBSET Ops /\ base.snap = objects[parent].snap
        BY <1>1, <3>2, <4>1, <4>2, <4>4, SealedObject
      <4>6. x.kit = k /\ x.parent = parent /\ x.gen = base.gen + 1 /\ x.snap = base.snap \cup {o}
        BY <4>3 DEF Object
      <4>7. x \in VaultObject
        BY <4>3, <4>5 DEF Object, VaultObject
      <4>8. op' = [op EXCEPT ![o].at = "upload", ![o].obj = x]
        BY <1>3, <3>2, <4>1, <4>2, <4>3, <4>4 DEF Seal
      <4> QED BY <3>2, <4>4, <4>5, <4>6, <4>7, <4>8
    <3> QED BY <1>1, <3>1, <3>2
  <2>2. UNCHANGED <<ctx, keys, sess, reported, refused>>
    BY <1>3 DEF Seal
  <2>3. /\ op' \in [Ops -> Operation] /\ OthersStay(o)
        /\ op'[o].at = "upload" /\ op'[o].obj = x /\ op'[o].quiet = op[o].quiet
        /\ SameIdentity(op'[o], op[o]) /\ SameHold(op'[o], op[o]) /\ SameTurn(op'[o], op[o])
    BY <2>1, SealedOp DEF VaultInv
  <2>4. ServerInv'
    BY <1>1, <2>1, ServerSealed DEF VaultInv
  <2>5. ServerGrows
    BY <1>1, Grown
  <2>6. OpsHold
    BY <1>1, <2>1, <2>3, MovedOn DEF MayBePublished
  <2>7. ClientTypeOK' /\ StoreTypeOK'
    BY <1>1, <2>2, <2>3 DEF ClientTypeOK, StoreTypeOK, VaultInv, VaultTypeOK
  <2>8. ContextInv'
    BY <1>1, <2>2, <2>3, <2>5, ContextGoesOn DEF Busy
  <2>9. SessionsInv'
    BY <2>2, <2>5, <2>6, <2>7, SessionsKept
  <2>10. \A p \in Ops : StepsFollow(p)'
    <3>1. StepsFollow(o)'
      BY <1>1, <2>1, <2>3, Names DEF StepsFollow, VaultInv, SameIdentity, Before, Sending
    <3> QED BY <2>3, <3>1 DEF VaultInv, OthersStay, StepsFollow
  <2>11. ToldInv'
    BY <1>1, <2>2, <2>6, ToldSame
  <2> QED BY <2>4, <2>7, <2>8, <2>9, <2>10, <2>11, Assembled DEF ClientInv
<1> QED BY <1>2, <1>3

\* The check of the Edge function does.
LEMMA PublishCheckedInv ==
  ASSUME VaultInv, NEW o \in Ops, PublishChecked(o)
  PROVE  VaultInv'
<1>1. op[o].at = "publish" /\ UNCHANGED <<made, booted, objects, history, late>>
  BY DEF PublishChecked, server
<1>2. CASE MayFollow(o)
  <2>1. Step(o, "swap") /\ UNCHANGED <<ctx, keys, sess, reported, refused>>
    BY <1>2 DEF PublishChecked
  <2>2. "swap" \in Before \cup Sending \cup {"load", "history"}
    BY DEF Sending
  <2> QED BY <1>1, <2>1, <2>2, StepInv
<1>3. CASE ~MayFollow(o)
  <2>1. Reconciled(o, "refused", TRUE)
    BY <1>3 DEF PublishChecked
  <2> QED BY <1>1, <2>1, ReconciledInv
<1> QED BY <1>2, <1>3

\* The compare-and-swap publishes the object.
LEMMA PublishAnsweredInv ==
  ASSUME VaultInv, NEW o \in Ops, PublishAnswered(o)
  PROVE  VaultInv'
<1> PICK k \in Kits : k = op[o].kit
  BY DEF VaultInv, StepsFollow, PublishAnswered, Sending
<1>1. /\ op[o].at = "swap" /\ Busy(o) /\ op[o].kind \in {"commit", "save"}
      /\ UNCHANGED <<made, booted, objects, late>>
  BY DEF PublishAnswered, VaultInv, StepsFollow, Busy, Sending
<1>2. CASE ~MayFollow(o)
  <2>1. Reconciled(o, "refused", TRUE) /\ history' = history
    BY <1>2 DEF PublishAnswered
  <2> QED BY <1>1, <2>1, ReconciledInv
<1>3. CASE MayFollow(o)
  <2>1. Published(o) /\ Saved(o) /\ Done(o)
    BY <1>3 DEF PublishAnswered, Saved
  <2>2. OpsHold /\ OpsKept /\ ObjKept /\ op'[o].at = "done"
    BY <1>1, <2>1, DoneIs
  <2>3. LateKept /\ MayBePublished(o)'
    BY <1>1, <2>2 DEF LateKept, MayBePublished
  <2>4. /\ ServerInv' /\ history' \in [Kits -> Seq(Ids)] /\ ServerGrows
        /\ \A j \in Kits : j # k => history'[j] = history[j]
        /\ op[o].obj # None /\ objects[o] = op[o].obj
        /\ PublishedIn(k)' = PublishedIn(k) \cup {o}
    BY <1>1, <1>3, <2>1, <2>2, <2>3, ServerPublished DEF VaultInv
  <2>5. StoreTypeOK'
    BY <1>1, <2>4 DEF StoreTypeOK, VaultInv, VaultTypeOK
  <2> PICK x \in VaultObject : x = objects'[o] /\ x = op[o].obj
    BY <1>1, <2>4 DEF VaultInv, VaultTypeOK, Ids
  <2>6. ClientInv'
    BY <1>1, <2>1, <2>4, <2>5, SavedKeeps
  <2>7. ToldInv'
    <3>1. o \notin Told("refused") /\ o \notin reported
      BY <1>1, NotTold
    <3>2. reported' \subseteq reported \cup {o} /\ refused' = refused
      BY <2>1 DEF Saved
    <3>3. op'[o].at = "done" /\ op'[o].kit = k /\ o \in PublishedIn(k)'
      BY <1>1, <2>1, <2>4, DoneIs DEF SameIdentity
    <3>4. \A j \in Kits : PublishedIn(j)' \subseteq PublishedIn(j) \cup {o}
      <4>1. \A j \in Kits : j # k => PublishedIn(j)' = PublishedIn(j)
        BY <2>4 DEF PublishedIn
      <4>2. PublishedIn(k)' \subseteq PublishedIn(k) \cup {o}
        BY <2>4
      <4> HIDE DEF PublishedIn
      <4> QED BY <4>1, <4>2
    <3>5. <<o, "refused">> \notin refused
      BY <3>1 DEF Told
    <3> QED BY <1>1, <2>2, <2>4, <3>1, <3>2, <3>3, <3>4, <3>5, ToldKept
  <2> QED BY <2>4, <2>5, <2>6, <2>7, Assembled
<1> QED BY <1>2, <1>3


\* A refusal without effect does.
LEMMA RefusedInv ==
  ASSUME VaultInv, NEW o \in Ops, Refused(o)
  PROVE  VaultInv'
<1>1. /\ Busy(o) /\ op[o].kind \in {"commit", "unlock", "save"} /\ op[o].at # "confirm"
      /\ Failed(o, "refused") /\ UNCHANGED <<made, booted, objects, history, late>>
  BY DEF Refused, VaultInv, StepsFollow, Busy, Sending, server
<1> QED BY <1>1, FailedInv

\* So does giving up a request that may still arrive.
LEMMA GiveUpInv ==
  ASSUME VaultInv, NEW o \in Ops, GiveUp(o)
  PROVE  VaultInv'
<1>1. /\ op[o].at \in {"bootstrap", "register", "upload", "publish", "swap"} /\ Busy(o)
      /\ op[o].kind \in {"commit", "unlock", "save"} /\ UNCHANGED <<made, booted, objects, history>>
  BY DEF GiveUp, VaultInv, StepsFollow, Busy, Sending, server
<1>2. \A p \in Ops, request \in {"bootstrap", "register", "upload", "publish"} :
         <<p, request>> \in late' /\ <<p, request>> \notin late =>
            p = o /\ request = IF op[o].at = "swap" THEN "publish" ELSE op[o].at
  BY DEF GiveUp, Sent
<1>3. CASE op[o].at = "upload"
  <2>1. Step(o, "look") /\ UNCHANGED <<ctx, keys, sess, reported, refused>>
    BY <1>3 DEF GiveUp
  <2>2. "look" \in Before \cup Sending \cup {"load", "history"} /\ op[o].obj # None
    BY <1>3 DEF Sending, VaultInv, StepsFollow
  <2> QED BY <1>1, <1>2, <1>3, <2>1, <2>2, StepInv
<1>4. CASE op[o].at \in {"publish", "swap"}
  <2>1. Step(o, "confirm") /\ UNCHANGED <<ctx, keys, sess, reported, refused>>
    BY <1>4 DEF GiveUp
  <2>2. "confirm" \in Before \cup Sending \cup {"load", "history"}
    BY DEF Sending
  <2> QED BY <1>1, <1>2, <1>4, <2>1, <2>2, StepInv
<1>5. CASE op[o].at \in {"bootstrap", "register"}
  <2>1. Failed(o, "unknown")
    BY <1>5 DEF GiveUp
  <2> QED BY <1>1, <1>2, <1>5, <2>1, FailedInv
<1> QED BY <1>1, <1>3, <1>4, <1>5

\* readGenerationObject after a lost upload does.
LEMMA LookInv ==
  ASSUME VaultInv, NEW o \in Ops, Look(o)
  PROVE  VaultInv'
<1>1. /\ op[o].at = "look" /\ Busy(o) /\ op[o].kind \in {"commit", "save"}
      /\ UNCHANGED <<made, booted, objects, history, late>>
  BY DEF Look, VaultInv, StepsFollow, Busy, Sending, server
<1>2. CASE Reconciled(o, "unknown", FALSE)
  BY <1>1, <1>2, ReconciledInv
<1>3. CASE Failed(o, "refused")
  BY <1>1, <1>3, FailedInv
<1>4. CASE Step(o, "publish") /\ UNCHANGED <<ctx, keys, sess, reported, refused>>
  <2>1. "publish" \in Before \cup Sending \cup {"load", "history"}
    BY DEF Sending
  <2> QED BY <1>1, <1>4, <2>1, StepInv
<1> QED BY <1>2, <1>3, <1>4 DEF Look

\* readActiveGeneration after a lost publication does, whatever the verdict.
LEMMA ConfirmInv ==
  ASSUME VaultInv, NEW o \in Ops, Confirm(o)
  PROVE  VaultInv'
<1> PICK k \in Kits : k = op[o].kit
  BY DEF VaultInv, StepsFollow, Confirm, Sending
<1>1. /\ op[o].at = "confirm" /\ Busy(o) /\ op[o].kind \in {"commit", "save"}
      /\ UNCHANGED <<made, booted, objects, history, late>>
  BY DEF Confirm, VaultInv, StepsFollow, Busy, Sending, server
<1>2. CASE Reconciled(o, "unknown", FALSE)
  BY <1>1, <1>2, ReconciledInv
<1>3. CASE Reconciled(o, "overtaken", TRUE)
  BY <1>1, <1>3, ReconciledInv
<1>4. CASE HeadOf(k) = o /\ Saved(o)
  <2>1. ServerGrows /\ \A j \in Kits : PublishedIn(j)' = PublishedIn(j)
    BY <1>1, Grown
  <2>2. o \in PublishedIn(k) /\ objects[o] # None
    <3>1. o \in PublishedIn(k)
      BY <1>4, HeadIsPublished, Names
    <3>2. objects[o] # None
      BY <2>1, <3>1, PublishedStays DEF VaultInv
    <3> QED BY <3>1, <3>2
  <2>3. objects[o] = op[o].obj
    BY <2>2, ObjectsAreTheirs
  <2>4. StoreTypeOK'
    BY <1>1 DEF StoreTypeOK, VaultInv, VaultTypeOK
  <2>5. OpsHold /\ OpsKept /\ ObjKept /\ op'[o].at = "done" /\ op'[o].kit = k
    BY <1>1, <1>4, DoneIs DEF Saved, SameIdentity
  <2>6. ServerInv'
    <3>1. LateKept
      BY <1>1 DEF LateKept
    <3>2. \A i \in Ids : objects[i] # None => objects'[i] = objects[i]
      BY <1>1
    <3>3. \A p \in Ops : objects'[p] # None => objects'[p] = op[p].obj
      BY <1>1, ObjectsAreTheirs
    <3> QED BY <1>1, <2>5, <3>1, <3>2, <3>3, ServerKept DEF VaultInv
  <2> PICK x \in VaultObject : x = objects'[o] /\ x = op[o].obj
    BY <1>1, <2>2, <2>3 DEF VaultInv, VaultTypeOK, Ids
  <2>7. ClientInv'
    BY <1>1, <1>4, <2>1, <2>2, <2>4, <2>6, SavedKeeps
  <2>8. ToldInv'
    <3>1. o \notin Told("refused") /\ o \notin reported
      BY <1>1, NotTold
    <3>2. reported' \subseteq reported \cup {o} /\ refused' = refused
      BY <1>4 DEF Saved
    <3>3. <<o, "refused">> \notin refused /\ o \in PublishedIn(k)'
      BY <2>1, <2>2, <3>1 DEF Told
    <3> QED BY <1>1, <2>1, <2>5, <3>1, <3>2, <3>3, ToldKept
  <2> QED BY <2>4, <2>6, <2>7, <2>8, Assembled
<1> QED BY <1>2, <1>3, <1>4 DEF Confirm


----------------------------------------------------------------------------
(* Steps that leave the server as it is *)

\* A step that publishes and tells nothing leaves what saves were told.
LEMMA ToldUntouched ==
  ASSUME VaultInv, OpsHold, history' = history, late' \subseteq late, reported' = reported,
         refused' = refused
  PROVE  ToldInv'
<1>1. \A k \in Kits : PublishedIn(k)' = PublishedIn(k)
  BY DEF PublishedIn
<1>2. Told("refused")' = Told("refused") /\ \A p \in Told("refused") : p \in Ops
  BY DEF Told
<1>3. \A p \in Ops : op[p].at = "done" => op'[p].at = "done" /\ op'[p].kit = op[p].kit
  BY DEF OpsHold
<1>4. \A p \in Told("refused")' :
        /\ op'[p].at = "done" /\ op'[p].kit \in Kits /\ <<p, "publish">> \notin late'
        /\ \A k \in Kits : p \notin PublishedIn(k)'
  <2> SUFFICES ASSUME NEW p \in Told("refused")
               PROVE  /\ op'[p].at = "done" /\ op'[p].kit \in Kits /\ <<p, "publish">> \notin late'
                      /\ \A k \in Kits : p \notin PublishedIn(k)'
    BY <1>2
  <2>1. /\ op[p].at = "done" /\ op[p].kit \in Kits /\ <<p, "publish">> \notin late
        /\ \A k \in Kits : p \notin PublishedIn(k)
    BY DEF VaultInv, ToldInv
  <2> QED BY <1>1, <1>2, <1>3, <2>1
<1>5. ASSUME NEW p \in reported'
      PROVE  p \in Ops /\ op'[p].at = "done" /\ op'[p].kit \in Kits /\ (p \in PublishedIn(op[p].kit))'
  <2>1. p \in Ops /\ op[p].at = "done" /\ op[p].kit \in Kits /\ p \in PublishedIn(op[p].kit)
    BY DEF VaultInv, ToldInv
  <2> QED BY <1>3, <2>1 DEF PublishedIn
<1> QED BY <1>4, <1>5 DEF ToldInv

\* A step of a device alone needs only the devices' invariant.
LEMMA ClientStep ==
  ASSUME VaultInv, UNCHANGED <<booted, objects, history, late, reported, refused>>,
         made' \in SUBSET Kits, ClientInv', OpsHold, OpsKept, ObjKept
  PROVE  VaultInv'
<1>1. StoreTypeOK'
  BY DEF StoreTypeOK, VaultInv, VaultTypeOK
<1>2. ServerInv'
  <2>1. LateKept
    BY DEF LateKept
  <2>2. \A i \in Ids : objects[i] # None => objects'[i] = objects[i]
    OBVIOUS
  <2>3. \A p \in Ops : objects'[p] # None => objects'[p] = op[p].obj
    BY ObjectsAreTheirs
  <2> QED BY <2>1, <2>2, <2>3, ServerKept DEF VaultInv
<1>3. ToldInv'
  BY ToldUntouched
<1> QED BY <1>1, <1>2, <1>3, Assembled

\* The device gives up whatever it had under way.
LEMMA SupersededKeeps ==
  ASSUME VaultInv, NEW d \in Devices, op' = Superseded(d),
         UNCHANGED <<made, booted, objects, history, late, sess, reported, refused>>,
         keys' \in [Devices -> [Kits -> Signers \cup {None}]],
         \A e \in Devices, j \in Kits : keys'[e][j] \in {keys[e][j], None},
         NEW c \in Context, ctx' = [ctx EXCEPT ![d] = c], c.phase \notin DOMAIN Waits,
         ~c.open, c.code = None, c.kit # None => ~c.acked
  PROVE  VaultInv'
<1>1. /\ op' \in [Ops -> Operation]
      /\ \A p \in Ops : /\ op[p].dev # d => op'[p] = op[p]
                        /\ op[p].dev = d => ~op'[p].cur
                        /\ op'[p].at = op[p].at /\ op'[p].obj = op[p].obj
                        /\ op'[p].quiet = op[p].quiet
                        /\ op[p].at = "none" => op'[p] = op[p]
                        /\ SameIdentity(op'[p], op[p]) /\ SameHold(op'[p], op[p])
  BY SupersededOps DEF VaultInv
<1>2. OpsKept /\ ObjKept
  BY <1>1 DEF OpsKept, ObjKept, MayBePublished
<1>3. OpsHold
  <2>1. ASSUME NEW p \in Ops, op'[p].kind = "save", op'[p].at # "done" PROVE SaveKept(p)
    <3>1. SaveOf(p)
      BY DEF VaultInv, SessionsInv
    <3> QED BY <1>1, <2>1, <3>1 DEF SaveKept, SaveOf, SameIdentity, SameHold
  <2> QED BY <1>1, <2>1 DEF OpsHold, SameIdentity
<1>4. ctx' \in [Devices -> Context] /\ ctx'[d] = c /\ \A e \in Devices : e # d => ctx'[e] = ctx[e]
  BY DEF VaultInv, VaultTypeOK
<1>5. ServerGrows
  BY Grown
<1>6. ClientTypeOK'
  BY <1>1, <1>4 DEF ClientTypeOK, VaultInv, VaultTypeOK
<1>7. ContextInv'
  <2>1. OpenOf(d)'
    BY <1>4 DEF OpenOf
  <2>2. \A p \in Ops : \/ op'[p] = op[p] /\ op[p].dev # d
                       \/ op'[p].dev = d /\ op[p].dev \in {d, None}
    BY <1>1 DEF SameIdentity
  <2>3. \A p \in Ops : op'[p].dev = d => ~op'[p].cur
    BY <1>1 DEF SameIdentity
  <2> QED BY <1>4, <1>5, <2>1, <2>2, <2>3, ContextQuiet
<1>8. SessionsInv'
  BY <1>3, <1>5, <1>6, SessionsKept
<1>9. \A p \in Ops : StepsFollow(p)'
  BY <1>1 DEF VaultInv, StepsFollow, SameIdentity
<1>10. ClientInv'
  BY <1>6, <1>7, <1>8, <1>9 DEF ClientInv
<1>11. made' \in SUBSET Kits
  BY DEF VaultInv, VaultTypeOK
<1> QED BY <1>2, <1>3, <1>10, <1>11, ClientStep

\* A new operation has the turn, and no object yet.
LEMMA NewIs ==
  ASSUME VaultInv, NEW d \in Devices, NEW o \in Ops, NEW kind \in Kinds, NEW kit \in Kits \cup {None},
         NEW at \in Before, NEW new, new = New(d, o, kind, kit, at)
  PROVE  /\ new \in Operation /\ new.dev = d /\ new.kind = kind /\ new.kit = kit /\ new.at = at
         /\ new.cur /\ new.live /\ new.obj = None /\ ~new.quiet
<1>1. ctx[d].ctl \in Ops \cup {0, None}
  BY DEF VaultInv, VaultTypeOK, Context
<1> PICK ctl \in Ops \cup {0, None} : ctl = IF ctx[d].ctl = None THEN o ELSE ctx[d].ctl
  BY <1>1
<1>2. NoOp \in Operation
  BY DEF NoOp, Operation, Kinds, Before
<1>3. new = [NoOp EXCEPT !.dev = d, !.kind = kind, !.kit = kit, !.at = at, !.cur = TRUE, !.ctl = ctl]
  BY DEF New
<1>4. new \in Operation
  BY <1>2, <1>3, ZenonT(60) DEF Operation
<1>5. /\ new.dev = d /\ new.kind = kind /\ new.kit = kit /\ new.at = at
      /\ new.cur /\ new.live /\ new.obj = None /\ ~new.quiet
  BY <1>3 DEF NoOp
<1> QED BY <1>4, <1>5

\* What the kinds of operation start with.
Beginnings == {<<"refresh", "list">>, <<"create", "prepare">>, <<"commit", "bootstrap">>,
               <<"unlock", "register">>, <<"save", "seal">>}

\* An operation as it begins, and the context that waits for it.
Begins(o, new, c) ==
    /\ new \in Operation /\ <<new.kind, new.at>> \in Beginnings
    /\ new.kind \in {"commit", "unlock", "save"} => new.kit \in Kits
    /\ new.cur /\ new.live /\ new.obj = None
    /\ new.kind = "save" =>
         /\ new.base # None /\ new.base.kit = new.kit /\ IsPublished(new.base)
         /\ new.sid # None => sess[new.sid] # None /\ sess[new.sid].kit = new.kit
    /\ c \in Context /\ c.phase \in DOMAIN Waits /\ Waits[c.phase] = new.kind
    /\ new.kind \in {"commit", "save"} => c.owner = o
    /\ new.kind = "save" => c.open /\ c.sel = new.kit

\* A device starts an operation and waits for it alone.
LEMMA StartKeeps ==
  ASSUME VaultInv, NEW d \in Devices, NEW o \in Ops, op[o].at = "none",
         NEW new, NEW c, Begins(o, new, c), new.dev = d, Start(d, o, new), ctx' = [ctx EXCEPT ![d] = c],
         UNCHANGED <<made, booted, objects, history, late, sess, reported, refused>>,
         keys' \in [Devices -> [Kits -> Signers \cup {None}]],
         \A e \in Devices, j \in Kits : keys'[e][j] \in {keys[e][j], None},
         OpenOf(d)'
  PROVE  VaultInv'
<1> USE DEF Begins
<1>1. /\ Superseded(d) \in [Ops -> Operation]
      /\ \A p \in Ops : LET s == Superseded(d)[p]
                        IN  /\ op[p].dev # d => s = op[p]
                            /\ op[p].dev = d => ~s.cur
                            /\ op[p].at = "none" => s = op[p]
                            /\ s.at = op[p].at /\ s.obj = op[p].obj /\ s.quiet = op[p].quiet
                            /\ SameIdentity(s, op[p]) /\ SameHold(s, op[p])
  BY SupersededOps DEF VaultInv
<1>2. op' \in [Ops -> Operation] /\ op'[o] = new /\ \A p \in Ops : p # o => op'[p] = Superseded(d)[p]
  BY <1>1 DEF Start
<1>3. \A p \in Ops : p # o =>
        /\ op[p].at = "none" => op'[p] = op[p]
        /\ op'[p].at = op[p].at /\ op'[p].obj = op[p].obj /\ op'[p].quiet = op[p].quiet
        /\ SameIdentity(op'[p], op[p]) /\ SameHold(op'[p], op[p])
  BY <1>1, <1>2
<1>4. op[o] = NoOp /\ op[o].obj = None /\ new.at \in Before \ {"none", "done"} /\ new.kind # "none"
  BY DEF VaultInv, StepsFollow, NoOp, Beginnings, Before
<1>5. OpsKept /\ ObjKept
  <2>1. ASSUME NEW p \in Ops
        PROVE  /\ op[p].at # "none" => op'[p].at # "none" /\ SameIdentity(op'[p], op[p])
               /\ MayBePublished(p) => MayBePublished(p)'
               /\ op'[p].obj = op[p].obj
    <3>1. CASE p = o
      BY <1>2, <1>4, <3>1 DEF MayBePublished
    <3>2. CASE p # o
      BY <1>3, <3>2 DEF MayBePublished
    <3> QED BY <3>1, <3>2
  <2> QED BY <1>2, <2>1 DEF OpsKept, ObjKept
<1>6. OpsHold
  <2>1. ASSUME NEW p \in Ops, op'[p].kind = "save", op'[p].at # "done" PROVE SaveKept(p) \/ SaveOf(p)'
    <3>1. CASE p = o
      <4>1. new.at = "seal" /\ new.kind = "save"
        BY <1>2, <2>1, <3>1 DEF Beginnings
      <4>2. IsPublished(new.base)'
        BY <4>1 DEF IsPublished
      <4> QED BY <1>2, <3>1, <4>1, <4>2 DEF SaveOf, IsPublished
    <3>2. CASE p # o
      <4>1. SaveOf(p)
        BY DEF VaultInv, SessionsInv
      <4> QED BY <1>3, <2>1, <3>2, <4>1 DEF SaveKept, SaveOf, SameIdentity, SameHold
    <3> QED BY <3>1, <3>2
  <2>2. ASSUME NEW p \in Ops, op[p].at = "done" PROVE op'[p].at = "done" /\ op'[p].kit = op[p].kit
    <3>1. p # o
      BY <2>2
    <3> QED BY <1>3, <2>2, <3>1 DEF SameIdentity
  <2> QED BY <2>1, <2>2 DEF OpsHold
<1>7. ctx' \in [Devices -> Context] /\ ctx'[d] = c /\ \A e \in Devices : e # d => ctx'[e] = ctx[e]
  BY DEF VaultInv, VaultTypeOK
<1>8. ServerGrows
  BY Grown
<1>9. ClientTypeOK'
  BY <1>2, <1>7 DEF ClientTypeOK, VaultInv, VaultTypeOK
<1>10. ContextInv'
  <2>1. new.at \notin {"none", "done"}
    BY DEF Beginnings
  <2> QED BY <1>2, <1>7, <1>8, <2>1, ContextStarts
<1>11. SessionsInv'
  BY <1>6, <1>8, <1>9, SessionsKept
<1>12. ASSUME NEW p \in Ops PROVE StepsFollow(p)'
  <2>1. CASE p = o
    BY <1>2, <1>4, <2>1 DEF StepsFollow, Beginnings, Before, Sending
  <2>2. CASE p # o
    BY <1>3, <2>2 DEF VaultInv, StepsFollow, SameIdentity
  <2> QED BY <2>1, <2>2
<1>13. ClientInv'
  BY <1>9, <1>10, <1>11, <1>12 DEF ClientInv
<1>14. made' \in SUBSET Kits
  BY DEF VaultInv, VaultTypeOK
<1> QED BY <1>5, <1>6, <1>13, <1>14, ClientStep


----------------------------------------------------------------------------
(* Operations begin *)

\* A refresh begins.
LEMMA RefreshInv ==
  ASSUME VaultInv, NEW d \in Devices, NEW o \in Ops, Refresh(d, o)
  PROVE  VaultInv'
<1> PICK new : new = [New(d, o, "refresh", None, "list") EXCEPT !.ctl = o]
  OBVIOUS
<1> PICK c : c = [ctx[d] EXCEPT !.phase = "LOADING", !.owner = 0, !.code = None,
                                !.open = FALSE, !.kit = None, !.acked = TRUE]
  OBVIOUS
<1>1. /\ op[o].at = "none" /\ Start(d, o, new) /\ ctx' = [ctx EXCEPT ![d] = c]
      /\ UNCHANGED <<made, booted, objects, history, late, sess, reported, refused>>
  BY DEF Refresh, May, server
<1>2. /\ new \in Operation /\ new.dev = d /\ new.kind = "refresh" /\ new.at = "list"
      /\ new.cur /\ new.live /\ new.obj = None
  <2> PICK plain : plain = New(d, o, "refresh", None, "list")
    OBVIOUS
  <2>1. "refresh" \in Kinds /\ "list" \in Before /\ None \in Kits \cup {None}
    BY DEF Kinds, Before
  <2>2. /\ plain \in Operation /\ plain.dev = d /\ plain.kind = "refresh" /\ plain.at = "list"
        /\ plain.cur /\ plain.live /\ plain.obj = None
    BY <2>1, NewIs
  <2>3. new = [plain EXCEPT !.ctl = o]
    OBVIOUS
  <2> QED BY <2>2, <2>3 DEF Operation
<1>3. /\ c \in Context /\ c.phase = "LOADING" /\ ~c.open /\ c.code = None /\ c.kit = None
  <2>1. ctx[d] \in Context
    BY DEF VaultInv, VaultTypeOK
  <2> QED BY <2>1 DEF Context, Phases
<1>4. /\ keys' \in [Devices -> [Kits -> Signers \cup {None}]]
      /\ \A e \in Devices, j \in Kits : keys'[e][j] \in {keys[e][j], None}
  BY ZenonT(60) DEF Refresh, NoKeys, VaultInv, VaultTypeOK
<1>5. OpenOf(d)'
  BY <1>1, <1>3 DEF OpenOf, VaultInv, VaultTypeOK
<1>6. <<new.kind, new.at>> \in Beginnings /\ c.phase \in DOMAIN Waits /\ Waits[c.phase] = new.kind
  BY <1>2, <1>3 DEF Beginnings, Waits
<1>7. Begins(o, new, c)
  BY <1>2, <1>3, <1>6 DEF Begins
<1> QED BY <1>1, <1>2, <1>4, <1>5, <1>7, StartKeeps

\* A lock drops the keys of the selected workspace.
LEMMA LockedKeysAre ==
  ASSUME VaultInv, NEW d \in Devices, keys' = LockedKeys(d)
  PROVE  /\ keys' \in [Devices -> [Kits -> Signers \cup {None}]]
         /\ \A e \in Devices, j \in Kits : keys'[e][j] \in {keys[e][j], None}
  BY DEF LockedKeys, Dropped, VaultInv, VaultTypeOK

\* A creation begins.
LEMMA CreateInv ==
  ASSUME VaultInv, NEW d \in Devices, NEW o \in Ops, CreateWorkspace(d, o)
  PROVE  VaultInv'
<1> PICK new : new = New(d, o, "create", None, "prepare")
  OBVIOUS
<1> PICK c : c = [ctx[d] EXCEPT !.phase = "CREATING", !.owner = 0, !.code = None,
                                !.open = FALSE, !.unl = None]
  OBVIOUS
<1>1. /\ op[o].at = "none" /\ Start(d, o, new) /\ ctx' = [ctx EXCEPT ![d] = c]
      /\ UNCHANGED <<made, booted, objects, history, late, sess, reported, refused>>
      /\ ctx[d].kit = None
  BY DEF CreateWorkspace, May, server
<1>2. /\ new \in Operation /\ new.dev = d /\ new.kind = "create" /\ new.at = "prepare"
      /\ new.cur /\ new.live /\ new.obj = None
  <2>1. "create" \in Kinds /\ "prepare" \in Before /\ None \in Kits \cup {None}
    BY DEF Kinds, Before
  <2> QED BY <2>1, NewIs
<1>3. /\ c \in Context /\ c.phase = "CREATING" /\ ~c.open /\ c.code = None /\ c.kit = None
  <2>1. ctx[d] \in Context
    BY DEF VaultInv, VaultTypeOK
  <2> QED BY <1>1, <2>1, ZenonT(60) DEF Context, Phases
<1>4. /\ keys' \in [Devices -> [Kits -> Signers \cup {None}]]
      /\ \A e \in Devices, j \in Kits : keys'[e][j] \in {keys[e][j], None}
  BY LockedKeysAre DEF CreateWorkspace
<1>5. OpenOf(d)'
  BY <1>1, <1>3 DEF OpenOf, VaultInv, VaultTypeOK
<1>6. <<new.kind, new.at>> \in Beginnings /\ c.phase \in DOMAIN Waits /\ Waits[c.phase] = new.kind
  BY <1>2, <1>3 DEF Beginnings, Waits
<1>7. Begins(o, new, c)
  BY <1>2, <1>3, <1>6 DEF Begins
<1> QED BY <1>1, <1>2, <1>4, <1>5, <1>7, StartKeeps

\* The commit of a recovery kit begins.
LEMMA CommitInv ==
  ASSUME VaultInv, NEW d \in Devices, NEW o \in Ops, CommitRecoveryKit(d, o)
  PROVE  VaultInv'
<1>1. PICK k \in made :
        /\ \/ ctx[d].kit = k
           \/ ctx[d].kit = None /\ ctx[d].phase \in {"LOCKED", "UNLOCKING"}
        /\ Start(d, o, New(d, o, "commit", k, "bootstrap"))
        /\ ctx' = [ctx EXCEPT ![d] = [@ EXCEPT !.phase = "COMMITTING", !.owner = o, !.kit = k,
                                               !.acked = FALSE, !.ctl = op'[o].ctl]]
  BY DEF CommitRecoveryKit
<1>2. k \in Kits /\ ctx[d] \in Context /\ OpenOf(d)
  BY DEF VaultInv, VaultTypeOK, ContextInv
<1> PICK new : new = New(d, o, "commit", k, "bootstrap")
  OBVIOUS
<1>3. /\ new \in Operation /\ new.dev = d /\ new.kind = "commit" /\ new.at = "bootstrap" /\ new.kit = k
      /\ new.cur /\ new.live /\ new.obj = None
  <2>1. "commit" \in Kinds /\ "bootstrap" \in Before /\ k \in Kits \cup {None}
    BY <1>2 DEF Kinds, Before
  <2> QED BY <2>1, NewIs
<1>4. op'[o].ctl \in Ops \cup {0, None}
  <2>1. op'[o] = new
    BY <1>1 DEF Start, Superseded
  <2> QED BY <1>3, <2>1 DEF Operation
<1> PICK ctl \in Ops \cup {0, None} : ctl = op'[o].ctl
  BY <1>4
<1> PICK c : c = [ctx[d] EXCEPT !.phase = "COMMITTING", !.owner = o, !.kit = k, !.acked = FALSE,
                                !.ctl = ctl]
  OBVIOUS
<1>5. /\ op[o].at = "none" /\ Start(d, o, new) /\ ctx' = [ctx EXCEPT ![d] = c]
      /\ UNCHANGED <<made, booted, objects, history, late, sess, reported, refused>> /\ keys' = keys
  BY <1>1, <1>2 DEF CommitRecoveryKit, May, server, VaultInv, VaultTypeOK
<1>6. /\ c \in Context /\ c.phase = "COMMITTING" /\ c.open = ctx[d].open /\ c.kit = k /\ ~c.acked
      /\ c.owner = o
  BY <1>2 DEF Context, Phases
<1>7. ~ctx[d].open
  BY <1>1, <1>2, Names DEF OpenOf
<1>8. OpenOf(d)'
  BY <1>2, <1>5, <1>6, <1>7, Names DEF OpenOf, VaultInv, VaultTypeOK
<1>9. <<new.kind, new.at>> \in Beginnings /\ c.phase \in DOMAIN Waits /\ Waits[c.phase] = new.kind
  BY <1>3, <1>6 DEF Beginnings, Waits
<1>10. /\ keys' \in [Devices -> [Kits -> Signers \cup {None}]]
       /\ \A e \in Devices, j \in Kits : keys'[e][j] \in {keys[e][j], None}
  BY <1>5 DEF VaultInv, VaultTypeOK
<1>11. Begins(o, new, c)
  BY <1>2, <1>3, <1>6, <1>9 DEF Begins
<1> QED BY <1>3, <1>5, <1>8, <1>10, <1>11, StartKeeps

\* An unlock begins.
LEMMA UnlockInv ==
  ASSUME VaultInv, NEW d \in Devices, NEW o \in Ops, UnlockWorkspace(d, o)
  PROVE  VaultInv'
<1>1. ctx[d] \in Context /\ OpenOf(d) /\ ctx[d].sel # None /\ ctx[d].phase = "LOCKED"
  BY DEF VaultInv, VaultTypeOK, ContextInv, UnlockWorkspace
<1> PICK k \in Kits : k = ctx[d].sel
  BY <1>1 DEF Context
<1> PICK new : new = New(d, o, "unlock", k, "register")
  OBVIOUS
<1> PICK c : c = [ctx[d] EXCEPT !.phase = "UNLOCKING", !.owner = 0]
  OBVIOUS
<1>2. /\ op[o].at = "none" /\ Start(d, o, new) /\ ctx' = [ctx EXCEPT ![d] = c]
      /\ UNCHANGED <<made, booted, objects, history, late, sess, reported, refused>> /\ keys' = keys
  BY DEF UnlockWorkspace, May, server
<1>3. /\ new \in Operation /\ new.dev = d /\ new.kind = "unlock" /\ new.at = "register" /\ new.kit = k
      /\ new.cur /\ new.live /\ new.obj = None
  <2>1. "unlock" \in Kinds /\ "register" \in Before /\ k \in Kits \cup {None}
    BY DEF Kinds, Before
  <2> QED BY <2>1, NewIs
<1>4. /\ c \in Context /\ c.phase = "UNLOCKING" /\ c.open = ctx[d].open /\ c.kit = ctx[d].kit
      /\ c.acked = ctx[d].acked /\ c.code = ctx[d].code
  BY <1>1 DEF Context, Phases
<1>5. ~ctx[d].open
  BY <1>1 DEF OpenOf
<1>6. OpenOf(d)'
  BY <1>1, <1>2, <1>4, <1>5 DEF OpenOf, VaultInv, VaultTypeOK
<1>7. <<new.kind, new.at>> \in Beginnings /\ c.phase \in DOMAIN Waits /\ Waits[c.phase] = new.kind
  BY <1>3, <1>4 DEF Beginnings, Waits
<1>8. /\ keys' \in [Devices -> [Kits -> Signers \cup {None}]]
      /\ \A e \in Devices, j \in Kits : keys'[e][j] \in {keys[e][j], None}
  BY <1>2 DEF VaultInv, VaultTypeOK
<1>9. Begins(o, new, c)
  BY <1>3, <1>4, <1>7 DEF Begins
<1> QED BY <1>2, <1>3, <1>6, <1>8, <1>9, StartKeeps

\* A save begins, of what an unlocked device shows.
LEMMA SaveInv ==
  ASSUME VaultInv, NEW d \in Devices, NEW o \in Ops, SaveSnapshot(d, o)
  PROVE  VaultInv'
<1>1. ctx[d] \in Context /\ OpenOf(d) /\ MaySave(ctx[d])
  BY DEF VaultInv, VaultTypeOK, ContextInv, SaveSnapshot
<1>2. ctx[d].open /\ ctx[d].sel # None /\ ctx[d].unl # None /\ ctx[d].acked
  BY <1>1 DEF MaySave, OpenOf
<1> PICK k \in Kits : k = ctx[d].sel
  BY <1>1, <1>2 DEF Context
<1> PICK u \in VaultRef : u = ctx[d].unl
  BY <1>1, <1>2 DEF Context
<1> PICK i \in Signers \cup {None} : i = keys[d][k]
  BY DEF VaultInv, VaultTypeOK
<1> PICK new : new = [New(d, o, "save", k, "seal") EXCEPT !.base = u, !.sid = i]
  OBVIOUS
<1> PICK c : c = [ctx[d] EXCEPT !.phase = "SAVING", !.owner = o]
  OBVIOUS
<1>3. /\ op[o].at = "none" /\ Start(d, o, new) /\ ctx' = [ctx EXCEPT ![d] = c]
      /\ UNCHANGED <<made, booted, objects, history, late, sess, reported, refused>> /\ keys' = keys
  BY DEF SaveSnapshot, May, server
<1>4. /\ new \in Operation /\ new.dev = d /\ new.kind = "save" /\ new.at = "seal" /\ new.kit = k
      /\ new.cur /\ new.live /\ new.obj = None /\ new.base = u /\ new.sid = i
  <2> PICK plain : plain = New(d, o, "save", k, "seal")
    OBVIOUS
  <2>1. "save" \in Kinds /\ "seal" \in Before /\ k \in Kits \cup {None}
    BY DEF Kinds, Before
  <2>2. /\ plain \in Operation /\ plain.dev = d /\ plain.kind = "save" /\ plain.at = "seal"
        /\ plain.kit = k /\ plain.cur /\ plain.live /\ plain.obj = None
    BY <2>1, NewIs
  <2> DEFINE half == [plain EXCEPT !.base = u]
  <2>3. /\ half \in Operation /\ half.dev = d /\ half.kind = "save" /\ half.at = "seal"
        /\ half.kit = k /\ half.cur /\ half.live /\ half.obj = None /\ half.base = u
    BY <2>2 DEF Operation
  <2>4. new = [half EXCEPT !.sid = i]
    OBVIOUS
  <2> HIDE DEF half
  <2>5. /\ new.dev = d /\ new.kind = "save" /\ new.at = "seal" /\ new.kit = k
        /\ new.cur /\ new.live /\ new.obj = None /\ new.base = u /\ new.sid = i
    BY <2>3, <2>4 DEF Operation
  <2>6. new \in Operation
    BY <2>3, <2>4 DEF Operation
  <2> QED BY <2>5, <2>6
<1>5. /\ c \in Context /\ c.phase = "SAVING" /\ c.open /\ c.kit = ctx[d].kit /\ c.owner = o
      /\ c.acked = ctx[d].acked /\ c.code = ctx[d].code /\ c.unl = u /\ c.sel = k
  BY <1>1, <1>2 DEF Context, Phases
<1>6. u # None /\ u.kit = k /\ IsPublished(u) /\ ctx[d].code = k
  BY <1>1, <1>2, Names DEF OpenOf
<1>7. OpenOf(d)'
  <2>1. IsPublished(u)'
    BY <1>3, <1>6 DEF IsPublished
  <2>2. ctx'[d] = c
    BY <1>3 DEF VaultInv, VaultTypeOK
  <2>3. ctx[d].kit = None
    BY <1>1, <1>2 DEF OpenOf
  <2>4. /\ ctx'[d].phase = "SAVING" /\ ctx'[d].unl = u /\ ctx'[d].sel = k /\ ctx'[d].code = k
        /\ ctx'[d].open /\ ctx'[d].kit = None
    BY <1>5, <1>6, <2>2, <2>3
  <2> QED BY <1>6, <2>1, <2>4 DEF OpenOf, IsPublished
<1>8. <<new.kind, new.at>> \in Beginnings /\ c.phase \in DOMAIN Waits /\ Waits[c.phase] = new.kind
  BY <1>4, <1>5 DEF Beginnings, Waits
<1>9. i # None => sess[i] # None /\ sess[i].kit = k
  BY DEF VaultInv, SessionsInv, KeyOf
<1>10. /\ keys' \in [Devices -> [Kits -> Signers \cup {None}]]
       /\ \A e \in Devices, j \in Kits : keys'[e][j] \in {keys[e][j], None}
  BY <1>3 DEF VaultInv, VaultTypeOK
<1>11. Begins(o, new, c)
  BY <1>4, <1>5, <1>6, <1>8, <1>9 DEF Begins
<1> QED BY <1>3, <1>4, <1>7, <1>10, <1>11, StartKeeps


----------------------------------------------------------------------------
(* Operations without a workspace *)

\* An operation without requests ends.
LEMMA DoneStep ==
  ASSUME VaultInv, NEW o \in Ops, Busy(o), Done(o), ContextInv', ctx' \in [Devices -> Context],
         made' \in SUBSET Kits,
         UNCHANGED <<booted, objects, history, late, reported, refused>>, sess' = sess,
         keys' \in [Devices -> [Kits -> Signers \cup {None}]],
         \A e \in Devices, j \in Kits : keys'[e][j] \in {keys[e][j], None}
  PROVE  VaultInv'
<1>1. /\ OpsHold /\ OpsKept /\ ObjKept /\ op' \in [Ops -> Operation]
      /\ \A p \in Ops : StepsFollow(p)'
  BY DoneIs
<1>2. ClientTypeOK'
  BY <1>1 DEF ClientTypeOK, VaultInv, VaultTypeOK
<1>3. ServerGrows
  BY Grown
<1>4. SessionsInv'
  BY <1>1, <1>2, <1>3, SessionsKept
<1>5. ClientInv'
  BY <1>1, <1>2, <1>4 DEF ClientInv
<1> QED BY <1>1, <1>5, ClientStep

\* A listing ends, with workspaces or an error.
LEMMA ListedInv ==
  ASSUME VaultInv, NEW o \in Ops, Listed(o)
  PROVE  VaultInv'
<1>1. /\ op[o].at = "list" /\ op[o].kind = "refresh" /\ Busy(o) /\ Done(o) /\ sess' = sess
      /\ UNCHANGED <<booted, objects, history, late, reported, refused>> /\ made' \in SUBSET Kits
  BY DEF Listed, Busy, VaultInv, VaultTypeOK, StepsFollow, server
<1> PICK d \in Devices : d = op[o].dev
  BY <1>1 DEF VaultInv, StepsFollow, Busy
<1>2. ServerGrows
  BY <1>1, Grown
<1>3. OthersStay(o) /\ SameIdentity(op'[o], op[o]) /\ ~op'[o].cur
  BY <1>1, DoneIs
<1>4. /\ ctx[d] \in Context /\ OpenOf(d) /\ CurrentOf(o)
      /\ keys \in [Devices -> [Kits -> Signers \cup {None}]] /\ booted \in SUBSET Kits
  BY DEF VaultInv, VaultTypeOK, ContextInv
<1>5. CASE ~op[o].cur
  <2>1. ctx' = ctx /\ keys' = keys
    BY <1>5 DEF Listed
  <2>2. ctx' \in [Devices -> Context] /\ keys' \in [Devices -> [Kits -> Signers \cup {None}]]
        /\ \A e \in Devices, j \in Kits : keys'[e][j] \in {keys[e][j], None}
    BY <2>1 DEF VaultInv, VaultTypeOK
  <2>3. ContextInv'
    BY <1>1, <1>2, <1>3, <1>5, <2>1, ContextLeft
  <2> QED BY <1>1, <2>2, <2>3, DoneStep
<1>6. CASE op[o].cur
  <2>1. ctx[d].phase = "LOADING"
    BY <1>1, <1>4, <1>6 DEF CurrentOf, Waits
  <2>2. ~ctx[d].open
    BY <1>4, <2>1 DEF OpenOf
  <2>3. PICK c \in Context :
          /\ ctx' = [ctx EXCEPT ![d] = c]
          /\ c.phase \notin DOMAIN Waits /\ c.open = ctx[d].open /\ c.code = ctx[d].code
          /\ c.kit = ctx[d].kit /\ c.acked = ctx[d].acked
    <3>1. CASE ctx' = [ctx EXCEPT ![d].phase = "ERROR"]
      <4> PICK c : c = [ctx[d] EXCEPT !.phase = "ERROR"]
        OBVIOUS
      <4>1. /\ c \in Context /\ c.phase = "ERROR" /\ c.open = ctx[d].open /\ c.code = ctx[d].code
            /\ c.kit = ctx[d].kit /\ c.acked = ctx[d].acked
        BY <1>4 DEF Context, Phases
      <4>2. ctx' = [ctx EXCEPT ![d] = c]
        BY <3>1 DEF VaultInv, VaultTypeOK
      <4>3. c.phase \notin DOMAIN Waits
        BY <4>1 DEF Waits
      <4> QED BY <4>1, <4>2, <4>3
    <3>2. CASE ctx' # [ctx EXCEPT ![d].phase = "ERROR"]
      <4>1. PICK first \in IF booted = {} THEN {None} ELSE booted :
              ctx' = [ctx EXCEPT ![d] = [@ EXCEPT !.ctl = o, !.rows = booted, !.sel = first,
                         !.phase = IF booted = {} THEN "NEEDS_SETUP" ELSE "LOCKED"]]
        BY <1>6, <3>2 DEF Listed
      <4> PICK phase \in {"NEEDS_SETUP", "LOCKED"} : phase = IF booted = {} THEN "NEEDS_SETUP" ELSE "LOCKED"
        OBVIOUS
      <4> PICK c : c = [ctx[d] EXCEPT !.ctl = o, !.rows = booted, !.sel = first, !.phase = phase]
        OBVIOUS
      <4>2. first \in Kits \cup {None}
        BY <1>4, <4>1
      <4>3. /\ c \in Context /\ c.phase = phase /\ c.open = ctx[d].open /\ c.code = ctx[d].code
            /\ c.kit = ctx[d].kit /\ c.acked = ctx[d].acked
        <5>1. /\ c.phase = phase /\ c.open = ctx[d].open /\ c.code = ctx[d].code
              /\ c.kit = ctx[d].kit /\ c.acked = ctx[d].acked
          BY <1>4 DEF Context
        <5>2. phase \in Phases
          BY DEF Phases
        <5>3. c \in Context
          <6> DEFINE half == [ctx[d] EXCEPT !.ctl = o, !.rows = booted]
          <6>1. half \in Context
            BY <1>4 DEF Context
          <6>2. c = [half EXCEPT !.sel = first, !.phase = phase]
            BY <1>4 DEF Context
          <6> HIDE DEF half
          <6> QED BY <4>2, <5>2, <6>1, <6>2 DEF Context
        <5> QED BY <5>1, <5>3
      <4>4. ctx' = [ctx EXCEPT ![d] = c]
        BY <4>1 DEF VaultInv, VaultTypeOK
      <4>5. c.phase \notin DOMAIN Waits
        BY <4>3 DEF Waits
      <4> QED BY <4>3, <4>4, <4>5
    <3> QED BY <3>1, <3>2
  <2>4. ctx' \in [Devices -> Context] /\ ctx'[d] = c /\ \A e \in Devices : e # d => ctx'[e] = ctx[e]
    BY <2>3 DEF VaultInv, VaultTypeOK
  <2>5. OpenOf(d)'
    BY <1>4, <2>2, <2>3, <2>4 DEF OpenOf
  <2>6. ContextInv'
    BY <1>1, <1>2, <1>3, <1>6, <2>3, <2>4, <2>5, ContextAnswered
  <2>7. /\ keys' \in [Devices -> [Kits -> Signers \cup {None}]]
        /\ \A e \in Devices, j \in Kits : keys'[e][j] \in {keys[e][j], None}
    <3>1. keys' = keys \/ keys' = [keys EXCEPT ![d] = NoKeys]
      BY <1>6 DEF Listed
    <3> QED BY <1>4, <3>1 DEF NoKeys
  <2> QED BY <1>1, <2>4, <2>6, <2>7, DoneStep
<1> QED BY <1>5, <1>6

\* A creation ends with a kit nobody else has.
LEMMA PreparedInv ==
  ASSUME VaultInv, NEW o \in Ops, Prepared(o)
  PROVE  VaultInv'
<1>1. /\ op[o].at = "prepare" /\ Busy(o) /\ Done(o) /\ sess' = sess
      /\ UNCHANGED <<booted, objects, history, late, reported, refused>>
      /\ keys' \in [Devices -> [Kits -> Signers \cup {None}]]
      /\ \A e \in Devices, j \in Kits : keys'[e][j] \in {keys[e][j], None}
  BY DEF Prepared, Busy, VaultInv, VaultTypeOK, server
<1> PICK d \in Devices : d = op[o].dev
  BY <1>1 DEF VaultInv, StepsFollow, Busy
<1>2. ServerGrows
  BY <1>1, Grown
<1>3. OthersStay(o) /\ SameIdentity(op'[o], op[o]) /\ ~op'[o].cur
  BY <1>1, DoneIs
<1>4. CASE ~op[o].cur
  <2>1. ctx' = ctx /\ made' = made
    BY <1>4 DEF Prepared
  <2>2. ctx' \in [Devices -> Context] /\ made' \in SUBSET Kits
    BY <2>1 DEF VaultInv, VaultTypeOK
  <2>3. ContextInv'
    BY <1>1, <1>2, <1>3, <1>4, <2>1, ContextLeft
  <2> QED BY <1>1, <2>2, <2>3, DoneStep
<1>5. CASE op[o].cur
  <2>1. PICK k \in Kits \ made :
          /\ made' = made \cup {k}
          /\ ctx' = [ctx EXCEPT ![d] = [@ EXCEPT !.ctl = op[o].ctl, !.code = None, !.kit = k,
                         !.acked = FALSE, !.unl = None, !.open = FALSE, !.phase = "RECOVERY_READY"]]
    BY <1>5 DEF Prepared
  <2> PICK ctl \in Ops \cup {0, None} : ctl = op[o].ctl
    BY DEF VaultInv, VaultTypeOK, Operation
  <2> PICK c : c = [ctx[d] EXCEPT !.ctl = ctl, !.code = None, !.kit = k, !.acked = FALSE,
                                  !.unl = None, !.open = FALSE, !.phase = "RECOVERY_READY"]
    OBVIOUS
  <2>2. /\ ctx[d] \in Context /\ ctx' = [ctx EXCEPT ![d] = c]
    BY <2>1 DEF VaultInv, VaultTypeOK
  <2>3. c.phase = "RECOVERY_READY" /\ c.code = None /\ ~c.open /\ ~c.acked
    BY <2>2 DEF Context
  <2>4. c \in Context
    BY <2>2, ZenonT(60) DEF Context, Phases
  <2>5. ctx' \in [Devices -> Context] /\ ctx'[d] = c /\ \A e \in Devices : e # d => ctx'[e] = ctx[e]
    BY <2>2, <2>4 DEF VaultInv, VaultTypeOK
  <2>6. OpenOf(d)' /\ ctx'[d].phase \notin DOMAIN Waits
    BY <2>3, <2>5 DEF OpenOf, Waits
  <2>7. ContextInv'
    BY <1>1, <1>2, <1>3, <1>5, <2>5, <2>6, ContextAnswered
  <2>8. made' \in SUBSET Kits
    BY <2>1 DEF VaultInv, VaultTypeOK
  <2> QED BY <1>1, <2>5, <2>7, <2>8, DoneStep
<1> QED BY <1>4, <1>5

----------------------------------------------------------------------------
(* The user and the environment *)

\* A lock, a selection or a sign-out leaves nothing that waits.
LEMMA LeftInv ==
  ASSUME VaultInv, NEW d \in Devices, LockWorkspace(d) \/ SelectWorkspace(d) \/ SignOut(d)
  PROVE  VaultInv'
<1>1. /\ op' = Superseded(d)
      /\ UNCHANGED <<made, booted, objects, history, late, sess, reported, refused>>
  BY DEF LockWorkspace, SelectWorkspace, SignOut, server
<1>2. /\ keys' \in [Devices -> [Kits -> Signers \cup {None}]]
      /\ \A e \in Devices, j \in Kits : keys'[e][j] \in {keys[e][j], None}
  <2>1. CASE keys' = LockedKeys(d)
    BY <2>1, LockedKeysAre
  <2>2. CASE keys' = [keys EXCEPT ![d] = NoKeys]
    BY <2>2 DEF NoKeys, VaultInv, VaultTypeOK
  <2> QED BY <2>1, <2>2 DEF LockWorkspace, SelectWorkspace, SignOut
<1>3. PICK c \in Context :
        /\ ctx' = [ctx EXCEPT ![d] = c]
        /\ c.phase \notin DOMAIN Waits /\ ~c.open /\ c.code = None /\ c.kit = None
  <2>1. ctx[d] \in Context
    BY DEF VaultInv, VaultTypeOK
  <2>2. CASE LockWorkspace(d)
    <3> PICK c : c = [ctx[d] EXCEPT !.phase = "LOCKED", !.owner = 0, !.code = None,
                                    !.open = FALSE, !.unl = None]
      OBVIOUS
    <3>1. ctx' = [ctx EXCEPT ![d] = c] /\ ctx[d].kit = None
      BY <2>2 DEF LockWorkspace
    <3>2. c \in Context /\ c.phase = "LOCKED" /\ ~c.open /\ c.code = None /\ c.kit = None
      BY <2>1, <3>1, ZenonT(60) DEF Context, Phases
    <3>3. c.phase \notin DOMAIN Waits
      BY <3>2 DEF Waits
    <3> QED BY <3>1, <3>2, <3>3
  <2>3. CASE SelectWorkspace(d)
    <3>1. PICK k \in ctx[d].rows :
            ctx' = [ctx EXCEPT ![d] = [@ EXCEPT !.phase = "LOCKED", !.owner = 0, !.code = None,
                                                !.open = FALSE, !.unl = None, !.sel = k]]
      BY <2>3 DEF SelectWorkspace
    <3> PICK c : c = [ctx[d] EXCEPT !.phase = "LOCKED", !.owner = 0, !.code = None,
                                    !.open = FALSE, !.unl = None, !.sel = k]
      OBVIOUS
    <3>2. ctx' = [ctx EXCEPT ![d] = c] /\ ctx[d].kit = None /\ k \in Kits
      BY <2>1, <2>3, <3>1 DEF SelectWorkspace, Context
    <3>3. c.phase = "LOCKED" /\ ~c.open /\ c.code = None /\ c.kit = None
      BY <2>1, <3>2 DEF Context
    <3>4. c \in Context
      <4> DEFINE half == [ctx[d] EXCEPT !.phase = "LOCKED", !.owner = 0, !.code = None]
      <4>1. half \in Context
        BY <2>1 DEF Context, Phases
      <4>2. c = [half EXCEPT !.open = FALSE, !.unl = None, !.sel = k]
        BY <2>1 DEF Context
      <4> HIDE DEF half
      <4> QED BY <3>2, <4>1, <4>2 DEF Context
    <3>5. c.phase \notin DOMAIN Waits
      BY <3>3 DEF Waits
    <3> QED BY <3>2, <3>3, <3>4, <3>5
  <2>4. CASE SignOut(d)
    <3>1. ctx' = [ctx EXCEPT ![d] = SignedOut]
      BY <2>4 DEF SignOut
    <3>2. /\ SignedOut \in Context /\ SignedOut.phase = "SIGNED_OUT" /\ ~SignedOut.open
          /\ SignedOut.code = None /\ SignedOut.kit = None
      BY DEF SignedOut, Context, Phases
    <3> QED BY <3>1, <3>2 DEF Waits
  <2> QED BY <2>2, <2>3, <2>4
<1> QED BY <1>1, <1>2, <1>3, SupersededKeeps

\* What no operation, context or session is about keeps the invariant.
LEMMA Untouched ==
  ASSUME VaultInv, ServerGrows, UNCHANGED <<ctx, keys, sess, op>>
  PROVE  OpsHold /\ OpsKept /\ ObjKept /\ ClientInv'
<1>1. OpsKept /\ ObjKept
  BY DEF OpsKept, ObjKept, MayBePublished, SameIdentity, VaultInv, VaultTypeOK
<1>2. OpsHold
  <2>1. \A p \in Ops : SaveOf(p)
    BY DEF VaultInv, SessionsInv
  <2> QED BY <2>1 DEF OpsHold, SaveKept, SaveOf
<1>3. ClientTypeOK'
  BY DEF ClientTypeOK, VaultInv, VaultTypeOK
<1>4. ContextInv'
  BY ContextUntouched
<1>5. SessionsInv'
  BY <1>2, <1>3, SessionsKept
<1>6. \A p \in Ops : StepsFollow(p)'
  BY DEF VaultInv, StepsFollow
<1> QED BY <1>1, <1>2, <1>3, <1>4, <1>5, <1>6 DEF ClientInv

\* A damaged object, and a step of nobody, change neither history nor devices.
LEMMA DamageInv ==
  ASSUME VaultInv, NEW k, Damage(k) \/ UNCHANGED vars
  PROVE  VaultInv'
<1>1. /\ UNCHANGED <<ctx, keys, sess, op>> /\ made' \in SUBSET Kits
      /\ UNCHANGED <<booted, objects, history, late, reported, refused>>
  BY DEF Damage, vars, server, VaultInv, VaultTypeOK
<1>2. ServerGrows
  BY <1>1, Grown
<1> QED BY <1>1, <1>2, Untouched, ClientStep

\* A request that was given up takes effect after all.
LEMMA LateInv ==
  ASSUME VaultInv, NEW o \in Ops, NEW request \in Requests, Late(o, request)
  PROVE  VaultInv'
<1>1. /\ <<o, request>> \in late /\ late' \subseteq late /\ made' = made
      /\ UNCHANGED <<ctx, keys, sess, op>> /\ UNCHANGED <<reported, refused>>
  BY DEF Late
<1>2. NotYetPublished(o) /\ StepsFollow(o)
  BY DEF VaultInv, ServerInv
<1>3. op[o].kind \in {"commit", "unlock", "save"} /\ op[o].at # "none"
  BY <1>1, <1>2 DEF NotYetPublished, Requests, StepsFollow, NoOp
<1> PICK k \in Kits : k = op[o].kit
  BY <1>2, <1>3 DEF StepsFollow
<1>4. LateKept
  BY <1>1 DEF LateKept
<1>5. CASE request # "publish"
  <2>1. history' = history /\ booted' \in SUBSET Kits
    BY <1>5 DEF Late, VaultInv, VaultTypeOK
  <2>2. /\ objects' \in [Ids -> VaultObject \cup {None}]
        /\ \A id \in Ids : objects[id] # None => objects'[id] = objects[id]
        /\ \A p \in Ops : objects'[p] # None => objects'[p] = op[p].obj
    <3>1. CASE objects' = objects
      BY <3>1, ObjectsAreTheirs DEF VaultInv, VaultTypeOK
    <3>2. CASE Stored(o)
      BY <3>2, StoredIs
    <3> QED BY <1>5, <3>1, <3>2 DEF Late
  <2>3. ServerGrows
    BY <2>1, <2>2 DEF ServerGrows, VaultInv, VaultTypeOK
  <2>4. OpsHold /\ OpsKept /\ ObjKept /\ ClientInv'
    BY <1>1, <2>3, Untouched
  <2>5. ServerInv'
    BY <1>4, <2>1, <2>2, <2>4, ServerKept DEF VaultInv
  <2>6. ToldInv'
    BY <1>1, <2>1, <2>4, ToldUntouched
  <2>7. StoreTypeOK'
    BY <1>1, <2>1, <2>2 DEF StoreTypeOK, VaultInv, VaultTypeOK
  <2> QED BY <2>4, <2>5, <2>6, <2>7, Assembled
<1>6. CASE request = "publish"
  <2>1. MayFollow(o) /\ Published(o) /\ UNCHANGED <<booted, objects>>
    BY <1>6 DEF Late
  <2>2. OpsKept /\ ObjKept /\ MayBePublished(o)'
    BY <1>1, <1>2, <1>6 DEF OpsKept, ObjKept, MayBePublished, SameIdentity, VaultInv, VaultTypeOK,
                            NotYetPublished
  <2>3. /\ ServerInv' /\ history' \in [Kits -> Seq(Ids)] /\ ServerGrows
        /\ \A j \in Kits : j # k => history'[j] = history[j]
        /\ PublishedIn(k)' = PublishedIn(k) \cup {o}
    BY <1>3, <1>4, <2>1, <2>2, ServerPublished DEF VaultInv
  <2>4. OpsHold /\ ClientInv'
    BY <1>1, <2>3, Untouched
  <2>5. ToldInv'
    <3>1. o \notin Told("refused")
      BY <1>1, <1>6 DEF VaultInv, ToldInv
    <3>2. <<o, "refused">> \notin refused
      BY <3>1 DEF Told
    <3>3. \A j \in Kits : PublishedIn(j)' \subseteq PublishedIn(j) \cup {o}
      <4>1. \A j \in Kits : j # k => PublishedIn(j)' = PublishedIn(j)
        BY <2>3 DEF PublishedIn
      <4>2. PublishedIn(k)' \subseteq PublishedIn(k) \cup {o}
        BY <2>3
      <4> HIDE DEF PublishedIn
      <4> QED BY <4>1, <4>2
    <3> QED BY <1>1, <2>3, <2>4, <3>1, <3>2, <3>3, ToldKept
  <2>6. StoreTypeOK'
    BY <1>1, <2>1, <2>3 DEF StoreTypeOK, VaultInv, VaultTypeOK
  <2> QED BY <2>3, <2>4, <2>5, <2>6, Assembled
<1> QED BY <1>5, <1>6


----------------------------------------------------------------------------
(* The invariant *)

\* The initial states, for a choice of the stored workspaces, the selected one
\* and the unlocked devices.
Initially(stored, sel, unlocked) ==
    /\ made = stored /\ booted = stored
    /\ history = [k \in Kits |-> IF k \in stored THEN <<k>> ELSE <<>>]
    /\ objects = [i \in Ops \cup Kits |->
                    IF i \in stored THEN Object(i, 1, None, {}) ELSE None]
    /\ devices = {<<d, sel>> : d \in unlocked}
    /\ ctx = [d \in Devices |-> Listing(stored, sel, d \in unlocked)]
    /\ sess = [i \in Ops \cup Devices |->
                 IF i \in unlocked THEN [kit |-> sel, parent |-> sel, ro |-> FALSE] ELSE None]
    /\ keys = [d \in Devices |-> [k \in Kits |->
                 IF d \in unlocked /\ k = sel THEN d ELSE None]]

\* The invariant holds at first, with any workspaces stored and any devices unlocked.
LEMMA InitInv ==
  ASSUME Init
  PROVE  VaultInv
<1>0. \E stored \in SUBSET Kits :
      \E sel \in IF stored = {} THEN {None} ELSE stored :
      \E unlocked \in IF stored = {} THEN {{}} ELSE SUBSET Devices :
        Initially(stored, sel, unlocked)
  BY DEF Init, Initially
<1>1. PICK stored \in SUBSET Kits :
      \E sel \in IF stored = {} THEN {None} ELSE stored :
      \E unlocked \in IF stored = {} THEN {{}} ELSE SUBSET Devices :
        Initially(stored, sel, unlocked)
  BY <1>0
<1>2. PICK sel \in IF stored = {} THEN {None} ELSE stored :
      \E unlocked \in IF stored = {} THEN {{}} ELSE SUBSET Devices :
        Initially(stored, sel, unlocked)
  BY <1>1
<1>3a. PICK unlocked \in IF stored = {} THEN {{}} ELSE SUBSET Devices :
        Initially(stored, sel, unlocked)
  BY <1>2
<1>3. /\ ctx = [d \in Devices |-> Listing(stored, sel, d \in unlocked)]
      /\ sess = [i \in Ops \cup Devices |->
                   IF i \in unlocked THEN [kit |-> sel, parent |-> sel, ro |-> FALSE] ELSE None]
      /\ keys = [d \in Devices |-> [k \in Kits |->
                   IF d \in unlocked /\ k = sel THEN d ELSE None]]
  BY <1>3a DEF Initially
<1>4. /\ late = {} /\ op = [o \in Ops |-> NoOp] /\ reported = {} /\ refused = {}
      /\ made = stored /\ booted = stored
      /\ history = [k \in Kits |-> IF k \in stored THEN <<k>> ELSE <<>>]
      /\ objects = [i \in Ids |-> IF i \in stored THEN Object(i, 1, None, {}) ELSE None]
  BY <1>3a DEF Init, Initially, Ids
<1>5. unlocked \subseteq Devices /\ \A d \in unlocked : sel \in Kits /\ sel \in stored /\ stored # {}
  BY <1>2, <1>3a
<1>6. sel \in Kits \cup {None}
  BY <1>2
<1>7. NoOp \in Operation /\ NoOp.at = "none" /\ ~NoOp.cur /\ NoOp.kind = "none" /\ NoOp.obj = None
      /\ NoOp.kit = None
  BY DEF NoOp, Operation, Kinds, Before
<1>8. ASSUME NEW d \in Devices
      PROVE  /\ ctx[d] \in Context
             /\ ctx[d].phase \in {"NEEDS_SETUP", "UNLOCKED", "LOCKED"}
             /\ ctx[d].open <=> d \in unlocked
             /\ ctx[d].kit = None
             /\ d \in unlocked => /\ ctx[d].phase = "UNLOCKED" /\ ctx[d].sel = sel /\ ctx[d].code = sel
                                  /\ ctx[d].unl = Ref(sel, 1, {}, FALSE)
             /\ d \notin unlocked => ctx[d].code = None
  <2> DEFINE open == d \in unlocked
  <2>0. open \in BOOLEAN
    OBVIOUS
  <2> PICK phase \in {"NEEDS_SETUP", "UNLOCKED", "LOCKED"} :
        phase = IF stored = {} THEN "NEEDS_SETUP" ELSE IF open THEN "UNLOCKED" ELSE "LOCKED"
    <3>1. CASE stored = {}
      BY <3>1
    <3>2. CASE stored # {} /\ open
      BY <3>2
    <3>3. CASE stored # {} /\ ~open
      BY <3>3
    <3> QED BY <3>1, <3>2, <3>3
  <2> PICK code \in Kits \cup {None} : code = IF open THEN sel ELSE None
    BY <1>6
  <2> PICK unl \in VaultRef \cup {None} : unl = IF open THEN Ref(sel, 1, {}, FALSE) ELSE None
    <3>1. open => Ref(sel, 1, {}, FALSE) \in VaultRef
      BY <1>5 DEF Ref, VaultRef
    <3> QED BY <3>1
  <2>1. SignedOut \in Context /\ SignedOut.kit = None
    BY DEF SignedOut, Context, Phases
  <2>2. ctx[d] = [SignedOut EXCEPT !.ctl = 0, !.rows = stored, !.sel = sel, !.phase = phase,
                                   !.open = open, !.code = code, !.unl = unl]
    BY <1>3 DEF Listing
  <2> DEFINE half == [SignedOut EXCEPT !.ctl = 0, !.rows = stored, !.sel = sel]
  <2> HIDE DEF open
  <2>3. half \in Context
    BY <1>6, <2>1 DEF Context
  <2>4. ctx[d] = [half EXCEPT !.phase = phase, !.open = open, !.code = code, !.unl = unl]
    BY <2>1, <2>2 DEF Context
  <2>5. ctx[d].phase = phase /\ ctx[d].open = open /\ ctx[d].kit = None /\ ctx[d].code = code
        /\ ctx[d].sel = sel /\ ctx[d].unl = unl
    BY <2>2 DEF SignedOut
  <2> HIDE DEF half
  <2>6. phase \in Phases
    BY DEF Phases
  <2>7. ctx[d] \in Context
    BY <2>0, <2>3, <2>4, <2>6 DEF Context
  <2> USE DEF open
  <2> QED BY <1>5, <2>5, <2>7
<1>9. VaultTypeOK
  <2>1. history \in [Kits -> Seq(Ids)]
    <3>1. \A k \in Kits : <<k>> \in Seq(Ids) /\ <<>> \in Seq(Ids)
      BY DEF Ids
    <3> QED BY <1>4, <3>1
  <2>2. objects \in [Ids -> VaultObject \cup {None}]
    <3>1. \A i \in stored : Object(i, 1, None, {}) \in VaultObject
      BY DEF Object, VaultObject
    <3> QED BY <1>4, <3>1
  <2>3. keys \in [Devices -> [Kits -> Signers \cup {None}]]
    BY <1>3 DEF Signers
  <2>4. sess \in [Signers -> Session \cup {None}]
    <3>1. \A i \in unlocked : [kit |-> sel, parent |-> sel, ro |-> FALSE] \in Session
      BY <1>5 DEF Session, Ids
    <3> QED BY <1>3, <3>1 DEF Signers
  <2>5. ctx \in [Devices -> Context]
    BY <1>3, <1>8
  <2> QED BY <1>4, <1>7, <2>1, <2>2, <2>3, <2>4, <2>5 DEF VaultTypeOK
<1>10. ASSUME NEW o \in Ops
       PROVE  /\ op[o] = NoOp /\ StepsFollow(o) /\ SaveOf(o) /\ CurrentOf(o) /\ ~op[o].cur
              /\ objects[o] = None
  <2>1. op[o] = NoOp /\ NoOp.dev = None
    BY <1>4 DEF NoOp
  <2>2. o \notin stored
    BY Names
  <2> QED BY <1>4, <1>7, <2>1, <2>2 DEF StepsFollow, SaveOf, CurrentOf, Ids, Sending
<1>11. ASSUME NEW k \in Kits
       PROVE  /\ k \notin stored => history[k] = <<>> /\ Len(history[k]) = 0
              /\ k \in stored => history[k] = <<k>> /\ Len(history[k]) = 1 /\ history[k][1] = k
              /\ k \in stored => objects[k] = Object(k, 1, None, {})
  BY <1>4 DEF Ids
<1>12. ServerInv
  <2>1. ASSUME NEW k \in Kits PROVE HistoryOf(k)
    <3>1. CASE k \in stored
      <4>1. k \notin Ops /\ Object(k, 1, None, {}) \in VaultObject
        BY Names DEF Object, VaultObject
      <4>2. GenerationOf(k, 1)
        BY <1>11, <3>1, <4>1, Names DEF GenerationOf, Object
      <4>3. \A g \in 1..Len(history[k]) : g = 1
        <5>1. Len(history[k]) = 1
          BY <1>11, <3>1
        <5>2. \A g \in 1..1 : g = 1
          OBVIOUS
        <5> QED BY ONLY <5>1, <5>2, Zenon
      <4> QED BY <4>2, <4>3 DEF HistoryOf
    <3>2. CASE k \notin stored
      BY <1>11, <3>2 DEF HistoryOf
    <3> QED BY <3>1, <3>2
  <2>2. ASSUME NEW o \in Ops PROVE ObjectOf(o) /\ NotYetPublished(o)
    <3>1. \A k \in Kits : o \notin PublishedIn(k)
      <4>1. \A k \in Kits : \A g \in 1..Len(history[k]) : history[k][g] \in Kits
        BY <1>11
      <4> QED BY <4>1, Names DEF PublishedIn
    <3> QED BY <1>4, <1>7, <1>10, <3>1 DEF ObjectOf, NotYetPublished
  <2> QED BY <2>1, <2>2 DEF ServerInv
<1>13. SessionsInv
  <2>1. ASSUME NEW i \in Signers PROVE SessionOf(i)
    <3>1. sess[i] # None => i \in unlocked /\ sess[i] = [kit |-> sel, parent |-> sel, ro |-> FALSE]
      BY <1>3 DEF Signers
    <3>2. i \in unlocked => sel \in PublishedIn(sel) /\ i \notin Ops
      BY <1>5, <1>11, Names DEF PublishedIn
    <3> QED BY <3>1, <3>2 DEF SessionOf
  <2>2. ASSUME NEW d \in Devices, NEW k \in Kits PROVE KeyOf(d, k)
    <3>1. keys[d][k] # None => d \in unlocked /\ k = sel /\ keys[d][k] = d
      BY <1>3
    <3>2. d \in unlocked => sess[d] # None /\ sess[d].kit = sel
      <4>1. d \in unlocked => sess[d] = [kit |-> sel, parent |-> sel, ro |-> FALSE]
        BY <1>3
      <4>2. d \in unlocked => [kit |-> sel, parent |-> sel, ro |-> FALSE] \in Session
        BY <1>5 DEF Session, Ids
      <4> QED BY <4>1, <4>2, Names
    <3> QED BY <3>1, <3>2 DEF KeyOf
  <2> QED BY <1>10, <2>1, <2>2 DEF SessionsInv
<1>14. ContextInv
  <2>1. ASSUME NEW d \in Devices PROVE OpenOf(d)
    <3>1. CASE d \in unlocked
      <4> PICK u : u = Ref(sel, 1, {}, FALSE)
        OBVIOUS
      <4>1. u \in VaultRef /\ u.kit = sel /\ u.gen = 1 /\ u.snap = {}
        BY <1>5, <3>1 DEF Ref, VaultRef
      <4>2. IsPublished(u)
        <5>1. sel \in Kits /\ sel \in stored
          BY <1>5, <3>1
        <5>2. history[sel] = <<sel>> /\ Len(history[sel]) = 1 /\ history[sel][1] = sel
          BY <1>11, <5>1
        <5>3. objects[sel] # None /\ objects[sel].snap = {}
          <6>1. objects[sel] = Object(sel, 1, None, {})
            BY <1>11, <5>1
          <6>2. Object(sel, 1, None, {}) \in VaultObject
            BY <5>1 DEF Object, VaultObject
          <6>3. Object(sel, 1, None, {}).snap = {}
            BY DEF Object
          <6> QED BY <6>1, <6>2, <6>3, Names
        <5>4. u.gen \in 1..Len(history[u.kit])
          <6>1. Len(history[u.kit]) = 1 /\ u.gen = 1
            BY <4>1, <5>2
          <6>2. 1 \in 1..1
            OBVIOUS
          <6> QED BY ONLY <6>1, <6>2, Zenon
        <5>5. history[u.kit][u.gen] = sel
          BY <4>1, <5>2
        <5>6. objects[history[u.kit][u.gen]].snap = u.snap
          BY <4>1, <5>3, <5>5
        <5> QED BY <5>4, <5>6 DEF IsPublished
      <4>3. u # None
        BY <4>1, Names
      <4> QED BY <1>8, <3>1, <4>1, <4>2, <4>3 DEF OpenOf
    <3>2. CASE d \notin unlocked
      BY <1>8, <3>2 DEF OpenOf
    <3> QED BY <3>1, <3>2
  <2>2. BusyPhaseEnds
    BY <1>8 DEF BusyPhaseEnds, Waits
  <2> QED BY <1>10, <2>1, <2>2 DEF ContextInv
<1>15. ToldInv
  BY <1>4 DEF ToldInv, Told
<1> QED BY <1>9, <1>10, <1>12, <1>13, <1>14, <1>15 DEF VaultInv

\* Every step keeps it.
LEMMA StepKeeps ==
  ASSUME VaultInv, [Next]_vars
  PROVE  VaultInv'
<1>1. CASE \E d \in Devices, o \in Ops :
             \/ Refresh(d, o) \/ CreateWorkspace(d, o) \/ CommitRecoveryKit(d, o)
             \/ UnlockWorkspace(d, o) \/ SaveSnapshot(d, o)
  BY <1>1, RefreshInv, CreateInv, CommitInv, UnlockInv, SaveInv
<1>2. CASE \E o \in Ops : Listed(o) \/ Prepared(o) \/ Seal(o) \/ Loaded(o) \/ HistoryRead(o)
  BY <1>2, ListedInv, PreparedInv, SealInv, LoadedInv, HistoryReadInv
<1>3. CASE \E o \in Ops : Bootstrapped(o) \/ Registered(o) \/ UploadAnswered(o)
  BY <1>3, AnsweredInv
<1>4. CASE \E o \in Ops : PublishChecked(o) \/ PublishAnswered(o) \/ Refused(o) \/ GiveUp(o)
                          \/ Look(o) \/ Confirm(o)
  BY <1>4, PublishCheckedInv, PublishAnsweredInv, RefusedInv, GiveUpInv, LookInv, ConfirmInv
<1>5. CASE \E o \in Ops, request \in Requests : Late(o, request)
  BY <1>5, LateInv
<1>6. CASE \E d \in Devices : LockWorkspace(d) \/ SelectWorkspace(d) \/ SignOut(d)
  BY <1>6, LeftInv
<1>7. CASE (\E k \in Kits : Damage(k)) \/ UNCHANGED vars
  BY <1>7, DamageInv
<1> QED BY <1>1, <1>2, <1>3, <1>4, <1>5, <1>6, <1>7 DEF Next

\* The invariant of encrypted workspaces holds always: generations follow their parents, sessions name
\* published ones, a device has one current operation, and saves were told what is true.
THEOREM VaultInvariant == Spec => []VaultInv
<1>1. Init => VaultInv
  BY InitInv
<1>2. VaultInv /\ [Next]_vars => VaultInv'
  BY StepKeeps
<1> QED BY <1>1, <1>2, PTL DEF Spec

\* What a device shows as unlocked is a generation somebody published, of the workspace that is
\* selected and whose code is in memory, whatever overlaps (WorkspaceProvider's three references).
THEOREM UnlockedAlwaysPublished == Spec => []UnlockedIsPublished
<1>1. VaultInv => UnlockedIsPublished
  BY DEF VaultInv, ContextInv, OpenOf, IsPublished, UnlockedIsPublished
<1> QED BY <1>1, VaultInvariant, PTL

\* A device in a busy phase has a current operation of the kind it waits for (isCurrentOperation): no
\* superseded or aborted operation leaves the panel waiting for ever.
THEOREM EveryBusyPhaseEnds == Spec => []BusyPhaseEnds
<1>1. VaultInv => BusyPhaseEnds
  BY DEF VaultInv, ContextInv
<1> QED BY <1>1, VaultInvariant, PTL

----------------------------------------------------------------------------
(* A workspace is a register of versions *)

\* What the head of a workspace holds.
HeadSnap(k) == IF history[k] = <<>> THEN {} ELSE objects[history[k][Len(history[k])]].snap

\* A save that was reported is held by the head of its workspace.
HeldInv == \A o \in reported : o \in HeadSnap(op[o].kit)

\* What the versions of a workspace are, one by one.
LEMMA VersionsAre ==
  ASSUME VaultTypeOK, ServerInv, NEW k \in Kits
  PROVE  /\ Versions(k) \in Seq(SUBSET Ops) /\ Len(Versions(k)) = Len(history[k])
         /\ \A g \in 1..Len(history[k]) : Versions(k)[g] = objects[history[k][g]].snap
         /\ Versions(k) = <<>> <=> history[k] = <<>>
<1>1. PICK n \in Nat : n = Len(history[k])
  BY DEF VaultTypeOK
<1>2. \A g \in 1..n : objects[history[k][g]].snap \in SUBSET Ops
  <2> SUFFICES ASSUME NEW g \in 1..n PROVE objects[history[k][g]].snap \in SUBSET Ops
    OBVIOUS
  <2>1. history[k][g] \in Ids
    BY <1>1 DEF VaultTypeOK
  <2>2. objects[history[k][g]] # None
    BY <1>1 DEF ServerInv, HistoryOf, GenerationOf
  <2>3. objects[history[k][g]] \in VaultObject
    BY <2>1, <2>2 DEF VaultTypeOK
  <2> QED BY <2>3 DEF VaultObject
<1>3. Versions(k) \in [1..n -> SUBSET Ops]
  BY <1>1, <1>2 DEF Versions
<1>4. Versions(k) \in Seq(SUBSET Ops) /\ Len(Versions(k)) = n
  BY <1>3
<1>5. \A g \in 1..n : Versions(k)[g] = objects[history[k][g]].snap
  BY <1>1 DEF Versions
<1>6. history[k] \in Seq(Ids)
  BY DEF VaultTypeOK
<1>7. Versions(k) = <<>> <=> history[k] = <<>>
  BY <1>1, <1>4, <1>6, EmptySeq
<1> QED BY <1>1, <1>4, <1>5, <1>7

\* The latest version of the register is what the head holds.
LEMMA LatestIs ==
  ASSUME VaultTypeOK, ServerInv, NEW k \in Kits
  PROVE  Register(k)!Latest = HeadSnap(k)
<1>1. /\ Len(Versions(k)) = Len(history[k])
      /\ \A g \in 1..Len(history[k]) : Versions(k)[g] = objects[history[k][g]].snap
      /\ Versions(k) = <<>> <=> history[k] = <<>>
  BY VersionsAre
<1>2. history[k] # <<>> => Len(history[k]) \in 1..Len(history[k])
  BY DEF VaultTypeOK
<1> QED BY <1>1, <1>2 DEF Register!Latest, HeadSnap


\* A published save adds to the version before it, and holds itself.
LEMMA HeadGrows ==
  ASSUME VaultTypeOK, ServerInv, NEW o \in Ops, NEW k \in Kits, k = op[o].kit, MayFollow(o)
  PROVE  /\ objects[o] # None /\ objects[o] \in VaultObject /\ HeadSnap(k) \subseteq objects[o].snap
         /\ op[o].kind = "save" => o \in objects[o].snap
<1>0. PICK n \in Nat : n = Len(history[k])
  BY DEF VaultTypeOK
<1>1. history[k] \in Seq(Ids) /\ n = Len(history[k]) /\ n \in Nat /\ o \in Ids
  BY <1>0 DEF VaultTypeOK, Ids
<1>2. /\ objects[o] # None /\ objects[o] = op[o].obj /\ op[o].obj # None
      /\ op[o].kind \in {"commit", "save"} /\ objects[o] \in VaultObject
      /\ op[o].obj.gen = n + 1 /\ op[o].obj.parent = HeadOf(k)
  <2>1. ObjectOf(o) /\ objects[o] \in VaultObject \cup {None}
    BY <1>1 DEF ServerInv, VaultTypeOK
  <2>2. /\ objects[o] # None /\ objects[o].parent = HeadOf(k) /\ objects[o].gen = n + 1
    BY <1>1 DEF MayFollow
  <2>3. objects[o] = op[o].obj
    BY <2>1, <2>2 DEF ObjectOf
  <2> QED BY <2>1, <2>2, <2>3 DEF ObjectOf
<1>3. CASE op[o].kind = "commit"
  <2>1. op[o].obj = Object(k, 1, None, {})
    BY <1>2, <1>3 DEF ServerInv, ObjectOf
  <2>2. n = 0
    BY <1>1, <1>2, <2>1 DEF Object
  <2>3. history[k] = <<>>
    BY <1>1, <2>2, EmptySeq
  <2> QED BY <1>2, <1>3, <2>3 DEF HeadSnap
<1>4. CASE op[o].kind = "save"
  <2>1. /\ op[o].obj.parent \in PublishedIn(k)
        /\ op[o].obj.snap = objects[op[o].obj.parent].snap \cup {o}
    BY <1>2, <1>4 DEF ServerInv, ObjectOf
  <2>2. history[k] # <<>>
    BY <1>1, <2>1 DEF PublishedIn
  <2>3. HeadOf(k) = history[k][n]
    BY <1>1, <2>2 DEF HeadOf, Last
  <2>4. op[o].obj.snap = HeadSnap(k) \cup {o}
    BY <1>1, <1>2, <2>1, <2>2, <2>3 DEF HeadSnap
  <2> QED BY <1>2, <2>4
<1> QED BY <1>2, <1>3, <1>4

\* What the head holds was published.
LEMMA HeldIsPublished ==
  ASSUME VaultTypeOK, ServerInv, NEW k \in Kits
  PROVE  HeadSnap(k) \subseteq PublishedIn(k) /\ HeadSnap(k) \subseteq Ops
<1>1. CASE history[k] = <<>>
  BY <1>1 DEF HeadSnap
<1>2. CASE history[k] # <<>>
  <2>1. PICK n \in Nat : n = Len(history[k])
    BY DEF VaultTypeOK
  <2>2. n \in 1..n /\ history[k][n] \in Ids
    BY <1>2, <2>1 DEF VaultTypeOK
  <2>3. GenerationOf(k, n)
    BY <2>1, <2>2 DEF ServerInv, HistoryOf
  <2>4. HeadSnap(k) = objects[history[k][n]].snap
    BY <1>2, <2>1 DEF HeadSnap
  <2>5. HeadSnap(k) \subseteq PublishedIn(k)
    BY <2>1, <2>3, <2>4 DEF GenerationOf, PublishedIn
  <2>6. objects[history[k][n]] \in VaultObject
    BY <2>2, <2>3 DEF GenerationOf, VaultTypeOK
  <2> QED BY <2>4, <2>5, <2>6 DEF VaultObject
<1> QED BY <1>1, <1>2

----------------------------------------------------------------------------
(* What a step does to versions and to what saves were told *)

KitsKept == \A p \in Ops : op[p].at # "none" => op'[p].kit = op[p].kit
ObjectsKept == \A id \in Ids : objects[id] # None => objects'[id] = objects[id]

NothingTold == history' = history /\ reported' = reported /\ refused' = refused
ToldRefused ==
    \E o \in Ops, how \in {"refused", "overtaken"} :
        /\ op[o].at # "none" /\ op[o].kit \in Kits
        /\ history' = history /\ reported' = reported /\ refused' = refused \cup {<<o, how>>}
ToldSaved ==
    \E o \in Ops :
        /\ op[o].kind = "save" /\ op[o].at # "none" /\ op[o].kit \in Kits
        /\ op[o].obj # None /\ HeadOf(op[o].kit) = o
        /\ history' = history /\ reported' = reported \cup {o} /\ refused' = refused
NewVersion ==
    \E o \in Ops :
        /\ op[o].at # "none" /\ op[o].kit \in Kits /\ MayFollow(o) /\ Published(o)
        /\ \/ reported' = reported
           \/ op[o].kind = "save" /\ reported' = reported \cup {o}
        /\ refused' = refused

VersionStep ==
    /\ KitsKept /\ ObjectsKept
    /\ NothingTold \/ ToldRefused \/ ToldSaved \/ NewVersion

\* An operation that keeps what it is keeps its workspace.
LEMMA KitsOf ==
  ASSUME NEW o \in Ops, OthersStay(o), op[o].at = "none" \/ SameIdentity(op'[o], op[o])
  PROVE  KitsKept
  BY DEF OthersStay, SameIdentity, KitsKept

\* A step of a device alone publishes and stores nothing.
LEMMA Unchanged_Server ==
  ASSUME UNCHANGED server
  PROVE  history' = history /\ ObjectsKept
  BY DEF server, ObjectsKept

\* An operation goes on.
LEMMA StepTells ==
  ASSUME VaultInv, NEW o \in Ops, NEW at \in Before \cup Sending \cup {"load", "history", "done"},
         Step(o, at), history' = history, ObjectsKept, reported' = reported, refused' = refused
  PROVE  VersionStep
<1>1. KitsKept
  BY Stepped, KitsOf DEF VaultInv
<1> QED BY <1>1 DEF VersionStep, NothingTold

\* An operation ends without a word about a save.
LEMMA DoneTells ==
  ASSUME VaultInv, NEW o \in Ops,
         Done(o), history' = history, ObjectsKept, reported' = reported, refused' = refused
  PROVE  VersionStep
<1>1. KitsKept
  BY Ended, KitsOf DEF VaultInv
<1> QED BY <1>1 DEF VersionStep, NothingTold

\* One that fails may tell its save that nothing was applied.
LEMMA FailedTells ==
  ASSUME VaultInv, NEW o \in Ops, NEW how \in {"unknown", "refused", "overtaken"},
         op[o].at # "none", Failed(o, how), history' = history, ObjectsKept
  PROVE  VersionStep
<1>1. KitsKept
  BY Ended, KitsOf DEF VaultInv, Failed
<1>2. op[o].kind = "save" => op[o].kit \in Kits
  BY DEF VaultInv, StepsFollow
<1>3. reported' = reported
  BY DEF Failed
<1>4. CASE op[o].kind = "save" /\ how # "unknown"
  <2>1. how \in {"refused", "overtaken"} /\ refused' = refused \cup {<<o, how>>}
    BY <1>4 DEF Failed
  <2>2. ToldRefused
    BY <1>2, <1>3, <1>4, <2>1 DEF ToldRefused
  <2> QED BY <1>1, <2>2 DEF VersionStep
<1>5. CASE ~(op[o].kind = "save" /\ how # "unknown")
  <2>1. refused' = refused
    BY <1>5 DEF Failed
  <2> QED BY <1>1, <1>3, <2>1 DEF VersionStep, NothingTold
<1> QED BY <1>4, <1>5

\* So may one that reconciles.
LEMMA ReconciledTells ==
  ASSUME VaultInv, NEW o \in Ops, NEW how \in {"unknown", "refused", "overtaken"},
         NEW conflict \in BOOLEAN,
         op[o].at # "none", Reconciled(o, how, conflict), history' = history, ObjectsKept
  PROVE  VersionStep
<1>1. CASE Failed(o, how)
  BY <1>1, FailedTells
<1>2. CASE /\ op' = [op EXCEPT ![o].at = "load", ![o].quiet = TRUE]
           /\ UNCHANGED <<ctx, keys, sess, reported, refused>>
  <2>1. KitsKept
    BY <1>2, QuietLoad, KitsOf DEF VaultInv
  <2> QED BY <1>2, <2>1 DEF VersionStep, NothingTold
<1> QED BY <1>1, <1>2 DEF Reconciled

\* To open a generation tells nothing.
LEMMA OpenedTells ==
  ASSUME VaultInv, NEW o \in Ops, NEW id, NEW ro, Opened(o, id, ro), history' = history, ObjectsKept
  PROVE  VersionStep
<1>1. Done(o) /\ reported' = reported /\ refused' = refused
  BY DEF Opened
<1> QED BY <1>1, DoneTells

\* Nor does a beginning,
LEMMA StartTells ==
  ASSUME VaultInv, NEW d \in Devices, NEW o \in Ops, NEW new, May(o), Start(d, o, new),
         UNCHANGED server, reported' = reported, refused' = refused
  PROVE  VersionStep
<1>1. KitsKept
  <2> SUFFICES ASSUME NEW p \in Ops, op[p].at # "none" PROVE op'[p].kit = op[p].kit
    BY DEF KitsKept
  <2>1. p # o
    BY DEF May
  <2>2. Superseded(d) \in [Ops -> Operation] /\ SameIdentity(Superseded(d)[p], op[p])
    BY SupersededOps DEF VaultInv
  <2>3. op'[p] = Superseded(d)[p]
    BY <2>1, <2>2 DEF Start
  <2> QED BY <2>2, <2>3 DEF SameIdentity
<1> QED BY <1>1, Unchanged_Server DEF VersionStep, NothingTold

\* nor leaving a workspace.
LEMMA LeftTells ==
  ASSUME VaultInv, NEW d \in Devices, op' = Superseded(d),
         UNCHANGED server, reported' = reported, refused' = refused
  PROVE  VersionStep
<1>1. KitsKept
  BY SupersededOps DEF VaultInv, KitsKept, SameIdentity
<1> QED BY <1>1, Unchanged_Server DEF VersionStep, NothingTold

\* So none of the five beginnings does.
LEMMA BeginningsTell ==
  ASSUME VaultInv, NEW d \in Devices, NEW o \in Ops,
         \/ Refresh(d, o) \/ CreateWorkspace(d, o) \/ CommitRecoveryKit(d, o)
         \/ UnlockWorkspace(d, o) \/ SaveSnapshot(d, o)
  PROVE  VersionStep
<1>1. /\ May(o) /\ UNCHANGED server /\ reported' = reported /\ refused' = refused
      /\ \E new : Start(d, o, new)
  BY DEF Refresh, CreateWorkspace, CommitRecoveryKit, UnlockWorkspace, SaveSnapshot
<1> QED BY <1>1, StartTells

\* A save that cannot be sealed is told so; no other local step tells anything.
LEMMA LocalStepsTell ==
  ASSUME VaultInv, NEW o \in Ops, Listed(o) \/ Prepared(o) \/ Seal(o)
  PROVE  VersionStep
<1>1. CASE Listed(o) \/ Prepared(o)
  <2>1. Done(o) /\ UNCHANGED server /\ reported' = reported /\ refused' = refused
    BY <1>1 DEF Listed, Prepared
  <2> QED BY <2>1, DoneTells, Unchanged_Server
<1>2. CASE Seal(o)
  <2>1. op[o].at = "seal" /\ UNCHANGED server
    BY <1>2 DEF Seal
  <2>2. CASE Failed(o, "refused")
    BY <2>1, <2>2, FailedTells, Unchanged_Server
  <2>3. CASE ~Failed(o, "refused")
    <3>1. reported' = reported /\ refused' = refused
      BY <1>2, <2>3 DEF Seal
    <3>2. PICK x : op' = [op EXCEPT ![o].at = "upload", ![o].obj = x]
      BY <1>2, <2>3 DEF Seal
    <3>3. KitsKept
      BY <3>2 DEF KitsKept, VaultInv, VaultTypeOK, Operation
    <3> QED BY <2>1, <3>1, <3>3, Unchanged_Server DEF VersionStep, NothingTold
  <2> QED BY <2>2, <2>3
<1> QED BY <1>1, <1>2

\* What an operation sent is stored as it was sealed.
LEMMA StoredKeeps ==
  ASSUME VaultInv, NEW o \in Ops, Stored(o)
  PROVE  ObjectsKept
<1>1. objects[o] # None => objects[o] = op[o].obj
  BY DEF VaultInv, ServerInv, ObjectOf
<1> QED BY <1>1 DEF Stored, ObjectsKept, VaultInv, VaultTypeOK

\* An answered request stores at most what was sealed.
LEMMA AnswersTell ==
  ASSUME VaultInv, NEW o \in Ops,
         Bootstrapped(o) \/ Registered(o) \/ UploadAnswered(o) \/ Loaded(o) \/ HistoryRead(o)
  PROVE  VersionStep
<1>1. CASE Bootstrapped(o) \/ Registered(o)
  <2>1. Step(o, "register") \/ Step(o, "load")
    BY <1>1 DEF Bootstrapped, Registered
  <2>2. history' = history /\ objects' = objects /\ reported' = reported /\ refused' = refused
    BY <1>1 DEF Bootstrapped, Registered
  <2>3. ObjectsKept
    BY <2>2 DEF ObjectsKept
  <2> QED BY <2>1, <2>2, <2>3, StepTells DEF Before
<1>2. CASE UploadAnswered(o)
  <2>1. Step(o, "publish") /\ Stored(o) /\ history' = history /\ reported' = reported /\ refused' = refused
    BY <1>2 DEF UploadAnswered
  <2> QED BY <2>1, StoredKeeps, StepTells DEF Sending
<1>3. CASE Loaded(o)
  <2>1. op[o].at = "load" /\ UNCHANGED server
    BY <1>3 DEF Loaded
  <2>2. CASE Failed(o, "unknown")
    BY <2>1, <2>2, FailedTells, Unchanged_Server
  <2>3. CASE Opened(o, HeadOf(op[o].kit), FALSE)
    BY <2>1, <2>3, OpenedTells, Unchanged_Server
  <2>4. CASE Step(o, "seal") /\ reported' = reported /\ refused' = refused
    BY <2>1, <2>4, StepTells, Unchanged_Server DEF Before
  <2>5. CASE /\ op' = [op EXCEPT ![o].at = "history", ![o].skip = HeadOf(op[o].kit)]
             /\ reported' = reported /\ refused' = refused
    <3>1. KitsKept
      BY <2>5 DEF KitsKept, VaultInv, VaultTypeOK, Operation
    <3> QED BY <2>1, <2>5, <3>1, Unchanged_Server DEF VersionStep, NothingTold
  <2> QED BY <1>3, <2>2, <2>3, <2>4, <2>5 DEF Loaded
<1>4. CASE HistoryRead(o)
  <2>1. op[o].at = "history" /\ UNCHANGED server
    BY <1>4 DEF HistoryRead
  <2>2. CASE Failed(o, "unknown")
    BY <2>1, <2>2, FailedTells, Unchanged_Server
  <2>3. CASE Opened(o, Newest(op[o].kit, op[o].skip), TRUE)
    BY <2>1, <2>3, OpenedTells, Unchanged_Server
  <2> QED BY <1>4, <2>2, <2>3 DEF HistoryRead
<1> QED BY <1>1, <1>2, <1>3, <1>4

\* A save that finds itself published tells so.
LEMMA SavedTells ==
  ASSUME VaultInv, NEW o \in Ops, Saved(o)
  PROVE  /\ KitsKept /\ refused' = refused
         /\ \/ reported' = reported
            \/ op[o].kind = "save" /\ reported' = reported \cup {o}
<1>1. KitsKept
  BY Ended, KitsOf DEF VaultInv, Saved
<1> QED BY <1>1 DEF Saved

\* A publication adds a version, a confirmation tells that there is one, a conflict that there is none.
LEMMA PublishingTells ==
  ASSUME VaultInv, NEW o \in Ops, PublishChecked(o) \/ PublishAnswered(o) \/ Confirm(o)
  PROVE  VersionStep
<1>1. op[o].kit \in Kits /\ op[o].at # "none" /\ op[o].obj # None
  BY DEF PublishChecked, PublishAnswered, Confirm, VaultInv, StepsFollow, Sending
<1>2. CASE PublishChecked(o)
  <2>1. UNCHANGED server
    BY <1>2 DEF PublishChecked
  <2>2. CASE Step(o, "swap") /\ reported' = reported /\ refused' = refused
    BY <2>1, <2>2, StepTells, Unchanged_Server DEF Sending
  <2>3. CASE Reconciled(o, "refused", TRUE)
    BY <1>1, <2>1, <2>3, ReconciledTells, Unchanged_Server
  <2> QED BY <1>2, <2>2, <2>3 DEF PublishChecked
<1>3. CASE PublishAnswered(o)
  <2>1. ObjectsKept
    BY <1>3 DEF PublishAnswered, ObjectsKept
  <2>2. CASE MayFollow(o) /\ Published(o) /\ Saved(o)
    <3>1. NewVersion
      BY <1>1, <2>2, SavedTells DEF NewVersion
    <3> QED BY <2>1, <2>2, <3>1, SavedTells DEF VersionStep
  <2>3. CASE Reconciled(o, "refused", TRUE) /\ history' = history
    BY <1>1, <2>1, <2>3, ReconciledTells
  <2> QED BY <1>3, <2>2, <2>3 DEF PublishAnswered
<1>4. CASE Confirm(o)
  <2>1. history' = history /\ ObjectsKept
    BY <1>4, Unchanged_Server DEF Confirm
  <2>2. CASE HeadOf(op[o].kit) = o /\ Saved(o)
    <3>1. NothingTold \/ ToldSaved
      BY <1>1, <2>1, <2>2, SavedTells DEF NothingTold, ToldSaved
    <3> QED BY <2>1, <2>2, <3>1, SavedTells DEF VersionStep
  <2>3. CASE Reconciled(o, "overtaken", TRUE) \/ Reconciled(o, "unknown", FALSE)
    BY <1>1, <2>1, <2>3, ReconciledTells
  <2> QED BY <1>4, <2>2, <2>3 DEF Confirm
<1> QED BY <1>2, <1>3, <1>4

\* Refusals tell, losses do not.
LEMMA RefusalsTell ==
  ASSUME VaultInv, NEW o \in Ops, Refused(o) \/ GiveUp(o) \/ Look(o)
  PROVE  VersionStep
<1>1. op[o].at # "none" /\ history' = history /\ ObjectsKept
  <2>1. UNCHANGED server
    BY DEF Refused, GiveUp, Look
  <2> QED BY <2>1, Unchanged_Server DEF Refused, GiveUp, Look
<1>2. CASE Failed(o, "refused") \/ Failed(o, "unknown")
  BY <1>1, <1>2, FailedTells
<1>3. CASE /\ Step(o, "look") \/ Step(o, "confirm") \/ Step(o, "publish")
           /\ reported' = reported /\ refused' = refused
  BY <1>1, <1>3, StepTells DEF Sending
<1>4. CASE Reconciled(o, "unknown", FALSE)
  BY <1>1, <1>4, ReconciledTells
<1>5. CASE Refused(o)
  BY <1>2, <1>5 DEF Refused
<1>6. CASE GiveUp(o)
  BY <1>2, <1>3, <1>6 DEF GiveUp
<1>7. CASE Look(o)
  BY <1>2, <1>3, <1>4, <1>7 DEF Look
<1> QED BY <1>5, <1>6, <1>7

\* A late request publishes at most its own object.
LEMMA LateTells ==
  ASSUME VaultInv, NEW o \in Ops, NEW request \in Requests, Late(o, request)
  PROVE  VersionStep
<1>1. KitsKept /\ reported' = reported /\ refused' = refused
  BY DEF Late, KitsKept
<1>2. CASE history' = history /\ (objects' = objects \/ Stored(o))
  <2>1. ObjectsKept
    BY <1>2, StoredKeeps DEF ObjectsKept
  <2> QED BY <1>1, <1>2, <2>1 DEF VersionStep, NothingTold
<1>3. CASE request = "publish" /\ MayFollow(o) /\ Published(o) /\ objects' = objects
  <2>1. op[o].kind \in {"commit", "unlock", "save"}
    BY <1>3 DEF Late, VaultInv, ServerInv, NotYetPublished
  <2>2. op[o].kit \in Kits /\ op[o].at # "none"
    BY <2>1 DEF VaultInv, StepsFollow, NoOp
  <2>3. ObjectsKept
    BY <1>3 DEF ObjectsKept
  <2> QED BY <1>1, <1>3, <2>2, <2>3 DEF VersionStep, NewVersion
<1> QED BY <1>2, <1>3 DEF Late

\* So every step is one of the four kinds.
LEMMA EveryStepTells ==
  ASSUME VaultInv, [Next]_vars
  PROVE  VersionStep
<1>1. CASE \E d \in Devices, o \in Ops :
             \/ Refresh(d, o) \/ CreateWorkspace(d, o) \/ CommitRecoveryKit(d, o)
             \/ UnlockWorkspace(d, o) \/ SaveSnapshot(d, o)
  BY <1>1, BeginningsTell
<1>2. CASE \E o \in Ops : Listed(o) \/ Prepared(o) \/ Seal(o)
  BY <1>2, LocalStepsTell
<1>3. CASE \E o \in Ops :
             Bootstrapped(o) \/ Registered(o) \/ UploadAnswered(o) \/ Loaded(o) \/ HistoryRead(o)
  BY <1>3, AnswersTell
<1>4. CASE \E o \in Ops : PublishChecked(o) \/ PublishAnswered(o) \/ Confirm(o)
  BY <1>4, PublishingTells
<1>5. CASE \E o \in Ops : Refused(o) \/ GiveUp(o) \/ Look(o)
  BY <1>5, RefusalsTell
<1>6. CASE \E o \in Ops, request \in Requests : Late(o, request)
  BY <1>6, LateTells
<1>7. CASE \E d \in Devices : LockWorkspace(d) \/ SelectWorkspace(d) \/ SignOut(d)
  BY <1>7, LeftTells DEF LockWorkspace, SelectWorkspace, SignOut
<1>8. CASE (\E k \in Kits : Damage(k)) \/ UNCHANGED vars
  BY <1>8 DEF Damage, vars, server, VersionStep, NothingTold, KitsKept, ObjectsKept
<1> QED BY <1>1, <1>2, <1>3, <1>4, <1>5, <1>6, <1>7, <1>8 DEF Next

----------------------------------------------------------------------------
(* Each step of the vault is one of the register, or none *)

\* Saves stay with their workspace once they were told.
LEMMA ToldKits ==
  ASSUME VaultInv, KitsKept
  PROVE  /\ \A o \in reported : o \in Ops /\ op'[o].kit = op[o].kit /\ op[o].kit \in Kits
         /\ \A o \in Told("refused") : o \in Ops /\ op'[o].kit = op[o].kit
  BY DEF VaultInv, ToldInv, Told, KitsKept

\* The saves reported in a workspace are those of before, and the one that was just reported.
LEMMA ReportedStay ==
  ASSUME VaultInv, KitsKept, NEW k \in Kits
  PROVE  /\ reported' = reported => Of(k, reported)' = Of(k, reported)
         /\ \A o \in Ops : op[o].at # "none" /\ reported' = reported \cup {o} =>
              Of(k, reported)' = IF op[o].kit = k THEN Of(k, reported) \cup {o} ELSE Of(k, reported)
  BY ToldKits DEF Of, KitsKept

\* Likewise the refused ones.
LEMMA RefusedStay ==
  ASSUME VaultInv, KitsKept, NEW k \in Kits
  PROVE  /\ refused' = refused => Of(k, Told("refused"))' = Of(k, Told("refused"))
         /\ \A o \in Ops : op[o].at # "none" /\ refused' = refused \cup {<<o, "refused">>} =>
              Of(k, Told("refused"))' = IF op[o].kit = k THEN Of(k, Told("refused")) \cup {o}
                                        ELSE Of(k, Told("refused"))
         /\ \A o \in Ops : refused' = refused \cup {<<o, "overtaken">>} =>
              Of(k, Told("refused"))' = Of(k, Told("refused"))
<1>1. refused' = refused => Told("refused")' = Told("refused")
  BY DEF Told
<1>2. \A o \in Ops : refused' = refused \cup {<<o, "refused">>} =>
        Told("refused")' = Told("refused") \cup {o}
  BY DEF Told
<1>3. \A o \in Ops : refused' = refused \cup {<<o, "overtaken">>} =>
        Told("refused")' = Told("refused")
  BY DEF Told
<1>4. Told("refused")' = Told("refused") => Of(k, Told("refused"))' = Of(k, Told("refused"))
  BY ToldKits DEF Of
<1>5. \A o \in Ops : op[o].at # "none" /\ Told("refused")' = Told("refused") \cup {o} =>
        Of(k, Told("refused"))' = IF op[o].kit = k THEN Of(k, Told("refused")) \cup {o}
                                  ELSE Of(k, Told("refused"))
  BY ToldKits DEF Of, KitsKept
<1> QED BY <1>1, <1>2, <1>3, <1>4, <1>5

\* The versions of a workspace to which nothing is published stay as they are.
LEMMA VersionsStay ==
  ASSUME VaultTypeOK, ServerInv, ObjectsKept, NEW k \in Kits, history'[k] = history[k]
  PROVE  Versions(k)' = Versions(k) /\ HeadSnap(k)' = HeadSnap(k)
<1>1. \A g \in 1..Len(history[k]) : objects'[history[k][g]] = objects[history[k][g]]
  <2> SUFFICES ASSUME NEW g \in 1..Len(history[k])
               PROVE  objects'[history[k][g]] = objects[history[k][g]]
    OBVIOUS
  <2>1. history[k][g] \in Ids
    BY DEF VaultTypeOK
  <2>2. objects[history[k][g]] # None
    BY DEF ServerInv, HistoryOf, GenerationOf
  <2> QED BY <2>1, <2>2 DEF ObjectsKept
<1>2. Versions(k)' = Versions(k)
  BY <1>1 DEF Versions
<1>3. history[k] # <<>> => Len(history[k]) \in 1..Len(history[k])
  BY DEF VaultTypeOK
<1>4. HeadSnap(k)' = HeadSnap(k)
  BY <1>1, <1>3 DEF HeadSnap
<1> QED BY <1>2, <1>4

\* A refused save is in no version.
LEMMA RefusedIsNotHeld ==
  ASSUME VaultInv, NEW k \in Kits
  PROVE  HeadSnap(k) \cap Told("refused") = {}
<1>1. HeadSnap(k) \subseteq PublishedIn(k)
  BY HeldIsPublished DEF VaultInv
<1> QED BY <1>1 DEF VaultInv, ToldInv

\* The same, as predicates of a state and of the next one.
VersionsOf(k) ==
    /\ Versions(k) \in Seq(SUBSET Ops) /\ Len(Versions(k)) = Len(history[k])
    /\ \A g \in 1..Len(history[k]) : Versions(k)[g] = objects[history[k][g]].snap
    /\ Register(k)!Latest = HeadSnap(k)
    /\ HeadSnap(k) \cap Told("refused") = {}
VersionsInv == \A k \in Kits : VersionsOf(k)

\* They hold in every state of the invariant.
LEMMA VaultVersions == VaultInv => VersionsInv
<1> SUFFICES ASSUME VaultInv, NEW k \in Kits PROVE VersionsOf(k)
  BY DEF VersionsInv
<1> QED BY VersionsAre, LatestIs, RefusedIsNotHeld DEF VersionsOf, VaultInv

RegisterStep(k) == [Register(k)!Next]_(Register(k)!registerVars)

\* A quiet step is no step of the register.
LEMMA NothingToldStep ==
  ASSUME VaultInv, HeldInv, KitsKept, ObjectsKept, NothingTold
  PROVE  HeldInv' /\ \A k \in Kits : RegisterStep(k)
<1>1. \A k \in Kits : Versions(k)' = Versions(k) /\ HeadSnap(k)' = HeadSnap(k)
  BY VersionsStay DEF NothingTold, VaultInv
<1>2. \A k \in Kits : /\ Of(k, reported)' = Of(k, reported)
                      /\ Of(k, Told("refused"))' = Of(k, Told("refused"))
  BY ReportedStay, RefusedStay DEF NothingTold
<1>3. \A k \in Kits : RegisterStep(k)
  BY <1>1, <1>2 DEF RegisterStep, Register!registerVars
<1>4. HeldInv'
  BY <1>1, ToldKits DEF HeldInv, NothingTold
<1> QED BY <1>3, <1>4

\* A refusal is one of the register: the save is in no version.
LEMMA ToldRefusedStep ==
  ASSUME VaultInv, VersionsInv', HeldInv, KitsKept, ObjectsKept, ToldRefused
  PROVE  HeldInv' /\ \A k \in Kits : RegisterStep(k)
<1>1. PICK o \in Ops, how \in {"refused", "overtaken"} :
        /\ op[o].at # "none" /\ op[o].kit \in Kits
        /\ history' = history /\ reported' = reported /\ refused' = refused \cup {<<o, how>>}
  BY DEF ToldRefused
<1>2. \A k \in Kits : Versions(k)' = Versions(k) /\ HeadSnap(k)' = HeadSnap(k)
  BY <1>1, VersionsStay DEF VaultInv
<1>3. \A k \in Kits : Of(k, reported)' = Of(k, reported)
  BY <1>1, ReportedStay
<1>4. HeldInv'
  BY <1>1, <1>2, ToldKits DEF HeldInv
<1>5. ASSUME NEW k \in Kits PROVE RegisterStep(k)
  <2>1. CASE Of(k, Told("refused"))' = Of(k, Told("refused"))
    BY <1>2, <1>3, <2>1 DEF RegisterStep, Register!registerVars
  <2>2. CASE Of(k, Told("refused"))' # Of(k, Told("refused"))
    <3>1. /\ how = "refused" /\ op[o].kit = k
          /\ Of(k, Told("refused"))' = Of(k, Told("refused")) \cup {o}
      BY <1>1, <2>2, RefusedStay
    <3>2. o \in Told("refused")'
      BY <1>1, <3>1 DEF Told
    <3>3. HeadSnap(k)' \cap Told("refused")' = {}
      BY DEF VersionsInv, VersionsOf
    <3>4. Register(k)!Latest = HeadSnap(k)
      BY LatestIs DEF VaultInv
    <3>5. o \in Ops \ Register(k)!Latest
      BY <1>2, <3>2, <3>3, <3>4
    <3>6. Register(k)!Refuse
      BY <1>2, <1>3, <3>1, <3>5 DEF Register!Refuse, Register!Latest
    <3> QED BY <3>6 DEF RegisterStep, Register!Next
  <2> QED BY <2>1, <2>2
<1> QED BY <1>4, <1>5

\* A report is one of the register: the head holds the save.
LEMMA ToldSavedStep ==
  ASSUME VaultInv, HeldInv, KitsKept, ObjectsKept, ToldSaved
  PROVE  HeldInv' /\ \A k \in Kits : RegisterStep(k)
<1>1. PICK o \in Ops :
        /\ op[o].kind = "save" /\ op[o].at # "none" /\ op[o].kit \in Kits
        /\ op[o].obj # None /\ HeadOf(op[o].kit) = o
        /\ history' = history /\ reported' = reported \cup {o} /\ refused' = refused
  BY DEF ToldSaved
<1>2. \A k \in Kits : Versions(k)' = Versions(k) /\ HeadSnap(k)' = HeadSnap(k)
  BY <1>1, VersionsStay DEF VaultInv
<1>3. \A k \in Kits : Of(k, Told("refused"))' = Of(k, Told("refused"))
  BY <1>1, RefusedStay
<1>4. PICK j \in Kits : j = op[o].kit
  BY <1>1
<1>5. o \in HeadSnap(j)
  <2>1. history[j] # <<>> /\ history[j] \in Seq(Ids)
    BY <1>1, <1>4, Names DEF HeadOf, Ids, VaultInv, VaultTypeOK
  <2>2. PICK n \in Nat : n = Len(history[j])
    BY <2>1
  <2>3. n \in 1..n /\ history[j][n] = o
    BY <1>1, <1>4, <2>1, <2>2 DEF HeadOf, Last
  <2>4. objects[o] # None
    BY <2>2, <2>3 DEF VaultInv, ServerInv, HistoryOf, GenerationOf
  <2>5. o \in objects[o].snap
    BY <1>1, <2>4 DEF VaultInv, ServerInv, ObjectOf
  <2> QED BY <2>1, <2>2, <2>3, <2>5 DEF HeadSnap
<1>6. HeldInv'
  <2>1. op'[o].kit = j
    BY <1>1, <1>4 DEF KitsKept
  <2> QED BY <1>1, <1>2, <1>5, <2>1, ToldKits DEF HeldInv
<1>7. ASSUME NEW k \in Kits PROVE RegisterStep(k)
  <2>1. CASE k # j
    <3>1. Of(k, reported)' = Of(k, reported)
      BY <1>1, <1>4, <2>1, ReportedStay
    <3> QED BY <1>2, <1>3, <3>1 DEF RegisterStep, Register!registerVars
  <2>2. CASE k = j
    <3>1. Of(k, reported)' = Of(k, reported) \cup {o}
      BY <1>1, <1>4, <2>2, ReportedStay
    <3>2. o \in Register(k)!Latest
      BY <1>5, <2>2, LatestIs DEF VaultInv
    <3>3. Register(k)!Report
      BY <1>2, <1>3, <3>1, <3>2 DEF Register!Report, Register!Latest
    <3> QED BY <3>3 DEF RegisterStep, Register!Next
  <2> QED BY <2>1, <2>2
<1> QED BY <1>6, <1>7

\* A publication is a commit of the register: it keeps what the head held and holds no refused save.
LEMMA NewVersionStep ==
  ASSUME VaultInv, VersionsInv', HeldInv, KitsKept, ObjectsKept, NewVersion
  PROVE  HeldInv' /\ \A k \in Kits : RegisterStep(k)
<1>1. PICK o \in Ops :
        /\ op[o].at # "none" /\ op[o].kit \in Kits /\ MayFollow(o) /\ Published(o)
        /\ \/ reported' = reported
           \/ op[o].kind = "save" /\ reported' = reported \cup {o}
        /\ refused' = refused
  BY DEF NewVersion
<1>2. PICK j \in Kits : j = op[o].kit
  BY <1>1
<1>3. /\ history'[j] = Append(history[j], o)
      /\ \A k \in Kits : k # j => history'[k] = history[k]
  BY <1>1, <1>2 DEF Published, VaultInv, VaultTypeOK
<1>4. PICK v : v = objects[o].snap
  OBVIOUS
<1>5. /\ HeadSnap(j) \subseteq v /\ (op[o].kind = "save" => o \in v)
      /\ v \in SUBSET Ops /\ objects'[o] = objects[o]
  <2>1. /\ objects[o] # None /\ objects[o] \in VaultObject /\ HeadSnap(j) \subseteq objects[o].snap
        /\ op[o].kind = "save" => o \in objects[o].snap
    BY <1>1, <1>2, HeadGrows DEF VaultInv
  <2> QED BY <1>4, <2>1 DEF VaultObject, ObjectsKept, Ids
<1>6. HeadSnap(j)' = v
  <2>1. history[j] \in Seq(Ids) /\ o \in Ids
    BY DEF VaultInv, VaultTypeOK, Ids
  <2>2. history'[j] # <<>> /\ history'[j][Len(history'[j])] = o
    BY <1>3, <2>1
  <2> QED BY <1>4, <1>5, <2>2 DEF HeadSnap
<1>7. \A k \in Kits : k # j => Versions(k)' = Versions(k) /\ HeadSnap(k)' = HeadSnap(k)
  BY <1>3, VersionsStay DEF VaultInv
<1>8. \A k \in Kits : Of(k, Told("refused"))' = Of(k, Told("refused"))
  BY <1>1, RefusedStay
<1>9. Versions(j)' = Append(Versions(j), v)
  <2>1. PICK n \in Nat : n = Len(history[j])
    BY DEF VaultInv, VaultTypeOK
  <2>2. /\ Versions(j) \in Seq(SUBSET Ops) /\ Len(Versions(j)) = n
        /\ \A g \in 1..n : Versions(j)[g] = objects[history[j][g]].snap
    BY <2>1, VersionsAre DEF VaultInv
  <2>3. /\ Versions(j)' \in Seq(SUBSET Ops) /\ Len(Versions(j)') = Len(history'[j])
        /\ \A g \in 1..Len(history'[j]) : Versions(j)'[g] = objects'[history'[j][g]].snap
    BY DEF VersionsInv, VersionsOf
  <2>4. history[j] \in Seq(Ids) /\ o \in Ids
    BY DEF VaultInv, VaultTypeOK, Ids
  <2>5. /\ Len(history'[j]) = n + 1 /\ history'[j][n + 1] = o
        /\ \A g \in 1..n : history'[j][g] = history[j][g]
    BY <1>3, <2>1, <2>4
  <2>6. \A g \in 1..n : objects'[history[j][g]] = objects[history[j][g]]
    <3> SUFFICES ASSUME NEW g \in 1..n PROVE objects'[history[j][g]] = objects[history[j][g]]
      OBVIOUS
    <3>1. history[j][g] \in Ids
      BY <2>1, <2>4
    <3>2. objects[history[j][g]] # None
      BY <2>1 DEF VaultInv, ServerInv, HistoryOf, GenerationOf
    <3> QED BY <3>1, <3>2 DEF ObjectsKept
  <2>7. Append(Versions(j), v) \in Seq(SUBSET Ops) /\ Len(Append(Versions(j), v)) = n + 1
        /\ Append(Versions(j), v)[n + 1] = v
        /\ \A g \in 1..n : Append(Versions(j), v)[g] = Versions(j)[g]
    BY <1>5, <2>2
  <2>8. ASSUME NEW g \in 1..(n + 1) PROVE Versions(j)'[g] = Append(Versions(j), v)[g]
    <3>1. CASE g = n + 1
      BY <1>4, <1>5, <2>3, <2>5, <2>7, <3>1
    <3>2. CASE g # n + 1
      <4>1. g \in 1..n
        BY <3>2
      <4> QED BY <2>2, <2>3, <2>5, <2>6, <2>7, <4>1
    <3> QED BY <3>1, <3>2
  <2> QED BY <2>3, <2>5, <2>7, <2>8, SeqEqual
<1>10. HeldInv'
  <2>1. \A p \in reported : op'[p].kit = op[p].kit /\ op[p].kit \in Kits /\ p \in HeadSnap(op[p].kit)'
    BY <1>5, <1>6, <1>7, ToldKits DEF HeldInv
  <2>2. op'[o].kit = j
    BY <1>1, <1>2 DEF KitsKept
  <2> QED BY <1>1, <1>5, <1>6, <2>1, <2>2 DEF HeldInv
<1>11. ASSUME NEW k \in Kits PROVE RegisterStep(k)
  <2>1. CASE k # j
    <3>1. Of(k, reported)' = Of(k, reported)
      BY <1>1, <1>2, <2>1, ReportedStay
    <3> QED BY <1>7, <1>8, <2>1, <3>1 DEF RegisterStep, Register!registerVars
  <2>2. CASE k = j
    <3>1. Register(k)!Latest = HeadSnap(k)
      BY LatestIs DEF VaultInv
    <3>2. Of(k, reported)' \subseteq v /\ Of(k, reported) \subseteq Of(k, reported)'
      <4>1. Of(k, reported) \subseteq HeadSnap(k)
        BY DEF Of, HeldInv
      <4> QED BY <1>1, <1>2, <1>5, <2>2, <4>1, ReportedStay
    <3>3. v \cap Of(k, Told("refused")) = {}
      <4>1. HeadSnap(k)' \cap Told("refused")' = {}
        BY DEF VersionsInv, VersionsOf
      <4>2. Told("refused")' = Told("refused")
        BY <1>1 DEF Told
      <4> QED BY <1>6, <2>2, <4>1, <4>2 DEF Of
    <3>4. Of(k, reported)' \in SUBSET Versions(k)'[Len(Versions(k)')]
      <4>1. Versions(k) \in Seq(SUBSET Ops)
        BY VersionsAre DEF VaultInv
      <4>2. Versions(k)'[Len(Versions(k)')] = v
        BY <1>5, <1>9, <2>2, <4>1
      <4> QED BY <3>2, <4>2
    <3>5. Register(k)!Commit
      BY <1>5, <1>8, <1>9, <2>2, <3>1, <3>2, <3>3, <3>4 DEF Register!Commit, Register!Latest
    <3> QED BY <3>5 DEF RegisterStep, Register!Next
  <2> QED BY <2>1, <2>2
<1> QED BY <1>10, <1>11

\* A workspace begins as a register with no version or an empty one.
LEMMA RegisterInit ==
  ASSUME Init, NEW k \in Kits
  PROVE  Register(k)!Init /\ HeldInv
<1>1. PICK stored \in SUBSET Kits :
      \E sel \in IF stored = {} THEN {None} ELSE stored :
      \E unlocked \in IF stored = {} THEN {{}} ELSE SUBSET Devices :
        Initially(stored, sel, unlocked)
  BY DEF Init, Initially
<1>2. /\ history = [j \in Kits |-> IF j \in stored THEN <<j>> ELSE <<>>]
      /\ objects = [i \in Ops \cup Kits |-> IF i \in stored THEN Object(i, 1, None, {}) ELSE None]
  BY <1>1 DEF Initially
<1>3. reported = {} /\ refused = {}
  BY DEF Init
<1>4. Of(k, reported) = {} /\ Of(k, Told("refused")) = {} /\ HeldInv
  BY <1>3 DEF Of, Told, HeldInv
<1>5. \E n \in 0..1 : Versions(k) \in [1..n -> {{}}]
  <2>1. CASE k \in stored
    <3>1. Len(history[k]) = 1 /\ history[k][1] = k /\ objects[k].snap = {}
      BY <1>2, <2>1 DEF Object
    <3>2. \A g \in 1..1 : g = 1
      OBVIOUS
    <3>3. Versions(k) = [g \in 1..1 |-> objects[history[k][g]].snap]
      BY <3>1 DEF Versions
    <3>4. Versions(k) \in [1..1 -> {{}}]
      BY <3>1, <3>2, <3>3
    <3> QED BY <3>4
  <2>2. CASE k \notin stored
    <3>1. Len(history[k]) = 0
      BY <1>2, <2>2
    <3>2. Versions(k) = [g \in 1..0 |-> objects[history[k][g]].snap]
      BY <3>1 DEF Versions
    <3>3. Versions(k) \in [1..0 -> {{}}]
      BY <3>2
    <3> QED BY <3>3
  <2> QED BY <2>1, <2>2
<1> QED BY <1>4, <1>5 DEF Register!Init

\* Every step is one of each workspace's register, or none.
LEMMA RegisterSteps ==
  ASSUME VaultInv, VersionsInv', HeldInv, [Next]_vars
  PROVE  HeldInv' /\ \A k \in Kits : RegisterStep(k)
<1>1. VersionStep
  BY EveryStepTells
<1> QED BY <1>1, NothingToldStep, ToldRefusedStep, ToldSavedStep, NewVersionStep DEF VersionStep

\* Each workspace implements a register of versions that only add to one another: no device overwrites
\* what another saved, a reported save is in the head, a refused one never gets there (save() of
\* WorkspaceVaultService, publish-vault-head and the compare-and-swap, with every lost or late request).
THEOREM VaultIsARegister == Spec => NothingIsOverwritten
<1>1. Init => HeldInv /\ \A k \in Kits : Register(k)!Init
  <2>1. ASSUME Init PROVE \A k \in Kits : Register(k)!Init
    BY <2>1, RegisterInit
  <2>2. Init => HeldInv
    BY DEF Init, HeldInv
  <2> QED BY <2>1, <2>2
<1>2. VaultInv /\ VersionsInv' /\ HeldInv /\ [Next]_vars =>
        HeldInv' /\ \A k \in Kits : RegisterStep(k)
  BY RegisterSteps
<1>3. (\A k \in Kits : RegisterStep(k)) <=>
        (\A k \in Kits : [Register(k)!Next]_(Register(k)!registerVars))
  BY DEF RegisterStep
<1>4. VaultInv => VersionsInv
  BY VaultVersions
<1> QED BY <1>1, <1>2, <1>3, <1>4, VaultInvariant, PTL DEF Spec, NothingIsOverwritten
===============================================================================
