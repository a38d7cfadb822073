------------------------------ MODULE VaultObjects ------------------------------
(***************************************************************************)
(* The objects of encrypted workspaces as they lie in the database, part    *)
(* by part (workspace-vault-service.ts, vault-crypto.ts, vault-signing.ts,  *)
(* the rows of vault-repository.ts). A save seals a snapshot under a fresh   *)
(* key, wraps that key under the recovery code, digests the envelope and     *)
(* signs the digest with the place of the object in its line of generations. *)
(* A stored part may come back spoiled, or as the same part of another row,  *)
(* and a device shows what still opens and builds its next save on it.       *)
(* Ciphers, signatures and digests are ideal: a box opens with the key and   *)
(* the associated data it was closed with, a digest belongs to one envelope. *)
(***************************************************************************)
EXTENDS Naturals

CONSTANTS
    Sealers,         \* devices, each unlocked in one workspace
    Vault,           \* the user and workspace of a device, its recovery code and signing key
    ObjectIds,       \* what crypto.randomUUID() returns, one id per save
    MaxLine,         \* generations of a workspace
    MaxSpoiled,      \* parts that come back other than they were stored
    NoObject, Spoiled

ASSUME VaultObjectsAssumption ==
    /\ MaxLine \in Nat /\ MaxSpoiled \in Nat
    /\ NoObject \notin ObjectIds
    /\ Spoiled \notin {Vault[d] : d \in Sealers}

VARIABLES
    sent,      \* the row each save uploaded
    rows,      \* the row the database returns for an object
    held,      \* the row each device has opened or saved last: parent of its next save
    spoiled    \* parts spoiled so far

objectVars == <<sent, rows, held, spoiled>>

--------------------------------------------------------------------------------
\* Envelopes.

AadOf(v, generation) == [vault |-> v, generation |-> generation]

Purpose(name, aad) == <<name, aad>>

Box(key, aad, content) == [key |-> key, aad |-> aad, content |-> content]

\* The snapshot is named after the save that made it, and so are its fresh salt and content key.
Sealed(v, generation, o) ==
    LET aad == AadOf(v, generation)
    IN  [aad |-> aad, salt |-> o,
         wrap |-> Box(<<v, o>>, Purpose("key-wrap", aad), o),
         payload |-> Box(o, Purpose("payload", aad),
                         [signer |-> v, generation |-> generation, work |-> o])]

Unseals(envelope, v, generation) ==
    /\ envelope.aad = AadOf(v, generation)
    /\ envelope.wrap.key = <<v, envelope.salt>>
    /\ envelope.wrap.aad = Purpose("key-wrap", envelope.aad)
    /\ envelope.payload.key = envelope.wrap.content
    /\ envelope.payload.aad = Purpose("payload", envelope.aad)

\* An ideal digest is as good as what it digests.
Sha256(envelope) == envelope

Manifest(row) ==
    <<row.vault, row.object, row.generation, row.digest, row.parent, row.parentDigest>>

Signed(v, manifest) == [by |-> v, over |-> manifest]

\* parseObjectMetadata: both halves of a parent or none, and none exactly in generation 1.
MetadataParses(row) ==
    /\ (row.parent = NoObject) = (row.parentDigest = NoObject)
    /\ (row.generation = 1) = (row.parent = NoObject)

\* A digest that is there but is not compared.
DigestPresent(row) == row.digest # Spoiled

DigestHolds(row) == row.digest = Sha256(row.envelope)

\* verifyAndDecrypt of a device unlocked in v; the last line is the self-proof of the key inside.
OpensFor(row, v) ==
    /\ row.vault = v
    /\ MetadataParses(row)
    /\ DigestHolds(row)
    /\ row.signature = Signed(v, Manifest(row))
    /\ Unseals(row.envelope, v, row.generation)
    /\ row.envelope.payload.content.generation = row.generation
    /\ row.envelope.payload.content.signer = v

--------------------------------------------------------------------------------
ObjectInit ==
    /\ sent = [o \in {} |-> o]
    /\ rows = [o \in {} |-> o]
    /\ held = [d \in {} |-> d]
    /\ spoiled = 0

With(f, x, value) == [y \in DOMAIN f \cup {x} |-> IF y = x THEN value ELSE f[y]]

\* randomUUID() never returns an id again; which one it returns makes no difference.
Unused == ObjectIds \ DOMAIN sent
NextId == IF Unused = {} THEN {} ELSE {CHOOSE o \in Unused : TRUE}

Following(d) == IF d \in DOMAIN held THEN held[d].generation + 1 ELSE 1

Unsigned(d, o) ==
    LET envelope == Sealed(Vault[d], Following(d), o)
    IN  [vault |-> Vault[d], object |-> o, generation |-> Following(d),
         parent |-> IF d \in DOMAIN held THEN held[d].object ELSE NoObject,
         parentDigest |-> IF d \in DOMAIN held THEN held[d].digest ELSE NoObject,
         digest |-> Sha256(envelope), envelope |-> envelope]

Uploaded(unsigned) ==
    [vault |-> unsigned.vault, object |-> unsigned.object, generation |-> unsigned.generation,
     parent |-> unsigned.parent, parentDigest |-> unsigned.parentDigest,
     digest |-> unsigned.digest, envelope |-> unsigned.envelope,
     signature |-> Signed(unsigned.vault, Manifest(unsigned))]

\* Two devices of one workspace may upload siblings; whose head is published is VaultWorkspace's part.
SaveObject(d, o) ==
    /\ Following(d) <= MaxLine
    /\ sent' = With(sent, o, Uploaded(Unsigned(d, o)))
    /\ rows' = With(rows, o, Uploaded(Unsigned(d, o)))
    /\ held' = With(held, d, Uploaded(Unsigned(d, o)))
    /\ UNCHANGED spoiled

\* The head's object or one of the history: the device takes the first row that verifies. Until then it
\* holds nothing, which is a workspace without a head.
OpenObject(d, o) ==
    /\ OpensFor(rows[o], Vault[d])
    /\ held' = With(held, d, rows[o])
    /\ UNCHANGED <<sent, rows, spoiled>>

Columns == {"vault", "object", "generation", "parent", "parentDigest", "digest", "envelope",
            "signature"}
Parts == {"aad", "salt", "wrap", "payload"}

PartOf(row, part) == IF part \in Columns THEN row[part] ELSE row.envelope[part]

Changed(f, x, value) == [f EXCEPT ![x] = value]

Replaced(row, part, value) ==
    IF part \in Columns THEN Changed(row, part, value)
    ELSE Changed(row, "envelope", Changed(row.envelope, part, value))

Garbage(part) == CASE part = "signature" -> Signed(Spoiled, Spoiled)
                   [] part \in {"wrap", "payload"} -> Box(Spoiled, Spoiled, Spoiled)
                   [] OTHER -> Spoiled

\* A row comes back with one part of another row in the place of its own, or with a part that is nobody's.
SpoilObject(o) ==
    /\ spoiled < MaxSpoiled
    /\ \/ \E q \in DOMAIN rows \ {o}, part \in Columns \cup Parts :
              rows' = [rows EXCEPT ![o] = Replaced(rows[o], part, PartOf(rows[q], part))]
       \/ \E part \in (Columns \ {"envelope"}) \cup Parts :
              rows' = [rows EXCEPT ![o] = Replaced(rows[o], part, Garbage(part))]
    /\ spoiled' = spoiled + 1
    /\ UNCHANGED <<sent, held>>

ObjectNext ==
    \/ \E d \in Sealers, o \in NextId : SaveObject(d, o)
    \/ \E d \in Sealers, o \in DOMAIN rows : OpenObject(d, o)
    \/ \E o \in DOMAIN rows : SpoilObject(o)

ObjectSpec == ObjectInit /\ [][ObjectNext]_objectVars

--------------------------------------------------------------------------------
SameRow(row, other) == /\ Manifest(row) = Manifest(other)
                       /\ row.envelope = other.envelope

\* What a device shows, and builds upon, is a row as its save sent it, of its own workspace: no mixture
\* of rows opens, not even of siblings that share generation, keys and parent. And every generation
\* sent continues a row sent by the same workspace one generation before, digest and all.
OpenedAsSaved ==
    /\ \A d \in DOMAIN held :
           /\ held[d].vault = Vault[d]
           /\ held[d].object \in DOMAIN sent
           /\ SameRow(held[d], sent[held[d].object])
    /\ \A o \in DOMAIN sent : sent[o].parent # NoObject =>
           /\ sent[o].parent \in DOMAIN sent
           /\ LET parent == sent[sent[o].parent]
              IN  /\ parent.vault = sent[o].vault
                  /\ parent.generation + 1 = sent[o].generation
                  /\ parent.digest = sent[o].parentDigest
================================================================================
