------------------------- MODULE VersionedRegister -------------------------
(***************************************************************************)
(* What an encrypted workspace promises to the devices that save to it,    *)
(* without objects, signatures, requests or retries: a list of versions    *)
(* that only grows.  A version holds everything its predecessor held.  A   *)
(* save that was reported is held by a version, a save that was refused is *)
(* held by none, now or later.                                             *)
(***************************************************************************)
EXTENDS Integers, Sequences

CONSTANT Edits

VARIABLES versions,   \* sets of edits, oldest first
          reported,   \* edits reported as saved
          refused     \* edits reported as certainly not saved

registerVars == <<versions, reported, refused>>

Latest == IF versions = <<>> THEN {} ELSE versions[Len(versions)]

Init ==
    /\ versions \in UNION {[1..n -> {{}}] : n \in 0..1}
    /\ reported = {} /\ refused = {}

Commit ==
    /\ \E v \in SUBSET Edits :
        /\ Latest \subseteq v
        /\ v \cap refused = {}
        /\ versions' = Append(versions, v)
    /\ reported' \in SUBSET versions'[Len(versions')]
    /\ reported \subseteq reported'
    /\ UNCHANGED refused

Report ==
    /\ \E e \in Latest : reported' = reported \cup {e}
    /\ UNCHANGED <<versions, refused>>

Refuse ==
    /\ \E e \in Edits \ Latest : refused' = refused \cup {e}
    /\ UNCHANGED <<versions, reported>>

Next == Commit \/ Report \/ Refuse

Spec == Init /\ [][Next]_registerVars
=============================================================================
