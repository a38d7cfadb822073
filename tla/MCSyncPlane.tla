---------------------------- MODULE MCSyncPlane ----------------------------
(* The sync plane on small instances: one partition whose pages name its   *)
(* own symbol.                                                             *)
EXTENDS SyncPlane

CONSTANTS c1, p1, e1

TheEventPart == [e \in EventIds |-> p1]
TheDiscovers == [p \in {p1} |-> {p1}]

=============================================================================
