---------------------------- MODULE MCSyncQueue ----------------------------
(* The sync queue on small instances.                                      *)
EXTENDS SyncQueue, TLC

\* Connections are interchangeable unless only some of them have archive work.
ConnectionSymmetry == Permutations(Connections)

=============================================================================
