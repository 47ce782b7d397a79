-------------------------- MODULE MCSnapshotStore ---------------------------
(* Instances of SnapshotStore for TLC.                                      *)
EXTENDS SnapshotStore
=============================================================================
