--------------------------- MODULE SnapshotStoreMC ---------------------------
(* Instances of SnapshotStore for TLC: where the user lives. *)
EXTENDS SnapshotStore

Everywhere == {-1, 0, 1}
West       == {-1}
=============================================================================
