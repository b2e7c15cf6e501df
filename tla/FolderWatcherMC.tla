--------------------------- MODULE FolderWatcherMC ---------------------------
(* Instances of FolderWatcher for TLC: folders are interchangeable. *)
EXTENDS FolderWatcher, TLC

Symmetry == Permutations(Folders)
=============================================================================
