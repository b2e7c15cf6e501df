--------------------------- MODULE CleanerEngineMC ---------------------------
(* Instances of CleanerEngine for TLC: a root with a cache folder, a preserved
   one and one under the deny-list, and a second root. *)
EXTENDS CleanerEngine

CONSTANTS root1, root2, cache, kept, system, other, file, more, keep

FilesAtFirst ==
  {<<root1, file>>, <<cache, file>>, <<cache, keep>>, <<kept, file>>, <<system, file>>,
   <<root2, file>>, <<other, file>>, <<other, more>>}

SubfoldersOfRoots == [r \in {root1, root2} |-> IF r = root1 THEN {cache, kept, system} ELSE {}]
=============================================================================
