---------------------------- MODULE ProtectedPaths ----------------------------
(***************************************************************************)
(* core::ProtectedPaths, the deny-list every removal asks, and the list    *)
(* collectors::build_protected_paths() makes of this computer.             *)
(*                                                                         *)
(* A path is the sequence of its segments; the separators that end it are  *)
(* stripped by the code and have no place in a sequence.  An unread        *)
(* directory is the empty path.                                            *)
(***************************************************************************)
EXTENDS Naturals, Sequences, Functions

CONSTANT
  Lower    \* what folding the case makes of a segment; one it does not fold is not in the domain

-----------------------------------------------------------------------------

\* Only ASCII and Latin-1 letters are folded.
Normalize(path) == [i \in DOMAIN path |-> IF path[i] \in DOMAIN Lower THEN Lower[path[i]] ELSE path[i]]

HasRelativeComponent(path) == \E i \in DOMAIN path : path[i] \in {".", ".."}

AtOrUnder(path, root) ==
  /\ Len(root) <= Len(path)
  /\ \A i \in 1..Len(root) : path[i] = root[i]

StrictlyUnder(path, root) == AtOrUnder(path, root) /\ Len(path) > Len(root)

CanonicalizeAll(paths) == {Normalize(p) : p \in paths}

\* The constructor throws when a list is not accepted.
Accepted(spec) ==
  \A e \in CanonicalizeAll(spec.exceptions) :
    \E r \in CanonicalizeAll(spec.roots) : StrictlyUnder(e, r)

IsProtected(spec, path) ==
  LET candidate == Normalize(path)
  IN  \/ candidate = <<>>
      \/ HasRelativeComponent(candidate)
      \/ candidate \in CanonicalizeAll(spec.exact)
      \/ /\ \A e \in CanonicalizeAll(spec.exceptions) : ~AtOrUnder(candidate, e)
         /\ \E r \in CanonicalizeAll(spec.roots) : AtOrUnder(candidate, r)

Present(paths) == {p \in paths : p # <<>>}

WindowsTemp(system) == system.windows \o <<"Temp">>

\* The list of a computer with these folders, and these in the cloud.
BuildProtectedPaths(system, cloud) ==
  [roots      |-> Present({system.windows, system.programFiles, system.programFilesX86,
                           system.programData} \cup cloud),
   exact      |-> Present({system.userProfile} \cup system.drives),
   exceptions |-> IF system.windows = <<>> THEN {} ELSE {WindowsTemp(system)}]
=============================================================================
