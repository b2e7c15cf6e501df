----------------------------- MODULE GrowthReport -----------------------------
(***************************************************************************)
(* From the disk to "what grew": SnapshotTaker measures the folders of a   *)
(* volume and adds up their subtrees, SnapshotStore compares the two       *)
(* latest snapshots, build_growth_report takes from each folder what its   *)
(* subfolders explain and evaluate_alerts decides what deserves a warning. *)
(*                                                                         *)
(* Owners of files write, move and rename at any time, also between the    *)
(* reading of the volume's free space and the scan.  A path is the folder  *)
(* and the letter case of its spelling; sizes are small numbers.           *)
(***************************************************************************)
EXTENDS Integers, Sequences, FiniteSetsExt, SequencesExt

CONSTANTS
  Root,           \* the volume
  Renamed,        \* the folder somebody respells
  Trees,          \* parent functions; the parent of Root is Root
  Exclusions,     \* sets of excluded folders, closed under subfolders
  Sizes,          \* bytes a folder may hold in files of its own
  Capacity,       \* bytes of the volume
  KeepDepth,      \* always_keep_depth
  DeepThreshold,  \* deep_folder_threshold
  NoiseFloor,     \* kGrowthNoiseFloor
  FolderJump,     \* folder_jump_bytes
  MaxEdits,       \* bound: times the owners write or the volume does not answer
  Absent

\* A volume is a tree: going up from any folder one comes to the root.
ASSUME TreesAssumption ==
  \A tree \in Trees :
    /\ IsFiniteSet(DOMAIN tree)
    /\ Root \in DOMAIN tree /\ tree[Root] = Root /\ \A f \in DOMAIN tree : tree[f] \in DOMAIN tree
    /\ \A S \in SUBSET (DOMAIN tree) : S # {} /\ (\A f \in S : tree[f] \in S) => Root \in S
    /\ \A x \in Exclusions : \A f \in DOMAIN tree \ {Root} : tree[f] \in x => f \in x

ASSUME SizesAssumption == Sizes \subseteq Nat

ASSUME ThresholdsAssumption ==
  /\ {KeepDepth, DeepThreshold, NoiseFloor, FolderJump, Capacity} \subseteq Nat
  /\ 0 < NoiseFloor /\ NoiseFloor <= FolderJump

VARIABLES
  parent,    \* the tree of folders
  excluded,  \* excluded_paths
  disk,      \* bytes of each folder's own files
  upper,     \* the folder Renamed is spelled in upper case
  edits,     \* times the owners wrote or the volume did not answer
  free,      \* what volume_space() answered to the take in progress, or Absent
  previous, latest,  \* the two latest snapshots, or Absent
  report     \* what show_growth shows, or Absent

growthVars == <<parent, excluded, disk, upper, edits, free, previous, latest, report>>

AllFolders == DOMAIN parent

AncestorsOrSelf(f) ==
  LET up[n \in Nat] == IF n = 0 THEN f ELSE parent[up[n - 1]]
  IN  {up[n] : n \in 0..Cardinality(AllFolders)}
Depth(f)    == Cardinality(AncestorsOrSelf(f)) - 1
Children(f) == {c \in AllFolders \ {Root} : parent[c] = f}
Within(f)   == {d \in AllFolders : f \in AncestorsOrSelf(d)}

Path(f) == [folder |-> f, upper |-> upper /\ Renamed \in AncestorsOrSelf(f)]
\* std::sort by key, largest first.
Descending(S, key) ==
  CHOOSE s \in [1..Cardinality(S) -> S] :
    IsInjective(s) /\ \A i, j \in DOMAIN s : i <= j => key[s[i]] >= key[s[j]]
DeepestFirst(S) == Descending(S, [f \in S |-> Depth(f)])
Total(sizes, S) == MapThenSumSet(LAMBDA f : sizes[f], S)

GrowthInit ==
  /\ parent \in Trees /\ excluded \in Exclusions
  /\ disk \in [AllFolders -> Sizes]
  /\ upper = FALSE /\ edits = 0
  /\ free = Absent /\ previous = Absent /\ latest = Absent
  /\ report = Absent

-----------------------------------------------------------------------------
(* SnapshotTaker::take                                                       *)

\* Mutant: shallow folders first.
AccumulateShallowFirst(direct) ==
  LET raise(t, f) == IF f # Root /\ parent[f] \in DOMAIN t
                     THEN [t EXCEPT ![parent[f]] = @ + t[f]]
                     ELSE t
  IN  FoldLeft(raise, direct, Reverse(DeepestFirst(DOMAIN direct)))

\* accumulate_subtrees: every folder, deepest first, adds its total to its parent's.
AccumulateSubtrees(direct) ==
  LET raise(t, f) == IF f # Root /\ parent[f] \in DOMAIN t
                     THEN [t EXCEPT ![parent[f]] = @ + t[f]]
                     ELSE t
  IN  FoldLeft(raise, direct, DeepestFirst(DOMAIN direct))

\* Upper levels always, deeper ones when they are large.
KeptFolders(totals) ==
  {f \in DOMAIN totals : Depth(f) <= KeepDepth \/ totals[f] >= DeepThreshold}

\* A folder that cannot be opened is skipped with all there is below it, and the
\* scan still completes.
Direct(skipped) ==
  [f \in {g \in AllFolders : AncestorsOrSelf(g) \cap skipped = {}} \ excluded |-> disk[f]]

Snapshot(direct) ==
  LET totals == AccumulateSubtrees(direct)
      kept   == KeptFolders(totals)
  IN  [free    |-> free,
       folders |-> [p \in {Path(f) : f \in kept} |-> totals[p.folder]],
       direct  |-> direct,                  \* history: what the scan measured
       used    |-> Total(disk, AllFolders)]    \* history: what the volume held then

\* volume_space() comes before the scan, which takes minutes; nothing when it fails.
ReadVolume ==
  /\ free = Absent
  /\ \/ /\ free' = Capacity - Total(disk, AllFolders)
        /\ UNCHANGED edits
     \/ /\ free' = 0
        /\ edits < MaxEdits /\ edits' = edits + 1
  /\ UNCHANGED <<parent, excluded, disk, upper, previous, latest, report>>

\* The scan ends and the snapshot is saved.
Scan ==
  /\ free # Absent
  /\ \E skipped \in {{}} \cup {{f} : f \in AllFolders \ {Root}} :
       latest' = Snapshot(Direct(skipped))
  /\ previous' = latest
  /\ free' = Absent /\ report' = Absent
  /\ UNCHANGED <<parent, excluded, disk, upper, edits>>

\* An interrupted scan, or a save that fails, leaves no snapshot.
ScanFails ==
  /\ free # Absent
  /\ free' = Absent
  /\ UNCHANGED <<parent, excluded, disk, upper, edits, previous, latest, report>>

-----------------------------------------------------------------------------
(* SnapshotStore::compare, build_growth_report and evaluate_alerts           *)

SizeIn(s, p) == IF p \in DOMAIN s.folders THEN s.folders[p] ELSE 0

\* The changes of compare() that build_growth_report looks at.  They are compared
\* by exact path, and those without a difference dropped.
Changes(from, to) ==
  {c \in {[path |-> p, delta |-> SizeIn(to, p) - SizeIn(from, p)] :
            p \in DOMAIN from.folders \cup DOMAIN to.folders} : c.delta # 0}

\* The report is keyed by comparable path: of two spellings of a folder it keeps
\* the one compare() sorted first, which has the larger delta.
Subtree(from, to) ==
  LET changes == Changes(from, to)
  IN  [f \in {c.path.folder : c \in changes} |->
         Max({c.delta : c \in {d \in changes : d.path.folder = f}})]

\* Mutant: only growth of a subfolder is taken from its parent.
ExclusiveOfGrowth(subtree) ==
  [f \in DOMAIN subtree |->
     subtree[f] - Total(subtree, {c \in Children(f) \cap DOMAIN subtree : subtree[c] > 0})]

\* What a folder grew by is less what its subfolders in the list grew by.
Exclusive(subtree) ==
  [f \in DOMAIN subtree |->
     subtree[f] - Total(subtree, Children(f) \cap DOMAIN subtree)]

Magnitude(n) == IF n < 0 THEN -n ELSE n

\* Mutant: the list is sorted by the growth of the subtree.
LargestSubtreeFirst(S, exclusive, subtree) ==
  Descending(S, [f \in S |-> Magnitude(subtree[f])])

LargestFirst(S, exclusive, subtree) ==
  Descending(S, [f \in S |-> Magnitude(exclusive[f])])

\* The folders of FolderJump alerts: the list is read up to the first below the jump.
Jumps(items, exclusive) ==
  {items[i] : i \in {j \in DOMAIN items : \A k \in 1..j : exclusive[items[k]] >= FolderJump}}

BuildGrowthReport(from, to) ==
  LET subtree   == Subtree(from, to)
      exclusive == Exclusive(subtree)
      items     == LargestFirst({f \in DOMAIN exclusive : exclusive[f] >= NoiseFloor},
                                exclusive, subtree)
      shrunk    == LargestFirst({f \in DOMAIN exclusive : exclusive[f] <= -NoiseFloor},
                                exclusive, subtree)
  IN  [freeDelta |-> to.free - from.free, exclusive |-> exclusive,
       items |-> items, shrunk |-> shrunk, jumps |-> Jumps(items, exclusive)]

ShowGrowth ==
  /\ previous # Absent /\ report = Absent
  /\ report' = BuildGrowthReport(previous, latest)
  /\ UNCHANGED <<parent, excluded, disk, upper, edits, free, previous, latest>>

-----------------------------------------------------------------------------
(* The owners of the files.                                                  *)

Write ==
  /\ edits < MaxEdits
  /\ edits' = edits + 1
  /\ disk' \in [AllFolders -> Sizes]
  /\ disk' # disk
  /\ UNCHANGED <<parent, excluded, upper, free, previous, latest, report>>

Respell ==
  /\ edits < MaxEdits
  /\ edits' = edits + 1
  /\ upper' = ~upper
  /\ UNCHANGED <<parent, excluded, disk, free, previous, latest, report>>

GrowthNext == ReadVolume \/ Scan \/ ScanFails \/ ShowGrowth \/ Write \/ Respell

GrowthSpec == GrowthInit /\ [][GrowthNext]_growthVars

-----------------------------------------------------------------------------
Saved == {previous, latest} \ {Absent}
KeptIn(s) == {p.folder : p \in DOMAIN s.folders}
SpellingIn(s) == {p \in DOMAIN s.folders : p.upper}

GrowthTypeOK ==
  /\ parent \in Trees /\ excluded \in Exclusions /\ excluded \subseteq AllFolders
  /\ disk \in [AllFolders -> Sizes]
  /\ upper \in BOOLEAN /\ edits \in 0..MaxEdits
  /\ free = Absent \/ free \in 0..Capacity
  /\ previous # Absent => latest # Absent
  /\ \A s \in Saved :
       /\ DOMAIN s.folders \subseteq [folder : AllFolders \ excluded, upper : BOOLEAN]
       /\ \A p \in DOMAIN s.folders : s.folders[p] \in 0..Capacity
       /\ s.free \in 0..Capacity
  /\ report # Absent =>
       /\ DOMAIN report.exclusive \subseteq AllFolders \ excluded
       /\ report.jumps \subseteq ToSet(report.items)
       /\ ToSet(report.items) \cap ToSet(report.shrunk) = {}

\* What somebody reading the report would check: the growth of a folder by itself,
\* that is of its own files and of the subfolders no snapshot names.
OwnGrowth(f) ==
  LET measured(s) ==
        Total(s.direct, DOMAIN s.direct \cap
          (Within(f) \ UNION {Within(c) : c \in Children(f) \cap KeptIn(s)}))
  IN  measured(latest) - measured(previous)

SameFoldersKept == DOMAIN previous.folders = DOMAIN latest.folders

\* "Cada pasta mostra o quanto ela cresceu por conta propria ... para o mesmo espaco
\* nao ser contado duas vezes" (the text of show_growth), whichever folders grew,
\* shrank or passed files between them, as long as both snapshots name the same
\* folders.
ExclusiveIsOwn ==
  report # Absent /\ SameFoldersKept =>
    \A f \in DOMAIN report.exclusive : report.exclusive[f] = OwnGrowth(f)

\* No folder whose total stayed the same has a subfolder whose total did not.
NothingMovedWithin ==
  \A f \in DOMAIN report.exclusive : AncestorsOrSelf(f) \subseteq DOMAIN report.exclusive

\* A volume measured whole, at the moment its free space was read.
MeasuredWhole(s) == s.free = Capacity - s.used /\ DOMAIN s.direct = AllFolders

\* "Somar esta coluna da o crescimento real, sem repetir bytes" (growth_report.hpp):
\* what the folders grew by adds up to what the volume lost, if nothing moved within
\* a folder and nobody wrote during the scans, even when folders enter or leave the
\* snapshot between the two.
GrowthAddsUp ==
  /\ report # Absent
  /\ MeasuredWhole(previous) /\ MeasuredWhole(latest)
  /\ SpellingIn(previous) = SpellingIn(latest)
  /\ NothingMovedWithin
  => Total(report.exclusive, DOMAIN report.exclusive) = -report.freeDelta

\* The same text of show_growth, for any two snapshots measured whole between which
\* owners only wrote: the folders named may differ.
ExclusiveIsAlwaysOwn ==
  /\ report # Absent
  /\ MeasuredWhole(previous) /\ MeasuredWhole(latest)
  /\ SpellingIn(previous) = SpellingIn(latest)
  => \A f \in DOMAIN report.exclusive : report.exclusive[f] = OwnGrowth(f)

\* "A lista vem ordenada: a primeira abaixo do limite encerra" (growth_alerts.cpp):
\* ending there misses no folder that jumped by itself.
EveryJumpAlerted ==
  report # Absent =>
    report.jumps = {f \in DOMAIN report.exclusive : report.exclusive[f] >= FolderJump}
=============================================================================
