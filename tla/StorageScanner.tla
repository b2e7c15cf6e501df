---------------------------- MODULE StorageScanner ----------------------------
(***************************************************************************)
(* StorageScanner::scan(): a walk in breadth over the folders below Root   *)
(* that adds up what the files hold, beside programs that create and       *)
(* remove names meanwhile, with a token that may ask it to stop anywhere.  *)
(*                                                                         *)
(* Files and folders are entries; In says which folder holds an entry.     *)
(* Several names of a file share a content (hard links).  Bytes are small  *)
(* numbers, rounded up to clusters when they are allocated; compressed and *)
(* sparse files, dates and the prefix of long paths are left out.          *)
(***************************************************************************)
EXTENDS Integers, Sequences, FiniteSetsExt, SequencesExt

CONSTANTS
  Root,          \* where the scan starts
  In,            \* the folder that holds each entry
  FileNames,     \* the entries that are names of files
  ContentOf,     \* what each name of a file leads to
  SizeOf,        \* the bytes of each content
  Cluster,       \* bytes of a cluster
  Links,         \* reparse points that are not files of a cloud
  LeadsTo,       \* the folder each link to a folder leads to
  Online,        \* names of files whose content is in the cloud only
  Threshold,     \* kHardLinkCheckThreshold
  OptionSets,    \* the ScanOptions of the callers
  MaxChanges,    \* bound: names created or removed by others
  MaxFaults,     \* bound: folders that cannot be opened or read to the end
  None

Entries == DOMAIN In
Folders == {Root} \cup (Entries \ FileNames)
Contents == {ContentOf[n] : n \in FileNames}

ASSUME EntriesAssumption ==
  /\ IsFiniteSet(Entries)
  /\ Root \notin Entries /\ \A e \in Entries : In[e] \in Folders
  /\ None \notin Folders
  /\ FileNames \subseteq Entries /\ Online \subseteq FileNames \ Links
  /\ DOMAIN LeadsTo = Links \ FileNames

ASSUME NumbersAssumption ==
  /\ Cluster \in Nat \ {0} /\ Threshold \in Nat \ {0}
  /\ \A c \in Contents : SizeOf[c] \in Nat
  /\ \A o \in OptionSets : o.largestKept \in Nat

VARIABLES
  present,   \* entries that exist
  changes,   \* names created or removed by others
  faults,    \* calls that failed
  stop,      \* the token has been asked to stop
  options,   \* ScanOptions
  pending,   \* folders still to be opened
  current,   \* the folder being listed, or None
  listing,   \* its entries still to be returned
  own,       \* what its files hold
  result,    \* the numbers of the ScanResult
  rollups,   \* result.directories
  largest,   \* result.largest_files
  seen,      \* seen_identities
  done,      \* the scan has returned
  counted,   \* history: the names counted
  charged,   \* history: how often a content was counted as allocated
  touched,   \* history: entries created or removed since the start
  gaps       \* history: folders not read, or not to the end

disk    == <<present, changes, touched>>
history == <<counted, charged, gaps>>
vars    == <<disk, faults, stop, options, pending, current, listing, own, result,
             rollups, largest, seen, done, history>>

AncestorsOrSelf(e) ==
  LET up[n \in Nat] == IF n = 0 \/ up[n - 1] = Root THEN (IF n = 0 THEN e ELSE Root)
                       ELSE In[up[n - 1]]
  IN  {up[n] : n \in 0..Cardinality(Folders)}

\* A volume is a tree.
ASSUME TreeAssumption == \A e \in Entries : Root \in AncestorsOrSelf(e)

Depth(f)     == Cardinality(AncestorsOrSelf(f)) - 1
Exists(e)    == AncestorsOrSelf(e) \ {Root} \subseteq present
EntriesOf(f) == {e \in present : In[e] = f}
NamesOf(c)   == {n \in FileNames \ Links : ContentOf[n] = c}
Bytes(n)     == SizeOf[ContentOf[n]]

RoundedToCluster(bytes) == ((bytes + Cluster - 1) \div Cluster) * Cluster

Nothing == [bytes |-> 0, allocated |-> 0, files |-> 0]

Init ==
  /\ present = Entries /\ changes = 0 /\ touched = {}
  /\ faults = 0 /\ stop = FALSE /\ done = FALSE
  /\ options \in OptionSets
  /\ pending = <<Root>> /\ current = None /\ listing = {} /\ own = Nothing
  /\ result = [total |-> 0, allocated |-> 0, online |-> 0, files |-> 0, folders |-> 0,
               duplicates |-> 0, skipped |-> 0, unreadable |-> {}, completed |-> FALSE]
  /\ rollups = [f \in {} |-> Nothing] /\ largest = {} /\ seen = {}
  /\ counted = {} /\ charged = [c \in Contents |-> 0] /\ gaps = {}

-----------------------------------------------------------------------------
(* One folder.                                                               *)

\* A folder that cannot be opened, or is gone, is counted and passed over.
OpenFolder ==
  /\ ~done /\ ~stop /\ current = None /\ pending # <<>>
  /\ pending' = Tail(pending)
  /\ LET f == Head(pending) IN
       \/ /\ Exists(f)
          /\ current' = f /\ listing' = EntriesOf(f) /\ own' = Nothing
          /\ UNCHANGED <<faults, result, gaps>>
       \/ /\ IF Exists(f) THEN faults < MaxFaults /\ faults' = faults + 1
             ELSE UNCHANGED faults
          /\ result' = [result EXCEPT
               !.skipped = @ + 1,
               !.unreadable = IF Cardinality(@) < options.unreadableKept
                              THEN @ \cup {f} ELSE @]
          /\ gaps' = gaps \cup {f}
          /\ UNCHANGED <<current, listing, own>>
  /\ UNCHANGED <<disk, stop, options, rollups, largest, seen, done, counted, charged>>

\* Mutant: the depth of the rollups bounds the walk.
SubfolderWithinDepth(e) ==
  /\ e \in Folders
  /\ pending' = IF e \in Links \/ Depth(e) > options.rollupDepth + 1 THEN pending ELSE Append(pending, e)
  /\ result' = [result EXCEPT !.folders = @ + 1]
  /\ UNCHANGED <<own, largest, seen, counted, charged>>

\* A folder found on the way waits; a link to one does not.
Subfolder(e) ==
  /\ e \in Folders
  /\ pending' = IF e \in Links THEN pending ELSE Append(pending, e)
  /\ result' = IF e \in Links THEN result ELSE [result EXCEPT !.folders = @ + 1]
  /\ UNCHANGED <<own, largest, seen, counted, charged>>

\* Mutant: a content is remembered, but its second name counted all the same.
AllocatedTwice(n) == IF n \in Online THEN 0 ELSE RoundedToCluster(Bytes(n))

\* A content of several names that was seen before occupies nothing more.  A file
\* is opened to find out, and only when it is large.
Identified(n) ==
  /\ Bytes(n) >= Threshold /\ Exists(n)
  /\ Cardinality({m \in NamesOf(ContentOf[n]) : Exists(m)}) > 1
Duplicate(n)  == n \notin Online /\ Identified(n) /\ ContentOf[n] \in seen
Allocated(n)  == IF n \in Online \/ Duplicate(n) THEN 0 ELSE RoundedToCluster(Bytes(n))

File(n) ==
  /\ n \in FileNames \ Links
  /\ LET allocated == Allocated(n) IN
       /\ result' = [result EXCEPT
            !.total = @ + Bytes(n), !.allocated = @ + allocated, !.files = @ + 1,
            !.online = @ + (IF n \in Online THEN Bytes(n) ELSE 0),
            !.duplicates = @ + (IF Duplicate(n) THEN 1 ELSE 0)]
       /\ own' = [bytes |-> own.bytes + Bytes(n), allocated |-> own.allocated + allocated,
                  files |-> own.files + 1]
       /\ charged' = [charged EXCEPT
            ![ContentOf[n]] = @ + (IF allocated > 0 THEN 1 ELSE 0)]
  /\ seen' = IF n \notin Online /\ Identified(n) THEN seen \cup {ContentOf[n]} ELSE seen
  /\ largest' = largest \cup {n} /\ counted' = counted \cup {n}
  /\ UNCHANGED pending

FileLink(n) ==
  /\ n \in FileNames \cap Links
  /\ UNCHANGED <<pending, own, result, largest, seen, counted, charged>>

ReadEntry ==
  /\ ~done /\ ~stop /\ current # None
  /\ \E e \in listing :
       /\ listing' = listing \ {e}
       /\ Subfolder(e) \/ File(e) \/ FileLink(e)
  /\ UNCHANGED <<disk, faults, stop, options, current, rollups, done, gaps>>

\* The most that fit, of those that hold most.
LargestOf(S, most) ==
  {T \in SUBSET S : /\ Cardinality(T) = Min({most, Cardinality(S)})
                    /\ \A x \in T, y \in S \ T : Bytes(x) >= Bytes(y)}

\* Mutant: the list is cut without being sorted.
PrunedUnsorted(S) ==
  IF Cardinality(S) <= 2 * options.largestKept THEN {S}
  ELSE {T \in SUBSET S : Cardinality(T) = options.largestKept}

Pruned(S) ==
  IF Cardinality(S) <= 2 * options.largestKept THEN {S}
  ELSE LargestOf(S, options.largestKept)

Emits(f) ==
  \/ options.emitAll
  \/ Depth(f) <= options.rollupDepth /\ own.files > 0

Rolled(f) == [g \in DOMAIN rollups \cup {f} |-> IF g = f THEN own ELSE rollups[g]]

\* The end of a listing, the end of the folder or an error.
CloseFolder ==
  /\ ~done /\ current # None
  /\ \/ /\ listing = {}
        /\ UNCHANGED <<faults, result, gaps>>
     \/ /\ listing # {} /\ faults < MaxFaults
        /\ faults' = faults + 1 /\ gaps' = gaps \cup {current}
        /\ result' = [result EXCEPT !.skipped = @ + 1]
  /\ rollups' = IF Emits(current) THEN Rolled(current) ELSE rollups
  /\ largest' \in Pruned(largest)
  /\ current' = None /\ listing' = {} /\ own' = Nothing
  /\ UNCHANGED <<disk, stop, options, pending, seen, done, counted, charged>>

-----------------------------------------------------------------------------
(* The end of the scan.                                                      *)

Finish ==
  /\ ~done /\ current = None /\ pending = <<>>
  /\ largest' \in LargestOf(largest, options.largestKept)
  /\ result' = [result EXCEPT !.completed = TRUE]
  /\ done' = TRUE
  /\ UNCHANGED <<disk, faults, stop, options, pending, current, listing, own, rollups, seen,
                 history>>

\* The token is looked at before each folder and each entry.  What was read of the
\* folder in progress stays in the totals and not in a rollup.
StopEarly ==
  /\ ~done /\ stop
  /\ pending # <<>> \/ current # None
  /\ done' = TRUE
  /\ UNCHANGED <<disk, faults, stop, options, pending, current, listing, own, result, rollups,
                 largest, seen, history>>

RequestStop ==
  /\ ~done /\ ~stop
  /\ stop' = TRUE
  /\ UNCHANGED <<disk, faults, options, pending, current, listing, own, result, rollups,
                 largest, seen, done, history>>

\* Another program creates or removes a name, or a folder.
Change ==
  /\ ~done /\ changes < MaxChanges
  /\ \E e \in Entries :
       /\ present' = IF e \in present THEN present \ {e} ELSE present \cup {e}
       /\ touched' = touched \cup {e}
  /\ changes' = changes + 1
  /\ UNCHANGED <<faults, stop, options, pending, current, listing, own, result, rollups,
                 largest, seen, done, history>>

ScanStep == OpenFolder \/ ReadEntry \/ CloseFolder \/ Finish \/ StopEarly
ScanNext == ScanStep \/ RequestStop \/ Change

-----------------------------------------------------------------------------
(* Properties.                                                               *)

Sum(g, S)     == MapThenSumSet(LAMBDA x : g[x], S)
Untouched(e)  == AncestorsOrSelf(e) \cap touched = {}
\* The scan gets to an entry through folders only.
WithinReach(e) == /\ (AncestorsOrSelf(e) \ {e}) \cap Links = {}
                  /\ e \notin Links

\* A completed scan owes an account of every file that was there all along: it was
\* counted, or a folder above it is one of those skipped_count admits to.
NothingSilent ==
  done /\ result.completed =>
    /\ Cardinality(gaps) = result.skipped
    /\ \A n \in FileNames : Untouched(n) /\ WithinReach(n) =>
         n \in counted \/ AncestorsOrSelf(n) \cap gaps # {}

\* However many names lead to a large content, and in whatever order they are met,
\* what it occupies enters the total once.
ContentOnce ==
  done => \A c \in Contents :
    SizeOf[c] >= Threshold /\ (\A n \in NamesOf(c) : Untouched(n)) =>
      /\ charged[c] <= 1
      /\ (NamesOf(c) \cap counted) \ Online # {} => charged[c] = 1

\* Cutting the list of large files on the way, folder by folder, loses none of the
\* largest of the whole.
LargestKept ==
  done /\ result.completed => largest \in LargestOf(counted, options.largestKept)
=============================================================================
