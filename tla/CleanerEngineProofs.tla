-------------------------- MODULE CleanerEngineProofs --------------------------
(***************************************************************************)
(* Proofs about CleanerEngine, for every tree of roots and subfolders, all *)
(* names, deny-lists and links, and any number of changes and executions.  *)
(***************************************************************************)
EXTENDS CleanerEngine, TLAPS

\* What waits to be walked is not to be preserved.
Routes ==
  /\ pending \cap Preserved = {}
  /\ listing.path \notin Preserved

\* The file about to be deleted passed every check when it was looked at.
Checked ==
  pc = "delete" => /\ visit.real \in allowed
                   /\ visit.path \notin Denied \cup Preserved
                   /\ visit.name \notin Preserved

\* What went astray, and what is about to, took a swap of its own: the last look found
\* every path inside, and there is one file between its look and its deletion.
Astray == pc = "delete" /\ Reach(visit.path) \notin allowed

Strays ==
  /\ astray <= swaps
  /\ Astray => astray < swaps

\* Outside a walk nothing is counted or left to be walked.
Quiet ==
  /\ pc = "idle" => outcome = NoOutcome /\ owed = {} /\ rootsLeft = {}
  /\ pc \in {"idle", "record"} => listing = NoListing /\ pending = {}

\* What is owed is still there, in a folder nobody touched and that may be emptied.
InPlace ==
  \A f \in owed : /\ leads[f[1]] = f[1]
                  /\ f \in Answerable

\* A file that is owed is still ahead of the walk: its folder, or the root above it,
\* is to be opened, or is being walked with the entry not looked at yet, or the file
\* itself is about to be deleted.
Coming(f) ==
  \/ \E r \in rootsLeft : f[1] = r \/ f[1] \in Sub[r]
  \/ \E d \in pending : f[1] = d \/ f[1] \in SubfoldersOf(d)
  \/ listing.path = f[1] /\ FileEntry(f[2]) \in listing.entries
  \/ FolderEntry(f[1]) \in listing.entries
  \/ pc = "delete" /\ visit.path = f[1] /\ visit.name = f[2]

Ahead == pc \in {"walk", "delete"} => \A f \in owed : Coming(f)

\* With nothing left to walk there is nothing ahead.
Done == pc = "record" => owed = {}

Inv == TypeOK /\ Routes /\ Checked /\ Strays /\ Quiet /\ LogNeverAhead

LEMMA RootsAreFolders ==
  /\ Roots \subseteq Folders \ Elsewhere
  /\ \A r \in Roots : Sub[r] \subseteq Folders \ Elsewhere
  /\ \A d : SubfoldersOf(d) \subseteq Folders \ Elsewhere
<1>1. Roots \subseteq Folders \ Elsewhere
  BY ConstantsAssumption DEF Folders
<1>2. ASSUME NEW r \in Roots PROVE Sub[r] \subseteq Folders \ Elsewhere
  BY ConstantsAssumption DEF Folders
<1> QED
  BY <1>1, <1>2 DEF SubfoldersOf

LEMMA ReachRange ==
  ASSUME NEW d \in Folders
  PROVE  Reach(d) \in {leads[d], None}
BY DEF Reach

LEMMA EntriesAreEntries ==
  ASSUME NEW d
  PROVE  EntriesOf(d) \in SUBSET Entries
<1>1. \A n \in Names : FileEntry(n) \in Entries
  BY DEF FileEntry, Entries
<1>2. \A s \in Folders \ Elsewhere : FolderEntry(s) \in Entries
  BY DEF FolderEntry, Entries
<1> QED
  BY <1>1, <1>2, RootsAreFolders DEF EntriesOf

LEMMA EntryKinds ==
  ASSUME TypeOK, NEW e \in listing.entries
  PROVE  e \in Entries /\ listing.path \in Folders \ Elsewhere
BY DEF TypeOK, NoListing

LEMMA ListingShrinks ==
  ASSUME TypeOK, NEW e \in listing.entries
  PROVE  /\ Rest(e) \in [path : Folders \ Elsewhere, entries : SUBSET Entries]
         /\ Rest(e).path = listing.path
         /\ Rest(e).entries = listing.entries \ {e}
BY DEF TypeOK, NoListing, Rest

LEMMA InitInv == Init => Inv
<1> SUFFICES ASSUME Init PROVE Inv
  OBVIOUS
<1>1. files \subseteq Files /\ owed \subseteq files /\ allowed \subseteq Folders
  BY ConstantsAssumption DEF Init
<1>2. leads \in [Folders -> Folders \cup {None}]
  BY DEF Init
<1>3. /\ changes \in 0..MaxChanges /\ runs \in 0..MaxRuns
      /\ swaps \in Nat /\ {logged, gone, astray} \subseteq Nat
      /\ outcome \in [removed : Nat, skipped : Nat, failed : Nat]
  BY ConstantsAssumption DEF Init, NoOutcome
<1>4. /\ pc \in {"idle", "walk", "delete", "record"}
      /\ rootsLeft \subseteq Roots
      /\ pending \subseteq Folders \ Elsewhere
      /\ listing = NoListing /\ visit = NoVisit
      /\ pc = "delete" <=> visit # NoVisit
  BY DEF Init
<1>5. TypeOK
  BY <1>1, <1>2, <1>3, <1>4 DEF TypeOK
<1>6. Routes
  BY ConstantsAssumption DEF Init, Routes, NoListing
<1>7. Checked /\ Strays /\ Quiet /\ LogNeverAhead
  BY DEF Init, Checked, Strays, Astray, Quiet, LogNeverAhead, NoOutcome
<1> QED
  BY <1>5, <1>6, <1>7 DEF Inv

LEMMA TypesKept == ASSUME Inv, [Next]_vars PROVE TypeOK'
<1> USE DEF Inv, TypeOK
<1>1. CASE Start
  <2>1. PICK opened \in SUBSET Roots :
          /\ allowed' = ({leads[r] : r \in opened} \ {None})
                          \cup UNION {SubfoldersOf(d) : d \in {leads[r] : r \in opened} \ {None}}
          /\ pc' \in {"record", "walk"}
          /\ owed' \in {{}, Answerable}
    BY <1>1 DEF Start, AtOrUnder
  <2>2. {leads[r] : r \in opened} \ {None} \subseteq Folders
    BY RootsAreFolders
  <2>3. allowed' \subseteq Folders
    BY <2>1, <2>2, RootsAreFolders
  <2>4. owed' \subseteq files'
    BY <1>1, <2>1 DEF Start, world, Answerable
  <2>5. runs' \in 0..MaxRuns
    BY <1>1, ConstantsAssumption DEF Start
  <2>6. visit' = NoVisit /\ pc' # "delete"
    BY <1>1, <2>1 DEF Start
  <2>7. outcome' \in [removed : Nat, skipped : Nat, failed : Nat] /\ rootsLeft' \subseteq Roots
    BY <1>1 DEF Start, NoOutcome
  <2> QED
    BY <1>1, <2>1, <2>3, <2>4, <2>5, <2>6, <2>7 DEF Start, world
<1>2. CASE Finish
  BY <1>2 DEF Finish, Idle, world, results
<1>3. CASE Record
  BY <1>3 DEF Record, LogRemovals, world, NoOutcome
<1>4. CASE Crash
  BY <1>4 DEF Crash, world, results, NoOutcome
<1>5. CASE CloseFolder
  BY <1>5 DEF CloseFolder, world, results
<1>6. CASE Delete
  BY <1>6 DEF Delete
<1>7. ASSUME NEW r \in Roots, OpenRoot(r) PROVE TypeOK'
  BY <1>7, RootsAreFolders DEF OpenRoot, world, results
<1>8. ASSUME NEW d \in Folders, OpenFolder(d) PROVE TypeOK'
  BY <1>8, EntriesAreEntries DEF OpenFolder, world, results, Without
<1>9. ASSUME NEW e \in listing.entries, PassOver(e) PROVE TypeOK'
  BY <1>9 DEF PassOver, world, results, Rest, NoListing
<1>10. ASSUME NEW e \in listing.entries, EnterFolder(e) PROVE TypeOK'
  <2>1. e \in Entries
    BY EntryKinds
  <2>2. e.name \in Folders \ Elsewhere
    BY <1>10, <2>1 DEF EnterFolder, Entries
  <2>3. listing' = NoListing \/ listing' \in [path : Folders \ Elsewhere, entries : SUBSET Entries]
    BY <1>10, ListingShrinks DEF EnterFolder
  <2> QED
    BY <1>10, <2>2, <2>3 DEF EnterFolder, world, results
<1>11. ASSUME NEW e \in listing.entries, LookAt(e) PROVE TypeOK'
  <2>1. listing.path \in Folders \ Elsewhere /\ e \in Entries
    BY EntryKinds
  <2>2. e.name \in Names
    BY <1>11, <2>1 DEF LookAt, Entries
  <2>3. listing' = NoListing \/ listing' \in [path : Folders \ Elsewhere, entries : SUBSET Entries]
    BY <1>11, ListingShrinks DEF LookAt
  <2>4. CASE Skip(e.name)
    BY <1>11, <2>3, <2>4 DEF LookAt, world, results, Skip, Settle
  <2>5. CASE /\ <<Reach(listing.path), e.name>> \in files
             /\ pc' = "delete"
             /\ visit' = [path |-> listing.path, name |-> e.name, real |-> Reach(listing.path)]
             /\ UNCHANGED <<outcome, owed>>
    <3>1. Reach(listing.path) \in Folders
      BY <2>5 DEF Files
    <3>2. /\ visit' \in [path : Folders \ Elsewhere, name : Names, real : Folders]
          /\ visit' # NoVisit
      BY <2>1, <2>2, <2>5, <3>1, ConstantsAssumption DEF NoVisit
    <3> QED
      BY <1>11, <2>3, <2>5, <3>2 DEF LookAt, world, results
  <2> QED
    BY <1>11, <2>4, <2>5 DEF LookAt
<1>12. CASE Others
  <2>1. ASSUME Change PROVE changes' \in 0..MaxChanges
    BY <2>1, ConstantsAssumption DEF Change
  <2>2. ASSUME NEW f \in Files, CreateFile(f) \/ RemoveFile(f) PROVE TypeOK'
    BY <2>1, <2>2 DEF CreateFile, RemoveFile, engine, results
  <2>3. ASSUME NEW d \in Folders \ Elsewhere, NEW t \in LinkTargets \cup {d, None},
               Relink(d, t)
        PROVE  TypeOK'
    <3>1. t \in Folders \cup {None}
      BY RootsAreFolders, ConstantsAssumption DEF Folders
    <3>2. leads' \in [Folders -> Folders \cup {None}]
      BY <2>3, <3>1 DEF Relink
    <3> QED
      BY <2>1, <2>3, <3>2 DEF Relink, engine, results, Without
  <2> QED
    BY <1>12, <2>2, <2>3 DEF Others
<1>13. CASE UNCHANGED vars
  BY <1>13 DEF vars, world, engine, results
<1> QED
  BY <1>1, <1>2, <1>3, <1>4, <1>5, <1>6, <1>7, <1>8, <1>9, <1>10, <1>11, <1>12, <1>13
  DEF Next

\* What waits to be walked and what stands at a path changes in few actions.
LEMMA RoutesKept == ASSUME Inv, [Next]_vars PROVE Routes'
<1> USE DEF Inv, Routes
<1>1. CASE Start
  BY <1>1 DEF Start, world
<1>2. CASE Finish \/ Record \/ Crash \/ CloseFolder
  BY <1>2, ConstantsAssumption
  DEF Finish, Record, Crash, CloseFolder, world, NoListing
<1>3. CASE Delete
  BY <1>3 DEF Delete
<1>4. ASSUME NEW r \in Roots, OpenRoot(r) PROVE Routes'
  BY <1>4, ConstantsAssumption DEF OpenRoot, world
<1>5. ASSUME NEW d \in Folders, OpenFolder(d) PROVE Routes'
  BY <1>5, ConstantsAssumption DEF OpenFolder, world, NoListing
<1>6. ASSUME NEW e \in listing.entries, PassOver(e) \/ EnterFolder(e) \/ LookAt(e) PROVE Routes'
  BY <1>6, ListingShrinks DEF PassOver, EnterFolder, LookAt, world
<1>7. CASE Others
  <2>1. ASSUME NEW f \in Files, CreateFile(f) \/ RemoveFile(f) PROVE Routes'
    BY <2>1 DEF CreateFile, RemoveFile, engine
  <2>2. ASSUME NEW d \in Folders \ Elsewhere, NEW t \in LinkTargets \cup {d, None},
               Relink(d, t)
        PROVE  Routes'
    BY <2>2 DEF Relink, engine
  <2> QED
    BY <1>7, <2>1, <2>2 DEF Others
<1>8. CASE UNCHANGED vars
  BY <1>8 DEF vars, world, engine
<1> QED
  BY <1>1, <1>2, <1>3, <1>4, <1>5, <1>6, <1>7, <1>8 DEF Next

LEMMA CheckedKept == ASSUME Inv, [Next]_vars PROVE Checked'
<1> USE DEF Inv, Checked
<1>1. CASE Start \/ Finish \/ Record \/ Crash
  BY <1>1 DEF Start, Finish, Record, Crash
<1>2. CASE CloseFolder
  BY <1>2 DEF CloseFolder
<1>3. CASE Delete
  BY <1>3 DEF Delete
<1>4. ASSUME NEW r \in Roots, OpenRoot(r) PROVE Checked'
  BY <1>4 DEF OpenRoot
<1>5. ASSUME NEW d \in Folders, OpenFolder(d) PROVE Checked'
  BY <1>5 DEF OpenFolder
<1>6. ASSUME NEW e \in listing.entries, PassOver(e) \/ EnterFolder(e) PROVE Checked'
  BY <1>6 DEF PassOver, EnterFolder
<1>7. ASSUME NEW e \in listing.entries, LookAt(e) PROVE Checked'
  BY <1>7 DEF LookAt, Skip, Routes
<1>8. CASE Others
  BY <1>8 DEF Others, CreateFile, RemoveFile, Relink, engine
<1>9. CASE UNCHANGED vars
  BY <1>9 DEF vars, engine
<1> QED
  BY <1>1, <1>2, <1>3, <1>4, <1>5, <1>6, <1>7, <1>8, <1>9 DEF Next

\* Only a swap turns a path that was inside outside, and it is counted.
LEMMA StraysKept == ASSUME Inv, [Next]_vars PROVE Strays'
<1> USE DEF Inv, Strays, Astray
<1>0. swaps \in Nat /\ astray \in Nat
  BY DEF TypeOK
<1>1. CASE Start \/ Finish \/ Record \/ Crash
  BY <1>1 DEF Start, Finish, Record, Crash, world, results
<1>2. CASE CloseFolder
  BY <1>2 DEF CloseFolder, world, results
<1>3. CASE Delete
  BY <1>0, <1>3 DEF Delete
<1>4. ASSUME NEW r \in Roots, OpenRoot(r) PROVE Strays'
  BY <1>4 DEF OpenRoot, Idle, world, results
<1>5. ASSUME NEW d \in Folders, OpenFolder(d) PROVE Strays'
  BY <1>5 DEF OpenFolder, Idle, world, results
<1>6. ASSUME NEW e \in listing.entries, PassOver(e) \/ EnterFolder(e) PROVE Strays'
  BY <1>6 DEF PassOver, EnterFolder, world, results
<1>7. ASSUME NEW e \in listing.entries, LookAt(e) PROVE Strays'
  <2>1. UNCHANGED <<swaps, astray, leads, allowed>>
    BY <1>7 DEF LookAt, world, results
  <2>2. CASE Skip(e.name)
    BY <1>7, <2>1, <2>2 DEF LookAt, Skip
  <2>3. CASE Reach(listing.path) \in allowed /\ visit'.path = listing.path
    BY <2>1, <2>3 DEF Reach
  <2> QED
    BY <1>7, <2>2, <2>3 DEF LookAt
<1>8. CASE Others
  <2>1. ASSUME NEW f \in Files, CreateFile(f) \/ RemoveFile(f) PROVE Strays'
    BY <2>1 DEF CreateFile, RemoveFile, engine, results, Reach
  <2>2. ASSUME NEW d \in Folders \ Elsewhere, NEW t \in LinkTargets \cup {d, None}, Relink(d, t)
        PROVE  Strays'
    BY <1>0, <2>2 DEF Relink, results
  <2> QED
    BY <1>8, <2>1, <2>2 DEF Others
<1>9. CASE UNCHANGED vars
  BY <1>9 DEF vars, world, engine, results, Reach
<1> QED
  BY <1>1, <1>2, <1>3, <1>4, <1>5, <1>6, <1>7, <1>8, <1>9 DEF Next

LEMMA QuietKept == ASSUME Inv, [Next]_vars PROVE Quiet'
<1> USE DEF Inv, Quiet
<1>1. CASE Start \/ Record \/ Crash
  BY <1>1 DEF Start, Record, Crash
<1>2. CASE Finish
  BY <1>2 DEF Finish, Idle
<1>3. CASE CloseFolder
  BY <1>3 DEF CloseFolder
<1>4. CASE Delete
  BY <1>4 DEF Delete
<1>5. ASSUME NEW r \in Roots, OpenRoot(r) PROVE Quiet'
  BY <1>5 DEF OpenRoot, Idle
<1>6. ASSUME NEW d \in Folders, OpenFolder(d) PROVE Quiet'
  BY <1>6 DEF OpenFolder, Idle
<1>7. ASSUME NEW e \in listing.entries, PassOver(e) \/ EnterFolder(e) \/ LookAt(e) PROVE Quiet'
  BY <1>7 DEF PassOver, EnterFolder, LookAt, Skip
<1>8. CASE Others
  BY <1>8 DEF Others, CreateFile, RemoveFile, Relink, engine, Without
<1>9. CASE UNCHANGED vars
  BY <1>9 DEF vars, engine
<1> QED
  BY <1>1, <1>2, <1>3, <1>4, <1>5, <1>6, <1>7, <1>8, <1>9 DEF Next

LEMMA LogKept == ASSUME Inv, [Next]_vars PROVE LogNeverAhead'
<1> USE DEF Inv, LogNeverAhead
<1>0. {logged, gone} \subseteq Nat /\ outcome \in [removed : Nat, skipped : Nat, failed : Nat]
  BY DEF TypeOK
<1>1. CASE Start
  BY <1>0, <1>1 DEF Start, Quiet
<1>2. CASE Finish \/ CloseFolder
  BY <1>2 DEF Finish, CloseFolder, results
<1>3. CASE Record \/ Crash
  BY <1>0, <1>3 DEF Record, LogRemovals, Crash, NoOutcome, results
<1>4. CASE Delete
  BY <1>0, <1>4 DEF Delete
<1>5. ASSUME NEW r \in Roots, OpenRoot(r) PROVE LogNeverAhead'
  BY <1>5 DEF OpenRoot, results
<1>6. ASSUME NEW d \in Folders, OpenFolder(d) PROVE LogNeverAhead'
  BY <1>6 DEF OpenFolder, results
<1>7. ASSUME NEW e \in listing.entries, PassOver(e) \/ EnterFolder(e) \/ LookAt(e)
      PROVE  LogNeverAhead'
  BY <1>0, <1>7 DEF PassOver, EnterFolder, LookAt, Skip, results
<1>8. CASE Others
  BY <1>8 DEF Others, CreateFile, RemoveFile, Relink, engine, results
<1>9. CASE UNCHANGED vars
  BY <1>9 DEF vars, engine, results
<1> QED
  BY <1>1, <1>2, <1>3, <1>4, <1>5, <1>6, <1>7, <1>8, <1>9 DEF Next

LEMMA Invariance == Spec => []Inv
<1>1. Inv /\ [Next]_vars => Inv'
  BY TypesKept, RoutesKept, CheckedKept, StraysKept, QuietKept, LogKept DEF Inv
<1> QED
  BY <1>1, InitInv, PTL DEF Spec

\* Every variable of the cleaner keeps its type.
THEOREM CleanerTypes == Spec => []TypeOK
<1>1. Inv => TypeOK
  BY DEF Inv
<1> QED
  BY <1>1, Invariance, PTL

\* The log never claims more than execute removed.
THEOREM LogIsHonest == Spec => []LogNeverAhead
<1>1. Inv => LogNeverAhead
  BY DEF Inv
<1> QED
  BY <1>1, Invariance, PTL

\* Only Delete removes for the cleaner, and only the file its path leads to.
LEMMA OnlyDeleteRemoves ==
  ASSUME Inv, [Next]_vars, gone' > gone
  PROVE  /\ pc = "delete"
         /\ Deleted \subseteq {<<Reach(visit.path), visit.name>>} \cap files
<1>1. gone \in Nat
  BY DEF Inv, TypeOK
<1>2. CASE Delete
  BY <1>2 DEF Delete, Deleted
<1>3. CASE Start \/ Finish \/ Record \/ Crash \/ CloseFolder
  BY <1>1, <1>3 DEF Start, Finish, Record, Crash, CloseFolder, results
<1>4. ASSUME NEW r \in Roots, OpenRoot(r) PROVE FALSE
  BY <1>1, <1>4 DEF OpenRoot, results
<1>5. ASSUME NEW d \in Folders, OpenFolder(d) PROVE FALSE
  BY <1>1, <1>5 DEF OpenFolder, results
<1>6. ASSUME NEW e \in listing.entries, PassOver(e) \/ EnterFolder(e) \/ LookAt(e) PROVE FALSE
  BY <1>1, <1>6 DEF PassOver, EnterFolder, LookAt, results
<1>7. CASE Others
  BY <1>1, <1>7 DEF Others, CreateFile, RemoveFile, Relink, results
<1>8. CASE UNCHANGED vars
  BY <1>1, <1>8 DEF vars, results
<1> QED
  BY <1>2, <1>3, <1>4, <1>5, <1>6, <1>7, <1>8 DEF Next

\* A folder swapped for a link during the walk of execute costs at most one file
\* outside the roots, for any roots, links, names and number of swaps.
THEOREM CheckedEachTime == Spec => []OneFilePerSwap
<1>1. Inv => OneFilePerSwap
  BY DEF Inv, Strays, OneFilePerSwap
<1> QED
  BY <1>1, Invariance, PTL

\* No file with a preserved name is deleted, and what is in a preserved or denied
\* folder only through a link put at the place of another one, wherever links lead.
THEOREM KeepsAll == Spec => KeepsWhatStays
<1>1. ASSUME Inv, [Next]_vars, gone' > gone, NEW f \in Deleted
      PROVE  /\ f[2] \notin Preserved
             /\ f[1] \in Denied \cup Preserved => LinkedTo(f[1])
  <2>1. /\ pc = "delete" /\ f = <<Reach(visit.path), visit.name>> /\ f \in files
        /\ visit.path \notin Denied \cup Preserved /\ visit.name \notin Preserved
    BY <1>1, OnlyDeleteRemoves DEF Inv, Checked
  <2>2. visit.path \in Folders /\ f[1] \in Folders /\ None \notin Folders
    BY <1>1, <2>1, ConstantsAssumption DEF Inv, TypeOK, Files
  <2>3. leads[visit.path] = f[1]
    BY <2>1, <2>2, ReachRange
  <2> QED
    BY <2>1, <2>2, <2>3 DEF LinkedTo
<1>2. Inv /\ [Next]_vars
        => [gone' > gone =>
              \A f \in Deleted : /\ f[2] \notin Preserved
                                 /\ f[1] \in Denied \cup Preserved => LinkedTo(f[1])]_vars
  BY <1>1
<1> QED
  BY <1>2, Invariance, PTL DEF Spec, KeepsWhatStays

-----------------------------------------------------------------------------
(* Nothing is forgotten: what is owed stays in place and ahead of the walk.  *)

Progress == Inv /\ InPlace /\ Ahead /\ Done

\* What stays owed while no folder is put aside stays in place.
LEMMA StillInPlace ==
  ASSUME Inv, InPlace, owed' \subseteq owed, owed' \subseteq files', UNCHANGED leads
  PROVE  InPlace'
BY DEF InPlace, Answerable, Reach

LEMMA InPlaceKept == ASSUME Progress, [Next]_vars PROVE InPlace'
<1> USE DEF Progress
<1>0. owed' \subseteq files'
  BY TypesKept DEF Inv, TypeOK
<1>1. CASE Start
  <2>1. owed' \subseteq Answerable /\ UNCHANGED <<files, leads>>
    BY <1>1 DEF Start, world
  <2>2. ASSUME NEW f \in Answerable PROVE leads[f[1]] = f[1]
    <3>1. f[1] \in Folders /\ None \notin Folders
      BY ConstantsAssumption DEF Answerable, Inv, TypeOK, Files
    <3> QED
      BY <3>1, ReachRange DEF Answerable
  <2> QED
    BY <2>1, <2>2 DEF InPlace, Answerable, Reach
<1>2. CASE Finish \/ Record \/ Crash \/ CloseFolder
  BY <1>0, <1>2, StillInPlace DEF Finish, Record, Crash, CloseFolder, world
<1>3. CASE Delete
  BY <1>0, <1>3, StillInPlace DEF Delete
<1>4. ASSUME NEW r \in Roots, OpenRoot(r) PROVE InPlace'
  BY <1>0, <1>4, StillInPlace DEF OpenRoot, world
<1>5. ASSUME NEW d \in Folders, OpenFolder(d) PROVE InPlace'
  BY <1>0, <1>5, StillInPlace DEF OpenFolder, world, Without
<1>6. ASSUME NEW e \in listing.entries, PassOver(e) \/ EnterFolder(e) \/ LookAt(e) PROVE InPlace'
  BY <1>0, <1>6, StillInPlace DEF PassOver, EnterFolder, LookAt, Skip, Settle, world
<1>7. CASE Others
  <2>1. ASSUME NEW f \in Files, CreateFile(f) \/ RemoveFile(f) PROVE InPlace'
    BY <1>0, <2>1, StillInPlace DEF CreateFile, RemoveFile
  <2>2. ASSUME NEW d \in Folders \ Elsewhere, NEW t \in LinkTargets \cup {d, None},
               Relink(d, t)
        PROVE  InPlace'
    <3>1. \A c \in Folders \ {d} : leads'[c] = leads[c]
      BY <2>2 DEF Relink, Inv, TypeOK
    <3>2. ASSUME NEW f \in owed' PROVE leads'[f[1]] = f[1] /\ (f \in Answerable)'
      <4>1. /\ f \in owed /\ f[1] # d /\ f[1] \notin SubfoldersOf(d) /\ f[1] \in Folders
            /\ leads[f[1]] = f[1] /\ f \in Answerable
        BY <2>2, <3>2 DEF Relink, Without, InPlace, Inv, TypeOK, Files
      <4>2. leads'[f[1]] = f[1]
        BY <3>1, <4>1
      <4>3. \A r \in Roots : f[1] \in Sub[r] => leads'[r] = leads[r]
        BY <3>1, <4>1, RootsAreFolders DEF SubfoldersOf
      <4>4. Reach(f[1])' = f[1]
        <5>1. \A r \in Roots : f[1] \in Sub[r] => leads[r] = r
          BY <4>1, ConstantsAssumption DEF Answerable, Reach
        <5> QED
          BY <4>2, <4>3, <5>1 DEF Reach
      <4> QED
        BY <2>2, <4>1, <4>2, <4>4 DEF Relink, Answerable
    <3> QED
      BY <3>2 DEF InPlace
  <2> QED
    BY <1>7, <2>1, <2>2 DEF Others
<1>8. CASE UNCHANGED vars
  BY <1>0, <1>8, StillInPlace DEF vars, world
<1> QED
  BY <1>1, <1>2, <1>3, <1>4, <1>5, <1>6, <1>7, <1>8 DEF Next

\* What a file that is owed looks like, and its entry in the folder above it.
LEMMA OwedFile ==
  ASSUME Inv, InPlace, NEW f \in owed
  PROVE  /\ f \in files /\ f = <<f[1], f[2]>> /\ f[1] \in Folders /\ f[2] \in Names
         /\ leads[f[1]] = f[1] /\ f[1] # None
         /\ f[1] \notin Elsewhere \cup Denied \cup Preserved /\ f[2] \notin Preserved
         /\ \A r \in Roots : f[1] \in Sub[r] => leads[r] = r /\ r \notin Denied
<1>1. f \in files /\ f = <<f[1], f[2]>> /\ f[1] \in Folders /\ f[2] \in Names
  BY DEF Inv, TypeOK, Files
<1>2. /\ leads[f[1]] = f[1] /\ f[1] # None /\ Reach(f[1]) = f[1]
      /\ f[1] \notin Elsewhere \cup Denied \cup Preserved /\ f[2] \notin Preserved
  BY <1>1, ConstantsAssumption DEF InPlace, Answerable
<1>3. \A r \in Roots : f[1] \in Sub[r] => leads[r] = r /\ r \notin Denied
  BY <1>2, ConstantsAssumption DEF Reach
<1> QED
  BY <1>1, <1>2, <1>3

\* Opening a folder brings the entries of every file that is owed under it.
LEMMA OpenedIsListed ==
  ASSUME Inv, InPlace, NEW f \in owed, NEW d \in pending, f[1] = d \/ f[1] \in SubfoldersOf(d)
  PROVE  \/ f[1] = d /\ FileEntry(f[2]) \in EntriesOf(Reach(d))
         \/ FolderEntry(f[1]) \in EntriesOf(Reach(d))
<1>1. d \in Folders
  BY DEF Inv, TypeOK
<1>2. CASE f[1] = d
  <2>1. Reach(d) = d
    BY <1>2, OwedFile DEF Reach
  <2> QED
    BY <1>2, <2>1, OwedFile DEF EntriesOf
<1>3. CASE f[1] \in SubfoldersOf(d)
  <2>1. d \in Roots /\ f[1] \in Sub[d]
    BY <1>3 DEF SubfoldersOf
  <2>2. \A r \in Roots : d \notin Sub[r]
    BY <2>1, ConstantsAssumption
  <2>3. Reach(d) = d
    BY <2>1, <2>2, OwedFile DEF Reach
  <2> QED
    BY <1>3, <2>3, OwedFile DEF EntriesOf
<1> QED
  BY <1>2, <1>3

LEMMA AheadKept == ASSUME Progress, [Next]_vars PROVE Ahead'
<1> SUFFICES ASSUME (pc \in {"walk", "delete"})', NEW f \in owed' PROVE Coming(f)'
  BY DEF Ahead
<1> USE DEF Progress
<1>0. Inv' /\ InPlace' /\ Inv /\ InPlace
  BY InPlaceKept, TypesKept, RoutesKept, CheckedKept, StraysKept, QuietKept, LogKept DEF Inv
<1>1. CASE Start
  <2>1. f \in Files /\ f[1] \notin Elsewhere /\ rootsLeft' = Roots
    BY <1>1 DEF Start, Answerable, Inv, TypeOK
  <2>2. \E r \in Roots : f[1] = r \/ f[1] \in Sub[r]
    BY <2>1 DEF Files, Folders
  <2> QED
    BY <2>1, <2>2 DEF Coming
<1>2. CASE Finish \/ Record \/ Crash
  BY <1>2 DEF Finish, Record, Crash
<1>3. CASE CloseFolder
  <2>1. /\ f \in owed /\ Coming(f)
        /\ UNCHANGED <<rootsLeft, pending, pc, visit>>
        /\ f[1] # listing.path \/ listing.entries = {}
        /\ FolderEntry(f[1]) \notin listing.entries
    BY <1>3 DEF CloseFolder, Ahead
  <2> QED
    BY <2>1 DEF Coming
<1>4. CASE Delete
  <2>1. /\ f \in owed /\ Coming(f) /\ f # <<visit.path, visit.name>>
        /\ UNCHANGED <<leads, rootsLeft, pending, listing>>
    BY <1>4 DEF Delete, Ahead
  <2>2. ~ (visit.path = f[1] /\ visit.name = f[2])
    BY <1>0, <2>1, OwedFile
  <2> QED
    BY <2>1, <2>2 DEF Coming, FolderEntry
<1>5. ASSUME NEW r \in Roots, OpenRoot(r) PROVE Coming(f)'
  <2>1. /\ f \in owed /\ Coming(f) /\ pending = {} /\ pc = "walk"
        /\ rootsLeft' = rootsLeft \ {r}
        /\ UNCHANGED <<leads, listing>>
    BY <1>5 DEF OpenRoot, Idle, Ahead, world
  <2>2. CASE f[1] = r \/ f[1] \in Sub[r]
    <3>1. leads[r] # None /\ r \notin Denied
      BY <1>0, <2>1, <2>2, OwedFile, RootsAreFolders, ConstantsAssumption
    <3> QED
      BY <1>5, <2>2, <3>1 DEF OpenRoot, Coming, SubfoldersOf
  <2>3. CASE ~ (f[1] = r \/ f[1] \in Sub[r])
    BY <2>1, <2>3 DEF Coming, FolderEntry
  <2> QED
    BY <2>2, <2>3
<1>6. ASSUME NEW d \in Folders, OpenFolder(d) PROVE Coming(f)'
  <2>1. /\ f \in owed /\ Coming(f) /\ d \in pending /\ pc = "walk"
        /\ listing.entries = {} /\ pending' = pending \ {d}
        /\ UNCHANGED <<rootsLeft, leads>>
    BY <1>6 DEF OpenFolder, Idle, Ahead, world, Without, NoListing
  <2>2. CASE f[1] = d \/ f[1] \in SubfoldersOf(d)
    <3>1. listing' = [path |-> d, entries |-> EntriesOf(Reach(d))]
      BY <1>6, <2>2 DEF OpenFolder, Without
    <3> QED
      BY <1>0, <2>1, <2>2, <3>1, OpenedIsListed DEF Coming, FolderEntry
  <2>3. CASE ~ (f[1] = d \/ f[1] \in SubfoldersOf(d))
    BY <2>1, <2>3 DEF Coming
  <2> QED
    BY <2>2, <2>3
<1>7. ASSUME NEW e \in listing.entries, PassOver(e) PROVE Coming(f)'
  <2>1. /\ f \in owed /\ Coming(f) /\ pc = "walk"
        /\ listing'.path = listing.path /\ listing'.entries = listing.entries \ {e}
        /\ UNCHANGED <<rootsLeft, pending, leads>>
    BY <1>0, <1>7, ListingShrinks DEF PassOver, Ahead, world, Inv
  <2>2. e # FolderEntry(f[1])
    <3>1. leads[f[1]] = f[1] /\ f[1] \notin Preserved
      BY <1>0, <2>1, OwedFile
    <3>2. e.name \in Preserved \/ e.link \/ ~ e.folder
      BY <1>7 DEF PassOver
    <3>3. /\ FolderEntry(f[1]).name \notin Preserved
          /\ FolderEntry(f[1]).folder
          /\ ~ FolderEntry(f[1]).link
      BY <3>1 DEF FolderEntry
    <3> QED
      BY ONLY <3>2, <3>3, Zenon
  <2>3. ~ (listing.path = f[1] /\ e = FileEntry(f[2]))
    BY <1>0, <1>7, <2>1, OwedFile DEF PassOver, FileEntry
  <2> QED
    BY <2>1, <2>2, <2>3 DEF Coming, FolderEntry
<1>8. ASSUME NEW e \in listing.entries, EnterFolder(e) PROVE Coming(f)'
  <2>1. /\ f \in owed /\ Coming(f) /\ pc = "walk" /\ e.folder
        /\ listing'.path = listing.path /\ listing'.entries = listing.entries \ {e}
        /\ pending' = pending \cup {e.name}
        /\ UNCHANGED <<rootsLeft, leads>>
    BY <1>0, <1>8, ListingShrinks DEF EnterFolder, Ahead, world, Inv
  <2>2. e = FolderEntry(f[1]) => f[1] \in pending'
    BY <2>1 DEF FolderEntry
  <2>3. e # FileEntry(f[2])
    BY <2>1 DEF FileEntry
  <2> QED
    BY <2>1, <2>2, <2>3 DEF Coming, FolderEntry
<1>9. ASSUME NEW e \in listing.entries, LookAt(e) PROVE Coming(f)'
  <2>1. /\ f \in owed /\ Coming(f) /\ pc = "walk" /\ ~ e.folder
        /\ listing'.path = listing.path /\ listing'.entries = listing.entries \ {e}
        /\ UNCHANGED <<rootsLeft, pending, leads>>
    BY <1>0, <1>9, ListingShrinks DEF LookAt, Ahead, world, Inv, Skip, Settle
  <2>2. e # FolderEntry(f[1])
    BY <2>1 DEF FolderEntry
  <2>3. CASE listing.path = f[1] /\ e = FileEntry(f[2])
    <3>1. e.name = f[2]
      BY <2>3 DEF FileEntry
    <3>2. ~ Skip(e.name)
      BY <1>0, <2>1, <2>3, <3>1, OwedFile DEF Skip, Settle
    <3> QED
      BY <1>9, <2>3, <3>1, <3>2 DEF LookAt, Coming
  <2>4. CASE ~ (listing.path = f[1] /\ e = FileEntry(f[2]))
    BY <2>1, <2>2, <2>4 DEF Coming, FolderEntry
  <2> QED
    BY <2>3, <2>4
<1>10. CASE Others \/ UNCHANGED vars
  <2>1. f \in owed /\ UNCHANGED engine
    BY <1>10 DEF Others, CreateFile, RemoveFile, Relink, Without, vars
  <2>2. Coming(f) /\ leads[f[1]] = f[1] /\ leads'[f[1]] = f[1]
    BY <1>0, <2>1 DEF Ahead, InPlace, engine
  <2> QED
    BY <2>1, <2>2 DEF Coming, FolderEntry, engine
<1> QED
  BY <1>1, <1>2, <1>3, <1>4, <1>5, <1>6, <1>7, <1>8, <1>9, <1>10 DEF Next

LEMMA DoneKept == ASSUME Progress, [Next]_vars PROVE Done'
<1> USE DEF Progress, Done
<1>1. CASE Start
  BY <1>1 DEF Start
<1>2. CASE Finish
  <2>1. \A f \in owed : ~ Coming(f)
    BY <1>2 DEF Finish, Idle, Coming, NoListing
  <2> QED
    BY <1>2, <2>1 DEF Finish, Idle, Ahead
<1>3. CASE Record \/ Crash \/ Delete
  BY <1>3 DEF Record, Crash, Delete
<1>4. CASE CloseFolder
  BY <1>4 DEF CloseFolder
<1>5. ASSUME NEW r \in Roots, OpenRoot(r) PROVE Done'
  BY <1>5 DEF OpenRoot, Idle
<1>6. ASSUME NEW d \in Folders, OpenFolder(d) PROVE Done'
  BY <1>6 DEF OpenFolder, Idle
<1>7. ASSUME NEW e \in listing.entries, PassOver(e) \/ EnterFolder(e) \/ LookAt(e) PROVE Done'
  BY <1>7 DEF PassOver, EnterFolder, LookAt, Skip
<1>8. CASE Others
  BY <1>8 DEF Others, CreateFile, RemoveFile, Relink, Without, engine
<1>9. CASE UNCHANGED vars
  BY <1>9 DEF vars, engine
<1> QED
  BY <1>1, <1>2, <1>3, <1>4, <1>5, <1>6, <1>7, <1>8, <1>9 DEF Next

\* No file that was there from the start, in a folder nobody touched and that could
\* be read, is forgotten by the walk of execute, for every tree of roots and subfolders.
THEOREM WalkIsWhole == Spec => []NothingForgotten
<1>1. Init => Progress
  BY InitInv DEF Init, Progress, InPlace, Ahead, Done
<1>2. Progress /\ [Next]_vars => Progress'
  BY TypesKept, RoutesKept, CheckedKept, StraysKept, QuietKept, LogKept, InPlaceKept, AheadKept, DoneKept
  DEF Progress, Inv
<1>3. Progress => NothingForgotten
  BY DEF Progress, Done, NothingForgotten
<1> QED
  BY <1>1, <1>2, <1>3, PTL DEF Spec
================================================================================
