----------------------------- MODULE CleanerEngine -----------------------------
(***************************************************************************)
(* cleaners::CleanerEngine::execute, as the task of run_selected_cleaners  *)
(* calls it: the allowed roots of one cleaner are walked folder by folder, *)
(* every file is looked at once more and deleted, and what came out is     *)
(* recorded.  Other programs create and delete files, and put folders      *)
(* aside for a link to another place, between any two of these calls.      *)
(*                                                                         *)
(* A folder stands for its path and, when nothing was put in its place,    *)
(* for what the path leads to.  The folders waiting to be walked are a     *)
(* set: their order is not used.  The entries of a folder are those it had *)
(* when it was opened.  A link leads to a folder, wherever that is put      *)
(* meanwhile.  Sizes and the grouping of reasons are left out.             *)
(***************************************************************************)
EXTENDS Integers, FiniteSets

CONSTANTS
  Roots,        \* allowed_roots
  Elsewhere,    \* folders the cleaner has nothing to do with
  Sub,          \* the subfolders of each root
  Names,        \* names of files
  AtFirst,      \* files there are at first
  Preserved,    \* preserved_names: of files and of folders
  Denied,       \* folders under the deny-list
  LinkTargets,  \* folders a link may lead to
  MaxChanges,   \* bound: changes other programs make
  MaxRuns,      \* bound: executions
  None

Folders == Roots \cup Elsewhere \cup UNION {Sub[r] : r \in Roots}
Files   == Folders \X Names

ASSUME ConstantsAssumption ==
  /\ Sub \in [Roots -> SUBSET Folders]
  /\ \A r, q \in Roots : Sub[r] \cap (Roots \cup Elsewhere) = {} /\ (r # q => Sub[r] \cap Sub[q] = {})
  /\ Roots \cap Elsewhere = {}
  /\ Folders \cap Names = {} /\ None \notin Folders \cup Names
  /\ AtFirst \subseteq Files
  /\ Preserved \subseteq Names \cup Folders
  /\ Roots \cap Preserved = {}
  /\ Denied \subseteq Folders
  /\ \A r \in Roots \cap Denied : Sub[r] \subseteq Denied
  /\ LinkTargets \subseteq Folders
  /\ \A r \in Roots \cap LinkTargets : Sub[r] = {}
  /\ {MaxChanges, MaxRuns} \subseteq Nat

VARIABLES
  files,      \* the files there are: the folder they really are in, and the name
  leads,      \* what stands at the path of a folder: it, a link, or nothing
  changes,    \* changes other programs made
  swaps,      \* how many of them put a folder aside or back
  pc,         \* where the execution is
  rootsLeft,  \* allowed roots not walked yet
  pending,    \* paths of folders to walk
  listing,    \* the folder being walked: its path, and entries not looked at
  visit,      \* the file being looked at: its path, and where that led
  allowed,    \* the resolved roots
  outcome,    \* files removed, skipped and failed
  runs,       \* executions so far
  logged,     \* item_count over all records
  gone,       \* history: files the cleaner has removed
  astray,     \* history: how many of them were outside the roots
  owed        \* history: files there since the start that it has not dealt with

world   == <<files, leads, changes, swaps>>
engine  == <<pc, rootsLeft, pending, listing, visit, allowed, outcome>>
results == <<runs, logged, gone, astray>>
vars == <<world, engine, results, owed>>

NoListing == [path |-> None, entries |-> {}]
NoVisit   == [path |-> None, name |-> None, real |-> None]
NoOutcome == [removed |-> 0, skipped |-> 0, failed |-> 0]

Init ==
  /\ files = AtFirst
  /\ leads = [d \in Folders |-> d]
  /\ changes = 0 /\ swaps = 0
  /\ pc = "idle" /\ rootsLeft = {} /\ pending = {}
  /\ listing = NoListing /\ visit = NoVisit
  /\ allowed = {} /\ outcome = NoOutcome
  /\ runs = 0 /\ logged = 0 /\ gone = 0 /\ astray = 0
  /\ owed = {}

\* Where the path of a folder leads: to nothing when its root was put aside.
Reach(d) ==
  IF \E r \in Roots : d \in Sub[r] /\ leads[r] # r THEN None ELSE leads[d]

SubfoldersOf(d) == IF d \in Roots THEN Sub[d] ELSE {}

\* The files owed without those in a folder and under it.
Without(d) == {f \in owed : f[1] # d /\ f[1] \notin SubfoldersOf(d)}

FileEntry(n)   == [name |-> n, folder |-> FALSE, link |-> FALSE]
FolderEntry(d) == [name |-> d, folder |-> TRUE, link |-> leads[d] # d]

\* What FindFirstFileExW and FindNextFileW answer for a folder.
EntriesOf(real) ==
  {FileEntry(n) : n \in {m \in Names : <<real, m>> \in files}} \cup
  {FolderEntry(d) : d \in {s \in SubfoldersOf(real) : leads[s] # None}}

-----------------------------------------------------------------------------
AtOrUnder(resolved) == resolved \cup UNION {SubfoldersOf(d) : d \in resolved}

\* The files a walk that starts now has to deal with.
Answerable ==
  {f \in files : /\ Reach(f[1]) = f[1]
                 /\ f[1] \notin Elsewhere \cup Denied \cup Preserved
                 /\ f[2] \notin Preserved}

\* The roots are resolved before anything is walked; one that cannot be opened
\* is left out, and without any nothing is walked.  A path is inside when it is
\* at or under a resolved root.
Start ==
  /\ pc = "idle" /\ runs < MaxRuns
  /\ runs' = runs + 1
  /\ \E opened \in SUBSET Roots :
       LET resolved == {leads[r] : r \in opened} \ {None}
       IN  /\ allowed' = AtOrUnder(resolved)
           /\ pc' = IF resolved = {} THEN "record" ELSE "walk"
           /\ owed' = IF resolved = {} THEN {} ELSE Answerable
  /\ rootsLeft' = Roots
  /\ outcome' = NoOutcome
  /\ UNCHANGED <<world, pending, listing, visit, logged, gone, astray>>

Idle == pc = "walk" /\ listing = NoListing

\* A root that is no folder now, or on the deny-list, is passed over.
OpenRoot(r) ==
  /\ Idle /\ pending = {} /\ r \in rootsLeft
  /\ rootsLeft' = rootsLeft \ {r}
  /\ pending' = IF leads[r] = None \/ r \in Denied THEN {} ELSE {r}
  /\ UNCHANGED <<world, pc, listing, visit, allowed, outcome, results, owed>>

\* Mutant: the walk ends at the first folder that cannot be opened.
OpenFolderOrEnd(d) ==
  /\ Idle /\ d \in pending
  /\ \/ /\ Reach(d) # None
        /\ pending' = pending \ {d}
        /\ listing' = [path |-> d, entries |-> EntriesOf(Reach(d))]
        /\ UNCHANGED owed
     \/ /\ pending' = {}
        /\ listing' = NoListing
        /\ owed' = Without(d)
  /\ UNCHANGED <<world, pc, rootsLeft, visit, allowed, outcome, results>>

\* A folder that is not there any more or cannot be opened is passed over.
OpenFolder(d) ==
  /\ Idle /\ d \in pending
  /\ pending' = pending \ {d}
  /\ \/ /\ Reach(d) # None
        /\ listing' = [path |-> d, entries |-> EntriesOf(Reach(d))]
        /\ UNCHANGED owed
     \/ /\ listing' = NoListing
        /\ owed' = Without(d)
  /\ UNCHANGED <<world, pc, rootsLeft, visit, allowed, outcome, results>>

Rest(e) == [listing EXCEPT !.entries = @ \ {e}]

\* What is to be preserved, links and files on the deny-list are passed over.
PassOver(e) ==
  /\ pc = "walk" /\ e \in listing.entries
  /\ \/ e.name \in Preserved
     \/ e.folder /\ e.link
     \/ ~ e.folder /\ listing.path \in Denied
  /\ listing' = Rest(e)
  /\ UNCHANGED <<world, pc, rootsLeft, pending, visit, allowed, outcome, results, owed>>

\* Mutant: a preserved name only keeps a file.
EnterFolderByName(e) ==
  /\ pc = "walk" /\ e \in listing.entries
  /\ e.folder /\ ~ e.link
  /\ pending' = pending \cup {e.name}
  /\ listing' = Rest(e)
  /\ UNCHANGED <<world, pc, rootsLeft, visit, allowed, outcome, results, owed>>

EnterFolder(e) ==
  /\ pc = "walk" /\ e \in listing.entries
  /\ e.folder /\ ~ e.link /\ e.name \notin Preserved
  /\ pending' = pending \cup {e.name}
  /\ listing' = Rest(e)
  /\ UNCHANGED <<world, pc, rootsLeft, visit, allowed, outcome, results, owed>>

\* Settled: the file at a path, as far as it was there from the start.
Settle(d, n) == owed' = owed \ {<<d, n>>}

Skip(n) ==
  /\ outcome' = [outcome EXCEPT !.skipped = @ + 1]
  /\ Settle(listing.path, n)
  /\ UNCHANGED <<pc, visit>>

\* Mutant: the path itself decides, without where it leads.
LookAtPath(e) ==
  /\ pc = "walk" /\ e \in listing.entries
  /\ ~ e.folder /\ e.name \notin Preserved /\ listing.path \notin Denied
  /\ listing' = Rest(e)
  /\ LET real == Reach(listing.path)
     IN  \/ /\ <<real, e.name>> \in files
            /\ pc' = "delete"
            /\ visit' = [path |-> listing.path, name |-> e.name, real |-> real]
            /\ UNCHANGED <<outcome, owed>>
         \/ Skip(e.name)
  /\ UNCHANGED <<world, rootsLeft, pending, allowed, results>>

\* The last look: where the path leads now, if it can be opened, and whether that
\* is inside the roots.
LookAt(e) ==
  /\ pc = "walk" /\ e \in listing.entries
  /\ ~ e.folder /\ e.name \notin Preserved /\ listing.path \notin Denied
  /\ listing' = Rest(e)
  /\ LET real == Reach(listing.path)
     IN  \/ /\ <<real, e.name>> \in files /\ real \in allowed
            /\ pc' = "delete"
            /\ visit' = [path |-> listing.path, name |-> e.name, real |-> real]
            /\ UNCHANGED <<outcome, owed>>
         \/ Skip(e.name)
  /\ UNCHANGED <<world, rootsLeft, pending, allowed, results>>

\* DeleteFileW follows the path once more; a file in use is not deleted.
Delete ==
  /\ pc = "delete"
  /\ LET f == <<Reach(visit.path), visit.name>>
     IN  \/ /\ f \in files
            /\ files' = files \ {f} /\ gone' = gone + 1
            /\ astray' = IF f[1] \in allowed THEN astray ELSE astray + 1
            /\ outcome' = [outcome EXCEPT !.removed = @ + 1]
         \/ /\ outcome' = [outcome EXCEPT !.failed = @ + 1]
            /\ UNCHANGED <<files, gone, astray>>
  /\ owed' = (owed \ {<<visit.path, visit.name>>}) \cap files'
  /\ pc' = "walk" /\ visit' = NoVisit
  /\ UNCHANGED <<leads, changes, swaps, rootsLeft, pending, listing, allowed, runs, logged>>

\* The entries are through, or FindNextFileW failed and the rest is not seen.
CloseFolder ==
  /\ pc = "walk" /\ listing # NoListing
  /\ listing' = NoListing
  /\ owed' = IF listing.entries = {} THEN owed
             ELSE {f \in owed : /\ f[1] # listing.path
                                /\ FolderEntry(f[1]) \notin listing.entries}
  /\ UNCHANGED <<world, pc, rootsLeft, pending, visit, allowed, outcome, results>>

Finish ==
  /\ Idle /\ pending = {} /\ rootsLeft = {}
  /\ pc' = "record"
  /\ UNCHANGED <<world, rootsLeft, pending, listing, visit, allowed, outcome, results, owed>>

\* ActionLog: opening it or writing to it may fail.
LogRemovals == logged' = logged + outcome.removed \/ UNCHANGED logged

\* A log that cannot be opened or written is passed over.
Record ==
  /\ pc = "record"
  /\ LogRemovals
  /\ pc' = "idle" /\ outcome' = NoOutcome /\ owed' = {}
  /\ rootsLeft' = {}
  /\ UNCHANGED <<world, pending, listing, visit, allowed, runs, gone, astray>>

\* The process ends anywhere.
Crash ==
  /\ pc # "idle"
  /\ pc' = "idle" /\ rootsLeft' = {} /\ pending' = {}
  /\ listing' = NoListing /\ visit' = NoVisit /\ outcome' = NoOutcome
  /\ owed' = {}
  /\ UNCHANGED <<world, allowed, results>>

-----------------------------------------------------------------------------
(* Other programs.                                                           *)

Change == changes < MaxChanges /\ changes' = changes + 1

CreateFile(f) ==
  /\ Change /\ f \notin files
  /\ files' = files \cup {f}
  /\ UNCHANGED <<leads, swaps, engine, results, owed>>

RemoveFile(f) ==
  /\ Change /\ f \in files
  /\ files' = files \ {f}
  /\ owed' = owed \ {f}
  /\ UNCHANGED <<leads, swaps, engine, results>>

\* The folder is put aside, for a link or for nothing, or put back.
Relink(d, t) ==
  /\ Change /\ t # leads[d]
  /\ swaps' = swaps + 1
  /\ leads' = [leads EXCEPT ![d] = t]
  /\ owed' = Without(d)
  /\ UNCHANGED <<files, engine, results>>

Others ==
  \/ \E f \in Files : CreateFile(f) \/ RemoveFile(f)
  \/ \E d \in Folders \ Elsewhere : \E t \in LinkTargets \cup {d, None} : Relink(d, t)

Next ==
  \/ Start \/ Finish \/ Record \/ Crash \/ CloseFolder \/ Delete
  \/ \E r \in Roots : OpenRoot(r)
  \/ \E d \in Folders : OpenFolder(d)
  \/ \E e \in listing.entries : PassOver(e) \/ EnterFolder(e) \/ LookAt(e)
  \/ Others

Spec == Init /\ [][Next]_vars

-----------------------------------------------------------------------------
Entries == [name : Names, folder : {FALSE}, link : {FALSE}]
             \cup [name : Folders \ Elsewhere, folder : {TRUE}, link : BOOLEAN]

TypeOK ==
  /\ files \subseteq Files
  /\ leads \in [Folders -> Folders \cup {None}]
  /\ changes \in 0..MaxChanges /\ swaps \in Nat /\ runs \in 0..MaxRuns
  /\ {logged, gone, astray} \subseteq Nat
  /\ pc \in {"idle", "walk", "delete", "record"}
  /\ rootsLeft \subseteq Roots
  /\ pending \subseteq Folders \ Elsewhere
  /\ listing = NoListing \/ listing \in [path : Folders \ Elsewhere, entries : SUBSET Entries]
  /\ visit = NoVisit \/ visit \in [path : Folders \ Elsewhere, name : Names, real : Folders]
  /\ pc = "delete" <=> visit # NoVisit
  /\ allowed \subseteq Folders
  /\ outcome \in [removed : Nat, skipped : Nat, failed : Nat]
  /\ owed \subseteq files

Deleted == files \ files'

\* "A checagem e refeita imediatamente antes de cada exclusao" (cleaner_spec.hpp), since
\* "um link que aponte para fora, um caminho trocado no meio do caminho" must not lead a
\* cleaner out: a folder swapped for a link, at whatever moment of the walk, costs at
\* most one file outside the roots, the one that had just been looked at.
OneFilePerSwap == astray <= swaps

\* "Fora delas o limpador nao apaga nada, aconteca o que acontecer" (the same comment).
\* That one file may go: DeleteFileW follows the path once more.
OnlyInside == astray = 0

\* A link at the place of some folder leads here.
LinkedTo(d) == \E c \in Folders \ {d} : leads[c] = d

\* "Nomes de arquivo ou pasta que ficam, mesmo estando dentro de uma raiz permitida"
\* (cleaner_spec.hpp), and the deny-list over them: a file with a preserved name never
\* goes, and one in a preserved or denied folder only while another folder has been put
\* aside for a link to that one.
KeepsWhatStays ==
  [][gone' > gone =>
       \A f \in Deleted : /\ f[2] \notin Preserved
                          /\ f[1] \in Denied \cup Preserved => LinkedTo(f[1])]_vars

\* The same without the proviso.  The deny-list and the preserved names are asked about
\* the path, not about where it leads, so what a link leads to goes.
KeepsWhatLinksReach ==
  [][gone' > gone => \A f \in Deleted : f[1] \notin Denied \cup Preserved]_vars

\* Whatever other programs do, at the end of a walk no file that was there from the
\* start, in a folder nobody touched and that could be read, was forgotten.
NothingForgotten == pc = "record" => owed = {}

\* The log never claims more than was removed, whatever fails and whenever the process
\* ends ("Soma dos tamanhos dos arquivos removidos", cleaner_spec.hpp).
LogNeverAhead == logged + outcome.removed <= gone

\* "Sem quarentena, este registro e a unica rastreabilidade que sobra" (action_log.hpp):
\* between two executions the records add up to what was removed.  They do not, since a
\* log that cannot be opened or written is passed over (cleaner_unlogged.cfg).
RemovalsLogged == pc = "idle" => logged = gone
=============================================================================
