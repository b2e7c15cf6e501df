---------------------------- MODULE CleanupService ----------------------------
(***************************************************************************)
(* The cleaning of a finding: MainWindow::clean_selected_finding() lists   *)
(* what would leave, confirm_and_clean() asks, and CleanupService::        *)
(* execute() deletes, minutes later and on another thread, while programs  *)
(* write and open files and folders join the cloud.                        *)
(*                                                                         *)
(* The window always deletes: the other mode of execute() gives the file   *)
(* to the quarantine, which QuarantineStore models.  How a folder is       *)
(* listed is StorageScanner's; here it is one step, which may give only    *)
(* some of the files and calls itself complete all the same: nobody asks   *)
(* it to stop, and what it cannot open or read on it only counts.          *)
(***************************************************************************)
EXTENDS ProtectedPaths, ActionLog, FiniteSetsExt

CONSTANTS
  FilePaths,      \* the paths at which files may be
  MaxSize,        \* bound: the size of a file
  Requests,       \* what a finding asks: [temporary, folders]
  System,         \* the folders of this computer
  CloudFolders,   \* folders that may join the cloud
  MaxDiskChanges, \* bound: changes other programs make
  MaxListFaults   \* bound: listings that fail somewhere

ASSUME CleanupAssumption ==
  /\ IsFiniteSet(FilePaths)
  /\ MaxSize \in Nat \ {0}
  /\ \A r \in Requests : r.temporary \in BOOLEAN

VARIABLES
  disk,          \* the size of the file at each path, 0 for none
  held,          \* paths of files a program holds open
  cloud,         \* the folders of the cloud
  diskChanges, listFaults,
  cleaning,      \* "idle", "planning", "asking", "asked", "removing", "removed", "reported"
  request,       \* the finding being cleaned
  toList,        \* folders still to list
  toPlan,        \* files listed and not yet looked at
  deny,          \* the deny-list of the task that runs
  plan,          \* CleanupPlan: the items
  rejected,      \* how many were not taken into it
  toRemove,      \* items execute() has not come to
  size,          \* the size just read, 0 when none was
  outcome,       \* CleanupOutcome
  gone,          \* history: the files it deleted, in order
  denyAsked,     \* history: the deny-list when the user agreed
  listingFailed  \* history: a listing of this request gave only some of the files

cleanupVars == <<disk, held, cloud, diskChanges, listFaults, cleaning, request, toList, toPlan, deny,
                 plan, rejected, toRemove, size, outcome, gone, denyAsked, listingFailed>>

DenyList == BuildProtectedPaths(System, cloud)

NoOutcome == [removed |-> 0, freed |-> 0, skipped |-> 0]

CleanupInit ==
  /\ disk \in [FilePaths -> {0, 1}]
  /\ held = {}
  /\ cloud = {}
  /\ diskChanges = 0
  /\ listFaults = 0
  /\ cleaning = "idle"
  /\ request = [temporary |-> FALSE, folders |-> <<>>]
  /\ toList = <<>>
  /\ toPlan = <<>>
  /\ deny = DenyList
  /\ plan = <<>>
  /\ rejected = 0
  /\ toRemove = <<>>
  /\ size = 0
  /\ outcome = NoOutcome
  /\ gone = <<>>
  /\ denyAsked = DenyList
  /\ listingFailed = FALSE

-----------------------------------------------------------------------------
(* Other programs, and the user in another window.                          *)

DiskChange ==
  /\ diskChanges < MaxDiskChanges
  /\ diskChanges' = diskChanges + 1
  /\ \/ /\ \E p \in FilePaths \ held, n \in 0..MaxSize :
             n # disk[p] /\ disk' = [disk EXCEPT ![p] = n]
        /\ UNCHANGED <<held, cloud>>
     \/ /\ \E p \in FilePaths :
             \/ p \in held /\ held' = held \ {p}
             \/ disk[p] > 0 /\ p \notin held /\ held' = held \cup {p}
        /\ UNCHANGED <<disk, cloud>>
     \/ /\ \E f \in CloudFolders \ cloud : cloud' = cloud \cup {f}
        /\ UNCHANGED <<disk, held>>
  /\ UNCHANGED <<listFaults, cleaning, request, toList, toPlan, deny, plan, rejected, toRemove, size,
                 outcome, gone, denyAsked, listingFailed, logVars>>

-----------------------------------------------------------------------------
(* The plan.                                                                *)

\* The folders of the temporary files are looked at before any is listed.
Unprotected(folders, list) == SelectSeq(folders, LAMBDA f : ~IsProtected(list, f))

CleanSelectedFinding ==
  /\ cleaning = "idle"
  /\ \E r \in Requests :
       /\ request' = r
       /\ toList' = IF r.temporary THEN Unprotected(r.folders, DenyList) ELSE r.folders
  /\ deny' = DenyList
  /\ cleaning' = "planning"
  /\ UNCHANGED <<disk, held, cloud, diskChanges, listFaults, toPlan, plan, rejected, toRemove, size,
                 outcome, gone, denyAsked, listingFailed, logVars>>

FilesUnder(folder) == {p \in FilePaths : disk[p] > 0 /\ StrictlyUnder(p, folder)}

ListFault == listFaults < MaxListFaults /\ listFaults' = listFaults + 1

\* A folder of the catalogue that is protected or not found is rejected.  Where one
\* below cannot be opened or its listing breaks off, the files found are planned.
ListFolder ==
  /\ cleaning = "planning"
  /\ toList # <<>>
  /\ request.temporary \/ toPlan = <<>>
  /\ LET all    == FilesUnder(Head(toList))
         denied == ~request.temporary /\ IsProtected(deny, Head(toList))
     IN  \/ /\ ~denied
            /\ toPlan' = toPlan \o SetToSeq(all)
            /\ UNCHANGED <<rejected, listFaults, listingFailed>>
         \/ /\ ~denied /\ ListFault
            /\ \E some \in SUBSET all \ {all} : toPlan' = toPlan \o SetToSeq(some)
            /\ listingFailed' = TRUE
            /\ UNCHANGED rejected
         \/ /\ denied
            /\ rejected' = rejected + 1
            /\ UNCHANGED <<toPlan, listFaults, listingFailed>>
         \/ /\ ~denied /\ ~request.temporary /\ ListFault
            /\ rejected' = rejected + 1
            /\ UNCHANGED <<toPlan, listingFailed>>
  /\ toList' = Tail(toList)
  /\ UNCHANGED <<disk, held, cloud, diskChanges, cleaning, request, deny, plan, toRemove, size, outcome,
                 gone, denyAsked, logVars>>

PlanFile ==
  /\ cleaning = "planning"
  /\ toPlan # <<>>
  /\ request.temporary => toList = <<>>
  /\ LET p == Head(toPlan)
     IN  IF IsProtected(deny, p) \/ disk[p] = 0
         THEN rejected' = rejected + 1 /\ UNCHANGED plan
         ELSE plan' = Append(plan, [path |-> p, size |-> disk[p]]) /\ UNCHANGED rejected
  /\ toPlan' = Tail(toPlan)
  /\ UNCHANGED <<disk, held, cloud, diskChanges, listFaults, cleaning, request, toList, deny, toRemove,
                 size, outcome, gone, denyAsked, listingFailed, logVars>>

ConfirmAndClean ==
  /\ cleaning = "planning"
  /\ toList = <<>> /\ toPlan = <<>>
  /\ cleaning' = IF plan = <<>> THEN "reported" ELSE "asking"
  /\ UNCHANGED <<disk, held, cloud, diskChanges, listFaults, request, toList, toPlan, deny, plan, rejected,
                 toRemove, size, outcome, gone, denyAsked, listingFailed, logVars>>

AnswerCleaning ==
  /\ cleaning = "asking"
  /\ \E yes \in BOOLEAN :
       /\ cleaning' = IF yes THEN "asked" ELSE "reported"
       /\ denyAsked' = IF yes THEN DenyList ELSE denyAsked
  /\ UNCHANGED <<disk, held, cloud, diskChanges, listFaults, request, toList, toPlan, deny, plan, rejected,
                 toRemove, size, outcome, gone, listingFailed, logVars>>

-----------------------------------------------------------------------------
(* The removal, in a task of its own with a deny-list of its own.            *)

StartRemoval ==
  /\ cleaning = "asked"
  /\ cleaning' = "removing"
  /\ deny' = DenyList
  /\ toRemove' = plan
  /\ UNCHANGED <<disk, held, cloud, diskChanges, listFaults, request, toList, toPlan, plan, rejected, size,
                 outcome, gone, denyAsked, listingFailed, logVars>>

Skip ==
  /\ outcome' = [outcome EXCEPT !.skipped = @ + 1]
  /\ toRemove' = Tail(toRemove)
  /\ size' = 0

\* Mutant: the plan is trusted.
ReadSizeUnchecked ==
  /\ cleaning = "removing"
  /\ toRemove # <<>> /\ size = 0
  /\ IF disk[Head(toRemove).path] = 0
     THEN Skip
     ELSE size' = disk[Head(toRemove).path] /\ UNCHANGED <<toRemove, outcome>>
  /\ UNCHANGED <<disk, held, cloud, diskChanges, listFaults, cleaning, request, toList, toPlan, deny, plan,
                 rejected, gone, denyAsked, listingFailed, logVars>>

\* The protection is asked again, then the size.
ReadSize ==
  /\ cleaning = "removing"
  /\ toRemove # <<>> /\ size = 0
  /\ LET p == Head(toRemove).path
     IN  IF IsProtected(deny, p) \/ disk[p] = 0
         THEN Skip
         ELSE size' = disk[p] /\ UNCHANGED <<toRemove, outcome>>
  /\ UNCHANGED <<disk, held, cloud, diskChanges, listFaults, cleaning, request, toList, toPlan, deny, plan,
                 rejected, gone, denyAsked, listingFailed, logVars>>

\* Mutant: what another program removed in between is counted.
RemoveFileAnyway ==
  /\ cleaning = "removing"
  /\ size > 0
  /\ LET p == Head(toRemove).path
     IN  IF p \in held
         THEN Skip /\ UNCHANGED <<disk, gone>>
         ELSE /\ disk' = [disk EXCEPT ![p] = 0]
              /\ gone' = IF disk[p] > 0 THEN Append(gone, p) ELSE gone
              /\ outcome' = [outcome EXCEPT !.removed = @ + 1, !.freed = @ + size]
              /\ toRemove' = Tail(toRemove)
              /\ size' = 0
  /\ UNCHANGED <<held, cloud, diskChanges, listFaults, cleaning, request, toList, toPlan, deny, plan,
                 rejected, denyAsked, listingFailed, logVars>>

\* remove() says no when the file is gone and fails when it is held.
RemoveFile ==
  /\ cleaning = "removing"
  /\ size > 0
  /\ LET p == Head(toRemove).path
     IN  IF disk[p] = 0 \/ p \in held
         THEN Skip /\ UNCHANGED <<disk, gone>>
         ELSE /\ disk' = [disk EXCEPT ![p] = 0]
              /\ gone' = Append(gone, p)
              /\ outcome' = [outcome EXCEPT !.removed = @ + 1, !.freed = @ + size]
              /\ toRemove' = Tail(toRemove)
              /\ size' = 0
  /\ UNCHANGED <<held, cloud, diskChanges, listFaults, cleaning, request, toList, toPlan, deny, plan,
                 rejected, denyAsked, listingFailed, logVars>>

RecordCleaning ==
  /\ cleaning = "removing"
  /\ toRemove = <<>>
  /\ Record("deleted", outcome.removed, outcome.freed, outcome.skipped)
  /\ cleaning' = "removed"
  /\ UNCHANGED <<disk, held, cloud, diskChanges, listFaults, request, toList, toPlan, deny, plan, rejected,
                 toRemove, size, outcome, gone, denyAsked, listingFailed>>

ReportCleaning ==
  /\ cleaning = "removed"
  /\ ShowHistory
  /\ cleaning' = "reported"
  /\ UNCHANGED <<disk, held, cloud, diskChanges, listFaults, request, toList, toPlan, deny, plan, rejected,
                 toRemove, size, outcome, gone, denyAsked, listingFailed>>

CleaningStep ==
  \/ ListFolder \/ PlanFile \/ ConfirmAndClean \/ AnswerCleaning
  \/ StartRemoval \/ ReadSize \/ RemoveFile \/ RecordCleaning \/ ReportCleaning

CleanupNext == CleanSelectedFinding \/ CleaningStep \/ DiskChange

-----------------------------------------------------------------------------

\* Types of the cleaning's own state; every item of the plan is a path of a file with a size.
CleanupTypes ==
  /\ disk \in [FilePaths -> 0..MaxSize]
  /\ held \subseteq FilePaths
  /\ cloud \subseteq CloudFolders
  /\ cleaning \in {"idle", "planning", "asking", "asked", "removing", "removed", "reported"}
  /\ plan \in Seq([path : FilePaths, size : 1..MaxSize])
  /\ toRemove \in Seq([path : FilePaths, size : 1..MaxSize])
  /\ size \in 0..MaxSize
  /\ size > 0 => cleaning = "removing" /\ toRemove # <<>>
  /\ gone \in Seq(FilePaths)

\* What execute() deletes was in the plan the user agreed to and was not
\* protected when he agreed: a folder that joined the cloud while he read the
\* dialog, minutes after the plan was made, is spared (cleanup_service.cpp:93).
CleanupSpares ==
  \A i \in DOMAIN gone :
    /\ \E j \in DOMAIN plan : plan[j].path = gone[i]
    /\ ~IsProtected(denyAsked, gone[i])

\* "devolver lista parcial faria a limpeza apagar um subconjunto arbitrario do que o
\* usuario viu" (temporary_files_collector.cpp:88): nothing of a listing that broke off
\* goes.  It does: only an interruption makes a scan incomplete, and there is none.
PartialListSpared == request.temporary /\ listingFailed => gone = <<>>

\* Every item the user agreed to is accounted for in what is recorded, once,
\* as removed or as skipped, and removed are those this program removed.
CleanupAccounts ==
  cleaning \in {"removed", "reported"} /\ outcome # NoOutcome =>
    /\ outcome.removed = Len(gone)
    /\ outcome.removed + outcome.skipped = Len(plan)
    /\ \/ unlogged > 0
       \/ log # <<>> /\ log[Len(log)].items = Len(gone)
=============================================================================
