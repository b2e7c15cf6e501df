-------------------------- MODULE MaintenanceProofs --------------------------
(***************************************************************************)
(* Proofs about the tools of the window, for any files, findings, entries,  *)
(* products and deny-list, and any number of changes by other programs and  *)
(* of failures: the cleaning of a finding, what starts with Windows, the    *)
(* pins of the cloud, what the history says was released, and the           *)
(* installers.  One invariant for each tool.                                *)
(***************************************************************************)
EXTENDS Maintenance, Sums, TLAPS, SequenceTheorems, FiniteSetTheorems

LEMMA SetIsListed ==
  ASSUME NEW T, IsFiniteSet(T)
  PROVE  SetToSeq(T) \in Seq(T) /\ IsInjective(SetToSeq(T))
<1>1. /\ Cardinality(T) \in Nat
      /\ ExistsBijection(1..Cardinality(T), T)
  BY FS_CardinalityType
<1>2. \E f \in [1..Cardinality(T) -> T] : IsInjective(f)
  BY <1>1 DEF ExistsBijection, Bijection, Injection
<1>3. SetToSeq(T) \in [1..Cardinality(T) -> T] /\ IsInjective(SetToSeq(T))
  BY <1>2 DEF SetToSeq
<1> QED
  BY <1>1, <1>3

LEMMA Indexed ==
  ASSUME NEW S, NEW s \in Seq(S)
  PROVE  DOMAIN s = 1..Len(s) /\ Len(s) \in Nat
  OBVIOUS

-----------------------------------------------------------------------------
(* The cleaning. *)

Items    == [path : FilePaths, size : 1..MaxSize]
Outcomes == [removed : Nat, freed : Nat, skipped : Nat]

Shape ==
  /\ CleanupTypes
  /\ toPlan \in Seq(FilePaths)
  /\ outcome \in Outcomes
  /\ tool # "cleaning" => cleaning = "idle"
  /\ tool = "cleaning" => log \in Seq(Rows) /\ unlogged \in Nat

\* Nothing is removed before the user agreed, and every request is the first.
InOrder ==
  /\ cleaning \in {"idle", "planning", "asking", "asked"} => gone = <<>> /\ outcome = NoOutcome
  /\ cleaning # "removing" => toRemove = <<>>

Planned ==
  /\ \A i \in DOMAIN toRemove : \E j \in DOMAIN plan : plan[j] = toRemove[i]
  /\ \A i \in DOMAIN gone : \E j \in DOMAIN plan : plan[j].path = gone[i]

\* A list as strict as the one when the user agreed.
Strict(list) == \A p \in FilePaths : IsProtected(denyAsked, p) => IsProtected(list, p)

Spared ==
  /\ cleaning = "asked" => Strict(DenyList)
  /\ cleaning = "removing" => Strict(deny)
  /\ size > 0 => ~IsProtected(deny, Head(toRemove).path)
  /\ \A i \in DOMAIN gone : ~IsProtected(denyAsked, gone[i])

Counted ==
  /\ cleaning = "removing" =>
       /\ outcome.removed = Len(gone)
       /\ outcome.removed + outcome.skipped + Len(toRemove) = Len(plan)
  /\ CleanupAccounts

CleaningInv == Shape /\ InOrder /\ Planned /\ Spared /\ Counted

-----------------------------------------------------------------------------

LEMMA FilesAreListed ==
  ASSUME NEW folder, NEW T \in SUBSET FilesUnder(folder)
  PROVE  SetToSeq(T) \in Seq(FilePaths)
<1>1. T \subseteq FilePaths
  BY DEF FilesUnder
<1>2. IsFiniteSet(T)
  BY <1>1, FS_Subset, CleanupAssumption
<1>3. SetToSeq(T) \in Seq(T)
  BY <1>2, SetIsListed
<1> QED
  BY <1>1, <1>3

\* No folder that joins the cloud takes the protection of a path away.
LEMMA CloudOnlyProtects ==
  ASSUME NEW c, NEW d, c \subseteq d, NEW p,
         IsProtected(BuildProtectedPaths(System, c), p)
  PROVE  IsProtected(BuildProtectedPaths(System, d), p)
  BY DEF IsProtected, BuildProtectedPaths, CanonicalizeAll, Present

\* What a step that is none of the cleaning leaves alone.
LEMMA Elsewhere ==
  ASSUME MaintenanceNext \/ UNCHANGED maintenanceVars, ~UseCleaning
  PROVE  UNCHANGED <<tool, cleanupVars>> /\ (tool # "cleaning" \/ UNCHANGED logVars)
  BY DEF MaintenanceNext, UseStartup, UseCommand, UseCloud, UseInstallers, maintenanceVars

-----------------------------------------------------------------------------

LEMMA FirstItem ==
  ASSUME Shape, toRemove # <<>>
  PROVE  /\ Head(toRemove) \in Items
         /\ Head(toRemove).path \in FilePaths
         /\ Tail(toRemove) \in Seq(Items)
         /\ Len(Tail(toRemove)) = Len(toRemove) - 1
         /\ Head(toRemove) = toRemove[1]
         /\ \A i \in DOMAIN Tail(toRemove) :
              i + 1 \in DOMAIN toRemove /\ Tail(toRemove)[i] = toRemove[i + 1]
<1>1. toRemove \in Seq(Items)
  BY DEF Shape, CleanupTypes, Items
<1>2. /\ Head(toRemove) \in Items
      /\ Tail(toRemove) \in Seq(Items)
      /\ Len(Tail(toRemove)) = Len(toRemove) - 1
  BY <1>1, HeadTailProperties
<1> QED
  BY <1>1, <1>2, HeadTailProperties DEF Items

LEMMA SkippedOne ==
  ASSUME NEW o \in Outcomes
  PROVE  [o EXCEPT !.skipped = @ + 1] \in Outcomes
  BY DEF Outcomes

LEMMA Appended ==
  ASSUME NEW S, NEW s \in Seq(S), NEW x \in S
  PROVE  /\ Append(s, x) # <<>> /\ Append(s, x)[Len(Append(s, x))] = x
         /\ \A i \in DOMAIN Append(s, x) :
              Append(s, x)[i] = x \/ (i \in DOMAIN s /\ Append(s, x)[i] = s[i])
  BY AppendProperties

LEMMA RemovedOne ==
  ASSUME NEW o \in Outcomes, NEW n \in Nat
  PROVE  [o EXCEPT !.removed = @ + 1, !.freed = @ + n] \in Outcomes
<1> DEFINE q == [o EXCEPT !.removed = @ + 1]
<1>1. q \in Outcomes
  BY DEF Outcomes
<1>2. [q EXCEPT !.freed = @ + n] \in Outcomes
  <2>1. ASSUME NEW r \in Outcomes PROVE [r EXCEPT !.freed = @ + n] \in Outcomes
    BY DEF Outcomes
  <2> QED
    BY <1>1, <2>1
<1>3. [o EXCEPT !.removed = @ + 1, !.freed = @ + n] = [q EXCEPT !.freed = @ + n]
  BY DEF Outcomes
<1> QED
  BY <1>2, <1>3

\* The branch of remove() in which the file goes.
Removed ==
  LET p == Head(toRemove).path
  IN  /\ disk' = [disk EXCEPT ![p] = 0]
      /\ gone' = Append(gone, p)
      /\ outcome' = [outcome EXCEPT !.removed = @ + 1, !.freed = @ + size]
      /\ toRemove' = Tail(toRemove)
      /\ size' = 0

LEMMA ShapeKept ==
  ASSUME CleaningInv, [MaintenanceNext]_maintenanceVars
  PROVE  Shape'
<1> USE CleanupAssumption
<1>1. ASSUME ~UseCleaning PROVE Shape'
  BY <1>1, Elsewhere DEF CleaningInv, Shape, CleanupTypes, cleanupVars, logVars
<1>2. ASSUME UseCleaning PROVE Shape'
  <2> USE DEF CleaningInv, Shape, CleanupTypes
  <2> tool = "cleaning" /\ tool' = tool /\ CleanupNext
    BY <1>2 DEF UseCleaning
  <2>1. CASE DiskChange
    BY <2>1 DEF DiskChange, logVars
  <2>2. CASE CleanSelectedFinding
    BY <2>2 DEF CleanSelectedFinding, logVars
  <2>3. CASE ListFolder
    <3>1. \/ toPlan' = toPlan
          \/ \E T \in SUBSET FilesUnder(Head(toList)) : toPlan' = toPlan \o SetToSeq(T)
      BY <2>3 DEF ListFolder
    <3>3. ASSUME NEW s \in Seq(FilePaths), NEW t \in Seq(FilePaths) PROVE s \o t \in Seq(FilePaths)
      BY ConcatProperties
    <3>4. toPlan' \in Seq(FilePaths)
      BY <3>1, <3>3, FilesAreListed
    <3> QED
      BY <2>3, <3>4 DEF ListFolder, logVars
  <2>4. CASE PlanFile
    <3> DEFINE p == Head(toPlan)
    <3>1. p \in FilePaths /\ Tail(toPlan) \in Seq(FilePaths)
      BY <2>4 DEF PlanFile
    <3>2. disk[p] # 0 => [path |-> p, size |-> disk[p]] \in Items
      BY <3>1 DEF Items
    <3>3. plan \in Seq(Items)
      BY DEF Items
    <3>4. plan' = plan \/ (disk[p] # 0 /\ plan' = Append(plan, [path |-> p, size |-> disk[p]]))
      BY <2>4 DEF PlanFile
    <3>5. ASSUME NEW item \in Items PROVE Append(plan, item) \in Seq(Items)
      BY <3>3, AppendProperties
    <3>6. plan' \in Seq(Items)
      BY <3>2, <3>3, <3>4, <3>5
    <3> QED
      BY <2>4, <3>1, <3>6 DEF PlanFile, logVars, Items
  <2>5. CASE ConfirmAndClean
    BY <2>5 DEF ConfirmAndClean, logVars
  <2>6. CASE AnswerCleaning
    BY <2>6 DEF AnswerCleaning, logVars
  <2>7. CASE StartRemoval
    BY <2>7 DEF StartRemoval, logVars, InOrder
  <2>8. CASE ReadSize
    <3> DEFINE p == Head(toRemove).path
    <3>1. p \in FilePaths /\ Tail(toRemove) \in Seq(Items)
      BY <2>8, FirstItem DEF ReadSize
    <3>2. CASE Skip
      <4>1. outcome' \in Outcomes
        BY <3>2, SkippedOne DEF Skip
      <4> QED
        BY <2>8, <3>1, <3>2, <4>1 DEF ReadSize, Skip, logVars, Items
    <3>3. CASE size' = disk[p] /\ UNCHANGED <<toRemove, outcome>>
      <4>1. size' \in 0..MaxSize
        BY <3>1, <3>3
      <4> QED
        BY <2>8, <3>3, <4>1 DEF ReadSize, logVars
    <3> QED
      BY <2>8, <3>2, <3>3 DEF ReadSize
  <2>9. CASE RemoveFile
    <3> DEFINE p == Head(toRemove).path
    <3>1. p \in FilePaths /\ Tail(toRemove) \in Seq(Items)
      BY <2>9, FirstItem DEF RemoveFile
    <3>2. CASE Skip /\ UNCHANGED <<disk, gone>>
      <4>1. outcome' \in Outcomes
        BY <3>2, SkippedOne DEF Skip
      <4> QED
        BY <2>9, <3>1, <3>2, <4>1 DEF RemoveFile, Skip, logVars, Items
    <3>3. CASE Removed
      <4>1. outcome' \in Outcomes
        <5>1. size \in Nat
          OBVIOUS
        <5> QED
          BY <3>3, <5>1, RemovedOne DEF Removed
      <4>2. gone' \in Seq(FilePaths) /\ disk' \in [FilePaths -> 0..MaxSize]
        BY <3>1, <3>3, AppendProperties DEF Removed
      <4>3. toRemove' \in Seq(Items) /\ size' = 0 /\ size' \in 0..MaxSize
        BY <3>1, <3>3 DEF Removed
      <4>4. UNCHANGED <<held, cloud, diskChanges, listFaults, cleaning, request, toList, toPlan, deny, plan,
                        rejected, denyAsked, listingFailed, log, unlogged>>
        BY <2>9 DEF RemoveFile, logVars
      <4> QED
        <5>1. toRemove' \in Seq([path : FilePaths, size : 1..MaxSize])
          BY <4>3 DEF Items
        <5>2. ~(size' > 0)
          BY <4>3
        <5>3. CleanupTypes'
          BY <4>2, <4>3, <4>4, <5>1, <5>2
        <5> QED
          BY <4>1, <4>4, <5>3
    <3> QED
      BY <2>9, <3>2, <3>3 DEF RemoveFile, Removed
  <2>10. CASE RecordCleaning
    <3>1. \A time \in Times : [at |-> time, kind |-> "deleted", items |-> outcome.removed,
                                bytes |-> outcome.freed, skipped |-> outcome.skipped] \in Rows
      BY DEF Outcomes, Rows, Kinds
    <3>2. ASSUME NEW row \in Rows PROVE Append(log, row) \in Seq(Rows)
      BY AppendProperties
    <3>3. log' \in Seq(Rows)
      BY <2>10, <3>1, <3>2 DEF RecordCleaning, Record
    <3>4. unlogged' \in Nat
      BY <2>10 DEF RecordCleaning, Record
    <3> QED
      BY <2>10, <3>3, <3>4 DEF RecordCleaning
  <2>11. CASE ReportCleaning
    BY <2>11 DEF ReportCleaning, ShowHistory
  <2> QED
    BY <2>1, <2>2, <2>3, <2>4, <2>5, <2>6, <2>7, <2>8, <2>9, <2>10, <2>11
    DEF CleanupNext, CleaningStep
<1> QED
  BY <1>1, <1>2

LEMMA InOrderKept ==
  ASSUME CleaningInv, [MaintenanceNext]_maintenanceVars
  PROVE  InOrder'
<1>1. ASSUME ~UseCleaning PROVE InOrder'
  BY <1>1, Elsewhere DEF CleaningInv, InOrder, cleanupVars
<1>2. ASSUME UseCleaning PROVE InOrder'
  <2> USE DEF CleaningInv, InOrder
  <2> CleanupNext
    BY <1>2 DEF UseCleaning
  <2>1. CASE DiskChange
    BY <2>1 DEF DiskChange
  <2>2. CASE CleanSelectedFinding
    BY <2>2 DEF CleanSelectedFinding
  <2>3. CASE ListFolder
    BY <2>3 DEF ListFolder
  <2>4. CASE PlanFile
    BY <2>4 DEF PlanFile
  <2>5. CASE ConfirmAndClean
    BY <2>5 DEF ConfirmAndClean
  <2>6. CASE AnswerCleaning
    BY <2>6 DEF AnswerCleaning
  <2>7. CASE StartRemoval
    BY <2>7 DEF StartRemoval
  <2>8. CASE ReadSize
    BY <2>8 DEF ReadSize
  <2>9. CASE RemoveFile
    BY <2>9 DEF RemoveFile
  <2>10. CASE RecordCleaning
    BY <2>10 DEF RecordCleaning
  <2>11. CASE ReportCleaning
    BY <2>11 DEF ReportCleaning
  <2> QED
    BY <2>1, <2>2, <2>3, <2>4, <2>5, <2>6, <2>7, <2>8, <2>9, <2>10, <2>11
    DEF CleanupNext, CleaningStep
<1> QED
  BY <1>1, <1>2

\* A step that takes the head of what is to remove, or starts with the whole plan.
LEMMA PlannedKept ==
  ASSUME CleaningInv, [MaintenanceNext]_maintenanceVars
  PROVE  Planned'
<1>1. ASSUME ~UseCleaning PROVE Planned'
  BY <1>1, Elsewhere DEF CleaningInv, Planned, cleanupVars
<1>2. ASSUME UseCleaning PROVE Planned'
  <2> USE DEF CleaningInv, Planned
  <2> CleanupNext
    BY <1>2 DEF UseCleaning
  <2>1. CASE PlanFile
    <3>1. toRemove' = <<>> /\ gone' = <<>>
      BY <2>1 DEF PlanFile, InOrder
    <3> QED
      BY <3>1
  <2>2. CASE StartRemoval
    BY <2>2 DEF StartRemoval
  <2>3. CASE ReadSize
    <3>1. /\ UNCHANGED <<plan, gone>>
          /\ toRemove' = toRemove \/ (toRemove # <<>> /\ toRemove' = Tail(toRemove))
      BY <2>3 DEF ReadSize, Skip
    <3> QED
      BY <3>1, FirstItem
  <2>4. CASE RemoveFile
    <3> DEFINE p == Head(toRemove).path
    <3>1. toRemove # <<>>
      BY <2>4 DEF RemoveFile, Shape, CleanupTypes
    <3>2. plan' = plan /\ toRemove' = Tail(toRemove) /\ (gone' = gone \/ gone' = Append(gone, p))
      BY <2>4 DEF RemoveFile, Skip
    <3>3. \E j \in DOMAIN plan : plan[j].path = p
      <4>1. 1 \in DOMAIN toRemove /\ toRemove[1] = Head(toRemove)
        BY <3>1, FirstItem DEF Shape, CleanupTypes
      <4> QED
        BY <4>1
    <3>4. \A i \in DOMAIN gone' : \E j \in DOMAIN plan : plan[j].path = gone'[i]
      <4>1. gone \in Seq(FilePaths) /\ p \in FilePaths
        BY <3>1, FirstItem DEF Shape, CleanupTypes
      <4>2. \A i \in DOMAIN gone : \E j \in DOMAIN plan : plan[j].path = gone[i]
        OBVIOUS
      <4> HIDE DEF p
      <4>3. \A i \in DOMAIN Append(gone, p) :
              Append(gone, p)[i] = p \/ (i \in DOMAIN gone /\ Append(gone, p)[i] = gone[i])
        BY <4>1, Appended
      <4>4. ASSUME NEW i \in DOMAIN Append(gone, p)
            PROVE  \E j \in DOMAIN plan : plan[j].path = Append(gone, p)[i]
        BY <3>3, <4>2, <4>3
      <4> QED
        BY <3>2, <4>2, <4>4
    <3> QED
      BY <3>1, <3>2, <3>4, FirstItem
  <2>5. CASE ~(PlanFile \/ StartRemoval \/ ReadSize \/ RemoveFile)
    <3>1. UNCHANGED <<plan, toRemove, gone>>
      BY <2>5
      DEF CleanupNext, CleaningStep, DiskChange, CleanSelectedFinding, ListFolder,
          ConfirmAndClean,
                  AnswerCleaning, RecordCleaning, ReportCleaning
    <3> QED
      BY <3>1
  <2> QED
    BY <2>1, <2>2, <2>3, <2>4, <2>5
<1> QED
  BY <1>1, <1>2

\* The deny-list of the removal is as strict as the one of the consent, and it is asked
\* before each file.
LEMMA SparedKept ==
  ASSUME CleaningInv, [MaintenanceNext]_maintenanceVars
  PROVE  Spared'
<1>1. ASSUME ~UseCleaning PROVE Spared'
  BY <1>1, Elsewhere DEF CleaningInv, Spared, Strict, DenyList, cleanupVars
<1>2. ASSUME UseCleaning PROVE Spared'
  <2> USE DEF CleaningInv, Spared
  <2> CleanupNext
    BY <1>2 DEF UseCleaning
  <2>1. CASE DiskChange
    <3>1. /\ cloud \subseteq cloud'
          /\ UNCHANGED <<cleaning, deny, toRemove, size, gone, denyAsked>>
      BY <2>1 DEF DiskChange
    <3>2. Strict(DenyList) => Strict(DenyList)'
      BY <3>1, CloudOnlyProtects DEF Strict, DenyList
    <3>3. Strict(deny) => Strict(deny)'
      BY <3>1 DEF Strict
    <3> QED
      BY <3>1, <3>2, <3>3
  <2>2. CASE AnswerCleaning
    <3>1. gone' = <<>> /\ size' = 0 /\ cleaning' \in {"asked", "reported"}
      BY <2>2 DEF AnswerCleaning, InOrder, Shape, CleanupTypes
    <3>2. cleaning' = "asked" => denyAsked' = DenyList'
      BY <2>2 DEF AnswerCleaning, DenyList
    <3> QED
      BY <3>1, <3>2 DEF Strict
  <2>3. CASE StartRemoval
    <3>1. /\ gone' = <<>> /\ size' = 0 /\ cleaning' = "removing"
          /\ deny' = DenyList /\ UNCHANGED <<cloud, denyAsked>>
      BY <2>3 DEF StartRemoval, InOrder, Shape, CleanupTypes
    <3>2. Strict(DenyList)
      BY <2>3 DEF StartRemoval
    <3> QED
      BY <3>1, <3>2 DEF Strict
  <2>4. CASE ReadSize
    <3>1. UNCHANGED <<cleaning, deny, gone, denyAsked>> /\ cleaning = "removing"
      BY <2>4 DEF ReadSize
    <3>2. size' > 0 => ~IsProtected(deny, Head(toRemove).path) /\ toRemove' = toRemove
      BY <2>4 DEF ReadSize, Skip
    <3>3. Strict(deny) => Strict(deny)'
      BY <3>1 DEF Strict
    <3> QED
      BY <3>1, <3>2, <3>3
  <2>5. CASE RemoveFile
    <3> DEFINE p == Head(toRemove).path
    <3>1. UNCHANGED <<cleaning, deny, denyAsked>> /\ cleaning = "removing" /\ size' = 0
      BY <2>5 DEF RemoveFile, Skip
    <3>2. Strict(deny) => Strict(deny)'
      BY <3>1 DEF Strict
    <3>3. p \in FilePaths
      BY <2>5, FirstItem DEF RemoveFile, Shape, CleanupTypes
    <3>4. ~IsProtected(denyAsked, p)
      BY <2>5, <3>1, <3>3 DEF RemoveFile, Strict
    <3>5. gone' = gone \/ gone' = Append(gone, p)
      BY <2>5 DEF RemoveFile
    <3>6. \A i \in DOMAIN gone' : ~IsProtected(denyAsked, gone'[i])
      <4>1. gone \in Seq(FilePaths)
        BY DEF Shape, CleanupTypes
      <4> QED
        BY <3>3, <3>4, <3>5, <4>1, Appended
    <3> QED
      BY <3>1, <3>2, <3>6
  <2>6. CASE \/ CleanSelectedFinding \/ ListFolder \/ PlanFile \/ ConfirmAndClean
             \/ RecordCleaning \/ ReportCleaning
    <3>1. /\ UNCHANGED <<toRemove, size, gone, denyAsked>>
          /\ cleaning' \notin {"asked", "removing"}
          /\ size = 0
      BY <2>6 DEF CleanSelectedFinding, ListFolder, PlanFile, ConfirmAndClean, RecordCleaning,
                  ReportCleaning, Shape, CleanupTypes
    <3> QED
      BY <3>1
  <2> QED
    BY <2>1, <2>2, <2>3, <2>4, <2>5, <2>6 DEF CleanupNext, CleaningStep
<1> QED
  BY <1>1, <1>2

LEMMA CountedKept ==
  ASSUME CleaningInv, [MaintenanceNext]_maintenanceVars
  PROVE  Counted'
<1>1. ASSUME ~UseCleaning PROVE Counted'
  <2>1. UNCHANGED cleanupVars /\ (cleaning = "idle" \/ UNCHANGED logVars)
    BY <1>1, Elsewhere DEF CleaningInv, Shape
  <2> QED
    BY <2>1 DEF CleaningInv, Counted, CleanupAccounts, cleanupVars, logVars
<1>2. ASSUME UseCleaning PROVE Counted'
  <2> USE DEF CleaningInv, Counted, CleanupAccounts
  <2> tool = "cleaning" /\ CleanupNext
    BY <1>2 DEF UseCleaning
  <2>1. CASE StartRemoval
    <3>1. toRemove' = plan /\ plan' = plan /\ gone' = <<>> /\ outcome' = NoOutcome /\ cleaning' = "removing"
      BY <2>1 DEF StartRemoval, InOrder
    <3>2. Len(plan) \in Nat
      BY DEF Shape, CleanupTypes
    <3> QED
      BY <3>1, <3>2, EmptySeq DEF NoOutcome
  <2>2. CASE ReadSize \/ RemoveFile
    <3>1. cleaning = "removing" /\ cleaning' = cleaning /\ toRemove # <<>> /\ plan' = plan
      BY <2>2 DEF ReadSize, RemoveFile, Shape, CleanupTypes
    <3>2. Len(Tail(toRemove)) = Len(toRemove) - 1 /\ Len(toRemove) \in Nat
      BY <3>1, FirstItem DEF Shape, CleanupTypes
    <3>3. outcome \in Outcomes /\ gone \in Seq(FilePaths)
      BY DEF Shape, CleanupTypes
    <3>4. CASE UNCHANGED <<toRemove, outcome, gone>>
      BY <3>1, <3>4
    <3>5. CASE Skip /\ gone' = gone
      <4>1. outcome'.removed = outcome.removed /\ outcome'.skipped = outcome.skipped + 1
        BY <3>3, <3>5 DEF Skip, Outcomes
      <4>2. outcome.skipped \in Nat /\ outcome.removed \in Nat
        BY <3>3 DEF Outcomes
      <4> QED
        BY <3>1, <3>2, <3>5, <4>1, <4>2 DEF Skip
    <3>6. CASE Removed
      <4>1. outcome'.removed = outcome.removed + 1 /\ outcome'.skipped = outcome.skipped
        BY <3>3, <3>6 DEF Removed, Outcomes
      <4>2. outcome.skipped \in Nat /\ outcome.removed \in Nat
        BY <3>3 DEF Outcomes
      <4>3. Len(gone') = Len(gone) + 1
        BY <3>1, <3>3, <3>6, FirstItem, AppendProperties DEF Removed
      <4> QED
        BY <3>1, <3>2, <3>6, <4>1, <4>2, <4>3 DEF Removed
    <3> QED
      BY <2>2, <3>4, <3>5, <3>6 DEF ReadSize, RemoveFile, Removed
  <2>3. CASE RecordCleaning
    <3>0. PICK row :
            /\ \E time \in Times : row = [at |-> time, kind |-> "deleted", items |-> outcome.removed,
                                         bytes |-> outcome.freed, skipped |-> outcome.skipped]
            /\ \/ log' = Append(log, row) /\ unlogged' = unlogged
               \/ unlogged' = unlogged + 1
      BY <2>3 DEF RecordCleaning, Record, Times
    <3>1. /\ cleaning = "removing" /\ toRemove = <<>> /\ cleaning' = "removed"
          /\ UNCHANGED <<plan, gone, outcome>>
          /\ \/ log' = Append(log, row) /\ unlogged' = unlogged
             \/ unlogged' = unlogged + 1
      BY <2>3, <3>0 DEF RecordCleaning
    <3>2. unlogged \in Nat /\ log \in Seq(Rows) /\ outcome \in Outcomes
      BY DEF Shape
    <3>3. row \in Rows /\ row.items = outcome.removed
      BY <3>0, <3>2 DEF Rows, Kinds, Outcomes
    <3>4. \/ unlogged' > 0
          \/ log' # <<>> /\ log'[Len(log')] = row
      BY <3>1, <3>2, <3>3, Appended
    <3>5. outcome.removed = Len(gone) /\ outcome.removed + outcome.skipped = Len(plan)
      <4>1. plan \in Seq(Items)
        BY DEF Shape, CleanupTypes, Items
      <4>2. outcome.removed \in Nat /\ outcome.skipped \in Nat /\ Len(plan) \in Nat /\ Len(toRemove) = 0
        BY <3>1, <3>2, <4>1, EmptySeq DEF Outcomes
      <4> QED
        BY <3>1, <4>2
    <3> QED
      BY <3>1, <3>3, <3>4, <3>5
  <2>4. CASE ReportCleaning
    BY <2>4 DEF ReportCleaning, ShowHistory
  <2>5. CASE ConfirmAndClean \/ AnswerCleaning
    BY <2>5 DEF ConfirmAndClean, AnswerCleaning, InOrder
  <2>6. CASE CleanSelectedFinding \/ ListFolder \/ PlanFile
    BY <2>6 DEF CleanSelectedFinding, ListFolder, PlanFile
  <2>7. CASE DiskChange
    BY <2>7 DEF DiskChange, logVars
  <2> QED
    BY <2>1, <2>2, <2>3, <2>4, <2>5, <2>6, <2>7 DEF CleanupNext, CleaningStep
<1> QED
  BY <1>1, <1>2

LEMMA CleaningInvHolds == MaintenanceSpec => []CleaningInv
<1>1. MaintenanceInit => CleaningInv
  <2> SUFFICES ASSUME MaintenanceInit PROVE CleaningInv
    OBVIOUS
  <2> USE CleanupAssumption DEF MaintenanceInit, CleanupInit, LogInit
  <2>1. Shape
    <3>1. outcome \in Outcomes /\ log \in Seq(Rows) /\ unlogged \in Nat
      BY DEF NoOutcome, Outcomes
    <3>2. disk \in [FilePaths -> 0..MaxSize]
      OBVIOUS
    <3> QED
      BY <3>1, <3>2 DEF Shape, CleanupTypes
  <2>2. InOrder /\ Planned
    BY DEF InOrder, Planned
  <2>3. Spared /\ Counted
    BY DEF Spared, Counted, CleanupAccounts
  <2> QED
    BY <2>1, <2>2, <2>3 DEF CleaningInv
<1>2. CleaningInv /\ [MaintenanceNext]_maintenanceVars => CleaningInv'
  BY ShapeKept, InOrderKept, PlannedKept, SparedKept, CountedKept
  DEF CleaningInv
<1> QED
  BY <1>1, <1>2, PTL DEF MaintenanceSpec

\* Sizes and paths keep their types, and a size read belongs to the item at the head.
THEOREM CleaningTypes == MaintenanceSpec => []CleanupTypes
<1>1. CleaningInv => CleanupTypes
  BY DEF CleaningInv, Shape
<1> QED
  BY <1>1, CleaningInvHolds, PTL

\* Nothing goes that was not in the plan the user agreed to or was protected when he
\* agreed, whatever joins the cloud meanwhile and however much of a folder was listed.
THEOREM CleaningSpares == MaintenanceSpec => []CleanupSpares
<1>1. CleaningInv => CleanupSpares
  BY DEF CleaningInv, Planned, Spared, CleanupSpares
<1> QED
  BY <1>1, CleaningInvHolds, PTL

\* Each item the user agreed to is counted once, as removed or as skipped, and the
\* history tells the number this program removed.
THEOREM CleaningAccounts == MaintenanceSpec => []CleanupAccounts
<1>1. CleaningInv => CleanupAccounts
  BY DEF CleaningInv, Counted
<1> QED
  BY <1>1, CleaningInvHolds, PTL

-----------------------------------------------------------------------------
(* What starts with Windows. *)

Listed ==
  {r \in [entry : Entries, origin : {Origins[k] : k \in DOMAIN Origins}, enabled : BOOLEAN] :
     r.entry.origin = ReadFrom(r.origin)}

DialogShape ==
  /\ present \subseteq Entries
  /\ approved \in [StartupKeys -> {"none", "on", "off"}]
  /\ items \in Seq(Listed)
  /\ at \in Nat \ {0}
  /\ managing = "idle" => items = <<>>
  /\ managing \in {"idle", "dialog"} => at = 1
  /\ managing \in {"idle", "collecting", "dialog"} => checks = <<>> /\ written = {}
  /\ managing = "applying" => checks \in [DOMAIN items -> BOOLEAN]
  /\ writing => managing = "applying" /\ at \in DOMAIN items /\ Asked(at)

\* Every entry is listed once in each view that shows it.
OneEach ==
  /\ \A i, j \in DOMAIN items : items[i].entry = items[j].entry /\ items[i].origin = items[j].origin => i = j
  /\ managing \in {"idle", "collecting"} =>
       \A i \in DOMAIN items, k \in at..Len(Origins) : items[i].origin # Origins[k]

AsksFor(i, k) ==
  KeyOf(items[i]) = k /\ ~items[i].entry.essential /\ checks[i] # items[i].enabled

InTurn ==
  /\ managing = "applying" => \A i \in DOMAIN items : i < at /\ OwnBox(i) => Settled(i)
  /\ Applied => \A i \in DOMAIN items : OwnBox(i) => Settled(i)
  /\ \A k \in written : \E i \in DOMAIN items : AsksFor(i, k)

StartupInv == DialogShape /\ OneEach /\ InTurn

LEMMA Joined ==
  ASSUME NEW S, NEW s \in Seq(S), NEW t \in Seq(S)
  PROVE  s \o t \in Seq(S)
  BY ConcatProperties

LEMMA IsListed ==
  ASSUME NEW s \in Seq(Listed), NEW i \in DOMAIN s
  PROVE  /\ s[i].entry \in Entries /\ s[i].enabled \in BOOLEAN
         /\ s[i].origin \in {Origins[k] : k \in DOMAIN Origins} /\ s[i].entry.origin = ReadFrom(s[i].origin)
<1>1. s[i] \in Listed
  OBVIOUS
<1> QED
  BY <1>1 DEF Listed

LEMMA NotStartup ==
  ASSUME MaintenanceNext \/ UNCHANGED maintenanceVars, ~UseStartup
  PROVE  UNCHANGED startupVars
  BY DEF MaintenanceNext, UseInstallers, UseCommand, UseCloud, UseCleaning, maintenanceVars

LEMMA KeysKnown ==
  ASSUME NEW e \in Entries, NEW o \in {Origins[k] : k \in DOMAIN Origins}, ReadFrom(o) = e.origin
  PROVE  SwitchKey(e, o) \in StartupKeys
<1>1. SwitchKey(e, o) \in {<<o, e.name>>, <<o, e.file>>}
  BY DEF SwitchKey
<1>2. <<e, o>> \in Views
  BY DEF Views
<1> QED
  BY <1>1, <1>2 DEF StartupKeys

LEMMA OwnKeyKnown ==
  ASSUME NEW e \in Entries
  PROVE  WindowsKey(e) \in StartupKeys
<1>1. e.origin \in {Origins[k] : k \in DOMAIN Origins} /\ ReadFrom(e.origin) = e.origin
  BY EntriesAssumption DEF ReadFrom
<1> QED
  BY <1>1, KeysKnown DEF WindowsKey

LEMMA ItemKeys ==
  ASSUME NEW r \in Listed
  PROVE  KeyOf(r) = SwitchKey(r.entry, r.origin) /\ KeyOf(r) \in StartupKeys
<1>1. r.entry \in Entries /\ r.origin \in {Origins[k] : k \in DOMAIN Origins} /\ ReadFrom(r.origin) = r.entry.origin
  BY DEF Listed
<1>2. KeyOf(r) = SwitchKey(r.entry, r.origin)
  BY DEF KeyOf, SwitchKey
<1> QED
  BY <1>1, <1>2, KeysKnown

\* The key of an own box is that of no other item.
LEMMA KeysApart ==
  ASSUME NEW r \in Listed, NEW t \in Listed, r.origin = r.entry.origin, KeyOf(t) = WindowsKey(r.entry)
  PROVE  t.entry = r.entry /\ t.origin = r.origin
<1>1. t.origin = r.origin
  BY ItemKeys DEF WindowsKey, SwitchKey
<1>2. r.entry \in Entries /\ t.entry \in Entries /\ t.entry.origin = ReadFrom(t.origin) /\ r.entry.origin # "UserRun32"
  BY EntriesAssumption DEF Listed
<1>3. t.entry.origin = t.origin
  BY <1>1, <1>2 DEF ReadFrom
<1>4. WindowsKey(t.entry) = WindowsKey(r.entry)
  BY <1>3, ItemKeys DEF WindowsKey
<1> QED
  BY <1>1, <1>2, <1>4, KeysAssumption

LEMMA FoundListed ==
  ASSUME present \subseteq Entries, NEW k \in 1..Len(Origins), NEW unread
  PROVE  LET found == SetToSeq({e \in present : e.origin = ReadFrom(Origins[k])})
             more  == Listing(found, Origins[k], unread)
         IN  /\ more \in Seq(Listed)
             /\ \A i \in DOMAIN more : more[i].origin = Origins[k]
             /\ \A i, j \in DOMAIN more : more[i].entry = more[j].entry => i = j
<1> DEFINE T == {e \in present : e.origin = ReadFrom(Origins[k])}
           found == SetToSeq(T)
           more == Listing(found, Origins[k], unread)
<1>1. IsFiniteSet(T)
  BY EntriesAssumption, FS_Subset
<1>2. found \in Seq(T) /\ IsInjective(found)
  BY <1>1, SetIsListed
<1> HIDE DEF found
<1>3. DOMAIN more = DOMAIN found /\ DOMAIN found = 1..Len(found) /\ Len(found) \in Nat /\ \A i \in DOMAIN found : found[i] \in T
  <2> HIDE DEF T
  <2> QED
    BY <1>2 DEF Listing
<1>4. more \in Seq(Listed)
  <2>1. \A i \in 1..Len(found) : more[i] \in Listed
    <3> TAKE i \in 1..Len(found)
    <3>1. found[i] \in Entries /\ found[i].origin = ReadFrom(Origins[k])
      BY <1>3
    <3>2. Origins[k] \in {Origins[n] : n \in DOMAIN Origins}
      BY DEF Origins
    <3> HIDE DEF T
    <3> QED
      BY <3>1, <3>2 DEF Listed, Listing, Starts, StartupIsEnabled
  <2>2. more \in [1..Len(found) -> Listed]
    BY <2>1, <1>3 DEF Listing
  <2> QED
    BY <2>2, <1>3
<1>5. \A i \in DOMAIN more : more[i].origin = Origins[k]
  BY <1>3 DEF Listing
<1>6. \A i, j \in DOMAIN more : more[i].entry = more[j].entry => i = j
  BY <1>2 DEF IsInjective, Listing
<1> QED
  BY <1>4, <1>5, <1>6 DEF found

\* A list of the next origin behind those of the earlier ones.
LEMMA MoreListed ==
  ASSUME NEW s \in Seq(Listed), NEW t \in Seq(Listed), NEW o,
         \A i \in DOMAIN s : s[i].origin # o,
         \A i \in DOMAIN t : t[i].origin = o,
         \A i, j \in DOMAIN s : s[i].entry = s[j].entry /\ s[i].origin = s[j].origin => i = j,
         \A i, j \in DOMAIN t : t[i].entry = t[j].entry => i = j
  PROVE  /\ s \o t \in Seq(Listed)
         /\ \A i \in DOMAIN (s \o t) : (s \o t)[i].origin = o \/ (i \in DOMAIN s /\ (s \o t)[i] = s[i])
         /\ \A i, j \in DOMAIN (s \o t) :
              (s \o t)[i].entry = (s \o t)[j].entry /\ (s \o t)[i].origin = (s \o t)[j].origin => i = j
<1> DEFINE u == s \o t
<1>1. u \in Seq(Listed) /\ Len(u) = Len(s) + Len(t)
  BY ConcatProperties
<1>2. DOMAIN s = 1..Len(s) /\ DOMAIN t = 1..Len(t) /\ DOMAIN u = 1..Len(s) + Len(t) /\ Len(s) \in Nat /\ Len(t) \in Nat
  BY <1>1, Indexed
<1>3. \A i \in DOMAIN s : u[i] = s[i]
  BY <1>2, ConcatProperties
<1>4. \A i \in DOMAIN u : i \notin DOMAIN s => i - Len(s) \in DOMAIN t /\ u[i] = t[i - Len(s)]
  BY <1>2, ConcatProperties
<1> HIDE DEF u
<1>5. \A i \in DOMAIN u : u[i].origin = o \/ (i \in DOMAIN s /\ u[i] = s[i])
  BY <1>3, <1>4
<1>6. ASSUME NEW i \in DOMAIN u, NEW j \in DOMAIN u, u[i].entry = u[j].entry, u[i].origin = u[j].origin
      PROVE  i = j
  <2>1. CASE i \in DOMAIN s /\ j \in DOMAIN s
    BY <1>3, <1>6, <2>1
  <2>2. CASE i \notin DOMAIN s /\ j \notin DOMAIN s
    <3>1. i - Len(s) = j - Len(s)
      BY <1>4, <1>6, <2>2
    <3> QED
      BY <3>1, <1>2
  <2>3. CASE (i \in DOMAIN s /\ j \notin DOMAIN s) \/ (i \notin DOMAIN s /\ j \in DOMAIN s)
    <3>1. (u[i].origin # o /\ u[j].origin = o) \/ (u[i].origin = o /\ u[j].origin # o)
      BY <1>3, <1>4, <2>3
    <3> QED
      BY <3>1, <1>6
  <2> QED
    BY <2>1, <2>2, <2>3
<1> QED
  BY <1>1, <1>5, <1>6 DEF u

LEMMA DialogShapeKept ==
  ASSUME StartupInv, [MaintenanceNext]_maintenanceVars
  PROVE  DialogShape'
<1>1. ASSUME ~UseStartup PROVE DialogShape'
  BY <1>1, NotStartup DEF StartupInv, DialogShape, Asked, startupVars
<1>2. ASSUME UseStartup PROVE DialogShape'
  <2> USE DEF StartupInv, DialogShape
  <2> StartupNext
    BY <1>2 DEF UseStartup
  <2>1. CASE OthersChange
    <3>1. UNCHANGED <<managing, items, checks, at, writing, written>>
      BY <2>1 DEF OthersChange
    <3>2. present' \subseteq Entries
      BY <2>1 DEF OthersChange
    <3>3. approved' \in [StartupKeys -> {"none", "on", "off"}]
      BY <2>1 DEF OthersChange
    <3> QED
      BY <3>1, <3>2, <3>3 DEF Asked
  <2>2. CASE ManageStartup
    BY <2>2 DEF ManageStartup, Asked
  <2>3. CASE ReadOrigin
    <3> DEFINE found == SetToSeq({e \in present : e.origin = ReadFrom(Origins[at])})
    <3>1. (\E u \in DOMAIN found \cup {0} : items' = items \o Listing(found, Origins[at], u)) \/ items' = items
      BY <2>3 DEF ReadOrigin
    <3>2. at \in 1..Len(Origins)
      BY <2>3 DEF ReadOrigin
    <3>3. \A u : Listing(found, Origins[at], u) \in Seq(Listed)
      BY <3>2, FoundListed
    <3> HIDE DEF found
    <3>4. items' \in Seq(Listed)
      <4>1. ASSUME NEW u, items' = items \o Listing(found, Origins[at], u) PROVE items' \in Seq(Listed)
        <5>1. PICK more \in Seq(Listed) : items' = items \o more
          BY <3>3, <4>1
        <5> QED
          BY <5>1, Joined
      <4> QED
        BY <3>1, <4>1
    <3>5. /\ UNCHANGED <<present, approved, managing, checks, writing, written>>
          /\ at' = at + 1 /\ managing = "collecting"
      BY <2>3 DEF ReadOrigin
    <3> QED
      BY <3>4, <3>5
  <2>4. CASE OpenDialog
    BY <2>4 DEF OpenDialog
  <2>5. CASE AnswerStartup
    BY <2>5 DEF AnswerStartup
  <2>6. CASE SkipItem
    BY <2>6 DEF SkipItem
  <2>7. CASE ReadSwitch
    <3>1. at <= Len(items) => at \in DOMAIN items
      BY Indexed
    <3> QED
      BY <2>7, <3>1 DEF ReadSwitch, Asked
  <2>8. CASE WriteSwitch
    <3>1. /\ UNCHANGED <<present, managing, items, checks>>
          /\ managing = "applying" /\ ~writing' /\ at' = at + 1
      BY <2>8 DEF WriteSwitch
    <3>2. approved' \in [StartupKeys -> {"none", "on", "off"}]
      BY <2>8 DEF WriteSwitch
    <3> QED
      BY <3>1, <3>2
  <2>9. CASE ReportStartup \/ RecordStartup
    BY <2>9 DEF ReportStartup, RecordStartup
  <2> QED
    BY <2>1, <2>2, <2>3, <2>4, <2>5, <2>6, <2>7, <2>8, <2>9 DEF StartupNext, StartupStep
<1> QED
  BY <1>1, <1>2

LEMMA OneEachKept ==
  ASSUME StartupInv, [MaintenanceNext]_maintenanceVars
  PROVE  OneEach'
<1>1. ASSUME ~UseStartup PROVE OneEach'
  BY <1>1, NotStartup DEF StartupInv, OneEach, startupVars
<1>2. ASSUME UseStartup PROVE OneEach'
  <2> USE DEF StartupInv, OneEach
  <2> StartupNext
    BY <1>2 DEF UseStartup
  <2>1. CASE ReadOrigin
    <3> DEFINE found == SetToSeq({e \in present : e.origin = ReadFrom(Origins[at])})
    <3>1. (\E u \in DOMAIN found \cup {0} : items' = items \o Listing(found, Origins[at], u)) \/ items' = items
      BY <2>1 DEF ReadOrigin
    <3>2. at \in 1..Len(Origins)
      BY <2>1 DEF ReadOrigin, DialogShape
    <3>3. ASSUME NEW u
          PROVE  LET more == Listing(found, Origins[at], u)
                 IN  /\ more \in Seq(Listed)
                     /\ \A i \in DOMAIN more : more[i].origin = Origins[at]
                     /\ \A i, j \in DOMAIN more : more[i].entry = more[j].entry => i = j
      BY <3>2, FoundListed DEF DialogShape
    <3> HIDE DEF found
    <3>4. managing = "collecting" /\ managing' = managing /\ at' = at + 1
      BY <2>1 DEF ReadOrigin
    <3>5. \A i \in DOMAIN items : items[i].origin # Origins[at]
      BY <3>2, <3>4
    <3>6. ASSUME NEW u \in DOMAIN found \cup {0}, items' = items \o Listing(found, Origins[at], u)
          PROVE  /\ \A i \in DOMAIN items' : items'[i].origin = Origins[at] \/ (i \in DOMAIN items /\ items'[i] = items[i])
                 /\ \A i, j \in DOMAIN items' :
                      items'[i].entry = items'[j].entry /\ items'[i].origin = items'[j].origin => i = j
      <4> DEFINE o == Origins[at]
                 more == Listing(found, Origins[at], u)
      <4>1. /\ items \in Seq(Listed)
            /\ \A i \in DOMAIN items : items[i].origin # o
            /\ \A i, j \in DOMAIN items : items[i].entry = items[j].entry /\ items[i].origin = items[j].origin => i = j
        BY <3>5 DEF DialogShape
      <4>2. /\ more \in Seq(Listed)
            /\ \A i \in DOMAIN more : more[i].origin = o
            /\ \A i, j \in DOMAIN more : more[i].entry = more[j].entry => i = j
        BY <3>3
      <4>3. items' = items \o more
        BY <3>6
      <4> HIDE DEF o, more
      <4>4. /\ \A i \in DOMAIN (items \o more) :
                 (items \o more)[i].origin = o \/ (i \in DOMAIN items /\ (items \o more)[i] = items[i])
            /\ \A i, j \in DOMAIN (items \o more) :
                 (items \o more)[i].entry = (items \o more)[j].entry
                   /\ (items \o more)[i].origin = (items \o more)[j].origin => i = j
        BY <4>1, <4>2, MoreListed, SMTT(30)
      <4> QED
        BY <4>3, <4>4 DEF o
    <3>7. ASSUME NEW k \in at + 1..Len(Origins) PROVE k \in at..Len(Origins) /\ Origins[k] # Origins[at]
      BY <3>2, <3>7 DEF Origins
    <3> QED
      BY <3>1, <3>4, <3>6, <3>7
  <2>2. CASE AnswerStartup \/ OpenDialog \/ ReportStartup \/ RecordStartup
    BY <2>2 DEF AnswerStartup, OpenDialog, ReportStartup, RecordStartup
  <2>3. CASE ManageStartup
    BY <2>3 DEF ManageStartup
  <2>4. CASE SkipItem \/ ReadSwitch \/ WriteSwitch
    BY <2>4 DEF SkipItem, ReadSwitch, WriteSwitch
  <2>5. CASE OthersChange
    BY <2>5 DEF OthersChange
  <2> QED
    BY <2>1, <2>2, <2>3, <2>4, <2>5 DEF StartupNext, StartupStep
<1> QED
  BY <1>1, <1>2

\* Only the item being written changes its switch, and others only one of theirs.
LEMMA InTurnKept ==
  ASSUME StartupInv, [MaintenanceNext]_maintenanceVars
  PROVE  InTurn'
<1> USE DEF StartupInv, InTurn, Applied
<1>1. ASSUME ~UseStartup PROVE InTurn'
  BY <1>1, NotStartup DEF startupVars, Settled, Asked, Starts, StartupIsEnabled, AsksFor, OwnBox
<1>2. ASSUME UseStartup PROVE InTurn'
  <2> StartupNext
    BY <1>2 DEF UseStartup
  <2>1. CASE OthersChange
    <3>1. UNCHANGED <<managing, items, checks, at, written, refused>>
      BY <2>1 DEF OthersChange
    <3>2. PICK e \in Entries :
            \/ /\ foreign' = foreign \cup {WindowsKey(e)}
               /\ approved' = [approved EXCEPT ![WindowsKey(e)] = IF Starts(e) THEN "off" ELSE "on"]
            \/ UNCHANGED <<approved, foreign>>
      BY <2>1 DEF OthersChange, DialogShape
    <3>3. ASSUME NEW i \in DOMAIN items, Settled(i) PROVE Settled(i)'
      <4> DEFINE k == WindowsKey(items[i].entry)
      <4>1. k \in StartupKeys
        BY IsListed, OwnKeyKnown DEF DialogShape
      <4>2. Asked(i)' = Asked(i) /\ items' = items /\ checks' = checks /\ refused' = refused
        BY <3>1 DEF Asked
      <4>3. k \in foreign' \/ (approved'[k] = approved[k] /\ (k \in foreign => k \in foreign'))
        BY <3>2, <4>1 DEF DialogShape
      <4> QED
        BY <3>3, <4>2, <4>3 DEF Settled, Starts, StartupIsEnabled
    <3>4. \A i \in DOMAIN items, k \in written : AsksFor(i, k) => AsksFor(i, k)'
      BY <3>1 DEF AsksFor
    <3> QED
      BY <3>1, <3>3, <3>4 DEF OwnBox
  <2>2. CASE ManageStartup \/ ReadOrigin \/ OpenDialog
    <3>1. checks' = <<>> /\ written' = {} /\ managing' # "applying"
      BY <2>2 DEF ManageStartup, ReadOrigin, OpenDialog, DialogShape
    <3> QED
      BY <3>1
  <2>3. CASE AnswerStartup
    <3>1. /\ written' = {} /\ at' = 1 /\ items' = items
          /\ managing' = "applying" \/ checks' = <<>>
          /\ managing' \in {"applying", "reported"}
      BY <2>3 DEF AnswerStartup, DialogShape
    <3>2. \A i \in DOMAIN items : ~(i < 1)
      BY Indexed DEF DialogShape
    <3> QED
      BY <3>1, <3>2
  <2>4. CASE SkipItem \/ ReadSwitch
    <3>1. /\ UNCHANGED <<approved, managing, items, checks, foreign, written>>
          /\ refused \subseteq refused' /\ managing = "applying"
          /\ at' = at \/ (at' = at + 1 /\ (~Asked(at) \/ StartupIsEnabled(KeyOf(items[at])) = checks[at] \/ at \in refused'))
      BY <2>4 DEF SkipItem, ReadSwitch
    <3>2. at \in DOMAIN items /\ at \in Nat /\ DOMAIN items \subseteq Nat
      BY <2>4, Indexed DEF SkipItem, ReadSwitch, DialogShape
    <3>3. \A i \in DOMAIN items : Settled(i) => Settled(i)'
      BY <3>1 DEF Settled, Asked, Starts, StartupIsEnabled
    <3>4. ASSUME at' = at + 1, NEW i \in DOMAIN items, i = at, OwnBox(i) PROVE Settled(i)'
      <4>1. items[i] \in Listed
        BY DEF DialogShape
      <4>2. KeyOf(items[i]) = WindowsKey(items[i].entry)
        BY <3>4, <4>1, ItemKeys DEF OwnBox, WindowsKey
      <4> QED
        BY <3>1, <3>4, <4>2 DEF Settled, Starts, StartupIsEnabled, Asked
    <3>5. \A i \in DOMAIN items : i < at' /\ OwnBox(i) => Settled(i)'
      BY <3>1, <3>2, <3>3, <3>4
    <3>6. \A i \in DOMAIN items, k \in written : AsksFor(i, k) => AsksFor(i, k)'
      BY <3>1 DEF AsksFor
    <3> QED
      BY <3>1, <3>5, <3>6 DEF OwnBox
  <2>5. CASE WriteSwitch
    <3> DEFINE key == KeyOf(items[at])
    <3>1. /\ UNCHANGED <<managing, items, checks, foreign>>
          /\ managing = "applying" /\ at' = at + 1 /\ writing
          /\ \/ refused' = refused \cup {at} /\ UNCHANGED <<approved, written>>
             \/ /\ approved' = [approved EXCEPT ![key] = IF checks[at] THEN "on" ELSE "off"]
                /\ written' = written \cup {key} /\ refused' = refused
      BY <2>5 DEF WriteSwitch
    <3>2. at \in DOMAIN items /\ at \in Nat /\ DOMAIN items \subseteq Nat /\ Asked(at) /\ checks[at] \in BOOLEAN
      BY <3>1, Indexed DEF DialogShape
    <3>3. \A i \in DOMAIN items : items[i] \in Listed /\ items[i].entry \in Entries
      BY IsListed DEF DialogShape
    <3>4. key \in StartupKeys
      BY <3>2, <3>3, ItemKeys
    <3>5. ASSUME NEW i \in DOMAIN items, i # at, OwnBox(i) PROVE WindowsKey(items[i].entry) # key
      BY <3>2, <3>3, <3>5, KeysApart DEF OneEach, OwnBox
    <3>6. \A k \in StartupKeys : k # key => approved'[k] = approved[k]
      BY <3>1, <3>4 DEF DialogShape
    <3>7. ASSUME NEW i \in DOMAIN items, i = at, OwnBox(i) PROVE Settled(i)'
      <4>1. CASE refused' = refused \cup {at}
        BY <3>7, <4>1 DEF Settled
      <4>2. CASE approved'[key] = IF checks[at] THEN "on" ELSE "off"
        <5>1. (approved'[key] # "off") = checks[at]
          BY <3>2, <4>2
        <5>2. key = WindowsKey(items[at].entry)
          BY <3>2, <3>3, <3>7, ItemKeys DEF OwnBox, WindowsKey
        <5> QED
          BY <3>1, <3>7, <5>1, <5>2 DEF Settled, Starts, StartupIsEnabled
      <4> QED
        BY <3>1, <3>4, <4>1, <4>2 DEF DialogShape
    <3>8. ASSUME NEW i \in DOMAIN items, i # at, OwnBox(i), Settled(i) PROVE Settled(i)'
      <4>1. WindowsKey(items[i].entry) \in StartupKeys
        BY <3>3, OwnKeyKnown
      <4>2. approved'[WindowsKey(items[i].entry)] = approved[WindowsKey(items[i].entry)]
        BY <3>5, <3>6, <3>8, <4>1
      <4> QED
        BY <3>1, <3>8, <4>2 DEF Settled, Asked, Starts, StartupIsEnabled
    <3>9. \A i \in DOMAIN items : i < at' /\ OwnBox(i) => Settled(i)'
      BY <3>1, <3>2, <3>7, <3>8
    <3>10. AsksFor(at, key)
      BY <3>2 DEF AsksFor, Asked
    <3>11. \A i \in DOMAIN items, k \in written \cup {key} : AsksFor(i, k) => AsksFor(i, k)'
      BY <3>1 DEF AsksFor
    <3>12. \A k \in written' : \E i \in DOMAIN items' : AsksFor(i, k)'
      <4>1. \A k \in written \cup {key} : \E i \in DOMAIN items : AsksFor(i, k)
        BY <3>2, <3>10
      <4> HIDE DEF key
      <4> QED
        BY <3>1, <3>11, <4>1
    <3> QED
      BY <3>1, <3>9, <3>12 DEF OwnBox
  <2>6. CASE ReportStartup
    <3>1. /\ UNCHANGED <<approved, items, checks, at, refused, foreign, written>>
          /\ managing = "applying" /\ managing' # "applying" /\ at > Len(items)
      BY <2>6 DEF ReportStartup
    <3>2. \A i \in DOMAIN items : i < at
      BY <3>1, Indexed DEF DialogShape
    <3>3. \A i \in DOMAIN items : Settled(i) => Settled(i)'
      BY <3>1 DEF Settled, Asked, Starts, StartupIsEnabled
    <3>4. \A i \in DOMAIN items, k \in written : AsksFor(i, k) => AsksFor(i, k)'
      BY <3>1 DEF AsksFor
    <3> QED
      BY <3>1, <3>2, <3>3, <3>4 DEF OwnBox
  <2>7. CASE RecordStartup
    <3>1. /\ UNCHANGED <<approved, items, checks, written, refused, foreign>>
          /\ managing' = "reported" /\ managing = "reporting"
      BY <2>7 DEF RecordStartup
    <3> QED
      BY <3>1 DEF Settled, Asked, Starts, StartupIsEnabled, AsksFor, OwnBox
  <2> QED
    BY <2>1, <2>2, <2>3, <2>4, <2>5, <2>6, <2>7 DEF StartupNext, StartupStep
<1> QED
  BY <1>1, <1>2

LEMMA StartupInvHolds == MaintenanceSpec => []StartupInv
<1>1. MaintenanceInit => StartupInv
  <2> SUFFICES ASSUME MaintenanceInit PROVE StartupInv
    OBVIOUS
  <2> USE DEF MaintenanceInit, StartupInit
  <2>1. DialogShape
    BY DEF DialogShape
  <2>2. OneEach
    BY DEF OneEach
  <2>3. InTurn
    BY DEF InTurn, Applied
  <2> QED
    BY <2>1, <2>2, <2>3 DEF StartupInv
<1>2. StartupInv /\ [MaintenanceNext]_maintenanceVars => StartupInv'
  BY DialogShapeKept, OneEachKept, InTurnKept DEF StartupInv
<1> QED
  BY <1>1, <1>2, PTL DEF MaintenanceSpec

\* Every program whose own box the user changed ends as he left it, unless Windows
\* refused or somebody else threw that switch, and no switch is written but those of
\* boxes he changed: for any entries, those of the user's Run key listed twice.
THEOREM BoxesAreHonoured == MaintenanceSpec => []EndsAsAsked
<1>1. StartupInv => EndsAsAsked
  BY DEF StartupInv, InTurn, EndsAsAsked, AsksFor
<1> QED
  BY <1>1, StartupInvHolds, PTL

-----------------------------------------------------------------------------
(* The pins of the cloud. *)

\* A keeper is pinned, and one the listing gave is passed over.
CloudInv ==
  /\ attributes \in [CloudFiles -> SUBSET {"online", "pinned", "unpinned"}]
  /\ names \subseteq CloudFiles
  /\ entry # NoEntry =>
       entry.file \in CloudFiles /\ entry.attributes \subseteq {"online", "pinned", "unpinned"}
  /\ keepers \subseteq {f \in CloudFiles : "pinned" \in attributes[f]}
  /\ releasing = "marking" /\ entry # NoEntry /\ entry.file \in keepers => "pinned" \in entry.attributes
  /\ releasing \in {"idle", "planning", "asking"} => unpinned = {}
  /\ PinsStay

\* The branch of the mark in which the file takes it.
Marks ==
  /\ ~Kept(entry.attributes)
  /\ attributes' = [attributes EXCEPT ![entry.file] =
                      (@ \cap {"online"}) \cup (entry.attributes \ {"pinned", "online"}) \cup {"unpinned"}]
  /\ unpinned' = IF "pinned" \in attributes[entry.file] THEN unpinned \cup {entry.file} ELSE unpinned

LEMMA CloudInvKept ==
  ASSUME CloudInv, [MaintenanceNext]_maintenanceVars
  PROVE  CloudInv'
<1>1. ASSUME ~UseCloud PROVE CloudInv'
  <2>1. UNCHANGED cloudVars
    BY <1>1
    DEF MaintenanceNext, UseStartup, UseCommand, UseInstallers, UseCleaning, maintenanceVars
  <2> QED
    BY <2>1 DEF CloudInv, PinsStay, cloudVars, NoEntry
<1>2. ASSUME UseCloud PROVE CloudInv'
  <2> USE DEF CloudInv, PinsStay
  <2> CloudNext
    BY <1>2 DEF UseCloud
  <2>1. CASE CloudChange
    <3>1. UNCHANGED <<releasing, names, entry, unpinned>>
      BY <2>1 DEF CloudChange
    <3>2. PICK f \in CloudFiles, now \in SUBSET {"online", "pinned", "unpinned"} :
            /\ attributes' = [attributes EXCEPT ![f] = now]
            /\ keepers' = IF "pinned" \in now THEN keepers ELSE keepers \ {f}
      BY <2>1 DEF CloudChange
    <3>3. keepers' \subseteq {g \in CloudFiles : "pinned" \in attributes'[g]}
      BY <3>2
    <3> QED
      BY <3>1, <3>2, <3>3 DEF NoEntry
  <2>2. CASE ReleaseCloudSpace
    BY <2>2 DEF ReleaseCloudSpace, StartWalk
  <2>3. CASE WalkFolder
    BY <2>3 DEF WalkFolder
  <2>4. CASE NextEntry
    <3>1. PICK f \in names : entry' = [file |-> f, attributes |-> attributes[f]] /\ names' = names \ {f}
      BY <2>4 DEF NextEntry
    <3>2. UNCHANGED <<attributes, releasing, unpinned, keepers>>
      BY <2>4 DEF NextEntry
    <3> QED
      BY <3>1, <3>2
  <2>5. CASE PlanEntry
    BY <2>5 DEF PlanEntry
  <2>6. CASE MarkEntry
    <3>1. UNCHANGED <<releasing, names, keepers>> /\ entry' = NoEntry /\ releasing = "marking" /\ entry # NoEntry
      BY <2>6 DEF MarkEntry
    <3>2. CASE UNCHANGED <<attributes, unpinned>>
      BY <3>1, <3>2
    <3>3. CASE Marks
      <4>1. entry.file \in CloudFiles /\ entry.file \notin keepers
        BY <3>1, <3>3 DEF Marks, Kept
      <4>2. attributes' \in [CloudFiles -> SUBSET {"online", "pinned", "unpinned"}]
        <5>1. entry.attributes \subseteq {"online", "pinned", "unpinned"}
          BY <3>1
        <5>2. (attributes[entry.file] \cap {"online"}) \cup (entry.attributes \ {"pinned", "online"}) \cup {"unpinned"}
                \in SUBSET {"online", "pinned", "unpinned"}
          BY <4>1, <5>1
        <5> QED
          BY <3>3, <4>1, <5>2 DEF Marks
      <4>3. \A f \in keepers : attributes'[f] = attributes[f]
        BY <3>3, <4>1 DEF Marks
      <4> QED
        BY <3>1, <3>3, <4>1, <4>2, <4>3 DEF Marks
    <3> QED
      BY <2>6, <3>2, <3>3 DEF MarkEntry, Marks
  <2>7. CASE AskRelease
    BY <2>7 DEF AskRelease
  <2>8. CASE AnswerRelease
    BY <2>8 DEF AnswerRelease, StartWalk
  <2>9. CASE ReportRelease \/ SetButton \/ RecordRelease
    BY <2>9 DEF ReportRelease, SetButton, RecordRelease, StartWalk
  <2> QED
    BY <2>1, <2>2, <2>3, <2>4, <2>5, <2>6, <2>7, <2>8, <2>9 DEF CloudNext, ReleaseStep
<1> QED
  BY <1>1, <1>2

LEMMA CloudInvHolds == MaintenanceSpec => []CloudInv
<1>1. MaintenanceInit => CloudInv
  <2> SUFFICES ASSUME MaintenanceInit PROVE CloudInv
    OBVIOUS
  <2>1. attributes \in [CloudFiles -> SUBSET {"online", "pinned", "unpinned"}]
    BY DEF MaintenanceInit, CloudInit
  <2> QED
    BY <2>1 DEF MaintenanceInit, CloudInit, CloudInv, PinsStay
<1>2. CloudInv /\ [MaintenanceNext]_maintenanceVars => CloudInv'
  BY CloudInvKept
<1> QED
  BY <1>1, <1>2, PTL DEF MaintenanceSpec

\* What the user keeps on this computer stays so, though the release writes attributes
\* it read before the user pinned or unpinned: for any files, folders and changes.
THEOREM PinsAreKept == MaintenanceSpec => []PinsStay
<1>1. CloudInv => PinsStay
  BY DEF CloudInv
<1> QED
  BY <1>1, CloudInvHolds, PTL

-----------------------------------------------------------------------------
(* The installers. *)

Told(p) == Claims(p) \subseteq referenced \cup unanswered

\* Unless a product was removed, those installed throughout are still enumerated, and
\* those before the index were asked for.
Asking ==
  /\ installed \in Seq(Products)
  /\ index \in Nat \ {0}
  /\ reviewing = "idle" => throughout = {} /\ index = 1
  /\ reviewing = "enumerating" /\ ~shifted =>
       /\ index <= Len(installed) + 1
       /\ throughout \subseteq {installed[i] : i \in DOMAIN installed}
       /\ \A i \in DOMAIN installed : i < index => Told(installed[i])

Answered ==
  /\ readable => reviewing \in {"listing", "reviewed"}
  /\ readable /\ ~shifted => \A p \in throughout : Told(p)
  /\ orphans # {} => readable
  /\ orphans \cap referenced = {}
  /\ ~ (reviewing = "listing" /\ ~readable)

InstallerInv == Asking /\ Answered

LEMMA NotInstallers ==
  ASSUME MaintenanceNext \/ UNCHANGED maintenanceVars, ~UseInstallers
  PROVE  UNCHANGED installerVars
  BY DEF MaintenanceNext, UseStartup, UseCommand, UseCloud, UseCleaning, maintenanceVars

LEMMA OneInstalled ==
  ASSUME installed \in Seq(Products), NEW p \in Products
  PROVE  LET more == Append(installed, p)
         IN  /\ more \in Seq(Products)
             /\ Len(more) = Len(installed) + 1
             /\ DOMAIN more = 1..Len(installed) + 1 /\ DOMAIN installed = 1..Len(installed)
             /\ \A i \in DOMAIN installed : i \in DOMAIN more /\ more[i] = installed[i]
  BY AppendProperties

LEMMA OneRemoved ==
  ASSUME installed \in Seq(Products), NEW i \in DOMAIN installed
  PROVE  RemoveAt(installed, i) \in Seq(Products)
<1>1. i \in 1..Len(installed) /\ \A k \in 1..Len(installed) : installed[k] \in Products
  OBVIOUS
<1>2. SubSeq(installed, 1, i - 1) \in Seq(Products)
  BY <1>1, SubSeqProperties
<1>3. SubSeq(installed, i + 1, Len(installed)) \in Seq(Products)
  BY <1>1, SubSeqProperties
<1> QED
  BY <1>2, <1>3, ConcatProperties DEF RemoveAt

LEMMA AskingKept ==
  ASSUME InstallerInv, [MaintenanceNext]_maintenanceVars
  PROVE  Asking'
<1>1. ASSUME ~UseInstallers PROVE Asking'
  BY <1>1, NotInstallers DEF InstallerInv, Asking, Told, installerVars
<1>2. ASSUME UseInstallers PROVE Asking'
  <2> USE DEF InstallerInv, Asking
  <2> InstallerNext
    BY <1>2 DEF UseInstallers
  <2>1. CASE InstallChange
    <3>1. UNCHANGED <<reviewing, index, referenced, unanswered>>
      BY <2>1 DEF InstallChange
    <3>2. ASSUME NEW p \in Products, installed' = Append(installed, p), UNCHANGED <<throughout, shifted>>
          PROVE  Asking'
      <4>1. /\ installed' \in Seq(Products)
            /\ Len(installed') = Len(installed) + 1
            /\ DOMAIN installed' = 1..Len(installed) + 1 /\ DOMAIN installed = 1..Len(installed)
            /\ Len(installed) \in Nat
            /\ \A i \in DOMAIN installed : i \in DOMAIN installed' /\ installed'[i] = installed[i]
        BY <3>2, OneInstalled, Indexed
      <4>2. ASSUME reviewing = "enumerating", ~shifted, NEW i \in DOMAIN installed', i < index
            PROVE  Told(installed'[i])
        <5>1. index <= Len(installed) + 1
          BY <4>2
        <5>2. i \in DOMAIN installed
          BY <4>1, <4>2, <5>1
        <5> QED
          BY <4>1, <4>2, <5>2
      <4>3. /\ index <= Len(installed) + 1 => index <= Len(installed') + 1
            /\ throughout \subseteq {installed[i] : i \in DOMAIN installed}
                 => throughout \subseteq {installed'[i] : i \in DOMAIN installed'}
        BY <4>1
      <4> QED
        BY <3>1, <3>2, <4>1, <4>2, <4>3 DEF Told, Claims
    <3>3. ASSUME NEW i \in DOMAIN installed, installed' = RemoveAt(installed, i),
                 throughout' = throughout \ {installed[i]},
                 shifted' = (shifted \/ reviewing = "enumerating")
          PROVE  Asking'
      BY <3>1, <3>3, OneRemoved
    <3> QED
      BY <2>1, <3>2, <3>3 DEF InstallChange
  <2>2. CASE ReviewInstallerCache
    <3>1. throughout' = Range(installed) /\ installed' = installed /\ index' = index
      BY <2>2 DEF ReviewInstallerCache
    <3>2. index = 1 /\ index' = 1
      BY <2>2 DEF ReviewInstallerCache
    <3>3. Range(installed) = {installed[i] : i \in DOMAIN installed}
      BY DEF Range
    <3>4. DOMAIN installed = 1..Len(installed) /\ Len(installed) \in Nat
      BY Indexed
    <3>5. reviewing' # "idle"
      BY <2>2 DEF ReviewInstallerCache
    <3> QED
      BY <3>1, <3>2, <3>3, <3>4, <3>5
  <2>3. CASE NextProduct
    <3>1. /\ UNCHANGED <<installed, reviewing, throughout, shifted>>
          /\ reviewing = "enumerating" /\ index <= Len(installed) /\ index' = index + 1
          /\ referenced \subseteq referenced' /\ unanswered \subseteq unanswered'
          /\ Claims(installed[index]) \subseteq referenced' \cup unanswered'
      BY <2>3 DEF NextProduct
    <3>2. DOMAIN installed = 1..Len(installed) /\ Len(installed) \in Nat
      BY Indexed
    <3>3. ASSUME NEW i \in DOMAIN installed, i < index + 1, ~shifted
          PROVE  Claims(installed[i]) \subseteq referenced' \cup unanswered'
      <4>1. CASE i = index
        BY <3>1, <4>1
      <4>2. CASE i < index
        BY <3>1, <3>3, <4>2 DEF Told
      <4> QED
        BY <3>2, <3>3, <4>1, <4>2
    <3> QED
      BY <3>1, <3>2, <3>3 DEF Told, Claims
  <2>4. CASE EnumerationBroken \/ ProductsEnd \/ ListPackage \/ ShowReview
    <3>1. UNCHANGED <<installed, index>> /\ reviewing' \notin {"idle", "enumerating"}
      BY <2>4 DEF EnumerationBroken, ProductsEnd, ListPackage, ShowReview
    <3> QED
      BY <3>1
  <2> QED
    BY <2>1, <2>2, <2>3, <2>4 DEF InstallerNext, ReviewStep
<1> QED
  BY <1>1, <1>2

LEMMA AnsweredKept ==
  ASSUME InstallerInv, [MaintenanceNext]_maintenanceVars
  PROVE  Answered'
<1>1. ASSUME ~UseInstallers PROVE Answered'
  BY <1>1, NotInstallers DEF InstallerInv, Answered, Told, installerVars
<1>2. ASSUME UseInstallers PROVE Answered'
  <2> USE DEF InstallerInv, Answered
  <2> InstallerNext
    BY <1>2 DEF UseInstallers
  <2>1. CASE InstallChange
    <3>1. /\ UNCHANGED <<reviewing, referenced, unanswered, readable, orphans>>
          /\ throughout' \subseteq throughout
      BY <2>1 DEF InstallChange
    <3>2. shifted => shifted'
      BY <2>1, Zenon DEF InstallChange
    <3> QED
      BY <3>1, <3>2 DEF Told, Claims
  <2>2. CASE ReviewInstallerCache \/ NextProduct \/ EnumerationBroken
    <3>1. ~readable /\ ~readable' /\ orphans' = orphans /\ reviewing' # "listing"
      BY <2>2 DEF ReviewInstallerCache, NextProduct, EnumerationBroken
    <3> QED
      BY <3>1
  <2>3. CASE ProductsEnd
    <3>1. /\ reviewing = "enumerating" /\ index > Len(installed)
          /\ reviewing' = "listing" /\ readable'
          /\ UNCHANGED <<referenced, orphans, throughout, unanswered, shifted>>
      BY <2>3 DEF ProductsEnd
    <3>2. DOMAIN installed = 1..Len(installed) /\ Len(installed) \in Nat /\ index \in Nat
      BY Indexed DEF Asking
    <3>3. ~shifted => \A p \in throughout : Told(p)
      <4> SUFFICES ASSUME ~shifted, NEW p \in throughout PROVE Told(p)
        OBVIOUS
      <4>1. throughout \subseteq {installed[i] : i \in DOMAIN installed}
        BY <3>1 DEF Asking
      <4>2. \A i \in DOMAIN installed : i < index => Told(installed[i])
        BY <3>1 DEF Asking
      <4>3. PICK i \in DOMAIN installed : p = installed[i]
        BY <4>1
      <4>4. i < index
        BY <3>1, <3>2, <4>3
      <4> QED
        BY <4>2, <4>3, <4>4
    <3>4. ~shifted => \A p \in throughout : Told(p)'
      BY <3>1, <3>3 DEF Told, Claims
    <3> QED
      BY <3>1, <3>4
  <2>4. CASE ListPackage
    <3>1. /\ UNCHANGED <<reviewing, referenced, readable, throughout, unanswered, shifted>>
          /\ reviewing = "listing"
          /\ orphans' = orphans \/ \E f \in unlisted \ referenced : orphans' = orphans \cup {f}
      BY <2>4 DEF ListPackage
    <3> QED
      BY <3>1 DEF Told, Claims
  <2>5. CASE ShowReview
    <3>1. /\ UNCHANGED <<referenced, readable, orphans, throughout, unanswered, shifted>>
          /\ reviewing' = "reviewed"
      BY <2>5 DEF ShowReview
    <3> QED
      BY <3>1 DEF Told, Claims
  <2> QED
    BY <2>1, <2>2, <2>3, <2>4, <2>5 DEF InstallerNext, ReviewStep
<1> QED
  BY <1>1, <1>2

LEMMA InstallerInvHolds == MaintenanceSpec => []InstallerInv
<1>1. MaintenanceInit => InstallerInv
  <2> SUFFICES ASSUME MaintenanceInit PROVE InstallerInv
    OBVIOUS
  <2>1. PICK s \in SUBSET Products : installed = SetToSeq(s)
    BY DEF MaintenanceInit, InstallerInit
  <2>2. IsFiniteSet(s)
    BY InstallerAssumption, FS_Subset
  <2>3. SetToSeq(s) \in Seq(s)
    BY <2>2, SetIsListed
  <2>4. installed \in Seq(Products)
    BY <2>1, <2>3
  <2>5. index = 1 /\ reviewing = "idle" /\ throughout = {} /\ ~readable /\ orphans = {}
    BY DEF MaintenanceInit, InstallerInit
  <2> QED
    BY <2>4, <2>5 DEF InstallerInv, Asking, Answered
<1>2. InstallerInv /\ [MaintenanceNext]_maintenanceVars => InstallerInv'
  BY AskingKept, AnsweredKept DEF InstallerInv
<1> QED
  BY <1>1, <1>2, PTL DEF MaintenanceSpec

\* A package shown without an owner is no product's that was installed throughout, as
\* far as Windows answered, whatever was installed meanwhile; only a removal during
\* the questions undoes it.
THEOREM OrphansHaveNoOwner == MaintenanceSpec => []OrphansUnowned
<1>1. InstallerInv => OrphansUnowned
  BY DEF InstallerInv, Answered, Told, OrphansUnowned
<1> QED
  BY <1>1, InstallerInvHolds, PTL

-----------------------------------------------------------------------------

\* The bytes of a set of files.
\* One more file takes the mark.
LEMMA OneMoreMarked ==
  ASSUME NEW S \in SUBSET CloudFiles, NEW f \in CloudFiles \ S
  PROVE  /\ SumOf(Bytes, S \cup {f}) = SumOf(Bytes, S) + Bytes[f]
         /\ Cardinality(S \cup {f}) = Cardinality(S) + 1
<1>1. IsFiniteSet(S)
  BY CloudAssumption, FS_Subset
<1>2. \A y \in S \cup {f} : Bytes[y] \in Int
  BY CloudAssumption
<1>3. SumOf(Bytes, S \cup {f}) = SumOf(Bytes, S) + Bytes[f]
  BY <1>1, <1>2, SumOneMore
<1>4. Cardinality(S \cup {f}) = Cardinality(S) + 1
  BY <1>1, FS_AddElement
<1> QED BY <1>3, <1>4

\* The listing goes on to another folder.
LEMMA OneFolderLess ==
  ASSUME NEW s, NEW T, s \in Seq(T), IsInjective(s), s # <<>>
  PROVE  /\ Tail(s) \in Seq(T) /\ IsInjective(Tail(s))
         /\ Head(s) \notin Range(Tail(s)) /\ Range(Tail(s)) \subseteq Range(s)
<1>1. Len(s) \in Nat \ {0} /\ Tail(s) \in Seq(T) /\ Len(Tail(s)) = Len(s) - 1 /\ Head(s) = s[1]
  BY EmptySeq
<1>2. \A i \in 1..Len(Tail(s)) : Tail(s)[i] = s[i + 1]
  OBVIOUS
<1>3. DOMAIN s = 1..Len(s) /\ DOMAIN Tail(s) = 1..(Len(s) - 1)
  BY <1>1
<1>4. \A i, j \in 1..Len(s) : s[i] = s[j] => i = j
  BY <1>3 DEF IsInjective
<1>5. \A i, j \in DOMAIN Tail(s) : Tail(s)[i] = Tail(s)[j] => i = j
  BY <1>1, <1>2, <1>3, <1>4
<1>6. \A i \in DOMAIN Tail(s) : Tail(s)[i] # s[1] /\ Tail(s)[i] \in {s[j] : j \in 1..Len(s)}
  BY <1>1, <1>2, <1>3, <1>4
<1> QED BY <1>1, <1>3, <1>5, <1>6 DEF IsInjective, Range

\* What the release has yet to come to: the files of the folders still to walk, the names of
\* the open one.
Ahead == {f \in CloudFiles : FolderOf[f] \in Range(pending)} \cup names

\* What the history says was released is what took the mark.
Recorded ==
  releasing = "released" /\ marked # {} =>
    \/ unlogged > 0
    \/ /\ log # <<>>
       /\ log[Len(log)].items = Cardinality(marked)
       /\ log[Len(log)].bytes = SumOf(Bytes, marked)

Tallies == [files : Nat, bytes : Nat, pinned : Nat, failed : Nat]

\* No file is met twice, so what was counted is what was marked; the record is written last.
ReleaseInv ==
  /\ CloudInv
  /\ tool # "cloud" => releasing = "idle"
  /\ tally \in Tallies /\ marked \subseteq CloudFiles
  /\ pending \in Seq(Range(Tree)) /\ IsInjective(pending)
  /\ \A f \in names : FolderOf[f] \notin Range(pending)
  /\ entry # NoEntry => FolderOf[entry.file] \notin Range(pending) /\ entry.file \notin names
  /\ releasing \in {"idle", "planning", "asking"} => marked = {}
  /\ releasing = "marking" =>
       /\ tally.files = Cardinality(marked) /\ tally.bytes = SumOf(Bytes, marked)
       /\ marked \cap Ahead = {} /\ (entry # NoEntry => entry.file \notin marked)
  /\ releasing \in {"remeasuring", "recording"} =>
       shown.files = Cardinality(marked) /\ shown.bytes = SumOf(Bytes, marked)
  /\ tool = "cloud" /\ releasing # "released" => log = <<>> /\ unlogged = 0
  /\ Recorded

LEMMA ReleaseInvInit == MaintenanceInit => ReleaseInv
<1> SUFFICES ASSUME MaintenanceInit PROVE ReleaseInv
  OBVIOUS
<1>1. attributes \in [CloudFiles -> SUBSET {"online", "pinned", "unpinned"}]
  BY DEF MaintenanceInit, CloudInit
<1>2. CloudInv
  BY <1>1 DEF MaintenanceInit, CloudInit, CloudInv, PinsStay
<1>3. pending \in Seq(Range(Tree)) /\ IsInjective(pending) /\ names = {} /\ entry = NoEntry
  BY DEF MaintenanceInit, CloudInit, IsInjective
<1>5. tally \in Tallies
  BY DEF MaintenanceInit, CloudInit, Tallies, Nothing
<1>4. releasing = "idle" /\ marked = {} /\ log = <<>> /\ unlogged = 0
  BY DEF MaintenanceInit, CloudInit, LogInit
<1> QED
  BY <1>2, <1>3, <1>4, <1>5 DEF ReleaseInv, Recorded, CloudInv

LEMMA FileCounted ==
  ASSUME NEW t \in Tallies, NEW b \in Nat, NEW u,
         u = [t EXCEPT !.files = @ + 1, !.bytes = @ + b]
  PROVE  u \in Tallies /\ u.files = t.files + 1 /\ u.bytes = t.bytes + b
<1>1. t = [files |-> t.files, bytes |-> t.bytes, pinned |-> t.pinned, failed |-> t.failed]
      /\ t.files \in Nat /\ t.bytes \in Nat /\ t.pinned \in Nat /\ t.failed \in Nat
  BY DEF Tallies
<1>2. u = [files |-> t.files + 1, bytes |-> t.bytes + b, pinned |-> t.pinned, failed |-> t.failed]
  BY <1>1
<1> QED BY <1>1, <1>2 DEF Tallies

LEMMA OtherCounted ==
  ASSUME NEW t \in Tallies, NEW u,
         u = [t EXCEPT !.pinned = @ + 1] \/ u = [t EXCEPT !.failed = @ + 1]
  PROVE  u \in Tallies /\ u.files = t.files /\ u.bytes = t.bytes
<1>1. CASE u = [t EXCEPT !.pinned = @ + 1]
  BY <1>1 DEF Tallies
<1>2. CASE u = [t EXCEPT !.failed = @ + 1]
  BY <1>2 DEF Tallies
<1> QED BY <1>1, <1>2

LEMMA NothingCounted == Nothing \in Tallies /\ Nothing.files = 0 /\ Nothing.bytes = 0
BY DEF Nothing, Tallies

\* A walk starts at all the folders, each once.
LEMMA WalkFromTheTop ==
  ASSUME pending' = Tree, names' = {}, entry' = NoEntry, tally' = Nothing
  PROVE  /\ (pending \in Seq(Range(Tree)) /\ IsInjective(pending))'
         /\ (\A f \in names : FolderOf[f] \notin Range(pending))'
         /\ (entry # NoEntry => FolderOf[entry.file] \notin Range(pending) /\ entry.file \notin names)'
         /\ tally' \in Tallies
BY CloudAssumption, NothingCounted

LEMMA ReleaseInvKept ==
  ASSUME ReleaseInv, [MaintenanceNext]_maintenanceVars
  PROVE  ReleaseInv'
<1>0. CloudInv'
  BY CloudInvKept DEF ReleaseInv
<1>1. ASSUME ~UseCloud PROVE ReleaseInv'
  <2>1. UNCHANGED <<cloudVars, tool>>
    BY <1>1
    DEF MaintenanceNext, UseStartup, UseCommand, UseInstallers, UseCleaning, maintenanceVars
  <2>2. CASE tool = "cloud"
    <3>1. UNCHANGED <<log, unlogged>>
      BY <1>1, <2>2
      DEF MaintenanceNext, UseStartup, UseCommand, UseInstallers, UseCleaning,
          maintenanceVars, logVars
    <3> QED
      BY <1>0, <2>1, <3>1
      DEF ReleaseInv, Recorded, CloudInv, cloudVars, Ahead, NoEntry, PinsStay
  <2>3. CASE tool # "cloud"
    <3>1. releasing' = "idle"
      BY <2>1, <2>3 DEF ReleaseInv, cloudVars
    <3> QED
      BY <1>0, <2>1, <2>3, <3>1
      DEF ReleaseInv, Recorded, CloudInv, cloudVars, Ahead, NoEntry, PinsStay
  <2> QED BY <2>2, <2>3
<1>2. ASSUME UseCloud PROVE ReleaseInv'
  <2> USE DEF ReleaseInv
  <2>0. tool = "cloud" /\ tool' = tool /\ CloudNext
    BY <1>2 DEF UseCloud
  <2>p. PinsStay'
    BY <1>0 DEF CloudInv
  <2>1. CASE CloudChange
    <3>1. UNCHANGED <<releasing, pending, names, entry, tally, shown, marked, log, unlogged>>
      BY <2>1 DEF CloudChange, logVars
    <3> QED
      BY <1>0, <2>0, <2>p, <3>1 DEF Recorded, Ahead, NoEntry
  <2>2. CASE ReleaseCloudSpace
    <3>1. /\ pending' = Tree /\ names' = {} /\ entry' = NoEntry /\ tally' = Nothing
          /\ releasing = "idle" /\ releasing' = "planning" /\ UNCHANGED <<marked, log, unlogged>>
      BY <2>2 DEF ReleaseCloudSpace, StartWalk, logVars
    <3> QED
      BY <1>0, <2>0, <2>p, <3>1, WalkFromTheTop DEF Recorded
  <2>3. CASE WalkFolder
    <3>1. /\ pending # <<>> /\ pending' = Tail(pending) /\ names = {} /\ entry = NoEntry
          /\ Walking /\ names' \subseteq {f \in CloudFiles : FolderOf[f] = Head(pending)}
          /\ UNCHANGED <<releasing, entry, tally, shown, marked, log, unlogged>>
      BY <2>3 DEF WalkFolder, logVars
    <3>2. /\ pending' \in Seq(Range(Tree)) /\ IsInjective(pending')
          /\ Head(pending) \notin Range(pending') /\ Range(pending') \subseteq Range(pending)
          /\ Head(pending) \in Range(pending)
      <4>1. Len(pending) \in Nat \ {0} /\ Head(pending) = pending[1] /\ DOMAIN pending = 1..Len(pending)
        BY <3>1, EmptySeq
      <4>2. Head(pending) \in Range(pending)
        BY <4>1 DEF Range
      <4> QED BY <3>1, <4>2, OneFolderLess
    <3>3. \A f \in names' : FolderOf[f] \notin Range(pending')
      BY <3>1, <3>2
    <3>4. Ahead' \subseteq Ahead
      BY <3>1, <3>2 DEF Ahead
    <3> QED
      BY <1>0, <2>0, <2>p, <3>1, <3>2, <3>3, <3>4 DEF Recorded, Walking
  <2>4. CASE NextEntry
    <3>1. PICK f \in names : entry' = [file |-> f, attributes |-> attributes[f]] /\ names' = names \ {f}
      BY <2>4 DEF NextEntry
    <3>2. UNCHANGED <<releasing, pending, tally, shown, marked, log, unlogged>>
      BY <2>4 DEF NextEntry, logVars
    <3>3. entry'.file = f /\ f \in Ahead /\ Ahead' \subseteq Ahead
      BY <3>1, <3>2 DEF Ahead
    <3>4. \A g \in names' : FolderOf[g] \notin Range(pending')
      BY <3>1, <3>2
    <3>5. FolderOf[entry'.file] \notin Range(pending') /\ entry'.file \notin names'
      BY <3>1, <3>2, <3>3
    <3>6. pending' \in Seq(Range(Tree)) /\ IsInjective(pending')
      BY <3>2
    <3> QED
      BY <1>0, <2>0, <2>p, <3>2, <3>3, <3>4, <3>5, <3>6 DEF Recorded
  <2>5. CASE PlanEntry
    <3>1. /\ releasing \in {"planning", "remeasuring"} /\ entry # NoEntry /\ entry' = NoEntry
          /\ UNCHANGED <<releasing, pending, names, shown, marked, log, unlogged>>
      BY <2>5 DEF PlanEntry, logVars
    <3>2. tally' \in Tallies
      <4>1. CASE IsOnlineOnly(entry.attributes)
        BY <2>5, <4>1 DEF PlanEntry
      <4>2. CASE tally' = [tally EXCEPT !.pinned = @ + 1]
        BY <4>2, OtherCounted
      <4>3. CASE tally' = [tally EXCEPT !.files = @ + 1, !.bytes = @ + Bytes[entry.file]]
        <5>1. Bytes[entry.file] \in Nat
          BY <3>1, CloudAssumption DEF CloudInv
        <5> QED BY <4>3, <5>1, FileCounted
      <4> QED BY <2>5, <4>1, <4>2, <4>3 DEF PlanEntry
    <3> QED
      BY <1>0, <2>0, <2>p, <3>1, <3>2 DEF Recorded
  <2>6. CASE MarkEntry
    <3>1. /\ releasing = "marking" /\ entry # NoEntry /\ entry' = NoEntry
          /\ UNCHANGED <<releasing, pending, names, shown, log, unlogged>>
      BY <2>6 DEF MarkEntry, logVars
    <3>2. entry.file \in CloudFiles \ marked /\ entry.file \notin Ahead
      BY <3>1 DEF CloudInv, Ahead
    <3>3. /\ tally' \in Tallies /\ marked' \subseteq CloudFiles
          /\ tally'.files = Cardinality(marked') /\ tally'.bytes = SumOf(Bytes, marked')
          /\ marked' \subseteq marked \cup {entry.file}
      <4>1. CASE UNCHANGED <<tally, marked>>
        BY <3>1, <4>1
      <4>2. CASE tally' = [tally EXCEPT !.failed = @ + 1] /\ UNCHANGED marked
        BY <3>1, <4>2, OtherCounted
      <4>3. CASE /\ tally' = [tally EXCEPT !.files = @ + 1, !.bytes = @ + Bytes[entry.file]]
                 /\ marked' = marked \cup {entry.file}
        <5>1. Bytes[entry.file] \in Nat
          BY <3>2, CloudAssumption
        <5>2. tally' \in Tallies /\ tally'.files = tally.files + 1 /\ tally'.bytes = tally.bytes + Bytes[entry.file]
          BY <4>3, <5>1, FileCounted
        <5>3. /\ SumOf(Bytes, marked \cup {entry.file}) = SumOf(Bytes, marked) + Bytes[entry.file]
              /\ Cardinality(marked \cup {entry.file}) = Cardinality(marked) + 1
          BY <3>2, OneMoreMarked
        <5> QED BY <3>1, <3>2, <4>3, <5>2, <5>3
      <4> QED BY <2>6, <4>1, <4>2, <4>3 DEF MarkEntry
    <3>4. Ahead' = Ahead
      BY <3>1 DEF Ahead
    <3>5. marked' \cap Ahead' = {}
      BY <3>1, <3>2, <3>3, <3>4
    <3> QED
      BY <1>0, <2>0, <2>p, <3>1, <3>3, <3>5 DEF Recorded
  <2>7. CASE AskRelease
    <3>1. /\ releasing = "planning" /\ releasing' = "asking"
          /\ UNCHANGED <<pending, names, entry, tally, marked, log, unlogged>>
      BY <2>7 DEF AskRelease, logVars
    <3> QED
      BY <1>0, <2>0, <2>p, <3>1 DEF Recorded
  <2>8. CASE AnswerRelease
    <3>1. releasing = "asking" /\ UNCHANGED <<shown, marked, log, unlogged>> /\ marked = {}
      BY <2>8 DEF AnswerRelease, logVars
    <3>2. CASE releasing' = "released" /\ UNCHANGED <<pending, names, entry, tally>>
      BY <1>0, <2>0, <2>p, <3>1, <3>2 DEF Recorded
    <3>3. CASE StartWalk("marking")
      <4>1. /\ pending' = Tree /\ names' = {} /\ entry' = NoEntry /\ tally' = Nothing
            /\ releasing' = "marking"
        BY <3>3 DEF StartWalk
      <4>2. tally'.files = Cardinality(marked') /\ tally'.bytes = SumOf(Bytes, marked')
        BY <3>1, <4>1, NothingCounted, SumEmpty, FS_EmptySet
      <4>3. marked' \cap Ahead' = {}
        BY <3>1
      <4>4. /\ pending' \in Seq(Range(Tree)) /\ IsInjective(pending')
            /\ \A f \in names' : FolderOf[f] \notin Range(pending')
            /\ tally' \in Tallies
        BY <4>1, WalkFromTheTop
      <4> QED
        BY <1>0, <2>0, <2>p, <3>1, <4>1, <4>2, <4>3, <4>4 DEF Recorded
    <3> QED BY <2>8, <3>2, <3>3 DEF AnswerRelease
  <2>9. CASE ReportRelease
    <3>1. /\ releasing = "marking" /\ releasing' = "remeasuring" /\ shown' = tally
          /\ pending' = Tree /\ names' = {} /\ entry' = NoEntry /\ tally' = Nothing
          /\ UNCHANGED <<marked, log, unlogged>>
      BY <2>9 DEF ReportRelease, StartWalk, logVars
    <3>2. shown'.files = Cardinality(marked') /\ shown'.bytes = SumOf(Bytes, marked')
      BY <3>1
    <3>3. /\ pending' \in Seq(Range(Tree)) /\ IsInjective(pending')
          /\ \A f \in names' : FolderOf[f] \notin Range(pending')
          /\ tally' \in Tallies
      BY <3>1, WalkFromTheTop
    <3> QED
      BY <1>0, <2>0, <2>p, <3>1, <3>2, <3>3 DEF Recorded
  <2>10. CASE SetButton
    <3>1. /\ releasing = "remeasuring" /\ releasing' = "recording"
          /\ UNCHANGED <<pending, names, entry, tally, shown, marked, log, unlogged>>
      BY <2>10 DEF SetButton, logVars
    <3> QED
      BY <1>0, <2>0, <2>p, <3>1 DEF Recorded
  <2>11. CASE RecordRelease
    <3>1. /\ releasing = "recording" /\ releasing' = "released" /\ log = <<>> /\ unlogged = 0
          /\ Record("command", shown.files, shown.bytes, 0)
          /\ UNCHANGED <<pending, names, entry, tally, shown, marked>>
      BY <2>0, <2>11 DEF RecordRelease
    <3>2. unlogged' = 1 \/ (log' # <<>> /\ log'[Len(log')].items = shown.files /\ log'[Len(log')].bytes = shown.bytes)
      <4>0. PICK row :
              /\ \E time \in Times :
                   row = [at |-> time, kind |-> "command", items |-> shown.files, bytes |-> shown.bytes, skipped |-> 0]
              /\ unlogged' = unlogged + 1 \/ log' = Append(log, row)
        BY <3>1 DEF Record, Times
      <4>1. row.items = shown.files /\ row.bytes = shown.bytes
        BY <4>0
      <4>2. unlogged' = 1 \/ log' = Append(<<>>, row)
        BY <3>1, <4>0
      <4>3. Append(<<>>, row) # <<>> /\ Append(<<>>, row)[Len(Append(<<>>, row))] = row
        OBVIOUS
      <4> QED BY <4>1, <4>2, <4>3
    <3>3. Recorded'
      <4>1. marked' = marked /\ shown.files = Cardinality(marked) /\ shown.bytes = SumOf(Bytes, marked)
        BY <3>1
      <4> QED BY <3>2, <4>1 DEF Recorded
    <3> QED
      BY <1>0, <2>0, <3>1, <3>3
  <2> QED
    BY <2>0, <2>1, <2>2, <2>3, <2>4, <2>5, <2>6, <2>7, <2>8, <2>9, <2>10, <2>11
    DEF CloudNext, ReleaseStep
<1> QED
  BY <1>1, <1>2

\* Whatever pins, opened files and faults come between: what the history says was released is
\* the files that took the mark and their bytes, each once, for any folders and sizes.
THEOREM ReleaseIsRecorded == MaintenanceSpec => []ReleaseAsAgreed
<1>1. ReleaseInv => ReleaseAsAgreed
  <2>1. SumOf(Bytes, marked) = MapThenSumSet(LAMBDA f : Bytes[f], marked)
    BY DEF SumOf
  <2>2. ReleaseInv => PinsStay /\ Recorded
    BY DEF ReleaseInv, CloudInv
  <2> QED BY <2>1, <2>2 DEF ReleaseAsAgreed, Recorded
<1>2. ReleaseInv /\ [MaintenanceNext]_maintenanceVars => ReleaseInv'
  BY ReleaseInvKept
<1> QED
  BY <1>1, <1>2, ReleaseInvInit, PTL DEF MaintenanceSpec
=============================================================================
