------------------------ MODULE QuarantineStoreProofs ------------------------
(***************************************************************************)
(* Proofs about QuarantineStore, for every set of files, every set of      *)
(* failing calls, every number of failures and every bound; and, as long   *)
(* as the failures are Handled, that it implements QuarantineContract.     *)
(***************************************************************************)
EXTENDS QuarantineRefinement, TLAPS

-----------------------------------------------------------------------------
(* Type correctness *)

LEMMA InitTypeOK == Init => TypeOK
  BY ConstantsAssumption DEF Init, TypeOK, Content, NoOp, Operation

\* The first call of each operation.
LEMMA BeginTypeOK ==
  ASSUME TypeOK,
         \/ \E f \in Files : TakeBegin(f)
         \/ \E e \in manifest : RestoreBegin(e)
         \/ \E cutoff \in 0..clock : PurgeBegin(cutoff)
  PROVE  TypeOK'
  <1> USE ConstantsAssumption DEF TypeOK, environment, Start, NoOp, Operation, Entry
  <1>1. CASE \E f \in Files : TakeBegin(f)
    <2> PICK f \in Files : TakeBegin(f) BY <1>1
    <2>1. <<clock, seq>> \in Ids
      BY DEF TakeBegin, Ids
    <2>2. op' \in FileOp("take") /\ pc' \in TakeSteps
      BY <2>1 DEF TakeBegin, FileOp, TakeSteps
    <2>3. QED BY <2>2 DEF TakeBegin
  <1>2. CASE \E e \in manifest : RestoreBegin(e)
    <2> PICK e \in manifest : RestoreBegin(e) BY <1>2
    <2>1. op' \in FileOp("restore") /\ pc' \in RestoreSteps
      BY DEF RestoreBegin, FileOp, RestoreSteps
    <2>2. QED BY <2>1 DEF RestoreBegin
  <1>3. CASE \E cutoff \in 0..clock : PurgeBegin(cutoff)
    <2> PICK cutoff \in 0..clock : PurgeBegin(cutoff) BY <1>3
    <2>1. op' \in PurgeOp /\ pc' \in PurgeSteps
      BY DEF PurgeBegin, PurgeOp, PurgeSteps, Expired
    <2>2. QED BY <2>1 DEF PurgeBegin
  <1>4. QED BY <1>1, <1>2, <1>3

LEMMA TakeTypeOK ==
  ASSUME TypeOK,
         TakeMove \/ TakeCopy \/ TakeRemove \/ TakeUncopy \/ TakeRecord \/ TakeUndo
  PROVE  TypeOK'
  <1>1. op \in FileOp("take")
    BY DEF TypeOK, NoOp, Operation, FileOp, PurgeOp, TakeMove, TakeCopy, TakeRemove, TakeUncopy,
           TakeRecord, TakeUndo, RestoreSteps, PurgeSteps, WriteSteps
  <1>2. op.file \in Files /\ op.id \in Ids
    BY <1>1 DEF FileOp
  <1> USE <1>1, <1>2, ConstantsAssumption
      DEF TypeOK, environment, Works, Fails, Goto, Return, TakeSteps
  <1>3. CASE TakeMove BY <1>3 DEF TakeMove
  <1>4. CASE TakeCopy BY <1>4 DEF TakeCopy
  <1>5. CASE TakeRemove BY <1>5 DEF TakeRemove
  <1>6. CASE TakeUncopy BY <1>6 DEF TakeUncopy
  <1>7. CASE TakeRecord
    <2>1. op' \in FileOp("take")
      BY <1>7 DEF TakeRecord, FileOp, Entry
    <2>2. QED BY <1>7, <2>1 DEF TakeRecord, WriteSteps
  <1>8. CASE TakeUndo BY <1>8 DEF TakeUndo
  <1>9. QED BY <1>3, <1>4, <1>5, <1>6, <1>7, <1>8

LEMMA RestoreTypeOK ==
  ASSUME TypeOK, RestoreMove \/ RestoreCopy \/ RestoreRemove
  PROVE  TypeOK'
  <1>1. op \in FileOp("restore")
    BY DEF TypeOK, NoOp, Operation, FileOp, PurgeOp, RestoreMove, RestoreCopy, RestoreRemove,
           TakeSteps, PurgeSteps, WriteSteps
  <1>2. op.file \in Files /\ op.id \in Ids
    BY <1>1 DEF FileOp
  <1> USE <1>1, <1>2, ConstantsAssumption
      DEF TypeOK, environment, Works, Fails, Goto, Return, RestoreSteps, WriteSteps
  <1>3. CASE RestoreMove BY <1>3 DEF RestoreMove
  <1>4. CASE RestoreCopy BY <1>4 DEF RestoreCopy
  <1>5. CASE RestoreRemove BY <1>5 DEF RestoreRemove
  <1>6. QED BY <1>3, <1>4, <1>5

LEMMA PurgeTypeOK ==
  ASSUME TypeOK, NEW i \in Ids, PurgeRemove(i)
  PROVE  TypeOK'
  <1>1. op \in PurgeOp
    BY DEF TypeOK, NoOp, Operation, FileOp, PurgeRemove, TakeSteps, RestoreSteps, WriteSteps
  <1>2. op' \in PurgeOp
    BY <1>1 DEF PurgeRemove, PurgeOp
  <1>3. pc' \in PurgeSteps
    BY DEF PurgeRemove, PurgeSteps, WriteSteps
  <1>4. QED
    BY <1>2, <1>3, ConstantsAssumption DEF TypeOK, PurgeRemove, environment, Works, Fails

\* An operation writes the record: its kind decides where it goes next.
LEMMA WriteTypeOK ==
  ASSUME TypeOK, WriteTemporary \/ ReplaceRecord \/ RemoveRecord \/ ReplaceAgain
  PROVE  TypeOK'
  <1>0. pc \in WriteSteps
    BY DEF WriteTemporary, ReplaceRecord, RemoveRecord, ReplaceAgain, WriteSteps
  <1>1. op \in FileOp("take") \/ op \in FileOp("restore") \/ op \in PurgeOp
    BY <1>0 DEF TypeOK, WriteSteps
  <1>3. op.entries \subseteq Entry
    BY <1>1 DEF FileOp, PurgeOp
  <1>2. ASSUME Wrote(TRUE) \/ Wrote(FALSE)
        PROVE  \/ op' = NoOp /\ pc' \in {"idle", "down"}
               \/ op' \in FileOp("take") /\ pc' \in TakeSteps
    BY <1>1, <1>2 DEF Wrote, Goto, Return, FileOp, PurgeOp, TakeSteps
  <1>4. CASE WriteTemporary
    <2>1. CASE Fails("write_record") /\ Wrote(FALSE)
      BY <1>2, <1>4, <2>1, ConstantsAssumption
         DEF TypeOK, WriteTemporary, Fails, environment
    <2>2. CASE Works /\ Goto("replace_record")
      BY <1>0, <1>4, <2>2
         DEF TypeOK, WriteTemporary, Works, Goto, environment, TakeSteps, RestoreSteps,
             PurgeSteps, WriteSteps
    <2>3. CASE Fails("flush_record") /\ op' = [op EXCEPT !.entries = {}]
                 /\ pc' = "replace_record"
      <3>1. \/ op \in FileOp("take") /\ op' \in FileOp("take")
            \/ op \in FileOp("restore") /\ op' \in FileOp("restore")
            \/ op \in PurgeOp /\ op' \in PurgeOp
        BY <1>1, <2>3 DEF FileOp, PurgeOp
      <3>2. QED
        BY <1>4, <2>3, <3>1, ConstantsAssumption
           DEF TypeOK, WriteTemporary, Fails, environment, TakeSteps, RestoreSteps,
               PurgeSteps, WriteSteps
    <2>4. QED BY <1>4, <2>1, <2>2, <2>3 DEF WriteTemporary
  <1>5. CASE ReplaceRecord \/ ReplaceAgain
    <2>0. UNCHANGED <<disk, stored, environment>>
      BY <1>5 DEF ReplaceRecord, ReplaceAgain
    <2>1. CASE Works /\ manifest' = op.entries /\ Wrote(TRUE)
      <3>1. \/ op' = NoOp /\ pc' \in {"idle", "down"}
            \/ op' \in FileOp("take") /\ pc' \in TakeSteps
        BY <1>2, <2>1
      <3>2. QED BY <1>3, <2>0, <2>1, <3>1 DEF TypeOK, Works, environment
    <2>2. CASE Fails("replace_record") /\ Wrote(FALSE) /\ UNCHANGED manifest
      <3>1. \/ op' = NoOp /\ pc' \in {"idle", "down"}
            \/ op' \in FileOp("take") /\ pc' \in TakeSteps
        BY <1>2, <2>2
      <3>2. QED
        BY <2>0, <2>2, <3>1, ConstantsAssumption DEF TypeOK, Fails, environment
    <2>3. CASE Fails("replace_record") /\ Goto("remove_record") /\ UNCHANGED manifest
      BY <1>0, <2>0, <2>3, ConstantsAssumption
         DEF TypeOK, Fails, Goto, environment, TakeSteps, RestoreSteps, PurgeSteps,
             WriteSteps
    <2>4. QED BY <1>5, <2>1, <2>2, <2>3 DEF ReplaceRecord, ReplaceAgain
  <1>6. CASE RemoveRecord
    BY <1>0, <1>6, ConstantsAssumption
       DEF TypeOK, RemoveRecord, Works, Fails, Goto, environment, TakeSteps,
           RestoreSteps, PurgeSteps, WriteSteps
  <1>7. QED BY <1>4, <1>5, <1>6

LEMMA WorldTypeOK ==
  ASSUME TypeOK,
         \/ \E f \in Files : OwnerWrites(f) \/ OwnerDeletes(f)
         \/ Tick \/ Stop \/ Restart
  PROVE  TypeOK'
  <1> USE ConstantsAssumption DEF TypeOK, environment
  <1>1. CASE \E f \in Files : OwnerWrites(f)
    <2> PICK f \in Files : OwnerWrites(f) BY <1>1
    <2>1. version[f] + 1 \in 1..MaxVersion
      BY DEF OwnerWrites
    <2>2. <<f, version[f] + 1>> \in Content
      BY <2>1 DEF Content
    <2>3. QED BY <2>1, <2>2 DEF OwnerWrites
  <1>2. CASE \E f \in Files : OwnerDeletes(f)
    BY <1>2 DEF OwnerDeletes
  <1>3. CASE Tick BY <1>3 DEF Tick
  <1>4. CASE Stop BY <1>4 DEF Stop
  <1>5. CASE Restart BY <1>5 DEF Restart, Return
  <1>6. QED BY <1>1, <1>2, <1>3, <1>4, <1>5

LEMMA NextTypeOK == TypeOK /\ [Next]_vars => TypeOK'
  <1> SUFFICES ASSUME TypeOK, [Next]_vars PROVE TypeOK'
    OBVIOUS
  <1>1. CASE UNCHANGED vars
    BY <1>1 DEF TypeOK, vars, environment
  <1>2. CASE Next
    BY <1>2, BeginTypeOK, TakeTypeOK, RestoreTypeOK, PurgeTypeOK, WriteTypeOK, WorldTypeOK
       DEF Next
  <1>3. QED BY <1>1, <1>2

\* Every variable keeps its shape, and the running operation is always at a
\* call of its own kind.
THEOREM TypeCorrect == Spec => []TypeOK
  <1>1. QED BY InitTypeOK, NextTypeOK, PTL DEF Spec

-----------------------------------------------------------------------------
(* No content is lost, and a file goes back where it came from *)

LEMMA InitDurable == Init => DurabilityInv
  <1> SUFFICES ASSUME Init PROVE DurabilityInv
    OBVIOUS
  <1>1. TypeOK
    BY InitTypeOK
  <1>2. IdsUsed /\ FreshTarget /\ EntriesTrue /\ NothingAtPath /\ BothCopies /\ PurgeGivenUp
    BY DEF Init, IdsUsed, FreshTarget, EntriesTrue, NothingAtPath, BothCopies, PurgeGivenUp,
           NoOp, Operation
  <1>3. RestoredToOrigin /\ NoLoss
    BY DEF Init, RestoredToOrigin, NoLoss, AtHome
  <1>4. QED BY <1>1, <1>2, <1>3 DEF DurabilityInv

\* A content is safe when it was given up, is at a path or is in the store.
Safe(c) == c \in relinquished \/ AtHome(c) \/ Kept(c)

\* Only the owner writes new versions: every other step need only keep safe
\* what was safe.
LEMMA SafeSteps ==
  ASSUME NoLoss, version' = version, TypeOK,
         \A c \in Content : Safe(c) => Safe(c)'
  PROVE  NoLoss'
  <1> SUFFICES ASSUME NEW f \in Files, NEW v \in 1..version[f],
                      (<<f, v>> \notin relinquished)'
               PROVE  (AtHome(<<f, v>>) \/ Kept(<<f, v>>))'
    BY DEF NoLoss
  <1>1. <<f, v>> \in Content
    BY ConstantsAssumption DEF TypeOK, Content
  <1>2. Safe(<<f, v>>)
    BY DEF NoLoss, Safe
  <1>3. Safe(<<f, v>>)'
    BY <1>1, <1>2
  <1>4. QED BY <1>3 DEF Safe

\* A step that leaves the files and the record alone keeps most of the invariant.
LEMMA QuietStep ==
  ASSUME DurabilityInv, UNCHANGED <<disk, stored, manifest, environment>>,
         op' = op \/ op' = NoOp
  PROVE  IdsUsed' /\ EntriesTrue' /\ RestoredToOrigin' /\ NoLoss'
  <1> USE DEF DurabilityInv
  <1>1. \A c \in Content : Safe(c) => Safe(c)'
    BY DEF Safe, AtHome, Kept, environment
  <1>2. NoLoss'
    BY <1>1, SafeSteps DEF environment
  <1>3. RestoredToOrigin'
    BY DEF RestoredToOrigin
  <1>4. CASE op' = op
    BY <1>2, <1>3, <1>4 DEF IdsUsed, Used, EntriesTrue, environment
  <1>5. CASE op' = NoOp
    BY <1>2, <1>3, <1>5 DEF IdsUsed, Used, EntriesTrue, environment, NoOp, Operation
  <1>6. QED BY <1>4, <1>5

\* What is known of the running operation when a call of take() is next.
LEMMA TakeShape ==
  ASSUME TypeOK,
         TakeMove \/ TakeCopy \/ TakeRemove \/ TakeUncopy \/ TakeRecord \/ TakeUndo
  PROVE  /\ op.kind = "take" /\ op.file \in Files /\ op.id \in Ids
         /\ op.entries \subseteq Entry
  BY DEF TypeOK, NoOp, Operation, FileOp, PurgeOp, TakeMove, TakeCopy, TakeRemove,
         TakeUncopy, TakeRecord, TakeUndo, RestoreSteps, PurgeSteps, WriteSteps

LEMMA TakeMoveDurable ==
  ASSUME DurabilityInv, TakeMove, TypeOK'
  PROVE  DurabilityInv'
  <1> USE DEF DurabilityInv
  <1>1. /\ op.kind = "take" /\ op.file \in Files /\ op.id \in Ids
        /\ op.entries \subseteq Entry
    BY TakeShape
  <1>2. CASE pc' = "take_record"
    <2>1. /\ disk[op.file] # None /\ stored[op.id] = None
          /\ stored' = [stored EXCEPT ![op.id] = disk[op.file]]
          /\ disk' = [disk EXCEPT ![op.file] = None]
          /\ UNCHANGED <<manifest, op, environment>>
      BY <1>2 DEF TakeMove, Goto, FreshTarget
    <2>2. IdsUsed'
      BY <1>1, <2>1 DEF IdsUsed, Used, environment, TypeOK
    <2>3. EntriesTrue'
      BY <1>1, <1>2, <2>1 DEF EntriesTrue, FreshTarget, RestoredToOrigin, TakeMove, TypeOK,
                              Entry
    <2>4. RestoredToOrigin'
      BY <1>1, <2>1, ConstantsAssumption DEF RestoredToOrigin, TypeOK
    <2>5. \A c \in Content : Safe(c) => Safe(c)'
      BY <1>1, <2>1, ConstantsAssumption DEF Safe, AtHome, Kept, TypeOK, environment
    <2>6. NoLoss'
      BY <2>1, <2>5, SafeSteps DEF environment
    <2>7. FreshTarget' /\ NothingAtPath' /\ BothCopies' /\ PurgeGivenUp'
      BY <1>1, <1>2, <2>1 DEF FreshTarget, NothingAtPath, BothCopies, PurgeGivenUp, WriteSteps,
                              TypeOK
    <2>8. QED BY <2>2, <2>3, <2>4, <2>6, <2>7
  <1>3. CASE pc' = "take_copy"
    <2>1. UNCHANGED <<disk, stored, manifest, op, environment>> /\ pc = "take_move"
      BY <1>3 DEF TakeMove, Goto
    <2>2. FreshTarget' /\ NothingAtPath' /\ BothCopies' /\ PurgeGivenUp'
      BY <1>1, <1>3, <2>1 DEF FreshTarget, NothingAtPath, BothCopies, PurgeGivenUp, WriteSteps
    <2>3. QED BY <2>1, <2>2, QuietStep
  <1>4. QED BY <1>2, <1>3 DEF TakeMove, Goto
LEMMA TakeCopyDurable ==
  ASSUME DurabilityInv, TakeCopy, TypeOK'
  PROVE  DurabilityInv'
  <1> USE DEF DurabilityInv
  <1>1. /\ op.kind = "take" /\ op.file \in Files /\ op.id \in Ids
        /\ op.entries \subseteq Entry
    BY TakeShape
  <1>2. CASE pc' = "take_remove"
    <2>1. /\ disk[op.file] # None /\ stored[op.id] = None
          /\ stored' = [stored EXCEPT ![op.id] = disk[op.file]]
          /\ UNCHANGED <<disk, manifest, op, environment>>
      BY <1>2 DEF TakeCopy, Goto, Return, FreshTarget
    <2>2. IdsUsed'
      BY <1>1, <2>1 DEF IdsUsed, Used, environment, TypeOK
    <2>3. EntriesTrue'
      BY <1>1, <1>2, <2>1 DEF EntriesTrue, FreshTarget, RestoredToOrigin, TakeCopy, TypeOK,
                              Entry
    <2>4. RestoredToOrigin'
      BY <2>1 DEF RestoredToOrigin
    <2>5. \A c \in Content : Safe(c) => Safe(c)'
      BY <1>1, <2>1, ConstantsAssumption DEF Safe, AtHome, Kept, TypeOK, environment
    <2>6. NoLoss'
      BY <2>1, <2>5, SafeSteps DEF environment
    <2>7. FreshTarget' /\ NothingAtPath' /\ BothCopies' /\ PurgeGivenUp'
      BY <1>1, <1>2, <2>1 DEF FreshTarget, NothingAtPath, BothCopies, PurgeGivenUp, WriteSteps,
                              TypeOK
    <2>8. QED BY <2>2, <2>3, <2>4, <2>6, <2>7
  <1>3. CASE pc' = "idle"
    <2>1. UNCHANGED <<disk, stored, manifest, environment>> /\ op' = NoOp
      BY <1>3 DEF TakeCopy, Goto, Return
    <2>2. FreshTarget' /\ NothingAtPath' /\ BothCopies' /\ PurgeGivenUp'
      BY <1>3, <2>1 DEF FreshTarget, NothingAtPath, BothCopies, PurgeGivenUp, WriteSteps
    <2>3. QED BY <2>1, <2>2, QuietStep
  <1>4. QED BY <1>2, <1>3 DEF TakeCopy, Goto, Return

LEMMA TakeRemoveDurable ==
  ASSUME DurabilityInv, TakeRemove, TypeOK'
  PROVE  DurabilityInv'
  <1> USE DEF DurabilityInv
  <1>1. op.kind = "take" /\ op.file \in Files /\ op.id \in Ids
    BY TakeShape
  <1>2. stored[op.id] = disk[op.file]
    BY DEF BothCopies, TakeRemove
  <1>3. CASE pc' = "take_record"
    <2>1. /\ disk' = [disk EXCEPT ![op.file] = None]
          /\ UNCHANGED <<stored, manifest, op, environment>>
      BY <1>3 DEF TakeRemove, Goto
    <2>2. IdsUsed' /\ EntriesTrue'
      BY <2>1 DEF IdsUsed, Used, EntriesTrue, environment
    <2>3. RestoredToOrigin'
      BY <1>1, <2>1, ConstantsAssumption DEF RestoredToOrigin, TypeOK
    <2>4. \A c \in Content : Safe(c) => Safe(c)'
      BY <1>1, <1>2, <2>1, ConstantsAssumption DEF Safe, AtHome, Kept, TypeOK, environment
    <2>5. NoLoss'
      BY <2>1, <2>4, SafeSteps DEF environment
    <2>6. FreshTarget' /\ NothingAtPath' /\ BothCopies' /\ PurgeGivenUp'
      BY <1>1, <1>3, <2>1 DEF FreshTarget, NothingAtPath, BothCopies, PurgeGivenUp, WriteSteps,
                              TypeOK
    <2>7. QED BY <2>2, <2>3, <2>5, <2>6
  <1>4. CASE pc' = "take_uncopy"
    <2>1. UNCHANGED <<disk, stored, manifest, op, environment>>
      BY <1>4 DEF TakeRemove, Goto
    <2>2. FreshTarget' /\ NothingAtPath' /\ BothCopies' /\ PurgeGivenUp'
      BY <1>1, <1>2, <1>4, <2>1
         DEF FreshTarget, NothingAtPath, BothCopies, PurgeGivenUp, WriteSteps
    <2>3. QED BY <2>1, <2>2, QuietStep
  <1>5. QED BY <1>3, <1>4 DEF TakeRemove, Goto

LEMMA TakeUncopyDurable ==
  ASSUME DurabilityInv, TakeUncopy, TypeOK'
  PROVE  DurabilityInv'
  <1> USE DEF DurabilityInv
  <1>1. op.kind = "take" /\ op.file \in Files /\ op.id \in Ids
    BY TakeShape
  <1>2. /\ stored[op.id] = disk[op.file] /\ pc' = "idle" /\ op' = NoOp
        /\ UNCHANGED <<disk, manifest, environment>>
    BY DEF BothCopies, TakeUncopy, Return
  <1>3. FreshTarget' /\ NothingAtPath' /\ BothCopies' /\ PurgeGivenUp'
    BY <1>2 DEF FreshTarget, NothingAtPath, BothCopies, PurgeGivenUp, WriteSteps
  <1>4. CASE stored' = [stored EXCEPT ![op.id] = None]
    <2>1. IdsUsed' /\ EntriesTrue'
      BY <1>1, <1>2, <1>4, ConstantsAssumption
         DEF IdsUsed, Used, EntriesTrue, environment, NoOp, Operation, TypeOK, Entry
    <2>2. \A c \in Content : Safe(c) => Safe(c)'
      BY <1>1, <1>2, <1>4, ConstantsAssumption DEF Safe, AtHome, Kept, TypeOK, environment
    <2>3. NoLoss' /\ RestoredToOrigin'
      BY <1>2, <2>2, SafeSteps DEF environment, RestoredToOrigin
    <2>4. QED BY <1>3, <2>1, <2>3
  <1>5. CASE UNCHANGED stored
    BY <1>2, <1>3, <1>5, QuietStep
  <1>6. QED BY <1>4, <1>5 DEF TakeUncopy

LEMMA TakeRecordDurable ==
  ASSUME DurabilityInv, TakeRecord, TypeOK'
  PROVE  DurabilityInv'
  <1> USE DEF DurabilityInv
  <1>1. op.kind = "take" /\ op.file \in Files /\ op.id \in Ids
    BY TakeShape
  <1> DEFINE entry == [id |-> op.id, file |-> op.file]
  <1>2. /\ op'.kind = "take" /\ op'.id = op.id /\ op'.file = op.file
        /\ op'.entries \subseteq manifest \cup {entry}
    BY <1>1 DEF TakeRecord, TypeOK, FileOp, NoOp, Operation, PurgeOp
  <1>3. UNCHANGED <<disk, stored, manifest, environment>> /\ pc' = "write_temporary"
    BY DEF TakeRecord
  <1>4. IdsUsed'
    BY <1>1, <1>2, <1>3 DEF IdsUsed, Used, environment
  <1>5. EntriesTrue'
    BY <1>1, <1>2, <1>3 DEF EntriesTrue
  <1>6. NothingAtPath'
    BY <1>2, <1>3 DEF NothingAtPath, TakeRecord, WriteSteps
  <1>7. FreshTarget' /\ BothCopies' /\ PurgeGivenUp' /\ RestoredToOrigin'
    BY <1>3 DEF FreshTarget, BothCopies, PurgeGivenUp, RestoredToOrigin
  <1>8. \A c \in Content : Safe(c) => Safe(c)'
    BY <1>3 DEF Safe, AtHome, Kept, environment
  <1>9. NoLoss'
    BY <1>3, <1>8, SafeSteps DEF environment
  <1>10. QED BY <1>4, <1>5, <1>6, <1>7, <1>9

LEMMA TakeUndoDurable ==
  ASSUME DurabilityInv, TakeUndo, TypeOK'
  PROVE  DurabilityInv'
  <1> USE DEF DurabilityInv
  <1>1. op.kind = "take" /\ op.file \in Files /\ op.id \in Ids
    BY TakeShape
  <1>2. /\ disk[op.file] = None /\ pc' = "idle" /\ op' = NoOp
        /\ UNCHANGED <<manifest, environment>>
    BY DEF NothingAtPath, TakeUndo, Return
  <1>3. FreshTarget' /\ NothingAtPath' /\ BothCopies' /\ PurgeGivenUp'
    BY <1>2 DEF FreshTarget, NothingAtPath, BothCopies, PurgeGivenUp, WriteSteps, NoOp,
                Operation
  <1>4. CASE /\ disk' = [disk EXCEPT ![op.file] = stored[op.id]]
             /\ stored' = [stored EXCEPT ![op.id] = None]
    <2>1. IdsUsed' /\ EntriesTrue'
      BY <1>1, <1>2, <1>4, ConstantsAssumption
         DEF IdsUsed, Used, EntriesTrue, environment, NoOp, Operation, TypeOK, Entry
    <2>2. RestoredToOrigin'
      BY <1>1, <1>4 DEF RestoredToOrigin, EntriesTrue, TypeOK
    <2>3. \A c \in Content : Safe(c) => Safe(c)'
      BY <1>1, <1>2, <1>4, ConstantsAssumption DEF Safe, AtHome, Kept, TypeOK, environment
    <2>4. NoLoss'
      BY <1>2, <2>3, SafeSteps DEF environment
    <2>5. QED BY <1>3, <2>1, <2>2, <2>4
  <1>5. CASE UNCHANGED <<disk, stored>>
    BY <1>2, <1>3, <1>5, QuietStep
  <1>6. QED BY <1>4, <1>5 DEF TakeUndo

\* What is known of the running operation when a call of restore() is next.
LEMMA RestoreShape ==
  ASSUME TypeOK, RestoreMove \/ RestoreCopy \/ RestoreRemove
  PROVE  op.kind = "restore" /\ op.file \in Files /\ op.id \in Ids
  BY DEF TypeOK, NoOp, Operation, FileOp, PurgeOp, RestoreMove, RestoreCopy, RestoreRemove,
         TakeSteps, PurgeSteps, WriteSteps

LEMMA RestoreMoveDurable ==
  ASSUME DurabilityInv, RestoreMove, TypeOK'
  PROVE  DurabilityInv'
  <1> USE DEF DurabilityInv
  <1>1. op.kind = "restore" /\ op.file \in Files /\ op.id \in Ids
    BY RestoreShape
  <1>2. /\ disk[op.file] = None
        /\ UNCHANGED <<manifest, op, environment>>
    BY DEF NothingAtPath, RestoreMove, Goto
  <1>3. FreshTarget' /\ NothingAtPath' /\ BothCopies' /\ PurgeGivenUp'
    BY <1>1, <1>2 DEF FreshTarget, NothingAtPath, BothCopies, PurgeGivenUp, WriteSteps,
                      RestoreMove, Goto
  <1>4. CASE /\ disk' = [disk EXCEPT ![op.file] = stored[op.id]]
             /\ stored' = [stored EXCEPT ![op.id] = None]
    <2>1. IdsUsed' /\ EntriesTrue'
      BY <1>1, <1>2, <1>4, ConstantsAssumption
         DEF IdsUsed, Used, EntriesTrue, environment, TypeOK, Entry
    <2>2. RestoredToOrigin'
      BY <1>1, <1>4 DEF RestoredToOrigin, EntriesTrue, TypeOK
    <2>3. \A c \in Content : Safe(c) => Safe(c)'
      BY <1>1, <1>2, <1>4, ConstantsAssumption DEF Safe, AtHome, Kept, TypeOK, environment
    <2>4. NoLoss'
      BY <1>2, <2>3, SafeSteps DEF environment
    <2>5. QED BY <1>3, <2>1, <2>2, <2>4
  <1>5. CASE UNCHANGED <<disk, stored>>
    BY <1>2, <1>3, <1>5, QuietStep
  <1>6. QED BY <1>4, <1>5 DEF RestoreMove

LEMMA RestoreCopyDurable ==
  ASSUME DurabilityInv, RestoreCopy, TypeOK'
  PROVE  DurabilityInv'
  <1> USE DEF DurabilityInv
  <1>1. op.kind = "restore" /\ op.file \in Files /\ op.id \in Ids
    BY RestoreShape
  <1>2. disk[op.file] = None /\ UNCHANGED <<stored, manifest, environment>>
    BY DEF NothingAtPath, RestoreCopy
  <1>3. CASE pc' = "restore_remove"
    <2>1. disk' = [disk EXCEPT ![op.file] = stored[op.id]] /\ op' = op
      BY <1>3 DEF RestoreCopy, Goto, Return
    <2>2. IdsUsed' /\ EntriesTrue'
      BY <1>2, <2>1 DEF IdsUsed, Used, EntriesTrue, environment
    <2>3. RestoredToOrigin'
      BY <1>1, <2>1 DEF RestoredToOrigin, EntriesTrue, TypeOK
    <2>4. \A c \in Content : Safe(c) => Safe(c)'
      BY <1>1, <1>2, <2>1, ConstantsAssumption DEF Safe, AtHome, Kept, TypeOK, environment
    <2>5. NoLoss'
      BY <1>2, <2>4, SafeSteps DEF environment
    <2>6. FreshTarget' /\ NothingAtPath' /\ BothCopies' /\ PurgeGivenUp'
      BY <1>1, <1>2, <1>3, <2>1 DEF FreshTarget, NothingAtPath, BothCopies, PurgeGivenUp,
                                    WriteSteps, TypeOK
    <2>7. QED BY <2>2, <2>3, <2>5, <2>6
  <1>4. CASE pc' = "idle"
    <2>1. UNCHANGED disk /\ op' = NoOp
      BY <1>4 DEF RestoreCopy, Goto, Return
    <2>2. FreshTarget' /\ NothingAtPath' /\ BothCopies' /\ PurgeGivenUp'
      BY <1>4, <2>1 DEF FreshTarget, NothingAtPath, BothCopies, PurgeGivenUp, WriteSteps,
                        NoOp, Operation
    <2>3. QED BY <1>2, <2>1, <2>2, QuietStep
  <1>5. QED BY <1>3, <1>4 DEF RestoreCopy, Goto, Return

LEMMA RestoreRemoveDurable ==
  ASSUME DurabilityInv, RestoreRemove, TypeOK'
  PROVE  DurabilityInv'
  <1> USE DEF DurabilityInv
  <1>1. op.kind = "restore" /\ op.file \in Files /\ op.id \in Ids
    BY RestoreShape
  <1>2. /\ stored[op.id] = disk[op.file] /\ pc' = "write_temporary"
        /\ UNCHANGED <<disk, manifest, op, environment>>
    BY DEF BothCopies, RestoreRemove, Goto
  <1>3. FreshTarget' /\ NothingAtPath' /\ BothCopies' /\ PurgeGivenUp'
    BY <1>1, <1>2 DEF FreshTarget, NothingAtPath, BothCopies, PurgeGivenUp, WriteSteps
  <1>4. CASE stored' = [stored EXCEPT ![op.id] = None]
    <2>1. IdsUsed' /\ EntriesTrue'
      BY <1>1, <1>2, <1>4, ConstantsAssumption
         DEF IdsUsed, Used, EntriesTrue, environment, TypeOK, Entry
    <2>2. \A c \in Content : Safe(c) => Safe(c)'
      BY <1>1, <1>2, <1>4, ConstantsAssumption DEF Safe, AtHome, Kept, TypeOK, environment
    <2>3. NoLoss' /\ RestoredToOrigin'
      BY <1>2, <2>2, SafeSteps DEF environment, RestoredToOrigin
    <2>4. QED BY <1>3, <2>1, <2>3
  <1>5. CASE UNCHANGED stored
    BY <1>2, <1>3, <1>5, QuietStep
  <1>6. QED BY <1>4, <1>5 DEF RestoreRemove

\* The first call of each operation finds the id unused, the path empty or the
\* expired contents given up.
LEMMA BeginDurable ==
  ASSUME DurabilityInv, TypeOK',
         \/ \E f \in Files : TakeBegin(f)
         \/ \E e \in manifest : RestoreBegin(e)
         \/ \E cutoff \in 0..clock : PurgeBegin(cutoff)
  PROVE  DurabilityInv'
  <1> USE DEF DurabilityInv
  <1>1. CASE \E f \in Files : TakeBegin(f)
    <2> PICK f \in Files : TakeBegin(f) BY <1>1
    <2>0. <<clock, seq>> \in Ids
      BY ConstantsAssumption DEF TakeBegin, Ids, TypeOK
    <2> PICK id \in Ids : id = <<clock, seq>>
      BY <2>0
    <2>1. id[1] = clock /\ id[2] = seq /\ ~ Used(id)
      BY ConstantsAssumption DEF TypeOK, Used
    <2>2. /\ op' = Operation("take", f, id, {}, {}) /\ pc' = "take_move" /\ pc = "idle"
          /\ seq' = seq + 1
          /\ UNCHANGED <<disk, stored, manifest, clock, version, relinquished>>
      BY DEF TakeBegin, Start
    <2>3. stored[id] = None /\ \A e \in manifest : e.id # id
      BY <2>1 DEF IdsUsed
    <2>4. IdsUsed'
      <3>1. ASSUME NEW i \in Ids, Used(i)
            PROVE  Used(i)'
        <4>1. i[1] \in 0..MaxClock /\ i[2] \in 0..(MaxSeq - 1)
          BY DEF Ids
        <4>2. QED BY <2>2, <3>1, <4>1, ConstantsAssumption DEF Used, TypeOK
      <3>2. Used(id)'
        <4>1. clock \in Int /\ seq \in Int
          BY ConstantsAssumption DEF TypeOK
        <4>2. QED BY <2>1, <2>2, <4>1 DEF Used
      <3>3. op'.id = id /\ op'.entries = {}
        BY <2>2 DEF Operation
      <3>4. (\A e \in manifest \cup op.entries : Used(e.id))'
        BY <2>2, <3>1, <3>3 DEF TypeOK, Entry, IdsUsed
      <3>5. (\A i \in Ids : stored[i] # None => Used(i))'
        BY <2>2, <3>1 DEF IdsUsed
      <3>6. Used(op.id)'
        BY <2>2, <3>2, <3>3 DEF Used
      <3>7. QED BY <3>4, <3>5, <3>6 DEF IdsUsed
    <2>5. FreshTarget' /\ NothingAtPath' /\ BothCopies' /\ PurgeGivenUp'
      BY <2>2, <2>3 DEF FreshTarget, NothingAtPath, BothCopies, PurgeGivenUp, Operation,
                        WriteSteps
    <2>6. EntriesTrue' /\ RestoredToOrigin'
      BY <2>2, <2>3, ConstantsAssumption DEF EntriesTrue, RestoredToOrigin, Operation
    <2>7. \A c \in Content : Safe(c) => Safe(c)'
      BY <2>2 DEF Safe, AtHome, Kept
    <2>8. NoLoss'
      BY <2>2, <2>7, SafeSteps
    <2>9. QED BY <2>4, <2>5, <2>6, <2>8
  <1>2. CASE \E e \in manifest : RestoreBegin(e)
    <2> PICK e \in manifest : RestoreBegin(e) BY <1>2
    <2>1. /\ op' = Operation("restore", e.file, e.id, manifest \ {e}, {})
          /\ pc' = "restore_move" /\ disk[e.file] = None
          /\ UNCHANGED <<disk, stored, manifest, environment>>
      BY DEF RestoreBegin, Start
    <2>2. IdsUsed' /\ EntriesTrue'
      BY <2>1 DEF IdsUsed, Used, EntriesTrue, Operation, environment
    <2>3. FreshTarget' /\ NothingAtPath' /\ BothCopies' /\ PurgeGivenUp' /\ RestoredToOrigin'
      BY <2>1 DEF FreshTarget, NothingAtPath, BothCopies, PurgeGivenUp, RestoredToOrigin,
                  Operation, WriteSteps
    <2>4. \A c \in Content : Safe(c) => Safe(c)'
      BY <2>1 DEF Safe, AtHome, Kept, environment
    <2>5. NoLoss'
      BY <2>1, <2>4, SafeSteps DEF environment
    <2>6. QED BY <2>2, <2>3, <2>5
  <1>3. CASE \E cutoff \in 0..clock : PurgeBegin(cutoff)
    <2> PICK cutoff \in 0..clock : PurgeBegin(cutoff) BY <1>3
    <2>1. /\ op' = Operation("purge", None, None, manifest \ Expired(cutoff),
                             {e.id : e \in Expired(cutoff)})
          /\ pc' = "purge_remove"
          /\ Expired(cutoff) \subseteq manifest
          /\ relinquished' = relinquished \cup
               {c \in Content : /\ \E e \in Expired(cutoff) : stored[e.id] = c
                                /\ \A f \in Files : disk[f] # c}
          /\ UNCHANGED <<disk, stored, manifest, clock, seq, version>>
      BY DEF PurgeBegin, Start, Expired
    <2>2. IdsUsed' /\ EntriesTrue'
      BY <2>1 DEF IdsUsed, Used, EntriesTrue, Operation
    <2>3. PurgeGivenUp'
      BY <2>1 DEF PurgeGivenUp, Operation, AtHome
    <2>4. FreshTarget' /\ NothingAtPath' /\ BothCopies' /\ RestoredToOrigin'
      BY <2>1 DEF FreshTarget, NothingAtPath, BothCopies, RestoredToOrigin, Operation,
                  WriteSteps
    <2>5. \A c \in Content : Safe(c) => Safe(c)'
      BY <2>1 DEF Safe, AtHome, Kept
    <2>6. NoLoss'
      BY <2>1, <2>5, SafeSteps
    <2>7. QED BY <2>2, <2>3, <2>4, <2>6
  <1>4. QED BY <1>1, <1>2, <1>3

LEMMA PurgeRemoveDurable ==
  ASSUME DurabilityInv, NEW i \in Ids, PurgeRemove(i), TypeOK'
  PROVE  DurabilityInv'
  <1> USE DEF DurabilityInv
  <1>1. /\ op'.kind = "purge" /\ op.kind = "purge" /\ op'.entries = op.entries
        /\ op'.todo = op.todo \ {i} /\ i \in op.todo
    BY DEF TypeOK, NoOp, Operation, FileOp, PurgeOp, PurgeRemove, TakeSteps, RestoreSteps,
           WriteSteps
  <1>2. /\ pc = "purge_remove" /\ pc' \in {"write_temporary", "purge_remove"}
        /\ UNCHANGED <<disk, manifest, environment>>
        /\ stored' = stored \/ stored' = [stored EXCEPT ![i] = None]
    BY DEF PurgeRemove
  <1>3. op.entries \subseteq Entry /\ op.todo \subseteq Ids
    BY <1>2 DEF TypeOK, TakeSteps, RestoreSteps, WriteSteps, PurgeOp
  <1>4. IdsUsed' /\ EntriesTrue'
    BY <1>1, <1>2, <1>3, ConstantsAssumption
       DEF IdsUsed, Used, EntriesTrue, environment, TypeOK, Entry
  <1>5. FreshTarget' /\ NothingAtPath' /\ BothCopies' /\ RestoredToOrigin'
    BY <1>1, <1>2 DEF FreshTarget, NothingAtPath, BothCopies, RestoredToOrigin
  <1>6. PurgeGivenUp'
    BY <1>1, <1>2, <1>3, ConstantsAssumption
       DEF PurgeGivenUp, AtHome, environment, TypeOK
  <1>7. \A c \in Content : Safe(c) => Safe(c)'
    BY <1>1, <1>2, ConstantsAssumption
       DEF Safe, AtHome, Kept, environment, TypeOK, PurgeGivenUp
  <1>8. NoLoss'
    BY <1>2, <1>7, SafeSteps DEF environment
  <1>9. QED BY <1>4, <1>5, <1>6, <1>8

\* What the calls of write_entries can do: they change the record and nothing
\* else, and only take() goes on after them.
LEMMA WriteShape ==
  ASSUME TypeOK, WriteTemporary \/ ReplaceRecord \/ RemoveRecord \/ ReplaceAgain
  PROVE  /\ pc \in WriteSteps
         /\ UNCHANGED <<disk, stored, environment>>
         /\ manifest' \subseteq manifest \cup op.entries
         /\ \/ op' = NoOp /\ pc' = "idle"
            \/ /\ op'.kind = op.kind /\ op'.id = op.id /\ op'.file = op.file
               /\ op'.entries \subseteq op.entries
               /\ pc' \in WriteSteps \/ (pc' = "take_undo" /\ op.kind = "take")
  <1>1. /\ pc \in WriteSteps /\ UNCHANGED <<disk, stored, environment>>
        /\ manifest' \subseteq manifest \cup op.entries
    BY DEF WriteTemporary, ReplaceRecord, RemoveRecord, ReplaceAgain, WriteSteps
  <1>2. op \in FileOp("take") \/ op \in FileOp("restore") \/ op \in PurgeOp
    BY <1>1 DEF TypeOK, WriteSteps
  <1>3. \/ op' = NoOp /\ pc' = "idle"
        \/ op' = op /\ pc' \in WriteSteps
        \/ op' = op /\ pc' = "take_undo" /\ op.kind = "take"
        \/ op' = [op EXCEPT !.entries = {}] /\ pc' \in WriteSteps
    BY DEF WriteTemporary, ReplaceRecord, RemoveRecord, ReplaceAgain, WriteSteps,
           Wrote, Return, Goto
  <1>4. QED BY <1>1, <1>2, <1>3 DEF FileOp, PurgeOp

LEMMA WriteDurable ==
  ASSUME DurabilityInv, TypeOK',
         WriteTemporary \/ ReplaceRecord \/ RemoveRecord \/ ReplaceAgain
  PROVE  DurabilityInv'
  <1> USE DEF DurabilityInv
  <1>1. /\ pc \in WriteSteps
        /\ UNCHANGED <<disk, stored, environment>>
        /\ manifest' \subseteq manifest \cup op.entries
        /\ \/ op' = NoOp /\ pc' = "idle"
           \/ /\ op'.kind = op.kind /\ op'.id = op.id /\ op'.file = op.file
              /\ op'.entries \subseteq op.entries
              /\ pc' \in WriteSteps \/ (pc' = "take_undo" /\ op.kind = "take")
    BY WriteShape
  <1>2. IdsUsed' /\ EntriesTrue'
    BY <1>1 DEF IdsUsed, Used, EntriesTrue, environment, NoOp, Operation
  <1>3. FreshTarget' /\ BothCopies' /\ PurgeGivenUp'
    BY <1>1 DEF FreshTarget, BothCopies, PurgeGivenUp, WriteSteps
  <1>4. NothingAtPath'
    BY <1>1 DEF NothingAtPath, WriteSteps, NoOp, Operation
  <1>5. \A c \in Content : Safe(c) => Safe(c)'
    BY <1>1 DEF Safe, AtHome, Kept, environment
  <1>6. NoLoss' /\ RestoredToOrigin'
    BY <1>1, <1>5, SafeSteps DEF environment, RestoredToOrigin
  <1>7. QED BY <1>2, <1>3, <1>4, <1>6

\* Between operations nothing is under way that a change of a path could upset.
LEMMA OwnerDurable ==
  ASSUME DurabilityInv, TypeOK', ~ OwnerConcurrent,
         NEW f \in Files, OwnerWrites(f) \/ OwnerDeletes(f)
  PROVE  DurabilityInv'
  <1> USE DEF DurabilityInv
  <1>1. pc \in {"idle", "down"} /\ op = NoOp
    BY DEF OwnerWrites, OwnerDeletes, OwnerMayAct, TypeOK, TakeSteps, RestoreSteps,
           PurgeSteps, WriteSteps
  <1>2. /\ UNCHANGED <<stored, manifest, pc, op, clock, seq>>
        /\ relinquished' = relinquished \cup ({disk[f]} \cap Content)
        /\ disk' = [disk EXCEPT ![f] = disk'[f]]
        /\ disk'[f] = None \/ disk'[f] = <<f, version[f] + 1>>
    BY DEF OwnerWrites, OwnerDeletes, TypeOK
  <1>3. IdsUsed' /\ EntriesTrue'
    BY <1>2 DEF IdsUsed, Used, EntriesTrue
  <1>4. FreshTarget' /\ NothingAtPath' /\ BothCopies' /\ PurgeGivenUp'
    BY <1>1, <1>2 DEF FreshTarget, NothingAtPath, BothCopies, PurgeGivenUp, WriteSteps,
                      NoOp, Operation
  <1>5. RestoredToOrigin'
    BY <1>2, ConstantsAssumption DEF RestoredToOrigin, TypeOK
  <1>6. ASSUME NEW c \in Content, Safe(c)
        PROVE  Safe(c)'
    BY <1>2, <1>6 DEF Safe, AtHome, Kept, TypeOK
  <1>7. CASE OwnerDeletes(f)
    BY <1>3, <1>4, <1>5, <1>6, <1>7, SafeSteps DEF OwnerDeletes
  <1>8. CASE OwnerWrites(f)
    <2>1. ASSUME NEW g \in Files, NEW v \in 1..version'[g],
                 <<g, v>> \notin relinquished'
          PROVE  Safe(<<g, v>>)'
      <3>1. <<g, v>> \in Content
        BY ConstantsAssumption DEF TypeOK, Content
      <3>2. CASE v \in 1..version[g]
        BY <1>6, <3>1, <3>2 DEF NoLoss, Safe
      <3>3. CASE g = f /\ v = version[f] + 1
        BY <1>8, <3>3 DEF OwnerWrites, Safe, AtHome, TypeOK
      <3>4. QED
        BY <1>8, <3>2, <3>3, ConstantsAssumption DEF OwnerWrites, TypeOK
    <2>2. NoLoss'
      BY <2>1 DEF NoLoss, Safe
    <2>3. QED BY <1>3, <1>4, <1>5, <2>2
  <1>9. QED BY <1>7, <1>8

\* An id that was handed out stays handed out when time goes forward.
LEMMA TimeKeepsUsed ==
  ASSUME TypeOK, clock' \in Int, clock' > clock,
         NEW i \in Ids, Used(i)
  PROVE  Used(i)'
  <1>1. i[1] \in Int /\ i[2] \in Int /\ clock \in Int /\ seq \in Int
    BY ConstantsAssumption DEF Ids, TypeOK
  <1>2. QED BY <1>1 DEF Used

LEMMA TimeDurable ==
  ASSUME DurabilityInv, TypeOK', ~ ClockRepeats, Tick \/ Restart
  PROVE  DurabilityInv'
  <1> USE DEF DurabilityInv
  <1>1. /\ UNCHANGED <<disk, stored, manifest, version, relinquished>>
        /\ clock' \in Int /\ clock' > clock
        /\ (pc' = pc /\ op' = op) \/ (pc' = "idle" /\ op' = NoOp)
    BY ConstantsAssumption DEF Tick, Restart, Return, TypeOK
  <1>2. op.entries \subseteq Entry /\ (op.kind = "take" => op.id \in Ids)
    BY DEF TypeOK, NoOp, Operation, FileOp, PurgeOp
  <1>3. IdsUsed'
    <2>1. (\A i \in Ids : stored[i] # None => Used(i))'
      BY <1>1, TimeKeepsUsed DEF IdsUsed
    <2>2. (\A e \in manifest \cup op.entries : Used(e.id))'
      BY <1>1, <1>2, TimeKeepsUsed DEF IdsUsed, TypeOK, Entry, NoOp, Operation
    <2>3. (op.kind = "take" => Used(op.id))'
      <3>1. CASE op' = op
        BY <1>1, <1>2, <3>1, TimeKeepsUsed DEF IdsUsed, Used
      <3>2. CASE op' = NoOp
        BY <3>2 DEF NoOp, Operation
      <3>3. QED BY <1>1, <3>1, <3>2
    <2>4. QED BY <2>1, <2>2, <2>3 DEF IdsUsed
  <1>4. EntriesTrue' /\ RestoredToOrigin'
    BY <1>1 DEF EntriesTrue, RestoredToOrigin, NoOp, Operation
  <1>5. FreshTarget' /\ NothingAtPath' /\ BothCopies' /\ PurgeGivenUp'
    BY <1>1 DEF FreshTarget, NothingAtPath, BothCopies, PurgeGivenUp, AtHome, WriteSteps,
                NoOp, Operation
  <1>6. \A c \in Content : Safe(c) => Safe(c)'
    BY <1>1 DEF Safe, AtHome, Kept
  <1>7. NoLoss'
    BY <1>1, <1>6, SafeSteps
  <1>8. QED BY <1>3, <1>4, <1>5, <1>7

\* A copy cut short overwrites nothing: its target was free.
LEMMA StopDurable ==
  ASSUME DurabilityInv, TypeOK', Stop
  PROVE  DurabilityInv'
  <1> USE DEF DurabilityInv
  <1>1. pc' = "down" /\ op' = NoOp /\ UNCHANGED <<manifest, environment>>
    BY DEF Stop
  <1>2. FreshTarget' /\ NothingAtPath' /\ BothCopies' /\ PurgeGivenUp'
    BY <1>1 DEF FreshTarget, NothingAtPath, BothCopies, PurgeGivenUp, WriteSteps, NoOp,
                Operation
  <1>3. CASE UNCHANGED <<disk, stored>>
    BY <1>1, <1>2, <1>3, QuietStep
  <1>4. CASE /\ pc = "take_copy" /\ UNCHANGED disk
             /\ stored' = [stored EXCEPT ![op.id] = Partial]
    <2>1. op.kind = "take" /\ op.id \in Ids /\ stored[op.id] = None
      BY <1>4 DEF TypeOK, FileOp, RestoreSteps, PurgeSteps, WriteSteps, FreshTarget
    <2>2. IdsUsed' /\ EntriesTrue'
      BY <1>1, <1>4, <2>1, ConstantsAssumption
         DEF IdsUsed, Used, EntriesTrue, environment, NoOp, Operation, TypeOK, Entry
    <2>3. \A c \in Content : Safe(c) => Safe(c)'
      BY <1>1, <1>4, <2>1, ConstantsAssumption DEF Safe, AtHome, Kept, TypeOK, environment
    <2>4. NoLoss' /\ RestoredToOrigin'
      BY <1>1, <1>4, <2>3, SafeSteps DEF environment, RestoredToOrigin
    <2>5. QED BY <1>2, <2>2, <2>4
  <1>5. CASE /\ pc = "restore_copy" /\ UNCHANGED stored
             /\ disk' = [disk EXCEPT ![op.file] = Partial]
    <2>1. op.file \in Files /\ disk[op.file] = None
      BY <1>5 DEF TypeOK, FileOp, TakeSteps, PurgeSteps, WriteSteps, NothingAtPath
    <2>2. IdsUsed' /\ EntriesTrue'
      BY <1>1, <1>5 DEF IdsUsed, Used, EntriesTrue, environment, NoOp, Operation
    <2>3. RestoredToOrigin'
      BY <1>5, <2>1, ConstantsAssumption DEF RestoredToOrigin, TypeOK
    <2>4. \A c \in Content : Safe(c) => Safe(c)'
      BY <1>1, <1>5, <2>1, ConstantsAssumption DEF Safe, AtHome, Kept, TypeOK, environment
    <2>5. NoLoss'
      BY <1>1, <2>4, SafeSteps DEF environment
    <2>6. QED BY <1>2, <2>2, <2>3, <2>5
  <1>6. QED BY <1>3, <1>4, <1>5 DEF Stop

LEMMA NextDurable ==
  ASSUME ~ ClockRepeats, ~ OwnerConcurrent
  PROVE  DurabilityInv /\ [Next]_vars => DurabilityInv'
  <1> SUFFICES ASSUME DurabilityInv, [Next]_vars PROVE DurabilityInv'
    OBVIOUS
  <1>1. TypeOK'
    BY NextTypeOK DEF DurabilityInv
  <1>2. CASE UNCHANGED vars
    <2>1. IdsUsed' /\ EntriesTrue' /\ RestoredToOrigin' /\ NoLoss'
      BY <1>2, QuietStep DEF vars
    <2>2. FreshTarget' /\ NothingAtPath' /\ BothCopies' /\ PurgeGivenUp'
      BY <1>2 DEF DurabilityInv, vars, environment, FreshTarget, NothingAtPath, BothCopies,
                  PurgeGivenUp, AtHome
    <2>3. QED BY <1>1, <2>1, <2>2 DEF DurabilityInv
  <1>3. CASE Next
    BY <1>1, <1>3, BeginDurable, TakeMoveDurable, TakeCopyDurable, TakeRemoveDurable,
       TakeUncopyDurable, TakeRecordDurable, TakeUndoDurable, RestoreMoveDurable,
       RestoreCopyDurable, RestoreRemoveDurable, PurgeRemoveDurable, WriteDurable,
       OwnerDurable, TimeDurable, StopDurable
       DEF Next
  <1>4. QED BY <1>2, <1>3

\* For every set of files, wherever they are, whichever calls fail and whenever
\* the process dies: as long as local time does not repeat a second and owners
\* keep off a path while an operation runs on it, a content disappears only when
\* its owner deletes or replaces it or a purge finds it expired.
THEOREM NothingLost ==
  ASSUME ~ ClockRepeats, ~ OwnerConcurrent
  PROVE  Spec => []NoLoss
  <1>1. DurabilityInv => NoLoss
    BY DEF DurabilityInv
  <1>2. QED BY <1>1, InitDurable, NextDurable, PTL DEF Spec

\* Under the same two assumptions, a file that restore() or the undo of take()
\* puts back is at the path it was taken from.
THEOREM RestoredWhereItWas ==
  ASSUME ~ ClockRepeats, ~ OwnerConcurrent
  PROVE  Spec => []RestoredToOrigin
  <1>1. DurabilityInv => RestoredToOrigin
    BY DEF DurabilityInv
  <1>2. QED BY <1>1, InitDurable, NextDurable, PTL DEF Spec

-----------------------------------------------------------------------------
(* What the store holds can be given back                                  *)

\* restore() has no list of files to remove.
LEMMA NothingToDo ==
  ASSUME TypeOK, op.kind = "restore"
  PROVE  \A i : i \notin op.todo
  BY DEF TypeOK, FileOp, PurgeOp, NoOp, Operation

LEMMA PurgeShape ==
  ASSUME TypeOK, pc = "purge_remove"
  PROVE  op.kind = "purge" /\ op.entries \subseteq Entry /\ op.todo \subseteq Ids
  BY DEF TypeOK, NoOp, Operation, FileOp, PurgeOp, TakeSteps, RestoreSteps, WriteSteps

LEMMA InitContract == Init => ContractInv
  <1> SUFFICES ASSUME Init PROVE ContractInv
    OBVIOUS
  <1>1. DurabilityInv
    BY InitDurable
  <1>2. Current
    BY ConstantsAssumption DEF Init, Current, Content
  <1>3. InOnePlace /\ Listed /\ OneEntryEach
    BY DEF Init, InOnePlace, Listed, OneEntryEach, NoOp, Operation
  <1>4. TakeKnows /\ RestoreKnows /\ PurgeKnows /\ Spent /\ MadeWay
    BY DEF Init, TakeKnows, RestoreKnows, PurgeKnows, Spent, MadeWay, NoOp, Operation
  <1>5. QED BY <1>1, <1>2, <1>3, <1>4 DEF ContractInv

\* The id take() makes is in no entry.
LEMMA TakeBeginContract ==
  ASSUME ContractInv, DurabilityInv', NEW f \in Files, TakeBegin(f)
  PROVE  ContractInv'
  <1> USE DEF ContractInv, DurabilityInv
  <1>1. /\ pc = "idle" /\ pc' = "take_move" /\ disk[f] # None /\ f \notin Protected
        /\ op' = Operation("take", f, <<clock, seq>>, {}, {})
        /\ UNCHANGED <<disk, stored, manifest, clock, version, relinquished>>
    BY DEF TakeBegin, Start
  <1>2. op = NoOp
    BY <1>1 DEF TypeOK, TakeSteps, RestoreSteps, PurgeSteps, WriteSteps
  <1>3. \A e \in manifest : e.id # <<clock, seq>>
    <2> SUFFICES ASSUME NEW e \in manifest, e.id = <<clock, seq>> PROVE FALSE
      OBVIOUS
    <2>1. Used(e.id)
      BY DEF IdsUsed
    <2>2. QED BY <2>1, ConstantsAssumption DEF Used, TypeOK
  <1>4. Current' /\ InOnePlace'
    BY <1>1 DEF Current, InOnePlace
  <1>5. Listed' /\ OneEntryEach' /\ MadeWay' /\ Spent'
    BY <1>1, <1>2 DEF Listed, Record, OneEntryEach, MadeWay, Spent, Operation, NoOp
  <1>6. TakeKnows' /\ RestoreKnows' /\ PurgeKnows'
    BY <1>1, <1>3 DEF TakeKnows, RestoreKnows, PurgeKnows, Operation
  <1>7. QED BY <1>4, <1>5, <1>6

LEMMA TakeMoveContract ==
  ASSUME ContractInv, DurabilityInv', Handled, TakeMove
  PROVE  ContractInv'
  <1> USE DEF ContractInv, DurabilityInv
  <1>0. pc = "take_move" /\ UNCHANGED <<manifest, op, environment>>
    BY DEF TakeMove, Goto
  <1>1. /\ op.kind = "take" /\ op.file \in Files /\ op.id \in Ids
        /\ op.entries \subseteq Entry
    BY TakeShape
  <1>2. stored[op.id] = None /\ disk[op.file] # None /\ disk[op.file] \in Content
    BY <1>0, <1>1 DEF FreshTarget, TakeKnows, Current
  <1>3. CASE pc' = "take_record"
    <2>1. /\ stored' = [stored EXCEPT ![op.id] = disk[op.file]]
          /\ disk' = [disk EXCEPT ![op.file] = None]
      BY <1>3 DEF TakeMove, Goto
    <2>2. Current'
      BY <1>0, <1>1, <1>2, <2>1 DEF Current, environment, TypeOK
    <2>3. InOnePlace'
      BY <1>0, <1>1, <1>2, <2>1 DEF InOnePlace, RestoredToOrigin, TypeOK, Current
    <2>4. Listed' /\ OneEntryEach' /\ MadeWay' /\ Spent'
      BY <1>0, <1>1, <1>3, <2>1
         DEF Listed, Record, OneEntryEach, MadeWay, Spent, environment, TypeOK
    <2>5. TakeKnows' /\ RestoreKnows' /\ PurgeKnows'
      BY <1>0, <1>1, <1>2, <1>3, <2>1 DEF TakeKnows, RestoreKnows, PurgeKnows, TypeOK
    <2>6. QED BY <2>2, <2>3, <2>4, <2>5
  <1>4. CASE pc' = "take_copy"
    <2>1. UNCHANGED <<disk, stored>> /\ faults' = MaxFaults
      BY <1>2, <1>4, ConstantsAssumption DEF TakeMove, Goto, Handled, Works, Fails, TypeOK
    <2>2. Current' /\ InOnePlace'
      BY <1>0, <1>4, <2>1 DEF Current, InOnePlace, environment
    <2>3. Listed' /\ OneEntryEach' /\ MadeWay' /\ Spent'
      BY <1>0, <1>4, <2>1 DEF Listed, Record, OneEntryEach, MadeWay, Spent, environment
    <2>4. TakeKnows' /\ RestoreKnows' /\ PurgeKnows'
      BY <1>0, <1>1, <1>2, <1>4, <2>1 DEF TakeKnows, RestoreKnows, PurgeKnows
    <2>5. QED BY <2>2, <2>3, <2>4
  <1>5. QED BY <1>3, <1>4 DEF TakeMove, Goto

LEMMA TakeCopyContract ==
  ASSUME ContractInv, DurabilityInv', Handled, TakeCopy
  PROVE  ContractInv'
  <1> USE DEF ContractInv, DurabilityInv
  <1>0. pc = "take_copy" /\ UNCHANGED <<disk, manifest, environment>>
    BY DEF TakeCopy
  <1>1. /\ op.kind = "take" /\ op.file \in Files /\ op.id \in Ids
        /\ op.entries \subseteq Entry
    BY TakeShape
  <1>2. stored[op.id] = None /\ disk[op.file] # None /\ disk[op.file] \in Content
    BY <1>0, <1>1 DEF FreshTarget, TakeKnows, Current
  <1>3. faults = MaxFaults
    BY <1>0 DEF Spent
  <1>4. /\ stored' = [stored EXCEPT ![op.id] = disk[op.file]]
        /\ pc' = "take_remove" /\ op' = op /\ faults' = faults
    BY <1>2, <1>3, ConstantsAssumption DEF TakeCopy, Fails, Goto, Works, TypeOK
  <1>5. Current'
    BY <1>0, <1>1, <1>2, <1>4 DEF Current, environment, TypeOK
  <1>6. InOnePlace'
    BY <1>0, <1>1, <1>2, <1>4 DEF InOnePlace, RestoredToOrigin, TypeOK, Current
  <1>7. Listed' /\ OneEntryEach' /\ MadeWay' /\ Spent'
    BY <1>0, <1>1, <1>3, <1>4
       DEF Listed, Record, OneEntryEach, MadeWay, Spent, environment, TypeOK
  <1>8. TakeKnows' /\ RestoreKnows' /\ PurgeKnows'
    BY <1>0, <1>1, <1>2, <1>4 DEF TakeKnows, RestoreKnows, PurgeKnows, TypeOK
  <1>9. QED BY <1>5, <1>6, <1>7, <1>8

LEMMA TakeRemoveContract ==
  ASSUME ContractInv, DurabilityInv', Handled, TakeRemove
  PROVE  ContractInv'
  <1> USE DEF ContractInv, DurabilityInv
  <1>0. pc = "take_remove" /\ UNCHANGED <<stored, manifest, environment>>
    BY DEF TakeRemove
  <1>1. /\ op.kind = "take" /\ op.file \in Files /\ op.id \in Ids
        /\ op.entries \subseteq Entry
    BY TakeShape
  <1>2. stored[op.id] = disk[op.file] /\ stored[op.id] # None
    BY <1>0, <1>1 DEF BothCopies, TakeKnows
  <1>3. faults = MaxFaults
    BY <1>0 DEF Spent
  <1>4. /\ disk' = [disk EXCEPT ![op.file] = None]
        /\ pc' = "take_record" /\ op' = op
    BY <1>3, ConstantsAssumption DEF TakeRemove, Fails, Goto, TypeOK
  <1>5. Current'
    BY <1>0, <1>1, <1>4 DEF Current, environment, TypeOK
  <1>6. InOnePlace'
    BY <1>0, <1>1, <1>2, <1>4, ConstantsAssumption DEF InOnePlace, TypeOK
  <1>7. Listed' /\ OneEntryEach' /\ MadeWay' /\ Spent'
    BY <1>0, <1>1, <1>3, <1>4
       DEF Listed, Record, OneEntryEach, MadeWay, Spent, environment, TypeOK
  <1>8. TakeKnows' /\ RestoreKnows' /\ PurgeKnows'
    BY <1>0, <1>1, <1>2, <1>4 DEF TakeKnows, RestoreKnows, PurgeKnows
  <1>9. QED BY <1>5, <1>6, <1>7, <1>8

\* With one failure at most, take() never has to give its copy up.
LEMMA TakeUncopyNever ==
  ASSUME ContractInv, TakeUncopy
  PROVE  FALSE
  <1>1. op.kind = "take"
    BY TakeShape DEF ContractInv, DurabilityInv
  <1>2. QED BY <1>1 DEF TakeUncopy, ContractInv, TakeKnows

LEMMA TakeRecordContract ==
  ASSUME ContractInv, DurabilityInv', Handled, TakeRecord
  PROVE  ContractInv'
  <1> USE DEF ContractInv, DurabilityInv
  <1>0. /\ pc = "take_record" /\ pc' = "write_temporary"
        /\ UNCHANGED <<disk, stored, manifest, environment>>
    BY DEF TakeRecord
  <1>1. /\ op.kind = "take" /\ op.file \in Files /\ op.id \in Ids
        /\ op \in FileOp("take")
    BY <1>0, TakeShape
       DEF TypeOK, RestoreSteps, PurgeSteps, WriteSteps
  <1>2. op' = [op EXCEPT !.entries = manifest \cup {[id |-> op.id, file |-> op.file]}]
    BY DEF TakeRecord, Handled, Fails
  <1>3. /\ op'.kind = "take" /\ op'.id = op.id /\ op'.file = op.file
        /\ op'.entries = manifest \cup {EntryOfTake}
    BY <1>1, <1>2 DEF FileOp, EntryOfTake
  <1>4. Current' /\ InOnePlace'
    BY <1>0 DEF Current, InOnePlace, environment
  <1>5. Listed' /\ MadeWay' /\ Spent'
    BY <1>0, <1>1, <1>3 DEF Listed, Record, MadeWay, Spent, environment
  <1>6. OneEntryEach'
    BY <1>0, <1>1, <1>3 DEF OneEntryEach, TakeKnows, EntryOfTake
  <1>7. TakeKnows' /\ RestoreKnows' /\ PurgeKnows'
    BY <1>0, <1>1, <1>3 DEF TakeKnows, RestoreKnows, PurgeKnows, EntryOfTake
  <1>8. QED BY <1>4, <1>5, <1>6, <1>7

LEMMA TakeUndoContract ==
  ASSUME ContractInv, DurabilityInv', Handled, TakeUndo
  PROVE  ContractInv'
  <1> USE DEF ContractInv, DurabilityInv
  <1>0. /\ pc = "take_undo" /\ pc' = "idle" /\ op' = NoOp
        /\ UNCHANGED <<manifest, environment>>
    BY DEF TakeUndo, Return
  <1>1. op.kind = "take" /\ op.file \in Files /\ op.id \in Ids
    BY TakeShape
  <1>2. stored[op.id] # None /\ disk[op.file] = None
    BY <1>0, <1>1 DEF NothingAtPath, TakeKnows
  <1>3. faults = MaxFaults
    BY <1>0 DEF Spent
  <1>4. /\ disk' = [disk EXCEPT ![op.file] = stored[op.id]]
        /\ stored' = [stored EXCEPT ![op.id] = None]
    BY <1>3, ConstantsAssumption DEF TakeUndo, Fails, Handled, TypeOK
  <1>5. Current'
    BY <1>0, <1>1, <1>4 DEF Current, environment, TypeOK
  <1>6. InOnePlace'
    BY <1>0, <1>1, <1>2, <1>4, ConstantsAssumption DEF InOnePlace, TypeOK
  <1>7. Listed' /\ OneEntryEach' /\ MadeWay' /\ Spent'
    BY <1>0, <1>1, <1>3, <1>4
       DEF Listed, Record, OneEntryEach, MadeWay, Spent, environment, TypeOK, NoOp, Operation
  <1>8. TakeKnows' /\ RestoreKnows' /\ PurgeKnows'
    BY <1>0 DEF TakeKnows, RestoreKnows, PurgeKnows, NoOp, Operation
  <1>9. QED BY <1>5, <1>6, <1>7, <1>8

LEMMA RestoreBeginContract ==
  ASSUME ContractInv, DurabilityInv', Handled, NEW e \in manifest, RestoreBegin(e)
  PROVE  ContractInv'
  <1> USE DEF ContractInv, DurabilityInv
  <1>1. /\ pc = "idle" /\ pc' = "restore_move" /\ disk[e.file] = None /\ faults' = 0
        /\ op' = Operation("restore", e.file, e.id, manifest \ {e}, {})
        /\ UNCHANGED <<disk, stored, manifest, environment>>
    BY DEF RestoreBegin, Start
  <1>2. op = NoOp
    BY <1>1 DEF TypeOK, TakeSteps, RestoreSteps, PurgeSteps, WriteSteps
  <1>3. e = [id |-> e.id, file |-> e.file]
    BY DEF TypeOK, Entry
  <1>4. /\ op'.kind = "restore" /\ op'.id = e.id /\ op'.file = e.file
        /\ op'.entries = manifest \ {e} /\ op'.todo = {}
    BY <1>1 DEF Operation
  <1>5. EntryOfTake' = e
    BY <1>3, <1>4 DEF EntryOfTake
  <1>6. Current' /\ InOnePlace'
    BY <1>1 DEF Current, InOnePlace, environment
  <1>7. Listed' /\ MadeWay' /\ Spent'
    BY <1>1, <1>2 DEF Listed, Record, MadeWay, Spent, environment, NoOp, Operation
  <1>8. OneEntryEach'
    BY <1>1, <1>4 DEF OneEntryEach
  <1>9. TakeKnows' /\ RestoreKnows' /\ PurgeKnows'
    BY <1>1, <1>4, <1>5 DEF TakeKnows, RestoreKnows, PurgeKnows, WriteSteps
  <1>10. QED BY <1>6, <1>7, <1>8, <1>9

\* What restore() knows of the entry it works on.
LEMMA RestoreEntry ==
  ASSUME ContractInv, RestoreMove \/ RestoreCopy \/ RestoreRemove
  PROVE  /\ EntryOfTake \in manifest /\ op.entries = manifest \ {EntryOfTake}
         /\ stored[op.id] # None => stored[op.id] \in Content /\ stored[op.id][1] = op.file
  <1>1. op.kind = "restore" /\ op.id \in Ids
    BY RestoreShape DEF ContractInv, DurabilityInv
  <1>2. QED
    BY <1>1 DEF ContractInv, DurabilityInv, RestoreKnows, EntriesTrue, Current, RestoreMove,
                RestoreCopy, RestoreRemove

LEMMA RestoreMoveContract ==
  ASSUME ContractInv, DurabilityInv', Handled, RestoreMove
  PROVE  ContractInv'
  <1> USE DEF ContractInv, DurabilityInv
  <1>0. pc = "restore_move" /\ UNCHANGED <<manifest, op, environment>>
    BY DEF RestoreMove, Goto
  <1>1. op.kind = "restore" /\ op.file \in Files /\ op.id \in Ids
    BY RestoreShape
  <1>2. /\ EntryOfTake \in manifest /\ op.entries = manifest \ {EntryOfTake}
        /\ stored[op.id] # None => stored[op.id] \in Content /\ stored[op.id][1] = op.file
    BY RestoreEntry
  <1>3. disk[op.file] = None
    BY <1>0 DEF NothingAtPath
  <1>4. CASE pc' = "write_temporary"
    <2>1. /\ stored[op.id] # None
          /\ disk' = [disk EXCEPT ![op.file] = stored[op.id]]
          /\ stored' = [stored EXCEPT ![op.id] = None]
      BY <1>4 DEF RestoreMove, Goto
    <2>2. Current'
      BY <1>0, <1>1, <2>1 DEF Current, environment, TypeOK
    <2>3. InOnePlace'
      BY <1>0, <1>1, <1>2, <2>1, ConstantsAssumption DEF InOnePlace, TypeOK
    <2>4. Listed' /\ OneEntryEach' /\ MadeWay' /\ Spent'
      BY <1>0, <1>1, <1>4, <2>1
         DEF Listed, Record, OneEntryEach, MadeWay, Spent, environment, TypeOK
    <2>5. TakeKnows' /\ RestoreKnows' /\ PurgeKnows'
      BY <1>0, <1>1, <1>2, <1>4, <2>1
         DEF TakeKnows, RestoreKnows, PurgeKnows, EntryOfTake, TypeOK
    <2>6. QED BY <2>2, <2>3, <2>4, <2>5
  <1>5. CASE pc' = "restore_copy"
    <2>1. /\ UNCHANGED <<disk, stored>>
          /\ faults' = MaxFaults \/ stored[op.id] = None
      BY <1>5, ConstantsAssumption DEF RestoreMove, Goto, Handled, Works, Fails, TypeOK
    <2>2. Current' /\ InOnePlace'
      BY <1>0, <1>5, <2>1 DEF Current, InOnePlace, environment
    <2>3. Listed' /\ OneEntryEach' /\ MadeWay' /\ Spent'
      BY <1>0, <1>5, <2>1 DEF Listed, Record, OneEntryEach, MadeWay, Spent, environment
    <2>4. TakeKnows' /\ RestoreKnows' /\ PurgeKnows'
      BY <1>0, <1>1, <1>2, <1>5, <2>1
         DEF TakeKnows, RestoreKnows, PurgeKnows, EntryOfTake, WriteSteps
    <2>5. QED BY <2>2, <2>3, <2>4
  <1>6. QED BY <1>4, <1>5 DEF RestoreMove, Goto

LEMMA RestoreCopyContract ==
  ASSUME ContractInv, DurabilityInv', Handled, RestoreCopy
  PROVE  ContractInv'
  <1> USE DEF ContractInv, DurabilityInv
  <1>0. pc = "restore_copy" /\ UNCHANGED <<stored, manifest, environment>>
    BY DEF RestoreCopy
  <1>1. op.kind = "restore" /\ op.file \in Files /\ op.id \in Ids
    BY RestoreShape
  <1>2. /\ EntryOfTake \in manifest /\ op.entries = manifest \ {EntryOfTake}
        /\ stored[op.id] # None => stored[op.id] \in Content /\ stored[op.id][1] = op.file
    BY RestoreEntry
  <1>3. disk[op.file] = None
    BY <1>0 DEF NothingAtPath
  <1>4. CASE pc' = "restore_remove"
    <2>1. /\ stored[op.id] # None /\ faults' = faults /\ op' = op
          /\ disk' = [disk EXCEPT ![op.file] = stored[op.id]]
      BY <1>4 DEF RestoreCopy, Goto, Return, Works
    <2>6. faults' = MaxFaults
      BY <1>0, <1>1, <2>1 DEF RestoreKnows
    <2>2. Current'
      BY <1>0, <1>1, <2>1 DEF Current, environment, TypeOK
    <2>3. InOnePlace'
      BY <1>0, <1>1, <1>2, <1>4, <2>1, ConstantsAssumption DEF InOnePlace, TypeOK
    <2>4. Listed' /\ OneEntryEach' /\ MadeWay' /\ Spent'
      BY <1>0, <1>1, <1>4, <2>1, <2>6
         DEF Listed, Record, OneEntryEach, MadeWay, Spent, environment, TypeOK
    <2>5. TakeKnows' /\ RestoreKnows' /\ PurgeKnows'
      BY <1>0, <1>1, <1>2, <1>4, <2>1
         DEF TakeKnows, RestoreKnows, PurgeKnows, EntryOfTake, TypeOK, WriteSteps
    <2>7. QED BY <2>2, <2>3, <2>4, <2>5
  <1>5. CASE pc' = "idle"
    <2>1. UNCHANGED disk /\ op' = NoOp
      BY <1>5 DEF RestoreCopy, Goto, Return
    <2>2. Current' /\ InOnePlace'
      BY <1>0, <1>5, <2>1 DEF Current, InOnePlace, environment
    <2>3. Listed' /\ OneEntryEach' /\ MadeWay' /\ Spent'
      BY <1>0, <1>1, <1>5, <2>1
         DEF Listed, Record, OneEntryEach, MadeWay, Spent, environment, NoOp, Operation
    <2>4. TakeKnows' /\ RestoreKnows' /\ PurgeKnows'
      BY <2>1 DEF TakeKnows, RestoreKnows, PurgeKnows, NoOp, Operation
    <2>5. QED BY <2>2, <2>3, <2>4
  <1>6. QED BY <1>4, <1>5 DEF RestoreCopy, Goto, Return

LEMMA RestoreRemoveContract ==
  ASSUME ContractInv, DurabilityInv', Handled, RestoreRemove
  PROVE  ContractInv'
  <1> USE DEF ContractInv, DurabilityInv
  <1>0. /\ pc = "restore_remove" /\ pc' = "write_temporary" /\ op' = op
        /\ UNCHANGED <<disk, manifest, environment>>
    BY DEF RestoreRemove, Goto
  <1>1. op.kind = "restore" /\ op.file \in Files /\ op.id \in Ids
    BY RestoreShape
  <1>2. /\ EntryOfTake \in manifest /\ op.entries = manifest \ {EntryOfTake}
    BY RestoreEntry
  <1>3. faults = MaxFaults
    BY <1>0 DEF Spent
  <1>4. stored' = [stored EXCEPT ![op.id] = None]
    BY <1>3, ConstantsAssumption DEF RestoreRemove, Fails, TypeOK
  <1>5. Current'
    BY <1>0, <1>1, <1>4 DEF Current, environment, TypeOK
  <1>6. InOnePlace'
    BY <1>0, <1>1, <1>4, ConstantsAssumption DEF InOnePlace, TypeOK
  <1>7. Listed' /\ OneEntryEach' /\ MadeWay' /\ Spent'
    BY <1>0, <1>1, <1>4
       DEF Listed, Record, OneEntryEach, MadeWay, Spent, environment, TypeOK
  <1>8. TakeKnows' /\ RestoreKnows' /\ PurgeKnows'
    BY <1>0, <1>1, <1>2, <1>4
       DEF TakeKnows, RestoreKnows, PurgeKnows, EntryOfTake, TypeOK
  <1>9. QED BY <1>5, <1>6, <1>7, <1>8

LEMMA PurgeBeginContract ==
  ASSUME ContractInv, DurabilityInv', Handled, NEW cutoff \in 0..clock, PurgeBegin(cutoff)
  PROVE  ContractInv'
  <1> USE DEF ContractInv, DurabilityInv
  <1>1. /\ pc = "idle" /\ pc' = "purge_remove"
        /\ op' = Operation("purge", None, None, manifest \ Expired(cutoff),
                           {e.id : e \in Expired(cutoff)})
        /\ relinquished' = relinquished \cup
             {c \in Content : /\ \E e \in Expired(cutoff) : stored[e.id] = c
                              /\ \A f \in Files : disk[f] # c}
        /\ UNCHANGED <<disk, stored, manifest, version>>
    BY DEF PurgeBegin, Start
  <1>2. op = NoOp /\ Expired(cutoff) \subseteq manifest
    BY <1>1 DEF TypeOK, TakeSteps, RestoreSteps, PurgeSteps, WriteSteps, Expired
  <1>3. /\ op'.kind = "purge" /\ op'.entries = manifest \ Expired(cutoff)
        /\ op'.todo = {e.id : e \in Expired(cutoff)}
    BY <1>1 DEF Operation
  <1>4. \A e \in Expired(cutoff) : stored[e.id] # None => stored[e.id] \in relinquished'
    BY <1>1, <1>2 DEF Current, InOnePlace, TypeOK, Entry
  <1>5. Current' /\ InOnePlace'
    BY <1>1 DEF Current, InOnePlace
  <1>6. Listed' /\ MadeWay' /\ Spent'
    BY <1>1, <1>2 DEF Listed, Record, MadeWay, Spent, NoOp, Operation
  <1>7. OneEntryEach'
    BY <1>1, <1>3 DEF OneEntryEach
  <1>8. TakeKnows' /\ RestoreKnows'
    BY <1>3 DEF TakeKnows, RestoreKnows
  <1>9. PurgeKnows'
    BY <1>1, <1>2, <1>3, <1>4 DEF PurgeKnows, WriteSteps
  <1>10. QED BY <1>5, <1>6, <1>7, <1>8, <1>9

LEMMA PurgeRemoveContract ==
  ASSUME ContractInv, DurabilityInv', Handled, NEW i \in Ids, PurgeRemove(i)
  PROVE  ContractInv'
  <1> USE DEF ContractInv, DurabilityInv
  <1>1. /\ pc = "purge_remove" /\ i \in op.todo
        /\ pc' = IF op.todo = {i} THEN "write_temporary" ELSE "purge_remove"
        /\ UNCHANGED <<disk, manifest, environment>>
    BY DEF PurgeRemove
  <1>2. op.kind = "purge" /\ op.entries \subseteq Entry /\ op.todo \subseteq Ids
    BY <1>1, PurgeShape
  <1>3. /\ op'.kind = "purge" /\ op'.entries = op.entries
        /\ op'.todo = op.todo \ {i}
    BY <1>1, <1>2 DEF PurgeRemove, TypeOK, FileOp, PurgeOp, TakeSteps, RestoreSteps, WriteSteps
  <1>4. \/ faults' = faults /\ stored' = [stored EXCEPT ![i] = None]
        \/ faults' = MaxFaults /\ stored' = stored
    BY ConstantsAssumption DEF PurgeRemove, Works, Fails, Handled, TypeOK
  <1>5. Current'
    BY <1>1, <1>4 DEF Current, environment, TypeOK
  <1>6. InOnePlace'
    BY <1>1, <1>4, ConstantsAssumption DEF InOnePlace, TypeOK
  <1>7. Listed' /\ OneEntryEach' /\ MadeWay' /\ Spent'
    BY <1>1, <1>2, <1>3, <1>4
       DEF Listed, Record, OneEntryEach, MadeWay, Spent, environment, TypeOK
  <1>8. TakeKnows' /\ RestoreKnows'
    BY <1>3 DEF TakeKnows, RestoreKnows
  <1>9. PurgeKnows'
    <2>1. pc' \in WriteSteps => op'.todo = {}
      BY <1>1, <1>3 DEF WriteSteps
    <2>2. op'.todo \subseteq {e.id : e \in manifest \ op.entries}
      BY <1>1, <1>2, <1>3 DEF PurgeKnows
    <2>3. ASSUME NEW e \in manifest \ op.entries
          PROVE  /\ stored'[e.id] # None => stored'[e.id] \in relinquished'
                 /\ faults' < MaxFaults => e.id \in op'.todo \/ stored'[e.id] = None
      BY <1>1, <1>2, <1>3, <1>4 DEF PurgeKnows, TypeOK, Entry, environment
    <2>4. op'.entries \subseteq manifest
      BY <1>1, <1>2, <1>3 DEF PurgeKnows
    <2>5. QED BY <1>1, <1>3, <2>1, <2>2, <2>3, <2>4 DEF PurgeKnows
  <1>10. QED BY <1>5, <1>6, <1>7, <1>8, <1>9

\* The record that is about to come into force speaks of all there is to keep.
LEMMA RecordComplete ==
  ASSUME ContractInv, pc \in {"replace_record", "remove_record", "replace_again"},
         NEW i \in Ids, stored[i] # None, stored[i] \notin relinquished
  PROVE  [id |-> i, file |-> stored[i][1]] \in op.entries
  <1> USE DEF ContractInv, DurabilityInv
  <1> DEFINE entry == [id |-> i, file |-> stored[i][1]]
  <1>1. entry \in Record \/ (op.kind = "take" /\ i = op.id)
    BY DEF Listed
  <1>2. op.kind \in {"take", "restore", "purge"}
    BY DEF TypeOK, FileOp, PurgeOp
  <1>3. CASE op.kind = "take" /\ i = op.id
    <2>1. entry = EntryOfTake
      BY <1>3 DEF EntriesTrue, Current, EntryOfTake
    <2>2. EntryOfTake \in op.entries
      BY <1>3 DEF TakeKnows
    <2>3. QED BY <2>1, <2>2
  <1>4. CASE entry \in Record /\ pc = "replace_again"
    BY <1>4 DEF Record
  <1>5. CASE entry \in manifest /\ op.kind = "take" /\ pc # "replace_again"
    BY <1>5 DEF TakeKnows
  <1>6. CASE entry \in manifest /\ op.kind = "restore" /\ pc # "replace_again"
    BY <1>6 DEF RestoreKnows, EntryOfTake, WriteSteps
  <1>7. CASE entry \in manifest /\ op.kind = "purge" /\ pc # "replace_again"
    <2>1. entry.id = i
      OBVIOUS
    <2>2. QED BY <1>7, <2>1 DEF PurgeKnows
  <1>8. QED BY <1>1, <1>2, <1>3, <1>4, <1>5, <1>6, <1>7 DEF Record

LEMMA WriteTemporaryContract ==
  ASSUME ContractInv, DurabilityInv', Handled, WriteTemporary
  PROVE  ContractInv'
  <1> USE DEF ContractInv, DurabilityInv
  <1>1. pc = "write_temporary" /\ UNCHANGED <<disk, stored, manifest, environment>>
    BY DEF WriteTemporary
  <1>2. \/ op' = op /\ pc' = "replace_record"
        \/ op' = op /\ pc' = "take_undo" /\ op.kind = "take" /\ faults' = MaxFaults
        \/ op' = NoOp /\ pc' = "idle" /\ op.kind # "take"
    BY ConstantsAssumption
       DEF WriteTemporary, Goto, Handled, Fails, Wrote, Return, TypeOK
  <1>3. Current' /\ InOnePlace'
    BY <1>1 DEF Current, InOnePlace, environment
  <1>4. Listed'
    BY <1>1, <1>2 DEF Listed, Record, environment, NoOp, Operation
  <1>5. OneEntryEach' /\ MadeWay' /\ Spent'
    BY <1>1, <1>2 DEF OneEntryEach, MadeWay, Spent, NoOp, Operation
  <1>6. TakeKnows'
    BY <1>1, <1>2 DEF TakeKnows, EntryOfTake, NoOp, Operation
  <1>7. RestoreKnows'
    BY <1>1, <1>2 DEF RestoreKnows, EntryOfTake, NoOp, Operation, WriteSteps
  <1>8. CASE op' = NoOp
    BY <1>3, <1>4, <1>5, <1>6, <1>7, <1>8 DEF PurgeKnows, NoOp, Operation
  <1>9. CASE op' = op /\ pc' = "replace_record" /\ op.kind = "purge"
    <2>1. \A e \in manifest \ op.entries : stored[e.id] # None => stored[e.id] \in relinquished
      BY <1>1, <1>9 DEF PurgeKnows
    <2>2. \A e \in manifest \ op.entries : faults' < MaxFaults => stored[e.id] = None
      BY <1>1, <1>9, ConstantsAssumption
         DEF PurgeKnows, WriteSteps, WriteTemporary, Works, Wrote, Goto, Return, Fails,
             Handled, TypeOK
    <2>3. PurgeKnows'
      BY <1>1, <1>9, <2>1, <2>2 DEF PurgeKnows, WriteSteps, environment
    <2>4. QED BY <1>3, <1>4, <1>5, <1>6, <1>7, <2>3
  <1>10. CASE op' = op /\ op.kind # "purge"
    BY <1>3, <1>4, <1>5, <1>6, <1>7, <1>10 DEF PurgeKnows
  <1>11. QED BY <1>2, <1>8, <1>9, <1>10

\* The new record comes into force, at the first attempt or at the second.
LEMMA ReplacedContract ==
  ASSUME ContractInv, DurabilityInv', Handled,
         pc \in {"replace_record", "replace_again"}, manifest' = op.entries,
         pc' = "idle", op' = NoOp, UNCHANGED <<disk, stored, environment>>
  PROVE  ContractInv'
  <1> USE DEF ContractInv, DurabilityInv
  <1>1. Current' /\ InOnePlace'
    BY DEF Current, InOnePlace, environment
  <1>2. Listed'
    BY RecordComplete DEF Listed, Record, environment
  <1>3. OneEntryEach' /\ MadeWay' /\ Spent'
    BY DEF OneEntryEach, MadeWay, Spent, NoOp, Operation
  <1>4. TakeKnows' /\ RestoreKnows' /\ PurgeKnows'
    BY DEF TakeKnows, RestoreKnows, PurgeKnows, NoOp, Operation
  <1>5. QED BY <1>1, <1>2, <1>3, <1>4

LEMMA ReplaceRecordContract ==
  ASSUME ContractInv, DurabilityInv', Handled, ReplaceRecord
  PROVE  ContractInv'
  <1> USE DEF ContractInv, DurabilityInv
  <1>1. pc = "replace_record" /\ UNCHANGED <<disk, stored, environment>>
    BY DEF ReplaceRecord
  <1>2. CASE manifest' = op.entries /\ pc' = "idle" /\ op' = NoOp
    BY <1>1, <1>2, ReplacedContract
  <1>3. CASE UNCHANGED manifest /\ pc' = "remove_record" /\ op' = op /\ faults' = MaxFaults
    <2>1. Current' /\ InOnePlace'
      BY <1>1 DEF Current, InOnePlace, environment
    <2>2. Listed' /\ OneEntryEach' /\ MadeWay' /\ Spent'
      BY <1>1, <1>3 DEF Listed, Record, OneEntryEach, MadeWay, Spent, environment
    <2>3. TakeKnows' /\ RestoreKnows'
      BY <1>1, <1>3 DEF TakeKnows, RestoreKnows, EntryOfTake, WriteSteps
    <2>4. PurgeKnows'
      <3>1. CASE op.kind = "purge"
        BY <1>1, <1>3, <3>1, ConstantsAssumption DEF PurgeKnows, WriteSteps, environment, TypeOK
      <3>2. CASE op.kind # "purge"
        BY <1>3, <3>2 DEF PurgeKnows
      <3>3. QED BY <3>1, <3>2
    <2>5. QED BY <2>1, <2>2, <2>3, <2>4
  <1>4. QED
    BY <1>2, <1>3, ConstantsAssumption
       DEF ReplaceRecord, Wrote, Goto, Return, Fails, Handled, TypeOK

LEMMA RemoveRecordContract ==
  ASSUME ContractInv, DurabilityInv', Handled, RemoveRecord
  PROVE  ContractInv'
  <1> USE DEF ContractInv, DurabilityInv
  <1>1. /\ pc = "remove_record" /\ pc' = "replace_again" /\ op' = op
        /\ UNCHANGED <<disk, stored, environment>>
    BY DEF RemoveRecord, Goto
  <1>2. faults = MaxFaults
    BY <1>1 DEF Spent
  <1>3. manifest' = {} /\ faults' = MaxFaults
    BY <1>2, ConstantsAssumption DEF RemoveRecord, Works, Fails, TypeOK
  <1>4. Current' /\ InOnePlace'
    BY <1>1 DEF Current, InOnePlace, environment
  <1>5. Listed'
    BY <1>1, RecordComplete DEF Listed, Record, environment
  <1>6. OneEntryEach' /\ MadeWay' /\ Spent'
    BY <1>1, <1>3 DEF OneEntryEach, MadeWay, Spent
  <1>7. TakeKnows'
    BY <1>1, <1>3 DEF TakeKnows, EntryOfTake
  <1>8. RestoreKnows'
    BY <1>1, <1>3 DEF RestoreKnows, WriteSteps
  <1>9. PurgeKnows'
    BY <1>1, <1>3 DEF PurgeKnows, WriteSteps
  <1>10. QED BY <1>4, <1>5, <1>6, <1>7, <1>8, <1>9

LEMMA ReplaceAgainContract ==
  ASSUME ContractInv, DurabilityInv', Handled, ReplaceAgain
  PROVE  ContractInv'
  <1>1. pc = "replace_again" /\ UNCHANGED <<disk, stored, environment>>
    BY DEF ReplaceAgain
  <1>2. faults = MaxFaults /\ faults \in Int
    BY <1>1, ConstantsAssumption DEF ContractInv, DurabilityInv, Spent, TypeOK
  <1>3. manifest' = op.entries /\ pc' = "idle" /\ op' = NoOp
    BY <1>2 DEF ReplaceAgain, Wrote, Return, Fails
  <1>4. QED BY <1>1, <1>3, ReplacedContract

\* What the owner writes is new: nothing in the store equals it.
LEMMA OwnerContract ==
  ASSUME ContractInv, DurabilityInv', Handled, NEW f \in Files, OwnerWrites(f) \/ OwnerDeletes(f)
  PROVE  ContractInv'
  <1> USE DEF ContractInv, DurabilityInv
  <1>1. pc \in {"idle", "down"} /\ op = NoOp
    BY DEF OwnerWrites, OwnerDeletes, OwnerMayAct, Handled, TypeOK, TakeSteps, RestoreSteps,
           PurgeSteps, WriteSteps
  <1>2. /\ UNCHANGED <<stored, manifest, pc, op, faults>>
        /\ relinquished \subseteq relinquished'
    BY DEF OwnerWrites, OwnerDeletes
  <1>3. Current' /\ InOnePlace'
    <2>1. CASE OwnerDeletes(f)
      BY <1>1, <2>1 DEF OwnerDeletes, Current, InOnePlace, TypeOK
    <2>2. CASE OwnerWrites(f)
      <3>1. \A g \in Files : version[g] \in Int /\ version[g] <= version'[g]
        BY <2>2, ConstantsAssumption DEF OwnerWrites, TypeOK
      <3>2. \A c \in Content : c[1] \in Files /\ c[2] \in Int
        BY ConstantsAssumption DEF Content
      <3>3. version[f] + 1 \in 1..MaxVersion /\ <<f, version[f] + 1>> \in Content
        BY <2>2, <3>1, ConstantsAssumption DEF OwnerWrites, Content, TypeOK
      <3>4. disk' = [disk EXCEPT ![f] = <<f, version[f] + 1>>]
            /\ version' = [version EXCEPT ![f] = version[f] + 1]
        BY <2>2 DEF OwnerWrites
      <3>5. Current'
        <4>1. ASSUME NEW g \in Files, disk'[g] # None
              PROVE  disk'[g] \in Content /\ disk'[g][2] <= version'[disk'[g][1]]
          <5>1. CASE g = f
            BY <3>1, <3>3, <3>4, <5>1 DEF TypeOK
          <5>2. CASE g # f
            BY <3>1, <3>2, <3>4, <4>1, <5>2 DEF TypeOK, Current
          <5>3. QED BY <5>1, <5>2
        <4>2. ASSUME NEW i \in Ids, stored[i] # None
              PROVE  stored[i] \in Content /\ stored[i][2] <= version'[stored[i][1]]
          BY <3>1, <3>2, <3>4, <4>2 DEF TypeOK, Current
        <4>3. QED BY <1>2, <4>1, <4>2 DEF Current
      <3>6. \A i \in Ids : stored[i] # <<f, version[f] + 1>>
        BY <3>1, <3>3, ConstantsAssumption DEF Current
      <3>7. InOnePlace'
        BY <1>1, <1>2, <3>4, <3>6 DEF InOnePlace, TypeOK
      <3>8. QED BY <3>5, <3>7
    <2>3. QED BY <2>1, <2>2
  <1>4. Listed' /\ OneEntryEach' /\ MadeWay' /\ Spent'
    BY <1>1, <1>2 DEF Listed, Record, OneEntryEach, MadeWay, Spent
  <1>5. TakeKnows' /\ RestoreKnows' /\ PurgeKnows'
    BY <1>1, <1>2 DEF TakeKnows, RestoreKnows, PurgeKnows, NoOp, Operation
  <1>6. QED BY <1>3, <1>4, <1>5

\* A step that leaves files, record and owners alone, and the operation too, or ends it idle.
LEMMA StillContract ==
  ASSUME ContractInv, DurabilityInv',
         UNCHANGED <<disk, stored, manifest, version, relinquished>>,
         \/ UNCHANGED <<pc, op, faults>>
         \/ pc \in {"idle", "down"} /\ pc' \in {"idle", "down"} /\ op' = NoOp
  PROVE  ContractInv'
  <1> USE DEF ContractInv, DurabilityInv
  <1>1. CASE UNCHANGED <<pc, op, faults>>
    <2>1. Current' /\ InOnePlace' /\ Listed' /\ OneEntryEach'
      BY <1>1 DEF Current, InOnePlace, Listed, Record, OneEntryEach
    <2>2. TakeKnows' /\ RestoreKnows' /\ PurgeKnows' /\ Spent' /\ MadeWay'
      BY <1>1 DEF TakeKnows, RestoreKnows, PurgeKnows, Spent, MadeWay, EntryOfTake
    <2>3. QED BY <2>1, <2>2
  <1>2. CASE pc \in {"idle", "down"} /\ pc' \in {"idle", "down"} /\ op' = NoOp
    <2>0. op = NoOp
      BY <1>2 DEF TypeOK, TakeSteps, RestoreSteps, PurgeSteps, WriteSteps
    <2>1. Current' /\ InOnePlace'
      BY <1>2 DEF Current, InOnePlace
    <2>2. Listed' /\ OneEntryEach' /\ Spent' /\ MadeWay'
      BY <1>2, <2>0 DEF Listed, Record, OneEntryEach, Spent, MadeWay
    <2>3. TakeKnows' /\ RestoreKnows' /\ PurgeKnows'
      BY <1>2 DEF TakeKnows, RestoreKnows, PurgeKnows, NoOp, Operation
    <2>4. QED BY <2>1, <2>2, <2>3
  <1>3. QED BY <1>1, <1>2

LEMMA NextContract ==
  ASSUME Handled
  PROVE  ContractInv /\ [Next]_vars => ContractInv'
  <1> SUFFICES ASSUME ContractInv, [Next]_vars PROVE ContractInv'
    OBVIOUS
  <1>1. DurabilityInv'
    BY NextDurable DEF Handled, ContractInv
  <1>2. CASE UNCHANGED vars \/ Tick \/ Stop \/ Restart
    <2>1. UNCHANGED <<disk, stored, manifest, version, relinquished>>
      BY <1>2 DEF vars, environment, Tick, Stop, Restart, Return, Handled
    <2>2. \/ UNCHANGED <<pc, op, faults>>
          \/ pc \in {"idle", "down"} /\ pc' \in {"idle", "down"} /\ op' = NoOp
      BY <1>2 DEF vars, environment, Tick, Stop, Restart, Return, Handled
    <2>3. QED BY <1>1, <2>1, <2>2, StillContract
  <1>3. CASE Next
    BY <1>1, <1>2, <1>3, TakeBeginContract, TakeMoveContract, TakeCopyContract,
        TakeRemoveContract,
       TakeUncopyNever, TakeRecordContract, TakeUndoContract, RestoreBeginContract,
       RestoreMoveContract, RestoreCopyContract, RestoreRemoveContract, PurgeBeginContract,
       PurgeRemoveContract, WriteTemporaryContract, ReplaceRecordContract,
       RemoveRecordContract, ReplaceAgainContract, OwnerContract
       DEF Next
  <1>4. QED BY <1>2, <1>3

\* As long as an operation meets one failing call at most, of the kinds the code
\* has a fallback for, is not cut short, and owners and clock behave: between
\* operations whatever the store holds, and nobody gave up, can be given back.
THEOREM RemovalUndoable ==
  ASSUME Handled
  PROVE  Spec => []Undoable
  <1>1. ContractInv => Undoable
    <2> SUFFICES ASSUME ContractInv, pc \in {"idle", "down"}, NEW i \in Ids,
                        stored[i] \in Content \ relinquished
                 PROVE  [id |-> i, file |-> stored[i][1]] \in manifest
      BY DEF Undoable
    <2>1. op.kind # "take"
      BY
      DEF ContractInv, DurabilityInv, TypeOK, TakeSteps, RestoreSteps, PurgeSteps, WriteSteps,
             NoOp, Operation
    <2>2. QED BY <2>1, ConstantsAssumption DEF ContractInv, Listed, Record
  <1>2. QED BY <1>1, InitContract, NextContract, PTL DEF Spec

-----------------------------------------------------------------------------
(* The store implements its contract.  What the contract sees is the files *)
(* at the paths (HomeAt) and the entries that count (Standing); each lemma *)
(* says what one call does to them.                                        *)

\* What is at a path, for the contract.
HomeAt(f) == IF TakeUnrecorded /\ op.file = f THEN stored[op.id] ELSE disk[f]

\* The entries that count for the contract.
Standing == {e \in RecordInForce : e.id \notin Released /\ stored[e.id] # None}

VaultItem(e) == [id |-> e.id, file |-> e.file, content |-> stored[e.id]]

\* The mapped vault and the mapped home, member by member and path by path.
LEMMA VaultMembers ==
  /\ \A v : v \in VaultOfContract <=> \E e \in Standing : v = VaultItem(e)
  /\ \A e \in Standing : VaultItem(e) \in VaultOfContract
  BY DEF VaultOfContract, Standing, VaultItem

LEMMA HomeValues ==
  /\ HomeOfContract = [f \in Files |-> HomeAt(f)]
  /\ \A f \in Files : HomeOfContract[f] = HomeAt(f)
  BY DEF HomeOfContract, HomeAt

LEMMA SameVault ==
  ASSUME Standing' = Standing, \A e \in Standing : stored'[e.id] = stored[e.id]
  PROVE  VaultOfContract' = VaultOfContract
  BY DEF VaultOfContract, Standing

LEMMA SameHome ==
  ASSUME \A f \in Files : HomeAt(f)' = HomeAt(f)
  PROVE  HomeOfContract' = HomeOfContract
  BY DEF HomeOfContract, HomeAt

\* Until restore() has moved the file, and throughout take(), the whole record stands.
LEMMA WholeRecordStands ==
  ASSUME TypeOK, pc # "replace_again",
         op.kind \in {"none", "take"} \/ pc \in {"restore_move", "restore_copy"}
  PROVE  \A e : e \in Standing <=> e \in manifest /\ stored[e.id] # None
  <1>1. Released = {}
    BY DEF Released, TypeOK, NoOp, Operation, FileOp, PurgeOp, TakeSteps, PurgeSteps, WriteSteps
  <1>2. QED BY <1>1 DEF Standing, RecordInForce

\* From the moment restore() or a purge takes effect, what it will leave in the record stands.
LEMMA RestStands ==
  ASSUME ContractInv,
         \/ op.kind = "purge"
         \/ op.kind = "restore" /\ pc \notin {"restore_move", "restore_copy"}
  PROVE  \A e : e \in Standing <=> e \in op.entries /\ stored[e.id] # None
  <1> USE DEF ContractInv, DurabilityInv
  <1>1. Released = op.todo \cup {e.id : e \in manifest \ op.entries}
    BY DEF Released
  <1>2. CASE pc = "replace_again"
    <2>1. \A i : i \notin op.todo
      <3>1. CASE op.kind = "purge"
        BY <1>2, <3>1 DEF PurgeKnows, WriteSteps
      <3>2. CASE op.kind = "restore"
        BY <3>2, NothingToDo
      <3>3. QED BY <3>1, <3>2
    <2>2. \A i : i \notin Released
      BY <1>1, <1>2, <2>1 DEF MadeWay
    <2>3. QED BY <1>2, <2>2 DEF Standing, RecordInForce
  <1>3. CASE pc # "replace_again"
    <2>1. op.entries \subseteq manifest
      BY <1>3 DEF PurgeKnows, RestoreKnows
    <2>2. \A i : i \in Released <=> \E e \in manifest \ op.entries : i = e.id
      <3>1. CASE op.kind = "purge"
        BY <1>1, <1>3, <3>1 DEF PurgeKnows
      <3>2. CASE op.kind = "restore"
        BY <1>1, <3>2, NothingToDo
      <3>3. QED BY <3>1, <3>2
    <2>3. \A e \in manifest : e.id \notin Released <=> e \in op.entries
      BY <2>2 DEF OneEntryEach
    <2>4. QED BY <1>3, <2>1, <2>3 DEF Standing, RecordInForce
  <1>4. QED BY <1>2, <1>3

\* While the record is out of the way, take() leaves standing all but its own entry.
LEMMA OthersStand ==
  ASSUME TypeOK, op.kind = "take", pc = "replace_again"
  PROVE  \A e : e \in Standing <=> e \in op.entries /\ e.id # op.id /\ stored[e.id] # None
  <1>1. Released = {}
    BY DEF Released
  <1>2. QED BY <1>1 DEF Standing, RecordInForce

\* The three lemmas together, for a state and for the next one.
WhatStands ==
  /\ /\ pc # "replace_again"
     /\ op.kind \in {"none", "take"} \/ pc \in {"restore_move", "restore_copy"}
     => \A e : e \in Standing <=> e \in manifest /\ stored[e.id] # None
  /\ op.kind = "purge" \/ (op.kind = "restore" /\ pc \notin {"restore_move", "restore_copy"})
     => \A e : e \in Standing <=> e \in op.entries /\ stored[e.id] # None
  /\ op.kind = "take" /\ pc = "replace_again"
     => \A e : e \in Standing <=> e \in op.entries /\ e.id # op.id /\ stored[e.id] # None

LEMMA Stands == ContractInv => WhatStands
  <1> SUFFICES ASSUME ContractInv PROVE WhatStands
    OBVIOUS
  <1>1. TypeOK
    BY DEF ContractInv, DurabilityInv
  <1>2. QED BY <1>1, WholeRecordStands, RestStands, OthersStand DEF WhatStands

LEMMA StandsNext == ContractInv' => WhatStands'
  BY Stands, PTL

\* A step the contract does not see.
Unseen == UNCHANGED <<HomeOfContract, VaultOfContract, version, relinquished>>

\* It is enough that the standing entries and what is at each path stay.
LEMMA UnseenStep ==
  ASSUME Standing' = Standing, \A e \in Standing : stored'[e.id] = stored[e.id],
         \A f \in Files : HomeAt(f)' = HomeAt(f), UNCHANGED <<version, relinquished>>
  PROVE  Unseen
  BY SameVault, SameHome DEF Unseen

LEMMA TakeMoveUnseen ==
  ASSUME ContractInv, ContractInv', Handled, TakeMove
  PROVE  Unseen
  <1>0. pc = "take_move" /\ UNCHANGED <<manifest, op, environment>>
    BY DEF TakeMove, Goto
  <1>1. op.kind = "take" /\ op.file \in Files /\ op.id \in Ids
    BY TakeShape DEF ContractInv, DurabilityInv
  <1>2. WhatStands /\ WhatStands'
    BY Stands, StandsNext
  <1>3. \A e \in manifest : e.id \in Ids /\ e.id # op.id
    BY <1>1 DEF ContractInv, TakeKnows, DurabilityInv, TypeOK, Entry
  <1>4. CASE pc' = "take_record"
    <2>1. /\ disk[op.file] # None
          /\ stored' = [stored EXCEPT ![op.id] = disk[op.file]]
          /\ disk' = [disk EXCEPT ![op.file] = None]
      BY <1>4 DEF TakeMove, Goto
    <2>2. \A e \in manifest : stored'[e.id] = stored[e.id]
      BY <1>3, <2>1 DEF ContractInv, DurabilityInv, TypeOK
    <2>3. Standing' = Standing /\ Standing \subseteq manifest
      BY <1>0, <1>1, <1>2, <1>4, <2>2 DEF WhatStands
    <2>4. \A f \in Files : HomeAt(f)' = HomeAt(f)
      BY <1>0, <1>1, <1>4, <2>1 DEF HomeAt, TakeUnrecorded, ContractInv, DurabilityInv, TypeOK
    <2>5. QED BY <1>0, <2>2, <2>3, <2>4, UnseenStep DEF environment
  <1>5. CASE pc' = "take_copy" /\ UNCHANGED <<disk, stored>>
    <2>1. Standing' = Standing
      BY <1>0, <1>1, <1>2, <1>5 DEF WhatStands
    <2>2. \A f \in Files : HomeAt(f)' = HomeAt(f)
      BY <1>0, <1>1, <1>5 DEF HomeAt, TakeUnrecorded
    <2>3. QED BY <1>0, <1>5, <2>1, <2>2, UnseenStep DEF environment
  <1>6. QED BY <1>4, <1>5 DEF TakeMove, Goto

\* Files and record as they were, and the operation where it was or where none of them count.
LEMMA QuietUnseen ==
  ASSUME ContractInv, ContractInv', UNCHANGED <<disk, stored, manifest, version, relinquished>>,
         pc # "replace_again", pc' # "replace_again",
         op.kind \in {"none", "take"} \/ pc \in {"restore_move", "restore_copy"},
         op'.kind \in {"none", "take"} \/ pc' \in {"restore_move", "restore_copy"},
         TakeUnrecorded' = TakeUnrecorded,
         TakeUnrecorded => op'.id = op.id /\ op'.file = op.file
  PROVE  Unseen
  <1>1. WhatStands /\ WhatStands'
    BY Stands, StandsNext
  <1>2. Standing' = Standing
    BY <1>1 DEF WhatStands
  <1>3. \A f \in Files : HomeAt(f)' = HomeAt(f)
    BY DEF HomeAt
  <1>4. QED BY <1>2, <1>3, UnseenStep

LEMMA TakeCopyUnseen ==
  ASSUME ContractInv, ContractInv', Handled, TakeCopy
  PROVE  Unseen
  <1>0. pc = "take_copy" /\ UNCHANGED <<disk, manifest, environment>>
    BY DEF TakeCopy
  <1>1. op.kind = "take" /\ op.file \in Files /\ op.id \in Ids
    BY TakeShape DEF ContractInv, DurabilityInv
  <1>2. WhatStands /\ WhatStands'
    BY Stands, StandsNext
  <1>3. \A e \in manifest : e.id \in Ids /\ e.id # op.id
    BY <1>1 DEF ContractInv, TakeKnows, DurabilityInv, TypeOK, Entry
  <1>4. /\ pc' = "take_remove" /\ op' = op
        /\ stored' = [stored EXCEPT ![op.id] = disk[op.file]]
    BY <1>0, <1>1, ConstantsAssumption
       DEF TakeCopy, Goto, Fails, ContractInv, TakeKnows, Spent, DurabilityInv, TypeOK
  <1>5. \A e \in manifest : stored'[e.id] = stored[e.id]
    BY <1>3, <1>4 DEF ContractInv, DurabilityInv, TypeOK
  <1>6. Standing' = Standing /\ Standing \subseteq manifest
    BY <1>0, <1>1, <1>2, <1>4, <1>5 DEF WhatStands
  <1>7. \A f \in Files : HomeAt(f)' = HomeAt(f)
    BY <1>0, <1>4 DEF HomeAt, TakeUnrecorded
  <1>8. QED BY <1>0, <1>5, <1>6, <1>7, UnseenStep DEF environment

LEMMA TakeRemoveUnseen ==
  ASSUME ContractInv, ContractInv', Handled, TakeRemove
  PROVE  Unseen
  <1>0. pc = "take_remove" /\ UNCHANGED <<stored, manifest, environment>>
    BY DEF TakeRemove
  <1>1. op.kind = "take" /\ op.file \in Files /\ op.id \in Ids
    BY TakeShape DEF ContractInv, DurabilityInv
  <1>2. WhatStands /\ WhatStands'
    BY Stands, StandsNext
  <1>3. stored[op.id] = disk[op.file]
    BY <1>0 DEF ContractInv, DurabilityInv, BothCopies
  <1>4. /\ pc' = "take_record" /\ op' = op
        /\ disk' = [disk EXCEPT ![op.file] = None]
    BY <1>0, ConstantsAssumption
       DEF TakeRemove, Goto, Fails, ContractInv, Spent, DurabilityInv, TypeOK
  <1>5. Standing' = Standing
    BY <1>0, <1>1, <1>2, <1>4 DEF WhatStands
  <1>6. \A f \in Files : HomeAt(f)' = HomeAt(f)
    BY <1>0, <1>1, <1>3, <1>4 DEF HomeAt, TakeUnrecorded, ContractInv, DurabilityInv, TypeOK
  <1>7. QED BY <1>0, <1>5, <1>6, UnseenStep DEF environment

LEMMA TakeUndoUnseen ==
  ASSUME ContractInv, ContractInv', Handled, TakeUndo
  PROVE  Unseen
  <1>0. pc = "take_undo" /\ pc' = "idle" /\ op' = NoOp /\ UNCHANGED <<manifest, environment>>
    BY DEF TakeUndo, Return
  <1>1. op.kind = "take" /\ op.file \in Files /\ op.id \in Ids
    BY TakeShape DEF ContractInv, DurabilityInv
  <1>2. WhatStands /\ WhatStands'
    BY Stands, StandsNext
  <1>3. \A e \in manifest : e.id \in Ids /\ e.id # op.id
    BY <1>1 DEF ContractInv, TakeKnows, DurabilityInv, TypeOK, Entry
  <1>4. /\ disk' = [disk EXCEPT ![op.file] = stored[op.id]]
        /\ stored' = [stored EXCEPT ![op.id] = None]
    BY <1>0, <1>1, ConstantsAssumption
       DEF TakeUndo, Fails, Handled, ContractInv, Spent, DurabilityInv, TypeOK
  <1>5. \A e \in manifest : stored'[e.id] = stored[e.id]
    BY <1>3, <1>4 DEF ContractInv, DurabilityInv, TypeOK
  <1>6. Standing' = Standing /\ Standing \subseteq manifest
    BY <1>0, <1>1, <1>2, <1>5 DEF WhatStands, NoOp, Operation
  <1>7. \A f \in Files : HomeAt(f)' = HomeAt(f)
    BY <1>0, <1>1, <1>4
    DEF HomeAt, TakeUnrecorded, ContractInv, DurabilityInv, TypeOK, NoOp, Operation
  <1>8. QED BY <1>0, <1>5, <1>6, <1>7, UnseenStep DEF environment

\* Nothing that stands is at the place the running restore() empties.
LEMMA RestoreRemoveUnseen ==
  ASSUME ContractInv, ContractInv', Handled, RestoreRemove
  PROVE  Unseen
  <1>0. /\ pc = "restore_remove" /\ pc' = "write_temporary" /\ op' = op
        /\ UNCHANGED <<disk, manifest, environment>>
    BY DEF RestoreRemove, Goto
  <1>1. op.kind = "restore" /\ op.file \in Files /\ op.id \in Ids
    BY RestoreShape DEF ContractInv, DurabilityInv
  <1>2. WhatStands /\ WhatStands'
    BY Stands, StandsNext
  <1>3. stored' = [stored EXCEPT ![op.id] = None]
    BY <1>0, ConstantsAssumption
       DEF RestoreRemove, Fails, ContractInv, Spent, DurabilityInv, TypeOK
  <1>4. EntryOfTake \in manifest /\ op.entries = manifest \ {EntryOfTake}
    BY RestoreEntry
  <1>5. \A e \in op.entries : e.id \in Ids /\ e.id # op.id
    BY <1>4 DEF ContractInv, DurabilityInv, TypeOK, Entry, OneEntryEach, EntryOfTake
  <1>6. \A e \in op.entries : stored'[e.id] = stored[e.id]
    BY <1>3, <1>5 DEF ContractInv, DurabilityInv, TypeOK
  <1>7. Standing' = Standing /\ Standing \subseteq op.entries
    BY <1>0, <1>1, <1>2, <1>6 DEF WhatStands
  <1>8. \A f \in Files : HomeAt(f)' = HomeAt(f)
    BY <1>0, <1>1 DEF HomeAt, TakeUnrecorded
  <1>9. QED BY <1>0, <1>6, <1>7, <1>8, UnseenStep DEF environment

\* Nor at a place the purge empties.
LEMMA PurgeRemoveUnseen ==
  ASSUME ContractInv, ContractInv', Handled, NEW i \in Ids, PurgeRemove(i)
  PROVE  Unseen
  <1>0. /\ pc = "purge_remove" /\ i \in op.todo /\ UNCHANGED <<disk, manifest, environment>>
        /\ stored' = stored \/ stored' = [stored EXCEPT ![i] = None]
    BY DEF PurgeRemove
  <1>1. op.kind = "purge" /\ op.entries \subseteq Entry /\ op.todo \subseteq Ids
    BY <1>0, PurgeShape DEF ContractInv, DurabilityInv
  <1>2. op'.kind = "purge" /\ op'.entries = op.entries
    BY <1>0, <1>1
    DEF PurgeRemove, ContractInv, DurabilityInv, TypeOK, FileOp, PurgeOp, TakeSteps,
                      RestoreSteps, WriteSteps
  <1>3. WhatStands /\ WhatStands'
    BY Stands, StandsNext
  <1>4. \A e \in op.entries : e.id \in Ids /\ e.id # i
    BY <1>0, <1>1 DEF ContractInv, OneEntryEach, PurgeKnows, Entry
  <1>5. \A e \in op.entries : stored'[e.id] = stored[e.id]
    BY <1>0, <1>4 DEF ContractInv, DurabilityInv, TypeOK
  <1>6. Standing' = Standing /\ Standing \subseteq op.entries
    BY <1>1, <1>2, <1>3, <1>5 DEF WhatStands
  <1>7. \A f \in Files : HomeAt(f)' = HomeAt(f)
    BY <1>0, <1>1, <1>2 DEF HomeAt, TakeUnrecorded
  <1>8. QED BY <1>0, <1>5, <1>6, <1>7, UnseenStep DEF environment

\* A record that cannot be written leaves what stood, and only that, standing.
LEMMA WriteTemporaryUnseen ==
  ASSUME ContractInv, ContractInv', Handled, WriteTemporary
  PROVE  Unseen
  <1> USE DEF ContractInv, DurabilityInv
  <1>1. pc = "write_temporary" /\ UNCHANGED <<disk, stored, manifest, environment>>
    BY DEF WriteTemporary
  <1>2. \/ op' = op /\ pc' = "replace_record"
        \/ op' = op /\ pc' = "take_undo" /\ op.kind = "take"
        \/ op' = NoOp /\ pc' = "idle" /\ op.kind # "take" /\ faults < MaxFaults
    BY DEF WriteTemporary, Goto, Handled, Fails, Wrote, Return
  <1>3. op.kind \in {"take", "restore", "purge"}
    BY <1>1 DEF TypeOK, FileOp, PurgeOp
  <1>4. CASE op.kind = "take"
    BY <1>1, <1>2, <1>4, QuietUnseen DEF TakeUnrecorded, environment
  <1>5. CASE op.kind # "take"
    <2>1. WhatStands /\ WhatStands'
      BY Stands, StandsNext
    <2>2. \A e : e \in Standing <=> e \in op.entries /\ stored[e.id] # None
      BY <1>1, <1>3, <1>5, <2>1 DEF WhatStands
    <2>3. Standing' = Standing
      <3>1. CASE op' = op /\ pc' = "replace_record"
        BY <1>1, <1>3, <1>5, <2>1, <2>2, <3>1 DEF WhatStands
      <3>2. CASE op' = NoOp /\ pc' = "idle" /\ faults < MaxFaults
        <4>1. \A e : e \in Standing' <=> e \in manifest /\ stored[e.id] # None
          BY <1>1, <2>1, <3>2 DEF WhatStands, NoOp, Operation
        <4>2. op.entries \subseteq manifest
          BY <1>1, <1>3, <1>5 DEF PurgeKnows, RestoreKnows
        <4>3. \A e \in manifest \ op.entries : stored[e.id] = None
          <5>1. CASE op.kind = "purge"
            BY <1>1, <3>2, <5>1 DEF PurgeKnows, WriteSteps
          <5>2. CASE op.kind = "restore"
            BY <1>1, <5>2 DEF RestoreKnows, WriteSteps, EntryOfTake
          <5>3. QED BY <1>3, <1>5, <5>1, <5>2
        <4>4. QED BY <2>2, <4>1, <4>2, <4>3
      <3>3. QED BY <1>2, <1>5, <3>1, <3>2
    <2>4. \A f \in Files : HomeAt(f)' = HomeAt(f)
      BY <1>1, <1>2, <1>5 DEF HomeAt, TakeUnrecorded, NoOp, Operation
    <2>5. QED BY <1>1, <2>3, <2>4, UnseenStep DEF environment
  <1>6. QED BY <1>4, <1>5

\* While restore() or a purge writes the record, what it leaves stands already.
LEMMA ReplacedUnseen ==
  ASSUME ContractInv, ContractInv', op.kind # "take",
         pc \in {"replace_record", "replace_again"}, manifest' = op.entries,
         pc' = "idle", op' = NoOp, UNCHANGED <<disk, stored, environment>>
  PROVE  Unseen
  <1>1. op.kind \in {"restore", "purge"}
    BY DEF ContractInv, DurabilityInv, TypeOK, FileOp, PurgeOp
  <1>2. WhatStands /\ WhatStands'
    BY Stands, StandsNext
  <1>3. Standing' = Standing
    BY <1>1, <1>2 DEF WhatStands, NoOp, Operation
  <1>4. \A f \in Files : HomeAt(f)' = HomeAt(f)
    BY DEF HomeAt, TakeUnrecorded, NoOp, Operation
  <1>5. QED BY <1>3, <1>4, UnseenStep DEF environment

LEMMA RemoveRecordUnseen ==
  ASSUME ContractInv, ContractInv', Handled, RemoveRecord
  PROVE  Unseen
  <1>1. /\ pc = "remove_record" /\ pc' = "replace_again" /\ op' = op
        /\ UNCHANGED <<disk, stored, environment>>
    BY DEF RemoveRecord, Goto
  <1>2. op.kind \in {"take", "restore", "purge"}
    BY <1>1 DEF ContractInv, DurabilityInv, TypeOK, FileOp, PurgeOp
  <1>3. WhatStands /\ WhatStands'
    BY Stands, StandsNext
  <1>4. CASE op.kind = "take"
    <2>1. op.entries = manifest \cup {EntryOfTake} /\ \A e \in manifest : e.id # op.id
      BY <1>1, <1>4 DEF ContractInv, TakeKnows
    <2>2. Standing' = Standing
      <3>1. EntryOfTake.id = op.id
        BY DEF EntryOfTake
      <3>2. \A e : e \in op.entries /\ e.id # op.id <=> e \in manifest
        BY <2>1, <3>1
      <3>3. \A e : e \in Standing <=> e \in manifest /\ stored[e.id] # None
        BY <1>1, <1>3, <1>4 DEF WhatStands
      <3>4. \A e : e \in Standing' <=> e \in op.entries /\ e.id # op.id /\ stored[e.id] # None
        BY <1>1, <1>3, <1>4 DEF WhatStands
      <3>5. QED BY <3>2, <3>3, <3>4
    <2>3. \A f \in Files : HomeAt(f)' = HomeAt(f)
      BY <1>1, <1>4 DEF HomeAt, TakeUnrecorded
    <2>4. QED BY <1>1, <2>2, <2>3, UnseenStep DEF environment
  <1>5. CASE op.kind # "take"
    <2>1. Standing' = Standing
      BY <1>1, <1>2, <1>3, <1>5 DEF WhatStands
    <2>2. \A f \in Files : HomeAt(f)' = HomeAt(f)
      BY <1>1, <1>5 DEF HomeAt, TakeUnrecorded
    <2>3. QED BY <1>1, <2>1, <2>2, UnseenStep DEF environment
  <1>6. QED BY <1>4, <1>5

LEMMA ReplaceFailsUnseen ==
  ASSUME ContractInv, ContractInv', pc = "replace_record", pc' = "remove_record", op' = op,
         UNCHANGED <<disk, stored, manifest, environment>>
  PROVE  Unseen
  <1>1. op.kind \in {"take", "restore", "purge"}
    BY DEF ContractInv, DurabilityInv, TypeOK, FileOp, PurgeOp
  <1>2. WhatStands /\ WhatStands'
    BY Stands, StandsNext
  <1>3. Standing' = Standing
    BY <1>1, <1>2 DEF WhatStands
  <1>4. \A f \in Files : HomeAt(f)' = HomeAt(f)
    BY DEF HomeAt, TakeUnrecorded
  <1>5. QED BY <1>3, <1>4, UnseenStep DEF environment

\* take() takes effect when the record with its entry is in force.
LEMMA RecordedSeen ==
  ASSUME ContractInv, ContractInv', op.kind = "take",
         pc \in {"replace_record", "replace_again"}, manifest' = op.entries,
         pc' = "idle", op' = NoOp, UNCHANGED <<disk, stored, environment>>
  PROVE  Contract!Take(op.file, op.id) /\ op.file \in Files /\ op.id \in Ids
  <1> USE DEF ContractInv, DurabilityInv
  <1>1. op.file \in Files /\ op.id \in Ids
    BY DEF TypeOK, FileOp, PurgeOp, NoOp, Operation
  <1>2. WhatStands /\ WhatStands'
    BY Stands, StandsNext
  <1>3. TakeUnrecorded /\ ~TakeUnrecorded'
    BY DEF TakeUnrecorded, NoOp, Operation
  <1>4. stored[op.id] # None /\ op.file \notin Protected /\ disk[op.file] = None
    BY DEF TakeKnows, NothingAtPath, WriteSteps
  <1>5. EntryOfTake \in op.entries
    BY DEF TakeKnows
  <1>6. EntryOfTake.id = op.id /\ EntryOfTake.file = op.file
    BY DEF EntryOfTake
  <1>7. \A e : e \in Standing' <=> e \in op.entries /\ stored[e.id] # None
    BY <1>2 DEF WhatStands, NoOp, Operation
  <1>8. \A e : e \in Standing <=> e \in op.entries /\ e.id # op.id /\ stored[e.id] # None
    <2>1. CASE pc = "replace_again"
      BY <1>2, <2>1 DEF WhatStands
    <2>2. CASE pc = "replace_record"
      <3>1. op.entries = manifest \cup {EntryOfTake} /\ \A e \in manifest : e.id # op.id
        BY <2>2 DEF TakeKnows
      <3>2. \A e : e \in Standing <=> e \in manifest /\ stored[e.id] # None
        BY <1>2, <2>2 DEF WhatStands
      <3>3. QED BY <1>6, <3>1, <3>2
    <2>3. QED BY <2>1, <2>2
  <1>9. \A e : e \in Standing' <=> e \in Standing \/ e = EntryOfTake
    BY <1>4, <1>5, <1>6, <1>7, <1>8 DEF OneEntryEach
  <1>10. \A f \in Files : HomeOfContract[f] = HomeAt(f)
    BY HomeValues
  <1>11. HomeOfContract[op.file] = stored[op.id]
    BY <1>1, <1>3, <1>10 DEF HomeAt
  <1>12. \A v \in VaultOfContract : v.id # op.id
    BY <1>8, VaultMembers DEF VaultItem
  <1>13. VaultOfContract' = VaultOfContract \cup
            {[id |-> op.id, file |-> op.file, content |-> HomeOfContract[op.file]]}
    <2>1. \A v : v \in VaultOfContract' <=> \E e \in Standing' : v = VaultItem(e)
      BY VaultMembers, <1>9 DEF VaultOfContract, Standing, VaultItem
    <2>2. VaultItem(EntryOfTake) =
            [id |-> op.id, file |-> op.file, content |-> HomeOfContract[op.file]]
      BY <1>6, <1>11 DEF VaultItem
    <2>3. QED BY <1>9, <2>1, <2>2, VaultMembers
  <1>14. HomeOfContract' = [HomeOfContract EXCEPT ![op.file] = None]
    <2>1. HomeOfContract' = [f \in Files |-> disk[f]]
      BY <1>3 DEF HomeOfContract
    <2>2. HomeOfContract = [f \in Files |-> IF f = op.file THEN stored[op.id] ELSE disk[f]]
      BY <1>3 DEF HomeOfContract
    <2>3. QED BY <1>1, <1>4, <2>1, <2>2
  <1>15. QED
    BY <1>1, <1>4, <1>11, <1>12, <1>13, <1>14 DEF Contract!Take, environment

\* restore() takes effect when the file is back at its path.
LEMMA GivenBackSeen ==
  ASSUME ContractInv, ContractInv', RestoreMove \/ RestoreCopy, stored[op.id] # None,
         disk' = [disk EXCEPT ![op.file] = stored[op.id]],
         stored' = stored \/ stored' = [stored EXCEPT ![op.id] = None],
         pc' \in {"write_temporary", "restore_remove"}, op' = op,
         UNCHANGED <<manifest, environment>>
  PROVE  \E v \in VaultOfContract : Contract!Restore(v)
  <1> USE DEF ContractInv, DurabilityInv
  <1>1. op.kind = "restore" /\ op.file \in Files /\ op.id \in Ids
    BY RestoreShape
  <1>2. pc \in {"restore_move", "restore_copy"}
    BY DEF RestoreMove, RestoreCopy
  <1>3. WhatStands /\ WhatStands'
    BY Stands, StandsNext
  <1>4. EntryOfTake \in manifest /\ op.entries = manifest \ {EntryOfTake}
    BY RestoreEntry
  <1>5. EntryOfTake.id = op.id /\ EntryOfTake.file = op.file
    BY DEF EntryOfTake
  <1>6. \A e : e \in Standing <=> e \in manifest /\ stored[e.id] # None
    BY <1>2, <1>3 DEF WhatStands
  <1>7. \A e \in manifest \ {EntryOfTake} : e.id \in Ids /\ e.id # op.id
    BY <1>4, <1>5 DEF OneEntryEach, TypeOK, Entry
  <1>8. \A e \in manifest \ {EntryOfTake} : stored'[e.id] = stored[e.id]
    BY <1>7 DEF TypeOK
  <1>9. \A e : e \in Standing' <=> e \in manifest \ {EntryOfTake} /\ stored'[e.id] # None
    BY <1>1, <1>2, <1>3, <1>4 DEF WhatStands
  <1>10. EntryOfTake \in Standing /\ Standing' = Standing \ {EntryOfTake}
    BY <1>4, <1>5, <1>6, <1>8, <1>9
  <1>11. disk[op.file] = None
    BY <1>2 DEF NothingAtPath
  <1>12. ~TakeUnrecorded /\ ~TakeUnrecorded'
    BY <1>1 DEF TakeUnrecorded
  <1>13. HomeOfContract = [f \in Files |-> disk[f]] /\ HomeOfContract' = [f \in Files |-> disk'[f]]
    BY <1>12 DEF HomeOfContract
  <1> DEFINE back == VaultItem(EntryOfTake)
  <1>14. /\ back \in VaultOfContract
         /\ back.file = op.file /\ back.content = stored[op.id] /\ back.id = op.id
    BY <1>5, <1>10, VaultMembers DEF VaultItem
  <1>15. HomeOfContract[back.file] = None
    BY <1>1, <1>11, <1>13, <1>14
  <1>16. HomeOfContract' = [HomeOfContract EXCEPT ![back.file] = back.content]
    BY <1>1, <1>13, <1>14 DEF TypeOK
  <1>17. VaultOfContract' = VaultOfContract \ {back}
    <2>1. \A v : v \in VaultOfContract' <=> \E e \in Standing' : v = VaultItem(e)
      <3>1. \A e \in Standing' : stored'[e.id] = stored[e.id]
        BY <1>8, <1>9
      <3>2. QED BY <3>1 DEF VaultOfContract, Standing, VaultItem
    <2>2. \A e \in Standing' : VaultItem(e).id # op.id
      BY <1>7, <1>9 DEF VaultItem
    <2>3. ASSUME NEW v \in VaultOfContract' PROVE v \in VaultOfContract \ {back}
      BY <1>10, <1>14, <2>1, <2>2, VaultMembers
    <2>4. ASSUME NEW v \in VaultOfContract \ {back} PROVE v \in VaultOfContract'
      BY <1>10, <2>1, VaultMembers
    <2>5. QED BY <2>3, <2>4
  <1> HIDE DEF back
  <1>18. Contract!Restore(back)
    BY <1>15, <1>16, <1>17 DEF Contract!Restore, environment
  <1>19. QED BY <1>14, <1>18

\* A purge takes effect when it starts: on what has expired, or on nothing.
LEMMA PurgeBeginSeen ==
  ASSUME ContractInv, ContractInv', NEW cutoff \in 0..clock, PurgeBegin(cutoff)
  PROVE  Unseen \/ \E i \in Ids : Contract!Purge(i[1] + 1)
  <1> USE DEF ContractInv, DurabilityInv
  <1>1. /\ pc = "idle" /\ pc' = "purge_remove"
        /\ op' = Operation("purge", None, None, manifest \ Expired(cutoff),
                           {e.id : e \in Expired(cutoff)})
        /\ relinquished' = relinquished \cup
             {c \in Content : /\ \E e \in Expired(cutoff) : stored[e.id] = c
                              /\ \A f \in Files : disk[f] # c}
        /\ UNCHANGED <<disk, stored, manifest, version>>
    BY DEF PurgeBegin, Start
  <1>2. op = NoOp
    BY <1>1 DEF TypeOK, TakeSteps, RestoreSteps, PurgeSteps, WriteSteps
  <1>3. op'.kind = "purge" /\ op'.entries = manifest \ Expired(cutoff)
    BY <1>1 DEF Operation
  <1>4. \A e : e \in Expired(cutoff) <=> e \in manifest /\ e.id[1] < cutoff
    BY DEF Expired
  <1>5. WhatStands /\ WhatStands'
    BY Stands, StandsNext
  <1>6. \A e : e \in Standing <=> e \in manifest /\ stored[e.id] # None
    BY <1>1, <1>2, <1>5 DEF WhatStands, NoOp, Operation
  <1>7. \A e : e \in Standing' <=> e \in Standing /\ e \notin Expired(cutoff)
    BY <1>1, <1>3, <1>5, <1>6 DEF WhatStands
  <1>8. \A f \in Files : HomeAt(f)' = HomeAt(f)
    BY <1>1, <1>2, <1>3 DEF HomeAt, TakeUnrecorded, NoOp, Operation
  <1>9. HomeOfContract' = HomeOfContract
    BY <1>8, SameHome
  <1> DEFINE expired == {v \in VaultOfContract : v.id[1] < cutoff}
  <1>10. \A e \in Standing : VaultItem(e) \in expired <=> e \in Expired(cutoff)
    BY <1>4, <1>6, VaultMembers DEF VaultItem
  <1>11. \A v : v \in VaultOfContract' <=> \E e \in Standing' : v = VaultItem(e)
    BY <1>1 DEF VaultOfContract, Standing, VaultItem
  <1>12. VaultOfContract' = VaultOfContract \ expired
    BY <1>7, <1>10, <1>11, VaultMembers
  <1>13. relinquished' = relinquished \cup {v.content : v \in expired}
    <2>1. ASSUME NEW c, c \in Content, NEW e \in Expired(cutoff), stored[e.id] = c
          PROVE  c \in {v.content : v \in expired}
      <3>1. e \in Standing
        BY <1>4, <1>6, <2>1, ConstantsAssumption
      <3>2. VaultItem(e) \in expired /\ VaultItem(e).content = c
        BY <1>10, <2>1, <3>1 DEF VaultItem
      <3>3. QED BY <3>2
    <2>2. ASSUME NEW v \in expired
          PROVE  /\ v.content \in Content
                 /\ \E e \in Expired(cutoff) : stored[e.id] = v.content
                 /\ \A f \in Files : disk[f] # v.content
      <3>1. PICK e \in Standing : v = VaultItem(e)
        BY VaultMembers
      <3>2. e \in Expired(cutoff) /\ v.content = stored[e.id] /\ stored[e.id] # None /\ e.id \in Ids
        BY <1>6, <1>10, <3>1 DEF VaultItem, TypeOK, Entry
      <3>3. QED BY <1>1, <3>2 DEF Current, InOnePlace
    <2>3. QED BY <1>1, <2>1, <2>2
  <1>14. CASE expired = {}
    <2>1. VaultOfContract' = VaultOfContract
      BY <1>12, <1>14
    <2>2. relinquished' = relinquished
      BY <1>13, <1>14
    <2>3. QED BY <1>1, <1>9, <2>1, <2>2 DEF Unseen
  <1>15. CASE expired # {}
    <2>1. PICK v \in expired : TRUE
      BY <1>15
    <2>2. PICK e \in Standing : v = VaultItem(e)
      BY <2>1, VaultMembers
    <2>3. e.id \in Ids /\ e.id[1] < cutoff
      BY <1>6, <2>1, <2>2 DEF VaultItem, TypeOK, Entry
    <2>4. cutoff - 1 \in 0..MaxClock /\ (cutoff - 1) + 1 = cutoff
      BY <2>3, ConstantsAssumption DEF Ids, TypeOK
    <2>5. <<cutoff - 1, e.id[2]>> \in Ids
      BY <2>3, <2>4, ConstantsAssumption DEF Ids
    <2>6. Contract!Purge(cutoff)
      BY <1>1, <1>9, <1>12, <1>13, <1>15 DEF Contract!Purge
    <2>7. QED BY <2>4, <2>5, <2>6
  <1>16. QED BY <1>14, <1>15

\* The owner acts in the contract as in the store.
LEMMA OwnerSeen ==
  ASSUME ContractInv, ContractInv', Handled, NEW f \in Files, OwnerWrites(f) \/ OwnerDeletes(f)
  PROVE  Contract!OwnerWrites(f) \/ Contract!OwnerDeletes(f)
  <1> USE DEF ContractInv, DurabilityInv
  <1>1. pc \in {"idle", "down"} /\ op = NoOp
    BY DEF OwnerWrites, OwnerDeletes, OwnerMayAct, Handled, TypeOK, TakeSteps, RestoreSteps,
           PurgeSteps, WriteSteps
  <1>2. UNCHANGED <<stored, manifest, pc, op>>
    BY DEF OwnerWrites, OwnerDeletes
  <1>3. Standing' = Standing /\ VaultOfContract' = VaultOfContract
    BY <1>2 DEF Standing, VaultOfContract, RecordInForce, Released
  <1>4. ~TakeUnrecorded /\ ~TakeUnrecorded'
    BY <1>1, <1>2 DEF TakeUnrecorded, NoOp, Operation
  <1>5. HomeOfContract = [g \in Files |-> disk[g]] /\ HomeOfContract' = [g \in Files |-> disk'[g]]
    BY <1>4 DEF HomeOfContract
  <1>6. HomeOfContract[f] = disk[f]
    BY <1>5
  <1>7. CASE OwnerWrites(f)
    <2>1. HomeOfContract' = [HomeOfContract EXCEPT ![f] = <<f, version[f] + 1>>]
      BY <1>5, <1>7 DEF OwnerWrites, TypeOK
    <2>2. QED BY <1>3, <1>6, <1>7, <2>1 DEF OwnerWrites, Contract!OwnerWrites
  <1>8. CASE OwnerDeletes(f)
    <2>1. HomeOfContract' = [HomeOfContract EXCEPT ![f] = None]
      BY <1>5, <1>8 DEF OwnerDeletes, TypeOK
    <2>2. QED BY <1>3, <1>6, <1>8, <2>1 DEF OwnerDeletes, Contract!OwnerDeletes
  <1>9. QED BY <1>7, <1>8

LEMMA InitSeen == Init => Contract!Init
  <1> SUFFICES ASSUME Init PROVE Contract!Init
    OBVIOUS
  <1>1. HomeOfContract = [f \in Files |-> <<f, 1>>]
    BY DEF Init, HomeOfContract, TakeUnrecorded, NoOp, Operation
  <1>2. \A v : v \notin VaultOfContract
    BY DEF Init, VaultOfContract, RecordInForce
  <1>3. VaultOfContract = {}
    BY <1>2
  <1>4. QED BY <1>1, <1>3 DEF Init, Contract!Init

\* A call of restore() either gives the file back, or is not seen.
LEMMA RestoreSeen ==
  ASSUME ContractInv, ContractInv', Handled, RestoreMove \/ RestoreCopy
  PROVE  Unseen \/ \E v \in VaultOfContract : Contract!Restore(v)
  <1>1. UNCHANGED <<manifest, environment>>
    BY DEF RestoreMove, RestoreCopy
  <1>2. CASE pc' \in {"write_temporary", "restore_remove"}
    BY <1>1, <1>2, GivenBackSeen DEF RestoreMove, RestoreCopy, Goto, Return
  <1>3. CASE pc' \in {"restore_copy", "idle"}
    <2>1. /\ UNCHANGED <<disk, stored>>
          /\ pc' = "restore_copy" \/ op' = NoOp
          /\ pc \in {"restore_move", "restore_copy"}
      BY <1>3 DEF RestoreMove, RestoreCopy, Goto, Return
    <2>2. op.kind = "restore"
      BY RestoreShape DEF ContractInv, DurabilityInv
    <2>3. op'.kind \in {"none", "take"} \/ pc' \in {"restore_move", "restore_copy"}
      BY <2>1 DEF NoOp, Operation
    <2>4. ~TakeUnrecorded /\ TakeUnrecorded' = TakeUnrecorded
      BY <2>1, <2>2 DEF TakeUnrecorded, RestoreMove, RestoreCopy, Goto, NoOp, Operation, Return
    <2>5. QED BY <1>1, <1>3, <2>1, <2>3, <2>4, QuietUnseen DEF environment
  <1>4. QED BY <1>2, <1>3 DEF RestoreMove, RestoreCopy, Goto, Return

\* Nor is a call of the record, but the one that puts the entry of take() in force.
LEMMA WriteSeen ==
  ASSUME ContractInv, ContractInv', Handled, ReplaceRecord \/ ReplaceAgain
  PROVE  Unseen \/ \E f \in Files, i \in Ids : Contract!Take(f, i)
  <1>1. pc \in {"replace_record", "replace_again"} /\ UNCHANGED <<disk, stored, environment>>
    BY DEF ReplaceRecord, ReplaceAgain
  <1>2. CASE manifest' = op.entries /\ pc' = "idle" /\ op' = NoOp
    BY <1>1, <1>2, RecordedSeen, ReplacedUnseen
  <1>3. CASE pc = "replace_record" /\ UNCHANGED manifest /\ pc' = "remove_record" /\ op' = op
    BY <1>1, <1>3, ReplaceFailsUnseen
  <1>4. CASE ReplaceRecord
    BY <1>2, <1>3, <1>4 DEF ReplaceRecord, Wrote, Goto, Return
  <1>5. CASE ReplaceAgain
    <2>1. faults = MaxFaults /\ faults \in Int
      BY <1>5, ConstantsAssumption DEF ReplaceAgain, ContractInv, DurabilityInv, Spent, TypeOK
    <2>2. QED BY <1>2, <1>5, <2>1 DEF ReplaceAgain, Wrote, Return, Fails
  <1>6. QED BY <1>4, <1>5

\* The first calls of take() and restore(), and what happens around the store.
LEMMA BeginUnseen ==
  ASSUME ContractInv, ContractInv', Handled,
         \/ UNCHANGED vars \/ Tick \/ Stop \/ Restart
         \/ \E f \in Files : TakeBegin(f)
         \/ \E e \in manifest : RestoreBegin(e)
         \/ TakeRecord
  PROVE  Unseen
  <1>1. CASE UNCHANGED vars \/ Tick
    BY <1>1
    DEF vars, environment, Tick, Unseen, HomeOfContract, VaultOfContract, TakeUnrecorded,
                RecordInForce, Released
  <1>2. CASE Stop \/ Restart
    <2>1. /\ UNCHANGED <<disk, stored, manifest, version, relinquished>>
          /\ pc \in {"idle", "down"} /\ pc' \in {"idle", "down"} /\ op' = NoOp
      BY <1>2 DEF environment, Stop, Restart, Return, Handled
    <2>2. op = NoOp
      BY <2>1
      DEF ContractInv, DurabilityInv, TypeOK, TakeSteps, RestoreSteps, PurgeSteps, WriteSteps
    <2>3. QED BY <2>1, <2>2, QuietUnseen DEF TakeUnrecorded, NoOp, Operation
  <1>3. CASE \E f \in Files : TakeBegin(f)
    <2> PICK f \in Files : TakeBegin(f) BY <1>3
    <2>1. /\ pc = "idle" /\ pc' = "take_move" /\ op'.kind = "take"
          /\ UNCHANGED <<disk, stored, manifest, version, relinquished>>
      BY DEF TakeBegin, Start, Operation
    <2>2. op = NoOp
      BY <2>1
      DEF ContractInv, DurabilityInv, TypeOK, TakeSteps, RestoreSteps, PurgeSteps, WriteSteps
    <2>3. QED BY <2>1, <2>2, QuietUnseen DEF TakeUnrecorded, NoOp, Operation
  <1>4. CASE \E e \in manifest : RestoreBegin(e)
    <2> PICK e \in manifest : RestoreBegin(e) BY <1>4
    <2>1. /\ pc = "idle" /\ pc' = "restore_move" /\ op'.kind = "restore"
          /\ UNCHANGED <<disk, stored, manifest, version, relinquished>>
      BY DEF RestoreBegin, Start, Operation, environment
    <2>2. op = NoOp
      BY <2>1
      DEF ContractInv, DurabilityInv, TypeOK, TakeSteps, RestoreSteps, PurgeSteps, WriteSteps
    <2>3. QED BY <2>1, <2>2, QuietUnseen DEF TakeUnrecorded, NoOp, Operation
  <1>5. CASE TakeRecord
    <2>1. op.kind = "take" /\ op \in FileOp("take")
      BY <1>5, TakeShape
      DEF ContractInv, DurabilityInv, TakeRecord, TypeOK, RestoreSteps, PurgeSteps,
                             WriteSteps
    <2>2. /\ pc = "take_record" /\ pc' = "write_temporary"
          /\ UNCHANGED <<disk, stored, manifest, environment>>
      BY <1>5 DEF TakeRecord
    <2>3. op'.kind = "take" /\ op'.id = op.id /\ op'.file = op.file
      BY <1>5, <2>1 DEF TakeRecord, FileOp
    <2>4. QED BY <2>1, <2>2, <2>3, QuietUnseen DEF TakeUnrecorded, environment
  <1>6. QED BY <1>1, <1>2, <1>3, <1>4, <1>5

\* Every step of the store is a step of the contract, or one it does not see.
LEMMA StepSeen ==
  ASSUME Handled
  PROVE  ContractInv /\ ContractInv' /\ [Next]_vars => [Contract!Next]_(Contract!vars)
  <1> SUFFICES ASSUME ContractInv, ContractInv', [Next]_vars
               PROVE  Contract!Next \/ UNCHANGED Contract!vars
    OBVIOUS
  <1>1. CASE Unseen
    BY <1>1 DEF Unseen, Contract!vars
  <1>2. CASE \E f \in Files : OwnerWrites(f) \/ OwnerDeletes(f)
    BY <1>2, OwnerSeen DEF Contract!Next
  <1>3. CASE RestoreMove \/ RestoreCopy
    BY <1>1, <1>3, RestoreSeen DEF Contract!Next
  <1>4. CASE ReplaceRecord \/ ReplaceAgain
    BY <1>1, <1>4, WriteSeen DEF Contract!Next
  <1>5. CASE \E cutoff \in 0..clock : PurgeBegin(cutoff)
    BY <1>1, <1>5, PurgeBeginSeen DEF Contract!Next
  <1>6. CASE \/ UNCHANGED vars \/ Tick \/ Stop \/ Restart
             \/ \E f \in Files : TakeBegin(f)
             \/ \E e \in manifest : RestoreBegin(e)
             \/ TakeRecord
    BY <1>1, <1>6, BeginUnseen
  <1>7. CASE \/ TakeMove \/ TakeCopy \/ TakeRemove \/ TakeUncopy \/ TakeUndo \/ RestoreRemove
             \/ (\E i \in Ids : PurgeRemove(i)) \/ WriteTemporary \/ RemoveRecord
    BY <1>1, <1>7, TakeMoveUnseen, TakeCopyUnseen, TakeRemoveUnseen, TakeUncopyNever,
        TakeUndoUnseen,
       RestoreRemoveUnseen, PurgeRemoveUnseen, WriteTemporaryUnseen, RemoveRecordUnseen
  <1>8. QED BY <1>2, <1>3, <1>4, <1>5, <1>6, <1>7 DEF Next

\* Under the same assumptions every behaviour of the detailed store, seen through
\* the mapping of QuarantineRefinement, is a behaviour of its contract: take(),
\* restore() and purge_older_than() happen at once or not at all.
THEOREM StoreKeepsContract ==
  ASSUME Handled
  PROVE  Spec => ImplementsContract
  <1>1. ContractInv /\ ContractInv' /\ [Next]_vars => [Contract!Next]_(Contract!vars)
    BY StepSeen
  <1>2. ContractInv /\ [Next]_vars => ContractInv'
    BY NextContract
  <1>3. QED
    BY <1>1, <1>2, InitContract, InitSeen, PTL DEF Spec, ImplementsContract, Contract!Spec
=============================================================================
