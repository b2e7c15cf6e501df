------------------------- MODULE QuarantineRefinement -------------------------
(***************************************************************************)
(* The detailed store implements its contract as long as an operation      *)
(* meets at most one failing call, of the kinds the code has a fallback    *)
(* for, and is not cut short.                                              *)
(*                                                                         *)
(* take() takes effect when the new record is in place, restore() and      *)
(* purge_older_than() on their first successful move, copy or start.       *)
(***************************************************************************)
EXTENDS QuarantineStore

\* The running take() has moved the file and not yet recorded it.
TakeUnrecorded ==
  op.kind = "take" /\ pc \notin {"take_move", "take_copy", "take_remove", "take_uncopy"}

\* Ids whose files no longer count as kept although they may still be listed.
Released ==
  IF op.kind = "purge" \/ pc = "restore_remove"
     \/ (op.kind = "restore" /\ pc \notin {"restore_move", "restore_copy"})
  THEN op.todo \cup {e.id : e \in manifest \ op.entries}
  ELSE {}

\* The record in force: while it is removed to make way for the new one, the
\* entries the operation does not touch.
RecordInForce ==
  IF pc = "replace_again" THEN {e \in op.entries : op.kind # "take" \/ e.id # op.id}
                          ELSE manifest

HomeOfContract ==
  [f \in Files |-> IF TakeUnrecorded /\ op.file = f THEN stored[op.id] ELSE disk[f]]

VaultOfContract ==
  {[id |-> e.id, file |-> e.file, content |-> stored[e.id]] :
     e \in {e \in RecordInForce : e.id \notin Released /\ stored[e.id] # None}}

Contract == INSTANCE QuarantineContract
              WITH home <- HomeOfContract, vault <- VaultOfContract

\* "enquanto o arquivo esta aqui, a remocao pode ser desfeita": take, restore
\* and purge behave as single indivisible steps, a failed one as no step at all.
ImplementsContract == Contract!Spec
-----------------------------------------------------------------------------
(***************************************************************************)
(* The inductive invariant behind Undoable and the refinement: what each   *)
(* operation knows of the store and of the record at each of its calls.    *)
(***************************************************************************)

\* The provisos of the contract: one failing call per operation, of the kinds the code has a
\* fallback for, no operation cut short, time that goes forward, owners that wait.
Handled ==
  /\ MaxFaults <= 1 /\ Faults \cap {"read_record", "flush_record"} = {} /\ OtherVolume = {}
  /\ ~MayCrash /\ ~ClockRepeats /\ ~OwnerConcurrent

\* No copy is cut short, and no version is ahead of its owner.
Current ==
  /\ \A f \in Files : disk[f] # None =>
       disk[f] \in Content /\ disk[f][2] <= version[disk[f][1]]
  /\ \A i \in Ids : stored[i] # None =>
       stored[i] \in Content /\ stored[i][2] <= version[stored[i][1]]

\* A content is in one place, but for the operation that has copied and not yet removed it.
InOnePlace ==
  /\ \A i \in Ids, f \in Files :
       stored[i] # None /\ disk[f] = stored[i] =>
         pc \in {"take_remove", "restore_remove"} /\ i = op.id /\ f = op.file
  /\ \A i, j \in Ids : stored[i] # None /\ stored[i] = stored[j] => i = j

EntryOfTake == [id |-> op.id, file |-> op.file]

\* What entries() yields once the running operation has written the record again.
Record == IF pc = "replace_again" THEN op.entries ELSE manifest

\* Whatever is in the store and was not given up is listed, or is the running take()'s.
Listed ==
  \A i \in Ids : stored[i] # None /\ stored[i] \notin relinquished =>
    [id |-> i, file |-> stored[i][1]] \in Record \/ (op.kind = "take" /\ i = op.id)

OneEntryEach == \A d, e \in manifest \cup op.entries : d.id = e.id => d = e

TakeKnows ==
  op.kind = "take" =>
    /\ op.file \notin Protected /\ pc # "take_uncopy"
    /\ \A e \in manifest : e.id # op.id
    /\ IF pc \in {"take_move", "take_copy"} THEN disk[op.file] # None ELSE stored[op.id] # None
    /\ pc \in {"write_temporary", "replace_record", "remove_record"} =>
         op.entries = manifest \cup {EntryOfTake}
    /\ pc = "replace_again" => EntryOfTake \in op.entries

RestoreKnows ==
  op.kind = "restore" =>
    /\ pc # "replace_again" => EntryOfTake \in manifest /\ op.entries = manifest \ {EntryOfTake}
    /\ pc \in WriteSteps => stored[op.id] = None
    /\ pc = "restore_copy" => faults = MaxFaults \/ stored[op.id] = None

PurgeKnows ==
  op.kind = "purge" =>
    /\ pc \in WriteSteps => op.todo = {}
    /\ pc # "replace_again" =>
         /\ op.entries \subseteq manifest
         /\ op.todo \subseteq {e.id : e \in manifest \ op.entries}
         /\ \A e \in manifest \ op.entries :
              /\ stored[e.id] # None => stored[e.id] \in relinquished
              /\ faults < MaxFaults => e.id \in op.todo \/ stored[e.id] = None

\* The failing call of this operation was the one before.
Spent ==
  pc \in {"take_copy", "take_remove", "take_undo", "restore_remove", "remove_record",
          "replace_again"} =>
    faults = MaxFaults

MadeWay == pc = "replace_again" => manifest = {}

ContractInv ==
  /\ DurabilityInv /\ Current /\ InOnePlace /\ Listed /\ OneEntryEach
  /\ TakeKnows /\ RestoreKnows /\ PurgeKnows /\ Spent /\ MadeWay
=============================================================================
