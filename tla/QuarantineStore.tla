-------------------------- MODULE QuarantineStore --------------------------
(***************************************************************************)
(* storage::QuarantineStore: files moved out of the way under              *)
(* <root>/arquivos/<id>, and the JSON record <root>/quarentena.json that   *)
(* says where each of them came from.                                      *)
(*                                                                         *)
(* Every call the code makes on the file system is one action, so that a   *)
(* call that fails, a crash, or another program touching the original path *)
(* can fall between any two of them.                                       *)
(*                                                                         *)
(* Data abstracted away: sizes, reasons, the JSON text.  entries() answers *)
(* "no entries" for a record that is missing, cannot be parsed or cannot   *)
(* be opened, so a lost or half-written record IS the empty set here.      *)
(***************************************************************************)
EXTENDS Integers

CONSTANTS
  Files,           \* original paths the program may be asked to quarantine
  Protected,       \* those the deny-list refuses
  OtherVolume,     \* those on a volume where rename() to the store fails
  Faults,          \* the calls that may fail (see Calls)
  MaxFaults,       \* how many calls may fail within one operation
  MaxVersion,      \* bound: contents the owner of a path ever writes to it
  MaxClock,        \* bound: last value of the clock, in the unit of an id
  MaxSeq,          \* bound: ids one run of the process hands out
  MayCrash,        \* TRUE when the process may die in mid-operation
  ClockRepeats,    \* TRUE when local time may show the same second again
  OwnerConcurrent, \* TRUE when owners write while an operation is running
  None,            \* no file at a path
  Partial          \* what an interrupted copy leaves behind

Calls == {"move", "copy", "remove", "read_record", "write_record",
          "flush_record", "replace_record"}

Content == Files \X (1..MaxVersion)      \* <<path it was written to, version>>
Ids     == (0..MaxClock) \X (0..(MaxSeq - 1))  \* <<timestamp, sequence number>>
Entry   == [id : Ids, file : Files]

ASSUME ConstantsAssumption ==
  /\ Protected \subseteq Files
  /\ OtherVolume \subseteq Files
  /\ Faults \subseteq Calls
  /\ {MaxFaults, MaxClock, MaxSeq} \subseteq Nat
  /\ MaxVersion \in Nat \ {0}
  /\ {MayCrash, ClockRepeats, OwnerConcurrent} \subseteq BOOLEAN
  /\ None \notin Content /\ Partial \notin Content /\ None # Partial

VARIABLES
  disk,         \* what is at each original path
  stored,       \* what is at arquivos/<id>
  manifest,     \* the entries quarentena.json yields when it is read
  pc,           \* the call the running operation makes next
  op,           \* the local variables of the running operation
  faults,       \* calls that failed in the running operation
  clock,        \* local time
  seq,          \* make_id's static counter
  version,      \* history: versions written to each path so far
  relinquished  \* history: contents their owner or an expiry gave up

environment == <<clock, seq, version, relinquished>>
vars == <<disk, stored, manifest, pc, op, faults, environment>>

Operation(kind, file, id, entries, todo) ==
  [kind |-> kind, file |-> file, id |-> id, entries |-> entries, todo |-> todo]

NoOp == Operation("none", None, None, {}, {})

\* An operation on one file: take() and restore().
FileOp(kind) ==
  [kind : {kind}, file : Files, id : Ids, entries : SUBSET Entry, todo : {{}}]

PurgeOp ==
  [kind : {"purge"}, file : {None}, id : {None}, entries : SUBSET Entry,
   todo : SUBSET Ids]

WriteSteps   == {"write_temporary", "replace_record", "remove_record", "replace_again"}
TakeSteps    == {"take_move", "take_copy", "take_remove", "take_uncopy",
                 "take_record", "take_undo"} \cup WriteSteps
RestoreSteps == {"restore_move", "restore_copy", "restore_remove"} \cup WriteSteps
PurgeSteps   == {"purge_remove"} \cup WriteSteps

Init ==
  /\ disk = [f \in Files |-> <<f, 1>>]
  /\ stored = [i \in Ids |-> None]
  /\ manifest = {}
  /\ pc = "idle"
  /\ op = NoOp
  /\ faults = 0
  /\ clock = 0
  /\ seq = 0
  /\ version = [f \in Files |-> 1]
  /\ relinquished = {}

(***************************************************************************)
(* A call either works or, when the environment may make it fail and has   *)
(* not used up MaxFaults in this operation, fails.                         *)
(***************************************************************************)
Works == faults' = faults

Fails(call) ==
  /\ call \in Faults
  /\ faults < MaxFaults
  /\ faults' = faults + 1

\* The operation goes on with the call named step, or returns to its caller.
Goto(step) == pc' = step /\ op' = op
Return     == pc' = "idle" /\ op' = NoOp

Start(operation, step) ==
  /\ pc = "idle"
  /\ op' = operation
  /\ pc' = step
  /\ faults' = 0

-----------------------------------------------------------------------------
(* take(file, reason) *)

\* Mutant: make_id forgets to count.
TakeBeginSameId(f) ==
  /\ disk[f] # None
  /\ f \notin Protected
  /\ Start(Operation("take", f, <<clock, seq>>, {}, {}), "take_move")
  /\ UNCHANGED <<disk, stored, manifest, environment>>

\* Regular file, not protected, size readable: an id is made and the move tried.
TakeBegin(f) ==
  /\ disk[f] # None
  /\ f \notin Protected
  /\ seq < MaxSeq
  /\ Start(Operation("take", f, <<clock, seq>>, {}, {}), "take_move")
  /\ seq' = seq + 1
  /\ UNCHANGED <<disk, stored, manifest, clock, version, relinquished>>

\* rename replaces whatever is already at arquivos/<id>.
TakeMove ==
  /\ pc = "take_move"
  /\ \/ /\ disk[op.file] # None /\ op.file \notin OtherVolume
        /\ Works
        /\ stored' = [stored EXCEPT ![op.id] = disk[op.file]]
        /\ disk' = [disk EXCEPT ![op.file] = None]
        /\ Goto("take_record")
     \/ /\ \/ (disk[op.file] = None \/ op.file \in OtherVolume) /\ Works
           \/ Fails("move")
        /\ Goto("take_copy")
        /\ UNCHANGED <<disk, stored>>
  /\ UNCHANGED <<manifest, environment>>

\* Mutant: the error of the copy is not looked at.
TakeCopyUnchecked ==
  /\ pc = "take_copy"
  /\ \/ /\ disk[op.file] # None /\ Works
        /\ stored' = [stored EXCEPT ![op.id] = disk[op.file]]
     \/ ((disk[op.file] = None /\ Works) \/ Fails("copy")) /\ UNCHANGED stored
  /\ Goto("take_remove")
  /\ UNCHANGED <<disk, manifest, environment>>

TakeCopy ==
  /\ pc = "take_copy"
  /\ \/ /\ disk[op.file] # None /\ Works
        /\ stored' = [stored EXCEPT ![op.id] = disk[op.file]]
        /\ Goto("take_remove")
     \/ /\ (disk[op.file] = None /\ Works) \/ Fails("copy")
        /\ Return
        /\ UNCHANGED stored
  /\ UNCHANGED <<disk, manifest, environment>>

TakeRemove ==
  /\ pc = "take_remove"
  /\ \/ /\ Works
        /\ disk' = [disk EXCEPT ![op.file] = None]
        /\ Goto("take_record")
     \/ /\ Fails("remove")
        /\ Goto("take_uncopy")
        /\ UNCHANGED disk
  /\ UNCHANGED <<stored, manifest, environment>>

\* The original stayed: the copy is removed and the error of that is ignored.
TakeUncopy ==
  /\ pc = "take_uncopy"
  /\ \/ Works /\ stored' = [stored EXCEPT ![op.id] = None]
     \/ Fails("remove") /\ UNCHANGED stored
  /\ Return
  /\ UNCHANGED <<disk, manifest, environment>>

\* Mutant: the record is written with the new entry only.
TakeRecordAlone ==
  /\ pc = "take_record"
  /\ Works
  /\ op' = [op EXCEPT !.entries = {[id |-> op.id, file |-> op.file]}]
  /\ pc' = "write_temporary"
  /\ UNCHANGED <<disk, stored, manifest, environment>>

\* entries() and push_back: a record that cannot be opened reads as empty.
TakeRecord ==
  /\ pc = "take_record"
  /\ LET entry == [id |-> op.id, file |-> op.file]
     IN  \/ Works /\ op' = [op EXCEPT !.entries = manifest \cup {entry}]
         \/ Fails("read_record") /\ op' = [op EXCEPT !.entries = {entry}]
  /\ pc' = "write_temporary"
  /\ UNCHANGED <<disk, stored, manifest, environment>>

\* The record could not be written: the file is renamed back, errors ignored.
TakeUndo ==
  /\ pc = "take_undo"
  /\ \/ /\ op.file \notin OtherVolume /\ Works
        /\ disk' = [disk EXCEPT ![op.file] = stored[op.id]]
        /\ stored' = [stored EXCEPT ![op.id] = None]
     \/ /\ (op.file \in OtherVolume /\ Works) \/ Fails("move")
        /\ UNCHANGED <<disk, stored>>
  /\ Return
  /\ UNCHANGED <<manifest, environment>>

-----------------------------------------------------------------------------
(* restore(id) *)

\* The entry is found and nothing is at its original path.
RestoreBegin(e) ==
  /\ e \in manifest
  /\ disk[e.file] = None
  /\ Start(Operation("restore", e.file, e.id, manifest \ {e}, {}), "restore_move")
  /\ UNCHANGED <<disk, stored, manifest, environment>>

RestoreMove ==
  /\ pc = "restore_move"
  /\ \/ /\ stored[op.id] # None /\ op.file \notin OtherVolume
        /\ Works
        /\ disk' = [disk EXCEPT ![op.file] = stored[op.id]]
        /\ stored' = [stored EXCEPT ![op.id] = None]
        /\ Goto("write_temporary")
     \/ /\ \/ (stored[op.id] = None \/ op.file \in OtherVolume) /\ Works
           \/ Fails("move")
        /\ Goto("restore_copy")
        /\ UNCHANGED <<disk, stored>>
  /\ UNCHANGED <<manifest, environment>>

RestoreCopy ==
  /\ pc = "restore_copy"
  /\ \/ /\ stored[op.id] # None /\ Works
        /\ disk' = [disk EXCEPT ![op.file] = stored[op.id]]
        /\ Goto("restore_remove")
     \/ /\ (stored[op.id] = None /\ Works) \/ Fails("copy")
        /\ Return
        /\ UNCHANGED disk
  /\ UNCHANGED <<stored, manifest, environment>>

RestoreRemove ==
  /\ pc = "restore_remove"
  /\ \/ Works /\ stored' = [stored EXCEPT ![op.id] = None]
     \/ Fails("remove") /\ UNCHANGED stored
  /\ Goto("write_temporary")
  /\ UNCHANGED <<disk, manifest, environment>>

-----------------------------------------------------------------------------
(* purge_older_than(days) *)

Expired(cutoff) == {e \in manifest : e.id[1] < cutoff}

\* Some entries are older than the cutoff: what they hold is given up.
PurgeBegin(cutoff) ==
  /\ Expired(cutoff) # {}
  /\ Start(Operation("purge", None, None, manifest \ Expired(cutoff),
                     {e.id : e \in Expired(cutoff)}), "purge_remove")
  /\ relinquished' = relinquished \cup
       {c \in Content : /\ \E e \in Expired(cutoff) : stored[e.id] = c
                        /\ \A f \in Files : disk[f] # c}
  /\ UNCHANGED <<disk, stored, manifest, clock, seq, version>>

\* One expired file is removed; it counts as purged whether or not that worked.
PurgeRemove(i) ==
  /\ pc = "purge_remove"
  /\ i \in op.todo
  /\ \/ Works /\ stored' = [stored EXCEPT ![i] = None]
     \/ Fails("remove") /\ UNCHANGED stored
  /\ op' = [op EXCEPT !.todo = @ \ {i}]
  /\ pc' = IF op.todo = {i} THEN "write_temporary" ELSE "purge_remove"
  /\ UNCHANGED <<disk, manifest, environment>>

-----------------------------------------------------------------------------
(* write_entries(entries): temporary file, rename over the record; when that *)
(* fails, remove the record and rename again.                                *)

\* Mutants: nobody looks at the answer; every caller takes it for a failed take().
WroteIgnored(ok) == Return

\* What the caller does with the answer: only take() acts on a failure.
Wrote(ok) == IF ok \/ op.kind # "take" THEN Return ELSE Goto("take_undo")

\* The stream is tested before it is closed, so a short write that only shows
\* when the buffer is flushed by the destructor goes on to replace the record.
WriteTemporary ==
  /\ pc = "write_temporary"
  /\ \/ Works /\ Goto("replace_record")
     \/ Fails("write_record") /\ Wrote(FALSE)
     \/ /\ Fails("flush_record")
        /\ op' = [op EXCEPT !.entries = {}]
        /\ pc' = "replace_record"
  /\ UNCHANGED <<disk, stored, manifest, environment>>

ReplaceRecord ==
  /\ pc = "replace_record"
  /\ \/ Works /\ manifest' = op.entries /\ Wrote(TRUE)
     \/ Fails("replace_record") /\ Goto("remove_record") /\ UNCHANGED manifest
  /\ UNCHANGED <<disk, stored, environment>>

RemoveRecord ==
  /\ pc = "remove_record"
  /\ \/ Works /\ manifest' = {}
     \/ Fails("replace_record") /\ UNCHANGED manifest
  /\ Goto("replace_again")
  /\ UNCHANGED <<disk, stored, environment>>

ReplaceAgain ==
  /\ pc = "replace_again"
  /\ \/ Works /\ manifest' = op.entries /\ Wrote(TRUE)
     \/ Fails("replace_record") /\ Wrote(FALSE) /\ UNCHANGED manifest
  /\ UNCHANGED <<disk, stored, environment>>

-----------------------------------------------------------------------------
(* The world around the store *)

\* The owner of a path acts between operations or, with OwnerConcurrent, at
\* any time.
OwnerMayAct == pc \in {"idle", "down"} \/ OwnerConcurrent

OwnerWrites(f) ==
  /\ OwnerMayAct
  /\ version[f] < MaxVersion
  /\ version' = [version EXCEPT ![f] = @ + 1]
  /\ disk' = [disk EXCEPT ![f] = <<f, version[f] + 1>>]
  /\ relinquished' = relinquished \cup ({disk[f]} \cap Content)
  /\ UNCHANGED <<stored, manifest, pc, op, faults, clock, seq>>

OwnerDeletes(f) ==
  /\ OwnerMayAct
  /\ disk[f] # None
  /\ disk' = [disk EXCEPT ![f] = None]
  /\ relinquished' = relinquished \cup ({disk[f]} \cap Content)
  /\ UNCHANGED <<stored, manifest, pc, op, faults, clock, seq, version>>

Tick ==
  /\ clock < MaxClock
  /\ clock' = clock + 1
  /\ UNCHANGED <<disk, stored, manifest, pc, op, faults, seq, version, relinquished>>

\* The application closes, or dies with what its interrupted copy left behind.
Stop ==
  /\ pc = "idle" \/ (MayCrash /\ pc # "down")
  /\ \/ UNCHANGED <<disk, stored>>
     \/ /\ pc = "take_copy"
        /\ stored' = [stored EXCEPT ![op.id] = Partial]
        /\ UNCHANGED disk
     \/ /\ pc = "restore_copy" /\ stored[op.id] # None
        /\ disk' = [disk EXCEPT ![op.file] = Partial]
        /\ UNCHANGED stored
  /\ pc' = "down"
  /\ op' = NoOp
  /\ faults' = 0
  /\ UNCHANGED <<manifest, environment>>

\* A new process counts from zero again, at a later second unless local time
\* is set back (a manual change, the end of daylight saving).
Restart ==
  /\ pc = "down"
  /\ clock' \in IF ClockRepeats THEN 0..MaxClock ELSE (clock + 1)..MaxClock
  /\ seq' = 0
  /\ Return
  /\ UNCHANGED <<disk, stored, manifest, faults, version, relinquished>>

Next ==
  \/ \E f \in Files : TakeBegin(f) \/ OwnerWrites(f) \/ OwnerDeletes(f)
  \/ TakeMove \/ TakeCopy \/ TakeRemove \/ TakeUncopy \/ TakeRecord \/ TakeUndo
  \/ \E e \in manifest : RestoreBegin(e)
  \/ RestoreMove \/ RestoreCopy \/ RestoreRemove
  \/ \E cutoff \in 0..clock : PurgeBegin(cutoff)
  \/ \E i \in Ids : PurgeRemove(i)
  \/ WriteTemporary \/ ReplaceRecord \/ RemoveRecord \/ ReplaceAgain
  \/ Tick \/ Stop \/ Restart

Spec == Init /\ [][Next]_vars

-----------------------------------------------------------------------------
(* What the store owes its caller *)

TypeOK ==
  /\ disk \in [Files -> Content \cup {None, Partial}]
  /\ stored \in [Ids -> Content \cup {None, Partial}]
  /\ manifest \subseteq Entry
  /\ \/ op = NoOp /\ pc \in {"idle", "down"}
     \/ op \in FileOp("take") /\ pc \in TakeSteps
     \/ op \in FileOp("restore") /\ pc \in RestoreSteps
     \/ op \in PurgeOp /\ pc \in PurgeSteps
  /\ faults \in 0..MaxFaults
  /\ clock \in 0..MaxClock
  /\ seq \in 0..MaxSeq
  /\ version \in [Files -> 1..MaxVersion]
  /\ relinquished \subseteq Content

AtHome(c) == \E f \in Files : disk[f] = c
Kept(c)   == \E i \in Ids : stored[i] = c

\* "Este e o unico ponto do modulo em que um arquivo deixa de existir" (the
\* comment on purge_older_than): whatever fails and whenever the process dies,
\* a content that neither its owner deleted nor a purge found expired is still
\* at its path or in the store.
NoLoss ==
  \A f \in Files : \A v \in 1..version[f] :
    <<f, v>> \notin relinquished => AtHome(<<f, v>>) \/ Kept(<<f, v>>)

\* restore() gives a file back to the path it was taken from and to no other,
\* through every failure, crash and reuse of a stale entry.
RestoredToOrigin ==
  \A f \in Files : disk[f] \in Content => disk[f][1] = f

\* "enquanto o arquivo esta aqui, a remocao pode ser desfeita" (the comment on
\* QuarantineStore): between operations a stored content that is not at its path
\* and was not given up has an entry that leads back to that path.
Undoable ==
  pc \in {"idle", "down"} =>
    \A i \in Ids :
      stored[i] \in Content \ relinquished =>
        \/ [id |-> i, file |-> stored[i][1]] \in manifest
        \/ AtHome(stored[i])

\* "Apaga em definitivo o que passou do prazo" (the comment on
\* purge_older_than): a purge drops an entry only once its file is gone.
PurgeDropsOnlyWhatIsGone ==
  [][op.kind = "purge" =>
       \A e \in manifest \ (manifest' \cup op.entries) : stored[e.id] = None]_vars

\* "Recusa quando ja existe algo naquele caminho" (the comment on restore): no
\* step of restore() replaces a content that is at a path.  It does, once the owner
\* may write between the look at the path and the move.
RestoreNeverOverwrites ==
  [][(pc \in {"restore_move", "restore_copy"} /\ pc' # pc)
       => (\A f \in Files : disk[f] \in Content => disk'[f] = disk[f])]_vars
-----------------------------------------------------------------------------
(***************************************************************************)
(* The inductive invariant behind NoLoss and RestoredToOrigin.  It says    *)
(* why no call of an operation overwrites or removes the last copy of a    *)
(* content: ids are never used twice, and at each call the running         *)
(* operation knows what is at the path and in the store.                   *)
(***************************************************************************)

\* The id was handed out by make_id at some earlier moment.
Used(i) == i[1] < clock \/ (i[1] = clock /\ i[2] < seq)

IdsUsed ==
  /\ \A i \in Ids : stored[i] # None => Used(i)
  /\ \A e \in manifest \cup op.entries : Used(e.id)
  /\ op.kind = "take" => Used(op.id)

\* Until take() has put something there, its place in the store is free and no
\* entry speaks of it.
FreshTarget ==
  pc \in {"take_move", "take_copy"} =>
    /\ stored[op.id] = None
    /\ \A e \in manifest \cup op.entries : e.id # op.id

\* What an entry, or the running operation, leads to came from the path it names.
EntriesTrue ==
  /\ \A e \in manifest \cup op.entries :
       stored[e.id] \in Content => stored[e.id][1] = e.file
  /\ op.kind \in {"take", "restore"} =>
       (stored[op.id] \in Content => stored[op.id][1] = op.file)

\* The operation is about to put a file where there is none.
NothingAtPath ==
  \/ pc \in {"take_record", "take_undo", "restore_move", "restore_copy"}
  \/ op.kind = "take" /\ pc \in WriteSteps
  => disk[op.file] = None

\* The operation is about to remove one of two copies.
BothCopies ==
  pc \in {"take_remove", "take_uncopy", "restore_remove"} =>
    stored[op.id] = disk[op.file]

\* The purge is about to remove only what was given up or is at its path.
PurgeGivenUp ==
  pc = "purge_remove" =>
    \A i \in op.todo :
      stored[i] \in Content => stored[i] \in relinquished \/ AtHome(stored[i])

DurabilityInv ==
  /\ TypeOK
  /\ IdsUsed
  /\ FreshTarget
  /\ EntriesTrue
  /\ NothingAtPath
  /\ BothCopies
  /\ PurgeGivenUp
  /\ RestoredToOrigin
  /\ NoLoss
=============================================================================
