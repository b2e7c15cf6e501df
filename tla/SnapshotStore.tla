----------------------------- MODULE SnapshotStore -----------------------------
(***************************************************************************)
(* monitor::SnapshotStore: the SQLite database of snapshots of the disk.   *)
(* A task of the pool scans, saves and applies the retention               *)
(* (take_snapshot); the interface thread compares the two latest           *)
(* snapshots (show_growth) on a connection of its own, at any time.        *)
(*                                                                         *)
(* A statement outside a transaction is one step that others see; what a   *)
(* transaction writes is seen when it commits.  Sizes and paths are        *)
(* abstracted away: a snapshot has its rows in a table, all of them, or    *)
(* none.                                                                   *)
(***************************************************************************)
EXTENDS Integers

CONSTANTS
  Day,        \* units of time in a day
  MonthDays,  \* days for which one snapshot a day is kept (30)
  WeekDays,   \* days of a week (7)
  Offsets,    \* what local time may be ahead of UTC, in units (behind: negative)
  MaxTime,    \* bound: last unit of time
  MaxId,      \* bound: snapshots saved
  Unread      \* nothing read yet

ASSUME RetentionAssumption ==
  /\ {Day, MonthDays, WeekDays} \subseteq Nat \ {0}
  /\ Offsets \subseteq Int
  /\ {MaxTime, MaxId} \subseteq Nat

VARIABLES
  now,      \* JULIANDAY('now'): UTC
  offset,   \* local time is now + offset
  rows,     \* table snapshot: [id, at], at in local time
  folders,  \* ids with rows in table folder
  files,    \* ids with rows in table tracked_file
  nextId,   \* AUTOINCREMENT
  tpc,      \* where take_snapshot's task is
  scanAt,   \* taken_at of the snapshot being taken
  reader,   \* show_growth: where it is, what it compares, what it read
  diff,     \* the last comparison shown
  taken     \* history: the snapshots saved so far

writerVars == <<nextId, tpc, scanAt, taken>>
tables     == <<rows, folders, files>>
readerVars == <<reader, diff>>
snapshotVars == <<now, offset, tables, writerVars, readerVars>>

Snapshots == [id : 1..MaxId, at : Int]

Reading(at, from, to, fromSeen) ==
  [at |-> at, from |-> from, to |-> to, fromSeen |-> fromSeen]

NotReading == Reading("idle", Unread, Unread, FALSE)

SnapshotsInit ==
  /\ now = 0
  /\ offset \in Offsets
  /\ rows = {} /\ folders = {} /\ files = {}
  /\ nextId = 1
  /\ tpc = "idle" /\ scanAt = 0
  /\ reader = NotReading /\ diff = Unread
  /\ taken = {}

LocalTime == now + offset
Date(s) == s.at \div Day
Week(s) == Date(s) \div WeekDays

-----------------------------------------------------------------------------
(* take_snapshot: scan, save, retention.                                     *)

ScanBegin ==
  /\ tpc = "idle" /\ nextId <= MaxId
  /\ tpc' = "scan" /\ scanAt' = LocalTime
  /\ UNCHANGED <<now, offset, tables, nextId, taken, readerVars>>

\* Mutant: without a transaction the header is there before its folders.
SaveHeaderAutocommit ==
  /\ tpc = "scan"
  /\ tpc' = "save_children"
  /\ rows' = rows \cup {[id |-> nextId, at |-> scanAt]}
  /\ UNCHANGED <<now, offset, folders, files, nextId, scanAt, taken, readerVars>>

\* The scan was not interrupted, and the row of the snapshot is inserted in a
\* transaction.
SaveHeader ==
  /\ tpc = "scan"
  /\ tpc' = "save_children"
  /\ UNCHANGED <<now, offset, tables, nextId, scanAt, taken, readerVars>>

SaveChildren ==
  /\ tpc = "save_children"
  /\ tpc' = "commit"
  /\ UNCHANGED <<now, offset, tables, nextId, scanAt, taken, readerVars>>

Commit ==
  /\ tpc = "commit"
  /\ LET s == [id |-> nextId, at |-> scanAt]
     IN  rows' = rows \cup {s} /\ taken' = taken \cup {s}
  /\ folders' = folders \cup {nextId}
  /\ files' = files \cup {nextId}
  /\ nextId' = nextId + 1
  /\ tpc' = "retain"
  /\ UNCHANGED <<now, offset, scanAt, readerVars>>

\* An interrupted scan, an insert that fails, which rolls back, or a commit that
\* fails: nothing is saved, and no retention follows.
TakeFails ==
  /\ tpc \in {"scan", "save_children", "commit"}
  /\ tpc' = "idle"
  /\ UNCHANGED <<now, offset, tables, nextId, scanAt, taken, readerVars>>

\* apply_retention's four SELECTs.
Recent(t) == {s \in rows : t - s.at <= Day}
LatestOf(S) == {s \in S : \A r \in S : r.id <= s.id}

Daily(t) ==
  LET month == {s \in rows : t - s.at <= MonthDays * Day}
  IN  {s \in month : s \in LatestOf({r \in month : Date(r) = Date(s)})}

Weekly == {s \in rows : s \in LatestOf({r \in rows : Week(r) = Week(s)})}

\* Mutants: a day that is one unit short; no SELECT without a limit of time.
KeptShortDay(t) ==
  {s \in rows : t - s.at < Day} \cup Daily(t) \cup Weekly \cup LatestOf(rows)
KeptMonth(t) == Recent(t) \cup Daily(t) \cup LatestOf(rows)

Kept(t) == Recent(t) \cup Daily(t) \cup Weekly \cup LatestOf(rows)

\* Nothing removed, or a statement that fails, ends it here.
Retain ==
  /\ tpc = "retain"
  /\ \/ /\ rows' = Kept(now)
        /\ tpc' = IF rows' = rows THEN "idle" ELSE "orphan_folders"
     \/ tpc' = "idle" /\ UNCHANGED rows
  /\ UNCHANGED <<now, offset, folders, files, nextId, scanAt, taken, readerVars>>

Listed == {s.id : s \in rows}

\* The children of what was removed; an error of these statements is ignored.
RemoveOrphanFolders ==
  /\ tpc = "orphan_folders"
  /\ folders' = folders \cap Listed \/ UNCHANGED folders
  /\ tpc' = "orphan_files"
  /\ UNCHANGED <<now, offset, rows, files, nextId, scanAt, taken, readerVars>>

RemoveOrphanFiles ==
  /\ tpc = "orphan_files"
  /\ files' = files \cap Listed \/ UNCHANGED files
  /\ tpc' = "idle"
  /\ UNCHANGED <<now, offset, rows, folders, nextId, scanAt, taken, readerVars>>

-----------------------------------------------------------------------------
(* show_growth: list() and compare(), each statement on its own.             *)

\* The two latest by taken_at; those of the same instant come in any order.
ListLatest ==
  /\ reader.at = "idle"
  /\ \E from, to \in rows :
       /\ from # to
       /\ from.at <= to.at
       /\ \A s \in rows \ {from, to} : s.at <= from.at
       /\ reader' = Reading("from_header", from, to, FALSE)
  /\ UNCHANGED <<now, offset, tables, writerVars, diff>>

\* Either header gone: the two cannot be compared.
LoadHeader(at, s, next) ==
  /\ reader.at = at
  /\ reader' = IF s \in rows THEN [reader EXCEPT !.at = next] ELSE NotReading
  /\ UNCHANGED <<now, offset, tables, writerVars, diff>>

LoadFromHeader == LoadHeader("from_header", reader.from, "to_header")
LoadToHeader   == LoadHeader("to_header", reader.to, "from_folders")

LoadFromFolders ==
  /\ reader.at = "from_folders"
  /\ reader' = [reader EXCEPT !.at = "to_folders", !.fromSeen = reader.from.id \in folders]
  /\ UNCHANGED <<now, offset, tables, writerVars, diff>>

\* A table without rows for an id reads as a snapshot without folders.
LoadToFolders ==
  /\ reader.at = "to_folders"
  /\ diff' = [from |-> reader.from, to |-> reader.to,
              fromSeen |-> reader.fromSeen, toSeen |-> reader.to.id \in folders]
  /\ reader' = NotReading
  /\ UNCHANGED <<now, offset, tables, writerVars>>

-----------------------------------------------------------------------------
Tick ==
  /\ now < MaxTime
  /\ now' = now + 1
  /\ UNCHANGED <<offset, tables, writerVars, readerVars>>

\* The process ends anywhere; an open transaction is rolled back.
Restart ==
  /\ tpc' = "idle"
  /\ reader' = NotReading /\ diff' = Unread
  /\ UNCHANGED <<now, offset, tables, nextId, scanAt, taken>>

SnapshotsNext ==
  \/ ScanBegin \/ SaveHeader \/ SaveChildren \/ Commit \/ TakeFails
  \/ Retain \/ RemoveOrphanFolders \/ RemoveOrphanFiles
  \/ ListLatest \/ LoadFromHeader \/ LoadToHeader \/ LoadFromFolders \/ LoadToFolders
  \/ Tick \/ Restart

SnapshotsSpec == SnapshotsInit /\ [][SnapshotsNext]_snapshotVars

-----------------------------------------------------------------------------
Readings ==
  [at : {"from_header", "to_header", "from_folders", "to_folders"},
   from : taken, to : taken, fromSeen : BOOLEAN]

SnapshotsTypeOK ==
  /\ now \in 0..MaxTime /\ offset \in Offsets
  /\ rows \subseteq taken /\ taken \subseteq Snapshots
  /\ {folders, files} \subseteq SUBSET (1..MaxId)
  /\ nextId \in 1..(MaxId + 1)
  /\ tpc \in {"idle", "scan", "save_children", "commit", "retain", "orphan_folders",
              "orphan_files"}
  /\ scanAt \in Int
  /\ reader = NotReading \/ reader \in Readings
  /\ diff = Unread \/ diff \in [from : taken, to : taken, fromSeen : BOOLEAN, toSeen : BOOLEAN]

\* "Um retrato inteiro numa transacao so" (the comment in save): through failures,
\* crashes and retention, a listed snapshot has all its folders and files.
WholeSnapshots == Listed \subseteq folders \cap files

Age(s) == LocalTime - s.at

\* "um por semana antes disso ... O mais recente de cada grupo e o que fica" (the
\* comment in apply_retention): however often it ran, the last snapshot of each
\* week is still there.
WeeklyKept ==
  \A s \in taken :
    (\A r \in taken : Week(r) = Week(s) => r.id <= s.id) => s \in rows

\* "Guarda tudo do ultimo dia" (the same comment).  Of a user west of Greenwich this
\* is not so: the retention takes the age of a local time from the clock in UTC.
LastDayKept == \A s \in taken : Age(s) <= Day => s \in rows

\* By how much a snapshot looks older to the retention than it is.
Behind == IF offset < 0 THEN -offset ELSE 0

\* What is left of that promise wherever the user lives: everything of the last day
\* stays, but for the hours that local time is behind UTC.
LastHoursKept == \A s \in taken : Age(s) + Behind <= Day => s \in rows

\* "um por dia no ultimo mes" (the same comment), with the same hours taken off: the
\* last snapshot of each day stays.
DailyKept ==
  \A s \in taken :
    /\ Age(s) + Behind <= MonthDays * Day
    /\ \A r \in taken : Date(r) = Date(s) => r.id <= s.id
    => s \in rows

\* A comparison of two snapshots that are still listed has read both of them whole,
\* although its four statements interleave with save() and apply_retention().
ListedComparedWhole ==
  diff # Unread /\ diff.from \in rows /\ diff.to \in rows => diff.fromSeen /\ diff.toSeen

\* "cruzar um parcial com um inteiro mostraria como reducao aquilo que apenas nao
\* foi visitado" (the comment on compare): what is shown was read whole.
ComparedWhole == diff # Unread => diff.fromSeen /\ diff.toSeen
=============================================================================
