----------------------------- MODULE HistoryStore -----------------------------
(***************************************************************************)
(* storage::HistoryStore, one file for each analysis, and the data folder  *)
(* it is in, which may still have the name of an earlier version.          *)
(*                                                                         *)
(* A file is the pair of the second it was begun in and its extension; it  *)
(* is whole or torn.  The process may be killed between any two calls, and *)
(* a loss of power may tear the data of the last session that was moved:   *)
(* the move is written through, what it moves is not.                      *)
(***************************************************************************)
EXTENDS Naturals, Sequences, FiniteSets

CONSTANTS
  Ids,          \* the seconds an analysis may be saved in, ordered
  Keep,         \* how many sessions the retention keeps
  MaxFaults,    \* how many calls fail
  MaxKills      \* how often the process ends without warning

ASSUME HistoryAssumption ==
  /\ Ids \subseteq Nat \ {0} /\ IsFiniteSet(Ids)
  /\ Keep \in Nat /\ MaxFaults \in Nat /\ MaxKills \in Nat

VARIABLES
  data,       \* the data folders there are, by name: their files and what these hold
  phase,      \* what the thread of the window does next
  id,         \* the session being saved
  listed,     \* the sessions the loop under way has still to visit, as listed when it began
  faults,     \* the calls that failed
  kills,      \* the ends without warning
  unflushed,  \* the sessions whose data the disk may not have yet
  excused,    \* the sessions a failed write or a loss of power tore
  refused     \* whether the system refused to rename the folder

storeVars == <<data, id, listed, faults, kills, unflushed, excused, refused>>

Previous == "Zelo"
Default  == "Cleaner"

History == data[Default]

\* A folder, or the folder of all, with one more entry or another one in its place.
With(files, name, content) == [f \in DOMAIN files \cup {name} |-> IF f = name THEN content ELSE files[f]]

Fail == faults < MaxFaults /\ faults' = faults + 1

StoreInit(found) ==
  /\ data = found
  /\ phase = "adopting" /\ id = 0 /\ listed = <<>>
  /\ faults = 0 /\ kills = 0
  /\ unflushed = {} /\ excused = {} /\ refused = FALSE

-----------------------------------------------------------------------------
(* The folder. *)

Renamed == [n \in (DOMAIN data \ {Previous}) \cup {Default} |-> data[IF n = Default THEN Previous ELSE n]]

\* Mutant: the log is opened first.
AdoptAfterLogging ==
  /\ phase = "adopting"
  /\ data' = IF Default \in DOMAIN data THEN data ELSE With(data, Default, <<>>)
  /\ phase' = "logging"
  /\ UNCHANGED <<id, listed, faults, kills, unflushed, excused, refused>>

\* Nothing to adopt, or a folder of the new name is there already: the two are never merged.
AdoptPreviousDataDirectory ==
  /\ phase = "adopting"
  /\ IF Previous \in DOMAIN data /\ Default \notin DOMAIN data
       THEN \/ data' = Renamed /\ UNCHANGED <<faults, refused>>
            \/ Fail /\ refused' = TRUE /\ UNCHANGED data
       ELSE UNCHANGED <<data, faults, refused>>
  /\ phase' = "logging"
  /\ UNCHANGED <<id, listed, kills, unflushed, excused>>

\* The log is the first to create the folder.
InitializeLogging ==
  /\ phase = "logging"
  /\ data' = IF Default \in DOMAIN data THEN data ELSE With(data, Default, <<>>)
  /\ phase' = "idle"
  /\ UNCHANGED <<id, listed, faults, kills, unflushed, excused, refused>>

-----------------------------------------------------------------------------
(* The sessions. *)

SessionFile(session) == <<session, "json">>

Saved == {s \in Ids : SessionFile(s) \in DOMAIN History}

Newer(session) == {s \in Saved : s > session}

\* Mutant: the oldest first.
SessionFilesAscending ==
  [i \in 1..Cardinality(Saved) |-> CHOOSE s \in Saved : Cardinality(Saved \ Newer(s)) = i]

\* The newest first, by name.
SessionFiles ==
  [i \in 1..Cardinality(Saved) |-> CHOOSE s \in Saved : Cardinality(Newer(s)) = i - 1]

\* Mutant: the session is written in place.
TemporaryInPlace(session) == SessionFile(session)

TemporaryFile(session) == <<session, "tmp">>

Without(file) == [f \in DOMAIN History \ {file} |-> History[f]]

WithHistory(files) == data' = [data EXCEPT ![Default] = files]

\* The stream empties the file it opens.
OpenTemporary(session) ==
  /\ id' = session
  /\ WithHistory(With(History, TemporaryFile(session), "torn"))
  /\ UNCHANGED <<listed, faults, kills, unflushed, excused, refused>>

\* Whether it was written is not asked.
WriteSession ==
  /\ phase = "writing"
  /\ \/ WithHistory(With(History, TemporaryFile(id), "whole")) /\ UNCHANGED <<faults, excused>>
     \/ Fail /\ excused' = excused \cup {id} /\ UNCHANGED data
  /\ phase' = "replacing"
  /\ UNCHANGED <<id, listed, kills, unflushed, refused>>

ReplaceAtomically ==
  /\ phase = "replacing"
  /\ \/ /\ WithHistory(With(Without(TemporaryFile(id)), SessionFile(id), History[TemporaryFile(id)]))
        /\ unflushed' = {id}
        /\ UNCHANGED faults
     \/ Fail /\ WithHistory(Without(TemporaryFile(id))) /\ UNCHANGED unflushed
  /\ phase' = "listing"
  /\ UNCHANGED <<id, listed, kills, excused, refused>>

\* What is beyond the first Keep of the list.
ApplyRetention ==
  /\ phase = "listing"
  /\ listed' = SubSeq(SessionFiles, Keep + 1, Len(SessionFiles))
  /\ phase' = "pruning"
  /\ UNCHANGED <<data, id, faults, kills, unflushed, excused, refused>>

\* One that cannot be removed stays, and the next is tried.
RemoveOld ==
  /\ phase = "pruning" /\ listed # <<>>
  /\ \/ WithHistory(Without(SessionFile(Head(listed)))) /\ UNCHANGED faults
     \/ Fail /\ UNCHANGED data
  /\ listed' = Tail(listed)
  /\ UNCHANGED <<phase, id, kills, unflushed, excused, refused>>

ListUnreadable ==
  /\ phase = "pruning" /\ listed = <<>>
  /\ listed' = SessionFiles
  /\ phase' = "quarantining"
  /\ UNCHANGED <<data, id, faults, kills, unflushed, excused, refused>>

SetAside(session) ==
  With(Without(SessionFile(session)), <<session, "corrupt">>, History[SessionFile(session)])

\* A whole session that could not be opened just then goes the way of a torn one.
QuarantineUnreadable ==
  /\ phase = "quarantining" /\ listed # <<>>
  /\ LET session == Head(listed)
         torn    == History[SessionFile(session)] = "torn"
     IN  \/ ~torn /\ UNCHANGED <<data, faults>>
         \/ ~torn /\ Fail /\ WithHistory(SetAside(session))
         \/ torn /\ WithHistory(SetAside(session)) /\ UNCHANGED faults
         \/ torn /\ Fail /\ UNCHANGED data
  /\ listed' = Tail(listed)
  /\ UNCHANGED <<phase, id, kills, unflushed, excused, refused>>

-----------------------------------------------------------------------------
(* The end of the process, and of the power. *)

Closed == phase' = "closed" /\ id' = 0 /\ listed' = <<>>

Kill ==
  /\ phase # "closed" /\ kills < MaxKills /\ kills' = kills + 1
  /\ Closed
  /\ UNCHANGED <<data, faults, unflushed, excused, refused>>

Torn(files, sessions) ==
  [f \in DOMAIN files |-> IF f \in {SessionFile(s) : s \in sessions} THEN "torn" ELSE files[f]]

LosePower ==
  /\ phase # "closed" /\ kills < MaxKills /\ kills' = kills + 1
  /\ unflushed # {}
  /\ WithHistory(Torn(History, unflushed))
  /\ excused' = excused \cup unflushed
  /\ unflushed' = {}
  /\ Closed
  /\ UNCHANGED <<faults, refused>>
=============================================================================
