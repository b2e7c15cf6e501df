----------------------------- MODULE CloudRelease -----------------------------
(***************************************************************************)
(* Giving back the local space of a folder of the cloud:                   *)
(* MainWindow::release_cloud_space() measures, asks, and storage::         *)
(* release_cloud_space() walks the folder again and marks file by file,    *)
(* while the user pins files and the cloud's service empties them.         *)
(*                                                                         *)
(* walk_files() is used three times, to plan, to mark and to plan anew for *)
(* the button; it gives each file with the attributes the listing read.    *)
(***************************************************************************)
EXTENDS ActionLog, FiniteSetsExt

CONSTANTS
  CloudFiles,      \* the files there may be
  FolderOf,        \* the folder of each
  Tree,            \* the folders, in the order they are walked
  Bytes,           \* the size of each file
  MaxCloudChanges, \* bound: changes others make
  MaxCloudFaults   \* bound: folders not listed, files that refuse the mark

ASSUME CloudAssumption ==
  /\ IsFiniteSet(CloudFiles)
  /\ DOMAIN FolderOf = CloudFiles
  /\ \A f \in CloudFiles : Bytes[f] \in Nat
  /\ Tree \in Seq(Range(Tree)) /\ IsInjective(Tree)

VARIABLES
  attributes,    \* of each file there is, out of "online", "pinned", "unpinned"
  cloudChanges, cloudFaults,
  releasing,     \* "idle", "planning", "asking", "marking", "remeasuring", "recording", "released"
  pending,       \* folders still to walk
  names,         \* what the open listing has yet to give
  entry,         \* the file being visited and the attributes the listing gave, or NoEntry
  tally,         \* what the walk has counted: [files, bytes, pinned, failed]
  shown,         \* the plan in the question
  button,        \* the button offers another release
  marked,        \* history: the files that took the mark
  unpinned,      \* history: the files whose pin the release took off
  keepers        \* history: the files pinned when the user agreed and ever since

cloudVars == <<attributes, cloudChanges, cloudFaults, releasing, pending, names, entry, tally, shown, button,
               marked, unpinned, keepers>>

NoEntry == [file |-> "none", attributes |-> {}]
Nothing == [files |-> 0, bytes |-> 0, pinned |-> 0, failed |-> 0]

CloudInit ==
  /\ attributes \in [CloudFiles -> {{}, {"pinned"}, {"online", "unpinned"}}]
  /\ cloudChanges = 0
  /\ cloudFaults = 0
  /\ releasing = "idle"
  /\ pending = <<>>
  /\ names = {}
  /\ entry = NoEntry
  /\ tally = Nothing
  /\ shown = Nothing
  /\ button = TRUE
  /\ marked = {}
  /\ unpinned = {}
  /\ keepers = {}

-----------------------------------------------------------------------------

\* The user pins or unpins in the Explorer, a file is opened and comes down,
\* the service empties a file that may be.
CloudChange ==
  /\ cloudChanges < MaxCloudChanges
  /\ cloudChanges' = cloudChanges + 1
  /\ \E f \in CloudFiles :
       \E now \in {(attributes[f] \ {"unpinned", "online"}) \cup {"pinned"},
                   attributes[f] \ {"pinned"},
                   attributes[f] \ {"online", "unpinned"},
                   IF "unpinned" \in attributes[f] THEN attributes[f] \cup {"online"} ELSE attributes[f]} :
         /\ now # attributes[f]
         /\ attributes' = [attributes EXCEPT ![f] = now]
         /\ keepers' = IF "pinned" \in now THEN keepers ELSE keepers \ {f}
  /\ UNCHANGED <<cloudFaults, releasing, pending, names, entry, tally, shown, button, marked, unpinned, logVars>>

CloudFault == cloudFaults < MaxCloudFaults /\ cloudFaults' = cloudFaults + 1

IsOnlineOnly(a) == "online" \in a

\* Mutant: only what is online already is left out.
KeptOnline(a) == IsOnlineOnly(a)

\* What there is nothing to give back of, or the user chose to keep.
Kept(a) == IsOnlineOnly(a) \/ "pinned" \in a

StartWalk(stage) ==
  /\ releasing' = stage
  /\ pending' = Tree
  /\ names' = {}
  /\ entry' = NoEntry
  /\ tally' = Nothing

ReleaseCloudSpace ==
  /\ releasing = "idle"
  /\ StartWalk("planning")
  /\ UNCHANGED <<attributes, cloudChanges, cloudFaults, shown, button, marked, unpinned, keepers, logVars>>

Walking == releasing \in {"planning", "marking", "remeasuring"}

\* A folder that cannot be listed is passed over.
WalkFolder ==
  /\ Walking /\ names = {} /\ entry = NoEntry /\ pending # <<>>
  /\ \/ /\ names' = {f \in CloudFiles : FolderOf[f] = Head(pending)}
        /\ UNCHANGED cloudFaults
     \/ /\ CloudFault
        /\ UNCHANGED names
  /\ pending' = Tail(pending)
  /\ UNCHANGED <<attributes, cloudChanges, releasing, entry, tally, shown, button, marked, unpinned, keepers,
                 logVars>>

NextEntry ==
  /\ Walking /\ names # {} /\ entry = NoEntry
  /\ \E f \in names :
       /\ entry' = [file |-> f, attributes |-> attributes[f]]
       /\ names' = names \ {f}
  /\ UNCHANGED <<attributes, cloudChanges, cloudFaults, releasing, pending, tally, shown, button, marked,
                 unpinned, keepers, logVars>>

PlanEntry ==
  /\ releasing \in {"planning", "remeasuring"} /\ entry # NoEntry
  /\ tally' = IF IsOnlineOnly(entry.attributes) THEN tally
              ELSE IF Kept(entry.attributes) THEN [tally EXCEPT !.pinned = @ + 1]
              ELSE [tally EXCEPT !.files = @ + 1, !.bytes = @ + Bytes[entry.file]]
  /\ entry' = NoEntry
  /\ UNCHANGED <<attributes, cloudChanges, cloudFaults, releasing, pending, names, shown, button, marked,
                 unpinned, keepers, logVars>>

\* The mark is put beside the attributes the listing read.  Whether a file is
\* online is not an attribute a program can set.
MarkEntry ==
  /\ releasing = "marking" /\ entry # NoEntry
  /\ \/ /\ Kept(entry.attributes)
        /\ UNCHANGED <<attributes, cloudFaults, tally, marked, unpinned>>
     \/ /\ ~Kept(entry.attributes)
        /\ CloudFault
        /\ tally' = [tally EXCEPT !.failed = @ + 1]
        /\ UNCHANGED <<attributes, marked, unpinned>>
     \/ /\ ~Kept(entry.attributes)
        /\ attributes' = [attributes EXCEPT ![entry.file] =
                            (@ \cap {"online"}) \cup (entry.attributes \ {"pinned", "online"}) \cup {"unpinned"}]
        /\ tally' = [tally EXCEPT !.files = @ + 1, !.bytes = @ + Bytes[entry.file]]
        /\ marked' = marked \cup {entry.file}
        /\ unpinned' = IF "pinned" \in attributes[entry.file] THEN unpinned \cup {entry.file} ELSE unpinned
        /\ UNCHANGED cloudFaults
  /\ entry' = NoEntry
  /\ UNCHANGED <<cloudChanges, releasing, pending, names, shown, button, keepers, logVars>>

Walked == Walking /\ names = {} /\ entry = NoEntry /\ pending = <<>>

AskRelease ==
  /\ releasing = "planning" /\ Walked
  /\ shown' = tally
  /\ releasing' = "asking"
  /\ UNCHANGED <<attributes, cloudChanges, cloudFaults, pending, names, entry, tally, button, marked, unpinned,
                 keepers, logVars>>

AnswerRelease ==
  /\ releasing = "asking"
  /\ \/ /\ StartWalk("marking")
        /\ button' = FALSE
        /\ keepers' = {f \in CloudFiles : "pinned" \in attributes[f]}
     \/ /\ releasing' = "released"
        /\ UNCHANGED <<pending, names, entry, tally, button, keepers>>
  /\ UNCHANGED <<attributes, cloudChanges, cloudFaults, shown, marked, unpinned, logVars>>

\* What was marked is said, and the button measured anew.
ReportRelease ==
  /\ releasing = "marking" /\ Walked
  /\ StartWalk("remeasuring")
  /\ shown' = tally
  /\ UNCHANGED <<attributes, cloudChanges, cloudFaults, button, marked, unpinned, keepers, logVars>>

SetButton ==
  /\ releasing = "remeasuring" /\ Walked
  /\ button' = (tally.files > 0)
  /\ releasing' = "recording"
  /\ UNCHANGED <<attributes, cloudChanges, cloudFaults, pending, names, entry, tally, shown, marked, unpinned,
                 keepers, logVars>>

\* Mutant: what the last walk counted is recorded.
RecordReleaseTally ==
  /\ releasing = "recording"
  /\ Record("command", tally.files, tally.bytes, 0)
  /\ releasing' = "released"
  /\ UNCHANGED <<attributes, cloudChanges, cloudFaults, pending, names, entry, tally, shown, button, marked,
                 unpinned, keepers>>

RecordRelease ==
  /\ releasing = "recording"
  /\ Record("command", shown.files, shown.bytes, 0)
  /\ releasing' = "released"
  /\ UNCHANGED <<attributes, cloudChanges, cloudFaults, pending, names, entry, tally, shown, button, marked,
                 unpinned, keepers>>

ReleaseStep ==
  \/ WalkFolder \/ NextEntry \/ PlanEntry \/ MarkEntry \/ AskRelease \/ AnswerRelease \/ ReportRelease
  \/ SetButton \/ RecordRelease

CloudNext == ReleaseCloudSpace \/ ReleaseStep \/ CloudChange

-----------------------------------------------------------------------------

\* Types of the release; what is listed is of the folder being walked.
CloudTypes ==
  /\ attributes \in [CloudFiles -> SUBSET {"online", "pinned", "unpinned"}]
  /\ releasing \in {"idle", "planning", "asking", "marking", "remeasuring", "recording", "released"}
  /\ names \subseteq CloudFiles
  /\ entry = NoEntry \/ entry.file \in CloudFiles
  /\ keepers \subseteq {f \in CloudFiles : "pinned" \in attributes[f]}

\* A file the user pinned before he agreed, and left pinned, keeps its pin
\* though the release walks the folder anew and writes attributes it read
\* earlier (cloud_release.cpp:107, 119).
PinsStay == unpinned \cap keepers = {}

\* So do the pins; and what the history says was released is the files that took
\* the mark and their bytes, each once, whatever the folder looked like when the
\* user was asked and when the button was measured (main_window.cpp:1150).
ReleaseAsAgreed ==
  /\ PinsStay
  /\ releasing = "released" /\ marked # {} =>
       \/ unlogged > 0
       \/ /\ log # <<>>
          /\ log[Len(log)].items = Cardinality(marked)
          /\ log[Len(log)].bytes = MapThenSumSet(LAMBDA f : Bytes[f], marked)

\* The button comes back only if there still is something to give back (main_window.cpp:1140).
ButtonMeansWork ==
  releasing = "recording" /\ button =>
    \E f \in CloudFiles : ~Kept(attributes[f]) /\ "unpinned" \notin attributes[f]
=============================================================================
