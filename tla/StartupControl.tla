---------------------------- MODULE StartupControl ----------------------------
(***************************************************************************)
(* What starts with Windows: StartupCollector::collect(), the dialog of    *)
(* MainWindow::manage_startup() and commands::set_startup_enabled().       *)
(*                                                                         *)
(* Windows keeps the switch of an entry under a key per origin and, below  *)
(* it, under the entry's name: the value's for a Run key, the file's, with *)
(* its extension, for a folder.  The user's Run key is one key, read in    *)
(* two views: each of its entries is listed twice.  The Task Manager       *)
(* writes the same switches and programs come and go while the dialog is   *)
(* open.                                                                   *)
(***************************************************************************)
EXTENDS ActionLog, FiniteSetsExt

CONSTANTS
  Entries,           \* what may start: [origin, name, file, essential]
  MaxStartupChanges, \* bound: what others change
  MaxStartupFaults   \* bound: keys and switches not read, switches not written

Origins == <<"MachineRun", "MachineRun32", "UserRun", "UserRun32", "UserFolder", "MachineFolder">>

\* Both views of HKEY_CURRENT_USER show one key.
ReadFrom(o) == IF o = "UserRun32" THEN "UserRun" ELSE o

ASSUME EntriesAssumption ==
  /\ IsFiniteSet(Entries)
  /\ \A e \in Entries :
       /\ DOMAIN e = {"origin", "name", "file", "essential"}
       /\ e.origin \in {Origins[i] : i \in DOMAIN Origins} \ {"UserRun32"}
       /\ e.essential \in BOOLEAN

VARIABLES
  present,         \* the entries there are
  approved,        \* the switch under each key: "none", "on", "off"
  elevated,        \* this program runs as administrator
  startupChanges, startupFaults,
  managing,        \* "idle", "collecting", "dialog", "applying", "reporting", "reported"
  items,           \* what the dialog lists: [entry, origin, enabled]
  checks,          \* the boxes when it is accepted
  at,              \* the origin being collected, or the item being applied
  writing,         \* set_startup_enabled() has read the switch and is about to write it
  changed,         \* how many it switched
  denied,          \* how many need an administrator
  written,         \* history: the keys this program wrote
  foreign,         \* history: the keys others wrote since the list was made
  refused          \* history: the items whose switch Windows did not let it read or write

startupVars == <<present, approved, elevated, startupChanges, startupFaults, managing, items, checks, at,
                 writing, changed, denied, written, foreign, refused>>

FolderOrigins  == {"UserFolder", "MachineFolder"}
MachineOrigins == {"MachineRun", "MachineRun32", "MachineFolder"}

\* Where the switch of an entry of this origin is, as the collector asks for it.
SwitchKey(e, origin) == <<origin, IF origin \in FolderOrigins THEN e.file ELSE e.name>>

\* Mutant: the shown name, whatever the origin.
NameKey(item) == <<item.origin, item.entry.name>>

\* manage_startup() tells folder from registry by the origin.
KeyOf(item) == <<item.origin, IF item.origin \in FolderOrigins THEN item.entry.file ELSE item.entry.name>>

\* Where Windows looks when it starts the entry.
WindowsKey(e) == SwitchKey(e, e.origin)

\* A key of the registry has one value of a name, a folder one file.
ASSUME KeysAssumption == \A e, f \in Entries : WindowsKey(e) = WindowsKey(f) => e = f

\* An entry and the origin of a view that shows it.
Views == {p \in Entries \X {Origins[i] : i \in DOMAIN Origins} : ReadFrom(p[2]) = p[1].origin}

StartupKeys == UNION {{<<p[2], p[1].name>>, <<p[2], p[1].file>>} : p \in Views}

\* A switch without a value was never turned off.
StartupIsEnabled(key) == approved[key] # "off"

Starts(e) == StartupIsEnabled(WindowsKey(e))

StartupInit ==
  /\ present \in SUBSET Entries
  /\ approved \in [StartupKeys -> {"none", "off"}]
  /\ elevated \in BOOLEAN
  /\ startupChanges = 0
  /\ startupFaults = 0
  /\ managing = "idle"
  /\ items = <<>>
  /\ checks = <<>>
  /\ at = 1
  /\ writing = FALSE
  /\ changed = 0
  /\ denied = 0
  /\ written = {}
  /\ foreign = {}
  /\ refused = {}

-----------------------------------------------------------------------------

\* The Task Manager throws a switch; a program is installed or removed.
OthersChange ==
  /\ startupChanges < MaxStartupChanges
  /\ startupChanges' = startupChanges + 1
  /\ \/ /\ \E e \in present :
             /\ approved' = [approved EXCEPT ![WindowsKey(e)] = IF Starts(e) THEN "off" ELSE "on"]
             /\ foreign' = foreign \cup {WindowsKey(e)}
        /\ UNCHANGED present
     \/ /\ \E e \in Entries : present' = IF e \in present THEN present \ {e} ELSE present \cup {e}
        /\ UNCHANGED <<approved, foreign>>
  /\ UNCHANGED <<elevated, startupFaults, managing, items, checks, at, writing, changed, denied, written,
                 refused, logVars>>

StartupFault == startupFaults < MaxStartupFaults /\ startupFaults' = startupFaults + 1

ManageStartup ==
  /\ managing = "idle"
  /\ managing' = "collecting"
  /\ foreign' = {}
  /\ UNCHANGED <<present, approved, elevated, startupChanges, startupFaults, items, checks, at, writing,
                 changed, denied, written, refused, logVars>>

\* The entries as they are listed; a switch that cannot be read is one that is on.
Listing(found, origin, unread) ==
  [i \in DOMAIN found |->
     [entry |-> found[i], origin |-> origin,
      enabled |-> i # unread => StartupIsEnabled(SwitchKey(found[i], origin))]]

\* One key or folder after the other; one that cannot be opened has nothing.
ReadOrigin ==
  /\ managing = "collecting"
  /\ at <= Len(Origins)
  /\ LET found == SetToSeq({e \in present : e.origin = ReadFrom(Origins[at])})
     IN  \/ /\ items' = items \o Listing(found, Origins[at], 0)
            /\ UNCHANGED startupFaults
         \/ /\ StartupFault
            /\ \E unread \in DOMAIN found : items' = items \o Listing(found, Origins[at], unread)
         \/ /\ found # <<>>
            /\ StartupFault
            /\ UNCHANGED items
  /\ at' = at + 1
  /\ UNCHANGED <<present, approved, elevated, startupChanges, managing, checks, writing, changed, denied,
                 written, foreign, refused, logVars>>

OpenDialog ==
  /\ managing = "collecting"
  /\ at > Len(Origins)
  /\ managing' = IF items = <<>> THEN "reported" ELSE "dialog"
  /\ at' = 1
  /\ UNCHANGED <<present, approved, elevated, startupChanges, startupFaults, items, checks, writing, changed,
                 denied, written, foreign, refused, logVars>>

\* The boxes of essential items are locked.
AnswerStartup ==
  /\ managing = "dialog"
  /\ \/ /\ managing' = "reported"
        /\ UNCHANGED checks
     \/ /\ managing' = "applying"
        /\ checks' \in {c \in [DOMAIN items -> BOOLEAN] :
                          \A i \in DOMAIN items : items[i].entry.essential => c[i] = items[i].enabled}
  /\ UNCHANGED <<present, approved, elevated, startupChanges, startupFaults, items, at, writing, changed,
                 denied, written, foreign, refused, logVars>>

\* Mutant: every item that may be changed is written as it stands in the list.
EveryUnlocked(i) == ~items[i].entry.essential

\* What the user changed in the list, whatever happened to the switch since.
Asked(i) == ~items[i].entry.essential /\ checks[i] # items[i].enabled

SkipItem ==
  /\ managing = "applying" /\ ~writing
  /\ at <= Len(items)
  /\ ~Asked(at)
  /\ at' = at + 1
  /\ UNCHANGED <<present, approved, elevated, startupChanges, startupFaults, managing, items, checks, writing,
                 changed, denied, written, foreign, refused, logVars>>

\* set_startup_enabled() writes nothing when the switch is as asked, or is not read and
\* was to be turned on.
ReadSwitch ==
  /\ managing = "applying" /\ ~writing
  /\ at <= Len(items)
  /\ Asked(at)
  /\ \/ /\ IF StartupIsEnabled(KeyOf(items[at])) = checks[at]
           THEN at' = at + 1 /\ UNCHANGED writing
           ELSE writing' = TRUE /\ UNCHANGED at
        /\ UNCHANGED <<startupFaults, refused>>
     \/ /\ StartupFault
        /\ IF checks[at]
           THEN at' = at + 1 /\ refused' = refused \cup {at} /\ UNCHANGED writing
           ELSE writing' = TRUE /\ UNCHANGED <<at, refused>>
  /\ UNCHANGED <<present, approved, elevated, startupChanges, managing, items, checks, changed, denied,
                 written, foreign, logVars>>

WriteSwitch ==
  /\ managing = "applying" /\ writing
  /\ LET key == KeyOf(items[at])
     IN  \/ /\ items[at].origin \in MachineOrigins /\ ~elevated
            /\ denied' = denied + 1
            /\ refused' = refused \cup {at}
            /\ UNCHANGED <<approved, changed, written, startupFaults>>
         \/ /\ StartupFault
            /\ refused' = refused \cup {at}
            /\ UNCHANGED <<approved, changed, denied, written>>
         \/ /\ items[at].origin \notin MachineOrigins \/ elevated
            /\ approved' = [approved EXCEPT ![key] = IF checks[at] THEN "on" ELSE "off"]
            /\ changed' = changed + 1
            /\ written' = written \cup {key}
            /\ UNCHANGED <<denied, refused, startupFaults>>
  /\ writing' = FALSE
  /\ at' = at + 1
  /\ UNCHANGED <<present, elevated, startupChanges, managing, items, checks, foreign, logVars>>

ReportStartup ==
  /\ managing = "applying" /\ ~writing
  /\ at > Len(items)
  /\ managing' = IF changed > 0 THEN "reporting" ELSE "reported"
  /\ UNCHANGED <<present, approved, elevated, startupChanges, startupFaults, items, checks, at, writing, changed,
                 denied, written, foreign, refused, logVars>>

RecordStartup ==
  /\ managing = "reporting"
  /\ Record("command", changed, 0, 0)
  /\ managing' = "reported"
  /\ UNCHANGED <<present, approved, elevated, startupChanges, startupFaults, items, checks, at, writing, changed,
                 denied, written, foreign, refused>>

StartupStep ==
  \/ ReadOrigin \/ OpenDialog \/ AnswerStartup \/ SkipItem \/ ReadSwitch \/ WriteSwitch
  \/ ReportStartup \/ RecordStartup

StartupNext == ManageStartup \/ StartupStep \/ OthersChange

-----------------------------------------------------------------------------

\* Types of the dialog's state; a switch is about to be written only for an item that was asked.
StartupTypes ==
  /\ present \subseteq Entries
  /\ approved \in [StartupKeys -> {"none", "on", "off"}]
  /\ managing \in {"idle", "collecting", "dialog", "applying", "reporting", "reported"}
  /\ \A i \in DOMAIN items :
       /\ items[i].entry \in Entries /\ items[i].enabled \in BOOLEAN
       /\ items[i].entry.origin = ReadFrom(items[i].origin)
  /\ writing => managing = "applying" /\ at \in DOMAIN items /\ Asked(at)
  /\ written \subseteq StartupKeys
  /\ foreign \subseteq StartupKeys

Applied == managing \in {"reporting", "reported"} /\ checks # <<>>

\* The program starts or not as the user left its box, where Windows looks, unless
\* Windows refused or somebody else threw its switch since the list was made.
Settled(i) ==
  \/ ~Asked(i) \/ i \in refused \/ WindowsKey(items[i].entry) \in foreign
  \/ Starts(items[i].entry) = checks[i]

\* The box whose switch Windows asks for.
OwnBox(i) == items[i].origin = items[i].entry.origin

\* Once the changes are reported, every program is settled whose own box the user
\* changed (startup_control.cpp:102); and no switch was written but one of a box he
\* changed: what another program threw while the dialog was open stays
\* (main_window.cpp:354).
EndsAsAsked ==
  /\ Applied => \A i \in DOMAIN items : OwnBox(i) => Settled(i)
  /\ \A k \in written :
       \E i \in DOMAIN items :
         /\ KeyOf(items[i]) = k
         /\ ~items[i].entry.essential
         /\ checks[i] # items[i].enabled

\* What the dialog tells the user: unmark what need not open with the computer
\* (main_window.cpp:297).  It does not hold of the second box of an entry of the
\* user's Run key, whose switch Windows never asks (startup_control.cpp:33-35).
EveryBoxHonoured == Applied => \A i \in DOMAIN items : Settled(i)
=============================================================================
