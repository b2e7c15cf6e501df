---------------------------- MODULE MaintenanceMC ----------------------------
(* Three files, three entries, two products and three files of the cloud. *)
EXTENDS Maintenance

CONSTANTS report, draft, photo, docs, pictures, suite, plugin, suiteMsi, pluginMsi, fix1, fix2

Computer ==
  [windows |-> <<"C:", "Windows">>, programFiles |-> <<"C:", "Program Files">>, programFilesX86 |-> <<>>,
   programData |-> <<"C:", "ProgramData">>, userProfile |-> <<"C:", "Users", "Ana">>, drives |-> {<<"C:">>}]
Fold == [s \in {"C:", "Windows", "WINDOWS", "Temp", "TEMP"} |->
           CASE s = "C:" -> "c:" [] s \in {"Windows", "WINDOWS"} -> "windows" [] OTHER -> "temp"]

TempFile  == <<"C:", "WINDOWS", "TEMP", "x">>
CacheFile == <<"C:", "Users", "Ana", "cache", "y">>
SyncFile  == <<"C:", "Users", "Ana", "cache", "sync", "z">>
Files     == {TempFile, CacheFile, SyncFile}
Cache     == <<"C:", "Users", "Ana", "cache">>
Sync      == <<"C:", "Users", "Ana", "cache", "sync">>
Syncs     == {Sync}
Findings ==
  {[temporary |-> TRUE,  folders |-> <<WindowsTemp(Computer), Cache>>],
   [temporary |-> FALSE, folders |-> <<<<"C:", "windows">>, Cache, Sync>>]}

\* A file of all users, a value of the user with its name, and a guard.
Startups ==
  {[origin |-> "MachineFolder", name |-> "sync",  file |-> "sync.lnk", essential |-> FALSE],
   [origin |-> "UserRun",       name |-> "sync",  file |-> "sync",     essential |-> FALSE],
   [origin |-> "MachineRun",    name |-> "guard", file |-> "guard",    essential |-> TRUE]}

Synced  == {report, draft, photo}
Within  == [f \in Synced |-> IF f = photo THEN pictures ELSE docs]
Folders == <<docs, pictures>>
Sizes   == [f \in Synced |-> IF f = photo THEN 3 ELSE 1]

Programs == {suite, plugin}
Msi      == [p \in Programs |-> IF p = suite THEN suiteMsi ELSE pluginMsi]
Msp      == [p \in Programs |-> IF p = suite THEN <<fix1, fix2>> ELSE <<fix2>>]
=============================================================================
