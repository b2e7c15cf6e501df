------------------------------ MODULE SessionsMC ------------------------------
(* One area in trouble, or one folder with much in it; two sessions are kept of three seconds. *)
EXTENDS Sessions, TLC

Drive == <<"C:">>
Machine ==
  [windows |-> <<"C:", "Windows">>, programFiles |-> <<"C:", "Program Files">>, programFilesX86 |-> <<>>,
   programData |-> <<"C:", "ProgramData">>, userProfile |-> <<"C:", "Users", "Ana">>, drives |-> {Drive}]

Folding == [s \in {"C:", "Windows", "ProgramData", "Program Files", "Cache", "LOGS", "logs"} |->
              CASE s = "C:" -> "c:" [] s = "Windows" -> "windows" [] s = "ProgramData" -> "programdata"
                [] s = "Program Files" -> "program files" [] s = "Cache" -> "cache" [] OTHER -> "logs"]

Volumes(free) == {[system |-> TRUE, free |-> free], [system |-> FALSE, free |-> 60]}

\* One in three is from a folder; the first is essential, the second switched off.
Items(n) == {[name |-> i, folder |-> i % 3 = 0, essential |-> i = 1, enabled |-> i # 2] : i \in 1..n}

Disks(health, errors) == {[health |-> "Healthy", errors |-> 0], [health |-> health, errors |-> errors]}

Readings ==
  [volumes    |-> <<Volumes(50), Volumes(9), Volumes(4)>>,
   startup    |-> <<Items(6), Items(7), Items(16)>>,
   failures   |-> <<<<2>>, <<2, 12>>, <<3, 12>>>>,
   markers    |-> <<{}, {"renames"}, {"renames", "components"}>>,
   memory     |-> <<40, 9, 4>>,
   protected  |-> <<TRUE, FALSE>>,
   age        |-> <<1, 9>>,
   disks      |-> <<Disks("Healthy", 0), Disks("Healthy", 2), Disks("Warning", 2)>>,
   ntfs       |-> <<2, 3, 20>>,
   servicing  |-> <<0, 1, 2>>,
   components |-> <<0, 1>>,
   temporary  |-> <<50, 500, 2000, 12000>>]

Chrome == Local \o <<"Google", "Chrome", "User Data", "Default">>

\* A known location of middling size, one of Windows, one both catalogs list, and an item of each risk.
Usual ==
  (Local \o <<"pip", "cache">>) :> 200 @@ (System.windows \o <<"Panther">>) :> 900
    @@ (Chrome \o <<"Cache">>) :> 30 @@ (Chrome \o <<"Bookmarks">>) :> 25
    @@ (Chrome \o <<"anything else">>) :> 21 @@ (Roaming \o <<"Code", "LOGS">>) :> 22

Healthy == [area \in DOMAIN Readings |-> Readings[area][1]] @@ [antivirus |-> "other", folders |-> Usual]

InTrouble ==
  UNION {{[Healthy EXCEPT ![area] = Readings[area][i]] : i \in DOMAIN Readings[area]}
           : area \in DOMAIN Readings}

Paths(locations) == {l.path : l \in locations}
FoldersOf ==
  {Paths(OwnRemains \cup WindowsLocations), Paths(DevelopmentCaches), Paths(ApplicationCaches),
   Paths(MoreWindowsLocations), Paths(CommonApplications)}
    \cup {{Append(p.root, n) : n \in p.green} : p \in AppProfiles}

Stocked == {[Healthy EXCEPT !.folders = [p \in group |-> 600]] : group \in FoldersOf}

Stored(seconds) == [f \in {<<s, "json">> : s \in seconds} |-> "whole"]

\* A first start ever, one after the change of name, one of every day, and one with both folders.
AtFirst == {<<>>, Previous :> Stored({1, 2}), Default :> Stored({2, 3}),
            (Previous :> Stored({1})) @@ (Default :> Stored({2}))}
Begin(found, c) == [found |-> found, computer |-> c]

Everyday == Default :> Stored({2})
Beginnings ==
  {Begin(found, Healthy) : found \in AtFirst} \cup {Begin(Everyday, c) : c \in InTrouble \cup Stocked}
=============================================================================
