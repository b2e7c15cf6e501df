--------------------------- MODULE FindingsCatalog ---------------------------
(***************************************************************************)
(* The two catalogs of folders the analysis looks for: the known locations *)
(* (collectors/known_locations.cpp) and the profiles of programs           *)
(* (collectors/app_profiles.cpp), and what their collectors report of the  *)
(* folders this computer has.                                              *)
(*                                                                         *)
(* Of an entry its path and its risk are kept; the texts are left out.     *)
(***************************************************************************)
EXTENDS ProtectedPaths, FiniteSets

CONSTANT
  System    \* the folders of Windows and of the user on this computer

Local   == System.userProfile \o <<"AppData", "Local">>
Roaming == System.userProfile \o <<"AppData", "Roaming">>

All(risk, paths) == {[path |-> p, risk |-> risk] : p \in paths}

-----------------------------------------------------------------------------
(* The known locations. *)

OwnRemains == All("Green", {Local \o <<"Cleaner", "quarentena">>, Local \o <<"Zelo", "quarentena">>})

WindowsLocations ==
  All("Green", {System.windows \o <<"SoftwareDistribution", "Download">>,
                Local \o <<"Microsoft", "Windows", "Explorer">>,
                System.programData \o <<"Microsoft", "Windows", "WER", "ReportArchive">>})

\* Mutant: the whole area of Codex, as the catalog once had it.
DevelopmentCachesOfOld ==
  All("Green", {Local \o <<"uv", "cache">>, Local \o <<"pip", "cache">>, Local \o <<"npm-cache">>})
    \cup All("Yellow", {System.userProfile \o <<".cache", "huggingface">>, System.userProfile \o <<".codex">>})

DevelopmentCaches ==
  All("Green", {Local \o <<"uv", "cache">>, Local \o <<"pip", "cache">>, Local \o <<"npm-cache">>})
    \cup All("Yellow", {System.userProfile \o <<".cache", "huggingface">>,
                        System.userProfile \o <<".cache", "codex-runtimes">>})

ApplicationCaches ==
  All("Green", {Local \o <<"NVIDIA", "DXCache">>, Local \o <<"NVIDIA", "GLCache">>,
                Local \o <<"Google", "Chrome", "User Data", "Default", "Cache">>,
                Local \o <<"Microsoft", "Edge", "User Data", "Default", "Cache">>,
                Local \o <<"D3DSCache">>})

MoreWindowsLocations ==
  All("Green", {System.windows \o <<"SoftwareDistribution", "DeliveryOptimization">>,
                System.windows \o <<"Logs", "CBS">>,
                System.windows \o <<"ServiceProfiles", "LocalService", "AppData", "Local", "FontCache">>,
                Local \o <<"CrashDumps">>,
                Local \o <<"Microsoft", "Windows", "INetCache">>})
    \cup All("Yellow", {System.windows \o <<"Panther">>, System.windows \o <<"Downloaded Installations">>})

CommonApplications ==
  All("Green", {Roaming \o <<"discord", "Cache">>, Local \o <<"Spotify", "Data">>,
                Roaming \o <<"Microsoft", "Teams", "Cache">>, Local \o <<"Yarn", "Cache">>})
    \cup All("Yellow", {System.userProfile \o <<".gradle", "caches">>,
                        System.userProfile \o <<".nuget", "packages">>,
                        System.userProfile \o <<".cargo", "registry">>})

KnownLocations ==
  OwnRemains \cup WindowsLocations \cup DevelopmentCaches \cup ApplicationCaches
    \cup MoreWindowsLocations \cup CommonApplications

-----------------------------------------------------------------------------
(* The profiles: a name that is in neither list is unknown. *)

Profile(root, green, red) == [root |-> root, green |-> green, red |-> red]

ElectronCaches == {"Cache", "Code Cache", "GPUCache", "DawnGraphiteCache", "DawnWebGPUCache", "logs"}
ElectronState  == {"Local Storage", "Session Storage", "IndexedDB", "Local State", "Network", "Partitions"}

VscodeProfile ==
  Profile(Roaming \o <<"Code">>,
          {"CachedExtensionVSIXs", "CachedData", "CachedProfilesData", "Crashpad"} \cup ElectronCaches,
          {"User"} \cup ElectronState)

CodexProfile ==
  Profile(System.userProfile \o <<".codex">>, {".tmp", "cache"}, {"sessions", "sqlite", "skills"})

ClaudeProfile ==
  Profile(Roaming \o <<"Claude">>, ElectronCaches,
          {"local-agent-mode-sessions", "claude-code-sessions", "ChromeNativeHost"} \cup ElectronState)

\* "Service Worker" is listed, as unknown.
ChromiumProfile(root) ==
  Profile(root,
          {"Cache", "Code Cache", "GPUCache", "ShaderCache", "Shared Dictionary"},
          {"Extensions", "Local Extension Settings", "Extension State", "IndexedDB", "Local Storage",
           "Session Storage", "File System", "Storage", "Network", "Login Data", "History", "Web Data",
           "Bookmarks", "Preferences"})

AdobeProfile ==
  Profile(Roaming \o <<"Adobe", "Common">>,
          {"Media Cache Files", "Media Cache", "Peak Files", "Metadata Cache"},
          {"Motion Graphics Templates", "Team Projects Local Hub"})

AppProfiles ==
  {VscodeProfile, CodexProfile, ClaudeProfile, AdobeProfile,
   ChromiumProfile(Local \o <<"Google", "Chrome", "User Data", "Default">>),
   ChromiumProfile(Local \o <<"Microsoft", "Edge", "User Data", "Default">>)}

\* Names are compared without case; none is guessed from another it resembles.
Listed(names, name) == \E n \in names : Normalize(<<n>>) = Normalize(<<name>>)

ItemRisk(profile, name) ==
  IF Listed(profile.green, name) THEN "Green" ELSE IF Listed(profile.red, name) THEN "Red" ELSE "Unknown"

InProfile(profile, path) ==
  Len(path) = Len(profile.root) + 1 /\ StrictlyUnder(Normalize(path), Normalize(profile.root))

-----------------------------------------------------------------------------
(* The collectors, on a computer whose folders and files have these sizes. *)

\* A scan that does not complete still gives what it saw; the deny-list decides over the catalog.
CollectLocations(folders, deny, complete) ==
  {[path |-> l.path, risk |-> l.risk, bytes |-> IF complete THEN folders[l.path] ELSE 0]
     : l \in {k \in KnownLocations : k.path \in DOMAIN folders /\ ~IsProtected(deny, k.path)}}

\* One that cannot be measured to the end is left out.
CollectProfiles(folders, complete) ==
  IF ~complete THEN {}
  ELSE UNION {{[path |-> p, risk |-> ItemRisk(profile, p[Len(p)]), bytes |-> folders[p]]
                 : p \in {f \in DOMAIN folders : InProfile(profile, f)}} : profile \in AppProfiles}

=============================================================================
