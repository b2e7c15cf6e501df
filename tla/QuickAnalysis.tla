----------------------------- MODULE QuickAnalysis -----------------------------
(***************************************************************************)
(* The quick analysis: what the collectors make of a computer              *)
(* (collectors/), the rules that judge it (core/rules/), the use case that *)
(* runs them and the score it gives (core/usecases, core/scoring).         *)
(*                                                                         *)
(* A computer is a record of true readings.  A fault is the name of the    *)
(* one reading that goes wrong in an analysis.  Sizes are in megabytes,    *)
(* free space and free memory in percent.                                  *)
(***************************************************************************)
EXTENDS FindingsCatalog, Integers

-----------------------------------------------------------------------------
(* The computers. *)

Areas == {"volumes", "startup", "failures", "markers", "memory", "protected", "age", "disks", "ntfs",
          "servicing", "components", "temporary", "antivirus", "folders"}

Failing == {"Warning", "Unhealthy"}

\* What can be true of a computer in an area.  The antivirus is one of others: Windows is none.
IsReading(area, value) ==
  CASE area = "volumes"    -> \A v \in value : v.free \in Nat
    [] area = "failures"   -> IsFiniteSet(DOMAIN value) /\ \A app \in DOMAIN value : value[app] \in Nat
    [] area = "folders"    -> IsFiniteSet(DOMAIN value) /\ \A path \in DOMAIN value : value[path] \in Nat
    [] area \in {"startup", "markers"} -> IsFiniteSet(value)
    [] area = "disks"      -> value \subseteq [health : {"Healthy", "Unknown"} \cup Failing, errors : Nat]
    [] area = "protected"  -> value \in BOOLEAN
    [] area = "antivirus"  -> value # "Windows"
    [] OTHER               -> value \in Nat

IsComputer(c) ==
  c = [area \in Areas |-> c[area]] /\ \A area \in Areas : IsReading(area, c[area])

\* In each area, what is worse than good for a computer, or as good.
GetsWorse(area, good, bad) ==
  CASE area = "volumes"    -> \A v \in good : v.system => \E w \in bad : w.system /\ w.free <= v.free
    [] area = "failures"   -> \A app \in DOMAIN good : app \in DOMAIN bad /\ good[app] <= bad[app]
    [] area \in {"startup", "markers"} -> good \subseteq bad
    [] area = "memory"     -> bad <= good
    [] area = "protected"  -> bad => good
    [] area = "disks"      -> \A d \in good : \E e \in bad :
                                d.errors <= e.errors /\ (d.health \in Failing => e.health \in Failing)
    [] OTHER               -> good <= bad

-----------------------------------------------------------------------------
(* The collectors. *)

\* Mutant: a volume that does not answer is given, with nothing free.
CollectVolumesAsFull(computer, fault) ==
  IF fault = "drives" THEN {}
  ELSE {IF fault = "system-volume" /\ v.system THEN [v EXCEPT !.free = 0] ELSE v : v \in computer.volumes}

\* A volume that does not answer is omitted.
CollectVolumes(computer, fault) ==
  IF fault = "drives" THEN {} ELSE {v \in computer.volumes : fault # "system-volume" \/ ~v.system}

\* A key that does not open is skipped, and the list is called available all the same.
CollectStartup(computer, fault) == {i \in computer.startup : fault # "run-key" \/ i.folder}

\* A set as a sequence, those of the largest size first; those of one size in any order.
LargestFirst(found, size) ==
  LET Sorted[left \in SUBSET found] ==
        IF left = {} THEN <<>>
        ELSE LET next == CHOOSE f \in left : \A g \in left : size[g] <= size[f]
             IN  <<next>> \o Sorted[left \ {next}]
  IN  Sorted[found]

\* Mutant: in the order of the names, as the map has them.
GroupFailuresByName(failures) == failures

\* Of each program that failed, how often, the worst first.
GroupFailures(failures) ==
  LET apps == LargestFirst(DOMAIN failures, failures)
  IN  [i \in DOMAIN apps |-> failures[apps[i]]]

CollectStability(computer, fault) ==
  [available |-> fault # "failures",
   failures  |-> IF fault = "failures" THEN <<>> ELSE GroupFailures(computer.failures)]

\* One of the two channels is enough.
CollectIntegrity(computer, fault) ==
  [available  |-> fault # "both-channels",
   corruption |-> IF fault \in {"servicing", "both-channels"} THEN 0 ELSE computer.servicing,
   component  |-> IF fault \in {"components", "both-channels"} THEN 0 ELSE computer.components]

\* A marker that cannot be read counts as absent.
CollectUpdates(computer, fault) == IF fault = "marker" THEN {} ELSE computer.markers

CollectMemory(computer, fault) == [available |-> fault # "memory", free |-> computer.memory]

\* A status that Defender leaves out is taken for off; without a status the provider is another.
CollectSecurity(computer, fault) ==
  CASE fault = "security"        -> [available |-> FALSE, provider |-> "", on |-> FALSE, age |-> -1]
    [] fault = "defender-silent" -> [available |-> computer.antivirus # "", provider |-> computer.antivirus,
                                     on |-> FALSE, age |-> -1]
    [] OTHER -> [available |-> TRUE, provider |-> "Windows", age |-> computer.age,
                 on |-> computer.protected /\ fault # "status"]

\* Without its counters a disk has -1 of each.
CollectDisks(computer, fault) ==
  [available |-> fault # "disks",
   disks     |-> IF fault = "disks" THEN {}
                 ELSE IF fault = "counters" THEN {[d EXCEPT !.errors = -1] : d \in computer.disks}
                 ELSE computer.disks,
   eventsAvailable |-> fault \notin {"disks", "ntfs"},
   events          |-> IF fault \in {"disks", "ntfs"} THEN 0 ELSE computer.ntfs]

CollectTemporary(computer, fault) ==
  [available |-> fault # "temporary", total |-> IF fault = "temporary" THEN 0 ELSE computer.temporary]

\* All of them, one after the other.
CollectSnapshot(computer, fault) ==
  [volumes   |-> CollectVolumes(computer, fault),    startup  |-> CollectStartup(computer, fault),
   stability |-> CollectStability(computer, fault),  integrity |-> CollectIntegrity(computer, fault),
   updates   |-> CollectUpdates(computer, fault),    memory   |-> CollectMemory(computer, fault),
   security  |-> CollectSecurity(computer, fault),   disks    |-> CollectDisks(computer, fault),
   temporary |-> CollectTemporary(computer, fault),
   locations |-> CollectLocations(computer.folders, BuildProtectedPaths(System, {}), fault # "locations"),
   profiles  |-> CollectProfiles(computer.folders, fault # "profiles")]

Faults == {"none", "drives", "system-volume", "run-key", "failures", "servicing", "components",
           "both-channels", "marker", "memory", "security", "defender-silent", "status", "disks",
           "counters", "ntfs", "temporary", "locations", "profiles"}

-----------------------------------------------------------------------------
(* The rules.  Each gives a sequence of findings. *)

Finding(rule, category, severity) ==
  [rule |-> rule, category |-> category, severity |-> severity, counts |-> TRUE, risk |-> "Green",
   evidence |-> 1, reclaimable |-> 0, paths |-> {}]

When(condition, finding) == IF condition THEN <<finding>> ELSE <<>>

Severe(condition) == IF condition THEN "Serious" ELSE "Attention"

SystemVolumes(snapshot) == {v \in snapshot.volumes : v.system}

SystemVolumeIsTight(snapshot) == \E v \in SystemVolumes(snapshot) : v.free < 10

LowFreeSpace(snapshot) ==
  LET low == {v \in SystemVolumes(snapshot) : v.free < 10}
  IN  When(low # {}, Finding("low-free-space", "Storage", Severe(\E v \in low : v.free < 5)))

ExcessiveTemporaryFiles(snapshot) ==
  LET minimum == IF SystemVolumeIsTight(snapshot) THEN 100 ELSE 1024
      total   == snapshot.temporary.total
      severity == IF total >= 10240 THEN "Attention" ELSE "Info"
  IN  When(snapshot.temporary.available /\ total >= minimum,
           [Finding("excessive-temporary-files", "Storage", severity) EXCEPT !.reclaimable = total])

\* An item that was switched off counts like the others.
TooManyStartupItems(snapshot) ==
  LET candidates == {i \in snapshot.startup : ~i.essential}
  IN  When(Cardinality(candidates) > 5,
           [Finding("too-many-items", "Startup", Severe(Cardinality(candidates) >= 15))
              EXCEPT !.risk = "Yellow", !.paths = {<<i.name>> : i \in candidates}])

RecurringAppFailures(snapshot) ==
  LET failures  == snapshot.stability.failures
      recurring == {i \in DOMAIN failures : failures[i] >= 3}
      front     == CHOOSE i \in recurring : \A j \in recurring : i <= j
  IN  When(snapshot.stability.available /\ recurring # {},
           Finding("recurring-app-failures", "Stability", Severe(failures[front] >= 10)))

PendingReboot(snapshot) ==
  When(snapshot.updates # {},
       [Finding("pending-reboot", "Updates", "Attention") EXCEPT !.evidence = Cardinality(snapshot.updates)])

LowMemory(snapshot) ==
  When(snapshot.memory.available /\ snapshot.memory.free < 10,
       Finding("low-available-memory", "Performance", Severe(snapshot.memory.free < 5)))

WeakProtection(snapshot) ==
  LET security == snapshot.security
  IN  When(security.available /\ security.provider \in {"", "Windows"} /\ (~security.on \/ security.age > 7),
           Finding("weak-protection", "Security", Severe(~security.on)))

DiskHealth(snapshot) ==
  When(snapshot.disks.available
         /\ \E d \in snapshot.disks.disks : d.health \in Failing \/ d.errors >= 1,
       Finding("physical-warning", "Disks", "Serious"))

WindowsIntegrity(snapshot) ==
  When(snapshot.integrity.available /\ snapshot.integrity.corruption + snapshot.integrity.component >= 2,
       Finding("corruption-signs", "WindowsIntegrity", "Attention"))

FilesystemCorruption(snapshot) ==
  When(snapshot.disks.eventsAvailable /\ snapshot.disks.events >= 3,
       Finding("filesystem-corruption", "Disks", Severe(snapshot.disks.events >= 20)))

\* An opportunity is no defect: it takes nothing from the score.
Opportunity(rule, found, reclaimable) ==
  [Finding(rule, "Storage", "Info") EXCEPT !.counts = FALSE, !.risk = found.risk, !.paths = {found.path},
                                          !.reclaimable = reclaimable]

ReclaimableSpace(snapshot) ==
  LET minimum  == IF SystemVolumeIsTight(snapshot) THEN 100 ELSE 500
      large    == {l \in snapshot.locations : l.bytes >= minimum}
      relevant == LargestFirst(large, [l \in large |-> l.bytes])
  IN  [i \in DOMAIN relevant |-> Opportunity("reclaimable-location", relevant[i], relevant[i].bytes)]

AppProfile(snapshot) ==
  LET large    == {f \in snapshot.profiles : f.bytes >= 20}
      relevant == LargestFirst(large, [f \in large |-> f.bytes])
  IN  [i \in DOMAIN relevant |->
         Opportunity("profile-item", relevant[i], IF relevant[i].risk = "Green" THEN relevant[i].bytes ELSE 0)]

\* In the order of the use case.
DefaultRules(snapshot) ==
  LowFreeSpace(snapshot) \o ExcessiveTemporaryFiles(snapshot) \o TooManyStartupItems(snapshot)
    \o RecurringAppFailures(snapshot) \o PendingReboot(snapshot) \o LowMemory(snapshot)
    \o WeakProtection(snapshot) \o DiskHealth(snapshot) \o WindowsIntegrity(snapshot)
    \o FilesystemCorruption(snapshot) \o ReclaimableSpace(snapshot) \o AppProfile(snapshot)

-----------------------------------------------------------------------------
(* The score. *)

DeductionFor(severity) == CASE severity = "Info" -> 3 [] severity = "Attention" -> 10 [] OTHER -> 20

\* Of a category: what its findings leave of a hundred, and never less than nothing.
ScoreOf(recommendations, category) ==
  LET Against(severity) ==
        Cardinality({i \in DOMAIN recommendations :
                       /\ recommendations[i].counts /\ recommendations[i].category = category
                       /\ recommendations[i].severity = severity})
      Taken(severity) == DeductionFor(severity) * Against(severity)
      taken == Taken("Info") + Taken("Attention") + Taken("Serious")
  IN  IF taken > 100 THEN 0 ELSE 100 - taken

Categories ==
  {"Storage", "WindowsIntegrity", "Disks", "Stability", "Performance", "Updates", "Security", "Startup"}

\* In hundredths.
Weighted(recommendations) ==
  LET Of(category) == ScoreOf(recommendations, category)
  IN  15 * (Of("Storage") + Of("WindowsIntegrity") + Of("Disks") + Of("Stability") + Of("Performance"))
        + 10 * (Of("Updates") + Of("Security")) + 5 * Of("Startup")

Worst(recommendations) ==
  CHOOSE w \in {ScoreOf(recommendations, c) : c \in Categories} :
    \A c \in Categories : w <= ScoreOf(recommendations, c)

\* Mutant: the weighted mean alone, as the score once was.
MeanOnly(recommendations) == (Weighted(recommendations) + 50) \div 100

\* Half of it the weighted mean, half the worst category, rounded.
Overall(recommendations) ==
  (Weighted(recommendations) + 100 * Worst(recommendations) + 100) \div 200

\* The filesystem events and the profiles have no name here.
Unavailable(snapshot) ==
  {area \in {"volumes", "temporary", "stability", "memory", "security", "disks", "integrity"} :
     CASE area = "volumes"   -> snapshot.volumes = {}
       [] area = "temporary" -> ~snapshot.temporary.available
       [] area = "stability" -> ~snapshot.stability.available
       [] area = "memory"    -> ~snapshot.memory.available
       [] area = "security"  -> ~snapshot.security.available
       [] area = "disks"     -> ~snapshot.disks.available
       [] OTHER              -> ~snapshot.integrity.available}

\* A finding without evidence is dropped; the others stay in their order.
Validated(findings) ==
  LET supported == {i \in DOMAIN findings : findings[i].evidence > 0}
  IN  [k \in 1..Cardinality(supported) |->
         findings[CHOOSE i \in supported : Cardinality({j \in supported : j <= i}) = k]]

Run(snapshot) ==
  LET valid == Validated(DefaultRules(snapshot))
  IN  [recommendations |-> valid, unavailable |-> Unavailable(snapshot), overall |-> Overall(valid)]

\* Red and unknown are never the program's to execute.
AppMayExecute(recommendation) == recommendation.risk \in {"Green", "Yellow"}
=============================================================================
