------------------------------- MODULE Sessions -------------------------------
(***************************************************************************)
(* An analysis from the click to the file: the worker that reads the       *)
(* computer and runs the rules (ui/main_window.cpp, start_analysis), the   *)
(* list, the details and the button the result is shown in, and the        *)
(* history it is saved to.  The computer does not change; of an analysis   *)
(* at most one reading fails.                                              *)
(***************************************************************************)
EXTENDS HistoryStore, QuickAnalysis

CONSTANTS
  Chains,        \* of each area, its readings from good to bad
  Starts,        \* the computers there are, and the data folders a first start finds there
  MaxAnalyses    \* how many analyses are begun

ASSUME ComputersAssumption == \A start \in Starts : IsComputer(start.computer)

\* An area has its chain only if its readings go from good to bad.
ASSUME ChainsAssumption ==
  /\ DOMAIN Chains \subseteq Areas \ {"antivirus", "folders"}
  /\ \A area \in DOMAIN Chains : \A i \in 1..(Len(Chains[area]) - 1) :
       IsReading(area, Chains[area][i + 1]) /\ GetsWorse(area, Chains[area][i], Chains[area][i + 1])

\* No session is torn before the first start.
ASSUME StartsAssumption ==
  \A start \in Starts :
    /\ DOMAIN start.found \subseteq {Previous, Default}
    /\ \A n \in DOMAIN start.found, s \in Ids :
         SessionFile(s) \in DOMAIN start.found[n] => start.found[n][SessionFile(s)] # "torn"

VARIABLES
  machine,     \* what is true of the computer
  analyses,    \* how many analyses were begun
  delivered,   \* the result the worker hands over
  result_,     \* the result on the screen
  row,         \* the current row of the list; 0 is none
  details,     \* the findings the details describe: one, or none
  button       \* the findings the button acts on, and what it says

windowVars == <<delivered, result_, row, details, button>>
vars == <<storeVars, phase, machine, analyses, windowVars>>

NoResult == [recommendations |-> <<>>, unavailable |-> {}, overall |-> 100]
Hidden   == [text |-> "hidden", finding |-> {}]

Blank ==
  /\ delivered' = NoResult /\ result_' = NoResult
  /\ row' = 0 /\ details' = {} /\ button' = Hidden

Init ==
  /\ \E start \in Starts : StoreInit(start.found) /\ machine = start.computer
  /\ analyses = 0
  /\ delivered = NoResult /\ result_ = NoResult
  /\ row = 0 /\ details = {} /\ button = Hidden

-----------------------------------------------------------------------------
(* The list. *)

Cleanable(finding) ==
  /\ AppMayExecute(finding) /\ finding.paths # {}
  /\ finding.rule \in {"excessive-temporary-files", "reclaimable-location", "profile-item"}

ButtonOf(finding) ==
  CASE finding.rule = "too-many-items" -> [text |-> "startup", finding |-> {finding}]
    [] Cleanable(finding)              -> [text |-> "clean", finding |-> {finding}]
    [] OTHER                           -> Hidden

Show(result, r) ==
  LET selected == IF r \in DOMAIN result.recommendations THEN {result.recommendations[r]} ELSE {}
  IN  /\ row' = r
      /\ button' = IF selected = {} THEN Hidden ELSE ButtonOf(CHOOSE f \in selected : TRUE)
      /\ details' = selected

SelectRow ==
  /\ phase \in {"idle", "analysing", "delivered", "stuck"}
  /\ \E r \in DOMAIN result_.recommendations : Show(result_, r)
  /\ UNCHANGED <<storeVars, phase, machine, analyses, delivered, result_>>

-----------------------------------------------------------------------------
(* An analysis. *)

StartAnalysis ==
  /\ phase = "idle" /\ analyses < MaxAnalyses
  /\ analyses' = analyses + 1
  /\ phase' = "analysing"
  /\ UNCHANGED <<storeVars, machine, windowVars>>

\* The computers that are a step worse than this one in one area.
Worse(c) ==
  UNION {{[c EXCEPT ![area] = Chains[area][i + 1]]
            : i \in {k \in 1..(Len(Chains[area]) - 1) : Chains[area][k] = c[area]}} : area \in DOMAIN Chains}

Analyse(c, fault) == Run(CollectSnapshot(c, fault))

\* What an analysis of each computer comes to: with every reading true, with one that fails, where
\* Defender leaves out its status and where it is off, and what the computers would score that are a
\* step worse.
Outcomes ==
  {[computer |-> c, truth |-> Analyse(c, "none"),
    seen  |-> {[failed |-> fault # "none", result |-> Analyse(c, fault)] : fault \in Faults},
    silent |-> Analyse(c, "status"), off |-> Analyse([c EXCEPT !.protected = FALSE], "none"),
    worse |-> {Analyse(w, "none").overall : w \in Worse(c)}] : c \in {start.computer : start \in Starts}}

Outcome == CHOOSE o \in Outcomes : o.computer = machine

\* In the worker.
CollectAndRun ==
  /\ phase = "analysing"
  /\ \E seen \in Outcome.seen :
       /\ IF seen.failed THEN Fail ELSE UNCHANGED faults
       /\ delivered' = seen.result
  /\ phase' = "delivered"
  /\ UNCHANGED <<data, id, listed, kills, unflushed, excused, refused, machine, analyses,
                 result_, row, details, button>>

\* A key that is deleted while its values are counted never has no more of them.
RunKeyVanishes ==
  /\ phase = "analysing" /\ Fail
  /\ phase' = "stuck"
  /\ UNCHANGED <<data, id, listed, kills, unflushed, excused, refused, machine, analyses, windowVars>>

\* Mutant: the rows are replaced under the selection.
ShowInPlace(result) ==
  IF row \in DOMAIN result.recommendations THEN UNCHANGED <<row, details, button>> ELSE Show(result, 0)

\* Clearing the list hides the button; filling it selects the first.
ShowResult(result) == Show(result, IF result.recommendations = <<>> THEN 0 ELSE 1)

\* In the thread of the window again, which writes the session in the same callback.
Deliver ==
  /\ phase = "delivered"
  /\ result_' = delivered /\ delivered' = NoResult
  /\ ShowResult(delivered)
  /\ \E session \in Ids : OpenTemporary(session)
  /\ phase' = "writing"
  /\ UNCHANGED <<machine, analyses>>

Finish ==
  /\ phase = "quarantining" /\ listed = <<>>
  /\ phase' = "idle" /\ id' = 0
  /\ UNCHANGED <<data, listed, faults, kills, unflushed, excused, refused, machine, analyses, windowVars>>

\* What a worker still brings finds no window.
CloseWindow ==
  /\ phase \in {"idle", "analysing", "delivered"}
  /\ phase' = "closed"
  /\ Blank
  /\ UNCHANGED <<storeVars, machine, analyses>>

Start ==
  /\ phase = "closed"
  /\ phase' = "adopting"
  /\ UNCHANGED <<storeVars, machine, analyses, windowVars>>

Store ==
  /\ \/ AdoptPreviousDataDirectory \/ InitializeLogging
     \/ WriteSession \/ ReplaceAtomically
     \/ ApplyRetention \/ RemoveOld \/ ListUnreadable \/ QuarantineUnreadable
  /\ UNCHANGED <<machine, analyses, windowVars>>

End == (Kill \/ LosePower) /\ Blank /\ UNCHANGED <<machine, analyses>>

Analysis == StartAnalysis \/ CollectAndRun \/ RunKeyVanishes \/ Deliver \/ Finish

Next == Store \/ End \/ Analysis \/ SelectRow \/ CloseWindow \/ Start

Spec == Init /\ [][Next]_vars

\* A worker that was started runs; what the window has begun it finishes.
FairSpec == Spec /\ WF_vars(CollectAndRun \/ RunKeyVanishes)

-----------------------------------------------------------------------------
(* Properties. *)

Texts == {"hidden", "startup", "clean"}

\* Every variable holds what the classes hold.
TypeOK ==
  /\ DOMAIN data \subseteq {Previous, Default}
  /\ \A n \in DOMAIN data : \A f \in DOMAIN data[n] :
       f[1] \in Ids /\ f[2] \in {"json", "tmp", "corrupt"} /\ data[n][f] \in {"whole", "torn"}
  /\ phase \in {"closed", "adopting", "logging", "idle", "analysing", "stuck", "delivered", "writing",
                "replacing", "listing", "pruning", "quarantining"}
  /\ id \in Ids \cup {0} /\ listed \in Seq(Ids)
  /\ faults \in 0..MaxFaults /\ kills \in 0..MaxKills /\ analyses \in 0..MaxAnalyses
  /\ unflushed \subseteq Ids /\ excused \subseteq Ids /\ refused \in BOOLEAN
  /\ result_.overall \in 0..100 /\ delivered.overall \in 0..100
  /\ row \in 0..Len(result_.recommendations) /\ button.text \in Texts

\* A computer that is worse in one area and the same in the others never scores higher: the rules
\* that count, look at the worst first or take a share never reward it (core/rules).  And one serious
\* finding, wherever it is, keeps the general score at 90 or less: the mean alone diluted it
\* (health_score.cpp:47-54).
ScoreFollowsHealth ==
  phase = "delivered" =>
    /\ \A score \in Outcome.worse : score <= Outcome.truth.overall
    /\ (\E i \in DOMAIN delivered.recommendations :
          delivered.recommendations[i].counts /\ delivered.recommendations[i].severity = "Serious")
         => delivered.overall <= 90

\* What was not seen is not held against the computer (volume_collector.cpp:66, disk_collector.cpp:45):
\* a reading that fails takes nothing from the score the true one would have left, but for the status
\* Defender leaves out of its answer, which is taken for off (security_collector.cpp:16-18) and costs
\* no more than that.
FaultsNeverAccuse ==
  phase = "delivered" =>
    delivered.overall >= (IF delivered = Outcome.silent THEN Outcome.off ELSE Outcome.truth).overall

\* A name the profiles say nothing of.
Stranger == "anything else"

Own == {Normalize(Append(profile.root, name)) : profile \in AppProfiles, name \in {Stranger}}
         \cup UNION {{Normalize(Append(profile.root, name)) : name \in profile.red} : profile \in AppProfiles}

\* The button's part of what follows.
ButtonOnTheRow ==
  /\ details = {result_.recommendations[r] : r \in {row} \cap DOMAIN result_.recommendations}
  /\ button.text # "hidden" =>
       /\ button.finding = details
       /\ \A f \in details : AppMayExecute(f) /\ f.paths # {}

\* What the details describe and what the button acts on is the finding under the current row, through
\* new results, re-selections and restarts; no button is on a finding the program may not execute
\* (main_window.cpp:1611-1649); and no folder it would clean is, holds or lies in what a profile says
\* is the user's own or does not know: the two catalogs agree (known_locations.cpp, app_profiles.cpp).
ButtonSparesWhatIsYours ==
  /\ ButtonOnTheRow
  /\ button.text # "hidden" =>
       \A f \in {g \in details : Cleanable(g)} : \A path \in {Normalize(p) : p \in f.paths}, own \in Own :
         ~AtOrUnder(own, path) /\ ~AtOrUnder(path, own)

\* The session of an analysis is whole whenever the process ends, unless a write failed or the power
\* went before the disk had it (history_store.cpp:21-27, 106-120).
KillNeverTears ==
  \A n \in DOMAIN data, s \in Ids :
    (SessionFile(s) \in DOMAIN data[n] /\ data[n][SessionFile(s)] = "torn") => s \in excused

\* The retention never removes a session while fewer than Keep newer ones are left, whatever it failed
\* to remove before and wherever it was killed (history_store.cpp:157-167).
NewestKept ==
  [][phase = "pruning" /\ phase' = "pruning" =>
       \A s \in Ids :
         SessionFile(s) \in DOMAIN History /\ SessionFile(s) \notin DOMAIN data'[Default] =>
           Cardinality({k \in Ids : k > s /\ SessionFile(k) \in DOMAIN data'[Default]}) >= Keep]_vars

\* Once the program is up, a folder of the old name is left only where the new one existed before the
\* first start or the system refused the rename (main.cpp:155-159, history_store.cpp:77-95).
AdoptedUnlessRefused ==
  phase \notin {"adopting", "closed"} /\ Previous \in DOMAIN data =>
    \/ refused
    \/ \E start \in Starts :
         {Previous, Default} \subseteq DOMAIN start.found /\ start.found[Previous] = data[Previous]

-----------------------------------------------------------------------------
(* Refuted: what the code says and does not do. *)

\* The same of every reading, the status that is left out among them.
NoFaultAccuses == phase = "delivered" => delivered.overall >= Outcome.truth.overall

\* main_window.cpp:1617: a finding whose action the program knows how to execute has its button.
ActionOffered ==
  \A i \in DOMAIN result_.recommendations :
    LET finding == result_.recommendations[i]
    IN  finding.rule \in {"excessive-temporary-files", "reclaimable-location", "profile-item"}
          /\ AppMayExecute(finding) => Cleanable(finding)

\* known_locations.cpp:52-54: no files make two findings and are summed twice.
OncePerPath ==
  \A i, k \in DOMAIN result_.recommendations :
    i # k => result_.recommendations[i].paths \cap result_.recommendations[k].paths = {}

\* main_window.cpp:2067: what was not looked at is named.
UnseenNamed ==
  phase = "delivered" /\ delivered.recommendations # Outcome.truth.recommendations
    => delivered.unavailable # {}

\* system_snapshot.hpp: an item that was switched off does not start with Windows.
DisabledNotAccused ==
  \A i \in DOMAIN result_.recommendations :
    result_.recommendations[i].rule = "too-many-items" =>
      Cardinality({s \in machine.startup : s.enabled /\ ~s.essential}) > 5

\* history_store.hpp:44-46: a loss of power leaves no history in half.
CompleteOrAbsent == \A s \in Ids : LET f == SessionFile(s) IN
  \A n \in DOMAIN data : f \in DOMAIN data[n] => data[n][f] = "whole"

\* An analysis that was begun ends.
AnalysisEnds == phase = "analysing" ~> phase \notin {"analysing", "stuck"}
=============================================================================
