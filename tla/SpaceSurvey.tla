----------------------------- MODULE SpaceSurvey -----------------------------
(***************************************************************************)
(* survey_space(): a scan of the whole volume, the totals of each folder,  *)
(* the tree of the folders worth showing and the bytes of each class.      *)
(*                                                                         *)
(* The scan runs step by step (StorageScanner); what follows it touches    *)
(* nothing but its result and is one step.  Texts and the sorting of the   *)
(* children are left out.                                                  *)
(***************************************************************************)
EXTENDS StorageScanner, ContentClassifier

CONSTANTS
  PathOf,        \* the segments of each folder's path
  Alphabet,      \* the folders as the keys of a std::map stand, a parent before its own
  TreeDepth,     \* tree_depth
  MinimumNode    \* minimum_node_bytes

ASSUME PathsAssumption ==
  /\ Folders \subseteq DOMAIN PathOf
  /\ Alphabet \in Seq(Folders) /\ Folders = {Alphabet[i] : i \in DOMAIN Alphabet}
  /\ \A i, j \in DOMAIN Alphabet :
       Alphabet[i] \in AncestorsOrSelf(Alphabet[j]) => i <= j

VARIABLE
  survey    \* the SpaceSurvey shown, or None

surveyVars == <<vars, survey>>

SurveyOptions == [largestKept |-> 0, rollupDepth |-> 0, emitAll |-> TRUE, unreadableKept |-> 50]

-----------------------------------------------------------------------------

Empty == [allocated |-> 0, logical |-> 0, files |-> 0, unreadable |-> 0]
Added(a, b) == [k \in DOMAIN Empty |-> a[k] + b[k]]

\* What lies loose in each folder the scan names, and their parents.
Buckets ==
  LET named == DOMAIN rollups \cup result.unreadable
      bucket(f) ==
        [allocated  |-> IF f \in DOMAIN rollups THEN rollups[f].allocated ELSE 0,
         logical    |-> IF f \in DOMAIN rollups THEN rollups[f].bytes ELSE 0,
         files      |-> IF f \in DOMAIN rollups THEN rollups[f].files ELSE 0,
         unreadable |-> IF f \in result.unreadable THEN 1 ELSE 0]
  IN  [f \in {Root} \cup UNION {AncestorsOrSelf(g) : g \in named} |-> bucket(f)]

\* Mutant: the map is read forwards.
TotalsForwards ==
  LET raise(t, f) == IF f = Root \/ f \notin DOMAIN t THEN t
                     ELSE [t EXCEPT ![In[f]] = Added(@, t[f])]
  IN  FoldLeft(raise, Buckets, Alphabet)

\* Read backwards, the map gives every folder after all there is below it.
Totals ==
  LET raise(f, t) == IF f = Root \/ f \notin DOMAIN t THEN t
                     ELSE [t EXCEPT ![In[f]] = Added(@, t[f])]
  IN  FoldRight(raise, Alphabet, Buckets)

AllocatedIn(t) == [f \in DOMAIN t |-> t[f].allocated]

\* Below the root of a drive the depth of its folders is zero.
Shown(totals) ==
  {f \in DOMAIN totals \ {Root} : totals[f].allocated >= MinimumNode /\ Depth(f) - 1 <= TreeDepth}

\* Mutant: every node hangs from the root.
HangsFromRoot(f, shown) == Root

\* The nearest ancestor shown, or the root.
HangsFrom(f, shown) ==
  CHOOSE a \in (AncestorsOrSelf(f) \ {f}) \cap (shown \cup {Root}) :
    \A b \in (AncestorsOrSelf(f) \ {f}) \cap (shown \cup {Root}) : Depth(b) <= Depth(a)

\* Mutant: every node counts for its class.
LeavesAndNodes(nodes, hangs) == nodes

Leaves(nodes, hangs) == {f \in nodes : \A c \in DOMAIN hangs : hangs[c] # f}

ByClass(totals, leaves) ==
  [class \in Classes |->
     Sum(AllocatedIn(totals), {f \in leaves : Classify(PathOf[f]).class = class})]

BuildSurvey ==
  LET totals == Totals
      shown  == Shown(totals)
      hangs  == [f \in shown |-> HangsFrom(f, shown)]
  IN  [identified |-> result.allocated, complete |-> result.completed,
       unreadable |-> result.skipped, totals |-> totals, shown |-> shown, hangs |-> hangs,
       byClass    |-> ByClass(totals, Leaves(shown \cup {Root}, hangs))]

SurveyInit == Init /\ survey = None

Build ==
  /\ done /\ survey = None /\ options = SurveyOptions
  /\ survey' = BuildSurvey
  /\ UNCHANGED vars

SurveyNext == (ScanNext /\ UNCHANGED survey) \/ Build

SurveySpec == SurveyInit /\ [][SurveyNext]_surveyVars

-----------------------------------------------------------------------------
(* Properties.                                                               *)

TypeOK ==
  /\ present \subseteq Entries /\ current \in Folders \cup {None}
  /\ listing \subseteq Entries /\ {pending[i] : i \in DOMAIN pending} \subseteq Folders
  /\ stop \in BOOLEAN /\ done \in BOOLEAN
  /\ result.skipped \in Nat /\ result.unreadable \subseteq Folders
  /\ DOMAIN rollups \subseteq Folders
  /\ largest \subseteq FileNames /\ seen \subseteq Contents
  /\ survey # None => survey.shown \subseteq Folders

Below(f)    == {g \in DOMAIN survey.totals : f \in AncestorsOrSelf(g)}
HungFrom(f) == {c \in survey.shown : survey.hangs[c] = f}

\* The tree and the classes add up: the total of a folder is what the scan found
\* in it and anywhere below, the total of the volume what it identified; the children
\* of a node hold no more than the node, whatever was left out between them; and the
\* classes together claim no more than the volume holds.
SurveyAddsUp ==
  survey # None =>
    /\ \A f \in DOMAIN survey.totals :
         survey.totals[f].allocated =
           Sum(AllocatedIn(rollups), Below(f) \cap DOMAIN rollups)
    /\ survey.identified = survey.totals[Root].allocated + own.allocated
    /\ \A f \in survey.shown \cup {Root} :
         Sum(AllocatedIn(survey.totals), HungFrom(f)) <= survey.totals[f].allocated
    /\ Sum(survey.byClass, Classes) <= survey.identified

\* A node without unreadable folders shows a total, not a floor (space_tree.hpp:34).
FloorIsMarked ==
  survey # None /\ survey.complete =>
    \A f \in survey.shown : survey.totals[f].unreadable = 0 =>
      \A n \in FileNames : Untouched(n) /\ WithinReach(n) /\ f \in AncestorsOrSelf(n) => n \in counted

\* The bytes shown as safe lie in folders whose own path is classified so.
SafeNotOverstated ==
  survey # None =>
    survey.byClass["safe"] <=
      Sum(AllocatedIn(rollups), {f \in DOMAIN rollups : Classify(PathOf[f]).class = "safe"})
=============================================================================
