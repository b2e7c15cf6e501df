---------------------------- MODULE InstallerCache ----------------------------
(***************************************************************************)
(* commands::scan_installer_cache(): the packages Windows keeps, and those *)
(* no installed product claims, as MainWindow::review_installer_cache()    *)
(* shows them.  Nothing is removed: the code that would is not called.     *)
(*                                                                         *)
(* The products are asked for one index at a time and then the folder is   *)
(* listed, while programs are installed and removed.  Windows never takes  *)
(* a package away.                                                         *)
(***************************************************************************)
EXTENDS Naturals, Sequences, SequencesExt, FiniteSetsExt

CONSTANTS
  Products,           \* the products that may be installed
  PackageOf,          \* the package of each
  PatchesOf,          \* the packages of its patches, in order
  MaxInstallChanges,  \* bound: products installed or removed
  MaxInstallerFaults  \* bound: questions Windows does not answer

ASSUME InstallerAssumption == IsFiniteSet(Products)

Packages == {PackageOf[p] : p \in Products} \cup UNION {Range(PatchesOf[p]) : p \in Products}

VARIABLES
  installed,      \* the products, in the order Windows enumerates them
  kept,           \* the packages in the folder
  installChanges, installerFaults,
  reviewing,      \* "idle", "enumerating", "listing", "reviewed"
  index,          \* of the product asked for next
  referenced,     \* the packages claimed so far
  unlisted,       \* the packages the listing has yet to give
  readable,       \* products_readable
  orphans,        \* the packages nobody claims
  claimed,        \* how many somebody does
  throughout,     \* history: the products installed since the review began
  unanswered,     \* history: the packages of which Windows did not tell the owner
  shifted         \* history: a product was removed while they were asked for

installerVars == <<installed, kept, installChanges, installerFaults, reviewing, index, referenced, unlisted,
                   readable, orphans, claimed, throughout, unanswered, shifted>>

Claims(p) == {PackageOf[p]} \cup Range(PatchesOf[p])

InstallerInit ==
  /\ \E s \in SUBSET Products : installed = SetToSeq(s)
  /\ kept \in {k \in SUBSET Packages : \A p \in Range(installed) : Claims(p) \subseteq k}
  /\ installChanges = 0
  /\ installerFaults = 0
  /\ reviewing = "idle"
  /\ index = 1
  /\ referenced = {}
  /\ unlisted = {}
  /\ readable = FALSE
  /\ orphans = {}
  /\ claimed = 0
  /\ throughout = {}
  /\ unanswered = {}
  /\ shifted = FALSE

-----------------------------------------------------------------------------

InstallChange ==
  /\ installChanges < MaxInstallChanges
  /\ installChanges' = installChanges + 1
  /\ \/ /\ \E p \in Products \ Range(installed) :
             /\ installed' = Append(installed, p)
             /\ kept' = kept \cup Claims(p)
        /\ UNCHANGED <<throughout, shifted>>
     \/ /\ \E i \in DOMAIN installed :
             /\ installed' = RemoveAt(installed, i)
             /\ throughout' = throughout \ {installed[i]}
        /\ shifted' = (shifted \/ reviewing = "enumerating")
        /\ UNCHANGED kept
  /\ UNCHANGED <<installerFaults, reviewing, index, referenced, unlisted, readable, orphans, claimed, unanswered>>

InstallerFault == installerFaults < MaxInstallerFaults /\ installerFaults' = installerFaults + 1

ReviewInstallerCache ==
  /\ reviewing = "idle"
  /\ throughout' = Range(installed)
  /\ \/ reviewing' = "enumerating" /\ UNCHANGED installerFaults
     \/ InstallerFault /\ reviewing' = "reviewed"    \* the library does not answer
  /\ UNCHANGED <<installed, kept, installChanges, index, referenced, unlisted, readable, orphans, claimed,
                 unanswered, shifted>>

\* A question about a package that fails skips this one; a patch that is not enumerated
\* ends the patches.  What fails of one product counts as one fault.
Answers(p) == {[told |-> t, faults |-> IF t = Claims(p) THEN 0 ELSE 1] : t \in SUBSET Claims(p)}

NextProduct ==
  /\ reviewing = "enumerating"
  /\ index <= Len(installed)
  /\ \E a \in Answers(installed[index]) :
       /\ installerFaults + a.faults <= MaxInstallerFaults
       /\ installerFaults' = installerFaults + a.faults
       /\ referenced' = referenced \cup a.told
       /\ unanswered' = unanswered \cup (Claims(installed[index]) \ a.told)
  /\ index' = index + 1
  /\ UNCHANGED <<installed, kept, installChanges, reviewing, unlisted, readable, orphans, claimed, throughout, shifted>>

\* Mutant: the products told so far are the products.
EnumerationBrokenKept ==
  /\ reviewing = "enumerating"
  /\ InstallerFault
  /\ readable' = TRUE
  /\ unlisted' = kept
  /\ reviewing' = "listing"
  /\ UNCHANGED <<installed, kept, installChanges, index, referenced, orphans, claimed, throughout, unanswered, shifted>>

\* Half a list of owners would make orphans of packages in use: all is dropped.
EnumerationBroken ==
  /\ reviewing = "enumerating"
  /\ InstallerFault
  /\ referenced' = {}
  /\ reviewing' = "reviewed"
  /\ UNCHANGED <<installed, kept, installChanges, index, unlisted, readable, orphans, claimed, throughout,
                 unanswered, shifted>>

ProductsEnd ==
  /\ reviewing = "enumerating"
  /\ index > Len(installed)
  /\ readable' = TRUE
  /\ unlisted' = kept
  /\ reviewing' = "listing"
  /\ UNCHANGED <<installed, kept, installChanges, installerFaults, index, referenced, orphans, claimed, throughout,
                 unanswered, shifted>>

\* One whose size cannot be read is left out.
ListPackage ==
  /\ reviewing = "listing"
  /\ unlisted # {}
  /\ \E f \in unlisted :
       /\ unlisted' = unlisted \ {f}
       /\ \/ /\ f \in referenced
             /\ claimed' = claimed + 1
             /\ UNCHANGED <<orphans, installerFaults>>
          \/ /\ f \notin referenced
             /\ orphans' = orphans \cup {f}
             /\ UNCHANGED <<claimed, installerFaults>>
          \/ InstallerFault /\ UNCHANGED <<claimed, orphans>>
  /\ UNCHANGED <<installed, kept, installChanges, reviewing, index, referenced, readable, throughout, unanswered, shifted>>

ShowReview ==
  /\ reviewing = "listing"
  /\ unlisted = {}
  /\ reviewing' = "reviewed"
  /\ UNCHANGED <<installed, kept, installChanges, installerFaults, index, referenced, unlisted, readable, orphans,
                 claimed, throughout, unanswered, shifted>>

ReviewStep == NextProduct \/ EnumerationBroken \/ ProductsEnd \/ ListPackage \/ ShowReview

InstallerNext == ReviewInstallerCache \/ ReviewStep \/ InstallChange

-----------------------------------------------------------------------------

\* Types of the review; an orphan and a package to list are in the folder.
InstallerTypes ==
  /\ Range(installed) \subseteq Products
  /\ reviewing \in {"idle", "enumerating", "listing", "reviewed"}
  /\ unlisted \cup orphans \subseteq kept
  /\ kept \subseteq Packages
  /\ orphans # {} => readable

\* A package shown without an owner has none among the products installed
\* since the review began, as far as Windows answered and no product was
\* removed, and the others moved up one place, while they were asked for
\* (installer_cache.cpp:163).
OrphansUnowned ==
  \A f \in orphans, p \in throughout : f \in Claims(p) => f \in unanswered \/ shifted

\* What the window says of them: no installed product claims one (main_window.cpp:1239).
NobodyClaims ==
  reviewing = "reviewed" =>
    \A f \in orphans, p \in throughout : f \notin Claims(p)
=============================================================================
