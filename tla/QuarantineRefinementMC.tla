----------------------- MODULE QuarantineRefinementMC -----------------------
(* Instance of QuarantineRefinement for TLC. *)
EXTENDS QuarantineRefinement

\* Failures the code meets with a fallback of its own.
HandledFaults == {"move", "copy", "remove", "write_record", "replace_record"}
=============================================================================
