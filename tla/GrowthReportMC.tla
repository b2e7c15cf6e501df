---------------------------- MODULE GrowthReportMC ----------------------------
(* Instances of GrowthReport for TLC: a chain and a fork of four folders. *)
EXTENDS GrowthReport

CONSTANTS a, b, c

Chain == [f \in {Root, a, b, c} |->
            CASE f \in {Root, a} -> Root [] f = b -> a [] f = c -> b]
Fork  == [f \in {Root, a, b, c} |-> IF f \in {Root, a} THEN Root ELSE a]

ChainAndFork  == {Chain, Fork}
NoneOrTheLastTwo == {{}, {c}, {b, c}}
TwoSizes      == {0, 2}
=============================================================================
