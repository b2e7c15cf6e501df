---------------------------- MODULE SpaceSurveyMC ----------------------------
(* A volume of four folders, one a link back to the root, and four names. *)
EXTENDS SpaceSurvey

CONSTANTS c, windows, temp, users, junction, dump, copy, photo, alias

TreeOf ==
  [e \in {windows, temp, users, junction, dump, copy, photo, alias} |->
     CASE e \in {windows, users}         -> c
       [] e \in {temp, dump}             -> windows
       [] e \in {junction, photo, alias} -> users
       [] e = copy                       -> temp]
Names      == {dump, copy, photo, alias}
Content    == [n \in Names |-> CASE n \in {dump, copy} -> "large" [] n = photo -> "photo"
                                 [] n = alias -> "large"]
Sizes      == [x \in {"large", "photo"} |-> IF x = "large" THEN 3 ELSE 5]
Junction   == [l \in {junction} |-> c]
Reparse    == {junction, alias}
InCloud    == {photo}
TopOne     == [largestKept |-> 1, rollupDepth |-> 1, emitAll |-> FALSE, unreadableKept |-> 1]
TwoCallers == {SurveyOptions, TopOne}
Paths ==
  [f \in {c, windows, temp, users, junction} |->
     CASE f = c -> <<"c:">> [] f = windows -> <<"c:", "windows">>
       [] f = temp -> <<"c:", "windows", "temp">> [] f = users -> <<"c:", "users">>
       [] f = junction -> <<"c:", "users", "junction">>]
\* A folder of a cache with a protected one inside.
ProtectedInside ==
  [Paths EXCEPT ![windows] = <<"c:", "crashdumps">>, ![temp] = <<"c:", "crashdumps", "sessions">>]
Keys == <<c, users, junction, windows, temp>>
=============================================================================
