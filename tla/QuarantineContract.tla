-------------------------- MODULE QuarantineContract --------------------------
(***************************************************************************)
(* What QuarantineStore promises, without files, records or failing calls: *)
(* a vault of contents, each with the path it came from.  take(),          *)
(* restore() and purge_older_than() happen in one step, and one of them    *)
(* that fails changes nothing.                                             *)
(***************************************************************************)
EXTENDS Integers

CONSTANTS Files, Protected, Content, Ids, MaxVersion, None

VARIABLES
  home,         \* the content at each path
  vault,        \* what can be given back: the id, the path, the content
  version,      \* versions the owner of each path has written
  relinquished  \* contents given up by their owner or by an expiry

vars == <<home, vault, version, relinquished>>

Init ==
  /\ home = [f \in Files |-> <<f, 1>>]
  /\ vault = {}
  /\ version = [f \in Files |-> 1]
  /\ relinquished = {}

\* An id that is not in use, a path that is not protected, and the file moves.
Take(f, i) ==
  /\ home[f] # None /\ f \notin Protected
  /\ \A v \in vault : v.id # i
  /\ vault' = vault \cup {[id |-> i, file |-> f, content |-> home[f]]}
  /\ home' = [home EXCEPT ![f] = None]
  /\ UNCHANGED <<version, relinquished>>

\* Back to the path it came from, only when nothing is there.
Restore(v) ==
  /\ home[v.file] = None
  /\ vault' = vault \ {v}
  /\ home' = [home EXCEPT ![v.file] = v.content]
  /\ UNCHANGED <<version, relinquished>>

\* Everything older than the cutoff is given up and gone.
Purge(cutoff) ==
  LET expired == {v \in vault : v.id[1] < cutoff}
  IN  /\ expired # {}
      /\ vault' = vault \ expired
      /\ relinquished' = relinquished \cup {v.content : v \in expired}
      /\ UNCHANGED <<home, version>>

OwnerWrites(f) ==
  /\ version[f] < MaxVersion
  /\ version' = [version EXCEPT ![f] = @ + 1]
  /\ home' = [home EXCEPT ![f] = <<f, version[f] + 1>>]
  /\ relinquished' = relinquished \cup ({home[f]} \cap Content)
  /\ UNCHANGED vault

OwnerDeletes(f) ==
  /\ home[f] # None
  /\ home' = [home EXCEPT ![f] = None]
  /\ relinquished' = relinquished \cup ({home[f]} \cap Content)
  /\ UNCHANGED <<vault, version>>

Next ==
  \/ \E f \in Files : OwnerWrites(f) \/ OwnerDeletes(f)
  \/ \E f \in Files, i \in Ids : Take(f, i)
  \/ \E v \in vault : Restore(v)
  \/ \E i \in Ids : Purge(i[1] + 1)

Spec == Init /\ [][Next]_vars
=============================================================================
