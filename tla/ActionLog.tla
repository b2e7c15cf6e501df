------------------------------- MODULE ActionLog -------------------------------
(***************************************************************************)
(* monitor::ActionLog: what the tools of the window did, one row each.     *)
(*                                                                         *)
(* Every caller opens the database anew, so any of them may find it closed *)
(* or fail to insert; the row is then lost and only the text log says so.  *)
(***************************************************************************)
EXTENDS Naturals, Sequences, SequencesExt

CONSTANTS
  MaxUnlogged,   \* bound: rows that are lost
  HistoryLimit   \* how many rows recent() gives

VARIABLES
  log,       \* the rows, in the order of their ids
  unlogged,  \* how many were lost
  history    \* what the history tab shows

logVars == <<log, unlogged, history>>

NoHistory == [total |-> 0, rows |-> <<>>]

LogInit == log = <<>> /\ unlogged = 0 /\ history = NoHistory

Kinds == {"deleted", "restored", "command"}

\* What the clock says, in local time, which is at times set back.
Times == {0, 1}

Rows == [at : Times, kind : Kinds, items : Nat, bytes : Nat, skipped : Nat]

\* record(), whether or not the caller looked at ok() first.
Record(kind, items, bytes, skipped) ==
  \/ /\ \E time \in Times :
          log' = Append(log, [at |-> time, kind |-> kind, items |-> items, bytes |-> bytes, skipped |-> skipped])
     /\ UNCHANGED <<unlogged, history>>
  \/ /\ unlogged < MaxUnlogged
     /\ unlogged' = unlogged + 1
     /\ UNCHANGED <<log, history>>

\* total_freed_bytes(): what was put back does not count.
TotalFreed == FoldLeft(LAMBDA total, row : IF row.kind = "restored" THEN total ELSE total + row.bytes, 0, log)

\* recent(): the latest first, and of one time the newest.
Recent(limit) ==
  LET order == SetToSortSeq(DOMAIN log, LAMBDA i, j : log[i].at > log[j].at \/ (log[i].at = log[j].at /\ i > j))
  IN  [k \in {n \in DOMAIN log : n <= limit} |-> log[order[k]]]

\* show_history() without a term, when the database opens.
ShowHistory ==
  /\ history' = [total |-> TotalFreed, rows |-> Recent(HistoryLimit)]
  /\ UNCHANGED <<log, unlogged>>
=============================================================================
