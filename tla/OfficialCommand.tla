---------------------------- MODULE OfficialCommand ----------------------------
(***************************************************************************)
(* A cleaning of Windows itself: run_selected_windows_command() asks, and  *)
(* commands::run_official_command() starts the program, reads what it      *)
(* writes until it ends or the time is over, and tells what its exit means.*)
(*                                                                         *)
(* The program writes to a pipe, blocks when it is full, and exits when it *)
(* pleases or never; it writes at most MaxOutput chunks, the size of one   *)
(* read.  The clock is one flag: the deadline has passed.                  *)
(***************************************************************************)
EXTENDS ActionLog

CONSTANTS
  MaxOutput,      \* bound: chunks the program writes
  PipeSize        \* chunks the pipe holds

ASSUME CommandAssumption == MaxOutput \in Nat /\ PipeSize \in Nat \ {0}

VARIABLES
  running,       \* "idle", "asking", "starting", "peeking", "waiting", "draining", "ended", "reported"
  command,       \* the entry of the catalogue
  administrator, \* this program runs as administrator
  child,         \* "none", "running", "exited"
  pipe,          \* chunks written and not read
  wrote,         \* chunks the program has written
  output,        \* chunks read
  exitCode,
  late,          \* the deadline has passed
  verdict,       \* CommandOutcome, "" when none yet
  agreed         \* history: the user agreed to this command

commandVars == <<running, command, administrator, child, pipe, wrote, output, exitCode, late, verdict, agreed>>

Catalog ==
  { [id |-> "AnalyzeComponentStore", modifies |-> FALSE, elevated |-> TRUE,  successes |-> {3010}],
    [id |-> "CleanupComponentStore", modifies |-> TRUE,  elevated |-> TRUE,  successes |-> {3010}],
    [id |-> "QueryCompactOs",        modifies |-> FALSE, elevated |-> FALSE, successes |-> {0, 102}],
    [id |-> "ListShadowStorage",     modifies |-> FALSE, elevated |-> TRUE,  successes |-> {}] }

ExitCodes == {0, 87, 102, 3010}

CommandById(id) == CHOOSE c \in Catalog : c.id = id

CommandInit ==
  /\ running = "idle"
  /\ command = CommandById("QueryCompactOs")
  /\ administrator \in BOOLEAN
  /\ child = "none"
  /\ pipe = 0 /\ wrote = 0 /\ output = 0
  /\ exitCode = 0
  /\ late = FALSE
  /\ verdict = ""
  /\ agreed = FALSE

-----------------------------------------------------------------------------

RunSelectedWindowsCommand ==
  /\ running = "idle"
  /\ \E c \in Catalog :
       /\ command' = c
       /\ running' = IF c.modifies THEN "asking" ELSE "starting"
  /\ UNCHANGED <<administrator, child, pipe, wrote, output, exitCode, late, verdict, agreed, logVars>>

AnswerCommand ==
  /\ running = "asking"
  /\ \E yes \in BOOLEAN :
       /\ agreed' = yes
       /\ running' = IF yes THEN "starting" ELSE "reported"
  /\ UNCHANGED <<command, administrator, child, pipe, wrote, output, exitCode, late, verdict, logVars>>

\* The window asks for it confirmed, whatever the command.
Confirmed == TRUE

Refusal ==
  IF command.modifies /\ ~Confirmed THEN "refused"
  ELSE IF command.elevated /\ ~administrator THEN "needs elevation"
  ELSE ""

Launch ==
  /\ running = "starting"
  /\ \/ /\ Refusal # ""
        /\ verdict' = Refusal
        /\ running' = "ended"
        /\ UNCHANGED child
     \/ /\ Refusal = ""
        /\ verdict' = "not launched"    \* no program, no pipe, or Windows refuses
        /\ running' = "ended"
        /\ UNCHANGED child
     \/ /\ Refusal = ""
        /\ child' = "running"
        /\ running' = "peeking"
        /\ UNCHANGED verdict
  /\ UNCHANGED <<command, administrator, pipe, wrote, output, exitCode, late, agreed, logVars>>

ReadChunk == pipe' = pipe - 1 /\ output' = output + 1

\* While there is something to read neither the program nor the clock is looked at.
Peek ==
  /\ running = "peeking"
  /\ IF pipe > 0
     THEN ReadChunk /\ UNCHANGED running
     ELSE running' = "waiting" /\ UNCHANGED <<pipe, output>>
  /\ UNCHANGED <<command, administrator, child, wrote, exitCode, late, verdict, agreed, logVars>>

\* Mutant: the end of the program ends the reading.
WaitNoDrain ==
  /\ running = "waiting"
  /\ \/ /\ child = "exited"
        /\ verdict' = IF exitCode = 0 \/ exitCode \in command.successes THEN "success" ELSE "failed"
        /\ running' = "ended"
     \/ /\ child = "running"
        /\ IF late
           THEN verdict' = "timed out" /\ running' = "ended"
           ELSE running' = "peeking" /\ UNCHANGED verdict
  /\ UNCHANGED <<command, administrator, child, pipe, wrote, output, exitCode, late, agreed, logVars>>

\* Mutant: the clock is not looked at.
WaitForever ==
  /\ running = "waiting"
  /\ running' = IF child = "exited" THEN "draining" ELSE "peeking"
  /\ UNCHANGED <<command, administrator, child, pipe, wrote, output, exitCode, late, verdict, agreed, logVars>>

\* The wait of 50 ms, and after it the clock.  A program that does not end in
\* time goes on without a reader.
Wait ==
  /\ running = "waiting"
  /\ \/ /\ child = "exited"
        /\ running' = "draining"
        /\ UNCHANGED verdict
     \/ /\ child = "running"
        /\ IF late
           THEN verdict' = "timed out" /\ running' = "ended"
           ELSE running' = "peeking" /\ UNCHANGED verdict
  /\ UNCHANGED <<command, administrator, child, pipe, wrote, output, exitCode, late, agreed, logVars>>

Drain ==
  /\ running = "draining"
  /\ IF pipe > 0
     THEN ReadChunk /\ UNCHANGED <<running, verdict>>
     ELSE /\ verdict' = IF exitCode = 0 \/ exitCode \in command.successes THEN "success" ELSE "failed"
          /\ running' = "ended"
          /\ UNCHANGED <<pipe, output>>
  /\ UNCHANGED <<command, administrator, child, wrote, exitCode, late, agreed, logVars>>

\* The run is recorded whatever came of it.
RecordCommand ==
  /\ running = "ended"
  /\ Record("command", 0, 0, 0)
  /\ running' = "reported"
  /\ UNCHANGED <<command, administrator, child, pipe, wrote, output, exitCode, late, verdict, agreed>>

-----------------------------------------------------------------------------
(* The program of Windows and the clock.                                    *)

ChildWrites ==
  /\ child = "running"
  /\ verdict = ""
  /\ wrote < MaxOutput
  /\ pipe < PipeSize
  /\ wrote' = wrote + 1
  /\ pipe' = pipe + 1
  /\ UNCHANGED <<running, command, administrator, child, output, exitCode, late, verdict, agreed, logVars>>

ChildExits ==
  /\ child = "running"
  /\ child' = "exited"
  /\ exitCode' \in ExitCodes
  /\ UNCHANGED <<running, command, administrator, pipe, wrote, output, late, verdict, agreed, logVars>>

DeadlinePasses ==
  /\ child # "none" /\ ~late
  /\ late' = TRUE
  /\ UNCHANGED <<running, command, administrator, child, pipe, wrote, output, exitCode, verdict, agreed, logVars>>

RunnerStep == Launch \/ Peek \/ Wait \/ Drain \/ RecordCommand

CommandNext ==
  \/ RunSelectedWindowsCommand \/ AnswerCommand \/ RunnerStep
  \/ ChildWrites \/ ChildExits \/ DeadlinePasses

-----------------------------------------------------------------------------

\* Types of the run; the pipe holds what was written and not read.
CommandTypes ==
  /\ running \in {"idle", "asking", "starting", "peeking", "waiting", "draining", "ended", "reported"}
  /\ command \in Catalog
  /\ child \in {"none", "running", "exited"}
  /\ pipe \in 0..PipeSize
  /\ wrote \in 0..MaxOutput
  /\ pipe + output = wrote
  /\ exitCode \in ExitCodes
  /\ verdict \in {"", "refused", "needs elevation", "not launched", "success", "failed", "timed out"}

\* A program that never ends gives the window back: once started the run is
\* reported, for the deadline passes and the output has an end
\* (command_runner.cpp:262).  A verdict on a program that ended comes with all it
\* wrote, also what it wrote between the last look at the pipe and its end (247).
CommandReturns ==
  running = "starting" ~>
    running = "reported" /\ (verdict \in {"success", "failed"} => child = "exited" /\ output = wrote)
=============================================================================
