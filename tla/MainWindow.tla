------------------------------ MODULE MainWindow ------------------------------
(***************************************************************************)
(* ui::MainWindow and run_in_background: the interface thread, the tasks   *)
(* it hands to the thread pool, and the flag busy_ that keeps a second     *)
(* click out.                                                              *)
(*                                                                         *)
(* The interface thread is the stack of operations that wait inside a      *)
(* nested event loop: QDialog::exec(), which lets through only the answer  *)
(* to the dialog and the deliveries of finished tasks, and                 *)
(* processEvents(), which lets through everything.  Texts, progress and    *)
(* the results themselves are abstracted away.                             *)
(***************************************************************************)
EXTENDS Integers, Sequences

CONSTANTS
  MaxDepth,  \* bound: operations waiting inside one another
  MayClose   \* TRUE when the user may close the window

ASSUME ConstantsAssumption == MaxDepth \in Nat \ {0} /\ MayClose \in BOOLEAN

\* What runs on the pool, and what runs on the interface thread itself.
TaskKinds == {"analysis", "plan", "execute", "preview", "clean", "survey", "snapshot"}
SyncKinds == {"startup", "cloud", "release", "review", "command"}

Buttons == {"analyze", "action", "preview", "run", "survey", "cancel", "snapshot",
            "release", "review", "command"}

VARIABLES
  busy,     \* busy_
  stack,    \* the operations of the interface thread, innermost last
  tasks,    \* the tasks of the pool, in the order they were started
  enabled,  \* the buttons that can be clicked
  stopper,  \* survey_stop_: "none", "live" or "stopped"
  alive     \* the window exists

vars == <<busy, stack, tasks, enabled, stopper, alive>>

Frame(op, at) == [op |-> op, at |-> at]
Task(kind, stage) == [kind |-> kind, stage |-> stage]

Init ==
  /\ busy = FALSE
  /\ stack = <<>>
  /\ tasks = <<>>
  /\ enabled = Buttons \ {"cancel", "release", "command"}
  /\ stopper = "none"
  /\ alive = TRUE

Top      == stack[Len(stack)]
Pop      == SubSeq(stack, 1, Len(stack) - 1)
Push(f)  == Append(stack, f)
Goto(at) == Append(Pop, Frame(Top.op, at))

\* The interface thread is in an event loop that takes input, or any at all.
TakesInput  == alive /\ (stack # <<>> => Top.at = "pump")
TakesEvents == alive /\ (stack # <<>> => Top.at # "running")
RoomToNest  == Len(stack) < MaxDepth

TopIs(op, at) == alive /\ stack # <<>> /\ Top = Frame(op, at)

Click(button) == TakesInput /\ button \in enabled

Without(i) == [j \in 1..(Len(tasks) - 1) |-> tasks[IF j < i THEN j ELSE j + 1]]

-----------------------------------------------------------------------------
(* Operations that go straight to the pool: nothing while busy_ is set.      *)

Starts(kind, button) ==
  /\ Click(button) /\ ~ busy
  /\ busy' = TRUE
  /\ enabled' = enabled \ {button}
  /\ tasks' = Append(tasks, Task(kind, "working"))

\* Mutant: the second click is let in.
StartAnalysisUnbarred ==
  /\ Click("analyze")
  /\ busy' = TRUE
  /\ enabled' = enabled \ {"analyze"}
  /\ tasks' = Append(tasks, Task("analysis", "working"))
  /\ UNCHANGED <<stack, stopper, alive>>

StartAnalysis   == Starts("analysis", "analyze") /\ UNCHANGED <<stack, stopper, alive>>
PreviewCleaners == Starts("preview", "preview") /\ UNCHANGED <<stack, stopper, alive>>
TakeSnapshot    == Starts("snapshot", "snapshot") /\ UNCHANGED <<stack, stopper, alive>>

\* The finding is one the program can clean: its plan is made in the background.
CleanSelectedFinding == Starts("plan", "action") /\ UNCHANGED <<stack, stopper, alive>>

\* Mutant: the button to cancel is not enabled for the next survey.
SurveySpaceUncancellable ==
  Starts("survey", "survey") /\ stopper' = "live" /\ UNCHANGED <<stack, alive>>

SurveySpace ==
  /\ Click("survey") /\ ~ busy
  /\ busy' = TRUE
  /\ enabled' = (enabled \ {"survey"}) \cup {"cancel"}
  /\ stopper' = "live"
  /\ tasks' = Append(tasks, Task("survey", "working"))
  /\ UNCHANGED <<stack, alive>>

CancelSurvey ==
  /\ Click("cancel") /\ stopper # "none"
  /\ stopper' = "stopped"
  /\ UNCHANGED <<busy, stack, tasks, enabled, alive>>

-----------------------------------------------------------------------------
(* Operations that wait for an answer first.                                 *)

\* Mutant: the clean-up is confirmed while another task may be running.
RunSelectedCleanersUnbarred ==
  /\ Click("run") /\ RoomToNest
  /\ stack' = Push(Frame("clean", "ask")) \/ stack' = Push(Frame("clean", "notice"))
  /\ UNCHANGED <<busy, tasks, enabled, stopper, alive>>

\* Nothing is checked in the list, or what is checked has to be confirmed.
RunSelectedCleaners ==
  /\ Click("run") /\ ~ busy /\ RoomToNest
  /\ stack' = Push(Frame("clean", "ask")) \/ stack' = Push(Frame("clean", "notice"))
  /\ UNCHANGED <<busy, tasks, enabled, stopper, alive>>

\* busy_ is set, whatever it was, once the user has accepted.
Accepted(op, button) ==
  /\ TopIs(op, "ask")
  /\ stack' = Pop
  /\ busy' = TRUE
  /\ enabled' = enabled \ {button}
  /\ tasks' = Append(tasks, Task(op, "working"))
  /\ UNCHANGED <<stopper, alive>>

AcceptClean   == Accepted("clean", "run")
AcceptExecute == Accepted("execute", "action")

\* The finding is about what starts with Windows: no look at busy_.
ManageStartup ==
  /\ Click("action") /\ RoomToNest
  /\ stack' = Push(Frame("startup", "ask")) \/ stack' = Push(Frame("startup", "notice"))
  /\ UNCHANGED <<busy, tasks, enabled, stopper, alive>>

\* The marks are applied while nothing else of the interface moves; some of them
\* changed something, or none did.
ApplyStartup ==
  /\ TopIs("startup", "ask")
  /\ stack' = Goto("notice") \/ stack' = Goto("applied")
  /\ UNCHANGED <<busy, tasks, enabled, stopper, alive>>

\* Something changed: a new analysis is asked for, in vain while busy_ is set.
DismissApplied ==
  /\ TopIs("startup", "applied")
  /\ stack' = Pop
  /\ IF busy
       THEN UNCHANGED <<busy, tasks, enabled>>
       ELSE /\ busy' = TRUE
            /\ enabled' = enabled \ {"analyze"}
            /\ tasks' = Append(tasks, Task("analysis", "working"))
  /\ UNCHANGED <<stopper, alive>>

\* "Cancelar", in any dialog that asks.
Reject ==
  /\ alive /\ stack # <<>> /\ Top.at = "ask"
  /\ stack' = Pop
  /\ UNCHANGED <<busy, tasks, enabled, stopper, alive>>

\* Mutant: the analysis is asked for before busy_ is reset, and so dropped.
DismissReportEarly ==
  /\ TopIs("execute", "notice") /\ busy
  /\ stack' = Pop
  /\ busy' = FALSE
  /\ enabled' = enabled \cup {"action"}
  /\ UNCHANGED <<tasks, stopper, alive>>

\* The report of a clean-up is dismissed: the button is back, and a new analysis
\* starts.  The notice that there was nothing to clean leaves everything alone.
DismissReport ==
  /\ TopIs("execute", "notice") /\ busy
  /\ stack' = Pop
  /\ busy' = TRUE
  /\ enabled' = (enabled \cup {"action"}) \ {"analyze"}
  /\ tasks' = Append(tasks, Task("analysis", "working"))
  /\ UNCHANGED <<stopper, alive>>

DismissNotice ==
  /\ alive /\ stack # <<>> /\ Top.at = "notice" /\ ~ (Top.op = "execute" /\ busy)
  /\ stack' = Pop
  /\ UNCHANGED <<busy, tasks, enabled, stopper, alive>>

-----------------------------------------------------------------------------
(* Operations on the interface thread itself: a pause to redraw the window,  *)
(* then minutes without an event loop.                                       *)

\* show_cloud(): a folder is selected, or there is none.
ShowCloud ==
  /\ TakesInput
  /\ enabled' = enabled \ {"release"}
  /\ stack' = stack \/ (RoomToNest /\ stack' = Push(Frame("cloud", "pump")))
  /\ UNCHANGED <<busy, tasks, stopper, alive>>

ReleaseCloudSpace ==
  /\ Click("release") /\ RoomToNest
  /\ stack' = Push(Frame("release", "ask"))
  /\ UNCHANGED <<busy, tasks, enabled, stopper, alive>>

AcceptRelease ==
  /\ TopIs("release", "ask")
  /\ stack' = Goto("pump")
  /\ enabled' = enabled \ {"release"}
  /\ UNCHANGED <<busy, tasks, stopper, alive>>

ReviewInstallerCache ==
  /\ Click("review") /\ RoomToNest
  /\ stack' = Push(Frame("review", "pump"))
  /\ enabled' = enabled \ {"review"}
  /\ UNCHANGED <<busy, tasks, stopper, alive>>

\* show_windows_command_details(): another row, or none, is selected.
SelectCommand ==
  /\ TakesInput
  /\ enabled' \in {enabled \cup {"command"}, enabled \ {"command"}}
  /\ UNCHANGED <<busy, stack, tasks, stopper, alive>>

\* A command that changes the system asks first.
RunWindowsCommand ==
  /\ Click("command") /\ RoomToNest
  /\ \/ stack' = Push(Frame("command", "ask")) /\ UNCHANGED enabled
     \/ stack' = Push(Frame("command", "pump")) /\ enabled' = enabled \ {"command"}
  /\ UNCHANGED <<busy, tasks, stopper, alive>>

AcceptCommand ==
  /\ TopIs("command", "ask")
  /\ stack' = Goto("pump")
  /\ enabled' = enabled \ {"command"}
  /\ UNCHANGED <<busy, tasks, stopper, alive>>

\* processEvents() has nothing left to process.
PumpEnds ==
  /\ alive /\ stack # <<>> /\ Top.at = "pump"
  /\ stack' = Goto("running")
  /\ UNCHANGED <<busy, tasks, enabled, stopper, alive>>

\* Mutant: the button is not given back when the review could not be made.
FinishSyncSilent ==
  /\ alive /\ stack # <<>> /\ Top.at = "running"
  /\ stack' = Pop
  /\ IF Top.op \in {"cloud", "release"}
       THEN enabled' \in {enabled, enabled \cup {"release"}}
       ELSE enabled' \in {enabled, enabled \cup {Top.op}}
  /\ UNCHANGED <<busy, tasks, stopper, alive>>

\* The button comes back; that of the cloud, when there is something to release.
FinishSync ==
  /\ alive /\ stack # <<>> /\ Top.at = "running"
  /\ stack' = Pop
  /\ IF Top.op \in {"cloud", "release"}
       THEN enabled' \in {enabled, enabled \cup {"release"}}
       ELSE enabled' = enabled \cup {Top.op}
  /\ UNCHANGED <<busy, tasks, stopper, alive>>

-----------------------------------------------------------------------------
(* The pool: work, look whether the owner is still there, post the delivery. *)

Work(i) ==
  /\ tasks[i].stage = "working"
  /\ tasks' = [tasks EXCEPT ![i].stage = "worked"]
  /\ UNCHANGED <<busy, stack, enabled, stopper, alive>>

CheckOwner(i) ==
  /\ tasks[i].stage = "worked"
  /\ tasks' = IF alive THEN [tasks EXCEPT ![i].stage = "checked"] ELSE Without(i)
  /\ UNCHANGED <<busy, stack, enabled, stopper, alive>>

\* invokeMethod(owner_): a dead owner is dereferenced, which ends the task here.
Post(i) ==
  /\ tasks[i].stage = "checked"
  /\ tasks' = IF alive THEN [tasks EXCEPT ![i].stage = "posted"] ELSE Without(i)
  /\ UNCHANGED <<busy, stack, enabled, stopper, alive>>

-----------------------------------------------------------------------------
(* The deliveries: done(result), on the interface thread.                    *)

Delivered(i, kind) == TakesEvents /\ tasks[i] = Task(kind, "posted")

DeliverSimple(i, kind, button) ==
  /\ Delivered(i, kind)
  /\ tasks' = Without(i)
  /\ enabled' = enabled \cup {button}
  /\ busy' = FALSE
  /\ UNCHANGED <<stack, stopper, alive>>

DeliverAnalysis(i) == DeliverSimple(i, "analysis", "analyze")
DeliverPreview(i)  == DeliverSimple(i, "preview", "preview")
DeliverSnapshot(i) == DeliverSimple(i, "snapshot", "snapshot")

\* Mutant: a survey that was cancelled does not give the window back.
DeliverSurveyBusy(i) ==
  /\ Delivered(i, "survey")
  /\ tasks' = Without(i)
  /\ enabled' = (enabled \cup {"survey"}) \ {"cancel"}
  /\ busy' = (stopper = "stopped")
  /\ stopper' = "none"
  /\ UNCHANGED <<stack, alive>>

DeliverSurvey(i) ==
  /\ Delivered(i, "survey")
  /\ tasks' = Without(i)
  /\ enabled' = (enabled \cup {"survey"}) \ {"cancel"}
  /\ stopper' = "none"
  /\ busy' = FALSE
  /\ UNCHANGED <<stack, alive>>

\* The cleaners are measured again at once.
DeliverClean(i) ==
  /\ Delivered(i, "clean")
  /\ enabled' = (enabled \cup {"run"}) \ {"preview"}
  /\ busy' = TRUE
  /\ tasks' = Append(Without(i), Task("preview", "working"))
  /\ UNCHANGED <<stack, stopper, alive>>

\* confirm_and_clean(): the plan is empty, or has to be confirmed.
DeliverPlan(i) ==
  /\ Delivered(i, "plan")
  /\ tasks' = Without(i)
  /\ busy' = FALSE
  /\ enabled' = enabled \cup {"action"}
  /\ stack' = Push(Frame("execute", "ask")) \/ stack' = Push(Frame("execute", "notice"))
  /\ UNCHANGED <<stopper, alive>>

\* The report of the clean-up, with busy_ still set.
DeliverExecute(i) ==
  /\ Delivered(i, "execute")
  /\ tasks' = Without(i)
  /\ stack' = Push(Frame("execute", "notice"))
  /\ UNCHANGED <<busy, enabled, stopper, alive>>

Deliver(i) ==
  \/ DeliverAnalysis(i) \/ DeliverPreview(i) \/ DeliverSnapshot(i) \/ DeliverSurvey(i)
  \/ DeliverClean(i) \/ DeliverPlan(i) \/ DeliverExecute(i)

\* main() returns from exec(): the window is destroyed, and the deliveries posted
\* to it with it; the application then waits for the pool.
Close ==
  /\ MayClose /\ alive /\ stack = <<>>
  /\ alive' = FALSE
  /\ tasks' = SelectSeq(tasks, LAMBDA t : t.stage # "posted")
  /\ UNCHANGED <<busy, stack, enabled, stopper>>

-----------------------------------------------------------------------------
User ==
  \/ StartAnalysis \/ PreviewCleaners \/ TakeSnapshot \/ SurveySpace \/ CancelSurvey
  \/ CleanSelectedFinding \/ ManageStartup \/ RunSelectedCleaners
  \/ ShowCloud \/ ReleaseCloudSpace \/ ReviewInstallerCache
  \/ SelectCommand \/ RunWindowsCommand

Answer ==
  \/ AcceptClean \/ AcceptExecute \/ AcceptRelease \/ AcceptCommand \/ ApplyStartup
  \/ Reject \/ DismissApplied \/ DismissReport \/ DismissNotice

Interface == PumpEnds \/ FinishSync
Pool(i)   == Work(i) \/ CheckOwner(i) \/ Post(i)

Next ==
  \/ User \/ Answer \/ Interface
  \/ \E i \in DOMAIN tasks : Pool(i) \/ Deliver(i)
  \/ Close

Spec == Init /\ [][Next]_vars

\* Threads run, commands end, the user answers the dialogs, and an event loop that
\* runs again and again delivers what is queued.
Fairness ==
  /\ WF_vars(Answer)
  /\ WF_vars(Interface)
  /\ WF_vars(\E i \in DOMAIN tasks : Pool(i))
  /\ SF_vars(\E i \in DOMAIN tasks : Deliver(i))

FairSpec == Spec /\ Fairness

-----------------------------------------------------------------------------
TypeOK ==
  /\ busy \in BOOLEAN /\ alive \in BOOLEAN
  /\ stack \in Seq([op : SyncKinds \cup {"clean", "execute"},
                    at : {"ask", "notice", "applied", "pump", "running"}])
  /\ tasks \in Seq([kind : TaskKinds, stage : {"working", "worked", "checked", "posted"}])
  /\ enabled \subseteq Buttons
  /\ stopper \in {"none", "live", "stopped"}

\* "o segundo clique precisa ser barrado" (the comment on busy_): through every
\* nesting of dialogs and event loops, at most one task is in the pool, and busy_ is
\* set for as long as it is.
OneTask == alive => Len(tasks) <= 1 /\ (tasks # <<>> => busy)

\* "Deixar o botao morto apos um uso foi defeito relatado" (the comment in
\* release_cloud_space): when nothing is under way, every button that starts
\* something can be clicked, and the button to cancel can be exactly while there is
\* a survey to cancel.
ButtonsComeBack ==
  alive =>
    /\ (stack = <<>> /\ tasks = <<>> =>
          ~ busy /\ {"analyze", "action", "preview", "run", "survey", "snapshot", "review"}
                      \subseteq enabled)
    /\ ("cancel" \in enabled <=> \E i \in DOMAIN tasks : tasks[i].kind = "survey")
    /\ ("cancel" \in enabled <=> stopper # "none")

\* A dialog that asks whether to remove files is the innermost, and nothing runs
\* behind it: what the user accepts is what was measured.
ConsentUndisturbed ==
  \A d \in DOMAIN stack :
    stack[d].at = "ask" /\ stack[d].op \in {"clean", "execute"} =>
      d = Len(stack) /\ tasks = <<>>

\* No operation locks the window out for good.
BusyEnds == busy ~> (~ busy \/ ~ alive)

\* "Reanalisa: a pontuacao e o espaco livre mudaram" (the comment in
\* confirm_and_clean): every clean-up is followed by an analysis.
CleanedThenAnalysed ==
  (\E i \in DOMAIN tasks : tasks[i].kind = "execute")
    ~> ((\E i \in DOMAIN tasks : tasks[i].kind = "analysis") \/ ~ alive)

\* "o segundo clique precisa ser barrado" (the comment on busy_): nothing that
\* changes the disk or the system runs beside a task.
SecondClickBarred ==
  stack # <<>> /\ Top.op \in {"release", "command"} /\ Top.at = "running" => tasks = <<>>

\* "um botao acaba disparando duas vezes a mesma limpeza" is what running in the
\* background is for (the comment on run_in_background): no clean-up is started
\* inside itself.
NotInsideItself ==
  \A d, e \in DOMAIN stack :
    stack[d].op = stack[e].op /\ stack[d].op = "command" => d = e

\* "Se a janela for destruida antes do fim, done simplesmente nao acontece" (the
\* comment on run_in_background): nothing is posted to a window that is gone.
OwnerAliveAtPost ==
  \A i \in DOMAIN tasks : tasks[i].stage = "checked" => alive
=============================================================================
