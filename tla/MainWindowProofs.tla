--------------------------- MODULE MainWindowProofs ---------------------------
(***************************************************************************)
(* Proofs about MainWindow, for any depth of nesting, with or without the   *)
(* window closing.                                                          *)
(***************************************************************************)
EXTENDS MainWindow, TLAPS, SequenceTheorems

Tasks == [kind : TaskKinds, stage : {"working", "worked", "checked", "posted"}]

\* What an operation of each kind can wait for.
Frames ==
  {f \in [op : SyncKinds \cup {"clean", "execute"},
          at : {"ask", "notice", "applied", "pump", "running"}] :
     /\ f.op \in {"clean", "execute"} => f.at \in {"ask", "notice"}
     /\ f.op \in {"cloud", "review"} => f.at \in {"pump", "running"}
     /\ f.at \in {"pump", "running"} => f.op \in {"cloud", "release", "review", "command"}}

Shape ==
  /\ stack \in Seq(Frames) /\ tasks \in Seq(Tasks) /\ Len(tasks) <= 1
  /\ busy \in BOOLEAN /\ enabled \subseteq Buttons
  /\ stopper \in {"none", "live", "stopped"}

\* What asks or reports about files is the innermost, with the pool empty, and only
\* the report of a clean-up leaves busy_ set.
Modal ==
  \A d \in 1..Len(stack) :
    stack[d].op \in {"clean", "execute"} =>
      /\ d = Len(stack) /\ tasks = <<>>
      /\ busy => stack[d] = Frame("execute", "notice")

Reporting == busy /\ stack # <<>> /\ Top = Frame("execute", "notice")

\* busy_ is set by a task or by the report of one.
Locked ==
  /\ tasks # <<>> => busy
  /\ busy => tasks # <<>> \/ Reporting

Runs(kinds) == tasks # <<>> /\ tasks[1].kind \in kinds

\* Whatever took a button away is still there to give it back.
Borrowed ==
  /\ "analyze" \notin enabled  => Runs({"analysis"})
  /\ "preview" \notin enabled  => Runs({"preview"})
  /\ "snapshot" \notin enabled => Runs({"snapshot"})
  /\ "survey" \notin enabled   => Runs({"survey"})
  /\ "run" \notin enabled      => Runs({"clean"})
  /\ "action" \notin enabled   => Runs({"plan", "execute"}) \/ Reporting
  /\ "review" \notin enabled   => \E d \in 1..Len(stack) : stack[d].op = "review"
  /\ "cancel" \in enabled <=> Runs({"survey"})
  /\ "cancel" \in enabled <=> stopper # "none"

Inv ==
  /\ ~ alive => stack = <<>>
  /\ alive => Shape /\ Modal /\ Locked /\ Borrowed

-----------------------------------------------------------------------------
(* Sequences of at most one task, and the stack. *)

LEMMA OnlyTask ==
  ASSUME tasks \in Seq(Tasks), Len(tasks) <= 1, NEW i \in DOMAIN tasks
  PROVE  i = 1 /\ Len(tasks) = 1 /\ tasks # <<>> /\ tasks[1] \in Tasks /\ Without(i) = <<>>
<1>1. i = 1 /\ Len(tasks) = 1 /\ tasks # <<>> /\ tasks[1] \in Tasks
  OBVIOUS
<1>2. Without(i) = [j \in {} |-> tasks[IF j < i THEN j ELSE j + 1]]
  BY <1>1 DEF Without
<1>3. <<>> = [j \in {} |-> tasks[IF j < i THEN j ELSE j + 1]]
  OBVIOUS
<1> QED
  BY <1>1, <1>2, <1>3

LEMMA FirstTask ==
  ASSUME NEW t \in Tasks
  PROVE  /\ Append(<<>>, t) \in Seq(Tasks) /\ Len(Append(<<>>, t)) = 1
         /\ Append(<<>>, t)[1] = t /\ Append(<<>>, t) # <<>>
  OBVIOUS

LEMMA Popped ==
  ASSUME stack \in Seq(Frames), stack # <<>>
  PROVE  /\ Len(stack) \in Nat \ {0} /\ Top \in Frames /\ Top = stack[Len(stack)]
         /\ Pop \in Seq(Frames) /\ Len(Pop) = Len(stack) - 1
         /\ \A d \in 1..(Len(stack) - 1) : Pop[d] = stack[d]
<1>1. Len(stack) \in Nat \ {0} /\ \A d \in 1..Len(stack) : stack[d] \in Frames
  BY EmptySeq, ElementOfSeq
<1>2. \A d \in 1..(Len(stack) - 1) : stack[d] \in Frames
  BY <1>1
<1>3. /\ Pop \in Seq(Frames) /\ Len(Pop) = Len(stack) - 1
      /\ \A d \in 1..(Len(stack) - 1) : Pop[d] = stack[d]
  <2> DEFINE n == Len(stack) - 1
  <2>1. n \in Nat
    BY <1>1
  <2> HIDE DEF n
  <2>2. /\ SubSeq(stack, 1, n) \in Seq(Frames)
        /\ Len(SubSeq(stack, 1, n)) = IF 1 <= n THEN n - 1 + 1 ELSE 0
        /\ \A i \in 1..(n - 1 + 1) : SubSeq(stack, 1, n)[i] = stack[1 + i - 1]
    BY <1>2, <2>1, SubSeqProperties, SMTT(20) DEF n
  <2>3. /\ Len(SubSeq(stack, 1, n)) = n
        /\ \A i \in 1..n : SubSeq(stack, 1, n)[i] = stack[i]
    BY <2>1, <2>2
  <2> QED
    BY <2>2, <2>3 DEF Pop, n
<1> QED
  BY <1>1, <1>3 DEF Top

LEMMA Pushed ==
  ASSUME stack \in Seq(Frames), NEW f \in Frames
  PROVE  /\ Push(f) \in Seq(Frames) /\ Len(Push(f)) = Len(stack) + 1
         /\ \A d \in 1..Len(stack) : Push(f)[d] = stack[d]
         /\ Push(f)[Len(stack) + 1] = f
  BY DEF Push

LEMMA Went ==
  ASSUME stack \in Seq(Frames), stack # <<>>, NEW at, Frame(Top.op, at) \in Frames
  PROVE  /\ Goto(at) \in Seq(Frames) /\ Len(Goto(at)) = Len(stack)
         /\ \A d \in 1..(Len(stack) - 1) : Goto(at)[d] = stack[d]
         /\ Goto(at)[Len(stack)] = Frame(Top.op, at)
  BY Popped DEF Goto

\* Where a click is taken nothing about files is open, and with busy_ clear the pool is empty.
LEMMA Clicked ==
  ASSUME Inv, TakesInput
  PROVE  /\ ~ Reporting
         /\ \A d \in 1..Len(stack) : stack[d].op \notin {"clean", "execute"}
         /\ ~ busy => tasks = <<>>
<1>1. CASE stack = <<>>
  BY <1>1 DEF Inv, TakesInput, Locked, Reporting
<1>2. CASE stack # <<>>
  <2>1. Top = stack[Len(stack)] /\ Top.at = "pump" /\ Top \in Frames
    BY <1>2, Popped DEF Inv, TakesInput, Shape
  <2>2. Top.op \notin {"clean", "execute"} /\ Top # Frame("execute", "notice")
    BY <2>1 DEF Frames, Frame
  <2> QED
    BY <1>2, <2>1, <2>2 DEF Inv, TakesInput, Modal, Locked, Reporting
<1> QED
  BY <1>1, <1>2

\* While a task runs nothing about files is open either.
LEMMA Working ==
  ASSUME Inv, alive, tasks # <<>>
  PROVE  /\ ~ Reporting
         /\ \A d \in 1..Len(stack) : stack[d].op \notin {"clean", "execute"}
<1>1. \A d \in 1..Len(stack) : stack[d].op \notin {"clean", "execute"}
  BY DEF Inv, Modal
<1>2. stack # <<>> => Top = stack[Len(stack)] /\ Len(stack) \in 1..Len(stack)
  BY Popped DEF Inv, Shape
<1> QED
  BY <1>1, <1>2 DEF Reporting, Frame

\* What is below the innermost operation is not about files, and it is still there
\* when that one ends.
LEMMA Below ==
  ASSUME Inv, alive, stack # <<>>
  PROVE  /\ Pop \in Seq(Frames) /\ Len(Pop) \in Nat
         /\ \A d \in 1..Len(Pop) : Pop[d].op \notin {"clean", "execute"}
         /\ Pop # <<>> => Pop[Len(Pop)].op \notin {"clean", "execute"}
         /\ "review" \notin enabled /\ Top.op # "review" =>
              \E d \in 1..Len(Pop) : Pop[d].op = "review"
<1>1. \A d \in 1..Len(Pop) : d \in 1..Len(stack) /\ d # Len(stack) /\ Pop[d] = stack[d]
  BY Popped DEF Inv, Shape
<1>2. \A d \in 1..Len(Pop) : Pop[d].op \notin {"clean", "execute"}
  BY <1>1 DEF Inv, Modal
<1>3. Pop \in Seq(Frames) /\ Len(Pop) \in Nat /\ (Pop # <<>> => Len(Pop) \in 1..Len(Pop))
  BY Popped, EmptySeq DEF Inv, Shape
<1>4. ASSUME "review" \notin enabled, Top.op # "review"
      PROVE  \E d \in 1..Len(Pop) : Pop[d].op = "review"
  <2>1. PICK d \in 1..Len(stack) : stack[d].op = "review"
    BY <1>4 DEF Inv, Borrowed
  <2>2. d # Len(stack)
    BY <1>4, <2>1 DEF Top
  <2>3. d \in 1..Len(Pop) /\ Pop[d] = stack[d]
    BY <2>1, <2>2, Popped DEF Inv, Shape
  <2> QED
    BY <2>1, <2>3
<1> QED
  BY <1>2, <1>3, <1>4

\* The buttons but those of the cloud and of the commands.
Watched == Buttons \ {"release", "command"}

\* An operation that waits inside the others keeps the invariant if it may be there.
LEMMA PushKeeps ==
  ASSUME Inv, alive, alive' = alive, tasks' = tasks, busy' = busy, stopper' = stopper,
         NEW f \in Frames, stack' = Push(f), ~ Reporting,
         \A d \in 1..Len(stack) : stack[d].op \notin {"clean", "execute"},
         f.op \in {"clean", "execute"} => tasks = <<>> /\ ~ busy,
         enabled' \subseteq Buttons,
         \A b \in Watched \ {"review"} : b \in enabled' <=> b \in enabled,
         "review" \notin enabled' => "review" \notin enabled \/ f.op = "review"
  PROVE  Inv'
<1>1. Shape'
  BY Pushed DEF Inv, Shape
<1>2. /\ Len(stack') = Len(stack) + 1 /\ stack'[Len(stack) + 1] = f /\ Len(stack) \in Nat
      /\ \A d \in 1..Len(stack) : stack'[d] = stack[d]
  BY Pushed DEF Inv, Shape
<1>3. Modal'
  BY <1>2 DEF Modal
<1>4. ~ Reporting'
  <2>1. busy => tasks # <<>>
    BY DEF Inv, Locked
  <2> QED
    BY <1>2, <2>1 DEF Reporting, Top, Frame
<1>5. Locked'
  BY <1>4 DEF Inv, Locked
<1>6. "review" \notin enabled' => \E d \in 1..Len(stack') : stack'[d].op = "review"
  BY <1>2 DEF Inv, Borrowed
<1>7. Borrowed'
  BY <1>4, <1>6 DEF Inv, Borrowed, Runs, Watched, Buttons
<1> QED
  BY <1>1, <1>3, <1>5, <1>7 DEF Inv

\* The innermost operation ends.
LEMMA PopKeeps ==
  ASSUME Inv, alive, alive' = alive, tasks' = tasks, busy' = busy, stopper' = stopper,
         stack # <<>>, stack' = Pop, ~ Reporting, enabled' \subseteq Buttons,
         \A b \in Watched \ {"review"} : b \in enabled' <=> b \in enabled,
         "review" \notin enabled' => "review" \notin enabled /\ Top.op # "review"
  PROVE  Inv'
<1>1. Shape'
  BY Below DEF Inv, Shape
<1>2. Modal'
  BY Below DEF Modal
<1>3. ~ Reporting'
  BY Below DEF Reporting, Top, Frame
<1>4. Locked'
  BY <1>3 DEF Inv, Locked
<1>5. Borrowed'
  BY <1>3, Below DEF Inv, Borrowed, Runs, Watched, Buttons
<1> QED
  BY <1>1, <1>2, <1>4, <1>5 DEF Inv

\* The innermost operation, not one about files, goes on.
LEMMA GotoKeeps ==
  ASSUME Inv, alive, alive' = alive, tasks' = tasks, busy' = busy, stopper' = stopper,
         stack # <<>>, NEW at, Frame(Top.op, at) \in Frames, stack' = Goto(at),
         Top.op \notin {"clean", "execute"}, enabled' \subseteq Buttons,
         \A b \in Watched : b \in enabled' <=> b \in enabled
  PROVE  Inv'
<1>1. Shape'
  BY Went DEF Inv, Shape
<1>2. /\ Len(stack) \in Nat \ {0} /\ Len(stack') = Len(stack)
      /\ stack'[Len(stack)].op = Top.op /\ Top = stack[Len(stack)]
      /\ \A d \in 1..Len(stack) : d # Len(stack) => stack'[d] = stack[d]
  <2>1. /\ Len(stack) \in Nat \ {0} /\ Len(stack') = Len(stack) /\ Top = stack[Len(stack)]
        /\ stack'[Len(stack)] = Frame(Top.op, at)
        /\ \A d \in 1..(Len(stack) - 1) : stack'[d] = stack[d]
    BY Went, Popped DEF Inv, Shape
  <2>2. \A d \in 1..Len(stack) : d # Len(stack) => d \in 1..(Len(stack) - 1)
    BY <2>1
  <2>3. Frame(Top.op, at).op = Top.op
    BY DEF Frame
  <2> QED
    BY <2>1, <2>2, <2>3
<1>3. Modal'
  BY <1>2 DEF Inv, Modal
<1>4. ~ Reporting /\ ~ Reporting'
  BY <1>2 DEF Reporting, Top, Frame
<1>5. Locked'
  BY <1>4 DEF Inv, Locked
<1>6. "review" \notin enabled' => \E d \in 1..Len(stack') : stack'[d].op = "review"
  <2>1. ASSUME "review" \notin enabled
        PROVE  \E d \in 1..Len(stack') : stack'[d].op = "review"
    <3>1. PICK d \in 1..Len(stack) : stack[d].op = "review"
      BY <2>1 DEF Inv, Borrowed
    <3>2. stack'[d].op = "review"
      BY <1>2, <3>1
    <3> QED
      BY <1>2, <3>2
  <2> QED
    BY <2>1 DEF Watched, Buttons
<1>7. Borrowed'
  BY <1>4, <1>6 DEF Inv, Borrowed, Runs, Watched, Buttons
<1> QED
  BY <1>1, <1>3, <1>5, <1>7 DEF Inv

-----------------------------------------------------------------------------
(* One step keeps the invariant. *)

LEMMA InvKept ==
  ASSUME Inv, [Next]_vars
  PROVE  Inv'
<1>1. ASSUME StartAnalysis PROVE Inv'
  <2>1. tasks = <<>> /\ tasks' = Append(<<>>, Task("analysis", "working"))
    BY <1>1, Clicked DEF StartAnalysis, Starts, Click
  <2>2. Task("analysis", "working") \in Tasks /\ Task("analysis", "working").kind = "analysis"
    BY DEF Task, Tasks, TaskKinds
  <2> QED
    BY <1>1, <2>1, <2>2, Clicked, FirstTask
    DEF StartAnalysis, Starts, Click, TakesInput, Buttons, Inv, Shape, Modal, Locked,
        Reporting, Borrowed, Runs, Top, Frame
<1>2. ASSUME PreviewCleaners PROVE Inv'
  <2>1. tasks = <<>> /\ tasks' = Append(<<>>, Task("preview", "working"))
    BY <1>2, Clicked DEF PreviewCleaners, Starts, Click
  <2>2. Task("preview", "working") \in Tasks /\ Task("preview", "working").kind = "preview"
    BY DEF Task, Tasks, TaskKinds
  <2> QED
    BY <1>2, <2>1, <2>2, Clicked, FirstTask
    DEF PreviewCleaners, Starts, Click, TakesInput, Buttons, Inv, Shape, Modal, Locked,
        Reporting, Borrowed, Runs, Top, Frame
<1>3. ASSUME TakeSnapshot PROVE Inv'
  <2>1. tasks = <<>> /\ tasks' = Append(<<>>, Task("snapshot", "working"))
    BY <1>3, Clicked DEF TakeSnapshot, Starts, Click
  <2>2. Task("snapshot", "working") \in Tasks /\ Task("snapshot", "working").kind = "snapshot"
    BY DEF Task, Tasks, TaskKinds
  <2> QED
    BY <1>3, <2>1, <2>2, Clicked, FirstTask
    DEF TakeSnapshot, Starts, Click, TakesInput, Buttons, Inv, Shape, Modal, Locked,
        Reporting, Borrowed, Runs, Top, Frame
<1>4. ASSUME CleanSelectedFinding PROVE Inv'
  <2>1. tasks = <<>> /\ tasks' = Append(<<>>, Task("plan", "working"))
    BY <1>4, Clicked DEF CleanSelectedFinding, Starts, Click
  <2>2. Task("plan", "working") \in Tasks /\ Task("plan", "working").kind = "plan"
    BY DEF Task, Tasks, TaskKinds
  <2> QED
    BY <1>4, <2>1, <2>2, Clicked, FirstTask
    DEF CleanSelectedFinding, Starts, Click, TakesInput, Buttons, Inv, Shape, Modal, Locked,
        Reporting, Borrowed, Runs, Top, Frame
<1>5. ASSUME SurveySpace PROVE Inv'
  <2>1. tasks = <<>> /\ tasks' = Append(<<>>, Task("survey", "working"))
    BY <1>5, Clicked DEF SurveySpace, Click
  <2>2. Task("survey", "working") \in Tasks /\ Task("survey", "working").kind = "survey"
    BY DEF Task, Tasks, TaskKinds
  <2> QED
    BY <1>5, <2>1, <2>2, Clicked, FirstTask
    DEF SurveySpace, Click, TakesInput, Buttons, Inv, Shape, Modal, Locked, Reporting,
        Borrowed, Runs, Top, Frame
<1>6. ASSUME CancelSurvey PROVE Inv'
  BY <1>6
  DEF CancelSurvey, Click, TakesInput, Inv, Shape, Modal, Locked, Reporting, Borrowed, Runs, Top
<1>7. ASSUME SelectCommand PROVE Inv'
  BY <1>7, Clicked
  DEF SelectCommand, TakesInput, Buttons, Inv, Shape, Modal, Locked, Reporting, Borrowed,
      Runs, Top
<1>8. ASSUME ManageStartup PROVE Inv'
  <2>1. alive /\ TakesInput
    BY <1>8 DEF ManageStartup, Click, TakesInput
  <2>2. Frame("startup", "ask") \in Frames /\ Frame("startup", "notice") \in Frames
    BY DEF Frame, Frames, SyncKinds
  <2>3. \A at : Frame("startup", at).op = "startup"
    BY DEF Frame
  <2>4. CASE stack' = Push(Frame("startup", "ask"))
    BY <1>8, <2>1, <2>2, <2>3, <2>4, Clicked, PushKeeps
    DEF ManageStartup, Watched, Buttons, Inv, Shape
  <2>5. CASE stack' = Push(Frame("startup", "notice"))
    BY <1>8, <2>1, <2>2, <2>3, <2>5, Clicked, PushKeeps
    DEF ManageStartup, Watched, Buttons, Inv, Shape
  <2> QED
    BY <1>8, <2>4, <2>5 DEF ManageStartup
<1>9. ASSUME RunSelectedCleaners PROVE Inv'
  <2>1. alive /\ TakesInput /\ ~ busy
    BY <1>9 DEF RunSelectedCleaners, Click, TakesInput
  <2>2. Frame("clean", "ask") \in Frames /\ Frame("clean", "notice") \in Frames
    BY DEF Frame, Frames, SyncKinds
  <2>3. \A at : Frame("clean", at).op = "clean"
    BY DEF Frame
  <2>4. CASE stack' = Push(Frame("clean", "ask"))
    BY <1>9, <2>1, <2>2, <2>3, <2>4, Clicked, PushKeeps
    DEF RunSelectedCleaners, Watched, Buttons, Inv, Shape
  <2>5. CASE stack' = Push(Frame("clean", "notice"))
    BY <1>9, <2>1, <2>2, <2>3, <2>5, Clicked, PushKeeps
    DEF RunSelectedCleaners, Watched, Buttons, Inv, Shape
  <2> QED
    BY <1>9, <2>4, <2>5 DEF RunSelectedCleaners
<1>10. ASSUME ShowCloud PROVE Inv'
  <2>1. alive /\ TakesInput
    BY <1>10 DEF ShowCloud, TakesInput
  <2>2. Frame("cloud", "pump") \in Frames
    BY DEF Frame, Frames, SyncKinds
  <2>3. \A at : Frame("cloud", at).op = "cloud"
    BY DEF Frame
  <2>4. CASE stack' = Push(Frame("cloud", "pump"))
    BY <1>10, <2>1, <2>2, <2>3, <2>4, Clicked, PushKeeps
    DEF ShowCloud, Watched, Buttons, Inv, Shape
  <2>5. CASE stack' = stack
    BY <1>10, <2>5, Clicked
    DEF ShowCloud, TakesInput, Buttons, Inv, Shape, Modal, Locked, Reporting, Borrowed, Runs,
        Top
  <2> QED
    BY <1>10, <2>4, <2>5 DEF ShowCloud
<1>11. ASSUME ReleaseCloudSpace PROVE Inv'
  <2>1. alive /\ TakesInput
    BY <1>11 DEF ReleaseCloudSpace, Click, TakesInput
  <2>2. Frame("release", "ask") \in Frames
    BY DEF Frame, Frames, SyncKinds
  <2>3. \A at : Frame("release", at).op = "release"
    BY DEF Frame
  <2>4. CASE stack' = Push(Frame("release", "ask"))
    BY <1>11, <2>1, <2>2, <2>3, <2>4, Clicked, PushKeeps
    DEF ReleaseCloudSpace, Watched, Buttons, Inv, Shape
  <2> QED
    BY <1>11, <2>4 DEF ReleaseCloudSpace
<1>12. ASSUME ReviewInstallerCache PROVE Inv'
  <2>1. alive /\ TakesInput
    BY <1>12 DEF ReviewInstallerCache, Click, TakesInput
  <2>2. Frame("review", "pump") \in Frames
    BY DEF Frame, Frames, SyncKinds
  <2>3. \A at : Frame("review", at).op = "review"
    BY DEF Frame
  <2>4. CASE stack' = Push(Frame("review", "pump"))
    BY <1>12, <2>1, <2>2, <2>3, <2>4, Clicked, PushKeeps
    DEF ReviewInstallerCache, Watched, Buttons, Inv, Shape
  <2> QED
    BY <1>12, <2>4 DEF ReviewInstallerCache
<1>13. ASSUME RunWindowsCommand PROVE Inv'
  <2>1. alive /\ TakesInput
    BY <1>13 DEF RunWindowsCommand, Click, TakesInput
  <2>2. Frame("command", "ask") \in Frames /\ Frame("command", "pump") \in Frames
    BY DEF Frame, Frames, SyncKinds
  <2>3. \A at : Frame("command", at).op = "command"
    BY DEF Frame
  <2>4. CASE stack' = Push(Frame("command", "ask"))
    BY <1>13, <2>1, <2>2, <2>3, <2>4, Clicked, PushKeeps
    DEF RunWindowsCommand, Watched, Buttons, Inv, Shape
  <2>5. CASE stack' = Push(Frame("command", "pump"))
    BY <1>13, <2>1, <2>2, <2>3, <2>5, Clicked, PushKeeps
    DEF RunWindowsCommand, Watched, Buttons, Inv, Shape
  <2> QED
    BY <1>13, <2>4, <2>5 DEF RunWindowsCommand
<1>14. ASSUME AcceptClean PROVE Inv'
  <2>1. /\ alive /\ alive' = alive /\ stack # <<>> /\ stack' = Pop
        /\ Top = Frame("clean", "ask") /\ tasks = <<>>
        /\ tasks' = Append(<<>>, Task("clean", "working")) /\ busy'
    <3>1. /\ alive /\ alive' = alive /\ stack # <<>> /\ stack' = Pop /\ Top = Frame("clean", "ask")
          /\ tasks' = Append(tasks, Task("clean", "working")) /\ busy'
      BY <1>14 DEF AcceptClean, Accepted, TopIs
    <3>2. Top = stack[Len(stack)] /\ Len(stack) \in 1..Len(stack)
      BY <3>1, Popped DEF Inv, Shape
    <3>3. tasks = <<>>
      BY <3>1, <3>2 DEF Inv, Modal, Frame
    <3> QED
      BY <3>1, <3>3
  <2>2. Task("clean", "working") \in Tasks /\ Task("clean", "working").kind = "clean"
    BY DEF Task, Tasks, TaskKinds
  <2>3. Shape'
    BY <1>14, <2>1, <2>2, Below, FirstTask DEF AcceptClean, Accepted, TopIs, Buttons, Inv, Shape
  <2>4. Modal' /\ Locked'
    BY <2>1, <2>2, Below, FirstTask DEF Modal, Locked
  <2>5. Borrowed'
    BY <1>14, <2>1, <2>2, Below, FirstTask
    DEF AcceptClean, Accepted, TopIs, Inv, Borrowed, Runs, Buttons, Reporting, Frame
  <2> QED
    BY <2>1, <2>3, <2>4, <2>5 DEF Inv
<1>15. ASSUME AcceptExecute PROVE Inv'
  <2>1. /\ alive /\ alive' = alive /\ stack # <<>> /\ stack' = Pop
        /\ Top = Frame("execute", "ask") /\ tasks = <<>>
        /\ tasks' = Append(<<>>, Task("execute", "working")) /\ busy'
    <3>1. /\ alive /\ alive' = alive /\ stack # <<>> /\ stack' = Pop /\ Top = Frame("execute", "ask")
          /\ tasks' = Append(tasks, Task("execute", "working")) /\ busy'
      BY <1>15 DEF AcceptExecute, Accepted, TopIs
    <3>2. Top = stack[Len(stack)] /\ Len(stack) \in 1..Len(stack)
      BY <3>1, Popped DEF Inv, Shape
    <3>3. tasks = <<>>
      BY <3>1, <3>2 DEF Inv, Modal, Frame
    <3> QED
      BY <3>1, <3>3
  <2>2. Task("execute", "working") \in Tasks /\ Task("execute", "working").kind = "execute"
    BY DEF Task, Tasks, TaskKinds
  <2>3. Shape'
    BY <1>15, <2>1, <2>2, Below, FirstTask
    DEF AcceptExecute, Accepted, TopIs, Buttons, Inv, Shape
  <2>4. Modal' /\ Locked'
    BY <2>1, <2>2, Below, FirstTask DEF Modal, Locked
  <2>5. Borrowed'
    BY <1>15, <2>1, <2>2, Below, FirstTask
    DEF AcceptExecute, Accepted, TopIs, Inv, Borrowed, Runs, Buttons, Reporting, Frame
  <2> QED
    BY <2>1, <2>3, <2>4, <2>5 DEF Inv
<1>16. ASSUME AcceptRelease PROVE Inv'
  <2>1. alive /\ stack # <<>> /\ Top.op = "release"
    BY <1>16 DEF AcceptRelease, TopIs, Frame
  <2>2. Frame(Top.op, "pump") \in Frames
    BY <2>1 DEF Frame, Frames, SyncKinds
  <2>3. CASE stack' = Goto("pump")
    BY <1>16, <2>1, <2>2, <2>3, GotoKeeps DEF AcceptRelease, Watched, Buttons, Inv, Shape
  <2> QED
    BY <1>16, <2>3 DEF AcceptRelease
<1>17. ASSUME AcceptCommand PROVE Inv'
  <2>1. alive /\ stack # <<>> /\ Top.op = "command"
    BY <1>17 DEF AcceptCommand, TopIs, Frame
  <2>2. Frame(Top.op, "pump") \in Frames
    BY <2>1 DEF Frame, Frames, SyncKinds
  <2>3. CASE stack' = Goto("pump")
    BY <1>17, <2>1, <2>2, <2>3, GotoKeeps DEF AcceptCommand, Watched, Buttons, Inv, Shape
  <2> QED
    BY <1>17, <2>3 DEF AcceptCommand
<1>18. ASSUME ApplyStartup PROVE Inv'
  <2>1. alive /\ stack # <<>> /\ Top.op = "startup"
    BY <1>18 DEF ApplyStartup, TopIs, Frame
  <2>2. Frame(Top.op, "notice") \in Frames /\ Frame(Top.op, "applied") \in Frames
    BY <2>1 DEF Frame, Frames, SyncKinds
  <2>3. CASE stack' = Goto("notice")
    BY <1>18, <2>1, <2>2, <2>3, GotoKeeps DEF ApplyStartup, Watched, Buttons, Inv, Shape
  <2>4. CASE stack' = Goto("applied")
    BY <1>18, <2>1, <2>2, <2>4, GotoKeeps DEF ApplyStartup, Watched, Buttons, Inv, Shape
  <2> QED
    BY <1>18, <2>3, <2>4 DEF ApplyStartup
<1>19. ASSUME Reject PROVE Inv'
  <2>1. alive /\ stack # <<>> /\ Top \in Frames /\ Top.at = "ask"
    BY <1>19, Popped DEF Reject, Inv, Shape
  <2>2. Top.op # "review" /\ Top # Frame("execute", "notice")
    BY <2>1 DEF Frames, Frame
  <2> QED
    BY <1>19, <2>1, <2>2, PopKeeps DEF Reject, Inv, Shape, Reporting
<1>20. ASSUME DismissNotice PROVE Inv'
  <2>1. alive /\ stack # <<>> /\ Top \in Frames /\ Top.at = "notice"
    BY <1>20, Popped DEF DismissNotice, Inv, Shape
  <2>2. Top.op # "review" /\ ~ Reporting
    BY <1>20, <2>1 DEF DismissNotice, Frames, Frame, Reporting
  <2> QED
    BY <1>20, <2>1, <2>2, PopKeeps DEF DismissNotice, Inv, Shape
<1>21. ASSUME DismissApplied PROVE Inv'
  <2>1. alive /\ stack # <<>> /\ stack' = Pop /\ Top = Frame("startup", "applied")
    BY <1>21 DEF DismissApplied, TopIs
  <2>2. Top.op # "review" /\ ~ Reporting
    BY <2>1 DEF Frame, Reporting
  <2>3. CASE busy
    BY <1>21, <2>1, <2>2, <2>3, PopKeeps DEF DismissApplied, Inv, Shape
  <2>4. CASE ~ busy
    <3>1. /\ tasks = <<>> /\ tasks' = Append(<<>>, Task("analysis", "working")) /\ busy'
          /\ alive'
      BY <1>21, <2>1, <2>4 DEF DismissApplied, Inv, Locked
    <3>2. Task("analysis", "working") \in Tasks /\ Task("analysis", "working").kind = "analysis"
      BY DEF Task, Tasks, TaskKinds
    <3>3. Shape'
      BY <1>21, <2>1, <2>4, <3>1, <3>2, Below, FirstTask DEF DismissApplied, Buttons, Inv, Shape
    <3>4. Modal' /\ Locked'
      BY <2>1, <3>1, <3>2, Below, FirstTask DEF Modal, Locked
    <3>5. Borrowed'
      BY <1>21, <2>1, <2>2, <2>4, <3>1, <3>2, Below, FirstTask
      DEF DismissApplied, Inv, Borrowed, Runs, Buttons
    <3> QED
      BY <3>1, <3>3, <3>4, <3>5 DEF Inv
  <2> QED
    BY <2>3, <2>4
<1>22. ASSUME DismissReport PROVE Inv'
  <2>1. /\ alive /\ alive' = alive /\ stack # <<>> /\ stack' = Pop
        /\ Top = Frame("execute", "notice") /\ tasks = <<>>
        /\ tasks' = Append(<<>>, Task("analysis", "working")) /\ busy'
    <3>1. /\ alive /\ alive' = alive /\ stack # <<>> /\ stack' = Pop /\ Top = Frame("execute", "notice")
          /\ tasks' = Append(tasks, Task("analysis", "working")) /\ busy'
      BY <1>22 DEF DismissReport, TopIs
    <3>2. Top = stack[Len(stack)] /\ Len(stack) \in 1..Len(stack)
      BY <3>1, Popped DEF Inv, Shape
    <3>3. tasks = <<>>
      BY <3>1, <3>2 DEF Inv, Modal, Frame
    <3> QED
      BY <3>1, <3>3
  <2>2. Task("analysis", "working") \in Tasks /\ Task("analysis", "working").kind = "analysis"
    BY DEF Task, Tasks, TaskKinds
  <2>3. Shape'
    BY <1>22, <2>1, <2>2, Below, FirstTask DEF DismissReport, TopIs, Buttons, Inv, Shape
  <2>4. Modal' /\ Locked'
    BY <2>1, <2>2, Below, FirstTask DEF Modal, Locked
  <2>5. Borrowed'
    BY <1>22, <2>1, <2>2, Below, FirstTask
    DEF DismissReport, TopIs, Inv, Borrowed, Runs, Buttons, Reporting, Frame
  <2> QED
    BY <2>1, <2>3, <2>4, <2>5 DEF Inv
<1>23. ASSUME PumpEnds PROVE Inv'
  <2>1. alive /\ stack # <<>> /\ Top \in Frames /\ Top.at = "pump"
    BY <1>23, Popped DEF PumpEnds, Inv, Shape
  <2>2. Top.op \in {"cloud", "release", "review", "command"}
    BY <2>1 DEF Frames, SyncKinds
  <2>3. Frame(Top.op, "running") \in Frames
    BY <2>2 DEF Frame, Frames, SyncKinds
  <2> QED
    BY <1>23, <2>1, <2>2, <2>3, GotoKeeps DEF PumpEnds, Inv, Shape
<1>24. ASSUME FinishSync PROVE Inv'
  <2>1. alive /\ stack # <<>> /\ Top \in Frames /\ Top.at = "running"
    BY <1>24, Popped DEF FinishSync, Inv, Shape
  <2>2. Top.op \in {"cloud", "release", "review", "command"} /\ ~ Reporting
    BY <2>1 DEF Frames, Frame, Reporting
  <2> QED
    BY <1>24, <2>1, <2>2, PopKeeps DEF FinishSync, Watched, Buttons, Inv, Shape
<1>25. ASSUME NEW i \in DOMAIN tasks, Work(i) PROVE Inv'
  BY <1>25, OnlyTask, ExceptSeq
  DEF Work, Tasks, Inv, Shape, Modal, Locked, Reporting, Borrowed, Runs, Top
<1>26. ASSUME NEW i \in DOMAIN tasks, CheckOwner(i) PROVE Inv'
  BY <1>26, OnlyTask, ExceptSeq
  DEF CheckOwner, Tasks, Inv, Shape, Modal, Locked, Reporting, Borrowed, Runs, Top
<1>27. ASSUME NEW i \in DOMAIN tasks, Post(i) PROVE Inv'
  BY <1>27, OnlyTask, ExceptSeq
  DEF Post, Tasks, Inv, Shape, Modal, Locked, Reporting, Borrowed, Runs, Top
<1>28. ASSUME NEW i \in DOMAIN tasks, DeliverAnalysis(i) PROVE Inv'
  <2>1. /\ alive /\ alive' = alive /\ tasks # <<>> /\ tasks[1].kind = "analysis"
        /\ tasks' = <<>> /\ stack' = stack /\ ~ busy'
    BY <1>28, OnlyTask
    DEF DeliverAnalysis, DeliverSimple, Delivered, TakesEvents, Task, Inv, Shape
  <2>2. ~ Reporting'
    BY <2>1 DEF Reporting
  <2>3. Shape'
    <3>1. tasks' \in Seq(Tasks) /\ Len(tasks') <= 1
      BY <2>1, EmptySeq
    <3> QED
      BY <1>28, <2>1, <3>1 DEF DeliverAnalysis, DeliverSimple, Buttons, Inv, Shape
  <2>4. Modal' /\ Locked'
    BY <2>1, Working DEF Modal, Locked
  <2>5. Borrowed'
    BY <1>28, <2>1, <2>2, Working DEF DeliverAnalysis, DeliverSimple, Inv, Borrowed, Runs
  <2> QED
    BY <2>1, <2>3, <2>4, <2>5 DEF Inv
<1>29. ASSUME NEW i \in DOMAIN tasks, DeliverPreview(i) PROVE Inv'
  <2>1. /\ alive /\ alive' = alive /\ tasks # <<>> /\ tasks[1].kind = "preview"
        /\ tasks' = <<>> /\ stack' = stack /\ ~ busy'
    BY <1>29, OnlyTask
    DEF DeliverPreview, DeliverSimple, Delivered, TakesEvents, Task, Inv, Shape
  <2>2. ~ Reporting'
    BY <2>1 DEF Reporting
  <2>3. Shape'
    <3>1. tasks' \in Seq(Tasks) /\ Len(tasks') <= 1
      BY <2>1, EmptySeq
    <3> QED
      BY <1>29, <2>1, <3>1 DEF DeliverPreview, DeliverSimple, Buttons, Inv, Shape
  <2>4. Modal' /\ Locked'
    BY <2>1, Working DEF Modal, Locked
  <2>5. Borrowed'
    BY <1>29, <2>1, <2>2, Working DEF DeliverPreview, DeliverSimple, Inv, Borrowed, Runs
  <2> QED
    BY <2>1, <2>3, <2>4, <2>5 DEF Inv
<1>30. ASSUME NEW i \in DOMAIN tasks, DeliverSnapshot(i) PROVE Inv'
  <2>1. /\ alive /\ alive' = alive /\ tasks # <<>> /\ tasks[1].kind = "snapshot"
        /\ tasks' = <<>> /\ stack' = stack /\ ~ busy'
    BY <1>30, OnlyTask
    DEF DeliverSnapshot, DeliverSimple, Delivered, TakesEvents, Task, Inv, Shape
  <2>2. ~ Reporting'
    BY <2>1 DEF Reporting
  <2>3. Shape'
    <3>1. tasks' \in Seq(Tasks) /\ Len(tasks') <= 1
      BY <2>1, EmptySeq
    <3> QED
      BY <1>30, <2>1, <3>1 DEF DeliverSnapshot, DeliverSimple, Buttons, Inv, Shape
  <2>4. Modal' /\ Locked'
    BY <2>1, Working DEF Modal, Locked
  <2>5. Borrowed'
    BY <1>30, <2>1, <2>2, Working DEF DeliverSnapshot, DeliverSimple, Inv, Borrowed, Runs
  <2> QED
    BY <2>1, <2>3, <2>4, <2>5 DEF Inv
<1>31. ASSUME NEW i \in DOMAIN tasks, DeliverSurvey(i) PROVE Inv'
  <2>1. /\ alive /\ alive' = alive /\ tasks # <<>> /\ tasks[1].kind = "survey"
        /\ tasks' = <<>> /\ stack' = stack /\ ~ busy'
    BY <1>31, OnlyTask DEF DeliverSurvey, Delivered, TakesEvents, Task, Inv, Shape
  <2>2. ~ Reporting'
    BY <2>1 DEF Reporting
  <2>3. Shape'
    <3>1. tasks' \in Seq(Tasks) /\ Len(tasks') <= 1
      BY <2>1, EmptySeq
    <3> QED
      BY <1>31, <2>1, <3>1 DEF DeliverSurvey, Buttons, Inv, Shape
  <2>4. Modal' /\ Locked'
    BY <2>1, Working DEF Modal, Locked
  <2>5. Borrowed'
    BY <1>31, <2>1, <2>2, Working DEF DeliverSurvey, Inv, Borrowed, Runs
  <2> QED
    BY <2>1, <2>3, <2>4, <2>5 DEF Inv
<1>32. ASSUME NEW i \in DOMAIN tasks, DeliverClean(i) PROVE Inv'
  <2>1. /\ alive /\ alive' = alive /\ tasks # <<>> /\ tasks[1].kind = "clean"
        /\ tasks' = Append(<<>>, Task("preview", "working")) /\ stack' = stack /\ busy'
    <3>1. tasks # <<>> /\ Without(i) = <<>> /\ tasks[1].kind = "clean"
      BY <1>32, OnlyTask DEF DeliverClean, Delivered, TakesEvents, Task, Inv, Shape
    <3> QED
      BY <1>32, <3>1 DEF DeliverClean, Delivered, TakesEvents
  <2>2. Task("preview", "working") \in Tasks /\ Task("preview", "working").kind = "preview"
    BY DEF Task, Tasks, TaskKinds
  <2>3. Shape'
    <3>1. tasks' \in Seq(Tasks) /\ Len(tasks') <= 1
      BY <2>1, <2>2, FirstTask
    <3>2. enabled' \subseteq Buttons /\ busy' \in BOOLEAN
      BY <1>32 DEF DeliverClean, Buttons, Inv, Shape, Delivered, TakesEvents
    <3> QED
      BY <1>32, <2>1, <3>1, <3>2 DEF DeliverClean, Inv, Shape
  <2>4. Modal' /\ Locked'
    BY <2>1, <2>2, Working, FirstTask DEF Modal, Locked
  <2>5. Borrowed'
    BY <1>32, <2>1, <2>2, Working, FirstTask DEF DeliverClean, Inv, Borrowed, Runs, Buttons
  <2> QED
    BY <2>1, <2>3, <2>4, <2>5 DEF Inv
<1>33. ASSUME NEW i \in DOMAIN tasks, DeliverPlan(i) PROVE Inv'
  <2>1. /\ alive /\ alive' = alive /\ tasks # <<>> /\ tasks[1].kind = "plan" /\ tasks' = <<>>
    BY <1>33, OnlyTask DEF DeliverPlan, Delivered, TakesEvents, Task, Inv, Shape
  <2>2. PICK f \in {Frame("execute", "ask"), Frame("execute", "notice")} : stack' = Push(f)
    BY <1>33 DEF DeliverPlan
  <2>3. f \in Frames /\ f.op = "execute"
    BY DEF Frame, Frames
  <2>4. /\ stack' \in Seq(Frames) /\ Len(stack) \in Nat /\ Len(stack') = Len(stack) + 1
        /\ stack'[Len(stack) + 1] = f /\ stack' # <<>>
        /\ \A d \in 1..Len(stack) : stack'[d] = stack[d]
    <3>1. stack \in Seq(Frames)
      BY <2>1 DEF Inv, Shape
    <3>2. /\ stack' \in Seq(Frames) /\ Len(stack') = Len(stack) + 1
          /\ stack'[Len(stack) + 1] = f /\ \A d \in 1..Len(stack) : stack'[d] = stack[d]
      BY <2>2, <2>3, <3>1, Pushed
    <3>3. Len(stack) \in Nat /\ stack' # <<>>
      BY <3>1, <3>2, LenProperties, EmptySeq
    <3> QED
      BY <3>2, <3>3
  <2>5. Shape'
    <3>1. tasks' \in Seq(Tasks) /\ Len(tasks') <= 1
      BY <2>1, EmptySeq
    <3> QED
      BY <1>33, <2>1, <2>4, <3>1 DEF DeliverPlan, Buttons, Inv, Shape
  <2>6. Modal' /\ Locked'
    BY <1>33, <2>1, <2>3, <2>4, Working DEF DeliverPlan, Inv, Modal, Locked, Reporting, Top
  <2>7. "review" \notin enabled' => \E d \in 1..Len(stack') : stack'[d].op = "review"
    <3>1. ASSUME "review" \notin enabled'
          PROVE  \E d \in 1..Len(stack) : stack[d].op = "review"
      BY <1>33, <2>1, <3>1 DEF DeliverPlan, Inv, Borrowed
    <3> QED
      BY <2>4, <3>1
  <2>8. Borrowed'
    BY <1>33, <2>1, <2>3, <2>4, <2>7, Working
    DEF DeliverPlan, Inv, Locked, Borrowed, Runs, Reporting, Top
  <2> QED
    BY <2>1, <2>5, <2>6, <2>8 DEF Inv
<1>34. ASSUME NEW i \in DOMAIN tasks, DeliverExecute(i) PROVE Inv'
  <2>1. /\ alive /\ alive' = alive /\ tasks # <<>> /\ tasks[1].kind = "execute" /\ tasks' = <<>>
    BY <1>34, OnlyTask DEF DeliverExecute, Delivered, TakesEvents, Task, Inv, Shape
  <2>2. PICK f \in {Frame("execute", "notice")} : stack' = Push(f)
    BY <1>34 DEF DeliverExecute
  <2>3. f \in Frames /\ f.op = "execute"
    BY DEF Frame, Frames
  <2>4. /\ stack' \in Seq(Frames) /\ Len(stack) \in Nat /\ Len(stack') = Len(stack) + 1
        /\ stack'[Len(stack) + 1] = f /\ stack' # <<>>
        /\ \A d \in 1..Len(stack) : stack'[d] = stack[d]
    <3>1. stack \in Seq(Frames)
      BY <2>1 DEF Inv, Shape
    <3>2. /\ stack' \in Seq(Frames) /\ Len(stack') = Len(stack) + 1
          /\ stack'[Len(stack) + 1] = f /\ \A d \in 1..Len(stack) : stack'[d] = stack[d]
      BY <2>2, <2>3, <3>1, Pushed
    <3>3. Len(stack) \in Nat /\ stack' # <<>>
      BY <3>1, <3>2, LenProperties, EmptySeq
    <3> QED
      BY <3>2, <3>3
  <2>5. Shape'
    <3>1. tasks' \in Seq(Tasks) /\ Len(tasks') <= 1
      BY <2>1, EmptySeq
    <3> QED
      BY <1>34, <2>1, <2>4, <3>1 DEF DeliverExecute, Buttons, Inv, Shape
  <2>6. Modal' /\ Locked'
    BY <1>34, <2>1, <2>3, <2>4, Working DEF DeliverExecute, Inv, Modal, Locked, Reporting, Top
  <2>7. "review" \notin enabled' => \E d \in 1..Len(stack') : stack'[d].op = "review"
    <3>1. ASSUME "review" \notin enabled'
          PROVE  \E d \in 1..Len(stack) : stack[d].op = "review"
      BY <1>34, <2>1, <3>1 DEF DeliverExecute, Inv, Borrowed
    <3> QED
      BY <2>4, <3>1
  <2>8. Borrowed'
    BY <1>34, <2>1, <2>3, <2>4, <2>7, Working
    DEF DeliverExecute, Inv, Locked, Borrowed, Runs, Reporting, Top
  <2> QED
    BY <2>1, <2>5, <2>6, <2>8 DEF Inv
<1>35. ASSUME Close PROVE Inv'
  BY <1>35 DEF Close, Inv
<1>36. ASSUME UNCHANGED vars PROVE Inv'
  BY <1>36 DEF vars, Inv, Shape, Modal, Locked, Reporting, Borrowed, Runs, Top
<1> QED
  BY <1>1, <1>2, <1>3, <1>4, <1>5, <1>6, <1>7, <1>8, <1>9, <1>10, <1>11, <1>12,
     <1>13, <1>14, <1>15, <1>16, <1>17, <1>18, <1>19, <1>20, <1>21, <1>22, <1>23, <1>24,
     <1>25, <1>26, <1>27, <1>28, <1>29, <1>30, <1>31, <1>32, <1>33, <1>34, <1>35, <1>36
  DEF Next, User, Answer, Interface, Pool, Deliver

LEMMA InvHolds == Spec => []Inv
<1>1. Init => Inv
  <2> SUFFICES ASSUME Init PROVE Inv
    OBVIOUS
  <2>1. Shape
    <3>1. <<>> \in Seq(Frames) /\ <<>> \in Seq(Tasks) /\ Len(<<>>) = 0
      BY EmptySeq
    <3>2. stack \in Seq(Frames) /\ tasks \in Seq(Tasks) /\ Len(tasks) <= 1
      BY <3>1 DEF Init
    <3>3. busy \in BOOLEAN /\ enabled \subseteq Buttons /\ stopper \in {"none", "live", "stopped"}
      BY DEF Init, Buttons
    <3> QED
      BY <3>2, <3>3 DEF Shape
  <2>2. Modal /\ Locked
    BY EmptySeq DEF Init, Modal, Locked
  <2>3. Borrowed
    BY DEF Init, Borrowed, Runs, Buttons
  <2> QED
    BY <2>1, <2>2, <2>3 DEF Init, Inv
<1> QED
  BY <1>1, InvKept, PTL DEF Spec

\* Whatever operation runs inside whatever other, at most one task is in the pool and
\* busy_ is set while it is: the second click is barred, at any depth.
THEOREM OneTaskOnly == Spec => []OneTask
<1>1. Inv => OneTask
  BY DEF Inv, Shape, Locked, OneTask
<1> QED
  BY <1>1, InvHolds, PTL

\* A button that an operation took comes back with it, and the button to cancel can
\* be clicked exactly while there is a survey.
THEOREM EveryButtonReturns == Spec => []ButtonsComeBack
<1>1. Inv => ButtonsComeBack
  <2> SUFFICES ASSUME Inv, alive
               PROVE  /\ stack = <<>> /\ tasks = <<>> =>
                           ~ busy /\ {"analyze", "action", "preview", "run", "survey",
                                      "snapshot", "review"} \subseteq enabled
                      /\ "cancel" \in enabled <=> \E i \in DOMAIN tasks : tasks[i].kind = "survey"
                      /\ "cancel" \in enabled <=> stopper # "none"
    BY DEF ButtonsComeBack
  <2>1. stack = <<>> /\ tasks = <<>> => ~ busy
    BY DEF Inv, Locked, Reporting
  <2>2. ASSUME stack = <<>>, tasks = <<>>
        PROVE  {"analyze", "action", "preview", "run", "survey", "snapshot", "review"} \subseteq enabled
    BY <2>2, EmptySeq DEF Inv, Borrowed, Runs, Reporting
  <2>3. Runs({"survey"}) <=> \E i \in DOMAIN tasks : tasks[i].kind = "survey"
    BY OnlyTask DEF Inv, Shape, Runs
  <2> QED
    BY <2>1, <2>2, <2>3 DEF Inv, Borrowed
<1> QED
  BY <1>1, InvHolds, PTL

\* While the user reads a confirmation about files no task runs, and no other
\* operation is inside it, at any depth.
THEOREM ConsentStands == Spec => []ConsentUndisturbed
<1>1. Inv => ConsentUndisturbed
  <2> SUFFICES ASSUME Inv, NEW d \in DOMAIN stack,
                      stack[d].at = "ask", stack[d].op \in {"clean", "execute"}
               PROVE  d = Len(stack) /\ tasks = <<>>
    BY DEF ConsentUndisturbed
  <2>1. alive
    BY EmptySeq DEF Inv
  <2>2. d \in 1..Len(stack)
    BY <2>1, LenProperties DEF Inv, Shape
  <2> QED
    BY <2>1, <2>2 DEF Inv, Modal
<1> QED
  BY <1>1, InvHolds, PTL
===============================================================================
