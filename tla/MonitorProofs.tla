----------------------------- MODULE MonitorProofs -----------------------------
(***************************************************************************)
(* Proofs about what src/monitor promises, one part after the other: the   *)
(* watcher of folders, the database of snapshots, and the report of what   *)
(* grew between two of them.                                               *)
(***************************************************************************)
EXTENDS FolderWatcher, SnapshotStore, GrowthReport, Sums, SequenceTheorems

-----------------------------------------------------------------------------
(***************************************************************************)
(* FolderWatcher, for any number of folders and of writes, any size of the *)
(* system's buffer, and every interleaving of the workers, the caller and  *)
(* the programs that write.                                                *)
(***************************************************************************)

\* Where a worker has a callback that may be running.
Inside == {"check", "reset", "arm", "announce", "wait", "result", "note", "unregister"}

\* A worker has its event while it needs it, and its callback only then.
Callbacks ==
  /\ \A w \in Folders :
       /\ wpc[w] \in Inside \cup {"register", "close"} => signal[w] \in {"clear", "set"}
       /\ registered[w] => wpc[w] \in Inside
  /\ cpc = "callback" => wpc[current] \in Inside /\ stopRequested[current]

\* A folder has its handle exactly while its thread is in the vector.
Handles ==
  \A w \in Folders :
    /\ w \in workers => open[w]
    /\ w \notin workers => wpc[w] \in {"off", "done"} /\ ~ open[w] /\ io[w] = "none"

\* A request is outstanding or answered only between Arm and Result, what it
\* answered is noted before the next one, and an event set while nobody asked to
\* stop means an answer.
Requests ==
  \A w \in Folders :
    /\ io[w] # "none" => wpc[w] \in {"announce", "wait", "result"}
    /\ wpc[w] = "result" => io[w] = "done"
    /\ wpc[w] \in {"arm", "announce", "wait"} /\ signal[w] = "set" /\ ~ stopRequested[w]
         => io[w] = "done"
    /\ batch[w] # {} => io[w] = "done" \/ wpc[w] = "note" \/ Leaving(w)

\* Whoever watch() answered for has its first request accepted, or is on the way out.
Promises ==
  \A w \in Folders :
    /\ w \in answered => armed[w]
    /\ wpc[w] = "off" => ~ armed[w]
    /\ armed[w] /\ ~ Leaving(w) => heard[w]
    /\ wpc[w] \in {"announce", "wait", "result", "note"} => heard[w]

\* The system numbers each write once: it waits in one place, or has been noted.
Pending(w) == buffer[w] \cup batch[w]

Numbered ==
  /\ \A w \in Folders : /\ Pending(w) \subseteq 1..writes
                        /\ buffer[w] \cap batch[w] = {}
                        /\ Pending(w) \cap noted = {}
  /\ \A v, w \in Folders : v # w => Pending(v) \cap Pending(w) = {}
  /\ noted \subseteq 1..writes
  /\ activity \cup drained \cup drainCopy \subseteq noted
  /\ activity \cap drained = {}

Inv == TypeOK /\ Callbacks /\ Handles /\ Requests /\ Promises /\ Numbered

-----------------------------------------------------------------------------
(* One step of one actor keeps each part. *)

LEMMA TypesKept ==
  ASSUME TypeOK, [Next]_vars
  PROVE  TypeOK'
<1> USE DEF At, workerVars, systemVars, callerVars, noteVars, historyVars,
            TypeOK, Writes
<1>1. ASSUME NEW w \in Folders, SignalCreate(w) PROVE TypeOK'
  BY <1>1 DEF SignalCreate
<1>2. ASSUME NEW w \in Folders, Register(w) PROVE TypeOK'
  <2>1. CASE stopRequested[w]
    BY <1>2, <2>1 DEF Register
  <2>2. CASE ~ stopRequested[w]
    BY <1>2, <2>2 DEF Register
  <2> QED  BY <2>1, <2>2
<1>3. ASSUME NEW w \in Folders, Check(w) PROVE TypeOK'
  BY <1>3 DEF Check
<1>4. ASSUME NEW w \in Folders, ResetSignal(w) PROVE TypeOK'
  BY <1>4 DEF ResetSignal
<1>5. ASSUME NEW w \in Folders, Arm(w) PROVE TypeOK'
  <2>1. CASE buffer[w] # {} \/ full[w]
    <3>1. /\ batch' \in [Folders -> SUBSET Writes]
          /\ buffer' \in [Folders -> SUBSET Writes]
      BY <1>5, <2>1 DEF Arm
    <3>2. /\ io' \in [Folders -> {"none", "pending", "done"}]
          /\ signal' \in [Folders -> {"none", "clear", "set", "closed"}]
      BY <1>5, <2>1 DEF Arm
    <3>4. /\ heard' = heard \/ heard' = [heard EXCEPT ![w] = TRUE]
          /\ full' = full \/ full' = [full EXCEPT ![w] = FALSE]
      BY <1>5, <2>1 DEF Arm
    <3>5. heard' \in [Folders -> BOOLEAN]
      BY <3>4
    <3>3. heard' \in [Folders -> BOOLEAN] /\ full' \in [Folders -> BOOLEAN]
      BY <3>4, <3>5
    <3> HIDE DEF Writes
    <3> QED
      BY <1>5, <2>1, <3>1, <3>2, <3>3 DEF Arm
  <2>2. CASE ~ (buffer[w] # {} \/ full[w])
    <3>4. io' = io \/ io' = [io EXCEPT ![w] = "pending"]
      BY <1>5, <2>2 DEF Arm
    <3>5. heard' = heard \/ heard' = [heard EXCEPT ![w] = TRUE]
      BY <1>5, <2>2 DEF Arm
    <3>6. io' \in [Folders -> {"none", "pending", "done"}]
      BY <3>4
    <3>1. io' \in [Folders -> {"none", "pending", "done"}] /\ heard' \in [Folders -> BOOLEAN]
      BY <3>5, <3>6
    <3>2. wpc' = [wpc EXCEPT ![w] = "announce"] \/ wpc' = [wpc EXCEPT ![w] = "unregister"]
      BY <1>5, <2>2 DEF Arm
    <3>3. UNCHANGED <<signal, batch, buffer, full, registered, stopRequested, armed, open, callerVars,
                      noteVars, historyVars>>
      BY <1>5, <2>2 DEF Arm
    <3> HIDE DEF Writes
    <3> QED
      BY <3>1, <3>2, <3>3
  <2> QED  BY <2>1, <2>2
<1>6. ASSUME NEW w \in Folders, Announce(w) PROVE TypeOK'
  BY <1>6 DEF Announce
<1>7. ASSUME NEW w \in Folders, Wake(w) PROVE TypeOK'
  BY <1>7 DEF Wake
<1>8. ASSUME NEW w \in Folders, Result(w) PROVE TypeOK'
  BY <1>8 DEF Result
<1>9. ASSUME NEW w \in Folders, Note(w) PROVE TypeOK'
  BY <1>9 DEF Note
<1>10. ASSUME NEW w \in Folders, Unregister(w) PROVE TypeOK'
  BY <1>10 DEF Unregister
<1>11. ASSUME NEW w \in Folders, CloseSignal(w) PROVE TypeOK'
  BY <1>11 DEF CloseSignal
<1>12. ASSUME NEW w \in Folders, AnnounceLast(w) PROVE TypeOK'
  BY <1>12 DEF AnnounceLast
<1>13. ASSUME NEW w \in Folders, Watch(w) PROVE TypeOK'
  BY <1>13, ConstantsAssumption DEF Watch
<1>14. ASSUME NEW w \in Folders, ProgramWrites(w) PROVE TypeOK'
  BY <1>14, ConstantsAssumption DEF ProgramWrites
<1>15. ASSUME NEW w \in Folders, StopRequest(w) PROVE TypeOK'
  <2>1. CASE registered[w]
    <3>1. /\ stopRequested' = [stopRequested EXCEPT ![w] = TRUE]
          /\ registered' = [registered EXCEPT ![w] = FALSE]
      BY <1>15, <2>1 DEF StopRequest
    <3>2. stopRequested' \in [Folders -> BOOLEAN]
      BY <3>1
    <3>3. registered' \in [Folders -> BOOLEAN]
      BY <3>1
    <3>4. /\ cpc' = "callback" /\ current' = w /\ todo' = todo \ {w}
          /\ UNCHANGED <<wpc, signal, armed, batch, systemVars, workers, drainCopy, drained,
                         answered, noteVars, historyVars>>
      BY <1>15, <2>1 DEF StopRequest
    <3> HIDE DEF Writes
    <3> QED
      BY <3>2, <3>3, <3>4, ConstantsAssumption
  <2>2. CASE ~ registered[w]
    BY <1>15, <2>2, ConstantsAssumption DEF StopRequest
  <2> QED  BY <2>1, <2>2
<1>16. ASSUME WatchArmed PROVE TypeOK'
  BY <1>16, ConstantsAssumption DEF WatchArmed, WatchEnds
<1>17. ASSUME WatchTimeout PROVE TypeOK'
  BY <1>17, ConstantsAssumption DEF WatchTimeout, WatchEnds
<1>18. ASSUME StopBegin PROVE TypeOK'
  BY <1>18 DEF StopBegin
<1>19. ASSUME StopCallback PROVE TypeOK'
  BY <1>19, ConstantsAssumption DEF StopCallback
<1>20. ASSUME StopJoin PROVE TypeOK'
  BY <1>20 DEF StopJoin
<1>21. ASSUME DrainCollect PROVE TypeOK'
  BY <1>21 DEF DrainCollect
<1>22. ASSUME DrainClear PROVE TypeOK'
  BY <1>22 DEF DrainClear
<1>23. ASSUME UNCHANGED vars PROVE TypeOK'
  BY <1>23 DEF vars
<1> QED
  BY <1>1, <1>2, <1>3, <1>4, <1>5, <1>6, <1>7, <1>8, <1>9, <1>10, <1>11, <1>12,
     <1>13, <1>14, <1>15, <1>16, <1>17, <1>18, <1>19, <1>20, <1>21, <1>22, <1>23
  DEF Next, WorkerStep, CallerStep

LEMMA CallbacksKept ==
  ASSUME TypeOK, Callbacks, [Next]_vars
  PROVE  Callbacks'
<1> USE DEF At, workerVars, systemVars, callerVars, noteVars, historyVars,
            TypeOK, Callbacks, Inside
<1>1. ASSUME NEW w \in Folders, SignalCreate(w) PROVE Callbacks'
  BY <1>1 DEF SignalCreate
<1>2. ASSUME NEW w \in Folders, Register(w) PROVE Callbacks'
  <2>1. CASE stopRequested[w]
    BY <1>2, <2>1 DEF Register
  <2>2. CASE ~ stopRequested[w]
    BY <1>2, <2>2 DEF Register
  <2> QED  BY <2>1, <2>2
<1>3. ASSUME NEW w \in Folders, Check(w) PROVE Callbacks'
  BY <1>3 DEF Check
<1>4. ASSUME NEW w \in Folders, ResetSignal(w) PROVE Callbacks'
  BY <1>4 DEF ResetSignal
<1>5. ASSUME NEW w \in Folders, Arm(w) PROVE Callbacks'
  <2>1. CASE buffer[w] # {} \/ full[w]
    BY <1>5, <2>1 DEF Arm
  <2>2. CASE ~ (buffer[w] # {} \/ full[w])
    BY <1>5, <2>2 DEF Arm
  <2> QED  BY <2>1, <2>2
<1>6. ASSUME NEW w \in Folders, Announce(w) PROVE Callbacks'
  BY <1>6 DEF Announce
<1>7. ASSUME NEW w \in Folders, Wake(w) PROVE Callbacks'
  BY <1>7 DEF Wake
<1>8. ASSUME NEW w \in Folders, Result(w) PROVE Callbacks'
  BY <1>8 DEF Result
<1>9. ASSUME NEW w \in Folders, Note(w) PROVE Callbacks'
  BY <1>9 DEF Note
<1>10. ASSUME NEW w \in Folders, Unregister(w) PROVE Callbacks'
  BY <1>10 DEF Unregister
<1>11. ASSUME NEW w \in Folders, CloseSignal(w) PROVE Callbacks'
  BY <1>11 DEF CloseSignal
<1>12. ASSUME NEW w \in Folders, AnnounceLast(w) PROVE Callbacks'
  BY <1>12 DEF AnnounceLast
<1>13. ASSUME NEW w \in Folders, Watch(w) PROVE Callbacks'
  BY <1>13 DEF Watch
<1>14. ASSUME NEW w \in Folders, ProgramWrites(w) PROVE Callbacks'
  BY <1>14 DEF ProgramWrites
<1>15. ASSUME NEW w \in Folders, StopRequest(w) PROVE Callbacks'
  <2>1. CASE registered[w]
    BY <1>15, <2>1 DEF StopRequest
  <2>2. CASE ~ registered[w]
    BY <1>15, <2>2 DEF StopRequest
  <2> QED  BY <2>1, <2>2
<1>16. ASSUME WatchArmed PROVE Callbacks'
  BY <1>16 DEF WatchArmed, WatchEnds
<1>17. ASSUME WatchTimeout PROVE Callbacks'
  BY <1>17 DEF WatchTimeout, WatchEnds
<1>18. ASSUME StopBegin PROVE Callbacks'
  BY <1>18 DEF StopBegin
<1>19. ASSUME StopCallback PROVE Callbacks'
  BY <1>19 DEF StopCallback
<1>20. ASSUME StopJoin PROVE Callbacks'
  BY <1>20 DEF StopJoin
<1>21. ASSUME DrainCollect PROVE Callbacks'
  BY <1>21 DEF DrainCollect
<1>22. ASSUME DrainClear PROVE Callbacks'
  BY <1>22 DEF DrainClear
<1>23. ASSUME UNCHANGED vars PROVE Callbacks'
  BY <1>23 DEF vars
<1> QED
  BY <1>1, <1>2, <1>3, <1>4, <1>5, <1>6, <1>7, <1>8, <1>9, <1>10, <1>11, <1>12,
     <1>13, <1>14, <1>15, <1>16, <1>17, <1>18, <1>19, <1>20, <1>21, <1>22, <1>23
  DEF Next, WorkerStep, CallerStep

LEMMA HandlesKept ==
  ASSUME TypeOK, Handles, [Next]_vars
  PROVE  Handles'
<1> USE DEF At, workerVars, systemVars, callerVars, noteVars, historyVars,
            TypeOK, Handles
<1>1. ASSUME NEW w \in Folders, SignalCreate(w) PROVE Handles'
  BY <1>1 DEF SignalCreate
<1>2. ASSUME NEW w \in Folders, Register(w) PROVE Handles'
  <2>1. CASE stopRequested[w]
    BY <1>2, <2>1 DEF Register
  <2>2. CASE ~ stopRequested[w]
    BY <1>2, <2>2 DEF Register
  <2> QED  BY <2>1, <2>2
<1>3. ASSUME NEW w \in Folders, Check(w) PROVE Handles'
  BY <1>3 DEF Check
<1>4. ASSUME NEW w \in Folders, ResetSignal(w) PROVE Handles'
  BY <1>4 DEF ResetSignal
<1>5. ASSUME NEW w \in Folders, Arm(w) PROVE Handles'
  <2>1. CASE buffer[w] # {} \/ full[w]
    BY <1>5, <2>1 DEF Arm
  <2>2. CASE ~ (buffer[w] # {} \/ full[w])
    BY <1>5, <2>2 DEF Arm
  <2> QED  BY <2>1, <2>2
<1>6. ASSUME NEW w \in Folders, Announce(w) PROVE Handles'
  BY <1>6 DEF Announce
<1>7. ASSUME NEW w \in Folders, Wake(w) PROVE Handles'
  BY <1>7 DEF Wake
<1>8. ASSUME NEW w \in Folders, Result(w) PROVE Handles'
  BY <1>8 DEF Result
<1>9. ASSUME NEW w \in Folders, Note(w) PROVE Handles'
  BY <1>9 DEF Note
<1>10. ASSUME NEW w \in Folders, Unregister(w) PROVE Handles'
  BY <1>10 DEF Unregister
<1>11. ASSUME NEW w \in Folders, CloseSignal(w) PROVE Handles'
  BY <1>11 DEF CloseSignal
<1>12. ASSUME NEW w \in Folders, AnnounceLast(w) PROVE Handles'
  BY <1>12 DEF AnnounceLast
<1>13. ASSUME NEW w \in Folders, Watch(w) PROVE Handles'
  BY <1>13 DEF Watch
<1>14. ASSUME NEW w \in Folders, ProgramWrites(w) PROVE Handles'
  BY <1>14 DEF ProgramWrites
<1>15. ASSUME NEW w \in Folders, StopRequest(w) PROVE Handles'
  <2>1. CASE registered[w]
    BY <1>15, <2>1 DEF StopRequest
  <2>2. CASE ~ registered[w]
    BY <1>15, <2>2 DEF StopRequest
  <2> QED  BY <2>1, <2>2
<1>16. ASSUME WatchArmed PROVE Handles'
  BY <1>16 DEF WatchArmed, WatchEnds
<1>17. ASSUME WatchTimeout PROVE Handles'
  BY <1>17 DEF WatchTimeout, WatchEnds
<1>18. ASSUME StopBegin PROVE Handles'
  BY <1>18 DEF StopBegin
<1>19. ASSUME StopCallback PROVE Handles'
  BY <1>19 DEF StopCallback
<1>20. ASSUME StopJoin PROVE Handles'
  BY <1>20 DEF StopJoin
<1>21. ASSUME DrainCollect PROVE Handles'
  BY <1>21 DEF DrainCollect
<1>22. ASSUME DrainClear PROVE Handles'
  BY <1>22 DEF DrainClear
<1>23. ASSUME UNCHANGED vars PROVE Handles'
  BY <1>23 DEF vars
<1> QED
  BY <1>1, <1>2, <1>3, <1>4, <1>5, <1>6, <1>7, <1>8, <1>9, <1>10, <1>11, <1>12,
     <1>13, <1>14, <1>15, <1>16, <1>17, <1>18, <1>19, <1>20, <1>21, <1>22, <1>23
  DEF Next, WorkerStep, CallerStep

LEMMA RequestsKept ==
  ASSUME TypeOK, Callbacks, Handles, Requests, [Next]_vars
  PROVE  Requests'
<1> USE DEF At, workerVars, systemVars, callerVars, noteVars, historyVars,
            TypeOK, Callbacks, Handles, Requests, Leaving, Inside
<1>1. ASSUME NEW w \in Folders, SignalCreate(w) PROVE Requests'
  BY <1>1 DEF SignalCreate
<1>2. ASSUME NEW w \in Folders, Register(w) PROVE Requests'
  <2>1. CASE stopRequested[w]
    BY <1>2, <2>1 DEF Register
  <2>2. CASE ~ stopRequested[w]
    BY <1>2, <2>2 DEF Register
  <2> QED  BY <2>1, <2>2
<1>3. ASSUME NEW w \in Folders, Check(w) PROVE Requests'
  BY <1>3 DEF Check
<1>4. ASSUME NEW w \in Folders, ResetSignal(w) PROVE Requests'
  BY <1>4 DEF ResetSignal
<1>5. ASSUME NEW w \in Folders, Arm(w) PROVE Requests'
  <2>1. CASE buffer[w] # {} \/ full[w]
    BY <1>5, <2>1 DEF Arm
  <2>2. CASE ~ (buffer[w] # {} \/ full[w])
    BY <1>5, <2>2 DEF Arm
  <2> QED  BY <2>1, <2>2
<1>6. ASSUME NEW w \in Folders, Announce(w) PROVE Requests'
  BY <1>6 DEF Announce
<1>7. ASSUME NEW w \in Folders, Wake(w) PROVE Requests'
  BY <1>7 DEF Wake
<1>8. ASSUME NEW w \in Folders, Result(w) PROVE Requests'
  BY <1>8 DEF Result
<1>9. ASSUME NEW w \in Folders, Note(w) PROVE Requests'
  BY <1>9 DEF Note
<1>10. ASSUME NEW w \in Folders, Unregister(w) PROVE Requests'
  BY <1>10 DEF Unregister
<1>11. ASSUME NEW w \in Folders, CloseSignal(w) PROVE Requests'
  BY <1>11 DEF CloseSignal
<1>12. ASSUME NEW w \in Folders, AnnounceLast(w) PROVE Requests'
  BY <1>12 DEF AnnounceLast
<1>13. ASSUME NEW w \in Folders, Watch(w) PROVE Requests'
  BY <1>13 DEF Watch
<1>14. ASSUME NEW w \in Folders, ProgramWrites(w) PROVE Requests'
  BY <1>14 DEF ProgramWrites
<1>15. ASSUME NEW w \in Folders, StopRequest(w) PROVE Requests'
  <2>1. CASE registered[w]
    BY <1>15, <2>1 DEF StopRequest
  <2>2. CASE ~ registered[w]
    BY <1>15, <2>2 DEF StopRequest
  <2> QED  BY <2>1, <2>2
<1>16. ASSUME WatchArmed PROVE Requests'
  BY <1>16 DEF WatchArmed, WatchEnds
<1>17. ASSUME WatchTimeout PROVE Requests'
  BY <1>17 DEF WatchTimeout, WatchEnds
<1>18. ASSUME StopBegin PROVE Requests'
  BY <1>18 DEF StopBegin
<1>19. ASSUME StopCallback PROVE Requests'
  BY <1>19 DEF StopCallback
<1>20. ASSUME StopJoin PROVE Requests'
  BY <1>20 DEF StopJoin
<1>21. ASSUME DrainCollect PROVE Requests'
  BY <1>21 DEF DrainCollect
<1>22. ASSUME DrainClear PROVE Requests'
  BY <1>22 DEF DrainClear
<1>23. ASSUME UNCHANGED vars PROVE Requests'
  BY <1>23 DEF vars
<1> QED
  BY <1>1, <1>2, <1>3, <1>4, <1>5, <1>6, <1>7, <1>8, <1>9, <1>10, <1>11, <1>12,
     <1>13, <1>14, <1>15, <1>16, <1>17, <1>18, <1>19, <1>20, <1>21, <1>22, <1>23
  DEF Next, WorkerStep, CallerStep

LEMMA PromisesKept ==
  ASSUME TypeOK, Handles, Requests, Promises, [Next]_vars
  PROVE  Promises'
<1> USE DEF At, workerVars, systemVars, callerVars, noteVars, historyVars,
            TypeOK, Handles, Requests, Promises, Leaving
<1>1. ASSUME NEW w \in Folders, SignalCreate(w) PROVE Promises'
  BY <1>1 DEF SignalCreate
<1>2. ASSUME NEW w \in Folders, Register(w) PROVE Promises'
  <2>1. CASE stopRequested[w]
    BY <1>2, <2>1 DEF Register
  <2>2. CASE ~ stopRequested[w]
    BY <1>2, <2>2 DEF Register
  <2> QED  BY <2>1, <2>2
<1>3. ASSUME NEW w \in Folders, Check(w) PROVE Promises'
  BY <1>3 DEF Check
<1>4. ASSUME NEW w \in Folders, ResetSignal(w) PROVE Promises'
  BY <1>4 DEF ResetSignal
<1>5. ASSUME NEW w \in Folders, Arm(w) PROVE Promises'
  <2>1. CASE buffer[w] # {} \/ full[w]
    BY <1>5, <2>1 DEF Arm
  <2>2. CASE ~ (buffer[w] # {} \/ full[w])
    BY <1>5, <2>2 DEF Arm
  <2> QED  BY <2>1, <2>2
<1>6. ASSUME NEW w \in Folders, Announce(w) PROVE Promises'
  BY <1>6 DEF Announce
<1>7. ASSUME NEW w \in Folders, Wake(w) PROVE Promises'
  BY <1>7 DEF Wake
<1>8. ASSUME NEW w \in Folders, Result(w) PROVE Promises'
  BY <1>8 DEF Result
<1>9. ASSUME NEW w \in Folders, Note(w) PROVE Promises'
  BY <1>9 DEF Note
<1>10. ASSUME NEW w \in Folders, Unregister(w) PROVE Promises'
  BY <1>10 DEF Unregister
<1>11. ASSUME NEW w \in Folders, CloseSignal(w) PROVE Promises'
  BY <1>11 DEF CloseSignal
<1>12. ASSUME NEW w \in Folders, AnnounceLast(w) PROVE Promises'
  BY <1>12 DEF AnnounceLast
<1>13. ASSUME NEW w \in Folders, Watch(w) PROVE Promises'
  BY <1>13 DEF Watch
<1>14. ASSUME NEW w \in Folders, ProgramWrites(w) PROVE Promises'
  BY <1>14 DEF ProgramWrites
<1>15. ASSUME NEW w \in Folders, StopRequest(w) PROVE Promises'
  <2>1. CASE registered[w]
    BY <1>15, <2>1 DEF StopRequest
  <2>2. CASE ~ registered[w]
    BY <1>15, <2>2 DEF StopRequest
  <2> QED  BY <2>1, <2>2
<1>16. ASSUME WatchArmed PROVE Promises'
  BY <1>16 DEF WatchArmed, WatchEnds
<1>17. ASSUME WatchTimeout PROVE Promises'
  BY <1>17 DEF WatchTimeout, WatchEnds
<1>18. ASSUME StopBegin PROVE Promises'
  BY <1>18 DEF StopBegin
<1>19. ASSUME StopCallback PROVE Promises'
  BY <1>19 DEF StopCallback
<1>20. ASSUME StopJoin PROVE Promises'
  BY <1>20 DEF StopJoin
<1>21. ASSUME DrainCollect PROVE Promises'
  BY <1>21 DEF DrainCollect
<1>22. ASSUME DrainClear PROVE Promises'
  BY <1>22 DEF DrainClear
<1>23. ASSUME UNCHANGED vars PROVE Promises'
  BY <1>23 DEF vars
<1> QED
  BY <1>1, <1>2, <1>3, <1>4, <1>5, <1>6, <1>7, <1>8, <1>9, <1>10, <1>11, <1>12,
     <1>13, <1>14, <1>15, <1>16, <1>17, <1>18, <1>19, <1>20, <1>21, <1>22, <1>23
  DEF Next, WorkerStep, CallerStep

LEMMA NumberedKept ==
  ASSUME TypeOK, Handles, Requests, Numbered, [Next]_vars
  PROVE  Numbered'
<1> USE DEF At, workerVars, systemVars, callerVars, noteVars, historyVars,
            TypeOK, Requests, Numbered, Pending, Leaving, Writes
<1>1. ASSUME NEW w \in Folders, SignalCreate(w) PROVE Numbered'
  BY <1>1 DEF SignalCreate
<1>2. ASSUME NEW w \in Folders, Register(w) PROVE Numbered'
  BY <1>2 DEF Register
<1>3. ASSUME NEW w \in Folders, Check(w) PROVE Numbered'
  BY <1>3 DEF Check
<1>4. ASSUME NEW w \in Folders, ResetSignal(w) PROVE Numbered'
  BY <1>4 DEF ResetSignal
<1>5. ASSUME NEW w \in Folders, Arm(w) PROVE Numbered'
  <2>1. CASE buffer[w] # {} \/ full[w]
    BY <1>5, <2>1, SMTT(30) DEF Arm
  <2>2. CASE ~ (buffer[w] # {} \/ full[w])
    BY <1>5, <2>2 DEF Arm
  <2> QED  BY <2>1, <2>2
<1>6. ASSUME NEW w \in Folders, Announce(w) PROVE Numbered'
  BY <1>6 DEF Announce
<1>7. ASSUME NEW w \in Folders, Wake(w) PROVE Numbered'
  BY <1>7 DEF Wake
<1>8. ASSUME NEW w \in Folders, Result(w) PROVE Numbered'
  BY <1>8 DEF Result
<1>9. ASSUME NEW w \in Folders, Note(w) PROVE Numbered'
  BY <1>9 DEF Note
<1>10. ASSUME NEW w \in Folders, Unregister(w) PROVE Numbered'
  BY <1>10 DEF Unregister
<1>11. ASSUME NEW w \in Folders, CloseSignal(w) PROVE Numbered'
  BY <1>11 DEF CloseSignal
<1>12. ASSUME NEW w \in Folders, AnnounceLast(w) PROVE Numbered'
  BY <1>12 DEF AnnounceLast
<1>13. ASSUME NEW w \in Folders, Watch(w) PROVE Numbered'
  BY <1>13 DEF Watch
<1>14. ASSUME NEW w \in Folders, ProgramWrites(w) PROVE Numbered'
  BY <1>14, ConstantsAssumption, SMTT(20) DEF ProgramWrites
<1>15. ASSUME NEW w \in Folders, StopRequest(w) PROVE Numbered'
  BY <1>15 DEF StopRequest
<1>16. ASSUME WatchArmed PROVE Numbered'
  BY <1>16 DEF WatchArmed, WatchEnds
<1>17. ASSUME WatchTimeout PROVE Numbered'
  BY <1>17 DEF WatchTimeout, WatchEnds
<1>18. ASSUME StopBegin PROVE Numbered'
  BY <1>18 DEF StopBegin
<1>19. ASSUME StopCallback PROVE Numbered'
  BY <1>19 DEF StopCallback
<1>20. ASSUME StopJoin PROVE Numbered'
  BY <1>20 DEF StopJoin
<1>21. ASSUME DrainCollect PROVE Numbered'
  BY <1>21 DEF DrainCollect
<1>22. ASSUME DrainClear PROVE Numbered'
  BY <1>22 DEF DrainClear
<1>23. ASSUME UNCHANGED vars PROVE Numbered'
  BY <1>23 DEF vars
<1> QED
  BY <1>1, <1>2, <1>3, <1>4, <1>5, <1>6, <1>7, <1>8, <1>9, <1>10, <1>11, <1>12,
     <1>13, <1>14, <1>15, <1>16, <1>17, <1>18, <1>19, <1>20, <1>21, <1>22, <1>23
  DEF Next, WorkerStep, CallerStep

LEMMA NotedKept ==
  ASSUME TypeOK, Handles, Requests, Promises, EveryWriteNoted, [Next]_vars
  PROVE  EveryWriteNoted'
<1> USE DEF At, workerVars, systemVars, callerVars, noteVars, historyVars,
            TypeOK, Handles, Requests, Promises, EveryWriteNoted, Leaving
<1>1. ASSUME NEW w \in Folders, SignalCreate(w) PROVE EveryWriteNoted'
  BY <1>1 DEF SignalCreate
<1>2. ASSUME NEW w \in Folders, Register(w) PROVE EveryWriteNoted'
  <2>1. CASE stopRequested[w]
    BY <1>2, <2>1 DEF Register
  <2>2. CASE ~ stopRequested[w]
    BY <1>2, <2>2 DEF Register
  <2> QED  BY <2>1, <2>2
<1>3. ASSUME NEW w \in Folders, Check(w) PROVE EveryWriteNoted'
  BY <1>3 DEF Check
<1>4. ASSUME NEW w \in Folders, ResetSignal(w) PROVE EveryWriteNoted'
  BY <1>4 DEF ResetSignal
<1>5. ASSUME NEW w \in Folders, Arm(w) PROVE EveryWriteNoted'
  <2>1. CASE buffer[w] # {} \/ full[w]
    BY <1>5, <2>1 DEF Arm
  <2>2. CASE ~ (buffer[w] # {} \/ full[w])
    BY <1>5, <2>2 DEF Arm
  <2> QED  BY <2>1, <2>2
<1>6. ASSUME NEW w \in Folders, Announce(w) PROVE EveryWriteNoted'
  BY <1>6 DEF Announce
<1>7. ASSUME NEW w \in Folders, Wake(w) PROVE EveryWriteNoted'
  BY <1>7 DEF Wake
<1>8. ASSUME NEW w \in Folders, Result(w) PROVE EveryWriteNoted'
  BY <1>8 DEF Result
<1>9. ASSUME NEW w \in Folders, Note(w) PROVE EveryWriteNoted'
  BY <1>9 DEF Note
<1>10. ASSUME NEW w \in Folders, Unregister(w) PROVE EveryWriteNoted'
  BY <1>10 DEF Unregister
<1>11. ASSUME NEW w \in Folders, CloseSignal(w) PROVE EveryWriteNoted'
  BY <1>11 DEF CloseSignal
<1>12. ASSUME NEW w \in Folders, AnnounceLast(w) PROVE EveryWriteNoted'
  BY <1>12 DEF AnnounceLast
<1>13. ASSUME NEW w \in Folders, Watch(w) PROVE EveryWriteNoted'
  BY <1>13 DEF Watch
<1>14. ASSUME NEW w \in Folders, ProgramWrites(w) PROVE EveryWriteNoted'
  BY <1>14 DEF ProgramWrites
<1>15. ASSUME NEW w \in Folders, StopRequest(w) PROVE EveryWriteNoted'
  <2>1. CASE registered[w]
    BY <1>15, <2>1 DEF StopRequest
  <2>2. CASE ~ registered[w]
    BY <1>15, <2>2 DEF StopRequest
  <2> QED  BY <2>1, <2>2
<1>16. ASSUME WatchArmed PROVE EveryWriteNoted'
  BY <1>16 DEF WatchArmed, WatchEnds
<1>17. ASSUME WatchTimeout PROVE EveryWriteNoted'
  BY <1>17 DEF WatchTimeout, WatchEnds
<1>18. ASSUME StopBegin PROVE EveryWriteNoted'
  BY <1>18 DEF StopBegin
<1>19. ASSUME StopCallback PROVE EveryWriteNoted'
  BY <1>19 DEF StopCallback
<1>20. ASSUME StopJoin PROVE EveryWriteNoted'
  BY <1>20 DEF StopJoin
<1>21. ASSUME DrainCollect PROVE EveryWriteNoted'
  BY <1>21 DEF DrainCollect
<1>22. ASSUME DrainClear PROVE EveryWriteNoted'
  BY <1>22 DEF DrainClear
<1>23. ASSUME UNCHANGED vars PROVE EveryWriteNoted'
  BY <1>23 DEF vars
<1> QED
  BY <1>1, <1>2, <1>3, <1>4, <1>5, <1>6, <1>7, <1>8, <1>9, <1>10, <1>11, <1>12,
     <1>13, <1>14, <1>15, <1>16, <1>17, <1>18, <1>19, <1>20, <1>21, <1>22, <1>23
  DEF Next, WorkerStep, CallerStep

-----------------------------------------------------------------------------
LEMMA InvHolds == Spec => []Inv
<1>1. Init => Inv
  BY ConstantsAssumption
  DEF Init, Inv, TypeOK, Callbacks, Handles, Requests, Promises, Numbered, Pending, Inside,
      Leaving, Writes
<1>2. Inv /\ [Next]_vars => Inv'
  BY TypesKept, CallbacksKept, HandlesKept, RequestsKept, PromisesKept, NumberedKept DEF Inv
<1> QED
  BY <1>1, <1>2, PTL DEF Spec

\* Every variable keeps its type: the places of the workers and of the caller, the
\* event, the request, and sets of writes that have happened.
THEOREM WatcherTypes == Spec => []TypeOK
<1>1. Inv => TypeOK
  BY DEF Inv
<1> QED
  BY <1>1, InvHolds, PTL

\* The stop callback of folder_watcher.cpp:160 never sets an event that was
\* destroyed, for the destructor of the callback waits for it before the event goes.
THEOREM CallbacksAreSafe == Spec => []CallbackFindsEvent
<1>1. Inv => CallbackFindsEvent
  BY DEF Inv, TypeOK, Callbacks, Inside, CallbackFindsEvent
<1> QED
  BY <1>1, InvHolds, PTL

\* When stop() has returned no thread runs, no request is outstanding and no handle
\* is open, however many folders were watched.
THEOREM StopIsClean == Spec => []StopLeavesNothing
<1>1. Inv => StopLeavesNothing
  BY DEF Inv, Handles, StopLeavesNothing
<1> QED
  BY <1>1, InvHolds, PTL

\* drain() never returns a write it returned before, wherever a worker notes one
\* between its copy and its clear.
THEOREM DrainsOnce == Spec => []DrainedOnce
<1>1. Inv => DrainedOnce
  BY DEF Inv, Numbered, DrainedOnce
<1> QED
  BY <1>1, InvHolds, PTL

\* From the answer of watch() on no write is lost, whatever completes while the
\* worker notes, unless the system's buffer overflows or the worker is leaving.
THEOREM WritesAreNoted == Spec => []EveryWriteNoted
<1>1. Init => EveryWriteNoted
  BY DEF Init, EveryWriteNoted
<1>2. Inv /\ EveryWriteNoted /\ [Next]_vars => EveryWriteNoted'
  BY NotedKept DEF Inv
<1> QED
  BY <1>1, <1>2, InvHolds, PTL DEF Spec

-----------------------------------------------------------------------------
(***************************************************************************)
(* SnapshotStore: what a saved snapshot, the retention and a comparison    *)
(* can be relied on for, whatever fails and whenever the process ends.     *)
(*                                                                         *)
(* The argument: ids grow, so the snapshot saved last in a week is the     *)
(* MAX(id) of that week among any rows that are left, and a row that has   *)
(* gone never comes back; children are removed only after their row.       *)
(***************************************************************************)

\* Every saved id is below the next one, no id was given twice, and there is one for
\* the snapshot being taken.
IdsGrow ==
  /\ tpc \in {"scan", "save_children", "commit"} => nextId <= MaxId
  /\ \A s \in taken : s.id < nextId
  /\ \A s, r \in taken : s.id = r.id => s = r

\* What a comparison has read of its first snapshot, as long as that is listed.
FromReadWhole ==
  reader.at = "to_folders" /\ reader.from \in rows => reader.fromSeen

HistoryInv ==
  /\ SnapshotsTypeOK
  /\ IdsGrow
  /\ WholeSnapshots
  /\ WeeklyKept
  /\ FromReadWhole
  /\ ListedComparedWhole

LEMMA HistoryInit == SnapshotsInit => HistoryInv
  BY RetentionAssumption
  DEF SnapshotsInit, HistoryInv, SnapshotsTypeOK, IdsGrow, WholeSnapshots, WeeklyKept, FromReadWhole,
      ListedComparedWhole, Listed, NotReading, Reading

LEMMA HistoryNext == HistoryInv /\ [SnapshotsNext]_snapshotVars => HistoryInv'
<1> SUFFICES ASSUME HistoryInv, [SnapshotsNext]_snapshotVars
             PROVE  HistoryInv'
  OBVIOUS
<1> USE RetentionAssumption
<1>1. CASE ScanBegin
  BY <1>1 DEF ScanBegin, LocalTime,
     HistoryInv, SnapshotsTypeOK, IdsGrow, WholeSnapshots, WeeklyKept, FromReadWhole,
     ListedComparedWhole, Listed, tables, readerVars, writerVars, Readings, NotReading, Reading,
     Week, Date
<1>2. CASE SaveHeader \/ SaveChildren \/ TakeFails
  BY <1>2 DEF SaveHeader, SaveChildren, TakeFails,
     HistoryInv, SnapshotsTypeOK, IdsGrow, WholeSnapshots, WeeklyKept, FromReadWhole,
     ListedComparedWhole, Listed, tables, readerVars, writerVars, Readings, NotReading, Reading,
     Week, Date
<1>3. CASE Commit
  <2> DEFINE new == [id |-> nextId, at |-> scanAt]
  <2>1. nextId \in 1..MaxId
    BY <1>3 DEF Commit, HistoryInv, SnapshotsTypeOK, IdsGrow
  <2>2. rows' = rows \cup {new} /\ taken' = taken \cup {new} /\ nextId' = nextId + 1
    BY <1>3 DEF Commit
  <2>3. new \in Snapshots /\ \A s \in taken : s.id < new.id
    BY <2>1 DEF HistoryInv, SnapshotsTypeOK, IdsGrow, Snapshots
  <2>4. SnapshotsTypeOK'
    BY <1>3, <2>1, <2>2, <2>3
    DEF Commit, HistoryInv, SnapshotsTypeOK, readerVars, Readings, NotReading, Reading
  <2>5. IdsGrow'
    BY <1>3, <2>1, <2>2, <2>3 DEF Commit, HistoryInv, SnapshotsTypeOK, IdsGrow, Snapshots
  <2>6. WholeSnapshots'
    BY <1>3, <2>2 DEF Commit, HistoryInv, WholeSnapshots, Listed
  <2>7. WeeklyKept'
    BY <2>2, <2>3 DEF HistoryInv, WeeklyKept, Week, Date
  <2>8. FromReadWhole'
    BY <1>3, <2>2, <2>3 DEF Commit, readerVars, HistoryInv, FromReadWhole, SnapshotsTypeOK, Readings,
       NotReading, Reading, Snapshots
  <2>9. ListedComparedWhole'
    BY <1>3, <2>2, <2>3 DEF Commit, readerVars, HistoryInv, ListedComparedWhole, SnapshotsTypeOK,
       Snapshots
  <2> QED
    BY <2>4, <2>5, <2>6, <2>7, <2>8, <2>9 DEF HistoryInv
<1>4. CASE Retain
  <2>1. rows' \subseteq rows
    BY <1>4 DEF Retain, Kept, Recent, Daily, Weekly, LatestOf
  <2>2. rows' = rows \/ Weekly \subseteq rows'
    BY <1>4 DEF Retain, Kept
  <2>3. taken' = taken
    BY <1>4 DEF Retain
  <2>4. WeeklyKept'
    <3> SUFFICES ASSUME NEW s \in taken, \A r \in taken : Week(r) = Week(s) => r.id <= s.id
                 PROVE  s \in rows'
      BY <2>3 DEF WeeklyKept, Week, Date
    <3>1. s \in rows
      BY DEF HistoryInv, WeeklyKept
    <3>2. s \in Weekly
      BY <3>1 DEF HistoryInv, SnapshotsTypeOK, Weekly, LatestOf
    <3> QED
      BY <2>2, <3>1, <3>2
  <2> QED
    BY <1>4, <2>1, <2>3, <2>4 DEF Retain, HistoryInv, SnapshotsTypeOK, IdsGrow, WholeSnapshots,
       FromReadWhole, ListedComparedWhole, Listed, readerVars, Readings, NotReading, Reading
<1>5. CASE RemoveOrphanFolders \/ RemoveOrphanFiles
  BY <1>5 DEF RemoveOrphanFolders, RemoveOrphanFiles,
     HistoryInv, SnapshotsTypeOK, IdsGrow, WholeSnapshots, WeeklyKept, FromReadWhole,
     ListedComparedWhole, Listed, tables, readerVars, writerVars, Readings, NotReading, Reading,
     Week, Date
<1>6. CASE ListLatest
  BY <1>6 DEF ListLatest,
     HistoryInv, SnapshotsTypeOK, IdsGrow, WholeSnapshots, WeeklyKept, FromReadWhole,
     ListedComparedWhole, Listed, tables, readerVars, writerVars, Readings, NotReading, Reading,
     Week, Date
<1>7. CASE LoadFromHeader \/ LoadToHeader
  BY <1>7 DEF LoadFromHeader, LoadToHeader, LoadHeader,
     HistoryInv, SnapshotsTypeOK, IdsGrow, WholeSnapshots, WeeklyKept, FromReadWhole,
     ListedComparedWhole, Listed, tables, readerVars, writerVars, Readings, NotReading, Reading,
     Week, Date
<1>8. CASE LoadFromFolders
  <2>1. reader \in Readings /\ reader.from \in taken
    BY <1>8 DEF LoadFromFolders, HistoryInv, SnapshotsTypeOK, NotReading, Reading, Readings
  <2> DEFINE seen == reader.from.id \in folders
  <2>s. seen \in BOOLEAN
    OBVIOUS
  <2>r. reader' = [reader EXCEPT !.at = "to_folders", !.fromSeen = seen]
    BY <1>8 DEF LoadFromFolders
  <2> HIDE DEF seen
  <2>2. /\ reader' \in Readings
        /\ reader'.at = "to_folders" /\ reader'.from = reader.from
        /\ reader'.fromSeen = seen
    BY <2>1, <2>s, <2>r DEF Readings
  <2>3. UNCHANGED <<now, offset, tables, writerVars, diff>>
    BY <1>8 DEF LoadFromFolders
  <2>4. FromReadWhole'
    BY <2>2, <2>3 DEF seen, FromReadWhole, HistoryInv, WholeSnapshots, Listed, tables
  <2>5. SnapshotsTypeOK'
    BY <2>2, <2>3 DEF HistoryInv, SnapshotsTypeOK, Readings, tables, writerVars
  <2> QED
    BY <2>3, <2>4, <2>5 DEF HistoryInv, IdsGrow, WholeSnapshots, WeeklyKept,
       ListedComparedWhole, Listed, tables, writerVars, Week, Date
<1>9. CASE LoadToFolders
  BY <1>9 DEF LoadToFolders,
     HistoryInv, SnapshotsTypeOK, IdsGrow, WholeSnapshots, WeeklyKept, FromReadWhole,
     ListedComparedWhole, Listed, tables, readerVars, writerVars, Readings, NotReading, Reading,
     Week, Date
<1>10. CASE Tick
  BY <1>10 DEF Tick,
     HistoryInv, SnapshotsTypeOK, IdsGrow, WholeSnapshots, WeeklyKept, FromReadWhole,
     ListedComparedWhole, Listed, tables, readerVars, writerVars, Readings, NotReading, Reading,
     Week, Date
<1>11. CASE Restart
  BY <1>11 DEF Restart,
     HistoryInv, SnapshotsTypeOK, IdsGrow, WholeSnapshots, WeeklyKept, FromReadWhole,
     ListedComparedWhole, Listed, tables, readerVars, writerVars, Readings, NotReading, Reading,
     Week, Date
<1>12. CASE UNCHANGED snapshotVars
  BY <1>12 DEF snapshotVars,
     HistoryInv, SnapshotsTypeOK, IdsGrow, WholeSnapshots, WeeklyKept, FromReadWhole,
     ListedComparedWhole, Listed, tables, readerVars, writerVars, Readings, NotReading, Reading,
     Week, Date
<1> QED
  BY <1>1, <1>2, <1>3, <1>4, <1>5, <1>6, <1>7, <1>8, <1>9, <1>10, <1>11, <1>12 DEF SnapshotsNext
-----------------------------------------------------------------------------
LEMMA HistoryInvariant == SnapshotsSpec => []HistoryInv
  BY HistoryInit, HistoryNext, PTL DEF SnapshotsSpec

\* Every variable of the store keeps its type.
THEOREM SnapshotTypes == SnapshotsSpec => []SnapshotsTypeOK
  BY HistoryInvariant, PTL DEF HistoryInv

\* "Um retrato inteiro numa transacao so": whatever fails, whenever the process ends
\* and whatever the retention removed, a listed snapshot has all its rows.
THEOREM SnapshotsWhole == SnapshotsSpec => []WholeSnapshots
  BY HistoryInvariant, PTL DEF HistoryInv

\* "um por semana antes disso": however often and at whatever times the retention
\* runs, the last snapshot of each week stays, for any clock that does not go back.
THEOREM WeeksRemembered == SnapshotsSpec => []WeeklyKept
  BY HistoryInvariant, PTL DEF HistoryInv

\* compare() on the interface thread, interleaved with save() and apply_retention()
\* on the pool, has read whole whatever it compares that is still listed.
THEOREM ComparisonSound == SnapshotsSpec => []ListedComparedWhole
  BY HistoryInvariant, PTL DEF HistoryInv

-----------------------------------------------------------------------------
(* The promises about days, wherever the user lives: the retention measures  *)
(* age with a UTC clock against a local time, so it takes a snapshot for     *)
(* older than it is by what local time is behind UTC, and never by more.     *)

DaysInv == DailyKept /\ LastHoursKept

LEMMA DaysNext ==
  ASSUME HistoryInv, HistoryInv', DaysInv, [SnapshotsNext]_snapshotVars
  PROVE  DaysInv'
<1> USE RetentionAssumption DEF DaysInv
<1>1. /\ now \in Nat /\ offset \in Int /\ MonthDays * Day \in Nat /\ Day \in Nat
      /\ rows \subseteq taken /\ \A s \in taken : s.at \in Int /\ s.id \in Int
  BY DEF HistoryInv, SnapshotsTypeOK, Snapshots
<1>2. CASE Commit
  <2> DEFINE new == [id |-> nextId, at |-> scanAt]
  <2>1. /\ rows' = rows \cup {new} /\ taken' = taken \cup {new}
        /\ now' = now /\ offset' = offset
    BY <1>2 DEF Commit
  <2> QED
    BY <2>1 DEF DailyKept, LastHoursKept, Age, Behind, LocalTime, Date
<1>3. CASE Retain
  <2>1. rows' = rows \/ (Daily(now) \subseteq rows' /\ Recent(now) \subseteq rows')
    BY <1>3 DEF Retain, Kept
  <2>2. taken' = taken /\ now' = now /\ offset' = offset
    BY <1>3 DEF Retain
  <2>3. DailyKept'
    <3> SUFFICES ASSUME NEW s \in taken, Age(s) + Behind <= MonthDays * Day,
                        \A r \in taken : Date(r) = Date(s) => r.id <= s.id
                 PROVE  s \in rows'
      BY <2>2 DEF DailyKept, Age, Behind, LocalTime, Date
    <3>1. s \in rows
      BY DEF DailyKept
    <3>2. now - s.at <= MonthDays * Day
      BY <1>1 DEF Age, Behind, LocalTime
    <3>3. s \in Daily(now)
      BY <1>1, <3>1, <3>2 DEF Daily, LatestOf
    <3> QED
      BY <2>1, <3>1, <3>3
  <2>4. LastHoursKept'
    <3> SUFFICES ASSUME NEW s \in taken, Age(s) + Behind <= Day
                 PROVE  s \in rows'
      BY <2>2 DEF LastHoursKept, Age, Behind, LocalTime
    <3>1. s \in rows
      BY DEF LastHoursKept
    <3>2. now - s.at <= Day
      BY <1>1 DEF Age, Behind, LocalTime
    <3> QED
      BY <2>1, <3>1, <3>2 DEF Recent
  <2> QED
    BY <2>3, <2>4
<1>4. CASE Tick
  <2>1. rows' = rows /\ taken' = taken /\ now' = now + 1 /\ offset' = offset
    BY <1>4 DEF Tick, tables, writerVars
  <2>2. \A s \in taken : Age(s)' >= Age(s)
    BY <1>1, <2>1 DEF Age, Behind, LocalTime
  <2> QED
    BY <1>1, <2>1, <2>2 DEF DailyKept, LastHoursKept, Age, Behind, LocalTime, Date
<1>5. CASE UNCHANGED <<rows, taken, now, offset>>
  BY <1>5 DEF DailyKept, LastHoursKept, Age, Behind, LocalTime, Date
<1> QED
  BY <1>2, <1>3, <1>4, <1>5
  DEF SnapshotsNext, snapshotVars, tables, writerVars, ScanBegin, SaveHeader, SaveChildren, TakeFails,
      RemoveOrphanFolders, RemoveOrphanFiles, ListLatest, LoadFromHeader, LoadToHeader,
      LoadHeader, LoadFromFolders, LoadToFolders, Restart

\* "Guarda tudo do ultimo dia, um por dia no ultimo mes", less the hours local time
\* is behind UTC: at every offset the retention keeps every snapshot of the rest of
\* the last day, and the last one of each day of the rest of the month.
THEOREM DaysRemembered == SnapshotsSpec => [](DailyKept /\ LastHoursKept)
<1>1. SnapshotsInit => DaysInv
  BY DEF SnapshotsInit, DaysInv, DailyKept, LastHoursKept
<1> QED
  BY <1>1, DaysNext, HistoryInvariant, PTL DEF SnapshotsSpec, DaysInv

-----------------------------------------------------------------------------
(***************************************************************************)
(* GrowthReport, for any tree of folders, any sizes and any folders        *)
(* skipped or excluded.                                                    *)
(*                                                                         *)
(* The argument: a snapshot holds of each folder it names what was         *)
(* measured in it and below it, since the walk takes the deepest folders   *)
(* first.  What the report takes from a folder is what its subfolders      *)
(* grew by: what is left of one folder is its own, and what is left of all *)
(* is the root's.                                                          *)
(***************************************************************************)

-----------------------------------------------------------------------------
(* A volume as a tree: what is above a folder is the least set that holds it   *)
(* and the parent of whatever it holds.                                       *)

Closed(t, S) == \A y \in S : t[y] \in S
Up(t, f)     == {x \in DOMAIN t : \A S \in SUBSET (DOMAIN t) : f \in S /\ Closed(t, S) => x \in S}
Below(t, D, f) == {g \in D : f \in Up(t, g)}
Kids(t, f)   == {c \in DOMAIN t \ {Root} : t[c] = f}

LEMMA UpIs ==
  ASSUME NEW t \in Trees, NEW f \in DOMAIN t
  PROVE  /\ f \in Up(t, f) /\ Root \in Up(t, f) /\ Up(t, f) \subseteq DOMAIN t /\ Closed(t, Up(t, f))
         /\ \A S \in SUBSET (DOMAIN t) : f \in S /\ Closed(t, S) => Up(t, f) \subseteq S
         /\ IsFiniteSet(Up(t, f))
<1>1. f \in Up(t, f) /\ Up(t, f) \subseteq DOMAIN t
  BY DEF Up
<1>2. Closed(t, Up(t, f))
  BY TreesAssumption DEF Up, Closed
<1>3. Root \in Up(t, f)
  BY <1>1, <1>2, TreesAssumption DEF Closed
<1>4. IsFiniteSet(Up(t, f))
  BY <1>1, TreesAssumption, FS_Subset
<1> QED
  BY <1>1, <1>2, <1>3, <1>4 DEF Up

LEMMA UpGoesOn ==
  ASSUME NEW t \in Trees, NEW f \in DOMAIN t, NEW x \in Up(t, f)
  PROVE  Up(t, x) \subseteq Up(t, f) /\ x \in DOMAIN t
BY UpIs

LEMMA UpFromParent ==
  ASSUME NEW t \in Trees, NEW f \in DOMAIN t
  PROVE  Up(t, f) = {f} \cup Up(t, t[f]) /\ t[f] \in DOMAIN t /\ t[f] \in Up(t, f)
<1>1. t[f] \in DOMAIN t
  BY TreesAssumption
<1>2. t[f] \in Up(t, f)
  BY UpIs DEF Closed
<1>3. Up(t, t[f]) \subseteq Up(t, f)
  BY <1>2, UpGoesOn
<1>4. Closed(t, {f} \cup Up(t, t[f])) /\ {f} \cup Up(t, t[f]) \in SUBSET (DOMAIN t)
  BY <1>1, UpIs DEF Closed
<1>5. Up(t, f) \subseteq {f} \cup Up(t, t[f])
  BY <1>4, UpIs
<1>6. f \in Up(t, f)
  BY UpIs
<1> QED
  BY <1>1, <1>2, <1>3, <1>5, <1>6

LEMMA UpOfRoot ==
  ASSUME NEW t \in Trees
  PROVE  Up(t, Root) = {Root} /\ Root \in DOMAIN t
<1>1. Root \in DOMAIN t /\ Closed(t, {Root})
  BY TreesAssumption DEF Closed
<1>2. Root \in Up(t, Root) /\ Up(t, Root) \subseteq {Root}
  BY <1>1, UpIs
<1> QED
  BY <1>1, <1>2

LEMMA NoCycle ==
  ASSUME NEW t \in Trees, NEW f \in DOMAIN t \ {Root}
  PROVE  f \notin Up(t, t[f]) /\ t[f] # f
<1> DEFINE S == {x \in Up(t, f) : f \in Up(t, x)}
<1>1. f \in S
  BY UpIs
<1>2. SUFFICES ASSUME f \in Up(t, t[f]) PROVE FALSE
  <2>1. t[f] = f => f \in Up(t, t[f])
    BY UpIs
  <2> QED BY <1>2, <2>1
<1>3. ASSUME NEW y \in S PROVE t[y] \in S
  <2>1. y \in DOMAIN t /\ y \in Up(t, f) /\ f \in Up(t, y)
    BY UpIs
  <2>2. t[y] \in Up(t, f)
    BY <2>1, UpIs DEF Closed
  <2>3. CASE y = f
    BY <1>2, <2>2, <2>3
  <2>4. CASE y # f
    <3>1. f \in Up(t, t[y])
      BY <2>1, <2>4, UpFromParent
    <3> QED BY <2>2, <3>1
  <2> QED BY <2>3, <2>4
<1>4. S \in SUBSET (DOMAIN t) /\ S # {}
  BY <1>1, UpIs
<1>5. Root \in S
  <2> HIDE DEF S
  <2> QED BY <1>3, <1>4, TreesAssumption
<1>6. f \in Up(t, Root)
  BY <1>5
<1> QED
  BY <1>6, UpOfRoot

LEMMA UpComparable ==
  ASSUME NEW t \in Trees, NEW g \in DOMAIN t, NEW x \in Up(t, g), NEW y \in Up(t, g)
  PROVE  x \in Up(t, y) \/ y \in Up(t, x)
<1> DEFINE S == {z \in Up(t, g) : x \in Up(t, z) \/ z \in Up(t, x)}
<1>0. Up(t, g) \subseteq DOMAIN t /\ x \in DOMAIN t
  BY UpIs
<1>1. g \in S
  BY UpIs
<1>2. ASSUME NEW z \in S PROVE t[z] \in S
  <2>1. z \in DOMAIN t /\ t[z] \in Up(t, g)
    BY <1>0, UpIs DEF Closed
  <2>2. CASE z \in Up(t, x)
    <3>1. t[z] \in Up(t, x)
      BY <1>0, <2>2, UpIs DEF Closed
    <3> QED BY <2>1, <3>1
  <2>3. CASE x \in Up(t, z)
    <3>1. x = z \/ x \in Up(t, t[z])
      BY <2>1, <2>3, UpFromParent
    <3>2. x = z => t[z] \in Up(t, x)
      BY <2>1, UpFromParent
    <3> QED BY <2>1, <3>1, <3>2
  <2> QED BY <2>2, <2>3
<1>3. Up(t, g) \subseteq S
  <2>1. S \in SUBSET (DOMAIN t) /\ Closed(t, S)
    BY <1>0, <1>2 DEF Closed
  <2> HIDE DEF S
  <2> QED BY <1>1, <2>1, UpIs
<1> QED
  BY <1>3

LEMMA UpOneWay ==
  ASSUME NEW t \in Trees, NEW x \in DOMAIN t, NEW y \in DOMAIN t, x \in Up(t, y), y \in Up(t, x)
  PROVE  x = y
<1> SUFFICES ASSUME x # y PROVE FALSE
  OBVIOUS
<1>1. y # Root
  BY UpOfRoot
<1>2. x \in Up(t, t[y])
  BY UpFromParent
<1>3. t[y] \in DOMAIN t
  BY UpFromParent
<1>4. y \in Up(t, t[y])
  BY <1>2, <1>3, UpGoesOn
<1> QED
  BY <1>1, <1>4, NoCycle

LEMMA HigherIsLess ==
  ASSUME NEW t \in Trees, NEW y \in DOMAIN t, NEW x \in Up(t, y) \ {y}
  PROVE  Cardinality(Up(t, x)) < Cardinality(Up(t, y))
<1>1. x \in DOMAIN t /\ Up(t, x) \subseteq Up(t, y)
  BY UpGoesOn
<1>2. y \notin Up(t, x) /\ y \in Up(t, y)
  BY <1>1, UpOneWay, UpIs
<1>3. IsFiniteSet(Up(t, y)) /\ Up(t, x) \subseteq Up(t, y) \ {y}
  BY <1>1, <1>2, UpIs
<1>4. /\ IsFiniteSet(Up(t, y) \ {y})
      /\ Cardinality(Up(t, y) \ {y}) = Cardinality(Up(t, y)) - 1
  BY <1>2, <1>3, FS_RemoveElement
<1>5. Cardinality(Up(t, x)) <= Cardinality(Up(t, y) \ {y}) /\ IsFiniteSet(Up(t, x))
  BY <1>3, <1>4, FS_Subset
<1>6. Cardinality(Up(t, x)) \in Nat /\ Cardinality(Up(t, y)) \in Nat
  BY <1>3, <1>5, FS_CardinalityType
<1> QED
  BY <1>4, <1>5, <1>6

-----------------------------------------------------------------------------
(* AncestorsOrSelf climbs far enough.                                        *)

Climbs(t, f, u) == u[0] = f /\ \A n \in Nat : u[n + 1] = t[u[n]]

LEMMA ClimbReaches ==
  ASSUME NEW t \in Trees, NEW f \in DOMAIN t, NEW u, Climbs(t, f, u)
  PROVE  Up(t, f) = {u[n] : n \in 0..Cardinality(DOMAIN t)}
<1> DEFINE A(n) == {u[k] : k \in 0..n}
           W == Up(t, f)
           T == {n \in Nat : A(n) \subseteq W /\ IsFiniteSet(A(n)) /\ (A(n) = W \/ Cardinality(A(n)) = n + 1)}
<1>0. u[0] = f /\ (\A n \in Nat : u[n + 1] = t[u[n]]) /\ f \in W /\ Closed(t, W) /\ W \subseteq DOMAIN t
  BY UpIs DEF Climbs
<1>1. 0 \in T
  <2>1. A(0) = {f}
    BY <1>0
  <2>2. IsFiniteSet({f}) /\ Cardinality({f}) = 1
    BY FS_Singleton
  <2> QED BY <1>0, <2>1, <2>2
<1>2. ASSUME NEW n \in T PROVE n + 1 \in T
  <2>0. n \in Nat /\ A(n) \subseteq W /\ IsFiniteSet(A(n)) /\ (A(n) = W \/ Cardinality(A(n)) = n + 1)
    BY <1>2
  <2>1. A(n + 1) = A(n) \cup {u[n + 1]}
    BY <2>0
  <2>2. u[n] \in A(n) /\ u[n + 1] = t[u[n]]
    BY <1>0, <2>0
  <2>3. u[n + 1] \in W
    BY <1>0, <2>0, <2>2 DEF Closed
  <2>4. A(n + 1) \subseteq W /\ IsFiniteSet(A(n + 1))
    <3> HIDE DEF A, W
    <3> QED BY <2>0, <2>1, <2>3, FS_AddElement
  <2>5. CASE u[n + 1] \notin A(n)
    <3>1. A(n) # W
      BY <2>3, <2>5
    <3>2. Cardinality(A(n + 1)) = Cardinality(A(n)) + 1
      <4> HIDE DEF A, W
      <4> QED BY <2>0, <2>1, <2>5, FS_AddElement
    <3>3. Cardinality(A(n + 1)) = (n + 1) + 1
      <4> HIDE DEF A, W
      <4> QED BY <2>0, <3>1, <3>2
    <3> HIDE DEF A, W
    <3> QED BY <2>0, <2>4, <3>3
  <2>6. CASE u[n + 1] \in A(n)
    <3>1. A(n + 1) = A(n)
      BY <2>1, <2>6
    <3>2. Closed(t, A(n))
      <4>1. ASSUME NEW k \in 0..n PROVE t[u[k]] \in A(n)
        <5>1. CASE k = n
          BY <2>2, <2>6, <5>1
        <5>2. CASE k # n
          <6>1. k + 1 \in 0..n /\ k \in Nat
            BY <2>0, <5>2
          <6> QED BY <1>0, <6>1
        <5> QED BY <5>1, <5>2
      <4> QED BY <4>1 DEF Closed
    <3>3. f \in A(n)
      BY <1>0, <2>0
    <3>4. W \subseteq A(n)
      <4>1. A(n) \in SUBSET (DOMAIN t)
        BY <1>0, <2>0
      <4> HIDE DEF A
      <4> QED BY <3>2, <3>3, <4>1, UpIs
    <3>5. A(n + 1) = W
      BY <2>0, <3>1, <3>4
    <3> HIDE DEF A, W
    <3> QED BY <2>0, <2>4, <3>5
  <2> QED BY <2>5, <2>6
<1>3. T = Nat
  <2>1. T \subseteq Nat
    OBVIOUS
  <2> HIDE DEF T
  <2> QED BY <1>1, <1>2, <2>1, NatClosed
<1>4. IsFiniteSet(DOMAIN t) /\ Cardinality(DOMAIN t) \in Nat
  BY TreesAssumption, FS_CardinalityType
<1>5. PICK m : m = Cardinality(DOMAIN t)
  OBVIOUS
<1>6. m \in Nat /\ A(m) \subseteq W /\ IsFiniteSet(A(m)) /\ (A(m) = W \/ Cardinality(A(m)) = m + 1)
  BY <1>3, <1>4, <1>5
<1>7. Cardinality(A(m)) <= m
  <2> HIDE DEF A, W
  <2> QED BY <1>0, <1>4, <1>5, <1>6, FS_Subset
<1>8. A(m) = W
  <2> HIDE DEF A, W
  <2> QED BY <1>6, <1>7
<1> QED
  BY <1>5, <1>8

ClimbUpTo(t, f, u, n) == \A k \in 0..n : u[k] = IF k = 0 THEN f ELSE t[u[k - 1]]

LEMMA ClimbUnique ==
  ASSUME NEW t, NEW f, NEW n \in Nat, NEW u, NEW v, ClimbUpTo(t, f, u, n), ClimbUpTo(t, f, v, n)
  PROVE  \A k \in 0..n : u[k] = v[k]
<1> DEFINE T == {k \in Nat : k \in 0..n => u[k] = v[k]}
<1>1. 0 \in T
  BY DEF ClimbUpTo
<1>2. ASSUME NEW k \in T PROVE k + 1 \in T
  BY <1>2 DEF ClimbUpTo
<1>3. T \subseteq Nat
  OBVIOUS
<1>4. T = Nat
  BY <1>1, <1>2, <1>3, NatClosed, Zenon
<1> QED
  BY <1>4

IsClimb(t, f, u) == u = [n \in Nat |-> IF n = 0 THEN f ELSE t[u[n - 1]]]

LEMMA ClimbExists ==
  ASSUME NEW t, NEW f
  PROVE  \E u : IsClimb(t, f, u)
<1> DEFINE T == {n \in Nat : \E u : ClimbUpTo(t, f, u, n)}
<1>1. 0 \in T
  <2>1. ClimbUpTo(t, f, [k \in 0..0 |-> f], 0)
    BY DEF ClimbUpTo
  <2> QED BY <2>1
<1>2. ASSUME NEW n \in T PROVE n + 1 \in T
  <2>1. PICK u : ClimbUpTo(t, f, u, n)
    BY <1>2
  <2> DEFINE v == [k \in 0..n + 1 |-> IF k = n + 1 THEN t[u[n]] ELSE u[k]]
  <2>2. (\A k \in 0..n : v[k] = u[k]) /\ v[n + 1] = t[u[n]]
    BY <1>2
  <2> HIDE DEF v
  <2>3. ClimbUpTo(t, f, v, n + 1)
    BY <1>2, <2>1, <2>2 DEF ClimbUpTo
  <2> QED BY <1>2, <2>3
<1>3. T = Nat
  BY <1>1, <1>2, NatClosed
<1> DEFINE part(n) == CHOOSE u : ClimbUpTo(t, f, u, n)
           F == [n \in Nat |-> part(n)[n]]
<1>4. \A n \in Nat : ClimbUpTo(t, f, part(n), n)
  BY <1>3
<1>5. \A n \in Nat : ClimbUpTo(t, f, part(n + 1), n)
  BY <1>4 DEF ClimbUpTo
<1>6. \A n \in Nat : part(n + 1)[n] = part(n)[n]
  <2> SUFFICES ASSUME NEW n \in Nat PROVE part(n + 1)[n] = part(n)[n]
    OBVIOUS
  <2> HIDE DEF part
  <2> QED BY <1>4, <1>5, ClimbUnique
<1>7. \A n \in Nat : F[n + 1] = t[F[n]]
  <2> HIDE DEF part
  <2> QED BY <1>4, <1>6 DEF ClimbUpTo
<1>8. F[0] = f
  <2> HIDE DEF part
  <2> QED BY <1>4 DEF ClimbUpTo
<1>9. ASSUME NEW n \in Nat PROVE F[n] = IF n = 0 THEN f ELSE t[F[n - 1]]
  <2> HIDE DEF F
  <2>1. CASE n = 0
    BY <1>8, <2>1
  <2>2. CASE n # 0
    <3>1. n - 1 \in Nat /\ (n - 1) + 1 = n
      BY <2>2
    <3> QED BY <1>7, <2>2, <3>1
  <2> QED BY <2>1, <2>2
<1>10. F = [n \in Nat |-> IF n = 0 THEN f ELSE t[F[n - 1]]]
  <2> DEFINE G == [n \in Nat |-> IF n = 0 THEN f ELSE t[F[n - 1]]]
  <2> HIDE DEF F
  <2>1. \A n \in Nat : F[n] = G[n]
    BY <1>9
  <2> USE DEF F
  <2> HIDE DEF part
  <2>2. F = G
    BY <2>1
  <2> QED BY <2>2
<1> QED
  BY <1>10 DEF IsClimb

LEMMA AncestorsAreUp ==
  parent \in Trees => \A f \in AllFolders : AncestorsOrSelf(f) = Up(parent, f)
<1> SUFFICES ASSUME parent \in Trees, NEW f \in AllFolders PROVE AncestorsOrSelf(f) = Up(parent, f)
  OBVIOUS
<1> DEFINE up == CHOOSE u : u = [n \in Nat |-> IF n = 0 THEN f ELSE parent[u[n - 1]]]
<1>1. PICK t : t = parent
  OBVIOUS
<1>2. IsClimb(t, f, CHOOSE u : IsClimb(t, f, u))
  BY ClimbExists
<1>3. AncestorsOrSelf(f) = {up[n] : n \in 0..Cardinality(DOMAIN parent)}
  BY DEF AncestorsOrSelf, AllFolders
<1>4. up = [n \in Nat |-> IF n = 0 THEN f ELSE parent[up[n - 1]]]
  BY <1>1, <1>2 DEF IsClimb
<1> HIDE DEF up
<1>5. Climbs(parent, f, up)
  BY <1>4 DEF Climbs
<1>6. f \in DOMAIN parent
  BY DEF AllFolders
<1>7. Up(t, f) = {up[n] : n \in 0..Cardinality(DOMAIN t)}
  BY <1>1, <1>5, <1>6, ClimbReaches
<1> QED
  BY <1>1, <1>3, <1>7

-----------------------------------------------------------------------------
(* Members of a finite set by a key.                                         *)

Sorted(l, key) == \A i, j \in DOMAIN l : i <= j => key[l[i]] >= key[l[j]]

LEMMA SomeListing ==
  ASSUME NEW S, IsFiniteSet(S), NEW key, \A x \in S : key[x] \in Int
  PROVE  \E l \in [1..Cardinality(S) -> S] : IsInjective(l) /\ Sorted(l, key)
<1> DEFINE P == {s \in SUBSET S : \E l \in [1..Cardinality(s) -> s] : IsInjective(l) /\ Sorted(l, key)}
<1>0. \A s \in SUBSET S : IsFiniteSet(s) /\ Cardinality(s) \in Nat
  BY FS_Subset, FS_CardinalityType
<1>1. ASSUME NEW s \in SUBSET S, \A x \in s : s \ {x} \in P PROVE s \in P
  <2>1. CASE s = {}
    <3> DEFINE l == [i \in 1..0 |-> 0]
    <3>1. Cardinality(s) = 0
      BY <2>1, FS_EmptySet
    <3>2. l \in [1..0 -> s] /\ DOMAIN l = {}
      OBVIOUS
    <3> HIDE DEF l
    <3>3. IsInjective(l) /\ Sorted(l, key)
      BY <3>2 DEF IsInjective, Sorted
    <3> QED BY <3>1, <3>2, <3>3
  <2>2. CASE s # {}
    <3>1. PICK x \in s : \A y \in s : key[x] <= key[y]
      BY <1>0, <2>2, LeastByKey
    <3>2. Cardinality(s \ {x}) = Cardinality(s) - 1
      BY <1>0, FS_RemoveElement
    <3>3. PICK l \in [1..Cardinality(s \ {x}) -> s \ {x}] : IsInjective(l) /\ Sorted(l, key)
      BY <1>1
    <3>4. PICK n : n = Cardinality(s)
      OBVIOUS
    <3> DEFINE m == [i \in 1..n |-> IF i = n THEN x ELSE l[i]]
    <3>5. n \in Nat /\ l \in [1..(n - 1) -> s \ {x}]
      BY <1>0, <3>2, <3>3, <3>4
    <3>51. \A i \in 1..n : i # n => i \in 1..(n - 1)
      BY <3>5
    <3>52. \A i \in 1..n : i # n => m[i] = l[i] /\ l[i] \in s \ {x}
      BY <3>5, <3>51
    <3>53. \A i \in 1..n : i = n => m[i] = x
      OBVIOUS
    <3>6. m \in [1..n -> s]
      <4>1. \A i \in 1..n : m[i] \in s
        BY <3>52, <3>53
      <4> QED BY <4>1
    <3>7. IsInjective(m)
      <4>1. ASSUME NEW i \in 1..n, NEW j \in 1..n, i # n, j # n, m[i] = m[j] PROVE i = j
        <5>1. l[i] = l[j] /\ i \in DOMAIN l /\ j \in DOMAIN l
          BY <3>5, <3>51, <3>52, <4>1
        <5> QED BY <3>3, <5>1 DEF IsInjective
      <4>2. ASSUME NEW i \in 1..n, i # n PROVE m[i] # x /\ m[n] = x
        <5>1. n \in 1..n
          BY <3>5
        <5> QED BY <3>52, <3>53, <4>2, <5>1
      <4>3. n \in Nat
        BY <3>5
      <4> HIDE DEF m
      <4>4. ASSUME NEW i \in 1..n, NEW j \in 1..n, m[i] = m[j] PROVE i = j
        BY <4>1, <4>2, <4>4
      <4> QED BY <3>6, <4>4 DEF IsInjective
    <3>8. Sorted(m, key)
      <4>1. ASSUME NEW i \in 1..n, NEW j \in 1..n, i <= j PROVE key[m[i]] >= key[m[j]]
        <5>1. CASE j = n
          <6>1. m[i] \in s /\ m[j] = x
            BY <3>6, <5>1
          <6> HIDE DEF m
          <6>2. key[x] <= key[m[i]] /\ key[x] \in Int /\ key[m[i]] \in Int
            BY <3>1, <6>1
          <6> QED BY <6>1, <6>2
        <5>2. CASE j # n
          <6>1. i # n /\ m[i] = l[i] /\ m[j] = l[j] /\ i \in 1..(n - 1) /\ j \in 1..(n - 1)
            BY <3>5, <4>1, <5>2
          <6>2. key[l[i]] >= key[l[j]]
            BY <3>3, <3>5, <4>1, <6>1 DEF Sorted
          <6> QED BY <6>1, <6>2
        <5> QED BY <5>1, <5>2
      <4> HIDE DEF m
      <4> QED BY <3>6, <4>1 DEF Sorted
    <3> HIDE DEF m
    <3> QED BY <3>4, <3>6, <3>7, <3>8
  <2> QED BY <2>1, <2>2
<1> HIDE DEF P
<1>2. \A s \in SUBSET S : s \in P
  BY <1>1, SetDescent
<1>3. S \in P
  BY <1>2
<1> QED
  BY <1>3 DEF P

LEMMA ListedDescending ==
  ASSUME NEW S, IsFiniteSet(S), NEW key, \A x \in S : key[x] \in Int
  PROVE  /\ Descending(S, key) \in [1..Cardinality(S) -> S] /\ Cardinality(S) \in Nat
         /\ IsInjective(Descending(S, key)) /\ Sorted(Descending(S, key), key)
         /\ \A x \in S : \E i \in 1..Cardinality(S) : Descending(S, key)[i] = x
<1>1. PICK l : l = Descending(S, key)
  OBVIOUS
<1>2. l \in [1..Cardinality(S) -> S] /\ IsInjective(l) /\ Sorted(l, key)
  BY <1>1, SomeListing DEF Descending, Sorted
<1>3. PICK n : n = Cardinality(S)
  OBVIOUS
<1>4. n \in Nat /\ IsFiniteSet(1..n) /\ Cardinality(1..n) = n
  BY <1>3, FS_CardinalityType, FS_Interval
<1>5. l \in Injection(1..n, S)
  BY <1>2, <1>3 DEF Injection
<1>6. l \in Surjection(1..n, S)
  BY <1>3, <1>4, <1>5, FS_Injection
<1> QED
  BY <1>1, <1>2, <1>3, <1>4, <1>6 DEF Surjection

-----------------------------------------------------------------------------
(* accumulate_subtrees adds up subtrees.                                     *)

Lift(t, f, d) == IF f # Root /\ t[f] \in DOMAIN d THEN [d EXCEPT ![t[f]] = @ + d[f]] ELSE d

\* AllFolders with all there is above them.
Region(t, D) == D \in SUBSET (DOMAIN t) /\ Closed(t, D)
Apart(P, S)  == P \cap S = {}

\* The folders of D that hand something to f when those of P have been lifted.
Part(t, D, f, P) == {g \in D : f \in Up(t, g) /\ Up(t, g) \ Up(t, f) \subseteq P}

LEMMA LiftTypes ==
  ASSUME NEW t, NEW d, NEW D, d \in [D -> Int], NEW f \in D
  PROVE  Lift(t, f, d) \in [D -> Int]
<1>1. CASE f # Root /\ t[f] \in D
  <2>1. d[t[f]] + d[f] \in Int
    BY <1>1
  <2> QED BY <1>1, <2>1 DEF Lift
<1>2. CASE ~(f # Root /\ t[f] \in D)
  BY <1>2 DEF Lift
<1> QED
  BY <1>1, <1>2

\* Folder x hands its part on to its parent, and changes no other.
HandsOn(t, D, x, P) ==
  /\ Part(t, D, t[x], P \cup {x}) = Part(t, D, t[x], P) \cup Part(t, D, x, P)
  /\ Part(t, D, t[x], P) \cap Part(t, D, x, P) = {}
  /\ \A f \in D : f # t[x] => Part(t, D, f, P \cup {x}) = Part(t, D, f, P)

LEMMA PartNext ==
  ASSUME NEW t \in Trees, NEW D, Region(t, D), NEW P, NEW x \in D, x # Root,
         Apart(P, Up(t, x))
  PROVE  HandsOn(t, D, x, P)
<1> USE DEF Region
<1>0. /\ t[x] \in D /\ t[x] # x /\ t[x] \in Up(t, x) /\ x \in Up(t, x) /\ x \notin Up(t, t[x])
      /\ Up(t, x) = {x} \cup Up(t, t[x]) /\ x \notin P /\ x \in DOMAIN t
  BY UpIs, UpFromParent, NoCycle DEF Closed, Region, Apart
<1>1. ASSUME NEW f \in D, NEW g \in Part(t, D, f, P \cup {x}), g \notin Part(t, D, f, P)
      PROVE  f = t[x] /\ g \in Part(t, D, x, P)
  <2>1. g \in DOMAIN t /\ f \in DOMAIN t /\ f \in Up(t, g) /\ Up(t, g) \ Up(t, f) \subseteq P \cup {x}
    BY <1>1 DEF Part
  <2>2. x \in Up(t, g) /\ x \notin Up(t, f)
    BY <1>1, <2>1 DEF Part
  <2>3. t[x] \in Up(t, g)
    BY <1>0, <2>1, <2>2, UpGoesOn
  <2>4. t[x] \in Up(t, f)
    BY <1>0, <2>1, <2>3 DEF Apart
  <2>5. f \in Up(t, x)
    BY <2>1, <2>2, UpComparable
  <2>6. f \in Up(t, t[x])
    BY <1>0, <2>1, <2>2, <2>5, UpIs
  <2>7. f = t[x]
    BY <1>0, <2>1, <2>4, <2>6, UpOneWay
  <2>8. Up(t, g) \ Up(t, x) \subseteq P
    BY <1>0, <2>1, <2>7
  <2> QED BY <1>1, <2>2, <2>7, <2>8 DEF Part
<1>2. \A f : Part(t, D, f, P) \subseteq Part(t, D, f, P \cup {x})
  BY DEF Part
<1>3. ASSUME NEW g \in Part(t, D, x, P)
      PROVE  g \in Part(t, D, t[x], P \cup {x}) /\ g \notin Part(t, D, t[x], P)
  <2>1. g \in DOMAIN t /\ g \in D /\ x \in Up(t, g) /\ Up(t, g) \ Up(t, x) \subseteq P
    BY DEF Part
  <2>2. t[x] \in Up(t, g)
    BY <1>0, <2>1, UpGoesOn
  <2>3. Up(t, g) \ Up(t, t[x]) \subseteq P \cup {x}
    BY <1>0, <2>1
  <2> QED BY <1>0, <2>1, <2>2, <2>3 DEF Part
<1> QED
  BY <1>0, <1>1, <1>2, <1>3 DEF HandsOn

LEMMA PartAtFirst ==
  ASSUME NEW t \in Trees, NEW D, Region(t, D), NEW f \in D
  PROVE  Part(t, D, f, {}) = {f}
<1> USE DEF Region
<1>1. f \in Part(t, D, f, {})
  BY UpIs DEF Part
<1>2. ASSUME NEW g \in Part(t, D, f, {}) PROVE g = f
  <2>1. g \in DOMAIN t /\ f \in Up(t, g) /\ g \in Up(t, f)
    BY UpIs DEF Part
  <2> QED BY <2>1, UpOneWay
<1> QED
  BY <1>1, <1>2

LEMMA UpStaysIn ==
  ASSUME NEW t \in Trees, NEW D, Region(t, D), NEW g \in D
  PROVE  Up(t, g) \subseteq D
BY UpIs DEF Region

LEMMA PartAtLast ==
  ASSUME NEW t \in Trees, NEW D, Region(t, D), NEW f \in D
  PROVE  Part(t, D, f, D) = Below(t, D, f)
<1>1. \A g \in D : Up(t, g) \subseteq D
  BY UpStaysIn
<1> QED
  BY <1>1 DEF Part, Below, Region

\* F lifts the folders of s from the last of a set of places to the first of them.
Lifts(F, t, d, s) ==
  \A q \in SUBSET (DOMAIN s) :
    /\ F[q] \in [DOMAIN d -> Int]
    /\ F[q] = IF q = {} THEN d ELSE Lift(t, s[Max(q)], F[q \ {Max(q)}])

LEMMA GreatestPlace ==
  ASSUME NEW n \in Nat, NEW q \in SUBSET (1..n), q # {}
  PROVE  Max(q) \in q /\ \A i \in q : i <= Max(q)
<1> DEFINE key == [i \in q |-> 0 - i]
<1>1. IsFiniteSet(q) /\ \A i \in q : key[i] \in Int /\ key[i] = 0 - i /\ i \in Nat
  <2>1. IsFiniteSet(1..n)
    BY FS_Interval
  <2>2. IsFiniteSet(q)
    BY <2>1, FS_Subset
  <2> QED BY <2>2
<1> HIDE DEF key
<1>2. PICK x \in q : \A y \in q : key[x] <= key[y]
  BY <1>1, LeastByKey
<1>3. \A y \in q : x >= y
  BY <1>1, <1>2
<1>4. Max(q) \in q /\ \A y \in q : Max(q) >= y
  BY <1>3 DEF Max
<1> QED
  BY <1>1, <1>4

LEMMA SubtreesLift ==
  ASSUME NEW D, NEW d \in [D -> Int], NEW n \in Nat, NEW s \in [1..n -> D], s = DeepestFirst(DOMAIN d)
  PROVE  \E F : Lifts(F, parent, d, s) /\ AccumulateSubtrees(d) = F[1..n]
<1> DEFINE N == DOMAIN s
           V == [D -> Int]
           pick == [q \in SUBSET N |-> Max(q)]
           R == [p \in N \X V |-> Lift(parent, s[p[1]], p[2])]
           Is(F) == F = [q \in SUBSET N |-> IF q = {} THEN d ELSE Lift(parent, s[Max(q)], F[q \ {Max(q)}])]
           fold == CHOOSE F : Is(F)
<1>0. N = 1..n /\ DOMAIN d = D
  OBVIOUS
<1>1. IsFiniteSet(N)
  BY FS_Interval
<1>2. \A q \in SUBSET N : q # {} => pick[q] \in q
  BY <1>0, GreatestPlace
<1>4. \A x \in N, v \in V : R[<<x, v>>] \in V
  BY LiftTypes
<1>5. PICK F \in [SUBSET N -> V] : FoldsTo(F, N, d, pick, R)
  <2>1. Picks(pick, N) /\ Keeps(R, N, V)
    <3> HIDE DEF N, V, pick, R
    <3> QED BY <1>2, <1>4 DEF Picks, Keeps
  <2>2. d \in V
    OBVIOUS
  <2> HIDE DEF N, V, pick, R
  <2> QED BY <1>1, <2>1, <2>2, FoldExists
<1>6. \A q \in SUBSET N : F[q] \in V
  BY <1>5
<1>7. ASSUME NEW q \in SUBSET N, q # {}
      PROVE  R[<<pick[q], F[q \ {pick[q]}]>>] = Lift(parent, s[Max(q)], F[q \ {Max(q)}])
  <2>1. pick[q] \in N /\ q \ {pick[q]} \in SUBSET N /\ pick[q] = Max(q)
    BY <1>2, <1>7
  <2>2. F[q \ {pick[q]}] \in V
    BY <1>6, <2>1
  <2> HIDE DEF pick, V
  <2> QED BY <2>1, <2>2
<1>8. Is(F)
  <2> DEFINE G == [q \in SUBSET N |-> IF q = {} THEN d ELSE Lift(parent, s[Max(q)], F[q \ {Max(q)}])]
  <2>1. \A q \in SUBSET N : F[q] = G[q]
    <3> HIDE DEF R, pick, V
    <3> QED BY <1>5, <1>7 DEF FoldsTo
  <2>2. DOMAIN F = SUBSET N /\ F = [q \in SUBSET N |-> F[q]]
    <3> HIDE DEF N, V
    <3> QED BY <1>5
  <2>3. F = G
    <3> HIDE DEF R, pick, V, N
    <3> QED BY <2>1, <2>2
  <2> QED BY <2>3
<1>9. Is(fold)
  BY <1>8
<1>10. AccumulateSubtrees(d) = fold[DOMAIN s]
  BY DEF AccumulateSubtrees, FoldLeft, MapThenFoldSet, Lift
<1>11. \A q \in SUBSET N : fold[q] = IF q = {} THEN d ELSE Lift(parent, s[Max(q)], fold[q \ {Max(q)}])
  BY <1>9
<1> HIDE DEF fold, Is, pick, R
<1>12. ASSUME NEW q \in SUBSET N, \A x \in q : q \ {x} \in {p \in SUBSET N : fold[p] \in V}
       PROVE  fold[q] \in V
  <2>1. CASE q = {}
    BY <1>11, <2>1
  <2>2. CASE q # {}
    <3>1. Max(q) \in q /\ s[Max(q)] \in D
      BY <1>0, <2>2, GreatestPlace
    <3>2. fold[q \ {Max(q)}] \in V
      BY <1>12, <3>1
    <3>3. fold[q] = Lift(parent, s[Max(q)], fold[q \ {Max(q)}])
      BY <1>11, <2>2
    <3>4. PICK e, f, t : e = fold[q \ {Max(q)}] /\ f = s[Max(q)] /\ t = parent
      OBVIOUS
    <3>5. e \in [D -> Int] /\ f \in D /\ fold[q] = Lift(t, f, e)
      BY <3>1, <3>2, <3>3, <3>4
    <3>6. Lift(t, f, e) \in [D -> Int]
      BY <3>5, LiftTypes
    <3> QED BY <3>5, <3>6
  <2> QED BY <2>1, <2>2
<1> DEFINE P == {q \in SUBSET N : fold[q] \in V}
<1>13. \A q \in SUBSET N : (\A x \in q : q \ {x} \in P) => q \in P
  BY <1>12
<1> HIDE DEF P
<1>14. \A q \in SUBSET N : q \in P
  <2> HIDE DEF N
  <2> QED BY <1>1, <1>13, SetDescent
<1>15. \A q \in SUBSET N : fold[q] \in V
  BY <1>14 DEF P
<1>16. Lifts(fold, parent, d, s)
  BY <1>0, <1>11, <1>15 DEF Lifts
<1> QED
  BY <1>0, <1>10, <1>16

Among(s, n) == {s[i] : i \in 1..n}

DeepFirst(t, s, n) ==
  \A i, j \in 1..n : i <= j => Cardinality(Up(t, s[i])) >= Cardinality(Up(t, s[j]))

Gathered(F, t, D, d, s, n) == \A f \in D : F[1..n][f] = SumOf(d, Part(t, D, f, Among(s, n)))

\* When the first n of the deepest folders have been lifted, each has what lies in it and in those
\* below it that were.
LEMMA Collected ==
  ASSUME NEW t \in Trees, NEW D, Region(t, D), NEW d \in [D -> Int],
         NEW N \in Nat, NEW s \in [1..N -> D], IsInjective(s),
         DeepFirst(t, s, N),
         NEW F, Lifts(F, t, d, s), NEW n \in 0..N
  PROVE  Gathered(F, t, D, d, s, n)
<1> USE DEF Among
<1> DEFINE P(u) == Among(s, u)
           Q(u) == \A f \in D : F[1..u][f] = SumOf(d, Part(t, D, f, P(u)))
           T == {m \in Nat : m <= N => Q(m)}
<1>0. DOMAIN s = 1..N /\ DOMAIN d = D
  OBVIOUS
<1>1. 0 \in T
  <2>1. 1..0 = {} /\ P(0) = {}
    OBVIOUS
  <2>2. ASSUME NEW f \in D PROVE d[f] = SumOf(d, Part(t, D, f, {}))
    <3>1. Part(t, D, f, {}) = {f} /\ d[f] \in Int
      BY PartAtFirst
    <3> QED BY <3>1, SumOfOne
  <2>3. F[{}] = d
    <3>1. {} \in SUBSET (DOMAIN s)
      OBVIOUS
    <3> QED BY <3>1 DEF Lifts
  <2> QED BY <2>1, <2>2, <2>3
<1>2. ASSUME NEW m \in T PROVE m + 1 \in T
  <2> HIDE DEF Q
  <2> SUFFICES ASSUME m + 1 <= N PROVE Q(m + 1)
    BY <1>2
  <2>00. m \in Nat /\ m <= N
    BY <1>2
  <2>01. Q(m)
    BY <1>2, <2>00
  <2> USE DEF Q
  <2>1. /\ m + 1 \in 1..N /\ 1..(m + 1) = (1..m) \cup {m + 1} /\ 1..m = (1..(m + 1)) \ {m + 1}
        /\ 1..(m + 1) \in SUBSET (DOMAIN s) /\ 1..m \in SUBSET (DOMAIN s)
        /\ \A i \in 1..(m + 1) : i <= m + 1
    BY <1>0, <2>00
  <2> DEFINE x == s[m + 1]
  <2>2. P(m + 1) = P(m) \cup {x}
    BY <2>1
  <2>3. Max(1..(m + 1)) = m + 1
    <3>1. 1..(m + 1) # {} /\ m + 1 \in 1..(m + 1) /\ m + 1 \in Nat
      <4>1. m + 1 \in Nat /\ m + 1 \in 1..(m + 1)
        BY <2>00
      <4>2. 1..(m + 1) # {}
        BY <4>1, Zenon
      <4> QED BY <4>1, <4>2
    <3>2. Max(1..(m + 1)) \in 1..(m + 1) /\ m + 1 <= Max(1..(m + 1)) /\ Max(1..(m + 1)) <= m + 1
      BY <1>0, <2>1, <3>1, GreatestPlace
    <3> QED BY <2>00, <3>2
  <2>4. F[1..(m + 1)] = Lift(t, x, F[1..m])
    <3>1. 1..(m + 1) # {}
      BY <2>1
    <3>2. F[1..(m + 1)] = Lift(t, s[Max(1..(m + 1))], F[(1..(m + 1)) \ {Max(1..(m + 1))}])
      BY <2>1, <3>1 DEF Lifts
    <3> QED BY <2>1, <2>3, <3>2
  <2>5. x \in D /\ P(m) \cap Up(t, x) = {}
    <3>1. ASSUME NEW i \in 1..m PROVE s[i] \notin Up(t, x)
      <4>1. i \in 1..N /\ i # m + 1 /\ i <= m + 1
        BY <2>00, <2>1
      <4>2. s[i] # x
        BY <1>0, <2>1, <4>1 DEF IsInjective
      <4>3. Cardinality(Up(t, s[i])) >= Cardinality(Up(t, x))
        BY <2>1, <4>1 DEF DeepFirst
      <4>4. x \in DOMAIN t /\ s[i] \in DOMAIN t
        BY <2>1, <4>1 DEF Region
      <4>5. Cardinality(Up(t, s[i])) \in Nat /\ Cardinality(Up(t, x)) \in Nat
        BY <4>4, UpIs, FS_CardinalityType
      <4>6. s[i] \in Up(t, x) => Cardinality(Up(t, s[i])) < Cardinality(Up(t, x))
        BY <4>2, <4>4, HigherIsLess
      <4> HIDE DEF x
      <4> QED BY <4>3, <4>5, <4>6
    <3>2. x \in D
      BY <2>1
    <3> HIDE DEF x
    <3> QED BY <3>1, <3>2
  <2>7. F[1..m] \in [D -> Int]
    BY <1>0, <2>1 DEF Lifts
  <2>8. PICK e, p, y : e = F[1..m] /\ p = P(m) /\ y = x
    OBVIOUS
  <2> HIDE DEF x, P
  <2>11. /\ e \in [D -> Int] /\ \A f \in D : e[f] = SumOf(d, Part(t, D, f, p))
         /\ y \in D /\ p \cap Up(t, y) = {}
    BY <2>01, <2>5, <2>7, <2>8
  <2>12. \A f \in D : Lift(t, y, e)[f] = SumOf(d, Part(t, D, f, p \cup {y}))
    <3>1. CASE y = Root
      <4>1. Lift(t, y, e) = e
        BY <3>1 DEF Lift
      <4>2. ASSUME NEW f \in D PROVE Part(t, D, f, p \cup {y}) = Part(t, D, f, p)
        <5>1. y \in Up(t, f)
          BY <3>1, UpIs DEF Region
        <5> QED BY <5>1 DEF Part
      <4> QED BY <2>11, <4>1, <4>2
    <3>2. CASE y # Root
      <4>1. /\ Part(t, D, t[y], p \cup {y}) = Part(t, D, t[y], p) \cup Part(t, D, y, p)
            /\ Part(t, D, t[y], p) \cap Part(t, D, y, p) = {}
            /\ \A f \in D : f # t[y] => Part(t, D, f, p \cup {y}) = Part(t, D, f, p)
        <5>1. y \in D /\ y # Root /\ Apart(p, Up(t, y))
          BY <2>11, <3>2 DEF Apart
        <5>2. HandsOn(t, D, y, p)
          BY <5>1, PartNext
        <5> QED BY <5>2 DEF HandsOn
      <4>2. t[y] \in D /\ t[y] # y
        BY <2>11, <3>2, NoCycle DEF Closed, Region
      <4>3. Lift(t, y, e) = [e EXCEPT ![t[y]] = e[t[y]] + e[y]]
        BY <2>11, <3>2, <4>2 DEF Lift
      <4>5. Lift(t, y, e)[t[y]] = e[t[y]] + e[y]
        BY <2>11, <4>2, <4>3
      <4>6. \A f \in D : f # t[y] => Lift(t, y, e)[f] = e[f]
        BY <2>11, <4>3
      <4>7. SumOf(d, Part(t, D, t[y], p) \cup Part(t, D, y, p))
              = SumOf(d, Part(t, D, t[y], p)) + SumOf(d, Part(t, D, y, p))
        <5>0. IsFiniteSet(D)
          BY TreesAssumption, FS_Subset DEF Region
        <5>1. IsFiniteSet(Part(t, D, t[y], p)) /\ IsFiniteSet(Part(t, D, y, p))
          BY <5>0, FS_Subset DEF Part
        <5>2. \A g \in Part(t, D, t[y], p) \cup Part(t, D, y, p) : d[g] \in Int
          BY DEF Part
        <5>3. PICK X, Y : X = Part(t, D, t[y], p) /\ Y = Part(t, D, y, p)
          OBVIOUS
        <5>4. IsFiniteSet(X) /\ IsFiniteSet(Y) /\ X \cap Y = {} /\ \A g \in X \cup Y : d[g] \in Int
          BY <4>1, <5>1, <5>2, <5>3
        <5>5. SumOf(d, X \cup Y) = SumOf(d, X) + SumOf(d, Y)
          BY <5>4, SumOverDisjoint
        <5> QED BY <5>3, <5>5
      <4>8. Lift(t, y, e)[t[y]] = SumOf(d, Part(t, D, t[y], p \cup {y}))
        BY <2>11, <4>1, <4>2, <4>5, <4>7
      <4>9. \A f \in D : f # t[y] => Lift(t, y, e)[f] = SumOf(d, Part(t, D, f, p \cup {y}))
        BY <2>11, <4>1, <4>6
      <4> QED BY <4>8, <4>9
    <3> QED BY <3>1, <3>2
  <2> QED BY <2>2, <2>4, <2>8, <2>12
<1>3. T = Nat
  <2>1. T \subseteq Nat
    OBVIOUS
  <2> HIDE DEF T
  <2> QED BY <1>1, <1>2, <2>1, NatClosed
<1>4. n \in Nat /\ n <= N
  OBVIOUS
<1>5. Q(n)
  <2> HIDE DEF Q
  <2> QED BY <1>3, <1>4
<1> QED
  BY <1>5 DEF Gathered

\* The total of a folder is what lies in it and below it.
LEMMA SubtreesAreSums ==
  ASSUME parent \in Trees, NEW D, Region(parent, D), NEW d \in [D -> Int]
  PROVE  /\ AccumulateSubtrees(d) \in [D -> Int]
         /\ \A f \in D : AccumulateSubtrees(d)[f] = SumOf(d, Below(parent, D, f))
<1>1. PICK t : t = parent
  OBVIOUS
<1>2. t \in Trees /\ Region(t, D) /\ IsFiniteSet(D)
  BY <1>1, TreesAssumption, FS_Subset DEF Region
<1>3. \A f \in D : AncestorsOrSelf(f) = Up(t, f)
  BY <1>1, <1>2, AncestorsAreUp DEF AllFolders, Region
<1>4. PICK key : key = [f \in D |-> Depth(f)]
  OBVIOUS
<1>5. \A f \in D : Cardinality(Up(t, f)) \in Nat /\ key[f] = Cardinality(Up(t, f)) - 1
  BY <1>2, <1>3, <1>4, UpIs, FS_CardinalityType DEF Depth, Region
<1>6. PICK s : s = Descending(D, key)
  OBVIOUS
<1>7. DeepestFirst(DOMAIN d) = s
  BY <1>4, <1>6 DEF DeepestFirst
<1>8. PICK N : N = Cardinality(D)
  OBVIOUS
<1>9. \A f \in D : key[f] \in Int
  BY <1>5
<1>10. N \in Nat /\ s \in [1..N -> D] /\ IsInjective(s) /\ Sorted(s, key) /\ \A f \in D : \E i \in 1..N : s[i] = f
  BY <1>2, <1>6, <1>8, <1>9, ListedDescending
<1>11. PICK F : Lifts(F, t, d, s) /\ AccumulateSubtrees(d) = F[1..N]
  BY <1>1, <1>7, <1>10, SubtreesLift
<1>12. DeepFirst(t, s, N)
  <2> SUFFICES ASSUME NEW i \in 1..N, NEW j \in 1..N, i <= j
               PROVE  Cardinality(Up(t, s[i])) >= Cardinality(Up(t, s[j]))
    BY DEF DeepFirst
  <2>1. key[s[i]] >= key[s[j]] /\ s[i] \in D /\ s[j] \in D
    BY <1>10 DEF Sorted
  <2> QED BY <1>5, <2>1
<1>13. N \in 0..N
  BY <1>10
<1>14. Among(s, N) = D
  BY <1>10 DEF Among
<1>15. Gathered(F, t, D, d, s, N)
  BY <1>2, <1>10, <1>11, <1>12, <1>13, Collected
<1>16. \A f \in D : F[1..N][f] = SumOf(d, Below(t, D, f))
  BY <1>2, <1>14, <1>15, PartAtLast DEF Gathered
<1>17. F[1..N] \in [D -> Int]
  <2>1. 1..N \in SUBSET (DOMAIN s) /\ DOMAIN d = D
    BY <1>10
  <2> QED BY <1>11, <2>1 DEF Lifts
<1> QED
  BY <1>1, <1>11, <1>16, <1>17

-----------------------------------------------------------------------------
(* What a snapshot holds.                                                    *)

LEMMA TotalIs == ASSUME NEW g, NEW S PROVE Total(g, S) = SumOf(g, S)
BY DEF Total, SumOf

Value(t, s, f) == SumOf(s.direct, Below(t, DOMAIN s.direct, f))

\* A snapshot of tree t names each folder it keeps once, with what was measured in it and below it.
Shot(t, s) ==
  /\ Region(t, DOMAIN s.direct) /\ s.direct \in [DOMAIN s.direct -> Int] /\ s.free \in Int
  /\ \A p \in DOMAIN s.folders : p.folder \in DOMAIN s.direct /\ p \in [folder : DOMAIN t, upper : BOOLEAN]
  /\ \A p, q \in DOMAIN s.folders : p.folder = q.folder => p = q
  /\ \A p \in DOMAIN s.folders : s.folders[p] = Value(t, s, p.folder)
  /\ Root \in DOMAIN s.direct => \E p \in DOMAIN s.folders : p.folder = Root
  /\ DOMAIN s.direct = DOMAIN t => s.used = SumOf(s.direct, DOMAIN t)

GrowthState ==
  /\ parent \in Trees /\ excluded \in Exclusions /\ disk \in [AllFolders -> Sizes] /\ upper \in BOOLEAN

LEMMA DirectIs ==
  ASSUME GrowthState, NEW k
  PROVE  /\ Region(parent, DOMAIN Direct(k)) /\ Direct(k) \in [DOMAIN Direct(k) -> Int]
         /\ \A f \in DOMAIN Direct(k) : Direct(k)[f] = disk[f]
<1>1. PICK t, x, v : t = parent /\ x = excluded /\ v = disk
  OBVIOUS
<1>2. t \in Trees /\ x \in Exclusions /\ v \in [DOMAIN t -> Int] /\ AllFolders = DOMAIN t
  <2>1. v \in [DOMAIN t -> Sizes]
    BY <1>1 DEF GrowthState, AllFolders
  <2>2. v \in [DOMAIN t -> Int]
    <3>1. \A f \in DOMAIN t : v[f] \in Sizes
      BY <2>1
    <3>2. \A z \in Sizes : z \in Int
      <4>1. \A z \in Sizes : z \in Nat
        BY SizesAssumption
      <4> QED BY <4>1
    <3>3. v = [f \in DOMAIN t |-> v[f]]
      BY <2>1
    <3> QED BY <3>1, <3>2, <3>3
  <2> QED BY <1>1, <2>2 DEF GrowthState, AllFolders
<1>3. PICK D : D = {g \in AllFolders : AncestorsOrSelf(g) \cap k = {}} \ excluded
  OBVIOUS
<1>4. \A g \in DOMAIN t : g \in D <=> Up(t, g) \cap k = {} /\ g \notin x
  BY <1>1, <1>2, <1>3, AncestorsAreUp
<1>5. D \subseteq DOMAIN t
  BY <1>2, <1>3
<1>6. Direct(k) = [f \in D |-> v[f]]
  BY <1>1, <1>3 DEF Direct
<1>7. ASSUME NEW g \in D PROVE t[g] \in D
  <2>1. g \in DOMAIN t /\ t[g] \in DOMAIN t /\ Up(t, t[g]) \subseteq Up(t, g)
    BY <1>2, <1>5, UpFromParent
  <2>2. t[g] \notin x
    <3>1. CASE g = Root
      BY <1>2, <1>4, <2>1, <3>1, TreesAssumption
    <3>2. CASE g # Root
      BY <1>2, <1>4, <2>1, <3>2, TreesAssumption
    <3> QED BY <3>1, <3>2
  <2> QED BY <1>4, <2>1, <2>2
<1>8. Region(t, D)
  BY <1>5, <1>7 DEF Region, Closed
<1> QED
  BY <1>1, <1>2, <1>5, <1>6, <1>8

LEMMA SnapshotIs ==
  ASSUME GrowthState, free \in Int, NEW k
  PROVE  Shot(parent, Snapshot(Direct(k)))
<1>1. PICK t, d, D, b, v : t = parent /\ d = Direct(k) /\ D = DOMAIN d /\ b = upper /\ v = disk
  OBVIOUS
<1>2. /\ t \in Trees /\ Region(t, D) /\ d \in [D -> Int] /\ b \in BOOLEAN /\ v \in [DOMAIN t -> Int]
      /\ \A f \in D : d[f] = v[f]
  BY <1>1, DirectIs, SizesAssumption DEF GrowthState, AllFolders
<1>3. PICK totals : totals = AccumulateSubtrees(d)
  OBVIOUS
<1>4. totals \in [D -> Int] /\ \A f \in D : totals[f] = SumOf(d, Below(t, D, f))
  BY <1>1, <1>2, <1>3, SubtreesAreSums
<1>5. PICK kept : kept = KeptFolders(totals)
  OBVIOUS
<1>6. kept \subseteq D
  BY <1>4, <1>5 DEF KeptFolders
<1>7. Root \in D => Root \in kept
  <2>1. AncestorsOrSelf(Root) = {Root}
    BY <1>1, <1>2, UpOfRoot, AncestorsAreUp DEF AllFolders
  <2>2. Depth(Root) = 0
    <3>1. Cardinality({Root}) = 1
      BY FS_Singleton
    <3> QED BY <2>1, <3>1 DEF Depth
  <2> QED BY <1>4, <1>5, <2>2, ThresholdsAssumption DEF KeptFolders
<1>8. PICK P : P = [f \in D |-> Path(f)]
  OBVIOUS
<1>9. \A f \in D : P[f] = Path(f) /\ P[f] \in [folder : DOMAIN t, upper : BOOLEAN] /\ P[f].folder = f
  <2> SUFFICES ASSUME NEW f \in D
               PROVE  P[f] = Path(f) /\ P[f] \in [folder : DOMAIN t, upper : BOOLEAN] /\ P[f].folder = f
    OBVIOUS
  <2>1. PICK u : u = (upper /\ Renamed \in AncestorsOrSelf(f))
    OBVIOUS
  <2>2. u \in BOOLEAN
    BY <2>1
  <2>3. P[f] = Path(f) /\ Path(f) = [folder |-> f, upper |-> u]
    BY <1>8, <2>1 DEF Path
  <2>4. f \in DOMAIN t
    BY <1>2 DEF Region
  <2> QED BY <2>2, <2>3, <2>4
<1>10. PICK w : w = [p \in {Path(f) : f \in kept} |-> totals[p.folder]]
  OBVIOUS
<1>11. \A p \in DOMAIN w : \E f \in kept : p = P[f]
  BY <1>6, <1>9, <1>10
<1>12. \A f \in kept : P[f] \in DOMAIN w
  BY <1>6, <1>9, <1>10
<1>13. \A p \in DOMAIN w : w[p] = totals[p.folder]
  BY <1>10
<1>14. PICK z : z = Total(disk, AllFolders)
  OBVIOUS
<1>15. PICK s : s = Snapshot(d)
  OBVIOUS
<1>16. s = [free |-> free, folders |-> w, direct |-> d, used |-> z]
  BY <1>3, <1>5, <1>10, <1>14, <1>15 DEF Snapshot
<1>17. s.free = free /\ s.folders = w /\ s.direct = d /\ s.used = z
  BY <1>16
<1>18. D = DOMAIN t => z = SumOf(d, DOMAIN t)
  <2> SUFFICES ASSUME D = DOMAIN t PROVE z = SumOf(d, DOMAIN t)
    OBVIOUS
  <2>1. z = SumOf(v, DOMAIN t)
    BY <1>1, <1>14, TotalIs DEF AllFolders
  <2>2. IsFiniteSet(DOMAIN t) /\ \A f \in DOMAIN t : d[f] \in Int /\ d[f] = v[f]
    BY <1>2, TreesAssumption
  <2> QED BY <2>1, <2>2, SameSum
<1>19. \A p \in DOMAIN w : p.folder \in D /\ p \in [folder : DOMAIN t, upper : BOOLEAN]
  BY <1>6, <1>9, <1>11
<1>20. \A p, q \in DOMAIN w : p.folder = q.folder => p = q
  <2> SUFFICES ASSUME NEW p \in DOMAIN w, NEW q \in DOMAIN w, p.folder = q.folder PROVE p = q
    OBVIOUS
  <2>1. PICK f \in kept : p = P[f]
    BY <1>11
  <2>2. PICK g \in kept : q = P[g]
    BY <1>11
  <2> QED BY <1>6, <1>9, <2>1, <2>2
<1>21. \A p \in DOMAIN w : w[p] = SumOf(d, Below(t, D, p.folder))
  BY <1>4, <1>13, <1>19
<1>22. Root \in D => \E p \in DOMAIN w : p.folder = Root
  BY <1>6, <1>7, <1>9, <1>12
<1>23. DOMAIN d = D
  BY <1>1
<1>24. Shot(t, s)
  BY <1>2, <1>17, <1>18, <1>19, <1>20, <1>21, <1>22, <1>23 DEF Shot, Value
<1> QED
  BY <1>1, <1>15, <1>24

-----------------------------------------------------------------------------
(* What compare() tells of a folder.                                         *)

Paths(from, to) == DOMAIN from.folders \cup DOMAIN to.folders
Delta(from, to, p) == SizeIn(to, p) - SizeIn(from, p)

\* Neither snapshot spells a folder as the other does not.
Agree(from, to) == \A p, q \in Paths(from, to) : p.folder = q.folder => p = q

\* Of each folder with a difference, that of a spelling of it.
Differs(from, to, e) ==
  /\ \A f \in DOMAIN e : \E p \in Paths(from, to) :
       p.folder = f /\ Delta(from, to, p) # 0 /\ e[f] = Delta(from, to, p)
  /\ \A p \in Paths(from, to) : Delta(from, to, p) # 0 => p.folder \in DOMAIN e

LEMMA SizeIsInt ==
  ASSUME NEW t \in Trees, NEW s, Shot(t, s), NEW p
  PROVE  SizeIn(s, p) \in Int
<1>1. CASE p \in DOMAIN s.folders
  <2>1. PICK D, d, f : D = DOMAIN s.direct /\ d = s.direct /\ f = p.folder
    OBVIOUS
  <2>2. D \subseteq DOMAIN t /\ d \in [D -> Int] /\ IsFiniteSet(DOMAIN t)
    BY <2>1, TreesAssumption DEF Shot, Region
  <2>3. IsFiniteSet(Below(t, D, f)) /\ Below(t, D, f) \subseteq D
    BY <2>2, FS_Subset DEF Below
  <2>4. SumOf(d, Below(t, D, f)) \in Int
    BY <2>2, <2>3, SumInt
  <2>5. s.folders[p] = SumOf(d, Below(t, D, f))
    BY <1>1, <2>1 DEF Shot, Value
  <2> QED BY <1>1, <2>4, <2>5 DEF SizeIn
<1>2. CASE p \notin DOMAIN s.folders
  BY <1>2 DEF SizeIn
<1> QED
  BY <1>1, <1>2

LEMMA GreatestOfTwo ==
  ASSUME NEW S, S # {}, NEW a \in Int, NEW b \in Int, \A x \in S : x = a \/ x = b
  PROVE  Max(S) \in S
<1>1. PICK z \in S : \A x \in S : z >= x
  <2>1. CASE a \in S /\ (a >= b \/ b \notin S)
    BY <2>1
  <2>2. CASE b \in S /\ (b >= a \/ a \notin S)
    BY <2>2
  <2> QED BY <2>1, <2>2
<1> QED
  BY <1>1 DEF Max

LEMMA SubtreeIs ==
  ASSUME NEW t \in Trees, NEW from, NEW to, Shot(t, from), Shot(t, to), NEW e, e = Subtree(from, to)
  PROVE  Differs(from, to, e)
<1> DEFINE C == Changes(from, to)
           Those(f) == {c \in C : c.path.folder = f}
           S(f) == {c.delta : c \in Those(f)}
<1>1. \A c : c \in C <=> \E p \in Paths(from, to) :
        c = [path |-> p, delta |-> Delta(from, to, p)] /\ Delta(from, to, p) # 0
  BY DEF Changes, Delta, Paths
<1>2. e = [f \in {c.path.folder : c \in C} |-> Max(S(f))]
  BY DEF Subtree
<1> HIDE DEF C
<1>3. ASSUME NEW f \in DOMAIN e
      PROVE  \E p \in Paths(from, to) : p.folder = f /\ Delta(from, to, p) # 0 /\ e[f] = Delta(from, to, p)
  <2>1. e[f] = Max(S(f)) /\ \E c \in C : c.path.folder = f
    BY <1>2
  <2>2. S(f) # {}
    BY <2>1
  <2>3. ASSUME NEW x \in S(f)
        PROVE  \E p \in Paths(from, to) : p.folder = f /\ Delta(from, to, p) # 0 /\ x = Delta(from, to, p)
    <3>1. PICK c \in C : c.path.folder = f /\ x = c.delta
      OBVIOUS
    <3>2. PICK p \in Paths(from, to) : c = [path |-> p, delta |-> Delta(from, to, p)] /\ Delta(from, to, p) # 0
      BY <1>1, <3>1
    <3>3. c.path = p /\ c.delta = Delta(from, to, p)
      BY <3>2
    <3> QED BY <3>1, <3>2, <3>3
  <2>4. PICK a, b : /\ a = Delta(from, to, [folder |-> f, upper |-> TRUE])
                    /\ b = Delta(from, to, [folder |-> f, upper |-> FALSE])
    OBVIOUS
  <2>5. a \in Int /\ b \in Int
    <3>1. \A p : SizeIn(to, p) \in Int /\ SizeIn(from, p) \in Int
      BY SizeIsInt
    <3>2. \A p : Delta(from, to, p) \in Int
      BY <3>1 DEF Delta
    <3> QED BY <2>4, <3>2
  <2>6. ASSUME NEW x \in S(f) PROVE x = a \/ x = b
    <3>1. PICK p \in Paths(from, to) : p.folder = f /\ x = Delta(from, to, p)
      BY <2>3
    <3>2. p \in [folder : DOMAIN t, upper : BOOLEAN]
      BY <3>1 DEF Paths, Shot
    <3>3. p = [folder |-> f, upper |-> TRUE] \/ p = [folder |-> f, upper |-> FALSE]
      BY <3>1, <3>2
    <3> QED BY <2>4, <3>1, <3>3
  <2>7. PICK X : X = S(f)
    OBVIOUS
  <2>8. Max(X) \in X
    <3> HIDE DEF S
    <3> QED BY <2>2, <2>5, <2>6, <2>7, GreatestOfTwo
  <2> QED BY <2>1, <2>3, <2>7, <2>8
<1>4. ASSUME NEW p \in Paths(from, to), Delta(from, to, p) # 0
      PROVE  p.folder \in DOMAIN e
  <2>1. PICK c : c = [path |-> p, delta |-> Delta(from, to, p)]
    OBVIOUS
  <2>2. c \in C /\ c.path.folder = p.folder
    BY <1>1, <1>4, <2>1
  <2> QED BY <1>2, <2>2
<1> QED
  BY <1>3, <1>4 DEF Differs

\* A report takes from each difference those of the folders just below.
LEMMA ExclusiveIs ==
  ASSUME parent \in Trees, NEW t, t = parent, NEW e
  PROVE  /\ DOMAIN Exclusive(e) = DOMAIN e
         /\ \A f \in DOMAIN e : Exclusive(e)[f] = e[f] - SumOf(e, Kids(t, f) \cap DOMAIN e)
<1>1. \A f \in DOMAIN e : Children(f) = Kids(t, f)
  BY DEF Children, Kids, AllFolders
<1>2. Exclusive(e) = [f \in DOMAIN e |-> e[f] - Total(e, Children(f) \cap DOMAIN e)]
  BY DEF Exclusive
<1>3. \A S : Total(e, S) = SumOf(e, S)
  BY TotalIs
<1> QED
  BY <1>1, <1>2, <1>3

LEMMA KidsApart ==
  ASSUME NEW t \in Trees, NEW D, Region(t, D), NEW f \in DOMAIN t, NEW c \in Kids(t, f)
  PROVE  /\ Below(t, D, c) \subseteq Below(t, D, f)
         /\ \A d \in Kids(t, f) : d # c => Below(t, D, c) \cap Below(t, D, d) = {}
<1>1. c \in DOMAIN t /\ c # Root /\ t[c] = f
  BY DEF Kids
<1>2. ASSUME NEW g \in Below(t, D, c) PROVE g \in Below(t, D, f)
  <2>1. g \in D /\ g \in DOMAIN t /\ c \in Up(t, g)
    BY DEF Below, Region
  <2>2. Closed(t, Up(t, g))
    BY <2>1, UpIs
  <2> QED BY <1>1, <2>1, <2>2 DEF Below, Closed
<1>3. ASSUME NEW d \in Kids(t, f), d # c, NEW g \in D, c \in Up(t, g), d \in Up(t, g) PROVE FALSE
  <2>1. d \in DOMAIN t /\ d # Root /\ t[d] = f /\ g \in DOMAIN t
    BY DEF Kids, Region
  <2>2. Up(t, c) = {c} \cup Up(t, f) /\ Up(t, d) = {d} \cup Up(t, f)
    BY <1>1, <2>1, UpFromParent
  <2>3. c \notin Up(t, f) /\ d \notin Up(t, f)
    BY <1>1, <2>1, NoCycle
  <2>4. c \in Up(t, d) \/ d \in Up(t, c)
    BY <1>3, <2>1, UpComparable
  <2> QED BY <1>3, <2>2, <2>3, <2>4
<1> QED
  BY <1>2, <1>3 DEF Below

\* What lies in a folder and below it, but not below the subfolders the snapshot names.
AloneIn(t, D, f, K) == Below(t, D, f) \ UNION {Below(t, D, c) : c \in K}
NamedKids(t, s, f) == Kids(t, f) \cap KeptIn(s)
Own(t, s, f)       == SumOf(s.direct, AloneIn(t, DOMAIN s.direct, f, NamedKids(t, s, f)))

LEMMA OwnIs ==
  ASSUME NEW t \in Trees, NEW s, Shot(t, s), NEW f \in DOMAIN t, NEW K, K = NamedKids(t, s, f),
         NEW W, \A c \in K : W[c] = Value(t, s, c)
  PROVE  /\ Own(t, s, f) = Value(t, s, f) - SumOf(W, K)
         /\ Own(t, s, f) \in Int /\ SumOf(W, K) \in Int
         /\ \A c \in K : W[c] \in Int
<1>1. PICK d, D : d = s.direct /\ D = DOMAIN d
  OBVIOUS
<1>2. Region(t, D) /\ d \in [D -> Int] /\ IsFiniteSet(DOMAIN t) /\ IsFiniteSet(D) /\ D \subseteq DOMAIN t
  BY <1>1, TreesAssumption, FS_Subset DEF Shot, Region
<1>3. PICK B : B = [g \in DOMAIN t |-> Below(t, D, g)]
  OBVIOUS
<1>4. \A g \in DOMAIN t : B[g] = Below(t, D, g) /\ B[g] \subseteq D
  BY <1>3 DEF Below
<1>5. K \subseteq DOMAIN t /\ IsFiniteSet(K)
  <2>1. K \subseteq DOMAIN t
    BY DEF Kids, NamedKids
  <2> QED BY <1>2, <2>1, FS_Subset
<1>6. \A c \in K : W[c] = SumOf(d, B[c])
  BY <1>1, <1>4, <1>5 DEF Value
<1>7. \A c, g \in K : c # g => B[c] \cap B[g] = {}
  <2> SUFFICES ASSUME NEW c \in K, NEW g \in K, c # g PROVE B[c] \cap B[g] = {}
    OBVIOUS
  <2>1. c \in Kids(t, f) /\ g \in Kids(t, f)
    BY DEF NamedKids
  <2>2. Below(t, D, c) \cap Below(t, D, g) = {}
    BY <1>2, <2>1, KidsApart
  <2> QED BY <1>4, <1>5, <2>2
<1>8. \A c \in K : B[c] \subseteq B[f]
  <2> SUFFICES ASSUME NEW c \in K PROVE B[c] \subseteq B[f]
    OBVIOUS
  <2>1. c \in Kids(t, f)
    BY DEF NamedKids
  <2>2. Below(t, D, c) \subseteq Below(t, D, f)
    BY <1>2, <2>1, KidsApart
  <2> QED BY <1>4, <1>5, <2>2
<1>9. PICK U : U = UNION {B[c] : c \in K}
  OBVIOUS
<1>10. U \subseteq B[f] /\ IsFiniteSet(B[f]) /\ \A g \in B[f] : d[g] \in Int
  BY <1>2, <1>4, <1>8, <1>9, FS_Subset
<1>11. SumOf(W, K) = SumOf(d, U)
  <2>1. \A c \in K : B[c] \subseteq B[f]
    BY <1>8
  <2> QED BY <1>5, <1>6, <1>7, <1>9, <1>10, <2>1, SumOfParts
<1>12. PICK R : R = B[f] \ U
  OBVIOUS
<1>13. IsFiniteSet(U) /\ IsFiniteSet(R) /\ U \cap R = {} /\ U \cup R = B[f]
  BY <1>10, <1>12, FS_Subset
<1>14. /\ SumOf(d, U \cup R) = SumOf(d, U) + SumOf(d, R)
       /\ SumOf(d, U) \in Int /\ SumOf(d, R) \in Int
  <2>1. \A g \in U \cup R : d[g] \in Int
    BY <1>10, <1>13
  <2> QED BY <1>13, <2>1, SumOverDisjoint
<1>15. Value(t, s, f) = SumOf(d, B[f])
  BY <1>1, <1>4 DEF Value
<1>16. AloneIn(t, D, f, K) = R
  BY <1>4, <1>5, <1>9, <1>12 DEF AloneIn
<1>17. Own(t, s, f) = SumOf(d, R)
  BY <1>1, <1>16 DEF Own
<1>18. \A c \in K : W[c] \in Int
  <2> SUFFICES ASSUME NEW c \in K PROVE W[c] \in Int
    OBVIOUS
  <2>1. IsFiniteSet(B[c]) /\ \A g \in B[c] : d[g] \in Int
    BY <1>8, <1>10, FS_Subset
  <2> QED BY <1>6, <2>1, SumInt
<1>19. PICK x, y : x = SumOf(d, U) /\ y = SumOf(d, R)
  OBVIOUS
<1>20. SumOf(W, K) = x /\ Value(t, s, f) = x + y /\ x \in Int /\ y \in Int /\ Own(t, s, f) = y
  BY <1>11, <1>13, <1>14, <1>15, <1>17, <1>19
<1> QED
  BY <1>18, <1>20

LEMMA DiffersByValue ==
  ASSUME NEW t \in Trees, NEW from, NEW to, Shot(t, from), Shot(t, to), Agree(from, to),
         NEW e, Differs(from, to, e),
         NEW p \in DOMAIN from.folders, p \in DOMAIN to.folders
  PROVE  /\ p.folder \in DOMAIN e => e[p.folder] = Value(t, to, p.folder) - Value(t, from, p.folder)
         /\ p.folder \notin DOMAIN e => Value(t, to, p.folder) - Value(t, from, p.folder) = 0
<1>1. Delta(from, to, p) = Value(t, to, p.folder) - Value(t, from, p.folder)
  BY DEF Delta, SizeIn, Shot
<1>2. p.folder \in DOMAIN e => e[p.folder] = Delta(from, to, p)
  BY DEF Differs, Agree, Paths
<1>3. p.folder \notin DOMAIN e => Delta(from, to, p) = 0
  BY DEF Differs, Paths
<1> QED
  BY <1>1, <1>2, <1>3

LEMMA SameNamesAgree ==
  ASSUME NEW t \in Trees, NEW from, NEW to, Shot(t, from), Shot(t, to), DOMAIN from.folders = DOMAIN to.folders
  PROVE  Agree(from, to)
BY DEF Agree, Paths, Shot

\* What a report says of each folder when both snapshots name the same.
LEMMA OwnTold ==
  ASSUME NEW t \in Trees, NEW from, NEW to, Shot(t, from), Shot(t, to), DOMAIN from.folders = DOMAIN to.folders,
         NEW e, Differs(from, to, e), NEW f \in DOMAIN e
  PROVE  e[f] - SumOf(e, Kids(t, f) \cap DOMAIN e) = Own(t, to, f) - Own(t, from, f)
<1>1. Agree(from, to)
  BY SameNamesAgree
<1>2. PICK K : K = NamedKids(t, to, f)
  OBVIOUS
<1>3. K = NamedKids(t, from, f)
  BY <1>2 DEF KeptIn, NamedKids
<1>4. \A c \in K \cup {f} : \E p \in DOMAIN from.folders : p \in DOMAIN to.folders /\ p.folder = c
  BY <1>2 DEF KeptIn, Differs, Paths, NamedKids
<1>5. f \in DOMAIN t /\ K \subseteq DOMAIN t
  <2>1. \A p \in DOMAIN from.folders : p.folder \in DOMAIN t
    BY DEF Shot, Region
  <2> QED BY <1>4, <2>1
<1>6. PICK A, B, E : /\ A = [c \in K |-> Value(t, to, c)] /\ B = [c \in K |-> Value(t, from, c)]
                     /\ E = [c \in K |-> IF c \in DOMAIN e THEN e[c] ELSE 0]
  OBVIOUS
<1>7. /\ Own(t, to, f) = Value(t, to, f) - SumOf(A, K) /\ Own(t, to, f) \in Int /\ SumOf(A, K) \in Int
      /\ \A c \in K : A[c] \in Int
  <2>1. \A c \in K : A[c] = Value(t, to, c)
    BY <1>6
  <2> QED BY <1>2, <1>5, <2>1, OwnIs
<1>8. /\ Own(t, from, f) = Value(t, from, f) - SumOf(B, K) /\ Own(t, from, f) \in Int /\ SumOf(B, K) \in Int
      /\ \A c \in K : B[c] \in Int
  <2>1. \A c \in K : B[c] = Value(t, from, c)
    BY <1>6
  <2> QED BY <1>3, <1>5, <2>1, OwnIs
<1>9. \A c \in K : E[c] = A[c] - B[c]
  <2> SUFFICES ASSUME NEW c \in K PROVE E[c] = A[c] - B[c]
    OBVIOUS
  <2>1. PICK p \in DOMAIN from.folders : p \in DOMAIN to.folders /\ p.folder = c
    BY <1>4
  <2>2. /\ c \in DOMAIN e => e[c] = Value(t, to, c) - Value(t, from, c)
        /\ c \notin DOMAIN e => Value(t, to, c) - Value(t, from, c) = 0
    BY <1>1, <2>1, DiffersByValue
  <2> QED BY <1>6, <2>2
<1>10. e[f] = Value(t, to, f) - Value(t, from, f)
  <2>1. PICK p \in DOMAIN from.folders : p \in DOMAIN to.folders /\ p.folder = f
    BY <1>4
  <2> QED BY <1>1, <2>1, DiffersByValue
<1>11. IsFiniteSet(K)
  BY <1>5, TreesAssumption, FS_Subset
<1>12. SumOf(E, K) = SumOf(A, K) - SumOf(B, K)
  <2>1. \A c \in K : A[c] \in Int /\ B[c] \in Int /\ E[c] = A[c] - B[c]
    BY <1>7, <1>8, <1>9
  <2> QED BY <1>11, <2>1, SumMinus
<1>13. PICK L : L = Kids(t, f) \cap DOMAIN e
  OBVIOUS
<1>14. L \in SUBSET K
  <2>1. \A c \in DOMAIN e : c \in KeptIn(to)
    BY DEF Differs, Paths, KeptIn
  <2> QED BY <1>2, <1>13, <2>1 DEF NamedKids
<1>15. (\A c \in K : E[c] \in Int) /\ (\A c \in K \ L : E[c] = 0) /\ (\A c \in L : E[c] = e[c])
  <2>1. \A c \in K : E[c] \in Int
    BY <1>7, <1>8, <1>9
  <2>2. \A c \in K \ L : c \notin DOMAIN e
    BY <1>2, <1>13 DEF NamedKids
  <2> QED BY <1>6, <1>13, <1>14, <2>1, <2>2
<1>16. SumOf(E, L) = SumOf(E, K)
  BY <1>11, <1>14, <1>15, SumWithoutNothing
<1>17. SumOf(E, L) = SumOf(e, L)
  <2>1. IsFiniteSet(L) /\ \A c \in L : E[c] \in Int /\ E[c] = e[c]
    BY <1>11, <1>14, <1>15, FS_Subset
  <2> QED BY <2>1, SameSum
<1>18. PICK x, y : x = Value(t, to, f) /\ y = Value(t, from, f)
  OBVIOUS
<1>19. PICK a, b : a = SumOf(A, K) /\ b = SumOf(B, K)
  OBVIOUS
<1>20. SumOf(e, L) = a - b /\ a \in Int /\ b \in Int
  BY <1>7, <1>8, <1>12, <1>16, <1>17, <1>19
<1>21. x \in Int /\ y \in Int
  <2>1. PICK p \in DOMAIN from.folders : p \in DOMAIN to.folders /\ p.folder = f
    BY <1>4
  <2>2. SizeIn(to, p) = x /\ SizeIn(from, p) = y
    BY <1>18, <2>1 DEF SizeIn, Shot
  <2> QED BY <2>2, SizeIsInt
<1> QED
  BY <1>7, <1>8, <1>10, <1>13, <1>18, <1>19, <1>20, <1>21

LEMMA DifferencesAreInt ==
  ASSUME NEW t \in Trees, NEW from, NEW to, Shot(t, from), Shot(t, to), NEW e, Differs(from, to, e)
  PROVE  /\ DOMAIN e \subseteq DOMAIN t /\ IsFiniteSet(DOMAIN e) /\ \A f \in DOMAIN e : e[f] \in Int
         /\ \A f : SumOf(e, Kids(t, f) \cap DOMAIN e) \in Int
<1>1. \A p : Delta(from, to, p) \in Int
  <2>1. \A p : SizeIn(to, p) \in Int /\ SizeIn(from, p) \in Int
    BY SizeIsInt
  <2> QED BY <2>1 DEF Delta
<1>2. \A f \in DOMAIN e : e[f] \in Int
  BY <1>1 DEF Differs
<1>3. DOMAIN e \subseteq DOMAIN t
  BY DEF Differs, Paths, Shot, Region
<1>4. IsFiniteSet(DOMAIN e)
  BY <1>3, TreesAssumption, FS_Subset
<1>5. ASSUME NEW f PROVE SumOf(e, Kids(t, f) \cap DOMAIN e) \in Int
  <2>1. PICK S : S = Kids(t, f) \cap DOMAIN e
    OBVIOUS
  <2>2. S \subseteq DOMAIN e
    BY <2>1
  <2>3. IsFiniteSet(S) /\ \A c \in S : e[c] \in Int
    BY <1>2, <1>4, <2>2, FS_Subset
  <2>4. SumOf(e, S) \in Int
    BY <2>3, SumInt
  <2> QED BY <2>1, <2>4
<1> QED
  BY <1>2, <1>3, <1>4, <1>5

\* Each difference less those of the subfolders.
Taken(t, e, x) ==
  DOMAIN x = DOMAIN e /\ \A f \in DOMAIN e : x[f] = e[f] - SumOf(e, Kids(t, f) \cap DOMAIN e)

\* Whatever is taken from a folder was a difference of a folder below: the root's is left.
LEMMA RestIsRoot ==
  ASSUME NEW t \in Trees, NEW e, Region(t, DOMAIN e), \A f \in DOMAIN e : e[f] \in Int, NEW x, Taken(t, e, x)
  PROVE  SumOf(x, DOMAIN e) = IF Root \in DOMAIN e THEN e[Root] ELSE 0
<1>1. PICK E : E = DOMAIN e
  OBVIOUS
<1>2. E \subseteq DOMAIN t /\ IsFiniteSet(E) /\ \A c \in E : t[c] \in E
  BY <1>1, TreesAssumption, FS_Subset DEF Region, Closed
<1>3. PICK K : K = [f \in E |-> Kids(t, f) \cap E]
  OBVIOUS
<1>4. PICK w : w = [f \in E |-> SumOf(e, K[f])]
  OBVIOUS
<1>5. \A f \in E : K[f] = Kids(t, f) \cap E /\ K[f] \subseteq E /\ w[f] = SumOf(e, K[f])
  BY <1>3, <1>4
<1>6. \A f \in E : w[f] \in Int
  <2> SUFFICES ASSUME NEW f \in E PROVE w[f] \in Int
    OBVIOUS
  <2>1. IsFiniteSet(K[f]) /\ \A c \in K[f] : e[c] \in Int
    BY <1>1, <1>2, <1>5, FS_Subset
  <2> QED BY <1>5, <2>1, SumInt
<1>7. \A f \in E : e[f] \in Int /\ w[f] \in Int /\ x[f] = e[f] - w[f]
  BY <1>1, <1>5, <1>6 DEF Taken
<1>8. SumOf(x, E) = SumOf(e, E) - SumOf(w, E) /\ SumOf(e, E) \in Int /\ SumOf(w, E) \in Int
  BY <1>2, <1>7, SumMinus
<1>9. PICK U : U = UNION {K[f] : f \in E}
  OBVIOUS
<1>10. SumOf(w, E) = SumOf(e, U)
  <2>1. \A f, g \in E : f # g => K[f] \cap K[g] = {}
    BY <1>5 DEF Kids
  <2>2. (\A f \in E : K[f] \subseteq E) /\ (\A f \in E : e[f] \in Int) /\ (\A f \in E : w[f] = SumOf(e, K[f]))
    BY <1>5, <1>7
  <2> QED BY <1>2, <1>9, <2>1, <2>2, SumOfParts
<1>11. U = E \ {Root}
  <2>1. ASSUME NEW c \in U PROVE c \in E \ {Root}
    BY <1>5, <1>9 DEF Kids
  <2>2. ASSUME NEW c \in E \ {Root} PROVE c \in U
    <3>1. t[c] \in E /\ c \in DOMAIN t
      BY <1>2
    <3>2. c \in K[t[c]]
      BY <1>5, <3>1 DEF Kids
    <3> QED BY <1>9, <3>1, <3>2
  <2> QED BY <2>1, <2>2
<1>12. CASE Root \in E
  <2>1. IsFiniteSet(U) /\ Root \notin U /\ U \cup {Root} = E /\ \A c \in U \cup {Root} : e[c] \in Int
    BY <1>2, <1>7, <1>11, <1>12, FS_Subset
  <2>2. SumOf(e, U \cup {Root}) = SumOf(e, U) + e[Root] /\ SumOf(e, U) \in Int
    BY <2>1, SumOneMore
  <2>3. e[Root] \in Int
    BY <1>7, <1>12
  <2>4. PICK a, b : a = SumOf(e, U) /\ b = e[Root]
    OBVIOUS
  <2>5. SumOf(x, E) = (a + b) - a /\ a \in Int /\ b \in Int
    BY <1>8, <1>10, <2>1, <2>2, <2>3, <2>4
  <2>6. SumOf(x, E) = b
    BY <2>5
  <2> QED BY <1>1, <1>12, <2>4, <2>6
<1>13. CASE Root \notin E
  <2>1. U = E
    BY <1>11, <1>13
  <2>2. PICK a : a = SumOf(e, E)
    OBVIOUS
  <2>3. SumOf(x, E) = a - a /\ a \in Int
    BY <1>8, <1>10, <2>1, <2>2
  <2>4. SumOf(x, E) = 0
    BY <2>3
  <2> QED BY <1>1, <1>13, <2>4
<1> QED
  BY <1>12, <1>13

\* Of a volume measured whole the root's total is all there is.
LEMMA WholeIsRoot ==
  ASSUME NEW t \in Trees, NEW s, Shot(t, s), DOMAIN s.direct = DOMAIN t
  PROVE  /\ Value(t, s, Root) = s.used
         /\ \E p \in DOMAIN s.folders : p.folder = Root
<1>1. \A g \in DOMAIN t : Root \in Up(t, g)
  BY UpIs
<1>2. Below(t, DOMAIN t, Root) = DOMAIN t
  BY <1>1 DEF Below
<1>3. Value(t, s, Root) = SumOf(s.direct, DOMAIN t)
  BY <1>2 DEF Value
<1>4. Root \in DOMAIN t
  BY UpOfRoot
<1> QED
  BY <1>3, <1>4 DEF Shot

LEMMA AllTold ==
  ASSUME NEW t \in Trees, NEW from, NEW to, Shot(t, from), Shot(t, to), Agree(from, to),
         DOMAIN from.direct = DOMAIN t, DOMAIN to.direct = DOMAIN t,
         NEW e, Differs(from, to, e), Closed(t, DOMAIN e), NEW x, Taken(t, e, x)
  PROVE  SumOf(x, DOMAIN e) = to.used - from.used
<1>1. Region(t, DOMAIN e) /\ \A f \in DOMAIN e : e[f] \in Int
  BY DifferencesAreInt DEF Region
<1>2. SumOf(x, DOMAIN e) = IF Root \in DOMAIN e THEN e[Root] ELSE 0
  BY <1>1, RestIsRoot
<1>3. /\ Value(t, to, Root) = to.used /\ Value(t, from, Root) = from.used
      /\ (\E p \in DOMAIN to.folders : p.folder = Root) /\ (\E p \in DOMAIN from.folders : p.folder = Root)
  BY WholeIsRoot
<1>4. PICK p \in DOMAIN from.folders : p.folder = Root /\ p \in DOMAIN to.folders
  BY <1>3 DEF Agree, Paths
<1>5. /\ Root \in DOMAIN e => e[Root] = Value(t, to, Root) - Value(t, from, Root)
      /\ Root \notin DOMAIN e => Value(t, to, Root) - Value(t, from, Root) = 0
  BY <1>4, DiffersByValue
<1> QED
  BY <1>2, <1>3, <1>5

\* Read up to the first below the jump, a list by size misses none that jumped.
LEMMA JumpsTold ==
  ASSUME NEW S, IsFiniteSet(S), NEW x, NEW e, \A f \in S : x[f] \in Int /\ x[f] >= NoiseFloor
  PROVE  \A f : f \in Jumps(LargestFirst(S, x, e), x) <=> f \in S /\ x[f] >= FolderJump
<1>1. PICK key : key = [f \in S |-> Magnitude(x[f])]
  OBVIOUS
<1>2. \A f \in S : key[f] = x[f] /\ key[f] \in Int
  <2> SUFFICES ASSUME NEW f \in S PROVE key[f] = x[f] /\ key[f] \in Int
    OBVIOUS
  <2>1. x[f] \in Int /\ x[f] >= NoiseFloor /\ NoiseFloor \in Int /\ 0 < NoiseFloor
    BY ThresholdsAssumption
  <2>2. Magnitude(x[f]) = x[f]
    BY <2>1 DEF Magnitude
  <2> QED BY <1>1, <2>1, <2>2
<1>3. PICK l : l = Descending(S, key)
  OBVIOUS
<1>4. LargestFirst(S, x, e) = l
  BY <1>1, <1>3 DEF LargestFirst
<1>5. PICK n : n = Cardinality(S)
  OBVIOUS
<1>6. n \in Nat /\ l \in [1..n -> S] /\ Sorted(l, key) /\ \A f \in S : \E i \in 1..n : l[i] = f
  BY <1>2, <1>3, <1>5, ListedDescending
<1>7. FolderJump \in Int
  BY ThresholdsAssumption
<1>8. \A i, j \in 1..n : i <= j => x[l[i]] >= x[l[j]]
  <2> SUFFICES ASSUME NEW i \in 1..n, NEW j \in 1..n, i <= j PROVE x[l[i]] >= x[l[j]]
    OBVIOUS
  <2>1. l[i] \in S /\ l[j] \in S /\ key[l[i]] >= key[l[j]]
    BY <1>6 DEF Sorted
  <2> QED BY <1>2, <2>1
<1>9. ASSUME NEW f, f \in Jumps(l, x) PROVE f \in S /\ x[f] >= FolderJump
  <2>1. PICK i \in DOMAIN l : f = l[i] /\ \A k \in 1..i : x[l[k]] >= FolderJump
    BY <1>9 DEF Jumps
  <2>2. i \in 1..i /\ i \in 1..n
    BY <1>6
  <2> QED BY <1>6, <2>1, <2>2
<1>10. ASSUME NEW f \in S, x[f] >= FolderJump PROVE f \in Jumps(l, x)
  <2>1. PICK i \in 1..n : l[i] = f
    BY <1>6
  <2>2. ASSUME NEW k \in 1..i PROVE x[l[k]] >= FolderJump
    <3>1. k \in 1..n /\ k <= i
      BY <1>6
    <3>2. x[l[k]] >= x[f] /\ l[k] \in S
      BY <1>6, <1>8, <2>1, <3>1
    <3>3. x[l[k]] \in Int /\ x[f] \in Int
      BY <3>2
    <3> QED BY <1>7, <1>10, <3>2, <3>3
  <2>3. i \in DOMAIN l
    BY <1>6
  <2> QED BY <2>1, <2>2, <2>3 DEF Jumps
<1> QED
  BY <1>4, <1>9, <1>10

Told(t, from, to, r) ==
  /\ DOMAIN r.exclusive \subseteq DOMAIN t
  /\ DOMAIN from.folders = DOMAIN to.folders =>
       \A f \in DOMAIN r.exclusive : r.exclusive[f] = Own(t, to, f) - Own(t, from, f)
  /\ /\ Agree(from, to) /\ DOMAIN from.direct = DOMAIN t /\ DOMAIN to.direct = DOMAIN t
     /\ Closed(t, DOMAIN r.exclusive)
     => SumOf(r.exclusive, DOMAIN r.exclusive) = to.used - from.used
  /\ r.freeDelta = to.free - from.free
  /\ \A f : f \in r.jumps <=> f \in DOMAIN r.exclusive /\ r.exclusive[f] >= FolderJump

LEMMA ReportTells ==
  ASSUME parent \in Trees, NEW t, t = parent, NEW from, NEW to, Shot(t, from), Shot(t, to)
  PROVE  Told(t, from, to, BuildGrowthReport(from, to))
<1>1. t \in Trees
  OBVIOUS
<1>2. PICK e, x : e = Subtree(from, to) /\ x = Exclusive(e)
  OBVIOUS
<1>3. Differs(from, to, e)
  BY <1>1, <1>2, SubtreeIs
<1>4. DOMAIN x = DOMAIN e /\ \A f \in DOMAIN e : x[f] = e[f] - SumOf(e, Kids(t, f) \cap DOMAIN e)
  BY <1>2, ExclusiveIs
<1>5. /\ DOMAIN e \subseteq DOMAIN t /\ IsFiniteSet(DOMAIN e) /\ \A f \in DOMAIN e : e[f] \in Int
      /\ \A f : SumOf(e, Kids(t, f) \cap DOMAIN e) \in Int
  BY <1>1, <1>3, DifferencesAreInt
<1>6. \A f \in DOMAIN x : x[f] \in Int
  <2> SUFFICES ASSUME NEW f \in DOMAIN e PROVE x[f] \in Int
    BY <1>4
  <2>1. PICK a, b : a = e[f] /\ b = SumOf(e, Kids(t, f) \cap DOMAIN e)
    OBVIOUS
  <2>2. x[f] = a - b /\ a \in Int /\ b \in Int
    BY <1>4, <1>5, <2>1
  <2> QED BY <2>2
<1>7. PICK S : S = {f \in DOMAIN x : x[f] >= NoiseFloor}
  OBVIOUS
<1>8. PICK jumps, shrunk, items :
        /\ jumps = Jumps(LargestFirst(S, x, e), x) /\ items = LargestFirst(S, x, e)
        /\ shrunk = LargestFirst({f \in DOMAIN x : x[f] <= -NoiseFloor}, x, e)
  OBVIOUS
<1>9. PICK r : r = BuildGrowthReport(from, to)
  OBVIOUS
<1>10. r = [freeDelta |-> to.free - from.free, exclusive |-> x, items |-> items, shrunk |-> shrunk, jumps |-> jumps]
  BY <1>2, <1>7, <1>8, <1>9 DEF BuildGrowthReport
<1>11. r.freeDelta = to.free - from.free /\ r.exclusive = x /\ r.jumps = jumps
  BY <1>10
<1>12. \A f : f \in jumps <=> f \in DOMAIN x /\ x[f] >= FolderJump
  <2>1. IsFiniteSet(S) /\ \A f \in S : x[f] \in Int /\ x[f] >= NoiseFloor
    <3>1. S \subseteq DOMAIN e
      BY <1>4, <1>7
    <3> QED BY <1>5, <1>6, <1>7, <3>1, FS_Subset
  <2>2. \A f : f \in jumps <=> f \in S /\ x[f] >= FolderJump
    BY <1>8, <2>1, JumpsTold
  <2>3. \A f \in DOMAIN x : x[f] >= FolderJump => f \in S
    <3>1. NoiseFloor \in Int /\ FolderJump \in Int /\ NoiseFloor <= FolderJump
      BY ThresholdsAssumption
    <3> QED BY <1>6, <1>7, <3>1
  <2> QED BY <1>7, <2>2, <2>3
<1>13. ASSUME DOMAIN from.folders = DOMAIN to.folders
       PROVE  \A f \in DOMAIN x : x[f] = Own(t, to, f) - Own(t, from, f)
  <2> SUFFICES ASSUME NEW f \in DOMAIN e PROVE x[f] = Own(t, to, f) - Own(t, from, f)
    BY <1>4
  <2>1. e[f] - SumOf(e, Kids(t, f) \cap DOMAIN e) = Own(t, to, f) - Own(t, from, f)
    BY <1>1, <1>3, <1>13, OwnTold
  <2> QED BY <1>4, <2>1
<1>14. ASSUME Agree(from, to), DOMAIN from.direct = DOMAIN t, DOMAIN to.direct = DOMAIN t, Closed(t, DOMAIN x)
       PROVE  SumOf(x, DOMAIN x) = to.used - from.used
  <2>1. Taken(t, e, x) /\ Closed(t, DOMAIN e)
    BY <1>4, <1>14 DEF Taken
  <2>2. SumOf(x, DOMAIN e) = to.used - from.used
    BY <1>1, <1>3, <1>14, <2>1, AllTold
  <2> QED BY <1>4, <2>2
<1>15. Told(t, from, to, r)
  BY <1>4, <1>5, <1>11, <1>12, <1>13, <1>14 DEF Told
<1> QED
  BY <1>9, <1>15

-----------------------------------------------------------------------------
GrowthInv ==
  /\ GrowthState
  /\ free = Absent \/ free \in Int
  /\ previous # Absent => Shot(parent, previous)
  /\ latest # Absent \/ previous # Absent => Shot(parent, latest)
  /\ report # Absent => previous # Absent /\ Told(parent, previous, latest, report)

LEMMA FreeIsInt ==
  ASSUME GrowthState
  PROVE  Capacity - Total(disk, AllFolders) \in Int
<1>1. PICK v, F : v = disk /\ F = AllFolders
  OBVIOUS
<1>2. IsFiniteSet(F) /\ v \in [F -> Sizes]
  BY <1>1, TreesAssumption DEF GrowthState, AllFolders
<1>3. \A f \in F : v[f] \in Int
  <2>1. \A z \in Sizes : z \in Nat
    BY SizesAssumption
  <2>2. \A f \in F : v[f] \in Nat
    BY <1>2, <2>1
  <2> QED BY <2>2
<1>4. SumOf(v, F) \in Int
  BY <1>2, <1>3, SumInt
<1>5. Total(disk, AllFolders) = SumOf(v, F)
  BY <1>1, TotalIs
<1>6. Capacity \in Int
  BY ThresholdsAssumption
<1> QED
  BY <1>4, <1>5, <1>6

LEMMA GrowthInvInit == GrowthInit => GrowthInv
BY DEF GrowthInit, GrowthInv, GrowthState

LEMMA GrowthInvStep == GrowthInv /\ [GrowthNext]_growthVars => GrowthInv'
<1> SUFFICES ASSUME GrowthInv, [GrowthNext]_growthVars PROVE GrowthInv'
  OBVIOUS
<1>0. GrowthState
  BY DEF GrowthInv
<1>1. CASE ReadVolume
  <2>1. Capacity - Total(disk, AllFolders) \in Int
    BY <1>0, FreeIsInt
  <2>2. free' \in Int /\ UNCHANGED <<parent, excluded, disk, upper, previous, latest, report>>
    BY <1>1, <2>1 DEF ReadVolume
  <2> QED BY <2>2 DEF GrowthInv, GrowthState, AllFolders
<1>2. CASE Scan
  <2>1. PICK k : latest' = Snapshot(Direct(k))
    BY <1>2 DEF Scan
  <2>2. free \in Int
    BY <1>2 DEF Scan, GrowthInv
  <2>3. Shot(parent, latest')
    BY <1>0, <2>1, <2>2, SnapshotIs
  <2>4. /\ previous' = latest /\ free' = Absent /\ report' = Absent /\ parent' = parent
        /\ excluded' = excluded /\ disk' = disk /\ upper' = upper
    BY <1>2 DEF Scan
  <2>5. latest # Absent => Shot(parent, latest)
    BY DEF GrowthInv
  <2> QED BY <1>0, <2>3, <2>4, <2>5 DEF GrowthInv, GrowthState, AllFolders
<1>3. CASE ScanFails
  BY <1>3 DEF ScanFails, GrowthInv, GrowthState, AllFolders
<1>4. CASE ShowGrowth
  <2>1. previous # Absent /\ report' = BuildGrowthReport(previous, latest)
        /\ UNCHANGED <<parent, excluded, disk, upper, free, previous, latest>>
    BY <1>4 DEF ShowGrowth
  <2>2. PICK t, from, to : t = parent /\ from = previous /\ to = latest
    OBVIOUS
  <2>3. Shot(t, from) /\ Shot(t, to) /\ parent \in Trees
    BY <2>1, <2>2 DEF GrowthInv, GrowthState
  <2>4. Told(t, from, to, BuildGrowthReport(from, to))
    BY <2>2, <2>3, ReportTells
  <2>5. Told(parent, previous, latest, report')
    BY <2>1, <2>2, <2>4
  <2> QED BY <2>1, <2>5 DEF GrowthInv, GrowthState, AllFolders
<1>5. CASE Write
  BY <1>5 DEF Write, GrowthInv, GrowthState, AllFolders
<1>6. CASE Respell
  BY <1>6 DEF Respell, GrowthInv, GrowthState, AllFolders
<1>7. CASE UNCHANGED growthVars
  BY <1>7 DEF growthVars, GrowthInv, GrowthState, AllFolders
<1> QED
  BY <1>1, <1>2, <1>3, <1>4, <1>5, <1>6, <1>7 DEF GrowthNext

LEMMA GrowthInductive == GrowthSpec => []GrowthInv
BY GrowthInvInit, GrowthInvStep, PTL DEF GrowthSpec

-----------------------------------------------------------------------------
LEMMA OwnGrowthIs ==
  ASSUME parent \in Trees, NEW t, t = parent, NEW from, NEW to, from = previous, to = latest,
         Shot(t, from), Shot(t, to), NEW f \in DOMAIN t
  PROVE  OwnGrowth(f) = Own(t, to, f) - Own(t, from, f)
<1> DEFINE part(s) == DOMAIN s.direct \cap (Within(f) \ UNION {Within(c) : c \in Children(f) \cap KeptIn(s)})
           measured(s) == Total(s.direct, part(s))
<1>1. OwnGrowth(f) = measured(latest) - measured(previous)
  BY DEF OwnGrowth
<1>2. \A g \in DOMAIN t : AncestorsOrSelf(g) = Up(t, g)
  BY AncestorsAreUp DEF AllFolders
<1>3. \A c, g : g \in Within(c) <=> g \in DOMAIN t /\ c \in Up(t, g)
  BY <1>2 DEF Within, AllFolders
<1>4. Children(f) = Kids(t, f)
  BY DEF Children, Kids, AllFolders
<1>5. ASSUME NEW s, Shot(t, s)
      PROVE  Total(s.direct, part(s)) = Own(t, s, f)
  <2>1. DOMAIN s.direct \subseteq DOMAIN t
    BY <1>5 DEF Shot, Region
  <2>2. part(s) = AloneIn(t, DOMAIN s.direct, f, NamedKids(t, s, f))
    BY <1>3, <1>4, <2>1 DEF AloneIn, NamedKids, Below
  <2> HIDE DEF part
  <2>3. Total(s.direct, part(s)) = SumOf(s.direct, part(s))
    BY TotalIs
  <2> QED BY <2>2, <2>3 DEF Own
<1> HIDE DEF part
<1>6. Total(to.direct, part(to)) = Own(t, to, f) /\ Total(from.direct, part(from)) = Own(t, from, f)
  BY <1>5
<1> QED
  BY <1>1, <1>6

\* As long as both snapshots name the same folders, what the report says a folder grew by is what
\* its own files and the subfolders nobody names grew by: build_growth_report takes from its
\* subtree what its subfolders explain, on any tree and for any sizes.
THEOREM ExclusiveIsTheirOwn == GrowthSpec => []ExclusiveIsOwn
<1>1. GrowthInv => ExclusiveIsOwn
  <2> SUFFICES ASSUME GrowthInv, report # Absent, SameFoldersKept, NEW f \in DOMAIN report.exclusive
               PROVE  report.exclusive[f] = OwnGrowth(f)
    BY DEF ExclusiveIsOwn
  <2>1. PICK t, from, to, x : t = parent /\ from = previous /\ to = latest /\ x = report.exclusive
    OBVIOUS
  <2>2. parent \in Trees /\ Shot(t, from) /\ Shot(t, to) /\ Told(t, from, to, report)
    BY <2>1 DEF GrowthInv, GrowthState
  <2>3. x[f] = Own(t, to, f) - Own(t, from, f)
    BY <2>1, <2>2 DEF Told, SameFoldersKept
  <2>4. f \in DOMAIN t
    BY <2>1, <2>2 DEF Told
  <2> QED BY <2>1, <2>2, <2>3, <2>4, OwnGrowthIs
<1> QED
  BY <1>1, GrowthInductive, PTL

\* Of a volume measured whole both times, what the folders of the report grew by adds up to what
\* the volume lost, however many folders entered or left the snapshots in between, unless files
\* moved within a folder whose own total stayed the same.
THEOREM GrowthIsAccounted == GrowthSpec => []GrowthAddsUp
<1>1. GrowthInv => GrowthAddsUp
  <2> SUFFICES ASSUME GrowthInv, report # Absent, MeasuredWhole(previous), MeasuredWhole(latest),
                      SpellingIn(previous) = SpellingIn(latest), NothingMovedWithin
               PROVE  Total(report.exclusive, DOMAIN report.exclusive) = -report.freeDelta
    BY DEF GrowthAddsUp
  <2>1. PICK t, from, to, x, r : t = parent /\ from = previous /\ to = latest /\ r = report /\ x = r.exclusive
    OBVIOUS
  <2>2. t \in Trees /\ parent \in Trees /\ Shot(t, from) /\ Shot(t, to) /\ Told(t, from, to, r)
    BY <2>1 DEF GrowthInv, GrowthState
  <2>3. /\ from.free = Capacity - from.used /\ DOMAIN from.direct = DOMAIN t
        /\ to.free = Capacity - to.used /\ DOMAIN to.direct = DOMAIN t
    BY <2>1 DEF MeasuredWhole, AllFolders
  <2>4. Agree(from, to)
    <3>1. \A p, q : p \in DOMAIN from.folders /\ q \in DOMAIN to.folders /\ p.folder = q.folder => p = q
      <4> SUFFICES ASSUME NEW p \in DOMAIN from.folders, NEW q \in DOMAIN to.folders, p.folder = q.folder
                   PROVE  p = q
        OBVIOUS
      <4>1. p \in [folder : DOMAIN t, upper : BOOLEAN] /\ q \in [folder : DOMAIN t, upper : BOOLEAN]
        BY <2>2 DEF Shot
      <4>2. p.upper => p \in DOMAIN to.folders
        BY <2>1 DEF SpellingIn
      <4>3. q.upper => q \in DOMAIN from.folders
        BY <2>1 DEF SpellingIn
      <4>4. p.upper \/ q.upper => p = q
        BY <2>2, <4>2, <4>3 DEF Shot
      <4>5. ~p.upper /\ ~q.upper => p = q
        BY <4>1
      <4> QED BY <4>4, <4>5
    <3> QED BY <2>2, <3>1 DEF Agree, Paths, Shot
  <2>5. Closed(t, DOMAIN x) 
    <3>1. \A f \in DOMAIN x : AncestorsOrSelf(f) \subseteq DOMAIN x
      BY <2>1 DEF NothingMovedWithin
    <3>2. DOMAIN x \subseteq DOMAIN t
      BY <2>1, <2>2 DEF Told
    <3>3. \A f \in DOMAIN x : t[f] \in AncestorsOrSelf(f)
      BY <2>1, <2>2, <3>2, UpFromParent, AncestorsAreUp DEF AllFolders
    <3> QED BY <3>1, <3>3 DEF Closed
  <2>6. SumOf(x, DOMAIN x) = to.used - from.used /\ r.freeDelta = to.free - from.free
    BY <2>1, <2>2, <2>3, <2>4, <2>5 DEF Told
  <2>7. from.used \in Int /\ to.used \in Int /\ Capacity \in Int
    <3>1. ASSUME NEW s, Shot(t, s), DOMAIN s.direct = DOMAIN t PROVE s.used \in Int
      <4>1. PICK d, D : d = s.direct /\ D = DOMAIN t
        OBVIOUS
      <4>2. d \in [D -> Int] /\ IsFiniteSet(D) /\ s.used = SumOf(d, D)
        BY <2>2, <3>1, <4>1, TreesAssumption DEF Shot
      <4> QED BY <4>2, SumInt
    <3> QED BY <2>2, <2>3, <3>1, ThresholdsAssumption
  <2>8. SumOf(x, DOMAIN x) = -r.freeDelta
    <3>1. PICK a, b, c, z, fa, fb : /\ a = from.used /\ b = to.used /\ c = Capacity
                                    /\ z = r.freeDelta /\ fa = from.free /\ fb = to.free
      OBVIOUS
    <3>2. SumOf(x, DOMAIN x) = b - a /\ z = fb - fa /\ fa = c - a /\ fb = c - b /\ a \in Int /\ b \in Int /\ c \in Int
      BY <2>3, <2>6, <2>7, <3>1
    <3>3. b - a = -z
      BY <3>2
    <3> QED BY <3>1, <3>2, <3>3
  <2> QED BY <2>1, <2>8, TotalIs
<1> QED
  BY <1>1, GrowthInductive, PTL

\* evaluate_alerts stops at the first folder of the list below the jump, and misses none.
THEOREM JumpsAreAlerted == GrowthSpec => []EveryJumpAlerted
<1>1. GrowthInv => EveryJumpAlerted
  <2> SUFFICES ASSUME GrowthInv, report # Absent
               PROVE  report.jumps = {f \in DOMAIN report.exclusive : report.exclusive[f] >= FolderJump}
    BY DEF EveryJumpAlerted
  <2>1. \A f : f \in report.jumps <=> f \in DOMAIN report.exclusive /\ report.exclusive[f] >= FolderJump
    BY DEF GrowthInv, Told
  <2> QED BY <2>1
<1> QED
  BY <1>1, GrowthInductive, PTL
=============================================================================
