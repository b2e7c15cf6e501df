---------------------------- MODULE FolderWatcher ----------------------------
(***************************************************************************)
(* monitor::FolderWatcher: one worker thread per watched folder, which     *)
(* keeps a ReadDirectoryChangesW request outstanding and notes what it     *)
(* reports; the caller's thread starts them with watch(), ends them with   *)
(* stop() and empties what they noted with drain().                        *)
(*                                                                         *)
(* The worker's event object is set by the system when a request completes *)
(* and by the stop callback.  collect() only reads and is not an action.   *)
(* Folder names, file names and times are abstracted away: a write is a    *)
(* number, and what is noted is the set of writes.                         *)
(***************************************************************************)
EXTENDS Integers, FiniteSets

CONSTANTS
  Folders,     \* folders watch() accepts, each watched once
  MaxWrites,   \* bound: writes under the folders
  BufferMax,   \* writes the system keeps between two requests (64 KiB)
  MayRefuse,   \* TRUE when the system may refuse an event or a request
  MayTimeOut,  \* TRUE when a worker may need more than five seconds to start
  None         \* no folder

ASSUME ConstantsAssumption ==
  /\ MaxWrites \in Nat
  /\ BufferMax \in Nat \ {0}
  /\ {MayRefuse, MayTimeOut} \subseteq BOOLEAN
  /\ None \notin Folders

Writes == 1..MaxWrites

VARIABLES
  \* the worker of each folder
  wpc,           \* where it is
  signal,        \* its event object: "none", "clear", "set" or "closed"
  registered,    \* its stop callback is registered
  stopRequested, \* its stop token
  armed,         \* the promise watch() waits for is fulfilled
  batch,         \* writes of the completed request it has not noted yet
  \* the system's side of each directory handle
  open,          \* the handle is open
  heard,         \* a first request was accepted: writes are kept from then on
  io,            \* the request: "none", "pending" or "done"
  buffer,        \* writes kept for the next request
  full,          \* writes were dropped: the next request completes empty
  \* the caller's thread
  cpc,           \* where it is
  current,       \* the folder it is dealing with
  workers,       \* the folders in the vector of threads
  todo,          \* those stop() has not asked to stop yet
  drainCopy,     \* what collect() gave to a running drain()
  \* shared, under the mutex
  activity,      \* writes accumulated
  \* history
  writes,        \* writes so far
  due,           \* writes the worker of each folder owes a note
  noted,         \* writes ever noted
  drained,       \* writes drain() has returned
  answered       \* folders watch() answered TRUE for within its five seconds

workerVars  == <<wpc, signal, registered, stopRequested, armed, batch>>
systemVars  == <<open, heard, io, buffer, full>>
callerVars  == <<cpc, current, workers, todo, drainCopy, drained, answered>>
noteVars    == <<activity, noted>>
historyVars == <<writes, due>>
vars == <<workerVars, systemVars, callerVars, noteVars, historyVars>>

Init ==
  /\ wpc = [w \in Folders |-> "off"]
  /\ signal = [w \in Folders |-> "none"]
  /\ registered = [w \in Folders |-> FALSE]
  /\ stopRequested = [w \in Folders |-> FALSE]
  /\ armed = [w \in Folders |-> FALSE]
  /\ batch = [w \in Folders |-> {}]
  /\ open = [w \in Folders |-> FALSE]
  /\ heard = [w \in Folders |-> FALSE]
  /\ io = [w \in Folders |-> "none"]
  /\ buffer = [w \in Folders |-> {}]
  /\ full = [w \in Folders |-> FALSE]
  /\ cpc = "idle" /\ current = None
  /\ workers = {} /\ todo = {}
  /\ drainCopy = {} /\ drained = {} /\ answered = {}
  /\ activity = {} /\ noted = {}
  /\ writes = 0
  /\ due = [w \in Folders |-> {}]

At(w, here, there) == wpc[w] = here /\ wpc' = [wpc EXCEPT ![w] = there]

-----------------------------------------------------------------------------
(* The worker thread *)

\* Mutant: the promise is fulfilled when the thread starts.
SignalCreateAnnounces(w) ==
  /\ \/ At(w, "start", "register") /\ signal' = [signal EXCEPT ![w] = "clear"]
     \/ At(w, "start", "announce_last") /\ MayRefuse /\ UNCHANGED signal
  /\ armed' = [armed EXCEPT ![w] = TRUE]
  /\ UNCHANGED <<registered, stopRequested, batch, systemVars, callerVars, noteVars,
                 historyVars>>

SignalCreate(w) ==
  /\ \/ At(w, "start", "register") /\ signal' = [signal EXCEPT ![w] = "clear"]
     \/ At(w, "start", "announce_last") /\ MayRefuse /\ UNCHANGED signal
  /\ UNCHANGED <<registered, stopRequested, armed, batch, systemVars, callerVars,
                 noteVars, historyVars>>

\* A callback registered after the request to stop runs at once.
Register(w) ==
  /\ At(w, "register", "check")
  /\ IF stopRequested[w]
       THEN signal' = [signal EXCEPT ![w] = "set"] /\ UNCHANGED registered
       ELSE registered' = [registered EXCEPT ![w] = TRUE] /\ UNCHANGED signal
  /\ UNCHANGED <<stopRequested, armed, batch, systemVars, callerVars, noteVars, historyVars>>

\* The loop condition.
Check(w) ==
  /\ At(w, "check", IF stopRequested[w] THEN "unregister" ELSE "reset")
  /\ UNCHANGED <<signal, registered, stopRequested, armed, batch, systemVars,
                 callerVars, noteVars, historyVars>>

ResetSignal(w) ==
  /\ At(w, "reset", "arm")
  /\ signal' = [signal EXCEPT ![w] = "clear"]
  /\ UNCHANGED <<registered, stopRequested, armed, batch, systemVars, callerVars,
                 noteVars, historyVars>>

\* Mutant: the event is cleared after the request is made, not before.
ArmThenReset(w) ==
  /\ \/ /\ At(w, "arm", "announce")
        /\ heard' = [heard EXCEPT ![w] = TRUE]
        /\ full' = [full EXCEPT ![w] = FALSE]
        /\ buffer' = [buffer EXCEPT ![w] = {}]
        /\ batch' = [batch EXCEPT ![w] = buffer[w]]
        /\ io' = [io EXCEPT ![w] = IF buffer[w] # {} \/ full[w] THEN "done" ELSE "pending"]
        /\ signal' = [signal EXCEPT ![w] = "clear"]
     \/ /\ At(w, "arm", "unregister") /\ MayRefuse
        /\ UNCHANGED <<heard, io, buffer, full, batch, signal>>
  /\ UNCHANGED <<registered, stopRequested, armed, open, callerVars, noteVars, historyVars>>

\* ReadDirectoryChangesW completes at once when the system has kept something.
Arm(w) ==
  /\ \/ /\ At(w, "arm", "announce")
        /\ heard' = [heard EXCEPT ![w] = TRUE]
        /\ IF buffer[w] # {} \/ full[w]
             THEN /\ io' = [io EXCEPT ![w] = "done"]
                  /\ signal' = [signal EXCEPT ![w] = "set"]
                  /\ batch' = [batch EXCEPT ![w] = buffer[w]]
                  /\ buffer' = [buffer EXCEPT ![w] = {}]
                  /\ full' = [full EXCEPT ![w] = FALSE]
             ELSE /\ io' = [io EXCEPT ![w] = "pending"]
                  /\ UNCHANGED <<signal, batch, buffer, full>>
     \/ /\ At(w, "arm", "unregister") /\ MayRefuse
        /\ UNCHANGED <<heard, io, buffer, full, batch, signal>>
  /\ UNCHANGED <<registered, stopRequested, armed, open, callerVars, noteVars, historyVars>>

Announce(w) ==
  /\ At(w, "announce", "wait")
  /\ armed' = [armed EXCEPT ![w] = TRUE]
  /\ UNCHANGED <<signal, registered, stopRequested, batch, systemVars, callerVars,
                 noteVars, historyVars>>

\* The wait ends; a request to stop cancels what is outstanding.
Wake(w) ==
  /\ signal[w] = "set"
  /\ \/ /\ stopRequested[w]
        /\ At(w, "wait", "unregister")
        /\ io' = [io EXCEPT ![w] = "none"]
     \/ /\ ~ stopRequested[w]
        /\ At(w, "wait", "result")
        /\ UNCHANGED io
  /\ UNCHANGED <<signal, registered, stopRequested, armed, batch, open, heard, buffer,
                 full, callerVars, noteVars, historyVars>>

\* A request that completed empty, or not at all, has nothing to note.
Result(w) ==
  /\ At(w, "result", IF io[w] = "done" /\ batch[w] # {} THEN "note" ELSE "check")
  /\ io' = [io EXCEPT ![w] = IF @ = "done" THEN "none" ELSE @]
  /\ UNCHANGED <<signal, registered, stopRequested, armed, batch, open, heard, buffer,
                 full, callerVars, noteVars, historyVars>>

\* note(): one write, under the mutex.
Note(w) ==
  /\ \E n \in batch[w] :
       /\ At(w, "note", IF batch[w] = {n} THEN "check" ELSE "note")
       /\ batch' = [batch EXCEPT ![w] = @ \ {n}]
       /\ activity' = activity \cup {n}
       /\ noted' = noted \cup {n}
  /\ UNCHANGED <<signal, registered, stopRequested, armed, systemVars, callerVars, historyVars>>

\* Mutant: the event is declared after the callback, and so destroyed before it.
UnregisterLate(w) ==
  /\ At(w, "unregister", "close")
  /\ signal' = [signal EXCEPT ![w] = "closed"]
  /\ UNCHANGED <<registered, stopRequested, armed, batch, systemVars, callerVars,
                 noteVars, historyVars>>

(* The worker leaves: its locals are destroyed in the reverse order.  The    *)
(* destructor of the stop callback waits for a call of it that is running.   *)
Unregister(w) ==
  /\ ~ (cpc = "callback" /\ current = w)
  /\ At(w, "unregister", "close")
  /\ registered' = [registered EXCEPT ![w] = FALSE]
  /\ UNCHANGED <<signal, stopRequested, armed, batch, systemVars, callerVars, noteVars,
                 historyVars>>

CloseSignal(w) ==
  /\ At(w, "close", "announce_last")
  /\ signal' = [signal EXCEPT ![w] = "closed"]
  /\ UNCHANGED <<registered, stopRequested, armed, batch, systemVars, callerVars,
                 noteVars, historyVars>>

\* ~Announce
AnnounceLast(w) ==
  /\ At(w, "announce_last", "done")
  /\ armed' = [armed EXCEPT ![w] = TRUE]
  /\ UNCHANGED <<signal, registered, stopRequested, batch, systemVars, callerVars,
                 noteVars, historyVars>>

WorkerStep(w) ==
  \/ SignalCreate(w) \/ Register(w) \/ Check(w) \/ ResetSignal(w) \/ Arm(w)
  \/ Announce(w) \/ Wake(w) \/ Result(w) \/ Note(w)
  \/ Unregister(w) \/ CloseSignal(w) \/ AnnounceLast(w)

Leaving(w) == wpc[w] \in {"unregister", "close", "announce_last", "done"}

-----------------------------------------------------------------------------
(* The caller's thread *)

\* The folder exists and its handle could be opened (FALSE otherwise).
Watch(w) ==
  /\ cpc = "idle"
  /\ cpc' = "watching" /\ current' = w
  /\ At(w, "off", "start")
  /\ open' = [open EXCEPT ![w] = TRUE]
  /\ workers' = workers \cup {w}
  /\ UNCHANGED <<signal, registered, stopRequested, armed, batch, heard, io, buffer,
                 full, todo, drainCopy, drained, answered, noteVars, historyVars>>

WatchEnds ==
  /\ cpc = "watching"
  /\ cpc' = "idle" /\ current' = None
  /\ UNCHANGED <<workerVars, systemVars, workers, todo, drainCopy, drained, noteVars,
                 historyVars>>

\* watch() answers TRUE when the promise is fulfilled or after five seconds.
WatchArmed   == current # None /\ armed[current] /\ WatchEnds /\ answered' = answered \cup {current}
WatchTimeout == MayTimeOut /\ WatchEnds /\ UNCHANGED answered

StopBegin ==
  /\ cpc = "idle" /\ workers # {}
  /\ cpc' = "stopping" /\ todo' = workers
  /\ UNCHANGED <<workerVars, systemVars, current, workers, drainCopy, drained, answered,
                 noteVars, historyVars>>

\* request_stop() sets the flag and takes the callback, if there is one, to call it.
StopRequest(w) ==
  /\ cpc = "stopping" /\ w \in todo
  /\ stopRequested' = [stopRequested EXCEPT ![w] = TRUE]
  /\ todo' = todo \ {w}
  /\ IF registered[w]
       THEN /\ cpc' = "callback" /\ current' = w
            /\ registered' = [registered EXCEPT ![w] = FALSE]
       ELSE UNCHANGED <<cpc, current, registered>>
  /\ UNCHANGED <<wpc, signal, armed, batch, systemVars, workers, drainCopy, drained,
                 answered, noteVars, historyVars>>

StopCallback ==
  /\ cpc = "callback"
  /\ signal' = [signal EXCEPT ![current] = "set"]
  /\ cpc' = "stopping" /\ current' = None
  /\ UNCHANGED <<wpc, registered, stopRequested, armed, batch, systemVars, workers, todo,
                 drainCopy, drained, answered, noteVars, historyVars>>

\* Mutant: the threads are detached instead of joined.
StopDetach ==
  /\ cpc = "stopping" /\ todo = {}
  /\ workers' = {} /\ cpc' = "idle"
  /\ open' = [w \in Folders |-> open[w] /\ w \notin workers]
  /\ io' = [w \in Folders |-> IF w \in workers THEN "none" ELSE io[w]]
  /\ UNCHANGED <<workerVars, heard, buffer, full, current, todo, drainCopy, drained,
                 answered, noteVars, historyVars>>

\* The vector of threads is emptied, which joins each; then the handles close,
\* and with a handle goes what is outstanding on it.
StopJoin ==
  /\ cpc = "stopping" /\ todo = {}
  /\ \A w \in workers : wpc[w] = "done"
  /\ workers' = {} /\ cpc' = "idle"
  /\ open' = [w \in Folders |-> open[w] /\ w \notin workers]
  /\ io' = [w \in Folders |-> IF w \in workers THEN "none" ELSE io[w]]
  /\ UNCHANGED <<workerVars, heard, buffer, full, current, todo, drainCopy, drained,
                 answered, noteVars, historyVars>>

\* drain(): collect() under the mutex, then clear() under the mutex again.
DrainCollect ==
  /\ cpc = "idle"
  /\ cpc' = "draining" /\ drainCopy' = activity
  /\ UNCHANGED <<workerVars, systemVars, current, workers, todo, drained, answered,
                 noteVars, historyVars>>

DrainClear ==
  /\ cpc = "draining"
  /\ cpc' = "idle" /\ drainCopy' = {}
  /\ drained' = drained \cup drainCopy
  /\ activity' = {}
  /\ UNCHANGED <<workerVars, systemVars, current, workers, todo, answered, noted,
                 historyVars>>

CallerStep ==
  WatchArmed \/ (\E w \in Folders : StopRequest(w)) \/ StopCallback \/ StopJoin \/ DrainClear

-----------------------------------------------------------------------------
(* The world: a program writes under a folder.  The system completes the     *)
(* pending request, or keeps the write for the next one, or finds its buffer *)
(* full and drops all it kept.                                               *)
ProgramWrites(w) ==
  /\ writes < MaxWrites
  /\ writes' = writes + 1
  /\ LET n       == writes + 1
         isOwed  == w \in answered /\ ~ stopRequested[w] /\ ~ Leaving(w)
         dropped == IF heard[w] /\ io[w] # "pending" /\ Cardinality(buffer[w]) = BufferMax
                      THEN buffer[w] \cup {n} ELSE {}
     IN  /\ \/ /\ io[w] = "pending"
               /\ io' = [io EXCEPT ![w] = "done"]
               /\ signal' = [signal EXCEPT ![w] = "set"]
               /\ batch' = [batch EXCEPT ![w] = {n}]
               /\ UNCHANGED <<buffer, full>>
            \/ /\ open[w] /\ heard[w] /\ io[w] # "pending"
               /\ buffer' = [buffer EXCEPT ![w] = (@ \cup {n}) \ dropped]
               /\ full' = [full EXCEPT ![w] = @ \/ dropped # {}]
               /\ UNCHANGED <<io, signal, batch>>
            \/ /\ ~ (open[w] /\ heard[w])
               /\ UNCHANGED <<io, signal, batch, buffer, full>>
         /\ due' = [due EXCEPT ![w] =
                      (IF isOwed THEN @ \cup {n} ELSE @) \ dropped]
  /\ UNCHANGED <<wpc, registered, stopRequested, armed, open, heard, callerVars, noteVars>>

Next ==
  \/ \E w \in Folders : WorkerStep(w) \/ Watch(w) \/ ProgramWrites(w)
  \/ CallerStep \/ WatchTimeout \/ StopBegin \/ DrainCollect

Spec == Init /\ [][Next]_vars

\* The threads are scheduled.  Nobody has to call watch(), stop() or drain(), no
\* program has to write, and the five seconds need never pass.
Fairness ==
  /\ \A w \in Folders : WF_vars(WorkerStep(w))
  /\ WF_vars(CallerStep)

FairSpec == Spec /\ Fairness

-----------------------------------------------------------------------------
TypeOK ==
  /\ wpc \in [Folders -> {"off", "start", "register", "check", "reset", "arm", "announce",
                          "wait", "result", "note", "unregister", "close",
                          "announce_last", "done"}]
  /\ signal \in [Folders -> {"none", "clear", "set", "closed"}]
  /\ registered \in [Folders -> BOOLEAN] /\ stopRequested \in [Folders -> BOOLEAN]
  /\ armed \in [Folders -> BOOLEAN] /\ open \in [Folders -> BOOLEAN]
  /\ heard \in [Folders -> BOOLEAN] /\ full \in [Folders -> BOOLEAN]
  /\ io \in [Folders -> {"none", "pending", "done"}]
  /\ batch \in [Folders -> SUBSET Writes] /\ buffer \in [Folders -> SUBSET Writes]
  /\ due \in [Folders -> SUBSET Writes]
  /\ cpc \in {"idle", "watching", "stopping", "callback", "draining"}
  /\ current \in Folders \cup {None}
  /\ (current # None) <=> (cpc \in {"watching", "callback"})
  /\ workers \subseteq Folders /\ todo \subseteq workers /\ answered \subseteq Folders
  /\ {activity, noted, drained, drainCopy} \subseteq SUBSET Writes
  /\ writes \in 0..MaxWrites

\* "a partir daqui nenhuma escrita se perde" (the comment on announce()): a write
\* made after watch() answered is noted or on its way to be, as long as the
\* worker runs and the system's buffer did not overflow.
EveryWriteNoted ==
  \A w \in Folders :
    ~ Leaving(w) /\ ~ stopRequested[w] => due[w] \subseteq buffer[w] \cup batch[w] \cup noted

\* The stop callback sets an event that is still open, whichever of stop() and the
\* end of the worker comes first.
CallbackFindsEvent == cpc = "callback" => signal[current] \in {"clear", "set"}

\* Once stop() has returned no worker runs, no request is outstanding and no
\* handle is open: the watcher may be destroyed.
StopLeavesNothing ==
  cpc = "idle" =>
    \A w \in Folders \ workers : /\ wpc[w] \in {"off", "done"}
                                 /\ ~ open[w]
                                 /\ io[w] = "none"

\* drain() empties what it returns: no write is in two of its answers.
DrainedOnce ==
  cpc = "idle" => activity \cap drained = {}

\* A write that is owed a note gets it without another write having to happen.
NotedInTheEnd ==
  \A w \in Folders : \A n \in Writes :
    n \in due[w] ~> (n \in noted \/ n \notin due[w] \/ Leaving(w))

\* A worker asked to stop with something to read leaves: at worst stop() waits for
\* the next write.
StopEndsAtNextWrite ==
  \A w \in Folders :
    (stopRequested[w] /\ (buffer[w] \cup batch[w] # {})) ~> wpc[w] = "done"

\* "O aviso de parada precisa acordar a espera; sem ele, fechar o aplicativo
\* ficaria preso ate a proxima escrita em disco acontecer": stop() returns.
StopReturns == cpc = "stopping" ~> cpc = "idle"

\* "Devolve falso quando o sistema recusa" (the comment on watch): a folder watch()
\* answered TRUE for is watched until stop() is called.
AnsweredIsWatched ==
  \A w \in answered : ~ stopRequested[w] => heard[w]

\* "Esvazia o acumulado" (the comment on drain): what was noted is still
\* accumulated or was returned.
DrainReturnsAll == noted \subseteq activity \cup drainCopy \cup drained
=============================================================================
