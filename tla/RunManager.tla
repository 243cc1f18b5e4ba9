---------------------------- MODULE RunManager ----------------------------
(***************************************************************************)
(* Runs from the request that starts them to the end of their process:     *)
(* RunsService and RunManager.  A start is an HTTP thread that saves the   *)
(* run, looks up the build, spawns bash on executeWorkflow and puts the    *)
(* child in processes.  A stop is an HTTP thread that holds processesMutex *)
(* while it writes to MongoDB.  The ends of processes are handled one by   *)
(* one on the only thread of RunManager.  Any of them may be cut short by  *)
(* the end of the whole proxy, which docker starts again with what MongoDB *)
(* kept; bash and its devices live in the same container and end with it.  *)
(***************************************************************************)
EXTENDS Naturals, FiniteSets, RunRepository

CONSTANTS StopRequest,      \* requests to stop a run, one HTTP thread each
          MaxFailures,      \* bound: database operations that fail
          MaxCrashes        \* bound: ends of the whole proxy

ASSUME BoundsAssumption == {MaxFailures, MaxCrashes} \subseteq Nat

VARIABLES startPc,          \* where the request that starts r is
          process,          \* what the operating system knows of r's process
          code,             \* its exit code, "none" before it ends
          processes,        \* keys of the map of children
          exiting,          \* the run whose on_exit handler is past remove()
          stopPc,           \* where each stop request is
          stopOf,           \* the run it stops
          lockedBy,         \* stop requests that hold processesMutex
          told,             \* runs whose listed devices were told to end
          failures,         \* database operations that failed so far
          crashes           \* ends of the proxy so far

startVars == <<startPc, process, code>>
stopVars == <<stopPc, stopOf, lockedBy, told>>
vars == <<runStatus, startPc, process, code, processes, exiting, stopPc, stopOf,
          lockedBy, told, failures, crashes>>

StartState == {"idle", "getBuild", "spawn", "insert", "started",   \* on its way
               "notSaved", "noBuild", "notSpawned", "cut"}         \* answered 500

StopState == {"idle", "lock", "update", "terminate", "done", "failed", "cut"}

TypeOK ==
    /\ RunStatusType
    /\ startPc \in [Run -> StartState]
    /\ process \in [Run -> {"none", "alive", "exited", "over"}]
    /\ code \in [Run -> {"none", "zero", "other"}]
    /\ processes \in SUBSET Run
    /\ exiting \in SUBSET Run
    /\ stopPc \in [StopRequest -> StopState]
    /\ stopOf \in [StopRequest -> Run \cup {"none"}]
    /\ \A q \in StopRequest : stopPc[q] # "idle" => stopOf[q] \in Run
    /\ lockedBy \in SUBSET StopRequest
    /\ told \in SUBSET Run
    /\ failures \in Nat
    /\ crashes \in Nat

Init ==
    /\ runStatus = [r \in Run |-> "none"]
    /\ startPc = [r \in Run |-> "idle"]
    /\ process = [r \in Run |-> "none"]
    /\ code = [r \in Run |-> "none"]
    /\ processes = {}
    /\ exiting = {}
    /\ stopPc = [q \in StopRequest |-> "idle"]
    /\ stopOf = [q \in StopRequest |-> "none"]
    /\ lockedBy = {}
    /\ told = {}
    /\ failures = 0
    /\ crashes = 0

-----------------------------------------------------------------------------
Fail ==
    /\ failures < MaxFailures
    /\ failures' = failures + 1

\* Fault: every function locks a mutex of its own.
FaultyMutexFree == TRUE

MutexFree == lockedBy = {}

StartGoto(r, state) == startPc' = [startPc EXCEPT ![r] = state]

StopGoto(q, state) == stopPc' = [stopPc EXCEPT ![q] = state]

(* RunsService::start. *)

\* runRepository.save makes the identifier; RunNotSaved ends the request.
StartRun(r) ==
    /\ startPc[r] = "idle"
    /\ \/ /\ SaveRun(r)
          /\ StartGoto(r, "getBuild")
          /\ UNCHANGED failures
       \/ /\ Fail
          /\ StartGoto(r, "notSaved")
          /\ UNCHANGED runStatus
    /\ UNCHANGED <<process, code, processes, exiting, stopVars, crashes>>

\* buildRepository.get throws when there is no such build, or no database.
\* The document of the run stays.
GetBuild(r) ==
    /\ startPc[r] = "getBuild"
    /\ \E found \in {"spawn", "noBuild"} : StartGoto(r, found)
    /\ UNCHANGED <<runStatus, process, code, processes, exiting, stopVars, failures, crashes>>

\* RunManager::start spawns bash, or throws process_error.
Spawn(r) ==
    /\ startPc[r] = "spawn"
    /\ \/ /\ process' = [process EXCEPT ![r] = "alive"]
          /\ StartGoto(r, "insert")
       \/ /\ StartGoto(r, "notSpawned")
          /\ UNCHANGED process
    /\ UNCHANGED <<runStatus, code, processes, exiting, stopVars, failures, crashes>>

\* Fault: start() also sets RUNNING, when the process may be over.
FaultyInsertProcess(r) ==
    /\ startPc[r] = "insert"
    /\ MutexFree
    /\ processes' = processes \cup {r}
    /\ UpdateStatus(r, "RUNNING")
    /\ StartGoto(r, "started")
    /\ UNCHANGED <<process, code, exiting, stopVars, failures, crashes>>

\* processes[run.id] = process, under the mutex.
InsertProcess(r) ==
    /\ startPc[r] = "insert"
    /\ MutexFree
    /\ processes' = processes \cup {r}
    /\ StartGoto(r, "started")
    /\ UNCHANGED <<runStatus, process, code, exiting, stopVars, failures, crashes>>

-----------------------------------------------------------------------------
(* The process and its on_exit handler.                                    *)

ProcessExit(r) ==
    /\ process[r] = "alive"
    /\ process' = [process EXCEPT ![r] = "exited"]
    /\ \E c \in {"zero", "other"} : code' = [code EXCEPT ![r] = c]
    /\ UNCHANGED <<runStatus, startPc, processes, exiting, stopVars, failures, crashes>>

\* Everything in memory is gone: the map, the mutex, the requests under way
\* and, with the container, the processes.  The documents stay.
Crash ==
    /\ crashes' = crashes + 1
    /\ processes' = {}
    /\ exiting' = {}
    /\ lockedBy' = {}
    /\ process' = [r \in Run |-> IF process[r] = "none" THEN "none" ELSE "over"]
    /\ startPc' = [r \in Run |-> IF startPc[r] \in {"getBuild", "spawn", "insert"}
                                 THEN "cut" ELSE startPc[r]]
    /\ stopPc' = [q \in StopRequest |-> IF stopPc[q] \in {"lock", "update", "terminate"}
                                        THEN "cut" ELSE stopPc[q]]
    /\ UNCHANGED <<runStatus, code, stopOf, told>>

\* Fault: two threads run the handlers.
FaultyHandlerIdle == TRUE

HandlerIdle == exiting = {}

\* Fault: remove() forgets to erase.
FaultyRemove(r) ==
    /\ process[r] = "exited"
    /\ HandlerIdle
    /\ MutexFree
    /\ r \in processes
    /\ exiting' = exiting \cup {r}
    /\ UNCHANGED <<runStatus, startVars, processes, stopVars, failures, crashes>>

\* remove(): join, delete and erase the child under the mutex.
Remove(r) ==
    /\ process[r] = "exited"
    /\ HandlerIdle
    /\ MutexFree
    /\ r \in processes
    /\ processes' = processes \ {r}
    /\ exiting' = exiting \cup {r}
    /\ UNCHANGED <<runStatus, startVars, stopVars, failures, crashes>>

\* remove() before start() filled the map: processes[runId] is null, and its
\* join() ends the program.
RemoveTooEarly(r) ==
    /\ process[r] = "exited"
    /\ HandlerIdle
    /\ MutexFree
    /\ r \notin processes
    /\ crashes < MaxCrashes
    /\ Crash
    /\ UNCHANGED failures

\* Fault: the two statuses are swapped.
FaultyExitStatus(r) == IF code[r] = "zero" THEN "FAILED" ELSE "FINISHED"

\* Fault: only errors are recorded.
FaultyErrorStatus(r) == IF code[r] = "zero" THEN runStatus[r] ELSE "FAILED"

ExitStatus(r) == IF code[r] = "zero" THEN "FINISHED" ELSE "FAILED"

\* updateStatus with the exit code.
RecordExit(r) ==
    /\ r \in exiting
    /\ UpdateStatus(r, ExitStatus(r))
    /\ exiting' = exiting \ {r}
    /\ process' = [process EXCEPT ![r] = "over"]
    /\ UNCHANGED <<startPc, code, processes, stopVars, failures, crashes>>

\* RunNotSaved leaves the handler and the thread: std::terminate.
RecordExitFails(r) ==
    /\ r \in exiting
    /\ Fail
    /\ crashes < MaxCrashes
    /\ Crash

\* The proxy ends for a reason outside of this code.
Killed ==
    /\ crashes < MaxCrashes
    /\ Crash
    /\ UNCHANGED failures

-----------------------------------------------------------------------------
(* RunManager::stop.                                                       *)

\* The request arrives, for any run there is or will be.
StopRun(q, r) ==
    /\ stopPc[q] = "idle"
    /\ StopGoto(q, "lock")
    /\ stopOf' = [stopOf EXCEPT ![q] = r]
    /\ UNCHANGED <<runStatus, startVars, processes, exiting, lockedBy, told, failures, crashes>>

StopLock(q) ==
    /\ stopPc[q] = "lock"
    /\ MutexFree
    /\ lockedBy' = {q}
    /\ StopGoto(q, "update")
    /\ UNCHANGED <<runStatus, startVars, processes, exiting, stopOf, told, failures, crashes>>

\* updateStatus(FINISHED); RunNotSaved leaves stop() with the mutex locked.
StopUpdate(q) ==
    /\ stopPc[q] = "update"
    /\ \/ /\ UpdateStatus(stopOf[q], "FINISHED")
          /\ StopGoto(q, "terminate")
          /\ UNCHANGED failures
       \/ /\ Fail
          /\ StopGoto(q, "failed")
          /\ UNCHANGED runStatus
    /\ UNCHANGED <<startVars, processes, exiting, stopOf, lockedBy, told, crashes>>

\* Fault: stop() returns with the mutex locked.
FaultyStopTerminate(q) ==
    /\ stopPc[q] = "terminate"
    /\ told' = told \cup {stopOf[q]}
    /\ StopGoto(q, "done")
    /\ UNCHANGED <<runStatus, startVars, processes, exiting, stopOf, lockedBy, failures, crashes>>

\* devicesRepository.terminate, and the mutex is released.
StopTerminate(q) ==
    /\ stopPc[q] = "terminate"
    /\ told' = told \cup {stopOf[q]}
    /\ lockedBy' = {}
    /\ StopGoto(q, "done")
    /\ UNCHANGED <<runStatus, startVars, processes, exiting, stopOf, failures, crashes>>

-----------------------------------------------------------------------------
\* A device of the run registers with SocketManagerService.  It is a child of
\* the process, but its first message may be read after the process ended.
DeviceRegisters(r) ==
    /\ process[r] # "none"
    /\ UpdateStatus(r, "RUNNING")
    /\ UNCHANGED <<startVars, processes, exiting, stopVars, failures, crashes>>

Start(r) == StartRun(r) \/ GetBuild(r) \/ Spawn(r) \/ InsertProcess(r)

OnExit(r) == Remove(r) \/ RemoveTooEarly(r) \/ RecordExit(r) \/ RecordExitFails(r)

Stop(q) == StopLock(q) \/ StopUpdate(q) \/ StopTerminate(q)

Next ==
    \/ \E r \in Run : Start(r) \/ ProcessExit(r) \/ OnExit(r) \/ DeviceRegisters(r)
    \/ \E q \in StopRequest : Stop(q) \/ \E r \in Run : StopRun(q, r)
    \/ Killed

Spec == Init /\ [][Next]_vars

\* Threads go on.  A thread that waits for the mutex gets it when nobody holds
\* it any more: the requests that compete for it are finite.
Fairness ==
    /\ \A r \in Run : /\ WF_vars(startPc[r] # "idle" /\ Start(r))
                      /\ WF_vars(OnExit(r))
    /\ \A q \in StopRequest : WF_vars(Stop(q))

FairSpec == Spec /\ Fairness

-----------------------------------------------------------------------------
(* Properties.                                                             *)

\* The map holds the children that were started here and not yet reaped: none
\* is deleted twice, none is forgotten, and the null entry that remove() could
\* create never stays in it.
ProcessesAreTracked ==
    processes = {r \in Run : /\ startPc[r] = "started"
                             /\ process[r] \in {"alive", "exited"}
                             /\ r \notin exiting}

\* The mutex is held by one stop request at work, or lost for good by one
\* whose update of the status was refused.
MutexIsHeldByStop ==
    /\ \A q \in lockedBy :
        /\ lockedBy = {q}
        /\ stopPc[q] \in {"update", "terminate", "failed"}
    /\ \A q \in StopRequest : stopPc[q] \in {"update", "terminate"} => q \in lockedBy

LostMutex == \E q \in lockedBy : stopPc[q] = "failed"

\* The status of a run says what happened to it: FAILED, that its process
\* ended with an error; FINISHED, that it ended without one or that a stop was
\* asked for; RUNNING, that a process was spawned for it; and a run without a
\* document never had a process.
StatusIsExplained ==
    \A r \in Run :
        /\ runStatus[r] = "FAILED" => code[r] = "other"
        /\ runStatus[r] = "FINISHED" =>
            \/ code[r] = "zero"
            \/ \E q \in StopRequest : stopOf[q] = r /\ stopPc[q] \in {"terminate", "done", "cut"}
        /\ runStatus[r] = "RUNNING" => process[r] # "none"
        /\ runStatus[r] = "none" => process[r] = "none"

\* A run that shows STARTING is being started, or has a process whose end is
\* still to be recorded, or is an orphan: its build or its shell was missing,
\* or the proxy ended in between.
StartingIsAccounted ==
    \A r \in Run : runStatus[r] = "STARTING" =>
        \/ startPc[r] \in {"getBuild", "spawn", "noBuild", "notSpawned"}
        \/ process[r] \in {"alive", "exited"}
        \/ crashes > 0

\* An on_exit handler between remove() and updateStatus() works on a process
\* that ended and whose child is no longer in the map, one at a time.
ExitHandlerIsAlone ==
    \A r \in exiting :
        /\ exiting = {r}
        /\ process[r] = "exited"
        /\ startPc[r] = "started"
        /\ r \notin processes

\* Only a device that registers late takes a run out of FINISHED or FAILED to
\* RUNNING, and a FAILED run becomes FINISHED only when somebody stops it.
TerminalIsLeftByRegistration ==
    [][\A r \in Run :
        /\ runStatus[r] \in Terminal /\ runStatus'[r] = "RUNNING" => DeviceRegisters(r)
        /\ runStatus[r] = "FAILED" /\ runStatus'[r] = "FINISHED"
            => \E q \in StopRequest : stopOf[q] = r /\ stopPc[q] = "update"
        /\ runStatus[r] # "none" /\ runStatus'[r] # runStatus[r]
            => runStatus'[r] \notin {"none", "STARTING"}]_vars

\* The end of a process reaches the database, unless the proxy ends first or a
\* refused update keeps the mutex.
ExitIsRecorded ==
    \A r \in Run : process[r] = "exited"
        ~> \/ process[r] = "over" /\ runStatus[r] \in Terminal
           \/ crashes > 0
           \/ LostMutex

\* Every request that starts or stops a run is answered, unless a refused
\* update keeps the mutex.
RequestsAreAnswered ==
    /\ \A r \in Run : startPc[r] \in {"getBuild", "spawn", "insert"}
        ~> startPc[r] \in {"started", "noBuild", "notSpawned", "cut"} \/ LostMutex
    /\ \A q \in StopRequest : stopPc[q] = "lock"
        ~> stopPc[q] \in {"done", "failed", "cut"} \/ LostMutex

=============================================================================
