------------------------- MODULE RunManagerProofs -------------------------
(***************************************************************************)
(* Safety of RunManager for any runs, any requests and any bounds.         *)
(***************************************************************************)
EXTENDS RunManager, TLAPS

USE DEF StartGoto, StopGoto, MutexFree, HandlerIdle, Fail

\* All that a crash does to the state, for the proofs of every invariant.
LEMMA CrashType ==
    ASSUME TypeOK, Crash
    PROVE  /\ runStatus' = runStatus
           /\ processes' = {} /\ exiting' = {} /\ lockedBy' = {}
           /\ process' \in [Run -> {"none", "over"}]
           /\ startPc' \in [Run -> StartState \ {"getBuild", "spawn", "insert"}]
           /\ stopPc' \in [StopRequest -> StopState \ {"lock", "update", "terminate"}]
           /\ \A q \in StopRequest : stopPc'[q] = "idle" <=> stopPc[q] = "idle"
           /\ UNCHANGED <<code, stopOf, told>>
           /\ crashes' = crashes + 1
BY DEF TypeOK, Crash, StartState, StopState

\* Every variable keeps its type.
THEOREM TypeCorrect == Spec => []TypeOK
<1>1. Init => TypeOK
    BY DEF Init, TypeOK, RunStatusType, Status, StartState, StopState
<1>2. TypeOK /\ [Next]_vars => TypeOK'
    <2> SUFFICES ASSUME TypeOK, [Next]_vars PROVE TypeOK'
        OBVIOUS
    <2> USE DEF TypeOK, RunStatusType, Status, StartState, StopState
    <2>1. ASSUME NEW r \in Run, Start(r) PROVE TypeOK'
        BY <2>1 DEF Start, StartRun, GetBuild, Spawn, InsertProcess, SaveRun, stopVars
    <2>2. ASSUME NEW r \in Run, ProcessExit(r) PROVE TypeOK'
        BY <2>2 DEF ProcessExit, stopVars
    <2>3. ASSUME NEW r \in Run, Remove(r) PROVE TypeOK'
        BY <2>3 DEF Remove, startVars, stopVars
    <2>4. ASSUME NEW r \in Run, RemoveTooEarly(r) PROVE TypeOK'
        BY <2>4, CrashType DEF RemoveTooEarly
    <2>5. ASSUME NEW r \in Run, RecordExit(r) PROVE TypeOK'
        BY <2>5 DEF RecordExit, ExitStatus, UpdateStatus, stopVars
    <2>6. ASSUME NEW r \in Run, RecordExitFails(r) PROVE TypeOK'
        BY <2>6, CrashType DEF RecordExitFails
    <2>7. ASSUME NEW r \in Run, DeviceRegisters(r) PROVE TypeOK'
        BY <2>7 DEF DeviceRegisters, UpdateStatus, startVars, stopVars
    <2>8. ASSUME NEW q \in StopRequest, NEW r \in Run, StopRun(q, r) PROVE TypeOK'
        BY <2>8 DEF StopRun, startVars
    <2>9. ASSUME NEW q \in StopRequest, StopLock(q) PROVE TypeOK'
        BY <2>9 DEF StopLock, startVars
    <2>10. ASSUME NEW q \in StopRequest, StopUpdate(q) PROVE TypeOK'
        BY <2>10 DEF StopUpdate, UpdateStatus, startVars
    <2>11. ASSUME NEW q \in StopRequest, StopTerminate(q) PROVE TypeOK'
        BY <2>11 DEF StopTerminate, startVars
    <2>12. CASE Killed
        BY <2>12, CrashType DEF Killed
    <2>13. CASE UNCHANGED vars
        BY <2>13 DEF vars
    <2> QED
        BY <2>1, <2>2, <2>3, <2>4, <2>5, <2>6, <2>7, <2>8, <2>9, <2>10, <2>11, <2>12, <2>13
        DEF Next, OnExit, Stop
<1> QED
    BY <1>1, <1>2, PTL DEF Spec

-----------------------------------------------------------------------------
\* What a start leaves behind on its way: its document, then its process.
StartIsOrdered ==
    \A r \in Run :
        /\ runStatus[r] = "none" <=> startPc[r] \in {"idle", "notSaved"}
        /\ startPc[r] = "insert" => process[r] \in {"alive", "exited"}
        /\ startPc[r] = "started" => process[r] # "none"
        /\ startPc[r] \in {"idle", "getBuild", "spawn", "notSaved", "noBuild", "notSpawned"}
            => process[r] = "none"
        /\ process[r] \in {"alive", "exited"} => startPc[r] \in {"insert", "started"}
        /\ process[r] \in {"none", "alive"} => code[r] = "none"
        /\ process[r] = "exited" => code[r] # "none"

IInv ==
    /\ TypeOK
    /\ StartIsOrdered
    /\ ProcessesAreTracked
    /\ ExitHandlerIsAlone
    /\ MutexIsHeldByStop
    /\ StatusIsExplained
    /\ StartingIsAccounted

\* A crash empties the map and ends the handlers, so nothing is left to track.
LEMMA CrashKeeps ==
    ASSUME IInv, Crash, TypeOK'
    PROVE  IInv'
<1>1. /\ runStatus' = runStatus /\ code' = code /\ stopOf' = stopOf
      /\ processes' = {} /\ exiting' = {} /\ lockedBy' = {}
      /\ crashes' = crashes + 1 /\ crashes \in Nat
    BY CrashType DEF IInv, TypeOK
<1>2. \A r \in Run : process'[r] = IF process[r] = "none" THEN "none" ELSE "over"
    BY DEF Crash
<1>3. \A r \in Run : startPc'[r] = IF startPc[r] \in {"getBuild", "spawn", "insert"}
                                   THEN "cut" ELSE startPc[r]
    BY DEF Crash
<1>4. \A q \in StopRequest : stopPc'[q] = IF stopPc[q] \in {"lock", "update", "terminate"}
                                          THEN "cut" ELSE stopPc[q]
    BY DEF Crash
<1>5. StartIsOrdered'
    BY <1>1, <1>2, <1>3 DEF IInv, StartIsOrdered
<1>6. ProcessesAreTracked' /\ ExitHandlerIsAlone' /\ MutexIsHeldByStop'
    BY <1>1, <1>2, <1>4 DEF ProcessesAreTracked, ExitHandlerIsAlone, MutexIsHeldByStop
<1>7. StatusIsExplained'
    BY <1>1, <1>2, <1>4 DEF IInv, StatusIsExplained
<1>8. StartingIsAccounted'
    BY <1>1 DEF StartingIsAccounted
<1> QED
    BY <1>5, <1>6, <1>7, <1>8 DEF IInv

\* The invariant is inductive.
LEMMA Inductive == IInv /\ [Next]_vars /\ TypeOK' => IInv'
<1> SUFFICES ASSUME IInv, [Next]_vars, TypeOK' PROVE IInv'
    OBVIOUS
<1> USE DEF IInv, TypeOK, RunStatusType, Status, Terminal, StartState, StopState,
            StartIsOrdered, ProcessesAreTracked, ExitHandlerIsAlone,
            MutexIsHeldByStop, StatusIsExplained, StartingIsAccounted
<1>1. ASSUME NEW r \in Run, StartRun(r) PROVE IInv'
    BY <1>1 DEF StartRun, SaveRun, stopVars
<1>2. ASSUME NEW r \in Run, GetBuild(r) PROVE IInv'
    BY <1>2 DEF GetBuild, stopVars
<1>3. ASSUME NEW r \in Run, Spawn(r) PROVE IInv'
    BY <1>3 DEF Spawn, stopVars
<1>4. ASSUME NEW r \in Run, InsertProcess(r) PROVE IInv'
    <2>1. /\ UNCHANGED <<runStatus, process, code, exiting, crashes, stopVars>>
          /\ startPc[r] = "insert" /\ startPc' = [startPc EXCEPT ![r] = "started"]
          /\ processes' = processes \cup {r}
        BY <1>4 DEF InsertProcess
    <2>2. process[r] \in {"alive", "exited"} /\ r \notin exiting
        BY <2>1
    <2>3. StartIsOrdered' /\ MutexIsHeldByStop' /\ ExitHandlerIsAlone'
        BY <2>1, <2>2 DEF stopVars
    <2>4. StatusIsExplained'
        BY <2>1, <2>2 DEF stopVars
    <2>5. ProcessesAreTracked'
        BY <2>1, <2>2, <2>3
    <2>6. StartingIsAccounted'
        BY <2>1, <2>2
    <2> QED
        BY <2>3, <2>4, <2>5, <2>6
<1>5. ASSUME NEW r \in Run, ProcessExit(r) PROVE IInv'
    BY <1>5 DEF ProcessExit, stopVars
<1>6. ASSUME NEW r \in Run, Remove(r) PROVE IInv'
    BY <1>6 DEF Remove, startVars, stopVars
<1>7. ASSUME NEW r \in Run, RemoveTooEarly(r) PROVE IInv'
    BY <1>7, CrashKeeps DEF RemoveTooEarly
<1>8. ASSUME NEW r \in Run, RecordExit(r) PROVE IInv'
    BY <1>8 DEF RecordExit, ExitStatus, UpdateStatus, stopVars
<1>9. ASSUME NEW r \in Run, RecordExitFails(r) PROVE IInv'
    BY <1>9, CrashKeeps DEF RecordExitFails
<1>10. ASSUME NEW r \in Run, DeviceRegisters(r) PROVE IInv'
    BY <1>10 DEF DeviceRegisters, UpdateStatus, startVars, stopVars
<1>11. ASSUME NEW q \in StopRequest, NEW r \in Run, StopRun(q, r) PROVE IInv'
    BY <1>11 DEF StopRun, startVars
<1>12. ASSUME NEW q \in StopRequest, StopLock(q) PROVE IInv'
    BY <1>12 DEF StopLock, startVars
<1>13. ASSUME NEW q \in StopRequest, StopUpdate(q) PROVE IInv'
    <2>1. /\ UNCHANGED <<startPc, process, code, processes, exiting, stopOf, lockedBy, told, crashes>>
          /\ stopPc[q] = "update" /\ stopOf[q] \in Run
          /\ \A p \in StopRequest \ {q} : stopPc'[p] = stopPc[p]
        BY <1>13 DEF StopUpdate, startVars
    <2>2. \/ stopPc'[q] = "terminate" /\ UpdateStatus(stopOf[q], "FINISHED")
          \/ stopPc'[q] = "failed" /\ runStatus' = runStatus
        BY <1>13 DEF StopUpdate
    <2>3. StartIsOrdered' /\ ProcessesAreTracked' /\ ExitHandlerIsAlone'
        BY <2>1, <2>2 DEF UpdateStatus
    <2>4. MutexIsHeldByStop'
        BY <2>1, <2>2
    <2>5. StatusIsExplained'
        BY <2>1, <2>2 DEF UpdateStatus
    <2>6. StartingIsAccounted'
        BY <2>1, <2>2 DEF UpdateStatus
    <2> QED
        BY <2>3, <2>4, <2>5, <2>6
<1>14. ASSUME NEW q \in StopRequest, StopTerminate(q) PROVE IInv'
    <2>1. /\ UNCHANGED <<runStatus, startPc, process, code, processes, exiting, stopOf, crashes>>
          /\ stopPc[q] = "terminate" /\ stopPc'[q] = "done" /\ lockedBy' = {}
          /\ \A p \in StopRequest \ {q} : stopPc'[p] = stopPc[p]
        BY <1>14 DEF StopTerminate, startVars
    <2>2. StartIsOrdered' /\ ProcessesAreTracked' /\ ExitHandlerIsAlone' /\ StartingIsAccounted'
        BY <2>1
    <2>3. \A p \in StopRequest \ {q} : stopPc[p] \notin {"update", "terminate"}
        BY <2>1
    <2>4. MutexIsHeldByStop'
        BY <2>1, <2>3
    <2>5. StatusIsExplained'
        BY <2>1
    <2> QED
        BY <2>2, <2>4, <2>5
<1>15. CASE Killed
    BY <1>15, CrashKeeps DEF Killed
<1>16. CASE UNCHANGED vars
    BY <1>16 DEF vars
<1> QED
    BY <1>1, <1>2, <1>3, <1>4, <1>5, <1>6, <1>7, <1>8, <1>9, <1>10, <1>11, <1>12,
       <1>13, <1>14, <1>15, <1>16 DEF Next, Start, OnExit, Stop

\* The inductive invariant holds in every reachable state.
THEOREM Invariant == Spec => []IInv
<1>1. Init => IInv
    BY DEF Init, IInv, TypeOK, RunStatusType, Status, StartState, StopState,
           StartIsOrdered, ProcessesAreTracked, ExitHandlerIsAlone,
           MutexIsHeldByStop, StatusIsExplained, StartingIsAccounted
<1> QED
    BY <1>1, TypeCorrect, Inductive, PTL DEF Spec

\* The map of children is exact: remove() finds what start() inserted.
THEOREM ChildrenTracked == Spec => []ProcessesAreTracked
<1>1. IInv => ProcessesAreTracked
    BY DEF IInv
<1> QED
    BY <1>1, Invariant, PTL

\* Exclusion: one stop at most is between lock() and unlock().
THEOREM MutexHeld == Spec => []MutexIsHeldByStop
<1>1. IInv => MutexIsHeldByStop
    BY DEF IInv
<1> QED
    BY <1>1, Invariant, PTL

\* The status shown for a run is justified by what happened to it.
THEOREM StatusExplained == Spec => []StatusIsExplained
<1>1. IInv => StatusIsExplained
    BY DEF IInv
<1> QED
    BY <1>1, Invariant, PTL

\* A run in STARTING is being started, has a process, or is a known orphan.
THEOREM StartingAccounted == Spec => []StartingIsAccounted
<1>1. IInv => StartingIsAccounted
    BY DEF IInv
<1> QED
    BY <1>1, Invariant, PTL

\* The handler of one process at a time is past remove().
THEOREM ExitHandlerAlone == Spec => []ExitHandlerIsAlone
<1>1. IInv => ExitHandlerIsAlone
    BY DEF IInv
<1> QED
    BY <1>1, Invariant, PTL

\* A run leaves FINISHED or FAILED only by a late registration or a stop.
THEOREM TerminalLeft == Spec => TerminalIsLeftByRegistration
<1> DEFINE Left(r) ==
        /\ runStatus[r] \in Terminal /\ runStatus'[r] = "RUNNING" => DeviceRegisters(r)
        /\ runStatus[r] = "FAILED" /\ runStatus'[r] = "FINISHED"
            => \E q \in StopRequest : stopOf[q] = r /\ stopPc[q] = "update"
        /\ runStatus[r] # "none" /\ runStatus'[r] # runStatus[r]
            => runStatus'[r] \notin {"none", "STARTING"}
<1>1. ASSUME IInv, [Next]_vars, NEW r \in Run PROVE Left(r)
    <2> USE <1>1 DEF IInv, TypeOK, RunStatusType, Status, Terminal
    <2>1. CASE runStatus'[r] = runStatus[r]
        BY <2>1
    <2>2. ASSUME NEW s \in Run, StartRun(s) PROVE Left(r)
        BY <2>2 DEF StartRun, SaveRun, StartIsOrdered
    <2>3. ASSUME NEW s \in Run, RecordExit(s) PROVE Left(r)
        BY <2>3 DEF RecordExit, ExitStatus, UpdateStatus, StatusIsExplained, StartIsOrdered, ExitHandlerIsAlone
    <2>4. ASSUME NEW s \in Run, DeviceRegisters(s) PROVE Left(r)
        BY <2>4 DEF DeviceRegisters, UpdateStatus
    <2>5. ASSUME NEW q \in StopRequest, StopUpdate(q) PROVE Left(r)
        BY <2>5 DEF StopUpdate, UpdateStatus
    <2>6. ASSUME runStatus' = runStatus PROVE Left(r)
        BY <2>6, <2>1
    <2> QED
        BY <2>2, <2>3, <2>4, <2>5, <2>6
        DEF Next, Start, GetBuild, Spawn, InsertProcess, ProcessExit, OnExit, Remove,
            RemoveTooEarly, RecordExitFails, Crash, Killed, Stop, StopRun, StopLock,
            StopTerminate, vars
<1>2. IInv /\ [Next]_vars => [\A r \in Run : Left(r)]_vars
    BY <1>1
<1> QED
    BY <1>2, Invariant, PTL DEF Spec, TerminalIsLeftByRegistration

===========================================================================
