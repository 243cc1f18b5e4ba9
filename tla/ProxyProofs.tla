----------------------------- MODULE ProxyProofs -----------------------------
(***************************************************************************)
(* The whole proxy as an implementation of RunManager, the list of devices *)
(* as a witness of processes, and what SocketManager guarantees through    *)
(* restarts, for any runs, devices, requests and bounds.                   *)
(***************************************************************************)
EXTENDS Proxy, SocketManagerProofs

USE RunOfAssumption

ConnState == {"none", "backlog", "register", "receive"} \cup Busy \cup Over

ProcessState == {"none", "alive", "exited", "over"}

\* The proxy has to do with the connection.
Active(s) == conn[s] \notin {"none"} \cup Over

\* A start of this incarnation of the proxy came to a process.
Spawned(r) == startPc[r] \in {"insert", "started"} /\ process[r] # "none"

Begun(r) == runStatus[r] \in {"RUNNING"} \cup Terminal

ProxyType ==
    /\ runStatus \in [Run -> Status \cup {"none"}]
    /\ startPc \in [Run -> RM!StartState]
    /\ process \in [Run -> ProcessState]
    /\ conn \in [Socket -> ConnState]
    /\ runDevices = [r \in Run |-> runDevices[r]]

\* A process has a start behind it, and a start past its first step a document.
StartInv ==
    \A r \in Run :
        /\ process[r] = "alive" => startPc[r] \in {"insert", "started"}
        /\ process[r] # "none" => startPc[r] # "idle"
        /\ process[r] # "none" \/ startPc[r] \in {"getBuild", "spawn"}
            => runStatus[r] # "none"
        /\ r \in exiting => process[r] # "none"

\* Only processes of this incarnation have connections at work.
ConnectionInv ==
    \A s \in Socket :
        /\ Active(s) => Spawned(RunOf[s])
        /\ conn[s] = "addDevice" => Begun(RunOf[s])

ProxyInv == ProxyType /\ StartInv /\ ConnectionInv /\ ListedHasProcess

-----------------------------------------------------------------------------
\* What a step of a connection may do to its handler.
LEMMA ConnectionMoves ==
    ASSUME ProxyInv, NEW s \in Socket, ConnectionStep(s)
    PROVE  /\ conn' \in [Socket -> ConnState]
           /\ \A t \in Socket \ {s} : conn'[t] = conn[t]
           /\ \/ Active(s)
              \/ conn'[s] = conn[s]
              \/ process[RunOf[s]] = "alive" /\ conn'[s] = "backlog"
           /\ conn'[s] = "addDevice" => conn[s] = "addDevice" \/ RegisterRun(s)
<1> USE DEF ProxyInv, ProxyType, Active, Busy, Over, ConnState, Goto, proxyVars
<1>1. CASE Connect(s)
    BY <1>1 DEF ConnectionStep, Connect, DeviceRegister, DeviceData, DeviceObey, DeviceQuit,
        DeviceCrash, Handler, RegisterRun, RegisterDevice, SaveDevice, StoreMessage, DropDevice,
        Dispatch, Accept, AcceptError, ReceiveRegistration, RegistrationError, Receive, ReceiveError
<1>2. CASE DeviceRegister(s) \/ DeviceData(s) \/ DeviceObey(s) \/ DeviceQuit(s) \/ DeviceCrash(s)
    BY <1>2 DEF DeviceRegister, DeviceData, DeviceObey, DeviceQuit, DeviceCrash
<1>3. CASE RegisterRun(s)
    BY <1>3 DEF RegisterRun
<1>4. CASE RegisterDevice(s) \/ SaveDevice(s) \/ StoreMessage(s) \/ DropDevice(s)
    BY <1>4 DEF RegisterDevice, SaveDevice, StoreMessage, DropDevice
<1>5. CASE Accept(s) \/ AcceptError(s) \/ RegistrationError(s) \/ ReceiveError(s)
    BY <1>5 DEF Accept, AcceptError, RegistrationError, ReceiveError
<1>6. CASE ReceiveRegistration(s)
    BY <1>6 DEF ReceiveRegistration
<1>7. CASE Receive(s)
    BY <1>7 DEF Receive
<1> QED
    BY <1>1, <1>2, <1>3, <1>4, <1>5, <1>6, <1>7 DEF ConnectionStep, Handler, Dispatch

\* What it may do to the documents of the runs.
LEMMA ConnectionStatus ==
    ASSUME NEW s \in Socket, ConnectionStep(s)
    PROVE  \/ UNCHANGED runStatus
           \/ conn[s] = "updateStatus" /\ UpdateStatus(RunOf[s], "RUNNING")
<1> USE DEF proxyVars
<1>1. CASE Connect(s) \/ DeviceRegister(s) \/ DeviceData(s) \/ DeviceObey(s) \/ DeviceQuit(s)
           \/ DeviceCrash(s)
    BY <1>1 DEF Connect, DeviceRegister, DeviceData, DeviceObey, DeviceQuit, DeviceCrash
<1>2. CASE Handler(s)
    BY <1>2 DEF Handler, RegisterRun, RegisterDevice, SaveDevice, StoreMessage, DropDevice
<1>3. CASE Dispatch(s)
    BY <1>3 DEF Dispatch, Accept, AcceptError, ReceiveRegistration, RegistrationError, Receive,
        ReceiveError
<1> QED
    BY <1>1, <1>2, <1>3 DEF ConnectionStep

\* What it may do to the list: a device is added by its own connection.
LEMMA ConnectionList ==
    ASSUME ProxyInv, NEW s \in Socket, ConnectionStep(s)
    PROVE  /\ runDevices' = [r \in Run |-> runDevices'[r]]
           /\ \A r \in Run : \/ runDevices'[r] # {} => runDevices[r] # {}
                             \/ r = RunOf[s] /\ conn[s] = "addDevice"
<1> USE DEF ProxyInv, ProxyType, proxyVars, repositoryVars
<1>1. CASE Connect(s) \/ DeviceRegister(s) \/ DeviceData(s) \/ DeviceObey(s) \/ DeviceQuit(s)
           \/ DeviceCrash(s)
    BY <1>1 DEF Connect, DeviceRegister, DeviceData, DeviceObey, DeviceQuit, DeviceCrash
<1>2. CASE RegisterDevice(s)
    BY <1>2 DEF RegisterDevice, AddDevice
<1>3. CASE DropDevice(s)
    <2>1. PICK rest : /\ rest \subseteq runDevices[RunOf[s]]
                      /\ runDevices' = [runDevices EXCEPT ![RunOf[s]] = rest]
        BY <1>3 DEF DropDevice, RemoveDevice
    <2> QED
        BY <2>1
<1>4. CASE RegisterRun(s) \/ SaveDevice(s) \/ StoreMessage(s)
    BY <1>4 DEF RegisterRun, SaveDevice, InsertDevice, StoreMessage
<1>5. CASE Dispatch(s)
    BY <1>5 DEF Dispatch, Accept, AcceptError, ReceiveRegistration, RegistrationError, Receive,
        ReceiveError
<1> QED
    BY <1>1, <1>2, <1>3, <1>4, <1>5 DEF ConnectionStep, Handler

\* A status that left STARTING does not return, and a document stays.
LEMMA UpdateKeeps ==
    ASSUME ProxyType, NEW r, NEW status \in {"RUNNING"} \cup Terminal,
           UpdateStatus(r, status)
    PROVE  /\ runStatus' \in [Run -> Status \cup {"none"}]
           /\ \A t \in Run : /\ Begun(t) => Begun(t)'
                             /\ runStatus[t] # "none" => runStatus'[t] # "none"
           /\ r \in Run /\ runStatus[r] # "none" => Begun(r)'
BY DEF ProxyType, UpdateStatus, Begun, Terminal, Status

\* Steps of a connection keep the invariant: a registration is the only one that
\* changes the document of a run.
LEMMA ConnectionKeeps ==
    ASSUME ProxyInv, NEW s \in Socket, ConnectionStep(s)
    PROVE  ProxyInv'
<1> USE DEF ProxyInv
<1>1. UNCHANGED <<startPc, process, exiting>>
    BY DEF ConnectionStep, runSide
<1>2. /\ runStatus' \in [Run -> Status \cup {"none"}]
      /\ \A t \in Run : /\ Begun(t) => Begun(t)'
                        /\ runStatus[t] # "none" => runStatus'[t] # "none"
    BY ConnectionStatus, UpdateKeeps DEF ProxyType, Begun
<1>3. ProxyType'
    BY <1>1, <1>2, ConnectionMoves, ConnectionList DEF ProxyType
<1>4. StartInv'
    BY <1>1, <1>2 DEF StartInv
<1>5. \A r \in Run : Spawned(r)' = Spawned(r)
    BY <1>1 DEF Spawned
<1>6. ConnectionInv'
    <2> SUFFICES ASSUME NEW t \in Socket
                 PROVE  /\ Active(t)' => Spawned(RunOf[t])
                        /\ conn'[t] = "addDevice" => Begun(RunOf[t])'
        BY <1>5 DEF ConnectionInv
    <2>1. CASE t # s
        BY <1>2, <2>1, ConnectionMoves DEF ConnectionInv, Active
    <2>2. CASE t = s
        <3>1. Active(s)' => Spawned(RunOf[s])
            BY ConnectionMoves DEF ConnectionInv, Active, StartInv, Spawned
        <3>2. ASSUME conn'[s] = "addDevice" PROVE Begun(RunOf[s])'
            <4>1. CASE conn[s] = "addDevice"
                BY <1>2, <4>1 DEF ConnectionInv
            <4>2. CASE RegisterRun(s)
                <5>1. conn[s] = "updateStatus" /\ Active(s)
                    BY <4>2 DEF RegisterRun, Active, Over
                <5>2. runStatus[RunOf[s]] # "none"
                    BY <5>1 DEF ConnectionInv, Spawned, StartInv
                <5>3. UpdateStatus(RunOf[s], "RUNNING")
                    BY <3>2, <4>2 DEF RegisterRun, Goto, ProxyType
                <5> QED
                    BY <5>2, <5>3, UpdateKeeps
            <4> QED
                BY <3>2, <4>1, <4>2, ConnectionMoves
        <3> QED
            BY <2>2, <3>1, <3>2
    <2> QED
        BY <2>1, <2>2
<1>7. ListedHasProcess'
    <2> SUFFICES ASSUME NEW r \in Run, runDevices'[r] # {}
                 PROVE  Spawned(r) /\ Begun(r)'
        BY <1>1 DEF ListedHasProcess, Spawned, Begun
    <2>1. CASE runDevices[r] # {}
        BY <1>2, <2>1 DEF ListedHasProcess, Spawned, Begun
    <2>2. CASE r = RunOf[s] /\ conn[s] = "addDevice"
        BY <1>2, <2>2 DEF ConnectionInv, Active, Over
    <2> QED
        BY <2>1, <2>2, ConnectionList
<1> QED
    BY <1>3, <1>4, <1>6, <1>7

-----------------------------------------------------------------------------
\* Requests of clients mark and tell devices; none enters the list.
LEMMA SelectionKeeps ==
    ASSUME ProxyInv, NEW r \in Run, SelectionRequest(r)
    PROVE  ProxyInv'
<1> USE DEF ProxyInv
<1>1. UNCHANGED <<runStatus, startPc, process, exiting, conn>>
    BY DEF SelectionRequest, runSide
<1>2. /\ runDevices' = [t \in Run |-> runDevices'[t]]
      /\ \A t \in Run : runDevices'[t] # {} => runDevices[t] # {}
    BY DEF SelectionRequest, SelectAll, SelectDevices, UnselectAll, InterceptAll,
        Intercept, StopInterceptionAll, Mark, ProxyType
<1> QED
    BY <1>1, <1>2 DEF ProxyType, StartInv, ConnectionInv, ListedHasProcess, Active, Spawned, Begun

\* Steps of the runs neither undo a start nor take a status back.
RunsKept ==
    /\ runStatus' \in [Run -> Status \cup {"none"}]
    /\ startPc' \in [Run -> RM!StartState]
    /\ process' \in [Run -> ProcessState]
    /\ StartInv'
    /\ \A r \in Run : Spawned(r) => Spawned(r)' /\ (Begun(r) => Begun(r)')

\* Starts, stops and ends of processes keep types, starts and documents.
LEMMA RunStepKeeps ==
    ASSUME ProxyInv, RunStep \/ \E q \in StopRequest : RM!StopTerminate(q)
    PROVE  RunsKept
<1> USE DEF ProxyInv, ProxyType, StartInv, Spawned, ProcessState, RM!StartState, RM!StartGoto,
        RunsKept
<1>1. ASSUME NEW r \in Run, RM!StartRun(r) PROVE RunsKept
    <2>1. startPc[r] = "idle" /\ UNCHANGED <<process, exiting>>
        BY <1>1 DEF RM!StartRun
    <2>2. CASE RM!SaveRun(r) /\ RM!StartGoto(r, "getBuild")
        BY <2>1, <2>2 DEF RM!SaveRun, Begun, Status
    <2>3. CASE RM!StartGoto(r, "notSaved") /\ UNCHANGED runStatus
        BY <2>1, <2>3 DEF Begun
    <2> QED
        BY <1>1, <2>2, <2>3 DEF RM!StartRun
<1>2. ASSUME NEW r \in Run, RM!GetBuild(r) \/ RM!Spawn(r) \/ RM!InsertProcess(r) PROVE RunsKept
    BY <1>2 DEF RM!GetBuild, RM!Spawn, RM!InsertProcess, Begun
<1>3. ASSUME NEW r \in Run, RM!ProcessExit(r) \/ RM!Remove(r) PROVE RunsKept
    BY <1>3 DEF RM!ProcessExit, RM!Remove, RM!startVars, Begun
<1>4. ASSUME NEW r, NEW status \in {"RUNNING"} \cup Terminal, RM!UpdateStatus(r, status)
      PROVE  /\ runStatus' \in [Run -> Status \cup {"none"}]
             /\ \A t \in Run : /\ Begun(t) => Begun(t)'
                               /\ runStatus[t] # "none" => runStatus'[t] # "none"
    <2>1. UpdateStatus(r, status)
        BY <1>4 DEF UpdateStatus, RM!UpdateStatus
    <2> QED
        BY <2>1, UpdateKeeps
<1>5. ASSUME NEW r \in Run, RM!RecordExit(r) PROVE RunsKept
    <2>1. RM!ExitStatus(r) \in {"RUNNING"} \cup Terminal
        BY DEF RM!ExitStatus, Terminal
    <2>2. /\ runStatus' \in [Run -> Status \cup {"none"}]
          /\ \A t \in Run : /\ Begun(t) => Begun(t)'
                            /\ runStatus[t] # "none" => runStatus'[t] # "none"
        BY <1>4, <1>5, <2>1 DEF RM!RecordExit
    <2>3. /\ UNCHANGED startPc
          /\ exiting' \subseteq exiting /\ process[r] # "none"
          /\ process' \in [Run -> ProcessState]
          /\ \A t \in Run : /\ process'[t] = "alive" => process[t] = "alive"
                            /\ process[t] # "none" => process'[t] # "none"
                            /\ t # r => process'[t] = process[t]
        BY <1>5 DEF RM!RecordExit
    <2> QED
        BY <2>2, <2>3
<1>6. ASSUME NEW q \in StopRequest, RM!StopUpdate(q) PROVE RunsKept
    <2>1. UNCHANGED <<startPc, process, exiting>>
        BY <1>6 DEF RM!StopUpdate, RM!startVars
    <2>2. CASE RM!UpdateStatus(stopOf[q], "FINISHED")
        BY <1>4, <2>1, <2>2 DEF Terminal
    <2>3. CASE UNCHANGED runStatus
        BY <2>1, <2>3 DEF Begun
    <2> QED
        BY <1>6, <2>2, <2>3 DEF RM!StopUpdate
<1>7. ASSUME NEW q \in StopRequest,
             RM!StopLock(q) \/ RM!StopTerminate(q) \/ \E r \in Run : RM!StopRun(q, r)
      PROVE  RunsKept
    BY <1>7 DEF RM!StopLock, RM!StopTerminate, RM!StopRun, RM!startVars, Begun
<1> QED
    BY <1>1, <1>2, <1>3, <1>5, <1>6, <1>7 DEF RunStep, RM!Start

\* They leave the devices alone, but for what a stop tells them.
LEMMA RunKeeps ==
    ASSUME ProxyInv, RunsKept, UNCHANGED <<conn, runDevices>>
    PROVE  ProxyInv'
<1> USE DEF ProxyInv
<1>1. ProxyType' /\ StartInv'
    BY DEF RunsKept, ProxyType
<1>2. \A r \in Run : Spawned(r) => Spawned(r)' /\ (Begun(r) => Begun(r)')
    BY DEF RunsKept
<1>3. ConnectionInv'
    <2> SUFFICES ASSUME NEW s \in Socket
                 PROVE  /\ Active(s) => Spawned(RunOf[s])'
                        /\ conn[s] = "addDevice" => Begun(RunOf[s])'
        BY DEF ConnectionInv, Active
    <2>1. conn[s] = "addDevice" => Active(s)
        BY DEF Active, Over
    <2> QED
        BY <1>2, <2>1 DEF ConnectionInv
<1>4. ListedHasProcess'
    <2> SUFFICES ASSUME NEW r \in Run, runDevices[r] # {}
                 PROVE  Spawned(r)' /\ Begun(r)'
        BY DEF ListedHasProcess, Spawned, Begun
    <2>1. Spawned(r) /\ Begun(r)
        BY DEF ListedHasProcess, Spawned, Begun
    <2> QED
        BY <1>2, <2>1
<1> QED
    BY <1>1, <1>3, <1>4

\* A crash leaves neither connections nor devices.
LEMMA CrashKeeps ==
    ASSUME ProxyInv, ProxyCrash
    PROVE  ProxyInv'
<1> USE DEF ProxyInv
<1>1. RM!Crash
    BY DEF ProxyCrash, RM!Killed, RM!RemoveTooEarly, RM!RecordExitFails
<1>2. LoseConnections
    BY DEF ProxyCrash
<1>3. /\ \A s \in Socket : conn'[s] \in {"none", "ended"}
      /\ \A r \in Run : runDevices'[r] = {}
    BY <1>2 DEF LoseConnections
<1>4. ProxyType'
    BY <1>1, <1>2 DEF ProxyType, RM!Crash, LoseConnections, ProcessState, ConnState, Over, RM!StartState
<1>5. StartInv'
    BY <1>1 DEF StartInv, ProxyType, RM!Crash, ProcessState
<1>6. ConnectionInv' /\ ListedHasProcess'
    BY <1>3 DEF ConnectionInv, Active, Over, ListedHasProcess
<1> QED
    BY <1>4, <1>5, <1>6

-----------------------------------------------------------------------------
\* ProxyInv is inductive.
THEOREM ProxyInvariant == ProxySpec => []ProxyInv
<1>1. ProxyInit => ProxyInv
    BY DEF ProxyInit, Init, DevicesInit, RM!Init, ProxyInv, ProxyType, StartInv, ConnectionInv,
        ListedHasProcess, Active, Status, RM!StartState, ProcessState, ConnState
<1>2. ProxyInv /\ [ProxyNext]_proxyState => ProxyInv'
    <2> SUFFICES ASSUME ProxyInv, [ProxyNext]_proxyState PROVE ProxyInv'
        OBVIOUS
    <2>1. ASSUME NEW r \in Run, SelectionRequest(r) PROVE ProxyInv'
        BY <2>1, SelectionKeeps
    <2>2. CASE RunStep
        BY <2>2, RunStepKeeps, RunKeeps DEF RunStep, deviceSide
    <2>3. ASSUME NEW q \in StopRequest, StopTerminates(q) PROVE ProxyInv'
        <3>1. RunsKept
            BY <2>3, RunStepKeeps DEF StopTerminates
        <3>2. UNCHANGED <<conn, runDevices>>
            BY <2>3 DEF StopTerminates, TerminateAll, Terminate
        <3> QED
            BY <3>1, <3>2, RunKeeps
    <2>4. CASE UNCHANGED proxyState
        BY <2>4 DEF proxyState, deviceSide, runSide, ProxyInv, ProxyType, StartInv, ConnectionInv,
            ListedHasProcess, Active, Spawned, Begun
    <2> QED
        BY <2>1, <2>2, <2>3, <2>4, ConnectionKeeps, CrashKeeps DEF ProxyNext
<1> QED
    BY <1>1, <1>2, PTL DEF ProxySpec

\* A listed device has a process of this incarnation behind it, and its run a
\* document that left STARTING.
THEOREM ListedProcess == ProxySpec => []ListedHasProcess
<1>1. ProxyInv => ListedHasProcess
    BY DEF ProxyInv
<1> QED
    BY <1>1, ProxyInvariant, PTL

-----------------------------------------------------------------------------
\* Seen from the runs, a step of a connection is a registration or nothing.
LEMMA ConnectionImplements ==
    ASSUME ProxyInv, NEW s \in Socket, ConnectionStep(s)
    PROVE  [RM!Next]_(RM!vars)
<1>1. UNCHANGED runSide
    BY DEF ConnectionStep
<1>2. CASE UNCHANGED runStatus
    BY <1>1, <1>2 DEF runSide, RM!vars
<1>3. CASE conn[s] = "updateStatus" /\ UpdateStatus(RunOf[s], "RUNNING")
    <2>1. process[RunOf[s]] # "none"
        BY <1>3 DEF ProxyInv, ConnectionInv, Active, Over, Spawned
    <2>2. RM!DeviceRegisters(RunOf[s])
        BY <1>1, <1>3, <2>1
        DEF RM!DeviceRegisters, RM!UpdateStatus, UpdateStatus, runSide, RM!startVars, RM!stopVars
    <2> QED
        BY <2>2 DEF RM!Next
<1> QED
    BY <1>2, <1>3, ConnectionStatus

\* The whole proxy implements RunManager: each of its steps is one of the runs,
\* the registration of a device with a process, or leaves the runs alone.
THEOREM RunsImplemented == ProxySpec => ImplementsRunManager
<1>1. ProxyInit => RM!Init
    BY DEF ProxyInit
<1>2. ProxyInv /\ [ProxyNext]_proxyState => [RM!Next]_(RM!vars)
    <2> SUFFICES ASSUME ProxyInv, [ProxyNext]_proxyState PROVE [RM!Next]_(RM!vars)
        OBVIOUS
    <2>1. ASSUME NEW r \in Run, SelectionRequest(r) PROVE UNCHANGED RM!vars
        BY <2>1 DEF SelectionRequest, runSide, RM!vars
    <2>2. CASE RunStep
        BY <2>2 DEF RunStep, RM!Next, RM!OnExit, RM!Stop
    <2>3. ASSUME NEW q \in StopRequest, StopTerminates(q) PROVE RM!Next
        BY <2>3 DEF StopTerminates, RM!Next, RM!Stop
    <2>4. CASE ProxyCrash
        BY <2>4 DEF ProxyCrash, RM!Next, RM!OnExit
    <2>5. CASE UNCHANGED proxyState
        BY <2>5 DEF proxyState, runSide, RM!vars
    <2> QED
        BY <2>1, <2>2, <2>3, <2>4, <2>5, ConnectionImplements DEF ProxyNext
<1> QED
    BY <1>1, <1>2, ProxyInvariant, PTL DEF ProxySpec, ImplementsRunManager

-----------------------------------------------------------------------------
(* The side of the devices, through stops and restarts.                    *)

\* A request past its first step is for a run.
StopInv ==
    /\ DOMAIN stopPc = StopRequest /\ DOMAIN stopOf = StopRequest
    /\ \A q \in StopRequest : stopPc[q] # "idle" => stopOf[q] \in Run

\* All that SocketManager's own proofs need of a state.
DevicesInv ==
    /\ TypeOK
    /\ ListedIsServed
    /\ QuietBefore
    /\ SelectionAgreement
    /\ RecordedInv
    /\ \A s \in Socket : Ordered(s) /\ Intact(s)

\* Requests do not change the run they are for.
LEMMA StopStep ==
    ASSUME StopInv, [ProxyNext]_proxyState
    PROVE  StopInv'
<1> USE DEF StopInv
<1>1. CASE UNCHANGED <<stopPc, stopOf>>
    BY <1>1
<1>2. ASSUME NEW s \in Socket, ConnectionStep(s) PROVE StopInv'
    BY <1>1, <1>2 DEF ConnectionStep, runSide
<1>3. ASSUME NEW r \in Run, SelectionRequest(r) PROVE StopInv'
    BY <1>1, <1>3 DEF SelectionRequest, runSide
<1>4. ASSUME NEW r \in Run, RM!Start(r) \/ RM!ProcessExit(r) \/ RM!Remove(r) \/ RM!RecordExit(r)
      PROVE  StopInv'
    BY <1>1, <1>4 DEF RM!Start, RM!StartRun, RM!GetBuild, RM!Spawn, RM!InsertProcess,
       RM!ProcessExit, RM!Remove, RM!RecordExit, RM!stopVars
<1>5. ASSUME NEW q \in StopRequest, RM!StopLock(q) \/ RM!StopUpdate(q) \/ RM!StopTerminate(q)
      PROVE  StopInv'
    BY <1>5 DEF RM!StopLock, RM!StopUpdate, RM!StopTerminate, RM!StopGoto
<1>6. ASSUME NEW q \in StopRequest, NEW r \in Run, RM!StopRun(q, r) PROVE StopInv'
    BY <1>6 DEF RM!StopRun, RM!StopGoto
<1>7. CASE ProxyCrash
    <2>1. RM!Crash
        BY <1>7 DEF ProxyCrash, RM!Killed, RM!RemoveTooEarly, RM!RecordExitFails
    <2> QED
        BY <2>1 DEF RM!Crash
<1>8. CASE UNCHANGED proxyState
    BY <1>1, <1>8 DEF proxyState, runSide
<1> QED
    BY <1>2, <1>3, <1>4, <1>5, <1>6, <1>7, <1>8 DEF ProxyNext, RunStep, StopTerminates

\* To SocketManager, every step of the proxy is one of its own, or concerns the
\* runs only, or is a crash.
LEMMA DeviceSteps ==
    ASSUME StopInv, [ProxyNext]_proxyState
    PROVE  \/ [Next]_vars
           \/ UNCHANGED deviceSide
           \/ LoseConnections /\ UNCHANGED runStatus
<1>1. ASSUME NEW s \in Socket, ConnectionStep(s) PROVE Next
    BY <1>1 DEF ConnectionStep, Next, Device
<1>2. ASSUME NEW r \in Run, SelectionRequest(r) PROVE Next
    BY <1>2 DEF SelectionRequest, Next, Request
<1>3. ASSUME NEW q \in StopRequest, StopTerminates(q) PROVE Next
    <2>1. stopOf[q] \in Run /\ UNCHANGED runStatus
        BY <1>3 DEF StopTerminates, RM!StopTerminate, StopInv
    <2>2. Request(stopOf[q])
        BY <1>3, <2>1 DEF StopTerminates, Request
    <2> QED
        BY <2>1, <2>2 DEF Next
<1>4. CASE ProxyCrash
    BY <1>4 DEF ProxyCrash, RM!Killed, RM!RemoveTooEarly, RM!RecordExitFails, RM!Crash
<1>5. CASE RunStep
    BY <1>5 DEF RunStep
<1>6. CASE UNCHANGED proxyState
    BY <1>6 DEF proxyState
<1> QED
    BY <1>1, <1>2, <1>3, <1>4, <1>5, <1>6 DEF ProxyNext

\* What SocketManager's proofs need does not depend on the runs.
LEMMA RunsApart ==
    ASSUME DevicesInv, runStatus' \in [Run -> Status \cup {"none"}], UNCHANGED deviceSide
    PROVE  DevicesInv'
<1> USE DEF deviceSide
<1>1. TypeOK'
    BY DEF DevicesInv, TypeOK, RunStatusType, DevicesType
<1>2. ListedIsServed' /\ QuietBefore'
    BY DEF DevicesInv, ListedIsServed, QuietBefore
<1>3. SelectionAgreement'
    BY DEF DevicesInv, SelectionAgreement, WillInspect
<1>4. RecordedInv'
    BY DEF DevicesInv, RecordedInv, Recorded, Listed, SocketsOf
<1>5. ASSUME NEW s \in Socket PROVE Ordered(s)' /\ Intact(s)'
    <2>1. Ordered(s) /\ Intact(s)
        BY DEF DevicesInv
    <2>2. UNCHANGED <<conn, peer, inbox, sent, handling, messages, failures>>
        OBVIOUS
    <2>3. Ordered(s)'
        BY <2>1, <2>2 DEF Ordered
    <2>4. Taken(s)' = Taken(s) /\ UnderWay(s)' = UnderWay(s)
        BY <2>2 DEF Taken, UnderWay
    <2> QED
        BY <2>1, <2>2, <2>3, <2>4 DEF Intact
<1> QED
    BY <1>1, <1>2, <1>3, <1>4, <1>5 DEF DevicesInv

\* A crash ends every connection and every device, and forgets the list; what
\* was stored stays.
LEMMA CrashEnds ==
    ASSUME DevicesInv, LoseConnections, UNCHANGED runStatus
    PROVE  DevicesInv'
<1> USE DEF LoseConnections
<1>1. /\ \A s \in Socket : /\ conn'[s] = IF conn[s] = "none" THEN "none" ELSE "ended"
                           /\ peer'[s] = IF peer[s] = "off" THEN "off" ELSE "closed"
                           /\ inbox'[s] = <<>> /\ outbox'[s] = <<>>
                           /\ inspecting'[s] = FALSE /\ handling'[s] = 0
      /\ \A r \in Run : runDevices'[r] = {}
      /\ UNCHANGED <<deviceDocs, sent, messages, failures>>
    OBVIOUS
<1>2. TypeOK'
    <2>1. /\ <<>> \in Seq(Message) /\ <<>> \in Seq(Command)
          /\ 0 \in 0..MaxData
        BY EmptySeq, LimitsAssumption
    <2>2. RunStatusType' /\ DevicesType'
        BY <2>1 DEF DevicesInv, TypeOK, RunStatusType, DevicesType
    <2>3. /\ conn' \in [Socket -> {"none", "ended"}]
          /\ peer' \in [Socket -> {"off", "closed"}]
          /\ inbox' \in [Socket -> Seq(Message)]
          /\ inspecting' \in [Socket -> BOOLEAN]
          /\ handling' \in [Socket -> 0..MaxData]
        BY <2>1
    <2> QED
        BY <2>2, <2>3 DEF DevicesInv, TypeOK, Over
<1>3. ListedIsServed' /\ QuietBefore' /\ SelectionAgreement' /\ RecordedInv'
    BY <1>1 DEF ListedIsServed, QuietBefore, SelectionAgreement, RecordedInv, Recorded, ServedState
<1>4. ASSUME NEW s \in Socket PROVE Ordered(s)'
    <2>1. Ordered(s) /\ DOMAIN inbox'[s] = {}
        BY <1>1 DEF DevicesInv
    <2> QED
        BY <1>1, <2>1 DEF Ordered
<1>5. ASSUME NEW s \in Socket PROVE Intact(s)'
    <2> SUFFICES ASSUME failures = 0, conn[s] = "none" PROVE Intact(s)'
        BY <1>1 DEF Intact, Attended
    <2>1. /\ inbox[s] = <<>>
          /\ handling[s] = 0
          /\ \A i \in DOMAIN messages[s] : messages[s][i] = i
          /\ Taken(s) <= sent[s]
          /\ UnderWay(s) = Taken(s) + 1..sent[s]
        BY DEF DevicesInv, Ordered, Intact, Attended
    <2>2. UnderWay(s)' = UnderWay(s) /\ Taken(s)' = Taken(s)
        BY <1>1, <2>1 DEF UnderWay, Taken
    <2> QED
        BY <1>1, <2>1, <2>2 DEF Intact
<1> QED
    BY <1>2, <1>3, <1>4, <1>5 DEF DevicesInv

\* DevicesInv is inductive in the whole proxy.
THEOREM DevicesInvariant == ProxySpec => [](StopInv /\ DevicesInv)
<1>1. ProxyInit => StopInv /\ DevicesInv
    <2> SUFFICES ASSUME ProxyInit PROVE StopInv /\ DevicesInv
        OBVIOUS
    <2>1. StopInv
        BY DEF ProxyInit, RM!Init, StopInv
    <2>2. TypeOK
        BY EmptySeq, LimitsAssumption DEF ProxyInit, Init, DevicesInit, TypeOK, RunStatusType, DevicesType, Status
    <2>3. ListedIsServed /\ QuietBefore /\ SelectionAgreement /\ RecordedInv
        BY DEF ProxyInit, Init, DevicesInit, ListedIsServed, QuietBefore, SelectionAgreement,
           RecordedInv, Recorded, ServedState
    <2>4. \A s \in Socket : Ordered(s) /\ Intact(s)
        BY DEF ProxyInit, Init, Ordered, Intact, Taken, UnderWay
    <2> QED
        BY <2>1, <2>2, <2>3, <2>4 DEF DevicesInv
<1>2. ProxyInv' /\ StopInv /\ DevicesInv /\ [ProxyNext]_proxyState => (StopInv /\ DevicesInv)'
    <2> SUFFICES ASSUME ProxyInv', StopInv, DevicesInv, [ProxyNext]_proxyState
                 PROVE  StopInv' /\ DevicesInv'
        OBVIOUS
    <2>1. ASSUME [Next]_vars PROVE DevicesInv'
        <3>1. \A s \in Socket : Ordered(s)
            BY DEF DevicesInv
        <3>2. TypeOK' /\ ListedIsServed' /\ QuietBefore' /\ SelectionAgreement' /\ RecordedInv'
            BY <2>1, TypeStep, ServedStep, QuietStep, SelectionStep, RecordedStep DEF DevicesInv
        <3>3. (\A s \in Socket : Ordered(s))' /\ (\A s \in Socket : Intact(s))'
            BY <2>1, <3>1, OrderedNext, IntactNext DEF DevicesInv
        <3> QED
            BY <3>2, <3>3 DEF DevicesInv
    <2>2. ASSUME UNCHANGED deviceSide PROVE DevicesInv'
        <3>1. runStatus' \in [Run -> Status \cup {"none"}]
            BY DEF ProxyInv, ProxyType
        <3> QED
            BY <2>2, <3>1, RunsApart
    <2>3. ASSUME LoseConnections, UNCHANGED runStatus PROVE DevicesInv'
        BY <2>3, CrashEnds
    <2> QED
        BY <2>1, <2>2, <2>3, StopStep, DeviceSteps
<1> QED
    BY <1>1, <1>2, ProxyInvariant, PTL DEF ProxySpec

\* The list, the selection and the messages are right through every stop and
\* restart: what is listed is served, what shows as selected is what devices
\* do, and what devices sent is stored in order, none lost while it is read.
THEOREM DevicesThroughRestarts ==
    ProxySpec => [](/\ ListedIsServed /\ ServedIsListed
                    /\ SelectionAgreement
                    /\ StoredInOrder /\ NothingLost)
<1>1. DevicesInv => /\ ListedIsServed /\ ServedIsListed
                    /\ SelectionAgreement
                    /\ StoredInOrder /\ NothingLost
    <2> SUFFICES ASSUME DevicesInv
                 PROVE  ServedIsListed /\ StoredInOrder /\ NothingLost
        BY DEF DevicesInv
    <2>1. ServedIsListed
        BY DEF DevicesInv, RecordedInv, Recorded, ServedState, ServedIsListed
    <2>2. StoredInOrder
        BY DEF DevicesInv, Ordered, StoredInOrder
    <2>3. NothingLost
        BY IntactIsWhole DEF DevicesInv
    <2> QED
        BY <2>1, <2>2, <2>3
<1> QED
    BY <1>1, DevicesInvariant, PTL

\* When the last device of a run leaves, or all do with the proxy, the history
\* is what is listed.
THEOREM HistoryThroughRestarts == ProxySpec => HistoryReturns
<1>1. StopInv /\ DevicesInv /\ [ProxyNext]_proxyState =>
        [\A r \in Run :
            runDevices[r] # {} /\ runDevices'[r] = {}
                => GetDevices(r, RunOf)' = {<<s, FALSE>> : s \in {d \in deviceDocs : RunOf[d] = r}}]_vars
    <2> SUFFICES ASSUME StopInv, DevicesInv, [ProxyNext]_proxyState,
                        NEW r \in Run, runDevices[r] # {}, runDevices'[r] = {}
                 PROVE  GetDevices(r, RunOf)' = {<<s, FALSE>> : s \in {d \in deviceDocs : RunOf[d] = r}}
        OBVIOUS
    <2>1. CASE [Next]_vars
        BY <2>1, LastLeaves DEF DevicesInv
    <2>2. CASE UNCHANGED deviceSide
        BY <2>2 DEF deviceSide
    <2>3. CASE LoseConnections
        BY <2>3 DEF LoseConnections, GetDevices
    <2> QED
        BY <2>1, <2>2, <2>3, DeviceSteps
<1> QED
    BY <1>1, DevicesInvariant, PTL DEF ProxySpec, HistoryReturns

=============================================================================
