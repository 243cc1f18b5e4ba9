------------------------------- MODULE Proxy -------------------------------
(***************************************************************************)
(* The program: SocketManagerService and RunManager over the same "runs"   *)
(* documents and the same list of devices.  A device is a process of the   *)
(* workflow that a run executes: it connects while the run's process is    *)
(* alive and tells the run it belongs to.  RunManager::stop ends with      *)
(* TERMINATE to the devices that are listed at that time.  The end of the  *)
(* program ends every connection as well as every process.                 *)
(***************************************************************************)
EXTENDS SocketManager

CONSTANTS StopRequest,      \* as in RunManager
          MaxRunFailures,   \* bound: refused writes of RunsService and RunManager
          MaxCrashes        \* bound: ends of the whole proxy

ASSUME ProxyAssumption == {MaxRunFailures, MaxCrashes} \subseteq Nat

VARIABLES startPc, process, code, processes, exiting, stopPc, stopOf, lockedBy,
          told, runFailures, crashes

RM == INSTANCE RunManager WITH MaxFailures <- MaxRunFailures, failures <- runFailures

deviceSide == <<runKeys, runDevices, deviceDocs, outbox, accepting, conn, peer, inbox,
                inspecting, sent, handling, messages, failures>>
runSide == <<startPc, process, code, processes, exiting, stopPc, stopOf, lockedBy,
             told, runFailures, crashes>>
proxyState == <<runStatus, deviceSide, runSide>>

ProxyInit == Init /\ RM!Init

-----------------------------------------------------------------------------
(* The side of the devices.                                                *)

\* Only the connection itself comes from the run; all that follows may happen
\* when the process is long gone.
ConnectionStep(s) ==
    /\ \/ Connect(s) /\ process[RunOf[s]] = "alive"
       \/ DeviceRegister(s) \/ DeviceData(s) \/ DeviceObey(s)
       \/ DeviceQuit(s) \/ DeviceCrash(s)
       \/ Handler(s)
       \/ Dispatch(s)
    /\ UNCHANGED runSide

\* DevicesEndpoint: selectAll, selectDevices, unselectAll.
SelectionRequest(r) ==
    /\ \/ SelectAll(r)
       \/ \E names \in SUBSET Name : SelectDevices(r, names)
       \/ UnselectAll(r)
    /\ UNCHANGED <<runStatus, accepting, conn, connectionVars, storeVars, failures, runSide>>

-----------------------------------------------------------------------------
(* The side of the runs.                                                   *)

RunStep ==
    /\ \/ \E r \in Run : RM!Start(r) \/ RM!ProcessExit(r) \/ RM!Remove(r) \/ RM!RecordExit(r)
       \/ \E q \in StopRequest :
            \/ RM!StopLock(q) \/ RM!StopUpdate(q)
            \/ \E r \in Run : RM!StopRun(q, r)
    /\ UNCHANGED deviceSide

\* terminate() and the unlocking of both mutexes.
StopTerminates(q) ==
    /\ RM!StopTerminate(q)
    /\ TerminateAll(stopOf[q])
    /\ UNCHANGED <<accepting, conn, connectionVars, storeVars, failures>>

\* With the proxy go its list and its connections; the devices, in the same
\* container, go too.  The documents stay.
LoseConnections ==
    /\ runKeys' = {}
    /\ runDevices' = [r \in Run |-> {}]
    /\ outbox' = [s \in Socket |-> <<>>]
    /\ accepting' = TRUE
    /\ conn' = [s \in Socket |-> IF conn[s] = "none" THEN "none" ELSE "ended"]
    /\ peer' = [s \in Socket |-> IF peer[s] = "off" THEN "off" ELSE "closed"]
    /\ inbox' = [s \in Socket |-> <<>>]
    /\ inspecting' = [s \in Socket |-> FALSE]
    /\ handling' = [s \in Socket |-> 0]
    /\ UNCHANGED <<deviceDocs, sent, messages, failures>>

ProxyCrash ==
    /\ \/ RM!Killed
       \/ \E r \in Run : RM!RemoveTooEarly(r) \/ RM!RecordExitFails(r)
    /\ LoseConnections

-----------------------------------------------------------------------------
ProxyNext ==
    \/ \E s \in Socket : ConnectionStep(s)
    \/ \E r \in Run : SelectionRequest(r)
    \/ RunStep
    \/ \E q \in StopRequest : StopTerminates(q)
    \/ ProxyCrash

ProxySpec == ProxyInit /\ [][ProxyNext]_proxyState

\* The device side as in SocketManager and the threads of RunManager as there.
\* Of the workflow: its process ends when all of its devices have, and takes
\* with it those that have not.
Devices(r) == {s \in Socket : RunOf[s] = r}

ProxyFairness ==
    /\ \A s \in Socket :
        /\ WF_proxyState(Handler(s) /\ UNCHANGED runSide)
        /\ SF_proxyState(Dispatch(s) /\ UNCHANGED runSide)
        /\ WF_proxyState(DeviceObey(s) /\ UNCHANGED runSide)
        /\ SF_proxyState(peer[s] = "quitting" /\ DeviceQuit(s) /\ UNCHANGED runSide)
        /\ WF_proxyState(process[RunOf[s]] = "over" /\ DeviceCrash(s) /\ UNCHANGED runSide)
    /\ \A r \in Run :
        /\ WF_proxyState(startPc[r] # "idle" /\ RM!Start(r) /\ UNCHANGED deviceSide)
        /\ WF_proxyState((RM!Remove(r) \/ RM!RecordExit(r)) /\ UNCHANGED deviceSide)
        /\ WF_proxyState(/\ \A s \in Devices(r) : peer[s] = "closed"
                         /\ RM!ProcessExit(r)
                         /\ UNCHANGED deviceSide)
    /\ \A q \in StopRequest :
        /\ WF_proxyState((RM!StopLock(q) \/ RM!StopUpdate(q)) /\ UNCHANGED deviceSide)
        /\ SF_proxyState(StopTerminates(q))

ProxyFairSpec == ProxySpec /\ ProxyFairness

-----------------------------------------------------------------------------
(* Properties.                                                             *)

\* Seen from the runs alone, the whole proxy is RunManager: what devices do to
\* a run is that they register, once its process was spawned.
ImplementsRunManager == RM!Init /\ [][RM!Next]_(RM!vars)

\* A device is listed only for a run whose process was spawned by this
\* incarnation of the proxy, and whose status left STARTING.
ListedHasProcess ==
    \A r \in Run : runDevices[r] # {} =>
        /\ startPc[r] \in {"insert", "started"}
        /\ process[r] # "none"
        /\ runStatus[r] \in {"RUNNING"} \cup Terminal

\* A stop that reaches every device of the run brings its process to an end
\* and its list to empty; no device has to be told twice.
StopEndsRun ==
    \A r \in Run :
        (\E q \in StopRequest :
            /\ stopPc[q] = "terminate" /\ stopOf[q] = r
            /\ \A s \in Devices(r) : Listed(s) \/ peer[s] = "closed")
        ~> process[r] # "alive" /\ runDevices[r] = {}

=============================================================================
