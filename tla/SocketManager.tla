--------------------------- MODULE SocketManager ---------------------------
(***************************************************************************)
(* SocketManagerService: the port the devices of all runs connect to.  Two *)
(* threads run the handlers of every connection.  A connection is accepted,*)
(* registers with its first message, and then has its messages stored one  *)
(* after the other until it says DEVICE_OFF or breaks.  Meanwhile the HTTP *)
(* threads select, unselect and terminate the devices that are listed, and *)
(* the devices answer in their own time.                                   *)
(*                                                                         *)
(* A handler that waits for MongoDB between two of its effects is one      *)
(* action per effect; it keeps its thread for all of them.                 *)
(***************************************************************************)
EXTENDS DevicesRepository, FiniteSets

CONSTANTS RunOf,            \* run a device belongs to, told at registration
          NameOf,           \* name it registers under; need not be unique
          IoThreads,        \* threads that call ioContext.run()
          AcceptMayFail,    \* can async_accept report an error (EMFILE, say)?
          MaxData,          \* bound: DATA messages of one device
          InboxBound,       \* bound: messages a device has under way
          OutboxBound,      \* bound: commands under way to a device
          MaxFailures       \* bound: writes that MongoDB refuses

ASSUME RunOfAssumption == RunOf \in [Socket -> Run]
ASSUME NameOfAssumption == NameOf \in [Socket -> Name]
ASSUME SocketAssumption == IsFiniteSet(Socket)
ASSUME LimitsAssumption ==
    /\ IoThreads \in Nat \ {0}
    /\ AcceptMayFail \in BOOLEAN
    /\ {MaxData, InboxBound, OutboxBound, MaxFailures} \subseteq Nat

VARIABLES accepting,        \* is an async_accept outstanding?
          conn,             \* where the proxy is with each connection
          peer,             \* what the device at the other end is doing
          inbox,            \* messages of the device the proxy has not read
          inspecting,       \* does the device send its data to the proxy?
          sent,             \* number of the last DATA message it sent
          handling,         \* DATA message in receiveCallback, 0 if none
          messages,         \* numbers of its messages in "messages", as stored
          failures          \* writes refused so far

connectionVars == <<peer, inbox, inspecting, sent>>
storeVars == <<handling, messages>>
vars == <<runStatus, runKeys, runDevices, deviceDocs, outbox, accepting, conn,
          peer, inbox, inspecting, sent, handling, messages, failures>>

\* States of a connection in which one of its handlers holds a thread.
Busy == {"updateStatus", "addDevice", "insertDevice", "addMessage", "removeDevice"}

\* States in which nothing will ever read the connection again.
Over == {"ended", "abandoned"}

Message == [type : {"DEVICE_ON", "DATA", "DEVICE_OFF"}, n : 0..MaxData]

TypeOK ==
    /\ RunStatusType
    /\ DevicesType
    /\ accepting \in BOOLEAN
    /\ conn \in [Socket -> {"none", "backlog", "register", "receive"} \cup Busy \cup Over]
    /\ peer \in [Socket -> {"off", "fresh", "on", "quitting", "closed"}]
    /\ inbox \in [Socket -> Seq(Message)]
    /\ inspecting \in [Socket -> BOOLEAN]
    /\ sent \in [Socket -> 0..MaxData]
    /\ handling \in [Socket -> 0..MaxData]
    /\ messages \in [Socket -> Seq(0..MaxData)]
    /\ failures \in Nat

Init ==
    /\ runStatus \in [Run -> {"none", "STARTING"}]
    /\ DevicesInit
    /\ accepting = TRUE
    /\ conn = [s \in Socket |-> "none"]
    /\ peer = [s \in Socket |-> "off"]
    /\ inbox = [s \in Socket |-> <<>>]
    /\ inspecting = [s \in Socket |-> FALSE]
    /\ sent = [s \in Socket |-> 0]
    /\ handling = [s \in Socket |-> 0]
    /\ messages = [s \in Socket |-> <<>>]
    /\ failures = 0

-----------------------------------------------------------------------------
FreeThread == Cardinality({s \in Socket : conn[s] \in Busy}) < IoThreads

Goto(s, state) == conn' = [conn EXCEPT ![s] = state]

Fail ==
    /\ failures < MaxFailures
    /\ failures' = failures + 1

\* The handler of async_accept, no error: wait for the first message of the
\* device and accept the next one.
Accept(s) ==
    /\ accepting
    /\ conn[s] = "backlog"
    /\ FreeThread
    /\ Goto(s, "register")
    /\ UNCHANGED <<runStatus, repositoryVars, accepting, connectionVars, storeVars, failures>>

\* The handler of async_accept, error: it returns before acceptNext.  The
\* connection stays where it was, in the backlog of the kernel.
AcceptError(s) ==
    /\ accepting
    /\ conn[s] = "backlog"
    /\ AcceptMayFail
    /\ FreeThread
    /\ accepting' = FALSE
    /\ UNCHANGED <<runStatus, repositoryVars, conn, connectionVars, storeVars, failures>>

-----------------------------------------------------------------------------
\* The first message arrives.
ReceiveRegistration(s) ==
    /\ conn[s] = "register"
    /\ inbox[s] # <<>>
    /\ FreeThread
    /\ inbox' = [inbox EXCEPT ![s] = Tail(@)]
    /\ Goto(s, IF Head(inbox[s]).type = "DEVICE_ON" THEN "updateStatus"
               ELSE "abandoned")
    /\ UNCHANGED <<runStatus, repositoryVars, accepting, peer, inspecting, sent,
                   storeVars, failures>>

\* Fault: the end of a connection that never registered is not noticed.
FaultyRegistrationError(s) == FALSE

\* The connection breaks before it; this receive has no error handler.
RegistrationError(s) ==
    /\ conn[s] = "register"
    /\ peer[s] = "closed"
    /\ FreeThread
    /\ Goto(s, "ended")
    /\ UNCHANGED <<runStatus, repositoryVars, accepting, connectionVars, storeVars, failures>>

\* Fault: a registration puts the run back to its first status.
FaultyRegisterRun(s) ==
    /\ conn[s] = "updateStatus"
    /\ UpdateStatus(RunOf[s], "STARTING")
    /\ Goto(s, "addDevice")
    /\ UNCHANGED <<repositoryVars, accepting, connectionVars, storeVars, failures>>

\* runRepository.updateStatus; RunNotSaved skips addDevice.
RegisterRun(s) ==
    /\ conn[s] = "updateStatus"
    /\ \/ /\ UpdateStatus(RunOf[s], "RUNNING")
          /\ Goto(s, "addDevice")
          /\ UNCHANGED failures
       \/ /\ Fail
          /\ Goto(s, "receive")
          /\ UNCHANGED runStatus
    /\ UNCHANGED <<repositoryVars, accepting, connectionVars, storeVars>>

\* Fault: the two strings of addDevice are swapped.
FaultyRegisterDevice(s) ==
    /\ conn[s] = "addDevice"
    /\ AddDevice(NameOf[s], RunOf[s], s)
    /\ Goto(s, "insertDevice")
    /\ UNCHANGED <<runStatus, accepting, connectionVars, storeVars, failures>>

\* devicesRepository.addDevice, the list.
RegisterDevice(s) ==
    /\ conn[s] = "addDevice"
    /\ AddDevice(RunOf[s], NameOf[s], s)
    /\ Goto(s, "insertDevice")
    /\ UNCHANGED <<runStatus, accepting, connectionVars, storeVars, failures>>

\* devicesRepository.addDevice, the collection; DeviceNotSaved is caught and
\* the device stays listed.
SaveDevice(s) ==
    /\ conn[s] = "insertDevice"
    /\ \/ /\ InsertDevice(s)
          /\ UNCHANGED failures
       \/ /\ Fail
          /\ UNCHANGED repositoryVars
    /\ Goto(s, "receive")
    /\ UNCHANGED <<runStatus, accepting, connectionVars, storeVars>>

-----------------------------------------------------------------------------
\* Fault: a receive drops what else had arrived.
FaultyReceive(s) ==
    /\ conn[s] = "receive"
    /\ inbox[s] # <<>>
    /\ FreeThread
    /\ inbox' = [inbox EXCEPT ![s] = <<>>]
    /\ IF Head(inbox[s]).type = "DEVICE_OFF"
       THEN Goto(s, "removeDevice") /\ UNCHANGED handling
       ELSE /\ Goto(s, "addMessage")
            /\ handling' = [handling EXCEPT ![s] = Head(inbox[s]).n]
    /\ UNCHANGED <<runStatus, repositoryVars, accepting, peer, inspecting, sent,
                   messages, failures>>

\* receiveCallback begins: DEVICE_OFF or, any other type, data to store.
Receive(s) ==
    /\ conn[s] = "receive"
    /\ inbox[s] # <<>>
    /\ FreeThread
    /\ inbox' = [inbox EXCEPT ![s] = Tail(@)]
    /\ IF Head(inbox[s]).type = "DEVICE_OFF"
       THEN Goto(s, "removeDevice") /\ UNCHANGED handling
       ELSE /\ Goto(s, "addMessage")
            /\ handling' = [handling EXCEPT ![s] = Head(inbox[s]).n]
    /\ UNCHANGED <<runStatus, repositoryVars, accepting, peer, inspecting, sent,
                   messages, failures>>

\* Fault: a broken connection is left without removeDevice.
FaultyReceiveError(s) ==
    /\ conn[s] = "receive"
    /\ peer[s] = "closed"
    /\ FreeThread
    /\ Goto(s, "ended")
    /\ UNCHANGED <<runStatus, repositoryVars, accepting, connectionVars, storeVars, failures>>

\* receiveErrorHandler begins.  What a broken connection still had is lost.
ReceiveError(s) ==
    /\ conn[s] = "receive"
    /\ peer[s] = "closed"
    /\ FreeThread
    /\ Goto(s, "removeDevice")
    /\ UNCHANGED <<runStatus, repositoryVars, accepting, connectionVars, storeVars, failures>>

\* Fault: a write that was done and looks refused is tried again.
FaultyStoreMessage(s) ==
    /\ conn[s] = "addMessage"
    /\ messages' = [messages EXCEPT ![s] = Append(@, handling[s])]
    /\ \/ /\ handling' = [handling EXCEPT ![s] = 0]
          /\ Goto(s, "receive")
          /\ UNCHANGED failures
       \/ Fail /\ UNCHANGED <<handling, conn>>
    /\ UNCHANGED <<runStatus, repositoryVars, accepting, connectionVars>>

\* messageRepository.addMessage, MessageNotSaved caught, and the next receive.
StoreMessage(s) ==
    /\ conn[s] = "addMessage"
    /\ \/ /\ messages' = [messages EXCEPT ![s] = Append(@, handling[s])]
          /\ UNCHANGED failures
       \/ /\ Fail
          /\ UNCHANGED messages
    /\ handling' = [handling EXCEPT ![s] = 0]
    /\ Goto(s, "receive")
    /\ UNCHANGED <<runStatus, repositoryVars, accepting, connectionVars>>

\* devicesRepository.removeDevice; no receive follows.
DropDevice(s) ==
    /\ conn[s] = "removeDevice"
    /\ RemoveDevice(RunOf[s], NameOf[s], s)
    /\ Goto(s, "ended")
    /\ UNCHANGED <<runStatus, accepting, connectionVars, storeVars, failures>>

-----------------------------------------------------------------------------
(* HTTP requests, each one critical section of the devices repository.     *)

Room(r) == \A s \in SocketsOf(runDevices[r]) : Len(outbox[s]) < OutboxBound

SelectAll(r) == Room(r) /\ InterceptAll(r)

SelectDevices(r, names) == Room(r) /\ Intercept(r, names)

UnselectAll(r) == Room(r) /\ StopInterceptionAll(r)

\* RunManager::stop, as far as the devices see it.
TerminateAll(r) == Room(r) /\ Terminate(r)

Request(r) ==
    /\ \/ SelectAll(r)
       \/ \E names \in SUBSET Name : SelectDevices(r, names)
       \/ UnselectAll(r)
       \/ TerminateAll(r)
    /\ UNCHANGED <<runStatus, accepting, conn, connectionVars, storeVars, failures>>

-----------------------------------------------------------------------------
(* The devices, which are not part of this code.                           *)

proxyVars == <<runStatus, runKeys, runDevices, deviceDocs, accepting, storeVars, failures>>

DeviceSend(s, type, n) ==
    /\ Len(inbox[s]) < InboxBound
    /\ inbox' = [inbox EXCEPT ![s] = Append(@, [type |-> type, n |-> n])]

Connect(s) ==
    /\ conn[s] = "none"
    /\ Goto(s, "backlog")
    /\ peer' = [peer EXCEPT ![s] = "fresh"]
    /\ UNCHANGED <<proxyVars, outbox, inbox, inspecting, sent>>

DeviceRegister(s) ==
    /\ peer[s] = "fresh"
    /\ DeviceSend(s, "DEVICE_ON", 0)
    /\ peer' = [peer EXCEPT ![s] = "on"]
    /\ UNCHANGED <<proxyVars, outbox, conn, inspecting, sent>>

\* DATA goes out while the device inspects, or from a client that never said
\* DEVICE_ON.
DeviceData(s) ==
    /\ \/ peer[s] = "on" /\ inspecting[s]
       \/ peer[s] = "fresh"
    /\ sent[s] < MaxData
    /\ DeviceSend(s, "DATA", sent[s] + 1)
    /\ sent' = [sent EXCEPT ![s] = @ + 1]
    /\ peer' = [peer EXCEPT ![s] = "on"]
    /\ UNCHANGED <<proxyVars, outbox, conn, inspecting>>

\* The device obeys the next command.
DeviceObey(s) ==
    /\ peer[s] \in {"on", "quitting"}
    /\ outbox[s] # <<>>
    /\ outbox' = [outbox EXCEPT ![s] = Tail(@)]
    /\ inspecting' = [inspecting EXCEPT ![s] =
                        CASE Head(outbox[s]) = "INSPECT_ON" -> TRUE
                          [] Head(outbox[s]) = "INSPECT_OFF" -> FALSE
                          [] OTHER -> @]
    /\ peer' = [peer EXCEPT ![s] = IF Head(outbox[s]) = "TERMINATE"
                                   THEN "quitting" ELSE @]
    /\ UNCHANGED <<proxyVars, conn, inbox, sent>>

\* It announces its end, unasked or because of TERMINATE.
DeviceQuit(s) ==
    /\ peer[s] \in {"on", "quitting"}
    /\ DeviceSend(s, "DEVICE_OFF", 0)
    /\ peer' = [peer EXCEPT ![s] = "closed"]
    /\ UNCHANGED <<proxyVars, outbox, conn, inspecting, sent>>

\* It crashes, or the network fails.
DeviceCrash(s) ==
    /\ peer[s] \in {"fresh", "on", "quitting"}
    /\ peer' = [peer EXCEPT ![s] = "closed"]
    /\ UNCHANGED <<proxyVars, outbox, conn, inbox, inspecting, sent>>

-----------------------------------------------------------------------------
Handler(s) ==
    \/ RegisterRun(s) \/ RegisterDevice(s) \/ SaveDevice(s)
    \/ StoreMessage(s) \/ DropDevice(s)

Dispatch(s) ==
    \/ Accept(s) \/ AcceptError(s)
    \/ ReceiveRegistration(s) \/ RegistrationError(s)
    \/ Receive(s) \/ ReceiveError(s)

Device(s) ==
    \/ Connect(s) \/ DeviceRegister(s) \/ DeviceData(s) \/ DeviceObey(s)
    \/ DeviceQuit(s) \/ DeviceCrash(s)

Next ==
    \/ \E s \in Socket : Handler(s) \/ Dispatch(s) \/ Device(s)
    \/ \E r \in Run : Request(r)

Spec == Init /\ [][Next]_vars

\* A running handler goes on; asio queues ready handlers, so each gets a
\* thread; a device that reads TERMINATE quits.
Fairness ==
    \A s \in Socket :
        /\ WF_vars(Handler(s))
        /\ SF_vars(Dispatch(s))
        /\ WF_vars(DeviceObey(s))
        /\ SF_vars(peer[s] = "quitting" /\ DeviceQuit(s))

FairSpec == Spec /\ Fairness

-----------------------------------------------------------------------------
(* Properties.                                                             *)

\* A listed device has its connection served: there is an entry exactly from
\* addDevice to removeDevice of one and the same connection, under the run and
\* the name it registered with, at most one per connection, and the run of a
\* listed device has a key.  Two devices of a run may share their name.
ListedIsServed ==
    \A r \in Run :
        /\ runDevices[r] # {} => r \in runKeys
        /\ \A e \in runDevices[r] :
            /\ RunOf[e.socket] = r
            /\ NameOf[e.socket] = e.name
            /\ conn[e.socket] \in {"insertDevice", "receive", "addMessage", "removeDevice"}
            /\ \A f \in runDevices[r] : f.socket = e.socket => f = e

\* The device at s will inspect iff v, once it has read what was sent to it.
WillInspect(s, v) ==
    LET Is(i, c) == outbox[s][i] = c
        last == IF v THEN "INSPECT_ON" ELSE "INSPECT_OFF"
    IN  \/ /\ inspecting[s] = v
           /\ \A i \in DOMAIN outbox[s] : Is(i, "TERMINATE")
        \/ \E i \in DOMAIN outbox[s] :
            /\ Is(i, last)
            /\ \A j \in DOMAIN outbox[s] : j > i => Is(j, "TERMINATE")

\* What getDevices reports as selected is what the device does, or will do
\* when the commands under way reach it: the flag in the list and the commands
\* on the wire never diverge, whatever requests and registrations interleave.
SelectionAgreement ==
    \A r \in Run : \A e \in runDevices[r] : WillInspect(e.socket, e.isSelected)

\* Messages of one device are stored in the order it sent them, none twice,
\* although two threads and several receives work on its connection.
StoredInOrder ==
    \A s \in Socket : \A i, j \in DOMAIN messages[s] :
        i < j => messages[s][i] < messages[s][j]

\* Numbers of the DATA messages that wait in the inbox.
UnderWay(s) ==
    LET data == {k \in DOMAIN inbox[s] : inbox[s][k].type = "DATA"}
    IN  {inbox[s][k].n : k \in data}

\* How many DATA messages receiveCallback has been given.
Taken(s) == Len(messages[s]) + (IF handling[s] = 0 THEN 0 ELSE 1)

\* No message is lost between two receives: while no write was refused, the
\* first messages of a registered device are stored, the next may be with the
\* handler, and all others it sent are in the inbox, in turn.
NothingLost ==
    \A s \in Socket :
        failures = 0 /\ conn[s] \in {"receive", "addMessage"} =>
            /\ \A i \in DOMAIN messages[s] : messages[s][i] = i
            /\ handling[s] \in {0, Len(messages[s]) + 1}
            /\ Taken(s) <= sent[s]
            /\ UnderWay(s) = Taken(s) + 1..sent[s]
            /\ \A k, l \in DOMAIN inbox[s] :
                k < l /\ inbox[s][k].type = "DATA" /\ inbox[s][l].type = "DATA"
                    => inbox[s][k].n < inbox[s][l].n

\* A connection is read on in three cases: the device is listed and recorded,
\* or one of the two writes of its registration was refused.  Without a refused
\* write, being served means being listed and recorded.
ServedIsListed ==
    failures = 0 =>
        \A s \in Socket : conn[s] \in {"receive", "addMessage"} =>
            /\ Listed(s)
            /\ s \in deviceDocs

\* A device is listed only after its run left STARTING: updateStatus comes
\* before addDevice, and nothing puts a run back.
ListedRunHasStarted ==
    \A r \in Run : runDevices[r] # {} => runStatus[r] # "STARTING"

\* When the last live device of a run leaves, listing the run falls back to
\* the devices that ever registered for it: removeDevice leaves no empty list
\* behind, which getDevices would take for a run without devices.
HistoryReturns ==
    [][\A r \in Run :
        runDevices[r] # {} /\ runDevices'[r] = {}
            => GetDevices(r, RunOf)' = {<<s, FALSE>> : s \in {d \in deviceDocs : RunOf[d] = r}}]_vars

\* A device leaves the list only by the end of its own connection, never by
\* that of another device, of the same name say.
LeavesByItself ==
    [][\A s \in Socket : Listed(s) /\ ~Listed(s)'
        => conn[s] = "removeDevice" /\ conn'[s] = "ended"]_vars

\* Devices that are listed and shown as selected.
Selected == UNION {SocketsOf({e \in runDevices[r] : e.isSelected}) : r \in Run}

AbstractList == INSTANCE DeviceList WITH
    listed <- UNION {SocketsOf(runDevices[r]) : r \in Run},
    gone <- {s \in Socket : conn[s] \in Over},
    selected <- Selected,
    recorded <- deviceDocs,
    blank <- {r \in runKeys : runDevices[r] = {}},
    commands <- outbox,
    answer <- [r \in Run |-> GetDevices(r, RunOf)]

\* The vectors, keys and collection of the repository, with the handlers of two
\* threads and the requests at work on them, are one list of devices: each step
\* is one step of the list or none, and getDevices answers what the list shows.
ImplementsList == AbstractList!Spec

\* A device whose connection is gone is off the list for good.
GoneIsUnlisted ==
    \A s \in Socket : peer[s] = "closed" ~> []~Listed(s)

\* As long as connections are accepted, a device that says DEVICE_ON ends up
\* served, or over.
RegistrationEnds ==
    \A s \in Socket :
        conn[s] = "backlog" /\ peer[s] # "fresh"
            ~> conn[s] \in {"receive"} \cup Over \/ ~accepting

\* "this device" of the comment on a failed accept: the error concerns one
\* connection, and the others are accepted.
AcceptGoesOn ==
    \A s \in Socket : conn[s] = "backlog" ~> conn[s] # "backlog"

=============================================================================
