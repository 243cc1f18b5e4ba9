------------------------ MODULE SocketManagerProofs ------------------------
(***************************************************************************)
(* Safety of SocketManager for any devices, runs, threads and bounds.      *)
(***************************************************************************)
EXTENDS SocketManager, SequenceTheorems, TLAPS

USE RunOfAssumption, NameOfAssumption, LimitsAssumption

\* Commands reach existing sockets only; what is queued stays typed.
LEMMA SendType ==
    ASSUME NEW command \in Command, NEW sockets,
           outbox \in [Socket -> Seq(Command)], Send(command, sockets)
    PROVE  outbox' \in [Socket -> Seq(Command)]
BY DEF Send

\* Marking entries yields entries.
LEMMA MarkType ==
    ASSUME NEW entries \in SUBSET Entry, NEW v \in BOOLEAN
    PROVE  Mark(entries, v) \in SUBSET Entry
BY DEF Mark, Entry

\* A request keeps the types of the repository.
LEMMA RequestType ==
    ASSUME DevicesType, NEW r \in Run, Request(r)
    PROVE  DevicesType'
<1> USE DEF DevicesType
<1>1. CASE SelectAll(r)
    BY <1>1, SendType, MarkType DEF SelectAll, InterceptAll, Touch, Command
<1>2. ASSUME NEW names \in SUBSET Name, SelectDevices(r, names) PROVE DevicesType'
    <2> DEFINE chosen == {e \in runDevices[r] : e.name \in names}
    <2>1. /\ Mark(chosen, TRUE) \in SUBSET Entry
          /\ Mark(runDevices[r] \ chosen, FALSE) \in SUBSET Entry
        BY MarkType
    <2>2. runDevices' \in [Run -> SUBSET Entry]
        BY <1>2, <2>1 DEF SelectDevices, Intercept
    <2>3. outbox' \in [Socket -> Seq(Command)]
        BY <1>2 DEF SelectDevices, Intercept, Command
    <2> QED
        BY <1>2, <2>2, <2>3 DEF SelectDevices, Intercept, Touch
<1>3. CASE UnselectAll(r)
    BY <1>3, SendType, MarkType DEF UnselectAll, StopInterceptionAll, Touch, Command
<1>4. CASE TerminateAll(r)
    BY <1>4, SendType DEF TerminateAll, Terminate, Touch, Command
<1> QED
    BY <1>1, <1>2, <1>3, <1>4 DEF Request

\* What a device sends is typed.
LEMMA DeviceSendType ==
    ASSUME inbox \in [Socket -> Seq(Message)], NEW s \in Socket,
           NEW type \in {"DEVICE_ON", "DATA", "DEVICE_OFF"}, NEW n \in 0..MaxData,
           DeviceSend(s, type, n)
    PROVE  inbox' \in [Socket -> Seq(Message)]
<1>1. [type |-> type, n |-> n] \in Message
    BY DEF Message
<1> QED
    BY <1>1 DEF DeviceSend

\* Reading a message takes a typed one and leaves a typed inbox.
LEMMA TailType ==
    ASSUME NEW M, NEW box \in [Socket -> Seq(M)], NEW s \in Socket, box[s] # <<>>
    PROVE  /\ Head(box[s]) \in M
           /\ [box EXCEPT ![s] = Tail(@)] \in [Socket -> Seq(M)]
<1>1. Head(box[s]) \in M /\ Tail(box[s]) \in Seq(M)
    BY HeadTailProperties
<1> QED
    BY <1>1

\* Every variable keeps its type.
LEMMA TypeStep == TypeOK /\ [Next]_vars => TypeOK'
<1> SUFFICES ASSUME TypeOK, [Next]_vars PROVE TypeOK'
    OBVIOUS
<1> USE DEF TypeOK, Goto, Fail, Busy, Over, connectionVars, storeVars, repositoryVars, proxyVars
<1>1. ASSUME NEW s \in Socket, Accept(s) PROVE TypeOK'
    BY <1>1 DEF Accept, RunStatusType, DevicesType
<1>2. ASSUME NEW s \in Socket, AcceptError(s) PROVE TypeOK'
    BY <1>2 DEF AcceptError, RunStatusType, DevicesType
<1>3. ASSUME NEW s \in Socket, ReceiveRegistration(s) PROVE TypeOK'
    BY <1>3 DEF ReceiveRegistration, RunStatusType, DevicesType
<1>4. ASSUME NEW s \in Socket, RegistrationError(s) PROVE TypeOK'
    BY <1>4 DEF RegistrationError, RunStatusType, DevicesType
<1>5. ASSUME NEW s \in Socket, RegisterRun(s) PROVE TypeOK'
    <2>1. runStatus' \in [Run -> Status \cup {"none"}]
        BY <1>5 DEF RegisterRun, UpdateStatus, RunStatusType, Status
    <2>2. failures' \in Nat
        BY <1>5 DEF RegisterRun
    <2>3. conn' \in [Socket -> {"none", "backlog", "register", "receive"} \cup Busy \cup Over]
        BY <1>5 DEF RegisterRun
    <2>4. UNCHANGED <<repositoryVars, accepting, connectionVars, storeVars>>
        BY <1>5 DEF RegisterRun
    <2> QED
        BY <2>1, <2>2, <2>3, <2>4 DEF RunStatusType, DevicesType
<1>6. ASSUME NEW s \in Socket, RegisterDevice(s) PROVE TypeOK'
    <2> DEFINE entry == [name |-> NameOf[s], socket |-> s, isSelected |-> FALSE]
    <2>1. entry \in Entry /\ RunOf[s] \in Run
        BY DEF Entry
    <2>2. runDevices' = [runDevices EXCEPT ![RunOf[s]] = @ \cup {entry}]
        BY <1>6 DEF RegisterDevice, AddDevice
    <2>3. runDevices' \in [Run -> SUBSET Entry]
        BY <2>1, <2>2 DEF DevicesType
    <2>4. runKeys' \in SUBSET Run
        BY <1>6, <2>1 DEF RegisterDevice, AddDevice, Touch, DevicesType
    <2>5. conn' \in [Socket -> {"none", "backlog", "register", "receive"} \cup Busy \cup Over]
        BY <1>6 DEF RegisterDevice
    <2>6. UNCHANGED <<runStatus, deviceDocs, outbox, accepting, connectionVars, storeVars, failures>>
        BY <1>6 DEF RegisterDevice, AddDevice
    <2> QED
        BY <2>3, <2>4, <2>5, <2>6 DEF RunStatusType, DevicesType
<1>7. ASSUME NEW s \in Socket, SaveDevice(s) PROVE TypeOK'
    BY <1>7 DEF SaveDevice, InsertDevice, RunStatusType, DevicesType
<1>8. ASSUME NEW s \in Socket, Receive(s) PROVE TypeOK'
    <2>1. Head(inbox[s]) \in Message /\ inbox' \in [Socket -> Seq(Message)]
        BY <1>8, TailType DEF Receive
    <2>2. handling' \in [Socket -> 0..MaxData]
        BY <1>8, <2>1 DEF Receive, Message
    <2>3. conn' \in [Socket -> {"none", "backlog", "register", "receive"} \cup Busy \cup Over]
        BY <1>8 DEF Receive
    <2>4. UNCHANGED <<runStatus, repositoryVars, accepting, peer, inspecting, sent, messages, failures>>
        BY <1>8 DEF Receive
    <2> QED
        BY <2>1, <2>2, <2>3, <2>4 DEF RunStatusType, DevicesType
<1>9. ASSUME NEW s \in Socket, ReceiveError(s) PROVE TypeOK'
    BY <1>9 DEF ReceiveError, RunStatusType, DevicesType
<1>10. ASSUME NEW s \in Socket, StoreMessage(s) PROVE TypeOK'
    <2>1. messages' \in [Socket -> Seq(0..MaxData)]
        <3>1. Append(messages[s], handling[s]) \in Seq(0..MaxData)
            OBVIOUS
        <3> QED
            BY <1>10, <3>1 DEF StoreMessage
    <2>2. failures' \in Nat
        BY <1>10 DEF StoreMessage
    <2>3. /\ conn' \in [Socket -> {"none", "backlog", "register", "receive"} \cup Busy \cup Over]
          /\ handling' \in [Socket -> 0..MaxData]
        BY <1>10 DEF StoreMessage
    <2>4. UNCHANGED <<runStatus, repositoryVars, accepting, connectionVars>>
        BY <1>10 DEF StoreMessage
    <2> QED
        BY <2>1, <2>2, <2>3, <2>4 DEF RunStatusType, DevicesType
<1>11. ASSUME NEW s \in Socket, DropDevice(s) PROVE TypeOK'
    BY <1>11 DEF DropDevice, RemoveDevice, Found, KeysAfter, RunStatusType, DevicesType
<1>12. ASSUME NEW s \in Socket, Connect(s) PROVE TypeOK'
    BY <1>12 DEF Connect, RunStatusType, DevicesType
<1>13. ASSUME NEW s \in Socket, DeviceRegister(s) PROVE TypeOK'
    <2>1. inbox' \in [Socket -> Seq(Message)]
        BY <1>13, DeviceSendType DEF DeviceRegister
    <2> QED
        BY <1>13, <2>1 DEF DeviceRegister, RunStatusType, DevicesType
<1>14. ASSUME NEW s \in Socket, DeviceData(s) PROVE TypeOK'
    <2>1. sent[s] + 1 \in 0..MaxData
        BY <1>14 DEF DeviceData
    <2>2. inbox' \in [Socket -> Seq(Message)]
        BY <1>14, <2>1, DeviceSendType DEF DeviceData
    <2> QED
        BY <1>14, <2>1, <2>2 DEF DeviceData, RunStatusType, DevicesType
<1>15. ASSUME NEW s \in Socket, DeviceObey(s) PROVE TypeOK'
    <2>1. outbox' \in [Socket -> Seq(Command)]
        BY <1>15, TailType DEF DeviceObey, DevicesType
    <2>2. inspecting' \in [Socket -> BOOLEAN]
        BY <1>15 DEF DeviceObey
    <2>3. peer' \in [Socket -> {"off", "fresh", "on", "quitting", "closed"}]
        BY <1>15 DEF DeviceObey
    <2> QED
        BY <1>15, <2>1, <2>2, <2>3 DEF DeviceObey, RunStatusType, DevicesType
<1>16. ASSUME NEW s \in Socket, DeviceQuit(s) PROVE TypeOK'
    <2>1. inbox' \in [Socket -> Seq(Message)]
        BY <1>16, DeviceSendType DEF DeviceQuit
    <2> QED
        BY <1>16, <2>1 DEF DeviceQuit, RunStatusType, DevicesType
<1>17. ASSUME NEW s \in Socket, DeviceCrash(s) PROVE TypeOK'
    BY <1>17 DEF DeviceCrash, RunStatusType, DevicesType
<1>18. ASSUME NEW r \in Run, Request(r) PROVE TypeOK'
    BY <1>18, RequestType DEF Request, RunStatusType
<1>19. CASE UNCHANGED vars
    BY <1>19 DEF vars, RunStatusType, DevicesType
<1> QED
    BY <1>1, <1>2, <1>3, <1>4, <1>5, <1>6, <1>7, <1>8, <1>9, <1>10, <1>11, <1>12,
       <1>13, <1>14, <1>15, <1>16, <1>17, <1>18, <1>19
    DEF Next, Handler, Dispatch, Device

\* Every variable keeps its type, whatever handlers, requests and devices do.
THEOREM TypeCorrect == Spec => []TypeOK
<1>1. Init => TypeOK
    BY DEF Init, DevicesInit, TypeOK, RunStatusType, Status, DevicesType, Busy, Over
<1> QED
    BY <1>1, TypeStep, PTL DEF Spec

-----------------------------------------------------------------------------
(* The list and the connections.                                           *)

\* One entry per socket.
OneEach(entries) == \A e, f \in entries : e.socket = f.socket => e = f

\* Marking keeps the sockets and names of entries, and one entry per socket.
LEMMA MarkEach ==
    ASSUME NEW E \in SUBSET Entry, NEW v \in BOOLEAN
    PROVE  /\ \A f \in Mark(E, v) : \E e \in E : e.socket = f.socket /\ e.name = f.name
           /\ \A e \in E : \E f \in Mark(E, v) : e.socket = f.socket /\ e.name = f.name
           /\ OneEach(E) => OneEach(Mark(E, v))
<1>1. \A e \in E : /\ [e EXCEPT !.isSelected = v].isSelected = v
                   /\ [e EXCEPT !.isSelected = v].socket = e.socket
                   /\ [e EXCEPT !.isSelected = v].name = e.name
    BY DEF Entry
<1>2. \A f \in Mark(E, v) : \E e \in E : f = [e EXCEPT !.isSelected = v]
    BY DEF Mark
<1>3. \A e \in E : [e EXCEPT !.isSelected = v] \in Mark(E, v)
    BY DEF Mark
<1>4. \A f \in Mark(E, v) : /\ f.isSelected = v
                           /\ \E e \in E : /\ f = [e EXCEPT !.isSelected = v]
                                           /\ e.socket = f.socket
                                           /\ e.name = f.name
    <2> TAKE f \in Mark(E, v)
    <2>1. PICK e \in E : f = [e EXCEPT !.isSelected = v]
        BY <1>2
    <2> QED
        BY <2>1, <1>1
<1>5. \A e \in E : \E f \in Mark(E, v) : e.socket = f.socket /\ e.name = f.name
    BY <1>1, <1>3
<1>6. ASSUME OneEach(E) PROVE OneEach(Mark(E, v))
    <2> SUFFICES ASSUME NEW f \in Mark(E, v), NEW g \in Mark(E, v), f.socket = g.socket
                 PROVE  f = g
        BY DEF OneEach
    <2>1. PICK d \in E : f = [d EXCEPT !.isSelected = v] /\ d.socket = f.socket
        BY <1>4
    <2>2. PICK e \in E : g = [e EXCEPT !.isSelected = v] /\ e.socket = g.socket
        BY <1>4
    <2>3. d = e
        BY <1>6, <2>1, <2>2 DEF OneEach
    <2> QED
        BY <2>1, <2>2, <2>3
<1> QED
    BY <1>4, <1>5, <1>6

\* After marking with v, every flag is v.
LEMMA MarkFlag ==
    ASSUME NEW E \in SUBSET Entry, NEW v \in BOOLEAN, NEW f \in Mark(E, v)
    PROVE  f.isSelected = v
<1>1. PICK e \in E : f = [e EXCEPT !.isSelected = v]
    BY DEF Mark
<1> QED
    BY <1>1 DEF Entry

\* Requests change the flags of a run's entries, not which devices it lists.
LEMMA RequestEntries ==
    ASSUME DevicesType, NEW r \in Run, Request(r)
    PROVE  /\ \A q \in Run \ {r} : runDevices'[q] = runDevices[q]
           /\ \A f \in runDevices'[r] : \E e \in runDevices[r] :
                e.socket = f.socket /\ e.name = f.name
           /\ \A e \in runDevices[r] : \E f \in runDevices'[r] :
                e.socket = f.socket /\ e.name = f.name
           /\ OneEach(runDevices[r]) => OneEach(runDevices'[r])
           /\ runKeys' = runKeys \cup {r}
<1> USE DEF DevicesType
<1>1. CASE SelectAll(r)
    <2>1. runDevices' = [runDevices EXCEPT ![r] = Mark(@, TRUE)] /\ runKeys' = runKeys \cup {r}
        BY <1>1 DEF SelectAll, InterceptAll, Touch
    <2>2. runDevices'[r] = Mark(runDevices[r], TRUE)
        BY <2>1
    <2>3. runDevices[r] \in SUBSET Entry /\ {TRUE, FALSE} \subseteq BOOLEAN
        OBVIOUS
    <2>4. /\ \A f \in Mark(runDevices[r], TRUE) : \E e \in runDevices[r] :
              e.socket = f.socket /\ e.name = f.name
          /\ \A e \in runDevices[r] : \E f \in Mark(runDevices[r], TRUE) :
              e.socket = f.socket /\ e.name = f.name
          /\ OneEach(runDevices[r]) => OneEach(Mark(runDevices[r], TRUE))
        BY <2>3, MarkEach
    <2>5. \A q \in Run \ {r} : runDevices'[q] = runDevices[q]
        BY <2>1
    <2> QED
        BY <2>1, <2>2, <2>4, <2>5
<1>2. ASSUME NEW names \in SUBSET Name, SelectDevices(r, names)
      PROVE  /\ \A q \in Run \ {r} : runDevices'[q] = runDevices[q]
             /\ \A f \in runDevices'[r] : \E e \in runDevices[r] :
                  e.socket = f.socket /\ e.name = f.name
             /\ \A e \in runDevices[r] : \E f \in runDevices'[r] :
                  e.socket = f.socket /\ e.name = f.name
             /\ OneEach(runDevices[r]) => OneEach(runDevices'[r])
             /\ runKeys' = runKeys \cup {r}
    <2> DEFINE chosen == {e \in runDevices[r] : e.name \in names}
               others == runDevices[r] \ chosen
    <2>1. /\ runDevices' = [runDevices EXCEPT ![r] = Mark(chosen, TRUE) \cup Mark(others, FALSE)]
          /\ runKeys' = runKeys \cup {r}
        BY <1>2 DEF SelectDevices, Intercept, Touch
    <2>2. chosen \in SUBSET Entry /\ others \in SUBSET Entry /\ runDevices[r] = chosen \cup others
        OBVIOUS
    <2>9. \A e \in others : e \in runDevices[r] /\ e \notin chosen /\ e.name \notin names
        OBVIOUS
    <2>10. \A e \in chosen : e \in runDevices[r] /\ e.name \in names
        OBVIOUS
    <2>5. runDevices'[r] = Mark(chosen, TRUE) \cup Mark(others, FALSE)
        BY <2>1
    <2> HIDE DEF chosen, others
    <2>3. /\ \A f \in Mark(chosen, TRUE) : \E e \in chosen : e.socket = f.socket /\ e.name = f.name
          /\ \A e \in chosen : \E f \in Mark(chosen, TRUE) : e.socket = f.socket /\ e.name = f.name
          /\ OneEach(chosen) => OneEach(Mark(chosen, TRUE))
        BY <2>2, MarkEach
    <2>4. /\ \A f \in Mark(others, FALSE) : \E e \in others : e.socket = f.socket /\ e.name = f.name
          /\ \A e \in others : \E f \in Mark(others, FALSE) : e.socket = f.socket /\ e.name = f.name
          /\ OneEach(others) => OneEach(Mark(others, FALSE))
        BY <2>2, MarkEach
    <2>6. ASSUME OneEach(runDevices[r]) PROVE OneEach(runDevices'[r])
        <3>1. OneEach(chosen) /\ OneEach(others)
            BY <2>6, <2>9, <2>10 DEF OneEach
        <3>2. \A e \in chosen, f \in others : e.socket # f.socket
            BY <2>6, <2>9, <2>10 DEF OneEach
        <3>3. ASSUME NEW e \in Mark(chosen, TRUE), NEW f \in Mark(others, FALSE)
              PROVE  e.socket # f.socket
            <4>1. PICK c \in chosen : c.socket = e.socket
                BY <2>3
            <4>2. PICK o \in others : o.socket = f.socket
                BY <2>4
            <4> QED
                BY <3>2, <4>1, <4>2
        <3>4. /\ \A e, f \in Mark(chosen, TRUE) : e.socket = f.socket => e = f
              /\ \A e, f \in Mark(others, FALSE) : e.socket = f.socket => e = f
            BY <2>3, <2>4, <3>1 DEF OneEach
        <3>5. SUFFICES ASSUME NEW e \in runDevices'[r], NEW f \in runDevices'[r],
                              e.socket = f.socket
                       PROVE  e = f
            BY DEF OneEach
        <3>6. /\ e \in Mark(chosen, TRUE) \/ e \in Mark(others, FALSE)
              /\ f \in Mark(chosen, TRUE) \/ f \in Mark(others, FALSE)
            BY <2>5
        <3> QED
            BY <3>3, <3>4, <3>5, <3>6
    <2>7. /\ \A f \in runDevices'[r] : \E e \in runDevices[r] : e.socket = f.socket /\ e.name = f.name
          /\ \A e \in runDevices[r] : \E f \in runDevices'[r] : e.socket = f.socket /\ e.name = f.name
        BY <2>2, <2>3, <2>4, <2>5
    <2>8. \A q \in Run \ {r} : runDevices'[q] = runDevices[q]
        BY <2>1
    <2> QED
        BY <2>1, <2>6, <2>7, <2>8
<1>3. CASE UnselectAll(r)
    <2>1. runDevices' = [runDevices EXCEPT ![r] = Mark(@, FALSE)] /\ runKeys' = runKeys \cup {r}
        BY <1>3 DEF UnselectAll, StopInterceptionAll, Touch
    <2>2. runDevices'[r] = Mark(runDevices[r], FALSE)
        BY <2>1
    <2>3. runDevices[r] \in SUBSET Entry /\ {TRUE, FALSE} \subseteq BOOLEAN
        OBVIOUS
    <2>4. /\ \A f \in Mark(runDevices[r], FALSE) : \E e \in runDevices[r] :
              e.socket = f.socket /\ e.name = f.name
          /\ \A e \in runDevices[r] : \E f \in Mark(runDevices[r], FALSE) :
              e.socket = f.socket /\ e.name = f.name
          /\ OneEach(runDevices[r]) => OneEach(Mark(runDevices[r], FALSE))
        BY <2>3, MarkEach
    <2>5. \A q \in Run \ {r} : runDevices'[q] = runDevices[q]
        BY <2>1
    <2> QED
        BY <2>1, <2>2, <2>4, <2>5
<1>4. CASE TerminateAll(r)
    BY <1>4 DEF TerminateAll, Terminate, Touch
<1> QED
    BY <1>1, <1>2, <1>3, <1>4 DEF Request

\* The steps of the connection at s that leave the list alone.
Unlisting(s) ==
    \/ Accept(s) \/ AcceptError(s) \/ ReceiveRegistration(s) \/ RegistrationError(s)
    \/ RegisterRun(s) \/ SaveDevice(s) \/ Receive(s) \/ ReceiveError(s) \/ StoreMessage(s)
    \/ Device(s)

ServedState == {"insertDevice", "receive", "addMessage", "removeDevice"}

\* Steps of a connection other than addDevice and removeDevice leave the list
\* alone, and a served connection stays served.
LEMMA UnlistingFacts ==
    ASSUME TypeOK, NEW s \in Socket, Unlisting(s)
    PROVE  /\ UNCHANGED <<runKeys, runDevices>>
           /\ \A c \in Socket \ {s} : conn'[c] = conn[c]
           /\ conn[s] \in ServedState => conn'[s] \in ServedState
BY DEF Unlisting, Device, Accept, AcceptError, ReceiveRegistration, RegistrationError,
       RegisterRun, SaveDevice, InsertDevice, Receive, ReceiveError, StoreMessage, Connect,
       DeviceRegister, DeviceData, DeviceObey, DeviceQuit, DeviceCrash, ServedState, Goto,
       TypeOK, repositoryVars, proxyVars

\* The four kinds of steps, as far as the list goes.
LEMMA StepKinds ==
    ASSUME [Next]_vars
    PROVE  \/ \E s \in Socket : Unlisting(s) \/ RegisterDevice(s) \/ DropDevice(s)
           \/ \E r \in Run : Request(r)
           \/ UNCHANGED vars
BY DEF Next, Handler, Dispatch, Unlisting

\* The entries of every run are typed.
LEMMA EntryTypes ==
    ASSUME TypeOK
    PROVE  \A r \in Run : \A e \in runDevices[r] :
             e.socket \in Socket /\ e.isSelected \in BOOLEAN
BY DEF TypeOK, DevicesType, Entry

\* ListedIsServed is inductive, given the types.
LEMMA ServedStep == TypeOK /\ ListedIsServed /\ [Next]_vars => ListedIsServed'
<1> SUFFICES ASSUME TypeOK, ListedIsServed, [Next]_vars PROVE ListedIsServed'
    OBVIOUS
<1> USE DEF ListedIsServed, ServedState
<1>1. ASSUME NEW s \in Socket, Unlisting(s) PROVE ListedIsServed'
    <2>1. /\ UNCHANGED <<runKeys, runDevices>>
          /\ \A c \in Socket : conn[c] \in ServedState => conn'[c] \in ServedState
        BY <1>1, UnlistingFacts
    <2>2. \A r \in Run : \A e \in runDevices[r] : e.socket \in Socket
        BY DEF TypeOK, DevicesType, Entry
    <2> QED
        BY <2>1, <2>2
<1>2. ASSUME NEW s \in Socket, RegisterDevice(s) PROVE ListedIsServed'
    <2> DEFINE entry == [name |-> NameOf[s], socket |-> s, isSelected |-> FALSE]
    <2>1. /\ runDevices' = [runDevices EXCEPT ![RunOf[s]] = @ \cup {entry}]
          /\ runKeys' = runKeys \cup {RunOf[s]}
          /\ conn[s] = "addDevice"
          /\ conn' = [conn EXCEPT ![s] = "insertDevice"]
        BY <1>2 DEF RegisterDevice, AddDevice, Touch, Goto
    <2>2. \A r \in Run : \A e \in runDevices[r] : e.socket \in Socket /\ e.socket # s
        <3>1. \A r \in Run : \A e \in runDevices[r] : conn[e.socket] # "addDevice"
            OBVIOUS
        <3> QED
            BY <2>1, <3>1, EntryTypes
    <2>3. \A r \in Run : runDevices'[r] = IF r = RunOf[s] THEN runDevices[r] \cup {entry}
                                          ELSE runDevices[r]
        BY <2>1 DEF TypeOK, DevicesType
    <2>4. conn'[s] = "insertDevice" /\ \A c \in Socket \ {s} : conn'[c] = conn[c]
        BY <2>1 DEF TypeOK
    <2>5. entry.socket = s /\ entry.name = NameOf[s]
        OBVIOUS
    <2> HIDE DEF entry
    <2>7. \A r \in Run : \A f \in runDevices'[r] :
            f \in runDevices[r] \/ (f = entry /\ r = RunOf[s])
        <3> TAKE r \in Run
        <3>1. CASE r = RunOf[s]
            <4>1. runDevices'[r] = runDevices[r] \cup {entry}
                BY <2>3, <3>1
            <4> QED
                BY <3>1, <4>1
        <3>2. CASE r # RunOf[s]
            <4>1. runDevices'[r] = runDevices[r]
                BY <2>3, <3>2
            <4> QED
                BY <4>1
        <3> QED
            BY <3>1, <3>2
    <2>6. ASSUME NEW r \in Run, NEW e \in runDevices'[r]
          PROVE  /\ RunOf[e.socket] = r
                 /\ NameOf[e.socket] = e.name
                 /\ conn'[e.socket] \in ServedState
                 /\ \A f \in runDevices'[r] : f.socket = e.socket => f = e
        <3>1. CASE e \in runDevices[r]
            <4>1. e.socket \in Socket /\ e.socket # s
                BY <2>2, <3>1
            <4>2. \A f \in runDevices'[r] : f.socket = e.socket => f \in runDevices[r]
                BY <2>5, <2>7, <4>1
            <4>3. /\ RunOf[e.socket] = r /\ NameOf[e.socket] = e.name
                  /\ conn[e.socket] \in ServedState
                  /\ \A f \in runDevices[r] : f.socket = e.socket => f = e
                BY <3>1
            <4> QED
                BY <2>4, <4>1, <4>2, <4>3
        <3>2. CASE e = entry /\ r = RunOf[s]
            <4>1. \A f \in runDevices'[r] : f.socket = s => f = entry
                BY <2>2, <2>7, <3>2
            <4> QED
                BY <2>4, <2>5, <3>2, <4>1
        <3> QED
            BY <2>7, <3>1, <3>2
    <2> QED
        BY <2>1, <2>3, <2>6
<1>3. ASSUME NEW s \in Socket, DropDevice(s) PROVE ListedIsServed'
    <2> DEFINE r == RunOf[s]
               found == {e \in runDevices[r] : e.name = NameOf[s] /\ e.socket = s}
    <2>1. PICK rest \in (IF found = {} THEN {runDevices[r]}
                         ELSE {runDevices[r] \ {e} : e \in found}) :
            /\ runDevices' = [runDevices EXCEPT ![r] = rest]
            /\ runKeys' = IF rest = {} THEN runKeys \ {r} ELSE runKeys \cup {r}
        BY <1>3 DEF DropDevice, RemoveDevice, Found, KeysAfter
    <2>2. rest \subseteq runDevices[r] /\ \A e \in rest : e.socket # s
        BY <2>1
    <2>3. /\ \A q \in Run \ {r} : runDevices'[q] = runDevices[q]
          /\ runDevices'[r] = rest
        BY <2>1 DEF TypeOK, DevicesType
    <2>4. \A c \in Socket \ {s} : conn'[c] = conn[c]
        BY <1>3 DEF DropDevice, Goto, TypeOK
    <2>5. \A q \in Run : \A e \in runDevices'[q] :
            e \in runDevices[q] /\ e.socket \in Socket \ {s}
        <3>1. ASSUME NEW q \in Run \ {r}, NEW e \in runDevices[q] PROVE e.socket # s
            BY <3>1
        <3> QED
            BY <2>2, <2>3, <3>1, EntryTypes
    <2>6. \A q \in Run : runDevices'[q] # {} => q \in runKeys'
        BY <2>1, <2>3
    <2> QED
        BY <2>4, <2>5, <2>6
<1>4. ASSUME NEW r \in Run, Request(r) PROVE ListedIsServed'
    <2>1. /\ \A q \in Run \ {r} : runDevices'[q] = runDevices[q]
          /\ \A f \in runDevices'[r] : \E e \in runDevices[r] :
                e.socket = f.socket /\ e.name = f.name
          /\ OneEach(runDevices'[r])
          /\ runKeys' = runKeys \cup {r}
        BY <1>4, RequestEntries DEF OneEach, TypeOK
    <2>2. conn' = conn
        BY <1>4 DEF Request
    <2>3. OneEach(runDevices'[r]) <=>
            \A e, f \in runDevices'[r] : e.socket = f.socket => e = f
        BY DEF OneEach
    <2> QED
        BY <2>1, <2>2, <2>3
<1>5. CASE UNCHANGED vars
    BY <1>5 DEF vars
<1> QED
    BY <1>1, <1>2, <1>3, <1>4, <1>5, StepKinds

\* Every listed device is being served, once, under its own run and name.
THEOREM Served == Spec => []ListedIsServed
<1>1. Init => ListedIsServed
    BY DEF Init, DevicesInit, ListedIsServed
<1> QED
    BY <1>1, ServedStep, TypeCorrect, PTL DEF Spec

-----------------------------------------------------------------------------
(* The flags in the list and the commands on the wire.                     *)

\* Nothing is sent to a device before it is listed.
QuietBefore ==
    \A s \in Socket :
        conn[s] \in {"none", "backlog", "register", "updateStatus", "addDevice"}
            => outbox[s] = <<>> /\ inspecting[s] = FALSE

\* A new INSPECT command has the last word.
LEMMA LastWord ==
    ASSUME NEW s \in Socket, NEW v \in BOOLEAN, outbox[s] \in Seq(Command),
           outbox'[s] = Append(outbox[s], IF v THEN "INSPECT_ON" ELSE "INSPECT_OFF")
    PROVE  WillInspect(s, v)'
<1> DEFINE i == Len(outbox[s]) + 1
<1>1. /\ Len(outbox[s]) \in Nat
      /\ DOMAIN outbox'[s] = 1..i
      /\ outbox'[s][i] = IF v THEN "INSPECT_ON" ELSE "INSPECT_OFF"
    OBVIOUS
<1>2. i \in DOMAIN outbox'[s] /\ \A j \in DOMAIN outbox'[s] : ~(j > i)
    BY <1>1
<1> QED
    BY <1>1, <1>2 DEF WillInspect

\* TERMINATE has no say in it.
LEMMA TerminateIsSilent ==
    ASSUME NEW s \in Socket, NEW v \in BOOLEAN, outbox[s] \in Seq(Command),
           outbox'[s] = Append(outbox[s], "TERMINATE"), inspecting' = inspecting,
           WillInspect(s, v)
    PROVE  WillInspect(s, v)'
<1> DEFINE n == Len(outbox[s])
<1>1. /\ n \in Nat /\ DOMAIN outbox[s] = 1..n /\ DOMAIN outbox'[s] = 1..(n + 1)
      /\ \A i \in 1..n : outbox'[s][i] = outbox[s][i]
      /\ outbox'[s][n + 1] = "TERMINATE"
    OBVIOUS
<1>2. \A i \in 1..(n + 1) : i \in 1..n \/ i = n + 1
    BY <1>1
<1>3. 1..n \subseteq 1..(n + 1)
    BY <1>1
<1> HIDE DEF n
<1>4. CASE inspecting[s] = v /\ \A i \in DOMAIN outbox[s] : outbox[s][i] = "TERMINATE"
    BY <1>1, <1>2, <1>4 DEF WillInspect
<1>5. ASSUME NEW i \in DOMAIN outbox[s],
             outbox[s][i] = IF v THEN "INSPECT_ON" ELSE "INSPECT_OFF",
             \A j \in DOMAIN outbox[s] : j > i => outbox[s][j] = "TERMINATE"
      PROVE  WillInspect(s, v)'
    <2>1. i \in DOMAIN outbox'[s] /\ outbox'[s][i] = outbox[s][i]
        BY <1>1, <1>3, <1>5
    <2>2. \A j \in DOMAIN outbox'[s] : j > i => outbox'[s][j] = "TERMINATE"
        BY <1>1, <1>2, <1>5
    <2> QED
        BY <1>5, <2>1, <2>2 DEF WillInspect
<1> QED
    BY <1>4, <1>5 DEF WillInspect

\* Obeying the next command changes what the device does, not what it will do.
LEMMA ObeyKeeps ==
    ASSUME TypeOK, NEW s \in Socket, NEW v \in BOOLEAN, DeviceObey(s), WillInspect(s, v)
    PROVE  WillInspect(s, v)'
<1> DEFINE box == outbox[s]
           n == Len(box)
<1>1. /\ box \in Seq(Command) /\ box # <<>>
      /\ outbox'[s] = Tail(box)
      /\ inspecting'[s] = CASE Head(box) = "INSPECT_ON" -> TRUE
                            [] Head(box) = "INSPECT_OFF" -> FALSE
                            [] OTHER -> inspecting[s]
    BY DEF DeviceObey, TypeOK, DevicesType
<1>2. /\ n \in Nat /\ n >= 1 /\ DOMAIN box = 1..n /\ Head(box) = box[1]
      /\ DOMAIN outbox'[s] = 1..(n - 1)
      /\ \A i \in 1..(n - 1) : outbox'[s][i] = box[i + 1]
    BY <1>1
<1>3. /\ v => (inspecting'[s] = TRUE <=> box[1] = "INSPECT_ON"
                                        \/ (box[1] # "INSPECT_OFF" /\ inspecting[s] = TRUE))
      /\ ~v => (inspecting'[s] = FALSE <=> box[1] = "INSPECT_OFF"
                                        \/ (box[1] # "INSPECT_ON" /\ inspecting[s] = FALSE))
    BY <1>1, <1>2 DEF TypeOK
<1>6. /\ \A j \in DOMAIN outbox'[s] : /\ j \in Nat \ {0}
                                     /\ j + 1 \in DOMAIN outbox[s]
                                     /\ outbox'[s][j] = outbox[s][j + 1]
      /\ \A i \in DOMAIN outbox[s] : i # 1 => i - 1 \in DOMAIN outbox'[s]
      /\ \A i \in DOMAIN outbox[s] : i \in Nat
    BY <1>2
<1> HIDE DEF n, box
<1>4. CASE inspecting[s] = v /\ \A i \in DOMAIN outbox[s] : outbox[s][i] = "TERMINATE"
    <2>1. box[1] = "TERMINATE"
        BY <1>2, <1>4 DEF box
    <2>2. inspecting'[s] = v
        <3>1. CASE v
            BY <1>3, <1>4, <2>1, <3>1
        <3>2. CASE ~v
            BY <1>3, <1>4, <2>1, <3>2
        <3> QED
            BY <3>1, <3>2
    <2>3. \A i \in DOMAIN outbox'[s] : outbox'[s][i] = "TERMINATE"
        BY <1>4, <1>6
    <2> QED
        BY <2>2, <2>3 DEF WillInspect
<1>5. ASSUME NEW i \in DOMAIN outbox[s],
             outbox[s][i] = IF v THEN "INSPECT_ON" ELSE "INSPECT_OFF",
             \A j \in DOMAIN outbox[s] : j > i => outbox[s][j] = "TERMINATE"
      PROVE  WillInspect(s, v)'
    <2>1. CASE i = 1
        <3>1. inspecting'[s] = v
            BY <1>3, <1>5, <2>1 DEF box
        <3>2. \A j \in DOMAIN outbox'[s] : outbox'[s][j] = "TERMINATE"
            <4>1. ASSUME NEW j \in DOMAIN outbox'[s] PROVE j + 1 > i
                BY <1>6, <2>1
            <4> QED
                BY <1>5, <1>6, <4>1
        <3> QED
            BY <3>1, <3>2 DEF WillInspect
    <2>2. CASE i # 1
        <3>1. i - 1 \in DOMAIN outbox'[s] /\ outbox'[s][i - 1] = outbox[s][i]
            <4>1. i \in Nat /\ (i - 1) + 1 = i
                BY <1>6
            <4> QED
                BY <1>5, <1>6, <2>2, <4>1
        <3>2. \A j \in DOMAIN outbox'[s] : j > i - 1 => outbox'[s][j] = "TERMINATE"
            <4>1. ASSUME NEW j \in DOMAIN outbox'[s], j > i - 1 PROVE j + 1 > i
                BY <1>6, <4>1
            <4> QED
                BY <1>5, <1>6, <4>1
        <3> QED
            BY <1>5, <3>1, <3>2 DEF WillInspect
    <2> QED
        BY <2>1, <2>2
<1> QED
    BY <1>4, <1>5 DEF WillInspect

BeforeState == {"none", "backlog", "register", "updateStatus", "addDevice"}

\* Of the same steps only DeviceObey touches commands and devices, and none
\* takes a connection back to before its insertion.
LEMMA UnlistingCommands ==
    ASSUME TypeOK, NEW s \in Socket, Unlisting(s)
    PROVE  /\ DeviceObey(s) \/ UNCHANGED <<outbox, inspecting>>
           /\ conn'[s] \in BeforeState => conn[s] \in BeforeState
BY DEF Unlisting, Device, Accept, AcceptError, ReceiveRegistration, RegistrationError,
       RegisterRun, SaveDevice, InsertDevice, Receive, ReceiveError, StoreMessage, Connect,
       DeviceRegister, DeviceData, DeviceObey, DeviceQuit, DeviceCrash, BeforeState, Goto,
       TypeOK, repositoryVars, proxyVars, connectionVars

\* A request sends to the devices its run lists, and to no other.
LEMMA RequestCommands ==
    ASSUME TypeOK, NEW r \in Run, Request(r)
    PROVE  /\ UNCHANGED <<inspecting, conn>>
           /\ \A c \in Socket : c \notin SocketsOf(runDevices[r]) => outbox'[c] = outbox[c]
<1>1. UNCHANGED <<inspecting, conn>>
    BY DEF Request, connectionVars
<1>2. ASSUME NEW names \in SUBSET Name, SelectDevices(r, names), NEW c \in Socket,
             c \notin SocketsOf(runDevices[r])
      PROVE  outbox'[c] = outbox[c]
    <2>1. \A E \in SUBSET runDevices[r] : c \notin SocketsOf(E)
        BY <1>2 DEF SocketsOf
    <2>2. /\ c \notin SocketsOf({e \in runDevices[r] : e.name \in names})
          /\ c \notin SocketsOf(runDevices[r] \ {e \in runDevices[r] : e.name \in names})
        BY <2>1
    <2> QED
        BY <1>2, <2>2 DEF SelectDevices, Intercept
<1> QED
    BY <1>1, <1>2 DEF Request, SelectAll, InterceptAll, UnselectAll, StopInterceptionAll,
                      TerminateAll, Terminate, Send

\* After a request, what its run's entries say is what their devices will do.
LEMMA RequestAgrees ==
    ASSUME TypeOK, NEW r \in Run, Request(r), OneEach(runDevices[r]),
           \A e \in runDevices[r] : WillInspect(e.socket, e.isSelected),
           NEW f \in runDevices'[r]
    PROVE  WillInspect(f.socket, f.isSelected)'
<1>1. /\ runDevices[r] \in SUBSET Entry /\ outbox \in [Socket -> Seq(Command)]
      /\ \A e \in runDevices[r] : e.socket \in Socket /\ e.isSelected \in BOOLEAN
    BY EntryTypes DEF TypeOK, DevicesType
<1>2. inspecting' = inspecting
    BY RequestCommands
<1>3. ASSUME NEW v \in BOOLEAN,
             runDevices' = [runDevices EXCEPT ![r] = Mark(@, v)],
             Send(IF v THEN "INSPECT_ON" ELSE "INSPECT_OFF", SocketsOf(runDevices[r]))
      PROVE  WillInspect(f.socket, f.isSelected)'
    <2>1. f \in Mark(runDevices[r], v)
        BY <1>3 DEF TypeOK, DevicesType
    <2>2. PICK e \in runDevices[r] : e.socket = f.socket
        BY <1>1, <2>1, MarkEach
    <2>3. f.isSelected = v
        BY <1>1, <2>1, MarkFlag
    <2>4. f.socket \in Socket /\ f.socket \in SocketsOf(runDevices[r])
        BY <1>1, <2>2 DEF SocketsOf
    <2>5. outbox'[f.socket] = Append(outbox[f.socket], IF v THEN "INSPECT_ON" ELSE "INSPECT_OFF")
        BY <1>3, <2>4 DEF Send
    <2> QED
        BY <1>1, <2>3, <2>4, <2>5, LastWord
<1>4. CASE SelectAll(r)
    <2>1. /\ runDevices' = [runDevices EXCEPT ![r] = Mark(@, TRUE)]
          /\ Send("INSPECT_ON", SocketsOf(runDevices[r]))
        BY <1>4 DEF SelectAll, InterceptAll
    <2> QED
        BY <1>3, <2>1
<1>5. CASE UnselectAll(r)
    <2>1. /\ runDevices' = [runDevices EXCEPT ![r] = Mark(@, FALSE)]
          /\ Send("INSPECT_OFF", SocketsOf(runDevices[r]))
        BY <1>5 DEF UnselectAll, StopInterceptionAll
    <2> QED
        BY <1>3, <2>1
<1>6. CASE TerminateAll(r)
    <2>1. runDevices' = runDevices /\ Send("TERMINATE", SocketsOf(runDevices[r]))
        BY <1>6 DEF TerminateAll, Terminate
    <2>2. f \in runDevices[r] /\ f.socket \in Socket /\ f.socket \in SocketsOf(runDevices[r])
        BY <1>1, <2>1 DEF SocketsOf
    <2>3. outbox'[f.socket] = Append(outbox[f.socket], "TERMINATE")
        BY <2>1, <2>2 DEF Send
    <2>4. WillInspect(f.socket, f.isSelected) /\ f.isSelected \in BOOLEAN
        BY <1>1, <2>2
    <2> QED
        BY <1>1, <1>2, <2>2, <2>3, <2>4, TerminateIsSilent
<1>7. ASSUME NEW names \in SUBSET Name, SelectDevices(r, names)
      PROVE  WillInspect(f.socket, f.isSelected)'
    <2> DEFINE chosen == {e \in runDevices[r] : e.name \in names}
               others == runDevices[r] \ chosen
    <2>1. /\ runDevices' = [runDevices EXCEPT ![r] = Mark(chosen, TRUE) \cup Mark(others, FALSE)]
          /\ \A s \in Socket :
               /\ s \in SocketsOf(chosen) => outbox'[s] = Append(outbox[s], "INSPECT_ON")
               /\ s \notin SocketsOf(chosen) /\ s \in SocketsOf(others)
                    => outbox'[s] = Append(outbox[s], "INSPECT_OFF")
        BY <1>7 DEF SelectDevices, Intercept
    <2>2. /\ chosen \in SUBSET Entry /\ others \in SUBSET Entry
          /\ \A e \in chosen : e \in runDevices[r]
          /\ \A e \in others : e \in runDevices[r] /\ e \notin chosen
        BY <1>1
    <2>3. f \in Mark(chosen, TRUE) \/ f \in Mark(others, FALSE)
        BY <2>1 DEF TypeOK, DevicesType
    <2> HIDE DEF chosen, others
    <2>4. CASE f \in Mark(chosen, TRUE)
        <3>1. PICK e \in chosen : e.socket = f.socket
            BY <2>2, <2>4, MarkEach
        <3>2. f.isSelected = TRUE
            BY <2>2, <2>4, MarkFlag
        <3>3. f.socket \in Socket /\ f.socket \in SocketsOf(chosen)
            BY <1>1, <2>2, <3>1 DEF SocketsOf
        <3>4. outbox'[f.socket] = Append(outbox[f.socket], "INSPECT_ON")
            BY <2>1, <3>3
        <3>5. WillInspect(f.socket, TRUE)'
            BY <1>1, <3>3, <3>4, LastWord
        <3> QED
            BY <3>2, <3>5
    <2>5. CASE f \in Mark(others, FALSE)
        <3>1. PICK e \in others : e.socket = f.socket
            BY <2>2, <2>5, MarkEach
        <3>2. f.isSelected = FALSE
            BY <2>2, <2>5, MarkFlag
        <3>3. f.socket \in Socket /\ f.socket \in SocketsOf(others)
            BY <1>1, <2>2, <3>1 DEF SocketsOf
        <3>4. f.socket \notin SocketsOf(chosen)
            <4>1. \A c \in chosen : c.socket # e.socket
                BY <2>2, <3>1 DEF OneEach
            <4> QED
                BY <3>1, <4>1 DEF SocketsOf
        <3>5. outbox'[f.socket] = Append(outbox[f.socket], "INSPECT_OFF")
            BY <2>1, <3>3, <3>4
        <3>6. WillInspect(f.socket, FALSE)'
            BY <1>1, <3>3, <3>5, LastWord
        <3> QED
            BY <3>2, <3>6
    <2> QED
        BY <2>3, <2>4, <2>5
<1> QED
    BY <1>4, <1>5, <1>6, <1>7 DEF Request

\* A device that is not listed yet has received no command.
LEMMA QuietStep ==
    TypeOK /\ ListedIsServed /\ QuietBefore /\ [Next]_vars => QuietBefore'
<1> SUFFICES ASSUME TypeOK, ListedIsServed, QuietBefore, [Next]_vars,
                    NEW c \in Socket, conn'[c] \in BeforeState
             PROVE  outbox'[c] = <<>> /\ inspecting'[c] = FALSE
    BY DEF QuietBefore, BeforeState
<1>1. conn[c] \in BeforeState => outbox[c] = <<>> /\ inspecting[c] = FALSE
    BY DEF QuietBefore, BeforeState
<1>2. ASSUME NEW s \in Socket, Unlisting(s)
      PROVE  outbox'[c] = <<>> /\ inspecting'[c] = FALSE
    <2>1. conn[c] \in BeforeState
        BY <1>2, UnlistingCommands, UnlistingFacts
    <2>2. CASE DeviceObey(s)
        <3>1. outbox[s] # <<>> /\ s # c
            BY <1>1, <2>1, <2>2 DEF DeviceObey
        <3>2. outbox'[c] = outbox[c] /\ inspecting'[c] = inspecting[c]
            BY <2>2, <3>1 DEF DeviceObey, TypeOK, DevicesType
        <3> QED
            BY <1>1, <2>1, <3>2
    <2> QED
        BY <1>1, <1>2, <2>1, <2>2, UnlistingCommands
<1>3. ASSUME NEW s \in Socket, RegisterDevice(s) \/ DropDevice(s)
      PROVE  outbox'[c] = <<>> /\ inspecting'[c] = FALSE
    <2>1. /\ UNCHANGED <<outbox, inspecting>>
          /\ conn' = [conn EXCEPT ![s] = "insertDevice"] \/ conn' = [conn EXCEPT ![s] = "ended"]
        BY <1>3 DEF RegisterDevice, AddDevice, DropDevice, RemoveDevice, Found, KeysAfter, connectionVars, Goto
    <2>2. conn[c] \in BeforeState
        BY <2>1 DEF TypeOK, BeforeState
    <2> QED
        BY <1>1, <2>1, <2>2
<1>4. ASSUME NEW r \in Run, Request(r)
      PROVE  outbox'[c] = <<>> /\ inspecting'[c] = FALSE
    <2>1. conn[c] \in BeforeState
        BY <1>4, RequestCommands
    <2>2. c \notin SocketsOf(runDevices[r])
        BY <2>1 DEF ListedIsServed, BeforeState, SocketsOf
    <2> QED
        BY <1>1, <1>4, <2>1, <2>2, RequestCommands
<1>5. CASE UNCHANGED vars
    BY <1>1, <1>5 DEF vars
<1> QED
    BY <1>2, <1>3, <1>4, <1>5, StepKinds

\* Flag and commands change together in every step.
LEMMA SelectionStep ==
    TypeOK /\ ListedIsServed /\ QuietBefore /\ SelectionAgreement /\ [Next]_vars
        => SelectionAgreement'
<1> SUFFICES ASSUME TypeOK, ListedIsServed, QuietBefore, SelectionAgreement, [Next]_vars,
                    NEW q \in Run, NEW f \in runDevices'[q]
             PROVE  WillInspect(f.socket, f.isSelected)'
    BY DEF SelectionAgreement
<1>1. \A r \in Run : \A e \in runDevices[r] :
        /\ e.socket \in Socket /\ e.isSelected \in BOOLEAN
        /\ WillInspect(e.socket, e.isSelected)
    BY EntryTypes DEF SelectionAgreement
<1>2. ASSUME f \in runDevices[q], outbox'[f.socket] = outbox[f.socket],
             inspecting'[f.socket] = inspecting[f.socket]
      PROVE  WillInspect(f.socket, f.isSelected)'
    BY <1>1, <1>2 DEF WillInspect
<1>3. ASSUME NEW s \in Socket, Unlisting(s) PROVE WillInspect(f.socket, f.isSelected)'
    <2>1. f \in runDevices[q]
        BY <1>3, UnlistingFacts
    <2>2. CASE DeviceObey(s) /\ s = f.socket
        BY <1>1, <2>1, <2>2, ObeyKeeps
    <2>3. CASE DeviceObey(s) /\ s # f.socket
        <3>1. outbox'[f.socket] = outbox[f.socket] /\ inspecting'[f.socket] = inspecting[f.socket]
            BY <1>1, <2>1, <2>3 DEF DeviceObey, TypeOK, DevicesType
        <3> QED
            BY <1>2, <2>1, <3>1
    <2>4. CASE UNCHANGED <<outbox, inspecting>>
        BY <1>2, <2>1, <2>4
    <2> QED
        BY <1>3, <2>2, <2>3, <2>4, UnlistingCommands
<1>4. ASSUME NEW s \in Socket, RegisterDevice(s) PROVE WillInspect(f.socket, f.isSelected)'
    <2> DEFINE entry == [name |-> NameOf[s], socket |-> s, isSelected |-> FALSE]
    <2>1. /\ runDevices' = [runDevices EXCEPT ![RunOf[s]] = @ \cup {entry}]
          /\ conn[s] = "addDevice"
          /\ UNCHANGED <<outbox, inspecting>>
        BY <1>4 DEF RegisterDevice, AddDevice, connectionVars
    <2>2. f \in runDevices[q] \/ f = entry
        BY <2>1 DEF TypeOK, DevicesType
    <2>3. outbox'[s] = <<>> /\ inspecting'[s] = FALSE
        BY <2>1 DEF QuietBefore
    <2>4. WillInspect(s, FALSE)'
        BY <2>3 DEF WillInspect
    <2>5. entry.socket = s /\ entry.isSelected = FALSE
        OBVIOUS
    <2> HIDE DEF entry
    <2>6. CASE f = entry
        BY <2>4, <2>5, <2>6
    <2> QED
        BY <1>2, <2>1, <2>2, <2>6
<1>5. ASSUME NEW s \in Socket, DropDevice(s) PROVE WillInspect(f.socket, f.isSelected)'
    <2>1. UNCHANGED <<outbox, inspecting>>
        BY <1>5 DEF DropDevice, RemoveDevice, Found, KeysAfter, connectionVars
    <2>2. PICK rest : /\ rest \subseteq runDevices[RunOf[s]]
                      /\ runDevices' = [runDevices EXCEPT ![RunOf[s]] = rest]
        BY <1>5 DEF DropDevice, RemoveDevice, Found, KeysAfter
    <2>3. f \in runDevices[q]
        BY <2>2 DEF TypeOK, DevicesType
    <2> QED
        BY <1>2, <2>1, <2>3
<1>6. ASSUME NEW r \in Run, Request(r) PROVE WillInspect(f.socket, f.isSelected)'
    <2>1. CASE q = r
        <3>1. OneEach(runDevices[r])
            BY DEF ListedIsServed, OneEach
        <3> QED
            BY <1>1, <1>6, <2>1, <3>1, RequestAgrees
    <2>2. CASE q # r
        <3>1. f \in runDevices[q] /\ RunOf[f.socket] = q
            BY <1>6, <2>2, RequestEntries DEF TypeOK, ListedIsServed
        <3>2. f.socket \notin SocketsOf(runDevices[r])
            BY <2>2, <3>1 DEF ListedIsServed, SocketsOf
        <3>3. outbox'[f.socket] = outbox[f.socket] /\ inspecting' = inspecting
            BY <1>1, <1>6, <3>1, <3>2, RequestCommands
        <3> QED
            BY <1>2, <3>1, <3>3
    <2> QED
        BY <2>1, <2>2
<1>7. CASE UNCHANGED vars
    BY <1>2, <1>7 DEF vars
<1> QED
    BY <1>3, <1>4, <1>5, <1>6, <1>7, StepKinds

\* The list and the wire agree on which devices inspect.
THEOREM Agreement == Spec => []SelectionAgreement
<1>1. Init => QuietBefore /\ SelectionAgreement
    BY DEF Init, DevicesInit, QuietBefore, SelectionAgreement
<1> QED
    BY <1>1, QuietStep, SelectionStep, TypeCorrect, Served, PTL DEF Spec

-----------------------------------------------------------------------------
(* Entering and leaving the list.                                          *)

\* A connection past updateStatus has a run that is no longer STARTING.
StartedBefore ==
    \A s \in Socket : conn[s] = "addDevice" => runStatus[RunOf[s]] # "STARTING"

\* A run has left STARTING before addDevice, and stays so.
LEMMA StartedStep ==
    TypeOK /\ StartedBefore /\ ListedRunHasStarted /\ [Next]_vars
        => StartedBefore' /\ ListedRunHasStarted'
<1> SUFFICES ASSUME TypeOK, StartedBefore, ListedRunHasStarted, [Next]_vars
             PROVE  StartedBefore' /\ ListedRunHasStarted'
    OBVIOUS
<1> USE DEF StartedBefore, ListedRunHasStarted
<1>1. ASSUME NEW s \in Socket, RegisterRun(s) PROVE StartedBefore' /\ ListedRunHasStarted'
    <2>1. /\ runDevices' = runDevices
          /\ \A c \in Socket \ {s} : conn'[c] = conn[c]
          /\ conn'[s] \in {"addDevice", "receive"}
        BY <1>1 DEF RegisterRun, repositoryVars, Goto, TypeOK
    <2>2. \A r \in Run : runStatus'[r] = "STARTING" => runStatus[r] = "STARTING"
        BY <1>1 DEF RegisterRun, UpdateStatus, TypeOK, RunStatusType
    <2>3. conn'[s] = "addDevice" => runStatus'[RunOf[s]] # "STARTING"
        BY <1>1 DEF RegisterRun, UpdateStatus, TypeOK, RunStatusType, Goto
    <2> QED
        BY <2>1, <2>2, <2>3
<1>2. ASSUME NEW s \in Socket, Unlisting(s), ~RegisterRun(s)
      PROVE  StartedBefore' /\ ListedRunHasStarted'
    <2>1. /\ UNCHANGED <<runStatus, runDevices>>
          /\ conn'[s] = "addDevice" => conn[s] = "addDevice"
        BY <1>2 DEF Unlisting, Device, Accept, AcceptError, ReceiveRegistration,
           RegistrationError, SaveDevice, InsertDevice, Receive, ReceiveError, StoreMessage,
           Connect, DeviceRegister, DeviceData, DeviceObey, DeviceQuit, DeviceCrash, Goto,
           TypeOK, repositoryVars, proxyVars
    <2>2. \A c \in Socket \ {s} : conn'[c] = conn[c]
        BY <1>2, UnlistingFacts
    <2> QED
        BY <2>1, <2>2
<1>3. ASSUME NEW s \in Socket, RegisterDevice(s) PROVE StartedBefore' /\ ListedRunHasStarted'
    <2>1. /\ \A r \in Run : r # RunOf[s] => runDevices'[r] = runDevices[r]
          /\ \A c \in Socket : conn'[c] = "addDevice" => conn[c] = "addDevice"
          /\ runStatus' = runStatus /\ conn[s] = "addDevice"
        BY <1>3 DEF RegisterDevice, AddDevice, Goto, TypeOK, DevicesType
    <2> QED
        BY <2>1
<1>4. ASSUME NEW s \in Socket, DropDevice(s) PROVE StartedBefore' /\ ListedRunHasStarted'
    <2>1. /\ \A c \in Socket : conn'[c] = "addDevice" => conn[c] = "addDevice"
          /\ runStatus' = runStatus
        BY <1>4 DEF DropDevice, Goto, TypeOK
    <2>2. \A r \in Run : runDevices'[r] \subseteq runDevices[r]
        BY <1>4 DEF DropDevice, RemoveDevice, Found, KeysAfter, TypeOK, DevicesType
    <2> QED
        BY <2>1, <2>2
<1>5. ASSUME NEW r \in Run, Request(r) PROVE StartedBefore' /\ ListedRunHasStarted'
    <2>1. conn' = conn /\ runStatus' = runStatus
        BY <1>5 DEF Request
    <2>2. \A q \in Run : runDevices'[q] # {} => runDevices[q] # {}
        BY <1>5, RequestEntries DEF TypeOK
    <2> QED
        BY <2>1, <2>2
<1>6. CASE UNCHANGED vars
    BY <1>6 DEF vars
<1> QED
    BY <1>1, <1>2, <1>3, <1>4, <1>5, <1>6, StepKinds

\* No run with a listed device shows STARTING.
THEOREM Started == Spec => []ListedRunHasStarted
<1>1. Init => StartedBefore /\ ListedRunHasStarted
    BY DEF Init, DevicesInit, StartedBefore, ListedRunHasStarted
<1> QED
    BY <1>1, StartedStep, TypeCorrect, PTL DEF Spec

\* A step that shortens a list is removeDevice, at the end of the connection
\* of the one device it takes off.
LEMMA Leaving ==
    ASSUME TypeOK, [Next]_vars, NEW r \in Run, NEW e \in runDevices[r],
           \A f \in runDevices'[r] : f.socket # e.socket
    PROVE  DropDevice(e.socket)
<1>1. ASSUME NEW s \in Socket, Unlisting(s) PROVE FALSE
    BY <1>1, UnlistingFacts
<1>2. ASSUME NEW s \in Socket, RegisterDevice(s) PROVE FALSE
    <2>1. e \in runDevices'[r]
        BY <1>2 DEF RegisterDevice, AddDevice, TypeOK, DevicesType
    <2> QED
        BY <2>1
<1>3. ASSUME NEW s \in Socket, DropDevice(s), s # e.socket PROVE FALSE
    <2>1. e \in runDevices'[r]
        BY <1>3 DEF DropDevice, RemoveDevice, Found, KeysAfter, TypeOK, DevicesType
    <2> QED
        BY <2>1
<1>4. ASSUME NEW q \in Run, Request(q) PROVE FALSE
    BY <1>4, RequestEntries DEF TypeOK
<1>5. CASE UNCHANGED vars
    BY <1>5 DEF vars
<1> QED
    BY <1>1, <1>2, <1>3, <1>4, <1>5, StepKinds

\* A device is taken off the list by the end of its own connection only.
THEOREM Leaves == Spec => LeavesByItself
<1>1. TypeOK /\ [Next]_vars =>
        [\A s \in Socket : Listed(s) /\ ~Listed(s)'
            => conn[s] = "removeDevice" /\ conn'[s] = "ended"]_vars
    <2> SUFFICES ASSUME TypeOK, [Next]_vars, NEW s \in Socket, Listed(s), ~Listed(s)'
                 PROVE  conn[s] = "removeDevice" /\ conn'[s] = "ended"
        OBVIOUS
    <2>1. PICK r \in Run : \E e \in runDevices[r] : e.socket = s
        BY DEF Listed, SocketsOf
    <2>2. PICK e \in runDevices[r] : e.socket = s
        BY <2>1
    <2>3. \A f \in runDevices'[r] : f.socket # s
        BY DEF Listed, SocketsOf
    <2>4. DropDevice(s)
        BY <2>2, <2>3, Leaving
    <2> QED
        BY <2>4 DEF DropDevice, Goto, TypeOK
<1> QED
    BY <1>1, TypeCorrect, PTL DEF Spec, LeavesByItself

\* When the last device leaves, the run's key goes with it.
LEMMA LastLeaves ==
    ASSUME TypeOK, ListedIsServed, [Next]_vars, NEW r \in Run,
           runDevices[r] # {}, runDevices'[r] = {}
    PROVE  GetDevices(r, RunOf)' = {<<s, FALSE>> : s \in {d \in deviceDocs : RunOf[d] = r}}
<1>1. PICK e \in runDevices[r] : TRUE
    OBVIOUS
<1>2. DropDevice(e.socket)
    BY <1>1, Leaving
<1>3. RunOf[e.socket] = r
    BY DEF ListedIsServed
<1>4. deviceDocs' = deviceDocs /\ r \notin runKeys'
    BY <1>2, <1>3 DEF DropDevice, RemoveDevice, Found, KeysAfter, TypeOK, DevicesType
<1> QED
    BY <1>4 DEF GetDevices

\* What is listed of a run without devices comes from the collection again.
THEOREM History == Spec => HistoryReturns
<1>1. TypeOK /\ ListedIsServed /\ [Next]_vars =>
        [\A r \in Run :
            runDevices[r] # {} /\ runDevices'[r] = {}
                => GetDevices(r, RunOf)' = {<<s, FALSE>> : s \in {d \in deviceDocs : RunOf[d] = r}}]_vars
    BY LastLeaves
<1> QED
    BY <1>1, TypeCorrect, Served, PTL DEF Spec, HistoryReturns

-----------------------------------------------------------------------------
(* Without refused writes, a connection that is read is listed.            *)

\* Once past addDevice a connection is listed, and recorded when the insertion
\* is done too, provided that no write was refused.
Recorded(s) ==
    /\ conn[s] \in ServedState => Listed(s)
    /\ conn[s] \in ServedState \ {"insertDevice"} => s \in deviceDocs

RecordedInv == failures = 0 => \A s \in Socket : Recorded(s)

\* No step but its own last one takes a served connection off the list.
LEMMA ListedStays ==
    ASSUME TypeOK, [Next]_vars, NEW s \in Socket, Listed(s), ~DropDevice(s)
    PROVE  Listed(s)'
<1>1. PICK r \in Run : \E e \in runDevices[r] : e.socket = s
    BY DEF Listed, SocketsOf
<1>2. PICK e \in runDevices[r] : e.socket = s
    BY <1>1
<1>3. PICK f \in runDevices'[r] : f.socket = s
    BY <1>2, Leaving
<1> QED
    BY <1>3 DEF Listed, SocketsOf

\* A step of the connection keeps RecordedInv for it, or counts a refusal.
LEMMA RecordedLocal ==
    ASSUME TypeOK, NEW s \in Socket,
           Unlisting(s) \/ RegisterDevice(s) \/ DropDevice(s),
           failures = 0 => Recorded(s),
           Listed(s) /\ ~DropDevice(s) => Listed(s)',
           failures' = 0
    PROVE  /\ Recorded(s)'
           /\ failures = 0
           /\ deviceDocs \subseteq deviceDocs'
           /\ \A c \in Socket \ {s} : conn'[c] = conn[c]
<1> USE DEF TypeOK, Recorded, ServedState, Goto, Fail
<1>0. failures \in Nat
    OBVIOUS
<1>1. CASE RegisterDevice(s)
    <2> DEFINE entry == [name |-> NameOf[s], socket |-> s, isSelected |-> FALSE]
    <2>1. entry \in runDevices'[RunOf[s]] /\ entry.socket = s
        BY <1>1 DEF RegisterDevice, AddDevice, DevicesType
    <2>2. Listed(s)'
        BY <2>1 DEF Listed, SocketsOf
    <2> QED
        BY <1>1, <2>2 DEF RegisterDevice, AddDevice
<1>2. CASE DropDevice(s)
    BY <1>2 DEF DropDevice, RemoveDevice
<1>3. CASE RegisterRun(s)
    BY <1>3, <1>0 DEF RegisterRun, repositoryVars
<1>4. CASE SaveDevice(s)
    <2>1. ~DropDevice(s)
        BY <1>4 DEF SaveDevice, DropDevice
    <2> QED
        BY <1>4, <1>0, <2>1 DEF SaveDevice, InsertDevice
<1>5. CASE StoreMessage(s)
    <2>1. ~DropDevice(s)
        BY <1>5 DEF StoreMessage, DropDevice
    <2> QED
        BY <1>5, <1>0, <2>1 DEF StoreMessage, repositoryVars
<1>6. CASE Receive(s) \/ ReceiveError(s)
    <2>1. ~DropDevice(s)
        BY <1>6 DEF Receive, ReceiveError, DropDevice
    <2> QED
        BY <1>6, <2>1 DEF Receive, ReceiveError, repositoryVars
<1>7. CASE Accept(s) \/ AcceptError(s) \/ ReceiveRegistration(s) \/ RegistrationError(s)
    BY <1>7 DEF Accept, AcceptError, ReceiveRegistration, RegistrationError, repositoryVars
<1>8. CASE Device(s)
    <2>1. UNCHANGED <<failures, deviceDocs, runDevices>>
        BY <1>8 DEF Device, Connect, DeviceRegister, DeviceData, DeviceObey, DeviceQuit,
                    DeviceCrash, proxyVars
    <2>2. conn' = conn \/ (conn[s] = "none" /\ conn' = [conn EXCEPT ![s] = "backlog"])
        BY <1>8 DEF Device, Connect, DeviceRegister, DeviceData, DeviceObey, DeviceQuit,
                    DeviceCrash
    <2>3. Listed(s)' <=> Listed(s)
        BY <2>1 DEF Listed
    <2> QED
        BY <2>1, <2>2, <2>3
<1> QED
    BY <1>1, <1>2, <1>3, <1>4, <1>5, <1>6, <1>7, <1>8 DEF Unlisting

\* RecordedInv is inductive, given the types.
LEMMA RecordedStep == TypeOK /\ RecordedInv /\ [Next]_vars => RecordedInv'
<1> SUFFICES ASSUME TypeOK, RecordedInv, [Next]_vars, failures' = 0, NEW c \in Socket
             PROVE  Recorded(c)'
    BY DEF RecordedInv
<1>1. ASSUME NEW s \in Socket, Unlisting(s) \/ RegisterDevice(s) \/ DropDevice(s)
      PROVE  Recorded(c)'
    <2>0. Listed(s) /\ ~DropDevice(s) => Listed(s)'
        BY ListedStays
    <2>1. failures = 0 => Recorded(s)
        BY DEF RecordedInv
    <2>2. /\ Recorded(s)'
          /\ failures = 0
          /\ deviceDocs \subseteq deviceDocs'
          /\ c # s => conn'[c] = conn[c]
        BY <1>1, <2>0, <2>1, RecordedLocal
    <2>3. ASSUME c # s PROVE Recorded(c)'
        <3>1. Recorded(c) /\ conn'[c] = conn[c]
            BY <2>2, <2>3 DEF RecordedInv
        <3>2. ~DropDevice(c)
            BY <2>3, <3>1 DEF DropDevice, Goto, TypeOK
        <3> QED
            BY <2>2, <3>1, <3>2, ListedStays DEF Recorded
    <2> QED
        BY <2>2, <2>3
<1>2. CASE (\E r \in Run : Request(r)) \/ UNCHANGED vars
    <2>1. UNCHANGED <<conn, failures, deviceDocs>>
        BY <1>2 DEF vars, Request, SelectAll, SelectDevices, UnselectAll, TerminateAll,
                    InterceptAll, Intercept, StopInterceptionAll, Terminate
    <2>2. ~DropDevice(c)
        BY <2>1 DEF DropDevice, Goto, TypeOK
    <2> QED
        BY <2>1, <2>2, ListedStays DEF RecordedInv, Recorded
<1> QED
    BY <1>1, <1>2, StepKinds

\* While no write was refused, a connection that is read on belongs to a device
\* that is listed and recorded.
THEOREM ReadIsListed == Spec => []ServedIsListed
<1>1. Init => RecordedInv
    BY DEF Init, RecordedInv, Recorded, ServedState
<1>2. RecordedInv => ServedIsListed
    BY DEF RecordedInv, Recorded, ServedState, ServedIsListed
<1> QED
    BY <1>1, <1>2, RecordedStep, TypeCorrect, PTL DEF Spec

-----------------------------------------------------------------------------
(* The messages of one device.                                             *)

\* A device numbers its messages; the numbers grow along the way from the
\* collection through the handler to the inbox, and DEVICE_ON comes first.
Ordered(s) ==
    /\ \A i, j \in DOMAIN messages[s] : i < j => messages[s][i] < messages[s][j]
    /\ \A i \in DOMAIN messages[s] : messages[s][i] <= sent[s]
    /\ conn[s] = "addMessage" =>
        /\ handling[s] <= sent[s]
        /\ \A i \in DOMAIN messages[s] : messages[s][i] < handling[s]
    /\ \A k \in DOMAIN inbox[s] : inbox[s][k].type = "DATA" =>
        /\ inbox[s][k].n <= sent[s]
        /\ \A i \in DOMAIN messages[s] : messages[s][i] < inbox[s][k].n
        /\ conn[s] = "addMessage" => handling[s] < inbox[s][k].n
    /\ \A k, l \in DOMAIN inbox[s] :
        k < l /\ inbox[s][k].type = "DATA" /\ inbox[s][l].type = "DATA"
            => inbox[s][k].n < inbox[s][l].n
    /\ \A k \in DOMAIN inbox[s] : inbox[s][k].type = "DEVICE_ON" =>
        k = 1 /\ conn[s] \in {"backlog", "register", "ended"}
    /\ peer[s] = "fresh" => inbox[s] = <<>> /\ conn[s] \in {"backlog", "register"}
    /\ conn[s] = "none" => inbox[s] = <<>> /\ peer[s] = "off"

\* Nothing of this concerns another connection than the one that moves.
LEMMA OrderedLocal ==
    ASSUME NEW s \in Socket, Ordered(s), messages'[s] = messages[s], sent'[s] = sent[s],
           conn'[s] = conn[s], handling'[s] = handling[s], inbox'[s] = inbox[s],
           peer'[s] = peer[s]
    PROVE  Ordered(s)'
BY DEF Ordered

\* What TypeOK says of one connection, for the provers.
LEMMA TypeFacts ==
    ASSUME TypeOK, NEW s \in Socket
    PROVE  /\ messages[s] \in Seq(0..MaxData) /\ inbox[s] \in Seq(Message)
           /\ sent[s] \in Nat /\ handling[s] \in Nat
           /\ Len(messages[s]) \in Nat /\ DOMAIN messages[s] = 1..Len(messages[s])
           /\ Len(inbox[s]) \in Nat /\ DOMAIN inbox[s] = 1..Len(inbox[s])
           /\ \A i \in DOMAIN messages[s] : messages[s][i] \in Nat
           /\ \A k \in DOMAIN inbox[s] : inbox[s][k] \in Message /\ inbox[s][k].n \in Nat
<1>1. MaxData \in Nat /\ 0..MaxData \subseteq Nat
    OBVIOUS
<1>2. messages[s] \in Seq(0..MaxData) /\ inbox[s] \in Seq(Message)
      /\ sent[s] \in Nat /\ handling[s] \in Nat
    BY <1>1 DEF TypeOK
<1>3. \A k \in DOMAIN inbox[s] : inbox[s][k] \in Message
    BY <1>2
<1>4. \A m \in Message : m.n \in Nat
    BY <1>1 DEF Message
<1> QED
    BY <1>1, <1>2, <1>3, <1>4

\* Taking the first message off the inbox.
LEMMA TailFacts ==
    ASSUME TypeOK, NEW s \in Socket, inbox[s] # <<>>,
           inbox' = [inbox EXCEPT ![s] = Tail(@)]
    PROVE  /\ 1 \in DOMAIN inbox[s] /\ Head(inbox[s]) = inbox[s][1]
           /\ \A k \in DOMAIN inbox'[s] : /\ k \in Nat /\ k >= 1
                                          /\ k + 1 \in DOMAIN inbox[s]
                                          /\ inbox'[s][k] = inbox[s][k + 1]
<1> DEFINE box == inbox[s]
<1>1. inbox'[s] = Tail(box) /\ box \in Seq(Message) /\ box # <<>>
    BY DEF TypeOK
<1> HIDE DEF box
<1>2. /\ Len(box) \in Nat /\ Len(box) >= 1 /\ Len(Tail(box)) = Len(box) - 1
      /\ Tail(box) \in Seq(Message)
      /\ \A i \in 1..Len(Tail(box)) : Tail(box)[i] = box[i + 1]
      /\ Head(box) = box[1] /\ DOMAIN box = 1..Len(box)
    BY <1>1, HeadTailProperties
<1>3. DOMAIN inbox'[s] = 1..(Len(box) - 1)
    BY <1>1, <1>2
<1> QED
    BY <1>1, <1>2, <1>3 DEF box

\* Adding one at its end.
LEMMA SendFacts ==
    ASSUME TypeOK, NEW s \in Socket, NEW type, NEW n, DeviceSend(s, type, n)
    PROVE  /\ \A k \in DOMAIN inbox'[s] :
                \/ k \in DOMAIN inbox[s] /\ inbox'[s][k] = inbox[s][k]
                \/ /\ k = Len(inbox[s]) + 1
                   /\ inbox'[s][k].type = type /\ inbox'[s][k].n = n
           /\ \A k \in DOMAIN inbox[s] : k < Len(inbox[s]) + 1 /\ k \in Nat
           /\ Len(inbox[s]) \in Nat
           /\ inbox[s] = <<>> => Len(inbox[s]) = 0
           /\ \A c \in Socket \ {s} : inbox'[c] = inbox[c]
<1> DEFINE m == [type |-> type, n |-> n]
<1>1. inbox'[s] = Append(inbox[s], m) /\ inbox[s] \in Seq(Message)
      /\ \A c \in Socket \ {s} : inbox'[c] = inbox[c]
    BY DEF DeviceSend, TypeOK
<1>2. m.type = type /\ m.n = n
    OBVIOUS
<1> HIDE DEF m
<1>3. /\ DOMAIN inbox'[s] = 1..(Len(inbox[s]) + 1)
      /\ \A k \in 1..Len(inbox[s]) : inbox'[s][k] = inbox[s][k]
      /\ inbox'[s][Len(inbox[s]) + 1] = m
      /\ DOMAIN inbox[s] = 1..Len(inbox[s]) /\ Len(inbox[s]) \in Nat
    BY <1>1
<1>4. \A k \in 1..(Len(inbox[s]) + 1) : k \in 1..Len(inbox[s]) \/ k = Len(inbox[s]) + 1
    BY <1>3
<1>5. \A k \in DOMAIN inbox[s] : k < Len(inbox[s]) + 1 /\ k \in Nat
    BY <1>3
<1>6. inbox[s] = <<>> => Len(inbox[s]) = 0
    OBVIOUS
<1> QED
    BY <1>1, <1>2, <1>3, <1>4, <1>5, <1>6

\* The steps that move no message: the connection goes on, or the device ends.
LEMMA OrderedIdle ==
    ASSUME TypeOK, NEW s \in Socket, Ordered(s),
           UNCHANGED <<messages, sent, inbox, handling>>,
           peer'[s] = peer[s] \/ peer'[s] \notin {"fresh", "off"},
           \/ conn'[s] = conn[s]
           \/ conn[s] = "backlog" /\ conn'[s] = "register"
           \/ /\ conn[s] \in Busy \cup {"receive"} /\ conn[s] # "addMessage"
              /\ conn'[s] \in Busy \cup Over \cup {"receive"} /\ conn'[s] # "addMessage",
           conn'[s] = "none" => peer'[s] = peer[s]
    PROVE  Ordered(s)'
BY DEF Ordered, Busy, Over

\* Every step of a connection keeps its messages in order.
LEMMA OrderedStep ==
    ASSUME TypeOK, \A c \in Socket : Ordered(c), NEW s \in Socket,
           Handler(s) \/ Dispatch(s) \/ Device(s)
    PROVE  Ordered(s)'
<1>1. CASE Receive(s)
    <2>1. /\ inbox' = [inbox EXCEPT ![s] = Tail(@)] /\ inbox[s] # <<>> /\ conn[s] = "receive"
          /\ UNCHANGED <<peer, sent, messages>>
        BY <1>1 DEF Receive
    <2>2. /\ 1 \in DOMAIN inbox[s] /\ Head(inbox[s]) = inbox[s][1]
          /\ \A k \in DOMAIN inbox'[s] : /\ k \in Nat /\ k >= 1
                                         /\ k + 1 \in DOMAIN inbox[s]
                                         /\ inbox'[s][k] = inbox[s][k + 1]
        BY <2>1, TailFacts
    <2>3. \/ conn'[s] = "removeDevice"
          \/ /\ conn'[s] = "addMessage" /\ handling'[s] = inbox[s][1].n
             /\ inbox[s][1].type # "DEVICE_OFF"
        BY <1>1, <2>2 DEF Receive, Goto, TypeOK
    <2>4. \A k \in DOMAIN inbox[s] : inbox[s][k].type # "DEVICE_ON"
        BY <2>1 DEF Ordered
    <2>5. inbox[s][1].type \in {"DATA", "DEVICE_OFF"}
        BY <2>2, <2>4, TypeFacts DEF Message
    <2>6. \A k \in DOMAIN inbox'[s] : inbox'[s][k].type = "DATA" =>
            /\ inbox'[s][k].n <= sent[s]
            /\ \A i \in DOMAIN messages[s] : messages[s][i] < inbox'[s][k].n
            /\ inbox[s][1].type = "DATA" => inbox[s][1].n < inbox'[s][k].n
        <3>1. \A k \in DOMAIN inbox'[s] : 1 < k + 1
            BY <2>2
        <3> QED
            BY <2>2, <3>1 DEF Ordered
    <2>7. \A k, l \in DOMAIN inbox'[s] :
            k < l /\ inbox'[s][k].type = "DATA" /\ inbox'[s][l].type = "DATA"
                => inbox'[s][k].n < inbox'[s][l].n
        <3>1. \A k, l \in DOMAIN inbox'[s] : k < l => k + 1 < l + 1
            BY <2>2
        <3> QED
            BY <2>2, <3>1 DEF Ordered
    <2>8. \A k \in DOMAIN inbox'[s] : inbox'[s][k].type # "DEVICE_ON"
        BY <2>2, <2>4
    <2>9. peer[s] # "fresh"
        BY <2>1 DEF Ordered
    <2> QED
        BY <2>1, <2>2, <2>3, <2>5, <2>6, <2>7, <2>8, <2>9 DEF Ordered
<1>2. CASE ReceiveRegistration(s)
    <2>1. /\ inbox' = [inbox EXCEPT ![s] = Tail(@)] /\ inbox[s] # <<>> /\ conn[s] = "register"
          /\ UNCHANGED <<peer, sent, messages, handling>>
          /\ conn'[s] \in {"updateStatus", "abandoned"}
        BY <1>2 DEF ReceiveRegistration, Goto, storeVars, TypeOK
    <2>2. /\ 1 \in DOMAIN inbox[s]
          /\ \A k \in DOMAIN inbox'[s] : /\ k \in Nat /\ k >= 1
                                         /\ k + 1 \in DOMAIN inbox[s]
                                         /\ inbox'[s][k] = inbox[s][k + 1]
        BY <2>1, TailFacts
    <2>3. \A k \in DOMAIN inbox'[s] : inbox'[s][k].type # "DEVICE_ON"
        <3>1. \A k \in DOMAIN inbox'[s] : k + 1 # 1
            BY <2>2
        <3> QED
            BY <2>2, <3>1 DEF Ordered
    <2>4. \A k, l \in DOMAIN inbox'[s] : k < l => k + 1 < l + 1
        BY <2>2
    <2>5. peer[s] # "fresh"
        BY <2>1 DEF Ordered
    <2>6. \A k \in DOMAIN inbox'[s] : inbox'[s][k].type = "DATA" =>
            /\ inbox'[s][k].n <= sent[s]
            /\ \A i \in DOMAIN messages[s] : messages[s][i] < inbox'[s][k].n
        BY <2>2 DEF Ordered
    <2>7. \A k, l \in DOMAIN inbox'[s] :
            k < l /\ inbox'[s][k].type = "DATA" /\ inbox'[s][l].type = "DATA"
                => inbox'[s][k].n < inbox'[s][l].n
        BY <2>2, <2>4 DEF Ordered
    <2> QED
        BY <2>1, <2>3, <2>5, <2>6, <2>7 DEF Ordered
<1>3. CASE StoreMessage(s)
    <2>1. /\ UNCHANGED <<inbox, sent, peer>> /\ conn[s] = "addMessage" /\ conn'[s] = "receive"
          /\ messages'[s] = messages[s] \/ messages'[s] = Append(messages[s], handling[s])
        BY <1>3 DEF StoreMessage, Goto, connectionVars, TypeOK
    <2>2. CASE messages'[s] = messages[s]
        BY <2>1, <2>2 DEF Ordered
    <2>3. CASE messages'[s] = Append(messages[s], handling[s])
        <3>1. /\ Len(messages[s]) \in Nat /\ DOMAIN messages[s] = 1..Len(messages[s])
              /\ DOMAIN messages'[s] = 1..(Len(messages[s]) + 1)
              /\ \A i \in DOMAIN messages[s] : messages'[s][i] = messages[s][i]
              /\ messages'[s][Len(messages[s]) + 1] = handling[s]
            BY <2>3, TypeFacts
        <3>2. \A i \in DOMAIN messages'[s] :
                i \in DOMAIN messages[s] \/ i = Len(messages[s]) + 1
            BY <3>1
        <3>3. \A i, j \in DOMAIN messages'[s] : i < j => i \in DOMAIN messages[s]
            BY <3>1
        <3> QED
            BY <2>1, <3>1, <3>2, <3>3 DEF Ordered
    <2> QED
        BY <2>1, <2>2, <2>3
<1>4. CASE DeviceData(s)
    <2>1. /\ DeviceSend(s, "DATA", sent[s] + 1) /\ sent'[s] = sent[s] + 1 /\ peer'[s] = "on"
          /\ peer[s] \in {"fresh", "on"}
          /\ UNCHANGED <<conn, messages, handling>>
        BY <1>4 DEF DeviceData, proxyVars, storeVars, TypeOK
    <2>2. /\ sent[s] \in Nat /\ handling[s] \in Nat
          /\ \A i \in DOMAIN messages[s] : messages[s][i] \in Nat
          /\ \A k \in DOMAIN inbox[s] : inbox[s][k].n \in Nat
        BY TypeFacts
    <2>3. /\ \A k \in DOMAIN inbox'[s] :
                \/ k \in DOMAIN inbox[s] /\ inbox'[s][k] = inbox[s][k]
                \/ /\ k = Len(inbox[s]) + 1
                   /\ inbox'[s][k].type = "DATA" /\ inbox'[s][k].n = sent[s] + 1
          /\ \A k \in DOMAIN inbox[s] : k < Len(inbox[s]) + 1 /\ k \in Nat
          /\ Len(inbox[s]) \in Nat
        BY <2>1, SendFacts
    <2>4. conn[s] # "none"
        BY <2>1 DEF Ordered
    <2>5. \A i \in DOMAIN messages'[s] : messages'[s][i] <= sent'[s]
        BY <2>1, <2>2 DEF Ordered
    <2>6. conn'[s] = "addMessage" => handling'[s] <= sent'[s]
        BY <2>1, <2>2 DEF Ordered
    <2>7. ASSUME NEW k \in DOMAIN inbox'[s], inbox'[s][k].type = "DATA"
          PROVE  /\ inbox'[s][k].n <= sent'[s]
                 /\ \A i \in DOMAIN messages[s] : messages[s][i] < inbox'[s][k].n
                 /\ conn[s] = "addMessage" => handling[s] < inbox'[s][k].n
        <3>1. CASE k \in DOMAIN inbox[s] /\ inbox'[s][k] = inbox[s][k]
            <4>1. /\ inbox[s][k].n <= sent[s]
                  /\ \A i \in DOMAIN messages[s] : messages[s][i] < inbox[s][k].n
                  /\ conn[s] = "addMessage" => handling[s] < inbox[s][k].n
                BY <2>7, <3>1 DEF Ordered
            <4>2. inbox[s][k].n <= sent[s] + 1
                BY <2>2, <3>1, <4>1
            <4> QED
                BY <2>1, <3>1, <4>1, <4>2
        <3>2. CASE inbox'[s][k].n = sent[s] + 1
            <4>1. /\ \A i \in DOMAIN messages[s] : messages[s][i] <= sent[s]
                  /\ conn[s] = "addMessage" => handling[s] <= sent[s]
                BY DEF Ordered
            <4>2. /\ \A i \in DOMAIN messages[s] : messages[s][i] < sent[s] + 1
                  /\ conn[s] = "addMessage" => handling[s] < sent[s] + 1
                BY <2>2, <4>1
            <4> QED
                BY <2>1, <2>2, <3>2, <4>2
        <3> QED
            BY <2>3, <3>1, <3>2
    <2>8. ASSUME NEW k \in DOMAIN inbox'[s], NEW l \in DOMAIN inbox'[s], k < l,
                 inbox'[s][k].type = "DATA", inbox'[s][l].type = "DATA"
          PROVE  inbox'[s][k].n < inbox'[s][l].n
        <3>1. k \in DOMAIN inbox[s] /\ inbox'[s][k] = inbox[s][k]
            BY <2>3, <2>8
        <3>2. CASE l \in DOMAIN inbox[s] /\ inbox'[s][l] = inbox[s][l]
            BY <2>8, <3>1, <3>2 DEF Ordered
        <3>3. CASE inbox'[s][l].n = sent[s] + 1
            BY <2>2, <2>8, <3>1, <3>3 DEF Ordered
        <3> QED
            BY <2>3, <3>2, <3>3
    <2>9. \A k \in DOMAIN inbox'[s] : inbox'[s][k].type = "DEVICE_ON" =>
            k = 1 /\ conn'[s] \in {"backlog", "register", "ended"}
        BY <2>1, <2>3 DEF Ordered
    <2> QED
        BY <2>1, <2>4, <2>5, <2>6, <2>7, <2>8, <2>9 DEF Ordered
<1>5. ASSUME NEW type \in {"DEVICE_ON", "DEVICE_OFF"}, DeviceSend(s, type, 0),
             UNCHANGED <<conn, messages, handling, sent>>,
             peer'[s] \in {"on", "closed"}, peer[s] # "off",
             type = "DEVICE_ON" => peer[s] = "fresh"
      PROVE  Ordered(s)'
    <2>1. /\ \A k \in DOMAIN inbox'[s] :
                \/ k \in DOMAIN inbox[s] /\ inbox'[s][k] = inbox[s][k]
                \/ /\ k = Len(inbox[s]) + 1
                   /\ inbox'[s][k].type = type
          /\ inbox[s] = <<>> => Len(inbox[s]) = 0
        BY <1>5, SendFacts
    <2>2. \A k \in DOMAIN inbox'[s] : inbox'[s][k].type = "DATA" =>
            k \in DOMAIN inbox[s] /\ inbox'[s][k] = inbox[s][k]
        BY <1>5, <2>1
    <2>3. \A k \in DOMAIN inbox'[s] : inbox'[s][k].type = "DEVICE_ON" =>
            k = 1 /\ conn[s] \in {"backlog", "register", "ended"}
        BY <1>5, <2>1 DEF Ordered
    <2>4. conn[s] # "none"
        BY <1>5 DEF Ordered
    <2> QED
        BY <1>5, <2>2, <2>3, <2>4 DEF Ordered
<1>6. CASE DeviceRegister(s)
    BY <1>5, <1>6 DEF DeviceRegister, proxyVars, storeVars, TypeOK
<1>7. CASE DeviceQuit(s)
    BY <1>5, <1>7 DEF DeviceQuit, proxyVars, storeVars, TypeOK
<1>8. CASE Connect(s)
    <2>1. /\ conn[s] = "none" /\ conn'[s] = "backlog" /\ peer'[s] = "fresh"
          /\ UNCHANGED <<inbox, messages, handling, sent>>
        BY <1>8 DEF Connect, Goto, proxyVars, storeVars, TypeOK
    <2> QED
        BY <2>1 DEF Ordered
<1>9. CASE RegistrationError(s)
    <2>1. /\ conn[s] = "register" /\ conn'[s] = "ended" /\ peer[s] = "closed"
          /\ UNCHANGED <<inbox, messages, handling, sent, peer>>
        BY <1>9 DEF RegistrationError, Goto, connectionVars, storeVars, TypeOK
    <2> QED
        BY <2>1 DEF Ordered
<1>10. CASE \/ Accept(s) \/ AcceptError(s) \/ RegisterRun(s) \/ RegisterDevice(s)
            \/ SaveDevice(s) \/ ReceiveError(s) \/ DropDevice(s)
    BY <1>10, OrderedIdle DEF Accept, AcceptError, RegisterRun, RegisterDevice, SaveDevice,
       ReceiveError, DropDevice, Goto, connectionVars, storeVars, TypeOK, Busy, Over
<1>11. CASE DeviceObey(s) \/ DeviceCrash(s)
    BY <1>11 DEF DeviceObey, DeviceCrash, proxyVars, storeVars, TypeOK, Ordered
<1> QED
    BY <1>1, <1>2, <1>3, <1>4, <1>6, <1>7, <1>8, <1>9, <1>10, <1>11
    DEF Handler, Dispatch, Device

\* Ordered is inductive, for all connections together.
LEMMA OrderedNext ==
    TypeOK /\ (\A s \in Socket : Ordered(s)) /\ [Next]_vars
        => (\A s \in Socket : Ordered(s))'
<1> SUFFICES ASSUME TypeOK, \A s \in Socket : Ordered(s), [Next]_vars, NEW c \in Socket
             PROVE  Ordered(c)'
    OBVIOUS
<1>1. ASSUME NEW s \in Socket, Handler(s) \/ Dispatch(s) \/ Device(s) PROVE Ordered(c)'
    <2>1. CASE c = s
        BY <1>1, <2>1, OrderedStep
    <2>2. CASE c # s
        <3>2. /\ messages'[c] = messages[c] /\ sent'[c] = sent[c] /\ conn'[c] = conn[c]
              /\ handling'[c] = handling[c] /\ inbox'[c] = inbox[c] /\ peer'[c] = peer[c]
            <4>1. CASE Handler(s)
                BY <2>2, <4>1 DEF Handler, RegisterRun, RegisterDevice, SaveDevice,
                   StoreMessage, DropDevice, Goto, connectionVars, storeVars, TypeOK
            <4>2. CASE Dispatch(s)
                BY <2>2, <4>2 DEF Dispatch, Accept, AcceptError, ReceiveRegistration,
                   RegistrationError, Receive, ReceiveError, Goto, connectionVars,
                   storeVars, TypeOK
            <4>3. CASE Device(s)
                BY <2>2, <4>3, SendFacts DEF Device, Connect, DeviceRegister, DeviceData,
                   DeviceObey, DeviceQuit, DeviceCrash, DeviceSend, Goto, proxyVars,
                   storeVars, TypeOK
            <4> QED
                BY <1>1, <4>1, <4>2, <4>3
        <3> QED
            BY <3>2, OrderedLocal
    <2> QED
        BY <2>1, <2>2
<1>2. ASSUME NEW r \in Run, Request(r) PROVE Ordered(c)'
    BY <1>2, OrderedLocal DEF Request, connectionVars, storeVars
<1>3. CASE UNCHANGED vars
    BY <1>3, OrderedLocal DEF vars
<1> QED
    BY <1>1, <1>2, <1>3 DEF Next

\* What is stored of a device is in the order in which it was sent.
THEOREM StoredOrder == Spec => []StoredInOrder
<1>1. Init => \A s \in Socket : Ordered(s)
    BY DEF Init, Ordered
<1>2. (\A s \in Socket : Ordered(s)) => StoredInOrder
    BY DEF Ordered, StoredInOrder
<1> QED
    BY <1>1, <1>2, OrderedNext, TypeCorrect, PTL DEF Spec

-----------------------------------------------------------------------------
(* Whether messages are lost.                                              *)

\* Where a connection is before the proxy stops reading it.
Attended == {"none", "backlog", "register", "updateStatus", "addDevice", "insertDevice",
             "receive", "addMessage"}

\* What NothingLost says, from the first message on, with what the handler has
\* told by where the connection is.
Intact(s) ==
    failures = 0 /\ conn[s] \in Attended =>
        /\ \A i \in DOMAIN messages[s] : messages[s][i] = i
        /\ handling[s] = IF conn[s] = "addMessage" THEN Len(messages[s]) + 1 ELSE 0
        /\ Taken(s) <= sent[s]
        /\ UnderWay(s) = Taken(s) + 1..sent[s]

\* Reading takes the least number from the inbox, or none.
LEMMA UnderWayRead ==
    ASSUME TypeOK, NEW s \in Socket, Ordered(s), inbox[s] # <<>>,
           inbox' = [inbox EXCEPT ![s] = Tail(@)]
    PROVE  LET first == inbox[s][1]
           IN  /\ first.type # "DATA" => UnderWay(s)' = UnderWay(s)
               /\ first.type = "DATA" =>
                    /\ first.n \in UnderWay(s)
                    /\ \A n \in UnderWay(s) : first.n <= n
                    /\ UnderWay(s)' = UnderWay(s) \ {first.n}
<1> DEFINE box == inbox[s]
           rest == inbox'[s]
           Data(m) == m.type = "DATA"
<1>1. /\ Len(box) \in Nat \ {0} /\ DOMAIN box = 1..Len(box)
      /\ DOMAIN rest = 1..Len(box) - 1
      /\ \A k \in 1..Len(box) - 1 : rest[k] = box[k + 1]
    <2>1. rest = Tail(box) /\ box \in Seq(Message) /\ box # <<>>
        BY DEF TypeOK
    <2> HIDE DEF box, rest
    <2>2. /\ Len(Tail(box)) = Len(box) - 1 /\ Tail(box) \in Seq(Message)
          /\ \A i \in 1..Len(Tail(box)) : Tail(box)[i] = box[i + 1]
        BY <2>1, HeadTailProperties
    <2>3. Len(box) \in Nat \ {0}
        BY <2>1, EmptySeq
    <2> QED
        BY <2>1, <2>2, <2>3
<1>2. \A k, l \in DOMAIN box : k < l /\ Data(box[k]) /\ Data(box[l]) => box[k].n < box[l].n
    BY DEF Ordered
<1>3. \A k \in DOMAIN box : box[k].n \in Nat
    BY TypeFacts
<1>4. /\ \A n : n \in UnderWay(s) <=> \E k \in DOMAIN box : Data(box[k]) /\ n = box[k].n
      /\ \A n : n \in UnderWay(s)' <=> \E k \in DOMAIN rest : Data(rest[k]) /\ n = rest[k].n
    BY DEF UnderWay
<1> HIDE DEF box, rest, Data
<1>5. \A n : n \in UnderWay(s)' <=> \E k \in DOMAIN box : k # 1 /\ Data(box[k]) /\ n = box[k].n
    <2> TAKE n
    <2>1. ASSUME NEW k \in DOMAIN rest, Data(rest[k]), n = rest[k].n
          PROVE  \E l \in DOMAIN box : l # 1 /\ Data(box[l]) /\ n = box[l].n
        <3>1. k + 1 \in DOMAIN box /\ k + 1 # 1 /\ rest[k] = box[k + 1]
            BY <1>1, <2>1
        <3> QED
            BY <2>1, <3>1
    <2>2. ASSUME NEW k \in DOMAIN box, k # 1, Data(box[k]), n = box[k].n
          PROVE  \E l \in DOMAIN rest : Data(rest[l]) /\ n = rest[l].n
        <3>1. k - 1 \in DOMAIN rest /\ rest[k - 1] = box[(k - 1) + 1] /\ (k - 1) + 1 = k
            BY <1>1, <2>2
        <3> QED
            BY <2>2, <3>1
    <2> QED
        BY <1>4, <2>1, <2>2
<1>6. 1 \in DOMAIN box /\ \A k \in DOMAIN box : k # 1 => 1 < k
    BY <1>1
<1>7. CASE ~Data(box[1])
    <2>1. \A n : n \in UnderWay(s)' <=> n \in UnderWay(s)
        BY <1>4, <1>5, <1>7
    <2>2. UnderWay(s)' = UnderWay(s)
        BY <2>1
    <2> QED
        BY <1>7, <2>2 DEF Data, box
<1>8. CASE Data(box[1])
    <2>1. box[1].n \in UnderWay(s)
        BY <1>4, <1>6, <1>8
    <2>2. \A k \in DOMAIN box : k # 1 /\ Data(box[k]) => box[1].n < box[k].n
        BY <1>2, <1>6, <1>8
    <2>3. \A n \in UnderWay(s) : box[1].n <= n
        BY <1>3, <1>4, <1>6, <2>2
    <2>4. \A n : n \in UnderWay(s)' <=> n \in UnderWay(s) /\ n # box[1].n
        BY <1>3, <1>4, <1>5, <1>6, <2>2
    <2>5. UnderWay(s)' = UnderWay(s) \ {box[1].n}
        BY <2>4
    <2> QED
        BY <1>8, <2>1, <2>3, <2>5 DEF Data, box
<1> QED
    BY <1>7, <1>8

\* Sending adds a number, or none.
LEMMA UnderWaySent ==
    ASSUME TypeOK, NEW s \in Socket, NEW type, NEW n, DeviceSend(s, type, n)
    PROVE  UnderWay(s)' = UnderWay(s) \cup (IF type = "DATA" THEN {n} ELSE {})
<1> DEFINE m == [type |-> type, n |-> n]
           box == inbox[s]
           more == inbox'[s]
<1>1. more = Append(box, m) /\ box \in Seq(Message)
    BY DEF DeviceSend, TypeOK
<1>2. m.type = type /\ m.n = n
    OBVIOUS
<1>3. /\ \A x : x \in UnderWay(s) <=> \E k \in DOMAIN box : box[k].type = "DATA" /\ x = box[k].n
      /\ \A x : x \in UnderWay(s)' <=> \E k \in DOMAIN more : more[k].type = "DATA" /\ x = more[k].n
    BY DEF UnderWay
<1> HIDE DEF m, box, more
<1>4. /\ Len(box) \in Nat /\ DOMAIN box = 1..Len(box) /\ DOMAIN more = 1..Len(box) + 1
      /\ \A k \in 1..Len(box) : more[k] = box[k]
      /\ more[Len(box) + 1] = m
    BY <1>1
<1>5. /\ \A k : k \in DOMAIN more <=> k \in DOMAIN box \/ k = Len(box) + 1
      /\ \A k \in DOMAIN box : more[k] = box[k]
    BY <1>4
<1>6. \A x : x \in UnderWay(s)' <=> x \in UnderWay(s) \/ (type = "DATA" /\ x = n)
    BY <1>2, <1>3, <1>4, <1>5
<1> QED
    BY <1>6

\* Every step of a connection keeps its messages together.
LEMMA IntactStep ==
    ASSUME TypeOK, NEW s \in Socket, Ordered(s), Intact(s),
           Handler(s) \/ Dispatch(s) \/ Device(s)
    PROVE  Intact(s)'
<1> DEFINE given == Len(messages[s])
<1>0. /\ given \in Nat /\ DOMAIN messages[s] = 1..given
      /\ sent[s] \in Nat /\ handling[s] \in Nat
    BY TypeFacts
<1>1. failures' = 0 => failures = 0
    <2>1. failures' = failures \/ Fail
        <3>1. CASE Handler(s)
            BY <3>1 DEF Handler, RegisterRun, RegisterDevice, SaveDevice, StoreMessage, DropDevice
        <3>2. CASE Dispatch(s)
            BY <3>2 DEF Dispatch, Accept, AcceptError, ReceiveRegistration, RegistrationError,
               Receive, ReceiveError
        <3>3. CASE Device(s)
            BY <3>3 DEF Device, Connect, DeviceRegister, DeviceData, DeviceObey, DeviceQuit,
               DeviceCrash, proxyVars
        <3> QED
            BY <3>1, <3>2, <3>3
    <2>2. failures \in Nat
        BY DEF TypeOK
    <2> QED
        BY <2>1, <2>2 DEF Fail
<1>2. SUFFICES ASSUME failures' = 0, conn'[s] \in Attended
               PROVE  Intact(s)'
    BY DEF Intact
<1>3. ASSUME conn[s] \in Attended
      PROVE  /\ \A i \in 1..given : messages[s][i] = i
             /\ handling[s] = IF conn[s] = "addMessage" THEN given + 1 ELSE 0
             /\ Taken(s) = IF conn[s] = "addMessage" THEN given + 1 ELSE given
             /\ Taken(s) <= sent[s]
             /\ UnderWay(s) = Taken(s) + 1..sent[s]
    <2>1. /\ \A i \in DOMAIN messages[s] : messages[s][i] = i
          /\ handling[s] = IF conn[s] = "addMessage" THEN given + 1 ELSE 0
          /\ Taken(s) <= sent[s]
          /\ UnderWay(s) = Taken(s) + 1..sent[s]
        BY <1>1, <1>2, <1>3 DEF Intact
    <2>2. Taken(s) = given + (IF handling[s] = 0 THEN 0 ELSE 1)
        BY DEF Taken
    <2> HIDE DEF given
    <2>3. Taken(s) = IF conn[s] = "addMessage" THEN given + 1 ELSE given
        BY <1>0, <2>1, <2>2
    <2> QED
        BY <1>0, <2>1, <2>3
<1>4. CASE Receive(s)
    <2>1. /\ inbox' = [inbox EXCEPT ![s] = Tail(@)] /\ inbox[s] # <<>> /\ conn[s] = "receive"
          /\ sent' = sent /\ messages' = messages
        BY <1>4 DEF Receive
    <2>2. 1 \in DOMAIN inbox[s] /\ Head(inbox[s]) = inbox[s][1]
        BY <2>1, TailFacts
    <2>3. /\ conn'[s] = "addMessage" /\ handling'[s] = inbox[s][1].n
          /\ inbox[s][1].type = "DATA"
        <3>1. inbox[s][1].type # "DEVICE_ON"
            BY <2>1, <2>2 DEF Ordered
        <3>2. inbox[s][1] \in Message
            BY <2>2, TypeFacts
        <3> QED
            BY <1>2, <1>4, <2>2, <3>1, <3>2 DEF Receive, Goto, TypeOK, Attended, Message
    <2>4. /\ Taken(s) = given /\ UnderWay(s) = given + 1..sent[s]
          /\ \A i \in 1..given : messages[s][i] = i
        BY <1>3, <2>1 DEF Attended
    <2>5. /\ inbox[s][1].n \in UnderWay(s)
          /\ \A n \in UnderWay(s) : inbox[s][1].n <= n
          /\ UnderWay(s)' = UnderWay(s) \ {inbox[s][1].n}
        BY <2>1, <2>3, UnderWayRead
    <2>6. inbox[s][1].n = given + 1 /\ given + 1 <= sent[s]
        BY <1>0, <2>4, <2>5
    <2>7. UnderWay(s)' = given + 2..sent[s]
        BY <1>0, <2>4, <2>5, <2>6
    <2>8. Len(messages'[s]) = given /\ Taken(s)' = given + 1
        <3>1. Taken(s)' = Len(messages'[s]) + (IF handling'[s] = 0 THEN 0 ELSE 1)
            BY DEF Taken
        <3>2. Len(messages'[s]) = given /\ handling'[s] = given + 1
            BY <2>1, <2>3, <2>6
        <3> HIDE DEF given
        <3> QED
            BY <1>0, <3>1, <3>2
    <2> QED
        BY <1>0, <2>1, <2>3, <2>4, <2>6, <2>7, <2>8 DEF Intact
<1>5. CASE ReceiveRegistration(s)
    <2>1. /\ inbox' = [inbox EXCEPT ![s] = Tail(@)] /\ inbox[s] # <<>> /\ conn[s] = "register"
          /\ sent' = sent /\ messages' = messages /\ handling' = handling
        BY <1>5 DEF ReceiveRegistration, storeVars
    <2>2. 1 \in DOMAIN inbox[s] /\ Head(inbox[s]) = inbox[s][1]
        BY <2>1, TailFacts
    <2>3. conn'[s] = "updateStatus" /\ inbox[s][1].type = "DEVICE_ON"
        BY <1>2, <1>5, <2>2 DEF ReceiveRegistration, Goto, TypeOK, Attended
    <2>4. UnderWay(s)' = UnderWay(s)
        BY <2>1, <2>3, UnderWayRead
    <2> QED
        BY <1>0, <1>3, <2>1, <2>3, <2>4 DEF Intact, Attended, Taken
<1>6. CASE StoreMessage(s)
    <2>1. /\ conn[s] = "addMessage" /\ conn'[s] = "receive" /\ handling'[s] = 0
          /\ messages' = [messages EXCEPT ![s] = Append(@, handling[s])]
          /\ inbox' = inbox /\ sent' = sent
        BY <1>1, <1>2, <1>6 DEF StoreMessage, Goto, connectionVars, TypeOK, Fail
    <2>2. messages'[s] = Append(messages[s], handling[s]) /\ messages[s] \in Seq(0..MaxData)
        BY <2>1 DEF TypeOK
    <2>3. /\ Len(messages'[s]) = given + 1 /\ DOMAIN messages'[s] = 1..given + 1
          /\ \A i \in 1..given : messages'[s][i] = messages[s][i]
          /\ messages'[s][given + 1] = handling[s]
        BY <2>2
    <2>4. /\ handling[s] = given + 1 /\ Taken(s) = given + 1 /\ Taken(s) <= sent[s]
          /\ UnderWay(s) = Taken(s) + 1..sent[s]
          /\ \A i \in 1..given : messages[s][i] = i
        BY <1>3, <2>1 DEF Attended
    <2>5. UnderWay(s)' = UnderWay(s)
        BY <2>1 DEF UnderWay
    <2>6. Taken(s)' = Taken(s)
        <3>1. Taken(s)' = Len(messages'[s]) + (IF handling'[s] = 0 THEN 0 ELSE 1)
            BY DEF Taken
        <3> HIDE DEF given
        <3> QED
            BY <1>0, <2>1, <2>3, <2>4, <3>1
    <2>7. \A i \in 1..given + 1 : messages'[s][i] = i
        <3> TAKE i \in 1..given + 1
        <3>1. i \in 1..given \/ i = given + 1
            BY <1>0
        <3> QED
            BY <2>3, <2>4, <3>1
    <2> HIDE DEF given
    <2> QED
        BY <2>1, <2>3, <2>4, <2>5, <2>6, <2>7 DEF Intact
<1>7. CASE DeviceData(s)
    <2>1. /\ DeviceSend(s, "DATA", sent[s] + 1) /\ sent'[s] = sent[s] + 1
          /\ conn' = conn /\ messages' = messages /\ handling' = handling
        BY <1>7 DEF DeviceData, proxyVars, storeVars, TypeOK
    <2>2. UnderWay(s)' = UnderWay(s) \cup {sent[s] + 1}
        BY <2>1, UnderWaySent
    <2>3. /\ Taken(s) \in Nat /\ Taken(s) <= sent[s]
          /\ UnderWay(s) = Taken(s) + 1..sent[s] /\ Taken(s)' = Taken(s)
        BY <1>0, <1>2, <1>3, <2>1 DEF Taken
    <2>4. UnderWay(s)' = Taken(s) + 1..sent'[s] /\ Taken(s) <= sent'[s]
        BY <1>0, <2>1, <2>2, <2>3
    <2> QED
        BY <1>0, <1>2, <1>3, <2>1, <2>3, <2>4 DEF Intact
<1>8. CASE DeviceRegister(s) \/ DeviceQuit(s)
    <2>1. /\ DeviceSend(s, "DEVICE_ON", 0) \/ DeviceSend(s, "DEVICE_OFF", 0)
          /\ sent' = sent /\ conn' = conn /\ messages' = messages /\ handling' = handling
        BY <1>8 DEF DeviceRegister, DeviceQuit, proxyVars, storeVars
    <2>2. UnderWay(s)' = UnderWay(s)
        <3>1. ASSUME NEW type \in {"DEVICE_ON", "DEVICE_OFF"}, DeviceSend(s, type, 0)
              PROVE  UnderWay(s)' = UnderWay(s)
            <4>1. UnderWay(s)' = UnderWay(s) \cup (IF type = "DATA" THEN {0} ELSE {})
                BY <3>1, UnderWaySent
            <4> QED
                BY <4>1
        <3> QED
            BY <2>1, <3>1
    <2> QED
        BY <1>0, <1>2, <1>3, <2>1, <2>2 DEF Intact, Taken
<1>9. CASE /\ UNCHANGED <<inbox, messages, handling, sent>>
           /\ \/ conn'[s] = conn[s]
              \/ conn[s] \in Attended \ {"addMessage"} /\ conn'[s] # "addMessage"
    <2>1. UnderWay(s)' = UnderWay(s) /\ Taken(s)' = Taken(s)
        BY <1>9 DEF UnderWay, Taken
    <2> QED
        BY <1>0, <1>2, <1>3, <1>9, <2>1 DEF Intact
<1>10. CASE \/ RegisterRun(s) \/ RegisterDevice(s) \/ SaveDevice(s) \/ Accept(s) \/ AcceptError(s)
            \/ Connect(s) \/ DeviceObey(s) \/ DeviceCrash(s)
    BY <1>9, <1>10 DEF RegisterRun, RegisterDevice, SaveDevice, Accept, AcceptError, Connect,
       DeviceObey, DeviceCrash, Goto, connectionVars, storeVars, proxyVars, TypeOK, Attended
<1>11. CASE DropDevice(s) \/ ReceiveError(s) \/ RegistrationError(s)
    BY <1>2, <1>11 DEF DropDevice, ReceiveError, RegistrationError, Goto, TypeOK, Attended
<1> QED
    BY <1>4, <1>5, <1>6, <1>7, <1>8, <1>10, <1>11 DEF Handler, Dispatch, Device

\* Intact is inductive, for all connections together.
LEMMA IntactNext ==
    TypeOK /\ (\A s \in Socket : Ordered(s) /\ Intact(s)) /\ [Next]_vars
        => (\A s \in Socket : Intact(s))'
<1> SUFFICES ASSUME TypeOK, \A s \in Socket : Ordered(s) /\ Intact(s), [Next]_vars,
                    NEW c \in Socket
             PROVE  Intact(c)'
    OBVIOUS
<1>1. ASSUME failures' = 0 => failures = 0,
             messages'[c] = messages[c], sent'[c] = sent[c], conn'[c] = conn[c],
             handling'[c] = handling[c], inbox'[c] = inbox[c]
      PROVE  Intact(c)'
    BY <1>1 DEF Intact, Taken, UnderWay
<1>2. ASSUME NEW s \in Socket, Handler(s) \/ Dispatch(s) \/ Device(s) PROVE Intact(c)'
    <2>1. CASE c = s
        BY <1>2, <2>1, IntactStep
    <2>2. CASE c # s
        <3>1. CASE Handler(s)
            BY <1>1, <2>2, <3>1 DEF Handler, RegisterRun, RegisterDevice, SaveDevice,
               StoreMessage, DropDevice, Goto, Fail, connectionVars, storeVars, TypeOK
        <3>2. CASE Dispatch(s)
            BY <1>1, <2>2, <3>2 DEF Dispatch, Accept, AcceptError, ReceiveRegistration,
               RegistrationError, Receive, ReceiveError, Goto, connectionVars,
               storeVars, TypeOK
        <3>3. CASE Device(s)
            BY <1>1, <2>2, <3>3, SendFacts DEF Device, Connect, DeviceRegister, DeviceData,
               DeviceObey, DeviceQuit, DeviceCrash, DeviceSend, Goto, proxyVars,
               storeVars, TypeOK
        <3> QED
            BY <1>2, <3>1, <3>2, <3>3
    <2> QED
        BY <2>1, <2>2
<1>3. ASSUME NEW r \in Run, Request(r) PROVE Intact(c)'
    BY <1>1, <1>3 DEF Request, connectionVars, storeVars
<1>4. CASE UNCHANGED vars
    BY <1>1, <1>4 DEF vars
<1> QED
    BY <1>2, <1>3, <1>4 DEF Next

\* From which NothingLost follows.
LEMMA IntactIsWhole ==
    (\A s \in Socket : Ordered(s) /\ Intact(s)) => NothingLost
<1> SUFFICES ASSUME NEW s \in Socket, Ordered(s), Intact(s),
                    failures = 0, conn[s] \in {"receive", "addMessage"}
             PROVE  /\ \A i \in DOMAIN messages[s] : messages[s][i] = i
                    /\ handling[s] \in {0, Len(messages[s]) + 1}
                    /\ Taken(s) <= sent[s]
                    /\ UnderWay(s) = Taken(s) + 1..sent[s]
                    /\ \A k, l \in DOMAIN inbox[s] :
                        k < l /\ inbox[s][k].type = "DATA" /\ inbox[s][l].type = "DATA"
                            => inbox[s][k].n < inbox[s][l].n
    BY DEF NothingLost
<1> QED
    BY DEF Ordered, Intact, Attended

\* While no write was refused, what a registered device sent is stored, with
\* the handler, or still to be read, and in turn.
THEOREM NoMessageLost == Spec => []NothingLost
<1>1. Init => \A s \in Socket : Ordered(s) /\ Intact(s)
    BY DEF Init, Ordered, Intact, Taken, UnderWay
<1>2. TypeOK /\ (\A s \in Socket : Ordered(s) /\ Intact(s)) /\ [Next]_vars
        => (\A s \in Socket : Ordered(s) /\ Intact(s))'
    BY OrderedNext, IntactNext
<1> QED
    BY <1>1, <1>2, IntactIsWhole, TypeCorrect, PTL DEF Spec

-----------------------------------------------------------------------------
(* The list as a whole.                                                    *)

\* The abstract list in terms of the repository and the connections.
OnList == UNION {SocketsOf(runDevices[r]) : r \in Run}
Gone == {s \in Socket : conn[s] \in Over}
Blank == {r \in runKeys : runDevices[r] = {}}

\* A device between the two parts of its addDevice is listed.
InsertedIsListed == \A s \in Socket : conn[s] = "insertDevice" => Listed(s)

LEMMA InsertedStep == TypeOK /\ InsertedIsListed /\ [Next]_vars => InsertedIsListed'
<1> SUFFICES ASSUME TypeOK, InsertedIsListed, [Next]_vars,
                    NEW c \in Socket, conn'[c] = "insertDevice"
             PROVE  Listed(c)'
    BY DEF InsertedIsListed
<1>1. CASE RegisterDevice(c)
    <2> DEFINE entry == [name |-> NameOf[c], socket |-> c, isSelected |-> FALSE]
    <2>1. entry \in runDevices'[RunOf[c]] /\ entry.socket = c
        BY <1>1 DEF RegisterDevice, AddDevice, DevicesType, TypeOK
    <2> QED
        BY <2>1 DEF Listed, SocketsOf
<1>2. CASE conn[c] = "insertDevice"
    <2>1. ~DropDevice(c)
        BY <1>2 DEF DropDevice
    <2> QED
        BY <1>2, <2>1, ListedStays DEF InsertedIsListed
<1>3. ASSUME NEW s \in Socket, Unlisting(s), conn[c] # "insertDevice" PROVE FALSE
    BY <1>3 DEF Unlisting, Device, Accept, AcceptError, ReceiveRegistration, RegistrationError,
       RegisterRun, SaveDevice, Receive, ReceiveError, StoreMessage, Connect,
       DeviceRegister, DeviceData, DeviceObey, DeviceQuit, DeviceCrash, Goto, TypeOK, proxyVars
<1>4. ASSUME NEW s \in Socket, RegisterDevice(s), conn[c] # "insertDevice" PROVE RegisterDevice(c)
    BY <1>4 DEF RegisterDevice, Goto, TypeOK
<1>5. ASSUME NEW s \in Socket, DropDevice(s), conn[c] # "insertDevice" PROVE FALSE
    BY <1>5 DEF DropDevice, Goto, TypeOK
<1>6. ASSUME (\E r \in Run : Request(r)) \/ UNCHANGED vars, conn[c] # "insertDevice" PROVE FALSE
    BY <1>6 DEF Request, vars
<1> QED
    BY <1>1, <1>2, <1>3, <1>4, <1>5, <1>6, StepKinds

\* What the induction carries.
ListInv == TypeOK /\ ListedIsServed /\ InsertedIsListed

THEOREM ListInvariant == Spec => []ListInv
<1>1. Init => InsertedIsListed
    BY DEF Init, InsertedIsListed
<1> QED
    BY <1>1, InsertedStep, TypeCorrect, Served, PTL DEF Spec, ListInv

\* An entry of a device is with its run.
Placed ==
    /\ \A x : x \in OnList <=> /\ x \in Socket
                               /\ \E e \in runDevices[RunOf[x]] : e.socket = x
    /\ \A x : x \in Selected <=> /\ x \in Socket
                                 /\ \E e \in runDevices[RunOf[x]] : e.socket = x /\ e.isSelected

LEMMA WhereListed == ListInv => Placed
<1> SUFFICES ASSUME ListInv PROVE Placed
    OBVIOUS
<1>1. \A r \in Run : \A e \in runDevices[r] : e.socket \in Socket /\ RunOf[e.socket] = r
    BY EntryTypes DEF ListInv, ListedIsServed
<1>2. \A x \in Socket : RunOf[x] \in Run
    OBVIOUS
<1>3. \A x : x \in OnList <=> \E r \in Run : \E e \in runDevices[r] : e.socket = x
    BY DEF OnList, SocketsOf
<1>4. \A x : x \in Selected <=>
                \E r \in Run : \E e \in runDevices[r] : e.socket = x /\ e.isSelected
    BY DEF Selected, SocketsOf
<1> QED
    BY <1>1, <1>2, <1>3, <1>4 DEF Placed

\* The devices on the list of a run are those of its entries.
LEMMA OnIsSockets ==
    ListInv => \A r \in Run : {s \in OnList : RunOf[s] = r} = SocketsOf(runDevices[r])
<1> SUFFICES ASSUME ListInv, NEW r \in Run
             PROVE  {s \in OnList : RunOf[s] = r} = SocketsOf(runDevices[r])
    OBVIOUS
<1>1. \A e \in runDevices[r] : e.socket \in Socket /\ RunOf[e.socket] = r
    BY EntryTypes DEF ListInv, ListedIsServed
<1>2. \A x : x \in SocketsOf(runDevices[r]) <=> \E e \in runDevices[r] : e.socket = x
    BY DEF SocketsOf
<1> QED
    BY <1>1, <1>2, WhereListed DEF Placed

\* getDevices answers what the abstract list shows.
AnswersAreShown == \A r \in Run : GetDevices(r, RunOf) = AbstractList!Shown(r)

LEMMA ListShows == ListInv => AnswersAreShown
<1> SUFFICES ASSUME ListInv, NEW r \in Run PROVE GetDevices(r, RunOf) = AbstractList!Shown(r)
    BY DEF AnswersAreShown
<1> DEFINE H == SocketsOf(runDevices[r])
<1>1. AbstractList!On(r) = H
    BY OnIsSockets DEF AbstractList!On, OnList
<1>2. H = {} <=> runDevices[r] = {}
    BY DEF SocketsOf
<1>3. CASE runDevices[r] = {}
    <2>1. AbstractList!On(r) = {}
        BY <1>1, <1>2, <1>3
    <2> QED
        BY <2>1, <1>3 DEF AbstractList!Shown, GetDevices
<1>4. CASE runDevices[r] # {}
    <2>1. r \in runKeys
        BY <1>4 DEF ListInv, ListedIsServed
    <2>2. \A e \in runDevices[r] : /\ e.socket \in Socket
                                   /\ e.isSelected \in BOOLEAN
                                   /\ e.socket \in Selected <=> e.isSelected
        <3> TAKE e \in runDevices[r]
        <3>1. e.socket \in Socket /\ e.isSelected \in BOOLEAN /\ RunOf[e.socket] = r
            BY EntryTypes DEF ListInv, ListedIsServed
        <3>2. \A f \in runDevices[r] : f.socket = e.socket => f = e
            BY DEF ListInv, ListedIsServed
        <3> QED
            BY <3>1, <3>2, WhereListed DEF Placed
    <2>3. \A e \in runDevices[r] : <<e.socket, e.isSelected>> = <<e.socket, e.socket \in Selected>>
        BY <2>2
    <2>4. {<<e.socket, e.isSelected>> : e \in runDevices[r]} = {<<s, s \in Selected>> : s \in H}
        BY <2>3 DEF SocketsOf
    <2>5. GetDevices(r, RunOf) = {<<e.socket, e.isSelected>> : e \in runDevices[r]}
        BY <2>1 DEF GetDevices
    <2>6. AbstractList!Shown(r) = {<<s, s \in Selected>> : s \in H}
        BY <1>1, <1>2, <1>4 DEF AbstractList!Shown
    <2> QED
        BY <2>4, <2>5, <2>6
<1> QED
    BY <1>3, <1>4

\* One entry more, unselected, for a device that was not listed.
LEMMA EnterStep ==
    ASSUME ListInv, ListInv', NEW s \in Socket, RegisterDevice(s)
    PROVE  AbstractList!Enter(s)
<1> DEFINE new == [name |-> NameOf[s], socket |-> s, isSelected |-> FALSE]
<1>1. /\ RunOf[s] \in Run
      /\ conn[s] = "addDevice" /\ conn' = [conn EXCEPT ![s] = "insertDevice"]
      /\ runKeys' = runKeys \cup {RunOf[s]}
      /\ runDevices' = [runDevices EXCEPT ![RunOf[s]] = @ \cup {new}]
      /\ UNCHANGED <<deviceDocs, outbox>>
    BY DEF RegisterDevice, AddDevice, Touch, Goto
<1>2. /\ runDevices'[RunOf[s]] = runDevices[RunOf[s]] \cup {new}
      /\ \A q \in Run : q # RunOf[s] => runDevices'[q] = runDevices[q]
    BY <1>1 DEF ListInv, TypeOK, DevicesType
<1>3. new.socket = s /\ new.isSelected = FALSE
    OBVIOUS
<1> HIDE DEF new
<1>4. s \notin OnList
    BY <1>1, WhereListed DEF Placed, ListInv, ListedIsServed
<1>5. s \notin Gone
    BY <1>1 DEF Gone, Over
<1>0. Placed /\ Placed'
    BY WhereListed, PTL
<1>6. OnList' = OnList \cup {s}
    BY <1>0, <1>2, <1>3 DEF Placed
<1>7. Gone' = Gone
    BY <1>1 DEF Gone, Over, ListInv, TypeOK
<1>8. Selected' = Selected
    <2>1. ASSUME NEW x \in Socket
          PROVE  (\E e \in runDevices'[RunOf[x]] : e.socket = x /\ e.isSelected)
                    <=> \E e \in runDevices[RunOf[x]] : e.socket = x /\ e.isSelected
        <3>1. RunOf[x] \in Run
            OBVIOUS
        <3> QED
            BY <3>1, <1>2, <1>3
    <2> QED
        BY <1>0, <2>1 DEF Placed
<1>9. Blank' = Blank \ {RunOf[s]}
    BY <1>1, <1>2 DEF Blank, ListInv, TypeOK, DevicesType
<1> QED
    BY <1>1, <1>4, <1>5, <1>6, <1>7, <1>8, <1>9
    DEF AbstractList!Enter, OnList, Gone, Blank

\* The insertion records a listed device; a refused one changes nothing.
LEMMA RecordStep ==
    ASSUME ListInv, NEW s \in Socket, SaveDevice(s)
    PROVE  \/ AbstractList!Record(s)
           \/ UNCHANGED <<OnList, Gone, Selected, deviceDocs, Blank, outbox>>
<1>1. /\ conn[s] = "insertDevice" /\ conn' = [conn EXCEPT ![s] = "receive"]
      /\ UNCHANGED <<runKeys, runDevices, outbox>>
      /\ deviceDocs' = deviceDocs \cup {s} \/ deviceDocs' = deviceDocs
    BY DEF SaveDevice, InsertDevice, Goto, repositoryVars
<1>2. UNCHANGED <<OnList, Selected, Blank>>
    BY <1>1 DEF OnList, Selected, Blank
<1>3. Gone' = Gone
    BY <1>1 DEF Gone, Over, ListInv, TypeOK
<1>4. s \in OnList
    BY <1>1 DEF ListInv, InsertedIsListed, Listed, OnList
<1> QED
    BY <1>1, <1>2, <1>3, <1>4 DEF AbstractList!Record, OnList, Gone, Blank

\* A connection that is over takes its own entry along, if it has one.
LEMMA LeaveStep ==
    ASSUME ListInv, ListInv', NEW s \in Socket, DropDevice(s)
    PROVE  AbstractList!Leave(s)
<1> DEFINE r == RunOf[s]
<1>0. r \in Run /\ NameOf[s] \in Name /\ Placed /\ Placed'
    <2>1. Placed /\ Placed'
        BY WhereListed, PTL
    <2> QED
        BY <2>1
<1>1. /\ conn[s] = "removeDevice" /\ conn' = [conn EXCEPT ![s] = "ended"]
      /\ UNCHANGED <<deviceDocs, outbox>>
    BY DEF DropDevice, RemoveDevice, Goto
<1>2. PICK rest : /\ \/ rest = runDevices[r] /\ Found(r, NameOf[s], s) = {}
                     \/ \E e \in Found(r, NameOf[s], s) : rest = runDevices[r] \ {e}
                  /\ runDevices' = [runDevices EXCEPT ![r] = rest]
                  /\ runKeys' = KeysAfter(r, rest)
    BY DEF DropDevice, RemoveDevice
<1>3. /\ runDevices'[r] = rest
      /\ \A q \in Run : q # r => runDevices'[q] = runDevices[q]
    <2>1. runDevices \in [Run -> SUBSET Entry]
        BY DEF ListInv, TypeOK, DevicesType
    <2>2. runDevices' = [runDevices EXCEPT ![r] = rest] /\ r \in Run
        BY <1>0, <1>2
    <2> HIDE DEF r
    <2> QED
        BY <2>1, <2>2
<1>4. \A e : e \in rest <=> e \in runDevices[r] /\ e.socket # s
    <2>1. \A e \in runDevices[r] : e.socket = s => e \in Found(r, NameOf[s], s)
        BY <1>0 DEF Found, ListInv, ListedIsServed
    <2>2. \A e \in Found(r, NameOf[s], s) : e \in runDevices[r] /\ e.socket = s
        BY DEF Found
    <2>3. \A e, f \in runDevices[r] : e.socket = s /\ f.socket = s => e = f
        BY <1>0 DEF ListInv, ListedIsServed
    <2> QED
        BY <1>2, <2>1, <2>2, <2>3
<1>5. \A x \in Socket : RunOf[x] \in Run /\ (RunOf[x] = r => runDevices'[RunOf[x]] = rest)
                        /\ (RunOf[x] # r => runDevices'[RunOf[x]] = runDevices[RunOf[x]] /\ x # s)
    BY <1>3
<1>6. s \notin Gone /\ Gone' = Gone \cup {s}
    BY <1>1 DEF Gone, Over, ListInv, TypeOK
<1> HIDE DEF r
<1>7. OnList' = OnList \ {s}
    <2>1. ASSUME NEW x \in Socket
          PROVE  (\E e \in runDevices'[RunOf[x]] : e.socket = x)
                    <=> x # s /\ \E e \in runDevices[RunOf[x]] : e.socket = x
        BY <1>4, <1>5 DEF r
    <2> QED
        BY <1>0, <2>1 DEF Placed
<1>8. Selected' = Selected \ {s}
    <2>1. ASSUME NEW x \in Socket
          PROVE  (\E e \in runDevices'[RunOf[x]] : e.socket = x /\ e.isSelected)
                    <=> x # s /\ \E e \in runDevices[RunOf[x]] : e.socket = x /\ e.isSelected
        BY <1>4, <1>5 DEF r
    <2> QED
        BY <1>0, <2>1 DEF Placed
<1>9. Blank' \in {Blank, Blank \ {r}}
    <2>1. \A q \in Run : q # r => (q \in runKeys' <=> q \in runKeys)
        BY <1>2 DEF KeysAfter
    <2>2. rest = {} => r \notin runKeys'
        BY <1>2 DEF KeysAfter
    <2>3. runKeys \subseteq Run /\ runKeys' \subseteq Run
        BY DEF ListInv, TypeOK, DevicesType
    <2>4. r \notin Blank'
        BY <1>3, <2>2 DEF Blank
    <2>5. \A q : q # r => (q \in Blank' <=> q \in Blank)
        BY <1>3, <2>1, <2>3 DEF Blank
    <2>6. Blank' = Blank \ {r}
        BY <2>4, <2>5
    <2> QED
        BY <2>6
<1> QED
    BY <1>1, <1>6, <1>7, <1>8, <1>9 DEF AbstractList!Leave, OnList, Gone, Blank, r

\* A connection that ends without having registered was not on the list.
LEMMA NeverCameStep ==
    ASSUME ListInv, ListInv', NEW s \in Socket, ReceiveRegistration(s) \/ RegistrationError(s)
    PROVE  \/ AbstractList!Leave(s)
           \/ UNCHANGED <<OnList, Gone, Selected, deviceDocs, Blank, outbox>>
<1>1. /\ conn[s] = "register"
      /\ \E state \in {"updateStatus", "abandoned", "ended"} :
            conn' = [conn EXCEPT ![s] = state]
      /\ UNCHANGED <<runKeys, runDevices, deviceDocs, outbox>>
    BY DEF ReceiveRegistration, RegistrationError, Goto, repositoryVars
<1>2. UNCHANGED <<OnList, Selected, Blank>>
    BY <1>1 DEF OnList, Selected, Blank
<1>3. s \notin Gone /\ Gone' \in {Gone, Gone \cup {s}}
    BY <1>1 DEF Gone, Over, ListInv, TypeOK
<1>4. s \notin OnList /\ s \notin Selected
    BY <1>1, WhereListed DEF Placed, ListInv, ListedIsServed
<1>5. OnList' = OnList \ {s} /\ Selected' = Selected \ {s}
    BY <1>2, <1>4
<1>6. CASE Gone' = Gone
    BY <1>1, <1>2, <1>6
<1>7. CASE Gone' = Gone \cup {s}
    BY <1>1, <1>2, <1>3, <1>5, <1>7 DEF AbstractList!Leave, OnList, Gone, Blank
<1> QED
    BY <1>3, <1>6, <1>7

\* The device reads the next command.
LEMMA ObeyStep ==
    ASSUME ListInv, NEW s \in Socket, DeviceObey(s)
    PROVE  AbstractList!Obey(s)
BY DEF DeviceObey, AbstractList!Obey, proxyVars, Selected

\* The other steps of a connection are none of the list.
LEMMA AsideStep ==
    ASSUME ListInv, NEW s \in Socket, Unlisting(s),
           ~SaveDevice(s), ~ReceiveRegistration(s), ~RegistrationError(s), ~DeviceObey(s)
    PROVE  UNCHANGED <<OnList, Gone, Selected, deviceDocs, Blank, outbox>>
<1>1. UNCHANGED <<runKeys, runDevices, deviceDocs, outbox>>
    BY DEF Unlisting, Device, Accept, AcceptError, RegisterRun, Receive, ReceiveError,
           StoreMessage, Connect, DeviceRegister, DeviceData, DeviceQuit, DeviceCrash,
           repositoryVars, proxyVars
<1>2. UNCHANGED <<OnList, Selected, Blank>>
    BY <1>1 DEF OnList, Selected, Blank
<1>3. \/ conn' = conn
      \/ /\ conn[s] \notin Over
         /\ \E state : state \notin Over /\ conn' = [conn EXCEPT ![s] = state]
    BY DEF Unlisting, Device, Accept, AcceptError, RegisterRun, Receive, ReceiveError,
           StoreMessage, Connect, DeviceRegister, DeviceData, DeviceQuit, DeviceCrash,
           Goto, Over, proxyVars
<1>4. Gone' = Gone
    BY <1>3 DEF Gone, ListInv, TypeOK
<1> QED
    BY <1>1, <1>2, <1>4

\* A selection leaves selected the entries of these names and no others.
MarksNames(r, names) ==
    \A f \in runDevices'[r] : f.isSelected <=> f.name \in names

\* It sends to each device of the run according to its name.
TellsNames(r, names) ==
    outbox' = [s \in Socket |->
                 IF s \notin SocketsOf(runDevices[r]) THEN outbox[s]
                 ELSE Append(outbox[s], IF NameOf[s] \in names THEN "INSPECT_ON"
                                        ELSE "INSPECT_OFF")]

\* Every request but terminate is a selection by name.
LEMMA RequestNames ==
    ASSUME ListInv, ListInv', NEW r \in Run, Request(r), ~TerminateAll(r)
    PROVE  \E names \in SUBSET Name : MarksNames(r, names) /\ TellsNames(r, names)
<1> DEFINE E == runDevices[r]
<1>0. /\ E \in SUBSET Entry
      /\ \A e \in E : e.name \in Name /\ e.socket \in Socket /\ NameOf[e.socket] = e.name
      /\ runDevices \in [Run -> SUBSET Entry]
    BY DEF ListInv, TypeOK, DevicesType, Entry, ListedIsServed
<1>6. \A f \in runDevices'[r] : f.name \in Name
    BY DEF ListInv, TypeOK, DevicesType, Entry
<1>1. CASE SelectAll(r)
    <2>1. runDevices'[r] = Mark(E, TRUE)
        BY <1>0, <1>1 DEF SelectAll, InterceptAll
    <2>2. \A f \in runDevices'[r] : f.isSelected
        BY <1>0, <2>1, MarkFlag
    <2>3. MarksNames(r, Name)
        BY <2>2, <1>6 DEF MarksNames
    <2>4. \A s \in SocketsOf(E) : NameOf[s] \in Name
        BY <1>0 DEF SocketsOf
    <2>5. TellsNames(r, Name)
        BY <1>1, <2>4 DEF SelectAll, InterceptAll, Send, TellsNames
    <2> QED
        BY <2>3, <2>5
<1>2. ASSUME NEW names \in SUBSET Name, SelectDevices(r, names)
      PROVE  MarksNames(r, names) /\ TellsNames(r, names)
    <2> DEFINE chosen == {e \in E : e.name \in names}
               others == E \ chosen
    <2>1. runDevices'[r] = Mark(chosen, TRUE) \cup Mark(others, FALSE)
        BY <1>0, <1>2 DEF SelectDevices, Intercept
    <2>2. /\ chosen \in SUBSET Entry /\ others \in SUBSET Entry
          /\ \A e \in chosen : e.name \in names
          /\ \A e \in others : e.name \notin names
        BY <1>0
    <2>3. /\ \A s \in SocketsOf(chosen) : s \in SocketsOf(E) /\ NameOf[s] \in names
          /\ \A s \in SocketsOf(others) : s \in SocketsOf(E) /\ NameOf[s] \notin names
          /\ \A s \in SocketsOf(E) : s \in SocketsOf(chosen) \/ s \in SocketsOf(others)
        BY <1>0 DEF SocketsOf
    <2>4. outbox' = [s \in Socket |-> IF s \in SocketsOf(chosen)
                                      THEN Append(outbox[s], "INSPECT_ON")
                                      ELSE IF s \in SocketsOf(others)
                                      THEN Append(outbox[s], "INSPECT_OFF")
                                      ELSE outbox[s]]
        BY <1>2 DEF SelectDevices, Intercept
    <2> HIDE DEF chosen, others
    <2>5. TellsNames(r, names)
        BY <2>3, <2>4 DEF TellsNames
    <2>6. /\ \A f \in Mark(chosen, TRUE) : \E e \in chosen : e.socket = f.socket /\ e.name = f.name
          /\ \A e \in chosen : \E f \in Mark(chosen, TRUE) : e.socket = f.socket /\ e.name = f.name
          /\ OneEach(chosen) => OneEach(Mark(chosen, TRUE))
        BY <2>2, MarkEach
    <2>7. /\ \A f \in Mark(others, FALSE) : \E e \in others : e.socket = f.socket /\ e.name = f.name
          /\ \A e \in others : \E f \in Mark(others, FALSE) : e.socket = f.socket /\ e.name = f.name
          /\ OneEach(others) => OneEach(Mark(others, FALSE))
        BY <2>2, MarkEach
    <2>8. /\ \A f \in Mark(chosen, TRUE) : f.isSelected = TRUE
          /\ \A f \in Mark(others, FALSE) : f.isSelected = FALSE
        BY <2>2, MarkFlag
    <2>9. MarksNames(r, names)
        <3>1. \A f \in Mark(chosen, TRUE) : f.name \in names
            BY <2>2, <2>6
        <3>2. \A f \in Mark(others, FALSE) : f.name \notin names
            BY <2>2, <2>7
        <3> QED
            BY <2>1, <2>8, <3>1, <3>2 DEF MarksNames
    <2> QED
        BY <2>5, <2>9
<1>3. CASE UnselectAll(r)
    <2>1. runDevices'[r] = Mark(E, FALSE)
        BY <1>0, <1>3 DEF UnselectAll, StopInterceptionAll
    <2>2. \A f \in runDevices'[r] : f.isSelected = FALSE
        BY <1>0, <2>1, MarkFlag
    <2>3. MarksNames(r, {})
        BY <2>2 DEF MarksNames
    <2>5. TellsNames(r, {})
        BY <1>3 DEF UnselectAll, StopInterceptionAll, Send, TellsNames
    <2> QED
        BY <2>3, <2>5
<1> QED
    BY <1>1, <1>2, <1>3 DEF Request

\* A request is one of the abstract list, made at one moment.
LEMMA RequestStep ==
    ASSUME ListInv, ListInv', NEW r \in Run, Request(r)
    PROVE  AbstractList!Request(r)
<1> DEFINE H == SocketsOf(runDevices[r])
<1>0. Placed /\ Placed'
    BY WhereListed, PTL
<1>1. AbstractList!On(r) = H
    BY OnIsSockets DEF AbstractList!On, OnList
<1>2. /\ \A q \in Run : q # r => runDevices'[q] = runDevices[q]
      /\ \A f \in runDevices'[r] : \E e \in runDevices[r] :
            e.socket = f.socket /\ e.name = f.name
      /\ \A e \in runDevices[r] : \E f \in runDevices'[r] :
            e.socket = f.socket /\ e.name = f.name
      /\ runKeys' = runKeys \cup {r}
    BY RequestEntries DEF ListInv, TypeOK
<1>3. conn' = conn /\ deviceDocs' = deviceDocs
    BY DEF Request, SelectAll, SelectDevices, UnselectAll, TerminateAll,
           InterceptAll, Intercept, StopInterceptionAll, Terminate
<1>4. OnList' = OnList
    <2>1. ASSUME NEW x \in Socket
          PROVE  (\E e \in runDevices'[RunOf[x]] : e.socket = x)
                    <=> \E e \in runDevices[RunOf[x]] : e.socket = x
        <3>1. RunOf[x] \in Run
            OBVIOUS
        <3> QED
            BY <3>1, <1>2
    <2> QED
        BY <1>0, <2>1 DEF Placed
<1>5. Gone' = Gone
    BY <1>3 DEF Gone
<1>6. Blank' = IF H = {} THEN Blank \cup {r} ELSE Blank
    <2>1. runDevices'[r] = {} <=> runDevices[r] = {}
        BY <1>2
    <2>2. H = {} <=> runDevices[r] = {}
        BY DEF SocketsOf
    <2>3. runKeys \subseteq Run
        BY DEF ListInv, TypeOK, DevicesType
    <2> QED
        BY <1>2, <2>1, <2>2, <2>3 DEF Blank
<1>7. CASE TerminateAll(r)
    <2>1. runDevices' = runDevices /\ Send("TERMINATE", H)
        BY <1>7 DEF TerminateAll, Terminate
    <2>2. Selected' = Selected
        BY <2>1 DEF Selected
    <2> QED
        BY <1>1, <1>3, <1>4, <1>5, <1>6, <2>1, <2>2
        DEF AbstractList!Request, AbstractList!Terminate, OnList, Gone, Blank, Send
<1>8. CASE ~TerminateAll(r)
    <2>1. PICK names \in SUBSET Name : MarksNames(r, names) /\ TellsNames(r, names)
        BY <1>8, RequestNames
    <2> DEFINE chosen == {s \in H : NameOf[s] \in names}
    <2>3. \A f \in runDevices'[r] : f.socket \in Socket /\ f.name = NameOf[f.socket]
        BY EntryTypes DEF ListInv, ListedIsServed, TypeOK, DevicesType, Entry
    <2>4. \A x \in Socket : x \in H <=> RunOf[x] = r /\ \E e \in runDevices[r] : e.socket = x
        BY DEF SocketsOf, ListInv, ListedIsServed
    <2>5. ASSUME NEW x \in Socket, RunOf[x] = r
          PROVE  (\E f \in runDevices'[r] : f.socket = x /\ f.isSelected) <=> x \in chosen
        <3>1. x \in H <=> \E f \in runDevices'[r] : f.socket = x
            BY <1>2, <2>4, <2>5
        <3>2. \A f \in runDevices'[r] : f.socket = x => (f.isSelected <=> NameOf[x] \in names)
            BY <2>1, <2>3 DEF MarksNames
        <3> QED
            BY <3>1, <3>2
    <2>6. ASSUME NEW x \in Socket, RunOf[x] # r
          PROVE  /\ runDevices'[RunOf[x]] = runDevices[RunOf[x]]
                 /\ x \notin H
        <3>1. RunOf[x] \in Run
            OBVIOUS
        <3> QED
            BY <1>2, <2>4, <2>6, <3>1
    <2>7. Selected' = (Selected \ H) \cup chosen
        <3>1. ASSUME NEW x \in Socket
              PROVE  x \in Selected' <=> x \in (Selected \ H) \cup chosen
            <4>1. CASE RunOf[x] # r
                BY <1>0, <2>6, <4>1 DEF Placed
            <4>2. CASE RunOf[x] = r
                <5>1. x \in Selected' <=> x \in chosen
                    BY <1>0, <2>5, <4>2 DEF Placed
                <5>2. x \in Selected => x \in H
                    BY <1>0, <2>4, <4>2 DEF Placed
                <5> QED
                    BY <5>1, <5>2
            <4> QED
                BY <4>1, <4>2
        <3>2. \A x : x \in Selected' \/ x \in (Selected \ H) \cup chosen => x \in Socket
            <4>1. H \subseteq Socket
                BY EntryTypes DEF SocketsOf, ListInv
            <4> QED
                BY <1>0, <4>1 DEF Placed
        <3> QED
            BY <3>1, <3>2
    <2>8. outbox' = [s \in Socket |-> IF s \in chosen THEN Append(outbox[s], "INSPECT_ON")
                                      ELSE IF s \in H THEN Append(outbox[s], "INSPECT_OFF")
                                      ELSE outbox[s]]
        BY <2>1 DEF TellsNames
    <2>9. AbstractList!Select(H, names)
        BY <2>7, <2>8 DEF AbstractList!Select
    <2> QED
        BY <1>1, <1>3, <1>4, <1>5, <1>6, <2>9 DEF AbstractList!Request, OnList, Gone, Blank
<1> QED
    BY <1>7, <1>8

\* The list without what it answers.
ListStep ==
    \/ \E s \in Socket : \/ AbstractList!Enter(s) \/ AbstractList!Record(s)
                        \/ AbstractList!Leave(s) \/ AbstractList!Obey(s)
    \/ \E r \in Run : AbstractList!Request(r)
    \/ UNCHANGED <<OnList, Gone, Selected, deviceDocs, Blank, outbox>>

\* Every step of the service is one of the list, or none.
LEMMA StepOfList == ListInv /\ ListInv' /\ [Next]_vars => ListStep
<1> SUFFICES ASSUME ListInv, ListInv', [Next]_vars PROVE ListStep
    OBVIOUS
<1>1. ASSUME NEW s \in Socket, Unlisting(s) PROVE ListStep
    <2>1. CASE SaveDevice(s)
        BY <2>1, RecordStep DEF ListStep
    <2>2. CASE ReceiveRegistration(s) \/ RegistrationError(s)
        BY <2>2, NeverCameStep DEF ListStep
    <2>3. CASE DeviceObey(s)
        BY <2>3, ObeyStep DEF ListStep
    <2> QED
        BY <1>1, <2>1, <2>2, <2>3, AsideStep DEF ListStep
<1>2. ASSUME NEW s \in Socket, RegisterDevice(s) PROVE ListStep
    BY <1>2, EnterStep DEF ListStep
<1>3. ASSUME NEW s \in Socket, DropDevice(s) PROVE ListStep
    BY <1>3, LeaveStep DEF ListStep
<1>4. ASSUME NEW r \in Run, Request(r) PROVE ListStep
    BY <1>4, RequestStep DEF ListStep
<1>5. CASE UNCHANGED vars
    BY <1>5 DEF vars, ListStep, OnList, Gone, Selected, Blank
<1> QED
    BY <1>1, <1>2, <1>3, <1>4, <1>5, StepKinds

\* What is answered is a function of the rest.
LEMMA SameAnswers ==
    ASSUME AnswersAreShown, AnswersAreShown',
           UNCHANGED <<OnList, Gone, Selected, deviceDocs, Blank, outbox>>,
           NEW r \in Run
    PROVE  GetDevices(r, RunOf)' = GetDevices(r, RunOf)
<1>1. AbstractList!Shown(r)' = AbstractList!Shown(r)
    BY DEF AbstractList!Shown, AbstractList!On, OnList, Blank
<1> QED
    BY <1>1 DEF AnswersAreShown

\* The repository and the connections are one list of devices: what a reader is
\* answered, what the devices are told and who is listed change together.
THEOREM ServiceIsList == Spec => ImplementsList
<1>1. Init => AbstractList!Init
    BY DEF Init, DevicesInit, AbstractList!Init, Selected, SocketsOf, GetDevices, Over
<1>2. ListInv /\ ListInv' /\ [Next]_vars => [AbstractList!Next]_(AbstractList!listVars)
    <2> SUFFICES ASSUME ListInv, ListInv', [Next]_vars
                 PROVE  AbstractList!Next \/ UNCHANGED AbstractList!listVars
        OBVIOUS
    <2>1. AnswersAreShown /\ AnswersAreShown'
        BY ListShows, PTL
    <2>2. [r \in Run |-> GetDevices(r, RunOf)]' = [r \in Run |-> AbstractList!Shown(r)']
        BY <2>1 DEF AnswersAreShown
    <2>3. CASE UNCHANGED <<OnList, Gone, Selected, deviceDocs, Blank, outbox>>
        <3>1. \A r \in Run : GetDevices(r, RunOf)' = GetDevices(r, RunOf)
            BY <2>1, <2>3, SameAnswers
        <3> QED
            BY <2>3, <3>1 DEF AbstractList!listVars, OnList, Gone, Blank
    <2>4. CASE \/ \E s \in Socket : \/ AbstractList!Enter(s) \/ AbstractList!Record(s)
                                    \/ AbstractList!Leave(s) \/ AbstractList!Obey(s)
               \/ \E r \in Run : AbstractList!Request(r)
        BY <2>2, <2>4 DEF AbstractList!Next
    <2> QED
        BY <2>3, <2>4, StepOfList DEF ListStep
<1> QED
    BY <1>1, <1>2, ListInvariant, PTL DEF Spec, ImplementsList, AbstractList!Spec

=============================================================================
