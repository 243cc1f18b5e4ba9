----------------------------- MODULE Receiving -----------------------------
(***************************************************************************)
(* How the bytes of a device become an entry of the list: the threads of   *)
(* SocketManagerService's pool run the io_context, the io_context reads    *)
(* from the sockets, the first message registers a device and the others   *)
(* are handled one by one.  SocketManager has the same handlers with their *)
(* effects on runs and messages; here a handler is what it does to the     *)
(* stream, to the thread it runs on and to what the list shows of devices. *)
(* Selections are SocketManager's: a request is what it does to the keys.  *)
(***************************************************************************)
EXTENDS ThreadPool, DISocket, DeviceSpecs

CONSTANTS Type, Payload     \* type and JSON of each message

Registration == {m \in Message : Type[m] = "DEVICE_ON"}

\* A device describes its channels with the members the proxy knows of.
ASSUME PayloadAssumption ==
    \A m \in Registration :
        /\ IsArrayOf(Input, Payload[m].specs.inputs)
        /\ IsArrayOf(Output, Payload[m].specs.outputs)
        /\ IsArrayOf(Forward, Payload[m].specs.forwards)

Runs == {Payload[m].runId : m \in Registration}

VARIABLES started,          \* jobs that start() has added
          accepting,        \* acceptNext() is outstanding
          step,             \* how far the first handler of a connection is
          registered,       \* the message its device was made from, if any
          refused,          \* connections and the writes refused to them
          listed,           \* connections in runDevices
          keys,             \* keys of runDevices
          documents         \* connections whose device has a document in "devices"

listVars == <<step, registered, refused, listed, keys, documents>>
vars == <<poolVars, socketVars, started, accepting, listVars>>

Init ==
    /\ PoolInit
    /\ SocketInit
    /\ started = 0
    /\ accepting = TRUE
    /\ step = [s \in Socket |-> "first"]
    /\ registered = [s \in Socket |-> {}]
    /\ refused = {}
    /\ listed = {}
    /\ keys = {}
    /\ documents = {}

-----------------------------------------------------------------------------
\* SocketManagerService::start, one addJob at a time.
StartJob ==
    /\ started < Cardinality(Worker)
    /\ owed = 0
    /\ AddJob("ioContext.run")
    /\ started' = started + 1
    /\ UNCHANGED <<socketVars, accepting, listVars>>

PoolStep ==
    /\ \/ Notify
       \/ \E w \in Worker : TakeOrSleep(w) \/ WakeUp(w)
    /\ UNCHANGED <<socketVars, started, accepting, listVars>>

\* ioContext.run() returns when nothing is outstanding any more.
RunReturns(w) ==
    /\ ~accepting
    /\ \A s \in Socket : reading[s] \in {"closed", "failed", "done"}
    /\ JobEnd(w)
    /\ UNCHANGED <<socketVars, started, accepting, listVars>>

\* A thread in ioContext.run() that is not in a handler.
ThreadFree ==
    Cardinality({s \in Socket : reading[s] = "callback"}) < Cardinality(Workers("job"))

Accept(s) ==
    /\ ThreadFree
    /\ accepting
    /\ reading[s] = "closed"
    /\ AsyncReceive(s)
    /\ UNCHANGED <<poolVars, outgoing, wire, ended, delivered, started, accepting, listVars>>

AcceptError ==
    /\ ThreadFree
    /\ accepting
    /\ accepting' = FALSE
    /\ UNCHANGED <<poolVars, socketVars, started, listVars>>

\* Connections whose device belongs to the run r.
Of(r) == {s \in Socket : \E m \in registered[s] : Payload[m].runId = r}

\* Fault: the key goes with any entry of its run.
FaultyLeave(s) ==
    /\ listed' = listed \ {s}
    /\ keys' = keys \ {r \in Runs : s \in Of(r)}
    /\ UNCHANGED <<step, registered, refused, documents>>

\* removeDevice: the key goes with the last entry of its run.
Leave(s) ==
    /\ listed' = listed \ {s}
    /\ \E r \in Runs :
        /\ s \in Of(r)
        /\ keys' = IF Of(r) \cap listed' = {} THEN keys \ {r} ELSE keys \cup {r}
    /\ UNCHANGED <<step, registered, refused, documents>>

\* Only a receive after the registration has an error handler.
ReceiveError(s) ==
    /\ ReadError(s)
    /\ IF step[s] = "first" THEN UNCHANGED listVars ELSE Leave(s)

ReadStep(s) ==
    /\ ThreadFree
    /\ \/ (ReadCell(s) \/ HeaderRead(s) \/ MessageRead(s)) /\ UNCHANGED listVars
       \/ ReceiveError(s)
    /\ UNCHANGED <<poolVars, started, accepting>>

Received(s) == Head(got[s]).of

Done(s) ==
    /\ reading' = [reading EXCEPT ![s] = "done"]
    /\ UNCHANGED got

-----------------------------------------------------------------------------
(* The first handler: it updates the status of the run, lists the device,  *)
(* inserts its document and receives on, after a refused write as well.    *)

Goto(s, next) == step' = [step EXCEPT ![s] = next]

GoOn(s) == Goto(s, "receive") /\ AsyncReceive(s)

Refuse(s, write) == refused' = refused \cup {<<s, write>>} /\ GoOn(s)

\* The first message is no registration, or the status is written or is not.
Register(s) ==
    /\ step[s] = "first"
    /\ IF Type[Received(s)] # "DEVICE_ON"
       THEN Done(s) /\ UNCHANGED listVars
       ELSE /\ registered' = [registered EXCEPT ![s] = {Received(s)}]
            /\ \/ Goto(s, "addDevice") /\ UNCHANGED <<reading, got, refused>>
               \/ Refuse(s, "updateStatus")
            /\ UNCHANGED <<listed, keys, documents>>

\* addDevice, the part under the mutex.
AddDevice(s) ==
    /\ step[s] = "addDevice"
    /\ Goto(s, "insertDevice")
    /\ listed' = listed \cup {s}
    /\ keys' = keys \cup {r \in Runs : s \in Of(r)}
    /\ UNCHANGED <<reading, got, registered, refused, documents>>

\* addDevice, the insertion after the mutex is released.
InsertDevice(s) ==
    /\ step[s] = "insertDevice"
    /\ \/ documents' = documents \cup {s} /\ GoOn(s) /\ UNCHANGED refused
       \/ Refuse(s, "addDevice") /\ UNCHANGED documents
    /\ UNCHANGED <<registered, listed, keys>>

\* receiveCallback: DEVICE_OFF, or a message to store.
Handle(s) ==
    /\ step[s] = "receive"
    /\ IF Type[Received(s)] = "DEVICE_OFF"
       THEN Leave(s) /\ Done(s)
       ELSE AsyncReceive(s) /\ UNCHANGED listVars

Callback(s) ==
    /\ reading[s] = "callback"
    /\ Register(s) \/ AddDevice(s) \/ InsertDevice(s) \/ Handle(s)
    /\ UNCHANGED <<poolVars, outgoing, wire, ended, delivered, started, accepting>>

\* terminate, intercept or stopInterception, for a client of the proxy: they
\* read the list of a run with operator[], which creates its key.
Request(r) ==
    /\ keys' = keys \cup {r}
    /\ UNCHANGED <<poolVars, socketVars, started, accepting, step, registered, refused,
                   listed, documents>>

DeviceStep(s) ==
    /\ SendCell(s) \/ EndOfStream(s)
    /\ UNCHANGED <<poolVars, started, accepting, listVars>>

-----------------------------------------------------------------------------
Next ==
    \/ StartJob
    \/ PoolStep
    \/ AcceptError
    \/ \E w \in Worker : RunReturns(w)
    \/ \E s \in Socket : Accept(s) \/ ReadStep(s) \/ Callback(s) \/ DeviceStep(s)
    \/ \E r \in Runs : Request(r)

Spec == Init /\ [][Next]_vars

\* Main goes on, and so does some thread; io_context serves what is ready in its
\* order.  Nothing is assumed of devices, requests and spurious wake-ups.
Fairness ==
    /\ WF_vars(StartJob)
    /\ WF_vars(Notify /\ UNCHANGED <<socketVars, started, accepting, listVars>>)
    /\ WF_vars(/\ \E w \in Worker : TakeOrSleep(w)
               /\ UNCHANGED <<socketVars, started, accepting, listVars>>)
    /\ SF_vars(\E s \in Socket : ReadStep(s))
    /\ WF_vars(\E s \in Socket : Callback(s))

FairSpec == Spec /\ Fairness

-----------------------------------------------------------------------------
(* Properties.                                                             *)

\* A message that has been sent as a whole reaches its callback, unless the
\* connection ends or the proxy has stopped to read from it: what was sent and
\* what was delivered only grow, and again and again there is nothing to deliver.
ArrivedIsDelivered ==
    \A s \in Socket :
        []<>(Len(delivered[s]) >= WhollySent(s) \/ ended[s] \/ reading[s] = "done")

\* The entry of a device in the list, and the one made from its document.
Live == [m \in Registration |-> ToJson(ToDomain(Payload[m]))]

Past == [m \in Registration |-> ToJson(FromDocument(ToDocument(ToDomain(Payload[m]))))]

\* The endpoint getDevices: the list if the run has a key, else the history.
Listing(r) ==
    IF r \in keys
    THEN {Live[m] : m \in UNION {registered[s] : s \in Of(r) \cap listed}}
    ELSE {Past[m] : m \in UNION {registered[s] : s \in Of(r) \cap documents}}

\* The same members, but for the name under which the channel is shown.
SameItems(shown, json) ==
    /\ Len(shown) = Len(json)
    /\ \A i \in DOMAIN shown :
        /\ DOMAIN shown[i] \ {"sourceChannel"} = DOMAIN json[i] \ {"channel", "sourceChannel"}
        /\ \A m \in DOMAIN shown[i] \cap DOMAIN json[i] : shown[i][m] = json[i][m]
        /\ "channel" \in DOMAIN json[i] => shown[i].sourceChannel = json[i].channel

Shows(shown, json, channels) ==
    /\ shown.name = json.name
    /\ \A n \in Numbers : shown.specs.numbers[n] = json.specs[n]
    /\ channels =>
        /\ SameItems(shown.specs.inputs, json.specs.inputs)
        /\ SameItems(shown.specs.outputs, json.specs.outputs)
        /\ SameItems(shown.specs.forwards, json.specs.forwards)

\* Connections of r whose device is there: its status was written and it was
\* added, and the proxy has not seen its end.
Connected(r) ==
    {s \in Of(r) :
        /\ step[s] \in {"insertDevice", "receive"}
        /\ <<s, "updateStatus">> \notin refused
        /\ reading[s] \notin {"done", "failed"}}

\* Connections of r that have registered, with both writes.
Recorded(r) ==
    {s \in Of(r) : step[s] = "receive" /\ \A write \in {"updateStatus", "addDevice"} :
                                                <<s, write>> \notin refused}

\* While a device of the run is connected, or after a request for a run without
\* one, the listing shows exactly the devices that are connected, each as it
\* registered, down to the members it left out; else it shows every device that
\* ever registered, but for refused writes, without its channels.
ListingShowsRegistration ==
    \A r \in Runs :
        LET said(s) == Payload[Head(delivered[s][1]).of]
            live == r \in keys \/ Connected(r) # {}
            expected == IF live THEN Connected(r) ELSE Recorded(r)
        IN  /\ \A shown \in Listing(r) : \E s \in expected : Shows(shown, said(s), live)
            /\ \A s \in expected : \E shown \in Listing(r) : Shows(shown, said(s), live)

=============================================================================
