------------------------- MODULE DevicesRepository -------------------------
(***************************************************************************)
(* MongoDevicesRepository: the devices connected now, per run, and the     *)
(* "devices" collection of those that ever registered.  Every operation    *)
(* but addDevice is one critical section of runDevicesMutex, so it is one  *)
(* action; addDevice is two, the critical section and the insertion.       *)
(*                                                                         *)
(* runDevices is an unordered_map from runs to vectors.  A vector is the   *)
(* set of its entries (their order shows only in the listing order), and   *)
(* the map is a total function with the set of keys it really holds: the   *)
(* code reads it with operator[], which creates the key it looks up.       *)
(***************************************************************************)
EXTENDS Naturals, Sequences, RunRepository

CONSTANTS Name,             \* names of devices
          Socket            \* DISocket objects, one per accepted connection

VARIABLES runKeys,          \* keys present in runDevices
          runDevices,       \* entries per run, {} without a key
          deviceDocs,       \* documents of "devices", by registering socket
          outbox            \* commands sent on a socket, unread by its device

repositoryVars == <<runKeys, runDevices, deviceDocs, outbox>>

Entry == [name : Name, socket : Socket, isSelected : BOOLEAN]

Command == {"INSPECT_ON", "INSPECT_OFF", "TERMINATE"}

DevicesType ==
    /\ runKeys \in SUBSET Run
    /\ runDevices \in [Run -> SUBSET Entry]
    /\ deviceDocs \in SUBSET Socket
    /\ outbox \in [Socket -> Seq(Command)]

DevicesInit ==
    /\ runKeys = {}
    /\ runDevices = [r \in Run |-> {}]
    /\ deviceDocs = {}
    /\ outbox = [s \in Socket |-> <<>>]

-----------------------------------------------------------------------------
SocketsOf(entries) == {e.socket : e \in entries}

Listed(s) == \E r \in Run : s \in SocketsOf(runDevices[r])

\* Fault: the loop over the vector marks copies of its entries.
FaultyMark(entries, selected) == entries

Mark(entries, selected) ==
    {[e EXCEPT !.isSelected = selected] : e \in entries}

\* DISocket::asyncSend of one command to each of these sockets.
Send(command, sockets) ==
    outbox' = [s \in Socket |-> IF s \in sockets
                                THEN Append(outbox[s], command)
                                ELSE outbox[s]]

\* runDevices[r] creates the key r when it is not there.
Touch(r) == runKeys' = runKeys \cup {r}

-----------------------------------------------------------------------------
\* Fault: a name is listed once per run.
FaultyAddDevice(r, name, s) ==
    /\ Touch(r)
    /\ runDevices' = [runDevices EXCEPT ![r] =
                        IF \E e \in @ : e.name = name THEN @
                        ELSE @ \cup {[name |-> name, socket |-> s, isSelected |-> FALSE]}]
    /\ UNCHANGED <<deviceDocs, outbox>>

\* addDevice, the part under the mutex.
AddDevice(r, name, s) ==
    /\ Touch(r)
    /\ runDevices' = [runDevices EXCEPT ![r] =
                        @ \cup {[name |-> name, socket |-> s, isSelected |-> FALSE]}]
    /\ UNCHANGED <<deviceDocs, outbox>>

\* addDevice, the insertion after the mutex is released.
InsertDevice(s) ==
    /\ deviceDocs' = deviceDocs \cup {s}
    /\ UNCHANGED <<runKeys, runDevices, outbox>>

\* Fault: the name alone identifies a device.
FaultyFound(r, name, s) == {e \in runDevices[r] : e.name = name}

\* The entries removeDevice looks for.
Found(r, name, s) == {e \in runDevices[r] : e.name = name /\ e.socket = s}

\* Fault: the key stays with an empty vector.
FaultyKeysAfter(r, rest) == runKeys \cup {r}

\* The keys once the vector of r is rest.
KeysAfter(r, rest) == IF rest = {} THEN runKeys \ {r} ELSE runKeys \cup {r}

\* removeDevice erases the first of them, if there is one, and then the key
\* when the vector is empty.
RemoveDevice(r, name, s) ==
    LET found == Found(r, name, s)
        rests == IF found = {} THEN {runDevices[r]}
                 ELSE {runDevices[r] \ {e} : e \in found}
    IN  \E rest \in rests :
            /\ runDevices' = [runDevices EXCEPT ![r] = rest]
            /\ runKeys' = KeysAfter(r, rest)
            /\ UNCHANGED <<deviceDocs, outbox>>

\* getDevices: the live entries when the run has a key, else the history.
\* A device read back from the collection is never selected.
GetDevices(r, RunOf) ==
    IF r \in runKeys
    THEN {<<e.socket, e.isSelected>> : e \in runDevices[r]}
    ELSE {<<s, FALSE>> : s \in {d \in deviceDocs : RunOf[d] = r}}

\* Fault: the message is built and never sent.
FaultyTerminate(r) == Touch(r) /\ UNCHANGED <<runDevices, deviceDocs, outbox>>

\* terminate: TERMINATE to every device of the run listed now.
Terminate(r) ==
    /\ Touch(r)
    /\ Send("TERMINATE", SocketsOf(runDevices[r]))
    /\ UNCHANGED <<runDevices, deviceDocs>>

\* intercept(runId): select every device of the run.
InterceptAll(r) ==
    /\ Touch(r)
    /\ runDevices' = [runDevices EXCEPT ![r] = Mark(@, TRUE)]
    /\ Send("INSPECT_ON", SocketsOf(runDevices[r]))
    /\ UNCHANGED deviceDocs

\* Fault: the devices that are not chosen keep the selection they had.
FaultyIntercept(r, names) ==
    LET chosen == {e \in runDevices[r] : e.name \in names}
    IN  /\ Touch(r)
        /\ runDevices' = [runDevices EXCEPT ![r] = Mark(chosen, TRUE) \cup (@ \ chosen)]
        /\ Send("INSPECT_ON", SocketsOf(chosen))
        /\ UNCHANGED deviceDocs

\* intercept(runId, names): select these devices, unselect all others.
Intercept(r, names) ==
    LET chosen == {e \in runDevices[r] : e.name \in names}
        others == runDevices[r] \ chosen
    IN  /\ Touch(r)
        /\ runDevices' = [runDevices EXCEPT ![r] =
                            Mark(chosen, TRUE) \cup Mark(others, FALSE)]
        /\ outbox' = [s \in Socket |->
                        IF s \in SocketsOf(chosen)
                        THEN Append(outbox[s], "INSPECT_ON")
                        ELSE IF s \in SocketsOf(others)
                        THEN Append(outbox[s], "INSPECT_OFF")
                        ELSE outbox[s]]
        /\ UNCHANGED deviceDocs

\* stopInterception(runId): unselect every device of the run.
StopInterceptionAll(r) ==
    /\ Touch(r)
    /\ runDevices' = [runDevices EXCEPT ![r] = Mark(@, FALSE)]
    /\ Send("INSPECT_OFF", SocketsOf(runDevices[r]))
    /\ UNCHANGED deviceDocs

=============================================================================
