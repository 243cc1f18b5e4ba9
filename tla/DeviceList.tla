----------------------------- MODULE DeviceList -----------------------------
(***************************************************************************)
(* What the list of devices promises to the HTTP threads and the devices.  *)
(* A device is listed at most once and leaves for good when its connection *)
(* is over.  A request on a run acts at one moment: it concerns exactly the *)
(* devices of the run that are listed then, by name and never by another's *)
(* name or end, and each of them is sent one command that says what the    *)
(* list shows from then on.                                                *)
(*                                                                         *)
(* A run without a listed device is answered with the devices recorded for *)
(* it, unless a request has been made on it in vain: then with none, until *)
(* a device comes or goes.                                                 *)
(***************************************************************************)
EXTENDS Naturals, Sequences

CONSTANTS Run, Name, Socket, RunOf, NameOf

VARIABLES listed,           \* devices on the list
          gone,             \* devices whose connection is over
          selected,         \* listed devices shown as selected
          recorded,         \* devices that ever registered
          blank,            \* runs whose record is hidden
          commands,         \* under way to each device
          answer            \* devices shown for each run, with their flags

listVars == <<listed, gone, selected, recorded, blank, commands, answer>>

On(r) == {s \in listed : RunOf[s] = r}

Shown(r) ==
    IF On(r) # {} THEN {<<s, s \in selected>> : s \in On(r)}
    ELSE IF r \in blank THEN {}
    ELSE {<<s, FALSE>> : s \in {d \in recorded : RunOf[d] = r}}

Init ==
    /\ listed = {}
    /\ gone = {}
    /\ selected = {}
    /\ recorded = {}
    /\ blank = {}
    /\ commands = [s \in Socket |-> <<>>]
    /\ answer = [r \in Run |-> {}]

-----------------------------------------------------------------------------
\* Nobody has selected a device that comes.
Enter(s) ==
    /\ s \notin listed \cup gone
    /\ listed' = listed \cup {s}
    /\ blank' = blank \ {RunOf[s]}
    /\ UNCHANGED <<gone, selected, recorded, commands>>

Record(s) ==
    /\ s \in listed
    /\ recorded' = recorded \cup {s}
    /\ UNCHANGED <<listed, gone, selected, blank, commands>>

\* A connection may end without its device ever having been listed.
Leave(s) ==
    /\ s \notin gone
    /\ listed' = listed \ {s}
    /\ gone' = gone \cup {s}
    /\ selected' = selected \ {s}
    /\ blank' \in {blank, blank \ {RunOf[s]}}
    /\ UNCHANGED <<recorded, commands>>

\* Of these devices, the ones with these names are selected, the others are not.
Select(devices, names) ==
    LET chosen == {s \in devices : NameOf[s] \in names}
    IN  /\ selected' = (selected \ devices) \cup chosen
        /\ commands' = [s \in Socket |->
                          IF s \in chosen THEN Append(commands[s], "INSPECT_ON")
                          ELSE IF s \in devices THEN Append(commands[s], "INSPECT_OFF")
                          ELSE commands[s]]

Terminate(devices) ==
    /\ UNCHANGED selected
    /\ commands' = [s \in Socket |-> IF s \in devices THEN Append(commands[s], "TERMINATE")
                                     ELSE commands[s]]

Request(r) ==
    LET here == On(r)
    IN  /\ UNCHANGED <<listed, gone, recorded>>
        /\ blank' = IF here = {} THEN blank \cup {r} ELSE blank
        /\ Terminate(here) \/ \E names \in SUBSET Name : Select(here, names)

Obey(s) ==
    /\ commands[s] # <<>>
    /\ commands' = [commands EXCEPT ![s] = Tail(@)]
    /\ UNCHANGED <<listed, gone, selected, recorded, blank>>

Next ==
    /\ \/ \E s \in Socket : Enter(s) \/ Record(s) \/ Leave(s) \/ Obey(s)
       \/ \E r \in Run : Request(r)
    /\ answer' = [r \in Run |-> Shown(r)']

Spec == Init /\ [][Next]_listVars

=============================================================================
