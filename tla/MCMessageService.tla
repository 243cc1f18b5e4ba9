-------------------------- MODULE MCMessageService --------------------------
(***************************************************************************)
(* MessageService on small instances: 32 bits are 3, 64 bits are 6, so that*)
(* the 31-bit limit lies between the numbers used.                         *)
(***************************************************************************)
EXTENDS MessageService

CONSTANTS d, e

SomeMessages ==
    {[sender |-> s, subSpecification |-> n, startTime |-> t, duration |-> u,
      payloadSize |-> z, creationTimer |-> c] :
        s \in {d}, n \in {1, 5}, t \in {1, 2}, u \in {2}, z \in {1, 3}, c \in {7}}
    \cup
    {[sender |-> s, subSpecification |-> 1, startTime |-> t, duration |-> u,
      payloadSize |-> z, creationTimer |-> c] :
        s \in {e}, t \in {2, 6}, u \in {1, 3}, z \in {2}, c \in {7, 40}}

Unbounded == [begin |-> {}, end |-> {}]

SomeRequests ==
    [device : {{}, {d}}, subSpecification : {{}, {1}, {5}}, payloadParts : {{}},
     StartTimeRange : {Unbounded, [begin |-> {2}, end |-> {}]},
     CreationTimeRange : {Unbounded, [begin |-> {}, end |-> {8}]}, count : {{}, {0}, {1}}]
    \cup
    [device : {{}}, subSpecification : {{}}, payloadParts : {{}, {1}},
     StartTimeRange : {[begin |-> {1}, end |-> {1}]}, CreationTimeRange : {Unbounded},
     count : {{2}}]

=============================================================================
