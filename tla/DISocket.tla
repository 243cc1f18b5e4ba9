------------------------------ MODULE DISocket ------------------------------
(***************************************************************************)
(* DISocket::asyncReceive on the stream of a connection.  A message is a   *)
(* header of HeaderSize cells and a body whose length the header tells; it *)
(* comes in pieces, as the network and the other side cut it.  async_read  *)
(* collects pieces until its buffer is full or the stream ends.            *)
(***************************************************************************)
EXTENDS Naturals, Sequences, FiniteSets

CONSTANTS Socket, Message,
          Size,             \* cells in the body of each message
          Script,           \* what each device sends
          HeaderSize        \* cells in a header: 12 bytes in the code

ASSUME StreamAssumption ==
    /\ Size \in [Message -> Nat]
    /\ Script \in [Socket -> Seq(Message)]
    /\ HeaderSize \in Nat \ {0}

VARIABLES outgoing,         \* cells each device has still to send
          wire,             \* cells sent and not read yet
          ended,            \* the device closed its side, or is gone
          reading,          \* what the proxy waits for
          got,              \* cells of the message being read
          delivered         \* messages given to the callback, as they were read

socketVars == <<outgoing, wire, ended, reading, got, delivered>>

\* The bytes of a message; packed and little endian on both sides.
Cells == [m \in Message |-> [i \in 1..HeaderSize + Size[m] |-> [of |-> m, at |-> i]]]

\* What a device sends with its first n messages.
Stream ==
    [s \in Socket |->
        LET stream[n \in 0..Len(Script[s])] ==
                IF n = 0 THEN <<>> ELSE stream[n - 1] \o Cells[Script[s][n]]
        IN  stream]

Whole(s) == Stream[s][Len(Script[s])]

SocketInit ==
    /\ outgoing = [s \in Socket |-> Whole(s)]
    /\ wire = [s \in Socket |-> <<>>]
    /\ ended = [s \in Socket |-> FALSE]
    /\ reading = [s \in Socket |-> "closed"]
    /\ got = [s \in Socket |-> <<>>]
    /\ delivered = [s \in Socket |-> <<>>]

-----------------------------------------------------------------------------
\* The device writes the next piece of its stream.
SendCell(s) ==
    /\ ~ended[s]
    /\ reading[s] # "closed"
    /\ outgoing[s] # <<>>
    /\ outgoing' = [outgoing EXCEPT ![s] = Tail(@)]
    /\ wire' = [wire EXCEPT ![s] = Append(@, Head(outgoing[s]))]
    /\ UNCHANGED <<ended, reading, got, delivered>>

\* The device closes, and what it sent arrives, or breaks off and it does not.
EndOfStream(s) ==
    /\ ~ended[s]
    /\ reading[s] # "closed"
    /\ ended' = [ended EXCEPT ![s] = TRUE]
    /\ \E rest \in {wire[s], <<>>} : wire' = [wire EXCEPT ![s] = rest]
    /\ UNCHANGED <<outgoing, reading, got, delivered>>

Waiting(s) == reading[s] \in {"header", "body"}

\* payloadSize() of the header that was read.
PayloadSize(s) == Size[got[s][HeaderSize].of]

\* Fault: the body is taken with a receive, which any piece satisfies.
FaultyBodyLength(s) == IF PayloadSize(s) > 0 THEN 1 ELSE 0

BodyLength(s) == PayloadSize(s)

\* Length of the message at the end of the current async_read.
Needed(s) == IF reading[s] = "header" THEN HeaderSize ELSE HeaderSize + BodyLength(s)

\* asyncReceive: a new message, beginning with its header.
AsyncReceive(s) ==
    /\ reading' = [reading EXCEPT ![s] = "header"]
    /\ got' = [got EXCEPT ![s] = <<>>]

\* async_read takes a piece.
ReadCell(s) ==
    /\ Waiting(s)
    /\ Len(got[s]) < Needed(s)
    /\ wire[s] # <<>>
    /\ got' = [got EXCEPT ![s] = Append(@, Head(wire[s]))]
    /\ wire' = [wire EXCEPT ![s] = Tail(@)]
    /\ UNCHANGED <<outgoing, ended, reading, delivered>>

\* receiveBody.
HeaderRead(s) ==
    /\ reading[s] = "header"
    /\ Len(got[s]) = HeaderSize
    /\ PayloadSize(s) > 0
    /\ reading' = [reading EXCEPT ![s] = "body"]
    /\ UNCHANGED <<outgoing, wire, ended, got, delivered>>

\* Fault: the handler of the header does nothing if there is no body.
FaultyMessageRead(s) ==
    /\ reading[s] = "body"
    /\ Len(got[s]) = Needed(s)
    /\ reading' = [reading EXCEPT ![s] = "callback"]
    /\ delivered' = [delivered EXCEPT ![s] = Append(@, got[s])]
    /\ UNCHANGED <<outgoing, wire, ended, got>>

\* The message is complete: receiveCallback begins.
MessageRead(s) ==
    /\ Waiting(s)
    /\ Len(got[s]) = Needed(s)
    /\ reading[s] = "header" => PayloadSize(s) = 0
    /\ reading' = [reading EXCEPT ![s] = "callback"]
    /\ delivered' = [delivered EXCEPT ![s] = Append(@, got[s])]
    /\ UNCHANGED <<outgoing, wire, ended, got>>

\* The stream ends in the middle of an async_read: errorHandler, if any.
ReadError(s) ==
    /\ Waiting(s)
    /\ Len(got[s]) < Needed(s)
    /\ ended[s]
    /\ wire[s] = <<>>
    /\ reading' = [reading EXCEPT ![s] = "failed"]
    /\ UNCHANGED <<outgoing, wire, ended, got, delivered>>

-----------------------------------------------------------------------------
\* How long the stream is after n messages.
End == [s \in Socket |-> [n \in 0..Len(Script[s]) |-> Len(Stream[s][n])]]

\* How many cells the device has sent, how many messages it has begun to send,
\* and how many it has sent to the end.
Sent(s) == End[s][Len(Script[s])] - Len(outgoing[s])

Begun(s) == Cardinality({n \in DOMAIN Script[s] : End[s][n - 1] < Sent(s)})

WhollySent(s) == Cardinality({n \in DOMAIN Script[s] : End[s][n] <= Sent(s)})

AbstractChannel == INSTANCE Channel WITH
    Message <- {Cells[m] : m \in Message},
    sent <- [s \in Socket |-> [n \in 1..Begun(s) |-> Cells[Script[s][n]]]],
    failed <- [s \in Socket |-> reading[s] = "failed"]

\* To its owner a DISocket is a channel of whole messages, however the stream
\* is cut and wherever it breaks off.
ImplementsChannel == AbstractChannel!Spec

=============================================================================
