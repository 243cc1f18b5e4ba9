------------------------- MODULE MessageRepository -------------------------
(***************************************************************************)
(* The "messages" collection of MongoDB, as MongoMessageRepository writes  *)
(* and queries it: what the conversions between a Message and its document *)
(* do to numbers, and what the two queries select.  One field stands for   *)
(* all that are treated alike:                                             *)
(*   sender            the strings                                         *)
(*   subSpecification  the uint32_t fields                                 *)
(*   startTime, duration, payloadSize   uint64_t fields stored as INT32    *)
(*   creationTimer     the uint64_t field stored as DECIMAL128             *)
(* A document also has its oid, which libbson draws from a counter.        *)
(***************************************************************************)
EXTENDS Integers, FiniteSets

CONSTANTS W32,              \* 2^32, or a small stand-in
          W64               \* 2^64, or a small stand-in

ASSUME WidthAssumption ==
    /\ {W32, W64} \subseteq Nat \ {0}
    /\ W32 % 2 = 0
    /\ W64 % W32 = 0

\* BSON_APPEND_INT32: the low 32 bits, read as a signed number.
Int32(v) == LET low == v % W32 IN IF 2 * low < W32 THEN low ELSE low - W32

\* An int32_t assigned to a uint32_t or to a uint64_t.
UInt32(v) == v % W32

UInt64(v) == v % W64

\* addMessage: the document of m.
ToDocument(oid, m) ==
    [oid |-> oid,
     sender |-> m.sender,
     subSpecification |-> Int32(m.subSpecification),
     startTime |-> Int32(m.startTime),
     duration |-> Int32(m.duration),
     payloadSize |-> Int32(m.payloadSize),
     creationTimer |-> m.creationTimer]

\* getMessage, newerMessages and search read a document back the same way.
FromDocument(doc) ==
    [sender |-> doc.sender,
     subSpecification |-> UInt32(doc.subSpecification),
     startTime |-> UInt64(doc.startTime),
     duration |-> UInt64(doc.duration),
     payloadSize |-> UInt64(doc.payloadSize),
     creationTimer |-> doc.creationTimer]

-----------------------------------------------------------------------------
\* The n documents with the smallest oids, and with the largest: a sort by
\* _id, then a limit.  Of a pipeline the limit must not be 0, or the cursor
\* fails and gives nothing; for find 0 is no limit.
Oldest(docs, n) ==
    {d \in docs : Cardinality({e \in docs : e.oid < d.oid}) < n}

Newest(docs, n) ==
    {d \in docs : n = 0 \/ Cardinality({e \in docs : e.oid > d.oid}) < n}

\* Fault: the page is cut from the wrong end.
FaultyNewerMessages(docs, after, senders, count) ==
    Newest({d \in docs : d.oid > after /\ d.sender \in senders}, count)

\* Fault: the id of the last message does not reach the query.
FaultyAnyMessages(docs, after, senders, count) ==
    Oldest({d \in docs : d.sender \in senders}, count)

\* newerMessages; the empty id of a first request is 0 here.
NewerMessages(docs, after, senders, count) ==
    Oldest({d \in docs : d.oid > after /\ d.sender \in senders}, count)

-----------------------------------------------------------------------------
(* search.  An optional parameter is the set of its value or empty.        *)

\* paramQuery: the bounds are compared with the number that is stored.
Within(stored, range) ==
    /\ \A v \in range.begin : stored >= v
    /\ \A v \in range.end : stored <= v

\* The numbers asked for are INT64.  payloadParts and taskHash name fields that
\* addMessage never writes.
Matches(doc, request) ==
    /\ \A v \in request.device : doc.sender = v
    /\ \A v \in request.subSpecification : doc.subSpecification = v
    /\ request.payloadParts = {}
    /\ Within(doc.startTime, request.StartTimeRange)
    /\ Within(doc.creationTimer, request.CreationTimeRange)

\* Fault: the limit is applied to the oldest first.
FaultySearch(docs, request) ==
    LET found == {d \in docs : Matches(d, request)}
    IN  IF request.count = {} THEN found
        ELSE Oldest(found, CHOOSE n \in request.count : TRUE)

\* Without a count there is no sort: the documents come as they were inserted.
Search(docs, request) ==
    LET found == {d \in docs : Matches(d, request)}
    IN  IF request.count = {} THEN found
        ELSE Newest(found, CHOOSE n \in request.count : TRUE)

=============================================================================
