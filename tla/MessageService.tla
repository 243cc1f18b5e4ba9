--------------------------- MODULE MessageService ---------------------------
(***************************************************************************)
(* Statistics over the stored messages: MessageService::search on what     *)
(* MongoMessageRepository finds.  Messages only arrive; the results of a   *)
(* request are operators on the state, compared with what the client means *)
(* by it.  The loops of search are recursive functions of their rounds, as *)
(* a proof can unfold them.                                                *)
(***************************************************************************)
EXTENDS MessageRepository, Sequences, SequencesExt

CONSTANTS Messages,         \* messages as the devices send them
          Requests,         \* requests for statistics
          MaxStored         \* bound: messages stored

\* Numbers have the widths of their fields.
ASSUME MessagesAssumption ==
    \A m \in Messages :
        m \in [sender : {m.sender}, subSpecification : 0..W32 - 1, startTime : 0..W64 - 1,
              duration : 0..W64 - 1, payloadSize : 0..W64 - 1,
              creationTimer : {m.creationTimer}]

\* A count is one number, if any, and fits the INT64 of a limit.
ASSUME RequestsAssumption ==
    \A request \in Requests :
        /\ request.count \subseteq {n \in Nat : 2 * n < W64}
        /\ \A n, k \in request.count : n = k

VARIABLE stored             \* messages in the order of their oids

Init == stored = <<>>

AddMessage(m) ==
    /\ Len(stored) < MaxStored
    /\ stored' = Append(stored, m)

Next == \E m \in Messages : AddMessage(m)

Spec == Init /\ [][Next]_stored

-----------------------------------------------------------------------------
\* The numbers of S in ascending order.
Ascending(S) ==
    [i \in 1..Cardinality(S) |-> CHOOSE x \in S : Cardinality({y \in S : y < x}) = i - 1]

Documents == {ToDocument(i, stored[i]) : i \in DOMAIN stored}

\* The oids that search finds, in the order in which it returns them: newest
\* first when there is a count, be it 0.
FoundOids(request) ==
    LET oids == {d.oid : d \in Search(Documents, request)}
    IN  IF request.count = {} THEN Ascending(oids) ELSE Reverse(Ascending(oids))

Found(request) ==
    LET oids == FoundOids(request)
    IN  [i \in DOMAIN oids |-> FromDocument(ToDocument(oids[i], stored[oids[i]]))]

\* A field of all rows added up.
Sum(field, rows) ==
    LET sum[n \in 0..Len(rows)] == IF n = 0 THEN 0 ELSE sum[n - 1] + rows[n][field]
    IN  sum[Len(rows)]

\* transform_reduce in uint64_t, which wraps.
Total(field, msgs) == Sum(field, msgs) % W64

\* msgsByTimestamp[time].
With(msgs, time) ==
    LET bucket[n \in 0..Len(msgs)] ==
            IF n = 0 THEN <<>>
            ELSE IF msgs[n].startTime = time THEN Append(bucket[n - 1], msgs[n])
            ELSE bucket[n - 1]
    IN  bucket[Len(msgs)]

\* orderedTimestamps.
Times(msgs) == Ascending({msgs[i].startTime : i \in DOMAIN msgs})

\* Fault: a bucket is cut short by one message.
FaultyHistogram(msgs) ==
    [i \in DOMAIN Times(msgs) |->
        LET bucket == Tail(With(msgs, Times(msgs)[i]))
        IN  <<Times(msgs)[i], Len(bucket), Total("payloadSize", bucket)>>]

\* stats.data.
Histogram(msgs) ==
    [i \in DOMAIN Times(msgs) |->
        LET bucket == With(msgs, Times(msgs)[i])
        IN  <<Times(msgs)[i], Len(bucket), Total("payloadSize", bucket)>>]

\* The messages in the order in which the two loops visit them.
Visited(msgs) ==
    LET visited[k \in 0..Len(Times(msgs))] ==
            IF k = 0 THEN <<>> ELSE visited[k - 1] \o With(msgs, Times(msgs)[k])
    IN  visited[Len(Times(msgs))]

Highest(field, msgs) ==
    LET v == Visited(msgs)
        max[n \in 0..Len(v)] ==
            IF n = 0 THEN 0
            ELSE IF v[n][field] > max[n - 1] THEN v[n][field] ELSE max[n - 1]
    IN  max[Len(v)]

\* Fault: the smallest starts at zero.
FaultyMinimum(tested, field, msgs) ==
    LET v == Visited(msgs)
        min[n \in 0..Len(v)] ==
            IF n = 0 THEN 0
            ELSE IF v[n][tested] < min[n - 1] THEN v[n][field] ELSE min[n - 1]
    IN  min[Len(v)]

\* A field of the message whose tested field was last found to be smaller.
Minimum(tested, field, msgs) ==
    LET v == Visited(msgs)
        min[n \in 0..Len(v)] ==
            IF n = 0 THEN W64 - 1
            ELSE IF v[n][tested] < min[n - 1] THEN v[n][field] ELSE min[n - 1]
    IN  min[Len(v)]

Lowest(field, msgs) == Minimum(field, field, msgs)

\* durationStats.min: the payload size decides whether the duration replaces it.
DurationMin(msgs) == Minimum("payloadSize", "duration", msgs)

Average(field, msgs) ==
    IF msgs = <<>> THEN 0 ELSE Total(field, msgs) \div Len(msgs)

-----------------------------------------------------------------------------
(* Properties.                                                             *)

\* A number below 2^31 survives a field of 32 bits.
Fits(v) == 2 * v < W32

Meant(m, request) ==
    /\ \A v \in request.device : m.sender = v
    /\ \A v \in request.subSpecification : m.subSpecification = v
    /\ Within(m.startTime, request.StartTimeRange)
    /\ Within(m.creationTimer, request.CreationTimeRange)

\* A request that does not filter by payload parts finds the messages it means,
\* the newest ones when it has a count, all of them when that is 0, as they were
\* sent, if their numbers fit in 31 bits.
SearchIsExact ==
    (\A i \in DOMAIN stored :
        /\ Fits(stored[i].subSpecification)
        /\ Fits(stored[i].startTime)
        /\ Fits(stored[i].duration)
        /\ Fits(stored[i].payloadSize))
    => \A request \in Requests : request.payloadParts = {} =>
        LET meant == {i \in DOMAIN stored : Meant(stored[i], request)}
            found == Search(Documents, request)
        IN  /\ {doc.oid : doc \in found} =
                {i \in meant : \A n \in request.count :
                    n = 0 \/ Cardinality({j \in meant : j > i}) < n}
            /\ \A doc \in found : FromDocument(doc) = stored[doc.oid]

\* The histogram accounts for every message found, once: its buckets have
\* ascending times and sum up to the totals.
HistogramAddsUp ==
    \A request \in Requests :
        LET msgs == Found(request)
            data == Histogram(msgs)
        IN  /\ \A i, j \in DOMAIN data : i < j => data[i][1] < data[j][1]
            /\ Sum(2, data) = Len(msgs)
            /\ Total(3, data) = Total("payloadSize", msgs)

\* The extremes that are reported are values of messages found: smallest and
\* largest payload enclose all others, and their average unless the sum
\* overflows; the smallest duration, for which no durations are compared, is
\* the duration of some message, if no payload has the largest size there is.
ExtremesAreFound ==
    \A request \in Requests :
        LET msgs == Found(request)
            sizes == {msgs[i].payloadSize : i \in DOMAIN msgs}
            durations == {msgs[i].duration : i \in DOMAIN msgs}
            low == Lowest("payloadSize", msgs)
            high == Highest("payloadSize", msgs)
            average == Average("payloadSize", msgs)
        IN  msgs # <<>> =>
                /\ {low, high} \subseteq sizes
                /\ \A n \in sizes : low <= n /\ n <= high
                /\ Len(msgs) * high < W64 => low <= average /\ average <= high
                /\ high < W64 - 1 => DurationMin(msgs) \in durations

=============================================================================
