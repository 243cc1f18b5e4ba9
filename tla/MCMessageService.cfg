\* Up to three of sixteen messages, 74 requests.
SPECIFICATION Spec
CONSTANTS
    W32 = 8
    W64 = 64
    d = d
    e = e
    Messages <- SomeMessages
    Requests <- SomeRequests
    MaxStored = 3
INVARIANTS
    SearchIsExact
    HistogramAddsUp
    ExtremesAreFound
CHECK_DEADLOCK FALSE
