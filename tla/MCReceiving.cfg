\* Two threads, two devices of a run, headers of two cells, under fairness.
SPECIFICATION FairSpec
CONSTANTS
    s1 = s1
    s2 = s2
    on = on
    silent = silent
    data = data
    off = off
    Socket = {s1, s2}
    Message = {on, silent, data, off}
    Worker = {w1, w2}
    Size <- Sizes
    Script <- Scripts
    Type <- Types
    Payload <- Payloads
    HeaderSize = 2
INVARIANTS
    NoLostWakeup
    ListingShowsRegistration
PROPERTIES
    ImplementsChannel
    ArrivedIsDelivered
