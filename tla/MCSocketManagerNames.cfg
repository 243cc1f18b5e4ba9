\* Two devices of one run under one name; requests race registrations.
SPECIFICATION Spec
CONSTANTS
    s1 = s1
    s2 = s2
    r1 = r1
    d = d
    e = e
    Run = {r1}
    Name = {d}
    Socket = {s1, s2}
    RunOf <- SameRun
    NameOf <- SameName
    IoThreads = 2
    AcceptMayFail = TRUE
    MaxData = 1
    InboxBound = 2
    OutboxBound = 2
    MaxFailures = 1
INVARIANTS
    TypeOK
    ListedIsServed
    ServedIsListed
    ListedRunHasStarted
PROPERTIES
    HistoryReturns
