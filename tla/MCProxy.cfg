\* One run with two devices; stop, registration, exit and crash race.
SPECIFICATION ProxySpec
CONSTANTS
    s1 = s1
    s2 = s2
    r1 = r1
    d = d
    Run = {r1}
    Name = {d}
    Socket = {s1, s2}
    StopRequest = {q1}
    RunOf <- OneRun
    NameOf <- SameName
    IoThreads = 2
    AcceptMayFail = FALSE
    MaxData = 0
    InboxBound = 1
    OutboxBound = 1
    MaxFailures = 0
    MaxRunFailures = 1
    MaxCrashes = 1
INVARIANTS
    ListedHasProcess
PROPERTIES
    ImplementsRunManager
CHECK_DEADLOCK FALSE
