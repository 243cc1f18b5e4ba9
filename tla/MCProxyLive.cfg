\* One thread, fairness, and accept may fail; no refused writes, crashes or
\* selections.
SPECIFICATION QuietFairSpec
CONSTANTS
    s1 = s1
    s2 = s2
    r1 = r1
    d = d
    Run = {r1}
    Name = {d}
    Socket = {s1, s2}
    StopRequest = {q1}
    RunOf <- OneRun
    NameOf <- SameName
    IoThreads = 1
    AcceptMayFail = TRUE
    MaxData = 0
    InboxBound = 1
    OutboxBound = 1
    MaxFailures = 0
    MaxRunFailures = 0
    MaxCrashes = 0
PROPERTIES
    StopEndsRun
    GoneIsUnlisted
    RegistrationEnds
CHECK_DEADLOCK FALSE
