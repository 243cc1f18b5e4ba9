\* One accept fails; are the other connections accepted?
SPECIFICATION FairSpec
CONSTANTS
    s1 = s1
    s2 = s2
    r1 = r1
    d = d
    e = e
    Run = {r1}
    Name = {d}
    Socket = {s1, s2}
    RunOf <- SameRun
    NameOf <- SameName
    IoThreads = 2
    AcceptMayFail = TRUE
    MaxData = 0
    InboxBound = 1
    OutboxBound = 1
    MaxFailures = 0
PROPERTIES
    AcceptGoesOn
