\* Two devices of one run, selected by name, that send data; one thread.
SPECIFICATION Spec
CONSTANTS
    s1 = s1
    s2 = s2
    r1 = r1
    d = d
    e = e
    Run = {r1}
    Name = {d, e}
    Socket = {s1, s2}
    RunOf <- SameRun
    NameOf <- TwoNames
    IoThreads = 1
    AcceptMayFail = FALSE
    MaxData = 2
    InboxBound = 2
    OutboxBound = 1
    MaxFailures = 1
INVARIANTS
    SelectionAgreement
    StoredInOrder
    NothingLost
PROPERTIES
    ImplementsList
