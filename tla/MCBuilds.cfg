\* Two HTTP threads and a pool of two clients, two runs, one failure, one
\* restart, under fairness.
SPECIFICATION FairSpec
CONSTANTS
    f1 = f1
    f2 = f2
    f3 = f3
    n1 = n1
    n2 = n2
    main = main
    h1 = h1
    h2 = h2
    File = {f1, f2, f3}
    Name = {n1, n2}
    NameIn <- Names
    Thread = {main, h1, h2}
    Main = main
    BuildId = {0, 1}
    PoolSize = 2
    MaxRuns = 2
    MaxFailures = 1
    MaxCrashes = 1
INVARIANTS
    NamedOnce
    LossIsReported
PROPERTIES
    ListingIsAllOrNothing
    DetectionEnds
    RequestsEnd
CHECK_DEADLOCK FALSE
