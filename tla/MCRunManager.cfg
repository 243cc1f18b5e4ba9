\* Two runs, two stop requests for either of them, one failure, one crash,
\* under fairness.
SPECIFICATION FairSpec
CONSTANTS
    Run = {r1, r2}
    StopRequest = {q1, q2}
    MaxFailures = 1
    MaxCrashes = 1
INVARIANTS
    TypeOK
    ProcessesAreTracked
    MutexIsHeldByStop
    StatusIsExplained
    StartingIsAccounted
    ExitHandlerIsAlone
PROPERTIES
    TerminalIsLeftByRegistration
    ExitIsRecorded
    RequestsAreAnswered
CHECK_DEADLOCK FALSE
