CONSTANTS
    Elements <- MCElements
    Trees <- MCTrees
    MaxRejected = 2
SPECIFICATION Spec
CHECK_DEADLOCK FALSE
INVARIANTS
    TypeOK
    ReportsAll
    PathsLead
    FailFastAgrees
    FailFastReportsOne
