\* Three submissions: from any client in different processes, or three handlers
\* of one process.  The third finds its exercise closed.
SPECIFICATION Spec
CONSTRAINT Deployed
CONSTANTS
    Submissions = {s1, s2, s3}
    Pupils = {"ali", "bea"}
    Exercises = {"quiz", "essay", "cards"}
    Owner <- MCOwner
    Kind <- MCKind
    Requests <- MCRequests
    MaxAttempts = 2
    BasePoints = 5
    FirstTryBonus = 2
    ConfirmedFrom = 6
    ExpertFrom = 12
INVARIANTS
    TypeOK
    NumbersWithoutGaps
    TotalMatchesLedger
    LedgerMatchesAttempts
    LevelNeverLost
PROPERTIES
    EverySubmissionEnds
    ImplementsPolicy
\* Every submission runs once: the system stops when all have ended.
CHECK_DEADLOCK FALSE
