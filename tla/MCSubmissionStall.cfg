\* Two submissions to the handler of one server process.
SPECIFICATION Spec
CONSTANTS
    Submissions = {s1, s2}
    Pupils = {"ali", "bea"}
    Exercises = {"quiz", "essay", "cards"}
    Owner <- MCOwner
    Kind <- MCKind
    Requests <- ApiRequests
    MaxAttempts = 3
    BasePoints = 5
    FirstTryBonus = 2
    ConfirmedFrom = 6
    ExpertFrom = 12
PROPERTIES
    EverySessionCloses
\* Every submission runs once: the system stops when all have ended.
CHECK_DEADLOCK FALSE
