\* One copy, three reviews of it, in one server process or in several.
SPECIFICATION Spec
SYMMETRY Interchangeable
CONSTANTS
    Copies = {c1}
    Reviews = {r1, r2, r3}
    Callers = {"admin", "linked parent", "eleve"}
    Deployments = {"one process", "several processes"}
    None = None
INVARIANTS
    TypeOK
    ScoredHasScore
    ImageBehindRow
    ReportedFailureLeavesNothing
    NoticesMatchRows
PROPERTIES
    ScoreNeverErased
    ScoredIsFinal
\* Every operation runs once: the system stops when all have ended.
CHECK_DEADLOCK FALSE
