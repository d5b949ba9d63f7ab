\* One copy and one review, in one server process.
SPECIFICATION Spec
CONSTANTS
    Copies = {c1}
    Reviews = {r1}
    Callers = {"admin", "linked parent", "eleve"}
    Deployments = {"one process"}
    None = None
INVARIANTS
    LegibleScoreIsFound
\* Every operation runs once: the system stops when all have ended.
CHECK_DEADLOCK FALSE
