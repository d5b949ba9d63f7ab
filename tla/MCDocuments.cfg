\* Two uploads, a generation and a question, of two pupils on two subjects.
SPECIFICATION Spec
SYMMETRY Interchangeable
CONSTANTS
    Uploads = {u1, u2}
    Generations = {g1}
    Questions = {q1}
    Pupils = {"ali", "bea"}
    Subjects = {"maths", "francais"}
    TopK = 1
    None = None
INVARIANTS
    TypeOK
    RowsKeepTheirPromise
    FailedUploadHasNoRow
    ExercisesMatchTheirDocument
    CitationsStayAtHome
PROPERTIES
    StoredIsFound
\* Every operation runs once: the system stops when all have ended.
CHECK_DEADLOCK FALSE
