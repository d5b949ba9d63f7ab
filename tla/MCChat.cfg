\* Two streams on two threads, in one process or several.
SPECIFICATION Spec
CONSTANTS
    Streams = {s1, s2}
    Threads = {"ali maths", "ali francais"}
    MaxChunks = 2
    Deployments = {"one process", "several processes"}
    Earlier = earlier
    None = None
INVARIANTS
    TypeOK
    ConversationsMatchMessages
    CountIsExact
    StoredIsStreamed
    AnswersAreKept
PROPERTIES
    EveryStreamEnds
\* Every stream runs once: the system stops when all have ended.
CHECK_DEADLOCK FALSE
