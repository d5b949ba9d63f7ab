\* One stream of one process: "No persistence on this branch".
SPECIFICATION Spec
CONSTANTS
    Streams = {s1}
    Threads = {"ali maths"}
    MaxChunks = 2
    Deployments = {"one process"}
    Earlier = earlier
    None = None
INVARIANTS
    RefusedIsNotStored
\* Every stream runs once: the system stops when all have ended.
CHECK_DEADLOCK FALSE
