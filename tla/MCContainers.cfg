CONSTANTS
    QCells = {q1, q2}
    SCells = {s1, s2}
    Data = {d1, d2}
    NULL = NULL
    NoArg = NoArg
    MallocFails = TRUE
SPECIFICATION Spec
INVARIANTS ListWellFormed StackWellFormed
PROPERTIES FifoRefinement LifoRefinement
CHECK_DEADLOCK FALSE
