SPECIFICATION Spec
CONSTANTS
    t1 = t1
    t2 = t2
    t3 = t3
    Task = {t1, t2, t3}
    CPU = {0, 1}
    Pluggable = {1}
    Caller = {0}
    MAX_RT_PRIO = 2
    Masks <- FreeOrPlugged
    PREEMPT = {TRUE, FALSE}
    RT_MAX_TRIES = 2
    IDLE = IDLE
    NONE = NONE
SYMMETRY Symmetry
INVARIANTS
    BooksExact
    Allowed
    BestRun
