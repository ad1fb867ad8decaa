SPECIFICATION TickSpec
CONSTANTS
    t1 = t1
    t2 = t2
    t3 = t3
    Task = {t1, t2, t3}
    InitTask = t1
    IDLE = IDLE
    NULL = NULL
    MAX_RT_PRIO = 2
    NICE_WIDTH = 2
    RR_TIMESLICE = 1
    WAKEUP_PREEMPTION = TRUE
    CHILD_RUNS_FIRST = FALSE
    Worker = {}
    Attr <- NoAttr
    Nice = {}
    Holder = {}
    Boost = {}
PROPERTIES
    TickDrivesPreemption
