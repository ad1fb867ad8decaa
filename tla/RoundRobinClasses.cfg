SPECIFICATION Spec
CONSTANTS
    t1 = t1
    t2 = t2
    t3 = t3
    Task = {t1, t2, t3}
    InitTask = t1
    IDLE = IDLE
    NULL = NULL
    MAX_RT_PRIO = 4
    NICE_WIDTH = 2
    RR_TIMESLICE = 1
    WAKEUP_PREEMPTION = TRUE
    CHILD_RUNS_FIRST = TRUE
    Worker = {t2, t3}
    Attr <- ClassAttr
    Nice <- BetterNice
    Holder = {t1}
    Boost = {1, 6}
SYMMETRY Symmetry
INVARIANTS
    NoListFault
    RingExact
    RtQueuesExact
    RunnableIsQueued
    ReschedPending
    ClassFollowsPrio
    NoInversion
PROPERTIES
    OldestFirst
