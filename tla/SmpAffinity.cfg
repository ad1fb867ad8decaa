SPECIFICATION Spec
CONSTANTS
    \* t2 is bound to CPU 0, t1 is the task whose mask changes
    t1 = t1
    t2 = t2
    t3 = t3
    Task = {t1, t2}
    CPU = {0, 1}
    Worker = {t2}
    Masks <- OneCpuMasks
    LLC <- OwnCache
    TTWU_QUEUE = {TRUE, FALSE}
    IrqCPU = {0}
    BALANCE = TRUE
    PREEMPT = {FALSE}
    IDLE = IDLE
    STOP = STOP
    NONE = NONE
INVARIANTS
    QueueExact
    NoDeadlock
    IdleIsTold
    AffinityEnforced
PROPERTIES
    BlockedStays
