SPECIFICATION Spec
CONSTANTS
    t1 = t1
    t2 = t2
    t3 = t3
    Task = {t1, t2, t3}
    CPU = {0, 1}
    Worker = {t1, t2}
    Masks <- NoMask
    LLC <- OwnCache
    TTWU_QUEUE = {TRUE}
    IrqCPU = {0, 1}
    BALANCE = FALSE
    PREEMPT = {FALSE}
    IDLE = IDLE
    STOP = STOP
    NONE = NONE
SYMMETRY WorkerSymmetry
INVARIANTS
    OneStack
    WakingExact
    WakeListServed
    NoLostWakeup
    NoDeadlock
