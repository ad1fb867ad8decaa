SPECIFICATION FairSpec
CONSTANTS
    t1 = t1
    t2 = t2
    t3 = t3
    Task = {t1}
    CPU = {0, 1}
    Worker = {}
    Masks <- NoMask
    LLC <- OwnCache
    TTWU_QUEUE = {TRUE}
    IrqCPU = {0, 1}
    BALANCE = FALSE
    PREEMPT = {FALSE}
    IDLE = IDLE
    STOP = STOP
    NONE = NONE
PROPERTIES
    WakeupDelivered
