SPECIFICATION Spec
CONSTANTS
    CPU = {0, 1}
    Pluggable = {1}
    PERIOD = 3
    RUNTIME = 2
    Limits = {1, 31}
    Deltas = {3}
    MAX_TIME = 3
    MAX_TASKS = 1
    MAX_OVERRUN = 1
    MAX_WRITES = 2
    MOD = 32
    TIMER = TIMER
    NONE = NONE
INVARIANTS
    TypeOK
    RuntimeConserved
    NotLeftWanting
    ThrottleEffective
    ThrottledIsServed
PROPERTIES
    BudgetKept
