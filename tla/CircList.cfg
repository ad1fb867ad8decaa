SPECIFICATION FairSpecH
CONSTANTS
    Node = {n1, n2, n3, n4}
    NULL = NULL
    Garbage = {n1, NULL}
INVARIANTS
    RingIsQueue
PROPERTIES
    LoopsEnd
    ImplementsFifo
