SPECIFICATION Spec
CONSTANTS
    CPU = {0, 1, 2}
    NULL = NULL
    Topologies <- TwoTopologies
    Partitions <- TwoPartitions
    Builds = {0, 1}
    Unplugged = {2}
    Reader = {r}
    Watched = {1}
    WRITER = WRITER
    Samples <- FourNodes
INVARIANTS
    NothingDangles
    NoUseAfterFree
    NoLeak
    RootDomainsExact
    DomainsWellFormed
    PartitionInForce
