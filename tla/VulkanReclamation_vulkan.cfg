\* One thread that encodes, with two buffers that may share a pool or not.
SPECIFICATION FairSpec
CONSTANTS
    Threads = {raster}
    Encoders = {e1, e2}
    Pools = {p1, p2}
    Objects = {o1, o2}
    None = None
\* A destroyed context is at rest.
CHECK_DEADLOCK FALSE
INVARIANTS
    TypeOK
    PendingKeepsPool
    PoolInOnePlace
    CalledOnce
    NoSelfJoin
    NothingLeft
PROPERTIES
    FenceServed
    PoolComesBack
    ContextEnds
