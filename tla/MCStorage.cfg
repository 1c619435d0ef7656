\* Three keys for two contexts; fragments may disagree about their number and about the tail.
CONSTANTS
    k1 = k1
    Keys = {k1, k2, k3}
    NoKey = NoKey
    MaxContexts = 2
    MaxTotal = 3
    MaxBytes = 5
    DefaultSize = 3
    Totals = {0, 2, 3, 4}
    BodySizes = {0, 2}
    TailSizes = {0, 2}
    TailBytes = {0, 2}
    Timeouts = {1, 2}
    MaxTimeout = 2
    PoolSize = 3
    Allocators = {a}
    Freers = {f, g}
    MaxHeap = 1
    Width = 5
    RawCapacity = 3
    MaxBlocks = 3
    Observers = {o1, o2}
    Bounds <- MCBounds
    Delays <- MCDelays
    Permilles <- MCPermilles
    MaxObserved = 2
    Hooks = {h1}
    Pending = 1
    FileRecords = 1
    KeepFiles = 1
    MaxWriters = 2
    MaxPackets = 2
    MaxErrors = 1
    Numbers = 8
    FirstNumber = 6
    Steps = {1, 2}
    Stamps = {0, 1}
    MaxRecords = 3
    ArgLists <- MCArgLists
    MaxPasses = 2
    MaxUnsent = 1
    RingSize = 9
    ShmHeader = 2
    Sizes = {0, 1, 3}
    MaxFrames = 6

SPECIFICATION StorageSpec
INVARIANTS
    ContextsAccounted
    FramesSound
    FreezeSound
    ListExact
    NoBufferTwice
    TakenOnce
    
    QuantilesOrdered
    CaptureContiguous
    NoFileLost
    GapsExact
    ToolsAgree
    ShmParses

\* Nothing is called after flush_all(), a process writing the ring may crash, and bounds end the other parts.
CHECK_DEADLOCK FALSE
