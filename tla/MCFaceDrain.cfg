\* A batch of 2 with 2 pooled buffers and 1 from the heap: the pool runs out.
CONSTANTS
    HeaderSize = 2
    SourceOffset = 1
    TypeOffset = 1
    MaxPayload = 2
    HeartbeatSize = 2
    LocalId = 1
    ExpectedSource = 17
    Datagrams <- MCDatagrams
    SourceFilter = TRUE
    Batch = 2
    DrainRounds = 1
    PoolBuffers = 2
    HeapBuffers = 1
    RingSlots = 3
    SeqSpan = 8
    StartSeq = 6
    MaxArrivals = 3

SPECIFICATION FaceSpec
INVARIANTS DrainReadsLiveBuffers
