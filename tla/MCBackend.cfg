\* A window of 4 over 10 sequence numbers: both wrap, in every alignment.
CONSTANTS
    Window = 4
    SeqMod = 10
    Payloads = {p, q}
    OnePayload = {p}
    NoPayload = none
    ZeroFill = TRUE
    Timeouts = {1, 2}
    MaxTimeout = 2
    Keys = {k1, k2}
    NoKey = NoKey
    Seqs = {0, 1, 2}
    Confidences = {1, 2}
    FrameTracks = 3
    max_tracks = 2
    Sessions = {p1}
    timeout_ns = 2
    Span = 6
    LastTime = 5
    N = 3
    NumFaces = 2
    MaxEvents = 2
    Interval = 2
    BackoffCap = 9

SPECIFICATION BackendSpec
INVARIANTS
    RingAligned
    PayloadDecodes
    AliveIsFresh
    FlushOrder
    ThreadsJoined
PROPERTIES
    ImplementsStream
    WideBufferedIsOutput
    ContextCloses
    RunsComplete
    
    PeerFound

\* Nothing is called after flush(), the process ends, and bounds end the other parts.
CHECK_DEADLOCK FALSE
