\* Two threads, CPIs of three fragments with a heartbeat after each; nothing is dropped.
CONSTANTS
    HeaderSize = 2
    SourceOffset = 1
    TypeOffset = 1
    MaxPayload = 9
    HeartbeatSize = 2
    LocalId = 1
    ExpectedSource = 17
    Senders = {1, 2}
    cpi_frags = 3
    reorder_depth = 0
    drop = FALSE
    Body = 1
    SpecificSize = 1
    SnapshotSize = 1
    CrcSize = 1
    LenSpan = 16
    EmuSpan = 32
    MaxBatches = 2
    MaxBeats = 2
    MaxSendErrors = 0
SPECIFICATION EmuSpec
INVARIANTS LossIsHeartbeats
CHECK_DEADLOCK FALSE
