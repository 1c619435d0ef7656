CONSTANTS
    Hooks = {h1}
    Pending = 1
    FileRecords = 1
    KeepFiles = 1
    MaxWriters = 2
    MaxPackets = 2
    MaxErrors = 1
SPECIFICATION CaptureSpec
PROPERTIES ShutdownEnds
CHECK_DEADLOCK FALSE
