\* flush() with the sequence wrapping inside the window.
CONSTANTS
    Window = 3
    SeqMod = 8
    Payloads = {p}
    NoPayload = none
    ZeroFill = TRUE
    Timeouts = {1}
    MaxTimeout = 1

SPECIFICATION Spec
INVARIANTS
    FlushInOrder

CHECK_DEADLOCK FALSE
