CONSTANTS
    Bytes <- MCBytes
    Junk = Junk
    MaxPayload = 4
    Sizes <- MCSizes
    MaxPackets = 3
SPECIFICATION Spec
INVARIANTS
    TypeOK
    FramesCarryPayload
CHECK_DEADLOCK FALSE
