CONSTANTS
    Byte <- MCByte
    CrcVal <- MCCrcVal
    Crc <- MCCrc
    ValidPlain <- MCValidPlain
    MaxContentBytes = 2
    MaxImageBytes = 2
    MaxWidth = 9
    MaxHeight = 1
    DefaultAckEvery = 2
    AckMax = 3
    Packets <- MCPackets
    PumpMax = 2
    MaxErrors = 2
    InitText <- MCInitText
    NfcTexts <- MCNfcTexts
SPECIFICATION Spec
INVARIANTS
    TypeOK
    ParkedIsVerified
    WindowBounds
    SilenceMeansTold
PROPERTIES
    ApplyAfterStatus
    OnlyCentralEndsTransfer
