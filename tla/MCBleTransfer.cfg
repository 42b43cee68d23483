CONSTANTS
    Byte <- MCByte
    CrcVal <- MCCrcVal
    Crc <- MCCrc
    ValidPlain <- MCValidPlain
    MaxContentBytes = 5
    MaxImageBytes = 5
    MaxWidth = 1
    MaxHeight = 1
    DefaultAckEvery = 2
    AckMax = 3
    Packets <- MCPackets
    PumpMax = 2
    MaxErrors = 2
    InitText <- MCInitText
    NfcTexts <- MCPackets
    Payload <- MCPayload
    AckWindow = 2
    Big = 2
    Small = 1
    NotifyOk = {TRUE, FALSE}
    Mtu = {"fits", "throws", "drops"}
    MaxLoss = 2
    MaxCut = 1
    MaxEarly = 2
SPECIFICATION FairTSpec
INVARIANTS
    TransferTypeOK
    ReceivedIsPrefix
    CommitIsComplete
    BackPressure
PROPERTIES
    UpdateSpec
    Terminates
    Delivers
