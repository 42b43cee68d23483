CONSTANTS
    None = None
    Piece <- MCPiece
    Width <- MCWidth
    Demo <- MCDemo
    PlainTexts <- MCPlainTexts
    NfcMsgs <- MCNfcMsgs
    BleImages <- MCBleImages
SPECIFICATION Spec
INVARIANT
    ServedIsReadable
PROPERTIES
    BootKeepsFields
    EchoKeepsFields
