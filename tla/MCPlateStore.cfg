CONSTANTS
    Nothing = Nothing
    demoText = demoText
    plain = plain
    semicolon = semicolon
    split = split
    demoUrl = demoUrl
    link = link
    icon = icon
    badge = badge
    screen = screen
    Text <- MCText
    Url <- MCUrl
    Image <- MCImage
    Demo <- MCDemo
    Size <- MCSize
    Reparse <- MCReparse
    FitsTag <- MCFitsTag
    BleTexts <- MCBleTexts
    NfcMsgs <- MCNfcMsgs
    MaxFail = 1
    MaxCrash = 2
SPECIFICATION Spec
INVARIANTS
    TypeOK
    StoreAgrees
    PanelShows
    HeapIsFree
PROPERTY
    CrashRestoresOldOrNew
