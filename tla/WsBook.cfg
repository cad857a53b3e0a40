SPECIFICATION Spec
CONSTANTS
    Viewer = {1, 2}
    Data <- MCData
    Target = 2
    Focus = 2
    PayloadLen <- MCPayloadLen
    SendRoom = 4
    MaxLines = 2
CHECK_DEADLOCK FALSE
INVARIANTS
    ViewerSeesReplay
    UpgradeFirst
    OthersUnharmed
PROPERTIES
    Served
