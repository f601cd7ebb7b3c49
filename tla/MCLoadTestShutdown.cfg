SPECIFICATION Spec
CONSTANTS
    Sessions = {s1}
    LobbyChatCount = 1
    RoomChatCount = 1
    MaxRetries = 1
    Loads <- MCLoads
INVARIANTS FinalReportComplete
CHECK_DEADLOCK FALSE
