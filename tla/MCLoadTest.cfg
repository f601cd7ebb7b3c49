SPECIFICATION FairSpec
CONSTANTS
    Sessions = {s1}
    LobbyChatCount = 1
    RoomChatCount = 1
    MaxRetries = 1
    Loads <- MCLoads
INVARIANTS Consistent PingsConserved OwnEcho RetriesBounded
PROPERTIES PhaseEnds
CHECK_DEADLOCK FALSE
