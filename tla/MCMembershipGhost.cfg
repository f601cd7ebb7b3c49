SPECIFICATION Spec
CONSTANTS
  s1 = s1
  s2 = s2
  i1 = i1
  i2 = i2
  Sessions = {s1, s2}
  LoginIds = {"first"}
  Accounts = {i1, i2}
  Account <- OwnAccounts
  LobbyCount = 1
  LobbyMax = 2
  RoomMax = 1
  RoomBound = 1
  AskBound = 1
  Patient = {}
INVARIANTS NoGhost
CHECK_DEADLOCK FALSE
