CONSTANTS
  Requests = {"CreateLobby", "JoinLobby", "RequestEncryptedAppTicket"}
  Listened = {"LobbyCreated", "LobbyEnter"}
  MaxCalls = 4
SPECIFICATION Spec
INVARIANTS ResultsInOrder
PROPERTIES LostByMoveOnly CallsEnd
CHECK_DEADLOCK FALSE
