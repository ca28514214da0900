CONSTANTS
  Clients = {alice, bob}
  MaxQueries = 3
  Slots = 3
  PrivateClients = 1
  MaxClients = 2
SPECIFICATION QuerySpec
INVARIANT AnswersRight
PROPERTY GetInfoAnswered
