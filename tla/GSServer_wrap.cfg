CONSTANTS
  Wrap = 12
  Interval = 4
  MaxGap = 2
  Clients = {alice}
  MaxQueries = 1
  Slots = 0
  PrivateClients = 0
  MaxClients = 0
SPECIFICATION Spec
PROPERTY NotBeforeTime
