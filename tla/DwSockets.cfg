CONSTANTS
  Handles <- MCHandles
  Servers = {auth, lsg}
  Hosts = {host}
  AddressOf <- MCAddressOf
  NoServer = none
  MaxConns = 3
  MaxPackets = 2
SPECIFICATION Spec
INVARIANTS TypeOK CapturedByLast OneLine ReplyNoticed
PROPERTY AnsweredWhileMapped
