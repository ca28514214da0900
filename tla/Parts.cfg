CONSTANTS
  Threads = {t1, t2}
  none = none
  Players = {p1, p2}
  Guest = p3
  Dumps = {d1, d2, d3}
  Pool <- MCPool
  MaxUnique = 3
  MaxStreams = 12
  Keys <- MCKeys
  DvarNames <- MCDvars
  Commands <- MCCommands
  Small = 15
  ShownRows = 1
  MaxRows = 2
  MaxInput = 2
  MaxDown = 2
  Tables <- MCTables
  Sockets <- MCSockets
  MaxHookCalls = 3
  Sizes = {1, 2, 4}
  MaxTexts = 6
  KeyWords = 3
  MaxKeys = 3
  MaxSent = 2
  LineParts = 2
  Wrap = 8
  MaxPrints = 3
  ClientPlaces = 2
  MaxKicks = 2
  Drives <- MCDrives
  Capacity = 3
  SessionSize = 2
  NameSize = 2
  MaxLogins = 2
  Registers = {0, 1}
  MaxBreakpoints = 3
  LobbyKeys = {"connect", "lobbyid", "currentGame"}
  MaxSets = 2
  MaxPackets = 3
  DigestBlock = 4
  DigestLength = 2
  DigestWord = 64
  ChunkSizes = {0, 1, 2, 3, 5, 9}
  MaxGiven = 36
  Octets = {0, 1, 77, 127, 128, 255}
  MaxData = 4
  InfoKeys <- MCInfoKeys
  InfoValues <- MCInfoValues
  TextSize <- MCTextSize
  LowerCase <- MCLowerCase
  Blacklisted = {"bad;"}
  MaxInfo = 17
  MaxInfoSets = 4
SYMMETRY DumpsAlike
SPECIFICATION MCSpec
INVARIANTS SharedKept HooksStay RightOneServed HeldOnlyEnter
  CodesAgree InfoReadsBack LatchedShown
  MessagesReadBack UtilitiesAgree MenusReadBack
PROPERTIES TabCompletes AloneOverwritesNothing
CHECK_DEADLOCK FALSE
