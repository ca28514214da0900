------------------------------- MODULE Parts -------------------------------
(***************************************************************************)
(* The smaller parts that have a state, each run alone: a behaviour is one *)
(* of the part chosen at its start, and the variables of the others are 0. *)
(* The last four are pure functions, given all there is to be given.       *)
(***************************************************************************)
EXTENDS Integers, Sequences, FiniteSets

CONSTANTS
  Threads, none,
  Players, Guest,                               (* Guest only joins servers *)
  Dumps, Pool, MaxUnique, MaxStreams,                           (* MenuDump *)
  Keys, DvarNames, Commands, Small,                        (* InGameConsole *)
  ShownRows, MaxRows, MaxInput, MaxDown,
  Tables, Sockets,                                           (* ImportHooks *)
  MaxHookCalls,                                               (* FilterHook *)
  Sizes, MaxTexts,                                           (* SharedTexts *)
  KeyWords, MaxKeys, MaxSent,                                 (* SessionKey *)
  LineParts, Wrap, MaxPrints,                                        (* Log *)
  ClientPlaces, MaxKicks,                                         (* KickClient *)
  Drives, Capacity, SessionSize, NameSize, MaxLogins,       (* Authenticate *)
  Registers, MaxBreakpoints,                         (* HardwareBreakpoints *)
  LobbyKeys, MaxSets,                                            (* Lobbies *)
  MaxPackets,                                                    (* Startup *)
  DigestBlock, DigestLength, DigestWord, ChunkSizes, MaxGiven,       (* MD5 *)
  Octets, MaxData,                                                (* Base64 *)
  InfoKeys, InfoValues, TextSize, LowerCase, Blacklisted,     (* InfoString *)
  MaxInfo, MaxInfoSets

VARIABLES
  part,
  files, streams, dumps,
  type, pressed, keysHeld, box, log, catching, input, names, loaded, dvars, listed, suggested, typed,
  where, rows, filled,
  table, slots, step,
  code, page, filter, hookAt, nested, saved, alive, hookCalls, hookMet,
  size, next, buffers, calls,
  globalKey, logins, copied, drafts, sent,
  queue, printing, file, prints, together,
  clients, commands, dropped, kicks,
  at, n, held, drives, serial, launcher, coming, buf, identity, asked,
  dr, helpers, handles, breakpoints, met,
  joinedLobby, didRichPresence, presence, known, sets, info, answer,
  place, session, onKick, socket, polling, packets,
  given, context,
  data,
  entries, store, settings,
  dvar

menuVars == <<files, streams, dumps>>
consoleVars ==
  <<type, pressed, keysHeld, box, log, catching, input, names, loaded,
    dvars, listed, suggested, typed, where, rows, filled>>
importVars == <<table, slots, step>>
filterVars == <<code, page, filter, hookAt, nested, saved, alive, hookCalls, hookMet>>
textVars == <<size, next, buffers, calls>>
keyVars == <<globalKey, logins, copied, drafts, sent>>
logVars == <<queue, printing, file, prints, together>>
kickVars == <<clients, commands, dropped, kicks>>
loginVars == <<at, n, held, drives, serial, launcher, coming, buf, identity, asked>>
breakpointVars == <<dr, helpers, handles, breakpoints, met>>
lobbyVars == <<joinedLobby, didRichPresence, presence, known, sets, info, answer>>
startupVars == <<place, session, onKick, socket, polling, packets>>
digestVars == <<given, context>>
infoVars == <<entries, store, settings>>
pureVars == <<digestVars, data, infoVars, dvar>>
vars == <<part, menuVars, consoleVars, importVars, filterVars, textVars, keyVars, logVars,
          kickVars, loginVars, breakpointVars, lobbyVars, startupVars, pureVars>>

Everyone == Players \union {Guest}

PartNames == {"menus", "console", "imports", "filter", "texts", "key", "log", "kick",
              "login", "breakpoints", "lobbies", "startup", "digest", "base64", "infos", "dvars"}
Menu == INSTANCE MenuDump WITH Unused <- none
Console == INSTANCE InGameConsole WITH Dvars <- DvarNames, held <- keysHeld, commands <- listed
Import == INSTANCE ImportHooks
Filter == INSTANCE FilterHook WITH MaxCalls <- MaxHookCalls, at <- hookAt, calls <- hookCalls, met <- hookMet
Texts == INSTANCE SharedTexts WITH MaxCalls <- MaxTexts
SKey == INSTANCE SessionKey WITH Words <- KeyWords, MaxLogins <- MaxKeys
Printed == INSTANCE Log WITH Parts <- LineParts
Kick == INSTANCE KickClient WITH Places <- ClientPlaces, Players <- Everyone, Nobody <- none
Auth == INSTANCE Authenticate
Breakpoints == INSTANCE HardwareBreakpoints WITH None <- none, MaxSets <- MaxBreakpoints, sets <- breakpoints
Lobby == INSTANCE Lobbies WITH Keys <- LobbyKeys, Nobody <- none
Start == INSTANCE Startup WITH at <- place
Digest == INSTANCE MD5 WITH BlockSize <- DigestBlock, LengthSize <- DigestLength, WordSize <- DigestWord
Base == INSTANCE Base64
Info == INSTANCE InfoString WITH Values <- InfoValues, Size <- TextSize, Lower <- LowerCase
Dvar == INSTANCE Dvars

(* A line is begun with one part and goes on with others; the count of the *)
(* printing threads wraps.                                                 *)
ASSUME LogAssumption == LineParts \in Nat \ {0, 1} /\ Wrap \in Nat \ {0, 1}

(* A function has a buffer at least.                                       *)
ASSUME SizesAssumption == Sizes \subseteq Nat \ {0}

(* A key has so many words.                                                *)
ASSUME WordsAssumption == KeyWords \in Nat

(* The keys the code itself sets.                                          *)
ASSUME NamesAssumption == {"connect", "currentGame"} \subseteq LobbyKeys

(* A letter is a number; a string has room for one in itself.              *)
ASSUME LettersAssumption ==
  /\ Keys \subseteq Nat
  /\ \A name \in DvarNames \union Commands : name \in Seq(Nat)
  /\ Small \in Nat \ {0} /\ ShownRows \in Nat

(* An import table lists libraries, and for each what is imported.         *)
ASSUME TablesAssumption ==
  /\ Tables \subseteq Seq([library : STRING, names : BOOLEAN, imports : Seq([func : STRING, named : BOOLEAN])])
  /\ Sockets \in Seq(STRING)

(* The arrays of the identity have room for a letter and a zero; the       *)
(* bound on logins is a number.                                            *)
ASSUME LoginAssumption ==
  /\ Capacity \in Nat \ {0} /\ MaxLogins \in Nat
  /\ SessionSize \in Nat \ {0, 1} /\ NameSize \in Nat \ {0, 1}

(* The debug registers are numbered.                                       *)
ASSUME RegistersAssumption == Registers \subseteq Nat

(* A block has room for the length, a word for a multiple of a block.      *)
ASSUME DigestAssumption ==
  /\ DigestBlock \in Nat \ {0} /\ DigestLength \in 0..DigestBlock
  /\ DigestWord \in Nat \ {0} /\ DigestWord % (8 * DigestBlock) = 0
  /\ ChunkSizes \subseteq Nat

(* An octet has eight bits.                                                *)
ASSUME OctetsAssumption == \A octet \in Octets : octet \in Nat /\ octet < 256

(* Keys and values have a length; a character is left for the 0 at least.  *)
ASSUME InfoAssumption ==
  /\ InfoKeys \in Seq(STRING) /\ \A i, j \in 1..Len(InfoKeys) : InfoKeys[i] = InfoKeys[j] => i = j
  /\ \A text \in Info!AllKeys \union InfoValues : TextSize[text] \in Nat
  /\ MaxInfo \in Nat \ {0}

(* What none is told from.                                                 *)
ASSUME NoneAssumption ==
  none \notin Everyone \union Nat \union Breakpoints!Contexts \union Breakpoints!Helpers

-----------------------------------------------------------------------------

(* The part that runs has its variables, the others are not there.         *)
Started ==
  /\ IF part = "menus" THEN Menu!Init ELSE files = 0 /\ streams = 0 /\ dumps = 0
  /\ IF part = "console" THEN Console!Init
     ELSE /\ type = 0 /\ pressed = 0 /\ keysHeld = 0 /\ box = 0 /\ log = 0 /\ catching = 0 /\ input = 0
          /\ names = 0 /\ loaded = 0 /\ dvars = 0 /\ listed = 0 /\ suggested = 0 /\ typed = 0
          /\ where = 0 /\ rows = 0 /\ filled = 0
  /\ IF part = "imports" THEN Import!Init ELSE table = 0 /\ slots = 0 /\ step = 0
  /\ IF part = "filter" THEN Filter!Init
     ELSE /\ code = 0 /\ page = 0 /\ filter = 0 /\ hookAt = 0 /\ nested = 0
          /\ saved = 0 /\ alive = 0 /\ hookCalls = 0 /\ hookMet = 0
  /\ IF part = "texts" THEN Texts!Init ELSE size = 0 /\ next = 0 /\ buffers = 0 /\ calls = 0
  /\ IF part = "key" THEN SKey!Init ELSE globalKey = 0 /\ logins = 0 /\ copied = 0 /\ drafts = 0 /\ sent = 0
  /\ IF part = "log" THEN Printed!Init ELSE queue = 0 /\ printing = 0 /\ file = 0 /\ prints = 0 /\ together = 0
  /\ IF part = "kick" THEN Kick!Init ELSE clients = 0 /\ commands = 0 /\ dropped = 0 /\ kicks = 0
  /\ IF part = "login" THEN Auth!Init
     ELSE /\ at = 0 /\ n = 0 /\ held = 0 /\ drives = 0 /\ serial = 0
          /\ launcher = 0 /\ coming = 0 /\ buf = 0 /\ identity = 0 /\ asked = 0
  /\ IF part = "breakpoints" THEN Breakpoints!Init
     ELSE dr = 0 /\ helpers = 0 /\ handles = 0 /\ breakpoints = 0 /\ met = 0
  /\ IF part = "lobbies" THEN Lobby!Init
     ELSE /\ joinedLobby = 0 /\ didRichPresence = 0 /\ presence = 0 /\ known = 0
          /\ sets = 0 /\ info = 0 /\ answer = 0
  /\ IF part = "startup" THEN Start!Init
     ELSE place = 0 /\ session = 0 /\ onKick = 0 /\ socket = 0 /\ polling = 0 /\ packets = 0
  /\ IF part = "digest" THEN Digest!Init ELSE given = 0 /\ context = 0
  /\ IF part = "base64" THEN Base!Init ELSE data = 0
  /\ IF part = "infos" THEN Info!Init ELSE entries = 0 /\ store = 0 /\ settings = 0
  /\ IF part = "dvars" THEN Dvar!Init ELSE dvar = 0

Init == part \in PartNames /\ Started

Next ==
  /\ UNCHANGED part
  /\ IF part = "menus" THEN Menu!Next ELSE UNCHANGED menuVars
  /\ IF part = "console" THEN Console!Next ELSE UNCHANGED consoleVars
  /\ IF part = "imports" THEN Import!Next ELSE UNCHANGED importVars
  /\ IF part = "filter" THEN Filter!Next ELSE UNCHANGED filterVars
  /\ IF part = "texts" THEN Texts!Next ELSE UNCHANGED textVars
  /\ IF part = "key" THEN SKey!Next ELSE UNCHANGED keyVars
  /\ IF part = "log" THEN Printed!Next ELSE UNCHANGED logVars
  /\ IF part = "kick" THEN Kick!Next ELSE UNCHANGED kickVars
  /\ IF part = "login" THEN Auth!Next ELSE UNCHANGED loginVars
  /\ IF part = "breakpoints" THEN Breakpoints!Next ELSE UNCHANGED breakpointVars
  /\ IF part = "lobbies" THEN Lobby!Next ELSE UNCHANGED lobbyVars
  /\ IF part = "startup" THEN Start!Next ELSE UNCHANGED startupVars
  /\ IF part = "digest" THEN Digest!Next ELSE UNCHANGED digestVars
  /\ IF part = "base64" THEN Base!Next ELSE UNCHANGED data
  /\ IF part = "infos" THEN Info!Next ELSE UNCHANGED infoVars
  /\ IF part = "dvars" THEN Dvar!Next ELSE UNCHANGED dvar

Spec == Init /\ [][Next]_vars

-----------------------------------------------------------------------------

(* What is shared without a lock, or kept as a pointer to what somebody    *)
(* else changes, is what it was written as, as long as what each part's    *)
(* comment says does not happen: texts in static buffers (va, inet_ntoa's, *)
(* dw_gethostbyname's), the session key, the lines of the log, the rows of *)
(* the console.                                                            *)
SharedKept ==
  /\ part = "texts" => Texts!TextsKept
  /\ part = "key" => SKey!KeysWhole
  /\ part = "log" => Printed!LogCounts
  /\ part = "console" => Console!RowsLead

(* What the patches put into the game stays in it: both redirections of    *)
(* the sockets where they are meant to win, the filter of exceptions that  *)
(* nobody replaces, and the breakpoints there are handles for.             *)
HooksStay ==
  /\ part = "imports" => Import!WinningHook
  /\ part = "filter" => Filter!FilterStays
  /\ part = "breakpoints" => Breakpoints!BreakpointsStay

(* Whoever is meant is who gets it: the identity's fields are whole, in    *)
(* the order of the logins that gave them, the kick hits the player        *)
(* demanded, a lobby has its own data; and the calls that lead there,      *)
(* failing one by one, hold nothing but names and block no frame.          *)
RightOneServed ==
  /\ part = "login" => Auth!NothingHeld /\ Auth!IdentityOfOne
  /\ part = "kick" => Kick!KicksTheOneMeant
  /\ part = "lobbies" => Lobby!DataOfTheJoined
  /\ part = "startup" => Start!FramesGoOn

(* Every text but the empty one is decoded to what was encoded, by the     *)
(* standard's alphabet and padding; and a message cut into chunks in any   *)
(* way, and hashed chunk by chunk, has the blocks of MD5's standard,       *)
(* whenever it ends.                                                       *)
CodesAgree ==
  /\ part = "base64" => Base!Base64Inverse
  /\ part = "digest" => Digest!ChunksAgree

(* A key of an info string has the value of its last set, in whatever case *)
(* that was, unless the value was refused, taken away or too long.         *)
InfoReadsBack == part = "infos" => Info!InfoReadsBack

(* A dvar that waits for a new value is listed with it, one that does not  *)
(* is not, but for the numbers and vectors Dvars names.                    *)
LatchedShown == part = "dvars" => Dvar!LatchedShown

(* Whatever is pressed before, while and after the console is open, the    *)
(* game holds no key for down that is up, but for Enter.                   *)
HeldOnlyEnter == part = "console" => Console!HeldOnlyEnter

(* Tab completes what was typed last to a name that contains it, unless no *)
(* name listed does.                                                       *)
TabCompletes == [][part = "console" => Console!Completed]_vars

(* A dump of menus that runs alone empties no file that is there, except   *)
(* that all menus that find no name share one.                             *)
AloneOverwritesNothing == [][part = "menus" => Menu!OverwritesNothing]_vars
=============================================================================
