# Verification of IW5M (PlusIW5)

PlusIW5 is a DLL that stands in for `steam_api` in Call of Duty: MW3. It holds
an in-process emulation of the DemonWare back end ("LoopDW"), an emulation of
the Steam API, and the patches that hook both into the game. This directory is
a TLA+ model of the parts that have logic of their own, with TLC runs and TLAPS
proofs. It is not complete: section 2 says what is left to do, section 13 what is
left out for good.

## 1. The system

| component | state | operations | talks to | model |
|---|---|---|---|---|
| LoopDW request pipeline (`DemonWare/bdServer.cpp`, `bdServerImpls.cpp`, `bdMessage.cpp`) | two queues and two critical sections per server, `queuedPacket` | `deferredHandlePacket`, `processQueues`, `handlePacket`, `handleMessage`, `enqueuePacket`, `dequeuePacket` | winsock hooks above, services below | `bdServer`, `RequestPipe` |
| winsock hooks (`DemonWare/DWInit.cpp`) | `_servers`, `_serverHashes`, `_sockets` | `dw_gethostbyname`, `dw_connect`, `dw_send/recv/select`, `dw_thread`, `dw_im_received` | the game's network thread; real winsock | `DwSockets`; `dw_im_received` in `bdServer` |
| LoopDW services (`bd*Service.cpp`, `bdLSGServer.*`, `bdProfiles`, `bdStorage`, `bdMessaging`, ...) | `services` map, result buffers | `callService` of each service | the "PM" library (asynchronous calls), session key | `bdServices` (time-outs), `Dispatch` (what is read and answered), `MatchMakingInfo` |
| session key and tickets (`DWCrypto.cpp`, `DWTickets.cpp`, `bd*Auth*`) | `globalKey` | get, set, build a ticket | lobby service sets it, every message reads it | `SessionKey`, `AuthServices` |
| buffers (`bdByteBuffer`, `bdBitBuffer`, `bdMessage`) | position, data-type flag | typed reads and writes | every service | `bdByteBuffer`, `bdBitBuffer`, `dwMessage` |
| Steam callbacks (`Steam/SteamBase.cpp`) | `_handlers`, `_callbacks`, `_results` | `RegisterCall`, `ReturnCall`, `RunCallbacks` | interfaces that answer asynchronously | `SteamCalls` |
| game server (`Steam/steam_api.cpp`, `GSServer.cpp`) | init flags, heartbeat deadline, sockets | `SteamGameServer_Init`, `RunFrame`, `Heartbeat`, `PollSocket` | master server, clients' queries | `GSServer`, `GSQuery` |
| server browser (`SteamMatchmakingServers002.cpp`, `ServerList.cpp`) | list of servers and pending queries, the game's table | `RequestInternetServerList`, `QueryStep`, `HandleInfoResponse` | master server, game servers over UDP | `ServerBrowser` |
| start and kicks (`steam_api.cpp`) | PM session, the client's socket | `SteamAPI_Init`, `NPA_KickClient` | PM library, the game's command buffer | `Startup`, `KickClient` |
| lobbies, presence (`SteamMatchmaking008.cpp`, `SteamFriends009.cpp`) | `joinedLobbyID`, presence | create, join, set and get data | PM library | `Lobbies` |
| log (`Utilities/Log.cpp`) | a counter used as a lock | `Print` | every thread | `Log` |
| hooks (`PlusIW5.cpp`, `Utilities/Hooking.*`, `hwbrk.cpp`, `Patches/IAT.cpp`, `DumpHandler.cpp`) | patched bytes, import entries, debug registers | install, release, redirect | the loaded game | `ImportHooks`, `FilterHook`, `HardwareBreakpoints` |
| utilities (`Utils.cpp`, `base64.cpp`, `md5.cpp`, `Patternscan.cpp`) | rings of static buffers | info strings, encoding, digests, search | everywhere | `SharedTexts`, `InfoString`, `Base64`, `MD5`, `SinglePlayer` (pattern search) |
| identity (`HWID.cpp`, `Authenticate.cpp`) | session, name, ids | `Authenticate`, `Auth_VerifyIdentity` | Windows (WMI), the launcher over HTTP | `Authenticate` |
| console and dvars (`InGameConsole.cpp`, `Dvar.cpp`) | the line, its suggestions, the rows of its log, the keys | key events, `dumpdvar` | the game | `InGameConsole`, `Dvars` |
| menus (`DumpMenu.cpp`) | the game's menus, files | `dumpMenus`, `MenuFileHookFunc` | the game, the disk | `MenuDump`, `MenuText`, `ScriptText` |
| single-player patches (`Singleplayer.cpp`) | patched code | `Patch_IW5SP` | the loaded game | `SinglePlayer` |
| other patches (`Patches/*`) | addresses and tables | drawing, writes at fixed places | the game | none (see 13) |

Threads: the game's main thread (Steam callbacks, browser, game server), the
game's network thread (winsock hooks), `dw_thread`, and whichever thread calls
`PM_RunCallBacks`, that is `SteamAPI_RunCallbacks` or
`SteamGameServer_RunCallbacks`. Instant messages come in on the last one. It is
a process of its own in the model, which allows every interleaving with the
game's `recv` and more than the program has if both are one thread.

What is hard here: these threads share queues, flags and tables, some of them
without a lock; requests and answers are matched by order only; asynchronous
calls have time-outs; UDP answers come late; 32-bit ticks wrap; imports are
patched twice. The full list, with the line where each bites, is under
"hazards" in `PROJECT.json`.

Properties that make the parts correct: a stream of whole frames, answers in
request order and none missing (pipeline); a socket reaches the server it was
connected to and no other (hooks); a reply carries the data that was asked for
(services); each asynchronous result is delivered once (Steam callbacks); one
heartbeat per interval while active (game server); an entry of the list belongs
to the refresh that shows it (browser); what one end writes the other reads
(buffers, tickets, dumps); what the patches put into the game stays there
(hooks); the line, the keys and the lists of the console agree (console).

## 2. Plan

Done: the components with threads, messages and time-outs each in a module and
a run of their own (`bdServer` with its abstract specification `RequestPipe`,
`DwSockets`, `SteamCalls`, `GSServer` with `GSQuery`, `ServerBrowser`,
`bdServices`; sections 3 to 8); the smaller state machines (section 9) and the
pure parts (section 10), which share the run `Parts`.

To be modelled: the packet queue of `SteamNetworking005`, and a composition of
`bdServer` with `Dispatch`, whose requests are now served by the kind of answer
they get. `bdByteBuffer` and `dwMessage` are ready for it.

Proved: every safety invariant and action property of the components with runs
of their own, the safety half of `ImplementsPipe`, that the game server answers
queries as `GSQuery` says, and every property of the smaller parts, those that
compute as well as those that share (sections 9 and 10).

Not proved: what the pure parts compute that have no state (`MessagesReadBack`,
`UtilitiesAgree`, `MenusReadBack`). Each would first have to be made a part that
runs, as digests and info strings were (section 10); section 12 says what stands
against it.

## 3. bdServer

### State and steps

One server object. `incomingQueue`, `outgoingQueue`, `critSec`, `queuedPacket`
are its members; `packet`, `pos`, `ret` are the locals of `handlePacket` and
`handleMessage`; `frame` and `pushed` those of `enqueuePacket`, one per writing
thread; `want` is the game's `recv` between `isPacketAvailable` and
`dequeuePacket`. `sent` and `received` record what the game has sent and read:
no guard depends on their contents but the bound on `Len(sent)`.

| action | code |
|---|---|
| `Send` | `dw_send`, `deferredHandlePacket` (one step: under `inCritSec`) |
| `RecvCheck`, `Dequeue` | `dw_recv`: the unlocked test, then `dequeuePacket` |
| `ProcessQueues` | the pop in `processQueues` |
| `EndOfPacket`, `EmptyMessage`, `HandleMessage` | one turn of the loop of `handlePacket` |
| `HandleRequest`, `Fallback` | `handleRequest` and the test of `queuedPacket` after it |
| `Enter`, `Push`, `Leave`, `Mark` | `enqueuePacket`: lock, one byte, unlock, `queuedPacket = true` |
| `ImReceived` | `dw_im_received` |

A message is reduced to the one thing handlers decide by (`Kinds`): the length
words that end a packet, a type 7 request, a request that is answered once, a
request that is not. Which real requests fall into which kind is a matter of the
services (`bdMessaging` 18 sends its message and no reply; `bdMessaging` 14
replies 0). Encryption, payload, and the length of each frame are left out: all
frames have `FrameLen` bytes, and a byte knows its frame and its place in it.
The over-read of `handlePacket` for a length word larger than the rest of the
packet is not modelled: packets are the sequences of whole messages that the
game's library sends. `buf[pos] != 0xFF` (line 43) is always true, `char` being
signed. `outgoingQueue.empty()` without the lock is read as an atomic test.

### Runs

| run | bounds | shows |
|---|---|---|
| `bdServer_safety` | 2 packets of 2 messages, frames of 2 bytes, reads of 1 and 3 bytes, 2 instant messages | `TypeOK`, `WholeFrames`, `RepliesInOrder`, `MissedAtMostIMs`, `RecvNeverZero` |
| `bdServer_live` | 2 packets, 1 instant message, large reads | `PacketsServed` and the refinement `ImplementsPipe` |
| `bdServer_answered` | 1 packet, 1 instant message | `EveryRequestAnswered` fails (finding below) |

Two packets give every order of two answers from different packets and of two
in one; a frame of two bytes is the shortest that another can split; a read of 1
byte cuts a frame, one of 3 takes a frame and part of the next; two instant
messages can both fall in one request, or in one each. `MCPackets` puts each
kind before or after those whose handling it could disturb. No symmetry is used:
`"dw"` and `"pm"` have different programs.

Deadlock is checked in all runs: the game may always poll `recv`.

Fairness: weak fairness of `dw_thread` (an endless loop; the operating system
schedules it) and of a callback that has begun `enqueuePacket`. Nothing is
assumed of the game or of arriving messages. Weak fairness suffices for
`critSec`: `dw_thread` can be overtaken at the lock at most `MaxIMs` times.

### What the finding says

`queuedPacket` is documented (`DW.h:82-83`) as "if we queued a packet during
this thread iteration -> to send error messages back to prevent desync", but it
is one member set by every caller of `enqueuePacket`, on any thread. An instant
message between the reset (`bdServerImpls.cpp:102`) and the test (line 111)
makes the test false for a request nobody answered: no error is sent, and,
all answers having the same transaction id (`bdMessage.cpp:99`), the game takes
the next answer for this request's. `MissedAtMostIMs` bounds the damage: each
instant message silences at most one request, and nothing else does.

### RequestPipe

The service without threads: packets served in order, answers in order and of
the kind their message calls for, instant messages whole and anywhere between.
`ImplementsPipe` maps `wire` to the frames whose last byte has been pushed and
`served` to the number of packets `dw_thread` has returned from. Its liveness,
`WF(AnswerNext \/ Complete)`, says every packet is eventually served.

### Proofs (`bdServer_proofs`)

From the four named assumptions on the constants and nothing else, for any set
of packets, frame length, read lengths and bounds:

- `TypeCorrect`: `Spec => []TypeOK`.
- `RecvSafe`: `Spec => []RecvNeverZero`. Holds since only the game removes bytes.
- `FramesWhole`: `Spec => []WholeFrames`.
- `AnswersOrdered`: `Spec => []RepliesInOrder`.

None of the last three is inductive alone. The invariant `Inv` adds: a thread
between `Enter` and `Leave` is the one in `critSec` (`LockInv`); a `recv` under
way finds a non-empty queue (`RecvInv`); the last byte of the stream belongs to
the frame of the thread in the lock, at place `pushed` of it, or ends a frame if
the lock is free (`EndInv`); packets are numbered by their place in `sent`
(`NumberInv`); the frame `dw_thread` is pushing answers the message it handles
(`FrameInv`); every answer in the stream is to a message before the current one,
or to the current one in the states where that is due (`PastInv`). The lemmas on
`Stream == received \o outgoingQueue` (`PushStream`, `DequeueStream`,
`OtherStream`) reduce all steps to two cases: one byte more, or no change.

Two more take the invariant `PipeInv`, which adds what the threads are doing to
what they have written:

- `ServerKeepsPipe`: `Spec => Pipe!Init /\ [][Pipe!Next]_(Pipe!vars)`, the safety
  half of `ImplementsPipe`. `ContentInv` says that the packets taken and waiting
  are those sent; `PlaceInv` what `dw_thread` is at in each of its places, and
  that the frame it pushes is of the kind the message calls for; `AlignInv`
  that frames end at the multiples of `FrameLen` and nowhere else, so that one
  more byte adds one frame to `wire` or none; `HasInv` that each request with a
  reply before the current message has its answer in the stream. The
  return from a packet is then RequestPipe's step that completes it, and the last byte of
  a frame the step that answers, or that lets an instant message in.
- `MissedOnlyByIMs`: `Spec => []MissedAtMostIMs`. `MissInv` counts a debt of one
  while a request is in hand that an instant message has silenced already: the
  debt becomes a missed request when the message is left, and a request misses
  its answer in no other way.

Only model-checked: `PacketsServed` and the liveness in `ImplementsPipe`.

## 4. DwSockets

### State and steps

All servers of `DWInit.cpp` at once, each reduced to its two queues and one
reply per packet; `bdServer` has what happens in between. `serverHashes` and
`sockets` are the two maps; `cursor`, `serving` and `raced` are `dw_thread`'s
iterator, the packet inside `processQueues`, and whether an entry was inserted
since the iterator last moved. `conns` and `open` are winsock's: the sockets it
has created and the one behind each handle, which it hands out again after a
close. `sent` and `read` are histories.

| action | code |
|---|---|
| `Socket`, `CloseSocket` | winsock; `dw_init` redirects no `closesocket`, so no hook runs |
| `GetHostByName` | `dw_gethostbyname` for the name of a server |
| `Connect` | `dw_connect`, to a made-up address or to a real host |
| `Send`, `Recv` | `dw_send`/`dw_sendto`, `dw_recv`/`dw_recvfrom` on a captured handle |
| `Select` (an operator) | the count `dw_select` returns |
| `Visit`, `Restart`, `Finish` | one turn of `dw_thread`'s inner loop, its end, and the end of `handlePacket` |

`std::map` keeps handles sorted, hence `Handles \subseteq Nat`. Nothing locks
`_sockets`. An insertion while the iterator is inside the map is undefined
behaviour; the outcomes allowed (`Reached`, `Restart`) are any entry or the end,
as entries are never removed and pointers are written whole. Two game threads
inserting at once are not modelled: the game opens its connections on one
thread. A look-up racing an insertion is read as atomic.

`AddressAssumption`: the 24 bits kept of the hash tell the servers' names apart.
The 0x7F meant for the front of the address ends up at its back (line 40), so
made-up addresses are x.y.z.127; nothing is assumed to keep them apart from
those of real hosts, except that the run uses values that differ.

### Run

`DwSockets`: two handles, two servers, one real host, three sockets and two
packets in all. Three sockets are the fewest with which a handle is handed out
twice while the other is in use, or three times; two packets can be in one line or in
two. `CapturedByLast` and `OneLine` say where a handle leads and that a
server's sockets share one line; `ReplyNoticed` that counting up from winsock's
`SOCKET_ERROR` hides a reply in one case only, a `select` for a single captured
socket; `AnsweredWhileMapped` that a request is answered unless the last handle
of its server is taken over.

Fairness: `dw_thread` alone. That `Finish` follows `Visit` includes that the PM
library answers what a storage call waits for; `bdServices` shows what happens
otherwise.

### Proofs (`DwSockets_proofs`)

For any handles, servers, hosts and bounds, from the four named assumptions:

- `TypeCorrect`: `TypeOK` is inductive. `Grow` lets the histories' types follow
  `Len(conns)`.
- `RequestsInLine`: `OneLine` is inductive together with `TypeOK`. Each step
  moves one packet across one of the seams of
  `read \o outgoing \o Served \o incoming`, or adds one at its end: the lemmas
  `MoveHead`, `AppendLast` and the associativity lemmas cover all of them.
- `MappedToLast`: `CapturedByLast` needs `OpenIsLast`, that the socket now
  behind a handle is the last one created with it; both together are inductive.
  Without it `Connect` could give an earlier socket of the handle a peer.

- `RepliesNoticed`: `ReplyNoticed` for any finite set of handles, any sets given
  to `dw_select`, and whatever winsock reports of those not captured. It follows
  from the cardinalities alone (`SelectCounts`).

Only model-checked: `AnsweredWhileMapped`, which is liveness.

## 5. bdServices

The services that ask the PM servers: `bdStorage` and `bdProfiles`. The PM
library is not in the repository; it is modelled from its calls: it finishes a
call at most once, at any time or never, on a thread of its own, copies what it
is to write when it is called, and writes a result to the buffer it was given,
whoever has that buffer by then. Contents of files and buffers are the number of
the request they came from: the properties ask whose data it is, never what.

| action | code |
|---|---|
| `Request` | `callService`, up to the start of the PM call |
| `Written`, `Refused`, `Read`, `NotFound`, `Failed` | the PM library finishes a call |
| `WaitReturns`, `TimeOut` | `Wait()`, or `Wait(5)` of the profiles; then the reply, then `delete[] outData` |
| `Idle` | `dw_thread` goes round |

Run `bdServices`: one file and the profile, two heap blocks that `new` may
return, three requests. Two are needed for a late result to meet a later
request, the third for a request after both. It shows that a file in a reply is
the one asked for (`FileIsAsked`, in `RepliesAsAsked`: the static buffers are safe because their calls are
waited for without time-out); that profiles may be another request's
(`RowsAreAsked`, likewise), memory be written that is not the call's any more
(`StrayOnlyLate`), and an acknowledged write be undone (`AckedWritesLast`), all
three only after a profile call that timed out; and that only a storage call the
library never finishes can keep a request from being replied to
(`RepliedUnlessBlocked`). That a write refused by the PM server is acknowledged
all the same shows in `AckedWritesLast`, which has to exclude it.

Fairness: of the two ways a wait ends, not of the library.

### Proofs (`bdServices_proofs`)

For all files, blocks and any number of requests: `RepliesCarryTheAsked`
(`RepliesAsAsked`), `StraysAreLate` (`StrayOnlyLate`), `AckedWritesStay`
(`AckedWritesLast`). What a reply will carry is decided when the library
finishes the call, steps before the reply, so none of the three is inductive.
`ServicesInv` adds to them and `TypeOK`: one request is served at a time
(`OneAtATime`); a call that is not finished belongs to the request in hand, or to
a profile request that gave up (`CallsInv`); and what the result of the call in
hand says of its buffer and its file (`ResultInv`). `MineOrLate` splits the steps
of the library into those two cases. `BlocksAssumption`, that `new` returns no
static buffer, is needed.

Only model-checked: `RepliedUnlessBlocked`, which is liveness.

## 6. SteamCalls

One frame loop, one thread, but a handler may make requests. `callID`,
`resultHandlers`, `results` are the members of `SteamBase.cpp`; `capacity` is the
vector's, which grows by half, as the build's library does; `iter` and `pc` are
`RunCallbacks`; `moved` is not 0 once the vector has moved under the iterator.
From then on the comparison with `end()` and the next result are whatever the
old memory holds: `Clear`, `Result` or `Crash`. `promised`, `ran`, `freed`, `lost` are
histories.

`Results` lists the four requests that answer asynchronously and the results of
each; `CreateLobby` joins the lobby itself and so takes two ids
(`SteamMatchmaking008.cpp:78`).

Run `SteamCalls`: three of the requests and four ids, which let the vector grow
from 1 to 2, 3 and 4 results, in a handler or outside, and let two requests be
made in one pass. `RequestLobbyList` would behave like the ticket, as nobody
listens to either. The process may crash and ids run out, so deadlock is not
checked. Fairness: the frame loop. `ResultsInOrder` (each result is delivered
once, in the order of the calls, and freed after its handler has run) holds with
or without a move; `LostByMoveOnly` says what a move can do;
`CallsEnd` that no call stays open. The run is of the module itself, whose
constants are sets of strings.

### Proofs (`SteamCalls_proofs`)

For any set of requests and listeners and any number of calls:
`ResultsShownInOrder` (`ResultsInOrder`) and `OnlyMovesLose` (`LostByMoveOnly`).
What was shown says nothing of what may be shown yet; the two are tied by
`Numbered`: the vector always holds the last calls made, in order, even after it
moved. So the iterator's place (`Place`) bounds what has been shown and freed
(`ShownSoFar`), and each step goes past that bound, which gives `NoneTwice` and
`InCallOrder`. `KeptPromise` carries that a promised handler has run from the
step that runs it to the one that frees the result (`HandlerHasRun`).

Only model-checked: `CallsEnd`, which is liveness.

## 7. GSServer and GSQuery

`GSServer` is the dedicated server's heartbeat and start. `tick` is
`GetTickCount`, wrapping at `Wrap`; `age`, `left` and `gap` measure true time and no guard of
the program's actions reads them. `SteamGameServer_Init` has its three
exits; `SetHeartbeatActive` sends two heartbeats when the server was active
(lines 446 ff.); `RunFrame` polls the socket, then sends a heartbeat that is
due. `GSServer` extends `GSQuery`, the query socket: one packet a frame.

Runs. `GSServer_heartbeat` lets the tick turn over from every start; `Wrap` = 12,
`Interval` = 4 and `MaxGap` = 2 keep `MaxGap < Interval < Wrap / 2`, so that deadlines
lie before, at and behind the wrap. `KeepsComing` and `SpacedUnlessWrapping`
hold with their exceptions, both of the wrap; `StartRight` tells in which
cases `SteamGameServer_Init` returns true without a socket. `GSServer_wrap` is the
finding: line 388 says "if not time yet, don't send anything", but the sum of
line 394 wraps while the comparison of line 389 does not, so that in the last
interval before the wrap every frame sends. `GSQuery` has two clients, three
packets, three slots of which one is private; `MaxClients` counts the private
slots or not, as the code cannot tell. `AnswersRight`: a query is answered once, to
the client that asked, and never with more players than slots; `GetInfoAnswered`:
every query is answered, one packet a frame.

Assumption: a frame comes at least every `MaxGap`, `MaxGap < Interval`. A server that
stands still for two minutes is not modelled. `RunFrame` is fair: the game calls
it in every frame.

### Proofs (`GSServer_proofs`)

For every `Wrap`, `Interval` and `MaxGap` with `MaxGap < Interval` and
`Interval + MaxGap < Wrap`, the real 2^32 and 120 000 with any gap between frames below that among them:

- `StartedRight` (`StartRight`), by `StartInv`: if the flag of the API is set
  while the server is not initialised, `told` has the call that did not bind.
- `HeartbeatsKeepComing` (`KeepsComing`), by `BeatInv`: unless the deadline lies
  within `MaxGap` of the wrap, it is ahead of the tick and the heartbeat's age is
  what is missing to the interval (`Ahead`), or no frame has come since the last
  heartbeat (`Fresh`), or none since the deadline (`Passed`).
- `HeartbeatsSpaced` (`SpacedUnlessWrapping`), by `LeftInv`: the true time left is
  the difference to the deadline if that is not behind the wrap.

`QueriesAnsweredRight` (`AnswersRight`), for any clients, slots and number of
packets, by `QueueInv`: the inbox is the end of what arrived. That an answer
shows no more players than slots is a fact of cardinalities (`SlotCounts`).

`ServerAnswersQueries`: every step of `GSServer`, whatever else it does with
flags, deadlines and ticks, is a step of `GSQuery` or leaves its variables alone, so
that every behaviour of the server is one of `GSQuery`, but for its fairness:
`GSServer` has none, and `GetInfoAnswered` needs it. `ServerAnswersRight` is what
follows: the queries are answered right by the whole server.

Only model-checked: `GetInfoAnswered`, which is liveness.

## 8. ServerBrowser

`servers` is `g_cls.servers` up to `numServers`; `rows` and `shown` the game's
table; `lastQueryStep` and `tick` the step timer. `RequestServerList` empties
the list (`GSClient_QueryMaster`), `RunFrame` runs `QueryStep` and opens the poll
loop, in which `HandleServersResponse` appends, runs a step and only then lets
the new entries count, `HandleInfoResponse` fills the rows of all entries with
the sender's address, and `WouldBlock` ends it. The network is any server ever asked, or the
master, answering at any time, any number of times: late, repeated and
reordered answers need no state of their own.

Run `ServerBrowser`: two servers, lists of one, two, or one twice; room for two
entries so that the list fills up within one answer or across two; one server a
step; two refreshes, so that answers of the first meet the second. A step time
of 2 and a wrap at 4 let the difference of line 322 be taken across the wrap.
`ListAskedOnce`, `EveryServerAsked`, `StepsApart` and the first half of
`RowsRight`, that rows are entries, hold throughout. The second half says of every
refresh that a ping was measured in it, for all addresses listed once that no
earlier refresh asked (`early`). For the others a late answer may come before
the server is asked again, and the ping is then the time since whoever stood in
that place of the list was asked; nothing in the repository says otherwise. The game's table is told a
count of one byte (`shown`, lines 477-478). Fairness: frames come, the poll loop
ends (a socket is not refilled for ever), time passes.

### Proofs (`ServerBrowser_proofs`)

For any servers, table, length of a master's answer (`MaxList`), batch, step
time and wrap of the tick: `AskedOnlyOnce` (`ListAskedOnce`), `RowsShowEntries`
(`RowsRight`) and `StepsSpaced` (`StepsApart`), by `BrowserInv`: an entry's flag
is the count of how often it was asked (`AskedInv`); the difference of the ticks,
wrapped, is the true time since the last step (`SinceInv`); and every server
asked for the first time in this refresh is in the list, with the time of asking
(`FirstInv`), which is why an answer of it cannot find an entry without one.

Only model-checked: `EveryServerAsked`, which is liveness.

### Finding

`ServerBrowser_release` is a finding: line 108 says that `ReleaseRequest` "cancels
any pending query", but it only logs.

## 9. The smaller state machines

Each is a module with its own `Spec`; `Parts` puts them all together: a behaviour picks
a part in `Init` and follows it, the variables of the others staying 0. They do
not talk to one another, so nothing is lost, and there is one property
for each question instead of one for each module. `Parts` has the constants of
all of them and the assumptions the proofs need; `MCParts` extends it with their
values for the run `Parts`, with the console's second setting, and with the words
on which the pure parts without a state are checked. Four more parts of `Parts`
hash, encode and keep what they are given: they are in section 10.

| module | code, and what is open in it | bounds in the run |
|---|---|---|
| `ImportHooks` | `DllMain` and `Main_DoInit` redirect imports, by ordinal and by name; any import table | 2 libraries, 1 or 2 imports each |
| `FilterHook` | the stub of `SetUnhandledExceptionFilter` takes its hook away and puts it back, with the page's protection | 2 threads, 3 calls |
| `HardwareBreakpoints` | helpers read, change and write back debug registers | 2 threads, 2 registers, 3 sets |
| `SharedTexts` | texts in static buffers used in turn: `va`, `Info_ValueForKey`, `dw_gethostbyname` and others | rings of 1, 2 and 4; 6 calls of 2 threads |
| `SessionKey` | the key copied word by word, at a log-in and for each message | 3 words, 3 log-ins, 2 messages |
| `Log` | `Print` waits for a counter, counts itself in and out | 2 parts, a counter modulo 8, 3 lines |
| `KickClient` | a kick is a command executed later, by number | 3 players, 2 places, 2 kicks |
| `Authenticate` | the drive's serial number through COM, every step of which may fail; then four questions to the launcher | 2 drives, 2 log-ins, one if there are drives; answers of none to 4 letters, for a buffer of 3 and arrays of 2 |
| `Lobbies` | lobby data is rich presence, known to others some time later | 2 players, 3 keys, 2 sets |
| `Startup` | `SteamAPI_Init` step by step, then frames that poll the client's socket | 3 packets |
| `InGameConsole` | keys before, in and after the console; lists of names made when a frame is drawn; where the letters of the line are, and the pointers to them that are the rows of the log | 6 keys, a line of 2, 2 keys down; again with 5 keys, a line of 4 in a string that holds 2, 3 rows of which 2 are shown |
| `MenuDump` | dumps on threads, names tried until a file is not there, streams never closed | 3 dumps, 3 menus, 3 names, 12 streams |

What the properties say, and what they have to except, which is where this code
goes wrong without any text of the repository saying otherwise:

- `SharedKept`. A text stays until as many calls have begun as there are
  buffers, unless a call overlaps it (`TextsKept`). Every message is encrypted
  with one whole key (`KeysWhole`), in spite of the copies that are cut by
  others, because `dw_build_lsg_ticket` puts the same key in every ticket: the
  mutant gives each log-in its own. Lines are whole and the counter is right
  until two threads pass the wait together (`LogCounts`). The rows of the
  console's log are pointers to the letters of its line: they all show the line
  of the moment, whatever was entered, and lead to memory that is not freed only
  until a line has 15 letters (`RowsLead`; the newline is the sixteenth).
- `HooksStay`. Of the two redirections of `gethostbyname` the first stays where
  the import is by ordinal and the second wins where it is by name
  (`WinningHook`). The filter stays ours unless another thread is in the way
  (`FilterStays`), breakpoints match handles unless two helpers meet.
- `RightOneServed`. Session, name, number and number of an identity are of
  log-ins in the order in which they were asked, one field of one log-in, so that
  all are one's if there was one only while the launcher was asked. A field is
  all of one answer, but where an answer had no room or was gone before it was
  copied, and none of the four is certain if that was the name's
  (`IdentityOfOne`). Nothing of COM is held in the end but the texts of names;
  a kick hits who
  was meant unless he left his place; a lobby's data is its own; frames go on
  unless `bind` failed and went unnoticed.
- `HeldOnlyEnter`. The game holds no key for down that is up, but Enter.
- `TabCompletes`. Tab completes what was typed last, as far as the name was
  listed by then.
- `AloneOverwritesNothing`. The note of `DumpMenu.cpp:612`, "does NOT overwrite
  files", holds for a dump that runs alone and while there are names left.

`CHECK_DEADLOCK FALSE`: each part stops at its bounds. The dumps are symmetric:
they differ only by name. No part has liveness: `Log`'s wait need not end, and
the others do what they are called for.

The launcher's answers take every way the code has for them. Without a handle
of curl's the answer is `"0"` (`NoHandle`); an empty one is as good as any; a chunk
that no longer fits is passed over. An answer that fills the buffer loses its
zero to what lies behind it, or ends the game. A session of 40 letters and more
is copied over the globals behind its array, and is then read up to any zero that
what is assigned there later happens to have; a name of 256 and more is cut and
has no end, so that the copy of it that is obfuscated may run over any of the
globals (`Kept`, `Obfuscated`). The buffer is an array of the function that returned:
what is copied is the answer, or what other calls have left of it (`Answered`).
What other memory holds is one letter, `Other`, of nobody's. A drive without a
serial number is read as the text before it, which may be freed or lost, or as
none, which ends the game. It is assumed that answers have no spaces or zeros in
them, as `remove_space` would take the ones away and `strncat` end at the others,
and that ids fit an `int`.

Readings of the code: a load or a store of one word is atomic, a `++` of a shared
word is two steps; a copy of several words is a step for each. The index of
`SharedTexts` may be read again for the increment or not, as the compiler likes.
The code of a hook is written in one step while its page is writable. PM hands a
presence on in the order it was stored. `hwbrk.cpp` is called by nothing in this
program; it is modelled as the library it is.

### Proofs (`Parts_proofs`)

The theorems `SharedStaysKept`, `HooksStayIn`, `RightOneIsServed`, `OnlyEnterHeld`,
`TabDoesComplete` and `AloneNothingLost` state the six properties for every value
of the constants; they follow from `PartsKeepTheirs`, `Spec => []Inv`, where `Inv`
says that the part that runs has its invariant. Each of the twelve is inductive
by itself:

| part | invariant | what it adds to the property |
|---|---|---|
| menus | `MenuInv` | a dump that is alone still finds missing the file it looked for, or no stream is left |
| console | `ConsoleInv` | keys held are pressed (`KeysInv`); until the line has filled its string, it and all rows lead inside (`LineInside`); the suggestions are those of the line since a key was typed (`LineSearched`) |
| imports | `ImportInv` | after the step that redirects a function in a library its slot leads to LoopDW, or to the look-up of names (`Mine`); a slot never leads to another function's stand-in (`ImportShape`) |
| filter | `FilterInv` | where a thread that is alone stands decides the bytes and the protection (`FilterAt`) |
| texts | `TextInv` | for a call that met no other: how far the index, and each later call's buffer, is ahead of its own (`TextFar`), which no later call makes a whole turn |
| session key | `KeyInv` | a word copied once is the same ever after; a draft begun after a log-in has only such words |
| log | `LogInv` | one thread is inside; its place says how much of the line is in the file and what the counter is (`Placed`) |
| kicks | `KickInv` | who is meant is in the place, or has left it |
| log-in | `AuthInv` | what is held is what the call at hand would release (`AuthHeld`); the letters are in the order of the log-ins (`AuthOrder`); what came and what is coming make one answer, as far as there was room (`AuthComing`); every field that had room is whole or empty (`AuthFields`) |
| breakpoints | `BreakInv` | a thread one helper works on: the helper's copy is what the registers are (`HelpersAlone`), which match the handles and what is being removed (`Watched`) |
| lobbies | `LobbyInv` | every value stored, handed on or read is of a set for its owner and under its key |
| start | `StartupInv` | a socket that is open and blocks could not be bound |

An import table may have any libraries, names and length, the rings of texts any
sizes, the counter of the log any modulus from 2, the console any lists of names
and any length of string. The assumptions are in `Parts`, each with its reason.
`LoginAssumption` needs room for one letter in each of the launcher's buffers;
`LogAssumption` two parts of a line, as `Print` writes them apart;
`NoneAssumption` that the value for "none" is not something else.

## 10. The pure parts

Four of them are parts of `Parts`, as what they are given grows from call to call:

| part | module | what is given, and the bounds in the run | property |
|---|---|---|---|
| digest | `MD5` | a message in chunks of any sizes; blocks of 4 of which 2 for the length, which wraps at 64; up to 36 bytes | `CodesAgree`: the blocks are those of RFC 1321 at every moment |
| base64 | `Base64` | octets, six of them up to four times | `CodesAgree`: the text is that of RFC 4648 and is decoded to the octets |
| infos | `InfoString` | sets of keys, two of which differ in case, to values of which one is empty, one long and one blacklisted; 17 characters, 4 sets | `InfoReadsBack`: the last value set, as a map from keys to values would have it |
| dvars | `Dvars` | any type and any two of four words; set to wait, then taken over | `LatchedShown`: which dvars are listed as waiting, and with which value |

A digest's sizes let the padding end in its own block or in one more, and the
count wrap; 17 characters are full after two or three pairs.

The others are modules without variables, or with records passed along; `Codecs`
states what they are for and reads one `word` as the input of each. The word grows by one
digit of six at a time up to `MaxWord` = 4, so that TLC tries 1 555 inputs of
each part; six digits are as many kinds of write, entry, command, item or byte as
the code tells apart in most places, and each part's decoding is stated beside
its property.

| property | modules | what is read back |
|---|---|---|
| `MessagesReadBack` | `bdByteBuffer`, `bdBitBuffer`, `dwMessage`, `Dispatch`, `MatchMakingInfo`, `AuthServices` | replies by the game, across the end of the buffer; bits at any place within a byte; sessions; every request of two in a row gets the answer due to it; and the key in the ticket, by the lobby service and by the game |
| `UtilitiesAgree` | `MD5`, `SinglePlayer` | the suite of RFC 1321; all matches of a pattern; the patched code |
| `MenusReadBack` | `MenuText`, `ScriptText` | handlers by their braces, fields by their keywords, statements and scripts by their words; menus loaded twice |

Each names its exceptions, found by TLC and confirmed in the code: a profile
comes back with four bytes left from the one before (`bdProfiles.cpp:90`); a
blob whose bytes do not fit still writes its length; infos of more profiles than
their array has rows (300) are written behind it (`bdProfiles.cpp:59`); the last place of a range is
not searched, and the search of a range shorter than the pattern leaves it
(`Patternscan.cpp:20`); a pattern that is missing from the game is not noticed,
and ends it when the place is written to (`Singleplayer.cpp:141`); a value too
long removes the one before it (`Utils.cpp:200`); vectors of dvars are compared by
where they lie (`Dvar.cpp:37`), so that colours are always listed as waiting; a slider's dvar
and the keyword of a test of two kinds are lost in a dump, conditions nested
too deep overrun the array of tabs, and the pop-up of an error grows each time
its file is loaded (`DumpMenu.cpp`).

Two of the exceptions are built into what the property compares with: the map of
`InfoReadsBack` forgets a value when its key is set to one that is too long, and
`AloneOverwritesNothing` (9) is silent on two dumps at once, as `FilterStays` is on two
threads that meet. Nothing in the repository promises more there, so the
properties say where what is promised holds, and of the rest nothing.

What is abstracted. A byte of `bdByteBuffer` knows its number and its place in
it, so that no byte order is needed and a misplaced read finds nothing. A byte of
an encrypted message carries its key: the cipher is a library. A text of a menu
is a sequence of words; of a base64 text a character is its place in the
alphabet. `MD5` has both the blocks that are cut and the arithmetic on each,
on words that are sets of bits (TLC's integers have 32 bits with a sign); the two
meet in `DigestsAgree`. In `Dispatch` the PM library answers at once: `bdServices`
is where it does not. It is an assumption on that library that the file
"profileiw5pub" of a user is what `bdProfiles` asks for as his extended data
"iw5pub".

Each module's `CONSTANTS` are the sizes of the code's arrays (1024, 65535,
131072, ...), made small in `Codecs` and `Parts.cfg` so that their ends are reached; a property
whose exception depends on a size names the size.

### Proofs (`Codes_proofs`)

`CodesDoAgree`, `InfosReadBack` and `DvarsListedRight` state `CodesAgree`,
`InfoReadsBack` and `LatchedShown` for every value of the constants, the real
ones (blocks of 64 bytes, a count of 2 x 32 bits, 1024 characters) among them. They follow from
`CodesKeepTheirs`: each part has its invariant.

| part | invariant | the argument |
|---|---|---|
| digest | `DigestInv` | the context holds the message (`Holds`): the blocks are its whole blocks, the buffer what is left, the count its bits, wrapped. `update` keeps that whether a chunk fills the buffer or not and however many blocks it has (`UpdateHolds`, from the arithmetic of `IndexIs`, `CountHolds` and `BlockFacts`); `finalize` pads to the standard's length (`PaddingIs`, `FinalIs`) |
| base64 | `BaseInv` | the data are octets. For all data: four sextets made of a group give its three octets back (`OctetsOf`, `DecodeIs`), and are the bits of the standard (`SextetBits`, `TextIs`) |
| infos | `InfoInv` | the string represents the map (`Represents`): it has an entry for each key that has a value, with that value, the latest set first, and is as long as the map says. So the first entry that matches in any case is the last that was set |
| dvars | `DvarInv` | types; the property is a matter of cases (`WaitsIs`, `PrintIs`) |

No operator is recursive here. The length of an info string is a sum, a
recursive function; what is needed of it (`SumStep`, `SumChanged`, `SumShifted`,
`SumRemoved`) rests on `AllUpTo`, induction over the naturals for sets: a set that
has 0 and with each number the next has them all, which follows from well-founded
descent without a theorem that takes an operator. The assumptions are in
`Parts`: `DigestAssumption` (the word of the count is a multiple of a block's
bits, as 2^32 is of 512), `OctetsAssumption`, and `InfoAssumption` (no key is
listed twice; texts have lengths; there is room for the final 0).

The arithmetic of MD5 (`transform`) is no part of these theorems: it is a
definition to be read beside the standard's, and `DigestsAgree` runs it.

## 11. Findings

| run | property | code |
|---|---|---|
| `bdServer_answered` | `EveryRequestAnswered` | `bdServerImpls.cpp:111`, see 3 |
| `GSServer_wrap` | `NotBeforeTime` | `GSServer.cpp:389`, see 7 |
| `ServerBrowser_release` | `ReleaseCancels` | `SteamMatchmakingServers002.cpp:110`, see 8 |

Behaviour that no text of the repository contradicts, and so is no finding, but
stands in a property as its exception: a profile call that timed out and writes
to memory freed or used again (`StrayOnlyLate`, `RepliesAsAsked`); a handle that
captures a later socket (`CapturedByLast`); a `select` that reports a time-out
while a reply waits (`ReplyNoticed`); results lost when a handler makes a request
(`LostByMoveOnly`); and the exceptions listed in 9 and 10.

## 12. What is proved and what is checked

Every property is checked by TLC in the run that names it, and each has a
mutant: a plausible bug in a mapped definition that makes the run fail; the
properties of the run `Parts` that speak for several modules have one for each.

Proved by TLAPS for all values of the constants:

| module | theorems |
|---|---|
| `bdServer_proofs` | `TypeCorrect`, `RecvSafe`, `FramesWhole`, `AnswersOrdered`, `ServerKeepsPipe`, `MissedOnlyByIMs` |
| `DwSockets_proofs` | `TypeCorrect`, `RequestsInLine`, `MappedToLast`, `RepliesNoticed` |
| `bdServices_proofs` | `RepliesCarryTheAsked`, `StraysAreLate`, `AckedWritesStay` |
| `SteamCalls_proofs` | `ResultsShownInOrder`, `OnlyMovesLose` |
| `GSServer_proofs` | `StartedRight`, `HeartbeatsKeepComing`, `HeartbeatsSpaced`, `QueriesAnsweredRight`, `ServerAnswersQueries`, `ServerAnswersRight` |
| `ServerBrowser_proofs` | `AskedOnlyOnce`, `RowsShowEntries`, `StepsSpaced` |
| `Parts_proofs` | `PartsKeepTheirs`, `SharedStaysKept`, `HooksStayIn`, `RightOneIsServed`, `OnlyEnterHeld`, `TabDoesComplete`, `AloneNothingLost` |
| `Codes_proofs` | `CodesKeepTheirs`, `CodesDoAgree`, `InfosReadBack`, `DvarsListedRight` |

With TLC alone, as out of the provers' reach:

- liveness under fairness: `PacketsServed`, `AnsweredWhileMapped`, `CallsEnd`,
  `GetInfoAnswered`, `EveryServerAsked`, `RepliedUnlessBlocked`, and the fairness
  of `RequestPipe` in `ImplementsPipe`; and with it everything about `ENABLED`;
- `MessagesReadBack`, `UtilitiesAgree` and `MenusReadBack`: what folds and
  recursive operators over texts, requests and code compute for every input.
  `Codecs` and the modules of the menus reach `RECURSIVE` operators, which the
  SMT backend refuses, and parsers that go down nested texts call for induction
  over data, whose theorems take an operator;
- the console's second setting in `MCParts`, a run of the same module with other
  constants, for which the theorems of `Parts_proofs` hold as well.

## 13. Not modelled

Behaviour left out for good:

- data: `PubFiles.cpp` (3 300 lines of literals behind one look-up), the tables
  in `IW5.h` and `Unlocker.cpp`, the commented-out code that fills
  `bdContentStreaming.cpp`, most of `Hooking.h` and the end of `Hooking.cpp`;
- code nothing reaches: the requests of `bdMatchMaking` behind an early return
  (their data is in `MatchMakingInfo`), `Auth_PerformSessionLogin` and what it
  calls, the discovery of the own address in `ServerList.cpp`, the hooks of
  `DSRanked.cpp`, `FindCommands`, `FindDvars`, `Dvar_ForEach`, `safetext`,
  `dw_closesocket` and `dw_patch`;
- stubs that log and return a constant: `SteamUserStats010`, `SteamUtils005`,
  `SteamRemoteStorage002`, `SteamApps004`, `SteamGameServer010`, and parts of the
  other interfaces; `SteamProxy.cpp`, which forwards to the real library;
- single writes at fixed addresses of the game, without state of their own:
  `Branding`, `ClanTag`, `Dedicated`, `Multiplayer`, `Materials`, `CEG`,
  `Addresses`, `GSCScript`, `Notifycation`, and the layout in `Drawing.cpp`
  (the lists it makes and the rows it drops are in `InGameConsole`).

Deliberate limits: the length of a packet that lies about itself, two game
threads in `dw_connect` at once, a server that stands still for longer than a
heartbeat's interval, byte order, and the wording of logs and messages.
