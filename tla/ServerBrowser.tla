--------------------------- MODULE ServerBrowser ---------------------------
(***************************************************************************)
(* The client's server browser (GSClient_* in                              *)
(* Steam/SteamMatchmakingServers002.cpp and WriteServerInformation in      *)
(* Patches/ServerList.cpp). A refresh empties the list and asks the master *)
(* server; its answers fill the list; QueryStep sends getinfo to a few     *)
(* servers at a time; an infoResponse fills a row of the game's own table. *)
(* Nothing tells the answers of one refresh from those of another.         *)
(*                                                                         *)
(* The network loses, delays, reorders and repeats: a server that was ever *)
(* asked, or the master, may answer at any later time.                     *)
(*                                                                         *)
(* It all runs on the thread that calls SteamAPI_RunCallbacks; the game    *)
(* makes its requests between frames.                                      *)
(***************************************************************************)
EXTENDS Integers, Sequences, FiniteSets

CONSTANTS
  Servers,      (* addresses of game servers                                *)
  MaxList,      (* bound: servers in one getserversResponse                 *)
  Capacity,     (* length of g_cls.servers (8192) and of the game's table   *)
  Batch,        (* servers asked in one step (20)                           *)
  StepTime,     (* time between steps (50 ms)                               *)
  Wrap,         (* GetTickCount wraps here (2^32 ms)                        *)
  MaxRefreshes  (* bound: requests for a list                               *)

ASSUME BoundsAssumption ==
  /\ MaxList \in Nat /\ Capacity \in Nat /\ Batch \in Nat \ {0} /\ MaxRefreshes \in Nat
  /\ StepTime \in Nat /\ Wrap \in Nat /\ StepTime < Wrap

VARIABLES
  servers,        (* g_cls.servers, as far as numServers                    *)
  rows,           (* the game's table of servers                            *)
  shown,          (* how many of its rows the game is told to show          *)
  lastQueryStep,  (* g_cls.lastQueryStep                                    *)
  tick,           (* GetTickCount                                           *)
  since,          (* true time since the last step                          *)
  pc,             (* "game", or "poll" inside GSClient_PollSocket           *)
  lookedUp,       (* lookedUp of GSClient_QueryMaster                       *)
  refresh,        (* history: number of the refresh                         *)
  contacted,      (* history: the servers that were ever sent a getinfo     *)
  early,          (* history: those of them before this refresh             *)
  released        (* history: the last request was released                 *)

list == <<servers, rows, shown>>
step == <<lastQueryStep, tick, since>>
past == <<refresh, contacted, early, released>>
vars == <<list, step, pc, lookedUp, past>>

(* An entry: its address; the flag queried; whether queryTime was set in   *)
(* this refresh; how often it was asked (history).                         *)
Entry(a) == [addr |-> a, queried |-> FALSE, timed |-> FALSE, asked |-> 0]

NoRow == [refresh |-> 0]

Init ==
  /\ servers = <<>> /\ rows = [i \in 1..Capacity |-> NoRow] /\ shown = 0
  /\ tick \in 0..(Wrap - 1) /\ lastQueryStep = 0 /\ since = tick
  /\ pc = "game" /\ lookedUp = FALSE
  /\ refresh = 0 /\ contacted = {} /\ early = {} /\ released = FALSE

-----------------------------------------------------------------------------
(* Time passes; a frame, and so a step, comes at least once in every turn  *)
(* of the tick.                                                            *)
Tick ==
  /\ since < Wrap - 1
  /\ tick' = (tick + 1) % Wrap
  /\ since' = since + 1
  /\ UNCHANGED <<list, lastQueryStep, pc, lookedUp, past>>

(* Request{Internet,Friends}ServerList: GSClient_QueryMaster, which fails  *)
(* only if the master server's name cannot be looked up.                   *)
RequestServerList ==
  /\ pc = "game" /\ refresh < MaxRefreshes
  /\ servers' = <<>>
  /\ lookedUp' \in {lookedUp, TRUE}
  /\ refresh' = refresh + 1 /\ released' = FALSE /\ early' = contacted
  /\ UNCHANGED <<rows, shown, step, pc, contacted>>

(* ReleaseRequest and CancelQuery do nothing.                              *)
ReleaseRequest ==
  /\ pc = "game" /\ refresh > 0
  /\ released' = TRUE
  /\ UNCHANGED <<list, step, pc, lookedUp, refresh, contacted, early>>

-----------------------------------------------------------------------------
(* Mutant: the servers that were asked are not marked.                     *)
QueryServer_NoMark(e) == [e EXCEPT !.timed = TRUE, !.asked = @ + 1]

(* Mutant: queryTime is not set.                                           *)
QueryServer_NoTime(e) == [e EXCEPT !.queried = TRUE, !.asked = @ + 1]

QueryServer(e) == [e EXCEPT !.queried = TRUE, !.timed = TRUE, !.asked = @ + 1]

(* Mutant: the deadline is compared, not the difference.                   *)
StepDue_Deadline == tick >= (lastQueryStep + StepTime) % Wrap

StepDue == (tick - lastQueryStep) % Wrap >= StepTime

Waiting == {i \in 1..Len(servers) : ~servers[i].queried}

(* Mutant: the last server of the list is left out.                        *)
Picked_NotLast ==
  {i \in Waiting : i < Len(servers) /\ Cardinality({j \in Waiting : j < i}) < Batch}

Picked == {i \in Waiting : Cardinality({j \in Waiting : j < i}) < Batch}

(* The list after QueryStep. *)
Stepped ==
  IF StepDue
  THEN [i \in 1..Len(servers) |->
          IF i \in Picked THEN QueryServer(servers[i]) ELSE servers[i]]
  ELSE servers

QueryStep ==
  IF StepDue
  THEN /\ lastQueryStep' = tick /\ since' = 0
       /\ contacted' = contacted \cup {servers[i].addr : i \in Picked}
  ELSE UNCHANGED <<lastQueryStep, since, contacted>>

RunFrame ==
  /\ pc = "game"
  /\ QueryStep /\ servers' = Stepped
  /\ pc' = "poll"
  /\ UNCHANGED <<rows, shown, tick, lookedUp, refresh, early, released>>

-----------------------------------------------------------------------------
(* GSClient_PollSocket: packets until none is left. *)

(* What the master server may list in an answer: any servers, also twice.  *)
Lists == UNION {[1..n -> Servers] : n \in 1..MaxList}

(* Mutant: the limit holds for one answer, not for the list.               *)
Fitting_Each(new) == IF Len(new) <= Capacity THEN new ELSE SubSeq(new, 1, Capacity)

(* As many of the listed servers as there is room for. *)
Fitting(new) ==
  LET room == Capacity - Len(servers)
  IN  IF Len(new) <= room THEN new ELSE SubSeq(new, 1, room)

(* getserversResponse. The new entries count only after the step.          *)
HandleServersResponse(new) ==
  /\ pc = "poll" /\ lookedUp
  /\ QueryStep
  /\ servers' = Stepped \o [k \in 1..Len(Fitting(new)) |-> Entry(new[k])]
  /\ UNCHANGED <<rows, shown, tick, pc, lookedUp, refresh, early, released>>

(* The row an entry is written to: WriteServerInformation gets i + 1.      *)
(* Mutant: rows are filled from the top.                                   *)
RowOf_Top(matches, i) == Cardinality({j \in matches : j <= i})

RowOf(matches, i) == i

(* infoResponse: every entry with the sender's address gets its row, asked *)
(* or not; the number of rows shown is that of these entries, in a byte    *)
(* (the duplicates are removed from a copy of their list only).            *)
HandleInfoResponse(a) ==
  LET matches == {i \in 1..Len(servers) : servers[i].addr = a} IN
    /\ pc = "poll" /\ a \in contacted
    /\ rows' = [r \in 1..Capacity |->
                  IF \E i \in matches : RowOf(matches, i) = r
                  THEN LET i == CHOOSE j \in matches : RowOf(matches, j) = r
                       IN  [refresh |-> refresh, addr |-> a, measured |-> servers[i].timed]
                  ELSE rows[r]]
    /\ shown' = Cardinality(matches) % 256
    /\ UNCHANGED <<servers, step, pc, lookedUp, past>>

WouldBlock ==
  /\ pc = "poll"
  /\ pc' = "game"
  /\ UNCHANGED <<list, step, lookedUp, past>>

Client ==
  \/ RunFrame \/ WouldBlock
  \/ \E new \in Lists : HandleServersResponse(new)
  \/ \E a \in Servers : HandleInfoResponse(a)

Next == Tick \/ RequestServerList \/ ReleaseRequest \/ Client

(* SteamAPI_RunCallbacks is called in every frame, a frame ends, and the   *)
(* time passes between them.                                               *)
Spec ==
  /\ Init /\ [][Next]_vars
  /\ WF_vars(RunFrame) /\ WF_vars(WouldBlock) /\ WF_vars(Tick)

-----------------------------------------------------------------------------
(* Properties *)

TypeOK ==
  /\ servers \in Seq([addr : Servers, queried : BOOLEAN, timed : BOOLEAN, asked : Nat])
  /\ Len(servers) <= Capacity
  /\ rows \in [1..Capacity ->
                 [refresh : 1..refresh, addr : Servers, measured : BOOLEAN] \cup {NoRow}]
  /\ shown \in 0..255
  /\ tick \in 0..(Wrap - 1) /\ lastQueryStep \in 0..(Wrap - 1) /\ since \in 0..(Wrap - 1)
  /\ pc \in {"game", "poll"} /\ lookedUp \in BOOLEAN
  /\ refresh \in 0..MaxRefreshes /\ contacted \subseteq Servers
  /\ early \subseteq Servers /\ released \in BOOLEAN

(* A server is asked once in a refresh for each time it is in the list,    *)
(* however its answers and the master's fall between the steps.            *)
AskedOnce == \A i \in 1..Len(servers) : servers[i].asked <= 1

(* The list is one the master's answers can make, and asked once through.  *)
ListAskedOnce == TypeOK /\ AskedOnce

(* Two steps that ask servers are StepTime apart, also across the wrap.    *)
StepsApart == [][contacted' # contacted => since >= StepTime]_vars

(* A row written in this refresh is that of the list entry with its        *)
(* number, however often the list has been emptied and filled before.      *)
RowsAreEntries ==
  \A i \in 1..Capacity : rows[i].refresh = refresh /\ refresh > 0 =>
    i <= Len(servers) /\ rows[i].addr = servers[i].addr

(* A row of this refresh shows the time since its server was asked in it.  *)
(* The exceptions: the address is in the list a second time and that entry *)
(* was not asked yet, which shows the time since nothing at all; and the   *)
(* server was asked in an earlier refresh, whose answer was late, or came  *)
(* twice, and shows the time since whoever stood in its place was asked.   *)
PingMeasured ==
  \A i \in 1..Capacity : rows[i].refresh = refresh /\ refresh > 0 =>
    \/ rows[i].measured
    \/ rows[i].addr \in early
    \/ \E j \in 1..Len(servers) : j # i /\ servers[j].addr = rows[i].addr

(* A row shows the server it stands for, and a time measured for it.       *)
RowsRight == RowsAreEntries /\ PingMeasured

(* Every server of the list is asked, unless the list is emptied before.   *)
EveryServerAsked ==
  \A n \in 1..MaxRefreshes, i \in 1..Capacity :
    refresh = n /\ Len(servers) >= i ~> refresh # n \/ i \in 1..Len(servers) \ Waiting

(* SteamMatchmakingServers002.cpp says of ReleaseRequest that it cancels   *)
(* any pending query.                                                      *)
ReleaseCancels ==
  [][released /\ released' => \A i \in 1..Len(servers) : servers'[i].asked = servers[i].asked]_vars
=============================================================================
