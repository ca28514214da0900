------------------------------ MODULE GSServer ------------------------------
(***************************************************************************)
(* The dedicated server's side of the master server (Steam/GSServer.cpp)   *)
(* and its start (SteamGameServer_Init in Steam/steam_api.cpp): the socket *)
(* for queries and the heartbeat; GSQuery has the queries themselves.      *)
(* Everything runs on the game's main thread, one RunFrame per frame.      *)
(*                                                                         *)
(* GetTickCount is a 32-bit number of milliseconds; here a tick is a unit  *)
(* of time and wraps at Wrap. age, left and gap measure true time; age     *)
(* stops at Late, the first value that is too late.                        *)
(***************************************************************************)
EXTENDS Integers, GSQuery

CONSTANTS
  Wrap,           (* GetTickCount wraps here (2^32 ms)                      *)
  Interval,       (* HEARTBEAT_MSEC                                         *)
  MaxGap          (* the longest time between two frames                    *)

ASSUME TimeAssumption ==
  /\ Wrap \in Nat /\ Interval \in Nat /\ MaxGap \in Nat \ {0}
  /\ MaxGap < Interval /\ Interval + MaxGap < Wrap

Late == Interval + MaxGap

VARIABLES
  inited,             (* steamGS_Inited                                     *)
  initialized,        (* g_svs.initialized                                  *)
  masterActive,       (* g_svs.masterActive                                 *)
  nextHeartbeatTime,  (* g_svs.nextHeartbeatTime                            *)
  lookedUp,           (* lookedUp of GSServer_Heartbeat                     *)
  tick,               (* GetTickCount                                       *)
  age,                (* time since the last heartbeat, or since both flags
                         were first set                                     *)
  left,               (* time left to the deadline last set                 *)
  gap,                (* time since the last frame                          *)
  told                (* history: how calls of SteamGameServer_Init ended   *)

start   == <<inited, initialized, told>>
beat    == <<masterActive, nextHeartbeatTime, lookedUp>>
time    == <<tick, age, left, gap>>
vars    == <<start, beat, time, queryVars>>

Init ==
  /\ inited = FALSE /\ initialized = FALSE /\ told = {}
  /\ masterActive = FALSE /\ nextHeartbeatTime = 0 /\ lookedUp = FALSE
  /\ tick \in 0..(Wrap - 1) /\ age = 0 /\ left = 0 /\ gap = 0
  /\ QueryInit

-----------------------------------------------------------------------------
(* Time passes, but never more than MaxGap between two frames.             *)
Tick ==
  /\ gap < MaxGap
  /\ tick' = (tick + 1) % Wrap
  /\ gap' = gap + 1
  /\ age' = IF age < Late THEN age + 1 ELSE age
  /\ left' = IF left > 0 THEN left - 1 ELSE left
  /\ UNCHANGED <<start, beat, queryVars>>

-----------------------------------------------------------------------------
(* SteamGameServer_Init on a dedicated server. It fails before the flag is *)
(* set if the connection or the authentication does, after it if           *)
(* GSServer_Init cannot bind its socket to any of ten ports.               *)

(* Mutant: a port that is taken is no reason to fail.                      *)
BindResults_NeverFail(queryPort) == [ok : {TRUE}, bound : {FALSE, queryPort}]

(* GSServer_Init; queryPort: whether one is asked for.                     *)
BindResults(queryPort) ==
  IF queryPort THEN {[ok |-> b, bound |-> b] : b \in BOOLEAN}
               ELSE {[ok |-> TRUE, bound |-> FALSE]}

Told(queryPort, ok, at) == told' = told \cup {[queryPort |-> queryPort, ok |-> ok, at |-> at]}

SteamGameServer_Init(queryPort) ==
  /\ \/ /\ inited
        /\ Told(queryPort, TRUE, "again")
        /\ UNCHANGED <<inited, initialized, age>>
     \/ /\ ~inited
        /\ Told(queryPort, FALSE, "login")
        /\ UNCHANGED <<inited, initialized, age>>
     \/ /\ ~inited
        /\ inited' = TRUE
        /\ \E r \in BindResults(queryPort) :
             /\ Told(queryPort, r.ok, "bind")
             /\ initialized' = r.bound
             /\ age' = IF r.bound THEN 0 ELSE age
  /\ UNCHANGED <<beat, tick, left, gap, queryVars>>

-----------------------------------------------------------------------------
(* Heartbeats *)

(* Mutant: the interval is forgotten.                                      *)
NextDeadline_Now == tick

(* Mutant: the deadline is kept in more than 32 bits.                      *)
NextDeadline_Wide == tick + Interval

NextDeadline == (tick + Interval) % Wrap

(* A heartbeat that is due; found: the address of the master server is     *)
(* known, or looked up with success. The deadline is set before.           *)
Heartbeat(found) ==
  /\ lookedUp => found
  /\ nextHeartbeatTime' = NextDeadline /\ left' = Interval
  /\ lookedUp' = found
  /\ age' = IF found THEN 0 ELSE age

(* Mutant: a deadline that has come is waited for once more.               *)
Due_Strict == tick > nextHeartbeatTime

Due == ~(tick < nextHeartbeatTime)

(* SetActive, and SetBasicServerData with TRUE. An active server sends two *)
(* heartbeats at once, also when it is set inactive.                       *)
SetHeartbeatActive(active) ==
  /\ \/ /\ masterActive
        /\ \E found \in BOOLEAN :
             /\ lookedUp => found
             /\ lookedUp' = found
             /\ age' = IF found THEN 0 ELSE age
        /\ nextHeartbeatTime' = IF active THEN 0 ELSE NextDeadline
        /\ left' = IF active THEN 0 ELSE Interval
     \/ /\ ~masterActive
        /\ nextHeartbeatTime' = IF active THEN 0 ELSE nextHeartbeatTime
        /\ left' = IF active THEN 0 ELSE left
        /\ age' = IF active THEN 0 ELSE age
        /\ UNCHANGED lookedUp
  /\ masterActive' = active
  /\ UNCHANGED <<start, tick, gap, queryVars>>

-----------------------------------------------------------------------------
(* A packet reaches the bound socket.                                      *)
Arrive ==
  /\ initialized
  /\ ArriveAny
  /\ UNCHANGED <<start, beat, time>>

RunFrame ==
  /\ gap' = 0
  /\ \/ /\ ~initialized
        /\ UNCHANGED <<beat, age, left, queryVars>>
     \/ /\ initialized
        /\ PollSocket
        /\ \/ /\ masterActive /\ Due
              /\ \E found \in BOOLEAN : Heartbeat(found)
              /\ UNCHANGED masterActive
           \/ /\ ~(masterActive /\ Due)
              /\ UNCHANGED <<beat, age, left>>
  /\ UNCHANGED <<start, tick>>

Next ==
  \/ Tick \/ RunFrame \/ Arrive
  \/ \E q \in BOOLEAN : SteamGameServer_Init(q) \/ SetHeartbeatActive(q)

(* The game calls SteamGameServer_RunCallbacks in every frame.             *)
Spec == Init /\ [][Next]_vars /\ WF_vars(RunFrame)

-----------------------------------------------------------------------------
(* Properties *)

TypeOK ==
  /\ inited \in BOOLEAN /\ initialized \in BOOLEAN
  /\ told \subseteq [queryPort : BOOLEAN, ok : BOOLEAN, at : {"login", "bind", "again"}]
  /\ masterActive \in BOOLEAN /\ lookedUp \in BOOLEAN
  /\ nextHeartbeatTime \in 0..(Wrap - 1) /\ tick \in 0..(Wrap - 1)
  /\ age \in 0..Late /\ left \in 0..Interval /\ gap \in 0..MaxGap

(* SteamGameServer_Init returns true for a query port only if the socket   *)
(* is bound; unless an earlier call had passed the log-in and then failed  *)
(* to bind, or had not asked for a port: after it every call returns true. *)
TrueMeansBound ==
  [queryPort |-> TRUE, ok |-> TRUE] \in {[queryPort |-> t.queryPort, ok |-> t.ok] : t \in told} =>
    \/ initialized
    \/ [queryPort |-> TRUE, ok |-> FALSE, at |-> "bind"] \in told
    \/ [queryPort |-> FALSE, ok |-> TRUE, at |-> "bind"] \in told

(* The state is one the start can lead to, and its results say so.         *)
StartRight == TypeOK /\ TrueMeansBound

(* Once the master server's address is known, an active server sends a     *)
(* heartbeat in the first frame after each interval, so the time between   *)
(* two is shorter than an interval and a gap between frames; unless the    *)
(* deadline is so near the wrap that the tick may jump over it, from when  *)
(* on the server is silent for a whole turn of the tick.                   *)
KeepsComing ==
  initialized /\ masterActive /\ lookedUp =>
    age < Late \/ nextHeartbeatTime > Wrap - MaxGap

(* A frame sends no heartbeat before its deadline, unless the deadline lay *)
(* behind the wrap: then every frame up to the wrap sends one.             *)
SpacedUnlessWrapping ==
  [][RunFrame /\ left # 0 /\ nextHeartbeatTime >= Interval => UNCHANGED nextHeartbeatTime]_vars

(* GSServer.cpp says: if not time yet, don't send anything.                *)
NotBeforeTime ==
  [][RunFrame /\ left # 0 => UNCHANGED nextHeartbeatTime]_vars

=============================================================================
