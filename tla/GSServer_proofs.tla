--------------------------- MODULE GSServer_proofs ---------------------------
(***************************************************************************)
(* Proofs about GSServer: the start and the heartbeats, for every wrap of  *)
(* the tick, interval and gap between frames, and the queries (GSQuery),   *)
(* for every set of clients and every number of slots and packets.         *)
(***************************************************************************)
EXTENDS GSServer, SequenceTheorems, FiniteSetTheorems, TLAPS

-----------------------------------------------------------------------------
(* The inductive invariants *)

(* What a started server owes to its first call; one that is not started   *)
(* told nobody that it is.                                                 *)
StartInv ==
  /\ TypeOK
  /\ initialized => inited
  /\ \A t \in told : t.ok => inited
  /\ inited =>
       \/ initialized
       \/ [queryPort |-> TRUE, ok |-> FALSE, at |-> "bind"] \in told
       \/ [queryPort |-> FALSE, ok |-> TRUE, at |-> "bind"] \in told

(* The deadline lies left ahead of the tick while there is time left to it *)
(* and it is not behind the wrap.                                          *)
LeftInv == left > 0 /\ nextHeartbeatTime >= Interval => tick + left = nextHeartbeatTime

(* How old the last heartbeat is when the deadline is ahead of the tick    *)
(* (Ahead), when no frame has come since the last heartbeat (Fresh: the    *)
(* deadline is 0 or behind the wrap), and when none has come since the     *)
(* deadline (Passed).                                                      *)
Ahead == tick < nextHeartbeatTime /\ age + (nextHeartbeatTime - tick) = Interval
Fresh ==
  /\ tick >= nextHeartbeatTime /\ age <= gap
  /\ nextHeartbeatTime = 0 \/ nextHeartbeatTime + Wrap = (tick - age) + Interval
Passed ==
  /\ tick >= nextHeartbeatTime /\ tick - nextHeartbeatTime < gap
  /\ age = Interval + (tick - nextHeartbeatTime)

Regular == nextHeartbeatTime <= Wrap - MaxGap

(* An active server has a deadline of one of these kinds; before the start *)
(* it has none but at once.                                                *)
BeatInv ==
  /\ TypeOK
  /\ LeftInv
  /\ masterActive /\ ~initialized => nextHeartbeatTime = 0
  /\ initialized /\ masterActive /\ lookedUp /\ Regular => Ahead \/ Fresh \/ Passed

-----------------------------------------------------------------------------
(* Arithmetic of the tick *)

(* A tick that advances by less than a turn wraps at most once.            *)
LEMMA TickWraps ==
  ASSUME NEW t \in 0..(Wrap - 1), NEW d \in 0..(Wrap - 1)
  PROVE  (t + d) % Wrap = IF t + d < Wrap THEN t + d ELSE (t + d) - Wrap
<1>1. Wrap \in Nat \ {0}
  BY TimeAssumption
<1>2. CASE t + d < Wrap
  BY <1>1, <1>2
<1>3. CASE t + d >= Wrap
  <2>1. (t + d) - Wrap \in 0..(Wrap - 1)
    BY <1>1, <1>3
  <2> QED
    BY <1>1, <1>3, <2>1
<1> QED
  BY <1>1, <1>2, <1>3

(* The deadline that is set now.                                           *)
LEMMA Deadline ==
  ASSUME TypeOK
  PROVE  /\ NextDeadline \in 0..(Wrap - 1)
         /\ NextDeadline = IF tick + Interval < Wrap THEN tick + Interval ELSE (tick + Interval) - Wrap
<1>1. Interval \in 0..(Wrap - 1) /\ tick \in 0..(Wrap - 1)
  BY TimeAssumption DEF TypeOK
<1>2. (tick + Interval) % Wrap = IF tick + Interval < Wrap THEN tick + Interval ELSE (tick + Interval) - Wrap
  BY <1>1, TickWraps
<1> QED
  BY <1>1, <1>2, TimeAssumption DEF NextDeadline

(* The tick after this one.                                                *)
LEMMA NextTick ==
  ASSUME TypeOK
  PROVE  /\ (tick + 1) % Wrap \in 0..(Wrap - 1)
         /\ (tick + 1) % Wrap = IF tick + 1 < Wrap THEN tick + 1 ELSE 0
<1>1. 1 \in 0..(Wrap - 1) /\ tick \in 0..(Wrap - 1)
  BY TimeAssumption DEF TypeOK
<1>2. (tick + 1) % Wrap = IF tick + 1 < Wrap THEN tick + 1 ELSE (tick + 1) - Wrap
  BY <1>1, TickWraps
<1> QED
  BY <1>1, <1>2, TimeAssumption
-----------------------------------------------------------------------------
(* Type correctness: TypeOK is inductive.                                  *)

LEMMA InitTypeOK == Init => TypeOK
<1> SUFFICES ASSUME Init PROVE TypeOK
  OBVIOUS
<1>1. /\ 0 \in 0..(Wrap - 1) /\ 0 \in 0..Late /\ 0 \in 0..Interval /\ 0 \in 0..MaxGap
  BY TimeAssumption DEF Late
<1>2. /\ inited \in BOOLEAN /\ initialized \in BOOLEAN /\ told = {}
      /\ masterActive \in BOOLEAN /\ lookedUp \in BOOLEAN
  BY DEF Init
<1> QED
  BY <1>1, <1>2 DEF Init, TypeOK

(* What GSServer_Init may come to: bound and true, or with a port not bound *)
(* and false, or without a port not bound and true.                        *)
LEMMA BindResult ==
  ASSUME NEW q \in BOOLEAN, NEW r \in BindResults(q)
  PROVE  /\ r.ok \in BOOLEAN /\ r.bound \in BOOLEAN
         /\ r.bound \/ (q = TRUE /\ r.ok = FALSE) \/ (q = FALSE /\ r.ok = TRUE)
<1>1. CASE q
  <2>1. PICK b \in BOOLEAN : r = [ok |-> b, bound |-> b]
    BY <1>1 DEF BindResults
  <2>2. r.ok = b /\ r.bound = b
    BY <2>1
  <2> QED
    BY <1>1, <2>2
<1>2. CASE ~q
  <2>1. r = [ok |-> TRUE, bound |-> FALSE]
    BY <1>2 DEF BindResults
  <2> QED
    BY <1>2, <2>1
<1> QED
  BY <1>1, <1>2

LEMMA NextTypeOK == TypeOK /\ [Next]_vars => TypeOK'
<1> SUFFICES ASSUME TypeOK, [Next]_vars PROVE TypeOK'
  OBVIOUS
<1> USE TimeAssumption DEF TypeOK, start, beat, time, queryVars
<1>1. CASE Tick
  BY <1>1, NextTick DEF Tick, Late
<1>2. CASE RunFrame
  <2>1. NextDeadline \in 0..(Wrap - 1)
    BY Deadline
  <2>2. CASE UNCHANGED beat /\ UNCHANGED <<age, left>>
    BY <1>2, <2>2 DEF RunFrame
  <2>3. ASSUME NEW found \in BOOLEAN, Heartbeat(found), UNCHANGED masterActive PROVE TypeOK'
    <3>1. /\ nextHeartbeatTime' \in 0..(Wrap - 1) /\ left' \in 0..Interval
          /\ age' \in 0..Late /\ gap' \in 0..MaxGap
      BY <1>2, <2>1, <2>3 DEF RunFrame, Heartbeat, Late
    <3>2. /\ inited' \in BOOLEAN /\ initialized' \in BOOLEAN
          /\ masterActive' \in BOOLEAN /\ lookedUp' \in BOOLEAN
      BY <1>2, <2>3 DEF RunFrame, Heartbeat
    <3> QED
      BY <1>2, <3>1, <3>2 DEF RunFrame
  <2> QED
    BY <1>2, <2>2, <2>3 DEF RunFrame
<1>3. CASE Arrive
  BY <1>3 DEF Arrive
<1>4. ASSUME NEW q \in BOOLEAN, SteamGameServer_Init(q) PROVE TypeOK'
  <2>1. ASSUME NEW ok \in BOOLEAN, NEW at \in {"login", "bind", "again"}, Told(q, ok, at)
        PROVE  told' \subseteq [queryPort : BOOLEAN, ok : BOOLEAN, at : {"login", "bind", "again"}]
    BY <2>1 DEF Told
  <2>2. CASE UNCHANGED <<inited, initialized, age>>
    BY <1>4, <2>1, <2>2 DEF SteamGameServer_Init
  <2>3. ASSUME NEW r \in BindResults(q), inited' = TRUE, Told(q, r.ok, "bind"),
               initialized' = r.bound, age' = IF r.bound THEN 0 ELSE age
        PROVE  TypeOK'
    <3>1. r.ok \in BOOLEAN /\ r.bound \in BOOLEAN
      BY BindResult
    <3> QED
      BY <1>4, <2>1, <2>3, <3>1 DEF SteamGameServer_Init, Late
  <2> QED
    BY <1>4, <2>2, <2>3 DEF SteamGameServer_Init
<1>5. ASSUME NEW active \in BOOLEAN, SetHeartbeatActive(active) PROVE TypeOK'
  <2>1. NextDeadline \in 0..(Wrap - 1)
    BY Deadline
  <2> QED
    BY <1>5, <2>1 DEF SetHeartbeatActive, Late
<1>6. CASE UNCHANGED vars
  BY <1>6 DEF vars
<1> QED
  BY <1>1, <1>2, <1>3, <1>4, <1>5, <1>6 DEF Next

-----------------------------------------------------------------------------
(* The start *)

LEMMA InitStart == Init => StartInv
BY InitTypeOK DEF Init, StartInv

LEMMA NextStart == StartInv /\ [Next]_vars => StartInv'
<1> SUFFICES ASSUME StartInv, [Next]_vars PROVE StartInv'
  OBVIOUS
<1>0. TypeOK'
  BY NextTypeOK DEF StartInv
<1>1. CASE UNCHANGED start
  BY <1>0, <1>1 DEF StartInv, start
<1>2. ASSUME NEW q \in BOOLEAN, SteamGameServer_Init(q) PROVE StartInv'
  <2>1. CASE inited /\ Told(q, TRUE, "again") /\ UNCHANGED <<inited, initialized, age>>
    BY <1>0, <2>1 DEF StartInv, Told
  <2>2. CASE ~inited /\ Told(q, FALSE, "login") /\ UNCHANGED <<inited, initialized, age>>
    BY <1>0, <2>2 DEF StartInv, Told
  <2>3. ASSUME NEW r \in BindResults(q), inited' = TRUE, Told(q, r.ok, "bind"), initialized' = r.bound
        PROVE  StartInv'
    <3>1. \/ r.bound
          \/ q = TRUE /\ r.ok = FALSE
          \/ q = FALSE /\ r.ok = TRUE
      BY BindResult
    <3>2. \/ initialized'
          \/ [queryPort |-> TRUE, ok |-> FALSE, at |-> "bind"] \in told'
          \/ [queryPort |-> FALSE, ok |-> TRUE, at |-> "bind"] \in told'
      BY <2>3, <3>1 DEF Told
    <3> QED
      BY <1>0, <2>3, <3>2 DEF StartInv
  <2> QED
    BY <1>2, <2>1, <2>2, <2>3 DEF SteamGameServer_Init
<1> QED
  BY <1>1, <1>2 DEF Next, vars, Tick, RunFrame, Arrive, SetHeartbeatActive

LEMMA StartIsRight == StartInv => StartRight
<1> SUFFICES ASSUME StartInv, NEW t \in told, t.queryPort = TRUE, t.ok = TRUE PROVE TrueMeansBound
  BY DEF StartInv, StartRight, TrueMeansBound
<1> QED
  BY DEF StartInv, TrueMeansBound

(* SteamGameServer_Init returns true for a query port only if the socket   *)
(* is bound, unless an earlier call had failed to bind or asked for no     *)
(* port; and every variable keeps its type.                                *)
THEOREM StartedRight == Spec => []StartRight
<1>1. Spec => []StartInv
  BY InitStart, NextStart, PTL DEF Spec
<1> QED
  BY <1>1, StartIsRight, PTL
-----------------------------------------------------------------------------
(* The heartbeats *)

(* A frame or a call that sets the deadline to now plus the interval.      *)
LEMMA DeadlineSet ==
  ASSUME TypeOK, TypeOK', nextHeartbeatTime' = NextDeadline, left' = Interval, tick' = tick
  PROVE  LeftInv' /\ (age' = 0 => (Ahead \/ Fresh)')
<1>1. nextHeartbeatTime' = IF tick + Interval < Wrap THEN tick + Interval ELSE (tick + Interval) - Wrap
  BY Deadline
<1>2. LeftInv'
  BY <1>1, TimeAssumption DEF TypeOK, LeftInv
<1>3. ASSUME age' = 0 PROVE (Ahead \/ Fresh)'
  BY <1>1, <1>3, TimeAssumption DEF TypeOK, Ahead, Fresh
<1> QED
  BY <1>2, <1>3

(* The deadline that is at once: any tick is behind it.                    *)
LEMMA AtOnce ==
  ASSUME TypeOK', nextHeartbeatTime' = 0
  PROVE  (left' = 0 => LeftInv') /\ (age' = 0 => Fresh')
<1>1. tick' \in Nat /\ gap' \in Nat
  BY TimeAssumption DEF TypeOK
<1>2. ASSUME left' = 0 PROVE LeftInv'
  BY <1>2 DEF LeftInv
<1>3. ASSUME age' = 0 PROVE Fresh'
  BY <1>1, <1>3 DEF Fresh
<1> QED
  BY <1>2, <1>3

(* Time passes.                                                            *)
LEMMA TickBeat == BeatInv /\ TypeOK' /\ Tick => BeatInv'
<1> SUFFICES ASSUME BeatInv, TypeOK', Tick PROVE BeatInv'
  OBVIOUS
<1>1. /\ tick' = IF tick + 1 < Wrap THEN tick + 1 ELSE 0
      /\ gap' = gap + 1 /\ gap < MaxGap
      /\ age' = IF age < Late THEN age + 1 ELSE age
      /\ left' = IF left > 0 THEN left - 1 ELSE left
      /\ UNCHANGED <<masterActive, nextHeartbeatTime, lookedUp, initialized>>
  BY NextTick DEF Tick, beat, start, BeatInv
<1>2. LeftInv'
  BY <1>1, TimeAssumption DEF BeatInv, LeftInv, TypeOK
<1>3. ASSUME Regular, Ahead PROVE (Ahead \/ Passed)'
  BY <1>1, <1>3, TimeAssumption DEF BeatInv, TypeOK, Ahead, Passed, Late
<1>4. ASSUME Regular, Fresh PROVE (Ahead \/ Fresh)'
  <2>1. age' = age + 1
    BY <1>1, <1>4, TimeAssumption DEF BeatInv, TypeOK, Fresh, Late
  <2>2. CASE tick + 1 < Wrap
    BY <1>1, <1>4, <2>1, <2>2 DEF BeatInv, TypeOK, Fresh
  <2>3. CASE tick + 1 = Wrap
    BY <1>1, <1>4, <2>1, <2>3, TimeAssumption DEF BeatInv, TypeOK, Fresh, Ahead
  <2> QED
    BY <2>2, <2>3, TimeAssumption DEF BeatInv, TypeOK
<1>5. ASSUME Regular, Passed PROVE Passed'
  BY <1>1, <1>5, TimeAssumption DEF BeatInv, TypeOK, Passed, Regular, Late
<1> QED
  BY <1>1, <1>2, <1>3, <1>4, <1>5 DEF BeatInv, Regular

(* A frame: it sends a heartbeat if the deadline is not ahead.             *)
LEMMA FrameBeat == BeatInv /\ TypeOK' /\ RunFrame => BeatInv'
<1> SUFFICES ASSUME BeatInv, TypeOK', RunFrame PROVE BeatInv'
  OBVIOUS
<1>1. gap' = 0 /\ UNCHANGED <<initialized, tick>>
  BY DEF RunFrame, start
<1>2. CASE ~initialized /\ UNCHANGED <<beat, age, left, queryVars>>
  BY <1>1, <1>2 DEF BeatInv, LeftInv, beat
<1>3. ASSUME initialized, masterActive, NEW found \in BOOLEAN, Heartbeat(found), UNCHANGED masterActive
      PROVE  BeatInv'
  <2>1. LeftInv' /\ (age' = 0 => (Ahead \/ Fresh)')
    BY <1>1, <1>3, DeadlineSet DEF BeatInv, Heartbeat
  <2>2. lookedUp' => age' = 0
    BY <1>3 DEF Heartbeat
  <2> QED
    BY <1>1, <1>3, <2>1, <2>2 DEF BeatInv
<1>4. CASE initialized /\ ~(masterActive /\ Due) /\ UNCHANGED <<beat, age, left>>
  <2>1. LeftInv' /\ UNCHANGED <<masterActive, nextHeartbeatTime, lookedUp, age>>
    BY <1>1, <1>4 DEF BeatInv, LeftInv, beat
  <2>2. ASSUME masterActive, lookedUp, Regular PROVE Ahead'
    <3>1. tick < nextHeartbeatTime
      BY <1>4, <2>2 DEF Due, BeatInv, TypeOK
    <3>2. Ahead
      BY <1>4, <2>2, <3>1, TimeAssumption DEF BeatInv, TypeOK, Fresh, Passed
    <3> QED
      BY <1>1, <2>1, <3>2 DEF Ahead
  <2> QED
    BY <1>1, <1>4, <2>1, <2>2 DEF BeatInv, Regular
<1> QED
  BY <1>2, <1>3, <1>4 DEF RunFrame

(* The game makes the server active or inactive.                           *)
LEMMA ActiveBeat ==
  ASSUME BeatInv, TypeOK', NEW active \in BOOLEAN, SetHeartbeatActive(active) PROVE BeatInv'
<1>1. masterActive' = active /\ UNCHANGED <<initialized, tick, gap>>
  BY DEF SetHeartbeatActive, start
<1>2. CASE active
  <2>1. nextHeartbeatTime' = 0 /\ left' = 0 /\ (lookedUp' => age' = 0)
    BY <1>2 DEF SetHeartbeatActive
  <2> QED
    BY <2>1, AtOnce DEF BeatInv
<1>3. CASE ~active /\ masterActive
  <2>1. nextHeartbeatTime' = NextDeadline /\ left' = Interval
    BY <1>3 DEF SetHeartbeatActive
  <2> QED
    BY <1>1, <1>3, <2>1, DeadlineSet DEF BeatInv
<1>4. CASE ~active /\ ~masterActive
  <2>1. UNCHANGED <<nextHeartbeatTime, left, tick>>
    BY <1>1, <1>4 DEF SetHeartbeatActive
  <2> QED
    BY <1>1, <1>4, <2>1 DEF BeatInv, LeftInv
<1> QED
  BY <1>2, <1>3, <1>4

(* The start of the server, from when its heartbeats count.                *)
LEMMA StartBeat ==
  ASSUME BeatInv, StartInv, TypeOK', NEW q \in BOOLEAN, SteamGameServer_Init(q) PROVE BeatInv'
<1>1. UNCHANGED <<masterActive, nextHeartbeatTime, lookedUp, tick, left, gap>>
  BY DEF SteamGameServer_Init, beat
<1>2. LeftInv'
  BY <1>1 DEF BeatInv, LeftInv
<1>3. CASE UNCHANGED <<inited, initialized, age>>
  BY <1>1, <1>2, <1>3 DEF BeatInv, Regular, Ahead, Fresh, Passed
<1>4. ASSUME ~inited, NEW r \in BindResults(q), initialized' = r.bound, age' = IF r.bound THEN 0 ELSE age
      PROVE  BeatInv'
  <2>1. masterActive => nextHeartbeatTime = 0
    BY <1>4 DEF BeatInv, StartInv
  <2>2. initialized' /\ masterActive' => Fresh'
    BY <1>1, <1>4, <2>1, AtOnce
  <2> QED
    BY <1>1, <1>2, <2>1, <2>2 DEF BeatInv
<1> QED
  BY <1>3, <1>4 DEF SteamGameServer_Init
LEMMA InitBeat == Init => BeatInv
BY InitTypeOK DEF Init, BeatInv, LeftInv

LEMMA NextBeat == StartInv /\ BeatInv /\ [Next]_vars => BeatInv'
<1> SUFFICES ASSUME StartInv, BeatInv, [Next]_vars PROVE BeatInv'
  OBVIOUS
<1>0. TypeOK'
  BY NextTypeOK DEF BeatInv
<1>1. CASE UNCHANGED <<start, beat, time>>
  BY <1>1 DEF start, beat, time, BeatInv, TypeOK, LeftInv, Regular, Ahead, Fresh, Passed
<1> QED
  BY <1>0, <1>1, TickBeat, FrameBeat, ActiveBeat, StartBeat DEF Next, vars, Arrive

LEMMA BeatHolds == Spec => [](StartInv /\ BeatInv)
<1>1. Init => StartInv /\ BeatInv
  BY InitStart, InitBeat
<1>2. StartInv /\ BeatInv /\ [Next]_vars => (StartInv /\ BeatInv)'
  BY NextStart, NextBeat
<1> QED
  BY <1>1, <1>2, PTL DEF Spec

(* Once the master server's address is known, an active server's last      *)
(* heartbeat is never older than an interval and a gap between frames,     *)
(* unless its deadline lies so near the wrap that a frame may miss it.     *)
THEOREM HeartbeatsKeepComing == Spec => []KeepsComing
<1>1. BeatInv => KeepsComing
  BY TimeAssumption DEF BeatInv, TypeOK, KeepsComing, Regular, Ahead, Fresh, Passed, Late
<1> QED
  BY <1>1, BeatHolds, PTL

(* No frame sends a heartbeat before its deadline unless the deadline lies *)
(* behind the wrap.                                                        *)
THEOREM HeartbeatsSpaced == Spec => SpacedUnlessWrapping
<1>1. ASSUME BeatInv, RunFrame, left # 0, nextHeartbeatTime >= Interval PROVE UNCHANGED nextHeartbeatTime
  <2>1. tick < nextHeartbeatTime
    BY <1>1, TimeAssumption DEF BeatInv, LeftInv, TypeOK
  <2>2. ~Due
    BY <2>1 DEF Due
  <2> QED
    BY <1>1, <2>2 DEF RunFrame, beat
<1>2. BeatInv /\ [Next]_vars => [RunFrame /\ left # 0 /\ nextHeartbeatTime >= Interval
                                   => UNCHANGED nextHeartbeatTime]_vars
  BY <1>1
<1> QED
  BY <1>2, BeatHolds, PTL DEF Spec, SpacedUnlessWrapping

-----------------------------------------------------------------------------
(* The queries *)

(* What comes in and what goes out.                                        *)
Packet == [from : Clients, kind : {"getinfo", "other"}]
Answer == [query : Nat, to : Clients, clients : Nat, max : Nat]

(* The inbox is the end of what arrived, from Reading on.                  *)
QueueInv ==
  /\ arrived \in Seq(Packet) /\ inbox \in Seq(Packet) /\ answers \in Seq(Answer)
  /\ Len(inbox) <= Len(arrived)
  /\ \A i \in 1..Len(inbox) : inbox[i] = arrived[(Reading - 1) + i]

QueryInv == QueueInv /\ AnswersRight

-----------------------------------------------------------------------------
(* How many players an answer shows *)

LEMMA SlotCounts ==
  ASSUME NEW S \in SUBSET (1..Slots)
  PROVE  /\ InGame(S \cap 1..PrivateClients) \in Nat
         /\ InGame(S \ 1..PrivateClients) \in 0..MaxClients
<1>1. Slots \in Nat /\ PrivateClients \in Nat /\ MaxClients \in Nat /\ Slots - PrivateClients <= MaxClients
  BY SlotsAssumption
<1>2. IsFiniteSet(1..PrivateClients)
  BY <1>1, FS_Interval
<1>3. /\ IsFiniteSet((PrivateClients + 1)..Slots)
      /\ Cardinality((PrivateClients + 1)..Slots) <= MaxClients
  <2>1. PrivateClients + 1 \in Int /\ Slots \in Int
    BY <1>1
  <2>2. /\ IsFiniteSet((PrivateClients + 1)..Slots)
        /\ Cardinality((PrivateClients + 1)..Slots) =
             IF PrivateClients + 1 > Slots THEN 0 ELSE Slots - (PrivateClients + 1) + 1
    BY <2>1, FS_Interval
  <2> QED
    BY <1>1, <2>2
<1>4. S \ 1..PrivateClients \in SUBSET ((PrivateClients + 1)..Slots)
  BY <1>1
<1>5. /\ IsFiniteSet(S \ 1..PrivateClients)
      /\ Cardinality(S \ 1..PrivateClients) <= Cardinality((PrivateClients + 1)..Slots)
  BY <1>3, <1>4, FS_Subset
<1>6. IsFiniteSet(S \cap 1..PrivateClients)
  <2>1. S \cap 1..PrivateClients \in SUBSET (1..PrivateClients)
    OBVIOUS
  <2> QED
    BY <1>2, <2>1, FS_Subset
<1>7. /\ Cardinality(S \ 1..PrivateClients) \in Nat /\ Cardinality(S \cap 1..PrivateClients) \in Nat
      /\ Cardinality((PrivateClients + 1)..Slots) \in Nat
  BY <1>3, <1>5, <1>6, FS_CardinalityType
<1> QED
  BY <1>1, <1>3, <1>5, <1>7 DEF InGame

LEMMA ResponseFits ==
  ASSUME QueueInv, NEW c \in Clients, NEW S \in SUBSET (1..Slots)
  PROVE  /\ InfoResponse(c, S) \in Answer
         /\ InfoResponse(c, S).query = Reading /\ InfoResponse(c, S).to = c
         /\ InfoResponse(c, S).clients <= InfoResponse(c, S).max
<1>1. Reading \in Nat
  BY LenProperties DEF QueueInv, Reading
<1>2. MaxClients \in Nat
  BY SlotsAssumption
<1> DEFINE p == InGame(S \cap 1..PrivateClients)   q == InGame(S \ 1..PrivateClients)
<1>3. p \in Nat /\ q \in 0..MaxClients
  BY SlotCounts
<1>4. InfoResponse(c, S) = [query |-> Reading, to |-> c, clients |-> p + q, max |-> p + MaxClients]
  BY DEF InfoResponse, ClientCount
<1> HIDE DEF p, q
<1>5. p + q \in Nat /\ p + MaxClients \in Nat /\ p + q <= p + MaxClients
  BY <1>2, <1>3
<1> QED
  BY <1>1, <1>4, <1>5 DEF Answer

-----------------------------------------------------------------------------
(* The invariant *)

LEMMA InitQuery == QueryInit => QueryInv
<1> SUFFICES ASSUME QueryInit PROVE QueryInv
  OBVIOUS
<1>1. arrived = <<>> /\ inbox = <<>> /\ answers = <<>>
  BY DEF QueryInit
<1>2. /\ arrived \in Seq(Packet) /\ inbox \in Seq(Packet) /\ answers \in Seq(Answer)
      /\ Len(arrived) = 0 /\ Len(inbox) = 0 /\ Len(answers) = 0
  BY <1>1, EmptySeq
<1> QED
  BY <1>2 DEF QueryInv, QueueInv, AnswersRight, AnsweredOnce, NotOverfull, Reading

(* A packet that arrives is read last.                                     *)
LEMMA ArriveQuery ==
  ASSUME QueryInv, NEW c \in Clients, NEW k \in {"getinfo", "other"}, ArriveFrom(c, k)
  PROVE  QueryInv'
<1> DEFINE p == [from |-> c, kind |-> k]
<1>1. p \in Packet
  BY DEF Packet
<1>2. /\ arrived \in Seq(Packet) /\ inbox \in Seq(Packet) /\ answers \in Seq(Answer)
      /\ arrived' = Append(arrived, p) /\ inbox' = Append(inbox, p) /\ answers' = answers
  BY DEF ArriveFrom, QueryInv, QueueInv
<1> HIDE DEF p
<1>3. /\ arrived' \in Seq(Packet) /\ Len(arrived') = Len(arrived) + 1
      /\ \A i \in 1..Len(arrived) : arrived'[i] = arrived[i]
      /\ arrived'[Len(arrived) + 1] = p
  BY <1>1, <1>2, AppendProperties
<1>4. /\ inbox' \in Seq(Packet) /\ Len(inbox') = Len(inbox) + 1
      /\ \A i \in 1..Len(inbox) : inbox'[i] = inbox[i]
      /\ inbox'[Len(inbox) + 1] = p
  BY <1>1, <1>2, AppendProperties
<1>5. Len(arrived) \in Nat /\ Len(inbox) \in Nat /\ Len(inbox) <= Len(arrived)
  BY <1>2, LenProperties DEF QueryInv, QueueInv
<1>6. Reading' = Reading /\ Reading = (Len(arrived) - Len(inbox)) + 1
  BY <1>3, <1>4, <1>5 DEF Reading
<1>7. QueueInv'
  <2>1. ASSUME NEW i \in 1..Len(inbox') PROVE inbox'[i] = arrived'[(Reading' - 1) + i]
    <3>1. CASE i <= Len(inbox)
      <4>1. i \in 1..Len(inbox)
        BY <1>4, <1>5, <3>1
      <4>2. PICK j : j = (Reading - 1) + i
        OBVIOUS
      <4>3. inbox[i] = arrived[j]
        BY <4>1, <4>2 DEF QueryInv, QueueInv
      <4>4. j \in 1..Len(arrived)
        BY <1>5, <1>6, <4>1, <4>2
      <4>5. inbox'[i] = inbox[i]
        BY <1>4, <4>1
      <4>6. arrived'[j] = arrived[j]
        BY <1>3, <4>4
      <4> QED
        BY <1>6, <4>2, <4>3, <4>5, <4>6
    <3>2. CASE i = Len(inbox) + 1
      BY <1>3, <1>4, <1>5, <1>6, <3>2
    <3> QED
      BY <1>4, <1>5, <3>1, <3>2
  <2>2. \A i \in 1..Len(inbox') : inbox'[i] = arrived'[(Reading' - 1) + i]
    BY <2>1
  <2>3. answers' \in Seq(Answer) /\ Len(inbox') <= Len(arrived')
    BY <1>2, <1>3, <1>4, <1>5
  <2> QED
    BY <1>3, <1>4, <2>2, <2>3 DEF QueueInv
<1>8. \A n \in 1..(Reading - 1) : arrived'[n] = arrived[n]
  BY <1>3, <1>5, <1>6
<1>9. AnsweredOnce'
  BY <1>2, <1>6, <1>8 DEF QueryInv, AnswersRight, AnsweredOnce
<1> QED
  BY <1>2, <1>7, <1>9 DEF QueryInv, AnswersRight, NotOverfull
(* The packet at the head is read, and answered if it asks.                *)
LEMMA PollQuery == QueryInv /\ PollSocket => QueryInv'
<1> SUFFICES ASSUME QueryInv, PollSocket PROVE QueryInv'
  OBVIOUS
<1>1. CASE UNCHANGED queryVars
  BY <1>1 DEF queryVars, QueryInv, QueueInv, AnswersRight, AnsweredOnce, NotOverfull, Reading
<1>2. CASE inbox # <<>>
  <2> DEFINE p == Head(inbox)
  <2>0. /\ arrived \in Seq(Packet) /\ inbox \in Seq(Packet) /\ answers \in Seq(Answer)
        /\ arrived' = arrived /\ inbox' = Tail(inbox)
    BY <1>2 DEF PollSocket, QueryInv, QueueInv
  <2>1. Len(arrived) \in Nat /\ Len(inbox) \in Nat \ {0} /\ Len(inbox) <= Len(arrived)
    BY <1>2, <2>0, LenProperties, EmptySeq DEF QueryInv, QueueInv
  <2>2. /\ p = inbox[1] /\ p \in Packet
        /\ inbox' \in Seq(Packet) /\ Len(inbox') = Len(inbox) - 1
        /\ \A i \in 1..Len(inbox') : inbox'[i] = inbox[i + 1]
    BY <1>2, <2>0, HeadTailProperties
  <2>3. /\ Reading = (Len(arrived) - Len(inbox)) + 1 /\ Reading \in 1..Len(arrived)
        /\ Reading' = Reading + 1 /\ arrived[Reading] = p
    <3>1. inbox[1] = arrived[(Reading - 1) + 1]
      BY <2>1 DEF QueryInv, QueueInv
    <3> QED
      BY <2>0, <2>1, <2>2, <3>1 DEF Reading
  <2>4. \A i \in 1..Len(inbox') : inbox'[i] = arrived'[(Reading' - 1) + i]
    <3> SUFFICES ASSUME NEW i \in 1..Len(inbox') PROVE inbox'[i] = arrived'[(Reading' - 1) + i]
      OBVIOUS
    <3>1. i + 1 \in 1..Len(inbox) /\ inbox'[i] = inbox[i + 1]
      BY <2>1, <2>2
    <3>2. inbox[i + 1] = arrived[(Reading - 1) + (i + 1)]
      BY <3>1 DEF QueryInv, QueueInv
    <3>3. (Reading - 1) + (i + 1) = (Reading' - 1) + i
      BY <2>1, <2>3
    <3> QED
      BY <2>0, <3>1, <3>2, <3>3
  <2>5. CASE p.kind # "getinfo" /\ answers' = answers
    <3>1. QueueInv'
      BY <2>0, <2>1, <2>2, <2>4, <2>5 DEF QueueInv
    <3>2. \A k \in 1..Len(answers') :
            LET n == answers'[k].query
            IN  n \in 1..(Reading' - 1) /\ arrived'[n] = [from |-> answers'[k].to, kind |-> "getinfo"]
      BY <2>0, <2>3, <2>5 DEF QueryInv, AnswersRight, AnsweredOnce
    <3>3. \A n \in 1..(Reading' - 1) : arrived'[n].kind = "getinfo" => n \in 1..(Reading - 1)
      BY <2>0, <2>3, <2>5
    <3>4. AnsweredOnce'
      BY <2>0, <2>5, <3>2, <3>3 DEF QueryInv, AnswersRight, AnsweredOnce
    <3> QED
      BY <2>5, <3>1, <3>4 DEF QueryInv, AnswersRight, NotOverfull
  <2>6. ASSUME p.kind = "getinfo", NEW S \in SUBSET (1..Slots),
               answers' = Append(answers, InfoResponse(Sender, S))
        PROVE  QueryInv'
    <3> DEFINE r == InfoResponse(Sender, S)
    <3>1. Sender = p.from /\ p.from \in Clients /\ p = [from |-> p.from, kind |-> "getinfo"]
      BY <2>2, <2>6 DEF Packet, Sender
    <3>2. r \in Answer /\ r.query = Reading /\ r.to = p.from /\ r.clients <= r.max
      BY <3>1, ResponseFits DEF QueryInv
    <3> HIDE DEF r, p
    <3>3. /\ answers' \in Seq(Answer) /\ Len(answers') = Len(answers) + 1
          /\ \A k \in 1..Len(answers) : answers'[k] = answers[k]
          /\ answers'[Len(answers) + 1] = r
      BY <2>0, <2>6, <3>2, AppendProperties DEF r
    <3>4. QueueInv'
      BY <2>0, <2>1, <2>2, <2>4, <3>3 DEF QueueInv
    <3>5. Len(answers) \in Nat
      BY <2>0, LenProperties
    <3>6. \A k \in 1..Len(answers') :
            LET n == answers'[k].query
            IN  n \in 1..(Reading' - 1) /\ arrived'[n] = [from |-> answers'[k].to, kind |-> "getinfo"]
      BY <2>0, <2>3, <3>1, <3>2, <3>3, <3>5 DEF QueryInv, AnswersRight, AnsweredOnce
    <3>7. \A k, l \in 1..Len(answers') : k < l => answers'[k].query < answers'[l].query
      <4> SUFFICES ASSUME NEW k \in 1..Len(answers'), NEW l \in 1..Len(answers'), k < l
                   PROVE  answers'[k].query < answers'[l].query
        OBVIOUS
      <4>0. k \in 1..Len(answers)
        BY <3>3, <3>5
      <4>1. k \in 1..Len(answers) /\ answers[k].query \in 1..(Reading - 1)
        BY <4>0 DEF QueryInv, AnswersRight, AnsweredOnce
      <4>2. CASE l \in 1..Len(answers)
        BY <3>3, <4>1, <4>2 DEF QueryInv, AnswersRight, AnsweredOnce
      <4>3. CASE l = Len(answers) + 1
        BY <2>3, <3>2, <3>3, <4>1, <4>3
      <4> QED
        BY <3>3, <3>5, <4>2, <4>3
    <3>8. \A n \in 1..(Reading' - 1) : arrived'[n].kind = "getinfo" =>
            \E k \in 1..Len(answers') : answers'[k].query = n
      <4> SUFFICES ASSUME NEW n \in 1..(Reading' - 1), arrived'[n].kind = "getinfo"
                   PROVE  \E k \in 1..Len(answers') : answers'[k].query = n
        OBVIOUS
      <4>1. CASE n = Reading
        BY <3>2, <3>3, <3>5, <4>1
      <4>2. CASE n \in 1..(Reading - 1)
        <5>1. PICK k \in 1..Len(answers) : answers[k].query = n
          BY <2>0, <4>2 DEF QueryInv, AnswersRight, AnsweredOnce
        <5> QED
          BY <3>3, <3>5, <5>1
      <4> QED
        BY <2>3, <4>1, <4>2
    <3>9. NotOverfull'
      BY <3>2, <3>3, <3>5 DEF QueryInv, AnswersRight, NotOverfull
    <3> QED
      BY <3>4, <3>6, <3>7, <3>8, <3>9 DEF QueryInv, AnswersRight, AnsweredOnce
  <2> QED
    BY <1>2, <2>5, <2>6 DEF PollSocket
<1> QED
  BY <1>1, <1>2 DEF PollSocket, queryVars

(* Whatever a query step is, it keeps the invariant.                       *)
LEMMA NextQuery == QueryInv /\ [QueryNext]_queryVars => QueryInv'
<1>1. QueryInv /\ UNCHANGED queryVars => QueryInv'
  BY DEF queryVars, QueryInv, QueueInv, AnswersRight, AnsweredOnce, NotOverfull, Reading
<1> QED
  BY <1>1, ArriveQuery, PollQuery DEF QueryNext, ArriveAny

(* Every packet read that asked got one answer, in the order of arrival,   *)
(* to the one who sent it, and no answer shows more players than slots.    *)
THEOREM QueriesAnsweredRight == QuerySpec => []AnswersRight
<1>1. QueryInv => AnswersRight
  BY DEF QueryInv
<1> QED
  BY InitQuery, NextQuery, <1>1, PTL DEF QuerySpec

(* A step of the server is one of its queries, or none: the server's       *)
(* behaviours, the fairness aside, are those of GSQuery.                   *)
THEOREM ServerAnswersQueries == Spec => QueryInit /\ [][QueryNext]_queryVars
<1>1. Init => QueryInit
  BY DEF Init
<1>2. [Next]_vars => [QueryNext]_queryVars
  <2> SUFFICES ASSUME [Next]_vars
               PROVE  QueryNext \/ UNCHANGED queryVars
    OBVIOUS
  <2>1. CASE Tick
    BY <2>1 DEF Tick
  <2>2. CASE RunFrame
    BY <2>2 DEF RunFrame, QueryNext
  <2>3. CASE Arrive
    BY <2>3 DEF Arrive, QueryNext
  <2>4. ASSUME NEW q \in BOOLEAN, SteamGameServer_Init(q) \/ SetHeartbeatActive(q)
        PROVE  UNCHANGED queryVars
    BY <2>4 DEF SteamGameServer_Init, SetHeartbeatActive
  <2>5. CASE UNCHANGED vars
    BY <2>5 DEF vars
  <2> QED
    BY <2>1, <2>2, <2>3, <2>4, <2>5 DEF Next
<1> QED
  BY <1>1, <1>2, PTL DEF Spec

(* So what a server that heartbeats, too, answers is right.                *)
THEOREM ServerAnswersRight == Spec => []AnswersRight
<1>1. QueryInv => AnswersRight
  BY DEF QueryInv
<1> QED
  BY ServerAnswersQueries, InitQuery, NextQuery, <1>1, PTL

=============================================================================
