------------------------------ MODULE bdServer ------------------------------
(***************************************************************************)
(* One LoopDW server object (DemonWare/bdServer.cpp, bdServerImpls.cpp,    *)
(* bdMessage.cpp): the two queues between the game and the emulator, the   *)
(* thread that serves them and the instant-message callback that writes to *)
(* the same reply stream.                                                  *)
(*                                                                         *)
(* Three threads touch the object:                                         *)
(*   game  calls dw_send / dw_recv through the patched winsock imports;    *)
(*   "dw"  is dw_thread: it pops one packet per pass and handles it;       *)
(*   "pm"  runs PM_RunCallBacks and, in it, dw_im_received: the thread     *)
(*         that calls SteamAPI_RunCallbacks, not always the one that uses  *)
(*         the hooks.                                                      *)
(*                                                                         *)
(* A packet is what one send() carries: a sequence of length-prefixed      *)
(* messages, of which only the kind matters here (Kinds). A reply is a     *)
(* frame of FrameLen bytes, pushed one byte at a time into outgoingQueue.  *)
(***************************************************************************)
EXTENDS Integers, Sequences, FiniteSets

CONSTANTS
  Packets,    (* the packets the game may send: sequences of Kinds          *)
  FrameLen,   (* number of bytes of a frame in the outgoing stream          *)
  RecvSizes,  (* the buffer lengths the game passes to recv                 *)
  MaxSends,   (* bound: packets sent in a behaviour                         *)
  MaxIMs      (* bound: instant messages received in a behaviour            *)

(***************************************************************************)
(* What handlePacket and handleMessage tell apart in a message:            *)
(*   "stop"    the length word is 0xC8: the rest of the packet is ignored  *)
(*   "empty"   the length word is <= 0: answered by four zero bytes        *)
(*   "ticket"  a type 7 request (bdLobbyService): never answered           *)
(*   "reply"   a request whose service sends one reply                     *)
(*   "silent"  a request no service handles, or whose service sends none   *)
(***************************************************************************)
Kinds == {"stop", "empty", "ticket", "reply", "silent"}

Breaks   == {"stop", "empty"}
Requests == Kinds \ Breaks

ASSUME PacketsAssumption   == Packets \subseteq Seq(Kinds)
ASSUME FrameLenAssumption  == FrameLen \in Nat \ {0}
ASSUME RecvSizesAssumption == RecvSizes \subseteq Nat \ {0}
ASSUME BoundsAssumption    == MaxSends \in Nat /\ MaxIMs \in Nat

Writers == {"dw", "pm"}
NoOne   == "none"

(* A frame of the outgoing stream: an answer names the message it answers  *)
(* (packet num, position idx), an instant message its own number.          *)
Sources == {"reply", "error", "empty", "im"}
Frame   == [src : Sources, num : Nat, idx : Nat]
Byte    == [frame : Frame, at : Nat]

Shorter(a, b) == IF a < b THEN a ELSE b

VARIABLES
  sent,           (* history: the packets passed to deferredHandlePacket    *)
  incomingQueue,  (* packets waiting for dw_thread                          *)
  outgoingQueue,  (* bytes waiting for the game                             *)
  received,       (* history: the bytes recv has returned                   *)
  critSec,        (* the thread inside critSec                              *)
  queuedPacket,   (* the member flag of the same name                       *)
  pc,             (* where each writer is                                   *)
  ret,            (* where dw_thread goes on after enqueuePacket            *)
  packet,         (* dw_thread: the packet being handled                    *)
  pos,            (* dw_thread: the message of it being handled             *)
  frame,          (* the frame each writer is pushing                       *)
  pushed,         (* the bytes of it already pushed                         *)
  ims,            (* instant messages received so far                       *)
  want,           (* game: length of the recv under way, 0 if none          *)
  lastRecv        (* game: what the last recv returned, -1 = WSAEWOULDBLOCK *)

queues == <<sent, incomingQueue, outgoingQueue, received>>
dwVars == <<ret, packet, pos>>
gVars  == <<want, lastRecv>>
vars   == <<queues, critSec, queuedPacket, pc, dwVars, frame, pushed, ims, gVars>>

-----------------------------------------------------------------------------
NoFrame == [src |-> "im", num |-> 0, idx |-> 0]

Init ==
  /\ sent = <<>> /\ incomingQueue = <<>>
  /\ outgoingQueue = <<>> /\ received = <<>>
  /\ critSec = NoOne
  /\ queuedPacket \in BOOLEAN          (* the constructor leaves it unset *)
  /\ pc = [t \in Writers |-> "idle"]
  /\ ret = "idle"
  /\ packet = [num |-> 0, frames |-> <<>>] /\ pos = 1
  /\ frame = [t \in Writers |-> NoFrame]
  /\ pushed = [t \in Writers |-> 0]
  /\ ims = 0
  /\ want = 0 /\ lastRecv = -1

-----------------------------------------------------------------------------
(* The game's calls *)

(* dw_send: deferredHandlePacket, one step because inCritSec is held.      *)
Send(p) ==
  /\ Len(sent) < MaxSends
  /\ sent' = Append(sent, p)
  /\ incomingQueue' = Append(incomingQueue, [num |-> Len(sent) + 1, frames |-> p])
  /\ UNCHANGED <<outgoingQueue, received, critSec, queuedPacket, pc, dwVars,
                 frame, pushed, ims, gVars>>

(* Mutant: recv does not ask isPacketAvailable first.                      *)
RecvCheck_Unchecked(n) ==
  /\ want = 0
  /\ want' = n
  /\ UNCHANGED <<queues, critSec, queuedPacket, pc, dwVars, frame, pushed, ims, lastRecv>>

(* dw_recv: the unlocked isPacketAvailable; WSAEWOULDBLOCK when it fails.  *)
RecvCheck(n) ==
  /\ want = 0
  /\ \/ /\ outgoingQueue # <<>>
        /\ want' = n /\ UNCHANGED lastRecv
     \/ /\ outgoingQueue = <<>>
        /\ lastRecv' = -1 /\ UNCHANGED want
  /\ UNCHANGED <<queues, critSec, queuedPacket, pc, dwVars, frame, pushed, ims>>

(* dequeuePacket: 0 if the queue is empty now, else what fits, under the   *)
(* lock.                                                                   *)
Dequeue ==
  /\ want # 0
  /\ critSec = NoOne \/ outgoingQueue = <<>>
  /\ LET toPop == Shorter(Len(outgoingQueue), want) IN
       /\ received' = received \o SubSeq(outgoingQueue, 1, toPop)
       /\ outgoingQueue' = SubSeq(outgoingQueue, toPop + 1, Len(outgoingQueue))
       /\ lastRecv' = toPop
  /\ want' = 0
  /\ UNCHANGED <<sent, incomingQueue, critSec, queuedPacket, pc, dwVars,
                 frame, pushed, ims>>

-----------------------------------------------------------------------------
(* enqueuePacket, run by either writer *)

(* A call of enqueuePacket with frame f. *)
StartFrame(t, f) ==
  /\ frame' = [frame EXCEPT ![t] = f]
  /\ pushed' = [pushed EXCEPT ![t] = 0]
  /\ pc' = [pc EXCEPT ![t] = "enter"]

(* Mutant: no EnterCriticalSection.                                        *)
Enter_NoLock(t) ==
  /\ pc[t] = "enter"
  /\ critSec' = t
  /\ pc' = [pc EXCEPT ![t] = "push"]
  /\ UNCHANGED <<queues, queuedPacket, dwVars, frame, pushed, ims, gVars>>

Enter(t) ==
  /\ pc[t] = "enter"
  /\ critSec = NoOne
  /\ critSec' = t
  /\ pc' = [pc EXCEPT ![t] = "push"]
  /\ UNCHANGED <<queues, queuedPacket, dwVars, frame, pushed, ims, gVars>>

(* Mutant: the loop runs to i <= len.                                      *)
Push_OffByOne(t) ==
  /\ pc[t] = "push"
  /\ pushed[t] <= FrameLen
  /\ outgoingQueue' = Append(outgoingQueue, [frame |-> frame[t], at |-> pushed[t] + 1])
  /\ pushed' = [pushed EXCEPT ![t] = @ + 1]
  /\ UNCHANGED <<sent, incomingQueue, received, critSec, queuedPacket, pc, dwVars,
                 frame, ims, gVars>>

Push(t) ==
  /\ pc[t] = "push"
  /\ pushed[t] < FrameLen
  /\ outgoingQueue' = Append(outgoingQueue, [frame |-> frame[t], at |-> pushed[t] + 1])
  /\ pushed' = [pushed EXCEPT ![t] = @ + 1]
  /\ UNCHANGED <<sent, incomingQueue, received, critSec, queuedPacket, pc, dwVars,
                 frame, ims, gVars>>

(* Mutant: no LeaveCriticalSection.                                        *)
Leave_KeepsLock(t) ==
  /\ pc[t] = "push"
  /\ pushed[t] = FrameLen
  /\ pc' = [pc EXCEPT ![t] = "mark"]
  /\ UNCHANGED <<queues, critSec, queuedPacket, dwVars, frame, pushed, ims, gVars>>

Leave(t) ==
  /\ pc[t] = "push"
  /\ pushed[t] = FrameLen
  /\ critSec' = NoOne
  /\ pc' = [pc EXCEPT ![t] = "mark"]
  /\ UNCHANGED <<queues, queuedPacket, dwVars, frame, pushed, ims, gVars>>

(* queuedPacket = true, outside the lock; dw_thread then returns into      *)
(* handleMessage ("check"), to the next message ("loop") or out of         *)
(* handlePacket ("idle").                                                  *)
Mark(t) ==
  /\ pc[t] = "mark"
  /\ queuedPacket' = TRUE
  /\ pc' = [pc EXCEPT ![t] = IF t = "dw" THEN ret ELSE "idle"]
  /\ pos' = IF t = "dw" /\ ret = "loop" THEN pos + 1 ELSE pos
  /\ UNCHANGED <<queues, critSec, ret, packet, frame, pushed, ims, gVars>>

-----------------------------------------------------------------------------
(* PM_RunCallBacks *)

(* dw_im_received builds a type 2 message and sends it to the LSG server.  *)
ImReceived ==
  /\ pc["pm"] = "idle"
  /\ ims < MaxIMs
  /\ ims' = ims + 1
  /\ StartFrame("pm", [src |-> "im", num |-> ims + 1, idx |-> 0])
  /\ UNCHANGED <<queues, critSec, queuedPacket, dwVars, gVars>>

-----------------------------------------------------------------------------
(* dw_thread *)

(* What the loop of handlePacket finds at pos.                             *)
Current == IF pos <= Len(packet.frames) THEN packet.frames[pos] ELSE "end"

Answer(s) == [src |-> s, num |-> packet.num, idx |-> pos]

(* Mutant: the newest packet is taken first.                               *)
ProcessQueues_Newest ==
  /\ pc["dw"] = "idle"
  /\ incomingQueue # <<>>
  /\ packet' = incomingQueue[Len(incomingQueue)]
  /\ incomingQueue' = SubSeq(incomingQueue, 1, Len(incomingQueue) - 1)
  /\ pos' = 1
  /\ pc' = [pc EXCEPT !["dw"] = "loop"]
  /\ UNCHANGED <<sent, outgoingQueue, received, critSec, queuedPacket, ret,
                 frame, pushed, ims, gVars>>

(* processQueues: the pop, one step because inCritSec is held and no other *)
(* thread pops.                                                            *)
ProcessQueues ==
  /\ pc["dw"] = "idle"
  /\ incomingQueue # <<>>
  /\ packet' = Head(incomingQueue)
  /\ incomingQueue' = Tail(incomingQueue)
  /\ pos' = 1
  /\ pc' = [pc EXCEPT !["dw"] = "loop"]
  /\ UNCHANGED <<sent, outgoingQueue, received, critSec, queuedPacket, ret,
                 frame, pushed, ims, gVars>>

(* handlePacket: the loop ends at the end of the packet or at 0xC8 ...     *)
EndOfPacket ==
  /\ pc["dw"] = "loop"
  /\ Current \in {"end", "stop"}
  /\ pc' = [pc EXCEPT !["dw"] = "idle"]
  /\ UNCHANGED <<queues, critSec, queuedPacket, dwVars, frame, pushed, ims, gVars>>

(* ... or, after four zero bytes in answer, at a length <= 0.              *)
EmptyMessage ==
  /\ pc["dw"] = "loop"
  /\ Current = "empty"
  /\ StartFrame("dw", Answer("empty"))
  /\ ret' = "idle"
  /\ UNCHANGED <<queues, critSec, queuedPacket, packet, pos, ims, gVars>>

(* Mutant: queuedPacket keeps its value from the message before.           *)
HandleMessage_NoReset ==
  /\ pc["dw"] = "loop"
  /\ Current \in Requests
  /\ pc' = [pc EXCEPT !["dw"] = "service"]
  /\ UNCHANGED <<queues, critSec, queuedPacket, dwVars, frame, pushed, ims, gVars>>

(* handleMessage up to the call of handleRequest.                          *)
HandleMessage ==
  /\ pc["dw"] = "loop"
  /\ Current \in Requests
  /\ queuedPacket' = FALSE
  /\ pc' = [pc EXCEPT !["dw"] = "service"]
  /\ UNCHANGED <<queues, critSec, dwVars, frame, pushed, ims, gVars>>

(* handleRequest: callService replies once, or not at all.                 *)
HandleRequest ==
  /\ pc["dw"] = "service"
  /\ \/ /\ Current = "reply"
        /\ StartFrame("dw", Answer("reply"))
        /\ ret' = "check"
     \/ /\ Current # "reply"
        /\ pc' = [pc EXCEPT !["dw"] = "check"]
        /\ UNCHANGED <<ret, frame, pushed>>
  /\ UNCHANGED <<queues, critSec, queuedPacket, packet, pos, ims, gVars>>

(* Mutant: the error is sent without looking at queuedPacket.              *)
NeedsError_Always == Current # "ticket"

(* The end of handleMessage: the fallback error, unless queuedPacket says  *)
(* that something was sent or the request was of type 7.                   *)
NeedsError == ~queuedPacket /\ Current # "ticket"

Fallback ==
  /\ pc["dw"] = "check"
  /\ \/ /\ NeedsError
        /\ StartFrame("dw", Answer("error"))
        /\ ret' = "loop"
        /\ UNCHANGED pos
     \/ /\ ~NeedsError
        /\ pc' = [pc EXCEPT !["dw"] = "loop"]
        /\ pos' = pos + 1
        /\ UNCHANGED <<ret, frame, pushed>>
  /\ UNCHANGED <<queues, critSec, queuedPacket, packet, ims, gVars>>

-----------------------------------------------------------------------------
EnqueuePacket(t) == Enter(t) \/ Push(t) \/ Leave(t) \/ Mark(t)

DwThread ==
  \/ ProcessQueues \/ EndOfPacket \/ EmptyMessage
  \/ HandleMessage \/ HandleRequest \/ Fallback
  \/ EnqueuePacket("dw")

Game ==
  \/ \E p \in Packets : Send(p)
  \/ \E n \in RecvSizes : RecvCheck(n)
  \/ Dequeue

Next == Game \/ DwThread \/ ImReceived \/ EnqueuePacket("pm")

(* dw_thread never ends and the callback returns once it is entered; the   *)
(* game need not send or read, and no message need arrive. A waiting       *)
(* thread does get critSec: it can be overtaken at most MaxIMs times.      *)
Fairness == WF_vars(DwThread) /\ WF_vars(EnqueuePacket("pm"))

Spec == Init /\ [][Next]_vars /\ Fairness

-----------------------------------------------------------------------------
(* The bytes written so far, the ones the game has read first.             *)
Stream == received \o outgoingQueue

IsAnswer(b) == b.frame.src # "im"

(* Messages of packet n that dw_thread reaches: those before a break.      *)
Reached(n) ==
  {i \in 1..Len(sent[n]) : \A j \in 1..i : sent[n][j] \notin Breaks}

(* Messages dw_thread is done with.                                        *)
Done ==
  UNION {{n} \X {i \in Reached(n) : n < packet.num \/ (n = packet.num /\ i < pos)}
           : n \in 1..Len(sent)}

Answered(n, i) ==
  \E k \in 1..Len(Stream) : LET b == Stream[k] IN
    IsAnswer(b) /\ b.frame.num = n /\ b.frame.idx = i

Missed == {m \in Done : sent[m[1]][m[2]] # "ticket" /\ ~Answered(m[1], m[2])}

(* Calls of dw_im_received that have set queuedPacket.                     *)
ImsMarked == ims - (IF pc["pm"] = "idle" THEN 0 ELSE 1)

-----------------------------------------------------------------------------
(* Properties *)

(* Each variable has the values the code gives it, and a frame never gets  *)
(* more than FrameLen bytes.                                               *)
TypeOK ==
  /\ sent \in Seq(Packets)
  /\ incomingQueue \in Seq([num : Nat, frames : Packets])
  /\ outgoingQueue \in Seq(Byte) /\ received \in Seq(Byte)
  /\ critSec \in Writers \cup {NoOne}
  /\ queuedPacket \in BOOLEAN
  /\ pc \in [Writers -> {"idle", "loop", "service", "check", "enter", "push", "mark"}]
  /\ ret \in {"idle", "loop", "check"}
  /\ packet \in [num : Nat, frames : Packets \cup {<<>>}]
  /\ pos \in Nat \ {0}
  /\ frame \in [Writers -> Frame]
  /\ pushed \in [Writers -> 0..FrameLen]
  /\ ims \in 0..MaxIMs
  /\ want \in RecvSizes \cup {0}
  /\ lastRecv \in Int

(* enqueuePacket's lock keeps frames whole: whatever the three threads do, *)
(* and wherever the game's reads cut the stream, the bytes of two frames   *)
(* are never interleaved, and only the last frame may be unfinished, then  *)
(* by the thread that holds critSec.                                       *)
WholeFrames ==
  \A k \in 1..Len(Stream) :
    LET b == Stream[k] IN
      /\ b.at > 1 => k > 1 /\ Stream[k - 1] = [b EXCEPT !.at = @ - 1]
      /\ b.at < FrameLen =>
           \/ k < Len(Stream) /\ Stream[k + 1] = [b EXCEPT !.at = @ + 1]
           \/ k = Len(Stream) /\ critSec # NoOne /\ frame[critSec] = b.frame

(* All answers carry the same transaction id (bdMessage.cpp:99), so the    *)
(* game can match them to its requests by order alone: the answers in the  *)
(* stream name strictly later messages from one to the next, hence no      *)
(* message is answered twice.                                              *)
Before(a, b) ==
  \/ a.frame.num < b.frame.num
  \/ a.frame.num = b.frame.num /\ a.frame.idx < b.frame.idx
  \/ a.frame = b.frame /\ a.at < b.at

RepliesInOrder ==
  \A k \in 1..Len(Stream) : \A l \in 1..(k - 1) :
    IsAnswer(Stream[k]) /\ IsAnswer(Stream[l]) => Before(Stream[l], Stream[k])

(* A request without an answer is possible only by an instant message that *)
(* set queuedPacket while the request was handled, and each instant        *)
(* message can silence one request at most.                                *)
MissedAtMostIMs == Cardinality(Missed) <= ImsMarked

(* recv on an emulated socket never returns 0, which would tell the game   *)
(* that the server closed the connection: what the unlocked check saw is   *)
(* still there when the lock is taken.                                     *)
RecvNeverZero == lastRecv # 0

(* "if we queued a packet during this thread iteration -> to send error    *)
(* messages back to prevent desync" (DW.h:82-83): when handleMessage is    *)
(* done with a request other than type 7, the stream holds its answer.     *)
EveryRequestAnswered == Missed = {}

(* Every packet the game sends is eventually taken, handled to its end,    *)
(* and dw_thread is back waiting for the next one.                         *)
PacketsServed ==
  \A n \in 1..MaxSends :
    Len(sent) >= n ~> packet.num > n \/ (packet.num = n /\ pc["dw"] = "idle")

(* The server keeps the promise RequestPipe states: a frame counts from    *)
(* its last byte on, a packet is served when dw_thread is idle again.      *)
Wire == [k \in 1..(Len(Stream) \div FrameLen) |-> Stream[k * FrameLen].frame]

Pipe == INSTANCE RequestPipe WITH
          submitted <- sent,
          served <- IF pc["dw"] = "idle" THEN packet.num ELSE packet.num - 1,
          wire <- Wire

ImplementsPipe == Pipe!Spec
=============================================================================
