-------------------------- MODULE bdServer_proofs --------------------------
(***************************************************************************)
(* Proofs about bdServer, for every set of packets, frame length, set of   *)
(* buffer lengths and bounds.                                              *)
(***************************************************************************)
EXTENDS bdServer, SequenceTheorems, FiniteSetTheorems, TLAPS

AllAssumptions ==
  /\ Packets \subseteq Seq(Kinds)
  /\ FrameLen \in Nat \ {0}
  /\ RecvSizes \subseteq Nat \ {0}
  /\ MaxSends \in Nat /\ MaxIMs \in Nat

-----------------------------------------------------------------------------
(* The constants are as their assumptions say. *)
LEMMA Constants == AllAssumptions
  BY PacketsAssumption, FrameLenAssumption, RecvSizesAssumption, BoundsAssumption
     DEF AllAssumptions

(* Initially every variable is in its type. *)
LEMMA InitTypeOK == Init => TypeOK
  BY Constants
     DEF AllAssumptions, Init, TypeOK, Writers, NoFrame, Frame, Sources, NoOne

(* Starting a frame keeps the writer's variables in their types. *)
LEMMA StartFrameType ==
  ASSUME TypeOK, NEW t \in Writers, NEW f \in Frame, StartFrame(t, f)
  PROVE  /\ pc' \in [Writers -> {"idle", "loop", "service", "check", "enter", "push", "mark"}]
         /\ frame' \in [Writers -> Frame]
         /\ pushed' \in [Writers -> 0..FrameLen]
  BY Constants DEF AllAssumptions, TypeOK, StartFrame

(* An answer of the message at pos is a frame. *)
LEMMA AnswerType ==
  ASSUME TypeOK, NEW s \in Sources
  PROVE  Answer(s) \in Frame
  BY DEF TypeOK, Answer, Frame

(* Each step of any thread keeps every variable in its type. *)
LEMMA NextTypeOK == TypeOK /\ [Next]_vars => TypeOK'
<1> SUFFICES ASSUME TypeOK, [Next]_vars PROVE TypeOK'
  OBVIOUS
<1> USE Constants DEF AllAssumptions
<1>1. ASSUME NEW p \in Packets, Send(p) PROVE TypeOK'
  BY <1>1 DEF Send, TypeOK, dwVars, gVars
<1>2. ASSUME NEW n \in RecvSizes, RecvCheck(n) PROVE TypeOK'
  BY <1>2 DEF RecvCheck, TypeOK, queues, dwVars
<1>3. CASE Dequeue
  <2> DEFINE k == Shorter(Len(outgoingQueue), want)
  <2>1. k \in Nat /\ k <= Len(outgoingQueue)
    BY DEF TypeOK, Shorter
  <2>2. /\ SubSeq(outgoingQueue, 1, k) \in Seq(Byte)
        /\ SubSeq(outgoingQueue, k + 1, Len(outgoingQueue)) \in Seq(Byte)
    BY <2>1 DEF TypeOK
  <2>3. outgoingQueue' \in Seq(Byte) /\ received' \in Seq(Byte) /\ lastRecv' \in Int
    BY <1>3, <2>1, <2>2 DEF Dequeue, TypeOK
  <2> QED
    BY <1>3, <2>3 DEF Dequeue, TypeOK, dwVars
<1>4. ASSUME NEW t \in Writers, EnqueuePacket(t) PROVE TypeOK'
  <2>1. CASE Enter(t)
    BY <2>1 DEF Enter, TypeOK, queues, dwVars, gVars
  <2>2. CASE Push(t)
    <3>1. [frame |-> frame[t], at |-> pushed[t] + 1] \in Byte
      BY DEF TypeOK, Byte
    <3>2. pushed[t] + 1 \in 0..FrameLen
      BY <2>2 DEF Push, TypeOK
    <3> QED
      BY <2>2, <3>1, <3>2 DEF Push, TypeOK, dwVars, gVars
  <2>3. CASE Leave(t)
    BY <2>3 DEF Leave, TypeOK, queues, dwVars, gVars, NoOne
  <2>4. CASE Mark(t)
    BY <2>4 DEF Mark, TypeOK, queues, gVars
  <2> QED
    BY <1>4, <2>1, <2>2, <2>3, <2>4 DEF EnqueuePacket
<1>5. CASE ImReceived
  <2>1. [src |-> "im", num |-> ims + 1, idx |-> 0] \in Frame /\ "pm" \in Writers
    BY DEF TypeOK, Frame, Sources, Writers
  <2>2. ims' \in 0..MaxIMs
    BY <1>5 DEF ImReceived, TypeOK
  <2> QED
    BY <1>5, <2>1, <2>2, StartFrameType DEF ImReceived, TypeOK, queues, dwVars, gVars
<1>6. CASE ProcessQueues
  <2> DEFINE Item == [num : Nat, frames : Packets]
  <2>1. /\ incomingQueue \in Seq(Item) /\ incomingQueue # <<>>
        /\ packet' = Head(incomingQueue) /\ incomingQueue' = Tail(incomingQueue)
    BY <1>6 DEF ProcessQueues, TypeOK
  <2>2. packet' \in Item /\ incomingQueue' \in Seq(Item)
    <3> HIDE DEF Item
    <3> QED BY <2>1
  <2>3. packet' \in [num : Nat, frames : Packets \cup {<<>>}]
    BY <2>2
  <2>4. pc' \in [Writers -> {"idle", "loop", "service", "check", "enter", "push", "mark"}]
    BY <1>6 DEF ProcessQueues, TypeOK
  <2>5. /\ pos' = 1
        /\ UNCHANGED <<sent, outgoingQueue, received, critSec, queuedPacket, ret,
                       frame, pushed, ims, gVars>>
    BY <1>6 DEF ProcessQueues
  <2> QED
    BY <2>2, <2>3, <2>4, <2>5 DEF TypeOK, gVars
<1>7. CASE EndOfPacket
  BY <1>7 DEF EndOfPacket, TypeOK, queues, dwVars, gVars
<1>8. CASE EmptyMessage
  <2>1. Answer("empty") \in Frame /\ "dw" \in Writers
    BY AnswerType DEF Sources, Writers
  <2> QED
    BY <1>8, <2>1, StartFrameType DEF EmptyMessage, TypeOK, queues, gVars
<1>9. CASE HandleMessage
  BY <1>9 DEF HandleMessage, TypeOK, queues, dwVars, gVars
<1>10. CASE HandleRequest
  <2>1. Answer("reply") \in Frame /\ "dw" \in Writers
    BY AnswerType DEF Sources, Writers
  <2>2. CASE StartFrame("dw", Answer("reply")) /\ ret' = "check"
    BY <1>10, <2>1, <2>2, StartFrameType DEF HandleRequest, TypeOK, queues, gVars
  <2>3. CASE pc' = [pc EXCEPT !["dw"] = "check"] /\ UNCHANGED <<ret, frame, pushed>>
    BY <1>10, <2>3 DEF HandleRequest, TypeOK, queues, gVars
  <2> QED
    BY <1>10, <2>2, <2>3 DEF HandleRequest
<1>11. CASE Fallback
  <2>1. Answer("error") \in Frame /\ "dw" \in Writers
    BY AnswerType DEF Sources, Writers
  <2>2. CASE StartFrame("dw", Answer("error")) /\ ret' = "loop" /\ UNCHANGED pos
    BY <1>11, <2>1, <2>2, StartFrameType DEF Fallback, TypeOK, queues, gVars
  <2>3. CASE pc' = [pc EXCEPT !["dw"] = "loop"] /\ pos' = pos + 1
             /\ UNCHANGED <<ret, frame, pushed>>
    <3>1. pos' \in Nat \ {0}
      BY <2>3 DEF TypeOK
    <3>2. pc' \in [Writers -> {"idle", "loop", "service", "check", "enter", "push", "mark"}]
      BY <2>3 DEF TypeOK
    <3>3. UNCHANGED <<queues, critSec, queuedPacket, packet, ims, gVars, ret, frame, pushed>>
      BY <1>11, <2>3 DEF Fallback
    <3> QED
      BY <3>1, <3>2, <3>3 DEF TypeOK, queues, gVars
  <2> QED
    BY <1>11, <2>2, <2>3 DEF Fallback
<1>12. CASE UNCHANGED vars
  BY <1>12 DEF vars, TypeOK, queues, dwVars, gVars
<1> QED
  BY <1>1, <1>2, <1>3, <1>4, <1>5, <1>6, <1>7, <1>8, <1>9, <1>10, <1>11, <1>12
     DEF Next, Game, DwThread, Writers

(* Type correctness: the variables keep the types TypeOK gives them, and   *)
(* no frame gets more than FrameLen bytes.                                 *)
THEOREM TypeCorrect == Spec => []TypeOK
  BY InitTypeOK, NextTypeOK, PTL DEF Spec

-----------------------------------------------------------------------------
(* The inductive invariant behind the safety theorems.                     *)

(* critSec belongs to the thread inside enqueuePacket's loop, and a frame  *)
(* has no bytes before the loop and all of them after it.                  *)
LockInv ==
  /\ \A t \in Writers : pc[t] = "push" <=> critSec = t
  /\ \A t \in Writers : pc[t] = "enter" => pushed[t] = 0

(* What isPacketAvailable saw stays there.                                 *)
RecvInv ==
  /\ want # 0 => outgoingQueue # <<>>
  /\ lastRecv # 0

(* The stream ends with a whole frame unless the owner of critSec has      *)
(* begun one, and then with that frame's last byte so far.                 *)
EndInv ==
  /\ Stream # <<>> /\ (critSec = NoOne \/ pushed[critSec] = 0)
       => Stream[Len(Stream)].at = FrameLen
  /\ critSec # NoOne /\ pushed[critSec] # 0
       => /\ Stream # <<>>
          /\ Stream[Len(Stream)] = [frame |-> frame[critSec], at |-> pushed[critSec]]

(* Packets are numbered in the order of incomingQueue.                     *)
NumberInv ==
  /\ packet.num + Len(incomingQueue) = Len(sent)
  /\ \A i \in 1..Len(incomingQueue) : incomingQueue[i].num = packet.num + i

(* dw_thread pushes the answer to the message at pos, the callback an      *)
(* instant message.                                                        *)
FrameInv ==
  /\ pc["dw"] \in {"enter", "push", "mark"} =>
       /\ frame["dw"].src # "im"
       /\ frame["dw"].num = packet.num /\ frame["dw"].idx = pos
  /\ frame["pm"].src = "im"

(* Every answer is to a message dw_thread has passed, or to the one at pos *)
(* once its answer is being pushed, and then queuedPacket stays set until  *)
(* it has been looked at.                                                  *)
PastInv ==
  \A k \in 1..Len(Stream) : IsAnswer(Stream[k]) =>
    LET f == Stream[k].frame IN
      \/ f.num < packet.num
      \/ f.num = packet.num /\ f.idx < pos
      \/ /\ f.num = packet.num /\ f.idx = pos
         /\ \/ pc["dw"] \in {"push", "mark"} /\ f = frame["dw"]
                /\ Stream[k].at <= pushed["dw"]
            \/ pc["dw"] = "check" /\ queuedPacket
            \/ pc["dw"] = "idle"

Inv == TypeOK /\ LockInv /\ RecvInv /\ EndInv /\ NumberInv /\ FrameInv /\ PastInv

-----------------------------------------------------------------------------
(* How the steps change the stream.                                        *)

LEMMA StreamType == TypeOK => Stream \in Seq(Byte)
  BY DEF TypeOK, Stream

(* Pushing a byte appends it to the stream.                                *)
LEMMA PushStream ==
  ASSUME TypeOK, NEW t \in Writers, Push(t)
  PROVE  LET b == [frame |-> frame[t], at |-> pushed[t] + 1] IN
           /\ b \in Byte
           /\ Stream' = Append(Stream, b)
           /\ Len(Stream') = Len(Stream) + 1
           /\ Stream'[Len(Stream) + 1] = b
           /\ \A k \in 1..Len(Stream) : Stream'[k] = Stream[k]
<1> DEFINE b == [frame |-> frame[t], at |-> pushed[t] + 1]
<1>1. b \in Byte
  BY Constants DEF AllAssumptions, TypeOK, Byte
<1>2. received \in Seq(Byte) /\ outgoingQueue \in Seq(Byte)
  BY DEF TypeOK
<1>3. received' = received /\ outgoingQueue' = Append(outgoingQueue, b)
  BY DEF Push
<1> HIDE DEF b
<1>4. received \o Append(outgoingQueue, b) = Append(received \o outgoingQueue, b)
  BY <1>1, <1>2
<1>5. Stream' = Append(Stream, b)
  BY <1>3, <1>4 DEF Stream
<1>6. /\ Len(Stream') = Len(Stream) + 1
      /\ Stream'[Len(Stream) + 1] = b
      /\ \A k \in 1..Len(Stream) : Stream'[k] = Stream[k]
  BY <1>1, <1>5, StreamType
<1> QED
  BY <1>1, <1>5, <1>6 DEF b

(* A sequence is what it was when cut in two and put together.             *)
LEMMA SplitSeq ==
  ASSUME NEW S, NEW q \in Seq(S), NEW k \in 0..Len(q)
  PROVE  SubSeq(q, 1, k) \o SubSeq(q, k + 1, Len(q)) = q
<1>1. /\ 1 \in 1..Len(q) + 1
      /\ k \in (1 - 1)..Len(q)
      /\ Len(q) \in k..Len(q)
  OBVIOUS
<1>2. SubSeq(q, 1, k) \o SubSeq(q, k + 1, Len(q)) = SubSeq(q, 1, Len(q))
  BY <1>1, ConcatAdjacentSubSeq
<1> QED
  BY <1>2, SubSeqFull

(* Reading moves bytes from one part of the stream to the other.           *)
LEMMA DequeueStream ==
  ASSUME TypeOK, Dequeue
  PROVE  Stream' = Stream
<1> DEFINE q == outgoingQueue
           k == Shorter(Len(q), want)
<1>1. k \in 0..Len(q)
  BY Constants DEF AllAssumptions, TypeOK, Shorter
<1>2. received \in Seq(Byte) /\ q \in Seq(Byte)
  BY DEF TypeOK
<1>3. \A i \in 0..Len(q) : SubSeq(q, 1, i) \o SubSeq(q, i + 1, Len(q)) = q
  <2> HIDE DEF q
  <2> QED BY <1>2, SplitSeq
<1>4. received' = received \o SubSeq(q, 1, k) /\ outgoingQueue' = SubSeq(q, k + 1, Len(q))
  BY DEF Dequeue
<1> HIDE DEF k
<1>5. SubSeq(q, 1, k) \in Seq(Byte) /\ SubSeq(q, k + 1, Len(q)) \in Seq(Byte)
  BY <1>1, <1>2
<1>6. SubSeq(q, 1, k) \o SubSeq(q, k + 1, Len(q)) = q
  BY <1>1, <1>3
<1>7. Stream' = received \o (SubSeq(q, 1, k) \o SubSeq(q, k + 1, Len(q)))
  <2> DEFINE a == SubSeq(q, 1, k)
             b == SubSeq(q, k + 1, Len(q))
  <2>1. Stream' = (received \o a) \o b
    BY <1>4 DEF Stream
  <2>2. received \in Seq(Byte) /\ a \in Seq(Byte) /\ b \in Seq(Byte)
    BY <1>2, <1>5
  <2> HIDE DEF a, b
  <2>3. (received \o a) \o b = received \o (a \o b)
    BY <2>2, ConcatAssociative
  <2> QED
    BY <2>1, <2>3 DEF a, b
<1> QED
  BY <1>6, <1>7 DEF Stream

(* Every other step leaves the stream alone.                               *)
LEMMA OtherStream ==
  ASSUME [Next]_vars, ~Dequeue, \A t \in Writers : ~Push(t)
  PROVE  Stream' = Stream
<1>1. outgoingQueue' = outgoingQueue /\ received' = received
  BY DEF Next, Game, DwThread, EnqueuePacket, Writers, vars, queues, gVars, dwVars,
         Send, RecvCheck, Enter, Leave, Mark, ImReceived, ProcessQueues,
         EndOfPacket, EmptyMessage, HandleMessage, HandleRequest, Fallback
<1> QED
  BY <1>1 DEF Stream

-----------------------------------------------------------------------------
(* Initially the invariant holds.                                          *)
LEMMA InitInv == Init => Inv
<1> SUFFICES ASSUME Init PROVE Inv
  OBVIOUS
<1>1. Stream = <<>> /\ Len(Stream) = 0
  BY DEF Init, Stream
<1>2. TypeOK
  BY InitTypeOK
<1>3. LockInv /\ RecvInv /\ FrameInv
  BY Constants DEF Init, LockInv, RecvInv, FrameInv, Writers, NoOne, NoFrame
<1>4. EndInv /\ PastInv
  BY <1>1 DEF Init, EndInv, PastInv
<1>5. NumberInv
  BY DEF Init, NumberInv
<1> QED
  BY <1>2, <1>3, <1>4, <1>5 DEF Inv

(* The steps of a writer that are not its lock steps neither take nor      *)
(* release critSec.                                                        *)
LEMMA LockStep == Inv /\ [Next]_vars => LockInv'
<1> SUFFICES ASSUME TypeOK, LockInv, [Next]_vars PROVE LockInv'
  BY DEF Inv
<1> USE DEF LockInv, TypeOK, Writers, NoOne
<1>1. ASSUME NEW p \in Packets, Send(p) PROVE LockInv'
  BY <1>1 DEF Send
<1>2. ASSUME NEW n \in RecvSizes, RecvCheck(n) PROVE LockInv'
  BY <1>2 DEF RecvCheck
<1>3. CASE Dequeue
  BY <1>3 DEF Dequeue
<1>4. ASSUME NEW t \in Writers, Enter(t) PROVE LockInv'
  BY <1>4 DEF Enter
<1>5. ASSUME NEW t \in Writers, Push(t) PROVE LockInv'
  BY <1>5 DEF Push
<1>6. ASSUME NEW t \in Writers, Leave(t) PROVE LockInv'
  BY <1>6 DEF Leave
<1>7. ASSUME NEW t \in Writers, Mark(t) PROVE LockInv'
  BY <1>7 DEF Mark
<1>8. CASE ImReceived
  BY <1>8 DEF ImReceived, StartFrame
<1>9. CASE ProcessQueues
  BY <1>9 DEF ProcessQueues
<1>10. CASE EndOfPacket
  BY <1>10 DEF EndOfPacket
<1>11. CASE EmptyMessage
  BY <1>11 DEF EmptyMessage, StartFrame
<1>12. CASE HandleMessage
  BY <1>12 DEF HandleMessage
<1>13. CASE HandleRequest
  BY <1>13 DEF HandleRequest, StartFrame
<1>14. CASE Fallback
  BY <1>14 DEF Fallback, StartFrame
<1>15. CASE UNCHANGED vars
  BY <1>15 DEF vars
<1> QED
  BY <1>1, <1>2, <1>3, <1>4, <1>5, <1>6, <1>7, <1>8, <1>9, <1>10, <1>11, <1>12,
     <1>13, <1>14, <1>15 DEF Next, Game, DwThread, EnqueuePacket

(* The queue only grows between the check and the read.                    *)
LEMMA RecvStep == Inv /\ [Next]_vars => RecvInv'
<1> SUFFICES ASSUME TypeOK, RecvInv, [Next]_vars PROVE RecvInv'
  BY DEF Inv
<1> USE DEF RecvInv
<1>1. ASSUME NEW n \in RecvSizes, RecvCheck(n) PROVE RecvInv'
  BY <1>1 DEF RecvCheck, queues
<1>2. CASE Dequeue
  <2>1. Shorter(Len(outgoingQueue), want) # 0
    BY <1>2, Constants DEF AllAssumptions, Dequeue, TypeOK, Shorter
  <2> QED
    BY <1>2, <2>1 DEF Dequeue
<1>3. ASSUME NEW t \in Writers, Push(t) PROVE RecvInv'
  <2>1. outgoingQueue \in Seq(Byte)
    BY DEF TypeOK
  <2>2. \A b : Append(outgoingQueue, b) # <<>>
    BY <2>1
  <2> QED
    BY <1>3, <2>2 DEF Push, gVars
<1>4. CASE UNCHANGED <<outgoingQueue, want, lastRecv>>
  BY <1>4
<1> QED
  BY <1>1, <1>2, <1>3, <1>4 DEF Next, Game, DwThread, EnqueuePacket, Writers, vars,
     queues, gVars, dwVars, Send, Enter, Leave, Mark, ImReceived, ProcessQueues,
     EndOfPacket, EmptyMessage, HandleMessage, HandleRequest, Fallback

(* A step that neither pushes nor moves critSec, nor touches the owner's   *)
(* frame, keeps the end of the stream.                                     *)
LEMMA EndStep == Inv /\ [Next]_vars => EndInv'
<1> SUFFICES ASSUME TypeOK, LockInv, EndInv, [Next]_vars PROVE EndInv'
  BY DEF Inv
<1> USE Constants DEF AllAssumptions
<1>0. Stream \in Seq(Byte)
  BY StreamType
<1>1. ASSUME NEW t \in Writers, Enter(t) PROVE EndInv'
  <2>1. Stream' = Stream /\ critSec = NoOne /\ critSec' = t
    BY <1>1 DEF Enter, Stream, queues
  <2>2. pushed'[t] = 0 /\ t # NoOne
    BY <1>1 DEF Enter, LockInv, Writers, NoOne
  <2> QED
    BY <2>1, <2>2 DEF EndInv
<1>2. ASSUME NEW t \in Writers, Push(t) PROVE EndInv'
  <2> DEFINE b == [frame |-> frame[t], at |-> pushed[t] + 1]
  <2>1. critSec = t /\ critSec' = t /\ frame' = frame /\ t # NoOne
    BY <1>2 DEF Push, LockInv, Writers, NoOne
  <2>2. pushed'[t] = pushed[t] + 1 /\ pushed'[t] # 0
    BY <1>2 DEF Push, TypeOK
  <2>3. Len(Stream') = Len(Stream) + 1 /\ Stream'[Len(Stream) + 1] = b
    BY <1>2, PushStream
  <2>4. Stream' # <<>>
    BY <1>0, <2>3
  <2> QED
    BY <2>1, <2>2, <2>3, <2>4 DEF EndInv
<1>3. ASSUME NEW t \in Writers, Leave(t) PROVE EndInv'
  <2>1. critSec = t /\ pushed[t] = FrameLen /\ critSec' = NoOne /\ Stream' = Stream
    BY <1>3 DEF Leave, LockInv, Stream, queues
  <2>2. t # NoOne /\ pushed[t] # 0
    BY <2>1 DEF Writers, NoOne
  <2>3. Stream[Len(Stream)].at = FrameLen
    BY <2>1, <2>2 DEF EndInv
  <2> QED
    BY <2>1, <2>3 DEF EndInv
<1>4. ASSUME Stream' = Stream, critSec' = critSec,
             critSec # NoOne => /\ pushed'[critSec] = pushed[critSec]
                                /\ frame'[critSec] = frame[critSec]
      PROVE EndInv'
  BY <1>4 DEF EndInv
<1>5. CASE Dequeue
  BY <1>4, <1>5, DequeueStream DEF Dequeue
<1>6. ASSUME NEW t \in Writers, Mark(t) PROVE EndInv'
  BY <1>4, <1>6 DEF Mark, Stream, queues
<1>7. ASSUME NEW t \in Writers, NEW f, pc[t] # "push", StartFrame(t, f),
             UNCHANGED <<queues, critSec>>
      PROVE EndInv'
  <2>1. critSec # t
    BY <1>7 DEF LockInv
  <2>2. critSec # NoOne => /\ pushed'[critSec] = pushed[critSec]
                           /\ frame'[critSec] = frame[critSec]
    BY <1>7, <2>1 DEF StartFrame, TypeOK
  <2>3. Stream' = Stream
    BY <1>7 DEF Stream, queues
  <2> QED
    BY <1>4, <1>7, <2>2, <2>3
<1>8. ASSUME UNCHANGED <<outgoingQueue, received, critSec, frame, pushed>> PROVE EndInv'
  BY <1>4, <1>8 DEF Stream
<1>9. CASE ImReceived
  BY <1>7, <1>9 DEF ImReceived, Writers
<1>10. CASE EmptyMessage
  BY <1>7, <1>10 DEF EmptyMessage, Writers
<1>11. CASE HandleRequest
  BY <1>7, <1>8, <1>11 DEF HandleRequest, Writers, queues
<1>12. CASE Fallback
  BY <1>7, <1>8, <1>12 DEF Fallback, Writers, queues
<1>13. CASE \/ ProcessQueues \/ EndOfPacket \/ HandleMessage \/ UNCHANGED vars
            \/ \E p \in Packets : Send(p)
            \/ \E n \in RecvSizes : RecvCheck(n)
  BY <1>8, <1>13 DEF ProcessQueues, EndOfPacket, HandleMessage, Send, RecvCheck,
     vars, queues
<1> QED
  BY <1>1, <1>2, <1>3, <1>5, <1>6, <1>9, <1>10, <1>11, <1>12, <1>13
     DEF Next, Game, DwThread, EnqueuePacket, Writers

(* Only ProcessQueues renumbers, and it takes the packet with the next     *)
(* number; Send appends one with the number after the last.                *)
LEMMA NumberStep == Inv /\ [Next]_vars => NumberInv'
<1> SUFFICES ASSUME TypeOK, NumberInv, [Next]_vars PROVE NumberInv'
  BY DEF Inv
<1> DEFINE Item == [num : Nat, frames : Packets]
<1>0. incomingQueue \in Seq(Item) /\ packet.num \in Nat /\ sent \in Seq(Packets)
  BY DEF TypeOK
<1>1. ASSUME NEW p \in Packets, Send(p) PROVE NumberInv'
  <2> DEFINE x == [num |-> Len(sent) + 1, frames |-> p]
  <2>1. x \in Item /\ x.num = Len(sent) + 1
    BY <1>0
  <2>2. incomingQueue' = Append(incomingQueue, x) /\ sent' = Append(sent, p)
        /\ packet' = packet
    BY <1>1 DEF Send, dwVars
  <2> HIDE DEF x, Item
  <2>3. /\ Len(incomingQueue') = Len(incomingQueue) + 1
        /\ Len(sent') = Len(sent) + 1
        /\ incomingQueue'[Len(incomingQueue) + 1] = x
        /\ \A i \in 1..Len(incomingQueue) : incomingQueue'[i] = incomingQueue[i]
    BY <1>0, <2>1, <2>2
  <2>4. Len(incomingQueue) \in Nat /\ Len(sent) \in Nat
    BY <1>0
  <2>9. packet'.num = packet.num /\ packet.num + Len(incomingQueue) = Len(sent)
    BY <2>2 DEF NumberInv
  <2>5. packet'.num + Len(incomingQueue') = Len(sent')
    <3> DEFINE m == packet.num
               n == Len(incomingQueue)
               l == Len(sent)
    <3>1. m \in Nat /\ n \in Nat /\ l \in Nat /\ m + n = l
      BY <1>0, <2>4, <2>9
    <3>2. packet'.num = m /\ Len(incomingQueue') = n + 1 /\ Len(sent') = l + 1
      BY <2>3, <2>9
    <3> HIDE DEF m, n, l
    <3> QED
      BY <3>1, <3>2
  <2>6. ASSUME NEW i \in 1..Len(incomingQueue')
        PROVE  incomingQueue'[i].num = packet'.num + i
    <3>1. CASE i \in 1..Len(incomingQueue)
      BY <2>2, <2>3, <3>1 DEF NumberInv
    <3>2. CASE i = Len(incomingQueue) + 1
      <4>1. incomingQueue'[i].num = Len(sent) + 1
        BY <2>1, <2>3, <3>2
      <4>2. packet'.num + i = Len(sent) + 1
        BY <1>0, <2>4, <2>9, <3>2
      <4> QED
        BY <4>1, <4>2
    <3> QED
      BY <2>3, <2>4, <3>1, <3>2
  <2> QED
    BY <2>5, <2>6 DEF NumberInv
<1>2. CASE ProcessQueues
  <2>1. /\ incomingQueue # <<>>
        /\ packet' = Head(incomingQueue) /\ incomingQueue' = Tail(incomingQueue)
        /\ sent' = sent
    BY <1>2 DEF ProcessQueues
  <2> HIDE DEF Item
  <2>2. /\ Len(incomingQueue) \in Nat \ {0}
        /\ packet' = incomingQueue[1]
        /\ Len(incomingQueue') = Len(incomingQueue) - 1
        /\ \A i \in 1..Len(incomingQueue') : incomingQueue'[i] = incomingQueue[i + 1]
    BY <1>0, <2>1
  <2>3. packet'.num = packet.num + 1
    BY <2>2 DEF NumberInv
  <2>4. \A i \in 1..Len(incomingQueue') : incomingQueue[i + 1].num = packet.num + (i + 1)
    BY <2>2 DEF NumberInv
  <2>5. packet'.num + Len(incomingQueue') = Len(sent')
    BY <1>0, <2>1, <2>2, <2>3 DEF NumberInv
  <2>6. ASSUME NEW i \in 1..Len(incomingQueue')
        PROVE  incomingQueue'[i].num = packet'.num + i
    <3>1. incomingQueue'[i] = incomingQueue[i + 1]
      BY <2>2
    <3>2. incomingQueue'[i].num = packet.num + (i + 1)
      BY <2>4, <3>1
    <3>3. i \in Nat /\ packet.num \in Nat
      BY <1>0, <2>2
    <3> QED
      BY <2>3, <3>2, <3>3
  <2> QED
    BY <2>5, <2>6 DEF NumberInv
<1>3. CASE UNCHANGED <<sent, incomingQueue, packet>>
  BY <1>3 DEF NumberInv
<1> QED
  BY <1>1, <1>2, <1>3 DEF Next, Game, DwThread, EnqueuePacket, Writers, vars,
     queues, gVars, dwVars, RecvCheck, Dequeue, Enter, Push, Leave, Mark, ImReceived,
     EndOfPacket, EmptyMessage, HandleMessage, HandleRequest, Fallback

(* A frame is named when it is started, and pos moves only when its last   *)
(* byte is out.                                                            *)
LEMMA FrameStep == Inv /\ [Next]_vars => FrameInv'
<1> SUFFICES ASSUME TypeOK, FrameInv, [Next]_vars PROVE FrameInv'
  BY DEF Inv
<1> USE DEF FrameInv, TypeOK, Writers
<1>1. ASSUME NEW s \in {"reply", "error", "empty"}, StartFrame("dw", Answer(s)),
             UNCHANGED <<packet, pos>>
      PROVE FrameInv'
  BY <1>1 DEF StartFrame, Answer
<1>2. ASSUME NEW t \in Writers, Enter(t) \/ Push(t) \/ Leave(t) PROVE FrameInv'
  BY <1>2 DEF Enter, Push, Leave, dwVars
<1>3. CASE Mark("pm")
  BY <1>3 DEF Mark
<1>4. CASE Mark("dw")
  BY <1>4 DEF Mark
<1>5. CASE ImReceived
  BY <1>5 DEF ImReceived, StartFrame, dwVars
<1>6. CASE EmptyMessage
  BY <1>1, <1>6 DEF EmptyMessage
<1>7. CASE HandleRequest
  <2>1. CASE StartFrame("dw", Answer("reply"))
    BY <1>1, <1>7, <2>1 DEF HandleRequest
  <2>2. CASE pc' = [pc EXCEPT !["dw"] = "check"] /\ UNCHANGED <<ret, frame, pushed>>
    BY <1>7, <2>2
  <2> QED
    BY <1>7, <2>1, <2>2 DEF HandleRequest
<1>8. CASE Fallback
  <2>1. CASE StartFrame("dw", Answer("error")) /\ UNCHANGED pos
    BY <1>1, <1>8, <2>1 DEF Fallback
  <2>2. CASE pc' = [pc EXCEPT !["dw"] = "loop"] /\ UNCHANGED <<ret, frame, pushed>>
    BY <1>8, <2>2
  <2> QED
    BY <1>8, <2>1, <2>2 DEF Fallback
<1>9. CASE ProcessQueues \/ EndOfPacket \/ HandleMessage
  BY <1>9 DEF ProcessQueues, EndOfPacket, HandleMessage, dwVars
<1>10. CASE UNCHANGED <<pc, dwVars, frame>>
  BY <1>10 DEF dwVars
<1> QED
  BY <1>2, <1>3, <1>4, <1>5, <1>6, <1>7, <1>8, <1>9, <1>10
     DEF Next, Game, DwThread, EnqueuePacket, Send, RecvCheck, Dequeue, vars

(* What PastInv says of one byte of the stream.                            *)
Past(b) ==
  \/ b.frame.num < packet.num
  \/ b.frame.num = packet.num /\ b.frame.idx < pos
  \/ /\ b.frame.num = packet.num /\ b.frame.idx = pos
     /\ \/ pc["dw"] \in {"push", "mark"} /\ b.frame = frame["dw"]
            /\ b.at <= pushed["dw"]
        \/ pc["dw"] = "check" /\ queuedPacket
        \/ pc["dw"] = "idle"

LEMMA PastInvDef == PastInv <=> \A k \in 1..Len(Stream) :
                                  IsAnswer(Stream[k]) => Past(Stream[k])
  BY DEF PastInv, Past

LEMMA ByteType ==
  ASSUME NEW b \in Byte
  PROVE  b.frame \in Frame /\ b.frame.num \in Nat /\ b.frame.idx \in Nat /\ b.at \in Nat
  BY DEF Byte, Frame

(* No step takes an answer back into the future: what is past stays past.  *)
LEMMA PastStays ==
  ASSUME Inv, [Next]_vars, NEW b \in Byte, Past(b)
  PROVE  Past(b)'
<1> USE ByteType
<1>0. packet.num \in Nat /\ pos \in Nat /\ pushed["dw"] \in Nat
  BY Constants DEF AllAssumptions, Inv, TypeOK, Writers
<1>1. CASE Enter("dw")
  BY <1>1 DEF Enter, Past, dwVars, Inv, TypeOK, Writers
<1>2. CASE Push("dw")
  BY <1>0, <1>2 DEF Push, Past, dwVars, Inv, TypeOK, Writers
<1>3. CASE Leave("dw")
  BY <1>3 DEF Leave, Past, dwVars, Inv, TypeOK, Writers
<1>4. CASE Mark("dw")
  BY <1>0, <1>4 DEF Mark, Past, Inv, TypeOK, Writers
<1>5. ASSUME EnqueuePacket("pm") PROVE Past(b)'
  BY <1>5 DEF EnqueuePacket, Enter, Push, Leave, Mark, Past, dwVars, Inv, TypeOK, Writers
<1>6. CASE ImReceived
  BY <1>6 DEF ImReceived, StartFrame, Past, dwVars, Inv, TypeOK, Writers
<1>7. CASE ProcessQueues
  <2>1. packet'.num = packet.num + 1
    <3>1. incomingQueue \in Seq([num : Nat, frames : Packets]) /\ incomingQueue # <<>>
      BY <1>7 DEF ProcessQueues, Inv, TypeOK
    <3>2. packet' = incomingQueue[1] /\ 1 \in 1..Len(incomingQueue)
      BY <1>7, <3>1 DEF ProcessQueues
    <3> QED
      BY <3>2 DEF Inv, NumberInv
  <2>2. b.frame.num <= packet.num
    BY <1>0 DEF Past
  <2> QED
    BY <1>0, <2>1, <2>2 DEF Past
<1>8. CASE EndOfPacket
  BY <1>8 DEF EndOfPacket, Past, dwVars, Inv, TypeOK, Writers
<1>9. CASE EmptyMessage
  BY <1>9 DEF EmptyMessage, StartFrame, Past, Inv, TypeOK, Writers
<1>10. CASE HandleMessage
  BY <1>10 DEF HandleMessage, Past, dwVars, Inv, TypeOK, Writers
<1>11. CASE HandleRequest
  BY <1>11 DEF HandleRequest, StartFrame, Past, Inv, TypeOK, Writers
<1>12. CASE Fallback
  <2>1. CASE b.frame.num = packet.num /\ b.frame.idx = pos
    <3>1. ~NeedsError
      BY <1>0, <1>12, <2>1 DEF Fallback, Past, NeedsError
    <3>2. pos' = pos + 1 /\ packet' = packet
      BY <1>12, <3>1 DEF Fallback
    <3> QED
      BY <1>0, <2>1, <3>2 DEF Past
  <2>2. CASE ~(b.frame.num = packet.num /\ b.frame.idx = pos)
    <3>1. packet' = packet /\ pos' \in {pos, pos + 1}
      BY <1>12 DEF Fallback
    <3> QED
      BY <1>0, <2>2, <3>1 DEF Past
  <2> QED
    BY <2>1, <2>2
<1>13. CASE UNCHANGED <<pc, packet, pos, frame, pushed, queuedPacket>>
  BY <1>13 DEF Past
<1> QED
  BY <1>1, <1>2, <1>3, <1>4, <1>5, <1>6, <1>7, <1>8, <1>9, <1>10, <1>11, <1>12, <1>13
     DEF Next, Game, DwThread, EnqueuePacket, Send, RecvCheck, Dequeue, vars, dwVars

(* The byte a writer pushes is an instant message or an answer to the      *)
(* message at pos.                                                         *)
LEMMA PastStep == Inv /\ [Next]_vars => PastInv'
<1> SUFFICES ASSUME Inv, [Next]_vars PROVE PastInv'
  OBVIOUS
<1>0. Stream \in Seq(Byte) /\ TypeOK
  BY StreamType DEF Inv
<1>1. ASSUME NEW k \in 1..Len(Stream), NEW b, b = Stream[k], IsAnswer(b)
      PROVE  Past(b)'
  <2>1. b \in Byte
    BY <1>0, <1>1
  <2>2. Past(b)
    BY <1>1, PastInvDef DEF Inv
  <2> QED
    BY <2>1, <2>2, PastStays
<1>2. ASSUME \A k \in 1..Len(Stream') : \A b : b = Stream'[k] /\ IsAnswer(b) => Past(b)'
      PROVE  PastInv'
  BY <1>2 DEF PastInv, Past, IsAnswer
<1>3. ASSUME Stream' = Stream PROVE PastInv'
  <2>1. \A k \in 1..Len(Stream') : \A b : b = Stream'[k] /\ IsAnswer(b) => Past(b)'
    BY <1>1, <1>3
  <2> QED
    BY <1>2, <2>1
<1>4. ASSUME NEW t \in Writers, Push(t) PROVE PastInv'
  <2>1. PICK c : c = [frame |-> frame[t], at |-> pushed[t] + 1]
    OBVIOUS
  <2>2. /\ Len(Stream') = Len(Stream) + 1
        /\ Stream'[Len(Stream) + 1] = c
        /\ \A k \in 1..Len(Stream) : Stream'[k] = Stream[k]
    BY <1>0, <1>4, <2>1, PushStream
  <2>3. c.frame = frame[t] /\ c.at = pushed[t] + 1
    BY <2>1
  <2>4. t # "dw" => ~IsAnswer(c)
    BY <2>3 DEF Inv, FrameInv, IsAnswer, Writers
  <2>5. ASSUME t = "dw" PROVE Past(c)'
    <3>1. /\ pc'["dw"] = "push" /\ frame'["dw"] = c.frame
          /\ pushed'["dw"] = c.at /\ c.at \in Nat
      BY <1>0, <1>4, <2>3, <2>5, Constants DEF AllAssumptions, Push, TypeOK
    <3>2. c.frame.num = packet'.num /\ c.frame.idx = pos'
      BY <1>4, <2>3, <2>5 DEF Push, dwVars, Inv, FrameInv
    <3> QED
      BY <3>1, <3>2 DEF Past
  <2>6. ASSUME NEW k \in 1..Len(Stream'), NEW b, b = Stream'[k], IsAnswer(b)
        PROVE  Past(b)'
    <3>1. CASE k \in 1..Len(Stream)
      BY <1>1, <2>2, <2>6, <3>1
    <3>2. CASE k = Len(Stream) + 1
      <4>1. b = c /\ t = "dw"
        BY <2>2, <2>4, <2>6, <3>2
      <4> QED
        BY <2>5, <4>1
    <3>3. Len(Stream) \in Nat
      BY <1>0
    <3> QED
      BY <2>2, <3>1, <3>2, <3>3
  <2> QED
    BY <1>2, <2>6
<1>5. ASSUME Dequeue PROVE PastInv'
  BY <1>0, <1>3, <1>5, DequeueStream
<1> QED
  BY <1>3, <1>4, <1>5, OtherStream

LEMMA InvStep == Inv /\ [Next]_vars => Inv'
  BY NextTypeOK, LockStep, RecvStep, EndStep, NumberStep, FrameStep, PastStep DEF Inv

LEMMA Invariance == Spec => []Inv
  BY InitInv, InvStep, PTL DEF Spec

-----------------------------------------------------------------------------
(* recv on an emulated socket never returns 0: the byte isPacketAvailable  *)
(* saw without the lock is still there when dequeuePacket takes it.        *)
THEOREM RecvSafe == Spec => []RecvNeverZero
<1>1. Inv => RecvNeverZero
  BY DEF Inv, RecvInv, RecvNeverZero
<1> QED
  BY <1>1, Invariance, PTL

(* Frames reach the game whole: the lock keeps the bytes of dw_thread's    *)
(* answers and of the callback's messages from mixing.                     *)
THEOREM FramesWhole == Spec => []WholeFrames
<1>1. Init => WholeFrames
  BY DEF Init, WholeFrames, Stream
<1>2. Inv /\ WholeFrames /\ [Next]_vars => WholeFrames'
  <2> SUFFICES ASSUME Inv, WholeFrames, [Next]_vars PROVE WholeFrames'
    OBVIOUS
  <2> USE Constants DEF AllAssumptions
  <2>0. TypeOK /\ LockInv /\ EndInv /\ Stream \in Seq(Byte) /\ Len(Stream) \in Nat
    BY StreamType DEF Inv
  <2>1. ASSUME NEW t \in Writers, Push(t) PROVE WholeFrames'
    <3> DEFINE c == [frame |-> frame[t], at |-> pushed[t] + 1]
               n == Len(Stream)
    <3>1. /\ c \in Byte
          /\ Len(Stream') = n + 1
          /\ Stream'[n + 1] = c
          /\ \A k \in 1..n : Stream'[k] = Stream[k]
      BY <2>0, <2>1, PushStream
    <3>2. critSec = t /\ critSec' = t /\ t # NoOne /\ frame' = frame
      BY <2>0, <2>1 DEF Push, LockInv, Writers, NoOne
    <3>3. pushed[t] \in 0..FrameLen /\ pushed[t] < FrameLen
      BY <2>0, <2>1 DEF Push, TypeOK
    <3>5. c.frame = frame[t] /\ c.at = pushed[t] + 1
      OBVIOUS
    <3> HIDE DEF c
    <3>6. c.at > 1 => n > 0 /\ Stream'[n] = [c EXCEPT !.at = @ - 1]
      <4>1. SUFFICES ASSUME c.at > 1
                     PROVE  n > 0 /\ Stream'[n] = [c EXCEPT !.at = @ - 1]
        OBVIOUS
      <4>2. pushed[t] # 0
        BY <3>3, <3>5, <4>1
      <4>3. Stream # <<>> /\ Stream[n] = [frame |-> frame[t], at |-> pushed[t]]
        BY <2>0, <3>2, <4>2 DEF EndInv
      <4>4. n > 0 /\ Stream'[n] = Stream[n]
        BY <2>0, <3>1, <4>3
      <4>5. [c EXCEPT !.at = @ - 1] = [frame |-> frame[t], at |-> pushed[t]]
        BY <3>3 DEF c
      <4> QED
        BY <4>3, <4>4, <4>5
    <3>7. ASSUME NEW k \in 1..n, Stream[k].at < FrameLen
          PROVE  Stream'[k + 1] = [Stream[k] EXCEPT !.at = @ + 1]
      <4>1. CASE k < n
        <5>1. Stream[k + 1] = [Stream[k] EXCEPT !.at = @ + 1]
          <6>1. k # Len(Stream)
            BY <2>0, <4>1
          <6>2. \/ Stream[k + 1] = [Stream[k] EXCEPT !.at = @ + 1]
                \/ k = Len(Stream)
            BY ZenonT(30), <3>7 DEF WholeFrames
          <6> QED
            BY <6>1, <6>2
        <5>2. k + 1 \in 1..n
          BY <2>0, <4>1
        <5> QED
          BY <3>1, <5>1, <5>2
      <4>2. CASE k = n
        <5>1. Stream # <<>> /\ pushed[t] # 0
          BY <2>0, <3>2, <3>7, <4>2 DEF EndInv
        <5>2. Stream[n] = [frame |-> frame[t], at |-> pushed[t]]
          BY <2>0, <3>2, <5>1 DEF EndInv
        <5>3. [Stream[n] EXCEPT !.at = @ + 1] = c
          BY <5>2 DEF c
        <5> QED
          BY <3>1, <4>2, <5>3
      <4> QED
        BY <2>0, <4>1, <4>2
    <3>8. ASSUME NEW k \in 1..Len(Stream')
          PROVE  LET b == Stream'[k] IN
                   /\ b.at > 1 => k > 1 /\ Stream'[k - 1] = [b EXCEPT !.at = @ - 1]
                   /\ b.at < FrameLen =>
                        \/ k < Len(Stream') /\ Stream'[k + 1] = [b EXCEPT !.at = @ + 1]
                        \/ k = Len(Stream') /\ critSec' # NoOne /\ frame'[critSec'] = b.frame
      <4>1. CASE k \in 1..n
        <5>1. Stream'[k] = Stream[k] /\ k < Len(Stream')
          BY <2>0, <3>1, <4>1
        <5>2. Stream[k].at > 1 => k > 1 /\ Stream[k - 1] = [Stream[k] EXCEPT !.at = @ - 1]
          BY <4>1 DEF WholeFrames
        <5>3. k > 1 => Stream'[k - 1] = Stream[k - 1]
          BY <2>0, <3>1, <4>1
        <5> QED
          BY <3>7, <4>1, <5>1, <5>2, <5>3
      <4>2. CASE k = n + 1
        BY <2>0, <3>1, <3>2, <3>5, <3>6, <4>2
      <4> QED
        BY <2>0, <3>1, <4>1, <4>2
    <3> QED
      BY <3>8 DEF WholeFrames
  <2>2. ASSUME NEW t \in Writers, Leave(t) PROVE WholeFrames'
    <3>1. Stream' = Stream /\ critSec = t /\ pushed[t] = FrameLen
      BY <2>0, <2>2 DEF Leave, LockInv, Stream, queues
    <3>2. Stream # <<>> => Stream[Len(Stream)].at = FrameLen
      BY <2>0, <3>1 DEF EndInv, Writers, NoOne
    <3>3. \A k \in 1..Len(Stream) : k = Len(Stream) => Stream[k].at = FrameLen
      BY <2>0, <3>2
    <3> QED
      BY <2>0, <3>1, <3>3 DEF WholeFrames
  <2>3. ASSUME Stream' = Stream, critSec' = critSec,
               critSec # NoOne => frame'[critSec] = frame[critSec]
        PROVE  WholeFrames'
    BY <2>3 DEF WholeFrames
  <2>4. ASSUME NEW t \in Writers, Enter(t) PROVE WholeFrames'
    <3>1. Stream' = Stream /\ critSec = NoOne
      BY <2>4 DEF Enter, Stream, queues
    <3> QED
      BY <3>1 DEF WholeFrames
  <2>5. CASE Dequeue
    BY <2>0, <2>3, <2>5, DequeueStream DEF Dequeue
  <2>6. ASSUME NEW t \in Writers, NEW f, pc[t] # "push", StartFrame(t, f),
               UNCHANGED <<queues, critSec>>
        PROVE  WholeFrames'
    <3>1. critSec # t
      BY <2>0, <2>6 DEF LockInv
    <3>2. critSec # NoOne => frame'[critSec] = frame[critSec]
      BY <2>0, <2>6, <3>1 DEF StartFrame, TypeOK
    <3>3. Stream' = Stream
      BY <2>6 DEF Stream, queues
    <3> QED
      BY <2>3, <2>6, <3>2, <3>3
  <2>7. ASSUME UNCHANGED <<outgoingQueue, received, critSec, frame>> PROVE WholeFrames'
    BY <2>3, <2>7 DEF Stream
  <2>8. CASE ImReceived
    BY <2>6, <2>8 DEF ImReceived, Writers
  <2>9. CASE EmptyMessage
    BY <2>6, <2>9 DEF EmptyMessage, Writers
  <2>10. CASE HandleRequest
    BY <2>6, <2>7, <2>10 DEF HandleRequest, Writers, queues
  <2>11. CASE Fallback
    BY <2>6, <2>7, <2>11 DEF Fallback, Writers, queues
  <2>12. CASE \/ ProcessQueues \/ EndOfPacket \/ HandleMessage \/ UNCHANGED vars
              \/ \E p \in Packets : Send(p)
              \/ \E n \in RecvSizes : RecvCheck(n)
              \/ \E t \in Writers : Mark(t)
    BY <2>7, <2>12 DEF ProcessQueues, EndOfPacket, HandleMessage, Send, RecvCheck,
       Mark, vars, queues
  <2> QED
    BY <2>1, <2>2, <2>4, <2>5, <2>8, <2>9, <2>10, <2>11, <2>12
       DEF Next, Game, DwThread, EnqueuePacket, Writers
<1> QED
  BY <1>1, <1>2, Invariance, PTL DEF Spec

(* The answers come in the order of the requests, no request is answered   *)
(* twice: the game may match them by order.                                *)
THEOREM AnswersOrdered == Spec => []RepliesInOrder
<1>1. Init => RepliesInOrder
  BY DEF Init, RepliesInOrder, Stream
<1>2. Inv /\ RepliesInOrder /\ [Next]_vars => RepliesInOrder'
  <2> SUFFICES ASSUME Inv, RepliesInOrder, [Next]_vars PROVE RepliesInOrder'
    OBVIOUS
  <2>0. TypeOK /\ Stream \in Seq(Byte) /\ Len(Stream) \in Nat
    BY StreamType DEF Inv
  <2>1. CASE Stream' = Stream
    BY <2>1 DEF RepliesInOrder
  <2>2. ASSUME NEW t \in Writers, Push(t) PROVE RepliesInOrder'
    <3> DEFINE c == [frame |-> frame[t], at |-> pushed[t] + 1]
               n == Len(Stream)
    <3>1. /\ c \in Byte
          /\ Len(Stream') = n + 1
          /\ Stream'[n + 1] = c
          /\ \A k \in 1..n : Stream'[k] = Stream[k]
      BY <2>0, <2>2, PushStream
    <3>2. ASSUME NEW l \in 1..n, IsAnswer(Stream[l]), IsAnswer(c)
          PROVE  Before(Stream[l], c)
      <4>1. t = "dw"
        BY <3>2 DEF Inv, FrameInv, IsAnswer, Writers
      <4>2. pc["dw"] = "push" /\ frame["dw"].num = packet.num /\ frame["dw"].idx = pos
        BY <2>2, <4>1 DEF Push, Inv, FrameInv
      <4>3. c.frame = frame["dw"] /\ c.at = pushed["dw"] + 1 /\ pushed["dw"] \in Nat
        BY <2>0, <4>1, Constants DEF AllAssumptions, TypeOK, Writers
      <4>4. Past(Stream[l]) /\ Stream[l] \in Byte
        BY <2>0, <3>2, PastInvDef DEF Inv
      <4>5. Stream[l].at \in Nat
        BY <4>4, ByteType
      <4> HIDE DEF c
      <4> QED
        BY <4>2, <4>3, <4>4, <4>5 DEF Past, Before
    <3> HIDE DEF c
    <3>3. ASSUME NEW k \in 1..Len(Stream'), NEW l \in 1..(k - 1),
                 IsAnswer(Stream'[k]), IsAnswer(Stream'[l])
          PROVE  Before(Stream'[l], Stream'[k])
      <4>1. CASE k \in 1..n
        <5>1. l \in 1..n /\ Stream'[k] = Stream[k] /\ Stream'[l] = Stream[l]
          BY <2>0, <3>1, <4>1
        <5> QED
          BY <3>3, <4>1, <5>1 DEF RepliesInOrder
      <4>2. CASE k = n + 1
        <5>1. l \in 1..n /\ Stream'[k] = c /\ Stream'[l] = Stream[l]
          BY <2>0, <3>1, <4>2
        <5> QED
          BY <3>2, <3>3, <5>1
      <4> QED
        BY <2>0, <3>1, <4>1, <4>2
    <3> QED
      BY <3>3 DEF RepliesInOrder, IsAnswer, Before
  <2>3. CASE Dequeue
    BY <2>0, <2>1, <2>3, DequeueStream
  <2> QED
    BY <2>1, <2>2, <2>3, OtherStream
<1> QED
  BY <1>1, <1>2, Invariance, PTL DEF Spec

-----------------------------------------------------------------------------
(* The inductive invariant behind the promise of RequestPipe and the count *)
(* of requests that get no answer.                                         *)

(* The packets taken and waiting are those that were sent, in order.       *)
ContentInv ==
  /\ \A i \in 1..Len(incomingQueue) : incomingQueue[i].frames = sent[packet.num + i]
  /\ packet.num > 0 => packet.frames = sent[packet.num]
  /\ packet.num = 0 => packet.frames = <<>> /\ pc["dw"] = "idle"

(* What dw_thread is at, for each place it can be in: no message before    *)
(* pos ends the packet, an idle thread has found an end, and the frame     *)
(* under way is of the kind the message at pos calls for.                  *)
PlaceInv ==
  /\ \A j \in 1..(pos - 1) : j <= Len(packet.frames) /\ packet.frames[j] \in Requests
  /\ pc["dw"] = "idle" => Current \in {"end"} \cup Breaks
  /\ pc["dw"] \in {"service", "check"} => Current \in Requests
  /\ pc["dw"] \in {"enter", "push", "mark"} =>
       \/ ret = "check" /\ Current = "reply" /\ frame["dw"].src = "reply"
       \/ ret = "loop" /\ Current = "silent" /\ frame["dw"].src = "error"
       \/ ret = "idle" /\ Current = "empty" /\ frame["dw"].src = "empty"
  /\ pc["pm"] # "idle" => ims > 0 /\ frame["pm"] = [src |-> "im", num |-> ims, idx |-> 0]

(* Frames end at the multiples of FrameLen, and nowhere else.              *)
AlignInv ==
  /\ Len(Stream) % FrameLen =
       IF critSec = NoOne THEN 0 ELSE IF pushed[critSec] = FrameLen THEN 0 ELSE pushed[critSec]
  /\ \A k \in 1..(Len(Stream) \div FrameLen) : Stream[k * FrameLen].at = FrameLen

(* The answer to message i of packet n has been written to its last byte.  *)
Has(n, i) == \E k \in 1..Len(Wire) : Wire[k].src # "im" /\ Wire[k].num = n /\ Wire[k].idx = i

(* Where an answer must have been written: to each earlier request with a  *)
(* reply, and to the message at pos once its frame is whole.               *)
HasInv ==
  /\ \A j \in 1..(pos - 1) : packet.frames[j] = "reply" => Has(packet.num, j)
  /\ \/ pc["dw"] = "mark"
     \/ pc["dw"] = "push" /\ pushed["dw"] = FrameLen
     \/ pc["dw"] = "check" /\ Current = "reply"
     \/ pc["dw"] = "idle" /\ Current = "empty"
     => Has(packet.num, pos)
  /\ pc["dw"] = "check" /\ Current = "reply" => queuedPacket

PipeInv == Inv /\ ContentInv /\ PlaceInv /\ AlignInv /\ HasInv

(* The request in hand will get no answer because of an instant message.   *)
Owing == pc["dw"] \in {"service", "check"} /\ queuedPacket /\ Current # "reply"

Debt == IF Owing THEN 1 ELSE 0

(* Each instant message pays for one request without an answer.            *)
MissInv == IsFiniteSet(Missed) /\ Cardinality(Missed) + Debt <= ImsMarked

-----------------------------------------------------------------------------
(* Arithmetic of frame ends *)

(* Quotient and remainder are what they are called.                        *)
LEMMA Quotient ==
  ASSUME NEW d \in Nat \ {0}, NEW q \in Nat, NEW r \in 0..(d-1)
  PROVE  (d*q + r) \div d = q /\ (d*q+r) % d = r
OBVIOUS

(* A number is made of its quotient and remainder.                         *)
LEMMA DivMod ==
  ASSUME NEW a \in Nat, NEW d \in Nat \ {0}
  PROVE  a \div d \in Nat /\ a % d \in 0..(d-1) /\ a = d * (a \div d) + (a % d)
<1>1. a \div d \in Nat /\ a % d \in 0..(d - 1)
  OBVIOUS
<1> DEFINE q == a \div d
           r == a - d * q
<1>2. d * q <= a /\ a < d * q + d
  OBVIOUS
<1>3. q \in Nat /\ d * q \in Nat
  BY <1>1
<1> HIDE DEF q
<1>4. r \in 0..(d - 1) /\ a = d * q + r
  BY <1>2, <1>3
<1>5. a % d = r
  <2> HIDE DEF r
  <2> QED BY <1>3, <1>4, Quotient
<1>6. a = d * q + (a % d)
  BY <1>4, <1>5
<1> QED
  BY <1>1, <1>6 DEF q

(* One more: the remainder grows, or the quotient does.                    *)
LEMMA NextDiv ==
  ASSUME NEW a \in Nat, NEW d \in Nat \ {0}
  PROVE  /\ (a + 1) % d = IF a % d = d - 1 THEN 0 ELSE (a % d) + 1
         /\ (a + 1) \div d = IF a % d = d - 1 THEN a \div d + 1 ELSE a \div d
<1> DEFINE q == a \div d
           r == a % d
<1>1. q \in Nat /\ r \in 0..(d - 1) /\ a = d * q + r
  BY DivMod
<1> HIDE DEF q, r
<1>2. CASE r = d - 1
  <2>1. a + 1 = d * (q + 1) + 0 /\ q + 1 \in Nat /\ 0 \in 0..(d - 1)
    BY <1>1, <1>2
  <2>2. (a + 1) \div d = q + 1 /\ (a + 1) % d = 0
    <3>1. (d * (q + 1) + 0) \div d = q + 1 /\ (d * (q + 1) + 0) % d = 0
      BY <2>1, Quotient
    <3> QED
      BY <2>1, <3>1
  <2> QED
    BY <1>2, <2>2 DEF q, r
<1>3. CASE r # d - 1
  <2>1. a + 1 = d * q + (r + 1) /\ r + 1 \in 0..(d - 1)
    BY <1>1, <1>3
  <2>2. (a + 1) \div d = q /\ (a + 1) % d = r + 1
    <3>1. (d * q + (r + 1)) \div d = q /\ (d * q + (r + 1)) % d = r + 1
      BY <1>1, <2>1, Quotient
    <3> QED
      BY <2>1, <3>1
  <2> QED
    BY <1>3, <2>2 DEF q, r
<1> QED
  BY <1>2, <1>3

(* A multiple up to the quotient is not beyond the number.                 *)
LEMMA Multiple ==
  ASSUME NEW a \in Nat, NEW d \in Nat \ {0}, NEW k \in 1..(a \div d)
  PROVE  k * d \in 1..a
<1> DEFINE q == a \div d
<1>1. q \in Nat /\ d * q <= a
  BY DivMod
<1> HIDE DEF q
<1>2. k \in 1..q
  BY DEF q
<1>3. d * k <= d * q /\ d * k >= 1 /\ d * k \in Nat /\ k * d = d * k
  BY <1>1, <1>2
<1> QED BY <1>1, <1>3

-----------------------------------------------------------------------------
(* The frames written whole, and how the steps change them.                *)

(* The frames written are frames, each named by its last byte.             *)
LEMMA WireType ==
  ASSUME TypeOK
  PROVE  /\ Wire \in Seq(Frame) /\ Len(Wire) = Len(Stream) \div FrameLen
         /\ \A k \in 1..Len(Wire) :
              Wire[k] = Stream[k * FrameLen].frame /\ k * FrameLen \in 1..Len(Stream)
<1> DEFINE n == Len(Stream) \div FrameLen
           F == [k \in 1..n |-> Stream[k * FrameLen].frame]
<1>1. Stream \in Seq(Byte) /\ Len(Stream) \in Nat /\ FrameLen \in Nat \ {0}
  BY StreamType, Constants DEF AllAssumptions
<1>2. n \in Nat
  BY <1>1, DivMod
<1>3. \A k \in 1..n : k * FrameLen \in 1..Len(Stream)
  BY <1>1, Multiple
<1>4. \A k \in 1..n : Stream[k * FrameLen].frame \in Frame
  <2>1. \A j \in 1..Len(Stream) : Stream[j] \in Byte
    BY <1>1
  <2>2. \A j \in 1..Len(Stream) : Stream[j].frame \in Frame
    BY <2>1, ByteType
  <2> HIDE DEF n
  <2> QED
    BY <1>3, <2>2, Zenon
<1>5. Wire = F
  BY DEF Wire
<1>6. F \in Seq(Frame) /\ Len(F) = n /\ \A k \in 1..n : F[k] = Stream[k * FrameLen].frame
  <2>1. F \in [1..n -> Frame] /\ \A k \in 1..n : F[k] = Stream[k * FrameLen].frame
    BY <1>4
  <2> HIDE DEF F, n
  <2> QED
    BY <1>2, <2>1
<1> HIDE DEF F
<1> QED
  BY <1>3, <1>5, <1>6

(* The last byte of a frame adds it, the others add none; the frames stay  *)
(* aligned.                                                                *)
LEMMA WirePush ==
  ASSUME TypeOK, LockInv, AlignInv, NEW t \in Writers, Push(t)
  PROVE  /\ pushed[t] + 1 < FrameLen => Wire' = Wire
         /\ pushed[t] + 1 = FrameLen => Wire' = Append(Wire, frame[t])
         /\ AlignInv'
<1> DEFINE c == [frame |-> frame[t], at |-> pushed[t] + 1]
           n == Len(Stream)
           q == n \div FrameLen
<1>1. /\ Len(Stream') = n + 1 /\ Stream'[n + 1] = c
      /\ \A k \in 1..n : Stream'[k] = Stream[k]
  BY PushStream
<1>2. n \in Nat /\ FrameLen \in Nat \ {0} /\ q \in Nat /\ Wire \in Seq(Frame) /\ Len(Wire) = q
  <2>1. n \in Nat /\ FrameLen \in Nat \ {0}
    BY StreamType, Constants DEF AllAssumptions
  <2>2. q \in Nat
    BY <2>1, DivMod
  <2>3. Wire \in Seq(Frame) /\ Len(Wire) = q
    BY WireType
  <2> QED
    BY <2>1, <2>2, <2>3
<1>3. pushed[t] \in 0..(FrameLen - 1) /\ critSec = t /\ critSec # NoOne
  BY Constants DEF AllAssumptions, TypeOK, LockInv, Push, Writers, NoOne
<1>4. n % FrameLen = pushed[t]
  BY <1>2, <1>3 DEF AlignInv
<1>5. /\ Len(Stream') % FrameLen = IF pushed[t] = FrameLen - 1 THEN 0 ELSE pushed[t] + 1
      /\ Len(Stream') \div FrameLen = IF pushed[t] = FrameLen - 1 THEN q + 1 ELSE q
  BY <1>1, <1>2, <1>4, NextDiv
<1>6. pushed'[t] = pushed[t] + 1 /\ critSec' = t
  BY <1>3 DEF Push, TypeOK
<1>7. \A k \in 1..q : k * FrameLen \in 1..n /\ Stream'[k * FrameLen] = Stream[k * FrameLen]
  BY <1>1, <1>2, Multiple
<1>8. \A k \in 1..q : Stream'[k * FrameLen].at = FrameLen
  BY <1>2, <1>7 DEF AlignInv
<1>9. c.at = pushed[t] + 1 /\ c.frame = frame[t]
  OBVIOUS
<1> HIDE DEF c, q, n
<1>10. CASE pushed[t] + 1 < FrameLen
  <2>1. Len(Stream') \div FrameLen = q /\ Len(Stream') % FrameLen = pushed[t] + 1
    BY <1>2, <1>3, <1>5, <1>10
  <2>2. Wire' = Wire
    BY <1>7, <2>1 DEF Wire, q, n
  <2>3. AlignInv'
    BY <1>2, <1>3, <1>6, <1>8, <1>10, <2>1 DEF AlignInv
  <2> QED
    BY <1>2, <1>10, <2>2, <2>3
<1>11. CASE pushed[t] + 1 = FrameLen
  <2>1. Len(Stream') \div FrameLen = q + 1 /\ Len(Stream') % FrameLen = 0
    BY <1>2, <1>3, <1>5, <1>11
  <2>2. (q + 1) * FrameLen = n + 1
    <3>1. n = FrameLen * q + (n % FrameLen)
      BY <1>2, DivMod DEF q
    <3> QED
      BY <1>2, <1>4, <1>11, <3>1
  <2>3. Stream'[(q + 1) * FrameLen] = c
    BY <1>1, <2>2
  <2>4. Wire' = Append(Wire, frame[t])
    <3>1. Wire' = [k \in 1..(q + 1) |-> Stream'[k * FrameLen].frame]
      BY <2>1 DEF Wire
    <3>2. \A k \in 1..q : Stream'[k * FrameLen].frame = Wire[k]
      BY <1>2, <1>7, WireType
    <3>3. Stream'[(q + 1) * FrameLen].frame = frame[t]
      BY <1>9, <2>3
    <3>4. frame[t] \in Frame
      BY DEF TypeOK
    <3>5. Append(Wire, frame[t]) = [k \in 1..(q + 1) |-> IF k = q + 1 THEN frame[t] ELSE Wire[k]]
      BY <1>2, <3>4
    <3>6. \A k \in 1..(q + 1) :
            Stream'[k * FrameLen].frame = IF k = q + 1 THEN frame[t] ELSE Wire[k]
      <4> TAKE k \in 1..(q + 1)
      <4>1. CASE k = q + 1
        BY <3>3, <4>1, Zenon
      <4>2. CASE k # q + 1
        <5>1. k \in 1..q
          BY <1>2, <4>2
        <5> QED
          BY <3>2, <4>2, <5>1, Zenon
      <4> QED
        BY <4>1, <4>2
    <3> QED
      BY <3>1, <3>5, <3>6
  <2>5. AlignInv'
    <3>1. \A k \in 1..(q + 1) : Stream'[k * FrameLen].at = FrameLen
      BY <1>2, <1>8, <1>9, <1>11, <2>3
    <3> QED
      BY <1>2, <1>3, <1>6, <1>11, <2>1, <3>1 DEF AlignInv
  <2> QED
    BY <1>2, <1>11, <2>4, <2>5
<1> QED
  BY <1>2, <1>3, <1>10, <1>11

(* Every other step leaves the stream, and so the frames, alone.           *)
LEMMA WireOther ==
  ASSUME TypeOK, [Next]_vars, \A t \in Writers : ~Push(t)
  PROVE  Stream' = Stream /\ Wire' = Wire
<1>1. Stream' = Stream
  BY DequeueStream, OtherStream
<1> QED
  BY <1>1 DEF Wire

(* The frames after a step are those before it, and perhaps one more.      *)
LEMMA HasStays ==
  ASSUME Inv, AlignInv, [Next]_vars, NEW n, NEW i, Has(n, i)
  PROVE  Has(n, i)'
<1>1. TypeOK /\ LockInv
  BY DEF Inv
<1>2. Wire \in Seq(Frame) /\ Len(Wire) \in Nat
  BY <1>1, WireType
<1>3. PICK k \in 1..Len(Wire) : Wire[k].src # "im" /\ Wire[k].num = n /\ Wire[k].idx = i
  BY DEF Has
<1>4. CASE Wire' = Wire
  BY <1>3, <1>4 DEF Has
<1>5. ASSUME NEW t \in Writers, Wire' = Append(Wire, frame[t]) PROVE Has(n, i)'
  <2>1. frame[t] \in Frame
    BY <1>1 DEF TypeOK
  <2>2. Len(Wire') = Len(Wire) + 1 /\ Wire'[k] = Wire[k]
    BY <1>2, <1>3, <1>5, <2>1
  <2>3. k \in 1..Len(Wire')
    BY <1>2, <2>2
  <2> QED
    BY <1>3, <2>2, <2>3 DEF Has
<1>6. ASSUME NEW t \in Writers, Push(t) PROVE Has(n, i)'
  <2>1. pushed[t] + 1 < FrameLen \/ pushed[t] + 1 = FrameLen
    BY <1>1, <1>6, Constants DEF AllAssumptions, Push, TypeOK
  <2> QED
    BY <1>1, <1>4, <1>5, <1>6, <2>1, WirePush
<1> QED
  BY <1>1, <1>4, <1>6, WireOther

(* The frames stay aligned. *)
LEMMA AlignStep == Inv /\ AlignInv /\ [Next]_vars => AlignInv'
<1> SUFFICES ASSUME TypeOK, LockInv, AlignInv, [Next]_vars PROVE AlignInv'
  BY DEF Inv
<1> USE Constants DEF AllAssumptions
<1>1. ASSUME NEW t \in Writers, Push(t) PROVE AlignInv'
  BY <1>1, WirePush
<1>2. ASSUME NEW t \in Writers, Enter(t) PROVE AlignInv'
  <2>1. Stream' = Stream /\ critSec = NoOne /\ critSec' = t /\ pushed' = pushed
    BY <1>2 DEF Enter, Stream, queues
  <2>2. pushed[t] = 0 /\ t # NoOne
    BY <1>2 DEF Enter, LockInv, Writers, NoOne
  <2> QED
    BY <2>1, <2>2 DEF AlignInv
<1>3. ASSUME NEW t \in Writers, Leave(t) PROVE AlignInv'
  <2>1. critSec = t /\ pushed[t] = FrameLen /\ critSec' = NoOne /\ Stream' = Stream
    BY <1>3 DEF Leave, LockInv, Stream, queues
  <2>2. t # NoOne
    BY DEF Writers, NoOne
  <2> QED
    BY <2>1, <2>2 DEF AlignInv
<1>4. ASSUME Stream' = Stream, critSec' = critSec,
             critSec # NoOne => pushed'[critSec] = pushed[critSec]
      PROVE AlignInv'
  BY <1>4 DEF AlignInv
<1>5. CASE Dequeue
  BY <1>4, <1>5, DequeueStream DEF Dequeue
<1>6. ASSUME NEW t \in Writers, Mark(t) PROVE AlignInv'
  BY <1>4, <1>6 DEF Mark, Stream, queues
<1>7. ASSUME NEW t \in Writers, NEW f, pc[t] # "push", StartFrame(t, f),
             UNCHANGED <<queues, critSec>>
      PROVE AlignInv'
  <2>1. critSec # t
    BY <1>7 DEF LockInv
  <2>2. critSec # NoOne => pushed'[critSec] = pushed[critSec]
    BY <1>7, <2>1 DEF StartFrame, TypeOK
  <2>3. Stream' = Stream
    BY <1>7 DEF Stream, queues
  <2> QED
    BY <1>4, <1>7, <2>2, <2>3
<1>8. ASSUME UNCHANGED <<outgoingQueue, received, critSec, pushed>> PROVE AlignInv'
  BY <1>4, <1>8 DEF Stream
<1>9. CASE ImReceived
  BY <1>7, <1>9 DEF ImReceived, Writers
<1>10. CASE EmptyMessage
  BY <1>7, <1>10 DEF EmptyMessage, Writers
<1>11. CASE HandleRequest
  BY <1>7, <1>8, <1>11 DEF HandleRequest, Writers, queues
<1>12. CASE Fallback
  BY <1>7, <1>8, <1>12 DEF Fallback, Writers, queues
<1>13. CASE \/ ProcessQueues \/ EndOfPacket \/ HandleMessage \/ UNCHANGED vars
            \/ \E p \in Packets : Send(p)
            \/ \E n \in RecvSizes : RecvCheck(n)
  BY <1>8, <1>13 DEF ProcessQueues, EndOfPacket, HandleMessage, Send, RecvCheck,
     vars, queues
<1> QED
  BY <1>1, <1>2, <1>3, <1>5, <1>6, <1>9, <1>10, <1>11, <1>12, <1>13
     DEF Next, Game, DwThread, EnqueuePacket, Writers

-----------------------------------------------------------------------------
(* The packets and the places of dw_thread                                 *)

(* Packets are taken with their content.                                   *)
LEMMA ContentStep == Inv /\ ContentInv /\ [Next]_vars => ContentInv'
<1> SUFFICES ASSUME TypeOK, NumberInv, ContentInv, [Next]_vars PROVE ContentInv'
  BY DEF Inv
<1> DEFINE Item == [num : Nat, frames : Packets]
<1>0. /\ incomingQueue \in Seq(Item) /\ packet.num \in Nat /\ sent \in Seq(Packets)
      /\ Len(incomingQueue) \in Nat /\ Len(sent) \in Nat
      /\ packet.num + Len(incomingQueue) = Len(sent)
  BY DEF TypeOK, NumberInv
<1>1. ASSUME NEW p \in Packets, Send(p) PROVE ContentInv'
  <2> DEFINE x == [num |-> Len(sent) + 1, frames |-> p]
  <2>1. x \in Item /\ x.frames = p
    BY <1>0
  <2>2. /\ incomingQueue' = Append(incomingQueue, x) /\ sent' = Append(sent, p)
        /\ packet' = packet /\ pc' = pc
    BY <1>1 DEF Send, dwVars
  <2> HIDE DEF x, Item
  <2>3. /\ Len(incomingQueue') = Len(incomingQueue) + 1
        /\ incomingQueue'[Len(incomingQueue) + 1] = x
        /\ \A i \in 1..Len(incomingQueue) : incomingQueue'[i] = incomingQueue[i]
    BY <1>0, <2>1, <2>2
  <2>4. /\ Len(sent') = Len(sent) + 1 /\ sent'[Len(sent) + 1] = p
        /\ \A i \in 1..Len(sent) : sent'[i] = sent[i]
    BY <1>0, <2>2
  <2>5. ASSUME NEW i \in 1..Len(incomingQueue')
        PROVE  incomingQueue'[i].frames = sent'[packet'.num + i]
    <3>1. CASE i \in 1..Len(incomingQueue)
      <4>1. packet.num + i \in 1..Len(sent)
        BY <1>0, <3>1
      <4> QED
        BY <2>2, <2>3, <2>4, <3>1, <4>1 DEF ContentInv
    <3>2. CASE i = Len(incomingQueue) + 1
      <4>1. packet.num + i = Len(sent) + 1
        BY <1>0, <3>2
      <4> QED
        BY <2>1, <2>2, <2>3, <2>4, <3>2, <4>1
    <3> QED
      BY <1>0, <2>3, <3>1, <3>2
  <2>6. packet.num > 0 => packet.num \in 1..Len(sent)
    BY <1>0
  <2> QED
    BY <2>2, <2>4, <2>5, <2>6 DEF ContentInv
<1>2. CASE ProcessQueues
  <2>1. /\ incomingQueue # <<>>
        /\ packet' = Head(incomingQueue) /\ incomingQueue' = Tail(incomingQueue)
        /\ sent' = sent
    BY <1>2 DEF ProcessQueues
  <2> HIDE DEF Item
  <2>2. /\ Len(incomingQueue) \in Nat \ {0}
        /\ packet' = incomingQueue[1]
        /\ Len(incomingQueue') = Len(incomingQueue) - 1
        /\ \A i \in 1..Len(incomingQueue') : incomingQueue'[i] = incomingQueue[i + 1]
    BY <1>0, <2>1
  <2>3. packet'.num = packet.num + 1 /\ packet'.frames = sent[packet.num + 1]
    BY <2>2 DEF NumberInv, ContentInv
  <2>4. ASSUME NEW i \in 1..Len(incomingQueue')
        PROVE  incomingQueue'[i].frames = sent'[packet'.num + i]
    <3>0. i \in Nat /\ i + 1 \in 1..Len(incomingQueue)
      BY <2>2
    <3>1. packet'.num + i = packet.num + (i + 1)
      <4> DEFINE m == packet.num
      <4>1. m \in Nat /\ packet'.num = m + 1
        BY <1>0, <2>3
      <4> HIDE DEF m
      <4>2. packet'.num + i = m + (i + 1)
        BY <3>0, <4>1
      <4> QED
        BY <4>2 DEF m
    <3>2. incomingQueue[i + 1].frames = sent[packet.num + (i + 1)]
      BY <3>0 DEF ContentInv
    <3> QED
      BY <2>1, <2>2, <3>1, <3>2
  <2>5. packet'.num # 0
    BY <1>0, <2>3
  <2> QED
    BY <2>1, <2>3, <2>4, <2>5 DEF ContentInv
<1>3. ASSUME UNCHANGED <<sent, incomingQueue, packet>>, packet.num # 0 \/ UNCHANGED pc
      PROVE  ContentInv'
  BY <1>3 DEF ContentInv
<1>4. packet.num = 0 => pc["dw"] = "idle"
  BY DEF ContentInv
<1>5. CASE \/ EndOfPacket \/ EmptyMessage \/ HandleMessage \/ HandleRequest \/ Fallback
           \/ EnqueuePacket("dw")
  BY <1>3, <1>4, <1>5 DEF EndOfPacket, EmptyMessage, HandleMessage, HandleRequest, Fallback,
     EnqueuePacket, Enter, Push, Leave, Mark, queues, dwVars
<1>6. CASE EnqueuePacket("pm") \/ ImReceived
  <2>1. UNCHANGED <<sent, incomingQueue, packet>> /\ pc'["dw"] = pc["dw"]
    BY <1>6 DEF EnqueuePacket, Enter, Push, Leave, Mark, ImReceived, StartFrame, queues, dwVars, TypeOK, Writers
  <2> QED
    BY <2>1 DEF ContentInv
<1>7. CASE \/ \E n \in RecvSizes : RecvCheck(n)
           \/ Dequeue \/ UNCHANGED vars
  BY <1>3, <1>7 DEF RecvCheck, Dequeue, vars, queues, dwVars
<1> QED
  BY <1>1, <1>2, <1>5, <1>6, <1>7 DEF Next, Game, DwThread

(* A step of dw_thread's that is none leaves what PlaceInv says of it.     *)
LEMMA PlaceSame ==
  ASSUME PlaceInv, UNCHANGED <<packet, pos, ret>>, pc'["dw"] = pc["dw"], frame'["dw"] = frame["dw"],
         pc'["pm"] # "idle" => ims' > 0 /\ frame'["pm"] = [src |-> "im", num |-> ims', idx |-> 0]
  PROVE  PlaceInv'
<1>1. Current' = Current
  BY DEF Current
<1> QED
  BY <1>1 DEF PlaceInv

(* A step of dw_thread's leaves what PlaceInv says of the callback.        *)
LEMMA PlaceOfCallback ==
  ASSUME TypeOK, PlaceInv, DwThread
  PROVE  pc'["pm"] # "idle" => ims' > 0 /\ frame'["pm"] = [src |-> "im", num |-> ims', idx |-> 0]
<1>1. pc'["pm"] = pc["pm"] /\ frame'["pm"] = frame["pm"] /\ ims' = ims
  BY DEF DwThread, ProcessQueues, EndOfPacket, EmptyMessage, HandleMessage, HandleRequest, Fallback,
     EnqueuePacket, Enter, Push, Leave, Mark, StartFrame, TypeOK, Writers
<1> QED
  BY <1>1 DEF PlaceInv

(* The place of dw_thread fits the message at pos after every step.        *)
LEMMA PlaceStep == Inv /\ PlaceInv /\ HasInv /\ [Next]_vars => PlaceInv'
<1> SUFFICES ASSUME TypeOK, PlaceInv, HasInv, [Next]_vars PROVE PlaceInv'
  BY DEF Inv
<1> DEFINE CallbackSame == pc'["pm"] # "idle" =>
             ims' > 0 /\ frame'["pm"] = [src |-> "im", num |-> ims', idx |-> 0]
<1>0. /\ "dw" \in Writers /\ "pm" \in Writers
      /\ Requests = {"ticket", "reply", "silent"} /\ Breaks = {"stop", "empty"}
  BY DEF Writers, Requests, Kinds, Breaks
<1>1. pos \in Nat \ {0}
  BY DEF TypeOK
<1>2. Current \in Requests => pos <= Len(packet.frames) /\ packet.frames[pos] = Current
  BY <1>0 DEF Current
<1>3. \A j \in 1..(pos - 1) : j <= Len(packet.frames) /\ packet.frames[j] \in Requests
  BY DEF PlaceInv
<1>4. Current \in Requests => \A j \in 1..((pos + 1) - 1) :
                                j <= Len(packet.frames) /\ packet.frames[j] \in Requests
  BY <1>1, <1>2, <1>3
<1>5. CASE ProcessQueues
  <2>1. pc'["dw"] = "loop" /\ pos' = 1
    BY <1>0, <1>5 DEF ProcessQueues, TypeOK
  <2>2. CallbackSame
    BY <1>5, PlaceOfCallback DEF DwThread
  <2> QED
    BY <2>1, <2>2 DEF PlaceInv
<1>6. CASE EndOfPacket
  <2>1. /\ pc'["dw"] = "idle" /\ UNCHANGED <<packet, pos>>
        /\ Current \in {"end"} \cup Breaks
    BY <1>0, <1>6 DEF EndOfPacket, TypeOK, dwVars
  <2>2. CallbackSame
    BY <1>6, PlaceOfCallback DEF DwThread
  <2>3. Current' = Current
    BY <2>1 DEF Current
  <2> QED
    BY <1>3, <2>1, <2>2, <2>3 DEF PlaceInv
<1>7. CASE HandleMessage
  <2>1. /\ pc'["dw"] = "service" /\ UNCHANGED <<packet, pos>>
        /\ Current \in Requests
    BY <1>0, <1>7 DEF HandleMessage, TypeOK, dwVars
  <2>2. CallbackSame
    BY <1>7, PlaceOfCallback DEF DwThread
  <2>3. Current' = Current
    BY <2>1 DEF Current
  <2> QED
    BY <1>3, <2>1, <2>2, <2>3 DEF PlaceInv
<1>8. ASSUME DwThread, NEW s, StartFrame("dw", Answer(s)), UNCHANGED <<packet, pos>>,
             \/ s = "reply" /\ ret' = "check" /\ Current = "reply"
             \/ s = "error" /\ ret' = "loop" /\ Current = "silent"
             \/ s = "empty" /\ ret' = "idle" /\ Current = "empty"
      PROVE  PlaceInv'
  <2>1. pc'["dw"] = "enter" /\ frame'["dw"].src = s
    BY <1>0, <1>8 DEF StartFrame, TypeOK, Answer
  <2>2. CallbackSame
    BY <1>8, PlaceOfCallback
  <2>3. Current' = Current
    BY <1>8 DEF Current
  <2> QED
    BY <1>3, <1>8, <2>1, <2>2, <2>3 DEF PlaceInv
<1>9. CASE EmptyMessage
  BY <1>8, <1>9 DEF EmptyMessage, DwThread
<1>10. CASE HandleRequest
  <2>1. CASE StartFrame("dw", Answer("reply")) /\ ret' = "check" /\ Current = "reply"
    BY <1>8, <1>10, <2>1 DEF HandleRequest, DwThread
  <2>2. CASE pc' = [pc EXCEPT !["dw"] = "check"]
    <3>1. pc'["dw"] = "check" /\ UNCHANGED <<packet, pos>> /\ Current \in Requests
      BY <1>0, <1>10, <2>2 DEF HandleRequest, TypeOK, PlaceInv
    <3>2. CallbackSame
      BY <1>10, PlaceOfCallback DEF DwThread
    <3>3. Current' = Current
      BY <3>1 DEF Current
    <3> QED
      BY <1>3, <3>1, <3>2, <3>3 DEF PlaceInv
  <2> QED
    BY <1>10, <2>1, <2>2 DEF HandleRequest
<1>11. CASE Fallback
  <2>1. pc["dw"] = "check" /\ Current \in Requests /\ UNCHANGED packet
    BY <1>11 DEF Fallback, PlaceInv
  <2>2. CASE NeedsError /\ StartFrame("dw", Answer("error")) /\ ret' = "loop" /\ UNCHANGED pos
    <3>1. Current = "silent"
      BY <1>0, <2>1, <2>2 DEF NeedsError, HasInv
    <3> QED
      BY <1>8, <1>11, <2>1, <2>2, <3>1 DEF DwThread
  <2>3. CASE pc' = [pc EXCEPT !["dw"] = "loop"] /\ pos' = pos + 1
    <3>1. pc'["dw"] = "loop" /\ packet' = packet
      BY <1>0, <2>1, <2>3 DEF TypeOK
    <3>2. CallbackSame
      BY <1>11, PlaceOfCallback DEF DwThread
    <3> QED
      BY <1>4, <2>1, <2>3, <3>1, <3>2 DEF PlaceInv
  <2> QED
    BY <1>11, <2>2, <2>3 DEF Fallback
<1>12. CASE Enter("dw") \/ Push("dw") \/ Leave("dw")
  <2>1. /\ pc["dw"] \in {"enter", "push", "mark"} /\ pc'["dw"] \in {"enter", "push", "mark"}
        /\ UNCHANGED <<packet, pos, ret>> /\ frame'["dw"] = frame["dw"]
    BY <1>0, <1>12 DEF Enter, Push, Leave, TypeOK, dwVars
  <2>2. CallbackSame
    BY <1>12, PlaceOfCallback DEF DwThread, EnqueuePacket
  <2>3. Current' = Current
    BY <2>1 DEF Current
  <2> QED
    BY <1>3, <2>1, <2>2, <2>3 DEF PlaceInv
<1>13. CASE Mark("dw")
  <2>1. /\ pc["dw"] = "mark" /\ pc'["dw"] = ret /\ UNCHANGED <<packet, ret>>
        /\ pos' = IF ret = "loop" THEN pos + 1 ELSE pos
    BY <1>0, <1>13 DEF Mark, TypeOK
  <2>2. CallbackSame
    BY <1>13, PlaceOfCallback DEF DwThread, EnqueuePacket
  <2>3. \/ ret = "check" /\ Current = "reply"
        \/ ret = "loop" /\ Current = "silent"
        \/ ret = "idle" /\ Current = "empty"
    BY <2>1 DEF PlaceInv
  <2>4. CASE ret = "loop"
    BY <1>0, <1>4, <2>1, <2>2, <2>3, <2>4 DEF PlaceInv
  <2>5. CASE ret # "loop"
    <3>1. pos' = pos /\ Current' = Current
      BY <2>1, <2>5 DEF Current
    <3> QED
      BY <1>0, <1>3, <2>1, <2>2, <2>3, <2>5, <3>1 DEF PlaceInv
  <2> QED
    BY <2>4, <2>5
<1>14. CASE EnqueuePacket("pm")
  <2>1. /\ UNCHANGED <<packet, pos, ret, frame, ims>> /\ pc'["dw"] = pc["dw"]
        /\ pc["pm"] # "idle"
    BY <1>0, <1>14 DEF EnqueuePacket, Enter, Push, Leave, Mark, TypeOK, dwVars
  <2> QED
    BY <2>1, PlaceSame DEF PlaceInv
<1>15. CASE ImReceived
  <2>1. UNCHANGED <<packet, pos, ret>> /\ pc'["dw"] = pc["dw"] /\ frame'["dw"] = frame["dw"]
    BY <1>0, <1>15 DEF ImReceived, StartFrame, TypeOK, dwVars
  <2>2. ims' > 0 /\ frame'["pm"] = [src |-> "im", num |-> ims', idx |-> 0]
    BY <1>0, <1>15, Constants DEF AllAssumptions, ImReceived, StartFrame, TypeOK
  <2> QED
    BY <2>1, <2>2, PlaceSame
<1>16. CASE UNCHANGED <<pc, dwVars, frame, ims>>
  BY <1>16, PlaceSame DEF PlaceInv, dwVars
<1> QED
  BY <1>5, <1>6, <1>7, <1>9, <1>10, <1>11, <1>12, <1>13, <1>14, <1>15, <1>16
     DEF Next, Game, DwThread, EnqueuePacket, Send, RecvCheck, Dequeue, vars

-----------------------------------------------------------------------------
(* The answers that have been written                                      *)

(* The last byte of an answer makes it one that has been written.          *)
LEMMA LastByte ==
  ASSUME Inv, AlignInv, Push("dw"), pushed["dw"] + 1 = FrameLen
  PROVE  Has(packet.num, pos)'
<1>1. TypeOK /\ LockInv /\ "dw" \in Writers
  BY DEF Inv, Writers
<1>2. Wire' = Append(Wire, frame["dw"]) /\ Wire \in Seq(Frame) /\ frame["dw"] \in Frame
  BY <1>1, WirePush, WireType DEF TypeOK
<1>3. Len(Wire') = Len(Wire) + 1 /\ Wire'[Len(Wire) + 1] = frame["dw"] /\ Len(Wire) \in Nat
  BY <1>2
<1>4. /\ frame["dw"].src # "im" /\ frame["dw"].num = packet'.num /\ frame["dw"].idx = pos'
  BY DEF Inv, FrameInv, Push, dwVars
<1>5. Len(Wire) + 1 \in 1..Len(Wire')
  BY <1>3
<1> QED
  BY <1>3, <1>4, <1>5 DEF Has

(* An answer stays written when the packet is the same.                    *)
LEMMA StillHas ==
  ASSUME Inv, AlignInv, [Next]_vars, UNCHANGED packet, NEW i, Has(packet.num, i)
  PROVE  \A j : j = i => Has(packet.num, j)'
<1>1. \A n : n = packet.num => Has(n, i)'
  BY HasStays
<1> QED
  BY <1>1 DEF Has

(* The messages before pos keep their answers while the packet is the same *)
(* and pos is, or moves on from a message that has its answer or needs     *)
(* none.                                                                   *)
LEMMA EarlierHave ==
  ASSUME Inv, AlignInv, HasInv, [Next]_vars, UNCHANGED packet,
         \/ pos' = pos
         \/ pos' = pos + 1 /\ (packet.frames[pos] = "reply" => Has(packet.num, pos))
  PROVE  \A j \in 1..(pos' - 1) : packet'.frames[j] = "reply" => Has(packet.num, j)'
<1> TAKE j \in 1..(pos' - 1)
<1> HAVE packet'.frames[j] = "reply"
<1>1. pos \in Nat \ {0}
  BY DEF Inv, TypeOK
<1>2. Has(packet.num, j)
  BY <1>1 DEF HasInv
<1> QED
  BY <1>2, StillHas

(* Every step keeps the promised answers written.                          *)
LEMMA HasStep == PipeInv /\ [Next]_vars => HasInv'
<1> SUFFICES ASSUME PipeInv, [Next]_vars PROVE HasInv'
  OBVIOUS
<1>0. Inv /\ TypeOK /\ PlaceInv /\ HasInv /\ AlignInv
  BY DEF PipeInv, Inv
<1>1. /\ "dw" \in Writers /\ "pm" \in Writers
      /\ Requests = {"ticket", "reply", "silent"} /\ Breaks = {"stop", "empty"}
  BY DEF Writers, Requests, Kinds, Breaks
<1>2. pos \in Nat \ {0}
  BY <1>0 DEF TypeOK
<1>3. Current \in Requests => packet.frames[pos] = Current
  BY <1>1 DEF Current
<1> DEFINE Earlier == \A j \in 1..(pos' - 1) : packet'.frames[j] = "reply" => Has(packet.num, j)'
<1>4. CASE ProcessQueues
  <2>1. pc'["dw"] = "loop" /\ pos' = 1
    BY <1>0, <1>1, <1>4 DEF ProcessQueues, TypeOK
  <2> QED
    BY <2>1 DEF HasInv
<1>5. CASE EndOfPacket
  <2>1. /\ pc'["dw"] = "idle" /\ UNCHANGED <<packet, pos>>
        /\ Current \in {"end", "stop"}
    BY <1>0, <1>1, <1>5 DEF EndOfPacket, TypeOK, dwVars
  <2>2. Current' = Current
    BY <2>1 DEF Current
  <2>3. Earlier
    BY <1>0, <2>1, EarlierHave
  <2> QED
    BY <2>1, <2>2, <2>3 DEF HasInv
<1>6. CASE HandleMessage
  <2>1. pc'["dw"] = "service" /\ UNCHANGED <<packet, pos>>
    BY <1>0, <1>1, <1>6 DEF HandleMessage, TypeOK, dwVars
  <2>2. Earlier
    BY <1>0, <2>1, EarlierHave
  <2> QED
    BY <2>1, <2>2 DEF HasInv
<1>7. ASSUME NEW s, StartFrame("dw", Answer(s)), UNCHANGED <<packet, pos>> PROVE HasInv'
  <2>1. pc'["dw"] = "enter"
    BY <1>0, <1>1, <1>7 DEF StartFrame, TypeOK
  <2>2. Earlier
    BY <1>0, <1>7, EarlierHave
  <2> QED
    BY <1>7, <2>1, <2>2 DEF HasInv
<1>8. CASE EmptyMessage
  BY <1>7, <1>8 DEF EmptyMessage
<1>9. CASE HandleRequest
  <2>1. CASE StartFrame("dw", Answer("reply"))
    BY <1>7, <1>9, <2>1 DEF HandleRequest
  <2>2. CASE Current # "reply" /\ pc' = [pc EXCEPT !["dw"] = "check"]
    <3>1. pc'["dw"] = "check" /\ UNCHANGED <<packet, pos>>
      BY <1>0, <1>1, <1>9, <2>2 DEF HandleRequest, TypeOK
    <3>2. Current' # "reply"
      BY <2>2, <3>1 DEF Current
    <3>3. Earlier
      BY <1>0, <3>1, EarlierHave
    <3> QED
      BY <3>1, <3>2, <3>3 DEF HasInv
  <2> QED
    BY <1>9, <2>1, <2>2 DEF HandleRequest
<1>10. CASE Fallback
  <2>1. pc["dw"] = "check" /\ Current \in Requests /\ UNCHANGED packet
    BY <1>0, <1>10 DEF Fallback, PlaceInv
  <2>2. CASE StartFrame("dw", Answer("error")) /\ UNCHANGED pos
    BY <1>7, <2>1, <2>2
  <2>3. CASE pc' = [pc EXCEPT !["dw"] = "loop"] /\ pos' = pos + 1
    <3>1. pc'["dw"] = "loop"
      BY <1>0, <1>1, <2>3 DEF TypeOK
    <3>2. packet.frames[pos] = "reply" => Has(packet.num, pos)
      BY <1>0, <1>3, <2>1 DEF HasInv
    <3>3. Earlier
      BY <1>0, <2>1, <2>3, <3>2, EarlierHave
    <3> QED
      BY <2>1, <3>1, <3>3 DEF HasInv
  <2> QED
    BY <1>10, <2>2, <2>3 DEF Fallback
<1>11. CASE Enter("dw")
  <2>1. pc'["dw"] = "push" /\ pushed'["dw"] = 0 /\ UNCHANGED <<packet, pos>>
    BY <1>0, <1>1, <1>11 DEF Enter, TypeOK, dwVars, Inv, LockInv
  <2>2. Earlier
    BY <1>0, <2>1, EarlierHave
  <2> QED
    BY <2>1, <2>2, Constants DEF HasInv, AllAssumptions
<1>12. CASE Push("dw")
  <2>1. /\ pc'["dw"] = "push" /\ pushed'["dw"] = pushed["dw"] + 1 /\ UNCHANGED <<packet, pos>>
    BY <1>0, <1>1, <1>12 DEF Push, TypeOK, dwVars
  <2>2. Earlier
    BY <1>0, <2>1, EarlierHave
  <2>3. pushed'["dw"] = FrameLen => Has(packet.num, pos)'
    BY <1>0, <1>12, <2>1, LastByte
  <2> QED
    BY <2>1, <2>2, <2>3 DEF HasInv
<1>13. CASE Leave("dw")
  <2>1. /\ pc["dw"] = "push" /\ pushed["dw"] = FrameLen
        /\ pc'["dw"] = "mark" /\ UNCHANGED <<packet, pos>>
    BY <1>0, <1>1, <1>13 DEF Leave, TypeOK, dwVars
  <2>2. Earlier
    BY <1>0, <2>1, EarlierHave
  <2>3. Has(packet.num, pos)'
    BY <1>0, <2>1, StillHas DEF HasInv
  <2> QED
    BY <2>1, <2>2, <2>3 DEF HasInv
<1>14. CASE Mark("dw")
  <2>1. /\ pc["dw"] = "mark" /\ pc'["dw"] = ret /\ UNCHANGED <<packet, ret>> /\ queuedPacket'
        /\ pos' = IF ret = "loop" THEN pos + 1 ELSE pos
    BY <1>0, <1>1, <1>14 DEF Mark, TypeOK
  <2>2. Has(packet.num, pos)
    BY <1>0, <2>1 DEF HasInv
  <2>3. Earlier
    BY <1>0, <2>1, <2>2, EarlierHave
  <2>4. CASE ret = "loop"
    BY <2>1, <2>3, <2>4 DEF HasInv
  <2>5. CASE ret # "loop"
    <3>1. pos' = pos /\ Has(packet.num, pos)'
      BY <1>0, <2>1, <2>2, <2>5, StillHas
    <3> QED
      BY <2>1, <2>3, <3>1 DEF HasInv
  <2> QED
    BY <2>4, <2>5
<1>15. ASSUME UNCHANGED <<packet, pos>>, pc'["dw"] = pc["dw"], pushed'["dw"] = pushed["dw"],
              queuedPacket' = queuedPacket \/ queuedPacket'
       PROVE  HasInv'
  <2>1. Current' = Current
    BY <1>15 DEF Current
  <2>2. Earlier
    BY <1>0, <1>15, EarlierHave
  <2>3. Has(packet.num, pos) => Has(packet.num, pos)'
    BY <1>0, <1>15, StillHas
  <2> QED
    BY <1>0, <1>15, <2>1, <2>2, <2>3 DEF HasInv
<1>16. CASE EnqueuePacket("pm")
  <2>1. /\ UNCHANGED <<packet, pos>> /\ pc'["dw"] = pc["dw"] /\ pushed'["dw"] = pushed["dw"]
        /\ queuedPacket' = queuedPacket \/ queuedPacket'
    BY <1>0, <1>1, <1>16 DEF EnqueuePacket, Enter, Push, Leave, Mark, TypeOK, dwVars
  <2> QED
    BY <1>15, <2>1
<1>17. CASE ImReceived
  <2>1. /\ UNCHANGED <<packet, pos, queuedPacket>> /\ pc'["dw"] = pc["dw"]
        /\ pushed'["dw"] = pushed["dw"]
    BY <1>0, <1>1, <1>17 DEF ImReceived, StartFrame, TypeOK, dwVars
  <2> QED
    BY <1>15, <2>1
<1>18. CASE UNCHANGED <<pc, packet, pos, pushed, queuedPacket>>
  BY <1>15, <1>18
<1> QED
  BY <1>4, <1>5, <1>6, <1>8, <1>9, <1>10, <1>11, <1>12, <1>13, <1>14, <1>16, <1>17, <1>18
     DEF Next, Game, DwThread, EnqueuePacket, Send, RecvCheck, Dequeue, vars, dwVars

(* The invariant holds at first, and every step keeps it.                 *)
LEMMA InitPipeInv == Init => PipeInv
<1> SUFFICES ASSUME Init PROVE PipeInv
  OBVIOUS
<1>1. Inv
  BY InitInv
<1>2. /\ packet = [num |-> 0, frames |-> <<>>] /\ pos = 1 /\ pc = [t \in Writers |-> "idle"]
      /\ incomingQueue = <<>> /\ "dw" \in Writers /\ "pm" \in Writers /\ critSec = NoOne
  BY DEF Init, Writers
<1>3. ContentInv
  BY <1>2 DEF ContentInv
<1>4. Current = "end"
  BY <1>2 DEF Current
<1>5. PlaceInv
  BY <1>2, <1>4 DEF PlaceInv
<1>6. HasInv
  BY <1>2, <1>4 DEF HasInv
<1>7. AlignInv
  <2>1. Len(Stream) = 0
    BY DEF Init, Stream
  <2>2. Len(Stream) = FrameLen * 0 + 0 /\ FrameLen \in Nat \ {0} /\ 0 \in 0..(FrameLen - 1)
    BY <2>1, Constants DEF AllAssumptions
  <2>3. Len(Stream) \div FrameLen = 0 /\ Len(Stream) % FrameLen = 0
    BY <2>1, <2>2
  <2> QED
    BY <1>2, <2>3 DEF AlignInv
<1> QED
  BY <1>1, <1>3, <1>5, <1>6, <1>7 DEF PipeInv

LEMMA PipeInvStep == PipeInv /\ [Next]_vars => PipeInv'
  BY InvStep, ContentStep, PlaceStep, AlignStep, HasStep DEF PipeInv

LEMMA PipeInvariance == Spec => []PipeInv
  BY InitPipeInv, PipeInvStep, PTL DEF Spec

-----------------------------------------------------------------------------
(* The steps of the server are steps of RequestPipe, or stutter.           *)

Served == IF pc["dw"] = "idle" THEN packet.num ELSE packet.num - 1

(* What RequestPipe names, in the server's terms.                          *)
LEMMA PipeTerms ==
  /\ \A n, i : Pipe!HasAnswer(n, i) <=> Has(n, i)
  /\ \A n : Pipe!Answers(n) = {k \in 1..Len(Wire) : Wire[k].src # "im" /\ Wire[k].num = n}
  BY DEF Pipe!HasAnswer, Pipe!Answers, Has

(* The packet in hand is a sequence of kinds, also before the first one.   *)
LEMMA FramesType == TypeOK => packet.frames \in Seq(Kinds)
<1> SUFFICES ASSUME TypeOK PROVE packet.frames \in Seq(Kinds)
  OBVIOUS
<1>1. packet.frames \in Packets \cup {<<>>}
  BY DEF TypeOK
<1>2. CASE packet.frames \in Packets
  BY <1>2, Constants, Zenon DEF AllAssumptions
<1>3. CASE packet.frames = <<>>
  <2>1. <<>> \in Seq(Kinds)
    OBVIOUS
  <2> QED
    BY <1>3, <2>1, Zenon
<1> QED
  BY <1>1, <1>2, <1>3

(* The packet being served is the one in hand.                             *)
LEMMA InHand ==
  ASSUME PipeInv, pc["dw"] # "idle"
  PROVE  /\ packet.num \in 1..Len(sent) /\ sent[packet.num] = packet.frames
         /\ Served = packet.num - 1 /\ Served + 1 = packet.num /\ Served < Len(sent)
<1>1. packet.num \in Nat /\ Len(sent) \in Nat /\ Len(incomingQueue) \in Nat
  BY DEF PipeInv, Inv, TypeOK
<1>2. packet.num # 0 /\ packet.num <= Len(sent)
  BY <1>1 DEF PipeInv, Inv, NumberInv, ContentInv
<1>3. sent[packet.num] = packet.frames
  BY <1>1, <1>2 DEF PipeInv, ContentInv
<1> QED
  BY <1>1, <1>2, <1>3 DEF Served

(* The last byte of dw_thread's frame is the next answer.                  *)
LEMMA PipeAnswers ==
  ASSUME PipeInv, Push("dw"), pushed["dw"] + 1 = FrameLen
  PROVE  Pipe!AnswerNext
<1>0. /\ Inv /\ TypeOK /\ LockInv /\ PlaceInv /\ HasInv /\ AlignInv /\ "dw" \in Writers
      /\ FrameLen \in Nat \ {0} /\ Requests = {"ticket", "reply", "silent"}
  BY Constants DEF PipeInv, Inv, AllAssumptions, Writers, Requests, Kinds, Breaks
<1>1. /\ pc["dw"] = "push" /\ pc'["dw"] = "push"
      /\ UNCHANGED <<sent, packet, pos, ret, frame>>
  BY <1>0 DEF Push, TypeOK, dwVars
<1>2. /\ packet.num \in 1..Len(sent) /\ sent[packet.num] = packet.frames
      /\ Served + 1 = packet.num /\ Served < Len(sent)
  BY <1>1, InHand
<1>3. pos \in 1..Len(packet.frames) /\ Current = packet.frames[pos]
  <2>1. Current # "end" /\ pos \in Nat \ {0}
    BY <1>0, <1>1 DEF PlaceInv, TypeOK
  <2>2. packet.frames \in Seq(Kinds)
    BY <1>0, FramesType
  <2> QED
    BY <2>1, <2>2 DEF Current
<1>4. Pipe!Reaches(packet.frames, pos)
  BY <1>0 DEF PlaceInv, Pipe!Reaches
<1>5. ASSUME NEW k \in Pipe!Answers(packet.num) PROVE Wire[k].idx < pos
  <2> DEFINE b == Stream[k * FrameLen]
  <2>1. k \in 1..Len(Wire) /\ Wire[k].src # "im" /\ Wire[k].num = packet.num
    BY PipeTerms
  <2>2. Wire[k] = b.frame /\ k * FrameLen \in 1..Len(Stream)
    BY <1>0, <2>1, WireType
  <2>3. b.at = FrameLen
    BY <1>0, <2>1, WireType DEF AlignInv
  <2>4. \A j \in 1..Len(Stream) : IsAnswer(Stream[j]) => Past(Stream[j])
    BY <1>0, PastInvDef DEF Inv
  <2> HIDE DEF b
  <2>5. IsAnswer(b)
    BY <2>1, <2>2 DEF IsAnswer
  <2>6. Past(b)
    BY <2>2, <2>4, <2>5 DEF b
  <2>7. ~(b.at <= pushed["dw"])
    BY <1>0, <2>3 DEF TypeOK
  <2>8. packet.num \in Nat
    BY <1>0 DEF TypeOK
  <2> QED
    BY <1>1, <2>1, <2>2, <2>6, <2>7, <2>8 DEF Past
<1>6. \A j \in 1..(pos - 1) : packet.frames[j] = "reply" => Pipe!HasAnswer(packet.num, j)
  BY <1>0, PipeTerms DEF HasInv
<1>7. frame["dw"].src \in Pipe!AnswerKind(packet.frames[pos])
  BY <1>0, <1>1, <1>3 DEF PlaceInv, Pipe!AnswerKind
<1>8. Wire' = Append(Wire, [src |-> frame["dw"].src, num |-> packet.num, idx |-> pos])
  <2>1. Wire' = Append(Wire, frame["dw"])
    BY <1>0, WirePush
  <2>2. frame["dw"] \in Frame /\ frame["dw"].num = packet.num /\ frame["dw"].idx = pos
    BY <1>0, <1>1 DEF TypeOK, Inv, FrameInv
  <2>3. frame["dw"] = [src |-> frame["dw"].src, num |-> packet.num, idx |-> pos]
    BY <2>2 DEF Frame
  <2> QED
    BY <2>1, <2>3
<1>9. UNCHANGED <<sent, Served>>
  BY <1>1 DEF Served
<1>10. \E i \in 1..Len(packet.frames) :
          /\ Pipe!Reaches(packet.frames, i)
          /\ \A k \in Pipe!Answers(packet.num) : Wire[k].idx < i
          /\ \A j \in 1..(i - 1) : packet.frames[j] = "reply" => Pipe!HasAnswer(packet.num, j)
          /\ \E s \in Pipe!AnswerKind(packet.frames[i]) :
               Wire' = Append(Wire, [src |-> s, num |-> packet.num, idx |-> i])
  BY <1>3, <1>4, <1>5, <1>6, <1>7, <1>8
<1> QED
  BY <1>2, <1>9, <1>10 DEF Pipe!AnswerNext, Served

(* The last byte of the callback's frame is an instant message.            *)
LEMMA PipeNotifies ==
  ASSUME PipeInv, Push("pm"), pushed["pm"] + 1 = FrameLen
  PROVE  Pipe!Notify
<1>0. TypeOK /\ LockInv /\ PlaceInv /\ AlignInv /\ "pm" \in Writers
  BY DEF PipeInv, Inv, Writers
<1>1. pc["pm"] = "push" /\ UNCHANGED <<sent, packet, pc>>
  BY DEF Push, dwVars
<1>2. ims \in 1..MaxIMs /\ frame["pm"] = [src |-> "im", num |-> ims, idx |-> 0]
  BY <1>0, <1>1, Constants DEF AllAssumptions, PlaceInv, TypeOK
<1>3. Wire' = Append(Wire, [src |-> "im", num |-> ims, idx |-> 0])
  BY <1>0, <1>2, WirePush
<1> QED
  BY <1>1, <1>2, <1>3 DEF Pipe!Notify

(* The end of a packet: dw_thread has gone through it.                     *)
LEMMA PipeCompletes ==
  ASSUME PipeInv, [Next]_vars, EndOfPacket \/ (Mark("dw") /\ ret = "idle")
  PROVE  Pipe!Complete
<1>0. /\ Inv /\ TypeOK /\ PlaceInv /\ HasInv /\ "dw" \in Writers
      /\ Requests = {"ticket", "reply", "silent"}
  BY DEF PipeInv, Inv, Writers, Requests, Kinds, Breaks
<1>1. /\ pc["dw"] # "idle" /\ pc'["dw"] = "idle" /\ UNCHANGED <<sent, packet>>
  BY <1>0 DEF EndOfPacket, Mark, TypeOK, queues, dwVars
<1>2. /\ packet.num \in 1..Len(sent) /\ sent[packet.num] = packet.frames
      /\ Served + 1 = packet.num /\ Served < Len(sent)
  BY <1>1, InHand
<1>3. Wire' = Wire
  <2>1. Stream' = Stream
    BY DEF EndOfPacket, Mark, queues, Stream
  <2> QED
    BY <2>1 DEF Wire
<1>4. \/ Current \in {"end", "stop"}
      \/ Current = "empty" /\ Has(packet.num, pos)
  BY <1>0 DEF EndOfPacket, Mark, PlaceInv, HasInv
<1>5. ASSUME NEW i \in 1..Len(packet.frames), Pipe!Reaches(packet.frames, i),
             packet.frames[i] \in {"reply", "empty"}
      PROVE  Pipe!HasAnswer(packet.num, i)
  <2>1. pos \in Nat \ {0} /\ Len(packet.frames) \in Nat
    <3>1. packet.frames \in Seq(Kinds)
      BY <1>0, FramesType
    <3> QED
      BY <1>0, <3>1 DEF TypeOK
  <2>2. CASE i < pos
    <3>1. i \in 1..(pos - 1)
      BY <2>1, <2>2
    <3>2. packet.frames[i] = "reply"
      BY <1>0, <1>5, <3>1 DEF PlaceInv
    <3> QED
      BY <1>0, <3>1, <3>2, PipeTerms DEF HasInv
  <2>3. CASE i = pos
    <3>1. Current = packet.frames[i]
      BY <2>1, <2>3 DEF Current
    <3> QED
      BY <1>4, <1>5, <2>3, <3>1, PipeTerms
  <2>4. CASE i > pos
    <3>1. pos \in 1..(i - 1) /\ Current = packet.frames[pos]
      BY <2>1, <2>4 DEF Current
    <3>2. packet.frames[pos] \notin {"stop", "empty"} /\ packet.frames[pos] # "end"
      <4>1. packet.frames[pos] \in Kinds
        <5>1. packet.frames \in Seq(Kinds) /\ pos \in 1..Len(packet.frames)
          BY <1>0, <2>1, <2>4, FramesType
        <5> QED
          BY <5>1
      <4> QED
        BY <1>5, <3>1, <4>1 DEF Pipe!Reaches, Kinds
    <3> QED
      BY <1>4, <3>1, <3>2
  <2> QED
    BY <2>1, <2>2, <2>3, <2>4
<1>6. Served' = Served + 1
  BY <1>1, <1>2 DEF Served
<1> QED
  BY <1>1, <1>2, <1>3, <1>5, <1>6 DEF Pipe!Complete, Served

(* Every step maps to a step of RequestPipe or to none.                    *)
LEMMA PipeStep == PipeInv /\ [Next]_vars => [Pipe!Next]_(Pipe!vars)
<1> SUFFICES ASSUME PipeInv, [Next]_vars PROVE Pipe!Next \/ UNCHANGED <<sent, Served, Wire>>
  BY DEF Pipe!vars, Served
<1>0. /\ TypeOK /\ LockInv /\ NumberInv /\ PlaceInv /\ AlignInv
      /\ "dw" \in Writers /\ "pm" \in Writers
  BY DEF PipeInv, Inv, Writers
<1>1. ASSUME NEW t \in Writers, Push(t) PROVE Pipe!Next \/ UNCHANGED <<sent, Served, Wire>>
  <2>1. CASE pushed[t] + 1 = FrameLen
    <3>1. CASE t = "dw"
      BY <1>1, <2>1, <3>1, PipeAnswers DEF Pipe!Next
    <3>2. CASE t = "pm"
      BY <1>1, <2>1, <3>2, PipeNotifies DEF Pipe!Next
    <3> QED
      BY <3>1, <3>2 DEF Writers
  <2>2. CASE pushed[t] + 1 < FrameLen
    <3>1. Wire' = Wire
      BY <1>0, <1>1, <2>2, WirePush
    <3> QED
      BY <1>1, <3>1 DEF Push, Served, dwVars
  <2> QED
    BY <1>0, <1>1, <2>1, <2>2, Constants DEF AllAssumptions, Push, TypeOK
<1>2. ASSUME NEW p \in Packets, Send(p) PROVE Pipe!Next
  <2>1. Wire' = Wire
    BY <1>2 DEF Send, Wire, Stream
  <2>2. Pipe!Submit(p)
    BY <1>2, <2>1 DEF Send, Pipe!Submit, dwVars
  <2> QED
    BY <2>2 DEF Pipe!Next
<1>3. CASE EndOfPacket \/ (Mark("dw") /\ ret = "idle")
  BY <1>3, PipeCompletes DEF Pipe!Next
<1>4. ASSUME sent' = sent, packet' = packet, pc'["dw"] = "idle" <=> pc["dw"] = "idle",
             Wire' = Wire
      PROVE  UNCHANGED <<sent, Served, Wire>>
  BY <1>4 DEF Served
<1>5. CASE ProcessQueues
  <2>1. /\ pc["dw"] = "idle" /\ pc'["dw"] = "loop" /\ sent' = sent
        /\ incomingQueue # <<>> /\ packet' = Head(incomingQueue)
    BY <1>0, <1>5 DEF ProcessQueues, TypeOK
  <2>2. packet'.num = packet.num + 1 /\ packet.num \in Nat
    <3>1. incomingQueue \in Seq([num : Nat, frames : Packets]) /\ packet.num \in Nat
      BY <1>0 DEF TypeOK
    <3>2. packet' = incomingQueue[1] /\ 1 \in 1..Len(incomingQueue)
      BY <2>1, <3>1
    <3> QED
      BY <1>0, <3>1, <3>2 DEF NumberInv
  <2>3. Wire' = Wire
    BY <1>5 DEF ProcessQueues, Wire, Stream
  <2> QED
    BY <2>1, <2>2, <2>3 DEF Served
<1>6. ASSUME Wire' = Wire, \A t \in Writers : ~Push(t), ~ProcessQueues, ~EndOfPacket,
             ~(Mark("dw") /\ ret = "idle"), \A p \in Packets : ~Send(p)
      PROVE  UNCHANGED <<sent, Served, Wire>>
  <2>1. sent' = sent /\ packet' = packet
    BY <1>6 DEF Next, Game, DwThread, EnqueuePacket, RecvCheck, Dequeue, Enter, Leave, Mark,
       ImReceived, EmptyMessage, HandleMessage, HandleRequest, Fallback, vars, queues, dwVars, Writers
  <2>2. CASE EnqueuePacket("dw")
    <3>1. Enter("dw") \/ Leave("dw") \/ (Mark("dw") /\ ret # "idle")
      BY <1>0, <1>6, <2>2 DEF EnqueuePacket
    <3>2. pc["dw"] # "idle" /\ pc'["dw"] # "idle"
      BY <1>0, <3>1 DEF Enter, Leave, Mark, TypeOK
    <3> QED
      BY <1>4, <1>6, <2>1, <3>2
  <2>3. CASE EmptyMessage \/ HandleMessage \/ HandleRequest \/ Fallback
    <3>1. pc["dw"] # "idle" /\ pc'["dw"] # "idle"
      BY <1>0, <2>3 DEF EmptyMessage, HandleMessage, HandleRequest, Fallback, StartFrame, TypeOK
    <3> QED
      BY <1>4, <1>6, <2>1, <3>1
  <2>4. CASE ~DwThread
    <3>1. pc'["dw"] = pc["dw"]
      BY <1>0, <1>6, <2>4 DEF Next, Game, EnqueuePacket, RecvCheck, Dequeue, Enter, Leave, Mark,
         ImReceived, StartFrame, vars, TypeOK
    <3> QED
      BY <1>4, <1>6, <2>1, <3>1
  <2> QED
    BY <1>6, <2>2, <2>3, <2>4 DEF DwThread
<1> QED
  BY <1>0, <1>1, <1>2, <1>3, <1>5, <1>6, WireOther

(* The server's initial states are RequestPipe's.                          *)
LEMMA PipeInit == Init => Pipe!Init
<1> SUFFICES ASSUME Init PROVE Pipe!Init
  OBVIOUS
<1>1. Len(Stream) = 0
  BY DEF Init, Stream
<1>2. Len(Stream) \div FrameLen = 0
  <2>1. Len(Stream) = FrameLen * 0 + 0 /\ FrameLen \in Nat \ {0} /\ 0 \in 0..(FrameLen - 1)
    BY <1>1, Constants DEF AllAssumptions
  <2> QED
    BY <1>1, <2>1
<1>3. Wire = <<>>
  BY <1>2 DEF Wire
<1>4. pc["dw"] = "idle" /\ packet.num = 0 /\ sent = <<>>
  BY DEF Init, Writers
<1> QED
  BY <1>3, <1>4 DEF Pipe!Init

(* The server keeps what RequestPipe promises, but for its liveness: the   *)
(* packets are served one at a time in the order sent, their messages are  *)
(* answered in order, each at most once and by its kind, none that must be *)
(* answered is skipped, and only whole instant messages come between.      *)
THEOREM ServerKeepsPipe == Spec => Pipe!Init /\ [][Pipe!Next]_(Pipe!vars)
  BY PipeInit, PipeStep, PipeInvariance, PTL DEF Spec

-----------------------------------------------------------------------------
(* Requests that get no answer                                             *)

(* Message i of packet n is one of Missed.                                 *)
IsMissed(n, i) ==
  /\ n \in 1..Len(sent) /\ i \in Reached(n)
  /\ n < packet.num \/ (n = packet.num /\ i < pos)
  /\ sent[n][i] # "ticket" /\ ~Answered(n, i)

(* Missed is the set of these pairs.                                       *)
LEMMA MissedAre ==
  /\ \A n, i : IsMissed(n, i) => <<n, i>> \in Missed
  /\ \A m \in Missed : \E n, i : m = <<n, i>> /\ IsMissed(n, i)
<1> DEFINE D(n) == {n} \X {i \in Reached(n) : n < packet.num \/ (n = packet.num /\ i < pos)}
<1>1. Done = UNION {D(n) : n \in 1..Len(sent)}
  BY DEF Done
<1>2. ASSUME NEW n, NEW i, IsMissed(n, i) PROVE <<n, i>> \in Missed
  <2>1. <<n, i>> \in D(n) /\ n \in 1..Len(sent)
    BY <1>2 DEF IsMissed
  <2>2. <<n, i>> \in Done
    <3> HIDE DEF D
    <3> QED
      BY <1>1, <2>1
  <2> QED
    BY <1>2, <2>2 DEF Missed, IsMissed
<1>3. ASSUME NEW m \in Missed PROVE \E n, i : m = <<n, i>> /\ IsMissed(n, i)
  <2>1. m \in Done /\ sent[m[1]][m[2]] # "ticket" /\ ~Answered(m[1], m[2])
    BY DEF Missed
  <2>2. PICK n \in 1..Len(sent) : m \in D(n)
    <3> HIDE DEF D
    <3> QED
      BY <1>1, <2>1
  <2>3. PICK i \in Reached(n) : m = <<n, i>> /\ (n < packet.num \/ (n = packet.num /\ i < pos))
    BY <2>2
  <2>4. IsMissed(n, i)
    BY <2>1, <2>3 DEF IsMissed
  <2> QED
    BY <2>3, <2>4
<1> QED
  BY <1>2, <1>3

(* The same after a step. *)
LEMMA MissedAfter ==
  ASSUME NEW m \in Missed'
  PROVE  \E n, i : m = <<n, i>> /\ IsMissed(n, i)'
<1> DEFINE D(n) == {n} \X {i \in Reached(n)' : n < packet'.num \/ (n = packet'.num /\ i < pos')}
<1>1. Done' = UNION {D(n) : n \in 1..Len(sent')}
  BY DEF Done
<1>2. m \in Done' /\ sent'[m[1]][m[2]] # "ticket" /\ ~Answered(m[1], m[2])'
  BY DEF Missed
<1>3. PICK n \in 1..Len(sent') : m \in D(n)
  <2> HIDE DEF D
  <2> QED
    BY <1>1, <1>2
<1>4. PICK i \in Reached(n)' : m = <<n, i>> /\ (n < packet'.num \/ (n = packet'.num /\ i < pos'))
  BY <1>3
<1>5. IsMissed(n, i)'
  BY <1>2, <1>4 DEF IsMissed
<1> QED
  BY <1>4, <1>5

(* An answer that is whole is one.                                         *)
LEMMA HasAnswered ==
  ASSUME TypeOK, NEW n, NEW i, Has(n, i)
  PROVE  Answered(n, i)
<1>1. PICK k \in 1..Len(Wire) : Wire[k].src # "im" /\ Wire[k].num = n /\ Wire[k].idx = i
  BY DEF Has
<1>2. Wire[k] = Stream[k * FrameLen].frame /\ k * FrameLen \in 1..Len(Stream)
  BY WireType
<1> QED
  BY <1>1, <1>2 DEF Answered, IsAnswer

(* What is answered stays so. *)
LEMMA AnsweredStays ==
  ASSUME TypeOK, [Next]_vars, NEW n, NEW i, Answered(n, i)
  PROVE  Answered(n, i)'
<1>1. PICK k \in 1..Len(Stream) : IsAnswer(Stream[k]) /\ Stream[k].frame.num = n /\ Stream[k].frame.idx = i
  BY DEF Answered
<1>2. k \in 1..Len(Stream') /\ Stream'[k] = Stream[k]
  <2>1. Len(Stream) \in Nat
    BY StreamType
  <2>2. ASSUME NEW t \in Writers, Push(t) PROVE k \in 1..Len(Stream') /\ Stream'[k] = Stream[k]
    <3>1. Len(Stream') = Len(Stream) + 1 /\ \A j \in 1..Len(Stream) : Stream'[j] = Stream[j]
      BY <2>2, PushStream
    <3> QED
      BY <2>1, <3>1
  <2>3. CASE \A t \in Writers : ~Push(t)
    BY <2>3, WireOther
  <2> QED
    BY <2>2, <2>3
<1> QED
  BY <1>1, <1>2 DEF Answered, IsAnswer

(* The only step that leaves a request without an answer is the end of     *)
(* handleMessage for one whose service sent none, with queuedPacket set.   *)
LEMMA OneMoreMissed ==
  ASSUME PipeInv, [Next]_vars, NEW n, NEW i, IsMissed(n, i)', ~IsMissed(n, i)
  PROVE  /\ Fallback /\ ~NeedsError /\ Current = "silent"
         /\ n = packet.num /\ i = pos
<1>0. /\ Inv /\ TypeOK /\ PlaceInv /\ HasInv /\ ContentInv /\ NumberInv /\ "dw" \in Writers
      /\ Requests = {"ticket", "reply", "silent"} /\ Breaks = {"stop", "empty"}
  BY DEF PipeInv, Inv, Writers, Requests, Kinds, Breaks
<1>1. /\ packet.num \in Nat /\ pos \in Nat \ {0} /\ Len(sent) \in Nat /\ packet.num <= Len(sent)
      /\ sent \in Seq(Packets)
  BY <1>0 DEF TypeOK, NumberInv
<1>2. ~Answered(n, i)
  BY <1>0, AnsweredStays DEF IsMissed
<1>3. /\ n \in Nat /\ n >= 1 /\ i \in Nat /\ i >= 1
      /\ n \in 1..Len(sent') /\ i \in 1..Len(sent'[n]) /\ \A j \in 1..i : sent'[n][j] \notin Breaks
      /\ sent'[n][i] # "ticket"
      /\ n < packet'.num \/ (n = packet'.num /\ i < pos')
  BY DEF IsMissed, Reached
<1>4. ASSUME n <= packet.num, sent'[n] = sent[n]
      PROVE  n = packet.num /\ ~(i < pos) /\ packet.frames = sent'[n]
  <2>1. n \in 1..Len(sent)
    BY <1>1, <1>3, <1>4
  <2>2. i \in Reached(n) /\ sent[n][i] # "ticket"
    BY <1>3, <1>4 DEF Reached
  <2>3. ~(n < packet.num) /\ ~(n = packet.num /\ i < pos)
    BY <1>2, <2>1, <2>2 DEF IsMissed
  <2>4. n = packet.num
    BY <1>1, <1>3, <1>4, <2>3
  <2> QED
    BY <1>0, <1>1, <1>3, <1>4, <2>3, <2>4 DEF ContentInv
<1>5. ASSUME UNCHANGED <<packet, pos>>, sent' = sent \/ \E p \in Packets : sent' = Append(sent, p)
      PROVE  FALSE
  <2>1. n <= packet.num
    BY <1>1, <1>3, <1>5
  <2>2. n \in 1..Len(sent)
    BY <1>1, <1>3, <2>1
  <2>3. sent'[n] = sent[n]
    BY <1>1, <1>5, <2>2
  <2> QED
    BY <1>3, <1>4, <1>5, <2>1, <2>3
<1>6. CASE ProcessQueues
  <2>1. /\ pc["dw"] = "idle" /\ sent' = sent /\ pos' = 1
        /\ incomingQueue # <<>> /\ packet' = Head(incomingQueue)
    BY <1>6 DEF ProcessQueues
  <2>2. packet'.num = packet.num + 1
    <3>1. incomingQueue \in Seq([num : Nat, frames : Packets])
      BY <1>0 DEF TypeOK
    <3>2. packet' = incomingQueue[1] /\ 1 \in 1..Len(incomingQueue)
      BY <2>1, <3>1
    <3> QED
      BY <1>0, <3>2 DEF NumberInv
  <2>3. n <= packet.num
    BY <1>1, <1>3, <2>1, <2>2
  <2>4. ~(i < pos) /\ packet.frames = sent'[n]
    BY <1>4, <2>1, <2>3
  <2>5. pos \in 1..i /\ pos <= Len(packet.frames)
    BY <1>1, <1>3, <2>4
  <2>6. Current = packet.frames[pos] /\ packet.frames[pos] \notin Breaks
    BY <1>3, <2>4, <2>5 DEF Current
  <2>7. packet.frames[pos] \in Kinds
    <3>1. packet.frames \in Seq(Kinds) /\ pos \in 1..Len(packet.frames)
      BY <1>0, <1>1, <2>5, FramesType
    <3> QED
      BY <3>1
  <2>8. Current # "end"
    BY <2>6, <2>7 DEF Kinds
  <2> QED
    BY <1>0, <2>1, <2>6, <2>8 DEF PlaceInv
<1>7. ASSUME pos' = pos + 1, packet' = packet, sent' = sent
      PROVE  n = packet.num /\ i = pos /\ sent[n][i] = packet.frames[pos]
  <2>1. n <= packet.num
    BY <1>1, <1>3, <1>7
  <2>2. n = packet.num /\ ~(i < pos) /\ packet.frames = sent'[n]
    BY <1>4, <1>7, <2>1
  <2>3. i = pos
    BY <1>1, <1>3, <1>7, <2>2
  <2> QED
    BY <1>7, <2>2, <2>3
<1>8. CASE Mark("dw")
  <2>1. pc["dw"] = "mark" /\ packet' = packet /\ sent' = sent /\ pos' \in {pos, pos + 1}
    BY <1>8 DEF Mark, queues
  <2>2. Answered(packet.num, pos)
    BY <1>0, <2>1, HasAnswered DEF HasInv
  <2>3. pos' # pos
    BY <1>5, <2>1
  <2> QED
    BY <1>2, <1>7, <2>1, <2>2, <2>3
<1>9. CASE Fallback
  <2>1. pc["dw"] = "check" /\ packet' = packet /\ sent' = sent /\ Current \in Requests
    BY <1>0, <1>9 DEF Fallback, queues, PlaceInv
  <2>2. pos' # pos
    BY <1>5, <2>1
  <2>3. ~NeedsError /\ pos' = pos + 1
    BY <1>9, <2>2 DEF Fallback
  <2>4. n = packet.num /\ i = pos /\ sent[n][i] = packet.frames[pos]
    BY <1>7, <2>1, <2>3
  <2>5. Current = packet.frames[pos]
    BY <1>0, <2>1 DEF Current
  <2>6. Current # "ticket"
    BY <1>3, <2>1, <2>4, <2>5
  <2>7. Current # "reply"
    BY <1>0, <1>2, <2>1, <2>4, HasAnswered DEF HasInv
  <2> QED
    BY <1>0, <1>9, <2>1, <2>3, <2>4, <2>6, <2>7
<1>10. CASE /\ UNCHANGED <<packet, pos>>
            /\ sent' = sent \/ \E p \in Packets : sent' = Append(sent, p)
  BY <1>5, <1>10
<1>11. \/ ProcessQueues \/ Mark("dw") \/ Fallback
       \/ /\ UNCHANGED <<packet, pos>>
          /\ sent' = sent \/ \E p \in Packets : sent' = Append(sent, p)
  BY DEF Next, Game, DwThread, EnqueuePacket, Send, RecvCheck, Dequeue, Enter, Push, Leave, Mark,
         ImReceived, EndOfPacket, EmptyMessage, HandleMessage, HandleRequest, vars, queues, dwVars
<1> QED
  BY <1>6, <1>8, <1>9, <1>10, <1>11

(* What is owed after a step was owed before, or an instant message has    *)
(* just set queuedPacket; a step that leaves a request without an answer   *)
(* pays what is owed.                                                      *)
LEMMA DebtStep ==
  ASSUME PipeInv, [Next]_vars
  PROVE  /\ \/ (Owing' => Owing) /\ ImsMarked' = ImsMarked
            \/ ImsMarked' = ImsMarked + 1
         /\ Fallback /\ ~NeedsError /\ Current = "silent" =>
              Owing /\ ~Owing' /\ ImsMarked' = ImsMarked
<1>0. TypeOK /\ PlaceInv /\ "dw" \in Writers /\ "pm" \in Writers
  BY DEF PipeInv, Inv, Writers
<1>1. ims \in Int
  BY <1>0, Constants DEF AllAssumptions, TypeOK
<1>2. ASSUME UNCHANGED <<packet, pos>>, pc'["dw"] = pc["dw"], queuedPacket' = queuedPacket
      PROVE  Owing' => Owing
  BY <1>2 DEF Owing, Current
<1>3. CASE DwThread
  <2>1. ims' = ims /\ pc'["pm"] = pc["pm"]
    BY <1>0, <1>3 DEF DwThread, ProcessQueues, EndOfPacket, EmptyMessage, HandleMessage, HandleRequest,
       Fallback, EnqueuePacket, Enter, Push, Leave, Mark, StartFrame, TypeOK
  <2>2. ImsMarked' = ImsMarked
    BY <2>1 DEF ImsMarked
  <2>3. ASSUME pc'["dw"] \notin {"service", "check"} PROVE ~Owing'
    BY <2>3 DEF Owing
  <2>4. ASSUME ProcessQueues \/ EndOfPacket \/ EmptyMessage \/ Enter("dw") \/ Push("dw") \/ Leave("dw")
        PROVE  ~Owing'
    BY <1>0, <2>3, <2>4 DEF ProcessQueues, EndOfPacket, EmptyMessage, StartFrame, Enter, Push, Leave, TypeOK
  <2>5. ASSUME HandleMessage PROVE ~Owing'
    BY <2>5 DEF HandleMessage, Owing
  <2>6. ASSUME HandleRequest PROVE Owing' => Owing
    <3>1. pc["dw"] = "service" /\ UNCHANGED <<packet, pos, queuedPacket>> /\ Current' = Current
      BY <2>6 DEF HandleRequest, Current
    <3>2. CASE Current = "reply"
      <4>1. pc'["dw"] = "enter"
        BY <1>0, <2>6, <3>2 DEF HandleRequest, StartFrame, TypeOK
      <4> QED
        BY <2>3, <4>1
    <3>3. CASE Current # "reply"
      BY <3>1, <3>3 DEF Owing
    <3> QED
      BY <3>2, <3>3
  <2>7. ASSUME Mark("dw") PROVE ~Owing'
    <3>1. pc["dw"] = "mark" /\ pc'["dw"] = ret /\ UNCHANGED packet
      BY <1>0, <2>7 DEF Mark, TypeOK
    <3>2. CASE ret = "check"
      <4>1. Current = "reply" /\ pos' = pos
        BY <2>7, <3>1, <3>2, <1>0 DEF PlaceInv, Mark
      <4>2. Current' = "reply"
        BY <3>1, <4>1 DEF Current
      <4> QED
        BY <4>2 DEF Owing
    <3>3. CASE ret # "check"
      <4>1. ret # "service"
        BY <1>0 DEF TypeOK
      <4> QED
        BY <2>3, <3>1, <3>3, <4>1
    <3> QED
      BY <3>2, <3>3
  <2>8. CASE Fallback
    <3>1. pc'["dw"] \in {"enter", "loop"} /\ pc["dw"] = "check"
      BY <1>0, <2>8 DEF Fallback, StartFrame, TypeOK
    <3>2. ~Owing'
      BY <2>3, <3>1
    <3>3. ~NeedsError /\ Current = "silent" => Owing
      BY <3>1 DEF NeedsError, Owing
    <3> QED
      BY <2>2, <3>2, <3>3
  <2>9. ~Fallback => (Owing' => Owing)
    BY <1>3, <2>4, <2>5, <2>6, <2>7 DEF DwThread, EnqueuePacket
  <2> QED
    BY <2>2, <2>8, <2>9
<1>4. CASE ~DwThread
  <2>1. ~Fallback
    BY <1>4 DEF DwThread
  <2>2. CASE Mark("pm")
    <3>1. pc["pm"] = "mark" /\ pc'["pm"] = "idle" /\ ims' = ims
      BY <1>0, <2>2 DEF Mark, TypeOK
    <3>2. ImsMarked' = ImsMarked + 1
      BY <1>1, <3>1 DEF ImsMarked
    <3> QED
      BY <2>1, <3>2
  <2>3. CASE ImReceived
    <3>1. pc["pm"] = "idle" /\ pc'["pm"] = "enter" /\ ims' = ims + 1
      BY <1>0, <2>3 DEF ImReceived, StartFrame, TypeOK
    <3>2. ImsMarked' = ImsMarked
      BY <1>1, <3>1 DEF ImsMarked
    <3>3. UNCHANGED <<packet, pos, queuedPacket>> /\ pc'["dw"] = pc["dw"]
      BY <1>0, <2>3 DEF ImReceived, StartFrame, TypeOK, dwVars
    <3> QED
      BY <1>2, <2>1, <3>2, <3>3
  <2>4. CASE Enter("pm") \/ Push("pm") \/ Leave("pm")
    <3>1. pc["pm"] # "idle" /\ pc'["pm"] # "idle" /\ ims' = ims
      BY <1>0, <2>4 DEF Enter, Push, Leave, TypeOK
    <3>2. ImsMarked' = ImsMarked
      BY <3>1 DEF ImsMarked
    <3>3. UNCHANGED <<packet, pos, queuedPacket>> /\ pc'["dw"] = pc["dw"]
      BY <1>0, <2>4 DEF Enter, Push, Leave, TypeOK, dwVars
    <3> QED
      BY <1>2, <2>1, <3>2, <3>3
  <2>5. CASE UNCHANGED <<packet, pos, queuedPacket, pc, ims>>
    BY <1>2, <2>1, <2>5 DEF ImsMarked
  <2>6. \/ Mark("pm") \/ ImReceived \/ Enter("pm") \/ Push("pm") \/ Leave("pm")
        \/ UNCHANGED <<packet, pos, queuedPacket, pc, ims>>
    BY <1>4 DEF Next, Game, EnqueuePacket, Send, RecvCheck, Dequeue, vars, dwVars
  <2> QED
    BY <2>2, <2>3, <2>4, <2>5, <2>6
<1> QED
  BY <1>3, <1>4

(* Each instant message pays for one request without an answer.            *)
LEMMA MissStep == PipeInv /\ MissInv /\ [Next]_vars => MissInv'
<1> SUFFICES ASSUME PipeInv, MissInv, [Next]_vars PROVE MissInv'
  OBVIOUS
<1>0. /\ IsFiniteSet(Missed) /\ Cardinality(Missed) \in Nat
      /\ Cardinality(Missed) + Debt <= ImsMarked
      /\ ImsMarked \in Int
  <2>1. ims \in Int
    BY Constants DEF AllAssumptions, PipeInv, Inv, TypeOK
  <2>2. ImsMarked \in Int
    BY <2>1 DEF ImsMarked
  <2> QED
    BY <2>2, FS_CardinalityType DEF MissInv
<1>1. ASSUME NEW m \in Missed', m \notin Missed
      PROVE  Fallback /\ ~NeedsError /\ Current = "silent" /\ m = <<packet.num, pos>>
  <2>1. PICK n, i : m = <<n, i>> /\ IsMissed(n, i)'
    BY MissedAfter
  <2>2. ~IsMissed(n, i)
    BY <1>1, <2>1, MissedAre
  <2> QED
    BY <2>1, <2>2, OneMoreMissed
<1>2. CASE Fallback /\ ~NeedsError /\ Current = "silent"
  <2> DEFINE S == Missed \cup {<<packet.num, pos>>}
  <2>1. Missed' \subseteq S
    BY <1>1
  <2>2. IsFiniteSet(S) /\ Cardinality(S) <= Cardinality(Missed) + 1 /\ Cardinality(S) \in Nat
    <3>1. IsFiniteSet(S) /\ Cardinality(S) \in {Cardinality(Missed), Cardinality(Missed) + 1}
      BY <1>0, FS_AddElement
    <3> QED
      BY <1>0, <3>1
  <2>3. /\ IsFiniteSet(Missed') /\ Cardinality(Missed') <= Cardinality(S)
        /\ Cardinality(Missed') \in Nat
    <3> HIDE DEF S
    <3>1. IsFiniteSet(Missed') /\ Cardinality(Missed') <= Cardinality(S)
      BY <2>1, <2>2, FS_Subset
    <3> QED
      BY <3>1, FS_CardinalityType
  <2>4. Debt = 1 /\ Debt' = 0 /\ ImsMarked' = ImsMarked /\ ImsMarked \in Int
    BY <1>0, <1>2, DebtStep DEF Debt
  <2>5. Cardinality(Missed') + Debt' <= ImsMarked'
    BY <1>0, <2>2, <2>3, <2>4
  <2> QED
    BY <2>3, <2>5 DEF MissInv
<1>3. CASE ~(Fallback /\ ~NeedsError /\ Current = "silent")
  <2>1. Missed' \subseteq Missed
    BY <1>1, <1>3
  <2>2. /\ IsFiniteSet(Missed') /\ Cardinality(Missed') <= Cardinality(Missed)
        /\ Cardinality(Missed') \in Nat
    <3>1. IsFiniteSet(Missed') /\ Cardinality(Missed') <= Cardinality(Missed)
      BY <1>0, <2>1, FS_Subset
    <3> QED
      BY <3>1, FS_CardinalityType
  <2>3. /\ Debt \in {0, 1} /\ Debt' \in {0, 1} /\ ImsMarked \in Int
        /\ (Debt' <= Debt /\ ImsMarked' = ImsMarked) \/ ImsMarked' = ImsMarked + 1
    BY <1>0, DebtStep DEF Debt
  <2>4. Cardinality(Missed') + Debt' <= ImsMarked'
    BY <1>0, <2>2, <2>3
  <2> QED
    BY <2>2, <2>4 DEF MissInv
<1> QED
  BY <1>2, <1>3

(* A request without an answer costs an instant message: there are never   *)
(* more of them than calls of dw_im_received that set queuedPacket.        *)
THEOREM MissedOnlyByIMs == Spec => []MissedAtMostIMs
<1>1. Init => MissInv
  <2> SUFFICES ASSUME Init PROVE MissInv
    OBVIOUS
  <2>1. pc = [t \in Writers |-> "idle"] /\ "dw" \in Writers /\ "pm" \in Writers /\ sent = <<>> /\ ims = 0
    BY DEF Init, Writers
  <2>2. ~\E n, i : IsMissed(n, i)
    BY <2>1 DEF IsMissed
  <2>3. Missed = {}
    BY <2>2, MissedAre
  <2>4. IsFiniteSet(Missed) /\ Cardinality(Missed) = 0
    BY <2>3, FS_EmptySet
  <2>5. Debt = 0 /\ ImsMarked = 0
    <3>1. pc["dw"] = "idle" /\ pc["pm"] = "idle"
      BY <2>1
    <3>2. ~Owing
      BY <3>1 DEF Owing
    <3>3. Debt = 0
      BY <3>2, Zenon DEF Debt
    <3>4. ImsMarked = 0
      <4>1. ImsMarked = ims - 0
        BY <3>1, Zenon DEF ImsMarked
      <4>2. ims = 0
        BY DEF Init
      <4> QED
        BY <4>1, <4>2
    <3> QED
      BY <3>3, <3>4
  <2> QED
    BY <2>4, <2>5 DEF MissInv
<1>2. PipeInv /\ MissInv => MissedAtMostIMs
  <2> SUFFICES ASSUME PipeInv, MissInv PROVE MissedAtMostIMs
    OBVIOUS
  <2>1. Cardinality(Missed) \in Nat /\ Cardinality(Missed) + Debt <= ImsMarked
    BY FS_CardinalityType DEF MissInv
  <2>2. Debt \in {0, 1} /\ ImsMarked \in Int
    <3>1. ims \in Int
      BY Constants DEF AllAssumptions, PipeInv, Inv, TypeOK
    <3> QED
      BY <3>1 DEF Debt, ImsMarked
  <2> QED
    BY <2>1, <2>2 DEF MissedAtMostIMs
<1> QED
  BY <1>1, <1>2, MissStep, PipeInvariance, PTL DEF Spec
=============================================================================
