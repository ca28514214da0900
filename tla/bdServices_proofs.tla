-------------------------- MODULE bdServices_proofs --------------------------
(***************************************************************************)
(* Proofs about bdServices: for all files, blocks and any number of        *)
(* requests, a reply carries what its request asked for, a result goes     *)
(* astray only if its getPublicInfos timed out, and an acknowledged write  *)
(* is undone only by a later write or a late setPublicInfo.                *)
(*                                                                         *)
(* None of the three is inductive: what a reply will carry is decided when *)
(* the PM call finishes, steps before the reply. CallsInv says which calls *)
(* may still be on their way, ResultInv what Wait's result says of the     *)
(* buffers and files once the call of the last request has finished.       *)
(***************************************************************************)
EXTENDS bdServices, TLAPS

-----------------------------------------------------------------------------
(* The inductive invariant *)

(* dw_thread asks for one thing at a time.                                 *)
OneAtATime == Current <= Len(replies) + 1

(* The wait for request n, one for profiles, timed out or had no result.   *)
GivenUp(n) == n \in 1..Len(replies) /\ requests[n].op \in Profiles /\ replies[n].code = 2

(* An unfinished call does what its request says, into the buffer the      *)
(* request has; if the request is replied to, its wait timed out.          *)
CallRight(c) ==
  /\ c.op = requests[c.num].op /\ c.file = requests[c.num].file
  /\ c.op = "getPublicInfos" => c.buffer \in Blocks
  /\ c.op \in Static => c.buffer = c.op
  /\ c.num <= Len(replies) => GivenUp(c.num)
  /\ Waiting /\ c.num = Current =>
       result = "none" /\ (c.op = "getPublicInfos" => c.buffer = outData)

CallsInv ==
  /\ \A c \in calls : CallRight(c)
  /\ \A c, d \in calls : c.num = d.num => c = d

(* An earlier getPublicInfos timed out.                                    *)
LateRows == \E m \in 1..(Current - 1) : Replied(m, "getPublicInfos", 2)

(* Request n is in the file it writes to, or a late setPublicInfo is.      *)
InStore(n) ==
  LET m == store[requests[n].file] IN
    m >= n \/ Replied(m, "setPublicInfo", 2)

(* What the result of the last request's call says.                        *)
FileReady  == result = "ok" /\ Op \in Static => buffers[Op] = Current
RowsReady  == result = "ok" /\ Op = "getPublicInfos" => buffers[outData] = Current \/ LateRows
WriteReady ==
  Op \in Writes =>
    /\ result # "notFound"
    /\ result = "error" => Current \in refused
    /\ result = "ok" => InStore(Current)

ResultInv == Waiting => FileReady /\ RowsReady /\ WriteReady

ServicesInv ==
  /\ TypeOK /\ OneAtATime /\ CallsInv /\ ResultInv
  /\ FileIsAsked /\ RowsAreAsked /\ StrayOnlyLate /\ AckedWritesLast

-----------------------------------------------------------------------------
(* Typing *)

RequestRecord == [op : Writes \cup Reads, file : UserFiles]
ReplyRecord   == [code : {0, 2, 1000}, data : 0..Current]

(* What the invariant says of the sizes and of what was asked.             *)
LEMMA Typed ==
  ASSUME TypeOK, OneAtATime
  PROVE  /\ Current \in Nat /\ Len(replies) \in Nat /\ Len(replies) <= Current
         /\ Current <= MaxRequests /\ Current <= Len(replies) + 1
         /\ ~Waiting => Len(replies) = Current
         /\ Waiting => Current = Len(replies) + 1
         /\ requests \in Seq(RequestRecord) /\ replies \in Seq(ReplyRecord)
         /\ \A n \in 1..Current : requests[n] \in RequestRecord
         /\ \A n \in 1..Len(replies) : replies[n] \in ReplyRecord
<1>1. requests \in Seq(RequestRecord) /\ replies \in Seq(ReplyRecord)
  BY DEF TypeOK, RequestRecord, ReplyRecord
<1>2. Current \in Nat /\ Len(replies) \in Nat /\ Len(requests) \in Len(replies)..MaxRequests
  BY <1>1 DEF TypeOK, Current
<1>3. /\ \A n \in 1..Current : requests[n] \in RequestRecord
      /\ \A n \in 1..Len(replies) : replies[n] \in ReplyRecord
  BY <1>1 DEF Current
<1> QED  BY <1>1, <1>2, <1>3, BoundAssumption DEF Current, Waiting, OneAtATime

LEMMA WiderSeq ==
  ASSUME NEW S, NEW T, S \subseteq T, NEW s \in Seq(S)
  PROVE  s \in Seq(T)
<1>1. s \in [1..Len(s) -> S] /\ Len(s) \in Nat  OBVIOUS
<1>2. s \in [1..Len(s) -> T]  BY <1>1
<1> QED  BY <1>1, <1>2

(* The buffers are distinct from NoBuffer, and the blocks from the others. *)
LEMMA BuffersApart ==
  /\ NoBuffer \notin Blocks /\ \A b \in Blocks : b \notin Static
  /\ NoBuffer \notin Buffers /\ Static \subseteq Buffers /\ Blocks \subseteq Buffers
BY BlocksAssumption DEF Static, NoBuffer, Buffers

-----------------------------------------------------------------------------
(* A request *)

(* callService starts a call; nothing that was replied changes.            *)
LEMMA CallServiceKeeps ==
  ASSUME ServicesInv,
         NEW op \in Writes \cup Reads, NEW f \in UserFiles, NEW b \in Blocks \cup {NoBuffer},
         op = "getPublicInfos" <=> b \in Blocks,
         CallService(op, f, b)
  PROVE  ServicesInv'
<1> DEFINE new  == [op |-> op, file |-> f]
<1> PICK call : call = [num |-> Current + 1, op |-> op, file |-> f, buffer |-> Buffer(op, b)]
  OBVIOUS
<1>1. TypeOK /\ OneAtATime  BY DEF ServicesInv
<1>2. /\ Current \in Nat /\ Len(replies) = Current /\ Current < MaxRequests /\ ~Waiting
      /\ requests \in Seq(RequestRecord)
  BY <1>1, Typed DEF CallService
<1>3. /\ requests' = Append(requests, new) /\ calls' = calls \cup {call}
      /\ outData' = IF op = "getPublicInfos" THEN b ELSE NoBuffer
      /\ result' = "none"
      /\ buffers' = buffers /\ store' = store /\ replies' = replies
      /\ refused' = refused /\ stray' = stray
  BY DEF CallService
<1>4. new \in RequestRecord  BY DEF RequestRecord
<1>5. /\ requests' \in Seq(RequestRecord) /\ Len(requests') = Current + 1
      /\ requests'[Current + 1] = new
      /\ \A n \in 1..Current : requests'[n] = requests[n]
  <2> HIDE DEF new
  <2> QED  BY <1>2, <1>3, <1>4 DEF Current
<1>6. Current' = Current + 1 /\ Waiting' /\ Op' = op
  BY <1>2, <1>3, <1>5 DEF Current, Waiting, Op
<1>7. /\ \A n, o, code : Replied(n, o, code)' <=> Replied(n, o, code)
      /\ \A n : GivenUp(n)' <=> GivenUp(n)
  <2>1. \A n \in 1..Len(replies) : requests'[n] = requests[n]  BY <1>2, <1>5
  <2> QED  BY <2>1, <1>3 DEF Replied, GivenUp
<1>8. TypeOK'
  <2>1. Buffer(op, b) \in Buffers \cup {NoBuffer}
    BY DEF Buffer, Buffers, Static, NoBuffer
  <2>2. call \in [num : 1..(Current + 1), op : Writes \cup Reads, file : UserFiles,
                  buffer : Buffers \cup {NoBuffer}]
    <3>1. Current + 1 \in 1..(Current + 1)  BY <1>2
    <3> QED  BY <2>1, <3>1
  <2>3. calls' \subseteq [num : 1..(Current + 1), op : Writes \cup Reads, file : UserFiles,
                         buffer : Buffers \cup {NoBuffer}]
    <3>1. 1..Current \subseteq 1..(Current + 1)  BY <1>2
    <3>2. calls \subseteq [num : 1..Current, op : Writes \cup Reads, file : UserFiles,
                         buffer : Buffers \cup {NoBuffer}]
      BY <1>1 DEF TypeOK
    <3> QED  BY <2>2, <3>1, <3>2, <1>3
  <2>4. Len(requests)' \in Len(replies)'..MaxRequests
    BY <1>2, <1>3, <1>5, BoundAssumption DEF Current
  <2>5. /\ outData' \in Blocks \cup {NoBuffer}
        /\ (outData # NoBuffer <=> Waiting /\ Op = "getPublicInfos")'
    BY <1>3, <1>6, BuffersApart
  <2>6. /\ buffers' \in [Buffers -> 0..(Current + 1)]
        /\ store' \in [UserFiles -> 0..(Current + 1)]
        /\ refused' \subseteq 1..(Current + 1) /\ stray' \subseteq 1..(Current + 1)
    <3>1. 1..Current \subseteq 1..(Current + 1) /\ 0..Current \subseteq 0..(Current + 1)
      BY <1>2
    <3>2. /\ buffers \in [Buffers -> 0..Current] /\ store \in [UserFiles -> 0..Current]
          /\ refused \subseteq 1..Current /\ stray \subseteq 1..Current
      BY <1>1 DEF TypeOK
    <3> QED  BY <3>1, <3>2, <1>3
  <2>7. replies' \in Seq([code : {0, 2, 1000}, data : 0..(Current + 1)])
    <3> DEFINE S == [code : {0, 2, 1000}, data : 0..Current]
               T == [code : {0, 2, 1000}, data : 0..(Current + 1)]
    <3>1. replies \in Seq(S)  BY <1>1 DEF TypeOK
    <3>2. S \subseteq T  BY <1>2
    <3>3. replies \in Seq(T)
      <4> HIDE DEF S, T
      <4> QED  BY <3>1, <3>2, WiderSeq
    <3> QED  BY <3>3, <1>3
  <2> QED  BY <2>3, <2>4, <2>5, <2>6, <2>7, <1>3, <1>5, <1>6 DEF TypeOK, RequestRecord
<1>9. OneAtATime'  BY <1>2, <1>3, <1>6 DEF OneAtATime
<1>10. CallsInv'
  <2>1. \A c \in calls : c.num \in 1..Current  BY <1>1 DEF TypeOK
  <2>2. ASSUME NEW c \in calls  PROVE CallRight(c)'
    <3>1. CallRight(c)  BY DEF ServicesInv, CallsInv
    <3>2. c.num \in 1..Current /\ c.num # Current + 1 /\ requests'[c.num] = requests[c.num]
      BY <1>2, <1>5, <2>1
    <3>3. c.num <= Len(replies)' => GivenUp(c.num)'  BY <3>1, <1>3, <1>7 DEF CallRight
    <3> QED  BY <3>1, <3>2, <3>3, <1>6 DEF CallRight
  <2>3. CallRight(call)'
    <3>1. ~(call.num <= Len(replies)')  BY <1>2, <1>3
    <3>2. op = "getPublicInfos" => Buffer(op, b) \in Blocks /\ Buffer(op, b) = outData'
      BY <1>3 DEF Buffer, Static
    <3>3. op \in Static => Buffer(op, b) = op  BY DEF Buffer, Static
    <3> QED  BY <3>1, <3>2, <3>3, <1>3, <1>5, <1>6 DEF CallRight
  <2>4. \A c, d \in calls' : c.num = d.num => c = d
    <3>1. call.num = Current + 1  OBVIOUS
    <3>2. \A c \in calls : c.num # Current + 1  BY <2>1, <1>2
    <3>3. \A c, d \in calls : c.num = d.num => c = d  BY DEF ServicesInv, CallsInv
    <3> QED  BY <3>1, <3>2, <3>3, <1>3
  <2> QED  BY <2>2, <2>3, <2>4, <1>3 DEF CallsInv
<1>11. ResultInv'
  <2>1. result' = "none"  BY <1>3
  <2>2. FileReady' /\ RowsReady'  BY <2>1 DEF FileReady, RowsReady
  <2>3. WriteReady'  BY <2>1 DEF WriteReady
  <2> QED  BY <2>2, <2>3 DEF ResultInv
<1>12. FileIsAsked' /\ RowsAreAsked' /\ StrayOnlyLate'
  BY <1>3, <1>7 DEF ServicesInv, FileIsAsked, RowsAreAsked, StrayOnlyLate
<1>13. AckedWritesLast'
  <2>1. \A n \in 1..Len(replies) : requests'[n] = requests[n]  BY <1>2, <1>5
  <2> QED  BY <2>1, <1>3, <1>7 DEF ServicesInv, AckedWritesLast
<1> QED
  BY <1>8, <1>9, <1>10, <1>11, <1>12, <1>13 DEF ServicesInv

-----------------------------------------------------------------------------
(* The PM library *)

(* An unfinished call is the one dw_thread waits for, or a profile call    *)
(* whose wait timed out.                                                   *)
LEMMA MineOrLate ==
  ASSUME ServicesInv, NEW c \in calls
  PROVE  /\ c.num \in 1..Current /\ c.op = requests[c.num].op /\ c.file = requests[c.num].file
         /\ c.op \in Writes \cup Reads /\ c.file \in UserFiles
         /\ \/ Waiting /\ c.num = Current /\ Op = c.op /\ result = "none"
            \/ /\ ~(Waiting /\ c.num = Current)
               /\ c.op \in Profiles /\ Replied(c.num, c.op, 2) /\ c.num \in 1..Len(replies)
<1>1. TypeOK /\ OneAtATime /\ CallRight(c)  BY DEF ServicesInv, CallsInv
<1>2. /\ c.num \in 1..Current /\ c.op \in Writes \cup Reads /\ c.file \in UserFiles
  BY <1>1 DEF TypeOK
<1>3. c.op = requests[c.num].op /\ c.file = requests[c.num].file  BY <1>1 DEF CallRight
<1>4. CASE Waiting /\ c.num = Current
  BY <1>1, <1>2, <1>3, <1>4 DEF CallRight, Op
<1>5. CASE ~(Waiting /\ c.num = Current)
  <2>1. c.num <= Len(replies)  BY <1>1, <1>2, <1>5, Typed
  <2>2. GivenUp(c.num)  BY <2>1, <1>1 DEF CallRight
  <2> QED  BY <2>2, <1>2, <1>3, <1>5 DEF GivenUp, Replied
<1> QED  BY <1>4, <1>5

(* A call that finishes changes nothing else dw_thread knows of.           *)
LEMMA FinishesKeeps ==
  ASSUME ServicesInv, NEW c \in calls, NEW r \in {"ok", "error", "notFound", "null"},
         Finishes(c, r), UNCHANGED <<requests, outData, replies>>
  PROVE  /\ Current' = Current /\ Waiting' = Waiting /\ Op' = Op
         /\ \A n, op, code : Replied(n, op, code)' <=> Replied(n, op, code)
         /\ LateRows' <=> LateRows
         /\ result' \in {"none", "ok", "error", "notFound", "null"}
         /\ calls' \subseteq [num : 1..Current, op : Writes \cup Reads, file : UserFiles,
                             buffer : Buffers \cup {NoBuffer}]
         /\ OneAtATime' /\ CallsInv'
<1>1. TypeOK  BY DEF ServicesInv
<1>2. /\ calls' = calls \ {c}
      /\ result' = IF Waiting /\ c.num = Current THEN r ELSE result
      /\ requests' = requests /\ outData' = outData /\ replies' = replies
  BY DEF Finishes
<1>3. Current' = Current /\ Waiting' = Waiting /\ Op' = Op
  BY <1>2 DEF Current, Waiting, Op
<1>4. /\ \A n, op, code : Replied(n, op, code)' <=> Replied(n, op, code)
      /\ \A n : GivenUp(n)' <=> GivenUp(n)
  BY <1>2 DEF Replied, GivenUp
<1>5. LateRows' <=> LateRows  BY <1>3, <1>4 DEF LateRows
<1>6. result' \in {"none", "ok", "error", "notFound", "null"}  BY <1>1, <1>2 DEF TypeOK
<1>7. calls' \subseteq [num : 1..Current, op : Writes \cup Reads, file : UserFiles,
                      buffer : Buffers \cup {NoBuffer}]
  BY <1>1, <1>2 DEF TypeOK
<1>8. OneAtATime'  BY <1>2, <1>3 DEF ServicesInv, OneAtATime
<1>9. CallsInv'
  <2>1. /\ \A d \in calls : CallRight(d)
        /\ \A d, e \in calls : d.num = e.num => d = e
    BY DEF ServicesInv, CallsInv
  <2>2. ASSUME NEW d \in calls'  PROVE CallRight(d)'
    <3>1. d \in calls /\ d # c /\ d.num # c.num  BY <2>1, <2>2, <1>2
    <3>2. d.num = Current => result' = result  BY <3>1, <1>2
    <3>3. CallRight(d)  BY <3>1, <2>1
    <3> QED  BY <3>2, <3>3, <1>2, <1>3, <1>4 DEF CallRight
  <2>3. \A d, e \in calls' : d.num = e.num => d = e  BY <2>1, <1>2
  <2> QED  BY <2>2, <2>3 DEF CallsInv
<1> QED  BY <1>3, <1>4, <1>5, <1>6, <1>7, <1>8, <1>9

(* A write that takes effect: its own, waited for, or a late one.          *)
LEMMA WrittenKeeps ==
  ASSUME ServicesInv, NEW c \in calls, Written(c), UNCHANGED <<requests, outData, replies>>
  PROVE  ServicesInv'
<1>1. PICK r \in {"ok", "null"} : Finishes(c, r)  BY DEF Written
<1>2. r \in {"ok", "error", "notFound", "null"}  OBVIOUS
<1>3. /\ Current' = Current /\ Waiting' = Waiting /\ Op' = Op
      /\ \A n, op, code : Replied(n, op, code)' <=> Replied(n, op, code)
      /\ LateRows' <=> LateRows
      /\ result' \in {"none", "ok", "error", "notFound", "null"}
      /\ calls' \subseteq [num : 1..Current, op : Writes \cup Reads, file : UserFiles,
                          buffer : Buffers \cup {NoBuffer}]
      /\ OneAtATime' /\ CallsInv'
  BY <1>1, <1>2, FinishesKeeps
<1>4. /\ c.op \in Writes /\ store' = [store EXCEPT ![c.file] = c.num]
      /\ buffers' = buffers /\ refused' = refused /\ stray' = stray
      /\ requests' = requests /\ outData' = outData /\ replies' = replies
      /\ result' = IF Waiting /\ c.num = Current THEN r ELSE result
  BY <1>1 DEF Written, Finishes
<1>5. /\ c.num \in 1..Current /\ c.file \in UserFiles
      /\ c.op = requests[c.num].op /\ c.file = requests[c.num].file
      /\ \/ Waiting /\ c.num = Current /\ Op = c.op
         \/ ~(Waiting /\ c.num = Current) /\ Replied(c.num, c.op, 2) /\ c.op \in Profiles
  BY MineOrLate
<1>6. TypeOK /\ OneAtATime  BY DEF ServicesInv
<1>7. /\ Current \in Nat /\ Len(replies) <= Current /\ Len(replies) \in Nat
      /\ \A n \in 1..Current : requests[n].file \in UserFiles
  BY <1>6, Typed DEF RequestRecord
<1>8. /\ store \in [UserFiles -> 0..Current] /\ store'[c.file] = c.num
      /\ \A f \in UserFiles : f # c.file => store'[f] = store[f]
      /\ store' \in [UserFiles -> 0..Current]
  BY <1>4, <1>5, <1>6, <1>7 DEF TypeOK
<1>9. TypeOK'
  BY <1>3, <1>4, <1>6, <1>8 DEF TypeOK, Current
(* Whatever was in the store stays there, or this call is there now.       *)
<1>10. ASSUME NEW n \in 1..Current, InStore(n), n # Current \/ ~(Waiting /\ c.num = Current)
       PROVE  InStore(n)'
  <2>1. requests'[n].file = requests[n].file /\ requests[n].file \in UserFiles  BY <1>4, <1>7
  <2>2. CASE requests[n].file # c.file
    BY <2>1, <2>2, <1>8, <1>10, <1>3 DEF InStore
  <2>3. CASE requests[n].file = c.file
    <3>1. CASE Waiting /\ c.num = Current
      <4>1. c.num >= n  BY <3>1, <1>7
      <4> QED  BY <4>1, <2>1, <2>3, <1>8 DEF InStore
    <3>2. CASE Replied(c.num, c.op, 2) /\ c.op \in Profiles
      <4>1. c.op = "setPublicInfo"  BY <3>2, <1>4 DEF Profiles, Writes
      <4>2. Replied(c.num, "setPublicInfo", 2)'  BY <3>2, <4>1, <1>3
      <4> QED  BY <4>2, <2>1, <2>3, <1>8 DEF InStore
    <3> QED  BY <3>1, <3>2, <1>5
  <2> QED  BY <2>2, <2>3
<1>11. ResultInv'
  <2> SUFFICES ASSUME Waiting  PROVE FileReady' /\ RowsReady' /\ WriteReady'
    BY <1>3 DEF ResultInv
  <2>1. CASE c.num = Current
    <3>1. Op = c.op /\ result' = r  BY <2>1, <1>4, <1>5
    <3>2. Op \notin Static /\ Op # "getPublicInfos"  BY <3>1, <1>4 DEF Writes, Static
    <3>3. FileReady' /\ RowsReady'  BY <3>2, <1>3 DEF FileReady, RowsReady
    <3>4. InStore(Current)'
      <4>1. requests'[Current'].file = c.file /\ store'[c.file] >= Current'
        BY <2>1, <1>3, <1>4, <1>5, <1>7, <1>8
      <4> QED  BY <4>1 DEF InStore
    <3>5. WriteReady'  BY <3>1, <3>4, <1>3 DEF WriteReady
    <3> QED  BY <3>3, <3>5
  <2>2. CASE c.num # Current
    <3>1. result' = result /\ FileReady /\ RowsReady /\ WriteReady
      BY <2>2, <1>4 DEF ServicesInv, ResultInv
    <3>2. FileReady' /\ RowsReady'  BY <3>1, <1>3, <1>4 DEF FileReady, RowsReady
    <3>3. InStore(Current) => InStore(Current)'
      <4>1. Current \in 1..Current  BY <1>5, <1>7
      <4>2. InStore(Current) => (\A n \in 1..Current : n = Current => InStore(n)')
        BY <2>2, <1>10
      <4> QED  BY <4>1, <4>2, <1>3 DEF InStore
    <3>4. WriteReady'  BY <3>1, <3>3, <1>3, <1>4 DEF WriteReady
    <3> QED  BY <3>2, <3>4
  <2> QED  BY <2>1, <2>2
<1>12. FileIsAsked' /\ RowsAreAsked' /\ StrayOnlyLate'
  BY <1>3, <1>4 DEF ServicesInv, FileIsAsked, RowsAreAsked, StrayOnlyLate
<1>13. AckedWritesLast'
  <2> SUFFICES ASSUME NEW n \in 1..Len(replies),
                      requests[n].op \in Writes, replies[n].code = 0, n \notin refused
               PROVE  InStore(n)'
    BY <1>4 DEF AckedWritesLast, InStore
  <2>1. InStore(n)  BY DEF ServicesInv, AckedWritesLast, InStore
  <2>2. n \in 1..Current /\ (n # Current \/ ~Waiting)  BY <1>7 DEF Waiting
  <2> QED  BY <2>1, <2>2, <1>10
<1> QED
  BY <1>3, <1>9, <1>11, <1>12, <1>13 DEF ServicesInv

(* A read that finishes: dw_thread's own, or a late getPublicInfos, which  *)
(* may write to the block of the request that is waited for now.           *)
LEMMA ReadKeeps ==
  ASSUME ServicesInv, NEW c \in calls, Read(c), UNCHANGED <<requests, outData, replies>>
  PROVE  ServicesInv'
<1>1. Finishes(c, "ok")  BY DEF Read
<1>2. /\ Current' = Current /\ Waiting' = Waiting /\ Op' = Op
      /\ \A n, op, code : Replied(n, op, code)' <=> Replied(n, op, code)
      /\ LateRows' <=> LateRows
      /\ result' \in {"none", "ok", "error", "notFound", "null"}
      /\ calls' \subseteq [num : 1..Current, op : Writes \cup Reads, file : UserFiles,
                          buffer : Buffers \cup {NoBuffer}]
      /\ OneAtATime' /\ CallsInv'
  BY <1>1, FinishesKeeps
<1>3. /\ c.op \in Reads
      /\ buffers' = [buffers EXCEPT ![c.buffer] = c.num]
      /\ stray' = IF Waiting /\ c.num = Current THEN stray ELSE stray \cup {c.num}
      /\ store' = store /\ refused' = refused
      /\ requests' = requests /\ outData' = outData /\ replies' = replies
      /\ result' = IF Waiting /\ c.num = Current THEN "ok" ELSE result
  BY <1>1 DEF Read, Finishes
<1>4. /\ c.num \in 1..Current
      /\ \/ Waiting /\ c.num = Current /\ Op = c.op
         \/ /\ ~(Waiting /\ c.num = Current)
            /\ c.op \in Profiles /\ Replied(c.num, c.op, 2) /\ c.num \in 1..Len(replies)
  BY MineOrLate
<1>5. TypeOK /\ OneAtATime /\ CallRight(c)  BY DEF ServicesInv, CallsInv
<1>6. /\ Current \in Nat /\ Len(replies) <= Current /\ Len(replies) \in Nat
      /\ Waiting => Current = Len(replies) + 1
  BY <1>5, Typed
<1>7. /\ c.op = "getPublicInfos" => c.buffer \in Blocks
      /\ c.op \in Static => c.buffer = c.op
      /\ c.op \in {"getPublicInfos"} \cup Static
  BY <1>3, <1>5 DEF CallRight, Reads, Static
<1>8. /\ buffers \in [Buffers -> 0..Current] /\ c.buffer \in Buffers
      /\ buffers'[c.buffer] = c.num
      /\ \A b \in Buffers : b # c.buffer => buffers'[b] = buffers[b]
      /\ buffers' \in [Buffers -> 0..Current]
  <2>1. buffers \in [Buffers -> 0..Current]  BY <1>5 DEF TypeOK
  <2>2. c.buffer \in Buffers  BY <1>7, BuffersApart
  <2> QED  BY <2>1, <2>2, <1>3, <1>4, <1>6
<1>9. stray' \subseteq 1..Current  BY <1>3, <1>4, <1>5 DEF TypeOK
<1>10. TypeOK'
  BY <1>2, <1>3, <1>5, <1>8, <1>9 DEF TypeOK, Current
<1>11. ResultInv'
  <2> SUFFICES ASSUME Waiting  PROVE FileReady' /\ RowsReady' /\ WriteReady'
    BY <1>2 DEF ResultInv
  <2>1. CASE c.num = Current
    <3>1. Op = c.op /\ result' = "ok"  BY <2>1, <1>3, <1>4
    <3>2. FileReady'
      BY <2>1, <3>1, <1>2, <1>7, <1>8 DEF FileReady
    <3>3. RowsReady'
      <4>1. c.op = "getPublicInfos" => c.buffer = outData  BY <2>1, <1>5 DEF CallRight
      <4> QED  BY <2>1, <3>1, <4>1, <1>2, <1>3, <1>8 DEF RowsReady
    <3>4. WriteReady'  BY <3>1, <1>2, <1>3 DEF WriteReady, Reads, Writes
    <3> QED  BY <3>2, <3>3, <3>4
  <2>2. CASE c.num # Current
    <3>1. result' = result /\ FileReady /\ RowsReady /\ WriteReady
      BY <2>2, <1>3 DEF ServicesInv, ResultInv
    <3>2. /\ c.op = "getPublicInfos" /\ c.buffer \in Blocks
          /\ Replied(c.num, "getPublicInfos", 2) /\ c.num \in 1..(Current - 1)
      BY <2>2, <1>3, <1>4, <1>6, <1>7 DEF Profiles, Reads
    <3>3. FileReady'
      <4>1. Op \in Static => buffers'[Op] = buffers[Op]
        BY <3>2, <1>8, BuffersApart
      <4> QED  BY <3>1, <4>1, <1>2 DEF FileReady
    <3>4. LateRows  BY <3>2 DEF LateRows
    <3>5. RowsReady'  BY <3>4, <1>2 DEF RowsReady
    <3>6. WriteReady'  BY <3>1, <1>2, <1>3 DEF WriteReady, InStore
    <3> QED  BY <3>3, <3>5, <3>6
  <2> QED  BY <2>1, <2>2
<1>12. FileIsAsked' /\ RowsAreAsked' /\ AckedWritesLast'
  BY <1>2, <1>3 DEF ServicesInv, FileIsAsked, RowsAreAsked, AckedWritesLast
<1>13. StrayOnlyLate'
  <2>1. StrayOnlyLate  BY DEF ServicesInv
  <2>2. CASE Waiting /\ c.num = Current  BY <2>1, <2>2, <1>2, <1>3 DEF StrayOnlyLate
  <2>3. CASE ~(Waiting /\ c.num = Current)
    <3>1. Replied(c.num, "getPublicInfos", 2)  BY <2>3, <1>3, <1>4 DEF Reads, Profiles
    <3> QED  BY <2>1, <2>3, <3>1, <1>2, <1>3 DEF StrayOnlyLate
  <2> QED  BY <2>2, <2>3
<1> QED
  BY <1>2, <1>10, <1>11, <1>12, <1>13 DEF ServicesInv

(* A call that finishes without data: a refused write is on the record, a  *)
(* read has nothing to show.                                               *)
LEMMA NoDataKeeps ==
  ASSUME ServicesInv, NEW c \in calls, Refused(c) \/ NotFound(c) \/ Failed(c),
         UNCHANGED <<requests, outData, replies>>
  PROVE  ServicesInv'
<1>1. PICK r \in {"ok", "error", "notFound", "null"} :
        /\ Finishes(c, r) /\ r # "ok"
        /\ r = "error" => (c.op \in Writes => c.num \in refused')
        /\ r = "notFound" => c.op \notin Writes
  <2>1. CASE Refused(c)  BY <2>1 DEF Refused
  <2>2. CASE NotFound(c)  BY <2>2 DEF NotFound, Static, Writes
  <2>3. CASE Failed(c)
    <3>1. PICK r \in IF c.op \in Static THEN {"error", "null"} ELSE {"null"} : Finishes(c, r)
      BY <2>3 DEF Failed
    <3>2. r = "error" => c.op \notin Writes  BY <3>1 DEF Static, Writes
    <3> QED  BY <3>1, <3>2
  <2> QED  BY <2>1, <2>2, <2>3
<1>2. /\ Current' = Current /\ Waiting' = Waiting /\ Op' = Op
      /\ \A n, op, code : Replied(n, op, code)' <=> Replied(n, op, code)
      /\ LateRows' <=> LateRows
      /\ result' \in {"none", "ok", "error", "notFound", "null"}
      /\ calls' \subseteq [num : 1..Current, op : Writes \cup Reads, file : UserFiles,
                          buffer : Buffers \cup {NoBuffer}]
      /\ OneAtATime' /\ CallsInv'
  BY <1>1, FinishesKeeps
<1>3. /\ buffers' = buffers /\ store' = store /\ stray' = stray
      /\ refused' \in {refused, refused \cup {c.num}}
      /\ requests' = requests /\ outData' = outData /\ replies' = replies
      /\ result' = IF Waiting /\ c.num = Current THEN r ELSE result
  BY <1>1 DEF Refused, NotFound, Failed, Finishes
<1>4. c.num \in 1..Current /\ (Waiting /\ c.num = Current => Op = c.op)
  BY MineOrLate
<1>5. TypeOK'
  <2>1. TypeOK  BY DEF ServicesInv
  <2>2. refused' \subseteq 1..Current  BY <2>1, <1>3, <1>4 DEF TypeOK
  <2> QED  BY <2>1, <2>2, <1>2, <1>3 DEF TypeOK, Current
<1>6. ResultInv'
  <2> SUFFICES ASSUME Waiting  PROVE FileReady' /\ RowsReady' /\ WriteReady'
    BY <1>2 DEF ResultInv
  <2>1. CASE c.num = Current
    <3>1. Op = c.op /\ result' = r  BY <2>1, <1>3, <1>4
    <3>2. FileReady' /\ RowsReady'  BY <3>1, <1>1 DEF FileReady, RowsReady
    <3>3. WriteReady'  BY <2>1, <3>1, <1>1, <1>2 DEF WriteReady
    <3> QED  BY <3>2, <3>3
  <2>2. CASE c.num # Current
    <3>1. result' = result /\ FileReady /\ RowsReady /\ WriteReady
      BY <2>2, <1>3 DEF ServicesInv, ResultInv
    <3>2. FileReady' /\ RowsReady'  BY <3>1, <1>2, <1>3 DEF FileReady, RowsReady
    <3>3. Current \in refused => Current \in refused'  BY <1>3
    <3>4. WriteReady'  BY <3>1, <3>3, <1>2, <1>3 DEF WriteReady, InStore
    <3> QED  BY <3>2, <3>4
  <2> QED  BY <2>1, <2>2
<1>7. FileIsAsked' /\ RowsAreAsked' /\ StrayOnlyLate'
  BY <1>2, <1>3 DEF ServicesInv, FileIsAsked, RowsAreAsked, StrayOnlyLate
<1>8. AckedWritesLast'
  <2>1. \A n : n \notin refused' => n \notin refused  BY <1>3
  <2> QED  BY <2>1, <1>2, <1>3 DEF ServicesInv, AckedWritesLast
<1> QED
  BY <1>2, <1>5, <1>6, <1>7, <1>8 DEF ServicesInv

-----------------------------------------------------------------------------
(* The reply *)

(* The codes of the replies: 0 only after what the services take for done, *)
(* 2 when there was no result.                                             *)
LEMMA Codes ==
  ASSUME NEW op \in Writes \cup Reads, NEW r \in {"ok", "error", "notFound", "null"}
  PROVE  /\ Code(op, r) \in {0, 2, 1000}
         /\ r = "null" => Code(op, r) = 2
         /\ Code(op, r) = 0 => r # "null" /\ (r = "ok" \/ op \in Writes)
<1>1. CASE r = "null"  BY <1>1 DEF Code
<1>2. CASE r = "ok" \/ (op \in Writes /\ r # "null")  BY <1>2 DEF Code
<1>3. CASE r \in {"error", "notFound"} /\ op \notin Writes
  <2>1. Code(op, r) \in {2, 1000}
    <3>1. CASE r = "error" /\ op = "getUserFile"  BY <1>3, <3>1 DEF Code
    <3>2. CASE ~(r = "error" /\ op = "getUserFile")  BY <1>3, <3>2 DEF Code
    <3> QED  BY <3>1, <3>2
  <2> QED  BY <1>3, <2>1
<1> QED  BY <1>1, <1>2, <1>3

(* dw_thread replies with the result r of its call, or gives up waiting.   *)
LEMMA AnswerKeeps ==
  ASSUME ServicesInv, Waiting, NEW r \in {"ok", "error", "notFound", "null"},
         \/ result = r
         \/ result = "none" /\ r = "null" /\ Op \in Profiles,
         Answer(Code(Op, r))
  PROVE  ServicesInv'
<1> PICK code : code = Code(Op, r)  OBVIOUS
<1> PICK data : data = IF code = 0 /\ Op \in Reads THEN buffers[Buffer(Op, outData)] ELSE 0
  OBVIOUS
<1> PICK reply : reply = [code |-> code, data |-> data]  OBVIOUS
<1>1. TypeOK /\ OneAtATime  BY DEF ServicesInv
<1>2. /\ Current \in Nat /\ Len(replies) \in Nat /\ Current = Len(replies) + 1
      /\ Current \in 1..Current /\ Current <= MaxRequests
      /\ replies \in Seq(ReplyRecord) /\ requests[Current] \in RequestRecord
      /\ \A n \in 1..Current : requests[n] \in RequestRecord
  <2>1. /\ Current \in Nat /\ Len(replies) \in Nat /\ Current = Len(replies) + 1
        /\ Current <= MaxRequests /\ replies \in Seq(ReplyRecord)
        /\ \A n \in 1..Current : requests[n] \in RequestRecord
    BY <1>1, Typed
  <2>2. Current \in 1..Current  BY <2>1
  <2> QED  BY <2>1, <2>2
<1>3. Op \in Writes \cup Reads /\ Op = requests[Current].op  BY <1>2 DEF Op, RequestRecord
<1>4. /\ code \in {0, 2, 1000} /\ (r = "null" => code = 2)
      /\ code = 0 => r = result /\ (r = "ok" \/ Op \in Writes)
  BY <1>3, Codes
<1>5. /\ replies' = Append(replies, reply) /\ outData' = NoBuffer
      /\ requests' = requests /\ calls' = calls /\ result' = result /\ buffers' = buffers
      /\ store' = store /\ refused' = refused /\ stray' = stray
  BY DEF Answer
<1>6. data \in 0..Current
  <2>1. CASE code = 0 /\ Op \in Reads
    <3>1. Buffer(Op, outData) \in Buffers
      <4>1. Op = "getPublicInfos" => outData \in Blocks  BY <1>1 DEF TypeOK
      <4>2. Op \in {"getPublicInfos"} \cup Static  BY <2>1 DEF Reads, Static
      <4> QED  BY <4>1, <4>2, BuffersApart DEF Buffer, Static
    <3>2. buffers \in [Buffers -> 0..Current]  BY <1>1 DEF TypeOK
    <3> QED  BY <2>1, <3>1, <3>2
  <2>2. CASE ~(code = 0 /\ Op \in Reads)  BY <2>2, <1>2
  <2> QED  BY <2>1, <2>2
<1>7. reply \in ReplyRecord /\ reply.code = code /\ reply.data = data
  BY <1>4, <1>6 DEF ReplyRecord
<1>8. /\ replies' \in Seq(ReplyRecord) /\ Len(replies)' = Current
      /\ replies'[Current] = reply
      /\ \A n \in 1..(Current - 1) : replies'[n] = replies[n]
  BY <1>2, <1>5, <1>7
<1>9. Current' = Current /\ Op' = Op /\ ~Waiting'
  BY <1>2, <1>5, <1>8 DEF Current, Op, Waiting
<1>10. /\ \A n, op, k : Replied(n, op, k) => Replied(n, op, k)'
       /\ \A n : GivenUp(n) => GivenUp(n)'
       /\ \A op, k : Replied(Current, op, k)' => op = Op /\ k = code
       /\ \A n \in 1..(Current - 1) : \A op, k : Replied(n, op, k)' <=> Replied(n, op, k)
  <2>1. \A n \in 1..Len(replies) : n \in 1..(Current - 1) /\ n \in 1..Len(replies)'
    BY <1>2, <1>8
  <2>2. \A n \in 1..Len(replies) : replies'[n] = replies[n]  BY <2>1, <1>8
  <2>3. \A n, op, k : Replied(n, op, k) => Replied(n, op, k)'
    BY <2>1, <2>2, <1>5 DEF Replied
  <2>4. \A n : GivenUp(n) => GivenUp(n)'  BY <2>1, <2>2, <1>5 DEF GivenUp
  <2>5. \A op, k : Replied(Current, op, k)' => op = Op /\ k = code
    BY <1>3, <1>5, <1>7, <1>8, <1>9 DEF Replied
  <2>6. \A n \in 1..(Current - 1) : n \in 1..Len(replies) /\ n \in 1..Len(replies)'
    BY <1>2, <1>8
  <2>7. \A n \in 1..(Current - 1) : \A op, k : Replied(n, op, k)' <=> Replied(n, op, k)
    BY <2>2, <2>6, <1>5 DEF Replied
  <2> QED  BY <2>3, <2>4, <2>5, <2>7
<1>11. TypeOK'
  <2>1. replies' \in Seq([code : {0, 2, 1000}, data : 0..Current])  BY <1>8 DEF ReplyRecord
  <2>2. Len(requests)' \in Len(replies)'..MaxRequests
    BY <1>2, <1>5, <1>8, BoundAssumption DEF Current
  <2>3. (outData # NoBuffer <=> Waiting /\ Op = "getPublicInfos")'  BY <1>5, <1>9
  <2>4. outData' \in Blocks \cup {NoBuffer}  BY <1>5
  <2> QED  BY <2>1, <2>2, <2>3, <2>4, <1>1, <1>5, <1>9 DEF TypeOK
<1>12. OneAtATime'  BY <1>2, <1>8, <1>9 DEF OneAtATime
<1>13. CallsInv'
  <2>1. ASSUME NEW c \in calls  PROVE CallRight(c)'
    <3>1. CallRight(c)  BY DEF ServicesInv, CallsInv
    <3>2. c.num \in 1..Current  BY <1>1 DEF TypeOK
    <3>3. GivenUp(c.num)'
      <4>1. CASE c.num <= Len(replies)  BY <4>1, <3>1, <1>10 DEF CallRight
      <4>2. CASE c.num = Current
        <5>1. result = "none"  BY <4>2, <3>1 DEF CallRight
        <5>2. code = 2 /\ Op \in Profiles  BY <5>1, <1>4
        <5> QED  BY <4>2, <5>2, <1>2, <1>3, <1>5, <1>7, <1>8 DEF GivenUp
      <4> QED  BY <4>1, <4>2, <3>2, <1>2
    <3> QED  BY <3>1, <3>3, <1>5, <1>9 DEF CallRight
  <2>2. \A c, d \in calls' : c.num = d.num => c = d  BY <1>5 DEF ServicesInv, CallsInv
  <2> QED  BY <2>1, <2>2, <1>5 DEF CallsInv
<1>14. ResultInv'  BY <1>9 DEF ResultInv
<1>15. FileReady /\ RowsReady /\ WriteReady  BY DEF ServicesInv, ResultInv
<1>16. \A n \in 1..Len(replies)' : n \in 1..(Current - 1) \/ n = Current
  BY <1>2, <1>8
<1>17. FileIsAsked'
  <2> SUFFICES ASSUME NEW n \in 1..Len(replies)', NEW op \in Static, Replied(n, op, 0)'
               PROVE  replies'[n].data = n
    BY DEF FileIsAsked
  <2>1. CASE n \in 1..(Current - 1)
    <3>1. n \in 1..Len(replies) /\ Replied(n, op, 0)  BY <2>1, <1>2, <1>10
    <3> QED  BY <2>1, <3>1, <1>8 DEF ServicesInv, FileIsAsked
  <2>2. CASE n = Current
    <3>1. op = Op /\ code = 0  BY <2>2, <1>9, <1>10
    <3>2. Op \in Reads /\ Op \notin Writes /\ Op # "getPublicInfos"
      BY <3>1 DEF Static, Reads, Writes
    <3>3. data = buffers[Op]  BY <3>1, <3>2 DEF Buffer
    <3>4. result = "ok"  BY <3>1, <3>2, <1>4
    <3> QED  BY <2>2, <3>1, <3>3, <3>4, <1>7, <1>8, <1>15 DEF FileReady
  <2> QED  BY <2>1, <2>2, <1>16
<1>18. RowsAreAsked'
  <2> SUFFICES ASSUME NEW n \in 1..Len(replies)', Replied(n, "getPublicInfos", 0)'
               PROVE  \/ replies'[n].data = n
                      \/ \E m \in 1..(n - 1) : Replied(m, "getPublicInfos", 2)'
    BY DEF RowsAreAsked
  <2>1. CASE n \in 1..(Current - 1)
    <3>1. n \in 1..Len(replies) /\ Replied(n, "getPublicInfos", 0)  BY <2>1, <1>2, <1>10
    <3>2. \/ replies[n].data = n
          \/ \E m \in 1..(n - 1) : Replied(m, "getPublicInfos", 2)
      BY <3>1 DEF ServicesInv, RowsAreAsked
    <3> QED  BY <2>1, <3>2, <1>8, <1>10
  <2>2. CASE n = Current
    <3>1. Op = "getPublicInfos" /\ code = 0  BY <2>2, <1>9, <1>10
    <3>2. Op \in Reads /\ Op \notin Writes  BY <3>1 DEF Reads, Writes
    <3>3. data = buffers[outData]  BY <3>1, <3>2 DEF Buffer, Static
    <3>4. result = "ok"  BY <3>1, <3>2, <1>4
    <3>5. buffers[outData] = Current \/ LateRows  BY <3>1, <3>4, <1>15 DEF RowsReady
    <3> QED  BY <2>2, <3>3, <3>5, <1>7, <1>8, <1>10 DEF LateRows
  <2> QED  BY <2>1, <2>2, <1>16
<1>19. StrayOnlyLate'  BY <1>5, <1>10 DEF ServicesInv, StrayOnlyLate
<1>20. AckedWritesLast'
  <2> SUFFICES ASSUME NEW n \in 1..Len(replies)', requests[n].op \in Writes,
                      replies'[n].code = 0, n \notin refused
               PROVE  InStore(n)'
    BY <1>5 DEF AckedWritesLast, InStore
  <2>1. InStore(n)
    <3>1. CASE n \in 1..(Current - 1)
      <4>1. n \in 1..Len(replies) /\ replies[n].code = 0  BY <3>1, <1>2, <1>8
      <4> QED  BY <4>1 DEF ServicesInv, AckedWritesLast, InStore
    <3>2. CASE n = Current
      <4>1. code = 0 /\ Op \in Writes  BY <3>2, <1>3, <1>7, <1>8
      <4>2. result = r /\ r # "null"  BY <4>1, <1>4
      <4> QED  BY <3>2, <4>1, <4>2, <1>15 DEF WriteReady
    <3> QED  BY <3>1, <3>2, <1>16
  <2> QED  BY <2>1, <1>5, <1>10 DEF InStore
<1> QED
  BY <1>11, <1>12, <1>13, <1>14, <1>17, <1>18, <1>19, <1>20 DEF ServicesInv

-----------------------------------------------------------------------------
(* The theorems *)

(* The invariant is kept by every step and holds at the start.             *)
LEMMA ServicesKept == Spec => []ServicesInv
<1>1. Init => ServicesInv
  <2> SUFFICES ASSUME Init  PROVE ServicesInv
    OBVIOUS
  <2>1. /\ requests = <<>> /\ calls = {} /\ result = "none" /\ outData = NoBuffer
        /\ buffers = [b \in Buffers |-> 0] /\ store = [f \in UserFiles |-> 0]
        /\ replies = <<>> /\ refused = {} /\ stray = {}
    BY DEF Init
  <2>2. Len(requests) = 0 /\ Len(replies) = 0 /\ Current = 0 /\ ~Waiting
    BY <2>1 DEF Current, Waiting
  <2>3. TypeOK
    <3>1. Len(requests) \in Len(replies)..MaxRequests  BY <2>2, BoundAssumption
    <3>2. buffers \in [Buffers -> 0..Current] /\ store \in [UserFiles -> 0..Current]
      BY <2>1, <2>2
    <3> QED  BY <3>1, <3>2, <2>1, <2>2 DEF TypeOK
  <2>4. OneAtATime /\ CallsInv /\ ResultInv
    BY <2>1, <2>2 DEF OneAtATime, CallsInv, ResultInv
  <2>5. FileIsAsked /\ RowsAreAsked /\ StrayOnlyLate /\ AckedWritesLast
    BY <2>1, <2>2 DEF FileIsAsked, RowsAreAsked, StrayOnlyLate, AckedWritesLast
  <2> QED  BY <2>3, <2>4, <2>5 DEF ServicesInv
<1>2. ServicesInv /\ [Next]_vars => ServicesInv'
  <2> SUFFICES ASSUME ServicesInv, [Next]_vars  PROVE ServicesInv'
    OBVIOUS
  <2>1. ASSUME NEW op \in {"uploadUserFile", "getUserFile"}, NEW f \in UserFiles,
               CallService(op, f, NoBuffer)
        PROVE  ServicesInv'
    <3>1. op \in Writes \cup Reads /\ op # "getPublicInfos"  BY DEF Writes, Reads
    <3> QED  BY <2>1, <3>1, CallServiceKeeps, BuffersApart
  <2>2. ASSUME NEW op \in {"getPublisherFile", "setPublicInfo"},
               CallService(op, Profile, NoBuffer)
        PROVE  ServicesInv'
    <3>1. op \in Writes \cup Reads /\ op # "getPublicInfos"  BY DEF Writes, Reads
    <3> QED  BY <2>2, <3>1, CallServiceKeeps, BuffersApart DEF UserFiles
  <2>3. ASSUME NEW b \in Blocks, CallService("getPublicInfos", Profile, b)
        PROVE  ServicesInv'
    <3>1. "getPublicInfos" \in Writes \cup Reads  BY DEF Reads
    <3> QED  BY <2>3, <3>1, CallServiceKeeps DEF UserFiles
  <2>4. CASE PM
    <3>1. PICK c \in calls : Written(c) \/ Refused(c) \/ Read(c) \/ NotFound(c) \/ Failed(c)
      BY <2>4 DEF PM
    <3>2. UNCHANGED <<requests, outData, replies>>  BY <2>4 DEF PM
    <3>3. CASE Written(c)  BY <3>2, <3>3, WrittenKeeps
    <3>4. CASE Read(c)  BY <3>2, <3>4, ReadKeeps
    <3>5. CASE Refused(c) \/ NotFound(c) \/ Failed(c)  BY <3>2, <3>5, NoDataKeeps
    <3> QED  BY <3>1, <3>3, <3>4, <3>5
  <2>5. CASE WaitReturns
    <3>1. Waiting /\ result # "none" /\ Answer(Code(Op, result))
      BY <2>5 DEF WaitReturns
    <3>2. result \in {"ok", "error", "notFound", "null"}
      BY <3>1 DEF ServicesInv, TypeOK
    <3> QED  BY <3>1, <3>2, AnswerKeeps
  <2>6. CASE TimeOut
    <3>1. Waiting /\ result = "none" /\ Op \in Profiles /\ Answer(Code(Op, "null"))
      BY <2>6 DEF TimeOut, TimedOps
    <3> QED  BY <3>1, AnswerKeeps
  <2>7. CASE UNCHANGED vars
    BY <2>7 DEF vars, ServicesInv, TypeOK, OneAtATime, CallsInv, CallRight, GivenUp,
       ResultInv, FileReady, RowsReady, WriteReady, LateRows, InStore, FileIsAsked,
       RowsAreAsked, StrayOnlyLate, AckedWritesLast, Replied, Current, Waiting, Op
  <2> QED
    BY <2>1, <2>2, <2>3, <2>4, <2>5, <2>6, <2>7 DEF Next, Request, Idle
<1> QED
  BY <1>1, <1>2, PTL DEF Spec

(* A file in a reply is the one its request asked for, through a buffer    *)
(* that every such request shares; the profiles in a reply are those asked *)
(* for, unless an earlier getPublicInfos timed out (bdStorage.cpp,         *)
(* bdProfiles.cpp). This is RepliesAsAsked.                                *)
THEOREM RepliesCarryTheAsked == Spec => []RepliesAsAsked
<1>1. ServicesInv => RepliesAsAsked  BY DEF ServicesInv, RepliesAsAsked
<1> QED  BY <1>1, ServicesKept, PTL

(* A result goes to memory that is deleted, or used by a later request,    *)
(* only if it is that of a getPublicInfos that timed out.                  *)
THEOREM StraysAreLate == Spec => []StrayOnlyLate
<1>1. ServicesInv => StrayOnlyLate  BY DEF ServicesInv
<1> QED  BY <1>1, ServicesKept, PTL

(* A write that was acknowledged, and not refused by the PM server, is     *)
(* undone only by a later write or by a setPublicInfo that timed out and   *)
(* takes effect late.                                                      *)
THEOREM AckedWritesStay == Spec => []AckedWritesLast
<1>1. ServicesInv => AckedWritesLast  BY DEF ServicesInv
<1> QED  BY <1>1, ServicesKept, PTL
=============================================================================
