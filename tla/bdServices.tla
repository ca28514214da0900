----------------------------- MODULE bdServices -----------------------------
(***************************************************************************)
(* The LoopDW services that ask the PM servers (DemonWare/bdStorage.cpp,   *)
(* DemonWare/bdProfiles.cpp). dw_thread handles one request at a time:     *)
(* it starts an asynchronous PM call, waits for it, for profiles 5 seconds *)
(* at most, and replies. The call goes on when nobody waits any more.      *)
(*                                                                         *)
(* The PM library is not in this repository. It finishes a call once, when *)
(* it likes, on a thread of its own, or never; it writes the result to the *)
(* buffer it was given. A request is known by its number, and the content  *)
(* of a file or buffer by the number of the request it came from.          *)
(***************************************************************************)
EXTENDS Integers, Sequences

CONSTANTS
  Files,       (* names of user files                                       *)
  Profile,     (* the user file profileiw5pub                               *)
  Blocks,      (* heap blocks that new may return for outData               *)
  MaxRequests  (* bound: requests                                           *)

ASSUME ProfileAssumption == Profile \notin Files
ASSUME BoundAssumption == MaxRequests \in Nat

UserFiles == Files \cup {Profile}

Writes   == {"uploadUserFile", "setPublicInfo"}
Reads    == {"getUserFile", "getPublisherFile", "getPublicInfos"}
Profiles == {"getPublicInfos", "setPublicInfo"}

(* The static buffers of getUserFile and getPublisherFile. *)
Static  == {"getUserFile", "getPublisherFile"}
Buffers == Static \cup Blocks

NoBuffer == "none"

ASSUME BlocksAssumption == Blocks \cap (Static \cup {NoBuffer}) = {}

VARIABLES
  requests,  (* history: the requests, op and file                          *)
  calls,     (* the PM calls that are not finished                          *)
  result,    (* what Wait returns to dw_thread; "none" while it waits       *)
  outData,   (* the block of the current getPublicInfos                     *)
  buffers,   (* the call that wrote to each buffer last, 0 if none          *)
  store,     (* the request that wrote each user file last, 0 if none       *)
  replies,   (* history: code and data                                      *)
  refused,   (* history: the writes the PM server refused                   *)
  stray      (* history: the calls that wrote to memory not theirs          *)

vars == <<requests, calls, result, outData, buffers, store, replies, refused, stray>>

Init ==
  /\ requests = <<>> /\ calls = {} /\ result = "none" /\ outData = NoBuffer
  /\ buffers = [b \in Buffers |-> 0] /\ store = [f \in UserFiles |-> 0]
  /\ replies = <<>> /\ refused = {} /\ stray = {}

-----------------------------------------------------------------------------
(* dw_thread waits for the call of its last request until it replies.      *)
Current == Len(requests)
Waiting == Current > Len(replies)
Op      == requests[Current].op

Buffer(op, b) ==
  CASE op = "getPublicInfos" -> b
    [] op \in Static -> op
    [] OTHER -> NoBuffer

(* callService starts a PM call; b: the block that new returns.            *)
CallService(op, f, b) ==
  /\ ~Waiting /\ Current < MaxRequests
  /\ requests' = Append(requests, [op |-> op, file |-> f])
  /\ calls' = calls \cup
       {[num |-> Current + 1, op |-> op, file |-> f, buffer |-> Buffer(op, b)]}
  /\ outData' = IF op = "getPublicInfos" THEN b ELSE NoBuffer
  /\ result' = "none"
  /\ UNCHANGED <<buffers, store, replies, refused, stray>>

(* bdStorage::callService and bdProfiles::callService                      *)
Request ==
  \/ \E op \in {"uploadUserFile", "getUserFile"}, f \in UserFiles : CallService(op, f, NoBuffer)
  \/ \E op \in {"getPublisherFile", "setPublicInfo"} : CallService(op, Profile, NoBuffer)
  \/ \E b \in Blocks : CallService("getPublicInfos", Profile, b)

-----------------------------------------------------------------------------
(* The PM library finishes a call: well, with an error in its result, or   *)
(* without a result. Only the first two hand over data.                    *)

(* Mutant: whatever call finishes ends the wait.                           *)
Finishes_Any(c, r) ==
  /\ calls' = calls \ {c}
  /\ result' = IF Waiting THEN r ELSE result

Finishes(c, r) ==
  /\ calls' = calls \ {c}
  /\ result' = IF Waiting /\ c.num = Current THEN r ELSE result

(* A write takes effect.                                                   *)
Written(c) ==
  /\ c.op \in Writes
  /\ store' = [store EXCEPT ![c.file] = c.num]
  /\ \E r \in {"ok", "null"} : Finishes(c, r)
  /\ UNCHANGED <<buffers, refused, stray>>

Refused(c) ==
  /\ c.op \in Writes
  /\ refused' = refused \cup {c.num}
  /\ Finishes(c, "error")
  /\ UNCHANGED <<buffers, store, stray>>

(* The result of a read is written to its buffer, whoever has it by now.   *)
Read(c) ==
  /\ c.op \in Reads
  /\ c.op = "getUserFile" => store[c.file] # 0
  /\ buffers' = [buffers EXCEPT ![c.buffer] = c.num]
  /\ stray' = IF Waiting /\ c.num = Current THEN stray ELSE stray \cup {c.num}
  /\ Finishes(c, "ok")
  /\ UNCHANGED <<store, refused>>

NotFound(c) ==
  /\ c.op \in Static
  /\ c.op = "getUserFile" => store[c.file] = 0
  /\ Finishes(c, "notFound")
  /\ UNCHANGED <<buffers, store, refused, stray>>

Failed(c) ==
  /\ \E r \in IF c.op \in Static THEN {"error", "null"} ELSE {"null"} : Finishes(c, r)
  /\ UNCHANGED <<buffers, store, refused, stray>>

PM ==
  /\ \E c \in calls : Written(c) \/ Refused(c) \/ Read(c) \/ NotFound(c) \/ Failed(c)
  /\ UNCHANGED <<requests, outData, replies>>

-----------------------------------------------------------------------------
(* dw_thread goes on *)

(* Mutant: a storage call that fails is taken for done.                    *)
Code_NullIsDone(op, r) ==
  CASE r = "ok" \/ op \in Writes -> 0
    [] r = "null" /\ op \notin Writes -> 2
    [] r = "error" /\ op = "getUserFile" -> 2
    [] OTHER -> 1000

(* The code replied. A write does not look into the result it gets.        *)
Code(op, r) ==
  CASE r = "null" -> 2
    [] r = "ok" \/ (r # "null" /\ op \in Writes) -> 0
    [] r = "error" /\ op = "getUserFile" -> 2
    [] OTHER -> 1000

(* Mutant: outData is not deleted.                                         *)
Answer_Leaks(code) ==
  /\ replies' = Append(replies,
       [code |-> code,
        data |-> IF code = 0 /\ Op \in Reads THEN buffers[Buffer(Op, outData)] ELSE 0])
  /\ UNCHANGED <<requests, calls, result, outData, buffers, store, refused, stray>>

(* reply->send(), then delete[] outData *)
Answer(code) ==
  /\ replies' = Append(replies,
       [code |-> code,
        data |-> IF code = 0 /\ Op \in Reads THEN buffers[Buffer(Op, outData)] ELSE 0])
  /\ outData' = NoBuffer
  /\ UNCHANGED <<requests, calls, result, buffers, store, refused, stray>>

WaitReturns == Waiting /\ result # "none" /\ Answer(Code(Op, result))

(* Mutants: every call is waited for with a time-out, or none.             *)
TimedOps_All  == Writes \cup Reads
TimedOps_None == {}

TimedOps == Profiles

TimeOut == Waiting /\ result = "none" /\ Op \in TimedOps /\ Answer(Code(Op, "null"))

(* dw_thread's loop goes round with nothing to do.                         *)
Idle == ~Waiting /\ UNCHANGED vars

Next == Request \/ PM \/ WaitReturns \/ TimeOut \/ Idle

(* The wait for profiles ends after 5 seconds whatever the PM library      *)
(* does; nothing is assumed about the library.                             *)
Spec == Init /\ [][Next]_vars /\ WF_vars(WaitReturns) /\ WF_vars(TimeOut)

-----------------------------------------------------------------------------
(* Properties *)

TypeOK ==
  /\ requests \in Seq([op : Writes \cup Reads, file : UserFiles])
  /\ Len(requests) \in Len(replies)..MaxRequests
  /\ calls \subseteq [num : 1..Current, op : Writes \cup Reads, file : UserFiles,
                      buffer : Buffers \cup {NoBuffer}]
  /\ result \in {"none", "ok", "error", "notFound", "null"}
  /\ outData \in Blocks \cup {NoBuffer}
  /\ outData # NoBuffer <=> Waiting /\ Op = "getPublicInfos"
  /\ buffers \in [Buffers -> 0..Current] /\ store \in [UserFiles -> 0..Current]
  /\ replies \in Seq([code : {0, 2, 1000}, data : 0..Current])
  /\ refused \subseteq 1..Current /\ stray \subseteq 1..Current

Replied(n, op, code) ==
  n \in 1..Len(replies) /\ requests[n].op = op /\ replies[n].code = code

(* A file in a reply is the one asked for, though it comes through a       *)
(* static buffer and a call may finish at any time: the calls that use the *)
(* buffer are waited for without a time-out.                               *)
FileIsAsked ==
  \A n \in 1..Len(replies), op \in Static :
    Replied(n, op, 0) => replies[n].data = n

(* The public profiles in a reply are those asked for, unless the wait for *)
(* an earlier getPublicInfos timed out: its late result may have been      *)
(* written to the same block.                                              *)
RowsAreAsked ==
  \A n \in 1..Len(replies) :
    Replied(n, "getPublicInfos", 0) =>
      \/ replies[n].data = n
      \/ \E m \in 1..(n - 1) : Replied(m, "getPublicInfos", 2)

(* Whatever a reply carries is what its request asked for, but for the     *)
(* rows behind a wait that timed out.                                      *)
RepliesAsAsked == TypeOK /\ FileIsAsked /\ RowsAreAsked

(* A result is written to memory that is deleted, or somebody else's by    *)
(* then, only if it is that of a getPublicInfos that timed out.            *)
StrayOnlyLate ==
  \A n \in stray : Replied(n, "getPublicInfos", 2)

(* A write that was acknowledged, and not refused, is undone only by a     *)
(* later write, or by a setPublicInfo that timed out and takes effect late. *)
AckedWritesLast ==
  \A n \in 1..Len(replies) :
    requests[n].op \in Writes /\ replies[n].code = 0 /\ n \notin refused =>
      LET m == store[requests[n].file] IN
        m >= n \/ Replied(m, "setPublicInfo", 2)

(* dw_thread waits for a storage call.                                     *)
Blocked == Waiting /\ result = "none" /\ Op \notin Profiles

(* Every request is replied to, unless dw_thread waits for ever in a       *)
(* storage call before it, as it does if the PM library never finishes it. *)
RepliedUnlessBlocked ==
  \A n \in 1..MaxRequests : Current >= n ~> Len(replies) >= n \/ []Blocked
=============================================================================
