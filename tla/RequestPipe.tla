---------------------------- MODULE RequestPipe ----------------------------
(***************************************************************************)
(* What a LoopDW server promises the game (abstract specification of       *)
(* bdServer): packets are served one at a time in the order they were      *)
(* sent; while one is served its messages are answered in order, each at   *)
(* most once and by an answer of its own kind; a request whose service     *)
(* replies is always answered; whole instant messages may appear between   *)
(* any two answers. Every packet sent is eventually served.                *)
(*                                                                         *)
(* A type 7 request ("ticket") has no answer. A request without a service  *)
(* reply ("silent") may get the fallback error: the code means to send it  *)
(* always, and does not (see EveryRequestAnswered in bdServer).            *)
(***************************************************************************)
EXTENDS Naturals, Sequences

CONSTANTS Packets, MaxSends, MaxIMs

VARIABLES
  submitted,  (* the packets sent                                           *)
  served,     (* how many of them have been served                          *)
  wire        (* the frames written to the game, in order                   *)

vars == <<submitted, served, wire>>

Init == submitted = <<>> /\ served = 0 /\ wire = <<>>

Submit(p) ==
  /\ Len(submitted) < MaxSends
  /\ submitted' = Append(submitted, p)
  /\ UNCHANGED <<served, wire>>

(* The frames written for packet n, those among them that answer its       *)
(* message i, and the part of a packet in reach.                           *)
Answers(n) == {k \in 1..Len(wire) : wire[k].src # "im" /\ wire[k].num = n}

HasAnswer(n, i) == \E k \in Answers(n) : wire[k].idx = i

Reaches(p, i) == \A j \in 1..(i - 1) : p[j] \notin {"stop", "empty"}

AnswerKind(kind) ==
  CASE kind = "reply"  -> {"reply"}
    [] kind = "silent" -> {"error"}
    [] kind = "empty"  -> {"empty"}
    [] OTHER           -> {}

(* The packet being served gets its next answer: nothing that had to be    *)
(* answered is skipped.                                                    *)
AnswerNext ==
  /\ served < Len(submitted)
  /\ LET n == served + 1
         p == submitted[n]
     IN \E i \in 1..Len(p) :
          /\ Reaches(p, i)
          /\ \A k \in Answers(n) : wire[k].idx < i
          /\ \A j \in 1..(i - 1) : p[j] = "reply" => HasAnswer(n, j)
          /\ \E s \in AnswerKind(p[i]) :
               wire' = Append(wire, [src |-> s, num |-> n, idx |-> i])
  /\ UNCHANGED <<submitted, served>>

(* It is served once every request with a reply has it.                    *)
Complete ==
  /\ served < Len(submitted)
  /\ LET n == served + 1
         p == submitted[n]
     IN \A i \in 1..Len(p) : Reaches(p, i) /\ p[i] \in {"reply", "empty"} => HasAnswer(n, i)
  /\ served' = served + 1
  /\ UNCHANGED <<submitted, wire>>

Notify ==
  \E n \in 1..MaxIMs :
    /\ wire' = Append(wire, [src |-> "im", num |-> n, idx |-> 0])
    /\ UNCHANGED <<submitted, served>>

Next == (\E p \in Packets : Submit(p)) \/ AnswerNext \/ Complete \/ Notify

Spec == Init /\ [][Next]_vars /\ WF_vars(AnswerNext \/ Complete)
=============================================================================
