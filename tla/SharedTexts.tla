---------------------------- MODULE SharedTexts ----------------------------
(***************************************************************************)
(* Results that live in static memory: va (Utils.cpp), Dvar_va (Dvar.cpp)  *)
(* and ConsolePrint (Singleplayer.cpp) have four buffers that are used in  *)
(* turn, Info_ValueForKey two, and dw_gethostbyname, SEH_LocalizeAsset and *)
(* AddClanTagToName one. No lock guards them.                              *)
(***************************************************************************)
EXTENDS Integers, Sequences

CONSTANTS
  Threads,
  Sizes,     (* how many buffers a function has: 4, 2, 1                   *)
  MaxCalls   (* bound on the calls                                         *)

VARIABLES
  size,     (* of the function at work                                     *)
  next,     (* the index of the next buffer                                *)
  buffers,  (* the call whose text each buffer has; 0: none, or half a one *)
  calls     (* every call: the thread, what it is at, its buffer, whether  *)
            (* another call overlapped it, and how many began after it     *)

vars == <<size, next, buffers, calls>>

Init ==
  /\ size \in Sizes
  /\ next = 0
  /\ buffers = [b \in 0..size - 1 |-> 0]
  /\ calls = <<>>

-----------------------------------------------------------------------------

Busy == {c \in DOMAIN calls : calls[c].at # "returned"}
Idle(t) == \A c \in Busy : calls[c].by # t
To(c, place) == calls' = [calls EXCEPT ![c].at = place]

(* The buffer is taken, then the index goes on: by what was read, or, as   *)
(* the compiler likes, by what it is by then.                              *)
Take(t) ==
  /\ Idle(t) /\ Len(calls) < MaxCalls
  /\ calls' = Append([c \in DOMAIN calls |-> [calls[c] EXCEPT !.met = @ \/ c \in Busy, !.since = @ + 1]],
                     [by |-> t, at |-> "taken", buffer |-> next, met |-> Busy # {}, since |-> 0])
  /\ UNCHANGED <<size, next, buffers>>

(* Mutant: the index stays where it is.                                    *)
Following_Same(i) == i

Following(i) == (i + 1) % size

Advance(c) ==
  /\ calls[c].at = "taken" /\ To(c, "advanced")
  /\ next' \in {Following(calls[c].buffer), Following(next)}
  /\ UNCHANGED <<size, buffers>>

(* vsprintf writes the text letter by letter.                              *)
Write(c) ==
  \/ /\ calls[c].at = "advanced" /\ To(c, "writing")
     /\ buffers' = [buffers EXCEPT ![calls[c].buffer] = 0] /\ UNCHANGED <<size, next>>
  \/ /\ calls[c].at = "writing" /\ To(c, "returned")
     /\ buffers' = [buffers EXCEPT ![calls[c].buffer] = c] /\ UNCHANGED <<size, next>>

Next == (\E t \in Threads : Take(t)) \/ (\E c \in DOMAIN calls : Advance(c) \/ Write(c))
Spec == Init /\ [][Next]_vars

-----------------------------------------------------------------------------

(* A text a caller got stays what it was until as many other calls have    *)
(* begun as there are buffers; only a call that overlaps another may have  *)
(* its text mixed up before.                                               *)
TextsKept ==
  \A c \in DOMAIN calls \ Busy :
    ~calls[c].met /\ calls[c].since < size => buffers[calls[c].buffer] = c
=============================================================================
