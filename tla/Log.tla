-------------------------------- MODULE Log ---------------------------------
(***************************************************************************)
(* The log (Utilities/Log.cpp): whoever prints waits until a counter is    *)
(* zero, then counts himself in, writes the parts of a line, and counts    *)
(* himself out. The counter is an ordinary 32-bit number without a sign.   *)
(***************************************************************************)
EXTENDS Integers, Sequences

CONSTANTS
  Threads,
  Parts,      (* in how many parts a line is written: 4                    *)
  Wrap,       (* the counter's range: 2^32                                 *)
  MaxPrints   (* bound on lines                                            *)

VARIABLES
  queue,     (* the counter                                                *)
  printing,  (* what each thread is at: the place, the counter it read,    *)
             (* the parts written                                          *)
  file,      (* the parts in the file, by their lines                      *)
  prints,    (* how many lines were begun                                  *)
  together   (* whether two threads ever were past the wait at once        *)

vars == <<queue, printing, file, prints, together>>

Away == [at |-> "away", read |-> 0, line |-> 0, parts |-> 0]

Init ==
  /\ queue = 0 /\ file = <<>> /\ prints = 0 /\ together = FALSE
  /\ printing = [t \in Threads |-> Away]

At(t, place) == printing[t].at = place
Inside == {t \in Threads : ~At(t, "away") /\ ~At(t, "wait")}
Go(t, place) == printing' = [printing EXCEPT ![t].at = place]

-----------------------------------------------------------------------------

(* Debug, Error, Info, Trace and Warning.                                  *)
PrintLine(t) ==
  /\ At(t, "away") /\ prints < MaxPrints
  /\ prints' = prints + 1
  /\ printing' = [printing EXCEPT ![t] = [at |-> "wait", read |-> 0, line |-> prints + 1, parts |-> 0]]
  /\ UNCHANGED <<queue, file, together>>

(* while (queue > 0) Sleep(1).                                             *)
Wait(t) ==
  /\ At(t, "wait") /\ queue = 0 /\ Go(t, "enter")
  /\ together' = (together \/ Inside # {})
  /\ UNCHANGED <<queue, file, prints>>

(* A count is a read and a write.                                          *)
Read(t, from, to) ==
  /\ At(t, from)
  /\ printing' = [printing EXCEPT ![t].at = to, ![t].read = queue]
  /\ UNCHANGED <<queue, file, prints, together>>
Count(t, from, change, to) ==
  /\ At(t, from)
  /\ queue' = (printing[t].read + change) % Wrap
  /\ Go(t, to) /\ UNCHANGED <<file, prints, together>>

Enter(t) == Read(t, "enter", "entering") \/ Count(t, "entering", 1, "write")

(* Mutant: nobody counts himself out.                                      *)
Leave_Not(t) == At(t, "leave") /\ Go(t, "away") /\ UNCHANGED <<queue, file, prints, together>>

Leave(t) == Read(t, "leave", "leaving") \/ Count(t, "leaving", -1, "away")

WritePart(t) ==
  /\ At(t, "write")
  /\ file' = Append(file, printing[t].line)
  /\ printing' = [printing EXCEPT ![t].parts = @ + 1,
                                  ![t].at = IF printing[t].parts + 1 = Parts THEN "leave" ELSE "write"]
  /\ UNCHANGED <<queue, prints, together>>

Next == \E t \in Threads : PrintLine(t) \/ Wait(t) \/ Enter(t) \/ WritePart(t) \/ Leave(t)
Spec == Init /\ [][Next]_vars

-----------------------------------------------------------------------------

(* As long as no two threads came past the wait together, the counter says *)
(* whether someone is inside, so that the next one will come in, and the   *)
(* lines of the file are whole. Once they did, neither is sure any more: a *)
(* count may be lost, and the counter pass below zero and stay above it.   *)
LogCounts ==
  ~together =>
    /\ \A t, u \in Inside : t = u
    /\ Inside = {} => queue = 0 /\ Len(file) % Parts = 0
    /\ \A i \in 1..Len(file) : i % Parts # 1 => file[i] = file[i - 1]
=============================================================================
