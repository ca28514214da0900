----------------------------- MODULE FilterHook -----------------------------
(***************************************************************************)
(* The exception filter (Patches/DumpHandler.cpp): the system's function   *)
(* that sets it is overwritten by a jump (Hook::Stomp, Hooking.cpp) to a   *)
(* stub, which takes the jump away for as long as it needs the function    *)
(* itself. Threads may call it at any time.                                *)
(***************************************************************************)
EXTENDS Integers, FiniteSets

CONSTANTS
  Threads,
  MaxCalls   (* bound on the calls of the function                         *)

VARIABLES
  code,    (* what the function begins with                                *)
  page,    (* the protection of its page                                   *)
  filter,  (* the filter the system has                                    *)
  at,      (* where each thread is                                         *)
  nested,  (* how many stubs each thread has called from a stub            *)
  saved,   (* the protection each thread will give back                    *)
  alive,   (* FALSE when the page was executed or written and must not be  *)
  calls,   (* how many calls were made                                     *)
  met      (* whether another thread came into the way of one              *)

vars == <<code, page, filter, at, nested, saved, alive, calls, met>>

(* After DumpHandler::Initialize.                                          *)
Init ==
  /\ code = "jump" /\ page = "execute" /\ filter = "ours"
  /\ at = [t \in Threads |-> "away"] /\ nested = [t \in Threads |-> 0]
  /\ saved = [t \in Threads |-> "execute"]
  /\ alive = TRUE /\ calls = 0 /\ met = FALSE

Go(t, place) == at' = [at EXCEPT ![t] = place]
Quiet == UNCHANGED <<nested, calls, met>>

(* SetUnhandledExceptionFilter of the system: the jump leads to the stub,  *)
(* otherwise what the caller asks for is set.                              *)
Enter(t, asked, back) ==
  IF page # "execute" THEN alive' = FALSE /\ Go(t, back) /\ UNCHANGED filter
  ELSE IF code = "jump" THEN Go(t, "unprotect") /\ UNCHANGED <<filter, alive>>
  ELSE filter' = asked /\ Go(t, back) /\ UNCHANGED alive

Call(t) ==
  /\ at[t] = "away" /\ calls < MaxCalls
  /\ calls' = calls + 1
  /\ met' = (met \/ \E u \in Threads \ {t} : at[u] # "away")
  /\ Enter(t, "theirs", "away")
  /\ UNCHANGED <<code, page, saved, nested>>

(* A thread runs something else of that page.                              *)
Pass(t) ==
  /\ at[t] = "away" /\ page # "execute"
  /\ alive' = FALSE /\ met' = TRUE
  /\ UNCHANGED <<code, page, filter, at, nested, saved, calls>>

(* ReleaseHook, the call, InstallHook: a page is made writable, not        *)
(* executable, and gets back what it had when this thread looked.          *)
Protect(t, from, to) ==
  /\ at[t] = from
  /\ saved' = [saved EXCEPT ![t] = page] /\ page' = "write"
  /\ Go(t, to) /\ Quiet /\ UNCHANGED <<code, filter, alive>>

Write(t, from, bytes, to) ==
  /\ at[t] = from
  /\ IF page = "write" THEN code' = bytes /\ UNCHANGED alive
     ELSE alive' = FALSE /\ UNCHANGED code
  /\ Go(t, to) /\ Quiet /\ UNCHANGED <<page, filter, saved>>

Unprotect(t, from, to) ==
  /\ at[t] = from
  /\ page' = saved[t] /\ saved' = [saved EXCEPT ![t] = page]
  /\ Go(t, to) /\ Quiet /\ UNCHANGED <<code, filter, alive>>

ReleaseHook(t) ==
  \/ Protect(t, "unprotect", "restore")
  \/ Write(t, "restore", "own", "released")
  \/ Unprotect(t, "released", "set")

SetFilter(t) ==
  /\ at[t] = "set"
  /\ Enter(t, "ours", "reinstall")
  /\ nested' = [nested EXCEPT ![t] = IF at'[t] = "unprotect" THEN @ + 1 ELSE @]
  /\ UNCHANGED <<code, page, saved, calls, met>>

(* Mutant: the stub returns without putting the jump back.                 *)
InstallHook_Not(t) == at[t] = "reinstall" /\ Go(t, "away") /\ Quiet
                      /\ UNCHANGED <<code, page, filter, saved, alive>>

InstallHook(t) ==
  \/ Protect(t, "reinstall", "jump")
  \/ Write(t, "jump", "jump", "installed")
  \/ nested[t] = 0 /\ Unprotect(t, "installed", "away")
  \/ nested[t] > 0 /\ Unprotect(t, "installed", "return")

Return(t) ==
  /\ at[t] = "return" /\ Go(t, "reinstall")
  /\ nested' = [nested EXCEPT ![t] = @ - 1]
  /\ UNCHANGED <<code, page, filter, saved, alive, calls, met>>

SetUnhandledExceptionFilter_Stub(t) == ReleaseHook(t) \/ SetFilter(t) \/ InstallHook(t) \/ Return(t)

Next == alive /\ \E t \in Threads : Call(t) \/ Pass(t) \/ SetUnhandledExceptionFilter_Stub(t)
Spec == Init /\ [][Next]_vars

-----------------------------------------------------------------------------

(* Whoever asks for a filter of his own, the filter stays ours, and the    *)
(* jump is there and can be executed between the calls, unless another     *)
(* thread called the function, or ran in its page, in the course of one.   *)
FilterStays ==
  ~met => /\ alive /\ filter = "ours"
          /\ (\A t \in Threads : at[t] = "away") => code = "jump" /\ page = "execute"
=============================================================================
