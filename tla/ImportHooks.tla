---------------------------- MODULE ImportHooks ----------------------------
(***************************************************************************)
(* The start of the library: DllMain redirects the socket functions the    *)
(* game imports to LoopDW, and Main_DoInit, which the game's entry point   *)
(* is made to jump to, redirects the look-up of names a second time and    *)
(* the clock (PlusIW5.cpp, DWInit.cpp, IAT.cpp, DumpHandler.cpp, with the  *)
(* import tables of Utilities/Hooking.cpp).                                *)
(***************************************************************************)
EXTENDS Integers, Sequences

CONSTANTS
  Tables,    (* the import tables a game may have                          *)
  Sockets    (* the socket functions dw_init redirects                     *)

VARIABLES
  table,  (* a sequence of descriptors, each with the name of a library,   *)
          (* whether it has a table of names, and what is imported: the    *)
          (* function, and whether by name or by ordinal                   *)
  slots,  (* what the game calls for each import                           *)
  step    (* how many redirections were made                               *)

vars == <<table, slots, step>>

Real(func) == <<"real", func>>   (* wsock32 hands out functions of WS2_32  *)

Init ==
  /\ table \in Tables
  /\ slots = [d \in 1..Len(table) |-> [c \in 1..Len(table[d].imports) |-> Real(table[d].imports[c].func)]]
  /\ step = 0

-----------------------------------------------------------------------------
(* Import tables *)

Import(p) == table[p[1]].imports[p[2]]
Slot(p) == slots[p[1]][p[2]]
Places == UNION {{<<d, c>> : c \in DOMAIN table[d].imports} : d \in DOMAIN table}
Before(p, q) == p[1] < q[1] \/ (p[1] = q[1] /\ p[2] < q[2])

(* A descriptor without names ends the search of RedirectIAT.              *)
Searched(p) == \A d \in 1..p[1] : table[d].names

(* Mutant: an ordinal is looked up, as WriteIATAddress does it.            *)
Redirects_Ordinal(p, r) ==
  Searched(p) /\ table[p[1]].library = r.library /\ Import(p).func = r.func

(* By name it is the name that counts, by ordinal what the slot holds.     *)
Redirects(p, r) ==
  /\ Searched(p) /\ table[p[1]].library = r.library
  /\ IF Import(p).named THEN Import(p).func = r.func ELSE Slot(p) = Real(r.func)

(* WriteIATAddress passes by descriptors without names, and finds out what *)
(* an ordinal stands for.                                                  *)
Writes(p, r) ==
  table[p[1]].names /\ table[p[1]].library = r.library /\ Import(p).func = r.func

(* The first import that fits is overwritten.                              *)
Redirect(r) ==
  LET fit == {p \in Places : IF r.library = "winmm" THEN Writes(p, r) ELSE Redirects(p, r)}
  IN  slots' = [d \in DOMAIN slots |-> [c \in DOMAIN slots[d] |->
                  IF <<d, c>> \in fit /\ \A q \in fit : ~Before(q, <<d, c>>)
                  THEN <<r.by, r.func>> ELSE slots[d][c]]]

-----------------------------------------------------------------------------

PatchWinsock(func, by) ==
  <<[library |-> "wsock32", func |-> func, by |-> by], [library |-> "WS2_32", func |-> func, by |-> by]>>

dw_init ==
  [i \in 1..2 * Len(Sockets) |-> PatchWinsock(Sockets[(i + 1) \div 2], "dw")[2 - (i % 2)]]
Main_DoInit ==
  PatchWinsock("gethostbyname", "custom") \o <<[library |-> "winmm", func |-> "timeGetTime", by |-> "safe"]>>
DllMain == dw_init \o Main_DoInit

Start == step < Len(DllMain) /\ step' = step + 1 /\ Redirect(DllMain[step + 1]) /\ UNCHANGED table
Play == step = Len(DllMain) /\ UNCHANGED vars

Next == Start \/ Play
Spec == Init /\ [][Next]_vars

-----------------------------------------------------------------------------

(* The import of its function that is found first in its library.          *)
Found(p) ==
  Searched(p) /\ \A q \in Places :
    Before(q, p) => table[q[1]].library # table[p[1]].library \/ Import(q).func # Import(p).func

(* Of the two redirections of gethostbyname the first stays where it is    *)
(* imported by ordinal, so that names lead to LoopDW, and the second where *)
(* it is imported by name; the other socket functions lead to LoopDW       *)
(* either way, so that connect gets addresses dw_gethostbyname never gave. *)
WinningHook ==
  step = Len(DllMain) =>
    \A p \in Places, i \in DOMAIN Sockets :
      Found(p) /\ table[p[1]].library \in {"wsock32", "WS2_32"} /\ Import(p).func = Sockets[i] =>
      Slot(p) = IF Import(p).named /\ Import(p).func = "gethostbyname"
                THEN <<"custom", "gethostbyname">> ELSE <<"dw", Import(p).func>>
=============================================================================
