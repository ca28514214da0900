------------------------ MODULE HardwareBreakpoints ------------------------
(***************************************************************************)
(* Hardware breakpoints (Utilities/hwbrk.cpp): a helper thread stops the   *)
(* target, reads its debug registers, changes them, and writes them back.  *)
(* The caller waits for its helper; nothing keeps two helpers of one       *)
(* target apart. Nothing in this program calls it.                         *)
(***************************************************************************)
EXTENDS Integers

CONSTANTS
  Threads,     (* callers and targets                                      *)
  Registers,   (* 0..3                                                     *)
  None,        (* no helper, an empty register                             *)
  MaxSets      (* bound on breakpoints                                     *)

VARIABLES
  dr,       (* the address each thread's registers watch                   *)
  helpers,  (* what each caller's helper is doing                          *)
  handles,  (* what callers have: the address, the register, the target,   *)
            (* and whether the target was named as "this thread"           *)
  sets,     (* how many were asked for                                     *)
  met       (* threads two helpers worked on at once, or whose breakpoint  *)
            (* another thread removed as its own                           *)

vars == <<dr, helpers, handles, sets, met>>

Init ==
  /\ dr = [t \in Threads |-> [r \in Registers |-> None]]
  /\ helpers = [c \in Threads |-> None]
  /\ handles = {} /\ sets = 0 /\ met = {}

Contexts == [Registers -> Nat \union {None}]
Handles == [a : Nat, iReg : Nat, on : Threads, this : BOOLEAN]
Helpers == [opr : {"set", "remove"}, h : Handles, target : Threads, ct : Contexts \union {None}]

WorkedOn == {helpers[c].target : c \in {c \in Threads : helpers[c] # None}}

Start(c, opr, h, target) ==
  helpers' = [helpers EXCEPT ![c] = [opr |-> opr, h |-> h, target |-> target, ct |-> None]]

(* GetCurrentThread() names whoever asks; a handle keeps that name.        *)
SetHardwareBreakpoint(c, t, this) ==
  /\ helpers[c] = None /\ sets < MaxSets /\ (this => t = c)
  /\ sets' = sets + 1
  /\ Start(c, "set", [a |-> sets + 1, iReg |-> 0, on |-> t, this |-> this], t)
  /\ met' = met \union ({t} \intersect WorkedOn)
  /\ UNCHANGED <<dr, handles>>

RemoveHardwareBreakpoint(c, h) ==
  /\ helpers[c] = None
  /\ LET target == IF h.this THEN c ELSE h.on
     IN  /\ Start(c, "remove", h, target)
         /\ met' = met \union ({target} \intersect WorkedOn) \union (IF target = h.on THEN {} ELSE {target, h.on})
  /\ handles' = handles \ {h} /\ UNCHANGED <<dr, sets>>

(* SuspendThread counts, so two helpers may both go on.                    *)
GetThreadContext(c) ==
  /\ helpers[c] # None /\ helpers[c].ct = None
  /\ helpers' = [helpers EXCEPT ![c].ct = dr[helpers[c].target]]
  /\ UNCHANGED <<dr, handles, sets, met>>

(* Mutant: a register counts as busy when the bit of the one before it is  *)
(* set.                                                                    *)
Busy_Off(ct, r) == r > 0 /\ ct[r - 1] # None

Busy(ct, r) == ct[r] # None

Idle(ct) == {r \in Registers : ~Busy(ct, r) /\ \A q \in Registers : q < r => Busy(ct, q)}

SetThreadContext(c) ==
  /\ helpers[c] # None /\ helpers[c].ct # None
  /\ LET op == helpers[c]
     IN  \/ /\ op.opr = "remove"
            /\ dr' = [dr EXCEPT ![op.target] = [op.ct EXCEPT ![op.h.iReg] = None]]
            /\ UNCHANGED handles
         \/ /\ op.opr = "set"
            /\ \E r \in Idle(op.ct) :
                 /\ dr' = [dr EXCEPT ![op.target] = [op.ct EXCEPT ![r] = op.h.a]]
                 /\ handles' = handles \union {[op.h EXCEPT !.iReg = r]}
         \/ /\ op.opr = "set" /\ Idle(op.ct) = {}
            /\ UNCHANGED <<dr, handles>>
  /\ helpers' = [helpers EXCEPT ![c] = None] /\ UNCHANGED <<sets, met>>

Next ==
  \E c \in Threads :
    \/ \E t \in Threads, this \in BOOLEAN : SetHardwareBreakpoint(c, t, this)
    \/ \E h \in handles : RemoveHardwareBreakpoint(c, h)
    \/ GetThreadContext(c) \/ SetThreadContext(c)
Spec == Init /\ [][Next]_vars

-----------------------------------------------------------------------------

(* The registers of a thread watch what there are handles for, each in its *)
(* own, unless two helpers worked on that thread at once, or a handle made *)
(* for "this thread" was removed by another.                               *)
BreakpointsStay ==
  \A t \in Threads \ (met \union WorkedOn) :
    LET on == {h \in handles : h.on = t}
    IN  /\ \A h \in on : dr[t][h.iReg] = h.a
        /\ \A r \in Registers : dr[t][r] # None => \E h \in on : h.iReg = r
        /\ \A h, g \in on : h.iReg = g.iReg => h = g
=============================================================================
