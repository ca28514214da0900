---------------------------- MODULE SinglePlayer ----------------------------
(***************************************************************************)
(* The search for bytes in the game's image (Utilities/Patternscan.cpp),   *)
(* and Patch_IW5SP of Patches/Singleplayer.cpp, which searches for the     *)
(* places it patches in the single-player game, and leads three functions  *)
(* that leave their locals uninitialised through code that clears them.    *)
(* A range is memory and the places [first, second) of it, counted from    *)
(* where the memory begins; a pattern is a sequence of bytes and           *)
(* wildcards. Writes to fixed addresses are left out.                      *)
(***************************************************************************)
EXTENDS Integers, Sequences, FiniteSets, SequencesExt

CONSTANTS
  Wild, Space,   (* the characters ? and ' ' of a readable pattern         *)
  Base           (* the address at which the memory begins                 *)

(* Stringtopattern and Stringtomask: a text is spaces, question marks and  *)
(* pairs of hexadecimal digits; the byte of a wildcard is 0.               *)
Stringtopattern(text) == SelectSeq(text, LAMBDA token : token # Space)
PatternByte(p) == IF p = Wild THEN 0 ELSE p

Compare(memory, at, pattern) ==
  \A i \in 1..Len(pattern) : pattern[i] \in {Wild, memory[at + i]}

Missing == -Base                         (* the place of the address 0    *)
Lost(memory) == Len(memory)              (* behind all that can be read    *)

(* The first place that fits. The first byte has to be equal, wildcard or  *)
(* not, and the last place at which the pattern would fit is not looked    *)
(* at. How many there are is unsigned: in a range shorter than the pattern *)
(* the search has no end, and leaves first the range, then the memory.     *)
Findpattern(memory, first, second, pattern) ==
  LET count  == second - first - Len(pattern)
      places == IF count < 0 THEN first..Len(memory) - Len(pattern) ELSE first..first + count - 1
      Fits   == {a \in places : memory[a + 1] = PatternByte(pattern[1]) /\ Compare(memory, a, pattern)}
  IN  IF Fits # {} THEN CHOOSE a \in Fits : \A b \in Fits : a <= b
      ELSE IF count < 0 THEN Lost(memory) ELSE Missing

(* Mutant: the search goes on behind the whole match.                      *)
Findpatterns_Apart(memory, second, pattern) ==
  LET from[first \in 0..Len(memory)] ==
        LET a == Findpattern(memory, first, second, pattern)
        IN  CASE a = Missing -> <<>> [] a = Lost(memory) -> <<a>> [] OTHER -> <<a>> \o from[a + Len(pattern)]
  IN  from[0]

(* From each match the search goes on one byte further; it does not come   *)
(* back from where nothing can be read.                                    *)
Findpatterns(memory, second, pattern) ==
  LET from[first \in 0..Len(memory)] ==
        LET a == Findpattern(memory, first, second, pattern)
        IN  CASE a = Missing -> <<>> [] a = Lost(memory) -> <<a>> [] OTHER -> <<a>> \o from[a + 1]
  IN  from[0]

(* All places at which the pattern stands.                                 *)
Matches(memory, pattern) ==
  {a \in 0..Len(memory) - Len(pattern) : Compare(memory, a, pattern)}

-----------------------------------------------------------------------------
(* What is searched for, where in it is written, and what *)

Nop2 == <<144, 144>>
Jmp == <<235>>

netfix ==
  <<[pattern |-> <<117, 11, 139, 61, Wild, Wild, Wild, Wild, 233>>, at |-> 0, bytes |-> Nop2],
    [pattern |-> <<59, 61, Wild, Wild, Wild, Wild, 117, 17, 106, 30, 232>>, at |-> 6, bytes |-> Nop2],
    [pattern |-> <<131, 255, 1, 117, Wild, 139, 134, 128, 0, 0, 0>>, at |-> 3, bytes |-> Nop2],
    [pattern |-> <<131, 124, 36, 16, 0, 15, 132, Wild, 0, 0, 0, 51, 219>>, at |-> 5, bytes |-> Nop2 \o Nop2 \o Nop2]>>
lobbyfix ==
  <<[pattern |-> <<132, 192, 117, 26, 139, 76, 36, 16>>, at |-> 2, bytes |-> Jmp],
    [pattern |-> <<139, 206, 232, Wild, Wild, Wild, Wild, 132, 192, 116, 22, 255, 21>>, at |-> 9, bytes |-> Nop2],
    [pattern |-> <<139, 241, 57, 16, 117, 97>>, at |-> 4, bytes |-> Nop2],
    [pattern |-> <<56, 29, Wild, Wild, Wild, Wild, 117, 110>>, at |-> 6, bytes |-> Nop2]>>
netport == [pattern |-> <<106, 0, 104, 136, 105, 0, 0>>, at |-> 3, bytes |-> <<0, 114>>]
joinfix == [pattern |-> <<131, 196, 8, 132, 192, 117, 26, 139, 76, 36, 4>>, at |-> 5, bytes |-> Jmp]
xlivefix == [pattern |-> <<131, 196, 20, 133, 192, 116, 28, 161>>, at |-> 5, bytes |-> Nop2]
netfix5 == [pattern |-> <<127, 237, 139, 68, 36, 12>>, at |-> 0, bytes |-> Jmp]

(* The whole of what a stack fix searches for is done by its function.     *)
stackfix ==
  <<<<131, 236, 56, 104, 1, 64, 1, 0>>, <<131, 236, 64, 104, 0, 64, 0, 0>>,
    <<139, 68, 36, 8, 129, 236, 28, 9, 0, 0>>>>

-----------------------------------------------------------------------------
(* The patches. A search that fails is not noticed: its place is then the  *)
(* offset from address 0, where nothing can be written, which ends the     *)
(* game.                                                                   *)

Find(memory, pattern, at) == Findpattern(memory, 0, Len(memory), pattern) + at
Put(memory, place, bytes) ==
  SubSeq(memory, 1, place) \o bytes \o SubSeq(memory, place + Len(bytes) + 1, Len(memory))
Write(s, place, bytes) ==
  IF s.ended \/ place < 0 THEN [s EXCEPT !.ended = TRUE]
  ELSE [s EXCEPT !.memory = Put(@, place, bytes)]
DWord(n) == <<n % 256, (n \div 256) % 256, 0, 0>>     (* of addresses below 65536 *)

(* Mutant: a port is not written before the next is searched for.          *)
NetPort_Unwritten(s, k) == [s EXCEPT !.places = Append(@, Find(s.memory, netport.pattern, netport.at))]

(* Once a port is written the search finds the next.                       *)
NetPort(s, k) ==
  LET place == Find(s.memory, netport.pattern, netport.at)
  IN  [Write(s, place, netport.bytes) EXCEPT !.places = Append(@, place)]

(* Everything is searched for before anything but the ports is written;    *)
(* the ports are written again in their turn.                              *)
Patch_IW5SP(memory, stackfunc) ==
  LET Sites(m, fixes) ==
        [i \in 1..Len(fixes) |-> [place |-> Find(m, fixes[i].pattern, fixes[i].at), bytes |-> fixes[i].bytes]]
      ported == FoldLeft(NetPort, [memory |-> memory, places |-> <<>>, ended |-> FALSE], <<1, 2, 3>>)
      spots  == [i \in 1..3 |-> Find(ported.memory, stackfix[i], 0)]
      writes == Sites(memory, netfix) \o Sites(ported.memory, <<netfix5>>) \o Sites(memory, lobbyfix)
                  \o [i \in 1..3 |-> [place |-> ported.places[i], bytes |-> netport.bytes]]
                  \o Sites(ported.memory, <<joinfix, xlivefix>>)
                  \o [i \in 1..3 |-> [place |-> spots[i], bytes |-> <<233>> \o DWord(stackfunc[i] - spots[i] - 5)]]
      last   == FoldLeft(LAMBDA s, w : Write(s, w.place, w.bytes), ported, writes)
  IN  [memory |-> last.memory, ended |-> last.ended,
       stackspot |-> [i \in 1..3 |-> spots[i] + Len(stackfix[i])]]

-----------------------------------------------------------------------------
(* The functions xx1 to xx3, on a machine of esp, eax and the words of the *)
(* stack. In the code the frames have 14, 16 and 583 words.                *)

Push(m, word) == [m EXCEPT !.esp = @ - 1, !.stack = [@ EXCEPT ![m.esp - 1] = word]]
Sub(m, words) == [m EXCEPT !.esp = @ - words]

(* From the end of the frame up to the old top each word is cleared.       *)
Clear(m, words) ==
  [m EXCEPT !.eax   = m.esp,
            !.stack = [a \in DOMAIN @ |-> IF a \in m.esp - words..m.esp - 1 THEN 0 ELSE @[a]]]

LoadArgument(m) == [m EXCEPT !.eax = m.stack[m.esp + 2]]

xx1(m, words) == Push(Sub(Clear(m, words), words), 81921)
xx2(m, words) == Push(Sub(Clear(m, words), words), 16384)
xx3(m, words) == Sub(LoadArgument(Clear(m, words)), words)

(* What they stand for: the instructions searched for.                     *)
Replaced(i, m, words) ==
  CASE i = 1 -> Push(Sub(m, words), 81921)
    [] i = 2 -> Push(Sub(m, words), 16384)
    [] i = 3 -> Sub(LoadArgument(m), words)
=============================================================================
