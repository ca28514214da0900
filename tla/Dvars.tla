------------------------------- MODULE Dvars --------------------------------
(***************************************************************************)
(* The dumpdvar command (Patches/Dvar.cpp): how a dvar's current value is  *)
(* compared with the one that waits for a restart, and both are shown. A   *)
(* value is a union of four words; a word is told apart by what it is as a *)
(* float and as an integer.                                                *)
(***************************************************************************)
EXTENDS Integers, Sequences

VARIABLE dvar

Words == {"zero", "one", "minusZero", "nan"}   (* as integers 0, .., min, -1 *)

Bool    == 0
Float   == 1
Float2  == 2
Float3  == 3
Float4  == 4
Integer == 5
Enum    == 6
String  == 7
Color   == 8
Types == 0..10

EqualFloats(v, w) == v # "nan" /\ w # "nan" /\ (v = w \/ {v, w} = {"zero", "minusZero"})

(* Compares where two arrays are, not what they hold.                      *)
Vec4Compare == FALSE

(* Mutant: two numbers are compared by the first.                          *)
Dvar_ValuesEqual_First(type, val0, val1) ==
  CASE type \in {Bool, Float, Float2, Integer, Enum, 9} -> EqualFloats(val0[1], val1[1])
    [] type \in {Float3, Float4} -> Vec4Compare
    [] type \in {String, 10} -> val0[1] = val1[1]
    [] OTHER -> FALSE

(* Numbers are floats here whatever they are; colours are not handled;     *)
(* two types more are, which no text shows.                                *)
Dvar_ValuesEqual(type, val0, val1) ==
  CASE type \in {Bool, Float, Integer, Enum, 9} -> EqualFloats(val0[1], val1[1])
    [] type = Float2 -> EqualFloats(val0[1], val1[1]) /\ EqualFloats(val0[2], val1[2])
    [] type \in {Float3, Float4} -> Vec4Compare
    [] type \in {String, 10} -> val0[1] = val1[1]
    [] OTHER -> FALSE

(* Two words are copied; the others are what the stack held.               *)
Copy(first, second, stack) == <<first[1], second[2]>> \o stack

Dvar_HasLatchedValue(of, stack) ==
  ~Dvar_ValuesEqual(of.type, Copy(of.current, of.current, stack),
                    Copy(of.latched, of.latched, stack))

(* A text is the words it shows; of the red of a colour whether it is 0.   *)
Dvar_ValueToString(type, value) ==
  CASE type = Bool   -> <<IF value[1] \in {"zero", "minusZero"} THEN "0" ELSE "1">>
    [] type = Float2 -> SubSeq(value, 1, 2)
    [] type = Float3 -> SubSeq(value, 1, 3)
    [] type = Float4 -> value
    [] type \in {Float, Integer, Enum, String} -> <<value[1]>>
    [] type = Color  -> <<IF value[1] \in {"zero", "minusZero"} THEN "0" ELSE "1/255", value[1]>>
    [] OTHER -> <<>>

(* Of the latched value the first word is taken, the second is not.        *)
Dvar_DisplayableLatchedValue(of, stack) ==
  Dvar_ValueToString(of.type, Copy(of.latched, of.current, stack))
Dvar_DisplayableValue(of, stack) ==
  Dvar_ValueToString(of.type, Copy(of.current, of.current, stack))

PrintDvar(of, stack) ==
  IF Dvar_HasLatchedValue(of, stack)
  THEN [shown |-> Dvar_DisplayableValue(of, stack), latched |-> <<Dvar_DisplayableLatchedValue(of, stack)>>]
  ELSE [shown |-> Dvar_DisplayableValue(of, stack), latched |-> <<>>]

-----------------------------------------------------------------------------
(* The game: a value is set to wait for a restart, which takes it over.    *)

Pairs == [1..2 -> Words]

Init == \E type \in Types, value \in Pairs : dvar = [type |-> type, current |-> value, latched |-> value]

Latch == \E value \in Pairs : dvar' = [dvar EXCEPT !.latched = value]
Restart == dvar' = [dvar EXCEPT !.current = dvar.latched]

Next == Latch \/ Restart

Plain(values) == \A i \in DOMAIN values : values[i] \notin {"minusZero", "nan"}

(* A dvar that waits for a new value is listed with it, one that does not  *)
(* is not. The exceptions: numbers of type int that are NaN or minus zero  *)
(* as floats; vectors of three and four, and colours, which are always     *)
(* listed as waiting; and of a pair the second number shown as new is the  *)
(* old one. No text depends on the stack, except those vectors'.           *)
LatchedShown ==
  \A x \in Words :
    LET type   == dvar.type
        text   == PrintDvar(dvar, <<x, x>>)
        n      == IF type = Float2 THEN 2 ELSE 1
        now    == SubSeq(dvar.current, 1, n)
        then   == SubSeq(dvar.latched, 1, n)
    IN  /\ IF type \in {Float3, Float4, Color} THEN text.latched # <<>>
           ELSE (Plain(now) /\ Plain(then)) \/ type \in {String, 10} => (text.latched = <<>> <=> now = then)
        /\ type \in {Bool, Float, Integer, Enum, String} /\ text.latched # <<>> =>
             text.latched = <<Dvar_ValueToString(type, dvar.latched)>>
        /\ type = Float2 /\ text.latched # <<>> => text.latched[1] = <<dvar.latched[1], dvar.current[2]>>
        /\ type \notin {Float3, Float4} => text = PrintDvar(dvar, <<"zero", "zero">>)
=============================================================================
