----------------------------- MODULE ScriptText -----------------------------
(***************************************************************************)
(* What a dump writes of what the menus do (Patches/DumpMenu.cpp). How     *)
(* PrintStatement writes a statement out of the game's memory: entries,    *)
(* each an operator or an operand. And how a script is made readable       *)
(* (format): one command on a line, with tabs in front and without the     *)
(* quotes the game has put around it. A text is a sequence of words; of a  *)
(* statement without the spaces between them, of a script with the         *)
(* characters that count ("\t", "\n", " ", ";", a quote, "(").             *)
(***************************************************************************)
EXTENDS Integers, Sequences, SequencesExt

CONSTANTS
  commandList,   (* The names of commands, the added one last *)
  AddedCommands, (* ADDED_CMD_COUNT *)
  Lower          (* tolower, of the words it changes *)

-----------------------------------------------------------------------------
(* Statements *)

(* operationEnum, as far as PrintStatement tells operators apart, and      *)
(* expDataType.                                                            *)
RightParen == 1
Not == 7
LeftParen == 16
FirstFunctionCall == 23
StaticDvars == 23..26
VAL_FLOAT == 1
VAL_FUNCTION == 3

Operator(op) == [type |-> "operator", op |-> op]
Operand(dataType, value) == [type |-> "operand", dataType |-> dataType, value |-> value]

(* An entry is a union: the operator of an operand is the operand's type.  *)
Op(entry) == IF entry.type = "operator" THEN entry.op ELSE entry.dataType

(* g_expOperatorNames, as words: a function's name brings its parenthesis. *)
Name(op) ==
  CASE op = LeftParen -> <<<<"(">>>>
    [] op = RightParen -> <<<<")">>>>
    [] op >= FirstFunctionCall -> <<<<"operator", op>>, <<"(">>>>
    [] OTHER -> <<<<"operator", op>>>>

(* The texts of d: a static dvar brings both its parentheses.              *)
StaticDvar(op, index) == <<<<"operator", op>>, <<"(">>, <<"value", index>>, <<")">>>>

(* Mutant: only the index is taken with a static dvar, not what closes it. *)
Taken_IndexOnly(op) == IF op \in StaticDvars THEN 2 ELSE 1

(* The entries an operator takes with it.                                  *)
Taken(op) == IF op \in StaticDvars THEN 3 ELSE 1

RECURSIVE PrintStatement(_, _)

(* The text of all entries from the i-th on. The first asks for the one    *)
(* before it as well, which is whatever lies there in memory.              *)
PrintEntries(entries, before) ==
  LET Prior(i) == IF i = 1 THEN before ELSE Op(entries[i - 1])
      Skips(i) == entries[i].type = "operator" /\ Op(entries[i]) = LeftParen /\ Prior(i) = RightParen
      One(e, i) ==
        CASE e.type = "operator" -> IF e.op \in StaticDvars THEN StaticDvar(e.op, entries[i + 1].value) ELSE Name(e.op)
          [] e.type = "operand" /\ e.dataType = VAL_FUNCTION -> PrintStatement(e.value, before)
          [] OTHER -> <<<<"value", e.value>>>>
      print[i \in 1..Len(entries) + 3] ==
        IF i > Len(entries) THEN <<>>
        ELSE IF Skips(i) THEN print[i + 2]
        ELSE One(entries[i], i)
               \o print[i + IF entries[i].type = "operator" THEN Taken(entries[i].op) ELSE 1]
  IN  print[1]

PrintStatement(entries, before) ==
  LET wrapped == Op(entries[1]) # LeftParen
  IN  (IF wrapped THEN <<<<"(">>>> ELSE <<>>)
        \o PrintEntries(entries, before)
        \o (IF \E i \in 1..Len(entries) : entries[i].type = "operator" THEN <<<<")">>>> ELSE <<>>)
        \o (IF wrapped THEN <<<<")">>>> ELSE <<>>)

-----------------------------------------------------------------------------
(* What a reader makes of it *)

Count(text, word) == Len(SelectSeq(text, LAMBDA w : w = word))
Surplus(text) == Count(text, <<"(">>) - Count(text, <<")">>)
NotParens(text) == SelectSeq(text, LAMBDA w : w \notin {<<"(">>, <<")">>})

-----------------------------------------------------------------------------
(* Scripts *)

Quote == "'"
CommandCount == Len(commandList) - AddedCommands

tolower(w) == IF w \in DOMAIN Lower THEN Lower[w] ELSE w
LowerText(str) == [i \in 1..Len(str) |-> tolower(str[i])]

(* std::string::find: where the text has what is looked for, from a place  *)
(* on, or 0.                                                               *)
find(str, from, start) ==
  LET places == {p \in start..Len(str) - Len(from) + 1 : \A k \in 1..Len(from) : str[p + k - 1] = from[k]}
  IN  IF places = {} THEN 0 ELSE CHOOSE p \in places : \A q \in places : p <= q

(* The first one; all, going on behind what was put in; all whatever their *)
(* case, beginning anew each time.                                         *)
replace(str, from, to) == LET p == find(str, from, 1) IN IF p = 0 THEN str ELSE ReplaceSubSeqAt(p, to, from, str)

RECURSIVE ReplaceFrom(_, _, _, _), _replaceAll(_, _, _)
ReplaceFrom(str, from, to, start) ==
  LET p == find(str, from, start)
  IN  IF p = 0 THEN str ELSE ReplaceFrom(ReplaceSubSeqAt(p, to, from, str), from, to, p + Len(to))
replaceAll(str, from, to) == ReplaceFrom(str, from, to, 1)

_replaceAll(str, from, to) ==
  LET p == find(LowerText(str), LowerText(from), 1)
  IN  IF p = 0 THEN str ELSE _replaceAll(ReplaceSubSeqAt(p, to, from, str), from, to)

Unquote(str, w) == _replaceAll(str, <<Quote, w, Quote>>, <<w>>)

(* Mutant: the quotes are taken before the parenthesis is drawn near.      *)
formatCMD_Swapped(str) ==
  FoldLeft(LAMBDA s, c : _replaceAll(Unquote(s, c), <<Quote, c, Quote, " ", "(">>, <<c, "(">>),
           str, SubSeq(commandList, 1, CommandCount))

(* The loop ends before the added command.                                 *)
formatCMD(str) ==
  FoldLeft(LAMBDA s, c : Unquote(_replaceAll(s, <<Quote, c, Quote, " ", "(">>, <<c, "(">>), c),
           str, SubSeq(commandList, 1, CommandCount))

Targets == <<"self", "forecolor", "backcolor", "bordercolor">>

format(input, tabc) ==
  LET tabs   == [i \in 1..tabc |-> "\t"]
      marked == tabs \o input \o <<"\n">>
      begun  == replace(marked, <<"\t", ";", " ">>, <<"\t">>)
      empty  == replace(begun, tabs \o <<"\n">>, <<>>)
      ended  == replace(replace(empty, <<" ", ";", " ", "\n">>, <<";", "\n">>), <<" ", "\n">>, <<";", "\n">>)
      lines  == replaceAll(ended, <<" ", ";", " ">>, <<";", "\n">> \o tabs)
  IN  FoldLeft(Unquote, formatCMD(lines), Targets)

-----------------------------------------------------------------------------
(* What a reader makes of it: the parts between two words of a kind. *)

SplitAt(str, at) ==
  FoldLeft(LAMBDA parts, w : IF w = at THEN Append(parts, <<>>)
                             ELSE Append(Front(parts), Append(Last(parts), w)), <<<<>>>>, str)
=============================================================================
