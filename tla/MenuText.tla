------------------------------ MODULE MenuText ------------------------------
(***************************************************************************)
(* How a dumped menu is written (Patches/DumpMenu.cpp): its fields, its    *)
(* items and the handlers of its events, which nest. A text is a sequence  *)
(* of tokens: tabs, the end of a line, a brace, a keyword or a value. A    *)
(* script, a statement or a colour is one value; 0 is a field left alone.  *)
(***************************************************************************)
EXTENDS Integers, Sequences, SequencesExt

CONSTANTS
  TabsSize,    (* of the static array of getTabs: 10                       *)
  notice,      (* the texts of the connect menu, as a sequence             *)
  Lower,       (* of names: the same in lower case                         *)
  Null         (* no name, no dvar                                         *)

Tabs(t) == <<"tabs", t>>
NewLine == <<"newline">>
Open == <<"{">>
Close == <<"}">>
Key(k) == <<"key", k>>
Value(v) == <<"value", v>>
Line(tabs, tokens) == <<Tabs(tabs)>> \o tokens \o <<NewLine>>

(* The zero behind the tabs is written wherever it falls.                  *)
getTabs(t) == [text |-> IF t < TabsSize THEN t ELSE TabsSize, beyond |-> t >= TabsSize]

(* PrintString, PrintColor, PrintFloat, PrintInt and PrintBool.            *)
PrintField(value, name, tabc) == IF value = 0 THEN <<>> ELSE Line(tabc, <<Key(name), Value(value)>>)
PrintRect(rect, tabc) == Line(tabc, <<Key("rect"), Value(rect)>>)

(* Those of the named fields that are set, in the order they are printed.  *)
PrintFields(object, names, tabc) ==
  FlattenSeq([n \in DOMAIN names |-> PrintField(object[names[n]], names[n], tabc)])

-----------------------------------------------------------------------------
(* Handlers of events *)

(* setLocalVar, and what it is set to.                                     *)
PrintSetLocalVarData(tabc) == Line(tabc, <<Key("setLocalVar")>>)

(* Mutant: a handler inside is written at the place of the handler.        *)
Inside_Flat(tabc) == tabc

Inside(tabc) == tabc + 1

RECURSIVE PrintEvents(_, _), PrintMenuEventHandlerSet(_, _, _)

PrintConditionalScript(body, tabc) ==
  Line(tabc, <<Key("if")>>) \o Line(tabc, <<Open>>) \o PrintEvents(body, Inside(tabc)) \o Line(tabc, <<Close>>)

PrintEvents(set, tabc) ==
  FoldLeft(LAMBDA text, e :
             text \o CASE e.type = "script" -> Line(tabc, <<Key("script")>>)
                       [] e.type = "setLocalVar" -> PrintSetLocalVarData(tabc)
                       [] e.type = "if" -> PrintConditionalScript(e.body, tabc)
                       [] e.type = "else" -> PrintMenuEventHandlerSet(e.body, <<Key("else")>>, tabc),
           <<>>, set)

PrintMenuEventHandlerSet(set, name, tabc) ==
  Line(tabc, name) \o Line(tabc, <<Open>>) \o PrintEvents(set, Inside(tabc)) \o Line(tabc, <<Close>>)

PrintHandlers(object, names, tabc) ==
  FoldLeft(LAMBDA text, h : text \o PrintMenuEventHandlerSet(object.handlers[h], <<Key(h)>>, tabc), <<>>,
           SelectSeq(names, LAMBDA h : h \in DOMAIN object.handlers))

(* Handlers of keys are a list.                                            *)
PrintItemKeyHandler(keys, tabc) ==
  FoldLeft(LAMBDA text, k :
             text \o PrintMenuEventHandlerSet(k.action, <<Key("execKeyInt"), Value(k.key)>>, tabc), <<>>, keys)

-----------------------------------------------------------------------------
(* What an item has by its type *)

(* ITEM_TYPE_...                                                           *)
ListBox == 6
Slider == 10
Multi == 12
DvarEnum == 13
GameMessageWindow == 19
NewsTicker == 20
Edited == {0, 4, 9, 11, 14, 16, 17, 18, 22, 23}

FloatTargets ==
  LET parts == [rect |-> <<"x", "y", "w", "h">>, colour |-> <<"r", "g", "b", "rgb", "a">>]
      Of(what, kind) == [k \in 1..Len(parts[kind]) |-> <<what, parts[kind][k]>>]
  IN  Of("rect", "rect") \o Of("forecolor", "colour") \o Of("glowcolor", "colour") \o Of("backcolor", "colour")

PrintItemFloatExpressions(expressions, tabc) ==
  FoldLeft(LAMBDA text, e :
             text \o Line(tabc, <<Key("exp"), Value(FloatTargets[e.target + 1]), Value(e.expression)>>),
           <<>>, expressions)

PrintLBColumns(columns, tabc) ==
  FoldLeft(LAMBDA text, c : text \o Line(tabc, <<Value(c)>>),
           Line(tabc, <<Key("columns"), Value(Len(columns)), Value(columns[1])>>), Tail(columns))

DumpListBox(l, tabc) ==
  PrintFields(l, <<"selectBorder", "selectIcon", "elementWidth", "elementHeight", "elementtype">>, tabc)
    \o PrintLBColumns(l.columns, tabc)
    \o PrintFields(l, <<"noscrollbars", "notselectable", "usepaging">>, tabc)
    \o PrintMenuEventHandlerSet(l.doubleClick, <<Key("doubleClick")>>, tabc)

DumpMultiDef(multi, tabc) ==
  Line(tabc, <<Key(IF multi.strDef THEN "dvarStrList" ELSE "dvarFloatList"), Open>>
    \o FoldLeft(LAMBDA text, c :
                  text \o <<Value(c.dvar), Value(IF multi.strDef THEN c.str ELSE c.value)>>, <<>>, multi.choices)
    \o <<Close>>)

(* A slider is passed no dvar; a list of a dvar's has no end of line.      *)
PrintItemDefData(type, data, tabc) ==
  CASE data = <<>> -> <<>>
    [] data # <<>> /\ type = ListBox -> DumpListBox(data[1], tabc)
    [] data # <<>> /\ type = Multi -> DumpMultiDef(data[1], tabc)
    [] data # <<>> /\ type = DvarEnum -> <<Tabs(tabc), Key("dvar"), Key("dvarEnumList"), Value(data[1].enumDvarName)>>
    [] data # <<>> /\ type = NewsTicker -> PrintFields(data[1], <<"newsfeed", "speed", "spacing">>, tabc)
    [] data # <<>> /\ type \in Edited ->
         PrintFields(data[1], <<"maxChars", "maxCharsGotoNext", "maxPaintChars">>, tabc)
    [] data # <<>> /\ type = Slider -> Line(tabc, <<Key("dvarFloat"), Value("(null)"), Value(data[1].range)>>)
    [] OTHER -> <<>>

(* Mutant: two kinds of test share their keyword.                          *)
TestKeyword_Shared(dvarFlags, garbage) == IF dvarFlags \in {4, 8} THEN "showDvar" ELSE "enableDvar"

(* The keyword of flags it does not know is whatever was there.            *)
TestKeyword(dvarFlags, garbage) ==
  CASE dvarFlags = 1 -> "enableDvar" [] dvarFlags = 2 -> "disableDvar" [] dvarFlags = 4 -> "showDvar"
    [] dvarFlags = 8 -> "hideDvar" [] dvarFlags = 16 -> "focusDvar" [] OTHER -> garbage
PrintDvarTest(i, garbage, tabc) ==
  PrintField(i["dvarTest"], "dvarTest", tabc)
    \o IF i["enableDvar"] = 0 THEN <<>>
       ELSE Line(tabc, <<Key(TestKeyword(i.dvarFlags, garbage)), Open, Value(i["enableDvar"]), Close>>)

-----------------------------------------------------------------------------
(* Windows, items and menus *)

StaticFlags ==
  <<"decoration", "horizontalscroll", "screenSpace", "autowrapped", "popup", "outOfBoundsClick",
    "legacySplitScreenScale", "hiddenDuringFlashbang", "hiddenDuringScope", "hiddenDuringUI", "textOnlyFocus">>
WindowFields ==
  StaticFlags \o <<"visible", "group", "style", "border", "bordersize", "ownerdraw", "ownerdrawFlag", "forecolor",
                   "backcolor", "bordercolor", "outlinecolor", "disablecolor", "background">>
PrintWindow(w, tabc) ==
  PrintField(w["name"], "name", tabc) \o PrintRect(w["rect"], tabc) \o PrintFields(w, WindowFields, tabc)

ItemLook ==
  <<"type", "align", "textfont", "textalign", "textalignx", "textaligny", "textscale", "glowColor", "decodeEffect">>
ItemText == <<"text", "textsavegame", "textcinematicsubtitle", "feeder", "focusSound">>
ItemStatements == <<"visible when", "disabled when", "exp text", "exp material", "exp textAlignY">>
ItemHandlers ==
  <<"mouseEnterText", "mouseExitText", "mouseEnter", "mouseExit", "action", "accept", "onFocus", "hasFocus", "leaveFocus">>

DumpItem(i, garbage) ==
  Line(2, <<Key("itemDef")>>) \o Line(2, <<Open>>)
    \o PrintWindow(i, 3) \o PrintFields(i, ItemLook, 3)
    \o (IF i["type"] = GameMessageWindow THEN PrintFields(i, <<"gamemsgwindowindex", "gamemsgwindowmode">>, 3) ELSE <<>>)
    \o PrintFields(i, ItemText, 3)
    \o (IF i["type"] \notin {Slider, DvarEnum} THEN PrintField(i["dvar"], "dvar", 3) ELSE <<>>)
    \o PrintItemDefData(i["type"], i.typeData, 3)
    \o PrintDvarTest(i, garbage, 3)
    \o PrintItemFloatExpressions(i.floatExpressions, 3) \o PrintFields(i, ItemStatements, 3)
    \o PrintItemKeyHandler(i.onKey, 3) \o PrintHandlers(i, ItemHandlers, 3)
    \o Line(2, <<Close>>)

MenuFields ==
  <<"focuscolor", "fullscreen", "fadeCycle", "fadeClamp", "fadeAmount", "fadeInAmount", "blurWorld", "allowedBinding",
    "visible when", "exp rect x", "exp rect y", "exp rect h", "exp rect w", "exp openSound", "exp closeSound",
    "exp soundLoop">>
MenuHandlers == <<"onOpen", "onRequestClose", "onClose", "onEsc", "onFocusDueToClose">>

DumpMenus(m, garbage) ==
  Line(0, <<Open>>) \o Line(1, <<Key("menuDef")>>) \o Line(1, <<Open>>)
    \o PrintWindow(m, 2) \o PrintFields(m, MenuFields, 2)
    \o PrintItemKeyHandler(m.onKey, 2) \o PrintHandlers(m, MenuHandlers, 2)
    \o FoldLeft(LAMBDA text, i : text \o DumpItem(i, garbage), <<>>, m.items)
    \o Line(1, <<Close>>) \o Line(0, <<Close>>)

(* What of windowDef_t, itemDef_t, menuDef_t and the data of an item's     *)
(* type is printed as a field of its own.                                  *)
WindowMembers == {"name", "rect"} \union ToSet(WindowFields)
ItemMembers ==
  WindowMembers \union ToSet(ItemLook \o ItemText \o ItemStatements)
    \union {"dvar", "dvarTest", "enableDvar", "gamemsgwindowindex", "gamemsgwindowmode"}
MenuMembers == WindowMembers \union ToSet(MenuFields)
TypeMembers(type) ==
  CASE type = ListBox -> {"selectBorder", "selectIcon", "elementWidth", "elementHeight", "elementtype",
                          "noscrollbars", "notselectable", "usepaging"}
    [] type = NewsTicker -> {"newsfeed", "speed", "spacing"}
    [] type \in Edited -> {"maxChars", "maxCharsGotoNext", "maxPaintChars"}
    [] OTHER -> {}

-----------------------------------------------------------------------------
(* What a reader makes of it *)

Words(text) == SelectSeq(text, LAMBDA t : t[1] \notin {"tabs", "newline"})

(* By the keywords and braces: each keyword with the values behind it and  *)
(* what its block holds.                                                   *)
ByBraces(text) ==
  LET words == Words(text)
      Leaf(head, values) == [head |-> head, values |-> values, body |-> <<>>]
      Add(open, x) == [open EXCEPT ![Len(open)] = Append(@, x)]
      Amend(open, Change(_)) == [open EXCEPT ![Len(open)] = Append(Front(@), Change(Last(@)))]
      read[n \in 0..Len(words)] ==
        IF n = 0 THEN <<<<>>>>
        ELSE LET open == read[n - 1]
                 t == words[n]
             IN  CASE t = Open -> Append(IF Last(open) = <<>> THEN Add(open, Leaf("", <<>>)) ELSE open, <<>>)
                   [] t = Close -> Amend(Front(open), LAMBDA e : [e EXCEPT !.body = Last(open)])
                   [] t[1] = "key" -> Add(open, Leaf(t[2], <<>>))
                   [] t[1] = "value" -> IF Last(open) = <<>> THEN Add(open, Leaf("", <<t[2]>>))
                                        ELSE Amend(open, LAMBDA e : [e EXCEPT !.values = Append(@, t[2])])
  IN  read[Len(words)]

RECURSIVE Block(_, _, _)
Block(head, values, set) ==
  [head |-> head, values |-> values,
   body |-> [k \in 1..Len(set) |->
               IF set[k].type \in {"if", "else"} THEN Block(set[k].type, <<>>, set[k].body)
               ELSE [head |-> set[k].type, values |-> <<>>, body |-> <<>>]]]

(* How many braces are open before a token, or with the one it closes.     *)
Depth(text, n) ==
  LET prior == SubSeq(text, 1, n - 1)
      count(t) == Len(SelectSeq(prior, LAMBDA x : x = t))
  IN  count(Open) - count(Close) - IF n < Len(text) /\ text[n + 1] = Close THEN 1 ELSE 0

-----------------------------------------------------------------------------
(* What MenuFileHookFunc changes in the menus of a file when the game      *)
(* loads it. The menus are the game's own, not copies.                     *)

Same(name, lower) == (IF name \in DOMAIN Lower THEN Lower[name] ELSE name) = lower

(* Every "didyouknow" gets a text: index is what the clock made of the     *)
(* random numbers, the same for all within a second.                       *)
NewConnectMenu(menu, index) ==
  [menu EXCEPT !.items = [i \in 1..Len(@) |->
     IF @[i].dvar # Null /\ Same(@[i].dvar, "didyouknow")
     THEN [@[i] EXCEPT !.text = notice[index], !.fontEnum = 9] ELSE @[i]]]

EditIOTDFont(menu) ==
  [menu EXCEPT !.items = [i \in 1..Len(@) |->
     IF @[i].name # Null /\ Same(@[i].name, "iotd") THEN [@[i] EXCEPT !.fontEnum = 9] ELSE @[i]]]

EditErrorMessageFont(menu) ==
  [menu EXCEPT !.items = [i \in 1..Len(@) |-> [@[i] EXCEPT !.fontEnum = 7]]]

(* Mutant: the menus' names are not asked for.                             *)
EditedMenu_Any(menu, index) == EditIOTDFont(NewConnectMenu(menu, index))

EditedMenu(menu, index) ==
  CASE Same(menu.name, "connect") -> NewConnectMenu(menu, index)
    [] Same(menu.name, "main") -> EditIOTDFont(menu)
    [] Same(menu.name, "error_popmenu_submenu") ->
         EditErrorMessageFont([menu EXCEPT !.w = @ + 100, !.h = @ + 100])
    [] OTHER -> menu

MenuFileHookFunc(file, index) == [i \in 1..Len(file) |-> EditedMenu(file[i], index)]
=============================================================================
