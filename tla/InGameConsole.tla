--------------------------- MODULE InGameConsole ---------------------------
(***************************************************************************)
(* The console (Patches/InGameConsole.cpp): a hook in front of the game's  *)
(* key handler that types into a line of its own while the console is      *)
(* open, and the lists of names that complete it (Patches/Dvar.cpp), made  *)
(* when a frame is drawn (Patches/Drawing.cpp).                            *)
(***************************************************************************)
EXTENDS Integers, Sequences, SequencesExt, FiniteSets

CONSTANTS
  Keys,      (* the keys of the keyboard, by the game's numbers            *)
  Dvars,     (* names of dvars and of commands the game registers some     *)
  Commands,  (* time, as sequences of letters                              *)
  Small,     (* letters a std::string holds in itself: 15                  *)
  ShownRows, (* rows of the log: 28                                        *)
  MaxRows,   (* bound on the rows there are between two frames             *)
  MaxInput,  (* bound on the length of the line                            *)
  MaxDown    (* bound on the keys down at once                             *)

Backspace == 127
Tab == 9
Space == 32
Shift == 160
Enters == {13, 191}
Tildes == {96, 126}

VARIABLES
  type,      (* Global::Game::Type                                         *)
  pressed,   (* the keys that are down                                     *)
  held,      (* the keys the game holds for down: Key_IsDown               *)
  box,       (* DrawConsoleInputBox                                        *)
  log,       (* DrawConsoleListBox                                         *)
  catching,  (* Catching                                                   *)
  input,     (* InputText                                                  *)
  names,     (* the names the game has registered                          *)
  loaded,    (* isMaterialsLoaded: a frame was drawn                       *)
  dvars,     (* DvarsList                                                  *)
  commands,  (* CommandsList                                               *)
  suggested, (* SuggestedDvarsList, in any order                           *)
  typed,     (* whether the last change of the line was typed or deleted   *)
  where,     (* the letters of InputText: "inside" it or on the "heap"     *)
  rows,      (* ConsoleLog, pointers: "inside", "heap", or to what is      *)
             (* "freed"                                                    *)
  filled     (* whether the line ever had as many letters as fit inside    *)

lists == <<names, loaded, dvars, commands>>
memory == <<where, rows, filled>>
vars == <<type, pressed, held, box, log, catching, input, lists, suggested, typed, memory>>
view == <<box, log, catching>>
text == <<input, suggested, typed, memory>>

Init ==
  /\ type \in {"SP", "MP"}
  /\ pressed = {} /\ held = {}
  /\ names = {} /\ loaded = FALSE /\ dvars = {} /\ commands = {}
  /\ box = FALSE /\ log = FALSE /\ catching = FALSE
  /\ input = <<>> /\ suggested = {} /\ typed = FALSE
  /\ where = "inside" /\ rows = <<>> /\ filled = FALSE

-----------------------------------------------------------------------------
(* Letters and names *)

Above == [k \in {91, 93, 92, 59, 39, 44, 46, 47, 96, 45, 61} \union 48..57 |->
            CASE k \in {91, 92, 93} -> k + 32
              [] k = 59 -> 58 [] k = 39 -> 34 [] k = 44 -> 60 [] k = 46 -> 62 [] k = 47 -> 63
              [] k = 96 -> 126 [] k \in {45, 61} -> 95
              [] k = 48 -> 41 [] k = 50 -> 64 [] k = 54 -> 94 [] k = 55 -> 38
              [] k \in {56, 57} -> k - 14 [] OTHER -> k - 16]

(* A char is signed: the cases of the number pad, from 182 on, meet none.  *)
ConverttoUppercase(key) ==
  IF key \in 97..122 THEN key - 32
  ELSE IF key \in DOMAIN Above THEN Above[key] ELSE 0

Matches(name, word) == \E i \in 0..Len(name) - Len(word) : SubSeq(name, i + 1, i + Len(word)) = word

listed == dvars \union commands
FindSuggestionDvars(word) == {name \in listed : Matches(name, word)}

-----------------------------------------------------------------------------
(* The memory of the line: the rows of the log are pointers to its letters *)

Dangling(log1) == [i \in DOMAIN log1 |-> IF log1[i] = "heap" THEN "freed" ELSE log1[i]]
Fills(line) == filled' = (filled \/ Len(line) >= Small)

(* The string comes to hold so many letters, and never gives room back: on *)
(* the heap it moves when it grows out of what it got there.               *)
Holds(size, log1) ==
  /\ where' = IF size > Small THEN "heap" ELSE where
  /\ \/ rows' = log1
     \/ where = "heap" /\ size > Small /\ rows' = Dangling(log1)

(* Another string is moved into it: it takes that one's letters and frees  *)
(* its own.                                                                *)
TakesOver(size) ==
  /\ where' = IF size > Small THEN "heap" ELSE "inside"
  /\ rows' = Dangling(rows)

Changed(line) ==
  /\ Len(line) <= MaxInput
  /\ Fills(line)
  /\ input' = line /\ suggested' = FindSuggestionDvars(line) /\ typed' = TRUE

-----------------------------------------------------------------------------
(* The game *)

(* ~ with and without shift: opens the console, or closes it.              *)
InitConsole(withLog) ==
  /\ box' = ~box /\ catching' = ~box
  /\ log' = (withLog /\ ~box)
  /\ UNCHANGED <<text, lists>>

CL_KeyEvent(key, down) == held' = IF down THEN held \union {key} ELSE held \ {key}

(* In MP the game's own handler opens the console.                         *)
LetItGo(key, down) ==
  /\ CL_KeyEvent(key, down)
  /\ IF type = "MP" /\ down /\ key \in Tildes
     THEN InitConsole(Shift \in held)
     ELSE UNCHANGED <<view, text, lists>>

Swallowed == UNCHANGED <<held, view, lists>>

-----------------------------------------------------------------------------
(* The hook, while the console is open *)

Close == box' = FALSE /\ log' = FALSE /\ catching' = FALSE

(* Enter works when it is released. The line becomes a row, gets its       *)
(* newline, and is emptied; the suggestions stay.                          *)
Enter ==
  /\ UNCHANGED <<held, lists, suggested, filled>>
  /\ IF input = <<>> THEN UNCHANGED <<view, input, typed, where, rows>>
     ELSE /\ Len(rows) < MaxRows
          /\ Holds(Len(input) + 1, Append(rows, where))
          /\ Close /\ input' = <<>> /\ typed' = FALSE

(* Mutant: the names are not searched again.                               *)
PressBackspace_Stale ==
  /\ IF input = <<>> THEN UNCHANGED text
     ELSE input' = Front(input) /\ typed' = TRUE /\ UNCHANGED <<suggested, memory>>
  /\ CL_KeyEvent(Backspace, TRUE) /\ UNCHANGED <<view, lists>>

PressBackspace ==
  /\ IF input = <<>> THEN UNCHANGED text ELSE Changed(Front(input)) /\ TakesOver(Len(input) - 1)
  /\ CL_KeyEvent(Backspace, TRUE) /\ UNCHANGED <<view, lists>>

(* The list of dvars is asked and the first suggestion is read: with none  *)
(* the read is of what the vector held before, or of nothing.              *)
PressTab ==
  /\ Swallowed
  /\ IF dvars = {} THEN UNCHANGED text
     ELSE /\ input' \in IF suggested # {} THEN suggested ELSE listed \union {<<>>}
          /\ Fills(input') /\ Holds(Len(input'), rows)
          /\ typed' = FALSE /\ UNCHANGED suggested

PressSpace ==
  /\ Len(input) < MaxInput
  /\ Swallowed
  /\ input' = Append(input, Space) /\ typed' = FALSE /\ UNCHANGED suggested
  /\ Fills(input') /\ Holds(Len(input'), rows)

(* Letters obey shift; caps lock too. Other keys that have a symbol above  *)
(* them obey shift alone.                                                  *)
Letter(key, caps) ==
  LET upper == ConverttoUppercase(key)
  IN  IF key \in 97..125 THEN IF caps \/ Shift \in held THEN upper ELSE key
      ELSE IF upper > 0 /\ Shift \notin held THEN key ELSE upper

Types(key) == key \in 97..125 \/ ConverttoUppercase(key) > 0

PressOther(key) ==
  IF Types(key)
  THEN Swallowed /\ \E caps \in BOOLEAN : Changed(Append(input, Letter(key, caps)))
       /\ Holds(Len(input) + 1, rows)
  ELSE LetItGo(key, TRUE)

(* Mutant: what is caught is caught when it is released, too.              *)
Caught_Releases(key, down) ==
  IF ~down /\ Types(key) THEN Swallowed /\ UNCHANGED text ELSE
  CASE ~down /\ key \in Enters  -> Enter
    [] down /\ key = Backspace  -> PressBackspace
    [] down /\ key = Tab        -> PressTab
    [] down /\ key = Space      -> PressSpace
    [] down /\ key \notin Enters \union {Backspace, Tab, Space} -> PressOther(key)
    [] OTHER -> LetItGo(key, down)

Caught(key, down) ==
  CASE ~down /\ key \in Enters  -> Enter
    [] down /\ key = Backspace  -> PressBackspace
    [] down /\ key = Tab        -> PressTab
    [] down /\ key = Space      -> PressSpace
    [] down /\ key \notin Enters \union {Backspace, Tab, Space} -> PressOther(key)
    [] OTHER -> LetItGo(key, down)

CL_KeyEventHook(key, down) ==
  IF type = "SP" /\ down /\ key \in Tildes
  THEN InitConsole(Shift \in held) /\ CL_KeyEvent(key, down)
  ELSE IF catching THEN Caught(key, down) ELSE LetItGo(key, down)

-----------------------------------------------------------------------------

(* A key is pressed, held long enough to repeat, or released.              *)
Press(key) ==
  /\ Cardinality(pressed \union {key}) <= MaxDown
  /\ pressed' = pressed \union {key}
  /\ CL_KeyEventHook(key, TRUE) /\ UNCHANGED type

Release(key) ==
  /\ key \in pressed
  /\ pressed' = pressed \ {key}
  /\ CL_KeyEventHook(key, FALSE) /\ UNCHANGED type

Others == UNCHANGED <<type, pressed, held, view, input, suggested, where, filled>>

(* The game registers a dvar or a command.                                 *)
Register(name) ==
  /\ names' = names \union {name}
  /\ Others /\ UNCHANGED <<typed, loaded, dvars, commands, rows>>

(* A frame: either list is made in the first, and again while it is empty; *)
(* the names that are registered later are in none.                        *)
Dvar_ForEachName == names \cap Dvars
Cmd_ForEachName == names \cap Commands
ListAllDvars == dvars' = IF loaded /\ dvars # {} THEN dvars ELSE Dvar_ForEachName
ListAllCommands == commands' = IF loaded /\ commands # {} THEN commands ELSE Cmd_ForEachName

(* The oldest rows go when there are more than are shown, if they are.     *)
DrawConsole ==
  rows' = IF box /\ log /\ Len(rows) > ShownRows
          THEN SubSeq(rows, Len(rows) - ShownRows + 1, Len(rows)) ELSE rows

DrawStuff ==
  /\ loaded' = TRUE
  /\ ListAllDvars /\ ListAllCommands /\ DrawConsole
  /\ <<loaded, dvars, commands, rows>>' # <<loaded, dvars, commands, rows>>
  /\ typed' = (typed /\ <<dvars, commands>>' = <<dvars, commands>>)
  /\ Others /\ UNCHANGED names

Next ==
  \/ DrawStuff
  \/ \E name \in Dvars \union Commands : Register(name)
  \/ \E key \in Keys : Press(key) \/ Release(key)
Spec == Init /\ [][Next]_vars

-----------------------------------------------------------------------------

(* Whatever is pressed before, while and after the console is open, the    *)
(* game holds no key for down that is up, but for Enter: its press goes to *)
(* the game and its release does not.                                      *)
HeldOnlyEnter == held \ pressed \subseteq Enters

(* Every row is a pointer to the letters of the line itself, so what they  *)
(* show is the line of the moment. None leads to freed memory, as long as  *)
(* no line had as many letters as fit inside: the newline is one more.     *)
RowsLead == filled \/ \A i \in DOMAIN rows : rows[i] # "freed"

(* Tab completes what was typed last to a name that contains it, unless no *)
(* name listed does: names registered after the lists were made, and those *)
(* listed since the last letter, are not known to it.                      *)
Completed ==
  catching /\ typed /\ ~typed' /\ catching' /\ input' # Append(input, Space) /\ lists' = lists
    => \/ input' \in listed /\ Matches(input', input)
       \/ \A name \in listed : ~Matches(name, input)
TabCompletes == [][Completed]_vars
=============================================================================
