------------------------------ MODULE MCParts ------------------------------
(***************************************************************************)
(* Constant values for the run of Parts, the setting in which lines of the *)
(* console outgrow their string, and one more part: it spells the words on *)
(* which the pure parts are checked.                                       *)
(***************************************************************************)
EXTENDS Parts, TLC

VARIABLES
  long,   (* whether the console is run with long lines                    *)
  word    (* of the pure parts                                             *)

MCPool == <<"main", none, "main">>

MCKeys == {96, 97, 160, 13, 127, 9}
MCDvars == {<<97>>}
MCCommands == {<<98, 97, 65>>}

Imports(funcs) == UNION {[1..k -> [func : funcs, named : BOOLEAN]] : k \in 1..2}
Descriptors ==
  [library : {"wsock32", "WS2_32"}, names : BOOLEAN, imports : Imports({"gethostbyname", "connect"})]
    \union [library : {"winmm"}, names : {TRUE}, imports : [1..1 -> [func : {"timeGetTime"}, named : BOOLEAN]]]
MCTables == [1..2 -> Descriptors]
MCSockets == <<"gethostbyname", "connect">>

MCDrives == UNION {[1..k -> [first : BOOLEAN, serial : BOOLEAN]] : k \in 0..2}

Rows == INSTANCE InGameConsole WITH
  Keys <- {96, 160, 13, 127, 32}, Dvars <- {}, Commands <- {},
  Small <- 2, ShownRows <- 2, MaxRows <- 3, MaxInput <- 4, MaxDown <- 2,
  held <- keysHeld, commands <- listed
Pure == INSTANCE Codecs WITH MaxWord <- 4

(* Two keys differ in case only; "bad;" stands for what a blacklist hits.  *)
MCInfoKeys == <<"a", "A", "b", "bad;">>
MCInfoValues == {"one", "two", "", "bad;"}
MCTextSize == [text \in {"a", "A", "b", "bad;"} \union MCInfoValues |->
                 IF text = "two" THEN 5 ELSE IF text = "" THEN 0 ELSE 1]
MCLowerCase == [text \in {"a", "A", "b", "bad;"} |-> IF text = "A" THEN "a" ELSE text]

(* Dumps differ in nothing but their names. *)
DumpsAlike == Permutations(Dumps)

-----------------------------------------------------------------------------

(* The console is run with few keys twice: once for what it completes, and *)
(* once for the rows of its log, with lines that outgrow their string. A   *)
(* machine with drives meets one login only, one without meets two.        *)
MCInit ==
  \/ /\ Init /\ word = 0
     /\ part = "login" /\ drives # <<>> => launcher = MaxLogins
     /\ long \in BOOLEAN /\ (long => part = "console" /\ type = "SP")
  \/ part = "codecs" /\ Started /\ long = FALSE /\ Pure!Init

MCNext ==
  /\ UNCHANGED long
  /\ CASE part = "codecs" -> Pure!Next /\ UNCHANGED vars
       [] long -> Rows!Next /\ UNCHANGED <<word, part, menuVars, importVars, filterVars, textVars, keyVars,
                              logVars, kickVars, loginVars, breakpointVars, lobbyVars, startupVars, pureVars>>
       [] OTHER -> Next /\ UNCHANGED word

MCSpec == MCInit /\ [][MCNext]_<<vars, long, word>>

-----------------------------------------------------------------------------

(* Messages are read as they were written: replies and bits by the other   *)
(* end, whatever stands around them; sessions by whoever looks for one;    *)
(* every request gets the answer due to it; and whichever service the game *)
(* asks for a ticket, the lobby service gets the key out of it.            *)
MessagesReadBack == part = "codecs" => Pure!MessagesReadBack

(* Digests of known texts, patterns found where they are, and patches      *)
(* written where they were found.                                          *)
UtilitiesAgree == part = "codecs" => Pure!UtilitiesAgree

(* A dumped menu is read again as it was, and a loaded one is edited once. *)
MenusReadBack == part = "codecs" => Pure!MenusReadBack
=============================================================================
