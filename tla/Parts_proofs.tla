---------------------------- MODULE Parts_proofs ----------------------------
(***************************************************************************)
(* What the smaller parts keep, proved for every value of the constants:   *)
(* each part has an inductive invariant of its own, and a behaviour, which *)
(* is one part's, keeps that of its part.                                  *)
(***************************************************************************)
EXTENDS Parts, FiniteSetTheorems, SequenceTheorems, TLAPS

(* Quotient and remainder are what they are called.                        *)
LEMMA Quotient ==
  ASSUME NEW d \in Nat \ {0}, NEW q \in Nat, NEW r \in 0..(d-1)
  PROVE  (d*q + r) \div d = q /\ (d*q+r) % d = r
OBVIOUS

(* A number is made of its quotient and remainder.                         *)
LEMMA DivMod ==
  ASSUME NEW a \in Nat, NEW d \in Nat \ {0}
  PROVE  a \div d \in Nat /\ a % d \in 0..(d-1) /\ a = d * (a \div d) + (a % d)
<1>1. a \div d \in Nat /\ a % d \in 0..(d - 1)
  OBVIOUS
<1> DEFINE q == a \div d
           r == a - d * q
<1>2. d * q <= a /\ a < d * q + d
  OBVIOUS
<1>3. q \in Nat /\ d * q \in Nat
  BY <1>1
<1> HIDE DEF q
<1>4. r \in 0..(d - 1) /\ a = d * q + r
  BY <1>2, <1>3
<1>5. a % d = r
  <2> HIDE DEF r
  <2> QED BY <1>3, <1>4, Quotient
<1>6. a = d * q + (a % d)
  BY <1>4, <1>5
<1> QED
  BY <1>1, <1>6 DEF q

(* One more: the remainder grows, or the quotient does.                    *)
LEMMA NextDiv ==
  ASSUME NEW a \in Nat, NEW d \in Nat \ {0}
  PROVE  /\ (a + 1) % d = IF a % d = d - 1 THEN 0 ELSE (a % d) + 1
         /\ (a + 1) \div d = IF a % d = d - 1 THEN a \div d + 1 ELSE a \div d
<1> DEFINE q == a \div d
           r == a % d
<1>1. q \in Nat /\ r \in 0..(d - 1) /\ a = d * q + r
  BY DivMod
<1> HIDE DEF q, r
<1>2. CASE r = d - 1
  <2>1. a + 1 = d * (q + 1) + 0 /\ q + 1 \in Nat /\ 0 \in 0..(d - 1)
    BY <1>1, <1>2
  <2>2. (a + 1) \div d = q + 1 /\ (a + 1) % d = 0
    <3>1. (d * (q + 1) + 0) \div d = q + 1 /\ (d * (q + 1) + 0) % d = 0
      BY <2>1, Quotient
    <3> QED
      BY <2>1, <3>1
  <2> QED
    BY <1>2, <2>2 DEF q, r
<1>3. CASE r # d - 1
  <2>1. a + 1 = d * q + (r + 1) /\ r + 1 \in 0..(d - 1)
    BY <1>1, <1>3
  <2>2. (a + 1) \div d = q /\ (a + 1) % d = r + 1
    <3>1. (d * q + (r + 1)) \div d = q /\ (d * q + (r + 1)) % d = r + 1
      BY <1>1, <2>1, Quotient
    <3> QED
      BY <2>1, <3>1
  <2> QED
    BY <1>3, <2>2 DEF q, r
<1> QED
  BY <1>2, <1>3

(* Small numbers are their own remainders.                                 *)
LEMMA SmallMod ==
  ASSUME NEW d \in Nat \ {0}, NEW r \in 0..(d - 1)
  PROVE  r % d = r
<1>1. (d * 0 + r) % d = r
  BY Quotient
<1> QED
  BY <1>1

-----------------------------------------------------------------------------
(* Menus *)

(* A dump alone finds the file it is about to open missing still, or no    *)
(* stream left; who had ended before it has ended.                         *)
MenuFields ==
  DOMAIN dumps = Dumps /\ \A d \in Dumps : DOMAIN dumps[d] = {"at", "n", "look", "path", "log", "before"}

MenuInv ==
  /\ MenuFields
  /\ \A d \in Dumps : dumps[d].before \subseteq Menu!Ended
  /\ \A d \in Dumps :
       Menu!At(d, "create") /\ Menu!Alone(d) /\ dumps[d].path \in DOMAIN files
         => dumps[d].path = Menu!Wtf \/ Menu!Full

(* No dump has begun.                                                      *)
LEMMA MenuStarts == Menu!Init => MenuInv
BY DEF Menu!Init, MenuInv, MenuFields, Menu!At

(* A dump's step is its own.                                               *)
LEMMA MenuOwn ==
  ASSUME MenuFields, NEW d \in Dumps, Menu!DumpMenu(d) \/ Menu!DumpMenus(d)
  PROVE  MenuFields' /\ \A e \in Dumps : e # d => dumps'[e] = dumps[e]
<1>1. CASE Menu!DumpMenu(d)
  BY <1>1 DEF Menu!DumpMenu, MenuFields
<1>2. CASE Menu!NextMenu(d)
  <2>1. PICK n0 : n0 = dumps[d].n
    OBVIOUS
  <2>2. CASE n0 > Len(Pool)
    BY <1>2, <2>1, <2>2 DEF Menu!NextMenu, MenuFields
  <2>3. CASE ~(n0 > Len(Pool))
    BY <1>2, <2>1, <2>3 DEF Menu!NextMenu, MenuFields
  <2> QED
    BY <2>2, <2>3
<1>3. CASE Menu!UniqueFile(d)
  BY <1>3 DEF Menu!UniqueFile, MenuFields
<1>4. CASE Menu!Create(d)
  BY <1>4 DEF Menu!Create, MenuFields
<1>5. CASE Menu!PrintMenu(d)
  BY <1>5 DEF Menu!PrintMenu, MenuFields
<1> QED
  BY <1>1, <1>2, <1>3, <1>4, <1>5 DEF Menu!DumpMenus

(* A step of one dump leaves the others' theirs.                           *)
LEMMA MenuKept ==
  ASSUME MenuInv, Menu!Next
  PROVE  MenuInv'
<1>1. PICK d \in Dumps : Menu!DumpMenu(d) \/ Menu!DumpMenus(d)
  BY DEF Menu!Next
<1>2. MenuFields /\ MenuFields' /\ \A e \in Dumps : e # d => dumps'[e] = dumps[e]
  BY <1>1, MenuOwn DEF MenuInv
<1>3. ~Menu!At(d, "done")
  BY <1>1 DEF Menu!DumpMenu, Menu!DumpMenus, Menu!NextMenu, Menu!UniqueFile, Menu!Create,
     Menu!PrintMenu, Menu!At
<1>4. Menu!Ended \subseteq Menu!Ended'
  BY <1>2, <1>3 DEF Menu!Ended, Menu!At
<1>5. dumps'[d].before \subseteq Menu!Ended'
  <2>1. dumps'[d].before \in {dumps[d].before, Menu!Ended}
    BY <1>1, <1>2 DEF MenuFields, Menu!DumpMenu, Menu!DumpMenus, Menu!NextMenu, Menu!UniqueFile,
       Menu!Create, Menu!PrintMenu
  <2> QED
    BY <1>4, <2>1 DEF MenuInv
<1>6. \A e \in Dumps : dumps'[e].before \subseteq Menu!Ended'
  BY <1>2, <1>4, <1>5 DEF MenuInv
<1>7. ASSUME NEW e \in Dumps, Menu!At(e, "create")', Menu!Alone(e)', dumps'[e].path \in DOMAIN files'
      PROVE  dumps'[e].path = Menu!Wtf \/ Menu!Full'
  <2>1. CASE e = d
    <3>1. Menu!UniqueFile(d)
      BY <1>1, <1>2, <1>7, <2>1 DEF MenuFields, Menu!At, Menu!DumpMenu, Menu!DumpMenus,
         Menu!NextMenu, Menu!UniqueFile,
        Menu!Create, Menu!PrintMenu
    <3>2. /\ dumps'[d].path = IF Menu!Full \/ Menu!Candidate(d) \notin DOMAIN files THEN Menu!Candidate(d) ELSE Menu!Wtf
          /\ Menu!Full => streams' = streams
          /\ files' = files
      BY <1>2, <3>1 DEF MenuFields, Menu!UniqueFile, Menu!LastResort
    <3> QED
      BY <1>7, <2>1, <3>2 DEF Menu!Full
  <2>2. CASE e # d
    <3>1. Menu!At(e, "create") /\ dumps'[e] = dumps[e]
      BY <1>2, <1>7, <2>2 DEF Menu!At
    <3>2. Menu!At(d, "idle")' \/ d \in dumps[e].before
      BY <1>7, <2>2, <3>1 DEF Menu!Alone
    <3>3. d \notin dumps[e].before
      BY <1>3 DEF MenuInv, Menu!Ended
    <3>4. ~Menu!At(d, "idle")'
      BY <1>1, <1>2 DEF MenuFields, Menu!At, Menu!DumpMenu, Menu!DumpMenus, Menu!NextMenu,
         Menu!UniqueFile,
        Menu!Create, Menu!PrintMenu
    <3> QED
      BY <3>2, <3>3, <3>4
  <2> QED
    BY <2>1, <2>2
<1> QED
  BY <1>2, <1>6, <1>7 DEF MenuInv

(* Only its own step takes a dump from where it opens a file.              *)
LEMMA MenuRight ==
  ASSUME MenuInv, Menu!Next \/ UNCHANGED menuVars
  PROVE  Menu!OverwritesNothing
<1> SUFFICES ASSUME NEW d \in Dumps, Menu!At(d, "create"), files' # files, dumps'[d].at # "create",
                    dumps[d].path \in DOMAIN files, Menu!Alone(d), dumps[d].path # Menu!Wtf
             PROVE  FALSE
  BY DEF Menu!OverwritesNothing
<1>1. PICK e \in Dumps : Menu!DumpMenu(e) \/ Menu!DumpMenus(e)
  BY DEF Menu!Next, menuVars
<1>2. e = d
  BY <1>1, MenuOwn DEF MenuInv, Menu!At
<1>3. Menu!Create(d)
  BY <1>1, <1>2 DEF Menu!At, Menu!DumpMenu, Menu!DumpMenus, Menu!NextMenu, Menu!UniqueFile,
     Menu!Create, Menu!PrintMenu
<1>4. Menu!Full
  BY DEF MenuInv
<1> QED
  BY <1>3, <1>4 DEF Menu!Create

-----------------------------------------------------------------------------
(* The console *)

(* The keys the game holds for down are down, but for Enter; and as long   *)
(* as the line never filled its own memory, it is there, and so is what    *)
(* the rows lead to. What was typed last was searched for.                 *)
Row == {"inside", "heap", "freed"}

KeysInv == keysHeld \ pressed \subseteq Console!Enters

LineTypes ==
  /\ input \in Seq(Int) /\ rows \in Seq(Row) /\ where \in {"inside", "heap"}
  /\ filled \in BOOLEAN /\ typed \in BOOLEAN
  /\ \A name \in listed \union dvars \union suggested : name \in Seq(Int)

LineInside == ~filled => where = "inside" /\ Len(input) < Small /\ \A i \in 1..Len(rows) : rows[i] = "inside"

LineSearched == typed => suggested = Console!FindSuggestionDvars(input)

ConsoleInv == KeysInv /\ LineTypes /\ LineInside /\ LineSearched

(* No key is down, and the line is empty.                                  *)
LEMMA ConsoleStarts == Console!Init => ConsoleInv
<1> SUFFICES ASSUME Console!Init
             PROVE  ConsoleInv
  OBVIOUS
<1>1. KeysInv
  BY DEF Console!Init, KeysInv
<1>2. LineTypes
  <2>1. <<>> \in Seq(Int) /\ <<>> \in Seq(Row)
    OBVIOUS
  <2>2. /\ input = <<>> /\ rows = <<>> /\ where = "inside" /\ filled = FALSE /\ typed = FALSE
        /\ listed = {} /\ dvars = {} /\ suggested = {}
    BY DEF Console!Init
  <2>3. \A name \in listed \union dvars \union suggested : name \in Seq(Int)
    BY <2>2
  <2>4. filled \in BOOLEAN /\ typed \in BOOLEAN
    BY <2>2
  <2>5. input \in Seq(Int) /\ rows \in Seq(Row) /\ where \in {"inside", "heap"}
    BY <2>1, <2>2
  <2> QED
    BY <2>3, <2>4, <2>5 DEF LineTypes
<1>3. LineInside
  BY LettersAssumption DEF Console!Init, LineInside
<1>4. LineSearched
  BY DEF Console!Init, LineSearched
<1> QED
  BY <1>1, <1>2, <1>3, <1>4 DEF ConsoleInv

(* Pressing a key holds no other, and releasing one holds none.            *)
LEMMA KeysKept ==
  ASSUME KeysInv, Console!Next
  PROVE  KeysInv'
<1>1. CASE Console!DrawStuff \/ \E name \in DvarNames \union Commands : Console!Register(name)
  BY <1>1 DEF KeysInv, Console!Enters, Console!DrawStuff, Console!Register, Console!Others
<1>2. ASSUME NEW key \in Keys, Console!Press(key)
      PROVE  KeysInv'
  <2>1. keysHeld' \subseteq keysHeld \union {key}
    <3>1. Console!CL_KeyEventHook(key, TRUE)
      BY <1>2 DEF Console!Press
    <3>2. CASE Console!CL_KeyEvent(key, TRUE) \/ Console!LetItGo(key, TRUE)
      BY <3>2 DEF Console!CL_KeyEvent, Console!LetItGo
    <3>3. CASE Console!Caught(key, TRUE)
      <4>1. CASE key = Console!Backspace
        BY <3>3, <4>1 DEF Console!Caught, Console!PressBackspace, Console!CL_KeyEvent,
           Console!Backspace, Console!Tab, Console!Space, Console!Enters
      <4>2. CASE key = Console!Tab
        BY <3>3, <4>2 DEF Console!Caught, Console!PressTab, Console!Swallowed, Console!Backspace,
           Console!Tab, Console!Space, Console!Enters
      <4>3. CASE key = Console!Space
        BY <3>3, <4>3 DEF Console!Caught, Console!PressSpace, Console!Swallowed, Console!Backspace,
           Console!Tab, Console!Space, Console!Enters
      <4>4. CASE key \notin Console!Enters \union {Console!Backspace, Console!Tab, Console!Space}
        <5>1. Console!PressOther(key)
          BY <3>3, <4>4 DEF Console!Caught
        <5> QED
          BY <5>1 DEF Console!PressOther, Console!Swallowed, Console!LetItGo, Console!CL_KeyEvent
      <4>5. CASE key \in Console!Enters
        <5>1. Console!LetItGo(key, TRUE)
          <6>1. key # Console!Backspace /\ key # Console!Tab /\ key # Console!Space
            BY <4>5 DEF Console!Backspace, Console!Tab, Console!Space, Console!Enters
          <6> QED
            BY <3>3, <4>5, <6>1 DEF Console!Caught
        <5> QED
          BY <5>1 DEF Console!LetItGo, Console!CL_KeyEvent
      <4> QED
        BY <4>1, <4>2, <4>3, <4>4, <4>5
    <3> QED
      BY <3>1, <3>2, <3>3 DEF Console!CL_KeyEventHook
  <2> QED
    BY <1>2, <2>1 DEF KeysInv, Console!Press, Console!Enters
<1>3. ASSUME NEW key \in Keys, Console!Release(key)
      PROVE  KeysInv'
  <2>1. keysHeld' = keysHeld \ {key} \/ (key \in Console!Enters /\ keysHeld' = keysHeld)
    <3>1. Console!CL_KeyEventHook(key, FALSE)
      BY <1>3 DEF Console!Release
    <3>2. CASE Console!LetItGo(key, FALSE)
      BY <3>2 DEF Console!LetItGo, Console!CL_KeyEvent
    <3>3. CASE Console!Caught(key, FALSE)
      <4>1. CASE key \in Console!Enters
        BY <3>3, <4>1 DEF Console!Caught, Console!Enter
      <4>2. CASE key \notin Console!Enters
        BY <3>3, <4>2 DEF Console!Caught, Console!LetItGo, Console!CL_KeyEvent
      <4> QED
        BY <4>1, <4>2
    <3> QED
      BY <3>1, <3>2, <3>3 DEF Console!CL_KeyEventHook
  <2> QED
    BY <1>3, <2>1 DEF KeysInv, Console!Release, Console!Enters
<1> QED
  BY <1>1, <1>2, <1>3 DEF Console!Next

(* What a step may do to the line.                                         *)
Writing == \E letter \in Int : Console!Changed(Append(input, letter)) /\ Console!Holds(Len(input) + 1, rows)

(* A step does to the line what its key does, or leaves it.                *)
LEMMA ConsoleSteps ==
  ASSUME Console!Next
  PROVE  \/ UNCHANGED <<Console!text, dvars, listed>>
         \/ Console!DrawStuff
         \/ Console!Swallowed /\ Writing
         \/ Console!Enter \/ Console!PressBackspace \/ Console!PressTab \/ Console!PressSpace
<1> DEFINE Same == UNCHANGED <<Console!text, dvars, listed>>
<1>1. CASE \E name \in DvarNames \union Commands : Console!Register(name)
  BY <1>1 DEF Console!Register, Console!Others, Console!text, Console!memory
<1>2. ASSUME NEW key \in Keys, NEW down \in BOOLEAN, Console!LetItGo(key, down)
      PROVE  Same
  BY <1>2 DEF Console!LetItGo, Console!InitConsole, Console!lists, Console!text, Console!memory
<1>3. ASSUME NEW key \in Keys, Console!PressOther(key)
      PROVE  Same \/ (Console!Swallowed /\ Writing)
  <2>1. CASE Console!Types(key)
    <3>1. PICK caps \in BOOLEAN : Console!Changed(Append(input, Console!Letter(key, caps)))
      BY <1>3, <2>1 DEF Console!PressOther
    <3>2. key \in Int
      BY LettersAssumption
    <3>3. \A k \in DOMAIN Console!Above : Console!Above[k] \in Int
      BY DEF Console!Above
    <3>4. Console!ConverttoUppercase(key) \in Int
      BY <3>2, <3>3 DEF Console!ConverttoUppercase
    <3>5. Console!Letter(key, caps) \in Int
      BY <3>2, <3>4 DEF Console!Letter
    <3> QED
      BY <1>3, <2>1, <3>1, <3>5 DEF Console!PressOther, Writing
  <2>2. CASE ~Console!Types(key)
    BY <1>2, <1>3, <2>2 DEF Console!PressOther
  <2> QED
    BY <2>1, <2>2
<1>4. ASSUME NEW key \in Keys, NEW down \in BOOLEAN, Console!CL_KeyEventHook(key, down)
      PROVE  \/ Same \/ (Console!Swallowed /\ Writing)
             \/ Console!Enter \/ Console!PressBackspace \/ Console!PressTab \/ Console!PressSpace
  <2>1. CASE Console!InitConsole(Console!Shift \in keysHeld)
    BY <2>1 DEF Console!InitConsole, Console!lists, Console!text, Console!memory
  <2>2. CASE Console!Caught(key, down)
    BY <1>2, <1>3, <2>2 DEF Console!Caught
  <2> QED
    BY <1>2, <1>4, <2>1, <2>2 DEF Console!CL_KeyEventHook
<1> QED
  BY <1>1, <1>4 DEF Console!Next, Console!Press, Console!Release

(* Rows that dangle were on the heap.                                      *)
LEMMA RowsDangle ==
  ASSUME NEW log1 \in Seq(Row)
  PROVE  /\ Console!Dangling(log1) \in Seq(Row) /\ Len(Console!Dangling(log1)) = Len(log1)
         /\ \A i \in 1..Len(log1) : log1[i] = "inside" => Console!Dangling(log1)[i] = "inside"
BY DEF Console!Dangling, Row

(* As long as the letters fit inside, the string and the rows stay.        *)
LEMMA HoldsInside ==
  ASSUME NEW letters \in Nat, NEW log1 \in Seq(Row), where \in {"inside", "heap"}, Console!Holds(letters, log1)
  PROVE  /\ where' \in {"inside", "heap"} /\ rows' \in Seq(Row)
         /\ where = "inside" /\ letters <= Small => where' = "inside" /\ rows' = log1
BY LettersAssumption, RowsDangle DEF Console!Holds

(* The line, where it is, and what was searched for.                       *)
LEMMA LineKept ==
  ASSUME LineTypes, LineInside, LineSearched, Console!Next
  PROVE  LineTypes' /\ LineInside' /\ LineSearched'
<1>0. /\ input \in Seq(Int) /\ rows \in Seq(Row) /\ where \in {"inside", "heap"} /\ Len(input) \in Nat
      /\ filled \in BOOLEAN /\ typed \in BOOLEAN /\ Small \in Nat /\ Small > 0
      /\ \A name \in listed \union dvars \union suggested : name \in Seq(Int)
  BY LettersAssumption DEF LineTypes
<1>1. CASE UNCHANGED <<Console!text, dvars, listed>>
  <2>1. UNCHANGED <<input, suggested, typed, where, rows, filled, dvars, listed>>
    BY <1>1 DEF Console!text, Console!memory
  <2>2. LineTypes'
    BY <2>1 DEF LineTypes
  <2>3. LineInside'
    BY <2>1 DEF LineInside
  <2>4. LineSearched'
    BY <2>1 DEF LineSearched, Console!FindSuggestionDvars, Console!listed, Console!Matches
  <2> QED
    BY <2>2, <2>3, <2>4
<1>2. CASE Console!DrawStuff
  <2>1. /\ UNCHANGED <<input, suggested, where, filled>>
        /\ typed' = (typed /\ <<dvars, listed>>' = <<dvars, listed>>)
        /\ dvars' \in {dvars, names \cap DvarNames} /\ listed' \in {listed, names \cap Commands}
        /\ Console!DrawConsole
    BY <1>2 DEF Console!DrawStuff, Console!Others, Console!ListAllDvars, Console!ListAllCommands,
                Console!Dvar_ForEachName, Console!Cmd_ForEachName
  <2>2. rows' \in Seq(Row) /\ \A i \in 1..Len(rows') : \E j \in 1..Len(rows) : rows'[i] = rows[j]
    <3>1. ShownRows \in Nat /\ Len(rows) \in Nat
      BY <1>0, LettersAssumption
    <3>2. CASE rows' = rows
      BY <1>0, <3>2
    <3>3. CASE Len(rows) > ShownRows /\ rows' = SubSeq(rows, (Len(rows) - ShownRows) + 1, Len(rows))
      <4>1. PICK m : m = (Len(rows) - ShownRows) + 1
        OBVIOUS
      <4>2. m \in Nat /\ m > 0 /\ m <= Len(rows) + 1
        BY <3>1, <3>3, <4>1
      <4>3. rows' = SubSeq(rows, m, Len(rows))
        BY <3>3, <4>1
      <4>4. rows' \in Seq(Row) /\ Len(rows') = (Len(rows) - m) + 1 /\ \A i \in 1..Len(rows') : rows'[i] = rows[(m + i) - 1]
        BY <1>0, <3>1, <4>2, <4>3
      <4>5. \A i \in 1..Len(rows') : (m + i) - 1 \in 1..Len(rows)
        BY <3>1, <4>2, <4>4
      <4> QED
        BY <4>4, <4>5
    <3> QED
      BY <2>1, <3>2, <3>3 DEF Console!DrawConsole
  <2>3. \A s \in Seq(Nat) : s \in Seq(Int)
    OBVIOUS
  <2>4. \A name \in dvars' \union listed' \union suggested' : name \in Seq(Int)
    BY <1>0, <2>1, <2>3, LettersAssumption
  <2>5. LineTypes'
    BY <1>0, <2>1, <2>2, <2>4 DEF LineTypes
  <2>6. LineInside'
    BY <2>1, <2>2 DEF LineInside
  <2>7. LineSearched'
    BY <2>1 DEF LineSearched, Console!FindSuggestionDvars, Console!listed, Console!Matches
  <2> QED
    BY <2>5, <2>6, <2>7
<1>3. CASE Console!Swallowed /\ Writing
  <2>1. PICK letter \in Int : Console!Changed(Append(input, letter)) /\ Console!Holds(Len(input) + 1, rows)
    BY <1>3 DEF Writing
  <2>2. PICK line : line = Append(input, letter)
    OBVIOUS
  <2>3. line \in Seq(Int) /\ Len(line) = Len(input) + 1
    BY <1>0, <2>2
  <2>4. /\ filled' = (filled \/ Len(line) >= Small) /\ input' = line /\ typed' = TRUE
        /\ suggested' = Console!FindSuggestionDvars(line) /\ UNCHANGED <<dvars, listed>>
    BY <1>3, <2>1, <2>2 DEF Console!Changed, Console!Fills, Console!Swallowed, Console!lists
  <2>5. /\ where' \in {"inside", "heap"} /\ rows' \in Seq(Row)
        /\ where = "inside" /\ Len(input) + 1 <= Small => where' = "inside" /\ rows' = rows
    BY <1>0, <2>1, HoldsInside
  <2>6. \A name \in suggested' : name \in Seq(Int)
    BY <1>0, <2>4 DEF Console!FindSuggestionDvars, Console!listed
  <2>7. LineTypes'
    BY <1>0, <2>3, <2>4, <2>5, <2>6 DEF LineTypes
  <2>8. LineInside'
    <3>1. ~filled' => ~filled /\ ~(Len(line) >= Small)
      BY <2>4
    <3> QED
      BY <1>0, <2>3, <2>4, <2>5, <3>1 DEF LineInside
  <2>9. LineSearched'
    BY <2>4 DEF LineSearched, Console!FindSuggestionDvars, Console!listed, Console!Matches
  <2> QED
    BY <2>7, <2>8, <2>9
<1>4. CASE Console!Enter
  <2>1. UNCHANGED <<dvars, listed, suggested, filled>>
    BY <1>4 DEF Console!Enter, Console!lists
  <2>2. CASE UNCHANGED <<input, typed, where, rows>>
    <3>1. LineTypes'
      BY <2>1, <2>2 DEF LineTypes
    <3>2. LineInside'
      BY <2>1, <2>2 DEF LineInside
    <3>3. LineSearched'
      BY <2>1, <2>2 DEF LineSearched, Console!FindSuggestionDvars, Console!listed, Console!Matches
    <3> QED
      BY <3>1, <3>2, <3>3
  <2>3. CASE Console!Holds(Len(input) + 1, Append(rows, where)) /\ input' = <<>> /\ typed' = FALSE
    <3>1. PICK log1 : log1 = Append(rows, where)
      OBVIOUS
    <3>2. log1 \in Seq(Row) /\ Len(log1) = Len(rows) + 1 /\ log1[Len(rows) + 1] = where
          /\ \A i \in 1..Len(rows) : log1[i] = rows[i]
      <4>1. where \in Row
        BY <1>0 DEF Row
      <4> QED
        BY <1>0, <3>1, <4>1, AppendProperties
    <3>3. /\ where' \in {"inside", "heap"} /\ rows' \in Seq(Row)
          /\ where = "inside" /\ Len(input) + 1 <= Small => where' = "inside" /\ rows' = log1
      <4>1. Console!Holds(Len(input) + 1, log1)
        BY <2>3, <3>1
      <4>2. Len(input) + 1 \in Nat
        BY <1>0
      <4> QED
        BY <1>0, <3>2, <4>1, <4>2, HoldsInside
    <3>4. LineTypes'
      <4>1. input' \in Seq(Int)
        BY <2>3
      <4>2. typed' \in BOOLEAN /\ filled' \in BOOLEAN
        BY <1>0, <2>1, <2>3
      <4>3. \A name \in listed' \union dvars' \union suggested' : name \in Seq(Int)
        BY <1>0, <2>1
      <4> QED
        BY <3>3, <4>1, <4>2, <4>3 DEF LineTypes
    <3>5. LineInside'
      <4> SUFFICES ASSUME ~filled
                   PROVE  where' = "inside" /\ Len(input') < Small /\ \A i \in 1..Len(rows') : rows'[i] = "inside"
        BY <2>1 DEF LineInside
      <4>1. where = "inside" /\ Len(input) + 1 <= Small /\ \A i \in 1..Len(rows) : rows[i] = "inside"
        BY <1>0 DEF LineInside
      <4>2. \A i \in 1..Len(log1) : i \in 1..Len(rows) \/ i = Len(rows) + 1
        BY <1>0, <3>2
      <4>3. \A i \in 1..Len(log1) : log1[i] = "inside"
        BY <3>2, <4>1, <4>2
      <4> QED
        BY <1>0, <2>3, <3>3, <4>1, <4>3
    <3>6. LineSearched'
      BY <2>3 DEF LineSearched
    <3> QED
      BY <3>4, <3>5, <3>6
  <2> QED
    BY <1>4, <2>2, <2>3 DEF Console!Enter
<1>5. CASE Console!PressBackspace
  <2>1. UNCHANGED <<dvars, listed>>
    BY <1>5 DEF Console!PressBackspace, Console!lists
  <2>2. CASE UNCHANGED Console!text
    BY <1>1, <2>1, <2>2
  <2>3. CASE input # <<>> /\ Console!Changed(Console!Front(input)) /\ Console!TakesOver(Len(input) - 1)
    <3>1. PICK line : line = Console!Front(input)
      OBVIOUS
    <3>2. line \in Seq(Int) /\ Len(line) = Len(input) - 1
      <4>1. PICK m : m = Len(input) - 1
        OBVIOUS
      <4>2. m \in Nat /\ m <= Len(input)
        BY <1>0, <2>3, <4>1
      <4>3. line = SubSeq(input, 1, m)
        BY <3>1, <4>1 DEF Console!Front
      <4> QED
        BY <1>0, <4>1, <4>2, <4>3
    <3>3. /\ filled' = (filled \/ Len(line) >= Small) /\ input' = line /\ typed' = TRUE
          /\ suggested' = Console!FindSuggestionDvars(line)
      BY <2>3, <3>1 DEF Console!Changed, Console!Fills
    <3>4. where' = (IF Len(line) > Small THEN "heap" ELSE "inside") /\ rows' = Console!Dangling(rows)
      BY <2>3, <3>2 DEF Console!TakesOver
    <3>5. /\ rows' \in Seq(Row) /\ Len(rows') = Len(rows)
          /\ \A i \in 1..Len(rows) : rows[i] = "inside" => rows'[i] = "inside"
      BY <1>0, <3>4, RowsDangle
    <3>6. \A name \in suggested' : name \in Seq(Int)
      BY <1>0, <3>3 DEF Console!FindSuggestionDvars, Console!listed
    <3>7. LineTypes'
      BY <1>0, <2>1, <3>2, <3>3, <3>4, <3>5, <3>6 DEF LineTypes
    <3>8. LineInside'
      BY <1>0, <3>2, <3>3, <3>4, <3>5 DEF LineInside
    <3>9. LineSearched'
      BY <2>1, <3>3 DEF LineSearched, Console!FindSuggestionDvars, Console!listed, Console!Matches
    <3> QED
      BY <3>7, <3>8, <3>9
  <2> QED
    BY <1>5, <2>2, <2>3 DEF Console!PressBackspace
<1>6. CASE Console!PressTab \/ Console!PressSpace
  <2>1. UNCHANGED <<dvars, listed>>
    BY <1>6 DEF Console!PressTab, Console!PressSpace, Console!Swallowed, Console!lists
  <2>2. CASE UNCHANGED Console!text
    BY <1>1, <2>1, <2>2
  <2>3. CASE /\ input' \in Seq(Int) /\ typed' = FALSE /\ suggested' = suggested
             /\ Console!Fills(input') /\ Console!Holds(Len(input'), rows)
    <3>1. Len(input') \in Nat /\ filled' = (filled \/ Len(input') >= Small)
      BY <2>3 DEF Console!Fills
    <3>2. /\ where' \in {"inside", "heap"} /\ rows' \in Seq(Row)
          /\ where = "inside" /\ Len(input') <= Small => where' = "inside" /\ rows' = rows
      BY <1>0, <2>3, <3>1, HoldsInside
    <3>3. LineTypes'
      BY <1>0, <2>1, <2>3, <3>1, <3>2 DEF LineTypes
    <3>4. LineInside'
      <4>1. ~filled' => ~filled /\ ~(Len(input') >= Small)
        BY <3>1
      <4> QED
        BY <1>0, <3>1, <3>2, <4>1 DEF LineInside
    <3>5. LineSearched'
      BY <2>3 DEF LineSearched
    <3> QED
      BY <3>3, <3>4, <3>5
  <2>4. CASE Console!PressTab
    <3>1. CASE dvars # {}
      <4>1. /\ input' \in IF suggested # {} THEN suggested ELSE Console!listed \union {<<>>}
            /\ typed' = FALSE /\ suggested' = suggested
            /\ Console!Fills(input') /\ Console!Holds(Len(input'), rows)
        BY <2>4, <3>1 DEF Console!PressTab
      <4>2. input' \in Seq(Int)
        <5>1. CASE suggested # {}
          BY <1>0, <4>1, <5>1
        <5>2. CASE suggested = {}
          <6>1. input' \in Console!listed \/ input' = <<>>
            BY <4>1, <5>2
          <6> QED
            <7>1. CASE input' \in Console!listed
              BY <1>0, <7>1 DEF Console!listed
            <7>2. CASE input' = <<>>
              BY <7>2
            <7> QED
              BY <6>1, <7>1, <7>2
        <5> QED
          BY <5>1, <5>2
      <4> QED
        BY <2>3, <4>1, <4>2
    <3> QED
      BY <2>2, <2>4, <3>1 DEF Console!PressTab
  <2>5. CASE Console!PressSpace
    <3>1. input' = Append(input, 32)
      BY <2>5 DEF Console!PressSpace, Console!Space
    <3>2. input' \in Seq(Int)
      BY <1>0, <3>1
    <3> QED
      BY <2>3, <2>5, <3>2 DEF Console!PressSpace
  <2> QED
    BY <1>6, <2>4, <2>5
<1> QED
  BY <1>1, <1>2, <1>3, <1>4, <1>5, <1>6, ConsoleSteps

(* Both together.                                                          *)
LEMMA ConsoleKept ==
  ASSUME ConsoleInv, Console!Next
  PROVE  ConsoleInv'
BY KeysKept, LineKept DEF ConsoleInv

(* From the invariant to the properties.                                   *)
LEMMA ConsoleRight == ConsoleInv => Console!HeldOnlyEnter /\ Console!RowsLead
<1> SUFFICES ASSUME ConsoleInv
             PROVE  Console!HeldOnlyEnter /\ Console!RowsLead
  OBVIOUS
<1>1. Console!HeldOnlyEnter
  BY DEF ConsoleInv, KeysInv, Console!HeldOnlyEnter
<1>2. DOMAIN rows = 1..Len(rows)
  BY DEF ConsoleInv, LineTypes
<1> QED
  BY <1>1, <1>2 DEF ConsoleInv, LineInside, Console!RowsLead

(* Tab reads the first suggestion for what was typed.                      *)
LEMMA ConsoleCompletes ==
  ASSUME ConsoleInv, Console!Next \/ UNCHANGED consoleVars
  PROVE  Console!Completed
<1> SUFFICES ASSUME catching, typed, ~typed', catching', input' # Append(input, Console!Space), Console!lists' = Console!lists
             PROVE  \/ input' \in Console!listed /\ Console!Matches(input', input)
                    \/ \A name \in Console!listed : ~Console!Matches(name, input)
  BY DEF Console!Completed
<1>1. suggested = {name \in Console!listed : Console!Matches(name, input)}
  BY DEF ConsoleInv, LineSearched, Console!FindSuggestionDvars
<1>2. UNCHANGED <<dvars, listed>>
  BY DEF Console!lists
<1>3. ~UNCHANGED typed
  OBVIOUS
<1>4. ~Console!DrawStuff
  BY <1>2, <1>3 DEF Console!DrawStuff
<1>5. ~Writing
  BY DEF Writing, Console!Changed
<1>6. ~Console!Enter
  BY <1>3 DEF Console!Enter, Console!Close
<1>7. ~Console!PressBackspace
  BY <1>3 DEF Console!PressBackspace, Console!Changed, Console!text
<1>8. ~Console!PressSpace
  BY DEF Console!PressSpace
<1>9. ~UNCHANGED Console!text
  BY <1>3 DEF Console!text
<1>10. Console!PressTab
  <2>1. ~UNCHANGED consoleVars
    BY <1>3 DEF consoleVars
  <2> QED
    BY <1>4, <1>5, <1>6, <1>7, <1>8, <1>9, <2>1, ConsoleSteps
<1>11. input' \in IF suggested # {} THEN suggested ELSE Console!listed \union {<<>>}
  BY <1>9, <1>10 DEF Console!PressTab
<1> QED
  BY <1>1, <1>11

-----------------------------------------------------------------------------
(* Imports *)

(* A slot holds its own function or a stand-in for it; the import of a     *)
(* socket function found first in its library is LoopDW's after the        *)
(* redirection of that function, and only then may the look-up of names be *)
(* the second one.                                                         *)
Twice == 2 * Len(Sockets)
Libraries == {"wsock32", "WS2_32"}
StandIns == {"dw", "custom", "safe"}
First(library, i) == IF library = "wsock32" THEN 2 * i - 1 ELSE 2 * i
Again(library) == IF library = "wsock32" THEN Twice + 1 ELSE Twice + 2

ImportShape ==
  /\ table \in Tables /\ step \in Nat /\ step <= Twice + 3
  /\ DOMAIN slots = DOMAIN table
  /\ \A d \in DOMAIN table : DOMAIN slots[d] = DOMAIN table[d].imports
  /\ \A p \in Import!Places : \E by \in StandIns \union {"real"} : Import!Slot(p) = <<by, Import!Import(p).func>>

Mine(p, i) ==
  LET library == table[p[1]].library
      func == Import!Import(p).func
  IN  IF step >= First(library, i)
      THEN Import!Slot(p) = IF Import!Import(p).named /\ func = "gethostbyname" /\ step >= Again(library)
                            THEN <<"custom", func>> ELSE <<"dw", func>>
      ELSE Import!Slot(p) \in {<<"real", func>>, <<"dw", func>>}

Socket(p, i) ==
  Import!Found(p) /\ table[p[1]].library \in Libraries /\ Import!Import(p).func = Sockets[i]

ImportInv ==
  ImportShape /\ \A p \in Import!Places, i \in 1..Len(Sockets) : Socket(p, i) => Mine(p, i)

(* What the redirections are, in the order they are made.                  *)
LEMMA Redirections ==
  /\ Len(Sockets) \in Nat /\ Twice \in Nat /\ Len(Import!DllMain) = Twice + 3
  /\ \A i \in 1..Twice :
       /\ Import!DllMain[i].library = IF i % 2 = 1 THEN "wsock32" ELSE "WS2_32"
       /\ Import!DllMain[i].func = Sockets[(i + 1) \div 2] /\ Import!DllMain[i].by = "dw"
  /\ \A i \in {1, 2} :
       /\ Import!DllMain[Twice + i].library = IF i = 1 THEN "wsock32" ELSE "WS2_32"
       /\ Import!DllMain[Twice + i].func = "gethostbyname" /\ Import!DllMain[Twice + i].by = "custom"
  /\ Import!DllMain[Twice + 3].library = "winmm" /\ Import!DllMain[Twice + 3].by = "safe"
<1>1. Len(Sockets) \in Nat /\ Twice \in Nat
  BY TablesAssumption DEF Twice
<1> DEFINE Funcs == {Sockets[i] : i \in 1..Len(Sockets)} \union {"gethostbyname", "timeGetTime"}
<1>2. PICK R : R = [library : Libraries \union {"winmm"}, func : Funcs, by : StandIns]
  OBVIOUS
<1>21. "gethostbyname" \in Funcs /\ "timeGetTime" \in Funcs /\ \A i \in 1..Len(Sockets) : Sockets[i] \in Funcs
  OBVIOUS
<1> HIDE DEF Funcs
<1>22. ASSUME NEW library \in Libraries \union {"winmm"}, NEW func \in Funcs, NEW by \in StandIns
       PROVE  [library |-> library, func |-> func, by |-> by] \in R
  BY <1>2
<1>3. ASSUME NEW func \in Funcs, NEW by \in StandIns
      PROVE  /\ Import!PatchWinsock(func, by) \in Seq(R) /\ Len(Import!PatchWinsock(func, by)) = 2
             /\ Import!PatchWinsock(func, by)[1] = [library |-> "wsock32", func |-> func, by |-> by]
             /\ Import!PatchWinsock(func, by)[2] = [library |-> "WS2_32", func |-> func, by |-> by]
  <2>1. PICK a \in R : a = [library |-> "wsock32", func |-> func, by |-> by]
    BY <1>22 DEF Libraries
  <2>2. PICK b \in R : b = [library |-> "WS2_32", func |-> func, by |-> by]
    BY <1>22 DEF Libraries
  <2>3. Import!PatchWinsock(func, by) = <<a, b>>
    BY <2>1, <2>2 DEF Import!PatchWinsock
  <2> QED
    BY <2>1, <2>2, <2>3
<1>4. ASSUME NEW i \in 1..Twice
      PROVE  /\ (i + 1) \div 2 \in 1..Len(Sockets) /\ i % 2 \in {0, 1}
             /\ Import!dw_init[i] \in R
             /\ Import!dw_init[i].library = IF i % 2 = 1 THEN "wsock32" ELSE "WS2_32"
             /\ Import!dw_init[i].func = Sockets[(i + 1) \div 2] /\ Import!dw_init[i].by = "dw"
  <2>1. (i + 1) \div 2 \in 1..Len(Sockets) /\ i % 2 \in {0, 1}
    BY <1>1 DEF Twice
  <2>2. PICK f \in Funcs : f = Sockets[(i + 1) \div 2]
    BY <1>21, <2>1
  <2>3. Import!dw_init[i] = Import!PatchWinsock(f, "dw")[2 - (i % 2)]
    BY <2>2 DEF Import!dw_init, Twice
  <2>4. "dw" \in StandIns
    BY DEF StandIns
  <2>5. CASE i % 2 = 1
    <3>1. Import!dw_init[i] = [library |-> "wsock32", func |-> f, by |-> "dw"]
      <4>1. 2 - (i % 2) = 1
        BY <2>1, <2>5
      <4>2. Import!dw_init[i] = Import!PatchWinsock(f, "dw")[1]
        BY <2>3, <4>1
      <4> QED
        BY <1>3, <2>4, <4>2
    <3>2. Import!dw_init[i] \in R
      BY <1>22, <2>4, <3>1 DEF Libraries
    <3> QED
      BY <2>1, <2>2, <2>5, <3>1, <3>2
  <2>6. CASE i % 2 = 0
    <3>1. Import!dw_init[i] = [library |-> "WS2_32", func |-> f, by |-> "dw"]
      <4>1. 2 - (i % 2) = 2
        BY <2>1, <2>6
      <4>2. Import!dw_init[i] = Import!PatchWinsock(f, "dw")[2]
        BY <2>3, <4>1
      <4> QED
        BY <1>3, <2>4, <4>2
    <3>2. Import!dw_init[i] \in R
      BY <1>22, <2>4, <3>1 DEF Libraries
    <3> QED
      BY <2>1, <2>2, <2>6, <3>1, <3>2
  <2> QED
    BY <2>1, <2>5, <2>6
<1>5. Import!dw_init \in Seq(R) /\ Len(Import!dw_init) = Twice
  <2>1. PICK s : s = Import!dw_init
    OBVIOUS
  <2>2. s = [i \in 1..Twice |-> s[i]]
    BY <2>1 DEF Import!dw_init, Twice
  <2>3. \A i \in 1..Twice : s[i] \in R
    BY <1>4, <2>1
  <2> QED
    BY <1>1, <2>1, <2>2, <2>3
<1>6. /\ Import!Main_DoInit \in Seq(R) /\ Len(Import!Main_DoInit) = 3
      /\ Import!Main_DoInit[1] = [library |-> "wsock32", func |-> "gethostbyname", by |-> "custom"]
      /\ Import!Main_DoInit[2] = [library |-> "WS2_32", func |-> "gethostbyname", by |-> "custom"]
      /\ Import!Main_DoInit[3] = [library |-> "winmm", func |-> "timeGetTime", by |-> "safe"]
  <2>1. PICK s : s = Import!PatchWinsock("gethostbyname", "custom")
    OBVIOUS
  <2>2. /\ s \in Seq(R) /\ Len(s) = 2
        /\ s[1] = [library |-> "wsock32", func |-> "gethostbyname", by |-> "custom"]
        /\ s[2] = [library |-> "WS2_32", func |-> "gethostbyname", by |-> "custom"]
    BY <1>3, <1>21, <2>1 DEF StandIns
  <2>3. PICK a \in R : a = [library |-> "winmm", func |-> "timeGetTime", by |-> "safe"]
    BY <1>21, <1>22 DEF StandIns
  <2>4. Import!Main_DoInit = s \o <<a>>
    BY <2>1, <2>3 DEF Import!Main_DoInit
  <2>5. PICK m : m = Import!Main_DoInit
    OBVIOUS
  <2>6. m = Append(s, a)
    BY <2>2, <2>4, <2>5
  <2>7. m \in Seq(R) /\ Len(m) = 3 /\ m[1] = s[1] /\ m[2] = s[2] /\ m[3] = a
    <3>1. m \in Seq(R) /\ Len(m) = Len(s) + 1 /\ m[Len(s) + 1] = a /\ \A i \in 1..Len(s) : m[i] = s[i]
      <4>1. s \in Seq(R)
        BY <2>2
      <4> QED
        BY <2>6, <4>1, AppendProperties
    <3>2. 1 \in 1..Len(s) /\ 2 \in 1..Len(s) /\ Len(s) + 1 = 3
      BY <2>2
    <3> QED
      BY <3>1, <3>2
  <2> QED
    BY <2>2, <2>3, <2>5, <2>7
<1>7. PICK s \in Seq(R) : s = Import!dw_init
  BY <1>5
<1>8. PICK u \in Seq(R) : u = Import!Main_DoInit
  BY <1>6
<1>9. /\ Import!DllMain = s \o u /\ Len(s) = Twice /\ Len(u) = 3
  BY <1>5, <1>6, <1>7, <1>8 DEF Import!DllMain
<1>10. /\ Len(Import!DllMain) = Twice + 3
       /\ \A i \in 1..Twice : Import!DllMain[i] = s[i]
       /\ \A i \in 1..3 : Import!DllMain[Twice + i] = u[i]
  <2>1. PICK m : m = s \o u
    OBVIOUS
  <2>2. Len(m) = Len(s) + Len(u) /\ \A i \in 1..Len(s) + Len(u) : m[i] = IF i <= Len(s) THEN s[i] ELSE u[i - Len(s)]
    BY <2>1, ConcatProperties
  <2>3. \A i \in 1..3 : m[Twice + i] = u[i]
    <3> SUFFICES ASSUME NEW i \in 1..3
                 PROVE  m[Twice + i] = u[i]
      OBVIOUS
    <3>1. Twice + i \in 1..Len(s) + Len(u) /\ ~(Twice + i <= Len(s)) /\ (Twice + i) - Len(s) = i
      BY <1>1, <1>9
    <3> QED
      BY <2>2, <3>1
  <2>4. \A i \in 1..Twice : m[i] = s[i]
    BY <1>1, <1>9, <2>2
  <2>5. Import!DllMain = m /\ Len(m) = Twice + 3
    BY <1>9, <2>1, <2>2
  <2> QED
    BY <2>3, <2>4, <2>5
<1>11. \A i \in 1..Twice :
         /\ Import!DllMain[i].library = IF i % 2 = 1 THEN "wsock32" ELSE "WS2_32"
         /\ Import!DllMain[i].func = Sockets[(i + 1) \div 2] /\ Import!DllMain[i].by = "dw"
  BY <1>4, <1>7, <1>10
<1>12. /\ Import!DllMain[Twice + 1] = [library |-> "wsock32", func |-> "gethostbyname", by |-> "custom"]
       /\ Import!DllMain[Twice + 2] = [library |-> "WS2_32", func |-> "gethostbyname", by |-> "custom"]
       /\ Import!DllMain[Twice + 3] = [library |-> "winmm", func |-> "timeGetTime", by |-> "safe"]
  BY <1>6, <1>8, <1>10
<1>13. \A i \in {1, 2} :
         /\ Import!DllMain[Twice + i].library = IF i = 1 THEN "wsock32" ELSE "WS2_32"
         /\ Import!DllMain[Twice + i].func = "gethostbyname" /\ Import!DllMain[Twice + i].by = "custom"
  BY <1>12
<1>14. Import!DllMain[Twice + 3].library = "winmm" /\ Import!DllMain[Twice + 3].by = "safe"
  BY <1>12
<1> QED
  BY <1>1, <1>10, <1>11, <1>13, <1>14

(* A place is an import of a descriptor.                                   *)
LEMMA PlaceOf ==
  ASSUME NEW p
  PROVE  p \in Import!Places <=>
           p = <<p[1], p[2]>> /\ p[1] \in DOMAIN table /\ p[2] \in DOMAIN table[p[1]].imports
BY DEF Import!Places

(* Every slot holds its own function.                                      *)
LEMMA ImportStarts == Import!Init => ImportInv
<1> SUFFICES ASSUME Import!Init
             PROVE  ImportInv
  OBVIOUS
<1>1. table \in Tables /\ step = 0 /\ DOMAIN table = 1..Len(table)
  BY TablesAssumption DEF Import!Init
<1>2. \A d \in DOMAIN table : DOMAIN table[d].imports = 1..Len(table[d].imports)
  BY <1>1, TablesAssumption
<1>3. slots = [d \in 1..Len(table) |-> [c \in 1..Len(table[d].imports) |-> <<"real", table[d].imports[c].func>>]]
  BY DEF Import!Init, Import!Real
<1>4. DOMAIN slots = DOMAIN table /\ \A d \in DOMAIN table : DOMAIN slots[d] = DOMAIN table[d].imports
  BY <1>1, <1>2, <1>3
<1>5. ASSUME NEW p \in Import!Places
      PROVE  Import!Slot(p) = <<"real", Import!Import(p).func>>
  BY <1>1, <1>2, <1>3, PlaceOf DEF Import!Slot, Import!Import
<1>6. ImportShape
  <2>1. Twice \in Nat
    BY Redirections
  <2> QED
    BY <1>1, <1>4, <1>5, <2>1 DEF ImportShape
<1>7. ASSUME NEW p \in Import!Places, NEW i \in 1..Len(Sockets)
      PROVE  Mine(p, i)
  <2>1. ~(step >= First(table[p[1]].library, i))
    BY <1>1, Redirections DEF First
  <2> QED
    BY <1>5, <2>1 DEF Mine
<1> QED
  BY <1>6, <1>7 DEF ImportInv

(* What is redirected has the name of the function it is redirected from;  *)
(* of what is found first in its library nothing comes before it.          *)
Fits(p, r) == IF r.library = "winmm" THEN Import!Writes(p, r) ELSE Import!Redirects(p, r)

(* What fits a redirection is of its library and has its name.             *)
LEMMA FitsFunc ==
  ASSUME ImportShape, NEW p \in Import!Places, NEW r, Fits(p, r)
  PROVE  table[p[1]].library = r.library /\ Import!Import(p).func = r.func
<1>1. PICK by \in StandIns \union {"real"} : Import!Slot(p) = <<by, Import!Import(p).func>>
  BY DEF ImportShape
<1> QED
  BY <1>1 DEF Fits, Import!Writes, Import!Redirects, Import!Real

(* A redirection overwrites the place that is found first, and no other.   *)
LEMMA SlotAfter ==
  ASSUME ImportShape, NEW r, Import!Redirect(r), UNCHANGED table
  PROVE  /\ DOMAIN slots' = DOMAIN table /\ \A d \in DOMAIN table : DOMAIN slots'[d] = DOMAIN table[d].imports
         /\ \A p \in Import!Places : Import!Slot(p)' \in {Import!Slot(p), <<r.by, r.func>>}
         /\ \A p \in Import!Places : ~Fits(p, r) => Import!Slot(p)' = Import!Slot(p)
         /\ \A p \in Import!Places : Fits(p, r) /\ Import!Found(p) => Import!Slot(p)' = <<r.by, r.func>>
<1> DEFINE Hit(p) == Fits(p, r) /\ \A q \in Import!Places : Fits(q, r) => ~Import!Before(q, p)
<1>1. slots' = [d \in DOMAIN slots |-> [c \in DOMAIN slots[d] |->
                  IF <<d, c>> \in {p \in Import!Places : Fits(p, r)}
                     /\ \A q \in {p \in Import!Places : Fits(p, r)} : ~Import!Before(q, <<d, c>>)
                  THEN <<r.by, r.func>> ELSE slots[d][c]]]
  BY DEF Import!Redirect, Fits
<1>2. DOMAIN slots' = DOMAIN table /\ \A d \in DOMAIN table : DOMAIN slots'[d] = DOMAIN table[d].imports
  BY <1>1 DEF ImportShape
<1>3. ASSUME NEW p \in Import!Places
      PROVE  Import!Slot(p)' = IF Hit(p) THEN <<r.by, r.func>> ELSE Import!Slot(p)
  <2>1. PICK d, c : d \in DOMAIN slots /\ c \in DOMAIN slots[d] /\ p = <<d, c>> /\ p[1] = d /\ p[2] = c
    BY PlaceOf DEF ImportShape
  <2>2. slots'[d][c] = IF Hit(p) THEN <<r.by, r.func>> ELSE slots[d][c]
    BY <1>1, <2>1
  <2> QED
    BY <2>1, <2>2 DEF Import!Slot
<1>4. ASSUME NEW p \in Import!Places, Fits(p, r), Import!Found(p)
      PROVE  Hit(p)
  BY <1>4, FitsFunc DEF Import!Found
<1> HIDE DEF Hit
<1>5. \A p \in Import!Places : Hit(p) => Fits(p, r)
  BY DEF Hit
<1> QED
  BY <1>2, <1>3, <1>4, <1>5

(* Each redirection, by where it stands among them.                        *)
LEMMA ImportKept ==
  ASSUME ImportInv, Import!Next
  PROVE  ImportInv'
<1>0. CASE Import!Play
  <2>1. UNCHANGED <<table, slots, step>>
    BY <1>0 DEF Import!Play, Import!vars
  <2>2. Import!Places' = Import!Places /\ \A p : Import!Import(p)' = Import!Import(p) /\ Import!Slot(p)' = Import!Slot(p)
    BY <2>1 DEF Import!Places, Import!Import, Import!Slot
  <2>3. ImportShape'
    BY <2>1, <2>2 DEF ImportInv, ImportShape
  <2>4. \A p, i : (Mine(p, i)' <=> Mine(p, i)) /\ (Socket(p, i)' <=> Socket(p, i))
    BY <2>1, <2>2 DEF Mine, Socket, Import!Found, Import!Searched
  <2> QED
    BY <2>2, <2>3, <2>4 DEF ImportInv
<1>1. CASE Import!Start
  <2>1. PICK r : r = Import!DllMain[step + 1]
    OBVIOUS
  <2>2. /\ step \in Nat /\ step < Twice + 3 /\ step' = step + 1 /\ Import!Redirect(r) /\ table' = table
        /\ Twice \in Nat /\ Len(Sockets) \in Nat /\ ImportShape
    BY <1>1, <2>1, Redirections DEF Import!Start, ImportInv, ImportShape
  <2>3. Import!Places' = Import!Places /\ \A p : Import!Import(p)' = Import!Import(p)
    BY <2>2 DEF Import!Places, Import!Import
  <2>4. ImportShape'
    <3>1. ASSUME NEW p \in Import!Places
          PROVE  \E by \in StandIns \union {"real"} : Import!Slot(p)' = <<by, Import!Import(p).func>>
      <4>1. CASE ~Fits(p, r)
        BY <2>2, <4>1, SlotAfter DEF ImportShape
      <4>2. CASE Fits(p, r)
        <5>1. Import!Import(p).func = r.func
          BY <2>2, <4>2, FitsFunc
        <5>2. r.by \in StandIns
          <6>1. CASE step + 1 <= Twice
            BY <2>1, <2>2, <6>1, Redirections DEF StandIns
          <6>2. CASE step + 1 \in {Twice + 1, Twice + 2}
            BY <2>1, <2>2, <6>2, Redirections DEF StandIns
          <6>3. CASE step + 1 = Twice + 3
            BY <2>1, <2>2, <6>3, Redirections DEF StandIns
          <6> QED
            BY <2>2, <6>1, <6>2, <6>3
        <5>3. Import!Slot(p)' \in {Import!Slot(p), <<r.by, r.func>>}
          BY <2>2, SlotAfter
        <5> QED
          BY <2>2, <5>1, <5>2, <5>3 DEF ImportShape
      <4> QED
        BY <4>1, <4>2
    <3>2. DOMAIN slots' = DOMAIN table /\ \A d \in DOMAIN table : DOMAIN slots'[d] = DOMAIN table[d].imports
      BY <2>2, SlotAfter
    <3> QED
      BY <2>2, <2>3, <3>1, <3>2 DEF ImportShape
  <2>5. ASSUME NEW p \in Import!Places, NEW i \in 1..Len(Sockets), Socket(p, i)
        PROVE  Mine(p, i)'
    <3>1. PICK library \in Libraries : library = table[p[1]].library
      BY <2>5 DEF Socket
    <3>2. PICK func : func = Import!Import(p).func
      OBVIOUS
    <3>3. PICK first \in Nat : first = First(library, i) /\ first > 0 /\ first <= Twice
      BY <2>2 DEF First, Twice
    <3>4. PICK again \in {Twice + 1, Twice + 2} : again = Again(library)
      BY DEF Again
    <3>5. PICK named : named = Import!Import(p).named
      OBVIOUS
    <3>6. /\ step >= first /\ named /\ func = "gethostbyname" /\ step >= again => Import!Slot(p) = <<"custom", func>>
          /\ step >= first /\ ~(named /\ func = "gethostbyname" /\ step >= again) => Import!Slot(p) = <<"dw", func>>
          /\ ~(step >= first) => Import!Slot(p) \in {<<"real", func>>, <<"dw", func>>}
      BY <2>5, <3>1, <3>2, <3>3, <3>4, <3>5 DEF ImportInv, Mine
    <3>7. Import!Found(p) /\ Import!Searched(p) /\ func = Sockets[i]
      BY <2>5, <3>2 DEF Socket, Import!Found
    <3>8. Fits(p, r) => library = r.library /\ func = r.func
      BY <2>2, <3>1, <3>2, FitsFunc
    <3>9. r.library # "winmm" /\ library = r.library =>
            (Fits(p, r) <=> IF named THEN func = r.func ELSE Import!Slot(p) = <<"real", r.func>>)
      BY <3>1, <3>2, <3>5, <3>7 DEF Fits, Import!Redirects, Import!Real
    <3>10. /\ ~Fits(p, r) => Import!Slot(p)' = Import!Slot(p)
           /\ Fits(p, r) => Import!Slot(p)' = <<r.by, func>>
      BY <2>2, <3>7, <3>8, SlotAfter
    <3>11. /\ step' >= first /\ named /\ func = "gethostbyname" /\ step' >= again => Import!Slot(p)' = <<"custom", func>>
           /\ step' >= first /\ ~(named /\ func = "gethostbyname" /\ step' >= again) => Import!Slot(p)' = <<"dw", func>>
           /\ ~(step' >= first) => Import!Slot(p)' \in {<<"real", func>>, <<"dw", func>>}
      <4>1. CASE step + 1 <= Twice
        <5>1. r.by = "dw" /\ r.func = Sockets[(step' + 1) \div 2]
              /\ r.library = IF step' % 2 = 1 THEN "wsock32" ELSE "WS2_32"
          BY <2>1, <2>2, <4>1, Redirections
        <5>2. ~(step >= again) /\ ~(step' >= again)
          BY <2>2, <3>4, <4>1
        <5>3. CASE step' = first
          <6>1. (step' + 1) \div 2 = i /\ r.library = library
            <7>1. CASE library = "wsock32"
              <8>1. first = 2 * i - 1
                BY <3>3, <7>1 DEF First
              <8>2. (step' + 1) \div 2 = i /\ step' % 2 = 1
                BY <2>2, <5>3, <8>1
              <8> QED
                BY <5>1, <7>1, <8>2
            <7>2. CASE library = "WS2_32"
              <8>1. first = 2 * i
                BY <3>3, <7>2 DEF First
              <8>2. (step' + 1) \div 2 = i /\ step' % 2 = 0
                BY <2>2, <5>3, <8>1
              <8> QED
                BY <5>1, <7>2, <8>2
            <7> QED
              BY <7>1, <7>2 DEF Libraries
          <6>2. r.func = func /\ r.library # "winmm"
            BY <3>7, <5>1, <6>1 DEF Libraries
          <6>3. ~(step >= first) /\ step' >= first
            BY <2>2, <5>3
          <6>4. Import!Slot(p)' = <<"dw", func>>
            <7>1. CASE Fits(p, r)
              BY <3>10, <5>1, <7>1
            <7>2. CASE ~Fits(p, r)
              BY <3>6, <3>9, <3>10, <6>1, <6>2, <6>3, <7>2
            <7> QED
              BY <7>1, <7>2
          <6> QED
            BY <5>2, <6>3, <6>4
        <5>4. CASE step' # first
          <6>1. step' >= first <=> step >= first
            BY <2>2, <3>3, <5>4
          <6>2. Import!Slot(p)' \in {Import!Slot(p), <<"dw", func>>}
            BY <3>10, <5>1
          <6> QED
            BY <3>6, <5>2, <6>1, <6>2
        <5> QED
          BY <5>3, <5>4
      <4>2. CASE step + 1 \in {Twice + 1, Twice + 2}
        <5>1. r.by = "custom" /\ r.func = "gethostbyname"
              /\ r.library = IF step' = Twice + 1 THEN "wsock32" ELSE "WS2_32"
          BY <2>1, <2>2, <4>2, Redirections
        <5>2. step >= first /\ step' >= first
          BY <2>2, <3>3, <4>2
        <5>3. CASE r.library = library
          <6>1. step' = again /\ ~(step >= again) /\ step' >= again
            BY <2>2, <3>4, <4>2, <5>1, <5>3 DEF Again
          <6>2. Import!Slot(p) = <<"dw", func>>
            BY <3>6, <5>2, <6>1
          <6>3. Fits(p, r) <=> named /\ func = "gethostbyname"
            BY <3>9, <5>1, <5>3, <6>2 DEF Libraries
          <6> QED
            BY <3>10, <5>1, <5>2, <6>1, <6>2, <6>3
        <5>4. CASE r.library # library
          <6>1. step' >= again <=> step >= again
            <7>1. CASE library = "wsock32"
              BY <2>2, <3>4, <4>2, <5>1, <5>4, <7>1 DEF Again
            <7>2. CASE library = "WS2_32"
              BY <2>2, <3>4, <4>2, <5>1, <5>4, <7>2 DEF Again
            <7> QED
              BY <7>1, <7>2 DEF Libraries
          <6> QED
            BY <3>6, <3>8, <3>10, <5>2, <5>4, <6>1
        <5> QED
          BY <5>3, <5>4
      <4>3. CASE step + 1 = Twice + 3
        <5>1. r.library = "winmm"
          BY <2>1, <2>2, <4>3, Redirections
        <5>2. ~Fits(p, r)
          BY <3>8, <5>1 DEF Libraries
        <5>3. step >= first /\ step' >= first /\ step >= again /\ step' >= again
          BY <2>2, <3>3, <3>4, <4>3
        <5> QED
          BY <3>6, <3>10, <5>2, <5>3
      <4> QED
        BY <2>2, <4>1, <4>2, <4>3
    <3>12. /\ table' = table /\ Import!Import(p)' = Import!Import(p)
      BY <2>2, <2>3
    <3>13. /\ First(table[p[1]].library, i)' = first /\ Again(table[p[1]].library)' = again
           /\ Import!Import(p).func' = func /\ Import!Import(p).named' = named
      BY <3>1, <3>2, <3>3, <3>4, <3>5, <3>12 DEF First, Again
    <3> QED
      BY <3>11, <3>13 DEF Mine
  <2>6. \A p, i : Socket(p, i)' <=> Socket(p, i)
    BY <2>2, <2>3 DEF Socket, Import!Found, Import!Searched
  <2> QED
    BY <2>3, <2>4, <2>5, <2>6 DEF ImportInv
<1> QED
  BY <1>0, <1>1 DEF Import!Next

(* After the last redirection the invariant says who won.                  *)
LEMMA ImportRight == ImportInv => Import!WinningHook
<1> SUFFICES ASSUME ImportInv, step = Len(Import!DllMain), NEW p \in Import!Places, NEW i \in DOMAIN Sockets,
                    Import!Found(p), table[p[1]].library \in Libraries, Import!Import(p).func = Sockets[i]
             PROVE  Import!Slot(p) = IF Import!Import(p).named /\ Import!Import(p).func = "gethostbyname"
                                     THEN <<"custom", "gethostbyname">> ELSE <<"dw", Import!Import(p).func>>
  BY DEF Import!WinningHook, Libraries
<1>1. step = Twice + 3 /\ Twice \in Nat /\ i \in 1..Len(Sockets)
  BY Redirections, TablesAssumption
<1>2. Mine(p, i)
  BY <1>1 DEF ImportInv, Socket
<1>3. step >= First(table[p[1]].library, i) /\ step >= Again(table[p[1]].library)
  BY <1>1, Redirections DEF First, Again, Twice
<1> QED
  BY <1>2, <1>3 DEF Mine

-----------------------------------------------------------------------------
(* The filter of exceptions *)

(* Where the one thread in a call is, says what the function begins with   *)
(* and how its page is protected.                                          *)
FilterAt(t) ==
  /\ hookAt[t] = "unprotect" => code = "jump" /\ page = "execute"
  /\ hookAt[t] = "restore" => code = "jump" /\ page = "write" /\ saved[t] = "execute"
  /\ hookAt[t] = "released" => code = "own" /\ page = "write" /\ saved[t] = "execute"
  /\ hookAt[t] \in {"set", "reinstall"} => code = "own" /\ page = "execute"
  /\ hookAt[t] = "jump" => code = "own" /\ page = "write" /\ saved[t] = "execute"
  /\ hookAt[t] = "installed" => code = "jump" /\ page = "write" /\ saved[t] = "execute"
  /\ hookAt[t] # "return"

FilterTypes ==
  /\ hookAt \in [Threads -> {"away", "unprotect", "restore", "released", "set", "reinstall", "jump", "installed", "return"}]
  /\ nested \in [Threads -> Int] /\ saved \in [Threads -> {"execute", "write"}]
  /\ page \in {"execute", "write"} /\ code \in {"jump", "own"} /\ filter \in {"ours", "theirs"}

FilterAlone ==
  /\ alive /\ filter = "ours"
  /\ \A t, u \in Threads : hookAt[t] # "away" /\ hookAt[u] # "away" => t = u
  /\ (\A t \in Threads : hookAt[t] = "away") => code = "jump" /\ page = "execute"
  /\ \A t \in Threads : nested[t] = 0 /\ FilterAt(t)

FilterInv == FilterTypes /\ (~hookMet => FilterAlone)

(* The hook is in, and nobody is at it.                                    *)
LEMMA FilterStarts == Filter!Init => FilterInv
<1> SUFFICES ASSUME Filter!Init
             PROVE  FilterInv
  OBVIOUS
<1>1. FilterTypes
  BY DEF Filter!Init, FilterTypes
<1>2. FilterAlone
  BY DEF Filter!Init, FilterAlone, FilterAt
<1> QED
  BY <1>1, <1>2 DEF FilterInv

(* Types.                                                                  *)
LEMMA FilterTyped ==
  ASSUME FilterTypes, Filter!Next
  PROVE  FilterTypes'
<1>1. PICK t \in Threads : Filter!Call(t) \/ Filter!Pass(t) \/ Filter!SetUnhandledExceptionFilter_Stub(t)
  BY DEF Filter!Next
<1>2. CASE Filter!Call(t)
  BY <1>2 DEF FilterTypes, Filter!Call, Filter!Enter, Filter!Go
<1>3. CASE Filter!Pass(t)
  BY <1>3 DEF FilterTypes, Filter!Pass
<1>4. CASE Filter!ReleaseHook(t)
  BY <1>4 DEF FilterTypes, Filter!ReleaseHook, Filter!Protect, Filter!Write, Filter!Unprotect,
     Filter!Go, Filter!Quiet
<1>5. CASE Filter!SetFilter(t)
  <2>1. hookAt' = [hookAt EXCEPT ![t] = "reinstall"] \/ hookAt' = [hookAt EXCEPT ![t] = "unprotect"]
    BY <1>5 DEF Filter!SetFilter, Filter!Enter, Filter!Go
  <2>2. filter' \in {filter, "ours"} /\ UNCHANGED <<code, page, saved>>
    BY <1>5 DEF Filter!SetFilter, Filter!Enter
  <2>3. nested' = [nested EXCEPT ![t] = nested[t] + 1] \/ nested' = nested
    BY <1>5 DEF Filter!SetFilter, FilterTypes
  <2> QED
    BY <2>1, <2>2, <2>3 DEF FilterTypes
<1>6. CASE Filter!InstallHook(t)
  BY <1>6 DEF FilterTypes, Filter!InstallHook, Filter!Protect, Filter!Write, Filter!Unprotect,
     Filter!Go, Filter!Quiet
<1>7. CASE Filter!Return(t)
  BY <1>7 DEF FilterTypes, Filter!Return, Filter!Go
<1> QED
  BY <1>1, <1>2, <1>3, <1>4, <1>5, <1>6, <1>7 DEF Filter!SetUnhandledExceptionFilter_Stub

(* A call's way from one place to the next, nobody else being in one.      *)
LEMMA FilterStep ==
  ASSUME FilterInv, FilterTypes', Filter!Next, ~hookMet'
  PROVE  FilterAlone'
<1>1. PICK t \in Threads : Filter!Call(t) \/ Filter!Pass(t) \/ Filter!SetUnhandledExceptionFilter_Stub(t)
  BY DEF Filter!Next
<1>2. FilterTypes
  BY DEF FilterInv
<1>3. CASE Filter!Call(t)
  <2>1. ~hookMet /\ \A u \in Threads : u # t => hookAt[u] = "away"
    BY <1>3 DEF Filter!Call
  <2>2. FilterAlone
    BY <2>1 DEF FilterInv
  <2>3. hookAt[t] = "away"
    BY <1>3 DEF Filter!Call
  <2>4. code = "jump" /\ page = "execute"
    BY <2>1, <2>2, <2>3 DEF FilterAlone
  <2>5. hookAt' = [hookAt EXCEPT ![t] = "unprotect"] /\ filter' = filter /\ alive' = alive
    BY <1>3, <2>4 DEF Filter!Call, Filter!Enter, Filter!Go
  <2>6. UNCHANGED <<code, page, saved, nested>>
    BY <1>3 DEF Filter!Call
  <2>7. hookAt'[t] = "unprotect" /\ \A u \in Threads : u # t => hookAt'[u] = "away"
    BY <1>2, <2>1, <2>5 DEF FilterTypes
  <2> QED
    BY <2>2, <2>4, <2>5, <2>6, <2>7 DEF FilterAlone, FilterAt
<1>4. CASE Filter!Pass(t)
  BY <1>4 DEF Filter!Pass
<1>5. CASE Filter!SetUnhandledExceptionFilter_Stub(t)
  <2>1. hookMet' = hookMet
    BY <1>5 DEF Filter!SetUnhandledExceptionFilter_Stub, Filter!ReleaseHook, Filter!SetFilter,
       Filter!InstallHook,
      Filter!Return, Filter!Protect, Filter!Write, Filter!Unprotect, Filter!Quiet
  <2>2. FilterAlone
    BY <2>1 DEF FilterInv
  <2>3. FilterAt(t) /\ nested[t] = 0
    BY <2>2 DEF FilterAlone
  <2>4. \A u \in Threads : u # t => hookAt'[u] = hookAt[u] /\ nested'[u] = nested[u]
    BY <1>2, <1>5 DEF FilterTypes, Filter!SetUnhandledExceptionFilter_Stub, Filter!ReleaseHook,
       Filter!SetFilter,
      Filter!InstallHook, Filter!Return, Filter!Protect, Filter!Write, Filter!Unprotect, Filter!Quiet, Filter!Enter, Filter!Go
  <2>5. hookAt[t] # "away"
    BY <1>5 DEF Filter!SetUnhandledExceptionFilter_Stub, Filter!ReleaseHook, Filter!SetFilter,
       Filter!InstallHook,
      Filter!Return, Filter!Protect, Filter!Write, Filter!Unprotect
  <2>6. \A u \in Threads : u # t => hookAt'[u] = "away" /\ nested'[u] = 0
    BY <2>2, <2>4, <2>5 DEF FilterAlone
  <2> DEFINE Goes == /\ alive' /\ filter' = "ours" /\ nested'[t] = 0 /\ FilterAt(t)'
                     /\ hookAt'[t] = "away" => code' = "jump" /\ page' = "execute"
  <2>7. SUFFICES Goes
    <3>1. ASSUME NEW u \in Threads, u # t
          PROVE  nested'[u] = 0 /\ FilterAt(u)'
      BY <2>6, <3>1 DEF FilterAt
    <3> QED
      BY <2>6, <3>1 DEF FilterAlone
  <2>8. CASE Filter!Protect(t, "unprotect", "restore") \/ Filter!Protect(t, "reinstall", "jump")
    BY <1>2, <2>2, <2>3, <2>8 DEF FilterAlone, FilterAt, FilterTypes, Filter!Protect, Filter!Go,
       Filter!Quiet
  <2>9. CASE Filter!Write(t, "restore", "own", "released") \/ Filter!Write(t, "jump", "jump", "installed")
    BY <1>2, <2>2, <2>3, <2>9 DEF FilterAlone, FilterAt, FilterTypes, Filter!Write, Filter!Go,
       Filter!Quiet
  <2>10. CASE Filter!Unprotect(t, "released", "set") \/ Filter!Unprotect(t, "installed", "away")
    BY <1>2, <2>2, <2>3, <2>10 DEF FilterAlone, FilterAt, FilterTypes, Filter!Unprotect, Filter!Go,
       Filter!Quiet
  <2>11. CASE Filter!SetFilter(t)
    <3>1. hookAt[t] = "set" /\ code = "own" /\ page = "execute"
      BY <2>3, <2>11 DEF Filter!SetFilter, FilterAt
    <3>2. hookAt' = [hookAt EXCEPT ![t] = "reinstall"] /\ filter' = "ours" /\ alive' = alive
      BY <2>11, <3>1 DEF Filter!SetFilter, Filter!Enter, Filter!Go
    <3>3. hookAt'[t] = "reinstall"
      BY <1>2, <3>2 DEF FilterTypes
    <3>4. nested'[t] = 0 /\ UNCHANGED <<code, page>>
      BY <1>2, <2>3, <2>11, <3>3 DEF Filter!SetFilter, FilterTypes
    <3> QED
      BY <2>2, <3>1, <3>2, <3>3, <3>4 DEF FilterAlone, FilterAt
  <2>12. CASE Filter!Return(t)
    BY <2>3, <2>12 DEF Filter!Return, FilterAt
  <2> QED
    BY <1>5, <2>3, <2>8, <2>9, <2>10, <2>11, <2>12 DEF Filter!SetUnhandledExceptionFilter_Stub,
       Filter!ReleaseHook,
      Filter!InstallHook
<1> QED
  BY <1>1, <1>3, <1>4, <1>5

(* Both together.                                                          *)
LEMMA FilterKept ==
  ASSUME FilterInv, Filter!Next
  PROVE  FilterInv'
BY FilterTyped, FilterStep DEF FilterInv

(* From the invariant to the property.                                     *)
LEMMA FilterRight == FilterInv => Filter!FilterStays
BY DEF FilterInv, FilterAlone, Filter!FilterStays

-----------------------------------------------------------------------------
(* Shared texts *)

(* Of a call that no other overlapped: while it runs it is the last one;   *)
(* once it took its buffer, the index is no farther ahead of it than calls *)
(* moved it on since, no later call has a buffer farther ahead than it is  *)
(* later, and one that is yet to move the index took one no farther ahead  *)
(* than that. Until there were as many calls as there are buffers, none    *)
(* came round to its own.                                                  *)
Far(s, b, x) == IF x > b THEN x - b ELSE (x - b) + s
Turns == {"taken", "advanced", "writing", "returned"}
Call == [by : Threads, at : Turns, buffer : Nat, met : BOOLEAN, since : Nat]
Advanced(c) == {d \in (c + 1)..Len(calls) : calls[d].at # "taken"}
Past(c) == 1 + Cardinality(Advanced(c))

TextTypes ==
  /\ size \in Nat \ {0} /\ next \in 0..size - 1
  /\ buffers \in [0..size - 1 -> Nat] /\ calls \in Seq(Call)
  /\ \A c \in 1..Len(calls) : calls[c].buffer \in 0..size - 1 /\ calls[c].since = Len(calls) - c

TextLast(c) ==
  /\ calls[c].at # "returned" => c = Len(calls)
  /\ \A e \in 1..c - 1 : calls[e].at = "returned"
  /\ calls[c].at = "taken" => next = calls[c].buffer

TextFar(c) ==
  /\ Far(size, calls[c].buffer, next) <= Past(c)
  /\ \A d \in (c + 1)..Len(calls) :
       /\ Far(size, calls[c].buffer, calls[d].buffer) <= d - c
       /\ calls[d].at = "taken" => Far(size, calls[c].buffer, calls[d].buffer) <= Past(c)
  /\ calls[c].at = "returned" => buffers[calls[c].buffer] = c

TextAlone(c) == TextLast(c) /\ (calls[c].at # "taken" /\ Len(calls) - c < size => TextFar(c))

TextInv == TextTypes /\ \A c \in 1..Len(calls) : ~calls[c].met => TextAlone(c)

(* Once round the buffers, one step at a time.                             *)
LEMMA Round ==
  ASSUME NEW s \in Nat \ {0}
  PROVE  \A b, x \in 0..s - 1 :
           /\ Far(s, b, x) \in Nat /\ (Far(s, b, x) < s => x # b)
           /\ (x + 1) % s \in 0..s - 1
           /\ Far(s, b, (x + 1) % s) <= Far(s, b, x) + 1
           /\ x = b => Far(s, b, (x + 1) % s) = 1
<1> TAKE b, x \in 0..s - 1
<1>1. Far(s, b, x) \in Nat /\ (Far(s, b, x) < s => x # b)
  BY DEF Far
<1>2. (x + 1) % s = IF x = s - 1 THEN 0 ELSE x + 1
  <2>0. x \in Nat
    OBVIOUS
  <2>1. x % s = x
    BY SmallMod
  <2>2. (x + 1) % s = IF x % s = s - 1 THEN 0 ELSE (x % s) + 1
    BY <2>0, NextDiv
  <2> QED
    BY <2>1, <2>2
<1>3. PICK y : y = (x + 1) % s
  OBVIOUS
<1>4. y \in 0..s - 1 /\ y = IF x = s - 1 THEN 0 ELSE x + 1
  BY <1>2, <1>3
<1>5. Far(s, b, y) <= Far(s, b, x) + 1 /\ (x = b => Far(s, b, y) = 1)
  <2>1. CASE x = s - 1
    BY <1>4, <2>1 DEF Far
  <2>2. CASE x # s - 1
    BY <1>4, <2>2 DEF Far
  <2> QED
    BY <2>1, <2>2
<1> QED
  BY <1>1, <1>3, <1>4, <1>5

(* Nobody has called.                                                      *)
LEMMA TextStarts == Texts!Init => TextInv
<1> SUFFICES ASSUME Texts!Init
             PROVE  TextInv
  OBVIOUS
<1>1. size \in Nat \ {0} /\ next = 0 /\ buffers = [b \in 0..size - 1 |-> 0] /\ calls = <<>>
  BY SizesAssumption DEF Texts!Init
<1>2. calls \in Seq(Call) /\ Len(calls) = 0
  BY <1>1
<1>3. TextTypes
  BY <1>1, <1>2 DEF TextTypes
<1> QED
  BY <1>2, <1>3 DEF TextInv

(* No more calls have moved the index than were made.                      *)
LEMMA AdvancedCount ==
  ASSUME TextTypes, NEW c \in 1..Len(calls)
  PROVE  /\ IsFiniteSet(Advanced(c)) /\ Cardinality(Advanced(c)) \in Nat
         /\ Cardinality(Advanced(c)) <= Len(calls) - c
<1>1. Len(calls) \in Nat /\ c \in Int /\ c + 1 \in Int /\ c <= Len(calls)
  BY DEF TextTypes
<1>2. IsFiniteSet((c + 1)..Len(calls))
  BY <1>1, FS_Interval
<1>3. Cardinality((c + 1)..Len(calls)) = IF c + 1 > Len(calls) THEN 0 ELSE (Len(calls) - (c + 1)) + 1
  <2>1. PICK a \in Int, b \in Int : a = c + 1 /\ b = Len(calls)
    BY <1>1
  <2>2. Cardinality(a..b) = IF a > b THEN 0 ELSE b - a + 1
    BY FS_Interval
  <2> QED
    BY <2>1, <2>2
<1>4. Advanced(c) \in SUBSET ((c + 1)..Len(calls))
  BY DEF Advanced
<1>5. IsFiniteSet(Advanced(c)) /\ Cardinality(Advanced(c)) <= Cardinality((c + 1)..Len(calls))
  BY <1>2, <1>4, FS_Subset
<1>6. Cardinality(Advanced(c)) \in Nat
  BY <1>5, FS_CardinalityType
<1> QED
  BY <1>1, <1>3, <1>5, <1>6

(* A call that goes on stays the call it is.                               *)
LEMMA CallGoes ==
  ASSUME TextTypes, NEW c \in 1..Len(calls), NEW turn \in Turns, Texts!To(c, turn)
  PROVE  /\ calls' \in Seq(Call) /\ Len(calls') = Len(calls)
         /\ \A d \in 1..Len(calls) : d # c => calls'[d] = calls[d]
         /\ calls'[c].at = turn /\ calls'[c].by = calls[c].by /\ calls'[c].buffer = calls[c].buffer
         /\ calls'[c].met = calls[c].met /\ calls'[c].since = calls[c].since
<1>1. calls \in Seq(Call) /\ calls[c] \in Call /\ Len(calls) \in Nat
  BY DEF TextTypes
<1>2. PICK row : row = [calls[c] EXCEPT !.at = turn]
  OBVIOUS
<1>3. /\ row.at = turn /\ row.by = calls[c].by /\ row.buffer = calls[c].buffer
      /\ row.met = calls[c].met /\ row.since = calls[c].since
  BY <1>1, <1>2 DEF Call
<1>4. row \in Call
  BY <1>1, <1>2 DEF Call
<1>5. calls' = [calls EXCEPT ![c] = row]
  BY <1>2 DEF Texts!To
<1>6. calls' \in Seq(Call) /\ Len(calls') = Len(calls) /\ calls'[c] = row
      /\ \A d \in 1..Len(calls) : d # c => calls'[d] = calls[d]
  BY <1>1, <1>4, <1>5
<1> QED
  BY <1>3, <1>6

(* A call that begins marks those it overlaps, and is the last.            *)
LEMMA TakeKept ==
  ASSUME TextInv, NEW t \in Threads, Texts!Take(t)
  PROVE  TextInv'
<1>0. TextTypes /\ UNCHANGED <<size, next, buffers>>
  BY DEF TextInv, Texts!Take
<1>1. PICK m \in Nat : m = Len(calls)
  BY <1>0 DEF TextTypes
<1>2. calls \in Seq(Call) /\ DOMAIN calls = 1..m
  BY <1>0, <1>1 DEF TextTypes
<1>3. PICK old : old = [c \in DOMAIN calls |-> [calls[c] EXCEPT !.met = @ \/ c \in Texts!Busy, !.since = @ + 1]]
  OBVIOUS
<1>4. PICK new : new = [by |-> t, at |-> "taken", buffer |-> next, met |-> Texts!Busy # {}, since |-> 0]
  OBVIOUS
<1>5. calls' = Append(old, new)
  BY <1>3, <1>4 DEF Texts!Take
<1>6. new \in Call
  BY <1>0, <1>4 DEF Call, Turns, TextTypes
<1>7. new.at = "taken" /\ new.buffer = next /\ new.since = 0
  BY <1>4
<1>8. ~new.met => Texts!Busy = {}
  BY <1>4
<1>9. ASSUME NEW c \in 1..m
      PROVE  /\ old[c] \in Call /\ old[c].at = calls[c].at /\ old[c].buffer = calls[c].buffer
             /\ old[c].since = calls[c].since + 1
             /\ ~old[c].met => ~calls[c].met /\ calls[c].at = "returned"
  <2>1. calls[c] \in Call
    BY <1>2
  <2>2. PICK b \in BOOLEAN : b <=> calls[c].met \/ c \in Texts!Busy
    OBVIOUS
  <2>3. old[c] = [calls[c] EXCEPT !.met = b, !.since = @ + 1]
    <3>1. old[c] = [calls[c] EXCEPT !.met = @ \/ c \in Texts!Busy, !.since = @ + 1]
      BY <1>2, <1>3
    <3>2. b = (calls[c].met \/ c \in Texts!Busy)
      BY <2>2, Zenon
    <3> QED
      BY <3>1, <3>2
  <2>4. old[c].at = calls[c].at /\ old[c].buffer = calls[c].buffer /\ old[c].since = calls[c].since + 1
    BY <2>1, <2>3 DEF Call
  <2>5. old[c].met = b
    BY <2>1, <2>3 DEF Call
  <2>6. old[c] \in Call
    <3>1. PICK row \in Call : row = [calls[c] EXCEPT !.met = b]
      BY <2>1 DEF Call
    <3>2. PICK k \in Nat : k = calls[c].since + 1
      BY <2>1 DEF Call
    <3>3. old[c] = [row EXCEPT !.since = k]
      BY <2>1, <2>3, <3>1, <3>2 DEF Call
    <3> QED
      BY <3>3 DEF Call
  <2>7. ~b => ~calls[c].met /\ calls[c].at = "returned"
    BY <1>2, <2>2 DEF Texts!Busy
  <2> QED
    BY <2>4, <2>5, <2>6, <2>7
<1>10. old \in Seq(Call) /\ Len(old) = m
  <2>1. old = [c \in 1..m |-> old[c]]
    BY <1>2, <1>3
  <2> QED
    BY <1>9, <2>1
<1>11. /\ calls' \in Seq(Call) /\ Len(calls') = m + 1 /\ calls'[m + 1] = new
       /\ \A c \in 1..m : calls'[c] = old[c]
  BY <1>5, <1>6, <1>10, AppendProperties
<1>12. TextTypes'
  <2>1. \A c \in 1..m + 1 : c \in 1..m \/ c = m + 1
    OBVIOUS
  <2>2. ASSUME NEW c \in 1..m + 1
        PROVE  calls'[c].buffer \in 0..size - 1 /\ calls'[c].since = (m + 1) - c
    <3>1. CASE c \in 1..m
      <4>1. calls[c].buffer \in 0..size - 1 /\ calls[c].since = m - c
        BY <1>0, <1>1, <3>1 DEF TextTypes
      <4>2. calls'[c].buffer = calls[c].buffer /\ calls'[c].since = calls[c].since + 1
        BY <1>9, <1>11, <3>1
      <4> QED
        BY <3>1, <4>1, <4>2
    <3>2. CASE c = m + 1
      BY <1>0, <1>7, <1>11, <3>2 DEF TextTypes
    <3> QED
      BY <2>1, <3>1, <3>2
  <2> QED
    BY <1>0, <1>11, <2>2 DEF TextTypes
<1>13. ASSUME NEW c \in 1..Len(calls'), ~calls'[c].met
       PROVE  TextAlone(c)'
  <2>1. CASE c = m + 1
    <3>1. Texts!Busy = {} /\ calls'[c].at = "taken" /\ calls'[c].buffer = next
      BY <1>7, <1>8, <1>11, <1>13, <2>1
    <3>2. \A e \in 1..m : calls[e].at = "returned"
      BY <1>2, <3>1 DEF Texts!Busy
    <3>3. \A e \in 1..c - 1 : calls'[e].at = "returned"
      BY <1>9, <1>11, <2>1, <3>2
    <3>4. TextLast(c)'
      BY <1>0, <1>11, <2>1, <3>1, <3>3 DEF TextLast
    <3> QED
      BY <3>1, <3>4 DEF TextAlone
  <2>2. CASE c \in 1..m
    <3>1. /\ ~calls[c].met /\ calls[c].at = "returned" /\ calls'[c].at = "returned"
          /\ calls'[c].buffer = calls[c].buffer
      BY <1>9, <1>11, <1>13, <2>2
    <3>2. TextAlone(c)
      BY <1>1, <2>2, <3>1 DEF TextInv
    <3>3. TextLast(c)'
      <4>1. \A e \in 1..c - 1 : calls'[e].at = "returned"
        BY <1>9, <1>11, <2>2, <3>2 DEF TextAlone, TextLast
      <4> QED
        BY <3>1, <4>1 DEF TextLast
    <3>4. ASSUME Len(calls') - c < size
          PROVE  TextFar(c)'
      <4>1. TextFar(c)
        BY <1>0, <1>1, <1>11, <2>2, <3>1, <3>2, <3>4 DEF TextAlone, TextTypes
      <4>2. Advanced(c)' = Advanced(c)
        <5>1. \A d \in (c + 1)..m : calls'[d].at = calls[d].at
          BY <1>9, <1>11, <2>2
        <5>2. \A d \in (c + 1)..m + 1 : d \in (c + 1)..m \/ d = m + 1
          BY <2>2
        <5>3. calls'[m + 1].at = "taken"
          BY <1>7, <1>11
        <5> QED
          BY <1>1, <1>11, <2>2, <5>1, <5>2, <5>3 DEF Advanced
      <4>3. Past(c)' = Past(c) /\ Past(c) \in Nat /\ Past(c) <= (m + 1) - c
        <5>1. Cardinality(Advanced(c)) \in Nat /\ Cardinality(Advanced(c)) <= m - c
          BY <1>0, <1>1, <2>2, AdvancedCount
        <5> QED
          BY <2>2, <4>2, <5>1 DEF Past
      <4>4. ASSUME NEW d \in (c + 1)..m + 1
            PROVE  /\ Far(size, calls[c].buffer, calls'[d].buffer) <= d - c
                   /\ calls'[d].at = "taken" => Far(size, calls[c].buffer, calls'[d].buffer) <= Past(c)
        <5>1. CASE d \in (c + 1)..m
          <6>1. calls'[d].at = calls[d].at /\ calls'[d].buffer = calls[d].buffer
            BY <1>9, <1>11, <2>2, <5>1
          <6> QED
            BY <1>1, <4>1, <5>1, <6>1 DEF TextFar
        <5>2. CASE d = m + 1
          <6>1. calls'[d].buffer = next
            BY <1>7, <1>11, <5>2
          <6>2. calls[c].buffer \in 0..size - 1 /\ size \in Nat \ {0} /\ next \in 0..size - 1
            BY <1>0, <1>1, <2>2 DEF TextTypes
          <6>3. PICK f \in Nat : f = Far(size, calls[c].buffer, next)
            BY <6>2, Round
          <6>4. f <= Past(c)
            BY <4>1, <6>3 DEF TextFar
          <6> QED
            BY <2>2, <4>3, <5>2, <6>1, <6>3, <6>4
        <5> QED
          BY <2>2, <5>1, <5>2
      <4>5. Far(size, calls[c].buffer, next) <= Past(c) /\ buffers[calls[c].buffer] = c
        BY <3>1, <4>1 DEF TextFar
      <4> QED
        BY <1>0, <1>11, <3>1, <4>3, <4>4, <4>5 DEF TextFar
    <3> QED
      BY <1>0, <3>3, <3>4 DEF TextAlone
  <2> QED
    BY <1>11, <1>13, <2>1, <2>2
<1> QED
  BY <1>12, <1>13 DEF TextInv

(* Whoever moves the index moves it one step from where he saw it.         *)
LEMMA AdvanceKept ==
  ASSUME TextInv, NEW e \in 1..Len(calls), Texts!Advance(e)
  PROVE  TextInv'
<1>0. TextTypes /\ UNCHANGED <<size, buffers>> /\ calls[e].at = "taken" /\ Texts!To(e, "advanced")
  BY DEF TextInv, Texts!Advance
<1>1. PICK m \in Nat : m = Len(calls)
  BY <1>0 DEF TextTypes
<1>2. /\ calls' \in Seq(Call) /\ Len(calls') = m /\ e \in 1..m
      /\ \A d \in 1..m : d # e => calls'[d] = calls[d]
      /\ calls'[e].at = "advanced" /\ calls'[e].buffer = calls[e].buffer
      /\ calls'[e].met = calls[e].met /\ calls'[e].since = calls[e].since
  BY <1>0, <1>1, CallGoes DEF Turns
<1>3. \A d \in 1..m : calls'[d].buffer = calls[d].buffer /\ calls'[d].since = calls[d].since
  BY <1>2
<1>4. PICK x : (x = calls[e].buffer \/ x = next) /\ next' = (x + 1) % size
  BY DEF Texts!Advance, Texts!Following
<1>5. size \in Nat \ {0} /\ x \in 0..size - 1 /\ next \in 0..size - 1 /\ \A d \in 1..m : calls[d].buffer \in 0..size - 1
  BY <1>0, <1>1, <1>4 DEF TextTypes
<1>6. TextTypes'
  <2>1. next' \in 0..size - 1
    BY <1>4, <1>5, Round
  <2> QED
    BY <1>0, <1>1, <1>2, <1>3, <2>1 DEF TextTypes
<1>7. ASSUME NEW c \in 1..m, ~calls'[c].met
      PROVE  TextAlone(c)'
  <2>1. TextAlone(c) /\ TextLast(c)
    BY <1>1, <1>2, <1>7 DEF TextInv, TextAlone
  <2>2. CASE c = e
    <3>1. c = m /\ next = calls[c].buffer /\ x = calls[c].buffer
      BY <1>0, <1>1, <1>4, <2>1, <2>2 DEF TextLast
    <3>2. TextLast(c)'
      BY <1>2, <2>1, <2>2, <3>1 DEF TextLast
    <3>3. Far(size, calls[c].buffer, next') = 1
      BY <1>4, <1>5, <3>1, Round
    <3>4. Past(c)' = 1
      <4>1. Advanced(c)' = {}
        BY <1>2, <3>1 DEF Advanced
      <4>2. Cardinality({}) = 0
        BY FS_EmptySet
      <4> QED
        BY <4>1, <4>2 DEF Past
    <3>5. TextFar(c)'
      BY <1>0, <1>2, <2>2, <3>1, <3>3, <3>4 DEF TextFar
    <3> QED
      BY <3>2, <3>5 DEF TextAlone
  <2>3. CASE c # e
    <3>1. c < e /\ calls[c].at = "returned" /\ calls'[c] = calls[c] /\ calls[c].buffer \in 0..size - 1
      <4>1. ~(e \in 1..c - 1)
        BY <1>0, <2>1 DEF TextLast
      <4>2. c < e
        BY <1>2, <2>3, <4>1
      <4> QED
        BY <1>1, <1>2, <1>5, <2>1, <4>2 DEF TextLast
    <3>2. TextLast(c)'
      <4>1. \A d \in 1..c - 1 : calls'[d].at = "returned"
        BY <1>2, <2>1, <3>1 DEF TextLast
      <4> QED
        BY <3>1, <4>1 DEF TextLast
    <3>3. ASSUME m - c < size
          PROVE  TextFar(c)'
      <4>1. TextFar(c)
        BY <1>1, <2>1, <3>1, <3>3 DEF TextAlone
      <4>2. Past(c) \in Nat /\ Past(c)' = Past(c) + 1
        <5>1. e \notin Advanced(c) /\ IsFiniteSet(Advanced(c)) /\ Cardinality(Advanced(c)) \in Nat
          BY <1>0, <1>1, AdvancedCount DEF Advanced
        <5>2. Advanced(c)' = Advanced(c) \union {e}
          <6>1. \A d \in (c + 1)..m : d # e => calls'[d].at = calls[d].at
            BY <1>2
          <6>2. e \in (c + 1)..m
            BY <1>2, <3>1
          <6> QED
            BY <1>1, <1>2, <6>1, <6>2 DEF Advanced
        <5>3. Cardinality(Advanced(c) \union {e}) = Cardinality(Advanced(c)) + 1
          BY <5>1, FS_AddElement
        <5> QED
          BY <5>1, <5>2, <5>3 DEF Past
      <4>3. e \in (c + 1)..m
        BY <1>2, <3>1
      <4>4. PICK f \in Nat : f = Far(size, calls[c].buffer, x)
        BY <1>5, <3>1, Round
      <4>5. f <= Past(c)
        <5>1. CASE x = calls[e].buffer
          BY <1>0, <1>1, <4>1, <4>3, <4>4, <5>1 DEF TextFar
        <5>2. CASE x = next
          BY <4>1, <4>4, <5>2 DEF TextFar
        <5> QED
          BY <1>4, <5>1, <5>2
      <4>6. Far(size, calls[c].buffer, next') <= Past(c) + 1
        <5>1. Far(size, calls[c].buffer, (x + 1) % size) <= f + 1 /\ (x + 1) % size \in 0..size - 1
          BY <1>5, <3>1, <4>4, Round
        <5>2. Far(size, calls[c].buffer, next') \in Int
          <6>1. PICK y \in 0..size - 1 : y = (x + 1) % size
            BY <5>1
          <6>2. Far(size, calls[c].buffer, y) \in Nat
            BY <1>5, <3>1, Round
          <6> QED
            BY <1>4, <6>1, <6>2
        <5> QED
          BY <1>4, <4>2, <4>5, <5>1, <5>2
      <4>7. ASSUME NEW d \in (c + 1)..m
            PROVE  /\ Far(size, calls[c].buffer, calls'[d].buffer) <= d - c
                   /\ calls'[d].at = "taken" => Far(size, calls[c].buffer, calls'[d].buffer) <= Past(c) + 1
        <5>1. d \in 1..m /\ calls'[d].buffer = calls[d].buffer
          BY <1>3, <3>1
        <5>2. PICK g \in Nat : g = Far(size, calls[c].buffer, calls[d].buffer)
          BY <1>5, <3>1, <5>1, Round
        <5>3. g <= d - c /\ (calls[d].at = "taken" => g <= Past(c))
          BY <1>1, <4>1, <5>2 DEF TextFar
        <5>4. calls'[d].at = "taken" => calls[d].at = "taken"
          BY <1>2, <5>1
        <5> QED
          BY <4>2, <5>1, <5>2, <5>3, <5>4
      <4>8. buffers[calls[c].buffer] = c
        BY <3>1, <4>1 DEF TextFar
      <4> QED
        BY <1>0, <1>2, <3>1, <4>2, <4>6, <4>7, <4>8 DEF TextFar
    <3> QED
      BY <1>0, <1>2, <3>2, <3>3 DEF TextAlone
  <2> QED
    BY <2>2, <2>3
<1> QED
  BY <1>2, <1>6, <1>7 DEF TextInv

(* Whoever writes a text writes none that is still to be kept.             *)
LEMMA TextWritten ==
  ASSUME TextInv, NEW e \in 1..Len(calls), Texts!Write(e)
  PROVE  TextInv'
<1>0. TextTypes /\ UNCHANGED <<size, next>>
  BY DEF TextInv, Texts!Write
<1>1. PICK m \in Nat : m = Len(calls)
  BY <1>0 DEF TextTypes
<1>2. PICK turn \in {"writing", "returned"}, text \in Nat :
        /\ Texts!To(e, turn) /\ buffers' = [buffers EXCEPT ![calls[e].buffer] = text]
        /\ turn = "writing" => calls[e].at = "advanced"
        /\ turn = "returned" => calls[e].at = "writing" /\ text = e
  BY DEF Texts!Write
<1>3. calls[e].at \in {"advanced", "writing"}
  BY <1>2
<1>4. /\ calls' \in Seq(Call) /\ Len(calls') = m /\ e \in 1..m
      /\ \A d \in 1..m : d # e => calls'[d] = calls[d]
      /\ calls'[e].at = turn /\ calls'[e].buffer = calls[e].buffer
      /\ calls'[e].met = calls[e].met /\ calls'[e].since = calls[e].since
  BY <1>0, <1>1, <1>2, CallGoes DEF Turns
<1>5. /\ \A d \in 1..m : calls'[d].buffer = calls[d].buffer /\ calls'[d].since = calls[d].since
      /\ \A d \in 1..m : calls'[d].at = "taken" <=> calls[d].at = "taken"
  BY <1>3, <1>4
<1>6. /\ size \in Nat \ {0} /\ buffers \in [0..size - 1 -> Nat] /\ next \in 0..size - 1
      /\ \A d \in 1..m : calls[d].buffer \in 0..size - 1
  BY <1>0, <1>1 DEF TextTypes
<1>7. TextTypes'
  <2>1. buffers' \in [0..size - 1 -> Nat]
    BY <1>2, <1>6
  <2> QED
    BY <1>0, <1>1, <1>4, <1>5, <2>1 DEF TextTypes
<1>8. ASSUME NEW c \in 1..m, ~calls'[c].met
      PROVE  TextAlone(c)'
  <2>1. TextAlone(c) /\ TextLast(c)
    BY <1>1, <1>4, <1>8 DEF TextInv, TextAlone
  <2>2. c <= e /\ (c = e => c = m) /\ (c # e => c < e /\ calls[c].at = "returned")
    <3>1. ~(e \in 1..c - 1)
      BY <1>3, <2>1 DEF TextLast
    <3>2. c <= e
      BY <1>4, <3>1
    <3> QED
      BY <1>1, <1>3, <1>4, <2>1, <3>2 DEF TextLast
  <2>3. TextLast(c)'
    <3>1. \A d \in 1..c - 1 : calls'[d].at = "returned"
      BY <1>4, <2>1, <2>2 DEF TextLast
    <3>2. calls'[c].at # "taken"
      BY <1>3, <1>4, <1>5, <2>2
    <3> QED
      BY <1>4, <2>2, <3>1, <3>2 DEF TextLast
  <2>4. ASSUME m - c < size
        PROVE  TextFar(c)'
    <3>1. TextFar(c)
      <4>1. calls[c].at # "taken"
        BY <1>3, <2>2
      <4> QED
        BY <1>1, <2>1, <2>4, <4>1 DEF TextAlone
    <3>2. Past(c)' = Past(c)
      <4>1. Advanced(c)' = Advanced(c)
        BY <1>1, <1>4, <1>5 DEF Advanced
      <4> QED
        BY <4>1 DEF Past
    <3>3. calls'[c].at = "returned" => buffers'[calls[c].buffer] = c
      <4>1. CASE c = e
        BY <1>2, <1>4, <1>6, <4>1
      <4>2. CASE c # e
        <5>1. buffers[calls[c].buffer] = c
          BY <2>2, <3>1, <4>2 DEF TextFar
        <5>2. PICK g \in Nat : g = Far(size, calls[c].buffer, calls[e].buffer)
          BY <1>4, <1>6, Round
        <5>3. g <= e - c
          BY <1>1, <1>4, <2>2, <3>1, <4>2, <5>2 DEF TextFar
        <5>4. g < size
          BY <1>4, <1>6, <2>4, <5>3
        <5>5. calls[e].buffer # calls[c].buffer
          BY <1>4, <1>6, <5>2, <5>4, Round
        <5> QED
          BY <1>2, <1>4, <1>6, <5>1, <5>5
      <4> QED
        BY <4>1, <4>2
    <3>4. ASSUME NEW d \in (c + 1)..m
          PROVE  /\ Far(size, calls[c].buffer, calls'[d].buffer) <= d - c
                 /\ calls'[d].at = "taken" => Far(size, calls[c].buffer, calls'[d].buffer) <= Past(c)
      <4>1. d \in 1..m
        OBVIOUS
      <4>2. calls'[d].buffer = calls[d].buffer /\ (calls'[d].at = "taken" <=> calls[d].at = "taken")
        BY <1>5, <4>1
      <4> QED
        BY <1>1, <3>1, <4>2 DEF TextFar
    <3>5. calls'[c].buffer = calls[c].buffer
      BY <1>5
    <3> QED
      BY <1>0, <1>4, <3>1, <3>2, <3>3, <3>4, <3>5 DEF TextFar
  <2> QED
    BY <1>0, <1>4, <2>3, <2>4 DEF TextAlone
<1> QED
  BY <1>4, <1>7, <1>8 DEF TextInv

(* Whichever of the three it is.                                           *)
LEMMA TextKept ==
  ASSUME TextInv, Texts!Next
  PROVE  TextInv'
<1>1. DOMAIN calls = 1..Len(calls)
  BY DEF TextInv, TextTypes
<1> QED
  BY <1>1, TakeKept, AdvanceKept, TextWritten DEF Texts!Next

(* From the invariant to the property.                                     *)
LEMMA TextRight == TextInv => Texts!TextsKept
<1> SUFFICES ASSUME TextInv, NEW c \in DOMAIN calls \ Texts!Busy, ~calls[c].met, calls[c].since < size
             PROVE  buffers[calls[c].buffer] = c
  BY DEF Texts!TextsKept
<1>1. c \in 1..Len(calls) /\ calls[c].since = Len(calls) - c /\ calls[c].at = "returned"
  BY DEF TextInv, TextTypes, Texts!Busy
<1> QED
  BY <1>1 DEF TextInv, TextAlone, TextFar

-----------------------------------------------------------------------------
(* The session key *)

(* A word of the key is the ticket's once a login has copied it, or a      *)
(* login before that was the first: then it stays, as all tickets have the *)
(* same key. A draft begun after a login has words of no other.            *)
KeyInv ==
  /\ globalKey \in [1..KeyWords -> {0, 1}]
  /\ logins \in Nat /\ copied \in 0..KeyWords
  /\ logins = 0 => copied = KeyWords
  /\ \A w \in 1..KeyWords : logins >= 2 \/ (logins = 1 /\ w <= copied) => globalKey[w] = 1
  /\ drafts \in [SKey!Writers -> [of : Int, key : Seq({0, 1})]]
  /\ \A t \in SKey!Writers :
       /\ drafts[t].of <= SKey!Done /\ Len(drafts[t].key) <= KeyWords
       /\ drafts[t].of > 0 => \A w \in 1..Len(drafts[t].key) : drafts[t].key[w] = 1
  /\ SKey!KeysWhole

(* No key is there, and no draft.                                          *)
LEMMA KeyStarts == SKey!Init => KeyInv
<1> SUFFICES ASSUME SKey!Init
             PROVE  KeyInv
  OBVIOUS
<1>1. SKey!NoDraft \in [of : Int, key : Seq({0, 1})] /\ SKey!NoDraft.of = -1 /\ SKey!NoDraft.key = <<>>
  BY DEF SKey!NoDraft
<1>2. /\ drafts \in [SKey!Writers -> [of : Int, key : Seq({0, 1})]]
      /\ \A t \in SKey!Writers : drafts[t].of = -1 /\ drafts[t].key = <<>>
  BY <1>1 DEF SKey!Init
<1>3. SKey!Done = 0 /\ logins = 0 /\ copied = KeyWords /\ sent = {}
  BY DEF SKey!Init, SKey!Done
<1> QED
  BY <1>2, <1>3, WordsAssumption DEF SKey!Init, KeyInv, SKey!KeysWhole

(* Each login and each packet sent.                                        *)
LEMMA KeyKept ==
  ASSUME KeyInv, SKey!Next
  PROVE  KeyInv'
<1> USE WordsAssumption
<1>1. ASSUME SKey!Login
      PROVE  KeyInv'
  <2>1. logins' = logins + 1 /\ copied' = 0 /\ copied = KeyWords /\ UNCHANGED <<globalKey, drafts, sent>>
    BY <1>1 DEF SKey!Login
  <2>2. SKey!Done' >= SKey!Done
    BY <2>1 DEF SKey!Done, KeyInv
  <2>3. SKey!Done \in Int /\ SKey!Done' \in Int
    BY <2>1 DEF SKey!Done, KeyInv
  <2>4. \A t \in SKey!Writers : drafts'[t].of <= SKey!Done'
    BY <2>1, <2>2, <2>3 DEF KeyInv
  <2> QED
    BY <2>1, <2>4 DEF KeyInv, SKey!KeysWhole
<1>2. ASSUME SKey!dw_set_global_key
      PROVE  KeyInv'
  <2>1. /\ copied < KeyWords /\ copied' = copied + 1 /\ globalKey' = [globalKey EXCEPT ![copied + 1] = 1]
        /\ UNCHANGED <<logins, drafts, sent>>
    BY <1>2 DEF SKey!dw_set_global_key, SKey!TicketKey
  <2>2. SKey!Done' >= SKey!Done /\ SKey!Done \in Int /\ SKey!Done' \in Int
    BY <2>1 DEF SKey!Done, KeyInv
  <2>3. \A t \in SKey!Writers : drafts'[t].of <= SKey!Done'
    BY <2>1, <2>2 DEF KeyInv
  <2>4. globalKey' \in [1..KeyWords -> {0, 1}] /\ \A w \in 1..KeyWords : globalKey'[w] = IF w = copied + 1 THEN 1 ELSE globalKey[w]
    BY <2>1 DEF KeyInv
  <2>5. \A w \in 1..KeyWords : logins' >= 2 \/ (logins' = 1 /\ w <= copied') => globalKey'[w] = 1
    BY <2>1, <2>4 DEF KeyInv
  <2> QED
    BY <2>1, <2>3, <2>4, <2>5 DEF KeyInv, SKey!KeysWhole
<1>3. ASSUME NEW t \in SKey!Writers, SKey!Begin(t)
      PROVE  KeyInv'
  <2>1. /\ drafts' = [drafts EXCEPT ![t] = [of |-> SKey!Done, key |-> <<>>]]
        /\ UNCHANGED <<globalKey, logins, copied, sent>>
    BY <1>3 DEF SKey!Begin
  <2>2. SKey!Done' = SKey!Done /\ SKey!Done \in Int
    BY <2>1 DEF SKey!Done, KeyInv
  <2>3. [of |-> SKey!Done, key |-> <<>>] \in [of : Int, key : Seq({0, 1})]
    BY <2>2
  <2>4. drafts' \in [SKey!Writers -> [of : Int, key : Seq({0, 1})]]
    BY <2>1, <2>3 DEF KeyInv
  <2>5. \A u \in SKey!Writers : drafts'[u] = drafts[u] \/ (drafts'[u].of = SKey!Done /\ drafts'[u].key = <<>>)
    BY <2>1 DEF KeyInv
  <2> QED
    BY <2>1, <2>2, <2>4, <2>5 DEF KeyInv, SKey!KeysWhole
<1>4. ASSUME NEW t \in SKey!Writers, SKey!dw_get_global_key(t)
      PROVE  KeyInv'
  <2>1. /\ Len(drafts[t].key) < KeyWords
        /\ drafts' = [drafts EXCEPT ![t].key = Append(@, globalKey[Len(@) + 1])]
        /\ UNCHANGED <<globalKey, logins, copied, sent>>
    BY <1>4 DEF SKey!dw_get_global_key
  <2>2. SKey!Done' = SKey!Done /\ SKey!Done \in Int
    BY <2>1 DEF SKey!Done, KeyInv
  <2>3. PICK key, of : key = drafts[t].key /\ of = drafts[t].of
    OBVIOUS
  <2>4. key \in Seq({0, 1}) /\ of \in Int /\ Len(key) \in Nat /\ Len(key) < KeyWords /\ of <= SKey!Done
    BY <2>1, <2>3 DEF KeyInv
  <2>5. globalKey[Len(key) + 1] \in {0, 1}
    BY <2>4 DEF KeyInv
  <2>6. PICK longer : longer = Append(key, globalKey[Len(key) + 1])
    OBVIOUS
  <2>7. /\ longer \in Seq({0, 1}) /\ Len(longer) = Len(key) + 1
        /\ longer[Len(key) + 1] = globalKey[Len(key) + 1]
        /\ \A w \in 1..Len(key) : longer[w] = key[w]
    BY <2>4, <2>5, <2>6
  <2>8. /\ drafts' \in [SKey!Writers -> [of : Int, key : Seq({0, 1})]]
        /\ drafts'[t].of = of /\ drafts'[t].key = longer
        /\ \A u \in SKey!Writers : u # t => drafts'[u] = drafts[u]
    BY <2>1, <2>3, <2>6, <2>7 DEF KeyInv
  <2>9. of > 0 => globalKey[Len(key) + 1] = 1
    BY <2>4 DEF KeyInv, SKey!Done
  <2>10. of > 0 => \A w \in 1..Len(longer) : longer[w] = 1
    <3>1. of > 0 => \A w \in 1..Len(key) : key[w] = 1
      BY <2>3 DEF KeyInv
    <3> QED
      BY <2>4, <2>7, <2>9, <3>1
  <2>11. \A u \in SKey!Writers :
           /\ drafts'[u].of <= SKey!Done' /\ Len(drafts'[u].key) <= KeyWords
           /\ drafts'[u].of > 0 => \A w \in 1..Len(drafts'[u].key) : drafts'[u].key[w] = 1
    <3> SUFFICES ASSUME NEW u \in SKey!Writers
                 PROVE  /\ drafts'[u].of <= SKey!Done' /\ Len(drafts'[u].key) <= KeyWords
                        /\ drafts'[u].of > 0 => \A w \in 1..Len(drafts'[u].key) : drafts'[u].key[w] = 1
      OBVIOUS
    <3>1. CASE u = t
      BY <2>2, <2>4, <2>7, <2>8, <2>10, <3>1
    <3>2. CASE u # t
      BY <2>2, <2>8, <3>2 DEF KeyInv
    <3> QED
      BY <3>1, <3>2
  <2> QED
    BY <2>1, <2>8, <2>11 DEF KeyInv, SKey!KeysWhole
<1>5. ASSUME NEW t \in SKey!Writers, SKey!Send(t)
      PROVE  KeyInv'
  <2>1. /\ Len(drafts[t].key) = KeyWords /\ sent' = sent \union {drafts[t]}
        /\ drafts' = [drafts EXCEPT ![t] = SKey!NoDraft]
        /\ UNCHANGED <<globalKey, logins, copied>>
    BY <1>5 DEF SKey!Send
  <2>2. SKey!Done' = SKey!Done /\ SKey!Done \in Int
    BY <2>1 DEF SKey!Done, KeyInv
  <2>3. SKey!NoDraft \in [of : Int, key : Seq({0, 1})] /\ SKey!NoDraft.of = -1 /\ SKey!NoDraft.key = <<>>
    BY DEF SKey!NoDraft
  <2>4. SKey!Done >= -1
    BY DEF SKey!Done, KeyInv
  <2>5. /\ drafts' \in [SKey!Writers -> [of : Int, key : Seq({0, 1})]]
        /\ \A u \in SKey!Writers : drafts'[u] = drafts[u] \/ (drafts'[u].of = -1 /\ drafts'[u].key = <<>>)
    BY <2>1, <2>3 DEF KeyInv
  <2>6. drafts[t].of > 0 => drafts[t].key = [w \in 1..KeyWords |-> 1]
    <3>1. drafts[t].key \in Seq({0, 1})
      BY DEF KeyInv
    <3>2. DOMAIN drafts[t].key = 1..KeyWords
      BY <2>1, <3>1
    <3>3. drafts[t].of > 0 => \A w \in 1..KeyWords : drafts[t].key[w] = 1
      BY <2>1 DEF KeyInv
    <3>4. drafts[t].key = [w \in 1..KeyWords |-> drafts[t].key[w]]
      BY <3>1, <3>2
    <3> QED
      BY <3>3, <3>4
  <2>7. SKey!KeysWhole'
    BY <2>1, <2>6 DEF KeyInv, SKey!KeysWhole, SKey!TicketKey
  <2> QED
    BY <2>1, <2>2, <2>4, <2>5, <2>7 DEF KeyInv
<1> QED
  BY <1>1, <1>2, <1>3, <1>4, <1>5 DEF SKey!Next

-----------------------------------------------------------------------------
(* The log *)

(* Where a thread is, says what the counter and the file hold.             *)
Placed(t) ==
  LET p == printing[t]
  IN  /\ p.at \in {"enter", "entering"} => queue = 0 /\ Len(file) % LineParts = 0 /\ p.parts = 0
      /\ p.at = "entering" => p.read = 0
      /\ p.at = "write" =>
           /\ queue = 1 /\ p.parts < LineParts /\ Len(file) % LineParts = p.parts
           /\ p.parts > 0 => file[Len(file)] = p.line
      /\ p.at \in {"leave", "leaving"} => queue = 1 /\ Len(file) % LineParts = 0
      /\ p.at = "leaving" => p.read = 1

LinesWhole == \A i \in 1..Len(file) : i % LineParts # 1 => file[i] = file[i - 1]

LogTypes ==
  /\ queue \in 0..Wrap - 1 /\ prints \in Nat /\ file \in Seq(Nat)
  /\ printing \in [Threads -> [at : {"away", "wait", "enter", "entering", "write", "leave", "leaving"},
                               read : 0..Wrap - 1, line : Nat, parts : Nat]]
  /\ \A t \in Threads : printing[t].at = "wait" => printing[t].parts = 0

(* As long as no two threads came past the wait together.                  *)
LogAlone ==
  /\ \A t, u \in Printed!Inside : t = u
  /\ Printed!Inside = {} => queue = 0 /\ Len(file) % LineParts = 0
  /\ \A t \in Printed!Inside : Placed(t)
  /\ LinesWhole

LogInv == LogTypes /\ (~together => LogAlone)

(* Nobody prints, and the file is empty.                                   *)
LEMMA LogStarts == Printed!Init => LogInv
<1> SUFFICES ASSUME Printed!Init
             PROVE  LogInv
  OBVIOUS
<1>1. \A t \in Threads : printing[t] = [at |-> "away", read |-> 0, line |-> 0, parts |-> 0]
  BY DEF Printed!Init, Printed!Away
<1>2. Printed!Inside = {}
  BY <1>1 DEF Printed!Inside, Printed!At
<1>3. queue = 0 /\ file = <<>> /\ prints = 0 /\ Len(file) = 0
  BY DEF Printed!Init
<1>4. LogTypes
  BY <1>1, <1>3, LogAssumption DEF Printed!Init, LogTypes, Printed!Away
<1>5. 0 % LineParts = 0
  BY LogAssumption, SmallMod
<1> QED
  BY <1>2, <1>3, <1>4, <1>5 DEF LogInv, LogAlone, LinesWhole

(* The types, for any step of a thread.                                    *)
LEMMA LogTyped ==
  ASSUME LogInv, Printed!Next
  PROVE  LogTypes'
<1> USE LogAssumption
<1>1. PICK t \in Threads : Printed!PrintLine(t) \/ Printed!Wait(t) \/ Printed!Enter(t) \/ Printed!WritePart(t)
                           \/ Printed!Leave(t)
  BY DEF Printed!Next
<1>2. LogTypes
  BY DEF LogInv
<1>3. ASSUME Printed!PrintLine(t)
      PROVE  LogTypes'
  <2>1. /\ printing' = [printing EXCEPT ![t] = [at |-> "wait", read |-> 0, line |-> prints + 1, parts |-> 0]]
        /\ prints' = prints + 1 /\ UNCHANGED <<queue, file>>
    BY <1>3 DEF Printed!PrintLine
  <2> QED
    BY <1>2, <2>1 DEF LogTypes
<1>4. ASSUME Printed!Wait(t)
      PROVE  LogTypes'
  BY <1>2, <1>4 DEF LogTypes, Printed!Wait, Printed!Go
<1>5. ASSUME NEW from, NEW to \in {"entering", "leaving"}, Printed!Read(t, from, to)
      PROVE  LogTypes'
  BY <1>2, <1>5 DEF LogTypes, Printed!Read
<1>6. ASSUME NEW from, NEW change \in Int, NEW to \in {"write", "away"}, Printed!Count(t, from, change, to)
      PROVE  LogTypes'
  <2>1. queue' \in 0..Wrap - 1
    BY <1>2, <1>6 DEF LogTypes, Printed!Count
  <2> QED
    BY <1>2, <1>6, <2>1 DEF LogTypes, Printed!Count, Printed!Go
<1>7. ASSUME Printed!WritePart(t)
      PROVE  LogTypes'
  <2>1. printing[t].line \in Nat /\ printing[t].parts \in Nat
    BY <1>2 DEF LogTypes
  <2>2. file' \in Seq(Nat)
    BY <1>2, <1>7, <2>1 DEF LogTypes, Printed!WritePart
  <2>3. UNCHANGED <<queue, prints>>
    BY <1>7 DEF Printed!WritePart
  <2>4. PICK turn : turn = IF printing[t].parts + 1 = LineParts THEN "leave" ELSE "write"
    OBVIOUS
  <2>5. printing' = [printing EXCEPT ![t].parts = @ + 1, ![t].at = turn] /\ turn \in {"leave", "write"}
    BY <1>7, <2>4 DEF Printed!WritePart
  <2>6. /\ printing'[t].at = turn /\ printing'[t].parts = printing[t].parts + 1
        /\ printing'[t].read = printing[t].read /\ printing'[t].line = printing[t].line
        /\ \A u \in Threads : u # t => printing'[u] = printing[u]
    BY <1>2, <2>5 DEF LogTypes
  <2>7. printing' \in [Threads -> [at : {"away", "wait", "enter", "entering", "write", "leave", "leaving"},
                                  read : 0..Wrap - 1, line : Nat, parts : Nat]]
    <3>1. printing[t].parts + 1 \in Nat
      BY <2>1
    <3> QED
      BY <1>2, <2>5, <3>1 DEF LogTypes
  <2> QED
    BY <1>2, <2>2, <2>3, <2>5, <2>6, <2>7 DEF LogTypes
<1> QED
  BY <1>1, <1>3, <1>4, <1>5, <1>6, <1>7 DEF Printed!Enter, Printed!Leave

(* A thread's step, while it is alone inside or comes in alone.            *)
LEMMA LogKept ==
  ASSUME LogInv, Printed!Next
  PROVE  LogInv'
<1> USE LogAssumption
<1>1. PICK t \in Threads : Printed!PrintLine(t) \/ Printed!Wait(t) \/ Printed!Enter(t) \/ Printed!WritePart(t)
                           \/ Printed!Leave(t)
  BY DEF Printed!Next
<1>2. LogTypes /\ LogTypes'
  BY LogTyped DEF LogInv
<1> SUFFICES ASSUME ~together'
             PROVE  LogAlone'
  BY <1>2 DEF LogInv
<1>3. LogAlone /\ ~together
  <2>1. together => together'
    BY <1>1 DEF Printed!PrintLine, Printed!Wait, Printed!Enter, Printed!WritePart, Printed!Leave,
      Printed!Read, Printed!Count
  <2> QED
    BY <2>1 DEF LogInv
<1>4. \A u \in Threads : u # t => printing'[u] = printing[u]
  BY <1>1, <1>2 DEF LogTypes, Printed!PrintLine, Printed!Wait, Printed!Enter, Printed!WritePart,
     Printed!Leave,
    Printed!Read, Printed!Count, Printed!Go
<1>5. /\ \A u : u \in Printed!Inside <=> u \in Threads /\ printing[u].at \notin {"away", "wait"}
      /\ \A u : u \in Printed!Inside' <=> u \in Threads /\ printing'[u].at \notin {"away", "wait"}
  BY DEF Printed!Inside, Printed!At
<1>6. ASSUME Printed!PrintLine(t)
      PROVE  LogAlone'
  <2>1. printing[t].at = "away" /\ printing'[t].at = "wait" /\ UNCHANGED <<queue, file>>
    BY <1>2, <1>6 DEF Printed!PrintLine, Printed!At, Printed!Away, LogTypes
  <2>2. Printed!Inside' = Printed!Inside
    BY <1>4, <1>5, <2>1
  <2>3. \A u \in Printed!Inside : u # t /\ printing'[u] = printing[u]
    BY <1>4, <1>5, <2>1
  <2> QED
    BY <1>3, <2>1, <2>2, <2>3 DEF LogAlone, Placed, LinesWhole
<1>7. ASSUME Printed!Wait(t)
      PROVE  LogAlone'
  <2>1. /\ printing[t].at = "wait" /\ printing'[t].at = "enter" /\ printing'[t].parts = 0
        /\ UNCHANGED <<queue, file>> /\ queue = 0 /\ Printed!Inside = {}
    BY <1>2, <1>7 DEF Printed!Wait, Printed!At, Printed!Go, LogTypes
  <2>2. Printed!Inside' = {t}
    BY <1>4, <1>5, <2>1
  <2>3. Len(file) % LineParts = 0
    BY <1>3, <2>1 DEF LogAlone
  <2>4. Placed(t)'
    BY <2>1, <2>3 DEF Placed
  <2> QED
    BY <1>3, <2>1, <2>2, <2>4 DEF LogAlone, LinesWhole
<1> DEFINE Only == Printed!Inside = {t} /\ Placed(t) /\ LinesWhole
<1>8. ASSUME printing[t].at \notin {"away", "wait"}
      PROVE  Only
  BY <1>3, <1>5, <1>8 DEF LogAlone
<1>9. ASSUME NEW from, NEW to, <<from, to>> \in {<<"enter", "entering">>, <<"leave", "leaving">>},
             Printed!Read(t, from, to)
      PROVE  LogAlone'
  <2>1. /\ printing[t].at = from /\ printing'[t].at = to /\ printing'[t].read = queue
        /\ printing'[t].parts = printing[t].parts
        /\ UNCHANGED <<queue, file>>
    BY <1>2, <1>9 DEF Printed!Read, Printed!At, LogTypes
  <2>2. from \in {"enter", "leave"} /\ to = IF from = "enter" THEN "entering" ELSE "leaving"
    BY <1>9
  <2>3. Only
    BY <1>8, <2>1, <2>2
  <2>4. Printed!Inside' = {t}
    BY <1>4, <1>5, <2>1, <2>2, <2>3
  <2>5. Placed(t)'
    BY <2>1, <2>2, <2>3 DEF Placed
  <2> QED
    BY <2>1, <2>3, <2>4, <2>5 DEF LogAlone, LinesWhole
<1>10. ASSUME Printed!Count(t, "entering", 1, "write")
       PROVE  LogAlone'
  <2>1. /\ printing[t].at = "entering" /\ printing'[t].at = "write"
        /\ printing'[t].parts = printing[t].parts /\ file' = file /\ queue' = (printing[t].read + 1) % Wrap
    BY <1>2, <1>10 DEF Printed!Count, Printed!At, Printed!Go, LogTypes
  <2>2. Only
    BY <1>8, <2>1
  <2>3. Printed!Inside' = {t}
    BY <1>4, <1>5, <2>1, <2>2
  <2>4. queue' = 1
    <3>1. printing[t].read + 1 = 1
      BY <2>1, <2>2 DEF Placed
    <3> QED
      BY <2>1, <3>1, SmallMod
  <2>5. Placed(t)'
    BY <2>1, <2>2, <2>4 DEF Placed
  <2> QED
    BY <2>1, <2>2, <2>3, <2>5 DEF LogAlone, LinesWhole
<1>11. ASSUME Printed!Count(t, "leaving", -1, "away")
       PROVE  LogAlone'
  <2>1. /\ printing[t].at = "leaving" /\ printing'[t].at = "away"
        /\ file' = file /\ queue' = (printing[t].read + (-1)) % Wrap
    BY <1>2, <1>11 DEF Printed!Count, Printed!At, Printed!Go, LogTypes
  <2>2. Only
    BY <1>8, <2>1
  <2>3. Printed!Inside' = {}
    BY <1>4, <1>5, <2>1, <2>2
  <2>4. queue' = 0
    <3>1. printing[t].read + (-1) = 0
      BY <2>1, <2>2 DEF Placed
    <3> QED
      BY <2>1, <3>1, SmallMod
  <2>5. Len(file) % LineParts = 0
    BY <2>1, <2>2 DEF Placed
  <2> QED
    BY <2>1, <2>2, <2>3, <2>4, <2>5 DEF LogAlone, LinesWhole
<1>12. ASSUME Printed!WritePart(t)
       PROVE  LogAlone'
  <2>1. PICK p : p = printing[t]
    OBVIOUS
  <2>2. /\ p.at = "write" /\ file' = Append(file, p.line) /\ queue' = queue
        /\ printing'[t].at = IF p.parts + 1 = LineParts THEN "leave" ELSE "write"
        /\ printing'[t].parts = p.parts + 1 /\ printing'[t].line = p.line
    BY <1>2, <1>12, <2>1 DEF Printed!WritePart, Printed!At, LogTypes
  <2>3. Only /\ printing[t].at = "write"
    BY <1>8, <2>1, <2>2
  <2>4. Printed!Inside' = {t}
    BY <1>4, <1>5, <2>2, <2>3
  <2>5. /\ queue = 1 /\ p.parts < LineParts /\ p.parts \in Nat /\ Len(file) % LineParts = p.parts
        /\ p.parts > 0 => file[Len(file)] = p.line
        /\ p.line \in Nat
    BY <1>2, <2>1, <2>3 DEF Placed, LogTypes
  <2>6. /\ file \in Seq(Nat) /\ Len(file) \in Nat /\ Len(file') = Len(file) + 1
        /\ file'[Len(file) + 1] = p.line /\ \A i \in 1..Len(file) : file'[i] = file[i]
    <3>1. PICK f \in Seq(Nat), x \in Nat : f = file /\ x = p.line
      BY <1>2, <2>5 DEF LogTypes
    <3>2. /\ Len(f) \in Nat /\ Len(Append(f, x)) = Len(f) + 1
          /\ Append(f, x)[Len(f) + 1] = x /\ \A i \in 1..Len(f) : Append(f, x)[i] = f[i]
      OBVIOUS
    <3>3. file' = Append(f, x)
      BY <2>2, <3>1
    <3> QED
      BY <3>1, <3>2, <3>3
  <2>7. Len(file') % LineParts = IF p.parts + 1 = LineParts THEN 0 ELSE p.parts + 1
    <3>1. (Len(file) + 1) % LineParts = IF Len(file) % LineParts = LineParts - 1 THEN 0 ELSE (Len(file) % LineParts) + 1
      BY <2>6, NextDiv
    <3> QED
      BY <2>5, <2>6, <3>1
  <2>8. Placed(t)'
    BY <2>2, <2>5, <2>6, <2>7 DEF Placed
  <2>9. LinesWhole'
    <3> SUFFICES ASSUME NEW i \in 1..Len(file'), i % LineParts # 1
                 PROVE  file'[i] = file'[i - 1]
      BY DEF LinesWhole
    <3>1. i # 1
      BY SmallMod
    <3>2. CASE i <= Len(file)
      BY <2>3, <2>6, <3>1, <3>2 DEF LinesWhole
    <3>3. CASE i = Len(file) + 1
      <4>1. p.parts > 0
        BY <2>5, <2>6, <2>7, <3>3
      <4> QED
        BY <2>5, <2>6, <3>1, <3>3, <4>1
    <3> QED
      BY <2>6, <3>2, <3>3
  <2> QED
    BY <2>4, <2>8, <2>9 DEF LogAlone
<1> QED
  BY <1>1, <1>6, <1>7, <1>9, <1>10, <1>11, <1>12 DEF Printed!Enter, Printed!Leave

(* One at most is inside, if any two that are are the same.                *)
LEMMA LogRight == LogInv => Printed!LogCounts
<1> SUFFICES ASSUME LogInv, ~together
             PROVE  Printed!LogCounts
  BY DEF Printed!LogCounts
<1>1. LogAlone
  BY DEF LogInv
<1>2. \A t, u \in Printed!Inside : t = u
  BY <1>1 DEF LogAlone
<1>3. Printed!Inside = {} => queue = 0 /\ Len(file) % LineParts = 0
  BY <1>1 DEF LogAlone
<1>4. \A i \in 1..Len(file) : i % LineParts # 1 => file[i] = file[i - 1]
  BY <1>1 DEF LogAlone, LinesWhole
<1> QED
  BY <1>2, <1>3, <1>4 DEF Printed!LogCounts

-----------------------------------------------------------------------------
(* Kicks *)

(* The player a command is meant for is at its place, unless he left it.   *)
Command == [place : Kick!Slots, meant : Everyone, left : BOOLEAN]

KickInv ==
  /\ clients \in [Kick!Slots -> [player : Everyone \union {none}, active : BOOLEAN]]
  /\ commands \in Seq(Command)
  /\ \A c \in DOMAIN commands : commands[c].left \/ clients[commands[c].place].player = commands[c].meant
  /\ Kick!KicksTheOneMeant

(* No command was given.                                                   *)
LEMMA KickStarts == Kick!Init => KickInv
BY NoneAssumption DEF Kick!Init, KickInv, Kick!Empty, Kick!KicksTheOneMeant

(* A client that leaves marks the commands for its place, no more.         *)
LEMMA KickMoved ==
  ASSUME NEW i \in Kick!Slots, KickInv
  PROVE  /\ Kick!Moved(i) \in Seq(Command)
         /\ DOMAIN Kick!Moved(i) = DOMAIN commands /\ Len(Kick!Moved(i)) = Len(commands)
         /\ \A c \in DOMAIN commands :
              /\ Kick!Moved(i)[c].place = commands[c].place /\ Kick!Moved(i)[c].meant = commands[c].meant
              /\ (commands[c].left \/ commands[c].place = i => Kick!Moved(i)[c].left)
<1>1. commands \in Seq(Command)
  BY DEF KickInv
<1>2. \A c \in DOMAIN commands : commands[c] \in Command
  BY <1>1
<1>3. \A c \in DOMAIN commands : Kick!Moved(i)[c] \in Command
  BY <1>2 DEF Kick!Moved, Command
<1>4. DOMAIN Kick!Moved(i) = DOMAIN commands
  BY DEF Kick!Moved
<1>5. DOMAIN commands = 1..Len(commands) /\ Len(commands) \in Nat
  BY <1>1
<1>6. Kick!Moved(i) \in Seq(Command) /\ Len(Kick!Moved(i)) = Len(commands)
  BY <1>3, <1>4, <1>5 DEF Kick!Moved
<1>7. ASSUME NEW c \in DOMAIN commands
      PROVE  /\ Kick!Moved(i)[c].place = commands[c].place /\ Kick!Moved(i)[c].meant = commands[c].meant
             /\ (commands[c].left \/ commands[c].place = i => Kick!Moved(i)[c].left)
  BY <1>2 DEF Kick!Moved
<1> QED
  BY <1>4, <1>6, <1>7

(* Each client that comes and goes, and each command.                      *)
LEMMA KickKept ==
  ASSUME KickInv, Kick!Next
  PROVE  KickInv'
<1>0. \A c \in DOMAIN commands : commands[c] \in Command
  BY DEF KickInv
<1> USE DEF Kick!Slots, Command
<1>1. ASSUME NEW p \in Everyone, Kick!NPA_KickClient(p)
      PROVE  KickInv'
  <2>1. CASE Kick!Number(p) = {}
    <3>1. commands' = commands
      BY <1>1, <2>1 DEF Kick!NPA_KickClient, KickInv
    <3> QED
      BY <1>1, <3>1 DEF Kick!NPA_KickClient, KickInv, Kick!KicksTheOneMeant
  <2>2. CASE Kick!Number(p) # {}
    <3>1. PICK i : i = CHOOSE j \in Kick!Number(p) : TRUE
      OBVIOUS
    <3>2. i \in Kick!Slots /\ clients[i].player = p
      BY <2>2, <3>1 DEF Kick!Number
    <3>3. commands' = Append(commands, [place |-> i, meant |-> p, left |-> FALSE])
      BY <1>1, <2>2, <3>1 DEF Kick!NPA_KickClient
    <3>4. [place |-> i, meant |-> p, left |-> FALSE] \in Command
      BY <3>2
    <3>5. commands' \in Seq(Command) /\ Len(commands') = Len(commands) + 1
      BY <3>3, <3>4 DEF KickInv
    <3>6. \A c \in DOMAIN commands' : commands'[c] = IF c \in DOMAIN commands THEN commands[c] ELSE [place |-> i, meant |-> p, left |-> FALSE]
      BY <3>3, <3>4 DEF KickInv
    <3>7. clients' = clients /\ dropped' = dropped
      BY <1>1 DEF Kick!NPA_KickClient
    <3>8. \A c \in DOMAIN commands' : commands'[c].left \/ clients'[commands'[c].place].player = commands'[c].meant
      BY <3>2, <3>6, <3>7 DEF KickInv
    <3> QED
      BY <3>5, <3>7, <3>8 DEF KickInv, Kick!KicksTheOneMeant
  <2> QED
    BY <2>1, <2>2
<1>2. ASSUME NEW p \in Everyone, NEW i \in Kick!Slots, Kick!Join(p, i)
      PROVE  KickInv'
  <2>1. \A c \in DOMAIN commands : commands[c].place = i => commands[c].left
    BY <1>0, <1>2, NoneAssumption DEF Kick!Join, KickInv
  <2>2. \A j \in Kick!Slots : j # i => clients'[j] = clients[j]
    BY <1>2 DEF Kick!Join, KickInv
  <2> QED
    BY <1>0, <1>2, <2>1, <2>2 DEF Kick!Join, KickInv, Kick!KicksTheOneMeant
<1>3. ASSUME NEW i \in Kick!Slots, Kick!Begin(i)
      PROVE  KickInv'
  <2>1. \A j \in Kick!Slots : clients'[j].player = clients[j].player
    BY <1>3 DEF Kick!Begin, KickInv
  <2>2. commands' = commands /\ dropped' = dropped /\ clients' = [clients EXCEPT ![i].active = TRUE]
    BY <1>3 DEF Kick!Begin
  <2>3. clients' \in [Kick!Slots -> [player : Everyone \union {none}, active : BOOLEAN]]
    BY <2>2 DEF KickInv
  <2>4. \A c \in DOMAIN commands : commands[c].left \/ clients'[commands[c].place].player = commands[c].meant
    BY <1>0, <2>1 DEF KickInv
  <2>5. Kick!KicksTheOneMeant'
    BY <2>2 DEF KickInv, Kick!KicksTheOneMeant
  <2> QED
    BY <2>2, <2>3, <2>4, <2>5 DEF KickInv
<1>4. ASSUME NEW i \in Kick!Slots, Kick!Leave(i)
      PROVE  KickInv'
  <2>1. \A j \in Kick!Slots : j # i => clients'[j] = clients[j]
    BY <1>4 DEF Kick!Leave, KickInv
  <2>2. clients' \in [Kick!Slots -> [player : Everyone \union {none}, active : BOOLEAN]]
    BY <1>4 DEF Kick!Leave, KickInv, Kick!Empty
  <2>3. commands' = Kick!Moved(i) /\ dropped' = dropped
    BY <1>4 DEF Kick!Leave
  <2>4. /\ commands' \in Seq(Command) /\ DOMAIN commands' = DOMAIN commands
        /\ \A c \in DOMAIN commands :
             /\ commands'[c].place = commands[c].place /\ commands'[c].meant = commands[c].meant
             /\ commands[c].left \/ commands[c].place = i => commands'[c].left
    BY <2>3, KickMoved
  <2>5. \A c \in DOMAIN commands' : commands'[c].left \/ clients'[commands'[c].place].player = commands'[c].meant
    BY <1>0, <2>1, <2>4 DEF KickInv
  <2> QED
    BY <2>2, <2>3, <2>4, <2>5 DEF KickInv, Kick!KicksTheOneMeant
<1>5. ASSUME Kick!DropClient
      PROVE  KickInv'
  <2>1. PICK i : i = Head(commands).place
    OBVIOUS
  <2>2. commands # <<>> /\ commands \in Seq(Command)
    BY <1>5 DEF Kick!DropClient, KickInv
  <2>3. 1 \in DOMAIN commands /\ Head(commands) = commands[1] /\ i \in Kick!Slots
    BY <2>1, <2>2, <1>0
  <2>4. /\ clients' = [clients EXCEPT ![i] = Kick!Empty]
        /\ commands' = Tail(Kick!Moved(i))
        /\ dropped' = dropped \union {[command |-> Head(commands), player |-> clients[i].player]}
    BY <1>5, <2>1 DEF Kick!DropClient
  <2>5. \A j \in Kick!Slots : j # i => clients'[j] = clients[j]
    BY <2>4 DEF KickInv
  <2>6. clients' \in [Kick!Slots -> [player : Everyone \union {none}, active : BOOLEAN]]
    BY <2>4 DEF KickInv, Kick!Empty
  <2>7. /\ commands' \in Seq(Command) /\ Len(commands') = Len(commands) - 1
        /\ \A c \in DOMAIN commands' : c + 1 \in DOMAIN commands /\ commands'[c] = Kick!Moved(i)[c + 1]
    BY <2>2, <2>3, <2>4, KickMoved
  <2>8. \A c \in DOMAIN commands' : commands'[c].left \/ clients'[commands'[c].place].player = commands'[c].meant
    <3> SUFFICES ASSUME NEW c \in DOMAIN commands'
                 PROVE  commands'[c].left \/ clients'[commands'[c].place].player = commands'[c].meant
      OBVIOUS
    <3>1. /\ c + 1 \in DOMAIN commands
          /\ commands'[c].place = commands[c + 1].place /\ commands'[c].meant = commands[c + 1].meant
          /\ (commands[c + 1].left \/ commands[c + 1].place = i => commands'[c].left)
      BY <2>3, <2>7, KickMoved
    <3> QED
      BY <1>0, <2>5, <3>1 DEF KickInv
  <2>9. clients[i].player = commands[1].meant \/ commands[1].left
    BY <2>1, <2>3 DEF KickInv
  <2>10. Kick!KicksTheOneMeant'
    BY <2>3, <2>4, <2>9 DEF KickInv, Kick!KicksTheOneMeant
  <2> QED
    BY <2>6, <2>7, <2>8, <2>10 DEF KickInv
<1> QED
  BY <1>1, <1>2, <1>3, <1>4, <1>5 DEF Kick!Next

-----------------------------------------------------------------------------
(* The login *)

(* What is held is what the call at hand releases if it fails, and later   *)
(* names of drives at most. A letter is of a login there was, and later    *)
(* questions are answered by later logins. Unless its answer had no room   *)
(* or its array was gone, a field is what is said of it at the end, and so *)
(* is what has come of an answer and what is to come.                      *)
Asked == {"GetSessionID", "GetUserName", "GetUserID"}
Letters == [login : Nat, question : Asked \union {"0", ""}, place : Nat, last : BOOLEAN]

OfLogin(text, l) == \A k \in 1..Len(text) : text[k].login = 0 \/ text[k].login = l
UpTo(fields, l) == \A i \in 1..Len(fields) : \A k \in 1..Len(fields[i]) : fields[i][k].login <= l
InOrder(fields) ==
  \A i \in 1..Len(fields) : \A j \in i..Len(fields) : \A k \in 1..Len(fields[i]) : \A m \in 1..Len(fields[j]) :
    fields[j][m].login = 0 \/ fields[i][k].login <= fields[j][m].login

AuthHeld ==
  /\ at \in {"com", "drives", "ask", "receive", "exited", "done"}
  /\ at = "com" => n \in 1..6 /\ held = Auth!Released(n)
  /\ at = "drives" => held \subseteq {"services", "locator", "enumerator", "com", "name"}
  /\ at \in {"ask", "receive", "done"} => held \subseteq {"name"}

AuthTypes ==
  /\ launcher \in Nat \ {0} /\ coming \in Seq(Letters) /\ buf \in Seq(Letters) /\ identity \in Seq(Seq(Letters))
  /\ asked \in [empty : SUBSET (1..4), unfit : SUBSET (1..4)]
  /\ at \in {"com", "drives"} => identity = <<>> /\ asked.empty = {} /\ asked.unfit = {}
  /\ at \in {"ask", "receive"} => n \in 1..4 /\ Len(identity) = n - 1
  /\ at = "ask" => asked.empty \union asked.unfit \subseteq 1..(n - 1)
  /\ at = "receive" => asked.empty \union asked.unfit \subseteq 1..n
  /\ at = "done" => Len(identity) = 4
  /\ at = "exited" => identity = <<>>

AuthOrder == InOrder(identity) /\ UpTo(identity, launcher)

FieldRight(i) == IF i \in asked.empty THEN identity[i] \in {<<>>, <<Auth!Zero>>} ELSE Auth!Whole(i)
NameFits == 2 \notin asked.unfit => Len(identity[2]) < NameSize
AuthFields ==
  /\ Len(identity) >= 2 => NameFits
  /\ \A i \in 1..Len(identity) : i \notin asked.unfit /\ (Len(identity) = 4 => 2 \notin asked.unfit) => FieldRight(i)

Came(l, s) ==
  /\ Len(buf) + Len(coming) = s
  /\ \A k \in 1..Len(buf) : buf[k] = Auth!Letter(l, Auth!Questions[n], k, k = s)
  /\ \A k \in 1..Len(coming) : coming[k] = Auth!Letter(l, Auth!Questions[n], Len(buf) + k, Len(buf) + k = s)
Coming(l, s) ==
  /\ UpTo(identity, l) /\ OfLogin(buf, l) /\ OfLogin(coming, l)
  /\ n \in asked.empty <=> s = 0
  /\ n \notin asked.unfit => s < Capacity /\ s < Auth!Room[n] /\ Came(l, s)
AuthComing == at = "receive" => \E l \in 1..launcher, s \in Nat : Coming(l, s)

AuthInv == AuthHeld /\ AuthTypes /\ AuthOrder /\ AuthFields /\ AuthComing

(* Nothing is held, and nothing was asked.                                 *)
LEMMA AuthStarts == Auth!Init => AuthInv
<1> SUFFICES ASSUME Auth!Init
             PROVE  AuthInv
  OBVIOUS
<1>1. AuthHeld
  BY DEF Auth!Init, AuthHeld, Auth!Released
<1>2. AuthTypes
  BY LoginAssumption DEF Auth!Init, AuthTypes
<1>3. identity = <<>> /\ at = "com"
  BY DEF Auth!Init
<1>4. AuthOrder /\ AuthFields /\ AuthComing
  BY <1>3 DEF AuthOrder, InOrder, UpTo, AuthFields, AuthComing
<1> QED
  BY <1>1, <1>2, <1>4 DEF AuthInv

(* Each call that succeeds gets what the next one releases.                *)
LEMMA AuthHolds ==
  ASSUME AuthHeld, Auth!Next
  PROVE  AuthHeld'
<1>1. CASE Auth!Call
  <2>1. at = "com" /\ n \in 1..6 /\ held = Auth!Released(n)
    BY <1>1 DEF Auth!Call, AuthHeld
  <2>2. CASE held' = held \ Auth!Released(n) /\ n' = 1 /\ at' = "ask"
    BY <2>1, <2>2 DEF AuthHeld
  <2>3. CASE held' = held \union Auth!Gets[n] /\ n' = n + 1 /\ at' = IF n = Len(Auth!Gets) THEN "drives" ELSE "com"
    <3>1. Len(Auth!Gets) = 6
      BY DEF Auth!Gets
    <3>2. CASE n = 6
      BY <2>1, <2>3, <3>1, <3>2 DEF AuthHeld, Auth!Gets, Auth!Released
    <3>3. CASE n \in 1..5
      <4>1. held' = Auth!Released(n + 1)
        <5>1. CASE n = 1
          BY <2>1, <2>3, <5>1 DEF Auth!Gets, Auth!Released
        <5>2. CASE n = 2
          BY <2>1, <2>3, <5>2 DEF Auth!Gets, Auth!Released
        <5>3. CASE n = 3
          BY <2>1, <2>3, <5>3 DEF Auth!Gets, Auth!Released
        <5>4. CASE n = 4
          BY <2>1, <2>3, <5>4 DEF Auth!Gets, Auth!Released
        <5>5. CASE n = 5
          BY <2>1, <2>3, <5>5 DEF Auth!Gets, Auth!Released
        <5> QED
          BY <3>3, <5>1, <5>2, <5>3, <5>4, <5>5
      <4>2. at' = "com" /\ n' = n + 1 /\ n' \in 1..6
        BY <2>1, <2>3, <3>1, <3>3
      <4>3. held' = Auth!Released(n)'
        BY <4>1, <4>2 DEF Auth!Released
      <4> QED
        BY <4>2, <4>3 DEF AuthHeld
    <3> QED
      BY <2>1, <3>2, <3>3
  <2> QED
    BY <1>1, <2>2, <2>3 DEF Auth!Call
<1>2. CASE Auth!Drive
  <2>1. at = "drives" /\ at' \in {"drives", "exited"} /\ held' \subseteq held \union {"name"}
    BY <1>2 DEF Auth!Drive
  <2> QED
    BY <2>1 DEF AuthHeld
<1>3. CASE Auth!NoDrive
  BY <1>3 DEF AuthHeld, Auth!NoDrive
<1>4. CASE Auth!LogIn
  <2>1. UNCHANGED <<at, n, held>>
    BY <1>4 DEF Auth!LogIn, Auth!machine
  <2> QED
    BY <2>1 DEF AuthHeld, Auth!Released
<1>5. CASE Auth!NoHandle \/ Auth!RequestInfoFromLauncher \/ Auth!AuthDataReceived \/ Auth!Answered
  <2>1. held' = held /\ at \in {"ask", "receive"} /\ at' \in {"ask", "receive", "done"}
    BY <1>5 DEF Auth!NoHandle, Auth!RequestInfoFromLauncher, Auth!AuthDataReceived, Auth!Answered, Auth!Store,
                Auth!machine
  <2> QED
    BY <2>1 DEF AuthHeld
<1>6. CASE Auth!Fail
  BY <1>6 DEF AuthHeld, Auth!Fail
<1> QED
  BY <1>1, <1>2, <1>3, <1>4, <1>5, <1>6 DEF Auth!Next

(* What a letter is.                                                       *)
LEMMA LetterIs ==
  ASSUME NEW l \in Nat, NEW q \in Asked, NEW k \in Nat, NEW b \in BOOLEAN
  PROVE  Auth!Letter(l, q, k, b) \in Letters /\ Auth!Letter(l, q, k, b).login = l
BY DEF Auth!Letter, Letters

(* What the code and other memory put in place of letters.                 *)
LEMMA NoLogins ==
  /\ Auth!Zero \in Letters /\ Auth!Zero.login = 0 /\ Auth!Other \in Letters /\ Auth!Other.login = 0
  /\ Auth!Zero # Auth!Other /\ <<Auth!Zero>> \in Seq(Letters) /\ <<Auth!Other>> \in Seq(Letters)
<1>1. Auth!Zero \in Letters /\ Auth!Zero.login = 0 /\ Auth!Other \in Letters /\ Auth!Other.login = 0
  BY DEF Auth!Zero, Auth!Other, Auth!Letter, Letters
<1>2. Auth!Zero.place = 1 /\ Auth!Other.place = 0
  BY DEF Auth!Zero, Auth!Other, Auth!Letter
<1> QED
  BY <1>1, <1>2

(* A question is one of three.                                             *)
LEMMA QuestionIs == \A i \in 1..4 : Auth!Questions[i] \in Asked
<1>1. \A i \in 1..4 : i = 1 \/ i = 2 \/ i = 3 \/ i = 4
  OBVIOUS
<1>2. /\ Auth!Questions[1] \in Asked /\ Auth!Questions[2] \in Asked
      /\ Auth!Questions[3] \in Asked /\ Auth!Questions[4] \in Asked
  BY DEF Auth!Questions, Asked
<1> QED
  BY <1>1, <1>2

(* A text without an end is of the same login, or nobody's.                *)
LEMMA EndsOf ==
  ASSUME NEW text \in Seq(Letters), NEW l \in Nat, OfLogin(text, l), NEW from \in Nat, NEW s \in Auth!Ends(text, from)
  PROVE  s \in Seq(Letters) /\ OfLogin(s, l)
<1>1. PICK cut \in from..Len(text) : s = Append(SubSeq(text, 1, cut), Auth!Other)
  BY DEF Auth!Ends
<1>2. Len(text) \in Nat /\ cut \in Nat /\ cut <= Len(text)
  BY <1>1
<1>3. PICK t : t = SubSeq(text, 1, cut)
  OBVIOUS
<1>4. t \in Seq(Letters) /\ Len(t) = cut /\ \A k \in 1..cut : t[k] = text[k]
  BY <1>2, <1>3
<1>5. PICK o \in Letters : o = Auth!Other /\ o.login = 0
  BY NoLogins
<1>6. s = Append(t, o)
  BY <1>1, <1>3, <1>5
<1>7. s \in Seq(Letters) /\ Len(s) = cut + 1 /\ s[cut + 1] = o /\ \A k \in 1..cut : s[k] = text[k]
  BY <1>2, <1>4, <1>6
<1>8. OfLogin(s, l)
  <2> SUFFICES ASSUME NEW k \in 1..cut + 1
               PROVE  s[k].login = 0 \/ s[k].login = l
    BY <1>7 DEF OfLogin
  <2>1. CASE k = cut + 1
    BY <1>5, <1>7, <2>1
  <2>2. CASE k # cut + 1
    <3>1. k \in 1..cut /\ k \in 1..Len(text)
      BY <1>2, <2>2
    <3> QED
      BY <1>7, <3>1 DEF OfLogin
  <2> QED
    BY <2>1, <2>2
<1> QED
  BY <1>7, <1>8

(* What is kept of a text is of its login, or nobody's.                    *)
LEMMA KeptOf ==
  ASSUME n \in 1..4, NEW text \in Seq(Letters), NEW l \in Nat, OfLogin(text, l), NEW field \in Auth!Kept(text)
  PROVE  field \in Seq(Letters) /\ OfLogin(field, l)
<1>1. CASE field = text
  BY <1>1
<1>2. CASE n = 1 /\ field \in Auth!Ends(text, SessionSize)
  BY <1>2, EndsOf, LoginAssumption
<1>3. CASE n = 2 /\ ~(Len(text) < NameSize) /\ field \in Auth!Ends(SubSeq(text, 1, NameSize), NameSize)
  <2>1. PICK t : t = SubSeq(text, 1, NameSize)
    OBVIOUS
  <2>2. Len(text) \in Nat /\ NameSize \in Nat /\ NameSize <= Len(text)
    BY <1>3, LoginAssumption
  <2>3. t \in Seq(Letters) /\ Len(t) = NameSize /\ \A k \in 1..NameSize : t[k] = text[k]
    BY <2>1, <2>2
  <2>4. OfLogin(t, l)
    BY <2>2, <2>3 DEF OfLogin
  <2> QED
    BY <1>3, <2>1, <2>2, <2>3, <2>4, EndsOf
<1>4. CASE field = <<>>
  BY <1>4 DEF OfLogin
<1>5. \/ field = text \/ field = <<>> \/ (n = 1 /\ field \in Auth!Ends(text, SessionSize))
      \/ (n = 2 /\ ~(Len(text) < NameSize) /\ field \in Auth!Ends(SubSeq(text, 1, NameSize), NameSize))
  BY DEF Auth!Kept
<1> QED
  BY <1>1, <1>2, <1>3, <1>4, <1>5

(* A field of a later login goes behind those of earlier ones.             *)
LEMMA LaterGoesBehind ==
  ASSUME NEW fields \in Seq(Seq(Letters)), NEW l \in Nat, InOrder(fields), UpTo(fields, l),
         NEW field \in Seq(Letters), OfLogin(field, l), NEW all, all = Append(fields, field)
  PROVE  InOrder(all) /\ UpTo(all, l)
<1>1. PICK U : U = Seq(Letters)
  OBVIOUS
<1>2. fields \in Seq(U) /\ field \in U
  BY <1>1
<1>3. /\ all \in Seq(U) /\ Len(all) = Len(fields) + 1 /\ all[Len(fields) + 1] = field
      /\ \A i \in 1..Len(fields) : all[i] = fields[i]
  BY <1>2
<1>4. PICK c \in Nat : c = Len(fields)
  BY <1>2
<1>5. UpTo(all, l)
  <2> SUFFICES ASSUME NEW i \in 1..c + 1, NEW k \in 1..Len(all[i])
               PROVE  all[i][k].login <= l
    BY <1>3, <1>4 DEF UpTo
  <2>1. CASE i \in 1..c
    BY <1>3, <1>4, <2>1 DEF UpTo
  <2>2. CASE i = c + 1
    BY <1>3, <1>4, <2>2 DEF OfLogin
  <2> QED
    BY <1>4, <2>1, <2>2
<1>6. InOrder(all)
  <2> SUFFICES ASSUME NEW i \in 1..c + 1, NEW j \in i..c + 1, NEW k \in 1..Len(all[i]), NEW m \in 1..Len(all[j])
               PROVE  all[j][m].login = 0 \/ all[i][k].login <= all[j][m].login
    BY <1>3, <1>4 DEF InOrder
  <2>1. CASE j \in 1..c
    <3>1. i \in 1..c /\ j \in i..c
      BY <1>4, <2>1
    <3> QED
      BY <1>3, <1>4, <3>1 DEF InOrder
  <2>2. CASE j = c + 1
    <3>1. all[j][m].login = 0 \/ all[j][m].login = l
      BY <1>3, <1>4, <2>2 DEF OfLogin
    <3>2. all[i][k].login <= l
      BY <1>3, <1>4, <1>5 DEF UpTo
    <3> QED
      BY <3>1, <3>2
  <2> QED
    BY <1>4, <2>1, <2>2
<1> QED
  BY <1>5, <1>6

(* The name that fits has an end, and no more than it is obfuscated; and   *)
(* what is hit is nobody's.                                                *)
LEMMA ObfuscatedOf ==
  ASSUME NEW fields \in Seq(Seq(Letters)), NEW l \in Nat, Len(fields) = 4, InOrder(fields), UpTo(fields, l),
         NEW all \in Auth!Obfuscated(fields)
  PROVE  /\ all \in Seq(Seq(Letters)) /\ Len(all) = 4 /\ InOrder(all) /\ UpTo(all, l)
         /\ (Len(fields[2]) < NameSize /\ \A k \in 1..Len(fields[2]) : fields[2][k] # Auth!Other) => all = fields
<1>1. (Len(fields[2]) < NameSize /\ \A k \in 1..Len(fields[2]) : fields[2][k] # Auth!Other) => all = fields
  <2>1. fields[2] \in Seq(Letters) /\ Len(fields[2]) \in Nat /\ NameSize \in Nat
    <3>1. PICK U : U = Seq(Letters)
      OBVIOUS
    <3>2. fields[2] \in U
      <4>1. 2 \in 1..Len(fields) /\ fields \in Seq(U)
        BY <3>1
      <4> QED
        BY <4>1, ElementOfSeq
    <3> QED
      BY <3>1, <3>2, LoginAssumption
  <2> QED
    BY <2>1 DEF Auth!Obfuscated
<1>2. CASE all = fields
  BY <1>1, <1>2
<1>3. CASE \E hit \in SUBSET (1..4) : all = [i \in 1..4 |-> IF i \in hit THEN <<Auth!Other>> ELSE fields[i]]
  <2>1. PICK hit : all = [i \in 1..4 |-> IF i \in hit THEN <<Auth!Other>> ELSE fields[i]]
    BY <1>3
  <2>2. PICK o : o = <<Auth!Other>>
    OBVIOUS
  <2>3. o \in Seq(Letters) /\ Len(o) = 1 /\ o[1].login = 0
    BY <2>2, NoLogins
  <2>30. Len(o) = 1
    BY <2>3
  <2>31. o[1].login = 0
    BY <2>3
  <2>4. PICK U : U = Seq(Letters)
    OBVIOUS
  <2>5. fields \in Seq(U) /\ o \in U
    BY <2>3, <2>4
  <2>6. \A i \in 1..4 : fields[i] \in U
    BY <2>5, ElementOfSeq
  <2>7. all \in Seq(U) /\ Len(all) = 4 /\ \A i \in 1..4 : all[i] = IF i \in hit THEN o ELSE fields[i]
    <3>1. all = [i \in 1..4 |-> IF i \in hit THEN o ELSE fields[i]]
      BY <2>1, <2>2
    <3>2. \A i \in 1..4 : (IF i \in hit THEN o ELSE fields[i]) \in U
      BY <2>5, <2>6
    <3> QED
      BY <3>1, <3>2
  <2>8. UpTo(all, l)
    <3> SUFFICES ASSUME NEW i \in 1..4, NEW k \in 1..Len(all[i])
                 PROVE  all[i][k].login <= l
      BY <2>7 DEF UpTo
    <3>1. CASE i \in hit
      <4>0. all[i] = o
        BY <2>7, <3>1
      <4>1. Len(all[i]) = 1
        BY <2>30, <4>0
      <4>2. k = 1
        BY <4>1
      <4>3. all[i][k].login = 0
        BY <2>31, <4>0, <4>2
      <4> QED
        BY <4>3
    <3>2. CASE i \notin hit
      BY <2>7, <3>2 DEF UpTo
    <3> QED
      BY <3>1, <3>2
  <2>9. InOrder(all)
    <3> SUFFICES ASSUME NEW i \in 1..4, NEW j \in i..4, NEW k \in 1..Len(all[i]), NEW m \in 1..Len(all[j])
                 PROVE  all[j][m].login = 0 \/ all[i][k].login <= all[j][m].login
      BY <2>7 DEF InOrder
    <3>0. j \in 1..4
      OBVIOUS
    <3>1. CASE j \in hit
      <4>0. all[j] = o
        BY <2>7, <3>0, <3>1
      <4>1. Len(all[j]) = 1
        BY <2>30, <4>0
      <4>2. m = 1
        BY <4>1
      <4> QED
        BY <2>31, <4>0, <4>2
    <3>2. CASE j \notin hit /\ i \in hit
      <4>0. all[i] = o /\ all[j] = fields[j]
        BY <2>7, <3>0, <3>2
      <4>1. Len(all[i]) = 1
        BY <2>30, <4>0
      <4>5. k = 1
        BY <4>1
      <4>2. all[j][m].login \in Nat
        <5>1. fields[j] \in Seq(Letters)
          BY <2>4, <2>6, <3>0
        <5>2. fields[j][m] \in Letters
          BY <4>0, <5>1, ElementOfSeq
        <5> QED
          BY <4>0, <5>2 DEF Letters
      <4>6. all[i][k].login = 0
        BY <2>31, <4>0, <4>5
      <4> QED
        BY <4>2, <4>6
    <3>3. CASE j \notin hit /\ i \notin hit
      BY <2>7, <3>0, <3>3 DEF InOrder
    <3> QED
      BY <3>1, <3>2, <3>3
  <2> QED
    BY <1>1, <2>4, <2>7, <2>8, <2>9
<1> QED
  BY <1>2, <1>3 DEF Auth!Obfuscated

(* A text that fits is kept as it is, but for the number of a "0".         *)
LEMMA KeptWhole ==
  ASSUME n \in 1..4, NEW text \in Seq(Letters), n \in {1, 2} => Len(text) < Auth!Room[n],
         NEW field \in Auth!Kept(text)
  PROVE  field = text \/ (text = <<Auth!Zero>> /\ field = <<>>)
<1>1. CASE n = 1
  <2>1. Len(text) < SessionSize
    BY <1>1 DEF Auth!Room
  <2> QED
    BY <1>1, <2>1 DEF Auth!Kept
<1>2. CASE n = 2
  <2>1. Len(text) < NameSize
    BY <1>2 DEF Auth!Room
  <2> QED
    BY <1>2, <2>1 DEF Auth!Kept
<1>3. CASE n \notin {1, 2}
  <2>1. field = IF text = <<Auth!Zero>> THEN <<>> ELSE text
    BY <1>3 DEF Auth!Kept
  <2> QED
    BY <2>1
<1> QED
  BY <1>1, <1>2, <1>3

(* What is stored goes behind the fields there are; those, if the name     *)
(* fits, stay what they were.                                              *)
LEMMA StoredBehind ==
  ASSUME AuthTypes, AuthOrder, at \in {"ask", "receive"}, NEW l \in 1..launcher, UpTo(identity, l),
         NEW text \in Seq(Letters), OfLogin(text, l), Auth!Store(text)
  PROVE  /\ identity' \in Seq(Seq(Letters)) /\ Len(identity') = n /\ InOrder(identity') /\ UpTo(identity', l)
         /\ \E field \in Auth!Kept(text), all \in Seq(Seq(Letters)) :
              /\ field \in Seq(Letters) /\ Len(all) = n /\ all[n] = field
              /\ \A i \in 1..(n - 1) : all[i] = identity[i]
              /\ n # 4 => identity' = all
              /\ (n = 4 /\ Len(identity[2]) < NameSize /\ \A k \in 1..Len(identity[2]) : identity[2][k] # Auth!Other)
                    => identity' = all
<1>1. n \in 1..4 /\ Len(identity) = n - 1 /\ identity \in Seq(Seq(Letters)) /\ l \in Nat
  BY DEF AuthTypes
<1>2. PICK field \in Auth!Kept(text) :
        \E all : /\ all = Append(identity, field)
                 /\ identity' \in IF n = 4 THEN Auth!Obfuscated(all) ELSE {all}
  BY DEF Auth!Store
<1>3. field \in Seq(Letters) /\ OfLogin(field, l)
  BY <1>1, KeptOf
<1>4. InOrder(identity)
  BY DEF AuthOrder
<1>8. PICK all : /\ all = Append(identity, field)
                 /\ identity' \in IF n = 4 THEN Auth!Obfuscated(all) ELSE {all}
  BY <1>2
<1>5. /\ all \in Seq(Seq(Letters)) /\ Len(all) = n /\ all[n] = field
      /\ \A i \in 1..(n - 1) : all[i] = identity[i]
      /\ InOrder(all) /\ UpTo(all, l)
  <2>1. /\ all \in Seq(Seq(Letters)) /\ Len(all) = Len(identity) + 1 /\ all[Len(identity) + 1] = field
        /\ \A i \in 1..Len(identity) : all[i] = identity[i]
        /\ InOrder(all) /\ UpTo(all, l)
    <3>1. all = Append(identity, field)
      BY <1>8
    <3>2. identity \in Seq(Seq(Letters)) /\ l \in Nat /\ UpTo(identity, l)
      BY <1>1
    <3>3. InOrder(all) /\ UpTo(all, l)
      BY <1>3, <1>4, <3>1, <3>2, LaterGoesBehind
    <3>4. PICK U : U = Seq(Letters)
      OBVIOUS
    <3>5. identity \in Seq(U) /\ field \in U
      BY <1>3, <3>2, <3>4
    <3>6. /\ all \in Seq(U) /\ Len(all) = Len(identity) + 1 /\ all[Len(identity) + 1] = field
          /\ \A i \in 1..Len(identity) : all[i] = identity[i]
      BY <3>1, <3>5
    <3> QED
      BY <3>3, <3>4, <3>6
  <2>2. Len(identity) + 1 = n /\ 1..Len(identity) = 1..(n - 1)
    BY <1>1
  <2> QED
    BY <2>1, <2>2
<1>6. CASE n # 4
  <2>1. identity' = all
    BY <1>6, <1>8
  <2> QED
    BY <1>2, <1>3, <1>5, <1>6, <2>1
<1>7. CASE n = 4
  <2>1. identity' \in Auth!Obfuscated(all) /\ Len(all) = 4
    BY <1>5, <1>7, <1>8
  <2>2. all[2] = identity[2]
    BY <1>5, <1>7
  <2>3. /\ identity' \in Seq(Seq(Letters)) /\ Len(identity') = 4 /\ InOrder(identity') /\ UpTo(identity', l)
        /\ (Len(all[2]) < NameSize /\ \A k \in 1..Len(all[2]) : all[2][k] # Auth!Other) => identity' = all
    BY <1>1, <1>5, <2>1, ObfuscatedOf
  <2> QED
    BY <1>2, <1>3, <1>5, <1>7, <2>2, <2>3
<1> QED
  BY <1>6, <1>7

(* What an answer is, letter by letter.                                    *)
LEMMA AnswerIs ==
  ASSUME NEW l \in Nat, NEW q \in Asked, NEW s \in Nat
  PROVE  /\ Auth!Answer(l, q, s) \in Seq(Letters) /\ Len(Auth!Answer(l, q, s)) = s
         /\ \A k \in 1..s : Auth!Answer(l, q, s)[k] = Auth!Letter(l, q, k, k = s)
         /\ \A k \in 1..s : Auth!Answer(l, q, s)[k].login = l
<1>1. \A k \in 1..s : Auth!Letter(l, q, k, k = s) \in Letters /\ Auth!Letter(l, q, k, k = s).login = l
  <2> TAKE k \in 1..s
  <2>1. k \in Nat
    OBVIOUS
  <2>2. CASE k = s
    <3>1. (k = s) = TRUE
      BY <2>2
    <3>2. Auth!Letter(l, q, k, TRUE) \in Letters /\ Auth!Letter(l, q, k, TRUE).login = l
      BY <2>1, LetterIs
    <3> QED
      BY <3>1, <3>2, Zenon
  <2>3. CASE k # s
    <3>1. (k = s) = FALSE
      BY <2>3
    <3>2. Auth!Letter(l, q, k, FALSE) \in Letters /\ Auth!Letter(l, q, k, FALSE).login = l
      BY <2>1, LetterIs
    <3> QED
      BY <3>1, <3>2, Zenon
  <2> QED
    BY <2>2, <2>3
<1>2. Auth!Answer(l, q, s) = [k \in 1..s |-> Auth!Letter(l, q, k, k = s)]
  BY DEF Auth!Answer
<1>3. \A k \in 1..s : Auth!Answer(l, q, s)[k] = Auth!Letter(l, q, k, k = s)
  BY <1>2
<1>4. Auth!Answer(l, q, s) \in Seq(Letters) /\ Len(Auth!Answer(l, q, s)) = s
  <2>1. PICK a : a = Auth!Answer(l, q, s)
    OBVIOUS
  <2>2. a \in [1..s -> Letters]
    BY <1>1, <1>2, <2>1, Zenon
  <2>3. a \in Seq(Letters) /\ Len(a) = s
    BY <2>2
  <2> QED
    BY <2>1, <2>3
<1> QED
  BY <1>1, <1>3, <1>4

(* And what is no answer.                                                  *)
LEMMA NoZeroInAnswers ==
  ASSUME NEW l \in Nat \ {0}, NEW q \in Asked, NEW s \in Nat
  PROVE  /\ Auth!Answer(l, q, s) # <<Auth!Zero>>
         /\ \A k \in 1..Len(Auth!Answer(l, q, s)) : Auth!Answer(l, q, s)[k] # Auth!Other
<1>1. PICK a : a = Auth!Answer(l, q, s)
  OBVIOUS
<1>2. a \in Seq(Letters) /\ Len(a) = s /\ \A k \in 1..s : a[k].login = l
  <2>1. l \in Nat
    OBVIOUS
  <2>2. /\ Auth!Answer(l, q, s) \in Seq(Letters) /\ Len(Auth!Answer(l, q, s)) = s
        /\ \A k \in 1..s : Auth!Answer(l, q, s)[k].login = l
    BY <2>1, AnswerIs
  <2> QED
    BY <1>1, <2>2
<1>3. a # <<Auth!Zero>>
  <2>1. SUFFICES ASSUME a = <<Auth!Zero>> PROVE FALSE
    OBVIOUS
  <2>2. Len(a) = 1 /\ a[1] = Auth!Zero
    BY <2>1
  <2>3. 1 \in 1..s
    BY <1>2, <2>2
  <2> QED
    BY <1>2, <2>2, <2>3, NoLogins
<1>4. \A k \in 1..Len(a) : a[k] # Auth!Other
  BY <1>2, NoLogins
<1> QED
  BY <1>1, <1>3, <1>4

(* What is of no later login than one is of none later than the next.      *)
LEMMA UpToMore ==
  ASSUME NEW fields \in Seq(Seq(Letters)), NEW l \in Nat, NEW m \in Nat, l <= m, UpTo(fields, l)
  PROVE  UpTo(fields, m)
<1> SUFFICES ASSUME NEW i \in 1..Len(fields), NEW k \in 1..Len(fields[i])
             PROVE  fields[i][k].login <= m
  BY DEF UpTo
<1>1. fields[i][k].login <= l
  BY DEF UpTo
<1>2. fields[i][k].login \in Nat
  <2>1. PICK U : U = Seq(Letters)
    OBVIOUS
  <2>2. fields[i] \in U
    BY <2>1, ElementOfSeq
  <2>3. fields[i][k] \in Letters
    BY <2>1, <2>2, ElementOfSeq
  <2> QED
    BY <2>3 DEF Letters
<1> QED
  BY <1>1, <1>2

(* A name that is right and fits holds nothing of other memory.            *)
LEMMA NameIsEnded ==
  ASSUME launcher \in Nat, FieldRight(2)
  PROVE  \A k \in 1..Len(identity[2]) : identity[2][k] # Auth!Other
<1>1. CASE identity[2] = <<>>
  BY <1>1
<1>2. CASE identity[2] = <<Auth!Zero>>
  <2>1. PICK z : z = Auth!Zero
    OBVIOUS
  <2>2. identity[2] = <<z>> /\ z # Auth!Other
    BY <1>2, <2>1, NoLogins
  <2> QED
    BY <2>2
<1>3. CASE Auth!Whole(2)
  <2>1. PICK l \in 1..launcher, s \in 1..Capacity : identity[2] = Auth!Answer(l, Auth!Questions[2], s)
    BY <1>3 DEF Auth!Whole
  <2>2. l \in Nat \ {0} /\ s \in Nat /\ Auth!Questions[2] \in Asked
    BY LoginAssumption, QuestionIs
  <2> QED
    BY <2>1, <2>2, NoZeroInAnswers
<1> QED
  BY <1>1, <1>2, <1>3 DEF FieldRight

(* A text that is an answer, or was not one and is said to be empty, or    *)
(* is said not to fit, may be stored.                                      *)
LEMMA StoredRight ==
  ASSUME AuthInv, at \in {"ask", "receive"}, NEW l \in 1..launcher, UpTo(identity, l),
         NEW text \in Seq(Letters), OfLogin(text, l), Auth!Store(text), UNCHANGED launcher,
         coming' \in Seq(Letters), buf' \in Seq(Letters),
         asked' \in [empty : SUBSET (1..4), unfit : SUBSET (1..4)],
         asked'.empty \union asked'.unfit \subseteq 1..n,
         \A i \in 1..(n - 1) : (i \in asked'.empty <=> i \in asked.empty) /\ (i \in asked'.unfit <=> i \in asked.unfit),
         n \notin asked'.unfit =>
           /\ n \in {1, 2} => Len(text) < Auth!Room[n]
           /\ IF n \in asked'.empty THEN text \in {<<>>, <<Auth!Zero>>}
              ELSE \E m \in 1..launcher, s \in 1..Capacity : text = Auth!Answer(m, Auth!Questions[n], s)
  PROVE  AuthTypes' /\ AuthOrder' /\ AuthFields' /\ AuthComing'
<1>1. AuthTypes /\ AuthOrder /\ AuthFields
  BY DEF AuthInv
<1>2. /\ n \in 1..4 /\ Len(identity) = n - 1 /\ launcher \in Nat \ {0} /\ l \in Nat /\ l <= launcher
      /\ n' = n + 1 /\ at' = IF n = 4 THEN "done" ELSE "ask"
  BY <1>1 DEF AuthTypes, Auth!Store
<1>3. /\ identity' \in Seq(Seq(Letters)) /\ Len(identity') = n /\ InOrder(identity') /\ UpTo(identity', l)
      /\ \E field \in Auth!Kept(text), all \in Seq(Seq(Letters)) :
           /\ field \in Seq(Letters) /\ Len(all) = n /\ all[n] = field
           /\ \A i \in 1..(n - 1) : all[i] = identity[i]
           /\ n # 4 => identity' = all
           /\ (n = 4 /\ Len(identity[2]) < NameSize /\ \A k \in 1..Len(identity[2]) : identity[2][k] # Auth!Other)
                 => identity' = all
  BY <1>1, StoredBehind
<1>4. AuthTypes'
  BY <1>2, <1>3 DEF AuthTypes
<1>5. AuthOrder'
  <2>1. UpTo(identity', launcher)
    BY <1>2, <1>3, UpToMore
  <2> QED
    BY <1>3, <2>1 DEF AuthOrder
<1>6. PICK field \in Auth!Kept(text), all \in Seq(Seq(Letters)) :
        /\ field \in Seq(Letters) /\ Len(all) = n /\ all[n] = field
        /\ \A i \in 1..(n - 1) : all[i] = identity[i]
        /\ n # 4 => identity' = all
        /\ (n = 4 /\ Len(identity[2]) < NameSize /\ \A k \in 1..Len(identity[2]) : identity[2][k] # Auth!Other)
              => identity' = all
  BY <1>3
<1>7. ASSUME n = 4, 2 \notin asked'.unfit
      PROVE  identity' = all
  <2>1. 2 \notin asked.unfit /\ Len(identity) = 3
    BY <1>2, <1>7
  <2>2. Len(identity[2]) < NameSize /\ FieldRight(2)
    BY <1>1, <2>1 DEF AuthFields, NameFits
  <2>3. \A k \in 1..Len(identity[2]) : identity[2][k] # Auth!Other
    BY <1>2, <2>2, NameIsEnded
  <2> QED
    BY <1>6, <1>7, <2>2, <2>3
<1>8. ASSUME n \notin asked'.unfit
      PROVE  /\ IF n \in asked'.empty THEN field \in {<<>>, <<Auth!Zero>>}
                ELSE \E m \in 1..launcher, s \in 1..Capacity : field = Auth!Answer(m, Auth!Questions[n], s)
             /\ n = 2 => Len(field) < NameSize
  <2>1. /\ n \in {1, 2} => Len(text) < Auth!Room[n]
        /\ IF n \in asked'.empty THEN text \in {<<>>, <<Auth!Zero>>}
           ELSE \E m \in 1..launcher, s \in 1..Capacity : text = Auth!Answer(m, Auth!Questions[n], s)
    BY <1>8
  <2>2. field = text \/ (text = <<Auth!Zero>> /\ field = <<>>)
    BY <1>2, <2>1, KeptWhole
  <2>3. n = 2 => Len(field) < NameSize
    <3>1. Len(<<>>) = 0 /\ NameSize \in Nat \ {0}
      BY LoginAssumption
    <3>2. n = 2 => Auth!Room[n] = NameSize
      BY DEF Auth!Room
    <3> QED
      BY <2>1, <2>2, <3>1, <3>2
  <2>4. ASSUME n \notin asked'.empty
        PROVE  \E m \in 1..launcher, s \in 1..Capacity : field = Auth!Answer(m, Auth!Questions[n], s)
    <3>1. PICK m \in 1..launcher, s \in 1..Capacity : text = Auth!Answer(m, Auth!Questions[n], s)
      BY <2>1, <2>4
    <3>2. m \in Nat \ {0} /\ s \in Nat /\ Auth!Questions[n] \in Asked
      BY <1>2, LoginAssumption, QuestionIs
    <3>3. text # <<Auth!Zero>>
      BY <3>1, <3>2, NoZeroInAnswers
    <3> QED
      BY <2>2, <3>1, <3>3
  <2> QED
    BY <2>1, <2>2, <2>3, <2>4
<1>9. Len(identity') >= 2 => NameFits'
  <2> SUFFICES ASSUME n >= 2, 2 \notin asked'.unfit
               PROVE  Len(identity'[2]) < NameSize
    BY <1>3 DEF NameFits
  <2>1. CASE n = 2
    BY <1>6, <1>8, <2>1
  <2>2. CASE n > 2
    <3>1. 2 \in 1..(n - 1) /\ Len(identity) >= 2 /\ 2 \notin asked.unfit
      BY <1>2, <2>2
    <3>2. Len(identity[2]) < NameSize /\ all[2] = identity[2]
      BY <1>1, <1>6, <3>1 DEF AuthFields, NameFits
    <3> QED
      BY <1>6, <1>7, <3>2
  <2> QED
    BY <1>2, <2>1, <2>2
<1>10. ASSUME NEW i \in 1..n, i \notin asked'.unfit, n = 4 => 2 \notin asked'.unfit
       PROVE  FieldRight(i)'
  <2>1. identity' = all
    BY <1>6, <1>7, <1>10
  <2>2. CASE i = n
    <3>1. identity'[i] = field
      BY <1>6, <2>1, <2>2
    <3>2. CASE n \in asked'.empty
      BY <1>8, <1>10, <2>2, <3>1, <3>2 DEF FieldRight
    <3>3. CASE n \notin asked'.empty
      <4>1. PICK m \in 1..launcher, s \in 1..Capacity : field = Auth!Answer(m, Auth!Questions[n], s)
        BY <1>8, <1>10, <2>2, <3>3
      <4>2. Auth!Whole(i)'
        BY <2>2, <3>1, <4>1 DEF Auth!Whole
      <4> QED
        BY <2>2, <3>3, <4>2 DEF FieldRight
    <3> QED
      BY <3>2, <3>3
  <2>3. CASE i # n
    <3>1. i \in 1..(n - 1) /\ i \in 1..Len(identity)
      BY <1>2, <2>3
    <3>2. i \notin asked.unfit /\ Len(identity) # 4
      BY <1>2, <1>10, <3>1
    <3>3. FieldRight(i)
      BY <1>1, <3>1, <3>2 DEF AuthFields
    <3>4. identity'[i] = identity[i] /\ (i \in asked'.empty <=> i \in asked.empty)
      BY <1>6, <2>1, <3>1
    <3> QED
      BY <3>3, <3>4 DEF FieldRight, Auth!Whole
  <2> QED
    BY <2>2, <2>3
<1>11. AuthFields'
  <2>1. \A i \in 1..Len(identity') :
          i \notin asked'.unfit /\ (Len(identity') = 4 => 2 \notin asked'.unfit) => FieldRight(i)'
    BY <1>3, <1>10
  <2> QED
    BY <1>9, <2>1 DEF AuthFields
<1>12. AuthComing'
  BY <1>2 DEF AuthComing
<1> QED
  BY <1>4, <1>5, <1>11, <1>12

(* The answers, whatever their length and wherever they are cut.           *)
LEMMA AuthKept ==
  ASSUME AuthInv, Auth!Next
  PROVE  AuthInv'
<1>0. AuthTypes /\ AuthOrder /\ AuthFields /\ AuthComing /\ AuthHeld'
  BY AuthHolds DEF AuthInv
<1> SUFFICES AuthTypes' /\ AuthOrder' /\ AuthFields' /\ AuthComing'
  BY <1>0 DEF AuthInv
<1>1. CASE Auth!Call \/ Auth!Drive \/ Auth!NoDrive
  <2>1. /\ UNCHANGED <<launcher, coming, buf, identity, asked>> /\ at \in {"com", "drives"}
        /\ at' \in {"com", "drives", "exited"} \/ (at' = "ask" /\ n' = 1)
    BY <1>1 DEF Auth!Call, Auth!Drive, Auth!NoDrive, Auth!answer
  <2>2. identity = <<>> /\ asked.empty = {} /\ asked.unfit = {}
    BY <1>0, <2>1 DEF AuthTypes
  <2>3. AuthTypes'
    BY <1>0, <2>1, <2>2 DEF AuthTypes
  <2>4. AuthOrder' /\ AuthFields' /\ AuthComing'
    BY <2>1, <2>2 DEF AuthOrder, InOrder, UpTo, AuthFields, AuthComing
  <2> QED
    BY <2>3, <2>4
<1>2. CASE Auth!LogIn
  <2>1. UNCHANGED <<at, n, coming, buf, identity, asked>> /\ launcher' = launcher + 1
    BY <1>2 DEF Auth!LogIn, Auth!answer
  <2>2. launcher \in Nat \ {0} /\ launcher' \in Nat \ {0} /\ launcher <= launcher'
        /\ identity \in Seq(Seq(Letters))
    BY <1>0, <2>1 DEF AuthTypes
  <2>3. AuthTypes'
    BY <1>0, <2>1, <2>2 DEF AuthTypes
  <2>4. AuthOrder'
    <3>1. InOrder(identity) /\ UpTo(identity, launcher)
      BY <1>0 DEF AuthOrder
    <3>2. UpTo(identity, launcher')
      BY <2>2, <3>1, UpToMore
    <3> QED
      BY <2>1, <3>1, <3>2 DEF AuthOrder
  <2>5. AuthFields'
    <3>1. \A i \in 1..Len(identity) : FieldRight(i) => FieldRight(i)'
      <4> TAKE i \in 1..Len(identity)
      <4>1. Auth!Whole(i) => Auth!Whole(i)'
        <5>1. 1..launcher \subseteq 1..launcher'
          BY <2>2
        <5> QED
          BY <2>1, <5>1 DEF Auth!Whole
      <4> QED
        BY <2>1, <4>1 DEF FieldRight
    <3> QED
      BY <1>0, <2>1, <3>1 DEF AuthFields, NameFits
  <2>6. AuthComing'
    <3>1. 1..launcher \subseteq 1..launcher'
      BY <2>2
    <3> QED
      BY <1>0, <2>1, <3>1 DEF AuthComing, Coming, Came
  <2> QED
    BY <2>3, <2>4, <2>5, <2>6
<1>3. CASE Auth!NoHandle
  <2>1. /\ at = "ask" /\ Auth!Store(<<Auth!Zero>>) /\ UNCHANGED <<launcher, coming, buf>>
        /\ asked' = [asked EXCEPT !.empty = @ \union {n}]
    BY <1>3 DEF Auth!NoHandle
  <2>2. /\ n \in 1..4 /\ launcher \in 1..launcher /\ UpTo(identity, launcher)
        /\ coming' \in Seq(Letters) /\ buf' \in Seq(Letters)
    BY <1>0, <2>1 DEF AuthTypes, AuthOrder
  <2>3. /\ asked' \in [empty : SUBSET (1..4), unfit : SUBSET (1..4)]
        /\ asked'.empty = asked.empty \union {n} /\ asked'.unfit = asked.unfit
    BY <1>0, <2>1, <2>2 DEF AuthTypes
  <2>4. asked.empty \union asked.unfit \subseteq 1..(n - 1)
    BY <1>0, <2>1 DEF AuthTypes
  <2>5. /\ asked'.empty \union asked'.unfit \subseteq 1..n
        /\ \A i \in 1..(n - 1) : (i \in asked'.empty <=> i \in asked.empty) /\ (i \in asked'.unfit <=> i \in asked.unfit)
    BY <2>2, <2>3, <2>4
  <2>6. PICK zero \in Seq(Letters) : zero = <<Auth!Zero>> /\ Len(zero) = 1 /\ OfLogin(zero, launcher)
    <3>1. PICK z : z = <<Auth!Zero>>
      OBVIOUS
    <3>2. z \in Seq(Letters) /\ Len(z) = 1 /\ z[1].login = 0
      BY <3>1, NoLogins
    <3>3. OfLogin(z, launcher)
      BY <3>2 DEF OfLogin
    <3> QED
      BY <3>1, <3>2, <3>3
  <2>7. n \in {1, 2} => Len(zero) < Auth!Room[n]
    BY <2>6, LoginAssumption DEF Auth!Room
  <2>8. Auth!Store(zero) /\ n \in asked'.empty /\ zero \in {<<>>, <<Auth!Zero>>}
    BY <2>1, <2>3, <2>6
  <2> QED
    BY <2>1, <2>2, <2>3, <2>5, <2>6, <2>7, <2>8, StoredRight
<1>4. CASE Auth!RequestInfoFromLauncher
  <2>1. PICK s \in 0..Capacity + 1 :
          /\ coming' = Auth!Answer(launcher, Auth!Questions[n], s)
          /\ asked' = [empty |-> IF s = 0 THEN asked.empty \union {n} ELSE asked.empty,
                       unfit |-> IF s >= Capacity \/ s >= Auth!Room[n] THEN asked.unfit \union {n} ELSE asked.unfit]
    BY <1>4 DEF Auth!RequestInfoFromLauncher
  <2>2. at = "ask" /\ at' = "receive" /\ buf' = <<>> /\ UNCHANGED <<n, launcher, identity>>
    BY <1>4 DEF Auth!RequestInfoFromLauncher
  <2>3. n \in 1..4 /\ launcher \in Nat \ {0} /\ s \in Nat /\ Auth!Questions[n] \in Asked /\ Capacity \in Nat
    BY <1>0, <2>2, LoginAssumption, QuestionIs DEF AuthTypes
  <2>4. PICK q \in Asked : q = Auth!Questions[n]
    BY <2>3
  <2>5. /\ coming' \in Seq(Letters) /\ Len(coming') = s
        /\ \A k \in 1..s : coming'[k] = Auth!Letter(launcher, q, k, k = s) /\ coming'[k].login = launcher
    <3>1. PICK l \in Nat : l = launcher /\ coming' = Auth!Answer(l, q, s)
      BY <2>1, <2>3, <2>4
    <3>2. s \in Nat /\ q \in Asked
      BY <2>3
    <3>3. /\ Auth!Answer(l, q, s) \in Seq(Letters) /\ Len(Auth!Answer(l, q, s)) = s
          /\ \A k \in 1..s : Auth!Answer(l, q, s)[k] = Auth!Letter(l, q, k, k = s)
          /\ \A k \in 1..s : Auth!Answer(l, q, s)[k].login = l
      BY <3>2, AnswerIs
    <3> QED
      BY <3>1, <3>3
  <2>6. asked.empty \union asked.unfit \subseteq 1..(n - 1)
    BY <1>0, <2>2 DEF AuthTypes
  <2>7. /\ asked'.empty = (IF s = 0 THEN asked.empty \union {n} ELSE asked.empty)
        /\ asked'.unfit = (IF s >= Capacity \/ s >= Auth!Room[n] THEN asked.unfit \union {n} ELSE asked.unfit)
        /\ asked' \in [empty : SUBSET (1..4), unfit : SUBSET (1..4)]
    BY <1>0, <2>1, <2>3 DEF AuthTypes
  <2>8. AuthTypes'
    <3>1. asked'.empty \union asked'.unfit \subseteq 1..n
      BY <2>3, <2>6, <2>7
    <3> QED
      BY <1>0, <2>2, <2>5, <2>7, <3>1 DEF AuthTypes
  <2>9. AuthOrder'
    BY <1>0, <2>2 DEF AuthOrder
  <2>10. AuthFields'
    <3>1. Len(identity) = n - 1
      BY <1>0, <2>2 DEF AuthTypes
    <3>2. \A i \in 1..(n - 1) : (i \in asked'.empty <=> i \in asked.empty) /\ (i \in asked'.unfit <=> i \in asked.unfit)
      BY <2>3, <2>7
    <3>3. \A i \in 1..(n - 1) : FieldRight(i) => FieldRight(i)'
      BY <2>2, <3>2 DEF FieldRight, Auth!Whole
    <3>4. \A i \in 1..(n - 1) : i \notin asked'.unfit /\ Len(identity) # 4 => FieldRight(i)
      BY <1>0, <3>1, <3>2 DEF AuthFields
    <3>5. n - 1 >= 2 => NameFits'
      <4>1. n - 1 >= 2 => 2 \in 1..(n - 1)
        BY <2>3
      <4> QED
        BY <1>0, <2>2, <3>1, <3>2, <4>1 DEF AuthFields, NameFits
    <3>6. Len(identity') = n - 1 /\ Len(identity) # 4
      BY <2>2, <2>3, <3>1
    <3> QED
      BY <3>3, <3>4, <3>5, <3>6 DEF AuthFields
  <2>11. AuthComing'
    <3>1. OfLogin(buf', launcher) /\ OfLogin(coming', launcher)
      BY <2>2, <2>5 DEF OfLogin
    <3>2. UpTo(identity', launcher)
      BY <1>0, <2>2 DEF AuthOrder
    <3>3. n \in asked'.empty <=> s = 0
      BY <2>3, <2>6, <2>7
    <3>4. n \notin asked'.unfit => s < Capacity /\ s < Auth!Room[n]
      <4>1. Auth!Room[n] \in Nat
        BY <2>3, LoginAssumption DEF Auth!Room
      <4> QED
        BY <2>3, <2>7, <4>1
    <3>5. Came(launcher, s)'
      <4>1. Len(buf') = 0 /\ Len(coming') = s
        BY <2>2, <2>5
      <4>2. \A k \in 1..Len(coming') : Len(buf') + k = k
        BY <4>1
      <4>3. \A k \in 1..Len(coming') :
              coming'[k] = Auth!Letter(launcher, Auth!Questions[n], Len(buf') + k, Len(buf') + k = s)
        BY <2>4, <2>5, <4>1, <4>2
      <4>4. \A k \in 1..Len(buf') : FALSE
        BY <4>1
      <4>5. Len(buf') + Len(coming') = s
        BY <2>3, <4>1
      <4> QED
        BY <2>2, <4>3, <4>4, <4>5 DEF Came
    <3>6. Coming(launcher, s)'
      BY <2>2, <3>1, <3>2, <3>3, <3>4, <3>5 DEF Coming
    <3> QED
      BY <2>2, <2>3, <3>6 DEF AuthComing
  <2> QED
    BY <2>8, <2>9, <2>10, <2>11
<1>5. CASE Auth!Fail
  <2>1. /\ at' = "exited" /\ coming' = <<>> /\ buf' = <<>> /\ identity' = <<>>
        /\ UNCHANGED <<launcher, asked>>
    BY <1>5 DEF Auth!Fail
  <2>2. AuthTypes'
    BY <1>0, <2>1 DEF AuthTypes
  <2> QED
    BY <2>1, <2>2 DEF AuthOrder, InOrder, UpTo, AuthFields, AuthComing
<1>6. CASE Auth!AuthDataReceived
  <2>1. PICK s \in 1..Len(coming) :
          /\ buf' = Auth!Appended(SubSeq(coming, 1, s))
          /\ coming' = SubSeq(coming, s + 1, Len(coming))
    BY <1>6 DEF Auth!AuthDataReceived
  <2>2. at = "receive" /\ UNCHANGED <<at, n, launcher, identity, asked>>
    BY <1>6 DEF Auth!AuthDataReceived
  <2>3. PICK chunk : chunk = SubSeq(coming, 1, s)
    OBVIOUS
  <2>4. /\ coming \in Seq(Letters) /\ buf \in Seq(Letters) /\ Len(coming) \in Nat /\ Len(buf) \in Nat
        /\ s \in Nat /\ s > 0 /\ s <= Len(coming)
    BY <1>0, <2>1 DEF AuthTypes
  <2>5. chunk \in Seq(Letters) /\ Len(chunk) = s /\ \A k \in 1..s : chunk[k] = coming[k]
    BY <2>3, <2>4
  <2>6. /\ coming' \in Seq(Letters) /\ Len(coming') = Len(coming) - s
        /\ \A k \in 1..Len(coming') : coming'[k] = coming[s + k]
    BY <2>1, <2>4
  <2>7. buf' = IF Len(buf) + s > Capacity THEN buf ELSE buf \o chunk
    BY <2>1, <2>3, <2>5 DEF Auth!Appended
  <2>8. buf' \in Seq(Letters)
    BY <2>4, <2>5, <2>7
  <2>9. AuthTypes'
    BY <1>0, <2>2, <2>6, <2>8 DEF AuthTypes
  <2>10. AuthOrder' /\ AuthFields'
    BY <1>0, <2>2 DEF AuthOrder, AuthFields, NameFits, FieldRight, Auth!Whole
  <2>11. PICK l \in 1..launcher, all \in Nat : Coming(l, all)
    BY <1>0, <2>2 DEF AuthComing
  <2>12. /\ Len(buf \o chunk) = Len(buf) + s
         /\ \A k \in 1..Len(buf) : (buf \o chunk)[k] = buf[k]
         /\ \A k \in (Len(buf) + 1)..(Len(buf) + s) : (buf \o chunk)[k] = chunk[k - Len(buf)]
    <3>1. PICK b, c : b = buf /\ c = chunk
      OBVIOUS
    <3>2. b \in Seq(Letters) /\ c \in Seq(Letters) /\ Len(c) = s
      BY <2>4, <2>5, <3>1
    <3>3. Len(b \o c) = Len(b) + s
      BY <3>2
    <3>4. \A k \in 1..Len(b) : (b \o c)[k] = b[k]
      BY <3>2
    <3>5. \A k \in (Len(b) + 1)..(Len(b) + s) : (b \o c)[k] = c[k - Len(b)]
      BY <3>2
    <3> QED
      BY <3>1, <3>3, <3>4, <3>5
  <2>13. OfLogin(coming', l)
    <3> SUFFICES ASSUME NEW k \in 1..Len(coming')
                 PROVE  coming'[k].login = 0 \/ coming'[k].login = l
      BY DEF OfLogin
    <3>1. s + k \in 1..Len(coming) /\ coming'[k] = coming[s + k]
      BY <2>4, <2>6
    <3> QED
      BY <2>11, <3>1 DEF Coming, OfLogin
  <2>14. OfLogin(buf', l)
    <3>1. CASE Len(buf) + s > Capacity
      BY <2>7, <2>11, <3>1 DEF Coming
    <3>2. CASE ~(Len(buf) + s > Capacity)
      <4>1. buf' = buf \o chunk
        BY <2>7, <3>2
      <4> SUFFICES ASSUME NEW k \in 1..(Len(buf) + s)
                   PROVE  buf'[k].login = 0 \/ buf'[k].login = l
        BY <2>12, <4>1 DEF OfLogin
      <4>2. CASE k <= Len(buf)
        <5>1. k \in 1..Len(buf) /\ buf'[k] = buf[k]
          BY <2>4, <2>12, <4>1, <4>2
        <5> QED
          BY <2>11, <5>1 DEF Coming, OfLogin
      <4>3. CASE k > Len(buf)
        <5>1. PICK j : j = k - Len(buf)
          OBVIOUS
        <5>2. j \in 1..s /\ j \in 1..Len(coming) /\ k \in (Len(buf) + 1)..(Len(buf) + s)
          BY <2>4, <4>3, <5>1
        <5>3. buf'[k] = coming[j]
          BY <2>5, <2>12, <4>1, <5>1, <5>2
        <5> QED
          BY <2>11, <5>2, <5>3 DEF Coming, OfLogin
      <4> QED
        BY <2>4, <4>2, <4>3
    <3> QED
      BY <3>1, <3>2
  <2>15. ASSUME n \notin asked.unfit
         PROVE  Came(l, all)'
    <3>1. all < Capacity /\ Came(l, all) /\ Len(buf) + Len(coming) = all
      BY <2>11, <2>15 DEF Coming, Came
    <3>2. buf' = buf \o chunk
      <4>1. Capacity \in Nat
        BY LoginAssumption
      <4> QED
        BY <2>4, <2>7, <3>1, <4>1
    <3>3. PICK q : q = Auth!Questions[n]
      OBVIOUS
    <3>4. /\ \A k \in 1..Len(buf) : buf[k] = Auth!Letter(l, q, k, k = all)
          /\ \A k \in 1..Len(coming) : coming[k] = Auth!Letter(l, q, Len(buf) + k, Len(buf) + k = all)
      BY <3>1, <3>3 DEF Came
    <3>5. Len(buf') = Len(buf) + s /\ Len(buf') + Len(coming') = all
      <4>1. Len(buf') = Len(buf) + s
        BY <2>12, <3>2
      <4>2. Len(coming') = Len(coming) - s /\ Len(buf) + Len(coming) = all
        BY <2>6, <3>1
      <4> QED
        BY <2>4, <4>1, <4>2
    <3>6. \A k \in 1..Len(buf') : buf'[k] = Auth!Letter(l, q, k, k = all)
      <4> SUFFICES ASSUME NEW k \in 1..Len(buf')
                   PROVE  buf'[k] = Auth!Letter(l, q, k, k = all)
        OBVIOUS
      <4>1. CASE k <= Len(buf)
        <5>1. k \in 1..Len(buf) /\ buf'[k] = buf[k]
          BY <2>4, <2>12, <3>2, <4>1
        <5> QED
          BY <3>4, <5>1
      <4>2. CASE k > Len(buf)
        <5>1. PICK j : j = k - Len(buf)
          OBVIOUS
        <5>2. j \in 1..s /\ j \in 1..Len(coming) /\ Len(buf) + j = k /\ k \in (Len(buf) + 1)..(Len(buf) + s)
          BY <2>4, <3>5, <4>2, <5>1
        <5>3. buf'[k] = coming[j]
          BY <2>5, <2>12, <3>2, <5>1, <5>2
        <5>4. coming[j] = Auth!Letter(l, q, Len(buf) + j, Len(buf) + j = all)
          BY <3>4, <5>2
        <5> QED
          BY <5>2, <5>3, <5>4
      <4> QED
        BY <2>4, <3>5, <4>1, <4>2
    <3>7. \A k \in 1..Len(coming') : coming'[k] = Auth!Letter(l, q, Len(buf') + k, Len(buf') + k = all)
      <4> SUFFICES ASSUME NEW k \in 1..Len(coming')
                   PROVE  coming'[k] = Auth!Letter(l, q, Len(buf') + k, Len(buf') + k = all)
        OBVIOUS
      <4>1. s + k \in 1..Len(coming) /\ coming'[k] = coming[s + k] /\ Len(buf) + (s + k) = Len(buf') + k
        BY <2>4, <2>6, <3>5
      <4>2. coming[s + k] = Auth!Letter(l, q, Len(buf) + (s + k), Len(buf) + (s + k) = all)
        BY <3>4, <4>1
      <4> QED
        BY <4>1, <4>2
    <3> QED
      BY <2>2, <3>3, <3>5, <3>6, <3>7 DEF Came
  <2>16. Coming(l, all)'
    BY <2>2, <2>11, <2>13, <2>14, <2>15 DEF Coming
  <2>17. AuthComing'
    BY <2>2, <2>16 DEF AuthComing
  <2> QED
    BY <2>9, <2>10, <2>17
<1>7. CASE Auth!Answered
  <2>1. at = "receive" /\ coming = <<>> /\ coming' = <<>> /\ buf' = <<>> /\ UNCHANGED launcher
    BY <1>7 DEF Auth!Answered
  <2>2. /\ n \in 1..4 /\ buf \in Seq(Letters) /\ launcher \in Nat \ {0}
        /\ asked \in [empty : SUBSET (1..4), unfit : SUBSET (1..4)]
        /\ asked.empty \union asked.unfit \subseteq 1..n
        /\ coming' \in Seq(Letters) /\ buf' \in Seq(Letters)
    BY <1>0, <2>1 DEF AuthTypes
  <2>3. PICK l \in 1..launcher, s \in Nat : Coming(l, s)
    BY <1>0, <2>1 DEF AuthComing
  <2>4. UpTo(identity, l) /\ OfLogin(buf, l)
    BY <2>3 DEF Coming
  <2>5. CASE Auth!Store(buf) /\ UNCHANGED asked
    <3>1. ASSUME n \notin asked'.unfit
          PROVE  /\ n \in {1, 2} => Len(buf) < Auth!Room[n]
                 /\ IF n \in asked'.empty THEN buf \in {<<>>, <<Auth!Zero>>}
                    ELSE \E m \in 1..launcher, c \in 1..Capacity : buf = Auth!Answer(m, Auth!Questions[n], c)
      <4>1. s < Capacity /\ s < Auth!Room[n] /\ Came(l, s) /\ (n \in asked'.empty <=> s = 0)
        BY <2>3, <2>5, <3>1 DEF Coming
      <4>2. PICK q : q = Auth!Questions[n]
        OBVIOUS
      <4>3. Len(buf) = s /\ \A k \in 1..Len(buf) : buf[k] = Auth!Letter(l, q, k, k = s)
        BY <2>1, <2>2, <4>1, <4>2 DEF Came
      <4>4. buf = Auth!Answer(l, q, s)
        <5>1. buf = [k \in 1..s |-> buf[k]]
          BY <2>2, <4>3
        <5>2. buf = [k \in 1..s |-> Auth!Letter(l, q, k, k = s)]
          BY <4>3, <5>1, Zenon
        <5> QED
          BY <5>2 DEF Auth!Answer
      <4>5. CASE s = 0
        BY <2>2, <4>1, <4>3, <4>5
      <4>6. CASE s # 0
        <5>1. s \in 1..Capacity
          BY <4>1, <4>6, LoginAssumption
        <5> QED
          BY <4>1, <4>2, <4>3, <4>4, <4>6, <5>1
      <4> QED
        BY <4>5, <4>6
    <3>2. \A i \in 1..(n - 1) : (i \in asked'.empty <=> i \in asked.empty) /\ (i \in asked'.unfit <=> i \in asked.unfit)
      BY <2>5
    <3>3. /\ asked' \in [empty : SUBSET (1..4), unfit : SUBSET (1..4)]
          /\ asked'.empty \union asked'.unfit \subseteq 1..n
      BY <2>2, <2>5
    <3> QED
      BY <2>1, <2>2, <2>4, <2>5, <3>1, <3>2, <3>3, StoredRight
  <2>6. ASSUME NEW text \in Auth!Ends(buf, 0), Auth!Store(text), asked' = [asked EXCEPT !.unfit = @ \union {n}]
        PROVE  AuthTypes' /\ AuthOrder' /\ AuthFields' /\ AuthComing'
    <3>1. text \in Seq(Letters) /\ OfLogin(text, l)
      <4>1. l \in Nat
        BY <2>2
      <4> QED
        BY <2>2, <2>4, <4>1, EndsOf
    <3>2. /\ asked' \in [empty : SUBSET (1..4), unfit : SUBSET (1..4)]
          /\ asked'.empty = asked.empty /\ asked'.unfit = asked.unfit \union {n}
      BY <2>2, <2>6
    <3>3. /\ asked'.empty \union asked'.unfit \subseteq 1..n
          /\ \A i \in 1..(n - 1) : (i \in asked'.empty <=> i \in asked.empty) /\ (i \in asked'.unfit <=> i \in asked.unfit)
          /\ n \in asked'.unfit
      BY <2>2, <3>2
    <3> QED
      BY <2>1, <2>2, <2>4, <2>6, <3>1, <3>2, <3>3, StoredRight
  <2> QED
    BY <1>7, <2>5, <2>6 DEF Auth!Answered
<1> QED
  BY <1>1, <1>2, <1>3, <1>4, <1>5, <1>6, <1>7 DEF Auth!Next

(* From the invariant to the properties.                                   *)
LEMMA AuthRight == AuthInv => Auth!NothingHeld /\ Auth!IdentityOfOne
<1> SUFFICES ASSUME AuthInv
             PROVE  Auth!NothingHeld /\ Auth!IdentityOfOne
  OBVIOUS
<1>1. Auth!NothingHeld
  BY DEF AuthInv, AuthHeld, Auth!NothingHeld
<1>2. ASSUME at = "done"
      PROVE  /\ Auth!OneLogin
             /\ \A i \in 1..4 : Auth!Fits(i) => FieldRight(i)
  <2>1. Len(identity) = 4 /\ InOrder(identity)
    BY <1>2 DEF AuthInv, AuthTypes, AuthOrder
  <2>2. Auth!OneLogin
    BY <2>1 DEF InOrder, Auth!OneLogin
  <2>3. \A i \in 1..4 : Auth!Fits(i) => FieldRight(i)
    BY <2>1 DEF AuthInv, AuthFields, Auth!Fits
  <2> QED
    BY <2>2, <2>3
<1> QED
  BY <1>1, <1>2 DEF Auth!IdentityOfOne, FieldRight

-----------------------------------------------------------------------------
(* Breakpoints *)

(* A thread that one helper at most works on, and whose breakpoints only   *)
(* it removes as its own, has in its registers what there are handles for, *)
(* and what is being removed; and its helper has read what is in them.     *)
Working(c, t) == helpers[c] # none /\ helpers[c].target = t
Removing(c, t, h) == Working(c, t) /\ helpers[c].opr = "remove" /\ helpers[c].h = h
Holding(t, h) == (h \in handles /\ h.on = t) \/ \E c \in Threads : Removing(c, t, h)

BreakTypes ==
  /\ dr \in [Threads -> Breakpoints!Contexts]
  /\ handles \subseteq Breakpoints!Handles /\ \A h \in handles : h.iReg \in Registers
  /\ helpers \in [Threads -> Breakpoints!Helpers \union {none}]
  /\ breakpoints \in Nat /\ met \subseteq Threads
  /\ \A c \in Threads : helpers[c] # none /\ helpers[c].opr = "set" => helpers[c].h.on = helpers[c].target

HelpersAlone(t) ==
  /\ \A c, d \in Threads : Working(c, t) /\ Working(d, t) => c = d
  /\ \A c \in Threads : Working(c, t) =>
       /\ helpers[c].h.on = t
       /\ helpers[c].ct \in {none, dr[t]}
       /\ helpers[c].opr = "remove" => helpers[c].h \notin handles /\ helpers[c].h.iReg \in Registers

Watched(t) ==
  /\ \A h \in Breakpoints!Handles : Holding(t, h) => dr[t][h.iReg] = h.a
  /\ \A r \in Registers : dr[t][r] # none => \E h \in Breakpoints!Handles : Holding(t, h) /\ h.iReg = r
  /\ \A h, g \in Breakpoints!Handles : Holding(t, h) /\ Holding(t, g) /\ h.iReg = g.iReg => h = g

BreakInv == BreakTypes /\ \A t \in Threads \ met : HelpersAlone(t) /\ Watched(t)

(* No register is used, and no helper works.                               *)
LEMMA BreakStarts == Breakpoints!Init => BreakInv
<1> SUFFICES ASSUME Breakpoints!Init
             PROVE  BreakInv
  OBVIOUS
<1>1. BreakTypes
  BY DEF Breakpoints!Init, BreakTypes, Breakpoints!Contexts
<1>2. \A t \in Threads : HelpersAlone(t)
  BY DEF Breakpoints!Init, HelpersAlone, Working
<1>3. \A t \in Threads : Watched(t)
  BY DEF Breakpoints!Init, Watched, Holding, Removing, Working
<1> QED
  BY <1>1, <1>2, <1>3 DEF BreakInv

(* A helper is none, or has its fields.                                    *)
LEMMA HelperFields ==
  ASSUME BreakTypes, NEW c \in Threads, helpers[c] # none
  PROVE  /\ helpers[c] \in Breakpoints!Helpers
         /\ helpers[c].h \in Breakpoints!Handles /\ helpers[c].target \in Threads
         /\ helpers[c].opr \in {"set", "remove"} /\ helpers[c].ct \in Breakpoints!Contexts \union {none}
BY DEF BreakTypes, Breakpoints!Helpers

(* A thread that nothing of a step is about keeps what it had.             *)
LEMMA BreakOthers ==
  ASSUME NEW t \in Threads, HelpersAlone(t), Watched(t), dr'[t] = dr[t],
         \A h : h \in handles' /\ h.on = t <=> h \in handles /\ h.on = t,
         \A c \in Threads : Working(c, t) <=> Working(c, t)',
         \A c \in Threads : Working(c, t) => helpers'[c] = helpers[c]
  PROVE  HelpersAlone(t)' /\ Watched(t)'
<1>1. HelpersAlone(t)'
  BY DEF HelpersAlone
<1>2. \A h : Holding(t, h)' <=> Holding(t, h)
  BY DEF Holding, Removing
<1> QED
  BY <1>1, <1>2 DEF Watched

(* A breakpoint is asked for.                                              *)
LEMMA SetKept ==
  ASSUME BreakInv, NEW c \in Threads, NEW t \in Threads, NEW this \in BOOLEAN,
         Breakpoints!SetHardwareBreakpoint(c, t, this)
  PROVE  BreakInv'
<1>0. BreakTypes
  BY DEF BreakInv
<1>1. PICK w : w = [opr |-> "set", h |-> [a |-> breakpoints + 1, iReg |-> 0, on |-> t, this |-> this], target |-> t, ct |-> none]
  OBVIOUS
<1>2. w \in Breakpoints!Helpers /\ w.h \in Breakpoints!Handles /\ w.h.on = t /\ w.target = t /\ w.opr = "set" /\ w.ct = none
  BY <1>0, <1>1 DEF BreakTypes, Breakpoints!Helpers, Breakpoints!Handles
<1>3. w # none
  BY <1>2, NoneAssumption
<1>4. /\ helpers[c] = none /\ helpers' = [helpers EXCEPT ![c] = w] /\ UNCHANGED <<dr, handles>>
      /\ breakpoints' = breakpoints + 1 /\ met' = met \union ({t} \intersect Breakpoints!WorkedOn)
  BY <1>1 DEF Breakpoints!SetHardwareBreakpoint, Breakpoints!Start
<1>5. helpers'[c] = w /\ \A d \in Threads : d # c => helpers'[d] = helpers[d]
  BY <1>0, <1>4 DEF BreakTypes
<1>6. BreakTypes'
  <2>1. helpers' \in [Threads -> Breakpoints!Helpers \union {none}]
    BY <1>0, <1>2, <1>4 DEF BreakTypes
  <2>2. \A d \in Threads : helpers'[d] # none /\ helpers'[d].opr = "set" => helpers'[d].h.on = helpers'[d].target
    BY <1>0, <1>2, <1>5 DEF BreakTypes
  <2> QED
    BY <1>0, <1>4, <2>1, <2>2 DEF BreakTypes
<1>7. ASSUME NEW u \in Threads, u \notin met'
      PROVE  HelpersAlone(u)' /\ Watched(u)'
  <2>1. HelpersAlone(u) /\ Watched(u) /\ u \in Threads
    BY <1>4, <1>7 DEF BreakInv
  <2>2. CASE u # t
    <3>1. \A d \in Threads : Working(d, u) <=> Working(d, u)'
      BY <1>2, <1>4, <1>5, <2>2 DEF Working
    <3>2. \A d \in Threads : Working(d, u) => helpers'[d] = helpers[d]
      BY <1>4, <1>5 DEF Working
    <3> QED
      BY <1>4, <2>1, <3>1, <3>2, BreakOthers
  <2>3. CASE u = t
    <3>1. \A d \in Threads : ~Working(d, u)
      BY <1>4, <1>7, <2>3 DEF Working, Breakpoints!WorkedOn
    <3>2. \A d \in Threads : Working(d, u)' => d = c
      BY <1>5, <3>1 DEF Working
    <3>3. HelpersAlone(u)'
      BY <1>2, <1>5, <2>3, <3>2 DEF HelpersAlone
    <3>4. \A d \in Threads : \A h : ~Removing(d, u, h)'
      BY <1>2, <1>5, <3>2 DEF Removing
    <3>5. \A h : Holding(u, h)' <=> Holding(u, h)
      BY <1>4, <3>1, <3>4 DEF Holding, Removing
    <3> QED
      BY <1>4, <2>1, <3>3, <3>5 DEF Watched
  <2> QED
    BY <2>2, <2>3
<1> QED
  BY <1>6, <1>7 DEF BreakInv

(* A breakpoint is given back.                                             *)
LEMMA RemoveKept ==
  ASSUME BreakInv, NEW c \in Threads, NEW h \in handles, Breakpoints!RemoveHardwareBreakpoint(c, h)
  PROVE  BreakInv'
<1>0. BreakTypes /\ h \in Breakpoints!Handles /\ h.on \in Threads /\ h.iReg \in Registers
  BY DEF BreakInv, BreakTypes, Breakpoints!Handles
<1>1. PICK t \in Threads : t = IF h.this THEN c ELSE h.on
  BY <1>0
<1>2. PICK w : w = [opr |-> "remove", h |-> h, target |-> t, ct |-> none]
  OBVIOUS
<1>3. w \in Breakpoints!Helpers /\ w.h = h /\ w.target = t /\ w.opr = "remove" /\ w.ct = none
  BY <1>0, <1>2 DEF Breakpoints!Helpers
<1>4. w # none
  BY <1>3, NoneAssumption
<1>5. /\ helpers[c] = none /\ helpers' = [helpers EXCEPT ![c] = w] /\ UNCHANGED <<dr, breakpoints>>
      /\ handles' = handles \ {h}
      /\ met' = met \union ({t} \intersect Breakpoints!WorkedOn) \union (IF t = h.on THEN {} ELSE {t, h.on})
  BY <1>1, <1>2 DEF Breakpoints!RemoveHardwareBreakpoint, Breakpoints!Start
<1>6. helpers'[c] = w /\ \A d \in Threads : d # c => helpers'[d] = helpers[d]
  BY <1>0, <1>5 DEF BreakTypes
<1>7. BreakTypes'
  <2>1. helpers' \in [Threads -> Breakpoints!Helpers \union {none}]
    BY <1>0, <1>3, <1>5 DEF BreakTypes
  <2>2. \A d \in Threads : helpers'[d] # none /\ helpers'[d].opr = "set" => helpers'[d].h.on = helpers'[d].target
    BY <1>0, <1>3, <1>6 DEF BreakTypes
  <2>3. met' \subseteq Threads
    BY <1>0, <1>5 DEF BreakTypes
  <2> QED
    BY <1>0, <1>5, <2>1, <2>2, <2>3 DEF BreakTypes
<1>8. ASSUME NEW u \in Threads, u \notin met'
      PROVE  HelpersAlone(u)' /\ Watched(u)'
  <2>1. HelpersAlone(u) /\ Watched(u)
    BY <1>5, <1>8 DEF BreakInv
  <2>2. CASE u # t
    <3>0. u # h.on
      BY <1>5, <1>8, <2>2
    <3>1. \A d \in Threads : Working(d, u) <=> Working(d, u)'
      BY <1>3, <1>5, <1>6, <2>2 DEF Working
    <3>2. \A d \in Threads : Working(d, u) => helpers'[d] = helpers[d]
      BY <1>5, <1>6 DEF Working
    <3>3. \A g : g \in handles' /\ g.on = u <=> g \in handles /\ g.on = u
      BY <1>5, <3>0
    <3>4. dr'[u] = dr[u]
      BY <1>5
    <3> QED
      BY <2>1, <3>1, <3>2, <3>3, <3>4, BreakOthers
  <2>3. CASE u = t
    <3>0. h.on = u
      BY <1>5, <1>8, <2>3
    <3>1. \A d \in Threads : ~Working(d, u)
      BY <1>5, <1>8, <2>3 DEF Working, Breakpoints!WorkedOn
    <3>2. \A d \in Threads : Working(d, u)' <=> d = c
      BY <1>3, <1>4, <1>6, <2>3, <3>1 DEF Working
    <3>3. HelpersAlone(u)'
      BY <1>0, <1>3, <1>5, <1>6, <3>0, <3>2 DEF HelpersAlone
    <3>4. \A d \in Threads : \A g : Removing(d, u, g)' <=> d = c /\ g = h
      BY <1>3, <1>6, <3>2 DEF Removing
    <3>5. \A g : Holding(u, g)' <=> Holding(u, g)
      BY <1>5, <3>0, <3>1, <3>4 DEF Holding, Removing
    <3> QED
      BY <1>5, <2>1, <3>3, <3>5 DEF Watched
  <2> QED
    BY <2>2, <2>3
<1> QED
  BY <1>7, <1>8 DEF BreakInv

(* A helper reads the registers.                                           *)
LEMMA GetKept ==
  ASSUME BreakInv, NEW c \in Threads, Breakpoints!GetThreadContext(c)
  PROVE  BreakInv'
<1>0. BreakTypes /\ helpers[c] # none
  BY DEF BreakInv, Breakpoints!GetThreadContext
<1>1. PICK w : w = [helpers[c] EXCEPT !.ct = dr[helpers[c].target]]
  OBVIOUS
<1>2. /\ w \in Breakpoints!Helpers /\ w.h = helpers[c].h /\ w.target = helpers[c].target
      /\ w.opr = helpers[c].opr /\ w.ct = dr[helpers[c].target]
  BY <1>0, <1>1, HelperFields DEF Breakpoints!Helpers, BreakTypes
<1>3. w # none
  BY <1>2, NoneAssumption
<1>4. helpers' = [helpers EXCEPT ![c] = w] /\ UNCHANGED <<dr, handles, breakpoints, met>>
  BY <1>1 DEF Breakpoints!GetThreadContext
<1>5. helpers'[c] = w /\ \A d \in Threads : d # c => helpers'[d] = helpers[d]
  BY <1>0, <1>4 DEF BreakTypes
<1>6. BreakTypes'
  <2>1. helpers' \in [Threads -> Breakpoints!Helpers \union {none}]
    BY <1>0, <1>2, <1>4 DEF BreakTypes
  <2>2. \A d \in Threads : helpers'[d] # none /\ helpers'[d].opr = "set" => helpers'[d].h.on = helpers'[d].target
    BY <1>0, <1>2, <1>5 DEF BreakTypes
  <2> QED
    BY <1>0, <1>4, <2>1, <2>2 DEF BreakTypes
<1>7. ASSUME NEW u \in Threads, u \notin met'
      PROVE  HelpersAlone(u)' /\ Watched(u)'
  <2>1. HelpersAlone(u) /\ Watched(u)
    BY <1>4, <1>7 DEF BreakInv
  <2>2. \A d \in Threads : Working(d, u)' <=> Working(d, u)
    BY <1>0, <1>2, <1>3, <1>5 DEF Working
  <2>3. \A d \in Threads : \A g : Removing(d, u, g)' <=> Removing(d, u, g)
    BY <1>2, <1>5, <2>2 DEF Removing
  <2>4. \A g : Holding(u, g)' <=> Holding(u, g)
    BY <1>4, <2>3 DEF Holding
  <2>5. Watched(u)'
    BY <1>4, <2>1, <2>4 DEF Watched
  <2>6. ASSUME NEW d \in Threads, Working(d, u)
        PROVE  /\ helpers'[d].h = helpers[d].h /\ helpers'[d].opr = helpers[d].opr
               /\ helpers'[d].ct \in {none, dr[u]}
    BY <1>2, <1>5, <2>1, <2>6 DEF HelpersAlone, Working
  <2>7. HelpersAlone(u)'
    BY <1>4, <2>1, <2>2, <2>6 DEF HelpersAlone
  <2> QED
    BY <2>5, <2>7
<1> QED
  BY <1>6, <1>7 DEF BreakInv

(* A helper writes them back.                                              *)
LEMMA WriteKept ==
  ASSUME BreakInv, NEW c \in Threads, Breakpoints!SetThreadContext(c)
  PROVE  BreakInv'
<1>0. BreakTypes /\ helpers[c] # none
  BY DEF BreakInv, Breakpoints!SetThreadContext
<1>1. PICK op : op = helpers[c]
  OBVIOUS
<1>2. PICK t : t = op.target
  OBVIOUS
<1>3. /\ op \in Breakpoints!Helpers /\ op.h \in Breakpoints!Handles /\ t \in Threads
      /\ op.ct \in Breakpoints!Contexts /\ op.opr \in {"set", "remove"} /\ op.ct # none
  BY <1>0, <1>1, <1>2, HelperFields DEF Breakpoints!SetThreadContext
<1>4. helpers' = [helpers EXCEPT ![c] = none] /\ UNCHANGED <<breakpoints, met>>
  BY DEF Breakpoints!SetThreadContext
<1>5. helpers'[c] = none /\ \A d \in Threads : d # c => helpers'[d] = helpers[d]
  BY <1>0, <1>4 DEF BreakTypes
<1>6. \A u \in Threads, d \in Threads : Working(d, u)' <=> Working(d, u) /\ d # c
  BY <1>5 DEF Working
<1>7. helpers' \in [Threads -> Breakpoints!Helpers \union {none}]
  BY <1>0, <1>4 DEF BreakTypes
<1>8. \A d \in Threads : helpers'[d] # none /\ helpers'[d].opr = "set" => helpers'[d].h.on = helpers'[d].target
  BY <1>0, <1>5 DEF BreakTypes
<1>9. ASSUME NEW u \in Threads \ met, HelpersAlone(u), u = t
      PROVE  /\ \A d \in Threads : ~Working(d, u)' /\ (Working(d, u) <=> d = c)
             /\ op.h.on = u /\ op.ct = dr[u] /\ HelpersAlone(u)'
             /\ op.opr = "remove" => op.h \notin handles /\ op.h.iReg \in Registers
  <2>1. Working(c, u)
    BY <1>0, <1>1, <1>2, <1>9 DEF Working
  <2>2. \A d \in Threads : ~Working(d, u)' /\ (Working(d, u) <=> d = c)
    BY <1>6, <1>9, <2>1 DEF HelpersAlone
  <2>3. HelpersAlone(u)'
    BY <2>2 DEF HelpersAlone
  <2> QED
    BY <1>1, <1>3, <1>9, <2>1, <2>2, <2>3 DEF HelpersAlone
<1>10. CASE op.opr = "remove" /\ dr' = [dr EXCEPT ![t] = [op.ct EXCEPT ![op.h.iReg] = none]] /\ handles' = handles
  <2>1. [op.ct EXCEPT ![op.h.iReg] = none] \in Breakpoints!Contexts
    BY <1>3 DEF Breakpoints!Contexts
  <2>2. dr'[t] = [op.ct EXCEPT ![op.h.iReg] = none] /\ \A u \in Threads : u # t => dr'[u] = dr[u]
    BY <1>0, <1>3, <1>10 DEF BreakTypes
  <2>3. BreakTypes'
    <3>1. dr' \in [Threads -> Breakpoints!Contexts]
      BY <1>0, <1>10, <2>1 DEF BreakTypes
    <3> QED
      BY <1>0, <1>4, <1>7, <1>8, <1>10, <3>1 DEF BreakTypes
  <2>4. ASSUME NEW u \in Threads, u \notin met'
        PROVE  HelpersAlone(u)' /\ Watched(u)'
    <3>1. HelpersAlone(u) /\ Watched(u) /\ u \in Threads \ met
      BY <1>4, <2>4 DEF BreakInv
    <3>2. CASE u # t
      <4>1. \A d \in Threads : (Working(d, u) <=> Working(d, u)') /\ (Working(d, u) => helpers'[d] = helpers[d])
        BY <1>1, <1>2, <1>5, <1>6, <3>2 DEF Working
      <4> QED
        BY <1>10, <2>2, <3>1, <3>2, <4>1, BreakOthers
    <3>3. CASE u = t
      <4>1. /\ \A d \in Threads : ~Working(d, u)' /\ (Working(d, u) <=> d = c)
            /\ op.h.on = u /\ op.ct = dr[u] /\ HelpersAlone(u)'
            /\ op.h \notin handles /\ op.h.iReg \in Registers
        BY <1>9, <1>10, <3>1, <3>3
      <4>2. PICK h \in Breakpoints!Handles : h = op.h
        BY <1>3
      <4>3. \A g : Holding(u, g)' <=> Holding(u, g) /\ g # h
        BY <1>1, <1>10, <4>1, <4>2 DEF Holding, Removing
      <4>4. Holding(u, h)
        BY <1>1, <1>10, <4>1, <4>2 DEF Holding, Removing
      <4>5. dr[u] \in [Registers -> Nat \union {none}] /\ dr'[u] = [dr[u] EXCEPT ![h.iReg] = none]
        BY <1>3, <2>2, <3>3, <4>1, <4>2 DEF Breakpoints!Contexts
      <4>6. PICK i \in Registers : i = h.iReg
        BY <4>1, <4>2
      <4>7. dr'[u][i] = none /\ \A r \in Registers : r # i => dr'[u][r] = dr[u][r]
        BY <4>5, <4>6
      <4>8. \A g \in Breakpoints!Handles : Holding(u, g)' => g.iReg \in Registers
        BY <1>0, <1>10, <4>1 DEF Holding, Removing, BreakTypes
      <4>9. \A g \in Breakpoints!Handles : Holding(u, g)' => g.iReg # i /\ dr'[u][g.iReg] = g.a
        BY <3>1, <4>2, <4>3, <4>4, <4>6, <4>7, <4>8 DEF Watched
      <4>10. ASSUME NEW r \in Registers, dr'[u][r] # none
             PROVE  \E g \in Breakpoints!Handles : Holding(u, g)' /\ g.iReg = r
        <5>1. r # i /\ dr[u][r] # none
          BY <4>7, <4>10
        <5>2. PICK g \in Breakpoints!Handles : Holding(u, g) /\ g.iReg = r
          BY <3>1, <5>1 DEF Watched
        <5> QED
          BY <4>3, <4>6, <5>1, <5>2
      <4>11. \A g, k \in Breakpoints!Handles : Holding(u, g)' /\ Holding(u, k)' /\ g.iReg = k.iReg => g = k
        BY <3>1, <4>3 DEF Watched
      <4> QED
        BY <4>1, <4>9, <4>10, <4>11 DEF Watched
    <3> QED
      BY <3>2, <3>3
  <2> QED
    BY <2>3, <2>4 DEF BreakInv
<1>11. ASSUME NEW r \in Breakpoints!Idle(op.ct), op.opr = "set",
              dr' = [dr EXCEPT ![t] = [op.ct EXCEPT ![r] = op.h.a]],
              handles' = handles \union {[op.h EXCEPT !.iReg = r]}
       PROVE  BreakInv'
  <2>1. r \in Registers /\ r \in Nat /\ op.ct[r] = none
    BY <1>11, RegistersAssumption DEF Breakpoints!Idle, Breakpoints!Busy
  <2>2. PICK h : h = [op.h EXCEPT !.iReg = r]
    OBVIOUS
  <2>3. h \in Breakpoints!Handles /\ h.iReg = r /\ h.a = op.h.a /\ h.on = op.h.on /\ h.a \in Nat
    BY <1>3, <2>1, <2>2 DEF Breakpoints!Handles
  <2>4. h.on = t
    BY <1>0, <1>1, <1>2, <1>11, <2>3 DEF BreakTypes
  <2>5. [op.ct EXCEPT ![r] = op.h.a] \in Breakpoints!Contexts
    BY <1>3, <2>3 DEF Breakpoints!Contexts
  <2>6. dr'[t] = [op.ct EXCEPT ![r] = op.h.a] /\ \A u \in Threads : u # t => dr'[u] = dr[u]
    BY <1>0, <1>3, <1>11 DEF BreakTypes
  <2>7. BreakTypes'
    <3>1. dr' \in [Threads -> Breakpoints!Contexts]
      BY <1>0, <1>11, <2>5 DEF BreakTypes
    <3>2. handles' \subseteq Breakpoints!Handles /\ \A g \in handles' : g.iReg \in Registers
      BY <1>0, <1>11, <2>1, <2>2, <2>3 DEF BreakTypes
    <3> QED
      BY <1>0, <1>4, <1>7, <1>8, <3>1, <3>2 DEF BreakTypes
  <2>8. ASSUME NEW u \in Threads, u \notin met'
        PROVE  HelpersAlone(u)' /\ Watched(u)'
    <3>1. HelpersAlone(u) /\ Watched(u) /\ u \in Threads \ met
      BY <1>4, <2>8 DEF BreakInv
    <3>2. CASE u # t
      <4>1. \A d \in Threads : (Working(d, u) <=> Working(d, u)') /\ (Working(d, u) => helpers'[d] = helpers[d])
        BY <1>1, <1>2, <1>5, <1>6, <3>2 DEF Working
      <4>2. \A g : g \in handles' /\ g.on = u <=> g \in handles /\ g.on = u
        BY <1>11, <2>2, <2>4, <3>2
      <4> QED
        BY <2>6, <3>1, <3>2, <4>1, <4>2, BreakOthers
    <3>3. CASE u = t
      <4>1. /\ \A d \in Threads : ~Working(d, u)' /\ (Working(d, u) <=> d = c)
            /\ op.ct = dr[u] /\ HelpersAlone(u)'
        BY <1>9, <3>1, <3>3
      <4>2. \A g : Holding(u, g)' <=> Holding(u, g) \/ g = h
        <5>1. \A d \in Threads : \A g : ~Removing(d, u, g) /\ ~Removing(d, u, g)'
          BY <1>1, <1>11, <4>1 DEF Removing
        <5> QED
          BY <1>11, <2>2, <2>4, <3>3, <5>1 DEF Holding
      <4>3. dr[u] \in [Registers -> Nat \union {none}] /\ dr'[u] = [dr[u] EXCEPT ![r] = h.a]
        BY <1>3, <2>3, <2>6, <3>3, <4>1 DEF Breakpoints!Contexts
      <4>4. dr'[u][r] = h.a /\ \A q \in Registers : q # r => dr'[u][q] = dr[u][q]
        BY <2>1, <4>3
      <4>5. dr[u][r] = none /\ none \notin Nat
        BY <2>1, <4>1, NoneAssumption
      <4>6. \A g \in Breakpoints!Handles : g.a \in Nat
        BY DEF Breakpoints!Handles
      <4>7. \A g \in Breakpoints!Handles : Holding(u, g) => g.iReg # r /\ dr[u][g.iReg] = g.a
        BY <3>1, <4>5, <4>6 DEF Watched
      <4>8. \A g \in Breakpoints!Handles : Holding(u, g) => g.iReg \in Registers
        BY <1>0, <1>1, <1>11, <4>1 DEF Holding, Removing, BreakTypes
      <4>9. \A g \in Breakpoints!Handles : Holding(u, g)' => dr'[u][g.iReg] = g.a
        BY <2>3, <4>2, <4>4, <4>7, <4>8
      <4>10. ASSUME NEW q \in Registers, dr'[u][q] # none
             PROVE  \E g \in Breakpoints!Handles : Holding(u, g)' /\ g.iReg = q
        <5>1. CASE q = r
          BY <2>3, <4>2, <5>1
        <5>2. CASE q # r
          BY <3>1, <4>2, <4>4, <4>10, <5>2 DEF Watched
        <5> QED
          BY <5>1, <5>2
      <4>11. \A g, k \in Breakpoints!Handles : Holding(u, g)' /\ Holding(u, k)' /\ g.iReg = k.iReg => g = k
        BY <2>3, <3>1, <4>2, <4>7 DEF Watched
      <4> QED
        BY <4>1, <4>9, <4>10, <4>11 DEF Watched
    <3> QED
      BY <3>2, <3>3
  <2> QED
    BY <2>7, <2>8 DEF BreakInv
<1>12. CASE op.opr = "set" /\ UNCHANGED <<dr, handles>>
  <2>1. BreakTypes'
    BY <1>0, <1>4, <1>7, <1>8, <1>12 DEF BreakTypes
  <2>2. ASSUME NEW u \in Threads, u \notin met'
        PROVE  HelpersAlone(u)' /\ Watched(u)'
    <3>1. HelpersAlone(u) /\ Watched(u) /\ u \in Threads \ met
      BY <1>4, <2>2 DEF BreakInv
    <3>2. HelpersAlone(u)'
      BY <1>5, <1>6, <1>12, <3>1 DEF HelpersAlone
    <3>3. \A d \in Threads : \A g : Removing(d, u, g)' <=> Removing(d, u, g)
      BY <1>1, <1>5, <1>6, <1>12 DEF Removing
    <3>4. \A g : Holding(u, g)' <=> Holding(u, g)
      BY <1>12, <3>3 DEF Holding
    <3> QED
      BY <1>12, <3>1, <3>2, <3>4 DEF Watched
  <2> QED
    BY <2>1, <2>2 DEF BreakInv
<1> QED
  BY <1>1, <1>2, <1>10, <1>11, <1>12 DEF Breakpoints!SetThreadContext

(* Whichever of the four it is.                                            *)
LEMMA BreakKept ==
  ASSUME BreakInv, Breakpoints!Next
  PROVE  BreakInv'
BY SetKept, RemoveKept, GetKept, WriteKept DEF Breakpoints!Next

(* From the invariant to the property.                                     *)
LEMMA BreakRight == BreakInv => Breakpoints!BreakpointsStay
<1> SUFFICES ASSUME BreakInv, NEW t \in Threads \ (met \union Breakpoints!WorkedOn)
             PROVE  LET on == {h \in handles : h.on = t}
                    IN  /\ \A h \in on : dr[t][h.iReg] = h.a
                        /\ \A r \in Registers : dr[t][r] # none => \E h \in on : h.iReg = r
                        /\ \A h, g \in on : h.iReg = g.iReg => h = g
  BY DEF Breakpoints!BreakpointsStay
<1>1. Watched(t) /\ handles \subseteq Breakpoints!Handles
  BY DEF BreakInv, BreakTypes
<1>2. \A c \in Threads : ~Working(c, t)
  BY DEF Working, Breakpoints!WorkedOn
<1>3. \A h : Holding(t, h) <=> h \in handles /\ h.on = t
  BY <1>2 DEF Holding, Removing
<1> QED
  BY <1>1, <1>3 DEF Watched

-----------------------------------------------------------------------------
(* Lobbies *)

(* Every value that is there, stored, handed on or read, is that of a set  *)
(* for its owner and under its key.                                        *)
SetFor(p, key, value) == value = 0 \/ (value \in 1..Len(sets) /\ sets[value] = [lobby |-> p, key |-> key])

LobbyInv ==
  /\ sets \in Seq([lobby : Players, key : LobbyKeys])
  /\ presence \in [Players -> [LobbyKeys -> Nat]]
  /\ known \in [Players -> [LobbyKeys -> Nat]]
  /\ joinedLobby \in [Players -> Players \union {none}]
  /\ info \in [Players -> Players \union {none}]
  /\ \A p \in Players, key \in LobbyKeys : SetFor(p, key, presence[p][key]) /\ SetFor(p, key, known[p][key])
  /\ SetFor(answer.lobby, answer.key, answer.value)

(* Nobody has joined, and nothing is set.                                  *)
LEMMA LobbyStarts == Lobby!Init => LobbyInv
BY DEF Lobby!Init, LobbyInv, Lobby!Unset, Lobby!NoAnswer, SetFor

(* Whoever knows where each value comes from knows whose it is.            *)
LEMMA LobbyRight == LobbyInv => Lobby!DataOfTheJoined
<1> SUFFICES ASSUME LobbyInv
             PROVE  Lobby!DataOfTheJoined
  OBVIOUS
<1>1. answer.value # 0 => sets[answer.value] = [lobby |-> answer.lobby, key |-> answer.key]
  BY DEF LobbyInv, SetFor
<1>2. ASSUME NEW p \in Players, NEW key \in LobbyKeys, known[p][key] # 0
      PROVE  sets[known[p][key]].lobby = p
  <2>1. SetFor(p, key, known[p][key])
    BY DEF LobbyInv
  <2> QED
    BY <1>2, <2>1 DEF SetFor
<1> QED
  BY <1>1, <1>2 DEF Lobby!DataOfTheJoined

(* A set is numbered after those before it, which stay as they are.        *)
LEMMA LobbySets ==
  ASSUME LobbyInv, NEW p \in Players, NEW key \in LobbyKeys, Lobby!Sets(p, p, key),
         UNCHANGED <<joinedLobby, known, info, answer>>
  PROVE  LobbyInv'
<1> DEFINE s == [lobby |-> p, key |-> key]
<1>1. s \in [lobby : Players, key : LobbyKeys] /\ sets' = Append(sets, s)
  BY DEF Lobby!Sets
<1> HIDE DEF s
<1>2. /\ sets' \in Seq([lobby : Players, key : LobbyKeys])
      /\ Len(sets') = Len(sets) + 1 /\ Len(sets) \in Nat
      /\ sets'[Len(sets) + 1] = s
      /\ \A v \in 1..Len(sets) : sets'[v] = sets[v]
  BY <1>1 DEF LobbyInv
<1>4. presence' = [presence EXCEPT ![p][key] = Len(sets')]
  BY DEF Lobby!Sets
<1>5. presence' \in [Players -> [LobbyKeys -> Nat]]
  <2>1. PICK own : own = [presence[p] EXCEPT ![key] = Len(sets')]
    OBVIOUS
  <2>2. presence[p] \in [LobbyKeys -> Nat] /\ Len(sets') \in Nat
    BY <1>2 DEF LobbyInv
  <2>3. own \in [LobbyKeys -> Nat]
    BY <2>1, <2>2
  <2>4. presence' = [presence EXCEPT ![p] = own]
    BY <1>4, <2>1
  <2> QED
    BY <2>3, <2>4 DEF LobbyInv
<1>6. ASSUME NEW q \in Players, NEW k \in LobbyKeys
      PROVE  SetFor(q, k, presence[q][k])'
  <2>1. CASE q = p /\ k = key
    <3>1. presence'[q][k] = Len(sets) + 1
      BY <1>2, <1>4, <2>1 DEF LobbyInv
    <3> QED
      BY <1>2, <2>1, <3>1 DEF SetFor, s
  <2>2. CASE ~(q = p /\ k = key)
    <3>1. presence'[q][k] = presence[q][k] /\ SetFor(q, k, presence[q][k])
      BY <1>4, <2>2 DEF LobbyInv
    <3> QED
      BY <1>2, <3>1 DEF SetFor
  <2> QED
    BY <2>1, <2>2
<1>7. ASSUME NEW q \in Players, NEW k \in LobbyKeys
      PROVE  SetFor(q, k, known[q][k])'
  <2>1. known'[q][k] = known[q][k] /\ SetFor(q, k, known[q][k])
    BY DEF LobbyInv
  <2> QED
    BY <1>2, <2>1 DEF SetFor
<1>8. SetFor(answer.lobby, answer.key, answer.value)'
  <2>1. answer' = answer /\ SetFor(answer.lobby, answer.key, answer.value)
    BY DEF LobbyInv
  <2> QED
    BY <1>2, <2>1 DEF SetFor
<1> QED
  BY <1>2, <1>5, <1>6, <1>7, <1>8 DEF LobbyInv

(* Each of the calls, and what the answer brings.                          *)
LEMMA LobbyKept ==
  ASSUME LobbyInv, Lobby!Next
  PROVE  LobbyInv'
<1>1. ASSUME UNCHANGED Lobby!vars
      PROVE  LobbyInv'
  BY <1>1 DEF LobbyInv, SetFor, Lobby!vars
<1>2. ASSUME NEW p \in Players, NEW o \in Players, Lobby!JoinLobby(p, o)
      PROVE  LobbyInv'
  BY <1>2 DEF LobbyInv, SetFor, Lobby!JoinLobby
<1>3. ASSUME NEW p \in Players, Lobby!Accept(p)
      PROVE  LobbyInv'
  <2>1. info[p] \in Players /\ Lobby!JoinLobby(p, info[p])
    BY <1>3 DEF Lobby!Accept, LobbyInv
  <2> QED
    BY <1>2, <2>1
<1>4. ASSUME NEW p \in Players, Lobby!ClearRichPresence(p)
      PROVE  LobbyInv'
  <2>1. /\ presence' = [presence EXCEPT ![p]["connect"] = 0]
        /\ UNCHANGED <<joinedLobby, known, sets, info, answer>>
    BY <1>4 DEF Lobby!ClearRichPresence
  <2>2. presence' \in [Players -> [LobbyKeys -> Nat]]
    BY <2>1 DEF LobbyInv
  <2>3. \A q \in Players, k \in LobbyKeys : presence'[q][k] = presence[q][k] \/ presence'[q][k] = 0
    BY <2>1 DEF LobbyInv
  <2>4. \A q \in Players, k \in LobbyKeys : SetFor(q, k, presence'[q][k])
    <3>1. \A q \in Players, k \in LobbyKeys : SetFor(q, k, presence[q][k])
      BY DEF LobbyInv
    <3>2. \A q \in Players, k \in LobbyKeys : SetFor(q, k, 0)
      BY DEF SetFor
    <3> QED
      BY <2>3, <3>1, <3>2
  <2> QED
    BY <2>1, <2>2, <2>4 DEF LobbyInv, SetFor
<1>5. ASSUME NEW p \in Players, Lobby!GetFriendByIndex(p)
      PROVE  LobbyInv'
  BY <1>5, LobbySets, NamesAssumption DEF Lobby!GetFriendByIndex
<1>6. ASSUME NEW p \in Players, Lobby!HandedOn(p)
      PROVE  LobbyInv'
  <2>1. /\ known' = [known EXCEPT ![p] = presence[p]]
        /\ UNCHANGED <<joinedLobby, presence, sets, info, answer>>
    BY <1>6 DEF Lobby!HandedOn
  <2>2. known' \in [Players -> [LobbyKeys -> Nat]]
    BY <2>1 DEF LobbyInv
  <2>3. \A q \in Players, k \in LobbyKeys : known'[q][k] = known[q][k] \/ known'[q][k] = presence[q][k]
    BY <2>1 DEF LobbyInv
  <2>4. \A q \in Players, k \in LobbyKeys : SetFor(q, k, known'[q][k])
    BY <2>3 DEF LobbyInv
  <2>5. \A q \in Players, k \in LobbyKeys : SetFor(q, k, presence[q][k])' /\ SetFor(q, k, known[q][k])'
    <3> TAKE q \in Players, k \in LobbyKeys
    <3>1. SetFor(q, k, presence'[q][k]) /\ SetFor(q, k, known'[q][k])
      BY <2>1, <2>4 DEF LobbyInv
    <3> QED
      BY <2>1, <3>1 DEF SetFor
  <2> QED
    BY <2>1, <2>2, <2>5 DEF LobbyInv, SetFor
<1>7. ASSUME NEW p \in Players, NEW o \in Players, Lobby!GetFriendGamePlayed(p, o)
      PROVE  LobbyInv'
  <2>1. /\ info' = info \/ info' = [info EXCEPT ![p] = o]
        /\ UNCHANGED <<joinedLobby, presence, known, sets, answer>>
    BY <1>7 DEF Lobby!GetFriendGamePlayed
  <2>2. info' \in [Players -> Players \union {none}]
    BY <2>1 DEF LobbyInv
  <2> QED
    BY <2>1, <2>2 DEF LobbyInv, SetFor
<1>8. ASSUME NEW p \in Players, NEW key \in LobbyKeys, Lobby!SetRichPresence(p, key)
      PROVE  LobbyInv'
  BY <1>8, LobbySets DEF Lobby!SetRichPresence
<1>9. ASSUME NEW p \in Players, NEW o \in Players, NEW key \in LobbyKeys, Lobby!SetLobbyData(p, o, key)
      PROVE  LobbyInv'
  <2>1. CASE o = p
    BY <1>9, <2>1, LobbySets DEF Lobby!SetLobbyData
  <2>2. CASE o # p
    BY <1>1, <1>9, <2>2 DEF Lobby!SetLobbyData, Lobby!Ignored, Lobby!vars
  <2> QED
    BY <2>1, <2>2
<1>10. ASSUME NEW p \in Players, NEW o \in Players, NEW key \in LobbyKeys, Lobby!GetLobbyData(p, o, key)
       PROVE  LobbyInv'
  <2>1. PICK q : q = joinedLobby[p]
    OBVIOUS
  <2>2. q \in Players
    BY <1>10, <2>1 DEF Lobby!GetLobbyData, LobbyInv
  <2>3. /\ answer' = [lobby |-> q, key |-> key, value |-> known[q][key]]
        /\ UNCHANGED <<joinedLobby, presence, known, sets, info>>
    BY <1>10, <2>1 DEF Lobby!GetLobbyData
  <2>4. answer'.lobby = q /\ answer'.key = key /\ answer'.value = known[q][key]
    BY <2>3
  <2> QED
    BY <2>2, <2>3, <2>4 DEF LobbyInv, SetFor
<1> QED
  BY <1>1, <1>2, <1>3, <1>4, <1>5, <1>6, <1>7, <1>8, <1>9, <1>10
     DEF Lobby!Next, Lobby!CreateLobby, Lobby!LeaveLobby

-----------------------------------------------------------------------------
(* The start *)

(* A socket that is open and blocks is one that could not be bound.        *)
StartupInv ==
  /\ socket \in [open : BOOLEAN, bound : BOOLEAN, blocks : BOOLEAN, failed : BOOLEAN]
  /\ socket.bound => socket.open
  /\ socket.open /\ socket.blocks => socket.failed

(* Before SteamAPI_Init there is no socket.                                *)
LEMMA StartupStarts == Start!Init => StartupInv /\ Start!FramesGoOn
BY DEF Start!Init, StartupInv, Start!NoSocket, Start!FramesGoOn, Start!Waits

(* Only GSClient_Init opens it, and sendto binds it.                       *)
LEMMA StartupKept ==
  ASSUME StartupInv, Start!Next
  PROVE  StartupInv' /\ Start!FramesGoOn'
<1>1. StartupInv'
  <2>1. CASE socket' = socket
    BY <2>1 DEF StartupInv
  <2>2. CASE Start!GSClient_Init
    <3>1. \/ socket' = [open |-> FALSE, bound |-> FALSE, blocks |-> TRUE, failed |-> FALSE]
          \/ socket' = [open |-> TRUE, bound |-> FALSE, blocks |-> TRUE, failed |-> TRUE]
          \/ socket' = [open |-> TRUE, bound |-> TRUE, blocks |-> FALSE, failed |-> FALSE]
      BY <2>2 DEF Start!GSClient_Init, Start!Opened, Start!NoSocket
    <3>2. socket' \in [open : BOOLEAN, bound : BOOLEAN, blocks : BOOLEAN, failed : BOOLEAN]
      <4>1. CASE socket' = [open |-> FALSE, bound |-> FALSE, blocks |-> TRUE, failed |-> FALSE]
        BY <4>1
      <4>2. CASE socket' = [open |-> TRUE, bound |-> FALSE, blocks |-> TRUE, failed |-> TRUE]
        BY <4>2
      <4>3. CASE socket' = [open |-> TRUE, bound |-> TRUE, blocks |-> FALSE, failed |-> FALSE]
        BY <4>3
      <4> QED
        BY <3>1, <4>1, <4>2, <4>3
    <3>3. socket'.bound => socket'.open
      BY <3>1
    <3>4. socket'.open /\ socket'.blocks => socket'.failed
      BY <3>1
    <3> QED
      BY <3>2, <3>3, <3>4 DEF StartupInv
  <2>3. CASE Start!GSClient_QueryMaster
    <3>1. /\ socket'.bound = socket.open /\ socket'.open = socket.open
          /\ socket'.blocks = socket.blocks /\ socket'.failed = socket.failed
          /\ socket' \in [open : BOOLEAN, bound : BOOLEAN, blocks : BOOLEAN, failed : BOOLEAN]
      BY <2>3 DEF StartupInv, Start!GSClient_QueryMaster
    <3> QED
      BY <3>1 DEF StartupInv
  <2> QED
    BY <2>1, <2>2, <2>3 DEF Start!Next, Start!PM_Connect, Start!PM_CreateSessionWithKey,
       Start!Arrives,
      Start!SteamAPI_RunCallbacks, Start!GSClient_PollSocket
<1> QED
  BY <1>1 DEF StartupInv, Start!FramesGoOn, Start!Waits

-----------------------------------------------------------------------------
(* Whichever part runs *)

(* Steps of the other parts leave a part's variables as they are.          *)
LEMMA MenuSame ==
  ASSUME MenuInv, UNCHANGED menuVars
  PROVE  MenuInv'
BY DEF MenuInv, MenuFields, menuVars, Menu!Ended, Menu!At, Menu!Alone, Menu!Full, Menu!Wtf

(* The same for the console.                                               *)
LEMMA ConsoleSame ==
  ASSUME ConsoleInv, UNCHANGED consoleVars
  PROVE  ConsoleInv'
BY DEF ConsoleInv, KeysInv, LineTypes, LineInside, LineSearched, consoleVars,
   Console!FindSuggestionDvars,
       Console!listed, Console!Matches

(* The same for the imports.                                               *)
LEMMA ImportSame ==
  ASSUME ImportInv, UNCHANGED importVars
  PROVE  ImportInv'
<1>1. UNCHANGED <<table, slots, step>>
  BY DEF importVars
<1>2. Import!Places' = Import!Places /\ \A p : Import!Import(p)' = Import!Import(p) /\ Import!Slot(p)' = Import!Slot(p)
  BY <1>1 DEF Import!Places, Import!Import, Import!Slot
<1>3. ImportShape'
  BY <1>1, <1>2 DEF ImportInv, ImportShape
<1>4. \A p, i : (Mine(p, i)' <=> Mine(p, i)) /\ (Socket(p, i)' <=> Socket(p, i))
  BY <1>1, <1>2 DEF Mine, Socket, Import!Found, Import!Searched
<1> QED
  BY <1>2, <1>3, <1>4 DEF ImportInv

(* The same for the filter.                                                *)
LEMMA FilterSame ==
  ASSUME FilterInv, UNCHANGED filterVars
  PROVE  FilterInv'
BY DEF FilterInv, FilterTypes, FilterAlone, FilterAt, filterVars

(* The same for the texts.                                                 *)
LEMMA TextSame ==
  ASSUME TextInv, UNCHANGED textVars
  PROVE  TextInv'
<1>1. UNCHANGED <<size, next, buffers, calls>>
  BY DEF textVars
<1>2. TextTypes'
  BY <1>1 DEF TextInv, TextTypes
<1>3. \A c : Past(c)' = Past(c)
  BY <1>1 DEF Past, Advanced
<1>4. \A c : TextAlone(c)' <=> TextAlone(c)
  BY <1>1, <1>3 DEF TextAlone, TextLast, TextFar
<1> QED
  BY <1>1, <1>2, <1>4 DEF TextInv

(* The same for the session key.                                           *)
LEMMA KeySame ==
  ASSUME KeyInv, UNCHANGED keyVars
  PROVE  KeyInv'
BY DEF KeyInv, keyVars, SKey!Done, SKey!KeysWhole

(* The same for the log.                                                   *)
LEMMA LogSame ==
  ASSUME LogInv, UNCHANGED logVars
  PROVE  LogInv'
<1>1. UNCHANGED <<queue, printing, file, prints, together>>
  BY DEF logVars
<1>2. LogTypes'
  BY <1>1 DEF LogInv, LogTypes
<1>3. Printed!Inside' = Printed!Inside /\ (LinesWhole' <=> LinesWhole) /\ \A t : Placed(t)' <=> Placed(t)
  BY <1>1 DEF Printed!Inside, Printed!At, LinesWhole, Placed
<1> QED
  BY <1>1, <1>2, <1>3 DEF LogInv, LogAlone

(* The same for the kicks.                                                 *)
LEMMA KickSame ==
  ASSUME KickInv, UNCHANGED kickVars
  PROVE  KickInv'
BY DEF KickInv, Kick!KicksTheOneMeant, kickVars

(* The same for the login.                                                 *)
LEMMA AuthSame ==
  ASSUME AuthInv, UNCHANGED loginVars
  PROVE  AuthInv'
<1>1. UNCHANGED <<at, n, held, launcher, coming, buf, identity, asked>>
  BY DEF loginVars
<1>2. AuthHeld' /\ AuthTypes'
  BY <1>1 DEF AuthInv, AuthHeld, AuthTypes, Auth!Released
<1>3. AuthOrder' /\ AuthFields'
  BY <1>1 DEF AuthInv, AuthOrder, AuthFields, NameFits, FieldRight, Auth!Whole
<1>4. AuthComing'
  BY <1>1 DEF AuthInv, AuthComing, Coming, Came
<1> QED
  BY <1>2, <1>3, <1>4 DEF AuthInv

(* The same for the breakpoints.                                           *)
LEMMA BreakSame ==
  ASSUME BreakInv, UNCHANGED breakpointVars
  PROVE  BreakInv'
BY DEF BreakInv, BreakTypes, HelpersAlone, Watched, Holding, Removing, Working, breakpointVars

(* The same for the lobbies.                                               *)
LEMMA LobbySame ==
  ASSUME LobbyInv, UNCHANGED lobbyVars
  PROVE  LobbyInv'
BY DEF LobbyInv, SetFor, lobbyVars

(* The same for the start.                                                 *)
LEMMA StartupSame ==
  ASSUME StartupInv, Start!FramesGoOn, UNCHANGED startupVars
  PROVE  StartupInv' /\ Start!FramesGoOn'
BY DEF StartupInv, Start!FramesGoOn, Start!Waits, startupVars

(* The invariant: the one of the part that runs.                           *)
Inv ==
  /\ part = "menus" => MenuInv
  /\ part = "console" => ConsoleInv
  /\ part = "imports" => ImportInv
  /\ part = "filter" => FilterInv
  /\ part = "texts" => TextInv
  /\ part = "key" => KeyInv
  /\ part = "log" => LogInv
  /\ part = "kick" => KickInv
  /\ part = "login" => AuthInv
  /\ part = "breakpoints" => BreakInv
  /\ part = "lobbies" => LobbyInv
  /\ part = "startup" => StartupInv /\ Start!FramesGoOn

(* Each part starts with its invariant, and each step of it keeps it.      *)
LEMMA InvStarts == Init => Inv
BY MenuStarts, ConsoleStarts, ImportStarts, FilterStarts, TextStarts, KeyStarts, LogStarts, KickStarts,
   AuthStarts, BreakStarts, LobbyStarts, StartupStarts DEF Init, Started, Inv

(* A step is one of the part that runs, or none of it.                     *)
LEMMA PartStep ==
  ASSUME [Next]_vars
  PROVE  /\ part' = part
         /\ part = "menus" => Menu!Next \/ UNCHANGED menuVars
         /\ part = "console" => Console!Next \/ UNCHANGED consoleVars
         /\ part = "imports" => Import!Next \/ UNCHANGED importVars
         /\ part = "filter" => Filter!Next \/ UNCHANGED filterVars
         /\ part = "texts" => Texts!Next \/ UNCHANGED textVars
         /\ part = "key" => SKey!Next \/ UNCHANGED keyVars
         /\ part = "log" => Printed!Next \/ UNCHANGED logVars
         /\ part = "kick" => Kick!Next \/ UNCHANGED kickVars
         /\ part = "login" => Auth!Next \/ UNCHANGED loginVars
         /\ part = "breakpoints" => Breakpoints!Next \/ UNCHANGED breakpointVars
         /\ part = "lobbies" => Lobby!Next \/ UNCHANGED lobbyVars
         /\ part = "startup" => Start!Next \/ UNCHANGED startupVars
BY DEF Next, vars

(* Whatever part it is, the step keeps its invariant.                      *)
LEMMA InvKept ==
  ASSUME Inv, [Next]_vars
  PROVE  Inv'
<1>1. part = "menus" => MenuInv'
  BY PartStep, MenuKept, MenuSame DEF Inv
<1>2. part = "console" => ConsoleInv'
  BY PartStep, ConsoleKept, ConsoleSame DEF Inv
<1>3. part = "imports" => ImportInv'
  BY PartStep, ImportKept, ImportSame DEF Inv
<1>4. part = "filter" => FilterInv'
  BY PartStep, FilterKept, FilterSame DEF Inv
<1>5. part = "texts" => TextInv'
  BY PartStep, TextKept, TextSame DEF Inv
<1>6. part = "key" => KeyInv'
  BY PartStep, KeyKept, KeySame DEF Inv
<1>7. part = "log" => LogInv'
  BY PartStep, LogKept, LogSame DEF Inv
<1>8. part = "kick" => KickInv'
  BY PartStep, KickKept, KickSame DEF Inv
<1>9. part = "login" => AuthInv'
  BY PartStep, AuthKept, AuthSame DEF Inv
<1>10. part = "breakpoints" => BreakInv'
  BY PartStep, BreakKept, BreakSame DEF Inv
<1>11. part = "lobbies" => LobbyInv'
  BY PartStep, LobbyKept, LobbySame DEF Inv
<1>12. part = "startup" => StartupInv' /\ Start!FramesGoOn'
  BY PartStep, StartupKept, StartupSame DEF Inv
<1>13. part' = part
  BY PartStep
<1> QED
  BY <1>1, <1>2, <1>3, <1>4, <1>5, <1>6, <1>7, <1>8, <1>9, <1>10, <1>11, <1>12, <1>13 DEF Inv

(* Each part's invariant holds as long as it runs.                         *)
THEOREM PartsKeepTheirs == Spec => []Inv
<1>1. Inv /\ [Next]_vars => Inv'
  BY InvKept
<1> QED
  BY InvStarts, <1>1, PTL DEF Spec

(* The texts, the session key, the lines of the log and the rows of the    *)
(* console are what was written, under what each part's comment says.      *)
THEOREM SharedStaysKept == Spec => []SharedKept
<1>1. Inv => SharedKept
  <2>1. KeyInv => SKey!KeysWhole
    BY DEF KeyInv
  <2> QED
    BY <2>1, TextRight, LogRight, ConsoleRight DEF Inv, SharedKept
<1> QED
  BY PartsKeepTheirs, <1>1, PTL

(* Both redirections, the filter of exceptions and the breakpoints stay.   *)
THEOREM HooksStayIn == Spec => []HooksStay
<1>1. Inv => HooksStay
  BY ImportRight, FilterRight, BreakRight DEF Inv, HooksStay
<1> QED
  BY PartsKeepTheirs, <1>1, PTL

(* The login, the kick and the lobby are the one's they are meant for, and *)
(* a start that fails holds up no frame.                                   *)
THEOREM RightOneIsServed == Spec => []RightOneServed
<1>1. Inv => RightOneServed
  <2>1. KickInv => Kick!KicksTheOneMeant
    BY DEF KickInv
  <2> QED
    BY <2>1, AuthRight, LobbyRight DEF Inv, RightOneServed
<1> QED
  BY PartsKeepTheirs, <1>1, PTL

(* No key but Enter is held for down that is up.                           *)
THEOREM OnlyEnterHeld == Spec => []HeldOnlyEnter
<1>1. Inv => HeldOnlyEnter
  BY ConsoleRight DEF Inv, HeldOnlyEnter
<1> QED
  BY PartsKeepTheirs, <1>1, PTL

(* Tab completes what was typed last.                                      *)
THEOREM TabDoesComplete == Spec => TabCompletes
<1>1. Inv /\ [Next]_vars => [part = "console" => Console!Completed]_vars
  BY PartStep, ConsoleCompletes DEF Inv
<1> QED
  BY PartsKeepTheirs, <1>1, PTL DEF Spec, TabCompletes

(* A dump that runs alone empties no file.                                 *)
THEOREM AloneNothingLost == Spec => AloneOverwritesNothing
<1>1. Inv /\ [Next]_vars => [part = "menus" => Menu!OverwritesNothing]_vars
  BY PartStep, MenuRight DEF Inv
<1> QED
  BY PartsKeepTheirs, <1>1, PTL DEF Spec, AloneOverwritesNothing
=============================================================================
