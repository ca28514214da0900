---------------------------- MODULE Authenticate ----------------------------
(***************************************************************************)
(* How the player's identity is found before the game starts               *)
(* (Authenticate of Utilities/HWID.cpp): the serial number of the first    *)
(* drive is asked of Windows, through interfaces that must be given back,  *)
(* then the launcher is asked four times who has logged in to it           *)
(* (Auth_VerifyIdentity, Patches/Authenticate.cpp). Its answers have       *)
(* neither spaces nor zeros in them, and its ids fit an int.               *)
(***************************************************************************)
EXTENDS Integers, Sequences

CONSTANTS
  Drives,      (* the drives a machine may have: sequences of records      *)
               (* [first, serial], whether it is PHYSICALDRIVE0 and        *)
               (* whether it has a serial number                           *)
  Capacity,    (* of the buffer for an answer: 8192                        *)
  SessionSize, (* of authSessionID: 40                                     *)
  NameSize,    (* of authUsername: 256                                     *)
  MaxLogins    (* bound on logins to the launcher                          *)

VARIABLES
  at, n,      (* the call, the drive, or the question the code is at       *)
  held,       (* what must be given back                                   *)
  drives,     (* those not looked at yet                                   *)
  serial,     (* resultsn                                                  *)
  launcher,   (* how many logins the launcher has had                      *)
  coming,     (* what is to come of its answer                             *)
  buf,        (* what came                                                 *)
  identity,   (* authSessionID, authUsername, authUserID and userid        *)
  asked       (* the questions nothing was answered to, and those whose    *)
              (* answer had no room or was gone                            *)

vars == <<at, n, held, drives, serial, launcher, coming, buf, identity, asked>>
machine == <<held, drives, serial>>
answer == <<coming, buf, identity>>

Init ==
  /\ at = "com" /\ n = 1 /\ held = {} /\ serial = "fail"
  /\ drives \in Drives
  /\ launcher \in 1..MaxLogins /\ coming = <<>> /\ buf = <<>> /\ identity = <<>>
  /\ asked = [empty |-> {}, unfit |-> {}]

-----------------------------------------------------------------------------
(* lovely: six calls, what each returns, and what is released if it fails  *)

Gets == <<{"com"}, {}, {"locator"}, {"services"}, {}, {"enumerator"}>>

(* Mutant: after the services are there the locator is forgotten.          *)
Released_NoLocator(i) ==
  <<{}, {"com"}, {"com"}, {"locator", "com"}, {"services", "com"}, {"services", "com"}>>[i]

Released(i) ==
  <<{}, {"com"}, {"com"}, {"locator", "com"},
    {"services", "locator", "com"}, {"services", "locator", "com"}>>[i]

Call ==
  /\ at = "com"
  /\ \/ /\ held' = held \union Gets[n]
        /\ n' = n + 1 /\ at' = IF n = Len(Gets) THEN "drives" ELSE "com"
        /\ UNCHANGED drives
     \/ held' = held \ Released(n) /\ n' = 1 /\ at' = "ask" /\ drives' = <<>>
  /\ UNCHANGED <<launcher, serial, answer, asked>>

(* Each drive is an object, released when its texts are read. The variant  *)
(* with the name is not cleared before the serial number is read into it;  *)
(* without a serial number the name may still be there, and be cleared, or *)
(* be lost, and what stands in its place be no text, which ends the game   *)
(* if the drive is the first.                                              *)
Drive ==
  /\ at = "drives" /\ drives # <<>>
  /\ LET drive == Head(drives)
         found(text) == serial' = IF drive.first THEN text ELSE serial
     IN  \/ drive.serial /\ found("serial") /\ held' = held \union {"name"} /\ at' = at
         \/ ~drive.serial /\ found("name") /\ held' \in {held, held \union {"name"}} /\ at' = at
         \/ /\ ~drive.serial /\ serial' = serial /\ held' = held \union {"name"}
            /\ at' = IF drive.first THEN "exited" ELSE at
  /\ drives' = Tail(drives)
  /\ UNCHANGED <<n, launcher, answer, asked>>

(* The enumeration ends, or fails, which is not told from it.              *)
NoDrive ==
  /\ at = "drives"
  /\ held' = held \ {"services", "locator", "enumerator", "com"}
  /\ at' = "ask" /\ n' = 1 /\ drives' = <<>>
  /\ UNCHANGED <<launcher, serial, answer, asked>>

-----------------------------------------------------------------------------
(* The launcher *)

LogIn ==
  /\ at \notin {"done", "exited"} /\ launcher < MaxLogins
  /\ launcher' = launcher + 1
  /\ UNCHANGED <<at, n, machine, answer, asked>>

(* A letter knows the login that answers, what it was asked, its place in  *)
(* the answer and whether the answer ends there; no login sent Zero, and   *)
(* Other is whatever text other memory holds, an empty one too.            *)
Letter(login, question, k, last) == [login |-> login, question |-> question, place |-> k, last |-> last]
Answer(login, question, size) == [k \in 1..size |-> Letter(login, question, k, k = size)]
Zero == Letter(0, "0", 1, TRUE)
Other == Letter(0, "", 0, FALSE)

-----------------------------------------------------------------------------
(* Auth_VerifyIdentity *)

Questions == <<"GetSessionID", "GetUserName", "GetUserID", "GetUserID">>
Room == <<SessionSize, NameSize, Capacity, Capacity>>

(* What is read where a text has no end, or none of its own: it goes on    *)
(* with what has been written over it, or stands behind it.                *)
Ends(text, from) == {Append(SubSeq(text, 1, cut), Other) : cut \in from..Len(text)}

(* strcpy writes what does not fit behind the session, where the name and  *)
(* the ids are assigned later; strncpy cuts the name, and does not end it; *)
(* the number of a "0" is that of an empty text.                           *)
Kept(text) ==
  CASE n = 1 -> IF Len(text) < SessionSize THEN {text} ELSE Ends(text, SessionSize)
    [] n = 2 -> IF Len(text) < NameSize THEN {text} ELSE Ends(SubSeq(text, 1, NameSize), NameSize)
    [] OTHER -> {IF text = <<Zero>> THEN <<>> ELSE text}

(* The copy of a name without an end is obfuscated as far as memory goes   *)
(* without a zero, whatever stands there.                                  *)
Obfuscated(fields) ==
  IF Len(fields[2]) >= NameSize \/ (\E k \in 1..Len(fields[2]) : fields[2][k] = Other)
  THEN {[i \in 1..4 |-> IF i \in hit THEN <<Other>> ELSE fields[i]] : hit \in SUBSET (1..4)}
  ELSE {fields}

Store(text) ==
  /\ \E field \in Kept(text) :
       LET fields == Append(identity, field)
       IN  identity' \in IF n = 4 THEN Obfuscated(fields) ELSE {fields}
  /\ n' = n + 1 /\ at' = IF n = 4 THEN "done" ELSE "ask"

(* Without a handle of curl's there is an answer at once.                  *)
NoHandle ==
  /\ at = "ask" /\ Store(<<Zero>>)
  /\ asked' = [asked EXCEPT !.empty = @ \union {n}]
  /\ UNCHANGED <<machine, launcher, coming, buf>>

RequestInfoFromLauncher ==
  /\ at = "ask" /\ at' = "receive" /\ buf' = <<>>
  /\ \E size \in 0..Capacity + 1 :
       /\ coming' = Answer(launcher, Questions[n], size)
       /\ asked' = [empty |-> IF size = 0 THEN asked.empty \union {n} ELSE asked.empty,
                    unfit |-> IF size >= Capacity \/ size >= Room[n] THEN asked.unfit \union {n} ELSE asked.unfit]
  /\ UNCHANGED <<n, machine, launcher, identity>>

(* A launcher that is not reached, refuses or breaks off ends the game,    *)
(* and so may the zero that strncat writes behind a full buffer.           *)
Fail ==
  /\ at \in {"ask", "receive"} /\ at' = "exited"
  /\ held' = {} /\ coming' = <<>> /\ buf' = <<>> /\ identity' = <<>>
  /\ UNCHANGED <<n, drives, serial, launcher, asked>>

(* Mutant: a chunk takes the place of those before it.                     *)
Appended_Last(chunk) == chunk

(* A chunk that does not fit is passed over, as if it had been taken.      *)
Appended(chunk) == IF Len(buf) + Len(chunk) > Capacity THEN buf ELSE buf \o chunk

AuthDataReceived ==
  /\ at = "receive" /\ coming # <<>>
  /\ \E size \in 1..Len(coming) :
       /\ buf' = Appended(SubSeq(coming, 1, size))
       /\ coming' = SubSeq(coming, size + 1, Len(coming))
  /\ UNCHANGED <<at, n, machine, launcher, identity, asked>>

(* The buffer is an array of the function that returns: it may be written  *)
(* over before it is copied. A full one has no end of its own either.      *)
Answered ==
  /\ at = "receive" /\ coming = <<>> /\ buf' = <<>>
  /\ \/ Len(buf) < Capacity /\ Store(buf) /\ UNCHANGED asked
     \/ /\ \E text \in Ends(buf, 0) : Store(text)
        /\ asked' = [asked EXCEPT !.unfit = @ \union {n}]
  /\ UNCHANGED <<machine, launcher, coming>>

Next ==
  \/ Call \/ Drive \/ NoDrive \/ LogIn
  \/ NoHandle \/ RequestInfoFromLauncher \/ Fail \/ AuthDataReceived \/ Answered
Spec == Init /\ [][Next]_vars

-----------------------------------------------------------------------------

(* Whichever call fails, nothing is held once the drives are done with but *)
(* the names of drives.                                                    *)
NothingHeld == at \notin {"com", "drives", "exited"} => held \subseteq {"name"}

(* What a login sent is not of an earlier login than what was asked for    *)
(* before it, and no field is of two, whatever failed and whatever had no  *)
(* room: with one login only, all are of it; of what other memory holds    *)
(* nothing is said. And but for the fields whose answer had no room or     *)
(* whose array was gone, and for all of them if that was the name's, a     *)
(* field that was answered is all of one answer to its question, and one   *)
(* that was not is empty or the "0".                                       *)
OneLogin ==
  \A i \in 1..4 : \A j \in i..4 : \A k \in 1..Len(identity[i]) : \A m \in 1..Len(identity[j]) :
    identity[j][m].login = 0 \/ identity[i][k].login <= identity[j][m].login
Whole(i) ==
  \E l \in 1..launcher, size \in 1..Capacity : identity[i] = Answer(l, Questions[i], size)
Fits(i) == i \notin asked.unfit /\ 2 \notin asked.unfit
IdentityOfOne ==
  at = "done" =>
    /\ OneLogin
    /\ \A i \in 1..4 : Fits(i) => IF i \in asked.empty THEN identity[i] \in {<<>>, <<Zero>>} ELSE Whole(i)
=============================================================================
