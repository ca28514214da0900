------------------------------ MODULE MenuDump ------------------------------
(***************************************************************************)
(* The dumpMenus command (Patches/DumpMenu.cpp): each use starts a thread  *)
(* that writes every menu of the game's pool to a file of its own. The     *)
(* note in the code says that it "does NOT overwrite files"; the name is   *)
(* looked for by opening files that are never closed.                      *)
(***************************************************************************)
EXTENDS Integers, Sequences
LOCAL INSTANCE TLC

CONSTANTS
  Dumps,      (* uses of the command                                       *)
  Pool,       (* names of the menus in the pool, in order                  *)
  Unused,     (* the name of an entry that is not in use                   *)
  MaxUnique,  (* MAX_UNIQUE_FILES: 20                                      *)
  MaxStreams  (* how many streams the C library opens: 512                 *)

VARIABLES
  files,    (* for every file the menus written to it, each <<dump, place>> *)
  streams,  (* how many streams are open                                   *)
  dumps     (* for every dump what its thread is at                        *)

vars == <<files, streams, dumps>>

Log == <<"log.txt", 0>>
Wtf == <<"wtf", 0>>
Path(name, i) == <<name, i>>      (* "name", then "name (1)", "name (2)"   *)

(* look counts the names UniqueFile has tried; before are the dumps that   *)
(* had ended when this one started.                                        *)
Init ==
  /\ files = <<>>
  /\ streams = 0
  /\ dumps = [d \in Dumps |->
                [at |-> "idle", n |-> 1, look |-> 0, path |-> Log, log |-> FALSE, before |-> {}]]

At(d, place) == dumps[d].at = place
Ended == {d \in Dumps : At(d, "done")}
Menu(d) == <<d, dumps[d].n>>

-----------------------------------------------------------------------------
(* The C library *)

Full == streams >= MaxStreams
Store(path, writers) == (path :> writers) @@ files

-----------------------------------------------------------------------------

(* The thread of a new dump begins with the log.                           *)
DumpMenu(d) ==
  /\ At(d, "idle")
  /\ dumps' = [dumps EXCEPT ![d].at = "next", ![d].log = ~Full, ![d].before = Ended]
  /\ files' = IF Full THEN files ELSE Store(Log, {<<d, 0>>})
  /\ streams' = IF Full THEN streams ELSE streams + 1

(* The next entry in use, and the name it would like; after the last one   *)
(* the log is closed, which without a log ends the game.                   *)
NextMenu(d) ==
  /\ At(d, "next")
  /\ LET n == dumps[d].n
     IN  IF n > Len(Pool)
         THEN /\ dumps' = [dumps EXCEPT ![d].at = IF dumps[d].log THEN "done" ELSE "crashed"]
              /\ streams' = IF dumps[d].log THEN streams - 1 ELSE streams
         ELSE /\ dumps' = [dumps EXCEPT ![d].at = IF Pool[n] = Unused THEN "next" ELSE "look",
                                        ![d].n = IF Pool[n] = Unused THEN n + 1 ELSE n,
                                        ![d].look = 0]
              /\ UNCHANGED streams
  /\ UNCHANGED files

(* The name UniqueFile looks at: the first one twice.                      *)
Candidate(d) ==
  LET name == Pool[dumps[d].n]
      look == dumps[d].look
  IN  Path(name, IF look = 0 THEN 0 ELSE look - 1)

(* Mutant: the last name made is taken, though nobody looked.              *)
LastResort_Unseen(d) == Path(Pool[dumps[d].n], MaxUnique - 1)

(* When all names are taken.                                               *)
LastResort(d) == Wtf

(* One look of UniqueFile. FileExists leaves the stream of a file that is  *)
(* there open; with no stream left every file seems to be missing.         *)
UniqueFile(d) ==
  /\ At(d, "look")
  /\ LET missing == Full \/ Candidate(d) \notin DOMAIN files
         last    == dumps[d].look = MaxUnique - 1
     IN  /\ dumps' = [dumps EXCEPT ![d].at = IF missing \/ last THEN "create" ELSE "look",
                                   ![d].look = IF missing \/ last THEN @ ELSE @ + 1,
                                   ![d].path = IF missing THEN Candidate(d) ELSE LastResort(d)]
         /\ streams' = IF missing THEN streams ELSE streams + 1
  /\ UNCHANGED files

(* fopen(filename, "w") empties a file that is there. A failure is shown   *)
(* and the menu left out; a file that cannot be logged ends the game.      *)
Create(d) ==
  /\ At(d, "create")
  /\ IF Full
     THEN /\ dumps' = [dumps EXCEPT ![d].at = "next", ![d].n = @ + 1]
          /\ UNCHANGED <<files, streams>>
     ELSE /\ dumps' = [dumps EXCEPT ![d].at = IF dumps[d].log THEN "print" ELSE "crashed"]
          /\ files' = Store(dumps[d].path, {Menu(d)})
          /\ streams' = streams + 1

(* The menu is written, then the file is closed.                           *)
PrintMenu(d) ==
  /\ At(d, "print")
  /\ files' = Store(dumps[d].path, files[dumps[d].path] \union {Menu(d)})
  /\ dumps' = [dumps EXCEPT ![d].at = "next", ![d].n = @ + 1]
  /\ streams' = streams - 1

DumpMenus(d) == NextMenu(d) \/ UniqueFile(d) \/ Create(d) \/ PrintMenu(d)
Next == /\ \A d \in Dumps : ~At(d, "crashed")
        /\ \E d \in Dumps : DumpMenu(d) \/ DumpMenus(d)
Spec == Init /\ [][Next]_vars

-----------------------------------------------------------------------------

(* No other dump has been at work since this one started.                  *)
Alone(d) ==
  \A e \in Dumps \ {d} : At(e, "idle") \/ e \in dumps[d].before

(* "Note: does NOT overwrite files": a dump that runs alone empties no     *)
(* file that is there, whatever earlier dumps left, except that all menus  *)
(* that find no name share one.                                            *)
OverwritesNothing ==
  \A d \in Dumps :
    At(d, "create") /\ files' # files /\ dumps'[d].at # "create" /\ dumps[d].path \in DOMAIN files
      => ~Alone(d) \/ dumps[d].path = Wtf
AloneOverwritesNothing == [][OverwritesNothing]_vars
=============================================================================
