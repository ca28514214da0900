-------------------------- MODULE MatchMakingInfo --------------------------
(***************************************************************************)
(* What a session is described by (DemonWare/bdMatchMaking.cpp): read from *)
(* the game's message, published among the players, and read by those who  *)
(* look for sessions. The service's requests themselves are not served:    *)
(* callService returns before it looks at their type.                      *)
(***************************************************************************)
EXTENDS bdByteBuffer

CONSTANT MinfoSize   (* of the buffer a description is put together in: 1024 *)

Field(name, kind) == [name |-> name, kind |-> kind]
Fields(prefix, kinds) == [i \in DOMAIN kinds |-> Field(<<prefix, i>>, kinds[i])]

(* The settings of the game, by their places; of the 11 numbers before the *)
(* blob and the 16 at the end three and two are kept.                      *)
Settings ==
  Fields("game", <<"i32", "i32", "i32", "blob", "i32", "u32", "u32", "float", "float",
                   "i32", "i32", "u64">>)
Address == <<"address", 0>>
SessionID == <<"sessionID", 0>>
NumPlayers == <<"players", 0>>
Playlist == <<"game", 2>>
UnknownBlob == <<"game", 4>>
UnknownC == <<"game", 5>>

(* A session that was given a name has it behind the address.              *)
Layout(named) ==
  <<Field(Address, "blob")>> \o (IF named THEN <<Field(SessionID, "blob")>> ELSE <<>>)
    \o Fields("unknown", <<"u32", "u32">>)
    \o (IF named THEN <<Field(NumPlayers, "u32")>> ELSE <<>>) \o Settings
Names == {Layout(TRUE)[i].name : i \in 1..Len(Layout(TRUE))}

(* Mutant: the flag has one meaning in both directions.                    *)
serialize_SameFlag(b, info, clientPart) ==
  FoldLeft(LAMBDA buf, f : IF f.kind = "blob" THEN WriteBlob(buf, info[f.name])
                           ELSE WriteScalar(buf, f.kind, info[f.name]),
           b, Layout(clientPart))

(* clientPart leaves name and players out here and puts them in there.     *)
serialize(b, info, clientPart) ==
  FoldLeft(LAMBDA buf, f : IF f.kind = "blob" THEN WriteBlob(buf, info[f.name])
                           ELSE WriteScalar(buf, f.kind, info[f.name]),
           b, Layout(~clientPart))

(* A field that cannot be read, or is not there, stays what it was.        *)
deserialize(b, info, clientPart) ==
  LET layout == Layout(clientPart)
      read[k \in 0..Len(layout)] ==
        IF k = 0 THEN [buf |-> b, ok |-> TRUE]
        ELSE IF layout[k].kind = "blob" THEN ReadBlob(read[k - 1].buf)
        ELSE ReadScalar(read[k - 1].buf, layout[k].kind)
      place(n) == SelectInSeq(layout, LAMBDA f : f.name = n)
  IN  [n \in Names |->
         IF place(n) = 0 \/ ~read[place(n)].ok THEN info[n]
         ELSE IF layout[place(n)].kind = "blob" THEN read[place(n)].data ELSE Number(read[place(n)].data)]

(* Numbers of a new one: three are zero, the others not set.               *)
New == [n \in Names |-> IF n \in {Address, SessionID, UnknownBlob} THEN <<>>
                        ELSE IF n[1] \in {"unknown", "players"} THEN 0 ELSE Garbled]

(* createSession: the game's message is read and published.                *)
updateNPInfo(message) ==
  LET written == serialize(Buffer([i \in 1..MinfoSize |-> Blank]), deserialize(message, New, FALSE), FALSE)
  IN  SubSeq(written.bytes, 1, written.cur)

(* updateSessionsFromNP: what is found is read, and named by its session.  *)
Found(published, sid) ==
  [deserialize(Buffer(published), New, TRUE) EXCEPT ![SessionID] = sid]

(* The first session that has the playlist looked for, in MP, or another   *)
(* setting, in SP, and is not one's own, is joined.                        *)
Joined(infos, owners, me, setting, wanted) ==
  SelectInSeq([i \in DOMAIN infos |-> <<infos[i][setting], owners[i]>>],
              LAMBDA s : s[1] = wanted /\ s[2] # me)
=============================================================================
