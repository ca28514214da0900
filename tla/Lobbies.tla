------------------------------- MODULE Lobbies -------------------------------
(***************************************************************************)
(* Lobbies and rich presence (Steam/SteamMatchmaking008.cpp and            *)
(* SteamFriends009.cpp) of players who play with one another. A lobby is   *)
(* known by the account of who made it; its data is its owner's presence.  *)
(* The PM servers, which are not in this repository, hand on a presence    *)
(* that was stored, in order, when they like.                              *)
(***************************************************************************)
EXTENDS Integers, Sequences

CONSTANTS
  Players,
  Keys,       (* of lobby data and presence, "connect" and "currentGame"   *)
  Nobody,     (* no player                                                 *)
  MaxSets     (* bound on the values set                                   *)

VARIABLES
  joinedLobby,     (* joinedLobbyID of each, or Nobody                     *)
  didRichPresence, (* who has said what he plays                           *)
  presence,        (* of each, under each key: the set that gave it its    *)
                   (* value, 0 for none                                    *)
  known,           (* the presences the PM servers have handed on          *)
  sets,            (* what was set: for whose lobby or presence, which key *)
  info,            (* m_steamIDLobby of each one's last FriendGameInfo_t   *)
  answer           (* the last of GetLobbyData                             *)

vars == <<joinedLobby, didRichPresence, presence, known, sets, info, answer>>

Unset == [p \in Players |-> [k \in Keys |-> 0]]
NoAnswer == [lobby |-> Nobody, key |-> "connect", value |-> 0]

Init ==
  /\ joinedLobby = [p \in Players |-> Nobody]
  /\ didRichPresence = {}
  /\ presence = Unset /\ known = Unset
  /\ sets = <<>>
  /\ info = [p \in Players |-> Nobody]
  /\ answer = NoAnswer

-----------------------------------------------------------------------------

(* PM_SetRichPresence: a value that is meant for lobby o, by p.            *)
Sets(p, o, key) ==
  /\ Len(sets) < MaxSets
  /\ sets' = Append(sets, [lobby |-> o, key |-> key])
  /\ presence' = [presence EXCEPT ![p][key] = Len(sets')]

JoinLobby(p, o) ==
  /\ joinedLobby' = [joinedLobby EXCEPT ![p] = o]
  /\ UNCHANGED <<didRichPresence, presence, known, sets, info, answer>>

CreateLobby(p) == JoinLobby(p, p)

Accept(p) == info[p] # Nobody /\ JoinLobby(p, info[p])

(* Nothing is done when a lobby is left.                                   *)
LeaveLobby == UNCHANGED vars

Ignored == UNCHANGED <<joinedLobby, didRichPresence, presence, known, sets, info, answer>>

(* Mutant: whoever sets a lobby's data does.                               *)
SetLobbyData_Anyone(p, o, key) ==
  Sets(p, o, key) /\ UNCHANGED <<joinedLobby, didRichPresence, known, info, answer>>

(* Only one's own lobby has data that one can set; true is returned either *)
(* way.                                                                    *)
SetLobbyData(p, o, key) ==
  IF o = p THEN Sets(p, o, key) /\ UNCHANGED <<joinedLobby, didRichPresence, known, info, answer>>
  ELSE Ignored

(* The lobby asked about is that joined last, whichever is meant.          *)
GetLobbyData(p, o, key) ==
  /\ joinedLobby[p] # Nobody
  /\ answer' = [lobby |-> joinedLobby[p], key |-> key, value |-> known[joinedLobby[p]][key]]
  /\ UNCHANGED <<joinedLobby, didRichPresence, presence, known, sets, info>>

SetRichPresence(p, key) ==
  Sets(p, p, key) /\ UNCHANGED <<joinedLobby, didRichPresence, known, info, answer>>

ClearRichPresence(p) ==
  /\ presence' = [presence EXCEPT ![p]["connect"] = 0]
  /\ UNCHANGED <<joinedLobby, didRichPresence, known, sets, info, answer>>

(* The first time its friends are asked for, the game played is set.       *)
GetFriendByIndex(p) ==
  /\ p \notin didRichPresence
  /\ didRichPresence' = didRichPresence \union {p}
  /\ Sets(p, p, "currentGame")
  /\ UNCHANGED <<joinedLobby, known, info, answer>>

(* A friend who plays something else, or nothing, leaves the record of the *)
(* game as it is, and true is returned.                                    *)
GetFriendGamePlayed(p, f) ==
  /\ info' = IF known[f]["currentGame"] = 0 THEN info ELSE [info EXCEPT ![p] = f]
  /\ UNCHANGED <<joinedLobby, didRichPresence, presence, known, sets, answer>>

(* The PM servers hand a stored presence on.                               *)
HandedOn(p) ==
  /\ known' = [known EXCEPT ![p] = presence[p]]
  /\ UNCHANGED <<joinedLobby, didRichPresence, presence, sets, info, answer>>

Next ==
  \E p \in Players :
    \/ CreateLobby(p) \/ Accept(p) \/ LeaveLobby
    \/ ClearRichPresence(p) \/ GetFriendByIndex(p) \/ HandedOn(p)
    \/ \E o \in Players : JoinLobby(p, o) \/ GetFriendGamePlayed(p, o)
    \/ \E key \in Keys \ {"currentGame"} :
         \/ SetRichPresence(p, key)
         \/ \E o \in Players : SetLobbyData(p, o, key) \/ GetLobbyData(p, o, key)

Spec == Init /\ [][Next]_vars

-----------------------------------------------------------------------------

(* Whatever anybody sets for any lobby, the data read is what was set for  *)
(* the lobby joined last, under the key asked for; and a lobby's data is   *)
(* known to the others only if its owner set it.                           *)
DataOfTheJoined ==
  /\ answer.value # 0 => sets[answer.value] = [lobby |-> answer.lobby, key |-> answer.key]
  /\ \A p \in Players, key \in Keys : known[p][key] # 0 => sets[known[p][key]].lobby = p
==============================================================================
