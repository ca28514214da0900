----------------------------- MODULE KickClient -----------------------------
(***************************************************************************)
(* How a player is thrown out on demand (NPA_KickClient of steam_api.cpp): *)
(* the callback looks for his place and leaves a command with its number   *)
(* in the game's buffer; by the time the game executes it others may have  *)
(* come and gone.                                                          *)
(***************************************************************************)
EXTENDS Integers, Sequences

CONSTANTS
  Players,
  Places,    (* how many clients the server has room for                   *)
  Nobody,    (* a place without a player                                   *)
  MaxKicks   (* bound on demands                                           *)

VARIABLES
  clients,   (* for every place the player, and whether his state is 3 or  *)
             (* more                                                       *)
  commands,  (* the game's command buffer: the place, the player meant,    *)
             (* and whether he left the place since                        *)
  dropped,   (* for every drop so far the command and the player           *)
  kicks      (* how many demands there were                                *)

vars == <<clients, commands, dropped, kicks>>

Empty == [player |-> Nobody, active |-> FALSE]
Slots == 0..Places - 1

Init ==
  /\ clients = [i \in Slots |-> Empty]
  /\ commands = <<>> /\ dropped = {} /\ kicks = 0

(* The game's server.                                                      *)
Moved(i) == [c \in DOMAIN commands |-> 
  IF commands[c].place = i THEN [commands[c] EXCEPT !.left = TRUE] ELSE commands[c]]

Join(p, i) ==
  /\ clients[i].player = Nobody /\ \A j \in Slots : clients[j].player # p
  /\ clients' = [clients EXCEPT ![i] = [player |-> p, active |-> FALSE]]
  /\ UNCHANGED <<commands, dropped, kicks>>
Begin(i) ==
  /\ clients[i].player # Nobody
  /\ clients' = [clients EXCEPT ![i].active = TRUE] /\ UNCHANGED <<commands, dropped, kicks>>
Leave(i) ==
  /\ clients[i].player # Nobody
  /\ clients' = [clients EXCEPT ![i] = Empty] /\ commands' = Moved(i)
  /\ UNCHANGED <<dropped, kicks>>

DropClient ==
  /\ commands # <<>>
  /\ LET i == Head(commands).place
     IN  /\ clients' = [clients EXCEPT ![i] = Empty]
         /\ commands' = Tail(Moved(i))
         /\ dropped' = dropped \union {[command |-> Head(commands), player |-> clients[i].player]}
  /\ UNCHANGED kicks

-----------------------------------------------------------------------------

(* Mutant: a place that is not active is not counted.                      *)
Number_Active(p) ==
  {Len(SelectSeq([k \in 1..j |-> clients[k - 1]], LAMBDA c : c.active)) :
     j \in {j \in Slots : clients[j].active /\ clients[j].player = p}}

(* The first place that is active and his.                                 *)
Number(p) ==
  {i \in Slots : /\ clients[i].active /\ clients[i].player = p
                 /\ \A j \in 0..i - 1 : ~(clients[j].active /\ clients[j].player = p)}

NPA_KickClient(p) ==
  /\ kicks < MaxKicks /\ kicks' = kicks + 1
  /\ commands' = IF Number(p) = {} THEN commands
                 ELSE Append(commands, [place |-> CHOOSE i \in Number(p) : TRUE, meant |-> p, left |-> FALSE])
  /\ UNCHANGED <<clients, dropped>>

Next ==
  \/ \E p \in Players : NPA_KickClient(p) \/ \E i \in Slots : Join(p, i)
  \/ \E i \in Slots : Begin(i) \/ Leave(i)
  \/ DropClient
Spec == Init /\ [][Next]_vars

-----------------------------------------------------------------------------

(* Who is dropped is the one that was meant, unless he left his place      *)
(* between the demand and the command; then it may be whoever came there.  *)
KicksTheOneMeant == \A d \in dropped : d.player = d.command.meant \/ d.command.left
=============================================================================
