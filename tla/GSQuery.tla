------------------------------ MODULE GSQuery -------------------------------
(***************************************************************************)
(* The query socket of a dedicated server (Steam/GSServer.cpp), once it is *)
(* bound: packets come from clients, PollSocket reads one per frame and    *)
(* answers a getinfo with the number of players and slots.                 *)
(***************************************************************************)
EXTENDS Integers, Sequences, FiniteSets

CONSTANTS
  Clients,        (* the clients that send packets                          *)
  MaxQueries,     (* bound: packets received                                *)
  Slots,          (* maxclients                                             *)
  PrivateClients, (* sv_privateclients                                      *)
  MaxClients      (* sv_maxclients, the private slots counted or not        *)

ASSUME SlotsAssumption ==
  /\ Slots \in Nat /\ PrivateClients \in 0..Slots
  /\ MaxClients \in (Slots - PrivateClients)..Slots
ASSUME QueriesAssumption == MaxQueries \in Nat

VARIABLES
  arrived,  (* history: the packets that reached the socket                 *)
  inbox,    (* those not read yet                                           *)
  answers   (* history: the infoResponses sent, and to which packet each    *)

queryVars == <<arrived, inbox, answers>>

QueryInit == arrived = <<>> /\ inbox = <<>> /\ answers = <<>>

ArriveFrom(client, kind) ==
  /\ Len(arrived) < MaxQueries
  /\ arrived' = Append(arrived, [from |-> client, kind |-> kind])
  /\ inbox' = Append(inbox, [from |-> client, kind |-> kind])
  /\ UNCHANGED answers

ArriveAny == \E c \in Clients, k \in {"getinfo", "other"} : ArriveFrom(c, k)

(* The number of the packet at the head of the inbox. *)
Reading == Len(arrived) - Len(inbox) + 1

InGame(S) == Cardinality(S)

(* Mutant: the slots before the private ones are counted again.            *)
ClientCount_Twice(S) ==
  InGame(S \cap 1..PrivateClients) + InGame(S)

(* HandleGetInfoOOB; S: the slots whose client is connected.               *)
ClientCount(S) ==
  InGame(S \cap 1..PrivateClients) + InGame(S \ 1..PrivateClients)

InfoResponse(client, S) ==
  [query   |-> Reading,
   to      |-> client,
   clients |-> ClientCount(S),
   max     |-> InGame(S \cap 1..PrivateClients) + MaxClients]

(* Mutant: only the first packet's sender is remembered.                   *)
Sender_First == arrived[1].from

(* g_svs.from                                                              *)
Sender == Head(inbox).from

(* Mutant: a packet that is no query is left in the socket.                *)
PollSocket_Keeps ==
  /\ UNCHANGED arrived
  /\ IF inbox # <<>> /\ Head(inbox).kind = "getinfo"
     THEN /\ inbox' = Tail(inbox)
          /\ \E S \in SUBSET (1..Slots) : answers' = Append(answers, InfoResponse(Sender, S))
     ELSE UNCHANGED <<inbox, answers>>

(* One packet a frame.                                                     *)
PollSocket ==
  /\ UNCHANGED arrived
  /\ \/ /\ inbox = <<>>
        /\ UNCHANGED <<inbox, answers>>
     \/ /\ inbox # <<>>
        /\ inbox' = Tail(inbox)
        /\ IF Head(inbox).kind = "getinfo"
           THEN \E S \in SUBSET (1..Slots) : answers' = Append(answers, InfoResponse(Sender, S))
           ELSE UNCHANGED answers

QueryNext == ArriveAny \/ PollSocket

(* GSServer's RunFrame calls PollSocket in every frame.                    *)
QuerySpec == QueryInit /\ [][QueryNext]_queryVars /\ WF_queryVars(PollSocket)

-----------------------------------------------------------------------------
(* Properties *)

(* The infoResponses go out in the order in which the queries came, one    *)
(* for each that was read, to the client that asked.                       *)
AnsweredOnce ==
  /\ \A k \in 1..Len(answers) :
       LET n == answers[k].query
       IN  n \in 1..(Reading - 1) /\ arrived[n] = [from |-> answers[k].to, kind |-> "getinfo"]
  /\ \A k, l \in 1..Len(answers) : k < l => answers[k].query < answers[l].query
  /\ \A n \in 1..(Reading - 1) : arrived[n].kind = "getinfo" =>
       \E k \in 1..Len(answers) : answers[k].query = n

(* No answer shows more players than slots, whichever slots they have.     *)
NotOverfull == \A k \in 1..Len(answers) : answers[k].clients <= answers[k].max

(* The answers are those due, each with numbers a game can have.           *)
AnswersRight == AnsweredOnce /\ NotOverfull

(* Every query is answered, one packet a frame.                            *)
Asking(packets) == SelectSeq(packets, LAMBDA p : p.kind = "getinfo")
GetInfoAnswered ==
  \A n \in 1..MaxQueries : Len(Asking(arrived)) >= n ~> Len(answers) >= n
=============================================================================
