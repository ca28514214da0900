------------------------------- MODULE Startup -------------------------------
(***************************************************************************)
(* SteamAPI_Init (Steam/steam_api.cpp), which connects to the PM servers   *)
(* and opens the server browser's socket with GSClient_Init, and the       *)
(* frames that poll it (SteamMatchmakingServers002.cpp). Any step of it    *)
(* may fail.                                                               *)
(***************************************************************************)
EXTENDS Naturals

CONSTANT MaxPackets   (* bound on the packets that wait                    *)

VARIABLES
  at,       (* the place in SteamAPI_Init                                  *)
  session,  (* AuthenticateResult, once there is one                       *)
  onKick,   (* a kick would call NPA_KickClient                            *)
  socket,   (* g_cls.socket: closed, or open: is it bound, does it block,  *)
            (* and did bind fail                                           *)
  polling,  (* GSClient_PollSocket runs, in a frame                        *)
  packets   (* how many wait at the socket                                 *)

vars == <<at, session, onKick, socket, polling, packets>>

Results == {"OK", "BadDetails", "AlreadyLoggedIn", "Banned", "Unknown"}
NoSocket == [open |-> FALSE, bound |-> FALSE, blocks |-> TRUE, failed |-> FALSE]

Init ==
  /\ at = "PM_Connect" /\ session = "none" /\ onKick = FALSE
  /\ socket = NoSocket /\ polling = FALSE /\ packets = 0

-----------------------------------------------------------------------------
(* SteamAPI_Init *)

(* Com_Error does not come back, or it does and false is returned.         *)
PM_Connect ==
  /\ at = "PM_Connect"
  /\ at' \in {"PM_CreateSessionWithKey", "returned"}
  /\ UNCHANGED <<session, onKick, socket, polling, packets>>

(* If Com_Error comes back, a session that failed is gone on with.         *)
PM_CreateSessionWithKey ==
  /\ at = "PM_CreateSessionWithKey"
  /\ session' \in Results
  /\ at' \in IF session' = "OK" THEN {"GSClient_Init"} ELSE {"GSClient_Init", "returned"}
  /\ onKick' = (at' = "GSClient_Init")
  /\ UNCHANGED <<socket, polling, packets>>

(* Mutant: ioctlsocket is left out.                                        *)
Opened_Blocking ==
  {NoSocket, [NoSocket EXCEPT !.open = TRUE, !.failed = TRUE], [NoSocket EXCEPT !.open = TRUE, !.bound = TRUE]}

(* WSAStartup or socket fails; bind fails; or the socket is bound, and     *)
(* then made one that does not block.                                      *)
Opened ==
  {NoSocket, [NoSocket EXCEPT !.open = TRUE, !.failed = TRUE],
   [NoSocket EXCEPT !.open = TRUE, !.bound = TRUE, !.blocks = FALSE]}

(* What it returns is not looked at.                                       *)
GSClient_Init ==
  /\ at = "GSClient_Init"
  /\ socket' \in Opened
  /\ at' = "returned"
  /\ UNCHANGED <<session, onKick, polling, packets>>

-----------------------------------------------------------------------------
(* Frames. Winsock is as documented: sendto binds a socket that is not.    *)

GSClient_QueryMaster ==
  /\ at = "returned" /\ ~polling
  /\ socket' = [socket EXCEPT !.bound = socket.open]
  /\ UNCHANGED <<at, session, onKick, polling, packets>>

Arrives ==
  /\ socket.bound /\ packets < MaxPackets
  /\ packets' = packets + 1
  /\ UNCHANGED <<at, session, onKick, socket, polling>>

SteamAPI_RunCallbacks ==
  /\ at = "returned" /\ ~polling
  /\ polling' = TRUE
  /\ UNCHANGED <<at, session, onKick, socket, packets>>

(* One packet after the other, until recvfrom fails.                       *)
Waits == polling /\ packets = 0 /\ socket.bound /\ socket.blocks
GSClient_PollSocket ==
  /\ polling /\ ~Waits
  /\ IF packets > 0 THEN packets' = packets - 1 /\ UNCHANGED polling
     ELSE polling' = FALSE /\ UNCHANGED packets
  /\ UNCHANGED <<at, session, onKick, socket>>

Next ==
  \/ PM_Connect \/ PM_CreateSessionWithKey \/ GSClient_Init
  \/ GSClient_QueryMaster \/ Arrives \/ SteamAPI_RunCallbacks \/ GSClient_PollSocket

Spec == Init /\ [][Next]_vars

-----------------------------------------------------------------------------

(* A frame that finds nothing at the socket goes on, unless bind failed,   *)
(* which nobody noticed, and a server was asked since: then it waits, and  *)
(* with it the game, and goes on waiting whatever comes.                   *)
FramesGoOn == Waits => socket.failed
==============================================================================
