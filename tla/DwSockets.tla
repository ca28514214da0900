----------------------------- MODULE DwSockets -----------------------------
(***************************************************************************)
(* The winsock hooks of LoopDW (DemonWare/DWInit.cpp): which sockets of    *)
(* the game are captured by an emulated server, and dw_thread, which goes  *)
(* round the captured sockets and lets the server of each handle one       *)
(* packet.                                                                 *)
(*                                                                         *)
(* Socket handles are the operating system's: it hands out a closed one    *)
(* again. dw_init redirects no closesocket, so dw_closesocket never runs   *)
(* and _sockets keeps what it had for the handle.                          *)
(*                                                                         *)
(* A packet is one request, answered by one reply (bdServer has the        *)
(* details); both are named by the connection that sent the request.       *)
(*                                                                         *)
(* _sockets is a std::map that nothing locks. The game's network thread    *)
(* alone inserts; dw_thread's iterator, should it move on during an        *)
(* insertion, may come out at any entry or at the end (entries are never   *)
(* removed and pointers are written whole, so it comes out somewhere).     *)
(***************************************************************************)
EXTENDS Integers, Sequences, FiniteSets

CONSTANTS
  Handles,     (* socket handles: numbers, as std::map<SOCKET, ..> orders them *)
  Servers,     (* the registered servers                                   *)
  Hosts,       (* addresses of real hosts                                  *)
  AddressOf,   (* the address dw_gethostbyname makes up for a server       *)
  NoServer,    (* no entry, no peer                                        *)
  MaxConns,    (* bound: sockets the game creates                          *)
  MaxPackets   (* bound: packets sent                                      *)

ASSUME HandlesAssumption == Handles \subseteq Nat /\ IsFiniteSet(Handles)
ASSUME NamesAssumption ==
  /\ NoServer \notin Servers /\ NoServer \notin Hosts /\ Servers \cap Hosts = {}
ASSUME BoundsAssumption == MaxConns \in Nat /\ MaxPackets \in Nat

(* The 24 bits kept of the hash tell the servers' names apart. (The 0x7F   *)
(* in front ends up as the last number of the address, not the first, so   *)
(* a made-up address may also be a real host's.)                           *)
ASSUME AddressAssumption ==
  \A s, t \in Servers : AddressOf[s] = AddressOf[t] => s = t

Addresses == Hosts \cup {AddressOf[s] : s \in Servers}

VARIABLES
  serverHashes,  (* _serverHashes                                          *)
  sockets,       (* _sockets                                               *)
  conns,         (* history: the sockets created, what each connected to   *)
  open,          (* the socket now behind a handle, 0 if none              *)
  sent,          (* history: requests passed to deferredHandlePacket       *)
  incoming,      (* a server's incomingQueue                               *)
  outgoing,      (* a server's outgoingQueue                               *)
  read,          (* history: replies taken from outgoing                   *)
  cursor,        (* dw_thread: the handle its iterator is at               *)
  serving,       (* dw_thread: the packet inside processQueues             *)
  raced          (* an entry was inserted since the iterator last moved    *)

net  == <<conns, open>>
pipe == <<sent, incoming, outgoing, read>>
dw   == <<cursor, serving, raced>>
vars == <<serverHashes, sockets, net, pipe, dw>>

NoPacket == [server |-> NoServer, conn |-> 0]

Init ==
  /\ serverHashes = [a \in Addresses |-> NoServer]
  /\ sockets = [h \in Handles |-> NoServer]
  /\ conns = <<>> /\ open = [h \in Handles |-> 0]
  /\ sent = [s \in Servers |-> <<>>] /\ incoming = [s \in Servers |-> <<>>]
  /\ outgoing = [s \in Servers |-> <<>>] /\ read = [s \in Servers |-> <<>>]
  /\ cursor = -1 /\ serving = NoPacket /\ raced = FALSE

-----------------------------------------------------------------------------
(* winsock's own part: handles come and go, the hooks are not told.        *)

Socket(h) ==
  /\ open[h] = 0 /\ Len(conns) < MaxConns
  /\ conns' = Append(conns, [handle |-> h, peer |-> NoServer])
  /\ open' = [open EXCEPT ![h] = Len(conns) + 1]
  /\ UNCHANGED <<serverHashes, sockets, pipe, dw>>

CloseSocket(h) ==
  /\ open[h] # 0
  /\ open' = [open EXCEPT ![h] = 0]
  /\ UNCHANGED <<serverHashes, sockets, conns, pipe, dw>>

-----------------------------------------------------------------------------
(* The hooks *)

(* Mutant: every name gets the same address.                               *)
GetHostByName_OneAddress(s) ==
  /\ serverHashes' = [a \in Addresses |-> s]
  /\ UNCHANGED <<sockets, net, pipe, dw>>

GetHostByName(s) ==
  /\ serverHashes' = [serverHashes EXCEPT ![AddressOf[s]] = s]
  /\ UNCHANGED <<sockets, net, pipe, dw>>

(* Mutant: _sockets.insert, which keeps an entry that exists.              *)
Connect_Inserts(h, a) ==
  /\ open[h] # 0 /\ conns[open[h]].peer = NoServer
  /\ \/ /\ serverHashes[a] # NoServer
        /\ sockets' = [sockets EXCEPT ![h] = IF @ = NoServer THEN serverHashes[a] ELSE @]
        /\ conns' = [conns EXCEPT ![open[h]].peer = serverHashes[a]]
        /\ raced' = (raced \/ (sockets[h] = NoServer /\ cursor # -1))
     \/ /\ a \in Hosts /\ serverHashes[a] = NoServer
        /\ conns' = [conns EXCEPT ![open[h]].peer = a]
        /\ UNCHANGED <<sockets, raced>>
  /\ UNCHANGED <<serverHashes, open, pipe, cursor, serving>>

(* The game connects a socket once, to an address it was given. A real     *)
(* connection leaves the handle's entry in _sockets as it was.             *)
Connect(h, a) ==
  /\ open[h] # 0 /\ conns[open[h]].peer = NoServer
  /\ \/ /\ serverHashes[a] # NoServer
        /\ sockets' = [sockets EXCEPT ![h] = serverHashes[a]]
        /\ conns' = [conns EXCEPT ![open[h]].peer = serverHashes[a]]
        /\ raced' = (raced \/ (sockets[h] = NoServer /\ cursor # -1))
     \/ /\ a \in Hosts /\ serverHashes[a] = NoServer
        /\ conns' = [conns EXCEPT ![open[h]].peer = a]
        /\ UNCHANGED <<sockets, raced>>
  /\ UNCHANGED <<serverHashes, open, pipe, cursor, serving>>

Sent == UNION {{s} \X DOMAIN sent[s] : s \in Servers}

(* dw_send and dw_sendto on a captured handle, whatever socket is behind   *)
(* it now; on any other they are winsock's.                                *)
Send(h) ==
  LET s == sockets[h] IN
    /\ open[h] # 0 /\ s # NoServer /\ Cardinality(Sent) < MaxPackets
    /\ sent' = [sent EXCEPT ![s] = Append(@, open[h])]
    /\ incoming' = [incoming EXCEPT ![s] = Append(@, open[h])]
    /\ UNCHANGED <<serverHashes, sockets, net, outgoing, read, dw>>

(* dw_recv and dw_recvfrom on a captured handle.                           *)
Recv(h) ==
  LET s == sockets[h] IN
    /\ open[h] # 0 /\ s # NoServer /\ outgoing[s] # <<>>
    /\ read' = [read EXCEPT ![s] = Append(@, Head(outgoing[s]))]
    /\ outgoing' = [outgoing EXCEPT ![s] = Tail(@)]
    /\ UNCHANGED <<serverHashes, sockets, net, sent, incoming, dw>>

Captured(H) == {h \in H : sockets[h] # NoServer}
WithReply(H) == {h \in Captured(H) : outgoing[sockets[h]] # <<>>}

(* Sockets winsock itself can report: those connected to a real host.      *)
Reachable(H) == {h \in H : open[h] # 0 /\ conns[open[h]].peer \in Hosts}

(* dw_select takes captured sockets out of readfds, not out of writefds,   *)
(* and calls winsock with the rest, which fails if nothing is left.        *)
WinsockSelect(R, W, r, w) ==
  IF R \ Captured(R) = {} /\ W = {} THEN -1 ELSE Cardinality(r) + Cardinality(w)

(* Mutant: the captured sockets of readfds are not added to the count.     *)
Select_NoRead(R, W, r, w) ==
  WinsockSelect(R, W, r, w) + Cardinality(WithReply(W))

(* Captured sockets of readfds are then marked and counted always, those   *)
(* of writefds if a reply waits.                                           *)
Select(R, W, r, w) ==
  WinsockSelect(R, W, r, w) + Cardinality(Captured(R)) + Cardinality(WithReply(W))

-----------------------------------------------------------------------------
(* dw_thread *)

(* Mutant: the iterator is not advanced.                                   *)
Ahead_Stays == {h \in Captured(Handles) : h >= cursor}

Ahead == {h \in Captured(Handles) : h > cursor}

(* The iterator moves to the next entry of _sockets, one inserted          *)
(* meanwhile included; or astray ...                                       *)
Reached ==
  {h \in Ahead : \A g \in Ahead : h <= g} \cup (IF raced THEN Captured(Handles) ELSE {})

(* ... and the server there pops one packet, if it has any.                *)
Visit ==
  /\ serving = NoPacket
  /\ \E h \in Reached :
       /\ cursor' = h
       /\ LET s == sockets[h] IN
            \/ /\ incoming[s] = <<>>
               /\ UNCHANGED <<incoming, serving>>
            \/ /\ incoming[s] # <<>>
               /\ serving' = [server |-> s, conn |-> Head(incoming[s])]
               /\ incoming' = [incoming EXCEPT ![s] = Tail(@)]
  /\ raced' = FALSE
  /\ UNCHANGED <<serverHashes, sockets, net, sent, outgoing, read>>

(* The end of a pass.                                                      *)
Restart ==
  /\ serving = NoPacket /\ (Ahead = {} \/ raced) /\ cursor # -1
  /\ cursor' = -1 /\ raced' = FALSE
  /\ UNCHANGED <<serverHashes, sockets, net, pipe, serving>>

(* Mutant: the reply goes to the server the handle is mapped to by now.    *)
Finish_Lookup ==
  /\ serving # NoPacket
  /\ outgoing' = [outgoing EXCEPT ![sockets[cursor]] = Append(@, serving.conn)]
  /\ serving' = NoPacket
  /\ UNCHANGED <<serverHashes, sockets, net, sent, incoming, read, cursor, raced>>

(* handlePacket has answered the packet and returns.                       *)
Finish ==
  /\ serving # NoPacket
  /\ outgoing' = [outgoing EXCEPT ![serving.server] = Append(@, serving.conn)]
  /\ serving' = NoPacket
  /\ UNCHANGED <<serverHashes, sockets, net, sent, incoming, read, cursor, raced>>

DwThread == Visit \/ Restart \/ Finish

Game ==
  \/ \E s \in Servers : GetHostByName(s)
  \/ \E h \in Handles : \/ Socket(h) \/ CloseSocket(h) \/ Send(h) \/ Recv(h)
                        \/ \E a \in Addresses : Connect(h, a)

Next == Game \/ DwThread

(* dw_thread is an endless loop; that it gets on includes that the PM      *)
(* library answers every call a service waits for.                         *)
Spec == Init /\ [][Next]_vars /\ WF_vars(DwThread)

-----------------------------------------------------------------------------
(* Properties *)

TypeOK ==
  /\ serverHashes \in [Addresses -> Servers \cup {NoServer}]
  /\ \A a \in Addresses : serverHashes[a] # NoServer => AddressOf[serverHashes[a]] = a
  /\ sockets \in [Handles -> Servers \cup {NoServer}]
  /\ conns \in Seq([handle : Handles, peer : Servers \cup Hosts \cup {NoServer}])
  /\ open \in [Handles -> 0..Len(conns)]
  /\ \A h \in Handles : open[h] # 0 => conns[open[h]].handle = h
  /\ sent \in [Servers -> Seq(1..Len(conns))] /\ incoming \in [Servers -> Seq(1..Len(conns))]
  /\ outgoing \in [Servers -> Seq(1..Len(conns))] /\ read \in [Servers -> Seq(1..Len(conns))]
  /\ cursor \in Handles \cup {-1}
  /\ serving \in [server : Servers, conn : 1..Len(conns)] \cup {NoPacket}
  /\ raced \in BOOLEAN

(* What a captured handle leads to: the server of the last socket behind   *)
(* it that was connected to a server. Until a handle is closed this is the *)
(* connected server itself; a later socket with the same handle inherits   *)
(* it, also when it is connected to a real host; a handle no server was    *)
(* ever connected through is never captured.                               *)
CapturedByLast ==
  \A h \in Handles :
    \/ /\ sockets[h] = NoServer
       /\ \A k \in 1..Len(conns) : conns[k].handle = h => conns[k].peer \notin Servers
    \/ \E k \in 1..Len(conns) :
         /\ conns[k].handle = h /\ conns[k].peer = sockets[h] /\ sockets[h] \in Servers
         /\ \A l \in (k + 1)..Len(conns) : conns[l].handle = h => conns[l].peer \notin Servers

(* The requests of all sockets of a server form one line, and its replies  *)
(* come in that line, each once, whichever sockets send, read, are closed  *)
(* or mapped anew meanwhile, and although dw_thread serves a server once   *)
(* for every socket it has.                                                *)
Served(s) == IF serving.server = s THEN <<serving.conn>> ELSE <<>>

OneLine ==
  \A s \in Servers : sent[s] = read[s] \o outgoing[s] \o Served(s) \o incoming[s]

(* A caller that looks at the sets only when dw_select returns more than   *)
(* 0 sees every reply that waits for one of its sockets, whatever winsock  *)
(* reports of the others; unless it asks for a single captured socket and  *)
(* for reading only: then winsock's -1 makes the count 0.                  *)
ReplyNoticed ==
  \A R, W \in SUBSET Handles :
    \A r \in SUBSET Reachable(R \ Captured(R)), w \in SUBSET Reachable(W) :
      WithReply(R \cup W) # {} =>
        \/ Select(R, W, r, w) > 0
        \/ W = {} /\ Cardinality(R) = 1

(* A request is answered as long as a captured handle leads to its server; *)
(* without one, because the handle was taken over by another server, it is *)
(* stranded.                                                               *)
AnsweredWhileMapped ==
  \A s \in Servers : \A n \in 1..MaxPackets :
    Len(sent[s]) >= n ~> \/ Len(read[s]) + Len(outgoing[s]) >= n
                         \/ \A h \in Handles : sockets[h] # s
=============================================================================
