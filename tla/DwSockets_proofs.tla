-------------------------- MODULE DwSockets_proofs --------------------------
(***************************************************************************)
(* Proofs about DwSockets, for every set of handles, servers and hosts and *)
(* every bound.                                                            *)
(***************************************************************************)
EXTENDS DwSockets, SequenceTheorems, FiniteSetTheorems, TLAPS

Conn == [handle : Handles, peer : Servers \cup Hosts \cup {NoServer}]

-----------------------------------------------------------------------------
(* Lemmas about sequences *)

(* An element moved from the front of a sequence to the end of the one     *)
(* before it.                                                              *)
LEMMA MoveHead ==
  ASSUME NEW S, NEW a \in Seq(S), NEW b \in Seq(S), b # <<>>
  PROVE  a \o b = Append(a, Head(b)) \o Tail(b)
<1>1. /\ Head(b) \in S /\ Tail(b) \in Seq(S) /\ Len(Tail(b)) = Len(b) - 1
      /\ \A i \in 1..Len(Tail(b)) : Tail(b)[i] = b[i + 1]
  BY HeadTailProperties
<1>2. Head(b) = b[1] /\ Len(a) \in Nat /\ Len(b) \in Nat \ {0}
  BY EmptySeq
<1>3. /\ Append(a, Head(b)) \in Seq(S) /\ Len(Append(a, Head(b))) = Len(a) + 1
      /\ \A i \in 1..Len(a) : Append(a, Head(b))[i] = a[i]
      /\ Append(a, Head(b))[Len(a) + 1] = Head(b)
  BY <1>1, AppendProperties
<1> DEFINE l == a \o b   r == Append(a, Head(b)) \o Tail(b)
<1>4. /\ l \in Seq(S) /\ Len(l) = Len(a) + Len(b)
      /\ \A i \in 1..(Len(a) + Len(b)) : l[i] = IF i <= Len(a) THEN a[i] ELSE b[i - Len(a)]
  BY ConcatProperties
<1>5. /\ r \in Seq(S) /\ Len(r) = Len(a) + Len(b)
      /\ \A i \in 1..(Len(a) + Len(b)) :
           r[i] = IF i <= Len(a) + 1 THEN Append(a, Head(b))[i] ELSE Tail(b)[i - (Len(a) + 1)]
  <2>1. /\ r \in Seq(S) /\ Len(r) = Len(a) + 1 + (Len(b) - 1)
        /\ \A i \in 1..(Len(a) + 1 + (Len(b) - 1)) :
             r[i] = IF i <= Len(a) + 1 THEN Append(a, Head(b))[i] ELSE Tail(b)[i - (Len(a) + 1)]
    BY <1>1, <1>3, ConcatProperties
  <2> QED
    BY <2>1, <1>2
<1>6. ASSUME NEW i \in 1..Len(l) PROVE l[i] = r[i]
  <2>1. CASE i <= Len(a)
    BY <2>1, <1>2, <1>3, <1>4, <1>5
  <2>2. CASE i = Len(a) + 1
    BY <2>2, <1>2, <1>3, <1>4, <1>5
  <2>3. CASE i > Len(a) + 1
    <3> DEFINE j == i - (Len(a) + 1)
    <3>1. j \in 1..Len(Tail(b)) /\ j + 1 = i - Len(a)
      BY <2>3, <1>1, <1>2, <1>4
    <3>2. r[i] = Tail(b)[j] /\ l[i] = b[i - Len(a)]
      BY <2>3, <1>2, <1>4, <1>5
    <3> QED
      BY <3>1, <3>2, <1>1
  <2> QED
    BY <1>2, <1>4, <2>1, <2>2, <2>3
<1> HIDE DEF l, r
<1>7. l = r
  BY <1>4, <1>5, <1>6, SeqEqual
<1> QED
  BY <1>7 DEF l, r

(* Appending to the last part of a sequence is appending to the whole.     *)
LEMMA AppendLast ==
  \A a, b \in Seq(Nat), e \in Nat : Append(a \o b, e) = a \o Append(b, e)
<1> TAKE a, b \in Seq(Nat), e \in Nat
<1>1. a \o b \in Seq(Nat) /\ <<e>> \in Seq(Nat)
  BY ConcatProperties
<1>2. Append(a \o b, e) = (a \o b) \o <<e>>
  BY <1>1, AppendIsConcat
<1>3. Append(b, e) = b \o <<e>>
  BY AppendIsConcat
<1>4. (a \o b) \o <<e>> = a \o (b \o <<e>>)
  BY <1>1, ConcatAssociative
<1> QED
  BY <1>2, <1>3, <1>4

-----------------------------------------------------------------------------
(* Type correctness. TypeOK is inductive.                                  *)

(* Initially every variable is in its type. *)
LEMMA InitTypeOK == Init => TypeOK
<1> SUFFICES ASSUME Init PROVE TypeOK
  OBVIOUS
<1>1. /\ serverHashes \in [Addresses -> Servers \cup {NoServer}]
      /\ \A a \in Addresses : serverHashes[a] = NoServer
      /\ sockets \in [Handles -> Servers \cup {NoServer}]
  BY DEF Init
<1>2. conns = <<>> /\ Len(conns) = 0 /\ conns \in Seq(Conn)
  BY DEF Init
<1>3. open \in [Handles -> 0..Len(conns)] /\ \A h \in Handles : open[h] = 0
  BY <1>2 DEF Init
<1>4. /\ sent \in [Servers -> Seq(1..Len(conns))] /\ incoming \in [Servers -> Seq(1..Len(conns))]
      /\ outgoing \in [Servers -> Seq(1..Len(conns))] /\ read \in [Servers -> Seq(1..Len(conns))]
  BY DEF Init
<1> QED
  BY <1>1, <1>2, <1>3, <1>4 DEF Init, TypeOK, Conn

(* The socket numbers in the queues stay in range when sockets are created. *)
LEMMA Grow ==
  ASSUME NEW m \in Nat, NEW n \in Nat, m <= n, NEW f \in [Servers -> Seq(1..m)]
  PROVE  f \in [Servers -> Seq(1..n)]
<1>1. ASSUME NEW s \in Servers PROVE f[s] \in Seq(1..n)
  <2>1. f[s] \in Seq(1..m) /\ 1..m \subseteq 1..n
    OBVIOUS
  <2> QED
    BY <2>1, SeqMonotonic
<1> QED
  BY <1>1

(* Each step keeps every variable in its type. *)
LEMMA NextTypeOK == TypeOK /\ [Next]_vars => TypeOK'
<1> SUFFICES ASSUME TypeOK, [Next]_vars PROVE TypeOK'
  OBVIOUS
<1> USE DEF Conn
<1>0. /\ conns \in Seq(Conn) /\ Len(conns) \in Nat
      /\ sent \in [Servers -> Seq(1..Len(conns))] /\ incoming \in [Servers -> Seq(1..Len(conns))]
      /\ outgoing \in [Servers -> Seq(1..Len(conns))] /\ read \in [Servers -> Seq(1..Len(conns))]
  BY DEF TypeOK
<1>1. ASSUME NEW s \in Servers, GetHostByName(s) PROVE TypeOK'
  <2>1. AddressOf[s] \in Addresses
    BY DEF Addresses
  <2>2. serverHashes' \in [Addresses -> Servers \cup {NoServer}]
    BY <1>1, <2>1 DEF GetHostByName, TypeOK
  <2>3. \A a \in Addresses : serverHashes'[a] # NoServer => AddressOf[serverHashes'[a]] = a
    BY <1>1, <2>1 DEF GetHostByName, TypeOK
  <2> QED
    BY <1>1, <2>2, <2>3 DEF GetHostByName, TypeOK, net, pipe, dw
<1>2. ASSUME NEW h \in Handles, Socket(h) PROVE TypeOK'
  <2> DEFINE c == [handle |-> h, peer |-> NoServer]
  <2>1. c \in Conn
    OBVIOUS
  <2>2. conns' = Append(conns, c) /\ open' = [open EXCEPT ![h] = Len(conns) + 1]
    BY <1>2 DEF Socket
  <2>3. /\ conns' \in Seq(Conn) /\ Len(conns') = Len(conns) + 1
        /\ \A i \in 1..Len(conns) : conns'[i] = conns[i]
        /\ conns'[Len(conns) + 1] = c
    <3> HIDE DEF c, Conn
    <3> QED BY <1>0, <2>1, <2>2, AppendProperties
  <2>4. open' \in [Handles -> 0..Len(conns')]
    BY <1>0, <2>2, <2>3 DEF TypeOK
  <2>5. \A g \in Handles : open'[g] # 0 => conns'[open'[g]].handle = g
    BY <1>0, <2>2, <2>3 DEF TypeOK
  <2>6. /\ sent' \in [Servers -> Seq(1..Len(conns'))] /\ incoming' \in [Servers -> Seq(1..Len(conns'))]
        /\ outgoing' \in [Servers -> Seq(1..Len(conns'))] /\ read' \in [Servers -> Seq(1..Len(conns'))]
    <3>1. Len(conns) <= Len(conns') /\ Len(conns') \in Nat
      BY <1>0, <2>3
    <3> QED
      BY <1>0, <1>2, <3>1, Grow DEF Socket, pipe
  <2>7. serving' \in [server : Servers, conn : 1..Len(conns')] \cup {NoPacket}
    BY <1>0, <1>2, <2>3 DEF Socket, dw, TypeOK
  <2> QED
    BY <1>2, <2>3, <2>4, <2>5, <2>6, <2>7 DEF Socket, TypeOK, dw
<1>3. ASSUME NEW h \in Handles, CloseSocket(h) PROVE TypeOK'
  BY <1>3 DEF CloseSocket, TypeOK, pipe, dw
<1>4. ASSUME NEW h \in Handles, Send(h) PROVE TypeOK'
  <2> DEFINE s == sockets[h]
  <2>1. s \in Servers /\ open[h] \in 1..Len(conns)
    BY <1>0, <1>4 DEF Send, TypeOK
  <2>2. /\ Append(sent[s], open[h]) \in Seq(1..Len(conns))
        /\ Append(incoming[s], open[h]) \in Seq(1..Len(conns))
    BY <1>0, <2>1, AppendProperties
  <2> QED
    BY <1>4, <2>1, <2>2 DEF Send, TypeOK, net, dw
<1>5. ASSUME NEW h \in Handles, Recv(h) PROVE TypeOK'
  <2> DEFINE s == sockets[h]
  <2>1. s \in Servers /\ outgoing[s] # <<>>
    BY <1>5 DEF Recv, TypeOK
  <2>2. Head(outgoing[s]) \in 1..Len(conns) /\ Tail(outgoing[s]) \in Seq(1..Len(conns))
    BY <1>0, <2>1, HeadTailProperties
  <2>3. Append(read[s], Head(outgoing[s])) \in Seq(1..Len(conns))
    BY <1>0, <2>1, <2>2, AppendProperties
  <2> QED
    BY <1>5, <2>1, <2>2, <2>3 DEF Recv, TypeOK, net, dw
<1>6. ASSUME NEW h \in Handles, NEW a \in Addresses, Connect(h, a) PROVE TypeOK'
  <2>1. open[h] \in 1..Len(conns)
    BY <1>0, <1>6 DEF Connect, TypeOK
  <2>2. ASSUME NEW p \in Servers \cup Hosts, conns' = [conns EXCEPT ![open[h]].peer = p]
        PROVE  /\ conns' \in Seq(Conn) /\ Len(conns') = Len(conns)
               /\ \A i \in 1..Len(conns) : conns'[i].handle = conns[i].handle
    <3> DEFINE c == [conns[open[h]] EXCEPT !.peer = p]
    <3>1. conns[open[h]] \in Conn
      BY <1>0, <2>1, ElementOfSeq
    <3>2. c \in Conn /\ c.handle = conns[open[h]].handle
      BY <3>1
    <3>3. conns' = [conns EXCEPT ![open[h]] = c]
      BY <2>2
    <3>4. /\ conns' \in Seq(Conn) /\ Len(conns') = Len(conns)
          /\ \A j \in 1..Len(conns) : conns'[j] = IF j = open[h] THEN c ELSE conns[j]
      <4> HIDE DEF c, Conn
      <4> QED BY <1>0, <2>1, <3>2, <3>3, ExceptSeq
    <3> QED
      BY <3>2, <3>4
  <2>3. CASE /\ serverHashes[a] # NoServer
             /\ sockets' = [sockets EXCEPT ![h] = serverHashes[a]]
             /\ conns' = [conns EXCEPT ![open[h]].peer = serverHashes[a]]
             /\ raced' = (raced \/ (sockets[h] = NoServer /\ cursor # -1))
    <3>1. serverHashes[a] \in Servers
      BY <2>3 DEF TypeOK
    <3>2. /\ conns' \in Seq(Conn) /\ Len(conns') = Len(conns)
          /\ \A i \in 1..Len(conns) : conns'[i].handle = conns[i].handle
      BY <2>2, <2>3, <3>1
    <3>3. sockets' \in [Handles -> Servers \cup {NoServer}] /\ raced' \in BOOLEAN
      BY <2>3, <3>1 DEF TypeOK
    <3>4. UNCHANGED <<serverHashes, open, sent, incoming, outgoing, read, cursor, serving>>
      BY <1>6 DEF Connect, pipe
    <3>5. ASSUME NEW g \in Handles, open'[g] # 0 PROVE conns'[open'[g]].handle = g
      <4>1. open'[g] = open[g] /\ open[g] \in 1..Len(conns)
        BY <1>0, <3>4, <3>5 DEF TypeOK
      <4>2. conns[open[g]].handle = g
        BY <3>5, <4>1 DEF TypeOK
      <4> QED
        BY <3>2, <4>1, <4>2
    <3>6. /\ open' \in [Handles -> 0..Len(conns')]
          /\ sent' \in [Servers -> Seq(1..Len(conns'))] /\ incoming' \in [Servers -> Seq(1..Len(conns'))]
          /\ outgoing' \in [Servers -> Seq(1..Len(conns'))] /\ read' \in [Servers -> Seq(1..Len(conns'))]
          /\ cursor' \in Handles \cup {-1}
          /\ serving' \in [server : Servers, conn : 1..Len(conns')] \cup {NoPacket}
      BY <3>2, <3>4 DEF TypeOK, NoPacket
    <3>7. /\ serverHashes' \in [Addresses -> Servers \cup {NoServer}]
          /\ \A b \in Addresses : serverHashes'[b] # NoServer => AddressOf[serverHashes'[b]] = b
      BY <3>4 DEF TypeOK
    <3> QED
      BY <3>2, <3>3, <3>5, <3>6, <3>7 DEF TypeOK
  <2>4. CASE /\ a \in Hosts /\ serverHashes[a] = NoServer
             /\ conns' = [conns EXCEPT ![open[h]].peer = a]
             /\ UNCHANGED <<sockets, raced>>
    <3>1. /\ conns' \in Seq(Conn) /\ Len(conns') = Len(conns)
          /\ \A i \in 1..Len(conns) : conns'[i].handle = conns[i].handle
      BY <2>2, <2>4
    <3> QED
      BY <1>0, <1>6, <2>4, <3>1 DEF Connect, TypeOK, pipe
  <2> QED
    BY <1>6, <2>3, <2>4 DEF Connect
<1>7. CASE Visit
  <2>1. PICK h \in Reached : Visit!2!(h)
    BY <1>7 DEF Visit
  <2>2. h \in Handles /\ sockets[h] \in Servers
    BY <2>1 DEF Reached, Ahead, Captured, TypeOK
  <2> DEFINE s == sockets[h]
  <2>3. CASE UNCHANGED <<incoming, serving>>
    BY <1>7, <2>1, <2>2, <2>3 DEF Visit, TypeOK, net
  <2>4. CASE /\ incoming[s] # <<>>
             /\ serving' = [server |-> s, conn |-> Head(incoming[s])]
             /\ incoming' = [incoming EXCEPT ![s] = Tail(@)]
    <3>1. Head(incoming[s]) \in 1..Len(conns) /\ Tail(incoming[s]) \in Seq(1..Len(conns))
      BY <1>0, <2>2, <2>4, HeadTailProperties
    <3> QED
      BY <1>7, <2>1, <2>2, <2>4, <3>1 DEF Visit, TypeOK, net
  <2> QED
    BY <2>1, <2>3, <2>4
<1>8. CASE Restart
  BY <1>8 DEF Restart, TypeOK, net, pipe
<1>9. CASE Finish
  <2>1. serving \in [server : Servers, conn : 1..Len(conns)]
    BY <1>9 DEF Finish, TypeOK
  <2>2. Append(outgoing[serving.server], serving.conn) \in Seq(1..Len(conns))
    BY <1>0, <2>1, AppendProperties
  <2> QED
    BY <1>9, <2>1, <2>2 DEF Finish, TypeOK, net
<1>10. CASE UNCHANGED vars
  BY <1>10 DEF vars, net, pipe, dw, TypeOK
<1> QED
  BY <1>1, <1>2, <1>3, <1>4, <1>5, <1>6, <1>7, <1>8, <1>9, <1>10 DEF Next, Game, DwThread

(* Every variable of the hooks and of dw_thread keeps its type.            *)
THEOREM TypeCorrect == Spec => []TypeOK
  BY InitTypeOK, NextTypeOK, PTL DEF Spec

-----------------------------------------------------------------------------
(* OneLine. The queues of a server and the packet dw_thread has in hand    *)
(* only ever pass on the front element, whichever handle led to them.      *)

(* Queues are sequences of numbers. *)
LEMMA QueueType ==
  ASSUME TypeOK, NEW s \in Servers
  PROVE  /\ sent[s] \in Seq(Nat) /\ incoming[s] \in Seq(Nat)
         /\ outgoing[s] \in Seq(Nat) /\ read[s] \in Seq(Nat) /\ Served(s) \in Seq(Nat)
<1>1. /\ sent[s] \in Seq(1..Len(conns)) /\ incoming[s] \in Seq(1..Len(conns))
      /\ outgoing[s] \in Seq(1..Len(conns)) /\ read[s] \in Seq(1..Len(conns))
      /\ 1..Len(conns) \subseteq Nat
  BY DEF TypeOK
<1>2. Served(s) \in Seq(Nat)
  <2>1. CASE serving = NoPacket
    BY <2>1, NamesAssumption DEF Served, NoPacket
  <2>2. CASE serving \in [server : Servers, conn : 1..Len(conns)]
    BY <2>2 DEF Served
  <2> QED
    BY <2>1, <2>2 DEF TypeOK
<1> QED
  BY <1>1, <1>2, SeqMonotonic

(* Nothing is in hand for a server when dw_thread is between packets.      *)
LEMMA NothingServed ==
  ASSUME serving = NoPacket, NEW s \in Servers
  PROVE  Served(s) = <<>>
  BY NamesAssumption DEF Served, NoPacket

Line(s) == ((read[s] \o outgoing[s]) \o Served(s)) \o incoming[s]

(* Each step keeps every server's requests in one line. *)
LEMMA NextOneLine == TypeOK /\ OneLine /\ [Next]_vars => OneLine'
<1> SUFFICES ASSUME TypeOK, OneLine, [Next]_vars, NEW s \in Servers
             PROVE  sent'[s] = Line(s)'
  BY DEF OneLine, Line
<1>a. sent[s] = Line(s)
  BY DEF OneLine, Line
<1> DEFINE rd == read[s]   out == outgoing[s]   in == incoming[s]   srv == Served(s)
<1>b. rd \in Seq(Nat) /\ out \in Seq(Nat) /\ in \in Seq(Nat) /\ srv \in Seq(Nat)
  BY QueueType
<1>c. rd \o out \in Seq(Nat) /\ (rd \o out) \o srv \in Seq(Nat)
  BY <1>b, ConcatProperties
<1>d. ASSUME UNCHANGED <<sent, read, outgoing, incoming, serving>> PROVE sent'[s] = Line(s)'
  BY <1>a, <1>d DEF Line, Served
<1>1. ASSUME NEW t \in Servers, GetHostByName(t) PROVE sent'[s] = Line(s)'
  BY <1>1, <1>d DEF GetHostByName, pipe, dw
<1>2. ASSUME NEW h \in Handles, Socket(h) PROVE sent'[s] = Line(s)'
  BY <1>2, <1>d DEF Socket, pipe, dw
<1>3. ASSUME NEW h \in Handles, CloseSocket(h) PROVE sent'[s] = Line(s)'
  BY <1>3, <1>d DEF CloseSocket, pipe, dw
<1>4. ASSUME NEW h \in Handles, Send(h) PROVE sent'[s] = Line(s)'
  <2>1. open[h] \in Nat /\ sockets[h] \in Servers
    BY <1>4 DEF Send, TypeOK
  <2>2. UNCHANGED <<read, outgoing, serving>>
    BY <1>4 DEF Send, dw
  <2>3. CASE sockets[h] = s
    <3>1. sent'[s] = Append(sent[s], open[h]) /\ incoming'[s] = Append(in, open[h])
      BY <1>4, <2>3 DEF Send, TypeOK
    <3>2. Append(Line(s), open[h]) = ((rd \o out) \o srv) \o Append(in, open[h])
      <4> DEFINE x == (rd \o out) \o srv
      <4>1. x \in Seq(Nat) /\ in \in Seq(Nat) /\ Line(s) = x \o in
        BY <1>b, <1>c DEF Line
      <4> HIDE DEF x, in
      <4>2. Append(x \o in, open[h]) = x \o Append(in, open[h])
        BY <2>1, <4>1, AppendLast, Zenon
      <4> QED
        BY <4>1, <4>2 DEF x
    <3> QED
      BY <1>a, <2>2, <3>1, <3>2 DEF Line, Served
  <2>4. CASE sockets[h] # s
    <3>1. sent'[s] = sent[s] /\ incoming'[s] = in
      BY <1>4, <2>1, <2>4 DEF Send, TypeOK
    <3> QED
      BY <1>a, <2>2, <3>1 DEF Line, Served
  <2> QED
    BY <2>3, <2>4
<1>5. ASSUME NEW h \in Handles, Recv(h) PROVE sent'[s] = Line(s)'
  <2>1. UNCHANGED <<sent, incoming, serving>> /\ sockets[h] \in Servers
    BY <1>5 DEF Recv, TypeOK, dw
  <2>2. CASE sockets[h] = s
    <3>1. out # <<>> /\ read'[s] = Append(rd, Head(out)) /\ outgoing'[s] = Tail(out)
      BY <1>5, <2>2 DEF Recv, TypeOK
    <3>2. rd \o out = Append(rd, Head(out)) \o Tail(out)
      BY <1>b, <3>1, MoveHead
    <3> QED
      BY <1>a, <2>1, <3>1, <3>2 DEF Line, Served
  <2>3. CASE sockets[h] # s
    <3>1. read'[s] = rd /\ outgoing'[s] = out
      BY <1>5, <2>1, <2>3 DEF Recv, TypeOK
    <3> QED
      BY <1>a, <2>1, <3>1 DEF Line, Served
  <2> QED
    BY <2>2, <2>3
<1>6. ASSUME NEW h \in Handles, NEW a \in Addresses, Connect(h, a) PROVE sent'[s] = Line(s)'
  BY <1>6, <1>d DEF Connect, pipe
<1>7. CASE Visit
  <2>1. PICK h \in Reached : Visit!2!(h)
    BY <1>7 DEF Visit
  <2>2. sockets[h] \in Servers
    BY <2>1 DEF Reached, Ahead, Captured, TypeOK
  <2>3. UNCHANGED <<sent, outgoing, read>> /\ serving = NoPacket
    BY <1>7 DEF Visit
  <2>4. CASE UNCHANGED <<incoming, serving>>
    BY <1>d, <2>3, <2>4
  <2>5. CASE /\ incoming[sockets[h]] # <<>>
             /\ serving' = [server |-> sockets[h], conn |-> Head(incoming[sockets[h]])]
             /\ incoming' = [incoming EXCEPT ![sockets[h]] = Tail(@)]
    <3>1. srv = <<>>
      BY <2>3, NothingServed
    <3>2. CASE sockets[h] = s
      <4>1. in # <<>> /\ Served(s)' = <<Head(in)>> /\ incoming'[s] = Tail(in)
        BY <2>5, <3>2 DEF Served, TypeOK
      <4>2. Head(in) \in Nat
        BY <1>b, <4>1, HeadTailProperties
      <4>3. (rd \o out) \o in = Append(rd \o out, Head(in)) \o Tail(in)
        BY <1>b, <1>c, <4>1, MoveHead
      <4>4. Append(rd \o out, Head(in)) = (rd \o out) \o <<Head(in)>>
        BY <1>c, <4>2, AppendIsConcat
      <4>5. (rd \o out) \o srv = rd \o out
        BY <1>c, <3>1, ConcatEmptySeq
      <4> QED
        BY <1>a, <2>3, <4>1, <4>3, <4>4, <4>5 DEF Line
    <3>3. CASE sockets[h] # s
      <4>1. Served(s)' = <<>> /\ incoming'[s] = in
        BY <2>2, <2>5, <3>3 DEF Served, TypeOK
      <4> QED
        BY <1>a, <2>3, <3>1, <4>1 DEF Line
    <3> QED
      BY <3>2, <3>3
  <2> QED
    BY <2>1, <2>4, <2>5
<1>8. CASE Restart
  BY <1>8, <1>d DEF Restart, pipe
<1>9. CASE Finish
  <2>1. serving \in [server : Servers, conn : 1..Len(conns)] /\ serving' = NoPacket
    BY <1>9 DEF Finish, TypeOK
  <2>2. UNCHANGED <<sent, incoming, read>> /\ Served(s)' = <<>>
    BY <1>9, <2>1, NamesAssumption DEF Finish, Served, NoPacket
  <2>3. CASE serving.server = s
    <3>1. outgoing'[s] = Append(out, serving.conn) /\ srv = <<serving.conn>> /\ serving.conn \in Nat
      BY <1>9, <2>1, <2>3 DEF Finish, Served, TypeOK
    <3>2. (rd \o out) \o <<serving.conn>> = Append(rd \o out, serving.conn)
      BY <1>c, <3>1, AppendIsConcat
    <3>3. Append(rd \o out, serving.conn) = rd \o Append(out, serving.conn)
      <4> HIDE DEF rd, out
      <4> QED BY <1>b, <3>1, AppendLast, Zenon
    <3>4. Append(out, serving.conn) \in Seq(Nat)
      BY <1>b, <3>1, AppendProperties
    <3>5. rd \o Append(out, serving.conn) \in Seq(Nat)
      BY <1>b, <3>4, ConcatProperties
    <3>6. (rd \o Append(out, serving.conn)) \o <<>> = rd \o Append(out, serving.conn)
      BY <3>5, ConcatEmptySeq
    <3> QED
      BY <1>a, <2>2, <3>1, <3>2, <3>3, <3>6 DEF Line
  <2>4. CASE serving.server # s
    <3>1. outgoing'[s] = out /\ srv = <<>>
      BY <1>9, <2>1, <2>4 DEF Finish, Served, TypeOK
    <3> QED
      BY <1>a, <2>2, <3>1 DEF Line
  <2> QED
    BY <2>3, <2>4
<1>10. CASE UNCHANGED vars
  BY <1>10, <1>d DEF vars, pipe, dw
<1> QED
  BY <1>1, <1>2, <1>3, <1>4, <1>5, <1>6, <1>7, <1>8, <1>9, <1>10 DEF Next, Game, DwThread

(* The requests of a server's sockets are answered in the order they were  *)
(* sent, each once, whatever dw_thread's iterator and the handles do.      *)
THEOREM RequestsInLine == Spec => []OneLine
<1>1. Init => OneLine
  <2> SUFFICES ASSUME Init, NEW s \in Servers PROVE sent[s] = Line(s)
    BY DEF OneLine, Line
  <2>1. Served(s) = <<>> /\ sent[s] = <<>> /\ read[s] = <<>> /\ outgoing[s] = <<>> /\ incoming[s] = <<>>
    BY NothingServed DEF Init
  <2>2. <<>> \o <<>> = <<>>
    BY EmptySeq, ConcatEmptySeq
  <2> QED
    BY <2>1, <2>2 DEF Line
<1> QED
  BY <1>1, InitTypeOK, NextTypeOK, NextOneLine, PTL DEF Spec

-----------------------------------------------------------------------------
(* CapturedByLast. The open socket of a handle is the last one it was      *)
(* given to, so a connection that maps the handle is the last connection   *)
(* to a server.                                                            *)

OpenIsLast ==
  \A h \in Handles : open[h] # 0 =>
    \A l \in (open[h] + 1)..Len(conns) : conns[l].handle # h

(* The inductive invariant. *)
LastInv == OpenIsLast /\ CapturedByLast

(* The part of CapturedByLast about one handle.                            *)
NeverCaptured(h) ==
  /\ sockets[h] = NoServer
  /\ \A k \in 1..Len(conns) : conns[k].handle = h => conns[k].peer \notin Servers

LastIs(h, k) ==
  /\ conns[k].handle = h /\ conns[k].peer = sockets[h] /\ sockets[h] \in Servers
  /\ \A l \in (k + 1)..Len(conns) : conns[l].handle = h => conns[l].peer \notin Servers

LastOf(h) == NeverCaptured(h) \/ \E k \in 1..Len(conns) : LastIs(h, k)

(* CapturedByLast handle by handle. *)
LEMMA CapturedByLastDef == CapturedByLast <=> \A h \in Handles : LastOf(h)
  BY DEF CapturedByLast, LastOf, NeverCaptured, LastIs

(* A change that leaves the handle and the kind of peer of every socket of *)
(* a handle alone, and its entry in _sockets, leaves what is said of it.   *)
LEMMA LastStays ==
  ASSUME NEW h \in Handles, LastOf(h), sockets'[h] = sockets[h], Len(conns) \in Nat,
         Len(conns') = Len(conns),
         \A i \in 1..Len(conns) :
           /\ conns'[i].handle = conns[i].handle
           /\ conns'[i].handle = h =>
                \/ conns'[i].peer = conns[i].peer
                \/ conns'[i].peer \notin Servers /\ conns[i].peer \notin Servers
  PROVE  LastOf(h)'
<1>1. CASE NeverCaptured(h)
  BY <1>1 DEF LastOf, NeverCaptured
<1>2. CASE \E k \in 1..Len(conns) : LastIs(h, k)
  <2>1. PICK k \in 1..Len(conns) : LastIs(h, k)
    BY <1>2
  <2>2. conns'[k].handle = h /\ conns'[k].peer = sockets'[h] /\ sockets'[h] \in Servers
    BY <2>1 DEF LastIs
  <2>3. ASSUME NEW l \in (k + 1)..Len(conns'), conns'[l].handle = h PROVE conns'[l].peer \notin Servers
    BY <2>1, <2>3 DEF LastIs
  <2>4. LastIs(h, k)'
    BY <2>2, <2>3 DEF LastIs
  <2> QED
    BY <2>4 DEF LastOf
<1> QED
  BY <1>1, <1>2 DEF LastOf

(* Each step keeps the mapping of every handle that of its last server.    *)
LEMMA NextLast == TypeOK /\ LastInv /\ [Next]_vars => LastInv'
<1> SUFFICES ASSUME TypeOK, LastInv, [Next]_vars PROVE LastInv'
  OBVIOUS
<1>0. /\ conns \in Seq(Conn) /\ Len(conns) \in Nat
      /\ \A h \in Handles : open[h] \in 0..Len(conns)
      /\ \A h \in Handles : LastOf(h)
  BY CapturedByLastDef DEF TypeOK, Conn, LastInv
<1>d. ASSUME UNCHANGED <<conns, open, sockets>> PROVE LastInv'
  BY <1>d DEF LastInv, OpenIsLast, CapturedByLast
<1>1. ASSUME NEW s \in Servers, GetHostByName(s) PROVE LastInv'
  BY <1>1, <1>d DEF GetHostByName, net
<1>2. ASSUME NEW h \in Handles, Socket(h) PROVE LastInv'
  <2> DEFINE c == [handle |-> h, peer |-> NoServer]
  <2>1. c \in Conn /\ NoServer \notin Servers
    BY NamesAssumption DEF Conn
  <2>2. conns' = Append(conns, c) /\ open' = [open EXCEPT ![h] = Len(conns) + 1] /\ UNCHANGED sockets
    BY <1>2 DEF Socket
  <2>3. /\ Len(conns') = Len(conns) + 1
        /\ \A i \in 1..Len(conns) : conns'[i] = conns[i]
        /\ conns'[Len(conns) + 1] = c
    <3> HIDE DEF c
    <3> QED BY <1>0, <2>1, <2>2, AppendProperties
  <2>4. ASSUME NEW g \in Handles, open'[g] # 0, NEW l \in (open'[g] + 1)..Len(conns')
        PROVE  conns'[l].handle # g
    <3>1. g # h /\ open'[g] = open[g]
      BY <1>0, <2>2, <2>3, <2>4 DEF TypeOK
    <3>2. CASE l = Len(conns) + 1
      BY <2>3, <3>1, <3>2
    <3>3. CASE l \in (open[g] + 1)..Len(conns)
      BY <1>0, <2>3, <2>4, <3>1, <3>3 DEF LastInv, OpenIsLast
    <3> QED
      BY <1>0, <2>3, <2>4, <3>1, <3>2, <3>3
  <2>5. ASSUME NEW g \in Handles PROVE LastOf(g)'
    <3>1. CASE NeverCaptured(g)
      <4>1. ASSUME NEW k \in 1..Len(conns'), conns'[k].handle = g PROVE conns'[k].peer \notin Servers
        <5>1. CASE k = Len(conns) + 1
          BY <2>1, <2>3, <5>1
        <5>2. CASE k \in 1..Len(conns)
          BY <2>3, <3>1, <4>1, <5>2 DEF NeverCaptured
        <5> QED
          BY <1>0, <2>3, <5>1, <5>2
      <4> QED
        BY <2>2, <3>1, <4>1 DEF LastOf, NeverCaptured
    <3>2. CASE \E k \in 1..Len(conns) : LastIs(g, k)
      <4>1. PICK k \in 1..Len(conns) : LastIs(g, k)
        BY <3>2
      <4>2. ASSUME NEW l \in (k + 1)..Len(conns'), conns'[l].handle = g PROVE conns'[l].peer \notin Servers
        <5>1. CASE l = Len(conns) + 1
          BY <2>1, <2>3, <5>1
        <5>2. CASE l \in (k + 1)..Len(conns)
          BY <2>3, <4>1, <4>2, <5>2 DEF LastIs
        <5> QED
          BY <1>0, <2>3, <5>1, <5>2
      <4>3. k \in 1..Len(conns') /\ conns'[k] = conns[k]
        BY <1>0, <2>3
      <4>4. LastIs(g, k)'
        BY <2>2, <4>1, <4>2, <4>3 DEF LastIs
      <4> QED
        BY <4>3, <4>4 DEF LastOf
    <3> QED
      BY <1>0, <3>1, <3>2 DEF LastOf
  <2> QED
    BY <2>4, <2>5 DEF LastInv, OpenIsLast, CapturedByLast, LastOf, NeverCaptured, LastIs
<1>3. ASSUME NEW h \in Handles, CloseSocket(h) PROVE LastInv'
  <2>1. open' = [open EXCEPT ![h] = 0] /\ UNCHANGED <<conns, sockets>>
    BY <1>3 DEF CloseSocket
  <2>2. OpenIsLast'
    BY <2>1 DEF LastInv, OpenIsLast, TypeOK
  <2>3. CapturedByLast'
    BY <2>1 DEF LastInv, CapturedByLast
  <2> QED
    BY <2>2, <2>3 DEF LastInv
<1>4. ASSUME NEW h \in Handles, Send(h) PROVE LastInv'
  BY <1>4, <1>d DEF Send, net
<1>5. ASSUME NEW h \in Handles, Recv(h) PROVE LastInv'
  BY <1>5, <1>d DEF Recv, net
<1>6. ASSUME NEW h \in Handles, NEW a \in Addresses, Connect(h, a) PROVE LastInv'
  <2> DEFINE n == open[h]
  <2>1. n \in 1..Len(conns) /\ conns[n].handle = h /\ conns[n].peer = NoServer /\ UNCHANGED open
    BY <1>0, <1>6 DEF Connect, TypeOK
  <2>2. ASSUME NEW p, conns' = [conns EXCEPT ![n].peer = p]
        PROVE  /\ Len(conns') = Len(conns) /\ conns'[n].peer = p /\ conns'[n].handle = h
               /\ \A i \in 1..Len(conns) : i # n => conns'[i] = conns[i]
               /\ \A i \in 1..Len(conns) : conns'[i].handle = conns[i].handle
    <3>1. DOMAIN conns = 1..Len(conns) /\ conns[n] \in Conn
      BY <1>0, <2>1, LenProperties, ElementOfSeq
    <3>2. conns'[n] = [conns[n] EXCEPT !.peer = p] /\ DOMAIN conns' = 1..Len(conns)
      BY <2>1, <2>2, <3>1
    <3>3. Len(conns') = Len(conns)
      BY <1>0, <2>2
    <3>4. conns'[n].peer = p /\ conns'[n].handle = h
      BY <2>1, <3>1, <3>2 DEF Conn
    <3>5. \A i \in 1..Len(conns) : i # n => conns'[i] = conns[i]
      BY <2>1, <2>2, <3>1
    <3> QED
      BY <2>1, <3>3, <3>4, <3>5
  <2>3. ASSUME Len(conns') = Len(conns),
               \A i \in 1..Len(conns) : conns'[i].handle = conns[i].handle
        PROVE  OpenIsLast'
    <3> SUFFICES ASSUME NEW g \in Handles, open'[g] # 0, NEW l \in (open'[g] + 1)..Len(conns')
                 PROVE  conns'[l].handle # g
      BY DEF OpenIsLast
    <3>1. open'[g] = open[g] /\ open[g] \in 1..Len(conns) /\ l \in (open[g] + 1)..Len(conns)
      BY <1>0, <2>1, <2>3
    <3>2. conns[l].handle # g
      BY <3>1 DEF LastInv, OpenIsLast
    <3>3. l \in 1..Len(conns)
      BY <1>0, <3>1
    <3> QED
      BY <2>3, <3>2, <3>3
  <2>4. CASE /\ serverHashes[a] # NoServer
             /\ sockets' = [sockets EXCEPT ![h] = serverHashes[a]]
             /\ conns' = [conns EXCEPT ![n].peer = serverHashes[a]]
    <3> DEFINE s == serverHashes[a]
    <3>1. s \in Servers /\ sockets'[h] = s /\ \A g \in Handles \ {h} : sockets'[g] = sockets[g]
      BY <2>4 DEF TypeOK
    <3>2. /\ Len(conns') = Len(conns) /\ conns'[n].peer = s /\ conns'[n].handle = h
          /\ \A i \in 1..Len(conns) : i # n => conns'[i] = conns[i]
          /\ \A i \in 1..Len(conns) : conns'[i].handle = conns[i].handle
      BY <2>2, <2>4
    <3>3. OpenIsLast'
      BY <2>3, <3>2
    <3>4. LastIs(h, n)'
      <4>1. ASSUME NEW l \in (n + 1)..Len(conns') PROVE conns'[l].handle # h
        BY <2>1, <3>3 DEF OpenIsLast
      <4> QED
        BY <2>1, <3>1, <3>2, <4>1 DEF LastIs
    <3>5. LastOf(h)'
      BY <2>1, <3>2, <3>4 DEF LastOf
    <3>6. ASSUME NEW g \in Handles \ {h} PROVE LastOf(g)'
      <4>1. \A i \in 1..Len(conns) : conns'[i].handle = g => conns'[i].peer = conns[i].peer
        BY <3>2
      <4> QED
        BY <1>0, <3>1, <3>2, <4>1, LastStays
    <3> QED
      BY <3>3, <3>5, <3>6 DEF LastInv, CapturedByLast, LastOf, NeverCaptured, LastIs
  <2>5. CASE /\ a \in Hosts /\ UNCHANGED sockets
             /\ conns' = [conns EXCEPT ![n].peer = a]
    <3>1. /\ Len(conns') = Len(conns) /\ conns'[n].peer = a
          /\ \A i \in 1..Len(conns) : i # n => conns'[i] = conns[i]
          /\ \A i \in 1..Len(conns) : conns'[i].handle = conns[i].handle
      BY <2>2, <2>5
    <3>2. a \notin Servers /\ conns[n].peer \notin Servers
      BY <2>1, <2>5, NamesAssumption
    <3>3. ASSUME NEW g \in Handles PROVE LastOf(g)'
      <4>1. \A i \in 1..Len(conns) :
              \/ conns'[i].peer = conns[i].peer
              \/ conns'[i].peer \notin Servers /\ conns[i].peer \notin Servers
        BY <3>1, <3>2
      <4> QED
        BY <1>0, <2>5, <3>1, <4>1, LastStays
    <3> QED
      BY <2>3, <3>1, <3>3 DEF LastInv, CapturedByLast, LastOf, NeverCaptured, LastIs
  <2> QED
    BY <1>6, <2>4, <2>5 DEF Connect
<1>7. CASE Visit
  BY <1>7, <1>d DEF Visit, net
<1>8. CASE Restart
  BY <1>8, <1>d DEF Restart, net
<1>9. CASE Finish
  BY <1>9, <1>d DEF Finish, net
<1>10. CASE UNCHANGED vars
  BY <1>10, <1>d DEF vars, net
<1> QED
  BY <1>1, <1>2, <1>3, <1>4, <1>5, <1>6, <1>7, <1>8, <1>9, <1>10 DEF Next, Game, DwThread

(* A captured handle leads to the server of the last socket behind it that *)
(* was connected to one, though no closesocket is ever seen.               *)
THEOREM MappedToLast == Spec => []CapturedByLast
<1>1. Init => LastInv
  BY DEF Init, LastInv, OpenIsLast, CapturedByLast
<1>2. LastInv => CapturedByLast
  BY DEF LastInv
<1> QED
  BY <1>1, <1>2, InitTypeOK, NextTypeOK, NextLast, PTL DEF Spec

-----------------------------------------------------------------------------
(* dw_select *)

(* The number of elements of a set of handles.                             *)
LEMMA HandlesCounted ==
  ASSUME NEW H \in SUBSET Handles
  PROVE  Cardinality(H) \in Nat /\ (Cardinality(H) = 0 <=> H = {})
<1>1. IsFiniteSet(H)
  BY HandlesAssumption, FS_Subset
<1> QED
  BY <1>1, FS_CardinalityType, FS_EmptySet

(* What dw_select returns is positive if a reply waits, but for one        *)
(* captured socket alone.                                                  *)
LEMMA SelectCounts ==
  ASSUME NEW R \in SUBSET Handles, NEW W \in SUBSET Handles,
         NEW r \in SUBSET Reachable(R \ Captured(R)), NEW w \in SUBSET Reachable(W),
         WithReply(R \cup W) # {}
  PROVE  Select(R, W, r, w) > 0 \/ (W = {} /\ Cardinality(R) = 1)
<1>1. /\ r \in SUBSET Handles /\ w \in SUBSET Handles
      /\ Captured(R) \in SUBSET Handles /\ WithReply(W) \in SUBSET Handles
  BY DEF Reachable, Captured, WithReply
<1>2. /\ Cardinality(r) \in Nat /\ Cardinality(w) \in Nat /\ Cardinality(R) \in Nat
      /\ Cardinality(Captured(R)) \in Nat /\ Cardinality(WithReply(W)) \in Nat
  BY <1>1, HandlesCounted
<1>3. PICK h \in R \cup W : sockets[h] # NoServer /\ outgoing[sockets[h]] # <<>>
  BY DEF WithReply, Captured
<1>4. CASE h \in W
  <2>1. WithReply(W) # {}
    BY <1>3, <1>4 DEF WithReply, Captured
  <2>2. Cardinality(WithReply(W)) # 0
    BY <1>1, <2>1, HandlesCounted
  <2>3. WinsockSelect(R, W, r, w) = Cardinality(r) + Cardinality(w)
    BY <1>4 DEF WinsockSelect
  <2> QED
    BY <1>2, <2>2, <2>3 DEF Select
<1>5. CASE h \in R
  <2>1. Captured(R) # {}
    BY <1>3, <1>5 DEF Captured
  <2>2. Cardinality(Captured(R)) # 0
    BY <1>1, <2>1, HandlesCounted
  <2>3. CASE R \ Captured(R) = {} /\ W = {}
    <3>1. Captured(R) = R
      BY <2>3 DEF Captured
    <3>2. WinsockSelect(R, W, r, w) = -1
      BY <2>3 DEF WinsockSelect
    <3> QED
      BY <1>2, <2>2, <2>3, <3>1, <3>2 DEF Select
  <2>4. CASE ~(R \ Captured(R) = {} /\ W = {})
    <3>1. WinsockSelect(R, W, r, w) = Cardinality(r) + Cardinality(w)
      BY <2>4 DEF WinsockSelect
    <3> QED
      BY <1>2, <2>2, <3>1 DEF Select
  <2> QED
    BY <2>3, <2>4
<1> QED
  BY <1>4, <1>5

(* A caller of dw_select that looks at the sets only when it returns more  *)
(* than 0 misses a reply only if it asks for one captured socket alone, to *)
(* read: for any sets, and whatever winsock reports of the sockets that    *)
(* are not captured.                                                       *)
THEOREM RepliesNoticed == Spec => []ReplyNoticed
<1>1. ReplyNoticed
  BY SelectCounts DEF ReplyNoticed
<1> QED
  BY <1>1, PTL
=============================================================================
