------------------------ MODULE ServerBrowser_proofs -------------------------
(***************************************************************************)
(* Proofs about ServerBrowser, for every set of servers, length of the    *)
(* lists and tables, batch, time between steps and wrap of the tick.       *)
(***************************************************************************)
EXTENDS ServerBrowser, SequenceTheorems, FiniteSetTheorems, TLAPS

Entries == [addr : Servers, queried : BOOLEAN, timed : BOOLEAN, asked : Nat]

-----------------------------------------------------------------------------
(* The inductive invariant *)

(* The flag of an entry says how often it was asked.                       *)
AskedInv == \A i \in 1..Len(servers) :
  servers[i].asked = (IF servers[i].queried THEN 1 ELSE 0) /\ (servers[i].queried => servers[i].timed)

(* The difference of the ticks is the true time, across the wrap, too.     *)
SinceInv == since = IF tick >= lastQueryStep THEN tick - lastQueryStep ELSE (tick - lastQueryStep) + Wrap

(* Nothing was asked before the first refresh; everything that was asked   *)
(* first in this one is still in the list, with the time of asking.        *)
FirstInv ==
  /\ refresh = 0 => servers = <<>> /\ contacted = {} /\ ~lookedUp
  /\ \A a \in contacted \ early : \E j \in 1..Len(servers) : servers[j].addr = a /\ servers[j].timed

BrowserInv == TypeOK /\ AskedInv /\ SinceInv /\ FirstInv /\ RowsRight

-----------------------------------------------------------------------------
(* Arithmetic of the tick *)

(* A tick that advances by less than a turn wraps at most once.            *)
LEMMA NextTick ==
  ASSUME TypeOK
  PROVE  /\ (tick + 1) % Wrap \in 0..(Wrap - 1)
         /\ (tick + 1) % Wrap = IF tick + 1 < Wrap THEN tick + 1 ELSE 0
<1>1. Wrap \in Nat \ {0} /\ tick \in 0..(Wrap - 1)
  BY BoundsAssumption DEF TypeOK
<1>2. CASE tick + 1 < Wrap
  <2>1. tick + 1 \in 0..(Wrap - 1)
    BY <1>1, <1>2
  <2> QED
    BY <1>1, <1>2, <2>1
<1>3. CASE ~(tick + 1 < Wrap)
  <2>1. tick + 1 = Wrap
    BY <1>1, <1>3
  <2> QED
    BY <1>1, <2>1
<1> QED
  BY <1>2, <1>3

(* The difference of the ticks, taken modulo the wrap, is the true time.   *)
LEMMA DifferenceIsTime ==
  ASSUME TypeOK, SinceInv
  PROVE  (tick - lastQueryStep) % Wrap = since
<1>1. /\ Wrap \in Nat \ {0} /\ tick \in 0..(Wrap - 1) /\ lastQueryStep \in 0..(Wrap - 1)
      /\ since \in 0..(Wrap - 1)
  BY BoundsAssumption DEF TypeOK
<1>2. CASE tick >= lastQueryStep
  <2>1. since = tick - lastQueryStep
    BY <1>2 DEF SinceInv
  <2> QED
    BY <1>1, <2>1
<1>3. CASE ~(tick >= lastQueryStep)
  <2>1. since = (tick - lastQueryStep) + Wrap
    BY <1>3 DEF SinceInv
  <2> QED
    BY <1>1, <1>3, <2>1
<1> QED
  BY <1>2, <1>3

-----------------------------------------------------------------------------
(* The list after a step *)

(* An entry that is asked stays one, with its address, and is marked.      *)
LEMMA Queried ==
  ASSUME NEW e \in Entries
  PROVE  /\ QueryServer(e) \in Entries
         /\ QueryServer(e).addr = e.addr /\ QueryServer(e).asked = e.asked + 1
         /\ QueryServer(e).queried /\ QueryServer(e).timed
<1>1. /\ QueryServer(e).addr = e.addr /\ QueryServer(e).asked = e.asked + 1
      /\ QueryServer(e).queried = TRUE /\ QueryServer(e).timed = TRUE
  BY DEF Entries, QueryServer
<1>2. QueryServer(e) \in Entries
  <2>1. e.asked + 1 \in Nat
    BY DEF Entries
  <2>2. ASSUME NEW n \in Nat
        PROVE  [e EXCEPT !.queried = TRUE, !.timed = TRUE, !.asked = n] \in Entries
    BY Zenon DEF Entries
  <2> QED
    BY <2>1, <2>2 DEF QueryServer
<1> QED
  BY <1>1, <1>2

(* What the type says of one entry of the list.                            *)
LEMMA EntriesTyped ==
  ASSUME TypeOK
  PROVE  \A i \in 1..Len(servers) :
           servers[i] \in Entries /\ servers[i].addr \in Servers /\ servers[i].timed \in BOOLEAN
<1>1. \A i \in 1..Len(servers) : servers[i] \in Entries
  <2>1. servers \in Seq(Entries)
    BY DEF TypeOK, Entries
  <2> QED
    BY <2>1
<1>2. ASSUME NEW e \in Entries PROVE e.addr \in Servers /\ e.timed \in BOOLEAN
  BY Zenon DEF Entries
<1> QED
  BY <1>1, <1>2

(* A step keeps the entries and asks only those not asked before.          *)
LEMMA StepKeepsList ==
  ASSUME TypeOK, AskedInv
  PROVE  /\ Stepped \in Seq(Entries) /\ Len(Stepped) = Len(servers)
         /\ \A i \in 1..Len(servers) :
              /\ Stepped[i].addr = servers[i].addr
              /\ Stepped[i].asked = (IF Stepped[i].queried THEN 1 ELSE 0)
              /\ Stepped[i].queried => Stepped[i].timed
              /\ servers[i].timed => Stepped[i].timed
              /\ StepDue /\ i \in Picked => Stepped[i].timed
<1>1. Len(servers) \in Nat /\ servers \in Seq(Entries)
  BY DEF TypeOK, Entries
<1>2. \A i \in 1..Len(servers) : servers[i] \in Entries
  BY EntriesTyped
<1>3. CASE ~StepDue
  <2>1. Stepped = servers
    BY <1>3 DEF Stepped
  <2> QED
    BY <1>1, <1>3, <2>1 DEF AskedInv
<1>4. CASE StepDue
  <2> DEFINE F == [i \in 1..Len(servers) |->
                     IF i \in Picked THEN QueryServer(servers[i]) ELSE servers[i]]
  <2>1. Stepped = F
    BY <1>4 DEF Stepped
  <2>2. \A i \in 1..Len(servers) : F[i] \in Entries
    BY <1>2, Queried
  <2>3. F \in Seq(Entries) /\ Len(F) = Len(servers)
    <3> DEFINE n == Len(servers)
    <3>1. n \in Nat /\ F \in [1..n -> Entries]
      BY <1>1, <2>2
    <3> HIDE DEF F, n
    <3>2. F \in Seq(Entries) /\ Len(F) = n
      BY <3>1
    <3> QED
      BY <3>2 DEF n
  <2>4. ASSUME NEW i \in 1..Len(servers)
        PROVE  /\ F[i].addr = servers[i].addr
               /\ F[i].asked = (IF F[i].queried THEN 1 ELSE 0)
               /\ F[i].queried => F[i].timed
               /\ servers[i].timed => F[i].timed
               /\ i \in Picked => F[i].timed
    <3>1. CASE i \in Picked
      <4>1. F[i] = QueryServer(servers[i])
        BY <3>1
      <4>2. servers[i] \in Entries
        BY <1>2
      <4>3. ~servers[i].queried
        BY <3>1 DEF Picked, Waiting
      <4>4. servers[i].asked = 0
        BY <4>3 DEF AskedInv
      <4> HIDE DEF F
      <4>5. F[i].addr = servers[i].addr /\ F[i].asked = 1 /\ F[i].queried /\ F[i].timed
        BY <4>1, <4>2, <4>4, Queried
      <4> QED
        BY <4>5
    <3>2. CASE i \notin Picked
      <4>1. F[i] = servers[i]
        BY <3>2
      <4> QED
        BY <3>2, <4>1 DEF AskedInv
    <3> QED
      BY <3>1, <3>2
  <2> HIDE DEF F
  <2> QED
    BY <1>4, <2>1, <2>3, <2>4
<1> QED
  BY <1>3, <1>4

(* Of the listed servers no more are taken than there is room for.         *)
LEMMA FittingFits ==
  ASSUME TypeOK, NEW new \in Lists
  PROVE  /\ Fitting(new) \in Seq(Servers)
         /\ Len(Fitting(new)) \in 0..(Capacity - Len(servers))
         /\ \A k \in 1..Len(Fitting(new)) : new[k] \in Servers
<1>1. new \in Seq(Servers) /\ Len(new) \in Nat
  <2>1. PICK n \in 1..MaxList : new \in [1..n -> Servers]
    BY DEF Lists
  <2> QED
    BY <2>1, BoundsAssumption
<1>2. Len(servers) \in Nat /\ Capacity \in Nat /\ Len(servers) <= Capacity
  BY BoundsAssumption DEF TypeOK
<1>3. CASE Len(new) <= Capacity - Len(servers)
  BY <1>1, <1>2, <1>3 DEF Fitting
<1>4. CASE ~(Len(new) <= Capacity - Len(servers))
  <2> DEFINE room == Capacity - Len(servers)
  <2>1. room \in 0..Len(new)
    BY <1>1, <1>2, <1>4
  <2>2. Fitting(new) = SubSeq(new, 1, room)
    BY <1>4 DEF Fitting
  <2>3. SubSeq(new, 1, room) \in Seq(Servers) /\ Len(SubSeq(new, 1, room)) = room
    BY <1>1, <2>1
  <2> QED
    BY <1>1, <2>1, <2>2, <2>3
<1> QED
  BY <1>3, <1>4

(* The entries added by an answer of the master.                           *)
LEMMA AddedEntries ==
  ASSUME TypeOK, NEW new \in Lists
  PROVE  /\ [k \in 1..Len(Fitting(new)) |-> Entry(new[k])] \in Seq(Entries)
         /\ Len([k \in 1..Len(Fitting(new)) |-> Entry(new[k])]) = Len(Fitting(new))
         /\ \A k \in 1..Len(Fitting(new)) :
              Entry(new[k]).asked = 0 /\ ~Entry(new[k]).queried
<1>1. Len(Fitting(new)) \in Nat /\ \A k \in 1..Len(Fitting(new)) : new[k] \in Servers
  <2>1. Len(Fitting(new)) \in Nat
    BY FittingFits, BoundsAssumption DEF TypeOK
  <2> QED
    BY <2>1, FittingFits
<1>2. \A k \in 1..Len(Fitting(new)) :
        /\ Entry(new[k]) \in Entries
        /\ Entry(new[k]).asked = 0 /\ Entry(new[k]).queried = FALSE
  BY <1>1 DEF Entry, Entries
<1> DEFINE n == Len(Fitting(new))
           A == [k \in 1..n |-> Entry(new[k])]
<1>3. n \in Nat /\ A \in [1..n -> Entries]
  BY <1>1, <1>2
<1>4. A \in Seq(Entries) /\ Len(A) = n
  <2> HIDE DEF A, n
  <2> QED
    BY <1>3
<1> QED
  BY <1>2, <1>4

(* What a frame, or an answer of the master, makes of the list.            *)
LEMMA StepExtendsList ==
  ASSUME TypeOK, AskedInv, RunFrame \/ \E new \in Lists : HandleServersResponse(new)
  PROVE  /\ servers' \in Seq(Entries) /\ Len(servers') \in Len(servers)..Capacity
         /\ \A i \in 1..Len(servers') :
              /\ servers'[i].asked = (IF servers'[i].queried THEN 1 ELSE 0)
              /\ servers'[i].queried => servers'[i].timed
         /\ \A i \in 1..Len(servers) :
              /\ servers'[i].addr = servers[i].addr
              /\ servers[i].timed => servers'[i].timed
              /\ StepDue /\ i \in Picked => servers'[i].timed
<1>1. Len(servers) \in Nat /\ Capacity \in Nat /\ Len(servers) <= Capacity
  BY BoundsAssumption DEF TypeOK
<1>2. CASE RunFrame
  <2>1. servers' = Stepped
    BY <1>2 DEF RunFrame
  <2> QED
    BY <1>1, <2>1, StepKeepsList
<1>3. ASSUME NEW new \in Lists, HandleServersResponse(new)
      PROVE  /\ servers' \in Seq(Entries) /\ Len(servers') \in Len(servers)..Capacity
             /\ \A i \in 1..Len(servers') :
                  /\ servers'[i].asked = (IF servers'[i].queried THEN 1 ELSE 0)
                  /\ servers'[i].queried => servers'[i].timed
             /\ \A i \in 1..Len(servers) : servers'[i] = Stepped[i]
  <2> DEFINE A == [k \in 1..Len(Fitting(new)) |-> Entry(new[k])]
  <2>1. servers' = Stepped \o A
    BY <1>3 DEF HandleServersResponse
  <2>2. /\ A \in Seq(Entries) /\ Len(A) = Len(Fitting(new))
        /\ \A k \in 1..Len(Fitting(new)) : A[k].asked = 0 /\ ~A[k].queried
    BY AddedEntries
  <2>3. Len(Fitting(new)) \in 0..(Capacity - Len(servers))
    BY FittingFits
  <2>4. Stepped \in Seq(Entries) /\ Len(Stepped) = Len(servers)
    BY StepKeepsList
  <2> HIDE DEF A
  <2>5. /\ servers' \in Seq(Entries) /\ Len(servers') = Len(Stepped) + Len(A)
        /\ \A i \in 1..Len(servers') :
             servers'[i] = IF i <= Len(Stepped) THEN Stepped[i] ELSE A[i - Len(Stepped)]
    <3>1. Stepped \o A \in Seq(Entries)
      BY <2>2, <2>4
    <3>2. Len(Stepped \o A) = Len(Stepped) + Len(A)
      BY <2>2, <2>4
    <3>3. \A i \in 1..Len(Stepped) + Len(A) :
            (Stepped \o A)[i] = IF i <= Len(Stepped) THEN Stepped[i] ELSE A[i - Len(Stepped)]
      BY <2>2, <2>4
    <3> QED
      BY <2>1, <3>1, <3>2, <3>3, Zenon
  <2>6. Len(servers') \in Len(servers)..Capacity
    BY <1>1, <2>2, <2>3, <2>4, <2>5
  <2>7. \A i \in 1..Len(servers) : servers'[i] = Stepped[i]
    BY <1>1, <2>4, <2>5, <2>6
  <2>8. ASSUME NEW i \in 1..Len(servers')
        PROVE  /\ servers'[i].asked = (IF servers'[i].queried THEN 1 ELSE 0)
               /\ servers'[i].queried => servers'[i].timed
    <3>1. CASE i \in 1..Len(servers)
      BY <3>1, <2>7, StepKeepsList
    <3>2. CASE i \notin 1..Len(servers)
      <4>1. i - Len(Stepped) \in 1..Len(Fitting(new)) /\ ~(i <= Len(Stepped))
        BY <1>1, <3>2, <2>2, <2>3, <2>4, <2>5
      <4>2. servers'[i] = A[i - Len(Stepped)]
        BY <2>5, <4>1
      <4> QED
        BY <2>2, <4>1, <4>2
    <3> QED
      BY <3>1, <3>2
  <2> QED
    BY <2>5, <2>6, <2>7, <2>8
<1>4. CASE \E new \in Lists : HandleServersResponse(new)
  BY <1>3, <1>4, StepKeepsList
<1> QED
  BY <1>2, <1>4

(* The servers with a given address are no more than the table has rows.   *)
LEMMA MatchesFit ==
  ASSUME TypeOK, NEW a
  PROVE  Cardinality({i \in 1..Len(servers) : servers[i].addr = a}) \in 0..Capacity
<1> DEFINE M == {i \in 1..Len(servers) : servers[i].addr = a}
<1>1. Len(servers) \in Nat /\ Capacity \in Nat /\ Len(servers) <= Capacity
  BY BoundsAssumption DEF TypeOK
<1>2. IsFiniteSet(1..Len(servers)) /\ Cardinality(1..Len(servers)) = Len(servers)
  <2>1. Len(servers) \in Int /\ 1 \in Int
    BY <1>1
  <2>2. IsFiniteSet(1..Len(servers))
    BY <2>1, FS_Interval
  <2>3. Cardinality(1..Len(servers)) = IF 1 > Len(servers) THEN 0 ELSE (Len(servers) - 1) + 1
    BY <2>1, FS_Interval, Zenon
  <2> QED
    BY <1>1, <2>2, <2>3
<1>3. IsFiniteSet(M) /\ Cardinality(M) <= Len(servers)
  BY <1>2, FS_Subset
<1>4. Cardinality(M) \in Nat
  BY <1>3, FS_CardinalityType
<1> QED
  BY <1>1, <1>3, <1>4

-----------------------------------------------------------------------------
(* The invariant holds at first.                                           *)
LEMMA InitBrowserInv == Init => BrowserInv
<1> SUFFICES ASSUME Init PROVE BrowserInv
  OBVIOUS
<1>1. servers = <<>> /\ servers \in Seq(Entries) /\ Len(servers) = 0
  BY DEF Init
<1>2. tick \in 0..(Wrap - 1) /\ since = tick /\ lastQueryStep = 0 /\ 0 \in 0..(Wrap - 1)
  BY BoundsAssumption DEF Init
<1>3. TypeOK
  <2>1. lookedUp \in BOOLEAN /\ released \in BOOLEAN
    BY DEF Init
  <2> QED
    BY <1>1, <1>2, <2>1, BoundsAssumption DEF Init, TypeOK, Entries
<1>4. AskedInv /\ SinceInv
  BY <1>1, <1>2 DEF AskedInv, SinceInv
<1>5. refresh = 0
  BY DEF Init
<1>6. FirstInv
  BY <1>5 DEF Init, FirstInv
<1>7. RowsRight
  BY <1>5 DEF RowsRight, RowsAreEntries, PingMeasured
<1> QED
  BY <1>3, <1>4, <1>6, <1>7 DEF BrowserInv

(* Type correctness is kept. *)
LEMMA NextTypeOK == TypeOK /\ AskedInv /\ FirstInv /\ [Next]_vars => TypeOK'
<1> SUFFICES ASSUME TypeOK, AskedInv, FirstInv, [Next]_vars PROVE TypeOK'
  OBVIOUS
<1> DEFINE RowsUpTo(n) == [refresh : 1..n, addr : Servers, measured : BOOLEAN] \cup {NoRow}
<1> USE DEF list, step, past
<1>1. CASE Tick
  <2>1. tick' \in 0..(Wrap - 1) /\ since' \in 0..(Wrap - 1)
    BY <1>1, NextTick, BoundsAssumption DEF Tick, TypeOK
  <2> QED
    BY <1>1, <2>1 DEF Tick, TypeOK
<1>2. CASE RequestServerList
  <2>1. refresh' = refresh + 1 /\ refresh' \in 0..MaxRefreshes
    BY <1>2, BoundsAssumption DEF RequestServerList, TypeOK
  <2>2. RowsUpTo(refresh) \subseteq RowsUpTo(refresh')
    <3>1. 1..refresh \subseteq 1..refresh'
      BY <2>1 DEF TypeOK
    <3> QED
      BY <3>1, Zenon
  <2>3. rows' \in [1..Capacity -> RowsUpTo(refresh')]
    <3>1. rows \in [1..Capacity -> RowsUpTo(refresh)] /\ rows' = rows
      BY <1>2 DEF RequestServerList, TypeOK
    <3> HIDE DEF RowsUpTo
    <3> QED
      BY <2>2, <3>1
  <2>4. servers' \in Seq(Entries) /\ Len(servers') = 0
    BY <1>2 DEF RequestServerList
  <2>5. lookedUp' \in BOOLEAN /\ released' \in BOOLEAN
    BY <1>2 DEF RequestServerList, TypeOK
  <2> QED
    BY <1>2, <2>1, <2>3, <2>4, <2>5, BoundsAssumption DEF RequestServerList, TypeOK, Entries
<1>3. CASE ReleaseRequest
  <2>1. released' \in BOOLEAN
    BY <1>3 DEF ReleaseRequest
  <2> QED
    BY <1>3, <2>1 DEF ReleaseRequest, TypeOK
<1>4. CASE RunFrame \/ \E new \in Lists : HandleServersResponse(new)
  <2>1. servers' \in Seq(Entries) /\ Len(servers') <= Capacity
    BY <1>4, StepExtendsList, BoundsAssumption DEF TypeOK
  <2>2. \A i \in Picked : servers[i].addr \in Servers
    BY EntriesTyped DEF Picked, Waiting
  <2>3. QueryStep
    BY <1>4 DEF RunFrame, HandleServersResponse
  <2>4. /\ lastQueryStep' \in 0..(Wrap - 1) /\ since' \in 0..(Wrap - 1)
        /\ contacted' \subseteq Servers
    <3>1. tick \in 0..(Wrap - 1) /\ since \in 0..(Wrap - 1) /\ 0 \in 0..(Wrap - 1) /\ contacted \subseteq Servers
      BY BoundsAssumption DEF TypeOK
    <3>2. lastQueryStep' \in 0..(Wrap - 1) /\ since' \in 0..(Wrap - 1)
      BY <2>3, <3>1 DEF QueryStep, TypeOK
    <3>3. contacted' \subseteq Servers
      BY <2>2, <2>3, <3>1 DEF QueryStep
    <3> QED
      BY <3>2, <3>3
  <2>5. /\ UNCHANGED <<rows, shown, tick, refresh>> /\ UNCHANGED <<lookedUp, released, early>>
        /\ pc' \in {"game", "poll"}
    BY <1>4 DEF RunFrame, HandleServersResponse, TypeOK
  <2>6. /\ rows' \in [1..Capacity -> RowsUpTo(refresh)] /\ shown' \in 0..255
        /\ tick' \in 0..(Wrap - 1) /\ refresh' \in 0..MaxRefreshes
        /\ lookedUp' \in BOOLEAN /\ released' \in BOOLEAN /\ early' \subseteq Servers
    BY <2>5 DEF TypeOK
  <2>7. rows' \in [1..Capacity -> RowsUpTo(refresh')]
    BY <2>5, <2>6
  <2>8. /\ servers' \in Seq(Entries) /\ Len(servers') <= Capacity
        /\ lastQueryStep' \in 0..(Wrap - 1) /\ since' \in 0..(Wrap - 1) /\ contacted' \subseteq Servers
        /\ pc' \in {"game", "poll"}
    BY <2>1, <2>4, <2>5
  <2> QED
    BY <2>6, <2>7, <2>8, Zenon DEF TypeOK, Entries
<1>5. ASSUME NEW a \in Servers, HandleInfoResponse(a) PROVE TypeOK'
  <2> DEFINE matches == {i \in 1..Len(servers) : servers[i].addr = a}
  <2>1. shown' \in 0..255
    <3>1. Cardinality(matches) \in Nat
      <4>1. Cardinality(matches) \in 0..Capacity
        BY MatchesFit, Zenon
      <4> HIDE DEF matches
      <4> QED
        BY <4>1, BoundsAssumption
    <3>2. shown' = Cardinality(matches) % 256
      BY <1>5 DEF HandleInfoResponse
    <3> HIDE DEF matches
    <3> QED
      BY <3>1, <3>2
  <2>2. refresh \in 1..refresh
    BY <1>5 DEF HandleInfoResponse, FirstInv, TypeOK
  <2>3. \A i \in 1..Len(servers) :
          [refresh |-> refresh, addr |-> a, measured |-> servers[i].timed] \in RowsUpTo(refresh)
    <3>1. \A i \in 1..Len(servers) : servers[i].timed \in BOOLEAN
      BY EntriesTyped
    <3> QED
      BY <2>2, <3>1, Zenon
  <2>4. \A r \in 1..Capacity : rows'[r] \in RowsUpTo(refresh)
    <3> TAKE r \in 1..Capacity
    <3>1. CASE \E i \in matches : RowOf(matches, i) = r
      <4> DEFINE i == CHOOSE j \in matches : RowOf(matches, j) = r
      <4>1. i \in matches
        BY <3>1
      <4>2. rows'[r] = [refresh |-> refresh, addr |-> a, measured |-> servers[i].timed]
        BY <1>5, <3>1 DEF HandleInfoResponse
      <4> QED
        BY <2>3, <4>1, <4>2
    <3>2. CASE ~\E i \in matches : RowOf(matches, i) = r
      BY <1>5, <3>2 DEF HandleInfoResponse, TypeOK
    <3> QED
      BY <3>1, <3>2
  <2>5. rows' \in [1..Capacity -> RowsUpTo(refresh)]
    <3>1. rows' = [r \in 1..Capacity |-> rows'[r]]
      BY <1>5 DEF HandleInfoResponse
    <3> HIDE DEF RowsUpTo
    <3> QED
      BY <2>4, <3>1
  <2> QED
    BY <1>5, <2>1, <2>5 DEF HandleInfoResponse, TypeOK
<1>6. CASE WouldBlock
  BY <1>6 DEF WouldBlock, TypeOK
<1>7. CASE UNCHANGED vars
  BY <1>7 DEF vars, TypeOK
<1> QED
  BY <1>1, <1>2, <1>3, <1>4, <1>5, <1>6, <1>7 DEF Next, Client

(* The flags and the count of an entry stay in step.                       *)
LEMMA NextAskedInv == TypeOK /\ AskedInv /\ [Next]_vars => AskedInv'
<1> SUFFICES ASSUME TypeOK, AskedInv, [Next]_vars PROVE AskedInv'
  OBVIOUS
<1>1. CASE RequestServerList
  BY <1>1 DEF RequestServerList, AskedInv
<1>2. CASE RunFrame \/ \E new \in Lists : HandleServersResponse(new)
  BY <1>2, StepExtendsList DEF AskedInv
<1>3. CASE UNCHANGED servers
  BY <1>3 DEF AskedInv
<1>4. \/ RequestServerList \/ UNCHANGED servers
      \/ RunFrame \/ \E new \in Lists : HandleServersResponse(new)
  BY DEF Next, Client, Tick, ReleaseRequest, HandleInfoResponse, WouldBlock, vars, list
<1> QED
  BY <1>1, <1>2, <1>3, <1>4

(* The difference of the ticks stays the true time.                        *)
LEMMA NextSinceInv == TypeOK /\ SinceInv /\ [Next]_vars => SinceInv'
<1> SUFFICES ASSUME TypeOK, SinceInv, [Next]_vars PROVE SinceInv'
  OBVIOUS
<1>1. /\ tick \in 0..(Wrap - 1) /\ lastQueryStep \in 0..(Wrap - 1) /\ since \in 0..(Wrap - 1)
      /\ Wrap \in Nat \ {0}
  BY BoundsAssumption DEF TypeOK
<1>2. CASE Tick
  <2>1. /\ since < Wrap - 1 /\ since' = since + 1 /\ lastQueryStep' = lastQueryStep
        /\ tick' = IF tick + 1 < Wrap THEN tick + 1 ELSE 0
    BY <1>2, NextTick DEF Tick
  <2> QED
    BY <1>1, <2>1 DEF SinceInv
<1>3. CASE QueryStep /\ UNCHANGED tick
  BY <1>1, <1>3 DEF QueryStep, SinceInv
<1>4. CASE UNCHANGED step
  BY <1>4 DEF step, SinceInv
<1>5. Tick \/ (QueryStep /\ UNCHANGED tick) \/ UNCHANGED step
  BY DEF Next, Client, RunFrame, HandleServersResponse, RequestServerList, ReleaseRequest,
         HandleInfoResponse, WouldBlock, vars
<1> QED
  BY <1>2, <1>3, <1>4, <1>5

(* What was asked first in this refresh stays in the list.                 *)
LEMMA NextFirstInv == TypeOK /\ AskedInv /\ FirstInv /\ [Next]_vars => FirstInv'
<1> SUFFICES ASSUME TypeOK, AskedInv, FirstInv, [Next]_vars PROVE FirstInv'
  OBVIOUS
<1> USE DEF past, list
<1>1. refresh \in Nat
  BY DEF TypeOK
<1>2. CASE RequestServerList
  BY <1>1, <1>2 DEF RequestServerList, FirstInv
<1>3. CASE RunFrame \/ \E new \in Lists : HandleServersResponse(new)
  <2>1. refresh' = refresh /\ early' = early /\ lookedUp' = lookedUp /\ QueryStep
    BY <1>3 DEF RunFrame, HandleServersResponse
  <2>2. ASSUME refresh = 0 PROVE servers' = <<>> /\ contacted' = {} /\ ~lookedUp'
    <3>1. servers = <<>> /\ contacted = {} /\ ~lookedUp
      BY <2>2 DEF FirstInv
    <3>2. RunFrame
      BY <1>3, <3>1 DEF HandleServersResponse
    <3>3. Len(servers) = 0 /\ Picked = {}
      BY <3>1 DEF Picked, Waiting
    <3>4. contacted' = {}
      BY <2>1, <3>1, <3>3 DEF QueryStep
    <3>5. servers' = <<>>
      BY <3>1, <3>2, <3>3 DEF RunFrame, Stepped
    <3> QED
      BY <2>1, <3>1, <3>4, <3>5
  <2>3. ASSUME NEW a \in contacted' \ early'
        PROVE  \E j \in 1..Len(servers') : servers'[j].addr = a /\ servers'[j].timed
    <3>1. 1..Len(servers) \subseteq 1..Len(servers')
      <4>1. Len(servers) \in Nat /\ Len(servers') \in Len(servers)..Capacity
        BY <1>3, StepExtendsList DEF TypeOK
      <4> QED
        BY <4>1, BoundsAssumption
    <3>2. CASE a \in contacted
      <4>1. PICK j \in 1..Len(servers) : servers[j].addr = a /\ servers[j].timed
        BY <2>1, <2>3, <3>2 DEF FirstInv
      <4> QED
        BY <1>3, <3>1, <4>1, StepExtendsList
    <3>3. CASE a \notin contacted
      <4>1. StepDue /\ \E i \in Picked : a = servers[i].addr
        BY <2>1, <2>3, <3>3 DEF QueryStep
      <4>2. PICK i \in Picked : a = servers[i].addr
        BY <4>1
      <4>3. i \in 1..Len(servers)
        BY DEF Picked, Waiting
      <4> QED
        BY <1>3, <3>1, <4>1, <4>2, <4>3, StepExtendsList
    <3> QED
      BY <3>2, <3>3
  <2> QED
    BY <2>1, <2>2, <2>3 DEF FirstInv
<1>4. CASE UNCHANGED <<servers, lookedUp, refresh, contacted, early>>
  BY <1>4 DEF FirstInv
<1>5. \/ RequestServerList \/ UNCHANGED <<servers, lookedUp, refresh, contacted, early>>
      \/ RunFrame \/ \E new \in Lists : HandleServersResponse(new)
  BY DEF Next, Client, Tick, ReleaseRequest, HandleInfoResponse, WouldBlock, vars
<1> QED
  BY <1>2, <1>3, <1>4, <1>5

(* A row that an answer writes.                                            *)
LEMMA WrittenRow ==
  ASSUME TypeOK, NEW a \in Servers, HandleInfoResponse(a), NEW r \in 1..Capacity
  PROVE  \/ rows'[r] = rows[r]
         \/ /\ r \in 1..Len(servers) /\ servers[r].addr = a
            /\ rows'[r] = [refresh |-> refresh, addr |-> a, measured |-> servers[r].timed]
<1> DEFINE matches == {i \in 1..Len(servers) : servers[i].addr = a}
<1>1. CASE r \in matches
  <2>1. (CHOOSE j \in matches : RowOf(matches, j) = r) = r
    BY <1>1 DEF RowOf
  <2>2. \E i \in matches : RowOf(matches, i) = r
    BY <1>1 DEF RowOf
  <2>3. rows'[r] = [refresh |-> refresh, addr |-> a, measured |-> servers[r].timed]
    BY <2>1, <2>2 DEF HandleInfoResponse
  <2> QED
    BY <1>1, <2>3
<1>2. CASE r \notin matches
  <2>1. ~\E i \in matches : RowOf(matches, i) = r
    BY <1>2 DEF RowOf
  <2> QED
    BY <2>1 DEF HandleInfoResponse
<1> QED
  BY <1>1, <1>2

(* Rows stay those of the list.                                            *)
LEMMA NextRowsRight ==
  TypeOK /\ AskedInv /\ FirstInv /\ RowsRight /\ [Next]_vars => RowsRight'
<1> SUFFICES ASSUME TypeOK, AskedInv, FirstInv, RowsRight, [Next]_vars PROVE RowsRight'
  OBVIOUS
<1> USE DEF past, list, RowsRight, RowsAreEntries, PingMeasured
<1>1. refresh \in Nat /\ Len(servers) \in Nat /\ Capacity \in Nat
  BY BoundsAssumption DEF TypeOK
<1>2. CASE RequestServerList
  <2>1. refresh' = refresh + 1 /\ rows' = rows
    BY <1>2 DEF RequestServerList
  <2>2. ASSUME NEW i \in 1..Capacity PROVE rows[i].refresh \in 0..refresh
    <3>1. rows[i] \in [refresh : 1..refresh, addr : Servers, measured : BOOLEAN] \cup {NoRow}
      BY DEF TypeOK
    <3>2. CASE rows[i] \in [refresh : 1..refresh, addr : Servers, measured : BOOLEAN]
      <4>1. rows[i].refresh \in 1..refresh
        BY <3>2, Zenon
      <4> QED
        BY <1>1, <4>1
    <3>3. CASE rows[i] = NoRow
      <4>1. rows[i].refresh = 0
        BY <3>3 DEF NoRow
      <4> QED
        BY <1>1, <4>1
    <3> QED
      BY <3>1, <3>2, <3>3
  <2>3. \A i \in 1..Capacity : rows'[i].refresh # refresh'
    BY <1>1, <2>1, <2>2
  <2> QED
    BY <2>3
<1>3. CASE RunFrame \/ \E new \in Lists : HandleServersResponse(new)
  <2>1. rows' = rows /\ refresh' = refresh /\ early' = early
    BY <1>3 DEF RunFrame, HandleServersResponse
  <2>2. Len(servers') \in Nat /\ Len(servers) <= Len(servers')
    BY <1>1, <1>3, StepExtendsList
  <2>3. \A i \in 1..Len(servers) : servers'[i].addr = servers[i].addr
    BY <1>3, StepExtendsList
  <2>4. RowsAreEntries'
    BY <1>1, <2>1, <2>2, <2>3
  <2>5. PingMeasured'
    BY <1>1, <2>1, <2>2, <2>3
  <2> QED
    BY <2>4, <2>5
<1>4. ASSUME NEW a \in Servers, HandleInfoResponse(a) PROVE RowsRight'
  <2>1. servers' = servers /\ refresh' = refresh /\ early' = early /\ a \in contacted
    BY <1>4 DEF HandleInfoResponse
  <2>2. RowsAreEntries'
    <3> SUFFICES ASSUME NEW r \in 1..Capacity, rows'[r].refresh = refresh, refresh > 0
                 PROVE  r <= Len(servers) /\ rows'[r].addr = servers[r].addr
      BY <2>1
    <3>1. CASE rows'[r] = rows[r]
      BY <3>1
    <3>2. CASE /\ r \in 1..Len(servers) /\ servers[r].addr = a
               /\ rows'[r] = [refresh |-> refresh, addr |-> a, measured |-> servers[r].timed]
      <4>1. rows'[r].addr = a
        BY <3>2
      <4> QED
        BY <1>1, <3>2, <4>1
    <3> QED
      BY <1>4, <3>1, <3>2, WrittenRow
  <2>3. PingMeasured'
    <3> SUFFICES ASSUME NEW r \in 1..Capacity, rows'[r].refresh = refresh, refresh > 0
                 PROVE  \/ rows'[r].measured
                        \/ rows'[r].addr \in early
                        \/ \E j \in 1..Len(servers) : j # r /\ servers[j].addr = rows'[r].addr
      BY <2>1
    <3>1. CASE rows'[r] = rows[r]
      BY <3>1
    <3>2. CASE /\ servers[r].addr = a
               /\ rows'[r] = [refresh |-> refresh, addr |-> a, measured |-> servers[r].timed]
      <4>1. rows'[r].addr = a /\ rows'[r].measured = servers[r].timed
        BY <3>2
      <4>2. CASE a \in early
        BY <4>1, <4>2
      <4>3. CASE a \notin early
        <5>1. PICK j \in 1..Len(servers) : servers[j].addr = a /\ servers[j].timed
          BY <2>1, <4>3 DEF FirstInv
        <5>2. CASE j = r
          BY <4>1, <5>1, <5>2
        <5>3. CASE j # r
          BY <4>1, <5>1, <5>3
        <5> QED
          BY <5>2, <5>3
      <4> QED
        BY <4>2, <4>3
    <3> QED
      BY <1>4, <3>1, <3>2, WrittenRow
  <2> QED
    BY <2>2, <2>3
<1>5. CASE UNCHANGED <<servers, rows, refresh, early>>
  BY <1>5
<1>6. \/ RequestServerList \/ UNCHANGED <<servers, rows, refresh, early>>
      \/ RunFrame \/ \E new \in Lists : HandleServersResponse(new)
      \/ \E a \in Servers : HandleInfoResponse(a)
  BY DEF Next, Client, Tick, ReleaseRequest, WouldBlock, vars
<1> QED
  BY <1>2, <1>3, <1>4, <1>5, <1>6

-----------------------------------------------------------------------------
(* The theorems *)

LEMMA BrowserInvInvariant == Spec => []BrowserInv
<1>1. Init => BrowserInv
  BY InitBrowserInv
<1>2. BrowserInv /\ [Next]_vars => BrowserInv'
  BY NextTypeOK, NextAskedInv, NextSinceInv, NextFirstInv, NextRowsRight DEF BrowserInv
<1> QED
  BY <1>1, <1>2, PTL DEF Spec

(* The list is never longer than the table, and no entry of it is asked    *)
(* twice, however answers, frames and refreshes follow each other.         *)
THEOREM AskedOnlyOnce == Spec => []ListAskedOnce
<1>1. BrowserInv => ListAskedOnce
  <2> SUFFICES ASSUME BrowserInv PROVE ListAskedOnce
    OBVIOUS
  <2>1. \A i \in 1..Len(servers) : servers[i].asked = (IF servers[i].queried THEN 1 ELSE 0)
    BY DEF BrowserInv, AskedInv
  <2>2. AskedOnce
    BY <2>1 DEF AskedOnce
  <2> QED
    BY <2>2 DEF BrowserInv, ListAskedOnce
<1> QED
  BY <1>1, BrowserInvInvariant, PTL

(* A row of the game's table that was written in this refresh is that of   *)
(* the entry with its number, and its time was measured, but for an        *)
(* address that is listed twice or that an earlier refresh has asked.      *)
THEOREM RowsShowEntries == Spec => []RowsRight
<1>1. BrowserInv => RowsRight
  BY DEF BrowserInv
<1> QED
  BY <1>1, BrowserInvInvariant, PTL

(* No server is asked within StepTime of the step before, whatever the     *)
(* tick and wherever it wraps.                                             *)
THEOREM StepsSpaced == Spec => StepsApart
<1>1. BrowserInv /\ [Next]_vars => (contacted' # contacted => since >= StepTime)
  <2> SUFFICES ASSUME BrowserInv, [Next]_vars, contacted' # contacted PROVE since >= StepTime
    OBVIOUS
  <2>1. QueryStep
    BY DEF Next, Client, RunFrame, HandleServersResponse, Tick, RequestServerList, ReleaseRequest,
           HandleInfoResponse, WouldBlock, vars, past
  <2>2. StepDue
    BY <2>1 DEF QueryStep
  <2> QED
    BY <2>2, DifferenceIsTime DEF StepDue, BrowserInv
<1>2. BrowserInv /\ [Next]_vars => [contacted' # contacted => since >= StepTime]_vars
  BY <1>1
<1> QED
  BY <1>2, BrowserInvInvariant, PTL DEF Spec, StepsApart
=============================================================================
