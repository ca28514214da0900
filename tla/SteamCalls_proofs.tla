-------------------------- MODULE SteamCalls_proofs --------------------------
(***************************************************************************)
(* Proofs about SteamCalls: for all requests, listeners and any number of  *)
(* calls, each result reaches its handler and the callbacks at most once,  *)
(* in the order of the calls, before it is freed; and a pass clears a      *)
(* result nobody saw only after the vector moved under the iterator.       *)
(*                                                                         *)
(* What was shown says nothing of what may be shown yet. The invariant     *)
(* ties the two: _results always holds the last calls made, in order       *)
(* (Numbered), so the iterator's place in it bounds what the passes so far *)
(* have shown and freed (Place, ShownSoFar), and every step goes past it.  *)
(***************************************************************************)
EXTENDS SteamCalls, TLAPS

-----------------------------------------------------------------------------
(* The inductive invariant *)

(* The calls made before those in _results.                                *)
Base == callID - Len(results)

(* _results holds the last calls, in order.                                *)
Numbered ==
  /\ Len(results) <= callID
  /\ \A k \in 1..Len(results) : results[k].call = Base + k

Outside == {"game", "loop", "crashed"}

(* Where the iterator may be.                                              *)
Place ==
  /\ pc = "game" => iter = 0 /\ moved = 0
  /\ pc \in {"loop", "crashed"} => iter \in 1..(Limit + 1)
  /\ pc \notin Outside => iter \in 1..Limit

(* The last call that was freed, shown to its handler, or to the callbacks. *)
FreedTo   == IF pc = "game" THEN Base ELSE Base + iter - 1
HandledTo == IF pc \in Outside THEN FreedTo ELSE Base + iter
CalledTo  == IF pc \in {"callback", "free"} THEN Base + iter ELSE FreedTo
ShownTo(kind) == IF kind = "handler" THEN HandledTo ELSE CalledTo

ShownSoFar ==
  /\ \A k \in 1..Len(ran) : ran[k].call <= ShownTo(ran[k].by)
  /\ \A k \in 1..Len(freed) : freed[k] <= FreedTo

(* Nothing is there twice.                                                 *)
NoneTwice ==
  /\ \A k, l \in 1..Len(ran) : ran[k] = ran[l] => k = l
  /\ \A k, l \in 1..Len(freed) : freed[k] = freed[l] => k = l

(* The handler promised to the result at hand has run.                     *)
KeptPromise ==
  pc \notin Outside =>
    (results[iter].call \in promised => Ran(results[iter].call, "handler") # {})

CallsInv ==
  /\ TypeOK /\ Numbered /\ Place /\ ShownSoFar /\ NoneTwice /\ InCallOrder
  /\ KeptPromise /\ HandlerHasRun

-----------------------------------------------------------------------------
(* Sequences and the requests' results *)

LEMMA WiderSeq ==
  ASSUME NEW S, NEW T, S \subseteq T, NEW s \in Seq(S)
  PROVE  s \in Seq(T)
<1>1. s \in [1..Len(s) -> S] /\ Len(s) \in Nat  OBVIOUS
<1>2. s \in [1..Len(s) -> T]  BY <1>1
<1> QED  BY <1>1, <1>2

LEMMA Elements ==
  ASSUME NEW S, NEW s \in Seq(S)
  PROVE  \A k \in 1..Len(s) : s[k] \in S
OBVIOUS

(* What appending one element does.                                        *)
LEMMA Appended ==
  ASSUME NEW S, NEW s \in Seq(S), NEW e \in S
  PROVE  /\ Append(s, e) \in Seq(S) /\ Len(s) \in Nat
         /\ Len(Append(s, e)) = Len(s) + 1 /\ Append(s, e)[Len(s) + 1] = e
         /\ \A k \in 1..Len(s) : Append(s, e)[k] = s[k]
OBVIOUS

(* Every request has a result, of a type there is.                         *)
LEMMA ResultsTyped ==
  ASSUME NEW op \in Requests
  PROVE  /\ Results[op] \in Seq(Types) /\ Len(Results[op]) \in Nat \ {0}
         /\ \A k \in 1..Len(Results[op]) : Results[op][k] \in Types
<1>1. op \in {"RequestLobbyList", "CreateLobby", "JoinLobby", "RequestEncryptedAppTicket"}
  BY RequestsAssumption DEF Results
<1>2. Results[op] \in {<<"LobbyMatchList">>, <<"LobbyCreated", "LobbyEnter">>, <<"LobbyEnter">>,
                      <<"none">>}
  BY <1>1 DEF Results
<1>3. ASSUME NEW r, r \in {<<"LobbyMatchList">>, <<"LobbyEnter">>, <<"none">>}
      PROVE  r \in Seq(Types) /\ Len(r) = 1
  <2>1. CASE r = <<"LobbyMatchList">>  BY <2>1 DEF Types
  <2>2. CASE r = <<"LobbyEnter">>  BY <2>2 DEF Types
  <2>3. CASE r = <<"none">>  BY <2>3 DEF Types
  <2> QED  BY <2>1, <2>2, <2>3, <1>3
<1>4. ASSUME NEW r, r = <<"LobbyCreated", "LobbyEnter">>
      PROVE  r \in Seq(Types) /\ Len(r) = 2
  BY <1>4 DEF Types
<1>5. Results[op] \in Seq(Types) /\ Len(Results[op]) \in {1, 2}
  BY <1>2, <1>3, <1>4
<1>6. \A r \in Seq(Types) : \A k \in 1..Len(r) : r[k] \in Types  OBVIOUS
<1> QED  BY <1>5, <1>6

(* The vector has room for what it holds.                                  *)
LEMMA GrownEnough ==
  ASSUME NEW size \in Nat, capacity \in Nat
  PROVE  Grown(size) \in Nat /\ size <= Grown(size)
<1>1. capacity + capacity \div 2 \in Nat  OBVIOUS
<1>2. CASE size <= capacity  BY <1>2 DEF Grown
<1>3. CASE size > capacity + capacity \div 2  BY <1>1, <1>3 DEF Grown
<1>4. CASE ~(size <= capacity) /\ ~(size > capacity + capacity \div 2)
  BY <1>1, <1>4 DEF Grown
<1> QED  BY <1>2, <1>3, <1>4

-----------------------------------------------------------------------------
(* Where the iterator is *)

(* What the invariant says of the numbers.                                 *)
LEMMA Typed ==
  ASSUME CallsInv
  PROVE  /\ callID \in 0..MaxCalls /\ callID \in Nat /\ Len(results) \in Nat
         /\ Len(results) <= callID /\ Base \in Nat /\ iter \in Nat
         /\ moved \in 0..Len(results) /\ Limit \in Nat /\ Limit <= Len(results)
         /\ Len(ran) \in Nat /\ Len(freed) \in Nat
         /\ ran \in Seq([call : 1..callID, by : {"handler", "callback"}])
         /\ freed \in Seq(1..callID)
<1>1. TypeOK /\ Numbered  BY DEF CallsInv
<1>2. callID \in 0..MaxCalls /\ callID \in Nat /\ iter \in Nat /\ moved \in 0..Len(results)
  BY <1>1, MaxCallsAssumption DEF TypeOK
<1>3. /\ Len(results) \in Nat
      /\ ran \in Seq([call : 1..callID, by : {"handler", "callback"}])
      /\ freed \in Seq(1..callID)
  BY <1>1 DEF TypeOK
<1>4. Len(ran) \in Nat /\ Len(freed) \in Nat  BY <1>3
<1>5. Limit \in Nat /\ Limit <= Len(results)  BY <1>2, <1>3 DEF Limit
<1> QED  BY <1>1, <1>2, <1>3, <1>4, <1>5 DEF Numbered, Base

(* The result at hand.                                                     *)
LEMMA AtHand ==
  ASSUME CallsInv, iter \in 1..Limit
  PROVE  /\ iter \in 1..Len(results)
         /\ results[iter].call = Base + iter /\ Base + iter \in 1..callID
<1>1. iter \in 1..Len(results)  BY Typed
<1>2. results[iter].call = Base + iter  BY <1>1 DEF CallsInv, Numbered
<1> QED  BY <1>1, <1>2, Typed DEF Base

(* What was shown before stays below what may be shown next.               *)
LEMMA Bounds ==
  ASSUME CallsInv
  PROVE  /\ \A k \in 1..Len(ran) :
              /\ ran[k] \in [call : 1..callID, by : {"handler", "callback"}]
              /\ ran[k].call <= ShownTo(ran[k].by)
         /\ \A k \in 1..Len(freed) : freed[k] \in 1..callID /\ freed[k] <= FreedTo
<1>1. /\ \A k \in 1..Len(ran) : ran[k] \in [call : 1..callID, by : {"handler", "callback"}]
      /\ \A k \in 1..Len(freed) : freed[k] \in 1..callID
  <2>1. /\ ran \in Seq([call : 1..callID, by : {"handler", "callback"}])
        /\ freed \in Seq(1..callID)
    BY Typed
  <2> QED  BY <2>1, Elements
<1> QED  BY <1>1 DEF CallsInv, ShownSoFar

-----------------------------------------------------------------------------
(* Steps that show nothing *)

(* A step that only moves pc or the iterator on keeps the invariant if it  *)
(* does not take back what was shown.                                      *)
LEMMA OnwardKeeps ==
  ASSUME CallsInv, TypeOK', Place', KeptPromise',
         callID' = callID, results' = results, ran' = ran, freed' = freed, promised' = promised,
         FreedTo <= FreedTo', HandledTo <= HandledTo', CalledTo <= CalledTo',
         FreedTo \in Int, HandledTo \in Int, CalledTo \in Int,
         FreedTo' \in Int, HandledTo' \in Int, CalledTo' \in Int
  PROVE  CallsInv'
<1>1. Numbered'  BY DEF CallsInv, Numbered, Base
<1>2. ShownSoFar'
  <2>1. \A k \in 1..Len(ran) : ran[k].call \in Nat /\ ran[k].by \in {"handler", "callback"}
    <3>1. \A k \in 1..Len(ran) : ran[k] \in [call : 1..callID, by : {"handler", "callback"}]
      BY Bounds
    <3>2. 1..callID \subseteq Nat  OBVIOUS
    <3> QED  BY <3>1, <3>2
  <2>2. \A k \in 1..Len(freed) : freed[k] \in Nat /\ freed[k] <= FreedTo'  BY Bounds
  <2>3. ASSUME NEW k \in 1..Len(ran)  PROVE ran[k].call <= ShownTo(ran[k].by)'
    <3>1. ran[k].call <= ShownTo(ran[k].by)  BY Bounds
    <3>2. ran[k].call \in Nat  BY <2>1
    <3>3. CASE ran[k].by = "handler"  BY <3>1, <3>2, <3>3 DEF ShownTo
    <3>4. CASE ran[k].by # "handler"  BY <3>1, <3>2, <3>4 DEF ShownTo
    <3> QED  BY <3>3, <3>4
  <2> QED  BY <2>2, <2>3 DEF ShownSoFar
<1>3. NoneTwice' /\ InCallOrder'  BY DEF CallsInv, NoneTwice, InCallOrder
<1>4. HandlerHasRun'  BY DEF CallsInv, HandlerHasRun, Freed, Ran
<1> QED  BY <1>1, <1>2, <1>3, <1>4 DEF CallsInv

LEMMA RunCallbacksKeeps == CallsInv /\ RunCallbacks => CallsInv'
<1> SUFFICES ASSUME CallsInv, RunCallbacks  PROVE CallsInv'
  OBVIOUS
<1>1. /\ pc = "game" /\ pc' = "loop" /\ iter' = 1
      /\ callID' = callID /\ resultHandlers' = resultHandlers /\ promised' = promised
      /\ results' = results /\ capacity' = capacity /\ moved' = moved
      /\ ran' = ran /\ freed' = freed /\ lost' = lost
  BY DEF RunCallbacks, calls, vector, past
<1>2. TypeOK'  BY <1>1 DEF CallsInv, TypeOK
<1>3. Limit' \in Nat  BY <1>1, Typed DEF Limit
<1>4. Place' /\ KeptPromise'
  <2>1. iter' \in 1..(Limit' + 1)
    <3>1. \A n \in Nat : 1 \in 1..(n + 1)  OBVIOUS
    <3> QED  BY <3>1, <1>1, <1>3
  <2>2. Place'  BY <1>1, <2>1 DEF Place, Outside
  <2>3. KeptPromise'  BY <1>1 DEF KeptPromise, Outside
  <2> QED  BY <2>2, <2>3
<1>5. Base \in Nat /\ Base' = Base  BY <1>1, Typed DEF Base
<1>6. /\ FreedTo = Base /\ HandledTo = Base /\ CalledTo = Base
      /\ FreedTo' = Base + 1 - 1 /\ HandledTo' = Base + 1 - 1 /\ CalledTo' = Base + 1 - 1
  BY <1>1, <1>5 DEF FreedTo, HandledTo, CalledTo, Outside
<1> QED  BY <1>1, <1>2, <1>4, <1>5, <1>6, OnwardKeeps

(* A handler or callback returns.                                          *)
LEMMA ReturnsKeep == CallsInv /\ (HandlerReturns \/ CallbackReturns) => CallsInv'
<1> SUFFICES ASSUME CallsInv, HandlerReturns \/ CallbackReturns  PROVE CallsInv'
  OBVIOUS
<1>1. /\ \/ pc = "handler" /\ pc' = "callbacks"
         \/ pc = "callback" /\ pc' = "free"
      /\ callID' = callID /\ resultHandlers' = resultHandlers /\ promised' = promised
      /\ results' = results /\ capacity' = capacity /\ moved' = moved /\ iter' = iter
      /\ ran' = ran /\ freed' = freed /\ lost' = lost
  BY DEF HandlerReturns, CallbackReturns, calls, vector, past
<1>2. iter \in 1..Limit /\ Limit' = Limit
  BY <1>1 DEF CallsInv, Place, Outside, Limit
<1>3. TypeOK'  BY <1>1 DEF CallsInv, TypeOK
<1>4. Place'  BY <1>1, <1>2 DEF Place, Outside
<1>5. KeptPromise'
  BY <1>1 DEF CallsInv, KeptPromise, Outside, Ran
<1>6. Base \in Nat /\ Base' = Base /\ iter \in Nat  BY <1>1, Typed DEF Base
<1>7. /\ FreedTo = Base + iter - 1 /\ FreedTo' = Base + iter - 1
      /\ HandledTo = Base + iter /\ HandledTo' = Base + iter
      /\ CalledTo \in {Base + iter - 1, Base + iter} /\ CalledTo' \in {Base + iter - 1, Base + iter}
      /\ CalledTo = Base + iter => CalledTo' = Base + iter
  BY <1>1, <1>6 DEF FreedTo, HandledTo, CalledTo, Outside
<1>8. CalledTo <= CalledTo' /\ CalledTo \in Int /\ CalledTo' \in Int  BY <1>6, <1>7
<1> QED  BY <1>1, <1>3, <1>4, <1>5, <1>6, <1>7, <1>8, OnwardKeeps

LEMMA CrashKeeps == CallsInv /\ Crash => CallsInv'
<1> SUFFICES ASSUME CallsInv, Crash  PROVE CallsInv'
  OBVIOUS
<1>1. /\ pc = "loop" /\ pc' = "crashed"
      /\ callID' = callID /\ resultHandlers' = resultHandlers /\ promised' = promised
      /\ results' = results /\ capacity' = capacity /\ moved' = moved /\ iter' = iter
      /\ ran' = ran /\ freed' = freed /\ lost' = lost
  BY DEF Crash, calls, vector, past
<1>2. TypeOK'  BY <1>1 DEF CallsInv, TypeOK
<1>3. Place'  BY <1>1 DEF CallsInv, Place, Outside, Limit
<1>4. KeptPromise'  BY <1>1 DEF KeptPromise, Outside
<1>5. Base \in Nat /\ Base' = Base /\ iter \in Nat  BY <1>1, Typed DEF Base
<1>6. /\ FreedTo = Base + iter - 1 /\ HandledTo = Base + iter - 1 /\ CalledTo = Base + iter - 1
      /\ FreedTo' = Base + iter - 1 /\ HandledTo' = Base + iter - 1
      /\ CalledTo' = Base + iter - 1
  BY <1>1, <1>5 DEF FreedTo, HandledTo, CalledTo, Outside
<1> QED  BY <1>1, <1>2, <1>3, <1>4, <1>5, <1>6, OnwardKeeps

LEMMA RegisterCallResultKeeps ==
  ASSUME CallsInv, NEW c, RegisterCallResult(c)
  PROVE  CallsInv'
<1>1. /\ c \in 1..callID /\ resultHandlers' = resultHandlers \cup {c}
      /\ callID' = callID /\ promised' = promised /\ pc' = pc
      /\ results' = results /\ capacity' = capacity /\ moved' = moved /\ iter' = iter
      /\ ran' = ran /\ freed' = freed /\ lost' = lost
  BY DEF RegisterCallResult, vector, past
<1>2. TypeOK'
  <2>1. resultHandlers' \subseteq 1..callID /\ promised' \subseteq resultHandlers'
    BY <1>1 DEF CallsInv, TypeOK
  <2> QED  BY <1>1, <2>1 DEF CallsInv, TypeOK
<1>3. Limit' = Limit /\ Base' = Base  BY <1>1 DEF Limit, Base
<1>4. Place'  BY <1>1, <1>3 DEF CallsInv, Place, Outside
<1>5. KeptPromise'  BY <1>1 DEF CallsInv, KeptPromise, Outside, Ran
<1>6. /\ FreedTo' = FreedTo /\ HandledTo' = HandledTo /\ CalledTo' = CalledTo
      /\ FreedTo \in Int /\ HandledTo \in Int /\ CalledTo \in Int
  <2>1. Base \in Nat /\ iter \in Nat  BY Typed
  <2> QED  BY <2>1, <1>1, <1>3 DEF FreedTo, HandledTo, CalledTo, Outside
<1> QED  BY <1>1, <1>2, <1>4, <1>5, <1>6, OnwardKeeps

-----------------------------------------------------------------------------
(* Steps that show a result *)

(* Result and Callbacks show the result at hand to its handler, or to the  *)
(* callbacks, that has seen only earlier ones; or they do not.             *)
LEMMA ShowsKeep ==
  ASSUME CallsInv, TypeOK', Place', KeptPromise',
         NEW kind \in {"handler", "callback"}, iter \in 1..Limit, ShownTo(kind) < Base + iter,
         ran' = Append(ran, [call |-> results[iter].call, by |-> kind]),
         callID' = callID, results' = results, freed' = freed, promised' = promised,
         iter' = iter, FreedTo' = FreedTo, FreedTo \in Int,
         ShownTo("handler") \in Int, ShownTo("callback") \in Int,
         ShownTo("handler")' \in Int, ShownTo("callback")' \in Int,
         ShownTo("handler") <= ShownTo("handler")', ShownTo("callback") <= ShownTo("callback")',
         ShownTo(kind)' = Base + iter,
         \A k \in {"handler", "callback"} : ShownTo(k) <= Base + iter
  PROVE  CallsInv'
<1> PICK new : new = [call |-> results[iter].call, by |-> kind]  OBVIOUS
<1> DEFINE Shown == [call : 1..callID, by : {"handler", "callback"}]
<1>1. /\ results[iter].call = Base + iter /\ Base + iter \in 1..callID
      /\ callID \in Nat /\ Base \in Nat /\ iter \in Nat
  BY AtHand, Typed
<1>2. new \in Shown /\ new.call = Base + iter /\ new.by = kind  BY <1>1
<1>3. ran \in Seq(Shown) /\ Len(ran) \in Nat  BY Typed
<1>4. /\ Len(ran') = Len(ran) + 1 /\ ran'[Len(ran) + 1] = new
      /\ \A k \in 1..Len(ran) : ran'[k] = ran[k]
  <2> HIDE DEF Shown
  <2> QED  BY <1>2, <1>3, Appended
<1>5. /\ \A k \in 1..Len(ran) :
           /\ ran[k].call \in Nat /\ ran[k].by \in {"handler", "callback"}
           /\ ran[k].call <= ShownTo(ran[k].by)
      /\ \A k \in 1..Len(freed) : freed[k] \in 1..callID /\ freed[k] <= FreedTo
  <2>1. /\ \A k \in 1..Len(ran) : ran[k] \in Shown /\ ran[k].call <= ShownTo(ran[k].by)
        /\ \A k \in 1..Len(freed) : freed[k] \in 1..callID /\ freed[k] <= FreedTo
    BY Bounds
  <2> QED  BY <2>1, <1>1
<1>6. \A k \in 1..Len(ran') : k \in 1..Len(ran) \/ k = Len(ran) + 1
  BY <1>3, <1>4
<1>7. Numbered'  BY DEF CallsInv, Numbered, Base
<1>8. ShownSoFar'
  <2>1. ASSUME NEW k \in 1..Len(ran)  PROVE (ran[k].call <= ShownTo(ran[k].by))'
    <3>1. ran'[k] = ran[k]  BY <1>4
    <3>2. CASE ran[k].by = "handler"  BY <3>1, <3>2, <1>5 DEF ShownTo
    <3>3. CASE ran[k].by = "callback"  BY <3>1, <3>3, <1>5 DEF ShownTo
    <3> QED  BY <3>2, <3>3, <1>5
  <2>2. ASSUME NEW k, k = Len(ran) + 1  PROVE (ran[k].call <= ShownTo(ran[k].by))'
    <3>1. new.call <= ShownTo(kind)'  BY <1>1, <1>2
    <3>2. ran'[k].call <= ShownTo(kind)' /\ ran'[k].by = kind  BY <2>2, <3>1, <1>2, <1>4
    <3> QED  BY <3>2 DEF ShownTo
  <2> QED  BY <2>1, <2>2, <1>4, <1>5, <1>6 DEF ShownSoFar
<1>9. NoneTwice'
  <2>1. \A k \in 1..Len(ran) : ran[k] # new
    <3>1. \A k \in 1..Len(ran) : ran[k].by = kind => ran[k].call < Base + iter
      BY <1>1, <1>5 DEF ShownTo
    <3> QED  BY <3>1, <1>1, <1>2
  <2>2. \A k, l \in 1..Len(ran) : ran[k] = ran[l] => k = l  BY DEF CallsInv, NoneTwice
  <2>3. \A k, l \in 1..Len(ran') : ran'[k] = ran'[l] => k = l
    BY <2>1, <2>2, <1>4, <1>6
  <2> QED  BY <2>3 DEF CallsInv, NoneTwice
<1>10. InCallOrder'
  <2>1. \A k \in 1..Len(ran) : ran[k].call <= Base + iter  BY <1>1, <1>5 DEF ShownTo
  <2>2. \A k, l \in 1..Len(ran) : k < l => ran[k].call <= ran[l].call
    BY DEF CallsInv, InCallOrder
  <2>3. ASSUME NEW k \in 1..Len(ran'), NEW l \in 1..Len(ran'), k < l
        PROVE  ran'[k].call <= ran'[l].call
    <3>1. k \in 1..Len(ran)  BY <2>3, <1>3, <1>4
    <3>2. CASE l \in 1..Len(ran)  BY <3>1, <3>2, <2>2, <2>3, <1>4
    <3>3. CASE l = Len(ran) + 1  BY <3>1, <3>3, <2>1, <1>2, <1>4
    <3> QED  BY <3>2, <3>3, <1>6
  <2> QED  BY <2>3 DEF InCallOrder
<1>11. HandlerHasRun'
  <2>1. ASSUME NEW c \in promised, Freed(c)' # {}  PROVE Ran(c, "handler")' # {}
    <3>1. Freed(c) # {}  BY <2>1 DEF Freed
    <3>2. PICK k \in 1..Len(ran) : ran[k] = [call |-> c, by |-> "handler"]
      BY <3>1 DEF CallsInv, HandlerHasRun, Ran
    <3>3. k \in 1..Len(ran') /\ ran'[k] = ran[k]  BY <1>3, <1>4
    <3> QED  BY <3>2, <3>3 DEF Ran
  <2> QED  BY <2>1 DEF HandlerHasRun
<1> QED  BY <1>7, <1>8, <1>9, <1>10, <1>11 DEF CallsInv

LEMMA ResultKeeps == CallsInv /\ Result => CallsInv'
<1> SUFFICES ASSUME CallsInv, Result  PROVE CallsInv'
  OBVIOUS
<1>1. /\ pc = "loop" /\ iter <= Limit
      /\ callID' = callID /\ resultHandlers' = resultHandlers /\ promised' = promised
      /\ results' = results /\ capacity' = capacity /\ moved' = moved /\ iter' = iter
      /\ freed' = freed /\ lost' = lost
      /\ \/ /\ HasHandler /\ ran' = Run("handler") /\ pc' = "handler"
         \/ /\ ~HasHandler /\ ran' = ran /\ pc' = "callbacks"
  BY DEF Result, calls, vector
<1>2. iter \in 1..Limit
  <2>1. iter \in 1..(Limit + 1) /\ Limit \in Nat  BY <1>1, Typed DEF CallsInv, Place
  <2> QED  BY <1>1, <2>1
<1>3. /\ iter \in 1..Len(results) /\ results[iter].call = Base + iter
      /\ Base + iter \in 1..callID /\ Base \in Nat /\ iter \in Nat /\ callID \in Nat
  BY <1>2, AtHand, Typed
<1>4. Limit' = Limit /\ Base' = Base  BY <1>1 DEF Limit, Base
<1>5. Place'  BY <1>1, <1>2, <1>4 DEF Place, Outside
<1>6. /\ FreedTo = Base + iter - 1 /\ FreedTo' = Base + iter - 1
      /\ HandledTo = Base + iter - 1 /\ HandledTo' = Base + iter
      /\ CalledTo = Base + iter - 1 /\ CalledTo' = Base + iter - 1
  BY <1>1, <1>4 DEF FreedTo, HandledTo, CalledTo, Outside
<1>7. CASE HasHandler /\ ran' = Run("handler") /\ pc' = "handler"
  <2> PICK new : new = [call |-> results[iter].call, by |-> "handler"]  OBVIOUS
  <2>1. ran' = Append(ran, new)  BY <1>7 DEF Run
  <2>2. /\ ran' \in Seq([call : 1..callID, by : {"handler", "callback"}])
        /\ Len(ran) + 1 \in 1..Len(ran') /\ ran'[Len(ran) + 1] = new
    <3> DEFINE Shown == [call : 1..callID, by : {"handler", "callback"}]
    <3>1. ran \in Seq(Shown)  BY Typed
    <3>2. new \in Shown  BY <1>3
    <3>3. ran' \in Seq(Shown) /\ Len(ran') = Len(ran) + 1 /\ ran'[Len(ran) + 1] = new /\ Len(ran) \in Nat
      <4> HIDE DEF Shown
      <4> QED  BY <2>1, <3>1, <3>2, Appended
    <3> QED  BY <3>3
  <2>3. TypeOK'  BY <1>1, <1>3, <1>7, <2>2 DEF CallsInv, TypeOK
  <2>4. KeptPromise'
    <3>1. Ran(results[iter].call, "handler")' # {}
      BY <1>1, <2>2 DEF Ran
    <3> QED  BY <1>1, <3>1 DEF KeptPromise
  <2>5. /\ ShownTo("handler") = Base + iter - 1 /\ ShownTo("handler")' = Base + iter
        /\ ShownTo("callback") = Base + iter - 1 /\ ShownTo("callback")' = Base + iter - 1
        /\ \A k \in {"handler", "callback"} : ShownTo(k) = Base + iter - 1
    BY <1>6 DEF ShownTo
  <2>6. /\ ran' = Append(ran, [call |-> results[iter].call, by |-> "handler"])
        /\ "handler" \in {"handler", "callback"}
    BY <2>1
  <2>7. /\ Base + iter - 1 \in Int /\ Base + iter \in Int /\ Base + iter - 1 < Base + iter
        /\ Base + iter - 1 <= Base + iter /\ Base + iter - 1 <= Base + iter - 1
    BY <1>3
  <2>8. /\ ShownTo("handler") < Base + iter /\ FreedTo' = FreedTo /\ FreedTo \in Int
        /\ ShownTo("handler") \in Int /\ ShownTo("callback") \in Int
        /\ ShownTo("handler")' \in Int /\ ShownTo("callback")' \in Int
        /\ ShownTo("handler") <= ShownTo("handler")'
        /\ ShownTo("callback") <= ShownTo("callback")'
        /\ \A k \in {"handler", "callback"} : ShownTo(k) <= Base + iter
    BY <2>5, <2>7, <1>6
  <2> QED  BY <1>1, <1>2, <1>5, <2>3, <2>4, <2>5, <2>6, <2>8, ShowsKeep
<1>8. CASE ~HasHandler /\ ran' = ran /\ pc' = "callbacks"
  <2>1. TypeOK'  BY <1>1, <1>3, <1>8 DEF CallsInv, TypeOK
  <2>2. KeptPromise'
    <3>1. results[iter].call \notin promised
      BY <1>8 DEF HasHandler, CallsInv, TypeOK
    <3> QED  BY <1>1, <3>1 DEF KeptPromise
  <2> QED  BY <1>1, <1>3, <1>5, <1>6, <1>8, <2>1, <2>2, OnwardKeeps
<1> QED  BY <1>1, <1>7, <1>8

LEMMA CallbacksKeep == CallsInv /\ Callbacks => CallsInv'
<1> SUFFICES ASSUME CallsInv, Callbacks  PROVE CallsInv'
  OBVIOUS
<1>1. /\ pc = "callbacks"
      /\ callID' = callID /\ resultHandlers' = resultHandlers /\ promised' = promised
      /\ results' = results /\ capacity' = capacity /\ moved' = moved /\ iter' = iter
      /\ freed' = freed /\ lost' = lost
      /\ \/ ran' = Run("callback") /\ pc' = "callback"
         \/ ran' = ran /\ pc' = "free"
  BY DEF Callbacks, calls, vector
<1>2. iter \in 1..Limit  BY <1>1 DEF CallsInv, Place, Outside
<1>3. /\ iter \in 1..Len(results) /\ results[iter].call = Base + iter
      /\ Base + iter \in 1..callID /\ Base \in Nat /\ iter \in Nat /\ callID \in Nat
  BY <1>2, AtHand, Typed
<1>4. Limit' = Limit /\ Base' = Base  BY <1>1 DEF Limit, Base
<1>5. Place'  BY <1>1, <1>2, <1>4 DEF Place, Outside
<1>6. /\ FreedTo = Base + iter - 1 /\ FreedTo' = Base + iter - 1
      /\ HandledTo = Base + iter /\ HandledTo' = Base + iter
      /\ CalledTo = Base + iter - 1 /\ CalledTo' = Base + iter
  BY <1>1, <1>4 DEF FreedTo, HandledTo, CalledTo, Outside
<1>7. CASE ran' = Run("callback") /\ pc' = "callback"
  <2> PICK new : new = [call |-> results[iter].call, by |-> "callback"]  OBVIOUS
  <2>1. ran' = Append(ran, new)  BY <1>7 DEF Run
  <2>2. /\ ran' \in Seq([call : 1..callID, by : {"handler", "callback"}])
        /\ Len(ran') = Len(ran) + 1 /\ Len(ran) \in Nat
        /\ \A k \in 1..Len(ran) : ran'[k] = ran[k]
    <3> DEFINE Shown == [call : 1..callID, by : {"handler", "callback"}]
    <3>1. ran \in Seq(Shown)  BY Typed
    <3>2. new \in Shown  BY <1>3
    <3> HIDE DEF Shown
    <3>3. /\ ran' \in Seq(Shown)
          /\ Len(ran') = Len(ran) + 1 /\ Len(ran) \in Nat
          /\ \A k \in 1..Len(ran) : ran'[k] = ran[k]
      BY <2>1, <3>1, <3>2, Appended
    <3> QED  BY <3>3 DEF Shown
  <2>3. TypeOK'  BY <1>1, <1>3, <1>7, <2>2 DEF CallsInv, TypeOK
  <2>4. KeptPromise'
    <3>1. \A c : Ran(c, "handler") # {} => Ran(c, "handler")' # {}
      <4>1. \A k \in 1..Len(ran) : k \in 1..Len(ran')  BY <2>2
      <4> QED  BY <4>1, <2>2 DEF Ran
    <3> QED  BY <1>1, <3>1 DEF CallsInv, KeptPromise, Outside
  <2>5. /\ ShownTo("handler") = Base + iter /\ ShownTo("handler")' = Base + iter
        /\ ShownTo("callback") = Base + iter - 1 /\ ShownTo("callback")' = Base + iter
        /\ \A k \in {"handler", "callback"} : ShownTo(k) \in {Base + iter - 1, Base + iter}
    BY <1>6 DEF ShownTo
  <2>6. /\ ran' = Append(ran, [call |-> results[iter].call, by |-> "callback"])
        /\ "callback" \in {"handler", "callback"}
    BY <2>1
  <2>7. /\ Base + iter - 1 \in Int /\ Base + iter \in Int /\ Base + iter - 1 < Base + iter
        /\ Base + iter - 1 <= Base + iter /\ Base + iter <= Base + iter
    BY <1>3
  <2>8. /\ ShownTo("callback") < Base + iter /\ FreedTo' = FreedTo /\ FreedTo \in Int
        /\ ShownTo("handler") \in Int /\ ShownTo("callback") \in Int
        /\ ShownTo("handler")' \in Int /\ ShownTo("callback")' \in Int
        /\ ShownTo("handler") <= ShownTo("handler")'
        /\ ShownTo("callback") <= ShownTo("callback")'
        /\ \A k \in {"handler", "callback"} : ShownTo(k) <= Base + iter
    BY <2>5, <2>7, <1>6
  <2> QED  BY <1>1, <1>2, <1>5, <2>3, <2>4, <2>5, <2>6, <2>8, ShowsKeep
<1>8. CASE ran' = ran /\ pc' = "free"
  <2>1. TypeOK'  BY <1>1, <1>3, <1>8 DEF CallsInv, TypeOK
  <2>2. KeptPromise'  BY <1>1, <1>8 DEF CallsInv, KeptPromise, Outside, Ran
  <2>3. /\ Base + iter - 1 \in Int /\ Base + iter \in Int /\ Base + iter <= Base + iter
        /\ Base + iter - 1 <= Base + iter /\ Base + iter - 1 <= Base + iter - 1
    BY <1>3
  <2> QED  BY <1>1, <1>5, <1>6, <1>8, <2>1, <2>2, <2>3, OnwardKeeps
<1> QED  BY <1>1, <1>7, <1>8

-----------------------------------------------------------------------------
(* The end of a result, and of a pass *)

LEMMA FreeKeeps == CallsInv /\ Free => CallsInv'
<1> SUFFICES ASSUME CallsInv, Free  PROVE CallsInv'
  OBVIOUS
<1> PICK call : call = results[iter].call  OBVIOUS
<1>1. /\ pc = "free" /\ pc' = "loop" /\ iter' = iter + 1 /\ freed' = Append(freed, call)
      /\ callID' = callID /\ resultHandlers' = resultHandlers /\ promised' = promised
      /\ results' = results /\ capacity' = capacity /\ moved' = moved
      /\ ran' = ran /\ lost' = lost
  BY DEF Free, calls, vector
<1>2. iter \in 1..Limit  BY <1>1 DEF CallsInv, Place, Outside
<1>3. /\ iter \in 1..Len(results) /\ call = Base + iter
      /\ Base + iter \in 1..callID /\ Base \in Nat /\ iter \in Nat /\ callID \in Nat
  BY <1>2, AtHand, Typed
<1>4. Limit' = Limit /\ Base' = Base /\ Limit \in Nat  BY <1>1, Typed DEF Limit, Base
<1>5. /\ freed' \in Seq(1..callID) /\ Len(freed') = Len(freed) + 1 /\ Len(freed) \in Nat
      /\ freed'[Len(freed) + 1] = call
      /\ \A k \in 1..Len(freed) : freed'[k] = freed[k]
  <2>1. freed \in Seq(1..callID) /\ call \in 1..callID  BY <1>3, Typed
  <2> QED  BY <1>1, <2>1, Appended
<1>6. \A k \in 1..Len(freed') : k \in 1..Len(freed) \/ k = Len(freed) + 1  BY <1>5
<1>7. /\ \A k \in 1..Len(ran) :
           /\ ran[k].call \in Nat /\ ran[k].by \in {"handler", "callback"}
           /\ ran[k].call <= ShownTo(ran[k].by)
      /\ \A k \in 1..Len(freed) : freed[k] \in Nat /\ freed[k] <= FreedTo
  <2>1. /\ \A k \in 1..Len(ran) :
             /\ ran[k] \in [call : 1..callID, by : {"handler", "callback"}]
             /\ ran[k].call <= ShownTo(ran[k].by)
        /\ \A k \in 1..Len(freed) : freed[k] \in 1..callID /\ freed[k] <= FreedTo
    BY Bounds
  <2> QED  BY <2>1, <1>3
<1>8. TypeOK'  BY <1>1, <1>3, <1>5 DEF CallsInv, TypeOK
<1>9. Numbered'  BY <1>1, <1>4 DEF CallsInv, Numbered
<1>10. Place'
  <2>1. iter' \in 1..(Limit' + 1)  BY <1>1, <1>2, <1>4
  <2> QED  BY <1>1, <2>1 DEF Place, Outside
<1>11. /\ FreedTo = Base + iter - 1 /\ HandledTo = Base + iter /\ CalledTo = Base + iter
       /\ FreedTo' = Base + iter /\ HandledTo' = Base + iter /\ CalledTo' = Base + iter
  <2>1. /\ FreedTo' = Base + (iter + 1) - 1 /\ HandledTo' = Base + (iter + 1) - 1
        /\ CalledTo' = Base + (iter + 1) - 1
    BY <1>1, <1>4 DEF FreedTo, HandledTo, CalledTo, Outside
  <2>2. FreedTo = Base + iter - 1 /\ HandledTo = Base + iter /\ CalledTo = Base + iter
    BY <1>1 DEF FreedTo, HandledTo, CalledTo, Outside
  <2> QED  BY <2>1, <2>2, <1>3
<1>12. ShownSoFar'
  <2>1. \A k \in 1..Len(ran) : ran[k].call <= Base + iter  BY <1>7, <1>11 DEF ShownTo
  <2>2. \A k \in 1..Len(ran) : (ran[k].call <= ShownTo(ran[k].by))'
    BY <2>1, <1>1, <1>11 DEF ShownTo
  <2>3. \A k \in 1..Len(freed) : freed[k] <= Base + iter  BY <1>3, <1>7, <1>11
  <2>4. \A k \in 1..Len(freed') : freed'[k] <= FreedTo'
    BY <2>3, <1>3, <1>5, <1>6, <1>11
  <2> QED  BY <2>2, <2>4, <1>1 DEF ShownSoFar
<1>13. NoneTwice'
  <2>1. \A k \in 1..Len(freed) : freed[k] # call  BY <1>3, <1>7, <1>11
  <2>2. \A k, l \in 1..Len(freed) : freed[k] = freed[l] => k = l  BY DEF CallsInv, NoneTwice
  <2>3. \A k, l \in 1..Len(freed') : freed'[k] = freed'[l] => k = l
    BY <2>1, <2>2, <1>5, <1>6
  <2> QED  BY <2>3, <1>1 DEF CallsInv, NoneTwice
<1>14. InCallOrder'  BY <1>1 DEF CallsInv, InCallOrder
<1>15. KeptPromise'  BY <1>1 DEF KeptPromise, Outside
<1>16. HandlerHasRun'
  <2>1. ASSUME NEW c \in promised, Freed(c)' # {}  PROVE Ran(c, "handler") # {}
    <3>1. PICK k \in 1..Len(freed') : freed'[k] = c  BY <2>1 DEF Freed
    <3>2. CASE k \in 1..Len(freed)
      <4>1. Freed(c) # {}  BY <3>1, <3>2, <1>5 DEF Freed
      <4> QED  BY <4>1 DEF CallsInv, HandlerHasRun
    <3>3. CASE k = Len(freed) + 1
      <4>1. c = results[iter].call  BY <3>1, <3>3, <1>5
      <4> QED  BY <4>1, <1>1 DEF CallsInv, KeptPromise, Outside
    <3> QED  BY <3>1, <3>2, <3>3, <1>6
  <2> QED  BY <2>1, <1>1 DEF HandlerHasRun, Ran
<1> QED
  BY <1>8, <1>9, <1>10, <1>12, <1>13, <1>14, <1>15, <1>16 DEF CallsInv

LEMMA ClearKeeps == CallsInv /\ Clear => CallsInv'
<1> SUFFICES ASSUME CallsInv, Clear  PROVE CallsInv'
  OBVIOUS
<1>1. /\ results' = <<>> /\ pc' = "game" /\ iter' = 0 /\ moved' = 0
      /\ lost' = lost \cup Unhandled
      /\ callID' = callID /\ resultHandlers' = resultHandlers /\ promised' = promised
      /\ capacity' = capacity /\ ran' = ran /\ freed' = freed
  BY DEF Clear, calls
<1>2. callID \in Nat /\ Len(results') = 0 /\ Len(results) \in Nat
  BY <1>1, Typed
<1>3. TypeOK'
  <2>1. Unhandled \subseteq 1..callID
    <3>1. results \in Seq([call : 1..callID, type : Types])  BY DEF CallsInv, TypeOK
    <3>2. \A k \in 1..Len(results) : results[k].call \in 1..callID
      <4>1. \A k \in 1..Len(results) : results[k] \in [call : 1..callID, type : Types]
        BY <3>1, Elements
      <4> QED  BY <4>1
    <3> QED  BY <3>2 DEF Unhandled
  <2>2. results' \in Seq([call : 1..callID', type : Types])  BY <1>1
  <2>3. Len(results') <= capacity' /\ capacity' \in Nat /\ moved' \in 0..Len(results') /\ iter' \in Nat
    BY <1>1, <1>2 DEF CallsInv, TypeOK
  <2> QED  BY <1>1, <2>1, <2>2, <2>3 DEF CallsInv, TypeOK
<1>4. Base' = callID /\ FreedTo' = callID /\ HandledTo' = callID /\ CalledTo' = callID
  BY <1>1, <1>2 DEF Base, FreedTo, HandledTo, CalledTo, Outside
<1>5. Numbered'  BY <1>1, <1>2 DEF Numbered
<1>6. Place'  BY <1>1 DEF Place, Outside
<1>7. ShownSoFar'
  <2>1. /\ \A k \in 1..Len(ran) : ran[k] \in [call : 1..callID, by : {"handler", "callback"}]
        /\ \A k \in 1..Len(freed) : freed[k] \in 1..callID
    BY Bounds
  <2>2. /\ \A k \in 1..Len(ran) : ran[k].call <= callID
        /\ \A k \in 1..Len(freed) : freed[k] <= callID
    BY <2>1, <1>2
  <2>3. \A k \in 1..Len(ran) : (ran[k].call <= ShownTo(ran[k].by))'
    BY <2>2, <1>1, <1>4 DEF ShownTo
  <2> QED  BY <2>2, <2>3, <1>1, <1>4 DEF ShownSoFar
<1>8. NoneTwice' /\ InCallOrder'  BY <1>1 DEF CallsInv, NoneTwice, InCallOrder
<1>9. KeptPromise'  BY <1>1 DEF KeptPromise, Outside
<1>10. HandlerHasRun'  BY <1>1 DEF CallsInv, HandlerHasRun, Freed, Ran
<1> QED
  BY <1>3, <1>5, <1>6, <1>7, <1>8, <1>9, <1>10 DEF CallsInv

-----------------------------------------------------------------------------
(* A request, of the game or of a handler *)

(* A handler's requests follow what RunCallbacks is at, whether or not the *)
(* vector moves.                                                           *)
LEMMA RequestKeeps ==
  ASSUME CallsInv, NEW op \in Requests, NEW handled \in BOOLEAN, Request(op, handled)
  PROVE  CallsInv'
<1> PICK n : n = Len(Results[op])  OBVIOUS
<1> PICK new : new = [k \in 1..Len(Results[op]) |->
                       [call |-> callID + k, type |-> Results[op][k]]]
  OBVIOUS
<1> DEFINE Known == [call : 1..(callID + n), type : Types]
<1>1. n \in Nat \ {0} /\ \A k \in 1..n : Results[op][k] \in Types  BY ResultsTyped
<1>2. /\ callID \in Nat /\ Len(results) \in Nat /\ Len(results) <= callID /\ Base \in Nat
      /\ iter \in Nat /\ moved \in 0..Len(results) /\ Limit \in Nat /\ Limit <= Len(results)
  BY Typed
<1>3. new \in Seq(Known) /\ Len(new) = n
  <2>1. \A k \in 1..n : callID + k \in 1..(callID + n)  BY <1>1, <1>2
  <2>2. new \in [1..n -> Known]  BY <2>1, <1>1
  <2> HIDE DEF Known
  <2> QED  BY <2>2, <1>1
<1>4. /\ InGame /\ callID + n <= MaxCalls /\ callID' = callID + n
      /\ results' = results \o new /\ capacity' = Grown(Len(results'))
      /\ moved' = IF pc = "game" \/ moved # 0 \/ Len(results') <= capacity
                  THEN moved ELSE Len(results)
      /\ \/ /\ resultHandlers' = resultHandlers \cup {callID + 1}
            /\ promised' = promised \cup {callID + 1}
         \/ resultHandlers' = resultHandlers /\ promised' = promised
      /\ pc' = pc /\ iter' = iter /\ ran' = ran /\ freed' = freed /\ lost' = lost
  BY <1>3 DEF Request, Registered, Pushed, past
<1>5. results \in Seq(Known)
  <2>1. results \in Seq([call : 1..callID, type : Types])  BY DEF CallsInv, TypeOK
  <2>2. [call : 1..callID, type : Types] \subseteq Known  BY <1>1, <1>2
  <2> HIDE DEF Known
  <2> QED  BY <2>1, <2>2, WiderSeq
<1>6. /\ results' \in Seq(Known) /\ Len(results') = Len(results) + n
      /\ \A k \in 1..Len(results) : results'[k] = results[k]
      /\ \A k \in 1..n : results'[Len(results) + k] = new[k]
  <2> HIDE DEF Known
  <2>1. results' \in Seq(Known)  BY <1>3, <1>4, <1>5
  <2>2. Len(results') = Len(results) + n  BY <1>3, <1>4, <1>5
  <2>3. \A k \in 1..Len(results) : results'[k] = results[k]  BY <1>3, <1>4, <1>5
  <2>4. \A k \in 1..n : results'[Len(results) + k] = new[k]  BY <1>1, <1>3, <1>4, <1>5
  <2> QED  BY <2>1, <2>2, <2>3, <2>4
<1>7. Base' = Base  BY <1>1, <1>2, <1>4, <1>6 DEF Base
<1>8. Limit <= Limit' /\ Limit' \in Nat /\ moved' \in 0..Len(results')
      /\ (moved = 0 /\ pc = "game" => moved' = 0)
  <2>1. CASE moved' = moved  BY <2>1, <1>1, <1>2, <1>6 DEF Limit
  <2>2. CASE moved' # moved
    <3>1. moved = 0 /\ pc # "game" /\ moved' = Len(results)  BY <2>2, <1>4
    <3> QED  BY <3>1, <1>1, <1>2, <1>6 DEF Limit
  <2> QED  BY <2>1, <2>2
<1>9. 1..callID \subseteq 1..callID' /\ callID + 1 \in 1..callID' /\ callID' \in 0..MaxCalls
  BY <1>1, <1>2, <1>4, MaxCallsAssumption
<1>10. TypeOK'
  <2>1. resultHandlers' \subseteq 1..callID' /\ promised' \subseteq resultHandlers'
    BY <1>4, <1>9 DEF CallsInv, TypeOK
  <2>2. results' \in Seq([call : 1..callID', type : Types])  BY <1>4, <1>6
  <2>3. capacity' \in Nat /\ Len(results') <= capacity'
    <3>1. capacity \in Nat  BY DEF CallsInv, TypeOK
    <3>2. Len(results') \in Nat  BY <1>1, <1>2, <1>6
    <3> QED  BY <3>1, <3>2, <1>4, GrownEnough
  <2>4. ran' \in Seq([call : 1..callID', by : {"handler", "callback"}])
    <3> DEFINE S == [call : 1..callID, by : {"handler", "callback"}]
               T == [call : 1..callID', by : {"handler", "callback"}]
    <3>1. S \subseteq T  BY <1>9
    <3>2. ran \in Seq(S)  BY Typed
    <3>3. ran \in Seq(T)
      <4> HIDE DEF S, T
      <4> QED  BY <3>1, <3>2, WiderSeq
    <3> QED  BY <3>3, <1>4
  <2>5. freed' \in Seq(1..callID')
    <3>1. freed \in Seq(1..callID)  BY Typed
    <3> QED  BY <3>1, <1>4, <1>9, WiderSeq
  <2>6. lost' \subseteq 1..callID'  BY <1>4, <1>9 DEF CallsInv, TypeOK
  <2>7. pc' \in {"handler", "callbacks", "callback", "free"} => iter' \in 1..Len(results')
    <3>1. pc \in {"handler", "callbacks", "callback", "free"} => iter \in 1..Len(results)
      BY DEF CallsInv, TypeOK
    <3> QED  BY <3>1, <1>1, <1>2, <1>4, <1>6
  <2>8. /\ pc' \in {"game", "loop", "handler", "callbacks", "callback", "free", "crashed"}
        /\ iter' \in Nat
    BY <1>4 DEF CallsInv, TypeOK
  <2> QED  BY <1>8, <1>9, <2>1, <2>2, <2>3, <2>4, <2>5, <2>6, <2>7, <2>8 DEF TypeOK
<1>11. Numbered'
  <2>1. Len(results') <= callID'  BY <1>1, <1>2, <1>4, <1>6
  <2>2. ASSUME NEW k \in 1..Len(results')  PROVE results'[k].call = Base + k
    <3>1. CASE k \in 1..Len(results)  BY <3>1, <1>6 DEF CallsInv, Numbered
    <3>2. CASE k \notin 1..Len(results)
      <4>1. PICK j \in 1..n : k = Len(results) + j
        <5>1. k - Len(results) \in 1..n  BY <2>2, <3>2, <1>1, <1>2, <1>6
        <5>2. k = Len(results) + (k - Len(results))  BY <2>2, <1>2
        <5> QED  BY <5>1, <5>2
      <4>2. results'[k] = new[j] /\ new[j].call = callID + j  BY <4>1, <1>6
      <4> QED  BY <4>1, <4>2, <1>1, <1>2 DEF Base
    <3> QED  BY <3>1, <3>2
  <2> QED  BY <2>1, <2>2, <1>7 DEF Numbered
<1>12. Place'
  <2>1. Place  BY DEF CallsInv
  <2>2. /\ pc' = "game" => iter' = 0 /\ moved' = 0  BY <2>1, <1>4, <1>8 DEF Place
  <2>3. pc' \in {"loop", "crashed"} => iter' \in 1..(Limit' + 1)
    <3>1. pc \in {"loop", "crashed"} => iter \in 1..(Limit + 1)  BY <2>1 DEF Place
    <3>2. \A i, m, k \in Nat : m <= k /\ i \in 1..(m + 1) => i \in 1..(k + 1)  OBVIOUS
    <3>3. iter \in 1..(Limit + 1) => iter \in 1..(Limit' + 1)  BY <3>2, <1>2, <1>8
    <3> QED  BY <3>1, <3>3, <1>4
  <2>4. pc' \notin Outside => iter' \in 1..Limit'
    <3>1. pc \notin Outside => iter \in 1..Limit  BY <2>1 DEF Place
    <3>2. 1..Limit \subseteq 1..Limit'  BY <1>2, <1>8
    <3> QED  BY <3>1, <3>2, <1>4
  <2> QED  BY <2>2, <2>3, <2>4 DEF Place, Outside
<1>13. /\ FreedTo' = FreedTo /\ HandledTo' = HandledTo /\ CalledTo' = CalledTo
  BY <1>4, <1>7 DEF FreedTo, HandledTo, CalledTo, Outside
<1>14. ShownSoFar'
  <2>1. \A k \in 1..Len(ran) : (ran[k].call <= ShownTo(ran[k].by))'
    BY <1>4, <1>13 DEF CallsInv, ShownSoFar, ShownTo
  <2> QED  BY <2>1, <1>4, <1>13 DEF CallsInv, ShownSoFar
<1>15. NoneTwice' /\ InCallOrder'  BY <1>4 DEF CallsInv, NoneTwice, InCallOrder
<1>16. KeptPromise'
  <2> SUFFICES ASSUME pc \notin Outside, results'[iter].call \in promised'
               PROVE  Ran(results[iter].call, "handler") # {}
               /\ results'[iter].call = results[iter].call
    BY <1>4 DEF KeptPromise, Outside, Ran
  <2>1. /\ iter \in 1..Len(results) /\ results[iter].call = Base + iter
        /\ Base + iter \in 1..callID
    <3>1. iter \in 1..Limit  BY DEF CallsInv, Place
    <3> QED  BY <3>1, AtHand
  <2>2. results'[iter] = results[iter]  BY <2>1, <1>6
  <2>3. results[iter].call # callID + 1  BY <2>1, <1>2
  <2>4. results[iter].call \in promised  BY <2>2, <2>3, <1>4
  <2> QED  BY <2>2, <2>4 DEF CallsInv, KeptPromise
<1>17. HandlerHasRun'
  <2>1. ASSUME NEW c \in promised', Freed(c) # {}  PROVE Ran(c, "handler") # {}
    <3>1. PICK k \in 1..Len(freed) : freed[k] = c  BY <2>1 DEF Freed
    <3>2. freed[k] \in 1..callID  BY Bounds
    <3>3. c # callID + 1  BY <3>1, <3>2, <1>2
    <3>4. c \in promised  BY <2>1, <3>3, <1>4
    <3> QED  BY <2>1, <3>4 DEF CallsInv, HandlerHasRun
  <2> QED  BY <2>1, <1>4 DEF HandlerHasRun, Freed, Ran
<1> QED
  BY <1>10, <1>11, <1>12, <1>14, <1>15, <1>16, <1>17 DEF CallsInv

-----------------------------------------------------------------------------
(* The theorems *)

LEMMA CallsKept == Spec => []CallsInv
<1>1. Init => CallsInv
  <2> SUFFICES ASSUME Init  PROVE CallsInv
    OBVIOUS
  <2>1. /\ callID = 0 /\ resultHandlers = {} /\ promised = {} /\ results = <<>> /\ capacity = 0
        /\ pc = "game" /\ iter = 0 /\ moved = 0 /\ ran = <<>> /\ freed = <<>> /\ lost = {}
        /\ Len(results) = 0 /\ Len(ran) = 0 /\ Len(freed) = 0
    BY DEF Init
  <2>2. TypeOK
    <3>1. callID \in 0..MaxCalls /\ moved \in 0..Len(results)  BY <2>1, MaxCallsAssumption
    <3> QED  BY <2>1, <3>1 DEF TypeOK
  <2>3. Numbered /\ Place /\ NoneTwice /\ InCallOrder
    BY <2>1 DEF Numbered, Place, Outside, NoneTwice, InCallOrder
  <2>4. ShownSoFar /\ KeptPromise /\ HandlerHasRun
    BY <2>1 DEF ShownSoFar, KeptPromise, Outside, HandlerHasRun
  <2> QED  BY <2>2, <2>3, <2>4 DEF CallsInv
<1>2. CallsInv /\ [Next]_vars => CallsInv'
  <2> SUFFICES ASSUME CallsInv, [Next]_vars  PROVE CallsInv'
    OBVIOUS
  <2>1. ASSUME NEW op \in Requests, NEW handled \in BOOLEAN, Request(op, handled)
        PROVE  CallsInv'
    BY <2>1, RequestKeeps
  <2>2. ASSUME NEW c \in 1..MaxCalls, RegisterCallResult(c)  PROVE CallsInv'
    BY <2>2, RegisterCallResultKeeps
  <2>3. CASE RunCallbacks  BY <2>3, RunCallbacksKeeps
  <2>4. CASE Result  BY <2>4, ResultKeeps
  <2>5. CASE HandlerReturns \/ CallbackReturns  BY <2>5, ReturnsKeep
  <2>6. CASE Callbacks  BY <2>6, CallbacksKeep
  <2>7. CASE Free  BY <2>7, FreeKeeps
  <2>8. CASE Clear  BY <2>8, ClearKeeps
  <2>9. CASE Crash  BY <2>9, CrashKeeps
  <2>10. CASE UNCHANGED vars
    BY <2>10 DEF vars, calls, vector, past, CallsInv, TypeOK, Numbered, Place, Outside, Base, Limit,
       FreedTo, HandledTo, CalledTo, ShownTo, ShownSoFar, NoneTwice, InCallOrder, KeptPromise,
       HandlerHasRun, Ran, Freed
  <2> QED
    BY <2>1, <2>2, <2>3, <2>4, <2>5, <2>6, <2>7, <2>8, <2>9, <2>10 DEF Next, Game, Frame
<1> QED
  BY <1>1, <1>2, PTL DEF Spec

(* Each result reaches its handler and the callbacks of its type at most   *)
(* once and is freed at most once, handlers run in the order of the calls, *)
(* and a result that is freed was shown to the handler that was promised   *)
(* it (SteamBase.cpp, RunCallbacks), whatever handlers request meanwhile.  *)
THEOREM ResultsShownInOrder == Spec => []ResultsInOrder
<1>1. CallsInv => OnceEach
  <2> SUFFICES ASSUME CallsInv, NEW c
               PROVE  /\ \A kind : OneAtMost(Ran(c, kind))
                      /\ OneAtMost(Freed(c))
    BY DEF OnceEach
  <2> QED  BY DEF CallsInv, NoneTwice, OneAtMost, Ran, Freed
<1>2. CallsInv => ResultsInOrder  BY <1>1 DEF CallsInv, ResultsInOrder
<1> QED  BY <1>2, CallsKept, PTL

(* RunCallbacks clears a result nobody saw only if a handler made the      *)
(* vector move in that pass.                                               *)
THEOREM OnlyMovesLose == Spec => LostByMoveOnly
<1>1. CallsInv /\ [Next]_vars => [lost' # lost => moved # 0]_vars
  <2> SUFFICES ASSUME CallsInv, Next, moved = 0  PROVE lost' = lost
    BY DEF vars
  <2>1. CASE Clear
    <3>1. iter > Len(results) /\ iter \in Nat /\ Len(results) \in Nat
      BY <2>1, Typed DEF Clear, Limit
    <3>2. Unhandled = {}  BY <3>1 DEF Unhandled
    <3> QED  BY <2>1, <3>2 DEF Clear
  <2>2. CASE ~Clear
    BY <2>2 DEF Next, Game, Frame, Request, RegisterCallResult, RunCallbacks, Result,
       HandlerReturns, Callbacks, CallbackReturns, Free, Crash, past
  <2> QED  BY <2>1, <2>2
<1> QED  BY <1>1, CallsKept, PTL DEF Spec, LostByMoveOnly
=============================================================================
