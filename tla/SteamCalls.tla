----------------------------- MODULE SteamCalls -----------------------------
(***************************************************************************)
(* Asynchronous calls of the Steam emulation (Steam/SteamBase.cpp). A      *)
(* request takes call ids and pushes its results at once; RunCallbacks,    *)
(* called once per frame, hands them to the game's handlers. All of it     *)
(* runs on the game's main thread, but a handler may make requests, and so *)
(* push to _results while RunCallbacks iterates over it. When the vector   *)
(* has no room left it moves, and the iterator is left dangling: the loop  *)
(* may then end at once, since it compares addresses, go on with what is   *)
(* left of the old results, or run into memory that holds none.            *)
(*                                                                         *)
(* The payload of a result is left out. Callback objects live as long as   *)
(* the process (Unregister does nothing), one for each type in Listened.   *)
(***************************************************************************)
EXTENDS Integers, Sequences

CONSTANTS
  Requests,  (* the requests the game makes                                 *)
  Listened,  (* result types some callback object is registered for         *)
  MaxCalls   (* bound: call ids                                             *)

ASSUME MaxCallsAssumption == MaxCalls \in Nat

(* The results of each request, one call id each. Only the first id is     *)
(* told to the game: CreateLobby drops the id of the JoinLobby inside it.  *)
Results ==
  [RequestLobbyList          |-> <<"LobbyMatchList">>,
   CreateLobby               |-> <<"LobbyCreated", "LobbyEnter">>,
   JoinLobby                 |-> <<"LobbyEnter">>,
   RequestEncryptedAppTicket |-> <<"none">>]

Types == {"LobbyMatchList", "LobbyCreated", "LobbyEnter", "none"}

ASSUME RequestsAssumption == Requests \subseteq DOMAIN Results

VARIABLES
  callID,          (* _callID: ids handed out                               *)
  resultHandlers,  (* calls with an entry in _resultHandlers                *)
  promised,        (* history: the ones registered before control returned  *)
  results,         (* _results                                              *)
  capacity,        (* room in the vector before it moves                    *)
  pc,              (* where RunCallbacks is                                 *)
  iter,            (* its iterator, as an index                             *)
  moved,           (* the results in the vector when it moved under iter, or 0 *)
  ran,             (* history: the handlers run                             *)
  freed,           (* history: the results freed                            *)
  lost             (* history: calls cleared without being handled          *)

calls  == <<callID, resultHandlers, promised>>
vector == <<results, capacity>>
past   == <<ran, freed, lost>>
vars   == <<calls, vector, pc, iter, moved, past>>

Init ==
  /\ callID = 0 /\ resultHandlers = {} /\ promised = {}
  /\ results = <<>> /\ capacity = 0
  /\ pc = "game" /\ iter = 0 /\ moved = 0
  /\ ran = <<>> /\ freed = <<>> /\ lost = {}

-----------------------------------------------------------------------------
(* The game's code: the frame loop, a result handler or a callback.        *)
InGame == pc \in {"game", "handler", "callback"}

(* push_back in a full vector makes room for half as much again.           *)
Grown(size) ==
  CASE size <= capacity -> capacity
    [] size > capacity + capacity \div 2 -> size
    [] OTHER -> capacity + capacity \div 2

(* Mutant: CreateLobby joins the lobby before it returns its own result.   *)
Pushed_JoinFirst(new) == results \o [k \in 1..Len(new) |-> new[Len(new) + 1 - k]]

(* Mutant: ReturnCall does nothing while RunCallbacks is at work.          *)
Pushed_NotInHandlers(new) == IF pc = "game" THEN results \o new ELSE results

(* ReturnCall, once for each result. *)
Pushed(new) == results \o new

(* Mutant: RegisterCall does not advance _callID.                          *)
Registered_Stays(n) == callID

(* _callID after n calls of RegisterCall.                                  *)
Registered(n) == callID + n

(* RegisterCall and ReturnCall; the game may register a handler for the    *)
(* id it gets.                                                             *)
Request(op, handled) ==
  LET new == [k \in 1..Len(Results[op]) |->
                [call |-> callID + k, type |-> Results[op][k]]] IN
    /\ InGame
    /\ callID + Len(new) <= MaxCalls
    /\ callID' = Registered(Len(new))
    /\ results' = Pushed(new)
    /\ capacity' = Grown(Len(results'))
    /\ moved' = IF pc = "game" \/ moved # 0 \/ Len(results') <= capacity
                THEN moved ELSE Len(results)
    /\ \/ /\ handled
          /\ resultHandlers' = resultHandlers \cup {callID + 1}
          /\ promised' = promised \cup {callID + 1}
       \/ /\ ~handled
          /\ UNCHANGED <<resultHandlers, promised>>
    /\ UNCHANGED <<pc, iter, past>>

(* A handler registered later. *)
RegisterCallResult(c) ==
  /\ InGame /\ c \in (1..callID) \ resultHandlers
  /\ resultHandlers' = resultHandlers \cup {c}
  /\ UNCHANGED <<callID, promised, vector, pc, iter, moved, past>>

-----------------------------------------------------------------------------
(* RunCallbacks *)

RunCallbacks ==
  /\ pc = "game"
  /\ pc' = "loop" /\ iter' = 1
  /\ UNCHANGED <<calls, vector, moved, past>>

(* Mutant: the loop ends one result early.                                 *)
Limit_OffByOne == (IF moved # 0 THEN moved ELSE Len(results)) - 1

(* The results the iterator can still come to.                             *)
Limit == IF moved # 0 THEN moved ELSE Len(results)

(* Mutant: handlers are looked up by position.                             *)
HasHandler_ByPlace == iter \in resultHandlers

HasHandler == results[iter].call \in resultHandlers

Run(kind) == Append(ran, [call |-> results[iter].call, by |-> kind])

(* From here on the loop works on a copy of the result; a handler that     *)
(* makes the vector move spoils the iterator only, so results[iter] still  *)
(* names that copy.                                                        *)
Result ==
  /\ pc = "loop" /\ iter <= Limit
  /\ \/ /\ HasHandler
        /\ ran' = Run("handler") /\ pc' = "handler"
     \/ /\ ~HasHandler
        /\ pc' = "callbacks" /\ UNCHANGED ran
  /\ UNCHANGED <<calls, vector, iter, moved, freed, lost>>

HandlerReturns ==
  /\ pc = "handler"
  /\ pc' = "callbacks"
  /\ UNCHANGED <<calls, vector, iter, moved, past>>

Callbacks ==
  /\ pc = "callbacks"
  /\ \/ /\ results[iter].type \in Listened \ {"none"}
        /\ ran' = Run("callback") /\ pc' = "callback"
     \/ /\ results[iter].type \notin Listened \ {"none"}
        /\ pc' = "free" /\ UNCHANGED ran
  /\ UNCHANGED <<calls, vector, iter, moved, freed, lost>>

CallbackReturns ==
  /\ pc = "callback"
  /\ pc' = "free"
  /\ UNCHANGED <<calls, vector, iter, moved, past>>

Free ==
  /\ pc = "free"
  /\ freed' = Append(freed, results[iter].call)
  /\ iter' = iter + 1 /\ pc' = "loop"
  /\ UNCHANGED <<calls, vector, moved, ran, lost>>

Unhandled == {results[k].call : k \in {l \in 1..Len(results) : l >= iter}}

(* Mutant: _results is not cleared.                                        *)
Clear_Keeps ==
  /\ pc = "loop" /\ (iter > Limit \/ moved # 0)
  /\ lost' = lost \cup Unhandled
  /\ pc' = "game" /\ iter' = 0 /\ moved' = 0
  /\ UNCHANGED <<calls, vector, ran, freed>>

(* The end of the loop; with a dangling iterator it may come at once.      *)
Clear ==
  /\ pc = "loop" /\ (iter > Limit \/ moved # 0)
  /\ lost' = lost \cup Unhandled
  /\ results' = <<>>
  /\ pc' = "game" /\ iter' = 0 /\ moved' = 0
  /\ UNCHANGED <<calls, capacity, ran, freed>>

(* A dangling iterator may also lead to memory that is no result.          *)
Crash ==
  /\ pc = "loop" /\ moved # 0
  /\ pc' = "crashed"
  /\ UNCHANGED <<calls, vector, iter, moved, past>>

Frame ==
  \/ RunCallbacks \/ Result \/ HandlerReturns \/ Callbacks \/ CallbackReturns
  \/ Free \/ Clear \/ Crash

Game ==
  \/ \E op \in Requests, handled \in BOOLEAN : Request(op, handled)
  \/ \E c \in 1..MaxCalls : RegisterCallResult(c)

Next == Game \/ Frame

(* The game calls SteamAPI_RunCallbacks in every frame; handlers return.   *)
Spec == Init /\ [][Next]_vars /\ WF_vars(Frame)

-----------------------------------------------------------------------------
(* Properties *)

Ran(c, kind) == {k \in 1..Len(ran) : ran[k] = [call |-> c, by |-> kind]}
Freed(c)     == {k \in 1..Len(freed) : freed[k] = c}
OneAtMost(S) == \A k, l \in S : k = l

TypeOK ==
  /\ callID \in 0..MaxCalls
  /\ resultHandlers \subseteq 1..callID /\ promised \subseteq resultHandlers
  /\ results \in Seq([call : 1..callID, type : Types])
  /\ capacity \in Nat /\ Len(results) <= capacity
  /\ pc \in {"game", "loop", "handler", "callbacks", "callback", "free", "crashed"}
  /\ iter \in Nat /\ moved \in 0..Len(results)
  /\ pc \in {"handler", "callbacks", "callback", "free"} => iter \in 1..Len(results)
  /\ ran \in Seq([call : 1..callID, by : {"handler", "callback"}])
  /\ freed \in Seq(1..callID) /\ lost \subseteq 1..callID

(* No result reaches its handler or the callbacks of its type twice, and   *)
(* none is freed twice, though handlers are never unregistered.            *)
OnceEach ==
  \A c \in 1..callID :
    OneAtMost(Ran(c, "handler")) /\ OneAtMost(Ran(c, "callback")) /\ OneAtMost(Freed(c))

(* Handlers run in the order of the calls, those made in a handler last;   *)
(* so LobbyEnter never comes before the LobbyCreated of the same           *)
(* CreateLobby.                                                            *)
InCallOrder ==
  \A k, l \in 1..Len(ran) : k < l => ran[k].call <= ran[l].call

(* A result that is freed has been shown to the handler registered with    *)
(* its request.                                                            *)
HandlerHasRun ==
  \A c \in promised : Freed(c) # {} => Ran(c, "handler") # {}

(* All that holds of results in any state: each reaches its handler before *)
(* it is freed, in the order of the calls, and once.                       *)
ResultsInOrder == TypeOK /\ OnceEach /\ InCallOrder /\ HandlerHasRun

(* RunCallbacks clears a result nobody saw only in a pass in which a       *)
(* handler made the vector move: requests made in handlers are served in   *)
(* the same pass as long as they fit.                                      *)
LostByMoveOnly == [][lost' # lost => moved # 0]_vars

(* Every call is over at some time: its result is freed, or lost, or the   *)
(* process has crashed.                                                    *)
CallsEnd ==
  \A c \in 1..MaxCalls :
    callID >= c ~> Freed(c) # {} \/ c \in lost \/ pc = "crashed"
=============================================================================
