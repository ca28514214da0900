----------------------------- MODULE SessionKey -----------------------------
(***************************************************************************)
(* The session key (DWCrypto.cpp): dw_thread copies it out of the ticket   *)
(* at every login at the lobby, and each encrypted message copies it       *)
(* again, also on the thread that brings instant messages. Neither copy    *)
(* takes a lock.                                                           *)
(***************************************************************************)
EXTENDS Integers, Sequences, FiniteSets

CONSTANTS
  Words,      (* how many words the copies take: 6                         *)
  MaxLogins,  (* bound on logins                                           *)
  MaxSent     (* bound on messages                                         *)

Writers == {"dw_thread", "PM"}

VARIABLES
  globalKey,  (* a word of each: 0 before the first login                  *)
  logins,     (* how many logins the lobby began                           *)
  copied,     (* how many words of the ticket's key are in place           *)
  drafts,     (* what each thread has of the key for the message it sends  *)
  sent        (* every message, with the logins done when it was begun     *)

vars == <<globalKey, logins, copied, drafts, sent>>

NoDraft == [of |-> -1, key |-> <<>>]

Init ==
  /\ globalKey = [w \in 1..Words |-> 0]
  /\ logins = 0 /\ copied = Words
  /\ drafts = [t \in Writers |-> NoDraft]
  /\ sent = {}

Done == IF copied = Words THEN logins ELSE logins - 1
Writing(t) == drafts[t] # NoDraft

-----------------------------------------------------------------------------

(* Mutant: every ticket has a key of its own.                              *)
TicketKey_Fresh(login) == login

(* dw_build_lsg_ticket puts the same key into every ticket.                *)
TicketKey(login) == 1

(* bdLobbyService::callService, on dw_thread; no reply is sent.            *)
Login ==
  /\ copied = Words /\ ~Writing("dw_thread") /\ logins < MaxLogins
  /\ logins' = logins + 1 /\ copied' = 0
  /\ UNCHANGED <<globalKey, drafts, sent>>

dw_set_global_key ==
  /\ copied < Words
  /\ copied' = copied + 1
  /\ globalKey' = [globalKey EXCEPT ![copied + 1] = TicketKey(logins)]
  /\ UNCHANGED <<logins, drafts, sent>>

(* dwMessage::send: replies on dw_thread, instant messages (dw_im_received)*)
(* on the thread of PM, even before a login.                               *)
Begin(t) ==
  /\ ~Writing(t) /\ (t = "dw_thread" => copied = Words /\ logins > 0)
  /\ drafts' = [drafts EXCEPT ![t] = [of |-> Done, key |-> <<>>]]
  /\ UNCHANGED <<globalKey, logins, copied, sent>>

dw_get_global_key(t) ==
  /\ Writing(t) /\ Len(drafts[t].key) < Words
  /\ drafts' = [drafts EXCEPT ![t].key = Append(@, globalKey[Len(@) + 1])]
  /\ UNCHANGED <<globalKey, logins, copied, sent>>

Send(t) ==
  /\ Writing(t) /\ Len(drafts[t].key) = Words /\ Cardinality(sent) < MaxSent
  /\ sent' = sent \union {drafts[t]}
  /\ drafts' = [drafts EXCEPT ![t] = NoDraft]
  /\ UNCHANGED <<globalKey, logins, copied>>

Next ==
  \/ Login \/ dw_set_global_key
  \/ \E t \in Writers : Begin(t) \/ dw_get_global_key(t) \/ Send(t)
Spec == Init /\ [][Next]_vars

-----------------------------------------------------------------------------

(* A message begun after the first login, whatever thread sends it and     *)
(* however many logins interrupt it, is encrypted with the whole key of    *)
(* the login before it. The instant messages before that are not.          *)
KeysWhole ==
  \A message \in sent :
    message.of > 0 => message.key = [w \in 1..Words |-> TicketKey(message.of)]
=============================================================================
