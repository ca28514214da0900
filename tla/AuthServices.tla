---------------------------- MODULE AuthServices ----------------------------
(***************************************************************************)
(* How the session key gets about: the three authentication services       *)
(* (bdSteamAuthService, bdDediAuthService, bdRegisterServer) answer with a *)
(* ticket for the lobby server, the game hands it to bdLobbyService, which *)
(* makes its first bytes the key of all later messages. Requests and       *)
(* answers are bit streams, in which the tickets are not aligned.          *)
(***************************************************************************)
EXTENDS bdBitBuffer, SequencesExt

CONSTANTS
  GlobalKey,    (* GLOBAL_KEY and DEDI_KEY_HASH, as sequences of bytes;     *)
  DediKeyHash,  (* 24 bytes each in the code                                *)
  DediKeyOb,    (* DEDI_KEY_OB: 86 bytes                                    *)
  TicketSize,   (* 128                                                      *)
  KeyPlace      (* where a Steam ticket has its key: 32                     *)

(* Joined to nothing, so that TLC has a tuple to update.                   *)
Zeros(n) == <<>> \o [i \in 1..n |-> 0]
Word(n) == <<n % 256, (n \div 256) % 256, 0, 0>>
FromWord(bytes) == bytes[1] + 256 * bytes[2]

-----------------------------------------------------------------------------
(* The tickets and the cipher *)

dw_build_lsg_ticket == GlobalKey \o Zeros(TicketSize - Len(GlobalKey))

(* Signature, license type, game, filler and key; the rest of the fields   *)
(* are the same in every ticket.                                           *)
dw_build_game_ticket(licenseType, gameID) ==
  LET head == <<222, 173, 189, 239, licenseType>> \o gameID
  IN  head \o [i \in 1..TicketSize - Len(head) - Len(GlobalKey) |-> 10] \o GlobalKey

(* 3DES of libtomcrypt: any bijection that depends on the key.             *)
Encrypt(bytes, key) == [i \in 1..Len(bytes) |-> AsByte(bytes[i] + key[1] + i)]

-----------------------------------------------------------------------------
(* The Steam ticket (CSteamUser016) that the game sends with its log-in.   *)

Over(memory, place, bytes) ==
  SubSeq(memory, 1, place) \o bytes \o SubSeq(memory, place + Len(bytes) + 1, Len(memory))
AtMost(bytes, n) == IF Len(bytes) <= n THEN bytes ELSE SubSeq(bytes, 1, n)

(* The session's id, the game's data, and behind it the account's id: more *)
(* than fits is written beyond the static ticket.                          *)
RequestEncryptedAppTicket(sessionID, pUserData, userID) ==
  LET named == Over(Zeros(TicketSize), 0, sessionID)
      game  == Over(named, KeyPlace, AtMost(pUserData, TicketSize))
  IN  AtMost(Over(game, KeyPlace + Len(pUserData), userID), TicketSize)

GetEncryptedAppTicket(ticketData, cbMaxTicket) ==
  [pTicket |-> AtMost(ticketData, cbMaxTicket), pcbTicket |-> TicketSize]

-----------------------------------------------------------------------------
(* The services. What a failed read leaves in a local is not looked at:    *)
(* a request is one the game's library writes.                             *)

(* What is read in turn: "bit", "number", as many bytes as the last number *)
(* says ("counted"), the 64 bits of a dedicated server's "key", a "ticket";  *)
(* "types" turns types on (setUseDataTypes).                               *)
Then(s, r) == [buf |-> r.buf, data |-> Append(s.data, r.data)]
ReadNext(s, kind) ==
  IF kind = "types" THEN [s EXCEPT !.buf = WithBitTypes(@, TRUE)]
  ELSE Then(s, CASE kind = "bit" -> ReadBoolean(s.buf)
                 [] kind = "number" -> ReadUInt32(s.buf)
                 [] kind = "counted" -> ReadBytes(s.buf, FromWord(Last(s.data)))
                 [] kind = "key" -> ReadBits(s.buf, 64)
                 [] kind = "ticket" -> ReadBytes(s.buf, TicketSize))
ReadAll(message, kinds) ==
  FoldLeft(ReadNext, [buf |-> WithBitTypes(BitBuffer(message), FALSE), data |-> <<>>], kinds).data

(* An unknown bit and two numbers open every request; only the numbers     *)
(* carry types. The second is the game's.                                  *)
Opening == <<"bit", "types", "number", "number">>

(* The part that the answers share.                                        *)
AuthReply(code, gameTicket, key) ==
  LET blank == WithBitTypes(BitBuffer(Zeros(4 * TicketSize)), FALSE)
      head  == WriteUInt32(WriteUInt32(WriteBoolean(blank, 0), Word(code)), <<222, 192, 173, 222>>)
  IN  WriteBytes(WriteBytes(head, Encrypt(gameTicket, key)), dw_build_lsg_ticket)

Sent(b) == SubSeq(b.bytes, 1, BitLength(b))

(* The key to encrypt with is taken out of the game's Steam ticket.        *)
SteamAnswer(data) ==
  Sent(AuthReply(700, dw_build_game_ticket(0, data[3]),
                 SubSeq(data[5], KeyPlace + 1, KeyPlace + Len(GlobalKey))))
SteamAuth(message) == SteamAnswer(ReadAll(message, Opening \o <<"number", "counted">>))

(* 706 unless the first byte of the request's key is the right one.        *)
DediAnswer(data) ==
  Sent(AuthReply(IF data[4][1] = DediKeyHash[1] THEN 700 ELSE 706,
                 dw_build_game_ticket(4, data[3]), DediKeyHash))
DediAuth(message) == DediAnswer(ReadAll(message, Opening \o <<"key">>))

RegisterServer(message) ==
  LET data == ReadAll(message, Opening)
  IN  Sent(WriteInt32(WriteBytes(AuthReply(700, dw_build_game_ticket(0, data[3]), DediKeyHash), DediKeyOb),
                      Word(1234)))

(* Mutant: the ticket is read as if data types were off.                   *)
LobbyKey_NoTypes(message) ==
  SubSeq(ReadAll(message, <<"bit", "number", "number", "ticket">>)[4], 1, Len(GlobalKey))

(* bdLobbyService: the key that dw_set_global_key is given.                *)
LobbyKey(message) ==
  SubSeq(ReadAll(message, Opening \o <<"ticket">>)[4], 1, Len(GlobalKey))

-----------------------------------------------------------------------------
(* The game's side (external) *)

Request(bit, first, second, rest) ==
  LET blank == WithBitTypes(BitBuffer(Zeros(4 * TicketSize)), FALSE)
      open  == WithBitTypes(WriteBoolean(blank, bit), TRUE)
  IN  Sent(FoldLeft(WriteBytes, WriteUInt32(WriteUInt32(open, Word(first)), Word(second)), rest))

SteamRequest(bit, first, second, ticket) ==
  LET blank == WithBitTypes(BitBuffer(Zeros(4 * TicketSize)), FALSE)
      open  == WriteUInt32(WriteUInt32(WithBitTypes(WriteBoolean(blank, bit), TRUE), Word(first)), Word(second))
  IN  Sent(WriteBytes(WriteUInt32(open, Word(Len(ticket))), ticket))

(* The code and the two tickets of an answer.                              *)
CodeAndTickets(data) == [code |-> FromWord(data[2]), game |-> data[4], lsg |-> data[5]]
Answer(reply) ==
  CodeAndTickets(ReadAll(reply, <<"bit", "number", "number", "ticket", "ticket">>))
=============================================================================
