------------------------------ MODULE Dispatch ------------------------------
(***************************************************************************)
(* What becomes of one request: bdRequestServer::handleMessage opens it,   *)
(* bdServiceServer::handleRequest finds the service, the service reads its *)
(* fields and answers. Here the PM library answers at once; how calls that *)
(* are late or fail are waited for is in bdServices, the tickets are in    *)
(* AuthServices, and the sessions, which no request reaches, in            *)
(* MatchMakingInfo.                                                        *)
(***************************************************************************)
EXTENDS dwMessage, TLC

CONSTANTS
  Me,            (* PM_GetPMID                                             *)
  ProfileSize,   (* setPublicInfo's static buffer: 65535 bytes             *)
  MaxInfos       (* of getPublicInfos' static array: 300 rows              *)

-----------------------------------------------------------------------------
(* The services of the two servers *)

getType ==
  [bdLobbyService |-> 7, bdTitleUtilities |-> 12, bdStorage |-> 10, bdMatchMaking |-> 21,
   bdMessaging |-> 6, bdProfiles |-> 8,
   bdSteamAuthService |-> 28, bdDediAuthService |-> 12, bdRegisterServer |-> 26]

registerService(services, service) == (getType[service] :> service) @@ services

bdLSGServer ==
  FoldLeft(registerService, <<>>, <<"bdLobbyService", "bdTitleUtilities", "bdStorage",
                                    "bdMatchMaking", "bdMessaging", "bdProfiles">>)
bdAuthServer ==
  FoldLeft(registerService, <<>>, <<"bdSteamAuthService", "bdDediAuthService", "bdRegisterServer">>)

(* The process: the global key, setPublicInfo's buffer, what went to the   *)
(* PM servers, the answers queued, and whether what lies behind the array  *)
(* of getPublicInfos was written over, after which nothing is known of it. *)
Process(key, files) ==
  [key |-> key, buf |-> [k \in 1..ProfileSize |-> Nul], files |-> files, sent |-> <<>>, out |-> <<>>,
   overrun |-> FALSE]

enqueuePacket(s, packet) == [s EXCEPT !.out = Append(@, packet)]
makeReply(s, error, service, results) ==
  enqueuePacket(s, Send(dwReply(error, getType[service], results), s.key))

-----------------------------------------------------------------------------
(* bdMessaging, bdTitleUtilities *)

PM_SendMessage(s, to, msg) == [s EXCEPT !.sent = Append(@, [to |-> to, msg |-> msg])]

sendGlobalInstantMessage(s, data) ==
  LET onlineID == ReadScalar(data, "u64")
  IN  makeReply(PM_SendMessage(s, Number(onlineID.data), ReadBlob(onlineID.buf).data), 0, "bdMessaging", <<>>)

(* Mutant: the two fields are read as in the global one.                   *)
sendInstantMessage_Swapped(s, data) ==
  LET onlineID == ReadScalar(data, "u64")
  IN  PM_SendMessage(s, Number(onlineID.data), ReadBlob(onlineID.buf).data)

(* The fields come in the other order, and there is no reply.              *)
sendInstantMessage(s, data) ==
  LET msg == ReadBlob(data)
  IN  PM_SendMessage(s, Number(ReadScalar(msg.buf, "u64").data), msg.data)

Now == 1337
bdTimeResult == <<[kind |-> "u32", value |-> Now]>>
getServerTime(s) == makeReply(s, 0, "bdTitleUtilities", <<bdTimeResult>>)

-----------------------------------------------------------------------------
(* bdStorage, bdProfiles *)

bdFileResult(file) == <<[kind |-> "blob", value |-> file]>>
PublicProfileInfo(npID, data) ==
  <<[kind |-> "u64", value |-> npID], [kind |-> "blob", value |-> data]>>
Own(npid) == IF npid = 0 THEN Me ELSE npid

Written(s, file, data) == [s EXCEPT !.files = (file :> data) @@ @]
Fetched(s, file) ==
  IF file \in DOMAIN s.files THEN makeReply(s, 0, "bdStorage", <<bdFileResult(s.files[file])>>)
  ELSE makeReply(s, 1000, "bdStorage", <<>>)

Uploaded(s, name, file) ==
  makeReply(Written(s, <<name, Own(Number(ReadScalar(file.buf, "u64").data))>>, file.data),
            0, "bdStorage", <<>>)
uploadUserFile(s, data) ==
  LET name == ReadString(data)
  IN  Uploaded(s, name.data, ReadBlob(ReadScalar(name.buf, "bool").buf))

getUserFile(s, data) ==
  LET name == ReadString(data)
  IN  Fetched(s, <<name.data, Own(Number(ReadScalar(name.buf, "u64").data))>>)

Publisher == 0     (* whose files the publisher's are *)
getPublisherFile(s, data) == Fetched(s, <<ReadString(data).data, Publisher>>)

(* The ids are read until that fails; a row comes back for each that has a *)
(* profile, as often as it is asked for, and the rows are not counted.     *)
Profile(npID) == <<Bytes(9000, 2), npID>>     (* the file profileiw5pub *)
getPublicInfos(s, data) ==
  LET ids[k \in 0..Len(data.bytes)] ==
        IF k * 9 + data.cur + 9 > Len(data.bytes) THEN <<>>
        ELSE <<Number(ReadScalar([data EXCEPT !.cur = @ + 9 * k], "u64").data)>> \o ids[k + 1]
      known == SelectSeq(ids[0], LAMBDA id : Profile(id) \in DOMAIN s.files)
      after == [s EXCEPT !.overrun = @ \/ Len(known) > MaxInfos]
  IN  makeReply(after, 0, "bdProfiles", [k \in 1..Len(known) |-> PublicProfileInfo(known[k], s.files[Profile(known[k])])])

(* Four bytes more are written than were copied, whatever they are.        *)
setPublicInfo(s, data) ==
  LET Copied(info) == [s EXCEPT !.buf = info \o SubSeq(@, Len(info) + 1, Len(@))]
      Stored(info, after) == Written(after, Profile(Me), SubSeq(after.buf, 1, Len(info) + 4))
      Set(info) == Stored(info, Copied(info))
  IN  makeReply(Set(ReadBlob(data).data), 0, "bdProfiles", <<>>)

-----------------------------------------------------------------------------
(* The authentication services answer with bit messages, in the clear.     *)

Tickets(service) == [k \in 1..16 |-> <<service, k>>]
AuthType == [bdSteamAuthService |-> 29, bdDediAuthService |-> 13, bdRegisterServer |-> 25]
makeMessage(service) == [bytes |-> Tickets(service), cur |-> 16]

call(s, service, subType, data) ==
  CASE <<service, subType>> = <<"bdMessaging", 14>>     -> sendGlobalInstantMessage(s, data)
    [] <<service, subType>> = <<"bdMessaging", 18>>     -> sendInstantMessage(s, data)
    [] <<service, subType>> = <<"bdTitleUtilities", 6>> -> getServerTime(s)
    [] <<service, subType>> = <<"bdStorage", 1>>        -> uploadUserFile(s, data)
    [] <<service, subType>> = <<"bdStorage", 3>>        -> getUserFile(s, data)
    [] <<service, subType>> = <<"bdStorage", 7>>        -> getPublisherFile(s, data)
    [] <<service, subType>> = <<"bdProfiles", 1>>       -> getPublicInfos(s, data)
    [] <<service, subType>> = <<"bdProfiles", 3>>       -> setPublicInfo(s, data)
    [] OTHER                                            -> s

callService(s, service, request) ==
  LET subType == ReadScalar(Buffer(request), "byte")
  IN  CASE service = "bdLobbyService"  -> [s EXCEPT !.key = request[1][1]]
        [] service \in DOMAIN AuthType -> enqueuePacket(s, SendPlain(makeMessage(service), AuthType[service]))
        [] OTHER                       -> call(s, service, Number(subType.data), subType.buf)

handleRequest(s, services, type, request) ==
  IF type \in DOMAIN services THEN callService(s, services[type], request) ELSE s

(* Encrypted: a seed, then what is decrypted, of which 4 bytes are skipped.*)
Cleartext(message, key) ==
  IF message[1] = <<1, 1>>
  THEN [k \in 1..Len(message) - 9 |-> IF message[k + 9].key = key THEN message[k + 9].byte ELSE Blank]
  ELSE Tail(message)

(* Unless a packet was queued, or it was the lobby service, an error is.   *)
answered(s, type, after) ==
  IF after.out = s.out /\ type # 7
  THEN enqueuePacket(after, Send(dwReply(2, 0, <<>>), after.key)) ELSE after
handleMessage(s, services, message) ==
  LET clear == Cleartext(message, s.key)
      type  == clear[1][1]
  IN  answered(s, type, handleRequest(s, services, type, Tail(clear)))

MeText == Bytes(7000, 2)     (* the string "me" *)

(* A message from another player becomes a message of type 2, unless it    *)
(* begins with two bytes of 255: those ask the player to reconnect.        *)
dw_im_received(s, from, buf) ==
  IF SubSeq(buf, 1, 2) = Bytes(255, 1) \o Bytes(255, 1) THEN s
  ELSE enqueuePacket(s, Send(FoldLeft(WriteField, ByteMessage(2),
         <<[kind |-> "u32", value |-> 21], [kind |-> "u64", value |-> from],
           [kind |-> "string", value |-> MeText], [kind |-> "blob", value |-> buf]>>), s.key))

-----------------------------------------------------------------------------
(* The game's requests (external): the subtype, then the fields.           *)

Body(subType, fields) ==
  LET blank == Buffer([k \in 1..Capacity |-> Blank])
      body  == FoldLeft(WriteField, WriteScalar(blank, "byte", subType), fields)
  IN  SubSeq(body.bytes, 1, body.cur)
Plain(type, body) == Bytes(0, 1) \o Bytes(type, 1) \o body
Sealed(type, body, key) ==
  LET clear == Bytes(4321, 4) \o Bytes(type, 1) \o body
  IN  Bytes(1, 1) \o Bytes(1337, 4) \o [k \in 1..Len(clear) |-> [key |-> key, byte |-> clear[k]]]
=============================================================================
