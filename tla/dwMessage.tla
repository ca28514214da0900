----------------------------- MODULE dwMessage ------------------------------
(***************************************************************************)
(* A reply of a LoopDW service (dwMessage and dwReply of bdMessage.cpp):   *)
(* it is put together in a byte buffer of fixed size, encrypted, and       *)
(* framed. The results' own serialize functions are represented by the     *)
(* fields they write.                                                      *)
(***************************************************************************)
EXTENDS bdByteBuffer

CONSTANT Capacity    (* size of the message's buffer: 131072 in the code   *)

-----------------------------------------------------------------------------
(* What the code writes *)

(* 0xDEADBEEF and the message's type, written without a data type.         *)
ReplyType == 1
Header(type) == Bytes(3735, 4) \o Bytes(type, 1)
ByteMessage(type) ==
  Write(Buffer([i \in 1..Capacity |-> Blank]), Header(type))

(* A field of a result: a number, a string, a blob or an array of u32.     *)
WriteField(b, f) ==
  CASE f.kind \in DOMAIN Scalar -> WriteScalar(b, f.kind, f.value)
    [] f.kind = "string"        -> WriteString(b, f.value)
    [] f.kind = "blob"          -> WriteBlob(b, f.value)
    [] f.kind = "array"         -> WriteArray(b, 8, Len(f.value) \div 4, f.value)

(* A result is the fields it writes; an error has neither type nor results.*)
ReplyHead(error, service, count) ==
  <<[kind |-> "u64", value |-> 8000], [kind |-> "u32", value |-> error]>>
    \o IF error # 0 THEN <<>>
       ELSE <<[kind |-> "byte", value |-> service], [kind |-> "u32", value |-> count],
              [kind |-> "u32", value |-> count]>>
dwReply(error, service, results) ==
  FoldLeft(WriteField, ByteMessage(ReplyType),
           ReplyHead(error, service, Len(results)) \o IF error = 0 THEN FlattenSeq(results) ELSE <<>>)

(* Encrypted: padded to a multiple of 8 with what the buffer holds.        *)
Send(b, key) ==
  LET padded == b.cur + ((8 - (b.cur % 8)) % 8)
  IN  Bytes(padded + 5, 4) \o Bytes(1, 1) \o Bytes(1337, 4)
        \o [i \in 1..padded |-> [key |-> key, byte |-> b.bytes[i]]]

(* The ticket service's answers are sent in the clear.                     *)
SendPlain(b, type) ==
  Bytes(b.cur + 2, 4) \o Bytes(0, 1) \o Bytes(type, 1) \o SubSeq(b.bytes, 1, b.cur)

-----------------------------------------------------------------------------
(* How the game takes a stream of such frames apart: by the length word    *)
(* alone (external, as the game's library does it).                        *)

Number32(stream) == Number(SubSeq(stream, 1, 4))
FirstFrame(stream) == SubSeq(stream, 1, 4 + Number32(stream))
Decrypt(frame, key) ==
  [i \in 1..Len(frame) - 9 |-> IF frame[i + 9].key = key THEN frame[i + 9].byte ELSE Blank]

ReadField(b, f) ==
  CASE f.kind \in DOMAIN Scalar -> ReadScalar(b, f.kind)
    [] f.kind = "string"        -> ReadString(b)
    [] f.kind = "blob"          -> ReadBlob(b)
    [] f.kind = "array"         -> ReadArray(b, 8)
Reads(f, r) ==
  /\ r.ok
  /\ f.value = IF f.kind \in DOMAIN Scalar THEN Number(r.data) ELSE r.data
  /\ f.kind = "array" => 4 * r.count = Len(r.data)

(* The game can read these fields, one after the other.                    *)
ReadsBack(b, fields) ==
  LET place[k \in 0..Len(fields)] ==
        IF k = 0 THEN b ELSE ReadField(place[k - 1], fields[k]).buf
  IN  \A k \in 1..Len(fields) : Reads(fields[k], ReadField(place[k - 1], fields[k]))
=============================================================================
