---------------------------- MODULE bdByteBuffer ----------------------------
(***************************************************************************)
(* The typed byte buffer of DemonWare/bdByteBuffer.cpp as operators on a   *)
(* record: its bytes, _curByte, and _useDataTypes. _maxByte is the number  *)
(* of bytes; _dataTypePacking is never set. A byte is <<value, k>>, the    *)
(* k-th byte of a number, so that a number is found again only where all   *)
(* its bytes stand together and in order.                                  *)
(***************************************************************************)
EXTENDS Integers, Sequences, SequencesExt

Bytes(value, size) == [k \in 1..size |-> <<value, k>>]
Blank == <<-1, 0>>     (* a byte nobody has written                        *)
Garbled == -2
Number(bytes) ==
  IF bytes # <<>> /\ bytes = Bytes(bytes[1][1], Len(bytes)) THEN bytes[1][1] ELSE Garbled

(* Types and sizes of the plain values.                                    *)
Scalar ==
  [bool  |-> <<1, 1>>, byte |-> <<3, 1>>, u16 |-> <<6, 2>>,  i32   |-> <<7, 4>>,
   u32   |-> <<8, 4>>, i64  |-> <<9, 8>>, u64 |-> <<10, 8>>, float |-> <<13, 4>>]
StringType == 16
BlobType == 19
ArrayType(type) == type + 100

Buffer(bytes) == [bytes |-> bytes, cur |-> 0, types |-> TRUE]
Fits(b, n) == b.cur + n <= Len(b.bytes)
WithTypes(b, on) == [b EXCEPT !.types = on]

-----------------------------------------------------------------------------
(* Writing *)

(* Data that does not fit is left out; the result, FALSE, is seldom used.  *)
Write(b, data) ==
  IF Fits(b, Len(data))
  THEN [b EXCEPT !.bytes = SubSeq(@, 1, b.cur) \o data \o SubSeq(@, b.cur + Len(data) + 1, Len(@)),
                 !.cur = @ + Len(data)]
  ELSE b

WriteDataType(b, type) == IF b.types THEN Write(b, Bytes(type, 1)) ELSE b

(* writeByte to writeFloat: the data is written even if its type was not.  *)
WriteTyped(b, type, data) == Write(WriteDataType(b, type), data)
WriteScalar(b, kind, value) ==
  WriteTyped(b, Scalar[kind][1], Bytes(value, Scalar[kind][2]))

Nul == <<0, 1>>
WriteString(b, text) == WriteTyped(b, StringType, Append(text, Nul))

WriteBlob(b, data) ==
  Write(WriteScalar(WriteDataType(b, BlobType), "u32", Len(data)), data)

(* Mutant: data types stay off behind the array.                           *)
WriteArray_TypesOff(b, type, count, data) ==
  LET tagged == WriteScalar(WithTypes(b, FALSE), "byte", ArrayType(type))
      sized  == WriteScalar(WithTypes(tagged, TRUE), "u32", Len(data))
  IN  Write(WriteScalar(WithTypes(sized, FALSE), "u32", count), data)

(* Of the head only the size in bytes carries a type.                      *)
WriteArray(b, type, count, data) ==
  LET tagged  == WriteScalar(WithTypes(b, FALSE), "byte", ArrayType(type))
      sized   == WriteScalar(WithTypes(tagged, TRUE), "u32", Len(data))
      counted == WriteScalar(WithTypes(sized, FALSE), "u32", count)
  IN  WithTypes(Write(counted, data), b.types)

-----------------------------------------------------------------------------
(* Reading: the buffer afterwards, whether it succeeded, and what was read *)

Failed(b) == [buf |-> b, ok |-> FALSE, data |-> <<>>]

(* The bytes from _curByte on, as many as there are.                       *)
Window(b, n) ==
  LET last == b.cur + n IN SubSeq(b.bytes, b.cur + 1, IF last < Len(b.bytes) THEN last ELSE Len(b.bytes))

Read(b, n) ==
  IF Fits(b, n)
  THEN [buf |-> [b EXCEPT !.cur = @ + n], ok |-> TRUE, data |-> Window(b, n)]
  ELSE Failed(b)

(* At the end of the buffer the byte compared is an uninitialised local;   *)
(* whatever it holds, the read that follows fails.                         *)
Matched(tag, type) == [buf |-> tag.buf, ok |-> tag.ok /\ tag.data = Bytes(type, 1)]
ReadDataType(b, type) ==
  IF b.types THEN Matched(Read(b, 1), type) ELSE [buf |-> b, ok |-> TRUE]

(* readBoolean to readByte: a wrong type is logged and read over.          *)
ReadScalar(b, kind) ==
  Read(ReadDataType(b, Scalar[kind][1]).buf, Scalar[kind][2])

(* The size is strlen's, which goes on behind the buffer if there is no 0  *)
(* left in it: here there is one right behind.                             *)
StringUpTo(b, end) ==
  [buf |-> [b EXCEPT !.cur = @ + end], ok |-> TRUE, data |-> Window(b, end - 1)]
StringAt(b) ==
  StringUpTo(b, SelectInSeq(Append(Window(b, Len(b.bytes)), Nul), LAMBDA byte : byte = Nul))
ReadString(b) == StringAt(ReadDataType(b, StringType).buf)

(* The place moves on by the size found, the end of the buffer or not.     *)
Skipped(b, n) == [buf |-> [b EXCEPT !.cur = @ + n], ok |-> TRUE, data |-> Window(b, n)]
BlobOf(tag, size) ==
  IF tag.ok /\ size.ok THEN Skipped(size.buf, Number(size.data))
  ELSE Failed(IF tag.ok THEN size.buf ELSE tag.buf)
BlobBehind(tag) == BlobOf(tag, ReadScalar(tag.buf, "u32"))
ReadBlob(b) == BlobBehind(ReadDataType(b, BlobType))

(* Without an array at hand the types are restored, except where the       *)
(* number of elements is missing.                                          *)
ArrayOf(size, count, types) ==
  IF ~size.ok THEN Failed(WithTypes(size.buf, types))
  ELSE IF ~count.ok THEN Failed(count.buf)
  ELSE [buf   |-> WithTypes([count.buf EXCEPT !.cur = @ + Number(size.data)], types), ok |-> TRUE,
        count |-> Number(count.data), data |-> Window(count.buf, Number(size.data))]
ArraySized(size, types) == ArrayOf(size, ReadScalar(WithTypes(size.buf, FALSE), "u32"), types)
ArrayBehind(tag, type, types) ==
  IF tag.ok /\ Number(tag.data) = ArrayType(type)
  THEN ArraySized(ReadScalar(WithTypes(tag.buf, TRUE), "u32"), types)
  ELSE Failed(WithTypes(tag.buf, types))
ReadArray(b, type) == ArrayBehind(ReadScalar(WithTypes(b, FALSE), "byte"), type, b.types)
=============================================================================
