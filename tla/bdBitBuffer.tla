---------------------------- MODULE bdBitBuffer -----------------------------
(***************************************************************************)
(* The bit buffer of DemonWare/bdBitBuffer.cpp, with the masks and shifts  *)
(* of the code on bytes 0..255. A buffer is the record of its bytes,       *)
(* _curBit, _maxBit and _useDataTypes. Data is a sequence of bytes, the    *)
(* low one first.                                                          *)
(***************************************************************************)
EXTENDS Integers, Sequences, Bitwise

Byte == 0..255
AsByte(x) == x % 256
LOCAL Least(x, y) == IF x < y THEN x ELSE y

BitBuffer(bytes) == [bytes |-> bytes, cur |-> 0, max |-> 8 * Len(bytes), types |-> TRUE]
WithBitTypes(b, on) == [b EXCEPT !.types = on]
BitLength(b) == (b.cur \div 8) + (IF b.cur % 8 # 0 THEN 1 ELSE 0)

(* Mutant: the bits before the place are not kept.                         *)
Mask_NoLow(bitPos, n) == AsByte(255 * 2^(bitPos + n))

(* What of the byte at hand is kept: the bits before and after the piece.  *)
Mask(bitPos, n) == AsByte((255 \div 2^(8 - bitPos)) | (255 * 2^(bitPos + n)))

(* One turn of the loop: a piece of the data, at most up to the end of the *)
(* byte at hand; left is how many bits of the data are left.               *)
WritePiece(b, bits, data, left) ==
  LET bitPos  == b.cur % 8
      n       == Least(left, 8 - bitPos)
      at      == (b.cur \div 8) + 1
      mask    == Mask(bitPos, n)
      done    == bits - left
      thisBit == done % 8
      from    == (done \div 8) + 1
      next    == IF (bits - 1) \div 8 > from - 1 THEN data[from + 1] ELSE 0
      this    == AsByte((next * 2^(8 - thisBit)) | (data[from] \div 2^thisBit))
      out     == ((255 - mask) & AsByte(this * 2^bitPos)) | (mask & b.bytes[at])
  IN  [b EXCEPT !.bytes[at] = out, !.cur = @ + n,
                !.max = IF @ < b.cur + n THEN b.cur + n ELSE @]

RECURSIVE WriteFrom(_, _, _, _)
WriteFrom(b, bits, data, left) ==
  IF left <= 0 THEN b
  ELSE WriteFrom(WritePiece(b, bits, data, left), bits, data, left - Least(left, 8 - (b.cur % 8)))

(* There is no test of the end: the caller's buffer has to be long enough. *)
WriteBits(b, bits, data) == WriteFrom(b, bits, data, bits)

WriteBitType(b, type) == IF b.types THEN WriteBits(b, 5, <<type>>) ELSE b
WriteBoolean(b, value) == WriteBits(WriteBitType(b, 1), 1, <<value>>)
WriteInt32(b, data) == WriteBits(WriteBitType(b, 7), 32, data)
WriteUInt32(b, data) == WriteBits(WriteBitType(b, 8), 32, data)
WriteBytes(b, data) == WriteBits(b, 8 * Len(data), data)

-----------------------------------------------------------------------------
(* Reading: [buf, ok, data] as in bdByteBuffer *)

(* The bits of the piece of n that starts within a byte.                   *)
ReadPiece(b, place, n) ==
  LET this   == b.bytes[(place \div 8) + 1]
      remain == place % 8
      ones   == 255 \div 2^(8 - n)
  IN  IF n + remain <= 8 THEN ones & (this \div 2^remain)
      ELSE AsByte((ones & AsByte(b.bytes[(place \div 8) + 2] * 2^(8 - remain))) | (this \div 2^remain))

ReadFrom(b, place, bits) ==
  [k \in 1..(bits + 7) \div 8 |-> ReadPiece(b, place + 8 * (k - 1), Least(bits - 8 * (k - 1), 8))]

ReadBits(b, bits) ==
  IF bits = 0 \/ b.cur + bits > b.max THEN [buf |-> b, ok |-> FALSE, data |-> <<>>]
  ELSE [buf |-> [b EXCEPT !.cur = @ + bits], ok |-> TRUE, data |-> ReadFrom(b, b.cur, bits)]

Matched(tag, type) == [buf |-> tag.buf, ok |-> tag.ok /\ tag.data = <<type>>]
ReadBitType(b, type) ==
  IF b.types THEN Matched(ReadBits(b, 5), type) ELSE [buf |-> b, ok |-> TRUE]

(* readUInt32 and readBoolean: unlike in the byte buffer, a wrong type     *)
(* ends the read.                                                          *)
ReadAfter(tag, bits) ==
  IF tag.ok THEN ReadBits(tag.buf, bits) ELSE [buf |-> tag.buf, ok |-> FALSE, data |-> <<>>]
ReadTyped(b, type, bits) == ReadAfter(ReadBitType(b, type), bits)
ReadBoolean(b) == ReadTyped(b, 1, 1)
ReadUInt32(b) == ReadTyped(b, 8, 32)
ReadBytes(b, n) == ReadBits(b, 8 * n)
=============================================================================
