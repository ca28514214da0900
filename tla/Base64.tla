------------------------------- MODULE Base64 -------------------------------
(***************************************************************************)
(* Utilities/base64.cpp. A character of the encoding is its place in       *)
(* encoding_table, 0..63, or Pad for '='; so that decoding_table is the    *)
(* identity on it.                                                         *)
(***************************************************************************)
EXTENDS Integers, Sequences

CONSTANTS
  Octets,      (* 0..255                                                   *)
  MaxData      (* bound: the length of the data                            *)

VARIABLE data

Pad == 64
ModTable == <<0, 2, 1>>
At(octets, i) == IF i <= Len(octets) THEN octets[i] ELSE 0

EncodedLength(n) == 4 * ((n + 2) \div 3)

(* Mutant: the number of signs that pad is taken without the table.        *)
Encode_ModOnly(octets) ==
  LET length == EncodedLength(Len(octets))
      Triple(g) == 65536 * At(octets, 3 * g + 1) + 256 * At(octets, 3 * g + 2) + At(octets, 3 * g + 3)
  IN  [j \in 1..length |->
         IF j > length - (Len(octets) % 3) THEN Pad
         ELSE (Triple((j - 1) \div 4) \div 64 ^ (3 - ((j - 1) % 4))) % 64]

(* Groups of three octets, each four sextets; the last ones are replaced.  *)
Encode(octets) ==
  LET length == EncodedLength(Len(octets))
      Triple(g) == 65536 * At(octets, 3 * g + 1) + 256 * At(octets, 3 * g + 2) + At(octets, 3 * g + 3)
  IN  [j \in 1..length |->
         IF j > length - ModTable[(Len(octets) % 3) + 1] THEN Pad
         ELSE (Triple((j - 1) \div 4) \div 64 ^ (3 - ((j - 1) % 4))) % 64]

Refused == <<-1>>     (* NULL                                              *)

(* The two signs before the end of an empty text lie outside of it, which  *)
(* is why only texts that have an end are decoded here.                    *)
Decode(text) ==
  LET n == Len(text)
      Padded(i) == IF text[i] = Pad THEN 1 ELSE 0
      length == (n \div 4) * 3 - Padded(n) - Padded(n - 1)
      Sextet(i) == IF text[i] = Pad THEN 0 ELSE text[i]
      Triple(g) == 262144 * Sextet(4 * g + 1) + 4096 * Sextet(4 * g + 2)
                     + 64 * Sextet(4 * g + 3) + Sextet(4 * g + 4)
  IN  IF n % 4 # 0 THEN Refused
      ELSE [j \in 1..length |-> (Triple((j - 1) \div 3) \div 256 ^ (2 - ((j - 1) % 3))) % 256]

-----------------------------------------------------------------------------
(* RFC 4648: the bits of the data, six by six, zeros behind the last ones. *)
Bit(octets, i) == (At(octets, (i \div 8) + 1) \div 2 ^ (7 - (i % 8))) % 2
RFCSextets(octets) ==
  [j \in 1..(8 * Len(octets) + 5) \div 6 |->
     LET bit(k) == Bit(octets, 6 * (j - 1) + k)
     IN  32 * bit(0) + 16 * bit(1) + 8 * bit(2) + 4 * bit(3) + 2 * bit(4) + bit(5)]

-----------------------------------------------------------------------------
(* The data, put together octet by octet.                                  *)

Init == data = <<>>

Next == \E octet \in Octets : Len(data) < MaxData /\ data' = Append(data, octet)

(* Every text but the empty one is decoded to what was encoded, by the     *)
(* standard's alphabet and padding.                                        *)
Base64Inverse ==
  LET text     == Encode(data)
      sextets  == RFCSextets(data)
  IN  data # <<>> =>
        /\ Decode(text) = data
        /\ text = sextets \o [i \in 1..(4 - (Len(sextets) % 4)) % 4 |-> Pad]
=============================================================================
