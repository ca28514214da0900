-------------------------------- MODULE MD5 ---------------------------------
(***************************************************************************)
(* MD5 of Utilities/md5.cpp. First how update and finalize cut what they   *)
(* are given into blocks: there transform, the digest's arithmetic, is     *)
(* represented by the blocks it was given, as two digests are the same     *)
(* when the same blocks went in in the same order. The context is the      *)
(* record of the blocks so far, the buffer and the two words of count.     *)
(* Then what transform makes of a block of 64 bytes; a word is the set of  *)
(* the places of its bits. As a part that runs, a context is given a       *)
(* message chunk by chunk.                                                 *)
(***************************************************************************)
EXTENDS Integers, Sequences, SequencesExt, FiniteSetsExt

CONSTANTS
  BlockSize,   (* 64                                                       *)
  LengthSize,  (* bytes of the number of bits at the end: 8                *)
  WordSize,    (* a word of count, a multiple of 8 * BlockSize: 2^32       *)
  ChunkSizes,  (* what a caller may have of the message at once            *)
  MaxGiven     (* bound: the length of the message                         *)

VARIABLES
  given,       (* the message so far                                       *)
  context

LOCAL Blank == <<"blank", 0>>

init == [blocks |-> <<>>, buffer |-> [i \in 1..BlockSize |-> Blank], count |-> <<0, 0>>]

(* memcpy of the input from place `from' on to the buffer after index.     *)
Fill(buffer, index, input, from, n) ==
  [i \in 1..BlockSize |-> IF i \in index + 1 .. index + n THEN input[from + i - index] ELSE buffer[i]]

(* The buffer is filled up and transformed, then whole blocks straight     *)
(* from the input; the rest is kept.                                       *)
update(c, input) ==
  LET length == Len(input)
      index  == (c.count[1] \div 8) % BlockSize
      first  == BlockSize - index
      full   == length >= first
      more   == IF full THEN (length - first) \div BlockSize ELSE 0
      whole  == IF full THEN first + more * BlockSize ELSE 0
      bits   == (8 * length) % WordSize
      low    == (c.count[1] + bits) % WordSize
      filled == IF full THEN Fill(c.buffer, index, input, 0, first) ELSE c.buffer
  IN  [blocks |-> IF full
                  THEN c.blocks \o <<filled>>
                         \o [k \in 1..more |-> SubSeq(input, first + (k - 1) * BlockSize + 1, first + k * BlockSize)]
                  ELSE c.blocks,
       buffer |-> Fill(filled, IF full THEN 0 ELSE index, input, whole, length - whole),
       count  |-> <<low, c.count[2] + (IF low < bits THEN 1 ELSE 0) + (8 * length) \div WordSize>>]

(* encode(bits, count, 8)                                                  *)
EncodedCount(count) == [k \in 1..LengthSize |-> <<"count", count, k>>]

Padding(n) == [k \in 1..n |-> IF k = 1 THEN <<"one", 0>> ELSE <<"zero", 0>>]

(* Mutant: the length counts the padding.                                 *)
finalize_Late(c) ==
  LET index  == (c.count[1] \div 8) % BlockSize
      place  == BlockSize - LengthSize
      n      == IF index < place THEN place - index ELSE place + BlockSize - index
      padded == update(c, Padding(n))
  IN  update(padded, EncodedCount(padded.count)).blocks

(* The digest: padded to the place of the length, the length from before   *)
(* the padding appended.                                                   *)
finalize(c) ==
  LET index == (c.count[1] \div 8) % BlockSize
      place == BlockSize - LengthSize
      n     == IF index < place THEN place - index ELSE place + BlockSize - index
  IN  update(update(c, Padding(n)), EncodedCount(c.count)).blocks

-----------------------------------------------------------------------------
(* transform *)

Places == 0..31

(* A constant, of its two halves.                                          *)
Halves(h) == {p \in Places : (h[IF p < 16 THEN 2 ELSE 1] \div 2^(p % 16)) % 2 = 1}

InitialState == [i \in 1..4 |-> Halves(<<<<\h6745, \h2301>>, <<\hefcd, \hab89>>, <<\h98ba, \hdcfe>>, <<\h1032, \h5476>>>>[i])]

(* Words of bytes and bytes of words, the low byte first.                  *)
decode(input) ==
  [i \in 1..Len(input) \div 4 |-> {p \in Places : (input[4 * (i - 1) + (p \div 8) + 1] \div 2^(p % 8)) % 2 = 1}]
encode(words) ==
  [j \in 1..4 * Len(words) |->
     LET place == 8 * ((j - 1) % 4)
         bits  == {p \in words[((j - 1) \div 4) + 1] : p \in place..place + 7}
     IN  SumSet({2^(p - place) : p \in bits})]

-----------------------------------------------------------------------------

Neg(x) == Places \ x
Xor(x, y) == (x \ y) \union (y \ x)

(* Modulo 2^32: the carry out of the last place is lost.                   *)
Add(x, y) ==
  LET carry[p \in Places] ==
        p > 0 /\ \/ p - 1 \in x /\ p - 1 \in y
                 \/ (p - 1 \in x \/ p - 1 \in y) /\ carry[p - 1]
  IN  {p \in Places : ((p \in x) # (p \in y)) # carry[p]}

F(x, y, z) == (x \intersect y) \union (Neg(x) \intersect z)
G(x, y, z) == (x \intersect z) \union (y \intersect Neg(z))
H(x, y, z) == Xor(Xor(x, y), z)
I(x, y, z) == Xor(y, x \union Neg(z))

(* Mutant: the bits that fall off on the left are lost.                    *)
rotate_left_Lost(x, n) == {p + n : p \in {q \in x : q + n < 32}}

rotate_left(x, n) == {(p + n) % 32 : p \in x}

(* FF, GG, HH and II.                                                      *)
Mixed(round, x, y, z) ==
  CASE round = 0 -> F(x, y, z) [] round = 1 -> G(x, y, z) [] round = 2 -> H(x, y, z) [] round = 3 -> I(x, y, z)
Step(round, a, b, c, d, x, s, ac) == Add(rotate_left(Add(Add(Add(a, Mixed(round, b, c, d)), x), Halves(ac)), s), b)

(* S11 .. S44, the words of the block in the order of each round, and the  *)
(* constants of the steps.                                                 *)
Shifts == <<<<7, 12, 17, 22>>, <<5, 9, 14, 20>>, <<4, 11, 16, 23>>, <<6, 10, 15, 21>>>>
Order == <<[i \in 0..15 |-> i], [i \in 0..15 |-> (5 * i + 1) % 16], [i \in 0..15 |-> (3 * i + 5) % 16],
           [i \in 0..15 |-> (7 * i) % 16]>>
Constants ==
  <<<<\hd76a, \ha478>>, <<\he8c7, \hb756>>, <<\h2420, \h70db>>, <<\hc1bd, \hceee>>, <<\hf57c, \h0faf>>, <<\h4787, \hc62a>>,
    <<\ha830, \h4613>>, <<\hfd46, \h9501>>, <<\h6980, \h98d8>>, <<\h8b44, \hf7af>>, <<\hffff, \h5bb1>>, <<\h895c, \hd7be>>,
    <<\h6b90, \h1122>>, <<\hfd98, \h7193>>, <<\ha679, \h438e>>, <<\h49b4, \h0821>>, <<\hf61e, \h2562>>, <<\hc040, \hb340>>,
    <<\h265e, \h5a51>>, <<\he9b6, \hc7aa>>, <<\hd62f, \h105d>>, <<\h0244, \h1453>>, <<\hd8a1, \he681>>, <<\he7d3, \hfbc8>>,
    <<\h21e1, \hcde6>>, <<\hc337, \h07d6>>, <<\hf4d5, \h0d87>>, <<\h455a, \h14ed>>, <<\ha9e3, \he905>>, <<\hfcef, \ha3f8>>,
    <<\h676f, \h02d9>>, <<\h8d2a, \h4c8a>>, <<\hfffa, \h3942>>, <<\h8771, \hf681>>, <<\h6d9d, \h6122>>, <<\hfde5, \h380c>>,
    <<\ha4be, \hea44>>, <<\h4bde, \hcfa9>>, <<\hf6bb, \h4b60>>, <<\hbebf, \hbc70>>, <<\h289b, \h7ec6>>, <<\heaa1, \h27fa>>,
    <<\hd4ef, \h3085>>, <<\h0488, \h1d05>>, <<\hd9d4, \hd039>>, <<\he6db, \h99e5>>, <<\h1fa2, \h7cf8>>, <<\hc4ac, \h5665>>,
    <<\hf429, \h2244>>, <<\h432a, \hff97>>, <<\hab94, \h23a7>>, <<\hfc93, \ha039>>, <<\h655b, \h59c3>>, <<\h8f0c, \hcc92>>,
    <<\hffef, \hf47d>>, <<\h8584, \h5dd1>>, <<\h6fa8, \h7e4f>>, <<\hfe2c, \he6e0>>, <<\ha301, \h4314>>, <<\h4e08, \h11a1>>,
    <<\hf753, \h7e82>>, <<\hbd3a, \hf235>>, <<\h2ad7, \hd2bb>>, <<\heb86, \hd391>>>>

(* Four steps at a time, each making one of the words anew: a, d, c, b.    *)
transform(state, block) ==
  LET x == decode(block)
      after[n \in 0..16] ==
        IF n = 0 THEN state
        ELSE LET s     == after[n - 1]
                 round == (n - 1) \div 4
                 New(i, a, b, c, d) ==
                   Step(round, a, b, c, d, x[Order[round + 1][(4 * ((n - 1) % 4)) + i - 1] + 1],
                        Shifts[round + 1][i], Constants[(4 * (n - 1)) + i])
                 a == New(1, s[1], s[2], s[3], s[4])
                 d == New(2, s[4], a, s[2], s[3])
                 c == New(3, s[3], d, a, s[2])
             IN  <<a, New(4, s[2], c, d, a), c, d>>
      final == after[16]
  IN  [k \in 1..4 |-> Add(state[k], final[k])]

(* The bytes of the digest, of the blocks update and finalize have cut.    *)
Digest(blocks) == encode(FoldLeft(transform, InitialState, blocks))

-----------------------------------------------------------------------------
(* RFC 1321: the message, one bit, zeros up to the place of the length,    *)
(* the length; in blocks.                                                  *)
RFCBlocks(message) ==
  LET n      == Len(message)
      zeros  == CHOOSE z \in 0..BlockSize - 1 : (n + 1 + z + LengthSize) % BlockSize = 0
      length == <<(8 * n) % WordSize, (8 * n) \div WordSize>>
      padded == message \o Padding(zeros + 1) \o EncodedCount(length)
  IN  [k \in 1..Len(padded) \div BlockSize |-> SubSeq(padded, (k - 1) * BlockSize + 1, k * BlockSize)]

-----------------------------------------------------------------------------
(* One message, in chunks of any size; no two of its bytes are alike.      *)

Init == given = <<>> /\ context = init

Chunk(length) == [k \in 1..length |-> <<"byte", Len(given) + k>>]

Next ==
  \E length \in ChunkSizes :
    /\ Len(given) + length <= MaxGiven
    /\ context' = update(context, Chunk(length))
    /\ given' = given \o Chunk(length)

(* A message cut into chunks in any way, and hashed chunk by chunk, has    *)
(* the blocks of the standard, whenever it ends.                           *)
ChunksAgree == finalize(context) = RFCBlocks(given)
=============================================================================
