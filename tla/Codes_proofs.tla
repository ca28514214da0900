---------------------------- MODULE Codes_proofs ----------------------------
(***************************************************************************)
(* What MD5, Base64, the info strings and the list of dvars compute,       *)
(* proved for every length and every value of the constants: each of these *)
(* parts has an inductive invariant, and what it is asked for follows from *)
(* it. Parts_proofs has the parts that are not pure.                       *)
(***************************************************************************)
EXTENDS Parts, SequenceTheorems, NaturalsInduction, WellFoundedInduction, TLAPS

-----------------------------------------------------------------------------
(* Arithmetic and sequences *)

(* A quotient and a remainder are the ones a division has.                 *)
LEMMA DivIs ==
  ASSUME NEW a \in Int, NEW b \in Nat \ {0}, NEW q \in Int, NEW r \in 0..b - 1, a = q * b + r
  PROVE  a \div b = q /\ a % b = r
OBVIOUS

(* Every number has a quotient and a remainder.                            *)
LEMMA DivFound ==
  ASSUME NEW a \in Nat, NEW b \in Nat \ {0}
  PROVE  /\ a \div b \in Nat /\ a % b \in 0..b - 1
         /\ a = (a \div b) * b + (a % b)
<1>1. a % b \in 0..b - 1
  OBVIOUS
<1>2. a = (a \div b) * b + (a % b)
  OBVIOUS
<1>3. a \div b \in Int
  OBVIOUS
<1>4. (a \div b) >= 0
  <2> DEFINE q == a \div b
  <2> HIDE DEF q
  <2>1. q \in Int /\ a = q * b + (a % b)
    BY <1>2, <1>3 DEF q
  <2>2. CASE q <= -1
    <3>1. q * b <= (-1) * b
      BY <2>1, <2>2
    <3> QED
      BY <3>1, <2>1, <1>1
  <2> QED
    BY <2>1, <2>2 DEF q
<1> QED
  BY <1>1, <1>2, <1>3, <1>4

(* Multiplying keeps the order.                                            *)
LEMMA MulMono ==
  ASSUME NEW a \in Int, NEW b \in Int, NEW c \in Nat, a <= b
  PROVE  a * c <= b * c
OBVIOUS

(* The count of bits, which wraps, tells where in its block a byte goes.   *)
LEMMA IndexIs ==
  ASSUME NEW len \in Nat, NEW B \in Nat \ {0}, NEW M \in Nat \ {0}, NEW W, W = M * (8 * B)
  PROVE  (((8 * len) % W) \div 8) % B = len % B
<1>1. W \in Nat \ {0}
  OBVIOUS
<1>2. PICK Q \in Nat, R \in Nat : 8 * len = Q * W + R /\ R = (8 * len) % W
  <2>1. 8 * len \in Nat
    OBVIOUS
  <2>2. \A a \in Nat, b \in Nat \ {0} :
          /\ a \div b \in Nat /\ a % b \in Nat /\ a = (a \div b) * b + (a % b)
    BY DivFound
  <2>3. /\ (8 * len) \div W \in Nat /\ (8 * len) % W \in Nat
        /\ 8 * len = ((8 * len) \div W) * W + ((8 * len) % W)
    BY <1>1, <2>1, <2>2, Zenon
  <2> QED
    BY <2>3
<1>3. PICK q \in Nat, r \in 0..B - 1 : len = q * B + r /\ r = len % B
  BY DivFound
<1>4. PICK P \in Int : P = Q * M * B /\ Q * W = 8 * P
  OBVIOUS
<1>5. Q * M \in Int /\ Q * M * B \in Int
  OBVIOUS
<1>6. R = (len - P) * 8 + 0
  <2>1. 8 * len = 8 * P + R
    BY <1>2, <1>4, Zenon
  <2> QED
    BY <2>1
<1>7. R \div 8 = len - P
  BY <1>6, SMT
<1>8. len - P = (q - Q * M) * B + r
  <2>1. (q - Q * M) * B = q * B - P
    BY <1>4, <1>5
  <2> QED
    BY <2>1, <1>3, <1>4
<1>9. (len - P) % B = r
  <2>1. q - Q * M \in Int
    BY <1>5
  <2> QED
    BY <1>8, <2>1, DivIs
<1> QED
  BY <1>2, <1>3, <1>7, <1>9

(* What two sequences joined hold.                                         *)
LEMMA JoinIs ==
  ASSUME NEW S, NEW s \in Seq(S), NEW t \in Seq(S)
  PROVE  /\ s \o t \in Seq(S) /\ Len(s \o t) = Len(s) + Len(t)
         /\ \A k \in 1..Len(s) : (s \o t)[k] = s[k]
         /\ \A k \in 1..Len(t) : (s \o t)[Len(s) + k] = t[k]
BY ConcatProperties

(* What a part of a sequence holds.                                        *)
LEMMA SubSeqIs ==
  ASSUME NEW S, NEW s \in Seq(S), NEW a \in Nat, NEW b \in Nat, a + b <= Len(s)
  PROVE  SubSeq(s, a + 1, a + b) = [i \in 1..b |-> s[a + i]]
<1>1. SubSeq(s, a + 1, a + b) = [i \in 1..(a + b) - (a + 1) + 1 |-> s[a + 1 + i - 1]]
  BY SubSeqProperties
<1>2. (a + b) - (a + 1) + 1 = b
  OBVIOUS
<1> QED
  BY <1>1, <1>2

-----------------------------------------------------------------------------
(* MD5 in chunks *)

(* A word holds a number of blocks, in bits.                               *)
LEMMA BlockFacts ==
  /\ DigestBlock \in Nat \ {0} /\ DigestLength \in 0..DigestBlock
  /\ \E m \in Nat \ {0} : DigestWord = m * (8 * DigestBlock)
  /\ ChunkSizes \subseteq Nat
<1>1. PICK b \in Nat \ {0} : b = 8 * DigestBlock
  BY DigestAssumption
<1>2. DigestWord \in Nat \ {0} /\ DigestWord % b = 0
  BY <1>1, DigestAssumption
<1>3. PICK m \in Nat : m = DigestWord \div b /\ DigestWord = m * b + (DigestWord % b)
  BY <1>1, <1>2, DivFound
<1>4. DigestWord = m * b
  <2>1. m * b \in Int
    BY <1>1
  <2> QED
    BY <1>2, <1>3, <2>1
<1>5. m # 0
  BY <1>1, <1>2, <1>4
<1> QED
  BY <1>1, <1>4, <1>5, DigestAssumption

(* The whole blocks of a message.                                          *)
Cut(m) == [k \in 1..Len(m) \div DigestBlock |-> SubSeq(m, (k - 1) * DigestBlock + 1, k * DigestBlock)]

(* What a context holds of the message it was given.                       *)
Holds(c, m) ==
  /\ c = [blocks |-> c.blocks, buffer |-> c.buffer, count |-> c.count]
  /\ c.blocks = Cut(m)
  /\ DOMAIN c.buffer = 1..DigestBlock
  /\ \A i \in 1..Len(m) % DigestBlock : c.buffer[i] = m[(Len(m) \div DigestBlock) * DigestBlock + i]
  /\ c.count = <<(8 * Len(m)) % DigestWord, (8 * Len(m)) \div DigestWord>>

(* The two words of the count are those of the bits of both.               *)
LEMMA CountHolds ==
  ASSUME NEW len \in Nat, NEW l \in Nat, NEW W \in Nat \ {0}
  PROVE  LET bits == (8 * l) % W
             low  == (((8 * len) % W) + bits) % W
         IN  /\ low = (8 * (len + l)) % W
             /\ ((8 * len) \div W) + (IF low < bits THEN 1 ELSE 0) + ((8 * l) \div W) = (8 * (len + l)) \div W
<1>1. PICK a \in Nat, b \in 0..W - 1 : 8 * len = a * W + b /\ a = (8 * len) \div W /\ b = (8 * len) % W
  <2>1. 8 * len \in Nat
    OBVIOUS
  <2> QED
    BY <2>1, DivFound
<1>2. PICK c \in Nat, d \in 0..W - 1 : 8 * l = c * W + d /\ c = (8 * l) \div W /\ d = (8 * l) % W
  <2>1. 8 * l \in Nat
    OBVIOUS
  <2> QED
    BY <2>1, DivFound
<1>3. (a + c) * W = a * W + c * W /\ (a + c + 1) * W = a * W + c * W + W /\ a * W \in Int /\ c * W \in Int
  OBVIOUS
<1>0. \A x, q \in Int, r \in 0..W - 1 : x = q * W + r => x \div W = q /\ x % W = r
  BY DivIs
<1>4. CASE b + d < W
  <2>1. b + d = 0 * W + (b + d) /\ 8 * (len + l) = (a + c) * W + (b + d)
    BY <1>1, <1>2, <1>3
  <2>2. (b + d) % W = b + d /\ (8 * (len + l)) % W = b + d /\ (8 * (len + l)) \div W = a + c
    <3>1. b + d \in 0..W - 1 /\ b + d \in Int /\ 0 \in Int /\ a + c \in Int /\ 8 * (len + l) \in Int
      BY <1>4
    <3>2. (b + d) % W = b + d
      BY <1>0, <2>1, <3>1, Zenon
    <3>3. \A x \in Int : x = (a + c) * W + (b + d) => x \div W = a + c /\ x % W = b + d
      BY <1>0, <3>1, Zenon
    <3>4. (8 * (len + l)) % W = b + d /\ (8 * (len + l)) \div W = a + c
      BY <3>3, <2>1, <3>1
    <3> QED
      BY <3>2, <3>4
  <2> QED
    BY <1>1, <1>2, <2>2
<1>5. CASE b + d >= W
  <2>1. b + d = 1 * W + (b + d - W) /\ 8 * (len + l) = (a + c + 1) * W + (b + d - W)
    BY <1>1, <1>2, <1>3
  <2>2. (b + d) % W = b + d - W /\ (8 * (len + l)) % W = b + d - W /\ (8 * (len + l)) \div W = a + c + 1
    <3>1. b + d - W \in 0..W - 1 /\ a + c + 1 \in Int /\ 8 * (len + l) \in Int /\ b + d \in Int /\ 1 \in Int
      BY <1>5
    <3>2. (b + d) % W = b + d - W
      BY <1>0, <2>1, <3>1, Zenon
    <3>3. \A x \in Int : x = (a + c + 1) * W + (b + d - W) => x \div W = a + c + 1 /\ x % W = b + d - W
      BY <1>0, <3>1, Zenon
    <3>4. (8 * (len + l)) % W = b + d - W /\ (8 * (len + l)) \div W = a + c + 1
      BY <3>3, <2>1, <3>1
    <3> QED
      BY <3>2, <3>4
  <2> QED
    BY <1>1, <1>2, <2>2
<1> QED
  BY <1>4, <1>5

(* A block is so many bytes in a row.                                      *)
LEMMA CutAt ==
  ASSUME NEW S, NEW m \in Seq(S), NEW k \in 1..Len(m) \div DigestBlock
  PROVE  /\ k * DigestBlock \in 0..Len(m) /\ (k - 1) * DigestBlock \in 0..Len(m)
         /\ Cut(m)[k] = [i \in 1..DigestBlock |-> m[(k - 1) * DigestBlock + i]]
<1>0. DigestBlock \in Nat \ {0} /\ Len(m) \in Nat
  BY BlockFacts
<1>1. PICK q \in Nat, r \in 0..DigestBlock - 1 :
        Len(m) = q * DigestBlock + r /\ q = Len(m) \div DigestBlock
  BY <1>0, DivFound
<1>2. (k - 1) * DigestBlock = k * DigestBlock - DigestBlock /\ k * DigestBlock \in Int /\ k \in Int
  BY <1>0
<1>3. k * DigestBlock <= q * DigestBlock
  BY <1>0, <1>1, MulMono
<1>4. k * DigestBlock >= DigestBlock
  <2>1. 1 * DigestBlock <= k * DigestBlock
    BY <1>0, <1>2, MulMono
  <2> QED
    BY <2>1, <1>0
<1>5. k * DigestBlock \in 0..Len(m) /\ (k - 1) * DigestBlock \in 0..Len(m) /\ q * DigestBlock \in Int
  BY <1>0, <1>1, <1>2, <1>3, <1>4
<1>6. SubSeq(m, (k - 1) * DigestBlock + 1, k * DigestBlock) = [i \in 1..DigestBlock |-> m[(k - 1) * DigestBlock + i]]
  <2>1. PICK a \in 0..Len(m), b \in 0..Len(m) :
          a = (k - 1) * DigestBlock /\ b = k * DigestBlock /\ a = b - DigestBlock
    BY <1>2, <1>5, Zenon
  <2>3. b - (a + 1) + 1 = DigestBlock /\ a + 1 \in Int /\ b \in Int /\ \A i \in a + 1..b : i \in 1..Len(m)
    BY <2>1, <1>0
  <2>2. SubSeq(m, a + 1, b) = [i \in 1..b - (a + 1) + 1 |-> m[a + 1 + i - 1]]
    <3>1. \A i \in a + 1..b : m[i] \in S
      BY <2>3
    <3>2. /\ SubSeq(m, a + 1, b) \in Seq(S) /\ Len(SubSeq(m, a + 1, b)) = DigestBlock
          /\ \A i \in 1..b - (a + 1) + 1 : SubSeq(m, a + 1, b)[i] = m[a + 1 + i - 1]
      BY <1>0, <2>1, <2>3, <3>1, SubSeqProperties
    <3> QED
      BY <2>3, <3>2
  <2>4. SubSeq(m, a + 1, b) = [i \in 1..DigestBlock |-> m[a + i]]
    BY <2>1, <2>2, <2>3, <1>0
  <2> QED
    BY <2>1, <2>4, Zenon
<1> QED
  BY <1>5, <1>6 DEF Cut

(* All of them at once.                                                    *)
LEMMA CutWhole ==
  ASSUME NEW S, NEW m \in Seq(S)
  PROVE  \A k \in 1..Len(m) \div DigestBlock : Cut(m)[k] = [i \in 1..DigestBlock |-> m[(k - 1) * DigestBlock + i]]
<1> SUFFICES ASSUME NEW k \in 1..Len(m) \div DigestBlock
             PROVE  Cut(m)[k] = [i \in 1..DigestBlock |-> m[(k - 1) * DigestBlock + i]]
  OBVIOUS
<1> QED
  BY CutAt

(* Given more, a context holds both, block by block and byte by byte.      *)
LEMMA UpdateHolds ==
  ASSUME NEW S, NEW m \in Seq(S), NEW chunk \in Seq(S), NEW c, Holds(c, m)
  PROVE  Holds(Digest!update(c, chunk), m \o chunk)
<1> DEFINE B == DigestBlock
           len == Len(m)
           l == Len(chunk)
           mm == m \o chunk
<1>0. B \in Nat \ {0} /\ len \in Nat /\ l \in Nat
  BY BlockFacts
<1>1. PICK q \in Nat, r \in 0..B - 1 : len = q * B + r /\ q = len \div B /\ r = len % B
  BY <1>0, DivFound
<1>2. mm \in Seq(S) /\ Len(mm) = len + l /\ (\A j \in 1..len : mm[j] = m[j]) /\ \A j \in 1..l : mm[len + j] = chunk[j]
  BY ConcatProperties
<1>c. \A k \in 1..Len(mm) \div DigestBlock : Cut(mm)[k] = [i \in 1..DigestBlock |-> mm[(k - 1) * DigestBlock + i]]
  BY <1>2, CutWhole, Zenon
<1>3. (c.count[1] \div 8) % B = r
  <2>1. PICK k \in Nat \ {0} : DigestWord = k * (8 * B)
    BY BlockFacts
  <2>2. c.count[1] = (8 * len) % DigestWord
    BY DEF Holds
  <2>3. (((8 * len) % DigestWord) \div 8) % B = len % B
    <3>1. \A a \in Nat, b, M \in Nat \ {0} : \A W : W = M * (8 * b) => (((8 * a) % W) \div 8) % b = a % b
      BY IndexIs, Zenon
    <3> HIDE DEF B, len
    <3>2. \A W : W = k * (8 * B) => (((8 * len) % W) \div 8) % B = len % B
      BY <1>0, <3>1
    <3> QED
      BY <2>1, <3>2
  <2> QED
    BY <1>1, <2>2, <2>3, Zenon
<1>4. DigestWord \in Nat \ {0}
  BY BlockFacts
<1>5. Digest!update(c, chunk).count = <<(8 * Len(mm)) % DigestWord, (8 * Len(mm)) \div DigestWord>>
  <2>1. c.count = <<(8 * len) % DigestWord, (8 * len) \div DigestWord>>
    BY DEF Holds
  <2> DEFINE bits == (8 * l) % DigestWord
             low  == (((8 * len) % DigestWord) + bits) % DigestWord
  <2>4. /\ low = (8 * (len + l)) % DigestWord
        /\ ((8 * len) \div DigestWord) + (IF low < bits THEN 1 ELSE 0) + ((8 * l) \div DigestWord)
             = (8 * (len + l)) \div DigestWord
    BY <1>0, <1>4, CountHolds
  <2>2. Digest!update(c, chunk).count =
          <<(c.count[1] + bits) % DigestWord,
            c.count[2] + (IF (c.count[1] + bits) % DigestWord < bits THEN 1 ELSE 0) + ((8 * l) \div DigestWord)>>
    BY DEF Digest!update
  <2>3. c.count[1] = (8 * len) % DigestWord /\ c.count[2] = (8 * len) \div DigestWord
    BY <2>1
  <2> QED
    BY <1>2, <2>2, <2>3, <2>4
<1>6. PICK base \in Nat : base = q * B
  BY <1>0, <1>1
<1>7. len = base + r /\ r \in 0..B - 1
  BY <1>1, <1>6, Zenon
<1>8. /\ c.blocks = Cut(m) /\ DOMAIN c.buffer = 1..B
      /\ \A i \in 1..r : c.buffer[i] = m[base + i]
  BY <1>1, <1>6 DEF Holds
<1>9. /\ Len(Cut(m)) = q
      /\ \A k \in 1..q : \E a \in Nat : /\ a = (k - 1) * B /\ a + B \in 0..len
                                        /\ Cut(m)[k] = [i \in 1..B |-> m[a + i]]
  <2>1. Cut(m) = [k \in 1..q |-> SubSeq(m, (k - 1) * DigestBlock + 1, k * DigestBlock)]
    BY <1>1, Zenon DEF Cut
  <2>2. Len(Cut(m)) = q
    BY <2>1
  <2>3. ASSUME NEW k \in 1..q
        PROVE  \E a \in Nat : /\ a = (k - 1) * B /\ a + B \in 0..len
                             /\ Cut(m)[k] = [i \in 1..B |-> m[a + i]]
    <3>1. k \in 1..Len(m) \div DigestBlock
      BY <1>1, Zenon
    <3>2. /\ k * DigestBlock \in 0..Len(m) /\ (k - 1) * DigestBlock \in 0..Len(m)
          /\ Cut(m)[k] = [i \in 1..DigestBlock |-> m[(k - 1) * DigestBlock + i]]
      BY <3>1, CutAt, SMTT(30)
    <3>3. (k - 1) * B + B = k * B
      BY <1>0, <1>1
    <3>4. (k - 1) * DigestBlock \in Nat
      BY <3>2
    <3> QED
      BY <3>2, <3>3, <3>4, Zenon
  <2> QED
    BY <2>2, <2>3
<1>10. Digest!update(c, chunk) = [blocks |-> Digest!update(c, chunk).blocks, buffer |-> Digest!update(c, chunk).buffer,
                           count |-> Digest!update(c, chunk).count]
  BY DEF Digest!update
<1>b. Len(mm) = len + l /\ len + l \in Int
  BY <1>0, <1>2
<1>a. \A x, k \in Int, s \in 0..B - 1 : x = k * B + s => x \div B = k /\ x % B = s
  BY <1>0, DivIs
<1>11. CASE l < B - r
  <2>1. /\ Digest!update(c, chunk).blocks = c.blocks
        /\ Digest!update(c, chunk).buffer = Digest!Fill(c.buffer, r, chunk, 0, l)
    BY <1>0, <1>3, <1>7, <1>11 DEF Digest!update
  <2>2. Len(mm) = base + (r + l) /\ r + l \in 0..B - 1 /\ Len(mm) \in Int
    BY <1>0, <1>2, <1>7, <1>11
  <2>3. Len(mm) \div B = q /\ Len(mm) % B = r + l
    <3>1. Len(mm) = q * B + (r + l)
      BY <2>2, <1>6, Zenon
    <3>2. q \in Int
      BY <1>1
    <3> QED
      BY <1>a, <2>2, <3>1, <3>2, Zenon
  <2>4. Cut(mm) = Cut(m)
    <3>1. \A k \in 1..q : Cut(mm)[k] = Cut(m)[k]
      <4> SUFFICES ASSUME NEW k \in 1..q
                   PROVE  Cut(mm)[k] = Cut(m)[k]
        OBVIOUS
      <4>1. PICK a \in Nat : /\ a = (k - 1) * B /\ a + B \in 0..len
                             /\ Cut(m)[k] = [i \in 1..B |-> m[a + i]]
        BY <1>9
      <4>2. Cut(mm)[k] = [i \in 1..B |-> mm[a + i]]
        <5>1. k \in 1..Len(mm) \div DigestBlock
          BY <2>3, Zenon
        <5>2. Cut(mm)[k] = [i \in 1..DigestBlock |-> mm[(k - 1) * DigestBlock + i]]
          BY <1>c, <5>1, Zenon
        <5> QED
          BY <4>1, <5>2
      <4>3. \A i \in 1..B : mm[a + i] = m[a + i]
        <5>1. a + B \in 0..len
          BY <4>1
        <5>2. \A i \in 1..B : a + i \in 1..len
          BY <1>0, <5>1
        <5> QED
          BY <1>2, <5>2
      <4> QED
        BY <4>1, <4>2, <4>3, Zenon
    <3> QED
      BY <1>1, <2>3, <3>1 DEF Cut
  <2>5. \A i \in 1..r + l : Digest!Fill(c.buffer, r, chunk, 0, l)[i] = mm[base + i]
    <3> SUFFICES ASSUME NEW i \in 1..r + l
                 PROVE  Digest!Fill(c.buffer, r, chunk, 0, l)[i] = mm[base + i]
      OBVIOUS
    <3>1. i \in 1..B
      BY <1>0, <1>7, <2>2
    <3>2. CASE i <= r
      <4>1. base + i \in 1..len /\ i \in 1..r
        BY <1>0, <1>7, <3>2
      <4>2. Digest!Fill(c.buffer, r, chunk, 0, l)[i] = c.buffer[i]
        BY <1>0, <1>7, <3>1, <3>2 DEF Digest!Fill
      <4> QED
        BY <1>2, <1>8, <4>1, <4>2
    <3>3. CASE i > r
      <4>1. base + i = len + (i - r) /\ i - r \in 1..l
        BY <1>0, <1>7, <3>3
      <4>2. Digest!Fill(c.buffer, r, chunk, 0, l)[i] = chunk[i - r]
        BY <1>0, <1>7, <3>1, <3>3 DEF Digest!Fill
      <4> QED
        BY <1>2, <4>1, <4>2
    <3> QED
      BY <3>2, <3>3, <1>7
  <2>6. DOMAIN Digest!Fill(c.buffer, r, chunk, 0, l) = 1..B
    BY DEF Digest!Fill
  <2> QED
    BY <1>5, <1>6, <1>8, <1>10, <2>1, <2>3, <2>4, <2>5, <2>6 DEF Holds
<1>12. CASE l >= B - r
  <2> DEFINE first == B - r
             fill == Digest!Fill(c.buffer, r, chunk, 0, first)
  <2>1. first \in 1..l /\ l - first \in Nat /\ len + first = base + B
    BY <1>0, <1>7, <1>12
  <2>2. PICK p \in Nat, rest \in 0..B - 1 :
          l - first = p * B + rest /\ p = (l - first) \div B /\ rest = (l - first) % B
    BY <1>0, <2>1, DivFound
  <2>3. PICK sz \in Nat : sz = p * B
    BY <1>0, <2>2
  <2>4. l - first = sz + rest /\ rest \in 0..B - 1
    BY <2>2, <2>3, Zenon
  <2>5. /\ Digest!update(c, chunk).blocks =
             c.blocks \o <<fill>>
               \o [k \in 1..p |-> SubSeq(chunk, first + (k - 1) * B + 1, first + k * B)]
        /\ Digest!update(c, chunk).buffer = Digest!Fill(fill, 0, chunk, first + p * B, l - (first + p * B))
    <3>1. l >= DigestBlock - ((c.count[1] \div 8) % DigestBlock)
      BY <1>3, <1>12, Zenon
    <3>2. p = (l - (DigestBlock - ((c.count[1] \div 8) % DigestBlock))) \div DigestBlock
      BY <1>3, <2>2, Zenon
    <3> QED
      BY <1>3, <3>1, <3>2 DEF Digest!update
  <2>6. l - (first + p * B) = rest /\ first + p * B = first + sz
    <3>1. first + p * B = first + sz
      BY <2>3, Zenon
    <3>2. l - (first + sz) = rest
      BY <1>0, <1>7, <2>1, <2>4
    <3> QED
      BY <3>1, <3>2, Zenon
  <2>14. (q + 1 + p) * B = base + B + sz
    <3>1. (q + 1 + p) * B = q * B + B + p * B
      BY <1>0
    <3> QED
      BY <3>1, <1>6, <2>3, Zenon
  <2>7. Len(mm) \div B = q + 1 + p /\ Len(mm) % B = rest
    <3>1. (q + 1 + p) * B = base + B + sz
      BY <2>14, Zenon
    <3>2. Len(mm) = base + B + sz + rest
      BY <1>0, <1>b, <1>7, <2>1, <2>4
    <3>3. Len(mm) = (q + 1 + p) * B + rest
      BY <3>1, <3>2, Zenon
    <3>4. q + 1 + p \in Int /\ Len(mm) \in Int
      BY <1>0, <1>b
    <3> QED
      BY <1>a, <2>4, <3>3, <3>4, Zenon
  <2>8. \A i \in 1..B : fill[i] = mm[base + i]
    <3> SUFFICES ASSUME NEW i \in 1..B
                 PROVE  fill[i] = mm[base + i]
      OBVIOUS
    <3>2. CASE i <= r
      <4>1. base + i \in 1..len /\ i \in 1..r
        BY <1>0, <1>7, <3>2
      <4>2. fill[i] = c.buffer[i]
        BY <1>0, <1>7, <3>2 DEF Digest!Fill
      <4> QED
        BY <1>2, <1>8, <4>1, <4>2
    <3>3. CASE i > r
      <4>1. base + i = len + (i - r) /\ i - r \in 1..l
        BY <1>0, <1>7, <2>1, <3>3
      <4>2. fill[i] = chunk[i - r]
        BY <1>0, <1>7, <3>3 DEF Digest!Fill
      <4> QED
        BY <1>2, <4>1, <4>2
    <3>4. i <= r \/ i > r
      BY <1>0, <1>7
    <3> QED
      BY <3>2, <3>3, <3>4, Zenon
  <2>9. DOMAIN fill = 1..B
    BY DEF Digest!Fill
  <2>10. \A i \in 1..rest : Digest!Fill(fill, 0, chunk, first + sz, rest)[i] = mm[(q + 1 + p) * B + i]
    <3> SUFFICES ASSUME NEW i \in 1..rest
                 PROVE  Digest!Fill(fill, 0, chunk, first + sz, rest)[i] = mm[(q + 1 + p) * B + i]
      OBVIOUS
    <3>1. (q + 1 + p) * B = base + B + sz
      BY <2>14, Zenon
    <3>2. i \in 1..B /\ base + B + sz + i = len + (first + sz + i) /\ first + sz + i \in 1..l
      BY <1>0, <1>7, <2>1, <2>4
    <3>3. Digest!Fill(fill, 0, chunk, first + sz, rest)[i] = chunk[first + sz + i]
      BY <1>0, <2>1, <2>4, <3>2 DEF Digest!Fill
    <3>4. mm[len + (first + sz + i)] = chunk[first + sz + i]
      BY <1>2, <3>2, Zenon
    <3> QED
      BY <3>1, <3>2, <3>3, <3>4
  <2>11. Digest!update(c, chunk).blocks = Cut(mm)
    <3> DEFINE tail == [k \in 1..p |-> SubSeq(chunk, first + (k - 1) * B + 1, first + k * B)]
               blocks == c.blocks \o <<fill>> \o tail
    <3>1. /\ DOMAIN Cut(mm) = 1..q + 1 + p
          /\ \A k \in 1..q + 1 + p : Cut(mm)[k] = [i \in 1..B |-> mm[(k - 1) * B + i]]
      <4>1. q + 1 + p = Len(mm) \div DigestBlock
        BY <2>7, Zenon
      <4>2. DOMAIN Cut(mm) = 1..q + 1 + p
        BY <4>1, Zenon DEF Cut
      <4>3. \A k \in 1..Len(mm) \div DigestBlock : Cut(mm)[k] = [i \in 1..DigestBlock |-> mm[(k - 1) * DigestBlock + i]]
        BY <1>c, Zenon
      <4> QED
        BY <4>1, <4>2, <4>3, Zenon
    <3> DEFINE T == {c.blocks[k] : k \in 1..q} \union {fill} \union {tail[k] : k \in 1..p}
    <3>2. Len(c.blocks) = q /\ c.blocks \in Seq(T) /\ <<fill>> \in Seq(T) /\ Len(tail) = p /\ tail \in Seq(T)
      <4>1. c.blocks = [k \in 1..q |-> c.blocks[k]]
        BY <1>1, <1>8, Zenon DEF Cut
      <4>2. c.blocks \in Seq(T) /\ Len(c.blocks) = q
        <5>1. \A k \in 1..q : c.blocks[k] \in T
          OBVIOUS
        <5> HIDE DEF T
        <5> QED
          BY <4>1, <5>1
      <4>3. tail \in Seq(T) /\ Len(tail) = p
        <5>1. \A k \in 1..p : tail[k] \in T
          OBVIOUS
        <5>2. tail = [k \in 1..p |-> tail[k]]
          OBVIOUS
        <5> HIDE DEF T, tail
        <5> QED
          BY <5>1, <5>2
      <4>4. fill \in T
        OBVIOUS
      <4> HIDE DEF T, tail, fill
      <4> QED
        BY <4>2, <4>3, <4>4
    <3>3. /\ blocks \in Seq(T) /\ Len(blocks) = q + 1 + p
          /\ \A k \in 1..q : blocks[k] = c.blocks[k]
          /\ blocks[q + 1] = fill
          /\ \A k \in 1..p : blocks[q + 1 + k] = tail[k]
      <4> DEFINE head == c.blocks \o <<fill>>
      <4> HIDE DEF T, tail, fill
      <4>1. /\ head \in Seq(T) /\ Len(head) = q + 1
            /\ \A k \in 1..q : head[k] = c.blocks[k]
            /\ head[q + 1] = fill
        <5>1. Len(<<fill>>) = 1 /\ <<fill>>[1] = fill
          OBVIOUS
        <5>2. \A s, t \in Seq(T) :
          /\ s \o t \in Seq(T) /\ Len(s \o t) = Len(s) + Len(t)
          /\ \A k \in 1..Len(s) : (s \o t)[k] = s[k]
          /\ \A k \in 1..Len(t) : (s \o t)[Len(s) + k] = t[k]
          BY JoinIs
        <5>3. 1 \in 1..1
          OBVIOUS
        <5> QED
          BY <3>2, <5>1, <5>2, <5>3, Zenon
      <4> HIDE DEF head
      <4>2. /\ head \o tail \in Seq(T) /\ Len(head \o tail) = q + 1 + p
            /\ \A k \in 1..q + 1 : (head \o tail)[k] = head[k]
            /\ \A k \in 1..p : (head \o tail)[q + 1 + k] = tail[k]
        <5>2. \A s, t \in Seq(T) :
          /\ s \o t \in Seq(T) /\ Len(s \o t) = Len(s) + Len(t)
          /\ \A k \in 1..Len(s) : (s \o t)[k] = s[k]
          /\ \A k \in 1..Len(t) : (s \o t)[Len(s) + k] = t[k]
          BY JoinIs
        <5>3. /\ head \o tail \in Seq(T) /\ Len(head \o tail) = Len(head) + Len(tail)
              /\ \A k \in 1..Len(head) : (head \o tail)[k] = head[k]
              /\ \A k \in 1..Len(tail) : (head \o tail)[Len(head) + k] = tail[k]
          BY <3>2, <4>1, <5>2, Zenon
        <5>4. Len(head) = q + 1 /\ Len(tail) = p
          BY <3>2, <4>1, Zenon
        <5> QED
          BY <5>3, <5>4, Zenon
      <4>3. q + 1 \in 1..q + 1 /\ \A k \in 1..q : k \in 1..q + 1
        OBVIOUS
      <4>4. blocks = head \o tail
        BY DEF head
      <4> QED
        BY <4>1, <4>2, <4>3, <4>4, Zenon
    <3>4. \A k \in 1..q : blocks[k] = Cut(mm)[k]
      <4> SUFFICES ASSUME NEW k \in 1..q
                   PROVE  blocks[k] = Cut(mm)[k]
        OBVIOUS
      <4>1. PICK a \in Nat : /\ a = (k - 1) * B /\ a + B \in 0..len
                             /\ Cut(m)[k] = [i \in 1..B |-> m[a + i]]
        BY <1>9
      <4>2. Cut(mm)[k] = [i \in 1..B |-> mm[a + i]]
        <5>1. k \in 1..q + 1 + p
          OBVIOUS
        <5> QED
          BY <3>1, <4>1, <5>1, Zenon
      <4>3. \A i \in 1..B : mm[a + i] = m[a + i]
        <5>1. a + B \in 0..len
          BY <4>1
        <5>2. \A i \in 1..B : a + i \in 1..len
          BY <1>0, <5>1
        <5> QED
          BY <1>2, <5>2
      <4>4. blocks[k] = Cut(m)[k]
        BY <1>8, <3>3, Zenon
      <4> QED
        BY <4>1, <4>2, <4>3, <4>4, Zenon
    <3>5. blocks[q + 1] = Cut(mm)[q + 1]
      <4>1. q + 1 \in 1..q + 1 + p /\ q + 1 - 1 = q
        OBVIOUS
      <4>2. Cut(mm)[q + 1] = [i \in 1..B |-> mm[base + i]]
        <5>1. PICK k \in 1..q + 1 + p : k = q + 1 /\ k - 1 = q
          BY <4>1
        <5>2. (k - 1) * B = base
          BY <1>6, <5>1, Zenon
        <5>3. Cut(mm)[k] = [i \in 1..B |-> mm[base + i]]
          BY <3>1, <5>2, Zenon
        <5> QED
          BY <5>1, <5>3, Zenon
      <4>3. fill = [i \in 1..B |-> fill[i]]
        BY DEF Digest!Fill
      <4> HIDE DEF fill
      <4> QED
        BY <2>8, <3>3, <4>2, <4>3, Zenon
    <3>6. \A k \in 1..p : blocks[q + 1 + k] = Cut(mm)[q + 1 + k]
      <4> SUFFICES ASSUME NEW k \in 1..p
                   PROVE  blocks[q + 1 + k] = Cut(mm)[q + 1 + k]
        OBVIOUS
      <4>1. PICK a \in Nat : a = (k - 1) * B /\ a + B = k * B /\ a + B <= sz
        <5>1. (k - 1) * B + B = k * B /\ (k - 1) * B \in Nat
          BY <1>0
        <5>2. k * B <= p * B
          BY <1>0, MulMono
        <5> QED
          BY <2>3, <5>1, <5>2
      <4>2. tail[k] = [i \in 1..B |-> chunk[first + a + i]]
        <5>1. tail[k] = SubSeq(chunk, first + a + 1, first + (a + B))
          BY <4>1, Zenon
        <5>2. first + a \in Nat /\ first + (a + B) = (first + a) + B /\ (first + a) + B <= l
          BY <1>0, <1>7, <2>1, <2>4, <4>1
        <5> HIDE DEF first, tail
        <5> QED
          <6>1. SubSeq(chunk, (first + a) + 1, (first + a) + B) = [i \in 1..B |-> chunk[(first + a) + i]]
            BY <1>0, <5>2, SubSeqIs, SMTT(30)
          <6> QED
            BY <5>1, <5>2, <6>1, Zenon
      <4>3. q + 1 + k \in 1..q + 1 + p /\ q + 1 + k - 1 = q + k
        OBVIOUS
      <4>4. (q + k) * B = base + B + a
        <5>1. (q + k) * B = q * B + (k - 1) * B + B
          BY <1>0
        <5>2. (q + k) * B = base + a + B
          BY <1>6, <4>1, <5>1, Zenon
        <5> QED
          BY <1>0, <5>2
      <4>5. Cut(mm)[q + 1 + k] = [i \in 1..B |-> mm[base + B + a + i]]
        <5>1. PICK j \in 1..q + 1 + p : j = q + 1 + k /\ j - 1 = q + k
          BY <4>3
        <5>2. (j - 1) * B = base + B + a
          BY <4>4, <5>1, Zenon
        <5>3. Cut(mm)[j] = [i \in 1..B |-> mm[base + B + a + i]]
          BY <3>1, <5>2, Zenon
        <5> QED
          BY <5>1, <5>3, Zenon
      <4>6. \A i \in 1..B : mm[base + B + a + i] = chunk[first + a + i]
        <5> SUFFICES ASSUME NEW i \in 1..B
                     PROVE  mm[base + B + a + i] = chunk[first + a + i]
          OBVIOUS
        <5>1. a + B <= sz
          BY <4>1
        <5>2. base + B + a + i = len + (first + a + i) /\ first + a + i \in 1..l
          BY <1>0, <1>7, <2>1, <2>4, <5>1
        <5> QED
          BY <1>2, <5>2
      <4>7. blocks[q + 1 + k] = tail[k]
        BY <3>3
      <4> QED
        BY <4>2, <4>5, <4>6, <4>7, Zenon
    <3>7. \A k \in 1..q + 1 + p : blocks[k] = Cut(mm)[k]
      <4> SUFFICES ASSUME NEW k \in 1..q + 1 + p
                   PROVE  blocks[k] = Cut(mm)[k]
        OBVIOUS
      <4> HIDE DEF blocks
      <4>1. k \in 1..q \/ k = q + 1 \/ (k - (q + 1) \in 1..p /\ k = q + 1 + (k - (q + 1)))
        OBVIOUS
      <4> QED
        BY <3>4, <3>5, <3>6, <4>1
    <3> HIDE DEF blocks, T
    <3>8. blocks = Cut(mm)
      <4>1. DOMAIN blocks = 1..q + 1 + p /\ blocks = [k \in DOMAIN blocks |-> blocks[k]]
        BY <3>3
      <4>2. Cut(mm) = [k \in DOMAIN Cut(mm) |-> Cut(mm)[k]]
        BY DEF Cut
      <4> QED
        BY <3>1, <3>7, <4>1, <4>2, Zenon
    <3> QED
      BY <2>5, <3>8 DEF blocks
  <2>12. Digest!update(c, chunk).buffer = Digest!Fill(fill, 0, chunk, first + sz, rest)
    BY <2>5, <2>6, Zenon
  <2>13. DOMAIN Digest!update(c, chunk).buffer = 1..B
    BY <2>12 DEF Digest!Fill
  <2> QED
    BY <1>5, <1>10, <2>7, <2>10, <2>11, <2>12, <2>13, Zenon DEF Holds
<1> QED
  BY <1>0, <1>7, <1>11, <1>12

(* The code's padding is the least that makes whole blocks.                *)
LEMMA PaddingIs ==
  ASSUME NEW len \in Nat, NEW r, r = len % DigestBlock, NEW pad,
         pad = IF r < DigestBlock - DigestLength THEN DigestBlock - DigestLength - r
               ELSE DigestBlock - DigestLength + DigestBlock - r
  PROVE  /\ pad \in Nat \ {0}
         /\ pad = (CHOOSE z \in 0..DigestBlock - 1 : (len + 1 + z + DigestLength) % DigestBlock = 0) + 1
<1> DEFINE B == DigestBlock
           Right(z) == (len + 1 + z + DigestLength) % B = 0
<1>0. B \in Nat \ {0} /\ DigestLength \in 0..B
  BY BlockFacts
<1>1. PICK q \in Nat : len = q * B + r /\ r \in 0..B - 1
  BY <1>0, DivFound
<1>2. PICK base \in Nat : base = q * B
  BY <1>0
<1>3. len = base + r /\ r \in 0..B - 1
  BY <1>1, <1>2, Zenon
<1>4. pad \in 1..B
  BY <1>0, <1>3
<1>a. \A x, k \in Int, s \in 0..B - 1 : x = k * B + s => x \div B = k /\ x % B = s
  BY <1>0, DivIs
<1>b. \A x \in Nat : x % B = 0 => \E k \in Int : x = k * B
  <2> SUFFICES ASSUME NEW x \in Nat, x % B = 0
               PROVE  \E k \in Int : x = k * B
    OBVIOUS
  <2>1. x \div B \in Nat /\ x = (x \div B) * B + (x % B)
    BY <1>0, DivFound
  <2>2. (x \div B) * B \in Int
    BY <1>0, <2>1
  <2>3. x = (x \div B) * B
    BY <2>1, <2>2
  <2> QED
    BY <2>1, <2>3
<1>5. Right(pad - 1)
  <2>1. (q + 1) * B = base + B /\ (q + 2) * B = base + B + B
    <3>1. (q + 1) * B = q * B + B /\ (q + 2) * B = q * B + B + B
      BY <1>0
    <3> QED
      BY <1>2, <3>1, Zenon
  <2> DEFINE x == len + 1 + (pad - 1) + DigestLength
  <2>2. x = base + B \/ x = base + B + B
    <3>1. CASE r < B - DigestLength
      BY <1>0, <1>3, <3>1
    <3>2. CASE ~(r < B - DigestLength)
      <4>1. pad = B - DigestLength + B - r
        BY <3>2, Zenon
      <4>2. x = len + pad + DigestLength
        <5>1. \A p \in Int : len + 1 + (p - 1) + DigestLength = len + p + DigestLength
          BY <1>0
        <5>2. pad \in Int
          BY <1>4
        <5> QED
          BY <5>1, <5>2, Zenon
      <4>3. len + (B - DigestLength + B - r) + DigestLength = base + B + B
        BY <1>0, <1>3
      <4> QED
        BY <4>1, <4>2, <4>3, Zenon
    <3> QED
      BY <3>1, <3>2
  <2>3. x = (q + 1) * B + 0 \/ x = (q + 2) * B + 0
    <3>1. x = (q + 1) * B \/ x = (q + 2) * B
      BY <2>1, <2>2, Zenon
    <3>2. (q + 1) * B \in Int /\ (q + 2) * B \in Int
      BY <1>0
    <3> QED
      BY <3>1, <3>2
  <2>4. x \in Int /\ q + 1 \in Int /\ q + 2 \in Int /\ 0 \in 0..B - 1
    BY <1>0, <1>3, <1>4
  <2> HIDE DEF x
  <2>5. x % B = 0
    BY <1>a, <2>3, <2>4, Zenon
  <2> QED
    BY <2>5 DEF x
<1>6. \A z \in 0..B - 1 : Right(z) => z = pad - 1
  <2> SUFFICES ASSUME NEW z \in 0..B - 1, Right(z)
               PROVE  z = pad - 1
    OBVIOUS
  <2>1. PICK k \in Int : len + 1 + z + DigestLength = k * B
    <3>1. len + 1 + z + DigestLength \in Nat
      BY <1>0
    <3> QED
      BY <1>b, <3>1, Zenon
  <2>2. PICK j \in Int : len + 1 + (pad - 1) + DigestLength = j * B
    <3>1. len + 1 + (pad - 1) + DigestLength \in Nat
      BY <1>0, <1>4
    <3> QED
      BY <1>b, <1>5, <3>1, Zenon
  <2>3. z - (pad - 1) = (k - j) * B
    <3>1. (k - j) * B = k * B - j * B /\ k * B \in Int /\ j * B \in Int
      BY <1>0
    <3> QED
      BY <1>0, <1>4, <2>1, <2>2, <3>1
  <2>4. z - (pad - 1) < B /\ z - (pad - 1) > -B
    BY <1>0, <1>4
  <2>5. CASE k - j >= 1
    <3>1. 1 * B <= (k - j) * B
      BY <1>0, <2>5, MulMono
    <3> QED
      BY <1>0, <1>4, <2>3, <2>4, <3>1
  <2>6. CASE k - j <= -1
    <3>1. (k - j) * B <= (-1) * B
      BY <1>0, <2>6, MulMono
    <3> QED
      BY <1>0, <1>4, <2>3, <2>4, <3>1
  <2>7. CASE k - j = 0
    <3>1. (k - j) * B = 0
      BY <1>0, <2>7
    <3> QED
      BY <1>4, <2>3, <3>1
  <2> QED
    BY <2>5, <2>6, <2>7
<1>7. pad - 1 \in 0..B - 1
  BY <1>4, <1>0
<1>8. (CHOOSE z \in 0..B - 1 : Right(z)) = pad - 1
  BY <1>5, <1>6, <1>7, Zenon
<1>9. pad \in Nat \ {0} /\ pad = (pad - 1) + 1
  BY <1>4, <1>0
<1> QED
  BY <1>8, <1>9, Zenon

(* The end adds what the standard adds.                                    *)
LEMMA FinalIs ==
  ASSUME NEW S, NEW m \in Seq(S), NEW c, Holds(c, m)
  PROVE  Digest!finalize(c) = Digest!RFCBlocks(m)
<1> DEFINE len == Len(m)
           r == len % DigestBlock
           spot == DigestBlock - DigestLength
           pad == IF r < spot THEN spot - r ELSE spot + DigestBlock - r
           count == <<(8 * len) % DigestWord, (8 * len) \div DigestWord>>
           T == S \union {<<"one", 0>>, <<"zero", 0>>} \union {<<"count", count, k>> : k \in 1..DigestLength}
<1>0. DigestBlock \in Nat \ {0} /\ DigestLength \in Nat /\ len \in Nat
  BY BlockFacts
<1>1. (c.count[1] \div 8) % DigestBlock = r
  <2>1. PICK k \in Nat \ {0} : DigestWord = k * (8 * DigestBlock)
    BY BlockFacts
  <2>2. c.count[1] = (8 * len) % DigestWord
    BY DEF Holds
  <2>3. (((8 * len) % DigestWord) \div 8) % DigestBlock = len % DigestBlock
    <3>1. \A a \in Nat, b, M \in Nat \ {0} : \A W : W = M * (8 * b) => (((8 * a) % W) \div 8) % b = a % b
      BY IndexIs, Zenon
    <3> HIDE DEF len
    <3>2. \A W : W = k * (8 * DigestBlock) => (((8 * len) % W) \div 8) % DigestBlock = len % DigestBlock
      BY <1>0, <3>1
    <3> QED
      BY <2>1, <3>2
  <2> QED
    BY <2>2, <2>3, Zenon
<1>2. Digest!finalize(c) = Digest!update(Digest!update(c, Digest!Padding(pad)), Digest!EncodedCount(count)).blocks
  <2>1. c.count = count
    BY DEF Holds
  <2> QED
    BY <1>1, <2>1, Zenon DEF Digest!finalize
<1>3. pad \in Nat \ {0} /\ pad = (CHOOSE z \in 0..DigestBlock - 1 : (len + 1 + z + DigestLength) % DigestBlock = 0) + 1
  <2> HIDE DEF len
  <2> QED
    BY <1>0, PaddingIs
<1>4. m \in Seq(T) /\ Digest!Padding(pad) \in Seq(T) /\ Digest!EncodedCount(count) \in Seq(T)
  <2> HIDE DEF pad, count, len
  <2>1. m \in Seq(T)
    <3>1. \A i \in 1..Len(m) : m[i] \in T
      OBVIOUS
    <3> HIDE DEF T
    <3> QED
      BY <3>1
  <2>2. Digest!Padding(pad) \in Seq(T)
    BY <1>3 DEF Digest!Padding
  <2>3. Digest!EncodedCount(count) \in Seq(T)
    BY <1>0 DEF Digest!EncodedCount
  <2> QED
    BY <2>1, <2>2, <2>3
<1> HIDE DEF T
<1>5. Holds(Digest!update(c, Digest!Padding(pad)), m \o Digest!Padding(pad))
  BY <1>4, UpdateHolds
<1>6. m \o Digest!Padding(pad) \in Seq(T)
  BY <1>4, JoinIs
<1>7. Holds(Digest!update(Digest!update(c, Digest!Padding(pad)), Digest!EncodedCount(count)), m \o Digest!Padding(pad) \o Digest!EncodedCount(count))
  BY <1>4, <1>5, <1>6, UpdateHolds
<1>8. Digest!RFCBlocks(m) = Cut(m \o Digest!Padding(pad) \o Digest!EncodedCount(count))
  <2>1. Digest!RFCBlocks(m) = Cut(m \o Digest!Padding((CHOOSE z \in 0..DigestBlock - 1 : (len + 1 + z + DigestLength) % DigestBlock = 0) + 1)
                             \o Digest!EncodedCount(count))
    BY Zenon DEF Digest!RFCBlocks, Cut
  <2> QED
    BY <1>3, <2>1, Zenon
<1> QED
  BY <1>2, <1>7, <1>8 DEF Holds

(* The bytes a message is made of here, each one with its number.          *)
Bytes == {"byte"} \X Nat

(* The context holds the message it was given.                             *)
DigestInv == given \in Seq(Bytes) /\ Holds(context, given)

(* A context that was given nothing holds nothing.                         *)
LEMMA DigestStarts == Digest!Init => DigestInv
<1> SUFFICES ASSUME Digest!Init
             PROVE  DigestInv
  OBVIOUS
<1>1. given = <<>> /\ context = Digest!init
  BY DEF Digest!Init
<1>2. given \in Seq(Bytes) /\ Len(given) = 0
  BY <1>1
<1>3. DigestBlock \in Nat \ {0} /\ DigestWord \in Nat \ {0}
  BY DigestAssumption
<1>4. 0 \div DigestBlock = 0 /\ 0 % DigestBlock = 0 /\ 0 \div DigestWord = 0 /\ 0 % DigestWord = 0
  <2>1. \A k \in Nat \ {0} : 0 \div k = 0 /\ 0 % k = 0
    <3> SUFFICES ASSUME NEW k \in Nat \ {0}
                 PROVE  0 \div k = 0 /\ 0 % k = 0
      OBVIOUS
    <3>1. 0 \in 0..k - 1 /\ 0 \in Int /\ 0 = 0 * k + 0
      OBVIOUS
    <3> QED
      BY <3>1, DivIs
  <2> QED
    BY <1>3, <2>1
<1>5. Cut(given) = <<>>
  <2>1. 1..Len(given) \div DigestBlock = {}
    BY <1>2, <1>4
  <2> QED
    BY <2>1 DEF Cut
<1>6. context.blocks = <<>> /\ DOMAIN context.buffer = 1..DigestBlock /\ context.count = <<0, 0>>
      /\ context = [blocks |-> context.blocks, buffer |-> context.buffer, count |-> context.count]
  BY <1>1 DEF Digest!init
<1>7. \A i \in 1..Len(given) % DigestBlock :
         context.buffer[i] = given[(Len(given) \div DigestBlock) * DigestBlock + i]
  BY <1>2, <1>4
<1>8. context.count = <<(8 * Len(given)) % DigestWord, (8 * Len(given)) \div DigestWord>>
  <2>1. 8 * Len(given) = 0
    BY <1>2
  <2> QED
    BY <1>4, <1>6, <2>1
<1> QED
  BY <1>2, <1>5, <1>6, <1>7, <1>8 DEF DigestInv, Holds

(* Every chunk is a step of it.                                            *)
LEMMA DigestKept ==
  ASSUME DigestInv, Digest!Next
  PROVE  DigestInv'
<1>1. PICK length \in ChunkSizes : /\ context' = Digest!update(context, Digest!Chunk(length))
                                  /\ given' = given \o Digest!Chunk(length)
  BY DEF Digest!Next
<1>2. given \in Seq(Bytes) /\ Len(given) \in Nat /\ Holds(context, given)
  BY DEF DigestInv
<1>3. Digest!Chunk(length) \in Seq(Bytes)
  <2>1. length \in Nat
    BY DigestAssumption
  <2>2. \A k \in 1..length : <<"byte", Len(given) + k>> \in Bytes
    BY <1>2, <2>1 DEF Bytes
  <2> QED
    BY <2>1, <2>2 DEF Digest!Chunk
<1>4. given' \in Seq(Bytes)
  BY <1>1, <1>2, <1>3, JoinIs
<1>5. Holds(context', given')
  BY <1>1, <1>2, <1>3, UpdateHolds
<1> QED
  BY <1>4, <1>5 DEF DigestInv, Holds, Cut

(* From the invariant to the property.                                     *)
LEMMA DigestRight == DigestInv => Digest!ChunksAgree
BY FinalIs DEF DigestInv, Digest!ChunksAgree

(* Steps of other parts.                                                   *)
LEMMA DigestSame ==
  ASSUME DigestInv, UNCHANGED digestVars
  PROVE  DigestInv'
BY DEF DigestInv, Holds, Cut, digestVars

-----------------------------------------------------------------------------
(* Base64 *)

(* Three octets, and four sextets, as a number.                            *)
Three(a, b, c) == 65536 * a + 256 * b + c
Four(a, b, c, d) == 262144 * a + 4096 * b + 64 * c + d

(* So much has 24 bits.                                                    *)
Small24(t) == t \in Nat /\ t < 16777216

(* A group of three octets, and the signs = at the end.                    *)
Group(octets, g) == Three(Base!At(octets, 3 * g + 1), Base!At(octets, 3 * g + 2), Base!At(octets, 3 * g + 3))
Signs(length) == IF length % 3 = 0 THEN 0 ELSE 3 - (length % 3)

(* Six bits of a group.                                                    *)
Six(t, k) ==
  IF k = 0 THEN t \div 262144 ELSE IF k = 1 THEN (t \div 4096) % 64
  ELSE IF k = 2 THEN (t \div 64) % 64 ELSE t % 64

(* An octet, or the 0 behind the last.                                     *)
LEMMA OctetIn ==
  ASSUME NEW octets \in Seq(Octets), NEW i \in Nat \ {0}
  PROVE  Base!At(octets, i) \in Nat /\ Base!At(octets, i) < 256
BY OctetsAssumption DEF Base!At

(* Three numbers of eight bits are 24 bits.                                *)
LEMMA ThreeIn ==
  ASSUME NEW a \in Nat, NEW b \in Nat, NEW c \in Nat, a < 256, b < 256, c < 256
  PROVE  Small24(Three(a, b, c))
BY DEF Three, Small24

(* Three octets are 24 bits.                                               *)
LEMMA GroupIn ==
  ASSUME NEW octets \in Seq(Octets), NEW g \in Nat
  PROVE  Small24(Group(octets, g))
<1>1. 3 * g + 1 \in Nat \ {0} /\ 3 * g + 2 \in Nat \ {0} /\ 3 * g + 3 \in Nat \ {0}
  OBVIOUS
<1>2. Base!At(octets, 3 * g + 1) \in Nat /\ Base!At(octets, 3 * g + 1) < 256
  BY <1>1, OctetIn
<1>3. Base!At(octets, 3 * g + 2) \in Nat /\ Base!At(octets, 3 * g + 2) < 256
  BY <1>1, OctetIn
<1>4. Base!At(octets, 3 * g + 3) \in Nat /\ Base!At(octets, 3 * g + 3) < 256
  BY <1>1, OctetIn
<1> QED
  BY <1>2, <1>3, <1>4, ThreeIn DEF Group

(* Sixty-four to the small powers the code shifts by.                      *)
LEMMA Powers ==
  /\ 64 ^ 3 = 262144 /\ 64 ^ 2 = 4096 /\ 64 ^ 1 = 64 /\ 64 ^ 0 = 1
  /\ 256 ^ 2 = 65536 /\ 256 ^ 1 = 256 /\ 256 ^ 0 = 1
OBVIOUS

(* The text, sign by sign.                                                 *)
LEMMA EncodeIs ==
  ASSUME NEW octets \in Seq(Octets)
  PROVE  /\ Base!Encode(octets) = [j \in 1..4 * ((Len(octets) + 2) \div 3) |-> Base!Encode(octets)[j]]
         /\ \A g \in 0..((Len(octets) + 2) \div 3) - 1, k \in 0..3 :
              Base!Encode(octets)[4 * g + k + 1] =
                IF 4 * g + k + 1 > 4 * ((Len(octets) + 2) \div 3) - Signs(Len(octets)) THEN Base!Pad
                ELSE Six(Group(octets, g), k)
<1> DEFINE length == Len(octets)
           m == (length + 2) \div 3
<1>1. length \in Nat /\ m \in Nat
  OBVIOUS
<1>2. <<0, 2, 1>>[(length % 3) + 1] = Signs(length)
  BY <1>1 DEF Signs
<1>3. Base!Encode(octets) = [j \in 1..4 * m |-> Base!Encode(octets)[j]]
  BY DEF Base!Encode, Base!EncodedLength
<1>4. ASSUME NEW g \in 0..m - 1, NEW k \in 0..3
      PROVE  Base!Encode(octets)[4 * g + k + 1] =
                IF 4 * g + k + 1 > 4 * m - Signs(length) THEN Base!Pad ELSE Six(Group(octets, g), k)
  <2>1. PICK j \in 1..4 * m : j = 4 * g + k + 1 /\ (j - 1) \div 4 = g /\ (j - 1) % 4 = k
    <3> HIDE DEF m
    <3>1. 4 * g + k + 1 \in 1..4 * m
      BY <1>1
    <3>2. ((4 * g + k + 1) - 1) \div 4 = g /\ ((4 * g + k + 1) - 1) % 4 = k
      BY <1>1
    <3> QED
      BY <3>1, <3>2
  <2>2. Base!Encode(octets)[j] =
          IF j > 4 * m - Signs(length) THEN Base!Pad
          ELSE (Group(octets, (j - 1) \div 4) \div 64 ^ (3 - ((j - 1) % 4))) % 64
    <3>1. Base!Encode(octets) =
            [i \in 1..4 * m |->
               IF i > 4 * m - Base!ModTable[(length % 3) + 1] THEN Base!Pad
               ELSE (Group(octets, (i - 1) \div 4) \div 64 ^ (3 - ((i - 1) % 4))) % 64]
      BY DEF Base!Encode, Base!EncodedLength, Group, Three
    <3>2. Base!ModTable[(length % 3) + 1] = Signs(length)
      BY <1>2 DEF Base!ModTable
    <3> HIDE DEF m, length
    <3> QED
      BY <3>1, <3>2, Zenon
  <2>3. (Group(octets, g) \div 64 ^ (3 - k)) % 64 = Six(Group(octets, g), k)
    <3>1. PICK t \in Nat : t = Group(octets, g) /\ t < 16777216
      BY <1>1, GroupIn DEF Small24
    <3>2. CASE k = 0
      BY <3>1, <3>2, Powers DEF Six
    <3>3. CASE k = 1
      BY <3>1, <3>3, Powers DEF Six
    <3>4. CASE k = 2
      BY <3>1, <3>4, Powers DEF Six
    <3>5. CASE k = 3
      BY <3>1, <3>5, Powers DEF Six
    <3> QED
      BY <3>2, <3>3, <3>4, <3>5
  <2> QED
    BY <2>1, <2>2, <2>3, Zenon
<1> QED
  BY <1>3, <1>4, Zenon

(* A group is its four sextets.                                            *)
LEMMA SixIs ==
  ASSUME NEW t, Small24(t)
  PROVE  /\ \A k \in 0..3 : Six(t, k) \in Nat /\ Six(t, k) < 64
         /\ t = Four(Six(t, 0), Six(t, 1), Six(t, 2), Six(t, 3))
         /\ t % 64 = 0 => Six(t, 3) = 0
         /\ t % 4096 = 0 => Six(t, 2) = 0 /\ Six(t, 3) = 0
<1>1. PICK a, b, c, d \in Nat : t = 64 * a + d /\ d < 64 /\ a = 64 * b + c /\ c < 64 /\ b < 4096
                                  /\ a = t \div 64 /\ d = t % 64 /\ c = a % 64 /\ b = a \div 64
  BY DEF Small24
<1>2. t \div 4096 = b /\ t \div 262144 = b \div 64
  BY <1>1
<1>3. Six(t, 0) = b \div 64 /\ Six(t, 1) = b % 64 /\ Six(t, 2) = c /\ Six(t, 3) = d
  BY <1>1, <1>2 DEF Six
<1>4. \A s \in {Six(t, 0), Six(t, 1), Six(t, 2), Six(t, 3)} : s \in Nat /\ s < 64
  BY <1>1, <1>3
<1>5. \A k \in 0..3 : k = 0 \/ k = 1 \/ k = 2 \/ k = 3
  OBVIOUS
<1>6. \A k \in 0..3 : Six(t, k) \in Nat /\ Six(t, k) < 64
  BY <1>4, <1>5, Zenon
<1>7. t = Four(Six(t, 0), Six(t, 1), Six(t, 2), Six(t, 3))
  BY <1>1, <1>3 DEF Four
<1>8. (t % 64 = 0 => Six(t, 3) = 0) /\ (t % 4096 = 0 => Six(t, 2) = 0 /\ Six(t, 3) = 0)
  BY <1>1, <1>3
<1> QED
  BY <1>6, <1>7, <1>8

(* Eight bits of a group, as the code shifts for them.                     *)
Third(t, k) ==
  IF k = 0 THEN (t \div 65536) % 256 ELSE IF k = 1 THEN (t \div 256) % 256 ELSE t % 256

(* The same by powers.                                                     *)
Shifted(t, k) == (t \div 256 ^ (2 - k)) % 256

(* The three octets of a group.                                            *)
LEMMA OctetsOf ==
  ASSUME NEW octets \in Seq(Octets), NEW g \in Nat, NEW k \in 0..2
  PROVE  Shifted(Group(octets, g), k) = Base!At(octets, 3 * g + k + 1)
<1>1. \A i \in Nat \ {0} : Base!At(octets, i) \in Nat /\ Base!At(octets, i) < 256
  BY OctetIn
<1>2. PICK a, b, c \in Nat : /\ a = Base!At(octets, 3 * g + 1) /\ b = Base!At(octets, 3 * g + 2) /\ c = Base!At(octets, 3 * g + 3)
                            /\ a < 256 /\ b < 256 /\ c < 256
  BY <1>1
<1>3. PICK t \in Nat, d \in Nat : t = Group(octets, g) /\ d = 256 * a + b /\ t = 256 * d + c
  <2>1. Group(octets, g) = 65536 * a + 256 * b + c
    BY <1>2 DEF Group, Three
  <2>2. 256 * a + b \in Nat /\ 65536 * a + 256 * b + c \in Nat
    OBVIOUS
  <2>3. 65536 * a + 256 * b + c = 256 * (256 * a + b) + c
    OBVIOUS
  <2> QED
    BY <2>1, <2>2, <2>3
<1>4. t \div 256 = d /\ t % 256 = c
  <2>1. c < 256 /\ t = 256 * d + c
    BY <1>2, <1>3
  <2> QED
    BY <2>1
<1>5. d \div 256 = a /\ d % 256 = b /\ a % 256 = a
  <2>1. d \div 256 = a /\ d % 256 = b
    <3>1. b < 256 /\ d = 256 * a + b
      BY <1>2, <1>3
    <3> QED
      BY <3>1
  <2>2. a % 256 = a
    BY <1>2
  <2> QED
    BY <2>1, <2>2
<1>6. t \div 65536 = a
  <2>1. \A x, y \in Nat : y = x \div 256 => y \div 256 = x \div 65536
    OBVIOUS
  <2> QED
    BY <1>4, <1>5, <2>1
<1>7. Shifted(t, k) = Third(t, k)
  <2>1. CASE k = 0
    BY <2>1, Powers DEF Third, Shifted
  <2>2. CASE k = 1
    BY <2>2, Powers DEF Third, Shifted
  <2>3. CASE k = 2
    BY <2>3, Powers DEF Third, Shifted
  <2> QED
    BY <2>1, <2>2, <2>3
<1>8. Third(t, 0) = a /\ Third(t, 1) = b /\ Third(t, 2) = c
  BY <1>4, <1>5, <1>6 DEF Third
<1>9. Third(t, k) = Base!At(octets, 3 * g + k + 1)
  <2>1. 3 * g + 0 + 1 = 3 * g + 1 /\ 3 * g + 1 + 1 = 3 * g + 2 /\ 3 * g + 2 + 1 = 3 * g + 3
    OBVIOUS
  <2>2. k = 0 \/ k = 1 \/ k = 2
    OBVIOUS
  <2> QED
    BY <1>2, <1>8, <2>1, <2>2, Zenon
<1> QED
  BY <1>3, <1>7, <1>9, Zenon

(* Decoding the text gives the octets, however many there are.             *)
LEMMA DecodeIs ==
  ASSUME NEW octets \in Seq(Octets), octets # <<>>
  PROVE  Base!Decode(Base!Encode(octets)) = octets
<1> DEFINE text == Base!Encode(octets)
           length == Len(octets)
           m == (length + 2) \div 3
           Sextet(i) == IF text[i] = Base!Pad THEN 0 ELSE text[i]
<1>1. length \in Nat \ {0} /\ m \in Nat \ {0} /\ Signs(length) \in 0..2 /\ 3 * m - Signs(length) = length
  <2>1. length \in Nat \ {0}
    OBVIOUS
  <2> HIDE DEF length
  <2> QED
    BY <2>1 DEF Signs
<1>2. /\ text = [j \in 1..4 * m |-> text[j]]
      /\ \A g \in 0..m - 1, k \in 0..3 :
           text[4 * g + k + 1] = IF 4 * g + k + 1 > 4 * m - Signs(length) THEN Base!Pad ELSE Six(Group(octets, g), k)
  BY EncodeIs
<1> HIDE DEF text, length, m
<1>3. Len(text) = 4 * m
  BY <1>1, <1>2
<1>4. \A g \in 0..m - 1 : /\ Small24(Group(octets, g))
                          /\ \A k \in 0..3 : Six(Group(octets, g), k) # Base!Pad
  <2>1. \A g \in Nat : Small24(Group(octets, g))
    BY GroupIn
  <2>2. \A t : Small24(t) => \A k \in 0..3 : Six(t, k) \in Nat /\ Six(t, k) < 64
    BY SixIs
  <2>3. \A s \in Nat : s < 64 => s # Base!Pad
    BY DEF Base!Pad
  <2>4. \A g \in 0..m - 1 : g \in Nat
    OBVIOUS
  <2> QED
    BY <2>1, <2>2, <2>3, <2>4, Zenon
<1>5. /\ text[4 * m] = Base!Pad <=> Signs(length) >= 1
      /\ text[4 * m - 1] = Base!Pad <=> Signs(length) = 2
  <2>1. m - 1 \in 0..m - 1 /\ 4 * (m - 1) + 3 + 1 = 4 * m /\ 4 * (m - 1) + 2 + 1 = 4 * m - 1 /\ 3 \in 0..3 /\ 2 \in 0..3
    BY <1>1
  <2>2. text[4 * m] = IF 4 * m > 4 * m - Signs(length) THEN Base!Pad ELSE Six(Group(octets, m - 1), 3)
    BY <1>2, <2>1, Zenon
  <2>3. text[4 * m - 1] = IF 4 * m - 1 > 4 * m - Signs(length) THEN Base!Pad ELSE Six(Group(octets, m - 1), 2)
    BY <1>2, <2>1, Zenon
  <2>4. 4 * m > 4 * m - Signs(length) <=> Signs(length) >= 1
    BY <1>1
  <2>5. 4 * m - 1 > 4 * m - Signs(length) <=> Signs(length) = 2
    BY <1>1
  <2> QED
    BY <1>4, <2>1, <2>2, <2>3, <2>4, <2>5, Zenon
<1>s. \A i, s : /\ text[i] = s /\ s # Base!Pad => Sextet(i) = s
                /\ text[i] = Base!Pad => Sextet(i) = 0
  OBVIOUS
<1> HIDE DEF Sextet
<1>6. ASSUME NEW g \in 0..m - 1
      PROVE  Four(Sextet(4 * g + 1), Sextet(4 * g + 2), Sextet(4 * g + 3), Sextet(4 * g + 4)) = Group(octets, g)
  <2> DEFINE t == Group(octets, g)
  <2> HIDE DEF t
  <2>1. /\ text[4 * g + 1] = IF 4 * g + 1 > 4 * m - Signs(length) THEN Base!Pad ELSE Six(t, 0)
        /\ text[4 * g + 2] = IF 4 * g + 2 > 4 * m - Signs(length) THEN Base!Pad ELSE Six(t, 1)
        /\ text[4 * g + 3] = IF 4 * g + 3 > 4 * m - Signs(length) THEN Base!Pad ELSE Six(t, 2)
        /\ text[4 * g + 4] = IF 4 * g + 4 > 4 * m - Signs(length) THEN Base!Pad ELSE Six(t, 3)
    <3>1. 4 * g + 0 + 1 = 4 * g + 1 /\ 4 * g + 1 + 1 = 4 * g + 2 /\ 4 * g + 2 + 1 = 4 * g + 3 /\ 4 * g + 3 + 1 = 4 * g + 4
          /\ 0 \in 0..3 /\ 1 \in 0..3 /\ 2 \in 0..3 /\ 3 \in 0..3
      OBVIOUS
    <3> QED
      BY <1>2, <3>1, Zenon DEF t
  <2>2. Sextet(4 * g + 1) = Six(t, 0) /\ Sextet(4 * g + 2) = Six(t, 1)
    <3>1. ~(4 * g + 1 > 4 * m - Signs(length)) /\ ~(4 * g + 2 > 4 * m - Signs(length))
      BY <1>1
    <3>2. 0 \in 0..3 /\ 1 \in 0..3
      OBVIOUS
    <3> QED
      BY <1>4, <1>s, <2>1, <3>1, <3>2, SMT DEF t
  <2>3. /\ t = Four(Six(t, 0), Six(t, 1), Six(t, 2), Six(t, 3))
        /\ t % 64 = 0 => Six(t, 3) = 0
        /\ t % 4096 = 0 => Six(t, 2) = 0 /\ Six(t, 3) = 0
    <3>1. Small24(t)
      BY <1>4 DEF t
    <3> QED
      BY <3>1, SixIs
  <2>4. g = m - 1 /\ Signs(length) >= 1 => t % 64 = 0
    <3> SUFFICES ASSUME g = m - 1, Signs(length) >= 1
                 PROVE  t % 64 = 0
      OBVIOUS
    <3>1. Base!At(octets, 3 * g + 3) = 0
      <4>1. ~(3 * g + 3 <= length)
        BY <1>1
      <4> QED
        BY <4>1, Zenon DEF Base!At, length
    <3>2. PICK a, b \in Nat : t = Three(a, b, 0)
      <4>1. Base!At(octets, 3 * g + 1) \in Nat /\ Base!At(octets, 3 * g + 2) \in Nat
        BY OctetIn
      <4>2. t = Three(Base!At(octets, 3 * g + 1), Base!At(octets, 3 * g + 2), 0)
        BY <3>1, Zenon DEF Group, t
      <4> QED
        BY <4>1, <4>2, Zenon
    <3> QED
      BY <3>2 DEF Three
  <2>5. g = m - 1 /\ Signs(length) = 2 => t % 4096 = 0
    <3> SUFFICES ASSUME g = m - 1, Signs(length) = 2
                 PROVE  t % 4096 = 0
      OBVIOUS
    <3>1. Base!At(octets, 3 * g + 2) = 0 /\ Base!At(octets, 3 * g + 3) = 0
      <4>1. ~(3 * g + 3 <= length) /\ ~(3 * g + 2 <= length)
        BY <1>1
      <4> QED
        BY <4>1, Zenon DEF Base!At, length
    <3>2. PICK a \in Nat : t = Three(a, 0, 0)
      <4>1. Base!At(octets, 3 * g + 1) \in Nat
        BY OctetIn
      <4>2. t = Three(Base!At(octets, 3 * g + 1), 0, 0)
        BY <3>1, Zenon DEF Group, t
      <4> QED
        BY <4>1, <4>2, Zenon
    <3> QED
      BY <3>2 DEF Three
  <2>6. /\ 4 * g + 3 > 4 * m - Signs(length) => g = m - 1 /\ Signs(length) = 2
        /\ 4 * g + 4 > 4 * m - Signs(length) => g = m - 1 /\ Signs(length) >= 1
    BY <1>1
  <2>7. Sextet(4 * g + 3) = Six(t, 2) /\ Sextet(4 * g + 4) = Six(t, 3)
    <3>1. Six(t, 2) # Base!Pad /\ Six(t, 3) # Base!Pad
      <4>1. 2 \in 0..3 /\ 3 \in 0..3
        OBVIOUS
      <4> QED
        BY <1>4, <4>1, Zenon DEF t
    <3>2. 4 * g + 3 > 4 * m - Signs(length) => Sextet(4 * g + 3) = Six(t, 2)
      BY <1>s, <2>1, <2>3, <2>5, <2>6, <3>1, SMT
    <3>3. ~(4 * g + 3 > 4 * m - Signs(length)) => Sextet(4 * g + 3) = Six(t, 2)
      BY <1>s, <2>1, <3>1, Zenon
    <3>4. 4 * g + 4 > 4 * m - Signs(length) => Sextet(4 * g + 4) = Six(t, 3)
      BY <1>s, <2>1, <2>3, <2>4, <2>6, <3>1, SMT
    <3>5. ~(4 * g + 4 > 4 * m - Signs(length)) => Sextet(4 * g + 4) = Six(t, 3)
      BY <1>s, <2>1, <3>1, Zenon
    <3>6. Sextet(4 * g + 3) = Six(t, 2)
      BY <3>2, <3>3, Zenon
    <3>7. Sextet(4 * g + 4) = Six(t, 3)
      BY <3>4, <3>5, Zenon
    <3> QED
      BY <3>6, <3>7
  <2>8. Four(Sextet(4 * g + 1), Sextet(4 * g + 2), Sextet(4 * g + 3), Sextet(4 * g + 4)) = t
    BY <2>2, <2>3, <2>7, Zenon
  <2> QED
    BY <2>8 DEF t
<1> DEFINE Triple(g) == Four(Sextet(4 * g + 1), Sextet(4 * g + 2), Sextet(4 * g + 3), Sextet(4 * g + 4))
<1>7. Base!Decode(text) = [j \in 1..length |-> Shifted(Triple((j - 1) \div 3), (j - 1) % 3)]
  <2> DEFINE Padded(i) == IF text[i] = Base!Pad THEN 1 ELSE 0
             long == (Len(text) \div 4) * 3 - Padded(Len(text)) - Padded(Len(text) - 1)
  <2>1. Base!Decode(text) = IF Len(text) % 4 # 0 THEN Base!Refused
                       ELSE [j \in 1..long |-> Shifted(Triple((j - 1) \div 3), (j - 1) % 3)]
    BY DEF Base!Decode, Four, Sextet, Shifted
  <2>2. Len(text) % 4 = 0 /\ Len(text) \div 4 = m
    BY <1>1, <1>3
  <2>3. long = length
    <3>1. Padded(Len(text)) = (IF Signs(length) >= 1 THEN 1 ELSE 0) /\ Padded(Len(text) - 1) = IF Signs(length) = 2 THEN 1 ELSE 0
      BY <1>3, <1>5, Zenon
    <3> HIDE DEF Padded
    <3> QED
      BY <1>1, <2>2, <3>1
  <2> HIDE DEF long, Triple
  <2> QED
    BY <2>1, <2>2, <2>3, Zenon
<1>8. ASSUME NEW j \in 1..length
      PROVE  Shifted(Triple((j - 1) \div 3), (j - 1) % 3) = octets[j]
  <2>1. PICK g \in 0..m - 1, k \in 0..2 : g = (j - 1) \div 3 /\ k = (j - 1) % 3 /\ j = 3 * g + k + 1
    <3> HIDE DEF Triple
    <3>1. PICK i \in Nat : i = j - 1 /\ i < 3 * m
      BY <1>1
    <3>2. PICK g \in Int, k \in 0..2 : g = i \div 3 /\ k = i % 3 /\ i = 3 * g + k
      OBVIOUS
    <3>3. g \in 0..m - 1 /\ j = 3 * g + k + 1
      BY <1>1, <3>1, <3>2
    <3> QED
      BY <3>1, <3>2, <3>3
  <2>2. Triple(g) = Group(octets, g)
    BY <1>6
  <2>3. Shifted(Group(octets, g), k) = Base!At(octets, j)
    <3> HIDE DEF Triple
    <3>1. g \in Nat
      OBVIOUS
    <3> QED
      <4>1. Shifted(Group(octets, g), k) = Base!At(octets, 3 * g + k + 1)
        <5>1. \A h \in Nat, e \in 0..2 :
                Shifted(Group(octets, h), e) = Base!At(octets, 3 * h + e + 1)
          BY OctetsOf, Zenon
        <5> QED
          BY <3>1, <5>1
      <4> QED
        BY <2>1, <4>1
  <2>4. Base!At(octets, j) = octets[j]
    BY DEF Base!At, length
  <2> HIDE DEF Triple
  <2> QED
    BY <2>1, <2>2, <2>3, <2>4, Zenon
<1>9. octets = [j \in 1..length |-> octets[j]]
  BY DEF length
<1> HIDE DEF Triple
<1> QED
  BY <1>7, <1>8, <1>9, Zenon DEF text

(* The bit a quotient ends with.                                           *)
LEMMA HalfOf ==
  ASSUME NEW x \in Nat, NEW k \in Nat \ {0}
  PROVE  /\ x \div k \in Nat /\ x \div (2 * k) \in Nat
         /\ (x \div k) % 2 = (x \div k) - 2 * (x \div (2 * k)) /\ (x \div k) % 2 \in {0, 1}
<1>1. PICK q \in Nat, r \in Nat : x = q * (2 * k) + r /\ r < 2 * k /\ q = x \div (2 * k)
  <2>1. PICK l \in Nat \ {0} : l = 2 * k
    OBVIOUS
  <2>2. x \div l \in Nat /\ x % l \in 0..l - 1 /\ x = (x \div l) * l + (x % l)
    BY DivFound
  <2>3. x % l \in Nat /\ x % l < l
    BY <2>2
  <2> QED
    BY <2>1, <2>2, <2>3, Zenon
<1>2. PICK p \in Int : p = q * k /\ q * (2 * k) = 2 * p
  OBVIOUS
<1>3. \A y, len \in Int, s \in 0..k - 1 : y = len * k + s => y \div k = len /\ y % k = s
  BY DivIs
<1>4. x = 2 * p + r
  BY <1>1, <1>2, Zenon
<1>5. CASE r < k
  <2>1. x = (2 * q) * k + r
    <3>1. (2 * q) * k = 2 * p
      BY <1>2
    <3> QED
      BY <1>4, <3>1, Zenon
  <2>2. x \div k = 2 * q
    BY <1>3, <1>5, <2>1
  <2> QED
    BY <1>1, <2>2
<1>6. CASE r >= k
  <2>1. x = (2 * q + 1) * k + (r - k)
    <3>1. (2 * q + 1) * k = 2 * p + k
      BY <1>2
    <3> QED
      BY <1>4, <3>1
  <2>2. x \div k = 2 * q + 1
    <3>1. r - k \in 0..k - 1
      BY <1>1, <1>6
    <3> QED
      BY <1>3, <2>1, <3>1
  <2> QED
    BY <1>1, <2>2
<1> QED
  BY <1>5, <1>6

(* The first k bits of an octet.                                           *)
Upper(a, k) == a \div 2 ^ (8 - k)

(* The powers of two the bits of an octet are worth.                       *)
LEMMA TwoTo ==
  \A k \in 0..7 : 2 ^ (7 - k) \in Nat \ {0} /\ 2 ^ (8 - k) = 2 * 2 ^ (7 - k) /\ 2 ^ (8 - (k + 1)) = 2 ^ (7 - k)
<1> SUFFICES ASSUME NEW k \in 0..7
             PROVE  2 ^ (7 - k) \in Nat \ {0} /\ 2 ^ (8 - k) = 2 * 2 ^ (7 - k) /\ 2 ^ (8 - (k + 1)) = 2 ^ (7 - k)
  OBVIOUS
<1>1. /\ 2 ^ 8 = 256 /\ 2 ^ 7 = 128 /\ 2 ^ 6 = 64 /\ 2 ^ 5 = 32 /\ 2 ^ 4 = 16
      /\ 2 ^ 3 = 8 /\ 2 ^ 2 = 4 /\ 2 ^ 1 = 2 /\ 2 ^ 0 = 1
  BY SMT
<1>2. 8 - (k + 1) = 7 - k
  OBVIOUS
<1>3. k = 0 \/ k = 1 \/ k = 2 \/ k = 3 \/ k = 4 \/ k = 5 \/ k = 6 \/ k = 7
  OBVIOUS
<1>4. 2 ^ (7 - k) \in Nat \ {0} /\ 2 ^ (8 - k) = 2 * 2 ^ (7 - k)
  <2>1. CASE k = 0
    BY <1>1, <2>1
  <2>2. CASE k = 1
    BY <1>1, <2>2
  <2>3. CASE k = 2
    BY <1>1, <2>3
  <2>4. CASE k = 3
    BY <1>1, <2>4
  <2>5. CASE k = 4
    BY <1>1, <2>5
  <2>6. CASE k = 5
    BY <1>1, <2>6
  <2>7. CASE k = 6
    BY <1>1, <2>7
  <2>8. CASE k = 7
    BY <1>1, <2>8
  <2> QED
    BY <1>3, <2>1, <2>2, <2>3, <2>4, <2>5, <2>6, <2>7, <2>8, Zenon
<1> QED
  BY <1>2, <1>4, Zenon

(* A bit is what the first bits up to it are more than twice those before. *)
Cuts(octets, i, a) ==
  /\ Upper(a, 0) = 0 /\ Upper(a, 8) = a /\ Upper(a, 8) \in Nat
  /\ \A k \in 0..7 : /\ Upper(a, k) \in Nat
                     /\ Base!Bit(octets, 8 * i + k) = Upper(a, k + 1) - 2 * Upper(a, k)
                     /\ Base!Bit(octets, 8 * i + k) \in {0, 1}

(* The bits of an octet, as the standard counts them.                      *)
LEMMA OctetBits ==
  ASSUME NEW octets \in Seq(Octets), NEW i \in Nat, NEW a, a = Base!At(octets, i + 1)
  PROVE  Cuts(octets, i, a)
<1>1. a \in Nat /\ a < 256
  <2>1. i + 1 \in Nat \ {0}
    OBVIOUS
  <2> QED
    BY <2>1, OctetIn
<1>2. Upper(a, 0) = 0 /\ Upper(a, 8) = a
  <2>1. 2 ^ 8 = 256 /\ 2 ^ 0 = 1 /\ 8 - 0 = 8 /\ 8 - 8 = 0
    BY SMT
  <2>2. a \div 256 = 0 /\ a \div 1 = a
    BY <1>1, DivIs
  <2> QED
    BY <2>1, <2>2 DEF Upper
<1>3. ASSUME NEW k \in 0..7
      PROVE  /\ Upper(a, k) \in Nat
             /\ Base!Bit(octets, 8 * i + k) = Upper(a, k + 1) - 2 * Upper(a, k)
             /\ Base!Bit(octets, 8 * i + k) \in {0, 1}
  <2>1. (8 * i + k) \div 8 = i /\ (8 * i + k) % 8 = k
    OBVIOUS
  <2>2. Base!Bit(octets, 8 * i + k) = (a \div 2 ^ (7 - k)) % 2
    BY <1>1, <2>1 DEF Base!Bit
  <2>3. PICK p \in Nat \ {0} : p = 2 ^ (7 - k) /\ 2 ^ (8 - k) = 2 * p /\ 2 ^ (8 - (k + 1)) = p
    BY TwoTo, Zenon
  <2>4. /\ a \div p \in Nat /\ a \div (2 * p) \in Nat
        /\ (a \div p) % 2 = (a \div p) - 2 * (a \div (2 * p)) /\ (a \div p) % 2 \in {0, 1}
    BY <1>1, HalfOf
  <2>5. Upper(a, k) = a \div (2 * p) /\ Upper(a, k + 1) = a \div p
    BY <2>3, Zenon DEF Upper
  <2> QED
    BY <2>2, <2>3, <2>4, <2>5, Zenon
<1> QED
  BY <1>1, <1>2, <1>3 DEF Cuts

(* Six bits in a row.                                                      *)
Sextet6(octets, bit) ==
  32 * Base!Bit(octets, bit) + 16 * Base!Bit(octets, bit + 1) + 8 * Base!Bit(octets, bit + 2)
    + 4 * Base!Bit(octets, bit + 3) + 2 * Base!Bit(octets, bit + 4) + Base!Bit(octets, bit + 5)

(* An octet is the sum of its bits.                                        *)
Summed(octets, i) ==
  LET bit(k) == Base!Bit(octets, 8 * i + k)
  IN  /\ \A k \in 0..7 : bit(k) \in {0, 1}
      /\ Base!At(octets, i + 1) = 128 * bit(0) + 64 * bit(1) + 32 * bit(2) + 16 * bit(3)
                               + 8 * bit(4) + 4 * bit(5) + 2 * bit(6) + bit(7)

(* The bits one by one.                                                    *)
LEMMA OctetSum ==
  ASSUME NEW octets \in Seq(Octets), NEW i \in Nat
  PROVE  Summed(octets, i)
<1> DEFINE a == Base!At(octets, i + 1)
           bit(k) == Base!Bit(octets, 8 * i + k)
           b0 == bit(0)
           b1 == bit(1)
           b2 == bit(2)
           b3 == bit(3)
           b4 == bit(4)
           b5 == bit(5)
           b6 == bit(6)
           b7 == bit(7)
           f0 == Upper(a, 0)
           f1 == Upper(a, 1)
           f2 == Upper(a, 2)
           f3 == Upper(a, 3)
           f4 == Upper(a, 4)
           f5 == Upper(a, 5)
           f6 == Upper(a, 6)
           f7 == Upper(a, 7)
           f8 == Upper(a, 8)
<1>1. Cuts(octets, i, a)
  <2>1. \A x : x = Base!At(octets, i + 1) => Cuts(octets, i, x)
    BY OctetBits
  <2> QED
    BY <2>1
<1>2. f0 = 0 /\ f8 = a /\ f8 \in Nat
  BY <1>1, Zenon DEF Cuts
<1>3. ASSUME NEW k \in 0..7, NEW l, l = k + 1
      PROVE  Upper(a, k) \in Nat /\ bit(k) = Upper(a, l) - 2 * Upper(a, k) /\ bit(k) \in {0, 1}
  BY <1>1, <1>3, Zenon DEF Cuts
<1>4. f0 \in Nat /\ b0 = f1 - 2 * f0 /\ b0 \in {0, 1}
  <2>1. 0 \in 0..7 /\ 1 = 0 + 1
    OBVIOUS
  <2> QED
    BY <1>3, <2>1, Zenon
<1>5. f1 \in Nat /\ b1 = f2 - 2 * f1 /\ b1 \in {0, 1}
  <2>1. 1 \in 0..7 /\ 2 = 1 + 1
    OBVIOUS
  <2> QED
    BY <1>3, <2>1, Zenon
<1>6. f2 \in Nat /\ b2 = f3 - 2 * f2 /\ b2 \in {0, 1}
  <2>1. 2 \in 0..7 /\ 3 = 2 + 1
    OBVIOUS
  <2> QED
    BY <1>3, <2>1, Zenon
<1>7. f3 \in Nat /\ b3 = f4 - 2 * f3 /\ b3 \in {0, 1}
  <2>1. 3 \in 0..7 /\ 4 = 3 + 1
    OBVIOUS
  <2> QED
    BY <1>3, <2>1, Zenon
<1>8. f4 \in Nat /\ b4 = f5 - 2 * f4 /\ b4 \in {0, 1}
  <2>1. 4 \in 0..7 /\ 5 = 4 + 1
    OBVIOUS
  <2> QED
    BY <1>3, <2>1, Zenon
<1>9. f5 \in Nat /\ b5 = f6 - 2 * f5 /\ b5 \in {0, 1}
  <2>1. 5 \in 0..7 /\ 6 = 5 + 1
    OBVIOUS
  <2> QED
    BY <1>3, <2>1, Zenon
<1>10. f6 \in Nat /\ b6 = f7 - 2 * f6 /\ b6 \in {0, 1}
  <2>1. 6 \in 0..7 /\ 7 = 6 + 1
    OBVIOUS
  <2> QED
    BY <1>3, <2>1, Zenon
<1>11. f7 \in Nat /\ b7 = f8 - 2 * f7 /\ b7 \in {0, 1}
  <2>1. 7 \in 0..7 /\ 8 = 7 + 1
    OBVIOUS
  <2> QED
    BY <1>3, <2>1, Zenon
<1>12. \A k \in 0..7 : bit(k) \in {0, 1}
  <2> SUFFICES ASSUME NEW k \in 0..7
               PROVE  bit(k) \in {0, 1}
    OBVIOUS
  <2>1. PICK l : l = k + 1
    OBVIOUS
  <2> QED
    BY <1>3, <2>1, Zenon
<1>13. a = 128 * b0 + 64 * b1 + 32 * b2 + 16 * b3 + 8 * b4 + 4 * b5 + 2 * b6 + b7
  <2> HIDE DEF a, f0, f1, f2, f3, f4, f5, f6, f7, f8, b0, b1, b2, b3, b4, b5, b6, b7
  <2> QED
    BY <1>2, <1>4, <1>5, <1>6, <1>7, <1>8, <1>9, <1>10, <1>11
<1> QED
  BY <1>12, <1>13, Zenon DEF Summed

(* The sextets a number is put together from.                              *)
LEMMA FourSix ==
  ASSUME NEW s \in Nat, NEW x \in Nat, NEW y \in Nat, NEW z \in Nat, s < 64, x < 64, y < 64, z < 64,
         NEW t, t = Four(s, x, y, z)
  PROVE  Six(t, 0) = s /\ Six(t, 1) = x /\ Six(t, 2) = y /\ Six(t, 3) = z
<1>1. t \in Nat /\ Small24(t)
  BY SMT DEF Four, Small24
<1>2. t = Four(Six(t, 0), Six(t, 1), Six(t, 2), Six(t, 3)) /\ \A k \in 0..3 : Six(t, k) \in Nat /\ Six(t, k) < 64
  BY <1>1, SixIs
<1>3. /\ Six(t, 0) \in Nat /\ Six(t, 0) < 64 /\ Six(t, 1) \in Nat /\ Six(t, 1) < 64
      /\ Six(t, 2) \in Nat /\ Six(t, 2) < 64 /\ Six(t, 3) \in Nat /\ Six(t, 3) < 64
  BY <1>2
<1>4. PICK i, j, k, l \in Nat : /\ i = Six(t, 0) /\ j = Six(t, 1) /\ k = Six(t, 2) /\ l = Six(t, 3)
                                /\ i < 64 /\ j < 64 /\ k < 64 /\ l < 64
  BY <1>3
<1>5. Four(s, x, y, z) = Four(i, j, k, l)
  BY <1>2, <1>4, Zenon
<1>6. s = i /\ x = j /\ y = k /\ z = l
  BY <1>4, <1>5, SMT DEF Four
<1> QED
  BY <1>4, <1>6, Zenon

(* The standard's bits of a sextet are the code's.                         *)
LEMMA SextetBits ==
  ASSUME NEW octets \in Seq(Octets), NEW g \in Nat, NEW q \in 0..3
  PROVE  Sextet6(octets, 24 * g + 6 * q) = Six(Group(octets, g), q)
<1> DEFINE a == Base!At(octets, 3 * g + 1)
           b == Base!At(octets, 3 * g + 2)
           c == Base!At(octets, 3 * g + 3)
           b0 == Base!Bit(octets, 24 * g + 0)
           b1 == Base!Bit(octets, 24 * g + 1)
           b2 == Base!Bit(octets, 24 * g + 2)
           b3 == Base!Bit(octets, 24 * g + 3)
           b4 == Base!Bit(octets, 24 * g + 4)
           b5 == Base!Bit(octets, 24 * g + 5)
           b6 == Base!Bit(octets, 24 * g + 6)
           b7 == Base!Bit(octets, 24 * g + 7)
           b8 == Base!Bit(octets, 24 * g + 8)
           b9 == Base!Bit(octets, 24 * g + 9)
           b10 == Base!Bit(octets, 24 * g + 10)
           b11 == Base!Bit(octets, 24 * g + 11)
           b12 == Base!Bit(octets, 24 * g + 12)
           b13 == Base!Bit(octets, 24 * g + 13)
           b14 == Base!Bit(octets, 24 * g + 14)
           b15 == Base!Bit(octets, 24 * g + 15)
           b16 == Base!Bit(octets, 24 * g + 16)
           b17 == Base!Bit(octets, 24 * g + 17)
           b18 == Base!Bit(octets, 24 * g + 18)
           b19 == Base!Bit(octets, 24 * g + 19)
           b20 == Base!Bit(octets, 24 * g + 20)
           b21 == Base!Bit(octets, 24 * g + 21)
           b22 == Base!Bit(octets, 24 * g + 22)
           b23 == Base!Bit(octets, 24 * g + 23)
           s0 == 32 * b0 + 16 * b1 + 8 * b2 + 4 * b3 + 2 * b4 + b5
           s1 == 32 * b6 + 16 * b7 + 8 * b8 + 4 * b9 + 2 * b10 + b11
           s2 == 32 * b12 + 16 * b13 + 8 * b14 + 4 * b15 + 2 * b16 + b17
           s3 == 32 * b18 + 16 * b19 + 8 * b20 + 4 * b21 + 2 * b22 + b23
<1>1. /\ b0 \in {0, 1} /\ b1 \in {0, 1} /\ b2 \in {0, 1} /\ b3 \in {0, 1} /\ b4 \in {0, 1} /\ b5 \in {0, 1} /\ b6 \in {0, 1} /\ b7 \in {0, 1}
      /\ a = 128 * b0 + 64 * b1 + 32 * b2 + 16 * b3 + 8 * b4 + 4 * b5 + 2 * b6 + b7
  <2>1. PICK i \in Nat : i = 3 * g + 0 /\ i + 1 = 3 * g + 1 /\ 8 * i = 24 * g + 0
    OBVIOUS
  <2>2. Summed(octets, i)
    BY OctetSum
  <2>3. 0 \in 0..7 /\ 1 \in 0..7 /\ 2 \in 0..7 /\ 3 \in 0..7 /\ 4 \in 0..7 /\ 5 \in 0..7 /\ 6 \in 0..7 /\ 7 \in 0..7
    OBVIOUS
  <2>4. 8 * i + 0 = 24 * g + 0 /\ 8 * i + 1 = 24 * g + 1 /\ 8 * i + 2 = 24 * g + 2 /\ 8 * i + 3 = 24 * g + 3 /\ 8 * i + 4 = 24 * g + 4 /\ 8 * i + 5 = 24 * g + 5 /\ 8 * i + 6 = 24 * g + 6 /\ 8 * i + 7 = 24 * g + 7
    BY <2>1
  <2> QED
    BY <2>1, <2>2, <2>3, <2>4, SMT DEF Summed
<1>2. /\ b8 \in {0, 1} /\ b9 \in {0, 1} /\ b10 \in {0, 1} /\ b11 \in {0, 1} /\ b12 \in {0, 1} /\ b13 \in {0, 1} /\ b14 \in {0, 1} /\ b15 \in {0, 1}
      /\ b = 128 * b8 + 64 * b9 + 32 * b10 + 16 * b11 + 8 * b12 + 4 * b13 + 2 * b14 + b15
  <2>1. PICK i \in Nat : i = 3 * g + 1 /\ i + 1 = 3 * g + 2 /\ 8 * i = 24 * g + 8
    OBVIOUS
  <2>2. Summed(octets, i)
    BY OctetSum
  <2>3. 0 \in 0..7 /\ 1 \in 0..7 /\ 2 \in 0..7 /\ 3 \in 0..7 /\ 4 \in 0..7 /\ 5 \in 0..7 /\ 6 \in 0..7 /\ 7 \in 0..7
    OBVIOUS
  <2>4. 8 * i + 0 = 24 * g + 8 /\ 8 * i + 1 = 24 * g + 9 /\ 8 * i + 2 = 24 * g + 10 /\ 8 * i + 3 = 24 * g + 11 /\ 8 * i + 4 = 24 * g + 12 /\ 8 * i + 5 = 24 * g + 13 /\ 8 * i + 6 = 24 * g + 14 /\ 8 * i + 7 = 24 * g + 15
    BY <2>1
  <2> QED
    BY <2>1, <2>2, <2>3, <2>4, SMT DEF Summed
<1>3. /\ b16 \in {0, 1} /\ b17 \in {0, 1} /\ b18 \in {0, 1} /\ b19 \in {0, 1} /\ b20 \in {0, 1} /\ b21 \in {0, 1} /\ b22 \in {0, 1} /\ b23 \in {0, 1}
      /\ c = 128 * b16 + 64 * b17 + 32 * b18 + 16 * b19 + 8 * b20 + 4 * b21 + 2 * b22 + b23
  <2>1. PICK i \in Nat : i = 3 * g + 2 /\ i + 1 = 3 * g + 3 /\ 8 * i = 24 * g + 16
    OBVIOUS
  <2>2. Summed(octets, i)
    BY OctetSum
  <2>3. 0 \in 0..7 /\ 1 \in 0..7 /\ 2 \in 0..7 /\ 3 \in 0..7 /\ 4 \in 0..7 /\ 5 \in 0..7 /\ 6 \in 0..7 /\ 7 \in 0..7
    OBVIOUS
  <2>4. 8 * i + 0 = 24 * g + 16 /\ 8 * i + 1 = 24 * g + 17 /\ 8 * i + 2 = 24 * g + 18 /\ 8 * i + 3 = 24 * g + 19 /\ 8 * i + 4 = 24 * g + 20 /\ 8 * i + 5 = 24 * g + 21 /\ 8 * i + 6 = 24 * g + 22 /\ 8 * i + 7 = 24 * g + 23
    BY <2>1
  <2> QED
    BY <2>1, <2>2, <2>3, <2>4, SMT DEF Summed
<1>4. Group(octets, g) = Three(a, b, c)
  BY DEF Group
<1>5. Sextet6(octets, 24 * g + 6 * 0) = s0
  <2>1. 24 * g + 6 * 0 = 24 * g + 0
    OBVIOUS
  <2>2. 24 * g + 0 + 1 = 24 * g + 1 /\ 24 * g + 0 + 2 = 24 * g + 2 /\ 24 * g + 0 + 3 = 24 * g + 3 /\ 24 * g + 0 + 4 = 24 * g + 4 /\ 24 * g + 0 + 5 = 24 * g + 5
    OBVIOUS
  <2> QED
    BY <2>1, <2>2, SMT DEF Sextet6
<1>6. Sextet6(octets, 24 * g + 6 * 1) = s1
  <2>1. 24 * g + 6 * 1 = 24 * g + 6
    OBVIOUS
  <2>2. 24 * g + 6 + 1 = 24 * g + 7 /\ 24 * g + 6 + 2 = 24 * g + 8 /\ 24 * g + 6 + 3 = 24 * g + 9 /\ 24 * g + 6 + 4 = 24 * g + 10 /\ 24 * g + 6 + 5 = 24 * g + 11
    OBVIOUS
  <2> QED
    BY <2>1, <2>2, SMT DEF Sextet6
<1>7. Sextet6(octets, 24 * g + 6 * 2) = s2
  <2>1. 24 * g + 6 * 2 = 24 * g + 12
    OBVIOUS
  <2>2. 24 * g + 12 + 1 = 24 * g + 13 /\ 24 * g + 12 + 2 = 24 * g + 14 /\ 24 * g + 12 + 3 = 24 * g + 15 /\ 24 * g + 12 + 4 = 24 * g + 16 /\ 24 * g + 12 + 5 = 24 * g + 17
    OBVIOUS
  <2> QED
    BY <2>1, <2>2, SMT DEF Sextet6
<1>8. Sextet6(octets, 24 * g + 6 * 3) = s3
  <2>1. 24 * g + 6 * 3 = 24 * g + 18
    OBVIOUS
  <2>2. 24 * g + 18 + 1 = 24 * g + 19 /\ 24 * g + 18 + 2 = 24 * g + 20 /\ 24 * g + 18 + 3 = 24 * g + 21 /\ 24 * g + 18 + 4 = 24 * g + 22 /\ 24 * g + 18 + 5 = 24 * g + 23
    OBVIOUS
  <2> QED
    BY <2>1, <2>2, SMT DEF Sextet6
<1> HIDE DEF a, b, c, b0, b1, b2, b3, b4, b5, b6, b7, b8, b9, b10, b11, b12, b13, b14, b15, b16, b17, b18, b19, b20, b21, b22, b23
<1>9. s0 \in Nat /\ s0 < 64
  BY <1>1, <1>2, <1>3
<1>10. s1 \in Nat /\ s1 < 64
  BY <1>1, <1>2, <1>3
<1>11. s2 \in Nat /\ s2 < 64
  BY <1>1, <1>2, <1>3
<1>12. s3 \in Nat /\ s3 < 64
  BY <1>1, <1>2, <1>3
<1>13. Three(a, b, c) = Four(s0, s1, s2, s3)
  BY <1>1, <1>2, <1>3, SMT DEF Three, Four
<1> HIDE DEF s0, s1, s2, s3
<1>14. /\ Six(Group(octets, g), 0) = s0 /\ Six(Group(octets, g), 1) = s1
       /\ Six(Group(octets, g), 2) = s2 /\ Six(Group(octets, g), 3) = s3
  <2>1. Group(octets, g) = Four(s0, s1, s2, s3)
    BY <1>4, <1>13, Zenon
  <2> QED
    BY <1>9, <1>10, <1>11, <1>12, <2>1, FourSix
<1>15. q = 0 \/ q = 1 \/ q = 2 \/ q = 3
  OBVIOUS
<1> QED
  BY <1>5, <1>6, <1>7, <1>8, <1>14, <1>15, Zenon

(* The standard's sextets, one by one.                                     *)
LEMMA SextetsAre ==
  ASSUME NEW octets \in Seq(Octets)
  PROVE  Base!RFCSextets(octets) = [j \in 1..(8 * Len(octets) + 5) \div 6 |-> Sextet6(octets, 6 * (j - 1))]
<1>1. ASSUME NEW j \in Int
      PROVE  LET bit(k) == Base!Bit(octets, 6 * (j - 1) + k)
             IN  Sextet6(octets, 6 * (j - 1)) =
                   32 * bit(0) + 16 * bit(1) + 8 * bit(2) + 4 * bit(3) + 2 * bit(4) + bit(5)
  <2>1. 6 * (j - 1) + 0 = 6 * (j - 1)
    OBVIOUS
  <2> QED
    BY <2>1, Zenon DEF Sextet6
<1>2. ((8 * Len(octets) + 5) \div 6) \in Int
  OBVIOUS
<1>3. \A j \in 1..(8 * Len(octets) + 5) \div 6 : j \in Int
  BY <1>2
<1> QED
  BY <1>1, <1>3, Zenon DEF Base!RFCSextets

(* The text is the standard's.                                             *)
LEMMA TextIs ==
  ASSUME NEW octets \in Seq(Octets)
  PROVE  LET sextets == Base!RFCSextets(octets)
         IN  Base!Encode(octets) = sextets \o [i \in 1..(4 - (Len(sextets) % 4)) % 4 |-> Base!Pad]
<1> DEFINE length == Len(octets)
           m == (length + 2) \div 3
           signs == Signs(length)
           sextets == Base!RFCSextets(octets)
           six == 4 * m - signs
           pads == [i \in 1..(4 - (Len(sextets) % 4)) % 4 |-> Base!Pad]
           text == Base!Encode(octets)
<1>1. length \in Nat
  OBVIOUS
<1>2. /\ m \in Nat /\ signs \in 0..2 /\ six \in Nat /\ (8 * length + 5) \div 6 = six
      /\ (4 - (six % 4)) % 4 = signs /\ six + signs = 4 * m
  <2> HIDE DEF length
  <2> QED
    BY <1>1 DEF Signs
<1>3. text = [j \in 1..4 * m |-> text[j]]
  BY EncodeIs, Zenon
<1>4. \A g \in 0..m - 1, k \in 0..3 :
        text[4 * g + k + 1] = IF 4 * g + k + 1 > six THEN Base!Pad ELSE Six(Group(octets, g), k)
  BY EncodeIs, Zenon
<1>5. sextets = [j \in 1..six |-> Sextet6(octets, 6 * (j - 1))]
  BY <1>2, SextetsAre, Zenon
<1> HIDE DEF six, m, length, signs, text, sextets
<1>6. Len(sextets) = six
  BY <1>2, <1>5
<1>7. Len(pads) = signs /\ pads = [i \in 1..signs |-> Base!Pad]
  <2>1. pads = [i \in 1..signs |-> Base!Pad]
    BY <1>2, <1>6, Zenon
  <2> QED
    BY <1>2, <2>1
<1> HIDE DEF pads
<1>8. sextets \o pads = [j \in 1..4 * m |-> IF j <= six THEN sextets[j] ELSE pads[j - six]]
  <2> DEFINE whole == sextets \o pads
  <2>1. PICK S : \A j \in 1..six : Sextet6(octets, 6 * (j - 1)) \in S
    <3>1. \A j \in 1..six : Sextet6(octets, 6 * (j - 1)) \in {Sextet6(octets, 6 * (i - 1)) : i \in 1..six}
      OBVIOUS
    <3> QED
      BY <3>1
  <2>2. sextets \in [1..six -> S] /\ pads \in [1..signs -> {Base!Pad}]
    BY <1>5, <1>7, <2>1, Zenon
  <2>3. sextets \in Seq(S \cup {Base!Pad}) /\ pads \in Seq(S \cup {Base!Pad})
    BY <1>2, <2>2
  <2>4. /\ whole \in Seq(S \cup {Base!Pad}) /\ Len(whole) = six + signs
        /\ \A k \in 1..six : whole[k] = sextets[k]
        /\ \A k \in 1..signs : whole[six + k] = pads[k]
    <3>1. PICK Z : sextets \in Seq(Z) /\ pads \in Seq(Z) /\ Z = S \cup {Base!Pad}
      BY <2>3
    <3>2. /\ whole \in Seq(Z) /\ Len(whole) = Len(sextets) + Len(pads)
          /\ \A k \in 1..Len(sextets) : whole[k] = sextets[k]
          /\ \A k \in 1..Len(pads) : whole[Len(sextets) + k] = pads[k]
      BY <3>1, JoinIs
    <3> QED
      BY <1>6, <1>7, <3>1, <3>2, Zenon
  <2> HIDE DEF whole
  <2>5. whole = [j \in 1..4 * m |-> whole[j]]
    BY <1>2, <2>4
  <2>6. ASSUME NEW j \in 1..4 * m
        PROVE  whole[j] = IF j <= six THEN sextets[j] ELSE pads[j - six]
    <3>1. CASE j <= six
      BY <1>2, <2>4, <3>1
    <3>2. CASE ~ (j <= six)
      <4>1. j - six \in 1..signs /\ six + (j - six) = j
        BY <1>2, <3>2
      <4> QED
        BY <2>4, <3>2, <4>1
    <3> QED
      BY <3>1, <3>2
  <2>7. whole = [j \in 1..4 * m |-> IF j <= six THEN sextets[j] ELSE pads[j - six]]
    BY <2>5, <2>6, Zenon
  <2> QED
    BY <2>7 DEF whole
<1>9. ASSUME NEW j \in 1..4 * m
      PROVE  text[j] = IF j <= six THEN sextets[j] ELSE pads[j - six]
  <2>1. PICK g \in 0..m - 1, k \in 0..3 : j = 4 * g + k + 1 /\ 6 * (j - 1) = 24 * g + 6 * k
    <3>1. (j - 1) \div 4 \in 0..m - 1 /\ (j - 1) % 4 \in 0..3 /\ j = 4 * ((j - 1) \div 4) + ((j - 1) % 4) + 1
      BY <1>2
    <3>2. \A g, k \in Int : j = 4 * g + k + 1 => 6 * (j - 1) = 24 * g + 6 * k
      OBVIOUS
    <3>3. (j - 1) \div 4 \in Int /\ (j - 1) % 4 \in Int
      BY <3>1, <1>2
    <3> QED
      BY <3>1, <3>2, <3>3, Zenon
  <2>2. text[j] = IF j > six THEN Base!Pad ELSE Six(Group(octets, g), k)
    BY <1>4, <2>1
  <2>3. CASE j <= six
    <3>1. sextets[j] = Sextet6(octets, 24 * g + 6 * k)
      BY <1>5, <2>1, <2>3, <1>2
    <3>2. Sextet6(octets, 24 * g + 6 * k) = Six(Group(octets, g), k)
      <4>1. g \in Nat
        BY <1>2
      <4> QED
        BY <4>1, SextetBits, Zenon
    <3>3. ~ (j > six)
      BY <1>2, <2>3
    <3> QED
      BY <2>2, <2>3, <3>1, <3>2, <3>3, Zenon
  <2>4. CASE ~ (j <= six)
    <3>1. j - six \in 1..signs /\ j > six
      BY <1>2, <2>4
    <3> QED
      BY <1>7, <2>2, <2>4, <3>1, Zenon
  <2> QED
    BY <2>3, <2>4
<1>10. text = sextets \o pads
  BY <1>3, <1>8, <1>9, Zenon
<1> QED
  BY <1>10, Zenon DEF sextets, pads, text

BaseInv == data \in Seq(Octets)

(* No octet.                                                               *)
LEMMA BaseStarts == Base!Init => BaseInv
BY DEF Base!Init, BaseInv

(* One octet more.                                                         *)
LEMMA BaseKept ==
  ASSUME BaseInv, Base!Next
  PROVE  BaseInv'
BY DEF Base!Next, BaseInv

(* From the invariant to the property.                                     *)
LEMMA BaseRight == BaseInv => Base!Base64Inverse
BY DecodeIs, TextIs, Zenon DEF BaseInv, Base!Base64Inverse

(* Steps of other parts.                                                   *)
LEMMA BaseSame ==
  ASSUME BaseInv, UNCHANGED data
  PROVE  BaseInv'
BY DEF BaseInv

-----------------------------------------------------------------------------
(* Sums *)

(* A set of numbers that holds 0, and the next of each, holds all.         *)
LEMMA AllUpTo ==
  ASSUME NEW z \in Nat, NEW P, 0 \in P, \A i \in 1..z : i - 1 \in P => i \in P
  PROVE  0..z \subseteq P
<1> SUFFICES ASSUME (0..z) \ P # {}
             PROVE  FALSE
  OBVIOUS
<1> DEFINE R == OpToRel(<, Nat)
           T == (0..z) \ P
<1>1. PICK x \in T : \A y \in T : ~(<<y, x>> \in R)
  <2>1. T \subseteq Nat /\ T # {}
    OBVIOUS
  <2> HIDE DEF T, R
  <2> QED
    BY <2>1, NatLessThanWellFounded, WFMin DEF R
<1>2. x # 0 /\ x - 1 \in T
  OBVIOUS
<1>3. <<x - 1, x>> \in R
  BY <1>2 DEF OpToRel
<1> QED
  BY <1>1, <1>2, <1>3

(* The sum of f[1] to f[z], as InfoString takes it.                       *)
Sum(f, z) == Info!Total(f, z)

(* A sum, which is recursive, is defined.                                  *)
LEMMA SumsExist ==
  ASSUME NEW z \in Nat, NEW f, \A i \in 1..z : f[i] \in Int
  PROVE  \E g \in [0..z -> Int] : g = [i \in 0..z |-> IF i = 0 THEN 0 ELSE g[i - 1] + f[i]]
<1> DEFINE Solves(g, m) == g = [i \in 0..m |-> IF i = 0 THEN 0 ELSE g[i - 1] + f[i]]
           P == {m \in 0..z : \E g \in [0..m -> Int] : Solves(g, m)}
<1>1. 0 \in P
  <2> DEFINE g == [i \in 0..0 |-> 0]
  <2>1. g \in [0..0 -> Int] /\ Solves(g, 0)
    OBVIOUS
  <2>2. \E h \in [0..0 -> Int] : Solves(h, 0)
    BY <2>1, Zenon
  <2>3. 0 \in 0..z
    OBVIOUS
  <2> QED
    BY <2>2, <2>3, Zenon
<1>2. ASSUME NEW m \in 1..z, m - 1 \in P
      PROVE  m \in P
  <2>1. PICK g \in [0..m - 1 -> Int] : Solves(g, m - 1)
    BY <1>2
  <2> DEFINE h == [i \in 0..m |-> IF i = m THEN g[m - 1] + f[m] ELSE g[i]]
  <2>2. h \in [0..m -> Int]
    OBVIOUS
  <2>3. ASSUME NEW i \in 0..m
        PROVE  h[i] = IF i = 0 THEN 0 ELSE h[i - 1] + f[i]
    <3>1. CASE i = m
      BY <3>1
    <3>2. CASE i # m
      <4>1. i \in 0..m - 1 /\ h[i] = g[i] /\ (i # 0 => i - 1 \in 0..m - 1 /\ h[i - 1] = g[i - 1])
        BY <3>2
      <4>2. g[i] = IF i = 0 THEN 0 ELSE g[i - 1] + f[i]
        BY <2>1, <4>1
      <4> QED
        BY <4>1, <4>2
    <3> QED
      BY <3>1, <3>2
  <2>4. Solves(h, m)
    <3> HIDE DEF h
    <3> QED
      BY <2>2, <2>3
  <2>5. m \in 0..z
    OBVIOUS
  <2> HIDE DEF h
  <2> QED
    BY <2>2, <2>4, <2>5, Zenon
<1>3. z \in P
  <2> HIDE DEF P
  <2>1. 0..z \subseteq P
    BY <1>1, <1>2, AllUpTo
  <2> QED
    BY <2>1
<1> QED
  BY <1>3

(* A sum is the last of the sums so far.                                   *)
LEMMA SumIs ==
  ASSUME NEW z \in Nat, NEW f, \A i \in 1..z : f[i] \in Int
  PROVE  \E g \in [0..z -> Int] : /\ g[0] = 0 /\ g[z] = Sum(f, z)
                                 /\ \A i \in 1..z : g[i] = g[i - 1] + f[i]
<1> DEFINE g == CHOOSE g : g = [i \in 0..z |-> IF i = 0 THEN 0 ELSE g[i - 1] + f[i]]
<1>1. PICK s \in [0..z -> Int] : s = [i \in 0..z |-> IF i = 0 THEN 0 ELSE s[i - 1] + f[i]]
  BY SumsExist
<1>2. g = [i \in 0..z |-> IF i = 0 THEN 0 ELSE g[i - 1] + f[i]]
  BY <1>1, Zenon
<1>3. Sum(f, z) = g[z]
  BY Zenon DEF Sum, Info!Total
<1> HIDE DEF g
<1>4. \A i \in 0..z : g[i] = s[i]
  <2> DEFINE P == {i \in 0..z : g[i] = s[i]}
  <2>1. 0 \in P
    BY <1>1, <1>2
  <2>2. \A i \in 1..z : i - 1 \in P => i \in P
    BY <1>1, <1>2
  <2> HIDE DEF P
  <2>3. 0..z \subseteq P
    BY <2>1, <2>2, AllUpTo
  <2> QED
    BY <2>3 DEF P
<1>5. g = s
  BY <1>1, <1>2, <1>4
<1> QED
  BY <1>1, <1>3, <1>5

(* A sum, a summand at a time.                                             *)
LEMMA SumStep ==
  ASSUME NEW z \in Nat, NEW f, \A i \in 1..z : f[i] \in Int
  PROVE  /\ Sum(f, z) \in Int
         /\ z = 0 => Sum(f, z) = 0
         /\ z # 0 => Sum(f, z - 1) \in Int /\ Sum(f, z) = Sum(f, z - 1) + f[z]
<1>1. PICK g \in [0..z -> Int] : g[0] = 0 /\ g[z] = Sum(f, z) /\ \A i \in 1..z : g[i] = g[i - 1] + f[i]
  BY SumIs
<1>2. CASE z = 0
  BY <1>1, <1>2
<1>3. CASE z # 0
  <2>1. z - 1 \in Nat /\ \A i \in 1..z - 1 : f[i] \in Int
    BY <1>3
  <2>2. PICK h \in [0..z - 1 -> Int] :
          h[0] = 0 /\ h[z - 1] = Sum(f, z - 1) /\ \A i \in 1..z - 1 : h[i] = h[i - 1] + f[i]
    BY <2>1, SumIs
  <2> DEFINE P == {i \in 0..z - 1 : g[i] = h[i]}
  <2>3. 0 \in P
    BY <1>1, <2>1, <2>2
  <2>4. \A i \in 1..z - 1 : i - 1 \in P => i \in P
    BY <1>1, <2>2
  <2>5. z - 1 \in P
    <3> HIDE DEF P
    <3>1. 0..z - 1 \subseteq P
      BY <2>1, <2>3, <2>4, AllUpTo
    <3> QED
      BY <2>1, <3>1
  <2> QED
    BY <1>1, <1>3, <2>1, <2>2, <2>5
<1> QED
  BY <1>2, <1>3

(* Sums of what agrees agree.                                              *)
LEMMA SumSame ==
  ASSUME NEW z \in Nat, NEW f, \A i \in 1..z : f[i] \in Int, NEW g, \A i \in 1..z : g[i] = f[i]
  PROVE  Sum(g, z) = Sum(f, z)
<1> DEFINE P == {k \in 0..z : Sum(g, k) = Sum(f, k)}
<1>1. \A k \in 0..z : /\ k = 0 => Sum(f, k) = 0 /\ Sum(g, k) = 0
                      /\ k # 0 => Sum(f, k) = Sum(f, k - 1) + f[k] /\ Sum(g, k) = Sum(g, k - 1) + g[k]
  <2> SUFFICES ASSUME NEW k \in 0..z
               PROVE  /\ k = 0 => Sum(f, k) = 0 /\ Sum(g, k) = 0
                      /\ k # 0 => Sum(f, k) = Sum(f, k - 1) + f[k] /\ Sum(g, k) = Sum(g, k - 1) + g[k]
    OBVIOUS
  <2>1. k \in Nat /\ \A i \in 1..k : f[i] \in Int /\ g[i] \in Int
    OBVIOUS
  <2>2. (k = 0 => Sum(f, k) = 0) /\ (k # 0 => Sum(f, k) = Sum(f, k - 1) + f[k])
    BY <2>1, SumStep
  <2>3. (k = 0 => Sum(g, k) = 0) /\ (k # 0 => Sum(g, k) = Sum(g, k - 1) + g[k])
    BY <2>1, SumStep
  <2> QED
    BY <2>2, <2>3
<1>2. 0 \in P
  BY <1>1
<1>3. \A k \in 1..z : k - 1 \in P => k \in P
  BY <1>1
<1> HIDE DEF P
<1>4. 0..z \subseteq P
  BY <1>2, <1>3, AllUpTo
<1> QED
  BY <1>4 DEF P

(* One summand changed.                                                    *)
LEMMA SumChanged ==
  ASSUME NEW z \in Nat, NEW f, \A i \in 1..z : f[i] \in Int,
         NEW j \in 1..z, NEW g, g[j] \in Int, \A i \in (1..z) \ {j} : g[i] = f[i]
  PROVE  Sum(g, z) = Sum(f, z) - f[j] + g[j]
<1> DEFINE P == {k \in 0..z : Sum(g, k) = IF k < j THEN Sum(f, k) ELSE Sum(f, k) - f[j] + g[j]}
<1>1. \A k \in 0..z : /\ Sum(f, k) \in Int /\ Sum(g, k) \in Int
                      /\ k = 0 => Sum(f, k) = 0 /\ Sum(g, k) = 0
                      /\ k # 0 => Sum(f, k) = Sum(f, k - 1) + f[k] /\ Sum(g, k) = Sum(g, k - 1) + g[k]
  <2> SUFFICES ASSUME NEW k \in 0..z
               PROVE  /\ Sum(f, k) \in Int /\ Sum(g, k) \in Int
                      /\ k = 0 => Sum(f, k) = 0 /\ Sum(g, k) = 0
                      /\ k # 0 => Sum(f, k) = Sum(f, k - 1) + f[k] /\ Sum(g, k) = Sum(g, k - 1) + g[k]
    OBVIOUS
  <2>1. k \in Nat /\ \A i \in 1..k : f[i] \in Int /\ g[i] \in Int
    OBVIOUS
  <2>2. Sum(f, k) \in Int /\ (k = 0 => Sum(f, k) = 0) /\ (k # 0 => Sum(f, k) = Sum(f, k - 1) + f[k])
    BY <2>1, SumStep
  <2>3. Sum(g, k) \in Int /\ (k = 0 => Sum(g, k) = 0) /\ (k # 0 => Sum(g, k) = Sum(g, k - 1) + g[k])
    BY <2>1, SumStep
  <2> QED
    BY <2>2, <2>3
<1>2. 0 \in P
  BY <1>1
<1>3. \A k \in 1..z : k - 1 \in P => k \in P
  <2> SUFFICES ASSUME NEW k \in 1..z, k - 1 \in P
               PROVE  k \in P
    OBVIOUS
  <2>1. /\ Sum(f, k) = Sum(f, k - 1) + f[k] /\ Sum(g, k) = Sum(g, k - 1) + g[k]
        /\ Sum(f, k - 1) \in Int /\ Sum(g, k - 1) \in Int /\ f[k] \in Int /\ f[j] \in Int
    BY <1>1
  <2>2. Sum(g, k - 1) = IF k - 1 < j THEN Sum(f, k - 1) ELSE Sum(f, k - 1) - f[j] + g[j]
    OBVIOUS
  <2>3. k # j => g[k] = f[k]
    OBVIOUS
  <2> QED
    BY <2>1, <2>2, <2>3
<1> HIDE DEF P
<1>4. 0..z \subseteq P
  BY <1>2, <1>3, AllUpTo
<1> QED
  BY <1>4 DEF P

(* A sum with one summand more at its start.                               *)
LEMMA SumShifted ==
  ASSUME NEW z \in Nat, NEW f, \A i \in 1..z : f[i] \in Int,
         NEW g, g[1] \in Int, \A i \in 1..z : g[i + 1] = f[i]
  PROVE  Sum(g, z + 1) = g[1] + Sum(f, z)
<1> DEFINE P == {k \in 0..z : Sum(g, k + 1) = g[1] + Sum(f, k)}
<1>1. \A k \in 1..z + 1 : g[k] \in Int
  <2> SUFFICES ASSUME NEW k \in 1..z + 1, k # 1
               PROVE  g[k] \in Int
    OBVIOUS
  <2>1. k - 1 \in 1..z /\ k = (k - 1) + 1
    OBVIOUS
  <2> QED
    BY <2>1
<1>2. \A k \in 0..z : /\ Sum(f, k) \in Int /\ Sum(g, k) \in Int
                      /\ k = 0 => Sum(f, k) = 0 /\ Sum(g, k) = 0
                      /\ k # 0 => Sum(f, k) = Sum(f, k - 1) + f[k]
                      /\ Sum(g, k + 1) = Sum(g, k) + g[k + 1]
  <2> SUFFICES ASSUME NEW k \in 0..z
               PROVE  /\ Sum(f, k) \in Int /\ Sum(g, k) \in Int
                      /\ k = 0 => Sum(f, k) = 0 /\ Sum(g, k) = 0
                      /\ k # 0 => Sum(f, k) = Sum(f, k - 1) + f[k]
                      /\ Sum(g, k + 1) = Sum(g, k) + g[k + 1]
    OBVIOUS
  <2>1. k \in Nat /\ (\A i \in 1..k : f[i] \in Int) /\ (\A i \in 1..k : g[i] \in Int)
    BY <1>1
  <2>2. k + 1 \in Nat /\ k + 1 # 0 /\ k + 1 - 1 = k /\ \A i \in 1..k + 1 : g[i] \in Int
    BY <1>1
  <2>3. Sum(f, k) \in Int /\ (k = 0 => Sum(f, k) = 0) /\ (k # 0 => Sum(f, k) = Sum(f, k - 1) + f[k])
    BY <2>1, SumStep
  <2>4. Sum(g, k) \in Int /\ (k = 0 => Sum(g, k) = 0)
    BY <2>1, SumStep
  <2>5. Sum(g, k + 1) = Sum(g, k + 1 - 1) + g[k + 1]
    BY <2>2, SumStep
  <2> QED
    BY <2>2, <2>3, <2>4, <2>5
<1>3. 0 \in P
  <2>1. 0 \in 0..z /\ Sum(f, 0) = 0 /\ Sum(g, 0) = 0 /\ Sum(g, 0 + 1) = Sum(g, 0) + g[0 + 1] /\ 0 + 1 = 1
    BY <1>2
  <2> QED
    BY <2>1
<1>4. \A k \in 1..z : k - 1 \in P => k \in P
  <2> SUFFICES ASSUME NEW k \in 1..z, k - 1 \in P
               PROVE  k \in P
    OBVIOUS
  <2>1. /\ Sum(f, k) = Sum(f, k - 1) + f[k] /\ Sum(g, k + 1) = Sum(g, k) + g[k + 1]
        /\ Sum(f, k - 1) \in Int /\ Sum(g, k) \in Int /\ f[k] \in Int /\ g[k + 1] = f[k]
    BY <1>2
  <2>2. Sum(g, k - 1 + 1) = g[1] + Sum(f, k - 1) /\ k - 1 + 1 = k
    OBVIOUS
  <2> QED
    BY <2>1, <2>2
<1> HIDE DEF P
<1>5. 0..z \subseteq P
  BY <1>3, <1>4, AllUpTo
<1> QED
  BY <1>5 DEF P

(* A sum with one summand less.                                            *)
LEMMA SumRemoved ==
  ASSUME NEW z \in Nat, NEW f, \A i \in 1..z : f[i] \in Int,
         NEW j \in 1..z, NEW g, \A i \in 1..z - 1 : g[i] = IF i < j THEN f[i] ELSE f[i + 1]
  PROVE  Sum(g, z - 1) = Sum(f, z) - f[j]
<1> DEFINE P == {k \in 0..z - 1 : Sum(g, k) = IF k < j THEN Sum(f, k) ELSE Sum(f, k + 1) - f[j]}
<1>0. z - 1 \in Nat
  OBVIOUS
<1>1. \A i \in 1..z - 1 : g[i] \in Int
  <2> SUFFICES ASSUME NEW i \in 1..z - 1
               PROVE  g[i] \in Int
    OBVIOUS
  <2>1. i \in 1..z /\ i + 1 \in 1..z
    OBVIOUS
  <2> QED
    BY <2>1
<1>2. \A k \in 0..z - 1 : /\ Sum(f, k) \in Int /\ Sum(g, k) \in Int
                          /\ k = 0 => Sum(f, k) = 0 /\ Sum(g, k) = 0
                          /\ k # 0 => Sum(g, k) = Sum(g, k - 1) + g[k] /\ Sum(f, k) = Sum(f, k - 1) + f[k]
                          /\ Sum(f, k + 1) = Sum(f, k) + f[k + 1]
  <2> SUFFICES ASSUME NEW k \in 0..z - 1
               PROVE  /\ Sum(f, k) \in Int /\ Sum(g, k) \in Int
                      /\ k = 0 => Sum(f, k) = 0 /\ Sum(g, k) = 0
                      /\ k # 0 => Sum(g, k) = Sum(g, k - 1) + g[k] /\ Sum(f, k) = Sum(f, k - 1) + f[k]
                      /\ Sum(f, k + 1) = Sum(f, k) + f[k + 1]
    OBVIOUS
  <2>1. k \in Nat /\ (\A i \in 1..k : f[i] \in Int) /\ (\A i \in 1..k : g[i] \in Int)
    BY <1>1
  <2>2. k + 1 \in Nat /\ k + 1 # 0 /\ k + 1 - 1 = k /\ \A i \in 1..k + 1 : f[i] \in Int
    OBVIOUS
  <2>3. Sum(f, k) \in Int /\ (k = 0 => Sum(f, k) = 0) /\ (k # 0 => Sum(f, k) = Sum(f, k - 1) + f[k])
    BY <2>1, SumStep
  <2>4. Sum(g, k) \in Int /\ (k = 0 => Sum(g, k) = 0) /\ (k # 0 => Sum(g, k) = Sum(g, k - 1) + g[k])
    BY <2>1, SumStep
  <2>5. Sum(f, k + 1) = Sum(f, k + 1 - 1) + f[k + 1]
    BY <2>2, SumStep
  <2> QED
    BY <2>2, <2>3, <2>4, <2>5
<1>3. 0 \in P
  BY <1>0, <1>2
<1>4. \A k \in 1..z - 1 : k - 1 \in P => k \in P
  <2> SUFFICES ASSUME NEW k \in 1..z - 1, k - 1 \in P
               PROVE  k \in P
    OBVIOUS
  <2>1. k \in 0..z - 1 /\ k - 1 \in 0..z - 1 /\ k # 0 /\ k \in 1..z /\ k + 1 \in 1..z /\ k - 1 + 1 = k
    OBVIOUS
  <2>2. /\ Sum(g, k) = Sum(g, k - 1) + g[k] /\ Sum(f, k) = Sum(f, k - 1) + f[k]
        /\ Sum(f, k + 1) = Sum(f, k) + f[k + 1]
        /\ Sum(f, k - 1) \in Int /\ Sum(g, k - 1) \in Int /\ f[k] \in Int /\ f[k + 1] \in Int /\ f[j] \in Int
    BY <1>2, <2>1
  <2>3. Sum(g, k - 1) = IF k - 1 < j THEN Sum(f, k - 1) ELSE Sum(f, k) - f[j]
    BY <2>1
  <2>4. g[k] = IF k < j THEN f[k] ELSE f[k + 1]
    OBVIOUS
  <2>5. k = j => f[k] = f[j]
    OBVIOUS
  <2> HIDE DEF P
  <2>6. Sum(g, k) = IF k < j THEN Sum(f, k) ELSE Sum(f, k + 1) - f[j]
    BY <2>2, <2>3, <2>4, <2>5
  <2> QED
    BY <2>6 DEF P
<1> HIDE DEF P
<1>5. 0..z - 1 \subseteq P
  BY <1>0, <1>3, <1>4, AllUpTo
<1>6. z - 1 \in P
  BY <1>0, <1>5
<1>7. Sum(f, z - 1) \in Int /\ f[z] \in Int /\ Sum(f, z) = Sum(f, z - 1) + f[z]
  BY SumStep
<1> QED
  BY <1>6, <1>7 DEF P

(* Nothing adds up to nothing.                                             *)
LEMMA SumNone ==
  ASSUME NEW z \in Nat, NEW f, \A i \in 1..z : f[i] = 0
  PROVE  Sum(f, z) = 0
<1> DEFINE P == {k \in 0..z : Sum(f, k) = 0}
<1>1. \A k \in 0..z : (k = 0 => Sum(f, k) = 0) /\ (k # 0 => Sum(f, k) = Sum(f, k - 1) + f[k])
  <2> SUFFICES ASSUME NEW k \in 0..z
               PROVE  (k = 0 => Sum(f, k) = 0) /\ (k # 0 => Sum(f, k) = Sum(f, k - 1) + f[k])
    OBVIOUS
  <2>1. k \in Nat /\ \A i \in 1..k : f[i] \in Int
    OBVIOUS
  <2> QED
    BY <2>1, SumStep
<1>2. 0 \in P
  BY <1>1
<1>3. \A k \in 1..z : k - 1 \in P => k \in P
  BY <1>1
<1> HIDE DEF P
<1>4. 0..z \subseteq P
  BY <1>2, <1>3, AllUpTo
<1> QED
  BY <1>4 DEF P

-----------------------------------------------------------------------------
(* Info strings *)

(* A set of numbers has a least one.                                       *)
LEMMA LeastIs ==
  ASSUME NEW I, I \subseteq Nat, I # {}
  PROVE  Info!Min(I) \in I /\ \A y \in I : Info!Min(I) <= y
<1> DEFINE R == OpToRel(<, Nat)
<1>1. PICK x \in I : \A y \in I : ~(<<y, x>> \in R)
  <2> HIDE DEF R
  <2> QED
    BY NatLessThanWellFounded, WFMin DEF R
<1>2. \A y \in I : x <= y
  <2> SUFFICES ASSUME NEW y \in I, ~(x <= y)
               PROVE  FALSE
    OBVIOUS
  <2>1. x \in Nat /\ y \in Nat /\ y < x
    OBVIOUS
  <2>2. <<y, x>> \in R
    BY <2>1 DEF OpToRel
  <2> QED
    BY <1>1, <2>2
<1> QED
  BY <1>2, Zenon DEF Info!Min

(* The first of the entries that are of some keys, or 0.                   *)
IsFirst(i, s, keys) ==
  /\ i \in 0..Len(s)
  /\ i = 0 => \A j \in 1..Len(s) : s[j].key \notin keys
  /\ i # 0 => s[i].key \in keys /\ \A j \in 1..i - 1 : s[j].key \notin keys

(* What is removed is the first entry of the key.                          *)
LEMMA RemoveIs ==
  ASSUME NEW S, NEW s \in Seq(S), NEW key
  PROVE  \E i : /\ IsFirst(i, s, {key})
                /\ Info!Info_RemoveKey(s, key) = IF i = 0 THEN s ELSE Info!RemoveAt(s, i)
<1> DEFINE I == {i \in 1..Len(s) : s[i].key = key}
           first == IF I # {} THEN Info!Min(I) ELSE 0
<1>1. Info!Info_RemoveKey(s, key) = IF first = 0 THEN s ELSE Info!RemoveAt(s, first)
  BY Zenon DEF Info!Info_RemoveKey, Info!SelectInSeq
<1>2. I # {} => first \in I /\ \A y \in I : first <= y
  <2>1. I \subseteq Nat
    OBVIOUS
  <2> HIDE DEF I
  <2> QED
    BY <2>1, LeastIs
<1>3. I = {} => first = 0
  OBVIOUS
<1>4. IsFirst(first, s, {key})
  <2> HIDE DEF first
  <2> QED
    BY <1>2, <1>3 DEF IsFirst
<1> QED
  BY <1>1, <1>4, Zenon

(* What is found is the first entry of the key in whatever case.           *)
LEMMA ValueIs ==
  ASSUME NEW S, NEW s \in Seq(S), NEW key, \A j \in 1..Len(s) : s[j].key \in Info!AllKeys
  PROVE  \E i : /\ IsFirst(i, s, {k \in Info!AllKeys : LowerCase[k] = LowerCase[key]})
                /\ Info!Info_ValueForKey(s, key) = IF i = 0 THEN Info!Empty ELSE s[i].value
<1> DEFINE I == {i \in 1..Len(s) : LowerCase[s[i].key] = LowerCase[key]}
           first == IF I # {} THEN Info!Min(I) ELSE 0
<1>1. Info!Info_ValueForKey(s, key) = IF first = 0 THEN Info!Empty ELSE s[first].value
  BY Zenon DEF Info!Info_ValueForKey, Info!SelectInSeq
<1>2. I # {} => first \in I /\ \A y \in I : first <= y
  <2>1. I \subseteq Nat
    OBVIOUS
  <2> HIDE DEF I
  <2> QED
    BY <2>1, LeastIs
<1>3. I = {} => first = 0
  OBVIOUS
<1>4. IsFirst(first, s, {k \in Info!AllKeys : LowerCase[k] = LowerCase[key]})
  <2> HIDE DEF first
  <2> QED
    BY <1>2, <1>3 DEF IsFirst
<1> QED
  BY <1>1, <1>4, Zenon

(* What is left of a sequence.                                             *)
LEMMA RemovedIs ==
  ASSUME NEW S, NEW s \in Seq(S), NEW i \in 1..Len(s)
  PROVE  /\ Info!RemoveAt(s, i) \in Seq(S) /\ Len(Info!RemoveAt(s, i)) = Len(s) - 1
         /\ \A j \in 1..Len(s) - 1 : Info!RemoveAt(s, i)[j] = IF j < i THEN s[j] ELSE s[j + 1]
<1> DEFINE l == Len(s)
           t == SubSeq(s, 1, i - 1)
           u == SubSeq(s, i + 1, l)
           r == Info!RemoveAt(s, i)
<1>1. r = t \o u
  BY DEF Info!RemoveAt
<1>2. i \in Nat \ {0} /\ l \in Nat /\ i <= l
  OBVIOUS
<1>3. t \in Seq(S) /\ Len(t) = i - 1 /\ \A j \in 1..i - 1 : t[j] = s[j]
  BY <1>2, SubSeqProperties
<1>4. u \in Seq(S) /\ Len(u) = l - i /\ \A j \in 1..l - i : u[j] = s[i + j]
  <2> DEFINE m == i + 1
  <2>1. m \in Int /\ l \in Int /\ \A k \in m..l : s[k] \in S
    BY <1>2
  <2>2. m <= l + 1 /\ l - m + 1 = l - i /\ \A j \in Int : m + j - 1 = i + j
    BY <1>2
  <2> HIDE DEF m, l
  <2>3. /\ SubSeq(s, m, l) \in Seq(S) /\ Len(SubSeq(s, m, l)) = IF m <= l THEN l - m + 1 ELSE 0
        /\ \A j \in 1..l - m + 1 : SubSeq(s, m, l)[j] = s[m + j - 1]
    BY <2>1, SubSeqProperties, SMTT(60)
  <2>4. \A j \in 1..l - i : SubSeq(s, m, l)[j] = s[i + j]
    BY <2>2, <2>3
  <2>5. Len(SubSeq(s, m, l)) = l - i
    BY <2>1, <2>2, <2>3, <1>2
  <2> QED
    BY <2>3, <2>4, <2>5, Zenon DEF m
<1> HIDE DEF t, u, r
<1>5. /\ r \in Seq(S) /\ Len(r) = (i - 1) + (l - i)
      /\ \A j \in 1..i - 1 : r[j] = t[j]
      /\ \A j \in 1..l - i : r[i - 1 + j] = u[j]
  <2>1. /\ r \in Seq(S) /\ Len(r) = Len(t) + Len(u)
        /\ \A j \in 1..Len(t) : r[j] = t[j]
        /\ \A j \in 1..Len(u) : r[Len(t) + j] = u[j]
    <3>1. t \in Seq(S) /\ u \in Seq(S)
      BY <1>3, <1>4
    <3>2. /\ t \o u \in Seq(S) /\ Len(t \o u) = Len(t) + Len(u)
          /\ \A k \in 1..Len(t) : (t \o u)[k] = t[k]
          /\ \A k \in 1..Len(u) : (t \o u)[Len(t) + k] = u[k]
      BY <3>1, JoinIs, SMTT(30)
    <3> QED
      BY <1>1, <3>2, Zenon
  <2> QED
    BY <1>3, <1>4, <2>1
<1>6. ASSUME NEW j \in 1..l - 1
      PROVE  r[j] = IF j < i THEN s[j] ELSE s[j + 1]
  <2>1. CASE j < i
    BY <1>2, <1>3, <1>5, <2>1
  <2>2. CASE ~(j < i)
    <3>1. j - i + 1 \in 1..l - i /\ i - 1 + (j - i + 1) = j /\ i + (j - i + 1) = j + 1
      BY <1>2, <2>2
    <3>2. r[i - 1 + (j - i + 1)] = u[j - i + 1] /\ u[j - i + 1] = s[i + (j - i + 1)]
      BY <1>4, <1>5, <3>1, Zenon
    <3> QED
      BY <2>2, <3>1, <3>2
  <2> QED
    BY <2>1, <2>2
<1> QED
  BY <1>2, <1>5, <1>6 DEF r

(* An entry before the others.                                             *)
LEMMA AddedIs ==
  ASSUME NEW S, NEW e \in S, NEW s \in Seq(S)
  PROVE  /\ <<e>> \o s \in Seq(S) /\ Len(<<e>> \o s) = Len(s) + 1 /\ (<<e>> \o s)[1] = e
         /\ \A j \in 1..Len(s) : (<<e>> \o s)[j + 1] = s[j]
<1>1. <<e>> \in Seq(S) /\ Len(<<e>>) = 1 /\ <<e>>[1] = e
  OBVIOUS
<1> DEFINE o == <<e>>
           w == o \o s
<1>2. o \in Seq(S) /\ Len(o) = 1 /\ o[1] = e
  BY <1>1
<1> HIDE DEF o
<1>3. /\ w \in Seq(S) /\ Len(w) = Len(o) + Len(s)
      /\ \A k \in 1..Len(o) : w[k] = o[k]
      /\ \A k \in 1..Len(s) : w[Len(o) + k] = s[k]
  BY <1>2, JoinIs
<1> HIDE DEF w
<1>4. Len(s) \in Nat
  OBVIOUS
<1>5. /\ w \in Seq(S) /\ Len(w) = Len(s) + 1 /\ w[1] = e
      /\ \A j \in 1..Len(s) : w[j + 1] = s[j]
  BY <1>2, <1>3, <1>4
<1> QED
  BY <1>5 DEF w, o

(* The entries of the string and the cells of the map.                     *)
InfoEntries == [key : Info!AllKeys, value : InfoValues]
InfoCells == {Info!NoEntry} \union [value : InfoValues, time : Nat \ {0}]

(* The lengths are numbers.                                                *)
LEMMA SizesIn ==
  /\ \A e \in InfoEntries : Info!EntrySize(e) \in Nat
  /\ \A map \in [Info!AllKeys -> InfoCells] : \A key \in Info!AllKeys : Info!KeySize(map, key) \in Nat
<1>1. \A text \in Info!AllKeys \union InfoValues : TextSize[text] \in Nat
  BY InfoAssumption
<1>2. \A e \in InfoEntries : Info!EntrySize(e) \in Nat
  BY <1>1 DEF InfoEntries, Info!EntrySize
<1>3. ASSUME NEW map \in [Info!AllKeys -> InfoCells], NEW key \in Info!AllKeys
      PROVE  Info!KeySize(map, key) \in Nat
  <2>1. map[key] # Info!NoEntry => map[key].value \in InfoValues
    BY DEF InfoCells
  <2> QED
    BY <1>1, <2>1 DEF Info!KeySize
<1> QED
  BY <1>2, <1>3

(* The size of the text is the sum of the sizes of its entries.            *)
LEMMA SizeWithout ==
  ASSUME NEW s \in Seq(InfoEntries), NEW i \in 1..Len(s)
  PROVE  /\ Info!InfoSize(s) \in Int /\ Info!InfoSize(Info!RemoveAt(s, i)) \in Int
         /\ Info!InfoSize(Info!RemoveAt(s, i)) = Info!InfoSize(s) - Info!EntrySize(s[i])
<1> DEFINE r == Info!RemoveAt(s, i)
           l == Len(s)
           f == [j \in 1..l |-> Info!EntrySize(s[j])]
           g == [j \in 1..Len(r) |-> Info!EntrySize(r[j])]
<1>1. /\ r \in Seq(InfoEntries) /\ Len(r) = l - 1
      /\ \A j \in 1..l - 1 : r[j] = IF j < i THEN s[j] ELSE s[j + 1]
  BY RemovedIs
<1> HIDE DEF r
<1>2. l \in Nat /\ \A j \in 1..l : f[j] \in Int
  <2>1. \A j \in 1..l : s[j] \in InfoEntries
    OBVIOUS
  <2>2. \A j \in 1..l : Info!EntrySize(s[j]) \in Nat
    BY <2>1, SizesIn, Zenon
  <2> QED
    BY <2>2
<1>3. \A j \in 1..l - 1 : g[j] = IF j < i THEN f[j] ELSE f[j + 1]
  <2> SUFFICES ASSUME NEW j \in 1..l - 1
               PROVE  g[j] = IF j < i THEN f[j] ELSE f[j + 1]
    OBVIOUS
  <2>1. j \in 1..l /\ j + 1 \in 1..l /\ j \in 1..Len(r)
    BY <1>1, <1>2
  <2>2. g[j] = Info!EntrySize(r[j]) /\ f[j] = Info!EntrySize(s[j]) /\ f[j + 1] = Info!EntrySize(s[j + 1])
    BY <2>1
  <2> QED
    BY <1>1, <2>2
<1>4. Info!InfoSize(s) = Sum(f, l) /\ Info!InfoSize(r) = Sum(g, l - 1)
  BY <1>1, Zenon DEF Info!InfoSize, Sum
<1>5. f[i] = Info!EntrySize(s[i])
  OBVIOUS
<1> HIDE DEF f, g, l
<1>6. i \in 1..l
  BY DEF l
<1>7. Sum(g, l - 1) = Sum(f, l) - f[i]
  BY <1>2, <1>3, <1>6, SumRemoved
<1>8. Sum(f, l) \in Int
  BY <1>2, SumStep
<1>9. f[i] \in Int
  BY <1>2, <1>6
<1> QED
  BY <1>4, <1>5, <1>7, <1>8, <1>9 DEF r

(* An entry before the others adds its size.                               *)
LEMMA SizeWith ==
  ASSUME NEW s \in Seq(InfoEntries), NEW e \in InfoEntries
  PROVE  Info!InfoSize(<<e>> \o s) = Info!EntrySize(e) + Info!InfoSize(s) /\ Info!InfoSize(s) \in Int
<1> DEFINE w == <<e>> \o s
           l == Len(s)
           f == [j \in 1..l |-> Info!EntrySize(s[j])]
           g == [j \in 1..l + 1 |-> Info!EntrySize(w[j])]
<1>1. w \in Seq(InfoEntries) /\ Len(w) = l + 1 /\ w[1] = e /\ \A j \in 1..l : w[j + 1] = s[j]
  BY AddedIs
<1> HIDE DEF w
<1>2. l \in Nat /\ \A j \in 1..l : f[j] \in Int
  <2>1. \A j \in 1..l : s[j] \in InfoEntries
    OBVIOUS
  <2>2. \A j \in 1..l : Info!EntrySize(s[j]) \in Nat
    BY <2>1, SizesIn, Zenon
  <2> QED
    BY <2>2
<1>3. g[1] = Info!EntrySize(e) /\ g[1] \in Int
  <2>1. Info!EntrySize(e) \in Nat
    BY SizesIn, Zenon
  <2>2. 1 \in 1..l + 1
    BY <1>2
  <2> QED
    BY <1>1, <2>1, <2>2
<1>4. \A j \in 1..l : g[j + 1] = f[j]
  <2>1. \A j \in 1..l : j + 1 \in 1..l + 1
    BY <1>2
  <2> QED
    BY <1>1, <2>1
<1>5. Info!InfoSize(s) = Sum(f, l) /\ Info!InfoSize(w) = Sum(g, l + 1)
  BY <1>1, Zenon DEF Info!InfoSize, Sum
<1> HIDE DEF f, g, l
<1>6. Sum(g, l + 1) = g[1] + Sum(f, l)
  BY <1>2, <1>3, <1>4, SumShifted
<1>7. Sum(f, l) \in Int
  BY <1>2, SumStep
<1> QED
  BY <1>3, <1>5, <1>6, <1>7 DEF w

(* The map's size changes by what its key's does.                          *)
LEMMA StoreChanged ==
  ASSUME NEW map \in [Info!AllKeys -> InfoCells], NEW key \in Info!AllKeys, NEW cell \in InfoCells,
         NEW new, new = [map EXCEPT ![key] = cell]
  PROVE  /\ Info!StoreSize(map) \in Int
         /\ Info!StoreSize(new) = Info!StoreSize(map) - Info!KeySize(map, key) + Info!KeySize(new, key)
<1> DEFINE l == Len(InfoKeys)
           f == [i \in 1..l |-> Info!KeySize(map, InfoKeys[i])]
           g == [i \in 1..l |-> Info!KeySize(new, InfoKeys[i])]
<1>1. /\ l \in Nat /\ Info!AllKeys = {InfoKeys[i] : i \in 1..l}
      /\ \A i, j \in 1..l : InfoKeys[i] = InfoKeys[j] => i = j
  BY InfoAssumption DEF Info!AllKeys, Info!Places
<1>2. PICK j \in 1..l : InfoKeys[j] = key
  BY <1>1
<1>3. new \in [Info!AllKeys -> InfoCells] /\ new[key] = cell /\ \A k \in Info!AllKeys \ {key} : new[k] = map[k]
  OBVIOUS
<1>4. Info!StoreSize(map) = Sum(f, l) /\ Info!StoreSize(new) = Sum(g, l)
  BY Zenon DEF Info!StoreSize, Sum, Info!Places
<1>5. \A i \in 1..l : InfoKeys[i] \in Info!AllKeys
  BY <1>1
<1>6. \A i \in 1..l : f[i] \in Int /\ g[i] \in Int
  <2>1. \A i \in 1..l : Info!KeySize(map, InfoKeys[i]) \in Nat
    BY <1>5, SizesIn, Zenon
  <2>2. \A i \in 1..l : Info!KeySize(new, InfoKeys[i]) \in Nat
    BY <1>3, <1>5, SizesIn, Zenon
  <2>3. \A i \in 1..l : f[i] = Info!KeySize(map, InfoKeys[i]) /\ g[i] = Info!KeySize(new, InfoKeys[i])
    BY Zenon
  <2>4. \A i \in 1..l : f[i] \in Nat /\ g[i] \in Nat
    BY <2>1, <2>2, <2>3, Zenon
  <2> HIDE DEF f, g, l
  <2> QED
    BY <2>4
<1>7. \A i \in (1..l) \ {j} : g[i] = f[i]
  <2> SUFFICES ASSUME NEW i \in 1..l, i # j
               PROVE  g[i] = f[i]
    OBVIOUS
  <2>1. InfoKeys[i] \in Info!AllKeys \ {key}
    BY <1>1, <1>2, <1>5
  <2>2. new[InfoKeys[i]] = map[InfoKeys[i]]
    BY <1>3, <2>1
  <2> QED
    BY <2>2 DEF Info!KeySize
<1>8. f[j] = Info!KeySize(map, key) /\ g[j] = Info!KeySize(new, key)
  BY <1>2
<1> HIDE DEF f, g, l
<1>9. Sum(g, l) = Sum(f, l) - f[j] + g[j]
  BY <1>1, <1>6, <1>7, SumChanged
<1>10. Sum(f, l) \in Int
  BY <1>1, <1>6, SumStep
<1> QED
  BY <1>4, <1>8, <1>9, <1>10

(* The entries are the keys that have a value, the last set first.         *)
Represents(s, map, now) ==
  /\ s \in Seq(InfoEntries) /\ map \in [Info!AllKeys -> InfoCells] /\ now \in Nat
  /\ \A i \in 1..Len(s) : map[s[i].key] # Info!NoEntry /\ map[s[i].key].value = s[i].value
  /\ \A i, j \in 1..Len(s) : i < j => map[s[j].key].time < map[s[i].key].time
  /\ \A k \in Info!AllKeys : map[k] # Info!NoEntry => \E i \in 1..Len(s) : s[i].key = k
  /\ \A k \in Info!AllKeys : map[k].time <= now
  /\ Info!InfoSize(s) = Info!StoreSize(map)

(* A cell has a time, 0 when it is empty.                                  *)
LEMMA CellIs ==
  ASSUME NEW c \in InfoCells
  PROVE  /\ c.time \in Nat /\ (c = Info!NoEntry <=> c.time = 0)
         /\ c # Info!NoEntry => c.value \in InfoValues
BY DEF InfoCells, Info!NoEntry

(* Taking a key's value away takes its entry away.                         *)
LEMMA InfoRemoved ==
  ASSUME NEW s, NEW map, NEW now, Represents(s, map, now), NEW key \in Info!AllKeys
  PROVE  /\ Represents(Info!Info_RemoveKey(s, key), [map EXCEPT ![key] = Info!NoEntry], now)
         /\ Info!InfoSize(Info!Info_RemoveKey(s, key)) <= Info!InfoSize(s)
         /\ Info!InfoSize(s) \in Int
<1> DEFINE w == [map EXCEPT ![key] = Info!NoEntry]
<1>1. PICK i : /\ IsFirst(i, s, {key})
               /\ Info!Info_RemoveKey(s, key) = IF i = 0 THEN s ELSE Info!RemoveAt(s, i)
  <2>1. s \in Seq(InfoEntries)
    BY Zenon DEF Represents
  <2> QED
    BY <2>1, RemoveIs, Zenon
<1>2. /\ w \in [Info!AllKeys -> InfoCells] /\ w[key] = Info!NoEntry
      /\ \A k \in Info!AllKeys : k # key => w[k] = map[k]
  BY DEF Represents, InfoCells
<1>3. Info!NoEntry \in InfoCells
  BY DEF InfoCells
<1>4. /\ Info!StoreSize(map) \in Int
      /\ Info!StoreSize(w) = Info!StoreSize(map) - Info!KeySize(map, key) + Info!KeySize(w, key)
  <2>1. map \in [Info!AllKeys -> InfoCells]
    BY Zenon DEF Represents
  <2>2. w = [map EXCEPT ![key] = Info!NoEntry]
    OBVIOUS
  <2> HIDE DEF w
  <2> QED
    BY <1>3, <2>1, <2>2, StoreChanged, Zenon
<1>5. CASE i = 0
  <2>1. map[key] = Info!NoEntry
    BY <1>1, <1>5 DEF Represents, IsFirst
  <2>2. w = map
    BY <2>1 DEF Represents
  <2>3. Info!Info_RemoveKey(s, key) = s
    BY <1>1, <1>5
  <2>4. Info!InfoSize(s) \in Int
    BY <1>4 DEF Represents
  <2> QED
    BY <2>2, <2>3, <2>4
<1>6. CASE i # 0
  <2> DEFINE r == Info!RemoveAt(s, i)
             l == Len(s)
  <2>1. i \in 1..l /\ s[i].key = key /\ s \in Seq(InfoEntries) /\ l \in Nat
    BY <1>1, <1>6 DEF IsFirst, Represents
  <2>2. /\ r \in Seq(InfoEntries) /\ Len(r) = l - 1
        /\ \A j \in 1..l - 1 : r[j] = IF j < i THEN s[j] ELSE s[j + 1]
    BY <2>1, RemovedIs, Zenon
  <2>3. \A j \in 1..l : s[j] \in InfoEntries /\ s[j].key \in Info!AllKeys
    <3>1. \A j \in 1..l : s[j] \in InfoEntries
      BY <2>1
    <3> QED
      BY <3>1 DEF InfoEntries
  <2>4. Info!Info_RemoveKey(s, key) = r
    BY <1>1, <1>6
  <2>5. /\ Info!InfoSize(s) \in Int /\ Info!InfoSize(r) = Info!InfoSize(s) - Info!EntrySize(s[i])
        /\ Info!EntrySize(s[i]) \in Nat
    BY <2>1, <2>3, SizeWithout, SizesIn, Zenon
  <2> HIDE DEF r, l, w
  <2>6. \A j \in 1..l : j # i => s[j].key # key /\ w[s[j].key] = map[s[j].key]
    <3> SUFFICES ASSUME NEW j \in 1..l, j # i
                 PROVE  s[j].key # key
      BY <1>2, <2>3
    <3>1. map[s[i].key].time \in Nat /\ map[s[j].key].time \in Nat
      BY <2>1, <2>3, CellIs DEF Represents
    <3>2. map[s[i].key].time # map[s[j].key].time
      <4>1. CASE i < j
        BY <2>1, <3>1, <4>1 DEF Represents, l
      <4>2. CASE j < i
        BY <2>1, <3>1, <4>2 DEF Represents, l
      <4> QED
        BY <2>1, <4>1, <4>2
    <3> QED
      BY <2>1, <3>2
  <2>7. \A j \in 1..l - 1 : \E o \in 1..l : o # i /\ r[j] = s[o] /\ o = IF j < i THEN j ELSE j + 1
    BY <2>1, <2>2
  <2>8. \A j \in 1..Len(r) : w[r[j].key] # Info!NoEntry /\ w[r[j].key].value = r[j].value
    <3> SUFFICES ASSUME NEW j \in 1..l - 1
                 PROVE  w[r[j].key] # Info!NoEntry /\ w[r[j].key].value = r[j].value
      BY <2>2
    <3>1. PICK o \in 1..l : o # i /\ r[j] = s[o]
      BY <2>7
    <3> QED
      BY <2>6, <3>1 DEF Represents, l
  <2>9. \A j, k \in 1..Len(r) : j < k => w[r[k].key].time < w[r[j].key].time
    <3> SUFFICES ASSUME NEW j \in 1..l - 1, NEW k \in 1..l - 1, j < k
                 PROVE  w[r[k].key].time < w[r[j].key].time
      BY <2>2
    <3>1. PICK o \in 1..l : o # i /\ r[j] = s[o] /\ o = IF j < i THEN j ELSE j + 1
      BY <2>7
    <3>2. PICK p \in 1..l : p # i /\ r[k] = s[p] /\ p = IF k < i THEN k ELSE k + 1
      BY <2>7
    <3>3. o < p
      BY <2>1, <3>1, <3>2
    <3>4. map[s[p].key].time < map[s[o].key].time
      BY <3>3 DEF Represents, l
    <3> QED
      BY <2>6, <3>1, <3>2, <3>4
  <2>10. \A k \in Info!AllKeys : w[k] # Info!NoEntry => \E j \in 1..Len(r) : r[j].key = k
    <3> SUFFICES ASSUME NEW k \in Info!AllKeys, w[k] # Info!NoEntry
                 PROVE  \E j \in 1..l - 1 : r[j].key = k
      BY <2>2
    <3>1. k # key /\ map[k] # Info!NoEntry
      BY <1>2
    <3>2. PICK o \in 1..l : s[o].key = k
      BY <3>1 DEF Represents, l
    <3>3. o # i
      BY <2>1, <3>1, <3>2
    <3>4. CASE o < i
      <4>1. o \in 1..l - 1 /\ r[o] = s[o]
        BY <2>1, <2>2, <3>4
      <4> QED
        BY <3>2, <4>1
    <3>5. CASE i < o
      <4>1. o - 1 \in 1..l - 1 /\ r[o - 1] = s[o]
        <5>1. o - 1 \in 1..l - 1 /\ ~(o - 1 < i) /\ o - 1 + 1 = o
          BY <2>1, <3>5
        <5>2. r[o - 1] = s[o - 1 + 1]
          BY <2>2, <5>1
        <5> QED
          BY <5>1, <5>2
      <4> QED
        BY <3>2, <4>1
    <3> QED
      BY <2>1, <3>3, <3>4, <3>5
  <2>11. \A k \in Info!AllKeys : w[k].time <= now
    <3>1. Info!NoEntry.time <= now
      BY DEF Info!NoEntry, Represents
    <3>2. \A k \in Info!AllKeys : map[k].time <= now
      BY DEF Represents
    <3> QED
      BY <1>2, <3>1, <3>2
  <2>12. Info!InfoSize(r) = Info!StoreSize(w)
    <3>1. map[key] # Info!NoEntry /\ map[key].value = s[i].value
      BY <2>1 DEF Represents, l
    <3>2. Info!KeySize(map, key) = Info!EntrySize(s[i])
      BY <2>1, <3>1, Zenon DEF Info!KeySize, Info!EntrySize
    <3>3. Info!KeySize(w, key) = 0
      BY <1>2 DEF Info!KeySize
    <3>4. Info!InfoSize(s) = Info!StoreSize(map)
      BY DEF Represents
    <3>5. Info!StoreSize(w) = Info!StoreSize(map) - Info!KeySize(map, key) + Info!KeySize(w, key)
      BY <1>4 DEF w
    <3> QED
      BY <2>5, <3>2, <3>3, <3>4, <3>5
  <2>13. now \in Nat
    BY DEF Represents
  <2>14. Represents(r, w, now)
    BY <1>2, <2>2, <2>8, <2>9, <2>10, <2>11, <2>12, <2>13, Zenon DEF Represents, w
  <2> QED
    BY <2>4, <2>5, <2>14 DEF w
<1> QED
  BY <1>5, <1>6

(* An entry put first, a value put into a map.                             *)
PutFirst(s, key, value) == <<[key |-> key, value |-> value]>> \o s
PutIn(map, key, value, time) == [map EXCEPT ![key] = [value |-> value, time |-> time]]

(* Setting a key that has none puts its entry first.                       *)
LEMMA InfoAdded ==
  ASSUME NEW s, NEW map, NEW now, Represents(s, map, now), NEW key \in Info!AllKeys, NEW value \in InfoValues,
         map[key] = Info!NoEntry
  PROVE  /\ Represents(PutFirst(s, key, value), PutIn(map, key, value, now + 1), now + 1)
         /\ Info!InfoSize(PutFirst(s, key, value)) = Info!EntrySize([key |-> key, value |-> value]) + Info!InfoSize(s)
<1> DEFINE l == Len(s)
           cell == [value |-> value, time |-> now + 1]
           e == [key |-> key, value |-> value]
           new == PutIn(map, key, value, now + 1)
           w == PutFirst(s, key, value)
<1>0. new = [map EXCEPT ![key] = cell] /\ w = <<e>> \o s /\ e = [key |-> key, value |-> value]
  BY Zenon DEF PutIn, PutFirst
<1> HIDE DEF new, w, e
<1>1. s \in Seq(InfoEntries) /\ l \in Nat /\ now \in Nat /\ map \in [Info!AllKeys -> InfoCells]
  BY DEF Represents
<1>2. e \in InfoEntries /\ e.key = key /\ e.value = value
  BY <1>0 DEF InfoEntries
<1>3. w \in Seq(InfoEntries) /\ Len(w) = l + 1 /\ w[1] = e /\ \A j \in 1..l : w[j + 1] = s[j]
  BY <1>0, <1>1, <1>2, AddedIs, SMT
<1>4. Info!InfoSize(w) = Info!EntrySize(e) + Info!InfoSize(s) /\ Info!InfoSize(s) \in Int
  BY <1>0, <1>1, <1>2, SizeWith, SMT
<1>5. cell \in InfoCells /\ cell # Info!NoEntry /\ cell.value = value /\ cell.time = now + 1
  BY <1>1 DEF InfoCells, Info!NoEntry
<1> HIDE DEF l, cell
<1>6. /\ new \in [Info!AllKeys -> InfoCells] /\ new[key] = cell
      /\ \A k \in Info!AllKeys : k # key => new[k] = map[k]
  BY <1>0, <1>1, <1>5 DEF cell
<1>7. \A j \in 1..l : s[j].key \in Info!AllKeys /\ s[j].key # key /\ new[s[j].key] = map[s[j].key]
  <2> SUFFICES ASSUME NEW j \in 1..l
               PROVE  s[j].key \in Info!AllKeys /\ s[j].key # key
    BY <1>6
  <2>1. s[j] \in InfoEntries
    BY <1>1 DEF l
  <2>2. map[s[j].key] # Info!NoEntry
    BY DEF Represents, l
  <2> QED
    BY <2>1, <2>2 DEF InfoEntries
<1>8. \A j \in 1..Len(w) : j = 1 \/ \E o \in 1..l : j = o + 1 /\ w[j] = s[o]
  <2> SUFFICES ASSUME NEW j \in 1..Len(w), j # 1
               PROVE  \E o \in 1..l : j = o + 1 /\ w[j] = s[o]
    OBVIOUS
  <2>1. j - 1 \in 1..l /\ j = (j - 1) + 1
    BY <1>1, <1>3
  <2>2. w[(j - 1) + 1] = s[j - 1]
    BY <1>3, <2>1
  <2> QED
    BY <2>1, <2>2
<1>9. \A j \in 1..Len(w) : new[w[j].key] # Info!NoEntry /\ new[w[j].key].value = w[j].value
  <2> SUFFICES ASSUME NEW j \in 1..Len(w)
               PROVE  new[w[j].key] # Info!NoEntry /\ new[w[j].key].value = w[j].value
    OBVIOUS
  <2>1. CASE j = 1
    BY <1>2, <1>3, <1>5, <1>6, <2>1
  <2>2. CASE j # 1
    <3>1. PICK o \in 1..l : w[j] = s[o]
      BY <1>8, <2>2
    <3> QED
      BY <1>7, <3>1 DEF Represents, l
  <2> QED
    BY <2>1, <2>2
<1>10. \A j, k \in 1..Len(w) : j < k => new[w[k].key].time < new[w[j].key].time
  <2> SUFFICES ASSUME NEW j \in 1..Len(w), NEW k \in 1..Len(w), j < k
               PROVE  new[w[k].key].time < new[w[j].key].time
    OBVIOUS
  <2>1. PICK p \in 1..l : k = p + 1 /\ w[k] = s[p]
    <3>1. k # 1
      BY <1>3
    <3> QED
      BY <1>8, <3>1
  <2>2. new[w[k].key].time = map[s[p].key].time /\ map[s[p].key].time \in Nat /\ map[s[p].key].time <= now
    <3>1. s[p].key \in Info!AllKeys /\ new[s[p].key] = map[s[p].key]
      BY <1>7
    <3>2. map[s[p].key].time <= now
      BY <3>1 DEF Represents
    <3> QED
      BY <1>1, <2>1, <3>1, <3>2, CellIs
  <2>3. CASE j = 1
    <3>1. new[w[j].key].time = now + 1
      BY <1>2, <1>3, <1>5, <1>6, <2>3
    <3> QED
      BY <1>1, <2>2, <3>1
  <2>4. CASE j # 1
    <3>1. PICK o \in 1..l : j = o + 1 /\ w[j] = s[o]
      BY <1>8, <2>4
    <3>2. o < p
      BY <2>1, <3>1
    <3>3. map[s[p].key].time < map[s[o].key].time
      BY <3>2 DEF Represents, l
    <3> QED
      BY <1>7, <2>1, <3>1, <3>3
  <2> QED
    BY <2>3, <2>4
<1>11. \A k \in Info!AllKeys : new[k] # Info!NoEntry => \E j \in 1..Len(w) : w[j].key = k
  <2> SUFFICES ASSUME NEW k \in Info!AllKeys, new[k] # Info!NoEntry
               PROVE  \E j \in 1..Len(w) : w[j].key = k
    OBVIOUS
  <2>1. CASE k = key
    <3>1. 1 \in 1..Len(w)
      BY <1>1, <1>3
    <3> QED
      BY <1>2, <1>3, <2>1, <3>1
  <2>2. CASE k # key
    <3>1. PICK o \in 1..l : s[o].key = k
      BY <1>6, <2>2 DEF Represents, l
    <3>2. o + 1 \in 1..Len(w) /\ w[o + 1] = s[o]
      BY <1>1, <1>3
    <3> QED
      BY <3>1, <3>2
  <2> QED
    BY <2>1, <2>2
<1>12. \A k \in Info!AllKeys : new[k].time <= now + 1
  <2> SUFFICES ASSUME NEW k \in Info!AllKeys
               PROVE  new[k].time <= now + 1
    OBVIOUS
  <2>1. CASE k = key
    BY <1>1, <1>5, <1>6, <2>1
  <2>2. CASE k # key
    <3>1. map[k].time \in Nat /\ map[k].time <= now
      BY <1>1, CellIs DEF Represents
    <3> QED
      BY <1>1, <1>6, <2>2, <3>1
  <2> QED
    BY <2>1, <2>2
<1>13. Info!InfoSize(w) = Info!StoreSize(new)
  <2>1. /\ Info!StoreSize(map) \in Int
        /\ Info!StoreSize(new) = Info!StoreSize(map) - Info!KeySize(map, key) + Info!KeySize(new, key)
    BY <1>0, <1>1, <1>5, StoreChanged, Zenon
  <2>2. Info!KeySize(map, key) = 0
    BY DEF Info!KeySize
  <2>3. Info!KeySize(new, key) = Info!EntrySize(e)
    BY <1>2, <1>5, <1>6, Zenon DEF Info!KeySize, Info!EntrySize
  <2>4. Info!EntrySize(e) \in Nat
    BY <1>2, SizesIn, Zenon
  <2>5. Info!InfoSize(s) = Info!StoreSize(map)
    BY DEF Represents
  <2> QED
    BY <1>4, <2>1, <2>2, <2>3, <2>4, <2>5
<1>14. now + 1 \in Nat
  BY <1>1
<1>15. Represents(w, new, now + 1)
  BY <1>3, <1>6, <1>9, <1>10, <1>11, <1>12, <1>13, <1>14, Zenon DEF Represents
<1> QED
  BY <1>4, <1>15 DEF new, w, e

(* The time goes on.                                                       *)
LEMMA InfoLater ==
  ASSUME NEW s, NEW map, NEW now, Represents(s, map, now)
  PROVE  Represents(s, map, now + 1)
<1>1. now \in Nat /\ \A k \in Info!AllKeys : map[k].time \in Nat /\ map[k].time <= now
  BY CellIs DEF Represents
<1>2. now + 1 \in Nat /\ \A k \in Info!AllKeys : map[k].time <= now + 1
  BY <1>1
<1> QED
  BY <1>2, Zenon DEF Represents

(* The string represents the map, below the limit.                         *)
InfoInv ==
  /\ Represents(entries, store, settings)
  /\ Info!InfoSize(entries) < MaxInfo

(* Nothing was set.                                                        *)
LEMMA InfoStarts == Info!Init => InfoInv
<1> SUFFICES ASSUME Info!Init
             PROVE  InfoInv
  OBVIOUS
<1> DEFINE l == Len(InfoKeys)
           f == [i \in 1..l |-> Info!KeySize(store, InfoKeys[i])]
           g == [i \in 1..0 |-> Info!EntrySize(entries[i])]
<1>1. entries = <<>> /\ store = [key \in Info!AllKeys |-> Info!NoEntry] /\ settings = 0
  BY DEF Info!Init
<1>2. /\ l \in Nat /\ Info!AllKeys = {InfoKeys[i] : i \in 1..l}
  BY InfoAssumption DEF Info!AllKeys, Info!Places
<1>3. Info!StoreSize(store) = Sum(f, l)
  BY Zenon DEF Info!StoreSize, Sum, Info!Places
<1>4. \A i \in 1..l : f[i] = 0
  BY <1>1, <1>2 DEF Info!KeySize
<1>5. entries \in Seq(InfoEntries) /\ Len(entries) = 0
  BY <1>1
<1>6. Info!InfoSize(entries) = Sum(g, 0)
  BY <1>5, Zenon DEF Info!InfoSize, Sum
<1> HIDE DEF f, g, l
<1>7. Sum(g, 0) = 0
  BY SumStep
<1>8. Sum(f, l) = 0
  BY <1>2, <1>4, SumNone
<1>9. /\ store \in [Info!AllKeys -> InfoCells]
      /\ \A k \in Info!AllKeys : store[k] = Info!NoEntry /\ store[k].time <= settings
  BY <1>1 DEF InfoCells, Info!NoEntry
<1>10. Represents(entries, store, settings)
  BY <1>1, <1>3, <1>5, <1>6, <1>7, <1>8, <1>9 DEF Represents
<1>11. Info!InfoSize(entries) < MaxInfo
  BY <1>6, <1>7, InfoAssumption
<1> QED
  BY <1>10, <1>11 DEF InfoInv

(* Every set keeps the entries those of the map, below the limit.          *)
LEMMA InfoKept ==
  ASSUME InfoInv, Info!Next
  PROVE  InfoInv'
<1>1. PICK key \in Info!AllKeys, value \in InfoValues :
        /\ settings' = settings + 1
        /\ entries' = Info!Info_SetValueForKey(entries, key, value)
        /\ store' = Info!Store(store, settings', key, value)
  BY Zenon DEF Info!Next
<1> DEFINE e == [key |-> key, value |-> value]
           removed == Info!Info_RemoveKey(entries, key)
           without == [store EXCEPT ![key] = Info!NoEntry]
           cell == [value |-> value, time |-> settings + 1]
           with == [store EXCEPT ![key] = cell]
           longer == <<e>> \o removed
<1>2. Represents(entries, store, settings) /\ Info!InfoSize(entries) < MaxInfo /\ settings \in Nat
  BY Zenon DEF InfoInv, Represents
<1>3. /\ Represents(removed, without, settings)
      /\ Info!InfoSize(removed) <= Info!InfoSize(entries) /\ Info!InfoSize(entries) \in Int
  BY <1>2, InfoRemoved, Zenon
<1>4. without[key] = Info!NoEntry /\ with = [without EXCEPT ![key] = cell]
  BY <1>2 DEF Represents
<1>5. /\ Represents(longer, with, settings + 1)
      /\ Info!InfoSize(longer) = Info!EntrySize(e) + Info!InfoSize(removed)
  <2>1. with = PutIn(without, key, value, settings + 1)
    BY <1>4, Zenon DEF PutIn
  <2>2. longer = PutFirst(removed, key, value)
    BY Zenon DEF PutFirst
  <2>3. Represents(removed, without, settings) /\ without[key] = Info!NoEntry
    BY <1>3, <1>4
  <2>4. e = [key |-> key, value |-> value]
    OBVIOUS
  <2> HIDE DEF e, removed, without, with, longer, cell
  <2>5. /\ Represents(PutFirst(removed, key, value), PutIn(without, key, value, settings + 1), settings + 1)
        /\ Info!InfoSize(PutFirst(removed, key, value))
             = Info!EntrySize([key |-> key, value |-> value]) + Info!InfoSize(removed)
    BY <2>3, InfoAdded, Zenon
  <2> QED
    BY <2>1, <2>2, <2>4, <2>5
<1>6. Represents(entries, store, settings + 1) /\ Represents(removed, without, settings + 1)
  BY <1>2, <1>3, InfoLater, Zenon
<1>7. Info!InfoSize(removed) \in Int /\ Info!InfoSize(longer) \in Int /\ MaxInfo \in Nat
  <2>1. removed \in Seq(InfoEntries) /\ e \in InfoEntries
    BY <1>3, Zenon DEF Represents, InfoEntries
  <2>2. Info!InfoSize(removed) \in Int /\ Info!EntrySize(e) \in Nat
    BY <2>1, SizeWith, SizesIn, Zenon
  <2> QED
    BY <1>5, <2>2, InfoAssumption
<1>8. Info!StoreSize(with) = Info!InfoSize(longer)
  BY <1>5, Zenon DEF Represents
<1> DEFINE black == {key, value} \cap Blacklisted # {}
           large == Info!InfoSize(longer) >= MaxInfo
<1>9. entries' = IF Info!InfoSize(entries) >= MaxInfo \/ black THEN entries
                 ELSE IF value = Info!Empty \/ large THEN removed ELSE longer
  BY <1>1, <1>5, Zenon DEF Info!Info_SetValueForKey
<1>10. store' = IF black THEN store ELSE IF value = Info!Empty \/ large THEN without ELSE with
  BY <1>1, <1>8, Zenon DEF Info!Store
<1> HIDE DEF e, removed, without, with, longer, black, cell
<1>11. ~(Info!InfoSize(entries) >= MaxInfo)
  BY <1>2, <1>3, <1>7
<1>12. CASE black
  <2>1. entries' = entries /\ store' = store
    BY <1>9, <1>10, <1>12, Zenon
  <2> QED
    BY <1>1, <1>2, <1>6, <2>1, Zenon DEF InfoInv
<1>13. CASE ~black /\ (value = Info!Empty \/ large)
  <2>1. entries' = removed /\ store' = without
    BY <1>9, <1>10, <1>11, <1>13, Zenon
  <2>2. Info!InfoSize(removed) < MaxInfo
    BY <1>2, <1>3, <1>7
  <2> QED
    BY <1>1, <1>6, <2>1, <2>2, Zenon DEF InfoInv
<1>14. CASE ~black /\ value # Info!Empty /\ ~large
  <2>1. entries' = longer /\ store' = with
    BY <1>9, <1>10, <1>11, <1>14, Zenon
  <2>2. Info!InfoSize(longer) < MaxInfo
    BY <1>7, <1>14
  <2> QED
    BY <1>1, <1>5, <2>1, <2>2, Zenon DEF InfoInv
<1> QED
  BY <1>12, <1>13, <1>14, Zenon

(* The first entry is the one set last.                                    *)
LEMMA InfoRight == InfoInv => Info!InfoReadsBack
<1> SUFFICES ASSUME InfoInv, NEW key \in Info!AllKeys
             PROVE  Info!Info_ValueForKey(entries, key) = Info!Lookup(store, key)
  BY Zenon DEF Info!InfoReadsBack
<1> DEFINE alike == {k \in Info!AllKeys : LowerCase[k] = LowerCase[key]}
           set == {k \in Info!AllKeys : LowerCase[k] = LowerCase[key] /\ store[k] # Info!NoEntry}
           chosen == CHOOSE k \in set : \A m \in set : store[m].time <= store[k].time
<1>1. Represents(entries, store, settings)
  BY DEF InfoInv
<1>2. entries \in Seq(InfoEntries) /\ \A j \in 1..Len(entries) : entries[j].key \in Info!AllKeys
  <2>1. entries \in Seq(InfoEntries)
    BY <1>1, Zenon DEF Represents
  <2>2. \A j \in 1..Len(entries) : entries[j] \in InfoEntries
    BY <2>1
  <2> QED
    BY <2>1, <2>2 DEF InfoEntries
<1>3. PICK i : /\ IsFirst(i, entries, alike)
               /\ Info!Info_ValueForKey(entries, key) = IF i = 0 THEN Info!Empty ELSE entries[i].value
  BY <1>2, ValueIs, Zenon
<1>4. Info!Lookup(store, key) = IF set = {} THEN Info!Empty ELSE store[chosen].value
  BY Zenon DEF Info!Lookup
<1>5. \A k \in set : k \in alike /\ \E j \in 1..Len(entries) : entries[j].key = k
  BY <1>1 DEF Represents
<1>6. \A j \in 1..Len(entries) : /\ store[entries[j].key] # Info!NoEntry
                                 /\ store[entries[j].key].value = entries[j].value
                                 /\ store[entries[j].key].time \in Nat
  BY <1>1, <1>2, CellIs DEF Represents
<1>7. \A j, k \in 1..Len(entries) : j < k => store[entries[k].key].time < store[entries[j].key].time
  BY <1>1 DEF Represents
<1>8. CASE i = 0
  <2>1. set = {}
    BY <1>3, <1>5, <1>8 DEF IsFirst
  <2> QED
    BY <1>3, <1>4, <1>8, <2>1
<1>9. CASE i # 0
  <2> DEFINE first == entries[i].key
  <2>1. i \in 1..Len(entries) /\ first \in alike /\ \A j \in 1..i - 1 : entries[j].key \notin alike
    BY <1>2, <1>3, <1>9 DEF IsFirst
  <2>2. first \in set
    BY <1>6, <2>1
  <2>3. ASSUME NEW m \in set
        PROVE  m # first => store[m].time < store[first].time
    <3>1. PICK j \in 1..Len(entries) : entries[j].key = m
      BY <1>5
    <3>2. m \in alike
      BY <1>5
    <3>3. ~(j < i)
      BY <2>1, <3>1, <3>2
    <3>4. j # i => i < j
      BY <2>1, <3>3
    <3> QED
      BY <1>7, <2>1, <3>1, <3>4
  <2>4. \A m \in set : store[m].time \in Nat
    BY <1>5, <1>6
  <2> HIDE DEF set, first
  <2>5. \A m \in set : store[m].time <= store[first].time
    BY <2>2, <2>3, <2>4
  <2>6. chosen \in set /\ \A m \in set : store[m].time <= store[chosen].time
    BY <2>2, <2>5, Zenon
  <2> HIDE DEF chosen
  <2>7. chosen = first
    BY <2>2, <2>3, <2>4, <2>6
  <2>8. store[first].value = entries[i].value
    BY <1>6, <2>1 DEF first
  <2>9. set # {}
    BY <2>2
  <2>10. Info!Lookup(store, key) = store[chosen].value
    BY <1>4, <2>9, Zenon
  <2> QED
    BY <1>3, <1>9, <2>7, <2>8, <2>10
<1> QED
  BY <1>8, <1>9

(* Steps of other parts.                                                   *)
LEMMA InfoSame ==
  ASSUME InfoInv, UNCHANGED infoVars
  PROVE  InfoInv'
BY Zenon DEF InfoInv, infoVars, Represents

-----------------------------------------------------------------------------
(* Dvars *)

(* A dvar is of a type and has its two values, two words each.             *)
DvarInv == dvar \in [type : Dvar!Types, current : Dvar!Pairs, latched : Dvar!Pairs]

(* Any dvar is of some type.                                               *)
LEMMA DvarStarts == Dvar!Init => DvarInv
BY DEF Dvar!Init, DvarInv

(* Types.                                                                  *)
LEMMA DvarKept ==
  ASSUME DvarInv, Dvar!Next
  PROVE  DvarInv'
BY DEF Dvar!Next, Dvar!Latch, Dvar!Restart, DvarInv

(* Steps of other parts.                                                   *)
LEMMA DvarSame ==
  ASSUME DvarInv, UNCHANGED dvar
  PROVE  DvarInv'
BY DEF DvarInv

(* Whether values with these first words wait, by their type.              *)
Waits(kind, c, l) ==
  IF kind \in {0, 1, 5, 6, 9} THEN ~Dvar!EqualFloats(c[1], l[1])
  ELSE IF kind = 2 THEN ~(Dvar!EqualFloats(c[1], l[1]) /\ Dvar!EqualFloats(c[2], l[2]))
  ELSE IF kind \in {7, 10} THEN c[1] # l[1] ELSE TRUE

(* Values that are copied as others are compared as they are.              *)
LEMMA EqualIs ==
  ASSUME NEW kind \in 0..10, NEW v, NEW w, NEW c, NEW l, v[1] = c[1], v[2] = c[2], w[1] = l[1], w[2] = l[2]
  PROVE  ~Dvar!Dvar_ValuesEqual(kind, v, w) <=> Waits(kind, c, l)
BY DEF Dvar!Dvar_ValuesEqual, Dvar!Bool, Dvar!Float, Dvar!Float2, Dvar!Float3, Dvar!Float4,
   Dvar!Integer, Dvar!Enum,
       Dvar!String, Dvar!Color, Dvar!Vec4Compare, Waits

(* A text shows the first word, of a pair both.                            *)
LEMMA DvarTextIs ==
  ASSUME NEW v
  PROVE  /\ Dvar!Dvar_ValueToString(2, v) = SubSeq(v, 1, 2)
         /\ \A w : w[1] = v[1] => \A kind \in {0, 1, 5, 6, 7, 8, 9, 10} :
              Dvar!Dvar_ValueToString(kind, v) = Dvar!Dvar_ValueToString(kind, w)
BY DEF Dvar!Dvar_ValueToString, Dvar!Bool, Dvar!Float, Dvar!Float2, Dvar!Float3, Dvar!Float4,
   Dvar!Integer, Dvar!Enum,
       Dvar!String, Dvar!Color

(* Four words of two and two.                                              *)
LEMMA FourOfTwo ==
  ASSUME NEW a, NEW b, NEW x, NEW y
  PROVE  <<a, b>> \o <<x, y>> = <<a, b, x, y>>
<1> DEFINE S == {a, b, x, y}
           u == <<a, b>> \o <<x, y>>
<1>1. <<a, b>> \in Seq(S) /\ <<x, y>> \in Seq(S) /\ Len(<<a, b>>) = 2 /\ Len(<<x, y>>) = 2
  OBVIOUS
<1> HIDE DEF S
<1>2. /\ u \in Seq(S) /\ Len(u) = 4 /\ \A k \in 1..2 : u[k] = <<a, b>>[k] /\ u[2 + k] = <<x, y>>[k]
  <2>1. /\ u \in Seq(S) /\ Len(u) = Len(<<a, b>>) + Len(<<x, y>>)
        /\ \A k \in 1..Len(<<a, b>>) : u[k] = <<a, b>>[k]
        /\ \A k \in 1..Len(<<x, y>>) : u[Len(<<a, b>>) + k] = <<x, y>>[k]
    BY <1>1, JoinIs
  <2> HIDE DEF u
  <2> QED
    BY <1>1, <2>1
<1> HIDE DEF u
<1>3. u[1] = a /\ u[2] = b /\ u[3] = x /\ u[4] = y
  <2>1. 1 \in 1..2 /\ 2 \in 1..2 /\ 2 + 1 = 3 /\ 2 + 2 = 4
    OBVIOUS
  <2> QED
    BY <1>2, <2>1
<1>4. u = <<a, b, x, y>>
  BY <1>2, <1>3
<1> QED
  BY <1>4 DEF u

(* The first words of a value.                                             *)
LEMMA FirstWords ==
  ASSUME NEW S, NEW v \in Seq(S), Len(v) >= 2
  PROVE  SubSeq(v, 1, 1) = <<v[1]>> /\ SubSeq(v, 1, 2) = <<v[1], v[2]>>
<1>1. \A b \in 1..2 : SubSeq(v, 0 + 1, 0 + b) = [i \in 1..b |-> v[0 + i]]
  <2> SUFFICES ASSUME NEW b \in 1..2
               PROVE  SubSeq(v, 0 + 1, 0 + b) = [i \in 1..b |-> v[0 + i]]
    OBVIOUS
  <2>1. 0 + b <= Len(v) /\ b \in Nat /\ 0 \in Nat
    OBVIOUS
  <2> QED
    BY <2>1, SubSeqIs, SMTT(30)
<1>2. 0 + 1 = 1 /\ 0 + 2 = 2 /\ 1 \in 1..2 /\ 2 \in 1..2
  OBVIOUS
<1>3. SubSeq(v, 1, 1) = [i \in 1..1 |-> v[0 + i]] /\ SubSeq(v, 1, 2) = [i \in 1..2 |-> v[0 + i]]
  BY <1>1, <1>2, Zenon
<1>4. [i \in 1..1 |-> v[0 + i]] = <<v[1]>> /\ [i \in 1..2 |-> v[0 + i]] = <<v[1], v[2]>>
  OBVIOUS
<1> QED
  BY <1>3, <1>4, Zenon

(* What is copied of a value.                                              *)
LEMMA CopyIs ==
  ASSUME NEW v, NEW w, NEW x
  PROVE  /\ Dvar!Copy(v, w, <<x, x>>) = <<v[1], w[2], x, x>>
         /\ Dvar!Copy(v, w, <<x, x>>)[1] = v[1] /\ Dvar!Copy(v, w, <<x, x>>)[2] = w[2]
         /\ SubSeq(Dvar!Copy(v, w, <<x, x>>), 1, 2) = <<v[1], w[2]>>
<1>1. Dvar!Copy(v, w, <<x, x>>) = <<v[1], w[2], x, x>>
  BY FourOfTwo DEF Dvar!Copy
<1> DEFINE u == <<v[1], w[2], x, x>>
           S == {v[1], w[2], x}
<1>2. u[1] = v[1] /\ u[2] = w[2] /\ u \in Seq(S) /\ Len(u) >= 2
  OBVIOUS
<1> HIDE DEF u, S
<1>3. SubSeq(u, 1, 2) = <<u[1], u[2]>>
  BY <1>2, FirstWords
<1> USE DEF u
<1> QED
  BY <1>1, <1>2, <1>3

(* What is shown of a dvar, whatever the stack held; those vectors aside.  *)
Shown(kind, c, l) == IF kind = 2 THEN <<c[1], c[2]>> ELSE Dvar!Dvar_ValueToString(kind, c)
New(kind, c, l) == IF kind = 2 THEN <<l[1], c[2]>> ELSE Dvar!Dvar_ValueToString(kind, l)
Entry(kind, c, l) ==
  IF Waits(kind, c, l) THEN [shown |-> Shown(kind, c, l), latched |-> <<New(kind, c, l)>>]
  ELSE [shown |-> Shown(kind, c, l), latched |-> <<>>]

(* It is the entry; a vector's has a new value in any case.                *)
LEMMA PrintIs ==
  ASSUME NEW d, NEW kind \in 0..10, kind = d.type, NEW c, c = d.current, NEW l, l = d.latched, NEW y
  PROVE  /\ kind \notin {3, 4} => Dvar!PrintDvar(d, <<y, y>>) = Entry(kind, c, l)
         /\ kind \in {3, 4} => Dvar!PrintDvar(d, <<y, y>>).latched # <<>>
<1> DEFINE cc == Dvar!Copy(c, c, <<y, y>>)
           ll == Dvar!Copy(l, l, <<y, y>>)
           lc == Dvar!Copy(l, c, <<y, y>>)
           has == Dvar!Dvar_HasLatchedValue(d, <<y, y>>)
           shown == Dvar!Dvar_ValueToString(kind, cc)
           new == Dvar!Dvar_ValueToString(kind, lc)
           text == Dvar!PrintDvar(d, <<y, y>>)
<1>1. text = IF has THEN [shown |-> shown, latched |-> <<new>>] ELSE [shown |-> shown, latched |-> <<>>]
  BY Zenon DEF Dvar!PrintDvar, Dvar!Dvar_DisplayableValue, Dvar!Dvar_DisplayableLatchedValue
<1>2. has <=> ~Dvar!Dvar_ValuesEqual(kind, cc, ll)
  BY Zenon DEF Dvar!Dvar_HasLatchedValue
<1>3. cc[1] = c[1] /\ cc[2] = c[2] /\ SubSeq(cc, 1, 2) = <<c[1], c[2]>>
  BY CopyIs
<1>4. ll[1] = l[1] /\ ll[2] = l[2]
  BY CopyIs
<1>5. lc[1] = l[1] /\ SubSeq(lc, 1, 2) = <<l[1], c[2]>>
  BY CopyIs
<1> HIDE DEF cc, ll, lc, has, text
<1>6. has <=> Waits(kind, c, l)
  BY <1>2, <1>3, <1>4, EqualIs
<1>7. CASE kind = 2
  <2>1. shown = <<c[1], c[2]>> /\ new = <<l[1], c[2]>>
    BY <1>3, <1>5, <1>7, DvarTextIs
  <2>2. Shown(kind, c, l) = shown /\ New(kind, c, l) = new
    BY <1>7, <2>1 DEF Shown, New
  <2> HIDE DEF shown, new
  <2>3. text = Entry(kind, c, l)
    BY <1>1, <1>6, <2>2, Zenon DEF Entry
  <2> QED
    BY <1>7, <2>3 DEF text
<1>8. CASE kind \in {0, 1, 5, 6, 7, 8, 9, 10}
  <2>1. shown = Dvar!Dvar_ValueToString(kind, c)
    BY <1>3, <1>8, DvarTextIs
  <2>2. new = Dvar!Dvar_ValueToString(kind, l)
    BY <1>5, <1>8, DvarTextIs
  <2>3. Shown(kind, c, l) = shown /\ New(kind, c, l) = new
    BY <1>8, <2>1, <2>2 DEF Shown, New
  <2> HIDE DEF shown, new
  <2>4. text = Entry(kind, c, l)
    BY <1>1, <1>6, <2>3, Zenon DEF Entry
  <2> QED
    BY <1>8, <2>4 DEF text
<1>9. CASE kind \in {3, 4}
  <2>1. has
    BY <1>6, <1>9 DEF Waits
  <2> HIDE DEF shown, new
  <2>2. text.latched = <<new>>
    BY <1>1, <2>1
  <2>3. <<new>> # <<>>
    OBVIOUS
  <2> QED
    BY <1>9, <2>2, <2>3 DEF text
<1> QED
  BY <1>7, <1>8, <1>9

(* Tuples of one and two words.                                            *)
LEMMA WordsAre ==
  /\ \A w : <<w>> # <<>> /\ <<w>>[1] = w
  /\ \A v, w : <<v>> = <<w>> <=> v = w
  /\ \A v, w, e, f : <<v, w>> = <<e, f>> <=> v = e /\ w = f
  /\ \A v : Dvar!Plain(<<v>>) <=> v \notin {"minusZero", "nan"}
  /\ \A v, w : Dvar!Plain(<<v, w>>) <=> v \notin {"minusZero", "nan"} /\ w \notin {"minusZero", "nan"}
BY DEF Dvar!Plain

(* The entry is what is promised of it.                                    *)
LEMMA EntryIs ==
  ASSUME NEW kind \in 0..10, NEW c, NEW l, NEW entry, entry = Entry(kind, c, l)
  PROVE  /\ entry.latched # <<>> <=> Waits(kind, c, l)
         /\ entry.latched # <<>> => entry.latched = <<New(kind, c, l)>> /\ entry.latched[1] = New(kind, c, l)
<1>1. PICK new : new = New(kind, c, l)
  OBVIOUS
<1>2. PICK shown : shown = Shown(kind, c, l)
  OBVIOUS
<1>3. entry = IF Waits(kind, c, l) THEN [shown |-> shown, latched |-> <<new>>] ELSE [shown |-> shown, latched |-> <<>>]
  BY <1>1, <1>2 DEF Entry
<1>4. entry.latched = IF Waits(kind, c, l) THEN <<new>> ELSE <<>>
  BY <1>3
<1>5. <<new>> # <<>> /\ <<new>>[1] = new
  OBVIOUS
<1> QED
  BY <1>1, <1>4, <1>5

(* Plain values wait when they differ.                                     *)
LEMMA WaitsIs ==
  ASSUME NEW kind \in 0..10, NEW c, NEW l
  PROVE  /\ kind \in {3, 4, 8} => Waits(kind, c, l)
         /\ kind = 2 /\ Dvar!Plain(<<c[1], c[2]>>) /\ Dvar!Plain(<<l[1], l[2]>>) =>
              (~Waits(kind, c, l) <=> <<c[1], c[2]>> = <<l[1], l[2]>>)
         /\ kind \in {0, 1, 5, 6, 9} /\ Dvar!Plain(<<c[1]>>) /\ Dvar!Plain(<<l[1]>>) =>
              (~Waits(kind, c, l) <=> <<c[1]>> = <<l[1]>>)
         /\ kind \in {7, 10} => (~Waits(kind, c, l) <=> <<c[1]>> = <<l[1]>>)
<1>1. /\ Dvar!Plain(<<c[1]>>) <=> c[1] \notin {"minusZero", "nan"}
      /\ Dvar!Plain(<<l[1]>>) <=> l[1] \notin {"minusZero", "nan"}
      /\ Dvar!Plain(<<c[1], c[2]>>) <=> c[1] \notin {"minusZero", "nan"} /\ c[2] \notin {"minusZero", "nan"}
      /\ Dvar!Plain(<<l[1], l[2]>>) <=> l[1] \notin {"minusZero", "nan"} /\ l[2] \notin {"minusZero", "nan"}
  <2>1. PICK c1, c2, l1, l2 : c1 = c[1] /\ c2 = c[2] /\ l1 = l[1] /\ l2 = l[2]
    OBVIOUS
  <2>2. /\ Dvar!Plain(<<c1>>) <=> c1 \notin {"minusZero", "nan"}
        /\ Dvar!Plain(<<l1>>) <=> l1 \notin {"minusZero", "nan"}
    BY DEF Dvar!Plain
  <2>3. Dvar!Plain(<<c1, c2>>) <=> c1 \notin {"minusZero", "nan"} /\ c2 \notin {"minusZero", "nan"}
    BY DEF Dvar!Plain
  <2>4. Dvar!Plain(<<l1, l2>>) <=> l1 \notin {"minusZero", "nan"} /\ l2 \notin {"minusZero", "nan"}
    BY DEF Dvar!Plain
  <2> QED
    BY <2>1, <2>2, <2>3, <2>4
<1>2. /\ <<c[1]>> = <<l[1]>> <=> c[1] = l[1]
      /\ <<c[1], c[2]>> = <<l[1], l[2]>> <=> c[1] = l[1] /\ c[2] = l[2]
  BY WordsAre, Zenon
<1> QED
  BY <1>1, <1>2 DEF Waits, Dvar!EqualFloats

(* So a dvar is listed as it should be.                                    *)
LEMMA DvarRight == DvarInv => Dvar!LatchedShown
<1> SUFFICES ASSUME DvarInv
             PROVE  Dvar!LatchedShown
  OBVIOUS
<1> DEFINE kind == dvar.type
           c == dvar.current
           l == dvar.latched
<1>1. kind \in 0..10 /\ c \in [1..2 -> Dvar!Words] /\ l \in [1..2 -> Dvar!Words]
  BY DEF DvarInv, Dvar!Types, Dvar!Pairs
<1>2. c \in Seq(Dvar!Words) /\ l \in Seq(Dvar!Words) /\ Len(c) >= 2 /\ Len(l) >= 2
  <2>1. \A k \in Nat : \A S : \A v \in [1..k -> S] : v \in Seq(S) /\ Len(v) = k
    OBVIOUS
  <2>2. 2 \in Nat
    OBVIOUS
  <2>3. c \in Seq(Dvar!Words) /\ l \in Seq(Dvar!Words) /\ Len(c) = 2 /\ Len(l) = 2
    BY <1>1, <2>1, <2>2, Zenon
  <2> HIDE DEF c, l
  <2> QED
    BY <2>3
<1>3. SubSeq(c, 1, 1) = <<c[1]>> /\ SubSeq(c, 1, 2) = <<c[1], c[2]>>
  BY <1>2, FirstWords
<1>4. SubSeq(l, 1, 1) = <<l[1]>> /\ SubSeq(l, 1, 2) = <<l[1], l[2]>>
  BY <1>2, FirstWords
<1>5. /\ Dvar!Bool = 0 /\ Dvar!Float = 1 /\ Dvar!Float2 = 2 /\ Dvar!Float3 = 3 /\ Dvar!Float4 = 4
      /\ Dvar!Integer = 5 /\ Dvar!Enum = 6 /\ Dvar!String = 7 /\ Dvar!Color = 8
  BY DEF Dvar!Bool, Dvar!Float, Dvar!Float2, Dvar!Float3, Dvar!Float4, Dvar!Integer, Dvar!Enum,
     Dvar!String, Dvar!Color
<1>6. SUFFICES ASSUME NEW x \in Dvar!Words, NEW text, text = Dvar!PrintDvar(dvar, <<x, x>>)
      PROVE  LET k    == IF kind = Dvar!Float2 THEN 2 ELSE 1
                 now  == SubSeq(c, 1, k)
                 then == SubSeq(l, 1, k)
             IN  /\ IF kind \in {Dvar!Float3, Dvar!Float4, Dvar!Color} THEN text.latched # <<>>
                    ELSE (Dvar!Plain(now) /\ Dvar!Plain(then)) \/ kind \in {Dvar!String, 10} => (text.latched = <<>> <=> now = then)
                 /\ kind \in {Dvar!Bool, Dvar!Float, Dvar!Integer, Dvar!Enum, Dvar!String} /\ text.latched # <<>> =>
                      text.latched = <<Dvar!Dvar_ValueToString(kind, l)>>
                 /\ kind = Dvar!Float2 /\ text.latched # <<>> => text.latched[1] = <<l[1], c[2]>>
                 /\ kind \notin {Dvar!Float3, Dvar!Float4} => text = Dvar!PrintDvar(dvar, <<"zero", "zero">>)
  BY Zenon DEF Dvar!LatchedShown
<1> DEFINE zero == Dvar!PrintDvar(dvar, <<"zero", "zero">>)
<1>7. (kind \notin {3, 4} => text = Entry(kind, c, l)) /\ (kind \in {3, 4} => text.latched # <<>>)
  BY <1>1, <1>6, PrintIs
<1>8. kind \notin {3, 4} => zero = Entry(kind, c, l)
  BY <1>1, <1>6, PrintIs
<1>9. kind \notin {3, 4} =>
        /\ text.latched # <<>> <=> Waits(kind, c, l)
        /\ text.latched # <<>> => text.latched = <<New(kind, c, l)>> /\ text.latched[1] = New(kind, c, l)
  BY <1>1, <1>7, EntryIs
<1>10. kind \in {3, 4} \/ kind = 8 \/ kind = 2 \/ kind \in {7, 10} \/ kind \in {0, 1, 5, 6, 9}
  BY <1>1
<1>11. New(kind, c, l) = IF kind = 2 THEN <<l[1], c[2]>> ELSE Dvar!Dvar_ValueToString(kind, l)
  BY DEF New
<1>12. /\ kind \in {3, 4, 8} => Waits(kind, c, l)
       /\ kind = 2 /\ Dvar!Plain(<<c[1], c[2]>>) /\ Dvar!Plain(<<l[1], l[2]>>) =>
            (~Waits(kind, c, l) <=> <<c[1], c[2]>> = <<l[1], l[2]>>)
       /\ kind \in {0, 1, 5, 6, 9} /\ Dvar!Plain(<<c[1]>>) /\ Dvar!Plain(<<l[1]>>) =>
            (~Waits(kind, c, l) <=> <<c[1]>> = <<l[1]>>)
       /\ kind \in {7, 10} => (~Waits(kind, c, l) <=> <<c[1]>> = <<l[1]>>)
  BY <1>1, WaitsIs
<1> HIDE DEF kind, c, l, zero
<1>13. CASE kind \in {3, 4}
  BY <1>5, <1>7, <1>13
<1>14. CASE kind = 8
  BY <1>5, <1>7, <1>8, <1>9, <1>12, <1>14 DEF zero
<1>15. CASE kind = 2
  <2>1. text.latched = <<>> <=> ~Waits(kind, c, l)
    BY <1>9, <1>15
  <2>2. text.latched # <<>> => text.latched[1] = <<l[1], c[2]>>
    BY <1>9, <1>11, <1>15
  <2>3. kind \notin {0, 1, 3, 4, 5, 6, 7, 8, 10}
    BY <1>15
  <2>4. Dvar!Plain(<<c[1], c[2]>>) /\ Dvar!Plain(<<l[1], l[2]>>) =>
          (text.latched = <<>> <=> <<c[1], c[2]>> = <<l[1], l[2]>>)
    BY <1>12, <1>15, <2>1
  <2>5. text = zero
    BY <1>7, <1>8, <1>15 DEF zero
  <2> QED
    BY <1>3, <1>4, <1>5, <1>15, <2>2, <2>3, <2>4, <2>5, Zenon DEF zero
<1>16. CASE kind \in {7, 10}
  <2>1. text.latched = <<>> <=> ~Waits(kind, c, l)
    BY <1>9, <1>16
  <2>2. text.latched # <<>> => text.latched = <<Dvar!Dvar_ValueToString(kind, l)>>
    BY <1>9, <1>11, <1>16
  <2> QED
    BY <1>3, <1>4, <1>5, <1>7, <1>8, <1>12, <1>16, <2>1, <2>2 DEF zero
<1>17. CASE kind \in {0, 1, 5, 6, 9}
  <2>1. text.latched = <<>> <=> ~Waits(kind, c, l)
    BY <1>9, <1>17
  <2>2. text.latched # <<>> => text.latched = <<Dvar!Dvar_ValueToString(kind, l)>>
    BY <1>9, <1>11, <1>17
  <2>3. kind \notin {2, 3, 4, 7, 8, 10}
    BY <1>17
  <2> QED
    BY <1>3, <1>4, <1>5, <1>7, <1>8, <1>12, <1>17, <2>1, <2>2, <2>3 DEF zero
<1> QED
  BY <1>10, <1>13, <1>14, <1>15, <1>16, <1>17

-----------------------------------------------------------------------------
(* Whichever part runs *)

(* The invariant: the one of the part that runs, if it is one of these.    *)
CodesInv ==
  /\ part = "digest" => DigestInv
  /\ part = "base64" => BaseInv
  /\ part = "infos" => InfoInv
  /\ part = "dvars" => DvarInv

(* Each part starts with its invariant.                                    *)
LEMMA CodesStart == Init => CodesInv
BY DigestStarts, BaseStarts, InfoStarts, DvarStarts DEF Init, Started, CodesInv

(* A step is one of the part that runs, or none of it.                     *)
LEMMA CodesStep ==
  ASSUME [Next]_vars
  PROVE  /\ part' = part
         /\ part = "digest" => Digest!Next \/ UNCHANGED digestVars
         /\ part = "base64" => Base!Next \/ UNCHANGED data
         /\ part = "infos" => Info!Next \/ UNCHANGED infoVars
         /\ part = "dvars" => Dvar!Next \/ UNCHANGED dvar
BY DEF Next, vars, pureVars

(* Whatever part it is, the step keeps its invariant.                      *)
LEMMA CodesKept ==
  ASSUME CodesInv, [Next]_vars
  PROVE  CodesInv'
<1>1. part = "digest" => DigestInv'
  BY CodesStep, DigestKept, DigestSame DEF CodesInv
<1>2. part = "base64" => BaseInv'
  BY CodesStep, BaseKept, BaseSame DEF CodesInv
<1>3. part = "infos" => InfoInv'
  BY CodesStep, InfoKept, InfoSame DEF CodesInv
<1>4. part = "dvars" => DvarInv'
  BY CodesStep, DvarKept, DvarSame DEF CodesInv
<1>5. part' = part
  BY CodesStep
<1> QED
  BY <1>1, <1>2, <1>3, <1>4, <1>5 DEF CodesInv

(* Each of these parts keeps its invariant as long as it runs.             *)
THEOREM CodesKeepTheirs == Spec => []CodesInv
<1>1. CodesInv /\ [Next]_vars => CodesInv'
  BY CodesKept
<1> QED
  BY CodesStart, <1>1, PTL DEF Spec

(* Base64 decodes what it encodes, and encodes as the standard does; MD5's *)
(* chunks, however a message is cut, are the standard's blocks.            *)
THEOREM CodesDoAgree == Spec => []CodesAgree
<1>1. CodesInv => CodesAgree
  BY DigestRight, BaseRight DEF CodesInv, CodesAgree
<1> QED
  BY CodesKeepTheirs, <1>1, PTL

(* A key of an info string has the value of its last set, in whatever case *)
(* that was, unless it was refused, taken away or too long.                *)
THEOREM InfosReadBack == Spec => []InfoReadsBack
<1>1. CodesInv => InfoReadsBack
  BY InfoRight DEF CodesInv, InfoReadsBack
<1> QED
  BY CodesKeepTheirs, <1>1, PTL

(* A dvar that waits for a new value is listed with it, one that does not  *)
(* is not.                                                                 *)
THEOREM DvarsListedRight == Spec => []LatchedShown
<1>1. CodesInv => LatchedShown
  BY DvarRight DEF CodesInv, LatchedShown
<1> QED
  BY CodesKeepTheirs, <1>1, PTL
=============================================================================
