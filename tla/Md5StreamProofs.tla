--------------------------- MODULE Md5StreamProofs ---------------------------
(***************************************************************************)
(* That MD5 hashes what RFC 1321 says, for every size of a block, of a     *)
(* byte and of a word, and every way to cut a message into pieces.         *)
(***************************************************************************)
EXTENDS Md5Stream, SequenceTheorems, TLAPS

-----------------------------------------------------------------------------
(***************************************************************************)
(* Quotients and remainders.                                               *)
(***************************************************************************)
LEMMA DivMod ==
  ASSUME NEW m \in Nat \ {0}, NEW x \in Int
  PROVE  /\ x % m \in 0 .. m - 1
         /\ x \div m \in Int
         /\ x = m * (x \div m) + (x % m)
<1>1. x % m \in 0 .. m - 1
  OBVIOUS
<1>2. x \div m \in Int
  OBVIOUS
<1>3. x = m * (x \div m) + (x % m)
  OBVIOUS
<1>4. QED
  BY <1>1, <1>2, <1>3

LEMMA Smaller ==
  ASSUME NEW m \in Nat \ {0}, NEW p \in Int, NEW q \in Int, p < q
  PROVE  m * p + m <= m * q
<1>1. q - p - 1 \in Nat
  OBVIOUS
<1>2. m * (q - p - 1) >= 0
  BY <1>1
<1>3. m * (q - p - 1) = m * q - m * p - m
  OBVIOUS
<1>4. m * p \in Int /\ m * q \in Int /\ m * (q - p - 1) \in Int
  OBVIOUS
<1>5. QED
  BY <1>2, <1>3, <1>4

LEMMA DivModIs ==
  ASSUME NEW m \in Nat \ {0}, NEW q \in Int, NEW r \in 0 .. m - 1
  PROVE  (m * q + r) \div m = q /\ (m * q + r) % m = r
<1> DEFINE x == m * q + r
           p == x \div m
           s == x % m
<1>1. m * q \in Int /\ x \in Int
  OBVIOUS
<1>2. s \in 0 .. m - 1 /\ p \in Int /\ x = m * p + s
  BY <1>1, DivMod
<1>3. m * p \in Int
  BY <1>2
<1>4. x = m * q + r
  OBVIOUS
<1> HIDE DEF x, p, s
<1>5. ~(p < q)
  <2>1. SUFFICES ASSUME p < q PROVE FALSE
    OBVIOUS
  <2>2. m * p + m <= m * q
    BY <1>2, <2>1, Smaller
  <2>3. QED
    BY <1>1, <1>2, <1>3, <1>4, <2>2
<1>6. ~(q < p)
  <2>1. SUFFICES ASSUME q < p PROVE FALSE
    OBVIOUS
  <2>2. m * q + m <= m * p
    BY <1>2, <2>1, Smaller
  <2>3. QED
    BY <1>1, <1>2, <1>3, <1>4, <2>2
<1>7. p = q
  BY <1>2, <1>5, <1>6
<1>8. s = r
  BY <1>1, <1>2, <1>4, <1>7
<1>9. QED
  BY <1>7, <1>8 DEF x, p, s

LEMMA SmallModulo ==
  ASSUME NEW m \in Nat \ {0}, NEW r \in 0 .. m - 1
  PROVE  r % m = r /\ r \div m = 0
<1>1. m * 0 + r = r
  OBVIOUS
<1>2. QED
  BY <1>1, DivModIs

(***************************************************************************)
(* Whole multiples do not count in a remainder.                            *)
(***************************************************************************)
LEMMA Multiples ==
  ASSUME NEW m \in Nat \ {0}, NEW k \in Int, NEW x \in Int
  PROVE  (m * k + x) % m = x % m /\ (m * k + x) \div m = k + (x \div m)
<1> DEFINE q == x \div m
           r == x % m
<1>1. r \in 0 .. m - 1 /\ q \in Int /\ x = m * q + r
  BY DivMod
<1> HIDE DEF q, r
<1>2. m * (k + q) + r = m * k + x
  BY <1>1
<1>3. k + q \in Int
  BY <1>1
<1>4. (m * (k + q) + r) \div m = k + q /\ (m * (k + q) + r) % m = r
  BY <1>1, <1>3, DivModIs
<1>5. (m * k + x) \div m = k + q /\ (m * k + x) % m = r
  BY <1>2, <1>4
<1>6. QED
  BY <1>5 DEF q, r

LEMMA ModuloAdds ==
  ASSUME NEW m \in Nat \ {0}, NEW x \in Int, NEW y \in Int
  PROVE  ((x % m) + y) % m = (x + y) % m
<1> DEFINE q == x \div m
           r == x % m
<1>1. r \in 0 .. m - 1 /\ q \in Int /\ x = m * q + r
  BY DivMod
<1> HIDE DEF q, r
<1>2. m * q + (r + y) = x + y /\ r + y \in Int
  BY <1>1
<1>3. (m * q + (r + y)) % m = (r + y) % m
  BY <1>1, <1>2, Multiples
<1>4. (r + y) % m = (x + y) % m
  BY <1>2, <1>3
<1>5. QED
  BY <1>4 DEF r

-----------------------------------------------------------------------------
(***************************************************************************)
(* `count' for a message of n bytes.                                       *)
(***************************************************************************)
LengthOf(n) == << (Bits * n) % Word, ((Bits * n) \div Word) % Word >>

LEMMA Constants ==
  /\ Block \in Nat \ {0} /\ Bits \in Nat \ {0} /\ Word \in Nat \ {0}
  /\ Block \in Int /\ Bits \in Int /\ Word \in Int
  /\ Field = 2 /\ Field < Block
BY BlockAssumption, WordAssumption DEF Field

(***************************************************************************)
(* A word wraps at a multiple of the bits of a block, so the low word      *)
(* alone says where in a block the next byte goes.                         *)
(***************************************************************************)
LEMMA IndexIs ==
  ASSUME NEW n \in Nat
  PROVE  Index(LengthOf(n)) = n % Block
<1> DEFINE k == Word \div (Bits * Block)
           w == Block * k
           q == n \div w
           r == n % w
<1>1. Bits * Block \in Nat \ {0}
  <2>1. Bits * Block \in Nat /\ Bits * Block > 0
    BY Constants
  <2>2. QED
    BY <2>1
<1>2. k \in Int /\ Word = (Bits * Block) * k
  <2>1. Word % (Bits * Block) = 0
    BY WordAssumption
  <2>2. k \in Int /\ Word = (Bits * Block) * k + (Word % (Bits * Block))
    <3> DEFINE u == Bits * Block
    <3>1. u \in Nat \ {0} /\ Word \in Int
      BY <1>1, Constants
    <3> HIDE DEF u
    <3>2. Word \div u \in Int /\ Word = u * (Word \div u) + (Word % u)
      BY <3>1, DivMod
    <3>3. QED
      BY <3>2 DEF u
  <2>3. (Bits * Block) * k \in Int
    BY <1>1, <2>2
  <2> HIDE DEF k
  <2>4. QED
    BY <2>1, <2>2, <2>3
<1> HIDE DEF k
<1>3. w \in Int /\ Word = Bits * w
  BY <1>2, Constants
<1>4. w \in Nat \ {0}
  <2>1. CASE w <= 0
    <3>1. Bits * w <= 0
      BY <1>3, <2>1, Constants
    <3>2. QED
      BY <1>3, <3>1, Constants
  <2>2. QED
    BY <1>3, <2>1
<1>6. w = Block * k
  OBVIOUS
<1> HIDE DEF w
<1>5. r \in 0 .. w - 1 /\ q \in Int /\ n = w * q + r
  BY <1>4, DivMod
<1> HIDE DEF q, r
<1>7. Bits * n = Word * q + Bits * r
  BY <1>3, <1>4, <1>5, Constants
<1>8. Bits * r \in 0 .. Word - 1
  <2>1. Bits * r \in Nat
    BY <1>5, Constants
  <2>2. Bits * r + Bits <= Bits * w
    BY <1>4, <1>5, Constants, Smaller
  <2>3. QED
    BY <1>3, <2>1, <2>2, Constants
<1>9. (Bits * n) % Word = Bits * r
  <2> DEFINE s == Bits * r
  <2>1. s \in 0 .. Word - 1 /\ Bits * n = Word * q + s
    BY <1>7, <1>8
  <2> HIDE DEF s
  <2>2. (Word * q + s) % Word = s
    BY <1>5, <2>1, Constants, DivModIs
  <2>3. QED
    BY <2>1, <2>2 DEF s
<1>10. (Bits * r) \div Bits = r
  <2>1. 0 \in 0 .. Bits - 1 /\ Bits * r + 0 = Bits * r /\ r \in Int
    BY <1>5, <1>8, Constants
  <2>2. QED
    BY <2>1, Constants, DivModIs
<1>11. n % Block = r % Block
  <2>1. n = Block * (k * q) + r /\ k * q \in Int
    BY <1>2, <1>5, <1>6, Constants
  <2>2. (Block * (k * q) + r) % Block = r % Block
    <3> DEFINE j == k * q
    <3>1. j \in Int /\ r \in Int
      BY <1>5, <2>1
    <3> HIDE DEF j
    <3>2. (Block * j + r) % Block = r % Block
      BY <3>1, Constants, Multiples
    <3>3. QED
      BY <3>2 DEF j
  <2>3. QED
    BY <2>1, <2>2
<1>12. QED
  BY <1>9, <1>10, <1>11 DEF Index, LengthOf

(***************************************************************************)
(* The test for a carry, on the low word after it has wrapped, finds it.   *)
(***************************************************************************)
LEMMA CarryIs ==
  ASSUME NEW x \in Nat, NEW y \in Nat
  PROVE  LET low   == ((x % Word) + y) % Word
             carry == IF low < y % Word THEN 1 ELSE 0
         IN  /\ low = (x + y) % Word
             /\ (x \div Word) + carry + (y \div Word) = (x + y) \div Word
<1> DEFINE low   == ((x % Word) + y) % Word
           carry == IF low < y % Word THEN 1 ELSE 0
           a == x % Word
           p == x \div Word
           b == y % Word
           q == y \div Word
<1>1. a \in 0 .. Word - 1 /\ p \in Int /\ x = Word * p + a
  BY Constants, DivMod
<1>2. b \in 0 .. Word - 1 /\ q \in Int /\ y = Word * q + b
  BY Constants, DivMod
<1>3. low = (x + y) % Word
  <2>1. x \in Int /\ y \in Int
    OBVIOUS
  <2>2. ((x % Word) + y) % Word = (x + y) % Word
    BY <2>1, Constants, ModuloAdds
  <2>3. QED
    BY <2>2
<1>4. carry = IF low < b THEN 1 ELSE 0
  OBVIOUS
<1> HIDE DEF low, carry, a, p, b, q
<1>5. Word * p \in Int /\ Word * q \in Int /\ Word * (p + q) \in Int
        /\ Word * (p + q) = Word * p + Word * q
  BY <1>1, <1>2, Constants
<1>6. CASE a + b < Word
  <2>1. a + b \in 0 .. Word - 1 /\ p + q \in Int
    BY <1>1, <1>2, <1>6, Constants
  <2>2. x + y = Word * (p + q) + (a + b)
    BY <1>1, <1>2, <1>5
  <2>3. (x + y) % Word = a + b /\ (x + y) \div Word = p + q
    <3> DEFINE t == a + b
               u == p + q
    <3>1. t \in 0 .. Word - 1 /\ u \in Int /\ x + y = Word * u + t
      BY <2>1, <2>2
    <3> HIDE DEF t, u
    <3>2. (Word * u + t) % Word = t /\ (Word * u + t) \div Word = u
      BY <3>1, Constants, DivModIs
    <3>3. QED
      BY <3>1, <3>2 DEF t, u
  <2>4. carry = 0
    BY <1>1, <1>2, <1>3, <1>4, <2>3
  <2>5. p + carry + q = (x + y) \div Word
    BY <1>1, <1>2, <2>3, <2>4
  <2>6. QED
    BY <1>3, <2>5 DEF low, carry, p, q
<1>7. CASE a + b >= Word
  <2>1. a + b - Word \in 0 .. Word - 1 /\ p + q + 1 \in Int
    BY <1>1, <1>2, <1>7, Constants
  <2>2. Word * (p + q + 1) = Word * (p + q) + Word
    BY <1>1, <1>2, Constants
  <2>3. x + y = Word * (p + q + 1) + (a + b - Word)
    BY <1>1, <1>2, <1>5, <2>2, Constants
  <2>4. (x + y) % Word = a + b - Word /\ (x + y) \div Word = p + q + 1
    <3> DEFINE t == a + b - Word
               u == p + q + 1
    <3>1. t \in 0 .. Word - 1 /\ u \in Int /\ x + y = Word * u + t
      BY <2>1, <2>3
    <3> HIDE DEF t, u
    <3>2. (Word * u + t) % Word = t /\ (Word * u + t) \div Word = u
      BY <3>1, Constants, DivModIs
    <3>3. QED
      BY <3>1, <3>2 DEF t, u
  <2>5. carry = 1
    BY <1>1, <1>2, <1>3, <1>4, <2>4, Constants
  <2>6. p + carry + q = (x + y) \div Word
    BY <1>1, <1>2, <2>4, <2>5
  <2>7. QED
    BY <1>3, <2>6 DEF low, carry, p, q
<1>8. QED
  BY <1>1, <1>2, <1>6, <1>7, Constants

LEMMA CountedIs ==
  ASSUME NEW m \in Nat, NEW n \in Nat
  PROVE  Counted(LengthOf(m), n) = LengthOf(m + n)
<1> DEFINE x == Bits * m
           y == Bits * n
           low   == ((x % Word) + y) % Word
           carry == IF low < y % Word THEN 1 ELSE 0
           high  == x \div Word
<1>1. x \in Nat /\ y \in Nat /\ y = n * Bits /\ Bits * (m + n) = x + y
  BY Constants
<1> HIDE DEF x, y
<1>2. LengthOf(m) = << x % Word, high % Word >>
  BY DEF LengthOf, x
<1>3. Counted(LengthOf(m), n) =
        << low, ((high % Word) + carry + (y \div Word)) % Word >>
  BY <1>1, <1>2 DEF Counted
<1>4. low = (x + y) % Word /\ high + carry + (y \div Word) = (x + y) \div Word
  BY <1>1, CarryIs
<1>5. high \in Int /\ carry \in Int /\ y \div Word \in Int
  BY <1>1, Constants, DivMod
<1>6. ((high % Word) + carry + (y \div Word)) % Word
        = (high + carry + (y \div Word)) % Word
  <2> DEFINE d == carry + (y \div Word)
             h == high
  <2>1. d \in Int /\ h \in Int /\ h % Word \in Int
    <3>1. carry \in Int /\ y \div Word \in Int
      BY <1>5
    <3>2. d \in Int
      BY <3>1
    <3>3. high % Word \in 0 .. Word - 1
      BY <1>5, Constants, DivMod
    <3>4. QED
      BY <1>5, <3>2, <3>3, Constants
  <2> HIDE DEF d
  <2>2. ((h % Word) + d) % Word = (h + d) % Word
    BY <2>1, Constants, ModuloAdds
  <2> HIDE DEF h
  <2>3. (h % Word) + carry + (y \div Word) = (h % Word) + d
    BY <1>5, <2>1 DEF d
  <2>4. h + carry + (y \div Word) = h + d
    BY <1>5, <2>1 DEF d
  <2>5. QED
    BY <2>2, <2>3, <2>4 DEF h
<1>7. QED
  BY <1>1, <1>3, <1>4, <1>6 DEF LengthOf

-----------------------------------------------------------------------------
(***************************************************************************)
(* What buffers and messages are made of.                                  *)
(***************************************************************************)
Byte == {Junk, Zero, One} \cup {MessageByte(k) : k \in Nat}
          \cup {CountByte(n) : n \in Nat}

Buffers == [1 .. Block -> Byte]

LEMMA AreBytes ==
  /\ Junk \in Byte /\ Zero \in Byte /\ One \in Byte
  /\ \A k \in Nat : MessageByte(k) \in Byte /\ CountByte(k) \in Byte
BY DEF Byte

LEMMA FunctionIsSeq ==
  ASSUME NEW S, NEW n \in Nat, NEW f \in [1 .. n -> S]
  PROVE  f \in Seq(S) /\ Len(f) = n
<1>1. f \in Seq(S)
  BY SeqDef
<1>2. DOMAIN f = 1 .. Len(f) /\ Len(f) \in Nat /\ DOMAIN f = 1 .. n
  BY <1>1, LenProperties
<1>3. QED
  BY <1>1, <1>2

(***************************************************************************)
(* A copy leaves what is outside of it alone, and is there where it is put.*)
(***************************************************************************)
LEMMA CopyIs ==
  ASSUME NEW b \in Buffers, NEW n \in Nat, NEW s \in Seq(Byte),
         n + Len(s) <= Block
  PROVE  /\ Copy(b, n, s) \in Buffers
         /\ \A k \in 1 .. Block :
              Copy(b, n, s)[k] = IF k \in n + 1 .. n + Len(s)
                                 THEN s[k - n] ELSE b[k]
<1>1. Len(s) \in Nat
  BY LenProperties
<1>2. ASSUME NEW k \in 1 .. Block
      PROVE  /\ Copy(b, n, s)[k] = IF k \in n + 1 .. n + Len(s)
                                   THEN s[k - n] ELSE b[k]
             /\ Copy(b, n, s)[k] \in Byte
  <2>1. Copy(b, n, s)[k] = IF k \in n + 1 .. n + Len(s)
                           THEN s[k - n] ELSE b[k]
    BY DEF Copy
  <2>2. CASE k \in n + 1 .. n + Len(s)
    <3>1. k - n \in 1 .. Len(s)
      BY <1>1, <2>2
    <3>2. s[k - n] \in Byte
      BY <3>1, ElementOfSeq
    <3>3. QED
      BY <2>1, <2>2, <3>2
  <2>3. CASE k \notin n + 1 .. n + Len(s)
    BY <2>1, <2>3 DEF Buffers
  <2>4. QED
    BY <2>1, <2>2, <2>3
<1>3. Copy(b, n, s) \in Buffers
  <2>1. Copy(b, n, s)
          = [k \in 1 .. Block |-> IF k \in n + 1 .. n + Len(s)
                                  THEN s[k - n] ELSE b[k]]
    BY DEF Copy
  <2> DEFINE c == Copy(b, n, s)
  <2>2. DOMAIN c = 1 .. Block /\ c = [k \in 1 .. Block |-> c[k]]
    BY <2>1
  <2>3. \A k \in 1 .. Block : c[k] \in Byte
    BY <1>2
  <2> HIDE DEF c
  <2>4. c \in Buffers
    BY <2>2, <2>3 DEF Buffers
  <2>5. QED
    BY <2>4 DEF c
<1>4. QED
  BY <1>2, <1>3

(***************************************************************************)
(* The part of a sequence from one place to another.                       *)
(***************************************************************************)
LEMMA PartOf ==
  ASSUME NEW s \in Seq(Byte), NEW m \in Nat, NEW n \in Nat,
         m <= n, n <= Len(s)
  PROVE  /\ SubSeq(s, m + 1, n) \in Seq(Byte)
         /\ Len(SubSeq(s, m + 1, n)) = n - m
         /\ \A k \in 1 .. n - m : SubSeq(s, m + 1, n)[k] = s[m + k]
<1>1. Len(s) \in Nat
  BY LenProperties
<1>2. \A k \in m + 1 .. n : s[k] \in Byte
  <2>1. \A k \in m + 1 .. n : k \in 1 .. Len(s)
    BY <1>1
  <2>2. QED
    BY <2>1, ElementOfSeq
<1>3. m + 1 \in Int /\ n \in Int
  OBVIOUS
<1>4. /\ SubSeq(s, m + 1, n) \in Seq(Byte)
      /\ Len(SubSeq(s, m + 1, n))
           = IF m + 1 <= n THEN n - (m + 1) + 1 ELSE 0
      /\ \A k \in 1 .. n - (m + 1) + 1 :
           SubSeq(s, m + 1, n)[k] = s[(m + 1) + k - 1]
  BY <1>2, <1>3, SubSeqProperties
<1>5. n - (m + 1) + 1 = n - m
  OBVIOUS
<1>6. \A k \in Int : (m + 1) + k - 1 = m + k
  OBVIOUS
<1>7. Len(SubSeq(s, m + 1, n)) = n - m
  BY <1>4, <1>5
<1>8. ASSUME NEW k \in 1 .. n - m
      PROVE  SubSeq(s, m + 1, n)[k] = s[m + k]
  BY <1>4, <1>5, <1>6
<1>9. QED
  BY <1>4, <1>7, <1>8

-----------------------------------------------------------------------------
(***************************************************************************)
(* A context x represents what it has been given, t: `count' is its length *)
(* in bits, its whole blocks are hashed and the bytes behind them are at   *)
(* the start of the buffer.                                                *)
(***************************************************************************)
Over(t) == Len(t) % Block

Represents(x, t) ==
  /\ x.count = LengthOf(Len(t))
  /\ x.buffer \in Buffers
  /\ x.hashed \in Seq(Byte)
  /\ Len(x.hashed) = Len(t) - Over(t)
  /\ \A k \in 1 .. Len(t) - Over(t) : x.hashed[k] = t[k]
  /\ \A k \in 1 .. Over(t) : x.buffer[k] = t[Len(t) - Over(t) + k]

(***************************************************************************)
(* The inductive invariant.  Before MD5Final the context represents the    *)
(* message so far; without that HashesPadded is not inductive, as it says  *)
(* nothing of an open context.                                             *)
(***************************************************************************)
IInv ==
  /\ total \in Nat
  /\ stage \in {"open", "done"}
  /\ stage = "open" => Represents(Context, Message(1, total))
  /\ HashesPadded

(***************************************************************************)
(* What MD5Update does if the bytes do not fill the buffer, and if they    *)
(* do, with the terms of Absorb named.                                     *)
(***************************************************************************)
LEMMA AbsorbLittle ==
  ASSUME NEW x, NEW s, Len(s) \in Nat,
         ~(Len(s) >= Block - Index(x.count))
  PROVE  Absorb(x, s) =
           [count  |-> Counted(x.count, Len(s)),
            buffer |-> Copy(x.buffer, Index(x.count), SubSeq(s, 0 + 1, Len(s))),
            hashed |-> x.hashed]
BY DEF Absorb

LEMMA AbsorbMuch ==
  ASSUME NEW x, NEW s, Len(s) \in Nat,
         NEW part, part = Block - Index(x.count), Len(s) >= part,
         NEW used, used = part + ((Len(s) - part) \div Block) * Block
  PROVE  Absorb(x, s) =
           [count  |-> Counted(x.count, Len(s)),
            buffer |-> Copy(Copy(x.buffer, Index(x.count), SubSeq(s, 1, part)),
                            0, SubSeq(s, used + 1, Len(s))),
            hashed |-> (x.hashed
                         \o Copy(x.buffer, Index(x.count), SubSeq(s, 1, part)))
                         \o SubSeq(s, part + 1, used)]
BY DEF Absorb

(***************************************************************************)
(* MD5Update: a context that represents t represents t \o s after s.       *)
(***************************************************************************)
LEMMA LittleRepresents ==
  ASSUME NEW x, NEW t \in Seq(Byte), NEW s \in Seq(Byte), Represents(x, t),
         Over(t) + Len(s) < Block
  PROVE  Represents(Absorb(x, s), t \o s)
<1> DEFINE L == Len(t)
           l == Len(s)
           r == Over(t)
           u == t \o s
           y == Absorb(x, s)
<1>1. L \in Nat /\ l \in Nat
  BY LenProperties
<1>2. u \in Seq(Byte) /\ Len(u) = L + l
        /\ \A i \in 1 .. L + l : u[i] = IF i <= L THEN t[i] ELSE s[i - L]
  BY ConcatProperties
<1>3. r \in 0 .. Block - 1 /\ L \div Block \in Int
        /\ L = Block * (L \div Block) + r
  <2>1. L \in Int /\ r = L % Block
    BY <1>1 DEF Over
  <2> HIDE DEF L, r
  <2>2. L % Block \in 0 .. Block - 1 /\ L \div Block \in Int
          /\ L = Block * (L \div Block) + (L % Block)
    BY <2>1, Constants, DivMod
  <2>3. QED
    BY <2>1, <2>2
<1>4. /\ x.count = LengthOf(L) /\ x.buffer \in Buffers
      /\ x.hashed \in Seq(Byte) /\ Len(x.hashed) = L - r
      /\ \A k \in 1 .. L - r : x.hashed[k] = t[k]
      /\ \A k \in 1 .. r : x.buffer[k] = t[L - r + k]
  BY DEF Represents
<1>5. Index(x.count) = r
  BY <1>1, <1>4, IndexIs DEF Over
<1> DEFINE rest == SubSeq(s, 0 + 1, l)
<1>6. /\ y.count = Counted(x.count, l)
      /\ y.buffer = Copy(x.buffer, r, rest)
      /\ y.hashed = x.hashed
  <2>1. ~(l >= Block - r)
    BY <1>1, <1>3, Constants
  <2>2. y = [count  |-> Counted(x.count, l),
             buffer |-> Copy(x.buffer, Index(x.count), rest),
             hashed |-> x.hashed]
    BY <1>1, <1>5, <2>1, AbsorbLittle
  <2> HIDE DEF y, rest
  <2>3. QED
    BY <1>5, <2>2
<1>7. rest \in Seq(Byte) /\ Len(rest) = l
        /\ \A k \in 1 .. l : rest[k] = s[k]
  <2>1. 0 <= l /\ l <= Len(s) /\ 0 \in Nat /\ l \in Nat
    BY <1>1
  <2>2. /\ rest \in Seq(Byte) /\ Len(rest) = l - 0
        /\ \A k \in 1 .. l - 0 : rest[k] = s[0 + k]
    BY <2>1, PartOf
  <2> HIDE DEF rest
  <2>3. QED
    BY <1>1, <2>2
<1>8. y.count = LengthOf(L + l)
  BY <1>1, <1>4, <1>6, CountedIs
<1>9. Over(u) = r + l
  <2> DEFINE q == L \div Block
             e == r + l
  <2> HIDE DEF L, l, r, u, y, rest
  <2>1. e \in 0 .. Block - 1 /\ q \in Int /\ L + l = Block * q + e
    <3>1. L = Block * q + r /\ q \in Int /\ r \in 0 .. Block - 1
      BY <1>3
    <3> HIDE DEF q
    <3>2. Block * q \in Int
      BY <3>1, Constants
    <3>3. r + l < Block
      BY DEF r, l
    <3>4. e \in 0 .. Block - 1
      BY <1>1, <3>1, <3>3, Constants
    <3>5. L + l = Block * q + e
      BY <1>1, <3>1, <3>2, Constants
    <3>6. QED
      BY <3>1, <3>4, <3>5
  <2> HIDE DEF q, e
  <2>2. (Block * q + e) % Block = e
    BY <2>1, Constants, DivModIs
  <2>3. QED
    BY <1>2, <2>1, <2>2 DEF Over, e
<1> HIDE DEF L, l, r, u, y, rest
<1>10. r + Len(rest) <= Block /\ r \in Nat
  BY <1>1, <1>3, <1>7, Constants DEF r, l
<1>11. /\ y.buffer \in Buffers
       /\ \A k \in 1 .. Block :
            y.buffer[k] = IF k \in r + 1 .. r + l
                          THEN rest[k - r] ELSE x.buffer[k]
  <2> DEFINE b == x.buffer
  <2>1. b \in Buffers /\ rest \in Seq(Byte) /\ Len(rest) = l
          /\ y.buffer = Copy(b, r, rest)
    BY <1>4, <1>6, <1>7
  <2> HIDE DEF b
  <2>2. /\ Copy(b, r, rest) \in Buffers
        /\ \A k \in 1 .. Block :
             Copy(b, r, rest)[k] = IF k \in r + 1 .. r + Len(rest)
                                   THEN rest[k - r] ELSE b[k]
    BY <1>10, <2>1, CopyIs
  <2>3. QED
    BY <2>1, <2>2 DEF b
<1>12. (L + l) - (r + l) = L - r
  BY <1>1, <1>3, Constants
<1>13. ASSUME NEW k \in 1 .. L - r
       PROVE  y.hashed[k] = u[k]
  <2>1. k \in 1 .. L + l /\ k <= L
    BY <1>1, <1>3, Constants
  <2>2. u[k] = t[k]
    BY <1>2, <2>1
  <2>3. QED
    BY <1>4, <1>6, <2>2
<1>14. ASSUME NEW k \in 1 .. r + l
       PROVE  y.buffer[k] = u[L - r + k]
  <2>1. k \in 1 .. Block /\ L - r + k \in 1 .. L + l
    BY <1>1, <1>3, <1>7, <1>10, Constants
  <2>2. CASE k <= r
    <3>1. k \in 1 .. r /\ L - r + k <= L
      BY <1>1, <1>3, <2>2, Constants
    <3>2. y.buffer[k] = x.buffer[k]
      BY <1>11, <1>1, <1>3, <2>1, <3>1, Constants
    <3>3. QED
      BY <1>2, <1>4, <2>1, <3>1, <3>2
  <2>3. CASE k > r
    <3>1. k \in r + 1 .. r + l /\ ~(L - r + k <= L) /\ k - r \in 1 .. l
      BY <1>1, <1>3, <2>3, Constants
    <3>2. y.buffer[k] = s[k - r]
      BY <1>7, <1>11, <2>1, <3>1
    <3>3. (L - r + k) - L = k - r
      BY <1>1, <1>3, Constants
    <3>4. QED
      BY <1>2, <2>1, <3>1, <3>2, <3>3
  <2>4. QED
    BY <1>1, <1>3, <2>2, <2>3, Constants
<1>15. Represents(y, u)
  BY <1>2, <1>4, <1>6, <1>8, <1>9, <1>11, <1>12, <1>13, <1>14 DEF Represents
<1>16. QED
  BY <1>15 DEF y, u

LEMMA MuchRepresents ==
  ASSUME NEW x, NEW t \in Seq(Byte), NEW s \in Seq(Byte), Represents(x, t),
         Over(t) + Len(s) >= Block
  PROVE  Represents(Absorb(x, s), t \o s)
<1> DEFINE L == Len(t)
           l == Len(s)
           r == Over(t)
           u == t \o s
           y == Absorb(x, s)
           part == Block - r
           d == (l - part) \div Block
           e == (l - part) % Block
           used == part + d * Block
           fill == SubSeq(s, 1, part)
           block == Copy(x.buffer, r, fill)
           whole == SubSeq(s, part + 1, used)
           rest == SubSeq(s, used + 1, l)
           q == L \div Block
<1>1. L \in Nat /\ l \in Nat
  BY LenProperties
<1>2. u \in Seq(Byte) /\ Len(u) = L + l
        /\ \A i \in 1 .. L + l : u[i] = IF i <= L THEN t[i] ELSE s[i - L]
  BY ConcatProperties
<1>3. r \in 0 .. Block - 1 /\ q \in Int /\ L = Block * q + r
  <2>1. L \in Int /\ r = L % Block
    BY <1>1 DEF Over
  <2> HIDE DEF L, r
  <2>2. L % Block \in 0 .. Block - 1 /\ L \div Block \in Int
          /\ L = Block * (L \div Block) + (L % Block)
    BY <2>1, Constants, DivMod
  <2>3. QED
    BY <2>1, <2>2
<1>4. /\ x.count = LengthOf(L) /\ x.buffer \in Buffers
      /\ x.hashed \in Seq(Byte) /\ Len(x.hashed) = L - r
      /\ \A k \in 1 .. L - r : x.hashed[k] = t[k]
      /\ \A k \in 1 .. r : x.buffer[k] = t[L - r + k]
  BY DEF Represents
<1>5. Index(x.count) = r
  BY <1>1, <1>4, IndexIs DEF Over
<1>6. /\ y.count = Counted(x.count, l)
      /\ y.buffer = Copy(block, 0, rest)
      /\ y.hashed = (x.hashed \o block) \o whole
  <2>1. l >= part /\ part = Block - Index(x.count)
          /\ used = part + ((l - part) \div Block) * Block
    BY <1>1, <1>3, <1>5, Constants
  <2>2. y = [count  |-> Counted(x.count, l),
             buffer |-> Copy(Copy(x.buffer, Index(x.count), fill), 0, rest),
             hashed |-> (x.hashed \o Copy(x.buffer, Index(x.count), fill))
                          \o whole]
    <3> HIDE DEF part, used
    <3>1. QED
      BY <1>1, <2>1, AbsorbMuch
  <2> HIDE DEF y, rest, fill, whole
  <2>3. QED
    BY <1>5, <2>2
<1>7. part \in 1 .. Block /\ part <= l /\ part = Block - r
  BY <1>1, <1>3, Constants
<1>8. e \in 0 .. Block - 1 /\ d \in Nat /\ l - part = Block * d + e
  <2> DEFINE z == l - part
  <2>1. z \in Nat /\ z \in Int
    BY <1>1, <1>7
  <2> HIDE DEF z
  <2>2. z % Block \in 0 .. Block - 1 /\ z \div Block \in Int
          /\ z = Block * (z \div Block) + (z % Block)
    BY <2>1, Constants, DivMod
  <2>3. z \div Block >= 0
    <3> DEFINE p == z \div Block
    <3>1. p \in Int /\ 0 \in Int /\ z = Block * p + (z % Block)
      BY <2>2
    <3> HIDE DEF p
    <3>2. CASE p < 0
      <4>1. Block * p + Block <= Block * 0
        BY <3>1, <3>2, Constants, Smaller
      <4> DEFINE m == Block * p
                 o == z % Block
      <4>2. m \in Int /\ o \in 0 .. Block - 1 /\ z = m + o
        BY <2>2, <3>1, Constants
      <4>3. m + Block <= 0
        BY <4>1, Constants
      <4> HIDE DEF m, o
      <4>4. QED
        BY <2>1, <4>2, <4>3, Constants
    <3>3. QED
      BY <3>1, <3>2 DEF p
  <2>4. QED
    BY <2>2, <2>3 DEF z
<1>9. used \in Nat /\ used = part + Block * d /\ used = l - e
        /\ part <= used /\ used <= l
  <2>1. used = part + d * Block
    OBVIOUS
  <2> HIDE DEF used, part, d, e, l
  <2>2. Block * d \in Nat /\ d * Block = Block * d
    BY <1>8, Constants
  <2> DEFINE m == Block * d
  <2>3. m \in Nat /\ used = part + m /\ l - part = m + e
    BY <1>8, <2>1, <2>2
  <2> HIDE DEF m
  <2>4. part \in Nat /\ e \in Nat
    BY <1>7, <1>8, Constants
  <2>5. used \in Nat /\ used = l - e /\ part <= used /\ used <= l
    BY <1>1, <2>3, <2>4
  <2>6. QED
    BY <2>3, <2>5 DEF m
<1>10. y.count = LengthOf(L + l)
  BY <1>1, <1>4, <1>6, CountedIs
<1> HIDE DEF L, l, r, u, y, part, d, e, used, fill, block, whole, rest, q
<1>11. Over(u) = e
  <2> DEFINE j == q + 1 + d
  <2>1. j \in Int /\ Block * j = Block * q + Block + Block * d
    BY <1>3, <1>8, Constants
  <2>2. Block * q \in Int /\ Block * d \in Int
    BY <1>3, <1>8, Constants
  <2> HIDE DEF j
  <2>3. L + l = Block * j + e
    BY <1>1, <1>3, <1>7, <1>8, <2>1, <2>2, Constants
  <2>4. (Block * j + e) % Block = e
    BY <1>8, <2>1, Constants, DivModIs
  <2>5. QED
    BY <1>2, <2>3, <2>4 DEF Over
<1>12. fill \in Seq(Byte) /\ Len(fill) = part
         /\ \A k \in 1 .. part : fill[k] = s[k]
  <2>1. 0 <= part /\ part <= Len(s) /\ 0 \in Nat /\ part \in Nat
    BY <1>1, <1>7 DEF l
  <2>2. /\ SubSeq(s, 0 + 1, part) \in Seq(Byte)
        /\ Len(SubSeq(s, 0 + 1, part)) = part - 0
        /\ \A k \in 1 .. part - 0 : SubSeq(s, 0 + 1, part)[k] = s[0 + k]
    BY <2>1, PartOf
  <2>3. 0 + 1 = 1 /\ part - 0 = part /\ \A k \in 1 .. part : 0 + k = k
    BY <2>1
  <2>4. fill = SubSeq(s, 0 + 1, part)
    BY <2>3 DEF fill
  <2>5. QED
    BY <2>2, <2>3, <2>4
<1>13. whole \in Seq(Byte) /\ Len(whole) = used - part
         /\ \A k \in 1 .. used - part : whole[k] = s[part + k]
  <2>1. part <= used /\ used <= Len(s) /\ part \in Nat /\ used \in Nat
    BY <1>7, <1>9 DEF l
  <2>2. QED
    BY <2>1, PartOf DEF whole
<1>14. rest \in Seq(Byte) /\ Len(rest) = e
         /\ \A k \in 1 .. e : rest[k] = s[used + k]
  <2>1. used <= l /\ l <= Len(s) /\ used \in Nat /\ l \in Nat
    BY <1>1, <1>9 DEF l
  <2>2. /\ rest \in Seq(Byte) /\ Len(rest) = l - used
        /\ \A k \in 1 .. l - used : rest[k] = s[used + k]
    BY <2>1, PartOf DEF rest
  <2>3. l - used = e
    BY <1>1, <1>8, <1>9, Constants
  <2>4. QED
    BY <2>2, <2>3
(* The buffer that fills up is the next block. *)
<1>15. /\ block \in Buffers
       /\ \A k \in 1 .. Block : block[k] = u[L - r + k]
  <2>1. r + Len(fill) <= Block /\ r \in Nat
    BY <1>3, <1>7, <1>12, Constants
  <2>2. /\ block \in Buffers
        /\ \A k \in 1 .. Block : block[k] = IF k \in r + 1 .. r + Len(fill)
                                            THEN fill[k - r] ELSE x.buffer[k]
    BY <1>4, <1>12, <2>1, CopyIs DEF block
  <2>3. ASSUME NEW k \in 1 .. Block
        PROVE  block[k] = u[L - r + k]
    <3>1. L - r + k \in 1 .. L + l
      <4>1. L - r >= 0
        <5>1. L - r = Len(x.hashed) /\ Len(x.hashed) \in Nat
          BY <1>4, LenProperties
        <5>2. QED
          BY <5>1
      <4>2. QED
        BY <1>1, <1>3, <1>7, <4>1, Constants
    <3>2. CASE k <= r
      <4>1. k \in 1 .. r /\ L - r + k <= L /\ ~(k \in r + 1 .. r + Len(fill))
        BY <1>1, <1>3, <3>2, Constants
      <4>2. QED
        BY <1>2, <1>4, <2>2, <3>1, <4>1
    <3>3. CASE k > r
      <4>1. k \in r + 1 .. r + Len(fill) /\ k - r \in 1 .. part
              /\ ~(L - r + k <= L) /\ (L - r + k) - L = k - r
        BY <1>1, <1>3, <1>7, <1>12, <3>3, Constants
      <4>2. QED
        BY <1>2, <1>12, <2>2, <3>1, <4>1
    <3>4. QED
      BY <1>3, <3>2, <3>3, Constants
  <2>4. QED
    BY <2>2, <2>3
<1>16. block \in Seq(Byte) /\ Len(block) = Block
  <2>1. Block \in Nat /\ block \in [1 .. Block -> Byte]
    BY <1>15, Constants DEF Buffers
  <2>2. QED
    BY <2>1, FunctionIsSeq
<1> DEFINE first == x.hashed \o block
           h == L - r
<1>17. /\ first \in Seq(Byte) /\ Len(first) = h + Block
       /\ \A k \in 1 .. h + Block :
            first[k] = IF k <= h THEN x.hashed[k] ELSE block[k - h]
  <2> DEFINE g == x.hashed
  <2>1. g \in Seq(Byte) /\ Len(g) = h /\ first = g \o block
    BY <1>4
  <2> HIDE DEF g, first, h
  <2>2. /\ g \o block \in Seq(Byte)
        /\ Len(g \o block) = Len(g) + Len(block)
        /\ \A k \in 1 .. Len(g) + Len(block) :
             (g \o block)[k] = IF k <= Len(g) THEN g[k]
                               ELSE block[k - Len(g)]
    BY <1>16, <2>1, ConcatProperties
  <2>3. QED
    BY <1>16, <2>1, <2>2 DEF g
<1>18. h \in Nat
  <2>1. h = Len(x.hashed) /\ Len(x.hashed) \in Nat
    BY <1>4, LenProperties
  <2>2. QED
    BY <2>1
<1>19. /\ y.hashed \in Seq(Byte)
       /\ Len(y.hashed) = (h + Block) + (used - part)
       /\ \A k \in 1 .. (h + Block) + (used - part) :
            y.hashed[k] = IF k <= h + Block THEN first[k]
                          ELSE whole[k - (h + Block)]
  <2>1. y.hashed = first \o whole
    BY <1>6
  <2> HIDE DEF first, h
  <2>2. first \in Seq(Byte) /\ Len(first) = h + Block
    BY <1>17
  <2>3. /\ first \o whole \in Seq(Byte)
        /\ Len(first \o whole) = Len(first) + Len(whole)
        /\ \A k \in 1 .. Len(first) + Len(whole) :
             (first \o whole)[k] = IF k <= Len(first) THEN first[k]
                                   ELSE whole[k - Len(first)]
    BY <1>13, <2>2, ConcatProperties
  <2>4. QED
    BY <1>13, <2>1, <2>2, <2>3
<1> HIDE DEF first
<1>20. (h + Block) + (used - part) = (L + l) - e /\ h = L - r
  BY <1>1, <1>3, <1>7, <1>8, <1>9, Constants
<1> HIDE DEF h
<1>21. ASSUME NEW k \in 1 .. (L + l) - e
       PROVE  y.hashed[k] = u[k]
  <2>1. k \in 1 .. L + l /\ k \in 1 .. (h + Block) + (used - part)
    BY <1>1, <1>8, <1>20, Constants
  <2>2. CASE k <= h
    <3>1. k \in 1 .. L - r /\ k <= L /\ k <= h + Block /\ k \in 1 .. h + Block
      BY <1>1, <1>3, <1>18, <1>20, <2>1, <2>2, Constants
    <3>2. y.hashed[k] = t[k]
      BY <1>4, <1>17, <1>19, <2>1, <2>2, <3>1
    <3>3. QED
      BY <1>2, <2>1, <3>1, <3>2
  <2>3. CASE k > h /\ k <= h + Block
    <3>1. k \in 1 .. h + Block /\ ~(k <= h) /\ k - h \in 1 .. Block
            /\ (L - r) + (k - h) = k
      BY <1>1, <1>3, <1>18, <1>20, <2>1, <2>3, Constants
    <3>2. y.hashed[k] = block[k - h]
      BY <1>17, <1>19, <2>1, <2>3, <3>1
    <3>3. QED
      BY <1>15, <3>1, <3>2
  <2>4. CASE k > h + Block
    <3>1. ~(k <= h + Block) /\ k - (h + Block) \in 1 .. used - part
            /\ part + (k - (h + Block)) = k - L /\ ~(k <= L)
      BY <1>1, <1>3, <1>7, <1>9, <1>18, <1>20, <2>1, <2>4, Constants
    <3>2. y.hashed[k] = whole[k - (h + Block)]
      BY <1>19, <2>1, <3>1
    <3>3. y.hashed[k] = s[k - L]
      BY <1>13, <3>1, <3>2
    <3>4. QED
      BY <1>2, <2>1, <3>1, <3>3
  <2>5. QED
    BY <1>18, <2>1, <2>2, <2>3, <2>4, Constants
<1>22. 0 + Len(rest) <= Block /\ 0 \in Nat /\ 0 + 1 = 1 /\ 0 + Len(rest) = e
  BY <1>8, <1>14, Constants
<1>23. /\ y.buffer \in Buffers
       /\ \A k \in 1 .. Block :
            y.buffer[k] = IF k \in 0 + 1 .. 0 + Len(rest)
                          THEN rest[k - 0] ELSE block[k]
  BY <1>6, <1>14, <1>15, <1>22, CopyIs
<1>24. ASSUME NEW k \in 1 .. e
       PROVE  y.buffer[k] = u[(L + l) - e + k]
  <2>1. k \in 1 .. Block /\ k \in 0 + 1 .. 0 + Len(rest) /\ k - 0 = k
    BY <1>8, <1>22, Constants
  <2>2. y.buffer[k] = s[used + k]
    BY <1>14, <1>23, <2>1
  <2>3. (L + l) - e + k \in 1 .. L + l /\ ~((L + l) - e + k <= L)
          /\ ((L + l) - e + k) - L = used + k
    <3>1. used \in Nat /\ used = l - e /\ e \in Int
      BY <1>8, <1>9, Constants
    <3>2. (L + l) - e + k = L + used + k /\ k <= e /\ k >= 1 /\ k \in Int
      BY <1>1, <1>8, <3>1
    <3>3. QED
      BY <1>1, <3>1, <3>2
  <2>4. QED
    BY <1>2, <2>2, <2>3
<1>25. Represents(y, u)
  BY <1>2, <1>10, <1>11, <1>19, <1>20, <1>21, <1>23, <1>24 DEF Represents
<1>26. QED
  BY <1>25 DEF y, u

LEMMA AbsorbRepresents ==
  ASSUME NEW x, NEW t \in Seq(Byte), NEW s \in Seq(Byte), Represents(x, t)
  PROVE  Represents(Absorb(x, s), t \o s)
<1>1. Len(t) \in Nat /\ Len(s) \in Nat
  BY LenProperties
<1>2. Over(t) \in Int
  BY <1>1, Constants DEF Over
<1>3. Over(t) + Len(s) < Block \/ Over(t) + Len(s) >= Block
  BY <1>1, <1>2, Constants
<1>4. QED
  BY <1>3, LittleRepresents, MuchRepresents

-----------------------------------------------------------------------------
(***************************************************************************)
(* The message and the length behind the padding.                          *)
(***************************************************************************)
LEMMA MessageIs ==
  ASSUME NEW m \in Nat, NEW n \in Nat, m <= n
  PROVE  /\ Message(m + 1, n) \in Seq(Byte)
         /\ Len(Message(m + 1, n)) = n - m
         /\ \A k \in 1 .. n - m : Message(m + 1, n)[k] = MessageByte(m + k)
<1> DEFINE f == Message(m + 1, n)
<1>1. n - m \in Nat /\ n - (m + 1) + 1 = n - m
  OBVIOUS
<1>2. f = [k \in 1 .. n - m |-> MessageByte((m + 1) + k - 1)]
  BY <1>1 DEF Message
<1>3. ASSUME NEW k \in 1 .. n - m
      PROVE  f[k] = MessageByte(m + k) /\ f[k] \in Byte
  <2>1. (m + 1) + k - 1 = m + k /\ m + k \in Nat
    OBVIOUS
  <2>2. f[k] = MessageByte(m + k)
    BY <1>2, <2>1
  <2>3. QED
    BY <2>1, <2>2, AreBytes
<1>4. f \in [1 .. n - m -> Byte]
  <2>1. DOMAIN f = 1 .. n - m /\ f = [k \in 1 .. n - m |-> f[k]]
    BY <1>2
  <2> HIDE DEF f
  <2>2. QED
    BY <1>3, <2>1
<1>5. f \in Seq(Byte) /\ Len(f) = n - m
  BY <1>1, <1>4, FunctionIsSeq
<1>6. QED
  BY <1>3, <1>5

LEMMA MessageOne ==
  ASSUME NEW n \in Nat
  PROVE  /\ Message(1, n) \in Seq(Byte)
         /\ Len(Message(1, n)) = n
         /\ \A k \in 1 .. n : Message(1, n)[k] = MessageByte(k)
<1>1. 0 \in Nat /\ 0 <= n /\ 0 + 1 = 1 /\ n - 0 = n
  OBVIOUS
<1>2. /\ Message(0 + 1, n) \in Seq(Byte)
      /\ Len(Message(0 + 1, n)) = n - 0
      /\ \A k \in 1 .. n - 0 : Message(0 + 1, n)[k] = MessageByte(0 + k)
  BY <1>1, MessageIs
<1>3. \A k \in 1 .. n : 0 + k = k
  OBVIOUS
<1>4. Message(0 + 1, n) = Message(1, n)
  BY <1>1
<1>5. QED
  BY <1>1, <1>2, <1>3, <1>4

LEMMA MessageGrows ==
  ASSUME NEW n \in Nat, NEW j \in Nat
  PROVE  Message(1, n) \o Message(n + 1, n + j) = Message(1, n + j)
<1> DEFINE s == Message(1, n)
           t == Message(n + 1, n + j)
           u == Message(1, n + j)
<1>1. /\ s \in Seq(Byte) /\ Len(s) = n
      /\ \A k \in 1 .. n : s[k] = MessageByte(k)
  BY MessageOne
<1>2. n + j \in Nat /\ n <= n + j /\ (n + j) - n = j
  OBVIOUS
<1>3. /\ t \in Seq(Byte) /\ Len(t) = j
      /\ \A k \in 1 .. j : t[k] = MessageByte(n + k)
  BY <1>2, MessageIs
<1>4. /\ u \in Seq(Byte) /\ Len(u) = n + j
      /\ \A k \in 1 .. n + j : u[k] = MessageByte(k)
  BY <1>2, MessageOne
<1> HIDE DEF s, t, u
<1>5. /\ s \o t \in Seq(Byte) /\ Len(s \o t) = n + j
      /\ \A k \in 1 .. n + j :
           (s \o t)[k] = IF k <= n THEN s[k] ELSE t[k - n]
  BY <1>1, <1>3, ConcatProperties
<1>6. ASSUME NEW k \in 1 .. n + j
      PROVE  (s \o t)[k] = u[k]
  <2>1. CASE k <= n
    <3>1. k \in 1 .. n
      BY <2>1
    <3>2. (s \o t)[k] = MessageByte(k)
      BY <1>1, <1>5, <2>1, <3>1
    <3>3. QED
      BY <1>4, <3>2
  <2>2. CASE k > n
    <3>1. k - n \in 1 .. j /\ n + (k - n) = k /\ ~(k <= n)
      BY <2>2
    <3>2. (s \o t)[k] = t[k - n] /\ t[k - n] = MessageByte(n + (k - n))
      BY <1>3, <1>5, <3>1
    <3>3. (s \o t)[k] = MessageByte(k)
      BY <3>1, <3>2
    <3>4. QED
      BY <1>4, <3>3
  <2>3. k <= n \/ k > n
    OBVIOUS
  <2>4. QED
    BY <2>1, <2>2, <2>3
<1>7. s \o t = u
  BY <1>4, <1>5, <1>6, SeqEqual
<1>8. QED
  BY <1>7 DEF s, t, u

(***************************************************************************)
(* A number below the square of the word, in two words.                    *)
(***************************************************************************)
LEMMA TwoWords ==
  ASSUME NEW x \in Nat
  PROVE  LET b == x % (Word * Word)
         IN  b % Word = x % Word /\ b \div Word = (x \div Word) % Word
<1> DEFINE w2 == Word * Word
           a == x \div w2
           b == x % w2
           q == b \div Word
           r == b % Word
<1>1. w2 \in Nat \ {0}
  <2>1. Word * Word \in Nat /\ Word * Word > 0
    BY Constants
  <2>2. QED
    BY <2>1
<1>2. a \in Int /\ b \in 0 .. w2 - 1 /\ x = w2 * a + b
  <2> HIDE DEF w2
  <2>1. x \in Int
    OBVIOUS
  <2>2. QED
    BY <1>1, <2>1, DivMod
<1>3. w2 = Word * Word
  OBVIOUS
<1> HIDE DEF w2, a
<1>4. b \in Int
  BY <1>1, <1>2
<1> HIDE DEF b
<1>5. r \in 0 .. Word - 1 /\ q \in Int /\ b = Word * q + r
  BY <1>4, Constants, DivMod
<1> HIDE DEF q, r
<1>6. x = Word * (Word * a) + b /\ Word * a \in Int
  BY <1>2, <1>3, Constants
<1>7. x % Word = r /\ x \div Word = Word * a + q
  <2> DEFINE c == Word * a
  <2>1. c \in Int
    BY <1>6
  <2> HIDE DEF c
  <2>2. (Word * c + b) % Word = b % Word
          /\ (Word * c + b) \div Word = c + (b \div Word)
    BY <1>4, <2>1, Constants, Multiples
  <2>3. QED
    BY <1>6, <2>2 DEF c, q, r
<1>8. q >= 0
  <2>1. SUFFICES ASSUME q < 0 PROVE FALSE
    BY <1>5
  <2>2. Word * q + Word <= Word * 0
    BY <1>5, <2>1, Constants, Smaller
  <2>3. Word * 0 = 0 /\ Word * q \in Int
    BY <1>5, Constants
  <2>4. QED
    BY <1>2, <1>5, <2>2, <2>3, Constants
<1>9. q < Word
  <2>1. SUFFICES ASSUME q >= Word PROVE FALSE
    BY <1>5, Constants
  <2>2. Word * q >= Word * Word
    <3>1. CASE q = Word
      BY <1>5, <3>1, Constants
    <3>2. CASE Word < q
      <4>1. Word * Word + Word <= Word * q
        BY <1>5, <3>2, Constants, Smaller
      <4>2. Word * Word \in Int /\ Word * q \in Int
        BY <1>5, Constants
      <4>3. QED
        BY <4>1, <4>2, Constants
    <3>3. QED
      BY <1>5, <2>1, <3>1, <3>2, Constants
  <2>3. Word * q \in Int /\ w2 \in Int
    BY <1>1, <1>5, Constants
  <2>4. QED
    BY <1>2, <1>3, <1>5, <2>2, <2>3, Constants
<1>10. (Word * a + q) % Word = q
  <2>1. q \in 0 .. Word - 1 /\ a \in Int
    BY <1>2, <1>5, <1>8, <1>9, Constants
  <2>2. QED
    BY <2>1, Constants, DivModIs
<1>11. QED
  BY <1>7, <1>10 DEF b, q, r, w2

(***************************************************************************)
(* The padding: a one and zeros, up to the place of the length.            *)
(***************************************************************************)
Pad == SubSeq(PADDING, 1, PadLength(Index(count)))

ZerosOf(z) == [k \in 1 .. z |-> Zero]

LEMMA PadLengthIs ==
  ASSUME NEW n \in Nat
  PROVE  /\ PadLength(n % Block) \in 1 .. Block
         /\ (n + PadLength(n % Block) + Field) % Block = 0
<1> DEFINE q == n \div Block
           r == n % Block
           p == PadLength(r)
<1>1. n \in Int
  OBVIOUS
<1>2. r \in 0 .. Block - 1 /\ q \in Int /\ n = Block * q + r
  BY <1>1, Constants, DivMod
<1> HIDE DEF q, r, p
<1>3. CASE r < Block - Field
  <2>1. p = Block - Field - r
    BY <1>3 DEF p, PadLength
  <2>2. Block * (q + 1) = Block * q + Block /\ Block * q \in Int
    BY <1>2, Constants
  <2>3. n + p + Field = Block * (q + 1) + 0 /\ p \in 1 .. Block
    BY <1>2, <1>3, <2>1, <2>2, Constants
  <2> DEFINE j == q + 1
  <2>4. j \in Int /\ 0 \in 0 .. Block - 1
    BY <1>2, Constants
  <2> HIDE DEF j
  <2>5. (Block * j + 0) % Block = 0
    BY <2>4, Constants, DivModIs
  <2>6. QED
    BY <2>3, <2>5 DEF j, p, r
<1>4. CASE ~(r < Block - Field)
  <2>1. p = 2 * Block - Field - r
    BY <1>4 DEF p, PadLength
  <2>2. Block * (q + 2) = Block * q + 2 * Block /\ Block * q \in Int
    BY <1>2, Constants
  <2>3. n + p + Field = Block * (q + 2) + 0 /\ p \in 1 .. Block
    BY <1>2, <1>4, <2>1, <2>2, Constants
  <2> DEFINE j == q + 2
  <2>4. j \in Int /\ 0 \in 0 .. Block - 1
    BY <1>2, Constants
  <2> HIDE DEF j
  <2>5. (Block * j + 0) % Block = 0
    BY <2>4, Constants, DivModIs
  <2>6. QED
    BY <2>3, <2>5 DEF j, p, r
<1>5. QED
  BY <1>3, <1>4

LEMMA PaddingIs ==
  ASSUME NEW p \in 1 .. Block
  PROVE  /\ <<One>> \in Seq(Byte) /\ ZerosOf(p - 1) \in Seq(Byte)
         /\ SubSeq(PADDING, 1, p) \in Seq(Byte)
         /\ Len(SubSeq(PADDING, 1, p)) = p
         /\ SubSeq(PADDING, 1, p) = <<One>> \o ZerosOf(p - 1)
<1> DEFINE s == SubSeq(PADDING, 1, p)
           z == ZerosOf(p - 1)
<1>1. PADDING \in [1 .. Block -> Byte]
        /\ \A k \in 1 .. Block : PADDING[k] = IF k = 1 THEN One ELSE Zero
  BY AreBytes DEF PADDING
<1>2. PADDING \in Seq(Byte) /\ Len(PADDING) = Block
  BY <1>1, Constants, FunctionIsSeq
<1>3. /\ s \in Seq(Byte) /\ Len(s) = p
      /\ \A k \in 1 .. p : s[k] = PADDING[k]
  <2>1. 0 \in Nat /\ p \in Nat /\ 0 <= p /\ p <= Len(PADDING)
    BY <1>2, Constants
  <2>2. /\ SubSeq(PADDING, 0 + 1, p) \in Seq(Byte)
        /\ Len(SubSeq(PADDING, 0 + 1, p)) = p - 0
        /\ \A k \in 1 .. p - 0 : SubSeq(PADDING, 0 + 1, p)[k] = PADDING[0 + k]
    BY <1>2, <2>1, PartOf
  <2>3. 0 + 1 = 1 /\ p - 0 = p /\ \A k \in 1 .. p : 0 + k = k
    BY <2>1
  <2>4. SubSeq(PADDING, 0 + 1, p) = s
    BY <2>3
  <2> HIDE DEF s
  <2>5. QED
    BY <2>2, <2>3, <2>4
<1>4. p - 1 \in Nat
  BY Constants
<1>5. z \in [1 .. p - 1 -> Byte] /\ \A k \in 1 .. p - 1 : z[k] = Zero
  BY AreBytes DEF ZerosOf
<1>6. z \in Seq(Byte) /\ Len(z) = p - 1
  BY <1>4, <1>5, FunctionIsSeq
<1>7. <<One>> \in Seq(Byte) /\ Len(<<One>>) = 1 /\ <<One>>[1] = One
  <2> DEFINE one == One
  <2>1. one \in Byte
    BY AreBytes
  <2> HIDE DEF one
  <2>2. <<one>> \in Seq(Byte) /\ Len(<<one>>) = 1 /\ <<one>>[1] = one
    BY <2>1
  <2>3. QED
    BY <2>2 DEF one
<1> DEFINE o == <<One>>
<1> HIDE DEF s, z, o
<1>8. /\ o \o z \in Seq(Byte) /\ Len(o \o z) = 1 + (p - 1)
      /\ \A k \in 1 .. 1 + (p - 1) :
           (o \o z)[k] = IF k <= 1 THEN o[k] ELSE z[k - 1]
  <2>1. o \in Seq(Byte) /\ Len(o) = 1
    BY <1>7 DEF o
  <2>2. /\ o \o z \in Seq(Byte) /\ Len(o \o z) = Len(o) + Len(z)
        /\ \A k \in 1 .. Len(o) + Len(z) :
             (o \o z)[k] = IF k <= Len(o) THEN o[k] ELSE z[k - Len(o)]
    BY <1>6, <2>1, ConcatProperties
  <2>3. QED
    BY <1>6, <2>1, <2>2
<1>9. 1 + (p - 1) = p
  BY Constants
<1>10. ASSUME NEW k \in 1 .. p
       PROVE  s[k] = (o \o z)[k]
  <2>1. k \in 1 .. Block /\ k \in 1 .. 1 + (p - 1)
    BY <1>9, Constants
  <2>2. CASE k = 1
    BY <1>1, <1>3, <1>7, <1>8, <2>1, <2>2 DEF o
  <2>3. CASE k # 1
    <3>1. ~(k <= 1) /\ k - 1 \in 1 .. p - 1
      BY <2>3, Constants
    <3>2. (o \o z)[k] = Zero
      BY <1>5, <1>8, <2>1, <3>1 DEF z
    <3>3. s[k] = Zero
      BY <1>1, <1>3, <2>1, <2>3
    <3>4. QED
      BY <3>2, <3>3
  <2>4. QED
    BY <2>2, <2>3
<1>11. s = o \o z
  BY <1>3, <1>8, <1>9, <1>10, SeqEqual
<1>12. QED
  BY <1>3, <1>6, <1>7, <1>11 DEF s, z, o

(***************************************************************************)
(* No other number of zeros fills the block.                               *)
(***************************************************************************)
LEMMA ZerosIs ==
  ASSUME total \in Nat, NEW p \in 1 .. Block,
         (total + p + Field) % Block = 0
  PROVE  Zeros = p - 1
<1> DEFINE Fills(z) == (total + 1 + z + Field) % Block = 0
<1>1. p - 1 \in 0 .. Block - 1 /\ Fills(p - 1)
  <2>1. p - 1 \in 0 .. Block - 1 /\ total + 1 + (p - 1) + Field
                                      = total + p + Field
    BY Constants
  <2>2. QED
    BY <2>1
<1>2. ASSUME NEW z \in 0 .. Block - 1, Fills(z)
      PROVE  z = p - 1
  <2> DEFINE i == total + p + Field
             j == total + 1 + z + Field
             a == i \div Block
             b == j \div Block
  <2>1. i \in Int /\ j \in Int /\ i % Block = 0 /\ j % Block = 0
          /\ j = i + (z - (p - 1))
    BY <1>2, Constants
  <2> HIDE DEF i, j
  <2>2. a \in Int /\ i = Block * a + (i % Block)
    BY <2>1, Constants, DivMod
  <2>3. b \in Int /\ j = Block * b + (j % Block)
    BY <2>1, Constants, DivMod
  <2> HIDE DEF a, b
  <2>4. Block * a \in Int /\ Block * b \in Int
    BY <2>2, <2>3, Constants
  <2>5. i = Block * a /\ j = Block * b
    BY <2>1, <2>2, <2>3, <2>4
  <2>6. ~(a < b)
    <3>1. SUFFICES ASSUME a < b PROVE FALSE
      OBVIOUS
    <3>2. Block * a + Block <= Block * b
      BY <2>2, <2>3, <3>1, Constants, Smaller
    <3>3. QED
      BY <2>1, <2>4, <2>5, <3>2, Constants
  <2>7. ~(b < a)
    <3>1. SUFFICES ASSUME b < a PROVE FALSE
      OBVIOUS
    <3>2. Block * b + Block <= Block * a
      BY <2>2, <2>3, <3>1, Constants, Smaller
    <3>3. QED
      BY <2>1, <2>4, <2>5, <3>2, Constants
  <2>8. a = b
    BY <2>2, <2>3, <2>6, <2>7
  <2>9. QED
    BY <2>1, <2>5, <2>8, Constants
<1>3. Zeros = CHOOSE z \in 0 .. Block - 1 : Fills(z)
  BY DEF Zeros
<1> HIDE DEF Fills
<1>4. Zeros \in 0 .. Block - 1 /\ Fills(Zeros)
  BY <1>1, <1>3
<1>5. QED
  BY <1>2, <1>4

-----------------------------------------------------------------------------
(***************************************************************************)
(* The initial states and the steps.                                       *)
(***************************************************************************)
LEMMA InitEstablishes ==
  ASSUME StreamInit
  PROVE  IInv
<1> DEFINE x == Context
           t == Message(1, total)
<1>1. /\ stage = "open" /\ total = 0 /\ hashed = <<>>
      /\ buffer = [k \in 1 .. Block |-> Junk] /\ count = <<0, 0>>
  BY DEF StreamInit
<1>2. Len(t) = 0
  BY <1>1, MessageOne
<1>3. Over(t) = 0
  <2>1. 0 \in 0 .. Block - 1
    BY Constants
  <2>2. 0 % Block = 0
    BY <2>1, Constants, SmallModulo
  <2>3. QED
    BY <1>2, <2>2 DEF Over
<1>4. LengthOf(0) = <<0, 0>>
  <2>1. 0 \in 0 .. Word - 1 /\ Bits * 0 = 0
    BY Constants
  <2>2. 0 % Word = 0 /\ 0 \div Word = 0
    BY <2>1, Constants, SmallModulo
  <2>3. QED
    BY <2>1, <2>2 DEF LengthOf
<1>5. buffer \in Buffers
  BY <1>1, AreBytes DEF Buffers
<1>6. hashed \in Seq(Byte) /\ Len(hashed) = 0
  BY <1>1, EmptySeq
<1>7. x.count = count /\ x.buffer = buffer /\ x.hashed = hashed
  BY DEF Context
<1> HIDE DEF x, t
<1>8. Represents(x, t)
  BY <1>1, <1>2, <1>3, <1>4, <1>5, <1>6, <1>7 DEF Represents
<1>9. QED
  BY <1>1, <1>8 DEF IInv, HashesPadded, x, t

LEMMA SameContext ==
  ASSUME NEW x, NEW t, Represents(x, t), Holds(x)
  PROVE  Represents(Context, t)'
<1>1. count' = x.count /\ buffer' = x.buffer /\ hashed' = x.hashed
  BY DEF Holds
<1> DEFINE y == [count |-> count', buffer |-> buffer', hashed |-> hashed']
<1>2. y.count = x.count /\ y.buffer = x.buffer /\ y.hashed = x.hashed
  BY <1>1
<1> HIDE DEF y
<1>3. Represents(y, t)
  BY <1>2 DEF Represents
<1>4. QED
  BY <1>3 DEF y, Context, Represents

LEMMA UpdateKeeps ==
  ASSUME IInv, NEW n \in Pieces, MD5Update(n)
  PROVE  IInv'
<1>1. n \in Nat /\ total \in Nat /\ stage = "open" /\ stage' = "open"
        /\ total' = total + n
  BY PieceAssumption DEF IInv, MD5Update
<1> DEFINE t == Message(1, total)
           s == Message(total + 1, total + n)
<1>2. Represents(Context, t)
  BY <1>1 DEF IInv
<1>3. t \in Seq(Byte) /\ s \in Seq(Byte)
  <2>1. total + n \in Nat /\ total <= total + n
    BY <1>1
  <2>2. QED
    BY <1>1, <2>1, MessageOne, MessageIs
<1>4. Represents(Absorb(Context, s), t \o s)
  BY <1>2, <1>3, AbsorbRepresents
<1>5. Holds(Absorb(Context, s))
  BY DEF MD5Update
<1>6. t \o s = Message(1, total')
  BY <1>1, MessageGrows
<1> DEFINE x == Absorb(Context, s)
<1> HIDE DEF x, t, s
<1>7. Represents(x, Message(1, total'))
  BY <1>4, <1>6 DEF x
<1>8. Represents(Context, Message(1, total))'
  <2> DEFINE u == Message(1, total')
  <2>1. Holds(x)
    BY <1>5 DEF x
  <2> HIDE DEF u
  <2>2. Represents(x, u)
    BY <1>7 DEF u
  <2>3. QED
    BY <2>1, <2>2, SameContext DEF u, Message
<1>9. total' \in Nat
  BY <1>1
<1>10. QED
  BY <1>1, <1>8, <1>9 DEF IInv, HashesPadded

(***************************************************************************)
(* MD5Final hashes the padded message.                                     *)
(***************************************************************************)
LEMMA FinalKeeps ==
  ASSUME IInv, MD5Final
  PROVE  IInv'
<1> DEFINE t == Message(1, total)
           p == PadLength(Index(count))
           pad == SubSeq(PADDING, 1, p)
           bits == << CountByte(count[1]), CountByte(count[2]) >>
           mid == Absorb(Context, pad)
           end == Absorb(mid, bits)
           zeros == ZerosOf(p - 1)
           one == <<One>>
<1>1. total \in Nat /\ stage = "open" /\ stage' = "done" /\ total' = total
  BY DEF IInv, MD5Final
<1>2. Represents(Context, t)
  BY <1>1 DEF IInv
<1>3. t \in Seq(Byte) /\ Len(t) = total
  BY <1>1, MessageOne
<1>4. count = LengthOf(total)
  <2>1. Context.count = count
    BY DEF Context
  <2>2. Context.count = LengthOf(Len(t))
    BY <1>2 DEF Represents
  <2>3. QED
    BY <1>3, <2>1, <2>2
<1>5. p \in 1 .. Block /\ (total + p + Field) % Block = 0
  BY <1>1, <1>4, IndexIs, PadLengthIs
<1>6. hashed' = end.hashed
  BY DEF MD5Final, Holds
<1> HIDE DEF p
<1>7. /\ one \in Seq(Byte) /\ zeros \in Seq(Byte)
      /\ pad \in Seq(Byte) /\ Len(pad) = p /\ pad = one \o zeros
  BY <1>5, PaddingIs
<1>8. Bits * total \in Nat
  BY <1>1, Constants
<1>9. /\ count[1] = (Bits * total) % Word
      /\ count[2] = ((Bits * total) \div Word) % Word
  BY <1>4 DEF LengthOf
<1>10. bits \in Seq(Byte) /\ Len(bits) = 2
  <2>1. count[1] \in Nat /\ count[2] \in Nat
    <3> DEFINE w == Bits * total
               h == w \div Word
    <3>1. w \in Int
      BY <1>8
    <3> HIDE DEF w
    <3>2. w % Word \in 0 .. Word - 1 /\ h \in Int
      BY <3>1, Constants, DivMod
    <3> HIDE DEF h
    <3>3. h % Word \in 0 .. Word - 1
      BY <3>2, Constants, DivMod
    <3>4. QED
      BY <1>9, <3>2, <3>3, Constants DEF w, h
  <2> DEFINE lo == CountByte(count[1])
             hi == CountByte(count[2])
  <2>2. lo \in Byte /\ hi \in Byte /\ bits = <<lo, hi>>
    BY <2>1, AreBytes
  <2> HIDE DEF lo, hi
  <2>3. <<lo, hi>> \in Seq(Byte) /\ Len(<<lo, hi>>) = 2
    BY <2>2
  <2>4. QED
    BY <2>2, <2>3
<1> HIDE DEF t, pad, bits, mid, end, zeros, one
<1>11. Represents(mid, t \o pad)
  BY <1>2, <1>3, <1>7, AbsorbRepresents DEF mid
<1>12. t \o pad \in Seq(Byte) /\ Len(t \o pad) = total + p
  BY <1>3, <1>7, ConcatProperties
<1> DEFINE u == t \o pad
           v == u \o bits
<1> HIDE DEF u
<1>13. Represents(end, v)
  BY <1>10, <1>11, <1>12, AbsorbRepresents DEF u, end
<1>14. v \in Seq(Byte) /\ Len(v) = (total + p) + 2
  <2>1. u \in Seq(Byte) /\ Len(u) = total + p
    BY <1>12 DEF u
  <2>2. u \o bits \in Seq(Byte) /\ Len(u \o bits) = Len(u) + Len(bits)
    BY <1>10, <2>1, ConcatProperties
  <2>3. QED
    BY <1>10, <2>1, <2>2
<1> HIDE DEF v
<1>15. Over(v) = 0
  <2>1. Len(v) = total + p + Field
    BY <1>14, Constants
  <2>2. QED
    BY <1>5, <2>1 DEF Over
<1>16. end.hashed = v
  <2>1. end.hashed \in Seq(Byte) /\ Len(end.hashed) = Len(v) - 0
          /\ \A k \in 1 .. Len(v) - 0 : end.hashed[k] = v[k]
    BY <1>13, <1>15 DEF Represents
  <2>2. Len(v) \in Nat
    BY <1>14, LenProperties
  <2> DEFINE g == end.hashed
  <2>3. g \in Seq(Byte) /\ Len(g) = Len(v)
          /\ \A k \in 1 .. Len(g) : g[k] = v[k]
    BY <2>1, <2>2
  <2> HIDE DEF g
  <2>4. g = v
    BY <1>14, <2>3, SeqEqual
  <2>5. QED
    BY <2>4 DEF g
<1>17. u = (t \o one) \o zeros
  <2>1. t \in Seq(Byte) /\ one \in Seq(Byte) /\ zeros \in Seq(Byte)
    BY <1>3, <1>7
  <2>2. (t \o one) \o zeros = t \o (one \o zeros)
    BY <2>1, ConcatAssociative
  <2>3. u = t \o (one \o zeros)
    BY <1>7 DEF u
  <2>4. QED
    BY <2>2, <2>3
<1>18. Zeros = p - 1
  BY <1>1, <1>5, ZerosIs
<1>19. bits = LET b == (Bits * total) % (Word * Word)
              IN  << CountByte(b % Word), CountByte(b \div Word) >>
  BY <1>8, <1>9, TwoWords DEF bits
<1>20. v = Padded
  BY <1>17, <1>18, <1>19 DEF v, t, one, zeros, ZerosOf, Padded
<1>21. Padded' = Padded
  BY <1>1 DEF Padded, Zeros, Message
<1>22. HashesPadded'
  BY <1>6, <1>16, <1>20, <1>21 DEF HashesPadded
<1>23. QED
  BY <1>1, <1>22 DEF IInv

LEMMA Invariance == StreamSpec => []IInv
<1>1. StreamInit => IInv
  BY InitEstablishes
<1>2. IInv /\ [StreamNext]_streamVars => IInv'
  <2>1. SUFFICES ASSUME IInv, [StreamNext]_streamVars PROVE IInv'
    OBVIOUS
  <2>2. CASE \E n \in Pieces : MD5Update(n)
    BY <2>1, <2>2, UpdateKeeps
  <2>3. CASE MD5Final
    BY <2>1, <2>3, FinalKeeps
  <2>4. CASE UNCHANGED streamVars
    BY <2>1, <2>4 DEF streamVars, IInv, HashesPadded, Represents, Context,
       Message, Padded, Zeros
  <2>5. QED
    BY <2>1, <2>2, <2>3, <2>4 DEF StreamNext
<1>3. QED
  BY <1>1, <1>2, PTL DEF StreamSpec

(***************************************************************************)
(* However a message is cut into pieces, what MD5Transform has been given  *)
(* when MD5Final is done is the message padded as RFC 1321 says.           *)
(***************************************************************************)
THEOREM AlwaysHashesPadded == StreamSpec => []HashesPadded
<1>1. IInv => HashesPadded
  BY DEF IInv
<1>2. QED
  BY <1>1, Invariance, PTL
=============================================================================
