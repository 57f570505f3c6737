------------------------------ MODULE Md5Digest ------------------------------
(***************************************************************************)
(* The digest of a message (src/lib/md5.c): MD5Transform of its blocks,    *)
(* one line of MD5Transform after the other.  Md5Stream shows which blocks *)
(* MD5Update and MD5Final make of a message.                               *)
(*                                                                         *)
(* A word is the set of its bits that are set.                             *)
(***************************************************************************)
EXTENDS Integers, Sequences

CONSTANT Suite   \* the digests of some messages; a message is the sequence of
                 \* its blocks of 64 bytes, padded

Messages == DOMAIN Suite

Bit == 0 .. 31
Octet == 0 .. 255
Chunk == [1 .. 64 -> Octet]

ASSUME MessagesAssumption ==
  \A m \in Messages : Len(m) >= 1 /\ \A k \in 1 .. Len(m) : m[k] \in Chunk

VARIABLES
  blocks,  \* the blocks of the message MD5Transform has not been given yet
  line,    \* the line of MD5Transform that comes next, 65 for the additions
           \* at its end, and 0 outside of it
  reg,     \* a, b, c and d
  state,   \* context->state
  digest,  \* what MD5Final has written
  message  \* history: the message

digestVars == <<blocks, line, reg, state, digest, message>>

BitOf(n, k) == (n \div 2 ^ k) % 2 = 1

(***************************************************************************)
(* The number with these upper and lower halves.                           *)
(***************************************************************************)
Number(upper, lower) ==
  { k \in Bit : IF k < 16 THEN BitOf(lower, k) ELSE BitOf(upper, k - 16) }

(***************************************************************************)
(* Addition of unsigned ints.                                              *)
(***************************************************************************)
Plus(x, y) ==
  LET carry[k \in Bit] ==
        k > 0 /\ (IF carry[k - 1] THEN k - 1 \in x \cup y
                                  ELSE k - 1 \in x \cap y)
  IN  { k \in Bit : (k \in x) # ((k \in y) # carry[k]) }

\* mutant of ROTATE_LEFT: the bits that leave the word do not come back
ShiftLeft(x, n) == { k + n : k \in { l \in x : l + n \in Bit } }

ROTATE_LEFT(x, n) == { (k + n) % 32 : k \in x }

Not(x) == Bit \ x
F(x, y, z) == (x \cap y) \cup (Not(x) \cap z)
G(x, y, z) == (x \cap z) \cup (y \cap Not(z))
Xor(x, y) == (x \ y) \cup (y \ x)
H(x, y, z) == Xor(x, Xor(y, z))
I(x, y, z) == Xor(y, x \cup Not(z))

Round(n) == 1 + ((n - 1) \div 16)

Mix(n, x, y, z) ==
  CASE Round(n) = 1 -> F(x, y, z) [] Round(n) = 2 -> G(x, y, z)
    [] Round(n) = 3 -> H(x, y, z) [] Round(n) = 4 -> I(x, y, z)

(***************************************************************************)
(* What the lines add to, the word of the block they take, how far they    *)
(* rotate, and the halves of their constants.                              *)
(***************************************************************************)
Target(n) == <<1, 4, 3, 2>>[1 + ((n - 1) % 4)]

Taken == << 0, 1, 2, 3, 4, 5, 6, 7, 8, 9, 10, 11, 12, 13, 14, 15,
            1, 6, 11, 0, 5, 10, 15, 4, 9, 14, 3, 8, 13, 2, 7, 12,
            5, 8, 11, 14, 1, 4, 7, 10, 13, 0, 3, 6, 9, 12, 15, 2,
            0, 7, 14, 5, 12, 3, 10, 1, 8, 15, 6, 13, 4, 11, 2, 9 >>

Turn(n) ==
  << <<7, 12, 17, 22>>, <<5, 9, 14, 20>>,
     <<4, 11, 16, 23>>, <<6, 10, 15, 21>> >>[Round(n)][1 + ((n - 1) % 4)]

Added ==
  << <<\hd76a, \ha478>>, <<\he8c7, \hb756>>, <<\h2420, \h70db>>,
     <<\hc1bd, \hceee>>, <<\hf57c, \h0faf>>, <<\h4787, \hc62a>>,
     <<\ha830, \h4613>>, <<\hfd46, \h9501>>, <<\h6980, \h98d8>>,
     <<\h8b44, \hf7af>>, <<\hffff, \h5bb1>>, <<\h895c, \hd7be>>,
     <<\h6b90, \h1122>>, <<\hfd98, \h7193>>, <<\ha679, \h438e>>,
     <<\h49b4, \h0821>>, <<\hf61e, \h2562>>, <<\hc040, \hb340>>,
     <<\h265e, \h5a51>>, <<\he9b6, \hc7aa>>, <<\hd62f, \h105d>>,
     <<\h0244, \h1453>>, <<\hd8a1, \he681>>, <<\he7d3, \hfbc8>>,
     <<\h21e1, \hcde6>>, <<\hc337, \h07d6>>, <<\hf4d5, \h0d87>>,
     <<\h455a, \h14ed>>, <<\ha9e3, \he905>>, <<\hfcef, \ha3f8>>,
     <<\h676f, \h02d9>>, <<\h8d2a, \h4c8a>>, <<\hfffa, \h3942>>,
     <<\h8771, \hf681>>, <<\h6d9d, \h6122>>, <<\hfde5, \h380c>>,
     <<\ha4be, \hea44>>, <<\h4bde, \hcfa9>>, <<\hf6bb, \h4b60>>,
     <<\hbebf, \hbc70>>, <<\h289b, \h7ec6>>, <<\heaa1, \h27fa>>,
     <<\hd4ef, \h3085>>, <<\h0488, \h1d05>>, <<\hd9d4, \hd039>>,
     <<\he6db, \h99e5>>, <<\h1fa2, \h7cf8>>, <<\hc4ac, \h5665>>,
     <<\hf429, \h2244>>, <<\h432a, \hff97>>, <<\hab94, \h23a7>>,
     <<\hfc93, \ha039>>, <<\h655b, \h59c3>>, <<\h8f0c, \hcc92>>,
     <<\hffef, \hf47d>>, <<\h8584, \h5dd1>>, <<\h6fa8, \h7e4f>>,
     <<\hfe2c, \he6e0>>, <<\ha301, \h4314>>, <<\h4e08, \h11a1>>,
     <<\hf753, \h7e82>>, <<\hbd3a, \hf235>>, <<\h2ad7, \hd2bb>>,
     <<\heb86, \hd391>> >>

(***************************************************************************)
(* Words from bytes and back, the low byte first.                          *)
(***************************************************************************)
MD5Decode(b) ==
  [w \in 0 .. 15 |->
     { k \in Bit : BitOf(b[4 * w + (k \div 8) + 1], k % 8) }]

MD5Encode(words) ==
  [p \in 1 .. 4 * Len(words) |->
     LET bit(k) == IF 8 * ((p - 1) % 4) + k \in words[1 + ((p - 1) \div 4)]
                   THEN 2 ^ k ELSE 0
     IN  bit(0) + bit(1) + bit(2) + bit(3) + bit(4) + bit(5) + bit(6) + bit(7)]

MD5Init ==
  << Number(\h6745, \h2301), Number(\hefcd, \hab89),
     Number(\h98ba, \hdcfe), Number(\h1032, \h5476) >>

DigestInit ==
  /\ message \in Messages
  /\ blocks = message
  /\ state = MD5Init
  /\ line = 0
  /\ reg = state
  /\ digest = <<>>

-----------------------------------------------------------------------------
Begin ==
  /\ line = 0 /\ blocks # <<>>
  /\ reg' = state
  /\ line' = 1
  /\ UNCHANGED <<blocks, state, digest, message>>

(***************************************************************************)
(* A line: FF, GG, HH or II of the four registers in their turn.           *)
(***************************************************************************)
Line ==
  /\ line \in 1 .. 64
  /\ LET t    == Target(line)
         r(k) == reg[1 + ((t - 1 + k) % 4)]
         sum  == Plus(Plus(r(0), Mix(line, r(1), r(2), r(3))),
                      Plus(MD5Decode(Head(blocks))[Taken[line]],
                           Number(Added[line][1], Added[line][2])))
     IN  reg' = [reg EXCEPT ![t] = Plus(ROTATE_LEFT(sum, Turn(line)), r(1))]
  /\ line' = line + 1
  /\ UNCHANGED <<blocks, state, digest, message>>

AddsUp ==
  /\ line = 65
  /\ state' = [k \in 1 .. 4 |-> Plus(state[k], reg[k])]
  /\ blocks' = Tail(blocks)
  /\ line' = 0
  /\ UNCHANGED <<reg, digest, message>>

(***************************************************************************)
(* The last line of MD5Final.                                              *)
(***************************************************************************)
Writes ==
  /\ line = 0 /\ blocks = <<>> /\ digest = <<>>
  /\ digest' = MD5Encode(state)
  /\ UNCHANGED <<blocks, line, reg, state, message>>

DigestNext == Begin \/ Line \/ AddsUp \/ Writes

DigestSpec == DigestInit /\ [][DigestNext]_digestVars

-----------------------------------------------------------------------------
(***************************************************************************)
(* The digest is the one of RFC 1321, so that it is the same wherever a    *)
(* password is digested: md5.c spells the 64 lines of MD5Transform out,    *)
(* each with a word, a distance and a constant of its own.                 *)
(***************************************************************************)
DigestsRight == digest # <<>> => digest = Suite[message]
=============================================================================
