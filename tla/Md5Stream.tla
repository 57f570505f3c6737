------------------------------ MODULE Md5Stream ------------------------------
(***************************************************************************)
(* How MD5Update and MD5Final (src/lib/md5.c) cut a message that arrives   *)
(* in pieces into blocks.  The digest is a function of the blocks in their *)
(* order, so what MD5Transform is given stands for it: `hashed' is all the *)
(* blocks so far, one after the other.                                     *)
(*                                                                         *)
(* A byte is a pair that says where it comes from.  A word of `count' is   *)
(* written to one byte of the model, not to four, so a block ends in a     *)
(* length of two bytes.                                                    *)
(***************************************************************************)
EXTENDS Integers, Sequences

CONSTANTS
  Block,   \* bytes in a block, 64
  Bits,    \* bits in a byte, 8
  Word,    \* number of values of a word of `count', 2^32
  Pieces,  \* the lengths MD5Update is called with
  Longest  \* bound: on the length of a message

Field == 2

ASSUME BlockAssumption == Block \in Nat /\ Block > Field
(* 2^32 is a multiple of 8 * 64 *)
ASSUME WordAssumption ==
  /\ Bits \in Nat \ {0} /\ Word \in Nat \ {0}
  /\ Word % (Bits * Block) = 0
ASSUME PieceAssumption == Pieces \subseteq Nat /\ Longest \in Nat

VARIABLES
  stage,    \* "open", or "done" after MD5Final
  count,    \* context->count: the length in bits, low word first
  buffer,   \* context->buffer
  hashed,   \* what MD5Transform has been given
  total     \* history: the length of the message so far

streamVars == <<stage, count, buffer, hashed, total>>

Junk == <<"junk", 0>>
MessageByte(k) == <<"message", k>>
Zero == <<"padding", 0>>
One == <<"padding", 1>>
CountByte(n) == <<"count", n>>

Message(first, last) ==
  [k \in 1 .. last - first + 1 |-> MessageByte(first + k - 1)]

(***************************************************************************)
(* MD5Init, which leaves the buffer as the memory was.                     *)
(***************************************************************************)
StreamInit ==
  /\ stage = "open"
  /\ count = <<0, 0>>
  /\ buffer = [k \in 1 .. Block |-> Junk]
  /\ hashed = <<>>
  /\ total = 0

Index(c) == (c[1] \div Bits) % Block

(***************************************************************************)
(* memcpy of s into buffer b, at offset n.                                 *)
(***************************************************************************)
Copy(b, n, s) == [k \in 1 .. Block |-> IF k \in n + 1 .. n + Len(s)
                                       THEN s[k - n] ELSE b[k]]

(***************************************************************************)
(* `count' after n bytes more, with the test for a carry as it is.         *)
(***************************************************************************)
Counted(c, n) ==
  LET low   == (c[1] + n * Bits) % Word
      carry == IF low < (n * Bits) % Word THEN 1 ELSE 0
  IN  << low, (c[2] + carry + (n * Bits) \div Word) % Word >>

(***************************************************************************)
(* MD5Update of a context x with s: if s fills the buffer, the buffer and  *)
(* the whole blocks behind it in s are hashed; the rest is kept.           *)
(***************************************************************************)
Absorb(x, s) ==
  LET index == Index(x.count)
      part  == Block - index
      full  == Len(s) >= part
      used  == IF full THEN part + ((Len(s) - part) \div Block) * Block ELSE 0
      block == Copy(x.buffer, index, SubSeq(s, 1, part))
      rest  == SubSeq(s, used + 1, Len(s))
  IN  [count  |-> Counted(x.count, Len(s)),
       buffer |-> IF full THEN Copy(block, 0, rest)
                  ELSE Copy(x.buffer, index, rest),
       hashed |-> IF full THEN x.hashed \o block \o SubSeq(s, part + 1, used)
                  ELSE x.hashed]

Context == [count |-> count, buffer |-> buffer, hashed |-> hashed]

Holds(x) == count' = x.count /\ buffer' = x.buffer /\ hashed' = x.hashed

\* mutant of PadLength: a block with room for the length alone is not padded
PadLengthShort(index) ==
  IF index <= Block - Field THEN Block - Field - index
  ELSE 2 * Block - Field - index

(***************************************************************************)
(* padlen: at least one byte, and room for the length behind it.           *)
(***************************************************************************)
PadLength(index) ==
  IF index < Block - Field THEN Block - Field - index
  ELSE 2 * Block - Field - index

PADDING == [k \in 1 .. Block |-> IF k = 1 THEN One ELSE Zero]

-----------------------------------------------------------------------------
(***************************************************************************)
(* MD5Update with the next n bytes of the message.                         *)
(***************************************************************************)
MD5Update(n) ==
  /\ stage = "open"
  /\ total + n <= Longest
  /\ Holds(Absorb(Context, Message(total + 1, total + n)))
  /\ total' = total + n
  /\ UNCHANGED stage

(***************************************************************************)
(* MD5Final: the length is read first, then padding and length are         *)
(* absorbed like a message.                                                *)
(***************************************************************************)
MD5Final ==
  /\ stage = "open"
  /\ LET bits   == << CountByte(count[1]), CountByte(count[2]) >>
         padded == Absorb(Context, SubSeq(PADDING, 1, PadLength(Index(count))))
     IN  Holds(Absorb(padded, bits))
  /\ stage' = "done"
  /\ UNCHANGED total

StreamNext == (\E n \in Pieces : MD5Update(n)) \/ MD5Final

StreamSpec == StreamInit /\ [][StreamNext]_streamVars

-----------------------------------------------------------------------------
(***************************************************************************)
(* Whatever pieces a message arrives in, MD5Final makes of it what RFC     *)
(* 1321 does: the message, a one, as few zeros as fill a block with the    *)
(* length, and the length in bits of the message, in two words, though     *)
(* md5.c:26-29 finds the carry from the low word after it has wrapped.     *)
(***************************************************************************)
Zeros == CHOOSE z \in 0 .. Block - 1 : (total + 1 + z + Field) % Block = 0

Padded ==
  LET bits == (Bits * total) % (Word * Word)
  IN  Message(1, total) \o <<One>> \o [k \in 1 .. Zeros |-> Zero]
        \o << CountByte(bits % Word), CountByte(bits \div Word) >>

HashesPadded == stage = "done" => hashed = Padded
=============================================================================
