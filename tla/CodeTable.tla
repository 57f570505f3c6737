------------------------------ MODULE CodeTable ------------------------------
(***************************************************************************)
(* BuildTable (src/lib/crypt.c): from the MD5 of a password and a user     *)
(* number to a pair of 256-byte tables, `encode' and `decode'.             *)
(*                                                                         *)
(* The code runs three loops.  The first shuffles the identity table: each *)
(* turn multiplies the digest, read as a little-endian number, by 47 (all  *)
(* its bytes are rewritten one after the other, with an 8-bit carry), and  *)
(* swaps two entries of the table.  The second finds the entry that holds  *)
(* the user number and swaps it to the index of the first byte of an IPv4  *)
(* packet.  The third inverts the table.  One action is one turn of a loop *)
(* (the search of the second is one step).                                 *)
(*                                                                         *)
(* The table and the digest have 256 and 16 entries in the code; both      *)
(* lengths are constants here.                                             *)
(***************************************************************************)
EXTENDS Integers, Functions

CONSTANTS
  Size,      \* number of byte values, 256 in the code
  Digest,    \* number of bytes of the digest, 16 in the code
  Prime,     \* PRIME_FOR_GEN, 47
  Magic,     \* IP_MAGIC_HEADER, 0x45
  Leftover   \* what the memory of `decode' may hold before it is filled in

Byte  == 0 .. Size - 1
Limb  == 0 .. Digest - 1

ASSUME SizeAssumption   == Size \in Nat \ {0}
ASSUME DigestAssumption == Digest \in Nat \ {0}
ASSUME PrimeAssumption  == Prime \in Nat
ASSUME MagicAssumption  == Magic \in Byte
(* The server's nodes come from malloc, the client's from malloc and memset *)
ASSUME LeftoverAssumption == Leftover \subseteq [Byte -> Byte]

VARIABLES
  phase,     \* the loop that runs: "stir" and "swap" are the first one's body
  i, j,      \* its counters
  md,        \* the digest
  encode, decode,
  identity   \* the user number, an argument

vars == <<phase, i, j, md, encode, decode, identity>>

Phase == {"stir", "swap", "fix", "invert", "done"}

\* mutant of Swap: the old entry is not put back
SwapForgets(t, a, b) == [t EXCEPT ![a] = t[b]]

(***************************************************************************)
(* Exchange the entries of `t' at `a' and `b'.                             *)
(***************************************************************************)
Swap(t, a, b) == [t EXCEPT ![a] = t[b], ![b] = t[a]]

Init ==
  /\ md \in [Limb -> Byte]
  /\ identity \in Byte
  /\ encode = [b \in Byte |-> b]
  /\ decode \in Leftover
  /\ phase = "stir"
  /\ i = 0
  /\ j = 0

(***************************************************************************)
(* One turn of the inner loop: md[j] * 47, low byte kept, high byte added  *)
(* to the next limb, which wraps.  The last limb is only ever added to.    *)
(***************************************************************************)
Stir ==
  /\ phase = "stir"
  /\ j < Digest - 1
  /\ LET k == md[j] * Prime
     IN  md' = [md EXCEPT ![j] = k % Size,
                          ![j + 1] = (@ + (k \div Size)) % Size]
  /\ j' = j + 1
  /\ UNCHANGED <<phase, i, encode, decode, identity>>

EndStir ==
  /\ phase = "stir"
  /\ j = Digest - 1
  /\ phase' = "swap"
  /\ UNCHANGED <<i, j, md, encode, decode, identity>>

\* mutant of Shuffle: the counter does not move
ShuffleStays ==
  /\ phase = "swap"
  /\ encode' = Swap(encode, md[Digest - 1], i)
  /\ j' = 0
  /\ phase' = "stir"
  /\ UNCHANGED <<i, md, decode, identity>>

(***************************************************************************)
(* The rest of a turn of the first loop: entry i and the entry the last    *)
(* limb of the digest names change places.                                 *)
(***************************************************************************)
Shuffle ==
  /\ phase = "swap"
  /\ encode' = Swap(encode, md[Digest - 1], i)
  /\ i' = i + 1
  /\ j' = 0
  /\ phase' = IF i + 1 < Size THEN "stir" ELSE "fix"
  /\ UNCHANGED <<md, decode, identity>>

(***************************************************************************)
(* "fix special identity": the first entry that holds the user number goes *)
(* to index Magic.                                                         *)
(***************************************************************************)
IsFirstHolder(n) ==
  /\ encode[n] = identity
  /\ \A m \in Byte : m < n => encode[m] # identity

\* mutant of FixIdentity: the last loop starts after the first byte
FixThenSkip ==
  /\ phase = "fix"
  /\ \E n \in Byte :
       /\ IsFirstHolder(n)
       /\ encode' = Swap(encode, Magic, n)
  /\ i' = IF Size > 1 THEN 1 ELSE 0
  /\ phase' = "invert"
  /\ UNCHANGED <<j, md, decode, identity>>

\* mutant of FixIdentity: the last entry of the table, not that of Magic
FixElsewhere ==
  /\ phase = "fix"
  /\ \E n \in Byte :
       /\ IsFirstHolder(n)
       /\ encode' = Swap(encode, Size - 1, n)
  /\ i' = 0
  /\ phase' = "invert"
  /\ UNCHANGED <<j, md, decode, identity>>

FixIdentity ==
  /\ phase = "fix"
  /\ \E n \in Byte :
       /\ IsFirstHolder(n)
       /\ encode' = Swap(encode, Magic, n)
  /\ i' = 0
  /\ phase' = "invert"
  /\ UNCHANGED <<j, md, decode, identity>>

\* mutant of Invert: index and value exchanged
InvertCopies ==
  /\ phase = "invert"
  /\ decode' = [decode EXCEPT ![i] = encode[i]]
  /\ i' = i + 1
  /\ phase' = IF i + 1 < Size THEN "invert" ELSE "done"
  /\ UNCHANGED <<j, md, encode, identity>>

\* mutant of Invert: one turn too many
InvertOnceMore ==
  /\ phase = "invert"
  /\ decode' = [decode EXCEPT ![encode[i]] = i]
  /\ i' = i + 1
  /\ phase' = IF i < Size THEN "invert" ELSE "done"
  /\ UNCHANGED <<j, md, encode, identity>>

(***************************************************************************)
(* One turn of the last loop.                                              *)
(***************************************************************************)
Invert ==
  /\ phase = "invert"
  /\ decode' = [decode EXCEPT ![encode[i]] = i]
  /\ i' = i + 1
  /\ phase' = IF i + 1 < Size THEN "invert" ELSE "done"
  /\ UNCHANGED <<j, md, encode, identity>>

Next == Stir \/ EndStir \/ Shuffle \/ FixIdentity \/ Invert

Spec == Init /\ [][Next]_vars /\ WF_vars(Next)

-----------------------------------------------------------------------------
TypeOK ==
  /\ phase \in Phase
  /\ i \in 0 .. Size
  /\ j \in Limb
  /\ md \in [Limb -> Byte]
  /\ encode \in [Byte -> Byte]
  /\ decode \in [Byte -> Byte]
  /\ identity \in Byte
  /\ phase \in {"stir", "swap", "invert"} => i < Size

(***************************************************************************)
(* The table never loses or repeats a byte, in the middle of the shuffle   *)
(* as at its end: a lost byte could not be sent, a repeated one could not  *)
(* be told from another after decryption.                                  *)
(***************************************************************************)
Permutes == encode \in Bijection(Byte, Byte)

(***************************************************************************)
(* The search of crypt.c:34-36 stops on a hit.  If the user number were in *)
(* no entry the loop would end with i = 256 and the swap after it would    *)
(* write past `encode', into `decode'.                                     *)
(***************************************************************************)
SearchHits == phase = "fix" => \E n \in Byte : encode[n] = identity

(***************************************************************************)
(* Once BuildTable returns, decoding undoes encoding for every byte,       *)
(* whatever `decode' held before, so a packet survives Encrypt and Decrypt;*)
(* and every byte that can arrive decodes to the byte it is the code of.   *)
(***************************************************************************)
RoundTrip ==
  phase = "done" => \A b \in Byte : /\ decode[encode[b]] = b
                                   /\ encode[decode[b]] = b

(***************************************************************************)
(* An IPv4 packet leaves with the number of its user as first byte, and no *)
(* other first byte does: this is what svpn_server.c:188 reads.            *)
(***************************************************************************)
NamesUser ==
  phase = "done" => \A b \in Byte : encode[b] = identity <=> b = Magic

(***************************************************************************)
(* BuildTable returns.                                                     *)
(***************************************************************************)
Returns == <>(phase = "done")

(***************************************************************************)
(* BuildTable fills in the tables the tunnel needs: the abstract step is   *)
(* the last turn of the last loop.                                         *)
(***************************************************************************)
Abstract == INSTANCE Substitution
  WITH owner  <- identity,
       tables <- IF phase = "done"
                 THEN {[encode |-> encode, decode |-> decode]}
                 ELSE {}

FillsTables == Abstract!Spec
=============================================================================
