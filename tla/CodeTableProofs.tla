--------------------------- MODULE CodeTableProofs ---------------------------
(***************************************************************************)
(* What BuildTable guarantees for tables and digests of every size.        *)
(*                                                                         *)
(* The first two loops only ever exchange two entries, so `encode' stays a *)
(* bijection; this is why the search of the second loop has a hit and the  *)
(* last loop writes every entry of `decode' exactly once.                  *)
(***************************************************************************)
EXTENDS CodeTable, TLAPS

(***************************************************************************)
(* Bijective for `encode', in a form the provers can use.                  *)
(***************************************************************************)
LEMMA BijectionDef ==
  ASSUME NEW S, NEW f
  PROVE  f \in Bijection(S, S) <=>
           /\ f \in [S -> S]
           /\ \A a, b \in S : f[a] = f[b] => a = b
           /\ \A b \in S : \E a \in S : f[a] = b
BY DEF Bijection, Injection, Surjection, IsInjective

(***************************************************************************)
(* An exchange of two entries keeps a table a bijection.                   *)
(***************************************************************************)
LEMMA SwapValues ==
  ASSUME NEW t \in [Byte -> Byte], NEW a \in Byte, NEW b \in Byte
  PROVE  /\ Swap(t, a, b) \in [Byte -> Byte]
         /\ Swap(t, a, b)[a] = t[b]
         /\ Swap(t, a, b)[b] = t[a]
         /\ \A x \in Byte : x # a /\ x # b => Swap(t, a, b)[x] = t[x]
BY DEF Swap

LEMMA SwapBijection ==
  ASSUME NEW t \in Bijection(Byte, Byte), NEW a \in Byte, NEW b \in Byte
  PROVE  Swap(t, a, b) \in Bijection(Byte, Byte)
<1> DEFINE u == Swap(t, a, b)
<1>1. /\ t \in [Byte -> Byte]
      /\ \A x, y \in Byte : t[x] = t[y] => x = y
      /\ \A y \in Byte : \E x \in Byte : t[x] = y
  BY BijectionDef
<1>2. /\ u \in [Byte -> Byte]
      /\ u[a] = t[b]
      /\ u[b] = t[a]
      /\ \A x \in Byte : x # a /\ x # b => u[x] = t[x]
  BY <1>1 DEF Swap
<1> HIDE DEF u
<1>3. \A x, y \in Byte : u[x] = u[y] => x = y
  BY <1>1, <1>2
<1>4. ASSUME NEW y \in Byte  PROVE \E x \in Byte : u[x] = y
  <2>1. PICK x \in Byte : t[x] = y
    BY <1>1
  <2>2. CASE x = a
    BY <1>2, <2>1, <2>2
  <2>3. CASE x = b
    BY <1>2, <2>1, <2>3
  <2>4. CASE x # a /\ x # b
    BY <1>2, <2>1, <2>4
  <2>5. QED
    BY <2>2, <2>3, <2>4
<1>5. u \in Bijection(Byte, Byte)
  BY <1>2, <1>3, <1>4, BijectionDef
<1>6. QED
  BY <1>5 DEF u

-----------------------------------------------------------------------------
(***************************************************************************)
(* The inductive invariant: the type, the bijection, the user number at    *)
(* index Magic once it is fixed, and the part of `decode' already written. *)
(***************************************************************************)
Fixed == phase \in {"invert", "done"} => encode[Magic] = identity

Inverted ==
  /\ phase = "invert" => \A b \in Byte : b < i => decode[encode[b]] = b
  /\ phase = "done" => \A b \in Byte : decode[encode[b]] = b

IInv == TypeOK /\ Permutes /\ Fixed /\ Inverted

LEMMA InitIInv == Init => IInv
<1> SUFFICES ASSUME Init PROVE IInv
  OBVIOUS
<1>1. 0 \in Byte /\ 0 \in Limb /\ 0 \in 0 .. Size /\ 0 < Size
  BY SizeAssumption, DigestAssumption DEF Byte, Limb
<1>2. TypeOK
  BY <1>1, LeftoverAssumption DEF Init, TypeOK, Phase
<1>3. Permutes
  BY BijectionDef DEF Init, Permutes
<1>4. Fixed /\ Inverted
  BY DEF Init, Fixed, Inverted
<1>5. QED
  BY <1>2, <1>3, <1>4 DEF IInv

LEMMA StepIInv == IInv /\ [Next]_vars => IInv'
<1> SUFFICES ASSUME IInv, [Next]_vars PROVE IInv'
  OBVIOUS
<1> USE DEF IInv
<1>0. /\ Size \in Nat \ {0} /\ Digest \in Nat \ {0} /\ Prime \in Nat
      /\ Magic \in Byte
  BY SizeAssumption, DigestAssumption, PrimeAssumption, MagicAssumption
<1>1. CASE Stir
  <2>1. md' \in [Limb -> Byte]
    <3>1. j \in Limb /\ j + 1 \in Limb /\ md \in [Limb -> Byte]
      BY <1>0, <1>1 DEF Stir, TypeOK, Limb
    <3> DEFINE k == md[j] * Prime
    <3>2. k \in Nat
      BY <1>0, <3>1 DEF Byte
    <3>3. k \div Size \in Nat
      BY <1>0, <3>2
    <3>4. \A x \in Nat : x % Size \in Byte
      BY <1>0 DEF Byte
    <3>5. md[j + 1] + (k \div Size) \in Nat
      BY <3>1, <3>3 DEF Byte
    <3>6. md' = [md EXCEPT ![j] = k % Size,
                           ![j + 1] = (md[j + 1] + (k \div Size)) % Size]
      <4>1. j # j + 1
        BY <3>1 DEF Limb
      <4>2. QED
        BY <1>1, <3>1, <4>1 DEF Stir
    <3>7. k % Size \in Byte /\ (md[j + 1] + (k \div Size)) % Size \in Byte
      BY <3>2, <3>4, <3>5
    <3> HIDE DEF k
    <3>8. QED
      BY <3>1, <3>6, <3>7
  <2>2. j' \in Limb
    BY <1>0, <1>1 DEF Stir, TypeOK, Limb
  <2>3. TypeOK'
    BY <1>1, <2>1, <2>2 DEF Stir, TypeOK
  <2>4. QED
    BY <1>1, <2>3 DEF Stir, Permutes, Fixed, Inverted
<1>2. CASE EndStir
  BY <1>2 DEF EndStir, TypeOK, Phase, Permutes, Fixed, Inverted
<1>3. CASE Shuffle
  <2>1. i \in Byte /\ i + 1 \in 0 .. Size /\ md[Digest - 1] \in Byte
    BY <1>0, <1>3 DEF Shuffle, TypeOK, Byte, Limb
  <2>2. encode' \in Bijection(Byte, Byte)
    BY <1>3, <2>1, SwapBijection DEF Shuffle, Permutes
  <2>3. encode' \in [Byte -> Byte]
    BY <2>2, BijectionDef
  <2>4. TypeOK'
    BY <1>0, <1>3, <2>1, <2>3 DEF Shuffle, TypeOK, Phase, Limb
  <2>5. phase' \in {"stir", "fix"}
    BY <1>3 DEF Shuffle
  <2>6. QED
    BY <2>2, <2>4, <2>5 DEF Permutes, Fixed, Inverted
<1>4. CASE FixIdentity
  <2>1. PICK n \in Byte : IsFirstHolder(n) /\ encode' = Swap(encode, Magic, n)
    BY <1>4 DEF FixIdentity
  <2>2. encode' \in Bijection(Byte, Byte)
    BY <1>0, <2>1, SwapBijection DEF Permutes
  <2>3. encode' \in [Byte -> Byte]
    BY <2>2, BijectionDef
  <2>4. 0 \in 0 .. Size /\ 0 < Size
    BY <1>0
  <2>5. TypeOK'
    BY <1>4, <2>3, <2>4 DEF FixIdentity, TypeOK, Phase
  <2>6. encode'[Magic] = identity
    <3>1. encode \in [Byte -> Byte]
      BY DEF TypeOK
    <3>2. Swap(encode, Magic, n)[Magic] = encode[n]
      BY <1>0, <3>1, SwapValues
    <3>3. QED
      BY <2>1, <3>2 DEF IsFirstHolder
  <2>7. Inverted'
    BY <1>4 DEF FixIdentity, Inverted, Byte
  <2>8. QED
    BY <1>4, <2>2, <2>5, <2>6, <2>7 DEF FixIdentity, Permutes, Fixed
<1>5. CASE Invert
  <2>1. i \in Byte /\ i + 1 \in 0 .. Size /\ encode[i] \in Byte
    <3>1. i \in 0 .. Size /\ i < Size /\ encode \in [Byte -> Byte]
      BY <1>5 DEF Invert, TypeOK
    <3>2. i \in Byte /\ i + 1 \in 0 .. Size
      BY <1>0, <3>1 DEF Byte
    <3>3. QED
      BY <3>1, <3>2
  <2>2. TypeOK'
    BY <1>5, <2>1 DEF Invert, TypeOK, Phase
  <2>3. Permutes' /\ Fixed'
    BY <1>5 DEF Invert, Permutes, Fixed
  <2>4. ASSUME NEW b \in Byte, b < i + 1  PROVE decode'[encode'[b]] = b
    <3>1. encode' = encode /\ decode' = [decode EXCEPT ![encode[i]] = i]
      BY <1>5 DEF Invert
    <3>2. encode[b] \in Byte /\ decode \in [Byte -> Byte]
      BY DEF TypeOK
    <3>3. CASE b = i
      BY <2>1, <3>1, <3>2, <3>3
    <3>4. CASE b # i
      <4>1. b < i
        BY <2>1, <2>4, <3>4 DEF Byte
      <4>2. encode[b] # encode[i]
        BY <2>1, <3>4, BijectionDef DEF Permutes
      <4>3. decode[encode[b]] = b
        BY <1>5, <4>1 DEF Invert, Inverted
      <4>4. QED
        BY <3>1, <3>2, <4>2, <4>3
    <3>5. QED
      BY <3>3, <3>4
  <2>5. Inverted'
    <3>1. i' = i + 1 /\ phase' = IF i + 1 < Size THEN "invert" ELSE "done"
      BY <1>5 DEF Invert
    <3>2. phase' = "done" => \A b \in Byte : b < i + 1
      BY <1>0, <2>1, <3>1 DEF Byte
    <3>3. QED
      BY <2>4, <3>1, <3>2 DEF Inverted
  <2>6. QED
    BY <2>2, <2>3, <2>5
<1>6. CASE UNCHANGED vars
  BY <1>6 DEF vars, TypeOK, Permutes, Fixed, Inverted
<1>7. QED
  BY <1>1, <1>2, <1>3, <1>4, <1>5, <1>6 DEF Next

LEMMA Invariance == Spec => []IInv
BY InitIInv, StepIInv, PTL DEF Spec

-----------------------------------------------------------------------------
(***************************************************************************)
(* The counters stay in the tables and every entry is a byte.              *)
(***************************************************************************)
THEOREM TypeCorrect == Spec => []TypeOK
<1>1. IInv => TypeOK
  BY DEF IInv
<1>2. QED
  BY <1>1, Invariance, PTL

(***************************************************************************)
(* BuildTable (crypt.c:8-44) permutes the bytes at every moment.           *)
(***************************************************************************)
THEOREM AlwaysPermutes == Spec => []Permutes
<1>1. IInv => Permutes
  BY DEF IInv
<1>2. QED
  BY <1>1, Invariance, PTL

(***************************************************************************)
(* The search for the user number (crypt.c:34-36) has a hit, so the swap   *)
(* after it stays in the table.                                            *)
(***************************************************************************)
THEOREM SearchAlwaysHits == Spec => []SearchHits
<1>1. IInv => SearchHits
  BY BijectionDef DEF IInv, TypeOK, Permutes, SearchHits
<1>2. QED
  BY <1>1, Invariance, PTL

(***************************************************************************)
(* When BuildTable is done, decode undoes encode and encode undoes decode. *)
(***************************************************************************)
THEOREM TablesRoundTrip == Spec => []RoundTrip
<1>1. IInv => RoundTrip
  <2> SUFFICES ASSUME IInv, phase = "done", NEW b \in Byte
               PROVE  decode[encode[b]] = b /\ encode[decode[b]] = b
    BY DEF RoundTrip
  <2>1. decode[encode[b]] = b
    BY DEF IInv, Inverted
  <2>2. PICK a \in Byte : encode[a] = b
    BY BijectionDef DEF IInv, Permutes
  <2>3. decode[b] = a
    BY <2>2 DEF IInv, Inverted
  <2>4. QED
    BY <2>1, <2>2, <2>3
<1>2. QED
  BY <1>1, Invariance, PTL

(***************************************************************************)
(* The first byte of an IPv4 packet, and no other, becomes the number of   *)
(* the user.                                                               *)
(***************************************************************************)
THEOREM TablesNameUser == Spec => []NamesUser
<1>1. IInv => NamesUser
  <2> SUFFICES ASSUME IInv, phase = "done", NEW b \in Byte
               PROVE  encode[b] = identity <=> b = Magic
    BY DEF NamesUser
  <2>1. encode[Magic] = identity
    BY DEF IInv, Fixed
  <2>2. QED
    BY <2>1, MagicAssumption, BijectionDef DEF IInv, Permutes
<1>2. QED
  BY <1>1, Invariance, PTL

-----------------------------------------------------------------------------
(***************************************************************************)
(* BuildTable implements Substitution: one step of it, the last turn of    *)
(* the last loop, yields tables that the tunnel can use.                   *)
(***************************************************************************)
LEMMA GoodTables ==
  ASSUME NEW e \in Bijection(Byte, Byte), NEW d \in [Byte -> Byte], NEW id,
         \A b \in Byte : d[e[b]] = b,
         e[Magic] = id
  PROVE  [encode |-> e, decode |-> d] \in Abstract!TablesFor(id)
<1> DEFINE t == [encode |-> e, decode |-> d]
<1>1. e \in Abstract!Bijection(Byte, Byte)
  BY DEF Bijection, Injection, Surjection, IsInjective, Abstract!Bijection,
         Abstract!Injection, Abstract!Surjection, Abstract!IsInjective
<1>2. t \in [encode : Abstract!Bijection(Byte, Byte), decode : [Byte -> Byte]]
  BY <1>1
<1>3. t.encode = e /\ t.decode = d
  OBVIOUS
<1>4. QED
  BY <1>2, <1>3 DEF Abstract!TablesFor

THEOREM ImplementsSubstitution == Spec => FillsTables
<1> DEFINE done == [encode |-> encode, decode |-> decode]
<1>1. Init => Abstract!Init
  BY DEF Init, Abstract!Init
<1>2. IInv /\ IInv' /\ [Next]_vars => [Abstract!Build]_(Abstract!vars)
  <2> SUFFICES ASSUME IInv, IInv', [Next]_vars
               PROVE  [Abstract!Build]_(Abstract!vars)
    OBVIOUS
  <2>1. CASE Stir \/ EndStir \/ Shuffle \/ FixIdentity
    BY <2>1 DEF Stir, EndStir, Shuffle, FixIdentity, Abstract!vars
  <2>2. CASE Invert
    <3>1. CASE phase' = "done"
      <4>1. /\ encode' \in Bijection(Byte, Byte)
            /\ decode' \in [Byte -> Byte]
            /\ \A b \in Byte : decode'[encode'[b]] = b
            /\ encode'[Magic] = identity'
        BY <3>1 DEF IInv, TypeOK, Permutes, Inverted, Fixed
      <4>2. identity' = identity
        BY <2>2 DEF Invert
      <4>3. done' \in Abstract!TablesFor(identity)
        BY <4>1, <4>2, GoodTables
      <4>4. QED
        BY <2>2, <3>1, <4>3 DEF Invert, Abstract!Build
    <3>2. CASE phase' # "done"
      BY <2>2, <3>2 DEF Invert, Abstract!vars
    <3>3. QED
      BY <3>1, <3>2
  <2>3. CASE UNCHANGED vars
    BY <2>3 DEF vars, Abstract!vars
  <2>4. QED
    BY <2>1, <2>2, <2>3 DEF Next
<1>3. QED
  BY <1>1, <1>2, Invariance, PTL DEF Spec, FillsTables, Abstract!Spec

-----------------------------------------------------------------------------
(***************************************************************************)
(* How many turns of its loops BuildTable has before it.                   *)
(***************************************************************************)
Outer == (Size - i) * (Digest + 1)

Left ==
  CASE phase = "stir"   -> Outer - j + Size + 1
    [] phase = "swap"   -> Outer - Digest + Size + 1
    [] phase = "fix"    -> Size + 1
    [] phase = "invert" -> Size - i
    [] phase = "done"   -> 0

LEMMA LeftFacts ==
  ASSUME TypeOK
  PROVE  /\ Outer \in Int
         /\ Left \in Nat
         /\ Left = 0 <=> phase = "done"
<1>0. /\ Size \in Nat \ {0} /\ Digest \in Nat \ {0}
      /\ i \in 0 .. Size /\ j \in 0 .. Digest - 1
      /\ phase \in Phase
      /\ phase \in {"stir", "swap", "invert"} => i < Size
  BY SizeAssumption, DigestAssumption DEF TypeOK, Limb
<1>1. Outer \in Int
  BY <1>0 DEF Outer
<1>2. CASE phase \in {"stir", "swap"}
  <2>1. Size - i \in Nat /\ Size - i >= 1 /\ Digest + 1 \in Nat
    BY <1>0, <1>2
  <2> DEFINE a == Size - i
             b == Digest + 1
  <2>2. a \in Nat /\ a >= 1 /\ b \in Nat => a * b >= b
    <3> HIDE DEF a, b
    <3>1. ASSUME a \in Nat, a >= 1, b \in Nat PROVE a * b >= b
      <4>1. a * b = b + (a - 1) * b /\ (a - 1) * b \in Nat
        BY <3>1
      <4>2. QED
        BY <3>1, <4>1
    <3>2. QED
      BY <3>1
  <2>3. Outer >= Digest + 1
    BY <2>1, <2>2 DEF Outer
  <2>4. Left = Outer - j + Size + 1 \/ Left = Outer - Digest + Size + 1
    BY <1>2 DEF Left
  <2>5. Left \in Nat /\ Left # 0
    BY <1>0, <1>1, <2>3, <2>4
  <2>6. QED
    BY <1>1, <1>2, <2>5
<1>3. CASE phase \in {"fix", "invert", "done"}
  BY <1>0, <1>1, <1>3 DEF Left
<1>4. QED
  BY <1>0, <1>2, <1>3 DEF Phase

LEMMA OneLess == IInv /\ Next => Left' = Left - 1
<1> SUFFICES ASSUME IInv, Next PROVE Left' = Left - 1
  OBVIOUS
<1>0. /\ Size \in Nat \ {0} /\ Digest \in Nat \ {0}
      /\ i \in 0 .. Size /\ j \in 0 .. Digest - 1
      /\ phase \in {"stir", "swap", "invert"} => i < Size
  BY SizeAssumption, DigestAssumption DEF IInv, TypeOK, Limb
<1>1. Outer \in Int
  BY LeftFacts DEF IInv
<1>2. CASE Stir
  <2>1. Outer' = Outer
    BY <1>2 DEF Stir, Outer
  <2>2. Left = Outer - j + Size + 1 /\ Left' = Outer - (j + 1) + Size + 1
    BY <1>2, <2>1 DEF Stir, Left
  <2>3. QED
    BY <1>0, <1>1, <2>2
<1>3. CASE EndStir
  <2>1. Outer' = Outer
    BY <1>3 DEF EndStir, Outer
  <2>2. Left = Outer - (Digest - 1) + Size + 1
    BY <1>3 DEF EndStir, Left
  <2>3. Left' = Outer - Digest + Size + 1
    BY <1>3, <2>1 DEF EndStir, Left
  <2>4. QED
    BY <1>0, <1>1, <2>2, <2>3
<1>4. CASE Shuffle
  <2>1. Outer' = Outer - (Digest + 1)
    <3>1. i' = i + 1
      BY <1>4 DEF Shuffle
    <3>2. Outer' = (Size - (i + 1)) * (Digest + 1)
      BY <3>1 DEF Outer
    <3>3. \A a, b \in Int : (a - 1) * b = a * b - b
      OBVIOUS
    <3>4. Size - (i + 1) = (Size - i) - 1
      BY <1>0
    <3>5. (Size - (i + 1)) * (Digest + 1) = Outer - (Digest + 1)
      BY <1>0, <3>3, <3>4 DEF Outer
    <3>6. QED
      BY <3>2, <3>5
  <2>2. Left = Outer - Digest + Size + 1
    BY <1>4 DEF Shuffle, Left
  <2>3. Left' = Outer' + Size + 1
    <3>1. CASE i + 1 < Size
      <4>1. phase' = "stir" /\ j' = 0
        BY <1>4, <3>1 DEF Shuffle
      <4>2. Left' = Outer' - 0 + Size + 1
        BY <4>1 DEF Left
      <4>3. QED
        BY <1>0, <1>1, <2>1, <4>2
    <3>2. CASE ~(i + 1 < Size)
      <4>1. phase' = "fix" /\ i' = i + 1
        BY <1>4, <3>2 DEF Shuffle
      <4>2. Size - (i + 1) = 0
        BY <1>0, <1>4, <3>2 DEF Shuffle
      <4>3. Outer' = 0
        BY <1>0, <4>1, <4>2 DEF Outer
      <4>4. Left' = Size + 1
        BY <4>1 DEF Left
      <4>5. QED
        BY <1>0, <4>3, <4>4
    <3>3. QED
      BY <3>1, <3>2
  <2>4. QED
    BY <1>0, <1>1, <2>1, <2>2, <2>3
<1>5. CASE FixIdentity
  <2>1. Left = Size + 1 /\ Left' = Size - 0
    BY <1>5 DEF FixIdentity, Left
  <2>2. QED
    BY <1>0, <2>1
<1>6. CASE Invert
  <2>1. Left = Size - i
    BY <1>6 DEF Invert, Left
  <2>2. CASE i + 1 < Size
    <3>1. Left' = Size - (i + 1)
      BY <1>6, <2>2 DEF Invert, Left
    <3>2. QED
      BY <1>0, <2>1, <3>1
  <2>3. CASE ~(i + 1 < Size)
    <3>1. Left' = 0
      BY <1>6, <2>3 DEF Invert, Left
    <3>2. i < Size
      BY <1>0, <1>6 DEF Invert
    <3>3. QED
      BY <1>0, <2>1, <2>3, <3>1, <3>2
  <2>4. QED
    BY <2>2, <2>3
<1>7. QED
  BY <1>2, <1>3, <1>4, <1>5, <1>6 DEF Next

(***************************************************************************)
(* BuildTable (crypt.c:8-44) has no loop that depends on the password: it  *)
(* takes Size * (Digest + 2) + 1 turns whatever the digest and the number  *)
(* are, each of which leaves one less, and is done when none is left.      *)
(***************************************************************************)
CountsDown ==
  /\ Left = Size * (Digest + 2) + 1
  /\ [](Left \in Nat /\ (Left = 0 <=> phase = "done"))
  /\ [][Left' = Left - 1]_vars

THEOREM TurnsCountDown == Spec => CountsDown
<1>1. Init => Left = Size * (Digest + 2) + 1
  <2> SUFFICES ASSUME Init PROVE Left = Size * (Digest + 2) + 1
    OBVIOUS
  <2>1. Left = (Size - 0) * (Digest + 1) - 0 + Size + 1
    BY DEF Init, Left, Outer
  <2>2. Size \in Int /\ Digest \in Int
    BY SizeAssumption, DigestAssumption
  <2>3. \A a, b \in Int : (a - 0) * (b + 1) - 0 + a + 1 = a * (b + 2) + 1
    OBVIOUS
  <2>4. QED
    BY <2>1, <2>2, <2>3
<1>2. IInv => Left \in Nat /\ (Left = 0 <=> phase = "done")
  BY LeftFacts DEF IInv
<1>3. IInv /\ [Next]_vars => [Left' = Left - 1]_vars
  BY OneLess
<1>4. QED
  BY <1>1, <1>2, <1>3, Invariance, PTL DEF Spec, CountsDown
=============================================================================
