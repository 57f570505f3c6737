------------------------- MODULE ServerConfigProofs -------------------------
(***************************************************************************)
(* The configuration is read as it should be, for every set of files,      *)
(* words and slots, every width of a port and every buffer of fgets.       *)
(***************************************************************************)
EXTENDS ServerConfig, WellFoundedInduction, TLAPS

(***************************************************************************)
(* What the lines before position n of a tidy file say: position n is the  *)
(* start of a line or the end; v is the port, or the address, of the last  *)
(* line that has one; c has the first password of each user.               *)
(***************************************************************************)
AtLine(n) == n = EOF \/ n \in LineStarts

Upto(k, n) == { p \in Lines(k) : p < n }

UsersUpto(s, n) == { p \in UserLines(s) : p < n }

PortRead(n, v) ==
  IF Upto("port", n) = {} THEN v = 0
  ELSE v = Value(Max(Upto("port", n)) + 1) % PortRange

LocalRead(n, v) ==
  IF Upto("local", n) = {} THEN v = 0
  ELSE v = Inet[file[Max(Upto("local", n)) + 1]]

ClientsRead(n, c) ==
  \A s \in Slots : c[s] = IF UsersUpto(s, n) = {} THEN NULL
                          ELSE file[Min(UserLines(s)) + 2]

(***************************************************************************)
(* Each reading knows what the lines that it has passed say.               *)
(***************************************************************************)
InServer ==
  /\ AtLine(pos)
  /\ PortRead(pos, port) /\ LocalRead(pos, local)
  /\ ClientsRead(1, clients)

ServerDone ==
  /\ PortRead(EOF, port) /\ LocalRead(EOF, local)
  /\ pass = "failed" <=> (port = 0 \/ local = 0)

InUsers == AtLine(pos) /\ ClientsRead(pos, clients)

ReadsSoFar ==
  /\ pass = "server" => InServer
  /\ pass # "server" => ServerDone
  /\ pass = "users" => InUsers
  /\ pass = "ready" => ClientsRead(EOF, clients)
  /\ pass = "wild" => \E p \in Lines("user") : Value(p + 1) \notin Slots

IInv == TypeOK /\ (Tidy => ReadsSoFar)
-----------------------------------------------------------------------------
(***************************************************************************)
(* A set of naturals that is not empty contains its minimum; and what the  *)
(* minimum and the maximum are of a set with a least or a greatest member. *)
(***************************************************************************)
LEMMA MinIsIn ==
  ASSUME NEW S \in SUBSET Nat, S # {}
  PROVE  Min(S) \in S /\ \A n \in S : Min(S) <= n
<1>1. PICK m \in S : \A n \in S : <<n, m>> \notin OpToRel(<, Nat)
  BY WFMin, NatLessThanWellFounded, Zenon
<1>2. \A n \in S : ~(n < m)
  BY <1>1 DEF OpToRel
<1>3. \A n \in S : m <= n
  BY <1>2
<1>4. QED
  BY <1>3 DEF Min

LEMMA MinIs ==
  ASSUME NEW S \in SUBSET Nat, NEW m \in S, \A n \in S : m <= n
  PROVE  Min(S) = m
<1>1. Min(S) \in S /\ \A n \in S : Min(S) <= n
  BY MinIsIn
<1>2. m <= Min(S) /\ Min(S) <= m /\ m \in Nat /\ Min(S) \in Nat
  BY <1>1
<1>3. QED
  BY <1>2

LEMMA MaxIs ==
  ASSUME NEW S \in SUBSET Nat, NEW m \in S, \A n \in S : n <= m
  PROVE  Max(S) = m
<1>1. \A x \in S : (\A n \in S : x >= n) => x = m
  OBVIOUS
<1>2. \A n \in S : m >= n
  OBVIOUS
<1>3. QED
  BY <1>1, <1>2 DEF Max

-----------------------------------------------------------------------------
(***************************************************************************)
(* Positions and words of a file.                                          *)
(***************************************************************************)
LEMMA Positions ==
  ASSUME TypeOK
  PROVE  /\ Len(file) \in Nat /\ EOF \in Nat \ {0} /\ EOF = Len(file) + 1
         /\ \A p \in 1 .. Len(file) : file[p] \in Word \cup {NL}
         /\ \A p \in Nat \ {0} : IsWord(p) => p < EOF /\ file[p] \in Word
         /\ \A p \in 1 .. Len(file) : ~IsWord(p) => file[p] = NL
         /\ ~IsWord(EOF)
<1>1. Len(file) \in Nat /\ \A p \in 1 .. Len(file) : file[p] \in Word \cup {NL}
  BY DEF TypeOK
<1>2. EOF = Len(file) + 1
  BY DEF EOF
<1>3. QED
  BY <1>1, <1>2 DEF IsWord

LEMMA ScanFacts ==
  ASSUME TypeOK, NEW p \in 1 .. EOF
  PROVE  /\ Scan(p) \in p .. EOF
         /\ Scan(p) # EOF => IsWord(Scan(p))
         /\ \A q \in p .. Scan(p) - 1 : ~IsWord(q)
<1> DEFINE S == { q \in p .. EOF : q = EOF \/ IsWord(q) }
<1>1. EOF \in Nat \ {0}
  BY Positions
<1>2. S \in SUBSET Nat /\ EOF \in S
  BY <1>1
<1>3. Min(S) \in S /\ \A n \in S : Min(S) <= n
  BY <1>2, MinIsIn
<1>4. Scan(p) = Min(S)
  BY DEF Scan
<1>5. \A q \in p .. Min(S) - 1 : ~IsWord(q)
  <2> SUFFICES ASSUME NEW q \in p .. Min(S) - 1, IsWord(q)
               PROVE  FALSE
    OBVIOUS
  <2>1. q \in p .. EOF /\ q < Min(S)
    BY <1>1, <1>3
  <2>2. q \in S
    BY <2>1
  <2>3. QED
    BY <1>2, <1>3, <2>1, <2>2
<1>6. QED
  BY <1>3, <1>4, <1>5

(***************************************************************************)
(* A word that is where fscanf starts is the word it finds.                *)
(***************************************************************************)
LEMMA ScanHere ==
  ASSUME TypeOK, NEW p \in 1 .. EOF, IsWord(p)
  PROVE  Scan(p) = p
<1>1. EOF \in Nat /\ Scan(p) \in p .. EOF
  BY Positions, ScanFacts
<1>2. ~(p <= Scan(p) - 1)
  BY <1>1, ScanFacts
<1>3. QED
  BY <1>1, <1>2

Stops(p) ==
  {EOF, p + Line} \cup { q + 1 : q \in { n \in p .. EOF - 1 : file[n] = NL } }

LEMMA SkipFacts ==
  ASSUME TypeOK, NEW p \in 1 .. EOF + 1
  PROVE  /\ SkipLine(p) = Min(Stops(p)) /\ Stops(p) \in SUBSET Nat
         /\ SkipLine(p) \in 1 .. EOF
<1>1. EOF \in Nat \ {0} /\ Line \in Nat \ {0}
  BY Positions, RangeAssumption
<1>2. Stops(p) \in SUBSET (Nat \ {0}) /\ EOF \in Stops(p)
  BY <1>1 DEF Stops
<1>3. Min(Stops(p)) \in Stops(p) /\ \A n \in Stops(p) : Min(Stops(p)) <= n
  BY <1>2, MinIsIn
<1>4. SkipLine(p) = Min(Stops(p))
  BY DEF SkipLine, Stops
<1>5. QED
  BY <1>1, <1>2, <1>3, <1>4

(***************************************************************************)
(* Where the second value is looked for is in the file or at its end.      *)
(***************************************************************************)
LEMMA Values ==
  ASSUME TypeOK, Scan(pos) # EOF
  PROVE  /\ Scan(pos) \in 1 .. EOF - 1 /\ IsWord(Scan(pos))
         /\ file[Scan(pos)] \in Word
         /\ First \in 1 .. EOF
         /\ First # EOF => IsWord(First) /\ file[First] \in Word
         /\ IsNumber(First) =>
              /\ First # EOF /\ Second \in 1 .. EOF
              /\ Second # EOF => file[Second] \in Word
<1>1. EOF \in Nat \ {0} /\ pos \in 1 .. EOF
  BY Positions DEF TypeOK
<1>2. Scan(pos) \in 1 .. EOF - 1 /\ IsWord(Scan(pos))
  BY <1>1, ScanFacts
<1>3. First \in 1 .. EOF /\ (First # EOF => IsWord(First))
  <2>1. Scan(pos) + 1 \in 1 .. EOF
    BY <1>1, <1>2
  <2>2. QED
    BY <1>1, <2>1, ScanFacts DEF First
<1>4. ASSUME IsNumber(First)
      PROVE  /\ First # EOF /\ Second \in 1 .. EOF
             /\ Second # EOF => IsWord(Second)
  <2>1. First < EOF
    BY <1>4 DEF IsNumber, IsWord
  <2>2. First + 1 \in 1 .. EOF
    BY <1>1, <1>3, <2>1
  <2>3. QED
    BY <1>1, <2>1, <2>2, ScanFacts DEF Second
<1>5. QED
  BY <1>1, <1>2, <1>3, <1>4, Positions

-----------------------------------------------------------------------------
(***************************************************************************)
(* From the start of a line the next word begins a line, and no line in    *)
(* between has a word.                                                     *)
(***************************************************************************)
LEMMA NextLine ==
  ASSUME TypeOK, NEW n \in 1 .. EOF, AtLine(n)
  PROVE  /\ Scan(n) # EOF => Scan(n) \in LineStarts
         /\ \A r \in LineStarts : n <= r /\ r < Scan(n) => ~IsWord(r)
<1>1. /\ EOF \in Nat \ {0} /\ EOF = Len(file) + 1
      /\ Scan(n) \in n .. EOF
      /\ \A q \in n .. Scan(n) - 1 : ~IsWord(q)
  BY Positions, ScanFacts
<1>2. ASSUME Scan(n) # EOF
      PROVE  Scan(n) \in LineStarts
  <2>1. CASE Scan(n) = n
    BY <1>2, <2>1 DEF AtLine
  <2>2. CASE Scan(n) # n
    <3>1. Scan(n) - 1 \in n .. Scan(n) - 1 /\ Scan(n) - 1 \in 1 .. Len(file)
      BY <1>1, <1>2, <2>2
    <3>2. file[Scan(n) - 1] = NL
      BY <1>1, <3>1, Positions
    <3>3. Scan(n) \in 1 .. Len(file)
      BY <1>1, <1>2
    <3>4. QED
      BY <3>2, <3>3 DEF LineStarts
  <2>3. QED
    BY <2>1, <2>2
<1>3. ASSUME NEW r \in LineStarts, n <= r, r < Scan(n)
      PROVE  ~IsWord(r)
  <2>1. r \in Nat
    BY DEF LineStarts
  <2>2. r \in n .. Scan(n) - 1
    BY <1>1, <1>3, <2>1
  <2>3. QED
    BY <1>1, <2>2
<1>4. QED
  BY <1>2, <1>3

LEMMA LineEndFacts ==
  ASSUME TypeOK, NEW q \in 1 .. EOF - 1, IsWord(q)
  PROVE  /\ LineEnd(q) \in q + 1 .. EOF /\ ~IsWord(LineEnd(q))
         /\ \A p \in q .. LineEnd(q) - 1 : IsWord(p)
<1> DEFINE S == { p \in q .. EOF : ~IsWord(p) }
<1>1. EOF \in Nat \ {0} /\ ~IsWord(EOF)
  BY Positions
<1>2. S \in SUBSET Nat /\ EOF \in S
  BY <1>1
<1>3. Min(S) \in S /\ \A n \in S : Min(S) <= n
  BY <1>2, MinIsIn
<1>4. LineEnd(q) = Min(S)
  BY DEF LineEnd
<1>5. Min(S) # q
  BY <1>3
<1>6. \A p \in q .. Min(S) - 1 : IsWord(p)
  <2> SUFFICES ASSUME NEW p \in q .. Min(S) - 1, ~IsWord(p)
               PROVE  FALSE
    OBVIOUS
  <2>1. p \in q .. EOF /\ p < Min(S)
    BY <1>1, <1>3
  <2>2. p \in S
    BY <2>1
  <2>3. QED
    BY <1>2, <1>3, <2>1, <2>2
<1>7. Min(S) \in q .. EOF /\ ~IsWord(Min(S))
  BY <1>3
<1>8. Min(S) \in q + 1 .. EOF
  BY <1>1, <1>5, <1>7
<1>9. QED
  BY <1>4, <1>6, <1>7, <1>8

(***************************************************************************)
(* In a tidy file fgets, at any place of a line behind its first word,     *)
(* comes to the next line, or to the end of the file.                      *)
(***************************************************************************)
LEMMA SkipsLine ==
  ASSUME TypeOK, Tidy, NEW q \in LineStarts, IsWord(q),
         NEW p \in q + 1 .. LineEnd(q)
  PROVE  /\ SkipLine(p) \in q + 1 .. EOF /\ AtLine(SkipLine(p))
         /\ \A r \in LineStarts : q < r => SkipLine(p) <= r
<1> DEFINE e == LineEnd(q)
           m == IF e = EOF THEN EOF ELSE e + 1
<1>1. /\ EOF \in Nat \ {0} /\ EOF = Len(file) + 1 /\ Line \in Nat \ {0}
      /\ q \in 1 .. EOF - 1 /\ q \in 1 .. Len(file)
  BY Positions, RangeAssumption DEF LineStarts
<1>2. /\ e \in q + 1 .. EOF /\ ~IsWord(e)
      /\ \A x \in q .. e - 1 : IsWord(x)
  BY <1>1, LineEndFacts
<1>3. e - q <= Line
  BY DEF Tidy, TidyLine
<1>4. e # EOF => e \in 1 .. Len(file) /\ file[e] = NL
  <2>1. e # EOF => e \in 1 .. Len(file)
    BY <1>1, <1>2
  <2>2. QED
    BY <1>2, <2>1, Positions
<1>5. p \in q + 1 .. e
  OBVIOUS
<1> HIDE DEF e
<1>6. p \in 1 .. EOF + 1
  BY <1>1, <1>2, <1>5
<1>7. \A x \in q .. EOF - 1 : file[x] = NL => e <= x
  <2> SUFFICES ASSUME NEW x \in q .. EOF - 1, file[x] = NL
               PROVE  e <= x
    OBVIOUS
  <2>1. ~IsWord(x)
    BY DEF IsWord
  <2>2. ~(x \in q .. e - 1)
    BY <1>2, <2>1
  <2>3. QED
    BY <1>1, <1>2, <2>2
<1>8. m \in Stops(p) /\ m \in q + 1 .. EOF
  <2>1. CASE e = EOF
    BY <1>1, <1>2, <2>1 DEF Stops
  <2>2. CASE e # EOF
    <3>1. e \in { n \in p .. EOF - 1 : file[n] = NL }
      BY <1>1, <1>2, <1>4, <1>5, <2>2
    <3>2. e + 1 \in Stops(p)
      BY <3>1 DEF Stops
    <3>3. e + 1 \in q + 1 .. EOF
      BY <1>1, <1>2, <2>2
    <3>4. QED
      BY <2>2, <3>2, <3>3
  <2>3. QED
    BY <2>1, <2>2
<1>9. \A n \in Stops(p) : m <= n
  <2> SUFFICES ASSUME NEW n \in Stops(p)
               PROVE  m <= n
    OBVIOUS
  <2>1. CASE n = EOF
    BY <1>1, <1>2, <2>1
  <2>2. CASE n = p + Line
    BY <1>1, <1>2, <1>3, <1>5, <2>2
  <2>3. CASE \E x \in p .. EOF - 1 : file[x] = NL /\ n = x + 1
    <3>1. PICK x \in p .. EOF - 1 : file[x] = NL /\ n = x + 1
      BY <2>3
    <3>2. x \in q .. EOF - 1 /\ x \in Nat
      BY <1>1, <1>2, <1>5
    <3>3. e <= x
      BY <1>7, <3>1, <3>2
    <3>4. QED
      BY <1>1, <1>2, <3>1, <3>2, <3>3
  <2>4. QED
    BY <2>1, <2>2, <2>3 DEF Stops
<1>10. SkipLine(p) = m
  <2>1. SkipLine(p) = Min(Stops(p)) /\ Stops(p) \in SUBSET Nat
    BY <1>6, SkipFacts
  <2>2. QED
    BY <1>8, <1>9, <2>1, MinIs
<1>11. AtLine(m)
  <2>1. CASE m = EOF
    BY <2>1 DEF AtLine
  <2>2. CASE m # EOF
    <3>1. m = e + 1 /\ m \in 1 .. Len(file) /\ file[e] = NL
      BY <1>1, <1>2, <1>4, <1>8, <2>2
    <3>2. m - 1 = e
      BY <1>2, <3>1
    <3>3. QED
      BY <3>1, <3>2 DEF AtLine, LineStarts
  <2>3. QED
    BY <2>1, <2>2
<1>12. \A r \in LineStarts : q < r => m <= r
  <2> SUFFICES ASSUME NEW r \in LineStarts, q < r
               PROVE  m <= r
    OBVIOUS
  <2>1. r \in 1 .. Len(file) /\ file[r - 1] = NL
    BY <1>1 DEF LineStarts
  <2>2. r - 1 \in q .. EOF - 1
    BY <1>1, <2>1
  <2>3. e <= r - 1
    BY <1>7, <2>1, <2>2
  <2>4. QED
    BY <1>1, <1>2, <2>1, <2>3
<1>13. QED
  BY <1>8, <1>10, <1>11, <1>12

-----------------------------------------------------------------------------
(***************************************************************************)
(* Position m is at the start of the line after that of the word which is  *)
(* found from n, or at the end.                                            *)
(***************************************************************************)
Behind(m, n) ==
  /\ n \in 1 .. EOF /\ AtLine(n) /\ Scan(n) # EOF
  /\ m \in Scan(n) + 1 .. EOF /\ AtLine(m)
  /\ \A r \in LineStarts : Scan(n) < r => m <= r

(***************************************************************************)
(* The lines passed at m are those passed at n and the one found from n.   *)
(***************************************************************************)
LEMMA Passes ==
  ASSUME TypeOK, NEW n, NEW m, Behind(m, n)
  PROVE  /\ Scan(n) \in LineStarts /\ IsWord(Scan(n)) /\ n <= Scan(n)
         /\ n \in Nat /\ m \in Nat
         /\ \A p \in LineStarts :
              /\ p \in Nat
              /\ IsWord(p) => (p < m <=> (p < n \/ p = Scan(n)))
<1>1. /\ EOF \in Nat \ {0} /\ n \in 1 .. EOF /\ AtLine(n) /\ Scan(n) # EOF
      /\ Scan(n) \in n .. EOF
      /\ m \in Scan(n) + 1 .. EOF
      /\ \A r \in LineStarts : Scan(n) < r => m <= r
  BY Positions, ScanFacts DEF Behind
<1>2. /\ Scan(n) \in LineStarts /\ IsWord(Scan(n))
      /\ \A r \in LineStarts : n <= r /\ r < Scan(n) => ~IsWord(r)
  BY <1>1, NextLine, ScanFacts
<1>3. ASSUME NEW p \in LineStarts, IsWord(p)
      PROVE  p < m <=> (p < n \/ p = Scan(n))
  <2>1. p \in Nat
    BY DEF LineStarts
  <2>2. ~(n <= p /\ p < Scan(n)) /\ (Scan(n) < p => m <= p)
    BY <1>1, <1>2, <1>3
  <2>3. QED
    BY <1>1, <2>1, <2>2
<1>4. QED
  BY <1>1, <1>2, <1>3 DEF LineStarts

LEMMA PassesEnd ==
  ASSUME TypeOK, NEW n \in 1 .. EOF, AtLine(n), Scan(n) = EOF
  PROVE  \A p \in LineStarts : IsWord(p) => p < n /\ p < EOF
<1>1. EOF \in Nat \ {0} /\ EOF = Len(file) + 1
  BY Positions
<1>2. ASSUME NEW p \in LineStarts, IsWord(p)
      PROVE  p < n /\ p < EOF
  <2>1. p \in Nat /\ p < EOF
    BY <1>1 DEF LineStarts
  <2>2. ~(n <= p)
    BY <1>2, <2>1, NextLine
  <2>3. QED
    BY <2>1, <2>2
<1>3. QED
  BY <1>2

LEMMA UptoNats ==
  ASSUME NEW k, NEW n
  PROVE  Upto(k, n) \in SUBSET Nat /\ \A s : UserLines(s) \in SUBSET Nat
BY DEF Upto, UserLines, Lines, LineStarts

(***************************************************************************)
(* A line with another keyword changes nothing for keyword k; one with k   *)
(* is the last that has it.                                                *)
(***************************************************************************)
LEMMA UptoStays ==
  ASSUME TypeOK, NEW n, NEW m, Behind(m, n), NEW k,
         Keyword[file[Scan(n)]] # k
  PROVE  Upto(k, m) = Upto(k, n)
BY Passes DEF Upto, Lines

LEMMA UptoLast ==
  ASSUME TypeOK, NEW n, NEW m, Behind(m, n), NEW k,
         Keyword[file[Scan(n)]] = k
  PROVE  Upto(k, m) # {} /\ Max(Upto(k, m)) = Scan(n)
<1>1. /\ Scan(n) \in LineStarts /\ IsWord(Scan(n)) /\ n <= Scan(n)
      /\ n \in Nat /\ m \in Nat /\ Scan(n) \in Nat
      /\ \A p \in LineStarts :
           /\ p \in Nat
           /\ IsWord(p) => (p < m <=> (p < n \/ p = Scan(n)))
  BY Passes
<1>2. Scan(n) \in Upto(k, m)
  BY <1>1 DEF Upto, Lines
<1>3. ASSUME NEW p \in Upto(k, m)
      PROVE  p <= Scan(n)
  <2>1. p \in LineStarts /\ IsWord(p) /\ p < m
    BY DEF Upto, Lines
  <2>2. p \in Nat /\ (p < n \/ p = Scan(n))
    BY <1>1, <2>1
  <2>3. QED
    BY <1>1, <2>2
<1>4. QED
  BY <1>2, <1>3, UptoNats, MaxIs

LEMMA PortStep ==
  ASSUME TypeOK, NEW n, NEW m, Behind(m, n), NEW v, PortRead(n, v)
  PROVE  /\ Keyword[file[Scan(n)]] # "port" => PortRead(m, v)
         /\ Keyword[file[Scan(n)]] = "port" =>
              PortRead(m, Value(Scan(n) + 1) % PortRange)
BY UptoStays, UptoLast DEF PortRead

LEMMA LocalStep ==
  ASSUME TypeOK, NEW n, NEW m, Behind(m, n), NEW v, LocalRead(n, v)
  PROVE  /\ Keyword[file[Scan(n)]] # "local" => LocalRead(m, v)
         /\ Keyword[file[Scan(n)]] = "local" =>
              LocalRead(m, Inet[file[Scan(n) + 1]])
BY UptoStays, UptoLast DEF LocalRead

(***************************************************************************)
(* A line that is no user's or that of a user who has been read changes    *)
(* nothing.                                                                *)
(***************************************************************************)
LEMMA ClientsStay ==
  ASSUME TypeOK, NEW n, NEW m, Behind(m, n), NEW c, ClientsRead(n, c),
         \/ Keyword[file[Scan(n)]] # "user"
         \/ /\ Value(Scan(n) + 1) \in Slots
            /\ c[Value(Scan(n) + 1)] # NULL
  PROVE  ClientsRead(m, c)
<1> SUFFICES ASSUME NEW s \in Slots
             PROVE  UsersUpto(s, m) = {} <=> UsersUpto(s, n) = {}
  BY DEF ClientsRead
<1>1. \A p \in LineStarts : IsWord(p) => (p < m <=> (p < n \/ p = Scan(n)))
  BY Passes
<1>2. ASSUME NEW p \in UserLines(s)
      PROVE  /\ p \in LineStarts /\ IsWord(p) /\ Keyword[file[p]] = "user"
             /\ Value(p + 1) = s
  BY DEF UserLines, Lines
<1>3. CASE Scan(n) \in UserLines(s)
  <2>1. c[s] # NULL
    BY <1>2, <1>3
  <2>2. UsersUpto(s, n) # {}
    BY <2>1 DEF ClientsRead
  <2>3. UsersUpto(s, n) \subseteq UsersUpto(s, m)
    BY <1>1, <1>2 DEF UsersUpto
  <2>4. QED
    BY <2>2, <2>3
<1>4. CASE Scan(n) \notin UserLines(s)
  BY <1>1, <1>2, <1>4 DEF UsersUpto
<1>5. QED
  BY <1>3, <1>4

(***************************************************************************)
(* The first line of a user adds that user.                                *)
(***************************************************************************)
LEMMA ClientsAdd ==
  ASSUME TypeOK, Tidy, NEW n, NEW m, Behind(m, n),
         ClientsRead(n, clients),
         Keyword[file[Scan(n)]] = "user",
         NEW id \in Slots, id = Value(Scan(n) + 1), clients[id] = NULL
  PROVE  ClientsRead(m, [clients EXCEPT ![id] = file[Scan(n) + 2]])
<1> DEFINE q == Scan(n)
           c == [clients EXCEPT ![id] = file[q + 2]]
<1>1. /\ q \in LineStarts /\ IsWord(q) /\ n <= q
      /\ n \in Nat /\ m \in Nat /\ q \in Nat
      /\ \A p \in LineStarts :
           /\ p \in Nat
           /\ IsWord(p) => (p < m <=> (p < n \/ p = q))
  BY Passes
<1> HIDE DEF q
<1>2. ASSUME NEW s, NEW p \in UserLines(s)
      PROVE  /\ p \in LineStarts /\ IsWord(p) /\ Keyword[file[p]] = "user"
             /\ Value(p + 1) = s
  BY DEF UserLines, Lines
<1>3. q \in UserLines(id)
  BY <1>1 DEF UserLines, Lines, q
<1>4. UsersUpto(id, n) = {}
  <2> SUFFICES ASSUME UsersUpto(id, n) # {}
               PROVE  FALSE
    OBVIOUS
  <2>1. clients[id] = file[Min(UserLines(id)) + 2]
    BY DEF ClientsRead
  <2>2. Min(UserLines(id)) \in UserLines(id)
    BY <1>3, UptoNats, MinIsIn
  <2>3. Min(UserLines(id)) \in LineStarts /\ IsWord(Min(UserLines(id)) + 2)
    BY <1>2, <2>2 DEF Tidy, TidyLine
  <2>4. file[Min(UserLines(id)) + 2] \in Word
    <3>1. Min(UserLines(id)) + 2 \in Nat \ {0}
      BY <2>3 DEF LineStarts
    <3>2. QED
      BY <2>3, <3>1, Positions
  <2>5. QED
    BY <2>1, <2>4, FileAssumption
<1>5. Min(UserLines(id)) = q
  <2>1. ASSUME NEW p \in UserLines(id)
        PROVE  q <= p
    <3>1. p \in LineStarts /\ IsWord(p) /\ p \in Nat
      BY <1>1, <1>2
    <3>2. ~(p < n)
      BY <1>4 DEF UsersUpto
    <3>3. ~(n <= p /\ p < q)
      <4>1. Scan(n) = q /\ n \in 1 .. EOF /\ AtLine(n)
        BY DEF Behind, q
      <4>2. QED
        BY <3>1, <4>1, NextLine
    <3>4. QED
      BY <1>1, <3>1, <3>2, <3>3
  <2>2. QED
    BY <1>3, <2>1, UptoNats, MinIs
<1>6. /\ clients \in [Slots -> Word \cup {NULL}]
      /\ \A s \in Slots : c[s] = IF s = id THEN file[q + 2] ELSE clients[s]
  BY DEF TypeOK
<1>7. ASSUME NEW s \in Slots
      PROVE  c[s] = IF UsersUpto(s, m) = {} THEN NULL
                    ELSE file[Min(UserLines(s)) + 2]
  <2>1. CASE s = id
    <3>1. q \in UsersUpto(s, m)
      BY <1>1, <1>3, <2>1 DEF UsersUpto
    <3>2. QED
      BY <1>5, <1>6, <2>1, <3>1
  <2>2. CASE s # id
    <3>1. q \notin UserLines(s)
      BY <1>2, <1>3, <2>2
    <3>2. UsersUpto(s, m) = UsersUpto(s, n)
      BY <1>1, <1>2, <3>1 DEF UsersUpto
    <3>3. QED
      BY <1>6, <2>2, <3>2 DEF ClientsRead
  <2>3. QED
    BY <2>1, <2>2
<1>8. ClientsRead(m, c)
  BY <1>7 DEF ClientsRead
<1>9. QED
  BY <1>8 DEF q

-----------------------------------------------------------------------------
(***************************************************************************)
(* What the lines say depends on nothing but the file, which stays.        *)
(***************************************************************************)
LEMMA FileStays ==
  ASSUME file' = file
  PROVE  /\ EOF' = EOF /\ Tidy' = Tidy
         /\ Lines("user")' = Lines("user")
         /\ \A p : Value(p)' = Value(p)
         /\ \A n : AtLine(n)' = AtLine(n)
         /\ \A n, v : PortRead(n, v)' = PortRead(n, v)
         /\ \A n, v : LocalRead(n, v)' = LocalRead(n, v)
         /\ \A n, c : ClientsRead(n, c)' = ClientsRead(n, c)
<1>1. /\ EOF' = EOF /\ LineStarts' = LineStarts
      /\ \A p : IsWord(p)' = IsWord(p) /\ Value(p)' = Value(p)
      /\ \A p : IsNumber(p)' = IsNumber(p)
  BY DEF EOF, LineStarts, IsWord, IsNumber, Value
<1>2. \A k : Lines(k)' = Lines(k)
  BY <1>1 DEF Lines
<1>3. \A p : LineEnd(p)' = LineEnd(p)
  BY <1>1 DEF LineEnd
<1>4. Tidy' = Tidy
  BY <1>1, <1>3 DEF Tidy, TidyLine
<1>5. \A k, n : Upto(k, n)' = Upto(k, n)
  BY <1>2 DEF Upto
<1>6. \A s : UserLines(s)' = UserLines(s)
  BY <1>1, <1>2 DEF UserLines
<1>7. \A s, n : UsersUpto(s, n)' = UsersUpto(s, n)
  BY <1>6 DEF UsersUpto
<1>8. /\ \A n : AtLine(n)' = AtLine(n)
      /\ \A n, v : PortRead(n, v)' = PortRead(n, v)
      /\ \A n, v : LocalRead(n, v)' = LocalRead(n, v)
      /\ \A n, c : ClientsRead(n, c)' = ClientsRead(n, c)
  BY <1>1, <1>5, <1>6, <1>7 DEF AtLine, PortRead, LocalRead, ClientsRead
<1>9. QED
  BY <1>1, <1>2, <1>4, <1>8

(***************************************************************************)
(* A turn at a tidy line finds the values behind the keyword, and leaves   *)
(* the file behind the line.                                               *)
(***************************************************************************)
LEMMA TidyTurn ==
  ASSUME TypeOK, Tidy, AtLine(pos), Scan(pos) # EOF
  PROVE  LET q == Scan(pos)
         IN  /\ q \in LineStarts
             /\ Behind(SkipLine(q + 1), pos)
             /\ IsWord(q + 1) =>
                  First = q + 1 /\ Behind(SkipLine(First + 1), pos)
             /\ IsWord(q + 1) /\ IsWord(q + 2) =>
                  Second = q + 2 /\ Behind(SkipLine(Second + 1), pos)
             /\ Keyword[file[q]] = "port" => IsNumber(q + 1)
             /\ Keyword[file[q]] = "local" => IsWord(q + 1)
             /\ Keyword[file[q]] = "user" => IsNumber(q + 1) /\ IsWord(q + 2)
<1> DEFINE q == Scan(pos)
<1>1. /\ EOF \in Nat \ {0} /\ pos \in 1 .. EOF
      /\ q \in LineStarts /\ q \in 1 .. EOF - 1 /\ q # EOF /\ IsWord(q)
      /\ Scan(pos) = q /\ First = Scan(q + 1)
  <2>1. EOF \in Nat \ {0} /\ pos \in 1 .. EOF
    BY Positions DEF TypeOK
  <2>2. q \in LineStarts
    BY <2>1, NextLine
  <2>3. q \in 1 .. EOF - 1 /\ IsWord(q)
    BY Values
  <2>4. QED
    BY <2>1, <2>2, <2>3 DEF First
<1> HIDE DEF q
<1>2. /\ LineEnd(q) \in q + 1 .. EOF /\ ~IsWord(LineEnd(q))
  BY <1>1, LineEndFacts
<1>3. \A p \in q + 1 .. LineEnd(q) : Behind(SkipLine(p), pos)
  BY <1>1, SkipsLine DEF Behind
<1>4. Behind(SkipLine(q + 1), pos)
  BY <1>1, <1>2, <1>3
<1>5. ASSUME IsWord(q + 1)
      PROVE  /\ First = q + 1 /\ q + 2 \in q + 1 .. LineEnd(q)
             /\ Behind(SkipLine(First + 1), pos)
  <2>1. First = q + 1
    BY <1>1, <1>5, ScanHere
  <2>2. LineEnd(q) # q + 1
    BY <1>2, <1>5
  <2>3. q + 2 \in q + 1 .. LineEnd(q)
    BY <1>1, <1>2, <2>2
  <2>4. First + 1 = q + 2
    BY <1>1, <2>1
  <2>5. QED
    BY <1>3, <2>1, <2>3, <2>4
<1>6. ASSUME IsWord(q + 1), IsWord(q + 2)
      PROVE  Second = q + 2 /\ Behind(SkipLine(Second + 1), pos)
  <2>1. First + 1 = q + 2 /\ q + 2 \in 1 .. EOF
    BY <1>1, <1>2, <1>5, <1>6
  <2>2. Second = q + 2
    BY <1>6, <2>1, ScanHere DEF Second
  <2>3. LineEnd(q) # q + 2
    BY <1>2, <1>6
  <2>4. q + 3 \in q + 1 .. LineEnd(q) /\ Second + 1 = q + 3
    BY <1>1, <1>2, <1>5, <1>6, <2>2, <2>3
  <2>5. QED
    BY <1>3, <2>2, <2>4
<1>7. /\ Keyword[file[q]] = "port" => IsNumber(q + 1)
      /\ Keyword[file[q]] = "local" => IsWord(q + 1)
      /\ Keyword[file[q]] = "user" => IsNumber(q + 1) /\ IsWord(q + 2)
  BY <1>1 DEF Tidy, TidyLine
<1>8. QED
  BY <1>1, <1>4, <1>5, <1>6, <1>7 DEF q

LEMMA InitEstablishes == Init => IInv
<1> SUFFICES ASSUME Init
             PROVE  IInv
  OBVIOUS
<1>1. file \in Seq(Word \cup {NL}) /\ Len(file) \in Nat
  BY FileAssumption DEF Init
<1>2. EOF \in Nat \ {0} /\ EOF = Len(file) + 1
  BY <1>1 DEF EOF
<1>3. TypeOK
  BY <1>1, <1>2, RangeAssumption DEF Init, TypeOK
<1>4. AtLine(1)
  <2>1. EOF = 1 \/ 1 \in 1 .. Len(file)
    BY <1>2
  <2>2. QED
    BY <2>1 DEF AtLine, LineStarts
<1>5. \A k : Upto(k, 1) = {}
  BY <1>1 DEF Upto, Lines, LineStarts
<1>6. \A s : UsersUpto(s, 1) = {}
  BY <1>1 DEF UsersUpto, UserLines, Lines, LineStarts
<1>7. InServer
  BY <1>4, <1>5, <1>6 DEF Init, InServer, PortRead, LocalRead, ClientsRead
<1>8. QED
  BY <1>3, <1>7 DEF Init, IInv, ReadsSoFar

-----------------------------------------------------------------------------
LEMMA StepType ==
  ASSUME TypeOK, Next
  PROVE  TypeOK' /\ file' = file
<1>1. /\ EOF \in Nat \ {0} /\ pos \in 1 .. EOF
      /\ PortRange \in Nat \ {0}
  BY Positions, RangeAssumption DEF TypeOK
<1>2. file' = file /\ EOF' = EOF
  BY DEF Next, PortLine, LocalLine, OtherLine, ServerRead, UserUnnumbered,
         UserOutside, UserAgain, UserAdded, UsersRead, EOF
<1>3. \A n \in Int : n % PortRange \in 0 .. PortRange - 1
  BY <1>1
<1>4. ASSUME Scan(pos) # EOF
      PROVE  /\ Scan(pos) + 1 \in 1 .. EOF + 1
             /\ First \in 1 .. EOF + 1 /\ First + 1 \in 1 .. EOF + 1
             /\ IsNumber(First) => Second + 1 \in 1 .. EOF + 1
             /\ IsNumber(First) => Value(First) \in Int
             /\ Inet[file[IF First = EOF THEN Scan(pos) ELSE First]] \in Int
  <2>1. /\ Scan(pos) \in 1 .. EOF - 1 /\ file[Scan(pos)] \in Word
        /\ First \in 1 .. EOF
        /\ First # EOF => file[First] \in Word
        /\ IsNumber(First) => Second \in 1 .. EOF
    BY <1>4, Values
  <2>2. IsNumber(First) => Value(First) \in Int
    BY WordAssumption DEF IsNumber, Value
  <2>3. QED
    BY <1>1, <2>1, <2>2, WordAssumption
<1>5. ASSUME NEW p \in 1 .. EOF + 1
      PROVE  SkipLine(p) \in 1 .. EOF
  BY SkipFacts
<1>6. CASE PortLine
  <2>1. Scan(pos) # EOF
    BY <1>6 DEF PortLine, Reads
  <2>2. pos' \in 1 .. EOF
    BY <1>4, <1>5, <1>6, <2>1 DEF PortLine
  <2>3. port' \in 0 .. PortRange - 1
    BY <1>3, <1>4, <1>6, <2>1 DEF PortLine, TypeOK
  <2>4. QED
    BY <1>2, <1>6, <2>2, <2>3 DEF PortLine, TypeOK
<1>7. CASE LocalLine
  <2>1. Scan(pos) # EOF
    BY <1>7 DEF LocalLine, Reads
  <2>2. pos' \in 1 .. EOF /\ local' \in Int
    BY <1>4, <1>5, <1>7, <2>1 DEF LocalLine
  <2>3. QED
    BY <1>2, <1>7, <2>2 DEF LocalLine, TypeOK
<1>8. CASE OtherLine
  <2>1. Scan(pos) # EOF
    BY <1>8 DEF OtherLine, Reads
  <2>2. pos' \in 1 .. EOF
    BY <1>4, <1>5, <1>8, <2>1 DEF OtherLine
  <2>3. QED
    BY <1>2, <1>8, <2>2 DEF OtherLine, TypeOK
<1>9. CASE ServerRead
  BY <1>1, <1>2, <1>9 DEF ServerRead, TypeOK, Ends
<1>10. CASE UserUnnumbered
  <2>1. Scan(pos) # EOF
    BY <1>10 DEF UserUnnumbered, Reads
  <2>2. pos' \in 1 .. EOF
    BY <1>4, <1>5, <1>10, <2>1 DEF UserUnnumbered
  <2>3. QED
    BY <1>2, <1>10, <2>2 DEF UserUnnumbered, TypeOK
<1>11. CASE UserOutside
  BY <1>2, <1>11 DEF UserOutside, TypeOK, Ends
<1>12. CASE UserAgain
  <2>1. Scan(pos) # EOF
    BY <1>12 DEF UserAgain, Reads
  <2>2. pos' \in 1 .. EOF
    BY <1>4, <1>5, <1>12, <2>1 DEF UserAgain
  <2>3. QED
    BY <1>2, <1>12, <2>2 DEF UserAgain, TypeOK
<1>13. CASE UserAdded
  <2>1. Scan(pos) # EOF /\ IsNumber(First)
    BY <1>13 DEF UserAdded, Reads
  <2>2. pos' \in 1 .. EOF
    BY <1>4, <1>5, <1>13, <2>1 DEF UserAdded
  <2>3. Second # EOF => file[Second] \in Word
    BY <2>1, Values
  <2>4. clients' \in [Slots -> Word \cup {NULL}]
    BY <1>13, <2>3 DEF UserAdded, TypeOK
  <2>5. QED
    BY <1>2, <1>13, <2>2, <2>4 DEF UserAdded, TypeOK
<1>14. CASE UsersRead
  BY <1>2, <1>14 DEF UsersRead, TypeOK, Ends
<1>15. QED
  BY <1>2, <1>6, <1>7, <1>8, <1>9, <1>10, <1>11, <1>12, <1>13, <1>14 DEF Next

(***************************************************************************)
(* A turn leaves the file at the start of a line or at its end.            *)
(***************************************************************************)
LEMMA TurnsServer ==
  ASSUME ReadsSoFar, pass = "server", file' = file, pass' = pass,
         clients' = clients, AtLine(pos'),
         PortRead(pos', port'), LocalRead(pos', local')
  PROVE  ReadsSoFar'
<1>1. ClientsRead(1, clients)
  BY DEF ReadsSoFar, InServer
<1>2. InServer'
  BY <1>1, FileStays DEF InServer
<1>3. QED
  BY <1>2 DEF ReadsSoFar

LEMMA TurnsUsers ==
  ASSUME ReadsSoFar, pass = "users", file' = file, pass' = pass,
         port' = port, local' = local, AtLine(pos'),
         ClientsRead(pos', clients')
  PROVE  ReadsSoFar'
<1>1. ServerDone
  BY DEF ReadsSoFar
<1>2. ServerDone'
  BY <1>1, FileStays DEF ServerDone
<1>3. InUsers'
  BY FileStays DEF InUsers
<1>4. QED
  BY <1>2, <1>3 DEF ReadsSoFar

(***************************************************************************)
(* The first reading keeps the last port and address.                      *)
(***************************************************************************)
LEMMA ServerLines ==
  ASSUME TypeOK, Tidy, ReadsSoFar, pass = "server",
         PortLine \/ LocalLine \/ OtherLine
  PROVE  ReadsSoFar'
<1> DEFINE q == Scan(pos)
<1>1. /\ AtLine(pos) /\ PortRead(pos, port) /\ LocalRead(pos, local)
      /\ q # EOF /\ Scan(pos) = q
      /\ file' = file /\ pass' = pass /\ clients' = clients
  BY DEF ReadsSoFar, InServer, PortLine, LocalLine, OtherLine, Reads
<1>2. /\ Behind(SkipLine(q + 1), pos)
      /\ IsWord(q + 1) => First = q + 1 /\ Behind(SkipLine(First + 1), pos)
      /\ Keyword[file[q]] = "port" => IsNumber(q + 1)
      /\ Keyword[file[q]] = "local" => IsWord(q + 1)
  BY <1>1, TidyTurn
<1>3. ~IsWord(EOF)
  BY Positions
<1> HIDE DEF q
<1>4. CASE PortLine
  <2>1. Keyword[file[q]] = "port"
    BY <1>1, <1>4 DEF PortLine, Reads
  <2>2. /\ IsNumber(First) /\ First = q + 1
        /\ Behind(SkipLine(First + 1), pos)
    BY <1>2, <2>1 DEF IsNumber
  <2>3. /\ pos' = SkipLine(First + 1) /\ local' = local
        /\ port' = Value(q + 1) % PortRange
    BY <1>4, <2>2 DEF PortLine
  <2>4. PortRead(pos', port') /\ LocalRead(pos', local')
    BY <1>1, <2>1, <2>2, <2>3, PortStep, LocalStep
  <2>5. QED
    BY <1>1, <2>2, <2>3, <2>4, TurnsServer DEF Behind
<1>5. CASE LocalLine
  <2>1. Keyword[file[q]] = "local"
    BY <1>1, <1>5 DEF LocalLine, Reads
  <2>2. /\ First = q + 1 /\ First # EOF
        /\ Behind(SkipLine(First + 1), pos)
    BY <1>2, <1>3, <2>1
  <2>3. /\ pos' = SkipLine(First + 1) /\ port' = port
        /\ local' = Inet[file[q + 1]]
    BY <1>5, <2>2 DEF LocalLine
  <2>4. PortRead(pos', port') /\ LocalRead(pos', local')
    BY <1>1, <2>1, <2>2, <2>3, PortStep, LocalStep
  <2>5. QED
    BY <1>1, <2>2, <2>3, <2>4, TurnsServer DEF Behind
<1>6. CASE OtherLine
  <2>1. Keyword[file[q]] \notin {"port", "local"}
    BY <1>1, <1>6 DEF OtherLine, Reads
  <2>2. pos' = SkipLine(q + 1) /\ port' = port /\ local' = local
    BY <1>1, <1>6 DEF OtherLine
  <2>3. PortRead(pos', port') /\ LocalRead(pos', local')
    BY <1>1, <1>2, <2>1, <2>2, PortStep, LocalStep
  <2>4. QED
    BY <1>1, <1>2, <2>2, <2>3, TurnsServer DEF Behind
<1>7. QED
  BY <1>4, <1>5, <1>6

(***************************************************************************)
(* At the end of a reading all lines have been passed.                     *)
(***************************************************************************)
LEMMA AllRead ==
  ASSUME TypeOK, AtLine(pos), Ended
  PROVE  /\ \A v : PortRead(pos, v) => PortRead(EOF, v)
         /\ \A v : LocalRead(pos, v) => LocalRead(EOF, v)
         /\ \A c : ClientsRead(pos, c) => ClientsRead(EOF, c)
<1>1. pos \in 1 .. EOF /\ Scan(pos) = EOF
  BY DEF TypeOK, Ended
<1>2. \A p \in LineStarts : IsWord(p) => p < pos /\ p < EOF
  BY <1>1, PassesEnd
<1>3. \A k : Upto(k, EOF) = Upto(k, pos)
  BY <1>2 DEF Upto, Lines
<1>4. \A s : UsersUpto(s, EOF) = UsersUpto(s, pos)
  BY <1>2 DEF UsersUpto, UserLines, Lines
<1>5. QED
  BY <1>3, <1>4 DEF PortRead, LocalRead, ClientsRead

LEMMA ServerEnds ==
  ASSUME TypeOK, Tidy, ReadsSoFar, ServerRead
  PROVE  ReadsSoFar'
<1>1. /\ AtLine(pos) /\ PortRead(pos, port) /\ LocalRead(pos, local)
      /\ ClientsRead(1, clients) /\ Ended
      /\ pass' = IF port = 0 \/ local = 0 THEN "failed" ELSE "users"
      /\ pos' = 1 /\ UNCHANGED <<file, port, local, clients>>
  BY DEF ReadsSoFar, InServer, ServerRead
<1>2. PortRead(EOF, port) /\ LocalRead(EOF, local)
  BY <1>1, AllRead
<1>3. ServerDone'
  BY <1>1, <1>2, FileStays DEF ServerDone
<1>4. AtLine(1)
  <2>1. Len(file) \in Nat /\ EOF = Len(file) + 1
    BY Positions
  <2>2. EOF = 1 \/ 1 \in 1 .. Len(file)
    BY <2>1
  <2>3. QED
    BY <2>2 DEF AtLine, LineStarts
<1>5. InUsers'
  BY <1>1, <1>4, FileStays DEF InUsers
<1>6. QED
  BY <1>1, <1>3, <1>5 DEF ReadsSoFar

(***************************************************************************)
(* The second reading keeps the first password of each user.               *)
(***************************************************************************)
LEMMA UsersLines ==
  ASSUME TypeOK, Tidy, ReadsSoFar, pass = "users",
         OtherLine \/ UserUnnumbered \/ UserAgain \/ UserAdded
  PROVE  ReadsSoFar'
<1> DEFINE q == Scan(pos)
<1>1. /\ AtLine(pos) /\ ClientsRead(pos, clients)
      /\ q # EOF /\ Scan(pos) = q
      /\ file' = file /\ pass' = pass /\ port' = port /\ local' = local
  BY DEF ReadsSoFar, InUsers, OtherLine, UserUnnumbered, UserAgain,
         UserAdded, Reads
<1>2. /\ Behind(SkipLine(q + 1), pos)
      /\ IsWord(q + 1) => First = q + 1 /\ Behind(SkipLine(First + 1), pos)
      /\ IsWord(q + 1) /\ IsWord(q + 2) =>
           Second = q + 2 /\ Behind(SkipLine(Second + 1), pos)
      /\ Keyword[file[q]] = "user" => IsNumber(q + 1) /\ IsWord(q + 2)
  BY <1>1, TidyTurn
<1>3. ~IsWord(EOF)
  BY Positions
<1>4. Keyword[file[q]] = "user" =>
        /\ IsNumber(First) /\ First = q + 1 /\ Value(First) = Value(q + 1)
        /\ Behind(SkipLine(First + 1), pos)
        /\ Second = q + 2 /\ Second # EOF
        /\ Behind(SkipLine(Second + 1), pos)
  BY <1>2, <1>3 DEF IsNumber
<1> HIDE DEF q
<1>5. CASE OtherLine
  <2>1. Keyword[file[q]] # "user"
    BY <1>1, <1>5 DEF OtherLine, Reads
  <2>2. pos' = SkipLine(q + 1) /\ clients' = clients
    BY <1>1, <1>5 DEF OtherLine
  <2>3. ClientsRead(pos', clients')
    BY <1>1, <1>2, <2>1, <2>2, ClientsStay
  <2>4. QED
    BY <1>1, <1>2, <2>2, <2>3, TurnsUsers DEF Behind
<1>6. CASE UserUnnumbered
  BY <1>1, <1>4, <1>6 DEF UserUnnumbered, Reads
<1>7. CASE UserAgain
  <2>1. /\ Keyword[file[q]] = "user"
        /\ pos' = SkipLine(First + 1) /\ clients' = clients
        /\ Value(First) \in Slots /\ clients[Value(First)] # NULL
    BY <1>1, <1>7 DEF UserAgain, Reads
  <2>2. ClientsRead(pos', clients')
    BY <1>1, <1>4, <2>1, ClientsStay
  <2>3. QED
    BY <1>1, <1>4, <2>1, <2>2, TurnsUsers DEF Behind
<1>8. CASE UserAdded
  <2>1. /\ Keyword[file[q]] = "user"
        /\ pos' = SkipLine(Second + 1)
        /\ Value(First) \in Slots /\ clients[Value(First)] = NULL
    BY <1>1, <1>8 DEF UserAdded, Reads
  <2>2. clients' = [clients EXCEPT ![Value(q + 1)] = file[q + 2]]
    BY <1>4, <1>8, <2>1 DEF UserAdded
  <2>3. ClientsRead(pos', clients')
    BY <1>1, <1>4, <2>1, <2>2, ClientsAdd
  <2>4. QED
    BY <1>1, <1>4, <2>1, <2>3, TurnsUsers DEF Behind
<1>9. QED
  BY <1>5, <1>6, <1>7, <1>8

LEMMA UsersEnd ==
  ASSUME TypeOK, Tidy, ReadsSoFar, UserOutside \/ UsersRead
  PROVE  ReadsSoFar'
<1>1. /\ AtLine(pos) /\ ClientsRead(pos, clients) /\ ServerDone
      /\ pass' \in {"wild", "ready"} /\ pass = "users"
      /\ UNCHANGED <<file, pos, port, local, clients>>
  BY DEF ReadsSoFar, InUsers, UserOutside, UsersRead
<1>2. ServerDone'
  BY <1>1, FileStays DEF ServerDone
<1>3. CASE UserOutside
  <2> DEFINE q == Scan(pos)
  <2>1. /\ q # EOF /\ Keyword[file[q]] = "user" /\ Scan(pos) = q
        /\ IsNumber(First) /\ Value(First) \notin Slots
        /\ pass' = "wild"
    BY <1>3 DEF UserOutside, Reads
  <2>2. /\ q \in LineStarts /\ IsWord(q) /\ IsNumber(q + 1)
        /\ IsWord(q + 1) => First = q + 1
    BY <1>1, <2>1, TidyTurn, Values
  <2> HIDE DEF q
  <2>3. q \in Lines("user") /\ Value(q + 1) \notin Slots
    BY <2>1, <2>2 DEF Lines, IsNumber
  <2>4. \E p \in Lines("user")' : Value(p + 1)' \notin Slots
    BY <1>1, <2>3, FileStays
  <2>5. QED
    BY <1>2, <2>1, <2>4 DEF ReadsSoFar
<1>4. CASE UsersRead
  <2>1. ClientsRead(EOF, clients) /\ pass' = "ready"
    BY <1>1, <1>4, AllRead DEF UsersRead
  <2>2. ClientsRead(EOF, clients)'
    BY <1>1, <2>1, FileStays
  <2>3. QED
    BY <1>2, <2>1, <2>2 DEF ReadsSoFar
<1>5. QED
  BY <1>3, <1>4

LEMMA NextKeeps == IInv /\ [Next]_vars => IInv'
<1> SUFFICES ASSUME IInv, [Next]_vars
             PROVE  IInv'
  OBVIOUS
<1>1. CASE Next
  <2>1. TypeOK' /\ file' = file
    BY <1>1, StepType DEF IInv
  <2>2. ASSUME Tidy'
        PROVE  ReadsSoFar'
    <3>1. TypeOK /\ Tidy /\ ReadsSoFar
      BY <2>1, <2>2, FileStays DEF IInv
    <3>2. CASE PortLine \/ LocalLine
      <4>1. pass = "server"
        BY <3>2 DEF PortLine, LocalLine
      <4>2. QED
        BY <3>1, <3>2, <4>1, ServerLines
    <3>3. CASE OtherLine
      <4>1. pass = "server" \/ pass = "users"
        BY <3>3 DEF OtherLine
      <4>2. QED
        BY <3>1, <3>3, <4>1, ServerLines, UsersLines
    <3>4. CASE ServerRead
      BY <3>1, <3>4, ServerEnds
    <3>5. CASE UserUnnumbered \/ UserAgain \/ UserAdded
      <4>1. pass = "users"
        BY <3>5 DEF UserUnnumbered, UserAgain, UserAdded
      <4>2. QED
        BY <3>1, <3>5, <4>1, UsersLines
    <3>6. CASE UserOutside \/ UsersRead
      BY <3>1, <3>6, UsersEnd
    <3>7. QED
      BY <1>1, <3>2, <3>3, <3>4, <3>5, <3>6 DEF Next
  <2>3. QED
    BY <2>1, <2>2 DEF IInv
<1>2. CASE UNCHANGED vars
  <2>1. file' = file /\ EOF' = EOF
    BY <1>2 DEF vars, EOF
  <2>2. TypeOK'
    BY <1>2, <2>1 DEF IInv, vars, TypeOK
  <2>3. Tidy' => Tidy
    BY <2>1, FileStays
  <2>4. Tidy => ReadsSoFar'
    BY <1>2, <2>1, FileStays
       DEF IInv, vars, ReadsSoFar, InServer, ServerDone, InUsers
  <2>5. QED
    BY <2>2, <2>3, <2>4 DEF IInv
<1>3. QED
  BY <1>1, <1>2

LEMMA Invariance == Spec => []IInv
BY InitEstablishes, NextKeeps, PTL DEF Spec

-----------------------------------------------------------------------------
(***************************************************************************)
(* Whatever the file holds, svpn_server.c:258-298 and 334-378 read it from *)
(* places in it, the port has the bits of %hd, and what gets into the      *)
(* table of users are words of the file.                                   *)
(***************************************************************************)
THEOREM TypeCorrect == Spec => []TypeOK
<1>1. IInv => TypeOK
  BY DEF IInv
<1>2. QED
  BY <1>1, Invariance, PTL

(***************************************************************************)
(* What is known at the end of the file is what the file says.             *)
(***************************************************************************)
LEMMA AllSaid ==
  ASSUME TypeOK
  PROVE  /\ \A v : PortRead(EOF, v) => v = SaidPort
         /\ \A v : LocalRead(EOF, v) => v = SaidLocal
         /\ ClientsRead(EOF, clients) => clients = SaidClients
<1>1. \A p \in LineStarts : p < EOF
  <2>1. Len(file) \in Nat /\ EOF = Len(file) + 1
    BY Positions
  <2>2. QED
    BY <2>1 DEF LineStarts
<1>2. \A k : Upto(k, EOF) = Lines(k)
  BY <1>1 DEF Upto, Lines
<1>3. \A s : UsersUpto(s, EOF) = UserLines(s)
  BY <1>1 DEF UsersUpto, UserLines, Lines
<1>4. /\ \A v : PortRead(EOF, v) => v = SaidPort
      /\ \A v : LocalRead(EOF, v) => v = SaidLocal
  BY <1>2 DEF PortRead, LocalRead, SaidPort, SaidLocal
<1>5. ASSUME ClientsRead(EOF, clients)
      PROVE  clients = SaidClients
  <2>1. clients \in [Slots -> Word \cup {NULL}]
    BY DEF TypeOK
  <2>2. \A s \in Slots : clients[s] = SaidClients[s]
    BY <1>3, <1>5 DEF ClientsRead, SaidClients
  <2>3. QED
    BY <2>1, <2>2 DEF SaidClients
<1>6. QED
  BY <1>4, <1>5

(***************************************************************************)
(* Every tidy file is read as its lines say, though svpn_server.c reads    *)
(* word by word, over line ends, and drops what fgets drops.               *)
(***************************************************************************)
THEOREM AlwaysReadsTidy == Spec => []ReadsTidy
<1>1. IInv => ReadsTidy
  <2> SUFFICES ASSUME IInv, Tidy, pass \in Ends
               PROVE  /\ port = SaidPort /\ local = SaidLocal
                      /\ pass = "failed" <=> (SaidPort = 0 \/ SaidLocal = 0)
                      /\ pass = "ready" => clients = SaidClients
                      /\ pass = "wild" => \E p \in Lines("user") :
                                            Value(p + 1) \notin Slots
    BY DEF ReadsTidy
  <2>1. TypeOK /\ ReadsSoFar /\ pass # "server"
    BY DEF IInv, Ends
  <2>2. ServerDone
    BY <2>1 DEF ReadsSoFar
  <2>3. port = SaidPort /\ local = SaidLocal
    BY <2>1, <2>2, AllSaid DEF ServerDone
  <2>4. pass = "ready" => clients = SaidClients
    BY <2>1, AllSaid DEF ReadsSoFar
  <2>5. QED
    BY <2>1, <2>2, <2>3, <2>4 DEF ServerDone, ReadsSoFar
<1>2. QED
  BY <1>1, Invariance, PTL

(***************************************************************************)
(* No line of any file, tidy or not, replaces a user who has been given a  *)
(* password (svpn_server.c:356-360).                                       *)
(***************************************************************************)
THEOREM AlwaysKeepsUsers == Spec => KeepsUsers
<1>1. ASSUME IInv, [Next]_vars, NEW s \in Slots, clients[s] # NULL
      PROVE  clients'[s] = clients[s]
  <2>1. CASE clients' = clients
    BY <2>1
  <2>2. CASE UserAdded
    <3>1. /\ clients \in [Slots -> Word \cup {NULL}]
          /\ clients[Value(First)] = NULL
          /\ \/ clients' = clients
             \/ clients' = [clients EXCEPT ![Value(First)] = file[Second]]
      BY <1>1, <2>2 DEF IInv, TypeOK, UserAdded
    <3>2. QED
      BY <1>1, <3>1
  <2>3. QED
    BY <1>1, <2>1, <2>2
       DEF Next, vars, PortLine, LocalLine, OtherLine, ServerRead,
           UserUnnumbered, UserOutside, UserAgain, UsersRead
<1>2. IInv /\ [Next]_vars =>
        \A s \in Slots : clients[s] # NULL => clients'[s] = clients[s]
  BY <1>1
<1>3. QED
  BY <1>2, Invariance, PTL DEF Spec, KeepsUsers

(***************************************************************************)
(* No step looks at a word twice: where a reading goes on, what it scans   *)
(* next is behind the words it has taken and their line.                   *)
(***************************************************************************)
LEMMA ReadsOn ==
  ASSUME IInv, Next, pass' = pass
  PROVE  pos < pos'
<1>1. /\ TypeOK /\ EOF \in Nat \ {0} /\ pos \in 1 .. EOF
      /\ Line \in Nat \ {0}
  BY Positions, RangeAssumption DEF IInv, TypeOK
<1>2. /\ Scan(pos) # EOF
      /\ \/ pos' = SkipLine(Scan(pos) + 1)
         \/ pos' = SkipLine(First) \/ pos' = SkipLine(First + 1)
         \/ IsNumber(First) /\ pos' = SkipLine(Second + 1)
  <2>1. CASE PortLine \/ LocalLine
    BY <2>1 DEF PortLine, LocalLine, Reads, IsNumber, IsWord
  <2>2. CASE OtherLine
    BY <2>2 DEF OtherLine, Reads
  <2>3. CASE UserUnnumbered \/ UserAgain
    BY <2>3 DEF UserUnnumbered, UserAgain, Reads
  <2>4. CASE UserAdded
    BY <2>4 DEF UserAdded, Reads
  <2>5. CASE ServerRead \/ UserOutside \/ UsersRead
    BY <2>5 DEF ServerRead, UserOutside, UsersRead
  <2>6. QED
    BY <2>1, <2>2, <2>3, <2>4, <2>5 DEF Next
<1>4. /\ Scan(pos) \in pos .. EOF - 1
      /\ First \in Scan(pos) + 1 .. EOF
      /\ IsNumber(First) => Second \in First + 1 .. EOF
  <2>1. Scan(pos) \in pos .. EOF - 1
    BY <1>1, <1>2, ScanFacts
  <2>2. Scan(pos) + 1 \in 1 .. EOF
    BY <1>1, <2>1
  <2>3. First \in Scan(pos) + 1 .. EOF
    BY <1>1, <2>2, ScanFacts DEF First
  <2>4. ASSUME IsNumber(First)
        PROVE  Second \in First + 1 .. EOF
    <3>1. First < EOF
      BY <2>4 DEF IsNumber, IsWord
    <3>2. First + 1 \in 1 .. EOF
      BY <1>1, <2>1, <2>3, <3>1
    <3>3. QED
      BY <1>1, <3>2, ScanFacts DEF Second
  <2>5. QED
    BY <2>1, <2>3, <2>4
<1>5. PICK p \in pos + 1 .. EOF + 1 : pos' = SkipLine(p)
  <2>1. /\ Scan(pos) + 1 \in pos + 1 .. EOF + 1
        /\ First \in pos + 1 .. EOF + 1 /\ First + 1 \in pos + 1 .. EOF + 1
        /\ IsNumber(First) => Second + 1 \in pos + 1 .. EOF + 1
    BY <1>1, <1>4
  <2>2. QED
    BY <1>2, <2>1
<1>6. \A n \in Stops(p) : n \in Nat /\ pos < n
  <2> SUFFICES ASSUME NEW n \in Stops(p)
               PROVE  n \in Nat /\ pos < n
    OBVIOUS
  <2>1. CASE n = EOF \/ n = p + Line
    BY <1>1, <1>4, <1>5, <2>1
  <2>2. CASE \E q \in p .. EOF - 1 : n = q + 1
    BY <1>1, <1>5, <2>2
  <2>3. QED
    BY <2>1, <2>2 DEF Stops
<1>7. p \in 1 .. EOF + 1
  BY <1>1, <1>5
<1>8. SkipLine(p) = Min(Stops(p)) /\ Stops(p) \in SUBSET Nat
  BY <1>1, <1>7, SkipFacts
<1>9. Min(Stops(p)) \in Stops(p)
  BY <1>8, MinIsIn DEF Stops
<1>10. QED
  BY <1>5, <1>6, <1>8, <1>9

(***************************************************************************)
(* A step that does not end a reading takes it further in the file, also   *)
(* where a value is missing or a line is longer than the buffer of fgets:  *)
(* svpn_server.c:268-296 and 344-375 never look at a word twice.           *)
(***************************************************************************)
THEOREM AlwaysReadsOn == Spec => [][pass' = pass => pos < pos']_vars
<1>1. IInv /\ Next => (pass' = pass => pos < pos')
  BY ReadsOn
<1>2. QED
  BY <1>1, Invariance, PTL DEF Spec

(***************************************************************************)
(* What is left to be read, at most: the rest of this reading and, in the  *)
(* first, all of the second.                                               *)
(***************************************************************************)
Left ==
  IF pass = "server" THEN 2 * EOF + 2 - pos
  ELSE IF pass = "users" THEN EOF + 1 - pos ELSE 0

(***************************************************************************)
(* Both readings come to an end in any file, whatever its lines are like   *)
(* and wherever fgets stops in them: a number that no file lets start      *)
(* above 2 * EOF + 1 gets less with every turn of svpn_server.c:268-296    *)
(* and 344-375, and is 0 only when the readings are over.                  *)
(***************************************************************************)
CountsDown ==
  /\ [](Left \in 0 .. 2 * EOF + 1 /\ (Left = 0 <=> pass \in Ends))
  /\ [][Left' < Left]_vars

THEOREM ReadingCountsDown == Spec => CountsDown
<1>1. ASSUME IInv
      PROVE  Left \in 0 .. 2 * EOF + 1 /\ (Left = 0 <=> pass \in Ends)
  <2>1. /\ EOF \in Nat \ {0} /\ pos \in 1 .. EOF
        /\ pass \in {"server", "users"} \cup Ends
    BY <1>1, Positions DEF IInv, TypeOK
  <2>2. "server" \notin Ends /\ "users" \notin Ends
    BY DEF Ends
  <2>3. QED
    BY <2>1, <2>2 DEF Left
<1>2. ASSUME IInv, Next
      PROVE  Left' < Left
  <2>1. /\ EOF \in Nat \ {0} /\ pos \in 1 .. EOF
        /\ pass \in {"server", "users"} \cup Ends
    BY <1>2, Positions DEF IInv, TypeOK
  <2>2. EOF' = EOF /\ TypeOK'
    <3>1. file' = file
      BY <1>2
         DEF Next, PortLine, LocalLine, OtherLine, ServerRead, UserUnnumbered,
             UserOutside, UserAgain, UserAdded, UsersRead
    <3>2. IInv'
      BY <1>2, NextKeeps
    <3>3. QED
      BY <3>1, <3>2, FileStays DEF IInv
  <2>3. pos' \in 1 .. EOF
    BY <2>2 DEF TypeOK
  <2>4. "server" \notin Ends /\ "users" \notin Ends
    BY DEF Ends
  <2>5. /\ Left = IF pass = "server" THEN 2 * EOF + 2 - pos
                   ELSE IF pass = "users" THEN EOF + 1 - pos ELSE 0
        /\ Left' = IF pass' = "server" THEN 2 * EOF + 2 - pos'
                    ELSE IF pass' = "users" THEN EOF + 1 - pos' ELSE 0
    BY <2>2 DEF Left
  <2>6. CASE pass' = pass
    <3>1. pos < pos'
      BY <1>2, <2>6, ReadsOn
    <3>2. pass \in {"server", "users"}
      BY <1>2
         DEF Next, PortLine, LocalLine, OtherLine, ServerRead, UserUnnumbered,
             UserOutside, UserAgain, UserAdded, UsersRead
    <3>3. \A e, p, q \in Int :
            p < q => 2 * e + 2 - q < 2 * e + 2 - p /\ e + 1 - q < e + 1 - p
      OBVIOUS
    <3>4. EOF \in Int /\ pos \in Int /\ pos' \in Int
      BY <2>1, <2>3
    <3>5. QED
      BY <2>5, <2>6, <3>1, <3>2, <3>3, <3>4
  <2>7. CASE pass' # pass
    <3>1. \/ pass = "server" /\ pass' \in {"users", "failed"}
          \/ pass = "users" /\ pass' \in Ends
      BY <1>2, <2>7
         DEF Next, PortLine, LocalLine, OtherLine, ServerRead, UserUnnumbered,
             UserOutside, UserAgain, UserAdded, UsersRead, Ends
    <3>2. \A e \in Nat \ {0} : \A p, q \in 1 .. e :
            /\ e + 1 - q < 2 * e + 2 - p /\ 0 < 2 * e + 2 - p
            /\ 0 < e + 1 - p
      OBVIOUS
    <3>3. "users" # "server" /\ "failed" \in Ends
      BY DEF Ends
    <3>4. QED
      BY <2>1, <2>3, <2>4, <2>5, <3>1, <3>2, <3>3
  <2>8. QED
    BY <2>6, <2>7
<1>3. QED
  BY <1>1, <1>2, Invariance, PTL DEF Spec, CountsDown

-----------------------------------------------------------------------------
(***************************************************************************)
(* The second reading has only passed users with a slot: the first line of *)
(* another number ends it.                                                 *)
(***************************************************************************)
HasSlot(p) == Value(p + 1) \in Slots

SlotsUpto(n) == \A p \in Upto("user", n) : HasSlot(p)

PassedHaveSlots ==
  Tidy =>
    /\ pass = "users" => SlotsUpto(pos)
    /\ pass = "ready" => \A p \in Lines("user") : HasSlot(p)

LEMMA SlotsStay ==
  ASSUME file' = file
  PROVE  /\ \A n : SlotsUpto(n)' = SlotsUpto(n)
         /\ (\A p \in Lines("user") : HasSlot(p))'
              = \A p \in Lines("user") : HasSlot(p)
<1>1. Lines("user")' = Lines("user") /\ \A p : HasSlot(p)' = HasSlot(p)
  BY FileStays DEF HasSlot
<1>2. \A n : Upto("user", n)' = Upto("user", n)
  BY <1>1 DEF Upto
<1>3. QED
  BY <1>1, <1>2 DEF SlotsUpto

LEMMA SlotsStep ==
  ASSUME TypeOK, NEW n, NEW m, Behind(m, n), SlotsUpto(n),
         Keyword[file[Scan(n)]] # "user" \/ HasSlot(Scan(n))
  PROVE  SlotsUpto(m)
BY Passes DEF Upto, Lines, SlotsUpto

LEMMA SlotsAll ==
  ASSUME TypeOK, AtLine(pos), Ended, SlotsUpto(pos)
  PROVE  \A p \in Lines("user") : HasSlot(p)
<1>1. \A p \in LineStarts : IsWord(p) => p < pos
  BY PassesEnd DEF TypeOK, Ended
<1>2. QED
  BY <1>1 DEF Upto, Lines, SlotsUpto

LEMMA SlotsLines ==
  ASSUME TypeOK, Tidy, AtLine(pos), SlotsUpto(pos), pass = "users",
         OtherLine \/ UserUnnumbered \/ UserAgain \/ UserAdded
  PROVE  SlotsUpto(pos')
<1> DEFINE q == Scan(pos)
<1>1. q # EOF /\ Scan(pos) = q
  BY DEF OtherLine, UserUnnumbered, UserAgain, UserAdded, Reads
<1>2. /\ Behind(SkipLine(q + 1), pos)
      /\ IsWord(q + 1) => First = q + 1 /\ Behind(SkipLine(First + 1), pos)
      /\ IsWord(q + 1) /\ IsWord(q + 2) => Behind(SkipLine(Second + 1), pos)
      /\ Keyword[file[q]] = "user" => IsNumber(q + 1) /\ IsWord(q + 2)
  BY <1>1, TidyTurn
<1> HIDE DEF q
<1>3. Keyword[file[q]] = "user" =>
        /\ IsNumber(First) /\ Value(First) = Value(q + 1)
        /\ Behind(SkipLine(First + 1), pos)
        /\ Behind(SkipLine(Second + 1), pos)
  BY <1>2 DEF IsNumber
<1>4. CASE OtherLine
  <2>1. Keyword[file[q]] # "user" /\ pos' = SkipLine(q + 1)
    BY <1>1, <1>4 DEF OtherLine, Reads
  <2>2. QED
    BY <1>1, <1>2, <2>1, SlotsStep
<1>5. CASE UserUnnumbered
  BY <1>1, <1>3, <1>5 DEF UserUnnumbered, Reads
<1>6. CASE UserAgain \/ UserAdded
  <2>1. /\ Keyword[file[q]] = "user" /\ Value(First) \in Slots
        /\ pos' = SkipLine(First + 1) \/ pos' = SkipLine(Second + 1)
    BY <1>1, <1>6 DEF UserAgain, UserAdded, Reads
  <2>2. HasSlot(q)
    BY <1>3, <2>1 DEF HasSlot
  <2>3. QED
    BY <1>1, <1>3, <2>1, <2>2, SlotsStep
<1>7. QED
  BY <1>4, <1>5, <1>6

LEMMA SlotsKeep == IInv /\ PassedHaveSlots /\ [Next]_vars => PassedHaveSlots'
<1> SUFFICES ASSUME IInv, PassedHaveSlots, [Next]_vars, Tidy'
             PROVE  /\ pass' = "users" => SlotsUpto(pos)'
                    /\ pass' = "ready" => (\A p \in Lines("user") : HasSlot(p))'
  BY DEF PassedHaveSlots
<1>1. file' = file /\ TypeOK
  BY StepType DEF IInv, vars
<1>2. /\ Tidy /\ ReadsSoFar
      /\ \A n : SlotsUpto(n)' = SlotsUpto(n)
      /\ (\A p \in Lines("user") : HasSlot(p))'
           = \A p \in Lines("user") : HasSlot(p)
  BY <1>1, FileStays, SlotsStay DEF IInv
<1>3. SUFFICES /\ pass' = "users" => SlotsUpto(pos')
               /\ pass' = "ready" => \A p \in Lines("user") : HasSlot(p)
  <2>1. pass' = "users" => (SlotsUpto(pos') => SlotsUpto(pos)')
    BY <1>1, FileStays DEF SlotsUpto, Upto, HasSlot
  <2>2. QED
    BY <1>2, <2>1
<1>4. pass = "users" => AtLine(pos) /\ SlotsUpto(pos)
  BY <1>2 DEF ReadsSoFar, InUsers, PassedHaveSlots
<1>5. pass = "ready" => \A p \in Lines("user") : HasSlot(p)
  BY <1>2 DEF PassedHaveSlots
<1>6. CASE pass' = pass /\ pass = "users" /\ Next
  <2>1. OtherLine \/ UserUnnumbered \/ UserAgain \/ UserAdded
    BY <1>6 DEF Next, PortLine, LocalLine, ServerRead, UserOutside, UsersRead
  <2>2. QED
    BY <1>1, <1>2, <1>4, <1>6, <2>1, SlotsLines
<1>7. CASE pass' = pass /\ (pass # "users" \/ UNCHANGED vars)
  BY <1>4, <1>5, <1>7 DEF vars
<1>8. CASE ServerRead
  <2>1. \A p \in Upto("user", 1) : FALSE
    BY <1>1 DEF Upto, Lines, LineStarts, TypeOK
  <2>2. QED
    BY <1>8, <2>1 DEF ServerRead, SlotsUpto
<1>9. CASE UsersRead
  BY <1>1, <1>4, <1>9, SlotsAll DEF UsersRead
<1>10. CASE UserOutside
  BY <1>10 DEF UserOutside
<1>11. QED
  BY <1>6, <1>7, <1>8, <1>9, <1>10
     DEF Next, vars, PortLine, LocalLine, OtherLine, UserUnnumbered,
         UserAgain, UserAdded

LEMMA SlotsInvariance == Spec => []PassedHaveSlots
<1>1. Init => PassedHaveSlots
  BY DEF Init, PassedHaveSlots
<1>2. QED
  BY <1>1, Invariance, SlotsKeep, PTL DEF Spec

(***************************************************************************)
(* What becomes of a tidy file, in its own words: svpn_server.c:298 gives  *)
(* up for want of a port or an address, and of the others line 356 leaves  *)
(* the array of users exactly for those that have a line for a user with   *)
(* no place in it; all the others are served.                              *)
(***************************************************************************)
EndsAsSaid ==
  Tidy /\ pass \in Ends =>
    /\ pass = "failed" <=> (SaidPort = 0 \/ SaidLocal = 0)
    /\ pass = "wild" <=> /\ SaidPort # 0 /\ SaidLocal # 0
                         /\ \E p \in Lines("user") : ~HasSlot(p)

THEOREM AlwaysEndsAsSaid == Spec => []EndsAsSaid
<1>1. IInv /\ PassedHaveSlots => EndsAsSaid
  <2> SUFFICES ASSUME IInv, PassedHaveSlots, Tidy, pass \in Ends
               PROVE  /\ pass = "failed" <=> (SaidPort = 0 \/ SaidLocal = 0)
                      /\ pass = "wild" <=>
                           /\ SaidPort # 0 /\ SaidLocal # 0
                           /\ \E p \in Lines("user") : ~HasSlot(p)
    BY DEF EndsAsSaid
  <2>1. TypeOK /\ ReadsSoFar /\ pass \in {"ready", "failed", "wild"}
    BY DEF IInv, Ends
  <2>2. ServerDone
    BY <2>1 DEF ReadsSoFar
  <2>3. pass = "failed" <=> (SaidPort = 0 \/ SaidLocal = 0)
    BY <2>1, <2>2, AllSaid DEF ServerDone
  <2>4. pass = "wild" => \E p \in Lines("user") : ~HasSlot(p)
    BY <2>1 DEF ReadsSoFar, HasSlot
  <2>5. pass = "ready" => \A p \in Lines("user") : HasSlot(p)
    BY DEF PassedHaveSlots
  <2>6. QED
    BY <2>1, <2>3, <2>4, <2>5
<1>2. QED
  BY <1>1, Invariance, SlotsInvariance, PTL

(***************************************************************************)
(* A tidy file is served with user numbers outside of the range README.md  *)
(* gives exactly if it says such numbers itself: the code adds none, but   *)
(* svpn_server.c:354-356 refuses none either.                              *)
(***************************************************************************)
SaysDocumentedIds ==
  \A p \in Lines("user") : Value(p + 1) \in MinId .. MaxId

THEOREM IdsAreWhatIsSaid ==
  Spec => [](Tidy /\ pass = "ready" => (DocumentedIds <=> SaysDocumentedIds))
<1>1. ASSUME IInv, PassedHaveSlots, Tidy, pass = "ready"
      PROVE  DocumentedIds <=> SaysDocumentedIds
  <2>1. TypeOK /\ clients = SaidClients
    BY <1>1, AllSaid DEF IInv, ReadsSoFar
  <2>2. ASSUME NEW p \in Lines("user")
        PROVE  /\ Value(p + 1) \in Slots
               /\ UserLines(Value(p + 1)) # {}
    BY <1>1, <2>2 DEF PassedHaveSlots, HasSlot, UserLines
  <2>3. ASSUME NEW s \in Slots
        PROVE  clients[s] # NULL <=> UserLines(s) # {}
    <3>1. CASE UserLines(s) = {}
      BY <2>1, <3>1 DEF SaidClients
    <3>2. CASE UserLines(s) # {}
      <4> DEFINE p == Min(UserLines(s))
      <4>1. p \in UserLines(s)
        BY <3>2, UptoNats, MinIsIn
      <4> HIDE DEF p
      <4>2. p \in LineStarts /\ IsWord(p) /\ Keyword[file[p]] = "user"
        BY <4>1 DEF UserLines, Lines
      <4>3. p + 2 \in Nat \ {0} /\ IsWord(p + 2)
        BY <1>1, <4>2 DEF Tidy, TidyLine, LineStarts
      <4>4. file[p + 2] \in Word
        BY <2>1, <4>3, Positions
      <4>5. clients[s] = file[p + 2]
        BY <2>1, <3>2 DEF SaidClients, p
      <4>6. QED
        BY <3>2, <4>4, <4>5, FileAssumption
    <3>3. QED
      BY <3>1, <3>2
  <2>4. ASSUME NEW s \in Slots, UserLines(s) # {}
        PROVE  \E p \in Lines("user") : Value(p + 1) = s
    BY <2>4 DEF UserLines
  <2>5. QED
    BY <1>1, <2>2, <2>3, <2>4 DEF DocumentedIds, SaysDocumentedIds
<1>2. IInv /\ PassedHaveSlots =>
        (Tidy /\ pass = "ready" => (DocumentedIds <=> SaysDocumentedIds))
  BY <1>1
<1>3. QED
  BY <1>2, Invariance, SlotsInvariance, PTL
=============================================================================
