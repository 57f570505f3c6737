---------------------------- MODULE ServerConfig ----------------------------
(***************************************************************************)
(* How the server reads its configuration: svpn_server_init and            *)
(* svpn_server_init_client (src/server/svpn_server.c) read the same file   *)
(* one after the other, the first for the port and the address, the second *)
(* for the users.                                                          *)
(*                                                                         *)
(* Both take the next word of the file as a keyword, wherever it is; read  *)
(* the values that belong to it, which may be on later lines, since fscanf *)
(* skips line ends before a value; and then have fgets drop what is left   *)
(* of the line, but no more than its buffer holds.                         *)
(*                                                                         *)
(* A file is a sequence of words and line ends.  The buffer of fgets is    *)
(* counted in these, not in characters.  A word is a number or is not one: *)
(* what %d makes of `6a' is left out, as are words longer than tmpstr.     *)
(***************************************************************************)
EXTENDS Integers, Sequences, FiniteSetsExt

CONSTANTS
  Word,       \* the words a file can contain
  NL,         \* the end of a line
  Keyword,    \* for each word "port", "local", "user" or "none"
  Number,     \* what %d makes of each word that is a number
  Inet,       \* what inet_addr makes of each word, 0 for 0.0.0.0
  Files,      \* the files to read
  Slots,      \* the indices of psc->clients, 0 .. 255
  NULL,       \* an element of psc->clients without a user
  PortRange,  \* number of values of a port, 65536
  Line,       \* how much fgets reads at most, 127 characters
  MinId, MaxId   \* the range of README.md:57, from 3 to 240

ASSUME FileAssumption ==
  NL \notin Word /\ NULL \notin Word /\ Files \subseteq Seq(Word \cup {NL})
ASSUME WordAssumption ==
  /\ Keyword \in [Word -> {"port", "local", "user", "none"}]
  /\ Inet \in [Word -> Int]
  /\ DOMAIN Number \subseteq Word
  /\ \A w \in DOMAIN Number : Number[w] \in Int
ASSUME RangeAssumption ==
  PortRange \in Nat \ {0} /\ Line \in Nat \ {0} /\ Slots \subseteq Nat

VARIABLES
  file,     \* the file
  pass,     \* "server" and "users", the two readings, then one of Ends
  pos,      \* where it is read next
  port, local,
  clients   \* psc->clients: of each user the password

vars == <<file, pass, pos, port, local, clients>>

(***************************************************************************)
(* "ready": both functions succeeded.  "failed": the first returned NULL.  *)
(* "wild": the second indexed psc->clients outside of its bounds.          *)
(***************************************************************************)
Ends == {"ready", "failed", "wild"}

EOF == Len(file) + 1

IsWord(p) == p < EOF /\ file[p] # NL
IsNumber(p) == IsWord(p) /\ file[p] \in DOMAIN Number
Value(p) == Number[file[p]]

(***************************************************************************)
(* Where fscanf finds the next word at p or later.                         *)
(***************************************************************************)
Scan(p) == Min({ q \in p .. EOF : q = EOF \/ IsWord(q) })

(***************************************************************************)
(* Where the file is after an fgets at p.                                  *)
(***************************************************************************)
SkipLine(p) ==
  Min({EOF, p + Line}
        \cup { q + 1 : q \in { n \in p .. EOF - 1 : file[n] = NL } })

(***************************************************************************)
(* The turn that is due finds keyword k (or another word), or finds none.  *)
(***************************************************************************)
Reads(k) == Scan(pos) # EOF /\ Keyword[file[Scan(pos)]] = k
Ended == Scan(pos) = EOF

(***************************************************************************)
(* Where the first value after the keyword is, and the second.             *)
(***************************************************************************)
First == Scan(Scan(pos) + 1)
Second == Scan(First + 1)

Init ==
  /\ file \in Files
  /\ pass = "server"
  /\ pos = 1
  /\ port = 0
  /\ local = 0
  /\ clients = [s \in Slots |-> NULL]

-----------------------------------------------------------------------------
\* mutant of PortLine: the port is read as an int
PortWide ==
  /\ pass = "server" /\ Reads("port")
  /\ IF IsNumber(First)
       THEN port' = Value(First) /\ pos' = SkipLine(First + 1)
       ELSE port' = port /\ pos' = SkipLine(First)
  /\ UNCHANGED <<file, pass, local, clients>>

\* mutant of PortLine: the word after the keyword is not consumed
PortStays ==
  /\ pass = "server" /\ Reads("port")
  /\ port' = IF IsNumber(First) THEN Value(First) % PortRange ELSE port
  /\ pos' = Scan(pos)
  /\ UNCHANGED <<file, pass, local, clients>>

(***************************************************************************)
(* `port': without a number after it the port stays what it was, and it is *)
(* the line of that other word that is dropped.                            *)
(***************************************************************************)
PortLine ==
  /\ pass = "server" /\ Reads("port")
  /\ IF IsNumber(First)
       THEN port' = Value(First) % PortRange /\ pos' = SkipLine(First + 1)
       ELSE port' = port /\ pos' = SkipLine(First)
  /\ UNCHANGED <<file, pass, local, clients>>

(***************************************************************************)
(* `local': without a word after it inet_addr gets the keyword itself.     *)
(***************************************************************************)
LocalLine ==
  /\ pass = "server" /\ Reads("local")
  /\ local' = Inet[file[IF First = EOF THEN Scan(pos) ELSE First]]
  /\ pos' = SkipLine(First + 1)
  /\ UNCHANGED <<file, pass, port, clients>>

(***************************************************************************)
(* Any other word, and in the second reading `port' and `local' too.       *)
(***************************************************************************)
OtherLine ==
  /\ \/ pass = "server" /\ (Reads("user") \/ Reads("none"))
     \/ pass = "users" /\ (Reads("port") \/ Reads("local") \/ Reads("none"))
  /\ pos' = SkipLine(Scan(pos) + 1)
  /\ UNCHANGED <<file, pass, port, local, clients>>

(***************************************************************************)
(* The end of the first reading.                                           *)
(***************************************************************************)
ServerRead ==
  /\ pass = "server" /\ Ended
  /\ pass' = IF port = 0 \/ local = 0 THEN "failed" ELSE "users"
  /\ pos' = 1
  /\ UNCHANGED <<file, port, local, clients>>

-----------------------------------------------------------------------------
(***************************************************************************)
(* `user' without a number after it.                                       *)
(***************************************************************************)
UserUnnumbered ==
  /\ pass = "users" /\ Reads("user")
  /\ ~IsNumber(First)
  /\ pos' = SkipLine(First)
  /\ UNCHANGED <<file, pass, port, local, clients>>

(***************************************************************************)
(* A number that is not the index of any slot is not looked for.           *)
(***************************************************************************)
UserOutside ==
  /\ pass = "users" /\ Reads("user")
  /\ IsNumber(First) /\ Value(First) \notin Slots
  /\ pass' = "wild"
  /\ UNCHANGED <<file, pos, port, local, clients>>

\* mutant of UserAgain: a later line replaces an earlier one
UserReplaces ==
  /\ pass = "users" /\ Reads("user")
  /\ IsNumber(First) /\ Value(First) \in Slots
  /\ clients[Value(First)] # NULL
  /\ clients' = IF Second = EOF THEN clients
                ELSE [clients EXCEPT ![Value(First)] = file[Second]]
  /\ pos' = SkipLine(Second + 1)
  /\ UNCHANGED <<file, pass, port, local>>

(***************************************************************************)
(* A user there is already: the line is dropped.                           *)
(***************************************************************************)
UserAgain ==
  /\ pass = "users" /\ Reads("user")
  /\ IsNumber(First) /\ Value(First) \in Slots
  /\ clients[Value(First)] # NULL
  /\ pos' = SkipLine(First + 1)
  /\ UNCHANGED <<file, pass, port, local, clients>>

\* mutant of UserAdded: the rest of the line is not dropped
UserKeepsLine ==
  /\ pass = "users" /\ Reads("user")
  /\ IsNumber(First) /\ Value(First) \in Slots
  /\ clients[Value(First)] = NULL
  /\ clients' = IF Second = EOF THEN clients
                ELSE [clients EXCEPT ![Value(First)] = file[Second]]
  /\ pos' = IF Second = EOF THEN EOF ELSE Second + 1
  /\ UNCHANGED <<file, pass, port, local>>

(***************************************************************************)
(* A new user: the next word is the password, if there is one.             *)
(***************************************************************************)
UserAdded ==
  /\ pass = "users" /\ Reads("user")
  /\ IsNumber(First) /\ Value(First) \in Slots
  /\ clients[Value(First)] = NULL
  /\ clients' = IF Second = EOF THEN clients
                ELSE [clients EXCEPT ![Value(First)] = file[Second]]
  /\ pos' = SkipLine(Second + 1)
  /\ UNCHANGED <<file, pass, port, local>>

(***************************************************************************)
(* The end of the second reading.                                          *)
(***************************************************************************)
UsersRead ==
  /\ pass = "users" /\ Ended
  /\ pass' = "ready"
  /\ UNCHANGED <<file, pos, port, local, clients>>

Next ==
  \/ PortLine \/ LocalLine \/ OtherLine \/ ServerRead
  \/ UserUnnumbered \/ UserOutside \/ UserAgain \/ UserAdded \/ UsersRead

Spec == Init /\ [][Next]_vars /\ WF_vars(Next)

-----------------------------------------------------------------------------
TypeOK ==
  /\ file \in Seq(Word \cup {NL})
  /\ pass \in {"server", "users"} \cup Ends
  /\ pos \in 1 .. EOF
  /\ port \in 0 .. PortRange - 1
  /\ local \in Int
  /\ clients \in [Slots -> Word \cup {NULL}]

(***************************************************************************)
(* What a file says, read line by line, if it is tidy: every line is empty *)
(* or complete, and short enough for fgets after its keyword.              *)
(***************************************************************************)
LineStarts == { p \in 1 .. Len(file) : p = 1 \/ file[p - 1] = NL }

LineEnd(p) == Min({ q \in p .. EOF : ~IsWord(q) })

TidyLine(p) ==
  \/ ~IsWord(p)
  \/ /\ LineEnd(p) - p <= Line
     /\ CASE Keyword[file[p]] = "port"  -> IsNumber(p + 1)
          [] Keyword[file[p]] = "local" -> IsWord(p + 1)
          [] Keyword[file[p]] = "user"  -> IsNumber(p + 1) /\ IsWord(p + 2)
          [] OTHER -> TRUE

Tidy == \A p \in LineStarts : TidyLine(p)

Lines(k) == { p \in LineStarts : IsWord(p) /\ Keyword[file[p]] = k }

SaidPort ==
  IF Lines("port") = {} THEN 0 ELSE Value(Max(Lines("port")) + 1) % PortRange

SaidLocal ==
  IF Lines("local") = {} THEN 0 ELSE Inet[file[Max(Lines("local")) + 1]]

UserLines(id) == { p \in Lines("user") : Value(p + 1) = id }

SaidClients ==
  [s \in Slots |-> IF UserLines(s) = {} THEN NULL
                   ELSE file[Min(UserLines(s)) + 2]]

(***************************************************************************)
(* The word by word reading of svpn_server.c does on every tidy file what  *)
(* reading it by lines would: the last port and address count, the first   *)
(* line of each user, and a file without port or address is refused.       *)
(***************************************************************************)
ReadsTidy ==
  Tidy /\ pass \in Ends =>
    /\ port = SaidPort /\ local = SaidLocal
    /\ pass = "failed" <=> (SaidPort = 0 \/ SaidLocal = 0)
    /\ pass = "ready" => clients = SaidClients
    /\ pass = "wild" => \E p \in Lines("user") : Value(p + 1) \notin Slots

(***************************************************************************)
(* Whatever the file is like, a user who has been given a password keeps   *)
(* it: no later line replaces the tables (svpn_server.c:356-360).          *)
(***************************************************************************)
KeepsUsers ==
  [][\A s \in Slots : clients[s] # NULL => clients'[s] = clients[s]]_vars

(***************************************************************************)
(* Every file comes to its end, the untidy ones too.                       *)
(***************************************************************************)
Finishes == <>(pass \in Ends)

(***************************************************************************)
(* README.md:57: `the user id which must range from 3 to 240'.             *)
(***************************************************************************)
DocumentedIds ==
  Tidy /\ pass = "ready" =>
    \A s \in Slots : clients[s] # NULL => s \in MinId .. MaxId
=============================================================================
