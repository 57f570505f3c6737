--------------------------- MODULE MCServerConfig ---------------------------
(***************************************************************************)
(* Files of up to three lines, each of a given set of lines: complete ones,*)
(* ones with a value missing or of the wrong kind, a remark, a remark too  *)
(* long for fgets with what looks like a user in it; and files with a port *)
(* and an address and up to two such lines; the last line with and without *)
(* its end.  Ports have eight values, users ten slots.                     *)
(***************************************************************************)
EXTENDS ServerConfig, SequencesExt

CONSTANTS
  kport, klocal, kuser,   \* the keywords
  one, six, eight, many,   \* numbers
  ip, zero, a, b       \* addresses and passwords

MCWord == {kport, klocal, kuser, one, six, eight, many, ip, zero, a, b}

MCKeyword ==
  [w \in MCWord |-> CASE w = kport  -> "port"
                      [] w = klocal -> "local"
                      [] w = kuser  -> "user"
                      [] OTHER     -> "none"]

MCNumber ==
  [w \in {one, six, eight, many} |-> CASE w = one   -> 1
                                       [] w = six   -> 6
                                       [] w = eight -> 8
                                       [] w = many  -> 10]

MCInet == [w \in MCWord |-> CASE w = ip   -> 5
                              [] w = zero -> 0
                              [] OTHER    -> -1]

Complete ==
  { <<kport, six>>, <<kport, eight>>, <<klocal, ip>>, <<klocal, zero>>,
    <<kuser, six, a>>, <<kuser, six, b>>, <<kuser, one, kport>>,
    <<kuser, six, a, kuser>>, <<kuser, many, a>>, <<b>>, <<>> }

Incomplete ==
  { <<kport>>, <<klocal>>, <<kuser>>, <<kuser, one>>, <<kuser, a, b>>,
    <<b, a, a, a, kuser, one, a>> }

Text(lines) == FlattenSeq([n \in 1 .. Len(lines) |-> Append(lines[n], NL)])

UpTo(k) == UNION { [1 .. n -> Complete \cup Incomplete] : n \in 1 .. k }

Header == <<kport, six, NL, klocal, ip, NL>>

MCFiles ==
  LET Texts == { Text(ls) : ls \in UpTo(3) }
                 \cup { Header \o Text(ls) : ls \in UpTo(2) }
  IN  Texts \cup { Front(t) : t \in Texts }
=============================================================================
