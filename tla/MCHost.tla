------------------------------- MODULE MCHost -------------------------------
(***************************************************************************)
(* A server, two clients, which have the same port, and another program.   *)
(***************************************************************************)
EXTENDS Host

CONSTANTS s1, c1, c2, o1

MCPort == [p \in Servers \cup Clients |-> IF p \in Servers THEN 443 ELSE 123]

MCOwn == [p \in Procs |-> CASE p = s1 -> 1 [] p = c1 -> 6 [] p = c2 -> 8
                            [] p = o1 -> 77]
=============================================================================
