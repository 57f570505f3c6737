---------------------------- MODULE Substitution ----------------------------
(***************************************************************************)
(* What the tunnel needs from BuildTable, whatever algorithm it uses: for  *)
(* the user who owns them, tables that TablesFor allows, in one step.      *)
(***************************************************************************)
EXTENDS Tables

VARIABLES
  owner,   \* the user number the tables are made for
  tables   \* the pair of tables once there is one, no element before

vars == <<owner, tables>>

Init ==
  /\ owner \in Byte
  /\ tables = {}

Build ==
  /\ tables = {}
  /\ \E t \in TablesFor(owner) : tables' = {t}
  /\ UNCHANGED owner

Spec == Init /\ [][Build]_vars
=============================================================================
