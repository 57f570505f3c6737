---------------------------- MODULE TunnelService ----------------------------
(***************************************************************************)
(* What the whole tunnel promises: it carries packets between the server   *)
(* and the users it knows.  Packets can be lost, overtake each other and   *)
(* come twice, but the device at the far end only ever gets packets that   *)
(* the device at this end was given, on the side of the same user.         *)
(*                                                                         *)
(* One thing it does not promise: a user who has had an address that       *)
(* another user has had, too, may get what was carried for the other one,  *)
(* garbled by tables it was not meant for, if that happens to look like a  *)
(* packet.                                                                 *)
(***************************************************************************)
CONSTANTS
  Items,     \* what can be carried: which way, for which user, which packet
  Good,      \* the items whose packet a device takes
  Garbled    \* for a user and an item for somebody else, what becomes of it

VARIABLES
  transit,    \* the items that have been taken and may still arrive
  delivered,  \* what has arrived lately
  shared      \* the pairs of users who have been at the same address

vars == <<transit, delivered, shared>>

Init ==
  /\ transit = {}
  /\ delivered = {}
  /\ shared = {}

Carry ==
  /\ transit \subseteq transit' /\ transit' \subseteq transit \cup Items
  /\ UNCHANGED <<delivered, shared>>

Deliver ==
  /\ \E x \in transit \cap Good : delivered' = {x}
  /\ transit' \subseteq transit
  /\ UNCHANGED shared

Misdeliver ==
  /\ \E x \in transit : \E pair \in shared :
       /\ x.dir = "down" /\ pair[2] = x.user
       /\ Garbled[pair[1]][x] \in Good
       /\ delivered' = {Garbled[pair[1]][x]}
  /\ transit' \subseteq transit
  /\ UNCHANGED shared

Lose ==
  /\ transit' \subseteq transit
  /\ delivered' \subseteq delivered
  /\ UNCHANGED shared

Meet ==
  /\ shared \subseteq shared'
  /\ UNCHANGED <<transit, delivered>>

Next == Lose \/ Carry \/ Deliver \/ Misdeliver \/ Meet

Spec == Init /\ [][Next]_vars
=============================================================================
