------------------------------- MODULE Tables -------------------------------
(***************************************************************************)
(* The pairs of byte tables a user can be given, as the tunnel needs them  *)
(* to be (struct CodeTable, include/crypt.h), and the packets they are     *)
(* applied to.                                                             *)
(*                                                                         *)
(* A packet is reduced to the bytes the programs look at: its first byte   *)
(* (IP version and header length), the 24-bit prefix of its source         *)
(* address, taken as one byte, and the last bytes of its two addresses.    *)
(***************************************************************************)
EXTENDS Functions

CONSTANTS
  Byte,    \* the byte values
  Magic    \* IP_MAGIC_HEADER, first byte of an IPv4 packet without options

(***************************************************************************)
(* One table sends every byte to a different byte, the other undoes it,    *)
(* and the first byte of an IPv4 packet is sent to the number of the user  *)
(* who owns the tables.  The server relies on the last point to find the   *)
(* user of a datagram before it can decrypt it.                            *)
(***************************************************************************)
TablesFor(id) ==
  { t \in [encode : Bijection(Byte, Byte), decode : [Byte -> Byte]] :
      /\ \A b \in Byte : t.decode[t.encode[b]] = b
      /\ t.encode[Magic] = id }

Packet == [ver : Byte, net : Byte, src : Byte, dst : Byte]

Through(f, p) ==
  [ver |-> f[p.ver], net |-> f[p.net], src |-> f[p.src], dst |-> f[p.dst]]

Encrypt(table, p) == Through(table.encode, p)
Decrypt(table, p) == Through(table.decode, p)
=============================================================================
