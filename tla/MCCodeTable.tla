----------------------------- MODULE MCCodeTable -----------------------------
(***************************************************************************)
(* BuildTable with four byte values and a digest of three: every password  *)
(* digest, every user number, and a `decode' array whose memory was zeroed *)
(* (the client) or holds something else (the server).                      *)
(***************************************************************************)
EXTENDS CodeTable

MCLeftover == { [b \in Byte |-> 0], [b \in Byte |-> (3 * b + 1) % Size] }
=============================================================================
