------------------------------ MODULE MCLibrary ------------------------------
(***************************************************************************)
(* The routines of src/lib in one run, one after the other: BuildTable     *)
(* with four byte values and a digest of three (MCCodeTable), and, once a  *)
(* certain pair of tables is built, either the cutting of a message into   *)
(* blocks or the digest of one of the test suite of RFC 1321.  They share  *)
(* no state.                                                               *)
(***************************************************************************)
EXTENDS MCCodeTable, Md5Stream, Md5Digest, TLC

VARIABLE part   \* the routine that runs

-----------------------------------------------------------------------------
Lower == [k \in 1 .. 26 |-> 96 + k]
Upper == [k \in 1 .. 26 |-> 64 + k]
Digits == [k \in 1 .. 10 |-> 47 + k]

(***************************************************************************)
(* The message padded to n blocks, in blocks.                              *)
(***************************************************************************)
InBlocks(m, n) ==
  LET at(p) == CASE p <= Len(m)      -> m[p]
                 [] p = Len(m) + 1   -> 128
                 [] p = 64 * n - 7   -> (8 * Len(m)) % 256
                 [] p = 64 * n - 6   -> (8 * Len(m)) \div 256
                 [] OTHER            -> 0
  IN  [b \in 1 .. n |-> [p \in 1 .. 64 |-> at(64 * (b - 1) + p)]]

(***************************************************************************)
(* RFC 1321, A.5.                                                          *)
(***************************************************************************)
MCSuite ==
     InBlocks(<<>>, 1) :>
       <<\hd4, \h1d, \h8c, \hd9, \h8f, \h00, \hb2, \h04,
         \he9, \h80, \h09, \h98, \hec, \hf8, \h42, \h7e>>
  @@ InBlocks(SubSeq(Lower, 1, 1), 1) :>
       <<\h0c, \hc1, \h75, \hb9, \hc0, \hf1, \hb6, \ha8,
         \h31, \hc3, \h99, \he2, \h69, \h77, \h26, \h61>>
  @@ InBlocks(SubSeq(Lower, 1, 3), 1) :>
       <<\h90, \h01, \h50, \h98, \h3c, \hd2, \h4f, \hb0,
         \hd6, \h96, \h3f, \h7d, \h28, \he1, \h7f, \h72>>
  @@ InBlocks(Lower, 1) :>
       <<\hc3, \hfc, \hd3, \hd7, \h61, \h92, \he4, \h00,
         \h7d, \hfb, \h49, \h6c, \hca, \h67, \he1, \h3b>>
  @@ InBlocks(Upper \o Lower \o Digits, 2) :>
       <<\hd1, \h74, \hab, \h98, \hd2, \h77, \hd9, \hf5,
         \ha5, \h61, \h1c, \h2c, \h9f, \h41, \h9d, \h9f>>
  @@ InBlocks([k \in 1 .. 80 |-> 48 + (k % 10)], 2) :>
       <<\h57, \hed, \hf4, \ha2, \h2b, \he3, \hc9, \h55,
         \hac, \h49, \hda, \h2e, \h21, \h07, \hb6, \h7a>>

-----------------------------------------------------------------------------
all == <<part, vars, streamVars, digestVars>>

(***************************************************************************)
(* One pair of tables goes on, that of user 0 with a digest of zeros.      *)
(***************************************************************************)
OneUser == identity = 0 /\ \A l \in Limb : md[l] = 0

LibraryInit ==
  /\ part = "tables" /\ Init /\ StreamInit /\ DigestInit
  /\ OneUser \/ message = InBlocks(<<>>, 1)

GoesOn ==
  /\ part = "tables" /\ phase = "done"
  /\ OneUser
  /\ part' \in {"stream", "digest"}
  /\ UNCHANGED <<vars, streamVars, digestVars>>

LibraryNext ==
  \/ part = "tables" /\ Next /\ UNCHANGED <<part, streamVars, digestVars>>
  \/ GoesOn
  \/ part = "stream" /\ StreamNext
       /\ UNCHANGED <<part, vars, digestVars>>
  \/ part = "digest" /\ DigestNext
       /\ UNCHANGED <<part, vars, streamVars>>

LibrarySpec == LibraryInit /\ [][LibraryNext]_all /\ WF_vars(Next)
=============================================================================
