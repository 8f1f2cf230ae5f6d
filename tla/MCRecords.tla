----------------------------- MODULE MCRecords -----------------------------
(***************************************************************************)
(* Certificates of up to three bytes, two passphrases and two numbers of   *)
(* rounds, and fields that are just long enough for their ends to be       *)
(* missed: the file has 12 to 15 bytes and is cut, changed and spliced at  *)
(* each of them.                                                           *)
(***************************************************************************)
EXTENDS Records

CONSTANTS p1, p2

MCPassphrases == {p1, p2}
MCCerts == {Bytes("cert", "a", n) : n \in 0 .. 3}
MCRounds == {1, 2}
MCOther == [cert |-> Bytes("cert", "b", 2), passphrase |-> p1, rounds |-> 1]
=============================================================================
