----------------------------- MODULE MCKeyTools -----------------------------
(***************************************************************************)
(* Two keygens and a pubkey with two file names between them; a            *)
(* certificate has two parts, so that it can be cut short; other programs  *)
(* act once: they create, remove or chmod a file.  A file that was removed *)
(* between two calls may be replaced by the other keygen.                  *)
(***************************************************************************)
EXTENDS KeyTools

CONSTANTS gen1, gen2, pub1, name1, name2

MCProcs == {gen1, gen2, pub1}
MCKeygens == {gen1, gen2}
MCPubkeys == {pub1}
MCNames == {name1, name2}
=============================================================================
