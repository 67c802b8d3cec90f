--------------------------- MODULE MCPayloadCache ---------------------------
(* A small instance of PayloadCache. *)
EXTENDS PayloadCache

MCInode == 1 .. 2
=============================================================================
