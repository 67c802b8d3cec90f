--------------------------- MODULE MCRuntimeCache ---------------------------
(* A small instance of RuntimeCache: one process of each kind. *)
EXTENDS RuntimeCache

MCProc == {"bootstrap", "shim", "press", "prune"}
MCKind == [p \in MCProc |-> p]
=============================================================================
