---------------------------- MODULE MCRegistries ----------------------------
(* A small instance of Registries. *)
EXTENDS Registries, TLC

CONSTANTS P1, P2

MCProc == {P1, P2}

\* Every property is about single steps, so processes may be exchanged.
MCSymmetry == Permutations(MCProc)
=============================================================================
