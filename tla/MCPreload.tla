------------------------------ MODULE MCPreload ------------------------------
(***************************************************************************)
(* A small instance of Preload.  An image is mounted at /m and holds /m/f. *)
(* The program's argument names /d/s, which lies in /d.  Every program may *)
(* read /l.                                                                *)
(***************************************************************************)
EXTENDS Preload, TLC

MCHost == {"/", "/d", "/d/s", "/l", "/m", "/m/f"}

MCAbove == [p \in MCHost |->
  {p, "/"} \cup (IF p = "/d/s" THEN {"/d"} ELSE IF p = "/m/f" THEN {"/m"} ELSE {})]

MCHeld == [p \in MCHost |->
  CASE p = "/m" -> "dir" [] p = "/m/f" -> "file" [] OTHER -> "no"]

Deny(grants) == [OpenJail EXCEPT !.open = FALSE, !.grants = grants]

MCRequests == {NoJail, [Deny("/d" :> "ro") EXCEPT !.auto = TRUE]}

MCUsers ==
  {[OpenJail EXCEPT !.record = TRUE],
   [Deny("/d/s" :> "rw") EXCEPT !.files = {"/d"}]}
=============================================================================
