-------------------------------- MODULE MCVfs --------------------------------
(* A small instance of Vfs: a directory a with a file a/f, under mounts at / *)
(* and at /a.                                                                *)
EXTENDS Vfs

MCPath   == {"a", "af"}
MCParent == [p \in MCPath |-> IF p = "a" THEN "/" ELSE "a"]
MCAnc    == [p \in MCPath |-> {"a", p}]

\* An image with a/f one block long, and one with the directory alone.
Full == [tree |-> [p \in MCPath |-> IF p = "a" THEN Directory ELSE File(<<"x">>)],
         home |-> "no"]
Bare == [tree |-> [p \in MCPath |-> IF p = "a" THEN Directory ELSE Absent],
         home |-> "none"]

TwoImages == {Full, Bare}
=============================================================================
