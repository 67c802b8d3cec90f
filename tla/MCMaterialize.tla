---------------------------- MODULE MCMaterialize ----------------------------
(* Small instances of Materialize: a program, a library beside it that it    *)
(* needs, and another library below a directory of its own that the first    *)
(* one needs; mounts at / and at that directory.                             *)
EXTENDS Materialize

MCPath   == {"prog", "lib", "d", "dlib"}
MCParent == [p \in MCPath |-> IF p = "dlib" THEN "d" ELSE "/"]
MCAnc    == [p \in MCPath |-> IF p = "dlib" THEN {"d", p} ELSE {p}]

\* The libraries need each other.
MCNeeds == [p \in MCPath |-> CASE p = "prog" -> {"lib"} [] p = "lib" -> {"dlib"}
                               [] p = "dlib" -> {"lib"} [] p = "d" -> {}]

Full(b, home) ==
  [tree |-> [p \in MCPath |-> IF p = "d" THEN Directory ELSE File(<<b>>)],
   home |-> home]

\* An application and a tool home.
Mixed == {Full("x", "no"), Full("y", "yes")}
=============================================================================
