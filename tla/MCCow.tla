-------------------------------- MODULE MCCow --------------------------------
(* A small instance of Cow: a chain of three paths with a sibling, and a file *)
(* outside the write area.                                                    *)
EXTENDS Cow

\* f, f/x, f/x/y and f/z; g.
MCPath == {"f", "fx", "fxy", "fz", "g"}
MCRoot == "/"
MCParent == [p \in MCPath |->
  CASE p \in {"f", "g"} -> "/" [] p = "fxy" -> "fx" [] p \in {"fx", "fz"} -> "f"]
MCAnc == [p \in MCPath |->
  CASE p \in {"f", "g"} -> {p} [] p = "fx" -> {"f", "fx"}
    [] p = "fxy" -> {"f", "fx", "fxy"} [] p = "fz" -> {"f", "fz"}]

\* "b" is a block of the image, "w" one that is written.
BaseEntries == {Absent, Directory, File(<<"b">>), [kind |-> "Link", data |-> << >>]}

\* Every image over f and what is below it.
AllImages ==
  {t \in [MCPath -> BaseEntries] : IsTree(t) /\ t["g"] = File(<<"b">>)}
=============================================================================
