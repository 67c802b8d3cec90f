----------------------------- MODULE MCCowSteps -----------------------------
(* Small instances of CowSteps. *)
EXTENDS CowSteps

\* A directory d with d/x and d/y; in the gated instance, a file e beside it.
MCPath == {"d", "dx", "dy"}
GatedPath == MCPath \cup {"e"}

ParentIn(paths) == [p \in paths |-> IF p \in {"dx", "dy"} THEN "d" ELSE "/"]
AncIn(paths)    == [p \in paths |-> {p} \cup ({ParentIn(paths)[p]} \cap paths)]

MCParent == ParentIn(MCPath)
MCAnc    == AncIn(MCPath)
GatedParent == ParentIn(GatedPath)
GatedAnc    == AncIn(GatedPath)

\* An image file has two blocks, so that a copy-up takes several steps.
Two == File(<<"b", "b">>)

GatedImages ==
  LET full == [p \in GatedPath |-> IF p = "d" THEN Directory ELSE Two] IN
  {\* d/x alone in its directory, so that the directory can be emptied
   [full EXCEPT !["dy"] = Absent],
   [full EXCEPT !["dx"] = [kind |-> "Link", data |-> << >>]],
   [p \in GatedPath |-> IF p = "d" THEN Two ELSE Absent]}

RaceImages == {[p \in MCPath |-> IF p = "d" THEN Directory
                                 ELSE IF p = "dx" THEN Two ELSE Absent]}
=============================================================================
