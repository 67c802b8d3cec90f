-------------------------------- MODULE Tree --------------------------------
(***************************************************************************)
(* Paths, entries and file contents, as every TFS backend sees them        *)
(* (crates/tfs/src/backend.rs): a path is relative to the mount root,      *)
(* components are separated by "/", and the root itself is the empty path. *)
(* Only the ancestor order of the paths and the blocks of a content matter *)
(* to the components built on this module, so a path is an element of Path *)
(* with its parent and its ancestors given, and a content is a sequence of *)
(* blocks.                                                                 *)
(***************************************************************************)
EXTENDS Naturals, Sequences

CONSTANTS
  Path,     \* the paths below the mount root
  Root,     \* the mount root (the empty path); not an element of Path
  Parent,   \* Parent[p]: the path p without its last component
  Anc,      \* Anc[p]: p and every path below the root that is a prefix of it
  Block,    \* the blocks that files are made of
  Zero      \* the block that a write beyond the end leaves in the gap

ASSUME PathAssumption ==
  /\ Root \notin Path
  /\ Parent \in [Path -> Path \cup {Root}]
  /\ Anc \in [Path -> SUBSET Path]
  /\ \A p \in Path :
       Anc[p] = {p} \cup (IF Parent[p] = Root THEN {} ELSE Anc[Parent[p]])
  /\ \A p \in Path : Parent[p] # Root => p \notin Anc[Parent[p]]
  /\ \A p \in Path : \A q \in Anc[p] : Anc[q] \subseteq Anc[p]
  /\ \A p \in Path : \A q \in Anc[p] \ {p} : \E c \in Anc[p] : Parent[c] = q

ASSUME BlockAssumption == Zero \in Block

Content == Seq(Block)

(***************************************************************************)
(* An entry.  "None" is the absence of one; a directory, a symlink and an  *)
(* absent entry carry no content.                                          *)
(***************************************************************************)
Node == {n \in [kind : {"None", "File", "Dir", "Link"}, data : Content] :
           n.kind # "File" => n.data = << >>}

Absent    == [kind |-> "None", data |-> << >>]
Directory == [kind |-> "Dir",  data |-> << >>]
File(c)   == [kind |-> "File", data |-> c]

Present(t, p) == t[p].kind # "None"

\* What positioned writing does: a gap is filled, nothing is ever cut off.
WriteAt(c, off, v) ==
  [i \in 1 .. (IF off + 1 > Len(c) THEN off + 1 ELSE Len(c)) |->
     IF i = off + 1 THEN v ELSE IF i <= Len(c) THEN c[i] ELSE Zero]

\* What setting the length does: cut, or extend with zero blocks.
SetLen(c, n) == [i \in 1 .. n |-> IF i <= Len(c) THEN c[i] ELSE Zero]

\* Every missing directory down to q (create_dir_all).
MakeDirs(t, q) ==
  [p \in Path |-> IF q # Root /\ p \in Anc[q] /\ ~Present(t, p)
                  THEN Directory ELSE t[p]]

Children(d) == {p \in Path : Parent[p] = d}

\* Every entry below the root lies in a directory, which lies in one in turn.
IsTree(t) ==
  \A p \in Path : Present(t, p) => \A a \in Anc[p] \ {p} : t[a].kind = "Dir"
=============================================================================
