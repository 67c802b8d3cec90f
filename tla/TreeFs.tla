------------------------------- MODULE TreeFs -------------------------------
(***************************************************************************)
(* What a copy-on-write mount promises to its users: one mutable tree and  *)
(* four write verbs (trait WritableBackend, crates/tfs/src/backend.rs),    *)
(* each answering from that tree alone.  There is no base image, no        *)
(* overlay and no whiteout here.                                           *)
(*                                                                         *)
(* MayBury says whether a write two or more levels below a non-directory   *)
(* may turn that non-directory into a directory instead of answering       *)
(* ENOTDIR.  A tree of files and directories never does (FALSE); Cow needs *)
(* TRUE (see the module Cow).                                              *)
(***************************************************************************)
EXTENDS Tree

CONSTANTS
  WriteAreas,   \* the declared write areas; {Root} when the mount is ungated
  Writes,       \* bound: the blocks a write is called with,
  Offsets,      \*   its offsets,
  Lengths,      \*   and the lengths a file is truncated to
  Trees,        \* the trees a mount may start as
  MayBury

VARIABLES
  view,   \* view[p]: the entry at p
  res     \* the answer of the last verb

Permitted(p) == Root \in WriteAreas \/ WriteAreas \cap Anc[p] # {}

Kind(p) == IF p = Root THEN "Dir" ELSE view[p].kind

\* The proper ancestors of p that are there and are not directories.
Blockers(p) == {a \in Anc[p] \ {p} : view[a].kind \in {"File", "Link"}}

Answer(r) == res' = r /\ UNCHANGED view

\* The entries of p's ancestors made directories, whatever they were.
Buried(p) == [q \in Path |-> IF q \in Anc[p] \ {p} THEN Directory ELSE view[q]]

PWrite(p, off, v) ==
  \/ ~Permitted(p) /\ Answer("EROFS")
  \/ Permitted(p) /\ Blockers(p) # {} /\ Answer("ENOTDIR")
  \/ Permitted(p) /\ view[p].kind = "Dir"  /\ Answer("EISDIR")
  \/ Permitted(p) /\ view[p].kind = "Link" /\ Answer("EINVAL")
  \/ /\ Permitted(p)
     /\ Blockers(p) = {}
     /\ view[p].kind \in {"None", "File"}
     /\ view' = [MakeDirs(view, Parent[p]) EXCEPT
                   ![p] = File(WriteAt(view[p].data, off, v))]
     /\ res' = "OK"
  \/ /\ MayBury
     /\ Permitted(p)
     /\ Blockers(p) # {}
     /\ Parent[p] \notin Blockers(p)
     /\ view' = [Buried(p) EXCEPT ![p] = File(WriteAt(<< >>, off, v))]
     /\ res' = "OK"

Truncate(p, n) ==
  \/ ~Permitted(p) /\ Answer("EROFS")
  \/ Permitted(p) /\ view[p].kind = "None" /\ Answer("ENOENT")
  \/ Permitted(p) /\ Blockers(p) # {} /\ Answer("ENOTDIR")
  \/ Permitted(p) /\ view[p].kind \in {"Dir", "Link"} /\ Answer("EINVAL")
  \/ /\ Permitted(p)
     /\ view[p].kind = "File"
     /\ view' = [view EXCEPT ![p] = File(SetLen(view[p].data, n))]
     /\ res' = "OK"

Mkdir(p) ==
  \/ ~Permitted(p) /\ Answer("EROFS")
  \/ Permitted(p) /\ Present(view, p) /\ Answer("EEXIST")
  \/ Permitted(p) /\ Blockers(p) # {} /\ Answer("ENOTDIR")
  \/ /\ Permitted(p)
     /\ Kind(Parent[p]) = "None"
     /\ Answer("ENOENT")
  \/ /\ Permitted(p)
     /\ ~Present(view, p)
     /\ Kind(Parent[p]) = "Dir"
     /\ view' = [view EXCEPT ![p] = Directory]
     /\ res' = "OK"

Remove(p) ==
  \/ ~Permitted(p) /\ Answer("EROFS")
  \/ Permitted(p) /\ view[p].kind = "None" /\ Answer("ENOENT")
  \/ Permitted(p) /\ Blockers(p) # {} /\ Answer("ENOTDIR")
  \/ /\ Permitted(p)
     /\ \E c \in Children(p) : Present(view, c)
     /\ Answer("ENOTEMPTY")
  \/ /\ Permitted(p)
     /\ Present(view, p)
     /\ \A c \in Children(p) : ~Present(view, c)
     /\ view' = [view EXCEPT ![p] = Absent]
     /\ res' = "OK"

Init ==
  /\ view \in Trees
  /\ res = "OK"

Next ==
  \E p \in Path :
    \/ \E off \in Offsets, v \in Writes : PWrite(p, off, v)
    \/ \E n \in Lengths : Truncate(p, n)
    \/ Mkdir(p)
    \/ Remove(p)

vars == <<view, res>>

Spec == Init /\ [][Next]_vars
=============================================================================
