--------------------------------- MODULE Cow ---------------------------------
(***************************************************************************)
(* CowBackend (crates/tfs/src/backends_cow.rs): a writable host directory, *)
(* the overlay, stacked over a read-only image, the base.  A write copies  *)
(* a base file up into the overlay first; a delete is a whiteout, recorded *)
(* in a journal that survives the mount.  Each verb is one action here;    *)
(* CowSteps takes the verbs apart into the host operations they are made   *)
(* of.                                                                     *)
(*                                                                         *)
(* A format backend answers ENOENT for a path below one of its files (tar, *)
(* zip, squashfs and limnifs look the whole path up); the overlay is a     *)
(* host directory and answers ENOTDIR there.                               *)
(***************************************************************************)
EXTENDS Tree

CONSTANTS
  Images,       \* the base images
  WriteAreas,   \* the declared write areas; {Root} when the mount is ungated
  Writes,       \* bound: the blocks a write is called with,
  Offsets,      \*   its offsets,
  Lengths       \*   and the lengths a file is truncated to

ASSUME CowAssumption ==
  /\ Images \subseteq {t \in [Path -> Node] : IsTree(t)}
  /\ WriteAreas \subseteq Path \cup {Root}
  /\ Writes \subseteq Block /\ Offsets \subseteq Nat /\ Lengths \subseteq Nat

VARIABLES
  base,        \* the image: no action changes it
  overlay,     \* the overlay directory
  whiteouts,   \* the hidden base paths
  res          \* the answer of the last verb

vars == <<base, overlay, whiteouts, res>>

Results == {"OK", "EROFS", "EISDIR", "ENOTDIR", "ENOENT", "EEXIST", "EINVAL",
            "ENOTEMPTY"}

-----------------------------------------------------------------------------
(* The merged view *)

Permitted(p) == Root \in WriteAreas \/ WriteAreas \cap Anc[p] # {}

\* A whiteout on a directory hides its whole subtree.
Hidden(p) == Anc[p] \cap whiteouts # {}

\* lstat on the host directory.
OverlayStat(p) ==
  IF Present(overlay, p) THEN overlay[p].kind
  ELSE IF \E a \in Anc[p] : overlay[a].kind = "File" THEN "ENOTDIR"
  ELSE "ENOENT"

BaseStat(p) == IF Present(base, p) THEN base[p].kind ELSE "ENOENT"

\* Mutant of StatMerged: a whiteout hides what the overlay holds.
StatHiddenFirst(p) ==
  IF p = Root THEN "Dir"
  ELSE IF Hidden(p) THEN "ENOENT"
  ELSE IF OverlayStat(p) # "ENOENT" THEN OverlayStat(p)
  ELSE BaseStat(p)

\* The overlay shadows, over a whiteout too; a whiteout hides the base only.
StatMerged(p) ==
  IF p = Root THEN "Dir"
  ELSE IF OverlayStat(p) # "ENOENT" THEN OverlayStat(p)
  ELSE IF Hidden(p) THEN "ENOENT"
  ELSE BaseStat(p)

\* The entry a reader is shown (stat and pread agree on where it comes from).
View ==
  [p \in Path |->
     IF OverlayStat(p) # "ENOENT" THEN overlay[p]
     ELSE IF Hidden(p) THEN Absent
     ELSE base[p]]

\* Mutant of ReadDir: base names are not filtered by the whiteouts.
ReadDirUnfiltered(d) == {c \in Children(d) : Present(overlay, c) \/ Present(base, c)}

\* The names read_dir lists in a directory of the merged view.
ReadDir(d) ==
  {c \in Children(d) : \/ Present(overlay, c)
                       \/ Present(base, c) /\ ~Hidden(c)}

-----------------------------------------------------------------------------
(* Materializing in the overlay.  Each operator yields the answer and the  *)
(* overlay the operation leaves, also when it fails.                       *)

Done(r, o) == [res |-> r, overlay |-> o]

\* Only the immediate parent is looked at, then all of them are made.
EnsureOverlayParent(p) ==
  IF StatMerged(Parent[p]) \in {"Dir", "ENOENT"}
  THEN Done("OK", MakeDirs(overlay, Parent[p]))
  ELSE Done("ENOTDIR", overlay)

\* Mutant of CopyUp: an entry is created before its kind is known.
CopyUpCreatesFirst(p) ==
  LET up == EnsureOverlayParent(p) IN
  IF Present(overlay, p) THEN Done("OK", overlay)
  ELSE IF up.res # "OK" \/ BaseStat(p) = "ENOENT" THEN up
  ELSE IF BaseStat(p) = "Dir"
       THEN Done("OK", [up.overlay EXCEPT ![p] = Directory])
  ELSE Done(IF BaseStat(p) = "Link" THEN "EINVAL" ELSE "OK",
            [up.overlay EXCEPT ![p] = File(base[p].data)])

CopyUp(p) ==
  LET up == EnsureOverlayParent(p) IN
  IF Present(overlay, p) THEN Done("OK", overlay)
  ELSE IF up.res # "OK" \/ BaseStat(p) = "ENOENT" THEN up
  ELSE IF BaseStat(p) = "File"
       THEN Done("OK", [up.overlay EXCEPT ![p] = base[p]])
  ELSE IF BaseStat(p) = "Dir"
       THEN Done("OK", [up.overlay EXCEPT ![p] = Directory])
  ELSE Done("EINVAL", up.overlay)

-----------------------------------------------------------------------------
(* The four verbs of WritableBackend.  The root and the journal's own name *)
(* are refused before anything is read and are not modelled.               *)

Answer(r) ==
  /\ res' = r
  /\ UNCHANGED <<base, overlay, whiteouts>>

\* Mutant of Landing: a deleted path is copied up like any other.
LandingCopies(p) == CopyUp(p)

\* A path with a whiteout of its own starts afresh, any other is copied up.
Landing(p) == IF p \in whiteouts THEN EnsureOverlayParent(p) ELSE CopyUp(p)

PWriteRefused(p) ==
  /\ Permitted(p)
  /\ LET land == Landing(p) IN
       /\ land.res # "OK" \/ land.overlay[p].kind = "Dir"
       /\ overlay' = land.overlay
       /\ res' = IF land.res # "OK" THEN land.res ELSE "EISDIR"
  /\ UNCHANGED <<base, whiteouts>>

PWriteLands(p, off, v) ==
  /\ Permitted(p)
  /\ LET land == Landing(p) IN
       /\ land.res = "OK" /\ land.overlay[p].kind # "Dir"
       /\ overlay' = [land.overlay EXCEPT
                        ![p] = File(WriteAt(land.overlay[p].data, off, v))]
  /\ res' = "OK"
  /\ UNCHANGED <<base, whiteouts>>

PWrite(p, off, v) ==
  \/ ~Permitted(p) /\ Answer("EROFS")
  \/ PWriteRefused(p)
  \/ PWriteLands(p, off, v)

Truncate(p, n) ==
  \/ ~Permitted(p) /\ Answer("EROFS")
  \/ /\ Permitted(p)
     /\ StatMerged(p) # "File"
     /\ Answer(IF StatMerged(p) \in {"Dir", "Link"} THEN "EINVAL"
               ELSE StatMerged(p))
  \/ /\ Permitted(p)
     /\ StatMerged(p) = "File"
     /\ LET up == CopyUp(p) IN
          overlay' = [up.overlay EXCEPT ![p] = File(SetLen(@.data, n))]
     /\ res' = "OK"
     /\ UNCHANGED <<base, whiteouts>>

\* Mutant of Mkdir: what exists is not looked at.
MkdirOverAnything(p) ==
  /\ Permitted(p) /\ StatMerged(Parent[p]) = "Dir"
  /\ overlay' = [MakeDirs(overlay, Parent[p]) EXCEPT ![p] = Directory]
  /\ res' = "OK"
  /\ UNCHANGED <<base, whiteouts>>

Mkdir(p) ==
  \/ ~Permitted(p) /\ Answer("EROFS")
  \/ Permitted(p) /\ StatMerged(p) = "ENOTDIR" /\ Answer("ENOTDIR")
  \/ Permitted(p) /\ StatMerged(p) \in {"File", "Dir", "Link"} /\ Answer("EEXIST")
  \/ /\ Permitted(p)
     /\ StatMerged(p) = "ENOENT"
     /\ StatMerged(Parent[p]) # "Dir"
     /\ Answer(IF StatMerged(Parent[p]) = "ENOENT" THEN "ENOENT" ELSE "ENOTDIR")
  \/ /\ Permitted(p)
     /\ StatMerged(p) = "ENOENT"
     /\ StatMerged(Parent[p]) = "Dir"
     /\ overlay' = [MakeDirs(overlay, Parent[p]) EXCEPT ![p] = Directory]
     /\ res' = "OK"
     /\ UNCHANGED <<base, whiteouts>>

\* Mutants of Remove: a directory goes with whatever it lists; only a path
\* that the overlay does not hold is recorded.
RemoveNonEmpty(p) ==
  /\ Permitted(p) /\ StatMerged(p) \in {"File", "Link", "Dir"}
  /\ overlay' = [q \in Path |-> IF p \in Anc[q] THEN Absent ELSE overlay[q]]
  /\ whiteouts' = whiteouts \cup (IF Present(base, p) THEN {p} ELSE {})
  /\ res' = "OK"
  /\ UNCHANGED base

RemoveOneLayer(p) ==
  /\ Permitted(p) /\ StatMerged(p) \in {"File", "Link", "Dir"}
  /\ StatMerged(p) = "Dir" => ReadDir(p) = {}
  /\ overlay' = [overlay EXCEPT ![p] = Absent]
  /\ whiteouts' = whiteouts \cup
       (IF Present(base, p) /\ ~Present(overlay, p) THEN {p} ELSE {})
  /\ res' = "OK"
  /\ UNCHANGED base

Remove(p) ==
  \/ ~Permitted(p) /\ Answer("EROFS")
  \/ Permitted(p) /\ StatMerged(p) \in {"ENOENT", "ENOTDIR"} /\ Answer(StatMerged(p))
  \/ Permitted(p) /\ StatMerged(p) = "Dir" /\ ReadDir(p) # {} /\ Answer("ENOTEMPTY")
  \/ /\ Permitted(p)
     /\ \/ StatMerged(p) \in {"File", "Link"}
        \/ StatMerged(p) = "Dir" /\ ReadDir(p) = {}
     /\ overlay' = [overlay EXCEPT ![p] = Absent]
     /\ whiteouts' = whiteouts \cup (IF Present(base, p) THEN {p} ELSE {})
     /\ res' = "OK"
     /\ UNCHANGED base

-----------------------------------------------------------------------------

\* A mount over a fresh store.
Init ==
  /\ base \in Images
  /\ overlay = [p \in Path |-> Absent]
  /\ whiteouts = {}
  /\ res = "OK"

Next ==
  \E p \in Path :
    \/ \E off \in Offsets, v \in Writes : PWrite(p, off, v)
    \/ \E n \in Lengths : Truncate(p, n)
    \/ Mkdir(p)
    \/ Remove(p)

Spec == Init /\ [][Next]_vars

-----------------------------------------------------------------------------
(* Properties *)

\* The state is well typed, and base and overlay are trees of the host and
\* of the image.
TypeOK ==
  /\ base \in [Path -> Node] /\ IsTree(base)
  /\ overlay \in [Path -> Node] /\ IsTree(overlay)
  /\ \A p \in Path : overlay[p].kind # "Link"
  /\ whiteouts \in SUBSET Path
  /\ res \in Results

\* pwrite asks the journal for the path itself where every reader asks for
\* its ancestors too; the two agree only if each hidden base path has a
\* record of its own.
HiddenIsRecorded ==
  \A p \in Path : Present(base, p) /\ Hidden(p) => p \in whiteouts

\* What makes it so: an overlay file over a base directory implies that the
\* directory was deleted, so its base descendants stay deleted with the file.
ShadowedDirIsRecorded ==
  \A p \in Path :
    overlay[p].kind = "File" /\ base[p].kind = "Dir" => p \in whiteouts

IInv == TypeOK /\ HiddenIsRecorded /\ ShadowedDirIsRecorded

\* "The journal is the complete delete-side change record": a base entry that
\* the merged view shows no longer, or shows as something else, has a whiteout.
DeletesAreRecorded ==
  \A p \in Path :
    Present(base, p) /\ View[p].kind # base[p].kind => Hidden(p)

\* That holds while no verb can reach two levels below a file or a symlink of
\* the image: the lookup of the immediate parent answers ENOTDIR then.
Shallow ==
  \A p \in Path : \A a \in Anc[p] \ {p} :
    base[a].kind \in {"File", "Link"} => Parent[p] = a

ShallowDeletesAreRecorded == Shallow => DeletesAreRecorded

\* What read_dir lists is what stat finds, in every directory of the view.
ListingMatchesStat ==
  \A d \in Path : StatMerged(d) = "Dir" =>
    ReadDir(d) = {c \in Children(d) : Present(View, c)}

\* A file that appears holds what was written into it and nothing of a
\* deleted base file: its content starts afresh.
NoResurrection ==
  [][\A p \in Path, off \in Offsets, v \in Writes :
       PWriteLands(p, off, v) /\ ~Present(View, p)
         => View'[p] = File(WriteAt(<< >>, off, v))]_vars

\* A verb that answers an error leaves the merged view as it was, whatever
\* it had already materialized in the overlay.
FailureIsInvisible ==
  [][res' # "OK" => View' = View]_vars

\* The verbs answer, and change the merged view, like a plain mutable tree.
TreeView == INSTANCE TreeFs WITH
  view <- View, res <- res, Trees <- Images, MayBury <- TRUE

RefinesTree == TreeView!Spec

\* The same, over an image without such paths, of the tree that never turns a
\* file into a directory.
StrictTreeView == INSTANCE TreeFs WITH
  view <- View, res <- res, Trees <- Images, MayBury <- FALSE

ShallowRefinesStrictTree ==
  [][Shallow => [StrictTreeView!Next]_<<View, res>>]_vars
=============================================================================
