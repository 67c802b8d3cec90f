----------------------------- MODULE CowProofs -----------------------------
(***************************************************************************)
(* Safety of Cow, for every set of paths, images, write areas and blocks.  *)
(* IInv is inductive: TypeOK alone carries the two trees, and              *)
(* HiddenIsRecorded is not inductive without ShadowedDirIsRecorded,        *)
(* because removing an overlay file that shadows a base directory looks at *)
(* no child of it.                                                         *)
(*                                                                         *)
(* Above it stands the refinement: under IInv the merged view is a tree    *)
(* (ViewTree), what a write lands on is what the view shows there          *)
(* (LandingShape), and each verb that is done puts one entry into the view *)
(* or takes one away (the lemmas named ...Shown), which is what the tree   *)
(* of TreeFs does.                                                         *)
(***************************************************************************)
EXTENDS Cow, TLAPS

-----------------------------------------------------------------------------
(* Trees *)

\* Making the directories down to q leaves a well-typed map of entries.
LEMMA MakeDirsType ==
  ASSUME NEW t \in [Path -> Node], NEW q
  PROVE  MakeDirs(t, q) \in [Path -> Node]
<1>1. Directory \in Node
  BY DEF Directory, Node, Content
<1>2. QED
  BY <1>1 DEF MakeDirs

\* Where no ancestor of q is a file, it leaves a tree in which q and all
\* its ancestors are directories.
LEMMA MakeDirsTree ==
  ASSUME NEW t \in [Path -> Node], IsTree(t),
         NEW q \in Path \cup {Root},
         q # Root => \A a \in Anc[q] : t[a].kind \in {"None", "Dir"}
  PROVE  /\ IsTree(MakeDirs(t, q))
         /\ q # Root => \A a \in Anc[q] : MakeDirs(t, q)[a].kind = "Dir"
<1>1. CASE q = Root
  BY <1>1 DEF MakeDirs, IsTree, Present
<1>2. CASE q # Root
  <2>1. q \in Path
    BY <1>2
  <2>2. \A p \in Path : MakeDirs(t, q)[p] =
          IF p \in Anc[q] /\ ~Present(t, p) THEN Directory ELSE t[p]
    BY <1>2 DEF MakeDirs
  <2>3. \A a \in Anc[q] : a \in Path
    BY <2>1, PathAssumption
  <2>4. \A a \in Anc[q] : MakeDirs(t, q)[a].kind = "Dir"
    BY <2>2, <2>3, <1>2 DEF Present, Directory
  <2>5. ASSUME NEW p \in Path, Present(MakeDirs(t, q), p),
               NEW a \in Anc[p] \ {p}
        PROVE  MakeDirs(t, q)[a].kind = "Dir"
    <3>1. a \in Path
      BY PathAssumption
    <3>2. CASE p \in Anc[q]
      <4>1. a \in Anc[q]
        BY <3>2, <2>1, PathAssumption
      <4>2. QED
        BY <4>1, <2>4
    <3>3. CASE p \notin Anc[q]
      <4>1. Present(t, p)
        BY <3>3, <2>2, <2>5 DEF Present
      <4>2. t[a].kind = "Dir"
        BY <4>1, <2>5 DEF IsTree
      <4>3. QED
        BY <4>2, <3>1, <2>2 DEF Present
    <3>4. QED
      BY <3>2, <3>3
  <2>6. QED
    BY <2>4, <2>5 DEF IsTree
<1>3. QED
  BY <1>1, <1>2

\* Putting an entry where all ancestors are directories and that is not a
\* directory with something in it leaves a tree.
LEMMA PutTree ==
  ASSUME NEW t \in [Path -> Node], IsTree(t), NEW p \in Path, NEW n \in Node,
         \A a \in Anc[p] \ {p} : t[a].kind = "Dir",
         n.kind = "Dir" \/ t[p].kind # "Dir"
  PROVE  /\ [t EXCEPT ![p] = n] \in [Path -> Node]
         /\ IsTree([t EXCEPT ![p] = n])
<1> DEFINE u == [t EXCEPT ![p] = n]
<1>1. u \in [Path -> Node]
  OBVIOUS
<1>2. ASSUME NEW q \in Path, Present(u, q), NEW a \in Anc[q] \ {q}
      PROVE  u[a].kind = "Dir"
  <2>1. a \in Path
    BY PathAssumption
  <2>2. CASE q = p
    BY <2>1, <2>2
  <2>3. CASE q # p
    <3>1. t[a].kind = "Dir"
      BY <1>2, <2>3 DEF IsTree, Present
    <3>2. QED
      BY <3>1, <2>1
  <2>4. QED
    BY <2>2, <2>3
<1>3. QED
  BY <1>1, <1>2 DEF IsTree

\* Writing and cutting a content yields a content.
LEMMA ContentType ==
  ASSUME NEW c \in Content
  PROVE  /\ \A off \in Nat, v \in Block : File(WriteAt(c, off, v)) \in Node
         /\ \A n \in Nat : File(SetLen(c, n)) \in Node
<1>1. ASSUME NEW off \in Nat, NEW v \in Block
      PROVE  WriteAt(c, off, v) \in Content
  <2> DEFINE m == IF off + 1 > Len(c) THEN off + 1 ELSE Len(c)
  <2>1. m \in Nat
    BY DEF Content
  <2>2. \A i \in 1 .. m : (IF i = off + 1 THEN v
                           ELSE IF i <= Len(c) THEN c[i] ELSE Zero) \in Block
    BY <2>1, BlockAssumption DEF Content
  <2>3. QED
    BY <2>1, <2>2 DEF WriteAt, Content
<1>2. ASSUME NEW n \in Nat
      PROVE  SetLen(c, n) \in Content
  <2>1. \A i \in 1 .. n : (IF i <= Len(c) THEN c[i] ELSE Zero) \in Block
    BY BlockAssumption DEF Content
  <2>2. QED
    BY <2>1 DEF SetLen, Content
<1>3. QED
  BY <1>1, <1>2 DEF File, Node

-----------------------------------------------------------------------------
(* What materializing leaves in the overlay *)

\* What every overlay a verb leaves behind has in common.
Sound(o) ==
  /\ o \in [Path -> Node] /\ IsTree(o)
  /\ \A q \in Path : o[q].kind # "Link"
  /\ \A q \in Path :
       o[q].kind = "File" /\ base[q].kind = "Dir" => q \in whiteouts

\* The proper ancestors of a path are its parent's ancestors.
LEMMA Ancestors ==
  ASSUME NEW p \in Path
  PROVE  /\ Parent[p] \in Path \cup {Root}
         /\ Parent[p] = Root  => Anc[p] \ {p} = {}
         /\ Parent[p] # Root => Anc[p] \ {p} = Anc[Parent[p]]
         /\ Anc[p] \subseteq Path
         /\ p \in Anc[p]
BY PathAssumption

\* Where the merged view has a directory or nothing that the overlay knows
\* of, no ancestor is an overlay file.
LEMMA NoFileAbove ==
  ASSUME TypeOK, NEW p \in Path, StatMerged(p) \in {"Dir", "ENOENT"}
  PROVE  \A a \in Anc[p] : overlay[a].kind \in {"None", "Dir"}
<1>1. \A a \in Path : overlay[a].kind \in {"None", "File", "Dir"}
  BY DEF TypeOK, Node
<1>2. p # Root
  BY PathAssumption
<1>3. CASE Present(overlay, p)
  <2>1. overlay[p].kind = "Dir"
    BY <1>1, <1>2, <1>3 DEF StatMerged, OverlayStat, Present
  <2>2. QED
    BY <2>1, <1>3 DEF TypeOK, IsTree
<1>4. CASE ~Present(overlay, p)
  <2>1. ~ \E a \in Anc[p] : overlay[a].kind = "File"
    BY <1>2, <1>4 DEF StatMerged, OverlayStat
  <2>2. QED
    BY <2>1, <1>1, Ancestors
<1>5. QED
  BY <1>3, <1>4

\* The parents of a path are made without touching the path itself.
LEMMA EnsureParentSound ==
  ASSUME IInv, NEW p \in Path
  PROVE  LET up == EnsureOverlayParent(p) IN
         /\ Sound(up.overlay)
         /\ up.overlay[p] = overlay[p]
         /\ up.res \in {"OK", "ENOTDIR"}
         /\ up.res = "OK" => \A a \in Anc[p] \ {p} : up.overlay[a].kind = "Dir"
<1> DEFINE o == MakeDirs(overlay, Parent[p])
<1>1. Sound(overlay)
  BY DEF Sound, IInv, TypeOK, ShadowedDirIsRecorded
<1>2. CASE StatMerged(Parent[p]) \in {"Dir", "ENOENT"}
  <2>1. EnsureOverlayParent(p) = [res |-> "OK", overlay |-> o]
    BY <1>2 DEF EnsureOverlayParent, Done
  <2>2. Parent[p] # Root => \A a \in Anc[Parent[p]] : overlay[a].kind \in {"None", "Dir"}
    BY <1>2, NoFileAbove, Ancestors DEF IInv
  <2>3. /\ IsTree(o)
        /\ Parent[p] # Root => \A a \in Anc[Parent[p]] : o[a].kind = "Dir"
    BY <2>2, <1>1, Ancestors, MakeDirsTree DEF Sound
  <2>4. o \in [Path -> Node]
    BY <1>1, MakeDirsType DEF Sound
  <2>5. \A q \in Path : o[q] = overlay[q] \/ o[q] = Directory
    BY DEF MakeDirs
  <2>6. Sound(o)
    BY <2>3, <2>4, <2>5, <1>1 DEF Sound, Directory
  <2>7. o[p] = overlay[p]
    BY PathAssumption DEF MakeDirs
  <2>8. QED
    BY <2>1, <2>3, <2>6, <2>7, Ancestors
<1>3. CASE StatMerged(Parent[p]) \notin {"Dir", "ENOENT"}
  BY <1>1, <1>3 DEF EnsureOverlayParent, Done
<1>4. QED
  BY <1>2, <1>3

\* A copy-up leaves a sound overlay; one that leaves anything but a
\* directory over a base directory finds the deletion recorded.
LEMMA CopyUpSound ==
  ASSUME IInv, NEW p \in Path
  PROVE  LET up == CopyUp(p) IN
         /\ Sound(up.overlay)
         /\ up.res \in {"OK", "ENOTDIR", "EINVAL"}
         /\ up.res = "OK" =>
              /\ \A a \in Anc[p] \ {p} : up.overlay[a].kind = "Dir"
              /\ up.overlay[p].kind # "Dir" /\ base[p].kind = "Dir"
                   => p \in whiteouts
<1> DEFINE up == EnsureOverlayParent(p)
<1>1. Sound(overlay)
  BY DEF Sound, IInv, TypeOK, ShadowedDirIsRecorded
<1>2. /\ Sound(up.overlay)
      /\ up.overlay[p] = overlay[p]
      /\ up.res \in {"OK", "ENOTDIR"}
      /\ up.res = "OK" => \A a \in Anc[p] \ {p} : up.overlay[a].kind = "Dir"
  BY EnsureParentSound
<1>3. /\ base[p] \in Node
      /\ overlay[p] \in Node
      /\ overlay[p].kind # "Link"
  BY DEF IInv, TypeOK
<1>4. CASE Present(overlay, p)
  <2>1. CopyUp(p) = [res |-> "OK", overlay |-> overlay]
    BY <1>4 DEF CopyUp, Done
  <2>2. \A a \in Anc[p] \ {p} : overlay[a].kind = "Dir"
    BY <1>4 DEF IInv, TypeOK, IsTree
  <2>3. overlay[p].kind # "Dir" => overlay[p].kind = "File"
    BY <1>3, <1>4 DEF Present, Node
  <2>4. QED
    BY <2>1, <2>2, <2>3, <1>1 DEF Sound
<1>5. CASE ~Present(overlay, p) /\ (up.res # "OK" \/ BaseStat(p) = "ENOENT")
  <2>1. CopyUp(p) = up
    BY <1>5 DEF CopyUp
  <2>2. up.res = "OK" => base[p].kind # "Dir"
    BY <1>5, <1>3 DEF BaseStat, Present, Node
  <2>3. QED
    BY <2>1, <2>2, <1>2
<1>6. CASE /\ ~Present(overlay, p) /\ up.res = "OK"
           /\ BaseStat(p) # "ENOENT"
  <2>1. up.overlay[p].kind = "None"
    BY <1>6, <1>2 DEF Present
  <2>2. base[p].kind \in {"File", "Dir", "Link"} /\ BaseStat(p) = base[p].kind
    BY <1>6, <1>3 DEF BaseStat, Present, Node
  <2>3. CASE base[p].kind = "File"
    <3> DEFINE o == [up.overlay EXCEPT ![p] = base[p]]
    <3>1. CopyUp(p) = [res |-> "OK", overlay |-> o]
      BY <1>6, <2>2, <2>3 DEF CopyUp, Done
    <3>2. o \in [Path -> Node] /\ IsTree(o)
      BY <1>2, <1>3, <1>6, <2>1, PutTree DEF Sound
    <3>3. \A a \in Anc[p] \ {p} : o[a].kind = "Dir"
      BY <1>2, <1>6, Ancestors DEF Sound
    <3>4. Sound(o)
      BY <3>2, <2>3, <1>2 DEF Sound
    <3>5. QED
      BY <3>1, <3>3, <3>4, <2>3
  <2>4. CASE base[p].kind = "Dir"
    <3> DEFINE o == [up.overlay EXCEPT ![p] = Directory]
    <3>1. CopyUp(p) = [res |-> "OK", overlay |-> o]
      BY <1>6, <2>2, <2>4 DEF CopyUp, Done
    <3>2. Directory \in Node /\ Directory.kind = "Dir"
      BY DEF Directory, Node, Content
    <3>3. o \in [Path -> Node] /\ IsTree(o)
      BY <1>2, <1>6, <2>1, <3>2, PutTree DEF Sound
    <3>4. \A a \in Anc[p] \ {p} : o[a].kind = "Dir"
      BY <1>2, <1>6, Ancestors DEF Sound
    <3>5. Sound(o) /\ o[p].kind = "Dir"
      BY <3>2, <3>3, <1>2 DEF Sound
    <3>6. QED
      BY <3>1, <3>4, <3>5
  <2>5. CASE base[p].kind = "Link"
    BY <1>2, <1>6, <2>2, <2>5 DEF CopyUp, Done
  <2>6. QED
    BY <2>2, <2>3, <2>4, <2>5
<1>7. QED
  BY <1>4, <1>5, <1>6

\* The same of what a write lands on.
LEMMA LandingSound ==
  ASSUME IInv, NEW p \in Path
  PROVE  LET land == Landing(p) IN
         /\ Sound(land.overlay)
         /\ land.res \in {"OK", "ENOTDIR", "EINVAL"}
         /\ land.res = "OK" =>
              /\ \A a \in Anc[p] \ {p} : land.overlay[a].kind = "Dir"
              /\ land.overlay[p].kind # "Dir" /\ base[p].kind = "Dir"
                   => p \in whiteouts
BY EnsureParentSound, CopyUpSound DEF Landing

-----------------------------------------------------------------------------
(* The inductive invariant *)

\* A verb that leaves a sound overlay and the whiteouts as they are keeps IInv.
LEMMA SoundStep ==
  ASSUME IInv, Sound(overlay'), UNCHANGED <<base, whiteouts>>, res' \in Results
  PROVE  IInv'
<1>1. TypeOK'
  BY DEF IInv, TypeOK, Sound
<1>2. HiddenIsRecorded'
  BY DEF IInv, HiddenIsRecorded, Hidden, Present
<1>3. ShadowedDirIsRecorded'
  BY DEF Sound, ShadowedDirIsRecorded
<1>4. QED
  BY <1>1, <1>2, <1>3 DEF IInv

\* A refusal changes nothing but the answer.
LEMMA AnswerStep ==
  ASSUME IInv, NEW r \in Results, Answer(r)
  PROVE  IInv'
BY DEF Answer, IInv, TypeOK, HiddenIsRecorded, ShadowedDirIsRecorded, Hidden,
       Present, IsTree

LEMMA StatMergedType ==
  ASSUME TypeOK, NEW p \in Path \cup {Root}
  PROVE  StatMerged(p) \in {"File", "Dir", "Link", "ENOENT", "ENOTDIR"}
BY DEF TypeOK, Node, StatMerged, OverlayStat, BaseStat, Present

\* A file put where a write landed.
LEMMA PutFileSound ==
  ASSUME NEW o, Sound(o), NEW p \in Path, NEW c, File(c) \in Node,
         \A a \in Anc[p] \ {p} : o[a].kind = "Dir",
         o[p].kind # "Dir",
         base[p].kind = "Dir" => p \in whiteouts
  PROVE  Sound([o EXCEPT ![p] = File(c)])
<1>1. File(c).kind = "File"
  BY DEF File
<1>2. /\ [o EXCEPT ![p] = File(c)] \in [Path -> Node]
      /\ IsTree([o EXCEPT ![p] = File(c)])
  BY PutTree DEF Sound
<1>3. QED
  BY <1>1, <1>2 DEF Sound

LEMMA PWriteStep ==
  ASSUME IInv, NEW p \in Path, NEW off \in Offsets, NEW v \in Writes,
         PWrite(p, off, v)
  PROVE  IInv'
<1> DEFINE land == Landing(p)
<1>1. /\ Sound(land.overlay)
      /\ land.res \in {"OK", "ENOTDIR", "EINVAL"}
      /\ land.res = "OK" =>
           /\ \A a \in Anc[p] \ {p} : land.overlay[a].kind = "Dir"
           /\ land.overlay[p].kind # "Dir" /\ base[p].kind = "Dir"
                => p \in whiteouts
  BY LandingSound
<1>2. CASE ~Permitted(p) /\ Answer("EROFS")
  BY <1>2, AnswerStep DEF Results
<1>3. CASE PWriteRefused(p)
  BY <1>1, <1>3, SoundStep DEF PWriteRefused, Results
<1>4. CASE PWriteLands(p, off, v)
  <2>1. land.overlay[p] \in Node /\ land.overlay[p].data \in Content
    BY <1>1 DEF Sound, Node
  <2>2. File(WriteAt(land.overlay[p].data, off, v)) \in Node
    BY <2>1, ContentType, CowAssumption
  <2>3. Sound(overlay')
    BY <1>1, <1>4, <2>2, PutFileSound DEF PWriteLands
  <2>4. QED
    BY <1>4, <2>3, SoundStep DEF PWriteLands, Results
<1>5. QED
  BY <1>2, <1>3, <1>4 DEF PWrite

LEMMA TruncateStep ==
  ASSUME IInv, NEW p \in Path, NEW n \in Lengths, Truncate(p, n)
  PROVE  IInv'
<1> DEFINE up == CopyUp(p)
<1>1. StatMerged(p) \in {"File", "Dir", "Link", "ENOENT", "ENOTDIR"}
  BY StatMergedType DEF IInv
<1>2. CASE ~Permitted(p) /\ Answer("EROFS")
  BY <1>2, AnswerStep DEF Results
<1>3. CASE /\ StatMerged(p) # "File"
           /\ Answer(IF StatMerged(p) \in {"Dir", "Link"} THEN "EINVAL"
                     ELSE StatMerged(p))
  BY <1>1, <1>3, AnswerStep DEF Results
<1>4. CASE /\ StatMerged(p) = "File"
           /\ overlay' = [up.overlay EXCEPT ![p] = File(SetLen(@.data, n))]
           /\ res' = "OK"
           /\ UNCHANGED <<base, whiteouts>>
  <2>1. /\ Sound(up.overlay)
        /\ up.res = "OK" =>
             /\ \A a \in Anc[p] \ {p} : up.overlay[a].kind = "Dir"
             /\ up.overlay[p].kind # "Dir" /\ base[p].kind = "Dir"
                  => p \in whiteouts
    BY CopyUpSound
  <2>2. up.res = "OK" /\ up.overlay[p].kind # "Dir"
    <3>1. CASE Present(overlay, p)
      BY <1>4, <3>1, PathAssumption
      DEF CopyUp, Done, StatMerged, OverlayStat
    <3>2. CASE ~Present(overlay, p)
      <4>1. /\ BaseStat(p) = "File" /\ base[p].kind = "File"
            /\ \A a \in Anc[p] : overlay[a].kind # "File"
        BY <1>4, <3>2, PathAssumption
        DEF StatMerged, OverlayStat, BaseStat, Present
      <4>2. ~Hidden(p)
        BY <1>4, <3>2, <4>1, PathAssumption DEF StatMerged, OverlayStat
      <4>3. StatMerged(Parent[p]) \in {"Dir", "ENOENT"}
        <5>1. CASE Parent[p] = Root
          BY <5>1 DEF StatMerged
        <5>2. CASE Parent[p] # Root
          <6>1. /\ Parent[p] \in Path
                /\ Parent[p] \in Anc[p] \ {p}
                /\ \A a \in Anc[Parent[p]] : a \in Anc[p]
            BY <5>2, Ancestors
          <6>2. base[Parent[p]].kind = "Dir"
            BY <6>1, <4>1 DEF IInv, TypeOK, IsTree, Present
          <6>3. OverlayStat(Parent[p]) \in {"Dir", "ENOENT"}
            BY <6>1, <4>1 DEF OverlayStat, IInv, TypeOK, Node, Present
          <6>4. QED
            BY <6>2, <6>3, <5>2 DEF StatMerged, BaseStat, Present
        <5>3. QED
          BY <5>1, <5>2
      <4>4. EnsureOverlayParent(p).res = "OK"
        BY <4>3 DEF EnsureOverlayParent, Done
      <4>5. up = [res |-> "OK", overlay |-> [EnsureOverlayParent(p).overlay
                                               EXCEPT ![p] = base[p]]]
        BY <3>2, <4>1, <4>4 DEF CopyUp, Done
      <4>6. EnsureOverlayParent(p).overlay \in [Path -> Node]
        BY EnsureParentSound DEF Sound
      <4>7. QED
        BY <4>1, <4>5, <4>6
    <3>3. QED
      BY <3>1, <3>2
  <2>3. up.overlay[p] \in Node /\ up.overlay[p].data \in Content
    BY <2>1 DEF Sound, Node
  <2>4. File(SetLen(up.overlay[p].data, n)) \in Node
    BY <2>3, ContentType, CowAssumption
  <2>5. overlay' = [up.overlay EXCEPT ![p] = File(SetLen(up.overlay[p].data, n))]
    BY <1>4, <2>1 DEF Sound
  <2>6. Sound(overlay')
    BY <2>1, <2>2, <2>4, <2>5, PutFileSound
  <2>7. QED
    BY <1>4, <2>6, SoundStep DEF Results
<1>5. QED
  BY <1>2, <1>3, <1>4 DEF Truncate

LEMMA MkdirStep ==
  ASSUME IInv, NEW p \in Path, Mkdir(p)
  PROVE  IInv'
<1>1. CASE \E r \in {"EROFS", "ENOTDIR", "EEXIST", "ENOENT"} : Answer(r)
  BY <1>1, AnswerStep DEF Results
<1>2. CASE /\ StatMerged(p) = "ENOENT"
           /\ StatMerged(Parent[p]) = "Dir"
           /\ overlay' = [MakeDirs(overlay, Parent[p]) EXCEPT ![p] = Directory]
           /\ res' = "OK"
           /\ UNCHANGED <<base, whiteouts>>
  <2> DEFINE up == EnsureOverlayParent(p)
  <2>1. up = [res |-> "OK", overlay |-> MakeDirs(overlay, Parent[p])]
    BY <1>2 DEF EnsureOverlayParent, Done
  <2>2. /\ Sound(up.overlay)
        /\ \A a \in Anc[p] \ {p} : up.overlay[a].kind = "Dir"
    BY <2>1, EnsureParentSound
  <2>3. Directory \in Node /\ Directory.kind = "Dir"
    BY DEF Directory, Node, Content
  <2>4. overlay' = [up.overlay EXCEPT ![p] = Directory]
    BY <1>2, <2>1
  <2>5. overlay' \in [Path -> Node] /\ IsTree(overlay')
    BY <2>2, <2>3, <2>4, PutTree DEF Sound
  <2>6. Sound(overlay')
    BY <2>2, <2>3, <2>4, <2>5 DEF Sound
  <2>7. QED
    BY <1>2, <2>6, SoundStep DEF Results
<1>3. QED
  BY <1>1, <1>2 DEF Mkdir

\* The step that records a deletion.  A directory that looks empty hides all
\* its base children, so each of them, and all below it, has its own record.
LEMMA RemoveStep ==
  ASSUME IInv, NEW p \in Path, Remove(p)
  PROVE  IInv'
<1>1. CASE \E r \in {"EROFS", "ENOTDIR", "ENOTEMPTY", "ENOENT"} : Answer(r)
  BY <1>1, AnswerStep DEF Results
<1>2. CASE /\ \/ StatMerged(p) \in {"File", "Link"}
              \/ StatMerged(p) = "Dir" /\ ReadDir(p) = {}
           /\ overlay' = [overlay EXCEPT ![p] = Absent]
           /\ whiteouts' = whiteouts \cup (IF Present(base, p) THEN {p} ELSE {})
           /\ res' = "OK"
           /\ UNCHANGED base
  <2>1. Absent \in Node /\ Absent.kind = "None"
    BY DEF Absent, Node, Content
  <2>2. overlay' \in [Path -> Node]
    BY <1>2, <2>1 DEF IInv, TypeOK
  <2>4. ASSUME NEW q \in Path, q # p, p \in Anc[q], Present(overlay, q)
        PROVE  FALSE
    <3>1. overlay[p].kind = "Dir"
      BY <2>4 DEF IInv, TypeOK, IsTree
    <3>2. StatMerged(p) = "Dir"
      BY <3>1, PathAssumption DEF StatMerged, OverlayStat, Present
    <3>3. PICK c \in Anc[q] : Parent[c] = p
      BY <2>4, PathAssumption
    <3>4. c \in Path /\ Present(overlay, c)
      BY <2>4, <3>3, PathAssumption DEF IInv, TypeOK, IsTree, Present
    <3>5. QED
      BY <1>2, <3>2, <3>3, <3>4 DEF ReadDir, Children
  <2>5. IsTree(overlay')
    <3>1. ASSUME NEW q \in Path, Present(overlay', q), NEW a \in Anc[q] \ {q}
          PROVE  overlay'[a].kind = "Dir"
      <4>1. q # p /\ Present(overlay, q)
        BY <1>2, <2>1, <3>1 DEF Present, IInv, TypeOK
      <4>2. a # p
        BY <2>4, <3>1, <4>1
      <4>3. overlay[a].kind = "Dir" /\ a \in Path
        BY <3>1, <4>1, PathAssumption DEF IInv, TypeOK, IsTree
      <4>4. QED
        BY <1>2, <4>2, <4>3 DEF IInv, TypeOK
    <3>2. QED
      BY <3>1 DEF IsTree
  <2>6. TypeOK'
    BY <1>2, <2>1, <2>2, <2>5 DEF IInv, TypeOK, Results
  <2>7. ASSUME NEW q \in Path, Present(base, q), p \in Anc[q]
        PROVE  q \in whiteouts'
    <3>1. CASE q = p
      BY <1>2, <2>7, <3>1
    <3>2. CASE q # p /\ Hidden(q)
      BY <1>2, <2>7, <3>2 DEF IInv, HiddenIsRecorded
    <3>3. CASE q # p /\ ~Hidden(q)
      <4>1. base[p].kind = "Dir"
        BY <2>7, <3>3 DEF IInv, TypeOK, IsTree
      <4>2. p \notin whiteouts
        BY <2>7, <3>3 DEF Hidden
      <4>3. overlay[p].kind # "File"
        BY <4>1, <4>2 DEF IInv, ShadowedDirIsRecorded
      <4>4. StatMerged(p) # "File" /\ StatMerged(p) # "Link"
        BY <4>1, <4>3, PathAssumption
        DEF StatMerged, OverlayStat, BaseStat, IInv, TypeOK
      <4>5. ReadDir(p) = {}
        BY <1>2, <4>4
      <4>6. PICK c \in Anc[q] : Parent[c] = p
        BY <2>7, <3>3, PathAssumption
      <4>7. c \in Path /\ Present(base, c)
        BY <2>7, <4>6, PathAssumption DEF IInv, TypeOK, IsTree, Present
      <4>8. Hidden(c)
        BY <4>5, <4>6, <4>7 DEF ReadDir, Children
      <4>9. c \in whiteouts
        BY <4>7, <4>8 DEF IInv, HiddenIsRecorded
      <4>10. QED
        BY <4>6, <4>9, <3>3 DEF Hidden
    <3>4. QED
      BY <3>1, <3>2, <3>3
  <2>8. HiddenIsRecorded'
    <3>1. ASSUME NEW q \in Path, Present(base, q), Anc[q] \cap whiteouts' # {}
          PROVE  q \in whiteouts'
      <4>1. CASE p \in Anc[q]
        BY <2>7, <3>1, <4>1
      <4>2. CASE p \notin Anc[q]
        BY <1>2, <3>1, <4>2 DEF IInv, HiddenIsRecorded, Hidden
      <4>3. QED
        BY <4>1, <4>2
    <3>2. QED
      BY <1>2, <3>1 DEF HiddenIsRecorded, Hidden, Present
  <2>9. ShadowedDirIsRecorded'
    BY <1>2, <2>1 DEF IInv, TypeOK, ShadowedDirIsRecorded
  <2>10. QED
    BY <2>6, <2>8, <2>9 DEF IInv
<1>3. QED
  BY <1>1, <1>2 DEF Remove

LEMMA InitInvariant == Init => IInv
<1>1. Absent \in Node /\ Absent.kind = "None"
  BY DEF Absent, Node, Content
<1>2. QED
  BY <1>1, CowAssumption
  DEF Init, IInv, TypeOK, HiddenIsRecorded, ShadowedDirIsRecorded, Hidden,
      IsTree, Present, Results

LEMMA StepInvariant == IInv /\ [Next]_vars => IInv'
<1> SUFFICES ASSUME IInv, [Next]_vars
             PROVE  IInv'
  OBVIOUS
<1>1. ASSUME NEW p \in Path, NEW off \in Offsets, NEW v \in Writes,
             PWrite(p, off, v)
      PROVE  IInv'
  BY <1>1, PWriteStep
<1>2. ASSUME NEW p \in Path, NEW n \in Lengths, Truncate(p, n)
      PROVE  IInv'
  BY <1>2, TruncateStep
<1>3. ASSUME NEW p \in Path, Mkdir(p)
      PROVE  IInv'
  BY <1>3, MkdirStep
<1>4. ASSUME NEW p \in Path, Remove(p)
      PROVE  IInv'
  BY <1>4, RemoveStep
<1>5. CASE UNCHANGED vars
  BY <1>5 DEF vars, IInv, TypeOK, HiddenIsRecorded, ShadowedDirIsRecorded,
             Hidden, Present, IsTree
<1>6. QED
  BY <1>1, <1>2, <1>3, <1>4, <1>5 DEF Next

\* IInv holds in every reachable state.
THEOREM Invariance == Spec => []IInv
BY InitInvariant, StepInvariant, PTL DEF Spec

\* The state of a mount is well typed, whatever verbs are called on it: in
\* particular the overlay stays a tree without symlinks.
THEOREM TypeCorrect == Spec => []TypeOK
<1>1. IInv => TypeOK
  BY DEF IInv
<1>2. QED
  BY <1>1, Invariance, PTL

\* Each base path that is hidden has a whiteout of its own, so that pwrite,
\* which asks for the path alone, and the readers, which ask for its
\* ancestors, agree on what was deleted.
THEOREM HiddenRecorded == Spec => []HiddenIsRecorded
<1>1. IInv => HiddenIsRecorded
  BY DEF IInv
<1>2. QED
  BY <1>1, Invariance, PTL

-----------------------------------------------------------------------------
(* What a reader is never shown *)

\* A write that lands where the merged view has nothing lands on nothing.
LEMMA LandingFresh ==
  ASSUME IInv, NEW p \in Path, ~Present(View, p), Landing(p).res = "OK"
  PROVE  Landing(p).overlay[p] = Absent
<1> DEFINE up == EnsureOverlayParent(p)
<1>1. up.overlay[p] = overlay[p]
  BY EnsureParentSound
<1>2. base[p] \in Node /\ overlay[p] \in Node
  BY DEF IInv, TypeOK
<1>3. overlay[p] = Absent
  <2>1. overlay[p].kind = "None"
    BY <1>2 DEF View, Present, OverlayStat, Absent, Node
  <2>2. QED
    BY <2>1, <1>2 DEF Node, Absent
<1>4. CASE p \in whiteouts
  BY <1>1, <1>3, <1>4 DEF Landing
<1>5. CASE p \notin whiteouts
  <2>1. ~Present(overlay, p)
    BY <1>3 DEF Present, Absent
  <2>2. Landing(p) = CopyUp(p) /\ up.res = "OK"
    <3>1. Landing(p) = CopyUp(p)
      BY <1>5 DEF Landing
    <3>2. QED
      BY <3>1, <2>1 DEF CopyUp
  <2>3. OverlayStat(p) = "ENOENT"
    <3>1. StatMerged(Parent[p]) \in {"Dir", "ENOENT"}
      BY <2>2 DEF EnsureOverlayParent, Done
    <3>2. Parent[p] # Root => \A a \in Anc[Parent[p]] : overlay[a].kind # "File"
      BY <3>1, NoFileAbove, Ancestors DEF IInv
    <3>3. \A a \in Anc[p] : overlay[a].kind # "File"
      BY <3>2, <1>3, Ancestors DEF Absent
    <3>4. QED
      BY <3>3, <2>1 DEF OverlayStat
  <2>4. ~Present(base, p)
    BY <1>5, <2>3 DEF View, Present, IInv, HiddenIsRecorded
  <2>5. Landing(p) = up
    BY <2>1, <2>2, <2>4 DEF CopyUp, BaseStat
  <2>6. QED
    BY <2>5, <1>1, <1>3
<1>6. QED
  BY <1>4, <1>5

\* A file that appears starts afresh: a write under a name that the merged
\* view does not have never brings back content of a deleted base file.
THEOREM NothingResurrected == Spec => NoResurrection
<1> DEFINE A == \A p \in Path, off \in Offsets, v \in Writes :
                  PWriteLands(p, off, v) /\ ~Present(View, p)
                    => View'[p] = File(WriteAt(<< >>, off, v))
<1>1. ASSUME IInv, NEW p \in Path, NEW off \in Offsets, NEW v \in Writes,
             PWriteLands(p, off, v), ~Present(View, p)
      PROVE  View'[p] = File(WriteAt(<< >>, off, v))
  <2>1. Landing(p).overlay[p] = Absent
    BY <1>1, LandingFresh DEF PWriteLands
  <2>2. Landing(p).overlay \in [Path -> Node]
    BY <1>1, LandingSound DEF Sound
  <2>3. overlay'[p] = File(WriteAt(<< >>, off, v))
    BY <1>1, <2>1, <2>2 DEF PWriteLands, Absent
  <2>4. OverlayStat(p)' # "ENOENT"
    BY <2>3 DEF OverlayStat, Present, File
  <2>5. QED
    BY <2>3, <2>4 DEF View
<1>2. IInv => A
  BY <1>1
<1>3. IInv /\ [Next]_vars => [A]_vars
  BY <1>2
<1>4. QED
  BY <1>3, Invariance, PTL DEF Spec, NoResurrection

\* Making overlay directories of base directories that the view shows
\* changes nothing in the view.
LEMMA MaterializeInvisible ==
  ASSUME IInv, UNCHANGED <<base, whiteouts>>,
         overlay' \in [Path -> Node],
         \A q \in Path : \/ overlay'[q] = overlay[q]
                         \/ /\ overlay'[q] = Directory
                            /\ base[q] = Directory
                            /\ OverlayStat(q) = "ENOENT"
                            /\ ~Hidden(q)
  PROVE  View' = View
<1>1. ASSUME NEW q \in Path
      PROVE  View'[q] = View[q]
  <2>1. \A a \in Path : overlay'[a].kind = "File" <=> overlay[a].kind = "File"
    BY DEF OverlayStat, Directory, Present
  <2>2. \A a \in Anc[q] : a \in Path
    BY PathAssumption
  <2>3. CASE overlay'[q] = overlay[q]
    BY <2>1, <2>2, <2>3 DEF View, OverlayStat, Present, Hidden
  <2>4. CASE /\ overlay'[q] = Directory
             /\ base[q] = Directory
             /\ OverlayStat(q) = "ENOENT"
             /\ ~Hidden(q)
    BY <2>4 DEF View, OverlayStat, Present, Directory
  <2>5. QED
    BY <2>3, <2>4
<1>2. QED
  BY <1>1 DEF View

\* A refused pwrite may have made parents in the overlay, and none is seen.
LEMMA RefusalInvisible ==
  ASSUME IInv, NEW p \in Path, PWriteRefused(p)
  PROVE  View' = View
<1> DEFINE up == EnsureOverlayParent(p)
           o  == MakeDirs(overlay, Parent[p])
<1>1. UNCHANGED <<base, whiteouts>> /\ overlay' = Landing(p).overlay
  BY DEF PWriteRefused
<1>2. overlay' \in [Path -> Node]
  BY <1>1, LandingSound DEF Sound
<1>3. CASE overlay' = overlay
  BY <1>1, <1>3 DEF View, OverlayStat, Present, Hidden
<1>4. CASE overlay' # overlay
  <2>1. up.res = "ENOTDIR" => up.overlay = overlay
    BY DEF EnsureOverlayParent, Done
  <2>2. up.overlay[p] = overlay[p] /\ up.overlay \in [Path -> Node]
    BY EnsureParentSound DEF Sound
  <2>3. base[p] \in Node /\ overlay[p] \in Node /\ overlay[p].kind # "Link"
    BY DEF IInv, TypeOK
  <2>4. ~Present(overlay, p)
    <3>1. ASSUME Present(overlay, p) PROVE FALSE
      <4>1. \A a \in Anc[p] \ {p} : overlay[a].kind = "Dir"
        BY <3>1 DEF IInv, TypeOK, IsTree
      <4>2. \A q \in Path : o[q] = overlay[q]
        BY <4>1, Ancestors DEF MakeDirs, Present
      <4>3. o = overlay
        BY <4>2 DEF MakeDirs, IInv, TypeOK
      <4>4. up.overlay = overlay
        BY <4>3 DEF EnsureOverlayParent, Done
      <4>5. QED
        BY <3>1, <4>4, <1>1, <1>4 DEF Landing, CopyUp, Done
    <3>2. QED
      BY <3>1
  <2>5. p \notin whiteouts /\ up.res = "OK" /\ Present(base, p)
    <3>1. up.res = "OK"
      <4>1. up.res \in {"OK", "ENOTDIR"}
        BY EnsureParentSound
      <4>2. up.res = "ENOTDIR" => Landing(p).overlay = overlay
        BY <2>1, <2>4 DEF Landing, CopyUp
      <4>3. QED
        BY <4>1, <4>2, <1>1, <1>4
    <3>2. Landing(p) # up
      BY <3>1, <2>2, <2>4 DEF PWriteRefused, Present
    <3>3. p \notin whiteouts
      BY <3>2 DEF Landing
    <3>4. Present(base, p)
      BY <3>2, <3>3, <2>4 DEF Landing, CopyUp, BaseStat
    <3>5. QED
      BY <3>1, <3>3, <3>4
  <2>6. ~Hidden(p)
    BY <2>5 DEF IInv, HiddenIsRecorded
  <2>7. up = [res |-> "OK", overlay |-> o] /\ StatMerged(Parent[p]) \in {"Dir", "ENOENT"}
    BY <2>5 DEF EnsureOverlayParent, Done
  <2>8. \A a \in Anc[p] \ {p} : /\ a \in Path
                                /\ overlay[a].kind # "File"
                                /\ ~Hidden(a)
                                /\ base[a] = Directory
    <3>1. ASSUME NEW a \in Anc[p] \ {p}
          PROVE  overlay[a].kind # "File" /\ ~Hidden(a) /\ base[a] = Directory
      <4>1. a \in Path /\ Anc[a] \subseteq Anc[p]
        BY PathAssumption
      <4>2. ~Hidden(a)
        BY <4>1, <2>6 DEF Hidden
      <4>3. base[a].kind = "Dir" /\ base[a] \in Node
        BY <2>5, <4>1 DEF IInv, TypeOK, IsTree
      <4>4. base[a] = Directory
        BY <4>3 DEF Node, Directory
      <4>5. overlay[a].kind # "File"
        BY <2>7, NoFileAbove, Ancestors DEF IInv
      <4>6. QED
        BY <4>2, <4>4, <4>5
    <3>2. QED
      BY <3>1, PathAssumption
  <2>9. base[p].kind # "File"
    <3>1. ASSUME base[p].kind = "File" PROVE FALSE
      <4>1. Landing(p) = [res |-> "OK", overlay |-> [up.overlay EXCEPT ![p] = base[p]]]
        BY <2>4, <2>5, <3>1 DEF Landing, CopyUp, BaseStat, Done
      <4>2. Landing(p).overlay[p].kind = "File"
        BY <4>1, <2>2, <3>1
      <4>3. QED
        BY <4>1, <4>2 DEF PWriteRefused
    <3>2. QED
      BY <3>1
  <2>10. \A q \in Path : q # p => overlay'[q] = o[q]
    BY <1>1, <2>4, <2>5, <2>7, <2>9 DEF Landing, CopyUp, BaseStat, Done, MakeDirs
  <2>11. \/ overlay'[p] = overlay[p]
         \/ overlay'[p] = Directory /\ base[p] = Directory
    <3>1. CASE base[p].kind = "Dir"
      <4>1. base[p] = Directory
        BY <2>3, <3>1 DEF Node, Directory
      <4>2. Landing(p).overlay = [up.overlay EXCEPT ![p] = Directory]
        BY <2>4, <2>5, <3>1 DEF Landing, CopyUp, BaseStat, Done
      <4>3. QED
        BY <4>1, <4>2, <2>2, <1>1
    <3>2. CASE base[p].kind # "Dir"
      <4>1. Landing(p).overlay = up.overlay
        BY <2>4, <2>5, <2>9, <3>2 DEF Landing, CopyUp, BaseStat, Done
      <4>2. QED
        BY <4>1, <2>2, <1>1
    <3>3. QED
      BY <3>1, <3>2
  <2>12. \A a \in Anc[p] : overlay[a].kind # "File"
    BY <2>4, <2>8 DEF Present
  <2>13. ASSUME NEW q \in Path
         PROVE  \/ overlay'[q] = overlay[q]
                \/ /\ overlay'[q] = Directory
                   /\ base[q] = Directory
                   /\ OverlayStat(q) = "ENOENT"
                   /\ ~Hidden(q)
    <3>1. CASE q = p
      BY <3>1, <2>4, <2>6, <2>11, <2>12 DEF OverlayStat
    <3>2. CASE q # p /\ o[q] = overlay[q]
      BY <3>2, <2>10
    <3>3. CASE q # p /\ o[q] # overlay[q]
      <4>1. Parent[p] # Root /\ q \in Anc[Parent[p]] /\ ~Present(overlay, q)
            /\ o[q] = Directory
        BY <3>3 DEF MakeDirs
      <4>2. q \in Anc[p] \ {p} /\ Anc[q] \subseteq Anc[p]
        BY <4>1, Ancestors, PathAssumption
      <4>3. OverlayStat(q) = "ENOENT"
        BY <4>1, <4>2, <2>12 DEF OverlayStat
      <4>4. QED
        BY <3>3, <4>1, <4>2, <4>3, <2>8, <2>10
    <3>4. QED
      BY <3>1, <3>2, <3>3
  <2>14. QED
    BY <1>1, <1>2, <2>13, MaterializeInvisible
<1>5. QED
  BY <1>3, <1>4

\* A verb that fails changes nothing that a reader sees.
THEOREM FailuresInvisible == Spec => FailureIsInvisible
<1> DEFINE A == res' # "OK" => View' = View
<1>1. ASSUME NEW r, Answer(r) PROVE A
  BY <1>1 DEF Answer, View, OverlayStat, Present, Hidden
<1>2. ASSUME IInv, NEW p \in Path, NEW off \in Offsets, NEW v \in Writes,
             PWrite(p, off, v)
      PROVE  A
  BY <1>1, <1>2, RefusalInvisible DEF PWrite, PWriteLands
<1>3. ASSUME NEW p \in Path, NEW n \in Lengths, Truncate(p, n) PROVE A
  BY <1>1, <1>3 DEF Truncate
<1>4. ASSUME NEW p \in Path, Mkdir(p) PROVE A
  BY <1>1, <1>4 DEF Mkdir
<1>5. ASSUME NEW p \in Path, Remove(p) PROVE A
  BY <1>1, <1>5 DEF Remove
<1>6. IInv /\ [Next]_vars => [A]_vars
  BY <1>2, <1>3, <1>4, <1>5 DEF Next
<1>7. QED
  BY <1>6, Invariance, PTL DEF Spec, FailureIsInvisible

-----------------------------------------------------------------------------
(* The merged view is one tree *)

\* The state of the layers at one path, unfolded once.
LEMMA Layers ==
  ASSUME TypeOK
  PROVE  /\ \A p \in Path : base[p] \in Node /\ overlay[p] \in Node
         /\ \A p \in Path : overlay[p].kind \in {"None", "File", "Dir"}
         /\ \A p \in Path : base[p].kind \in {"None", "File", "Dir", "Link"}
BY DEF TypeOK, Node

\* An entry of a kind that carries no content is known by its kind.
LEMMA NodeKinds ==
  ASSUME NEW n \in Node
  PROVE  /\ n.kind = "Dir" => n = Directory
         /\ n.kind = "None" => n = Absent
         /\ n.kind # "File" => n.data = << >>
         /\ n.kind \in {"None", "File", "Dir", "Link"}
         /\ Directory \in Node /\ Absent \in Node
         /\ Directory.kind = "Dir" /\ Absent.kind = "None"
BY DEF Node, Directory, Absent, Content

\* Two paths are not below one another.
LEMMA NoCycle ==
  ASSUME NEW p \in Path, NEW q \in Anc[p], q # p
  PROVE  p \notin Anc[q] /\ q \in Path /\ Anc[q] \subseteq Anc[p] /\ q \in Anc[q]
<1>1. q \in Path /\ q \in Anc[q]
  BY Ancestors
<1>0. Anc[q] \subseteq Anc[p]
  BY PathAssumption, Zenon
<1>2. Parent[p] # Root /\ Parent[p] \in Path /\ q \in Anc[Parent[p]]
  BY Ancestors
<1>3. Anc[q] \subseteq Anc[Parent[p]] /\ p \notin Anc[Parent[p]]
  BY <1>2, PathAssumption
<1> QED
  BY <1>0, <1>1, <1>3

\* Where the overlay has an entry, all above it are directories; where it has
\* a file, the base has nothing below that the view would show.
LEMMA OverlayAbove ==
  ASSUME TypeOK, NEW p \in Path
  PROVE  /\ Present(overlay, p) => \A a \in Anc[p] \ {p} : overlay[a] = Directory
         /\ Present(base, p) => \A a \in Anc[p] \ {p} : base[a] = Directory
<1>1. \A a \in Anc[p] \ {p} : a \in Path
  BY PathAssumption
<1> QED
  BY <1>1, Layers, NodeKinds DEF TypeOK, IsTree

\* What the view has at a path.
Shown(p) ==
  /\ View[p] \in Node
  /\ Present(overlay, p) => View[p] = overlay[p]
  /\ (\E a \in Anc[p] : overlay[a].kind = "File") => View[p] = overlay[p]
  /\ ~Present(overlay, p) /\ (\A a \in Anc[p] : overlay[a].kind # "File")
       => View[p] = IF Hidden(p) THEN Absent ELSE base[p]

LEMMA ViewShown == TypeOK => \A p \in Path : Shown(p)
<1> SUFFICES ASSUME TypeOK, NEW p \in Path PROVE Shown(p)
  OBVIOUS
<1>1. base[p] \in Node /\ overlay[p] \in Node
  BY Layers
<1>2. View[p] = IF OverlayStat(p) # "ENOENT" THEN overlay[p]
                ELSE IF Hidden(p) THEN Absent ELSE base[p]
  BY DEF View
<1>3. Present(overlay, p) => OverlayStat(p) # "ENOENT"
  BY <1>1, NodeKinds DEF OverlayStat, Present
<1>4. ~Present(overlay, p) =>
        (OverlayStat(p) = "ENOENT" <=> \A a \in Anc[p] : overlay[a].kind # "File")
  BY DEF OverlayStat
<1> QED
  BY <1>1, <1>2, <1>3, <1>4, NodeKinds DEF Shown

\* The same of the state a verb leaves.
LEMMA ViewShownNext == TypeOK' => (\A p \in Path : Shown(p))'
BY ViewShown, PTL

LEMMA ViewAt ==
  ASSUME TypeOK, NEW p \in Path
  PROVE  /\ View[p] \in Node
         /\ Present(overlay, p) => View[p] = overlay[p]
         /\ (\E a \in Anc[p] : overlay[a].kind = "File") => View[p] = overlay[p]
         /\ ~Present(overlay, p) /\ (\A a \in Anc[p] : overlay[a].kind # "File")
              => View[p] = IF Hidden(p) THEN Absent ELSE base[p]
BY ViewShown DEF Shown

LEMMA ViewType == ASSUME TypeOK PROVE View \in [Path -> Node]
BY ViewAt DEF View

\* The view is a tree: nothing is shown below what is not a directory.
LEMMA ViewTree ==
  ASSUME IInv
  PROVE  IsTree(View)
<1>1. TypeOK
  BY DEF IInv
<1> SUFFICES ASSUME NEW p \in Path, Present(View, p), NEW a \in Anc[p] \ {p}
             PROVE  View[a].kind = "Dir"
  BY DEF IsTree
<1>2. a \in Path /\ p \in Anc[p] /\ Anc[a] \subseteq Anc[p]
  BY Ancestors, NoCycle
<1>3. CASE Present(overlay, p)
  <2>1. overlay[a] = Directory
    BY <1>1, <1>3, OverlayAbove
  <2> QED
    BY <1>1, <1>2, <2>1, ViewAt, NodeKinds DEF Present, Directory
<1>4. CASE ~Present(overlay, p)
  <2>1. \A b \in Anc[p] : overlay[b].kind # "File"
    BY <1>1, <1>4, ViewAt DEF Present
  <2>2. ~Hidden(p) /\ Present(base, p)
    BY <1>1, <1>4, <2>1, ViewAt DEF Present, Absent
  <2>3. ~Hidden(a) /\ base[a] = Directory
    BY <1>1, <1>2, <2>2, OverlayAbove DEF Hidden
  <2>4. CASE Present(overlay, a)
    <3>1. overlay[a].kind = "Dir"
      BY <1>1, <1>2, <2>1, <2>4, Layers DEF Present
    <3> QED
      BY <1>1, <1>2, <2>4, <3>1, ViewAt
  <2>5. CASE ~Present(overlay, a)
    <3>1. View[a] = base[a]
      BY <1>1, <1>2, <2>1, <2>3, <2>5, ViewAt
    <3> QED
      BY <2>3, <3>1 DEF Directory
  <2> QED
    BY <2>4, <2>5
<1> QED
  BY <1>3, <1>4

\* stat answers from the view; ENOTDIR names a file above that is shown.
LEMMA StatIsView ==
  ASSUME TypeOK, NEW p \in Path
  PROVE  /\ Present(View, p) => StatMerged(p) = View[p].kind
         /\ ~Present(View, p) => StatMerged(p) \in {"ENOENT", "ENOTDIR"}
         /\ StatMerged(p) = "ENOTDIR" =>
              /\ ~Present(overlay, p)
              /\ \E a \in Anc[p] \ {p} : View[a].kind = "File"
<1>1. p # Root /\ base[p] \in Node /\ overlay[p] \in Node
  BY Layers, PathAssumption
<1>2. CASE Present(overlay, p)
  <2>1. StatMerged(p) = overlay[p].kind /\ View[p] = overlay[p]
    <3>1. overlay[p].kind # "ENOENT"
      BY <1>1, NodeKinds
    <3> QED
      BY <1>1, <1>2, <3>1, ViewAt DEF StatMerged, OverlayStat
  <2>2. overlay[p].kind # "ENOTDIR"
    BY <1>1, NodeKinds
  <2> QED
    BY <1>2, <2>1, <2>2 DEF Present
<1>3. CASE ~Present(overlay, p) /\ \E a \in Anc[p] : overlay[a].kind = "File"
  <2>1. PICK a \in Anc[p] : overlay[a].kind = "File"
    BY <1>3
  <2>2. StatMerged(p) = "ENOTDIR" /\ View[p] = overlay[p] /\ a # p /\ a \in Path
    BY <1>1, <1>3, <2>1, ViewAt, PathAssumption DEF StatMerged, OverlayStat, Present
  <2>3. View[a].kind = "File"
    BY <2>1, <2>2, ViewAt DEF Present
  <2> QED
    BY <1>3, <2>2, <2>3 DEF Present
<1>4. CASE ~Present(overlay, p) /\ \A a \in Anc[p] : overlay[a].kind # "File"
  <2>1. OverlayStat(p) = "ENOENT"
    BY <1>4 DEF OverlayStat
  <2>2. StatMerged(p) = IF Hidden(p) THEN "ENOENT" ELSE BaseStat(p)
    BY <1>1, <2>1 DEF StatMerged
  <2>3. View[p] = IF Hidden(p) THEN Absent ELSE base[p]
    BY <1>4, ViewAt
  <2>4. base[p].kind # "ENOTDIR"
    BY <1>1, NodeKinds
  <2> QED
    BY <2>2, <2>3, <2>4 DEF BaseStat, Present, Absent
<1> QED
  BY <1>2, <1>3, <1>4

-----------------------------------------------------------------------------
(* What a verb shows *)

\* The parents of a path, once they are made.
LEMMA ParentShape ==
  ASSUME IInv, NEW p \in Path, StatMerged(Parent[p]) \in {"Dir", "ENOENT"}
  PROVE  LET o == MakeDirs(overlay, Parent[p]) IN
         /\ EnsureOverlayParent(p) = [res |-> "OK", overlay |-> o]
         /\ \A a \in Anc[p] \ {p} : overlay[a].kind # "File" /\ o[a] = Directory
         /\ \A q \in Path : q \notin Anc[p] \/ q = p => o[q] = overlay[q]
         /\ Parent[p] # Root => View[Parent[p]].kind \in {"Dir", "None"}
<1> DEFINE o == MakeDirs(overlay, Parent[p])
<1>1. TypeOK
  BY DEF IInv
<1>2. EnsureOverlayParent(p) = [res |-> "OK", overlay |-> o]
  BY DEF EnsureOverlayParent, Done
<1>3. \A q \in Path : o[q] = IF Parent[p] # Root /\ q \in Anc[Parent[p]] /\ ~Present(overlay, q)
                            THEN Directory ELSE overlay[q]
  BY DEF MakeDirs
<1>4. ASSUME NEW a \in Anc[p] \ {p} PROVE overlay[a].kind # "File" /\ o[a] = Directory
  <2>1. Parent[p] # Root /\ Parent[p] \in Path /\ a \in Anc[Parent[p]] /\ a \in Path
    BY Ancestors
  <2>2. overlay[a].kind \in {"None", "Dir"} /\ overlay[a] \in Node
    BY <1>1, <2>1, NoFileAbove, Layers
  <2> QED
    BY <1>3, <2>1, <2>2, NodeKinds DEF Present
<1>5. ASSUME NEW q \in Path, q \notin Anc[p] \/ q = p PROVE o[q] = overlay[q]
  BY <1>3, <1>5, Ancestors, PathAssumption
<1>6. Parent[p] # Root => View[Parent[p]].kind \in {"Dir", "None"}
  <2>1. ASSUME Parent[p] # Root PROVE Parent[p] \in Path
    BY <2>1, Ancestors
  <2>2. ASSUME NEW q \in Path, StatMerged(q) \in {"Dir", "ENOENT"}
        PROVE  View[q].kind \in {"Dir", "None"}
    BY <1>1, <2>2, StatIsView, ViewAt, NodeKinds DEF Present
  <2> QED
    BY <2>1, <2>2
<1> QED
  BY <1>2, <1>4, <1>5, <1>6

\* What a write lands on is what a reader was shown, and nothing but the
\* parents has been made for it.
Shape(p, o) ==
  /\ \A a \in Anc[p] \ {p} : overlay[a].kind # "File" /\ o[a] = Directory
  /\ \A q \in Path \ Anc[p] : o[q] = overlay[q]
  /\ o[p] = View[p]
  /\ Parent[p] # Root => View[Parent[p]].kind \in {"Dir", "None"}

LEMMA CopyUpShape ==
  ASSUME IInv, NEW p \in Path, CopyUp(p).res = "OK", Present(overlay, p) \/ p \notin whiteouts
  PROVE  Shape(p, CopyUp(p).overlay)
<1> DEFINE up == EnsureOverlayParent(p)
           o == MakeDirs(overlay, Parent[p])
<1>1. TypeOK /\ base[p] \in Node /\ overlay[p] \in Node
  BY Layers DEF IInv
<1>2. CASE Present(overlay, p)
  <2>1. CopyUp(p) = [res |-> "OK", overlay |-> overlay]
    BY <1>2 DEF CopyUp, Done
  <2>2. View[p] = overlay[p] /\ \A a \in Anc[p] \ {p} : a \in Path /\ overlay[a] = Directory
    BY <1>1, <1>2, ViewAt, OverlayAbove, PathAssumption
  <2>3. \A a \in Anc[p] \ {p} : View[a].kind = "Dir" /\ overlay[a].kind # "File"
    BY <1>1, <2>2, ViewAt DEF Present, Directory
  <2>4. Parent[p] # Root => Parent[p] \in Anc[p] \ {p}
    BY Ancestors
  <2> QED
    BY <2>1, <2>2, <2>3, <2>4 DEF Shape
<1>3. CASE ~Present(overlay, p)
  <2>1. up.res = "OK"
    BY <1>3 DEF CopyUp
  <2>2. StatMerged(Parent[p]) \in {"Dir", "ENOENT"}
    BY <2>1 DEF EnsureOverlayParent, Done
  <2>3. /\ up = [res |-> "OK", overlay |-> o]
        /\ \A a \in Anc[p] \ {p} : overlay[a].kind # "File" /\ o[a] = Directory
        /\ \A q \in Path : q \notin Anc[p] \/ q = p => o[q] = overlay[q]
        /\ Parent[p] # Root => View[Parent[p]].kind \in {"Dir", "None"}
    BY <2>2, ParentShape
  <2>4. View[p] = base[p] \/ (View[p] = Absent /\ ~Present(base, p))
    <3>1. \A a \in Anc[p] : overlay[a].kind # "File"
      BY <1>3, <2>3 DEF Present
    <3>2. View[p] = IF Hidden(p) THEN Absent ELSE base[p]
      BY <1>1, <1>3, <3>1, ViewAt
    <3>3. Present(base, p) => ~Hidden(p)
      BY <1>3 DEF IInv, HiddenIsRecorded
    <3> QED
      BY <3>2, <3>3
  <2>5. o \in [Path -> Node] /\ overlay[p] = Absent /\ o[p] = Absent
    <3>1. overlay[p] = Absent
      BY <1>1, <1>3, NodeKinds DEF Present
    <3> QED
      BY <2>3, <3>1, EnsureParentSound DEF Sound
  <2> HIDE DEF o
  <2>6. CASE ~Present(base, p)
    <3>1. CopyUp(p).overlay = o
      BY <1>3, <2>3, <2>6 DEF CopyUp, BaseStat
    <3>2. View[p] = Absent
      BY <1>1, <2>4, <2>6, NodeKinds DEF Present
    <3> QED
      BY <2>3, <2>5, <3>1, <3>2 DEF Shape
  <2>7. CASE Present(base, p)
    <3>1. CopyUp(p).overlay = [o EXCEPT ![p] = base[p]]
      <4>1. base[p].kind \in {"File", "Dir"} /\ BaseStat(p) = base[p].kind
        BY <1>1, <1>3, <2>3, <2>7, NodeKinds DEF CopyUp, BaseStat, Present, Done
      <4>2. CASE base[p].kind = "File"
        BY <1>3, <2>3, <4>1, <4>2 DEF CopyUp, Done
      <4>3. CASE base[p].kind = "Dir"
        <5>1. base[p] = Directory
          BY <1>1, <4>3, NodeKinds
        <5> QED
          BY <1>3, <2>3, <4>1, <4>3, <5>1 DEF CopyUp, Done
      <4> QED
        BY <4>1, <4>2, <4>3
    <3>2. View[p] = base[p]
      BY <2>4, <2>7
    <3>3. \A a \in Anc[p] \ {p} : a \in Path
      BY PathAssumption
    <3>4. p \in Anc[p]
      BY Ancestors
    <3> QED
      BY <2>3, <2>5, <3>1, <3>2, <3>3, <3>4 DEF Shape
  <2> QED
    BY <2>6, <2>7
<1> QED
  BY <1>2, <1>3

LEMMA LandingShape ==
  ASSUME IInv, NEW p \in Path, Landing(p).res = "OK"
  PROVE  Shape(p, Landing(p).overlay)
<1>1. CASE p \notin whiteouts
  <2>1. Landing(p) = CopyUp(p)
    BY <1>1 DEF Landing
  <2> QED
    BY <1>1, <2>1, CopyUpShape
<1>2. CASE p \in whiteouts
  <2> DEFINE o == MakeDirs(overlay, Parent[p])
  <2>1. Landing(p) = EnsureOverlayParent(p) /\ EnsureOverlayParent(p).res = "OK"
    BY <1>2 DEF Landing
  <2>2. StatMerged(Parent[p]) \in {"Dir", "ENOENT"}
    BY <2>1 DEF EnsureOverlayParent, Done
  <2>3. /\ Landing(p).overlay = o
        /\ \A a \in Anc[p] \ {p} : overlay[a].kind # "File" /\ o[a] = Directory
        /\ \A q \in Path : q \notin Anc[p] \/ q = p => o[q] = overlay[q]
        /\ Parent[p] # Root => View[Parent[p]].kind \in {"Dir", "None"}
    BY <2>1, <2>2, ParentShape
  <2>4. TypeOK /\ overlay[p] \in Node /\ p \in Anc[p]
    BY Layers, Ancestors DEF IInv
  <2>5. View[p] = overlay[p]
    <3>1. CASE Present(overlay, p)
      BY <2>4, <3>1, ViewAt
    <3>2. CASE ~Present(overlay, p)
      <4>1. \A a \in Anc[p] : overlay[a].kind # "File"
        BY <2>3, <3>2 DEF Present
      <4>2. Hidden(p)
        BY <1>2, <2>4 DEF Hidden
      <4> QED
        BY <2>4, <3>2, <4>1, <4>2, ViewAt, NodeKinds DEF Present
    <3> QED
      BY <3>1, <3>2
  <2> HIDE DEF o
  <2> QED
    BY <2>3, <2>5 DEF Shape
<1> QED
  BY <1>1, <1>2

\* The view once the entry n is at p and its ancestors are directories.
Put(p, n) ==
  [q \in Path |-> IF q = p THEN n ELSE IF q \in Anc[p] THEN Directory ELSE View[q]]

\* Putting a file or a new directory into the overlay shows that, with its
\* parents, and nothing else: below a file nothing was shown before.
LEMMA PutView ==
  ASSUME IInv, NEW p \in Path, NEW n \in Node, n.kind \in {"File", "Dir"},
         UNCHANGED <<base, whiteouts>>, TypeOK', NEW o, Shape(p, o),
         overlay' = [o EXCEPT ![p] = n], o \in [Path -> Node],
         n.kind = "File" => View[p].kind # "Dir",
         n.kind = "Dir" => ~Present(overlay, p)
  PROVE  View' = Put(p, n)
<1>1. TypeOK /\ IsTree(View) /\ p \in Anc[p]
  BY ViewTree, Ancestors DEF IInv
<1>2. overlay'[p] = n /\ \A q \in Path : q # p => overlay'[q] = o[q]
  OBVIOUS
<1>3. \A q \in Path :
        /\ Present(overlay', q) => View'[q] = overlay'[q]
        /\ (\E a \in Anc[q] : overlay'[a].kind = "File") => View'[q] = overlay'[q]
        /\ ~Present(overlay', q) /\ (\A a \in Anc[q] : overlay'[a].kind # "File")
             => View'[q] = IF Hidden(q) THEN Absent ELSE base[q]
  BY ViewShownNext DEF Shown, Present, Hidden
<1>4. View'[p] = n
  BY <1>2, <1>3 DEF Present
<1>5. ASSUME NEW q \in Path, q \in Anc[p] \ {p} PROVE View'[q] = Directory
  <2>1. overlay'[q] = Directory
    BY <1>2, <1>5 DEF Shape
  <2> QED
    BY <1>3, <2>1 DEF Present, Directory
<1>6. ASSUME NEW q \in Path, q \notin Anc[p] PROVE View'[q] = View[q]
  <2>1. overlay'[q] = overlay[q]
    BY <1>1, <1>2, <1>6 DEF Shape
  <2>2. CASE n.kind = "File" /\ p \in Anc[q]
    <3>1. ~Present(overlay, q)
      <4>1. ASSUME Present(overlay, q) PROVE overlay[p] = Directory
        BY <1>1, <1>6, <2>2, <4>1, OverlayAbove
      <4>2. overlay[p] = Directory => View[p].kind = "Dir"
        BY <1>1, ViewAt DEF Present, Directory
      <4> QED
        BY <2>2, <4>1, <4>2
    <3>2. View'[q] = overlay[q]
      BY <1>2, <1>3, <2>1, <2>2
    <3>3. ~Present(View, q)
      BY <1>1, <1>6, <2>2 DEF IsTree
    <3>4. View[q] = Absent /\ overlay[q] = Absent
      BY <1>1, <3>1, <3>3, ViewAt, Layers, NodeKinds DEF Present
    <3> QED
      BY <3>2, <3>4
  <2>3. CASE n.kind = "Dir" \/ p \notin Anc[q]
    <3>1. ASSUME NEW a \in Anc[q]
          PROVE  overlay'[a].kind = "File" <=> overlay[a].kind = "File"
      <4>1. a \in Path
        BY Ancestors
      <4>2. CASE a = p
        BY <1>1, <1>2, <2>3, <4>2, <3>1, Layers DEF Present
      <4>3. CASE a # p /\ a \in Anc[p]
        BY <1>2, <4>1, <4>3 DEF Shape, Directory
      <4>4. CASE a # p /\ a \notin Anc[p]
        BY <1>2, <4>1, <4>4 DEF Shape
      <4> QED
        BY <4>2, <4>3, <4>4
    <3>2. /\ Present(overlay, q) => View[q] = overlay[q]
          /\ (\E a \in Anc[q] : overlay[a].kind = "File") => View[q] = overlay[q]
          /\ ~Present(overlay, q) /\ (\A a \in Anc[q] : overlay[a].kind # "File")
               => View[q] = IF Hidden(q) THEN Absent ELSE base[q]
      BY <1>1, ViewAt
    <3>3. Present(overlay', q) <=> Present(overlay, q)
      BY <2>1 DEF Present
    <3> QED
      BY <1>3, <2>1, <3>1, <3>2, <3>3
  <2> QED
    BY <2>2, <2>3
<1>7. View' = [q \in Path |-> View'[q]]
  BY DEF View
<1> QED
  BY <1>4, <1>5, <1>6, <1>7 DEF Put

\* Something above the path is there and is not a directory.
Blocked(p) == \E a \in Anc[p] \ {p} : View[a].kind \in {"File", "Link"}

\* A parent that stat does not find to be a directory or absent blocks.
LEMMA BadParentBlocks ==
  ASSUME IInv, NEW p \in Path, StatMerged(Parent[p]) \notin {"Dir", "ENOENT"}
  PROVE  Blocked(p)
<1>1. TypeOK /\ Parent[p] # Root
  BY DEF IInv, StatMerged
<1>2. Parent[p] \in Path /\ Anc[p] \ {p} = Anc[Parent[p]] /\ Parent[p] \in Anc[Parent[p]]
  BY <1>1, Ancestors
<1>3. CASE Present(View, Parent[p])
  <2>1. View[Parent[p]].kind \in {"File", "Link"}
    BY <1>1, <1>2, <1>3, StatIsView, ViewAt, NodeKinds DEF Present
  <2> QED
    BY <1>2, <2>1 DEF Blocked
<1>4. CASE ~Present(View, Parent[p])
  BY <1>1, <1>2, <1>4, StatIsView DEF Blocked
<1> QED
  BY <1>3, <1>4

\* What a refused write answers is so in the view.
LEMMA RefusedShown ==
  ASSUME IInv, NEW p \in Path, PWriteRefused(p)
  PROVE  /\ View' = View
         /\ \/ res' = "ENOTDIR" /\ Blocked(p)
            \/ res' = "EISDIR" /\ View[p].kind = "Dir"
            \/ res' = "EINVAL" /\ View[p].kind = "Link"
<1> DEFINE land == Landing(p)
           up == EnsureOverlayParent(p)
<1>1. View' = View
  BY RefusalInvisible
<1>2. TypeOK /\ base[p] \in Node /\ overlay[p] \in Node /\ p \in Anc[p]
  BY Layers, Ancestors DEF IInv
<1>3. CASE land.res = "OK"
  <2>1. land.overlay[p] = View[p]
    BY <1>3, LandingShape DEF Shape
  <2> QED
    BY <1>1, <1>3, <2>1 DEF PWriteRefused
<1>4. CASE land.res = "ENOTDIR"
  <2>1. up.res = "ENOTDIR"
    <3>1. up.res \in {"OK", "ENOTDIR"}
      BY EnsureParentSound
    <3>2. land = up \/ up.res # "OK" \/ land.res # "ENOTDIR"
      BY DEF Landing, CopyUp, Done
    <3> QED
      BY <1>4, <3>1, <3>2
  <2>2. Blocked(p)
    BY <2>1, BadParentBlocks DEF EnsureOverlayParent, Done
  <2>3. res' = "ENOTDIR"
    BY <1>4 DEF PWriteRefused
  <2> QED
    BY <1>1, <2>2, <2>3
<1>5. CASE land.res = "EINVAL"
  <2>1. /\ p \notin whiteouts /\ up.res = "OK" /\ ~Present(overlay, p)
        /\ Present(base, p) /\ base[p].kind = "Link"
    <3>1. up.res \in {"OK", "ENOTDIR"}
      BY EnsureParentSound
    <3>2. p \notin whiteouts /\ land = CopyUp(p)
      BY <1>5, <3>1 DEF Landing
    <3>3. ~Present(overlay, p) /\ up.res = "OK" /\ Present(base, p)
          /\ base[p].kind \notin {"File", "Dir"}
      BY <1>5, <3>1, <3>2 DEF CopyUp, Done, BaseStat
    <3> QED
      BY <1>2, <3>2, <3>3, NodeKinds DEF Present
  <2>2. StatMerged(Parent[p]) \in {"Dir", "ENOENT"}
    BY <2>1 DEF EnsureOverlayParent, Done
  <2>3. \A a \in Anc[p] : overlay[a].kind # "File"
    BY <2>1, <2>2, ParentShape DEF Present
  <2>4. ~Hidden(p)
    BY <2>1 DEF IInv, HiddenIsRecorded
  <2>5. View[p] = base[p]
    BY <1>2, <2>1, <2>3, <2>4, ViewAt
  <2>6. res' = "EINVAL"
    BY <1>5 DEF PWriteRefused
  <2> QED
    BY <1>1, <2>1, <2>5, <2>6
<1>6. land.res \in {"OK", "ENOTDIR", "EINVAL"}
  BY LandingSound
<1> QED
  BY <1>3, <1>4, <1>5, <1>6

\* What a write that lands shows.
LEMMA WriteShown ==
  ASSUME IInv, TypeOK', NEW p \in Path, NEW off \in Offsets, NEW v \in Writes,
         PWriteLands(p, off, v)
  PROVE  /\ View[p].kind \in {"None", "File"}
         /\ View' = Put(p, File(WriteAt(View[p].data, off, v)))
         /\ Parent[p] # Root => View[Parent[p]].kind \in {"Dir", "None"}
         /\ \A a \in Anc[p] \ {p} : overlay[a].kind # "File"
<1> DEFINE o == Landing(p).overlay
           n == File(WriteAt(o[p].data, off, v))
<1>1. /\ Landing(p).res = "OK" /\ o[p].kind # "Dir"
      /\ overlay' = [o EXCEPT ![p] = n] /\ UNCHANGED <<base, whiteouts>>
  BY DEF PWriteLands
<1>2. Shape(p, o) /\ o \in [Path -> Node] /\ \A q \in Path : o[q].kind # "Link"
  BY <1>1, LandingShape, LandingSound DEF Sound
<1>3. o[p] = View[p] /\ o[p] \in Node
  BY <1>2 DEF Shape
<1>4. View[p].kind \in {"None", "File"}
  BY <1>1, <1>2, <1>3, NodeKinds
<1>5. n \in Node /\ n.kind = "File"
  <2>1. o[p].data \in Content
    BY <1>3 DEF Node
  <2> QED
    BY <2>1, ContentType, CowAssumption DEF File
<1>6. n = File(WriteAt(View[p].data, off, v))
  BY <1>3
<1> HIDE DEF o, n
<1>7. View' = Put(p, n)
  BY <1>1, <1>2, <1>4, <1>5, PutView
<1> QED
  BY <1>2, <1>4, <1>6, <1>7 DEF Shape

\* What a truncate that is done shows.
LEMMA TruncateShown ==
  ASSUME IInv, TypeOK', NEW p \in Path, NEW n \in Lengths, StatMerged(p) = "File",
         overlay' = [CopyUp(p).overlay EXCEPT ![p] = File(SetLen(@.data, n))],
         UNCHANGED <<base, whiteouts>>
  PROVE  View[p].kind = "File" /\ View' = [View EXCEPT ![p] = File(SetLen(View[p].data, n))]
<1> DEFINE o == CopyUp(p).overlay
           f == File(SetLen(o[p].data, n))
<1>1. TypeOK /\ View[p].kind = "File" /\ IsTree(View) /\ View \in [Path -> Node]
      /\ overlay[p] \in Node /\ base[p] \in Node /\ p \in Anc[p]
  BY StatIsView, ViewTree, ViewType, Layers, Ancestors DEF IInv
<1>2. Present(overlay, p) \/ p \notin whiteouts
  BY <1>1, ViewAt DEF Hidden, Present, Absent
<1>3. CopyUp(p).res = "OK"
  <2>1. CASE Present(overlay, p)
    BY <2>1 DEF CopyUp, Done
  <2>2. CASE ~Present(overlay, p)
    <3>1. \A a \in Anc[p] : overlay[a].kind # "File"
      BY <1>1, <2>2, ViewAt DEF Present
    <3>2. View[p] = base[p]
      BY <1>1, <2>2, <3>1, ViewAt DEF Absent
    <3>3. StatMerged(Parent[p]) \in {"Dir", "ENOENT"}
      <4>1. CASE Parent[p] = Root
        BY <4>1 DEF StatMerged
      <4>2. CASE Parent[p] # Root
        <5>1. Parent[p] \in Path /\ Parent[p] \in Anc[p] \ {p}
          BY <4>2, Ancestors
        <5>2. View[Parent[p]].kind = "Dir"
          BY <1>1, <5>1 DEF IsTree, Present
        <5> QED
          BY <1>1, <5>1, <5>2, StatIsView DEF Present
      <4> QED
        BY <4>1, <4>2
    <3>4. EnsureOverlayParent(p).res = "OK" /\ BaseStat(p) = "File"
      BY <1>1, <3>2, <3>3 DEF EnsureOverlayParent, Done, BaseStat, Present
    <3> QED
      BY <2>2, <3>4 DEF CopyUp, Done
  <2> QED
    BY <2>1, <2>2
<1>4. Shape(p, o) /\ o \in [Path -> Node]
  BY <1>2, <1>3, CopyUpShape, CopyUpSound DEF Sound
<1>5. overlay' = [o EXCEPT ![p] = f] /\ o[p] = View[p]
  BY <1>4 DEF Shape
<1>6. f \in Node /\ f.kind = "File" /\ f = File(SetLen(View[p].data, n))
  <2>1. View[p].data \in Content
    BY <1>1 DEF Node
  <2> QED
    BY <1>5, <2>1, ContentType, CowAssumption DEF File
<1> HIDE DEF o, f
<1>7. View' = Put(p, f)
  BY <1>1, <1>4, <1>5, <1>6, PutView
<1>8. \A a \in Anc[p] \ {p} : View[a] = Directory /\ a \in Path
  BY <1>1, Ancestors, NodeKinds DEF IsTree, Present
<1>9. Put(p, f) = [View EXCEPT ![p] = f]
  BY <1>1, <1>8 DEF Put
<1> QED
  BY <1>1, <1>6, <1>7, <1>9

\* What a mkdir that is done shows.
LEMMA MkdirShown ==
  ASSUME IInv, TypeOK', NEW p \in Path, StatMerged(p) = "ENOENT", StatMerged(Parent[p]) = "Dir",
         overlay' = [MakeDirs(overlay, Parent[p]) EXCEPT ![p] = Directory],
         UNCHANGED <<base, whiteouts>>
  PROVE  /\ ~Present(View, p)
         /\ Parent[p] # Root => View[Parent[p]].kind = "Dir"
         /\ View' = [View EXCEPT ![p] = Directory]
<1> DEFINE o == MakeDirs(overlay, Parent[p])
<1>1. TypeOK /\ IsTree(View) /\ View \in [Path -> Node] /\ overlay[p] \in Node
  BY ViewTree, ViewType, Layers DEF IInv
<1>2. ~Present(View, p) /\ ~Present(overlay, p)
  BY <1>1, StatIsView, ViewAt, NodeKinds DEF Present
<1>3. Parent[p] # Root => View[Parent[p]].kind = "Dir"
  <2>1. ASSUME NEW q \in Path, StatMerged(q) = "Dir" PROVE View[q].kind = "Dir"
    BY <1>1, <2>1, StatIsView
  <2> QED
    BY <2>1, Ancestors
<1>4. \A a \in Anc[p] \ {p} : View[a] = Directory /\ a \in Path
  <2>1. ASSUME NEW a \in Anc[p] \ {p} PROVE View[a].kind = "Dir" /\ a \in Path
    <3>1. Parent[p] # Root /\ Parent[p] \in Path /\ a \in Anc[Parent[p]] /\ a \in Path
      BY Ancestors
    <3> QED
      BY <1>1, <1>3, <3>1 DEF IsTree, Present
  <2> QED
    BY <1>1, <2>1, NodeKinds
<1>5. Shape(p, [o EXCEPT ![p] = View[p]]) /\ o \in [Path -> Node]
  <2>1. /\ EnsureOverlayParent(p).overlay = o
        /\ \A a \in Anc[p] \ {p} : overlay[a].kind # "File" /\ o[a] = Directory
        /\ \A q \in Path : q \notin Anc[p] \/ q = p => o[q] = overlay[q]
    BY ParentShape
  <2>2. o \in [Path -> Node]
    BY <2>1, EnsureParentSound DEF Sound
  <2>3. p \in Anc[p]
    BY Ancestors
  <2> HIDE DEF o
  <2> QED
    BY <1>3, <1>4, <2>1, <2>2, <2>3 DEF Shape
<1>6. Directory \in Node /\ Directory.kind = "Dir"
  BY <1>1, NodeKinds
<1> HIDE DEF o
<1>7. overlay' = [[o EXCEPT ![p] = View[p]] EXCEPT ![p] = Directory]
      /\ [o EXCEPT ![p] = View[p]] \in [Path -> Node]
  BY <1>1, <1>5 DEF o
<1>8. View' = Put(p, Directory)
  BY <1>2, <1>5, <1>6, <1>7, PutView
<1>9. Put(p, Directory) = [View EXCEPT ![p] = Directory]
  BY <1>1, <1>4 DEF Put
<1> QED
  BY <1>2, <1>3, <1>8, <1>9

\* What a remove that is done shows: nothing was below the path, and nothing
\* of the base comes up there.
LEMMA RemoveShown ==
  ASSUME IInv, TypeOK', NEW p \in Path,
         StatMerged(p) \in {"File", "Link"} \/ (StatMerged(p) = "Dir" /\ ReadDir(p) = {}),
         overlay' = [overlay EXCEPT ![p] = Absent],
         whiteouts' = whiteouts \cup (IF Present(base, p) THEN {p} ELSE {}), base' = base
  PROVE  /\ Present(View, p) /\ \A c \in Children(p) : ~Present(View, c)
         /\ View' = [View EXCEPT ![p] = Absent]
<1>1. /\ TypeOK /\ IsTree(View) /\ View \in [Path -> Node] /\ p \in Anc[p]
      /\ Absent \in Node /\ Absent.kind = "None"
  BY ViewTree, ViewType, Ancestors, NodeKinds DEF IInv
<1>2. Present(View, p)
  BY <1>1, StatIsView
<1>3. \A c \in Children(p) : ~Present(View, c)
  <2> SUFFICES ASSUME NEW c \in Children(p), Present(View, c) PROVE FALSE
    OBVIOUS
  <2>1. c \in Path /\ p \in Anc[c] \ {c}
    <3>1. c \in Path /\ Parent[c] = p /\ p # Root
      BY PathAssumption DEF Children
    <3>2. c # p
      BY <3>1, <1>1, PathAssumption
    <3> QED
      BY <1>1, <3>1, <3>2, Ancestors
  <2>2. View[p].kind = "Dir"
    BY <1>1, <2>1 DEF IsTree
  <2>3. ReadDir(p) = {}
    BY <1>1, <1>2, <2>2, StatIsView
  <2>4. ~Present(overlay, c) /\ (Present(base, c) => Hidden(c))
    BY <2>3 DEF ReadDir
  <2> QED
    BY <1>1, <2>1, <2>4, ViewAt, Layers DEF Present, Absent
<1>4. \A q \in Path :
        /\ Present(overlay', q) => View'[q] = overlay'[q]
        /\ (\E a \in Anc[q] : overlay'[a].kind = "File") => View'[q] = overlay'[q]
        /\ ~Present(overlay', q) /\ (\A a \in Anc[q] : overlay'[a].kind # "File")
             => View'[q] = IF Anc[q] \cap whiteouts' # {} THEN Absent ELSE base[q]
  BY ViewShownNext DEF Shown, Present, Hidden
<1>5. overlay'[p] = Absent /\ \A q \in Path : q # p => overlay'[q] = overlay[q]
  BY <1>1 DEF TypeOK
<1>6. ASSUME NEW q \in Path, p \in Anc[q] PROVE View'[q] = Absent
  <2>1. q # p => ~Present(View, q)
    <3> SUFFICES ASSUME q # p, Present(View, q) PROVE FALSE
      OBVIOUS
    <3>1. PICK c \in Anc[q] : Parent[c] = p
      BY <1>6, PathAssumption
    <3>2. c \in Path /\ c \in Children(p)
      BY <3>1, Ancestors DEF Children
    <3>3. Present(View, c)
      BY <1>1, <3>1, <3>2 DEF IsTree, Present
    <3> QED
      BY <1>3, <3>2, <3>3
  <2>2. q # p => overlay[q] = Absent
    BY <1>1, <2>1, ViewAt, Layers, NodeKinds DEF Present
  <2>3. overlay'[q] = Absent
    BY <1>5, <2>2
  <2>4. CASE \E a \in Anc[q] : overlay'[a].kind = "File"
    BY <1>4, <2>3, <2>4
  <2>5. CASE \A a \in Anc[q] : overlay'[a].kind # "File"
    <3>1. View'[q] = IF Anc[q] \cap whiteouts' # {} THEN Absent ELSE base[q]
      BY <1>1, <1>4, <2>3, <2>5 DEF Present
    <3>2. Present(base, q) => Present(base, p)
      BY <1>1, <1>6, OverlayAbove DEF Present, Directory
    <3>3. Present(base, p) => p \in whiteouts'
      OBVIOUS
    <3> QED
      BY <1>1, <1>6, <3>1, <3>2, <3>3, Layers, NodeKinds DEF Present
  <2> QED
    BY <2>4, <2>5
<1>7. ASSUME NEW q \in Path, p \notin Anc[q] PROVE View'[q] = View[q]
  <2>1. overlay'[q] = overlay[q] /\ \A a \in Anc[q] : overlay'[a] = overlay[a]
    BY <1>1, <1>5, <1>7, Ancestors
  <2>2. Anc[q] \cap whiteouts' # {} <=> Hidden(q)
    BY <1>7 DEF Hidden
  <2>3. /\ Present(overlay, q) => View[q] = overlay[q]
        /\ (\E a \in Anc[q] : overlay[a].kind = "File") => View[q] = overlay[q]
        /\ ~Present(overlay, q) /\ (\A a \in Anc[q] : overlay[a].kind # "File")
             => View[q] = IF Hidden(q) THEN Absent ELSE base[q]
    BY <1>1, ViewAt
  <2>4. Present(overlay', q) <=> Present(overlay, q)
    BY <2>1 DEF Present
  <2> QED
    BY <1>4, <2>1, <2>2, <2>3, <2>4
<1>8. View' = [q \in Path |-> View'[q]]
  BY DEF View
<1>9. \A q \in Path : q # p /\ p \in Anc[q] => View[q] = Absent
  <2> SUFFICES ASSUME NEW q \in Path, q # p, p \in Anc[q], Present(View, q) PROVE FALSE
    BY <1>1, NodeKinds DEF Present
  <2>1. PICK c \in Anc[q] : Parent[c] = p
    BY PathAssumption
  <2>2. c \in Path /\ c \in Children(p)
    BY <2>1, Ancestors DEF Children
  <2>3. Present(View, c)
    BY <1>1, <2>1, <2>2 DEF IsTree, Present
  <2> QED
    BY <1>3, <2>2, <2>3
<1> QED
  BY <1>1, <1>2, <1>3, <1>6, <1>7, <1>8, <1>9

-----------------------------------------------------------------------------
(* The refinement *)

\* The effect of a write over a view in which nothing blocks it, and over one
\* in which something does.
LEMMA PutIsMakeDirs ==
  ASSUME IInv, NEW p \in Path, NEW n
  PROVE  /\ ~Blocked(p) => Put(p, n) = [MakeDirs(View, Parent[p]) EXCEPT ![p] = n]
         /\ Put(p, n) = [[q \in Path |-> IF q \in Anc[p] \ {p} THEN Directory ELSE View[q]]
                          EXCEPT ![p] = n]
<1>1. View \in [Path -> Node]
  BY ViewType DEF IInv
<1>2. ASSUME ~Blocked(p), NEW q \in Path, q # p
      PROVE  Put(p, n)[q] = MakeDirs(View, Parent[p])[q]
  <2>1. MakeDirs(View, Parent[p])[q] =
          IF Parent[p] # Root /\ q \in Anc[Parent[p]] /\ ~Present(View, q)
          THEN Directory ELSE View[q]
    BY DEF MakeDirs
  <2>2. CASE q \in Anc[p]
    <3>1. Parent[p] # Root /\ q \in Anc[Parent[p]]
      BY <1>2, <2>2, Ancestors
    <3>2. Present(View, q) => View[q] = Directory
      BY <1>1, <1>2, <2>2, NodeKinds DEF Blocked, Present
    <3> QED
      BY <1>2, <2>1, <2>2, <3>1, <3>2 DEF Put
  <2>3. CASE q \notin Anc[p]
    <3>1. ~(Parent[p] # Root /\ q \in Anc[Parent[p]])
      BY <2>3, Ancestors
    <3> QED
      BY <1>2, <2>1, <2>3, <3>1 DEF Put
  <2> QED
    BY <2>2, <2>3
<1> QED
  BY <1>2 DEF Put, MakeDirs

\* Under a view of a tree nothing is shown below what blocks.
LEMMA BlockedIsAbsent ==
  ASSUME IInv, NEW p \in Path, Blocked(p)
  PROVE  View[p] = Absent
BY ViewTree, ViewAt, NodeKinds DEF Blocked, IsTree, Present, IInv

\* Whether the operators of the abstract tree are read of the view.
LEMMA TreeOperators ==
  /\ \A p : TreeView!Permitted(p) <=> Permitted(p)
  /\ \A p : TreeView!Blockers(p) = {a \in Anc[p] \ {p} : View[a].kind \in {"File", "Link"}}
  /\ \A p : TreeView!Kind(p) = IF p = Root THEN "Dir" ELSE View[p].kind
  /\ \A p : TreeView!Buried(p) =
                [q \in Path |-> IF q \in Anc[p] \ {p} THEN Directory ELSE View[q]]
  /\ \A r : TreeView!Answer(r) <=> res' = r /\ View' = View
  /\ \A t, q : TreeView!MakeDirs(t, q) = MakeDirs(t, q)
  /\ \A t, p : TreeView!Present(t, p) <=> Present(t, p)
  /\ \A c : TreeView!File(c) = File(c)
  /\ \A c, off, v : TreeView!WriteAt(c, off, v) = WriteAt(c, off, v)
  /\ \A c, n : TreeView!SetLen(c, n) = SetLen(c, n)
  /\ \A d : TreeView!Children(d) = Children(d)
  /\ TreeView!Directory = Directory /\ TreeView!Absent = Absent
BY DEF TreeView!Permitted, TreeView!Blockers, TreeView!Kind, TreeView!Buried, TreeView!Answer,
       TreeView!MakeDirs, TreeView!Present, TreeView!File, TreeView!WriteAt, TreeView!SetLen,
       TreeView!Children, TreeView!Directory, TreeView!Absent, Permitted, MakeDirs, Present,
       File, WriteAt, SetLen, Children, Directory, Absent

LEMMA AnswerShown == ASSUME NEW r, Answer(r) PROVE res' = r /\ View' = View
BY DEF Answer, View, OverlayStat, Present, Hidden

LEMMA PWriteRefines ==
  ASSUME IInv, TypeOK', NEW p \in Path, NEW off \in Offsets, NEW v \in Writes,
         PWrite(p, off, v)
  PROVE  TreeView!PWrite(p, off, v)
<1> DEFINE n == File(WriteAt(View[p].data, off, v))
<1>1. TreeView!Blockers(p) # {} <=> Blocked(p)
  BY TreeOperators DEF Blocked
<1>2. CASE ~Permitted(p) /\ Answer("EROFS")
  BY <1>2, AnswerShown, TreeOperators DEF TreeView!PWrite
<1>3. CASE PWriteRefused(p)
  <2>1. Permitted(p) /\ View' = View
    BY <1>3, RefusedShown DEF PWriteRefused
  <2>2. CASE res' = "ENOTDIR" /\ Blocked(p)
    BY <1>1, <2>1, <2>2, TreeOperators DEF TreeView!PWrite
  <2>3. CASE res' = "EISDIR" /\ View[p].kind = "Dir"
    BY <2>1, <2>3, TreeOperators DEF TreeView!PWrite
  <2>4. CASE res' = "EINVAL" /\ View[p].kind = "Link"
    BY <2>1, <2>4, TreeOperators DEF TreeView!PWrite
  <2> QED
    BY <1>3, <2>2, <2>3, <2>4, RefusedShown
<1>4. CASE PWriteLands(p, off, v)
  <2>1. /\ Permitted(p) /\ res' = "OK" /\ View[p].kind \in {"None", "File"}
        /\ View' = Put(p, n)
        /\ Parent[p] # Root => View[Parent[p]].kind \in {"Dir", "None"}
    BY <1>4, WriteShown DEF PWriteLands
  <2>2. CASE ~Blocked(p)
    <3>1. View' = [MakeDirs(View, Parent[p]) EXCEPT ![p] = n]
      BY <2>1, <2>2, PutIsMakeDirs
    <3> QED
      BY <1>1, <2>1, <2>2, <3>1, TreeOperators DEF TreeView!PWrite
  <2>3. CASE Blocked(p)
    <3>1. n = File(WriteAt(<< >>, off, v))
      BY <2>3, BlockedIsAbsent DEF Absent
    <3>2. View' = [[q \in Path |-> IF q \in Anc[p] \ {p} THEN Directory ELSE View[q]]
                   EXCEPT ![p] = n]
      BY <2>1, PutIsMakeDirs
    <3>3. Parent[p] \notin TreeView!Blockers(p)
      <4>1. Parent[p] \in Anc[p] \ {p} => Parent[p] # Root
        BY PathAssumption
      <4> QED
        BY <2>1, <4>1, TreeOperators
    <3> HIDE DEF n
    <3>4. View' = [TreeView!Buried(p) EXCEPT ![p] = TreeView!File(TreeView!WriteAt(<< >>, off, v))]
      BY <3>1, <3>2, TreeOperators
    <3> QED
      BY <1>1, <2>1, <2>3, <3>3, <3>4, TreeOperators DEF TreeView!PWrite
  <2> QED
    BY <2>2, <2>3
<1> QED
  BY <1>2, <1>3, <1>4 DEF PWrite

LEMMA TruncateRefines ==
  ASSUME IInv, TypeOK', NEW p \in Path, NEW n \in Lengths, Truncate(p, n)
  PROVE  TreeView!Truncate(p, n)
<1>1. TypeOK
  BY DEF IInv
<1>2. CASE ~Permitted(p) /\ Answer("EROFS")
  BY <1>2, AnswerShown, TreeOperators DEF TreeView!Truncate
<1>3. CASE /\ Permitted(p) /\ StatMerged(p) # "File"
           /\ Answer(IF StatMerged(p) \in {"Dir", "Link"} THEN "EINVAL" ELSE StatMerged(p))
  <2>1. View' = View
    BY <1>3, AnswerShown
  <2>2. CASE StatMerged(p) \in {"Dir", "Link"}
    <3>1. View[p].kind \in {"Dir", "Link"} /\ res' = "EINVAL"
      BY <1>1, <1>3, <2>2, StatIsView, AnswerShown
    <3> QED
      BY <1>3, <2>1, <3>1, TreeOperators DEF TreeView!Truncate
  <2>3. CASE StatMerged(p) = "ENOENT"
    <3>1. View[p].kind = "None" /\ res' = "ENOENT"
      BY <1>1, <1>3, <2>3, StatIsView, ViewAt, NodeKinds, AnswerShown DEF Present
    <3> QED
      BY <1>3, <2>1, <3>1, TreeOperators DEF TreeView!Truncate
  <2>4. CASE StatMerged(p) = "ENOTDIR"
    <3>1. Blocked(p) /\ res' = "ENOTDIR"
      BY <1>1, <1>3, <2>4, StatIsView, AnswerShown DEF Blocked
    <3> QED
      BY <1>3, <2>1, <3>1, TreeOperators DEF TreeView!Truncate, Blocked
  <2> QED
    BY <1>1, <1>3, <2>2, <2>3, <2>4, StatMergedType
<1>4. CASE /\ Permitted(p) /\ StatMerged(p) = "File"
           /\ overlay' = [CopyUp(p).overlay EXCEPT ![p] = File(SetLen(@.data, n))]
           /\ res' = "OK" /\ UNCHANGED <<base, whiteouts>>
  BY <1>4, TruncateShown, TreeOperators DEF TreeView!Truncate
<1> QED
  BY <1>2, <1>3, <1>4 DEF Truncate

LEMMA MkdirRefines ==
  ASSUME IInv, TypeOK', NEW p \in Path, Mkdir(p)
  PROVE  TreeView!Mkdir(p)
<1>1. TypeOK
  BY DEF IInv
<1>2. CASE ~Permitted(p) /\ Answer("EROFS")
  BY <1>2, AnswerShown, TreeOperators DEF TreeView!Mkdir
<1>3. CASE Permitted(p) /\ StatMerged(p) = "ENOTDIR" /\ Answer("ENOTDIR")
  <2>1. Blocked(p) /\ View' = View /\ res' = "ENOTDIR"
    BY <1>1, <1>3, StatIsView, AnswerShown DEF Blocked
  <2> QED
    BY <1>3, <2>1, TreeOperators DEF TreeView!Mkdir, Blocked
<1>4. CASE Permitted(p) /\ StatMerged(p) \in {"File", "Dir", "Link"} /\ Answer("EEXIST")
  <2>1. Present(View, p) /\ View' = View /\ res' = "EEXIST"
    BY <1>1, <1>4, StatIsView, AnswerShown
  <2> QED
    BY <1>4, <2>1, TreeOperators DEF TreeView!Mkdir
<1>5. CASE /\ Permitted(p) /\ StatMerged(p) = "ENOENT" /\ StatMerged(Parent[p]) # "Dir"
           /\ Answer(IF StatMerged(Parent[p]) = "ENOENT" THEN "ENOENT" ELSE "ENOTDIR")
  <2>1. View' = View
    BY <1>5, AnswerShown
  <2>2. CASE StatMerged(Parent[p]) = "ENOENT"
    <3>1. Parent[p] # Root /\ Parent[p] \in Path
      BY <2>2, Ancestors DEF StatMerged
    <3>2. View[Parent[p]].kind = "None" /\ res' = "ENOENT"
      BY <1>1, <1>5, <2>2, <3>1, StatIsView, ViewAt, NodeKinds, AnswerShown DEF Present
    <3> QED
      BY <1>5, <2>1, <3>1, <3>2, TreeOperators DEF TreeView!Mkdir
  <2>3. CASE StatMerged(Parent[p]) # "ENOENT"
    <3>1. Blocked(p) /\ res' = "ENOTDIR"
      BY <1>5, <2>3, BadParentBlocks, AnswerShown
    <3> QED
      BY <1>5, <2>1, <3>1, TreeOperators DEF TreeView!Mkdir, Blocked
  <2> QED
    BY <2>2, <2>3
<1>6. CASE /\ Permitted(p) /\ StatMerged(p) = "ENOENT" /\ StatMerged(Parent[p]) = "Dir"
           /\ overlay' = [MakeDirs(overlay, Parent[p]) EXCEPT ![p] = Directory]
           /\ res' = "OK" /\ UNCHANGED <<base, whiteouts>>
  BY <1>6, MkdirShown, TreeOperators DEF TreeView!Mkdir
<1> QED
  BY <1>2, <1>3, <1>4, <1>5, <1>6 DEF Mkdir

\* What read_dir lists in a directory is what the view has in it.
LEMMA ListingShown ==
  ASSUME TypeOK, NEW d \in Path, StatMerged(d) = "Dir"
  PROVE  ReadDir(d) = {c \in Children(d) : Present(View, c)}
<1> SUFFICES ASSUME NEW c \in Children(d)
             PROVE  Present(View, c) <=> Present(overlay, c) \/ (Present(base, c) /\ ~Hidden(c))
  BY DEF ReadDir
<1>1. c \in Path /\ Parent[c] = d /\ d # Root
  BY PathAssumption DEF Children
<1>2. Anc[c] \ {c} = Anc[d] /\ \A a \in Anc[d] : overlay[a].kind # "File"
  BY <1>1, Ancestors, NoFileAbove
<1>3. CASE Present(overlay, c)
  BY <1>1, <1>3, ViewAt DEF Present
<1>4. CASE ~Present(overlay, c)
  <2>1. \A a \in Anc[c] : overlay[a].kind # "File"
    BY <1>2, <1>4 DEF Present
  <2> QED
    BY <1>1, <1>4, <2>1, ViewAt DEF Present, Absent
<1> QED
  BY <1>3, <1>4

LEMMA RemoveRefines ==
  ASSUME IInv, TypeOK', NEW p \in Path, Remove(p)
  PROVE  TreeView!Remove(p)
<1>1. TypeOK
  BY DEF IInv
<1>2. CASE ~Permitted(p) /\ Answer("EROFS")
  BY <1>2, AnswerShown, TreeOperators DEF TreeView!Remove
<1>3. CASE Permitted(p) /\ StatMerged(p) \in {"ENOENT", "ENOTDIR"} /\ Answer(StatMerged(p))
  <2>1. View' = View
    BY <1>3, AnswerShown
  <2>2. CASE StatMerged(p) = "ENOENT"
    <3>1. View[p].kind = "None" /\ res' = "ENOENT"
      BY <1>1, <1>3, <2>2, StatIsView, ViewAt, NodeKinds, AnswerShown DEF Present
    <3> QED
      BY <1>3, <2>1, <3>1, TreeOperators DEF TreeView!Remove
  <2>3. CASE StatMerged(p) = "ENOTDIR"
    <3>1. Blocked(p) /\ res' = "ENOTDIR"
      BY <1>1, <1>3, <2>3, StatIsView, AnswerShown DEF Blocked
    <3> QED
      BY <1>3, <2>1, <3>1, TreeOperators DEF TreeView!Remove, Blocked
  <2> QED
    BY <1>3, <2>2, <2>3
<1>4. CASE Permitted(p) /\ StatMerged(p) = "Dir" /\ ReadDir(p) # {} /\ Answer("ENOTEMPTY")
  <2>1. /\ View' = View /\ res' = "ENOTEMPTY"
        /\ \E c \in Children(p) : Present(View, c)
    BY <1>1, <1>4, AnswerShown, ListingShown
  <2> QED
    BY <1>4, <2>1, TreeOperators DEF TreeView!Remove
<1>5. CASE /\ Permitted(p)
           /\ \/ StatMerged(p) \in {"File", "Link"}
              \/ StatMerged(p) = "Dir" /\ ReadDir(p) = {}
           /\ overlay' = [overlay EXCEPT ![p] = Absent]
           /\ whiteouts' = whiteouts \cup (IF Present(base, p) THEN {p} ELSE {})
           /\ res' = "OK" /\ UNCHANGED base
  BY <1>5, RemoveShown, TreeOperators DEF TreeView!Remove
<1> QED
  BY <1>2, <1>3, <1>4, <1>5 DEF Remove

LEMMA InitRefines == Init => TreeView!Init
<1> SUFFICES ASSUME Init PROVE TreeView!Init
  OBVIOUS
<1>1. TypeOK
  BY InitInvariant DEF IInv
<1>2. \A p \in Path : ~Present(overlay, p) /\ overlay[p].kind # "File" /\ ~Hidden(p)
  BY DEF Init, Present, Absent, Hidden
<1>3. \A p \in Path : View[p] = base[p]
  BY <1>1, <1>2, ViewAt, Ancestors
<1>4. View = base
  BY <1>1, <1>3 DEF View, TypeOK
<1> QED
  BY <1>4 DEF Init, TreeView!Init

LEMMA NextRefines == IInv /\ IInv' /\ [Next]_vars => [TreeView!Next]_(TreeView!vars)
<1> SUFFICES ASSUME IInv, IInv', [Next]_vars PROVE [TreeView!Next]_(TreeView!vars)
  OBVIOUS
<1>1. TypeOK'
  BY DEF IInv
<1>2. ASSUME NEW p \in Path, NEW off \in Offsets, NEW v \in Writes, PWrite(p, off, v)
      PROVE  TreeView!Next
  BY <1>1, <1>2, PWriteRefines DEF TreeView!Next
<1>3. ASSUME NEW p \in Path, NEW n \in Lengths, Truncate(p, n)
      PROVE  TreeView!Next
  BY <1>1, <1>3, TruncateRefines DEF TreeView!Next
<1>4. ASSUME NEW p \in Path, Mkdir(p) PROVE TreeView!Next
  BY <1>1, <1>4, MkdirRefines DEF TreeView!Next
<1>5. ASSUME NEW p \in Path, Remove(p) PROVE TreeView!Next
  BY <1>1, <1>5, RemoveRefines DEF TreeView!Next
<1>6. CASE UNCHANGED vars
  BY <1>6 DEF vars, View, OverlayStat, Present, Hidden, TreeView!vars
<1> QED
  BY <1>2, <1>3, <1>4, <1>5, <1>6 DEF Next

\* A copy-on-write mount is one mutable tree: whatever was copied up and
\* whatever is recorded as deleted, each verb answers from the view alone and
\* changes it as it would change a plain tree.
THEOREM MountIsATree == Spec => RefinesTree
<1>1. IInv /\ [Next]_vars => IInv'
  BY StepInvariant
<1>2. Spec => []IInv
  BY Invariance
<1> QED
  BY <1>1, <1>2, InitRefines, NextRefines, PTL DEF Spec, RefinesTree, TreeView!Spec

\* stat, read_dir and the write verbs see the same entries: no name is listed
\* that stat does not find, and none that it finds is left out.
THEOREM ListingComplete == Spec => []ListingMatchesStat
<1>1. IInv => ListingMatchesStat
  BY ListingShown DEF IInv, ListingMatchesStat
<1> QED
  BY <1>1, Invariance, PTL

-----------------------------------------------------------------------------
(* Over a shallow image *)

\* Nothing that blocks a path is passed by a write that lands: a file of the
\* overlay stops it, and so does a file of the image, which is the parent.
LEMMA ShallowLandsFree ==
  ASSUME IInv, TypeOK', Shallow, NEW p \in Path, NEW off \in Offsets, NEW v \in Writes,
         PWriteLands(p, off, v)
  PROVE  ~Blocked(p)
<1> SUFFICES ASSUME NEW a \in Anc[p] \ {p}, View[a].kind \in {"File", "Link"} PROVE FALSE
  BY DEF Blocked
<1>1. TypeOK /\ a \in Path
  BY Ancestors DEF IInv
<1>2. /\ Parent[p] # Root => View[Parent[p]].kind \in {"Dir", "None"}
      /\ overlay[a].kind # "File"
  BY WriteShown
<1>3. View[a] = base[a]
  <2>1. ~Present(overlay, a)
    BY <1>1, <1>2, ViewAt, Layers DEF Present
  <2>2. \A b \in Anc[a] : overlay[b].kind # "File"
    BY <1>1, <2>1, ViewAt DEF Present
  <2> QED
    BY <1>1, <2>1, <2>2, ViewAt DEF Absent
<1>4. Parent[p] = a
  BY <1>3 DEF Shallow
<1>5. Parent[p] # Root
  BY <1>1, <1>4, PathAssumption
<1> QED
  BY <1>2, <1>4, <1>5

\* The strict tree differs in what a write does below a blocker only.
LEMMA StrictOperators ==
  /\ \A p : StrictTreeView!Permitted(p) <=> TreeView!Permitted(p)
  /\ \A p : StrictTreeView!Blockers(p) = TreeView!Blockers(p)
  /\ \A p : StrictTreeView!Kind(p) = TreeView!Kind(p)
  /\ \A r : StrictTreeView!Answer(r) <=> TreeView!Answer(r)
  /\ \A t, q : StrictTreeView!MakeDirs(t, q) = TreeView!MakeDirs(t, q)
  /\ \A t, p : StrictTreeView!Present(t, p) <=> TreeView!Present(t, p)
  /\ \A c : StrictTreeView!File(c) = TreeView!File(c)
  /\ \A c, off, v : StrictTreeView!WriteAt(c, off, v) = TreeView!WriteAt(c, off, v)
  /\ \A c, n : StrictTreeView!SetLen(c, n) = TreeView!SetLen(c, n)
  /\ \A d : StrictTreeView!Children(d) = TreeView!Children(d)
  /\ StrictTreeView!Directory = TreeView!Directory /\ StrictTreeView!Absent = TreeView!Absent
BY DEF TreeView!Permitted, TreeView!Blockers, TreeView!Kind, TreeView!Answer,
       TreeView!MakeDirs, TreeView!Present, TreeView!File, TreeView!WriteAt, TreeView!SetLen,
       TreeView!Children, TreeView!Directory, TreeView!Absent,
       StrictTreeView!Permitted, StrictTreeView!Blockers, StrictTreeView!Kind,
       StrictTreeView!Answer, StrictTreeView!MakeDirs, StrictTreeView!Present,
       StrictTreeView!File, StrictTreeView!WriteAt, StrictTreeView!SetLen,
       StrictTreeView!Children, StrictTreeView!Directory, StrictTreeView!Absent

LEMMA StrictVerbs ==
  ASSUME NEW p
  PROVE  /\ \A n : TreeView!Truncate(p, n) => StrictTreeView!Truncate(p, n)
         /\ TreeView!Mkdir(p) => StrictTreeView!Mkdir(p)
         /\ TreeView!Remove(p) => StrictTreeView!Remove(p)
         /\ \A off, v : TreeView!PWrite(p, off, v) /\ (res' # "OK" \/ ~Blocked(p))
                          => StrictTreeView!PWrite(p, off, v)
<1>1. \A n : TreeView!Truncate(p, n) => StrictTreeView!Truncate(p, n)
  BY StrictOperators DEF TreeView!Truncate, StrictTreeView!Truncate
<1>2. TreeView!Mkdir(p) => StrictTreeView!Mkdir(p)
  BY StrictOperators DEF TreeView!Mkdir, StrictTreeView!Mkdir
<1>3. TreeView!Remove(p) => StrictTreeView!Remove(p)
  BY StrictOperators DEF TreeView!Remove, StrictTreeView!Remove
<1>4. ASSUME NEW off, NEW v, TreeView!PWrite(p, off, v), res' # "OK" \/ ~Blocked(p)
      PROVE  StrictTreeView!PWrite(p, off, v)
  <2>1. TreeView!Blockers(p) # {} <=> Blocked(p)
    BY TreeOperators DEF Blocked
  <2> QED
    BY <1>4, <2>1, StrictOperators DEF TreeView!PWrite, StrictTreeView!PWrite
<1> QED
  BY <1>1, <1>2, <1>3, <1>4

LEMMA ShallowStep ==
  IInv /\ IInv' /\ [Next]_vars => [Shallow => [StrictTreeView!Next]_<<View, res>>]_vars
<1> SUFFICES ASSUME IInv, IInv', Next, Shallow PROVE StrictTreeView!Next
  OBVIOUS
<1>1. TypeOK'
  BY DEF IInv
<1>2. ASSUME NEW p \in Path, NEW off \in Offsets, NEW v \in Writes, PWrite(p, off, v)
      PROVE  StrictTreeView!Next
  <2>1. TreeView!PWrite(p, off, v)
    BY <1>1, <1>2, PWriteRefines
  <2>2. res' # "OK" \/ ~Blocked(p)
    <3>1. CASE PWriteLands(p, off, v)
      BY <1>1, <3>1, ShallowLandsFree
    <3>2. CASE PWriteRefused(p)
      BY <3>2, RefusedShown
    <3>3. CASE Answer("EROFS")
      BY <3>3, AnswerShown
    <3> QED
      BY <1>2, <3>1, <3>2, <3>3 DEF PWrite
  <2> QED
    BY <2>1, <2>2, StrictVerbs DEF StrictTreeView!Next
<1>3. ASSUME NEW p \in Path, NEW n \in Lengths, Truncate(p, n)
      PROVE  StrictTreeView!Next
  BY <1>1, <1>3, TruncateRefines, StrictVerbs DEF StrictTreeView!Next
<1>4. ASSUME NEW p \in Path, Mkdir(p) PROVE StrictTreeView!Next
  BY <1>1, <1>4, MkdirRefines, StrictVerbs DEF StrictTreeView!Next
<1>5. ASSUME NEW p \in Path, Remove(p) PROVE StrictTreeView!Next
  BY <1>1, <1>5, RemoveRefines, StrictVerbs DEF StrictTreeView!Next
<1> QED
  BY <1>2, <1>3, <1>4, <1>5 DEF Next

\* Over an image in which no path is two levels below a file or a symlink,
\* the mount is the tree in which a write below a file is always refused.
THEOREM ShallowMountIsAStrictTree == Spec => ShallowRefinesStrictTree
<1>1. IInv /\ [Next]_vars => IInv'
  BY StepInvariant
<1>2. Spec => []IInv
  BY Invariance
<1> QED
  BY <1>1, <1>2, ShallowStep, PTL DEF Spec, ShallowRefinesStrictTree

\* A step that changes the kind of what is shown at a path leaves a record,
\* or shows what the image has.
LEMMA RecordsKept ==
  ASSUME IInv, TypeOK', Shallow, DeletesAreRecorded, [Next]_vars
  PROVE  DeletesAreRecorded'
<1> SUFFICES ASSUME NEW q \in Path, Present(base, q), base' = base,
                    whiteouts \subseteq whiteouts', ~Hidden(q),
                    View'[q].kind # base[q].kind
             PROVE  q \in whiteouts'
  <2>1. base' = base /\ whiteouts \subseteq whiteouts'
    BY DEF Next, PWrite, PWriteRefused, PWriteLands, Truncate, Mkdir, Remove, Answer, vars
  <2>2. \A q \in Path : q \in Anc[q]
    BY Ancestors
  <2> QED
    BY <2>1, <2>2 DEF DeletesAreRecorded, Hidden, Present
<1>1. View[q].kind = base[q].kind /\ View[q].kind # "None"
  BY DEF DeletesAreRecorded, Present
<1>2. View' # View
  BY <1>1
<1>3. ASSUME NEW p \in Path, NEW off \in Offsets, NEW v \in Writes, PWriteLands(p, off, v)
      PROVE  FALSE
  <2>1. ~Blocked(p)
    BY <1>3, ShallowLandsFree
  <2>2. /\ View[p].kind \in {"None", "File"}
        /\ View' = Put(p, File(WriteAt(View[p].data, off, v)))
    BY <1>3, WriteShown
  <2>3. q # p
    BY <1>1, <2>2 DEF Put, File
  <2>4. q \in Anc[p]
    BY <1>1, <2>2, <2>3 DEF Put
  <2>5. View'[q] = Directory /\ View[q].kind \notin {"File", "Link"}
    BY <2>1, <2>2, <2>3, <2>4 DEF Put, Blocked
  <2>6. View[q].kind = "Dir"
    BY <1>1, <2>5, ViewAt, NodeKinds DEF IInv
  <2> QED
    BY <1>1, <2>5, <2>6 DEF Directory
<1>4. ASSUME NEW p \in Path, NEW n \in Lengths, StatMerged(p) = "File",
             overlay' = [CopyUp(p).overlay EXCEPT ![p] = File(SetLen(@.data, n))],
             UNCHANGED <<base, whiteouts>>
      PROVE  FALSE
  <2>1. View[p].kind = "File" /\ View' = [View EXCEPT ![p] = File(SetLen(View[p].data, n))]
    BY <1>4, TruncateShown
  <2> QED
    BY <1>1, <2>1, ViewType DEF File, IInv
<1>5. ASSUME NEW p \in Path, StatMerged(p) = "ENOENT", StatMerged(Parent[p]) = "Dir",
             overlay' = [MakeDirs(overlay, Parent[p]) EXCEPT ![p] = Directory],
             UNCHANGED <<base, whiteouts>>
      PROVE  FALSE
  <2>1. ~Present(View, p) /\ View' = [View EXCEPT ![p] = Directory]
    BY <1>5, MkdirShown
  <2> QED
    BY <1>1, <2>1, ViewType DEF Present, IInv
<1>6. ASSUME NEW p \in Path,
             StatMerged(p) \in {"File", "Link"} \/ (StatMerged(p) = "Dir" /\ ReadDir(p) = {}),
             overlay' = [overlay EXCEPT ![p] = Absent],
             whiteouts' = whiteouts \cup (IF Present(base, p) THEN {p} ELSE {}), base' = base
      PROVE  q \in whiteouts'
  <2>1. View' = [View EXCEPT ![p] = Absent]
    BY <1>6, RemoveShown
  <2>2. q = p
    BY <1>1, <2>1, ViewType DEF IInv
  <2> QED
    BY <1>6, <2>2
<1>7. ~UNCHANGED vars
  BY <1>2 DEF vars, View, OverlayStat, Present, Hidden
<1>8. \A r : ~Answer(r)
  BY <1>2, AnswerShown
<1>9. \A p \in Path : ~PWriteRefused(p)
  BY <1>2, RefusedShown
<1>10. CASE \E p \in Path, off \in Offsets, v \in Writes : PWrite(p, off, v)
  BY <1>3, <1>8, <1>9, <1>10 DEF PWrite
<1>11. CASE \E p \in Path, n \in Lengths : Truncate(p, n)
  BY <1>4, <1>8, <1>11 DEF Truncate
<1>12. CASE \E p \in Path : Mkdir(p)
  BY <1>5, <1>8, <1>12 DEF Mkdir
<1>13. CASE \E p \in Path : Remove(p)
  BY <1>6, <1>8, <1>13 DEF Remove
<1> QED
  BY <1>7, <1>10, <1>11, <1>12, <1>13 DEF Next

\* The journal is the complete record of what was deleted, over a shallow
\* image: whatever the image has and the mount shows no longer, or shows as
\* something else, is covered by a whiteout.
THEOREM DeletionsRecorded == Spec => []ShallowDeletesAreRecorded
<1>1. Init => ShallowDeletesAreRecorded
  <2> SUFFICES ASSUME Init, NEW p \in Path PROVE View[p] = base[p]
    BY DEF ShallowDeletesAreRecorded, DeletesAreRecorded
  <2>1. TypeOK
    BY InitInvariant DEF IInv
  <2>2. ~Present(overlay, p) /\ ~Hidden(p) /\ \A a \in Anc[p] : overlay[a].kind # "File"
    BY Ancestors DEF Init, Present, Absent, Hidden
  <2> QED
    BY <2>1, <2>2, ViewAt
<1>2. IInv /\ IInv' /\ ShallowDeletesAreRecorded /\ [Next]_vars => ShallowDeletesAreRecorded'
  <2> SUFFICES ASSUME IInv, IInv', ShallowDeletesAreRecorded, [Next]_vars, Shallow'
               PROVE  DeletesAreRecorded'
    BY DEF ShallowDeletesAreRecorded
  <2>1. base' = base
    BY DEF Next, PWrite, PWriteRefused, PWriteLands, Truncate, Mkdir, Remove, Answer, vars
  <2>2. Shallow
    BY <2>1 DEF Shallow
  <2> QED
    BY <2>2, RecordsKept DEF ShallowDeletesAreRecorded, IInv
<1>3. Spec => []IInv
  BY Invariance
<1> QED
  BY <1>1, <1>2, <1>3, PTL DEF Spec
=============================================================================
