------------------------------ MODULE VfsProofs ------------------------------
(***************************************************************************)
(* For every set of paths, points and images: descriptors and directory    *)
(* handles die with their mount, and as long as nobody calls unmount,      *)
(* which starts the count again, they name what their holder opened; what  *)
(* was written is served; and what is extracted to the host is what the    *)
(* mounts hold, with the libraries it needs.                               *)
(***************************************************************************)
EXTENDS Materialize, FiniteSetTheorems, WellFoundedInduction, TLAPS

-----------------------------------------------------------------------------
(* Dispatch *)

\* Where a mount covers a path, the longest that does is one of the mounts.
LEMMA FoundCovers ==
  ASSUME NEW p \in Path, Covering(p) # {}
  PROVE  FindMount(p) \in Covering(p)
PROOF
<1> DEFINE Deepest(h) == \A g \in Covering(p) :
             mounts[g].point = Root \/ (mounts[h].point # Root
                                          /\ Covers(mounts[g].point, mounts[h].point))
           Proper == {mounts[g].point : g \in {g \in Covering(p) : mounts[g].point # Root}}
<1>1. Proper \in SUBSET Anc[p]
  BY DEF Covering, Covers
<1>2. \E h \in Covering(p) : Deepest(h)
  <2>1. CASE Proper = {}
    <3>1. \A g \in Covering(p) : mounts[g].point = Root
      BY <2>1
    <3> QED
      BY <3>1
  <2>2. CASE Proper # {}
    <3> HIDE DEF Proper
    <3>0. \A S \in SUBSET Anc[p] : S # {} => \E q \in S : S \subseteq Anc[q]
      BY VfsAssumption
    <3>1. PICK q \in Proper : Proper \subseteq Anc[q]
      BY <1>1, <2>2, <3>0
    <3>2. PICK h \in Covering(p) : mounts[h].point = q /\ mounts[h].point # Root
      BY <3>1 DEF Proper
    <3> QED
      BY <3>1, <3>2 DEF Covers, Proper
  <2> QED
    BY <2>1, <2>2
<1> QED
  BY <1>2 DEF FindMount

-----------------------------------------------------------------------------
(* The typed state *)

MountRec == [point : Point, mode : {"RO", "COW"}, image : Payload, writable : BOOLEAN]

\* An image is served below its point only.
Rooted(pt, t) == \A p \in Path : (Covers(pt, p) /\ p # pt) \/ t[p] = Absent

MountOK(m) ==
  /\ m \in MountRec
  /\ Rooted(m.point, m.image.tree)
  /\ m.writable => m.mode = "COW"

TableInv ==
  /\ nextHandle \in 0 .. MaxMount
  /\ DOMAIN mounts \subseteq 0 .. nextHandle - 1
  /\ \A h \in DOMAIN mounts : MountOK(mounts[h])

FdOK(e) ==
  e \in [path : Path, size : Nat, pos : Nat, owner : Nat] /\ e.pos <= e.size

FdInv ==
  /\ nextFd \in 1 .. MaxFd + 1
  /\ DOMAIN fds \subseteq 1 .. nextFd - 1
  /\ \A fd \in DOMAIN fds : FdOK(fds[fd])

DirOK(e) ==
  /\ e \in [path : Path, pos : Nat, owner : Nat, entries : SUBSET Path]
  /\ IsFiniteSet(e.entries) /\ e.pos <= Cardinality(e.entries)

DirInv ==
  /\ nextDir \in Nat \ {0}
  /\ DOMAIN dirs \subseteq 1 .. nextDir - 1
  /\ \A d \in DOMAIN dirs : DirOK(dirs[d])

TInv == TableInv /\ FdInv /\ DirInv

LEMMA TInvTypes == TInv => TypeOK
<1> SUFFICES ASSUME TInv PROVE TypeOK
  OBVIOUS
<1>1. nextHandle \in Nat
  BY VfsAssumption DEF TInv, TableInv
<1>2. \A h \in DOMAIN mounts :
        /\ mounts[h].point \in Point /\ mounts[h].mode \in {"RO", "COW"}
        /\ mounts[h].image \in Payload /\ mounts[h].writable \in BOOLEAN
  BY DEF TInv, TableInv, MountOK, MountRec
<1>3. \A fd \in DOMAIN fds : fds[fd].pos \in 0 .. fds[fd].size
  BY DEF TInv, FdInv, FdOK
<1>4. \A d \in DOMAIN dirs : dirs[d].pos \in 0 .. Cardinality(dirs[d].entries)
  BY FS_CardinalityType DEF TInv, DirInv, DirOK
<1>5. QED
  BY <1>1, <1>2, <1>3, <1>4 DEF TInv, TableInv, FdInv, DirInv, TypeOK

LEMMA ServeType ==
  ASSUME TableInv, NEW p \in Path, Covering(p) # {}
  PROVE  /\ FindMount(p) \in DOMAIN mounts
         /\ Covers(mounts[FindMount(p)].point, p)
         /\ MountOK(mounts[FindMount(p)])
         /\ Serve(p) = mounts[FindMount(p)].image.tree[p]
         /\ Serve(p) \in Node
<1>1. FindMount(p) \in Covering(p)
  BY FoundCovers
<1>2. FindMount(p) \in DOMAIN mounts /\ Covers(mounts[FindMount(p)].point, p)
  BY <1>1 DEF Covering
<1>3. MountOK(mounts[FindMount(p)])
  BY <1>2 DEF TableInv
<1>4. QED
  BY <1>2, <1>3 DEF Serve, MountOK, MountRec, Payload

\* What a mount, a union and a write leave in the table.
LEMMA BelowRooted ==
  ASSUME NEW pt, NEW t \in [Path -> Node]
  PROVE  Below(pt, t) \in [Path -> Node] /\ Rooted(pt, Below(pt, t))
<1>1. Absent \in Node
  BY DEF Absent, Node, Content
<1>2. QED
  BY <1>1 DEF Below, Rooted

LEMMA ThroughRooted ==
  ASSUME NEW pt, NEW image \in Payload
  PROVE  Through(pt, image) \in Payload /\ Rooted(pt, Through(pt, image).tree)
<1>1. image.tree \in [Path -> Node]
  BY DEF Payload
<1>2. /\ Through(pt, image) = [image EXCEPT !.tree = Below(pt, image.tree)]
      /\ Through(pt, image).tree = Below(pt, image.tree)
  BY DEF Through, Payload
<1>3. QED
  BY <1>1, <1>2, BelowRooted DEF Payload

LEMMA UnionRooted ==
  ASSUME NEW pt, NEW lower \in Payload, NEW upper \in Payload,
         Rooted(pt, lower.tree), Rooted(pt, upper.tree)
  PROVE  Union(lower, upper) \in Payload /\ Rooted(pt, Union(lower, upper).tree)
<1>1. lower.tree \in [Path -> Node] /\ upper.tree \in [Path -> Node]
  BY DEF Payload
<1>2. Union(lower, upper).tree \in [Path -> Node]
  BY <1>1 DEF Union
<1>3. Rooted(pt, Union(lower, upper).tree)
  BY DEF Union, Rooted, Present, Absent
<1>4. QED
  BY <1>2, <1>3 DEF Union, Payload

LEMMA FirstBlock ==
  ASSUME NEW c \in Content
  PROVE  File(WriteAt(c, 0, Block0)) \in Node
<1> DEFINE m == IF 0 + 1 > Len(c) THEN 0 + 1 ELSE Len(c)
<1>1. m \in Nat /\ Len(c) \in Nat
  BY DEF Content
<1>2. \A i \in 1 .. m : (IF i = 0 + 1 THEN Block0
                         ELSE IF i <= Len(c) THEN c[i] ELSE Zero) \in Block
  BY <1>1, BlockAssumption, VfsAssumption DEF Content
<1>3. WriteAt(c, 0, Block0) \in Content
  BY <1>1, <1>2 DEF WriteAt, Content
<1>4. QED
  BY <1>3 DEF File, Node

\* What a write leaves at each path of its mount.
LEMMA WriteEffect ==
  ASSUME TableInv, NEW p \in Path, WritePath(p)
  PROVE  LET h == FindMount(p)  m == mounts[h]  t == m.image.tree IN
         /\ h \in DOMAIN mounts /\ MountOK(m) /\ m.writable
         /\ Covers(m.point, p) /\ p # m.point
         /\ \E u \in [Path -> Node] :
              /\ mounts' = [mounts EXCEPT ![h].image.tree = Below(m.point, u)]
              /\ u[p] \in {Absent, File(<< >>), File(WriteAt(t[p].data, 0, Block0))}
              /\ \A q \in Path \ {p} :
                   \/ u[q] = t[q]
                   \/ q \in Anc[p] /\ t[q] = Absent /\ u[q] = Directory
<1> DEFINE h == FindMount(p)  m == mounts[h]  t == m.image.tree
<1>1. Covering(p) # {} /\ WriteOn(h, p)
  BY DEF WritePath
<1>2. h \in DOMAIN mounts /\ MountOK(m) /\ Covers(m.point, p)
  BY <1>1, ServeType
<1>3. t \in [Path -> Node]
  BY <1>2 DEF MountOK, MountRec, Payload
<1> DEFINE Left(u) == mounts' = [mounts EXCEPT ![h].image.tree = Below(m.point, u)]
           Kept(u) == \A q \in Path \ {p} :
                        \/ u[q] = t[q]
                        \/ q \in Anc[p] /\ t[q] = Absent /\ u[q] = Directory
<1>4. /\ m.writable /\ p # m.point
      /\ \/ /\ t[p].kind \in {"None", "File"}
            /\ Left([MakeDirs(t, Parent[p]) EXCEPT ![p] = File(WriteAt(t[p].data, 0, Block0))])
         \/ Left([t EXCEPT ![p] = File(<< >>)])
         \/ Left([t EXCEPT ![p] = Absent])
  BY <1>1 DEF WriteOn
<1>5. Absent \in Node /\ Directory \in Node /\ File(<< >>) \in Node
  BY DEF Absent, Directory, File, Node, Content
<1> HIDE DEF h, m, t, Left
<1>6. CASE Left([t EXCEPT ![p] = File(<< >>)])
  <2>1. [t EXCEPT ![p] = File(<< >>)] \in [Path -> Node]
    BY <1>3, <1>5
  <2>2. Kept([t EXCEPT ![p] = File(<< >>)]) /\ [t EXCEPT ![p] = File(<< >>)][p] = File(<< >>)
    BY <1>3
  <2>3. QED
    BY <1>2, <1>4, <1>6, <2>1, <2>2 DEF h, m, t, Left
<1>7. CASE Left([t EXCEPT ![p] = Absent])
  <2>1. [t EXCEPT ![p] = Absent] \in [Path -> Node]
    BY <1>3, <1>5
  <2>2. Kept([t EXCEPT ![p] = Absent]) /\ [t EXCEPT ![p] = Absent][p] = Absent
    BY <1>3
  <2>3. QED
    BY <1>2, <1>4, <1>7, <2>1, <2>2 DEF h, m, t, Left
<1>8. CASE Left([MakeDirs(t, Parent[p]) EXCEPT ![p] = File(WriteAt(t[p].data, 0, Block0))])
  <2> DEFINE o == MakeDirs(t, Parent[p])
             n == File(WriteAt(t[p].data, 0, Block0))
  <2>1. t[p].data \in Content /\ t[p] \in Node
    BY <1>3 DEF Node
  <2>2. n \in Node
    BY <2>1, FirstBlock
  <2>3. o \in [Path -> Node]
    BY <1>3, <1>5 DEF MakeDirs
  <2>4. \A q \in Path : o[q] = t[q] \/ (q \in Anc[p] /\ t[q] = Absent /\ o[q] = Directory)
    <3>1. ASSUME NEW q \in Path, Parent[p] # Root, q \in Anc[Parent[p]], ~Present(t, q)
          PROVE  q \in Anc[p] /\ t[q] = Absent
      BY <1>3, <3>1, PathAssumption DEF Present, Absent, Node
    <3>2. QED
      BY <3>1 DEF MakeDirs
  <2> HIDE DEF o, n
  <2>5. [o EXCEPT ![p] = n] \in [Path -> Node] /\ [o EXCEPT ![p] = n][p] = n
    BY <2>2, <2>3
  <2>6. Kept([o EXCEPT ![p] = n])
    BY <2>3, <2>4
  <2>7. QED
    BY <1>2, <1>4, <1>8, <2>5, <2>6 DEF h, m, t, Left, o, n
<1>9. QED
  BY <1>4, <1>6, <1>7, <1>8 DEF h, m, t, Left

LEMMA TableStep == TableInv /\ [VfsNext]_vfsVars => TableInv'
<1> SUFFICES ASSUME TableInv, [VfsNext]_vfsVars PROVE TableInv'
  OBVIOUS
<1>1. ASSUME NEW pt \in Point, NEW image \in Image, NEW mode \in Mode,
             MountChecked(pt, image, mode)
      PROVE  TableInv'
  <2> DEFINE m == [point |-> pt, mode |-> mode, image |-> Through(pt, image),
                   writable |-> mode # "RO"]
  <2>1. MountOK(m)
    <3>1. Through(pt, image) \in Payload /\ Rooted(pt, Through(pt, image).tree)
      BY ImageAssumption, ThroughRooted
    <3>2. mode \in {"RO", "COW"}
      BY DEF Mode
    <3>3. QED
      BY <3>1, <3>2 DEF MountOK, MountRec
  <2> HIDE DEF m
  <2>2. mounts' = With(mounts, nextHandle, m) /\ nextHandle' = nextHandle + 1
        /\ nextHandle < MaxMount
    BY <1>1 DEF MountChecked, m
  <2>3. /\ DOMAIN mounts' = DOMAIN mounts \cup {nextHandle}
        /\ \A k \in DOMAIN mounts' : mounts'[k] = IF k = nextHandle THEN m ELSE mounts[k]
    BY <2>2 DEF With
  <2>4. nextHandle' \in 0 .. MaxMount /\ DOMAIN mounts' \subseteq 0 .. nextHandle' - 1
    BY <2>2, <2>3, VfsAssumption DEF TableInv
  <2>5. \A k \in DOMAIN mounts' : MountOK(mounts'[k])
    BY <2>1, <2>3 DEF TableInv
  <2>6. QED
    BY <2>4, <2>5 DEF TableInv, MountOK
<1>2. ASSUME NEW h \in DOMAIN mounts, NEW image \in Image, MountUnion(h, image)
      PROVE  TableInv'
  <2> DEFINE m == mounts[h]
             u == Union(m.image, Through(m.point, image))
             w == [m EXCEPT !.image = u, !.writable = FALSE]
  <2>1. MountOK(m)
    BY DEF TableInv
  <2>2. u \in Payload /\ Rooted(m.point, u.tree)
    BY <2>1, ImageAssumption, ThroughRooted, UnionRooted DEF MountOK, MountRec
  <2>3. MountOK(w)
    <3> HIDE DEF u
    <3>1. w.point = m.point /\ w.image = u /\ w.writable = FALSE /\ w \in MountRec
      BY <2>1, <2>2 DEF MountOK, MountRec
    <3>2. QED
      BY <2>2, <3>1 DEF MountOK
  <2>4. /\ DOMAIN mounts' = DOMAIN mounts /\ nextHandle' = nextHandle
        /\ \A k \in DOMAIN mounts : mounts'[k] = IF k = h THEN w ELSE mounts[k]
    BY <1>2 DEF MountUnion
  <2> HIDE DEF w
  <2>5. \A k \in DOMAIN mounts' : MountOK(mounts'[k])
    BY <2>3, <2>4 DEF TableInv
  <2>6. QED
    BY <2>4, <2>5 DEF TableInv, MountOK
<1>3. ASSUME NEW h \in DOMAIN mounts, UnmountHandle(h) PROVE TableInv'
  BY <1>3 DEF UnmountHandle, Restrict, TableInv
<1>4. ASSUME Unmount PROVE TableInv'
  BY <1>4 DEF Unmount, TableInv
<1>5. ASSUME NEW p \in Path, WritePath(p) PROVE TableInv'
  <2> DEFINE h == FindMount(p)  m == mounts[h]
  <2>1. PICK u \in [Path -> Node] :
          /\ h \in DOMAIN mounts /\ MountOK(m)
          /\ mounts' = [mounts EXCEPT ![h].image.tree = Below(m.point, u)]
    BY <1>5, WriteEffect
  <2> DEFINE w == [m EXCEPT !.image.tree = Below(m.point, u)]
  <2>2. Below(m.point, u) \in [Path -> Node] /\ Rooted(m.point, Below(m.point, u))
    BY BelowRooted
  <2>3. MountOK(w)
    <3>1. /\ w.point = m.point /\ w.writable = m.writable /\ w.mode = m.mode
          /\ w.image.tree = Below(m.point, u) /\ w \in MountRec
      BY <2>1, <2>2 DEF MountOK, MountRec, Payload
    <3>2. QED
      BY <2>1, <2>2, <3>1 DEF MountOK
  <2>4. /\ DOMAIN mounts' = DOMAIN mounts
        /\ \A k \in DOMAIN mounts : mounts'[k] = IF k = h THEN w ELSE mounts[k]
    BY <2>1
  <2>5. nextHandle' = nextHandle
    BY <1>5 DEF WritePath, WriteOn
  <2> HIDE DEF w, h, m
  <2>6. \A k \in DOMAIN mounts' : MountOK(mounts'[k])
    BY <2>3, <2>4 DEF TableInv
  <2>7. QED
    BY <2>4, <2>5, <2>6 DEF TableInv, MountOK
<1>6. ASSUME UNCHANGED tableVars PROVE TableInv'
  BY <1>6 DEF tableVars, TableInv, MountOK
<1>7. ASSUME NEW p \in Path, Open(p) \/ Opendir(p) PROVE UNCHANGED tableVars
  BY <1>7 DEF Open, OpenOn, Opendir, OpendirOn, tableVars
<1>8. ASSUME NEW k, NEW n, Read(k, n) \/ Lseek(k, n) \/ Readdir(k) \/ Seekdir(k, n)
      PROVE  UNCHANGED tableVars
  BY <1>8 DEF Read, Lseek, Readdir, Seekdir, tableVars
<1>9. ASSUME NEW k, Close(k) \/ Closedir(k) PROVE UNCHANGED tableVars
  BY <1>9 DEF Close, Closedir, tableVars
<1>10. UNCHANGED vfsVars => UNCHANGED tableVars
  BY DEF vfsVars, tableVars
<1>11. QED
  BY <1>1, <1>2, <1>3, <1>4, <1>5, <1>6, <1>7, <1>8, <1>9, <1>10
  DEF VfsNext, MakeMount, DropMount, Use

-----------------------------------------------------------------------------
(* Descriptors and directory handles die with their mount *)

\* An entry of either table says what it was opened on.
Entries(table) ==
  \A k \in DOMAIN table : {"path", "owner", "pos"} \subseteq DOMAIN table[k]

OwnedInv == Entries(fds) /\ Entries(dirs) /\ HandlesDieWithMount

\* Moving a position keeps what the entry was opened on.
LEMMA MoveKeeps ==
  ASSUME NEW table, Entries(table), NEW k \in DOMAIN table, NEW pos,
         NEW moved, moved = [table EXCEPT ![k].pos = pos]
  PROVE  /\ DOMAIN moved = DOMAIN table
         /\ Entries(moved)
         /\ \A j \in DOMAIN table : /\ moved[j].path = table[j].path
                                    /\ moved[j].owner = table[j].owner
PROOF
<1>1. DOMAIN moved = DOMAIN table
  OBVIOUS
<1>2. \A j \in DOMAIN table : j # k => moved[j] = table[j]
  OBVIOUS
<1>3. moved[k] = [table[k] EXCEPT !.pos = pos]
  OBVIOUS
<1>4. /\ DOMAIN moved[k] = DOMAIN table[k]
      /\ moved[k].path = table[k].path /\ moved[k].owner = table[k].owner
  BY <1>3 DEF Entries
<1>5. Entries(moved)
  BY <1>1, <1>2, <1>4 DEF Entries
<1> QED
  BY <1>1, <1>2, <1>4, <1>5

LEMMA OwnedInit == VfsInit => OwnedInv
PROOF
  BY DEF VfsInit, OwnedInv, Entries, HandlesDieWithMount

LEMMA OwnedStep == OwnedInv /\ [VfsNext]_vfsVars => OwnedInv'
PROOF
<1> SUFFICES ASSUME OwnedInv, [VfsNext]_vfsVars PROVE OwnedInv'
  OBVIOUS
<1> USE DEF OwnedInv
<1>1. ASSUME NEW pt \in Point, NEW image \in Image, NEW mode,
             MountChecked(pt, image, mode)
      PROVE  OwnedInv'
  BY <1>1 DEF MountChecked, With, Entries, HandlesDieWithMount, fdVars, dirVars
<1>2. ASSUME NEW h \in DOMAIN mounts, NEW image \in Image, MountUnion(h, image)
      PROVE  OwnedInv'
  <2>1. DOMAIN mounts' = DOMAIN mounts
    BY <1>2 DEF MountUnion
  <2> QED
    BY <1>2, <2>1 DEF MountUnion, Entries, HandlesDieWithMount, fdVars, dirVars
<1>3. ASSUME NEW h \in DOMAIN mounts, UnmountHandle(h) PROVE OwnedInv'
  BY <1>3 DEF UnmountHandle, Restrict, NotOwnedBy, Entries, HandlesDieWithMount
<1>4. ASSUME Unmount PROVE OwnedInv'
  BY <1>4 DEF Unmount, Entries, HandlesDieWithMount
<1>5. ASSUME NEW p \in Path, Open(p) PROVE OwnedInv'
  <2>1. PICK h \in DOMAIN mounts : OpenOn(h, p)
    BY <1>5 DEF Open, Covering
  <2> QED
    BY <2>1 DEF OpenOn, With, Entries, HandlesDieWithMount, tableVars, dirVars
<1>6. ASSUME NEW p \in Path, Opendir(p) PROVE OwnedInv'
  <2>1. PICK h \in DOMAIN mounts : OpendirOn(h, p)
    BY <1>6 DEF Opendir, Covering
  <2> QED
    BY <2>1 DEF OpendirOn, With, Entries, HandlesDieWithMount, tableVars, fdVars
<1>7. ASSUME NEW p \in Path, WritePath(p) PROVE OwnedInv'
  <2>1. DOMAIN mounts' = DOMAIN mounts
    BY <1>7 DEF WritePath, WriteOn
  <2> QED
    BY <1>7, <2>1 DEF WritePath, WriteOn, Entries, HandlesDieWithMount, fdVars, dirVars
<1>8. ASSUME NEW fd \in DOMAIN fds, NEW n, Read(fd, n) \/ Lseek(fd, n)
      PROVE  OwnedInv'
  <2>1. PICK pos : fds' = [fds EXCEPT ![fd].pos = pos]
    BY <1>8 DEF Read, Lseek
  <2>2. mounts' = mounts /\ dirs' = dirs
    BY <1>8 DEF Read, Lseek, tableVars, dirVars
  <2>3. /\ DOMAIN fds' = DOMAIN fds /\ Entries(fds)'
        /\ \A j \in DOMAIN fds : fds'[j].owner = fds[j].owner
    BY <2>1, MoveKeeps DEF Entries
  <2> QED
    BY <2>2, <2>3 DEF Entries, HandlesDieWithMount
<1>9. ASSUME NEW d \in DOMAIN dirs, NEW n, Readdir(d) \/ Seekdir(d, n)
      PROVE  OwnedInv'
  <2>1. PICK pos : dirs' = [dirs EXCEPT ![d].pos = pos]
    BY <1>9 DEF Readdir, Seekdir
  <2>2. mounts' = mounts /\ fds' = fds
    BY <1>9 DEF Readdir, Seekdir, tableVars, fdVars
  <2>3. /\ DOMAIN dirs' = DOMAIN dirs /\ Entries(dirs)'
        /\ \A j \in DOMAIN dirs : dirs'[j].owner = dirs[j].owner
    BY <2>1, MoveKeeps DEF Entries
  <2> QED
    BY <2>2, <2>3 DEF Entries, HandlesDieWithMount
<1>10. ASSUME NEW k \in clients, Close(k) \/ Closedir(k) PROVE OwnedInv'
  BY <1>10 DEF Close, Closedir, Restrict, Entries, HandlesDieWithMount, tableVars,
               fdVars, dirVars
<1>11. ASSUME UNCHANGED vfsVars PROVE OwnedInv'
  BY <1>11 DEF vfsVars, tableVars, fdVars, dirVars, Entries, HandlesDieWithMount
<1> QED
  BY <1>1, <1>2, <1>3, <1>4, <1>5, <1>6, <1>7, <1>8, <1>9, <1>10, <1>11
  DEF VfsNext, MakeMount, DropMount, Use

\* Whatever is mounted, opened and unmounted, in any order: no descriptor and
\* no directory handle outlives the mount it was opened on.
THEOREM HandlesDie == VfsSpec => []HandlesDieWithMount
PROOF
<1>1. OwnedInv => HandlesDieWithMount
  BY DEF OwnedInv
<1> QED
  BY OwnedInit, OwnedStep, <1>1, PTL DEF VfsSpec

-----------------------------------------------------------------------------
(* Descriptors and directory handles are typed *)

\* What a read returns lies between nothing and what is left of the size.
LEMMA LeastOf ==
  ASSUME NEW a \in Nat, NEW b \in Nat, NEW c \in Nat
  PROVE  Min({a, b} \cup {c}) \in Nat /\ Min({a, b} \cup {c}) <= b
<1> DEFINE S == {a, b} \cup {c}
<1>1. \E x \in S : \A y \in S : x =< y
  <2>1. CASE a =< b /\ a =< c
    BY <2>1
  <2>2. CASE b =< a /\ b =< c
    BY <2>2
  <2>3. CASE c =< a /\ c =< b
    BY <2>3
  <2>4. QED
    BY <2>1, <2>2, <2>3
<1>2. Min(S) \in S /\ \A y \in S : Min(S) =< y
  BY <1>1 DEF Min
<1>3. QED
  BY <1>2

LEMMA FdStep == TableInv /\ OwnedInv /\ FdInv /\ [VfsNext]_vfsVars => FdInv'
<1> SUFFICES ASSUME TableInv, OwnedInv, FdInv, [VfsNext]_vfsVars PROVE FdInv'
  OBVIOUS
<1>1. ASSUME NEW p \in Path, Open(p) PROVE FdInv'
  <2>1. PICK h \in Covering(p) : h = FindMount(p) /\ OpenOn(h, p)
    BY <1>1 DEF Open
  <2> DEFINE e == [path |-> p, size |-> Len(Serve(p).data), pos |-> 0, owner |-> h]
  <2>2. h \in Nat
    BY <2>1 DEF Covering, TableInv
  <2>3. Serve(p).data \in Seq(Block)
    BY <2>1, ServeType DEF Node, Content
  <2>4. FdOK(e)
    BY <2>2, <2>3 DEF FdOK
  <2> HIDE DEF e
  <2>5. nextFd' = nextFd + 1 /\ nextFd <= MaxFd /\ fds' = With(fds, nextFd, e)
    BY <2>1 DEF OpenOn, e
  <2>6. /\ DOMAIN fds' = DOMAIN fds \cup {nextFd}
        /\ \A k \in DOMAIN fds' : fds'[k] = IF k = nextFd THEN e ELSE fds[k]
    BY <2>5 DEF With
  <2>7. nextFd' \in 1 .. MaxFd + 1 /\ DOMAIN fds' \subseteq 1 .. nextFd' - 1
    BY <2>5, <2>6, VfsAssumption DEF FdInv
  <2>8. QED
    BY <2>4, <2>6, <2>7 DEF FdInv
<1>2. ASSUME NEW fd \in DOMAIN fds, NEW n \in 0 .. fds[fd].size, Read(fd, n) \/ Lseek(fd, n)
      PROVE  FdInv'
  <2>0. FdOK(fds[fd])
    BY DEF FdInv
  <2>1. \E pos \in Nat : pos <= fds[fd].size /\ fds' = [fds EXCEPT ![fd].pos = pos]
    <3>1. CASE Lseek(fd, n)
      <4>1. n \in Nat /\ n <= fds[fd].size
        BY <2>0 DEF FdOK
      <4>2. QED
        BY <3>1, <4>1 DEF Lseek
    <3>2. CASE Read(fd, n)
      <4> DEFINE e == fds[fd]
                 file == mounts[e.owner].image.tree[e.path]
                 room == IF Len(file.data) > e.pos THEN Len(file.data) - e.pos ELSE 0
                 got == Min({n, e.size - e.pos} \cup {room})
      <4>1. e.size \in Nat /\ e.pos \in Nat /\ e.pos <= e.size /\ n \in Nat
        BY <2>0 DEF FdOK
      <4>2. ASSUME room \in Nat PROVE e.pos + got \in Nat /\ e.pos + got <= e.size
        <5>1. e.size - e.pos \in Nat
          BY <4>1
        <5> HIDE DEF room
        <5>2. got \in Nat /\ got <= e.size - e.pos
          BY <4>1, <4>2, <5>1, LeastOf
        <5>3. QED
          BY <4>1, <5>2
      <4>3. fds' = [fds EXCEPT ![fd].pos = @ + got] /\ file.kind = "File"
        BY <3>2 DEF Read
      <4>4. room \in Nat
        <5>1. e.owner \in DOMAIN mounts /\ e.path \in Path
          BY <2>0 DEF OwnedInv, HandlesDieWithMount, FdOK
        <5>2. file \in Node
          BY <5>1 DEF TableInv, MountOK, MountRec, Payload
        <5>3. Len(file.data) \in Nat
          BY <5>2 DEF Node, Content
        <5> HIDE DEF file, e
        <5>4. QED
          BY <4>1, <5>3
      <4> HIDE DEF got
      <4>5. QED
        BY <4>2, <4>3, <4>4
    <3>3. QED
      BY <1>2, <3>1, <3>2
  <2>2. UNCHANGED nextFd
    BY <1>2 DEF Read, Lseek
  <2>3. PICK pos \in Nat : pos <= fds[fd].size /\ fds' = [fds EXCEPT ![fd].pos = pos]
    BY <2>1
  <2>4. /\ DOMAIN fds' = DOMAIN fds
        /\ \A k \in DOMAIN fds : fds'[k] = IF k = fd THEN [fds[fd] EXCEPT !.pos = pos] ELSE fds[k]
    BY <2>3
  <2>5. FdOK([fds[fd] EXCEPT !.pos = pos])
    BY <2>0, <2>3 DEF FdOK
  <2>6. \A k \in DOMAIN fds' : FdOK(fds'[k])
    BY <2>4, <2>5 DEF FdInv
  <2>7. QED
    BY <2>2, <2>4, <2>6 DEF FdInv, FdOK
<1>3. ASSUME NEW k \in clients, Close(k) PROVE FdInv'
  BY <1>3 DEF Close, Restrict, FdInv
<1>4. ASSUME NEW h \in DOMAIN mounts, UnmountHandle(h) PROVE FdInv'
  BY <1>4 DEF UnmountHandle, NotOwnedBy, Restrict, FdInv
<1>5. ASSUME Unmount PROVE FdInv'
  BY <1>5, VfsAssumption DEF Unmount, FdInv
<1>6. ASSUME UNCHANGED fdVars PROVE FdInv'
  BY <1>6 DEF fdVars, FdInv
<1>7. ASSUME NEW p \in Path, Opendir(p) \/ WritePath(p) PROVE UNCHANGED fdVars
  BY <1>7 DEF Opendir, OpendirOn, WritePath, WriteOn
<1>8. ASSUME NEW k, NEW n, Readdir(k) \/ Seekdir(k, n) \/ Closedir(k)
      PROVE  UNCHANGED fdVars
  BY <1>8 DEF Readdir, Seekdir, Closedir
<1>9. MakeMount => UNCHANGED fdVars
  BY DEF MakeMount, MountChecked, MountUnion
<1>10. UNCHANGED vfsVars => UNCHANGED fdVars
  BY DEF vfsVars
<1>11. QED
  BY <1>1, <1>2, <1>3, <1>4, <1>5, <1>6, <1>7, <1>8, <1>9, <1>10
  DEF VfsNext, DropMount, Use

LEMMA DirStep == TableInv /\ DirInv /\ [VfsNext]_vfsVars => DirInv'
<1> SUFFICES ASSUME TableInv, DirInv, [VfsNext]_vfsVars PROVE DirInv'
  OBVIOUS
<1>1. ASSUME NEW p \in Path, Opendir(p) PROVE DirInv'
  <2>1. PICK h \in Covering(p) : OpendirOn(h, p)
    BY <1>1 DEF Opendir
  <2> DEFINE inside == {c \in Children(p) : Present(mounts[h].image.tree, c)}
             e == [path |-> p, pos |-> 0, owner |-> h, entries |-> inside]
  <2>2. h \in Nat
    BY <2>1 DEF Covering, TableInv
  <2>3. IsFiniteSet(Children(p)) /\ Children(p) \subseteq Path
    BY VfsAssumption DEF Children
  <2>4. inside \subseteq Path /\ IsFiniteSet(inside)
    BY <2>3, FS_Subset
  <2>5. Cardinality(inside) \in Nat
    BY <2>4, FS_CardinalityType
  <2> HIDE DEF inside
  <2>6. DirOK(e)
    BY <2>2, <2>4, <2>5 DEF DirOK
  <2> HIDE DEF e
  <2>7. nextDir' = nextDir + 1 /\ dirs' = With(dirs, nextDir, e)
    BY <2>1 DEF OpendirOn, e, inside
  <2>8. /\ DOMAIN dirs' = DOMAIN dirs \cup {nextDir}
        /\ \A k \in DOMAIN dirs' : dirs'[k] = IF k = nextDir THEN e ELSE dirs[k]
    BY <2>7 DEF With
  <2>9. nextDir' \in Nat \ {0} /\ DOMAIN dirs' \subseteq 1 .. nextDir' - 1
    BY <2>7, <2>8 DEF DirInv
  <2>10. QED
    BY <2>6, <2>8, <2>9 DEF DirInv
<1>2. ASSUME NEW d \in DOMAIN dirs, NEW n,
             \/ Readdir(d)
             \/ n \in 0 .. Cardinality(dirs[d].entries) /\ Seekdir(d, n)
      PROVE  DirInv'
  <2>0. DirOK(dirs[d]) /\ Cardinality(dirs[d].entries) \in Nat
    BY FS_CardinalityType DEF DirInv, DirOK
  <2>1. \E pos \in Nat : /\ pos <= Cardinality(dirs[d].entries)
                         /\ dirs' = [dirs EXCEPT ![d].pos = pos]
    <3>1. CASE Readdir(d)
      <4>1. /\ dirs' = [dirs EXCEPT ![d].pos = dirs[d].pos + 1]
            /\ dirs[d].pos < Cardinality(dirs[d].entries) /\ dirs[d].pos \in Nat
        BY <2>0, <3>1 DEF Readdir, DirOK
      <4>2. dirs[d].pos + 1 \in Nat /\ dirs[d].pos + 1 <= Cardinality(dirs[d].entries)
        BY <2>0, <4>1
      <4>3. QED
        BY <4>1, <4>2
    <3>2. CASE n \in 0 .. Cardinality(dirs[d].entries) /\ Seekdir(d, n)
      <4>1. n \in Nat /\ n <= Cardinality(dirs[d].entries)
        BY <2>0, <3>2
      <4>2. QED
        BY <3>2, <4>1 DEF Seekdir
    <3>3. QED
      BY <1>2, <3>1, <3>2
  <2>2. UNCHANGED nextDir
    BY <1>2 DEF Readdir, Seekdir
  <2>3. PICK pos \in Nat : /\ pos <= Cardinality(dirs[d].entries)
                           /\ dirs' = [dirs EXCEPT ![d].pos = pos]
    BY <2>1
  <2>4. /\ DOMAIN dirs' = DOMAIN dirs
        /\ \A k \in DOMAIN dirs : dirs'[k] = IF k = d THEN [dirs[d] EXCEPT !.pos = pos] ELSE dirs[k]
    BY <2>3
  <2>5. DirOK([dirs[d] EXCEPT !.pos = pos])
    BY <2>0, <2>3 DEF DirOK
  <2>6. \A k \in DOMAIN dirs' : DirOK(dirs'[k])
    BY <2>4, <2>5 DEF DirInv
  <2>7. QED
    BY <2>2, <2>4, <2>6 DEF DirInv, DirOK
<1>3. ASSUME NEW k \in clients, Closedir(k) PROVE DirInv'
  BY <1>3 DEF Closedir, Restrict, DirInv
<1>4. ASSUME NEW h \in DOMAIN mounts, UnmountHandle(h) PROVE DirInv'
  BY <1>4 DEF UnmountHandle, NotOwnedBy, Restrict, DirInv
<1>5. ASSUME Unmount PROVE DirInv'
  BY <1>5 DEF Unmount, DirInv
<1>6. ASSUME UNCHANGED dirVars PROVE DirInv'
  BY <1>6 DEF dirVars, DirInv
<1>7. ASSUME NEW p \in Path, Open(p) \/ WritePath(p) PROVE UNCHANGED dirVars
  BY <1>7 DEF Open, OpenOn, WritePath, WriteOn
<1>8. ASSUME NEW k, NEW n, Read(k, n) \/ Lseek(k, n) \/ Close(k)
      PROVE  UNCHANGED dirVars
  BY <1>8 DEF Read, Lseek, Close
<1>9. MakeMount => UNCHANGED dirVars
  BY DEF MakeMount, MountChecked, MountUnion
<1>10. UNCHANGED vfsVars => UNCHANGED dirVars
  BY DEF vfsVars
<1>11. QED
  BY <1>1, <1>2, <1>3, <1>4, <1>5, <1>6, <1>7, <1>8, <1>9, <1>10
  DEF VfsNext, DropMount, Use

LEMMA TypedInit == VfsInit => TInv
BY VfsAssumption DEF VfsInit, TInv, TableInv, FdInv, DirInv

LEMMA Typed == VfsSpec => []TInv
<1>1. TInv /\ OwnedInv /\ [VfsNext]_vfsVars => TInv'
  BY TableStep, FdStep, DirStep DEF TInv
<1>2. QED
  BY <1>1, TypedInit, OwnedInit, OwnedStep, PTL DEF VfsSpec

\* However images are mounted, united, written to and unmounted, the tables are
\* well typed: each mount's image lies below its point, a descriptor's position
\* never passes the size that open took, whatever became of the file since, and
\* a directory handle's never passes the entries that opendir found.
THEOREM TypeCorrect == VfsSpec => []TypeOK
BY Typed, TInvTypes, PTL

-----------------------------------------------------------------------------
(* A write is served where it was made *)

\* A write that succeeds is served at its path from then on, through the mount
\* that is found there and no other; all else that changes is the directories
\* it made above, where nothing was; and a mount for reading does not change.
THEOREM WritesServed == VfsSpec => WriteIsServed
<1> DEFINE Serves ==
      \A p \in Path : WritePath(p) =>
       /\ Serve(p)' \in {Absent, File(<< >>), File(WriteAt(Serve(p).data, 0, Block0))}
       /\ \A q \in Path \ {p} :
            Serve(q)' # Serve(q) =>
              q \in Anc[p] /\ Serve(q) = Absent /\ Serve(q)' = Directory
       /\ \A h \in DOMAIN mounts : mounts[h].mode = "RO" => mounts'[h] = mounts[h]
<1>1. ASSUME TInv, NEW p \in Path, WritePath(p)
      PROVE  /\ Serve(p)' \in {Absent, File(<< >>), File(WriteAt(Serve(p).data, 0, Block0))}
             /\ \A q \in Path \ {p} :
                  Serve(q)' # Serve(q) =>
                    q \in Anc[p] /\ Serve(q) = Absent /\ Serve(q)' = Directory
             /\ \A h \in DOMAIN mounts : mounts[h].mode = "RO" => mounts'[h] = mounts[h]
  <2> DEFINE h == FindMount(p)  m == mounts[h]  t == m.image.tree
  <2>1. PICK u \in [Path -> Node] :
          /\ mounts' = [mounts EXCEPT ![h].image.tree = Below(m.point, u)]
          /\ u[p] \in {Absent, File(<< >>), File(WriteAt(t[p].data, 0, Block0))}
          /\ \A q \in Path \ {p} :
               \/ u[q] = t[q]
               \/ q \in Anc[p] /\ t[q] = Absent /\ u[q] = Directory
    BY <1>1, WriteEffect DEF TInv
  <2>2. /\ h \in DOMAIN mounts /\ MountOK(m) /\ m.writable
        /\ Covers(m.point, p) /\ p # m.point
    BY <1>1, WriteEffect DEF TInv
  <2>3. Covering(p) # {} /\ Serve(p) = t[p]
    BY <1>1, ServeType DEF TInv, WritePath
  <2>4. /\ DOMAIN mounts' = DOMAIN mounts
        /\ \A g \in DOMAIN mounts : g # h => mounts'[g] = mounts[g]
        /\ \A g \in DOMAIN mounts : mounts'[g].point = mounts[g].point
    BY <2>1
  <2>5. \A q \in Path : mounts'[h].image.tree[q] =
                          IF Covers(m.point, q) /\ q # m.point THEN u[q] ELSE Absent
    <3>1. m.image.tree \in [Path -> Node] /\ m \in MountRec
      BY <2>2 DEF MountOK, MountRec, Payload
    <3>2. mounts'[h].image.tree = Below(m.point, u)
      BY <2>1, <2>2, <3>1 DEF MountRec, Payload
    <3>3. QED
      BY <3>2 DEF Below
  <2>6. \A q \in Path : Covering(q)' = Covering(q)
    BY <2>4 DEF Covering, Covers
  <2>7. ASSUME NEW q \in Path PROVE FindMount(q)' = FindMount(q)
    <3>1. \A g \in Covering(q) : mounts'[g].point = mounts[g].point
      BY <2>4 DEF Covering
    <3>2. QED
      BY <2>6, <3>1 DEF FindMount, Covers
  <2>8. \A q \in Path : Serve(q)' = IF Covering(q) = {} THEN Absent
                                    ELSE mounts'[FindMount(q)].image.tree[q]
    BY <2>6, <2>7 DEF Serve
  <2>9. Serve(p)' = u[p]
    BY <2>2, <2>3, <2>5, <2>8
  <2>10. ASSUME NEW q \in Path \ {p}, Serve(q)' # Serve(q)
         PROVE  q \in Anc[p] /\ Serve(q) = Absent /\ Serve(q)' = Directory
    <3>1. Covering(q) # {}
      BY <2>8, <2>10 DEF Serve
    <3>2. FindMount(q) \in DOMAIN mounts /\ Serve(q) = mounts[FindMount(q)].image.tree[q]
      BY <1>1, <3>1, ServeType DEF TInv
    <3>3. FindMount(q) = h
      BY <2>4, <2>8, <2>10, <3>1, <3>2
    <3>4. Serve(q) = t[q] /\ Serve(q)' = mounts'[h].image.tree[q]
      BY <2>8, <3>1, <3>2, <3>3
    <3>5. Covers(m.point, q) /\ q # m.point
      BY <2>2, <2>5, <2>10, <3>4 DEF MountOK, Rooted
    <3>6. Serve(q)' = u[q]
      BY <2>5, <3>4, <3>5
    <3>7. QED
      BY <2>1, <2>10, <3>4, <3>6
  <2>11. \A g \in DOMAIN mounts : mounts[g].mode = "RO" => mounts'[g] = mounts[g]
    BY <2>2, <2>4 DEF MountOK
  <2>12. QED
    BY <2>1, <2>3, <2>9, <2>10, <2>11
<1>2. TInv => Serves
  BY <1>1
<1>3. TInv /\ [VfsNext]_vfsVars => [Serves]_vfsVars
  BY <1>2
<1>4. QED
  BY <1>3, Typed, PTL DEF VfsSpec, WriteIsServed

-----------------------------------------------------------------------------
(* They name what their holder opened *)

\* Numbers are given out once: what is open, and what a client has ever been
\* given, lies below the next one.
Numbered ==
  /\ nextFd \in Nat /\ nextDir \in Nat
  /\ \A fd \in DOMAIN fds : fd \in Nat /\ fd < nextFd
  /\ \A d \in DOMAIN dirs : d \in Nat /\ d < nextDir
  /\ \A k \in clients : k.n \in Nat /\ k.n < (IF k.kind = "fd" THEN nextFd ELSE nextDir)

Named == Numbered /\ Entries(fds) /\ Entries(dirs) /\ HandleNamesItsOpen

NamedInv == ~cleared => Named

LEMMA NamedInit == VfsInit => NamedInv
PROOF
  BY DEF VfsInit, NamedInv, Named, Numbered, Entries, HandleNamesItsOpen

LEMMA NamedStep == NamedInv /\ [VfsNext]_vfsVars => NamedInv'
PROOF
<1> SUFFICES ASSUME NamedInv, [VfsNext]_vfsVars, ~cleared' PROVE Named'
  BY DEF NamedInv
<1>10. ~cleared /\ ~Unmount
  <2>1. ~Unmount
    BY DEF Unmount
  <2>2. MakeMount => cleared' = cleared
    BY DEF MakeMount, MountChecked, MountUnion, history
  <2>3. ASSUME NEW h, UnmountHandle(h) PROVE cleared' = cleared
    BY <2>3 DEF UnmountHandle, history
  <2>4. ASSUME NEW p, Open(p) \/ Opendir(p) PROVE cleared' = cleared
    BY <2>4 DEF Open, OpenOn, Opendir, OpendirOn
  <2>5. ASSUME NEW p, WritePath(p) PROVE cleared' = cleared
    BY <2>5 DEF WritePath, WriteOn, history
  <2>6. ASSUME NEW k, NEW n, Read(k, n) \/ Lseek(k, n) \/ Readdir(k) \/ Seekdir(k, n)
        PROVE  cleared' = cleared
    BY <2>6 DEF Read, Lseek, Readdir, Seekdir, history
  <2>7. ASSUME NEW k, Close(k) \/ Closedir(k) PROVE cleared' = cleared
    BY <2>7 DEF Close, Closedir
  <2>8. VfsNext => cleared' = cleared
    BY <2>1, <2>2, <2>3, <2>4, <2>5, <2>6, <2>7 DEF VfsNext, DropMount, Use
  <2> QED
    BY <2>1, <2>8 DEF vfsVars, history
<1>11. Named
  BY <1>10 DEF NamedInv
<1> USE <1>11 DEF Named
<1>1. ASSUME UNCHANGED <<fdVars, dirVars, clients>> PROVE Named'
  BY <1>1 DEF fdVars, dirVars, Numbered, Entries, HandleNamesItsOpen
<1>2. ASSUME NEW h \in DOMAIN mounts, UnmountHandle(h) PROVE Named'
  BY <1>2 DEF history, UnmountHandle, Restrict, NotOwnedBy, Numbered, Entries,
              HandleNamesItsOpen, Token
<1>3. ASSUME NEW p \in Path, Open(p) PROVE Named'
  <2>1. /\ nextFd' = nextFd + 1 /\ UNCHANGED dirVars
        /\ DOMAIN fds' = DOMAIN fds \cup {nextFd}
        /\ \A j \in DOMAIN fds : fds'[j] = fds[j]
        /\ {"path", "owner", "pos"} \subseteq DOMAIN fds'[nextFd]
        /\ clients' = clients \cup {Token("fd", nextFd, fds'[nextFd])}
    BY <1>3 DEF Open, OpenOn, With, Numbered
  <2>2. Numbered' /\ Entries(fds)' /\ Entries(dirs)'
    BY <2>1 DEF Numbered, Entries, dirVars, Token
  <2>3. HandleNamesItsOpen'
    BY <2>1 DEF Numbered, HandleNamesItsOpen, dirVars, Token
  <2> QED
    BY <2>2, <2>3
<1>4. ASSUME NEW p \in Path, Opendir(p) PROVE Named'
  <2>1. /\ nextDir' = nextDir + 1 /\ UNCHANGED fdVars
        /\ DOMAIN dirs' = DOMAIN dirs \cup {nextDir}
        /\ \A j \in DOMAIN dirs : dirs'[j] = dirs[j]
        /\ {"path", "owner", "pos"} \subseteq DOMAIN dirs'[nextDir]
        /\ clients' = clients \cup {Token("dir", nextDir, dirs'[nextDir])}
    BY <1>4 DEF Opendir, OpendirOn, With, Numbered
  <2>2. Numbered' /\ Entries(fds)' /\ Entries(dirs)'
    BY <2>1 DEF Numbered, Entries, fdVars, Token
  <2>3. HandleNamesItsOpen'
    BY <2>1 DEF Numbered, HandleNamesItsOpen, fdVars, Token
  <2> QED
    BY <2>2, <2>3
<1>5. ASSUME NEW fd \in DOMAIN fds, NEW n, Read(fd, n) \/ Lseek(fd, n)
      PROVE  Named'
  <2>1. PICK pos : fds' = [fds EXCEPT ![fd].pos = pos]
    BY <1>5 DEF Read, Lseek
  <2>2. UNCHANGED <<nextFd, dirs, nextDir, clients>>
    BY <1>5 DEF Read, Lseek, dirVars, history
  <2>3. /\ DOMAIN fds' = DOMAIN fds /\ Entries(fds)'
        /\ \A j \in DOMAIN fds : fds'[j].path = fds[j].path
                              /\ fds'[j].owner = fds[j].owner
    BY <2>1, MoveKeeps DEF Entries
  <2> QED
    BY <2>2, <2>3 DEF Numbered, Entries, HandleNamesItsOpen, Token
<1>6. ASSUME NEW d \in DOMAIN dirs, NEW n, Readdir(d) \/ Seekdir(d, n)
      PROVE  Named'
  <2>1. PICK pos : dirs' = [dirs EXCEPT ![d].pos = pos]
    BY <1>6 DEF Readdir, Seekdir
  <2>2. UNCHANGED <<nextFd, fds, nextDir, clients>>
    BY <1>6 DEF Readdir, Seekdir, fdVars, history
  <2>3. /\ DOMAIN dirs' = DOMAIN dirs /\ Entries(dirs)'
        /\ \A j \in DOMAIN dirs : dirs'[j].path = dirs[j].path
                               /\ dirs'[j].owner = dirs[j].owner
    BY <2>1, MoveKeeps DEF Entries
  <2> QED
    BY <2>2, <2>3 DEF Numbered, Entries, HandleNamesItsOpen, Token
<1>7. ASSUME NEW k \in clients, Close(k) \/ Closedir(k) PROVE Named'
  BY <1>7 DEF Close, Closedir, Restrict, fdVars, dirVars, Numbered, Entries,
              HandleNamesItsOpen, Token
<1>8. VfsNext => \/ UNCHANGED <<fdVars, dirVars, clients>>
                 \/ \E h \in DOMAIN mounts : UnmountHandle(h)
                 \/ \E p \in Path : Open(p) \/ Opendir(p)
                 \/ \E fd \in DOMAIN fds : \E n : Read(fd, n) \/ Lseek(fd, n)
                 \/ \E d \in DOMAIN dirs : \E n : Readdir(d) \/ Seekdir(d, n)
                 \/ \E k \in clients : Close(k) \/ Closedir(k)
  BY <1>10 DEF VfsNext, MakeMount, DropMount, Use, MountChecked, MountUnion,
         WritePath, WriteOn, history
<1>9. UNCHANGED vfsVars => UNCHANGED <<fdVars, dirVars, clients>>
  BY DEF vfsVars, history, fdVars, dirVars
<1> QED
  BY <1>1, <1>2, <1>3, <1>4, <1>5, <1>6, <1>7, <1>8, <1>9

\* Until somebody calls unmount, a descriptor or directory handle that a client
\* holds answers for the client's own open or not at all, however many mounts
\* came and went since.
THEOREM HandlesNameTheirOpen == VfsSpec => []HandleNamesItsOpenUntilUnmount
PROOF
<1>1. NamedInv => HandleNamesItsOpenUntilUnmount
  BY DEF NamedInv, Named, HandleNamesItsOpenUntilUnmount
<1> QED
  BY NamedInit, NamedStep, <1>1, PTL DEF VfsSpec

-----------------------------------------------------------------------------
(* Points are distinct *)

Pointed == \A h \in DOMAIN mounts : "point" \in DOMAIN mounts[h]

PointInv == Pointed /\ PointsAreDistinct

LEMMA PointInit == VfsInit => PointInv
PROOF
  BY DEF VfsInit, PointInv, Pointed, PointsAreDistinct

\* Mounting takes a point that is free, a union and a write keep the points,
\* unmounting gives points back.
LEMMA PointStep == PointInv /\ [VfsNext]_vfsVars => PointInv'
PROOF
<1> SUFFICES ASSUME PointInv, [VfsNext]_vfsVars PROVE PointInv'
  OBVIOUS
<1> USE DEF PointInv, Pointed, PointsAreDistinct
<1>1. ASSUME NEW pt \in Point, NEW image \in Image, NEW mode,
             MountChecked(pt, image, mode)
      PROVE  PointInv'
  <2>1. /\ DOMAIN mounts' = DOMAIN mounts \cup {nextHandle}
        /\ mounts'[nextHandle].point = pt /\ "point" \in DOMAIN mounts'[nextHandle]
        /\ \A h \in DOMAIN mounts \ {nextHandle} : mounts'[h] = mounts[h]
    BY <1>1 DEF MountChecked, With
  <2>2. \A h \in DOMAIN mounts : mounts[h].point # pt
    BY <1>1 DEF MountChecked, TakenPoints
  <2> QED
    BY <2>1, <2>2
<1>2. ASSUME NEW h \in DOMAIN mounts, NEW image \in Image, MountUnion(h, image)
      PROVE  PointInv'
  <2>1. /\ DOMAIN mounts' = DOMAIN mounts
        /\ \A g \in DOMAIN mounts : /\ DOMAIN mounts'[g] = DOMAIN mounts[g]
                                    /\ mounts'[g].point = mounts[g].point
    BY <1>2 DEF MountUnion
  <2> QED
    BY <2>1
<1>3. ASSUME NEW h \in DOMAIN mounts, UnmountHandle(h) PROVE PointInv'
  BY <1>3 DEF UnmountHandle, Restrict
<1>4. ASSUME Unmount PROVE PointInv'
  BY <1>4 DEF Unmount
<1>5. ASSUME NEW p \in Path, WritePath(p) PROVE PointInv'
  <2>1. /\ DOMAIN mounts' = DOMAIN mounts
        /\ \A g \in DOMAIN mounts : /\ DOMAIN mounts'[g] = DOMAIN mounts[g]
                                    /\ mounts'[g].point = mounts[g].point
    <3>1. PICK h, u : mounts' = [mounts EXCEPT ![h].image.tree = u]
      BY <1>5 DEF WritePath, WriteOn
    <3> QED
      BY <3>1
  <2> QED
    BY <2>1
<1>6. ASSUME UNCHANGED mounts PROVE PointInv'
  BY <1>6
<1>7. ASSUME NEW p \in Path, Open(p) \/ Opendir(p) PROVE UNCHANGED mounts
  BY <1>7 DEF Open, OpenOn, Opendir, OpendirOn, tableVars
<1>8. ASSUME NEW k, NEW n, Read(k, n) \/ Lseek(k, n) \/ Readdir(k) \/ Seekdir(k, n)
      PROVE  UNCHANGED mounts
  BY <1>8 DEF Read, Lseek, Readdir, Seekdir, tableVars
<1>9. ASSUME NEW k, Close(k) \/ Closedir(k) PROVE UNCHANGED mounts
  BY <1>9 DEF Close, Closedir, tableVars
<1>10. UNCHANGED vfsVars => UNCHANGED mounts
  BY DEF vfsVars, tableVars
<1> QED
  BY <1>1, <1>2, <1>3, <1>4, <1>5, <1>6, <1>7, <1>8, <1>9, <1>10
  DEF VfsNext, MakeMount, DropMount, Use

\* Whatever is mounted, united and unmounted: no two mounts share a point, so
\* that at most one of the mounts that cover a path is the longest, and every
\* call by path goes to that one.
THEOREM PointsDiffer == VfsSpec => []PointsAreDistinct
PROOF
<1>1. PointInv => PointsAreDistinct
  BY DEF PointInv
<1> QED
  BY PointInit, PointStep, <1>1, PTL DEF VfsSpec

-----------------------------------------------------------------------------
(* Unmounting one mount leaves the others alone *)

\* What covers a path that a mount does not cover stays as it was when that
\* mount goes, so that the same mount serves the path.
LEMMA ServeIsKept ==
  ASSUME NEW h \in DOMAIN mounts, UnmountHandle(h), NEW p \in Path,
         ~Covers(mounts[h].point, p)
  PROVE  Serve(p)' = Serve(p)
PROOF
<1>1. DOMAIN mounts' = DOMAIN mounts \ {h} /\ \A g \in DOMAIN mounts' : mounts'[g] = mounts[g]
  BY DEF UnmountHandle, Restrict
<1>2. Covering(p)' = Covering(p)
  BY <1>1 DEF Covering, Covers
<1>3. \A g \in Covering(p) : mounts'[g] = mounts[g]
  BY <1>1, <1>2 DEF Covering
<1>4. FindMount(p)' = FindMount(p)
  BY <1>2, <1>3 DEF FindMount, Covers
<1>5. CASE Covering(p) = {}
  BY <1>2, <1>5 DEF Serve
<1>6. CASE Covering(p) # {}
  <2>1. mounts'[FindMount(p)] = mounts[FindMount(p)]
    BY <1>3, <1>6, FoundCovers
  <2> QED
    BY <1>2, <1>4, <1>6, <2>1 DEF Serve
<1> QED
  BY <1>5, <1>6

\* unmount_handle takes away what its mount served and what was opened on it,
\* and nothing else: no other mount's descriptor, directory handle or file.
THEOREM UnmountingIsLocal == VfsSpec => UnmountIsLocal
PROOF
<1>1. ASSUME NEW h \in DOMAIN mounts, UnmountHandle(h)
      PROVE  /\ \A fd \in DOMAIN fds : fds[fd].owner # h => fd \in DOMAIN fds'
             /\ \A d \in DOMAIN dirs : dirs[d].owner # h => d \in DOMAIN dirs'
    BY <1>1 DEF UnmountHandle, Restrict, NotOwnedBy
<1>2. [VfsNext]_vfsVars =>
        [\A h \in DOMAIN mounts : UnmountHandle(h) =>
           /\ \A fd \in DOMAIN fds : fds[fd].owner # h => fd \in DOMAIN fds'
           /\ \A d \in DOMAIN dirs : dirs[d].owner # h => d \in DOMAIN dirs'
           /\ \A p \in Path : Covers(mounts[h].point, p) \/ Serve(p)' = Serve(p)]_vfsVars
  BY <1>1, ServeIsKept
<1> QED
  BY <1>2, PTL DEF VfsSpec, UnmountIsLocal

-----------------------------------------------------------------------------
(* Extraction                                                              *)
(*                                                                         *)
(* The answers are copies of what the mounts serve on the condition that   *)
(* the driver keeps: it mounts everything before the first extraction, and *)
(* what is extracted is not written to.                                    *)

Settled == ~LateMounts /\ "write" \notin Surfaces

LEMMA ExtractionLeaves ==
  ASSUME NEW p, Dlmap2file(p) \/ Exec(p)
  PROVE  UNCHANGED vfsVars
BY DEF Dlmap2file, Exec, DlHit, DlMiss, ExecHomeHit, ExecHomeMiss, ExecClosure, ExecElsewhere

\* Extraction adds to the mount context and takes nothing from it: whatever is
\* shown of the context above holds with it too.
THEOREM ExtractionIsExtra == Spec => VfsSpec
<1>1. Init => VfsInit
  BY DEF Init
<1>2. [Next]_vars => [VfsNext]_vfsVars
  <2>1. Mount \/ Drop \/ Other => VfsNext
    BY DEF Mount, Drop, Other, VfsNext
  <2>2. UNCHANGED vars => UNCHANGED vfsVars
    BY DEF vars
  <2>3. QED
    BY <2>1, <2>2, ExtractionLeaves DEF Next
<1>3. QED
  BY <1>1, <1>2, PTL DEF Spec, VfsSpec

\* Where nothing is written to, using the mounts leaves them.
LEMMA UseLeaves ==
  ASSUME "write" \notin Surfaces, Use
  PROVE  UNCHANGED tableVars
<1>1. \A p : ~WritePath(p)
  BY DEF WritePath, WriteOn
<1>2. ASSUME NEW p, Open(p) \/ Opendir(p) PROVE UNCHANGED tableVars
  BY <1>2 DEF Open, OpenOn, Opendir, OpendirOn
<1>3. ASSUME NEW k, NEW n, Read(k, n) \/ Lseek(k, n) \/ Readdir(k) \/ Seekdir(k, n)
      PROVE  UNCHANGED tableVars
  BY <1>3 DEF Read, Lseek, Readdir, Seekdir
<1>4. ASSUME NEW k, Close(k) \/ Closedir(k) PROVE UNCHANGED tableVars
  BY <1>4 DEF Close, Closedir
<1>5. QED
  BY <1>1, <1>2, <1>3, <1>4 DEF Use

\* What the table serves depends on the table alone.
LEMMA TableServes ==
  ASSUME mounts' = mounts
  PROVE  \A p : /\ Covering(p)' = Covering(p) /\ FindMount(p)' = FindMount(p)
                /\ Serve(p)' = Serve(p)
BY DEF Covering, FindMount, Covers, Serve

\* The cache is of the mounts there are.
CacheInv ==
  /\ DlAnswerIsImage
  /\ \A p \in Path : p \in dlCache /\ Covering(p) # {} => dlFile[p] = Serve(p)

LEMMA CacheStep ==
  ASSUME Settled
  PROVE  CacheInv /\ [Next]_vars => CacheInv'
<1> SUFFICES ASSUME CacheInv, [Next]_vars PROVE CacheInv'
  OBVIOUS
<1>1. ASSUME mounts' = mounts, UNCHANGED dlVars, answer' = NoAnswer \/ answer' = answer
      PROVE  CacheInv'
  BY <1>1, TableServes DEF CacheInv, DlAnswerIsImage, NoAnswer, dlVars
<1>2. ASSUME NEW p \in Path, DlHit(p) PROVE CacheInv'
  <2>1. mounts' = mounts /\ UNCHANGED dlVars
    BY <1>2 DEF DlHit, vfsVars, tableVars
  <2>2. answer'.host = dlFile[p] /\ answer'.image = Serve(p)
    BY <1>2 DEF DlHit
  <2>3. dlFile[p] = Serve(p)
    BY <1>2 DEF DlHit, CacheInv
  <2>4. QED
    BY <2>1, <2>2, <2>3, TableServes DEF CacheInv, DlAnswerIsImage, dlVars
<1>3. ASSUME NEW p \in Path, DlMiss(p) PROVE CacheInv'
  <2>1. mounts' = mounts
    BY <1>3 DEF DlMiss, vfsVars, tableVars
  <2>2. PICK failing \in Failing :
          /\ dlCache' = dlCache \cup (Walk(p, failing) \ failing)
          /\ dlFile' = [q \in Path |-> IF q \notin Walk(p, failing) THEN dlFile[q]
                                       ELSE IF q \in failing THEN Absent
                                       ELSE Serve(q)]
          /\ answer' = IF p \in failing THEN NoAnswer
                       ELSE [kind |-> "dl", path |-> p, host |-> Serve(p),
                             image |-> Serve(p)]
    BY <1>3 DEF DlMiss
  <2>3. Walk(p, failing) \cap dlCache = {}
    BY DEF Walk
  <2>4. ASSUME NEW q \in Path, q \in dlCache', Covering(q) # {}
        PROVE  dlFile'[q] = Serve(q)
    BY <2>2, <2>3, <2>4 DEF CacheInv
  <2>5. DlAnswerIsImage'
    BY <2>2 DEF DlAnswerIsImage, NoAnswer
  <2>6. QED
    BY <2>1, <2>4, <2>5, TableServes DEF CacheInv
<1>4. ASSUME Mount \/ Drop PROVE CacheInv'
  <2>1. dlCache' = {} /\ answer' = NoAnswer
    BY <1>4 DEF Mount, Drop, Settled, dlVars
  <2>2. QED
    BY <2>1 DEF CacheInv, DlAnswerIsImage, NoAnswer
<1>5. CASE Other
  <2>1. mounts' = mounts
    BY <1>5, UseLeaves DEF Other, Settled, tableVars
  <2>2. QED
    BY <1>1, <1>5, <2>1 DEF Other
<1>6. ASSUME NEW p \in Path, ExecHomeHit(p) \/ ExecHomeMiss(p) \/ ExecElsewhere(p)
      PROVE  CacheInv'
  <2>1. mounts' = mounts /\ UNCHANGED dlVars
    BY <1>6 DEF ExecHomeHit, ExecHomeMiss, ExecElsewhere, vfsVars, tableVars
  <2>2. answer'.kind # "dl"
    BY <1>6 DEF ExecHomeHit, ExecHomeMiss, ExecElsewhere, HomeAnswer, NoAnswer
  <2>3. QED
    BY <2>1, <2>2, TableServes DEF CacheInv, DlAnswerIsImage, dlVars
<1>7. CASE UNCHANGED vars
  BY <1>1, <1>7 DEF vars, vfsVars, tableVars
<1>8. QED
  BY <1>2, <1>3, <1>4, <1>5, <1>6, <1>7 DEF Next, Dlmap2file, Exec, ExecClosure

\* dlmap2file answers with a whole copy of what the mounts serve at the path,
\* whatever it failed to store before and whatever was unmounted since, when
\* everything is mounted before the first extraction and is not written to.
THEOREM ExtractsTheImage ==
  ASSUME Settled
  PROVE  Spec => []DlAnswerIsImage
<1>1. Init => CacheInv
  BY DEF Init, CacheInv, DlAnswerIsImage, NoAnswer
<1>2. CacheInv => DlAnswerIsImage
  BY DEF CacheInv
<1>3. QED
  BY <1>1, <1>2, CacheStep, PTL DEF Spec

\* A home that is known to be extracted, and mounted, is extracted whole; the
\* handle of one that is gone is not given out again.
HomeInv ==
  /\ DOMAIN homeFile = Handles
  /\ homeTrees \subseteq 0 .. nextHandle - 1
  /\ ~refused =>
       /\ HomeAnswerIsImage
       /\ \A h \in homeTrees \cap DOMAIN mounts : homeFile[h] = mounts[h].image.tree

LEMMA HomeStep ==
  ASSUME Settled
  PROVE  TableInv /\ HomeInv /\ [Next]_vars => HomeInv'
<1> SUFFICES ASSUME TableInv, HomeInv, [Next]_vars PROVE HomeInv'
  OBVIOUS
<1>2. ASSUME NEW p \in Path, Dlmap2file(p) \/ ExecClosure(p) \/ ExecElsewhere(p)
      PROVE  HomeInv'
  <2>1. UNCHANGED tableVars /\ UNCHANGED <<homeTrees, homeFile>>
    BY <1>2 DEF Dlmap2file, ExecClosure, ExecElsewhere, DlHit, DlMiss, vfsVars, homeVars
  <2>2. answer'.kind # "home"
    BY <1>2 DEF Dlmap2file, ExecClosure, ExecElsewhere, DlHit, DlMiss, NoAnswer
  <2>3. refused => refused'
    <3>1. DlMiss(p) => \E failing : refused' = (refused \/ Walk(p, failing) \cap failing # {})
      BY DEF DlMiss
    <3>2. DlHit(p) \/ ExecElsewhere(p) => refused' = refused
      BY DEF DlHit, ExecElsewhere
    <3>3. QED
      BY <1>2, <3>1, <3>2, Zenon DEF Dlmap2file, ExecClosure
  <2>4. QED
    BY <2>1, <2>2, <2>3 DEF HomeInv, HomeAnswerIsImage, tableVars
<1>3. ASSUME NEW p \in Path, ExecHomeHit(p) PROVE HomeInv'
  <2> DEFINE h == FindMount(p)
  <2>1. /\ UNCHANGED tableVars /\ UNCHANGED <<homeTrees, homeFile, refused>>
        /\ h \in homeTrees /\ Covering(p) # {}
        /\ answer' = HomeAnswer(p, homeFile[h])
    BY <1>3 DEF ExecHomeHit, vfsVars
  <2>2. h \in DOMAIN mounts /\ Serve(p) = mounts[h].image.tree[p]
    BY <2>1, ServeType
  <2> HIDE DEF h
  <2>3. ~refused => homeFile[h][p] = Serve(p)
    BY <2>1, <2>2 DEF HomeInv
  <2>4. QED
    BY <2>1, <2>3 DEF HomeInv, HomeAnswerIsImage, HomeAnswer, tableVars
<1>4. ASSUME NEW p \in Path, ExecHomeMiss(p) PROVE HomeInv'
  <2> DEFINE h == FindMount(p)
  <2>1. /\ UNCHANGED tableVars /\ Covering(p) # {}
        /\ homeTrees' = homeTrees \cup {h}
        /\ \/ /\ homeFile' = [homeFile EXCEPT ![h] = mounts[h].image.tree]
              /\ answer' = HomeAnswer(p, mounts[h].image.tree)
           \/ /\ \E u : homeFile' = [homeFile EXCEPT ![h] = u]
              /\ refused' = TRUE
        /\ refused' = refused \/ refused' = TRUE
    BY <1>4 DEF ExecHomeMiss, vfsVars
  <2>2. h \in DOMAIN mounts /\ Serve(p) = mounts[h].image.tree[p]
    BY <2>1, ServeType
  <2> HIDE DEF h
  <2>3. h \in Handles /\ h \in 0 .. nextHandle - 1
    BY <2>2, VfsAssumption DEF TableInv, Handles
  <2>4. /\ DOMAIN homeFile' = Handles
        /\ homeTrees' \subseteq 0 .. nextHandle' - 1
    BY <2>1, <2>3 DEF HomeInv, tableVars
  <2>5. ASSUME ~refused'
        PROVE  /\ HomeAnswerIsImage'
               /\ \A g \in homeTrees' \cap DOMAIN mounts' : homeFile'[g] = mounts'[g].image.tree
    <3>1. /\ homeFile' = [homeFile EXCEPT ![h] = mounts[h].image.tree]
          /\ answer' = HomeAnswer(p, mounts[h].image.tree) /\ ~refused
      BY <2>1, <2>5
    <3>2. QED
      BY <2>1, <2>2, <2>3, <3>1 DEF HomeInv, HomeAnswerIsImage, HomeAnswer, tableVars
  <2>6. QED
    BY <2>4, <2>5 DEF HomeInv
<1>5. CASE Mount
  <2>1. /\ homeTrees \cap DOMAIN mounts = {}
        /\ UNCHANGED <<homeTrees, homeFile, refused>> /\ answer' = NoAnswer
    BY <1>5 DEF Mount, Settled, homeVars
  <2>2. nextHandle' \in Nat /\ nextHandle <= nextHandle'
        /\ DOMAIN mounts' \subseteq DOMAIN mounts \cup {nextHandle}
    <3>1. nextHandle \in Nat
      BY VfsAssumption DEF TableInv
    <3>2. ASSUME NEW pt, NEW image, NEW mode, MountChecked(pt, image, mode)
          PROVE  /\ nextHandle' \in Nat /\ nextHandle <= nextHandle'
                 /\ DOMAIN mounts' \subseteq DOMAIN mounts \cup {nextHandle}
      BY <3>1, <3>2 DEF MountChecked, With
    <3>3. ASSUME NEW h, NEW image, MountUnion(h, image)
          PROVE  /\ nextHandle' \in Nat /\ nextHandle <= nextHandle'
                 /\ DOMAIN mounts' \subseteq DOMAIN mounts \cup {nextHandle}
      BY <3>1, <3>3 DEF MountUnion
    <3>4. QED
      BY <1>5, <3>2, <3>3 DEF Mount, MakeMount
  <2>3. nextHandle \notin homeTrees /\ homeTrees \subseteq 0 .. nextHandle' - 1
    <3>1. nextHandle \in Nat /\ \A g \in homeTrees : g \in Nat /\ g < nextHandle
      BY VfsAssumption DEF HomeInv, TableInv
    <3>2. nextHandle \notin homeTrees
      BY <3>1
    <3>3. \A g \in homeTrees : g \in 0 .. nextHandle' - 1
      BY <2>2, <3>1
    <3>4. QED
      BY <3>2, <3>3
  <2>4. homeTrees' \cap DOMAIN mounts' = {}
    BY <2>1, <2>2, <2>3
  <2>5. QED
    BY <2>1, <2>3, <2>4 DEF HomeInv, HomeAnswerIsImage, NoAnswer
<1>6. CASE Drop
  <2>1. /\ UNCHANGED <<homeTrees, homeFile, refused, nextHandle>> /\ answer' = NoAnswer
    BY <1>6 DEF Drop, DropMount, Unmount, UnmountHandle, homeVars
  <2>2. /\ DOMAIN mounts' \subseteq DOMAIN mounts
        /\ \A g \in DOMAIN mounts' : mounts'[g] = mounts[g]
    <3>1. ASSUME NEW h, UnmountHandle(h)
          PROVE  /\ DOMAIN mounts' \subseteq DOMAIN mounts
                 /\ \A g \in DOMAIN mounts' : mounts'[g] = mounts[g]
      BY <3>1 DEF UnmountHandle, Restrict
    <3>2. Unmount => DOMAIN mounts' = {}
      BY DEF Unmount
    <3>3. QED
      BY <1>6, <3>1, <3>2 DEF Drop, DropMount
  <2>3. QED
    BY <2>1, <2>2 DEF HomeInv, HomeAnswerIsImage, NoAnswer
<1>7. CASE Other
  <2>1. UNCHANGED tableVars
    BY <1>7, UseLeaves DEF Other, Settled
  <2>2. QED
    BY <1>7, <2>1 DEF Other, HomeInv, HomeAnswerIsImage, NoAnswer, homeVars, tableVars
<1>8. CASE UNCHANGED vars
  BY <1>8 DEF vars, vfsVars, tableVars, homeVars, HomeInv, HomeAnswerIsImage
<1>9. QED
  BY <1>2, <1>3, <1>4, <1>5, <1>6, <1>7, <1>8 DEF Next, Exec

\* exec_materialize answers with the twin of the path inside a tree that was
\* extracted whole, as long as the host stored what it was given: a mount that
\* goes and another that comes in its place never share a tree.
THEOREM HomesAreWhole ==
  ASSUME Settled
  PROVE  Spec => []HomeAnswerIsImageUnlessRefused
<1>1. Init => HomeInv
  BY VfsAssumption DEF Init, VfsInit, HomeInv, HomeAnswerIsImage, NoAnswer
<1>2. HomeInv => HomeAnswerIsImageUnlessRefused
  BY DEF HomeInv, HomeAnswerIsImageUnlessRefused
<1>3. Spec => []TableInv
  BY ExtractionIsExtra, Typed, PTL DEF TInv
<1>4. QED
  BY <1>1, <1>2, <1>3, HomeStep, PTL DEF Spec

-----------------------------------------------------------------------------
(* What the files in the cache need *)

\* Induction over the naturals, of a set: the least of what is left out of it
\* would have a predecessor in it.
LEMMA Induct ==
  ASSUME NEW T, 0 \in T, \A n \in Nat : n \in T => n + 1 \in T
  PROVE  Nat \subseteq T
<1> SUFFICES ASSUME NEW k \in Nat, k \notin T PROVE FALSE
  OBVIOUS
<1> DEFINE R == StrictSubsetOrdering(0 .. k)
           S == FiniteSubsetsOf(0 .. k)
           Left == {0 .. n : n \in {n \in 0 .. k : n \notin T}}
<1>1. IsWellFoundedOn(R, S)
  BY FS_StrictSubsetOrderingWellFounded
<1>2. Left \subseteq S /\ Left # {}
  <2>1. \A n \in 0 .. k : IsFiniteSet(0 .. n) /\ 0 .. n \subseteq 0 .. k
    BY FS_Interval
  <2>2. QED
    BY <2>1 DEF FiniteSubsetsOf
<1> HIDE DEF R, S
<1>3. PICK s \in Left : \A u \in Left : <<u, s>> \notin R
  <2> HIDE DEF Left
  <2>1. QED
    BY <1>1, <1>2, WFMin
<1>4. PICK n \in 0 .. k : n \notin T /\ s = 0 .. n
  OBVIOUS
<1>5. n # 0 /\ n - 1 \in 0 .. k /\ n - 1 \notin T
  BY <1>4
<1>6. <<0 .. n - 1, 0 .. n>> \in R
  <2>1. 0 .. n - 1 \subseteq 0 .. n /\ n \in 0 .. n /\ n \notin 0 .. n - 1 /\ 0 .. n \subseteq 0 .. k
    BY <1>4, <1>5
  <2>2. QED
    BY <2>1, Zenon DEF R, StrictSubsetOrdering
<1>7. QED
  BY <1>3, <1>4, <1>5, <1>6

\* r is what applying m to x gives, 0 to k times over.
IsRun(m, x, k, r) == r[0] = x /\ \A n \in 1 .. k : r[n] = m[r[n - 1]]

\* A function can be applied any number of times over.
LEMMA Iterates ==
  ASSUME NEW S, NEW x \in S, NEW m \in [S -> S], NEW k \in Nat
  PROVE  \E r \in [0 .. k -> S] : IsRun(m, x, k, r)
<1> DEFINE Runs(r, n) == IsRun(m, x, n, r)
           T == {j \in Nat : \E r \in [0 .. j -> S] : Runs(r, j)}
<1>1. 0 \in T
  <2>1. [i \in 0 .. 0 |-> x] \in [0 .. 0 -> S] /\ Runs([i \in 0 .. 0 |-> x], 0)
    BY DEF IsRun
  <2>2. QED
    BY <2>1
<1>2. ASSUME NEW j \in Nat, j \in T PROVE j + 1 \in T
  <2>1. PICK r \in [0 .. j -> S] : Runs(r, j)
    BY <1>2
  <2> DEFINE longer == [n \in 0 .. j + 1 |-> IF n = j + 1 THEN m[r[j]] ELSE r[n]]
  <2>2. longer \in [0 .. j + 1 -> S]
    <3>1. \A n \in 0 .. j + 1 : n # j + 1 => n \in 0 .. j
      OBVIOUS
    <3>2. m[r[j]] \in S
      OBVIOUS
    <3>3. QED
      BY <3>1, <3>2
  <2>3. Runs(longer, j + 1)
    <3>1. longer[0] = x
      BY <2>1 DEF IsRun
    <3>2. ASSUME NEW n \in 1 .. j + 1 PROVE longer[n] = m[longer[n - 1]]
      <4>1. n - 1 \in 0 .. j /\ n \in 0 .. j + 1 /\ n - 1 \in 0 .. j + 1 /\ n - 1 # j + 1
        OBVIOUS
      <4>2. longer[n - 1] = r[n - 1]
        BY <4>1
      <4>3. CASE n = j + 1
        BY <4>1, <4>2, <4>3
      <4>4. CASE n # j + 1
        <5>1. n \in 1 .. j
          BY <4>4
        <5>2. QED
          BY <2>1, <4>1, <4>2, <4>4, <5>1 DEF IsRun
      <4>5. QED
        BY <4>3, <4>4
    <3>3. QED
      BY <3>1, <3>2 DEF IsRun
  <2>4. QED
    <3> HIDE DEF longer, Runs
    <3>1. QED
      BY <2>2, <2>3
<1>3. Nat \subseteq T
  <2> HIDE DEF T
  <2>1. QED
    BY <1>1, <1>2, Induct
<1>4. QED
  BY <1>3

\* One step of the walk.
More(failing, qs) ==
  qs \cup UNION {{d \in Needs[q] : Held(d)} :
                   q \in {x \in qs : x \notin dlCache /\ x \notin failing}}

\* The walk goes as many steps as there are paths.
LEMMA WalkRuns ==
  ASSUME IsFiniteSet(Path), NEW p \in Path, NEW failing
  PROVE  \E r \in [0 .. Cardinality(Path) -> SUBSET Path] :
           /\ \A n \in 1 .. Cardinality(Path) : r[n] = More(failing, r[n - 1])
           /\ Walk(p, failing) = r[Cardinality(Path)] \ dlCache
<1> DEFINE k == Cardinality(Path)
           S == SUBSET Path
           m == [qs \in S |-> More(failing, qs)]
           Def(r) == [n \in 0 .. k |-> IF n = 0 THEN {p} ELSE More(failing, r[n - 1])]
           reach == CHOOSE r : r = Def(r)
<1>1. k \in Nat
  BY FS_CardinalityType
<1>2. \A qs \in S : More(failing, qs) \in S
  BY MaterializeAssumption DEF More
<1>3. Walk(p, failing) = reach[k] \ dlCache
  BY Zenon DEF Walk, More
<1> HIDE DEF S, reach
<1>4. m \in [S -> S]
  BY <1>2
<1> HIDE DEF k
<1>5. PICK r \in [0 .. k -> S] : r[0] = {p} /\ \A n \in 1 .. k : r[n] = m[r[n - 1]]
  <2>1. {p} \in S
    BY DEF S
  <2> HIDE DEF m
  <2>2. PICK r \in [0 .. k -> S] : IsRun(m, {p}, k, r)
    BY <1>1, <1>4, <2>1, Iterates
  <2>3. QED
    BY <2>2 DEF IsRun
<1>6. r = Def(r)
  <2>1. ASSUME NEW n \in 0 .. k
        PROVE  r[n] = IF n = 0 THEN {p} ELSE More(failing, r[n - 1])
    <3>1. n # 0 => n \in 1 .. k /\ n - 1 \in 0 .. k
      BY <1>1
    <3>2. QED
      BY <1>5, <3>1
  <2>2. QED
    BY <2>1
<1>7. reach = Def(reach)
  <2> HIDE DEF Def
  <2>1. QED
    BY <1>6 DEF reach
<1>8. \A n \in 0 .. k : reach[n] \in S
  <2> DEFINE T == {n \in Nat : n <= k => reach[n] \in S}
  <2>1. 0 \in T
    <3>1. reach[0] = {p}
      BY <1>1, <1>7
    <3>2. QED
      BY <3>1 DEF S
  <2>2. ASSUME NEW n \in Nat, n \in T PROVE n + 1 \in T
    <3>1. SUFFICES ASSUME n + 1 <= k PROVE reach[n + 1] \in S
      OBVIOUS
    <3>2. reach[n + 1] = More(failing, reach[n])
      <4>1. n + 1 \in 0 .. k /\ n + 1 # 0 /\ (n + 1) - 1 = n
        BY <1>1, <3>1
      <4>2. QED
        BY <1>7, <4>1
    <3>3. QED
      BY <1>1, <1>2, <2>2, <3>1, <3>2
  <2>3. Nat \subseteq T
    <3> HIDE DEF T
    <3>1. QED
      BY <2>1, <2>2, Induct
  <2>4. QED
    BY <1>1, <2>3
<1>9. \A n \in 1 .. k : reach[n] = More(failing, reach[n - 1])
  <2>1. ASSUME NEW n \in 1 .. k PROVE reach[n] = More(failing, reach[n - 1])
    <3>1. n \in 0 .. k /\ n # 0
      BY <1>1
    <3>2. QED
      BY <1>7, <3>1
  <2>2. QED
    BY <2>1
<1>10. reach \in [0 .. k -> S]
  <2>1. reach = [n \in 0 .. k |-> reach[n]]
    BY <1>7
  <2>2. QED
    BY <1>8, <2>1
<1>11. QED
  BY <1>3, <1>9, <1>10 DEF k, S

\* What is still missing below a file the walk stores, the walk finds: as long
\* as a step adds anything the set grows, and there are no more paths than that.
LEMMA WalkIsClosed ==
  ASSUME IsFiniteSet(Path), NEW p \in Path, NEW failing,
         NEW q \in Walk(p, failing), q \notin failing,
         NEW d \in Needs[q], Held(d)
  PROVE  d \in dlCache \cup Walk(p, failing)
<1> DEFINE k == Cardinality(Path)
<1>1. k \in Nat
  BY FS_CardinalityType
<1>2. PICK r \in [0 .. k -> SUBSET Path] :
         /\ \A n \in 1 .. k : r[n] = More(failing, r[n - 1])
         /\ Walk(p, failing) = r[k] \ dlCache
  BY WalkRuns
<1> HIDE DEF k
<1> DEFINE Still(n) == r[n] = More(failing, r[n])
           T == {n \in Nat : n <= k => Still(n) \/ n <= Cardinality(r[n])}
<1>3. \A n \in 0 .. k : IsFiniteSet(r[n]) /\ Cardinality(r[n]) \in Nat
  BY FS_Subset, FS_CardinalityType
<1>4. 0 \in T
  BY <1>1, <1>3
<1>5. ASSUME NEW n \in Nat, n \in T PROVE n + 1 \in T
  <2>1. SUFFICES ASSUME n + 1 <= k PROVE Still(n + 1) \/ n + 1 <= Cardinality(r[n + 1])
    OBVIOUS
  <2>2. n \in 0 .. k /\ n + 1 \in 0 .. k /\ r[n + 1] = More(failing, r[n])
    <3>1. n + 1 \in 1 .. k /\ (n + 1) - 1 = n /\ n \in 0 .. k /\ n + 1 \in 0 .. k
      BY <1>1, <2>1
    <3>2. QED
      BY <1>2, <3>1
  <2>3. CASE Still(n)
    BY <2>2, <2>3
  <2>4. CASE ~Still(n)
    <3>1. r[n] \subseteq r[n + 1] /\ r[n] # r[n + 1]
      BY <2>2, <2>4 DEF More
    <3>2. Cardinality(r[n]) <= Cardinality(r[n + 1]) /\ Cardinality(r[n]) # Cardinality(r[n + 1])
      BY <1>3, <2>2, <3>1, FS_Subset
    <3>3. n <= Cardinality(r[n])
      BY <1>5, <2>1, <2>2, <2>4
    <3>4. QED
      BY <1>3, <2>2, <3>2, <3>3
  <2>5. QED
    BY <2>3, <2>4
<1>6. k \in T
  <2> HIDE DEF T
  <2>1. QED
    BY <1>1, <1>4, <1>5, Induct
<1>7. Still(k)
  <2>1. CASE r[k] = Path
    <3>1. More(failing, r[k]) = Path
      BY <2>1, MaterializeAssumption DEF More
    <3>2. QED
      BY <2>1, <3>1
  <2>2. CASE r[k] # Path
    <3>1. r[k] \subseteq Path /\ k \in 0 .. k
      BY <1>1, <1>2
    <3>2. Cardinality(r[k]) < k
      BY <1>1, <1>3, <2>2, <3>1, FS_Subset DEF k
    <3>3. QED
      BY <1>1, <1>3, <1>6, <3>1, <3>2
  <2>3. QED
    BY <2>1, <2>2
<1>8. q \in r[k] /\ q \notin dlCache
  BY <1>2
<1>9. d \in More(failing, r[k])
  BY <1>8 DEF More
<1>10. QED
  BY <1>2, <1>7, <1>9

\* What is in the cache has the libraries it needs beside it, and theirs beside
\* them, as long as the host stored what it was given.
THEOREM LibrariesComeAlong ==
  ASSUME Settled, IsFiniteSet(Path)
  PROVE  Spec => []ClosureIsThere
<1>1. Init => ClosureIsThere
  BY DEF Init, ClosureIsThere
<1>2. ClosureIsThere /\ [Next]_vars => ClosureIsThere'
  <2> SUFFICES ASSUME ClosureIsThere, [Next]_vars PROVE ClosureIsThere'
    OBVIOUS
  <2>1. ASSUME mounts' = mounts, dlCache' = dlCache, refused => refused'
        PROVE  ClosureIsThere'
    BY <2>1, TableServes DEF ClosureIsThere, Held
  <2>2. ASSUME NEW p \in Path, DlMiss(p) PROVE ClosureIsThere'
    <3>1. mounts' = mounts
      BY <2>2 DEF DlMiss, vfsVars, tableVars
    <3>2. PICK failing \in Failing :
            /\ dlCache' = dlCache \cup (Walk(p, failing) \ failing)
            /\ refused' = (refused \/ Walk(p, failing) \cap failing # {})
      BY <2>2 DEF DlMiss
    <3>3. SUFFICES ASSUME ~refused', NEW q \in dlCache', NEW d \in Needs[q], Held(d)
                   PROVE  d \in dlCache'
      BY <3>1, TableServes DEF ClosureIsThere, Held
    <3>4. ~refused /\ Walk(p, failing) \cap failing = {}
      BY <3>2, <3>3
    <3>5. CASE q \in dlCache
      BY <3>2, <3>3, <3>4, <3>5 DEF ClosureIsThere
    <3>6. CASE q \notin dlCache
      <4>1. q \in Walk(p, failing) /\ q \notin failing
        BY <3>2, <3>3, <3>6
      <4>2. d \in dlCache \cup Walk(p, failing)
        BY <3>3, <4>1, WalkIsClosed
      <4>3. QED
        BY <3>2, <3>4, <4>2
    <3>7. QED
      BY <3>5, <3>6
  <2>3. ASSUME NEW p \in Path, DlHit(p) PROVE ClosureIsThere'
    BY <2>1, <2>3 DEF DlHit, vfsVars, tableVars, dlVars
  <2>4. ASSUME Mount \/ Drop PROVE ClosureIsThere'
    <3>1. dlCache' = {}
      BY <2>4 DEF Mount, Drop, Settled, dlVars
    <3>2. QED
      BY <3>1 DEF ClosureIsThere
  <2>5. CASE Other
    BY <2>1, <2>5, UseLeaves DEF Other, Settled, tableVars, dlVars
  <2>6. ASSUME NEW p \in Path, ExecHomeHit(p) \/ ExecHomeMiss(p) \/ ExecElsewhere(p)
        PROVE  ClosureIsThere'
    BY <2>1, <2>6 DEF ExecHomeHit, ExecHomeMiss, ExecElsewhere, vfsVars, tableVars, dlVars
  <2>7. CASE UNCHANGED vars
    BY <2>1, <2>7 DEF vars, vfsVars, tableVars, dlVars
  <2>8. QED
    BY <2>2, <2>3, <2>4, <2>5, <2>6, <2>7 DEF Next, Dlmap2file, Exec, ExecClosure
<1>3. QED
  BY <1>1, <1>2, PTL DEF Spec

=============================================================================
