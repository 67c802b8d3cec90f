--------------------------------- MODULE Vfs ---------------------------------
(***************************************************************************)
(* FsContext (crates/tfs/src/context.rs): the process-wide mount table,    *)
(* the descriptors and the directory handles opened through it, and the    *)
(* path-level writes.  The context sits behind one lock and every call     *)
(* below holds it throughout, so a call is one step.  A call that answers  *)
(* an error and changes nothing is a stuttering step and is not written    *)
(* out.                                                                    *)
(*                                                                         *)
(* Paths are absolute here, mount points are paths, and the tree of a      *)
(* mount is what its backend holds, written at the paths the mount puts it *)
(* at.  Cow says what the writes of a copy-on-write backend do to it.      *)
(***************************************************************************)
EXTENDS Tree, FiniteSets, FiniteSetsExt, Functions

CONSTANTS
  Point,      \* the mount points used: paths, or Root
  Image,      \* the images: [tree |-> .., home |-> ..] (see Payload)
  Surfaces,   \* bound: what the clients use, of "fd", "dir", "write", "union"
  MaxMount,   \* bound: the mounts ever made
  MaxFd,      \* TEBAKO_FD_MAX: no descriptor is above it
  MaxDir,     \* bound: the directory handles given out
  Block0      \* bound: the block that is written

\* Of prefixes of one path there is a longest, and a directory has finitely
\* many names in it.
ASSUME VfsAssumption ==
  /\ Point \subseteq Path \cup {Root}
  /\ \A p \in Path : IsFiniteSet(Children(p))
  /\ \A p \in Path : \A S \in SUBSET Anc[p] :
       S # {} => \E q \in S : S \subseteq Anc[q]
  /\ {MaxMount, MaxFd, MaxDir} \subseteq Nat
  /\ Block0 \in Block

(***************************************************************************)
(* An image is a tree and what its manifest says about being a tool home:  *)
(* "none" when it carries no manifest.                                     *)
(***************************************************************************)
Payload == [tree : [Path -> Node], home : {"yes", "no", "none"}]

ASSUME ImageAssumption == Image \subseteq Payload

VARIABLES
  mounts,      \* handle -> [point, image, mode, writable]
  nextHandle,
  fds,         \* descriptor -> [path, size, pos, owner]
  nextFd,
  dirs,        \* directory handle -> [path, entries, pos, owner]
  nextDir,
  \* history
  clients,     \* the descriptors and handles the clients believe open
  cleared      \* whether somebody has called unmount

tableVars == <<mounts, nextHandle>>
fdVars    == <<fds, nextFd>>
dirVars   == <<dirs, nextDir>>
history   == <<clients, cleared>>
vfsVars   == <<tableVars, fdVars, dirVars, history>>

-----------------------------------------------------------------------------
(* Dispatch *)

Covers(pt, p) == pt = Root \/ pt \in Anc[p]

Covering(p) == {h \in DOMAIN mounts : Covers(mounts[h].point, p)}

\* The longest covering mount point: the one below every other.
FindMount(p) ==
  CHOOSE h \in Covering(p) : \A g \in Covering(p) :
    mounts[g].point = Root \/ (mounts[h].point # Root
                                 /\ Covers(mounts[g].point, mounts[h].point))

\* What the mount table serves at p; nothing when no mount covers it.
Serve(p) ==
  IF Covering(p) = {} THEN Absent ELSE mounts[FindMount(p)].image.tree[p]

\* A mount root is a directory of its own image.
IsDirectory(p) ==
  Covering(p) # {} /\ (p = mounts[FindMount(p)].point \/ Serve(p).kind = "Dir")

-----------------------------------------------------------------------------
(* The mount table *)

\* A table with one more entry.
With(table, key, entry) ==
  [k \in DOMAIN table \cup {key} |-> IF k = key THEN entry ELSE table[k]]

\* The part of a tree, and of an image, that a mount at pt puts below pt.
Below(pt, t) == [p \in Path |-> IF Covers(pt, p) /\ p # pt THEN t[p] ELSE Absent]

Through(pt, image) == [image EXCEPT !.tree = Below(pt, @)]

TakenPoints == {mounts[h].point : h \in DOMAIN mounts}

\* mount_checked: a taken point is EEXIST.
MountChecked(pt, image, mode) ==
  /\ nextHandle < MaxMount
  /\ pt \notin TakenPoints
  /\ mounts' = With(mounts, nextHandle,
       [point |-> pt, mode |-> mode, image |-> Through(pt, image),
        writable |-> mode # "RO"])
  /\ nextHandle' = nextHandle + 1
  /\ UNCHANGED <<fdVars, dirVars, history>>

\* The upper image shadows; the members of a union are read-only.
Union(lower, upper) ==
  [tree |-> [p \in Path |-> IF Present(upper.tree, p) THEN upper.tree[p]
                            ELSE lower.tree[p]],
   home |-> IF upper.home = "none" THEN lower.home ELSE upper.home]

\* mount_union: the union replaces the incumbent's backend and keeps its handle.
MountUnion(h, image) ==
  /\ "union" \in Surfaces
  /\ mounts' = [mounts EXCEPT
       ![h].image = Union(@, Through(mounts[h].point, image)),
       ![h].writable = FALSE]
  /\ UNCHANGED <<nextHandle, fdVars, dirVars, history>>

NotOwnedBy(h, table) == {k \in DOMAIN table : table[k].owner # h}

\* Mutants of UnmountHandle: the directory handles stay; every descriptor goes.
UnmountForgetsDirs(h) ==
  /\ mounts' = Restrict(mounts, DOMAIN mounts \ {h})
  /\ fds' = Restrict(fds, NotOwnedBy(h, fds))
  /\ UNCHANGED <<nextHandle, nextFd, dirVars, history>>

UnmountClosesAll(h) ==
  /\ mounts' = Restrict(mounts, DOMAIN mounts \ {h})
  /\ fds' = << >> /\ dirs' = << >>
  /\ UNCHANGED <<nextHandle, nextFd, nextDir, history>>

\* unmount_handle: the mount goes, with the descriptors and handles it owns.
UnmountHandle(h) ==
  /\ mounts' = Restrict(mounts, DOMAIN mounts \ {h})
  /\ fds' = Restrict(fds, NotOwnedBy(h, fds))
  /\ dirs' = Restrict(dirs, NotOwnedBy(h, dirs))
  /\ UNCHANGED <<nextHandle, nextFd, nextDir, history>>

\* Mutant of Unmount: the mount handles start over too.
UnmountRestartsHandles ==
  /\ ~cleared /\ cleared' = TRUE
  /\ mounts' = << >> /\ fds' = << >> /\ dirs' = << >>
  /\ nextHandle' = 0 /\ nextFd' = 1 /\ nextDir' = 1
  /\ UNCHANGED clients

\* unmount: everything goes, and the descriptors are counted from 1 again.
\* Bound: it is called once.
Unmount ==
  /\ ~cleared /\ cleared' = TRUE
  /\ mounts' = << >> /\ fds' = << >> /\ dirs' = << >>
  /\ nextFd' = 1 /\ nextDir' = 1
  /\ UNCHANGED <<nextHandle, clients>>

-----------------------------------------------------------------------------
(* Descriptors *)

Token(kind, n, entry) == [kind |-> kind, n |-> n, path |-> entry.path,
                          owner |-> entry.owner]

\* Mutant of OpenOn: the lowest number that is free is given out again.
OpenLowestFree(h, p) ==
  LET entry == [path |-> p, size |-> Len(Serve(p).data), pos |-> 0, owner |-> h]
      fd    == Min((1 .. MaxFd + 1) \ DOMAIN fds) IN
  /\ "fd" \in Surfaces /\ Serve(p).kind = "File" /\ fd <= MaxFd
  /\ fds' = With(fds, fd, entry)
  /\ nextFd' = IF fd = nextFd THEN nextFd + 1 ELSE nextFd
  /\ clients' = clients \cup {Token("fd", fd, entry)}
  /\ UNCHANGED <<tableVars, dirVars, cleared>>

\* open for reading: the size is taken here, once.
OpenOn(h, p) ==
  LET entry == [path |-> p, size |-> Len(Serve(p).data), pos |-> 0, owner |-> h] IN
  /\ "fd" \in Surfaces
  /\ Serve(p).kind = "File"
  /\ nextFd <= MaxFd
  /\ fds' = With(fds, nextFd, entry)
  /\ nextFd' = nextFd + 1
  /\ clients' = clients \cup {Token("fd", nextFd, entry)}
  /\ UNCHANGED <<tableVars, dirVars, cleared>>

Open(p) == \E h \in Covering(p) : h = FindMount(p) /\ OpenOn(h, p)

\* Mutant of Read: the position moves by what was asked for.
ReadUnclamped(fd, n) ==
  /\ fds' = [fds EXCEPT ![fd].pos = @ + n]
  /\ UNCHANGED <<tableVars, nextFd, dirVars, history>>

\* read: no further than the size at open, and no further than the backend
\* has bytes now.
Read(fd, n) ==
  LET entry == fds[fd]
      file  == mounts[entry.owner].image.tree[entry.path]
      got   == Min({n, entry.size - entry.pos} \cup
                   {IF Len(file.data) > entry.pos THEN Len(file.data) - entry.pos ELSE 0}) IN
  /\ file.kind = "File"
  /\ fds' = [fds EXCEPT ![fd].pos = @ + got]
  /\ UNCHANGED <<tableVars, nextFd, dirVars, history>>

Lseek(fd, target) ==
  /\ target \in 0 .. fds[fd].size
  /\ fds' = [fds EXCEPT ![fd].pos = target]
  /\ UNCHANGED <<tableVars, nextFd, dirVars, history>>

\* A client closes what it holds, whether or not that is still open.
Close(k) ==
  /\ k.kind = "fd"
  /\ fds' = Restrict(fds, DOMAIN fds \ {k.n})
  /\ clients' = clients \ {k}
  /\ UNCHANGED <<tableVars, nextFd, dirVars, cleared>>

-----------------------------------------------------------------------------
(* Directory handles *)

\* opendir takes a snapshot of the entries.
OpendirOn(h, p) ==
  LET entry == [path |-> p, pos |-> 0, owner |-> h,
                entries |-> {c \in Children(p) : Present(mounts[h].image.tree, c)}] IN
  /\ "dir" \in Surfaces
  /\ IsDirectory(p)
  /\ nextDir <= MaxDir
  /\ dirs' = With(dirs, nextDir, entry)
  /\ nextDir' = nextDir + 1
  /\ clients' = clients \cup {Token("dir", nextDir, entry)}
  /\ UNCHANGED <<tableVars, fdVars, cleared>>

Opendir(p) == \E h \in Covering(p) : h = FindMount(p) /\ OpendirOn(h, p)

\* readdir, rewinddir and seekdir move the position in the snapshot.
Readdir(d) ==
  /\ dirs[d].pos < Cardinality(dirs[d].entries)
  /\ dirs' = [dirs EXCEPT ![d].pos = @ + 1]
  /\ UNCHANGED <<tableVars, fdVars, nextDir, history>>

Seekdir(d, target) ==
  /\ target \in 0 .. Cardinality(dirs[d].entries)
  /\ dirs' = [dirs EXCEPT ![d].pos = target]
  /\ UNCHANGED <<tableVars, fdVars, nextDir, history>>

Closedir(k) ==
  /\ k.kind = "dir"
  /\ dirs' = Restrict(dirs, DOMAIN dirs \ {k.n})
  /\ clients' = clients \ {k}
  /\ UNCHANGED <<tableVars, fdVars, nextDir, cleared>>

-----------------------------------------------------------------------------
(* Writes by path *)

\* writable_for and the verb that follows: a read-only mount is EROFS, a union
\* ENOTSUP.  A write makes the file and its parents, a truncate empties it, a
\* remove takes away what has no children (mkdir is left out).
WriteOn(h, p) ==
  LET t == mounts[h].image.tree
      Leave(u) ==
        mounts' = [mounts EXCEPT ![h].image.tree = Below(mounts[h].point, u)] IN
  /\ "write" \in Surfaces
  /\ mounts[h].writable /\ p # mounts[h].point
  /\ \/ /\ t[p].kind \in {"None", "File"}
        /\ \A a \in Anc[p] \ {p} : t[a].kind \in {"None", "Dir"}
        /\ Leave([MakeDirs(t, Parent[p]) EXCEPT
                    ![p] = File(WriteAt(t[p].data, 0, Block0))])
     \/ /\ t[p].kind = "File"
        /\ Leave([t EXCEPT ![p] = File(<< >>)])
     \/ /\ Present(t, p) /\ \A c \in Children(p) : ~Present(t, c)
        /\ Leave([t EXCEPT ![p] = Absent])
  /\ UNCHANGED <<nextHandle, fdVars, dirVars, history>>

\* Mutant of WritePath: the first covering mount is taken, not the longest.
WriteToFirst(p) == Covering(p) # {} /\ WriteOn(CHOOSE h \in Covering(p) : TRUE, p)

WritePath(p) == Covering(p) # {} /\ WriteOn(FindMount(p), p)

-----------------------------------------------------------------------------

VfsInit ==
  /\ mounts = << >> /\ nextHandle = 0
  /\ fds = << >> /\ nextFd = 1
  /\ dirs = << >> /\ nextDir = 1
  /\ clients = {} /\ cleared = FALSE

Mode == {"RO"} \cup (IF "write" \in Surfaces THEN {"COW"} ELSE {})

MakeMount ==
  \E image \in Image :
    \/ \E pt \in Point, mode \in Mode : MountChecked(pt, image, mode)
    \/ \E h \in DOMAIN mounts : MountUnion(h, image)

DropMount == Unmount \/ \E h \in DOMAIN mounts : UnmountHandle(h)

Use ==
  \/ \E p \in Path : Open(p) \/ Opendir(p) \/ WritePath(p)
  \/ \E fd \in DOMAIN fds :
       \E n \in 0 .. fds[fd].size : Read(fd, n) \/ Lseek(fd, n)
  \/ \E d \in DOMAIN dirs :
       Readdir(d) \/ \E n \in 0 .. Cardinality(dirs[d].entries) : Seekdir(d, n)
  \/ \E k \in clients : Close(k) \/ Closedir(k)

VfsNext == MakeMount \/ DropMount \/ Use

VfsSpec == VfsInit /\ [][VfsNext]_vfsVars

-----------------------------------------------------------------------------
(* Properties *)

\* Well typed; a position is never beyond what it is a position in.
TypeOK ==
  /\ DOMAIN mounts \subseteq 0 .. nextHandle - 1 /\ nextHandle \in Nat
  /\ \A h \in DOMAIN mounts :
       /\ mounts[h].point \in Point /\ mounts[h].mode \in {"RO", "COW"}
       /\ mounts[h].image \in Payload /\ mounts[h].writable \in BOOLEAN
  /\ DOMAIN fds \subseteq 1 .. nextFd - 1 /\ nextFd \in 1 .. MaxFd + 1
  /\ \A fd \in DOMAIN fds : fds[fd].pos \in 0 .. fds[fd].size
  /\ DOMAIN dirs \subseteq 1 .. nextDir - 1
  /\ \A d \in DOMAIN dirs : dirs[d].pos \in 0 .. Cardinality(dirs[d].entries)

\* No two mounts share a point, so that the longest covering one is unique.
PointsAreDistinct ==
  \A g, h \in DOMAIN mounts : mounts[g].point = mounts[h].point => g = h

\* A descriptor or directory handle lives no longer than the mount it was
\* opened on: nothing is left that reads through a mount that is gone.
HandlesDieWithMount ==
  /\ \A fd \in DOMAIN fds : fds[fd].owner \in DOMAIN mounts
  /\ \A d \in DOMAIN dirs : dirs[d].owner \in DOMAIN mounts

\* "All fds and dir handles become invalid": what a client got from an open
\* answers for that open, or for nothing any more (EBADF); it never comes to
\* name what somebody else opened later.
HandleNamesItsOpen ==
  \A k \in clients :
    LET table == IF k.kind = "fd" THEN fds ELSE dirs IN
    k.n \in DOMAIN table => Token(k.kind, k.n, table[k.n]) = k

\* They do until somebody calls unmount, however many mounts came and went.
HandleNamesItsOpenUntilUnmount == ~cleared => HandleNamesItsOpen

\* Unmounting a handle closes its own descriptors and no others; and what is
\* served at a path it does not cover stays.
UnmountIsLocal ==
  [][\A h \in DOMAIN mounts : UnmountHandle(h) =>
       /\ \A fd \in DOMAIN fds : fds[fd].owner # h => fd \in DOMAIN fds'
       /\ \A d \in DOMAIN dirs : dirs[d].owner # h => d \in DOMAIN dirs'
       /\ \A p \in Path : Covers(mounts[h].point, p) \/ Serve(p)' = Serve(p)]_vfsVars

\* A write that succeeds is what the mount table serves there from then on,
\* and through no mount does anything else change but the parents it made.
WriteIsServed ==
  [][\A p \in Path : WritePath(p) =>
       /\ Serve(p)' \in {Absent, File(<< >>),
                         File(WriteAt(Serve(p).data, 0, Block0))}
       /\ \A q \in Path \ {p} :
            Serve(q)' # Serve(q) =>
              q \in Anc[p] /\ Serve(q) = Absent /\ Serve(q)' = Directory
       /\ \A h \in DOMAIN mounts : mounts[h].mode = "RO" => mounts'[h] = mounts[h]]_vfsVars
=============================================================================
