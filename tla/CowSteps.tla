------------------------------ MODULE CowSteps ------------------------------
(***************************************************************************)
(* CowBackend in host operations.  The verbs take &self, so callers that   *)
(* hold the context's read guard run them side by side; the process can    *)
(* die between any two host operations; and the host can refuse one (a     *)
(* full or a read-only store).  A step is one host operation, with the     *)
(* lookup that decides on it, or one section under the whiteout lock.      *)
(***************************************************************************)
EXTENDS Tree, FiniteSets

CONSTANTS
  Images,       \* the base images
  WriteAreas,   \* the declared write areas; {Root} when the mount is ungated
  Writes,       \* bound: the blocks a write is called with,
  Offsets,      \*   its offsets,
  Lengths,      \*   and the lengths a file is truncated to
  Thread,       \* the callers
  NoThread,     \* nobody; not an element of Thread
  Verbs,        \* the verbs that are called
  Exclusive,    \* whether the callers keep each other off a path
  Crashes,      \* whether the process can die
  HostFails     \* whether the host can refuse an operation

ASSUME StepsAssumption ==
  /\ Images \subseteq {t \in [Path -> Node] : IsTree(t)}
  /\ WriteAreas \subseteq Path \cup {Root}
  /\ Writes \subseteq Block /\ Offsets \subseteq Nat /\ Lengths \subseteq Nat
  /\ NoThread \notin Thread
  /\ Verbs \subseteq {"pwrite", "truncate", "mkdir", "remove"}
  /\ {Exclusive, Crashes, HostFails} \subseteq BOOLEAN

VARIABLES
  base,        \* the image
  overlay,     \* the overlay directory
  whiteouts,   \* the hidden base paths, as the process holds them
  journal,     \* the same, as the journal file holds them
  lock,        \* who holds the whiteout lock for writing
  call,        \* call[t]: the verb t is executing, and how far it is
  \* history
  promised,    \* promised[p]: the writes to p acknowledged and not undone
  deleted,     \* the base paths whose deletion was acknowledged
  settled      \* overlay, whiteouts and answer when a verb last returned

vars == <<base, overlay, whiteouts, journal, lock, call, promised,
          deleted, settled>>

Idle == [verb |-> "none", path |-> Root, off |-> 0, arg |-> Zero,
         pc |-> "idle", copied |-> 0]

Pcs == {"idle", "gate", "contains", "probe", "parents", "freshparents", "make",
        "create", "copy", "land", "makedir", "unlink", "mark", "store", "rename"}

-----------------------------------------------------------------------------
(* Lookups, as in Cow.  One that asks the whiteouts waits for the lock.    *)

Permitted(p) == Root \in WriteAreas \/ WriteAreas \cap Anc[p] # {}

Hidden(p) == Anc[p] \cap whiteouts # {}

OverlayStat(p) ==
  IF Present(overlay, p) THEN overlay[p].kind
  ELSE IF \E a \in Anc[p] : overlay[a].kind = "File" THEN "ENOTDIR"
  ELSE "ENOENT"

BaseStat(p) == IF Present(base, p) THEN base[p].kind ELSE "ENOENT"

StatMerged(p) ==
  IF p = Root THEN "Dir"
  ELSE IF OverlayStat(p) # "ENOENT" THEN OverlayStat(p)
  ELSE IF Hidden(p) THEN "ENOENT"
  ELSE BaseStat(p)

View ==
  [p \in Path |->
     IF OverlayStat(p) # "ENOENT" THEN overlay[p]
     ELSE IF Hidden(p) THEN Absent
     ELSE base[p]]

ReadDir(d) ==
  {c \in Children(d) : \/ Present(overlay, c)
                       \/ Present(base, c) /\ ~Hidden(c)}

LockFree == lock = NoThread

-----------------------------------------------------------------------------
(* Control *)

At(t, pc) == call[t].pc = pc

Goto(t, pc) == call' = [call EXCEPT ![t].pc = pc] /\ UNCHANGED settled

\* The verb returns.
Return(t, r) ==
  /\ call' = [call EXCEPT ![t] = Idle]
  /\ settled' = [overlay |-> overlay', whiteouts |-> whiteouts', res |-> r]

\* The verb returns and has done nothing since its last step.
Refuse(t, r) ==
  /\ UNCHANGED <<base, overlay, whiteouts, journal, lock, promised, deleted>>
  /\ Return(t, r)

\* Nothing but the control of t moves.
Keep == UNCHANGED <<base, overlay, whiteouts, journal, lock, promised, deleted>>

\* Nothing but the overlay and the control of t changes.
KeepRest == UNCHANGED <<base, whiteouts, journal, lock, promised, deleted>>

\* The callers other than t that are inside a verb on p.
Rivals(t, p) == {u \in Thread \ {t} : call[u].path = p}

-----------------------------------------------------------------------------
(* Host operations on the overlay.  A write opens with O_CREAT and makes   *)
(* the parents first (HostDirBackend::pwrite).                             *)

\* create_dir_all.
ParentsAnswer(q) ==
  IF q = Root THEN "OK"
  ELSE IF overlay[q].kind = "File" THEN "EEXIST"
  ELSE IF \E a \in Anc[q] : overlay[a].kind = "File" THEN "ENOTDIR"
  ELSE "OK"

WriteAnswer(p) ==
  IF ParentsAnswer(Parent[p]) # "OK" THEN ParentsAnswer(Parent[p])
  ELSE IF overlay[p].kind = "Dir" THEN "EISDIR" ELSE "OK"

Written(p, content) ==
  [MakeDirs(overlay, Parent[p]) EXCEPT ![p] = File(content)]

-----------------------------------------------------------------------------
(* A call arrives *)

Begin(t, verb, p, off, arg) ==
  /\ At(t, "idle")
  /\ verb \in Verbs
  /\ Exclusive => Rivals(t, p) = {}
  /\ call' = [call EXCEPT ![t] = [verb |-> verb, path |-> p, off |-> off,
                                  arg |-> arg, pc |-> "gate", copied |-> 0]]
  /\ promised' = [promised EXCEPT ![p] =
       CASE verb = "pwrite"   -> {w \in @ : w[1] # off}
         [] verb = "truncate" -> {w \in @ : w[1] < off}
         [] verb = "mkdir"    -> @
         [] verb = "remove"   -> {}]
  /\ UNCHANGED <<base, overlay, whiteouts, journal, lock, deleted, settled>>

Call(t) ==
  \E p \in Path :
    \/ \E off \in Offsets, v \in Writes : Begin(t, "pwrite", p, off, v)
    \/ \E n \in Lengths : Begin(t, "truncate", p, n, Zero)
    \/ \E verb \in {"mkdir", "remove"} : Begin(t, verb, p, 0, Zero)

\* The write gate, then the verb's own first lookup.
Denied(t) == At(t, "gate") /\ ~Permitted(call[t].path) /\ Refuse(t, "EROFS")

\* Mutant of EnterVerb: the gate is not asked.
EnterUngated(t, verb) == At(t, "gate") /\ call[t].verb = verb

EnterVerb(t, verb) ==
  At(t, "gate") /\ call[t].verb = verb /\ Permitted(call[t].path)

EnterPWrite(t) == EnterVerb(t, "pwrite") /\ Goto(t, "contains") /\ Keep

EnterTruncate(t) ==
  LET s == StatMerged(call[t].path) IN
  /\ EnterVerb(t, "truncate") /\ LockFree
  /\ \/ s = "File" /\ Goto(t, "probe") /\ Keep
     \/ s \in {"Dir", "Link"} /\ Refuse(t, "EINVAL")
     \/ s \in {"ENOENT", "ENOTDIR"} /\ Refuse(t, s)

EnterMkdir(t) ==
  LET s == StatMerged(call[t].path) IN
  /\ EnterVerb(t, "mkdir") /\ LockFree
  /\ \/ s = "ENOENT" /\ Goto(t, "parents") /\ Keep
     \/ s = "ENOTDIR" /\ Refuse(t, "ENOTDIR")
     \/ s \in {"File", "Dir", "Link"} /\ Refuse(t, "EEXIST")

\* Mutant of EnterRemove: nobody asks whether the directory is empty.
EnterRemoveAnything(t) ==
  /\ EnterVerb(t, "remove") /\ LockFree
  /\ StatMerged(call[t].path) \in {"File", "Link", "Dir"}
  /\ Goto(t, "unlink") /\ Keep

EnterRemove(t) ==
  LET p == call[t].path  s == StatMerged(p) IN
  /\ EnterVerb(t, "remove") /\ LockFree
  /\ \/ s \in {"ENOENT", "ENOTDIR"} /\ Refuse(t, s)
     \/ s = "Dir" /\ ReadDir(p) # {} /\ Refuse(t, "ENOTEMPTY")
     \/ /\ s \in {"File", "Link"} \/ (s = "Dir" /\ ReadDir(p) = {})
        /\ Goto(t, "unlink") /\ Keep

-----------------------------------------------------------------------------
(* Copy-up *)

\* pwrite asks whether the path has a whiteout of its own; if so it is not
\* copied up.
Contains(t) ==
  /\ At(t, "contains") /\ LockFree
  /\ Goto(t, IF call[t].path \in whiteouts THEN "freshparents" ELSE "probe")
  /\ Keep

\* What the overlay has is not copied.
Probe(t) ==
  /\ At(t, "probe")
  /\ Goto(t, IF Present(overlay, call[t].path) THEN "land" ELSE "parents")
  /\ Keep

\* ensure_overlay_parent, or require_merged_parent for mkdir: the lookup.
\* A fresh path goes on to be written, any other to be copied.
Parents(t) ==
  LET s == StatMerged(Parent[call[t].path]) IN
  /\ call[t].pc \in {"parents", "freshparents"} /\ LockFree
  /\ \/ /\ s = "Dir" \/ (s = "ENOENT" /\ call[t].verb # "mkdir")
        /\ call' = [call EXCEPT ![t].pc = "make",
                                ![t].copied = IF At(t, "freshparents") THEN 1 ELSE 0]
        /\ UNCHANGED settled /\ Keep
     \/ s = "ENOENT" /\ call[t].verb = "mkdir" /\ Refuse(t, "ENOENT")
     \/ s \in {"File", "Link", "ENOTDIR"} /\ Refuse(t, "ENOTDIR")

\* Where a verb goes on from the parents: mkdir makes its directory, a fresh
\* path or one that the base does not have is written, another one is copied.
AfterMake(t) ==
  IF call[t].verb = "mkdir" THEN "makedir"
  ELSE IF call[t].copied = 1 \/ BaseStat(call[t].path) = "ENOENT" THEN "land"
  ELSE "create"

\* mkdir_parents.
Make(t) ==
  LET q == Parent[call[t].path] IN
  /\ At(t, "make")
  /\ \/ ParentsAnswer(q) # "OK" /\ Refuse(t, ParentsAnswer(q))
     \/ /\ ParentsAnswer(q) = "OK"
        /\ overlay' = MakeDirs(overlay, q)
        /\ call' = [call EXCEPT ![t].pc = AfterMake(t), ![t].copied = 0]
        /\ UNCHANGED settled /\ KeepRest

\* The overlay entry a base entry is copied into.  A file is opened without
\* O_TRUNC: content that another caller has put there stays.
Create(t) ==
  LET p == call[t].path IN
  /\ At(t, "create")
  /\ \/ BaseStat(p) = "Link" /\ Refuse(t, "EINVAL")
     \/ /\ BaseStat(p) = "Dir" /\ ParentsAnswer(p) = "OK"
        /\ overlay' = MakeDirs(overlay, p) /\ Goto(t, "land") /\ KeepRest
     \/ /\ BaseStat(p) = "Dir" /\ ParentsAnswer(p) # "OK"
        /\ Refuse(t, ParentsAnswer(p))
     \/ /\ BaseStat(p) = "File" /\ WriteAnswer(p) = "OK"
        /\ overlay' = Written(p, overlay[p].data) /\ Goto(t, "copy") /\ KeepRest
     \/ /\ BaseStat(p) = "File" /\ WriteAnswer(p) # "OK"
        /\ Refuse(t, WriteAnswer(p))

\* Mutant of Copy: a block lands one place too far.
CopyShifted(t) ==
  LET p == call[t].path  i == call[t].copied IN
  /\ At(t, "copy")
  /\ \/ i = Len(base[p].data) /\ Goto(t, "land") /\ Keep
     \/ /\ i < Len(base[p].data) /\ WriteAnswer(p) = "OK"
        /\ overlay' = Written(p, WriteAt(overlay[p].data, i + 1, base[p].data[i + 1]))
        /\ call' = [call EXCEPT ![t].copied = i + 1]
        /\ UNCHANGED settled /\ KeepRest

\* One turn of the streaming loop: the next block, or the end of the file.
Copy(t) ==
  LET p == call[t].path  i == call[t].copied IN
  /\ At(t, "copy")
  /\ \/ i = Len(base[p].data) /\ Goto(t, "land") /\ Keep
     \/ /\ i < Len(base[p].data) /\ WriteAnswer(p) = "OK"
        /\ overlay' = Written(p, WriteAt(overlay[p].data, i, base[p].data[i + 1]))
        /\ call' = [call EXCEPT ![t].copied = i + 1]
        /\ UNCHANGED settled /\ KeepRest
     \/ i < Len(base[p].data) /\ WriteAnswer(p) # "OK" /\ Refuse(t, WriteAnswer(p))

-----------------------------------------------------------------------------
(* The write itself *)

LandPWrite(t) ==
  LET p == call[t].path  off == call[t].off IN
  /\ At(t, "land") /\ call[t].verb = "pwrite"
  /\ \/ WriteAnswer(p) # "OK" /\ Refuse(t, WriteAnswer(p))
     \/ /\ WriteAnswer(p) = "OK"
        /\ overlay' = Written(p, WriteAt(overlay[p].data, off, call[t].arg))
        \* a rival that cuts or removes p, or writes there too, may win
        /\ promised' = [promised EXCEPT ![p] =
             IF \E u \in Rivals(t, p) : \/ call[u].verb \in {"truncate", "remove"}
                                        \/ call[u].off = off
             THEN @ ELSE @ \cup {<<off, call[t].arg>>}]
        /\ UNCHANGED <<base, whiteouts, journal, lock, deleted>>
        /\ Return(t, "OK")

\* set_len opens without O_CREAT.
LandTruncate(t) ==
  LET p == call[t].path IN
  /\ At(t, "land") /\ call[t].verb = "truncate"
  /\ \/ /\ OverlayStat(p) # "File"
        /\ Refuse(t, IF OverlayStat(p) = "Dir" THEN "EISDIR" ELSE OverlayStat(p))
     \/ /\ OverlayStat(p) = "File"
        /\ overlay' = [overlay EXCEPT ![p] = File(SetLen(@.data, call[t].off))]
        /\ KeepRest /\ Return(t, "OK")

OverlayEntries == {Root} \cup {q \in Path : Present(overlay, q)}

\* create_dir makes one level.
MakeDir(t) ==
  LET p == call[t].path  s == OverlayStat(p) IN
  /\ At(t, "makedir")
  /\ \/ Present(overlay, p) /\ Refuse(t, "EEXIST")
     \/ s = "ENOTDIR" /\ Refuse(t, s)
     \/ s = "ENOENT" /\ Parent[p] \notin OverlayEntries /\ Refuse(t, s)
     \/ /\ s = "ENOENT" /\ Parent[p] \in OverlayEntries
        /\ overlay' = [overlay EXCEPT ![p] = Directory]
        /\ KeepRest /\ Return(t, "OK")

-----------------------------------------------------------------------------
(* Deletion: the overlay entry, then the whiteout, then the journal *)

AfterUnlink(t) ==
  LET p == call[t].path IN
  IF Present(base, p) THEN Goto(t, "mark")
  ELSE Return(t, "OK")

Unlink(t) ==
  LET p == call[t].path IN
  /\ At(t, "unlink")
  /\ \/ /\ \E c \in Children(p) : Present(overlay, c)
        /\ Refuse(t, "ENOTEMPTY")
     \/ /\ \A c \in Children(p) : ~Present(overlay, c)
        /\ overlay' = [overlay EXCEPT ![p] = Absent]
        /\ KeepRest /\ AfterUnlink(t)

\* add_whiteout takes the lock; the set already holding the path is a success.
Mark(t) ==
  LET p == call[t].path IN
  /\ At(t, "mark") /\ LockFree
  /\ deleted' = IF p \in whiteouts THEN deleted \cup {p} ELSE deleted
  /\ UNCHANGED <<base, overlay, journal, promised>>
  /\ \/ p \in whiteouts /\ UNCHANGED <<whiteouts, lock>> /\ Return(t, "OK")
     \/ /\ p \notin whiteouts
        /\ whiteouts' = whiteouts \cup {p} /\ lock' = t
        /\ Goto(t, "store")

\* Mutant of Store: the journal itself is opened for writing, and emptied.
StoreInPlace(t) ==
  /\ At(t, "store")
  /\ journal' = {}
  /\ UNCHANGED <<base, overlay, whiteouts, lock, promised, deleted>>
  /\ Goto(t, "rename")

\* store_journal: the temporary file, then the rename over the journal.
Store(t) ==
  /\ At(t, "store")
  /\ UNCHANGED <<base, overlay, whiteouts, journal, lock, promised, deleted>>
  /\ Goto(t, "rename")

Rename(t) ==
  /\ At(t, "rename")
  /\ journal' = whiteouts /\ lock' = NoThread
  /\ deleted' = deleted \cup {call[t].path}
  /\ UNCHANGED <<base, overlay, whiteouts, promised>>
  /\ Return(t, "OK")

-----------------------------------------------------------------------------
(* The host *)

\* Mutant of HostRefuses: a verb that fails cleans up the overlay entry.
HostRefusesAndCleans(t) ==
  /\ HostFails
  /\ call[t].pc \in {"create", "copy", "land"}
  /\ overlay' = [overlay EXCEPT ![call[t].path] = Absent]
  /\ UNCHANGED <<base, whiteouts, journal, lock, promised, deleted>>
  /\ Return(t, "EIO")

\* An operation that needs the store is refused (ENOSPC, EACCES): the errno
\* is the verb's answer and nothing is undone.  Leaving add_whiteout drops
\* the lock.
HostRefuses(t) ==
  /\ HostFails
  /\ call[t].pc \in {"make", "create", "copy", "land", "makedir", "unlink",
                     "store", "rename"}
  /\ lock' = IF lock = t THEN NoThread ELSE lock
  /\ UNCHANGED <<base, overlay, whiteouts, journal, promised, deleted>>
  /\ Return(t, "EIO")

\* Mutants of Crash: the store does not survive; the journal is not loaded.
CrashWipes ==
  /\ Crashes
  /\ call' = [t \in Thread |-> Idle]
  /\ overlay' = [p \in Path |-> Absent] /\ whiteouts' = journal
  /\ lock' = NoThread
  /\ settled' = [overlay |-> overlay', whiteouts |-> journal, res |-> "OK"]
  /\ UNCHANGED <<base, journal, promised, deleted>>

CrashForgets ==
  /\ Crashes
  /\ call' = [t \in Thread |-> Idle]
  /\ whiteouts' = {}
  /\ lock' = NoThread
  /\ settled' = [overlay |-> overlay, whiteouts |-> {}, res |-> "OK"]
  /\ UNCHANGED <<base, overlay, journal, promised, deleted>>

\* The process dies and the store is mounted again: what is left is on disk,
\* and stack loads the whiteouts from the journal.
Crash ==
  /\ Crashes
  /\ call' = [t \in Thread |-> Idle]
  /\ whiteouts' = journal
  /\ lock' = NoThread
  /\ settled' = [overlay |-> overlay, whiteouts |-> journal, res |-> "OK"]
  /\ UNCHANGED <<base, overlay, journal, promised, deleted>>

-----------------------------------------------------------------------------

\* A fresh store; stack has written its empty journal.
Init ==
  /\ base \in Images
  /\ overlay = [p \in Path |-> Absent]
  /\ whiteouts = {} /\ journal = {}
  /\ lock = NoThread
  /\ call = [t \in Thread |-> Idle]
  /\ promised = [p \in Path |-> {}]
  /\ deleted = {}
  /\ settled = [overlay |-> overlay, whiteouts |-> {}, res |-> "OK"]

Step(t) ==
  \/ Denied(t)
  \/ EnterPWrite(t) \/ EnterTruncate(t) \/ EnterMkdir(t) \/ EnterRemove(t)
  \/ Contains(t) \/ Probe(t) \/ Parents(t) \/ Make(t) \/ Create(t) \/ Copy(t)
  \/ LandPWrite(t) \/ LandTruncate(t) \/ MakeDir(t)
  \/ Unlink(t) \/ Mark(t) \/ Store(t) \/ Rename(t)

Next ==
  \/ \E t \in Thread : Call(t) \/ Step(t) \/ HostRefuses(t)
  \/ Crash

Spec == Init /\ [][Next]_vars

-----------------------------------------------------------------------------
(* Properties *)

\* Well typed; the overlay stays a tree, and the lock is held exactly by a
\* caller that is storing the journal.
TypeOK ==
  /\ base \in [Path -> Node]
  /\ overlay \in [Path -> Node] /\ IsTree(overlay)
  /\ whiteouts \in SUBSET Path /\ journal \in SUBSET Path
  /\ \A t \in Thread :
       /\ call[t].verb \in Verbs \cup {"none"} /\ call[t].pc \in Pcs
       /\ call[t].path \in Path \cup {Root}
       /\ (call[t].pc \in {"store", "rename"}) <=> (lock = t)
  /\ lock \in Thread \cup {NoThread}
  /\ \A p \in Path : promised[p] \subseteq Offsets \X Writes
  /\ deleted \subseteq Path

\* A write that was acknowledged is read back, until the path is written
\* there again, cut before it or removed: other callers do not undo it, and it
\* survives the process ("my writes must survive the run").
AckedWritesKept ==
  \A p \in Path : \A w \in promised[p] :
    /\ View[p].kind = "File"
    /\ w[1] < Len(View[p].data)
    /\ View[p].data[w[1] + 1] = w[2]

\* A deletion of a base path that was acknowledged is in the journal: the
\* base entry is not exposed again, in this process or the next.
AckedDeletesSurvive == deleted \subseteq whiteouts \cap journal

\* Every hidden base path has a whiteout of its own, in the process and in the
\* journal a crash falls back to, whichever stores failed before: pwrite asks
\* for the path alone where readers ask for its ancestors too.
HiddenIsRecorded ==
  \A p \in Path : Present(base, p) =>
    /\ Hidden(p) => p \in whiteouts
    /\ Anc[p] \cap journal # {} => p \in journal

\* Dying loses nothing but what the verbs in flight were doing: any path that
\* no verb in flight names, or is below, reads the same after the restart.
CrashTouchesOnlyInFlight ==
  [][Crash =>
       \A p \in Path : (\A t \in Thread : call[t].path \notin Anc[p]) =>
         View'[p] = View[p]]_vars

\* A verb on one path never changes what is read at a path that is neither
\* below it nor one of its parents, and it makes parents only where nothing is.
\* (A whiteout on a directory could hide more than the directory.)
StepTouchesOnlyItsPath ==
  [][\A t \in Thread : Step(t) =>
       \A p \in Path \ {call[t].path} :
         View'[p] = View[p] \/ (~Present(View, p) /\ View'[p] = Directory)]_vars

\* Outside every declared write area nothing that exists is changed or deleted,
\* by no step of a verb, no failure and no crash; only missing directories
\* above an area appear.
GateConfines ==
  [][\A p \in Path : ~Permitted(p) =>
       \/ View'[p] = View[p]
       \/ ~Present(View, p) /\ View'[p] = Directory]_vars

\* With one caller, from return to return, the steps of a verb are the one
\* action that Cow has for it, whatever a refused verb left behind before it;
\* only the verb that the host refuses is not one of Cow's.
Atomically == INSTANCE Cow WITH
  overlay <- settled.overlay, whiteouts <- settled.whiteouts, res <- settled.res

RefinesCow ==
  /\ Atomically!Init
  /\ [][\/ \E t \in Thread : HostRefuses(t)
        \/ [Atomically!Next]_<<base, settled>>]_vars
=============================================================================
