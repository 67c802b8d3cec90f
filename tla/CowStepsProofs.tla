--------------------------- MODULE CowStepsProofs ---------------------------
(***************************************************************************)
(* What holds of CowSteps for every set of callers, images, write areas    *)
(* and paths, and under which failures:                                    *)
(*                                                                         *)
(*   TypeCorrect           always                                          *)
(*   DeletesSurvive        unless the host refuses an operation            *)
(*   CrashLosesOnlyInFlight  likewise                                      *)
(*   HiddenRecorded        unless the host refuses operations of a process *)
(*                         that also dies                                  *)
(*   WritesKept            while callers keep each other off a path        *)
(*   GateHolds             where no write area is out of reach below a     *)
(*                         base file                                       *)
(*   TouchesOnlyItsPath    as HiddenRecorded, on images in which nothing   *)
(*                         is two levels below a file                      *)
(*   VerbsAreAtomic        with one caller, unless the process dies        *)
(*                                                                         *)
(* Each property has an invariant of its own over the typed one (TInv):    *)
(* what is on record on disk (RInv), that the record is closed below what  *)
(* is hidden (HInv), what a verb owes its caller (WInv), what lies outside *)
(* the areas (GInv) and over the base's files (SInv), and what a verb has  *)
(* learnt and made of the state at which it began (AInv).  Each says what  *)
(* a verb between two host operations still relies on: that is where       *)
(* another caller, a refusal or a crash can strike.  The steps are first   *)
(* reduced to what they do to the overlay (Puts, Drops) and to their       *)
(* caller (Advances, Ends, GivesUp); the invariants then follow from       *)
(* those.                                                                  *)
(***************************************************************************)
EXTENDS CowSteps, TLAPS

-----------------------------------------------------------------------------
(* The typed state *)

CallType ==
  [verb : Verbs \cup {"none"}, path : Path \cup {Root}, off : Nat,
   arg : Block, pc : Pcs, copied : Nat]

\* The verbs that come past a point.
VerbsAt(pc) ==
  CASE pc = "idle"                          -> {"none"}
    [] pc = "gate"                          -> Verbs
    [] pc \in {"contains", "freshparents"}  -> {"pwrite"}
    [] pc \in {"probe", "create", "copy", "land"} -> {"pwrite", "truncate"}
    [] pc \in {"parents", "make"}           -> {"pwrite", "truncate", "mkdir"}
    [] pc = "makedir"                       -> {"mkdir"}
    [] pc \in {"unlink", "mark", "store", "rename"} -> {"remove"}

CallOK(c) ==
  /\ c \in CallType
  /\ c.verb \in VerbsAt(c.pc)
  /\ c.path = Root <=> c.pc = "idle"
  /\ c.verb = "pwrite" => c.off \in Offsets /\ c.arg \in Writes
  /\ c.verb = "truncate" => c.off \in Lengths
  /\ c.pc = "copy" => base[c.path].kind = "File"

Sound(o) ==
  /\ o \in [Path -> Node] /\ IsTree(o)
  /\ \A p \in Path : o[p].kind # "Link"

StoreOK ==
  /\ base \in Images
  /\ Sound(overlay)
  /\ whiteouts \subseteq Path /\ journal \subseteq Path /\ deleted \subseteq Path
  /\ promised \in [Path -> SUBSET (Offsets \X Writes)]

ControlOK ==
  /\ call \in [Thread -> CallType]
  /\ \A t \in Thread : CallOK(call[t])
  /\ lock \in Thread \cup {NoThread}
  /\ \A t \in Thread : call[t].pc \in {"store", "rename"} <=> lock = t

TInv == StoreOK /\ ControlOK

\* The images are trees of entries.
LEMMA ImageTree ==
  ASSUME StoreOK
  PROVE  base \in [Path -> Node] /\ IsTree(base)
BY StepsAssumption DEF StoreOK

LEMMA TInvTypes == TInv => TypeOK
<1> SUFFICES ASSUME TInv PROVE TypeOK
  OBVIOUS
<1>1. base \in [Path -> Node]
  BY ImageTree DEF TInv
<1>2. \A t \in Thread :
        /\ call[t].verb \in Verbs \cup {"none"} /\ call[t].pc \in Pcs
        /\ call[t].path \in Path \cup {Root}
  BY DEF TInv, ControlOK, CallType
<1>3. QED
  BY <1>1, <1>2 DEF TInv, StoreOK, ControlOK, Sound, TypeOK

-----------------------------------------------------------------------------
(* Control *)

Moves(t, pc, k) ==
  call' = [call EXCEPT ![t] = [call[t] EXCEPT !.pc = pc, !.copied = k]]

Ends(t) == call' = [call EXCEPT ![t] = Idle]

\* t gives up: its verb returns, and all it leaves is the lock.
GivesUp(t) ==
  /\ UNCHANGED <<base, overlay, whiteouts, journal, promised, deleted>>
  /\ Ends(t)
  /\ lock' = IF lock = t THEN NoThread ELSE lock

LEMMA GotoMoves ==
  ASSUME ControlOK, NEW t \in Thread, NEW pc
  PROVE  /\ Goto(t, pc) => Moves(t, pc, call[t].copied)
         /\ \A k : call' = [call EXCEPT ![t].pc = pc, ![t].copied = k] => Moves(t, pc, k)
         /\ \A k : call' = [call EXCEPT ![t].copied = k] => Moves(t, call[t].pc, k)
<1>1. call[t] \in CallType
  BY DEF ControlOK
<1>2. call[t] = [call[t] EXCEPT !.pc = call[t].pc, !.copied = call[t].copied]
  BY <1>1 DEF CallType
<1>3. Goto(t, pc) => Moves(t, pc, call[t].copied)
  BY <1>1 DEF ControlOK, Goto, Moves, CallType
<1>4. \A k : call' = [call EXCEPT ![t].pc = pc, ![t].copied = k] => Moves(t, pc, k)
  BY <1>1 DEF ControlOK, Moves, CallType
<1>5. \A k : call' = [call EXCEPT ![t].copied = k] => Moves(t, call[t].pc, k)
  BY <1>1 DEF ControlOK, Moves, CallType
<1>6. QED
  BY <1>3, <1>4, <1>5

\* What a move changes.
LEMMA Moved ==
  ASSUME ControlOK, NEW t \in Thread, NEW pc \in Pcs, NEW k \in Nat, Moves(t, pc, k)
  PROVE  /\ call'[t] \in CallType
         /\ call'[t].pc = pc /\ call'[t].copied = k
         /\ call'[t].verb = call[t].verb /\ call'[t].path = call[t].path
         /\ call'[t].off = call[t].off /\ call'[t].arg = call[t].arg
         /\ \A u \in Thread : u # t => call'[u] = call[u]
<1>1. call[t] \in CallType
  BY DEF ControlOK
<1>2. QED
  BY <1>1 DEF ControlOK, Moves, CallType

LEMMA Ended ==
  ASSUME ControlOK, NEW t \in Thread, Ends(t)
  PROVE  /\ call'[t] = Idle
         /\ call'[t].pc = "idle" /\ call'[t].verb = "none" /\ call'[t].path = Root
         /\ \A u \in Thread : u # t => call'[u] = call[u]
BY DEF ControlOK, Ends, Idle

\* The control stays typed when t moves to a point its verb comes past, or
\* returns.
LEMMA ControlStep ==
  ASSUME ControlOK, base' = base, NEW t \in Thread, NEW c, CallOK(c),
         call' = [call EXCEPT ![t] = c],
         lock' \in Thread \cup {NoThread},
         c.pc \in {"store", "rename"} <=> lock' = t,
         \A u \in Thread : u # t => (lock' = u <=> lock = u)
  PROVE  ControlOK'
<1>1. call' \in [Thread -> CallType]
  BY DEF ControlOK, CallOK
<1>2. \A u \in Thread : call'[u] = IF u = t THEN c ELSE call[u]
  BY DEF ControlOK
<1>3. \A u \in Thread : CallOK(call'[u])
  BY <1>2 DEF ControlOK
<1>4. ASSUME NEW u \in Thread PROVE CallOK(call[u])'
  BY <1>3 DEF CallOK
<1>5. \A u \in Thread : call'[u].pc \in {"store", "rename"} <=> lock' = u
  BY <1>2 DEF ControlOK
<1>6. QED
  BY <1>1, <1>4, <1>5 DEF ControlOK

LEMMA MoveOK ==
  ASSUME ControlOK, base' = base, NEW t \in Thread, NEW pc \in Pcs, NEW k \in Nat,
         Moves(t, pc, k),
         call[t].pc # "idle", pc # "idle", call[t].verb \in VerbsAt(pc),
         pc = "copy" => base[call[t].path].kind = "File",
         lock' \in Thread \cup {NoThread},
         pc \in {"store", "rename"} <=> lock' = t,
         \A u \in Thread : u # t => (lock' = u <=> lock = u)
  PROVE  ControlOK'
<1> DEFINE c == [call[t] EXCEPT !.pc = pc, !.copied = k]
<1>1. CallOK(call[t]) /\ call[t] \in CallType
  BY DEF ControlOK
<1>2. /\ c \in CallType /\ c.pc = pc /\ c.verb = call[t].verb
      /\ c.path = call[t].path /\ c.off = call[t].off /\ c.arg = call[t].arg
  BY <1>1 DEF CallType
<1>3. CallOK(c)
  BY <1>1, <1>2 DEF CallOK
<1> HIDE DEF c
<1>4. call' = [call EXCEPT ![t] = c]
  BY DEF Moves, c
<1>5. QED
  BY <1>2, <1>3, <1>4, ControlStep

LEMMA EndOK ==
  ASSUME ControlOK, base' = base, NEW t \in Thread, Ends(t),
         lock' \in Thread \cup {NoThread}, lock' # t,
         \A u \in Thread : u # t => (lock' = u <=> lock = u)
  PROVE  ControlOK'
<1>1. Idle \in CallType
  BY BlockAssumption DEF Idle, CallType, Pcs
<1>2. CallOK(Idle)
  BY <1>1 DEF CallOK, Idle, VerbsAt
<1>3. Idle.pc = "idle"
  BY DEF Idle
<1>4. call' = [call EXCEPT ![t] = Idle]
  BY DEF Ends
<1>5. QED
  BY <1>2, <1>3, <1>4, ControlStep
-----------------------------------------------------------------------------
(* Trees, as in CowProofs *)

\* Making the directories down to q leaves a well-typed map of entries.
LEMMA MakeDirsType ==
  ASSUME NEW t \in [Path -> Node], NEW q
  PROVE  MakeDirs(t, q) \in [Path -> Node]
<1>1. Directory \in Node
  BY DEF Directory, Node, Content
<1>2. QED
  BY <1>1 DEF MakeDirs

\* Where no ancestor of q is a file, it leaves a tree in which q and all
\* its ancestors are directories.
LEMMA MakeDirsTree ==
  ASSUME NEW t \in [Path -> Node], IsTree(t),
         NEW q \in Path \cup {Root},
         q # Root => \A a \in Anc[q] : t[a].kind \in {"None", "Dir"}
  PROVE  /\ IsTree(MakeDirs(t, q))
         /\ q # Root => \A a \in Anc[q] : MakeDirs(t, q)[a].kind = "Dir"
<1>1. CASE q = Root
  BY <1>1 DEF MakeDirs, IsTree, Present
<1>2. CASE q # Root
  <2>1. q \in Path
    BY <1>2
  <2>2. \A p \in Path : MakeDirs(t, q)[p] =
          IF p \in Anc[q] /\ ~Present(t, p) THEN Directory ELSE t[p]
    BY <1>2 DEF MakeDirs
  <2>3. \A a \in Anc[q] : a \in Path
    BY <2>1, PathAssumption
  <2>4. \A a \in Anc[q] : MakeDirs(t, q)[a].kind = "Dir"
    BY <2>2, <2>3, <1>2 DEF Present, Directory
  <2>5. ASSUME NEW p \in Path, Present(MakeDirs(t, q), p),
               NEW a \in Anc[p] \ {p}
        PROVE  MakeDirs(t, q)[a].kind = "Dir"
    <3>1. a \in Path
      BY PathAssumption
    <3>2. CASE p \in Anc[q]
      <4>1. a \in Anc[q]
        BY <3>2, <2>1, PathAssumption
      <4>2. QED
        BY <4>1, <2>4
    <3>3. CASE p \notin Anc[q]
      <4>1. Present(t, p)
        BY <3>3, <2>2, <2>5 DEF Present
      <4>2. t[a].kind = "Dir"
        BY <4>1, <2>5 DEF IsTree
      <4>3. QED
        BY <4>2, <3>1, <2>2 DEF Present
    <3>4. QED
      BY <3>2, <3>3
  <2>6. QED
    BY <2>4, <2>5 DEF IsTree
<1>3. QED
  BY <1>1, <1>2

\* Putting an entry where all ancestors are directories and that is not a
\* directory with something in it leaves a tree.
LEMMA PutTree ==
  ASSUME NEW t \in [Path -> Node], IsTree(t), NEW p \in Path, NEW n \in Node,
         \A a \in Anc[p] \ {p} : t[a].kind = "Dir",
         n.kind = "Dir" \/ t[p].kind # "Dir"
  PROVE  /\ [t EXCEPT ![p] = n] \in [Path -> Node]
         /\ IsTree([t EXCEPT ![p] = n])
<1> DEFINE u == [t EXCEPT ![p] = n]
<1>1. u \in [Path -> Node]
  OBVIOUS
<1>2. ASSUME NEW q \in Path, Present(u, q), NEW a \in Anc[q] \ {q}
      PROVE  u[a].kind = "Dir"
  <2>1. a \in Path
    BY PathAssumption
  <2>2. CASE q = p
    BY <2>1, <2>2
  <2>3. CASE q # p
    <3>1. t[a].kind = "Dir"
      BY <1>2, <2>3 DEF IsTree, Present
    <3>2. QED
      BY <3>1, <2>1
  <2>4. QED
    BY <2>2, <2>3
<1>3. QED
  BY <1>1, <1>2 DEF IsTree

\* Writing and cutting a content yields a content.
LEMMA ContentType ==
  ASSUME NEW c \in Content
  PROVE  /\ \A off \in Nat, v \in Block : File(WriteAt(c, off, v)) \in Node
         /\ \A n \in Nat : File(SetLen(c, n)) \in Node
<1>1. ASSUME NEW off \in Nat, NEW v \in Block
      PROVE  WriteAt(c, off, v) \in Content
  <2> DEFINE m == IF off + 1 > Len(c) THEN off + 1 ELSE Len(c)
  <2>1. m \in Nat
    BY DEF Content
  <2>2. \A i \in 1 .. m : (IF i = off + 1 THEN v
                           ELSE IF i <= Len(c) THEN c[i] ELSE Zero) \in Block
    BY <2>1, BlockAssumption DEF Content
  <2>3. QED
    BY <2>1, <2>2 DEF WriteAt, Content
<1>2. ASSUME NEW n \in Nat
      PROVE  SetLen(c, n) \in Content
  <2>1. \A i \in 1 .. n : (IF i <= Len(c) THEN c[i] ELSE Zero) \in Block
    BY BlockAssumption DEF Content
  <2>2. QED
    BY <2>1 DEF SetLen, Content
<1>3. QED
  BY <1>1, <1>2 DEF File, Node

\* The proper ancestors of a path are its parent's ancestors.
LEMMA Ancestors ==
  ASSUME NEW p \in Path
  PROVE  /\ Parent[p] \in Path \cup {Root}
         /\ Parent[p] = Root  => Anc[p] \ {p} = {}
         /\ Parent[p] # Root => Anc[p] \ {p} = Anc[Parent[p]]
         /\ Anc[p] \subseteq Path
         /\ p \in Anc[p]
BY PathAssumption

-----------------------------------------------------------------------------
(* What a host operation does to the overlay *)

\* t puts entry n at its path, with every missing directory above it.
Puts(t, n) ==
  LET p == call[t].path IN
  /\ \A a \in Anc[p] \ {p} : overlay[a].kind \in {"None", "Dir"}
  /\ n \in Node /\ n.kind # "Link"
  /\ n.kind = "Dir" \/ overlay[p].kind # "Dir"
  /\ n.kind = "File" \/ overlay[p].kind # "File"
  /\ overlay' = [MakeDirs(overlay, Parent[p]) EXCEPT ![p] = n]
  /\ UNCHANGED <<base, whiteouts, journal, lock, deleted>>

\* t takes the entry at its path away; nothing is below it.
Drops(t) ==
  LET p == call[t].path IN
  /\ \A q \in Path : Present(overlay, q) => p \notin Anc[q] \ {q}
  /\ overlay' = [overlay EXCEPT ![p] = Absent]
  /\ UNCHANGED <<base, whiteouts, journal, lock, deleted, promised>>

LEMMA Busy ==
  ASSUME TInv, NEW t \in Thread, call[t].pc # "idle"
  PROVE  /\ call[t].path \in Path
         /\ call[t] \in CallType
         /\ CallOK(call[t])
         /\ overlay[call[t].path] \in Node
         /\ overlay[call[t].path].kind \in {"None", "Dir", "File"}
         /\ overlay[call[t].path].data \in Content
         /\ base[call[t].path] \in Node
<1>1. CallOK(call[t]) /\ call[t] \in CallType
  BY DEF TInv, ControlOK
<1>2. call[t].path \in Path
  BY <1>1 DEF CallOK, CallType
<1>3. base[call[t].path] \in Node
  BY <1>2, ImageTree DEF TInv
<1>4. overlay[call[t].path] \in Node /\ overlay[call[t].path].kind # "Link"
  BY <1>2 DEF TInv, StoreOK, Sound
<1>5. QED
  BY <1>1, <1>2, <1>3, <1>4 DEF Node

\* What is put and what is there otherwise.
LEMMA PutAt ==
  ASSUME TInv, NEW t \in Thread, call[t].pc # "idle", NEW n, Puts(t, n)
  PROVE  LET p == call[t].path IN
         /\ Sound(overlay')
         /\ overlay'[p] = n
         /\ \A q \in Path : q # p =>
              overlay'[q] = IF q \in Anc[p] /\ ~Present(overlay, q)
                            THEN Directory ELSE overlay[q]
<1> DEFINE p == call[t].path
           o == MakeDirs(overlay, Parent[p])
<1>1. p \in Path
  BY Busy
<1>2. overlay \in [Path -> Node] /\ IsTree(overlay)
  BY DEF TInv, StoreOK, Sound
<1>3. o \in [Path -> Node]
  BY <1>2, MakeDirsType
<1>4. /\ IsTree(o)
      /\ Parent[p] # Root => \A a \in Anc[Parent[p]] : o[a].kind = "Dir"
  BY <1>1, <1>2, Ancestors, MakeDirsTree DEF Puts
<1>5. \A q \in Path : q # p =>
        o[q] = IF q \in Anc[p] /\ ~Present(overlay, q)
               THEN Directory ELSE overlay[q]
  BY <1>1, Ancestors DEF MakeDirs
<1>6. o[p] = overlay[p]
  BY <1>1, PathAssumption DEF MakeDirs
<1>7. overlay' = [o EXCEPT ![p] = n] /\ n \in Node /\ n.kind # "Link"
      /\ (n.kind = "Dir" \/ overlay[p].kind # "Dir")
  BY DEF Puts
<1>8. \A a \in Anc[p] \ {p} : o[a].kind = "Dir"
  BY <1>1, <1>4, Ancestors
<1> HIDE DEF o, p
<1>9. overlay' \in [Path -> Node] /\ IsTree(overlay')
  BY <1>1, <1>3, <1>4, <1>6, <1>7, <1>8, PutTree
<1>10. overlay'[p] = n /\ \A q \in Path : q # p => overlay'[q] = o[q]
  BY <1>1, <1>3, <1>7
<1>11. \A q \in Path : overlay'[q].kind # "Link"
  BY <1>1, <1>5, <1>7, <1>10 DEF Directory, TInv, StoreOK, Sound
<1>12. QED
  BY <1>5, <1>9, <1>10, <1>11 DEF Sound, p

LEMMA DropAt ==
  ASSUME TInv, NEW t \in Thread, call[t].pc # "idle", Drops(t)
  PROVE  LET p == call[t].path IN
         /\ Sound(overlay')
         /\ overlay'[p] = Absent
         /\ \A q \in Path : q # p => overlay'[q] = overlay[q]
<1> DEFINE p == call[t].path
<1>1. p \in Path
  BY Busy
<1>2. overlay \in [Path -> Node] /\ IsTree(overlay)
      /\ \A q \in Path : overlay[q].kind # "Link"
  BY DEF TInv, StoreOK, Sound
<1>3. Absent \in Node /\ Absent.kind = "None"
  BY DEF Absent, Node, Content
<1>4. /\ overlay' = [overlay EXCEPT ![p] = Absent]
      /\ \A q \in Path : Present(overlay, q) => p \notin Anc[q] \ {q}
  BY DEF Drops
<1> HIDE DEF p
<1>5. /\ overlay' \in [Path -> Node] /\ overlay'[p] = Absent
      /\ \A q \in Path : q # p => overlay'[q] = overlay[q]
  BY <1>1, <1>2, <1>3, <1>4
<1>6. ASSUME NEW q \in Path, Present(overlay', q), NEW a \in Anc[q] \ {q}
      PROVE  overlay'[a].kind = "Dir"
  <2>1. q # p /\ Present(overlay, q)
    BY <1>3, <1>5, <1>6 DEF Present
  <2>2. a # p /\ a \in Path
    BY <2>1, <1>4, <1>6, PathAssumption
  <2>3. overlay[a].kind = "Dir"
    BY <2>1, <1>2, <1>6 DEF IsTree
  <2>4. QED
    BY <2>2, <2>3, <1>5
<1>7. IsTree(overlay')
  BY <1>6 DEF IsTree
<1>8. \A q \in Path : overlay'[q].kind # "Link"
  BY <1>2, <1>3, <1>5
<1>9. QED
  BY <1>5, <1>7, <1>8 DEF Sound, p

LEMMA RefuseGivesUp ==
  ASSUME TInv, NEW t \in Thread, call[t].pc \notin {"store", "rename"},
         NEW r, Refuse(t, r)
  PROVE  GivesUp(t)
BY DEF TInv, ControlOK, Refuse, Return, GivesUp, Ends

\* Where create_dir_all succeeds, no ancestor is a file.
LEMMA ParentsClear ==
  ASSUME TInv, NEW q \in Path \cup {Root}, ParentsAnswer(q) = "OK"
  PROVE  q # Root => \A a \in Anc[q] : overlay[a].kind \in {"None", "Dir"}
<1> SUFFICES ASSUME q # Root, NEW a \in Anc[q]
             PROVE  overlay[a].kind \in {"None", "Dir"}
  OBVIOUS
<1>1. a \in Path
  BY PathAssumption
<1>2. overlay[a].kind \in {"None", "Dir", "File"}
  BY <1>1 DEF TInv, StoreOK, Sound, Node
<1>3. overlay[a].kind # "File"
  BY DEF ParentsAnswer
<1>4. QED
  BY <1>2, <1>3

\* Where a write is answered OK, a file can be put.
LEMMA WriteClear ==
  ASSUME TInv, NEW p \in Path, WriteAnswer(p) = "OK"
  PROVE  /\ \A a \in Anc[p] \ {p} : overlay[a].kind \in {"None", "Dir"}
         /\ overlay[p].kind # "Dir"
<1>1. ParentsAnswer(Parent[p]) = "OK"
  BY DEF WriteAnswer
<1>2. Parent[p] \in Path \cup {Root}
  BY Ancestors
<1>3. Parent[p] # Root => \A a \in Anc[Parent[p]] : overlay[a].kind \in {"None", "Dir"}
  BY <1>1, <1>2, ParentsClear
<1>4. overlay[p].kind # "Dir"
  BY <1>1 DEF WriteAnswer
<1>5. QED
  BY <1>3, <1>4, Ancestors

LEMMA FilePut ==
  ASSUME TInv, NEW t \in Thread, call[t].pc # "idle", NEW c \in Content,
         File(c) \in Node, WriteAnswer(call[t].path) = "OK",
         overlay' = Written(call[t].path, c), 
         UNCHANGED <<base, whiteouts, journal, lock, deleted>>
  PROVE  Puts(t, File(c))
<1>1. call[t].path \in Path
  BY Busy
<1>2. /\ \A a \in Anc[call[t].path] \ {call[t].path} : overlay[a].kind \in {"None", "Dir"}
      /\ overlay[call[t].path].kind # "Dir"
  BY <1>1, WriteClear
<1>3. File(c).kind = "File"
  BY DEF File
<1>4. overlay' = [MakeDirs(overlay, Parent[call[t].path]) EXCEPT ![call[t].path] = File(c)]
  BY DEF Written
<1>5. QED
  BY <1>2, <1>3, <1>4 DEF Puts

LEMMA MakeEffect ==
  ASSUME TInv, NEW t \in Thread, Make(t)
  PROVE  \/ GivesUp(t)
         \/ /\ Puts(t, overlay[call[t].path]) /\ promised' = promised
            /\ Moves(t, AfterMake(t), 0)
<1> DEFINE p == call[t].path
<1>1. call[t].pc = "make"
  BY DEF Make, At
<1>2. p \in Path /\ overlay[p] \in Node /\ overlay[p].kind \in {"None", "Dir", "File"}
  BY <1>1, Busy
<1>3. CASE ParentsAnswer(Parent[p]) # "OK"
  BY <1>1, <1>3, RefuseGivesUp DEF Make
<1>4. CASE ParentsAnswer(Parent[p]) = "OK"
  <2>1. /\ overlay' = MakeDirs(overlay, Parent[p])
        /\ call' = [call EXCEPT ![t].pc = AfterMake(t), ![t].copied = 0]
        /\ UNCHANGED <<base, whiteouts, journal, lock, promised, deleted>>
    BY <1>4 DEF Make, KeepRest
  <2>2. Moves(t, AfterMake(t), 0)
    BY <2>1, GotoMoves DEF TInv
  <2>3. \A a \in Anc[p] \ {p} : overlay[a].kind \in {"None", "Dir"}
    BY <1>2, <1>4, ParentsClear, Ancestors
  <2>4. MakeDirs(overlay, Parent[p])[p] = overlay[p]
    BY <1>2, PathAssumption DEF MakeDirs
  <2>5. MakeDirs(overlay, Parent[p]) = [MakeDirs(overlay, Parent[p]) EXCEPT ![p] = overlay[p]]
    <3>1. MakeDirs(overlay, Parent[p]) \in [Path -> Node]
      BY MakeDirsType DEF TInv, StoreOK, Sound
    <3>2. QED
      BY <1>2, <2>4, <3>1
  <2>6. Puts(t, overlay[p])
    BY <1>2, <2>1, <2>3, <2>5 DEF Puts
  <2>7. QED
    BY <2>1, <2>2, <2>6
<1>5. QED
  BY <1>3, <1>4

LEMMA CreateEffect ==
  ASSUME TInv, NEW t \in Thread, Create(t)
  PROVE  LET p == call[t].path IN
         \/ GivesUp(t)
         \/ /\ base[p].kind = "Dir" /\ Puts(t, Directory) /\ promised' = promised
            /\ Moves(t, "land", call[t].copied)
         \/ /\ base[p].kind = "File" /\ promised' = promised
            /\ \E c \in Content : Puts(t, File(c))
            /\ Moves(t, "copy", call[t].copied)
<1> DEFINE p == call[t].path
<1>1. call[t].pc = "create"
  BY DEF Create, At
<1>2. p \in Path /\ overlay[p] \in Node /\ overlay[p].kind \in {"None", "Dir", "File"}
      /\ overlay[p].data \in Content
  BY <1>1, Busy
<1>3. CASE \E r : Refuse(t, r)
  BY <1>1, <1>3, RefuseGivesUp
<1>4. CASE BaseStat(p) = "Dir" /\ ParentsAnswer(p) = "OK"
           /\ overlay' = MakeDirs(overlay, p) /\ Goto(t, "land") /\ KeepRest
  <2>1. base[p].kind = "Dir"
    BY <1>4 DEF BaseStat
  <2>2. Moves(t, "land", call[t].copied)
    BY <1>4, GotoMoves DEF TInv
  <2>3. \A a \in Anc[p] : overlay[a].kind \in {"None", "Dir"}
    BY <1>2, <1>4, ParentsClear, PathAssumption
  <2>4. overlay[p].kind # "None" => overlay[p] = Directory
    BY <2>3, <1>2, Ancestors DEF Node, Directory
  <2>5. Directory \in Node /\ Directory.kind = "Dir"
    BY DEF Directory, Node, Content
  <2>6. MakeDirs(overlay, p) = [MakeDirs(overlay, Parent[p]) EXCEPT ![p] = Directory]
    <3>1. MakeDirs(overlay, p) \in [Path -> Node] /\ MakeDirs(overlay, Parent[p]) \in [Path -> Node]
      BY MakeDirsType DEF TInv, StoreOK, Sound
    <3>2. MakeDirs(overlay, p)[p] = Directory
      <4>1. p # Root /\ p \in Anc[p]
        BY <1>2, PathAssumption
      <4>2. QED
        BY <1>2, <2>4, <4>1 DEF MakeDirs, Present
    <3>3. \A q \in Path : q # p => MakeDirs(overlay, p)[q] = MakeDirs(overlay, Parent[p])[q]
      BY <1>2, Ancestors, PathAssumption DEF MakeDirs
    <3>4. QED
      BY <1>2, <3>1, <3>2, <3>3
  <2>7. Puts(t, Directory)
    BY <1>2, <1>4, <2>3, <2>5, <2>6, Ancestors DEF Puts, KeepRest
  <2>8. QED
    BY <1>4, <2>1, <2>2, <2>7 DEF KeepRest
<1>5. CASE BaseStat(p) = "File" /\ WriteAnswer(p) = "OK"
           /\ overlay' = Written(p, overlay[p].data) /\ Goto(t, "copy") /\ KeepRest
  <2>1. base[p].kind = "File"
    BY <1>5 DEF BaseStat
  <2>2. Moves(t, "copy", call[t].copied)
    BY <1>5, GotoMoves DEF TInv
  <2>3. File(overlay[p].data) \in Node
    BY <1>2 DEF File, Node
  <2>4. Puts(t, File(overlay[p].data))
    BY <1>1, <1>2, <1>5, <2>3, FilePut DEF KeepRest
  <2>5. QED
    BY <1>2, <1>5, <2>1, <2>2, <2>4 DEF KeepRest
<1>6. QED
  BY <1>3, <1>4, <1>5 DEF Create

LEMMA CopyEffect ==
  ASSUME TInv, NEW t \in Thread, Copy(t)
  PROVE  LET p == call[t].path IN
         \/ GivesUp(t)
         \/ Keep /\ Moves(t, "land", call[t].copied)
         \/ /\ promised' = promised
            /\ \E c \in Content : Puts(t, File(c))
            /\ Moves(t, "copy", call[t].copied + 1)
<1> DEFINE p == call[t].path  i == call[t].copied
<1>1. call[t].pc = "copy"
  BY DEF Copy, At
<1>2. p \in Path /\ overlay[p].data \in Content /\ i \in Nat /\ base[p] \in Node
  BY <1>1, Busy DEF CallType
<1>3. CASE \E r : Refuse(t, r)
  BY <1>1, <1>3, RefuseGivesUp
<1>4. CASE Goto(t, "land") /\ Keep
  <2>1. Moves(t, "land", call[t].copied)
    BY <1>4, GotoMoves DEF TInv
  <2>2. QED
    BY <1>4, <2>1
<1>5. CASE /\ i < Len(base[p].data) /\ WriteAnswer(p) = "OK"
           /\ overlay' = Written(p, WriteAt(overlay[p].data, i, base[p].data[i + 1]))
           /\ call' = [call EXCEPT ![t].copied = i + 1]
           /\ UNCHANGED settled /\ KeepRest
  <2> DEFINE c == WriteAt(overlay[p].data, i, base[p].data[i + 1])
  <2>1. base[p].data[i + 1] \in Block
    <3>1. base[p].data \in Seq(Block)
      BY <1>2 DEF Node, Content
    <3>2. i + 1 \in 1 .. Len(base[p].data)
      BY <1>2, <1>5, <3>1
    <3>3. QED
      BY <3>1, <3>2
  <2>2. File(c) \in Node
    BY <1>2, <2>1, ContentType
  <2>3. c \in Content
    BY <2>2 DEF File, Node
  <2> HIDE DEF c
  <2>4. Puts(t, File(c))
    BY <1>1, <1>5, <2>2, <2>3, FilePut DEF KeepRest, c
  <2>5. Moves(t, "copy", i + 1)
    BY <1>1, <1>5, GotoMoves DEF TInv
  <2>6. QED
    BY <1>5, <2>3, <2>4, <2>5 DEF KeepRest
<1>6. QED
  BY <1>3, <1>4, <1>5 DEF Copy

LEMMA LandPWriteEffect ==
  ASSUME TInv, NEW t \in Thread, LandPWrite(t)
  PROVE  LET c == call[t]  p == c.path IN
         \/ GivesUp(t)
         \/ /\ Puts(t, File(WriteAt(overlay[p].data, c.off, c.arg))) /\ Ends(t)
            /\ \/ promised' = promised
               \/ promised' = [promised EXCEPT ![p] = @ \cup {<<c.off, c.arg>>}]
<1> DEFINE c == call[t]
           p == c.path
           v == WriteAt(overlay[p].data, c.off, c.arg)
<1>1. call[t].pc = "land"
  BY DEF LandPWrite, At
<1>2. p \in Path /\ overlay[p].data \in Content
  BY <1>1, Busy
<1>3. CASE \E r : Refuse(t, r)
  BY <1>1, <1>3, RefuseGivesUp
<1>4. CASE ~ \E r : Refuse(t, r)
  <2>1. /\ WriteAnswer(p) = "OK"
        /\ overlay' = Written(p, v)
        /\ promised' = [promised EXCEPT ![p] =
             IF \E u \in Rivals(t, p) : \/ call[u].verb \in {"truncate", "remove"}
                                        \/ call[u].off = c.off
             THEN @ ELSE @ \cup {<<c.off, c.arg>>}]
        /\ UNCHANGED <<base, whiteouts, journal, lock, deleted>>
        /\ Ends(t)
    BY <1>4 DEF LandPWrite, Return, Ends
  <2>2. c.off \in Nat /\ c.arg \in Block
    BY <1>1, Busy DEF CallType
  <2>3. File(v) \in Node /\ v \in Content
    <3>1. File(v) \in Node
      BY <1>2, <2>2, ContentType
    <3>2. QED
      BY <3>1 DEF File, Node
  <2> HIDE DEF v
  <2>4. Puts(t, File(v))
    BY <1>1, <2>1, <2>3, FilePut
  <2>5. \/ promised' = promised
        \/ promised' = [promised EXCEPT ![p] = @ \cup {<<c.off, c.arg>>}]
    <3>1. [promised EXCEPT ![p] = @] = promised
      BY DEF TInv, StoreOK
    <3>2. QED
      BY <2>1, <3>1
  <2>6. QED
    BY <2>1, <2>4, <2>5 DEF v
<1>5. QED
  BY <1>3, <1>4

LEMMA LandTruncateEffect ==
  ASSUME TInv, NEW t \in Thread, LandTruncate(t)
  PROVE  LET p == call[t].path IN
         \/ GivesUp(t)
         \/ /\ overlay[p].kind = "File" /\ promised' = promised
            /\ Puts(t, File(SetLen(overlay[p].data, call[t].off))) /\ Ends(t)
<1> DEFINE p == call[t].path
           v == SetLen(overlay[p].data, call[t].off)
<1>1. call[t].pc = "land"
  BY DEF LandTruncate, At
<1>2. p \in Path /\ overlay[p] \in Node /\ overlay[p].data \in Content
      /\ call[t].off \in Nat
  BY <1>1, Busy DEF CallType
<1>3. CASE \E r : Refuse(t, r)
  BY <1>1, <1>3, RefuseGivesUp
<1>4. CASE ~ \E r : Refuse(t, r)
  <2>1. /\ OverlayStat(p) = "File"
        /\ overlay' = [overlay EXCEPT ![p] = File(SetLen(@.data, call[t].off))]
        /\ KeepRest /\ Ends(t)
    BY <1>4 DEF LandTruncate, Return, Ends
  <2>2. overlay \in [Path -> Node] /\ IsTree(overlay)
    BY DEF TInv, StoreOK, Sound
  <2>3. overlay[p].kind = "File"
    BY <1>2, <2>1 DEF OverlayStat, Present
  <2>4. \A a \in Anc[p] \ {p} : overlay[a].kind = "Dir"
    BY <1>2, <2>2, <2>3 DEF IsTree, Present
  <2>5. MakeDirs(overlay, Parent[p]) = overlay
    <3>1. \A q \in Path : MakeDirs(overlay, Parent[p])[q] = overlay[q]
      BY <1>2, <2>4, Ancestors DEF MakeDirs, Present
    <3>2. MakeDirs(overlay, Parent[p]) \in [Path -> Node]
      BY <2>2, MakeDirsType
    <3>3. QED
      BY <2>2, <3>1, <3>2
  <2>6. File(v) \in Node /\ File(v).kind = "File"
    BY <1>2, ContentType DEF File
  <2>7. overlay' = [overlay EXCEPT ![p] = File(v)]
    BY <2>1, <2>2
  <2> HIDE DEF v
  <2>8. Puts(t, File(v))
    BY <2>1, <2>3, <2>4, <2>5, <2>6, <2>7 DEF Puts, KeepRest
  <2>9. QED
    BY <2>1, <2>3, <2>8 DEF KeepRest, v
<1>5. QED
  BY <1>3, <1>4

LEMMA MakeDirEffect ==
  ASSUME TInv, NEW t \in Thread, MakeDir(t)
  PROVE  LET p == call[t].path IN
         \/ GivesUp(t)
         \/ /\ overlay[p].kind = "None" /\ promised' = promised
            /\ Puts(t, Directory) /\ Ends(t)
<1> DEFINE p == call[t].path
<1>1. call[t].pc = "makedir"
  BY DEF MakeDir, At
<1>2. p \in Path /\ overlay[p] \in Node
  BY <1>1, Busy
<1>3. CASE \E r : Refuse(t, r)
  BY <1>1, <1>3, RefuseGivesUp
<1>4. CASE ~ \E r : Refuse(t, r)
  <2>1. /\ OverlayStat(p) = "ENOENT" /\ Parent[p] \in OverlayEntries
        /\ overlay' = [overlay EXCEPT ![p] = Directory]
        /\ KeepRest /\ Ends(t)
    BY <1>4 DEF MakeDir, Return, Ends
  <2>2. overlay \in [Path -> Node] /\ IsTree(overlay)
        /\ \A q \in Path : overlay[q].kind # "Link"
    BY DEF TInv, StoreOK, Sound
  <2>3. overlay[p].kind = "None" /\ \A a \in Anc[p] : overlay[a].kind # "File"
    BY <1>2, <2>1 DEF OverlayStat, Present, Node
  <2>4. \A a \in Anc[p] \ {p} : overlay[a].kind = "Dir"
    <3>1. CASE Parent[p] = Root
      BY <1>2, <3>1, Ancestors
    <3>2. CASE Parent[p] # Root
      <4>1. Parent[p] \in Path /\ Present(overlay, Parent[p])
        BY <1>2, <2>1, <3>2, Ancestors DEF OverlayEntries
      <4>2. overlay[Parent[p]].kind = "Dir"
        BY <1>2, <2>2, <2>3, <3>2, <4>1, Ancestors DEF Present, Node
      <4>3. \A a \in Anc[Parent[p]] : overlay[a].kind = "Dir"
        BY <2>2, <4>1, <4>2 DEF IsTree
      <4>4. QED
        BY <1>2, <3>2, <4>3, Ancestors
    <3>3. QED
      BY <3>1, <3>2
  <2>5. MakeDirs(overlay, Parent[p]) = overlay
    <3>1. \A q \in Path : MakeDirs(overlay, Parent[p])[q] = overlay[q]
      BY <1>2, <2>4, Ancestors DEF MakeDirs, Present
    <3>2. MakeDirs(overlay, Parent[p]) \in [Path -> Node]
      BY <2>2, MakeDirsType
    <3>3. QED
      BY <2>2, <3>1, <3>2
  <2>6. Directory \in Node /\ Directory.kind = "Dir"
    BY DEF Directory, Node, Content
  <2>7. Puts(t, Directory)
    BY <2>1, <2>3, <2>4, <2>5, <2>6 DEF Puts, KeepRest
  <2>8. QED
    BY <2>1, <2>3, <2>7 DEF KeepRest
<1>5. QED
  BY <1>3, <1>4

LEMMA UnlinkEffect ==
  ASSUME TInv, NEW t \in Thread, Unlink(t)
  PROVE  LET p == call[t].path IN
         \/ GivesUp(t)
         \/ Drops(t) /\ IF Present(base, p) THEN Moves(t, "mark", call[t].copied)
                        ELSE Ends(t)
<1> DEFINE p == call[t].path
<1>1. call[t].pc = "unlink"
  BY DEF Unlink, At
<1>2. p \in Path
  BY <1>1, Busy
<1>3. CASE \E r : Refuse(t, r)
  BY <1>1, <1>3, RefuseGivesUp
<1>4. CASE ~ \E r : Refuse(t, r)
  <2>1. /\ \A c \in Children(p) : ~Present(overlay, c)
        /\ overlay' = [overlay EXCEPT ![p] = Absent]
        /\ KeepRest /\ AfterUnlink(t)
    BY <1>4 DEF Unlink
  <2>2. ASSUME NEW q \in Path, Present(overlay, q), p \in Anc[q] \ {q} PROVE FALSE
    <3>1. PICK c \in Anc[q] : Parent[c] = p
      BY <1>2, <2>2, PathAssumption
    <3>2. c \in Path
      BY PathAssumption
    <3>3. Present(overlay, c)
      BY <2>2, <3>2 DEF TInv, StoreOK, Sound, IsTree, Present
    <3>4. QED
      BY <2>1, <3>1, <3>2, <3>3 DEF Children
  <2>3. Drops(t)
    BY <2>1, <2>2 DEF Drops, KeepRest
  <2>4. IF Present(base, p) THEN Moves(t, "mark", call[t].copied) ELSE Ends(t)
    BY <2>1, GotoMoves DEF AfterUnlink, Return, Ends, TInv
  <2>5. QED
    BY <2>3, <2>4
<1>5. QED
  BY <1>3, <1>4

-----------------------------------------------------------------------------
(* The lookups and decisions, which move nothing but their caller *)

Advances(t, pc, k) == Keep /\ Moves(t, pc, k)

LEMMA GateEffect ==
  ASSUME TInv, NEW t \in Thread
  PROVE  LET c == call[t]  p == c.path IN
         /\ Denied(t) => GivesUp(t)
         /\ EnterPWrite(t) =>
              /\ c.pc = "gate" /\ c.verb = "pwrite" /\ Permitted(p)
              /\ Advances(t, "contains", c.copied)
         /\ EnterTruncate(t) =>
              \/ GivesUp(t)
              \/ /\ c.pc = "gate" /\ c.verb = "truncate" /\ Permitted(p)
                 /\ Advances(t, "probe", c.copied)
         /\ EnterMkdir(t) =>
              \/ GivesUp(t)
              \/ /\ c.pc = "gate" /\ c.verb = "mkdir" /\ Permitted(p)
                 /\ LockFree /\ StatMerged(p) = "ENOENT"
                 /\ Advances(t, "parents", c.copied)
         /\ EnterRemove(t) =>
              \/ GivesUp(t)
              \/ /\ c.pc = "gate" /\ c.verb = "remove" /\ Permitted(p)
                 /\ LockFree
                 /\ \/ StatMerged(p) \in {"File", "Link"}
                    \/ StatMerged(p) = "Dir" /\ ReadDir(p) = {}
                 /\ Advances(t, "unlink", c.copied)
<1>1. \A pc : Goto(t, pc) /\ Keep => Advances(t, pc, call[t].copied)
  BY GotoMoves DEF TInv, Advances
<1>2. \A r : call[t].pc = "gate" /\ Refuse(t, r) => GivesUp(t)
  BY RefuseGivesUp
<1>3. Denied(t) => GivesUp(t)
  BY <1>2 DEF Denied, At
<1>4. EnterPWrite(t) => /\ call[t].pc = "gate" /\ call[t].verb = "pwrite"
                        /\ Permitted(call[t].path)
                        /\ Advances(t, "contains", call[t].copied)
  BY <1>1 DEF EnterPWrite, EnterVerb, At
<1>5. EnterTruncate(t) =>
        \/ GivesUp(t)
        \/ /\ call[t].pc = "gate" /\ call[t].verb = "truncate" /\ Permitted(call[t].path)
           /\ Advances(t, "probe", call[t].copied)
  BY <1>1, <1>2 DEF EnterTruncate, EnterVerb, At
<1>6. EnterMkdir(t) =>
        \/ GivesUp(t)
        \/ /\ call[t].pc = "gate" /\ call[t].verb = "mkdir" /\ Permitted(call[t].path)
           /\ LockFree /\ StatMerged(call[t].path) = "ENOENT"
           /\ Advances(t, "parents", call[t].copied)
  BY <1>1, <1>2 DEF EnterMkdir, EnterVerb, At
<1>7. EnterRemove(t) =>
        \/ GivesUp(t)
        \/ /\ call[t].pc = "gate" /\ call[t].verb = "remove" /\ Permitted(call[t].path)
           /\ LockFree
           /\ \/ StatMerged(call[t].path) \in {"File", "Link"}
              \/ StatMerged(call[t].path) = "Dir" /\ ReadDir(call[t].path) = {}
           /\ Advances(t, "unlink", call[t].copied)
  BY <1>1, <1>2 DEF EnterRemove, EnterVerb, At
<1>8. QED
  BY <1>3, <1>4, <1>5, <1>6, <1>7

LEMMA LookupEffect ==
  ASSUME TInv, NEW t \in Thread
  PROVE  LET c == call[t]  p == c.path IN
         /\ Contains(t) =>
              /\ c.pc = "contains" /\ LockFree
              /\ Advances(t, IF p \in whiteouts THEN "freshparents" ELSE "probe", c.copied)
         /\ Probe(t) =>
              /\ c.pc = "probe"
              /\ Advances(t, IF Present(overlay, p) THEN "land" ELSE "parents", c.copied)
         /\ Parents(t) =>
              \/ GivesUp(t)
              \/ /\ c.pc \in {"parents", "freshparents"} /\ LockFree
                 /\ StatMerged(Parent[p]) \in {"Dir", "ENOENT"}
                 /\ Advances(t, "make", IF c.pc = "freshparents" THEN 1 ELSE 0)
<1>1. \A pc : Goto(t, pc) /\ Keep => Advances(t, pc, call[t].copied)
  BY GotoMoves DEF TInv, Advances
<1>2. Contains(t) =>
        /\ call[t].pc = "contains" /\ LockFree
        /\ Advances(t, IF call[t].path \in whiteouts THEN "freshparents" ELSE "probe", call[t].copied)
  BY <1>1 DEF Contains, At
<1>3. Probe(t) =>
        /\ call[t].pc = "probe"
        /\ Advances(t, IF Present(overlay, call[t].path) THEN "land" ELSE "parents", call[t].copied)
  BY <1>1 DEF Probe, At
<1>4. ASSUME Parents(t)
      PROVE  \/ GivesUp(t)
             \/ /\ call[t].pc \in {"parents", "freshparents"} /\ LockFree
                /\ StatMerged(Parent[call[t].path]) \in {"Dir", "ENOENT"}
                /\ Advances(t, "make", IF call[t].pc = "freshparents" THEN 1 ELSE 0)
  <2>1. CASE \E r : Refuse(t, r)
    <3>1. call[t].pc \in {"parents", "freshparents"}
      BY <1>4 DEF Parents
    <3>2. QED
      BY <2>1, <3>1, RefuseGivesUp
  <2>2. CASE ~ \E r : Refuse(t, r)
    <3>1. /\ call[t].pc \in {"parents", "freshparents"} /\ LockFree
          /\ StatMerged(Parent[call[t].path]) \in {"Dir", "ENOENT"}
          /\ call' = [call EXCEPT ![t].pc = "make",
                                  ![t].copied = IF At(t, "freshparents") THEN 1 ELSE 0]
          /\ Keep
      BY <1>4, <2>2 DEF Parents
    <3>2. Moves(t, "make", IF call[t].pc = "freshparents" THEN 1 ELSE 0)
      BY <3>1, GotoMoves DEF At, TInv
    <3>3. QED
      BY <3>1, <3>2 DEF Advances
  <2>3. QED
    BY <2>1, <2>2
<1>5. QED
  BY <1>2, <1>3, <1>4

-----------------------------------------------------------------------------
(* The typed state is inductive *)

LEMMA GiveUpTyped ==
  ASSUME TInv, NEW t \in Thread, GivesUp(t)
  PROVE  TInv'
<1>1. StoreOK'
  BY DEF TInv, StoreOK, Sound, IsTree, Present, GivesUp
<1>2. lock' \in Thread \cup {NoThread} /\ lock' # t /\ base' = base
      /\ \A u \in Thread : u # t => (lock' = u <=> lock = u)
  BY StepsAssumption DEF TInv, ControlOK, GivesUp
<1>3. ControlOK'
  BY <1>2, EndOK DEF TInv, GivesUp
<1>4. QED
  BY <1>1, <1>3 DEF TInv

LEMMA AdvanceTyped ==
  ASSUME TInv, NEW t \in Thread, NEW pc \in Pcs, NEW k \in Nat,
         Advances(t, pc, k),
         call[t].pc # "idle", pc # "idle", call[t].verb \in VerbsAt(pc),
         pc # "copy",
         pc \in {"store", "rename"} <=> call[t].pc \in {"store", "rename"}
  PROVE  TInv'
<1>1. StoreOK'
  BY DEF TInv, StoreOK, Sound, IsTree, Present, Advances, Keep
<1>2. ControlOK'
  BY MoveOK DEF TInv, ControlOK, Advances, Keep
<1>3. QED
  BY <1>1, <1>2 DEF TInv

LEMMA PutTyped ==
  ASSUME TInv, NEW t \in Thread, call[t].pc \notin {"idle", "store", "rename"},
         NEW n, Puts(t, n),
         promised' \in [Path -> SUBSET (Offsets \X Writes)],
         \/ Ends(t)
         \/ \E pc \in Pcs \ {"idle", "store", "rename"}, k \in Nat :
              /\ Moves(t, pc, k) /\ call[t].verb \in VerbsAt(pc)
              /\ pc = "copy" => base[call[t].path].kind = "File"
  PROVE  TInv'
<1>1. UNCHANGED <<base, whiteouts, journal, lock, deleted>>
  BY DEF Puts
<1>2. StoreOK'
  BY <1>1, PutAt DEF TInv, StoreOK, Sound, IsTree, Present
<1>3. lock # t /\ lock \in Thread \cup {NoThread}
  BY DEF TInv, ControlOK
<1>4. CASE Ends(t)
  BY <1>1, <1>2, <1>3, <1>4, EndOK DEF TInv
<1>5. CASE \E pc \in Pcs \ {"idle", "store", "rename"}, k \in Nat :
             /\ Moves(t, pc, k) /\ call[t].verb \in VerbsAt(pc)
             /\ pc = "copy" => base[call[t].path].kind = "File"
  <2>1. PICK pc \in Pcs \ {"idle", "store", "rename"}, k \in Nat :
             /\ Moves(t, pc, k) /\ call[t].verb \in VerbsAt(pc)
             /\ pc = "copy" => base[call[t].path].kind = "File"
    BY <1>5
  <2>2. ControlOK'
    BY <1>1, <1>3, <2>1, MoveOK DEF TInv
  <2>3. QED
    BY <1>2, <2>2 DEF TInv
<1>6. QED
  BY <1>4, <1>5

\* The verb of a caller at each point.
LEMMA VerbAtPoint ==
  ASSUME ControlOK, NEW t \in Thread
  PROVE  LET c == call[t] IN
         /\ c.pc \in {"contains", "freshparents"} => c.verb = "pwrite"
         /\ c.pc \in {"probe", "create", "copy", "land"} => c.verb \in {"pwrite", "truncate"}
         /\ c.pc \in {"parents", "make"} => c.verb \in {"pwrite", "truncate", "mkdir"}
         /\ c.pc = "makedir" => c.verb = "mkdir"
         /\ c.pc \in {"unlink", "mark", "store", "rename"} => c.verb = "remove"
         /\ c.pc = "gate" => c.verb \in Verbs
         /\ c.pc \in Pcs /\ c.copied \in Nat
<1>1. call[t].verb \in VerbsAt(call[t].pc) /\ call[t] \in CallType
  BY DEF ControlOK, CallOK
<1>2. QED
  BY <1>1 DEF VerbsAt, CallType

LEMMA GateTyped ==
  ASSUME TInv, NEW t \in Thread,
         \/ Denied(t) \/ EnterPWrite(t) \/ EnterTruncate(t) \/ EnterMkdir(t)
         \/ EnterRemove(t)
  PROVE  TInv'
<1>1. CASE GivesUp(t)
  BY <1>1, GiveUpTyped
<1>2. CASE \E pc \in {"contains", "probe", "parents", "unlink"} :
             /\ call[t].pc = "gate" /\ call[t].verb \in VerbsAt(pc)
             /\ Advances(t, pc, call[t].copied)
  <2>1. PICK pc \in {"contains", "probe", "parents", "unlink"} :
             /\ call[t].pc = "gate" /\ call[t].verb \in VerbsAt(pc)
             /\ Advances(t, pc, call[t].copied)
    BY <1>2
  <2>2. call[t].copied \in Nat
    BY VerbAtPoint DEF TInv
  <2>3. pc \in Pcs
    BY DEF Pcs
  <2>4. QED
    BY <2>1, <2>2, <2>3, AdvanceTyped
<1>3. QED
  BY <1>1, <1>2, GateEffect DEF VerbsAt

LEMMA LookupTyped ==
  ASSUME TInv, NEW t \in Thread, Contains(t) \/ Probe(t) \/ Parents(t)
  PROVE  TInv'
<1>1. CASE GivesUp(t)
  BY <1>1, GiveUpTyped
<1>2. CASE \E pc \in {"freshparents", "probe", "land", "parents", "make"}, k \in Nat :
             /\ call[t].pc \in {"contains", "probe", "parents", "freshparents"}
             /\ call[t].verb \in VerbsAt(pc)
             /\ Advances(t, pc, k)
  <2>1. PICK pc \in {"freshparents", "probe", "land", "parents", "make"}, k \in Nat :
             /\ call[t].pc \in {"contains", "probe", "parents", "freshparents"}
             /\ call[t].verb \in VerbsAt(pc)
             /\ Advances(t, pc, k)
    BY <1>2
  <2>2. pc \in Pcs
    BY DEF Pcs
  <2>3. QED
    BY <2>1, <2>2, AdvanceTyped
<1>3. CASE Contains(t)
  <2>1. call[t].verb = "pwrite" /\ call[t].copied \in Nat
    BY <1>3, LookupEffect, VerbAtPoint DEF TInv
  <2>2. QED
    BY <2>1, <1>2, <1>3, LookupEffect DEF VerbsAt
<1>4. CASE Probe(t)
  <2>1. call[t].verb \in {"pwrite", "truncate"} /\ call[t].copied \in Nat
    BY <1>4, LookupEffect, VerbAtPoint DEF TInv
  <2>2. QED
    BY <2>1, <1>2, <1>4, LookupEffect DEF VerbsAt
<1>5. CASE Parents(t)
  <2>1. call[t].pc \in {"parents", "freshparents"}
        => call[t].verb \in {"pwrite", "truncate", "mkdir"} /\ call[t].copied \in Nat
    BY VerbAtPoint DEF TInv
  <2>2. QED
    BY <2>1, <1>1, <1>2, <1>5, LookupEffect DEF VerbsAt
<1>6. QED
  BY <1>3, <1>4, <1>5

LEMMA MakeTyped ==
  ASSUME TInv, NEW t \in Thread, Make(t)
  PROVE  TInv'
<1>1. CASE GivesUp(t)
  BY <1>1, GiveUpTyped
<1>2. CASE /\ Puts(t, overlay[call[t].path]) /\ promised' = promised
           /\ Moves(t, AfterMake(t), 0)
  <2>1. call[t].pc = "make"
    BY DEF Make, At
  <2>2. call[t].verb \in {"pwrite", "truncate", "mkdir"}
    BY <2>1, VerbAtPoint DEF TInv
  <2>3. /\ AfterMake(t) \in Pcs \ {"idle", "store", "rename"}
        /\ AfterMake(t) # "copy"
        /\ call[t].verb \in VerbsAt(AfterMake(t))
    <3>1. CASE AfterMake(t) = "makedir" /\ call[t].verb = "mkdir"
      BY <3>1 DEF VerbsAt, Pcs
    <3>2. CASE AfterMake(t) = "land" /\ call[t].verb # "mkdir"
      BY <2>2, <3>2 DEF VerbsAt, Pcs
    <3>3. CASE AfterMake(t) = "create" /\ call[t].verb # "mkdir"
      BY <2>2, <3>3 DEF VerbsAt, Pcs
    <3>4. QED
      BY <3>1, <3>2, <3>3 DEF AfterMake
  <2>4. promised' \in [Path -> SUBSET (Offsets \X Writes)]
    BY <1>2 DEF TInv, StoreOK
  <2>5. QED
    BY <1>2, <2>1, <2>3, <2>4, PutTyped
<1>3. QED
  BY <1>1, <1>2, MakeEffect

LEMMA CreateTyped ==
  ASSUME TInv, NEW t \in Thread, Create(t)
  PROVE  TInv'
<1> DEFINE p == call[t].path
<1>1. call[t].pc = "create" /\ call[t].verb \in {"pwrite", "truncate"} /\ call[t].copied \in Nat
  BY VerbAtPoint DEF TInv, Create, At
<1>2. promised \in [Path -> SUBSET (Offsets \X Writes)]
  BY DEF TInv, StoreOK
<1>3. CASE GivesUp(t)
  BY <1>3, GiveUpTyped
<1>4. ASSUME NEW n, NEW pc \in {"land", "copy"},
             Puts(t, n), promised' = promised, Moves(t, pc, call[t].copied),
             pc = "copy" => base[p].kind = "File"
      PROVE  TInv'
  <2>1. pc \in Pcs \ {"idle", "store", "rename"} /\ call[t].verb \in VerbsAt(pc)
    BY <1>1 DEF Pcs, VerbsAt
  <2>2. QED
    BY <1>1, <1>2, <1>4, <2>1, PutTyped
<1>5. ASSUME promised' = promised, Puts(t, Directory), Moves(t, "land", call[t].copied)
      PROVE  TInv'
  BY <1>4, <1>5
<1>6. ASSUME promised' = promised, base[p].kind = "File", NEW n, Puts(t, n),
             Moves(t, "copy", call[t].copied)
      PROVE  TInv'
  BY <1>4, <1>6
<1>7. QED
  BY <1>3, <1>5, <1>6, CreateEffect

LEMMA CopyTyped ==
  ASSUME TInv, NEW t \in Thread, Copy(t)
  PROVE  TInv'
<1> DEFINE p == call[t].path
<1>1. call[t].pc = "copy" /\ call[t].verb \in {"pwrite", "truncate"} /\ call[t].copied \in Nat
  BY VerbAtPoint DEF TInv, Copy, At
<1>2. promised \in [Path -> SUBSET (Offsets \X Writes)]
  BY DEF TInv, StoreOK
<1>3. base[p].kind = "File"
  BY <1>1 DEF TInv, ControlOK, CallOK
<1>4. /\ "land" \in Pcs /\ call[t].verb \in VerbsAt("land")
      /\ "copy" \in Pcs \ {"idle", "store", "rename"} /\ call[t].verb \in VerbsAt("copy")
  BY <1>1 DEF Pcs, VerbsAt
<1>5. CASE GivesUp(t)
  BY <1>5, GiveUpTyped
<1>6. CASE Keep /\ Moves(t, "land", call[t].copied)
  BY <1>1, <1>4, <1>6, AdvanceTyped DEF Advances
<1>7. CASE promised' = promised /\ Moves(t, "copy", call[t].copied + 1) /\ \E n : Puts(t, n)
  <2>1. call[t].copied + 1 \in Nat
    BY <1>1
  <2>2. PICK n : Puts(t, n)
    BY <1>7
  <2>3. QED
    BY <1>1, <1>2, <1>3, <1>4, <1>7, <2>1, <2>2, PutTyped
<1>8. QED
  BY <1>5, <1>6, <1>7, CopyEffect

LEMMA LandTyped ==
  ASSUME TInv, NEW t \in Thread, LandPWrite(t) \/ LandTruncate(t) \/ MakeDir(t)
  PROVE  TInv'
<1> DEFINE p == call[t].path
<1>1. call[t].pc \in {"land", "makedir"}
  BY DEF LandPWrite, LandTruncate, MakeDir, At
<1>2. promised \in [Path -> SUBSET (Offsets \X Writes)]
  BY DEF TInv, StoreOK
<1>3. CASE GivesUp(t)
  BY <1>3, GiveUpTyped
<1>4. CASE (\E n : Puts(t, n)) /\ Ends(t) /\ promised' \in [Path -> SUBSET (Offsets \X Writes)]
  BY <1>1, <1>4, PutTyped
<1>5. CASE LandPWrite(t)
  <2>1. call[t].off \in Offsets /\ call[t].arg \in Writes /\ p \in Path
    BY <1>1, <1>5, Busy DEF LandPWrite, CallOK
  <2>2. [promised EXCEPT ![p] = @ \cup {<<call[t].off, call[t].arg>>}]
          \in [Path -> SUBSET (Offsets \X Writes)]
    BY <1>2, <2>1
  <2>3. QED
    BY <1>2, <1>3, <1>4, <1>5, <2>2, LandPWriteEffect
<1>6. CASE LandTruncate(t)
  BY <1>2, <1>3, <1>4, <1>6, LandTruncateEffect
<1>7. CASE MakeDir(t)
  BY <1>2, <1>3, <1>4, <1>7, MakeDirEffect
<1>8. QED
  BY <1>5, <1>6, <1>7

LEMMA RemovalTyped ==
  ASSUME TInv, NEW t \in Thread, Unlink(t) \/ Mark(t) \/ Store(t) \/ Rename(t)
  PROVE  TInv'
<1> DEFINE p == call[t].path
<1>1. CASE GivesUp(t)
  BY <1>1, GiveUpTyped
<1>2. CASE Unlink(t) /\ ~GivesUp(t)
  <2>1. call[t].pc = "unlink"
    BY <1>2 DEF Unlink, At
  <2>2. call[t].verb = "remove" /\ call[t].copied \in Nat
    BY <2>1, VerbAtPoint DEF TInv
  <2>3. Drops(t) /\ (Moves(t, "mark", call[t].copied) \/ Ends(t))
    BY <1>2, UnlinkEffect
  <2>4. UNCHANGED <<base, whiteouts, journal, lock, deleted, promised>>
    BY <2>3 DEF Drops
  <2>5. StoreOK'
    BY <2>1, <2>3, <2>4, DropAt DEF TInv, StoreOK, Sound, IsTree, Present
  <2>6. lock # t /\ lock \in Thread \cup {NoThread}
    BY <2>1 DEF TInv, ControlOK
  <2>7. call[t].verb \in VerbsAt("mark") /\ "mark" \in Pcs
    BY <2>2 DEF VerbsAt, Pcs
  <2>8. ControlOK'
    BY <2>1, <2>2, <2>3, <2>4, <2>6, <2>7, MoveOK, EndOK DEF TInv
  <2>9. QED
    BY <2>5, <2>8 DEF TInv
<1>3. CASE Mark(t)
  <2>1. call[t].pc = "mark" /\ LockFree
    BY <1>3 DEF Mark, At
  <2>2. p \in Path /\ call[t].verb = "remove" /\ call[t].copied \in Nat
    BY <2>1, Busy, VerbAtPoint DEF TInv
  <2>3. /\ UNCHANGED <<base, overlay, journal, promised>>
        /\ deleted' \subseteq Path /\ whiteouts' \subseteq Path
    BY <1>3, <2>2 DEF Mark, TInv, StoreOK
  <2>4. StoreOK'
    BY <2>3 DEF TInv, StoreOK, Sound, IsTree, Present
  <2>5. call[t].verb \in VerbsAt("store") /\ "store" \in Pcs
    BY <2>2 DEF VerbsAt, Pcs
  <2>6. lock = NoThread /\ NoThread \notin Thread /\ \A u \in Thread : lock # u
    BY <2>1, StepsAssumption DEF LockFree
  <2>7. \/ lock' = lock /\ Ends(t)
        \/ lock' = t /\ Moves(t, "store", call[t].copied)
    BY <1>3, GotoMoves DEF Mark, Return, Ends, TInv
  <2>8. ControlOK'
    BY <2>1, <2>2, <2>3, <2>5, <2>6, <2>7, MoveOK, EndOK DEF TInv
  <2>9. QED
    BY <2>4, <2>8 DEF TInv
<1>4. CASE Store(t)
  <2>1. call[t].pc = "store" /\ Advances(t, "rename", call[t].copied)
    BY <1>4, GotoMoves DEF Store, At, Advances, Keep, TInv
  <2>2. call[t].verb = "remove" /\ call[t].copied \in Nat
    BY <2>1, VerbAtPoint DEF TInv
  <2>3. call[t].verb \in VerbsAt("rename") /\ "rename" \in Pcs
    BY <2>2 DEF VerbsAt, Pcs
  <2>4. QED
    BY <2>1, <2>2, <2>3, AdvanceTyped
<1>5. CASE Rename(t)
  <2>1. call[t].pc = "rename" /\ lock' = NoThread /\ Ends(t)
    BY <1>5 DEF Rename, At, Return, Ends
  <2>2. p \in Path
    BY <2>1, Busy
  <2>3. /\ UNCHANGED <<base, overlay, whiteouts, promised>>
        /\ deleted' \subseteq Path /\ journal' \subseteq Path
    BY <1>5, <2>2 DEF Rename, TInv, StoreOK
  <2>4. StoreOK'
    BY <2>3 DEF TInv, StoreOK, Sound, IsTree, Present
  <2>5. lock = t /\ NoThread \notin Thread
    BY <2>1, StepsAssumption DEF TInv, ControlOK
  <2>6. ControlOK'
    BY <2>1, <2>3, <2>5, EndOK DEF TInv
  <2>7. QED
    BY <2>4, <2>6 DEF TInv
<1>6. QED
  BY <1>1, <1>2, <1>3, <1>4, <1>5

\* A call that arrives takes from what was promised at its path.
LEMMA BeginEffect ==
  ASSUME TInv, NEW t \in Thread, Call(t)
  PROVE  \E c :
         /\ CallOK(c) /\ c.pc = "gate" /\ c.path \in Path
         /\ call[t].pc = "idle"
         /\ Exclusive => \A u \in Thread \ {t} : call[u].path # c.path
         /\ call' = [call EXCEPT ![t] = c]
         /\ promised' \in [Path -> SUBSET (Offsets \X Writes)]
         /\ \A p \in Path : promised'[p] \subseteq promised[p]
         /\ c.verb = "remove" => promised'[c.path] = {}
         /\ c.verb = "truncate" => \A w \in promised'[c.path] : w[1] < c.off
         /\ c.verb = "pwrite" => \A w \in promised'[c.path] : w[1] # c.off
         /\ UNCHANGED <<base, overlay, whiteouts, journal, lock, deleted>>
<1>1. PICK p \in Path, verb \in {"pwrite", "truncate", "mkdir", "remove"},
           off \in Nat, arg \in Block :
             /\ Begin(t, verb, p, off, arg)
             /\ verb = "pwrite" => off \in Offsets /\ arg \in Writes
             /\ verb = "truncate" => off \in Lengths
  BY StepsAssumption, BlockAssumption DEF Call
<1> DEFINE c == [verb |-> verb, path |-> p, off |-> off, arg |-> arg,
                 pc |-> "gate", copied |-> 0]
<1>2. c \in CallType
  BY <1>1 DEF Begin, CallType, Pcs
<1>3. /\ c.verb = verb /\ c.path = p /\ c.off = off /\ c.arg = arg /\ c.pc = "gate"
  OBVIOUS
<1>4. p # Root
  BY PathAssumption
<1>5. CallOK(c)
  BY <1>1, <1>2, <1>4 DEF CallOK, VerbsAt, Begin
<1>6. promised \in [Path -> SUBSET (Offsets \X Writes)]
  BY DEF TInv, StoreOK
<1> DEFINE cut == CASE verb = "pwrite"   -> {w \in promised[p] : w[1] # off}
                    [] verb = "truncate" -> {w \in promised[p] : w[1] < off}
                    [] verb = "mkdir"    -> promised[p]
                    [] verb = "remove"   -> {}
<1>7. promised' = [promised EXCEPT ![p] = cut]
  BY <1>1, <1>6 DEF Begin
<1>8. /\ cut \subseteq promised[p]
      /\ verb = "remove" => cut = {}
      /\ verb = "truncate" => \A w \in cut : w[1] < off
      /\ verb = "pwrite" => \A w \in cut : w[1] # off
  OBVIOUS
<1>9. /\ call[t].pc = "idle" /\ call' = [call EXCEPT ![t] = c]
      /\ Exclusive => \A u \in Thread \ {t} : call[u].path # p
      /\ UNCHANGED <<base, overlay, whiteouts, journal, lock, deleted>>
  BY <1>1 DEF Begin, At, Rivals
<1> HIDE DEF c, cut
<1>10. /\ promised' \in [Path -> SUBSET (Offsets \X Writes)]
       /\ \A q \in Path : promised'[q] \subseteq promised[q]
       /\ promised'[p] = cut
  BY <1>6, <1>7, <1>8
<1>11. QED
  BY <1>3, <1>5, <1>8, <1>9, <1>10

LEMMA CallTyped ==
  ASSUME TInv, NEW t \in Thread, Call(t)
  PROVE  TInv'
<1>1. PICK c :
         /\ CallOK(c) /\ c.pc = "gate"
         /\ call[t].pc = "idle"
         /\ call' = [call EXCEPT ![t] = c]
         /\ promised' \in [Path -> SUBSET (Offsets \X Writes)]
         /\ UNCHANGED <<base, overlay, whiteouts, journal, lock, deleted>>
  BY BeginEffect
<1>2. StoreOK'
  BY <1>1 DEF TInv, StoreOK, Sound, IsTree, Present
<1>3. lock # t /\ lock \in Thread \cup {NoThread}
  BY <1>1 DEF TInv, ControlOK
<1>4. ControlOK'
  BY <1>1, <1>3, ControlStep DEF TInv
<1>5. QED
  BY <1>2, <1>4 DEF TInv

LEMMA HostRefusal ==
  ASSUME TInv, NEW t \in Thread, HostRefuses(t)
  PROVE  GivesUp(t)
BY DEF HostRefuses, Return, GivesUp, Ends

LEMMA CrashTyped ==
  ASSUME TInv, Crash
  PROVE  TInv'
<1>1. StoreOK'
  BY DEF TInv, StoreOK, Sound, IsTree, Present, Crash
<1>2. Idle \in CallType
  BY BlockAssumption DEF Idle, CallType, Pcs
<1>3. CallOK(Idle) /\ Idle.pc = "idle"
  BY <1>2 DEF CallOK, Idle, VerbsAt
<1>4. call' = [t \in Thread |-> Idle] /\ base' = base /\ lock' = NoThread
  BY DEF Crash
<1>5. \A t \in Thread : call'[t] = Idle
  BY <1>4
<1>6. ASSUME NEW t \in Thread PROVE CallOK(call[t])'
  BY <1>3, <1>4, <1>5 DEF CallOK
<1>7. ControlOK'
  BY <1>2, <1>3, <1>4, <1>5, <1>6, StepsAssumption DEF ControlOK
<1>8. QED
  BY <1>1, <1>7 DEF TInv

LEMMA TypedStep == TInv /\ [Next]_vars => TInv'
<1> SUFFICES ASSUME TInv, [Next]_vars PROVE TInv'
  OBVIOUS
<1>1. ASSUME NEW t \in Thread, Call(t) PROVE TInv'
  BY <1>1, CallTyped
<1>2. ASSUME NEW t \in Thread, Step(t) PROVE TInv'
  BY <1>2, GateTyped, LookupTyped, MakeTyped, CreateTyped, CopyTyped,
     LandTyped, RemovalTyped DEF Step
<1>3. ASSUME NEW t \in Thread, HostRefuses(t) PROVE TInv'
  BY <1>3, HostRefusal, GiveUpTyped
<1>4. CASE Crash
  BY <1>4, CrashTyped
<1>5. CASE UNCHANGED vars
  BY <1>5 DEF vars, TInv, StoreOK, Sound, IsTree, Present, ControlOK, CallOK
<1>6. QED
  BY <1>1, <1>2, <1>3, <1>4, <1>5 DEF Next

LEMMA TypedInit == Init => TInv
<1> SUFFICES ASSUME Init PROVE TInv
  OBVIOUS
<1>1. Absent \in Node /\ Absent.kind = "None"
  BY DEF Absent, Node, Content
<1>2. StoreOK
  BY <1>1 DEF Init, StoreOK, Sound, IsTree, Present
<1>3. Idle \in CallType
  BY BlockAssumption DEF Idle, CallType, Pcs
<1>4. CallOK(Idle) /\ Idle.pc = "idle"
  BY <1>3 DEF CallOK, Idle, VerbsAt
<1>5. ControlOK
  BY <1>3, <1>4, StepsAssumption DEF Init, ControlOK
<1>6. QED
  BY <1>2, <1>5 DEF TInv

LEMMA Typed == Spec => []TInv
BY TypedInit, TypedStep, PTL DEF Spec

\* The store and the callers stay well typed, however the verbs interleave,
\* fail and die: the overlay is a tree at every host operation, and the
\* whiteout lock is held exactly by a caller that is storing the journal.
THEOREM TypeCorrect == Spec => []TypeOK
BY TInvTypes, Typed, PTL

-----------------------------------------------------------------------------
(* The record of deletions *)

\* While the host never refuses: the journal holds every deletion that was
\* acknowledged, and it lags behind the whiteouts by at most the path that
\* the holder of the lock is storing.
JournalOK ==
  /\ deleted \subseteq journal
  /\ \A p \in whiteouts \ journal :
       /\ ~LockFree
       /\ \A t \in Thread : lock = t => p = call[t].path
  /\ \A t \in Thread : call[t].pc \in {"store", "rename"} => call[t].path \in whiteouts

RInv ==
  /\ journal \subseteq whiteouts
  /\ ~HostFails => JournalOK

LEMMA MovesWithin ==
  ASSUME TInv, NEW t \in Thread, NEW pc, NEW k, Moves(t, pc, k)
  PROVE  /\ call'[t].path = call[t].path /\ call'[t].verb = call[t].verb
         /\ call'[t].off = call[t].off
         /\ call'[t].pc = pc /\ call'[t].copied = k
         /\ \A u \in Thread : u # t => call'[u] = call[u]
<1>1. call[t] \in CallType
  BY DEF TInv, ControlOK
<1>2. QED
  BY <1>1 DEF TInv, ControlOK, Moves, CallType

\* The record and the lock rest.
RecordRests == UNCHANGED <<base, whiteouts, journal, deleted, lock>>

Stays(t) == \E pc, k : Moves(t, pc, k)

Leaves(t) == Ends(t) /\ lock # t

\* A step but those on the record leaves it alone, and its caller either
\* stays on its path or returns.
LEMMA StepShape ==
  ASSUME TInv, NEW t \in Thread, Step(t), ~Mark(t), ~Rename(t)
  PROVE  RecordRests /\ (Stays(t) \/ Leaves(t))
<1>1. call[t].pc \notin {"store", "rename"} => lock # t
  BY DEF TInv, ControlOK
<1>2. call[t].pc \notin {"store", "rename"} /\ GivesUp(t) => RecordRests /\ Leaves(t)
  BY <1>1 DEF GivesUp, RecordRests, Leaves
<1>3. /\ \A pc, k : Moves(t, pc, k) => Stays(t)
      /\ \A pc, k : Advances(t, pc, k) => RecordRests /\ Stays(t)
  BY DEF Advances, Keep, RecordRests, Stays
<1>4. \A n : Puts(t, n) => RecordRests
  BY DEF Puts, RecordRests
<1>5. Drops(t) => RecordRests
  BY DEF Drops, RecordRests
<1>6. CASE Denied(t) \/ EnterPWrite(t) \/ EnterTruncate(t) \/ EnterMkdir(t) \/ EnterRemove(t)
  <2>1. call[t].pc = "gate"
    BY <1>6 DEF Denied, EnterPWrite, EnterTruncate, EnterMkdir, EnterRemove, EnterVerb, At
  <2>2. QED
    BY <1>2, <1>3, <1>6, <2>1, GateEffect
<1>7. CASE Contains(t) \/ Probe(t) \/ Parents(t)
  <2>1. call[t].pc \in {"contains", "probe", "parents", "freshparents"}
    BY <1>7 DEF Contains, Probe, Parents, At
  <2>2. QED
    BY <1>2, <1>3, <1>7, <2>1, LookupEffect
<1>8. CASE Make(t)
  BY <1>2, <1>3, <1>4, <1>8, MakeEffect DEF Make, At
<1>9. CASE Create(t)
  BY <1>2, <1>3, <1>4, <1>9, CreateEffect DEF Create, At
<1>10. CASE Copy(t)
  <2>1. Keep => RecordRests
    BY DEF Keep, RecordRests
  <2>2. QED
    BY <1>2, <1>3, <1>4, <1>10, <2>1, CopyEffect DEF Copy, At
<1>11. CASE LandPWrite(t)
  BY <1>1, <1>2, <1>4, <1>11, LandPWriteEffect DEF LandPWrite, At, Leaves
<1>12. CASE LandTruncate(t)
  BY <1>1, <1>2, <1>4, <1>12, LandTruncateEffect DEF LandTruncate, At, Leaves
<1>13. CASE MakeDir(t)
  BY <1>1, <1>2, <1>4, <1>13, MakeDirEffect DEF MakeDir, At, Leaves
<1>14. CASE Unlink(t)
  BY <1>1, <1>2, <1>3, <1>5, <1>14, UnlinkEffect DEF Unlink, At, Leaves
<1>15. CASE Store(t)
  <2>1. Goto(t, "rename") /\ RecordRests
    BY <1>15 DEF Store, RecordRests
  <2>2. QED
    BY <1>3, <2>1, GotoMoves DEF TInv
<1>16. QED
  BY <1>6, <1>7, <1>8, <1>9, <1>10, <1>11, <1>12, <1>13, <1>14, <1>15 DEF Step

\* What leaves the record, the lock and the path of its holder alone keeps
\* the record.
LEMMA RecordQuiet ==
  ASSUME TInv, TInv', RInv, UNCHANGED <<whiteouts, journal, deleted, lock>>,
         \A u \in Thread : lock = u => call'[u].path = call[u].path
  PROVE  RInv'
<1>1. \A u \in Thread : call'[u].pc \in {"store", "rename"} =>
        call'[u].path = call[u].path /\ call[u].pc \in {"store", "rename"}
  BY DEF TInv, ControlOK
<1>2. ~HostFails => JournalOK'
  BY <1>1 DEF RInv, JournalOK, LockFree
<1>3. QED
  BY <1>2 DEF RInv

LEMMA RecordStep == TInv /\ TInv' /\ RInv /\ [Next]_vars => RInv'
<1> SUFFICES ASSUME TInv, TInv', RInv, [Next]_vars PROVE RInv'
  OBVIOUS
<1>1. ASSUME NEW t \in Thread, Call(t) PROVE RInv'
  <2>1. PICK c :
         /\ call[t].pc = "idle"
         /\ call' = [call EXCEPT ![t] = c]
         /\ UNCHANGED <<base, overlay, whiteouts, journal, lock, deleted>>
    BY <1>1, BeginEffect
  <2>2. lock # t
    BY <2>1 DEF TInv, ControlOK
  <2>3. \A u \in Thread : lock = u => call'[u].path = call[u].path
    BY <2>1, <2>2 DEF TInv, ControlOK
  <2>4. QED
    BY <2>1, <2>3, RecordQuiet
<1>2. ASSUME NEW t \in Thread, Step(t), ~Mark(t), ~Rename(t) PROVE RInv'
  <2>1. /\ UNCHANGED <<base, whiteouts, journal, deleted, lock>>
        /\ (\E pc, k : Moves(t, pc, k)) \/ (Ends(t) /\ lock # t)
    BY <1>2, StepShape DEF RecordRests, Stays, Leaves
  <2>2. \A u \in Thread : lock = u => call'[u].path = call[u].path
    BY <2>1, MovesWithin, Ended DEF TInv
  <2>3. QED
    BY <2>1, <2>2, RecordQuiet
<1>3. ASSUME NEW t \in Thread, Mark(t) PROVE RInv'
  <2> DEFINE p == call[t].path
  <2>1. LockFree /\ journal' = journal
    BY <1>3 DEF Mark
  <2>2. ~HostFails => whiteouts = journal
    BY <2>1 DEF RInv, JournalOK
  <2>3. CASE p \in whiteouts
    <3>1. UNCHANGED <<whiteouts, lock>> /\ Ends(t) /\ deleted' = deleted \cup {p}
      BY <1>3, <2>3 DEF Mark, Return, Ends
    <3>2. \A u \in Thread : lock # u
      BY <2>1, StepsAssumption DEF LockFree
    <3>3. \A u \in Thread : call'[u].pc \notin {"store", "rename"}
      BY <3>1, <3>2 DEF TInv, ControlOK
    <3>4. QED
      BY <2>1, <2>2, <2>3, <3>1, <3>3 DEF RInv, JournalOK, LockFree
  <2>4. CASE p \notin whiteouts
    <3>1. /\ whiteouts' = whiteouts \cup {p} /\ lock' = t
          /\ Goto(t, "store") /\ deleted' = deleted
      BY <1>3, <2>4 DEF Mark
    <3>2. call'[t].path = p
      BY <3>1, GotoMoves, MovesWithin DEF TInv
    <3>3. \A u \in Thread : call'[u].pc \in {"store", "rename"} => u = t
      BY <3>1 DEF TInv, ControlOK
    <3>4. lock' # NoThread
      BY <3>1, StepsAssumption
    <3>5. QED
      BY <2>1, <2>2, <3>1, <3>2, <3>3, <3>4 DEF RInv, JournalOK, LockFree
  <2>5. QED
    BY <2>3, <2>4
<1>4. ASSUME NEW t \in Thread, Rename(t) PROVE RInv'
  <2>1. /\ journal' = whiteouts /\ whiteouts' = whiteouts /\ lock' = NoThread
        /\ deleted' = deleted \cup {call[t].path} /\ call[t].pc = "rename"
    BY <1>4 DEF Rename, At
  <2>2. \A u \in Thread : call'[u].pc \notin {"store", "rename"}
    BY <2>1, StepsAssumption DEF TInv, ControlOK
  <2>3. QED
    BY <2>1, <2>2 DEF RInv, JournalOK
<1>5. ASSUME NEW t \in Thread, HostRefuses(t) PROVE RInv'
  BY <1>5 DEF HostRefuses, RInv
<1>6. CASE Crash
  <2>1. /\ whiteouts' = journal /\ UNCHANGED <<journal, deleted>>
        /\ call' = [t \in Thread |-> Idle]
    BY <1>6 DEF Crash
  <2>2. \A t \in Thread : call'[t].pc \notin {"store", "rename"}
    BY <2>1 DEF Idle
  <2>3. QED
    BY <2>1, <2>2 DEF RInv, JournalOK
<1>7. CASE UNCHANGED vars
  BY <1>7, RecordQuiet DEF vars
<1>8. QED
  BY <1>1, <1>2, <1>3, <1>4, <1>5, <1>6, <1>7 DEF Next

LEMMA RecordInit == Init => RInv
BY DEF Init, RInv, JournalOK, Idle

LEMMA Recorded == Spec => []RInv
BY Typed, RecordInit, RecordStep, PTL DEF Spec

\* Unless the host refuses an operation, a deletion that was acknowledged is
\* in the whiteouts and in the journal, through every crash and every race.
\* (A retry after a refused store is acknowledged with nothing on disk:
\* steps_lost_whiteout.)
THEOREM DeletesSurvive ==
  ASSUME ~HostFails
  PROVE  Spec => []AckedDeletesSurvive
<1>1. RInv => AckedDeletesSurvive
  BY DEF RInv, JournalOK, AckedDeletesSurvive
<1>2. QED
  BY <1>1, Recorded, PTL

\* Unless the host refuses an operation, dying changes what is read at no
\* path but those that a verb in flight names, and those below them: the one
\* whiteout that is not in the journal yet is the path of the verb that is
\* storing it.
THEOREM CrashLosesOnlyInFlight ==
  ASSUME ~HostFails
  PROVE  Spec => CrashTouchesOnlyInFlight
<1> DEFINE A == Crash =>
                  \A p \in Path : (\A t \in Thread : call[t].path \notin Anc[p]) =>
                    View'[p] = View[p]
<1>1. ASSUME TInv, RInv, Crash, NEW p \in Path,
             \A t \in Thread : call[t].path \notin Anc[p]
      PROVE  View'[p] = View[p]
  <2>1. UNCHANGED <<base, overlay>> /\ whiteouts' = journal
    BY <1>1 DEF Crash
  <2>2. ASSUME NEW q \in Anc[p] PROVE q \in whiteouts <=> q \in journal
    <3>1. SUFFICES ASSUME q \in whiteouts \ journal PROVE FALSE
      BY <1>1 DEF RInv
    <3>2. lock \in Thread /\ q = call[lock].path
      BY <1>1, <3>1 DEF RInv, JournalOK, LockFree, TInv, ControlOK
    <3>3. QED
      BY <1>1, <3>2
  <2>3. Hidden(p)' <=> Hidden(p)
    BY <2>1, <2>2 DEF Hidden
  <2>4. OverlayStat(p)' = OverlayStat(p)
    BY <2>1 DEF OverlayStat, Present
  <2>5. QED
    BY <2>1, <2>3, <2>4 DEF View
<1>2. TInv /\ RInv => A
  BY <1>1
<1>3. TInv /\ RInv /\ [Next]_vars => [A]_vars
  BY <1>2
<1>4. QED
  BY <1>3, Typed, Recorded, PTL DEF Spec, CrashTouchesOnlyInFlight

-----------------------------------------------------------------------------
(* What is hidden has a record of its own                                  *)
(*                                                                         *)
(* This needs one of the host and the process to be kept from failing:     *)
(* after a refused store the whiteouts are ahead of the journal, and a     *)
(* crash brings the journal back.                                          *)

Dependable == ~(HostFails /\ Crashes)

\* The record that a crash cannot take away.
Lasting == IF Crashes THEN journal ELSE whiteouts

\* Every base path below p has its record.
RecordedBelow(p) ==
  \A q \in Path : p \in Anc[q] /\ q # p /\ Present(base, q) => q \in Lasting

\* A file over a base directory, and a verb that puts or removes one there.
ShadowedIsRecorded ==
  \A p \in Path :
    overlay[p].kind = "File" /\ base[p].kind = "Dir" => RecordedBelow(p)

InFlightRecorded(c) ==
  /\ \/ c.pc \in {"freshparents", "unlink", "mark", "store", "rename"}
     \/ c.pc = "make" /\ c.copied = 1
     \/ /\ c.pc = "land" /\ base[c.path].kind = "Dir"
        /\ overlay[c.path].kind # "Dir"
     => RecordedBelow(c.path)

HInv ==
  /\ HiddenIsRecorded
  /\ ShadowedIsRecorded
  /\ \A t \in Thread : InFlightRecorded(call[t])

LEMMA LastingRecord ==
  ASSUME TInv, RInv, Dependable
  PROVE  /\ Lasting \subseteq whiteouts
         /\ LockFree => Lasting = whiteouts
BY StepsAssumption DEF RInv, JournalOK, Dependable, Lasting

\* It never shrinks.
LEMMA RecordLasts ==
  ASSUME TInv, RInv, RInv', Dependable, [Next]_vars
  PROVE  Lasting \subseteq Lasting'
<1>1. ASSUME NEW t \in Thread, Call(t) PROVE UNCHANGED <<whiteouts, journal>>
  BY <1>1, BeginEffect
<1>2. ASSUME NEW t \in Thread, Step(t), ~Mark(t), ~Rename(t)
      PROVE  UNCHANGED <<whiteouts, journal>>
  BY <1>2, StepShape DEF RecordRests
<1>3. ASSUME NEW t \in Thread, Mark(t)
      PROVE  journal' = journal /\ whiteouts \subseteq whiteouts'
  BY <1>3 DEF Mark
<1>4. ASSUME NEW t \in Thread, Rename(t)
      PROVE  journal \subseteq journal' /\ whiteouts' = whiteouts
  BY <1>4 DEF Rename, RInv
<1>5. ASSUME NEW t \in Thread, HostRefuses(t) PROVE UNCHANGED <<whiteouts, journal>>
  BY <1>5 DEF HostRefuses
<1>6. CASE Crash
  BY <1>6 DEF Crash, Lasting
<1>7. CASE UNCHANGED vars
  BY <1>7 DEF vars, Lasting
<1>8. CASE journal \subseteq journal' /\ whiteouts \subseteq whiteouts'
  BY <1>8 DEF Lasting
<1>9. QED
  BY <1>1, <1>2, <1>3, <1>4, <1>5, <1>6, <1>7, <1>8 DEF Next

LEMMA BelowLasts ==
  ASSUME base' = base, Lasting \subseteq Lasting', NEW p, RecordedBelow(p)
  PROVE  RecordedBelow(p)'
BY DEF RecordedBelow, Present

\* The overlay changes safely: where it gets a file over a base directory and
\* where it loses a directory, what is below has its record.
SafeOverlay ==
  \A p \in Path :
    /\ overlay[p].kind = "Dir" /\ overlay'[p].kind # "Dir" => RecordedBelow(p)
    /\ (/\ overlay'[p].kind = "File" /\ overlay[p].kind # "File"
        /\ base[p].kind = "Dir") => RecordedBelow(p)

LEMMA SafeRest ==
  ASSUME TInv, HInv, base' = base, Lasting \subseteq Lasting', SafeOverlay
  PROVE  /\ ShadowedIsRecorded'
         /\ \A t \in Thread : call'[t] = call[t] => InFlightRecorded(call[t])'
<1>1. \A p \in Path : RecordedBelow(p) => RecordedBelow(p)'
  BY BelowLasts
<1>2. ShadowedIsRecorded'
  BY <1>1 DEF HInv, ShadowedIsRecorded, SafeOverlay
<1>3. ASSUME NEW t \in Thread, call'[t] = call[t], call[t].pc # "idle"
      PROVE  InFlightRecorded(call[t])'
  <2>1. call[t].path \in Path
    BY <1>3, Busy
  <2>2. InFlightRecorded(call[t])
    BY DEF HInv
  <2>3. QED
    BY <1>1, <1>3, <2>1, <2>2 DEF InFlightRecorded, SafeOverlay
<1>4. ASSUME NEW t \in Thread, call'[t] = call[t], call[t].pc = "idle"
      PROVE  InFlightRecorded(call[t])'
  BY <1>4 DEF InFlightRecorded
<1>5. QED
  BY <1>2, <1>3, <1>4

\* A whiteout with everything below it recorded hides nothing that has none.
LEMMA HiddenGrows ==
  ASSUME HInv, Lasting \subseteq whiteouts, NEW p \in Path, RecordedBelow(p),
         base' = base, journal' = journal, whiteouts' = whiteouts \cup {p}
  PROVE  HiddenIsRecorded'
<1>1. ASSUME NEW q \in Path, Present(base, q), Anc[q] \cap whiteouts' # {}
      PROVE  q \in whiteouts'
  BY <1>1 DEF HInv, HiddenIsRecorded, Hidden, RecordedBelow
<1>2. QED
  BY <1>1 DEF HInv, HiddenIsRecorded, Hidden, Present

\* What was found empty, or is no directory, has everything below it recorded.
LEMMA EmptyIsRecorded ==
  ASSUME TInv, RInv, HInv, Dependable, LockFree, NEW p \in Path,
         \/ StatMerged(p) \in {"File", "Link"}
         \/ StatMerged(p) = "Dir" /\ ReadDir(p) = {}
  PROVE  RecordedBelow(p)
<1> SUFFICES ASSUME NEW q \in Path, p \in Anc[q], q # p, Present(base, q)
             PROVE  q \in whiteouts
  BY LastingRecord DEF RecordedBelow
<1>1. base \in [Path -> Node] /\ IsTree(base)
  BY ImageTree DEF TInv
<1>2. base[p].kind = "Dir"
  BY <1>1 DEF IsTree
<1>3. p # Root
  BY PathAssumption
<1>4. overlay[p].kind \in {"None", "Dir", "File"}
  BY DEF TInv, StoreOK, Sound, Node
<1>5. CASE overlay[p].kind = "File"
  BY <1>2, <1>5, LastingRecord DEF HInv, ShadowedIsRecorded, RecordedBelow
<1>6. CASE overlay[p].kind # "File"
  <2>1. StatMerged(p) \notin {"File", "Link"}
    BY <1>2, <1>3, <1>4, <1>6 DEF StatMerged, OverlayStat, BaseStat, Present
  <2>2. ReadDir(p) = {}
    BY <2>1
  <2>3. PICK c \in Anc[q] : Parent[c] = p
    BY PathAssumption
  <2>4. c \in Path /\ Present(base, c) /\ Anc[c] \subseteq Anc[q]
    BY <1>1, <2>3, PathAssumption DEF IsTree, Present
  <2>5. Hidden(c)
    BY <2>2, <2>3, <2>4 DEF ReadDir, Children
  <2>6. Hidden(q)
    BY <2>4, <2>5 DEF Hidden
  <2>7. QED
    BY <2>6 DEF HInv, HiddenIsRecorded
<1>7. QED
  BY <1>5, <1>6

LEMMA MarkedIsRecorded ==
  ASSUME TInv, RInv, HInv, Dependable, LockFree, NEW p \in Path, p \in whiteouts
  PROVE  RecordedBelow(p)
<1> SUFFICES ASSUME NEW q \in Path, p \in Anc[q], q # p, Present(base, q)
             PROVE  q \in whiteouts
  BY LastingRecord DEF RecordedBelow
<1>1. QED
  BY DEF HInv, HiddenIsRecorded, Hidden

\* A step of t on a safe overlay that leaves the record alone.
LEMMA HRest ==
  ASSUME TInv, HInv, UNCHANGED <<base, whiteouts, journal>>, SafeOverlay,
         NEW t \in Thread, \A u \in Thread : u # t => call'[u] = call[u],
         InFlightRecorded(call[t])'
  PROVE  HInv'
<1>1. Lasting \subseteq Lasting'
  BY DEF Lasting
<1>2. HiddenIsRecorded'
  BY DEF HInv, HiddenIsRecorded, Hidden, Present
<1>3. QED
  BY <1>1, <1>2, SafeRest DEF HInv

LEMMA HGiveUp ==
  ASSUME TInv, HInv, NEW t \in Thread, GivesUp(t)
  PROVE  HInv'
<1>1. SafeOverlay
  BY DEF GivesUp, SafeOverlay
<1>2. \A u \in Thread : u # t => call'[u] = call[u]
  BY Ended DEF GivesUp, TInv
<1>3. InFlightRecorded(call[t])'
  BY Ended DEF GivesUp, TInv, InFlightRecorded
<1>4. QED
  BY <1>1, <1>2, <1>3, HRest DEF GivesUp

LEMMA HAdvance ==
  ASSUME TInv, HInv, NEW t \in Thread, NEW pc, NEW k, Advances(t, pc, k),
         \/ pc \in {"freshparents", "unlink", "mark", "store", "rename"}
         \/ pc = "make" /\ k = 1
         \/ /\ pc = "land" /\ base[call[t].path].kind = "Dir"
            /\ overlay[call[t].path].kind # "Dir"
         => RecordedBelow(call[t].path)
  PROVE  HInv'
<1>1. UNCHANGED <<base, overlay, whiteouts, journal>> /\ Moves(t, pc, k)
  BY DEF Advances, Keep
<1>2. SafeOverlay
  BY <1>1 DEF SafeOverlay
<1>3. /\ call'[t].path = call[t].path /\ call'[t].pc = pc /\ call'[t].copied = k
      /\ \A u \in Thread : u # t => call'[u] = call[u]
  BY <1>1, MovesWithin
<1>4. RecordedBelow(call[t].path) => RecordedBelow(call[t].path)'
  BY <1>1, <1>3 DEF RecordedBelow, Lasting, Present
<1>5. InFlightRecorded(call[t])'
  BY <1>1, <1>3, <1>4 DEF InFlightRecorded
<1>6. QED
  BY <1>1, <1>2, <1>3, <1>5, HRest

LEMMA HPut ==
  ASSUME TInv, HInv, NEW t \in Thread, call[t].pc # "idle", NEW n, Puts(t, n),
         LET p == call[t].path IN
         /\ n.kind = "File" /\ overlay[p].kind # "File" /\ base[p].kind = "Dir"
              => RecordedBelow(p)
         /\ \/ Ends(t)
            \/ \E pc, k : /\ pc \in {"land", "create", "copy", "makedir"}
                          /\ Moves(t, pc, k)
                          /\ pc = "land" /\ base[p].kind = "Dir" /\ n.kind # "Dir"
                               => RecordedBelow(p)
  PROVE  HInv'
<1> DEFINE p == call[t].path
<1>1. UNCHANGED <<base, whiteouts, journal>> /\ (n.kind = "Dir" \/ overlay[p].kind # "Dir")
  BY DEF Puts
<1>2. /\ overlay'[p] = n
      /\ \A q \in Path : q # p =>
           overlay'[q] = IF q \in Anc[p] /\ ~Present(overlay, q)
                         THEN Directory ELSE overlay[q]
  BY PutAt
<1>3. SafeOverlay
  BY <1>1, <1>2 DEF SafeOverlay, Directory
<1>4. CASE Ends(t)
  <2>1. \A u \in Thread : u # t => call'[u] = call[u]
    BY <1>4, Ended DEF TInv
  <2>2. InFlightRecorded(call[t])'
    BY <1>4, Ended DEF TInv, InFlightRecorded
  <2>3. QED
    BY <1>1, <1>3, <2>1, <2>2, HRest
<1>5. CASE \E pc, k : /\ pc \in {"land", "create", "copy", "makedir"}
                      /\ Moves(t, pc, k)
                      /\ pc = "land" /\ base[p].kind = "Dir" /\ n.kind # "Dir"
                           => RecordedBelow(p)
  <2>1. PICK pc, k : /\ pc \in {"land", "create", "copy", "makedir"}
                     /\ Moves(t, pc, k)
                     /\ pc = "land" /\ base[p].kind = "Dir" /\ n.kind # "Dir"
                          => RecordedBelow(p)
    BY <1>5
  <2>2. /\ call'[t].path = p /\ call'[t].pc = pc
        /\ \A u \in Thread : u # t => call'[u] = call[u]
    BY <2>1, MovesWithin
  <2>3. RecordedBelow(p) => RecordedBelow(call[t].path)'
    BY <1>1, <2>2 DEF RecordedBelow, Lasting, Present
  <2>4. InFlightRecorded(call[t])'
    BY <1>1, <1>2, <2>1, <2>2, <2>3 DEF InFlightRecorded
  <2>5. QED
    BY <1>1, <1>3, <2>2, <2>4, HRest
<1>6. QED
  BY <1>4, <1>5

LEMMA HEnter ==
  ASSUME TInv, RInv, HInv, Dependable, NEW t \in Thread,
         \/ Denied(t) \/ EnterPWrite(t) \/ EnterTruncate(t) \/ EnterMkdir(t)
         \/ EnterRemove(t) \/ Contains(t) \/ Probe(t) \/ Parents(t)
  PROVE  HInv'
<1> DEFINE p == call[t].path
<1>1. CASE GivesUp(t)
  BY <1>1, HGiveUp
<1>2. ASSUME NEW pc \in {"contains", "probe", "parents"}, NEW k, Advances(t, pc, k)
      PROVE  HInv'
  BY <1>2, HAdvance
<1>3. CASE Denied(t) \/ EnterPWrite(t) \/ EnterTruncate(t) \/ EnterMkdir(t)
  BY <1>1, <1>2, <1>3, GateEffect
<1>4. CASE EnterRemove(t) /\ ~GivesUp(t)
  <2>1. /\ call[t].pc = "gate" /\ LockFree
        /\ \/ StatMerged(p) \in {"File", "Link"}
           \/ StatMerged(p) = "Dir" /\ ReadDir(p) = {}
        /\ Advances(t, "unlink", call[t].copied)
    BY <1>4, GateEffect
  <2>2. RecordedBelow(p)
    BY <2>1, Busy, EmptyIsRecorded
  <2>3. QED
    BY <2>1, <2>2, HAdvance
<1>5. CASE Contains(t)
  <2>1. /\ call[t].pc = "contains" /\ LockFree
        /\ Advances(t, IF p \in whiteouts THEN "freshparents" ELSE "probe", call[t].copied)
    BY <1>5, LookupEffect
  <2>2. p \in whiteouts => RecordedBelow(p)
    BY <2>1, Busy, MarkedIsRecorded
  <2>3. CASE p \in whiteouts
    <3>1. Advances(t, "freshparents", call[t].copied)
      BY <2>1, <2>3
    <3>2. QED
      BY <2>2, <2>3, <3>1, HAdvance
  <2>4. CASE p \notin whiteouts
    <3>1. Advances(t, "probe", call[t].copied)
      BY <2>1, <2>4
    <3>2. QED
      BY <1>2, <3>1
  <2>5. QED
    BY <2>3, <2>4
<1>6. CASE Probe(t)
  <2>1. /\ call[t].pc = "probe"
        /\ Advances(t, IF Present(overlay, p) THEN "land" ELSE "parents", call[t].copied)
    BY <1>6, LookupEffect
  <2>2. CASE Present(overlay, p)
    <3>1. Advances(t, "land", call[t].copied)
      BY <2>1, <2>2
    <3>2. base[p].kind = "Dir" /\ overlay[p].kind # "Dir" => RecordedBelow(p)
      BY <2>1, <2>2, Busy DEF Present, HInv, ShadowedIsRecorded
    <3>3. QED
      BY <3>1, <3>2, HAdvance
  <2>3. CASE ~Present(overlay, p)
    <3>1. Advances(t, "parents", call[t].copied)
      BY <2>1, <2>3
    <3>2. QED
      BY <1>2, <3>1
  <2>4. QED
    BY <2>2, <2>3
<1>7. CASE Parents(t) /\ ~GivesUp(t)
  <2> DEFINE k == IF call[t].pc = "freshparents" THEN 1 ELSE 0
  <2>1. Advances(t, "make", k)
    BY <1>7, LookupEffect
  <2>2. k = 1 => RecordedBelow(p)
    BY DEF HInv, InFlightRecorded
  <2> HIDE DEF k
  <2>3. QED
    BY <2>1, <2>2, HAdvance
<1>8. QED
  BY <1>1, <1>3, <1>4, <1>5, <1>6, <1>7

LEMMA HMaterialize ==
  ASSUME TInv, HInv, NEW t \in Thread, Make(t) \/ Create(t) \/ Copy(t)
  PROVE  HInv'
<1> DEFINE p == call[t].path
<1>1. CASE GivesUp(t)
  BY <1>1, HGiveUp
<1>2. CASE Make(t) /\ ~GivesUp(t)
  <2>1. call[t].pc = "make"
    BY <1>2 DEF Make, At
  <2>2. /\ Puts(t, overlay[p]) /\ Moves(t, AfterMake(t), 0)
    BY <1>2, MakeEffect
  <2>3. p \in Path /\ base[p] \in Node
    BY <2>1, Busy
  <2>4. AfterMake(t) = "land" /\ base[p].kind = "Dir" => RecordedBelow(p)
    BY <2>1 DEF AfterMake, BaseStat, Present, HInv, InFlightRecorded
  <2>5. AfterMake(t) \in {"land", "create", "copy", "makedir"}
    BY DEF AfterMake
  <2>6. QED
    BY <2>1, <2>2, <2>4, <2>5, HPut
<1>3. CASE Create(t) /\ ~GivesUp(t)
  <2>1. call[t].pc = "create"
    BY <1>3 DEF Create, At
  <2>2. ASSUME Puts(t, Directory), Moves(t, "land", call[t].copied) PROVE HInv'
    <3>1. Directory.kind = "Dir"
      BY DEF Directory
    <3>2. QED
      BY <2>1, <2>2, <3>1, HPut
  <2>3. ASSUME base[p].kind = "File", NEW c \in Content, Puts(t, File(c)),
               Moves(t, "copy", call[t].copied)
        PROVE  HInv'
    BY <2>1, <2>3, HPut
  <2>4. QED
    BY <1>3, <2>2, <2>3, CreateEffect
<1>4. CASE Copy(t) /\ ~GivesUp(t)
  <2>1. call[t].pc = "copy"
    BY <1>4 DEF Copy, At
  <2>2. base[p].kind = "File"
    BY <2>1, Busy DEF CallOK
  <2>3. ASSUME Keep, Moves(t, "land", call[t].copied) PROVE HInv'
    <3>1. Advances(t, "land", call[t].copied)
      BY <2>3 DEF Advances
    <3>2. QED
      BY <2>2, <3>1, HAdvance
  <2>4. ASSUME NEW c \in Content, Puts(t, File(c)), Moves(t, "copy", call[t].copied + 1)
        PROVE  HInv'
    BY <2>1, <2>2, <2>4, HPut
  <2>5. QED
    BY <1>4, <2>3, <2>4, CopyEffect
<1>5. QED
  BY <1>1, <1>2, <1>3, <1>4

LEMMA HLand ==
  ASSUME TInv, HInv, NEW t \in Thread, LandPWrite(t) \/ LandTruncate(t) \/ MakeDir(t)
  PROVE  HInv'
<1> DEFINE p == call[t].path
<1>1. CASE GivesUp(t)
  BY <1>1, HGiveUp
<1>2. CASE LandPWrite(t) /\ ~GivesUp(t)
  <2>1. call[t].pc = "land"
    BY <1>2 DEF LandPWrite, At
  <2>2. PICK c : Puts(t, File(c)) /\ Ends(t)
    BY <1>2, LandPWriteEffect
  <2>3. File(c).kind = "File" /\ overlay[p].kind # "Dir"
    BY <2>2 DEF Puts, File
  <2>4. base[p].kind = "Dir" => RecordedBelow(p)
    BY <2>1, <2>3 DEF HInv, InFlightRecorded
  <2>5. QED
    BY <2>1, <2>2, <2>3, <2>4, HPut
<1>3. CASE LandTruncate(t) /\ ~GivesUp(t)
  <2>1. call[t].pc = "land"
    BY <1>3 DEF LandTruncate, At
  <2>2. PICK n : Puts(t, n) /\ Ends(t) /\ overlay[p].kind = "File"
    BY <1>3, LandTruncateEffect
  <2>3. QED
    BY <2>1, <2>2, HPut
<1>4. CASE MakeDir(t) /\ ~GivesUp(t)
  <2>1. call[t].pc = "makedir"
    BY <1>4 DEF MakeDir, At
  <2>2. Puts(t, Directory) /\ Ends(t) /\ Directory.kind = "Dir"
    BY <1>4, MakeDirEffect DEF Directory
  <2>3. QED
    BY <2>1, <2>2, HPut
<1>5. QED
  BY <1>1, <1>2, <1>3, <1>4

LEMMA HRemoval ==
  ASSUME TInv, RInv, RInv', HInv, Dependable, NEW t \in Thread,
         Lasting \subseteq Lasting',
         Unlink(t) \/ Mark(t) \/ Store(t) \/ Rename(t)
  PROVE  HInv'
<1> DEFINE p == call[t].path
<1>1. call[t].pc \in {"unlink", "mark", "store", "rename"}
  BY DEF Unlink, Mark, Store, Rename, At
<1>2. RecordedBelow(p) /\ p \in Path
  BY <1>1, Busy DEF HInv, InFlightRecorded
<1>3. CASE GivesUp(t)
  BY <1>3, HGiveUp
<1>4. CASE Unlink(t) /\ ~GivesUp(t)
  <2>1. Drops(t) /\ (Ends(t) \/ Moves(t, "mark", call[t].copied))
    BY <1>4, UnlinkEffect
  <2>2. /\ UNCHANGED <<base, whiteouts, journal>>
        /\ overlay'[p] = Absent
        /\ \A q \in Path : q # p => overlay'[q] = overlay[q]
    BY <1>1, <2>1, DropAt DEF Drops
  <2>3. SafeOverlay
    BY <1>2, <2>2 DEF SafeOverlay, Absent
  <2>4. \A u \in Thread : u # t => call'[u] = call[u]
    BY <2>1, Ended, MovesWithin DEF TInv
  <2>5. InFlightRecorded(call[t])'
    <3>1. CASE Ends(t)
      BY <3>1, Ended DEF TInv, InFlightRecorded
    <3>2. CASE Moves(t, "mark", call[t].copied)
      <4>1. call'[t].path = p
        BY <3>2, MovesWithin
      <4>2. RecordedBelow(call[t].path)'
        BY <1>2, <2>2, <4>1 DEF RecordedBelow, Lasting, Present
      <4>3. QED
        BY <4>2 DEF InFlightRecorded
    <3>3. QED
      BY <2>1, <3>1, <3>2
  <2>6. QED
    BY <2>2, <2>3, <2>4, <2>5, HRest
<1>5. CASE Store(t)
  <2>1. Advances(t, "rename", call[t].copied)
    BY <1>5, GotoMoves DEF Store, Advances, Keep, TInv
  <2>2. QED
    BY <1>2, <2>1, HAdvance
<1>6. CASE Mark(t) \/ Rename(t)
  <2>1. UNCHANGED <<base, overlay>> /\ SafeOverlay
    BY <1>6 DEF Mark, Rename, SafeOverlay
  <2>2. (\E pc, k : Moves(t, pc, k)) \/ Ends(t)
    BY <1>6, GotoMoves DEF Mark, Rename, Return, Ends, TInv
  <2>3. \A u \in Thread : u # t => call'[u] = call[u]
    BY <2>2, MovesWithin, Ended DEF TInv
  <2>4. InFlightRecorded(call[t])'
    <3>1. CASE Ends(t)
      BY <3>1, Ended DEF TInv, InFlightRecorded
    <3>2. CASE \E pc, k : Moves(t, pc, k)
      <4>1. call'[t].path = p
        BY <3>2, MovesWithin
      <4>2. RecordedBelow(call[t].path)'
        BY <1>2, <2>1, <4>1, BelowLasts
      <4>3. QED
        BY <4>2 DEF InFlightRecorded
    <3>3. QED
      BY <2>2, <3>1, <3>2
  <2>5. HiddenIsRecorded'
    <3>1. Lasting \subseteq whiteouts
      BY LastingRecord
    <3>2. CASE Mark(t) /\ p \notin whiteouts
      <4>1. journal' = journal /\ whiteouts' = whiteouts \cup {p}
        BY <3>2 DEF Mark
      <4>2. QED
        BY <1>2, <2>1, <3>1, <4>1, HiddenGrows
    <3>3. CASE Mark(t) /\ p \in whiteouts
      <4>1. UNCHANGED <<journal, whiteouts>>
        BY <3>3 DEF Mark
      <4>2. QED
        BY <2>1, <4>1 DEF HInv, HiddenIsRecorded, Hidden, Present
    <3>4. CASE Rename(t)
      <4>1. journal' = whiteouts /\ whiteouts' = whiteouts
        BY <3>4 DEF Rename
      <4>2. QED
        BY <2>1, <4>1 DEF HInv, HiddenIsRecorded, Hidden, Present
    <3>5. QED
      BY <1>6, <3>2, <3>3, <3>4
  <2>6. QED
    BY <2>1, <2>3, <2>4, <2>5, SafeRest DEF HInv
<1>7. QED
  BY <1>3, <1>4, <1>5, <1>6

LEMMA HStep ==
  ASSUME Dependable
  PROVE  TInv /\ RInv /\ RInv' /\ HInv /\ [Next]_vars => HInv'
<1> SUFFICES ASSUME TInv, RInv, RInv', HInv, [Next]_vars PROVE HInv'
  OBVIOUS
<1>0. Lasting \subseteq Lasting'
  BY RecordLasts
<1>1. ASSUME NEW t \in Thread, Call(t) PROVE HInv'
  <2>1. PICK c :
         /\ c.pc = "gate" /\ call' = [call EXCEPT ![t] = c]
         /\ UNCHANGED <<base, overlay, whiteouts, journal>>
    BY <1>1, BeginEffect
  <2>2. call'[t] = c /\ \A u \in Thread : u # t => call'[u] = call[u]
    BY <2>1 DEF TInv, ControlOK
  <2>3. InFlightRecorded(call[t])'
    BY <2>1, <2>2 DEF InFlightRecorded
  <2>4. SafeOverlay
    BY <2>1 DEF SafeOverlay
  <2>5. QED
    BY <2>1, <2>2, <2>3, <2>4, HRest
<1>2. ASSUME NEW t \in Thread, Step(t) PROVE HInv'
  BY <1>0, <1>2, HEnter, HMaterialize, HLand, HRemoval DEF Step
<1>3. ASSUME NEW t \in Thread, HostRefuses(t) PROVE HInv'
  BY <1>3, HostRefusal, HGiveUp
<1>4. CASE Crash
  <2>1. /\ UNCHANGED <<base, overlay, journal>> /\ whiteouts' = journal
        /\ call' = [t \in Thread |-> Idle]
    BY <1>4 DEF Crash
  <2>2. SafeOverlay
    BY <2>1 DEF SafeOverlay
  <2>3. ShadowedIsRecorded'
    BY <1>0, <2>1, <2>2, SafeRest
  <2>4. HiddenIsRecorded'
    BY <2>1 DEF HInv, HiddenIsRecorded, Hidden, Present
  <2>5. \A t \in Thread : InFlightRecorded(call[t])'
    BY <2>1 DEF InFlightRecorded, Idle
  <2>6. QED
    BY <2>3, <2>4, <2>5 DEF HInv
<1>5. CASE UNCHANGED vars
  <2>1. SafeOverlay /\ UNCHANGED <<base, whiteouts, journal, call>>
    BY <1>5 DEF vars, SafeOverlay
  <2>2. HiddenIsRecorded'
    BY <2>1 DEF HInv, HiddenIsRecorded, Hidden, Present
  <2>3. QED
    BY <1>0, <2>1, <2>2, SafeRest DEF HInv
<1>6. QED
  BY <1>1, <1>2, <1>3, <1>4, <1>5 DEF Next

LEMMA HInit == Init => HInv
BY DEF Init, HInv, HiddenIsRecorded, Hidden, ShadowedIsRecorded,
       InFlightRecorded, Idle, Absent

LEMMA HiddenInvariant ==
  ASSUME Dependable
  PROVE  Spec => []HInv
<1>1. TInv /\ RInv /\ RInv' /\ HInv /\ [Next]_vars => HInv'
  BY HStep
<1>2. QED
  BY <1>1, HInit, Recorded, Typed, PTL DEF Spec

\* Unless the host refuses operations of a process that also dies, every
\* hidden base path has a whiteout of its own, in the process and in the
\* journal, however the verbs interleave: pwrite, which asks for the path
\* alone, and the readers, which ask for its ancestors, always agree.
THEOREM HiddenRecorded ==
  ASSUME Dependable
  PROVE  Spec => []HiddenIsRecorded
<1>1. HInv => HiddenIsRecorded
  BY DEF HInv
<1>2. QED
  BY <1>1, HiddenInvariant, PTL

-----------------------------------------------------------------------------
(* What was written stays                                                  *)
(*                                                                         *)
(* Callers that keep each other off a path: no hypothesis on the host or   *)
(* the process.  What carries the promise through a copy-up is that        *)
(* nothing is promised at a path that is being copied.                     *)

\* The overlay entry at p has the block that w wrote.
Holds(p, w) ==
  /\ overlay[p].kind = "File"
  /\ w[1] < Len(overlay[p].data)
  /\ overlay[p].data[w[1] + 1] = w[2]

Apart ==
  \A t, u \in Thread : t # u =>
    \/ call[t].pc = "idle" \/ call[u].pc = "idle"
    \/ call[t].path # call[u].path

Unspoiled(c) ==
  /\ \/ c.pc \in {"create", "copy"}
     \/ c.pc = "parents" /\ c.verb # "mkdir"
     \/ c.pc = "make" /\ c.verb # "mkdir" /\ c.copied # 1
     \/ c.verb = "remove"
     => promised[c.path] = {}
  /\ c.verb = "truncate" => \A w \in promised[c.path] : w[1] < c.off
  /\ c.verb = "pwrite" => \A w \in promised[c.path] : w[1] # c.off

WInv ==
  /\ Apart
  /\ \A p \in Path : \A w \in promised[p] : Holds(p, w)
  /\ \A t \in Thread : Unspoiled(call[t])

LEMMA WriteAtKeeps ==
  ASSUME NEW c \in Content, NEW off \in Nat, NEW v \in Block
  PROVE  /\ off < Len(WriteAt(c, off, v)) /\ WriteAt(c, off, v)[off + 1] = v
         /\ \A i \in Nat : i < Len(c) /\ i # off =>
              i < Len(WriteAt(c, off, v)) /\ WriteAt(c, off, v)[i + 1] = c[i + 1]
<1> DEFINE m == IF off + 1 > Len(c) THEN off + 1 ELSE Len(c)
           u == WriteAt(c, off, v)
<1>1. m \in Nat /\ Len(c) \in Nat /\ m >= off + 1 /\ m >= Len(c)
  BY DEF Content
<1>2. u = [i \in 1 .. m |-> IF i = off + 1 THEN v ELSE IF i <= Len(c) THEN c[i] ELSE Zero]
  BY DEF WriteAt
<1> HIDE DEF m, u
<1>3. \A i \in 1 .. m : (IF i = off + 1 THEN v
                         ELSE IF i <= Len(c) THEN c[i] ELSE Zero) \in Block
  BY <1>1, BlockAssumption DEF Content
<1>4. u \in Seq(Block) /\ Len(u) = m
  BY <1>1, <1>2, <1>3
<1>5. \A i \in 1 .. m : u[i] = IF i = off + 1 THEN v
                               ELSE IF i <= Len(c) THEN c[i] ELSE Zero
  BY <1>2
<1>6. off < m /\ u[off + 1] = v
  BY <1>1, <1>5
<1>7. \A i \in Nat : i < Len(c) /\ i # off => i < m /\ u[i + 1] = c[i + 1]
  BY <1>1, <1>5
<1>8. QED
  BY <1>4, <1>6, <1>7 DEF u

LEMMA SetLenKeeps ==
  ASSUME NEW c \in Content, NEW n \in Nat
  PROVE  \A i \in Nat : i < Len(c) /\ i < n =>
           i < Len(SetLen(c, n)) /\ SetLen(c, n)[i + 1] = c[i + 1]
<1> DEFINE u == SetLen(c, n)
<1>1. u = [i \in 1 .. n |-> IF i <= Len(c) THEN c[i] ELSE Zero]
  BY DEF SetLen
<1> HIDE DEF u
<1>2. \A i \in 1 .. n : (IF i <= Len(c) THEN c[i] ELSE Zero) \in Block
  BY BlockAssumption DEF Content
<1>3. u \in Seq(Block) /\ Len(u) = n
  BY <1>1, <1>2
<1>4. Len(c) \in Nat
  BY DEF Content
<1>5. \A i \in Nat : i < Len(c) /\ i < n => u[i + 1] = c[i + 1]
  BY <1>1, <1>4
<1>6. QED
  BY <1>3, <1>5 DEF u

\* What is promised where the overlay has nothing, or a directory.
LEMMA NothingPromised ==
  ASSUME WInv, NEW p \in Path, overlay[p].kind # "File"
  PROVE  promised[p] = {}
BY DEF WInv, Holds

\* A step of t that disturbs no path but its own.
LEMMA WRest ==
  ASSUME TInv, WInv, NEW t \in Thread, NEW p \in Path, call[t].path = p,
         \A u \in Thread : u # t => call'[u] = call[u],
         call'[t].pc = "idle" \/ call'[t].path = p,
         \A q \in Path : q # p =>
           /\ overlay'[q] = overlay[q] \/ overlay[q].kind # "File"
           /\ promised'[q] \subseteq promised[q],
         \A w \in promised'[p] : Holds(p, w)',
         Unspoiled(call[t])'
  PROVE  WInv'
<1>1. call[t].pc # "idle"
  BY PathAssumption DEF TInv, ControlOK, CallOK
<1>2. Apart'
  BY <1>1 DEF WInv, Apart
<1>3. ASSUME NEW q \in Path, NEW w \in promised'[q]
      PROVE  Holds(q, w)'
  BY <1>3 DEF WInv, Holds
<1>4. ASSUME NEW u \in Thread, u # t, call[u].pc # "idle"
      PROVE  Unspoiled(call[u])'
  <2>1. call'[u] = call[u] /\ call[u].path \in Path /\ call[u].path # p
    BY <1>1, <1>4, Busy DEF WInv, Apart
  <2>2. promised'[call[u].path] \subseteq promised[call[u].path]
    BY <2>1
  <2>3. Unspoiled(call[u])
    BY DEF WInv
  <2>4. QED
    BY <2>1, <2>2, <2>3 DEF Unspoiled
<1>5. ASSUME NEW u \in Thread, u # t, call[u].pc = "idle"
      PROVE  Unspoiled(call[u])'
  <2>1. call'[u] = call[u] /\ call[u].verb = "none"
    BY <1>5 DEF TInv, ControlOK, CallOK, VerbsAt
  <2>2. QED
    BY <1>5, <2>1 DEF Unspoiled
<1>6. QED
  BY <1>2, <1>3, <1>4, <1>5 DEF WInv

LEMMA IdleUnspoiled ==
  ASSUME TInv, NEW t \in Thread, Ends(t)
  PROVE  Unspoiled(call[t])' /\ call'[t].pc = "idle"
BY Ended DEF TInv, Unspoiled

\* A step of t that changes neither the overlay nor a promise.
LEMMA WStill ==
  ASSUME TInv, WInv, NEW t \in Thread, call[t].pc # "idle",
         UNCHANGED <<overlay, promised>>,
         \/ Ends(t)
         \/ \E pc, k :
              /\ Moves(t, pc, k)
              /\ \/ pc \in {"create", "copy"}
                 \/ pc = "parents" /\ call[t].verb # "mkdir"
                 \/ pc = "make" /\ call[t].verb # "mkdir" /\ k # 1
                 => promised[call[t].path] = {}
  PROVE  WInv'
<1>1. PICK p \in Path : p = call[t].path
  BY Busy
<1>2. \A w \in promised'[p] : Holds(p, w)'
  BY <1>1 DEF WInv, Holds
<1>3. \A q \in Path : q # p =>
        /\ overlay'[q] = overlay[q] \/ overlay[q].kind # "File"
        /\ promised'[q] \subseteq promised[q]
  BY <1>1
<1>4. CASE Ends(t)
  <2>1. \A u \in Thread : u # t => call'[u] = call[u]
    BY <1>4, Ended DEF TInv
  <2>2. QED
    BY <1>1, <1>2, <1>3, <1>4, <2>1, IdleUnspoiled, WRest
<1>5. CASE \E pc, k :
             /\ Moves(t, pc, k)
             /\ \/ pc \in {"create", "copy"}
                \/ pc = "parents" /\ call[t].verb # "mkdir"
                \/ pc = "make" /\ call[t].verb # "mkdir" /\ k # 1
                => promised[call[t].path] = {}
  <2>1. PICK pc, k :
             /\ Moves(t, pc, k)
             /\ \/ pc \in {"create", "copy"}
                \/ pc = "parents" /\ call[t].verb # "mkdir"
                \/ pc = "make" /\ call[t].verb # "mkdir" /\ k # 1
                => promised[p] = {}
    BY <1>1, <1>5
  <2>2. /\ call'[t].path = p /\ call'[t].verb = call[t].verb
        /\ call'[t].off = call[t].off
        /\ call'[t].pc = pc /\ call'[t].copied = k
        /\ \A u \in Thread : u # t => call'[u] = call[u]
    BY <1>1, <2>1, MovesWithin
  <2>3. Unspoiled(call[t])
    BY DEF WInv
  <2>4. Unspoiled(call[t])'
    BY <1>1, <2>1, <2>2, <2>3 DEF Unspoiled
  <2>5. QED
    BY <1>1, <1>2, <1>3, <2>2, <2>4, WRest
<1>6. QED
  BY <1>4, <1>5

LEMMA WEnter ==
  ASSUME TInv, WInv, NEW t \in Thread,
         \/ Denied(t) \/ EnterPWrite(t) \/ EnterTruncate(t) \/ EnterMkdir(t)
         \/ EnterRemove(t) \/ Contains(t) \/ Probe(t) \/ Parents(t)
  PROVE  WInv'
<1> DEFINE p == call[t].path
<1>0. call[t].pc \in {"gate", "contains", "probe", "parents", "freshparents"}
  BY DEF Denied, EnterPWrite, EnterTruncate, EnterMkdir, EnterRemove,
         EnterVerb, Contains, Probe, Parents, At
<1>1. CASE GivesUp(t)
  BY <1>0, <1>1, WStill DEF GivesUp
<1>2. ASSUME NEW pc, NEW k, Advances(t, pc, k),
             \/ pc \in {"create", "copy"}
             \/ pc = "parents" /\ call[t].verb # "mkdir"
             \/ pc = "make" /\ call[t].verb # "mkdir" /\ k # 1
             => promised[p] = {}
      PROVE  WInv'
  BY <1>0, <1>2, WStill DEF Advances, Keep
<1>3. CASE Denied(t) \/ EnterPWrite(t) \/ EnterTruncate(t)
           \/ EnterMkdir(t) \/ EnterRemove(t)
  <2>1. \/ GivesUp(t)
        \/ \E k : \/ Advances(t, "contains", k) \/ Advances(t, "probe", k)
                  \/ Advances(t, "parents", k) /\ call[t].verb = "mkdir"
                  \/ Advances(t, "unlink", k)
    BY <1>3, GateEffect
  <2>2. QED
    BY <1>1, <1>2, <2>1
<1>4. CASE Contains(t)
  <2>1. \E k : Advances(t, "freshparents", k) \/ Advances(t, "probe", k)
    BY <1>4, LookupEffect
  <2>2. QED
    BY <1>2, <2>1
<1>5. CASE Probe(t)
  <2>1. \E k : \/ Advances(t, "land", k)
               \/ Advances(t, "parents", k) /\ ~Present(overlay, p)
    BY <1>5, LookupEffect
  <2>2. ~Present(overlay, p) => promised[p] = {}
    BY <1>0, Busy, NothingPromised DEF Present
  <2>3. QED
    BY <1>2, <2>1, <2>2
<1>6. CASE Parents(t) /\ ~GivesUp(t)
  <2> DEFINE k == IF call[t].pc = "freshparents" THEN 1 ELSE 0
  <2>1. call[t].pc \in {"parents", "freshparents"} /\ Advances(t, "make", k)
    BY <1>6, LookupEffect
  <2>2. k # 1 => call[t].pc = "parents"
    BY <2>1
  <2> HIDE DEF k
  <2>3. k # 1 /\ call[t].verb # "mkdir" => promised[p] = {}
    BY <2>2 DEF WInv, Unspoiled
  <2>4. QED
    BY <1>2, <2>1, <2>3
<1>7. QED
  BY <1>1, <1>3, <1>4, <1>5, <1>6

\* An entry put at the path of t.
LEMMA WPut ==
  ASSUME TInv, WInv, NEW t \in Thread, call[t].pc # "idle", NEW n, Puts(t, n),
         \A q \in Path : q # call[t].path => promised'[q] \subseteq promised[q],
         \A w \in promised'[call[t].path] :
           n.kind = "File" /\ w[1] < Len(n.data) /\ n.data[w[1] + 1] = w[2],
         \/ Ends(t)
         \/ /\ promised' = promised
            /\ \E pc, k :
                 /\ Moves(t, pc, k) /\ pc \notin {"parents", "make"}
                 /\ pc \in {"create", "copy"} => promised[call[t].path] = {}
  PROVE  WInv'
<1>1. PICK p \in Path : p = call[t].path
  BY Busy
<1>2. /\ overlay'[p] = n
      /\ \A q \in Path : q # p =>
           overlay'[q] = IF q \in Anc[p] /\ ~Present(overlay, q)
                         THEN Directory ELSE overlay[q]
  BY <1>1, PutAt
<1>3. \A w \in promised'[p] : Holds(p, w)'
  BY <1>1, <1>2 DEF Holds
<1>4. \A q \in Path : q # p =>
        /\ overlay'[q] = overlay[q] \/ overlay[q].kind # "File"
        /\ promised'[q] \subseteq promised[q]
  BY <1>1, <1>2 DEF Present
<1>5. CASE Ends(t)
  <2>1. \A u \in Thread : u # t => call'[u] = call[u]
    BY <1>5, Ended DEF TInv
  <2>2. QED
    BY <1>1, <1>3, <1>4, <1>5, <2>1, IdleUnspoiled, WRest
<1>6. CASE /\ promised' = promised
           /\ \E pc, k :
                /\ Moves(t, pc, k) /\ pc \notin {"parents", "make"}
                /\ pc \in {"create", "copy"} => promised[call[t].path] = {}
  <2>1. PICK pc, k :
           /\ Moves(t, pc, k) /\ pc \notin {"parents", "make"}
           /\ pc \in {"create", "copy"} => promised[p] = {}
    BY <1>1, <1>6
  <2>2. /\ call'[t].path = p /\ call'[t].verb = call[t].verb
        /\ call'[t].off = call[t].off
        /\ call'[t].pc = pc /\ call'[t].copied = k
        /\ \A u \in Thread : u # t => call'[u] = call[u]
    BY <1>1, <2>1, MovesWithin
  <2>3. Unspoiled(call[t])
    BY DEF WInv
  <2>4. Unspoiled(call[t])'
    BY <1>1, <1>6, <2>1, <2>2, <2>3 DEF Unspoiled
  <2>5. QED
    BY <1>1, <1>3, <1>4, <2>2, <2>4, WRest
<1>7. QED
  BY <1>5, <1>6

LEMMA WMaterialize ==
  ASSUME TInv, WInv, NEW t \in Thread, Make(t) \/ Create(t) \/ Copy(t)
  PROVE  WInv'
<1> DEFINE p == call[t].path
<1>0. call[t].pc \in {"make", "create", "copy"}
  BY DEF Make, Create, Copy, At
<1>1. CASE GivesUp(t)
  BY <1>0, <1>1, WStill DEF GivesUp
<1>2. CASE Make(t) /\ ~GivesUp(t)
  <2>1. call[t].pc = "make" /\ p \in Path
    BY <1>0, <1>2, Busy DEF Make, At
  <2>2. /\ Puts(t, overlay[p]) /\ promised' = promised /\ Moves(t, AfterMake(t), 0)
    BY <1>2, MakeEffect
  <2>3. \A w \in promised'[p] :
          overlay[p].kind = "File" /\ w[1] < Len(overlay[p].data)
          /\ overlay[p].data[w[1] + 1] = w[2]
    BY <2>1, <2>2 DEF WInv, Holds
  <2>4. /\ AfterMake(t) \notin {"parents", "make"}
        /\ AfterMake(t) \in {"create", "copy"} => promised[p] = {}
    BY <2>1 DEF AfterMake, WInv, Unspoiled
  <2>5. \A q \in Path : q # p => promised'[q] \subseteq promised[q]
    BY <2>2
  <2>6. QED
    BY <2>1, <2>2, <2>3, <2>4, <2>5, WPut
<1>3. CASE (Create(t) \/ Copy(t)) /\ ~GivesUp(t)
  <2>1. call[t].pc \in {"create", "copy"}
    BY <1>3 DEF Create, Copy, At
  <2>2. promised[p] = {}
    BY <2>1 DEF WInv, Unspoiled
  <2>3. \/ Keep /\ Moves(t, "land", call[t].copied)
        \/ /\ promised' = promised
           /\ \E n, pc, k : pc \in {"land", "copy"} /\ Puts(t, n) /\ Moves(t, pc, k)
    <3> DEFINE Putting == \E n, pc, k : pc \in {"land", "copy"} /\ Puts(t, n) /\ Moves(t, pc, k)
    <3>1. ASSUME NEW n, NEW k, NEW pc \in {"land", "copy"}, Puts(t, n), Moves(t, pc, k)
          PROVE  Putting
      BY <3>1
    <3> HIDE DEF Putting
    <3>2. CASE Create(t)
      BY <1>3, <3>1, <3>2, CreateEffect
    <3>3. CASE Copy(t)
      BY <1>3, <3>1, <3>3, CopyEffect
    <3>4. QED
      BY <1>3, <3>2, <3>3 DEF Putting
  <2>4. ASSUME Keep, Moves(t, "land", call[t].copied) PROVE WInv'
    BY <2>1, <2>4, WStill DEF Keep
  <2>5. ASSUME promised' = promised, NEW n, NEW pc \in {"land", "copy"}, NEW k,
               Puts(t, n), Moves(t, pc, k)
        PROVE  WInv'
    <3>1. promised'[p] = {}
      BY <2>2, <2>5
    <3>2. \A q \in Path : q # p => promised'[q] \subseteq promised[q]
      BY <2>5
    <3>3. QED
      BY <2>1, <2>2, <2>5, <3>1, <3>2, WPut
  <2>6. QED
    BY <2>3, <2>4, <2>5
<1>4. QED
  BY <1>1, <1>2, <1>3

LEMMA WLand ==
  ASSUME TInv, WInv, NEW t \in Thread, LandPWrite(t) \/ LandTruncate(t) \/ MakeDir(t)
  PROVE  WInv'
<1> DEFINE p == call[t].path
           d == overlay[p].data
<1>0. call[t].pc \in {"land", "makedir"}
  BY DEF LandPWrite, LandTruncate, MakeDir, At
<1>1. p \in Path /\ d \in Content /\ call[t].off \in Nat /\ call[t].arg \in Block
  BY <1>0, Busy DEF CallType
<1>2. CASE GivesUp(t)
  BY <1>0, <1>2, WStill DEF GivesUp
<1>3. /\ promised \in [Path -> SUBSET (Offsets \X Writes)]
      /\ \A w \in promised[p] : w[1] \in Nat /\ w[1] < Len(d) /\ d[w[1] + 1] = w[2]
  <2>1. promised \in [Path -> SUBSET (Offsets \X Writes)]
    BY DEF TInv, StoreOK
  <2>2. ASSUME NEW w \in promised[p]
        PROVE  w[1] \in Nat /\ w[1] < Len(d) /\ d[w[1] + 1] = w[2]
    <3>1. Holds(p, w)
      BY <1>1 DEF WInv
    <3>2. w \in Offsets \X Writes
      BY <1>1, <2>1
    <3>3. w[1] \in Nat
      BY <3>2, StepsAssumption
    <3>4. QED
      BY <3>1, <3>3 DEF Holds
  <2>3. QED
    BY <2>1, <2>2
<1>4. CASE LandPWrite(t) /\ ~GivesUp(t)
  <2> DEFINE v == WriteAt(d, call[t].off, call[t].arg)
  <2>1. /\ Puts(t, File(v)) /\ Ends(t)
        /\ \/ promised' = promised
           \/ promised' = [promised EXCEPT ![p] = @ \cup {<<call[t].off, call[t].arg>>}]
    BY <1>4, LandPWriteEffect
  <2>2. /\ call[t].off < Len(v) /\ v[call[t].off + 1] = call[t].arg
        /\ \A i \in Nat : i < Len(d) /\ i # call[t].off =>
             i < Len(v) /\ v[i + 1] = d[i + 1]
    BY <1>1, WriteAtKeeps
  <2> HIDE DEF v
  <2>3. \A w \in promised[p] : w[1] # call[t].off
    <3>1. call[t].verb = "pwrite"
      BY <1>4 DEF LandPWrite
    <3>2. QED
      BY <3>1 DEF WInv, Unspoiled
  <2>4. \A w \in promised[p] : w[1] < Len(v) /\ v[w[1] + 1] = w[2]
    BY <1>3, <2>2, <2>3
  <2>5. \A w \in promised'[p] : w \in promised[p] \/ w = <<call[t].off, call[t].arg>>
    BY <1>1, <1>3, <2>1
  <2>6. \A q \in Path : q # p => promised'[q] \subseteq promised[q]
    BY <1>3, <2>1
  <2>7. File(v).kind = "File" /\ File(v).data = v
    BY DEF File
  <2>8. \A w \in promised'[p] :
          File(v).kind = "File" /\ w[1] < Len(File(v).data) /\ File(v).data[w[1] + 1] = w[2]
    BY <2>2, <2>4, <2>5, <2>7
  <2>9. QED
    BY <1>0, <2>1, <2>6, <2>8, WPut
<1>5. CASE LandTruncate(t) /\ ~GivesUp(t)
  <2> DEFINE v == SetLen(d, call[t].off)
  <2>1. /\ Puts(t, File(v)) /\ Ends(t) /\ promised' = promised
    BY <1>5, LandTruncateEffect
  <2>2. \A i \in Nat : i < Len(d) /\ i < call[t].off =>
          i < Len(v) /\ v[i + 1] = d[i + 1]
    BY <1>1, SetLenKeeps
  <2> HIDE DEF v
  <2>3. \A w \in promised[p] : w[1] < call[t].off
    <3>1. call[t].verb = "truncate"
      BY <1>5 DEF LandTruncate
    <3>2. QED
      BY <3>1 DEF WInv, Unspoiled
  <2>4. \A w \in promised[p] : w[1] < Len(v) /\ v[w[1] + 1] = w[2]
    BY <1>3, <2>2, <2>3
  <2>5. File(v).kind = "File" /\ File(v).data = v
    BY DEF File
  <2>6. \A w \in promised'[p] :
          File(v).kind = "File" /\ w[1] < Len(File(v).data) /\ File(v).data[w[1] + 1] = w[2]
    BY <2>1, <2>4, <2>5
  <2>7. \A q \in Path : q # p => promised'[q] \subseteq promised[q]
    BY <2>1
  <2>8. QED
    BY <1>0, <2>1, <2>6, <2>7, WPut
<1>6. CASE MakeDir(t) /\ ~GivesUp(t)
  <2>1. overlay[p].kind = "None" /\ promised' = promised /\ Puts(t, Directory) /\ Ends(t)
    BY <1>6, MakeDirEffect
  <2>2. promised'[p] = {}
    BY <1>1, <2>1, NothingPromised
  <2>3. \A q \in Path : q # p => promised'[q] \subseteq promised[q]
    BY <2>1
  <2>4. QED
    BY <1>0, <2>1, <2>2, <2>3, WPut
<1>7. QED
  BY <1>2, <1>4, <1>5, <1>6

LEMMA WRemoval ==
  ASSUME TInv, WInv, NEW t \in Thread, Unlink(t) \/ Mark(t) \/ Store(t) \/ Rename(t)
  PROVE  WInv'
<1> DEFINE p == call[t].path
<1>1. call[t].pc \in {"unlink", "mark", "store", "rename"}
  BY DEF Unlink, Mark, Store, Rename, At
<1>2. p \in Path
  BY <1>1, Busy
<1>3. CASE GivesUp(t)
  BY <1>1, <1>3, WStill DEF GivesUp
<1>4. CASE Unlink(t) /\ ~GivesUp(t)
  <2>1. Drops(t) /\ (Ends(t) \/ Moves(t, "mark", call[t].copied))
    BY <1>4, UnlinkEffect
  <2>2. promised' = promised /\ \A q \in Path : q # p => overlay'[q] = overlay[q]
    BY <1>1, <2>1, DropAt DEF Drops
  <2>3. call[t].verb = "remove"
    BY <1>1, VerbAtPoint DEF TInv
  <2>4. promised'[p] = {}
    BY <2>2, <2>3 DEF WInv, Unspoiled
  <2>5. \A u \in Thread : u # t => call'[u] = call[u]
    BY <2>1, Ended, MovesWithin DEF TInv
  <2>6. /\ Unspoiled(call[t])'
        /\ call'[t].pc = "idle" \/ call'[t].path = p
    <3>1. CASE Ends(t)
      BY <3>1, IdleUnspoiled
    <3>2. CASE Moves(t, "mark", call[t].copied)
      <4>1. call'[t].path = p /\ call'[t].verb = "remove"
        BY <2>3, <3>2, MovesWithin
      <4>2. QED
        BY <2>4, <4>1 DEF Unspoiled
    <3>3. QED
      BY <2>1, <3>1, <3>2
  <2>7. QED
    BY <1>2, <2>2, <2>4, <2>5, <2>6, WRest
<1>5. CASE Mark(t) \/ Store(t) \/ Rename(t)
  <2>1. UNCHANGED <<overlay, promised>>
    BY <1>5 DEF Mark, Store, Rename
  <2>2. \/ Ends(t)
        \/ Moves(t, "store", call[t].copied) \/ Moves(t, "rename", call[t].copied)
    BY <1>5, GotoMoves DEF Mark, Store, Rename, Return, Ends, TInv
  <2>3. QED
    BY <1>1, <2>1, <2>2, WStill
<1>6. QED
  BY <1>3, <1>4, <1>5

LEMMA WStep ==
  ASSUME Exclusive
  PROVE  TInv /\ WInv /\ [Next]_vars => WInv'
<1> SUFFICES ASSUME TInv, WInv, [Next]_vars PROVE WInv'
  OBVIOUS
<1>1. ASSUME NEW t \in Thread, Call(t) PROVE WInv'
  <2>1. PICK c :
         /\ CallOK(c) /\ c.pc = "gate" /\ c.path \in Path
         /\ Exclusive => \A u \in Thread \ {t} : call[u].path # c.path
         /\ call' = [call EXCEPT ![t] = c]
         /\ \A p \in Path : promised'[p] \subseteq promised[p]
         /\ c.verb = "remove" => promised'[c.path] = {}
         /\ c.verb = "truncate" => \A w \in promised'[c.path] : w[1] < c.off
         /\ c.verb = "pwrite" => \A w \in promised'[c.path] : w[1] # c.off
         /\ UNCHANGED <<base, overlay, whiteouts, journal, lock, deleted>>
    BY <1>1, BeginEffect
  <2>2. call'[t] = c /\ \A u \in Thread : u # t => call'[u] = call[u]
    BY <2>1 DEF TInv, ControlOK
  <2>3. Apart'
    BY <2>1, <2>2 DEF WInv, Apart
  <2>4. ASSUME NEW p \in Path, NEW w \in promised'[p] PROVE Holds(p, w)'
    BY <2>1, <2>4 DEF WInv, Holds
  <2>5. Unspoiled(call[t])'
    BY <2>1, <2>2 DEF Unspoiled
  <2>6. ASSUME NEW u \in Thread, u # t, call[u].pc # "idle"
        PROVE  Unspoiled(call[u])'
    <3>1. promised'[call[u].path] \subseteq promised[call[u].path]
      BY <2>1, <2>6, Busy
    <3>2. Unspoiled(call[u])
      BY DEF WInv
    <3>3. QED
      BY <2>2, <2>6, <3>1, <3>2 DEF Unspoiled
  <2>7. ASSUME NEW u \in Thread, u # t, call[u].pc = "idle"
        PROVE  Unspoiled(call[u])'
    <3>1. call'[u] = call[u] /\ call[u].verb = "none"
      BY <2>2, <2>7 DEF TInv, ControlOK, CallOK, VerbsAt
    <3>2. QED
      BY <2>7, <3>1 DEF Unspoiled
  <2>8. QED
    BY <2>3, <2>4, <2>5, <2>6, <2>7 DEF WInv
<1>2. ASSUME NEW t \in Thread, Step(t) PROVE WInv'
  BY <1>2, WEnter, WMaterialize, WLand, WRemoval DEF Step
<1>3. ASSUME NEW t \in Thread, HostRefuses(t) PROVE WInv'
  <2>1. call[t].pc # "idle" /\ GivesUp(t)
    BY <1>3, HostRefusal DEF HostRefuses
  <2>2. QED
    BY <2>1, WStill DEF GivesUp
<1>4. CASE Crash
  <2>1. UNCHANGED <<overlay, promised>> /\ call' = [t \in Thread |-> Idle]
    BY <1>4 DEF Crash
  <2>2. \A t \in Thread : Unspoiled(call[t])' /\ call'[t].pc = "idle"
    BY <2>1 DEF Unspoiled, Idle
  <2>3. QED
    BY <2>1, <2>2 DEF WInv, Apart, Holds
<1>5. CASE UNCHANGED vars
  BY <1>5 DEF vars, WInv, Apart, Holds, Unspoiled
<1>6. QED
  BY <1>1, <1>2, <1>3, <1>4, <1>5 DEF Next

LEMMA WInit == Init => WInv
BY DEF Init, WInv, Apart, Unspoiled, Idle

\* While callers keep each other off a path, a write that was acknowledged is
\* read back until its path is written there again, cut before it or removed:
\* no verb on another path, no copy-up, no refusal and no crash undoes it.
THEOREM WritesKept ==
  ASSUME Exclusive
  PROVE  Spec => []AckedWritesKept
<1>1. TInv /\ WInv => AckedWritesKept
  <2> SUFFICES ASSUME TInv, WInv, NEW p \in Path, NEW w \in promised[p]
               PROVE  /\ View[p].kind = "File"
                      /\ w[1] < Len(View[p].data)
                      /\ View[p].data[w[1] + 1] = w[2]
    BY DEF AckedWritesKept
  <2>1. Holds(p, w)
    BY DEF WInv
  <2>2. View[p] = overlay[p]
    BY <2>1 DEF Holds, View, OverlayStat, Present
  <2>3. QED
    BY <2>1, <2>2 DEF Holds
<1>2. TInv /\ WInv /\ [Next]_vars => WInv'
  BY WStep
<1>3. QED
  BY <1>1, <1>2, WInit, Typed, PTL DEF Spec

-----------------------------------------------------------------------------
(* What a step shows                                                       *)
(*                                                                         *)
(* Where a step of a verb may go and what it may do to the overlay, for    *)
(* the two properties that say which paths a reader sees change.           *)

Landing == {"make", "create", "copy", "land", "makedir"}

\* t goes on to pc only from where the gate was passed, and it comes to make
\* directories only where the parent was looked up, or the overlay has its path.
Proceeds(t, pc) ==
  LET c == call[t] IN
  /\ c.pc # "idle"
  /\ c.pc # "gate" \/ Permitted(c.path)
  /\ pc \in Landing /\ c.pc \notin Landing =>
       \/ LockFree /\ StatMerged(Parent[c.path]) \in {"Dir", "ENOENT"}
       \/ Present(overlay, c.path)
  /\ c.verb = "mkdir" /\ pc = "parents" => LockFree /\ StatMerged(c.path) = "ENOENT"
  /\ c.verb = "mkdir" /\ pc \in {"make", "makedir"} => c.pc \in {"parents", "make"}

GoesOn(t) == \E pc, k : Moves(t, pc, k) /\ Proceeds(t, pc)

LEMMA GoOn ==
  ASSUME NEW t, NEW pc, NEW k, Moves(t, pc, k), Proceeds(t, pc)
  PROVE  GoesOn(t)
BY DEF GoesOn

LEMMA StepControl ==
  ASSUME TInv, NEW t \in Thread, Step(t)
  PROVE  Ends(t) \/ GoesOn(t)
<1>1. /\ GivesUp(t) => Ends(t)
      /\ \A pc, k : Advances(t, pc, k) => Moves(t, pc, k)
  BY DEF GivesUp, Advances
<1>2. CASE Denied(t) \/ EnterPWrite(t) \/ EnterTruncate(t) \/ EnterMkdir(t) \/ EnterRemove(t)
  <2>1. ASSUME ~Ends(t)
        PROVE  \E pc \in {"contains", "probe", "parents", "unlink"} :
                 /\ call[t].pc = "gate" /\ Permitted(call[t].path)
                 /\ Moves(t, pc, call[t].copied)
                 /\ call[t].verb = "mkdir" /\ pc = "parents" =>
                      LockFree /\ StatMerged(call[t].path) = "ENOENT"
    BY <1>1, <1>2, <2>1, GateEffect
  <2>2. ASSUME NEW pc \in {"contains", "probe", "parents", "unlink"},
               call[t].pc = "gate", Permitted(call[t].path),
               call[t].verb = "mkdir" /\ pc = "parents" =>
                 LockFree /\ StatMerged(call[t].path) = "ENOENT"
        PROVE  Proceeds(t, pc)
    BY <2>2 DEF Proceeds, Landing
  <2>3. QED
    BY <2>1, <2>2, GoOn
<1>3. CASE Contains(t)
  <2>1. call[t].pc = "contains"
        /\ (Moves(t, "freshparents", call[t].copied) \/ Moves(t, "probe", call[t].copied))
    BY <1>1, <1>3, LookupEffect
  <2>2. Proceeds(t, "freshparents") /\ Proceeds(t, "probe")
    BY <2>1 DEF Proceeds, Landing
  <2>3. QED
    BY <2>1, <2>2, GoOn
<1>4. CASE Probe(t)
  <2>1. call[t].pc = "probe"
        /\ Moves(t, IF Present(overlay, call[t].path) THEN "land" ELSE "parents", call[t].copied)
    BY <1>1, <1>4, LookupEffect
  <2>2. call[t].verb # "mkdir"
    BY <2>1, VerbAtPoint DEF TInv
  <2>3. /\ Present(overlay, call[t].path) => Proceeds(t, "land")
        /\ Proceeds(t, "parents")
    BY <2>1, <2>2 DEF Proceeds, Landing
  <2>4. QED
    BY <2>1, <2>3, GoOn
<1>5. CASE Parents(t) /\ ~GivesUp(t)
  <2>1. /\ call[t].pc \in {"parents", "freshparents"} /\ LockFree
        /\ StatMerged(Parent[call[t].path]) \in {"Dir", "ENOENT"}
        /\ \E k : Moves(t, "make", k)
    BY <1>1, <1>5, LookupEffect
  <2>2. call[t].verb = "mkdir" => call[t].pc = "parents"
    BY <2>1, VerbAtPoint DEF TInv
  <2>3. Proceeds(t, "make")
    BY <2>1, <2>2 DEF Proceeds
  <2>4. QED
    BY <2>1, <2>3, GoOn
<1>6. CASE Make(t) \/ Create(t) \/ Copy(t)
  <2>1. call[t].pc \in {"make", "create", "copy"}
    BY <1>6 DEF Make, Create, Copy, At
  <2>2. \/ Ends(t)
        \/ \E pc, k : /\ Moves(t, pc, k)
                      /\ call[t].pc = "make" \/ pc \in {"land", "copy"}
                      /\ pc \in Landing
    <3>1. AfterMake(t) \in Landing
      BY DEF AfterMake, Landing
    <3>2. CASE Make(t)
      BY <1>1, <3>1, <3>2, MakeEffect DEF Make, At
    <3>3. CASE Create(t)
      BY <1>1, <3>3, CreateEffect DEF Landing
    <3>4. CASE Copy(t)
      BY <1>1, <3>4, CopyEffect DEF Landing
    <3>5. QED
      BY <1>6, <3>2, <3>3, <3>4
  <2>3. ASSUME NEW pc, call[t].pc = "make" \/ pc \in {"land", "copy"}, pc \in Landing
        PROVE  Proceeds(t, pc)
    BY <2>1, <2>3 DEF Proceeds, Landing
  <2>4. QED
    BY <2>2, <2>3, GoOn
<1>7. CASE LandPWrite(t) \/ LandTruncate(t) \/ MakeDir(t)
  BY <1>1, <1>7, LandPWriteEffect, LandTruncateEffect, MakeDirEffect
<1>8. CASE Unlink(t) \/ Mark(t) \/ Store(t) \/ Rename(t)
  <2>1. call[t].pc \in {"unlink", "mark", "store", "rename"}
    BY <1>8 DEF Unlink, Mark, Store, Rename, At
  <2>2. \/ Ends(t)
        \/ \E pc \in {"mark", "store", "rename"} : Moves(t, pc, call[t].copied)
    <3>1. CASE Unlink(t)
      BY <1>1, <3>1, UnlinkEffect
    <3>2. CASE Mark(t) \/ Store(t) \/ Rename(t)
      BY <3>2, GotoMoves DEF Mark, Store, Rename, Return, Ends, TInv
    <3>3. QED
      BY <1>8, <3>1, <3>2
  <2>3. \A pc \in {"mark", "store", "rename"} : Proceeds(t, pc)
    BY <2>1 DEF Proceeds, Landing
  <2>4. QED
    BY <2>2, <2>3, GoOn
<1>9. QED
  BY <1>1, <1>2, <1>3, <1>4, <1>5, <1>6, <1>7, <1>8 DEF Step

\* A file comes over a base directory only when a write lands, and a
\* directory only over a base directory or where a directory is made.
PutsKind(t, n) ==
  LET p == call[t].path IN
  /\ (n.kind = "File" /\ overlay[p].kind # "File" /\ base[p].kind = "Dir")
       => call[t].pc = "land"
  /\ n.kind = "Dir" /\ overlay[p].kind # "Dir"
       => base[p].kind = "Dir" \/ call[t].pc = "makedir"

LEMMA StepOverlay ==
  ASSUME TInv, NEW t \in Thread, Step(t)
  PROVE  /\ base' = base
         /\ \/ overlay' = overlay
            \/ /\ call[t].pc \in Landing
               /\ \E n : Puts(t, n) /\ PutsKind(t, n)
            \/ call[t].pc = "unlink" /\ Drops(t)
<1> DEFINE Still == base' = base /\ overlay' = overlay
           Putting == /\ call[t].pc \in Landing
                      /\ \E n : Puts(t, n) /\ PutsKind(t, n)
           Dropping == call[t].pc = "unlink" /\ Drops(t)
<1>1. /\ GivesUp(t) => Still
      /\ \A pc, k : Advances(t, pc, k) => Still
      /\ Keep => Still
  BY DEF GivesUp, Advances, Keep
<1>2. base' = base
  <2>1. Mark(t) \/ Rename(t) => base' = base
    BY DEF Mark, Rename
  <2>2. QED
    BY <2>1, StepShape DEF RecordRests
<1>3. CASE Denied(t) \/ EnterPWrite(t) \/ EnterTruncate(t) \/ EnterMkdir(t) \/ EnterRemove(t)
  BY <1>1, <1>3, GateEffect
<1>4. CASE Contains(t) \/ Probe(t) \/ Parents(t)
  BY <1>1, <1>4, LookupEffect
<1>5. CASE Make(t)
  <2>1. Puts(t, overlay[call[t].path]) \/ Still
    BY <1>1, <1>5, MakeEffect
  <2>2. PutsKind(t, overlay[call[t].path])
    BY DEF PutsKind
  <2>3. call[t].pc \in Landing
    BY <1>5 DEF Make, At, Landing
  <2>4. QED
    BY <1>2, <2>1, <2>2, <2>3
<1>6. CASE Create(t)
  <2>1. \/ Still
        \/ base[call[t].path].kind = "Dir" /\ Puts(t, Directory)
        \/ base[call[t].path].kind = "File" /\ \E c \in Content : Puts(t, File(c))
    BY <1>1, <1>6, CreateEffect
  <2>2. base[call[t].path].kind = "Dir" => PutsKind(t, Directory)
    BY DEF PutsKind, Directory
  <2>3. base[call[t].path].kind = "File" => \A c : PutsKind(t, File(c))
    BY DEF PutsKind, File
  <2>4. call[t].pc \in Landing
    BY <1>6 DEF Create, At, Landing
  <2>5. QED
    BY <1>2, <2>1, <2>2, <2>3, <2>4
<1>7. CASE Copy(t)
  <2>1. call[t].pc = "copy"
    BY <1>7 DEF Copy, At
  <2>2. base[call[t].path].kind = "File"
    BY <2>1, Busy DEF CallOK
  <2>3. Still \/ \E c \in Content : Puts(t, File(c))
    BY <1>1, <1>7, CopyEffect
  <2>4. \A c : PutsKind(t, File(c))
    BY <2>2 DEF PutsKind, File
  <2>5. QED
    BY <1>2, <2>1, <2>3, <2>4 DEF Landing
<1>8. CASE LandPWrite(t) \/ LandTruncate(t)
  <2>1. call[t].pc = "land"
    BY <1>8 DEF LandPWrite, LandTruncate, At
  <2>2. Still \/ \E c : Puts(t, File(c))
    BY <1>1, <1>8, LandPWriteEffect, LandTruncateEffect
  <2>3. \A c : PutsKind(t, File(c))
    BY <2>1 DEF PutsKind, File
  <2>4. QED
    BY <1>2, <2>1, <2>2, <2>3 DEF Landing
<1>9. CASE MakeDir(t)
  <2>1. call[t].pc = "makedir"
    BY <1>9 DEF MakeDir, At
  <2>2. Still \/ Puts(t, Directory)
    BY <1>1, <1>9, MakeDirEffect
  <2>3. PutsKind(t, Directory)
    BY <2>1 DEF PutsKind, Directory
  <2>4. QED
    BY <1>2, <2>1, <2>2, <2>3 DEF Landing
<1>10. CASE Unlink(t)
  BY <1>1, <1>2, <1>10, UnlinkEffect DEF Unlink, At
<1>11. CASE Mark(t) \/ Store(t) \/ Rename(t)
  BY <1>2, <1>11 DEF Mark, Store, Rename
<1>12. QED
  BY <1>3, <1>4, <1>5, <1>6, <1>7, <1>8, <1>9, <1>10, <1>11 DEF Step

\* The same of any step: where each caller stands after it,
LEMMA NextControl ==
  ASSUME TInv, [Next]_vars, NEW t \in Thread
  PROVE  \/ call'[t] = call[t]
         \/ call'[t].pc \in {"idle", "gate"}
         \/ /\ call'[t].path = call[t].path /\ call'[t].verb = call[t].verb
            /\ Proceeds(t, call'[t].pc)
<1>1. ASSUME NEW u \in Thread, Call(u)
      PROVE  call'[t] = call[t] \/ call'[t].pc = "gate"
  <2>1. PICK c : c.pc = "gate" /\ call' = [call EXCEPT ![u] = c]
    BY <1>1, BeginEffect
  <2>2. QED
    BY <2>1 DEF TInv, ControlOK
<1>2. ASSUME NEW u \in Thread, Ends(u)
      PROVE  call'[t] = call[t] \/ call'[t].pc = "idle"
  BY <1>2, Ended DEF TInv
<1>3. ASSUME NEW u \in Thread, GoesOn(u)
      PROVE  \/ call'[t] = call[t]
             \/ /\ call'[t].path = call[t].path /\ call'[t].verb = call[t].verb
                /\ Proceeds(t, call'[t].pc)
  <2>1. PICK pc, k : Moves(u, pc, k) /\ Proceeds(u, pc)
    BY <1>3 DEF GoesOn
  <2>2. QED
    BY <2>1, MovesWithin
<1>4. CASE Crash
  BY <1>4 DEF Crash, Idle
<1>5. CASE UNCHANGED vars
  BY <1>5 DEF vars
<1>6. QED
  BY <1>1, <1>2, <1>3, <1>4, <1>5, StepControl, HostRefusal DEF Next, GivesUp

\* what it does to the overlay,
LEMMA NextOverlay ==
  ASSUME TInv, [Next]_vars
  PROVE  /\ base' = base
         /\ \/ overlay' = overlay
            \/ \E t \in Thread : /\ call[t].pc \in Landing
                                 /\ \E n : Puts(t, n) /\ PutsKind(t, n)
            \/ \E t \in Thread : call[t].pc = "unlink" /\ Drops(t)
<1>1. \A t \in Thread : Call(t) => UNCHANGED <<base, overlay>>
  BY BeginEffect
<1>2. \A t \in Thread : HostRefuses(t) => UNCHANGED <<base, overlay>>
  BY DEF HostRefuses
<1>3. Crash \/ UNCHANGED vars => UNCHANGED <<base, overlay>>
  BY DEF Crash, vars
<1>4. QED
  BY <1>1, <1>2, <1>3, StepOverlay DEF Next

\* and which paths it can record.
LEMMA NextRecord ==
  ASSUME TInv, RInv, [Next]_vars, NEW p \in whiteouts' \cup journal'
  PROVE  p \in whiteouts \/ \E t \in Thread : call[t].pc = "mark" /\ p = call[t].path
<1>1. \A t \in Thread : Call(t) => UNCHANGED <<whiteouts, journal>>
  BY BeginEffect
<1>2. \A t \in Thread : Step(t) /\ ~Mark(t) /\ ~Rename(t) => UNCHANGED <<whiteouts, journal>>
  BY StepShape DEF RecordRests
<1>3. \A t \in Thread : Mark(t) =>
        /\ journal' = journal /\ call[t].pc = "mark"
        /\ whiteouts' \subseteq whiteouts \cup {call[t].path}
  BY DEF Mark, At
<1>4. \A t \in Thread : Rename(t) => whiteouts' = whiteouts /\ journal' = whiteouts
  BY DEF Rename
<1>5. \A t \in Thread : HostRefuses(t) => UNCHANGED <<whiteouts, journal>>
  BY DEF HostRefuses
<1>6. Crash => whiteouts' = journal /\ journal' = journal
  BY DEF Crash
<1>7. UNCHANGED vars => UNCHANGED <<whiteouts, journal>>
  BY DEF vars
<1>8. QED
  BY <1>1, <1>2, <1>3, <1>4, <1>5, <1>6, <1>7 DEF Next, RInv

-----------------------------------------------------------------------------
(* Nothing changes outside the write areas                                 *)
(*                                                                         *)
(* This holds whatever the host and the process do, on a mount whose areas *)
(* can be reached: the parents of a path are looked up one level up, so a  *)
(* write deeper in an area that lies below a base file makes a directory   *)
(* of that file.                                                           *)

AreasInReach ==
  \A b \in Images, p \in Path : Permitted(p) =>
    \A a \in Anc[p] \ {p} :
      ~Permitted(a) /\ b[a].kind \in {"File", "Link"} => Parent[p] = a

\* Where a directory can come without anything being lost.
Room(q) == base[q].kind \in {"None", "Dir"}

GInv ==
  /\ \A p \in whiteouts : Permitted(p)
  /\ \A q \in Path : ~Permitted(q) =>
       \/ overlay[q].kind = "None"
       \/ overlay[q].kind = "Dir" /\ Room(q)
  /\ \A t \in Thread : call[t].pc \notin {"idle", "gate"} => Permitted(call[t].path)
  /\ \A t \in Thread : call[t].pc \in Landing =>
       \A a \in Anc[call[t].path] \ {call[t].path} : ~Permitted(a) => Room(a)

LEMMA PermittedBelow ==
  ASSUME NEW p \in Path, NEW a \in Anc[p], Permitted(a)
  PROVE  Permitted(p)
BY PathAssumption DEF Permitted

\* What is read outside the areas: a new directory, or the image.
LEMMA Outside ==
  ASSUME TInv, GInv, NEW q \in Path, ~Permitted(q)
  PROVE  /\ View[q] = IF overlay[q].kind = "Dir" THEN Directory ELSE base[q]
         /\ overlay[q].kind # "Dir" => StatMerged(q) = BaseStat(q)
<1>1. \A a \in Anc[q] : a \in Path /\ ~Permitted(a)
  BY PathAssumption, PermittedBelow
<1>2. ~Hidden(q)
  BY <1>1 DEF Hidden, GInv
<1>3. \A a \in Anc[q] : overlay[a].kind # "File"
  BY <1>1 DEF GInv
<1>4. overlay[q].kind \in {"None", "Dir"}
  BY DEF GInv
<1>5. overlay[q].kind = "Dir" => overlay[q] = Directory
  BY DEF TInv, StoreOK, Sound, Node, Directory
<1>6. q # Root
  BY PathAssumption
<1>7. OverlayStat(q) = IF overlay[q].kind = "Dir" THEN "Dir" ELSE "ENOENT"
  BY <1>3, <1>4 DEF OverlayStat, Present
<1>8. QED
  BY <1>2, <1>5, <1>6, <1>7 DEF View, StatMerged

LEMMA GStep ==
  ASSUME AreasInReach
  PROVE  TInv /\ RInv /\ GInv /\ [Next]_vars => GInv'
<1> SUFFICES ASSUME TInv, RInv, GInv, [Next]_vars PROVE GInv'
  OBVIOUS
<1>1. \A q : Room(q)' <=> Room(q)
  BY NextOverlay DEF Room
<1>2. ASSUME NEW p \in whiteouts' PROVE Permitted(p)
  BY <1>2, NextRecord DEF GInv
<1>3. ASSUME NEW q \in Path, ~Permitted(q)
      PROVE  \/ overlay'[q].kind = "None"
             \/ overlay'[q].kind = "Dir" /\ Room(q)
  <2>1. overlay[q].kind = "None" \/ (overlay[q].kind = "Dir" /\ Room(q))
    BY <1>3 DEF GInv
  <2>2. ASSUME NEW t \in Thread, call[t].pc \in Landing, NEW n, Puts(t, n)
        PROVE  \/ overlay'[q].kind = "None"
               \/ overlay'[q].kind = "Dir" /\ Room(q)
    <3>1. call[t].pc \notin {"idle", "gate"}
      BY <2>2 DEF Landing
    <3>2. q # call[t].path
      BY <1>3, <3>1 DEF GInv
    <3>3. overlay'[q] = IF q \in Anc[call[t].path] /\ ~Present(overlay, q)
                        THEN Directory ELSE overlay[q]
      BY <2>2, <3>1, <3>2, PutAt
    <3>4. q \in Anc[call[t].path] => Room(q)
      BY <1>3, <2>2, <3>2 DEF GInv
    <3>5. QED
      BY <2>1, <3>3, <3>4 DEF Directory
  <2>3. ASSUME NEW t \in Thread, call[t].pc = "unlink", Drops(t)
        PROVE  overlay'[q] = overlay[q]
    <3>1. q # call[t].path
      BY <1>3, <2>3 DEF GInv
    <3>2. QED
      BY <2>3, <3>1, DropAt
  <2>4. QED
    BY <2>1, <2>2, <2>3, NextOverlay
<1>4. ASSUME NEW t \in Thread, call'[t].pc \notin {"idle", "gate"}
      PROVE  Permitted(call'[t].path)
  <2>1. CASE call'[t] = call[t]
    BY <1>4, <2>1 DEF GInv
  <2>2. CASE call'[t] # call[t]
    BY <1>4, <2>2, NextControl DEF Proceeds, GInv
  <2>3. QED
    BY <2>1, <2>2
<1>5. ASSUME NEW t \in Thread, call'[t].pc \in Landing,
             NEW a \in Anc[call'[t].path] \ {call'[t].path}, ~Permitted(a)
      PROVE  Room(a)
  <2>1. CASE call[t].pc \in Landing /\ call'[t].path = call[t].path
    BY <1>5, <2>1 DEF GInv
  <2>2. CASE ~(call[t].pc \in Landing /\ call'[t].path = call[t].path)
    <3> DEFINE p == call[t].path
    <3>1. call'[t].path = p /\ Proceeds(t, call'[t].pc)
      BY <1>5, <2>2, NextControl DEF Landing
    <3>2. p \in Path /\ call[t].pc \notin Landing
      BY <2>2, <3>1, Busy DEF Proceeds
    <3>3. a \in Path /\ a \in Anc[p] \ {p}
      BY <1>5, <3>1, <3>2, PathAssumption
    <3>4. Permitted(p)
      BY <1>4, <1>5, <3>1 DEF Landing
    <3>5. CASE Present(overlay, p)
      BY <3>2, <3>3, <3>5, <1>5 DEF TInv, StoreOK, Sound, IsTree, GInv
    <3>6. CASE StatMerged(Parent[p]) \in {"Dir", "ENOENT"}
      <4>1. SUFFICES ASSUME ~Room(a) PROVE FALSE
        OBVIOUS
      <4>2. base[a].kind \in {"File", "Link"} /\ overlay[a].kind # "Dir"
        <5>1. base[a] \in Node
          BY <3>3, ImageTree DEF TInv
        <5>2. QED
          BY <1>5, <3>3, <4>1, <5>1 DEF Room, GInv, Node
      <4>3. Parent[p] = a
        BY <1>5, <3>2, <3>3, <3>4, <4>2 DEF AreasInReach, TInv, StoreOK
      <4>4. StatMerged(a) = BaseStat(a)
        BY <1>5, <3>3, <4>2, Outside
      <4>5. QED
        BY <3>6, <4>2, <4>3, <4>4 DEF BaseStat, Present
    <3>7. QED
      BY <1>5, <3>1, <3>2, <3>5, <3>6 DEF Proceeds
  <2>3. QED
    BY <2>1, <2>2
<1>6. QED
  BY <1>1, <1>2, <1>3, <1>4, <1>5 DEF GInv, Permitted

LEMMA GInit == Init => GInv
BY DEF Init, GInv, Idle, Absent, Landing

\* However the verbs interleave, whatever the host refuses and wherever the
\* process dies, a gated mount shows the image outside its write areas, but for
\* directories made where nothing is, on the way to an area: the areas a
\* reviewed manifest declares are all the damage a program can do.
THEOREM GateHolds ==
  ASSUME AreasInReach
  PROVE  Spec => GateConfines
<1> DEFINE Seen == \A q \in Path : ~Permitted(q) =>
                     View[q] = IF overlay[q].kind = "Dir" THEN Directory ELSE base[q]
           Confined == \A p \in Path : ~Permitted(p) =>
                         \/ View'[p] = View[p]
                         \/ ~Present(View, p) /\ View'[p] = Directory
<1>1. TInv /\ GInv => Seen
  BY Outside
<1>2. ASSUME TInv, GInv, TInv', GInv', Seen, Seen', [Next]_vars PROVE Confined
  <2> SUFFICES ASSUME NEW p \in Path, ~Permitted(p)
               PROVE  \/ View'[p] = View[p]
                      \/ ~Present(View, p) /\ View'[p] = Directory
    OBVIOUS
  <2>1. /\ View[p] = IF overlay[p].kind = "Dir" THEN Directory ELSE base[p]
        /\ View'[p] = IF overlay'[p].kind = "Dir" THEN Directory ELSE base[p]
    BY <1>2, NextOverlay
  <2>2. overlay[p].kind = "Dir" => overlay'[p].kind = "Dir"
    <3>1. ASSUME NEW t \in Thread, call[t].pc \in Landing, NEW n, Puts(t, n),
                 overlay[p].kind = "Dir"
          PROVE  overlay'[p].kind = "Dir"
      <4>1. call[t].pc # "idle" /\ (n.kind = "Dir" \/ overlay[call[t].path].kind # "Dir")
        BY <3>1 DEF Puts, Landing
      <4>2. QED
        BY <1>2, <3>1, <4>1, PutAt DEF Directory
    <3>2. ASSUME NEW t \in Thread, call[t].pc = "unlink", Drops(t)
          PROVE  overlay'[p] = overlay[p]
      <4>1. p # call[t].path
        BY <1>2, <3>2 DEF GInv
      <4>2. QED
        BY <1>2, <3>2, <4>1, DropAt
    <3>3. QED
      BY <1>2, <3>1, <3>2, NextOverlay
  <2>3. overlay'[p].kind = "Dir" => base[p].kind = "None" \/ base[p] = Directory
    <3>1. base[p] \in Node
      BY <1>2, ImageTree DEF TInv
    <3>2. overlay'[p].kind = "Dir" => base'[p].kind \in {"None", "Dir"}
      BY <1>2 DEF GInv, Room
    <3>3. QED
      BY <1>2, <3>1, <3>2, NextOverlay DEF Node, Directory
  <2>4. QED
    BY <2>1, <2>2, <2>3 DEF Present
<1>3. TInv /\ RInv /\ GInv /\ [Next]_vars => GInv'
  BY GStep
<1>4. Spec => [](TInv /\ RInv /\ GInv)
  BY <1>3, GInit, Typed, Recorded, PTL DEF Spec
<1>5. TInv /\ GInv /\ TInv' /\ GInv' /\ Seen /\ Seen' /\ [Next]_vars => [Confined]_vars
  BY <1>2
<1> HIDE DEF Seen
<1>6. QED
  BY <1>1, <1>4, <1>5, PTL DEF Spec, GateConfines

-----------------------------------------------------------------------------
(* A verb changes what is read at its own path                             *)
(*                                                                         *)
(* This needs the record of what is hidden (so not a host that refuses     *)
(* operations of a process that also dies), and images in which nothing    *)
(* that the model names lies two levels below a file: the parents of a     *)
(* path are looked up one level up.                                        *)

Replaced(q) == base[q].kind \in {"File", "Link"}

ShallowImages ==
  \A b \in Images, p \in Path : \A a \in Anc[p] \ {p} :
    b[a].kind \in {"File", "Link"} => Parent[p] = a

\* Where the overlay has, or is about to get, a directory in place of a base
\* file, the record says so.
SInv ==
  /\ \A q \in Path : overlay[q].kind = "Dir" /\ Replaced(q) => q \in Lasting
  /\ \A t \in Thread :
       /\ call[t].pc \in Landing =>
            \A a \in Anc[call[t].path] \ {call[t].path} : Replaced(a) => a \in Lasting
       /\ call[t].verb = "mkdir" /\ call[t].pc \in {"parents", "make", "makedir"} =>
            (Replaced(call[t].path) => call[t].path \in Lasting)

\* A base file that is seen as a directory, or as nothing, is on record.
LEMMA GoneIsRecorded ==
  ASSUME TInv, RInv, HInv, SInv, Dependable, LockFree,
         NEW q \in Path, Replaced(q), StatMerged(q) \in {"Dir", "ENOENT"}
  PROVE  q \in Lasting
<1>1. overlay[q].kind \in {"None", "Dir", "File"} /\ q # Root
  BY PathAssumption DEF TInv, StoreOK, Sound, Node
<1>2. CASE overlay[q].kind = "Dir"
  BY <1>2 DEF SInv
<1>3. CASE overlay[q].kind # "Dir"
  <2>1. Hidden(q)
    BY <1>1, <1>3 DEF Replaced, StatMerged, OverlayStat, BaseStat, Present
  <2>2. q \in whiteouts
    BY <2>1 DEF HInv, HiddenIsRecorded, Replaced, Present
  <2>3. QED
    BY <2>2, LastingRecord
<1>4. QED
  BY <1>2, <1>3

LEMMA SStep ==
  ASSUME Dependable, ShallowImages
  PROVE  TInv /\ RInv /\ RInv' /\ HInv /\ SInv /\ [Next]_vars => SInv'
<1> SUFFICES ASSUME TInv, RInv, RInv', HInv, SInv, [Next]_vars PROVE SInv'
  OBVIOUS
<1>1. \A q : Replaced(q)' <=> Replaced(q)
  BY NextOverlay DEF Replaced
<1>2. Lasting \subseteq Lasting'
  BY RecordLasts
<1>3. ASSUME NEW q \in Path, overlay'[q].kind = "Dir", Replaced(q)
      PROVE  q \in Lasting
  <2>1. CASE overlay[q].kind = "Dir"
    BY <1>3, <2>1 DEF SInv
  <2>2. CASE overlay[q].kind # "Dir"
    <3>1. ASSUME NEW t \in Thread, call[t].pc \in Landing,
                 NEW n, Puts(t, n), PutsKind(t, n)
          PROVE  q \in Lasting
      <4> DEFINE p == call[t].path
      <4>1. call[t].pc # "idle"
        BY <3>1 DEF Landing
      <4>2. CASE q = p
        <5>1. n.kind = "Dir" /\ base[p].kind # "Dir"
          BY <1>3, <3>1, <4>1, <4>2, PutAt DEF Replaced
        <5>2. call[t].pc = "makedir"
          BY <2>2, <3>1, <4>2, <5>1 DEF PutsKind
        <5>3. call[t].verb = "mkdir"
          BY <5>2, VerbAtPoint DEF TInv
        <5>4. QED
          BY <1>3, <4>2, <5>2, <5>3 DEF SInv
      <4>3. CASE q # p
        <5>1. q \in Anc[p]
          BY <1>3, <2>2, <3>1, <4>1, <4>3, PutAt
        <5>2. QED
          BY <1>3, <3>1, <4>3, <5>1 DEF SInv
      <4>4. QED
        BY <4>2, <4>3
    <3>2. ASSUME NEW t \in Thread, call[t].pc = "unlink", Drops(t)
          PROVE  FALSE
      BY <1>3, <2>2, <3>2, DropAt DEF Absent
    <3>3. QED
      BY <1>3, <2>2, <3>1, <3>2, NextOverlay
  <2>3. QED
    BY <2>1, <2>2
<1>4. ASSUME NEW t \in Thread, call'[t].pc \in Landing,
             NEW a \in Anc[call'[t].path] \ {call'[t].path}, Replaced(a)
      PROVE  a \in Lasting
  <2>1. CASE call[t].pc \in Landing /\ call'[t].path = call[t].path
    BY <1>4, <2>1 DEF SInv
  <2>2. CASE ~(call[t].pc \in Landing /\ call'[t].path = call[t].path)
    <3> DEFINE p == call[t].path
    <3>1. call'[t].path = p /\ Proceeds(t, call'[t].pc)
      BY <1>4, <2>2, NextControl DEF Landing
    <3>2. p \in Path /\ call[t].pc \notin Landing
      BY <2>2, <3>1, Busy DEF Proceeds
    <3>3. a \in Path /\ a \in Anc[p] \ {p}
      BY <1>4, <3>1, <3>2, PathAssumption
    <3>4. CASE Present(overlay, p)
      BY <1>4, <3>2, <3>3, <3>4 DEF TInv, StoreOK, Sound, IsTree, SInv
    <3>5. CASE LockFree /\ StatMerged(Parent[p]) \in {"Dir", "ENOENT"}
      <4>1. Parent[p] = a
        BY <1>4, <3>2, <3>3 DEF ShallowImages, Replaced, TInv, StoreOK
      <4>2. QED
        BY <1>4, <3>3, <3>5, <4>1, GoneIsRecorded
    <3>6. QED
      BY <1>4, <3>1, <3>2, <3>4, <3>5 DEF Proceeds
  <2>3. QED
    BY <2>1, <2>2
<1>5. ASSUME NEW t \in Thread, call'[t].verb = "mkdir",
             call'[t].pc \in {"parents", "make", "makedir"}, Replaced(call'[t].path)
      PROVE  call'[t].path \in Lasting
  <2>1. CASE call'[t] = call[t]
    BY <1>5, <2>1 DEF SInv
  <2>2. CASE call'[t] # call[t]
    <3>1. /\ call'[t].path = call[t].path /\ call[t].verb = "mkdir"
          /\ Proceeds(t, call'[t].pc)
      BY <1>5, <2>2, NextControl
    <3>2. call[t].path \in Path
      BY <3>1, Busy DEF Proceeds
    <3>3. CASE call'[t].pc = "parents"
      BY <1>5, <3>1, <3>2, <3>3, GoneIsRecorded DEF Proceeds
    <3>4. CASE call'[t].pc \in {"make", "makedir"}
      BY <1>5, <3>1, <3>4 DEF Proceeds, SInv
    <3>5. QED
      BY <1>5, <3>3, <3>4
  <2>3. QED
    BY <2>1, <2>2
<1>6. QED
  BY <1>1, <1>2, <1>3, <1>4, <1>5 DEF SInv

LEMMA SInit == Init => SInv
BY DEF Init, SInv, Idle, Absent, Landing

\* What is read at a path.
Covered(q) == \E a \in Anc[q] : overlay[a].kind = "File"

Shown(q) ==
  IF Present(overlay, q) THEN overlay[q]
  ELSE IF Hidden(q) \/ Covered(q) THEN Absent
  ELSE base[q]

LEMMA ViewShown == TInv => \A q \in Path : View[q] = Shown(q)
<1> SUFFICES ASSUME TInv, NEW q \in Path PROVE View[q] = Shown(q)
  OBVIOUS
<1>1. overlay[q] \in Node
  BY DEF TInv, StoreOK, Sound
<1>2. ~Present(overlay, q) => overlay[q] = Absent
  BY <1>1 DEF Present, Absent, Node
<1>3. Present(overlay, q) => OverlayStat(q) # "ENOENT"
  BY <1>1 DEF OverlayStat, Present, Node
<1>4. ~Present(overlay, q) => (OverlayStat(q) = "ENOENT" <=> ~Covered(q))
  BY DEF OverlayStat, Covered
<1>5. QED
  BY <1>2, <1>3, <1>4 DEF View, Shown

\* What a put shows elsewhere: directories above it, where nothing was.
LEMMA PutShows ==
  ASSUME TInv, RInv, HInv, SInv, Dependable, NEW t \in Thread,
         call[t].pc \in Landing, NEW n, Puts(t, n), PutsKind(t, n),
         NEW q \in Path, q # call[t].path
  PROVE  \/ Shown(q)' = Shown(q)
         \/ Shown(q).kind = "None" /\ Shown(q)' = Directory
<1> DEFINE p == call[t].path
<1>0. call[t].pc # "idle" /\ p \in Path
  BY Busy DEF Landing
<1>1. /\ overlay'[p] = n
      /\ \A x \in Path : x # p =>
           overlay'[x] = IF x \in Anc[p] /\ ~Present(overlay, x)
                         THEN Directory ELSE overlay[x]
  BY <1>0, PutAt
<1>2. UNCHANGED <<base, whiteouts>> /\ (Hidden(q)' <=> Hidden(q))
  BY DEF Puts, Hidden
<1>3. base[q] \in Node
  BY ImageTree DEF TInv
<1>4. CASE q \in Anc[p] /\ ~Present(overlay, q)
  <2>1. Shown(q)' = Directory
    BY <1>1, <1>4 DEF Shown, Present, Directory
  <2>2. Replaced(q) => Hidden(q)
    <3>1. Replaced(q) => q \in Lasting
      BY <1>4 DEF SInv
    <3>2. Lasting \subseteq whiteouts /\ q \in Anc[q]
      BY LastingRecord, PathAssumption
    <3>3. QED
      BY <3>1, <3>2 DEF Hidden
  <2>3. Shown(q) = Directory \/ Shown(q).kind = "None"
    BY <1>3, <1>4, <2>2 DEF Shown, Replaced, Node, Directory, Absent
  <2>4. QED
    BY <2>1, <2>3 DEF Present
<1>5. CASE ~(q \in Anc[p] /\ ~Present(overlay, q))
  <2>1. overlay'[q] = overlay[q]
    BY <1>1, <1>5
  <2>2. CASE Present(overlay, q)
    BY <2>1, <2>2 DEF Shown, Present
  <2>3. CASE ~Present(overlay, q) /\ (Covered(q)' <=> Covered(q))
    BY <1>2, <2>1, <2>3 DEF Shown, Present
  <2>4. CASE ~Present(overlay, q) /\ ~(Covered(q)' <=> Covered(q))
    <3>1. \A a \in Anc[q] : a \in Path
      BY PathAssumption
    <3>2. \A a \in Anc[q] : a # p =>
            (overlay'[a].kind = "File" <=> overlay[a].kind = "File")
      BY <1>1, <3>1 DEF Directory, Present
    <3>3. p \in Anc[q] /\ n.kind = "File" /\ overlay[p].kind # "File"
      BY <1>1, <2>4, <3>2 DEF Covered, Puts
    <3>4. Present(base, q) => Hidden(q)
      <4>1. SUFFICES ASSUME Present(base, q) PROVE Hidden(q)
        OBVIOUS
      <4>2. base[p].kind = "Dir"
        BY <3>3, <4>1, ImageTree DEF TInv, IsTree
      <4>3. call[t].pc = "land" /\ overlay[p].kind # "Dir"
        BY <3>3, <4>2 DEF PutsKind, Puts
      <4>4. RecordedBelow(p)
        BY <4>2, <4>3 DEF HInv, InFlightRecorded
      <4>5. q \in whiteouts
        BY <3>3, <4>1, <4>4, LastingRecord DEF RecordedBelow
      <4>6. QED
        BY <4>5, PathAssumption DEF Hidden
    <3>5. ~Present(base, q) => base[q] = Absent
      BY <1>3 DEF Present, Absent, Node
    <3>6. Shown(q) = Absent /\ Shown(q)' = Absent
      BY <1>2, <2>1, <2>4, <3>4, <3>5 DEF Shown, Present
    <3>7. QED
      BY <3>6
  <2>5. QED
    BY <2>2, <2>3, <2>4
<1>6. QED
  BY <1>4, <1>5

\* Taking p away, or marking it, shows nothing elsewhere: what is below p is on
\* record already.
LEMMA RemovalShows ==
  ASSUME TInv, RInv, HInv, Dependable, NEW t \in Thread,
         call[t].pc \in {"unlink", "mark"},
         NEW q \in Path, q # call[t].path,
         base' = base, overlay'[q] = overlay[q],
         \A a \in Anc[q] : a # call[t].path => overlay'[a] = overlay[a],
         whiteouts \subseteq whiteouts', whiteouts' \subseteq whiteouts \cup {call[t].path},
         overlay'[call[t].path] \in {overlay[call[t].path], Absent}
  PROVE  Shown(q)' = Shown(q)
<1> DEFINE p == call[t].path
<1>1. Present(overlay, q)' <=> Present(overlay, q)
  BY DEF Present
<1>2. CASE p \notin Anc[q]
  BY <1>1, <1>2 DEF Shown, Hidden, Covered
<1>3. CASE p \in Anc[q]
  <2>1. RecordedBelow(p)
    BY DEF HInv, InFlightRecorded
  <2>2. Present(base, q) => q \in whiteouts
    BY <1>3, <2>1, LastingRecord DEF RecordedBelow
  <2>3. Present(base, q) => Hidden(q) /\ Hidden(q)'
    BY <2>2, PathAssumption DEF Hidden
  <2>4. base[q] \in Node
    BY ImageTree DEF TInv
  <2>5. ~Present(base, q) => base[q] = Absent
    BY <2>4 DEF Present, Absent, Node
  <2>6. QED
    BY <1>1, <2>3, <2>5 DEF Shown
<1>4. QED
  BY <1>2, <1>3

\* Unless the host refuses operations of a process that also dies, a verb
\* changes what is read at its own path alone, and makes parents only where
\* nothing is, in every interleaving, and whatever a verb that was refused or
\* cut off has left in the overlay.
THEOREM TouchesOnlyItsPath ==
  ASSUME Dependable, ShallowImages
  PROVE  Spec => StepTouchesOnlyItsPath
<1> DEFINE Seen == \A q \in Path : View[q] = Shown(q)
           Contained == \A t \in Thread : Step(t) =>
             \A p \in Path \ {call[t].path} :
               View'[p] = View[p] \/ (~Present(View, p) /\ View'[p] = Directory)
<1>1. TInv => Seen
  BY ViewShown
<1>2. ASSUME TInv, RInv, HInv, SInv, Seen, Seen',
             NEW t \in Thread, Step(t), NEW q \in Path \ {call[t].path}
      PROVE  View'[q] = View[q] \/ (~Present(View, q) /\ View'[q] = Directory)
  <2>1. View[q] = Shown(q) /\ View'[q] = Shown(q)'
    BY <1>2
  <2>2. SUFFICES \/ Shown(q)' = Shown(q)
                 \/ Shown(q).kind = "None" /\ Shown(q)' = Directory
    BY <2>1 DEF Present
  <2>3. base' = base
    BY <1>2, StepOverlay
  <2>4. CASE \E n : call[t].pc \in Landing /\ Puts(t, n) /\ PutsKind(t, n)
    BY <1>2, <2>4, PutShows
  <2>5. CASE call[t].pc = "unlink" /\ Drops(t)
    <3>1. /\ overlay'[call[t].path] = Absent /\ whiteouts' = whiteouts
          /\ \A a \in Path : a # call[t].path => overlay'[a] = overlay[a]
      BY <1>2, <2>5, DropAt DEF Drops
    <3>2. \A a \in Anc[q] : a # call[t].path => overlay'[a] = overlay[a]
      BY <3>1, PathAssumption
    <3>3. QED
      BY <1>2, <2>3, <2>5, <3>1, <3>2, RemovalShows
  <2>6. CASE overlay' = overlay
    <3>1. CASE Mark(t)
      <4>1. /\ call[t].pc = "mark"
            /\ whiteouts \subseteq whiteouts' /\ whiteouts' \subseteq whiteouts \cup {call[t].path}
        BY <3>1 DEF Mark, At
      <4>2. QED
        BY <1>2, <2>3, <2>6, <4>1, RemovalShows
    <3>2. CASE ~Mark(t)
      <4>1. whiteouts' = whiteouts
        BY <1>2, <3>2, StepShape DEF RecordRests, Rename
      <4>2. QED
        BY <2>3, <2>6, <4>1 DEF Shown, Hidden, Covered, Present
    <3>3. QED
      BY <3>1, <3>2
  <2>7. QED
    BY <1>2, <2>4, <2>5, <2>6, StepOverlay
<1>3. TInv /\ RInv /\ RInv' /\ HInv /\ SInv /\ [Next]_vars => SInv'
  BY SStep
<1>4. Spec => [](TInv /\ RInv /\ HInv /\ SInv)
  BY <1>3, SInit, Typed, Recorded, HiddenInvariant, PTL DEF Spec
<1>5. TInv /\ RInv /\ HInv /\ SInv /\ Seen /\ Seen' /\ [Next]_vars => [Contained]_vars
  BY <1>2
<1> HIDE DEF Seen
<1>6. QED
  BY <1>1, <1>4, <1>5, PTL DEF Spec, StepTouchesOnlyItsPath

-----------------------------------------------------------------------------
(* A verb is one action of Cow                                             *)
(*                                                                         *)
(* This needs verbs that nothing interrupts: one caller, and a process     *)
(* that does not die (a crash settles what a verb has half done).  The     *)
(* invariant says, at every point inside a verb, what the verb has learnt  *)
(* of the state at which it began, and what it has made of its overlay: a  *)
(* step inside a verb leaves that state alone, and the last one finds in   *)
(* it that Cow's verb answers and does the same.                           *)

\* Nothing interrupts a verb: it has one caller, and the process does not die.
Alone == (\A t, u \in Thread : t = u) /\ ~Crashes

\* StatMerged and ReadDir over image b, overlay o and whiteouts w.
StatOver(o, p) ==
  IF Present(o, p) THEN o[p].kind
  ELSE IF \E a \in Anc[p] : o[a].kind = "File" THEN "ENOTDIR"
  ELSE "ENOENT"

Stat(b, o, w, p) ==
  IF p = Root THEN "Dir"
  ELSE IF StatOver(o, p) # "ENOENT" THEN StatOver(o, p)
  ELSE IF Anc[p] \cap w # {} THEN "ENOENT"
  ELSE IF Present(b, p) THEN b[p].kind ELSE "ENOENT"

Listed(b, o, w, d) ==
  {c \in Children(d) : \/ Present(o, c)
                       \/ Present(b, c) /\ Anc[c] \cap w = {}}

Removable(b, o, w, p) ==
  \/ Stat(b, o, w, p) \in {"File", "Link"}
  \/ Stat(b, o, w, p) = "Dir" /\ Listed(b, o, w, p) = {}

\* A write that starts its path afresh.
Afresh(c, w) == c.verb = "pwrite" /\ c.path \in w

\* What verb c, which began at image b, overlay o and whiteouts w, has learnt.
Learnt(c, b, o, w) ==
  /\ c.pc \notin {"idle", "gate"} =>
       /\ Permitted(c.path)
       /\ c.verb = "truncate" => Stat(b, o, w, c.path) = "File"
       /\ c.verb = "mkdir"    => Stat(b, o, w, c.path) = "ENOENT"
       /\ c.verb = "remove"   => Removable(b, o, w, c.path)
  /\ c.pc = "freshparents" => Afresh(c, w)
  /\ c.pc \in {"probe", "parents", "create", "copy"} => ~Afresh(c, w)
  /\ c.pc \in {"parents", "make", "create", "copy"} /\ c.verb # "mkdir" =>
       Afresh(c, w) \/ ~Present(o, c.path)
  /\ c.pc \in {"make", "create", "copy", "makedir"} =>
       Stat(b, o, w, Parent[c.path]) \in
         IF c.verb = "mkdir" THEN {"Dir"} ELSE {"Dir", "ENOENT"}
  /\ c.pc = "make" => (c.copied = 1 <=> Afresh(c, w))
  /\ c.pc = "create" => Present(b, c.path) /\ c.copied = 0
  /\ c.pc \in {"mark", "store", "rename"} => Present(b, c.path)

\* The overlay that a write, or a cut, of c's path lands on.
Landed(c, b, o, w, now) ==
  \/ ~Afresh(c, w) /\ Present(o, c.path) /\ now = o
  \/ /\ Afresh(c, w) \/ ~Present(o, c.path)
     /\ Stat(b, o, w, Parent[c.path]) \in {"Dir", "ENOENT"}
     /\ \/ /\ Afresh(c, w) \/ ~Present(b, c.path)
           /\ now = MakeDirs(o, Parent[c.path])
        \/ /\ ~Afresh(c, w) /\ b[c.path].kind \in {"File", "Dir"}
           /\ now = [MakeDirs(o, Parent[c.path]) EXCEPT ![c.path] = b[c.path]]

\* What it has made of that overlay so far.
Made(c, b, o, w, now) ==
  /\ c.pc \in {"idle", "gate", "contains", "probe", "parents", "freshparents",
               "make", "unlink"} => now = o
  /\ c.pc \in {"create", "makedir"} => now = MakeDirs(o, Parent[c.path])
  /\ c.pc = "copy" =>
       /\ c.copied <= Len(b[c.path].data)
       /\ now = [MakeDirs(o, Parent[c.path]) EXCEPT
                   ![c.path] = File(SubSeq(b[c.path].data, 1, c.copied))]
  /\ c.pc = "land" => Landed(c, b, o, w, now)
  /\ c.pc \in {"create", "copy", "land", "makedir"} =>
       \A a \in Anc[c.path] \ {c.path} : now[a].kind = "Dir"
  /\ c.pc \in {"mark", "store", "rename"} => now = [o EXCEPT ![c.path] = Absent]

Hides(c, w) == IF c.pc \in {"store", "rename"} THEN w \cup {c.path} ELSE w

AInv ==
  /\ Sound(settled.overlay)
  /\ \A t \in Thread :
       /\ Learnt(call[t], base, settled.overlay, settled.whiteouts)
       /\ Made(call[t], base, settled.overlay, settled.whiteouts, overlay)
       /\ whiteouts = Hides(call[t], settled.whiteouts)

\* What a step of a verb is in Cow.
Follows ==
  \/ \E t \in Thread : HostRefuses(t)
  \/ [Atomically!Next]_<<base, settled>>

\* The lookups of CowSteps and Cow, in those words.
LEMMA Words ==
  /\ \A p : StatMerged(p) = Stat(base, overlay, whiteouts, p)
  /\ \A p : ReadDir(p) = Listed(base, overlay, whiteouts, p)
  /\ \A p : Atomically!StatMerged(p) = Stat(base, settled.overlay, settled.whiteouts, p)
  /\ \A p : Atomically!ReadDir(p) = Listed(base, settled.overlay, settled.whiteouts, p)
  /\ \A p : Atomically!Permitted(p) <=> Permitted(p)
<1>1. \A p : StatMerged(p) = Stat(base, overlay, whiteouts, p)
  BY DEF StatMerged, OverlayStat, BaseStat, Hidden, Stat, StatOver
<1>2. \A p : ReadDir(p) = Listed(base, overlay, whiteouts, p)
  BY DEF ReadDir, Listed, Hidden
<1>3. \A p : Atomically!StatMerged(p) = Stat(base, settled.overlay, settled.whiteouts, p)
  BY DEF Atomically!StatMerged, Atomically!OverlayStat, Atomically!BaseStat,
         Atomically!Hidden, Atomically!Present, Present, Stat, StatOver
<1>4. \A p : Atomically!ReadDir(p) = Listed(base, settled.overlay, settled.whiteouts, p)
  BY DEF Atomically!ReadDir, Atomically!Hidden, Atomically!Present, Present,
         Atomically!Children, Children, Listed
<1>5. \A p : Atomically!Permitted(p) <=> Permitted(p)
  BY DEF Atomically!Permitted, Permitted
<1>6. QED
  BY <1>1, <1>2, <1>3, <1>4, <1>5

\* Cow's operators on trees are those of CowSteps.
LEMMA SameTrees ==
  /\ Atomically!Absent = Absent /\ Atomically!Directory = Directory
  /\ \A o, p : Atomically!Present(o, p) <=> Present(o, p)
  /\ \A o, p : Atomically!MakeDirs(o, p) = MakeDirs(o, p)
  /\ \A c : Atomically!File(c) = File(c)
  /\ \A c, i, v : Atomically!WriteAt(c, i, v) = WriteAt(c, i, v)
  /\ \A c, n : Atomically!SetLen(c, n) = SetLen(c, n)
<1>1. Atomically!Absent = Absent /\ Atomically!Directory = Directory
  BY DEF Atomically!Absent, Absent, Atomically!Directory, Directory
<1>2. \A o, p : Atomically!Present(o, p) <=> Present(o, p)
  BY DEF Atomically!Present, Present
<1>3. \A o, p : Atomically!MakeDirs(o, p) = MakeDirs(o, p)
  BY <1>1, <1>2 DEF Atomically!MakeDirs, MakeDirs
<1>4. \A c : Atomically!File(c) = File(c)
  BY DEF Atomically!File, File
<1>5. \A c, i, v : Atomically!WriteAt(c, i, v) = WriteAt(c, i, v)
  BY DEF Atomically!WriteAt, WriteAt
<1>6. \A c, n : Atomically!SetLen(c, n) = SetLen(c, n)
  BY DEF Atomically!SetLen, SetLen
<1>7. QED
  BY <1>1, <1>2, <1>3, <1>4, <1>5, <1>6

\* What is known of the verb that t is executing.
LEMMA Known ==
  ASSUME TInv, AInv, NEW t \in Thread, call[t].pc # "idle"
  PROVE  LET c == call[t] IN
         /\ Learnt(c, base, settled.overlay, settled.whiteouts)
         /\ Made(c, base, settled.overlay, settled.whiteouts, overlay)
         /\ whiteouts = Hides(c, settled.whiteouts)
         /\ c.path \in Path /\ c.off \in Nat /\ c.copied \in Nat /\ c.arg \in Block
         /\ settled.overlay[c.path] \in Node /\ base[c.path] \in Node
         /\ overlay[c.path] \in Node
<1>1. call[t].path \in Path /\ call[t] \in CallType /\ base[call[t].path] \in Node
      /\ overlay[call[t].path] \in Node
  BY Busy
<1>2. QED
  BY <1>1 DEF AInv, CallType, Sound

\* A step inside a verb is none of Cow's.
LEMMA Inside ==
  ASSUME Alone, TInv, AInv, NEW t \in Thread, UNCHANGED <<base, settled>>,
         Learnt(call'[t], base, settled.overlay, settled.whiteouts),
         Made(call'[t], base, settled.overlay, settled.whiteouts, overlay'),
         whiteouts' = Hides(call'[t], settled.whiteouts)
  PROVE  AInv' /\ Follows
<1>1. \A u \in Thread : u = t
  BY DEF Alone
<1>2. Sound(settled.overlay)'
  BY DEF AInv, Sound
<1>3. AInv'
  BY <1>1, <1>2 DEF AInv
<1>4. QED
  BY <1>3 DEF Follows

\* A verb that returns and does what Cow has for it.
CowsVerb(c) ==
  \/ c.verb = "pwrite"   /\ Atomically!PWrite(c.path, c.off, c.arg)
  \/ c.verb = "truncate" /\ Atomically!Truncate(c.path, c.off)
  \/ c.verb = "mkdir"    /\ Atomically!Mkdir(c.path)
  \/ c.verb = "remove"   /\ Atomically!Remove(c.path)

LEMMA Returned ==
  ASSUME Alone, TInv, TInv', NEW t \in Thread, NEW r, Return(t, r), base' = base
  PROVE  /\ AInv'
         /\ settled'.overlay = overlay' /\ settled'.whiteouts = whiteouts'
         /\ settled'.res = r
<1>1. \A u \in Thread : u = t
  BY DEF Alone
<1>2. /\ settled'.overlay = overlay' /\ settled'.whiteouts = whiteouts'
      /\ settled'.res = r
  BY DEF Return
<1>3. call'[t] = Idle
  BY DEF Return, TInv, ControlOK
<1>4. Sound(overlay')
  BY DEF TInv, StoreOK
<1>5. Learnt(Idle, base', overlay', whiteouts')
  BY DEF Learnt, Idle
<1>6. Made(Idle, base', overlay', whiteouts', overlay') /\ whiteouts' = Hides(Idle, whiteouts')
  BY DEF Made, Idle, Hides
<1>7. QED
  BY <1>1, <1>2, <1>3, <1>4, <1>5, <1>6 DEF AInv, Sound

LEMMA Answered ==
  ASSUME Alone, TInv, TInv', NEW t \in Thread, call[t].pc # "idle", NEW r,
         Return(t, r), base' = base, CowsVerb(call[t])
  PROVE  AInv' /\ Follows
<1>1. AInv'
  BY Returned
<1>2. CallOK(call[t]) /\ call[t].path \in Path
  BY Busy
<1>3. Atomically!Next
  BY <1>2 DEF CowsVerb, CallOK, Atomically!Next
<1>4. QED
  BY <1>1, <1>3 DEF Follows

\* A verb that is refused while it has done nothing yet.
LEMMA Untouched ==
  ASSUME Alone, TInv, TInv', AInv, NEW t \in Thread, NEW r, Refuse(t, r),
         overlay = settled.overlay, whiteouts = settled.whiteouts
  PROVE  Atomically!Answer(r)
<1>1. Return(t, r) /\ UNCHANGED <<base, overlay, whiteouts>>
  BY DEF Refuse
<1>2. QED
  BY <1>1, Returned DEF Atomically!Answer

\* A verb goes on to a point.
LEMMA GoneTo ==
  ASSUME TInv, NEW t \in Thread, NEW pc \in Pcs, Goto(t, pc)
  PROVE  /\ call'[t].pc = pc /\ call'[t].copied = call[t].copied
         /\ call'[t].verb = call[t].verb /\ call'[t].path = call[t].path
         /\ settled' = settled
<1>1. call[t].copied \in Nat
  BY DEF TInv, ControlOK, CallType
<1>2. Moves(t, pc, call[t].copied)
  BY GotoMoves DEF TInv
<1>3. QED
  BY <1>1, <1>2, Moved DEF TInv, Goto

\* The verbs at the gate.
LEMMA AtGate ==
  ASSUME TInv, AInv, NEW t \in Thread, call[t].pc = "gate"
  PROVE  /\ overlay = settled.overlay /\ whiteouts = settled.whiteouts
         /\ call[t].verb \in Verbs /\ call[t].path \in Path
         /\ \A p : StatMerged(p) = Atomically!StatMerged(p)
         /\ \A p : ReadDir(p) = Atomically!ReadDir(p)
<1>1. overlay = settled.overlay /\ whiteouts = settled.whiteouts
  BY Known DEF Made, Hides
<1>2. call[t].verb \in Verbs /\ call[t].path \in Path
  BY Busy DEF CallOK, VerbsAt
<1>3. QED
  BY <1>1, <1>2, Words

LEMMA AEnterPWrite ==
  ASSUME Alone, TInv, TInv', AInv, NEW t \in Thread, Denied(t) \/ EnterPWrite(t)
  PROVE  AInv' /\ Follows
<1> DEFINE c == call[t]  p == c.path
<1>1. c.pc = "gate"
  BY DEF Denied, EnterPWrite, EnterVerb, At
<1>2. CASE Denied(t)
  <2>1. Refuse(t, "EROFS") /\ ~Permitted(p)
    BY <1>2 DEF Denied
  <2>2. Return(t, "EROFS") /\ base' = base
    BY <2>1 DEF Refuse
  <2>3. Atomically!Answer("EROFS")
    BY <1>1, <2>1, AtGate, Untouched
  <2>4. ~Atomically!Permitted(p)
    BY <2>1, Words
  <2>5. c.verb \in {"pwrite", "truncate", "mkdir", "remove"}
    BY <1>1, AtGate, StepsAssumption
  <2>6. CowsVerb(c)
    BY <2>3, <2>4, <2>5 DEF CowsVerb, Atomically!PWrite, Atomically!Truncate,
       Atomically!Mkdir, Atomically!Remove
  <2>7. QED
    BY <1>1, <2>2, <2>6, Answered
<1>3. CASE EnterPWrite(t)
  <2>1. Goto(t, "contains") /\ Keep /\ c.verb = "pwrite" /\ Permitted(p)
    BY <1>3 DEF EnterPWrite, EnterVerb
  <2>2. /\ call'[t].pc = "contains" /\ call'[t].verb = "pwrite" /\ call'[t].path = p
        /\ UNCHANGED <<base, settled, overlay, whiteouts>>
    BY <2>1, GoneTo DEF Pcs, Keep
  <2>3. Learnt(call'[t], base, settled.overlay, settled.whiteouts)
    BY <2>1, <2>2 DEF Learnt
  <2>4. /\ Made(call'[t], base, settled.overlay, settled.whiteouts, overlay')
        /\ whiteouts' = Hides(call'[t], settled.whiteouts)
    BY <1>1, <2>2, AtGate DEF Made, Hides
  <2>5. QED
    BY <2>2, <2>3, <2>4, Inside
<1>4. QED
  BY <1>2, <1>3

LEMMA AEnterTruncate ==
  ASSUME Alone, TInv, TInv', AInv, NEW t \in Thread, EnterTruncate(t)
  PROVE  AInv' /\ Follows
<1> DEFINE c == call[t]  p == c.path
<1>1. c.pc = "gate" /\ c.verb = "truncate" /\ Permitted(p)
  BY DEF EnterTruncate, EnterVerb, At
<1>2. ASSUME NEW r, Refuse(t, r), StatMerged(p) # "File",
             r = IF StatMerged(p) \in {"Dir", "Link"} THEN "EINVAL" ELSE StatMerged(p)
      PROVE  AInv' /\ Follows
  <2>1. Return(t, r) /\ base' = base
    BY <1>2 DEF Refuse
  <2>2. Atomically!Answer(r)
    BY <1>1, <1>2, AtGate, Untouched
  <2>3. Atomically!StatMerged(p) = StatMerged(p) /\ Atomically!Permitted(p)
    BY <1>1, AtGate, Words
  <2>4. CowsVerb(c)
    BY <1>1, <1>2, <2>2, <2>3 DEF CowsVerb, Atomically!Truncate
  <2>5. QED
    BY <1>1, <2>1, <2>4, Answered
<1>3. CASE StatMerged(p) = "File" /\ Goto(t, "probe") /\ Keep
  <2>1. /\ call'[t].pc = "probe" /\ call'[t].verb = "truncate" /\ call'[t].path = p
        /\ UNCHANGED <<base, settled, overlay, whiteouts>>
    BY <1>1, <1>3, GoneTo DEF Pcs, Keep
  <2>2. Stat(base, settled.overlay, settled.whiteouts, p) = "File"
    BY <1>1, <1>3, AtGate, Words
  <2>3. Learnt(call'[t], base, settled.overlay, settled.whiteouts)
    BY <1>1, <2>1, <2>2 DEF Learnt, Afresh
  <2>4. /\ Made(call'[t], base, settled.overlay, settled.whiteouts, overlay')
        /\ whiteouts' = Hides(call'[t], settled.whiteouts)
    BY <1>1, <2>1, AtGate DEF Made, Hides
  <2>5. QED
    BY <2>1, <2>3, <2>4, Inside
<1>4. QED
  BY <1>2, <1>3 DEF EnterTruncate

LEMMA AEnterMkdir ==
  ASSUME Alone, TInv, TInv', AInv, NEW t \in Thread, EnterMkdir(t)
  PROVE  AInv' /\ Follows
<1> DEFINE c == call[t]  p == c.path
<1>1. c.pc = "gate" /\ c.verb = "mkdir" /\ Permitted(p)
  BY DEF EnterMkdir, EnterVerb, At
<1>2. ASSUME NEW r, Refuse(t, r),
             \/ StatMerged(p) = "ENOTDIR" /\ r = "ENOTDIR"
             \/ StatMerged(p) \in {"File", "Dir", "Link"} /\ r = "EEXIST"
      PROVE  AInv' /\ Follows
  <2>1. Return(t, r) /\ base' = base
    BY <1>2 DEF Refuse
  <2>2. Atomically!Answer(r)
    BY <1>1, <1>2, AtGate, Untouched
  <2>3. Atomically!StatMerged(p) = StatMerged(p) /\ Atomically!Permitted(p)
    BY <1>1, AtGate, Words
  <2>4. CowsVerb(c)
    BY <1>1, <1>2, <2>2, <2>3 DEF CowsVerb, Atomically!Mkdir
  <2>5. QED
    BY <1>1, <2>1, <2>4, Answered
<1>3. CASE StatMerged(p) = "ENOENT" /\ Goto(t, "parents") /\ Keep
  <2>1. /\ call'[t].pc = "parents" /\ call'[t].verb = "mkdir" /\ call'[t].path = p
        /\ UNCHANGED <<base, settled, overlay, whiteouts>>
    BY <1>1, <1>3, GoneTo DEF Pcs, Keep
  <2>2. Stat(base, settled.overlay, settled.whiteouts, p) = "ENOENT"
    BY <1>1, <1>3, AtGate, Words
  <2>3. Learnt(call'[t], base, settled.overlay, settled.whiteouts)
    BY <1>1, <2>1, <2>2 DEF Learnt, Afresh
  <2>4. /\ Made(call'[t], base, settled.overlay, settled.whiteouts, overlay')
        /\ whiteouts' = Hides(call'[t], settled.whiteouts)
    BY <1>1, <2>1, AtGate DEF Made, Hides
  <2>5. QED
    BY <2>1, <2>3, <2>4, Inside
<1>4. QED
  BY <1>2, <1>3 DEF EnterMkdir

LEMMA AEnterRemove ==
  ASSUME Alone, TInv, TInv', AInv, NEW t \in Thread, EnterRemove(t)
  PROVE  AInv' /\ Follows
<1> DEFINE c == call[t]  p == c.path
<1>1. c.pc = "gate" /\ c.verb = "remove" /\ Permitted(p)
  BY DEF EnterRemove, EnterVerb, At
<1>2. ASSUME NEW r, Refuse(t, r),
             \/ StatMerged(p) \in {"ENOENT", "ENOTDIR"} /\ r = StatMerged(p)
             \/ StatMerged(p) = "Dir" /\ ReadDir(p) # {} /\ r = "ENOTEMPTY"
      PROVE  AInv' /\ Follows
  <2>1. Return(t, r) /\ base' = base
    BY <1>2 DEF Refuse
  <2>2. Atomically!Answer(r)
    BY <1>1, <1>2, AtGate, Untouched
  <2>3. Atomically!StatMerged(p) = StatMerged(p) /\ Atomically!Permitted(p)
        /\ Atomically!ReadDir(p) = ReadDir(p)
    BY <1>1, AtGate, Words
  <2>4. CowsVerb(c)
    BY <1>1, <1>2, <2>2, <2>3 DEF CowsVerb, Atomically!Remove
  <2>5. QED
    BY <1>1, <2>1, <2>4, Answered
<1>3. CASE /\ \/ StatMerged(p) \in {"File", "Link"}
              \/ StatMerged(p) = "Dir" /\ ReadDir(p) = {}
           /\ Goto(t, "unlink") /\ Keep
  <2>1. /\ call'[t].pc = "unlink" /\ call'[t].verb = "remove" /\ call'[t].path = p
        /\ UNCHANGED <<base, settled, overlay, whiteouts>>
    BY <1>1, <1>3, GoneTo DEF Pcs, Keep
  <2>2. Removable(base, settled.overlay, settled.whiteouts, p)
    BY <1>1, <1>3, AtGate, Words DEF Removable
  <2>3. Learnt(call'[t], base, settled.overlay, settled.whiteouts)
    BY <1>1, <2>1, <2>2 DEF Learnt, Afresh
  <2>4. /\ Made(call'[t], base, settled.overlay, settled.whiteouts, overlay')
        /\ whiteouts' = Hides(call'[t], settled.whiteouts)
    BY <1>1, <2>1, AtGate DEF Made, Hides
  <2>5. QED
    BY <2>1, <2>3, <2>4, Inside
<1>4. QED
  BY <1>2, <1>3 DEF EnterRemove

\* Above a file that only the base has, there is a directory.
LEMMA AboveAFile ==
  ASSUME TInv, AInv, NEW p \in Path, ~Present(settled.overlay, p),
         Stat(base, settled.overlay, settled.whiteouts, p) = "File"
  PROVE  Stat(base, settled.overlay, settled.whiteouts, Parent[p]) = "Dir"
<1> DEFINE S == settled.overlay  W == settled.whiteouts  q == Parent[p]
<1>1. CASE q = Root
  BY <1>1 DEF Stat
<1>2. CASE q # Root
  <2>1. q \in Path /\ q \in Anc[p] \ {p} /\ Anc[q] \subseteq Anc[p]
    BY <1>2, PathAssumption
  <2>2. /\ \A a \in Anc[p] : S[a].kind # "File"
        /\ Anc[p] \cap W = {}
        /\ base[p].kind = "File"
    BY PathAssumption DEF Stat, StatOver, Present
  <2>3. base[q].kind = "Dir"
    BY <2>1, <2>2, ImageTree DEF TInv, IsTree, Present
  <2>4. S[q].kind \in {"None", "Dir"}
    BY <2>1, <2>2 DEF AInv, Sound, Node
  <2>5. QED
    BY <1>2, <2>1, <2>2, <2>3, <2>4 DEF Stat, StatOver, Present
<1>3. QED
  BY <1>1, <1>2

LEMMA AContains ==
  ASSUME Alone, TInv, AInv, NEW t \in Thread, Contains(t)
  PROVE  AInv' /\ Follows
<1> DEFINE c == call[t]  p == c.path
<1>1. c.pc = "contains" /\ c.verb = "pwrite"
  BY VerbAtPoint DEF Contains, At, TInv
<1>2. Permitted(p) /\ overlay = settled.overlay /\ whiteouts = settled.whiteouts
  BY <1>1, Known DEF Learnt, Made, Hides
<1>3. /\ call'[t].pc = IF p \in whiteouts THEN "freshparents" ELSE "probe"
      /\ call'[t].verb = "pwrite" /\ call'[t].path = p
      /\ UNCHANGED <<base, settled, overlay, whiteouts>>
  BY <1>1, GoneTo DEF Contains, Keep, Pcs
<1>4. Learnt(call'[t], base, settled.overlay, settled.whiteouts)
  BY <1>2, <1>3 DEF Learnt, Afresh
<1>5. /\ Made(call'[t], base, settled.overlay, settled.whiteouts, overlay')
      /\ whiteouts' = Hides(call'[t], settled.whiteouts)
  BY <1>2, <1>3 DEF Made, Hides
<1>6. QED
  BY <1>3, <1>4, <1>5, Inside

LEMMA AProbe ==
  ASSUME Alone, TInv, AInv, NEW t \in Thread, Probe(t)
  PROVE  AInv' /\ Follows
<1> DEFINE c == call[t]  p == c.path
<1>1. c.pc = "probe" /\ c.verb \in {"pwrite", "truncate"}
  BY VerbAtPoint DEF Probe, At, TInv
<1>2. /\ overlay = settled.overlay /\ whiteouts = settled.whiteouts
      /\ Permitted(p) /\ ~Afresh(c, settled.whiteouts) /\ p \in Path
      /\ c.verb = "truncate" =>
           Stat(base, settled.overlay, settled.whiteouts, p) = "File"
  BY <1>1, Known DEF Learnt, Made, Hides
<1>3. /\ call'[t].pc = IF Present(overlay, p) THEN "land" ELSE "parents"
      /\ call'[t].verb = c.verb /\ call'[t].path = p
      /\ UNCHANGED <<base, settled, overlay, whiteouts>>
  BY <1>1, GoneTo DEF Probe, Keep, Pcs
<1>4. Afresh(call'[t], settled.whiteouts) <=> Afresh(c, settled.whiteouts)
  BY <1>3 DEF Afresh
<1>5. Learnt(call'[t], base, settled.overlay, settled.whiteouts)
  BY <1>1, <1>2, <1>3, <1>4 DEF Learnt
<1>6. Present(overlay, p) => \A a \in Anc[p] \ {p} : overlay[a].kind = "Dir"
  BY <1>2 DEF AInv, Sound, IsTree
<1>7. Made(call'[t], base, settled.overlay, settled.whiteouts, overlay')
  BY <1>2, <1>3, <1>4, <1>6 DEF Made, Landed
<1>8. whiteouts' = Hides(call'[t], settled.whiteouts)
  BY <1>2, <1>3 DEF Hides
<1>9. QED
  BY <1>3, <1>5, <1>7, <1>8, Inside

\* The parent of a fresh or a copied path is no directory: pwrite answers so.
LEMMA ParentRefuses ==
  ASSUME NEW p, NEW off, NEW v, Permitted(p),
         Atomically!StatMerged(Parent[p]) \notin {"Dir", "ENOENT"},
         p \in settled.whiteouts \/ ~Present(settled.overlay, p),
         base' = base, settled'.overlay = settled.overlay,
         settled'.whiteouts = settled.whiteouts, settled'.res = "ENOTDIR"
  PROVE  Atomically!PWrite(p, off, v)
<1>1. Atomically!EnsureOverlayParent(p) = Atomically!Done("ENOTDIR", settled.overlay)
  BY DEF Atomically!EnsureOverlayParent
<1>2. Atomically!Landing(p) = Atomically!Done("ENOTDIR", settled.overlay)
  BY <1>1, SameTrees DEF Atomically!Landing, Atomically!CopyUp, Atomically!Done
<1>3. Atomically!PWriteRefused(p)
  BY <1>2, Words DEF Atomically!PWriteRefused, Atomically!Done
<1>4. QED
  BY <1>3 DEF Atomically!PWrite

LEMMA AParents ==
  ASSUME Alone, TInv, TInv', AInv, NEW t \in Thread, Parents(t)
  PROVE  AInv' /\ Follows
<1> DEFINE c == call[t]  p == c.path  s == StatMerged(Parent[p])
<1>1. /\ c.pc \in {"parents", "freshparents"} /\ c.pc # "idle"
      /\ c.verb \in {"pwrite", "truncate", "mkdir"}
  BY VerbAtPoint DEF Parents, TInv
<1>2. /\ overlay = settled.overlay /\ whiteouts = settled.whiteouts
      /\ Permitted(p) /\ p \in Path
      /\ c.verb = "truncate" =>
           Stat(base, settled.overlay, settled.whiteouts, p) = "File"
      /\ c.verb = "mkdir" =>
           Stat(base, settled.overlay, settled.whiteouts, p) = "ENOENT"
      /\ c.pc = "freshparents" <=> Afresh(c, settled.whiteouts)
      /\ c.verb # "mkdir" =>
           Afresh(c, settled.whiteouts) \/ ~Present(settled.overlay, p)
  BY <1>1, Known DEF Learnt, Made, Hides
<1>3. /\ s = Atomically!StatMerged(Parent[p])
      /\ s = Stat(base, settled.overlay, settled.whiteouts, Parent[p])
  BY <1>2, Words
<1>4. CASE /\ s = "Dir" \/ (s = "ENOENT" /\ c.verb # "mkdir")
           /\ call' = [call EXCEPT ![t].pc = "make",
                                   ![t].copied = IF At(t, "freshparents") THEN 1 ELSE 0]
           /\ UNCHANGED settled /\ Keep
  <2> DEFINE k == IF c.pc = "freshparents" THEN 1 ELSE 0
  <2>1. Moves(t, "make", k)
    BY <1>4, GotoMoves DEF TInv, At
  <2>2. /\ call'[t].pc = "make" /\ call'[t].copied = k
        /\ call'[t].verb = c.verb /\ call'[t].path = p
        /\ UNCHANGED <<base, settled, overlay, whiteouts>>
    <3>1. k \in Nat /\ "make" \in Pcs
      BY DEF Pcs
    <3>2. UNCHANGED <<base, settled, overlay, whiteouts>>
      BY <1>4 DEF Keep
    <3> HIDE DEF k
    <3>3. QED
      BY <2>1, <3>1, <3>2, Moved DEF TInv
  <2>3. Afresh(call'[t], settled.whiteouts) <=> Afresh(c, settled.whiteouts)
    BY <2>2 DEF Afresh
  <2>4. Learnt(call'[t], base, settled.overlay, settled.whiteouts)
    <3>1. Stat(base, settled.overlay, settled.whiteouts, Parent[p]) \in
            IF c.verb = "mkdir" THEN {"Dir"} ELSE {"Dir", "ENOENT"}
      BY <1>3, <1>4
    <3>2. k = 1 <=> Afresh(c, settled.whiteouts)
      BY <1>2
    <3> HIDE DEF k
    <3>3. QED
      BY <1>1, <1>2, <2>2, <2>3, <3>1, <3>2 DEF Learnt
  <2>5. /\ Made(call'[t], base, settled.overlay, settled.whiteouts, overlay')
        /\ whiteouts' = Hides(call'[t], settled.whiteouts)
    BY <1>2, <2>2 DEF Made, Hides
  <2>6. QED
    BY <2>2, <2>4, <2>5, Inside
<1>5. ASSUME NEW r, Refuse(t, r),
             \/ s = "ENOENT" /\ c.verb = "mkdir" /\ r = "ENOENT"
             \/ s \in {"File", "Link", "ENOTDIR"} /\ r = "ENOTDIR"
      PROVE  AInv' /\ Follows
  <2>1. Return(t, r) /\ base' = base
    BY <1>5 DEF Refuse
  <2>2. Atomically!Answer(r)
    BY <1>2, <1>5, Untouched
  <2>3. CASE c.verb = "mkdir"
    <3>1. Atomically!StatMerged(p) = "ENOENT" /\ Atomically!Permitted(p)
      BY <1>2, <2>3, Words
    <3>2. CowsVerb(c)
      BY <1>3, <1>5, <2>2, <2>3, <3>1 DEF CowsVerb, Atomically!Mkdir
    <3>3. QED
      BY <1>1, <2>1, <3>2, Answered
  <2>4. CASE c.verb = "truncate"
    BY <1>2, <1>3, <1>5, <2>4, AboveAFile DEF Afresh
  <2>5. CASE c.verb = "pwrite"
    <3>1. /\ settled'.overlay = settled.overlay
          /\ settled'.whiteouts = settled.whiteouts
          /\ settled'.res = "ENOTDIR"
      BY <1>2, <1>5, <2>1, <2>5, Returned DEF Refuse
    <3>2. Atomically!PWrite(p, c.off, c.arg)
      BY <1>2, <1>3, <1>5, <2>1, <2>5, <3>1, ParentRefuses DEF Afresh
    <3>3. CowsVerb(c)
      BY <2>5, <3>2 DEF CowsVerb
    <3>4. QED
      BY <1>1, <2>1, <3>3, Answered
  <2>6. QED
    BY <1>1, <2>3, <2>4, <2>5
<1>6. QED
  BY <1>1, <1>4, <1>5 DEF Parents

\* Where the parent of p is a directory or nothing, the way to p can be made.
LEMMA WayFree ==
  ASSUME TInv, NEW o, Sound(o), NEW w, NEW p \in Path,
         Stat(base, o, w, Parent[p]) \in {"Dir", "ENOENT"}
  PROVE  /\ \A a \in Anc[p] \ {p} : o[a].kind \in {"None", "Dir"}
         /\ \A a \in Anc[p] \ {p} : MakeDirs(o, Parent[p])[a].kind = "Dir"
         /\ MakeDirs(o, Parent[p])[p] = o[p]
         /\ MakeDirs(o, Parent[p]) \in [Path -> Node]
<1> DEFINE q == Parent[p]
<1>1. \A a \in Anc[p] \ {p} : o[a].kind \in {"None", "Dir"}
  <2>1. CASE q = Root
    BY <2>1, Ancestors
  <2>2. CASE q # Root
    <3>1. q \in Path /\ Anc[p] \ {p} = Anc[q] /\ Anc[q] \subseteq Path /\ q \in Anc[q]
      BY <2>2, Ancestors
    <3>2. CASE Present(o, q)
      <4>1. o[q].kind = "Dir"
        BY <2>2, <3>1, <3>2 DEF Stat, StatOver, Present, Sound, Node
      <4>2. QED
        BY <3>1, <3>2, <4>1 DEF Sound, IsTree
    <3>3. CASE ~Present(o, q)
      <4>1. \A a \in Anc[q] : o[a].kind # "File"
        BY <2>2, <3>3 DEF Stat, StatOver
      <4>2. QED
        BY <3>1, <4>1 DEF Sound, Node
    <3>4. QED
      BY <3>2, <3>3
  <2>3. QED
    BY <2>1, <2>2
<1>2. \A a \in Anc[p] \ {p} : MakeDirs(o, q)[a].kind = "Dir"
  BY <1>1, Ancestors, MakeDirsTree DEF Sound
<1>3. MakeDirs(o, q)[p] = o[p]
  BY PathAssumption DEF MakeDirs
<1>4. MakeDirs(o, q) \in [Path -> Node]
  BY MakeDirsType DEF Sound
<1>5. QED
  BY <1>1, <1>2, <1>3, <1>4

\* Where all ancestors are directories, nothing is left to make.
LEMMA WayMade ==
  ASSUME TInv, NEW p \in Path, \A a \in Anc[p] \ {p} : overlay[a].kind = "Dir"
  PROVE  /\ MakeDirs(overlay, Parent[p]) = overlay
         /\ ParentsAnswer(Parent[p]) = "OK"
         /\ ParentsAnswer(p) = IF overlay[p].kind = "File" THEN "EEXIST" ELSE "OK"
         /\ WriteAnswer(p) = IF overlay[p].kind = "Dir" THEN "EISDIR" ELSE "OK"
         /\ \A c : Written(p, c) = [overlay EXCEPT ![p] = File(c)]
<1>1. MakeDirs(overlay, Parent[p]) = overlay
  <2>1. overlay \in [Path -> Node]
    BY DEF TInv, StoreOK, Sound
  <2>2. \A a \in Path : MakeDirs(overlay, Parent[p])[a] = overlay[a]
    BY Ancestors DEF MakeDirs, Present
  <2>3. MakeDirs(overlay, Parent[p]) \in [Path -> Node]
    BY <2>1, MakeDirsType
  <2>4. QED
    BY <2>1, <2>2, <2>3
<1>2. ParentsAnswer(Parent[p]) = "OK"
  <2>1. CASE Parent[p] = Root
    BY <2>1 DEF ParentsAnswer
  <2>2. CASE Parent[p] # Root
    <3>1. Parent[p] \in Anc[Parent[p]] /\ Anc[Parent[p]] = Anc[p] \ {p}
      BY <2>2, Ancestors
    <3>2. QED
      BY <3>1 DEF ParentsAnswer
  <2>3. QED
    BY <2>1, <2>2
<1>3. ParentsAnswer(p) = IF overlay[p].kind = "File" THEN "EEXIST" ELSE "OK"
  BY PathAssumption DEF ParentsAnswer
<1>4. WriteAnswer(p) = IF overlay[p].kind = "Dir" THEN "EISDIR" ELSE "OK"
  BY <1>2 DEF WriteAnswer
<1>5. \A c : Written(p, c) = [overlay EXCEPT ![p] = File(c)]
  BY <1>1 DEF Written
<1>6. QED
  BY <1>1, <1>2, <1>3, <1>4, <1>5

LEMMA AMake ==
  ASSUME Alone, TInv, AInv, NEW t \in Thread, Make(t)
  PROVE  AInv' /\ Follows
<1> DEFINE c == call[t]  p == c.path  q == Parent[p]  S == settled.overlay
<1>1. c.pc = "make" /\ c.pc # "idle" /\ c.verb \in {"pwrite", "truncate", "mkdir"}
  BY VerbAtPoint DEF Make, At, TInv
<1>2. /\ overlay = S /\ whiteouts = settled.whiteouts
      /\ Permitted(p) /\ p \in Path
      /\ c.verb = "truncate" => Stat(base, S, settled.whiteouts, p) = "File"
      /\ c.verb = "mkdir" => Stat(base, S, settled.whiteouts, p) = "ENOENT"
      /\ c.copied = 1 <=> Afresh(c, settled.whiteouts)
      /\ c.verb # "mkdir" => Afresh(c, settled.whiteouts) \/ ~Present(S, p)
      /\ Stat(base, S, settled.whiteouts, q) \in
           IF c.verb = "mkdir" THEN {"Dir"} ELSE {"Dir", "ENOENT"}
  BY <1>1, Known DEF Learnt, Made, Hides
<1>3. /\ \A a \in Anc[p] \ {p} : S[a].kind \in {"None", "Dir"}
      /\ \A a \in Anc[p] \ {p} : MakeDirs(S, q)[a].kind = "Dir"
  BY <1>2, WayFree DEF AInv
<1>4. ParentsAnswer(q) = "OK"
  <2>1. q # Root => q \in Anc[q] /\ Anc[q] = Anc[p] \ {p}
    BY <1>2, Ancestors
  <2>2. QED
    BY <1>2, <1>3, <2>1 DEF ParentsAnswer
<1>5. /\ overlay' = MakeDirs(S, q)
      /\ call' = [call EXCEPT ![t].pc = AfterMake(t), ![t].copied = 0]
      /\ UNCHANGED <<settled, base, whiteouts>>
  BY <1>2, <1>4 DEF Make, KeepRest
<1>6. /\ call'[t].pc = AfterMake(t) /\ call'[t].copied = 0
      /\ call'[t].verb = c.verb /\ call'[t].path = p
  <2>1. AfterMake(t) \in Pcs
    BY DEF AfterMake, Pcs
  <2>2. Moves(t, AfterMake(t), 0)
    BY <1>5, <2>1, GotoMoves DEF TInv
  <2>3. QED
    BY <2>1, <2>2, Moved DEF TInv
<1>7. Afresh(call'[t], settled.whiteouts) <=> Afresh(c, settled.whiteouts)
  BY <1>6 DEF Afresh
<1>8. BaseStat(p) = "ENOENT" <=> ~Present(base, p)
  <2>1. base[p] \in Node
    BY <1>1, Known
  <2>2. QED
    BY <2>1 DEF BaseStat, Present, Node
<1>9. Learnt(call'[t], base, settled.overlay, settled.whiteouts)
  BY <1>1, <1>2, <1>6, <1>7, <1>8 DEF Learnt, AfterMake
<1>10. Made(call'[t], base, settled.overlay, settled.whiteouts, overlay')
  <2>1. CASE AfterMake(t) = "land"
    <3>1. c.verb # "mkdir" /\ (Afresh(c, settled.whiteouts) \/ ~Present(base, p))
      BY <1>2, <1>8, <2>1 DEF AfterMake
    <3>2. Landed(call'[t], base, S, settled.whiteouts, overlay')
      BY <1>2, <1>5, <1>6, <1>7, <3>1 DEF Landed
    <3>3. QED
      BY <1>3, <1>5, <1>6, <2>1, <3>2 DEF Made
  <2>2. CASE AfterMake(t) \in {"create", "makedir"}
    BY <1>3, <1>5, <1>6, <2>2 DEF Made
  <2>3. QED
    BY <2>1, <2>2 DEF AfterMake
<1>11. whiteouts' = Hides(call'[t], settled.whiteouts)
  BY <1>2, <1>5, <1>6 DEF Hides, AfterMake
<1>12. QED
  BY <1>5, <1>9, <1>10, <1>11, Inside

\* A copy grows block by block.
LEMMA CopyGrows ==
  ASSUME NEW d \in Seq(Block)
  PROVE  /\ SubSeq(d, 1, 0) = << >>
         /\ SubSeq(d, 1, Len(d)) = d
         /\ \A i \in Nat : i < Len(d) =>
              WriteAt(SubSeq(d, 1, i), i, d[i + 1]) = SubSeq(d, 1, i + 1)
<1>1. SubSeq(d, 1, 0) = << >> /\ SubSeq(d, 1, Len(d)) = d
  OBVIOUS
<1>2. ASSUME NEW i \in Nat, i < Len(d)
      PROVE  WriteAt(SubSeq(d, 1, i), i, d[i + 1]) = SubSeq(d, 1, i + 1)
  <2> DEFINE a == SubSeq(d, 1, i)  b == SubSeq(d, 1, i + 1)
  <2>1. a \in Seq(Block) /\ Len(a) = i /\ \A j \in 1 .. i : a[j] = d[j]
    BY <1>2
  <2>2. b \in Seq(Block) /\ Len(b) = i + 1 /\ \A j \in 1 .. i + 1 : b[j] = d[j]
    BY <1>2
  <2> HIDE DEF a, b
  <2>3. WriteAt(a, i, d[i + 1]) =
          [j \in 1 .. i + 1 |-> IF j = i + 1 THEN d[i + 1]
                                ELSE IF j <= i THEN a[j] ELSE Zero]
    BY <2>1 DEF WriteAt
  <2>4. \A j \in 1 .. i + 1 :
          (IF j = i + 1 THEN d[i + 1] ELSE IF j <= i THEN a[j] ELSE Zero) = b[j]
    BY <2>1, <2>2
  <2>5. b = [j \in 1 .. i + 1 |-> b[j]]
    BY <2>2
  <2>6. QED
    BY <2>3, <2>4, <2>5 DEF a, b
<1>3. QED
  BY <1>1, <1>2

\* What is known where the parents have been made and p is not there yet.
LEMMA AtCopy ==
  ASSUME TInv, AInv, NEW t \in Thread, call[t].pc \in {"create", "copy"}
  PROVE  LET c == call[t]  p == c.path  S == settled.overlay  W == settled.whiteouts IN
         /\ c.pc # "idle" /\ c.verb \in {"pwrite", "truncate"} /\ p \in Path
         /\ whiteouts = W /\ Permitted(p) /\ ~Afresh(c, W) /\ S[p] = Absent
         /\ c.verb = "truncate" => Stat(base, S, W, p) = "File" /\ base[p].kind = "File"
         /\ Stat(base, S, W, Parent[p]) \in {"Dir", "ENOENT"}
         /\ base[p] \in Node /\ c.copied \in Nat
         /\ MakeDirs(S, Parent[p]) \in [Path -> Node] /\ MakeDirs(S, Parent[p])[p] = Absent
         /\ \A a \in Anc[p] \ {p} : a # p /\ overlay[a].kind = "Dir"
<1> DEFINE c == call[t]  p == c.path  S == settled.overlay  W == settled.whiteouts
<1>1. c.pc # "idle" /\ c.verb \in {"pwrite", "truncate"}
  BY VerbAtPoint DEF TInv
<1>2. /\ p \in Path /\ base[p] \in Node /\ c.copied \in Nat /\ S[p] \in Node
      /\ whiteouts = W /\ Permitted(p) /\ ~Afresh(c, W) /\ ~Present(S, p)
      /\ c.verb = "truncate" => Stat(base, S, W, p) = "File"
      /\ Stat(base, S, W, Parent[p]) \in {"Dir", "ENOENT"}
      /\ \A a \in Anc[p] \ {p} : overlay[a].kind = "Dir"
  BY <1>1, Known DEF Learnt, Made, Hides
<1>3. S[p] = Absent
  BY <1>2 DEF Present, Node, Absent
<1>4. c.verb = "truncate" => base[p].kind = "File"
  BY <1>2, PathAssumption DEF Stat, StatOver
<1>5. MakeDirs(S, Parent[p]) \in [Path -> Node] /\ MakeDirs(S, Parent[p])[p] = Absent
  BY <1>2, <1>3, WayFree DEF AInv
<1>6. QED
  BY <1>1, <1>2, <1>3, <1>4, <1>5

\* A symlink is not copied up, and a write to it is refused.
LEMMA LinkRefused ==
  ASSUME TInv, NEW p \in Path, NEW off, NEW v, Permitted(p),
         p \notin settled.whiteouts, ~Present(settled.overlay, p),
         Stat(base, settled.overlay, settled.whiteouts, Parent[p]) \in {"Dir", "ENOENT"},
         base[p].kind = "Link",
         UNCHANGED base, settled'.overlay = MakeDirs(settled.overlay, Parent[p]),
         settled'.whiteouts = settled.whiteouts, settled'.res = "EINVAL"
  PROVE  Atomically!PWrite(p, off, v)
<1> DEFINE up == Atomically!Done("OK", MakeDirs(settled.overlay, Parent[p]))
<1>1. Atomically!EnsureOverlayParent(p) = up
  BY Words, SameTrees DEF Atomically!EnsureOverlayParent
<1>2. up.res = "OK" /\ up.overlay = MakeDirs(settled.overlay, Parent[p])
  BY DEF Atomically!Done
<1> HIDE DEF up
<1>3. Atomically!BaseStat(p) = "Link"
  BY SameTrees DEF Atomically!BaseStat, Present
<1>4. Atomically!CopyUp(p) = Atomically!Done("EINVAL", MakeDirs(settled.overlay, Parent[p]))
  BY <1>1, <1>2, <1>3, SameTrees DEF Atomically!CopyUp
<1>5. Atomically!PWriteRefused(p)
  BY <1>4, Words DEF Atomically!PWriteRefused, Atomically!Landing, Atomically!Done
<1>6. QED
  BY <1>5 DEF Atomically!PWrite

LEMMA ACreate ==
  ASSUME Alone, TInv, TInv', AInv, NEW t \in Thread, Create(t)
  PROVE  AInv' /\ Follows
<1> DEFINE c == call[t]  p == c.path  S == settled.overlay  W == settled.whiteouts
           o == MakeDirs(S, Parent[p])
<1>1. c.pc = "create" /\ c.pc # "idle"
  BY DEF Create, At
<1>2. overlay = o /\ c.copied = 0 /\ Present(base, p)
  BY <1>1, Known DEF Learnt, Made
<1>3. /\ c.verb \in {"pwrite", "truncate"} /\ p \in Path
      /\ whiteouts = W /\ Permitted(p) /\ ~Afresh(c, W) /\ S[p] = Absent
      /\ c.verb = "truncate" => Stat(base, S, W, p) = "File" /\ base[p].kind = "File"
      /\ Stat(base, S, W, Parent[p]) \in {"Dir", "ENOENT"}
      /\ base[p] \in Node
      /\ o \in [Path -> Node] /\ o[p] = Absent
      /\ \A a \in Anc[p] \ {p} : a # p /\ overlay[a].kind = "Dir"
  BY <1>1, AtCopy
<1>4. ~Present(S, p) /\ overlay[p].kind = "None" /\ overlay[p].data = << >>
  BY <1>2, <1>3 DEF Present, Absent
<1>5. /\ ParentsAnswer(p) = "OK" /\ WriteAnswer(p) = "OK"
      /\ Written(p, << >>) = [overlay EXCEPT ![p] = File(<< >>)]
  BY <1>3, <1>4, WayMade
<1> HIDE DEF o
<1>6. CASE base[p].kind = "Link" /\ Refuse(t, "EINVAL")
  <2>1. Return(t, "EINVAL") /\ UNCHANGED <<base, overlay, whiteouts>>
    BY <1>6 DEF Refuse
  <2>2. c.verb = "pwrite" /\ p \notin W
    BY <1>3, <1>6 DEF Afresh
  <2>3. settled'.overlay = o /\ settled'.whiteouts = W /\ settled'.res = "EINVAL"
    BY <1>2, <1>3, <2>1, Returned
  <2>4. Atomically!PWrite(p, c.off, c.arg)
    BY <1>3, <1>4, <1>6, <2>1, <2>2, <2>3, LinkRefused DEF o
  <2>5. CowsVerb(c)
    BY <2>2, <2>4 DEF CowsVerb
  <2>6. QED
    BY <1>1, <2>1, <2>5, Answered
<1>7. CASE /\ base[p].kind = "Dir" /\ overlay' = MakeDirs(overlay, p)
           /\ Goto(t, "land") /\ KeepRest
  <2>1. base[p] = Directory
    BY <1>3, <1>7 DEF Node, Directory
  <2>2. overlay' = [o EXCEPT ![p] = base[p]]
    <3>1. \A a \in Path : a \in Anc[p] /\ ~Present(overlay, a) <=> a = p
      BY <1>3, <1>4, Ancestors DEF Present
    <3>2. p # Root
      BY <1>3, PathAssumption
    <3>3. MakeDirs(overlay, p) = [a \in Path |-> IF a = p THEN Directory ELSE overlay[a]]
      BY <3>1, <3>2 DEF MakeDirs
    <3>4. QED
      BY <1>2, <1>3, <1>7, <2>1, <3>3
  <2>3. /\ call'[t].pc = "land" /\ call'[t].verb = c.verb /\ call'[t].path = p
        /\ UNCHANGED <<base, settled, whiteouts>>
    BY <1>7, GoneTo DEF KeepRest, Pcs
  <2>4. Learnt(call'[t], base, S, W)
    BY <1>3, <2>3 DEF Learnt
  <2>5. ~Afresh(call'[t], W)
    BY <1>3, <2>3 DEF Afresh
  <2>6. Landed(call'[t], base, S, W, overlay')
    BY <1>3, <1>4, <1>7, <2>2, <2>3, <2>5 DEF Landed, o
  <2>7. \A a \in Anc[p] \ {p} : overlay'[a].kind = "Dir"
    BY <1>2, <1>3, <2>2, Ancestors
  <2>8. Made(call'[t], base, S, W, overlay') /\ whiteouts' = Hides(call'[t], W)
    BY <1>3, <2>3, <2>6, <2>7 DEF Made, Hides
  <2>9. QED
    BY <2>3, <2>4, <2>8, Inside
<1>8. CASE /\ base[p].kind = "File" /\ overlay' = Written(p, overlay[p].data)
           /\ Goto(t, "copy") /\ KeepRest
  <2>1. overlay' = [o EXCEPT ![p] = File(<< >>)]
    BY <1>2, <1>4, <1>5, <1>8
  <2>2. /\ call'[t].pc = "copy" /\ call'[t].verb = c.verb /\ call'[t].path = p
        /\ call'[t].copied = 0
        /\ UNCHANGED <<base, settled, whiteouts>>
    BY <1>2, <1>8, GoneTo DEF KeepRest, Pcs
  <2>3. Afresh(call'[t], W) <=> Afresh(c, W)
    BY <2>2 DEF Afresh
  <2>4. Learnt(call'[t], base, S, W)
    BY <1>3, <1>4, <2>2, <2>3 DEF Learnt
  <2>5. \A a \in Anc[p] \ {p} : overlay'[a].kind = "Dir"
    BY <1>2, <1>3, <2>1, Ancestors
  <2>6. 0 <= Len(base[p].data) /\ SubSeq(base[p].data, 1, 0) = << >>
    BY <1>3, CopyGrows DEF Node, Content
  <2>7. Made(call'[t], base, S, W, overlay') /\ whiteouts' = Hides(call'[t], W)
    BY <1>3, <2>1, <2>2, <2>5, <2>6 DEF Made, Hides, o
  <2>8. QED
    BY <2>2, <2>4, <2>7, Inside
<1>9. QED
  BY <1>2, <1>3, <1>5, <1>6, <1>7, <1>8 DEF Create, BaseStat, Present, Node

LEMMA ACopy ==
  ASSUME Alone, TInv, TInv', AInv, NEW t \in Thread, Copy(t)
  PROVE  AInv' /\ Follows
<1> DEFINE c == call[t]  p == c.path  S == settled.overlay  W == settled.whiteouts
           o == MakeDirs(S, Parent[p])  d == base[p].data  i == c.copied
<1>1. c.pc = "copy" /\ c.pc # "idle"
  BY DEF Copy, At
<1>2. i <= Len(d) /\ overlay = [o EXCEPT ![p] = File(SubSeq(d, 1, i))]
  BY <1>1, Known DEF Made
<1>3. /\ c.verb \in {"pwrite", "truncate"} /\ p \in Path
      /\ whiteouts = W /\ Permitted(p) /\ ~Afresh(c, W) /\ S[p] = Absent
      /\ c.verb = "truncate" => Stat(base, S, W, p) = "File" /\ base[p].kind = "File"
      /\ Stat(base, S, W, Parent[p]) \in {"Dir", "ENOENT"}
      /\ base[p] \in Node /\ i \in Nat
      /\ o \in [Path -> Node]
      /\ \A a \in Anc[p] \ {p} : a # p /\ overlay[a].kind = "Dir"
  BY <1>1, AtCopy
<1>4. base[p].kind = "File" /\ d \in Seq(Block) /\ base[p] = File(d)
  BY <1>1, <1>3, Busy DEF CallOK, Node, Content, File
<1> HIDE DEF o
<1>5. overlay[p] = File(SubSeq(d, 1, i)) /\ ~Present(S, p)
  BY <1>2, <1>3 DEF Present, Absent
<1>6. WriteAnswer(p) = "OK" /\ \A x : Written(p, x) = [overlay EXCEPT ![p] = File(x)]
  BY <1>3, <1>5, WayMade DEF File
<1>7. CASE i = Len(d) /\ Goto(t, "land") /\ Keep
  <2>1. overlay = [o EXCEPT ![p] = base[p]]
    BY <1>2, <1>4, <1>7, CopyGrows
  <2>2. /\ call'[t].pc = "land" /\ call'[t].verb = c.verb /\ call'[t].path = p
        /\ UNCHANGED <<base, settled, overlay, whiteouts>>
    BY <1>7, GoneTo DEF Keep, Pcs
  <2>3. Learnt(call'[t], base, S, W)
    BY <1>3, <2>2 DEF Learnt
  <2>4. ~Afresh(call'[t], W)
    BY <1>3, <2>2 DEF Afresh
  <2>5. Landed(call'[t], base, S, W, overlay')
    BY <1>3, <1>4, <1>5, <2>1, <2>2, <2>4 DEF Landed, o
  <2>6. Made(call'[t], base, S, W, overlay') /\ whiteouts' = Hides(call'[t], W)
    BY <1>3, <2>2, <2>5 DEF Made, Hides
  <2>7. QED
    BY <2>2, <2>3, <2>6, Inside
<1>8. CASE /\ i < Len(d)
           /\ overlay' = Written(p, WriteAt(overlay[p].data, i, d[i + 1]))
           /\ call' = [call EXCEPT ![t].copied = i + 1]
           /\ UNCHANGED settled /\ KeepRest
  <2>1. overlay[p].data = SubSeq(d, 1, i)
    <3>1. \A x : File(x).data = x
      BY DEF File
    <3>2. QED
      BY <1>5, <3>1
  <2>2. overlay' = [overlay EXCEPT ![p] = File(SubSeq(d, 1, i + 1))]
    <3>1. WriteAt(SubSeq(d, 1, i), i, d[i + 1]) = SubSeq(d, 1, i + 1)
      BY <1>3, <1>4, <1>8, CopyGrows
    <3>2. overlay' = Written(p, WriteAt(SubSeq(d, 1, i), i, d[i + 1]))
      BY <1>8, <2>1
    <3>3. QED
      BY <1>6, <3>1, <3>2
  <2>3. overlay' = [o EXCEPT ![p] = File(SubSeq(d, 1, i + 1))]
    BY <1>2, <1>3, <2>2
  <2>4. Moves(t, "copy", i + 1)
    BY <1>1, <1>8, GotoMoves DEF TInv
  <2>5. /\ call'[t].pc = "copy" /\ call'[t].copied = i + 1
        /\ call'[t].verb = c.verb /\ call'[t].path = p
    BY <1>3, <2>4, Moved DEF TInv, Pcs
  <2>6. UNCHANGED <<base, settled, whiteouts>>
    BY <1>8 DEF KeepRest
  <2>7. Afresh(call'[t], W) <=> Afresh(c, W)
    BY <2>5 DEF Afresh
  <2>8. Learnt(call'[t], base, S, W)
    BY <1>3, <1>5, <2>5, <2>7 DEF Learnt
  <2>9. \A a \in Anc[p] \ {p} : overlay'[a].kind = "Dir"
    BY <1>3, <2>2, Ancestors
  <2>10. i + 1 <= Len(d)
    <3>1. i \in Nat
      BY <1>3
    <3>2. Len(d) \in Nat
      BY <1>4
    <3>3. i < Len(d)
      BY <1>8
    <3> HIDE DEF d, i
    <3>4. QED
      BY <3>1, <3>2, <3>3
  <2>11. Made(call'[t], base, S, W, overlay') /\ whiteouts' = Hides(call'[t], W)
    BY <1>3, <2>3, <2>5, <2>6, <2>9, <2>10 DEF Made, Hides, o
  <2>12. QED
    BY <2>6, <2>8, <2>11, Inside
<1>9. QED
  BY <1>6, <1>7, <1>8 DEF Copy

\* What has landed is what Cow copies up, or lands on.
LEMMA CopyUpDone ==
  ASSUME TInv, NEW c, c.path \in Path, ~Afresh(c, settled.whiteouts),
         Landed(c, base, settled.overlay, settled.whiteouts, overlay)
  PROVE  Atomically!CopyUp(c.path) = Atomically!Done("OK", overlay)
<1> DEFINE p == c.path  S == settled.overlay  o == MakeDirs(S, Parent[p])
<1>1. base[p] \in Node
  BY ImageTree DEF TInv
<1>2. CASE Present(S, p)
  BY <1>2, SameTrees DEF Landed, Atomically!CopyUp
<1>3. CASE ~Present(S, p)
  <2>1. Atomically!EnsureOverlayParent(p) = Atomically!Done("OK", o)
    BY <1>3, Words, SameTrees DEF Landed, Atomically!EnsureOverlayParent
  <2>2. Atomically!Done("OK", o).res = "OK" /\ Atomically!Done("OK", o).overlay = o
    BY DEF Atomically!Done
  <2>3. Atomically!BaseStat(p) = IF base[p].kind = "None" THEN "ENOENT" ELSE base[p].kind
    BY SameTrees DEF Atomically!BaseStat, Present
  <2> HIDE DEF o
  <2>4. CASE ~Present(base, p) /\ overlay = o
    BY <1>3, <2>1, <2>2, <2>3, <2>4, SameTrees DEF Atomically!CopyUp, Present
  <2>5. CASE base[p].kind = "File" /\ overlay = [o EXCEPT ![p] = base[p]]
    BY <1>3, <2>1, <2>2, <2>3, <2>5, SameTrees DEF Atomically!CopyUp
  <2>6. CASE base[p].kind = "Dir" /\ overlay = [o EXCEPT ![p] = base[p]]
    <3>1. base[p] = Directory
      BY <1>1, <2>6 DEF Node, Directory
    <3>2. QED
      BY <1>3, <2>1, <2>2, <2>3, <2>6, <3>1, SameTrees DEF Atomically!CopyUp
  <2>7. QED
    BY <1>3, <2>4, <2>5, <2>6 DEF Landed, o
<1>4. QED
  BY <1>2, <1>3

LEMMA LandingDone ==
  ASSUME TInv, NEW c, c.path \in Path, c.verb = "pwrite",
         Landed(c, base, settled.overlay, settled.whiteouts, overlay)
  PROVE  Atomically!Landing(c.path) = Atomically!Done("OK", overlay)
<1>1. CASE Afresh(c, settled.whiteouts)
  <2>1. /\ c.path \in settled.whiteouts
        /\ Stat(base, settled.overlay, settled.whiteouts, Parent[c.path])
             \in {"Dir", "ENOENT"}
        /\ overlay = MakeDirs(settled.overlay, Parent[c.path])
    BY <1>1 DEF Landed, Afresh
  <2>2. QED
    BY <2>1, Words, SameTrees DEF Atomically!Landing, Atomically!EnsureOverlayParent
<1>2. CASE ~Afresh(c, settled.whiteouts)
  BY <1>2, CopyUpDone DEF Atomically!Landing, Afresh
<1>3. QED
  BY <1>1, <1>2

LEMMA AtLand ==
  ASSUME TInv, AInv, NEW t \in Thread, call[t].pc = "land"
  PROVE  LET c == call[t]  p == c.path IN
         /\ c.pc # "idle" /\ p \in Path /\ Permitted(p)
         /\ whiteouts = settled.whiteouts
         /\ c.verb = "truncate" =>
              Stat(base, settled.overlay, settled.whiteouts, p) = "File"
         /\ Landed(c, base, settled.overlay, settled.whiteouts, overlay)
         /\ \A a \in Anc[p] \ {p} : overlay[a].kind = "Dir"
BY Known DEF Learnt, Made, Hides

LEMMA ALandPWrite ==
  ASSUME Alone, TInv, TInv', AInv, NEW t \in Thread, LandPWrite(t)
  PROVE  AInv' /\ Follows
<1> DEFINE c == call[t]  p == c.path  W == settled.whiteouts
           new == File(WriteAt(overlay[p].data, c.off, c.arg))
<1>1. c.pc = "land" /\ c.verb = "pwrite"
  BY DEF LandPWrite, At
<1>2. /\ c.pc # "idle" /\ p \in Path /\ Permitted(p) /\ whiteouts = W
      /\ Landed(c, base, settled.overlay, W, overlay)
      /\ \A a \in Anc[p] \ {p} : overlay[a].kind = "Dir"
  BY <1>1, AtLand
<1>3. /\ Atomically!Landing(p).res = "OK" /\ Atomically!Landing(p).overlay = overlay
      /\ Atomically!Permitted(p)
  BY <1>1, <1>2, LandingDone, Words DEF Atomically!Done
<1>4. /\ WriteAnswer(p) = IF overlay[p].kind = "Dir" THEN "EISDIR" ELSE "OK"
      /\ \A x : Written(p, x) = [overlay EXCEPT ![p] = File(x)]
  BY <1>2, WayMade
<1>5. CASE overlay[p].kind = "Dir" /\ Refuse(t, "EISDIR")
  <2>1. Return(t, "EISDIR") /\ UNCHANGED <<base, overlay, whiteouts>>
    BY <1>5 DEF Refuse
  <2>2. /\ settled'.overlay = overlay /\ settled'.whiteouts = W
        /\ settled'.res = "EISDIR"
    BY <1>2, <2>1, Returned
  <2>3. Atomically!PWriteRefused(p)
    BY <1>3, <1>5, <2>1, <2>2 DEF Atomically!PWriteRefused
  <2>4. CowsVerb(c)
    BY <1>1, <2>3 DEF CowsVerb, Atomically!PWrite
  <2>5. QED
    BY <1>2, <2>1, <2>4, Answered
<1>6. CASE /\ overlay[p].kind # "Dir" /\ overlay' = [overlay EXCEPT ![p] = new]
           /\ UNCHANGED <<base, whiteouts>> /\ Return(t, "OK")
  <2>1. /\ settled'.overlay = [overlay EXCEPT ![p] = new] /\ settled'.whiteouts = W
        /\ settled'.res = "OK"
    BY <1>2, <1>6, Returned
  <2>2. Atomically!File(Atomically!WriteAt(overlay[p].data, c.off, c.arg)) = new
    BY SameTrees
  <2> HIDE DEF new
  <2>3. Atomically!PWriteLands(p, c.off, c.arg)
    BY <1>3, <1>6, <2>1, <2>2 DEF Atomically!PWriteLands
  <2>4. CowsVerb(c)
    BY <1>1, <2>3 DEF CowsVerb, Atomically!PWrite
  <2>5. QED
    BY <1>2, <1>6, <2>4, Answered
<1>7. QED
  BY <1>4, <1>5, <1>6 DEF LandPWrite

LEMMA ALandTruncate ==
  ASSUME Alone, TInv, TInv', AInv, NEW t \in Thread, LandTruncate(t)
  PROVE  AInv' /\ Follows
<1> DEFINE c == call[t]  p == c.path  S == settled.overlay  W == settled.whiteouts
           new == File(SetLen(overlay[p].data, c.off))
<1>1. c.pc = "land" /\ c.verb = "truncate"
  BY DEF LandTruncate, At
<1>2. /\ c.pc # "idle" /\ p \in Path /\ Permitted(p) /\ whiteouts = W
      /\ Stat(base, S, W, p) = "File"
      /\ Landed(c, base, S, W, overlay) /\ ~Afresh(c, W)
  BY <1>1, AtLand DEF Afresh
<1>3. overlay[p].kind = "File"
  <2>1. CASE Present(S, p)
    <3>1. S[p] \in Node /\ p # Root
      BY <1>2, PathAssumption DEF AInv, Sound
    <3>2. S[p].kind = "File"
      BY <1>2, <2>1, <3>1 DEF Stat, StatOver, Present, Node
    <3>3. QED
      BY <1>2, <2>1, <3>2 DEF Landed
  <2>2. CASE ~Present(S, p)
    <3>1. base[p].kind = "File" /\ Present(base, p)
      BY <1>2, <2>2, PathAssumption DEF Stat, StatOver
    <3>2. overlay = [MakeDirs(S, Parent[p]) EXCEPT ![p] = base[p]]
      BY <1>2, <2>2, <3>1 DEF Landed
    <3>3. MakeDirs(S, Parent[p]) \in [Path -> Node]
      BY MakeDirsType DEF AInv, Sound
    <3>4. QED
      BY <1>2, <3>1, <3>2, <3>3
  <2>3. QED
    BY <2>1, <2>2
<1>4. OverlayStat(p) = "File"
  BY <1>3 DEF OverlayStat, Present
<1>5. /\ overlay' = [overlay EXCEPT ![p] = File(SetLen(@.data, c.off))]
      /\ UNCHANGED <<base, whiteouts>> /\ Return(t, "OK")
  BY <1>4 DEF LandTruncate, KeepRest
<1>6. overlay' = [overlay EXCEPT ![p] = new]
  BY <1>5
<1>7. /\ settled'.overlay = overlay' /\ settled'.whiteouts = W /\ settled'.res = "OK"
  BY <1>2, <1>5, Returned
<1>8. /\ Atomically!CopyUp(p).overlay = overlay /\ Atomically!Permitted(p)
      /\ Atomically!StatMerged(p) = "File"
  BY <1>2, CopyUpDone, Words DEF Atomically!Done
<1>9. Atomically!File(Atomically!SetLen(overlay[p].data, c.off)) = new
  BY SameTrees
<1>10. [overlay EXCEPT ![p] = Atomically!File(Atomically!SetLen(@.data, c.off))]
         = [overlay EXCEPT ![p] = new]
  BY <1>9
<1> HIDE DEF new
<1>11. Atomically!Truncate(p, c.off)
  BY <1>5, <1>6, <1>7, <1>8, <1>10 DEF Atomically!Truncate
<1>12. CowsVerb(c)
  BY <1>1, <1>11 DEF CowsVerb
<1>13. QED
  BY <1>2, <1>5, <1>12, Answered

LEMMA AMakeDir ==
  ASSUME Alone, TInv, TInv', AInv, NEW t \in Thread, MakeDir(t)
  PROVE  AInv' /\ Follows
<1> DEFINE c == call[t]  p == c.path  S == settled.overlay  W == settled.whiteouts
<1>1. c.pc = "makedir" /\ c.pc # "idle" /\ c.verb = "mkdir"
  BY VerbAtPoint DEF MakeDir, At, TInv
<1>2. /\ p \in Path /\ Permitted(p) /\ whiteouts = W
      /\ Stat(base, S, W, p) = "ENOENT" /\ Stat(base, S, W, Parent[p]) = "Dir"
      /\ overlay = MakeDirs(S, Parent[p])
      /\ \A a \in Anc[p] \ {p} : overlay[a].kind = "Dir"
      /\ S[p] \in Node
  BY <1>1, Known DEF Learnt, Made, Hides
<1>3. overlay[p].kind = "None"
  <2>1. S[p].kind = "None"
    BY <1>2, PathAssumption DEF Stat, StatOver, Present, Node
  <2>2. MakeDirs(S, Parent[p])[p] = S[p]
    BY <1>2, WayFree DEF AInv
  <2>3. QED
    BY <1>2, <2>1, <2>2
<1>4. OverlayStat(p) = "ENOENT"
  BY <1>2, <1>3 DEF OverlayStat, Present
<1>5. Parent[p] \in OverlayEntries
  <2>1. CASE Parent[p] = Root
    BY <2>1 DEF OverlayEntries
  <2>2. CASE Parent[p] # Root
    <3>1. Parent[p] \in Path /\ Parent[p] \in Anc[p] \ {p}
      BY <1>2, <2>2, PathAssumption
    <3>2. QED
      BY <1>2, <3>1 DEF OverlayEntries, Present
  <2>3. QED
    BY <2>1, <2>2
<1>6. /\ overlay' = [overlay EXCEPT ![p] = Directory]
      /\ UNCHANGED <<base, whiteouts>> /\ Return(t, "OK")
  BY <1>3, <1>4, <1>5 DEF MakeDir, KeepRest, Present
<1>7. /\ settled'.overlay = [MakeDirs(S, Parent[p]) EXCEPT ![p] = Directory]
      /\ settled'.whiteouts = W /\ settled'.res = "OK"
  BY <1>2, <1>6, Returned
<1>8. /\ Atomically!StatMerged(p) = "ENOENT" /\ Atomically!StatMerged(Parent[p]) = "Dir"
      /\ Atomically!Permitted(p)
  BY <1>2, Words
<1>9. Atomically!Mkdir(p)
  BY <1>6, <1>7, <1>8, SameTrees DEF Atomically!Mkdir
<1>10. CowsVerb(c)
  BY <1>1, <1>9 DEF CowsVerb
<1>11. QED
  BY <1>1, <1>6, <1>10, Answered

\* What a removal leaves, in Cow.
LEMMA Removes ==
  ASSUME Alone, TInv, TInv', NEW t \in Thread, call[t].pc # "idle",
         call[t].verb = "remove", Permitted(call[t].path),
         Removable(base, settled.overlay, settled.whiteouts, call[t].path),
         Return(t, "OK"), base' = base,
         overlay' = [settled.overlay EXCEPT ![call[t].path] = Absent],
         whiteouts' = settled.whiteouts \cup
                        (IF Present(base, call[t].path) THEN {call[t].path} ELSE {})
  PROVE  AInv' /\ Follows
<1> DEFINE p == call[t].path
<1>1. /\ settled'.overlay = overlay' /\ settled'.whiteouts = whiteouts'
      /\ settled'.res = "OK"
  BY Returned
<1>2. /\ \/ Atomically!StatMerged(p) \in {"File", "Link"}
         \/ Atomically!StatMerged(p) = "Dir" /\ Atomically!ReadDir(p) = {}
      /\ Atomically!Permitted(p)
  BY Words DEF Removable
<1>3. Atomically!Remove(p)
  BY <1>1, <1>2, SameTrees DEF Atomically!Remove
<1>4. CowsVerb(call[t])
  BY <1>3 DEF CowsVerb
<1>5. QED
  BY <1>4, Answered

LEMMA AtRemoval ==
  ASSUME TInv, AInv, NEW t \in Thread,
         call[t].pc \in {"unlink", "mark", "store", "rename"}
  PROVE  LET c == call[t]  p == c.path  S == settled.overlay  W == settled.whiteouts IN
         /\ c.pc # "idle" /\ c.verb = "remove" /\ p \in Path /\ Permitted(p)
         /\ Removable(base, S, W, p)
         /\ c.pc = "unlink" => overlay = S
         /\ c.pc # "unlink" =>
              overlay = [S EXCEPT ![p] = Absent] /\ Present(base, p)
         /\ whiteouts = IF c.pc \in {"store", "rename"} THEN W \cup {p} ELSE W
<1>1. call[t].pc # "idle" /\ call[t].verb = "remove"
  BY VerbAtPoint DEF TInv
<1>2. QED
  BY <1>1, Known DEF Learnt, Made, Hides

LEMMA AUnlink ==
  ASSUME Alone, TInv, TInv', AInv, NEW t \in Thread, Unlink(t)
  PROVE  AInv' /\ Follows
<1> DEFINE c == call[t]  p == c.path  S == settled.overlay  W == settled.whiteouts
<1>1. c.pc = "unlink"
  BY DEF Unlink, At
<1>2. /\ c.pc # "idle" /\ c.verb = "remove" /\ p \in Path /\ Permitted(p)
      /\ Removable(base, S, W, p) /\ overlay = S /\ whiteouts = W
  BY <1>1, AtRemoval
<1>3. \A x \in Children(p) : ~Present(overlay, x)
  <2>1. SUFFICES ASSUME NEW x \in Children(p), Present(S, x) PROVE FALSE
    BY <1>2
  <2>2. x \in Path /\ p \in Anc[x] \ {x} /\ p # Root
    <3>1. x \in Path /\ Parent[x] = p /\ p # Root
      BY <1>2, PathAssumption DEF Children
    <3>2. Anc[x] \ {x} = Anc[p] /\ p \in Anc[p]
      BY <1>2, <3>1, Ancestors
    <3>3. QED
      BY <3>1, <3>2
  <2>3. S[p].kind = "Dir"
    BY <2>1, <2>2 DEF AInv, Sound, IsTree
  <2>4. Stat(base, S, W, p) = "Dir"
    BY <2>2, <2>3 DEF Stat, StatOver, Present
  <2>5. x \in Listed(base, S, W, p)
    BY <2>1 DEF Listed
  <2>6. QED
    BY <1>2, <2>4, <2>5 DEF Removable
<1>4. /\ overlay' = [S EXCEPT ![p] = Absent] /\ AfterUnlink(t)
      /\ UNCHANGED <<base, whiteouts>>
  BY <1>2, <1>3 DEF Unlink, KeepRest
<1>5. CASE Present(base, p)
  <2>1. Goto(t, "mark")
    BY <1>4, <1>5 DEF AfterUnlink
  <2>2. /\ call'[t].pc = "mark" /\ call'[t].verb = "remove" /\ call'[t].path = p
        /\ settled' = settled
    BY <1>2, <2>1, GoneTo DEF Pcs
  <2>3. Learnt(call'[t], base, S, W)
    BY <1>2, <1>5, <2>2 DEF Learnt
  <2>4. Made(call'[t], base, S, W, overlay') /\ whiteouts' = Hides(call'[t], W)
    BY <1>2, <1>4, <2>2 DEF Made, Hides
  <2>5. QED
    BY <1>4, <2>2, <2>3, <2>4, Inside
<1>6. CASE ~Present(base, p)
  <2>1. Return(t, "OK")
    BY <1>4, <1>6 DEF AfterUnlink
  <2>2. QED
    BY <1>2, <1>4, <1>6, <2>1, Removes
<1>7. QED
  BY <1>5, <1>6

LEMMA AMark ==
  ASSUME Alone, TInv, TInv', AInv, NEW t \in Thread, Mark(t)
  PROVE  AInv' /\ Follows
<1> DEFINE c == call[t]  p == c.path  S == settled.overlay  W == settled.whiteouts
<1>1. c.pc = "mark"
  BY DEF Mark, At
<1>2. /\ c.pc # "idle" /\ c.verb = "remove" /\ p \in Path /\ Permitted(p)
      /\ Removable(base, S, W, p)
      /\ overlay = [S EXCEPT ![p] = Absent] /\ Present(base, p) /\ whiteouts = W
  BY <1>1, AtRemoval
<1>3. CASE p \in whiteouts
  <2>1. Return(t, "OK") /\ UNCHANGED <<base, overlay, whiteouts>>
    BY <1>3 DEF Mark
  <2>2. whiteouts' = W \cup (IF Present(base, p) THEN {p} ELSE {})
    BY <1>2, <1>3, <2>1
  <2>3. QED
    BY <1>2, <2>1, <2>2, Removes
<1>4. CASE p \notin whiteouts
  <2>1. /\ Goto(t, "store") /\ whiteouts' = W \cup {p}
        /\ UNCHANGED <<base, overlay>>
    BY <1>2, <1>4 DEF Mark
  <2>2. /\ call'[t].pc = "store" /\ call'[t].verb = "remove" /\ call'[t].path = p
        /\ settled' = settled
    BY <1>2, <2>1, GoneTo DEF Pcs
  <2>3. Learnt(call'[t], base, S, W)
    BY <1>2, <2>2 DEF Learnt
  <2>4. Made(call'[t], base, S, W, overlay') /\ whiteouts' = Hides(call'[t], W)
    BY <1>2, <2>1, <2>2 DEF Made, Hides
  <2>5. QED
    BY <2>1, <2>2, <2>3, <2>4, Inside
<1>5. QED
  BY <1>3, <1>4

LEMMA ARecord ==
  ASSUME Alone, TInv, TInv', AInv, NEW t \in Thread, Store(t) \/ Rename(t)
  PROVE  AInv' /\ Follows
<1> DEFINE c == call[t]  p == c.path  S == settled.overlay  W == settled.whiteouts
<1>1. c.pc \in {"store", "rename"}
  BY DEF Store, Rename, At
<1>2. /\ c.pc # "idle" /\ c.verb = "remove" /\ p \in Path /\ Permitted(p)
      /\ Removable(base, S, W, p)
      /\ overlay = [S EXCEPT ![p] = Absent] /\ Present(base, p)
      /\ whiteouts = W \cup {p}
  BY <1>1, AtRemoval
<1>3. UNCHANGED <<base, overlay, whiteouts>>
  BY DEF Store, Rename
<1>4. CASE Store(t)
  <2>1. /\ call'[t].pc = "rename" /\ call'[t].verb = "remove" /\ call'[t].path = p
        /\ settled' = settled
    BY <1>2, <1>4, GoneTo DEF Store, Pcs
  <2>2. Learnt(call'[t], base, S, W)
    BY <1>2, <2>1 DEF Learnt
  <2>3. Made(call'[t], base, S, W, overlay') /\ whiteouts' = Hides(call'[t], W)
    BY <1>2, <1>3, <2>1 DEF Made, Hides
  <2>4. QED
    BY <1>3, <2>1, <2>2, <2>3, Inside
<1>5. CASE Rename(t)
  <2>1. Return(t, "OK")
    BY <1>5 DEF Rename
  <2>2. QED
    BY <1>2, <1>3, <2>1, Removes
<1>6. QED
  BY <1>4, <1>5

LEMMA ACall ==
  ASSUME Alone, TInv, AInv, NEW t \in Thread, Call(t)
  PROVE  AInv' /\ Follows
<1>1. /\ call[t].pc = "idle" /\ call'[t].pc = "gate"
      /\ UNCHANGED <<base, overlay, whiteouts, settled>>
  <2>1. ASSUME NEW verb, NEW p, NEW off, NEW arg, Begin(t, verb, p, off, arg)
        PROVE  /\ call[t].pc = "idle" /\ call'[t].pc = "gate"
               /\ UNCHANGED <<base, overlay, whiteouts, settled>>
    BY <2>1 DEF Begin, At, TInv, ControlOK
  <2>2. QED
    BY <2>1 DEF Call
<1>2. overlay = settled.overlay /\ whiteouts = settled.whiteouts
  BY <1>1 DEF AInv, Made, Hides
<1>3. Learnt(call'[t], base, settled.overlay, settled.whiteouts)
  BY <1>1 DEF Learnt
<1>4. /\ Made(call'[t], base, settled.overlay, settled.whiteouts, overlay')
      /\ whiteouts' = Hides(call'[t], settled.whiteouts)
  BY <1>1, <1>2 DEF Made, Hides
<1>5. QED
  BY <1>1, <1>3, <1>4, Inside

LEMMA AHostRefuses ==
  ASSUME Alone, TInv, TInv', AInv, NEW t \in Thread, HostRefuses(t)
  PROVE  AInv' /\ Follows
<1>1. Return(t, "EIO") /\ base' = base
  BY DEF HostRefuses
<1>2. QED
  BY <1>1, Returned DEF Follows

LEMMA AStep ==
  ASSUME Alone, TInv, TInv', AInv, [Next]_vars
  PROVE  AInv' /\ Follows
<1>1. CASE UNCHANGED vars
  <2>1. AInv'
    BY <1>1 DEF vars, AInv, Sound
  <2>2. QED
    BY <1>1, <2>1 DEF vars, Follows
<1>2. ASSUME NEW t \in Thread, Step(t) PROVE AInv' /\ Follows
  BY <1>2, AEnterPWrite, AEnterTruncate, AEnterMkdir, AEnterRemove, AContains,
     AProbe, AParents, AMake, ACreate, ACopy, ALandPWrite, ALandTruncate,
     AMakeDir, AUnlink, AMark, ARecord DEF Step
<1>3. ~Crash
  BY DEF Alone, Crash
<1>4. QED
  BY <1>1, <1>2, <1>3, ACall, AHostRefuses DEF Next

LEMMA AInit == Init => AInv /\ Atomically!Init
<1> SUFFICES ASSUME Init PROVE AInv /\ Atomically!Init
  OBVIOUS
<1>1. /\ settled.overlay = overlay /\ settled.whiteouts = whiteouts /\ settled.res = "OK"
      /\ whiteouts = {} /\ overlay = [p \in Path |-> Absent] /\ base \in Images
      /\ \A t \in Thread : call[t] = Idle
  BY DEF Init
<1>2. Sound(settled.overlay)
  BY <1>1, TypedInit DEF TInv, StoreOK
<1>3. /\ Learnt(Idle, base, settled.overlay, settled.whiteouts)
      /\ Made(Idle, base, settled.overlay, settled.whiteouts, overlay)
      /\ whiteouts = Hides(Idle, settled.whiteouts)
  BY <1>1 DEF Learnt, Made, Hides, Idle
<1>4. Atomically!Init
  BY <1>1, SameTrees DEF Atomically!Init
<1>5. QED
  BY <1>1, <1>2, <1>3, <1>4 DEF AInv

\* With one caller in a process that does not die, every verb is one action of
\* Cow from return to return, whatever refused verbs have left in the overlay
\* and the record: the answers Cow has are the answers the host operations
\* give, and none of the refusals in the middle of a verb can happen that Cow
\* does not have.
THEOREM VerbsAreAtomic ==
  ASSUME Alone
  PROVE  Spec => RefinesCow
<1>1. TInv /\ TInv' /\ AInv /\ [Next]_vars => AInv'
  BY AStep
<1>2. TInv /\ TInv' /\ AInv /\ [Next]_vars => [Follows]_vars
  BY AStep
<1>3. RefinesCow <=> Atomically!Init /\ [][Follows]_vars
  BY DEF RefinesCow, Follows
<1>4. QED
  BY <1>1, <1>2, <1>3, AInit, Typed, PTL DEF Spec

=============================================================================
