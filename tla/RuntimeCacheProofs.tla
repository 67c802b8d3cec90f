-------------------------- MODULE RuntimeCacheProofs --------------------------
(***************************************************************************)
(* Theorems about RuntimeCache, for any number of processes of each kind.  *)
(*                                                                         *)
(* Two presses exclude each other by the lock file in the entry, and that  *)
(* file alone keeps a bootstrap or a shim from renaming its directory into *)
(* place while a press is at work; the invariant says what each of them    *)
(* may rely on at each point of its call until somebody prunes.            *)
(***************************************************************************)
EXTENDS RuntimeCache, TLAPS

\* Where a press is while it holds its lock, and where the executable is
\* known to be there.
Inside == {"recheck", "fetch", "place", "placed", "fetchimage", "renameimage",
           "mark"}

After == {"lookimage", "waitimage", "recheckimage", "placed", "fetchimage",
          "renameimage", "mark"}

\* A press that is inside holds the lock of the file it has opened.
PressHolds ==
  \A p \in Proc :
    /\ Kind[p] = "press" /\ pc[p] \in Inside => held[p] = "entry" /\ file[p] # 0
    /\ pc[p] = "waitentry" => file[p] # 0

OnlyPressOpens == \A p \in Proc : file[p] # 0 => Kind[p] = "press"

OnlyOpenHeld == \A p \in Proc : held[p] = "entry" => file[p] # 0

\* The programs keep to their own steps.
PressOnly ==
  \A p \in Proc :
    /\ pc[p] \in {"makedir", "open", "waitentry", "place", "placed"}
         => Kind[p] = "press"
    /\ pc[p] \in {"wait", "waitimage", "recheckimage", "publish", "rename"}
         => Kind[p] # "press"

\* What has been opened is the lock file of the entry.
OneLockFile == \A p \in Proc : file[p] # 0 => file[p] = lockfile

\* "Installs are serialized per entry", those of press.
PressesExclude ==
  \A p, q \in Proc : held[p] = "entry" /\ held[q] = "entry" => p = q

NothingPlaced ==
  \A p \in Proc : Kind[p] = "press" /\ pc[p] \in {"fetch", "place"} => ~HasExe

ExeIsThere == \A p \in Proc : pc[p] \in After => HasExe

ImageIsThere == \A p \in Proc : pc[p] = "mark" => image

Unpruned ==
  /\ \A p \in Proc : pc[p] # "prune"
  /\ OneLockFile /\ PressesExclude
  /\ NothingPlaced /\ ExeIsThere /\ ImageIsThere
  /\ told \cap {"exe", "image"} # {} => HasExe
  /\ "image" \in told => HasImage

IInv ==
  /\ TypeOK
  /\ PressHolds /\ OnlyPressOpens /\ OnlyOpenHeld /\ PressOnly
  /\ ~pruned => Unpruned

-----------------------------------------------------------------------------

\* Before anybody has installed, the invariant holds.
THEOREM Start == Init => IInv
BY CacheAssumption DEF Init, IInv, TypeOK, IsEmpty, PressHolds, OnlyPressOpens,
  OnlyOpenHeld, PressOnly, Unpruned, OneLockFile, PressesExclude,
  NothingPlaced, ExeIsThere, ImageIsThere, HasExe, HasImage, Pcs, Inside, After

(* Each action keeps the invariant: the call and the looks *)

LEMMA CallKeeps ==
  ASSUME IInv, NEW p \in Proc, Call(p) PROVE IInv'
<1> USE CacheAssumption DEF IInv, Call, Goto, Keep, entry
<1>1. TypeOK' BY DEF TypeOK, IsEmpty, Pcs
<1>2. PressHolds' BY DEF PressHolds, Inside
<1>3. OnlyPressOpens' /\ OnlyOpenHeld' BY DEF OnlyPressOpens, OnlyOpenHeld
<1>4. PressOnly' BY DEF PressOnly
<1>5. ~pruned' => Unpruned'
  BY DEF Unpruned, OneLockFile, PressesExclude, NothingPlaced, ExeIsThere,
    ImageIsThere, HasExe, HasImage, After
<1> QED BY <1>1, <1>2, <1>3, <1>4, <1>5

LEMMA LookKeeps ==
  ASSUME IInv, NEW p \in Proc, Look(p) PROVE IInv'
<1> USE CacheAssumption DEF IInv, Look, At, Goto, Keep, Found, Release, Return,
  entry
<1>1. TypeOK' BY DEF TypeOK, IsEmpty, Pcs
<1>2. PressHolds' BY DEF TypeOK, PressHolds
<1>3. OnlyPressOpens' /\ OnlyOpenHeld'
  BY DEF TypeOK, OnlyPressOpens, OnlyOpenHeld
<1>4. PressOnly' BY DEF TypeOK, PressOnly
<1>5. ~pruned' => Unpruned'
  BY DEF TypeOK, Unpruned, OneLockFile, PressesExclude, NothingPlaced,
    ExeIsThere, ImageIsThere, HasExe, HasImage, After
<1> QED BY <1>1, <1>2, <1>3, <1>4, <1>5

LEMMA LookImageKeeps ==
  ASSUME IInv, NEW p \in Proc, LookImage(p) PROVE IInv'
<1> USE CacheAssumption DEF IInv, LookImage, At, Goto, Keep, Return, Release,
  entry
<1>1. TypeOK' BY DEF TypeOK, IsEmpty, Pcs
<1>2. PressHolds' BY DEF TypeOK, PressHolds
<1>3. OnlyPressOpens' /\ OnlyOpenHeld'
  BY DEF TypeOK, OnlyPressOpens, OnlyOpenHeld
<1>4. PressOnly' BY DEF TypeOK, PressOnly
<1>5. ~pruned' => Unpruned'
  BY DEF TypeOK, Unpruned, OneLockFile, PressesExclude, NothingPlaced,
    ExeIsThere, ImageIsThere, HasExe, HasImage, After
<1> QED BY <1>1, <1>2, <1>3, <1>4, <1>5

LEMMA LookPressKeeps ==
  ASSUME IInv, NEW p \in Proc, LookPress(p) PROVE IInv'
<1> USE CacheAssumption DEF IInv, LookPress, At, Goto, Keep, Return, Release,
  entry
<1>1. TypeOK' BY DEF TypeOK, IsEmpty, Pcs
<1>2. PressHolds' BY DEF TypeOK, PressHolds, Inside
<1>3. OnlyPressOpens' /\ OnlyOpenHeld'
  BY DEF TypeOK, OnlyPressOpens, OnlyOpenHeld
<1>4. PressOnly' BY DEF TypeOK, PressOnly
<1>5. ~pruned' => Unpruned'
  BY DEF TypeOK, Unpruned, OneLockFile, PressesExclude, NothingPlaced,
    ExeIsThere, ImageIsThere, HasExe, HasImage, After
<1> QED BY <1>1, <1>2, <1>3, <1>4, <1>5

(* The locks *)

LEMMA WaitStoreKeeps ==
  ASSUME IInv, NEW p \in Proc, WaitStore(p) PROVE IInv'
<1> USE CacheAssumption DEF IInv, WaitStore, Keep, Fail, Lock, Release, entry
<1>1. TypeOK' BY DEF TypeOK, IsEmpty, Pcs
<1>2. PressHolds' BY DEF TypeOK, PressHolds, PressOnly
<1>3. OnlyPressOpens' /\ OnlyOpenHeld'
  BY DEF TypeOK, OnlyPressOpens, OnlyOpenHeld
<1>4. PressOnly' BY DEF TypeOK, PressOnly
<1>5. ~pruned' => Unpruned'
  BY DEF TypeOK, Unpruned, OneLockFile, PressesExclude, NothingPlaced,
    ExeIsThere, ImageIsThere, HasExe, HasImage, After
<1> QED BY <1>1, <1>2, <1>3, <1>4, <1>5

LEMMA MakeDirKeeps ==
  ASSUME IInv, NEW p \in Proc, MakeDir(p) PROVE IInv'
<1> USE CacheAssumption DEF IInv, MakeDir, Goto
<1>1. TypeOK' BY DEF TypeOK, Pcs
<1>2. PressHolds' BY DEF PressHolds, Inside
<1>3. OnlyPressOpens' /\ OnlyOpenHeld' BY DEF OnlyPressOpens, OnlyOpenHeld
<1>4. PressOnly' BY DEF PressOnly
<1>5. ~pruned' => Unpruned'
  BY DEF Unpruned, OneLockFile, PressesExclude, NothingPlaced, ExeIsThere,
    ImageIsThere, HasExe, HasImage, After
<1> QED BY <1>1, <1>2, <1>3, <1>4, <1>5

LEMMA OpenLockKeeps ==
  ASSUME IInv, NEW p \in Proc, OpenLock(p) PROVE IInv'
<1> USE CacheAssumption DEF IInv, OpenLock, Keep, Fail, Open, Release, entry
<1>1. TypeOK'
  <2>1. CASE ~dir
    <3>1. UNCHANGED <<dir, exe, image, mark, lockfile, pruned>> BY <2>1
    <3>2. pc' \in [Proc -> Pcs] BY <2>1 DEF TypeOK, Pcs
    <3>3. /\ file' \in [Proc -> Inode \cup {0}]
          /\ held' \in [Proc -> {"none", "store", "entry"}]
          /\ told' \subseteq {"exe", "image", "incomplete"}
      BY <2>1 DEF TypeOK
    <3> QED BY <3>1, <3>2, <3>3 DEF TypeOK, IsEmpty
  <2>2. CASE dir
    <3>1. UNCHANGED <<dir, exe, image, mark, pruned>> BY <2>2
    <3>2. PICK i \in Inode : Open(p, i) /\ lockfile' \in {lockfile, i}
      BY <2>2 DEF TypeOK, Unused
    <3>3. pc' \in [Proc -> Pcs] BY <3>2 DEF TypeOK, Pcs
    <3>4. /\ file' \in [Proc -> Inode \cup {0}]
          /\ UNCHANGED <<held, told>>
      BY <3>2 DEF TypeOK
    <3> QED BY <2>2, <3>1, <3>2, <3>3, <3>4 DEF TypeOK
  <2> QED BY <2>1, <2>2
<1>2. PressHolds' BY DEF TypeOK, PressHolds, Inside, Unused
<1>3. OnlyPressOpens' /\ OnlyOpenHeld'
  BY DEF TypeOK, OnlyPressOpens, OnlyOpenHeld, PressOnly, Unused
<1>4. PressOnly' BY DEF TypeOK, PressOnly
<1>5. ~pruned' => Unpruned'
  BY DEF TypeOK, Unpruned, OneLockFile, PressesExclude, NothingPlaced,
    ExeIsThere, ImageIsThere, HasExe, HasImage, After
<1> QED BY <1>1, <1>2, <1>3, <1>4, <1>5

LEMMA WaitEntryKeeps ==
  ASSUME IInv, NEW p \in Proc, WaitEntry(p) PROVE IInv'
<1> USE CacheAssumption DEF IInv, WaitEntry, Keep, Fail, Lock, entry, Release
<1>1. TypeOK' BY DEF TypeOK, IsEmpty, Pcs
<1>2. PressHolds' BY DEF TypeOK, PressHolds, Inside
<1>3. OnlyPressOpens' /\ OnlyOpenHeld'
  BY DEF TypeOK, OnlyPressOpens, OnlyOpenHeld, PressHolds
<1>4. PressOnly' BY DEF TypeOK, PressOnly
<1>5. ~pruned' => Unpruned'
  BY DEF TypeOK, Unpruned, PressHolds, OnlyOpenHeld, OneLockFile,
    PressesExclude, NothingPlaced, ExeIsThere, ImageIsThere, HasExe, HasImage,
    After, EntryLockFree
<1> QED BY <1>1, <1>2, <1>3, <1>4, <1>5

(* The executable *)

LEMMA RecheckKeeps ==
  ASSUME IInv, NEW p \in Proc, Recheck(p) PROVE IInv'
<1> USE CacheAssumption DEF IInv, Recheck, Goto, Keep, Return, Found, Release,
  entry
<1>1. TypeOK' BY DEF TypeOK, IsEmpty, Pcs
<1>2. PressHolds' BY DEF TypeOK, PressHolds, Inside
<1>3. OnlyPressOpens' /\ OnlyOpenHeld'
  BY DEF TypeOK, OnlyPressOpens, OnlyOpenHeld
<1>4. PressOnly' BY DEF TypeOK, PressOnly
<1>5. ~pruned' => Unpruned'
  BY DEF TypeOK, Unpruned, OneLockFile, PressesExclude, NothingPlaced,
    ExeIsThere, ImageIsThere, HasExe, HasImage, After
<1> QED BY <1>1, <1>2, <1>3, <1>4, <1>5

LEMMA FetchKeeps ==
  ASSUME IInv, NEW p \in Proc, Fetch(p) PROVE IInv'
<1> USE CacheAssumption DEF IInv, Fetch, Goto, Keep, Fail, Release, entry
<1>1. TypeOK' BY DEF TypeOK, IsEmpty, Pcs
<1>2. PressHolds' BY DEF TypeOK, PressHolds, Inside
<1>3. OnlyPressOpens' /\ OnlyOpenHeld'
  BY DEF TypeOK, OnlyPressOpens, OnlyOpenHeld
<1>4. PressOnly' BY DEF TypeOK, PressOnly
<1>5. ~pruned' => Unpruned'
  BY DEF TypeOK, Unpruned, OneLockFile, PressesExclude, NothingPlaced,
    ExeIsThere, ImageIsThere, HasExe, HasImage, After
<1> QED BY <1>1, <1>2, <1>3, <1>4, <1>5

LEMMA PublishKeeps ==
  ASSUME IInv, NEW p \in Proc, Publish(p) PROVE IInv'
<1> USE CacheAssumption DEF IInv, Publish, Goto, Keep, Return, Release, entry
<1>1. TypeOK' BY DEF TypeOK, IsEmpty, Pcs
<1>2. PressHolds' BY DEF TypeOK, PressHolds, PressOnly
<1>3. OnlyPressOpens' /\ OnlyOpenHeld'
  BY DEF TypeOK, OnlyPressOpens, OnlyOpenHeld
<1>4. PressOnly' BY DEF TypeOK, PressOnly
<1>5. ~pruned' => Unpruned'
  BY DEF TypeOK, Unpruned, OneLockFile, PressesExclude, NothingPlaced,
    ExeIsThere, ImageIsThere, HasExe, HasImage, After
<1> QED BY <1>1, <1>2, <1>3, <1>4, <1>5

LEMMA RenameKeeps ==
  ASSUME IInv, NEW p \in Proc, Rename(p) PROVE IInv'
<1> USE CacheAssumption DEF IInv, Rename, Keep, Fail, Found, Release, Return,
  entry
<1>1. TypeOK' BY DEF TypeOK, Pcs
<1>2. PressHolds' BY DEF TypeOK, PressHolds, PressOnly
<1>3. OnlyPressOpens' /\ OnlyOpenHeld'
  BY DEF TypeOK, OnlyPressOpens, OnlyOpenHeld
<1>4. PressOnly' BY DEF TypeOK, PressOnly
<1>5. ~pruned' => Unpruned'
  BY DEF TypeOK, Unpruned, PressHolds, OneLockFile, PressesExclude,
    NothingPlaced, ExeIsThere, ImageIsThere, HasExe, HasImage, IsEmpty, Inside,
    After
<1> QED BY <1>1, <1>2, <1>3, <1>4, <1>5

LEMMA PlaceKeeps ==
  ASSUME IInv, NEW p \in Proc, Place(p) PROVE IInv'
<1> USE CacheAssumption DEF IInv, Place, Goto, Keep, Fail, Release, entry
<1>1. TypeOK'
  <2>1. CASE ~dir
    <3>1. UNCHANGED <<dir, exe, image, mark, lockfile, pruned>> BY <2>1
    <3>2. pc' \in [Proc -> Pcs] BY <2>1 DEF TypeOK, Pcs
    <3>3. /\ file' \in [Proc -> Inode \cup {0}]
          /\ held' \in [Proc -> {"none", "store", "entry"}]
          /\ told' \subseteq {"exe", "image", "incomplete"}
      BY <2>1 DEF TypeOK
    <3> QED BY <3>1, <3>2, <3>3 DEF TypeOK, IsEmpty
  <2>2. CASE dir
    <3>1. dir' = TRUE BY <2>2 DEF TypeOK
    <3> QED BY <2>2, <3>1 DEF TypeOK, Pcs
  <2> QED BY <2>1, <2>2
<1>2. PressHolds' BY DEF TypeOK, PressHolds, Inside
<1>3. OnlyPressOpens' /\ OnlyOpenHeld'
  BY DEF TypeOK, OnlyPressOpens, OnlyOpenHeld
<1>4. PressOnly' BY DEF TypeOK, PressOnly
<1>5. ~pruned' => Unpruned'
  BY DEF TypeOK, Unpruned, PressHolds, PressOnly, OneLockFile, PressesExclude,
    NothingPlaced, ExeIsThere, ImageIsThere, HasExe, Inside, After
<1> QED BY <1>1, <1>2, <1>3, <1>4, <1>5

(* The image *)

LEMMA RecheckImageKeeps ==
  ASSUME IInv, NEW p \in Proc, RecheckImage(p) PROVE IInv'
<1> USE CacheAssumption DEF IInv, RecheckImage, Goto, Keep, Return, Release,
  entry
<1>1. TypeOK' BY DEF TypeOK, IsEmpty, Pcs
<1>2. PressHolds' BY DEF TypeOK, PressHolds, Inside, PressOnly
<1>3. OnlyPressOpens' /\ OnlyOpenHeld'
  BY DEF TypeOK, OnlyPressOpens, OnlyOpenHeld
<1>4. PressOnly' BY DEF TypeOK, PressOnly
<1>5. ~pruned' => Unpruned'
  BY DEF TypeOK, Unpruned, OneLockFile, PressesExclude, NothingPlaced,
    ExeIsThere, ImageIsThere, HasExe, HasImage, After
<1> QED BY <1>1, <1>2, <1>3, <1>4, <1>5

LEMMA FetchImageKeeps ==
  ASSUME IInv, NEW p \in Proc, FetchImage(p) PROVE IInv'
<1> USE CacheAssumption DEF IInv, FetchImage, Goto, Keep, Fail, Release, entry
<1>1. TypeOK' BY DEF TypeOK, IsEmpty, Pcs
<1>2. PressHolds' BY DEF TypeOK, PressHolds, Inside
<1>3. OnlyPressOpens' /\ OnlyOpenHeld'
  BY DEF TypeOK, OnlyPressOpens, OnlyOpenHeld
<1>4. PressOnly' BY DEF TypeOK, PressOnly
<1>5. ~pruned' => Unpruned'
  BY DEF TypeOK, Unpruned, OneLockFile, PressesExclude, NothingPlaced,
    ExeIsThere, ImageIsThere, HasExe, HasImage, After
<1> QED BY <1>1, <1>2, <1>3, <1>4, <1>5

LEMMA RenameImageKeeps ==
  ASSUME IInv, NEW p \in Proc, RenameImage(p) PROVE IInv'
<1> USE CacheAssumption DEF IInv, RenameImage, Goto, Keep, Fail, Release, entry
<1>1. TypeOK'
  <2>1. CASE ~dir
    <3>1. UNCHANGED <<dir, exe, image, mark, lockfile, pruned>> BY <2>1
    <3>2. pc' \in [Proc -> Pcs] BY <2>1 DEF TypeOK, Pcs
    <3>3. /\ file' \in [Proc -> Inode \cup {0}]
          /\ held' \in [Proc -> {"none", "store", "entry"}]
          /\ told' \subseteq {"exe", "image", "incomplete"}
      BY <2>1 DEF TypeOK
    <3> QED BY <3>1, <3>2, <3>3 DEF TypeOK, IsEmpty
  <2>2. CASE dir
    <3>1. dir' = TRUE BY <2>2 DEF TypeOK
    <3> QED BY <2>2, <3>1 DEF TypeOK, Pcs
  <2> QED BY <2>1, <2>2
<1>2. PressHolds' BY DEF TypeOK, PressHolds, Inside
<1>3. OnlyPressOpens' /\ OnlyOpenHeld'
  BY DEF TypeOK, OnlyPressOpens, OnlyOpenHeld
<1>4. PressOnly' BY DEF TypeOK, PressOnly
<1>5. ~pruned' => Unpruned'
  BY DEF TypeOK, Unpruned, OneLockFile, PressesExclude, NothingPlaced,
    ExeIsThere, ImageIsThere, HasExe, HasImage, After
<1> QED BY <1>1, <1>2, <1>3, <1>4, <1>5

LEMMA MarkKeeps ==
  ASSUME IInv, NEW p \in Proc, Mark(p) PROVE IInv'
<1> USE CacheAssumption DEF IInv, Mark, Keep, Return, Fail, Release, entry
<1>1. TypeOK'
  <2>1. CASE ~dir
    <3>1. UNCHANGED <<dir, exe, image, mark, lockfile, pruned>> BY <2>1
    <3>2. pc' \in [Proc -> Pcs] BY <2>1 DEF TypeOK, Pcs
    <3>3. /\ file' \in [Proc -> Inode \cup {0}]
          /\ held' \in [Proc -> {"none", "store", "entry"}]
          /\ told' \subseteq {"exe", "image", "incomplete"}
      BY <2>1 DEF TypeOK
    <3> QED BY <3>1, <3>2, <3>3 DEF TypeOK, IsEmpty
  <2>2. CASE dir
    <3>1. dir' = TRUE BY <2>2 DEF TypeOK
    <3> QED BY <2>2, <3>1 DEF TypeOK, Pcs
  <2> QED BY <2>1, <2>2
<1>2. PressHolds' BY DEF TypeOK, PressHolds, Inside
<1>3. OnlyPressOpens' /\ OnlyOpenHeld'
  BY DEF TypeOK, OnlyPressOpens, OnlyOpenHeld
<1>4. PressOnly' BY DEF TypeOK, PressOnly
<1>5. ~pruned' => Unpruned'
  BY DEF TypeOK, Unpruned, OneLockFile, PressesExclude, NothingPlaced,
    ExeIsThere, ImageIsThere, HasExe, HasImage, IsEmpty, After
<1> QED BY <1>1, <1>2, <1>3, <1>4, <1>5

(* Pruning and crashes *)

LEMMA BeginPruneKeeps ==
  ASSUME IInv, NEW p \in Proc, BeginPrune(p) PROVE IInv'
<1> USE CacheAssumption DEF IInv, BeginPrune, At, Goto, entry
<1>1. TypeOK' BY DEF TypeOK, Pcs
<1>2. PressHolds' BY DEF PressHolds
<1>3. OnlyPressOpens' /\ OnlyOpenHeld' BY DEF OnlyPressOpens, OnlyOpenHeld
<1>4. PressOnly' BY DEF PressOnly
<1>5. ~pruned' => Unpruned' OBVIOUS
<1> QED BY <1>1, <1>2, <1>3, <1>4, <1>5

LEMMA RemoveFileKeeps ==
  ASSUME IInv, NEW p \in Proc, RemoveFile(p) PROVE IInv'
<1> USE CacheAssumption DEF IInv, RemoveFile, procs
<1>1. TypeOK' BY DEF TypeOK, IsEmpty
<1>2. PressHolds' BY DEF PressHolds
<1>3. OnlyPressOpens' /\ OnlyOpenHeld' BY DEF OnlyPressOpens, OnlyOpenHeld
<1>4. PressOnly' BY DEF PressOnly
<1>5. ~pruned' => Unpruned' BY DEF Unpruned
<1> QED BY <1>1, <1>2, <1>3, <1>4, <1>5

LEMMA EndPruneKeeps ==
  ASSUME IInv, NEW p \in Proc, EndPrune(p) PROVE IInv'
<1> USE CacheAssumption DEF IInv, EndPrune
<1>1. TypeOK' BY DEF TypeOK, IsEmpty, Pcs
<1>2. PressHolds' BY DEF PressHolds, Inside
<1>3. OnlyPressOpens' /\ OnlyOpenHeld' BY DEF OnlyPressOpens, OnlyOpenHeld
<1>4. PressOnly' BY DEF PressOnly
<1>5. ~pruned' => Unpruned' BY DEF Unpruned
<1> QED BY <1>1, <1>2, <1>3, <1>4, <1>5

LEMMA CrashKeeps ==
  ASSUME IInv, NEW p \in Proc, Crash(p) PROVE IInv'
<1> USE CacheAssumption DEF IInv, Crash, Keep, Fail, Release, entry
<1>1. TypeOK' BY DEF TypeOK, IsEmpty, Pcs
<1>2. PressHolds' BY DEF TypeOK, PressHolds, Inside
<1>3. OnlyPressOpens' /\ OnlyOpenHeld'
  BY DEF TypeOK, OnlyPressOpens, OnlyOpenHeld
<1>4. PressOnly' BY DEF PressOnly
<1>5. ~pruned' => Unpruned'
  BY DEF Unpruned, OneLockFile, PressesExclude, NothingPlaced, ExeIsThere,
    ImageIsThere, HasExe, HasImage, After
<1> QED BY <1>1, <1>2, <1>3, <1>4, <1>5

(* Together *)

LEMMA NextKeeps == IInv /\ [Next]_vars => IInv'
<1> SUFFICES ASSUME IInv, [Next]_vars PROVE IInv'
  OBVIOUS
<1>1. CASE UNCHANGED vars
  BY <1>1 DEF vars, entry, procs, IInv, TypeOK, IsEmpty, PressHolds,
    OnlyPressOpens, OnlyOpenHeld, PressOnly, Unpruned, OneLockFile,
    PressesExclude, NothingPlaced, ExeIsThere, ImageIsThere, HasExe, HasImage
<1>2. CASE Next
  <2> PICK p \in Proc : Call(p) \/ Step(p) \/ Prune(p) \/ Crash(p)
    BY <1>2 DEF Next
  <2> QED
    BY CallKeeps, LookKeeps, LookImageKeeps, LookPressKeeps, WaitStoreKeeps,
      MakeDirKeeps, OpenLockKeeps, WaitEntryKeeps, RecheckKeeps, FetchKeeps,
      PublishKeeps, RenameKeeps, PlaceKeeps, RecheckImageKeeps,
      FetchImageKeeps, RenameImageKeeps, MarkKeeps, BeginPruneKeeps,
      RemoveFileKeeps, EndPruneKeeps, CrashKeeps DEF Step, Prune
<1> QED BY <1>1, <1>2

\* The invariant of the store holds in every reachable state.
THEOREM Invariance == Spec => []IInv
<1> QED BY Start, NextKeeps, PTL DEF Spec

\* The state is well typed, and nothing is in a directory that is not there.
THEOREM TypeCorrect == Spec => []TypeOK
<1>1. IInv => TypeOK BY DEF IInv
<1> QED BY Invariance, <1>1, PTL

\* Two presses never install at once, before somebody prunes.
THEOREM PressesAreSerialized == Spec => [](~pruned => PressesExclude)
<1>1. IInv => (~pruned => PressesExclude) BY DEF IInv, Unpruned
<1> QED BY Invariance, <1>1, PTL

\* What was answered to be installed is there.
THEOREM Installed == Spec => []OkMeansInstalled
<1>1. IInv => OkMeansInstalled BY DEF IInv, Unpruned, OkMeansInstalled
<1> QED BY Invariance, <1>1, PTL

\* No program puts its executable over another's.
THEOREM PublishedOnce == Spec => ExecutableIsPublishedOnce
<1> DEFINE Once == ~pruned' => (HasExe => exe' = exe)
<1>1. ASSUME IInv, [Next]_vars PROVE [Once]_vars
  <2>1. CASE UNCHANGED vars BY <2>1
  <2>2. CASE Next
    <3> PICK p \in Proc : Call(p) \/ Step(p) \/ Prune(p) \/ Crash(p)
      BY <2>2 DEF Next
    <3>1. CASE Rename(p)
      BY <3>1 DEF Rename, IsEmpty, HasExe, Keep, entry
    <3>2. CASE Place(p)
      BY <1>1, <3>2 DEF Place, IInv, Unpruned, PressOnly, NothingPlaced,
        HasExe, Keep, entry
    <3>3. CASE RemoveFile(p)
      BY <1>1, <3>3 DEF RemoveFile, IInv, Unpruned
    <3>4. CASE Call(p) \/ Crash(p) \/ BeginPrune(p) \/ EndPrune(p)
      BY <3>4 DEF Call, Crash, BeginPrune, EndPrune, Keep, entry
    <3>5. ASSUME Step(p), ~Rename(p), ~Place(p) PROVE exe' = exe
      BY <3>5 DEF Step, Look, LookImage, LookPress, WaitStore, MakeDir,
        OpenLock,
        WaitEntry, Recheck, Fetch, Publish, RecheckImage, FetchImage,
        RenameImage, Mark, Keep, entry
    <3> QED BY <3>1, <3>2, <3>3, <3>4, <3>5 DEF Prune
  <2> QED BY <1>1, <2>1, <2>2
<1> QED BY <1>1, Invariance, PTL DEF Spec, ExecutableIsPublishedOnce
=============================================================================
