---------------------------- MODULE RuntimeCache ----------------------------
(***************************************************************************)
(* One entry of the store of runtimes, <home>/runtimes/<entry>, and the    *)
(* programs that install into it side by side:                             *)
(*   bootstrap  resolve_runtime of crates/tebako-bootstrap/src/lib.rs, with *)
(*              or without the image of the runtime                        *)
(*   shim       download_runtime of crates/tebako-shim/src/runtime.rs      *)
(*   press      resolve_runtime of crates/tebako-cli/src/resolve.rs        *)
(*   prune      prune of the same file                                     *)
(* The first two lock a file beside the entries and rename a whole staged  *)
(* directory into place; press makes the entry's directory, locks a file   *)
(* in it, and renames one file after the other into it.  The ruby DLL of a *)
(* Windows runtime is installed as the image is, and is left out; releases *)
(* without an image are left out as well.                                  *)
(***************************************************************************)
EXTENDS Naturals

CONSTANTS
  Proc,     \* the processes
  Kind,     \* Kind[p]: which program p is
  Nobody,   \* not a process
  Inode     \* the numbers of lock files

ASSUME CacheAssumption ==
  /\ Kind \in [Proc -> {"bootstrap", "shim", "press", "prune"}]
  /\ Nobody \notin Proc
  /\ Inode \subseteq Nat \ {0}

VARIABLES
  dir,        \* whether the directory of the entry is there
  exe,        \* who has put the executable into it, if somebody has
  image,      \* whether the image is in it,
  mark,       \*   and the image's marker
  lockfile,   \* the number of the lock file in it; 0 when there is none
  pc,         \* pc[p]: how far p's call is
  file,       \* file[p]: the number of the lock file p has opened
  held,       \* held[p]: the lock p holds
  \* history
  told,       \* what calls have answered so far, other errors left out
  pruned      \* whether somebody has begun to prune the entry

entry == <<dir, exe, image, mark, lockfile>>
procs == <<pc, file, held>>
vars  == <<entry, procs, told, pruned>>

HasExe   == exe # Nobody
HasImage == image /\ mark

IsEmpty == exe = Nobody /\ ~image /\ ~mark /\ lockfile = 0

-----------------------------------------------------------------------------
(* Control *)

At(p, kinds, at) == Kind[p] \in kinds /\ pc[p] = at

Goto(p, at) == pc' = [pc EXCEPT ![p] = at] /\ UNCHANGED <<file, held, told>>

\* The process lets go of the lock it holds.
Release(p) == /\ file' = [file EXCEPT ![p] = 0]
              /\ held' = [held EXCEPT ![p] = "none"]

Return(p, r) == /\ pc' = [pc EXCEPT ![p] = "idle"]
                /\ Release(p)
                /\ told' = told \cup {r}

Fail(p) == /\ pc' = [pc EXCEPT ![p] = "idle"]
           /\ Release(p) /\ UNCHANGED told

Keep == UNCHANGED <<entry, pruned>>

\* The executable is there: a bootstrap whose package names an image goes on,
\* without the lock; anybody else is done.
Found(p) ==
  \/ Return(p, "exe")
  \/ /\ Kind[p] = "bootstrap"
     /\ pc' = [pc EXCEPT ![p] = "lookimage"]
     /\ Release(p) /\ UNCHANGED told

-----------------------------------------------------------------------------
(* The call, its look at the store without a lock, and the locks *)

Call(p) ==
  /\ At(p, {"bootstrap", "shim", "press"}, "idle")
  /\ Goto(p, "look") /\ Keep

Look(p) ==
  /\ At(p, {"bootstrap", "shim"}, "look") /\ Keep
  /\ \/ HasExe /\ Found(p)
     \/ ~HasExe /\ Goto(p, "wait")

LookImage(p) ==
  /\ At(p, {"bootstrap"}, "lookimage") /\ Keep
  /\ \/ HasImage /\ Return(p, "image")
     \/ ~HasImage /\ Goto(p, "waitimage")

\* Mutant of LookPress: an entry without its image is a hit.
LookPressExe(p) ==
  /\ At(p, {"press"}, "look") /\ Keep
  /\ \/ HasExe /\ Return(p, "image")
     \/ ~HasExe /\ Goto(p, "makedir")

LookPress(p) ==
  /\ At(p, {"press"}, "look") /\ Keep
  /\ \/ HasExe /\ HasImage /\ Return(p, "image")
     \/ ~(HasExe /\ HasImage) /\ Goto(p, "makedir")

Lock(p, which, at) == /\ held' = [held EXCEPT ![p] = which]
                      /\ pc' = [pc EXCEPT ![p] = at]
                      /\ UNCHANGED <<file, told>>

StoreLockFree == \A q \in Proc : held[q] # "store"

\* Mutant of WaitStore: there is no deadline.
WaitStoreForever(p) ==
  /\ pc[p] \in {"wait", "waitimage"} /\ Keep /\ StoreLockFree
  /\ Lock(p, "store", IF pc[p] = "wait" THEN "recheck" ELSE "recheckimage")

\* locks/<entry>.lock: taken when it is free, waited for until the deadline.
WaitStore(p) ==
  /\ pc[p] \in {"wait", "waitimage"} /\ Keep
  /\ \/ ~StoreLockFree /\ Fail(p)
     \/ StoreLockFree /\ pc[p] = "wait" /\ Lock(p, "store", "recheck")
     \/ StoreLockFree /\ pc[p] = "waitimage" /\ Lock(p, "store", "recheckimage")

MakeDir(p) ==
  /\ pc[p] = "makedir"
  /\ dir' = TRUE /\ UNCHANGED <<exe, image, mark, lockfile, pruned>>
  /\ Goto(p, "open")

Open(p, i) == /\ file' = [file EXCEPT ![p] = i]
              /\ pc' = [pc EXCEPT ![p] = "waitentry"]
              /\ UNCHANGED <<held, told>>

Unused == {i \in Inode : i # lockfile /\ \A q \in Proc : file[q] # i}

\* Mutant of OpenLock: the lock file lies beside the entry.
OpenLockBeside(p) ==
  /\ pc[p] = "open" /\ dir /\ Keep
  /\ Open(p, CHOOSE i \in Inode : TRUE)

\* <entry>/.install.lock, opened or created.
OpenLock(p) ==
  /\ pc[p] = "open"
  /\ \/ ~dir /\ Fail(p) /\ Keep
     \/ dir /\ lockfile # 0 /\ Open(p, lockfile) /\ Keep
     \/ /\ dir /\ lockfile = 0
        /\ \E i \in Unused : Open(p, i) /\ lockfile' = i
        /\ UNCHANGED <<dir, exe, image, mark, pruned>>

EntryLockFree(i) == \A q \in Proc : ~(held[q] = "entry" /\ file[q] = i)

WaitEntry(p) ==
  /\ pc[p] = "waitentry" /\ Keep
  /\ \/ ~EntryLockFree(file[p]) /\ Fail(p)
     \/ EntryLockFree(file[p]) /\ Lock(p, "entry", "recheck")

-----------------------------------------------------------------------------
(* The executable *)

\* Under the lock the entry is looked at again.
Recheck(p) ==
  /\ pc[p] = "recheck" /\ Keep
  /\ \/ ~HasExe /\ Goto(p, "fetch")
     \/ HasExe /\ Kind[p] # "press" /\ Found(p)
     \/ HasExe /\ Kind[p] = "press" /\ HasImage /\ Return(p, "image")
     \/ HasExe /\ Kind[p] = "press" /\ ~HasImage /\ Goto(p, "fetchimage")

\* The download to tmp, which is deleted unless its checksum is the release's.
Fetch(p) ==
  /\ pc[p] = "fetch" /\ Keep
  /\ \/ Fail(p)
     \/ Kind[p] = "press" /\ Goto(p, "place")
     \/ Kind[p] # "press" /\ Goto(p, "publish")

\* A directory that is there is not published over.
Publish(p) ==
  /\ pc[p] = "publish" /\ Keep
  /\ \/ dir /\ Return(p, "incomplete")
     \/ ~dir /\ Goto(p, "rename")

\* The staged directory becomes the entry; rename replaces an empty directory
\* and no other.  The shim has staged the image and its marker with it.
Rename(p) ==
  /\ pc[p] = "rename"
  /\ \/ ~IsEmpty /\ Fail(p) /\ Keep
     \/ /\ IsEmpty
        /\ dir' = TRUE /\ exe' = p
        /\ IF Kind[p] = "shim" THEN image' = TRUE /\ mark' = TRUE
                               ELSE UNCHANGED <<image, mark>>
        /\ UNCHANGED <<lockfile, pruned>>
        /\ Found(p)

\* press renames the file alone.
Place(p) ==
  /\ pc[p] = "place"
  /\ \/ ~dir /\ Fail(p) /\ Keep
     \/ /\ dir
        /\ exe' = p /\ Goto(p, "placed")
        /\ UNCHANGED <<dir, image, mark, lockfile, pruned>>

-----------------------------------------------------------------------------
(* The image, by a bootstrap under its lock or by press under its own *)

\* The look of install_image, and that of resolve_image under its lock.
RecheckImage(p) ==
  /\ pc[p] \in {"placed", "recheckimage"} /\ Keep
  /\ \/ HasImage /\ Return(p, "image")
     \/ ~HasImage /\ Goto(p, "fetchimage")

FetchImage(p) ==
  /\ pc[p] = "fetchimage" /\ Keep
  /\ \/ Fail(p)
     \/ Goto(p, "renameimage")

RenameImage(p) ==
  /\ pc[p] = "renameimage"
  /\ \/ ~dir /\ Fail(p) /\ Keep
     \/ /\ dir
        /\ image' = TRUE /\ Goto(p, "mark")
        /\ UNCHANGED <<dir, exe, mark, lockfile, pruned>>

\* The marker is written last; a bootstrap does not look whether it could be.
Mark(p) ==
  /\ pc[p] = "mark"
  /\ \/ ~dir /\ Kind[p] = "press" /\ Fail(p) /\ Keep
     \/ ~dir /\ Kind[p] # "press" /\ Return(p, "image") /\ Keep
     \/ /\ dir
        /\ mark' = TRUE /\ Return(p, "image")
        /\ UNCHANGED <<dir, exe, image, lockfile, pruned>>

-----------------------------------------------------------------------------
(* Pruning takes no lock: remove_dir_all, file after file, until nothing is *)
(* left or something fails.  Bound: one pruning.                           *)

BeginPrune(p) ==
  /\ At(p, {"prune"}, "idle") /\ dir /\ ~pruned
  /\ pruned' = TRUE /\ Goto(p, "prune") /\ UNCHANGED entry

RemoveFile(p) ==
  /\ pc[p] = "prune"
  /\ \/ exe # Nobody /\ exe' = Nobody /\ UNCHANGED <<image, mark, lockfile>>
     \/ image /\ image' = FALSE /\ UNCHANGED <<exe, mark, lockfile>>
     \/ mark /\ mark' = FALSE /\ UNCHANGED <<exe, image, lockfile>>
     \/ lockfile # 0 /\ lockfile' = 0 /\ UNCHANGED <<exe, image, mark>>
  /\ UNCHANGED <<dir, procs, told, pruned>>

EndPrune(p) ==
  /\ pc[p] = "prune"
  /\ pc' = [pc EXCEPT ![p] = "idle"]
  /\ dir' = (dir /\ ~IsEmpty)
  /\ UNCHANGED <<exe, image, mark, lockfile, file, held, told, pruned>>

-----------------------------------------------------------------------------

\* The process dies; the kernel lets go of its lock.
Crash(p) ==
  /\ pc[p] # "idle"
  /\ Fail(p) /\ Keep

Init ==
  /\ dir = FALSE /\ lockfile = 0
  /\ exe = Nobody /\ image = FALSE /\ mark = FALSE
  /\ pc = [p \in Proc |-> "idle"]
  /\ file = [p \in Proc |-> 0]
  /\ held = [p \in Proc |-> "none"]
  /\ told = {} /\ pruned = FALSE

Step(p) ==
  \/ Look(p) \/ LookImage(p) \/ LookPress(p)
  \/ WaitStore(p) \/ MakeDir(p) \/ OpenLock(p) \/ WaitEntry(p)
  \/ Recheck(p) \/ Fetch(p) \/ Publish(p) \/ Rename(p) \/ Place(p)
  \/ RecheckImage(p) \/ FetchImage(p) \/ RenameImage(p) \/ Mark(p)

Prune(p) == BeginPrune(p) \/ RemoveFile(p) \/ EndPrune(p)

Next == \E p \in Proc : Call(p) \/ Step(p) \/ Prune(p) \/ Crash(p)

\* A program that installs goes on installing.
Spec == Init /\ [][Next]_vars /\ \A p \in Proc : WF_vars(Step(p))

-----------------------------------------------------------------------------
(* Properties *)

Pcs == {"idle", "look", "lookimage", "wait", "waitimage", "makedir", "open",
        "waitentry", "recheck", "fetch", "publish", "rename", "place", "placed",
        "recheckimage", "fetchimage", "renameimage", "mark", "prune"}

\* Well typed; and there is nothing in a directory that is not there.
TypeOK ==
  /\ dir \in BOOLEAN /\ image \in BOOLEAN /\ mark \in BOOLEAN
  /\ exe \in Proc \cup {Nobody}
  /\ lockfile \in Inode \cup {0}
  /\ ~dir => IsEmpty
  /\ pc \in [Proc -> Pcs]
  /\ file \in [Proc -> Inode \cup {0}]
  /\ held \in [Proc -> {"none", "store", "entry"}]
  /\ told \subseteq {"exe", "image", "incomplete"}
  /\ pruned \in BOOLEAN

\* Once there, the executable of an entry stays the one that it is, until it
\* is pruned, although the programs do not share a lock: whoever was given its
\* path may be running it.
ExecutableIsPublishedOnce ==
  [][~pruned' => (HasExe => exe' = exe)]_vars

\* Whoever was told that the runtime, or its image, is installed finds it
\* there, the image with the marker that is its trust anchor, until somebody
\* prunes; no failed or dying installer takes it away.
OkMeansInstalled ==
  ~pruned =>
    /\ told \cap {"exe", "image"} # {} => HasExe
    /\ "image" \in told => HasImage

\* Every call of an installer comes to an end, whoever else installs, fails,
\* dies or prunes, and however often.
EveryCallReturns ==
  \A p \in Proc : pc[p] = "look" ~> pc[p] = "idle"

\* "A partial install is invisible": nobody is refused for an entry that is
\* there without its executable.
PartialInstallIsInvisible == "incomplete" \notin told
=============================================================================
