---------------------------- MODULE PayloadCache ----------------------------
(***************************************************************************)
(* The directory of one payload in the shared cache, payloads/<name>, and  *)
(* the processes that install its versions and remove it side by side:     *)
(*   install    the head of finish_install of crates/tebako-cli/src/       *)
(*              install.rs over crates/tebako-resolve/src/cache.rs         *)
(*   uninstall  remove_dir_all of the directory, without any lock          *)
(* and the stamp of the store's layout (crates/tebako-resolve/src/store.rs) *)
(* that a process looks at before anything else.                           *)
(*                                                                         *)
(* A version is three files: the artifact, the marker with its checksum,   *)
(* which vouches for it, and the marker with its origin, which nobody      *)
(* relies on and which is modelled by the step that may fail.  The lock of *)
(* a version is a file in the directory.  A process that dies and calls    *)
(* again is a new one that was given the same process id: it finds the     *)
(* temporary file of the dead one under the name of its own.               *)
(***************************************************************************)
EXTENDS Naturals

CONSTANTS
  Proc,     \* the processes, each with a process id of its own
  Version,  \* the versions of the payload
  Digest,   \* the contents a source may serve, named by their checksums
  Expected, \* the checksums callers expect, None when they expect none
  Inode,    \* the numbers of lock files
  None      \* no content, no expectation

ASSUME PayloadAssumption ==
  /\ None \notin Digest \cup Version \cup {"bad"} /\ "bad" \notin Digest
  /\ Expected \subseteq Digest \cup {None}
  /\ Inode \subseteq Nat \ {0}

VARIABLES
  stamp,     \* layout-version: "bad" when it is empty, "newer" than ours,
             \*   "current", or None; one that is older is rewritten as None is
  dir,       \* whether payloads/<name> is there
  file,      \* file[v]: what <v>.tfs holds
  mark,      \* mark[v]: what <v>.tfs.sha256 says; "bad" when it is malformed
  lockfile,  \* lockfile[v]: the number of .install-<v>.lock; 0 without one
  sealed,    \* sealed[p]: whether tmp holds a finished, read-only download
             \*   under the name of the process id
  pc,        \* pc[p]: how far p's call is
  job,       \* job[p]: the version p installs and the checksum it expects
  got,       \* got[p]: what p has been served
  open,      \* open[p]: the number of the lock file p has opened
  held,      \* held[p]: whether p has locked it
  \* history
  answered,  \* answered[v]: the checksums callers were given for v, unless torn
  torn       \* a removal ran beside another call, or it or the writing of the
             \*   stamp has been cut short

store == <<stamp, dir, file, mark, lockfile>>
call  == <<job, got, open, held>>
vars  == <<store, sealed, pc, call, answered, torn>>

\* The artifact alone is what counts as installed.
Installed == {v \in Version : file[v] # None}

\* A hit needs the artifact and a marker that is a checksum.
Hit(v) == file[v] # None /\ mark[v] \in Digest

IsEmpty == \A v \in Version : file[v] = None /\ mark[v] = None /\ lockfile[v] = 0

NoJob == [version |-> None, expects |-> None]

-----------------------------------------------------------------------------
(* Control *)

Goto(p, at) == /\ pc' = [pc EXCEPT ![p] = at]
               /\ UNCHANGED <<call, answered>>

\* The call ends; closing the lock file unlocks it.
Leave(p) == /\ pc' = [pc EXCEPT ![p] = "idle"]
            /\ open' = [open EXCEPT ![p] = 0]
            /\ held' = [held EXCEPT ![p] = FALSE]
            /\ got' = [got EXCEPT ![p] = None]
            /\ job' = [job EXCEPT ![p] = NoJob]

Return(p, d) == /\ Leave(p)
                /\ answered' = IF torn THEN answered ELSE
                     [answered EXCEPT ![job[p].version] = @ \cup {d}]

Fail(p) == Leave(p) /\ UNCHANGED answered

\* From here on the answers count no more.
Tear(now) == /\ torn' = (torn \/ now)
             /\ answered' = IF now THEN [v \in Version |-> {}] ELSE answered

KeepStore == UNCHANGED <<store, torn>>

Keep == KeepStore /\ UNCHANGED sealed

Busy(p) == pc[p] # "idle"

-----------------------------------------------------------------------------
(* The layout stamp, looked at once in a process *)

ReadStamp(p) ==
  /\ pc[p] = "stamp" /\ Keep
  /\ \/ stamp \in {"bad", "newer"} /\ Fail(p)
     \/ stamp = None /\ Goto(p, "restamp")
     \/ stamp = "current" /\ Goto(p, "get")

\* Mutant of TruncateStamp: the writing is left to whoever comes next.
TruncateStampOnly(p) ==
  /\ pc[p] = "restamp"
  /\ stamp' = "bad" /\ Goto(p, "get")
  /\ UNCHANGED <<dir, file, mark, lockfile, sealed, torn>>

\* fs::write truncates, then writes.
TruncateStamp(p) ==
  /\ pc[p] = "restamp"
  /\ stamp' = "bad" /\ Goto(p, "writestamp")
  /\ UNCHANGED <<dir, file, mark, lockfile, sealed, torn>>

WriteStamp(p) ==
  /\ pc[p] = "writestamp"
  /\ \/ stamp' = "current" /\ Goto(p, "get") /\ UNCHANGED torn
     \/ Leave(p) /\ Tear(TRUE) /\ UNCHANGED stamp
  /\ UNCHANGED <<dir, file, mark, lockfile, sealed>>

-----------------------------------------------------------------------------
(* The call: a look at the cache, the fetch, a second look, the lock *)

Call(p) ==
  /\ ~Busy(p)
  /\ \E v \in Version, e \in Expected :
       job' = [job EXCEPT ![p] = [version |-> v, expects |-> e]]
  /\ pc' = [pc EXCEPT ![p] = "stamp"]
  /\ Tear(\E q \in Proc : pc[q] = "remove")
  /\ UNCHANGED <<store, sealed, got, open, held>>

Get(p) ==
  LET v == job[p].version IN
  /\ pc[p] = "get" /\ Keep
  /\ \/ Hit(v) /\ Return(p, mark[v])
     \/ ~Hit(v) /\ Goto(p, "fetch")

\* What is served is checked against its signature and against no checksum.
Fetch(p) ==
  /\ pc[p] = "fetch" /\ Keep
  /\ \/ Fail(p)
     \/ \E d \in Digest :
          /\ got' = [got EXCEPT ![p] = d]
          /\ pc' = [pc EXCEPT ![p] = "install"]
          /\ UNCHANGED <<job, open, held, answered>>

\* install's own look, and the lock's directory.
Install(p) ==
  LET v == job[p].version IN
  /\ pc[p] = "install"
  /\ \/ Hit(v) /\ Return(p, mark[v]) /\ Keep
     \/ /\ ~Hit(v)
        /\ dir' = TRUE /\ Goto(p, "open")
        /\ UNCHANGED <<stamp, file, mark, lockfile, sealed, torn>>

Unused(v) == {i \in Inode : /\ \A w \in Version : lockfile[w] # i
                            /\ \A q \in Proc : open[q] # i}

Opened(p, i) == /\ open' = [open EXCEPT ![p] = i]
                /\ pc' = [pc EXCEPT ![p] = "wait"]
                /\ UNCHANGED <<job, got, held, answered>>

OpenLock(p) ==
  LET v == job[p].version IN
  /\ pc[p] = "open"
  /\ \/ ~dir /\ Fail(p) /\ Keep
     \/ dir /\ lockfile[v] # 0 /\ Opened(p, lockfile[v]) /\ Keep
     \/ /\ dir /\ lockfile[v] = 0
        /\ \E i \in Unused(v) : /\ Opened(p, i)
                                /\ lockfile' = [lockfile EXCEPT ![v] = i]
        /\ UNCHANGED <<stamp, dir, file, mark, sealed, torn>>

LockFree(i) == \A q \in Proc : ~(held[q] /\ open[q] = i)

Locked(p) == /\ held' = [held EXCEPT ![p] = TRUE]
             /\ pc' = [pc EXCEPT ![p] = "recheck"]
             /\ UNCHANGED <<job, got, open, answered>>

\* Mutant of Wait: there is no deadline.
WaitForever(p) ==
  /\ pc[p] = "wait" /\ Keep
  /\ LockFree(open[p]) /\ Locked(p)

\* Mutant of Wait: whoever has waited long enough goes in.
WaitAndEnter(p) == pc[p] = "wait" /\ Keep /\ Locked(p)

\* Polled until the deadline.
Wait(p) ==
  /\ pc[p] = "wait" /\ Keep
  /\ \/ ~LockFree(open[p]) /\ Fail(p)
     \/ LockFree(open[p]) /\ Locked(p)

-----------------------------------------------------------------------------
(* Under the lock *)

\* Mutant of Recheck: the entry is not looked at again.
RecheckNothing(p) ==
  /\ pc[p] = "recheck" /\ Keep
  /\ \/ job[p].expects \notin {None, got[p]} /\ Fail(p)
     \/ job[p].expects \in {None, got[p]} /\ Goto(p, "write")

\* A third look; then what was served is held against what was expected.
Recheck(p) ==
  LET v == job[p].version IN
  /\ pc[p] = "recheck" /\ Keep
  /\ \/ Hit(v) /\ Return(p, mark[v])
     \/ ~Hit(v) /\ job[p].expects \notin {None, got[p]} /\ Fail(p)
     \/ ~Hit(v) /\ job[p].expects \in {None, got[p]} /\ Goto(p, "write")

\* tmp/<v>.tfs.<pid>.part, written over what may be left of it and made
\* read-only.  One that a dead process left read-only cannot be opened; the
\* failure deletes it.
Write(p) ==
  /\ pc[p] = "write" /\ KeepStore
  /\ \/ sealed' = [sealed EXCEPT ![p] = FALSE] /\ Fail(p)
     \/ /\ ~sealed[p]
        /\ sealed' = [sealed EXCEPT ![p] = TRUE] /\ Goto(p, "rename")

\* What was served takes the artifact's name; the marker comes later.
Rename(p) ==
  LET v == job[p].version IN
  /\ pc[p] = "rename"
  /\ sealed' = [sealed EXCEPT ![p] = FALSE]
  /\ \/ ~dir /\ Fail(p) /\ KeepStore
     \/ /\ dir
        /\ file' = [file EXCEPT ![v] = got[p]]
        /\ Goto(p, "mark")
        /\ UNCHANGED <<stamp, dir, mark, lockfile, torn>>

\* The marker, written in place: a failure or a death half way leaves it
\* malformed.
Mark(p) ==
  LET v == job[p].version IN
  /\ pc[p] = "mark" /\ UNCHANGED sealed
  /\ \/ Fail(p) /\ KeepStore
     \/ /\ dir
        /\ \/ mark' = [mark EXCEPT ![v] = "bad"] /\ Fail(p)
           \/ mark' = [mark EXCEPT ![v] = got[p]] /\ Goto(p, "origin")
        /\ UNCHANGED <<stamp, dir, file, lockfile, torn>>

\* The marker of the origin may fail, and with it the call.
Origin(p) ==
  /\ pc[p] = "origin" /\ Keep
  /\ \/ Fail(p)
     \/ dir /\ Return(p, got[p])

-----------------------------------------------------------------------------
(* Removal: file after file, until nothing is left or something fails.      *)
(* Only a payload with an artifact can be removed.                          *)

BeginRemove(p) ==
  /\ ~Busy(p) /\ Installed # {} /\ stamp = "current"
  /\ pc' = [pc EXCEPT ![p] = "remove"]
  /\ Tear(\E q \in Proc : Busy(q))
  /\ UNCHANGED <<store, sealed, call>>

RemoveFile(p) ==
  /\ pc[p] = "remove"
  /\ \E v \in Version :
       \/ /\ file[v] # None /\ file' = [file EXCEPT ![v] = None]
          /\ UNCHANGED <<mark, lockfile>>
       \/ /\ mark[v] # None /\ mark' = [mark EXCEPT ![v] = None]
          /\ UNCHANGED <<file, lockfile>>
       \/ /\ lockfile[v] # 0 /\ lockfile' = [lockfile EXCEPT ![v] = 0]
          /\ UNCHANGED <<file, mark>>
  /\ UNCHANGED <<stamp, dir, sealed, pc, call, answered, torn>>

\* Whoever was answered before the payload was gone has been answered for
\* another life of it.
EndRemove(p) ==
  /\ pc[p] = "remove" /\ pc' = [pc EXCEPT ![p] = "idle"]
  /\ \/ /\ IsEmpty /\ dir' = FALSE
        /\ answered' = [v \in Version |-> {}]
        /\ UNCHANGED torn
     \/ Tear(TRUE) /\ UNCHANGED dir
  /\ UNCHANGED <<stamp, file, mark, lockfile, sealed, call>>

-----------------------------------------------------------------------------

\* The process dies; the kernel closes its lock file.
Crash(p) ==
  /\ Busy(p) /\ Leave(p)
  /\ Tear(pc[p] \in {"remove", "writestamp"})
  /\ UNCHANGED <<store, sealed>>

Init ==
  /\ stamp \in {None, "newer"} /\ dir = FALSE
  /\ file = [v \in Version |-> None] /\ mark = [v \in Version |-> None]
  /\ lockfile = [v \in Version |-> 0]
  /\ sealed = [p \in Proc |-> FALSE]
  /\ pc = [p \in Proc |-> "idle"]
  /\ job = [p \in Proc |-> NoJob]
  /\ got = [p \in Proc |-> None]
  /\ open = [p \in Proc |-> 0] /\ held = [p \in Proc |-> FALSE]
  /\ answered = [v \in Version |-> {}] /\ torn = FALSE

Step(p) ==
  \/ ReadStamp(p) \/ TruncateStamp(p) \/ WriteStamp(p)
  \/ Get(p) \/ Fetch(p) \/ Install(p) \/ OpenLock(p) \/ Wait(p)
  \/ Recheck(p) \/ Write(p) \/ Rename(p) \/ Mark(p) \/ Origin(p)

Remove(p) == BeginRemove(p) \/ RemoveFile(p) \/ EndRemove(p)

Next == \E p \in Proc : Call(p) \/ Step(p) \/ Remove(p) \/ Crash(p)

\* A process that installs goes on installing.
Spec == Init /\ [][Next]_vars /\ \A p \in Proc : WF_vars(Step(p))

-----------------------------------------------------------------------------
(* Properties *)

Pcs == {"idle", "stamp", "restamp", "writestamp", "get", "fetch", "install",
        "open", "wait", "recheck", "write", "rename", "mark", "origin",
        "remove"}

TypeOK ==
  /\ stamp \in {None, "bad", "newer", "current"}
  /\ dir \in BOOLEAN /\ torn \in BOOLEAN
  /\ file \in [Version -> Digest \cup {None}]
  /\ mark \in [Version -> Digest \cup {None, "bad"}]
  /\ lockfile \in [Version -> Inode \cup {0}]
  /\ sealed \in [Proc -> BOOLEAN]
  /\ pc \in [Proc -> Pcs]
  /\ job \in [Proc -> [version : Version \cup {None},
                       expects : Digest \cup {None}]]
  /\ got \in [Proc -> Digest \cup {None}]
  /\ open \in [Proc -> Inode \cup {0}]
  /\ held \in [Proc -> BOOLEAN]
  /\ answered \in [Version -> SUBSET Digest]

\* "The .sha256 marker IS the trust anchor": the marker of an artifact that
\* counts as a hit is the checksum of the bytes that are there, through
\* crashes and any number of installers, as long as no removal was cut short
\* or ran beside an install.
MarkerVouches == ~torn => \A v \in Version : Hit(v) => mark[v] = file[v]

\* Everybody who was told that a version is installed was told the same
\* checksum, whatever each of them was served and expected, and those bytes
\* are there, until the payload is removed.
AnswersAgree ==
  ~torn /\ (\A p \in Proc : pc[p] # "remove") =>
    \A v \in Version : answered[v] # {} => Hit(v) /\ answered[v] = {file[v]}

\* A store is unreadable to others only while somebody is stamping it, unless
\* the one who did failed or died: the refusal "unreadable layout-version" is
\* answered in a race of first processes, and goes away by itself.
UnreadableOnlyWhileStamped ==
  ~torn => (stamp = "bad" => \E p \in Proc : pc[p] = "writestamp")

\* Every call of an installer comes to an end, whoever else installs, removes,
\* fails or dies, and however often.
EveryCallReturns == \A p \in Proc : pc[p] = "stamp" ~> pc[p] = "idle"
=============================================================================
