------------------------- MODULE PayloadCacheProofs -------------------------
(***************************************************************************)
(* Theorems about PayloadCache, for any number of processes, versions and  *)
(* contents.                                                               *)
(*                                                                         *)
(* As long as no removal runs beside an install, whoever opens the lock of *)
(* a version opens the one file that is its lock, so the installers of one *)
(* version exclude each other; the rest of the invariant says what each    *)
(* of them may rely on, under the lock, of the files of its version.       *)
(***************************************************************************)
EXTENDS PayloadCache, TLAPS

\* Where a process is while it holds the lock of its version.
Inside == {"recheck", "write", "rename", "mark", "origin"}

\* A process has opened the lock exactly from "wait" on, and holds it inside.
LocksFollowControl ==
  \A p \in Proc :
    /\ pc[p] \in Inside => held[p]
    /\ held[p] => open[p] # 0
    /\ pc[p] = "wait" => open[p] # 0
    /\ open[p] # 0 => pc[p] \in Inside \cup {"wait"}

\* Who installs has a version, and past the fetch it has been served.
CallsAreKnown ==
  \A p \in Proc :
    /\ pc[p] \notin {"idle", "remove"} => job[p].version \in Version
    /\ pc[p] \in Inside \cup {"install", "open", "wait"} => got[p] \in Digest

NobodyRemoves == \A p \in Proc : pc[p] # "remove"

\* A removal that counts has the payload to itself.
RemovesAlone ==
  \A p, q \in Proc : pc[p] = "remove" /\ p # q => pc[q] = "idle"

\* What has been opened is the lock file of the version.
OneLockFile == \A p \in Proc : open[p] # 0 => open[p] = lockfile[job[p].version]

\* "Installs are serialized per entry".
InstallsExclude ==
  \A p, q \in Proc :
    held[p] /\ held[q] /\ job[p].version = job[q].version => p = q

\* Without a removal a marker that is a checksum is never ahead of its bytes.
MarkersFollow == \A v \in Version : mark[v] \in Digest => file[v] = mark[v]

\* What an installer finds in its version at each point under the lock.
Placing ==
  \A p \in Proc :
    LET v == job[p].version IN
    /\ pc[p] \in {"write", "rename"} => ~Hit(v)
    /\ pc[p] = "mark" => file[v] = got[p] /\ mark[v] \notin Digest
    /\ pc[p] = "origin" => file[v] = got[p] /\ mark[v] = got[p]

Told == \A v \in Version : answered[v] # {} => Hit(v) /\ answered[v] = {file[v]}

Quiet == OneLockFile /\ InstallsExclude /\ MarkersFollow /\ Placing /\ Told

IInv ==
  /\ TypeOK /\ LocksFollowControl /\ CallsAreKnown
  /\ MarkerVouches /\ UnreadableOnlyWhileStamped
  /\ ~torn => RemovesAlone /\ (NobodyRemoves => Quiet)

-----------------------------------------------------------------------------

Jobs == [version : Version \cup {None}, expects : Digest \cup {None}]

LEMMA NoJobIsAJob == NoJob \in Jobs
BY DEF NoJob, Jobs

\* Before the first call the invariant holds.
THEOREM Start == Init => IInv
<1> SUFFICES ASSUME Init PROVE IInv OBVIOUS
<1>1. job \in [Proc -> Jobs] BY NoJobIsAJob DEF Init
<1>2. TypeOK BY <1>1, PayloadAssumption DEF Init, TypeOK, Pcs, Jobs
<1>3. LocksFollowControl /\ CallsAreKnown
  BY DEF Init, LocksFollowControl, CallsAreKnown, Inside
<1>4. MarkerVouches /\ UnreadableOnlyWhileStamped
  BY PayloadAssumption DEF Init, MarkerVouches, Hit, UnreadableOnlyWhileStamped
<1>5. RemovesAlone /\ Quiet
  BY PayloadAssumption DEF Init, RemovesAlone, Quiet, OneLockFile,
    InstallsExclude, MarkersFollow, Placing, Told
<1> QED BY <1>2, <1>3, <1>4, <1>5 DEF IInv

\* What a call that ends leaves of itself.
LEMMA LeaveTypes ==
  ASSUME TypeOK, NEW p \in Proc, Leave(p)
  PROVE /\ pc' \in [Proc -> Pcs] /\ job' \in [Proc -> Jobs]
        /\ got' \in [Proc -> Digest \cup {None}]
        /\ open' \in [Proc -> Inode \cup {0}] /\ held' \in [Proc -> BOOLEAN]
<1>1. job' \in [Proc -> Jobs] BY NoJobIsAJob DEF Leave, TypeOK, Jobs
<1> QED BY <1>1 DEF Leave, TypeOK, Pcs

(* Each action keeps the invariant *)

LEMMA CallKeeps ==
  ASSUME IInv, NEW p \in Proc, Call(p) PROVE IInv'
<1> USE PayloadAssumption DEF IInv, Call, Busy, Tear, store, call
<1>1. TypeOK' BY DEF TypeOK, Pcs
<1>2. LocksFollowControl' BY DEF TypeOK, LocksFollowControl, Inside
<1>3. CallsAreKnown' BY DEF TypeOK, CallsAreKnown, Inside
<1>4. MarkerVouches' BY DEF TypeOK, MarkerVouches, Hit
<1>5. UnreadableOnlyWhileStamped' BY DEF TypeOK, UnreadableOnlyWhileStamped
<1>6. ~torn' => RemovesAlone' BY DEF TypeOK, RemovesAlone
<1>7. ~torn' /\ NobodyRemoves' => Quiet'
  <2> SUFFICES ASSUME ~torn', NobodyRemoves' PROVE Quiet' OBVIOUS
  <2>1. OneLockFile'
    BY DEF TypeOK, NobodyRemoves, Quiet, OneLockFile, LocksFollowControl,
      Inside
  <2>2. InstallsExclude'
    BY DEF TypeOK, NobodyRemoves, Quiet, InstallsExclude, LocksFollowControl,
      Inside
  <2>3. MarkersFollow' BY DEF TypeOK, NobodyRemoves, Quiet, MarkersFollow
  <2>4. Placing' BY DEF TypeOK, NobodyRemoves, Quiet, Placing, Hit
  <2>5. Told' BY DEF TypeOK, NobodyRemoves, Quiet, Told, Hit
  <2> QED BY <2>1, <2>2, <2>3, <2>4, <2>5 DEF Quiet
<1> QED BY <1>1, <1>2, <1>3, <1>4, <1>5, <1>6, <1>7

\* A call ends and leaves the store as it is.
LEMMA EndKeeps ==
  ASSUME IInv, NEW p \in Proc, Leave(p), UNCHANGED <<store, torn>>,
         sealed' \in [Proc -> BOOLEAN],
         pc[p] \notin {"remove", "writestamp"},
         answered' \in [Version -> SUBSET Digest],
         ~torn /\ NobodyRemoves => Told'
  PROVE  IInv'
<1> USE PayloadAssumption DEF IInv, store
<1>0. /\ pc' = [pc EXCEPT ![p] = "idle"] /\ job' = [job EXCEPT ![p] = NoJob]
      /\ held' = [held EXCEPT ![p] = FALSE] /\ open' = [open EXCEPT ![p] = 0]
      /\ got' = [got EXCEPT ![p] = None]
  BY DEF Leave
<1>1. TypeOK' BY LeaveTypes DEF TypeOK, Jobs
<1>2. LocksFollowControl' BY <1>0 DEF TypeOK, LocksFollowControl, Inside
<1>3. CallsAreKnown' BY <1>0 DEF TypeOK, CallsAreKnown, Inside
<1>4. MarkerVouches' BY DEF MarkerVouches, Hit
<1>5. UnreadableOnlyWhileStamped'
  BY <1>0 DEF TypeOK, UnreadableOnlyWhileStamped
<1>6. ~torn' => RemovesAlone' BY <1>0 DEF TypeOK, RemovesAlone
<1>7. ASSUME ~torn', NobodyRemoves' PROVE Quiet'
  <2>1. ~torn /\ NobodyRemoves /\ Quiet
    BY <1>0, <1>7 DEF TypeOK, NobodyRemoves
  <2>2. OneLockFile' BY <1>0, <2>1 DEF TypeOK, Quiet, OneLockFile
  <2>3. InstallsExclude' BY <1>0, <2>1 DEF TypeOK, Quiet, InstallsExclude
  <2>4. MarkersFollow' BY <2>1 DEF Quiet, MarkersFollow
  <2>5. Placing' BY <1>0, <2>1 DEF TypeOK, Quiet, Placing, Hit
  <2> QED BY <2>1, <2>2, <2>3, <2>4, <2>5 DEF Quiet
<1> QED BY <1>1, <1>2, <1>3, <1>4, <1>5, <1>6, <1>7

LEMMA FailKeeps ==
  ASSUME IInv, NEW p \in Proc, Fail(p), UNCHANGED <<store, torn>>,
         sealed' \in [Proc -> BOOLEAN], pc[p] \notin {"remove", "writestamp"}
  PROVE  IInv'
<1>1. Leave(p) /\ answered' = answered BY DEF Fail
<1>2. ~torn /\ NobodyRemoves => Told'
  BY <1>1 DEF IInv, Quiet, Told, Hit, store
<1> QED BY <1>1, <1>2, EndKeeps DEF IInv, TypeOK

\* A call answers with the checksum of the bytes that are there.
LEMMA ReturnKeeps ==
  ASSUME IInv, NEW p \in Proc, NEW v \in Version, NEW d \in Digest,
         v = job[p].version, Return(p, d), UNCHANGED <<store, torn, sealed>>,
         pc[p] \notin {"remove", "writestamp"},
         ~torn /\ NobodyRemoves => Hit(v) /\ file[v] = d
  PROVE  IInv'
<1>1. /\ Leave(p)
      /\ answered' = IF torn THEN answered
                     ELSE [answered EXCEPT ![v] = @ \cup {d}]
  BY DEF Return
<1>2. answered \in [Version -> SUBSET Digest] BY DEF IInv, TypeOK
<1>3. answered' \in [Version -> SUBSET Digest] BY <1>1, <1>2
<1>4. ASSUME ~torn, NobodyRemoves PROVE Told'
  <2>1. Told BY <1>4 DEF IInv, Quiet
  <2>2. \A w \in Version :
          answered'[w] = IF w = v THEN answered[v] \cup {d} ELSE answered[w]
    BY <1>1, <1>2, <1>4
  <2>3. \A w \in Version : (Hit(w)' <=> Hit(w)) /\ file'[w] = file[w]
    BY DEF Hit, store
  <2> QED BY <1>4, <2>1, <2>2, <2>3 DEF Told
<1> QED BY <1>1, <1>3, <1>4, EndKeeps DEF IInv, TypeOK

\* A call ends with the answers counting no more.
LEMMA TornKeeps ==
  ASSUME IInv, NEW p \in Proc, Leave(p), UNCHANGED store, torn' = TRUE,
         sealed' \in [Proc -> BOOLEAN], answered' \in [Version -> SUBSET Digest]
  PROVE  IInv'
<1> USE PayloadAssumption DEF IInv
<1>1. TypeOK' BY LeaveTypes DEF TypeOK, Jobs, store
<1>2. LocksFollowControl' /\ CallsAreKnown'
  BY DEF Leave, TypeOK, LocksFollowControl, CallsAreKnown, Inside
<1>3. MarkerVouches' /\ UnreadableOnlyWhileStamped'
  BY DEF MarkerVouches, UnreadableOnlyWhileStamped
<1> QED BY <1>1, <1>2, <1>3

\* A marker under a hit is the checksum of the bytes.
LEMMA HitIsVouched ==
  ASSUME IInv, NEW v \in Version, Hit(v)
  PROVE  mark[v] \in Digest /\ (~torn => file[v] = mark[v])
BY DEF IInv, MarkerVouches, Hit

\* A call goes on without touching the files of a version or its lock.
LEMMA GotoKeeps ==
  ASSUME IInv, NEW p \in Proc, NEW at \in Pcs, Goto(p, at),
         UNCHANGED <<file, mark, lockfile, torn>>,
         stamp' \in {None, "bad", "newer", "current"}, dir' \in BOOLEAN,
         sealed' \in [Proc -> BOOLEAN],
         stamp' = "bad" => \/ at = "writestamp"
                           \/ stamp = "bad" /\ pc[p] # "writestamp",
         pc[p] \notin {"idle", "remove", "wait"},
         at \notin {"idle", "remove", "wait", "mark", "origin"},
         at \in Inside <=> pc[p] \in Inside,
         at \in {"install", "open"} => pc[p] \in {"install", "open"},
         ~torn /\ NobodyRemoves /\ at \in {"write", "rename"} => ~Hit(job[p].version)
  PROVE  IInv'
<1> USE PayloadAssumption DEF IInv
<1>0. pc' = [pc EXCEPT ![p] = at] /\ UNCHANGED <<job, got, open, held, answered>>
  BY DEF Goto, call
<1>1. TypeOK' BY <1>0 DEF TypeOK
<1>2. LocksFollowControl' BY <1>0 DEF TypeOK, LocksFollowControl
<1>3. CallsAreKnown' BY <1>0 DEF TypeOK, CallsAreKnown
<1>4. MarkerVouches' BY DEF MarkerVouches, Hit
<1>5. UnreadableOnlyWhileStamped'
  BY <1>0 DEF TypeOK, UnreadableOnlyWhileStamped
<1>6. ~torn' => RemovesAlone' BY <1>0 DEF TypeOK, RemovesAlone
<1>7. ASSUME ~torn', NobodyRemoves' PROVE Quiet'
  <2>1. ~torn /\ NobodyRemoves /\ Quiet
    BY <1>0, <1>7 DEF TypeOK, NobodyRemoves
  <2>2. OneLockFile' BY <1>0, <2>1 DEF Quiet, OneLockFile
  <2>3. InstallsExclude' BY <1>0, <2>1 DEF Quiet, InstallsExclude
  <2>4. MarkersFollow' BY <2>1 DEF Quiet, MarkersFollow
  <2>5. Placing' BY <1>0, <2>1 DEF TypeOK, Quiet, Placing, Hit
  <2>6. Told' BY <1>0, <2>1 DEF Quiet, Told, Hit
  <2> QED BY <2>2, <2>3, <2>4, <2>5, <2>6 DEF Quiet
<1> QED BY <1>1, <1>2, <1>3, <1>4, <1>5, <1>6, <1>7

LEMMA ReadStampKeeps ==
  ASSUME IInv, NEW p \in Proc, ReadStamp(p) PROVE IInv'
<1>1. /\ pc[p] = "stamp" /\ UNCHANGED <<store, torn, sealed>>
      /\ TypeOK
  BY DEF ReadStamp, Keep, KeepStore, IInv
<1>2. CASE Fail(p) BY <1>1, <1>2, FailKeeps DEF TypeOK
<1>3. CASE stamp \in {None, "current"} /\ \E at \in {"restamp", "get"} : Goto(p, at)
  <2>1. PICK at \in {"restamp", "get"} : Goto(p, at) BY <1>3
  <2> QED BY <1>1, <2>1, GotoKeeps DEF TypeOK, Pcs, Inside, store
<1> QED BY <1>2, <1>3 DEF ReadStamp

LEMMA TruncateStampKeeps ==
  ASSUME IInv, NEW p \in Proc, TruncateStamp(p) PROVE IInv'
<1>1. /\ pc[p] = "restamp" /\ Goto(p, "writestamp") /\ stamp' = "bad"
      /\ UNCHANGED <<dir, file, mark, lockfile, sealed, torn>> /\ TypeOK
  BY DEF TruncateStamp, IInv
<1> QED BY <1>1, GotoKeeps DEF TypeOK, Pcs, Inside

LEMMA WriteStampKeeps ==
  ASSUME IInv, NEW p \in Proc, WriteStamp(p) PROVE IInv'
<1>1. /\ pc[p] = "writestamp" /\ TypeOK
      /\ UNCHANGED <<dir, file, mark, lockfile, sealed>>
  BY DEF WriteStamp, IInv
<1>2. CASE stamp' = "current" /\ Goto(p, "get") /\ UNCHANGED torn
  BY <1>1, <1>2, GotoKeeps DEF TypeOK, Pcs, Inside
<1>3. CASE Leave(p) /\ Tear(TRUE) /\ UNCHANGED stamp
  BY <1>1, <1>3, TornKeeps DEF store, Tear, TypeOK
<1> QED BY <1>2, <1>3 DEF WriteStamp

LEMMA GetKeeps ==
  ASSUME IInv, NEW p \in Proc, Get(p) PROVE IInv'
<1> DEFINE v == job[p].version
<1>1. /\ pc[p] = "get" /\ UNCHANGED <<store, torn, sealed>> /\ v \in Version
      /\ TypeOK
  BY DEF Get, Keep, KeepStore, IInv, CallsAreKnown
<1>2. CASE Hit(v) /\ Return(p, mark[v])
  BY <1>1, <1>2, HitIsVouched, ReturnKeeps
<1>3. CASE ~Hit(v) /\ Goto(p, "fetch")
  BY <1>1, <1>3, GotoKeeps DEF TypeOK, Pcs, Inside, store
<1> QED BY <1>2, <1>3 DEF Get

LEMMA FetchKeeps ==
  ASSUME IInv, NEW p \in Proc, Fetch(p) PROVE IInv'
<1> USE PayloadAssumption
<1>1. /\ pc[p] = "fetch" /\ UNCHANGED <<store, torn, sealed>> /\ TypeOK
  BY DEF Fetch, Keep, KeepStore, IInv
<1>2. CASE Fail(p) BY <1>1, <1>2, FailKeeps DEF TypeOK
<1>3. ASSUME NEW d \in Digest,
             got' = [got EXCEPT ![p] = d], pc' = [pc EXCEPT ![p] = "install"],
             UNCHANGED <<job, open, held, answered>>
      PROVE  IInv'
  <2> USE <1>1, <1>3 DEF IInv, store
  <2>1. TypeOK' BY DEF TypeOK, Pcs
  <2>2. LocksFollowControl' BY DEF TypeOK, LocksFollowControl, Inside
  <2>3. CallsAreKnown' BY DEF TypeOK, CallsAreKnown, Inside
  <2>4. MarkerVouches' BY DEF MarkerVouches, Hit
  <2>5. UnreadableOnlyWhileStamped'
    BY DEF TypeOK, UnreadableOnlyWhileStamped
  <2>6. ~torn' => RemovesAlone' BY DEF TypeOK, RemovesAlone
  <2>7. ASSUME ~torn', NobodyRemoves' PROVE Quiet'
    <3>1. Quiet BY <2>7 DEF TypeOK, NobodyRemoves
    <3>2. OneLockFile' BY <3>1 DEF Quiet, OneLockFile
    <3>3. InstallsExclude' BY <3>1 DEF Quiet, InstallsExclude
    <3>4. MarkersFollow' BY <3>1 DEF Quiet, MarkersFollow
    <3>5. Placing' BY <3>1 DEF TypeOK, Quiet, Placing, Hit
    <3>6. Told' BY <3>1 DEF Quiet, Told, Hit
    <3> QED BY <3>2, <3>3, <3>4, <3>5, <3>6 DEF Quiet
  <2> QED BY <2>1, <2>2, <2>3, <2>4, <2>5, <2>6, <2>7
<1> QED BY <1>2, <1>3 DEF Fetch

LEMMA InstallKeeps ==
  ASSUME IInv, NEW p \in Proc, Install(p) PROVE IInv'
<1> DEFINE v == job[p].version
<1>1. pc[p] = "install" /\ v \in Version /\ TypeOK
  BY DEF Install, IInv, CallsAreKnown
<1>2. CASE Hit(v) /\ Return(p, mark[v]) /\ Keep
  BY <1>1, <1>2, HitIsVouched, ReturnKeeps DEF Keep, KeepStore
<1>3. CASE /\ dir' = TRUE /\ Goto(p, "open")
           /\ UNCHANGED <<stamp, file, mark, lockfile, sealed, torn>>
  BY <1>1, <1>3, GotoKeeps DEF TypeOK, Pcs, Inside
<1> QED BY <1>2, <1>3 DEF Install

LEMMA OpenLockKeeps ==
  ASSUME IInv, NEW p \in Proc, OpenLock(p) PROVE IInv'
<1> USE PayloadAssumption DEF IInv
<1> DEFINE v == job[p].version
<1>1. pc[p] = "open" /\ v \in Version BY DEF OpenLock, CallsAreKnown
<1>2. UNCHANGED <<stamp, dir, file, mark, sealed, torn, answered>>
  BY DEF OpenLock, Keep, KeepStore, store, Fail, Opened
<1>3. CASE Leave(p) /\ UNCHANGED lockfile
  BY <1>1, <1>2, <1>3, FailKeeps DEF Fail, store, TypeOK
<1>4. CASE ~(Leave(p) /\ UNCHANGED lockfile)
  <2>1. PICK i \in Inode :
          /\ Opened(p, i)
          /\ \/ lockfile[v] = i /\ UNCHANGED lockfile
             \/ /\ lockfile[v] = 0
                /\ lockfile' = [lockfile EXCEPT ![v] = i]
    <3>1. CASE lockfile[v] = 0
      BY <1>4, <3>1 DEF OpenLock, Keep, KeepStore, store, Fail, Unused
    <3>2. CASE lockfile[v] # 0
      <4>1. lockfile[v] \in Inode BY <1>1, <3>2 DEF TypeOK
      <4> QED BY <1>4, <3>2, <4>1 DEF OpenLock, Keep, KeepStore, store, Fail
    <3> QED BY <3>1, <3>2
  <2>2. /\ pc' = [pc EXCEPT ![p] = "wait"] /\ open' = [open EXCEPT ![p] = i]
        /\ UNCHANGED <<job, got, held>> /\ i # 0
    BY <2>1 DEF Opened
  <2>3. TypeOK' BY <1>1, <1>2, <2>1, <2>2 DEF TypeOK, Pcs
  <2>4. LocksFollowControl' /\ CallsAreKnown'
    BY <1>1, <2>2 DEF TypeOK, LocksFollowControl, CallsAreKnown, Inside
  <2>5. MarkerVouches' /\ UnreadableOnlyWhileStamped'
    BY <1>1, <1>2, <2>2 DEF TypeOK, MarkerVouches, Hit,
      UnreadableOnlyWhileStamped
  <2>6. ~torn' => RemovesAlone' BY <1>1, <1>2, <2>2 DEF TypeOK, RemovesAlone
  <2>7. ASSUME ~torn', NobodyRemoves' PROVE Quiet'
    <3>1. ~torn /\ NobodyRemoves
      BY <1>1, <1>2, <2>2, <2>7 DEF TypeOK, NobodyRemoves
    <3>2. OneLockFile'
      BY <1>1, <2>1, <2>2, <3>1 DEF TypeOK, Quiet, OneLockFile,
        LocksFollowControl, CallsAreKnown, Inside
    <3>3. (InstallsExclude /\ MarkersFollow /\ Placing /\ Told)'
      BY <1>1, <1>2, <2>2, <3>1 DEF TypeOK, Quiet, InstallsExclude,
        MarkersFollow, Placing, Told, Hit
    <3> QED BY <3>2, <3>3 DEF Quiet
  <2> QED BY <2>3, <2>4, <2>5, <2>6, <2>7
<1> QED BY <1>3, <1>4

LEMMA WaitKeeps ==
  ASSUME IInv, NEW p \in Proc, Wait(p) PROVE IInv'
<1> USE PayloadAssumption
<1>1. /\ pc[p] = "wait" /\ UNCHANGED <<store, torn, sealed>> /\ TypeOK
  BY DEF Wait, Keep, KeepStore, IInv
<1>2. CASE Fail(p) BY <1>1, <1>2, FailKeeps DEF TypeOK
<1>3. ASSUME LockFree(open[p]), Locked(p) PROVE IInv'
  <2> USE <1>1, <1>3 DEF IInv, store, Locked
  <2>1. TypeOK' BY DEF TypeOK, Pcs
  <2>2. LocksFollowControl' BY DEF TypeOK, LocksFollowControl, Inside
  <2>3. CallsAreKnown' BY DEF TypeOK, CallsAreKnown, Inside
  <2>4. MarkerVouches' BY DEF MarkerVouches, Hit
  <2>5. UnreadableOnlyWhileStamped'
    BY DEF TypeOK, UnreadableOnlyWhileStamped
  <2>6. ~torn' => RemovesAlone' BY DEF TypeOK, RemovesAlone
  <2>7. ASSUME ~torn', NobodyRemoves' PROVE Quiet'
    <3>1. Quiet BY <2>7 DEF TypeOK, NobodyRemoves
    <3>2. OneLockFile' BY <3>1 DEF Quiet, OneLockFile
    <3>3. InstallsExclude'
      <4>1. ASSUME NEW q \in Proc, held[q], job[q].version = job[p].version
            PROVE  FALSE
        <5>1. open[q] # 0 /\ open[p] # 0 BY <4>1 DEF LocksFollowControl
        <5>2. open[q] = open[p] BY <3>1, <4>1, <5>1 DEF Quiet, OneLockFile
        <5> QED BY <4>1, <5>2 DEF LockFree
      <4>2. /\ job' = job
            /\ \A q \in Proc : held'[q] => held[q] \/ q = p
        BY DEF TypeOK
      <4> QED BY <3>1, <4>1, <4>2 DEF Quiet, InstallsExclude
    <3>4. MarkersFollow' BY <3>1 DEF Quiet, MarkersFollow
    <3>5. Placing' BY <3>1 DEF TypeOK, Quiet, Placing, Hit
    <3>6. Told' BY <3>1 DEF Quiet, Told, Hit
    <3> QED BY <3>2, <3>3, <3>4, <3>5, <3>6 DEF Quiet
  <2> QED BY <2>1, <2>2, <2>3, <2>4, <2>5, <2>6, <2>7
<1> QED BY <1>2, <1>3 DEF Wait

LEMMA RecheckKeeps ==
  ASSUME IInv, NEW p \in Proc, Recheck(p) PROVE IInv'
<1> DEFINE v == job[p].version
<1>1. /\ pc[p] = "recheck" /\ UNCHANGED <<store, torn, sealed>>
      /\ v \in Version /\ TypeOK
  BY DEF Recheck, Keep, KeepStore, IInv, CallsAreKnown
<1>2. CASE Hit(v) /\ Return(p, mark[v])
  BY <1>1, <1>2, HitIsVouched, ReturnKeeps
<1>3. CASE Fail(p) BY <1>1, <1>3, FailKeeps DEF TypeOK
<1>4. CASE ~Hit(v) /\ Goto(p, "write")
  BY <1>1, <1>4, GotoKeeps DEF TypeOK, Pcs, Inside, store
<1> QED BY <1>2, <1>3, <1>4 DEF Recheck

LEMMA WriteKeeps ==
  ASSUME IInv, NEW p \in Proc, Write(p) PROVE IInv'
<1>1. /\ pc[p] = "write" /\ UNCHANGED <<store, torn>> /\ TypeOK
      /\ sealed' \in [Proc -> BOOLEAN]
  BY DEF Write, KeepStore, IInv, TypeOK
<1>2. CASE Fail(p) BY <1>1, <1>2, FailKeeps
<1>3. CASE Goto(p, "rename")
  <2>1. ~torn /\ NobodyRemoves => ~Hit(job[p].version)
    BY <1>1 DEF IInv, Quiet, Placing
  <2> QED BY <1>1, <1>3, <2>1, GotoKeeps DEF TypeOK, Pcs, Inside, store
<1> QED BY <1>2, <1>3 DEF Write

LEMMA RenameKeeps ==
  ASSUME IInv, NEW p \in Proc, Rename(p) PROVE IInv'
<1> DEFINE v == job[p].version
<1> USE PayloadAssumption
<1>1. /\ pc[p] = "rename" /\ held[p] /\ v \in Version /\ got[p] \in Digest
      /\ TypeOK /\ sealed' = [sealed EXCEPT ![p] = FALSE]
  BY DEF Rename, IInv, CallsAreKnown, LocksFollowControl, Inside
<1>2. CASE Fail(p) /\ KeepStore
  BY <1>1, <1>2, FailKeeps DEF TypeOK, KeepStore
<1>3. CASE /\ file' = [file EXCEPT ![v] = got[p]] /\ Goto(p, "mark")
           /\ UNCHANGED <<stamp, dir, mark, lockfile, torn>>
  <2>1. /\ pc' = [pc EXCEPT ![p] = "mark"]
        /\ UNCHANGED <<job, got, open, held, answered>>
    BY <1>3 DEF Goto, call
  <2> USE <1>1, <1>3, <2>1 DEF IInv
  <2>2. TypeOK' BY DEF TypeOK, Pcs
  <2>3. LocksFollowControl' /\ CallsAreKnown'
    BY DEF TypeOK, LocksFollowControl, CallsAreKnown, Inside
  <2>4. UnreadableOnlyWhileStamped'
    BY DEF TypeOK, UnreadableOnlyWhileStamped
  <2>5. ~torn' => RemovesAlone' BY DEF TypeOK, RemovesAlone
  <2>6. ASSUME ~torn PROVE NobodyRemoves /\ Quiet /\ ~Hit(v) /\ mark[v] \notin Digest
    <3>1. NobodyRemoves /\ Quiet
      BY <2>6 DEF NobodyRemoves, RemovesAlone
    <3>2. file[v] # None => mark[v] \notin Digest
      BY <3>1 DEF Quiet, Placing, Hit
    <3> QED BY <3>1, <3>2 DEF Quiet, Placing, Hit, MarkersFollow, TypeOK
  <2>7. MarkerVouches'
    BY <2>6 DEF TypeOK, MarkerVouches, Hit
  <2>8. ASSUME ~torn' PROVE Quiet'
    <3>1. Quiet /\ ~Hit(v) /\ mark[v] \notin Digest BY <2>6, <2>8
    <3>2. OneLockFile' BY <3>1 DEF Quiet, OneLockFile
    <3>3. InstallsExclude' BY <3>1 DEF Quiet, InstallsExclude
    <3>4. MarkersFollow' BY <3>1 DEF TypeOK, Quiet, MarkersFollow
    <3>5. Placing'
      <4>1. ASSUME NEW q \in Proc, q # p, pc[q] \in Inside
            PROVE  job[q].version # v
        BY <3>1, <4>1 DEF Quiet, InstallsExclude, LocksFollowControl
      <4>2. \A q \in Proc : q # p => pc'[q] = pc[q] BY DEF TypeOK
      <4>3. \A w \in Version : w # v => file'[w] = file[w] /\ mark'[w] = mark[w]
        BY DEF TypeOK
      <4>4. file'[v] = got[p] BY DEF TypeOK
      <4>5. \A q \in Proc : pc[q] \in Inside => job[q].version \in Version
        BY DEF CallsAreKnown, Inside
      <4>6. ASSUME NEW q \in Proc, q # p
            PROVE  LET w == job[q].version IN
                   /\ job'[q] = job[q]
                   /\ pc'[q] \in {"write", "rename"}
                        => ~(file'[w] # None /\ mark'[w] \in Digest)
                   /\ pc'[q] = "mark" => file'[w] = got'[q] /\ mark'[w] \notin Digest
                   /\ pc'[q] = "origin" => file'[w] = got'[q] /\ mark'[w] = got'[q]
        BY <3>1, <4>1, <4>2, <4>3, <4>5, <4>6 DEF Quiet, Placing, Hit, Inside
      <4>7. pc'[p] = "mark" BY DEF TypeOK
      <4> QED BY <3>1, <4>4, <4>6, <4>7 DEF Placing, Hit
    <3>6. Told' BY <3>1 DEF TypeOK, Quiet, Told, Hit
    <3> QED BY <3>2, <3>3, <3>4, <3>5, <3>6 DEF Quiet
  <2> QED BY <2>2, <2>3, <2>4, <2>5, <2>7, <2>8
<1> QED BY <1>2, <1>3 DEF Rename

LEMMA MarkKeeps ==
  ASSUME IInv, NEW p \in Proc, Mark(p) PROVE IInv'
<1> DEFINE v == job[p].version
<1> USE PayloadAssumption
<1>1. /\ pc[p] = "mark" /\ held[p] /\ v \in Version /\ got[p] \in Digest
      /\ TypeOK /\ sealed' = sealed
  BY DEF Mark, IInv, CallsAreKnown, LocksFollowControl, Inside
<1>2. CASE Fail(p) /\ KeepStore
  BY <1>1, <1>2, FailKeeps DEF TypeOK, KeepStore
<1>3. ASSUME NEW m \in {"bad", got[p]}, mark' = [mark EXCEPT ![v] = m],
             \/ m = "bad" /\ Fail(p)
             \/ m = got[p] /\ Goto(p, "origin"),
             UNCHANGED <<stamp, dir, file, lockfile, torn>>
      PROVE  IInv'
  <2> USE <1>1, <1>3 DEF IInv
  <2>1. /\ \A q \in Proc \ {p} : /\ pc'[q] = pc[q] /\ job'[q] = job[q]
                                /\ got'[q] = got[q] /\ open'[q] = open[q]
                                /\ held'[q] = held[q]
        /\ \/ pc'[p] = "idle" /\ open'[p] = 0 /\ ~held'[p]
           \/ /\ pc'[p] = "origin" /\ m = got[p] /\ got'[p] = got[p]
              /\ job'[p] = job[p] /\ open'[p] = open[p] /\ held'[p]
        /\ UNCHANGED answered
    BY DEF Goto, Fail, Leave, call, TypeOK
  <2>2. TypeOK'
    <3>1. CASE Fail(p) BY <3>1, LeaveTypes DEF TypeOK, Jobs, Fail
    <3>2. CASE Goto(p, "origin") BY <3>2 DEF TypeOK, Pcs, Goto, call
    <3> QED BY <3>1, <3>2
  <2>3. LocksFollowControl' /\ CallsAreKnown'
    BY <2>1 DEF LocksFollowControl, CallsAreKnown, Inside
  <2>4. UnreadableOnlyWhileStamped'
    BY <2>1 DEF UnreadableOnlyWhileStamped
  <2>5. ~torn' => RemovesAlone' BY <2>1 DEF RemovesAlone
  <2>6. ASSUME ~torn PROVE NobodyRemoves /\ Quiet /\ file[v] = got[p] /\ ~Hit(v)
    <3>1. NobodyRemoves /\ Quiet
      BY <2>6 DEF NobodyRemoves, RemovesAlone
    <3> QED BY <3>1 DEF Quiet, Placing, Hit
  <2>7. /\ mark'[v] = m /\ \A w \in Version : w # v => mark'[w] = mark[w]
        /\ "bad" \notin Digest
    BY DEF TypeOK
  <2>8. MarkerVouches'
    BY <2>6, <2>7 DEF MarkerVouches, Hit
  <2>9. ASSUME ~torn' PROVE Quiet'
    <3>1. Quiet /\ file[v] = got[p] /\ ~Hit(v) BY <2>6, <2>9
    <3>2. OneLockFile' BY <2>1, <3>1 DEF Quiet, OneLockFile
    <3>3. InstallsExclude' BY <2>1, <3>1 DEF Quiet, InstallsExclude
    <3>4. MarkersFollow' BY <2>7, <3>1 DEF Quiet, MarkersFollow
    <3>5. Placing'
      <4>1. ASSUME NEW q \in Proc, q # p, pc[q] \in Inside
            PROVE  job[q].version # v /\ job[q].version \in Version
        BY <3>1, <4>1 DEF Quiet, InstallsExclude, LocksFollowControl,
          CallsAreKnown, Inside
      <4>2. ASSUME NEW q \in Proc, q # p
            PROVE  LET w == job[q].version IN
                   /\ job'[q] = job[q]
                   /\ pc'[q] \in {"write", "rename"}
                        => ~(file'[w] # None /\ mark'[w] \in Digest)
                   /\ pc'[q] = "mark" => file'[w] = got'[q] /\ mark'[w] \notin Digest
                   /\ pc'[q] = "origin" => file'[w] = got'[q] /\ mark'[w] = got'[q]
        BY <2>1, <2>7, <3>1, <4>1, <4>2 DEF Quiet, Placing, Hit, Inside
      <4> QED BY <2>1, <2>7, <3>1, <4>2 DEF Placing, Hit
    <3>6. Told' BY <2>1, <2>7, <3>1 DEF Quiet, Told, Hit
    <3> QED BY <3>2, <3>3, <3>4, <3>5, <3>6 DEF Quiet
  <2> QED BY <2>2, <2>3, <2>4, <2>5, <2>8, <2>9
<1> QED BY <1>2, <1>3 DEF Mark

LEMMA OriginKeeps ==
  ASSUME IInv, NEW p \in Proc, Origin(p) PROVE IInv'
<1> DEFINE v == job[p].version
<1>1. /\ pc[p] = "origin" /\ UNCHANGED <<store, torn, sealed>>
      /\ v \in Version /\ got[p] \in Digest /\ TypeOK
  BY DEF Origin, Keep, KeepStore, IInv, CallsAreKnown, Inside
<1>2. CASE Fail(p) BY <1>1, <1>2, FailKeeps DEF TypeOK
<1>3. CASE Return(p, got[p])
  <2>1. ~torn /\ NobodyRemoves => Hit(v) /\ file[v] = got[p]
    BY <1>1, PayloadAssumption DEF IInv, Quiet, Placing, Hit
  <2> QED BY <1>1, <1>3, <2>1, ReturnKeeps
<1> QED BY <1>2, <1>3 DEF Origin

LEMMA BeginRemoveKeeps ==
  ASSUME IInv, NEW p \in Proc, BeginRemove(p) PROVE IInv'
<1> USE PayloadAssumption DEF IInv, BeginRemove, Tear, Busy, store, call
<1>1. TypeOK' BY DEF TypeOK, Pcs
<1>2. LocksFollowControl' BY DEF TypeOK, LocksFollowControl, Inside
<1>3. CallsAreKnown' BY DEF TypeOK, CallsAreKnown, Inside
<1>4. MarkerVouches' BY DEF TypeOK, MarkerVouches, Hit
<1>5. UnreadableOnlyWhileStamped' BY DEF TypeOK, UnreadableOnlyWhileStamped
<1>6. ~torn' => RemovesAlone' BY DEF TypeOK, RemovesAlone
<1>7. ~torn' /\ NobodyRemoves' => Quiet'
  <2> SUFFICES ASSUME ~torn', NobodyRemoves' PROVE Quiet' OBVIOUS
  <2>1. OneLockFile' BY DEF TypeOK, NobodyRemoves, OneLockFile
  <2>2. InstallsExclude' BY DEF TypeOK, NobodyRemoves, InstallsExclude
  <2>3. MarkersFollow' BY DEF TypeOK, NobodyRemoves, MarkersFollow
  <2>4. Placing' BY DEF TypeOK, Placing
  <2>5. Told' BY DEF TypeOK, NobodyRemoves, Told
  <2> QED BY <2>1, <2>2, <2>3, <2>4, <2>5 DEF Quiet
<1> QED BY <1>1, <1>2, <1>3, <1>4, <1>5, <1>6, <1>7

LEMMA RemoveFileKeeps ==
  ASSUME IInv, NEW p \in Proc, RemoveFile(p) PROVE IInv'
<1> USE PayloadAssumption DEF IInv, RemoveFile, store, call
<1>1. TypeOK'
  <2>1. file' \in [Version -> Digest \cup {None}]
    BY DEF TypeOK
  <2>2. mark' \in [Version -> Digest \cup {None, "bad"}]
    BY DEF TypeOK
  <2>3. lockfile' \in [Version -> Inode \cup {0}]
    BY DEF TypeOK
  <2>4. UNCHANGED <<stamp, dir, sealed, pc, call, answered, torn>>
    OBVIOUS
  <2> QED
    BY <2>1, <2>2, <2>3, <2>4 DEF TypeOK
<1>2. LocksFollowControl' BY DEF TypeOK, LocksFollowControl
<1>3. CallsAreKnown' BY DEF TypeOK, CallsAreKnown
<1>4. MarkerVouches'
  <2>1. \A v \in Version : file'[v] \in {file[v], None} /\ mark'[v] \in {mark[v], None}
    BY DEF TypeOK
  <2> QED BY <2>1 DEF MarkerVouches, Hit
<1>5. UnreadableOnlyWhileStamped' BY DEF TypeOK, UnreadableOnlyWhileStamped
<1>6. ~torn' => RemovesAlone' BY DEF TypeOK, RemovesAlone
<1>7. ~torn' /\ NobodyRemoves' => Quiet'
  <2> SUFFICES ASSUME ~torn', NobodyRemoves' PROVE Quiet' OBVIOUS
  <2>1. OneLockFile' BY DEF TypeOK, NobodyRemoves, OneLockFile
  <2>2. InstallsExclude' BY DEF TypeOK, NobodyRemoves, InstallsExclude
  <2>3. MarkersFollow' BY DEF TypeOK, NobodyRemoves, MarkersFollow
  <2>4. Placing' BY DEF TypeOK, NobodyRemoves, Placing
  <2>5. Told' BY DEF TypeOK, NobodyRemoves, Told
  <2> QED BY <2>1, <2>2, <2>3, <2>4, <2>5 DEF Quiet
<1> QED BY <1>1, <1>2, <1>3, <1>4, <1>5, <1>6, <1>7

LEMMA EndRemoveKeeps ==
  ASSUME IInv, NEW p \in Proc, EndRemove(p) PROVE IInv'
<1> USE PayloadAssumption DEF IInv, EndRemove, Tear, IsEmpty, store, call
<1>1. TypeOK' BY DEF TypeOK, Pcs
<1>2. LocksFollowControl' BY DEF TypeOK, LocksFollowControl, Inside
<1>3. CallsAreKnown' BY DEF TypeOK, CallsAreKnown, Inside
<1>4. MarkerVouches' BY DEF TypeOK, MarkerVouches
<1>5. UnreadableOnlyWhileStamped' BY DEF TypeOK, UnreadableOnlyWhileStamped
<1>6. ~torn' => RemovesAlone' BY DEF TypeOK, RemovesAlone
<1>7. ~torn' /\ NobodyRemoves' => Quiet'
  <2> SUFFICES ASSUME ~torn', NobodyRemoves' PROVE Quiet' OBVIOUS
  <2>1. OneLockFile'
    BY DEF TypeOK, RemovesAlone, OneLockFile, LocksFollowControl, Inside
  <2>2. InstallsExclude'
    BY DEF TypeOK, RemovesAlone, InstallsExclude, LocksFollowControl, Inside
  <2>3. MarkersFollow' BY DEF TypeOK, MarkersFollow
  <2>4. Placing' BY DEF TypeOK, RemovesAlone, Placing
  <2>5. Told' BY DEF TypeOK, Told
  <2> QED BY <2>1, <2>2, <2>3, <2>4, <2>5 DEF Quiet
<1> QED BY <1>1, <1>2, <1>3, <1>4, <1>5, <1>6, <1>7

LEMMA CrashKeeps ==
  ASSUME IInv, NEW p \in Proc, Crash(p) PROVE IInv'
<1> DEFINE now == pc[p] \in {"remove", "writestamp"}
<1>1. Leave(p) /\ Tear(now) /\ UNCHANGED <<store, sealed>> /\ TypeOK
  BY DEF Crash, IInv
<1>2. CASE now
  BY <1>1, <1>2, TornKeeps DEF Tear, TypeOK
<1>3. CASE ~now
  <2>1. Fail(p) /\ torn' = torn
    BY <1>1, <1>3 DEF Tear, Fail, TypeOK
  <2> QED BY <1>1, <1>3, <2>1, FailKeeps DEF TypeOK
<1> QED BY <1>2, <1>3

-----------------------------------------------------------------------------

LEMMA NextKeeps == IInv /\ [Next]_vars => IInv'
<1> SUFFICES ASSUME IInv, [Next]_vars PROVE IInv' OBVIOUS
<1>1. CASE Next
  <2> PICK p \in Proc : Call(p) \/ Step(p) \/ Remove(p) \/ Crash(p)
    BY <1>1 DEF Next
  <2>1. CASE Step(p)
    BY <2>1, ReadStampKeeps, TruncateStampKeeps, WriteStampKeeps, GetKeeps,
      FetchKeeps, InstallKeeps, OpenLockKeeps, WaitKeeps, RecheckKeeps,
      WriteKeeps, RenameKeeps, MarkKeeps, OriginKeeps DEF Step
  <2>2. CASE Remove(p)
    BY <2>2, BeginRemoveKeeps, RemoveFileKeeps, EndRemoveKeeps DEF Remove
  <2> QED BY <2>1, <2>2, CallKeeps, CrashKeeps
<1>2. CASE UNCHANGED vars
  BY <1>2 DEF vars, store, call, IInv, TypeOK, LocksFollowControl,
    CallsAreKnown, MarkerVouches, Hit, UnreadableOnlyWhileStamped,
    RemovesAlone, NobodyRemoves, Quiet, OneLockFile, InstallsExclude,
    MarkersFollow, Placing, Told
<1> QED BY <1>1, <1>2

\* The invariant holds in every state of every run.
THEOREM Invariance == Spec => []IInv
BY Start, NextKeeps, PTL DEF Spec

\* Every variable keeps its type.
THEOREM TypeCorrect == Spec => []TypeOK
<1>1. IInv => TypeOK BY DEF IInv
<1> QED BY <1>1, Invariance, PTL

\* The marker of a hit is the checksum of the bytes that are there.
THEOREM MarkerCorrect == Spec => []MarkerVouches
<1>1. IInv => MarkerVouches BY DEF IInv
<1> QED BY <1>1, Invariance, PTL

\* Everybody who installed a version was told the same checksum, and it is
\* that of the bytes that are there.
THEOREM AnswersCorrect == Spec => []AnswersAgree
<1>1. IInv => AnswersAgree
  BY DEF IInv, AnswersAgree, NobodyRemoves, Quiet, Told
<1> QED BY <1>1, Invariance, PTL

\* A store is unreadable only while somebody is stamping it.
THEOREM StampCorrect == Spec => []UnreadableOnlyWhileStamped
<1>1. IInv => UnreadableOnlyWhileStamped BY DEF IInv
<1> QED BY <1>1, Invariance, PTL

\* Two installers of one version are never under its lock together, as long
\* as nothing is removed beside an install.
THEOREM ExclusionCorrect ==
  Spec => [](~torn /\ NobodyRemoves => InstallsExclude)
<1>1. IInv => (~torn /\ NobodyRemoves => InstallsExclude)
  BY DEF IInv, Quiet
<1> QED BY <1>1, Invariance, PTL
=============================================================================
