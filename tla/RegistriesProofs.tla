-------------------------- MODULE RegistriesProofs --------------------------
(***************************************************************************)
(* Theorems about Registries, for any processes, registries, clocks and    *)
(* revisions.                                                              *)
(*                                                                         *)
(* Nothing is locked, so two theorems except the two races that have no    *)
(* lock to exclude them: two rewrites of the list, and two copies of one   *)
(* registry.  Apart from those, who is rewriting the list has it as it is, *)
(* and who is storing a copy has one that is no older than what is there,  *)
(* which is no older than what was answered.  That what is answered is     *)
(* fresh excepts nothing: a copy may have been replaced by another that is *)
(* older, but only by as much as a call takes.                             *)
(***************************************************************************)
EXTENDS Registries, TLAPS

Where == {"idle", "look", "read", "next", "fetch", "list", "register", "store",
          "mark", "time"}

Job == [op : {"none", "dispatch", "add", "update"}, ref : Ref \cup {None},
        began : Nat, offline : BOOLEAN]

TypeOK ==
  /\ now \in Nat /\ published \in [Ref -> Seq(Nat)]
  /\ cache \in [Ref -> Nat] /\ mark \in [Ref -> Nat] /\ config \subseteq Ref
  /\ pc \in [Proc -> Where] /\ job \in [Proc -> Job]
  /\ got \in [Proc -> Nat] /\ known \in [Proc -> SUBSET Ref]
  /\ seen \in [Ref -> Nat] /\ raced \subseteq Ref /\ overlapped \in BOOLEAN

\* What each operation is about, and which of them gets where.
Control(p) ==
  /\ pc[p] \notin {"idle", "next"} => Of(p) \in Ref
  /\ pc[p] \in {"store", "mark", "time"} => Of(p) \in Remote
  /\ Op(p) = "dispatch" => Of(p) \in Remote
  /\ Op(p) = "update" =>
       known[p] \subseteq Remote /\ (pc[p] # "next" => Of(p) \in Remote)
  /\ pc[p] \in {"look", "read"} => Op(p) = "dispatch"
  /\ pc[p] = "next" => Op(p) = "update"
  /\ pc[p] \in {"list", "register"} => Op(p) = "add"
  /\ pc[p] = "idle" => job[p] = NoJob
  /\ pc[p] # "idle" => Op(p) # "none"

Controlled == \A p \in Proc : Control(p)

\* Without an overlap one call at most rewrites the list, which it has read as
\* it is.
Listed ==
  ~overlapped =>
    \A p \in Proc : pc[p] = "register" =>
      /\ known[p] = config
      /\ \A q \in Proc : pc[q] = "register" => p = q

\* Without a race one call at most stores a copy, one that is no older than the
\* copy there, which no dispatch has been ahead of.
Ordered(r) ==
  /\ seen[r] <= cache[r] /\ cache[r] <= Rev(r)
  /\ \A p \in Storing(r) :
       /\ cache[r] <= got[p] /\ got[p] <= Rev(r)
       /\ pc[p] \in {"mark", "time"} => cache[r] = got[p]
       /\ \A q \in Storing(r) : p = q

Copied == \A r \in Remote \ raced : Ordered(r)

IInv == TypeOK /\ Controlled /\ Listed /\ Copied

-----------------------------------------------------------------------------

LEMMA InitOK == Init => IInv
<1> SUFFICES ASSUME Init PROVE IInv
  OBVIOUS
<1>1. NoJob \in Job
  BY DEF NoJob, Job
<1>2. <<0>> \in Seq(Nat) /\ Len(<<0>>) = 1
  OBVIOUS
<1>3. mark \in [Ref -> Nat] /\ cache \in [Ref -> {0, 1}]
  BY RegistryAssumption DEF Init, Never, Ref
<1>4. TypeOK
  <2>1. pc \in [Proc -> Where] /\ job \in [Proc -> Job]
    BY <1>1 DEF Init, Where
  <2>2. got \in [Proc -> Nat] /\ known \in [Proc -> SUBSET Ref]
    BY DEF Init
  <2>3. published \in [Ref -> Seq(Nat)]
    BY <1>2 DEF Init
  <2>4. config \subseteq Ref /\ now \in Nat /\ cache \in [Ref -> Nat] /\ seen \in [Ref -> Nat]
    BY <1>3 DEF Init, Ref
  <2> QED
    BY <1>3, <2>1, <2>2, <2>3, <2>4 DEF Init, TypeOK
<1>5. Controlled /\ Listed
  BY DEF Init, Controlled, Control, Listed, NoJob, Op, Of
<1>6. Copied
  BY <1>2, <1>3 DEF Init, Copied, Ordered, Storing, Rev, Ref
<1> QED
  BY <1>4, <1>5, <1>6 DEF IInv

-----------------------------------------------------------------------------
(* One call goes on *)

\* The step is p's, and leaves it where its operation gets to.
Moves(p) ==
  /\ pc' \in [Proc -> Where] /\ job' \in [Proc -> Job]
  /\ got' \in [Proc -> Nat] /\ known' \in [Proc -> SUBSET Ref]
  /\ \A q \in Proc \ {p} : /\ pc'[q] = pc[q] /\ job'[q] = job[q]
                           /\ got'[q] = got[q] /\ known'[q] = known[q]
  /\ Control(p)'

LEMMA LeaveMoves ==
  ASSUME TypeOK, NEW p \in Proc, Leave(p)
  PROVE  Moves(p) /\ pc'[p] = "idle"
<1>1. NoJob \in Job /\ "idle" \in Where
  BY DEF NoJob, Job, Where
<1>2. pc'[p] = "idle" /\ job'[p] = NoJob /\ known'[p] = {}
  BY DEF Leave, TypeOK
<1>3. Control(p)'
  BY <1>2 DEF Control, NoJob, Op, Of
<1> QED
  BY <1>1, <1>2, <1>3 DEF Leave, TypeOK, Moves

\* What Control says of p at another place.
Fits(p, at) ==
  /\ at \in Where \ {"idle"}
  /\ at # "next" => Of(p) \in Ref
  /\ at \in {"store", "mark", "time"} => Of(p) \in Remote
  /\ Op(p) = "update" /\ at # "next" => Of(p) \in Remote
  /\ at \in {"look", "read"} => Op(p) = "dispatch"
  /\ at = "next" => Op(p) = "update"
  /\ at \in {"list", "register"} => Op(p) = "add"
  /\ Op(p) # "none"

LEMMA GotoMoves ==
  ASSUME TypeOK, NEW p \in Proc, Control(p), NEW at, Fits(p, at), Goto(p, at)
  PROVE  Moves(p) /\ pc'[p] = at
<1>1. pc'[p] = at /\ job'[p] = job[p] /\ known'[p] = known[p]
  BY DEF Goto, TypeOK
<1>2. Control(p)'
  BY <1>1 DEF Control, Op, Of, Fits
<1> QED
  BY <1>1, <1>2 DEF Goto, TypeOK, Moves, Fits

LEMMA DoneMoves ==
  ASSUME TypeOK, NEW p \in Proc, Control(p), Done(p)
  PROVE  Moves(p) /\ pc'[p] \in {"idle", "next"}
<1>1. CASE Leave(p)
  BY <1>1, LeaveMoves
<1>2. CASE /\ Op(p) = "update" /\ pc' = [pc EXCEPT ![p] = "next"]
           /\ got' = [got EXCEPT ![p] = 0] /\ UNCHANGED <<job, known>>
  <2>1. pc'[p] = "next" /\ job'[p] = job[p] /\ known'[p] = known[p] /\ "next" \in Where
    BY <1>2 DEF TypeOK, Where
  <2>2. Control(p)'
    BY <1>2, <2>1 DEF Control, Op, Of
  <2> QED
    BY <1>2, <2>1, <2>2 DEF TypeOK, Moves
<1> QED
  BY <1>1, <1>2 DEF Done

LEMMA MovesControlled ==
  ASSUME Controlled, NEW p \in Proc, Moves(p)
  PROVE  Controlled'
<1>1. ASSUME NEW q \in Proc \ {p} PROVE Control(q)'
  BY DEF Controlled, Control, Moves, Op, Of
<1> QED
  BY <1>1 DEF Controlled, Moves

\* The list, and who rewrites it, stay.
LEMMA ListedKept ==
  ASSUME Listed, NEW p \in Proc, Moves(p), pc'[p] # "register",
         config' = config, overlapped' = overlapped
  PROVE  Listed'
BY DEF Listed, Moves

\* Another copy is under way only if there was none, and no copy changes.
LEMMA CopiedKept ==
  ASSUME TypeOK, Copied, NEW p \in Proc, Moves(p),
         UNCHANGED <<published, cache, seen, raced>>,
         pc'[p] \in {"list", "register", "store"} =>
           /\ pc[p] \in {"list", "register", "store"}
           /\ Of(p)' = Of(p) /\ got'[p] = got[p],
         pc'[p] \in {"mark", "time"} =>
           /\ pc[p] \in {"mark", "time"} /\ Of(p)' = Of(p) /\ got'[p] = got[p]
  PROVE  Copied'
<1> SUFFICES ASSUME NEW r \in Remote \ raced PROVE Ordered(r)'
  BY DEF Copied
<1>1. Ordered(r)
  BY DEF Copied
<1>2. Storing(r)' \subseteq Storing(r)
  BY DEF Storing, Moves, Of
<1>3. \A q \in Storing(r)' : /\ got'[q] = got[q]
                             /\ pc'[q] \in {"mark", "time"} => pc[q] \in {"mark", "time"}
  BY DEF Storing, Moves, Of
<1>4. seen'[r] = seen[r] /\ cache'[r] = cache[r] /\ Rev(r)' = Rev(r)
  BY DEF Rev
<1> QED
  BY <1>1, <1>2, <1>3, <1>4 DEF Ordered

LEMMA Facts ==
  ASSUME IInv, NEW p \in Proc
  PROVE  TypeOK /\ Controlled /\ Control(p) /\ Listed /\ Copied
BY DEF IInv, Controlled

-----------------------------------------------------------------------------
(* The world, and calls that begin *)

LEMMA TickOK == ASSUME IInv, Tick PROVE IInv'
<1>1. UNCHANGED <<published, cache, mark, config, pc, job, got, known, seen, raced, overlapped>>
      /\ now' = now + 1
  BY DEF Tick, copies, call, history
<1>2. TypeOK' /\ Controlled' /\ Listed'
  BY <1>1 DEF IInv, TypeOK, Controlled, Control, Listed, Op, Of
<1>3. Copied'
  BY <1>1 DEF IInv, Copied, Ordered, Storing, Rev, Of
<1> QED
  BY <1>2, <1>3 DEF IInv

LEMMA PublishOK == ASSUME IInv, Publish PROVE IInv'
<1>1. UNCHANGED <<now, cache, mark, config, pc, job, got, known, seen, raced, overlapped>>
  BY DEF Publish, copies, call, history
<1>2. PICK r \in Remote : published' = [published EXCEPT ![r] = Append(@, now)]
  BY DEF Publish
<1>3. published' \in [Ref -> Seq(Nat)] /\ \A s \in Remote : Rev(s) <= Rev(s)'
  <2>1. Append(published[r], now) \in Seq(Nat)
        /\ Len(Append(published[r], now)) = Len(published[r]) + 1
    BY DEF IInv, TypeOK, Ref
  <2>2. \A s \in Remote : s # r => published'[s] = published[s]
    BY <1>2 DEF IInv, TypeOK, Ref
  <2>3. published'[r] = Append(published[r], now)
    BY <1>2 DEF IInv, TypeOK, Ref
  <2>4. \A s \in Remote : Len(published[s]) \in Nat
    BY DEF IInv, TypeOK, Ref
  <2> QED
    BY <1>2, <2>1, <2>2, <2>3, <2>4 DEF IInv, TypeOK, Rev, Ref
<1>4. TypeOK' /\ Controlled' /\ Listed'
  BY <1>1, <1>3 DEF IInv, TypeOK, Controlled, Control, Listed, Op, Of
<1>5. Copied'
  <2> SUFFICES ASSUME NEW s \in Remote \ raced PROVE Ordered(s)'
    BY <1>1 DEF Copied
  <2>1. Ordered(s) /\ Rev(s) <= Rev(s)' /\ Rev(s) \in Nat /\ Rev(s)' \in Nat
    BY <1>3 DEF IInv, Copied, TypeOK, Rev, Ref
  <2>2. Storing(s)' = Storing(s) /\ cache[s] \in Nat /\ \A q \in Storing(s) : got[q] \in Nat
    BY <1>1 DEF Storing, Of, IInv, TypeOK, Ref
  <2> QED
    BY <1>1, <2>1, <2>2 DEF Ordered
<1> QED
  BY <1>4, <1>5 DEF IInv

LEMMA BeginMoves ==
  ASSUME TypeOK, NEW p \in Proc, Control(p), NEW op, NEW r, NEW offline \in BOOLEAN, NEW at,
         Begin(p, op, r, offline, at), known' \in [Proc -> SUBSET Ref],
         \A q \in Proc \ {p} : known'[q] = known[q],
         \/ op = "dispatch" /\ r \in Remote /\ at = "look"
         \/ op = "add" /\ r \in Ref /\ at = "fetch"
         \/ op = "update" /\ r = None /\ at = "next" /\ known'[p] \subseteq Remote
  PROVE  Moves(p) /\ pc'[p] = at
<1> DEFINE j == [op |-> op, ref |-> r, began |-> now, offline |-> offline]
<1>1. j \in Job /\ at \in Where
  BY DEF Job, Where, TypeOK, Ref
<1>2. pc'[p] = at /\ job' = [job EXCEPT ![p] = j] /\ job'[p] = j /\ got' = got
  BY DEF Begin, TypeOK
<1>3. j.op = op /\ j.ref = r
  OBVIOUS
<1> HIDE DEF j
<1>4. Control(p)'
  BY <1>2, <1>3 DEF Control, Op, Of, Ref
<1> QED
  BY <1>1, <1>2, <1>4 DEF Moves, TypeOK, Begin

LEMMA CallsOK ==
  ASSUME IInv, NEW p \in Proc, Dispatch(p) \/ Add(p) \/ Update(p)
  PROVE  IInv'
<1>1. TypeOK /\ Controlled /\ Control(p) /\ Listed /\ Copied
  BY Facts
<1>2. UNCHANGED <<now, published, cache, mark, config, seen, raced, overlapped>>
  BY DEF Dispatch, Add, Update, Begin, copies, history
<1>3. Moves(p) /\ pc'[p] \in {"look", "fetch", "next"}
  <2>1. CASE Dispatch(p)
    <3>1. PICK r \in config \cap Remote, offline \in BOOLEAN :
            Begin(p, "dispatch", r, offline, "look")
      BY <2>1 DEF Dispatch
    <3>2. known' \in [Proc -> SUBSET Ref] /\ (\A q \in Proc \ {p} : known'[q] = known[q])
      BY <1>1, <2>1 DEF Dispatch, TypeOK
    <3>3. r \in Remote /\ offline \in BOOLEAN
      BY <3>1
    <3>4. Moves(p) /\ pc'[p] = "look"
      BY <1>1, <3>1, <3>2, <3>3, BeginMoves
    <3> QED
      BY <3>4
  <2>2. CASE Add(p)
    <3>1. PICK r \in Ref : Begin(p, "add", r, FALSE, "fetch")
      BY <2>2 DEF Add
    <3> QED
      <4>1. known' \in [Proc -> SUBSET Ref] /\ (\A q \in Proc \ {p} : known'[q] = known[q])
        BY <1>1, <2>2 DEF Add, TypeOK
      <4>2. Moves(p) /\ pc'[p] = "fetch"
        BY <1>1, <3>1, <4>1, BeginMoves
      <4> QED
        BY <4>2
  <2>3. CASE Update(p)
    <3>1. known' = [known EXCEPT ![p] = config \cap Remote] /\ Begin(p, "update", None, FALSE, "next")
      BY <2>3 DEF Update
    <3>2. known' \in [Proc -> SUBSET Ref] /\ known'[p] \subseteq Remote
          /\ \A q \in Proc \ {p} : known'[q] = known[q]
      <4>1. known \in [Proc -> SUBSET Ref] /\ config \subseteq Ref
        BY <1>1 DEF TypeOK
      <4> QED
        BY <3>1, <4>1
    <3>3. Begin(p, "update", None, FALSE, "next") /\ FALSE \in BOOLEAN
      BY <3>1
    <3>4. Moves(p) /\ pc'[p] = "next"
      BY <1>1, <3>2, <3>3, BeginMoves
    <3> QED
      BY <3>4
  <2> QED
    BY <2>1, <2>2, <2>3
<1>4. TypeOK' /\ Controlled' /\ Listed'
  BY <1>1, <1>2, <1>3, MovesControlled, ListedKept DEF TypeOK, Moves
<1>5. Copied'
  BY <1>1, <1>2, <1>3, CopiedKept
<1> QED
  BY <1>4, <1>5 DEF IInv

-----------------------------------------------------------------------------
(* The steps of a call *)

\* A step that leaves the shared state alone, but for races that are noted.
LEMMA QuietOK ==
  ASSUME IInv, NEW p \in Proc, Moves(p), pc'[p] \in {"idle", "next", "read", "fetch"},
         UNCHANGED <<now, published, cache, config, raced, overlapped>>,
         mark' \in [Ref -> Nat],
         seen' = seen
  PROVE  IInv'
<1>1. TypeOK /\ Controlled /\ Listed /\ Copied
  BY Facts
<1>2. TypeOK' /\ Controlled' /\ Listed'
  BY <1>1, MovesControlled, ListedKept DEF TypeOK, Moves
<1>3. Copied'
  BY <1>1, CopiedKept
<1> QED
  BY <1>2, <1>3 DEF IInv

LEMMA CrashOK == ASSUME IInv, NEW p \in Proc, Crash(p) PROVE IInv'
<1>1. TypeOK /\ Control(p)
  BY Facts
<1>2. Moves(p) /\ pc'[p] = "idle"
  BY <1>1, LeaveMoves DEF Crash
<1> QED
  BY <1>1, <1>2, QuietOK DEF Crash, copies, history, TypeOK

LEMMA NextRefOK == ASSUME IInv, NEW p \in Proc, NextRef(p) PROVE IInv'
<1>1. TypeOK /\ Control(p)
  BY Facts
<1>2. Moves(p) /\ pc'[p] \in {"idle", "fetch"}
  <2>1. CASE Leave(p)
    BY <1>1, <2>1, LeaveMoves
  <2>2. CASE \E r \in known[p] :
               /\ known' = [known EXCEPT ![p] = @ \ {r}]
               /\ job' = [job EXCEPT ![p].ref = r]
               /\ pc' = [pc EXCEPT ![p] = "fetch"]
               /\ UNCHANGED got
    <3>1. PICK r \in known[p] :
               /\ known' = [known EXCEPT ![p] = @ \ {r}]
               /\ job' = [job EXCEPT ![p].ref = r]
               /\ pc' = [pc EXCEPT ![p] = "fetch"]
               /\ UNCHANGED got
      BY <2>2
    <3>2. Op(p) = "update" /\ r \in Remote /\ r \in Ref /\ known[p] \subseteq Remote
      BY <1>1 DEF NextRef, Control, Ref
    <3>3. job[p] \in Job /\ job[p].op = "update"
      BY <1>1, <3>2 DEF TypeOK, Op
    <3>4. [job[p] EXCEPT !.ref = r] \in Job
          /\ [job[p] EXCEPT !.ref = r].op = "update" /\ [job[p] EXCEPT !.ref = r].ref = r
      BY <3>2, <3>3 DEF Job
    <3>5. /\ job'[p] = [job[p] EXCEPT !.ref = r] /\ job' \in [Proc -> Job]
          /\ pc'[p] = "fetch" /\ pc' \in [Proc -> Where]
          /\ known'[p] \subseteq Remote /\ known' \in [Proc -> SUBSET Ref]
      BY <1>1, <3>1, <3>2, <3>4 DEF TypeOK, Where
    <3>6. Control(p)'
      BY <3>2, <3>4, <3>5 DEF Control, Op, Of
    <3> QED
      BY <1>1, <3>1, <3>5, <3>6 DEF Moves, TypeOK
  <2> QED
    BY <2>1, <2>2 DEF NextRef
<1> QED
  BY <1>1, <1>2, QuietOK DEF NextRef, copies, history, TypeOK

LEMMA LookOK == ASSUME IInv, NEW p \in Proc, Look(p) PROVE IInv'
<1>1. TypeOK /\ Control(p)
  BY Facts
<1>2. PICK at \in {"read", "fetch"} : Goto(p, at)
  BY DEF Look
<1>3. Fits(p, at)
  BY <1>1 DEF Look, Control, Fits, Where
<1>4. Moves(p) /\ pc'[p] = at
  BY <1>1, <1>2, <1>3, GotoMoves
<1> QED
  BY <1>1, <1>2, <1>4, QuietOK DEF Look, copies, history, TypeOK

LEMMA ReadOK == ASSUME IInv, NEW p \in Proc, Read(p) PROVE IInv'
<1> DEFINE r == Of(p)
<1>1. TypeOK /\ Controlled /\ Control(p) /\ Listed /\ Copied /\ r \in Remote /\ pc[p] = "read"
  BY Facts DEF Read, Control
<1>2. UNCHANGED <<now, published, cache, mark, config, raced, overlapped>>
  BY DEF Read, Judge, KeepHistory, copies, history
<1>3. CASE cache[r] # 0 /\ Judge(p, cache[r]) /\ Leave(p)
  <2>1. Moves(p) /\ pc'[p] = "idle"
    BY <1>1, <1>3, LeaveMoves
  <2>2. seen' = [seen EXCEPT ![r] = cache[r]] /\ r \in Ref /\ cache[r] \in Nat
    BY <1>1, <1>3 DEF Judge, TypeOK, Ref
  <2>3. TypeOK' /\ Controlled' /\ Listed'
    BY <1>1, <1>2, <2>1, <2>2, MovesControlled, ListedKept DEF TypeOK, Moves
  <2>4. Copied'
    <3> SUFFICES ASSUME NEW s \in Remote \ raced PROVE Ordered(s)'
      BY <1>2 DEF Copied
    <3>1. Ordered(s) /\ cache[s] \in Nat
      BY <1>1 DEF Copied, TypeOK, Ref
    <3>2. seen'[s] <= cache[s]
      BY <1>1, <2>2, <3>1 DEF Ordered, TypeOK, Ref
    <3>3. Storing(s)' \subseteq Storing(s)
          /\ \A q \in Storing(s)' : pc'[q] = pc[q] /\ got'[q] = got[q]
      BY <2>1 DEF Storing, Moves, Of
    <3> QED
      BY <1>2, <3>1, <3>2, <3>3 DEF Ordered, Rev
  <2> QED
    BY <2>3, <2>4 DEF IInv
<1>4. CASE KeepHistory /\ Leave(p)
  BY <1>1, <1>2, <1>4, LeaveMoves, QuietOK DEF KeepHistory, history, TypeOK
<1>5. CASE KeepHistory /\ Goto(p, "fetch")
  <2>1. Fits(p, "fetch")
    BY <1>1 DEF Read, Control, Fits, Where
  <2> QED
    BY <1>1, <1>2, <1>5, <2>1, GotoMoves, QuietOK DEF KeepHistory, history, TypeOK
<1> QED
  BY <1>3, <1>4, <1>5 DEF Read

\* A step of a call that stores a copy, and does not change it yet.
LEMMA OnwardOK ==
  ASSUME IInv, NEW p \in Proc, Moves(p),
         pc'[p] \in {"list", "store"} =>
           /\ pc[p] \in {"list", "register", "store"}
           /\ Of(p)' = Of(p) /\ got'[p] = got[p],
         pc'[p] \in {"mark", "time"} =>
           /\ pc[p] \in {"mark", "time"} /\ Of(p)' = Of(p) /\ got'[p] = got[p],
         pc'[p] # "register",
         UNCHANGED <<now, published, cache, config, seen, raced, overlapped>>,
         mark' \in [Ref -> Nat]
  PROVE  IInv'
<1>1. TypeOK /\ Controlled /\ Listed /\ Copied
  BY Facts
<1>2. TypeOK' /\ Controlled' /\ Listed'
  BY <1>1, MovesControlled, ListedKept DEF TypeOK, Moves
<1>3. Copied'
  BY <1>1, CopiedKept
<1> QED
  BY <1>2, <1>3 DEF IInv

LEMMA FetchOK == ASSUME IInv, NEW p \in Proc, Fetch(p) PROVE IInv'
<1> DEFINE r == Of(p)
           at == IF Op(p) = "add" THEN "list" ELSE "store"
<1>1. TypeOK /\ Controlled /\ Control(p) /\ Listed /\ Copied /\ pc[p] = "fetch" /\ r \in Ref
  BY Facts DEF Fetch, Control
<1>2. UNCHANGED <<now, published, cache, mark, config, seen, overlapped>>
  BY DEF Fetch, copies
<1>3. CASE Done(p) /\ UNCHANGED raced
  BY <1>1, <1>2, <1>3, DoneMoves, QuietOK DEF TypeOK
<1>4. CASE /\ got' = [got EXCEPT ![p] = Rev(r)]
           /\ raced' = IF r \in Local \/ Storing(r) = {} THEN raced ELSE raced \cup {r}
           /\ pc' = [pc EXCEPT ![p] = at]
           /\ UNCHANGED <<job, known>>
  <2>1. Rev(r) \in Nat /\ at \in Where /\ job[p].op \in {"none", "dispatch", "add", "update"}
    BY <1>1 DEF TypeOK, Rev, Where, Job
  <2>2. at = "store" => r \in Remote
    BY <1>1, <2>1 DEF Control, Op
  <2>3. /\ pc'[p] = at /\ job'[p] = job[p] /\ known'[p] = known[p] /\ got'[p] = Rev(r)
        /\ raced \subseteq raced' /\ raced' \subseteq Ref
    BY <1>1, <1>4, <2>1 DEF TypeOK
  <2>4. Control(p)'
    BY <1>1, <2>2, <2>3 DEF Control, Op, Of
  <2>5. Moves(p)
    BY <1>1, <1>4, <2>1, <2>4 DEF Moves, TypeOK
  <2>6. TypeOK' /\ Controlled' /\ Listed'
    BY <1>1, <1>2, <2>3, <2>5, MovesControlled, ListedKept DEF TypeOK, Moves
  <2>7. Copied'
    <3> SUFFICES ASSUME NEW s \in Remote \ raced' PROVE Ordered(s)'
      BY DEF Copied
    <3>1. Ordered(s) /\ Rev(s) \in Nat
      BY <1>1, <2>3 DEF Copied, TypeOK, Rev, Ref
    <3>2. CASE s = r
      <4>1. Storing(r) = {}
        BY <1>4, <3>2, RegistryAssumption
      <4>2. ASSUME NEW q \in Storing(s)' PROVE q = p
        <5>1. SUFFICES ASSUME q # p PROVE FALSE
          OBVIOUS
        <5>2. q \in Proc /\ pc'[q] = pc[q] /\ job'[q] = job[q]
          BY <2>5, <5>1 DEF Storing, Moves
        <5>3. q \in Storing(s)
          BY <5>2 DEF Storing, Of
        <5> QED
          BY <3>2, <4>1, <5>3
      <4>3. got'[p] = Rev(s) /\ Rev(s)' = Rev(s) /\ seen' = seen /\ cache' = cache
        BY <1>1, <1>2, <1>4, <3>2 DEF TypeOK, Rev
      <4>4. pc'[p] \notin {"mark", "time"}
        BY <2>3
      <4>5. seen[s] <= cache[s] /\ cache[s] <= Rev(s)
        BY <3>1 DEF Ordered
      <4> QED
        BY <3>1, <4>2, <4>3, <4>4, <4>5 DEF Ordered
    <3>3. CASE s # r
      <4>1. Storing(s)' \subseteq Storing(s) /\ p \notin Storing(s)'
        BY <2>3, <2>5, <3>3 DEF Storing, Moves, Of
      <4>2. \A q \in Storing(s)' : pc'[q] = pc[q] /\ got'[q] = got[q]
        BY <2>5, <4>1 DEF Storing, Moves
      <4> QED
        BY <1>2, <3>1, <4>1, <4>2 DEF Ordered, Rev
    <3> QED
      BY <3>2, <3>3
  <2> QED
    BY <2>6, <2>7 DEF IInv
<1> QED
  BY <1>3, <1>4 DEF Fetch

LEMMA StoreOK == ASSUME IInv, NEW p \in Proc, Store(p) PROVE IInv'
<1> DEFINE r == Of(p)
<1>1. /\ TypeOK /\ Controlled /\ Control(p) /\ Listed /\ Copied
      /\ pc[p] = "store" /\ r \in Remote /\ r \in Ref
  BY Facts DEF Store, Control, Ref
<1>2. UNCHANGED <<now, published, mark, config, seen, raced, overlapped>>
  BY DEF Store, history
<1>3. CASE Done(p) /\ UNCHANGED cache
  BY <1>1, <1>2, <1>3, DoneMoves, QuietOK DEF TypeOK
<1>4. CASE cache' = [cache EXCEPT ![r] = got[p]] /\ Goto(p, "mark")
  <2>1. Fits(p, "mark")
    BY <1>1 DEF Control, Fits, Where
  <2>2. Moves(p) /\ pc'[p] = "mark" /\ got' = got /\ job' = job
    BY <1>1, <1>4, <2>1, GotoMoves DEF Goto
  <2>3. TypeOK' /\ Controlled' /\ Listed'
    BY <1>1, <1>2, <1>4, <2>2, MovesControlled, ListedKept DEF TypeOK, Moves
  <2>4. Copied'
    <3> SUFFICES ASSUME NEW s \in Remote \ raced PROVE Ordered(s)'
      BY <1>2 DEF Copied
    <3>1. Ordered(s) /\ seen[s] \in Nat /\ cache[s] \in Nat /\ got[p] \in Nat /\ Rev(s) \in Nat
      BY <1>1 DEF Copied, TypeOK, Ref, Rev
    <3>2. Storing(s)' \subseteq Storing(s)
      BY <1>1, <2>2 DEF Storing, Moves, Of
    <3>3. CASE s = r
      <4>1. p \in Storing(s)
        BY <1>1, <3>3 DEF Storing
      <4>2. cache'[s] = got[p] /\ Storing(s) = {p}
        BY <1>1, <1>4, <3>1, <3>3, <4>1 DEF TypeOK, Ordered
      <4> QED
        BY <1>2, <2>2, <3>1, <3>2, <4>1, <4>2 DEF Ordered, Rev
    <3>4. CASE s # r
      <4>1. cache'[s] = cache[s] /\ p \notin Storing(s)
        BY <1>1, <1>4, <3>4 DEF TypeOK, Ref, Storing
      <4>2. \A q \in Storing(s)' : pc'[q] = pc[q] /\ got'[q] = got[q]
        BY <2>2, <3>2, <4>1 DEF Storing, Moves
      <4> QED
        BY <1>2, <3>1, <3>2, <4>1, <4>2 DEF Ordered, Rev
    <3> QED
      BY <3>3, <3>4
  <2> QED
    BY <2>3, <2>4 DEF IInv
<1> QED
  BY <1>3, <1>4 DEF Store

LEMMA MarkOK == ASSUME IInv, NEW p \in Proc, Mark(p) PROVE IInv'
<1>1. TypeOK /\ Control(p) /\ pc[p] = "mark" /\ Never \in Nat
  BY Facts, RegistryAssumption DEF Mark, Never
<1>2. UNCHANGED <<now, published, cache, config, seen, raced, overlapped>>
  BY DEF Mark, history
<1>3. CASE Done(p) /\ UNCHANGED mark
  BY <1>1, <1>2, <1>3, DoneMoves, QuietOK DEF TypeOK
<1>4. CASE mark' = [mark EXCEPT ![Of(p)] = Never] /\ Goto(p, "time")
  <2>1. Fits(p, "time")
    BY <1>1 DEF Control, Fits, Where
  <2>2. Moves(p) /\ pc'[p] = "time" /\ got' = got /\ Of(p)' = Of(p)
    BY <1>1, <1>4, <2>1, GotoMoves DEF Goto, Of
  <2>3. mark' \in [Ref -> Nat]
    BY <1>1, <1>4 DEF TypeOK
  <2> QED
    BY <1>1, <1>2, <2>2, <2>3, OnwardOK
<1> QED
  BY <1>3, <1>4 DEF Mark

LEMMA TimeOK == ASSUME IInv, NEW p \in Proc, Time(p) PROVE IInv'
<1> DEFINE r == Of(p)
<1>1. /\ TypeOK /\ Controlled /\ Control(p) /\ Listed /\ Copied
      /\ pc[p] = "time" /\ r \in Remote /\ r \in Ref
  BY Facts DEF Time, Control, Ref
<1>2. UNCHANGED <<now, published, cache, config, raced, overlapped>>
  BY DEF Time, history, KeepHistory, Judge
<1>3. Moves(p) /\ pc'[p] \in {"idle", "next"}
  BY <1>1, DoneMoves DEF Time
<1>4. mark' \in [Ref -> Nat]
  BY <1>1 DEF Time, TypeOK
<1>5. CASE KeepHistory
  BY <1>2, <1>3, <1>4, <1>5, QuietOK DEF KeepHistory, history
<1>6. CASE Judge(p, got[p])
  <2>1. seen' = [seen EXCEPT ![r] = got[p]]
    BY <1>6 DEF Judge
  <2>2. TypeOK' /\ Controlled' /\ Listed'
    BY <1>1, <1>2, <1>3, <1>4, <2>1, MovesControlled, ListedKept DEF TypeOK, Moves
  <2>3. Copied'
    <3> SUFFICES ASSUME NEW s \in Remote \ raced PROVE Ordered(s)'
      BY <1>2 DEF Copied
    <3>1. Ordered(s) /\ cache[s] \in Nat
      BY <1>1 DEF Copied, TypeOK, Ref
    <3>2. seen'[s] <= cache[s]
      <4>1. CASE s = r
        <5>1. p \in Storing(s)
          BY <1>1, <4>1 DEF Storing
        <5>2. cache[s] = got[p] /\ seen'[s] = got[p]
          BY <1>1, <2>1, <3>1, <4>1, <5>1 DEF Ordered, TypeOK
        <5> QED
          BY <3>1, <5>2
      <4>2. CASE s # r
        BY <1>1, <2>1, <3>1, <4>2 DEF Ordered, TypeOK, Ref
      <4> QED
        BY <4>1, <4>2
    <3>3. Storing(s)' \subseteq Storing(s)
          /\ \A q \in Storing(s)' : pc'[q] = pc[q] /\ got'[q] = got[q]
      BY <1>3 DEF Storing, Moves, Of
    <3> QED
      BY <1>2, <3>1, <3>2, <3>3 DEF Ordered, Rev
  <2> QED
    BY <2>2, <2>3 DEF IInv
<1> QED
  BY <1>5, <1>6 DEF Time

\* An add that has its registry on the list keeps a copy of it, or is over.
LEMMA RegisteredMoves ==
  ASSUME TypeOK, NEW p \in Proc, Control(p), pc[p] \in {"list", "register"}, Registered(p)
  PROVE  /\ Moves(p) /\ pc'[p] \in {"idle", "store"}
         /\ pc'[p] = "store" => Of(p)' = Of(p) /\ got'[p] = got[p]
<1>1. CASE Of(p) \in Remote /\ Goto(p, "store")
  <2>1. Fits(p, "store")
    BY <1>1 DEF Control, Fits, Where
  <2> QED
    BY <1>1, <2>1, GotoMoves DEF Goto, Of
<1>2. CASE Leave(p)
  BY <1>2, LeaveMoves
<1> QED
  BY <1>1, <1>2 DEF Registered

LEMMA ListOK == ASSUME IInv, NEW p \in Proc, List(p) PROVE IInv'
<1>1. /\ TypeOK /\ Controlled /\ Control(p) /\ Listed /\ Copied /\ pc[p] = "list"
  BY Facts DEF List
<1>2. UNCHANGED <<now, published, cache, mark, config, seen, raced>>
  BY DEF List, copies
<1>3. CASE Registered(p) /\ UNCHANGED overlapped
  BY <1>1, <1>2, <1>3, RegisteredMoves, OnwardOK DEF TypeOK
<1>4. CASE /\ pc' = [pc EXCEPT ![p] = "register"]
           /\ known' = [known EXCEPT ![p] = config] /\ UNCHANGED <<job, got>>
           /\ overlapped' = (overlapped \/ \E q \in Proc : pc[q] = "register")
  <2>1. /\ pc'[p] = "register" /\ job'[p] = job[p] /\ known'[p] = config
        /\ known' \in [Proc -> SUBSET Ref] /\ pc' \in [Proc -> Where]
    BY <1>1, <1>4 DEF TypeOK, Where
  <2>2. Control(p)'
    BY <1>1, <2>1 DEF Control, Op, Of
  <2>3. Moves(p)
    BY <1>1, <1>4, <2>1, <2>2 DEF Moves, TypeOK
  <2>4. TypeOK' /\ Controlled'
    BY <1>1, <1>2, <1>4, <2>3, MovesControlled DEF TypeOK, Moves
  <2>5. Listed'
    BY <1>1, <1>2, <1>4, <2>1, <2>3 DEF Listed, Moves
  <2>6. Copied'
    BY <1>1, <1>2, <1>4, <2>1, <2>3, CopiedKept DEF Of
  <2> QED
    BY <2>4, <2>5, <2>6 DEF IInv
<1> QED
  BY <1>3, <1>4 DEF List

LEMMA RegisterOK == ASSUME IInv, NEW p \in Proc, Register(p) PROVE IInv'
<1>1. /\ TypeOK /\ Controlled /\ Control(p) /\ Listed /\ Copied
      /\ pc[p] = "register" /\ Of(p) \in Ref
  BY Facts DEF Register, Control
<1>2. UNCHANGED <<now, published, cache, mark, seen, raced, overlapped>>
  BY DEF Register, copies, history
<1>3. CASE Leave(p) /\ UNCHANGED config
  BY <1>1, <1>2, <1>3, LeaveMoves, QuietOK DEF TypeOK
<1>4. CASE config' = known[p] \cup {Of(p)} /\ Registered(p)
  <2>1. Moves(p) /\ pc'[p] \in {"idle", "store"}
        /\ (pc'[p] = "store" => Of(p)' = Of(p) /\ got'[p] = got[p])
    BY <1>1, <1>4, RegisteredMoves
  <2>2. TypeOK' /\ Controlled'
    BY <1>1, <1>2, <1>4, <2>1, MovesControlled DEF TypeOK, Moves
  <2>3. Listed'
    BY <1>1, <1>2, <2>1 DEF Listed, Moves
  <2>4. Copied'
    BY <1>1, <1>2, <2>1, CopiedKept
  <2> QED
    BY <2>2, <2>3, <2>4 DEF IInv
<1> QED
  BY <1>3, <1>4 DEF Register

-----------------------------------------------------------------------------
(* The theorems *)

LEMMA NextOK == IInv /\ [Next]_vars => IInv'
<1>1. ASSUME IInv, UNCHANGED vars PROVE IInv'
  BY <1>1 DEF IInv, TypeOK, Controlled, Control, Listed, Copied, Ordered, Storing,
              Rev, Op, Of, vars, copies, call, history
<1>2. ASSUME IInv, NEW p \in Proc, Step(p) PROVE IInv'
  BY <1>2, NextRefOK, LookOK, ReadOK, FetchOK, StoreOK, MarkOK, TimeOK, ListOK,
     RegisterOK DEF Step
<1> QED
  BY <1>1, <1>2, TickOK, PublishOK, CallsOK, CrashOK DEF Next

\* The invariant holds whatever processes, sources and the clock do.
THEOREM RegistriesInvariance == Spec => []IInv
BY InitOK, NextOK, PTL DEF Spec

LEMMA ListGrows ==
  ASSUME IInv, [Next]_vars
  PROVE  config \subseteq config' \/ overlapped
<1>1. ASSUME NEW p \in Proc, Step(p) PROVE config' = config \/ Register(p)
  BY <1>1 DEF Step, NextRef, Look, Read, Fetch, Store, Mark, Time, List
<1>2. ASSUME NEW p \in Proc, Dispatch(p) \/ Add(p) \/ Update(p) \/ Crash(p)
      PROVE  config' = config
  BY <1>2 DEF Dispatch, Add, Update, Begin, Crash
<1>3. ASSUME NEW p \in Proc, Register(p), ~overlapped PROVE config \subseteq config'
  BY <1>3 DEF Register, IInv, Listed
<1> QED
  BY <1>1, <1>2, <1>3 DEF Next, Tick, Publish, vars

\* "add-registry" loses no registration, for any processes that rewrite the
\* list one after the other, and die in between.
THEOREM RegistrationsKept == Spec => RegistrationsAreKept
<1>1. IInv /\ [Next]_vars => [config \subseteq config' \/ overlapped]_vars
  BY ListGrows
<1> QED
  BY <1>1, RegistriesInvariance, PTL DEF Spec, RegistrationsAreKept

LEMMA SeenGrows ==
  ASSUME IInv, [Next]_vars, NEW r \in Ref, r \notin raced
  PROVE  seen'[r] >= seen[r]
<1>1. TypeOK /\ seen[r] \in Nat
  BY DEF IInv, TypeOK
<1>2. CASE seen' = seen
  BY <1>1, <1>2
<1>3. ASSUME NEW p \in Proc, Read(p), Judge(p, cache[Of(p)])
      PROVE  seen'[r] >= seen[r]
  <2>1. Of(p) \in Remote /\ seen' = [seen EXCEPT ![Of(p)] = cache[Of(p)]]
    BY <1>3, Facts DEF Read, Control, Judge
  <2>2. CASE r = Of(p)
    <3>1. seen[r] <= cache[r] /\ cache[r] \in Nat /\ seen'[r] = cache[r]
      BY <1>1, <2>1, <2>2 DEF IInv, Copied, Ordered, TypeOK
    <3> QED
      BY <1>1, <3>1
  <2> QED
    BY <1>1, <2>1, <2>2 DEF TypeOK
<1>4. ASSUME NEW p \in Proc, Time(p), Judge(p, got[p])
      PROVE  seen'[r] >= seen[r]
  <2>1. Of(p) \in Remote /\ seen' = [seen EXCEPT ![Of(p)] = got[p]] /\ pc[p] = "time"
    BY <1>4, Facts DEF Time, Control, Judge
  <2>2. CASE r = Of(p)
    <3>1. p \in Storing(r) /\ Ordered(r)
      BY <2>1, <2>2 DEF Storing, IInv, Copied
    <3>2. seen[r] <= cache[r] /\ cache[r] = got[p] /\ got[p] \in Nat /\ seen'[r] = got[p]
      BY <1>1, <2>1, <2>2, <3>1 DEF Ordered, TypeOK
    <3> QED
      BY <1>1, <3>2
  <2> QED
    BY <1>1, <2>1, <2>2 DEF TypeOK
<1>5. ASSUME NEW p \in Proc, Step(p)
      PROVE  seen' = seen \/ (Read(p) /\ Judge(p, cache[Of(p)])) \/ (Time(p) /\ Judge(p, got[p]))
  BY <1>5 DEF Step, NextRef, Look, Read, Fetch, Store, Mark, Time, List, Register,
              KeepHistory, history
<1>6. ASSUME NEW p \in Proc, Dispatch(p) \/ Add(p) \/ Update(p) \/ Crash(p)
      PROVE  seen' = seen
  BY <1>6 DEF Dispatch, Add, Update, Begin, Crash, history
<1> QED
  BY <1>2, <1>3, <1>4, <1>5, <1>6 DEF Next, Tick, Publish, vars, history

\* What a registry says to dispatches does not go back, for any processes that
\* fetch, store, fail and die, whatever the clock does and whether or not what
\* is published parses.
THEOREM NeverBack == Spec => NoRollback
<1>1. IInv /\ [Next]_vars => [\A r \in Ref : seen'[r] >= seen[r] \/ r \in raced]_vars
  BY SeenGrows
<1> QED
  BY <1>1, RegistriesInvariance, PTL DEF Spec, NoRollback

-----------------------------------------------------------------------------
(* Revisions that were current not long ago *)

Skew == IF Ahead > 2 * Slow THEN Ahead ELSE 2 * Slow

Began(p) == job[p].began

\* Revision k of r was the current one at t, or had been less than slack before.
CurrentAt(r, k, t, slack) == k < Rev(r) => t <= published[r][k + 1] + slack

Fetched == {"list", "register", "store", "mark", "time"}

\* No call takes longer than it may.  What a call has fetched was current when
\* it began; what it has stored may have been replaced since by a copy that was
\* current when another call began, not longer ago than a call takes; and what
\* is to be read, by one that is as fresh as the time that was looked at.
Mine(p) ==
  /\ pc[p] # "idle" => Began(p) <= now /\ now <= Began(p) + Slow
  /\ pc[p] \in Fetched /\ Of(p) \in Remote => CurrentAt(Of(p), got[p], Began(p), 0)
  /\ pc[p] \in {"mark", "time"} => CurrentAt(Of(p), cache[Of(p)], Began(p), Slow)
  /\ pc[p] = "read" /\ ~job[p].offline =>
       CurrentAt(Of(p), cache[Of(p)], Began(p) + 1, Ttl + Skew)

\* A time of fetching may be before the one of the copy there is by two calls;
\* one that is ahead of the clock is of before the first call.
Marked ==
  \A r \in Remote : mark[r] # Never =>
    /\ mark[r] <= now \/ mark[r] <= Ahead
    /\ CurrentAt(r, cache[r], mark[r], Skew)

FreshInv == Marked /\ \A p \in Proc : Mine(p)

LEMMA SkewType ==
  /\ Skew \in Nat /\ Ahead <= Skew /\ 2 * Slow <= Skew /\ Slow \in Nat /\ Ttl \in Nat
  /\ Behind = Ttl + Slow + Skew /\ Ttl >= 1 /\ Ahead \in Nat
BY RegistryAssumption DEF Skew, Behind

\* What the invariant of the other theorems says of the types.
LEMMA Numbers ==
  ASSUME IInv
  PROVE  /\ now \in Nat
         /\ \A p \in Proc : Began(p) \in Nat /\ got[p] \in Nat
         /\ \A r \in Remote : /\ cache[r] \in Nat /\ mark[r] \in Nat
                              /\ published[r] \in Seq(Nat) /\ Rev(r) \in Nat
         /\ \A p \in Proc : /\ pc[p] \in {"store", "mark", "time", "look", "read"} => Of(p) \in Remote
                            /\ pc[p] \notin {"idle", "next"} => Of(p) \in Ref
<1>1. \A p \in Proc : Began(p) \in Nat
  BY DEF IInv, TypeOK, Job, Began
<1>2. \A r \in Remote : r \in Ref
  BY DEF Ref
<1>3. \A p \in Proc : Control(p)
  BY DEF IInv, Controlled
<1> QED
  BY <1>1, <1>2, <1>3 DEF IInv, TypeOK, Control, Rev

\* A revision that is replaced at a known time was replaced at one.
LEMMA PublishedType ==
  ASSUME IInv, NEW r \in Remote, NEW k \in Nat, k < Rev(r)
  PROVE  published[r][k + 1] \in Nat
<1>1. published[r] \in Seq(Nat) /\ Rev(r) = Len(published[r])
  BY Numbers DEF Rev
<1>2. k + 1 \in 1 .. Len(published[r])
  BY <1>1
<1> QED
  BY <1>1, <1>2

LEMMA Later ==
  ASSUME IInv, NEW r \in Remote, NEW k \in Nat, NEW t \in Nat, NEW slack \in Nat,
         NEW u \in Nat, NEW more \in Nat,
         CurrentAt(r, k, t, slack), u + slack <= t + more
  PROVE  CurrentAt(r, k, u, more)
BY PublishedType DEF CurrentAt

\* A revision that was current not longer ago than that lags no more.
LEMMA LagBound ==
  ASSUME IInv, NEW r \in Remote, NEW k \in Nat, NEW t \in Nat, NEW slack \in Nat,
         CurrentAt(r, k, t, slack), now + slack < t + Behind, 0 < Behind, Behind \in Nat
  PROVE  Lag(r, k) < Behind
<1>1. CASE k < Rev(r)
  <2> DEFINE out == published[r][k + 1]
  <2>1. out \in Nat /\ now \in Nat
    BY <1>1, PublishedType, Numbers
  <2>2. t <= out + slack /\ Lag(r, k) = now - out
    BY <1>1 DEF CurrentAt, Lag
  <2> HIDE DEF out
  <2> QED
    BY <2>1, <2>2
<1>2. CASE ~(k < Rev(r))
  BY <1>2 DEF Lag
<1> QED
  BY <1>1, <1>2

-----------------------------------------------------------------------------
(* A call goes on, and the copies stay *)

\* A step is one call's.
Alone(p) ==
  \A q \in Proc \ {p} : pc'[q] = pc[q] /\ job'[q] = job[q] /\ got'[q] = got[q]

LEMMA StepsAlone ==
  ASSUME IInv, NEW p \in Proc, Dispatch(p) \/ Add(p) \/ Update(p) \/ Step(p) \/ Crash(p)
  PROVE  Alone(p)
<1>1. TypeOK
  BY DEF IInv
<1>2. ASSUME Leave(p) PROVE Alone(p)
  BY <1>1, <1>2 DEF Leave, Alone, TypeOK
<1>3. ASSUME NEW at, Goto(p, at) PROVE Alone(p)
  BY <1>1, <1>3 DEF Goto, Alone, TypeOK
<1>4. ASSUME Done(p) PROVE Alone(p)
  BY <1>1, <1>2, <1>4 DEF Done, Alone, TypeOK
<1>5. ASSUME NEW op, NEW r, NEW offline, NEW at, Begin(p, op, r, offline, at)
      PROVE  Alone(p)
  BY <1>1, <1>5 DEF Begin, Alone, TypeOK
<1>6. ASSUME NextRef(p) PROVE Alone(p)
  BY <1>1, <1>2, <1>6 DEF NextRef, Alone, TypeOK
<1>7. ASSUME Fetch(p) PROVE Alone(p)
  BY <1>1, <1>4, <1>7 DEF Fetch, Alone, TypeOK
<1>8. ASSUME List(p) PROVE Alone(p)
  BY <1>1, <1>2, <1>3, <1>8 DEF List, Registered, Alone, TypeOK
<1>9. ASSUME Register(p) PROVE Alone(p)
  BY <1>2, <1>3, <1>9 DEF Register, Registered
<1>10. ASSUME Look(p) \/ Read(p) \/ Store(p) \/ Mark(p) \/ Time(p) PROVE Alone(p)
  BY <1>2, <1>3, <1>4, <1>10 DEF Look, Read, Store, Mark, Time
<1> QED
  BY <1>2, <1>5, <1>6, <1>7, <1>8, <1>9, <1>10 DEF Dispatch, Add, Update, Step, Crash

LEMMA OthersKeep ==
  ASSUME FreshInv, NEW p \in Proc, Alone(p), UNCHANGED <<now, published, cache>>, Mine(p)'
  PROVE  \A q \in Proc : Mine(q)'
<1> SUFFICES ASSUME NEW q \in Proc, q # p PROVE Mine(q)'
  OBVIOUS
<1>1. /\ pc'[q] = pc[q] /\ job'[q] = job[q] /\ got'[q] = got[q]
      /\ Of(q)' = Of(q) /\ Began(q)' = Began(q)
  BY DEF Alone, Of, Began
<1>2. Mine(q)
  BY DEF FreshInv
<1>3. \A r, k, t, slack : CurrentAt(r, k, t, slack) => CurrentAt(r, k, t, slack)'
  BY DEF CurrentAt, Rev
<1> QED
  BY <1>1, <1>2, <1>3 DEF Mine, CurrentAt, Rev

LEMMA MarkedKept ==
  ASSUME Marked, UNCHANGED <<now, published, cache>>,
         \A r \in Remote : mark'[r] = mark[r] \/ mark'[r] = Never
  PROVE  Marked'
BY DEF Marked, CurrentAt, Rev

LEMMA OnMine ==
  ASSUME NEW p \in Proc, Mine(p), pc[p] # "idle", job'[p] = job[p],
         UNCHANGED <<now, published, cache>>, pc'[p] # "read",
         pc'[p] \in Fetched => pc[p] \in Fetched /\ got'[p] = got[p],
         pc'[p] \in {"mark", "time"} => pc[p] \in {"mark", "time"}
  PROVE  Mine(p)'
<1>1. Of(p)' = Of(p) /\ Began(p)' = Began(p)
  BY DEF Of, Began
<1> QED
  BY <1>1 DEF Mine, CurrentAt, Rev

LEMMA IdleMine == ASSUME NEW p \in Proc, pc'[p] = "idle" PROVE Mine(p)'
BY DEF Mine, Fetched

LEMMA DoneMine ==
  ASSUME IInv, FreshInv, NEW p \in Proc, pc[p] # "idle", Done(p),
         UNCHANGED <<now, published, cache>>
  PROVE  Mine(p)'
<1>1. CASE Leave(p)
  <2>1. pc'[p] = "idle"
    BY <1>1 DEF Leave, IInv, TypeOK
  <2> QED
    BY <2>1, IdleMine
<1>2. CASE /\ Op(p) = "update" /\ pc' = [pc EXCEPT ![p] = "next"]
           /\ got' = [got EXCEPT ![p] = 0] /\ UNCHANGED <<job, known>>
  <2>1. pc'[p] = "next" /\ job'[p] = job[p]
    BY <1>2 DEF IInv, TypeOK
  <2> QED
    BY <2>1, OnMine DEF FreshInv, Fetched
<1> QED
  BY <1>1, <1>2 DEF Done
-----------------------------------------------------------------------------
(* Step by step *)

\* A step that leaves the copies there are.
LEMMA QuietFresh ==
  ASSUME IInv, FreshInv, NEW p \in Proc, Alone(p), Mine(p)',
         UNCHANGED <<now, published, cache>>,
         \A r \in Remote : mark'[r] = mark[r] \/ mark'[r] = Never
  PROVE  FreshInv'
BY OthersKeep, MarkedKept DEF FreshInv

LEMMA TickFresh == ASSUME IInv, FreshInv, Tick PROVE FreshInv'
<1>1. now' = now + 1 /\ UNCHANGED <<published, cache, mark, pc, job, got>> /\ now \in Nat
  BY Numbers DEF Tick, copies, call
<1>2. ASSUME NEW p \in Proc PROVE Mine(p)'
  <2>1. Mine(p) /\ (pc[p] # "idle" => now < Began(p) + Slow) /\ Began(p) \in Nat
    BY Numbers DEF FreshInv, Tick, Began
  <2>2. pc'[p] # "idle" => Began(p)' <= now' /\ now' <= Began(p)' + Slow
    BY <1>1, <2>1, SkewType DEF Mine, Began
  <2> QED
    BY <1>1, <2>1, <2>2 DEF Mine, Began, Of, CurrentAt, Rev
<1>3. Marked'
  <2>1. \A r \in Remote : mark[r] \in Nat
    BY Numbers
  <2> QED
    BY <1>1, <2>1, SkewType DEF FreshInv, Marked, CurrentAt, Rev
<1> QED
  BY <1>2, <1>3 DEF FreshInv

LEMMA PublishFresh == ASSUME IInv, FreshInv, Publish PROVE FreshInv'
<1>1. UNCHANGED <<now, cache, mark, pc, job, got>> /\ now \in Nat
  BY Numbers DEF Publish, copies, call
<1>2. PICK r \in Remote : published' = [published EXCEPT ![r] = Append(@, now)]
  BY DEF Publish
<1>3. ASSUME NEW s \in Remote, NEW k \in Nat, NEW t \in Nat, NEW slack \in Nat,
             CurrentAt(s, k, t, slack), t <= now + slack
      PROVE  CurrentAt(s, k, t, slack)'
  <2>1. CASE s # r
    <3>1. published'[s] = published[s]
      BY <1>2, <2>1
    <3> QED
      BY <1>3, <3>1 DEF CurrentAt, Rev
  <2>2. CASE s = r
    <3>1. published[s] \in Seq(Nat) /\ Rev(s) = Len(published[s]) /\ Rev(s) \in Nat
      BY Numbers DEF Rev
    <3>2. published'[s] = Append(published[s], now)
      BY <1>2, <2>2 DEF IInv, TypeOK, Ref
    <3>3. Rev(s)' = Rev(s) + 1
      BY <3>1, <3>2 DEF Rev
    <3>4. CASE k < Rev(s)
      <4>1. published'[s][k + 1] = published[s][k + 1]
        BY <3>1, <3>2, <3>4
      <4> QED
        BY <1>3, <3>4, <4>1 DEF CurrentAt
    <3>5. CASE k = Rev(s)
      <4>1. published'[s][k + 1] = now
        BY <3>1, <3>2, <3>5
      <4> QED
        BY <1>3, <4>1 DEF CurrentAt
    <3> QED
      BY <3>1, <3>3, <3>4, <3>5 DEF CurrentAt
  <2> QED
    BY <2>1, <2>2
<1>4. ASSUME NEW p \in Proc PROVE Mine(p)'
  <2>1. /\ Mine(p) /\ Began(p) \in Nat /\ got[p] \in Nat
        /\ pc[p] \in {"read", "mark", "time"} => Of(p) \in Remote /\ cache[Of(p)] \in Nat
    BY Numbers DEF FreshInv
  <2>2. Of(p)' = Of(p) /\ Began(p)' = Began(p)
    BY <1>1 DEF Of, Began
  <2>3. pc[p] # "idle" => Began(p) <= now /\ now <= Began(p) + Slow
    BY <2>1 DEF Mine
  <2>4. ASSUME pc[p] \in Fetched, Of(p) \in Remote
        PROVE  CurrentAt(Of(p), got[p], Began(p), 0)'
    <3>1. CurrentAt(Of(p), got[p], Began(p), 0) /\ Began(p) <= now + 0
      BY <1>1, <2>1, <2>3, <2>4 DEF Mine, Fetched
    <3>2. CurrentAt(Of(p), got[p], Began(p), 0)'
      BY <1>1, <1>3, <2>1, <2>2, <2>4, <3>1 DEF CurrentAt, Rev
    <3> QED
      BY <3>2
  <2>5. ASSUME pc[p] \in {"mark", "time"}
        PROVE  CurrentAt(Of(p), cache[Of(p)], Began(p), Slow)'
    <3>1. CurrentAt(Of(p), cache[Of(p)], Began(p), Slow) /\ Began(p) <= now + Slow
      BY <1>1, <2>1, <2>3, <2>5, SkewType DEF Mine
    <3> QED
      BY <1>1, <1>3, <2>1, <2>2, <2>5, <3>1, SkewType DEF CurrentAt, Rev
  <2>6. ASSUME pc[p] = "read", ~job[p].offline
        PROVE  CurrentAt(Of(p), cache[Of(p)], Began(p) + 1, Ttl + Skew)'
    <3>1. /\ CurrentAt(Of(p), cache[Of(p)], Began(p) + 1, Ttl + Skew)
          /\ Began(p) + 1 <= now + (Ttl + Skew)
      BY <1>1, <2>1, <2>3, <2>6, SkewType DEF Mine
    <3> QED
      BY <1>1, <1>3, <2>1, <2>2, <2>6, <3>1, SkewType DEF CurrentAt, Rev
  <2> QED
    BY <1>1, <2>2, <2>3, <2>4, <2>5, <2>6 DEF Mine
<1>5. Marked'
  <2> SUFFICES ASSUME NEW s \in Remote, mark[s] # Never
               PROVE  CurrentAt(s, cache[s], mark[s], Skew)' /\ (mark[s] <= now \/ mark[s] <= Ahead)
    BY <1>1 DEF Marked
  <2>1. /\ CurrentAt(s, cache[s], mark[s], Skew) /\ (mark[s] <= now \/ mark[s] <= Ahead)
        /\ cache[s] \in Nat /\ mark[s] \in Nat
    BY Numbers DEF FreshInv, Marked
  <2>2. mark[s] <= now + Skew
    BY <1>1, <2>1, SkewType
  <2>3. CurrentAt(s, cache[s], mark[s], Skew)'
    BY <1>1, <1>3, <2>1, <2>2, SkewType DEF CurrentAt, Rev
  <2> QED
    BY <2>1, <2>3
<1> QED
  BY <1>4, <1>5 DEF FreshInv

LEMMA CallsFresh ==
  ASSUME IInv, FreshInv, NEW p \in Proc, Dispatch(p) \/ Add(p) \/ Update(p)
  PROVE  FreshInv'
<1>1. UNCHANGED <<now, published, cache, mark>> /\ now \in Nat
  BY Numbers DEF Dispatch, Add, Update, Begin, copies
<1>2. Began(p)' = now /\ pc'[p] \in {"look", "fetch", "next"}
  <2>1. PICK op, r, offline, at : /\ Begin(p, op, r, offline, at)
                                  /\ at \in {"look", "fetch", "next"}
    BY Zenon DEF Dispatch, Add, Update
  <2> QED
    BY <2>1 DEF Begin, IInv, TypeOK, Began
<1>3. Mine(p)'
  BY <1>1, <1>2, SkewType DEF Mine, Fetched
<1> QED
  BY <1>1, <1>3, StepsAlone, QuietFresh

LEMMA NextRefFresh == ASSUME IInv, FreshInv, NEW p \in Proc, NextRef(p) PROVE FreshInv'
<1>1. UNCHANGED <<now, published, cache, mark>> /\ pc[p] = "next"
  BY DEF NextRef, copies
<1>2. pc'[p] = "idle" \/ (pc'[p] = "fetch" /\ Began(p)' = Began(p))
  BY DEF NextRef, Leave, IInv, TypeOK, Job, Began
<1>3. Mine(p)'
  BY <1>1, <1>2 DEF FreshInv, Mine, Fetched
<1>4. Alone(p)
  BY StepsAlone DEF Step
<1> QED
  BY <1>1, <1>3, <1>4, QuietFresh

LEMMA LookFresh == ASSUME IInv, FreshInv, NEW p \in Proc, Look(p) PROVE FreshInv'
<1>1. /\ UNCHANGED <<now, published, cache, mark>> /\ pc[p] = "look" /\ Of(p) \in Remote
      /\ Began(p) \in Nat /\ cache[Of(p)] \in Nat /\ mark[Of(p)] \in Nat
  BY Numbers DEF Look, copies
<1>2. job'[p] = job[p] /\ Of(p)' = Of(p) /\ Began(p)' = Began(p)
  BY DEF Look, Goto, Of, Began
<1>3. CASE pc'[p] = "fetch"
  BY <1>1, <1>2, <1>3, OnMine, QuietFresh, StepsAlone DEF FreshInv, Fetched, Step
<1>4. CASE pc'[p] = "read" /\ (job[p].offline \/ Fresh(p))
  <2>1. ASSUME ~job[p].offline
        PROVE  CurrentAt(Of(p), cache[Of(p)], Began(p) + 1, Ttl + Skew)
    <3>1. mark[Of(p)] # Never /\ Began(p) < mark[Of(p)] + Ttl
      BY <1>4, <2>1 DEF Fresh, Began
    <3>2. CurrentAt(Of(p), cache[Of(p)], mark[Of(p)], Skew)
      BY <1>1, <3>1 DEF FreshInv, Marked
    <3>3. /\ (Began(p) + 1) + Skew <= mark[Of(p)] + (Ttl + Skew)
          /\ Began(p) + 1 \in Nat /\ Ttl + Skew \in Nat /\ Skew \in Nat
      BY <1>1, <3>1, SkewType
    <3> QED
      BY <1>1, <3>2, <3>3, Later
  <2>2. Mine(p)'
    BY <1>1, <1>2, <1>4, <2>1 DEF FreshInv, Mine, Fetched, CurrentAt, Rev
  <2> QED
    BY <1>1, <2>2, QuietFresh, StepsAlone DEF Step
<1>5. (pc'[p] = "fetch") \/ (pc'[p] = "read" /\ (job[p].offline \/ Fresh(p)))
  BY DEF Look, Goto, IInv, TypeOK
<1> QED
  BY <1>3, <1>4, <1>5

LEMMA ReadFresh == ASSUME IInv, FreshInv, NEW p \in Proc, Read(p) PROVE FreshInv'
<1>1. UNCHANGED <<now, published, cache, mark>> /\ pc[p] = "read"
  BY DEF Read, copies
<1>2. pc'[p] = "idle" \/ (pc'[p] = "fetch" /\ job'[p] = job[p])
  BY DEF Read, Leave, Goto, IInv, TypeOK
<1>3. Mine(p)'
  BY <1>1, <1>2, IdleMine, OnMine DEF FreshInv, Fetched
<1> QED
  BY <1>1, <1>3, QuietFresh, StepsAlone DEF Step

LEMMA FetchFresh == ASSUME IInv, FreshInv, NEW p \in Proc, Fetch(p) PROVE FreshInv'
<1>1. UNCHANGED <<now, published, cache, mark>> /\ pc[p] = "fetch" /\ Of(p) \in Ref
  BY Numbers DEF Fetch, copies
<1>2. CASE Done(p)
  BY <1>1, <1>2, DoneMine, QuietFresh, StepsAlone DEF Step
<1>3. CASE /\ got' = [got EXCEPT ![p] = Rev(Of(p))]
           /\ pc' = [pc EXCEPT ![p] = IF Op(p) = "add" THEN "list" ELSE "store"]
           /\ UNCHANGED job
  <2>1. /\ got'[p] = Rev(Of(p)) /\ pc'[p] \in {"list", "store"}
        /\ Of(p)' = Of(p) /\ Began(p)' = Began(p)
    BY <1>3 DEF IInv, TypeOK, Of, Began
  <2>2. ASSUME Of(p) \in Remote PROVE CurrentAt(Of(p), got[p], Began(p), 0)'
    <3>1. Rev(Of(p))' = Rev(Of(p)) /\ Rev(Of(p)) \in Nat
      BY <1>1, <2>1, <2>2, Numbers DEF Rev
    <3> QED
      BY <2>1, <3>1 DEF CurrentAt, Rev
  <2>3. Mine(p)'
    BY <1>1, <2>1, <2>2 DEF FreshInv, Mine, Fetched
  <2> QED
    BY <1>1, <2>3, QuietFresh, StepsAlone DEF Step
<1> QED
  BY <1>2, <1>3 DEF Fetch

\* What is stored was current when a call began that is not over yet.
LEMMA StoreFresh == ASSUME IInv, FreshInv, NEW p \in Proc, Store(p) PROVE FreshInv'
<1> DEFINE r == Of(p)
<1>1. /\ UNCHANGED <<now, published, mark>> /\ pc[p] = "store" /\ r \in Remote /\ r \in Ref
      /\ now \in Nat /\ Began(p) \in Nat /\ got[p] \in Nat
  BY Numbers DEF Store, Ref
<1>2. CASE Done(p) /\ UNCHANGED cache
  BY <1>1, <1>2, DoneMine, QuietFresh, StepsAlone DEF Step
<1>3. CASE cache' = [cache EXCEPT ![r] = got[p]] /\ Goto(p, "mark")
  <2>1. /\ cache'[r] = got[p] /\ \A s \in Remote : s # r => cache'[s] = cache[s]
        /\ pc'[p] = "mark" /\ got' = got /\ job' = job /\ r' = r
    BY <1>1, <1>3 DEF IInv, TypeOK, Goto, Of
  <2>2. CurrentAt(r, got[p], Began(p), 0) /\ Began(p) <= now /\ now <= Began(p) + Slow
    BY <1>1 DEF FreshInv, Mine, Fetched
  <2>3. ASSUME NEW u \in Nat, NEW slack \in Nat, u + 0 <= Began(p) + slack
        PROVE  CurrentAt(r, got[p], u, slack)
    BY <1>1, <2>2, <2>3, Later
  <2>5. ASSUME NEW q \in Proc PROVE Mine(q)'
    <3>1. /\ Of(q)' = Of(q) /\ Began(q)' = Began(q) /\ got'[q] = got[q] /\ job'[q] = job[q]
          /\ Mine(q) /\ Began(q) \in Nat
      BY <2>1, Numbers DEF Of, Began, FreshInv
    <3>2. \/ q = p /\ pc'[q] = "mark"
          \/ pc'[q] = pc[q]
      BY <2>1, StepsAlone DEF Step, Alone
    <3>3. pc'[q] # "idle" => pc[q] # "idle" /\ Began(q) <= now /\ now <= Began(q) + Slow
      BY <1>1, <3>1, <3>2 DEF Mine
    <3>4. pc'[q] \in {"mark", "time", "read"} => Of(q) \in Remote
      BY <1>1, <3>2, Numbers
    <3>5. ASSUME pc'[q] \in Fetched, Of(q) \in Remote
          PROVE  CurrentAt(Of(q), got[q], Began(q), 0)'
      <4>1. CurrentAt(Of(q), got[q], Began(q), 0)
        BY <1>1, <3>1, <3>2, <3>5 DEF Mine, Fetched
      <4> QED
        BY <1>1, <3>1, <4>1 DEF CurrentAt, Rev
    <3>6. ASSUME pc'[q] \in {"mark", "time"}
          PROVE  CurrentAt(Of(q), cache[Of(q)], Began(q), Slow)'
      <4>1. CASE Of(q) = r
        <5>1. Began(q) + 0 <= Began(p) + Slow
          BY <1>1, <2>2, <3>1, <3>3, <3>6, SkewType
        <5>2. CurrentAt(r, got[p], Began(q), Slow)
          BY <2>3, <3>1, <5>1, SkewType
        <5> QED
          BY <1>1, <2>1, <3>1, <4>1, <5>2 DEF CurrentAt, Rev
      <4>2. CASE Of(q) # r
        <5>1. pc[q] \in {"mark", "time"}
          BY <3>2, <3>6, <4>2
        <5>2. CurrentAt(Of(q), cache[Of(q)], Began(q), Slow)
          BY <3>1, <5>1 DEF Mine
        <5>3. Of(q) \in Remote
          BY <3>4, <3>6
        <5>4. cache'[Of(q)] = cache[Of(q)]
          BY <2>1, <4>2, <5>3
        <5> QED
          BY <1>1, <3>1, <5>2, <5>4 DEF CurrentAt, Rev
      <4> QED
        BY <4>1, <4>2
    <3>7. ASSUME pc'[q] = "read", ~job[q].offline
          PROVE  CurrentAt(Of(q), cache[Of(q)], Began(q) + 1, Ttl + Skew)'
      <4>1. CASE Of(q) = r
        <5>1. (Began(q) + 1) + 0 <= Began(p) + (Ttl + Skew)
          BY <1>1, <2>2, <3>1, <3>3, <3>7, SkewType
        <5>2. CurrentAt(r, got[p], Began(q) + 1, Ttl + Skew)
          <6>1. Began(q) + 1 \in Nat /\ Ttl + Skew \in Nat
            BY <3>1, SkewType
          <6> QED
            BY <2>3, <5>1, <6>1
        <5> QED
          BY <1>1, <2>1, <3>1, <4>1, <5>2 DEF CurrentAt, Rev
      <4>2. CASE Of(q) # r
        <5>1. CurrentAt(Of(q), cache[Of(q)], Began(q) + 1, Ttl + Skew) /\ Of(q) \in Remote
          BY <3>1, <3>2, <3>4, <3>7 DEF Mine
        <5>2. cache'[Of(q)] = cache[Of(q)]
          BY <2>1, <4>2, <5>1
        <5> QED
          BY <1>1, <3>1, <5>1, <5>2 DEF CurrentAt, Rev
      <4> QED
        BY <4>1, <4>2
    <3> QED
      BY <1>1, <3>1, <3>3, <3>5, <3>6, <3>7 DEF Mine
  <2>6. Marked'
    <3> SUFFICES ASSUME NEW s \in Remote, mark[s] # Never
                 PROVE  /\ mark[s] <= now \/ mark[s] <= Ahead
                        /\ CurrentAt(s, cache[s], mark[s], Skew)'
      BY <1>1 DEF Marked
    <3>1. /\ mark[s] <= now \/ mark[s] <= Ahead
          /\ CurrentAt(s, cache[s], mark[s], Skew) /\ mark[s] \in Nat
      BY Numbers DEF FreshInv, Marked
    <3>2. CASE s = r
      <4>1. mark[s] + 0 <= Began(p) + Skew
        BY <1>1, <2>2, <3>1, SkewType
      <4>2. CurrentAt(r, got[p], mark[s], Skew)
        BY <2>3, <3>1, <4>1, SkewType
      <4> QED
        BY <1>1, <2>1, <3>1, <3>2, <4>2 DEF CurrentAt, Rev
    <3>3. CASE s # r
      <4>1. CurrentAt(s, cache[s], mark[s], Skew)'
        BY <1>1, <2>1, <3>1, <3>3 DEF CurrentAt, Rev
      <4> QED
        BY <3>1, <4>1
    <3> QED
      BY <3>2, <3>3
  <2> QED
    BY <2>5, <2>6 DEF FreshInv
<1> QED
  BY <1>2, <1>3 DEF Store
LEMMA MarkFresh == ASSUME IInv, FreshInv, NEW p \in Proc, Mark(p) PROVE FreshInv'
<1>1. UNCHANGED <<now, published, cache>> /\ pc[p] = "mark" /\ Of(p) \in Remote
  BY Numbers DEF Mark
<1>2. CASE Done(p) /\ UNCHANGED mark
  BY <1>1, <1>2, DoneMine, QuietFresh, StepsAlone DEF Step
<1>3. CASE mark' = [mark EXCEPT ![Of(p)] = Never] /\ Goto(p, "time")
  <2>1. pc'[p] = "time" /\ job'[p] = job[p] /\ got'[p] = got[p]
    BY <1>3 DEF Goto, IInv, TypeOK
  <2>2. Mine(p)'
    BY <1>1, <2>1, OnMine DEF FreshInv, Fetched
  <2>3. \A r \in Remote : mark'[r] = mark[r] \/ mark'[r] = Never
    BY <1>1, <1>3 DEF IInv, TypeOK, Ref
  <2> QED
    BY <1>1, <2>2, <2>3, QuietFresh, StepsAlone DEF Step
<1> QED
  BY <1>2, <1>3 DEF Mark

\* What is there was current when the call began, or since a call before.
LEMMA TimeFresh == ASSUME IInv, FreshInv, NEW p \in Proc, Time(p) PROVE FreshInv'
<1> DEFINE r == Of(p)
<1>1. /\ UNCHANGED <<now, published, cache>> /\ pc[p] = "time" /\ r \in Remote /\ Done(p)
      /\ Began(p) \in Nat /\ cache[r] \in Nat /\ now \in Nat
  BY Numbers DEF Time
<1>2. \A q \in Proc : Mine(q)'
  BY <1>1, DoneMine, OthersKeep, StepsAlone DEF Step
<1>3. CurrentAt(r, cache[r], now, Skew)
  <2>1. CurrentAt(r, cache[r], Began(p), Slow) /\ now <= Began(p) + Slow
    BY <1>1 DEF FreshInv, Mine
  <2>2. now + Slow <= Began(p) + Skew
    BY <1>1, <2>1, SkewType
  <2> QED
    BY <1>1, <2>1, <2>2, Later, SkewType
<1>4. Marked'
  <2> SUFFICES ASSUME NEW s \in Remote, mark'[s] # Never
               PROVE  /\ mark'[s] <= now \/ mark'[s] <= Ahead
                      /\ CurrentAt(s, cache[s], mark[s], Skew)'
    BY <1>1 DEF Marked
  <2>1. mark' = mark \/ mark' = [mark EXCEPT ![r] = now]
    BY DEF Time
  <2>2. CASE mark'[s] = mark[s]
    BY <1>1, <2>2 DEF FreshInv, Marked, CurrentAt, Rev
  <2>3. CASE s = r /\ mark'[s] = now
    BY <1>1, <1>3, <2>3 DEF CurrentAt, Rev
  <2> QED
    BY <2>1, <2>2, <2>3 DEF IInv, TypeOK, Ref
<1> QED
  BY <1>2, <1>4 DEF FreshInv

LEMMA ListFresh ==
  ASSUME IInv, FreshInv, NEW p \in Proc, List(p) \/ Register(p)
  PROVE  FreshInv'
<1>1. /\ UNCHANGED <<now, published, cache, mark>> /\ pc[p] \in {"list", "register"}
  BY DEF List, Register, copies
<1>2. \/ pc'[p] = "idle"
      \/ pc'[p] \in {"register", "store"} /\ job'[p] = job[p] /\ got'[p] = got[p]
  BY DEF List, Register, Registered, Leave, Goto, IInv, TypeOK
<1>3. Mine(p)'
  BY <1>1, <1>2, IdleMine, OnMine DEF FreshInv, Fetched
<1> QED
  BY <1>1, <1>3, QuietFresh, StepsAlone DEF Step

LEMMA CrashFresh == ASSUME IInv, FreshInv, NEW p \in Proc, Crash(p) PROVE FreshInv'
<1>1. UNCHANGED <<now, published, cache, mark>> /\ pc'[p] = "idle"
  BY DEF Crash, copies, Leave, IInv, TypeOK
<1> QED
  BY <1>1, IdleMine, QuietFresh, StepsAlone

LEMMA FreshInit == Init => FreshInv
<1> SUFFICES ASSUME Init PROVE FreshInv
  OBVIOUS
<1>1. ASSUME NEW p \in Proc PROVE Mine(p)
  BY DEF Init, Mine, Fetched
<1>2. ASSUME NEW r \in Remote, mark[r] # Never
      PROVE  mark[r] <= Ahead /\ CurrentAt(r, cache[r], mark[r], Skew)
  <2>1. r \in Ref /\ published[r] = <<0>> /\ Len(<<0>>) = 1
    BY DEF Ref, Init
  <2>2. cache[r] = 1 /\ mark[r] \in 0 .. Ahead
    BY <1>2, <2>1 DEF Init
  <2> QED
    BY <2>1, <2>2, SkewType DEF CurrentAt, Rev
<1> QED
  BY <1>1, <1>2 DEF FreshInv, Marked

LEMMA FreshNext == IInv /\ FreshInv /\ [Next]_vars => FreshInv'
<1>1. ASSUME FreshInv, UNCHANGED vars PROVE FreshInv'
  BY <1>1 DEF FreshInv, Marked, Mine, CurrentAt, Rev, Of, Began, vars, copies, call
<1>2. ASSUME IInv, FreshInv, NEW p \in Proc, Step(p) PROVE FreshInv'
  BY <1>2, NextRefFresh, LookFresh, ReadFresh, FetchFresh, StoreFresh, MarkFresh,
     TimeFresh, ListFresh DEF Step
<1> QED
  BY <1>1, <1>2, TickFresh, PublishFresh, CallsFresh, CrashFresh DEF Next

\* An online dispatch answers from, or refuses as malformed, what its source
\* offered less than Behind ago: the term of a copy and the time of the dispatch,
\* with what the clock was ahead or two calls took; for any processes that store
\* side by side, fail and die, and any revisions.
THEOREM DispatchesAreFresh == Spec => FreshEnough
<1>1. ASSUME IInv, FreshInv, NEW p \in Proc,
             Read(p), cache[Of(p)] # 0, ~job[p].offline
      PROVE  Lag(Of(p), cache[Of(p)]) < Behind
  <2>1. /\ pc[p] = "read" /\ Of(p) \in Remote /\ Began(p) \in Nat /\ cache[Of(p)] \in Nat
        /\ now \in Nat
    BY <1>1, Numbers DEF Read
  <2>2. CurrentAt(Of(p), cache[Of(p)], Began(p) + 1, Ttl + Skew) /\ now <= Began(p) + Slow
    BY <1>1, <2>1 DEF FreshInv, Mine
  <2>3. /\ now + (Ttl + Skew) < (Began(p) + 1) + Behind /\ 0 < Behind /\ Behind \in Nat
        /\ Began(p) + 1 \in Nat /\ Ttl + Skew \in Nat
    BY <2>1, <2>2, SkewType
  <2> QED
    BY <1>1, <2>1, <2>2, <2>3, LagBound
<1>2. ASSUME IInv, FreshInv, NEW p \in Proc, Time(p)
      PROVE  Lag(Of(p), got[p]) < Behind
  <2>1. /\ pc[p] = "time" /\ Of(p) \in Remote /\ Began(p) \in Nat /\ got[p] \in Nat
        /\ now \in Nat
    BY <1>2, Numbers DEF Time
  <2>2. CurrentAt(Of(p), got[p], Began(p), 0) /\ now <= Began(p) + Slow
    BY <1>2, <2>1 DEF FreshInv, Mine, Fetched
  <2>3. now + 0 < Began(p) + Behind /\ 0 < Behind /\ Behind \in Nat
    BY <2>1, <2>2, SkewType
  <2> QED
    BY <1>2, <2>1, <2>2, <2>3, LagBound
<1>3. IInv /\ FreshInv /\ [Next]_vars =>
        [\A p \in Proc :
           /\ Read(p) /\ cache[Of(p)] # 0 /\ ~job[p].offline
                => Lag(Of(p), cache[Of(p)]) < Behind
           /\ Time(p) /\ Op(p) = "dispatch" => Lag(Of(p), got[p]) < Behind]_vars
  BY <1>1, <1>2
<1> QED
  BY <1>3, FreshInit, FreshNext, RegistriesInvariance, PTL DEF Spec, FreshEnough
=============================================================================
