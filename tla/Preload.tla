------------------------------ MODULE Preload ------------------------------
(***************************************************************************)
(* The preloaded library (crates/libtfs-preload): libc calls of the        *)
(* program's threads, each answered by the engine, refused, or handed to   *)
(* the real libc.  The engine is the mount context behind its lock; while  *)
(* a thread is in it, the engine's own libc calls come back through here,  *)
(* which the thread's IN_ENGINE tells apart.  A fork leaves a child with   *)
(* one thread, the locks as they were, and no worker thread of a backend:  *)
(* IN_FORK_CHILD keeps it out of the engine until it executes a program.   *)
(*                                                                         *)
(* The mount table is set up before the program starts and does not change *)
(* (FsContext itself is Vfs and Materialize); the host policy is Jail's.   *)
(* After a fork the model follows one of the two processes.                *)
(***************************************************************************)
EXTENDS Jail, Sequences

CONSTANTS
  Thread,    \* the threads
  Held,      \* Held[p]: what the images make of path p: "file", "dir", "below"
             \*   (nothing, below something held) or "no"
  Requests,  \* what packages request: jails, or NoJail
  Users,     \* what users say: jails, or NoJail
  Operation, \* the libc calls that the program uses
  Probe,     \* the paths it uses them on
  Internal,  \* the paths of the engine's own libc calls
  MaxCalls   \* bound of the number of calls that the program makes

\* The libc calls by what the code does with them: stat stands for every call
\* that asks about a path, load for dlopen and fopen to read, change for mkdir,
\* unlink and rename, read for every call on a descriptor that keeps it open,
\* seekdir for every call on a directory stream that does.
OnPath == {"open", "openw", "stat", "opendir", "load", "change", "exec"}
OnFd   == {"read", "close", "mmap"}
OnDir  == {"readdir", "seekdir", "closedir"}

ASSUME PreloadAssumption ==
  /\ Held \in [Host -> {"file", "dir", "below", "no"}]
  /\ (Requests \cup Users) \ {NoJail} \subseteq Jail
  /\ Operation \subseteq OnPath \cup OnFd \cup OnDir
  /\ Probe \cup Internal \subseteq Host /\ MaxCalls \in Nat

VARIABLES
  stage,    \* "command", "package", "library", then "program"
  request,  \* the jail that the package asks for
  user,     \* the jail that the user asked for
  env,      \* TEBAKO_JAIL
  policy,   \* the policy that the engine has
  mounted,  \* something is mounted
  alive,    \* the threads of the process
  child,    \* IN_FORK_CHILD
  guard,    \* guard[t]: IN_ENGINE of thread t
  stack,    \* stack[t]: t's calls, one that the engine makes above the program's
  lock,     \* lock[t]: how t holds the context, "no", "read" or "write"
  cache,    \* who holds DIRENT_CACHE
  opened,   \* the descriptors and streams that are open: [kind, side, no]
  anon,     \* the threads whose mmap has made an anonymous mapping
  calls     \* the number of calls that the program has made

setup   == <<stage, request, user, env, policy, mounted>>
process == <<alive, child, guard, stack, lock, cache, opened, anon>>
vars    == <<setup, process, calls>>

Nobody == "nobody"

\* A call: what for, on what, in which of its engine calls, and how far in it.
Frame(op, on, phase, at) == [op |-> op, on |-> on, phase |-> phase, at |-> at]

Busy(t) == t \in alive /\ stack[t] # <<>>

Top(t) == stack[t][Len(stack[t])]

Go(t, at) == stack' = [stack EXCEPT ![t][Len(stack[t])].at = at]

GoTo(t, phase, at) ==
  stack' = [stack EXCEPT ![t][Len(stack[t])] = Frame(@.op, @.on, phase, at)]

Return(t) == stack' = [stack EXCEPT ![t] = SubSeq(@, 1, Len(@) - 1)]

Need(op) == IF op \in {"openw", "change"} THEN "rw" ELSE "ro"

-----------------------------------------------------------------------------
(* Before the program runs *)

\* `tebako run`: the request and the flags.
Command ==
  /\ stage = "command" /\ stage' = "package"
  /\ env' = Exported(request, user)
  /\ UNCHANGED <<request, user, policy, mounted, process, calls>>

\* The bootstrap of the package composes again, with what reached it.
Package ==
  /\ stage = "package" /\ stage' = "library"
  /\ env' = Exported(request, env)
  /\ UNCHANGED <<request, user, policy, mounted, process, calls>>

\* The constructor of the library.
Initialize ==
  /\ stage = "library" /\ stage' = "program"
  /\ policy' = Bind(IF env = NoJail THEN OpenJail ELSE env)
  /\ UNCHANGED <<request, user, env, mounted, process, calls>>

-----------------------------------------------------------------------------
(* The program's calls *)

\* What a call does first: a path goes to the engine, a descriptor's bit tells
\* whose it is, a stream is looked up in the engine.
Begin(op, on) ==
  IF op \in OnDir THEN Frame(op, on, "test", "gate")
  ELSE IF op \in OnFd /\ on.side = "host" THEN Frame(op, on, "ask", "real")
  ELSE IF op = "mmap" THEN Frame(op, on, "ask", "map")
  ELSE Frame(op, on, "ask", "gate")

\* The calls under way on a handle.
Uses(h) == {op \in OnFd \cup OnDir :
              \E t \in alive : stack[t] # <<>> /\ stack[t][1].op = op
                                 /\ stack[t][1].on = h}

\* A program uses what it has open, and closes what nobody uses.
MayCall(op, on) ==
  /\ on.kind = (IF op \in OnFd THEN "fd" ELSE "dir")
  /\ Uses(on) \cap {"close", "closedir"} = {}
  /\ op \in {"close", "closedir"} => Uses(on) = {}

Call(t) ==
  /\ stage = "program" /\ t \in alive /\ stack[t] = <<>> /\ calls < MaxCalls
  /\ \/ \E op \in Operation \cap OnPath : \E p \in Probe :
          stack' = [stack EXCEPT ![t] = <<Begin(op, p)>>]
     \/ \E op \in Operation \ OnPath : \E h \in opened :
          MayCall(op, h) /\ stack' = [stack EXCEPT ![t] = <<Begin(op, h)>>]
  /\ calls' = calls + 1
  /\ UNCHANGED <<setup, alive, child, guard, lock, cache, opened, anon>>

\* A libc call of the engine's own, which comes through here as well.
HostIO(t) ==
  /\ Busy(t) /\ Len(stack[t]) = 1 /\ Top(t).at = "inside"
  /\ \E p \in Internal :
       stack' = [stack EXCEPT ![t] =
         <<[@[1] EXCEPT !.at = "worked"], Frame("stat", p, "ask", "gate")>>]
  /\ UNCHANGED <<setup, alive, child, guard, lock, cache, opened, anon, calls>>

-----------------------------------------------------------------------------
(* engine_call, and the lock of the context *)

\* Mutant: a fork child goes into the engine as its parent did.
EnterInChild(t) == ~guard[t]

MayEnter(t) == ~child /\ ~guard[t]

\* Where a call goes that may not enter: a descriptor, and a stream that has
\* been found in the engine, fail with EIO; all else is the real call's.
Outside(f) ==
  IF f.op = "mmap" THEN "unmap"
  ELSE IF f.op \in OnFd \/ (f.op \in OnDir /\ f.phase = "ask") THEN "fail"
  ELSE "real"

Gate(t) ==
  /\ Busy(t) /\ Top(t).at = "gate"
  /\ IF MayEnter(t)
     THEN Go(t, "wait") /\ guard' = [guard EXCEPT ![t] = TRUE]
     ELSE Go(t, Outside(Top(t))) /\ UNCHANGED guard
  /\ UNCHANGED <<setup, alive, child, lock, cache, opened, anon, calls>>

Mode(f) ==
  IF f.phase \in {"test", "check"} \/ f.op \in {"stat", "change", "mmap"}
  THEN "read" ELSE "write"

Waits(t, mode) == Busy(t) /\ Top(t).at = "wait" /\ Mode(Top(t)) = mode

\* A RwLock: a reader also waits while a writer does.  Threads that a fork has
\* left behind hold what they held.
Acquire(t) ==
  /\ Busy(t) /\ Top(t).at = "wait"
  /\ \A u \in Thread : lock[u] # "write"
  /\ IF Mode(Top(t)) = "read"
     THEN \A u \in Thread : ~Waits(u, "write")
     ELSE \A u \in Thread : lock[u] = "no"
  /\ lock' = [lock EXCEPT ![t] = Mode(Top(t))]
  /\ Go(t, "inside")
  /\ UNCHANGED <<setup, alive, child, guard, cache, opened, anon, calls>>

-----------------------------------------------------------------------------
(* What the engine answers *)

\* An image is read, by worker threads that no fork child has.
ReadsImage(f) == f.op \notin {"close", "closedir"} /\ f.phase # "test" /\ mounted

\* On a path: its own, a refusal, or what the policy says of the host's.
Answer(op, p) ==
  LET ofHost == IF Check(policy, p, Need(op)) = "ok" THEN "host" ELSE "denied" IN
  IF ~mounted THEN ofHost
  ELSE IF Need(op) = "rw" THEN IF Held[p] = "no" THEN ofHost ELSE "denied"
  ELSE IF Held[p] \in {"no", "below"} THEN ofHost
  ELSE IF op = "stat" \/ Held[p] = (IF op = "opendir" THEN "dir" ELSE "file")
  THEN "vfs" ELSE "denied"

Handle(t, kind, side) == [kind |-> kind, side |-> side, no |-> calls]

\* What a successful open gives.
Given(t, side) ==
  CASE Top(t).op \in {"open", "openw"} -> {Handle(t, "fd", side)}
    [] Top(t).op = "opendir" -> {Handle(t, "dir", side)}
    [] OTHER -> {}

Release(t) == lock' = [lock EXCEPT ![t] = "no"] /\ guard' = [guard EXCEPT ![t] = FALSE]

Out(t) == Busy(t) /\ Top(t).at \in {"inside", "worked"} /\ (ReadsImage(Top(t)) => ~child)

\* Nothing is mounted, and the engine has not asked the policy: the library
\* asks it, in a second call under a lock of its own.
Recheck(t) ==
  /\ Out(t) /\ Top(t).phase = "ask" /\ Top(t).op \in OnPath
  /\ ~mounted /\ Top(t).op # "change"
  /\ GoTo(t, "check", "wait")
  /\ lock' = [lock EXCEPT ![t] = "no"]
  /\ UNCHANGED <<setup, alive, child, guard, cache, opened, anon, calls>>

\* A path is answered.
Path(t) ==
  /\ Out(t) /\ Top(t).op \in OnPath
  /\ Top(t).phase = "check" \/ mounted \/ Top(t).op = "change"
  /\ Release(t)
  /\ LET answer == Answer(Top(t).op, Top(t).on) IN
     /\ CASE answer = "host" -> Go(t, "real")
          [] answer = "vfs" /\ Top(t).op \in {"load", "exec"} -> Go(t, "real")
          [] OTHER -> Return(t)
     /\ opened' = IF answer = "vfs" THEN opened \cup Given(t, "vfs") ELSE opened
  /\ UNCHANGED <<setup, alive, child, cache, anon, calls>>

\* A stream has been looked up, in the engine's table.
Test(t) ==
  /\ Out(t) /\ Top(t).phase = "test"
  /\ Release(t)
  /\ IF Top(t).on.side = "vfs" /\ Top(t).on \in opened
     THEN GoTo(t, "ask", IF Top(t).op = "closedir" THEN "cache" ELSE "gate")
     ELSE Go(t, "real")
  /\ UNCHANGED <<setup, alive, child, cache, opened, anon, calls>>

\* A descriptor or a stream of the engine's is served.
Serve(t) ==
  /\ Out(t) /\ Top(t).op \in (OnFd \ {"mmap"}) \cup OnDir /\ Top(t).phase = "ask"
  /\ Release(t)
  /\ IF Top(t).op = "readdir" THEN Go(t, "cache") ELSE Return(t)
  /\ opened' = IF Top(t).op \in {"close", "closedir"} THEN opened \ {Top(t).on}
               ELSE opened
  /\ UNCHANGED <<setup, alive, child, cache, anon, calls>>

-----------------------------------------------------------------------------
(* The cache of directory entries, and mmap *)

LockCache(t) ==
  /\ Busy(t) /\ Top(t).at = "cache" /\ cache = Nobody
  /\ cache' = t /\ Go(t, "caching")
  /\ UNCHANGED <<setup, alive, child, guard, lock, opened, anon, calls>>

UnlockCache(t) ==
  /\ Busy(t) /\ Top(t).at = "caching"
  /\ cache' = Nobody
  /\ IF Top(t).op = "closedir" THEN Go(t, "gate") ELSE Return(t)
  /\ UNCHANGED <<setup, alive, child, guard, lock, opened, anon, calls>>

\* mmap of the engine's descriptor: an anonymous mapping, filled call by call.
Map(t) ==
  /\ Busy(t) /\ Top(t).at = "map"
  /\ anon' = anon \cup {t} /\ Go(t, "gate")
  /\ UNCHANGED <<setup, alive, child, guard, lock, cache, opened, calls>>

\* Mutant: an error leaves the mapping behind.
FillLeaks(t) ==
  /\ Out(t) /\ Top(t).op = "mmap" /\ Release(t)
  /\ \/ Go(t, "gate") /\ UNCHANGED anon
     \/ Return(t) /\ anon' = anon \ {t}
     \/ Return(t) /\ UNCHANGED anon
  /\ UNCHANGED <<setup, alive, child, cache, opened, calls>>

\* More to read; the end, and the mapping is the program's; or an error.
Fill(t) ==
  /\ Out(t) /\ Top(t).op = "mmap" /\ Release(t)
  /\ \/ Top(t).phase = "ask" /\ GoTo(t, "more", "gate") /\ UNCHANGED anon
     \/ Return(t) /\ anon' = anon \ {t}
     \/ Go(t, "unmap") /\ UNCHANGED anon
  /\ UNCHANGED <<setup, alive, child, cache, opened, calls>>

Unmap(t) ==
  /\ Busy(t) /\ Top(t).at = "unmap"
  /\ anon' = anon \ {t} /\ Return(t)
  /\ UNCHANGED <<setup, alive, child, guard, lock, cache, opened, calls>>

Failed(t) ==
  /\ Busy(t) /\ Top(t).at = "fail" /\ Return(t)
  /\ UNCHANGED <<setup, alive, child, guard, lock, cache, opened, anon, calls>>

-----------------------------------------------------------------------------
(* The real call, fork and exec *)

Real(t) ==
  /\ Busy(t) /\ Top(t).at = "real" /\ Return(t)
  /\ \/ UNCHANGED opened
     \/ Top(t).op \in OnPath /\ opened' = opened \cup Given(t, "host")
     \/ Top(t).op \in {"close", "closedir"} /\ opened' = opened \ {Top(t).on}
  /\ UNCHANGED <<setup, alive, child, guard, lock, cache, anon, calls>>

\* execve: a new program, which finds the environment as it was.
Exec(t) ==
  /\ Busy(t) /\ Len(stack[t]) = 1 /\ Top(t).op = "exec" /\ Top(t).at = "real"
  /\ stage' = "library"
  /\ alive' = Thread /\ child' = FALSE
  /\ guard' = [u \in Thread |-> FALSE] /\ stack' = [u \in Thread |-> <<>>]
  /\ lock' = [u \in Thread |-> "no"] /\ cache' = Nobody /\ anon' = {}
  /\ opened' = {h \in opened : h.kind = "fd" /\ h.side = "host"}
  /\ UNCHANGED <<request, user, env, policy, mounted, calls>>

\* The process from here on is the child.  Of the other threads it has what
\* they held.
Fork(t) ==
  /\ stage = "program" /\ t \in alive /\ stack[t] = <<>>
  /\ ~child
  /\ alive' = {t} /\ child' = TRUE
  /\ stack' = [u \in Thread |-> <<>>] /\ guard' = [u \in Thread |-> FALSE]
  /\ anon' = {}
  /\ UNCHANGED <<setup, lock, cache, opened, calls>>

-----------------------------------------------------------------------------

Init ==
  /\ stage = "command" /\ request \in Requests /\ user \in Users
  /\ env = NoJail /\ policy = Bind(OpenJail) /\ mounted \in BOOLEAN
  /\ alive = Thread /\ child = FALSE
  /\ guard = [t \in Thread |-> FALSE] /\ stack = [t \in Thread |-> <<>>]
  /\ lock = [t \in Thread |-> "no"] /\ cache = Nobody
  /\ opened = {} /\ anon = {} /\ calls = 0

Step(t) ==
  \/ Gate(t) \/ Acquire(t) \/ Recheck(t) \/ Path(t) \/ Test(t) \/ Serve(t)
  \/ LockCache(t) \/ UnlockCache(t) \/ Map(t) \/ Fill(t) \/ Unmap(t) \/ Failed(t)
  \/ Real(t) \/ Exec(t)

Next ==
  \/ Command \/ Package \/ Initialize
  \/ \E t \in Thread : Call(t) \/ HostIO(t) \/ Step(t) \/ Fork(t)

\* A thread goes on with its call.
Spec == Init /\ [][Next]_vars /\ \A t \in Thread : WF_vars(Step(t))

-----------------------------------------------------------------------------
(* Properties *)

\* Every call returns, in a fork child too: no thread waits for a lock of its
\* own, for one that a thread left behind by a fork holds, or for a worker
\* thread that the fork left behind.
EveryCallReturns ==
  \A t \in Thread : Busy(t) ~> ~Busy(t)

\* The program reaches the host's files only as the package's request and the
\* user's jail both allow, through every surface that composed them; unless
\* the user records, or the process is a fork child.  (fopen for writing is not
\* among the operations: the library hands it to the real call unasked.)
HostOnlyAsAllowed ==
  \A t \in {t \in alive : stack[t] # <<>>} :
    LET f == stack[t][1] IN
    f.op \in OnPath /\ f.at = "real" /\ ~child
      /\ ~(mounted /\ f.op \in {"load", "exec"} /\ Held[f.on] = "file") =>
      \/ user # NoJail /\ user.record
      \/ \A j \in {request, user} :
           Allows(j, f.on, Need(f.op)) \/ (Need(f.op) = "ro" /\ Courteous(policy, f.on))

\* A descriptor of the engine's never reaches the real call, not even in a
\* fork child, which has inherited it.
DescriptorsStayInside ==
  \A t \in alive : \A i \in DOMAIN stack[t] :
    LET f == stack[t][i] IN f.op \in OnFd /\ f.at = "real" => f.on.side = "host"

\* The same for directory streams ("every shim already maps to pass through to
\* the real libc / fail safe").
StreamsStayInside ==
  \A t \in alive : \A i \in DOMAIN stack[t] :
    LET f == stack[t][i] IN f.op \in OnDir /\ f.at = "real" => f.on.side = "host"

\* A mapping that was made for a call is given to the program or unmapped.
MappingsAreReturned == \A t \in alive : t \in anon => stack[t] # <<>> /\ stack[t][1].op = "mmap"
=============================================================================
