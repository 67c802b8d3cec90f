----------------------------- MODULE Registries -----------------------------
(***************************************************************************)
(* The registries a home has registered, and the copies of the remote ones *)
(* that every dispatch reads first:                                        *)
(*   dispatch  registry_for_with of crates/tebako-shim/src/regcache.rs     *)
(*   update    `tebako update-registries`, refresh_with of regcache.rs     *)
(*   add       `tebako add-registry`, crates/tebako-cli/src/install.rs     *)
(*             with config::add_registry of crates/tebako-shim             *)
(*                                                                         *)
(* No lock is taken anywhere.  A copy is two files, the bytes (written     *)
(* beside and renamed) and the time they were fetched (truncated, then     *)
(* written).  The list of registries is one file that is read, extended    *)
(* and renamed into place.  The content of a registry is the number of the *)
(* revision, of which its source publishes one after the other.            *)
(***************************************************************************)
EXTENDS Naturals, Sequences

CONSTANTS
  Proc,      \* the processes
  Remote,    \* the registries that are fetched and cached
  Local,     \* the ones that are files: read in place at every use, so that
             \*   all there is to them is that they are registered
  Malformed, \* the revisions that do not parse
  Ttl,       \* for how long a copy is fresh
  Slow,      \* for how long a call may take
  Ahead,     \* by how much the clock has been set back before the first call
  MaxTime,   \* bound of the clock
  MaxRev     \* bound of the revisions of one registry

ASSUME RegistryAssumption ==
  /\ Remote \cap Local = {}
  /\ Malformed \subseteq Nat \ {0}
  /\ Ttl \in Nat \ {0} /\ Slow \in Nat
  /\ Ahead \in Nat /\ MaxTime \in Nat /\ MaxRev \in Nat \ {0}

Ref == Remote \cup Local

VARIABLES
  now,       \* the clock
  published, \* published[r][k]: when revision k of r came out at its source
  cache,     \* cache[r]: the revision in <key>.yaml; 0 without one
  mark,      \* mark[r]: what <key>.fetched-at says; Never when it is missing
             \*   or empty
  config,    \* the registered registries
  pc,        \* pc[p]: how far p's call is
  job,       \* job[p]: the operation, its registry, when it began, offline
  got,       \* got[p]: the revision p has fetched
  known,     \* known[p]: the registries p has read from the list, and not
             \*   yet updated
  \* history
  seen,      \* seen[r]: the last revision a dispatch answered from, or
             \*   refused as malformed
  raced,     \* registries with two copies under way at once
  overlapped \* two calls rewrote the list at once

\* No time of fetching, and no registry.
Never == MaxTime + Ahead + 1
None == "none"

copies == <<cache, mark>>
call == <<pc, job, got, known>>
history == <<seen, raced, overlapped>>
vars == <<now, published, copies, config, call, history>>

Rev(r) == Len(published[r])

Parses(k) == k \notin Malformed

Op(p) == job[p].op
Of(p) == job[p].ref

-----------------------------------------------------------------------------
(* Control *)

NoJob == [op |-> "none", ref |-> None, began |-> 0, offline |-> FALSE]

Goto(p, at) == /\ pc' = [pc EXCEPT ![p] = at]
               /\ UNCHANGED <<job, got, known>>

Leave(p) == /\ pc' = [pc EXCEPT ![p] = "idle"]
            /\ job' = [job EXCEPT ![p] = NoJob]
            /\ got' = [got EXCEPT ![p] = 0]
            /\ known' = [known EXCEPT ![p] = {}]

\* An update goes on to its next registry, the other calls are over.
Done(p) == \/ /\ Op(p) = "update" /\ pc' = [pc EXCEPT ![p] = "next"]
              /\ got' = [got EXCEPT ![p] = 0] /\ UNCHANGED <<job, known>>
           \/ Op(p) # "update" /\ Leave(p)

KeepHistory == UNCHANGED history

\* The dispatch has its registry in hand as revision k, and answers from it or
\* refuses it as malformed.
Judge(p, k) ==
  /\ seen' = [seen EXCEPT ![Of(p)] = k]
  /\ UNCHANGED <<raced, overlapped>>

-----------------------------------------------------------------------------
(* The world: time passes while no call is overdue, sources go on *)

Tick ==
  /\ now < MaxTime
  /\ \A p \in Proc : pc[p] # "idle" => now < job[p].began + Slow
  /\ now' = now + 1
  /\ UNCHANGED <<published, copies, config, call, history>>

Publish ==
  /\ \E r \in Remote : /\ Rev(r) < MaxRev
                       /\ published' = [published EXCEPT ![r] = Append(@, now)]
  /\ UNCHANGED <<now, copies, config, call, history>>

-----------------------------------------------------------------------------
(* Calls begin *)

Begin(p, op, r, offline, at) ==
  /\ pc[p] = "idle" /\ pc' = [pc EXCEPT ![p] = at]
  /\ job' = [job EXCEPT ![p] = [op |-> op, ref |-> r, began |-> now,
                                offline |-> offline]]
  /\ UNCHANGED <<now, published, copies, config, got, history>>

\* A dispatch asks the registries of the list.
Dispatch(p) ==
  /\ \E r \in config \cap Remote, offline \in BOOLEAN : Begin(p, "dispatch", r, offline, "look")
  /\ UNCHANGED known

Add(p) ==
  /\ \E r \in Ref : Begin(p, "add", r, FALSE, "fetch")
  /\ UNCHANGED known

\* update_registries reads the list once.
Update(p) ==
  /\ Begin(p, "update", None, FALSE, "next")
  /\ known' = [known EXCEPT ![p] = config \cap Remote]

\* The next registry of an update, which skips the local ones.
NextRef(p) ==
  /\ pc[p] = "next"
  /\ \/ known[p] = {} /\ Leave(p)
     \/ \E r \in known[p] :
          /\ known' = [known EXCEPT ![p] = @ \ {r}]
          /\ job' = [job EXCEPT ![p].ref = r]
          /\ pc' = [pc EXCEPT ![p] = "fetch"]
          /\ UNCHANGED got
  /\ UNCHANGED <<now, published, copies, config, history>>

-----------------------------------------------------------------------------
(* A dispatch looks at the copy *)

\* Mutant of Fresh: a copy is fresh up to and including its term.
FreshTooLong(p) ==
  mark[Of(p)] # Never /\ job[p].began <= mark[Of(p)] + Ttl

\* The age is cut off at zero, and taken at the start of the call.
Fresh(p) == mark[Of(p)] # Never /\ job[p].began < mark[Of(p)] + Ttl

\* The time first.
Look(p) ==
  /\ pc[p] = "look"
  /\ Goto(p, IF job[p].offline \/ Fresh(p) THEN "read" ELSE "fetch")
  /\ UNCHANGED <<now, published, copies, config, history>>

\* The bytes, later.  Without any, offline is an error, online a fetch.
Read(p) ==
  LET r == Of(p) IN
  /\ pc[p] = "read"
  /\ \/ /\ cache[r] # 0
        /\ Judge(p, cache[r]) /\ Leave(p)
     \/ /\ cache[r] = 0 /\ KeepHistory
        /\ \/ job[p].offline /\ Leave(p)
           \/ ~job[p].offline /\ Goto(p, "fetch")
  /\ UNCHANGED <<now, published, copies, config>>

-----------------------------------------------------------------------------
(* Fetch, and keep a copy *)

\* Who has fetched r and is not done with it.
Storing(r) == {p \in Proc : /\ pc[p] \in {"list", "register", "store", "mark", "time"}
                            /\ Of(p) = r}

\* The bytes as they are at the source, or an error.  A dispatch keeps them as
\* they are, the others only once they have been parsed.
Fetch(p) ==
  LET r == Of(p) IN
  /\ pc[p] = "fetch"
  /\ \/ Done(p) /\ UNCHANGED raced
     \/ /\ Op(p) = "dispatch" \/ Parses(Rev(r))
        /\ got' = [got EXCEPT ![p] = Rev(r)]
        /\ raced' = IF r \in Local \/ Storing(r) = {} THEN raced
                    ELSE raced \cup {r}
        /\ pc' = [pc EXCEPT ![p] = IF Op(p) = "add" THEN "list" ELSE "store"]
        /\ UNCHANGED <<job, known>>
  /\ UNCHANGED <<now, published, copies, config, seen, overlapped>>

\* Mutant of Store: a dispatch that cannot keep a copy answers all the same.
StoreIfPossible(p) ==
  LET r == Of(p) IN
  /\ pc[p] = "store"
  /\ \/ /\ Op(p) = "dispatch"
        /\ Judge(p, got[p]) /\ Leave(p) /\ UNCHANGED cache
     \/ /\ Op(p) # "dispatch" /\ KeepHistory
        /\ Done(p) /\ UNCHANGED cache
     \/ /\ cache' = [cache EXCEPT ![r] = got[p]] /\ KeepHistory
        /\ Goto(p, "mark")
  /\ UNCHANGED <<now, published, mark, config>>

\* tmp + rename.
Store(p) ==
  LET r == Of(p) IN
  /\ pc[p] = "store"
  /\ \/ Done(p) /\ UNCHANGED cache
     \/ cache' = [cache EXCEPT ![r] = got[p]] /\ Goto(p, "mark")
  /\ UNCHANGED <<now, published, mark, config, history>>

\* fs::write truncates; it may fail before or after.
Mark(p) ==
  /\ pc[p] = "mark"
  /\ \/ Done(p) /\ UNCHANGED mark
     \/ mark' = [mark EXCEPT ![Of(p)] = Never] /\ Goto(p, "time")
  /\ UNCHANGED <<now, published, cache, config, history>>

\* The time is the one of the writing.  A dispatch then parses what it has
\* fetched.
Time(p) ==
  LET r == Of(p) IN
  /\ pc[p] = "time" /\ Done(p)
  /\ \/ KeepHistory /\ UNCHANGED mark
     \/ /\ mark' = [mark EXCEPT ![r] = now]
        /\ \/ Op(p) = "dispatch" /\ Judge(p, got[p])
           \/ Op(p) # "dispatch" /\ KeepHistory
  /\ UNCHANGED <<now, published, cache, config>>

-----------------------------------------------------------------------------
(* The list of registries *)

\* From here on an add answers OK, whether the copy can be kept or not.
Registered(p) == \/ Of(p) \in Remote /\ Goto(p, "store")
                 \/ Of(p) \in Local /\ Leave(p)

List(p) ==
  /\ pc[p] = "list"
  /\ \/ Of(p) \in config /\ Registered(p) /\ UNCHANGED overlapped
     \/ /\ Of(p) \notin config
        /\ pc' = [pc EXCEPT ![p] = "register"]
        /\ known' = [known EXCEPT ![p] = config] /\ UNCHANGED <<job, got>>
        /\ overlapped' = (overlapped \/ \E q \in Proc : pc[q] = "register")
  /\ UNCHANGED <<now, published, copies, config, seen, raced>>

\* Mutant of Register: the list is written without what was read.
RegisterAlone(p) ==
  /\ pc[p] = "register"
  /\ \/ Leave(p) /\ UNCHANGED config
     \/ config' = {Of(p)} /\ Registered(p)
  /\ UNCHANGED <<now, published, copies, history>>

\* tmp + rename of the whole file.
Register(p) ==
  /\ pc[p] = "register"
  /\ \/ Leave(p) /\ UNCHANGED config
     \/ config' = known[p] \cup {Of(p)} /\ Registered(p)
  /\ UNCHANGED <<now, published, copies, history>>

-----------------------------------------------------------------------------

\* The process dies.
Crash(p) ==
  /\ pc[p] # "idle" /\ Leave(p)
  /\ UNCHANGED <<now, published, copies, config, history>>

\* A home without registries, or one whose remote registries have been cached
\* by a clock that was ahead.
Init ==
  /\ now = 0
  /\ published = [r \in Ref |-> <<0>>]
  /\ \/ /\ config = {} /\ cache = [r \in Ref |-> 0]
        /\ mark = [r \in Ref |-> Never]
     \/ /\ config = Remote
        /\ cache = [r \in Ref |-> IF r \in Remote THEN 1 ELSE 0]
        /\ \E t \in 0 .. Ahead :
             mark = [r \in Ref |-> IF r \in Remote THEN t ELSE Never]
  /\ pc = [p \in Proc |-> "idle"] /\ job = [p \in Proc |-> NoJob]
  /\ got = [p \in Proc |-> 0] /\ known = [p \in Proc |-> {}]
  /\ seen = [r \in Ref |-> 0] /\ raced = {} /\ overlapped = FALSE

Step(p) ==
  \/ NextRef(p) \/ Look(p) \/ Read(p) \/ Fetch(p) \/ Store(p) \/ Mark(p)
  \/ Time(p) \/ List(p) \/ Register(p)

Next ==
  \/ Tick \/ Publish
  \/ \E p \in Proc : Dispatch(p) \/ Add(p) \/ Update(p) \/ Step(p) \/ Crash(p)

Spec == Init /\ [][Next]_vars

-----------------------------------------------------------------------------
(* Properties *)

\* How far behind its source an online dispatch may be: the term of a copy, the
\* time of the dispatch itself, and either by how much the clock was ahead when
\* the copy was made, or two calls: the one that fetched it, and another that was
\* storing at the same time and wrote its time.
Behind == Ttl + Slow + (IF Ahead > 2 * Slow THEN Ahead ELSE 2 * Slow)

\* For how long revision k of r has been replaced.
Lag(r, k) == IF k < Rev(r) THEN now - published[r][k + 1] ELSE 0

\* An online dispatch answers from, or refuses as malformed, a revision that
\* was the current one less than Behind ago, whatever processes store, fail and
\* die side by side; so what is repaired at its source is dispatched again
\* after that time.
FreshEnough ==
  [][\A p \in Proc :
       /\ Read(p) /\ cache[Of(p)] # 0 /\ ~job[p].offline
            => Lag(Of(p), cache[Of(p)]) < Behind
       /\ Time(p) /\ Op(p) = "dispatch" => Lag(Of(p), got[p]) < Behind]_vars

\* What a registry says to dispatches, online or offline, never goes back to
\* an earlier revision, unless two copies of it were under way at once.
NoRollback == [][\A r \in Ref : seen'[r] >= seen[r] \/ r \in raced]_vars

\* A registry that `add-registry` has registered stays registered, unless two
\* calls rewrote the list at once.
RegistrationsAreKept == [][config \subseteq config' \/ overlapped]_vars
=============================================================================
