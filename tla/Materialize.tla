----------------------------- MODULE Materialize -----------------------------
(***************************************************************************)
(* What FsContext (crates/tfs/src/context.rs) puts on the host so that the *)
(* operating system can load and execute what the mounts hold: single      *)
(* files with the libraries they link (dlmap2file), and the whole tree of  *)
(* a mount whose manifest says it is a tool home (exec_materialize).  Both *)
(* are remembered for the life of the process, over a mount table that     *)
(* changes.                                                                *)
(***************************************************************************)
EXTENDS Vfs

CONSTANTS
  Needs,       \* Needs[p]: the libraries the file at p names, where it looks
               \* for them
  LateMounts,  \* whether images are mounted, and united, once something has
               \* been extracted from the mounts there are; the driver mounts
               \* all of them before
  WriteFails   \* whether the host can refuse to store a file

ASSUME MaterializeAssumption ==
  /\ Needs \in [Path -> SUBSET Path]
  /\ LateMounts \in BOOLEAN /\ WriteFails \in BOOLEAN

VARIABLES
  dlCache,     \* the paths extracted, as the process remembers them
  dlFile,      \* dlFile[p]: the host file for p in the process's directory
  homeMemo,    \* handle -> whether that mount is a home, once asked
  homeTrees,   \* the homes that are extracted, as the process remembers them
  homeFile,    \* homeFile[h]: the host tree for h in the process's directory
  \* history
  answer,      \* the last answer: the path, the host file it names, and what
               \* the mounts serve there
  refused      \* whether the host has ever refused to store a file

dlVars   == <<dlCache, dlFile>>
homeVars == <<homeMemo, homeTrees, homeFile>>
vars     == <<vfsVars, dlVars, homeVars, answer, refused>>

NoAnswer == [kind |-> "none", path |-> Root, host |-> Absent, image |-> Absent]

EmptyTree == [p \in Path |-> Absent]

Handles == 0 .. MaxMount - 1

-----------------------------------------------------------------------------
(* The closure walk of extract_for_exec *)

Held(p) == Serve(p).kind = "File"

\* Mutant of Walk: the libraries of the libraries are left behind.
WalkDirect(p, failing) == ({p} \cup {d \in Needs[p] : Held(d)}) \ dlCache

\* What the walk from p tries to extract when the files of failing cannot be
\* stored: it goes on below a file it has stored, not below one that it finds
\* in the cache or that fails.  A library no mount holds is the host's.
Walk(p, failing) ==
  LET stored(q)  == q \notin dlCache /\ q \notin failing
      more(qs)   == qs \cup UNION {{d \in Needs[q] : Held(d)} :
                                     q \in {x \in qs : stored(x)}}
      reach[n \in 0 .. Cardinality(Path)] ==
        IF n = 0 THEN {p} ELSE more(reach[n - 1])
  IN reach[Cardinality(Path)] \ dlCache

\* Bound: a walk meets one file that the host refuses, at most.
Failing == {{}} \cup (IF WriteFails THEN {{p} : p \in Path} ELSE {})

\* dlmap2file on a path the cache has: the host file it has, whatever it is.
DlHit(p) ==
  /\ Covering(p) # {} /\ p \in dlCache
  /\ answer' = [kind |-> "dl", path |-> p, host |-> dlFile[p], image |-> Serve(p)]
  /\ UNCHANGED <<vfsVars, dlVars, refused>>

\* Mutant of DlMiss: what is tried is remembered before it is stored.
DlMissCachesFirst(p) ==
  /\ Held(p) /\ p \notin dlCache
  /\ \E failing \in Failing :
       LET tried == Walk(p, failing) IN
       /\ dlCache' = dlCache \cup tried
       /\ dlFile' = [q \in Path |-> IF q \notin tried THEN dlFile[q]
                                    ELSE IF q \in failing THEN Absent ELSE Serve(q)]
       /\ answer' = NoAnswer
  /\ UNCHANGED <<vfsVars, refused>>

\* On one it does not have: p and what it needs are streamed out; what cannot
\* be stored is removed, and only if that is p the call fails.
DlMiss(p) ==
  /\ Held(p) /\ p \notin dlCache
  /\ \E failing \in Failing :
       LET tried == Walk(p, failing) IN
       /\ dlCache' = dlCache \cup (tried \ failing)
       /\ dlFile' = [q \in Path |-> IF q \notin tried THEN dlFile[q]
                                    ELSE IF q \in failing THEN Absent
                                    ELSE Serve(q)]
       /\ answer' = IF p \in failing THEN NoAnswer
                    ELSE [kind |-> "dl", path |-> p, host |-> Serve(p),
                          image |-> Serve(p)]
       /\ refused' = (refused \/ tried \cap failing # {})
  /\ UNCHANGED vfsVars

Dlmap2file(p) == (DlHit(p) \/ DlMiss(p)) /\ UNCHANGED homeVars

-----------------------------------------------------------------------------
(* exec_materialize *)

\* mount_is_home, asked of the manifest once per handle.
IsHome(h) == IF h \in DOMAIN homeMemo THEN homeMemo[h]
             ELSE mounts[h].image.home = "yes"

Remember(h) == homeMemo' = With(homeMemo, h, IsHome(h))

HomeAnswer(p, tree) ==
  [kind |-> "home", path |-> p, host |-> tree[p], image |-> Serve(p)]

\* A home that was extracted before is not looked at again.
ExecHomeHit(p) ==
  LET h == FindMount(p) IN
  /\ Covering(p) # {} /\ IsHome(h) /\ p # mounts[h].point
  /\ h \in homeTrees
  /\ Remember(h)
  /\ answer' = HomeAnswer(p, homeFile[h])
  /\ UNCHANGED <<vfsVars, dlVars, homeTrees, homeFile, refused>>

\* The home is noted down as extracted, and then it is extracted.  Bound: an
\* extraction that fails lacks one entry, with what is below it.
ExecHomeMiss(p) ==
  LET h == FindMount(p) IN
  /\ Covering(p) # {} /\ IsHome(h) /\ p # mounts[h].point
  /\ h \notin homeTrees
  /\ Remember(h)
  /\ homeTrees' = homeTrees \cup {h}
  /\ \/ /\ homeFile' = [homeFile EXCEPT ![h] = mounts[h].image.tree]
        /\ answer' = HomeAnswer(p, mounts[h].image.tree)
        /\ UNCHANGED refused
     \/ /\ WriteFails
        /\ \E lost \in {q \in Path : Present(mounts[h].image.tree, q)} :
             homeFile' = [homeFile EXCEPT ![h] =
               [q \in Path |-> IF lost \in Anc[q] THEN Absent
                               ELSE mounts[h].image.tree[q]]]
        /\ answer' = NoAnswer /\ refused' = TRUE
  /\ UNCHANGED <<vfsVars, dlVars>>

\* Any other mount answers by the closure walk.
ExecClosure(p) ==
  /\ Covering(p) # {} /\ ~IsHome(FindMount(p)) /\ p # mounts[FindMount(p)].point
  /\ Remember(FindMount(p))
  /\ DlHit(p) \/ DlMiss(p)
  /\ UNCHANGED <<homeTrees, homeFile>>

\* The mount root is EISDIR, and what no mount holds is the host's; but the
\* manifest has been read by then.
ExecElsewhere(p) ==
  LET h == FindMount(p) IN
  /\ Covering(p) # {}
  /\ p = mounts[h].point \/ (~IsHome(h) /\ p \notin dlCache /\ ~Held(p))
  /\ Remember(h)
  /\ answer' = NoAnswer
  /\ UNCHANGED <<vfsVars, dlVars, homeTrees, homeFile, refused>>

Exec(p) ==
  ExecHomeHit(p) \/ ExecHomeMiss(p) \/ ExecClosure(p) \/ ExecElsewhere(p)

-----------------------------------------------------------------------------

Init ==
  /\ VfsInit
  /\ dlCache = {} /\ dlFile = EmptyTree
  /\ homeMemo = << >> /\ homeTrees = {}
  /\ homeFile = [h \in Handles |-> EmptyTree]
  /\ answer = NoAnswer
  /\ refused = FALSE

\* Mounting forgets nothing.
Mount ==
  /\ MakeMount
  /\ LateMounts \/ (dlCache = {} /\ homeTrees \cap DOMAIN mounts = {})
  /\ UNCHANGED <<dlVars, homeVars, refused>> /\ answer' = NoAnswer

\* Unmounting, one or all, empties the cache but leaves the files and what is
\* known of homes.
Drop ==
  /\ DropMount
  /\ dlCache' = {} /\ answer' = NoAnswer
  /\ UNCHANGED <<dlFile, homeVars, refused>>

Other == Use /\ UNCHANGED <<dlVars, homeVars, refused>> /\ answer' = NoAnswer

Next ==
  \/ Mount \/ Drop \/ Other
  \/ \E p \in Path : Dlmap2file(p) \/ Exec(p)

Spec == Init /\ [][Next]_vars

-----------------------------------------------------------------------------
(* Properties *)

\* dlmap2file answers with a whole copy of what the mounts serve at the path,
\* whatever the host refused before.  ("Serving [the cache] against a later
\* table would be a stale-extraction leak.")
DlAnswerIsImage == answer.kind = "dl" => answer.host = answer.image

\* exec_materialize answers with the host twin of the path, inside a tree
\* that was materialized whole.
HomeAnswerIsImage == answer.kind = "home" => answer.host = answer.image

\* It does as long as the host stores what it is given.
HomeAnswerIsImageUnlessRefused == ~refused => HomeAnswerIsImage

\* What is in the cache has every held library it needs beside it, "as real
\* files under the same root", as long as the host stored them.
ClosureIsThere ==
  ~refused => \A p \in dlCache : \A d \in Needs[p] : Held(d) => d \in dlCache
=============================================================================
