-------------------------------- MODULE Home --------------------------------
(***************************************************************************)
(* What a home holds as payloads come and go: their cached images, the     *)
(* mirrors of their manifests, the trees of their native programs and the  *)
(* shims of their commands.  `tebako install` (finish_install of           *)
(* crates/tebako-cli/src/install.rs) puts them there one after the other   *)
(* and then does the same, one level deeper, for every dependency nothing  *)
(* installed satisfies; `tebako uninstall` takes them away.  Shims carry   *)
(* no owner: a command is a link by that name.                             *)
(*                                                                         *)
(* The image itself, with its lock and its markers, is PayloadCache: here  *)
(* it is there or it is not.  An entry is one version of a payload.        *)
(***************************************************************************)
EXTENDS Naturals, FiniteSets, Sequences

CONSTANTS
  Proc,     \* the processes
  Entry,    \* the versions of payloads
  Name,     \* the names of payloads
  Command,  \* the commands, payload names among them
  NameOf,   \* NameOf[e]: the payload e is a version of
  Rank,     \* Rank[e]: the place of e among the versions of its payload
  Commands, \* Commands[e]: the commands e provides
  Edges,    \* Edges[e]: the dependencies of e, each as the set of the entries
            \*   of one payload that satisfy its constraint
  Offered,  \* the entries that exactly one registered registry lists
  Root,     \* the entries that users ask for
  MaxRemovals \* bound of the number of uninstalls

\* Of entries that are listed there is a newest.
ASSUME HomeAssumption ==
  /\ NameOf \in [Entry -> Name] /\ Name \subseteq Command /\ "none" \notin Command
  /\ Rank \in [Entry -> Nat]
  /\ \A e, f \in Entry : NameOf[e] = NameOf[f] /\ Rank[e] = Rank[f] => e = f
  /\ Commands \in [Entry -> SUBSET Command]
  /\ Edges \in [Entry -> SUBSET SUBSET Entry]
  /\ \A e \in Entry : \A g \in Edges[e] : \A f, h \in g : NameOf[f] = NameOf[h]
  /\ Offered \subseteq Entry /\ Root \subseteq Entry
  /\ \A S \in SUBSET Offered :
       S # {} => \E e \in S : \A f \in S : Rank[f] <= Rank[e]
  /\ MaxRemovals \in Nat

VARIABLES
  dirs,    \* the payloads with a directory, payloads/<name>
  tfs,     \* the entries whose image is there: these count as installed
  mirror,  \* the entries with a mirror of their manifest
  tree,    \* the entries whose native programs have been materialized
  shims,   \* the commands with a shim
  pc,      \* pc[p]: how far p's call is
  stack,   \* stack[p]: the entries p is installing, the one at work last, each
           \*   with the dependencies it has not looked at yet
  links,   \* links[p]: the commands p has still to link or to unlink
  link,    \* link[p]: the command whose link p has removed to replace it
  removing,\* removing[p]: the payload p uninstalls
  \* history
  ok,      \* the entries a call has answered OK for since the last uninstall
  beside,  \* the installers an uninstall has run beside
  lost,    \* the commands whose replacement was cut short
  failed,  \* an installer has failed or died
  torn,    \* an uninstall ran beside another call, or was cut short
  removals \* the number of uninstalls

store == <<dirs, tfs, mirror, tree, shims>>
call  == <<pc, stack, links, link, removing>>
history == <<ok, beside, lost, failed, torn, removals>>
vars  == <<store, call, history>>

Top(p) == stack[p][Len(stack[p])]
At(p) == Top(p).entry

Nothing == "none"

Satisfied(g) == g \cap tfs # {}

\* The newest of the versions a registry lists that satisfy a dependency.
Newest(g) == CHOOSE e \in g \cap Offered :
               \A f \in g \cap Offered : Rank[f] <= Rank[e]

Frame(e) == [entry |-> e, todo |-> Edges[e]]

-----------------------------------------------------------------------------
(* Control *)

Goto(p, at) == pc' = [pc EXCEPT ![p] = at] /\ UNCHANGED <<stack, links, link, removing>>

Leave(p) ==
  /\ pc' = [pc EXCEPT ![p] = "idle"]
  /\ stack' = [stack EXCEPT ![p] = <<>>]
  /\ links' = [links EXCEPT ![p] = {}]
  /\ link' = [link EXCEPT ![p] = Nothing]
  /\ removing' = [removing EXCEPT ![p] = Nothing]
  /\ beside' = beside \ {p}

\* An error at any depth is the answer of the whole call.
Fail(p) ==
  /\ Leave(p) /\ failed' = TRUE
  /\ lost' = lost \cup ({link[p]} \ {Nothing})
  /\ UNCHANGED <<ok, torn, removals>>

Installing == {p \in Proc : stack[p] # <<>>}

Removing == {p \in Proc : removing[p] # Nothing}

-----------------------------------------------------------------------------
(* Install: image, mirror, tree, shims, dependencies *)

Install(p) ==
  /\ pc[p] = "idle"
  /\ \E e \in Root : stack' = [stack EXCEPT ![p] = <<Frame(e)>>]
  /\ pc' = [pc EXCEPT ![p] = "cache"]
  /\ beside' = IF Removing = {} THEN beside ELSE beside \cup {p}
  /\ torn' = (torn \/ Removing # {})
  /\ UNCHANGED <<store, links, link, removing, ok, lost, failed, removals>>

\* Mutant: what is installed is taken to be installed completely.
CacheHitIsInstalled(p) ==
  /\ pc[p] = "cache" /\ UNCHANGED <<mirror, tree, shims, history>>
  /\ dirs' = dirs \cup {NameOf[At(p)]}
  /\ tfs' = tfs \cup {At(p)}
  /\ Goto(p, IF At(p) \in tfs THEN "edges" ELSE "mirror")

\* A hit, or a fetch; under the lock of its directory.
Cache(p) ==
  /\ pc[p] = "cache"
  /\ \/ /\ Fail(p)
        /\ dirs' \in {dirs, dirs \cup {NameOf[At(p)]}}
        /\ UNCHANGED tfs
     \/ /\ Goto(p, "mirror")
        /\ dirs' = dirs \cup {NameOf[At(p)]}
        /\ tfs' = tfs \cup {At(p)}
        /\ UNCHANGED history
  /\ UNCHANGED <<mirror, tree, shims>>

\* The manifest is read from the image, and refused when it is another's.
Mirror(p) ==
  /\ pc[p] = "mirror"
  /\ \/ Fail(p) /\ UNCHANGED mirror
     \/ /\ At(p) \in tfs
        /\ mirror' = mirror \cup {At(p)}
        /\ Goto(p, "tree") /\ UNCHANGED history
  /\ UNCHANGED <<dirs, tfs, tree, shims>>

Tree(p) ==
  /\ pc[p] = "tree"
  /\ \/ Fail(p) /\ UNCHANGED tree
     \/ /\ At(p) \in tfs
        /\ tree' = tree \cup {At(p)}
        /\ pc' = [pc EXCEPT ![p] = "link"]
        /\ links' = [links EXCEPT ![p] = Commands[At(p)]]
        /\ UNCHANGED <<stack, link, removing, history>>
  /\ UNCHANGED <<dirs, tfs, mirror, shims>>

\* What is there under the name of a command, whoever's it is, is removed, and
\* then the link is made.
Unlink(p) ==
  /\ pc[p] = "link" /\ links[p] # {}
  /\ \/ Fail(p) /\ UNCHANGED shims
     \/ \E c \in links[p] :
          /\ shims' = shims \ {c}
          /\ links' = [links EXCEPT ![p] = @ \ {c}]
          /\ link' = [link EXCEPT ![p] = c]
          /\ pc' = [pc EXCEPT ![p] = "relink"]
          /\ UNCHANGED <<stack, removing, history>>
  /\ UNCHANGED <<dirs, tfs, mirror, tree>>

Relink(p) ==
  /\ pc[p] = "relink"
  /\ \/ Fail(p) /\ UNCHANGED shims
     \/ /\ link[p] \notin shims
        /\ shims' = shims \cup {link[p]}
        /\ lost' = lost \ {link[p]}
        /\ link' = [link EXCEPT ![p] = Nothing]
        /\ pc' = [pc EXCEPT ![p] = "link"]
        /\ UNCHANGED <<stack, links, removing, ok, beside, failed, torn, removals>>
  /\ UNCHANGED <<dirs, tfs, mirror, tree>>

Linked(p) ==
  /\ pc[p] = "link" /\ links[p] = {}
  /\ Goto(p, "edges")
  /\ UNCHANGED <<store, history>>

\* Mutant: a dependency that is satisfied ends the loop over the dependencies.
EdgeBreaks(p) ==
  /\ pc[p] = "edges" /\ UNCHANGED store
  /\ \E g \in Top(p).todo :
       \/ /\ Satisfied(g)
          /\ stack' = [stack EXCEPT ![p][Len(stack[p])].todo = {}]
          /\ UNCHANGED <<pc, links, link, removing, history>>
       \/ /\ ~Satisfied(g) /\ g \cap Offered = {}
          /\ Fail(p)
       \/ /\ ~Satisfied(g) /\ g \cap Offered # {}
          /\ stack' = [stack EXCEPT ![p] =
               Append([@ EXCEPT ![Len(stack[p])].todo = @ \ {g}],
                      Frame(Newest(g)))]
          /\ pc' = [pc EXCEPT ![p] = "cache"]
          /\ UNCHANGED <<links, link, removing, history>>

\* Mutant: a payload that needs what nobody lists is installed again.
EdgeRetries(p) ==
  /\ pc[p] = "edges" /\ UNCHANGED <<store, links, link, removing, history>>
  /\ \E g \in Top(p).todo :
       IF Satisfied(g)
       THEN /\ stack' = [stack EXCEPT ![p][Len(stack[p])].todo = @ \ {g}]
            /\ UNCHANGED pc
       ELSE /\ pc' = [pc EXCEPT ![p] = "cache"]
            /\ stack' = [stack EXCEPT ![p] =
                 IF g \cap Offered = {} THEN @
                 ELSE Append([@ EXCEPT ![Len(stack[p])].todo = @ \ {g}],
                             Frame(Newest(g)))]

\* One dependency, looked at once: nothing to do when any version that
\* satisfies it is installed, an error when no registry lists one, or several
\* registries the payload; else an install of its own.
Edge(p) ==
  /\ pc[p] = "edges" /\ UNCHANGED store
  /\ \E g \in Top(p).todo :
       LET rest == [stack[p] EXCEPT ![Len(stack[p])].todo = @ \ {g}] IN
       \/ /\ Satisfied(g)
          /\ stack' = [stack EXCEPT ![p] = rest]
          /\ UNCHANGED <<pc, links, link, removing, history>>
       \/ /\ ~Satisfied(g) /\ g \cap Offered = {}
          /\ Fail(p)
       \/ /\ ~Satisfied(g) /\ g \cap Offered # {}
          /\ stack' = [stack EXCEPT ![p] = Append(rest, Frame(Newest(g)))]
          /\ pc' = [pc EXCEPT ![p] = "cache"]
          /\ UNCHANGED <<links, link, removing, history>>

\* All dependencies of the entry at work have been looked at.
Finish(p) ==
  /\ pc[p] = "edges" /\ Top(p).todo = {} /\ UNCHANGED store
  /\ \/ /\ Len(stack[p]) > 1
        /\ stack' = [stack EXCEPT ![p] = SubSeq(@, 1, Len(@) - 1)]
        /\ UNCHANGED <<pc, links, link, removing, history>>
     \/ /\ Len(stack[p]) = 1 /\ Leave(p)
        /\ ok' = IF p \in beside THEN ok ELSE ok \cup {At(p)}
        /\ UNCHANGED <<lost, failed, torn, removals>>

-----------------------------------------------------------------------------
(* Uninstall: the shims of every version, then the directory *)

\* Mutant: only the shim by the payload's own name.
NameAlone(n) == {n}

\* The commands of the versions whose mirror can be read, and the name.
CommandsOf(n) ==
  {n} \cup UNION {Commands[e] : e \in {f \in tfs \cap mirror : NameOf[f] = n}}

Uninstall(p) ==
  /\ pc[p] = "idle" /\ removals < MaxRemovals
  /\ \E n \in Name :
       /\ \E e \in tfs : NameOf[e] = n
       /\ removing' = [removing EXCEPT ![p] = n]
       /\ links' = [links EXCEPT ![p] = CommandsOf(n)]
  /\ pc' = [pc EXCEPT ![p] = "unlink"]
  /\ ok' = {} /\ beside' = beside \cup Installing
  /\ torn' = (torn \/ Installing # {} \/ Removing # {})
  /\ removals' = removals + 1
  /\ UNCHANGED <<store, stack, link, lost, failed>>

\* The uninstall ends, or ends early.
Stop(p) == Leave(p) /\ torn' = TRUE /\ UNCHANGED <<ok, lost, failed, removals>>

RemoveShim(p) ==
  /\ pc[p] = "unlink" /\ links[p] # {}
  /\ \/ Stop(p) /\ UNCHANGED shims
     \/ \E c \in links[p] :
          /\ shims' = shims \ {c} /\ links' = [links EXCEPT ![p] = @ \ {c}]
          /\ UNCHANGED <<pc, stack, link, removing, history>>
  /\ UNCHANGED <<dirs, tfs, mirror, tree>>

\* remove_dir_all: everything, or a part and an error.
RemoveDir(p) ==
  /\ pc[p] = "unlink" /\ links[p] = {} /\ UNCHANGED shims
  /\ LET mine == {e \in Entry : NameOf[e] = removing[p]} IN
     \/ /\ tfs' = tfs \ mine /\ mirror' = mirror \ mine /\ tree' = tree \ mine
        /\ dirs' = dirs \ {removing[p]}
        /\ Leave(p) /\ UNCHANGED <<ok, lost, failed, torn, removals>>
     \/ /\ \E gone \in SUBSET mine :
             \/ tfs' = tfs \ gone /\ UNCHANGED <<mirror, tree>>
             \/ mirror' = mirror \ gone /\ tree' = tree \ gone /\ UNCHANGED tfs
        /\ Stop(p) /\ UNCHANGED dirs

Crash(p) ==
  /\ pc[p] # "idle" /\ UNCHANGED store
  /\ \/ p \in Installing /\ Fail(p)
     \/ p \in Removing /\ Stop(p)

-----------------------------------------------------------------------------

Init ==
  /\ dirs = {} /\ tfs = {} /\ mirror = {} /\ tree = {} /\ shims = {}
  /\ pc = [p \in Proc |-> "idle"] /\ stack = [p \in Proc |-> <<>>]
  /\ links = [p \in Proc |-> {}] /\ link = [p \in Proc |-> Nothing]
  /\ removing = [p \in Proc |-> Nothing]
  /\ ok = {} /\ beside = {} /\ lost = {}
  /\ failed = FALSE /\ torn = FALSE /\ removals = 0

Step(p) ==
  \/ Cache(p) \/ Mirror(p) \/ Tree(p) \/ Unlink(p) \/ Relink(p) \/ Linked(p)
  \/ Edge(p) \/ Finish(p)

Remove(p) == RemoveShim(p) \/ RemoveDir(p)

Next == \E p \in Proc : \/ Install(p) \/ Step(p) \/ Uninstall(p) \/ Remove(p)
                        \/ Crash(p)

\* A process that installs goes on installing.
Spec == Init /\ [][Next]_vars /\ \A p \in Proc : WF_vars(Step(p))

-----------------------------------------------------------------------------
(* Dispatch: providing_payload of crates/tebako-shim/src/resolve.rs *)

\* The payloads that a shim takes for the provider of command c.
Providers(c) ==
  IF c \in dirs THEN {c}
  ELSE {NameOf[e] : e \in {f \in tfs \cap mirror : c \in Commands[f]}}

\* Nobody else may be taken for the provider of a command of e.
Unrivalled(c, e) ==
  /\ c \in Name \ {NameOf[e]} => c \notin dirs
  /\ \A f \in tfs : c \in Commands[f] => NameOf[f] = NameOf[e]

-----------------------------------------------------------------------------
(* Properties *)

\* After an install has answered OK, and until the next uninstall, whatever
\* other installs do, fail at, or die of: the payload is there with its mirror
\* and its tree, each of its dependencies is satisfied by something installed,
\* and its commands have shims (unless somebody is replacing one, or died of
\* it) that find it, unless another payload has a claim to the command.
OkMeansInstalled ==
  \A e \in ok :
    /\ e \in tfs \cap mirror \cap tree
    /\ \A g \in Edges[e] : Satisfied(g)
    /\ \A c \in Commands[e] :
         /\ c \in shims \cup lost \cup {link[p] : p \in Proc}
         /\ Unrivalled(c, e) => Providers(c) = {NameOf[e]}

\* As long as nobody fails, dies or uninstalls, whatever is installed is
\* complete down to its last dependency, or some installer still has it on its
\* stack: the answers OK of all of them together mean the whole closure.
MissingIsBeingInstalled ==
  ~failed /\ removals = 0 =>
    \A e \in tfs :
      \/ \E p \in Proc : \E i \in DOMAIN stack[p] : stack[p][i].entry = e
      \/ /\ e \in mirror \cap tree
         /\ \A g \in Edges[e] : Satisfied(g)

\* A shim belongs to an installed payload, as long as no uninstall ran beside
\* anything or was cut short.
ShimsHaveOwner ==
  ~torn /\ Removing = {} =>
    \A c \in shims : \E e \in tfs \cap mirror : c \in Commands[e]

\* Every install comes to an end, dependencies that need each other included.
EveryInstallReturns == \A p \in Proc : pc[p] = "cache" ~> pc[p] = "idle"
=============================================================================
