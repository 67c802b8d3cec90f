----------------------------- MODULE HomeProofs -----------------------------
(***************************************************************************)
(* Theorems about Home, for any payloads, dependencies, commands and       *)
(* processes.                                                              *)
(*                                                                         *)
(* What installers rely on grows: images, mirrors, trees, and the commands *)
(* that have a shim or of which somebody has just removed it to replace    *)
(* it.  Only an uninstall takes any of that away, and from then on nothing *)
(* is promised of the installers it has run beside.  Every other installer *)
(* has built what is below the entry at work completely, down to the       *)
(* dependency that this entry is installed for.                            *)
(***************************************************************************)
EXTENDS Home, SequenceTheorems, TLAPS

Where == {"idle", "cache", "mirror", "tree", "link", "relink", "edges", "unlink"}

Entries == [entry : Entry, todo : SUBSET SUBSET Entry]

TypeOK ==
  /\ dirs \subseteq Name /\ tfs \subseteq Entry /\ mirror \subseteq Entry
  /\ tree \subseteq Entry /\ shims \subseteq Command
  /\ pc \in [Proc -> Where] /\ stack \in [Proc -> Seq(Entries)]
  /\ links \in [Proc -> SUBSET Command] /\ link \in [Proc -> Command \cup {Nothing}]
  /\ removing \in [Proc -> Name \cup {Nothing}]
  /\ ok \subseteq Entry /\ beside \subseteq Proc /\ lost \subseteq Command
  /\ failed \in BOOLEAN /\ torn \in BOOLEAN /\ removals \in Nat

\* What each call has at each point.
Control(p) ==
  /\ pc[p] \in {"idle", "unlink"} <=> stack[p] = <<>>
  /\ pc[p] = "unlink" <=> removing[p] # Nothing
  /\ pc[p] \in {"cache", "mirror", "tree", "link", "relink"} =>
       Top(p).todo = Edges[At(p)]
  /\ pc[p] \in {"link", "relink"} => links[p] \subseteq Commands[At(p)]
  /\ pc[p] = "relink" => link[p] \in Commands[At(p)]
  /\ pc[p] # "relink" => link[p] = Nothing

Controlled == \A p \in Proc : Control(p)

\* An installer that an uninstall does not run beside has no uninstall beside it.
Apart ==
  /\ Removing # {} => ok = {} /\ Installing \subseteq beside
  /\ removals = 0 => Removing = {} /\ beside = {}
  /\ ~torn => beside = {}

\* A command that has a shim, has lost it, or is getting it.
Held(c) == c \in shims \cup lost \cup {link[p] : p \in Proc}

Built(e) == e \in tfs \cap mirror \cap tree /\ \A c \in Commands[e] : Held(c)

\* What is below the entry at work.
BuiltBelow(p) ==
  \A i \in 1 .. Len(stack[p]) :
    LET e == stack[p][i].entry IN
    i < Len(stack[p]) \/ pc[p] = "edges" =>
      /\ Built(e)
      /\ \A g \in Edges[e] \ stack[p][i].todo :
           Satisfied(g) \/ (i < Len(stack[p]) /\ stack[p][i + 1].entry \in g)

\* How far the entry at work is.
BuiltSoFar(p) ==
  /\ pc[p] \in {"tree", "link", "relink"} => At(p) \in tfs \cap mirror
  /\ pc[p] \in {"link", "relink"} =>
       /\ At(p) \in tree
       /\ \A c \in Commands[At(p)] \ links[p] : Held(c)

Stacks == \A p \in Proc \ beside : stack[p] # <<>> => BuiltBelow(p) /\ BuiltSoFar(p)

Answered == \A e \in ok : Built(e) /\ \A g \in Edges[e] : Satisfied(g)

HasOwner(c) == \E e \in tfs \cap mirror : c \in Commands[e]

HasOther(c, n) == \E e \in tfs \cap mirror : c \in Commands[e] /\ NameOf[e] # n

\* An uninstall has the home to itself, and what it has not to unlink belongs
\* to another payload.
Owned ==
  ~torn =>
    /\ Removing = {} => \A c \in shims : HasOwner(c)
    /\ \A p \in Removing :
         /\ \A q \in Proc \ {p} : pc[q] = "idle"
         /\ \A c \in shims \ links[p] : HasOther(c, removing[p])

OnStack(e) == \E p \in Proc : \E i \in DOMAIN stack[p] : stack[p][i].entry = e

Complete(e) == e \in mirror \cap tree /\ \A g \in Edges[e] : Satisfied(g)

IInv ==
  /\ TypeOK /\ Controlled /\ Apart /\ Stacks /\ Answered /\ Owned
  /\ MissingIsBeingInstalled

-----------------------------------------------------------------------------

LEMMA InitOK == Init => IInv
<1> SUFFICES ASSUME Init PROVE IInv
  OBVIOUS
<1>0. <<>> \in Seq(Entries) /\ "idle" \in Where
  BY DEF Where
<1>1. TypeOK
  BY <1>0 DEF Init, TypeOK
<1>2. Controlled /\ Removing = {} /\ Installing = {}
  BY DEF Init, Controlled, Control, Removing, Installing
<1> QED
  BY <1>1, <1>2 DEF Init, IInv, Apart, Stacks, Answered, Owned, MissingIsBeingInstalled

LEMMA Facts ==
  ASSUME IInv, NEW p \in Proc
  PROVE  /\ TypeOK /\ Control(p) /\ pc[p] \in Where
         /\ stack[p] \in Seq(Entries) /\ Len(stack[p]) \in Nat
         /\ links[p] \subseteq Command /\ link[p] \in Command \cup {Nothing}
         /\ removing[p] \in Name \cup {Nothing} /\ Nothing \notin Command
         /\ Nothing \notin Name
         /\ stack[p] # <<>> => /\ Len(stack[p]) > 0 /\ Len(stack[p]) \in DOMAIN stack[p]
                               /\ Top(p) \in Entries /\ At(p) \in Entry
         /\ stack[p] # <<>> <=> p \in Installing
         /\ removing[p] # Nothing <=> p \in Removing
<1>1. TypeOK /\ Control(p)
  BY DEF IInv, Controlled
<1>2. stack[p] \in Seq(Entries) /\ Len(stack[p]) \in Nat /\ pc[p] \in Where
  BY <1>1 DEF TypeOK
<1>3. ASSUME stack[p] # <<>>
      PROVE  /\ Len(stack[p]) > 0 /\ Len(stack[p]) \in DOMAIN stack[p]
             /\ Top(p) \in Entries /\ At(p) \in Entry
  <2>1. Len(stack[p]) > 0 /\ Len(stack[p]) \in DOMAIN stack[p]
    BY <1>2, <1>3
  <2>2. Top(p) \in Entries
    BY <1>2, <2>1 DEF Top
  <2> QED
    BY <2>1, <2>2 DEF At, Entries
<1>4. Nothing \notin Command /\ Nothing \notin Name
  BY HomeAssumption DEF Nothing
<1> QED
  BY <1>1, <1>2, <1>3, <1>4 DEF TypeOK, Installing, Removing

LEMMA EntryFacts ==
  ASSUME NEW e \in Entry
  PROVE  /\ Commands[e] \subseteq Command /\ Edges[e] \subseteq SUBSET Entry
         /\ NameOf[e] \in Name /\ NameOf[e] \in Command
BY HomeAssumption

-----------------------------------------------------------------------------
(* The steps of an installer that go on *)

Grows ==
  /\ tfs \subseteq tfs' /\ mirror \subseteq mirror' /\ tree \subseteq tree'
  /\ \A c \in Command : Held(c) => Held(c)'

LEMMA BuiltStays ==
  ASSUME Grows, NEW e \in Entry, Built(e) PROVE Built(e)'
BY EntryFacts DEF Grows, Built

LEMMA SatisfiedStays ==
  ASSUME Grows, NEW g, Satisfied(g) PROVE Satisfied(g)'
BY DEF Grows, Satisfied

\* Another installer's entries stay as they are.
LEMMA OthersStay ==
  ASSUME IInv, Grows, NEW q \in Proc \ beside, stack[q] # <<>>,
         pc'[q] = pc[q], stack'[q] = stack[q], links'[q] = links[q]
  PROVE  BuiltBelow(q)' /\ BuiltSoFar(q)'
<1>1. BuiltBelow(q) /\ BuiltSoFar(q)
  BY DEF IInv, Stacks
<1>2. stack[q] \in Seq(Entries) /\ Len(stack[q]) \in Nat
  BY Facts
<1>3. ASSUME NEW i \in 1 .. Len(stack[q]),
             i < Len(stack[q]) \/ pc[q] = "edges"
      PROVE  /\ Built(stack[q][i].entry)'
             /\ \A g \in Edges[stack[q][i].entry] \ stack[q][i].todo :
                  Satisfied(g)' \/ (i < Len(stack[q]) /\ stack[q][i + 1].entry \in g)
  <2>0. stack[q][i] \in Entries
    BY <1>2
  <2>1. stack[q][i].entry \in Entry
    BY <2>0 DEF Entries
  <2>2. /\ Built(stack[q][i].entry)
        /\ \A g \in Edges[stack[q][i].entry] \ stack[q][i].todo :
             Satisfied(g) \/ (i < Len(stack[q]) /\ stack[q][i + 1].entry \in g)
    BY <1>1, <1>3 DEF BuiltBelow
  <2> QED
    BY <2>1, <2>2, BuiltStays, SatisfiedStays
<1>4. BuiltBelow(q)'
  BY <1>3 DEF BuiltBelow
<1>5. At(q)' = At(q) /\ At(q) \in Entry
  BY Facts DEF At, Top
<1>6. \A c \in Commands[At(q)] \ links[q] : Held(c) => Held(c)'
  BY <1>5, EntryFacts DEF Grows
<1>7. BuiltSoFar(q)'
  BY <1>1, <1>5, <1>6 DEF BuiltSoFar, Grows
<1> QED
  BY <1>4, <1>7

\* What is needed of such a step, for the invariant.
Onward(p) ==
  /\ TypeOK' /\ Grows /\ Control(p)' /\ stack'[p] # <<>>
  /\ \A q \in Proc \ {p} : /\ pc'[q] = pc[q] /\ stack'[q] = stack[q]
                           /\ links'[q] = links[q] /\ link'[q] = link[q]
  /\ UNCHANGED <<removing, ok, beside, failed, torn, removals>>
  /\ p \notin beside => /\ BuiltBelow(p)' /\ BuiltSoFar(p)'
                        /\ \A c \in shims' \ shims : HasOwner(c)'
  /\ \A e \in tfs' \ tfs : \E i \in DOMAIN stack'[p] : stack'[p][i].entry = e
  /\ p \notin beside =>
       \A e \in Entry :
         (\E i \in DOMAIN stack[p] : stack[p][i].entry = e) =>
           (\E j \in DOMAIN stack'[p] : stack'[p][j].entry = e) \/ Complete(e)'

LEMMA OnwardOK ==
  ASSUME IInv, NEW p \in Proc, stack[p] # <<>>, Onward(p)
  PROVE  IInv'
<1>1. TypeOK /\ TypeOK' /\ Controlled /\ Apart /\ Stacks /\ Answered /\ Owned
  BY DEF IInv, Onward
<1>2. /\ Grows
      /\ UNCHANGED <<removing, ok, beside, failed, torn, removals>>
      /\ \A q \in Proc \ {p} : /\ pc'[q] = pc[q] /\ stack'[q] = stack[q]
                               /\ links'[q] = links[q] /\ link'[q] = link[q]
  BY DEF Onward
<1>3. Controlled'
  <2> SUFFICES ASSUME NEW q \in Proc PROVE Control(q)'
    BY DEF Controlled
  <2>1. CASE q = p
    BY <2>1 DEF Onward
  <2>2. CASE q # p
    BY <1>1, <1>2, <2>2 DEF Controlled, Control, At, Top
  <2> QED
    BY <2>1, <2>2
<1>4. Removing' = Removing /\ Installing' = Installing /\ p \in Installing
  <2>1. \A q \in Proc : stack'[q] # <<>> <=> stack[q] # <<>>
    BY <1>2 DEF Onward
  <2> QED
    BY <1>2, <2>1 DEF Removing, Installing
<1>5. Apart'
  BY <1>1, <1>2, <1>4 DEF Apart
<1>6. Stacks'
  <2> SUFFICES ASSUME NEW q \in Proc \ beside, stack'[q] # <<>>
               PROVE  BuiltBelow(q)' /\ BuiltSoFar(q)'
    BY <1>2 DEF Stacks
  <2>1. CASE q = p
    BY <2>1 DEF Onward
  <2>2. CASE q # p
    BY <1>2, <2>2, OthersStay
  <2> QED
    BY <2>1, <2>2
<1>7. Answered'
  <2> SUFFICES ASSUME NEW e \in ok PROVE Built(e)' /\ \A g \in Edges[e] : Satisfied(g)'
    BY <1>2 DEF Answered
  <2>1. e \in Entry /\ Built(e) /\ \A g \in Edges[e] : Satisfied(g)
    BY <1>1 DEF TypeOK, Answered
  <2> QED
    BY <1>2, <2>1, BuiltStays, SatisfiedStays
<1>8. Owned'
  <2> SUFFICES ASSUME ~torn PROVE /\ Removing = {} => \A c \in shims' : HasOwner(c)'
                                  /\ Removing = {}
    BY <1>2, <1>4 DEF Owned
  <2>1. beside = {} /\ Removing = {}
    BY <1>1, <1>4 DEF Apart
  <2>2. \A c \in shims : HasOwner(c)'
    BY <1>1, <1>2, <2>1 DEF Owned, HasOwner, Grows
  <2>3. \A c \in shims' \ shims : HasOwner(c)'
    BY <2>1 DEF Onward
  <2> QED
    BY <2>1, <2>2, <2>3
<1>9. MissingIsBeingInstalled'
  <2> SUFFICES ASSUME ~failed, removals = 0, NEW e \in tfs'
               PROVE  OnStack(e)' \/ Complete(e)'
    BY <1>2 DEF MissingIsBeingInstalled, OnStack, Complete
  <2>1. beside = {}
    BY <1>1 DEF Apart
  <2>2. CASE e \notin tfs
    BY <2>2 DEF Onward, OnStack
  <2>3. CASE e \in tfs
    <3>1. OnStack(e) \/ Complete(e)
      BY <2>3 DEF IInv, MissingIsBeingInstalled, OnStack, Complete
    <3>2. CASE Complete(e)
      BY <1>2, <3>2, SatisfiedStays DEF Complete, Grows
    <3>3. ASSUME NEW q \in Proc, NEW i \in DOMAIN stack[q], stack[q][i].entry = e
          PROVE  OnStack(e)' \/ Complete(e)'
      <4>1. CASE q = p
        <5>1. /\ i \in DOMAIN stack[p] /\ stack[p][i].entry = e /\ p \notin beside
              /\ e \in Entry
          BY <1>1, <2>1, <2>3, <3>3, <4>1 DEF TypeOK
        <5>2. \/ \E j \in DOMAIN stack'[p] : stack'[p][j].entry = e
              \/ Complete(e)'
          BY <5>1 DEF Onward
        <5> QED
          BY <5>2 DEF OnStack
      <4>2. CASE q # p
        BY <1>2, <3>3, <4>2 DEF OnStack
      <4> QED
        BY <4>1, <4>2
    <3> QED
      BY <3>1, <3>2, <3>3 DEF OnStack
  <2> QED
    BY <2>2, <2>3
<1> QED
  BY <1>1, <1>3, <1>5, <1>6, <1>7, <1>8, <1>9 DEF IInv

\* A step of p that leaves its stack as it is, from one point to another.
LEMMA PlainOnward ==
  ASSUME IInv, NEW p \in Proc, stack[p] # <<>>, NEW at \in {"mirror", "tree", "link", "relink", "edges"},
         pc' = [pc EXCEPT ![p] = at], stack' = stack, Grows,
         NEW L \in SUBSET Command, links' = [links EXCEPT ![p] = L],
         NEW c \in Command \cup {Nothing}, link' = [link EXCEPT ![p] = c],
         at \in {"link", "relink"} => L \subseteq Commands[At(p)],
         IF at = "relink" THEN c \in Commands[At(p)] ELSE c = Nothing,
         pc[p] # "edges",
         UNCHANGED <<removing, ok, beside, failed, torn, removals>>,
         dirs' \subseteq Name, tfs' \subseteq tfs \cup {At(p)},
         mirror' \subseteq Entry, tree' \subseteq Entry, shims' \subseteq Command,
         lost' \subseteq Command,
         p \notin beside => /\ at = "edges" => Built(At(p))'
                            /\ BuiltSoFar(p)'
                            /\ \A d \in shims' \ shims : HasOwner(d)'
  PROVE  IInv'
<1>1. TypeOK /\ Control(p) /\ At(p) \in Entry /\ at \in Where
      /\ Len(stack[p]) \in DOMAIN stack[p]
  BY Facts DEF Where
<1>2. TypeOK'
  BY <1>1 DEF TypeOK
<1>3. /\ pc'[p] = at /\ links'[p] = L /\ link'[p] = c /\ stack'[p] = stack[p]
      /\ At(p)' = At(p) /\ Top(p)' = Top(p)
  BY <1>1 DEF TypeOK, At, Top
<1>4. Control(p)'
  <2>1. Top(p).todo = Edges[At(p)] /\ removing[p] = Nothing
    BY <1>1 DEF Control, Where, TypeOK
  <2> QED
    BY <1>3, <2>1 DEF Control
<1>5. ASSUME p \notin beside PROVE BuiltBelow(p)'
  <2> SUFFICES ASSUME NEW i \in 1 .. Len(stack[p]), NEW e, e = stack[p][i].entry,
                      i < Len(stack[p]) \/ at = "edges"
               PROVE  /\ Built(e)'
                      /\ \A g \in Edges[e] \ stack[p][i].todo :
                           Satisfied(g)' \/ (i < Len(stack[p]) /\ stack[p][i + 1].entry \in g)
    <3>1. \A i \in 1 .. Len(stack[p]) : i < Len(stack[p]) \/ at = "edges" =>
            /\ Built(stack[p][i].entry)'
            /\ \A g \in Edges[stack[p][i].entry] \ stack[p][i].todo :
                 Satisfied(g)' \/ (i < Len(stack[p]) /\ stack[p][i + 1].entry \in g)
      BY <1>3 DEF Built
    <3> QED
      BY <1>3, <3>1 DEF BuiltBelow
  <2>1. stack[p][i] \in Entries /\ e \in Entry /\ Len(stack[p]) \in Nat
    <3>1. stack[p][i] \in Entries /\ Len(stack[p]) \in Nat
      BY Facts
    <3> QED
      BY <3>1 DEF Entries
  <2>2. CASE i < Len(stack[p])
    <3>1. /\ Built(e)
          /\ \A g \in Edges[e] \ stack[p][i].todo :
               Satisfied(g) \/ stack[p][i + 1].entry \in g
      BY <1>5, <2>2 DEF IInv, Stacks, BuiltBelow
    <3>2. Built(e)'
      BY <2>1, <3>1, BuiltStays
    <3> QED
      BY <2>2, <3>1, <3>2, SatisfiedStays
  <2>3. CASE i = Len(stack[p]) /\ at = "edges"
    <3>1. e = At(p) /\ stack[p][i].todo = Edges[At(p)]
      <4>1. Top(p).todo = Edges[At(p)]
        BY <1>1, <2>3 DEF Control, Where, TypeOK
      <4> QED
        BY <2>3, <4>1 DEF At, Top
    <3>2. Built(e)'
      BY <1>3, <1>5, <2>3, <3>1 DEF Built
    <3> QED
      BY <3>1, <3>2
  <2> QED
    BY <2>1, <2>2, <2>3
<1>6. \A e \in tfs' \ tfs : \E i \in DOMAIN stack'[p] : stack'[p][i].entry = e
  BY <1>1, <1>3 DEF At, Top
<1>7. /\ stack'[p] # <<>>
      /\ \A q \in Proc \ {p} : /\ pc'[q] = pc[q] /\ stack'[q] = stack[q]
                               /\ links'[q] = links[q] /\ link'[q] = link[q]
  BY <1>1 DEF TypeOK
<1>8. Onward(p)
  BY <1>2, <1>3, <1>4, <1>5, <1>6, <1>7 DEF Onward
<1> QED
  BY <1>8, OnwardOK

LEMMA SameHeld ==
  ASSUME tfs \subseteq tfs', mirror \subseteq mirror', tree \subseteq tree',
         UNCHANGED <<shims, lost, link>>
  PROVE  Grows
BY DEF Grows, Held

LEMMA MirrorOK ==
  ASSUME IInv, NEW p \in Proc, pc[p] = "mirror", At(p) \in tfs,
         mirror' = mirror \cup {At(p)}, Goto(p, "tree"),
         UNCHANGED <<history, dirs, tfs, tree, shims>>
  PROVE  IInv'
<1>1. TypeOK /\ Control(p) /\ stack[p] # <<>> /\ At(p) \in Entry /\ link[p] = Nothing
  BY Facts DEF Control
<1>2. /\ pc' = [pc EXCEPT ![p] = "tree"] /\ stack' = stack
      /\ links' = [links EXCEPT ![p] = links[p]] /\ link' = [link EXCEPT ![p] = link[p]]
  BY <1>1 DEF Goto, TypeOK
<1>3. Grows
  BY SameHeld DEF Goto, history
<1>4. BuiltSoFar(p)'
  BY <1>1, <1>2 DEF BuiltSoFar, TypeOK, At, Top
<1>5. /\ links[p] \in SUBSET Command /\ Nothing \in Command \cup {Nothing}
      /\ dirs' \subseteq Name /\ tfs' \subseteq tfs \cup {At(p)} /\ mirror' \subseteq Entry
      /\ tree' \subseteq Entry /\ shims' \subseteq Command /\ lost' \subseteq Command
      /\ UNCHANGED <<removing, ok, beside, failed, torn, removals>> /\ shims' = shims
  BY <1>1, <1>3 DEF TypeOK, history, Goto
<1> QED
  BY <1>1, <1>2, <1>3, <1>4, <1>5, PlainOnward

LEMMA CacheOK ==
  ASSUME IInv, NEW p \in Proc, pc[p] = "cache", Goto(p, "mirror"),
         dirs' = dirs \cup {NameOf[At(p)]}, tfs' = tfs \cup {At(p)},
         UNCHANGED <<history, mirror, tree, shims>>
  PROVE  IInv'
<1>1. TypeOK /\ Control(p) /\ stack[p] # <<>> /\ At(p) \in Entry /\ link[p] = Nothing
  BY Facts DEF Control
<1>2. /\ pc' = [pc EXCEPT ![p] = "mirror"] /\ stack' = stack
      /\ links' = [links EXCEPT ![p] = links[p]] /\ link' = [link EXCEPT ![p] = link[p]]
  BY <1>1 DEF Goto, TypeOK
<1>3. Grows /\ dirs' \subseteq Name
  BY <1>1, SameHeld, EntryFacts DEF Goto, history, TypeOK
<1>4. BuiltSoFar(p)'
  BY <1>1, <1>2 DEF BuiltSoFar, TypeOK
<1>5. /\ links[p] \in SUBSET Command /\ Nothing \in Command \cup {Nothing}
      /\ dirs' \subseteq Name /\ tfs' \subseteq tfs \cup {At(p)} /\ mirror' \subseteq Entry
      /\ tree' \subseteq Entry /\ shims' \subseteq Command /\ lost' \subseteq Command
      /\ UNCHANGED <<removing, ok, beside, failed, torn, removals>> /\ shims' = shims
  BY <1>1, <1>3 DEF TypeOK, history, Goto
<1> QED
  BY <1>1, <1>2, <1>3, <1>4, <1>5, PlainOnward

LEMMA TreeOK ==
  ASSUME IInv, NEW p \in Proc, pc[p] = "tree",
         tree' = tree \cup {At(p)}, pc' = [pc EXCEPT ![p] = "link"],
         links' = [links EXCEPT ![p] = Commands[At(p)]],
         UNCHANGED <<stack, link, removing, history, dirs, tfs, mirror, shims>>
  PROVE  IInv'
<1>1. TypeOK /\ Control(p) /\ stack[p] # <<>> /\ At(p) \in Entry /\ link[p] = Nothing
  BY Facts DEF Control
<1>2. link' = [link EXCEPT ![p] = Nothing] /\ Commands[At(p)] \in SUBSET Command
  BY <1>1, EntryFacts DEF TypeOK
<1>3. Grows
  BY SameHeld DEF history
<1>4. ASSUME p \notin beside PROVE BuiltSoFar(p)'
  <2>1. At(p) \in tfs \cap mirror
    BY <1>1, <1>4 DEF IInv, Stacks, BuiltSoFar
  <2>2. links'[p] = Commands[At(p)] /\ pc'[p] = "link" /\ At(p)' = At(p)
    BY <1>1 DEF TypeOK, At, Top
  <2> QED
    BY <2>1, <2>2 DEF BuiltSoFar
<1>5. /\ Nothing \in Command \cup {Nothing}
      /\ dirs' \subseteq Name /\ tfs' \subseteq tfs \cup {At(p)} /\ mirror' \subseteq Entry
      /\ tree' \subseteq Entry /\ shims' \subseteq Command /\ lost' \subseteq Command
      /\ UNCHANGED <<removing, ok, beside, failed, torn, removals>> /\ shims' = shims
  BY <1>1 DEF TypeOK, history
<1> DEFINE L == Commands[At(p)]
<1>6. /\ L \in SUBSET Command /\ links' = [links EXCEPT ![p] = L] /\ stack' = stack
      /\ pc' = [pc EXCEPT ![p] = "link"] /\ L \subseteq Commands[At(p)]
  BY <1>2
<1>7. p \notin beside => /\ "link" = "edges" => Built(At(p))'
                         /\ BuiltSoFar(p)'
                         /\ \A d \in shims' \ shims : HasOwner(d)'
  BY <1>4, <1>5
<1>8. pc[p] # "edges" /\ "link" \in {"mirror", "tree", "link", "relink", "edges"}
  OBVIOUS
<1> HIDE DEF L
<1> QED
  BY <1>1, <1>2, <1>3, <1>5, <1>6, <1>7, <1>8, PlainOnward

LEMMA UnlinkOK ==
  ASSUME IInv, NEW p \in Proc, pc[p] = "link", NEW c \in links[p],
         shims' = shims \ {c}, links' = [links EXCEPT ![p] = @ \ {c}],
         link' = [link EXCEPT ![p] = c], pc' = [pc EXCEPT ![p] = "relink"],
         UNCHANGED <<stack, removing, history, dirs, tfs, mirror, tree>>
  PROVE  IInv'
<1>1. /\ TypeOK /\ Control(p) /\ stack[p] # <<>> /\ At(p) \in Entry
      /\ link[p] = Nothing /\ Nothing \notin Command /\ links[p] \subseteq Command
      /\ c \in Commands[At(p)] /\ links[p] \subseteq Commands[At(p)]
  BY Facts DEF Control
<1>2. links' = [links EXCEPT ![p] = links[p] \ {c}]
  OBVIOUS
<1>3. /\ link'[p] = c /\ \A q \in Proc \ {p} : link'[q] = link[q]
      /\ links'[p] = links[p] \ {c} /\ pc'[p] = "relink" /\ At(p)' = At(p)
  BY <1>1 DEF TypeOK, At, Top
<1>4. \A d \in Command : Held(d) => Held(d)'
  BY <1>1, <1>3 DEF Held, history
<1>5. Grows
  BY <1>4 DEF Grows
<1>6. ASSUME p \notin beside PROVE BuiltSoFar(p)'
  <2>1. /\ At(p) \in tfs \cap mirror /\ At(p) \in tree
        /\ \A d \in Commands[At(p)] \ links[p] : Held(d)
    BY <1>1, <1>6 DEF IInv, Stacks, BuiltSoFar
  <2>2. Held(c)'
    BY <1>3 DEF Held
  <2>3. \A d \in Commands[At(p)] \ (links[p] \ {c}) : Held(d)'
    BY <1>1, <1>4, <2>1, <2>2, EntryFacts
  <2> QED
    BY <1>3, <2>1, <2>3 DEF BuiltSoFar
<1> QED
  BY <1>1, <1>2, <1>5, <1>6, PlainOnward DEF TypeOK, history

LEMMA RelinkOK ==
  ASSUME IInv, NEW p \in Proc, pc[p] = "relink",
         shims' = shims \cup {link[p]}, lost' = lost \ {link[p]},
         link' = [link EXCEPT ![p] = Nothing], pc' = [pc EXCEPT ![p] = "link"],
         UNCHANGED <<stack, links, removing, ok, beside, failed, torn, removals,
                     dirs, tfs, mirror, tree>>
  PROVE  IInv'
<1>1. /\ TypeOK /\ Control(p) /\ stack[p] # <<>> /\ At(p) \in Entry
      /\ link[p] \in Commands[At(p)] /\ links[p] \subseteq Commands[At(p)]
      /\ link[p] \in Command /\ Nothing \notin Command
  BY Facts, EntryFacts DEF Control
<1>2. links' = [links EXCEPT ![p] = links[p]]
  BY <1>1 DEF TypeOK
<1>3. /\ link'[p] = Nothing /\ \A q \in Proc \ {p} : link'[q] = link[q]
      /\ links'[p] = links[p] /\ pc'[p] = "link" /\ At(p)' = At(p)
  BY <1>1 DEF TypeOK, At, Top
<1>4. \A d \in Command : Held(d) => Held(d)'
  BY <1>1, <1>3 DEF Held
<1>5. Grows
  BY <1>4 DEF Grows
<1>6. ASSUME p \notin beside PROVE BuiltSoFar(p)' /\ \A d \in shims' \ shims : HasOwner(d)'
  <2>1. /\ At(p) \in tfs \cap mirror /\ At(p) \in tree
        /\ \A d \in Commands[At(p)] \ links[p] : Held(d)
    BY <1>1, <1>6 DEF IInv, Stacks, BuiltSoFar
  <2>2. \A d \in Commands[At(p)] \ links[p] : Held(d)'
    BY <1>1, <1>4, <2>1, EntryFacts
  <2> QED
    BY <1>1, <1>3, <2>1, <2>2 DEF BuiltSoFar, HasOwner
<1> QED
  BY <1>1, <1>2, <1>5, <1>6, PlainOnward DEF TypeOK

LEMMA LinkedOK ==
  ASSUME IInv, NEW p \in Proc, Linked(p)
  PROVE  IInv'
<1>1. /\ TypeOK /\ Control(p) /\ stack[p] # <<>> /\ At(p) \in Entry /\ link[p] = Nothing
      /\ pc[p] = "link" /\ links[p] = {}
  BY Facts DEF Control, Linked
<1>2. /\ pc' = [pc EXCEPT ![p] = "edges"] /\ stack' = stack
      /\ links' = [links EXCEPT ![p] = links[p]] /\ link' = [link EXCEPT ![p] = link[p]]
  BY <1>1 DEF Goto, Linked, TypeOK
<1>3. Grows
  BY SameHeld DEF Linked, Goto, history, store
<1>4. At(p)' = At(p) /\ pc'[p] = "edges"
  BY <1>1, <1>2 DEF At, Top, TypeOK
<1>5. ASSUME p \notin beside PROVE Built(At(p))' /\ BuiltSoFar(p)'
  <2>1. Built(At(p))
    BY <1>1, <1>5 DEF IInv, Stacks, BuiltSoFar, Built
  <2>2. Built(At(p))'
    BY <1>1, <1>3, <1>4, <2>1, BuiltStays DEF Built
  <2> QED
    BY <1>4, <2>2 DEF BuiltSoFar
<1> QED
  BY <1>1, <1>2, <1>3, <1>5, PlainOnward DEF TypeOK, history, Goto, Linked, store

-----------------------------------------------------------------------------
(* The dependencies *)

Rest(s, g) == [s EXCEPT ![Len(s)].todo = @ \ {g}]

\* r is the stack s with the edge g of its top frame done.
RestOf(r, s, g) ==
  /\ r \in Seq(Entries) /\ Len(r) = Len(s) /\ Len(s) \in Nat \ {0}
  /\ \A i \in 1 .. Len(s) :
       /\ r[i].entry = s[i].entry /\ s[i] \in Entries
       /\ r[i].todo = IF i = Len(s) THEN s[i].todo \ {g} ELSE s[i].todo

LEMMA RestFacts ==
  ASSUME NEW s \in Seq(Entries), s # <<>>, NEW g
  PROVE  RestOf(Rest(s, g), s, g)
<1> DEFINE n == Len(s)
           r == Rest(s, g)
<1>1. n \in Nat \ {0} /\ n \in 1 .. n /\ DOMAIN s = 1 .. n
  BY EmptySeq
<1>2. \A i \in 1 .. n : s[i] \in Entries
  BY <1>1
<1>3. r = [s EXCEPT ![n] = [s[n] EXCEPT !.todo = s[n].todo \ {g}]]
  BY <1>1 DEF Rest
<1>4. [s[n] EXCEPT !.todo = s[n].todo \ {g}] \in Entries
  BY <1>1, <1>2 DEF Entries
<1>5. /\ r \in Seq(Entries) /\ Len(r) = n
      /\ \A i \in 1 .. n :
           r[i] = IF i = n THEN [s[n] EXCEPT !.todo = s[n].todo \ {g}] ELSE s[i]
  BY <1>1, <1>3, <1>4, ExceptSeq
<1>6. \A i \in 1 .. n :
         /\ r[i].entry = s[i].entry
         /\ r[i].todo = IF i = n THEN s[i].todo \ {g} ELSE s[i].todo
  BY <1>1, <1>2, <1>5 DEF Entries
<1> QED
  BY <1>1, <1>2, <1>5, <1>6 DEF RestOf

Sound(s, at) ==
  \A i \in 1 .. Len(s) :
    i < Len(s) \/ at = "edges" =>
      /\ Built(s[i].entry)
      /\ \A g \in Edges[s[i].entry] \ s[i].todo :
           Satisfied(g) \/ (i < Len(s) /\ s[i + 1].entry \in g)

LEMMA StackOK ==
  ASSUME IInv, NEW p \in Proc, pc[p] = "edges", NEW at \in {"cache", "edges"},
         NEW s \in Seq(Entries), s # <<>>,
         stack' = [stack EXCEPT ![p] = s], pc' = [pc EXCEPT ![p] = at],
         UNCHANGED <<store, links, link, removing, history>>,
         at = "cache" => s[Len(s)].todo = Edges[s[Len(s)].entry],
         p \notin beside => Sound(s, at),
         p \notin beside =>
           \A e \in Entry : (\E i \in DOMAIN stack[p] : stack[p][i].entry = e) =>
             (\E i \in DOMAIN s : s[i].entry = e) \/ Complete(e)
  PROVE  IInv'
<1>1. /\ TypeOK /\ Control(p) /\ stack[p] # <<>> /\ at \in Where
      /\ link[p] = Nothing /\ removing[p] = Nothing
  BY Facts DEF Control, Where
<1>2. UNCHANGED <<dirs, tfs, mirror, tree, shims, ok, beside, lost, failed, torn, removals>>
  BY DEF store, history
<1>3. TypeOK'
  BY <1>1, <1>2 DEF TypeOK
<1>4. stack'[p] = s /\ pc'[p] = at
  BY <1>1 DEF TypeOK
<1>5. Control(p)'
  BY <1>1, <1>4 DEF Control, At, Top
<1>6. Grows
  BY <1>2, SameHeld
<1>7. ASSUME p \notin beside PROVE BuiltBelow(p)' /\ BuiltSoFar(p)'
  <2>1. \A e : Built(e) <=> Built(e)'
    BY <1>2 DEF Built, Held
  <2>2. \A g : Satisfied(g) <=> Satisfied(g)'
    BY <1>2 DEF Satisfied
  <2>3. ASSUME NEW i \in 1 .. Len(s), i < Len(s) \/ at = "edges"
        PROVE  /\ Built(stack[p][i].entry)'
               /\ \A g \in Edges[s[i].entry] \ s[i].todo :
                    Satisfied(g)' \/ (i < Len(s) /\ s[i + 1].entry \in g)
    <3>1. /\ Built(s[i].entry)
          /\ \A g \in Edges[s[i].entry] \ s[i].todo :
               Satisfied(g) \/ (i < Len(s) /\ s[i + 1].entry \in g)
      BY <1>7, <2>3 DEF Sound
    <3>2. Built(s[i].entry)' /\ s = stack'[p]
      BY <1>4, <2>1, <3>1
    <3> QED
      BY <2>2, <3>1, <3>2 DEF Built
  <2> QED
    BY <1>4, <2>3 DEF BuiltBelow, BuiltSoFar
<1>8. \A e : Complete(e) => Complete(e)'
  BY <1>2 DEF Complete, Satisfied
<1>9. /\ \A q \in Proc \ {p} : /\ pc'[q] = pc[q] /\ stack'[q] = stack[q]
                               /\ links'[q] = links[q] /\ link'[q] = link[q]
      /\ stack'[p] # <<>>
  BY <1>1, <1>4 DEF TypeOK
<1>10. Onward(p)
  BY <1>2, <1>3, <1>4, <1>5, <1>6, <1>7, <1>8, <1>9 DEF Onward
<1> QED
  BY <1>1, <1>10, OnwardOK

\* What is known of the stack of an installer that looks at its dependencies.
LEMMA SoundNow ==
  ASSUME IInv, NEW p \in Proc \ beside, pc[p] = "edges"
  PROVE  Sound(stack[p], "edges")
<1>1. stack[p] # <<>>
  BY Facts DEF Control
<1> QED
  BY <1>1 DEF IInv, Stacks, BuiltBelow, Sound

LEMMA NewestListed ==
  ASSUME NEW g, g \cap Offered # {} PROVE Newest(g) \in g \cap Offered
<1>1. g \cap Offered \in SUBSET Offered /\ \A f \in g \cap Offered : f \in Entry
  BY HomeAssumption
<1>2. \E e \in g \cap Offered : \A f \in g \cap Offered : Rank[f] <= Rank[e]
  BY <1>1, HomeAssumption
<1> QED
  BY <1>2 DEF Newest

LEMMA SatisfiedOK ==
  ASSUME IInv, NEW p \in Proc, pc[p] = "edges", NEW g, Satisfied(g),
         stack' = [stack EXCEPT ![p] = [stack[p] EXCEPT ![Len(stack[p])].todo = @ \ {g}]],
         UNCHANGED <<store, pc, links, link, removing, history>>
  PROVE  IInv'
<1> DEFINE r == Rest(stack[p], g)
<1>1. TypeOK /\ stack[p] \in Seq(Entries) /\ stack[p] # <<>>
  BY Facts DEF Control
<1>2. /\ r \in Seq(Entries) /\ Len(r) = Len(stack[p]) /\ Len(stack[p]) \in Nat \ {0}
      /\ \A i \in 1 .. Len(stack[p]) :
           /\ r[i].entry = stack[p][i].entry /\ stack[p][i] \in Entries
           /\ r[i].todo = IF i = Len(stack[p]) THEN stack[p][i].todo \ {g} ELSE stack[p][i].todo
  <2>1. RestOf(r, stack[p], g)
    BY <1>1, RestFacts
  <2> HIDE DEF r
  <2> QED
    BY <2>1 DEF RestOf
<1> HIDE DEF r
<1>3. r # <<>> /\ DOMAIN r = 1 .. Len(stack[p]) /\ DOMAIN stack[p] = 1 .. Len(stack[p])
  BY <1>1, <1>2
<1>4. ASSUME p \notin beside PROVE Sound(r, "edges")
  <2> SUFFICES ASSUME NEW i \in 1 .. Len(stack[p])
               PROVE  /\ Built(r[i].entry)
                      /\ \A f \in Edges[r[i].entry] \ r[i].todo :
                           Satisfied(f) \/ (i < Len(stack[p]) /\ r[i + 1].entry \in f)
    BY <1>2 DEF Sound
  <2>1. /\ Built(r[i].entry)
        /\ \A f \in Edges[r[i].entry] \ stack[p][i].todo :
             Satisfied(f) \/ (i < Len(stack[p]) /\ stack[p][i + 1].entry \in f)
    BY <1>2, <1>4, SoundNow DEF Sound
  <2>2. ASSUME i < Len(stack[p]) PROVE r[i + 1].entry = stack[p][i + 1].entry
    <3>1. i + 1 \in 1 .. Len(stack[p])
      BY <1>2, <2>2
    <3> QED
      BY <1>2, <3>1
  <2>3. r[i].todo = stack[p][i].todo \ {g} \/ r[i].todo = stack[p][i].todo
    BY <1>2
  <2> QED
    BY <2>1, <2>2, <2>3
<1>5. stack' = [stack EXCEPT ![p] = r] /\ pc' = [pc EXCEPT ![p] = "edges"]
  BY <1>1 DEF r, TypeOK, Rest
<1>6. \A e \in Entry : (\E i \in DOMAIN stack[p] : stack[p][i].entry = e) =>
                         \E i \in DOMAIN r : r[i].entry = e
  BY <1>2, <1>3
<1> QED
  BY <1>2, <1>3, <1>4, <1>5, <1>6, StackOK

LEMMA DependencyOK ==
  ASSUME IInv, NEW p \in Proc, pc[p] = "edges", NEW g \in Top(p).todo, g \cap Offered # {},
         stack' = [stack EXCEPT ![p] =
                     Append([stack[p] EXCEPT ![Len(stack[p])].todo = @ \ {g}],
                            Frame(Newest(g)))],
         pc' = [pc EXCEPT ![p] = "cache"],
         UNCHANGED <<store, links, link, removing, history>>
  PROVE  IInv'
<1> DEFINE r == Rest(stack[p], g)
           new == Frame(Newest(g))
           s == Append(r, new)
           n == Len(stack[p])
<1>1. TypeOK /\ stack[p] \in Seq(Entries) /\ stack[p] # <<>>
  BY Facts DEF Control
<1>2. /\ r \in Seq(Entries) /\ Len(r) = n /\ n \in Nat \ {0}
      /\ \A i \in 1 .. n :
           /\ r[i].entry = stack[p][i].entry /\ stack[p][i] \in Entries
           /\ r[i].todo = IF i = n THEN stack[p][i].todo \ {g} ELSE stack[p][i].todo
  <2>1. RestOf(r, stack[p], g)
    BY <1>1, RestFacts
  <2> HIDE DEF r
  <2> QED
    BY <2>1 DEF RestOf
<1>3. new \in Entries /\ new.entry \in g /\ new.todo = Edges[new.entry]
  <2>1. Newest(g) \in g /\ Newest(g) \in Entry
    BY NewestListed, HomeAssumption
  <2> QED
    BY <2>1, EntryFacts DEF Frame, Entries
<1> HIDE DEF r, new
<1>4. /\ s \in Seq(Entries) /\ s # <<>> /\ Len(s) = n + 1
      /\ \A i \in 1 .. n : s[i] = r[i]
      /\ s[n + 1] = new
  BY <1>2, <1>3, AppendProperties
<1>5. stack' = [stack EXCEPT ![p] = s]
  BY DEF r, new, Rest
<1> HIDE DEF s
<1>6. ASSUME p \notin beside PROVE Sound(s, "cache")
  <2> SUFFICES ASSUME NEW i \in 1 .. n
               PROVE  /\ Built(s[i].entry)
                      /\ \A f \in Edges[s[i].entry] \ s[i].todo :
                           Satisfied(f) \/ s[i + 1].entry \in f
    BY <1>2, <1>4 DEF Sound
  <2>1. /\ Built(s[i].entry)
        /\ \A f \in Edges[s[i].entry] \ stack[p][i].todo :
             Satisfied(f) \/ (i < n /\ stack[p][i + 1].entry \in f)
    <3>1. s[i].entry = stack[p][i].entry
      BY <1>2, <1>4
    <3> QED
      BY <1>6, <3>1, SoundNow DEF Sound
  <2>2. CASE i < n
    <3>1. i + 1 \in 1 .. n
      BY <1>2, <2>2
    <3>2. s[i + 1].entry = stack[p][i + 1].entry
      BY <1>2, <1>4, <3>1
    <3>3. s[i].todo = stack[p][i].todo
      <4>1. i # n /\ s[i] = r[i]
        BY <1>2, <1>4, <2>2
      <4> QED
        BY <1>2, <4>1
    <3> QED
      BY <2>1, <3>2, <3>3
  <2>3. CASE i = n
    <3>1. s[i].todo = stack[p][i].todo \ {g} /\ s[i + 1] = new
      BY <1>2, <1>4, <2>3
    <3> QED
      BY <1>2, <1>3, <2>1, <2>3, <3>1
  <2> QED
    BY <1>2, <2>2, <2>3
<1>7. DOMAIN s = 1 .. (n + 1) /\ DOMAIN stack[p] = 1 .. n
  BY <1>1, <1>2, <1>4
<1>8. \A e \in Entry : (\E i \in DOMAIN stack[p] : stack[p][i].entry = e) =>
                         \E i \in DOMAIN s : s[i].entry = e
  <2> SUFFICES ASSUME NEW i \in 1 .. n
               PROVE  i \in DOMAIN s /\ s[i].entry = stack[p][i].entry
    BY <1>7
  <2>1. s[i] = r[i] /\ r[i].entry = stack[p][i].entry
    BY <1>2, <1>4
  <2> QED
    BY <1>2, <1>7, <2>1
<1> QED
  BY <1>3, <1>4, <1>5, <1>6, <1>8, StackOK

LEMMA FinishedOK ==
  ASSUME IInv, NEW p \in Proc, pc[p] = "edges", Top(p).todo = {}, Len(stack[p]) > 1,
         stack' = [stack EXCEPT ![p] = SubSeq(@, 1, Len(@) - 1)],
         UNCHANGED <<store, pc, links, link, removing, history>>
  PROVE  IInv'
<1> DEFINE n == Len(stack[p])
           s == SubSeq(stack[p], 1, n - 1)
<1>1. TypeOK /\ stack[p] \in Seq(Entries) /\ n \in Nat /\ n > 1
  BY Facts
<1>2. /\ s \in Seq(Entries) /\ Len(s) = n - 1
      /\ \A i \in 1 .. n - 1 : s[i] = stack[p][i]
  BY <1>1, SubSeqProperties
<1>3. stack' = [stack EXCEPT ![p] = s] /\ pc' = [pc EXCEPT ![p] = "edges"]
  BY <1>1 DEF TypeOK
<1> HIDE DEF s
<1>4. ASSUME p \notin beside
      PROVE  /\ Built(At(p)) /\ \A g \in Edges[At(p)] : Satisfied(g)
  BY <1>1, <1>4, SoundNow DEF Sound, At, Top
<1>5. ASSUME p \notin beside PROVE Sound(s, "edges")
  <2> SUFFICES ASSUME NEW i \in 1 .. n - 1
               PROVE  /\ Built(s[i].entry)
                      /\ \A g \in Edges[s[i].entry] \ s[i].todo :
                           Satisfied(g) \/ (i < n - 1 /\ s[i + 1].entry \in g)
    BY <1>1, <1>2 DEF Sound
  <2>1. /\ Built(s[i].entry)
        /\ \A g \in Edges[s[i].entry] \ s[i].todo :
             Satisfied(g) \/ stack[p][i + 1].entry \in g
    <3>1. i \in 1 .. n /\ i < n /\ s[i] = stack[p][i]
      BY <1>1, <1>2
    <3> QED
      BY <1>5, <3>1, SoundNow DEF Sound
  <2>2. CASE i < n - 1
    BY <1>1, <1>2, <2>1, <2>2
  <2>3. CASE i = n - 1
    <3>1. stack[p][i + 1].entry = At(p) /\ At(p) \in tfs
      BY <1>1, <1>4, <1>5, <2>3 DEF At, Top, Built
    <3> QED
      BY <2>1, <3>1 DEF Satisfied
  <2> QED
    BY <1>1, <2>2, <2>3
<1>6. ASSUME p \notin beside, NEW e \in Entry, NEW i \in DOMAIN stack[p], stack[p][i].entry = e
      PROVE  (\E j \in DOMAIN s : s[j].entry = e) \/ Complete(e)
  <2>1. i \in 1 .. n /\ DOMAIN s = 1 .. n - 1
    BY <1>1, <1>2
  <2>2. CASE i < n
    BY <1>1, <1>2, <1>6, <2>1, <2>2
  <2>3. CASE i = n
    BY <1>4, <1>6, <2>3 DEF Complete, Built, At, Top
  <2> QED
    BY <1>1, <2>1, <2>2, <2>3
<1>7. s # <<>>
  BY <1>1, <1>2
<1> QED
  BY <1>2, <1>3, <1>5, <1>6, <1>7, StackOK

-----------------------------------------------------------------------------
(* Calls that begin and end *)

LEMMA LeaveFacts ==
  ASSUME TypeOK, Controlled, NEW p \in Proc, Leave(p)
  PROVE  /\ pc' \in [Proc -> Where] /\ stack' \in [Proc -> Seq(Entries)]
         /\ links' \in [Proc -> SUBSET Command] /\ link' \in [Proc -> Command \cup {Nothing}]
         /\ removing' \in [Proc -> Name \cup {Nothing}] /\ beside' \subseteq Proc
         /\ Controlled' /\ beside' = beside \ {p}
         /\ Removing' = Removing \ {p} /\ Installing' = Installing \ {p}
         /\ stack'[p] = <<>> /\ removing'[p] = Nothing
         /\ link'[p] = Nothing
         /\ \A q \in Proc \ {p} :
              /\ pc'[q] = pc[q] /\ stack'[q] = stack[q] /\ links'[q] = links[q]
              /\ link'[q] = link[q] /\ removing'[q] = removing[q]
<1>1. "idle" \in Where /\ <<>> \in Seq(Entries)
  BY DEF Where
<1>2. /\ pc' \in [Proc -> Where] /\ stack' \in [Proc -> Seq(Entries)]
      /\ links' \in [Proc -> SUBSET Command] /\ link' \in [Proc -> Command \cup {Nothing}]
      /\ removing' \in [Proc -> Name \cup {Nothing}] /\ beside' \subseteq Proc
  BY <1>1 DEF TypeOK, Leave
<1>3. /\ pc'[p] = "idle" /\ stack'[p] = <<>> /\ links'[p] = {}
      /\ link'[p] = Nothing /\ removing'[p] = Nothing
      /\ \A q \in Proc \ {p} :
           /\ pc'[q] = pc[q] /\ stack'[q] = stack[q] /\ links'[q] = links[q]
           /\ link'[q] = link[q] /\ removing'[q] = removing[q]
  BY DEF TypeOK, Leave
<1>4. ASSUME NEW q \in Proc PROVE Control(q)'
  <2>1. CASE q = p
    BY <1>3, <2>1 DEF Control
  <2>2. CASE q # p
    BY <1>3, <2>2 DEF Controlled, Control, At, Top
  <2> QED
    BY <2>1, <2>2
<1>5. Removing' = Removing \ {p} /\ Installing' = Installing \ {p}
  BY <1>3 DEF Removing, Installing
<1> QED
  BY <1>2, <1>3, <1>4, <1>5 DEF Controlled, Leave

\* What an installer that leaves has promised stays held.
LEMMA LeaveGrows ==
  ASSUME TypeOK, Controlled, NEW p \in Proc, Leave(p),
         UNCHANGED <<tfs, mirror, tree, shims>>,
         lost \subseteq lost', link[p] # Nothing => link[p] \in lost',
         Nothing \notin Command
  PROVE  Grows
<1>1. \A c \in Command : Held(c) => Held(c)'
  <2> SUFFICES ASSUME NEW c \in Command, Held(c) PROVE Held(c)'
    OBVIOUS
  <2>1. CASE c \in shims \cup lost
    BY <2>1 DEF Held
  <2>2. ASSUME NEW q \in Proc, c = link[q] PROVE Held(c)'
    <3>1. CASE q = p
      BY <2>2, <3>1 DEF Held
    <3>2. CASE q # p
      BY <2>2, <3>2, LeaveFacts DEF Held
    <3> QED
      BY <3>1, <3>2
  <2> QED
    BY <2>1, <2>2 DEF Held
<1> QED
  BY <1>1 DEF Grows

\* An installer fails.
LEMMA FailOK ==
  ASSUME IInv, NEW p \in Installing, Fail(p), dirs' \subseteq Name,
         UNCHANGED <<tfs, mirror, tree, shims>>
  PROVE  IInv'
<1>1. /\ TypeOK /\ Controlled /\ Apart /\ Stacks /\ Answered /\ Owned
      /\ p \in Proc /\ Leave(p) /\ failed' = TRUE
      /\ lost' = lost \cup ({link[p]} \ {Nothing})
      /\ UNCHANGED <<ok, torn, removals>> /\ Nothing \notin Command
  BY HomeAssumption DEF IInv, Installing, Fail, Nothing
<1>2. lost' \subseteq Command
  BY <1>1 DEF TypeOK
<1>3. TypeOK'
  BY <1>1, <1>2, LeaveFacts DEF TypeOK
<1>4. Grows
  BY <1>1, LeaveGrows
<1>5. p \notin Removing
  BY <1>1 DEF Controlled, Control, Installing, Removing
<1>6. Removing' = Removing /\ beside' = beside \ {p} /\ Installing' = Installing \ {p}
  <2>1. Removing' = Removing \ {p} /\ beside' = beside \ {p} /\ Installing' = Installing \ {p}
    BY <1>1, LeaveFacts
  <2> QED
    BY <1>5, <2>1
<1>7. Apart'
  BY <1>1, <1>6 DEF Apart
<1>8. Stacks'
  <2> SUFFICES ASSUME NEW q \in Proc \ beside', stack'[q] # <<>>
               PROVE  BuiltBelow(q)' /\ BuiltSoFar(q)'
    BY DEF Stacks
  <2>1. q # p /\ q \in Proc \ beside
    BY <1>1, <1>6, LeaveFacts
  <2> QED
    BY <1>1, <1>4, <2>1, LeaveFacts, OthersStay
<1>9. Answered'
  BY <1>1, <1>4, BuiltStays, SatisfiedStays DEF Answered, TypeOK
<1>10. Owned'
  <2> SUFFICES ASSUME ~torn PROVE Removing = {} /\ \A c \in shims : HasOwner(c)
    BY <1>1, <1>6 DEF Owned, HasOwner
  <2>1. Removing = {}
    BY <1>1 DEF Apart
  <2> QED
    BY <1>1, <2>1 DEF Owned
<1>11. MissingIsBeingInstalled'
  BY <1>1 DEF MissingIsBeingInstalled
<1> QED
  BY <1>1, <1>3, <1>7, <1>8, <1>9, <1>10, <1>11, LeaveFacts DEF IInv

\* An installer answers OK.
LEMMA AnswerOK ==
  ASSUME IInv, NEW p \in Proc, pc[p] = "edges", Top(p).todo = {}, Len(stack[p]) = 1,
         Leave(p), ok' = IF p \in beside THEN ok ELSE ok \cup {At(p)},
         UNCHANGED <<store, lost, failed, torn, removals>>
  PROVE  IInv'
<1>1. /\ TypeOK /\ Controlled /\ Apart /\ Stacks /\ Answered /\ Owned
      /\ Nothing \notin Command /\ link[p] = Nothing
      /\ UNCHANGED <<dirs, tfs, mirror, tree, shims>>
      /\ stack[p] # <<>> /\ At(p) \in Entry /\ removing[p] = Nothing /\ p \in Installing
  BY Facts DEF IInv, Control, store
<1>2. ok' \subseteq Entry
  BY <1>1 DEF TypeOK
<1>3. TypeOK'
  BY <1>1, <1>2, LeaveFacts DEF TypeOK
<1>4. Grows
  BY <1>1, LeaveGrows
<1>5. Removing' = Removing /\ beside' = beside \ {p} /\ Installing' = Installing \ {p}
  BY <1>1, LeaveFacts DEF Removing
<1>6. Apart'
  BY <1>1, <1>5 DEF Apart
<1>7. Stacks'
  <2> SUFFICES ASSUME NEW q \in Proc \ beside', stack'[q] # <<>>
               PROVE  BuiltBelow(q)' /\ BuiltSoFar(q)'
    BY DEF Stacks
  <2>1. q # p /\ q \in Proc \ beside
    BY <1>1, <1>5, LeaveFacts
  <2> QED
    BY <1>1, <1>4, <2>1, LeaveFacts, OthersStay
<1>8. ASSUME p \notin beside
      PROVE  Built(At(p)) /\ \A g \in Edges[At(p)] : Satisfied(g)
  BY <1>1, <1>8, SoundNow DEF Sound, At, Top
<1>9. Answered'
  <2> SUFFICES ASSUME NEW e \in ok' PROVE Built(e)' /\ \A g \in Edges[e] : Satisfied(g)'
    BY DEF Answered
  <2>1. e \in Entry /\ Built(e) /\ \A g \in Edges[e] : Satisfied(g)
    BY <1>1, <1>8 DEF Answered, TypeOK
  <2> QED
    BY <1>4, <2>1, BuiltStays, SatisfiedStays
<1>10. Owned'
  <2> SUFFICES ASSUME ~torn PROVE Removing = {} /\ \A c \in shims : HasOwner(c)
    BY <1>1, <1>5 DEF Owned, HasOwner
  <2>1. Removing = {}
    BY <1>1 DEF Apart
  <2> QED
    BY <1>1, <2>1 DEF Owned
<1>11. MissingIsBeingInstalled'
  <2> SUFFICES ASSUME ~failed, removals = 0, NEW e \in tfs
               PROVE  OnStack(e)' \/ Complete(e)'
    BY <1>1 DEF MissingIsBeingInstalled, OnStack, Complete
  <2>1. OnStack(e) \/ Complete(e)
    BY DEF IInv, MissingIsBeingInstalled, OnStack, Complete
  <2>2. Complete(e) => Complete(e)'
    BY <1>1 DEF Complete, Satisfied
  <2>3. ASSUME NEW q \in Proc, NEW i \in DOMAIN stack[q], stack[q][i].entry = e
        PROVE  OnStack(e)' \/ Complete(e)
    <3>1. CASE q = p
      <4>1. p \notin beside
        BY <1>1 DEF Apart
      <4>2. i = 1 /\ e = At(p)
        BY <1>1, <2>3, <3>1, Facts DEF At, Top
      <4> QED
        BY <1>8, <4>1, <4>2 DEF Complete, Built
    <3>2. CASE q # p
      BY <1>1, <2>3, <3>2, LeaveFacts DEF OnStack
    <3> QED
      BY <3>1, <3>2
  <2> QED
    BY <2>1, <2>2, <2>3 DEF OnStack
<1> QED
  BY <1>1, <1>3, <1>6, <1>7, <1>9, <1>10, <1>11, LeaveFacts DEF IInv

LEMMA InstallOK ==
  ASSUME IInv, NEW p \in Proc, Install(p)
  PROVE  IInv'
<1>1. /\ TypeOK /\ Controlled /\ Control(p) /\ Apart /\ Stacks /\ Answered /\ Owned
      /\ pc[p] = "idle" /\ stack[p] = <<>> /\ removing[p] = Nothing /\ link[p] = Nothing
  BY Facts DEF IInv, Install, Control
<1>2. PICK e \in Root : stack' = [stack EXCEPT ![p] = <<Frame(e)>>]
  BY DEF Install
<1>3. Frame(e) \in Entries /\ Frame(e).todo = Edges[Frame(e).entry] /\ "cache" \in Where
  BY HomeAssumption, EntryFacts DEF Frame, Entries, Where
<1>4. <<Frame(e)>> \in Seq(Entries) /\ Len(<<Frame(e)>>) = 1 /\ <<Frame(e)>>[1] = Frame(e)
  BY <1>3
<1>5. /\ pc' = [pc EXCEPT ![p] = "cache"] /\ torn' = (torn \/ Removing # {})
      /\ beside' = IF Removing = {} THEN beside ELSE beside \cup {p}
      /\ UNCHANGED <<dirs, tfs, mirror, tree, shims, links, link, removing, ok, lost,
                     failed, removals>>
  BY DEF Install, store
<1>6. /\ pc'[p] = "cache" /\ stack'[p] = <<Frame(e)>>
      /\ \A q \in Proc \ {p} : pc'[q] = pc[q] /\ stack'[q] = stack[q]
  BY <1>1, <1>2, <1>5 DEF TypeOK
<1>7. TypeOK'
  <2>1. pc' \in [Proc -> Where] /\ stack' \in [Proc -> Seq(Entries)]
    BY <1>1, <1>2, <1>3, <1>4, <1>5 DEF TypeOK
  <2>2. beside' \subseteq Proc /\ torn' \in BOOLEAN
    BY <1>1, <1>5 DEF TypeOK
  <2> QED
    BY <1>1, <1>5, <2>1, <2>2 DEF TypeOK
<1>8. Controlled'
  <2> SUFFICES ASSUME NEW q \in Proc PROVE Control(q)'
    BY DEF Controlled
  <2>1. CASE q = p
    <3>1. Top(p)' = Frame(e) /\ stack'[p] # <<>>
      BY <1>4, <1>6 DEF Top
    <3> QED
      BY <1>1, <1>3, <1>5, <1>6, <2>1, <3>1 DEF Control, At
  <2>2. CASE q # p
    BY <1>1, <1>5, <1>6, <2>2 DEF Controlled, Control, At, Top
  <2> QED
    BY <2>1, <2>2
<1>9. Removing' = Removing /\ Installing' = Installing \cup {p}
  BY <1>4, <1>5, <1>6 DEF Removing, Installing
<1>10. Apart'
  BY <1>1, <1>5, <1>9 DEF Apart
<1>11. Grows
  BY <1>5, SameHeld
<1>12. Stacks'
  <2> SUFFICES ASSUME NEW q \in Proc \ beside', stack'[q] # <<>>
               PROVE  BuiltBelow(q)' /\ BuiltSoFar(q)'
    BY DEF Stacks
  <2>1. CASE q = p
    BY <1>4, <1>6, <2>1 DEF BuiltBelow, BuiltSoFar
  <2>2. CASE q # p
    BY <1>5, <1>6, <1>11, <2>2, OthersStay
  <2> QED
    BY <2>1, <2>2
<1>13. Answered'
  BY <1>1, <1>5, <1>11, BuiltStays, SatisfiedStays DEF Answered, TypeOK
<1>14. Owned'
  BY <1>1, <1>5, <1>9 DEF Owned, HasOwner
<1>15. MissingIsBeingInstalled'
  <2> SUFFICES ASSUME ~failed, removals = 0, NEW f \in tfs
               PROVE  OnStack(f)' \/ Complete(f)'
    BY <1>5 DEF MissingIsBeingInstalled, OnStack, Complete
  <2>1. OnStack(f) \/ Complete(f)
    BY DEF IInv, MissingIsBeingInstalled, OnStack, Complete
  <2>2. Complete(f) => Complete(f)'
    BY <1>5 DEF Complete, Satisfied
  <2>3. ASSUME NEW q \in Proc, NEW i \in DOMAIN stack[q], stack[q][i].entry = f
        PROVE  OnStack(f)'
    <3>1. q # p
      BY <1>1, <2>3
    <3> QED
      BY <1>6, <2>3, <3>1 DEF OnStack
  <2> QED
    BY <2>1, <2>2, <2>3 DEF OnStack
<1> QED
  BY <1>7, <1>8, <1>10, <1>12, <1>13, <1>14, <1>15 DEF IInv

-----------------------------------------------------------------------------
(* Uninstall *)

LEMMA UninstallOK ==
  ASSUME IInv, NEW p \in Proc, Uninstall(p)
  PROVE  IInv'
<1>1. /\ TypeOK /\ Controlled /\ Control(p) /\ Apart /\ Owned
      /\ pc[p] = "idle" /\ stack[p] = <<>> /\ link[p] = Nothing /\ Nothing \notin Name
  BY Facts DEF IInv, Uninstall, Control
<1>2. PICK n \in Name : /\ removing' = [removing EXCEPT ![p] = n]
                        /\ links' = [links EXCEPT ![p] = CommandsOf(n)]
  BY DEF Uninstall
<1>3. /\ pc' = [pc EXCEPT ![p] = "unlink"] /\ ok' = {}
      /\ beside' = beside \cup Installing
      /\ torn' = (torn \/ Installing # {} \/ Removing # {}) /\ removals' = removals + 1
      /\ UNCHANGED <<dirs, tfs, mirror, tree, shims, stack, link, lost, failed>>
  BY DEF Uninstall, store
<1>4. CommandsOf(n) \subseteq Command
  BY <1>1, HomeAssumption DEF CommandsOf, TypeOK
<1>5. /\ pc'[p] = "unlink" /\ removing'[p] = n /\ links'[p] = CommandsOf(n)
      /\ \A q \in Proc \ {p} : /\ pc'[q] = pc[q] /\ removing'[q] = removing[q]
                               /\ links'[q] = links[q]
  BY <1>1, <1>2, <1>3 DEF TypeOK
<1>6. TypeOK'
  <2>1. "unlink" \in Where /\ Installing \subseteq Proc
    BY DEF Where, Installing
  <2>2. /\ pc' \in [Proc -> Where] /\ links' \in [Proc -> SUBSET Command]
        /\ removing' \in [Proc -> Name \cup {Nothing}] /\ beside' \subseteq Proc
        /\ removals' \in Nat /\ torn' \in BOOLEAN
    BY <1>1, <1>2, <1>3, <1>4, <2>1 DEF TypeOK
  <2> QED
    BY <1>1, <1>3, <2>2 DEF TypeOK
<1>7. Controlled'
  <2> SUFFICES ASSUME NEW q \in Proc PROVE Control(q)'
    BY DEF Controlled
  <2>1. CASE q = p
    BY <1>1, <1>3, <1>5, <2>1 DEF Control
  <2>2. CASE q # p
    BY <1>1, <1>3, <1>5, <2>2 DEF Controlled, Control, At, Top
  <2> QED
    BY <2>1, <2>2
<1>8. Installing' = Installing /\ Removing' = Removing \cup {p} /\ removals' # 0
  <2>1. removals + 1 # 0
    BY <1>1 DEF TypeOK
  <2> QED
    BY <1>1, <1>3, <1>5, <2>1 DEF Installing, Removing
<1>9. Apart'
  BY <1>1, <1>3, <1>8 DEF Apart
<1>10. Stacks' /\ Answered' /\ MissingIsBeingInstalled'
  BY <1>3, <1>8 DEF Stacks, Answered, MissingIsBeingInstalled, Installing
<1>11. Owned'
  <2> SUFFICES ASSUME ~torn, Installing = {}, Removing = {}
               PROVE  /\ \A q \in Proc \ {p} : pc[q] = "idle"
                      /\ \A c \in shims \ CommandsOf(n) : HasOther(c, n)
    <3>1. \A c : HasOther(c, n) => HasOther(c, removing[p])'
      BY <1>3, <1>5 DEF HasOther
    <3> QED
      BY <1>3, <1>5, <1>8, <3>1 DEF Owned
  <2>1. ASSUME NEW q \in Proc PROVE pc[q] = "idle"
    BY <1>1 DEF Controlled, Control, Installing, Removing
  <2>2. ASSUME NEW c \in shims \ CommandsOf(n) PROVE HasOther(c, n)
    <3>1. PICK e \in tfs \cap mirror : c \in Commands[e]
      BY <1>1, <2>2 DEF Owned, HasOwner
    <3>2. NameOf[e] # n
      BY <2>2, <3>1 DEF CommandsOf
    <3> QED
      BY <3>1, <3>2 DEF HasOther
  <2> QED
    BY <2>1, <2>2
<1> QED
  BY <1>6, <1>7, <1>9, <1>10, <1>11 DEF IInv

\* Nothing is promised while an uninstall is under way, so that a step of it
\* has only to keep the shims apart.
LEMMA RemovesOK ==
  ASSUME IInv, NEW p \in Removing, TypeOK', Controlled', Owned',
         Installing' = Installing, Removing' \subseteq Removing, beside \ {p} \subseteq beside',
         beside' \subseteq beside, torn => torn', ok' = ok, removals' = removals
  PROVE  IInv'
<1>1. /\ Apart /\ ok = {} /\ removals # 0 /\ Installing \subseteq beside
      /\ p \notin Installing
  BY DEF IInv, Apart, Controlled, Control, Installing, Removing
<1>2. Installing' \subseteq beside'
  BY <1>1
<1>3. Apart'
  BY <1>1, <1>2 DEF Apart
<1>4. Stacks' /\ Answered' /\ MissingIsBeingInstalled'
  BY <1>1, <1>2 DEF Stacks, Answered, MissingIsBeingInstalled, Installing
<1> QED
  BY <1>3, <1>4 DEF IInv

LEMMA StopOK ==
  ASSUME IInv, NEW p \in Removing, Stop(p), dirs' = dirs,
         tfs' \subseteq tfs, mirror' \subseteq mirror, tree' \subseteq tree, shims' \subseteq shims
  PROVE  IInv'
<1>1. /\ TypeOK /\ Controlled /\ p \in Proc /\ Leave(p) /\ torn' = TRUE
      /\ UNCHANGED <<ok, lost, failed, removals>> /\ p \notin Installing
  BY DEF IInv, Controlled, Control, Removing, Installing, Stop
<1>2. TypeOK' /\ Controlled'
  BY <1>1, LeaveFacts DEF TypeOK
<1>3. Owned'
  BY <1>1 DEF Owned
<1>4. Installing' = Installing /\ Removing' \subseteq Removing /\ beside' = beside \ {p}
  <2>1. Installing' = Installing \ {p} /\ Removing' = Removing \ {p} /\ beside' = beside \ {p}
    BY <1>1, LeaveFacts
  <2> QED
    BY <1>1, <2>1
<1> QED
  BY <1>1, <1>2, <1>3, <1>4, RemovesOK

\* Nobody else is doing anything, as long as nothing is torn.
LEMMA Alone ==
  ASSUME IInv, ~torn, NEW p \in Removing, NEW q \in Removing PROVE q = p
BY DEF IInv, Owned, Controlled, Control, Removing

LEMMA RemoveShimOK ==
  ASSUME IInv, NEW p \in Proc, RemoveShim(p)
  PROVE  IInv'
<1>1. /\ TypeOK /\ Controlled /\ Control(p) /\ Owned /\ p \in Removing
      /\ UNCHANGED <<dirs, tfs, mirror, tree>> /\ pc[p] = "unlink"
  BY Facts DEF IInv, RemoveShim, Control
<1>2. CASE Stop(p) /\ UNCHANGED shims
  BY <1>1, <1>2, StopOK
<1>3. ASSUME NEW c \in links[p], shims' = shims \ {c},
             links' = [links EXCEPT ![p] = @ \ {c}],
             UNCHANGED <<pc, stack, link, removing, history>>
      PROVE  IInv'
  <2>1. links'[p] = links[p] \ {c} /\ \A q \in Proc \ {p} : links'[q] = links[q]
    BY <1>1, <1>3 DEF TypeOK
  <2>2. TypeOK'
    BY <1>1, <1>3 DEF TypeOK, history
  <2>3. Controlled'
    <3> SUFFICES ASSUME NEW q \in Proc PROVE Control(q)'
      BY DEF Controlled
    <3>1. links'[q] \subseteq links[q]
      BY <2>1
    <3> QED
      BY <1>1, <1>3, <3>1 DEF Controlled, Control, At, Top
  <2>4. Owned'
    <3> SUFFICES ASSUME ~torn, NEW q \in Removing
                 PROVE  /\ \A o \in Proc \ {q} : pc[o] = "idle"
                        /\ \A d \in shims' \ links'[q] : HasOther(d, removing[q])
      BY <1>1, <1>3 DEF Owned, HasOther, Removing, history
    <3>1. q = p
      BY <1>1, Alone
    <3>2. shims' \ links'[q] \subseteq shims \ links[q]
      BY <1>3, <2>1, <3>1
    <3> QED
      BY <1>1, <3>2 DEF Owned
  <2>5. Installing' = Installing /\ Removing' = Removing
    BY <1>3 DEF Installing, Removing
  <2> QED
    BY <1>1, <1>3, <2>2, <2>3, <2>4, <2>5, RemovesOK DEF history
<1> QED
  BY <1>2, <1>3 DEF RemoveShim

LEMMA RemoveDirOK ==
  ASSUME IInv, NEW p \in Proc, RemoveDir(p)
  PROVE  IInv'
<1> DEFINE mine == {e \in Entry : NameOf[e] = removing[p]}
<1>1. /\ TypeOK /\ Controlled /\ Control(p) /\ Owned /\ p \in Removing
      /\ links[p] = {} /\ shims' = shims /\ pc[p] = "unlink" /\ stack[p] = <<>>
  BY Facts DEF IInv, RemoveDir, Control
<1>2. CASE /\ tfs' = tfs \ mine /\ mirror' = mirror \ mine /\ tree' = tree \ mine
           /\ dirs' = dirs \ {removing[p]}
           /\ Leave(p) /\ UNCHANGED <<ok, lost, failed, torn, removals>>
  <2>1. TypeOK' /\ Controlled'
    BY <1>1, <1>2, LeaveFacts DEF TypeOK
  <2>2. Installing' = Installing \ {p} /\ Removing' = Removing \ {p} /\ beside' = beside \ {p}
    BY <1>1, <1>2, LeaveFacts
  <2>3. Installing' = Installing
    BY <1>1, <2>2 DEF Installing
  <2>4. Owned'
    <3> SUFFICES ASSUME ~torn
                 PROVE  Removing' = {} /\ \A c \in shims : HasOwner(c)'
      BY <1>1, <1>2 DEF Owned
    <3>1. Removing' = {}
      BY <1>1, <2>2, Alone
    <3>2. ASSUME NEW c \in shims PROVE HasOwner(c)'
      <4>1. HasOther(c, removing[p])
        BY <1>1 DEF Owned
      <4> QED
        BY <1>2, <4>1 DEF HasOther, HasOwner
    <3> QED
      BY <3>1, <3>2
  <2> QED
    BY <1>1, <1>2, <2>1, <2>2, <2>3, <2>4, RemovesOK
<1>3. CASE /\ \E gone \in SUBSET mine :
                \/ tfs' = tfs \ gone /\ UNCHANGED <<mirror, tree>>
                \/ mirror' = mirror \ gone /\ tree' = tree \ gone /\ UNCHANGED tfs
           /\ Stop(p) /\ UNCHANGED dirs
  BY <1>1, <1>3, StopOK
<1> QED
  BY <1>2, <1>3 DEF RemoveDir

-----------------------------------------------------------------------------
(* The theorems *)

LEMMA StepOK ==
  ASSUME IInv, NEW p \in Proc, Step(p) PROVE IInv'
<1>1. /\ TypeOK /\ Control(p) /\ stack[p] # <<>> /\ p \in Installing /\ At(p) \in Entry
  BY Facts DEF Step, Control, Cache, Mirror, Tree, Unlink, Relink, Linked, Edge, Finish
<1>2. CASE Cache(p)
  <2>1. dirs \cup {NameOf[At(p)]} \subseteq Name /\ dirs \subseteq Name
    BY <1>1, EntryFacts DEF TypeOK
  <2> QED
    BY <1>1, <1>2, <2>1, FailOK, CacheOK DEF Cache
<1>3. CASE Mirror(p)
  BY <1>1, <1>3, FailOK, MirrorOK DEF Mirror, TypeOK
<1>4. CASE Tree(p)
  BY <1>1, <1>4, FailOK, TreeOK DEF Tree, TypeOK
<1>5. CASE Unlink(p)
  BY <1>1, <1>5, FailOK, UnlinkOK DEF Unlink, TypeOK
<1>6. CASE Relink(p)
  BY <1>1, <1>6, FailOK, RelinkOK DEF Relink, TypeOK
<1>7. CASE Linked(p)
  BY <1>7, LinkedOK
<1>8. CASE Edge(p)
  BY <1>1, <1>8, FailOK, SatisfiedOK, DependencyOK DEF Edge, TypeOK, store
<1>9. CASE Finish(p)
  BY <1>1, <1>9, FinishedOK, AnswerOK DEF Finish
<1> QED
  BY <1>2, <1>3, <1>4, <1>5, <1>6, <1>7, <1>8, <1>9 DEF Step

LEMMA CrashOK ==
  ASSUME IInv, NEW p \in Proc, Crash(p) PROVE IInv'
<1>1. dirs \subseteq Name /\ UNCHANGED <<dirs, tfs, mirror, tree, shims>>
  BY DEF IInv, TypeOK, Crash, store
<1>2. CASE p \in Installing /\ Fail(p)
  BY <1>1, <1>2, FailOK
<1>3. CASE p \in Removing /\ Stop(p)
  BY <1>1, <1>3, StopOK
<1> QED
  BY <1>2, <1>3 DEF Crash

LEMMA StutterOK == IInv /\ UNCHANGED vars => IInv'
<1> SUFFICES ASSUME IInv, UNCHANGED vars PROVE IInv'
  OBVIOUS
<1>1. UNCHANGED <<dirs, tfs, mirror, tree, shims, pc, stack, links, link, removing,
                  ok, beside, lost, failed, torn, removals>>
  BY DEF vars, store, call, history
<1>2. TypeOK' /\ Controlled'
  BY <1>1 DEF IInv, TypeOK, Controlled, Control, At, Top
<1>3. Apart' /\ Owned'
  BY <1>1 DEF IInv, Apart, Owned, Removing, Installing, HasOwner, HasOther
<1>4. Stacks'
  BY <1>1 DEF IInv, Stacks, BuiltBelow, BuiltSoFar, Built, Held, Satisfied, At, Top
<1>5. Answered' /\ MissingIsBeingInstalled'
  BY <1>1 DEF IInv, Answered, Built, Held, Satisfied, MissingIsBeingInstalled
<1> QED
  BY <1>2, <1>3, <1>4, <1>5 DEF IInv

\* The invariant holds whatever installers and uninstalls do, side by side,
\* and wherever they fail or die.
THEOREM HomeInvariance == Spec => []IInv
<1>1. IInv /\ [Next]_vars => IInv'
  <2> SUFFICES ASSUME IInv, [Next]_vars PROVE IInv'
    OBVIOUS
  <2>1. CASE UNCHANGED vars
    BY <2>1, StutterOK
  <2>2. ASSUME NEW p \in Proc,
               Install(p) \/ Step(p) \/ Uninstall(p) \/ Remove(p) \/ Crash(p)
        PROVE  IInv'
    BY <2>2, InstallOK, StepOK, UninstallOK, RemoveShimOK, RemoveDirOK, CrashOK DEF Remove
  <2> QED
    BY <2>1, <2>2 DEF Next
<1> QED
  BY <1>1, InitOK, PTL DEF Spec

\* "install" answers OK for what is there, with its dependencies and its
\* commands, for any payloads and any number of installers that fail and die.
THEOREM InstalledIsThere == Spec => []OkMeansInstalled
<1>1. ASSUME IInv PROVE OkMeansInstalled
  <2> SUFFICES ASSUME NEW e \in ok
               PROVE  /\ e \in tfs \cap mirror \cap tree
                      /\ \A g \in Edges[e] : Satisfied(g)
                      /\ \A c \in Commands[e] :
                           /\ c \in shims \cup lost \cup {link[p] : p \in Proc}
                           /\ Unrivalled(c, e) => Providers(c) = {NameOf[e]}
    BY DEF OkMeansInstalled
  <2>1. e \in Entry /\ Built(e) /\ \A g \in Edges[e] : Satisfied(g)
    BY <1>1 DEF IInv, Answered, TypeOK
  <2>2. ASSUME NEW c \in Commands[e], Unrivalled(c, e) PROVE Providers(c) = {NameOf[e]}
    <3>1. CASE c \in dirs
      BY <1>1, <2>2, <3>1 DEF Providers, Unrivalled, IInv, TypeOK
    <3>2. CASE c \notin dirs
      <4>1. e \in {f \in tfs \cap mirror : c \in Commands[f]}
        BY <2>1 DEF Built
      <4> QED
        BY <2>2, <3>2, <4>1 DEF Providers, Unrivalled
    <3> QED
      BY <3>1, <3>2
  <2> QED
    BY <2>1, <2>2 DEF Built, Held
<1> QED
  BY <1>1, HomeInvariance, PTL

\* What is missing of a payload somebody is installing, for any payloads and
\* any number of installers, until one fails or somebody uninstalls.
THEOREM ClosureIsInstalled == Spec => []MissingIsBeingInstalled
<1>1. IInv => MissingIsBeingInstalled
  BY DEF IInv
<1> QED
  BY <1>1, HomeInvariance, PTL

\* Shims belong to installed payloads, for any payloads that share commands
\* and any number of uninstalls, one at a time and carried through.
THEOREM ShimsOwned == Spec => []ShimsHaveOwner
<1>1. IInv => ShimsHaveOwner
  BY DEF IInv, Owned, HasOwner, ShimsHaveOwner
<1> QED
  BY <1>1, HomeInvariance, PTL
=============================================================================
