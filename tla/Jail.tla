-------------------------------- MODULE Jail --------------------------------
(***************************************************************************)
(* The host access policy: what a package requests and what its user       *)
(* allows (HostJail of crates/tpkg/src/jail.rs), how the two are composed  *)
(* on the way from the command line to the program, and what the engine    *)
(* makes of the composition (HostPolicy of crates/tfs/src/policy.rs).      *)
(*                                                                         *)
(* A path stands for what it canonicalizes to, and a jail names a host at  *)
(* most once: its grants are a function from hosts to an access.  Of two   *)
(* hosts above one path, the one with the longer name is the one below the *)
(* other.                                                                  *)
(***************************************************************************)
EXTENDS Naturals

CONSTANTS
  Host,   \* the paths of the host
  Above,  \* Above[p]: p and the paths it lies in
  Floor,  \* platform_floor: what every program may read, when it is there
  Argv,   \* the paths that the program's arguments name
  NoJail  \* no jail at all: no flag was given, no request made

\* Among hosts that a path lies in there is a longest.
ASSUME JailAssumption ==
  /\ Above \in [Host -> SUBSET Host]
  /\ \A p \in Host : p \in Above[p] /\ (\A q \in Above[p] : Above[q] \subseteq Above[p])
  /\ \A p, q \in Host : p \in Above[q] /\ q \in Above[p] => p = q
  /\ \A p \in Host : \A S \in SUBSET Above[p] :
       S # {} => \E q \in S : \A r \in S : r \in Above[q]
  /\ Floor \subseteq Host /\ Argv \subseteq Host

Access == {"ro", "rw"}

Grants == UNION {[S -> Access] : S \in SUBSET Host}

Jail == [open : BOOLEAN, record : BOOLEAN, auto : BOOLEAN,
         grants : Grants, files : SUBSET Host]

NoGrants == [h \in {} |-> "ro"]

OpenJail == [open |-> TRUE, record |-> FALSE, auto |-> FALSE,
             grants |-> NoGrants, files |-> {}]

ASSUME NoJailAssumption == NoJail \notin Jail

-----------------------------------------------------------------------------
(* The algebra *)

Covering(g, p) == Above[p] \cap DOMAIN g

Longest(S) == CHOOSE q \in S : \A r \in S : r \in Above[q]

Tighter(a, b) ==
  IF a = "none" \/ b = "none" THEN "none"
  ELSE IF a = "ro" \/ b = "ro" THEN "ro" ELSE "rw"

\* What a jail allows at a path: its longest grant there, else its default.
Allowance(j, p) ==
  IF Covering(j.grants, p) # {} THEN j.grants[Longest(Covering(j.grants, p))]
  ELSE IF j.open THEN "rw" ELSE "none"

\* Mutant: a grant is dropped where the other side denies, and not capped.
TightenedByDropping(g, q) ==
  [h \in {h \in DOMAIN g : Allowance(q, h) # "none"} |-> g[h]]

\* Grants as another jail leaves them: dropped, or capped at its allowance.
Tightened(g, q) ==
  [h \in {h \in DOMAIN g : Allowance(q, h) # "none"} |->
     Tighter(g[h], Allowance(q, h))]

Intersect(request, tightening) ==
  LET a == Tightened(tightening.grants, request)
      b == Tightened(request.grants, tightening) IN
  [open   |-> request.open /\ tightening.open,
   record |-> FALSE,
   auto   |-> request.auto \/ tightening.auto,
   grants |-> [h \in DOMAIN a \cup DOMAIN b |->
                 IF h \notin DOMAIN b THEN a[h]
                 ELSE IF h \notin DOMAIN a THEN b[h] ELSE Tighter(a[h], b[h])],
   files  |-> request.files \cup tightening.files]

\* A user who records overrules the request.
Effective(request, user) ==
  IF request = NoJail THEN user
  ELSE IF user = NoJail THEN request
  ELSE IF user.record THEN user ELSE Intersect(request, user)

-----------------------------------------------------------------------------
(* On the way to the program *)

TriviallyOpen(j) ==
  j.open /\ ~j.record /\ DOMAIN j.grants = {} /\ j.files = {}

\* What TEBAKO_JAIL says: recording goes without grants, and automatic
\* argument files have become explicit ones.
ToEnvSpec(j) ==
  IF j.record THEN [OpenJail EXCEPT !.record = TRUE]
  ELSE [j EXCEPT !.auto = FALSE,
                 !.files = IF j.auto THEN @ \cup Argv ELSE @]

\* What a surface exports, given what reached it.
Exported(request, user) ==
  LET j == Effective(request, user) IN
  IF j = NoJail THEN NoJail ELSE IF TriviallyOpen(j) THEN NoJail ELSE ToEnvSpec(j)

-----------------------------------------------------------------------------
(* In the engine *)

\* The floor binds under deny, except where a grant covers it.
FloorGrants(j) ==
  [h \in {h \in Floor : ~j.open /\ Covering(j.grants, h) = {}} |-> "ro"]

Merged(g, f) == [h \in DOMAIN g \cup DOMAIN f |-> IF h \in DOMAIN g THEN g[h] ELSE f[h]]

\* HostPolicy::bind: with every directory on the way to a grant.
Bind(j) ==
  LET all == Merged(j.grants, FloorGrants(j)) IN
  [record |-> j.record, open |-> j.open, grants |-> all, files |-> j.files,
   traverse |-> UNION {Above[h] \ {h} : h \in DOMAIN all}]

\* HostPolicy::check: "ok", or the refusal.
Check(policy, p, need) ==
  LET covering == Covering(policy.grants, p) IN
  IF policy.record THEN "ok"
  ELSE IF need = "ro" /\ p \in policy.files THEN "ok"
  ELSE IF covering # {}
  THEN IF need = "rw" /\ policy.grants[Longest(covering)] = "ro" THEN "EROFS" ELSE "ok"
  ELSE IF need = "ro" /\ p \in policy.traverse THEN "ok"
  ELSE IF policy.open THEN "ok" ELSE "EPERM"

-----------------------------------------------------------------------------
(* For the properties *)

\* What a jail lets through.
Allows(j, p, need) ==
  j = NoJail \/ j.record \/ Allowance(j, p) = "rw" \/ (need = "ro" /\ Allowance(j, p) = "ro")

\* What may be read under a bound policy whatever the grants say.
Courteous(policy, p) ==
  \/ p \in policy.files \cup policy.traverse
  \/ \E h \in Floor : h \in Above[p]
=============================================================================
