---------------------------- MODULE PreloadProofs ----------------------------
(***************************************************************************)
(* Theorems about Jail and Preload, for any hosts, jails, threads, paths   *)
(* and images.                                                             *)
(*                                                                         *)
(* The algebra of host jails: the composition of two jails allows at every *)
(* path what the tighter of the two allows there, so composing again       *)
(* changes nothing; and what the engine makes of a jail lets through what  *)
(* the jail allows, and the courtesies that no grant is asked about.       *)
(*                                                                         *)
(* The preload library: what the program reaches of the host was let       *)
(* through by a check against the policy of the engine, as long as the     *)
(* process is not a fork child: the one way past the check is the guard of *)
(* a thread that is already in the engine, and a thread is there only with *)
(* the program's call past its gate.                                       *)
(***************************************************************************)
EXTENDS Preload, TLAPS

-----------------------------------------------------------------------------
(* Paths and grants *)

LEMMA AboveFacts ==
  ASSUME NEW p \in Host
  PROVE  /\ p \in Above[p] /\ Above[p] \subseteq Host
         /\ \A q \in Above[p] : Above[q] \subseteq Above[p]
BY JailAssumption

LEMMA GrantFacts ==
  ASSUME NEW g \in Grants
  PROVE  DOMAIN g \subseteq Host /\ \A h \in DOMAIN g : g[h] \in Access
<1>1. PICK S \in SUBSET Host : g \in [S -> Access]
  BY DEF Grants
<1> QED
  BY <1>1

\* The longest of the hosts above a path is the one that the others are above.
LEMMA LongestIsBelow ==
  ASSUME NEW p \in Host, NEW S \in SUBSET Above[p], S # {}
  PROVE  Longest(S) \in S /\ \A r \in S : r \in Above[Longest(S)]
<1>1. \E q \in S : \A r \in S : r \in Above[q]
  BY JailAssumption
<1> QED
  BY <1>1 DEF Longest

LEMMA LongestIsUnique ==
  ASSUME NEW p \in Host, NEW S \in SUBSET Above[p], NEW q \in S,
         \A r \in S : r \in Above[q]
  PROVE  Longest(S) = q
<1>1. Longest(S) \in S /\ q \in Above[Longest(S)]
  BY LongestIsBelow
<1>2. Longest(S) \in Above[q]
  BY <1>1
<1>3. q \in Host /\ Longest(S) \in Host
  BY <1>1, AboveFacts
<1> QED
  BY <1>1, <1>2, <1>3, JailAssumption

-----------------------------------------------------------------------------
(* Allowances *)

LEMMA CoveringFacts ==
  ASSUME NEW g \in Grants, NEW p \in Host
  PROVE  /\ Covering(g, p) \in SUBSET Above[p]
         /\ \A q \in Above[p] : Covering(g, q) \subseteq Covering(g, p)
BY AboveFacts DEF Covering

\* The allowance at a path is the grant that the other grants there are above.
LEMMA AllowanceIsLongest ==
  ASSUME NEW j \in Jail, NEW p \in Host, NEW h \in Covering(j.grants, p),
         \A r \in Covering(j.grants, p) : r \in Above[h]
  PROVE  Allowance(j, p) = j.grants[h]
<1>1. j.grants \in Grants
  BY DEF Jail
<1>2. Longest(Covering(j.grants, p)) = h
  BY <1>1, CoveringFacts, LongestIsUnique
<1> QED
  BY <1>2 DEF Allowance

LEMMA AllowanceOfGrant ==
  ASSUME NEW j \in Jail, NEW h \in DOMAIN j.grants
  PROVE  h \in Host /\ Allowance(j, h) = j.grants[h] /\ j.grants[h] \in Access
<1>1. j.grants \in Grants
  BY DEF Jail
<1>2. h \in Host /\ j.grants[h] \in Access
  BY <1>1, GrantFacts
<1>3. h \in Covering(j.grants, h) /\ \A r \in Covering(j.grants, h) : r \in Above[h]
  BY <1>2, AboveFacts DEF Covering
<1> QED
  BY <1>2, <1>3, AllowanceIsLongest

LEMMA AllowanceType ==
  ASSUME NEW j \in Jail, NEW p \in Host
  PROVE  /\ Allowance(j, p) \in Access \cup {"none"}
         /\ Allowance(j, p) = "none" => Covering(j.grants, p) = {} /\ ~j.open
         /\ Covering(j.grants, p) = {} => Allowance(j, p) = IF j.open THEN "rw" ELSE "none"
<1>1. j.grants \in Grants /\ j.open \in BOOLEAN
  BY DEF Jail
<1>2. CASE Covering(j.grants, p) = {}
  BY <1>1, <1>2 DEF Allowance, Access
<1>3. CASE Covering(j.grants, p) # {}
  <2> DEFINE h == Longest(Covering(j.grants, p))
  <2>1. h \in Covering(j.grants, p)
    BY <1>1, <1>3, CoveringFacts, LongestIsBelow
  <2>2. Allowance(j, p) = j.grants[h] /\ j.grants[h] \in Access
    BY <1>1, <1>3, <2>1, GrantFacts DEF Allowance, Covering
  <2> QED
    BY <1>3, <2>2 DEF Access
<1> QED
  BY <1>2, <1>3

-----------------------------------------------------------------------------
(* The composition *)

LEMMA IntersectGrants ==
  ASSUME NEW r \in Jail, NEW t \in Jail
  PROVE  LET g == Intersect(r, t).grants IN
         /\ DOMAIN g = {h \in DOMAIN r.grants \cup DOMAIN t.grants :
                          Tighter(Allowance(r, h), Allowance(t, h)) # "none"}
         /\ \A h \in DOMAIN g : g[h] = Tighter(Allowance(r, h), Allowance(t, h))
<1> DEFINE g == Intersect(r, t).grants
           a == Tightened(t.grants, r)
           b == Tightened(r.grants, t)
<1>1. DOMAIN a = {h \in DOMAIN t.grants : Allowance(r, h) # "none"}
      /\ \A h \in DOMAIN a : a[h] = Tighter(t.grants[h], Allowance(r, h))
  BY DEF Tightened
<1>2. DOMAIN b = {h \in DOMAIN r.grants : Allowance(t, h) # "none"}
      /\ \A h \in DOMAIN b : b[h] = Tighter(r.grants[h], Allowance(t, h))
  BY DEF Tightened
<1>3. g = [h \in DOMAIN a \cup DOMAIN b |->
             IF h \notin DOMAIN b THEN a[h]
             ELSE IF h \notin DOMAIN a THEN b[h] ELSE Tighter(a[h], b[h])]
  BY DEF Intersect
<1>4. \A h \in DOMAIN r.grants : Allowance(r, h) = r.grants[h] /\ Allowance(r, h) \in Access
  BY AllowanceOfGrant
<1>5. \A h \in DOMAIN t.grants : Allowance(t, h) = t.grants[h] /\ Allowance(t, h) \in Access
  BY AllowanceOfGrant
<1>6. \A h \in DOMAIN r.grants \cup DOMAIN t.grants :
        /\ Allowance(r, h) \in Access \cup {"none"}
        /\ Allowance(t, h) \in Access \cup {"none"}
  BY AllowanceOfGrant, AllowanceType
<1>7. DOMAIN g = DOMAIN a \cup DOMAIN b
  BY <1>3
<1>8. ASSUME NEW h \in DOMAIN r.grants \cup DOMAIN t.grants
      PROVE  /\ h \in DOMAIN g <=> Tighter(Allowance(r, h), Allowance(t, h)) # "none"
             /\ h \in DOMAIN g => g[h] = Tighter(Allowance(r, h), Allowance(t, h))
  <2>1. h \in DOMAIN g <=> Tighter(Allowance(r, h), Allowance(t, h)) # "none"
    BY <1>1, <1>2, <1>4, <1>5, <1>6, <1>7 DEF Tighter, Access
  <2>2. CASE h \in DOMAIN a /\ h \in DOMAIN b
    <3>1. g[h] = Tighter(a[h], b[h])
      BY <1>3, <2>2
    <3> QED
      BY <1>1, <1>2, <1>4, <1>5, <2>1, <2>2, <3>1 DEF Tighter, Access
  <2>3. CASE h \in DOMAIN a /\ h \notin DOMAIN b
    <3>1. g[h] = a[h]
      BY <1>3, <2>3
    <3> QED
      BY <1>1, <1>5, <1>6, <2>1, <2>3, <3>1 DEF Tighter, Access
  <2>4. CASE h \notin DOMAIN a /\ h \in DOMAIN b
    <3>1. g[h] = b[h]
      BY <1>3, <2>4
    <3> QED
      BY <1>2, <1>4, <1>6, <2>1, <2>4, <3>1 DEF Tighter, Access
  <2>5. CASE h \notin DOMAIN a /\ h \notin DOMAIN b
    BY <1>7, <2>1, <2>5
  <2> QED
    BY <2>1, <2>2, <2>3, <2>4, <2>5
<1>9. DOMAIN g \subseteq DOMAIN r.grants \cup DOMAIN t.grants
  BY <1>1, <1>2, <1>7
<1> QED
  BY <1>8, <1>9

LEMMA IntersectIsJail ==
  ASSUME NEW r \in Jail, NEW t \in Jail
  PROVE  Intersect(r, t) \in Jail
<1> DEFINE i == Intersect(r, t)
<1>1. DOMAIN i.grants \subseteq DOMAIN r.grants \cup DOMAIN t.grants
  BY IntersectGrants
<1>2. r.grants \in Grants /\ t.grants \in Grants
  BY DEF Jail
<1>3. DOMAIN i.grants \in SUBSET Host
  BY <1>1, <1>2, GrantFacts
<1>4. \A h \in DOMAIN i.grants : i.grants[h] \in Access
  <2> SUFFICES ASSUME NEW h \in DOMAIN i.grants
               PROVE  i.grants[h] \in Access
    OBVIOUS
  <2>1. Allowance(r, h) \in Access \cup {"none"} /\ Allowance(t, h) \in Access \cup {"none"}
    BY <1>3, AllowanceType
  <2>2. i.grants[h] = Tighter(Allowance(r, h), Allowance(t, h)) /\ i.grants[h] # "none"
    BY IntersectGrants
  <2> QED
    BY <2>1, <2>2 DEF Tighter, Access
<1>5. i.grants = [h \in DOMAIN i.grants |-> i.grants[h]]
  BY DEF Intersect
<1>6. i.grants \in [DOMAIN i.grants -> Access]
  BY <1>4, <1>5
<1>7. i.grants \in Grants
  BY <1>3, <1>6 DEF Grants
<1>8. i = [open |-> i.open, record |-> i.record, auto |-> i.auto,
           grants |-> i.grants, files |-> i.files]
  BY DEF Intersect
<1>9. i.open \in BOOLEAN /\ i.record \in BOOLEAN /\ i.auto \in BOOLEAN
      /\ i.files \in SUBSET Host
  BY DEF Intersect, Jail
<1> QED
  BY <1>7, <1>8, <1>9 DEF Jail

\* Where the longest grant of either jail lies, both allow what they allow at
\* the path.
LEMMA AllowanceBelow ==
  ASSUME NEW j \in Jail, NEW p \in Host, NEW h \in Above[p],
         \A q \in Covering(j.grants, p) : q \in Above[h]
  PROVE  Allowance(j, p) = Allowance(j, h)
<1>1. Above[h] \subseteq Above[p]
  BY AboveFacts
<1>2. Covering(j.grants, h) = Covering(j.grants, p)
  BY <1>1 DEF Covering
<1> QED
  BY <1>2 DEF Allowance

\* "The composition is exact for the mount model": at every path the composed
\* jail allows what the tighter of the two allows there.
THEOREM CompositionIsExact ==
  ASSUME NEW r \in Jail, NEW t \in Jail, NEW p \in Host
  PROVE  Allowance(Intersect(r, t), p) = Tighter(Allowance(r, p), Allowance(t, p))
<1> DEFINE i == Intersect(r, t)
           U == Covering(r.grants, p) \cup Covering(t.grants, p)
<1>1. i \in Jail /\ r.grants \in Grants /\ t.grants \in Grants
  BY IntersectIsJail DEF Jail
<1>2. U \in SUBSET Above[p] /\ Covering(i.grants, p) \subseteq U
  BY <1>1, IntersectGrants DEF Covering
<1>3. i.open = (r.open /\ t.open) /\ r.open \in BOOLEAN /\ t.open \in BOOLEAN
  BY DEF Intersect, Jail
<1>4. CASE U = {}
  <2>1. Allowance(i, p) = IF i.open THEN "rw" ELSE "none"
    BY <1>1, <1>2, <1>4, AllowanceType
  <2>2. /\ Allowance(r, p) = IF r.open THEN "rw" ELSE "none"
        /\ Allowance(t, p) = IF t.open THEN "rw" ELSE "none"
    BY <1>4, AllowanceType
  <2> QED
    BY <1>3, <2>1, <2>2 DEF Tighter
<1>5. CASE U # {}
  <2> DEFINE h == Longest(U)
  <2>1. h \in U /\ \A q \in U : q \in Above[h]
    BY <1>2, <1>5, LongestIsBelow
  <2>2. h \in Above[p] /\ h \in Host
    BY <1>2, <2>1, AboveFacts
  <2>3. Allowance(r, p) = Allowance(r, h) /\ Allowance(t, p) = Allowance(t, h)
    BY <2>1, <2>2, AllowanceBelow
  <2>4. CASE Tighter(Allowance(r, h), Allowance(t, h)) # "none"
    <3>1. h \in DOMAIN i.grants
          /\ i.grants[h] = Tighter(Allowance(r, h), Allowance(t, h))
      BY <2>1, <2>4, IntersectGrants DEF Covering
    <3>2. h \in Covering(i.grants, p) /\ \A q \in Covering(i.grants, p) : q \in Above[h]
      BY <1>2, <2>1, <2>2, <3>1 DEF Covering
    <3>3. Allowance(i, p) = i.grants[h]
      BY <1>1, <3>2, AllowanceIsLongest
    <3> QED
      BY <2>3, <3>1, <3>3
  <2>5. CASE Tighter(Allowance(r, h), Allowance(t, h)) = "none"
    <3>1. Allowance(r, p) = "none" \/ Allowance(t, p) = "none"
      BY <2>2, <2>3, <2>5, AllowanceType DEF Tighter, Access
    <3>2. ~i.open
      BY <1>3, <3>1, AllowanceType
    <3>3. Covering(i.grants, p) = {}
      <4> SUFFICES ASSUME NEW q \in Covering(i.grants, p)
                   PROVE  FALSE
        OBVIOUS
      <4>1. q \in Above[p] /\ q \in Host
        BY <1>1, CoveringFacts, AboveFacts DEF Covering
      <4>2. Tighter(Allowance(r, q), Allowance(t, q)) # "none"
        BY IntersectGrants DEF Covering
      <4>3. Allowance(r, q) # "none" /\ Allowance(t, q) # "none"
        BY <4>2 DEF Tighter
      <4>4. CASE Allowance(r, p) = "none"
        <5>1. Covering(r.grants, q) = {} /\ ~r.open
          BY <1>1, <4>1, <4>4, AllowanceType, CoveringFacts
        <5> QED
          BY <4>1, <4>3, <5>1, AllowanceType
      <4>5. CASE Allowance(t, p) = "none"
        <5>1. Covering(t.grants, q) = {} /\ ~t.open
          BY <1>1, <4>1, <4>5, AllowanceType, CoveringFacts
        <5> QED
          BY <4>1, <4>3, <5>1, AllowanceType
      <4> QED
        BY <3>1, <4>4, <4>5
    <3>4. Allowance(i, p) = "none"
      BY <1>1, <3>2, <3>3, AllowanceType
    <3> QED
      BY <2>3, <2>5, <3>4
  <2> QED
    BY <2>4, <2>5
<1> QED
  BY <1>4, <1>5

\* What the command line composed, the bootstrap composes again with the same
\* request: that changes no allowance.
THEOREM ComposingAgain ==
  ASSUME NEW r \in Jail, NEW t \in Jail, NEW p \in Host
  PROVE  Allowance(Intersect(r, Intersect(r, t)), p) = Allowance(Intersect(r, t), p)
<1>1. Allowance(Intersect(r, t), p) = Tighter(Allowance(r, p), Allowance(t, p))
  BY CompositionIsExact
<1>2. Allowance(Intersect(r, Intersect(r, t)), p)
        = Tighter(Allowance(r, p), Allowance(Intersect(r, t), p))
  BY IntersectIsJail, CompositionIsExact
<1>3. Allowance(r, p) \in Access \cup {"none"} /\ Allowance(t, p) \in Access \cup {"none"}
  BY AllowanceType
<1> QED
  BY <1>1, <1>2, <1>3 DEF Tighter, Access

-----------------------------------------------------------------------------
(* On the way to the program *)

LEMMA OpenJailIsJail == OpenJail \in Jail
<1>1. NoGrants \in [{} -> Access] /\ {} \in SUBSET Host
  BY DEF NoGrants
<1>2. NoGrants \in Grants
  BY <1>1 DEF Grants
<1> QED
  BY <1>2 DEF OpenJail, Jail

LEMMA EffectiveType ==
  ASSUME NEW r \in Jail \cup {NoJail}, NEW u \in Jail \cup {NoJail}
  PROVE  Effective(r, u) \in Jail \cup {NoJail}
BY IntersectIsJail DEF Effective

LEMMA ToEnvSpecFacts ==
  ASSUME NEW j \in Jail, NEW p \in Host
  PROVE  /\ ToEnvSpec(j) \in Jail
         /\ ToEnvSpec(j).record = j.record
         /\ ~j.record => Allowance(ToEnvSpec(j), p) = Allowance(j, p)
<1> DEFINE e == ToEnvSpec(j)
<1>1. CASE j.record
  <2>1. e = [OpenJail EXCEPT !.record = TRUE]
    BY <1>1 DEF ToEnvSpec
  <2> QED
    BY <1>1, <2>1, OpenJailIsJail DEF Jail
<1>2. CASE ~j.record
  <2>1. e = [j EXCEPT !.auto = FALSE, !.files = IF j.auto THEN j.files \cup Argv ELSE j.files]
    BY <1>2 DEF ToEnvSpec
  <2>2. Argv \subseteq Host
    BY JailAssumption
  <2>3. e \in Jail /\ e.record = j.record
    BY <2>1, <2>2 DEF Jail
  <2>4. e.grants = j.grants /\ e.open = j.open
    BY <2>1 DEF Jail
  <2> QED
    BY <1>2, <2>3, <2>4 DEF Allowance
<1> QED
  BY <1>1, <1>2

LEMMA ExportedType ==
  ASSUME NEW r \in Jail \cup {NoJail}, NEW u \in Jail \cup {NoJail}, Host # {}
  PROVE  Exported(r, u) \in Jail \cup {NoJail}
<1>1. \A j \in Jail : ToEnvSpec(j) \in Jail
  BY ToEnvSpecFacts
<1> QED
  BY <1>1, EffectiveType DEF Exported

\* A jail that is exported as none at all had nothing to say.
LEMMA TriviallyOpenAllows ==
  ASSUME NEW j \in Jail, NEW p \in Host, TriviallyOpen(j)
  PROVE  Allowance(j, p) = "rw"
<1>1. Covering(j.grants, p) = {}
  BY DEF TriviallyOpen, Covering
<1> QED
  BY <1>1 DEF TriviallyOpen, Allowance

\* A surface passes on no more than the request and what reached it both allow,
\* unless what reached it records.
LEMMA ExportedAllows ==
  ASSUME NEW r \in Jail \cup {NoJail}, NEW u \in Jail \cup {NoJail},
         NEW p \in Host, NEW need \in Access,
         Allows(Exported(r, u), p, need)
  PROVE  \/ u # NoJail /\ u.record
         \/ Allows(r, p, need) /\ Allows(u, p, need)
<1> DEFINE j == Effective(r, u)
<1>1. j \in Jail \cup {NoJail}
  BY EffectiveType
<1>2. Allows(j, p, need)
  <2>1. CASE j = NoJail
    BY <2>1 DEF Allows
  <2>2. CASE j # NoJail /\ TriviallyOpen(j)
    BY <1>1, <2>2, TriviallyOpenAllows DEF Allows
  <2>3. CASE j # NoJail /\ ~TriviallyOpen(j)
    <3>1. Exported(r, u) = ToEnvSpec(j) /\ j \in Jail
      BY <1>1, <2>3 DEF Exported
    <3>2. Exported(r, u) \in Jail /\ Exported(r, u) # NoJail
      BY <3>1, ToEnvSpecFacts, NoJailAssumption
    <3>3. CASE j.record
      BY <3>3 DEF Allows
    <3>4. CASE ~j.record
      <4>1. ~Exported(r, u).record /\ Allowance(Exported(r, u), p) = Allowance(j, p)
        BY <3>1, <3>4, ToEnvSpecFacts
      <4> QED
        BY <3>2, <4>1 DEF Allows
    <3> QED
      BY <3>3, <3>4
  <2> QED
    BY <2>1, <2>2, <2>3
<1>3. CASE r = NoJail \/ u = NoJail
  BY <1>2, <1>3 DEF Effective, Allows
<1>4. CASE r # NoJail /\ u # NoJail /\ ~u.record
  <2>1. j = Intersect(r, u) /\ r \in Jail /\ u \in Jail
    BY <1>4 DEF Effective
  <2>2. j # NoJail /\ ~j.record
    BY <2>1, IntersectIsJail, NoJailAssumption DEF Intersect
  <2>3. Allowance(j, p) = Tighter(Allowance(r, p), Allowance(u, p))
    BY <2>1, CompositionIsExact
  <2>4. Allowance(r, p) \in Access \cup {"none"} /\ Allowance(u, p) \in Access \cup {"none"}
    BY <2>1, AllowanceType
  <2>5. Allowance(j, p) = "rw" \/ (need = "ro" /\ Allowance(j, p) = "ro")
    BY <1>2, <2>2 DEF Allows
  <2> QED
    BY <2>3, <2>4, <2>5 DEF Tighter, Access, Allows
<1> QED
  BY <1>3, <1>4

\* What the command line exports and the bootstrap exports again allows no
\* more than the package's request and the user's jail both do.
THEOREM ExportedTwiceAllows ==
  ASSUME NEW r \in Jail \cup {NoJail}, NEW u \in Jail \cup {NoJail},
         NEW p \in Host, NEW need \in Access,
         Allows(Exported(r, Exported(r, u)), p, need)
  PROVE  \/ u # NoJail /\ u.record
         \/ Allows(r, p, need) /\ Allows(u, p, need)
<1> DEFINE e == Exported(r, u)
<1>1. e \in Jail \cup {NoJail}
  BY ExportedType
<1>2. Allows(e, p, need)
  <2>1. \/ e # NoJail /\ e.record
        \/ Allows(e, p, need)
    BY <1>1, ExportedAllows
  <2> QED
    BY <2>1 DEF Allows
<1> QED
  BY <1>2, ExportedAllows

-----------------------------------------------------------------------------
(* In the engine *)

LEMMA MergedFacts ==
  ASSUME NEW j \in Jail
  PROVE  LET all == Bind(j).grants IN
         /\ DOMAIN all \subseteq Host
         /\ \A h \in DOMAIN all :
              IF h \in DOMAIN j.grants THEN all[h] = j.grants[h] /\ all[h] \in Access
              ELSE h \in Floor /\ all[h] = "ro"
         /\ DOMAIN j.grants \subseteq DOMAIN all
<1>1. j.grants \in Grants /\ Floor \subseteq Host
  BY JailAssumption DEF Jail
<1>2. DOMAIN j.grants \subseteq Host /\ \A h \in DOMAIN j.grants : j.grants[h] \in Access
  BY <1>1, GrantFacts
<1> QED
  BY <1>1, <1>2 DEF Bind, Merged, FloorGrants

\* The engine lets through what the jail allows, and the courtesies.
THEOREM CheckIsFaithful ==
  ASSUME NEW j \in Jail, NEW p \in Host, NEW need \in Access,
         Check(Bind(j), p, need) = "ok"
  PROVE  Allows(j, p, need) \/ (need = "ro" /\ Courteous(Bind(j), p))
<1> DEFINE b == Bind(j)
           covering == Covering(b.grants, p)
<1>1. b.record = j.record /\ b.open = j.open /\ b.files = j.files
  BY DEF Bind
<1>2. CASE j.record
  BY <1>2 DEF Allows
<1>3. CASE need = "ro" /\ p \in b.files \cup b.traverse
  BY <1>3 DEF Courteous
<1>4. CASE ~j.record /\ ~(need = "ro" /\ p \in b.files \cup b.traverse) /\ covering # {}
  <2> DEFINE h == Longest(covering)
  <2>1. covering \in SUBSET Above[p]
    BY DEF Covering
  <2>2. h \in covering /\ \A q \in covering : q \in Above[h]
    BY <1>4, <2>1, LongestIsBelow
  <2>3. ~(need = "rw" /\ b.grants[h] = "ro")
    BY <1>1, <1>4 DEF Check
  <2>4. h \in DOMAIN b.grants /\ h \in Above[p]
    BY <2>2 DEF Covering
  <2>5. CASE h \in DOMAIN j.grants
    <3>1. h \in Covering(j.grants, p) /\ Covering(j.grants, p) \subseteq covering
      <4>1. DOMAIN j.grants \subseteq DOMAIN b.grants
        BY MergedFacts
      <4> QED
        BY <2>2, <2>5, <4>1, Zenon DEF Covering
    <3>2. Allowance(j, p) = j.grants[h]
      BY <2>2, <3>1, AllowanceIsLongest
    <3>3. b.grants[h] = j.grants[h] /\ j.grants[h] \in Access
      BY <2>5, <2>4, MergedFacts
    <3> QED
      BY <2>3, <3>2, <3>3 DEF Allows, Access
  <2>6. CASE h \notin DOMAIN j.grants
    <3>1. h \in Floor /\ b.grants[h] = "ro" /\ h \in Above[p]
      BY <2>6, <2>4, MergedFacts
    <3> QED
      BY <2>3, <3>1 DEF Courteous, Access
  <2> QED
    BY <2>5, <2>6
<1>5. CASE ~j.record /\ ~(need = "ro" /\ p \in b.files \cup b.traverse) /\ covering = {}
  <2>1. j.open
    BY <1>1, <1>5 DEF Check
  <2>2. Covering(j.grants, p) = {}
    BY <1>5, MergedFacts DEF Covering
  <2> QED
    BY <2>1, <2>2 DEF Allows, Allowance
<1> QED
  BY <1>2, <1>3, <1>4, <1>5

-----------------------------------------------------------------------------
(* The threads *)

Phase == {"test", "ask", "check", "more"}

\* The places of a call where its thread has entered the engine, and all.
Entered == {"wait", "inside", "worked"}

Place == Entered \cup {"gate", "cache", "caching", "map", "unmap", "fail", "real"}

AnyHandle == [kind : {"fd", "dir"}, side : {"vfs", "host"}, no : Nat]

AnyFrame == [op : OnPath \cup OnFd \cup OnDir, on : Host \cup AnyHandle,
             phase : Phase, at : Place]

TypeOK ==
  /\ alive \subseteq Thread
  /\ stack \in [Thread -> Seq(AnyFrame)]
  /\ guard \in [Thread -> BOOLEAN]
  /\ opened \subseteq AnyHandle /\ calls \in Nat

\* How the environment and the policy come about.
Composed ==
  /\ request \in Requests /\ user \in Users
  /\ stage \in {"command", "package", "library", "program"}
  /\ stage = "package" => env = Exported(request, user)
  /\ stage \in {"library", "program"} =>
       env = Exported(request, Exported(request, user))
  /\ stage = "program" => policy = Bind(IF env = NoJail THEN OpenJail ELSE env)

\* Where the calls of each kind get to.
FrameOK(f) ==
  /\ f \in AnyFrame
  /\ f.op \in OnPath => f.on \in Host
  /\ f.phase = "test" => f.op \in OnDir
  /\ f.at \in {"cache", "caching"} => f.op \in OnDir
  /\ f.at \in {"map", "unmap"} => f.op = "mmap"
  /\ f.at = "fail" => f.op # "mmap"
  /\ f.op \in OnFd /\ f.at = "real" => f.on.side = "host"

\* Outside a fork child a path reaches the real call past a check, but for a
\* file of an image, which the engine has put on the host.
Checked(f) ==
  f.op \in OnPath /\ f.at = "real" /\ ~child
    /\ ~(mounted /\ f.op \in {"load", "exec"} /\ Held[f.on] = "file")
      => Check(policy, f.on, Need(f.op)) = "ok"

\* A thread has at most one call of the engine's above the program's, which
\* waits for no lock; IN_ENGINE is set exactly while it is in the engine; and it
\* has a mapping that is not the program's only while it maps.
ThreadOK(t) ==
  LET s == stack[t] IN
  /\ Len(s) <= 2
  /\ \A i \in 1 .. Len(s) : FrameOK(s[i])
  /\ guard[t] <=> (Len(s) > 0 /\ s[1].at \in Entered)
  /\ Len(s) = 2 => s[1].at = "worked" /\ s[2].op = "stat" /\ s[2].at \in {"gate", "real"}
  /\ Len(s) > 0 => Checked(s[1])
  /\ t \in alive \cap anon => Len(s) > 0 /\ s[1].op = "mmap" /\ s[1].at # "real"
  /\ stage # "program" => Len(s) = 0

Threads == \A t \in Thread : ThreadOK(t)

IInv == TypeOK /\ Composed /\ Threads

-----------------------------------------------------------------------------
(* Stacks *)

LEMMA TopFacts ==
  ASSUME TypeOK, NEW t \in Thread, ThreadOK(t), Busy(t)
  PROVE  /\ Len(stack[t]) = 1 \/ Len(stack[t]) = 2
         /\ stack[t] \in Seq(AnyFrame)
         /\ Top(t) = stack[t][Len(stack[t])] /\ FrameOK(Top(t))
         /\ Top(t).at \notin {"gate", "real"} => Len(stack[t]) = 1 /\ Top(t) = stack[t][1]
<1>1. stack[t] \in Seq(AnyFrame) /\ Len(stack[t]) \in Nat /\ Len(stack[t]) <= 2
  BY DEF TypeOK, ThreadOK
<1>2. Len(stack[t]) # 0
  BY <1>1 DEF Busy
<1>3. Len(stack[t]) = 1 \/ Len(stack[t]) = 2
  <2>1. \A n \in Nat : n <= 2 /\ n # 0 => n = 1 \/ n = 2
    OBVIOUS
  <2> QED
    BY <1>1, <1>2, <2>1
<1>4. FrameOK(Top(t))
  BY <1>3 DEF ThreadOK, Top
<1>5. CASE Len(stack[t]) = 2
  BY <1>1, <1>4, <1>5 DEF ThreadOK, Top
<1> QED
  BY <1>1, <1>3, <1>4, <1>5 DEF Top

LEMMA FrameFacts ==
  ASSUME NEW r \in AnyFrame, NEW phase \in Phase, NEW at \in Place
  PROVE  /\ Frame(r.op, r.on, phase, at) \in AnyFrame
         /\ [r EXCEPT !.at = at] = Frame(r.op, r.on, r.phase, at)
<1>1. Frame(r.op, r.on, phase, at) \in AnyFrame
  BY DEF AnyFrame, Frame
<1>2. r = [op |-> r.op, on |-> r.on, phase |-> r.phase, at |-> r.at]
  BY DEF AnyFrame
<1>3. [r EXCEPT !.at = at] = Frame(r.op, r.on, r.phase, at)
  BY <1>2 DEF Frame
<1> QED
  BY <1>1, <1>3

\* r is s with the frame f on top; r is s without its top.
TopIs(r, s, f) ==
  /\ r \in Seq(AnyFrame) /\ Len(r) = Len(s) /\ r[Len(s)] = f
  /\ \A i \in 1 .. Len(s) - 1 : r[i] = s[i]

WithoutTop(r, s) ==
  /\ r \in Seq(AnyFrame) /\ Len(r) = Len(s) - 1
  /\ \A i \in 1 .. Len(s) - 1 : r[i] = s[i]

LEMMA ReplaceFacts ==
  ASSUME NEW s \in Seq(AnyFrame), Len(s) = 1 \/ Len(s) = 2, NEW f \in AnyFrame
  PROVE  TopIs([s EXCEPT ![Len(s)] = f], s, f)
<1>1. ASSUME NEW n \in 1 .. Len(s)
      PROVE  /\ [s EXCEPT ![n] = f] \in Seq(AnyFrame)
             /\ Len([s EXCEPT ![n] = f]) = Len(s)
             /\ [s EXCEPT ![n] = f][n] = f
             /\ \A i \in 1 .. Len(s) : i # n => [s EXCEPT ![n] = f][i] = s[i]
  OBVIOUS
<1>2. /\ Len(s) \in 1 .. Len(s)
      /\ \A i \in 1 .. Len(s) - 1 : i \in 1 .. Len(s) /\ i # Len(s)
  OBVIOUS
<1> QED
  BY <1>1, <1>2, Zenon DEF TopIs

LEMMA DropFacts ==
  ASSUME NEW s \in Seq(AnyFrame), Len(s) = 1 \/ Len(s) = 2
  PROVE  WithoutTop(SubSeq(s, 1, Len(s) - 1), s)
<1>1. ASSUME NEW m \in 0 .. Len(s)
      PROVE  /\ SubSeq(s, 1, m) \in Seq(AnyFrame) /\ Len(SubSeq(s, 1, m)) = m
             /\ \A i \in 1 .. m : SubSeq(s, 1, m)[i] = s[i]
  OBVIOUS
<1>2. Len(s) - 1 \in 0 .. Len(s)
  OBVIOUS
<1> QED
  BY <1>1, <1>2, Zenon DEF WithoutTop

\* The call on top goes on, in this or in another of its engine calls.
LEMMA GoToFacts ==
  ASSUME TypeOK, NEW t \in Thread, ThreadOK(t), Busy(t),
         NEW phase \in Phase, NEW at \in Place, GoTo(t, phase, at)
  PROVE  LET n == Len(stack[t]) IN
         /\ stack' \in [Thread -> Seq(AnyFrame)] /\ Len(stack'[t]) = n
         /\ stack'[t][n] = Frame(Top(t).op, Top(t).on, phase, at)
         /\ \A i \in 1 .. n - 1 : stack'[t][i] = stack[t][i]
         /\ \A u \in Thread \ {t} : stack'[u] = stack[u]
<1> DEFINE n == Len(stack[t])
           f == Frame(Top(t).op, Top(t).on, phase, at)
<1>1. (n = 1 \/ n = 2) /\ stack[t] \in Seq(AnyFrame) /\ Top(t) = stack[t][n] /\ Top(t) \in AnyFrame
  BY TopFacts DEF FrameOK
<1>2. f \in AnyFrame
  BY <1>1, FrameFacts
<1>3. stack' = [stack EXCEPT ![t] = [stack[t] EXCEPT ![n] = f]]
  BY <1>1, <1>2 DEF GoTo, TypeOK
<1>4. TopIs([stack[t] EXCEPT ![n] = f], stack[t], f)
  BY <1>1, <1>2, ReplaceFacts
<1> HIDE DEF f
<1>5. /\ stack' \in [Thread -> Seq(AnyFrame)] /\ TopIs(stack'[t], stack[t], f)
      /\ \A u \in Thread \ {t} : stack'[u] = stack[u]
  BY <1>3, <1>4 DEF TypeOK, TopIs
<1> QED
  BY <1>5 DEF TopIs, f

LEMMA GoFacts ==
  ASSUME TypeOK, NEW t \in Thread, ThreadOK(t), Busy(t), NEW at \in Place, Go(t, at)
  PROVE  LET n == Len(stack[t]) IN
         /\ stack' \in [Thread -> Seq(AnyFrame)] /\ Len(stack'[t]) = n
         /\ stack'[t][n] = Frame(Top(t).op, Top(t).on, Top(t).phase, at)
         /\ \A i \in 1 .. n - 1 : stack'[t][i] = stack[t][i]
         /\ \A u \in Thread \ {t} : stack'[u] = stack[u]
<1> DEFINE n == Len(stack[t])
           f == Frame(Top(t).op, Top(t).on, Top(t).phase, at)
<1>1. (n = 1 \/ n = 2) /\ stack[t] \in Seq(AnyFrame) /\ Top(t) = stack[t][n] /\ Top(t) \in AnyFrame
  BY TopFacts DEF FrameOK
<1>2. [Top(t) EXCEPT !.at = at] = f /\ f \in AnyFrame
  <2>1. Top(t).phase \in Phase
    BY <1>1 DEF AnyFrame
  <2> QED
    BY <1>1, <2>1, FrameFacts
<1>3. stack' = [stack EXCEPT ![t] = [stack[t] EXCEPT ![n] = f]]
  BY <1>1, <1>2 DEF Go, TypeOK
<1>4. TopIs([stack[t] EXCEPT ![n] = f], stack[t], f)
  BY <1>1, <1>2, ReplaceFacts
<1> HIDE DEF f
<1>5. /\ stack' \in [Thread -> Seq(AnyFrame)] /\ TopIs(stack'[t], stack[t], f)
      /\ \A u \in Thread \ {t} : stack'[u] = stack[u]
  BY <1>3, <1>4 DEF TypeOK, TopIs
<1> QED
  BY <1>5 DEF TopIs, f

LEMMA ReturnFacts ==
  ASSUME TypeOK, NEW t \in Thread, ThreadOK(t), Busy(t), Return(t)
  PROVE  /\ stack' \in [Thread -> Seq(AnyFrame)]
         /\ Len(stack'[t]) = Len(stack[t]) - 1
         /\ \A i \in 1 .. Len(stack[t]) - 1 : stack'[t][i] = stack[t][i]
         /\ \A u \in Thread \ {t} : stack'[u] = stack[u]
<1> DEFINE n == Len(stack[t])
<1>1. (n = 1 \/ n = 2) /\ stack[t] \in Seq(AnyFrame)
  BY TopFacts
<1>2. WithoutTop(SubSeq(stack[t], 1, n - 1), stack[t])
  BY <1>1, DropFacts
<1>3. stack' = [stack EXCEPT ![t] = SubSeq(stack[t], 1, n - 1)]
  BY DEF Return
<1>4. /\ stack' \in [Thread -> Seq(AnyFrame)] /\ WithoutTop(stack'[t], stack[t])
      /\ \A u \in Thread \ {t} : stack'[u] = stack[u]
  BY <1>2, <1>3 DEF TypeOK, WithoutTop
<1> QED
  BY <1>4 DEF WithoutTop

-----------------------------------------------------------------------------
(* What is left of the invariant to show for one thread's step *)

\* All that a step of t leaves alone.
Elsewhere(t) ==
  /\ UNCHANGED <<setup, alive, child>>
  /\ stack' \in [Thread -> Seq(AnyFrame)] /\ guard' \in [Thread -> BOOLEAN]
  /\ opened' \subseteq AnyHandle /\ calls' \in Nat
  /\ \A u \in Thread \ {t} : /\ stack'[u] = stack[u] /\ guard'[u] = guard[u]
                             /\ u \in anon' => u \in anon

LEMMA StepOK ==
  ASSUME IInv, NEW t \in Thread, Elsewhere(t), ThreadOK(t)'
  PROVE  IInv'
<1>1. TypeOK' /\ Composed'
  BY DEF IInv, TypeOK, Composed, Elsewhere, setup
<1>2. ASSUME NEW u \in Thread \ {t}
      PROVE  ThreadOK(u)'
  <2>1. ThreadOK(u)
    BY DEF IInv, Threads
  <2>2. /\ stack'[u] = stack[u] /\ guard'[u] = guard[u]
        /\ u \in alive' \cap anon' => u \in alive \cap anon
        /\ UNCHANGED <<stage, policy, mounted, child>>
    BY DEF Elsewhere, setup
  <2> QED
    BY <2>1, <2>2 DEF ThreadOK, Checked, FrameOK
<1> QED
  BY <1>1, <1>2 DEF IInv, Threads

LEMMA BusyFacts ==
  ASSUME IInv, NEW t \in Thread, Busy(t)
  PROVE  stage = "program" /\ TypeOK /\ ThreadOK(t) /\ t \in alive
<1>1. TypeOK /\ ThreadOK(t)
  BY DEF IInv, Threads
<1> QED
  BY <1>1, TopFacts DEF Busy, ThreadOK

\* The program's call goes on as frame f.
LEMMA MovedOK ==
  ASSUME IInv, NEW t \in Thread, stage = "program", Elsewhere(t), NEW f, FrameOK(f),
         Len(stack'[t]) = 1, stack'[t][1] = f,
         guard'[t] <=> f.at \in Entered, Checked(f),
         t \in anon' => f.op = "mmap" /\ f.at # "real"
  PROVE  IInv'
<1>1. ThreadOK(t)'
  BY DEF ThreadOK, Checked, FrameOK, Elsewhere, setup
<1> QED
  BY <1>1, StepOK

\* The program's call returns.
LEMMA LeftOK ==
  ASSUME IInv, NEW t \in Thread, stage = "program", Elsewhere(t),
         Len(stack'[t]) = 0, ~guard'[t], t \notin anon'
  PROVE  IInv'
<1>1. stack'[t] \in Seq(AnyFrame)
  BY DEF Elsewhere
<1>2. ThreadOK(t)'
  BY <1>1 DEF ThreadOK, Checked, Elsewhere, setup
<1> QED
  BY <1>2, StepOK

LEMMA GivenFacts ==
  ASSUME TypeOK, NEW t, NEW side \in {"vfs", "host"}
  PROVE  Given(t, side) \subseteq AnyHandle
BY DEF Given, Handle, AnyHandle, TypeOK

\* The program's call, when it is not at its gate nor at the real one, is alone.
LEMMA Alone ==
  ASSUME IInv, NEW t \in Thread, Busy(t), Top(t).at \notin {"gate", "real"}
  PROVE  /\ Len(stack[t]) = 1 /\ Top(t) = stack[t][1] /\ FrameOK(Top(t))
         /\ Top(t).phase \in Phase /\ Top(t).at \in Place
         /\ guard[t] <=> Top(t).at \in Entered
         /\ t \in anon => Top(t).op = "mmap"
         /\ stage = "program" /\ TypeOK /\ ThreadOK(t) /\ t \in alive
<1>1. stage = "program" /\ TypeOK /\ ThreadOK(t) /\ t \in alive
  BY BusyFacts
<1>2. Len(stack[t]) = 1 /\ Top(t) = stack[t][1] /\ FrameOK(Top(t))
  BY <1>1, TopFacts
<1>3. Top(t) \in AnyFrame
  BY <1>2 DEF FrameOK
<1>4. Top(t).phase \in Phase /\ Top(t).at \in Place
  BY <1>3 DEF AnyFrame
<1> QED
  BY <1>1, <1>2, <1>4 DEF ThreadOK

-----------------------------------------------------------------------------
(* Threads *)

LEMMA CallOK == ASSUME IInv, NEW t \in Thread, Call(t) PROVE IInv'
<1>1. /\ stage = "program" /\ t \in alive /\ stack[t] = <<>>
      /\ UNCHANGED <<setup, alive, child, guard, lock, cache, opened, anon>>
      /\ calls' = calls + 1 /\ TypeOK /\ ThreadOK(t)
  BY DEF Call, IInv, Threads
<1>2. PICK op \in OnPath \cup OnFd \cup OnDir, on \in Host \cup AnyHandle :
        /\ op \in OnPath => on \in Host
        /\ op \notin OnPath => on \in AnyHandle
        /\ stack' = [stack EXCEPT ![t] = <<Begin(op, on)>>]
  <2>1. CASE \E op \in Operation \cap OnPath : \E p \in Probe :
               stack' = [stack EXCEPT ![t] = <<Begin(op, p)>>]
    BY <2>1, PreloadAssumption
  <2>2. CASE \E op \in Operation \ OnPath : \E h \in opened :
               MayCall(op, h) /\ stack' = [stack EXCEPT ![t] = <<Begin(op, h)>>]
    <3>1. PICK op \in Operation \ OnPath, h \in opened :
            MayCall(op, h) /\ stack' = [stack EXCEPT ![t] = <<Begin(op, h)>>]
      BY <2>2
    <3>2. op \in OnPath \cup OnFd \cup OnDir
      BY <3>1, PreloadAssumption
    <3> QED
      BY <1>1, <3>1, <3>2 DEF TypeOK
  <2> QED
    BY <2>1, <2>2 DEF Call
<1> DEFINE f == Begin(op, on)
<1>3. f = Frame(op, on, f.phase, f.at) /\ f.phase \in {"test", "ask"} /\ f.at \in {"gate", "real", "map"}
  BY DEF Begin, Frame
<1>4. f \in AnyFrame
  BY <1>3 DEF AnyFrame, Frame, Phase, Place
<1>5. /\ f.op = op /\ f.on = on
      /\ f.phase = "test" => op \in OnDir
      /\ f.at = "map" => op = "mmap"
      /\ f.at = "real" => op \in OnFd /\ on.side = "host"
  BY DEF Begin, Frame
<1>6. FrameOK(f) /\ Checked(f)
  BY <1>2, <1>3, <1>4, <1>5 DEF FrameOK, Checked, OnPath, OnFd, OnDir
<1>7. stack'[t] = <<f>> /\ <<f>> \in Seq(AnyFrame) /\ Len(stack'[t]) = 1 /\ stack'[t][1] = f
  BY <1>1, <1>2, <1>4 DEF TypeOK
<1>8. ~guard[t] /\ t \notin anon
  BY <1>1 DEF ThreadOK
<1> HIDE DEF f
<1>9. Elsewhere(t)
  BY <1>1, <1>2, <1>7 DEF Elsewhere, TypeOK
<1> QED
  BY <1>1, <1>3, <1>6, <1>7, <1>8, <1>9, MovedOK DEF Entered

LEMMA HostIOOK == ASSUME IInv, NEW t \in Thread, HostIO(t) PROVE IInv'
<1>1. /\ Busy(t) /\ Top(t).at = "inside"
      /\ UNCHANGED <<setup, alive, child, guard, lock, cache, opened, anon, calls>>
  BY DEF HostIO
<1>2. /\ Len(stack[t]) = 1 /\ Top(t) = stack[t][1] /\ FrameOK(Top(t)) /\ guard[t]
      /\ Top(t).phase \in Phase
      /\ t \in anon => Top(t).op = "mmap"
      /\ stage = "program" /\ TypeOK /\ ThreadOK(t)
  BY <1>1, Alone DEF Entered
<1> DEFINE r == Top(t)
           f == Frame(r.op, r.on, r.phase, "worked")
<1>3. r \in AnyFrame /\ f \in AnyFrame /\ [r EXCEPT !.at = "worked"] = f
  <2>1. r \in AnyFrame /\ r.phase \in Phase
    BY <1>2 DEF FrameOK
  <2>2. "worked" \in Place
    BY DEF Place, Entered
  <2> QED
    BY <2>1, <2>2, FrameFacts
<1>4. PICK p \in Internal :
        stack' = [stack EXCEPT ![t] = <<f, Frame("stat", p, "ask", "gate")>>]
  <2>1. PICK p \in Internal :
          stack' = [stack EXCEPT ![t] =
                      <<[stack[t][1] EXCEPT !.at = "worked"], Frame("stat", p, "ask", "gate")>>]
    BY DEF HostIO
  <2>2. [stack[t][1] EXCEPT !.at = "worked"] = f
    BY <1>2, <1>3
  <2> HIDE DEF f
  <2>3. stack' = [stack EXCEPT ![t] = <<f, Frame("stat", p, "ask", "gate")>>]
    BY <2>1, <2>2
  <2> QED
    BY <2>3
<1> DEFINE g == Frame("stat", p, "ask", "gate")
<1>5. g \in AnyFrame /\ FrameOK(g)
  BY PreloadAssumption DEF AnyFrame, Frame, FrameOK, OnPath, OnFd, OnDir, Phase, Place
<1>6. FrameOK(f) /\ Checked(f)
  BY <1>2, <1>3 DEF FrameOK, Frame, Checked
<1>7. f.at = "worked" /\ f.op = r.op /\ g.op = "stat" /\ g.at = "gate"
  BY DEF Frame
<1> HIDE DEF f, g
<1>8. /\ stack'[t] = <<f, g>> /\ <<f, g>> \in Seq(AnyFrame)
      /\ Len(stack'[t]) = 2 /\ stack'[t][1] = f /\ stack'[t][2] = g
  BY <1>2, <1>3, <1>4, <1>5 DEF TypeOK, g
<1>9. Elsewhere(t)
  BY <1>1, <1>2, <1>4, <1>8 DEF Elsewhere, TypeOK, g
<1>10. \A i \in 1 .. 2 : FrameOK(stack'[t][i])
  BY <1>5, <1>6, <1>8
<1>11. ThreadOK(t)'
  BY <1>1, <1>2, <1>6, <1>7, <1>8, <1>10 DEF ThreadOK, Checked, Entered, setup, FrameOK
<1> QED
  BY <1>9, <1>11, StepOK

LEMMA PlaceFacts ==
  /\ \A at \in Entered : at \in Place /\ at \notin {"gate", "real", "cache", "caching",
                                                  "map", "unmap", "fail"}
  /\ {"wait", "inside", "worked"} \subseteq Entered
  /\ {"gate", "cache", "caching", "map", "unmap", "fail", "real"} \subseteq Place \ Entered
  /\ {"test", "ask", "check", "more"} \subseteq Phase
BY DEF Place, Entered, Phase

\* The program's call goes on, when that leaves it where calls of its kind get to.
LEMMA GoesOK ==
  ASSUME IInv, NEW t \in Thread, Busy(t), Top(t).at \notin {"gate", "real"},
         NEW phase \in Phase, NEW at \in Place,
         (Go(t, at) /\ phase = Top(t).phase) \/ (GoTo(t, phase, at) /\ phase # "test"),
         UNCHANGED <<setup, alive, child, calls>>, opened' \subseteq AnyHandle,
         guard' = guard \/ guard' = [guard EXCEPT ![t] = FALSE],
         guard'[t] <=> at \in Entered,
         anon' = anon \/ anon' = anon \cup {t},
         t \in anon' => Top(t).op = "mmap" /\ at # "real",
         at \in {"cache", "caching"} => Top(t).op \in OnDir,
         at \in {"map", "unmap"} => Top(t).op = "mmap",
         at = "fail" => Top(t).op # "mmap",
         at = "real" => Top(t).op \notin OnFd,
         Checked(Frame(Top(t).op, Top(t).on, phase, at))
  PROVE  IInv'
<1> DEFINE r == Top(t)
           f == Frame(r.op, r.on, phase, at)
<1>1. /\ Len(stack[t]) = 1 /\ FrameOK(r) /\ stage = "program" /\ TypeOK /\ ThreadOK(t)
  BY Alone
<1>2. /\ stack' \in [Thread -> Seq(AnyFrame)] /\ Len(stack'[t]) = 1 /\ stack'[t][1] = f
      /\ \A u \in Thread \ {t} : stack'[u] = stack[u]
  BY <1>1, GoFacts, GoToFacts
<1>3. r \in AnyFrame /\ f \in AnyFrame
  BY <1>1, FrameFacts DEF FrameOK
<1>4. f.op = r.op /\ f.on = r.on /\ f.phase = phase /\ f.at = at
  BY DEF Frame
<1> HIDE DEF f
<1>5. FrameOK(f)
  BY <1>1, <1>3, <1>4 DEF FrameOK
<1>6. Elsewhere(t)
  BY <1>1, <1>2 DEF Elsewhere, TypeOK
<1> QED
  BY <1>1, <1>2, <1>4, <1>5, <1>6, MovedOK DEF f

LEMMA LeavesOK ==
  ASSUME IInv, NEW t \in Thread, Busy(t), Top(t).at \notin {"gate", "real"}, Return(t),
         UNCHANGED <<setup, alive, child, calls>>, opened' \subseteq AnyHandle,
         guard' = guard \/ guard' = [guard EXCEPT ![t] = FALSE], ~guard'[t],
         anon' = anon \/ anon' = anon \ {t}, t \notin anon'
  PROVE  IInv'
<1>1. Len(stack[t]) = 1 /\ stage = "program" /\ TypeOK /\ ThreadOK(t)
  BY Alone
<1>2. /\ stack' \in [Thread -> Seq(AnyFrame)] /\ Len(stack'[t]) = 0
      /\ \A u \in Thread \ {t} : stack'[u] = stack[u]
  <2>1. /\ stack' \in [Thread -> Seq(AnyFrame)]
        /\ Len(stack'[t]) = Len(stack[t]) - 1
        /\ \A u \in Thread \ {t} : stack'[u] = stack[u]
    BY <1>1, ReturnFacts
  <2> QED
    BY <1>1, <2>1
<1>3. Elsewhere(t)
  BY <1>1, <1>2 DEF Elsewhere, TypeOK
<1> QED
  BY <1>1, <1>2, <1>3, LeftOK

LEMMA AcquireOK == ASSUME IInv, NEW t \in Thread, Acquire(t) PROVE IInv'
<1>1. /\ Busy(t) /\ Top(t).at = "wait" /\ Go(t, "inside")
      /\ UNCHANGED <<setup, alive, child, guard, cache, opened, anon, calls>>
  BY DEF Acquire
<1>2. /\ guard[t] /\ (t \in anon => Top(t).op = "mmap") /\ TypeOK /\ Top(t).phase \in Phase
  BY <1>1, Alone DEF Entered
<1>3. Checked(Frame(Top(t).op, Top(t).on, Top(t).phase, "inside"))
  BY DEF Checked, Frame
<1> QED
  BY <1>1, <1>2, <1>3, GoesOK, PlaceFacts DEF TypeOK

LEMMA RecheckOK == ASSUME IInv, NEW t \in Thread, Recheck(t) PROVE IInv'
<1>1. /\ Busy(t) /\ Top(t).at \in {"inside", "worked"} /\ GoTo(t, "check", "wait")
      /\ UNCHANGED <<setup, alive, child, guard, cache, opened, anon, calls>>
  BY DEF Recheck, Out
<1>2. guard[t] /\ (t \in anon => Top(t).op = "mmap") /\ TypeOK
  BY <1>1, Alone DEF Entered
<1>3. Checked(Frame(Top(t).op, Top(t).on, "check", "wait"))
  BY DEF Checked, Frame
<1> QED
  BY <1>1, <1>2, <1>3, GoesOK, PlaceFacts DEF TypeOK

LEMMA PathOK == ASSUME IInv, NEW t \in Thread, Path(t) PROVE IInv'
<1> DEFINE f == Top(t)
           answer == Answer(f.op, f.on)
<1>1. /\ Busy(t) /\ f.at \in {"inside", "worked"} /\ f.op \in OnPath
      /\ UNCHANGED <<setup, alive, child, cache, anon, calls>>
      /\ guard' = [guard EXCEPT ![t] = FALSE]
      /\ opened' = IF answer = "vfs" THEN opened \cup Given(t, "vfs") ELSE opened
  BY DEF Path, Out, Release
<1>2. /\ TypeOK /\ f.phase \in Phase /\ f.op # "mmap" /\ t \notin anon
      /\ f.op \notin OnFd /\ f.at \notin {"gate", "real"} /\ ~guard'[t]
      /\ opened' \subseteq AnyHandle
  BY <1>1, Alone, GivenFacts DEF Entered, OnPath, OnFd, TypeOK
<1>3. CASE Return(t)
  BY <1>1, <1>2, <1>3, LeavesOK
<1>4. CASE Go(t, "real") /\ (answer = "host" \/ (answer = "vfs" /\ f.op \in {"load", "exec"}))
  <2>1. Checked(Frame(f.op, f.on, f.phase, "real"))
    <3>1. CASE answer = "host"
      <4>1. Check(policy, f.on, Need(f.op)) = "ok"
        BY <3>1 DEF Answer
      <4> QED
        BY <4>1 DEF Checked, Frame
    <3>2. CASE answer = "vfs" /\ f.op \in {"load", "exec"}
      <4>1. mounted /\ Held[f.on] = "file"
        BY <3>2 DEF Answer, Need
      <4> QED
        BY <3>2, <4>1 DEF Checked, Frame
    <3> QED
      BY <1>4, <3>1, <3>2
  <2> QED
    BY <1>1, <1>2, <1>4, <2>1, GoesOK, PlaceFacts
<1>5. Return(t) \/ (Go(t, "real") /\ (answer = "host" \/ (answer = "vfs" /\ f.op \in {"load", "exec"})))
  BY DEF Path
<1> QED
  BY <1>3, <1>4, <1>5

LEMMA TestOK == ASSUME IInv, NEW t \in Thread, Test(t) PROVE IInv'
<1> DEFINE f == Top(t)
<1>1. /\ Busy(t) /\ f.at \in {"inside", "worked"} /\ f.phase = "test"
      /\ UNCHANGED <<setup, alive, child, cache, opened, anon, calls>>
      /\ guard' = [guard EXCEPT ![t] = FALSE]
  BY DEF Test, Out, Release
<1>2. /\ TypeOK /\ f.op \in OnDir /\ t \notin anon /\ f.at \notin {"gate", "real"}
      /\ f.op \notin OnFd \cup OnPath /\ ~guard'[t] /\ opened' \subseteq AnyHandle
      /\ f.phase \in Phase /\ f.op # "mmap"
  BY <1>1, Alone DEF OnPath, OnFd, OnDir, TypeOK, FrameOK
<1>3. ASSUME NEW phase, NEW at PROVE Checked(Frame(f.op, f.on, phase, at))
  BY <1>2 DEF Checked, Frame
<1>4. \/ Go(t, "real") \/ GoTo(t, "ask", "cache") \/ GoTo(t, "ask", "gate")
  BY DEF Test
<1> HIDE DEF f
<1>5. CASE Go(t, "real")
  BY <1>1, <1>2, <1>3, <1>5, GoesOK, PlaceFacts DEF f
<1>6. CASE GoTo(t, "ask", "cache")
  BY <1>1, <1>2, <1>3, <1>6, GoesOK, PlaceFacts DEF f
<1>7. CASE GoTo(t, "ask", "gate")
  BY <1>1, <1>2, <1>3, <1>7, GoesOK, PlaceFacts DEF f
<1> QED
  BY <1>4, <1>5, <1>6, <1>7

LEMMA ServeOK == ASSUME IInv, NEW t \in Thread, Serve(t) PROVE IInv'
<1> DEFINE f == Top(t)
<1>1. /\ Busy(t) /\ f.at \in {"inside", "worked"} /\ f.op \in (OnFd \ {"mmap"}) \cup OnDir
      /\ UNCHANGED <<setup, alive, child, cache, anon, calls>>
      /\ guard' = [guard EXCEPT ![t] = FALSE] /\ opened' \subseteq opened
      /\ (f.op = "readdir" /\ Go(t, "cache")) \/ Return(t)
  BY DEF Serve, Out, Release
<1>2. /\ TypeOK /\ t \notin anon /\ f.at \notin {"gate", "real"} /\ f.op # "mmap"
      /\ ~guard'[t] /\ opened' \subseteq AnyHandle /\ f.phase \in Phase
  BY <1>1, Alone DEF OnDir, TypeOK
<1>3. CASE Return(t)
  BY <1>1, <1>2, <1>3, LeavesOK
<1>4. CASE f.op = "readdir" /\ Go(t, "cache")
  <2>1. Checked(Frame(f.op, f.on, f.phase, "cache"))
    BY DEF Checked, Frame
  <2> QED
    BY <1>1, <1>2, <1>4, <2>1, GoesOK, PlaceFacts DEF OnDir
<1> QED
  BY <1>1, <1>3, <1>4

LEMMA CacheOK == ASSUME IInv, NEW t \in Thread, LockCache(t) \/ UnlockCache(t) PROVE IInv'
<1> DEFINE f == Top(t)
<1>1. /\ Busy(t) /\ f.at \in {"cache", "caching"}
      /\ UNCHANGED <<setup, alive, child, guard, lock, opened, anon, calls>>
      /\ \/ Go(t, "caching")
         \/ f.op = "closedir" /\ Go(t, "gate")
         \/ Return(t)
  BY DEF LockCache, UnlockCache
<1>2. /\ TypeOK /\ f.op \in OnDir /\ f.op # "mmap" /\ f.op \notin OnFd /\ t \notin anon
      /\ f.at \notin {"gate", "real"} /\ ~guard[t] /\ opened \subseteq AnyHandle
      /\ f.phase \in Phase
  BY <1>1, Alone, PlaceFacts DEF FrameOK, OnDir, OnFd, TypeOK
<1>3. CASE Return(t)
  BY <1>1, <1>2, <1>3, LeavesOK
<1>4. ASSUME NEW at \in {"caching", "gate"}, Go(t, at) PROVE IInv'
  <2>1. Checked(Frame(f.op, f.on, f.phase, at))
    BY <1>4 DEF Checked, Frame
  <2>2. at \in Place /\ at \notin Entered /\ at \notin {"map", "unmap", "fail", "real"}
    BY <1>4, PlaceFacts
  <2> QED
    BY <1>1, <1>2, <1>4, <2>1, <2>2, GoesOK
<1> QED
  BY <1>1, <1>3, <1>4

LEMMA MapOK == ASSUME IInv, NEW t \in Thread, Map(t) PROVE IInv'
<1> DEFINE f == Top(t)
<1>1. /\ Busy(t) /\ f.at = "map" /\ Go(t, "gate") /\ anon' = anon \cup {t}
      /\ UNCHANGED <<setup, alive, child, guard, lock, cache, opened, calls>>
  BY DEF Map
<1>2. /\ TypeOK /\ f.op = "mmap" /\ ~guard[t] /\ opened \subseteq AnyHandle /\ f.phase \in Phase
  BY <1>1, Alone, PlaceFacts DEF FrameOK, TypeOK
<1>3. Checked(Frame(f.op, f.on, f.phase, "gate"))
  BY DEF Checked, Frame
<1> QED
  BY <1>1, <1>2, <1>3, GoesOK, PlaceFacts

LEMMA FillOK == ASSUME IInv, NEW t \in Thread, Fill(t) PROVE IInv'
<1> DEFINE f == Top(t)
<1>1. /\ Busy(t) /\ f.at \in {"inside", "worked"} /\ f.op = "mmap"
      /\ UNCHANGED <<setup, alive, child, cache, opened, calls>>
      /\ guard' = [guard EXCEPT ![t] = FALSE]
      /\ \/ GoTo(t, "more", "gate") /\ anon' = anon
         \/ Return(t) /\ anon' = anon \ {t}
         \/ Go(t, "unmap") /\ anon' = anon
  BY DEF Fill, Out, Release
<1>2. TypeOK /\ ~guard'[t] /\ opened \subseteq AnyHandle /\ f.phase \in Phase
  BY <1>1, Alone DEF TypeOK
<1>3. ASSUME NEW phase, NEW at PROVE Checked(Frame(f.op, f.on, phase, at))
  BY <1>1 DEF Checked, Frame, OnPath
<1>4. "gate" \in Place \ Entered /\ "unmap" \in Place \ Entered /\ "more" \in Phase
  BY PlaceFacts
<1>5. CASE GoTo(t, "more", "gate") /\ anon' = anon
  BY <1>1, <1>2, <1>3, <1>4, <1>5, GoesOK
<1>6. CASE Return(t) /\ anon' = anon \ {t}
  BY <1>1, <1>2, <1>6, LeavesOK
<1>7. CASE Go(t, "unmap") /\ anon' = anon
  BY <1>1, <1>2, <1>3, <1>4, <1>7, GoesOK
<1> QED
  BY <1>1, <1>5, <1>6, <1>7

LEMMA UnmapOK == ASSUME IInv, NEW t \in Thread, Unmap(t) PROVE IInv'
<1>1. /\ Busy(t) /\ Top(t).at = "unmap" /\ Return(t) /\ anon' = anon \ {t}
      /\ UNCHANGED <<setup, alive, child, guard, lock, cache, opened, calls>>
  BY DEF Unmap
<1>2. ~guard[t] /\ opened \subseteq AnyHandle
  BY <1>1, Alone, PlaceFacts DEF TypeOK
<1> QED
  BY <1>1, <1>2, LeavesOK

LEMMA FailedOK == ASSUME IInv, NEW t \in Thread, Failed(t) PROVE IInv'
<1>1. /\ Busy(t) /\ Top(t).at = "fail" /\ Return(t)
      /\ UNCHANGED <<setup, alive, child, guard, lock, cache, opened, anon, calls>>
  BY DEF Failed
<1>2. ~guard[t] /\ opened \subseteq AnyHandle /\ t \notin anon
  BY <1>1, Alone, PlaceFacts DEF TypeOK, FrameOK
<1> QED
  BY <1>1, <1>2, LeavesOK

\* At the gate of the program's call the thread is not in the engine, so that it
\* stays out in a fork child only; at that of the engine's it is.
LEMMA GateOK == ASSUME IInv, NEW t \in Thread, Gate(t) PROVE IInv'
<1> DEFINE r == Top(t)
<1>1. /\ Busy(t) /\ r.at = "gate"
      /\ UNCHANGED <<setup, alive, child, lock, cache, opened, anon, calls>>
      /\ \/ MayEnter(t) /\ Go(t, "wait") /\ guard' = [guard EXCEPT ![t] = TRUE]
         \/ ~MayEnter(t) /\ Go(t, Outside(r)) /\ guard' = guard
  BY DEF Gate
<1>2. stage = "program" /\ TypeOK /\ ThreadOK(t) /\ t \in alive
  BY <1>1, BusyFacts
<1>3. /\ Len(stack[t]) = 1 \/ Len(stack[t]) = 2
      /\ r = stack[t][Len(stack[t])] /\ FrameOK(r) /\ r \in AnyFrame
  BY <1>1, <1>2, TopFacts DEF FrameOK
<1>4. Outside(r) \in {"unmap", "fail", "real"}
  BY DEF Outside
<1>5. PICK at \in {"wait", "unmap", "fail", "real"} :
        /\ Go(t, at)
        /\ \/ at = "wait" /\ MayEnter(t) /\ guard' = [guard EXCEPT ![t] = TRUE]
           \/ at = Outside(r) /\ ~MayEnter(t) /\ guard' = guard
  BY <1>1, <1>4
<1> DEFINE f == Frame(r.op, r.on, r.phase, at)
<1>6. /\ stack' \in [Thread -> Seq(AnyFrame)] /\ Len(stack'[t]) = Len(stack[t])
      /\ stack'[t][Len(stack[t])] = f
      /\ \A i \in 1 .. Len(stack[t]) - 1 : stack'[t][i] = stack[t][i]
      /\ \A u \in Thread \ {t} : stack'[u] = stack[u]
  <2>1. at \in Place
    BY PlaceFacts
  <2> QED
    BY <1>1, <1>2, <1>5, <2>1, GoFacts
<1>7. f.op = r.op /\ f.on = r.on /\ f.phase = r.phase /\ f.at = at
  BY DEF Frame
<1>8. FrameOK(f)
  <2>1. r.phase \in Phase /\ at \in Place
    BY <1>3, PlaceFacts DEF AnyFrame
  <2>2. f \in AnyFrame
    BY <1>3, <2>1, FrameFacts
  <2> QED
    BY <1>3, <1>5, <1>7, <2>2 DEF FrameOK, Outside, OnFd, OnDir
<1> HIDE DEF f
<1>9. Elsewhere(t)
  BY <1>1, <1>2, <1>5, <1>6 DEF Elsewhere, TypeOK
<1>10. CASE Len(stack[t]) = 1
  <2>1. ~guard[t] /\ (t \in anon => r.op = "mmap")
    BY <1>1, <1>2, <1>3, <1>10, PlaceFacts DEF ThreadOK
  <2>2. at = "real" => child /\ r.op # "mmap"
    BY <1>5, <2>1 DEF MayEnter, Outside
  <2>3. guard'[t] <=> f.at \in Entered
    BY <1>2, <1>5, <1>7, <2>1, PlaceFacts DEF TypeOK, Outside
  <2>4. Checked(f)
    BY <1>7, <2>2 DEF Checked
  <2>5. stack'[t][1] = f /\ Len(stack'[t]) = 1
    BY <1>6, <1>10
  <2> QED
    BY <1>1, <1>2, <1>7, <1>8, <1>9, <2>1, <2>2, <2>3, <2>4, <2>5, MovedOK
<1>11. CASE Len(stack[t]) = 2
  <2>1. guard[t] /\ r.op = "stat" /\ stack[t][1].at = "worked"
    BY <1>2, <1>3, <1>11, PlaceFacts DEF ThreadOK
  <2>2. at = "real" /\ guard' = guard
    BY <1>5, <2>1 DEF MayEnter, Outside, OnFd, OnDir
  <2>3. stack'[t][1] = stack[t][1] /\ stack'[t][2] = f /\ Len(stack'[t]) = 2
    BY <1>6, <1>11
  <2>4. FrameOK(stack[t][1]) /\ Checked(stack[t][1])
        /\ (t \in anon => stack[t][1].op = "mmap")
    BY <1>2, <1>11 DEF ThreadOK
  <2>5. \A i \in 1 .. 2 : FrameOK(stack'[t][i])
    BY <1>8, <2>3, <2>4
  <2>6. stage' = "program" /\ anon' = anon /\ alive' = alive
    BY <1>1, <1>2 DEF setup
  <2>7. Checked(stack[t][1])'
    BY <2>1, <2>3 DEF Checked
  <2>8. ThreadOK(t)'
    <3>1. guard'[t] /\ stack'[t][1].at \in Entered
      BY <2>1, <2>2, <2>3, PlaceFacts
    <3>2. stack'[t][1].at = "worked" /\ f.op = "stat" /\ f.at = "real"
      BY <1>7, <2>1, <2>2, <2>3
    <3>3. t \in alive' \cap anon' => stack'[t][1].op = "mmap" /\ stack'[t][1].at # "real"
      BY <2>3, <2>4, <2>6, <3>2
    <3> QED
      BY <2>3, <2>5, <2>6, <2>7, <3>1, <3>2, <3>3 DEF ThreadOK
  <2> QED
    BY <1>9, <2>8, StepOK
<1> QED
  BY <1>3, <1>10, <1>11

LEMMA RealOK == ASSUME IInv, NEW t \in Thread, Real(t) PROVE IInv'
<1>1. /\ Busy(t) /\ Top(t).at = "real" /\ Return(t)
      /\ UNCHANGED <<setup, alive, child, guard, lock, cache, anon, calls>>
  BY DEF Real
<1>2. stage = "program" /\ TypeOK /\ ThreadOK(t) /\ t \in alive
  BY <1>1, BusyFacts
<1>3. (Len(stack[t]) = 1 \/ Len(stack[t]) = 2) /\ Top(t) = stack[t][Len(stack[t])]
  BY <1>1, <1>2, TopFacts
<1>4. opened' \subseteq AnyHandle
  BY <1>2, GivenFacts DEF Real, TypeOK
<1>5. /\ stack' \in [Thread -> Seq(AnyFrame)] /\ Len(stack'[t]) = Len(stack[t]) - 1
      /\ \A i \in 1 .. Len(stack[t]) - 1 : stack'[t][i] = stack[t][i]
      /\ \A u \in Thread \ {t} : stack'[u] = stack[u]
  BY <1>1, <1>2, ReturnFacts
<1>6. Elsewhere(t)
  BY <1>1, <1>2, <1>4, <1>5 DEF Elsewhere, TypeOK
<1>7. CASE Len(stack[t]) = 1
  <2>1. Len(stack'[t]) = 0 /\ ~guard[t] /\ t \notin anon
    BY <1>1, <1>2, <1>3, <1>5, <1>7, PlaceFacts DEF ThreadOK
  <2> QED
    BY <1>1, <1>2, <1>6, <2>1, LeftOK
<1>8. CASE Len(stack[t]) = 2
  <2> DEFINE f == stack[t][1]
  <2>1. /\ FrameOK(f) /\ Checked(f) /\ f.at = "worked" /\ guard[t]
        /\ t \in anon => f.op = "mmap"
    BY <1>2, <1>8, PlaceFacts DEF ThreadOK
  <2>2. Len(stack'[t]) = 1 /\ stack'[t][1] = f
    BY <1>5, <1>8
  <2> QED
    BY <1>1, <1>2, <1>6, <2>1, <2>2, PlaceFacts, MovedOK
<1> QED
  BY <1>3, <1>7, <1>8

-----------------------------------------------------------------------------
(* The process *)

\* Where every thread starts afresh.
LEMMA FreshOK ==
  ASSUME TypeOK, alive' \subseteq Thread, opened' \subseteq opened, calls' = calls,
         guard' = [u \in Thread |-> FALSE], stack' = [u \in Thread |-> <<>>], anon' = {}
  PROVE  TypeOK' /\ Threads'
<1>1. <<>> \in Seq(AnyFrame) /\ Len(<<>>) = 0
  OBVIOUS
<1>2. TypeOK'
  BY <1>1 DEF TypeOK
<1>3. ASSUME NEW u \in Thread PROVE ThreadOK(u)'
  <2>1. stack'[u] = <<>> /\ Len(stack'[u]) = 0 /\ ~guard'[u] /\ u \notin anon'
    BY <1>1
  <2> QED
    BY <2>1 DEF ThreadOK
<1> QED
  BY <1>2, <1>3 DEF Threads

LEMMA ExecOK == ASSUME IInv, NEW t \in Thread, Exec(t) PROVE IInv'
<1>1. Composed'
  BY BusyFacts DEF Exec, Composed, IInv
<1> QED
  BY <1>1, FreshOK DEF Exec, IInv

LEMMA ForkOK == ASSUME IInv, NEW t \in Thread, Fork(t) PROVE IInv'
<1>1. Composed'
  BY DEF Fork, setup, Composed, IInv
<1> QED
  BY <1>1, FreshOK DEF Fork, IInv

LEMMA StageOK == ASSUME IInv, Command \/ Package \/ Initialize PROVE IInv'
<1>1. UNCHANGED <<request, user, mounted, process, calls>> /\ stage # "program"
  BY DEF Command, Package, Initialize
<1>2. TypeOK'
  BY <1>1 DEF IInv, TypeOK, process
<1>3. Composed'
  BY DEF IInv, Composed, Command, Package, Initialize
<1>4. ASSUME NEW u \in Thread PROVE ThreadOK(u)'
  <2>1. ThreadOK(u) /\ Len(stack[u]) = 0
    BY <1>1 DEF IInv, Threads, ThreadOK
  <2>2. stack'[u] = stack[u] /\ guard'[u] = guard[u] /\ alive' = alive /\ anon' = anon
    BY <1>1 DEF process
  <2> QED
    BY <2>1, <2>2 DEF ThreadOK
<1> QED
  BY <1>2, <1>3, <1>4 DEF IInv, Threads

LEMMA InitOK == Init => IInv
<1> SUFFICES ASSUME Init PROVE IInv
  OBVIOUS
<1>1. <<>> \in Seq(AnyFrame) /\ Len(<<>>) = 0
  OBVIOUS
<1>2. TypeOK
  BY <1>1 DEF Init, TypeOK
<1>3. Composed
  BY DEF Init, Composed
<1>4. ASSUME NEW u \in Thread PROVE ThreadOK(u)
  <2>1. stack[u] = <<>> /\ Len(stack[u]) = 0 /\ ~guard[u] /\ u \notin anon
    BY <1>1 DEF Init
  <2> QED
    BY <2>1 DEF ThreadOK
<1> QED
  BY <1>2, <1>3, <1>4 DEF IInv, Threads

\* The invariant holds whatever the threads do, fork and execute.
THEOREM PreloadInvariance == Spec => []IInv
<1>1. ASSUME IInv, UNCHANGED vars PROVE IInv'
  BY <1>1 DEF IInv, TypeOK, Composed, Threads, ThreadOK, Checked, FrameOK,
              vars, setup, process
<1>2. ASSUME IInv, NEW t \in Thread, Step(t) PROVE IInv'
  BY <1>2, GateOK, AcquireOK, RecheckOK, PathOK, TestOK, ServeOK, CacheOK, MapOK,
     FillOK, UnmapOK, FailedOK, RealOK, ExecOK DEF Step
<1>3. IInv /\ [Next]_vars => IInv'
  BY <1>1, <1>2, StageOK, CallOK, HostIOOK, ForkOK DEF Next
<1> QED
  BY InitOK, <1>3, PTL DEF Spec

-----------------------------------------------------------------------------
(* The properties *)

LEMMA HostStates == IInv => HostOnlyAsAllowed
<1> SUFFICES ASSUME IInv, NEW t \in alive, stack[t] # <<>>,
                    stack[t][1].op \in OnPath, stack[t][1].at = "real", ~child,
                    ~(mounted /\ stack[t][1].op \in {"load", "exec"}
                        /\ Held[stack[t][1].on] = "file"),
                    ~(user # NoJail /\ user.record),
                    NEW j \in {request, user}
             PROVE  \/ Allows(j, stack[t][1].on, Need(stack[t][1].op))
                    \/ Need(stack[t][1].op) = "ro" /\ Courteous(policy, stack[t][1].on)
  BY DEF HostOnlyAsAllowed
<1> DEFINE p == stack[t][1].on
           need == Need(stack[t][1].op)
           b == IF env = NoJail THEN OpenJail ELSE env
<1>1. t \in Thread /\ Busy(t) /\ ThreadOK(t) /\ TypeOK /\ stage = "program" /\ Composed
  BY BusyFacts DEF IInv, TypeOK, Busy
<1>2. Len(stack[t]) = 1 \/ Len(stack[t]) = 2
  BY <1>1, TopFacts
<1>3. FrameOK(stack[t][1]) /\ Checked(stack[t][1])
  BY <1>1, <1>2 DEF ThreadOK
<1>4. p \in Host /\ need \in Access
  BY <1>3 DEF FrameOK, Need, Access
<1>5. Check(policy, p, need) = "ok"
  BY <1>3 DEF Checked
<1>6. request \in Jail \cup {NoJail} /\ user \in Jail \cup {NoJail}
  BY <1>1, PreloadAssumption DEF Composed
<1>7. env = Exported(request, Exported(request, user)) /\ policy = Bind(b)
  BY <1>1 DEF Composed
<1>8. env \in Jail \cup {NoJail}
  BY <1>4, <1>6, <1>7, ExportedType
<1>9. b \in Jail
  BY <1>8, OpenJailIsJail
<1> HIDE DEF p, need
<1>10. Allows(b, p, need) \/ (need = "ro" /\ Courteous(policy, p))
  BY <1>4, <1>5, <1>7, <1>9, CheckIsFaithful
<1>11. Allows(b, p, need) => Allows(env, p, need)
  BY DEF Allows
<1>12. Allows(env, p, need) => Allows(request, p, need) /\ Allows(user, p, need)
  BY <1>4, <1>6, <1>7, ExportedTwiceAllows
<1> QED
  BY <1>10, <1>11, <1>12 DEF p, need

\* Through whatever surfaces the jails came, and whatever threads, forks and
\* programs run: the program reaches of the host what request and user both
\* allow.
THEOREM HostAsAllowed == Spec => []HostOnlyAsAllowed
BY PreloadInvariance, HostStates, PTL

LEMMA MappingStates == IInv => MappingsAreReturned
<1> SUFFICES ASSUME IInv, NEW t \in alive, t \in anon
             PROVE  stack[t] # <<>> /\ stack[t][1].op = "mmap"
  BY DEF MappingsAreReturned
<1>1. t \in Thread /\ ThreadOK(t) /\ stack[t] \in Seq(AnyFrame)
  BY DEF IInv, TypeOK, Threads
<1>2. Len(stack[t]) > 0 /\ stack[t][1].op = "mmap"
  BY <1>1 DEF ThreadOK
<1> QED
  BY <1>1, <1>2

\* No call leaves a mapping behind, at whatever place it fails.
THEOREM MappingsReturned == Spec => []MappingsAreReturned
BY PreloadInvariance, MappingStates, PTL

LEMMA DescriptorStates == IInv => DescriptorsStayInside
<1> SUFFICES ASSUME IInv, NEW t \in alive, NEW i \in DOMAIN stack[t],
                    stack[t][i].op \in OnFd, stack[t][i].at = "real"
             PROVE  stack[t][i].on.side = "host"
  BY DEF DescriptorsStayInside
<1>1. t \in Thread /\ ThreadOK(t) /\ stack[t] \in Seq(AnyFrame)
  BY DEF IInv, TypeOK, Threads
<1>2. FrameOK(stack[t][i])
  BY <1>1 DEF ThreadOK
<1> QED
  BY <1>2 DEF FrameOK

\* A descriptor of the engine's is never handed to the real call, not even by a
\* fork child that has inherited it (which StreamsStayInside denies of streams).
THEOREM DescriptorsInside == Spec => []DescriptorsStayInside
BY PreloadInvariance, DescriptorStates, PTL
=============================================================================
