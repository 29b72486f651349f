---------------------------- MODULE RoutingProofs ---------------------------
(***************************************************************************)
(* Proofs about Routing, for every application: after #applyMounts the     *)
(* lists of a Server hold what the application declared for it and for     *)
(* the Servers mounted in it, each once and at its place.                  *)
(*                                                                         *)
(* #applyMounts and what a declaration means are recursive functions over  *)
(* the Servers, and the concatenation of lists is one over a sequence.     *)
(* That they exist, and what they compute, is proved by induction; the     *)
(* induction is over sets of numbers, from the least element of a set.     *)
(***************************************************************************)
EXTENDS Routing, WellFoundedInduction, TLAPS

-----------------------------------------------------------------------------
(* Induction.                                                              *)

NatLess == {ss \in Nat \X Nat : ss[1] < ss[2]}

LEMMA Least ==
  ASSUME NEW T, T \subseteq Nat, T # {}
  PROVE  \E n \in T : \A m \in T : n <= m
<1>1. IsWellFoundedOn(NatLess, Nat)
  BY NatLessThanWellFounded DEF OpToRel, NatLess
<1>2. PICK n \in T : \A m \in T : ~(<<m, n>> \in NatLess)
  BY <1>1, WFMin
<1>3. \A m \in T : n \in Nat /\ m \in Nat /\ (m < n => <<m, n>> \in NatLess)
  BY DEF NatLess
<1>4. \A m \in T : n \in Nat /\ m \in Nat /\ ~(m < n)
  BY <1>2, <1>3, Zenon
<1>5. \A m \in T : n <= m
  BY <1>4
<1> QED BY <1>5

LEMMA Induction ==
  ASSUME NEW T, 0 \in T, \A n \in T : n \in Nat => n + 1 \in T
  PROVE  Nat \subseteq T
<1> SUFFICES ASSUME NEW k \in Nat, k \notin T PROVE FALSE
  OBVIOUS
<1>1. PICK n \in Nat \ T : \A m \in Nat \ T : n <= m
  BY Least
<1>2. n - 1 \in Nat
  BY <1>1
<1>3. n - 1 \in T
  BY <1>1, <1>2
<1>4. (n - 1) + 1 = n
  BY <1>2
<1> QED BY <1>1, <1>2, <1>3, <1>4

\* From the last number down: the Servers a Server mounts come after it.
LEMMA Downward ==
  ASSUME NEW n \in Nat, NEW T, \A i \in 1 .. n : (\A j \in i + 1 .. n : j \in T) => i \in T
  PROVE  \A i \in 1 .. n : i \in T
<1> DEFINE U == {d \in Nat : \A i \in 1 .. n : n - i < d => i \in T}
<1>1. 0 \in U
  OBVIOUS
<1>2. ASSUME NEW d \in U, d \in Nat PROVE d + 1 \in U
  <2> SUFFICES ASSUME NEW i \in 1 .. n, n - i < d + 1 PROVE i \in T
    OBVIOUS
  <2>1. \A j \in i + 1 .. n : j \in 1 .. n /\ n - j < d
    OBVIOUS
  <2> QED BY <2>1
<1>3. n + 1 \in U
  BY <1>1, <1>2, Induction
<1> QED BY <1>3

-----------------------------------------------------------------------------
(* Lists.                                                                  *)

LEMMA CatFacts ==
  ASSUME NEW S, NEW s \in Seq(S), NEW t \in Seq(S)
  PROVE  /\ s \o t \in Seq(S) /\ ToSet(s \o t) = ToSet(s) \union ToSet(t)
         /\ Distinct(s) /\ Distinct(t) /\ Ids(ToSet(s)) \intersect Ids(ToSet(t)) = {} =>
              Distinct(s \o t)
<1>1. /\ s \o t \in Seq(S) /\ Len(s) \in Nat /\ Len(t) \in Nat /\ Len(s \o t) = Len(s) + Len(t)
      /\ DOMAIN s = 1 .. Len(s) /\ DOMAIN t = 1 .. Len(t) /\ DOMAIN (s \o t) = 1 .. Len(s) + Len(t)
  OBVIOUS
<1>2. \A k \in DOMAIN s : k \in DOMAIN (s \o t) /\ (s \o t)[k] = s[k]
  BY <1>1
<1>3. \A k \in DOMAIN t : Len(s) + k \in DOMAIN (s \o t) /\ (s \o t)[Len(s) + k] = t[k]
  BY <1>1
<1>4. \A k \in DOMAIN (s \o t) : k \in DOMAIN s \/ (k - Len(s) \in DOMAIN t /\ k = Len(s) + (k - Len(s)))
  BY <1>1
<1>5. ToSet(s \o t) = ToSet(s) \union ToSet(t)
  <2>1. ASSUME NEW x \in ToSet(s) \union ToSet(t) PROVE x \in ToSet(s \o t)
    BY <1>2, <1>3 DEF ToSet
  <2>2. ASSUME NEW x \in ToSet(s \o t) PROVE x \in ToSet(s) \union ToSet(t)
    <3>1. PICK k \in DOMAIN (s \o t) : x = (s \o t)[k]
      BY DEF ToSet
    <3>2. CASE k \in DOMAIN s
      BY <1>2, <3>1, <3>2 DEF ToSet
    <3>3. CASE k - Len(s) \in DOMAIN t /\ k = Len(s) + (k - Len(s))
      BY <1>3, <3>1, <3>3 DEF ToSet
    <3> QED BY <1>4, <3>2, <3>3
  <2> QED BY <2>1, <2>2
<1>6. ASSUME Distinct(s), Distinct(t), Ids(ToSet(s)) \intersect Ids(ToSet(t)) = {},
             NEW j \in DOMAIN (s \o t), NEW k \in DOMAIN (s \o t), (s \o t)[j].id = (s \o t)[k].id
      PROVE  j = k
  <2>0. ASSUME NEW a \in DOMAIN s, NEW b \in DOMAIN t PROVE s[a].id # t[b].id
    BY <1>6 DEF Ids, ToSet
  <2>1. CASE j \in DOMAIN s /\ k \in DOMAIN s
    BY <1>2, <1>6, <2>1 DEF Distinct
  <2>2. CASE j \in DOMAIN s /\ k - Len(s) \in DOMAIN t /\ k = Len(s) + (k - Len(s))
    BY <1>2, <1>3, <1>6, <2>0, <2>2
  <2>3. CASE k \in DOMAIN s /\ j - Len(s) \in DOMAIN t /\ j = Len(s) + (j - Len(s))
    BY <1>2, <1>3, <1>6, <2>0, <2>3
  <2>4. CASE /\ k - Len(s) \in DOMAIN t /\ k = Len(s) + (k - Len(s))
             /\ j - Len(s) \in DOMAIN t /\ j = Len(s) + (j - Len(s))
    <3>1. t[j - Len(s)].id = t[k - Len(s)].id
      BY <1>3, <1>6, <2>4
    <3>2. j - Len(s) = k - Len(s)
      BY <1>6, <2>4, <3>1 DEF Distinct
    <3> QED BY <2>4, <3>2
  <2> QED BY <1>4, <2>1, <2>2, <2>3, <2>4
<1>7. Distinct(s) /\ Distinct(t) /\ Ids(ToSet(s)) \intersect Ids(ToSet(t)) = {} => Distinct(s \o t)
  BY <1>6 DEF Distinct
<1> QED BY <1>1, <1>5, <1>7

\* FlattenSeq adds one list after the other.
Flattens(g, parts, n) == g = [i \in 1 .. n |-> IF i = 1 THEN parts[i] ELSE g[i - 1] \o parts[i]]

LEMMA FlattenUnfold ==
  ASSUME NEW parts, Len(parts) \in Nat, Len(parts) # 0
  PROVE  \E g : Flattens(g, parts, Len(parts)) /\ FlattenSeq(parts) = g[Len(parts)]
<1> DEFINE T == {n \in Nat : \E g : Flattens(g, parts, n)}
<1>1. 0 \in T
  <2>1. Flattens([i \in 1 .. 0 |-> parts[i]], parts, 0)
    BY DEF Flattens
  <2> QED BY <2>1
<1>2. ASSUME NEW n \in T, n \in Nat PROVE n + 1 \in T
  <2>1. PICK g : Flattens(g, parts, n)
    OBVIOUS
  <2> DEFINE h == [i \in 1 .. n + 1 |-> IF i = n + 1 THEN (IF n = 0 THEN parts[1] ELSE g[n] \o parts[n + 1])
                                                     ELSE g[i]]
  <2>2. ASSUME NEW i \in 1 .. n + 1
        PROVE  h[i] = IF i = 1 THEN parts[i] ELSE h[i - 1] \o parts[i]
    <3>1. CASE i = n + 1 /\ n = 0
      BY <3>1
    <3>2. CASE i = n + 1 /\ n # 0
      <4>1. i # 1 /\ i - 1 = n /\ h[n] = g[n]
        BY <3>2
      <4> QED BY <3>2, <4>1
    <3>3. CASE i # n + 1
      <4>1. i \in 1 .. n /\ h[i] = g[i] /\ (i # 1 => h[i - 1] = g[i - 1])
        BY <3>3
      <4> QED BY <2>1, <4>1 DEF Flattens
    <3> QED BY <3>1, <3>2, <3>3
  <2>3. h = [i \in 1 .. n + 1 |-> IF i = 1 THEN parts[i] ELSE h[i - 1] \o parts[i]]
    <3> DEFINE f == [i \in 1 .. n + 1 |-> IF i = 1 THEN parts[i] ELSE h[i - 1] \o parts[i]]
    <3>1. \A i \in 1 .. n + 1 : h[i] = f[i]
      BY <2>2
    <3> QED BY <3>1
  <2>4. Flattens(h, parts, n + 1)
    BY <2>3 DEF Flattens
  <2> QED BY <2>4
<1>3. \E g : Flattens(g, parts, Len(parts))
  BY <1>1, <1>2, Induction
<1>4. FlattenSeq(parts) = (CHOOSE g : Flattens(g, parts, Len(parts)))[Len(parts)]
  BY DEF FlattenSeq, Flattens
<1> QED BY <1>3, <1>4

\* The lists hold different ids, each once.
Apart(parts) ==
  /\ \A k \in DOMAIN parts : Distinct(parts[k])
  /\ \A k, l \in DOMAIN parts : k # l => Ids(ToSet(parts[k])) \intersect Ids(ToSet(parts[l])) = {}

Together(parts) == UNION {ToSet(parts[k]) : k \in DOMAIN parts}

LEMMA FlattenFacts ==
  ASSUME NEW S, NEW parts \in Seq(Seq(S))
  PROVE  /\ FlattenSeq(parts) \in Seq(S)
         /\ ToSet(FlattenSeq(parts)) = Together(parts)
         /\ Apart(parts) => Distinct(FlattenSeq(parts))
<1>0. Len(parts) \in Nat /\ DOMAIN parts = 1 .. Len(parts) /\ \A k \in DOMAIN parts : parts[k] \in Seq(S)
  OBVIOUS
<1>1. CASE Len(parts) = 0
  <2>1. FlattenSeq(parts) = <<>> /\ DOMAIN parts = {}
    BY <1>0, <1>1 DEF FlattenSeq
  <2> QED BY <2>1 DEF Together, ToSet, Distinct
<1>2. CASE Len(parts) # 0
  <2>1. PICK g : Flattens(g, parts, Len(parts)) /\ FlattenSeq(parts) = g[Len(parts)]
    BY <1>0, <1>2, FlattenUnfold
  <2> DEFINE Upto(n) == UNION {ToSet(parts[k]) : k \in 1 .. n}
             T == {n \in Nat : n + 1 \in DOMAIN parts =>
                     /\ g[n + 1] \in Seq(S) /\ ToSet(g[n + 1]) = Upto(n + 1)
                     /\ Apart(parts) => Distinct(g[n + 1])}
  <2>2. 0 \in T
    <3>1. g[1] = parts[1] /\ 1 \in DOMAIN parts /\ 1 .. 1 = {1}
      BY <1>0, <1>2, <2>1 DEF Flattens
    <3> QED BY <1>0, <3>1 DEF Apart
  <2>3. ASSUME NEW n \in T, n \in Nat PROVE n + 1 \in T
    <3> SUFFICES ASSUME (n + 1) + 1 \in DOMAIN parts
                 PROVE  /\ g[(n + 1) + 1] \in Seq(S) /\ ToSet(g[(n + 1) + 1]) = Upto((n + 1) + 1)
                        /\ Apart(parts) => Distinct(g[(n + 1) + 1])
      OBVIOUS
    <3> DEFINE m == n + 1
    <3>1. m \in DOMAIN parts /\ m \in Nat /\ m + 1 \in DOMAIN parts
      BY <1>0
    <3>2. g[m + 1] = g[m] \o parts[m + 1]
      <4>1. m + 1 \in 1 .. Len(parts) /\ m + 1 # 1 /\ (m + 1) - 1 = m
        BY <1>0, <3>1
      <4> QED BY <2>1, <4>1 DEF Flattens
    <3>3. g[m] \in Seq(S) /\ ToSet(g[m]) = Upto(m) /\ (Apart(parts) => Distinct(g[m]))
      BY <3>1
    <3>4. Upto(m + 1) = Upto(m) \union ToSet(parts[m + 1])
      <4>1. 1 .. m + 1 = (1 .. m) \union {m + 1}
        BY <3>1
      <4> QED BY <4>1
    <3>5. Apart(parts) => Ids(Upto(m)) \intersect Ids(ToSet(parts[m + 1])) = {}
      <4>1. \A k \in 1 .. m : k \in DOMAIN parts /\ k # m + 1
        BY <1>0, <3>1
      <4> SUFFICES ASSUME Apart(parts), NEW x \in Upto(m), NEW y \in ToSet(parts[m + 1]), x.id = y.id
                   PROVE  FALSE
        BY DEF Ids
      <4>2. PICK k \in 1 .. m : x \in ToSet(parts[k])
        OBVIOUS
      <4>3. x.id \in Ids(ToSet(parts[k])) /\ x.id \in Ids(ToSet(parts[m + 1]))
        BY <4>2 DEF Ids
      <4> QED BY <3>1, <4>1, <4>3 DEF Apart
    <3>s. parts[m + 1] \in Seq(S)
      BY <1>0, <3>1
    <3> HIDE DEF m, Upto, T
    <3>6. g[m + 1] \in Seq(S) /\ ToSet(g[m + 1]) = Upto(m + 1)
      <4>1. /\ g[m] \o parts[m + 1] \in Seq(S)
            /\ ToSet(g[m] \o parts[m + 1]) = ToSet(g[m]) \union ToSet(parts[m + 1])
        BY <3>s, <3>3, CatFacts
      <4> QED BY <3>2, <3>3, <3>4, <4>1
    <3>7. Apart(parts) => Distinct(g[m + 1])
      BY <3>s, <3>1, <3>2, <3>3, <3>5, CatFacts DEF Apart
    <3> QED BY <3>6, <3>7 DEF m
  <2>4. Nat \subseteq T
    <3> HIDE DEF T
    <3> QED BY <2>2, <2>3, Induction
  <2>5. Len(parts) - 1 \in T /\ (Len(parts) - 1) + 1 = Len(parts) /\ Len(parts) \in DOMAIN parts
    <3> HIDE DEF T
    <3> QED BY <1>0, <1>2, <2>4
  <2>6. /\ g[Len(parts)] \in Seq(S) /\ ToSet(g[Len(parts)]) = Upto(Len(parts))
        /\ Apart(parts) => Distinct(g[Len(parts)])
    BY <2>5
  <2>7. Upto(Len(parts)) = Together(parts)
    BY <1>0 DEF Together
  <2> QED BY <2>1, <2>6, <2>7
<1> QED BY <1>1, <1>2, <1>0

-----------------------------------------------------------------------------
(* Bases and prefixes.                                                     *)

\* The segments, with the two that the code writes itself.
Texts == STRING \union {"", "*"}
Paths == Seq(Texts)

LEMMA SeqTypes ==
  ASSUME NEW S, NEW T, S \subseteq T
  PROVE  (\A x \in T : <<x>> \in Seq(T)) /\ Seq(S) \subseteq Seq(T)
<1>1. \A x \in T : <<x>> \in Seq(T)
  OBVIOUS
<1>2. ASSUME NEW s \in Seq(S) PROVE s \in Seq(T)
  BY <1>2
<1> QED BY <1>1, <1>2

LEMMA PathTypes ==
  /\ \A p \in Seq(STRING) : p \in Paths
  /\ <<>> \in Paths /\ <<"">> \in Paths /\ <<"">> # <<>>
<1>1. "" \in Texts /\ STRING \subseteq Texts
  BY DEF Texts
<1>2. <<"">> \in Paths /\ Seq(STRING) \subseteq Paths
  BY <1>1, SeqTypes DEF Paths
<1>3. <<>> \in Paths
  BY DEF Paths
<1>4. <<"">> # <<>>
  OBVIOUS
<1> QED BY <1>2, <1>3, <1>4

LEMMA CatPaths ==
  ASSUME NEW p \in Paths, NEW q \in Paths
  PROVE  /\ p \o q \in Paths
         /\ (p = <<>> => p \o q = q) /\ (q = <<>> => p \o q = p)
         /\ p # <<>> /\ q # <<>> => p \o q # <<"">> /\ p \o q # <<>>
         /\ p \o q = <<>> => p = <<>> /\ q = <<>>
<1>1. p \o q \in Paths /\ Len(p \o q) = Len(p) + Len(q) /\ Len(p) \in Nat /\ Len(q) \in Nat
  BY DEF Paths
<1>2. Len(<<"">>) = 1 /\ Len(<<>>) = 0
  OBVIOUS
<1>3. (p = <<>> => p \o q = q) /\ (q = <<>> => p \o q = p)
  BY DEF Paths
<1>4. (p # <<>> => Len(p) > 0) /\ (q # <<>> => Len(q) > 0)
  BY DEF Paths
<1>5. p # <<>> /\ q # <<>> => p \o q # <<"">> /\ p \o q # <<>>
  <2> SUFFICES ASSUME p # <<>>, q # <<>> PROVE p \o q # <<"">> /\ p \o q # <<>>
    OBVIOUS
  <2>1. Len(p \o q) # 1 /\ Len(p \o q) # 0
    BY <1>1, <1>4
  <2> QED BY <1>2, <2>1, Zenon
<1>6. p \o q = <<>> => p = <<>> /\ q = <<>>
  BY <1>1, <1>2, <1>4
<1> QED BY <1>1, <1>3, <1>5, <1>6

LEMMA CatFront ==
  ASSUME NEW p \in Paths, NEW e \in Texts
  PROVE  /\ p \o <<e>> # <<>> /\ Last(p \o <<e>>) = e /\ Front(p \o <<e>>) = p
<1> DEFINE t == p \o <<e>>
<1>1. t \in Paths /\ Len(t) = Len(p) + 1 /\ t[Len(p) + 1] = e /\ Len(p) \in Nat
      /\ \A k \in 1 .. Len(p) : t[k] = p[k]
  BY DEF Paths
<1> HIDE DEF t
<1>2. t # <<>> /\ Last(t) = e
  BY <1>1 DEF Last
<1>3. Front(t) = p
  <2>1. Front(t) \in Paths /\ Len(Front(t)) = Len(p) /\ \A k \in 1 .. Len(p) : Front(t)[k] = t[k]
    BY <1>1 DEF Front, Paths
  <2> QED BY <1>1, <2>1 DEF Paths
<1> QED BY <1>2, <1>3 DEF t

\* Whatever is behind a base or prefix when it is written, its place remains.
LEMMA WrittenPlace ==
  ASSUME NEW b \in Bases
  PROVE  /\ normalizeBase(Written(b)) = b.place
         /\ b.place \in Paths /\ b.place # <<"">>
<1> DEFINE cut(s, last) == IF s # <<>> /\ Last(s) = last THEN Front(s) ELSE s
           p == b.place
<1>0. normalizeBase(Written(b)) = cut(cut(p \o b.tail, "*"), "")
  BY DEF normalizeBase, Written
<1>1. /\ p \in Paths /\ b.tail \in {<<>>, <<"">>, <<"*">>}
      /\ p = <<>> \/ (Last(p) # "" /\ Last(p) # "*")
  BY PathTypes DEF Bases
<1>t. "" \in Texts /\ "*" \in Texts
  BY DEF Texts
<1>2. p # <<"">>
  <2>1. Last(<<"">>) = "" /\ <<"">> # <<>>
    BY DEF Last
  <2> QED BY <1>1, <2>1
<1> HIDE DEF p
<1>3. cut(p, "*") = p /\ cut(p, "") = p
  BY <1>1
<1>4. CASE b.tail = <<>>
  <2>1. p \o b.tail = p
    BY <1>1, <1>4, CatPaths, PathTypes
  <2> QED BY <1>0, <1>1, <1>2, <1>3, <2>1 DEF p
<1>5. CASE b.tail = <<"">>
  <2>1. p \o b.tail # <<>> /\ Last(p \o b.tail) = "" /\ Front(p \o b.tail) = p
    BY <1>1, <1>t, <1>5, CatFront
  <2>2. cut(p \o b.tail, "*") = p \o b.tail /\ cut(p \o b.tail, "") = p
    BY <2>1
  <2> HIDE DEF cut
  <2> QED BY <1>0, <1>1, <1>2, <2>2 DEF p
<1>6. CASE b.tail = <<"*">>
  <2>1. p \o b.tail # <<>> /\ Last(p \o b.tail) = "*" /\ Front(p \o b.tail) = p
    BY <1>1, <1>t, <1>6, CatFront
  <2>2. cut(p \o b.tail, "*") = p
    BY <2>1
  <2> HIDE DEF cut
  <2> QED BY <1>0, <1>1, <1>2, <1>3, <2>2 DEF p
<1> QED BY <1>1, <1>4, <1>5, <1>6

\* To join a path to a base is to put their places together.
LEMMA JoinPlace ==
  ASSUME NEW base \in Paths, base # <<"">>, NEW p \in Paths
  PROVE  /\ join(base, p) \in Paths /\ join(base, p) # <<>>
         /\ PlaceOf(p) \in Paths /\ PlaceOf(join(base, p)) = base \o PlaceOf(p)
         /\ base \o PlaceOf(p) # <<>> => join(base, p) = base \o PlaceOf(p)
         /\ base # <<>> => join(base, p) # <<"">>
<1>0. <<"">> \in Paths /\ <<>> \in Paths /\ <<"">> # <<>>
  BY PathTypes
<1>1. CASE p \in {<<>>, <<"">>}
  <2>1. PlaceOf(p) = <<>> /\ base \o PlaceOf(p) = base
    BY <1>0, <1>1, CatPaths DEF PlaceOf
  <2>2. join(base, p) = IF base = <<>> THEN <<"">> ELSE base
    BY <1>1 DEF join
  <2>3. PlaceOf(<<"">>) = <<>> /\ PlaceOf(base) = base
    BY <1>0 DEF PlaceOf
  <2> QED BY <1>0, <2>1, <2>2, <2>3
<1>2. CASE p \notin {<<>>, <<"">>}
  <2>1. PlaceOf(p) = p /\ join(base, p) = base \o p /\ p # <<>>
    BY <1>2 DEF PlaceOf, join
  <2>2. base \o p \in Paths /\ base \o p # <<>> /\ base \o p # <<"">>
    BY <1>2, CatPaths
  <2>3. PlaceOf(base \o p) = base \o p
    BY <2>2 DEF PlaceOf
  <2> QED BY <2>1, <2>2, <2>3
<1> QED BY <1>1, <1>2

\* Seen from the Server it is mounted in, a prefix is below the mount.
LEMMA RemapPlace ==
  ASSUME NEW prefix \in Paths, prefix # <<>>, prefix # <<"">>, NEW p \in Paths
  PROVE  /\ remap(prefix, p) \in Paths /\ remap(prefix, p) # <<"">>
         /\ PlaceOf(remap(prefix, p)) = prefix \o PlaceOf(p)
<1>1. CASE p = <<>>
  <2>1. remap(prefix, p) = prefix /\ PlaceOf(p) = <<>> /\ PlaceOf(prefix) = prefix
    BY <1>1 DEF remap, PlaceOf
  <2> QED BY <1>1, <2>1, CatPaths
<1>2. CASE p # <<>>
  <2>1. remap(prefix, p) = join(prefix, p)
    BY <1>2 DEF remap
  <2> QED BY <2>1, JoinPlace
<1> QED BY <1>1, <1>2

-----------------------------------------------------------------------------
(* The two recursions over the Servers.                                    *)

\* A Server mounts later ones.
Forward(app) ==
  /\ Len(app) \in Nat /\ DOMAIN app = 1 .. Len(app)
  /\ \A i \in DOMAIN app : \A k \in DOMAIN app[i].mounts :
       app[i].mounts[k].sub \in i + 1 .. Len(app)
AllForward(servers) ==
  /\ Len(servers) \in Nat /\ DOMAIN servers = 1 .. Len(servers)
  /\ \A i \in DOMAIN servers : \A k \in DOMAIN servers[i].mounted :
       servers[i].mounted[k].sub \in i + 1 .. Len(servers)

Declares(g, app, lo) == g = [i \in lo .. Len(app) |-> WithMounts(app[i], g)]

LEMMA DeclaredUnfold ==
  ASSUME NEW app, Forward(app)
  PROVE  \A i \in DOMAIN app : Declared(app)[i] = WithMounts(app[i], Declared(app))
<1> DEFINE n == Len(app)
           T == {d \in Nat : d <= n => \E g : Declares(g, app, n + 1 - d)}
<1>0. n \in Nat /\ DOMAIN app = 1 .. n
  BY DEF Forward
<1> HIDE DEF n
<1>1. 0 \in T
  <2>1. n + 1 - 0 = n + 1 /\ (n + 1) .. n = {}
    BY <1>0
  <2>2. Declares([i \in (n + 1) .. n |-> {}], app, n + 1)
    BY <2>1 DEF Declares, n
  <2> QED BY <2>1, <2>2
<1>2. ASSUME NEW d \in T, d \in Nat PROVE d + 1 \in T
  <2> SUFFICES ASSUME d + 1 <= n PROVE \E g : Declares(g, app, n + 1 - (d + 1))
    OBVIOUS
  <2> DEFINE lo == n - d
  <2>1. lo \in 1 .. n /\ n + 1 - d = lo + 1 /\ n + 1 - (d + 1) = lo
    BY <1>0
  <2>2. PICK g : Declares(g, app, lo + 1)
    BY <1>0, <2>1
  <2> HIDE DEF lo
  <2> DEFINE h == [i \in lo .. n |-> IF i = lo THEN WithMounts(app[i], g) ELSE g[i]]
  <2>3. \A i \in lo + 1 .. n : h[i] = g[i]
    BY <1>0, <2>1
  <2>4. ASSUME NEW i \in lo .. n PROVE WithMounts(app[i], h) = WithMounts(app[i], g)
    <3>1. \A m \in ToSet(app[i].mounts) : m.sub \in lo + 1 .. n
      BY <1>0, <2>1 DEF ToSet, Forward, n
    <3>2. \A m \in ToSet(app[i].mounts) : h[m.sub] = g[m.sub]
      BY <2>3, <3>1
    <3> HIDE DEF h
    <3> QED BY <3>2 DEF WithMounts
  <2>5. ASSUME NEW i \in lo .. n PROVE h[i] = WithMounts(app[i], h)
    <3>1. CASE i = lo
      BY <2>4, <3>1
    <3>2. CASE i # lo
      <4>1. i \in lo + 1 .. n
        BY <2>1, <3>2
      <4>2. g[i] = WithMounts(app[i], g)
        BY <2>2, <4>1 DEF Declares, n
      <4> HIDE DEF h
      <4> QED BY <2>3, <2>4, <4>1, <4>2
    <3> QED BY <3>1, <3>2
  <2>6. h = [i \in lo .. n |-> WithMounts(app[i], h)]
    BY <2>5
  <2> QED BY <2>1, <2>6 DEF Declares, n
<1>3. n \in T
  <2> HIDE DEF T
  <2> QED BY <1>0, <1>1, <1>2, Induction
<1>4. n <= n /\ n + 1 - n = 1
  BY <1>0
<1>5. \E g : Declares(g, app, 1)
  BY <1>3, <1>4
<1>6. Declared(app) = CHOOSE g : g = [i \in DOMAIN app |-> WithMounts(app[i], g)]
  BY DEF Declared
<1>7. Declared(app) = [i \in DOMAIN app |-> WithMounts(app[i], Declared(app))]
  BY <1>0, <1>5, <1>6 DEF Declares, n
<1> QED BY <1>7

Folding(g, servers, lo) == g = [i \in lo .. Len(servers) |-> Folded(servers[i], g)]

LEMMA FoldedUnfold ==
  ASSUME NEW servers, AllForward(servers)
  PROVE  /\ applyMounts(servers) = [i \in DOMAIN servers |-> applyMounts(servers)[i]]
         /\ \A i \in DOMAIN servers : applyMounts(servers)[i] = Folded(servers[i], applyMounts(servers))
<1> DEFINE n == Len(servers)
           T == {d \in Nat : d <= n => \E g : Folding(g, servers, n + 1 - d)}
<1>0. n \in Nat /\ DOMAIN servers = 1 .. n
  BY DEF AllForward
<1> HIDE DEF n
<1>1. 0 \in T
  <2>1. n + 1 - 0 = n + 1 /\ (n + 1) .. n = {}
    BY <1>0
  <2>2. Folding([i \in (n + 1) .. n |-> <<>>], servers, n + 1)
    BY <2>1 DEF Folding, n
  <2> QED BY <2>1, <2>2
<1>2. ASSUME NEW d \in T, d \in Nat PROVE d + 1 \in T
  <2> SUFFICES ASSUME d + 1 <= n PROVE \E g : Folding(g, servers, n + 1 - (d + 1))
    OBVIOUS
  <2> DEFINE lo == n - d
  <2>1. lo \in 1 .. n /\ n + 1 - d = lo + 1 /\ n + 1 - (d + 1) = lo
    BY <1>0
  <2>2. PICK g : Folding(g, servers, lo + 1)
    BY <1>0, <2>1
  <2> HIDE DEF lo
  <2> DEFINE h == [i \in lo .. n |-> IF i = lo THEN Folded(servers[i], g) ELSE g[i]]
  <2>3. \A i \in lo + 1 .. n : h[i] = g[i]
    BY <1>0, <2>1
  <2>4. ASSUME NEW i \in lo .. n PROVE Folded(servers[i], h) = Folded(servers[i], g)
    <3>1. \A k \in DOMAIN servers[i].mounted : servers[i].mounted[k].sub \in lo + 1 .. n
      BY <1>0, <2>1 DEF AllForward, n
    <3>2. \A k \in DOMAIN servers[i].mounted :
            h[servers[i].mounted[k].sub] = g[servers[i].mounted[k].sub]
      BY <2>3, <3>1
    <3> HIDE DEF h
    <3> QED BY <3>2 DEF Folded
  <2>5. ASSUME NEW i \in lo .. n PROVE h[i] = Folded(servers[i], h)
    <3>1. CASE i = lo
      BY <2>4, <3>1
    <3>2. CASE i # lo
      <4>1. i \in lo + 1 .. n
        BY <2>1, <3>2
      <4>2. g[i] = Folded(servers[i], g)
        BY <2>2, <4>1 DEF Folding, n
      <4> HIDE DEF h
      <4> QED BY <2>3, <2>4, <4>1, <4>2
    <3> QED BY <3>1, <3>2
  <2>6. h = [i \in lo .. n |-> Folded(servers[i], h)]
    BY <2>5
  <2> QED BY <2>1, <2>6 DEF Folding, n
<1>3. n \in T
  <2> HIDE DEF T
  <2> QED BY <1>0, <1>1, <1>2, Induction
<1>4. n <= n /\ n + 1 - n = 1
  BY <1>0
<1>5. \E g : Folding(g, servers, 1)
  BY <1>3, <1>4
<1>6. applyMounts(servers) = CHOOSE g : g = [i \in DOMAIN servers |-> Folded(servers[i], g)]
  BY DEF applyMounts
<1>7. applyMounts(servers) = [i \in DOMAIN servers |-> Folded(servers[i], applyMounts(servers))]
  BY <1>0, <1>5, <1>6 DEF Folding, n
<1> QED BY <1>7

-----------------------------------------------------------------------------
(* The lists of a Server and what they stand for.                          *)

Entries == [prefix : Paths, id : STRING]
HookEntries == [prefix : Paths, stage : STRING, id : STRING]
RouteEntries == [method : STRING, path : Paths, own : Nat, id : STRING]

GuardOf(x) == Guard(x.id, PlaceOf(x.prefix))
RouteOf(r) == Place(r.id, r.method, PlaceOf(r.path))
GuardsIn(list) == {GuardOf(x) : x \in ToSet(list)}
RoutesIn(list) == {RouteOf(r) : r \in ToSet(list)}
Shown(s) == GuardsIn(s.middleware) \union GuardsIn(s.hooks) \union RoutesIn(s.routes)

\* The path '/', and the prefixes something can be mounted at.
IsSlash(p) == p = <<"">>
Mountable(p) == p \in Paths /\ p # <<>> /\ ~IsSlash(p)
IsEmpty(p) == p = <<>>

TypedLists(s) ==
  /\ s.middleware \in Seq(Entries) /\ s.hooks \in Seq(HookEntries)
  /\ s.routes \in Seq(RouteEntries) /\ \A r \in ToSet(s.routes) : ~IsEmpty(r.path)

LEMMA ListFacts ==
  ASSUME NEW S, NEW list \in Seq(S)
  PROVE  Len(list) \in Nat /\ DOMAIN list = 1 .. Len(list) /\ \A k \in DOMAIN list : list[k] \in S
OBVIOUS

LEMMA ListMade ==
  ASSUME NEW S, NEW n \in Nat, NEW list, list = [k \in 1 .. n |-> list[k]],
         \A k \in 1 .. n : list[k] \in S
  PROVE  list \in Seq(S)
OBVIOUS

LEMMA IdsShown ==
  ASSUME NEW list
  PROVE  Ids(GuardsIn(list)) = Ids(ToSet(list)) /\ Ids(RoutesIn(list)) = Ids(ToSet(list))
<1>1. \A x : GuardOf(x).id = x.id /\ RouteOf(x).id = x.id
  BY DEF GuardOf, RouteOf, Guard, Place
<1>2. Ids(GuardsIn(list)) = Ids(ToSet(list))
  BY <1>1 DEF Ids, GuardsIn
<1>3. Ids(RoutesIn(list)) = Ids(ToSet(list))
  BY <1>1 DEF Ids, RoutesIn
<1> QED BY <1>2, <1>3

LEMMA SunkItem ==
  ASSUME NEW place, NEW id, NEW method, NEW a
  PROVE  /\ Sunk(place, Guard(id, a)) = Guard(id, place \o a)
         /\ Sunk(place, Place(id, method, a)) = Place(id, method, place \o a)
<1>1. Sunk(place, Guard(id, a)) = Guard(id, place \o a)
  BY DEF Sunk, Guard
<1>2. Sunk(place, Place(id, method, a)) = Place(id, method, place \o a)
  BY DEF Sunk, Place
<1> QED BY <1>1, <1>2

\* An entry below a mount.
LEMMA BelowEntry ==
  ASSUME NEW prefix, Mountable(prefix), NEW x, x \in Entries \/ x \in HookEntries,
         NEW y, y = Remapped(x, prefix)
  PROVE  /\ x \in Entries => y \in Entries
         /\ x \in HookEntries => y \in HookEntries
         /\ y.id = x.id /\ ~IsSlash(y.prefix)
         /\ GuardOf(y) = Sunk(prefix, GuardOf(x))
<1>1. x.prefix \in Paths
  BY DEF Entries, HookEntries
<1>2. /\ remap(prefix, x.prefix) \in Paths /\ ~IsSlash(remap(prefix, x.prefix))
      /\ PlaceOf(remap(prefix, x.prefix)) = prefix \o PlaceOf(x.prefix)
  BY <1>1, RemapPlace DEF Mountable, IsSlash
<1>3. y.id = x.id /\ y.prefix = remap(prefix, x.prefix)
  BY DEF Entries, HookEntries, Remapped
<1>4. (x \in Entries => y \in Entries) /\ (x \in HookEntries => y \in HookEntries)
  BY <1>2 DEF Entries, HookEntries, Remapped
<1>5. GuardOf(y) = Sunk(prefix, GuardOf(x))
  <2>1. GuardOf(y) = Guard(x.id, prefix \o PlaceOf(x.prefix))
    BY <1>2, <1>3 DEF GuardOf
  <2>2. Sunk(prefix, GuardOf(x)) = Guard(x.id, prefix \o PlaceOf(x.prefix))
    BY SunkItem DEF GuardOf
  <2> QED BY <2>1, <2>2
<1> QED BY <1>2, <1>3, <1>4, <1>5

LEMMA BelowRoute ==
  ASSUME NEW prefix, Mountable(prefix), NEW x \in RouteEntries,
         NEW y, y = Moved(x, prefix)
  PROVE  /\ y \in RouteEntries /\ y.id = x.id /\ ~IsEmpty(y.path)
         /\ RouteOf(y) = Sunk(prefix, RouteOf(x))
<1>1. x.path \in Paths
  BY DEF RouteEntries
<1>2. /\ join(prefix, x.path) \in Paths /\ ~IsEmpty(join(prefix, x.path))
      /\ PlaceOf(join(prefix, x.path)) = prefix \o PlaceOf(x.path)
  BY <1>1, JoinPlace DEF Mountable, IsSlash, IsEmpty
<1>3. y.id = x.id /\ y.method = x.method /\ y.path = join(prefix, x.path)
  BY DEF RouteEntries, Moved
<1>4. y \in RouteEntries
  BY <1>2 DEF RouteEntries, Moved
<1>5. RouteOf(y) = Sunk(prefix, RouteOf(x))
  <2>1. RouteOf(y) = Place(x.id, x.method, prefix \o PlaceOf(x.path))
    BY <1>2, <1>3 DEF RouteOf
  <2>2. Sunk(prefix, RouteOf(x)) = Place(x.id, x.method, prefix \o PlaceOf(x.path))
    BY SunkItem DEF RouteOf
  <2> QED BY <2>1, <2>2
<1> QED BY <1>2, <1>3, <1>4, <1>5

\* A list of a mounted Server, seen from the one it is mounted in.
LEMMA UnderFacts ==
  ASSUME NEW prefix, Mountable(prefix),
         NEW S, S = Entries \/ S = HookEntries, NEW list \in Seq(S)
  PROVE  /\ Under(list, prefix) \in Seq(S)
         /\ GuardsIn(Under(list, prefix)) = Below(prefix, GuardsIn(list))
         /\ Ids(ToSet(Under(list, prefix))) = Ids(ToSet(list))
         /\ Distinct(list) => Distinct(Under(list, prefix))
         /\ \A x \in ToSet(Under(list, prefix)) : ~IsSlash(x.prefix)
<1> DEFINE moved == Under(list, prefix)
<1>1. Len(list) \in Nat /\ DOMAIN list = 1 .. Len(list) /\ \A k \in DOMAIN list : list[k] \in S
  BY ListFacts
<1>2. DOMAIN moved = DOMAIN list
      /\ \A k \in DOMAIN list : moved[k] = Remapped(list[k], prefix)
  BY Zenon DEF Under
<1>3. moved = [k \in DOMAIN list |-> moved[k]]
  BY Zenon DEF Under
<1> HIDE DEF moved
<1>4. ASSUME NEW k \in DOMAIN list
      PROVE  /\ moved[k] \in S /\ moved[k].id = list[k].id /\ ~IsSlash(moved[k].prefix)
             /\ GuardOf(moved[k]) = Sunk(prefix, GuardOf(list[k]))
  <2>1. list[k] \in S /\ moved[k] = Remapped(list[k], prefix)
    BY <1>1, <1>2, Zenon
  <2>2. CASE S = Entries
    BY <2>1, <2>2, BelowEntry
  <2>3. CASE S = HookEntries
    BY <2>1, <2>3, BelowEntry
  <2> QED BY <2>2, <2>3
<1>5. moved \in Seq(S)
  BY <1>1, <1>3, <1>4, ListMade
<1>6. GuardsIn(moved) = Below(prefix, GuardsIn(list))
  <2>1. GuardsIn(moved) = {GuardOf(moved[k]) : k \in DOMAIN list}
    BY <1>2 DEF GuardsIn, ToSet
  <2>2. Below(prefix, GuardsIn(list)) = {Sunk(prefix, GuardOf(list[k])) : k \in DOMAIN list}
    BY DEF GuardsIn, Below, ToSet
  <2> QED BY <1>4, <2>1, <2>2
<1>7. Ids(ToSet(moved)) = Ids(ToSet(list))
  <2>1. Ids(ToSet(moved)) = {moved[k].id : k \in DOMAIN list}
    BY <1>2 DEF Ids, ToSet
  <2>2. Ids(ToSet(list)) = {list[k].id : k \in DOMAIN list}
    BY DEF Ids, ToSet
  <2> QED BY <1>4, <2>1, <2>2
<1>8. Distinct(list) => Distinct(moved)
  BY <1>2, <1>4 DEF Distinct
<1>9. \A x \in ToSet(moved) : ~IsSlash(x.prefix)
  BY <1>2, <1>4 DEF ToSet
<1> QED BY <1>5, <1>6, <1>7, <1>8, <1>9 DEF moved

LEMMA MoveFacts ==
  ASSUME NEW prefix, Mountable(prefix), NEW list \in Seq(RouteEntries)
  PROVE  /\ Move(list, prefix) \in Seq(RouteEntries)
         /\ RoutesIn(Move(list, prefix)) = Below(prefix, RoutesIn(list))
         /\ Ids(ToSet(Move(list, prefix))) = Ids(ToSet(list))
         /\ Distinct(list) => Distinct(Move(list, prefix))
         /\ \A r \in ToSet(Move(list, prefix)) : ~IsEmpty(r.path)
<1> DEFINE moved == Move(list, prefix)
<1>1. /\ Len(list) \in Nat /\ DOMAIN list = 1 .. Len(list)
      /\ \A k \in DOMAIN list : list[k] \in RouteEntries
  BY ListFacts
<1>2. DOMAIN moved = DOMAIN list
      /\ \A k \in DOMAIN list : moved[k] = Moved(list[k], prefix)
  BY Zenon DEF Move
<1>3. moved = [k \in DOMAIN list |-> moved[k]]
  BY Zenon DEF Move
<1> HIDE DEF moved
<1>4. ASSUME NEW k \in DOMAIN list
      PROVE  /\ moved[k] \in RouteEntries /\ moved[k].id = list[k].id /\ ~IsEmpty(moved[k].path)
             /\ RouteOf(moved[k]) = Sunk(prefix, RouteOf(list[k]))
  <2>1. list[k] \in RouteEntries /\ moved[k] = Moved(list[k], prefix)
    BY <1>1, <1>2, Zenon
  <2> QED BY <2>1, BelowRoute
<1>5. moved \in Seq(RouteEntries)
  BY <1>1, <1>3, <1>4, ListMade
<1>6. RoutesIn(moved) = Below(prefix, RoutesIn(list))
  <2>1. RoutesIn(moved) = {RouteOf(moved[k]) : k \in DOMAIN list}
    BY <1>2 DEF RoutesIn, ToSet
  <2>2. Below(prefix, RoutesIn(list)) = {Sunk(prefix, RouteOf(list[k])) : k \in DOMAIN list}
    BY DEF RoutesIn, Below, ToSet
  <2> QED BY <1>4, <2>1, <2>2
<1>7. Ids(ToSet(moved)) = Ids(ToSet(list))
  <2>1. Ids(ToSet(moved)) = {moved[k].id : k \in DOMAIN list}
    BY <1>2 DEF Ids, ToSet
  <2>2. Ids(ToSet(list)) = {list[k].id : k \in DOMAIN list}
    BY DEF Ids, ToSet
  <2> QED BY <1>4, <2>1, <2>2
<1>8. Distinct(list) => Distinct(moved)
  BY <1>2, <1>4 DEF Distinct
<1>9. \A x \in ToSet(moved) : ~IsEmpty(x.path)
  BY <1>2, <1>4 DEF ToSet
<1> QED BY <1>5, <1>6, <1>7, <1>8, <1>9 DEF moved

-----------------------------------------------------------------------------
(* The calls of the application.                                           *)

LEMMA UseEntry ==
  ASSUME NEW base \in Paths, ~IsSlash(base), NEW u \in UseCalls
  PROVE  /\ use(base, u) \in Entries /\ use(base, u).id = u.id
         /\ GuardOf(use(base, u)) = Guard(u.id, base \o UsePlace(u))
         /\ (u.scoped => ~IsEmpty(base \o u.at.place)) => ~IsSlash(use(base, u).prefix)
<1> DEFINE e == use(base, u)
<1>0. u.id \in STRING /\ u.at \in Bases
  BY DEF UseCalls
<1>1. /\ normalizeBase(Written(u.at)) = u.at.place
      /\ u.at.place \in Paths /\ ~IsSlash(u.at.place) /\ PlaceOf(u.at.place) = u.at.place
  BY <1>0, WrittenPlace DEF PlaceOf, IsSlash
<1>2. CASE u.scoped
  <2>1. e.prefix = join(base, u.at.place) /\ e.id = u.id /\ UsePlace(u) = u.at.place
        /\ e = [prefix |-> join(base, u.at.place), id |-> u.id]
    BY <1>1, <1>2 DEF use, UsePlace
  <2>2. /\ join(base, u.at.place) \in Paths
        /\ PlaceOf(join(base, u.at.place)) = base \o u.at.place
        /\ base \o u.at.place # <<>> => join(base, u.at.place) = base \o u.at.place
    BY <1>1, JoinPlace DEF IsSlash
  <2>3. ~IsEmpty(base \o u.at.place) => ~IsSlash(join(base, u.at.place))
    <3>1. base \o u.at.place # <<>> => ~IsSlash(base \o u.at.place)
      <4>1. CASE base = <<>> \/ u.at.place = <<>>
        BY <1>1, <4>1, CatPaths DEF IsSlash
      <4>2. CASE base # <<>> /\ u.at.place # <<>>
        BY <1>1, <4>2, CatPaths DEF IsSlash
      <4> QED BY <4>1, <4>2
    <3> QED BY <2>2, <3>1 DEF IsEmpty
  <2>4. e \in Entries
    BY <1>0, <2>1, <2>2 DEF Entries
  <2> HIDE DEF e
  <2>5. GuardOf(e) = Guard(u.id, base \o UsePlace(u))
    BY <2>1, <2>2 DEF GuardOf
  <2> QED BY <1>2, <2>1, <2>3, <2>4, <2>5 DEF e
<1>3. CASE ~u.scoped
  <2>1. e.prefix = base /\ e.id = u.id /\ UsePlace(u) = <<>> /\ e = [prefix |-> base, id |-> u.id]
    BY <1>3 DEF use, UsePlace
  <2>2. PlaceOf(base) = base /\ base \o <<>> = base
    BY CatPaths, PathTypes DEF PlaceOf, IsSlash
  <2>3. e \in Entries
    BY <1>0, <2>1 DEF Entries
  <2> HIDE DEF e
  <2>4. GuardOf(e) = Guard(u.id, base \o UsePlace(u))
    BY <2>1, <2>2 DEF GuardOf
  <2> QED BY <2>1, <2>3, <2>4 DEF e
<1> QED BY <1>2, <1>3

LEMMA HookEntry ==
  ASSUME NEW base \in Paths, ~IsSlash(base), NEW h \in HookCalls
  PROVE  /\ addHook(base, h) \in HookEntries /\ addHook(base, h).id = h.id
         /\ GuardOf(addHook(base, h)) = Guard(h.id, base)
         /\ ~IsSlash(addHook(base, h).prefix)
<1> DEFINE e == addHook(base, h)
<1>1. e \in HookEntries /\ e.id = h.id /\ e.prefix = base
  BY DEF addHook, HookCalls, HookEntries
<1>2. PlaceOf(base) = base
  BY DEF PlaceOf, IsSlash
<1> HIDE DEF e
<1>3. GuardOf(e) = Guard(h.id, base)
  BY <1>1, <1>2 DEF GuardOf
<1> QED BY <1>1, <1>3 DEF e

LEMMA RouteEntry ==
  ASSUME NEW base \in Paths, ~IsSlash(base), NEW r \in RouteCalls
  PROVE  /\ add(base, r) \in RouteEntries /\ add(base, r).id = r.id
         /\ RouteOf(add(base, r)) = Place(r.id, r.method, base \o PlaceOf(r.path))
         /\ ~IsEmpty(add(base, r).path)
<1> DEFINE e == add(base, r)
<1>0. r.path \in Seq(STRING)
  BY DEF RouteCalls
<1>1. /\ join(base, r.path) \in Paths /\ ~IsEmpty(join(base, r.path))
      /\ PlaceOf(join(base, r.path)) = base \o PlaceOf(r.path)
  BY <1>0, PathTypes, JoinPlace DEF IsSlash, IsEmpty
<1>2. e \in RouteEntries /\ e.id = r.id /\ e.method = r.method /\ e.path = join(base, r.path)
  BY <1>1 DEF add, RouteCalls, RouteEntries
<1> HIDE DEF e
<1>3. RouteOf(e) = Place(r.id, r.method, base \o PlaceOf(r.path))
  BY <1>1, <1>2 DEF RouteOf
<1> QED BY <1>1, <1>2, <1>3 DEF e

LEMMA MountEntry ==
  ASSUME NEW base \in Paths, ~IsSlash(base), NEW m \in MountCalls, ~IsEmpty(base \o m.at.place)
  PROVE  /\ route(base, m).sub = m.sub /\ route(base, m).prefix = base \o m.at.place
         /\ Mountable(base \o m.at.place)
<1>1. m.at \in Bases
  BY DEF MountCalls
<1>2. /\ normalizeBase(Written(m.at)) = m.at.place
      /\ m.at.place \in Paths /\ ~IsSlash(m.at.place) /\ PlaceOf(m.at.place) = m.at.place
  BY <1>1, WrittenPlace DEF PlaceOf, IsSlash
<1>3. join(base, m.at.place) = base \o m.at.place
  BY <1>2, JoinPlace DEF IsSlash, IsEmpty
<1>4. base \o m.at.place \in Paths /\ ~IsSlash(base \o m.at.place)
  <2>1. CASE base = <<>> \/ m.at.place = <<>>
    BY <1>2, <2>1, CatPaths DEF IsSlash
  <2>2. CASE base # <<>> /\ m.at.place # <<>>
    BY <1>2, <2>2, CatPaths DEF IsSlash
  <2> QED BY <2>1, <2>2
<1>5. route(base, m).sub = m.sub /\ route(base, m).prefix = join(base, m.at.place)
  BY <1>2 DEF route
<1> QED BY <1>3, <1>4, <1>5 DEF Mountable, IsEmpty

LEMMA UsesFacts ==
  ASSUME NEW base \in Paths, ~IsSlash(base), NEW calls \in Seq(UseCalls), NEW list,
         list = [i \in DOMAIN calls |-> use(base, calls[i])]
  PROVE  /\ list \in Seq(Entries)
         /\ GuardsIn(list) = {Guard(x.id, base \o UsePlace(x)) : x \in ToSet(calls)}
         /\ Ids(ToSet(list)) = Ids(ToSet(calls))
         /\ Distinct(calls) => Distinct(list)
         /\ (\A k \in DOMAIN calls : calls[k].scoped => ~IsEmpty(base \o calls[k].at.place)) =>
              \A e \in ToSet(list) : ~IsSlash(e.prefix)
<1>1. /\ Len(calls) \in Nat /\ DOMAIN calls = 1 .. Len(calls)
      /\ \A k \in DOMAIN calls : calls[k] \in UseCalls
  BY ListFacts
<1>2. DOMAIN list = DOMAIN calls /\ \A k \in DOMAIN calls : list[k] = use(base, calls[k])
  BY Zenon
<1>3. list = [k \in DOMAIN calls |-> list[k]]
  BY Zenon
<1>4. ASSUME NEW k \in DOMAIN calls, NEW x, x = calls[k]
      PROVE  /\ list[k] \in Entries /\ list[k].id = x.id
             /\ GuardOf(list[k]) = Guard(x.id, base \o UsePlace(x))
             /\ (x.scoped => ~IsEmpty(base \o x.at.place)) => ~IsSlash(list[k].prefix)
  <2>1. x \in UseCalls /\ list[k] = use(base, x)
    BY <1>1, <1>2, <1>4, Zenon
  <2> QED BY <2>1, UseEntry
<1>5. list \in Seq(Entries)
  BY <1>1, <1>3, <1>4, ListMade
<1>6. GuardsIn(list) = {Guard(x.id, base \o UsePlace(x)) : x \in ToSet(calls)}
  <2>1. GuardsIn(list) = {GuardOf(list[k]) : k \in DOMAIN calls}
    BY <1>2 DEF GuardsIn, ToSet
  <2>2. {Guard(x.id, base \o UsePlace(x)) : x \in ToSet(calls)}
          = {Guard(calls[k].id, base \o UsePlace(calls[k])) : k \in DOMAIN calls}
    BY DEF ToSet
  <2>3. \A k \in DOMAIN calls : GuardOf(list[k]) = Guard(calls[k].id, base \o UsePlace(calls[k]))
    BY <1>4
  <2>4. {GuardOf(list[k]) : k \in DOMAIN calls}
          = {Guard(calls[k].id, base \o UsePlace(calls[k])) : k \in DOMAIN calls}
    BY <2>3
  <2> QED BY <2>1, <2>2, <2>4, Zenon
<1>7. Ids(ToSet(list)) = Ids(ToSet(calls))
  <2>1. Ids(ToSet(list)) = {list[k].id : k \in DOMAIN calls}
    BY <1>2 DEF Ids, ToSet
  <2>2. Ids(ToSet(calls)) = {calls[k].id : k \in DOMAIN calls}
    BY DEF Ids, ToSet
  <2> QED BY <1>4, <2>1, <2>2
<1>8. Distinct(calls) => Distinct(list)
  BY <1>2, <1>4 DEF Distinct
<1>9. (\A k \in DOMAIN calls : calls[k].scoped => ~IsEmpty(base \o calls[k].at.place)) =>
              \A e \in ToSet(list) : ~IsSlash(e.prefix)
  BY <1>2, <1>4 DEF ToSet
<1> QED BY <1>5, <1>6, <1>7, <1>8, <1>9

LEMMA HooksFacts ==
  ASSUME NEW base \in Paths, ~IsSlash(base), NEW calls \in Seq(HookCalls), NEW list,
         list = [i \in DOMAIN calls |-> addHook(base, calls[i])]
  PROVE  /\ list \in Seq(HookEntries)
         /\ GuardsIn(list) = {Guard(x.id, base) : x \in ToSet(calls)}
         /\ Ids(ToSet(list)) = Ids(ToSet(calls))
         /\ Distinct(calls) => Distinct(list)
         /\ \A e \in ToSet(list) : ~IsSlash(e.prefix)
<1>1. /\ Len(calls) \in Nat /\ DOMAIN calls = 1 .. Len(calls)
      /\ \A k \in DOMAIN calls : calls[k] \in HookCalls
  BY ListFacts
<1>2. DOMAIN list = DOMAIN calls /\ \A k \in DOMAIN calls : list[k] = addHook(base, calls[k])
  BY Zenon
<1>3. list = [k \in DOMAIN calls |-> list[k]]
  BY Zenon
<1>4. ASSUME NEW k \in DOMAIN calls, NEW x, x = calls[k]
      PROVE  /\ list[k] \in HookEntries /\ list[k].id = x.id
             /\ GuardOf(list[k]) = Guard(x.id, base)
             /\ ~IsSlash(list[k].prefix)
  <2>1. x \in HookCalls /\ list[k] = addHook(base, x)
    BY <1>1, <1>2, <1>4, Zenon
  <2> QED BY <2>1, HookEntry
<1>5. list \in Seq(HookEntries)
  BY <1>1, <1>3, <1>4, ListMade
<1>6. GuardsIn(list) = {Guard(x.id, base) : x \in ToSet(calls)}
  <2>1. GuardsIn(list) = {GuardOf(list[k]) : k \in DOMAIN calls}
    BY <1>2 DEF GuardsIn, ToSet
  <2>2. {Guard(x.id, base) : x \in ToSet(calls)}
          = {Guard(calls[k].id, base) : k \in DOMAIN calls}
    BY DEF ToSet
  <2>3. \A k \in DOMAIN calls : GuardOf(list[k]) = Guard(calls[k].id, base)
    BY <1>4
  <2>4. {GuardOf(list[k]) : k \in DOMAIN calls}
          = {Guard(calls[k].id, base) : k \in DOMAIN calls}
    BY <2>3
  <2> QED BY <2>1, <2>2, <2>4, Zenon
<1>7. Ids(ToSet(list)) = Ids(ToSet(calls))
  <2>1. Ids(ToSet(list)) = {list[k].id : k \in DOMAIN calls}
    BY <1>2 DEF Ids, ToSet
  <2>2. Ids(ToSet(calls)) = {calls[k].id : k \in DOMAIN calls}
    BY DEF Ids, ToSet
  <2> QED BY <1>4, <2>1, <2>2
<1>8. Distinct(calls) => Distinct(list)
  BY <1>2, <1>4 DEF Distinct
<1>9. \A e \in ToSet(list) : ~IsSlash(e.prefix)
  BY <1>2, <1>4 DEF ToSet
<1> QED BY <1>5, <1>6, <1>7, <1>8, <1>9

LEMMA RoutesFacts ==
  ASSUME NEW base \in Paths, ~IsSlash(base), NEW calls \in Seq(RouteCalls), NEW list,
         list = [i \in DOMAIN calls |-> add(base, calls[i])]
  PROVE  /\ list \in Seq(RouteEntries)
         /\ RoutesIn(list) = {Place(x.id, x.method, base \o PlaceOf(x.path)) : x \in ToSet(calls)}
         /\ Ids(ToSet(list)) = Ids(ToSet(calls))
         /\ Distinct(calls) => Distinct(list)
         /\ \A e \in ToSet(list) : ~IsEmpty(e.path)
<1>1. /\ Len(calls) \in Nat /\ DOMAIN calls = 1 .. Len(calls)
      /\ \A k \in DOMAIN calls : calls[k] \in RouteCalls
  BY ListFacts
<1>2. DOMAIN list = DOMAIN calls /\ \A k \in DOMAIN calls : list[k] = add(base, calls[k])
  BY Zenon
<1>3. list = [k \in DOMAIN calls |-> list[k]]
  BY Zenon
<1>4. ASSUME NEW k \in DOMAIN calls, NEW x, x = calls[k]
      PROVE  /\ list[k] \in RouteEntries /\ list[k].id = x.id
             /\ RouteOf(list[k]) = Place(x.id, x.method, base \o PlaceOf(x.path))
             /\ ~IsEmpty(list[k].path)
  <2>1. x \in RouteCalls /\ list[k] = add(base, x)
    BY <1>1, <1>2, <1>4, Zenon
  <2> QED BY <2>1, RouteEntry
<1>5. list \in Seq(RouteEntries)
  BY <1>1, <1>3, <1>4, ListMade
<1>6. RoutesIn(list) = {Place(x.id, x.method, base \o PlaceOf(x.path)) : x \in ToSet(calls)}
  <2>1. RoutesIn(list) = {RouteOf(list[k]) : k \in DOMAIN calls}
    BY <1>2 DEF RoutesIn, ToSet
  <2>2. {Place(x.id, x.method, base \o PlaceOf(x.path)) : x \in ToSet(calls)}
          = {Place(calls[k].id, calls[k].method, base \o PlaceOf(calls[k].path)) : k \in DOMAIN calls}
    BY DEF ToSet
  <2>3. \A k \in DOMAIN calls : RouteOf(list[k]) = Place(calls[k].id, calls[k].method, base \o PlaceOf(calls[k].path))
    BY <1>4
  <2>4. {RouteOf(list[k]) : k \in DOMAIN calls}
          = {Place(calls[k].id, calls[k].method, base \o PlaceOf(calls[k].path)) : k \in DOMAIN calls}
    BY <2>3
  <2> QED BY <2>1, <2>2, <2>4, Zenon
<1>7. Ids(ToSet(list)) = Ids(ToSet(calls))
  <2>1. Ids(ToSet(list)) = {list[k].id : k \in DOMAIN calls}
    BY <1>2 DEF Ids, ToSet
  <2>2. Ids(ToSet(calls)) = {calls[k].id : k \in DOMAIN calls}
    BY DEF Ids, ToSet
  <2> QED BY <1>4, <2>1, <2>2
<1>8. Distinct(calls) => Distinct(list)
  BY <1>2, <1>4 DEF Distinct
<1>9. \A e \in ToSet(list) : ~IsEmpty(e.path)
  BY <1>2, <1>4 DEF ToSet
<1> QED BY <1>5, <1>6, <1>7, <1>8, <1>9

-----------------------------------------------------------------------------
(* #applyMounts, list by list.                                             *)

\* Lists that can be added to one's own, each under its prefix: no id is twice.
Foldable(S, own, n, lists, at_) ==
  /\ own \in Seq(S) /\ Distinct(own)
  /\ \A k \in 1 .. n : lists[k] \in Seq(S) /\ Distinct(lists[k]) /\ Mountable(at_[k])
  /\ \A k \in 1 .. n : Ids(ToSet(own)) \intersect Ids(ToSet(lists[k])) = {}
  /\ \A k, l \in 1 .. n : k # l => Ids(ToSet(lists[k])) \intersect Ids(ToSet(lists[l])) = {}
AllUnder(own, n, lists, at_) == own \o FlattenSeq([k \in 1 .. n |-> Under(lists[k], at_[k])])
AllMoved(own, n, lists, at_) == own \o FlattenSeq([k \in 1 .. n |-> Move(lists[k], at_[k])])

\* The list that results: what it stands for.
HoldsGuards(all, own, n, lists, at_) ==
  GuardsIn(all) = GuardsIn(own) \union UNION {Below(at_[k], GuardsIn(lists[k])) : k \in 1 .. n}
HoldsRoutes(all, own, n, lists, at_) ==
  RoutesIn(all) = RoutesIn(own) \union UNION {Below(at_[k], RoutesIn(lists[k])) : k \in 1 .. n}
Unslashed(list) == \A x \in ToSet(list) : ~IsSlash(x.prefix)
Nonempty(list) == \A x \in ToSet(list) : ~IsEmpty(x.path)

LEMMA GuardsFolded ==
  ASSUME NEW S, S = Entries \/ S = HookEntries, NEW own, NEW n \in Nat, NEW lists, NEW at_,
         Foldable(S, own, n, lists, at_), NEW all, all = AllUnder(own, n, lists, at_)
  PROVE  /\ all \in Seq(S) /\ Distinct(all) /\ HoldsGuards(all, own, n, lists, at_)
         /\ Unslashed(own) => Unslashed(all)
<1> USE DEF Foldable, AllUnder, HoldsGuards, Unslashed
<1> DEFINE parts == [k \in 1 .. n |-> Under(lists[k], at_[k])]
<1>1. ASSUME NEW k \in 1 .. n
      PROVE  /\ parts[k] \in Seq(S) /\ Distinct(parts[k])
             /\ GuardsIn(parts[k]) = Below(at_[k], GuardsIn(lists[k]))
             /\ Ids(ToSet(parts[k])) = Ids(ToSet(lists[k]))
             /\ \A x \in ToSet(parts[k]) : ~IsSlash(x.prefix)
  <2>1. parts[k] = Under(lists[k], at_[k])
    OBVIOUS
  <2> HIDE DEF parts
  <2>2. lists[k] \in Seq(S) /\ Distinct(lists[k]) /\ Mountable(at_[k])
    OBVIOUS
  <2> QED BY <2>1, <2>2, UnderFacts
<1>2. DOMAIN parts = 1 .. n /\ parts = [k \in 1 .. n |-> parts[k]]
  OBVIOUS
<1> HIDE DEF parts
<1>3. parts \in Seq(Seq(S))
  BY <1>1, <1>2, ListMade
<1>4. Apart(parts)
  BY <1>1, <1>2 DEF Apart
<1>5. /\ FlattenSeq(parts) \in Seq(S) /\ Distinct(FlattenSeq(parts))
      /\ ToSet(FlattenSeq(parts)) = Together(parts)
  BY <1>3, <1>4, FlattenFacts
<1>6. Ids(ToSet(own)) \intersect Ids(Together(parts)) = {}
  <2> SUFFICES ASSUME NEW x \in ToSet(own), NEW y \in Together(parts), x.id = y.id PROVE FALSE
    BY DEF Ids
  <2>1. PICK k \in 1 .. n : y \in ToSet(parts[k])
    BY <1>2 DEF Together
  <2>2. x.id \in Ids(ToSet(own)) /\ x.id \in Ids(ToSet(parts[k]))
    BY <2>1 DEF Ids
  <2>3. Ids(ToSet(parts[k])) = Ids(ToSet(lists[k]))
    BY <1>1
  <2> QED BY <2>2, <2>3
<1>7. all = own \o FlattenSeq(parts)
  BY DEF parts
<1>8. all \in Seq(S) /\ Distinct(all) /\ ToSet(all) = ToSet(own) \union Together(parts)
  <2>1. /\ own \o FlattenSeq(parts) \in Seq(S)
        /\ ToSet(own \o FlattenSeq(parts)) = ToSet(own) \union ToSet(FlattenSeq(parts))
        /\ Distinct(own \o FlattenSeq(parts))
    BY <1>5, <1>6, CatFacts
  <2> QED BY <1>5, <1>7, <2>1
<1>9. GuardsIn(all) = GuardsIn(own) \union UNION {GuardsIn(parts[k]) : k \in 1 .. n}
  <2>1. GuardsIn(all) = GuardsIn(own) \union {GuardOf(x) : x \in Together(parts)}
    BY <1>8 DEF GuardsIn
  <2>2. {GuardOf(x) : x \in Together(parts)} = UNION {GuardsIn(parts[k]) : k \in 1 .. n}
    BY <1>2 DEF GuardsIn, Together
  <2> QED BY <2>1, <2>2
<1>10. UNION {GuardsIn(parts[k]) : k \in 1 .. n} = UNION {Below(at_[k], GuardsIn(lists[k])) : k \in 1 .. n}
  BY <1>1
<1>11. (\A x \in ToSet(own) : ~IsSlash(x.prefix)) => \A x \in ToSet(all) : ~IsSlash(x.prefix)
  BY <1>1, <1>2, <1>8 DEF Together
<1> QED BY <1>8, <1>9, <1>10, <1>11

LEMMA RoutesFolded ==
  ASSUME NEW own, NEW n \in Nat, NEW lists, NEW at_,
         Foldable(RouteEntries, own, n, lists, at_), NEW all, all = AllMoved(own, n, lists, at_)
  PROVE  /\ all \in Seq(RouteEntries) /\ Distinct(all) /\ HoldsRoutes(all, own, n, lists, at_)
         /\ Nonempty(own) => Nonempty(all)
<1> USE DEF Foldable, AllMoved, HoldsRoutes, Nonempty
<1> DEFINE parts == [k \in 1 .. n |-> Move(lists[k], at_[k])]
<1>1. ASSUME NEW k \in 1 .. n
      PROVE  /\ parts[k] \in Seq(RouteEntries) /\ Distinct(parts[k])
             /\ RoutesIn(parts[k]) = Below(at_[k], RoutesIn(lists[k]))
             /\ Ids(ToSet(parts[k])) = Ids(ToSet(lists[k]))
             /\ \A x \in ToSet(parts[k]) : ~IsEmpty(x.path)
  <2>1. parts[k] = Move(lists[k], at_[k])
    OBVIOUS
  <2> HIDE DEF parts
  <2>2. lists[k] \in Seq(RouteEntries) /\ Distinct(lists[k]) /\ Mountable(at_[k])
    OBVIOUS
  <2> QED BY <2>1, <2>2, MoveFacts
<1>2. DOMAIN parts = 1 .. n /\ parts = [k \in 1 .. n |-> parts[k]]
  OBVIOUS
<1> HIDE DEF parts
<1>3. parts \in Seq(Seq(RouteEntries))
  BY <1>1, <1>2, ListMade
<1>4. Apart(parts)
  BY <1>1, <1>2 DEF Apart
<1>5. /\ FlattenSeq(parts) \in Seq(RouteEntries) /\ Distinct(FlattenSeq(parts))
      /\ ToSet(FlattenSeq(parts)) = Together(parts)
  BY <1>3, <1>4, FlattenFacts
<1>6. Ids(ToSet(own)) \intersect Ids(Together(parts)) = {}
  <2> SUFFICES ASSUME NEW x \in ToSet(own), NEW y \in Together(parts), x.id = y.id PROVE FALSE
    BY DEF Ids
  <2>1. PICK k \in 1 .. n : y \in ToSet(parts[k])
    BY <1>2 DEF Together
  <2>2. x.id \in Ids(ToSet(own)) /\ x.id \in Ids(ToSet(parts[k]))
    BY <2>1 DEF Ids
  <2>3. Ids(ToSet(parts[k])) = Ids(ToSet(lists[k]))
    BY <1>1
  <2> QED BY <2>2, <2>3
<1>7. all = own \o FlattenSeq(parts)
  BY DEF parts
<1>8. all \in Seq(RouteEntries) /\ Distinct(all) /\ ToSet(all) = ToSet(own) \union Together(parts)
  <2>1. /\ own \o FlattenSeq(parts) \in Seq(RouteEntries)
        /\ ToSet(own \o FlattenSeq(parts)) = ToSet(own) \union ToSet(FlattenSeq(parts))
        /\ Distinct(own \o FlattenSeq(parts))
    BY <1>5, <1>6, CatFacts
  <2> QED BY <1>5, <1>7, <2>1
<1>9. RoutesIn(all) = RoutesIn(own) \union UNION {RoutesIn(parts[k]) : k \in 1 .. n}
  <2>1. RoutesIn(all) = RoutesIn(own) \union {RouteOf(x) : x \in Together(parts)}
    BY <1>8 DEF RoutesIn
  <2>2. {RouteOf(x) : x \in Together(parts)} = UNION {RoutesIn(parts[k]) : k \in 1 .. n}
    BY <1>2 DEF RoutesIn, Together
  <2> QED BY <2>1, <2>2
<1>10. UNION {RoutesIn(parts[k]) : k \in 1 .. n} = UNION {Below(at_[k], RoutesIn(lists[k])) : k \in 1 .. n}
  BY <1>1
<1>11. (\A x \in ToSet(own) : ~IsEmpty(x.path)) => \A x \in ToSet(all) : ~IsEmpty(x.path)
  BY <1>1, <1>2, <1>8 DEF Together
<1> QED BY <1>8, <1>9, <1>10, <1>11

\* The lists of a Server stand for the items, and every id is there once.
Good(s, items) ==
  /\ TypedLists(s) /\ Shown(s) = items
  /\ Distinct(s.middleware) /\ Distinct(s.hooks) /\ Distinct(s.routes)
  /\ Ids(ToSet(s.middleware)) \intersect Ids(ToSet(s.hooks)) = {}

NoSlash(s) == /\ \A x \in ToSet(s.middleware) : ~IsSlash(x.prefix)
              /\ \A x \in ToSet(s.hooks) : ~IsSlash(x.prefix)

\* What the application declares in one Server, before the mounts.
OwnNamed(d) ==
  /\ Distinct(d.uses) /\ Distinct(d.hooks) /\ Distinct(d.routes)
  /\ Ids(ToSet(d.uses)) \intersect Ids(ToSet(d.hooks)) = {}
OwnScoped(d) ==
  \A k \in DOMAIN d.uses : d.uses[k].scoped => ~IsEmpty(d.base.place \o d.uses[k].at.place)

LEMMA NewServerFacts ==
  ASSUME NEW d \in Declarations, OwnNamed(d), NEW s, s = NewServer(d)
  PROVE  /\ Good(s, OwnItems(d))
         /\ OwnScoped(d) => NoSlash(s)
         /\ DOMAIN s.mounted = DOMAIN d.mounts
         /\ \A k \in DOMAIN d.mounts : s.mounted[k] = route(d.base.place, d.mounts[k])
<1> DEFINE base == d.base.place
<1>1. /\ d.base \in Bases /\ d.uses \in Seq(UseCalls) /\ d.hooks \in Seq(HookCalls)
      /\ d.routes \in Seq(RouteCalls) /\ d.mounts \in Seq(MountCalls)
  BY DEF Declarations
<1>2. normalizeBase(Written(d.base)) = base /\ base \in Paths /\ ~IsSlash(base)
  BY <1>1, WrittenPlace DEF IsSlash
<1> HIDE DEF base
<1>3. s = [middleware |-> [i \in DOMAIN d.uses |-> use(base, d.uses[i])],
           hooks |-> [i \in DOMAIN d.hooks |-> addHook(base, d.hooks[i])],
           routes |-> [i \in DOMAIN d.routes |-> add(base, d.routes[i])],
           mounted |-> [i \in DOMAIN d.mounts |-> route(base, d.mounts[i])],
           notFound |-> d.notFound]
  BY <1>2, Zenon DEF NewServer
<1>4. /\ s.middleware = [i \in DOMAIN d.uses |-> use(base, d.uses[i])]
      /\ s.hooks = [i \in DOMAIN d.hooks |-> addHook(base, d.hooks[i])]
      /\ s.routes = [i \in DOMAIN d.routes |-> add(base, d.routes[i])]
      /\ s.mounted = [i \in DOMAIN d.mounts |-> route(base, d.mounts[i])]
  BY <1>3
<1>5. /\ s.middleware \in Seq(Entries)
      /\ GuardsIn(s.middleware) = {Guard(x.id, base \o UsePlace(x)) : x \in ToSet(d.uses)}
      /\ Ids(ToSet(s.middleware)) = Ids(ToSet(d.uses)) /\ Distinct(s.middleware)
      /\ (\A k \in DOMAIN d.uses : d.uses[k].scoped => ~IsEmpty(base \o d.uses[k].at.place)) =>
           \A e \in ToSet(s.middleware) : ~IsSlash(e.prefix)
  <2>1. d.uses \in Seq(UseCalls) /\ s.middleware = [i \in DOMAIN d.uses |-> use(base, d.uses[i])]
    BY <1>1, <1>4, Zenon
  <2>2. Distinct(d.uses)
    BY DEF OwnNamed
  <2> QED BY <1>2, <2>1, <2>2, UsesFacts, Zenon
<1>6. /\ s.hooks \in Seq(HookEntries)
      /\ GuardsIn(s.hooks) = {Guard(x.id, base) : x \in ToSet(d.hooks)}
      /\ Ids(ToSet(s.hooks)) = Ids(ToSet(d.hooks)) /\ Distinct(s.hooks)
      /\ \A e \in ToSet(s.hooks) : ~IsSlash(e.prefix)
  <2>1. d.hooks \in Seq(HookCalls) /\ s.hooks = [i \in DOMAIN d.hooks |-> addHook(base, d.hooks[i])]
    BY <1>1, <1>4, Zenon
  <2>2. Distinct(d.hooks)
    BY DEF OwnNamed
  <2> QED BY <1>2, <2>1, <2>2, HooksFacts, Zenon
<1>7. /\ s.routes \in Seq(RouteEntries)
      /\ RoutesIn(s.routes)
           = {Place(x.id, x.method, base \o PlaceOf(x.path)) : x \in ToSet(d.routes)}
      /\ Distinct(s.routes) /\ \A e \in ToSet(s.routes) : ~IsEmpty(e.path)
  <2>1. d.routes \in Seq(RouteCalls) /\ s.routes = [i \in DOMAIN d.routes |-> add(base, d.routes[i])]
    BY <1>1, <1>4, Zenon
  <2>2. Distinct(d.routes)
    BY DEF OwnNamed
  <2> QED BY <1>2, <2>1, <2>2, RoutesFacts, Zenon
<1>8. Shown(s) = OwnItems(d)
  BY <1>5, <1>6, <1>7, Zenon DEF Shown, OwnItems, base
<1>9. Good(s, OwnItems(d))
  BY <1>5, <1>6, <1>7, <1>8 DEF Good, TypedLists, OwnNamed
<1>10. OwnScoped(d) => NoSlash(s)
  BY <1>5, <1>6 DEF OwnScoped, NoSlash, base
<1>11. DOMAIN s.mounted = DOMAIN d.mounts
       /\ \A k \in DOMAIN d.mounts : s.mounted[k] = route(d.base.place, d.mounts[k])
  BY <1>4, Zenon DEF base
<1> QED BY <1>9, <1>10, <1>11

\* An id below a mount is one of what is mounted there.
LEMMA IdsBelow ==
  ASSUME NEW own, NEW n, NEW at_, NEW lists, NEW all, HoldsGuards(all, own, n, lists, at_),
         NEW i \in Ids(ToSet(all))
  PROVE  i \in Ids(ToSet(own)) \/ \E k \in 1 .. n : i \in Ids(ToSet(lists[k]))
<1> USE DEF HoldsGuards
<1>1. PICK g \in GuardsIn(all) : i = g.id
  BY IdsShown DEF Ids
<1>2. CASE g \in GuardsIn(own)
  <2>1. i \in Ids(GuardsIn(own))
    BY <1>1, <1>2 DEF Ids
  <2> QED BY <2>1, IdsShown
<1>3. ASSUME NEW k \in 1 .. n, g \in Below(at_[k], GuardsIn(lists[k])) PROVE i \in Ids(ToSet(lists[k]))
  <2>1. PICK x \in GuardsIn(lists[k]) : g = Sunk(at_[k], x)
    BY <1>3 DEF Below
  <2>2. i = x.id
    BY <1>1, <2>1 DEF Sunk
  <2>3. i \in Ids(GuardsIn(lists[k]))
    BY <2>2 DEF Ids
  <2> QED BY <2>3, IdsShown
<1> QED BY <1>1, <1>2, <1>3

LEMMA GoodIds ==
  ASSUME NEW s, NEW items, Good(s, items)
  PROVE  /\ Ids(ToSet(s.middleware)) \subseteq Ids(items)
         /\ Ids(ToSet(s.hooks)) \subseteq Ids(items)
         /\ Ids(ToSet(s.routes)) \subseteq Ids(items)
<1>1. /\ GuardsIn(s.middleware) \subseteq items /\ GuardsIn(s.hooks) \subseteq items
      /\ RoutesIn(s.routes) \subseteq items
  BY DEF Good, Shown
<1>2. /\ Ids(GuardsIn(s.middleware)) \subseteq Ids(items) /\ Ids(GuardsIn(s.hooks)) \subseteq Ids(items)
      /\ Ids(RoutesIn(s.routes)) \subseteq Ids(items)
  BY <1>1 DEF Ids
<1> QED BY <1>2, IdsShown

\* Each mounted Server stands for items of its own.
GoodMounts(s, own, f, items, n) ==
  /\ DOMAIN s.mounted = 1 .. n
  /\ \A k \in 1 .. n : /\ Mountable(s.mounted[k].prefix)
                        /\ Good(f[s.mounted[k].sub], items[s.mounted[k].sub])
                        /\ Ids(items[s.mounted[k].sub]) \intersect Ids(own) = {}
  /\ \A k, l \in 1 .. n :
       k # l => Ids(items[s.mounted[k].sub]) \intersect Ids(items[s.mounted[l].sub]) = {}

LEMMA FoldedFacts ==
  ASSUME NEW s, NEW own, Good(s, own), NEW f, NEW items, NEW n \in Nat, GoodMounts(s, own, f, items, n),
         NEW t, t = Folded(s, f)
  PROVE  /\ Good(t, own \union UNION {Below(s.mounted[k].prefix, items[s.mounted[k].sub]) : k \in 1 .. n})
         /\ NoSlash(s) => NoSlash(t)
<1> DEFINE sub(k) == f[s.mounted[k].sub]
           its(k) == items[s.mounted[k].sub]
           P == [k \in 1 .. n |-> s.mounted[k].prefix]
           M == [k \in 1 .. n |-> sub(k).middleware]
           H == [k \in 1 .. n |-> sub(k).hooks]
           R == [k \in 1 .. n |-> sub(k).routes]
<1>1. /\ t.middleware = s.middleware \o FlattenSeq([k \in 1 .. n |-> Under(M[k], P[k])])
      /\ t.hooks = s.hooks \o FlattenSeq([k \in 1 .. n |-> Under(H[k], P[k])])
      /\ t.routes = s.routes \o FlattenSeq([k \in 1 .. n |-> Move(R[k], P[k])])
  <2>1. /\ [k \in 1 .. n |-> Under(M[k], P[k])]
             = [k \in 1 .. n |-> Under(sub(k).middleware, s.mounted[k].prefix)]
        /\ [k \in 1 .. n |-> Under(H[k], P[k])]
             = [k \in 1 .. n |-> Under(sub(k).hooks, s.mounted[k].prefix)]
        /\ [k \in 1 .. n |-> Move(R[k], P[k])]
             = [k \in 1 .. n |-> Move(sub(k).routes, s.mounted[k].prefix)]
    OBVIOUS
  <2> QED BY <2>1 DEF Folded, GoodMounts
<1>2. ASSUME NEW k \in 1 .. n
      PROVE  /\ P[k] = s.mounted[k].prefix /\ Mountable(P[k])
             /\ M[k] = sub(k).middleware /\ H[k] = sub(k).hooks /\ R[k] = sub(k).routes
             /\ Good(sub(k), its(k)) /\ Ids(its(k)) \intersect Ids(own) = {}
  BY DEF GoodMounts
<1>3. ASSUME NEW k \in 1 .. n, NEW l \in 1 .. n, k # l PROVE Ids(its(k)) \intersect Ids(its(l)) = {}
  BY <1>3 DEF GoodMounts
<1> HIDE DEF P, M, H, R, sub, its
<1>4. ASSUME NEW k \in 1 .. n
      PROVE  /\ M[k] \in Seq(Entries) /\ Distinct(M[k]) /\ H[k] \in Seq(HookEntries) /\ Distinct(H[k])
             /\ R[k] \in Seq(RouteEntries) /\ Distinct(R[k])
             /\ Ids(ToSet(M[k])) \intersect Ids(ToSet(H[k])) = {}
             /\ GuardsIn(M[k]) \union GuardsIn(H[k]) \union RoutesIn(R[k]) = its(k)
  BY <1>2 DEF Good, TypedLists, Shown
<1>5. ASSUME NEW k \in 1 .. n
      PROVE  /\ Ids(ToSet(M[k])) \subseteq Ids(its(k)) /\ Ids(ToSet(H[k])) \subseteq Ids(its(k))
             /\ Ids(ToSet(R[k])) \subseteq Ids(its(k))
  BY <1>2, GoodIds
<1>6. /\ Ids(ToSet(s.middleware)) \subseteq Ids(own) /\ Ids(ToSet(s.hooks)) \subseteq Ids(own)
      /\ Ids(ToSet(s.routes)) \subseteq Ids(own)
  BY GoodIds
<1>7. /\ s.middleware \in Seq(Entries) /\ s.hooks \in Seq(HookEntries) /\ s.routes \in Seq(RouteEntries)
      /\ Distinct(s.middleware) /\ Distinct(s.hooks) /\ Distinct(s.routes)
      /\ \A x \in ToSet(s.routes) : ~IsEmpty(x.path)
      /\ Ids(ToSet(s.middleware)) \intersect Ids(ToSet(s.hooks)) = {}
      /\ GuardsIn(s.middleware) \union GuardsIn(s.hooks) \union RoutesIn(s.routes) = own
  BY DEF Good, TypedLists, Shown
<1>8. /\ t.middleware \in Seq(Entries) /\ Distinct(t.middleware) /\ HoldsGuards(t.middleware, s.middleware, n, M, P)
      /\ Unslashed(s.middleware) => Unslashed(t.middleware)
  <2>1. \A k \in 1 .. n : M[k] \in Seq(Entries) /\ Distinct(M[k]) /\ Mountable(P[k])
    BY <1>2, <1>4
  <2>2. \A k \in 1 .. n : Ids(ToSet(s.middleware)) \intersect Ids(ToSet(M[k])) = {}
    BY <1>2, <1>5, <1>6
  <2>3. \A k, l \in 1 .. n : k # l => Ids(ToSet(M[k])) \intersect Ids(ToSet(M[l])) = {}
    BY <1>3, <1>5
  <2>4. Foldable(Entries, s.middleware, n, M, P)
    BY <1>7, <2>1, <2>2, <2>3 DEF Foldable
  <2>5. t.middleware = AllUnder(s.middleware, n, M, P)
    BY <1>1 DEF AllUnder
  <2> QED BY <2>4, <2>5, GuardsFolded
<1>9. /\ t.hooks \in Seq(HookEntries) /\ Distinct(t.hooks) /\ HoldsGuards(t.hooks, s.hooks, n, H, P)
      /\ Unslashed(s.hooks) => Unslashed(t.hooks)
  <2>1. \A k \in 1 .. n : H[k] \in Seq(HookEntries) /\ Distinct(H[k]) /\ Mountable(P[k])
    BY <1>2, <1>4
  <2>2. \A k \in 1 .. n : Ids(ToSet(s.hooks)) \intersect Ids(ToSet(H[k])) = {}
    BY <1>2, <1>5, <1>6
  <2>3. \A k, l \in 1 .. n : k # l => Ids(ToSet(H[k])) \intersect Ids(ToSet(H[l])) = {}
    BY <1>3, <1>5
  <2>4. Foldable(HookEntries, s.hooks, n, H, P)
    BY <1>7, <2>1, <2>2, <2>3 DEF Foldable
  <2>5. t.hooks = AllUnder(s.hooks, n, H, P)
    BY <1>1 DEF AllUnder
  <2> QED BY <2>4, <2>5, GuardsFolded
<1>10. /\ t.routes \in Seq(RouteEntries) /\ Distinct(t.routes) /\ HoldsRoutes(t.routes, s.routes, n, R, P)
       /\ Nonempty(s.routes) => Nonempty(t.routes)
  <2>1. \A k \in 1 .. n : R[k] \in Seq(RouteEntries) /\ Distinct(R[k]) /\ Mountable(P[k])
    BY <1>2, <1>4
  <2>2. \A k \in 1 .. n : Ids(ToSet(s.routes)) \intersect Ids(ToSet(R[k])) = {}
    BY <1>2, <1>5, <1>6
  <2>3. \A k, l \in 1 .. n : k # l => Ids(ToSet(R[k])) \intersect Ids(ToSet(R[l])) = {}
    BY <1>3, <1>5
  <2>4. Foldable(RouteEntries, s.routes, n, R, P)
    BY <1>7, <2>1, <2>2, <2>3 DEF Foldable
  <2>5. t.routes = AllMoved(s.routes, n, R, P)
    BY <1>1 DEF AllMoved
  <2> QED BY <2>4, <2>5, RoutesFolded
<1>11. Shown(t) = own \union UNION {Below(P[k], its(k)) : k \in 1 .. n}
  <2>1. ASSUME NEW k \in 1 .. n
        PROVE  Below(P[k], its(k)) = Below(P[k], GuardsIn(M[k])) \union Below(P[k], GuardsIn(H[k]))
                                       \union Below(P[k], RoutesIn(R[k]))
    BY <1>4 DEF Below
  <2> DEFINE A == UNION {Below(P[k], GuardsIn(M[k])) : k \in 1 .. n}
             B == UNION {Below(P[k], GuardsIn(H[k])) : k \in 1 .. n}
             C == UNION {Below(P[k], RoutesIn(R[k])) : k \in 1 .. n}
             D == UNION {Below(P[k], its(k)) : k \in 1 .. n}
  <2>2. ASSUME NEW x PROVE x \in D <=> (x \in A \/ x \in B \/ x \in C)
    <3>1. x \in D <=> \E k \in 1 .. n : x \in Below(P[k], its(k))
      OBVIOUS
    <3>2. x \in A <=> \E k \in 1 .. n : x \in Below(P[k], GuardsIn(M[k]))
      OBVIOUS
    <3>3. x \in B <=> \E k \in 1 .. n : x \in Below(P[k], GuardsIn(H[k]))
      OBVIOUS
    <3>4. x \in C <=> \E k \in 1 .. n : x \in Below(P[k], RoutesIn(R[k]))
      OBVIOUS
    <3> HIDE DEF A, B, C, D
    <3> QED BY <2>1, <3>1, <3>2, <3>3, <3>4
  <2>3. /\ GuardsIn(t.middleware) = GuardsIn(s.middleware) \union A
        /\ GuardsIn(t.hooks) = GuardsIn(s.hooks) \union B
        /\ RoutesIn(t.routes) = RoutesIn(s.routes) \union C
    BY <1>8, <1>9, <1>10, Zenon DEF HoldsGuards, HoldsRoutes
  <2> HIDE DEF A, B, C, D
  <2>4. Shown(t) = own \union D
    BY <1>7, <2>2, <2>3 DEF Shown
  <2> QED BY <2>4 DEF D
<1>12. UNION {Below(P[k], its(k)) : k \in 1 .. n}
         = UNION {Below(s.mounted[k].prefix, items[s.mounted[k].sub]) : k \in 1 .. n}
  BY <1>2 DEF its
<1>13. Ids(ToSet(t.middleware)) \intersect Ids(ToSet(t.hooks)) = {}
  <2>1. ASSUME NEW i, i \in Ids(ToSet(t.middleware)) PROVE
          i \in Ids(ToSet(s.middleware)) \/ \E k \in 1 .. n : i \in Ids(ToSet(M[k]))
    <3>1. HoldsGuards(t.middleware, s.middleware, n, M, P)
      BY <1>8
    <3> QED BY <2>1, <3>1, IdsBelow
  <2>2. ASSUME NEW i, i \in Ids(ToSet(t.hooks)) PROVE
          i \in Ids(ToSet(s.hooks)) \/ \E k \in 1 .. n : i \in Ids(ToSet(H[k]))
    <3>1. HoldsGuards(t.hooks, s.hooks, n, H, P)
      BY <1>9
    <3> QED BY <2>2, <3>1, IdsBelow
  <2> SUFFICES ASSUME NEW i, i \in Ids(ToSet(t.middleware)), i \in Ids(ToSet(t.hooks)) PROVE FALSE
    OBVIOUS
  <2>3. CASE i \in Ids(ToSet(s.middleware)) /\ i \in Ids(ToSet(s.hooks))
    BY <1>7, <2>3
  <2>4. ASSUME NEW k \in 1 .. n, i \in Ids(ToSet(s.middleware)), i \in Ids(ToSet(H[k])) PROVE FALSE
    BY <1>2, <1>5, <1>6, <2>4
  <2>5. ASSUME NEW k \in 1 .. n, i \in Ids(ToSet(s.hooks)), i \in Ids(ToSet(M[k])) PROVE FALSE
    BY <1>2, <1>5, <1>6, <2>5
  <2>6. ASSUME NEW k \in 1 .. n, NEW l \in 1 .. n, i \in Ids(ToSet(M[k])), i \in Ids(ToSet(H[l])) PROVE FALSE
    <3>1. CASE k = l
      BY <1>4, <2>6, <3>1
    <3>2. CASE k # l
      BY <1>3, <1>5, <2>6, <3>2
    <3> QED BY <3>1, <3>2
  <2> QED BY <2>1, <2>2, <2>3, <2>4, <2>5, <2>6
<1>14. Good(t, own \union UNION {Below(s.mounted[k].prefix, items[s.mounted[k].sub]) : k \in 1 .. n})
  <2>1. TypedLists(t)
    <3>1. Nonempty(s.routes)
      BY <1>7, Zenon DEF Nonempty
    <3> QED BY <1>8, <1>9, <1>10, <3>1, Zenon DEF TypedLists, Nonempty
  <2>2. Shown(t) = own \union UNION {Below(s.mounted[k].prefix, items[s.mounted[k].sub]) : k \in 1 .. n}
    BY <1>11, <1>12, Zenon
  <2> QED BY <1>8, <1>9, <1>10, <1>13, <2>1, <2>2, Zenon DEF Good
<1>15. NoSlash(s) => NoSlash(t)
  BY <1>8, <1>9 DEF NoSlash, Unslashed
<1> QED BY <1>14, <1>15
-----------------------------------------------------------------------------
(* What listen() makes of an application.                                  *)

\* One Server, when the ones it mounts are as declared.
Mounting(d, f, items) ==
  /\ \A k \in DOMAIN d.mounts : /\ ~IsEmpty(d.base.place \o d.mounts[k].at.place)
                                /\ Good(f[d.mounts[k].sub], items[d.mounts[k].sub])
                                /\ Ids(items[d.mounts[k].sub]) \intersect Ids(OwnItems(d)) = {}
  /\ \A k, l \in DOMAIN d.mounts :
       k # l => Ids(items[d.mounts[k].sub]) \intersect Ids(items[d.mounts[l].sub]) = {}

LEMMA ServerAsDeclared ==
  ASSUME NEW d \in Declarations, OwnNamed(d), NEW f, NEW items, Mounting(d, f, items),
         NEW t, t = Folded(NewServer(d), f)
  PROVE  Good(t, WithMounts(d, items)) /\ (OwnScoped(d) => NoSlash(t))
<1> DEFINE s == NewServer(d)
           own == OwnItems(d)
           n == Len(d.mounts)
           at_(k) == d.base.place \o d.mounts[k].at.place
<1>1. d.base \in Bases /\ d.mounts \in Seq(MountCalls)
  BY DEF Declarations
<1>2. n \in Nat /\ DOMAIN d.mounts = 1 .. n /\ \A k \in DOMAIN d.mounts : d.mounts[k] \in MountCalls
  BY <1>1, ListFacts
<1>3. d.base.place \in Paths /\ ~IsSlash(d.base.place)
  BY <1>1, WrittenPlace DEF IsSlash
<1>4. /\ Good(s, own) /\ (OwnScoped(d) => NoSlash(s)) /\ DOMAIN s.mounted = DOMAIN d.mounts
      /\ \A k \in DOMAIN d.mounts : s.mounted[k] = route(d.base.place, d.mounts[k])
  BY NewServerFacts
<1> HIDE DEF s, own, n
<1>5. ASSUME NEW k \in DOMAIN d.mounts
      PROVE  s.mounted[k].sub = d.mounts[k].sub /\ s.mounted[k].prefix = at_(k) /\ Mountable(at_(k))
  <2>1. d.mounts[k] \in MountCalls /\ ~IsEmpty(d.base.place \o d.mounts[k].at.place)
        /\ s.mounted[k] = route(d.base.place, d.mounts[k])
    BY <1>2, <1>4, Zenon DEF Mounting
  <2> QED BY <1>3, <2>1, MountEntry
<1>6. GoodMounts(s, own, f, items, n)
  BY <1>2, <1>4, <1>5 DEF GoodMounts, Mounting, own
<1>7. /\ Good(t, own \union UNION {Below(s.mounted[k].prefix, items[s.mounted[k].sub]) : k \in 1 .. n})
      /\ NoSlash(s) => NoSlash(t)
  <2>1. t = Folded(s, f)
    BY DEF s
  <2> QED BY <1>2, <1>4, <1>6, <2>1, FoldedFacts, Zenon
<1>8. UNION {Below(s.mounted[k].prefix, items[s.mounted[k].sub]) : k \in 1 .. n}
        = UNION {Below(d.base.place \o m.at.place, items[m.sub]) : m \in ToSet(d.mounts)}
  <2>1. {Below(s.mounted[k].prefix, items[s.mounted[k].sub]) : k \in 1 .. n}
          = {Below(at_(k), items[d.mounts[k].sub]) : k \in 1 .. n}
    BY <1>2, <1>5
  <2>2. {Below(d.base.place \o m.at.place, items[m.sub]) : m \in ToSet(d.mounts)}
          = {Below(at_(k), items[d.mounts[k].sub]) : k \in 1 .. n}
    BY <1>2 DEF ToSet
  <2> QED BY <2>1, <2>2, Zenon
<1> QED BY <1>4, <1>7, <1>8, Zenon DEF WithMounts, own
LEMMA WellFormedFacts ==
  ASSUME NEW app, WellFormed(app)
  PROVE  /\ Forward(app) /\ 1 \in DOMAIN app /\ OwnScoped(app[1])
         /\ \A i \in DOMAIN app : /\ app[i] \in Declarations /\ OwnNamed(app[i])
                                  /\ "notFound" \notin Ids(ToSet(app[i].routes))
         /\ \A i \in DOMAIN app : \A k \in DOMAIN app[i].mounts :
              /\ ~IsEmpty(app[i].base.place \o app[i].mounts[k].at.place)
              /\ Ids(Declared(app)[app[i].mounts[k].sub]) \intersect Ids(OwnItems(app[i])) = {}
              /\ \A l \in DOMAIN app[i].mounts :
                   k # l => Ids(Declared(app)[app[i].mounts[k].sub])
                              \intersect Ids(Declared(app)[app[i].mounts[l].sub]) = {}
<1>1. app \in Seq(Declarations) /\ app # <<>>
  BY DEF WellFormed
<1>2. Len(app) \in Nat /\ DOMAIN app = 1 .. Len(app) /\ \A i \in DOMAIN app : app[i] \in Declarations
  BY <1>1, ListFacts
<1>3. 1 \in DOMAIN app
  BY <1>1
<1>4. Forward(app)
  BY <1>2 DEF Forward, WellFormed
<1>5. OwnScoped(app[1])
  BY DEF WellFormed, OwnScoped, IsEmpty
<1>6. \A i \in DOMAIN app : OwnNamed(app[i]) /\ "notFound" \notin Ids(ToSet(app[i].routes))
  BY Zenon DEF WellFormed, NamedApart, OwnNamed
<1>7. ASSUME NEW i \in DOMAIN app, NEW k \in DOMAIN app[i].mounts
      PROVE  /\ ~IsEmpty(app[i].base.place \o app[i].mounts[k].at.place)
             /\ Ids(Declared(app)[app[i].mounts[k].sub]) \intersect Ids(OwnItems(app[i])) = {}
             /\ \A l \in DOMAIN app[i].mounts :
                  k # l => Ids(Declared(app)[app[i].mounts[k].sub])
                             \intersect Ids(Declared(app)[app[i].mounts[l].sub]) = {}
  <2>1. ~IsEmpty(app[i].base.place \o app[i].mounts[k].at.place)
    BY Zenon DEF WellFormed, IsEmpty
  <2>2. Ids(Declared(app)[app[i].mounts[k].sub]) \intersect Ids(OwnItems(app[i])) = {}
    BY Zenon DEF WellFormed, NamedApart
  <2>3. ASSUME NEW l \in DOMAIN app[i].mounts, k # l
        PROVE  Ids(Declared(app)[app[i].mounts[k].sub])
                 \intersect Ids(Declared(app)[app[i].mounts[l].sub]) = {}
    <3>1. l \in DOMAIN app[i].mounts \ {k}
      BY <2>3
    <3> QED BY <3>1, Zenon DEF WellFormed, NamedApart
  <2> QED BY <2>1, <2>2, <2>3
<1> QED BY <1>2, <1>3, <1>4, <1>5, <1>6, <1>7

\* A Server has its lists and nothing else.
Whole(s) == s = [middleware |-> s.middleware, hooks |-> s.hooks, routes |-> s.routes,
                 mounted |-> s.mounted, notFound |-> s.notFound]

LEMMA FoldedWhole ==
  ASSUME NEW s, NEW f
  PROVE  Whole(Folded(s, f)) /\ Folded(s, f).mounted = <<>>
BY DEF Whole, Folded

LEMMA FoldedBare ==
  ASSUME NEW s, TypedLists(s), s.mounted = <<>>, NEW f, NEW t, t = Folded(s, f)
  PROVE  /\ t.middleware = s.middleware /\ t.hooks = s.hooks /\ t.routes = s.routes
         /\ t.mounted = s.mounted /\ t.notFound = s.notFound
<1>1. FlattenSeq(<<>>) = <<>>
  BY DEF FlattenSeq
<1>2. /\ [k \in DOMAIN s.mounted |-> Under(f[s.mounted[k].sub].middleware, s.mounted[k].prefix)] = <<>>
      /\ [k \in DOMAIN s.mounted |-> Under(f[s.mounted[k].sub].hooks, s.mounted[k].prefix)] = <<>>
      /\ [k \in DOMAIN s.mounted |-> Move(f[s.mounted[k].sub].routes, s.mounted[k].prefix)] = <<>>
  OBVIOUS
<1>3. /\ t.middleware = s.middleware \o <<>> /\ t.hooks = s.hooks \o <<>> /\ t.routes = s.routes \o <<>>
      /\ t.mounted = <<>> /\ t.notFound = s.notFound
  BY <1>1, <1>2 DEF Folded
<1>4. /\ s.middleware \o <<>> = s.middleware /\ s.hooks \o <<>> = s.hooks
      /\ s.routes \o <<>> = s.routes
  BY DEF TypedLists
<1> QED BY <1>3, <1>4

LEMMA IntervalEnd ==
  ASSUME NEW m \in Nat, NEW n \in Nat, 1 .. m = 1 .. n
  PROVE  m = n
<1>1. CASE m < n
  <2>1. n \in 1 .. n /\ n \notin 1 .. m
    BY <1>1
  <2> QED BY <2>1
<1>2. CASE n < m
  <2>1. m \in 1 .. m /\ m \notin 1 .. n
    BY <1>2
  <2> QED BY <2>1
<1> QED BY <1>1, <1>2

\* Nothing is mounted any more once it has been folded in.
LEMMA FoldedTwice ==
  ASSUME NEW servers, AllForward(servers), NEW F, F = applyMounts(servers),
         \A i \in DOMAIN servers : TypedLists(F[i])
  PROVE  applyMounts(F) = F
<1>1. /\ F = [i \in DOMAIN servers |-> F[i]]
      /\ \A i \in DOMAIN servers : F[i] = Folded(servers[i], F)
  BY FoldedUnfold, Zenon
<1>2. ASSUME NEW i \in DOMAIN servers PROVE F[i].mounted = <<>>
  <2>1. F[i] = Folded(servers[i], F)
    BY <1>1, Zenon
  <2>2. Folded(servers[i], F).mounted = <<>>
    BY FoldedWhole
  <2> QED BY <2>1, <2>2, Zenon
<1>3. AllForward(F)
  <2> DEFINE n == Len(servers)
             S == {F[i] : i \in DOMAIN servers}
  <2>1. n \in Nat /\ DOMAIN servers = 1 .. n
    BY DEF AllForward
  <2> HIDE DEF n
  <2>2. F = [i \in 1 .. n |-> F[i]] /\ \A i \in 1 .. n : F[i] \in S
    BY <1>1, <2>1
  <2>3. F \in Seq(S)
    <3> HIDE DEF S
    <3> QED BY <2>1, <2>2, ListMade
  <2>4. Len(F) \in Nat /\ DOMAIN F = 1 .. Len(F)
    BY <2>3, ListFacts
  <2>5. \A i \in DOMAIN F : i \in DOMAIN servers
    BY <1>1
  <2> QED BY <1>2, <2>4, <2>5 DEF AllForward
<1>4. /\ applyMounts(F) = [i \in DOMAIN F |-> applyMounts(F)[i]]
      /\ \A i \in DOMAIN F : applyMounts(F)[i] = Folded(F[i], applyMounts(F))
  BY <1>3, FoldedUnfold
<1>5. DOMAIN F = DOMAIN servers
  BY <1>1
<1>6. ASSUME NEW i \in DOMAIN F PROVE Folded(F[i], applyMounts(F)) = F[i]
  <2> DEFINE s == F[i]
             t == Folded(s, applyMounts(F))
  <2>1. i \in DOMAIN servers /\ s.mounted = <<>> /\ TypedLists(s)
    BY <1>2, <1>5
  <2>2. Whole(s) /\ Whole(t)
    BY <1>1, <2>1, FoldedWhole, Zenon
  <2> HIDE DEF s
  <2>3. /\ t.middleware = s.middleware /\ t.hooks = s.hooks /\ t.routes = s.routes
        /\ t.mounted = s.mounted /\ t.notFound = s.notFound
    BY <2>1, FoldedBare
  <2> HIDE DEF t
  <2>4. t = s
    BY <2>2, <2>3, Zenon DEF Whole
  <2> QED BY <2>4 DEF s, t
<1> QED BY <1>1, <1>4, <1>5, <1>6

\* For every application whose Servers are mounted in one another: after
\* #applyMounts each Server holds exactly what was declared for it and for those
\* mounted in it, every entry once and at its place, whatever bases and prefixes it
\* was written with; and to fold again, as a second listen() does, changes nothing
\* (index.ts 643-658).
THEOREM AsDeclared ==
  ASSUME NEW app, WellFormed(app), NEW F, F = applyMounts(NewServers(app))
  PROVE  /\ \A i \in DOMAIN app : Good(F[i], Declared(app)[i])
         /\ NoSlash(F[1]) /\ applyMounts(F) = F
<1> DEFINE D == Declared(app)
           n == Len(app)
           servers == NewServers(app)
<1>1. /\ Forward(app) /\ 1 \in DOMAIN app /\ OwnScoped(app[1])
      /\ \A i \in DOMAIN app : app[i] \in Declarations /\ OwnNamed(app[i])
  BY WellFormedFacts
<1>2. n \in Nat /\ DOMAIN app = 1 .. n
  BY <1>1 DEF Forward
<1>3. servers = [i \in 1 .. n |-> servers[i]] /\ \A i \in 1 .. n : servers[i] = NewServer(app[i])
  BY <1>2 DEF NewServers
<1>4. Len(servers) = n /\ DOMAIN servers = 1 .. n
  <2> DEFINE S == {servers[i] : i \in 1 .. n}
  <2> HIDE DEF servers, n
  <2>1. \A i \in 1 .. n : servers[i] \in S
    OBVIOUS
  <2>2. servers \in Seq(S)
    <3> HIDE DEF S
    <3> QED BY <1>2, <1>3, <2>1, ListMade
  <2>3. Len(servers) \in Nat /\ DOMAIN servers = 1 .. Len(servers) /\ DOMAIN servers = 1 .. n
    BY <1>3, <2>2, ListFacts
  <2> QED BY <1>2, <2>3, IntervalEnd
<1>5. AllForward(servers)
  <2>1. ASSUME NEW i \in 1 .. n
        PROVE  /\ DOMAIN servers[i].mounted = DOMAIN app[i].mounts
               /\ \A k \in DOMAIN app[i].mounts : servers[i].mounted[k].sub = app[i].mounts[k].sub
    <3>1. DOMAIN servers[i].mounted = DOMAIN app[i].mounts
      BY <1>3 DEF NewServer
    <3>2. ASSUME NEW k \in DOMAIN app[i].mounts PROVE servers[i].mounted[k].sub = app[i].mounts[k].sub
      BY <1>3 DEF NewServer, route
    <3> QED BY <3>1, <3>2
  <2> HIDE DEF servers, n
  <2>2. \A i \in 1 .. n : \A k \in DOMAIN app[i].mounts : app[i].mounts[k].sub \in i + 1 .. n
    BY <1>1, <1>2 DEF Forward, n
  <2> QED BY <1>2, <1>4, <2>1, <2>2 DEF AllForward
<1>6. \A i \in 1 .. n : F[i] = Folded(NewServer(app[i]), F)
  <2>1. \A i \in DOMAIN servers : F[i] = Folded(servers[i], F)
    BY <1>5, FoldedUnfold, Zenon
  <2> HIDE DEF servers, n
  <2> QED BY <1>3, <1>4, <2>1
<1>7. \A i \in 1 .. n : D[i] = WithMounts(app[i], D)
  BY <1>1, <1>2, DeclaredUnfold
<1> HIDE DEF D, n, servers
<1> DEFINE T == {i \in 1 .. n : Good(F[i], D[i])}
<1>8. ASSUME NEW i \in 1 .. n, \A j \in i + 1 .. n : j \in T PROVE i \in T /\ (OwnScoped(app[i]) => NoSlash(F[i]))
  <2>1. app[i] \in Declarations /\ OwnNamed(app[i]) /\ F[i] = Folded(NewServer(app[i]), F)
    BY <1>1, <1>2, <1>6
  <2>2. ASSUME NEW k \in DOMAIN app[i].mounts PROVE app[i].mounts[k].sub \in T
    BY <1>1, <1>2, <1>8 DEF Forward, n
  <2>3. Mounting(app[i], F, D)
    <3>1. \A k \in DOMAIN app[i].mounts : Good(F[app[i].mounts[k].sub], D[app[i].mounts[k].sub])
      BY <2>2
    <3>2. i \in DOMAIN app
      BY <1>2
    <3>3. \A k \in DOMAIN app[i].mounts :
              /\ ~IsEmpty(app[i].base.place \o app[i].mounts[k].at.place)
              /\ Ids(D[app[i].mounts[k].sub]) \intersect Ids(OwnItems(app[i])) = {}
              /\ \A l \in DOMAIN app[i].mounts :
                   k # l => Ids(D[app[i].mounts[k].sub]) \intersect Ids(D[app[i].mounts[l].sub]) = {}
      BY <3>2, WellFormedFacts, Zenon DEF D
    <3> QED BY <3>1, <3>3, Zenon DEF Mounting
  <2>4. Good(F[i], WithMounts(app[i], D)) /\ (OwnScoped(app[i]) => NoSlash(F[i]))
    BY <2>1, <2>3, ServerAsDeclared
  <2> QED BY <1>7, <2>4
<1>9. \A i \in 1 .. n : i \in T
  <2>1. \A i \in 1 .. n : (\A j \in i + 1 .. n : j \in T) => i \in T
    BY <1>8
  <2> HIDE DEF T
  <2> QED BY <1>2, <2>1, Downward
<1>10. NoSlash(F[1])
  <2>1. 1 \in 1 .. n /\ \A j \in 1 + 1 .. n : j \in T
    BY <1>1, <1>2, <1>9
  <2> QED BY <1>1, <1>8, <2>1
<1>11. applyMounts(F) = F
  <2>1. \A i \in DOMAIN servers : TypedLists(F[i])
    BY <1>4, <1>9 DEF Good
  <2> QED BY <1>5, <2>1, FoldedTwice DEF servers
<1> QED BY <1>2, <1>9, <1>10, <1>11 DEF D
\* No route has the id of the handler of 404.
LEMMA NotFoundApart ==
  ASSUME NEW app, WellFormed(app)
  PROVE  \A p \in Places(app) : p.id # "notFound"
<1> DEFINE D == Declared(app)
           n == Len(app)
           T == {i \in 1 .. n : \A x \in D[i] : x.kind = "route" => x.id # "notFound"}
<1>1. /\ Forward(app) /\ 1 \in DOMAIN app
      /\ \A i \in DOMAIN app : "notFound" \notin Ids(ToSet(app[i].routes))
  BY WellFormedFacts
<1>2. n \in Nat /\ DOMAIN app = 1 .. n
  BY <1>1 DEF Forward
<1>3. \A i \in 1 .. n : D[i] = WithMounts(app[i], D)
  BY <1>1, <1>2, DeclaredUnfold
<1> HIDE DEF D, n
<1>4. ASSUME NEW i \in 1 .. n, \A j \in i + 1 .. n : j \in T,
             NEW x \in WithMounts(app[i], D), x.kind = "route"
      PROVE  x.id # "notFound"
  <2>1. CASE x \in OwnItems(app[i])
    <3>1. \A id, a : Guard(id, a).kind = "guard"
      BY DEF Guard
    <3>2. PICK r \in ToSet(app[i].routes) :
            x = Place(r.id, r.method, app[i].base.place \o PlaceOf(r.path))
      BY <1>4, <2>1, <3>1 DEF OwnItems
    <3>3. x.id = r.id
      BY <3>2 DEF Place
    <3> QED BY <1>1, <1>2, <3>3 DEF Ids
  <2>2. CASE x \in UNION {Below(app[i].base.place \o m.at.place, D[m.sub]) : m \in ToSet(app[i].mounts)}
    <3>1. PICK m \in ToSet(app[i].mounts) : x \in Below(app[i].base.place \o m.at.place, D[m.sub])
      BY <2>2
    <3>2. PICK y \in D[m.sub] : x = Sunk(app[i].base.place \o m.at.place, y)
      BY <3>1 DEF Below
    <3>3. x.kind = y.kind /\ x.id = y.id
      BY <3>2 DEF Sunk
    <3>4. m.sub \in T
      BY <1>1, <1>2, <1>4 DEF ToSet, Forward, n
    <3> QED BY <1>4, <3>3, <3>4
  <2> QED BY <1>4, <2>1, <2>2 DEF WithMounts
<1>5. \A i \in 1 .. n : (\A j \in i + 1 .. n : j \in T) => i \in T
  BY <1>3, <1>4
<1>6. 1 \in T
  <2> HIDE DEF T
  <2> QED BY <1>1, <1>2, <1>5, Downward
<1> QED BY <1>6 DEF Places, D

-----------------------------------------------------------------------------
(* The leaf of a request.                                                  *)

\* What a Server stands for, by kind.
LEMMA GoodKinds ==
  ASSUME NEW s, NEW items, Good(s, items)
  PROVE  /\ {x \in items : x.kind = "guard"} = GuardsIn(s.middleware) \union GuardsIn(s.hooks)
         /\ {x \in items : x.kind = "route"} = RoutesIn(s.routes)
<1>1. (\A x : GuardOf(x).kind = "guard") /\ \A x : RouteOf(x).kind = "route"
  BY DEF GuardOf, RouteOf, Guard, Place
<1>2. /\ \A x \in GuardsIn(s.middleware) : x.kind = "guard"
      /\ \A x \in GuardsIn(s.hooks) : x.kind = "guard"
      /\ \A x \in RoutesIn(s.routes) : x.kind = "route"
  BY <1>1 DEF GuardsIn, RoutesIn
<1>3. items = GuardsIn(s.middleware) \union GuardsIn(s.hooks) \union RoutesIn(s.routes)
  BY DEF Good, Shown
<1> QED BY <1>2, <1>3

\* A route is requested when its pattern matches.
LEMMA AskedMatches ==
  ASSUME NEW r, r.path \in Paths, ~IsEmpty(r.path), NEW path
  PROVE  Asked(RouteOf(r), path) <=> Matches(r.path, path)
<1> DEFINE q == IF RouteOf(r).at = <<>> THEN <<"">> ELSE RouteOf(r).at
<1>1. RouteOf(r).at = PlaceOf(r.path)
  BY DEF RouteOf, Place
<1>2. q = r.path
  BY <1>1, PathTypes DEF PlaceOf, IsEmpty
<1> HIDE DEF q
<1>3. Asked(RouteOf(r), path) <=> Matches(q, path)
  BY DEF Asked, q
<1> QED BY <1>2, <1>3

\* A prefix applies to a path when its place is at or above the path's.
LEMMA PrefixPlace ==
  ASSUME NEW a \in Paths, ~IsSlash(a), NEW p \in Paths, ~IsEmpty(p)
  PROVE  /\ PlaceOf(a) = a
         /\ prefixMatches(a, p) <=> IsPrefix(a, PlaceOf(p))
<1>1. PlaceOf(a) = a
  BY DEF PlaceOf, IsSlash
<1>2. Len(a) \in Nat /\ Len(p) \in Nat /\ (Len(a) = 0 <=> a = <<>>) /\ Len(<<>>) = 0 /\ Len(<<"">>) = 1
  BY DEF Paths
<1>3. \A q \in Paths : IsPrefix(q, q) /\ (a = <<>> => IsPrefix(a, q))
  BY DEF IsPrefix, Paths
<1>4. CASE p = <<"">>
  <2>1. PlaceOf(p) = <<>> /\ <<>> \in Paths
    BY <1>4, PathTypes DEF PlaceOf
  <2>2. IsPrefix(a, <<>>) => a = <<>>
    BY <1>2 DEF IsPrefix
  <2>3. prefixMatches(a, p) => a = <<>>
    <3>1. ASSUME IsStrictPrefix(a, p), a # <<>> PROVE FALSE
      <4>0. Len(a) \in Nat /\ Len(a) <= 1 /\ Len(a) # 0
        BY <1>2, <1>4, <3>1, Zenon DEF IsStrictPrefix, IsPrefix
      <4>e. \A k \in Nat : k <= 1 /\ k # 0 => k = 1
        OBVIOUS
      <4>1. Len(a) = 1
        BY <4>0, <4>e, Zenon
      <4>2. SubSeq(a, 1, 1) = SubSeq(p, 1, 1) /\ Len(p) = 1
        BY <1>2, <1>4, <3>1, <4>1, Zenon DEF IsStrictPrefix, IsPrefix
      <4>3. \A q \in Paths : Len(q) = 1 => SubSeq(q, 1, 1) = q
        BY DEF Paths
      <4> QED BY <3>1, <4>1, <4>2, <4>3, Zenon DEF IsStrictPrefix
    <3>2. a # p
      BY <1>4 DEF IsSlash
    <3> QED BY <3>1, <3>2 DEF prefixMatches
  <2> QED BY <1>1, <1>3, <2>1, <2>2, <2>3 DEF prefixMatches
<1>5. CASE p # <<"">>
  <2>1. PlaceOf(p) = p
    BY <1>5 DEF PlaceOf
  <2> QED BY <1>1, <1>3, <2>1 DEF prefixMatches, IsStrictPrefix
<1> QED BY <1>4, <1>5

\* matchit takes one of the leaves that match.
LEMMA AtHits ==
  ASSUME NEW routes, NEW method, NEW path, Hits(routes, method, path) # {}
  PROVE  at(routes, method, path) \in Hits(routes, method, path)
<1> DEFINE hits == Hits(routes, method, path)
           first(i) == \A j \in hits \ {i} : Precedes(routes[i].path, routes[j].path)
           P(i) == (\E j \in hits : first(j)) => first(i)
<1>1. \E i \in hits : P(i)
  <2> HIDE DEF hits, first
  <2>1. hits # {}
    BY DEF hits
  <2> QED BY <2>1
<1>2. at(routes, method, path) = CHOOSE i \in hits : P(i)
  BY Zenon DEF at
<1> HIDE DEF hits, P
<1>3. (CHOOSE i \in hits : P(i)) \in hits
  BY <1>1, Zenon
<1> QED BY <1>2, <1>3 DEF hits

LEMMA MatchRoute ==
  ASSUME NEW S, NEW routes \in Seq(S), NEW method, NEW path,
         NEW m, m = match_route(routes, method, path)
  PROVE  /\ m # 0 => /\ m \in DOMAIN routes /\ Matches(routes[m].path, path)
                     /\ routes[m].method = method \/ routes[m].method = "ALL"
         /\ m = 0 => \A i \in DOMAIN routes :
                       Matches(routes[i].path, path) =>
                         routes[i].method # method /\ routes[i].method # "ALL"
<1>1. 0 \notin DOMAIN routes
  BY ListFacts
<1>2. \A w : Hits(routes, w, path) # {} =>
             /\ at(routes, w, path) \in DOMAIN routes /\ routes[at(routes, w, path)].method = w
             /\ Matches(routes[at(routes, w, path)].path, path)
  BY AtHits DEF Hits
<1>3. CASE Hits(routes, method, path) # {}
  <2>1. m = at(routes, method, path)
    BY <1>3 DEF match_route
  <2> QED BY <1>1, <1>2, <1>3, <2>1
<1>4. CASE Hits(routes, method, path) = {} /\ Hits(routes, "ALL", path) # {}
  <2>1. m = at(routes, "ALL", path)
    BY <1>4 DEF match_route
  <2> QED BY <1>1, <1>2, <1>4, <2>1
<1>5. CASE Hits(routes, method, path) = {} /\ Hits(routes, "ALL", path) = {}
  <2>1. m = 0
    BY <1>5 DEF match_route
  <2> QED BY <1>5, <2>1 DEF Hits
<1> QED BY <1>3, <1>4, <1>5
\* The entries of a list that a leaf takes along.
Covering(guards, path) ==
  {g \in guards : (IsEmpty(path) /\ IsEmpty(g.at)) \/ (~IsEmpty(path) /\ IsPrefix(g.at, PlaceOf(path)))}

LEMMA CoverEntry ==
  ASSUME NEW a \in Paths, ~IsSlash(a), NEW path \in Paths
  PROVE  /\ PlaceOf(a) = a
         /\ prefixMatches(a, path) <=>
              (IsEmpty(path) /\ IsEmpty(a)) \/ (~IsEmpty(path) /\ IsPrefix(a, PlaceOf(path)))
<1>1. PlaceOf(a) = a
  BY DEF PlaceOf, IsSlash
<1>2. CASE IsEmpty(path)
  <2>1. IsPrefix(a, <<>>) => a = <<>>
    BY DEF IsPrefix, Paths
  <2> QED BY <1>1, <1>2, <2>1 DEF prefixMatches, IsStrictPrefix, IsEmpty
<1>3. CASE ~IsEmpty(path)
  BY <1>3, PrefixPlace
<1> QED BY <1>2, <1>3

LEMMA ListGuards ==
  ASSUME NEW list, \A k \in DOMAIN list : list[k].prefix \in Paths /\ ~IsSlash(list[k].prefix),
         Distinct(list), NEW path \in Paths,
         NEW f, f = [k \in Applying(list, path) |-> list[k].id]
  PROVE  /\ IsInjective(f) /\ Range(f) \subseteq Ids(ToSet(list))
         /\ Range(f) = Ids(Covering(GuardsIn(list), path))
<1> DEFINE A == Applying(list, path)
<1>1. DOMAIN f = A /\ A \subseteq DOMAIN list /\ \A k \in A : f[k] = list[k].id
  BY DEF Applying
<1>2. \A k \in DOMAIN list : k \in A <=> prefixMatches(list[k].prefix, path)
  BY DEF Applying
<1> HIDE DEF A
<1>3. IsInjective(f)
  BY <1>1 DEF IsInjective, Distinct
<1>4. Range(f) \subseteq Ids(ToSet(list))
  BY <1>1 DEF Range, Ids, ToSet
<1>5. ASSUME NEW k \in DOMAIN list
      PROVE  /\ GuardOf(list[k]).id = list[k].id
             /\ k \in A <=> GuardOf(list[k]) \in Covering(GuardsIn(list), path)
  <2>1. GuardOf(list[k]) \in GuardsIn(list)
    BY DEF GuardsIn, ToSet
  <2>2. GuardOf(list[k]).id = list[k].id /\ GuardOf(list[k]).at = PlaceOf(list[k].prefix)
    BY DEF GuardOf, Guard
  <2>3. /\ PlaceOf(list[k].prefix) = list[k].prefix
        /\ prefixMatches(list[k].prefix, path) <=>
             (IsEmpty(path) /\ IsEmpty(list[k].prefix))
               \/ (~IsEmpty(path) /\ IsPrefix(list[k].prefix, PlaceOf(path)))
    BY CoverEntry
  <2> QED BY <1>2, <2>1, <2>2, <2>3, Zenon DEF Covering
<1>6. \A g \in Covering(GuardsIn(list), path) : \E k \in DOMAIN list : g = GuardOf(list[k])
  BY DEF Covering, GuardsIn, ToSet
<1>7. ASSUME NEW i PROVE i \in Range(f) <=> i \in Ids(Covering(GuardsIn(list), path))
  <2>1. i \in Range(f) <=> \E k \in A : i = list[k].id
    BY <1>1 DEF Range
  <2>2. i \in Ids(Covering(GuardsIn(list), path)) <=>
          \E g \in Covering(GuardsIn(list), path) : i = g.id
    BY DEF Ids
  <2>3. ASSUME NEW k \in A, i = list[k].id
        PROVE  \E g \in Covering(GuardsIn(list), path) : i = g.id
    <3>1. k \in DOMAIN list
      BY <1>1
    <3>2. GuardOf(list[k]) \in Covering(GuardsIn(list), path) /\ i = GuardOf(list[k]).id
      BY <1>5, <2>3, <3>1
    <3> QED BY <3>2
  <2>4. ASSUME NEW g \in Covering(GuardsIn(list), path), i = g.id PROVE \E k \in A : i = list[k].id
    <3>1. PICK k \in DOMAIN list : g = GuardOf(list[k])
      BY <1>6
    <3>2. k \in A /\ i = list[k].id
      BY <1>5, <2>4, <3>1
    <3> QED BY <3>2
  <2> QED BY <2>1, <2>2, <2>3, <2>4
<1> QED BY <1>3, <1>4, <1>7

LEMMA LeafGuards ==
  ASSUME NEW s, NEW items, Good(s, items), NoSlash(s), NEW path \in Paths,
         NEW mw, mw = [k \in Applying(s.middleware, path) |-> s.middleware[k].id],
         NEW hk, hk = [k \in Applying(s.hooks, path) |-> s.hooks[k].id]
  PROVE  /\ IsInjective(mw) /\ IsInjective(hk) /\ Range(mw) \intersect Range(hk) = {}
         /\ Range(mw) \union Range(hk) = Ids(Covering({x \in items : x.kind = "guard"}, path))
<1>1. s.middleware \in Seq(Entries) /\ s.hooks \in Seq(HookEntries)
  BY DEF Good, TypedLists
<1>2. \A k \in DOMAIN s.middleware : s.middleware[k] \in Entries /\ s.middleware[k] \in ToSet(s.middleware)
  BY <1>1 DEF ToSet
<1>3. \A k \in DOMAIN s.hooks : s.hooks[k] \in HookEntries /\ s.hooks[k] \in ToSet(s.hooks)
  BY <1>1 DEF ToSet
<1>4. \A k \in DOMAIN s.middleware : s.middleware[k].prefix \in Paths /\ ~IsSlash(s.middleware[k].prefix)
  BY <1>2 DEF NoSlash, Entries
<1>5. \A k \in DOMAIN s.hooks : s.hooks[k].prefix \in Paths /\ ~IsSlash(s.hooks[k].prefix)
  BY <1>3 DEF NoSlash, HookEntries
<1>6. Distinct(s.middleware) /\ Distinct(s.hooks)
      /\ Ids(ToSet(s.middleware)) \intersect Ids(ToSet(s.hooks)) = {}
  BY DEF Good
<1>7. /\ IsInjective(mw) /\ Range(mw) \subseteq Ids(ToSet(s.middleware))
      /\ Range(mw) = Ids(Covering(GuardsIn(s.middleware), path))
  BY <1>4, <1>6, ListGuards
<1>8. /\ IsInjective(hk) /\ Range(hk) \subseteq Ids(ToSet(s.hooks))
      /\ Range(hk) = Ids(Covering(GuardsIn(s.hooks), path))
  BY <1>5, <1>6, ListGuards
<1>9. {x \in items : x.kind = "guard"} = GuardsIn(s.middleware) \union GuardsIn(s.hooks)
  BY GoodKinds
<1>10. Covering(GuardsIn(s.middleware) \union GuardsIn(s.hooks), path)
         = Covering(GuardsIn(s.middleware), path) \union Covering(GuardsIn(s.hooks), path)
  BY DEF Covering
<1>11. \A a, b : Ids(a \union b) = Ids(a) \union Ids(b)
  BY DEF Ids
<1>12. Range(mw) \union Range(hk) = Ids(Covering({x \in items : x.kind = "guard"}, path))
  <2> DEFINE A == Covering(GuardsIn(s.middleware), path)
             B == Covering(GuardsIn(s.hooks), path)
             C == Covering({x \in items : x.kind = "guard"}, path)
  <2>1. C = A \union B
    BY <1>9, <1>10, Zenon
  <2>2. Range(mw) = Ids(A) /\ Range(hk) = Ids(B)
    BY <1>7, <1>8
  <2> HIDE DEF A, B, C
  <2>3. Range(mw) \union Range(hk) = Ids(C)
    BY <1>11, <2>1, <2>2
  <2> QED BY <2>3 DEF C
<1>13. Range(mw) \intersect Range(hk) = {}
  BY <1>6, <1>7, <1>8
<1> QED BY <1>7, <1>8, <1>12, <1>13

\* A route is the only one of its id.
LEMMA LeafPlace ==
  ASSUME NEW s, NEW items, Good(s, items), NEW j \in DOMAIN s.routes
  PROVE  /\ RouteOf(s.routes[j]) \in {x \in items : x.kind = "route"}
         /\ RouteOf(s.routes[j]).id = s.routes[j].id
         /\ \A q \in {x \in items : x.kind = "route"} :
              q.id = s.routes[j].id => q = RouteOf(s.routes[j])
<1>1. {x \in items : x.kind = "route"} = RoutesIn(s.routes)
  BY GoodKinds
<1>2. \A x : RouteOf(x).id = x.id
  BY DEF RouteOf, Place
<1>3. RouteOf(s.routes[j]) \in RoutesIn(s.routes)
  BY DEF RoutesIn, ToSet
<1>4. ASSUME NEW q \in RoutesIn(s.routes), q.id = s.routes[j].id PROVE q = RouteOf(s.routes[j])
  <2>1. PICK k \in DOMAIN s.routes : q = RouteOf(s.routes[k])
    BY DEF RoutesIn, ToSet
  <2>2. k = j
    BY <1>2, <1>4, <2>1 DEF Good, Distinct
  <2> QED BY <2>1, <2>2
<1> QED BY <1>1, <1>2, <1>3, <1>4, Zenon

\* The methods of the routes a path matches.
MethodsAt(routes, path) == {routes[i].method : i \in {i \in DOMAIN routes : Matches(routes[i].path, path)}}

LEMMA AskedMethods ==
  ASSUME NEW s, NEW items, Good(s, items), NEW path
  PROVE  {p.method : p \in {q \in items : q.kind = "route" /\ Asked(q, path)}} = MethodsAt(s.routes, path)
<1>1. {x \in items : x.kind = "route"} = RoutesIn(s.routes)
  BY GoodKinds
<1>2. ASSUME NEW i \in DOMAIN s.routes
      PROVE  /\ RouteOf(s.routes[i]).method = s.routes[i].method
             /\ Asked(RouteOf(s.routes[i]), path) <=> Matches(s.routes[i].path, path)
  <2>1. s.routes \in Seq(RouteEntries) /\ \A r \in ToSet(s.routes) : ~IsEmpty(r.path)
    BY DEF Good, TypedLists
  <2>2. s.routes[i].path \in Paths /\ ~IsEmpty(s.routes[i].path)
    <3>1. s.routes[i] \in RouteEntries /\ s.routes[i] \in ToSet(s.routes)
      BY <2>1, ListFacts DEF ToSet
    <3> QED BY <2>1, <3>1 DEF RouteEntries
  <2>3. RouteOf(s.routes[i]).method = s.routes[i].method
    BY DEF RouteOf, Place
  <2> QED BY <2>2, <2>3, AskedMatches
<1>3. ASSUME NEW w PROVE (w \in MethodsAt(s.routes, path)) <=>
             \E i \in DOMAIN s.routes : Matches(s.routes[i].path, path) /\ w = s.routes[i].method
  BY DEF MethodsAt
<1>4. ASSUME NEW w PROVE (w \in {p.method : p \in {q \in items : q.kind = "route" /\ Asked(q, path)}}) <=>
             \E p \in RoutesIn(s.routes) : Asked(p, path) /\ w = p.method
  BY <1>1
<1>5. \A p : p \in RoutesIn(s.routes) <=> \E i \in DOMAIN s.routes : p = RouteOf(s.routes[i])
  BY DEF RoutesIn, ToSet
<1>6. ASSUME NEW w
      PROVE  (\E p \in RoutesIn(s.routes) : Asked(p, path) /\ w = p.method) <=>
               \E i \in DOMAIN s.routes : Matches(s.routes[i].path, path) /\ w = s.routes[i].method
  <2>1. ASSUME NEW p \in RoutesIn(s.routes), Asked(p, path), w = p.method
        PROVE  \E i \in DOMAIN s.routes : Matches(s.routes[i].path, path) /\ w = s.routes[i].method
    <3>1. PICK i \in DOMAIN s.routes : p = RouteOf(s.routes[i])
      BY <1>5
    <3> QED BY <1>2, <2>1, <3>1, Zenon
  <2>2. ASSUME NEW i \in DOMAIN s.routes, Matches(s.routes[i].path, path), w = s.routes[i].method
        PROVE  \E p \in RoutesIn(s.routes) : Asked(p, path) /\ w = p.method
    <3>1. RouteOf(s.routes[i]) \in RoutesIn(s.routes)
      BY <1>5
    <3> QED BY <1>2, <2>2, <3>1, Zenon
  <2> QED BY <2>1, <2>2
<1> QED BY <1>3, <1>4, <1>6
=============================================================================
