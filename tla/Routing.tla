------------------------------- MODULE Routing -------------------------------
(***************************************************************************)
(* From the calls an application makes on its Server objects to the leaf   *)
(* and the chain of a request: use, route, the route methods, addHook and  *)
(* #applyMounts of src/js/index.ts, buildChain of src/js/pipeline.ts, and  *)
(* src/src/router.rs with the matchit trees it is built on.                *)
(*                                                                         *)
(* A path is the sequence of what follows each of its slashes: "" is       *)
(* <<>>, "/" is <<"">>, "/a/b" is <<"a", "b">>, "/a/" is <<"a", "">>; to   *)
(* put two paths together is \o.  A path written without its first slash   *)
(* is the same as with it, in every function below.  ":p" is a parameter,  *)
(* "*w" the rest of the path.                                              *)
(*                                                                         *)
(* An application is the sequence of what it wrote for each of its Server  *)
(* objects, the one that listens first:                                    *)
(*   base, notFound,                                                       *)
(*   uses    <<[at, scoped, id]>>  scoped: use(at, fn), otherwise use(fn)  *)
(*   hooks   <<[stage, id]>>                                               *)
(*   routes  <<[method, path, own, id]>>  own: the route's own middleware  *)
(*   mounts  <<[at, sub]>>  sub is the number of a later Server            *)
(* A base or prefix is written as a place with nothing, "/" or "/*" behind *)
(* it: [place, tail].  The calls fill lists that meet only in listen(), so *)
(* that their order among each other makes no difference.  A Server that   *)
(* is mounted twice is written as two; one that is mounted in itself,      *)
(* through another, is left out.                                           *)
(***************************************************************************)
EXTENDS Integers, SequencesExt

Param == ":p"
CatchAll == "*w"

\* '' | '/' → ''; a trailing "/*" and then a trailing slash are removed.
normalizeBase(b) ==
  LET cut(s, last) == IF s # <<>> /\ Last(s) = last THEN Front(s) ELSE s
  IN  cut(cut(b, "*"), "")

\* The path "/" adds nothing to a base.
join(base, path) ==
  IF path \in {<<>>, <<"">>} THEN (IF base = <<>> THEN <<"">> ELSE base)
                             ELSE base \o path

Written(b) == b.place \o b.tail

\* use(): the prefix of the middleware.
use(base, u) ==
  [prefix |-> IF u.scoped THEN join(base, normalizeBase(Written(u.at))) ELSE base, id |-> u.id]

\* addHook() and onError(): a hook covers the base.
addHook(base, h) == [prefix |-> base, stage |-> h.stage, id |-> h.id]

\* #add(), behind all route methods.
add(base, r) ==
  [method |-> r.method, path |-> join(base, r.path), own |-> r.own, id |-> r.id]

\* route(): sub is kept by reference until listen().
route(base, m) == [prefix |-> join(base, normalizeBase(Written(m.at))), sub |-> m.sub]

\* The lists of a Server when the application has made its calls.
NewServer(d) ==
  LET base == normalizeBase(Written(d.base))
  IN  [middleware |-> [i \in DOMAIN d.uses |-> use(base, d.uses[i])],
       hooks |-> [i \in DOMAIN d.hooks |-> addHook(base, d.hooks[i])],
       routes |-> [i \in DOMAIN d.routes |-> add(base, d.routes[i])],
       mounted |-> [i \in DOMAIN d.mounts |-> route(base, d.mounts[i])],
       notFound |-> d.notFound]
NewServers(app) == [i \in DOMAIN app |-> NewServer(app[i])]

\* Mutant of remap: what a sub-app scoped itself keeps its own prefix.
RemapScopedNot(prefix, pfx) == IF pfx = <<>> THEN prefix ELSE pfx

\* A prefix of a sub-app, seen from the Server it is mounted in.
remap(prefix, pfx) == IF pfx = <<>> THEN prefix ELSE join(prefix, pfx)

\* The lists of a sub-app, seen from there.
Remapped(x, prefix) == [x EXCEPT !.prefix = remap(prefix, @)]
Moved(r, prefix) == [r EXCEPT !.path = join(prefix, @)]
Under(list, prefix) == [i \in DOMAIN list |-> Remapped(list[i], prefix)]
Move(list, prefix) == [i \in DOMAIN list |-> Moved(list[i], prefix)]

\* The lists of the mounted Servers, whose own mounts are folded in, follow one's
\* own; nothing is mounted any more, so that listen() can be called again.
Folded(s, folded) ==
  LET sub(k) == folded[s.mounted[k].sub]
      at_(k) == s.mounted[k].prefix
  IN  [middleware |-> s.middleware
                        \o FlattenSeq([k \in DOMAIN s.mounted |-> Under(sub(k).middleware, at_(k))]),
       hooks |-> s.hooks \o FlattenSeq([k \in DOMAIN s.mounted |-> Under(sub(k).hooks, at_(k))]),
       routes |-> s.routes \o FlattenSeq([k \in DOMAIN s.mounted |-> Move(sub(k).routes, at_(k))]),
       mounted |-> <<>>,
       notFound |-> s.notFound]

\* #applyMounts of every Server.
applyMounts(servers) ==
  LET folded[i \in DOMAIN servers] == Folded(servers[i], folded) IN folded

-----------------------------------------------------------------------------
(* The chain of a leaf.                                                    *)

prefixMatches(prefix, path) == prefix = <<>> \/ path = prefix \/ IsStrictPrefix(prefix, path)

\* The scoped entries of a list that apply to a path, by their numbers.
Applying(list, path) == {k \in DOMAIN list : prefixMatches(list[k].prefix, path)}

\* The middleware and hooks of the leaf for route r; the path of notFound is ''.
ChainOf(s, r) ==
  [middleware |-> Applying(s.middleware, r.path),
   hooks |-> Applying(s.hooks, r.path),
   own |-> r.own]

NotFoundRoute == [method |-> "NONE", path |-> <<>>, own |-> 0, id |-> "notFound"]

-----------------------------------------------------------------------------
(* matchit and router.rs.                                                  *)

\* matchit: pattern p matches a path.
Matches(p, path) ==
  LET fits(i) == p[i] = path[i] \/ (p[i] = Param /\ path[i] # "")
  IN  IF p # <<>> /\ Last(p) = CatchAll
      THEN /\ Len(path) >= Len(p) /\ path[Len(p)] # ""
           /\ \A i \in 1 .. Len(p) - 1 : fits(i)
      ELSE Len(path) = Len(p) /\ \A i \in 1 .. Len(p) : fits(i)

\* matchit: at the first place where they differ, text comes before a parameter
\* and a parameter before the rest.
Precedes(p, q) ==
  LET rank(x) == CASE x = Param -> 2 [] x = CatchAll -> 3 [] OTHER -> 1
      at == CHOOSE i \in 1 .. Len(p) : p[i] # q[i] /\ \A j \in 1 .. i - 1 : p[j] = q[j]
  IN  rank(p[at]) < rank(q[at])

\* The leaves of the tree of a method that match a path, and the one matchit takes.
Hits(routes, method, path) ==
  {i \in DOMAIN routes : routes[i].method = method /\ Matches(routes[i].path, path)}
at(routes, method, path) ==
  LET hits == Hits(routes, method, path)
      first(i) == \A j \in hits \ {i} : Precedes(routes[i].path, routes[j].path)
  IN  CHOOSE i \in hits : (\E j \in hits : first(j)) => first(i)

\* Routes::build: a pattern that is twice in one tree is an error.
Conflict(routes) ==
  \E i, j \in DOMAIN routes :
    i # j /\ routes[i].method = routes[j].method /\ routes[i].path = routes[j].path

\* The tree of the method, then the tree of ALL; 0 if neither has the path.
match_route(routes, method, path) ==
  CASE Hits(routes, method, path) # {} -> at(routes, method, path)
    [] Hits(routes, method, path) = {} /\ Hits(routes, "ALL", path) # {} -> at(routes, "ALL", path)
    [] OTHER -> 0

Standard == {"GET", "POST", "PUT", "PATCH", "DELETE", "QUERY"}

\* Mutant of allowed_methods: the HEAD that comes with GET is left out.
AllowedWithoutHead(routes, path) ==
  LET own == {routes[i].method : i \in {i \in DOMAIN routes : Matches(routes[i].path, path)}}
      met == (own \ {"ALL"}) \union (IF "ALL" \in own THEN Standard ELSE {})
  IN  IF met = {} THEN {} ELSE met \union {"OPTIONS"}

\* The methods a path exists under, with the HEAD that comes with GET and the
\* automatic OPTIONS.
allowed_methods(routes, path) ==
  LET own == {routes[i].method : i \in {i \in DOMAIN routes : Matches(routes[i].path, path)}}
      met == (own \ {"ALL"}) \union (IF "ALL" \in own THEN Standard ELSE {})
  IN  IF met = {} THEN {}
      ELSE met \union {"OPTIONS"} \union (IF "GET" \in met THEN {"HEAD"} ELSE {})

-----------------------------------------------------------------------------
(* What a declaration means, for the properties.                           *)

\* The place of a route: the path "/" adds nothing.
PlaceOf(path) == IF path = <<"">> THEN <<>> ELSE path

Guard(id, at_) == [kind |-> "guard", id |-> id, method |-> "", at |-> at_]
Place(id, method, at_) == [kind |-> "route", id |-> id, method |-> method, at |-> at_]

\* The middleware and hooks that one Server declares, with the places they cover,
\* and its routes with theirs.
UsePlace(u) == IF u.scoped THEN u.at.place ELSE <<>>
OwnItems(d) ==
  {Guard(u.id, d.base.place \o UsePlace(u)) : u \in ToSet(d.uses)}
    \union {Guard(h.id, d.base.place) : h \in ToSet(d.hooks)}
    \union {Place(r.id, r.method, d.base.place \o PlaceOf(r.path)) : r \in ToSet(d.routes)}

\* Items below a place.
Sunk(place, x) == [kind |-> x.kind, id |-> x.id, method |-> x.method, at |-> place \o x.at]
Below(place, items) == {Sunk(place, x) : x \in items}

\* What each Server declares with the ones mounted in it.
WithMounts(d, items) ==
  OwnItems(d) \union UNION {Below(d.base.place \o m.at.place, items[m.sub]) : m \in ToSet(d.mounts)}
Declared(app) ==
  LET items[i \in DOMAIN app] == WithMounts(app[i], items) IN items

\* The middleware and hooks of the Server that listens, and its routes.
Scopes(app) == {x \in Declared(app)[1] : x.kind = "guard"}
Places(app) == {x \in Declared(app)[1] : x.kind = "route"}

\* Place p is requested by a path.
Asked(p, path) == Matches(IF p.at = <<>> THEN <<"">> ELSE p.at, path)

\* The application answers a method on a path: with a route for it or for ALL, HEAD
\* with the route of GET, OPTIONS wherever there is something.
Serves(app, method, path) ==
  LET asked == {p \in Places(app) : Asked(p, path)}
      by(m) == \E p \in asked : p.method \in {m, "ALL"}
  IN  by(method) \/ (method = "HEAD" /\ by("GET")) \/ (method = "OPTIONS" /\ asked # {})

-----------------------------------------------------------------------------
(* The applications the properties are about.                              *)

Bases == {b \in [place : Seq(STRING), tail : {<<>>, <<"">>, <<"*">>}] :
               b.place = <<>> \/ Last(b.place) \notin {"", "*"}}
UseCalls == [at : Bases, scoped : BOOLEAN, id : STRING]
HookCalls == [stage : STRING, id : STRING]
RouteCalls == [method : STRING, path : Seq(STRING), own : Nat, id : STRING]
MountCalls == [at : Bases, sub : Nat]
Declarations ==
  [base : Bases, notFound : BOOLEAN, uses : Seq(UseCalls), hooks : Seq(HookCalls),
   routes : Seq(RouteCalls), mounts : Seq(MountCalls)]

\* Every id names one declaration, and a Server is mounted once.
Distinct(list) == \A j, k \in DOMAIN list : list[j].id = list[k].id => j = k
Ids(items) == {x.id : x \in items}
NamedApart(app) ==
  \A i \in DOMAIN app :
    LET d == app[i]
        below(k) == Ids(Declared(app)[d.mounts[k].sub])
    IN  /\ Distinct(d.uses) /\ Distinct(d.hooks) /\ Distinct(d.routes)
        /\ Ids(ToSet(d.uses)) \intersect Ids(ToSet(d.hooks)) = {}
        /\ "notFound" \notin Ids(ToSet(d.routes))
        /\ \A k \in DOMAIN d.mounts :
             /\ below(k) \intersect Ids(OwnItems(d)) = {}
             /\ \A l \in DOMAIN d.mounts \ {k} : below(k) \intersect below(l) = {}

\* Nothing is mounted at '/', and the Server that listens scopes nothing to '/':
\* without a base join makes '/' of the empty prefix again.
WellFormed(app) ==
  /\ app \in Seq(Declarations) /\ app # <<>>
  /\ \A i \in DOMAIN app : \A k \in DOMAIN app[i].mounts :
       /\ app[i].mounts[k].sub \in i + 1 .. Len(app)
       /\ app[i].base.place \o app[i].mounts[k].at.place # <<>>
  /\ \A k \in DOMAIN app[1].uses :
       app[1].uses[k].scoped => app[1].base.place \o app[1].uses[k].at.place # <<>>
  /\ NamedApart(app)
=============================================================================
