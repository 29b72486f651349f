------------------------------- MODULE MCEdge -------------------------------
(***************************************************************************)
(* Small instances of Pipeline and of Edge.                                *)
(*                                                                         *)
(* Of Pipeline: all chains with at most one hook of a kind, one            *)
(* middleware, and either both or none of the two ways to be cut off; and  *)
(* one chain with two of everything that runs in a sequence.               *)
(*                                                                         *)
(* Of Edge: applications that nest bases, prefixes and mounts, with every  *)
(* method on paths in, above, below and beside their routes; one           *)
(* application with every kind of CORS policy and origin; and one with     *)
(* prefixes of both versions, whole, short, overlong, without address      *)
(* and wrong, cut at and around every boundary of the parser.              *)
(***************************************************************************)
EXTENDS Edge

Small == {[before |-> b, middleware |-> m, onError |-> e, onTimeout |-> t,
           onAbort |-> a, after |-> f, onResponse |-> r,
           timed |-> timed, watched |-> a > 0] :
            b, m, e, t, a, f, r \in {0, 1}, timed \in BOOLEAN}

Deep == [before |-> 2, middleware |-> 2, onError |-> 2, onTimeout |-> 2,
         onAbort |-> 2, after |-> 2, onResponse |-> 2,
         timed |-> TRUE, watched |-> TRUE]

MCChains == {ch \in Small : ch.onTimeout > 0 => ch.timed} \union {Deep}

-----------------------------------------------------------------------------
(* Applications.                                                           *)

App(base, uses, hooks, routes, mounts, notFound) ==
  [base |-> base, uses |-> uses, hooks |-> hooks, routes |-> routes, mounts |-> mounts,
   notFound |-> notFound]
At(place) == [place |-> place, tail |-> <<>>]
Slash(place) == [place |-> place, tail |-> <<"">>]
Star(place) == [place |-> place, tail |-> <<"*">>]
Use(at_, id) == [at |-> at_, scoped |-> TRUE, id |-> id]
UseAll(id) == [at |-> At(<<>>), scoped |-> FALSE, id |-> id]
Hook(stage, id) == [stage |-> stage, id |-> id]
On(method, path, id) == [method |-> method, path |-> path, own |-> 0, id |-> id]
Mount(at_, sub) == [at |-> at_, sub |-> sub]

\* Global and scoped middleware without a base.
Flat == <<App(At(<<>>), <<UseAll("g1"), Use(Star(<<"a">>), "g2")>>, <<Hook("before", "h1")>>,
              <<On("GET", <<"">>, "r1"), [On("GET", <<"a">>, "r2") EXCEPT !.own = 1],
                On("POST", <<"a", "x">>, "r3"), On("GET", <<"ax">>, "r4")>>, <<>>, FALSE)>>

\* A base, a parameter, a catch-all for ALL, notFound.
Based == <<App(Slash(<<"b">>), <<Use(Slash(<<>>), "g1"), Use(At(<<"v">>), "g2")>>, <<>>,
               <<On("GET", <<"">>, "r1"), On("GET", <<"v", ":p">>, "r2"),
                 On("DELETE", <<"v", "x">>, "r3"), On("ALL", <<"v", "*w">>, "r4")>>, <<>>, TRUE)>>

\* A sub-app with middleware of every scope, below a parent with its own.
Inner == App(At(<<>>), <<UseAll("g1"), Use(At(<<"x">>), "g2"), Use(Slash(<<>>), "g3")>>,
             <<Hook("after", "h1")>>,
             <<On("GET", <<"">>, "r1"), On("POST", <<"x">>, "r2")>>, <<>>, FALSE)
Mounted == <<App(At(<<>>), <<Use(At(<<"a", "x">>), "g4")>>, <<Hook("before", "h2")>>,
                 <<On("GET", <<"ax">>, "r3"), On("HEAD", <<"a", "x">>, "r4")>>,
                 <<Mount(At(<<"a">>), 2)>>, TRUE),
             Inner>>

\* Sub-apps in sub-apps, with bases, and one beside the other.
Nested == <<App(At(<<"b">>), <<>>, <<>>, <<On("GET", <<"a">>, "r1")>>,
                <<Mount(Star(<<"v">>), 2), Mount(At(<<>>), 4)>>, FALSE),
            App(At(<<"a">>), <<Use(At(<<"c">>), "g1")>>, <<Hook("before", "h1")>>, <<>>,
                <<Mount(At(<<"c">>), 3)>>, FALSE),
            App(At(<<>>), <<UseAll("g2"), Use(At(<<"x">>), "g3")>>, <<>>,
                <<On("GET", <<"x">>, "r2"), On("OPTIONS", <<"x">>, "r3")>>, <<>>, FALSE),
            App(At(<<"v">>), <<UseAll("g4")>>, <<>>, <<On("POST", <<"x">>, "r4")>>, <<>>, FALSE)>>

\* The sub-app declares a route the parent has.
Clash == <<App(At(<<>>), <<>>, <<>>, <<On("POST", <<"a", "x">>, "r3")>>, <<Mount(At(<<"a">>), 2)>>,
               FALSE),
           Inner>>

Paths == {<<"">>, <<"a">>, <<"a", "x">>, <<"a", "">>, <<"ax">>, <<"b">>, <<"b", "v", "x">>,
          <<"b", "v", "y">>, <<"b", "v", "x", "x">>, <<"b", "a">>, <<"b", "v", "a", "c", "x">>}

Request(method, path) ==
  [method |-> method, path |-> path, origin |-> "o1", preflight |-> FALSE, oversize |-> FALSE,
   ips |-> << >>]
Options == [proxy |-> FALSE, timed |-> FALSE, cors |-> None, ipHeaders |-> <<>>]
Bare == [sig |-> "other", crlf |-> 1, word |-> "other", addr |-> "absent", version |-> 0,
         proxy |-> FALSE, family |-> 0, len |-> 0, total |-> 1]

RoutingScenarios ==
  {[app |-> a, options |-> Options, request |-> Request(m, p), wire |-> Bare] :
     a \in {Flat, Based, Mounted, Nested, Clash}, m \in Methods, p \in Paths}

-----------------------------------------------------------------------------
(* CORS.                                                                   *)

Policies == {[origins |-> os, credentials |-> c] :
               os \in {{"*"}, {"o1"}, {"o1", "*"}}, c \in BOOLEAN}

One == <<App(At(<<>>), <<>>, <<>>, <<On("GET", <<"a">>, "r1")>>, <<>>, FALSE)>>

CorsScenarios ==
  {[app |-> One, options |-> [Options EXCEPT !.cors = c, !.timed = TRUE],
    request |-> [Request(m, p) EXCEPT !.origin = o, !.preflight = f, !.oversize = b],
    wire |-> Bare] :
      c \in Policies, m \in {"GET", "POST", "OPTIONS"}, p \in {<<"a">>, <<"b">>},
      o \in {None, "o1", "o2"}, f \in BOOLEAN, b \in BOOLEAN}

-----------------------------------------------------------------------------
(* PROXY protocol.                                                         *)

V1(crlf, word, addr, total) ==
  [Bare EXCEPT !.sig = "v1", !.crlf = crlf, !.word = word, !.addr = addr, !.total = total]
V2(version, proxy, family, len, total) ==
  [Bare EXCEPT !.sig = "v2", !.version = version, !.proxy = proxy, !.family = family,
               !.len = len, !.addr = "client", !.crlf = 0, !.total = total]

MCWires ==
  {Bare, [Bare EXCEPT !.total = 300],
   V1(7, "other", "absent", 30), V1(13, "UNKNOWN", "absent", 40), V1(40, "TCP", "client", 40),
   V1(40, "TCP", "client", 42), V1(40, "TCP", "client", 300), V1(40, "TCP", "absent", 60),
   V1(105, "TCP", "client", 120), V1(106, "TCP", "client", 120),
   V1(107, "TCP", "client", 120), V1(200, "TCP", "client", 300), V1(300, "TCP", "client", 300),
   V2(1, TRUE, 1, 12, 40), V2(2, TRUE, 1, 12, 29), V2(2, TRUE, 1, 12, 20),
   V2(2, TRUE, 1, 11, 40), V2(2, TRUE, 2, 36, 60), V2(2, TRUE, 2, 12, 40),
   V2(2, TRUE, 3, 20, 40), V2(2, FALSE, 0, 0, 20), V2(2, FALSE, 1, 12, 40),
   V2(2, TRUE, 1, 300, 330)}

MCCuts == {1, 11, 12, 13, 15, 16, 17, 27, 28, 29, 41, 42, 43, 106, 107, 108, 109, 255, 257}

PrefixScenarios ==
  {[app |-> One, options |-> [Options EXCEPT !.proxy = TRUE, !.ipHeaders = <<"h1", "h2">>],
    request |-> [Request("GET", <<"a">>) EXCEPT !.ips = ips], wire |-> w] :
      w \in MCWires,
      ips \in {<< >>, [h \in {"h1", "h2"} |-> IF h = "h1" THEN <<"">> ELSE <<"", "a1">>],
               [h \in {"h1"} |-> <<"", "">>]}}

MCScenarios == RoutingScenarios \union CorsScenarios \union PrefixScenarios

-----------------------------------------------------------------------------
\* A request whose chain is taken as it is.
PipelineInit ==
  /\ Init
  /\ app = One /\ server = NewServers(One)
  /\ options = Options /\ request = Request("GET", <<"a">>)
  /\ phase = "answered" /\ listens = 0
  /\ leaf = None /\ ip = None /\ answer = None
  /\ ConnInit(Bare, FALSE)

MCInit == PipelineInit \/ EdgeInit

MCSpec == MCInit /\ [][EdgeNext]_allVars /\ Fairness
=============================================================================
