-------------------------------- MODULE Edge --------------------------------
(***************************************************************************)
(* One request from the connection to its answer: listen() of              *)
(* src/js/index.ts, the PROXY prefix (ProxyProtocol), handle_inner,        *)
(* route_and_dispatch and apply_cors of src/src/server.rs with             *)
(* src/src/cors.rs and the route table (Routing), and the chain of the     *)
(* leaf in JS (Pipeline).                                                  *)
(*                                                                         *)
(* The bounds of the bridge, of the bodies and of the limiter are in other *)
(* modules; here a request that is dispatched reaches JS.                  *)
(***************************************************************************)
EXTENDS Pipeline, ProxyProtocol, Routing

CONSTANTS
  None,
  Scenarios,  \* the applications, their options and the requests they are sent
  MaxListens  \* bound on the calls of listen()

Methods == {"GET", "HEAD", "POST", "OPTIONS", "DELETE"}

\* options: proxy and timed are booleans; cors is None or origins, credentials;
\* ipHeaders is customIpHeaders.  request: preflight says whether it carries
\* access-control-request-method, oversize whether its Content-Length is over
\* bodyLimit; ips gives the addresses in the custom headers that are present.
ASSUME ScenariosAssumption ==
  \A s \in Scenarios :
    /\ WellFormed(s.app)
    /\ \A r \in Places(s.app) : r.method \in Methods \union {"ALL"}
    /\ s.wire \in Wires
    /\ s.options.proxy \in BOOLEAN /\ s.options.timed \in BOOLEAN
    /\ s.options.ipHeaders \in Seq(STRING)
    /\ s.options.cors # None => /\ s.options.cors.origins # {}
                               /\ None \notin s.options.cors.origins
                               /\ s.options.cors.credentials \in BOOLEAN
    /\ s.request.method \in Methods /\ s.request.path \in Seq(STRING) \ {<<>>}
ASSUME NoneAssumption == None # "*"
ASSUME ListensAssumption == MaxListens \in Nat \ {0}

VARIABLES
  app,      \* the declaration
  server,   \* the Server objects; the first one listens
  options, request,
  phase,    \* "config", "serving", "js" or "answered"
  listens,  \* calls of listen() so far
  leaf,     \* the dispatched leaf with its middleware and hooks, or None
  ip,       \* c.req.ip, None before the dispatch
  answer    \* the response, or None: status, allow, and the CORS headers

Root == server[1]

edgeVars == <<app, server, options, request, phase, listens, leaf, ip, answer>>
allVars == <<vars, connVars, edgeVars>>

NoChain == [before |-> 0, middleware |-> 0, onError |-> 0, onTimeout |-> 0, onAbort |-> 0,
            after |-> 0, onResponse |-> 0, timed |-> FALSE, watched |-> FALSE]

\* normalizeCors: the combination is refused before there is a server.
normalizeCors(cors) == cors = None \/ ~(cors.credentials /\ "*" \in cors.origins)

EdgeInit ==
  \E s \in {t \in Scenarios : normalizeCors(t.options.cors)} :
    /\ app = s.app /\ server = NewServers(s.app)
    /\ options = s.options /\ request = s.request
    /\ phase = "config" /\ listens = 0
    /\ leaf = None /\ ip = None /\ answer = None
    /\ ConnInit(s.wire, s.options.proxy)
    /\ InitWith(NoChain, "none")

-----------------------------------------------------------------------------
(* listen().                                                               *)

\* listen() fails, on a conflict in the route table or at bind; the mounts have been
\* folded in by then.
ListenFails ==
  /\ phase = "config" /\ listens < MaxListens
  /\ listens' = listens + 1
  /\ server' = applyMounts(server)
  /\ UNCHANGED <<vars, connVars, app, options, request, phase, leaf, ip, answer>>

Listen ==
  /\ phase = "config" /\ listens < MaxListens
  /\ listens' = listens + 1
  /\ server' = applyMounts(server)
  /\ ~Conflict(server'[1].routes)
  /\ phase' = "serving"
  /\ UNCHANGED <<vars, connVars, app, options, request, leaf, ip, answer>>

\* The prefix, and the bytes of the request.
Receive ==
  /\ phase = "serving"
  /\ ConnStep
  /\ UNCHANGED <<vars, edgeVars>>

-----------------------------------------------------------------------------
(* cors.rs.                                                                *)

resolve_origin(cors, origin) ==
  CASE "*" \in cors.origins /\ cors.credentials -> None
    [] "*" \in cors.origins /\ ~cors.credentials -> "*"
    [] "*" \notin cors.origins /\ origin \in cors.origins -> origin
    [] OTHER -> None

\* The headers for an origin: access-control-allow-origin and whether there are
\* Allow-Credentials and Vary.  preflight() and actual() agree on them.
CorsHeaders(cors, origin) ==
  IF cors = None \/ resolve_origin(cors, origin) = None
  THEN [acao |-> None, credentials |-> FALSE, vary |-> FALSE]
  ELSE [acao |-> resolve_origin(cors, origin), credentials |-> cors.credentials,
        vary |-> "*" \notin cors.origins]

Plain(status, allow) ==
  [status |-> status, allow |-> allow, acao |-> None, credentials |-> FALSE, vary |-> FALSE]

apply_cors(status, allow) ==
  LET h == CorsHeaders(options.cors, request.origin)
  IN  [status |-> status, allow |-> allow, acao |-> h.acao, credentials |-> h.credentials,
       vary |-> h.vary]

-----------------------------------------------------------------------------
(* handle_inner, once the head of the request is there.                    *)

Arrived ==
  /\ phase = "serving"
  /\ conn \in {"open", "direct"}
  /\ Cursor = wire.total

Answer(a) ==
  /\ answer' = a
  /\ phase' = "answered"
  /\ UNCHANGED <<vars, connVars, app, server, options, request, listens, leaf, ip>>

IsPreflight == options.cors # None /\ request.method = "OPTIONS" /\ request.preflight

Preflight ==
  /\ Arrived /\ IsPreflight
  /\ IF resolve_origin(options.cors, request.origin) # None
     THEN Answer(apply_cors("204", {}))
     ELSE Answer(Plain("403", {}))

\* Mutant of TooLarge: the refusal goes out as it is.
TooLargeBare ==
  /\ Arrived /\ ~IsPreflight /\ request.oversize
  /\ Answer(Plain("413", {}))

\* The declared length is over the limit.
TooLarge ==
  /\ Arrived /\ ~IsPreflight /\ request.oversize
  /\ Answer(apply_cors("413", {}))

\* client_ip_country: the first address of the first custom header with a value; a
\* header of commas only has a value and no address.
client_ip ==
  LET present(h) == h \in DOMAIN request.ips /\ request.ips[h] # <<"">>
      named == SelectInSeq(options.ipHeaders, present)
      parts == request.ips[options.ipHeaders[named]]
      first == SelectInSeq(parts, LAMBDA a : a # "")
  IN  IF named = 0 \/ first = 0 THEN peer ELSE parts[first]

\* dispatch: the request goes to JS with its leaf, and #handleRequest finds the
\* chain that buildChain made of it.
DispatchLeaf(r) ==
  LET ch == ChainOf(Root, r)
      n(stage) == Cardinality({k \in ch.hooks : Root.hooks[k].stage = stage})
  IN  /\ leaf' = [id |-> r.id,
                  middleware |-> [k \in ch.middleware |-> Root.middleware[k].id],
                  hooks |-> [k \in ch.hooks |-> Root.hooks[k].id]]
      /\ ip' = client_ip
      /\ chain' = [before |-> n("before"), onError |-> n("onError"),
                   onTimeout |-> n("onTimeout"), onAbort |-> n("onAbort"),
                   after |-> n("after"), onResponse |-> n("onResponse"),
                   middleware |-> Cardinality(ch.middleware) + ch.own,
                   timed |-> options.timed, watched |-> n("onAbort") > 0]
      /\ core' = "new"
      /\ phase' = "js"
      /\ UNCHANGED <<coreAt, onionVars, timerVars, watchVars, tailVars, res, settled, threw,
                     connVars, app, server, options, request, listens, answer>>

\* The leaf of the request: its own, or for HEAD the one of GET; 0 if there is none.
Route ==
  LET direct == match_route(Root.routes, request.method, request.path)
  IN  IF direct = 0 /\ request.method = "HEAD"
      THEN match_route(Root.routes, "GET", request.path) ELSE direct

Routed == Arrived /\ ~IsPreflight /\ ~request.oversize

Matched ==
  /\ Routed /\ Route # 0
  /\ DispatchLeaf(Root.routes[Route])

\* 404, by the application or without waking it.
NotFound ==
  /\ Routed /\ Route = 0
  /\ allowed_methods(Root.routes, request.path) = {}
  /\ IF Root.notFound THEN DispatchLeaf(NotFoundRoute)
                        ELSE Answer(apply_cors("404", {}))

\* The path exists under other methods: the automatic OPTIONS, or 405.
WrongMethod ==
  LET allow == allowed_methods(Root.routes, request.path) IN
  /\ Routed /\ Route = 0 /\ allow # {}
  /\ Answer(apply_cors(IF request.method = "OPTIONS" THEN "204" ELSE "405", allow))

\* The request in JS.
InJs ==
  /\ Step
  /\ UNCHANGED <<connVars, edgeVars>>

\* respond() reached Rust: the answer leaves, JS may go on.
JsAnswers ==
  /\ phase = "js" /\ sent # "unsent"
  /\ answer' = apply_cors("js", {})
  /\ phase' = "answered"
  /\ UNCHANGED <<vars, connVars, app, server, options, request, listens, leaf, ip>>

\* Nothing is left to do: nobody listens, the client is refused, or all is over.
AtRest ==
  /\ \/ phase = "config" /\ listens = MaxListens
     \/ phase = "serving" /\ conn \in {"refused", "cut"}
     \/ phase = "answered" /\ (core = "none" \/ Over)
  /\ UNCHANGED allVars

EdgeNext ==
  \/ ListenFails \/ Listen \/ Receive
  \/ Preflight \/ TooLarge \/ Matched \/ NotFound \/ WrongMethod
  \/ InJs \/ JsAnswers
  \/ AtRest

EdgeSpec == EdgeInit /\ [][EdgeNext]_allVars

-----------------------------------------------------------------------------
(* Properties.                                                             *)

\* The connection is let in as its prefix says (see ProxyProtocol), and the address
\* the application is shown is that one, unless it named headers to believe and
\* the request has one (server.rs 355-373, 1337-1380).
PrefixIsExact ==
  /\ PrefixIsParsed
  /\ ip # None /\ (\A h \in ToSet(options.ipHeaders) : h \notin DOMAIN request.ips) =>
       ip = IF options.proxy /\ Vouched(wire) THEN "client" ELSE "socket"

\* Encapsulation is by place (index.ts 564-658, pipeline.ts 61-91): when a handler
\* is called, its request has been through every middleware and "before" hook that
\* the application declared for a place at or above the route's, each once, and
\* none of another place, whatever bases, prefixes and mounted sub-apps they
\* were declared with and however often listen() was tried; around notFound run
\* those that cover everything.
GuardsRun ==
  leaf # None /\ calls > 0 =>
    LET places == {p.at : p \in {q \in Places(app) : q.id = leaf.id}}
        covers(g) == IF leaf.id = "notFound" THEN g.at = <<>>
                     ELSE \E p \in places : IsPrefix(g.at, p)
    IN  /\ Range(leaf.middleware) \union Range(leaf.hooks)
             = Ids({g \in Scopes(app) : covers(g)})
        /\ IsInjective(leaf.middleware) /\ IsInjective(leaf.hooks)
        /\ Range(leaf.middleware) \intersect Range(leaf.hooks) = {}
        /\ index > Cardinality(DOMAIN leaf.middleware)

\* "404 vs 405 vs auto-OPTIONS" (server.rs 823-876, router.rs 71-105): a request is
\* answered by a route that was declared for its path and method; 404 means that
\* no method is served there, 405 that this one is not, and Allow names exactly
\* the methods that are.
AllowIsHonest ==
  LET served == {m \in Methods : Serves(app, m, request.path)} IN
  /\ leaf # None =>
       IF leaf.id = "notFound" THEN served = {}
       ELSE \E p \in Places(app) :
              /\ p.id = leaf.id /\ Asked(p, request.path)
              /\ p.method \in {request.method, "ALL"} \/ (request.method = "HEAD" /\ p.method = "GET")
  /\ answer # None =>
       /\ answer.status = "404" => served = {}
       /\ answer.status = "405" => request.method \notin served
       /\ answer.allow # {} => answer.allow \intersect Methods = served

\* A browser that was granted a preflight can read whatever handle_inner answers, its
\* refusals included (cors.rs 48-107, server.rs 777-815); no other origin is let in,
\* and an answer that depends on the origin says so to caches.  The 503 of the
\* limiter, which is sent before handle_inner and has no headers, is not here.
GrantedIsReadable ==
  answer # None /\ options.cors # None =>
    LET any == "*" \in options.cors.origins
        granted == any \/ request.origin \in options.cors.origins
    IN  /\ answer.acao # None <=> granted
        /\ granted => answer.acao = (IF any THEN "*" ELSE request.origin)
        /\ granted /\ ~any => answer.vary
        /\ answer.credentials => answer.acao # "*"
=============================================================================
