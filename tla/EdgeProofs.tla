----------------------------- MODULE EdgeProofs -----------------------------
(***************************************************************************)
(* Proofs about Edge and its parts, ProxyProtocol, Pipeline and Routing:   *)
(* for every prefix, chain of hooks and application.                       *)
(***************************************************************************)
EXTENDS Edge, RoutingProofs, FiniteSetTheorems

-----------------------------------------------------------------------------
(* ProxyProtocol: however TCP cuts the bytes, what is behind the prefix is *)
(* handed on exactly once.                                                 *)

ConnTypes ==
  /\ wire \in Wires
  /\ got \in Nat /\ got <= wire.total
  /\ conn \in {"reading", "open", "refused", "cut", "direct"}
  /\ rest.from \in Nat /\ rest.to \in Nat
  /\ pos \in Nat /\ handed \in Nat

\* Until the prefix is whole nothing has been handed on.
ReadingInv == conn = "reading" => /\ pos = 0 /\ handed = 0 /\ peer = "socket"
                                  /\ rest.from = 0 /\ rest.to = 0

\* PrefixedIo drains the leftover before it turns to the socket.
DrainInv ==
  conn \in {"open", "direct"} =>
    /\ rest.from + pos <= rest.to /\ rest.to <= got
    /\ rest.from + pos < rest.to => got = rest.to
    /\ handed = pos + (got - rest.to)

\* What read_header decided about the prefix.
VerdictInv ==
  /\ conn = "open" =>
       /\ Genuine(wire) /\ rest.from = DataAt(wire)
       /\ peer = IF Vouched(wire) THEN "client" ELSE "socket"
  /\ conn = "refused" => ~Genuine(wire) \/ (wire.sig = "v1" /\ DataAt(wire) > MAX_V1)

ConnInv == ConnTypes /\ ReadingInv /\ DrainInv /\ VerdictInv

-----------------------------------------------------------------------------

LEMMA WireTypes ==
  ASSUME NEW w \in Wires
  PROVE  /\ w.crlf \in Nat /\ w.len \in Nat /\ w.total \in Nat
         /\ w.version \in Nat /\ w.family \in Nat
         /\ w.sig \in {"v1", "v2", "other"} /\ w.word \in {"TCP", "UNKNOWN", "other"}
         /\ w.addr \in {"client", "absent"} /\ (w.sig = "v2" => w.addr = "client")
<1>1. w \in WireFields /\ (w.sig = "v2" => w.addr = "client")
  BY DEF Wires
<1>2. /\ w.sig \in Signatures /\ w.crlf \in Nat /\ w.word \in V1Words /\ w.addr \in Addresses
      /\ w.version \in Nibble /\ w.family \in Nibble /\ w.len \in U16 /\ w.total \in Nat
  BY <1>1 DEF WireFields
<1>3. w.len \in Nat
  BY <1>2 DEF U16
<1>4. w.version \in Nat /\ w.family \in Nat
  BY <1>2 DEF Nibble
<1> QED BY <1>1, <1>2, <1>3, <1>4, Zenon DEF Signatures, V1Words, Addresses

\* The address that an accepted prefix leaves as the peer's.
Peer(h) == IF h.addr = "absent" THEN "socket" ELSE h.addr

\* What parse_v1 says of the bytes read so far is right for all the bytes.
LEMMA V1Verdict ==
  ASSUME NEW w \in Wires, NEW g \in Nat, g <= w.total, w.sig = "v1",
         NEW h, h = parse_v1(w, g)
  PROVE  /\ h.verdict \in {"more", "refused", "open"}
         /\ h.verdict = "open" =>
              /\ Genuine(w) /\ h.end = DataAt(w) /\ h.end <= g
              /\ Peer(h) = IF Vouched(w) THEN "client" ELSE "socket"
         /\ h.verdict = "refused" => ~Genuine(w) \/ DataAt(w) > MAX_V1
<1> USE WireTypes
<1>1. CASE w.crlf + 2 <= g /\ w.word = "TCP"
  <2>1. h = Accepted(w.crlf + 2, w.addr)
    BY <1>1 DEF parse_v1
  <2> QED BY <1>1, <2>1 DEF Accepted, Genuine, DataAt, Peer, Vouched
<1>2. CASE w.crlf + 2 <= g /\ w.word = "UNKNOWN"
  <2>1. h = Accepted(w.crlf + 2, "absent")
    BY <1>2 DEF parse_v1
  <2> QED BY <1>2, <2>1 DEF Accepted, Genuine, DataAt, Peer, Vouched
<1>3. CASE w.crlf + 2 <= g /\ w.word = "other"
  <2>1. h = Refused
    BY <1>3 DEF parse_v1
  <2> QED BY <1>3, <2>1 DEF Refused, Genuine
<1>4. CASE ~(w.crlf + 2 <= g) /\ g > MAX_V1
  <2>1. h = Refused
    BY <1>4 DEF parse_v1
  <2> QED BY <1>4, <2>1 DEF Refused, DataAt, MAX_V1
<1>5. CASE ~(w.crlf + 2 <= g) /\ ~(g > MAX_V1)
  BY <1>5 DEF parse_v1, More
<1> QED BY <1>1, <1>2, <1>3, <1>4, <1>5

LEMMA V2Verdict ==
  ASSUME NEW w \in Wires, NEW g \in Nat, g <= w.total, w.sig = "v2",
         NEW h, h = parse_v2(w, g)
  PROVE  /\ h.verdict \in {"more", "refused", "open"}
         /\ h.verdict = "open" =>
              /\ Genuine(w) /\ h.end = DataAt(w) /\ h.end <= g
              /\ Peer(h) = IF Vouched(w) THEN "client" ELSE "socket"
         /\ h.verdict = "refused" => ~Genuine(w)
<1> USE WireTypes
<1>1. CASE g < HEAD_V2 \/ (w.version = 2 /\ g < HEAD_V2 + w.len)
  BY <1>1 DEF parse_v2, More
<1>2. CASE ~(g < HEAD_V2) /\ w.version # 2
  BY <1>2 DEF parse_v2, Refused, Genuine
<1>3. CASE ~(g < HEAD_V2) /\ w.version = 2 /\ ~(g < HEAD_V2 + w.len)
  <2>1. h = Accepted(HEAD_V2 + w.len, IF w.proxy /\ has_address(w) THEN w.addr ELSE "absent")
    BY <1>3 DEF parse_v2
  <2>2. Vouched(w) <=> w.proxy /\ has_address(w)
    <3>1. CASE w.family = 1
      BY <3>1 DEF Vouched, has_address
    <3>2. CASE w.family = 2
      BY <3>2 DEF Vouched, has_address
    <3>3. CASE w.family # 1 /\ w.family # 2
      BY <3>3 DEF Vouched, has_address
    <3> QED BY <3>1, <3>2, <3>3
  <2> HIDE DEF Vouched, has_address
  <2>3. h.verdict = "open" /\ h.end = HEAD_V2 + w.len
        /\ h.addr = IF Vouched(w) THEN "client" ELSE "absent"
    BY <2>1, <2>2 DEF Accepted
  <2> QED BY <1>3, <2>3 DEF Genuine, DataAt, Peer, HEAD_V2
<1> QED BY <1>1, <1>2, <1>3

LEMMA HeaderVerdict ==
  ASSUME NEW w \in Wires, NEW g \in Nat, g <= w.total, NEW h, h = read_header(w, g)
  PROVE  /\ h.verdict \in {"more", "refused", "open"}
         /\ h.verdict = "open" =>
              /\ Genuine(w) /\ h.end = DataAt(w) /\ h.end <= g
              /\ Peer(h) = IF Vouched(w) THEN "client" ELSE "socket"
         /\ h.verdict = "refused" => ~Genuine(w) \/ (w.sig = "v1" /\ DataAt(w) > MAX_V1)
<1>1. CASE g < SIG
  BY <1>1 DEF read_header, More, SIG
<1>2. CASE g >= SIG /\ w.sig = "v1"
  <2>1. h = parse_v1(w, g)
    BY <1>2 DEF read_header, SIG
  <2> QED BY <1>2, <2>1, V1Verdict
<1>3. CASE g >= SIG /\ w.sig = "v2"
  <2>1. h = parse_v2(w, g)
    BY <1>3 DEF read_header, SIG
  <2> QED BY <1>3, <2>1, V2Verdict
<1>4. CASE g >= SIG /\ w.sig = "other"
  BY <1>4 DEF read_header, SIG, Refused, Genuine
<1>5. g < SIG \/ g >= SIG
  BY DEF SIG
<1> QED BY <1>1, <1>2, <1>3, <1>4, <1>5, WireTypes

LEMMA TakesBound ==
  ASSUME NEW from \in Nat, NEW to \in Nat, from <= to, NEW n \in Takes(from, CHUNK, to)
  PROVE  n \in Nat /\ n >= 1 /\ from + n <= to
BY DEF Takes, Min2, CHUNK

LEMMA ConnInitHolds ==
  ASSUME NEW w \in Wires, NEW proxied \in BOOLEAN, ConnInit(w, proxied)
  PROVE  ConnInv
BY WireTypes DEF ConnInit, ConnInv, ConnTypes, ReadingInv, DrainInv, VerdictInv

LEMMA ConnStepHolds == ConnInv /\ [ConnStep]_connVars => ConnInv'
<1> SUFFICES ASSUME ConnInv, [ConnStep]_connVars PROVE ConnInv'
  OBVIOUS
<1>0. wire.total \in Nat /\ wire \in Wires /\ got \in Nat /\ got <= wire.total
  BY WireTypes DEF ConnInv, ConnTypes
<1>1. ASSUME NEW n \in Takes(got, CHUNK, wire.total), ReadPrefix(n) PROVE ConnInv'
  <2> DEFINE h == read_header(wire, got + n)
  <2>1. n \in Nat /\ got + n <= wire.total /\ got + n \in Nat
    BY <1>0, TakesBound
  <2>2. /\ h.verdict \in {"more", "refused", "open"}
        /\ h.verdict = "open" =>
             /\ Genuine(wire) /\ h.end = DataAt(wire) /\ h.end <= got + n
             /\ Peer(h) = IF Vouched(wire) THEN "client" ELSE "socket"
        /\ h.verdict = "refused" => ~Genuine(wire) \/ (wire.sig = "v1" /\ DataAt(wire) > MAX_V1)
    BY <1>0, <2>1, HeaderVerdict
  <2>3. /\ conn = "reading" /\ got' = got + n
        /\ conn' = IF h.verdict = "more" THEN conn ELSE h.verdict
        /\ h.verdict = "open" => /\ rest' = [from |-> h.end, to |-> got + n]
                                 /\ peer' = IF h.addr = "absent" THEN peer ELSE h.addr
        /\ h.verdict # "open" => UNCHANGED <<rest, peer>>
        /\ UNCHANGED <<wire, pos, handed>>
    BY <1>1 DEF ReadPrefix
  <2>4. DataAt(wire) \in Nat
    BY <1>0, WireTypes DEF DataAt, HEAD_V2
  <2> HIDE DEF h
  <2>5. pos = 0 /\ handed = 0 /\ peer = "socket"
    BY <2>3 DEF ConnInv, ReadingInv
  <2>6. CASE h.verdict = "open"
    <3>1. peer' = IF Vouched(wire) THEN "client" ELSE "socket"
      BY <2>2, <2>3, <2>5, <2>6 DEF Peer
    <3>2. ConnTypes' /\ DrainInv'
      BY <1>0, <2>1, <2>2, <2>3, <2>4, <2>5, <2>6 DEF ConnInv, ConnTypes, DrainInv
    <3> QED BY <2>2, <2>3, <2>6, <3>1, <3>2 DEF ConnInv, ReadingInv, VerdictInv
  <2>7. CASE h.verdict # "open"
    BY <1>0, <2>1, <2>2, <2>3, <2>7 DEF ConnInv, ConnTypes, ReadingInv, DrainInv, VerdictInv
  <2> QED BY <2>6, <2>7
<1>2. CASE PrefixCut
  BY <1>2 DEF PrefixCut, ConnInv, ConnTypes, ReadingInv, DrainInv, VerdictInv
<1>3. ASSUME NEW n \in Takes(Cursor, CHUNK, IF Cursor < got THEN rest.to ELSE wire.total),
             poll_read(n)
      PROVE  ConnInv'
  <2>0. /\ rest.from \in Nat /\ rest.to \in Nat /\ pos \in Nat /\ handed \in Nat
        /\ conn \in {"open", "direct"} /\ rest.from + pos <= rest.to /\ rest.to <= got
        /\ (rest.from + pos < rest.to => got = rest.to) /\ handed = pos + (got - rest.to)
    BY <1>3 DEF poll_read, ConnInv, ConnTypes, DrainInv
  <2>1. CASE rest.from + pos < rest.to
    <3>1. Cursor = rest.from + pos /\ Cursor < got
      BY <2>0, <2>1 DEF Cursor
    <3>2. n \in Nat /\ rest.from + pos + n <= rest.to
      BY <2>0, <2>1, <3>1, TakesBound
    <3>3. pos' = pos + n /\ handed' = handed + n /\ UNCHANGED <<wire, conn, peer, rest, got>>
      BY <1>3, <2>1 DEF poll_read
    <3> QED BY <1>0, <2>0, <2>1, <3>2, <3>3 DEF ConnInv, ConnTypes, ReadingInv, DrainInv, VerdictInv
  <2>2. CASE ~(rest.from + pos < rest.to)
    <3>1. Cursor = got
      BY <2>2 DEF Cursor
    <3>2. n \in Nat /\ got + n <= wire.total
      BY <1>0, <3>1, TakesBound
    <3>3. got' = got + n /\ handed' = handed + n /\ UNCHANGED <<wire, conn, peer, rest, pos>>
      BY <1>3, <2>2 DEF poll_read
    <3> QED BY <1>0, <2>0, <2>2, <3>2, <3>3 DEF ConnInv, ConnTypes, ReadingInv, DrainInv, VerdictInv
  <2> QED BY <2>1, <2>2
<1>4. CASE UNCHANGED connVars
  BY <1>4 DEF connVars, ConnInv, ConnTypes, ReadingInv, DrainInv, VerdictInv
<1> QED BY <1>1, <1>2, <1>3, <1>4 DEF ConnStep

-----------------------------------------------------------------------------

\* The cursor of PrefixedIo is behind the prefix by what was handed on.
LEMMA ParsedAtLast == ConnInv => PrefixIsParsed
<1> SUFFICES ASSUME ConnInv PROVE PrefixIsParsed
  OBVIOUS
<1>1. ASSUME conn = "open" PROVE Cursor = DataAt(wire) + handed
  <2>1. rest.from = DataAt(wire) /\ rest.from \in Nat /\ rest.to \in Nat /\ pos \in Nat
        /\ got \in Nat /\ rest.from + pos <= rest.to
        /\ (rest.from + pos < rest.to => got = rest.to) /\ handed = pos + (got - rest.to)
    BY <1>1 DEF ConnInv, ConnTypes, DrainInv, VerdictInv
  <2> QED BY <2>1 DEF Cursor
<1> QED BY <1>1 DEF ConnInv, VerdictInv, PrefixIsParsed

\* A connection is let in only with a complete prefix, and TLS or HTTP gets every
\* byte behind it, none twice and none of the prefix, for every prefix, every
\* number of bytes behind it and every way TCP cuts them; and no prefix within
\* the limits is refused (read_header and PrefixedIo in proxy_protocol.rs).
THEOREM PrefixParsed == ConnSpec => []PrefixIsParsed
<1>1. (\E w \in Wires, proxied \in BOOLEAN : ConnInit(w, proxied)) => ConnInv
  BY ConnInitHolds
<1> QED BY <1>1, ConnStepHolds, ParsedAtLast, PTL DEF ConnSpec

-----------------------------------------------------------------------------
(* Pipeline: the handler is called once, the response that was sent is the *)
(* one the context keeps, and no failure is sent as an empty success.      *)

\* The names under which the response is written.
Authors == {"before", "app", "onError", "onTimeout", "onAbort", "after", "onResponse",
            "default", "504"}

PipelineTypes ==
  /\ chain \in ChainTypes
  /\ core \in {"none", "new", "before", "onion", "error", "over"}
  /\ timer \in {"off", "armed", "hooks", "latch", "done"}
  /\ watcher \in {"off", "waiting", "hooks", "ran", "skipped"}
  /\ tail \in {"race", "after", "onResponse", "done"}
  /\ coreAt \in Nat /\ timerAt \in Nat /\ watchAt \in Nat /\ tailAt \in Nat
  /\ index \in Nat /\ calls \in Nat /\ running \subseteq Nat
  /\ res \in Authors \union {"none"}
  /\ sent \in Authors \union {"none", "unsent"}

\* runOnion's index is what makes the handler run once: a handler that was called
\* has been dispatched, and no level is dispatched below the index again.
OnionInv ==
  /\ index <= Handler /\ calls <= 1
  /\ index < Handler => calls = 0
  /\ \A i \in running : 1 <= i /\ i <= index
  /\ core \in {"none", "new", "before"} => index = 0
  /\ 1 \in running => core = "onion"

\* A core that failed is handling its error, or has come to a response.
ErrorInv ==
  /\ threw => core \in {"error", "over"}
  /\ threw /\ core = "over" => Finalized

\* The latch closes on a response, or on a core that ended well without one; the
\* timeout branch and the tail are where they are because of it.
LatchInv ==
  /\ settled => Finalized \/ (core = "over" /\ ~threw /\ ~failed)
  /\ timer = "done" => settled
  /\ tail = "after" => core = "over" \/ settled
  /\ tail \in {"race", "after"} => sent = "unsent" /\ ~failed /\ (settled => Finalized)
  /\ sent # "unsent" => settled /\ res = sent

\* Before #handleRequest nothing runs.
IdleInv == core = "none" => /\ running = {} /\ timer = "off" /\ watcher = "off"
                            /\ tail = "race" /\ sent = "unsent"

PipelineInv == PipelineTypes /\ OnionInv /\ ErrorInv /\ LatchInv /\ IdleInv

-----------------------------------------------------------------------------

LEMMA HandlerIsPositive == ASSUME PipelineTypes PROVE Handler \in Nat /\ Handler >= 1
BY DEF PipelineTypes, ChainTypes, Handler

LEMMA PipelineInit ==
  ASSUME NEW ch \in ChainTypes, NEW c \in {"none", "new"}, InitWith(ch, c)
  PROVE  PipelineInv
<1>1. PipelineTypes
  BY DEF InitWith, PipelineTypes
<1>2. OnionInv
  BY <1>1, HandlerIsPositive DEF InitWith, OnionInv
<1> QED BY <1>1, <1>2 DEF InitWith, PipelineInv, ErrorInv, LatchInv, IdleInv

\* A level below the deepest one dispatched is never started again.
LEMMA DispatchStep ==
  ASSUME PipelineTypes, OnionInv, NEW i \in Nat, 1 <= i, i <= Handler, Dispatch(i), UNCHANGED chain,
         i = 1 => core' = "onion", core' \notin {"none", "new", "before"},
         core' = core \/ index = 0
  PROVE  OnionInv' /\ index' \in Nat /\ calls' \in Nat /\ running' \subseteq Nat
<1>1. Handler' = Handler /\ Handler \in Nat /\ index' = i /\ running' = running \union {i} /\ index < i
  BY HandlerIsPositive DEF Handler, Dispatch, PipelineTypes
<1>2. calls' \in Nat /\ calls' <= 1 /\ (i < Handler => calls' = 0)
  BY <1>1 DEF PipelineTypes, OnionInv, Dispatch
<1>3. \A j \in running' : 1 <= j /\ j <= index'
  BY <1>1 DEF PipelineTypes, OnionInv
<1>4. 1 \in running' => core' = "onion"
  BY <1>1 DEF PipelineTypes, OnionInv
<1> QED BY <1>1, <1>2, <1>3, <1>4 DEF PipelineTypes, OnionInv

\* What the onion needs of a step that dispatches nothing.
LEMMA OnionKept ==
  ASSUME PipelineTypes, OnionInv, UNCHANGED <<chain, index, calls>>, running' \subseteq running,
         core' = core \/ (1 \notin running' /\ core' \notin {"none", "new", "before"})
  PROVE  OnionInv'
BY DEF PipelineTypes, OnionInv, Handler

LEMMA OnionStep == PipelineInv /\ [Next]_vars => OnionInv' /\ index' \in Nat /\ calls' \in Nat
                                          /\ running' \subseteq Nat /\ chain' = chain
<1> SUFFICES ASSUME PipelineInv, [Next]_vars
             PROVE  OnionInv' /\ index' \in Nat /\ calls' \in Nat /\ running' \subseteq Nat
                    /\ chain' = chain
  OBVIOUS
<1>0. PipelineTypes /\ OnionInv /\ Handler \in Nat /\ Handler >= 1
  BY HandlerIsPositive DEF PipelineInv
<1>t. index \in Nat /\ calls \in Nat /\ running \subseteq Nat
  BY <1>0 DEF PipelineTypes
<1>1. CASE Begin
  <2>1. CASE core' = "before" /\ UNCHANGED onionVars
    <3>1. OnionInv'
      BY <1>0, <1>1, <2>1 DEF Begin, onionVars, PipelineTypes, OnionInv, Handler
    <3> QED BY <1>t, <1>1, <2>1, <3>1 DEF Begin, onionVars
  <2>2. CASE core' = "onion" /\ Dispatch(1)
    <3>1. index = 0 /\ UNCHANGED chain
      BY <1>0, <1>1 DEF Begin, OnionInv
    <3> QED BY <1>0, <2>2, <3>1, DispatchStep
  <2> QED BY <1>1, <2>1, <2>2 DEF Begin
<1>2. CASE BeforeReturns
  <2>1. CASE core' = "onion" /\ Dispatch(1)
    <3>1. index = 0 /\ UNCHANGED chain
      BY <1>0, <1>2 DEF BeforeReturns, OnionInv
    <3> QED BY <1>0, <2>1, <3>1, DispatchStep
  <2>2. CASE UNCHANGED onionVars
    <3>1. 1 \notin running
      BY <1>0, <1>2 DEF BeforeReturns, OnionInv
    <3>2. core' = core \/ core' \in {"over", "onion"}
      BY <1>2 DEF BeforeReturns
    <3>3. OnionInv'
      BY <1>0, <1>2, <2>2, <3>1, <3>2, OnionKept DEF BeforeReturns, onionVars
    <3> QED BY <1>t, <1>2, <2>2, <3>3 DEF BeforeReturns, onionVars
  <2> QED BY <1>2, <2>1, <2>2 DEF BeforeReturns
<1>3. ASSUME NEW i \in running, NextCalled(i)
      PROVE OnionInv' /\ index' \in Nat /\ calls' \in Nat /\ running' \subseteq Nat /\ chain' = chain
  <2>1. /\ i \in Nat /\ 1 <= i /\ i + 1 <= Handler /\ Dispatch(i + 1) /\ UNCHANGED <<chain, core>>
        /\ i <= index
    BY <1>0, <1>3 DEF NextCalled, PipelineTypes, OnionInv
  <2>2. core \notin {"none", "new", "before"}
    BY <1>0, <2>1 DEF PipelineTypes, OnionInv
  <2>3. i + 1 \in Nat /\ 1 <= i + 1 /\ i + 1 # 1
    BY <2>1
  <2> QED BY <1>0, <2>1, <2>2, <2>3, DispatchStep
<1>4. ASSUME NEW i \in running, LevelReturns(i) \/ LevelThrows(i) PROVE OnionInv'
  <2>1. /\ UNCHANGED <<chain, index, calls>> /\ running' = running \ {i}
        /\ core' = core \/ (i = 1 /\ core' \in {"over", "error"})
    BY <1>4 DEF LevelReturns, LevelThrows, Fail
  <2> QED BY <1>0, <2>1, OnionKept
<1>5. CASE BeforeThrows \/ ErrorHookReturns \/ ErrorHookThrows
  <2>1. UNCHANGED <<chain, index, calls, running>> /\ 1 \notin running
    BY <1>0, <1>5 DEF BeforeThrows, ErrorHookReturns, ErrorHookThrows, onionVars, OnionInv
  <2>2. core' = core \/ core' \in {"over", "error"}
    BY <1>5 DEF BeforeThrows, ErrorHookReturns, ErrorHookThrows, Fail
  <2>3. OnionInv'
    BY <1>0, <2>1, <2>2, OnionKept
  <2> QED BY <1>t, <2>1, <2>3
<1>6. CASE UNCHANGED <<chain, core, index, calls, running>>
  <2>1. OnionInv'
    BY <1>0, <1>6, OnionKept
  <2> QED BY <1>t, <1>6, <2>1
<1>7. ASSUME NEW i \in running, LevelReturns(i) \/ LevelThrows(i)
      PROVE  UNCHANGED <<chain, index, calls>> /\ running' \subseteq running
  BY <1>7 DEF LevelReturns, LevelThrows
<1>8. \/ UNCHANGED <<chain, core, index, calls, running>>
      \/ Begin \/ BeforeReturns \/ BeforeThrows \/ ErrorHookReturns \/ ErrorHookThrows
      \/ \E i \in running : NextCalled(i) \/ LevelReturns(i) \/ LevelThrows(i)
  BY DEF Next, Step, Quiet, vars, CoreStep, TimeoutStep, TailStep, TimerFires, TimeoutHookReturns,
         TimeoutHookThrows, Latch, ClientLeaves, WatcherFires, AbortHookEnds, RaceEnds,
         AfterReturns, AfterThrows, ResponseHookEnds, Write, coreVars, onionVars
<1> QED BY <1>t, <1>1, <1>2, <1>3, <1>4, <1>5, <1>6, <1>7, <1>8

\* A running level other than the first moves the core nowhere, and the first
\* runs only in the onion.
LEMMA LatchStep == PipelineInv /\ [Next]_vars => ErrorInv' /\ LatchInv'
<1> SUFFICES ASSUME PipelineInv, [Next]_vars PROVE ErrorInv' /\ LatchInv'
  OBVIOUS
<1> USE DEF PipelineInv, PipelineTypes, ErrorInv, LatchInv, Finalized, Set, SetIfNone, onionVars, coreVars,
            timerVars, watchVars, tailVars, Authors
<1>1. CASE Begin
  BY <1>1 DEF Begin
<1>2. CASE BeforeReturns
  BY <1>2 DEF BeforeReturns
<1>3. CASE BeforeThrows
  BY <1>3 DEF BeforeThrows, Fail
<1>4. ASSUME NEW i \in running, NextCalled(i) PROVE ErrorInv' /\ LatchInv'
  BY <1>4 DEF NextCalled
<1>5. ASSUME NEW i \in running, LevelReturns(i) PROVE ErrorInv' /\ LatchInv'
  <2>1. i = 1 => core = "onion"
    BY DEF OnionInv
  <2> QED BY <1>5, <2>1 DEF LevelReturns
<1>6. ASSUME NEW i \in running, LevelThrows(i) PROVE ErrorInv' /\ LatchInv'
  <2>1. i = 1 => core = "onion"
    BY DEF OnionInv
  <2> QED BY <1>6, <2>1 DEF LevelThrows, Fail
<1>7. CASE ErrorHookReturns \/ ErrorHookThrows
  BY <1>7 DEF ErrorHookReturns, ErrorHookThrows
<1>8. CASE TimerFires \/ TimeoutHookReturns \/ TimeoutHookThrows
  BY <1>8 DEF TimerFires, TimeoutHookReturns, TimeoutHookThrows
<1>9. CASE Latch
  BY <1>9 DEF Latch
<1>10. CASE ClientLeaves \/ WatcherFires \/ \E ok \in BOOLEAN : AbortHookEnds(ok)
  BY <1>10 DEF ClientLeaves, WatcherFires, AbortHookEnds
<1>11. CASE RaceEnds
  BY <1>11 DEF RaceEnds, Respond
<1>12. CASE AfterReturns
  BY <1>12 DEF AfterReturns, Respond
<1>13. CASE AfterThrows
  BY <1>13 DEF AfterThrows, Respond
<1>14. ASSUME NEW ok \in BOOLEAN, ResponseHookEnds(ok) PROVE ErrorInv' /\ LatchInv'
  BY <1>14 DEF ResponseHookEnds
<1>15. ASSUME NEW who \in Writers, Write(who) PROVE ErrorInv' /\ LatchInv'
  <2>1. who # "none"
    BY DEF Writers
  <2> QED BY <1>15, <2>1 DEF Write
<1>16. CASE UNCHANGED vars
  BY <1>16 DEF vars
<1> QED BY <1>1, <1>2, <1>3, <1>4, <1>5, <1>6, <1>7, <1>8, <1>9, <1>10, <1>11, <1>12, <1>13,
           <1>14, <1>15, <1>16
        DEF Next, Step, Quiet, CoreStep, TimeoutStep, TailStep

LEMMA PipelineTypeStep == PipelineInv /\ [Next]_vars => PipelineTypes'
<1> SUFFICES ASSUME PipelineInv, [Next]_vars PROVE PipelineTypes'
  OBVIOUS
<1>0. chain' \in ChainTypes /\ index' \in Nat /\ calls' \in Nat /\ running' \subseteq Nat
  BY OnionStep DEF PipelineInv, PipelineTypes
<1> USE <1>0 DEF PipelineInv, PipelineTypes, Set, SetIfNone, onionVars, coreVars, timerVars, watchVars,
                 tailVars, Authors
<1>1. CASE Begin \/ BeforeReturns \/ BeforeThrows
  BY <1>1 DEF Begin, BeforeReturns, BeforeThrows, Fail
<1>2. ASSUME NEW i \in running, NextCalled(i) \/ LevelReturns(i) \/ LevelThrows(i) PROVE PipelineTypes'
  BY <1>2 DEF NextCalled, LevelReturns, LevelThrows, Fail
<1>3. CASE ErrorHookReturns \/ ErrorHookThrows
  BY <1>3 DEF ErrorHookReturns, ErrorHookThrows
<1>4. CASE TimerFires \/ TimeoutHookReturns \/ TimeoutHookThrows \/ Latch
  BY <1>4 DEF TimerFires, TimeoutHookReturns, TimeoutHookThrows, Latch
<1>5. CASE ClientLeaves \/ WatcherFires \/ \E ok \in BOOLEAN : AbortHookEnds(ok)
  BY <1>5 DEF ClientLeaves, WatcherFires, AbortHookEnds
<1>6. CASE RaceEnds \/ AfterReturns \/ AfterThrows
  BY <1>6 DEF RaceEnds, AfterReturns, AfterThrows, Respond
<1>7. ASSUME NEW ok \in BOOLEAN, ResponseHookEnds(ok) PROVE PipelineTypes'
  BY <1>7 DEF ResponseHookEnds
<1>8. ASSUME NEW who \in Writers, Write(who) PROVE PipelineTypes'
  <2>1. who \in Authors
    BY DEF Writers
  <2> QED BY <1>8, <2>1 DEF Write
<1>9. CASE UNCHANGED vars
  BY <1>9 DEF vars
<1> QED BY <1>1, <1>2, <1>3, <1>4, <1>5, <1>6, <1>7, <1>8, <1>9
        DEF Next, Step, Quiet, CoreStep, TimeoutStep, TailStep

LEMMA NothingBefore == ASSUME IdleInv, core = "none", Step PROVE FALSE
BY DEF IdleInv, Step, CoreStep, TimeoutStep, TailStep, Begin, BeforeReturns, BeforeThrows,
       ErrorHookReturns, ErrorHookThrows, TimerFires, TimeoutHookReturns, TimeoutHookThrows, Latch,
       ClientLeaves, WatcherFires, AbortHookEnds, RaceEnds, AfterReturns, AfterThrows,
       ResponseHookEnds, Writers

LEMMA PipelineStep == PipelineInv /\ [Next]_vars => PipelineInv'
<1> SUFFICES ASSUME PipelineInv, [Next]_vars PROVE PipelineInv'
  OBVIOUS
<1>1. PipelineTypes' /\ OnionInv' /\ ErrorInv' /\ LatchInv'
  BY PipelineTypeStep, OnionStep, LatchStep
<1>2. CASE core = "none"
  <2>1. UNCHANGED vars
    BY <1>2, NothingBefore DEF Next, Quiet, PipelineInv
  <2> QED BY <1>1, <2>1 DEF PipelineInv, IdleInv, vars
<1>3. CASE core # "none"
  <2>1. core' # "none"
    BY <1>3 DEF Next, Step, Quiet, vars, CoreStep, TimeoutStep, TailStep, Begin, BeforeReturns,
           BeforeThrows, NextCalled, LevelReturns, LevelThrows, Fail, ErrorHookReturns,
           ErrorHookThrows, TimerFires, TimeoutHookReturns, TimeoutHookThrows, Latch,
           ClientLeaves, WatcherFires, AbortHookEnds, RaceEnds, AfterReturns, AfterThrows,
           ResponseHookEnds, Write, coreVars
  <2> QED BY <1>1, <2>1 DEF PipelineInv, IdleInv
<1> QED BY <1>2, <1>3

-----------------------------------------------------------------------------

\* Along every behaviour the inductive invariant holds: the onion's index, the
\* error path and the latch agree, whoever of the four activities moves.
THEOREM PipelineInvariance == Spec => []PipelineInv
<1>1. Init => PipelineInv
  BY PipelineInit, ChainsAssumption DEF Init
<1> QED BY <1>1, PipelineStep, PTL DEF Spec

\* For every number of middlewares: next() called again, later or by a level
\* nobody awaits does not call the handler a second time (runOnion's index).
THEOREM HandlerRunsOnce == Spec => []HandlerOnce
<1>1. PipelineInv => HandlerOnce
  BY DEF PipelineInv, OnionInv, HandlerOnce
<1> QED BY PipelineInvariance, <1>1, PTL

\* What was handed to respond() is what the context holds from then on, whatever
\* still runs (c._settled).
THEOREM ResponseLatched == Spec => []ResponseIsLatched
<1>1. PipelineInv => ResponseIsLatched
  BY DEF PipelineInv, LatchInv, ResponseIsLatched
<1> QED BY PipelineInvariance, <1>1, PTL

\* The empty 200 that stands for "no response" is sent only for a request whose
\* core ended, and neither it nor an "after" hook threw.
THEOREM FailuresAnswered == Spec => []NoEmptyFailure
<1>1. PipelineInv => NoEmptyFailure
  BY DEF PipelineInv, LatchInv, Finalized, NoEmptyFailure
<1> QED BY PipelineInvariance, <1>1, PTL

\* On every path to respond() the "after" hooks ran to the last one, unless one
\* of them threw.
THEOREM AfterHooksComplete == Spec => AfterHooksRun
<1>1. [Next]_vars => [sent = "unsent" /\ sent' # "unsent" =>
        failed' \/ chain.after = 0 \/ (tail = "after" /\ tailAt = chain.after)]_vars
  <2> SUFFICES ASSUME [Next]_vars, sent' # sent
               PROVE  failed' \/ chain.after = 0 \/ (tail = "after" /\ tailAt = chain.after)
    BY DEF vars
  <2>1. RaceEnds \/ AfterReturns \/ AfterThrows
    BY DEF Next, Step, Quiet, vars, CoreStep, TimeoutStep, TailStep, Begin, BeforeReturns,
           BeforeThrows, NextCalled, LevelReturns, LevelThrows, ErrorHookReturns, ErrorHookThrows,
           TimerFires, TimeoutHookReturns, TimeoutHookThrows, Latch, ClientLeaves, WatcherFires,
           AbortHookEnds, ResponseHookEnds, Write, tailVars
  <2> QED BY <2>1 DEF RaceEnds, AfterReturns, AfterThrows
<1> QED BY <1>1, PTL DEF Spec, AfterHooksRun
-----------------------------------------------------------------------------
(* Edge: the address, the CORS headers, the leaf and the refusals, each as *)
(* a fact about the operators that compute it.                             *)

\* Without one of the custom headers it is the peer's address.
LEMMA ClientIp ==
  ASSUME options.ipHeaders \in Seq(STRING),
         \A h \in ToSet(options.ipHeaders) : h \notin DOMAIN request.ips
  PROVE  client_ip = peer
<1> DEFINE present(h) == h \in DOMAIN request.ips /\ request.ips[h] # <<"">>
           I == {i \in 1 .. Len(options.ipHeaders) : present(options.ipHeaders[i])}
<1>1. \A i \in 1 .. Len(options.ipHeaders) : options.ipHeaders[i] \in ToSet(options.ipHeaders)
  BY DEF ToSet
<1>2. I = {}
  BY <1>1
<1>3. SelectInSeq(options.ipHeaders, present) = 0
  BY <1>2, Zenon DEF SelectInSeq
<1> QED BY <1>3, Zenon DEF client_ip

\* What the constructor lets through.
Accepting(cors) ==
  /\ normalizeCors(cors)
  /\ cors # None => /\ None \notin cors.origins /\ cors.credentials \in BOOLEAN

Readable(a, cors, origin) ==
  cors # None =>
    LET any == "*" \in cors.origins
        granted == any \/ origin \in cors.origins
    IN  /\ a.acao # None <=> granted
        /\ granted => a.acao = (IF any THEN "*" ELSE origin)
        /\ granted /\ ~any => a.vary
        /\ a.credentials => a.acao # "*"

LEMMA CorsReadable ==
  ASSUME NEW cors, Accepting(cors), cors # None, NEW origin, NEW h, h = CorsHeaders(cors, origin)
  PROVE  /\ Readable(h, cors, origin)
         /\ resolve_origin(cors, origin) = None =>
              ~("*" \in cors.origins) /\ origin \notin cors.origins
<1> USE NoneAssumption
<1>1. CASE "*" \in cors.origins
  <2>1. ~cors.credentials
    BY <1>1 DEF Accepting, normalizeCors
  <2>2. resolve_origin(cors, origin) = "*"
    BY <1>1, <2>1 DEF resolve_origin
  <2>3. h.acao = "*" /\ h.credentials = cors.credentials
    BY <2>2 DEF CorsHeaders
  <2> QED BY <1>1, <2>1, <2>2, <2>3 DEF Readable
<1>2. CASE "*" \notin cors.origins /\ origin \in cors.origins
  <2>1. resolve_origin(cors, origin) = origin /\ origin # None /\ origin # "*"
    BY <1>2 DEF resolve_origin, Accepting
  <2>2. h.acao = origin /\ h.vary
    BY <1>2, <2>1 DEF CorsHeaders
  <2> QED BY <1>2, <2>1, <2>2 DEF Readable
<1>3. CASE "*" \notin cors.origins /\ origin \notin cors.origins
  <2>1. resolve_origin(cors, origin) = None
    BY <1>3 DEF resolve_origin
  <2>2. h.acao = None /\ h.credentials = FALSE
    BY <2>1 DEF CorsHeaders
  <2> QED BY <1>3, <2>1, <2>2 DEF Readable
<1> QED BY <1>1, <1>2, <1>3

\* Every answer of handle_inner.
LEMMA AnswerReadable ==
  ASSUME Accepting(options.cors), NEW status, NEW allow
  PROVE  /\ Readable(apply_cors(status, allow), options.cors, request.origin)
         /\ options.cors # None /\ resolve_origin(options.cors, request.origin) = None =>
              Readable(Plain(status, allow), options.cors, request.origin)
<1> DEFINE cors == options.cors
           origin == request.origin
           h == CorsHeaders(cors, origin)
           a == apply_cors(status, allow)
           b == Plain(status, allow)
<1>1. a.acao = h.acao /\ a.credentials = h.credentials /\ a.vary = h.vary
  BY DEF apply_cors
<1>2. b.acao = None /\ b.credentials = FALSE
  BY DEF Plain
<1>3. cors # None => Readable(h, cors, origin)
  BY CorsReadable
<1>4. cors # None /\ resolve_origin(cors, origin) = None =>
        ~("*" \in cors.origins) /\ origin \notin cors.origins
  BY CorsReadable
<1> HIDE DEF h, a, b
<1>5. Readable(a, cors, origin)
  BY <1>1, <1>3 DEF Readable
<1>6. cors # None /\ resolve_origin(cors, origin) = None => Readable(b, cors, origin)
  BY <1>2, <1>4, NoneAssumption DEF Readable
<1> QED BY <1>5, <1>6 DEF a, b
\* The middleware and hooks of leaf lf, as application a declares them.
Covers(a, lf, g) ==
  IF lf.id = "notFound" THEN g.at = <<>>
  ELSE \E p \in {q.at : q \in {q \in Places(a) : q.id = lf.id}} : IsPrefix(g.at, p)
Guarded(a, lf) ==
  /\ Range(lf.middleware) \union Range(lf.hooks) = Ids({g \in Scopes(a) : Covers(a, lf, g)})
  /\ IsInjective(lf.middleware) /\ IsInjective(lf.hooks)
  /\ Range(lf.middleware) \intersect Range(lf.hooks) = {}

\* Server s stands for what application a declares.
Standing(a, s) ==
  /\ Good(s, Declared(a)[1]) /\ NoSlash(s) /\ \A p \in Places(a) : p.id # "notFound"

\* The leaf that dispatch makes of route r.
LeafOf(lf, s, r) ==
  /\ lf.id = r.id
  /\ lf.middleware = [k \in Applying(s.middleware, r.path) |-> s.middleware[k].id]
  /\ lf.hooks = [k \in Applying(s.hooks, r.path) |-> s.hooks[k].id]

LEMMA RouteTypes ==
  ASSUME NEW a, NEW s, Standing(a, s), NEW j \in DOMAIN s.routes
  PROVE  s.routes[j] \in RouteEntries /\ s.routes[j].path \in Paths /\ ~IsEmpty(s.routes[j].path)
<1>1. s.routes \in Seq(RouteEntries) /\ \A r \in ToSet(s.routes) : ~IsEmpty(r.path)
  BY DEF Standing, Good, TypedLists
<1>2. s.routes[j] \in RouteEntries /\ s.routes[j] \in ToSet(s.routes)
  BY <1>1, ListFacts DEF ToSet
<1> QED BY <1>1, <1>2 DEF RouteEntries

LEMMA RouteGuarded ==
  ASSUME NEW a, NEW s, Standing(a, s), NEW j \in DOMAIN s.routes, NEW lf, LeafOf(lf, s, s.routes[j])
  PROVE  Guarded(a, lf)
<1> DEFINE r == s.routes[j]
           place == RouteOf(r)
<1>1. r.path \in Paths /\ ~IsEmpty(r.path)
  BY RouteTypes
<1>2. /\ IsInjective(lf.middleware) /\ IsInjective(lf.hooks)
      /\ Range(lf.middleware) \intersect Range(lf.hooks) = {}
      /\ Range(lf.middleware) \union Range(lf.hooks) = Ids(Covering(Scopes(a), r.path))
  BY <1>1, LeafGuards DEF Standing, LeafOf, Scopes
<1>3. /\ place \in Places(a) /\ place.id = r.id
      /\ \A q \in Places(a) : q.id = r.id => q = place
  BY LeafPlace DEF Standing, Places
<1>4. place.at = PlaceOf(r.path)
  BY DEF RouteOf, Place
<1>5. lf.id = r.id /\ lf.id # "notFound"
  BY <1>3 DEF LeafOf, Standing
<1> HIDE DEF place, r
<1>6. {q.at : q \in {q \in Places(a) : q.id = lf.id}} = {PlaceOf(r.path)}
  BY <1>3, <1>4, <1>5
<1>7. \A g : Covers(a, lf, g) <=> IsPrefix(g.at, PlaceOf(r.path))
  BY <1>5, <1>6 DEF Covers
<1>8. Covering(Scopes(a), r.path) = {g \in Scopes(a) : Covers(a, lf, g)}
  BY <1>1, <1>7 DEF Covering
<1> QED BY <1>2, <1>8, Zenon DEF Guarded

LEMMA NotFoundGuarded ==
  ASSUME NEW a, NEW s, Standing(a, s), NEW lf, LeafOf(lf, s, NotFoundRoute)
  PROVE  Guarded(a, lf)
<1>1. NotFoundRoute.path \in Paths /\ IsEmpty(NotFoundRoute.path) /\ NotFoundRoute.id = "notFound"
  BY PathTypes DEF NotFoundRoute, IsEmpty
<1>2. /\ IsInjective(lf.middleware) /\ IsInjective(lf.hooks)
      /\ Range(lf.middleware) \intersect Range(lf.hooks) = {}
      /\ Range(lf.middleware) \union Range(lf.hooks) = Ids(Covering(Scopes(a), NotFoundRoute.path))
  BY <1>1, LeafGuards DEF Standing, LeafOf, Scopes
<1>3. \A g : Covers(a, lf, g) <=> IsEmpty(g.at)
  BY <1>1 DEF Covers, LeafOf, IsEmpty
<1>4. Covering(Scopes(a), NotFoundRoute.path) = {g \in Scopes(a) : Covers(a, lf, g)}
  BY <1>1, <1>3 DEF Covering
<1> QED BY <1>2, <1>4, Zenon DEF Guarded

-----------------------------------------------------------------------------
(* The methods of a path.                                                  *)

Served(a, path) == {m \in Methods : Serves(a, m, path)}

LEMMA ServesBy ==
  ASSUME NEW a, NEW s, Standing(a, s), NEW path, NEW own, own = MethodsAt(s.routes, path), NEW m
  PROVE  Serves(a, m, path) <=>
           \/ m \in own \/ "ALL" \in own
           \/ m = "HEAD" /\ "GET" \in own
           \/ m = "OPTIONS" /\ own # {}
<1> DEFINE asked == {p \in Places(a) : Asked(p, path)}
           by(x) == \E p \in asked : p.method \in {x, "ALL"}
<1>1. asked = {q \in Declared(a)[1] : q.kind = "route" /\ Asked(q, path)}
  BY DEF Places
<1>2. {p.method : p \in {q \in Declared(a)[1] : q.kind = "route" /\ Asked(q, path)}} = own
  BY AskedMethods DEF Standing
<1>3. {p.method : p \in asked} = own
  BY <1>1, <1>2, Zenon
<1>4. Serves(a, m, path) <=> by(m) \/ (m = "HEAD" /\ by("GET")) \/ (m = "OPTIONS" /\ asked # {})
  BY DEF Serves
<1> HIDE DEF asked
<1>5. \A x : by(x) <=> x \in own \/ "ALL" \in own
  BY <1>3
<1>6. asked # {} <=> own # {}
  BY <1>3
<1> HIDE DEF by
<1>7. by(m) <=> m \in own \/ "ALL" \in own
  BY <1>5
<1>8. by("GET") <=> "GET" \in own \/ "ALL" \in own
  BY <1>5
<1> QED BY <1>4, <1>6, <1>7, <1>8

\* 404 and Allow.
LEMMA AllowServed ==
  ASSUME NEW a, NEW s, Standing(a, s), NEW path, \A p \in Places(a) : p.method \in Methods \union {"ALL"},
         NEW allow, allow = allowed_methods(s.routes, path)
  PROVE  /\ allow = {} => Served(a, path) = {}
         /\ allow # {} => allow \intersect Methods = Served(a, path)
<1> DEFINE own == MethodsAt(s.routes, path)
           met == (own \ {"ALL"}) \union (IF "ALL" \in own THEN Standard ELSE {})
<1>1. own \subseteq Methods \union {"ALL"}
  <2>1. {p.method : p \in {q \in Declared(a)[1] : q.kind = "route" /\ Asked(q, path)}} = own
    BY AskedMethods DEF Standing
  <2> HIDE DEF own
  <2> QED BY <2>1 DEF Places
<1>2. allow = IF met = {} THEN {}
              ELSE met \union {"OPTIONS"} \union (IF "GET" \in met THEN {"HEAD"} ELSE {})
  BY DEF allowed_methods, MethodsAt
<1>3. \A m : Serves(a, m, path) <=>
           \/ m \in own \/ "ALL" \in own
           \/ m = "HEAD" /\ "GET" \in own
           \/ m = "OPTIONS" /\ own # {}
  BY ServesBy
<1> HIDE DEF own
<1>4. CASE "ALL" \in own
  <2>1. "GET" \in met /\ "POST" \in met /\ "DELETE" \in met
    BY <1>4 DEF Standard
  <2>2. \A m \in Methods : Serves(a, m, path)
    BY <1>3, <1>4
  <2>3. allow # {} /\ \A m \in Methods : m \in allow
    <3> HIDE DEF met
    <3> QED BY <1>2, <2>1 DEF Methods
  <2> QED BY <2>2, <2>3 DEF Served
<1>5. CASE "ALL" \notin own
  <2>1. met = own
    BY <1>5
  <2> HIDE DEF met
  <2>2. CASE own = {}
    <3>1. allow = {}
      BY <1>2, <2>1, <2>2
    <3>2. \A m : ~Serves(a, m, path)
      BY <1>3, <2>2
    <3> QED BY <3>1, <3>2 DEF Served
  <2>3. CASE own # {}
    <3>1. allow = own \union {"OPTIONS"} \union (IF "GET" \in own THEN {"HEAD"} ELSE {})
      BY <1>2, <2>1, <2>3
    <3>2. \A m \in Methods : m \in allow <=> Serves(a, m, path)
      BY <1>3, <1>5, <2>3, <3>1
    <3> QED BY <3>1, <3>2 DEF Served
  <2> QED BY <2>2, <2>3
<1> QED BY <1>4, <1>5

-----------------------------------------------------------------------------
(* The leaf of a request, the one of GET for HEAD.                         *)

Honest(a, lf, method, path) ==
  IF lf.id = "notFound" THEN Served(a, path) = {}
  ELSE \E p \in Places(a) :
         /\ p.id = lf.id /\ Asked(p, path)
         /\ p.method \in {method, "ALL"} \/ (method = "HEAD" /\ p.method = "GET")

RouteFor(s, method, path) ==
  LET direct == match_route(s.routes, method, path)
  IN  IF direct = 0 /\ method = "HEAD" THEN match_route(s.routes, "GET", path) ELSE direct

LEMMA RouteFound ==
  ASSUME NEW a, NEW s, Standing(a, s), NEW method \in Methods, NEW path,
         NEW i, i = RouteFor(s, method, path)
  PROVE  /\ i # 0 => /\ i \in DOMAIN s.routes
                     /\ \A lf : lf.id = s.routes[i].id => Honest(a, lf, method, path)
         /\ i = 0 /\ method # "OPTIONS" => ~Serves(a, method, path)
<1> DEFINE direct == match_route(s.routes, method, path)
           get == match_route(s.routes, "GET", path)
           own == MethodsAt(s.routes, path)
<1>0. s.routes \in Seq(RouteEntries)
  BY DEF Standing, Good, TypedLists
<1>1. /\ direct # 0 => /\ direct \in DOMAIN s.routes /\ Matches(s.routes[direct].path, path)
                       /\ s.routes[direct].method = method \/ s.routes[direct].method = "ALL"
      /\ direct = 0 => \A k \in DOMAIN s.routes :
                         Matches(s.routes[k].path, path) =>
                           s.routes[k].method # method /\ s.routes[k].method # "ALL"
  BY <1>0, MatchRoute
<1>2. /\ get # 0 => /\ get \in DOMAIN s.routes /\ Matches(s.routes[get].path, path)
                    /\ s.routes[get].method = "GET" \/ s.routes[get].method = "ALL"
      /\ get = 0 => \A k \in DOMAIN s.routes :
                      Matches(s.routes[k].path, path) =>
                        s.routes[k].method # "GET" /\ s.routes[k].method # "ALL"
  BY <1>0, MatchRoute
<1>3. i = IF direct = 0 /\ method = "HEAD" THEN get ELSE direct
  BY DEF RouteFor
<1> HIDE DEF direct, get
<1>4. ASSUME i # 0
      PROVE  /\ i \in DOMAIN s.routes /\ Matches(s.routes[i].path, path)
             /\ \/ s.routes[i].method = method \/ s.routes[i].method = "ALL"
                \/ method = "HEAD" /\ s.routes[i].method = "GET"
  BY <1>1, <1>2, <1>3, <1>4
<1>5. ASSUME i # 0, NEW lf, lf.id = s.routes[i].id PROVE Honest(a, lf, method, path)
  <2> DEFINE r == s.routes[i]
             place == RouteOf(r)
  <2>1. r.path \in Paths /\ ~IsEmpty(r.path)
    BY <1>4, <1>5, RouteTypes
  <2>2. place \in Places(a) /\ place.id = lf.id
    BY <1>4, <1>5, LeafPlace DEF Standing, Places
  <2>3. Asked(place, path)
    BY <1>4, <1>5, <2>1, AskedMatches
  <2>4. place.method = r.method
    BY DEF RouteOf, Place
  <2>5. lf.id # "notFound"
    BY <2>2 DEF Standing
  <2> HIDE DEF place, r
  <2>6. place.method \in {method, "ALL"} \/ (method = "HEAD" /\ place.method = "GET")
    BY <1>4, <1>5, <2>4 DEF r
  <2> QED BY <2>2, <2>3, <2>5, <2>6 DEF Honest
<1>6. ASSUME i = 0, method # "OPTIONS" PROVE ~Serves(a, method, path)
  <2>1. direct = 0 /\ (method = "HEAD" => get = 0)
    BY <1>3, <1>6
  <2>2. method \notin own /\ "ALL" \notin own /\ (method = "HEAD" => "GET" \notin own)
    BY <1>1, <1>2, <2>1 DEF MethodsAt
  <2>3. \A m : Serves(a, m, path) <=>
           \/ m \in own \/ "ALL" \in own
           \/ m = "HEAD" /\ "GET" \in own
           \/ m = "OPTIONS" /\ own # {}
    BY ServesBy
  <2> HIDE DEF own
  <2> QED BY <1>6, <2>2, <2>3
<1> QED BY <1>4, <1>5, <1>6
-----------------------------------------------------------------------------
(* The inductive invariant of a request on its way.                        *)

\* What the scenario is.
SettingsInv ==
  /\ WellFormed(app) /\ \A p \in Places(app) : p.method \in Methods \union {"ALL"}
  /\ options.proxy \in BOOLEAN /\ options.timed \in BOOLEAN /\ options.ipHeaders \in Seq(STRING)
  /\ Accepting(options.cors)
  /\ request.method \in Methods

\* However often listen() was tried, the mounts are folded in once.
ServerInv ==
  /\ server = NewServers(app) \/ server = applyMounts(NewServers(app))
  /\ phase # "config" => server = applyMounts(NewServers(app))

\* JS has nothing to do before the dispatch.
PhaseInv ==
  /\ phase \in {"config", "serving", "js", "answered"}
  /\ phase \in {"config", "serving"} => core = "none"

PeerInv == (conn = "direct" <=> ~options.proxy) /\ (conn = "direct" => peer = "socket")

IpInv ==
  ip # None /\ (\A h \in ToSet(options.ipHeaders) : h \notin DOMAIN request.ips) =>
    ip = IF options.proxy /\ Vouched(wire) THEN "client" ELSE "socket"

\* The chain that runs has at least the middleware of the leaf.
LeafInv ==
  leaf # None =>
    /\ Guarded(app, leaf) /\ Honest(app, leaf, request.method, request.path)
    /\ Cardinality(DOMAIN leaf.middleware) \in Nat
    /\ Cardinality(DOMAIN leaf.middleware) <= chain.middleware

AllowRight(a) ==
  /\ a.status = "404" => Served(app, request.path) = {}
  /\ a.status = "405" => request.method \notin Served(app, request.path)
  /\ a.allow # {} => a.allow \intersect Methods = Served(app, request.path)

AnswerInv == answer # None => Readable(answer, options.cors, request.origin) /\ AllowRight(answer)

EdgeInv ==
  /\ ConnInv /\ PipelineInv /\ SettingsInv /\ ServerInv /\ PhaseInv
  /\ PeerInv /\ IpInv /\ LeafInv /\ AnswerInv

-----------------------------------------------------------------------------

LEMMA EdgeInitHolds == EdgeInit => EdgeInv
<1> SUFFICES ASSUME NEW s \in Scenarios, normalizeCors(s.options.cors),
                    app = s.app, server = NewServers(s.app),
                    options = s.options, request = s.request, phase = "config",
                    leaf = None, ip = None, answer = None,
                    ConnInit(s.wire, s.options.proxy), InitWith(NoChain, "none")
             PROVE  EdgeInv
  BY DEF EdgeInit
<1>1. /\ WellFormed(s.app) /\ \A r \in Places(s.app) : r.method \in Methods \union {"ALL"}
      /\ s.wire \in Wires /\ s.options.proxy \in BOOLEAN /\ s.options.timed \in BOOLEAN
      /\ s.options.ipHeaders \in Seq(STRING) /\ s.request.method \in Methods
      /\ s.options.cors # None => /\ None \notin s.options.cors.origins
                                  /\ s.options.cors.credentials \in BOOLEAN
  BY ScenariosAssumption, Zenon
<1>2. ConnInv
  BY <1>1, ConnInitHolds
<1>3. PipelineInv
  <2>1. NoChain \in ChainTypes
    BY DEF NoChain, ChainTypes
  <2> QED BY <2>1, PipelineInit
<1>4. SettingsInv
  BY <1>1, Zenon DEF SettingsInv, Accepting
<1>5. ServerInv /\ PhaseInv
  BY DEF ServerInv, PhaseInv, InitWith
<1>6. PeerInv
  BY <1>1 DEF PeerInv, ConnInit
<1>7. IpInv /\ LeafInv /\ AnswerInv
  BY DEF IpInv, LeafInv, AnswerInv
<1> QED BY <1>2, <1>3, <1>4, <1>5, <1>6, <1>7 DEF EdgeInv

\* The Server that listens stands for the application.
LEMMA RootStands ==
  ASSUME SettingsInv, ServerInv, phase # "config"
  PROVE  Standing(app, Root)
<1>1. WellFormed(app) /\ server = applyMounts(NewServers(app))
  BY DEF SettingsInv, ServerInv
<1>2. 1 \in DOMAIN app
  BY <1>1, WellFormedFacts
<1>3. Good(server[1], Declared(app)[1]) /\ NoSlash(server[1])
  BY <1>1, <1>2, AsDeclared
<1>4. \A p \in Places(app) : p.id # "notFound"
  BY <1>1, NotFoundApart
<1> QED BY <1>3, <1>4 DEF Standing, Root

\* What a step of the connection leaves alone.
LEMMA ConnKeeps ==
  ASSUME ConnInv, ConnStep
  PROVE  wire' = wire /\ (conn' = "direct" <=> conn = "direct") /\ (conn = "direct" => peer' = peer)
<1>0. wire \in Wires /\ wire.total \in Nat /\ got \in Nat /\ got <= wire.total
  BY WireTypes DEF ConnInv, ConnTypes
<1>1. ASSUME NEW n \in Takes(got, CHUNK, wire.total), ReadPrefix(n)
      PROVE  wire' = wire /\ conn = "reading" /\ conn' # "direct"
  <2> DEFINE h == read_header(wire, got + n)
  <2>1. got + n \in Nat /\ got + n <= wire.total
    BY <1>0, TakesBound
  <2>2. h.verdict \in {"more", "refused", "open"}
    BY <1>0, <2>1, HeaderVerdict
  <2>3. wire' = wire /\ conn = "reading" /\ conn' = IF h.verdict = "more" THEN conn ELSE h.verdict
    BY <1>1 DEF ReadPrefix
  <2> HIDE DEF h
  <2> QED BY <2>2, <2>3
<1>2. CASE PrefixCut
  BY <1>2 DEF PrefixCut
<1>3. ASSUME NEW n, poll_read(n) PROVE wire' = wire /\ conn' = conn /\ peer' = peer
  BY <1>3 DEF poll_read
<1> QED BY <1>1, <1>2, <1>3 DEF ConnStep

\* A step that leaves the connection or JS alone.
LEMMA OthersRest ==
  /\ PipelineInv /\ UNCHANGED vars => PipelineInv'
  /\ ConnInv /\ UNCHANGED connVars => ConnInv'
BY PipelineStep, ConnStepHolds

-----------------------------------------------------------------------------
(* One lemma for each kind of step.                                        *)

LEMMA ListenHolds == EdgeInv /\ (ListenFails \/ Listen) => EdgeInv'
<1> SUFFICES ASSUME EdgeInv, ListenFails \/ Listen PROVE EdgeInv'
  OBVIOUS
<1>1. /\ UNCHANGED <<vars, connVars, app, options, request, leaf, ip, answer>>
      /\ server' = applyMounts(server) /\ phase = "config" /\ phase' \in {"config", "serving"}
  BY DEF ListenFails, Listen
<1>2. UNCHANGED <<core, chain, wire, conn, peer>>
  BY <1>1 DEF vars, connVars
<1>3. PipelineInv' /\ ConnInv'
  BY <1>1, OthersRest DEF EdgeInv
<1>4. server' = applyMounts(NewServers(app))
  <2>1. applyMounts(applyMounts(NewServers(app))) = applyMounts(NewServers(app))
    BY AsDeclared DEF EdgeInv, SettingsInv
  <2> QED BY <1>1, <2>1, Zenon DEF EdgeInv, ServerInv
<1>5. ServerInv' /\ PhaseInv'
  BY <1>1, <1>2, <1>4 DEF EdgeInv, ServerInv, PhaseInv
<1>6. SettingsInv' /\ PeerInv' /\ IpInv'
  BY <1>1, <1>2 DEF EdgeInv, SettingsInv, PeerInv, IpInv
<1>7. LeafInv' /\ AnswerInv'
  BY <1>1, <1>2 DEF EdgeInv, LeafInv, AnswerInv, AllowRight
<1> QED BY <1>3, <1>5, <1>6, <1>7 DEF EdgeInv

LEMMA ReceiveHolds == EdgeInv /\ Receive => EdgeInv'
<1> SUFFICES ASSUME EdgeInv, Receive PROVE EdgeInv'
  OBVIOUS
<1>1. ConnStep /\ UNCHANGED vars /\ UNCHANGED <<app, server, options, request, phase, leaf, ip, answer>>
  BY DEF Receive, edgeVars
<1>2. UNCHANGED <<core, chain>>
  BY <1>1 DEF vars
<1>3. ConnInv' /\ PipelineInv'
  BY <1>1, ConnStepHolds, OthersRest DEF EdgeInv
<1>4. wire' = wire /\ (conn' = "direct" <=> conn = "direct") /\ (conn = "direct" => peer' = peer)
  BY <1>1, ConnKeeps DEF EdgeInv
<1>5. PeerInv' /\ IpInv'
  BY <1>1, <1>4 DEF EdgeInv, PeerInv, IpInv
<1>6. SettingsInv' /\ ServerInv' /\ PhaseInv'
  BY <1>1, <1>2 DEF EdgeInv, SettingsInv, ServerInv, PhaseInv
<1>7. LeafInv' /\ AnswerInv'
  BY <1>1, <1>2 DEF EdgeInv, LeafInv, AnswerInv, AllowRight
<1> QED BY <1>3, <1>5, <1>6, <1>7 DEF EdgeInv

LEMMA AnswerHolds ==
  ASSUME EdgeInv, phase # "config", NEW a, Answer(a),
         Readable(a, options.cors, request.origin), AllowRight(a)
  PROVE  EdgeInv'
<1>1. /\ UNCHANGED <<vars, connVars>> /\ UNCHANGED <<app, server, options, request, leaf, ip>>
      /\ answer' = a /\ phase' = "answered"
  BY DEF Answer
<1>2. UNCHANGED <<core, chain, wire, conn, peer>>
  BY <1>1 DEF vars, connVars
<1>3. PipelineInv' /\ ConnInv'
  BY <1>1, OthersRest DEF EdgeInv
<1>4. SettingsInv' /\ PeerInv' /\ IpInv'
  BY <1>1, <1>2 DEF EdgeInv, SettingsInv, PeerInv, IpInv
<1>5. ServerInv' /\ PhaseInv'
  BY <1>1 DEF EdgeInv, ServerInv, PhaseInv
<1>6. LeafInv'
  BY <1>1, <1>2 DEF EdgeInv, LeafInv
<1>7. AnswerInv'
  BY <1>1 DEF AnswerInv, AllowRight
<1> QED BY <1>3, <1>4, <1>5, <1>6, <1>7 DEF EdgeInv
\* The numbers of a list's entries are finitely many.
LEMMA Counted ==
  ASSUME NEW S, NEW list \in Seq(S), NEW T, T \subseteq DOMAIN list
  PROVE  Cardinality(T) \in Nat
<1>1. Len(list) \in Int /\ 1 \in Int /\ DOMAIN list = 1 .. Len(list)
  BY ListFacts
<1>2. IsFiniteSet(1 .. Len(list))
  BY <1>1, FS_Interval
<1>3. IsFiniteSet(T)
  BY <1>1, <1>2, FS_Subset
<1> QED BY <1>3, FS_CardinalityType

\* #handleRequest is called for the first time, with chain ch.
LEMMA PipelineStarts ==
  ASSUME PipelineInv, core = "none", core' = "new", chain' \in ChainTypes,
         UNCHANGED <<coreAt, onionVars, timerVars, watchVars, tailVars, res, settled, threw>>
  PROVE  PipelineInv'
<1>1. /\ UNCHANGED <<coreAt, index, running, calls, timer, timerAt, watcher, watchAt, gone>>
      /\ UNCHANGED <<tail, tailAt, sent, failed, res, settled, threw>>
  BY DEF onionVars, timerVars, watchVars, tailVars
<1>2. PipelineTypes'
  BY <1>1 DEF PipelineInv, PipelineTypes
<1>3. running = {} /\ index = 0 /\ calls = 0
  <2>1. Handler \in Nat /\ Handler >= 1
    BY HandlerIsPositive DEF PipelineInv
  <2> QED BY <2>1 DEF PipelineInv, OnionInv, IdleInv
<1>4. Handler' \in Nat /\ Handler' >= 1
  BY DEF ChainTypes, Handler
<1>5. OnionInv'
  BY <1>1, <1>3, <1>4 DEF OnionInv
<1>6. ErrorInv' /\ LatchInv' /\ IdleInv'
  BY <1>1 DEF PipelineInv, ErrorInv, LatchInv, IdleInv, Finalized
<1> QED BY <1>2, <1>5, <1>6 DEF PipelineInv

\* Dispatch of a leaf that has the guards of its place and answers the request.
LEMMA DispatchHolds ==
  ASSUME EdgeInv, phase = "serving", conn \in {"open", "direct"}, NEW r, r.own \in Nat, DispatchLeaf(r),
         \A lf : LeafOf(lf, Root, r) =>
                   Guarded(app, lf) /\ Honest(app, lf, request.method, request.path)
  PROVE  EdgeInv'
<1> DEFINE M == Applying(Root.middleware, r.path)
           H == Applying(Root.hooks, r.path)
           n(stage) == Cardinality({k \in H : Root.hooks[k].stage = stage})
           lf == [id |-> r.id, middleware |-> [k \in M |-> Root.middleware[k].id],
                  hooks |-> [k \in H |-> Root.hooks[k].id]]
<1>1. /\ leaf' = lf /\ ip' = client_ip /\ core' = "new" /\ phase' = "js"
      /\ chain' = [before |-> n("before"), onError |-> n("onError"),
                   onTimeout |-> n("onTimeout"), onAbort |-> n("onAbort"),
                   after |-> n("after"), onResponse |-> n("onResponse"),
                   middleware |-> Cardinality(M) + r.own,
                   timed |-> options.timed, watched |-> n("onAbort") > 0]
  BY Zenon DEF DispatchLeaf, ChainOf
<1>2. /\ UNCHANGED <<coreAt, onionVars, timerVars, watchVars, tailVars, res, settled, threw>>
      /\ UNCHANGED connVars /\ UNCHANGED <<app, server, options, request, answer>>
  BY DEF DispatchLeaf
<1>3. UNCHANGED <<wire, conn, peer>>
  BY <1>2 DEF connVars
<1>4. Standing(app, Root)
  BY RootStands DEF EdgeInv
<1>5. Root.middleware \in Seq(Entries) /\ Root.hooks \in Seq(HookEntries)
  BY <1>4 DEF Standing, Good, TypedLists
<1>6. Cardinality(M) \in Nat
  BY <1>5, Counted DEF Applying
<1>7. \A stage : n(stage) \in Nat
  <2>1. \A stage : {k \in H : Root.hooks[k].stage = stage} \subseteq DOMAIN Root.hooks
    BY DEF Applying
  <2> QED BY <1>5, <2>1, Counted
<1>8. lf.id = r.id /\ DOMAIN lf.middleware = M /\ LeafOf(lf, Root, r)
  BY DEF LeafOf
<1>9. options.timed \in BOOLEAN /\ (n("onAbort") > 0) \in BOOLEAN
  BY DEF EdgeInv, SettingsInv
<1> HIDE DEF M, H, lf, n
<1>10. chain' \in ChainTypes /\ chain'.middleware = Cardinality(M) + r.own
  BY <1>1, <1>6, <1>7, <1>9 DEF ChainTypes
<1>11. core = "none"
  BY DEF EdgeInv, PhaseInv
<1>12. PipelineInv' /\ ConnInv'
  BY <1>1, <1>2, <1>10, <1>11, PipelineStarts, OthersRest DEF EdgeInv
<1>13. SettingsInv' /\ PeerInv' /\ AnswerInv'
  BY <1>2, <1>3 DEF EdgeInv, SettingsInv, PeerInv, AnswerInv, AllowRight
<1>14. ServerInv' /\ PhaseInv'
  BY <1>1, <1>2 DEF EdgeInv, ServerInv, PhaseInv
<1>15. IpInv'
  <2> SUFFICES ASSUME \A h \in ToSet(options.ipHeaders) : h \notin DOMAIN request.ips
               PROVE  client_ip = IF options.proxy /\ Vouched(wire) THEN "client" ELSE "socket"
    BY <1>1, <1>2, <1>3 DEF IpInv
  <2>1. client_ip = peer
    BY ClientIp DEF EdgeInv, SettingsInv
  <2>2. conn = "open" => peer = IF Vouched(wire) THEN "client" ELSE "socket"
    BY DEF EdgeInv, ConnInv, VerdictInv
  <2>3. (conn = "direct" <=> ~options.proxy) /\ (conn = "direct" => peer = "socket")
    BY DEF EdgeInv, PeerInv
  <2> QED BY <2>1, <2>2, <2>3
<1>16. LeafInv'
  <2>1. Guarded(app, lf) /\ Honest(app, lf, request.method, request.path)
    BY <1>8
  <2>2. Cardinality(DOMAIN lf.middleware) \in Nat /\ Cardinality(DOMAIN lf.middleware) <= chain'.middleware
    BY <1>6, <1>8, <1>10
  <2> QED BY <1>1, <1>2, <2>1, <2>2 DEF LeafInv
<1> QED BY <1>12, <1>13, <1>14, <1>15, <1>16 DEF EdgeInv
LEMMA RefusalHolds == EdgeInv /\ (Preflight \/ TooLarge \/ WrongMethod) => EdgeInv'
<1> SUFFICES ASSUME EdgeInv, Preflight \/ TooLarge \/ WrongMethod PROVE EdgeInv'
  OBVIOUS
<1>1. phase = "serving"
  BY DEF Preflight, TooLarge, WrongMethod, Routed, Arrived
<1>2. Accepting(options.cors) /\ request.method \in Methods
  BY DEF EdgeInv, SettingsInv
<1>3. /\ \A status, allow : Readable(apply_cors(status, allow), options.cors, request.origin)
      /\ options.cors # None /\ resolve_origin(options.cors, request.origin) = None =>
           \A status, allow : Readable(Plain(status, allow), options.cors, request.origin)
  BY <1>2, AnswerReadable
<1>4. \A status, allow : /\ apply_cors(status, allow).status = status /\ apply_cors(status, allow).allow = allow
                         /\ Plain(status, allow).status = status /\ Plain(status, allow).allow = allow
  BY DEF apply_cors, Plain
<1>5. ASSUME NEW a, Answer(a), Readable(a, options.cors, request.origin), AllowRight(a) PROVE EdgeInv'
  BY <1>1, <1>5, AnswerHolds
<1>6. CASE Preflight
  <2>1. \A a : a.status # "404" /\ a.status # "405" /\ a.allow = {} => AllowRight(a)
    BY DEF AllowRight
  <2>2. AllowRight(apply_cors("204", {})) /\ AllowRight(Plain("403", {}))
    BY <1>4, <2>1
  <2>3. \/ Answer(apply_cors("204", {}))
        \/ /\ options.cors # None /\ resolve_origin(options.cors, request.origin) = None
           /\ Answer(Plain("403", {}))
    BY <1>6 DEF Preflight, IsPreflight
  <2> QED BY <1>3, <1>5, <2>2, <2>3
<1>7. CASE TooLarge
  <2>1. \A a : a.status # "404" /\ a.status # "405" /\ a.allow = {} => AllowRight(a)
    BY DEF AllowRight
  <2>2. AllowRight(apply_cors("413", {}))
    BY <1>4, <2>1
  <2> QED BY <1>3, <1>5, <1>7, <2>2 DEF TooLarge
<1>8. CASE WrongMethod
  <2> DEFINE allow == allowed_methods(Root.routes, request.path)
             status == IF request.method = "OPTIONS" THEN "204" ELSE "405"
             a == apply_cors(status, allow)
  <2>1. Route = 0 /\ allow # {} /\ Answer(a)
    BY <1>8 DEF WrongMethod
  <2>2. Standing(app, Root)
    BY <1>1, RootStands DEF EdgeInv
  <2>3. RouteFor(Root, request.method, request.path) = 0
    BY <2>1, Zenon DEF Route, RouteFor
  <2>4. request.method # "OPTIONS" => ~Serves(app, request.method, request.path)
    BY <1>2, <2>2, <2>3, RouteFound
  <2>5. \A p \in Places(app) : p.method \in Methods \union {"ALL"}
    BY DEF EdgeInv, SettingsInv
  <2>6. allow \intersect Methods = Served(app, request.path)
    BY <2>1, <2>2, <2>5, AllowServed
  <2>7. a.status = status /\ a.allow = allow
    BY <1>4
  <2>8. a.status = "405" => request.method # "OPTIONS"
    BY <2>7
  <2>9. a.status # "404"
    BY <2>7
  <2> HIDE DEF a, allow, status
  <2>10. AllowRight(a)
    BY <2>4, <2>6, <2>7, <2>8, <2>9 DEF AllowRight, Served
  <2>11. Readable(a, options.cors, request.origin)
    BY <1>3 DEF a
  <2> QED BY <1>5, <2>1, <2>10, <2>11
<1> QED BY <1>6, <1>7, <1>8

LEMMA RoutedHolds == EdgeInv /\ (Matched \/ NotFound) => EdgeInv'
<1> SUFFICES ASSUME EdgeInv, Matched \/ NotFound PROVE EdgeInv'
  OBVIOUS
<1>1. phase = "serving" /\ conn \in {"open", "direct"}
  BY DEF Matched, NotFound, Routed, Arrived
<1>2. Standing(app, Root) /\ request.method \in Methods
  BY <1>1, RootStands DEF EdgeInv, SettingsInv
<1>3. CASE Matched
  <2> DEFINE i == RouteFor(Root, request.method, request.path)
             r == Root.routes[i]
  <2>1. i # 0 /\ DispatchLeaf(r)
    BY <1>3, Zenon DEF Matched, Route, RouteFor
  <2>2. /\ i \in DOMAIN Root.routes
        /\ \A lf : lf.id = r.id => Honest(app, lf, request.method, request.path)
    BY <1>2, <2>1, RouteFound
  <2> HIDE DEF i
  <2>3. r.own \in Nat
    BY <1>2, <2>2, RouteTypes DEF RouteEntries
  <2>4. \A lf : LeafOf(lf, Root, r) => Guarded(app, lf)
    BY <1>2, <2>2, RouteGuarded
  <2>5. \A lf : LeafOf(lf, Root, r) => lf.id = r.id
    BY DEF LeafOf
  <2> QED BY <1>1, <2>1, <2>2, <2>3, <2>4, <2>5, DispatchHolds
<1>4. CASE NotFound
  <2>1. allowed_methods(Root.routes, request.path) = {}
    BY <1>4 DEF NotFound
  <2>2. \A p \in Places(app) : p.method \in Methods \union {"ALL"}
    BY DEF EdgeInv, SettingsInv
  <2>3. Served(app, request.path) = {}
    BY <1>2, <2>1, <2>2, AllowServed
  <2>4. CASE DispatchLeaf(NotFoundRoute)
    <3>1. NotFoundRoute.own \in Nat /\ NotFoundRoute.id = "notFound"
      BY DEF NotFoundRoute
    <3>2. \A lf : LeafOf(lf, Root, NotFoundRoute) => Guarded(app, lf)
      BY <1>2, NotFoundGuarded
    <3>3. \A lf : LeafOf(lf, Root, NotFoundRoute) => Honest(app, lf, request.method, request.path)
      BY <2>3, <3>1 DEF LeafOf, Honest
    <3> QED BY <1>1, <2>4, <3>1, <3>2, <3>3, DispatchHolds
  <2>5. CASE Answer(apply_cors("404", {}))
    <3> DEFINE a == apply_cors("404", {})
    <3>1. a.status = "404" /\ a.allow = {}
      BY DEF apply_cors
    <3>2. Readable(a, options.cors, request.origin)
      BY AnswerReadable DEF EdgeInv, SettingsInv
    <3> HIDE DEF a
    <3>3. AllowRight(a)
      BY <2>3, <3>1 DEF AllowRight
    <3>4. Answer(a)
      BY <2>5 DEF a
    <3> QED BY <1>1, <3>2, <3>3, <3>4, AnswerHolds
  <2> QED BY <1>4, <2>4, <2>5 DEF NotFound
<1> QED BY <1>3, <1>4

LEMMA JsHolds == EdgeInv /\ (InJs \/ JsAnswers) => EdgeInv'
<1> SUFFICES ASSUME EdgeInv, InJs \/ JsAnswers PROVE EdgeInv'
  OBVIOUS
<1>1. CASE InJs
  <2>1. Step /\ UNCHANGED connVars /\ UNCHANGED <<app, server, options, request, phase, leaf, ip, answer>>
    BY <1>1 DEF InJs, edgeVars
  <2>2. core # "none"
    BY <2>1, NothingBefore DEF EdgeInv, PipelineInv
  <2>3. phase \in {"js", "answered"}
    BY <2>2 DEF EdgeInv, PhaseInv
  <2>4. PipelineInv' /\ chain' = chain
    BY <2>1, PipelineStep, OnionStep DEF EdgeInv, Next
  <2>5. ConnInv' /\ UNCHANGED <<wire, conn, peer>>
    BY <2>1, OthersRest DEF EdgeInv, connVars
  <2>6. SettingsInv' /\ ServerInv' /\ PhaseInv'
    BY <2>1, <2>3 DEF EdgeInv, SettingsInv, ServerInv, PhaseInv
  <2>7. PeerInv' /\ IpInv' /\ LeafInv' /\ AnswerInv'
    BY <2>1, <2>4, <2>5 DEF EdgeInv, PeerInv, IpInv, LeafInv, AnswerInv, AllowRight
  <2> QED BY <2>4, <2>5, <2>6, <2>7 DEF EdgeInv
<1>2. CASE JsAnswers
  <2> DEFINE a == apply_cors("js", {})
  <2>1. phase = "js" /\ Answer(a)
    BY <1>2 DEF JsAnswers, Answer
  <2>2. a.status = "js" /\ a.allow = {}
    BY DEF apply_cors
  <2>3. Readable(a, options.cors, request.origin)
    BY AnswerReadable DEF EdgeInv, SettingsInv
  <2> HIDE DEF a
  <2>4. AllowRight(a)
    BY <2>2 DEF AllowRight
  <2> QED BY <2>1, <2>3, <2>4, AnswerHolds
<1> QED BY <1>1, <1>2
-----------------------------------------------------------------------------
(* The theorems.                                                           *)

\* For every application, option, request, prefix and number of failed calls of
\* listen(): the connection, the Servers, the leaf, the chain in JS and the
\* answer agree at every moment.
THEOREM EdgeInvariance == EdgeSpec => []EdgeInv
<1>1. EdgeInv /\ [EdgeNext]_allVars => EdgeInv'
  <2> SUFFICES ASSUME EdgeInv, [EdgeNext]_allVars PROVE EdgeInv'
    OBVIOUS
  <2>1. CASE UNCHANGED allVars
    <3>1. UNCHANGED vars /\ UNCHANGED connVars
          /\ UNCHANGED <<app, server, options, request, phase, leaf, ip, answer>>
      BY <2>1 DEF allVars, edgeVars
    <3>2. UNCHANGED <<core, chain, wire, conn, peer>>
      BY <3>1 DEF vars, connVars
    <3>3. PipelineInv' /\ ConnInv'
      BY <3>1, OthersRest DEF EdgeInv
    <3>4. SettingsInv' /\ ServerInv' /\ PhaseInv' /\ PeerInv' /\ IpInv'
      BY <3>1, <3>2 DEF EdgeInv, SettingsInv, ServerInv, PhaseInv, PeerInv, IpInv
    <3>5. LeafInv' /\ AnswerInv'
      BY <3>1, <3>2 DEF EdgeInv, LeafInv, AnswerInv, AllowRight
    <3> QED BY <3>3, <3>4, <3>5 DEF EdgeInv
  <2>2. CASE ListenFails \/ Listen
    BY <2>2, ListenHolds
  <2>3. CASE Receive
    BY <2>3, ReceiveHolds
  <2>4. CASE Preflight \/ TooLarge \/ WrongMethod
    BY <2>4, RefusalHolds
  <2>5. CASE Matched \/ NotFound
    BY <2>5, RoutedHolds
  <2>6. CASE InJs \/ JsAnswers
    BY <2>6, JsHolds
  <2>7. CASE AtRest
    BY <2>1, <2>7 DEF AtRest
  <2> QED BY <2>1, <2>2, <2>3, <2>4, <2>5, <2>6, <2>7 DEF EdgeNext
<1> QED BY <1>1, EdgeInitHolds, PTL DEF EdgeSpec

\* c.req.ip is the balancer's word on the client where the prefix vouches for it,
\* and the socket's otherwise, when no custom header decides; the bytes of the
\* request begin where the prefix ends (read_header, client_ip_country).
THEOREM PrefixExact == EdgeSpec => []PrefixIsExact
<1>1. EdgeInv => PrefixIsExact
  BY ParsedAtLast DEF EdgeInv, IpInv, PrefixIsExact
<1> QED BY EdgeInvariance, <1>1, PTL

\* Encapsulation, for every tree of Servers, with every base, prefix and hook: a
\* handler is called only behind the middleware and hooks declared at or above its
\* place, each once, and none of another place; listen() may have failed before
\* (use, addHook, route, #applyMounts and buildChain).
THEOREM GuardsAlwaysRun == EdgeSpec => []GuardsRun
<1>1. EdgeInv => GuardsRun
  <2> SUFFICES ASSUME EdgeInv PROVE GuardsRun
    OBVIOUS
  <2>1. ASSUME leaf # None, calls > 0
        PROVE  Guarded(app, leaf) /\ index > Cardinality(DOMAIN leaf.middleware)
    <3>1. Guarded(app, leaf) /\ Cardinality(DOMAIN leaf.middleware) \in Nat
          /\ Cardinality(DOMAIN leaf.middleware) <= chain.middleware
      BY <2>1 DEF EdgeInv, LeafInv
    <3>2. chain.middleware \in Nat /\ index \in Nat /\ calls \in Nat
      BY DEF EdgeInv, PipelineInv, PipelineTypes, ChainTypes
    <3>3. index >= chain.middleware + 1
      BY <2>1, <3>2 DEF EdgeInv, PipelineInv, OnionInv, Handler
    <3> QED BY <3>1, <3>2, <3>3
  <2> QED BY <2>1, Zenon DEF GuardsRun, Guarded, Covers
<1> QED BY EdgeInvariance, <1>1, PTL

\* For every route table: a request goes to a route declared for its path and
\* method, 404 means that nothing is served there, 405 that this method is not,
\* and Allow is exactly what is (route_and_dispatch, Routes::allowed_methods).
THEOREM AllowHonest == EdgeSpec => []AllowIsHonest
<1>1. EdgeInv => AllowIsHonest
  <2> SUFFICES ASSUME EdgeInv PROVE AllowIsHonest
    OBVIOUS
  <2>1. leaf # None => Honest(app, leaf, request.method, request.path)
    BY DEF EdgeInv, LeafInv
  <2>2. answer # None => AllowRight(answer)
    BY DEF EdgeInv, AnswerInv
  <2> QED BY <2>1, <2>2, Zenon DEF AllowIsHonest, Honest, AllowRight, Served
<1> QED BY EdgeInvariance, <1>1, PTL

\* For every CORS policy the constructor accepts and every origin: an answer of
\* the edge or of JS is readable by exactly the origins whose preflight is
\* granted, and never to all of them with credentials (cors.rs, apply_cors).
THEOREM GrantedReadable == EdgeSpec => []GrantedIsReadable
<1>1. EdgeInv => GrantedIsReadable
  BY Zenon DEF EdgeInv, AnswerInv, Readable, GrantedIsReadable
<1> QED BY EdgeInvariance, <1>1, PTL
\* What is proved of one request in JS holds for the requests the edge sends
\* there, with the chain that buildChain made of their leaf: one call of the
\* handler, the response latched at respond(), the empty 200 only without an error.
THEOREM AnsweredByJs == EdgeSpec => [](HandlerOnce /\ ResponseIsLatched /\ NoEmptyFailure)
<1>1. EdgeInv => HandlerOnce /\ ResponseIsLatched /\ NoEmptyFailure
  BY DEF EdgeInv, PipelineInv, OnionInv, LatchInv, Finalized, HandlerOnce, ResponseIsLatched,
         NoEmptyFailure
<1> QED BY EdgeInvariance, <1>1, PTL
=============================================================================
