--------------------------- MODULE ProxyProtocol ---------------------------
(***************************************************************************)
(* The PROXY prefix of a connection: src/src/proxy_protocol.rs and its     *)
(* use at the head of serve_conn in src/src/server.rs.                     *)
(*                                                                         *)
(* The bytes the client sends are a record that says where the parts of    *)
(* the prefix end; the state counts bytes, with the numbers of the code.   *)
(* TCP delivers them in pieces of any size: a read takes what has arrived. *)
(***************************************************************************)
EXTENDS Naturals

CONSTANTS
  Cuts,             \* bound: the offsets at which a read may end, besides a full chunk
  HandshakeTimeout  \* handshake_timeout is set

ASSUME PrefixAssumption == Cuts \subseteq Nat /\ HandshakeTimeout \in BOOLEAN

VARIABLES
  wire,   \* what the client sends, see Wires
  got,    \* bytes taken off the socket
  conn,   \* "reading", "open", "refused" (no or a bad prefix), "cut" (EOF, silence);
          \* "direct" when proxyProtocol is off
  peer,   \* peer_ip
  rest,   \* PrefixedIo.prefix: the bytes from rest.from up to rest.to
  pos,    \* PrefixedIo.pos
  handed  \* history: bytes handed to TLS or HTTP

connVars == <<wire, got, conn, peer, rest, pos, handed>>

SIG == 12       \* SIG_V2, and the first read_at_least
HEAD_V2 == 16
MAX_V1 == 107
CHUNK == 256

\* sig: which signature the bytes begin with.  v1: the offset of the first CRLF
\* (total if there is none) and the words after PROXY; v2: the fields of the header.
\* total: all the bytes, the ones behind the prefix included.  An address of v1 is
\* text that may be none; the bytes of a v2 block always are an address.
Signatures == {"v1", "v2", "other"}
V1Words == {"TCP", "UNKNOWN", "other"}
Addresses == {"client", "absent"}
Nibble == 0 .. 15
U16 == 0 .. 2^16 - 1
WireFields ==
  [sig : Signatures, crlf : Nat, word : V1Words, addr : Addresses, version : Nibble,
   proxy : BOOLEAN, family : Nibble, len : U16, total : Nat]
Wires == {w \in WireFields : w.sig = "v2" => w.addr = "client"}

Min2(a, b) == IF a <= b THEN a ELSE b

-----------------------------------------------------------------------------
(* read_header on the first g bytes of w: it wants more of them, refuses   *)
(* them, or accepts a prefix of `end` bytes.                               *)

More == [verdict |-> "more"]
Refused == [verdict |-> "refused"]
Accepted(end, addr) == [verdict |-> "open", end |-> end, addr |-> addr]

\* Mutant of parse_v1: the leftover begins at the CRLF.
ParseV1KeepsCrlf(w, g) ==
  IF w.crlf + 2 <= g
  THEN CASE w.word = "TCP" -> Accepted(w.crlf, w.addr)
         [] w.word = "UNKNOWN" -> Accepted(w.crlf, "absent")
         [] OTHER -> Refused
  ELSE IF g > MAX_V1 THEN Refused ELSE More

\* The line up to the first CRLF, which is looked for in all that was read; the
\* length is tested only while there is none.
parse_v1(w, g) ==
  IF w.crlf + 2 <= g
  THEN CASE w.word = "TCP" -> Accepted(w.crlf + 2, w.addr)
         [] w.word = "UNKNOWN" -> Accepted(w.crlf + 2, "absent")
         [] OTHER -> Refused
  ELSE IF g > MAX_V1 THEN Refused ELSE More

has_address(w) == \/ w.family = 1 /\ w.len >= 12
                  \/ w.family = 2 /\ w.len >= 36

\* The version, then the address block, from which an address is taken if the
\* command is PROXY and the family is known and its block complete.
parse_v2(w, g) ==
  IF g < HEAD_V2 THEN More
  ELSE IF w.version # 2 THEN Refused
  ELSE IF g < HEAD_V2 + w.len THEN More
  ELSE Accepted(HEAD_V2 + w.len,
                IF w.proxy /\ has_address(w) THEN w.addr ELSE "absent")

read_header(w, g) ==
  CASE g < SIG -> More
    [] g >= SIG /\ w.sig = "v2" -> parse_v2(w, g)
    [] g >= SIG /\ w.sig = "v1" -> parse_v1(w, g)
    [] g >= SIG /\ w.sig = "other" -> Refused

-----------------------------------------------------------------------------
\* A connection of client w, with proxyProtocol on or off.
ConnInit(w, proxied) ==
  /\ wire = w /\ got = 0 /\ peer = "socket" /\ pos = 0 /\ handed = 0
  /\ rest = [from |-> 0, to |-> 0]
  /\ conn = IF proxied THEN "reading" ELSE "direct"

\* How many bytes one read of at most `room` bytes may take at offset `at`, if it
\* ends before `to`.
Takes(at, room, to) ==
  {n \in 1 .. Min2(room, to - at) : at + n \in Cuts \union {to} \/ n = room}

\* One read of read_at_least, and what read_header makes of it.  The bytes behind
\* the prefix become the leftover of PrefixedIo.
ReadPrefix(n) ==
  LET h == read_header(wire, got + n) IN
  /\ conn = "reading"
  /\ got' = got + n
  /\ conn' = IF h.verdict = "more" THEN conn ELSE h.verdict
  /\ IF h.verdict = "open"
     THEN /\ rest' = [from |-> h.end, to |-> got + n]
          /\ peer' = IF h.addr = "absent" THEN peer ELSE h.addr
     ELSE UNCHANGED <<rest, peer>>
  /\ UNCHANGED <<wire, pos, handed>>

\* The client closed, or said nothing for handshake_timeout: the connection is
\* dropped.
PrefixCut ==
  /\ conn = "reading"
  /\ got = wire.total \/ HandshakeTimeout
  /\ conn' = "cut"
  /\ UNCHANGED <<wire, got, peer, rest, pos, handed>>

\* The offset of the byte that PrefixedIo hands out next.
Cursor == IF rest.from + pos < rest.to THEN rest.from + pos ELSE got

\* poll_read of PrefixedIo: first the leftover, then the socket.
poll_read(n) ==
  /\ conn \in {"open", "direct"}
  /\ handed' = handed + n
  /\ IF rest.from + pos < rest.to THEN pos' = pos + n /\ UNCHANGED got
                                  ELSE got' = got + n /\ UNCHANGED pos
  /\ UNCHANGED <<wire, conn, peer, rest>>

ConnStep ==
  \/ \E n \in Takes(got, CHUNK, wire.total) : ReadPrefix(n)
  \/ PrefixCut
  \/ \E n \in Takes(Cursor, CHUNK, IF Cursor < got THEN rest.to ELSE wire.total) :
       poll_read(n)

\* One connection by itself; Edge puts the request behind it.
ConnSpec ==
  /\ \E w \in Wires, proxied \in BOOLEAN : ConnInit(w, proxied)
  /\ [][ConnStep]_connVars

-----------------------------------------------------------------------------
(* What the prefix is, for the property.                                   *)

\* The bytes begin with a complete prefix.
Genuine(w) ==
  \/ w.sig = "v1" /\ w.crlf < w.total /\ w.word # "other"
  \/ w.sig = "v2" /\ w.version = 2

\* Where the data begins.
DataAt(w) == IF w.sig = "v1" THEN w.crlf + 2 ELSE HEAD_V2 + w.len

\* The client address the balancer vouches for.
Vouched(w) ==
  \/ w.sig = "v1" /\ w.word = "TCP" /\ w.addr = "client"
  \/ /\ w.sig = "v2" /\ w.proxy
     /\ \E block \in {<<1, 12>>, <<2, 36>>} : w.family = block[1] /\ w.len >= block[2]

\* However TCP cuts the bytes (proxy_protocol.rs 97-208, 48-66): a connection is
\* let in only with a complete prefix, and then TLS or HTTP gets every byte behind
\* it, none twice and none of the prefix, and the balancer's word on the address;
\* a prefix within the limits is never refused.
PrefixIsParsed ==
  /\ conn = "open" =>
       /\ Genuine(wire)
       /\ Cursor = DataAt(wire) + handed
       /\ peer = IF Vouched(wire) THEN "client" ELSE "socket"
  /\ conn = "refused" =>
       ~Genuine(wire) \/ (wire.sig = "v1" /\ DataAt(wire) > MAX_V1)
=============================================================================
