-------------------------------- MODULE Body --------------------------------
(***************************************************************************)
(* The body of one request on its way to JS, and the body of its response  *)
(* on its way back: the admission in handle() and dispatch(), buffer_body  *)
(* and read_body_task in src/src/server.rs, BodyIo and ChannelBody in      *)
(* src/src/stream.rs, and the readers and the pump in src/js/context.ts.   *)
(*                                                                         *)
(* A request is a record: where the frames end that the client sends; how  *)
(* they are framed ("length" and "chunked", or "bare": an HTTP/2 request   *)
(* without Content-Length); how the route takes the body ("stream", or     *)
(* buffered for a "schema" or for a cached "query"); the coding, with the  *)
(* decoded size; and whether it is an auto-HEAD.                           *)
(***************************************************************************)
EXTENDS Naturals, Sequences

CONSTANTS
  Requests,     \* the requests
  BodyLimit,    \* bodyLimit, or None
  ReadTimeout,  \* is bodyReadTimeout on?
  MaxChunks,    \* bound on the chunks of a streamed response
  None          \* "nothing"

ASSUME RequestsAssumption ==
  \A r \in Requests :
    /\ r.ends \in Seq(Nat \ {0})
    /\ \A i, j \in 1 .. Len(r.ends) : i < j => r.ends[i] < r.ends[j]
    /\ r.framing \in {"length", "chunked", "bare"}
    /\ r.route \in {"stream", "schema", "query"}
    /\ r.coding \in {"identity", "gzip", "corrupt", "unknown"}
    /\ r.decoded \in Nat /\ r.head \in BOOLEAN
ASSUME LimitAssumption ==
  BodyLimit \in Nat \union {None} /\ ReadTimeout \in BOOLEAN /\ MaxChunks \in Nat

BODY_CHANNEL_CAP == 1

VARIABLES
  req,       \* the request
  peer,      \* the client: "on" or "gone"
  off,       \* how many frames were taken off the socket
  total,     \* their bytes
  task,      \* who reads the socket: "new" (nobody yet), dispatch() "buffering",
             \* read_body_task "reading" or "sending", or nobody any more: "over"
  hand,      \* the message read_body_task is about to send
  chan,      \* the request body channel
  rx,        \* does BodyIo, with the receiver, still exist?
  js,        \* the handler: "none" (not called), "idle", "collecting" or "streaming";
             \* "parsed", "whole", "failed" or "left" when it is done with the body
  got,       \* the frames JS was given, by number
  count,     \* their bytes: what collectRaw counts
  verdict,   \* the status with which the body was refused, by Rust or in JS
  pump,      \* startResponsePump: "none", "producing", "writing" or "over"
  made,      \* how many chunks the response has so far
  rchan,     \* the response body channel
  sink,      \* ChannelBody: "none", "open", "ended" (seen by the client) or "gone"
  received   \* the chunks that reached the client

inVars == <<off, total, task, hand, chan>>
jsVars == <<rx, js, got, count, verdict>>
outVars == <<pump, made, rchan, sink, received>>
vars == <<req, peer, inVars, jsVars, outVars>>

Exceeds(n) == BodyLimit # None /\ n > BodyLimit
Frames == Len(req.ends)
AllFrames == [i \in 1 .. Frames |-> i]

\* The bytes of the first i frames, and of the successive frames s.
End(i) == IF i = 0 THEN 0 ELSE req.ends[i]
Bytes(s) == IF s = <<>> THEN 0 ELSE End(s[Len(s)]) - End(s[1] - 1)

\* request_has_body: Content-Length above zero, or Transfer-Encoding.
HasBody == req.framing = "chunked" \/ (req.framing = "length" /\ Frames > 0)

\* compress::decode in Rust and decompress() in JS end alike: with a status, or
\* with None and the decoded bytes.
DecodeStatus ==
  CASE req.coding = "identity" -> None
    [] req.coding = "unknown" -> 415
    [] req.coding = "corrupt" -> 400
    [] OTHER -> IF Exceeds(req.decoded) THEN 413 ELSE None

\* BodyMsg: data, or why the stream was cut.
Data(s) == [tag |-> "data", data |-> s]
Cut(status) == [tag |-> "cut", status |-> status]

InitWith(start) ==
  /\ peer = "on"
  /\ off = 0 /\ total = 0 /\ task = start /\ hand = None /\ chan = <<>>
  /\ rx = TRUE /\ js = "none" /\ got = <<>> /\ count = 0 /\ verdict = None
  /\ pump = "none" /\ made = 0 /\ rchan = <<>> /\ sink = "none" /\ received = <<>>

Init == req \in Requests /\ InitWith("new")

-----------------------------------------------------------------------------
(* Rust: from the request head to the handler.                             *)

TooLong == req.framing = "length" /\ Exceeds(End(Frames))
Buffers == HasBody /\ req.route \in {"schema", "query"}

\* Rust answers on its own; the body is dropped unread.
Refuse(status) ==
  /\ verdict' = status
  /\ task' = "over"
  /\ UNCHANGED <<rx, js, got, count>>

\* The declared Content-Length is above the limit.
RefuseEarly ==
  /\ task = "new" /\ TooLong
  /\ Refuse(413)
  /\ UNCHANGED <<req, peer, off, total, hand, chan, outVars>>

\* The body is read before JS hears of the request.
StartBuffering ==
  /\ task = "new" /\ ~TooLong /\ Buffers
  /\ task' = "buffering"
  /\ UNCHANGED <<req, peer, off, total, hand, chan, jsVars, outVars>>

\* The handler is called at once, next to read_body_task if there is a body.
StartHandler ==
  /\ task = "new" /\ ~TooLong /\ ~Buffers
  /\ task' = IF HasBody THEN "reading" ELSE "over"
  /\ js' = "idle"
  /\ UNCHANGED <<req, peer, off, total, hand, chan, rx, got, count, verdict, outVars>>

\* A frame comes off the socket; it may have been sent by a client that is gone.
Frame ==
  /\ off < Frames
  /\ off' = off + 1
  /\ total' = total + Bytes(<<off'>>)

\* buffer_body: one more frame.
BufferFrame ==
  /\ task = "buffering" /\ Frame
  /\ IF Exceeds(total') THEN Refuse(413) ELSE UNCHANGED <<task, jsVars>>
  /\ UNCHANGED <<req, peer, hand, chan, outVars>>

\* buffer_body is through.  For a schema the body is decoded; JS is given the raw
\* bytes, in one chunk, on a channel that is closed behind it.
BufferEnds ==
  /\ task = "buffering" /\ off = Frames
  /\ IF req.route = "schema" /\ DecodeStatus # None
     THEN Refuse(DecodeStatus) /\ UNCHANGED chan
     ELSE /\ chan' = <<Data(AllFrames)>>
          /\ task' = "over"
          /\ js' = "idle"
          /\ UNCHANGED <<rx, got, count, verdict>>
  /\ UNCHANGED <<req, peer, off, total, hand, outVars>>

\* buffer_body fails: the client is silent for too long, or gone (then hyper may
\* also drop dispatch(), and the answer is not sent: nobody would get it).
BufferFails(status) ==
  /\ task = "buffering"
  /\ Refuse(status)
  /\ UNCHANGED <<req, peer, off, total, hand, chan, outVars>>

-----------------------------------------------------------------------------
(* read_body_task.                                                         *)

TaskSends(m) == task' = "sending" /\ hand' = m

\* One more frame: it is counted before it is passed on.
ReadFrame ==
  /\ task = "reading" /\ Frame
  /\ TaskSends(IF Exceeds(total') THEN Cut(413) ELSE Data(<<off'>>))
  /\ UNCHANGED <<req, peer, chan, jsVars, outVars>>

\* The body has ended: the sender is dropped.
ReadEnds ==
  /\ task = "reading" /\ off = Frames
  /\ task' = "over"
  /\ UNCHANGED <<req, peer, off, total, hand, chan, jsVars, outVars>>

\* Mutant of ReadFails: an error looks like the end of the body.
ReadFailsQuietly(status) ==
  /\ task = "reading"
  /\ task' = "over"
  /\ UNCHANGED <<req, peer, off, total, hand, chan, jsVars, outVars>>

\* The client is silent for too long, or gone.
ReadFails(status) ==
  /\ task = "reading"
  /\ TaskSends(Cut(status))
  /\ UNCHANGED <<req, peer, off, total, chan, jsVars, outVars>>

\* Mutant of FrameTimeout: the timer is not set.
FrameTimeoutMissing == FALSE

\* bodyReadTimeout covers the wait for one frame.
FrameTimeout ==
  /\ ReadTimeout
  /\ BufferFails(408) \/ ReadFails(408)

\* The connection fails part-way.
FrameError ==
  /\ peer = "gone"
  /\ BufferFails(400) \/ ReadFails(400)

\* The channel takes the message; after a cut nothing more is read.
SendAccepted ==
  /\ task = "sending" /\ rx /\ Len(chan) < BODY_CHANNEL_CAP
  /\ chan' = Append(chan, hand)
  /\ hand' = None
  /\ task' = IF hand.tag = "data" THEN "reading" ELSE "over"
  /\ UNCHANGED <<req, peer, off, total, jsVars, outVars>>

\* The receiver is gone.
SendFails ==
  /\ task = "sending" /\ ~rx
  /\ task' = "over"
  /\ hand' = None
  /\ UNCHANGED <<req, peer, off, total, chan, jsVars, outVars>>

-----------------------------------------------------------------------------
(* JS: the request body.                                                   *)

\* #useBody, which lets the body be used once, and the first read: by
\* arrayBuffer(), text(), json()... ("collecting") or c.req.stream.
UseBody(how) ==
  /\ js = "idle"
  /\ js' = how
  /\ UNCHANGED <<req, peer, inVars, rx, got, count, verdict, outVars>>

Fail(status) == js' = "failed" /\ verdict' = status

\* BodyIo.read has a message.  collectRaw counts once more.
Receive ==
  /\ js \in {"collecting", "streaming"} /\ chan # <<>>
  /\ chan' = Tail(chan)
  /\ IF Head(chan).tag = "cut"
     THEN Fail(Head(chan).status) /\ UNCHANGED <<got, count>>
     ELSE /\ got' = got \o Head(chan).data
          /\ count' = count + Bytes(Head(chan).data)
          /\ IF js = "collecting" /\ Exceeds(count')
             THEN Fail(413)
             ELSE UNCHANGED <<js, verdict>>
  /\ UNCHANGED <<req, peer, off, total, task, hand, rx, outVars>>

\* BodyIo.read finds the channel closed (or has none) and returns null: a stream
\* is closed, collected bytes are decompressed.
ReceiveEnd ==
  /\ js \in {"collecting", "streaming"} /\ chan = <<>> /\ task = "over"
  /\ IF js = "streaming"
     THEN js' = "whole" /\ UNCHANGED verdict
     ELSE IF DecodeStatus = None
          THEN js' = "parsed" /\ UNCHANGED verdict
          ELSE Fail(DecodeStatus)
  /\ UNCHANGED <<req, peer, inVars, rx, got, count, outVars>>

\* The handler does not read the body, or cancels the stream.
LeaveBody ==
  /\ js \in {"idle", "streaming"}
  /\ js' = "left"
  /\ UNCHANGED <<req, peer, inVars, rx, got, count, verdict, outVars>>

-----------------------------------------------------------------------------
(* The response body.                                                      *)

\* The response is sent in one piece; an unused writer is dropped.
RespondFull ==
  /\ js # "none" /\ pump = "none"
  /\ pump' = "over"
  /\ UNCHANGED <<req, peer, inVars, jsVars, made, rchan, sink, received>>

\* The response is streamed: the pump starts, and build_response hands the
\* receiver to ChannelBody, or drops it for HEAD or with the connection.
RespondStream ==
  /\ js # "none" /\ pump = "none"
  /\ pump' = "producing"
  /\ sink' = IF req.head \/ peer = "gone" THEN "gone" ELSE "open"
  /\ UNCHANGED <<req, peer, inVars, jsVars, made, rchan, received>>

\* The source yields a chunk, which the pump writes.
Produce ==
  /\ pump = "producing" /\ made < MaxChunks
  /\ made' = made + 1
  /\ pump' = "writing"
  /\ UNCHANGED <<req, peer, inVars, jsVars, rchan, sink, received>>

\* The source ends or throws: endWrite().
SourceEnds ==
  /\ pump = "producing"
  /\ pump' = "over"
  /\ UNCHANGED <<req, peer, inVars, jsVars, made, rchan, sink, received>>

\* Mutant of WriteAccepted: a chunk that finds the channel full is dropped.
WriteAcceptedOrDropped ==
  /\ pump = "writing" /\ sink # "gone"
  /\ rchan' = IF Len(rchan) < BODY_CHANNEL_CAP THEN Append(rchan, made) ELSE rchan
  /\ pump' = "producing"
  /\ UNCHANGED <<req, peer, inVars, jsVars, made, sink, received>>

\* write() resolves once the channel has the chunk.
WriteAccepted ==
  /\ pump = "writing" /\ sink # "gone" /\ Len(rchan) < BODY_CHANNEL_CAP
  /\ rchan' = Append(rchan, made)
  /\ pump' = "producing"
  /\ UNCHANGED <<req, peer, inVars, jsVars, made, sink, received>>

\* write() fails because the receiver is gone: the pump ends.
WriteFails ==
  /\ pump = "writing" /\ sink = "gone"
  /\ pump' = "over"
  /\ UNCHANGED <<req, peer, inVars, jsVars, made, rchan, sink, received>>

\* ChannelBody::poll_frame has a chunk.
PollChunk ==
  /\ sink = "open" /\ rchan # <<>>
  /\ received' = Append(received, Head(rchan))
  /\ rchan' = Tail(rchan)
  /\ UNCHANGED <<req, peer, inVars, jsVars, pump, made, sink>>

\* ChannelBody::poll_frame finds the channel closed: the body is over.
PollEnd ==
  /\ sink = "open" /\ rchan = <<>> /\ pump = "over"
  /\ sink' = "ended"
  /\ UNCHANGED <<req, peer, inVars, jsVars, pump, made, rchan, received>>

-----------------------------------------------------------------------------
\* The client goes away; hyper drops the response body.
ClientLeaves ==
  /\ peer = "on"
  /\ peer' = "gone"
  /\ sink' = IF sink = "open" THEN "gone" ELSE sink
  /\ UNCHANGED <<req, inVars, jsVars, pump, made, rchan, received>>

\* Nobody holds BodyIo any more.
Release ==
  /\ rx /\ js \in {"parsed", "whole", "failed", "left"} /\ pump = "over"
  /\ rx' = FALSE
  /\ UNCHANGED <<req, peer, inVars, js, got, count, verdict, outVars>>

\* Nothing is left to do.
Finished ==
  /\ task = "over" /\ (js = "none" \/ ~rx)
  /\ UNCHANGED vars

RustStep ==
  \/ RefuseEarly \/ StartBuffering \/ StartHandler
  \/ BufferFrame \/ BufferEnds
  \/ ReadFrame \/ ReadEnds \/ FrameTimeout \/ FrameError
  \/ SendAccepted \/ SendFails
JsStep ==
  \/ \E how \in {"collecting", "streaming"} : UseBody(how)
  \/ Receive \/ ReceiveEnd \/ LeaveBody \/ Release
ResponseStep ==
  \/ RespondFull \/ RespondStream \/ Produce \/ SourceEnds
  \/ WriteAccepted \/ WriteFails \/ PollChunk \/ PollEnd

BodyStep == RustStep \/ JsStep \/ ResponseStep \/ ClientLeaves

Next == BodyStep \/ Finished

Spec == Init /\ [][Next]_vars

\* tokio runs its timers and tasks, and napi resolves the promises they settle.
Fairness ==
  WF_vars(FrameTimeout) /\ WF_vars(ReadEnds) /\ WF_vars(SendFails) /\ WF_vars(WriteFails)

-----------------------------------------------------------------------------
(* Properties.                                                             *)

\* A cut is never taken for the end, and the limit cannot be passed (server.rs
\* 1187-1235, 1255-1291, context.ts 225-261): a body that JS believes complete
\* is every frame of the client in order, whether limit, timeout, disconnect or
\* a slow reader interfere; JS is never given more than bodyLimit bytes, and
\* what it collects decodes to no more than that.
BodyIsWhole ==
  /\ js \in {"whole", "parsed"} => got = AllFrames
  /\ ~Exceeds(count)
  /\ js = "parsed" => DecodeStatus = None

\* A response that the client sees end holds every chunk that its source made, in
\* order (stream.rs 152-169, 255-275, context.ts 280-304).
ResponseIsWhole == sink = "ended" => received = [i \in 1 .. made |-> i]

\* With bodyReadTimeout, a reader task whose BodyIo is gone ends, whatever the
\* client does; a write to a client that has left fails instead of waiting.
BodyTasksEnd ==
  /\ (ReadTimeout /\ ~rx) ~> task = "over"
  /\ (pump = "writing" /\ sink = "gone") ~> pump = "over"

\* "c.req.stream always yields the body exactly as the client sent it" (README.md).
StreamIsExact == js = "whole" => got = AllFrames
=============================================================================
