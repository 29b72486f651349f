---------------------------- MODULE BodyIoProofs ----------------------------
(***************************************************************************)
(* Proofs about BodyIo: for every request, limit and form, and whatever    *)
(* the client, the timers and the readers do.                              *)
(***************************************************************************)
EXTENDS BodyIo, SequenceTheorems, FiniteSetTheorems, TLAPS

UpTo(k) == [i \in 1 .. k |-> i]

-----------------------------------------------------------------------------
(* The regular body.                                                       *)

BodyTypes ==
  /\ req \in Requests
  /\ off \in 0 .. Frames /\ total = End(off)
  /\ task \in {"new", "buffering", "reading", "sending", "over"}
  /\ js \in {"none", "idle", "collecting", "streaming", "parsed", "whole", "failed", "left"}

\* Data d continues a body of which g frames have passed, within the limit.
Continues(d, g) ==
  /\ d \in Seq(Nat) /\ g + Len(d) <= Frames
  /\ d = [i \in 1 .. Len(d) |-> g + i]
  /\ ~Exceeds(End(g + Len(d)))

\* JS has the first frames of the body, in order, counted and within the limit.
GotInv ==
  /\ got \in Seq(Nat) /\ got = UpTo(Len(got)) /\ Len(got) <= Frames
  /\ count = End(Len(got)) /\ ~Exceeds(count)

\* The channel holds at most one message; data in it continues what JS has.
ChanInv ==
  \/ chan = <<>>
  \/ \E m : /\ chan = <<m>> /\ m.tag \in {"data", "cut"}
            /\ m.tag = "data" => Continues(m.data, Len(got))

\* The frames in the channel; a cut in the channel.
Carried == IF chan # <<>> /\ Head(chan).tag = "data" THEN Len(Head(chan).data) ELSE 0
CutWaits == chan # <<>> /\ Head(chan).tag = "cut"

\* No frame is between the socket and JS but the ones in the channel and in the
\* hand of the reader; a reader that is over without a cut has passed on all.
ReaderInv ==
  /\ task = "new" => off = 0
  /\ task \in {"new", "buffering"} => js = "none" /\ ~Exceeds(total)
  /\ js = "none" => got = <<>> /\ chan = <<>> /\ task \notin {"reading", "sending"}
  /\ task = "reading" => Len(got) + Carried = off /\ ~CutWaits
  /\ task = "sending" => /\ ~CutWaits
                         /\ \/ hand.tag = "cut"
                            \/ /\ hand = Data(<<off>>) /\ ~Exceeds(End(off))
                               /\ Len(got) + Carried + 1 = off
  /\ task = "over" /\ js \in {"idle", "collecting", "streaming"} =>
       CutWaits \/ Len(got) + Carried = Frames \/ req.framing = "bare"

\* A handler that has the body, and a BodyIo that nobody holds.
DoneInv ==
  /\ js \in {"whole", "parsed"} =>
       task = "over" /\ (Len(got) = Frames \/ req.framing = "bare")
  /\ js = "parsed" => DecodeStatus = None
  /\ ~rx => js \in {"parsed", "whole", "failed", "left"}

BodyInv == BodyTypes /\ GotInv /\ ChanInv /\ ReaderInv /\ DoneInv

-----------------------------------------------------------------------------

LEMMA EndFacts ==
  ASSUME req \in Requests
  PROVE  /\ Frames \in Nat /\ End(0) = 0 /\ ~Exceeds(0)
         /\ \A i \in 0 .. Frames : End(i) \in Nat
<1>1. req.ends \in Seq(Nat \ {0})
  BY RequestsAssumption
<1>2. Frames \in Nat /\ \A i \in 1 .. Frames : req.ends[i] \in Nat
  BY <1>1 DEF Frames
<1>3. \A i \in 0 .. Frames : i # 0 => i \in 1 .. Frames
  BY <1>2
<1>4. ~Exceeds(0)
  BY LimitAssumption DEF Exceeds
<1> QED BY <1>2, <1>3, <1>4 DEF End

LEMMA UpToSeq ==
  ASSUME NEW k \in Nat
  PROVE  UpTo(k) \in Seq(Nat) /\ Len(UpTo(k)) = k /\ \A i \in 1 .. k : UpTo(k)[i] = i
BY DEF UpTo

\* The bytes of data that continues a body.
LEMMA BytesContinue ==
  ASSUME req \in Requests, NEW g \in Nat, NEW d, Continues(d, g)
  PROVE  End(g) + Bytes(d) = End(g + Len(d))
<1>0. Len(d) \in Nat /\ g + Len(d) <= Frames /\ Frames \in Nat
  BY EndFacts DEF Continues
<1>1. End(g) \in Nat /\ End(g + Len(d)) \in Nat
  BY <1>0, EndFacts
<1>2. CASE d = <<>>
  BY <1>1, <1>2 DEF Bytes
<1>3. CASE d # <<>>
  <2>1. Len(d) >= 1
    BY <1>3 DEF Continues
  <2>2. d[1] = g + 1 /\ d[Len(d)] = g + Len(d)
    BY <1>0, <2>1 DEF Continues
  <2>3. Bytes(d) = End(g + Len(d)) - End(g)
    BY <1>3, <2>2 DEF Bytes
  <2> QED BY <1>1, <2>3
<1> QED BY <1>2, <1>3

\* What has been given and what continues it make a longer beginning.
LEMMA Continued ==
  ASSUME NEW g \in Seq(Nat), g = UpTo(Len(g)), NEW d, Continues(d, Len(g))
  PROVE  /\ g \o d \in Seq(Nat) /\ Len(g \o d) = Len(g) + Len(d)
         /\ g \o d = UpTo(Len(g) + Len(d))
<1>1. d \in Seq(Nat) /\ d = [i \in 1 .. Len(d) |-> Len(g) + i]
  BY DEF Continues
<1>2. g \o d \in Seq(Nat) /\ Len(g \o d) = Len(g) + Len(d)
  BY <1>1
<1>3. \A i \in 1 .. Len(g) + Len(d) : (g \o d)[i] = i
  BY <1>1 DEF UpTo
<1>4. Len(g) + Len(d) \in Nat
  BY <1>1
<1>5. UpTo(Len(g) + Len(d)) \in Seq(Nat) /\ Len(UpTo(Len(g) + Len(d))) = Len(g) + Len(d)
      /\ \A i \in 1 .. Len(g) + Len(d) : UpTo(Len(g) + Len(d))[i] = i
  BY <1>4, UpToSeq
<1>6. g \o d = UpTo(Len(g) + Len(d))
  BY <1>2, <1>3, <1>5, SeqEqual
<1> QED BY <1>2, <1>6

-----------------------------------------------------------------------------

BodyStepOrNot == BodyStep \/ UNCHANGED vars

LEMMA BodyInitHolds ==
  ASSUME NEW start \in {"new", "over"}, req \in Requests, InitWith(start)
  PROVE  BodyInv
<1>1. BodyTypes
  BY EndFacts DEF InitWith, BodyTypes
<1>2. GotInv
  BY EndFacts DEF InitWith, GotInv, UpTo
<1>3. ChanInv /\ ReaderInv /\ DoneInv
  BY EndFacts, <1>1 DEF InitWith, ChanInv, ReaderInv, DoneInv, BodyTypes
<1> QED BY <1>1, <1>2, <1>3 DEF BodyInv

LEMMA BodyTypesStep == BodyInv /\ BodyStepOrNot => BodyTypes'
<1> SUFFICES ASSUME BodyInv, BodyStepOrNot PROVE BodyTypes'
  OBVIOUS
<1>0. BodyTypes /\ Frames \in Nat /\ (\A i \in 0 .. Frames : End(i) \in Nat)
  BY EndFacts DEF BodyInv, BodyTypes
<1>u. req' = req
  BY DEF BodyStepOrNot, vars, BodyStep, RustStep, JsStep, ResponseStep, RefuseEarly,
         StartBuffering, StartHandler, BufferFrame, BufferEnds, ReadFrame, ReadEnds, FrameTimeout,
         FrameError, BufferFails, ReadFails, SendAccepted, SendFails, UseBody, Receive, ReceiveEnd,
         LeaveBody, Release, RespondFull, RespondStream, Produce, SourceEnds, WriteAccepted,
         WriteFails, PollChunk, PollEnd, ClientLeaves
<1>e. Frames' = Frames /\ \A i : End(i)' = End(i)
  BY <1>u DEF Frames, End
<1>1. ASSUME Frame PROVE off' \in 0 .. Frames /\ total' = End(off')
  <2>1. off \in Nat /\ off < Frames /\ off' = off + 1 /\ off' \in 0 .. Frames
    BY <1>0, <1>1 DEF Frame, BodyTypes
  <2>2. total' = total + (End(off') - End(off))
    BY <1>1, <2>1 DEF Frame, Bytes
  <2> QED BY <1>0, <2>1, <2>2 DEF BodyTypes
<1>2. /\ off' \in 0 .. Frames /\ total' = End(off')
  <2>1. Frame \/ UNCHANGED <<off, total>>
    BY DEF BodyStepOrNot, vars, BodyStep, RustStep, JsStep, ResponseStep, RefuseEarly, inVars,
         StartBuffering, StartHandler, BufferFrame, BufferEnds, ReadFrame, ReadEnds, FrameTimeout,
         FrameError, BufferFails, ReadFails, SendAccepted, SendFails, UseBody, Receive, ReceiveEnd,
         LeaveBody, Release, RespondFull, RespondStream, Produce, SourceEnds, WriteAccepted,
         WriteFails, PollChunk, PollEnd, ClientLeaves
  <2> QED BY <1>0, <1>1, <2>1 DEF BodyTypes
<1>3. /\ task' \in {"new", "buffering", "reading", "sending", "over"}
      /\ js' \in {"none", "idle", "collecting", "streaming", "parsed", "whole", "failed", "left"}
  BY <1>0 DEF BodyTypes, BodyStepOrNot, vars, BodyStep, RustStep, JsStep, ResponseStep, RefuseEarly,
         inVars, jsVars, Refuse, Fail, TaskSends,
         StartBuffering, StartHandler, BufferFrame, BufferEnds, ReadFrame, ReadEnds, FrameTimeout,
         FrameError, BufferFails, ReadFails, SendAccepted, SendFails, UseBody, Receive, ReceiveEnd,
         LeaveBody, Release, RespondFull, RespondStream, Produce, SourceEnds, WriteAccepted,
         WriteFails, PollChunk, PollEnd, ClientLeaves
<1> QED BY <1>0, <1>u, <1>e, <1>2, <1>3 DEF BodyTypes

\* What the other parts of the invariant need of the constants of a step.
LEMMA ReqKept ==
  ASSUME BodyStepOrNot
  PROVE  /\ req' = req /\ Frames' = Frames /\ DecodeStatus' = DecodeStatus
         /\ \A i : End(i)' = End(i) /\ \A d, g : Continues(d, g)' = Continues(d, g)
<1>u. req' = req
  BY DEF BodyStepOrNot, vars, BodyStep, RustStep, JsStep, ResponseStep, RefuseEarly,
         StartBuffering, StartHandler, BufferFrame, BufferEnds, ReadFrame, ReadEnds, FrameTimeout,
         FrameError, BufferFails, ReadFails, SendAccepted, SendFails, UseBody, Receive, ReceiveEnd,
         LeaveBody, Release, RespondFull, RespondStream, Produce, SourceEnds, WriteAccepted,
         WriteFails, PollChunk, PollEnd, ClientLeaves
<1> QED BY <1>u DEF Frames, End, DecodeStatus, Continues, Exceeds

\* A step that touches neither the channel nor what JS has.
Apart == UNCHANGED <<got, count, chan>>

LEMMA ApartKeeps ==
  ASSUME BodyInv, BodyStepOrNot, Apart
  PROVE  GotInv' /\ ChanInv' /\ Carried' = Carried /\ CutWaits' = CutWaits
<1> USE ReqKept
<1>1. GotInv'
  BY DEF BodyInv, GotInv, Apart, Exceeds
<1>2. ChanInv'
  BY DEF BodyInv, ChanInv, Apart
<1>3. Carried' = Carried /\ CutWaits' = CutWaits
  BY DEF Carried, CutWaits, Apart
<1> QED BY <1>1, <1>2, <1>3

\* The message that the channel gives to JS.
LEMMA ReceiveStep ==
  ASSUME BodyInv, Receive
  PROVE  /\ GotInv' /\ ChanInv' /\ Carried' = 0 /\ ~CutWaits'
         /\ js' = "failed" \/ (~CutWaits /\ js' = js /\ Len(got') = Len(got) + Carried)
         /\ ~CutWaits => Len(got') = Len(got) + Carried
<1>0. BodyStepOrNot
  BY DEF BodyStepOrNot, BodyStep, JsStep
<1>1. PICK m : /\ chan = <<m>> /\ m.tag \in {"data", "cut"}
               /\ m.tag = "data" => Continues(m.data, Len(got))
  BY DEF BodyInv, ChanInv, Receive
<1>2. chan' = <<>> /\ Head(chan) = m /\ chan # <<>>
  BY <1>1 DEF Receive
<1>3. Carried' = 0 /\ ~CutWaits' /\ ChanInv'
  BY <1>2 DEF Carried, CutWaits, ChanInv
<1>4. CASE m.tag = "cut"
  <2>1. UNCHANGED <<got, count>> /\ js' = "failed" /\ CutWaits
    BY <1>2, <1>4 DEF Receive, Fail, CutWaits
  <2>2. GotInv'
    BY <1>0, <2>1, ReqKept DEF BodyInv, GotInv, Exceeds
  <2> QED BY <1>3, <2>1, <2>2
<1>5. CASE m.tag = "data"
  <2>1. /\ got' = got \o m.data /\ count' = count + Bytes(m.data)
        /\ js' = "failed" \/ js' = js
    BY <1>2, <1>5 DEF Receive, Fail
  <2>2. ~CutWaits /\ Carried = Len(m.data)
    BY <1>2, <1>5 DEF CutWaits, Carried
  <2>3. got \in Seq(Nat) /\ got = UpTo(Len(got)) /\ Continues(m.data, Len(got)) /\ Len(got) \in Nat
    BY <1>1, <1>5 DEF BodyInv, GotInv
  <2>4. got' \in Seq(Nat) /\ Len(got') = Len(got) + Len(m.data)
        /\ got' = UpTo(Len(got) + Len(m.data))
    BY <2>1, <2>3, Continued
  <2>5. count' = End(Len(got) + Len(m.data))
    <3>1. req \in Requests /\ count = End(Len(got))
      BY DEF BodyInv, BodyTypes, GotInv
    <3> QED BY <2>1, <2>3, <3>1, BytesContinue
  <2>6. ~Exceeds(count') /\ Len(got) + Len(m.data) <= Frames
    BY <2>3, <2>5 DEF Continues
  <2>7. GotInv'
    BY <1>0, <2>4, <2>5, <2>6, ReqKept DEF GotInv, Exceeds
  <2> QED BY <1>3, <2>1, <2>2, <2>4, <2>7
<1> QED BY <1>1, <1>4, <1>5

\* The reader's message goes into the empty channel.
LEMMA SendStep ==
  ASSUME BodyInv, SendAccepted
  PROVE  /\ GotInv' /\ ChanInv'
         /\ hand.tag = "cut" => CutWaits'
         /\ hand.tag # "cut" => hand.tag = "data" /\ ~CutWaits' /\ Len(got') + Carried' = off
<1>0. BodyStepOrNot
  BY DEF BodyStepOrNot, BodyStep, RustStep
<1>1. chan = <<>> /\ chan' = <<hand>> /\ UNCHANGED <<got, count, off>>
  <2>1. chan = <<>>
    BY DEF BodyInv, ChanInv, SendAccepted, BODY_CHANNEL_CAP
  <2> QED BY <2>1 DEF SendAccepted, jsVars
<1>2. GotInv'
  BY <1>0, <1>1, ReqKept DEF BodyInv, GotInv, Exceeds
<1>3. CASE hand.tag = "cut"
  BY <1>1, <1>2, <1>3 DEF ChanInv, CutWaits
<1>4. CASE hand.tag # "cut"
  <2>1. hand = Data(<<off>>) /\ ~Exceeds(End(off)) /\ Len(got) + 1 = off
    <3>1. Carried = 0
      BY <1>1 DEF Carried
    <3> QED BY <1>4, <3>1 DEF BodyInv, ReaderInv, SendAccepted, GotInv
  <2>2. hand.tag = "data" /\ hand.data = <<off>>
    BY <2>1 DEF Data
  <2>3. Continues(hand.data, Len(got))
    <3> DEFINE one == <<off>>
    <3>0. off \in Nat /\ off <= Frames /\ Len(got) \in Nat /\ Frames \in Nat
      BY EndFacts DEF BodyInv, BodyTypes, GotInv
    <3>1. one \in Seq(Nat) /\ Len(one) = 1 /\ one[1] = off
      BY <3>0
    <3>2. one = [i \in 1 .. Len(one) |-> Len(got) + i]
      BY <2>1, <3>0, <3>1
    <3>3. hand.data = one
      BY <2>2
    <3> HIDE DEF one
    <3> QED BY <2>1, <3>0, <3>1, <3>2, <3>3 DEF Continues
  <2>4. ChanInv' /\ ~CutWaits' /\ Carried' = 1
    BY <1>0, <1>1, <2>2, <2>3, ReqKept DEF ChanInv, CutWaits, Carried
  <2> QED BY <1>1, <1>2, <2>1, <2>2, <2>4
<1> QED BY <1>3, <1>4

\* The buffered body goes into the channel.
LEMMA BufferedStep ==
  ASSUME BodyInv, task = "buffering", off = Frames, chan' = <<Data(AllFrames)>>,
         UNCHANGED <<req, got, count>>
  PROVE  GotInv' /\ ChanInv' /\ ~CutWaits' /\ Len(got') + Carried' = Frames
<1>0. Frames \in Nat /\ req \in Requests
  BY EndFacts DEF BodyInv, BodyTypes
<1>1. got = <<>> /\ Len(got) = 0 /\ ~Exceeds(End(Frames))
  BY DEF BodyInv, BodyTypes, ReaderInv
<1>2. AllFrames \in Seq(Nat) /\ Len(AllFrames) = Frames
  BY <1>0 DEF AllFrames
<1>3. AllFrames = [i \in 1 .. Len(AllFrames) |-> 0 + i]
  BY <1>0, <1>2 DEF AllFrames
<1>4. Continues(AllFrames, Len(got))
  BY <1>0, <1>1, <1>2, <1>3 DEF Continues
<1>5. \A d, g : Continues(d, g)' = Continues(d, g)
  BY DEF Continues, Frames, Exceeds, End
<1>6. Data(AllFrames).tag = "data" /\ Data(AllFrames).data = AllFrames
  BY DEF Data
<1>7. ChanInv' /\ ~CutWaits' /\ Carried' = Frames
  BY <1>2, <1>4, <1>5, <1>6 DEF ChanInv, CutWaits, Carried
<1>8. GotInv'
  BY <1>0 DEF BodyInv, GotInv, Exceeds, Frames, End
<1> QED BY <1>0, <1>1, <1>7, <1>8

\* The parts of the invariant that say where the frames and the handler are.
Flow == GotInv /\ ChanInv /\ ReaderInv /\ DoneInv

LEMMA FlowStep == BodyInv /\ BodyStepOrNot => Flow'
<1> SUFFICES ASSUME BodyInv, BodyStepOrNot PROVE Flow'
  OBVIOUS
<1>0. /\ req' = req /\ Frames' = Frames /\ DecodeStatus' = DecodeStatus
      /\ \A i : End(i)' = End(i)
      /\ \A n : Exceeds(n)' = Exceeds(n)
  BY ReqKept DEF Exceeds
<1>t. /\ off \in Nat /\ Frames \in Nat /\ total = End(off) /\ Len(got) \in Nat
      /\ ReaderInv /\ DoneInv
  BY EndFacts DEF BodyInv, BodyTypes, GotInv
<1>a. ASSUME Apart, ReaderInv', DoneInv' PROVE Flow'
  BY <1>a, ApartKeeps DEF Flow
<1>b. ASSUME Apart PROVE Carried' = Carried /\ CutWaits' = CutWaits /\ Len(got') = Len(got)
  BY <1>b, ApartKeeps DEF Apart
<1>1. CASE RefuseEarly \/ StartBuffering
  <2>1. Apart
    BY <1>1 DEF RefuseEarly, StartBuffering, Refuse, jsVars, Apart
  <2> QED BY <1>0, <1>t, <1>1, <1>a, <1>b, <2>1
          DEF RefuseEarly, StartBuffering, Refuse, jsVars, Apart, ReaderInv, DoneInv
<1>2. CASE StartHandler
  <2>1. Apart /\ got = <<>> /\ chan = <<>> /\ off = 0
    BY <1>t, <1>2 DEF StartHandler, Apart, ReaderInv
  <2>2. Carried = 0 /\ ~CutWaits
    BY <2>1 DEF Carried, CutWaits
  <2>3. ~HasBody => req.framing = "bare" \/ Frames = 0
    <3>1. req.framing \in {"length", "chunked", "bare"}
      BY RequestsAssumption DEF BodyInv, BodyTypes
    <3> QED BY <1>t, <3>1 DEF HasBody
  <2> QED BY <1>0, <1>t, <1>2, <1>a, <1>b, <2>1, <2>2, <2>3
          DEF StartHandler, Apart, ReaderInv, DoneInv
<1>3. CASE BufferFrame
  <2>1. Apart
    BY <1>3 DEF BufferFrame, Refuse, jsVars, Apart
  <2> QED BY <1>0, <1>t, <1>3, <1>a, <1>b, <2>1
          DEF BufferFrame, Refuse, jsVars, Apart, ReaderInv, DoneInv
<1>4. CASE BufferEnds
  <2>1. CASE UNCHANGED chan
    <3>1. Apart
      BY <1>4, <2>1 DEF BufferEnds, Refuse, Apart
    <3>2. task = "buffering" /\ UNCHANGED <<rx, req>>
          /\ ((UNCHANGED js /\ task' = "over") \/ chan' = <<Data(AllFrames)>>)
      BY <1>4 DEF BufferEnds, Refuse
    <3>3. chan = <<>>
      BY <1>t, <3>2 DEF ReaderInv
    <3>4. UNCHANGED js /\ task' = "over"
      BY <2>1, <3>2, <3>3
    <3> QED BY <1>0, <1>t, <1>a, <1>b, <3>1, <3>2, <3>4 DEF Apart, ReaderInv, DoneInv
  <2>2. CASE chan' = <<Data(AllFrames)>> /\ ~UNCHANGED chan
    <3>1. task = "buffering" /\ off = Frames /\ UNCHANGED <<req, got, count, rx>>
          /\ task' = "over" /\ js' = "idle"
      BY <1>4, <2>2 DEF BufferEnds
    <3>2. GotInv' /\ ChanInv' /\ ~CutWaits' /\ Len(got') + Carried' = Frames
      BY <2>2, <3>1, BufferedStep
    <3> QED BY <1>0, <1>t, <3>1, <3>2 DEF Flow, ReaderInv, DoneInv
  <2> QED BY <1>4, <2>1, <2>2 DEF BufferEnds
<1>5. ASSUME NEW status, BufferFails(status) PROVE Flow'
  <2>1. Apart
    BY <1>5 DEF BufferFails, Refuse, Apart
  <2> QED BY <1>0, <1>t, <1>5, <1>a, <1>b, <2>1
          DEF BufferFails, Refuse, Apart, ReaderInv, DoneInv
<1>6. CASE ReadFrame
  <2>1. Apart /\ off' = off + 1 /\ task = "reading" /\ task' = "sending" /\ UNCHANGED <<js, rx>>
    BY <1>6 DEF ReadFrame, Frame, TaskSends, jsVars, Apart
  <2>2. total' = End(off')
    BY <1>0, BodyTypesStep DEF BodyTypes
  <2>3. hand' = Cut(413) \/ (hand' = Data(<<off'>>) /\ ~Exceeds(End(off')))
    BY <1>6, <2>2 DEF ReadFrame, TaskSends
  <2>4. Cut(413).tag = "cut"
    BY DEF Cut
  <2> QED BY <1>0, <1>t, <1>a, <1>b, <2>1, <2>3, <2>4 DEF Apart, ReaderInv, DoneInv, Data
<1>7. CASE ReadEnds
  <2>1. Apart
    BY <1>7 DEF ReadEnds, jsVars, Apart
  <2> QED BY <1>0, <1>t, <1>7, <1>a, <1>b, <2>1 DEF ReadEnds, jsVars, Apart, ReaderInv, DoneInv
<1>8. ASSUME NEW status, ReadFails(status) PROVE Flow'
  <2>1. Apart
    BY <1>8 DEF ReadFails, jsVars, Apart
  <2>2. Cut(status).tag = "cut"
    BY DEF Cut
  <2> QED BY <1>0, <1>t, <1>8, <1>a, <1>b, <2>1, <2>2
          DEF ReadFails, TaskSends, jsVars, Apart, ReaderInv, DoneInv
<1>9. CASE SendAccepted
  <2>1. /\ GotInv' /\ ChanInv'
        /\ hand.tag = "cut" => CutWaits'
        /\ hand.tag # "cut" => hand.tag = "data" /\ ~CutWaits' /\ Len(got') + Carried' = off
    BY <1>9, SendStep
  <2>2. /\ task = "sending" /\ task' = IF hand.tag = "data" THEN "reading" ELSE "over"
        /\ UNCHANGED <<off, js, rx, got>>
    BY <1>9 DEF SendAccepted, jsVars
  <2> QED BY <1>0, <1>t, <2>1, <2>2 DEF Flow, ReaderInv, DoneInv
<1>10. CASE SendFails
  <2>1. Apart
    BY <1>10 DEF SendFails, jsVars, Apart
  <2> QED BY <1>0, <1>t, <1>10, <1>a, <1>b, <2>1 DEF SendFails, jsVars, Apart, ReaderInv, DoneInv
<1>11. CASE Receive
  <2>1. /\ GotInv' /\ ChanInv' /\ Carried' = 0 /\ ~CutWaits'
        /\ js' = "failed" \/ (~CutWaits /\ js' = js /\ Len(got') = Len(got) + Carried)
        /\ ~CutWaits => Len(got') = Len(got) + Carried
    BY <1>11, ReceiveStep
  <2>2. js \in {"collecting", "streaming"} /\ UNCHANGED <<off, task, hand, rx>>
    BY <1>11 DEF Receive
  <2>3. Len(got') \in Nat
    BY <2>1 DEF GotInv
  <2>4. ReaderInv'
    BY <1>0, <1>t, <2>1, <2>2, <2>3 DEF ReaderInv, Data
  <2> QED BY <1>0, <1>t, <2>1, <2>2, <2>4 DEF Flow, DoneInv
<1>12. CASE ReceiveEnd
  <2>1. Apart /\ UNCHANGED <<task, off, rx, hand>> /\ task = "over" /\ chan = <<>>
    BY <1>12 DEF ReceiveEnd, inVars, Apart
  <2>2. Carried = 0 /\ ~CutWaits
    BY <2>1 DEF Carried, CutWaits
  <2> QED BY <1>0, <1>t, <1>12, <1>a, <1>b, <2>1, <2>2
          DEF ReceiveEnd, Fail, Apart, ReaderInv, DoneInv
<1>13. CASE (\E how \in {"collecting", "streaming"} : UseBody(how)) \/ LeaveBody
  <2>1. Apart /\ UNCHANGED <<task, off, total, rx, hand>>
    BY <1>13 DEF UseBody, LeaveBody, inVars, Apart
  <2> QED BY <1>0, <1>t, <1>13, <1>a, <1>b, <2>1
          DEF UseBody, LeaveBody, Apart, ReaderInv, DoneInv
<1>14. CASE Release
  <2>1. Apart /\ UNCHANGED <<task, off, total, js, hand>>
    BY <1>14 DEF Release, inVars, Apart
  <2> QED BY <1>0, <1>t, <1>14, <1>a, <1>b, <2>1 DEF Release, Apart, ReaderInv, DoneInv
<1>15. CASE UNCHANGED <<inVars, jsVars>>
  <2>1. Apart /\ UNCHANGED <<task, off, total, js, hand, rx>>
    BY <1>15 DEF inVars, jsVars, Apart
  <2> QED BY <1>0, <1>t, <1>a, <1>b, <2>1 DEF Apart, ReaderInv, DoneInv
<1> QED BY <1>1, <1>2, <1>3, <1>4, <1>5, <1>6, <1>7, <1>8, <1>9, <1>10, <1>11, <1>12, <1>13,
           <1>14, <1>15
        DEF BodyStepOrNot, BodyStep, RustStep, JsStep, ResponseStep, FrameTimeout, FrameError,
            RespondFull, RespondStream, Produce, SourceEnds, WriteAccepted, WriteFails, PollChunk,
            PollEnd, ClientLeaves, vars

-----------------------------------------------------------------------------
(* The response body.                                                      *)

\* The client has the first chunks, the channel at most the next one, and the
\* pump one more while it writes.
ResponseInv ==
  /\ made \in Nat
  /\ received \in Seq(Nat) /\ received = UpTo(Len(received))
  /\ rchan = <<>> \/ rchan = <<Len(received) + 1>>
  /\ pump \in {"none", "producing", "writing", "over"}
  /\ sink \in {"none", "open", "ended", "gone"}
  /\ pump \in {"none", "producing"} => Len(received) + Len(rchan) = made
  /\ pump = "writing" => Len(received) + Len(rchan) + 1 = made
  /\ pump = "over" => Len(received) + Len(rchan) = made \/ sink = "gone"
  /\ sink = "ended" => pump = "over" /\ rchan = <<>>

LEMMA ResponseInitHolds == ASSUME NEW start, InitWith(start) PROVE ResponseInv
BY DEF InitWith, ResponseInv, UpTo

LEMMA ResponseInvStep == ResponseInv /\ BodyStepOrNot => ResponseInv'
<1> SUFFICES ASSUME ResponseInv, BodyStepOrNot PROVE ResponseInv'
  OBVIOUS
<1>1. CASE RespondFull \/ RespondStream \/ Produce \/ SourceEnds \/ WriteFails \/ PollEnd
           \/ ClientLeaves
  BY <1>1 DEF RespondFull, RespondStream, Produce, SourceEnds, WriteFails, PollEnd, ClientLeaves,
              ResponseInv
<1>2. CASE WriteAccepted
  <2>1. rchan = <<>>
    BY <1>2 DEF WriteAccepted, BODY_CHANNEL_CAP, ResponseInv
  <2>2. rchan' = <<made>> /\ made = Len(received) + 1 /\ Len(received) \in Nat
    BY <1>2, <2>1 DEF WriteAccepted, ResponseInv
  <2> QED BY <1>2, <2>1, <2>2 DEF WriteAccepted, ResponseInv
<1>3. CASE PollChunk
  <2>0. Len(received) \in Nat /\ Len(received) + 1 \in Nat
    BY DEF ResponseInv
  <2>1. rchan = <<Len(received) + 1>> /\ rchan' = <<>>
    <3>1. rchan = <<Len(received) + 1>>
      BY <1>3 DEF PollChunk, ResponseInv
    <3>2. ASSUME NEW x, rchan = <<x>> PROVE rchan' = <<>>
      BY <1>3, <3>2 DEF PollChunk
    <3> QED BY <3>1, <3>2
  <2>2. received' = Append(received, Len(received) + 1)
    BY <1>3, <2>1 DEF PollChunk
  <2>3. received' \in Seq(Nat) /\ Len(received') = Len(received) + 1
    BY <2>0, <2>2 DEF ResponseInv
  <2>4. received' = UpTo(Len(received'))
    <3>1. \A i \in 1 .. Len(received') : received'[i] = i
      BY <2>0, <2>2, <2>3 DEF ResponseInv, UpTo
    <3>2. UpTo(Len(received')) \in Seq(Nat) /\ Len(UpTo(Len(received'))) = Len(received')
          /\ \A i \in 1 .. Len(received') : UpTo(Len(received'))[i] = i
      BY <2>0, <2>3, UpToSeq
    <3> QED BY <2>3, <3>1, <3>2, SeqEqual
  <2> QED BY <1>3, <2>0, <2>1, <2>3, <2>4 DEF PollChunk, ResponseInv
<1>4. CASE UNCHANGED outVars
  BY <1>4 DEF outVars, ResponseInv
<1> QED BY <1>1, <1>2, <1>3, <1>4
        DEF BodyStepOrNot, vars, BodyStep, RustStep, JsStep, ResponseStep, RefuseEarly,
         StartBuffering, StartHandler, BufferFrame, BufferEnds, ReadFrame, ReadEnds, FrameTimeout,
         FrameError, BufferFails, ReadFails, SendAccepted, SendFails, UseBody, Receive, ReceiveEnd,
         LeaveBody, Release

-----------------------------------------------------------------------------
(* The theorems about the bodies.                                          *)

IoBodyInv == BodyInv /\ ResponseInv

LEMMA IoStepIsBodyStep == [IoNext]_ioVars => BodyStepOrNot
BY DEF IoNext, ioVars, BodyStepOrNot, Finished

\* Along every behaviour what JS has, what the channel holds and what the reader
\* has in its hand are successive frames of the body.
THEOREM BodyInvariance == IoSpec => []IoBodyInv
<1>1. IoInit => IoBodyInv
  <2>1. ASSUME IoInit PROVE req \in Requests /\ \E start \in {"new", "over"} : InitWith(start)
    BY <2>1, InputsAssumption DEF IoInit, RegularInit, FormInit, Init
  <2> QED BY <2>1, BodyInitHolds, ResponseInitHolds DEF IoBodyInv
<1>2. IoBodyInv /\ [IoNext]_ioVars => IoBodyInv'
  BY IoStepIsBodyStep, BodyTypesStep, FlowStep, ResponseInvStep DEF IoBodyInv, BodyInv, Flow
<1> QED BY <1>1, <1>2, PTL DEF IoSpec

\* Unless the request is one of HTTP/2 without Content-Length, whose body Rust
\* does not read at all, a body that JS believes complete is complete and within
\* the limit (buffer_body, read_body_task, collectRaw).
THEOREM BodyWhole == IoSpec => [](req.framing # "bare" => BodyIsWhole)
<1>1. ASSUME IoBodyInv, req.framing # "bare" PROVE BodyIsWhole
  <2>1. js \in {"whole", "parsed"} => got = AllFrames
    BY <1>1 DEF IoBodyInv, BodyInv, GotInv, DoneInv, UpTo, AllFrames
  <2>2. ~Exceeds(count) /\ (js = "parsed" => DecodeStatus = None)
    BY <1>1 DEF IoBodyInv, BodyInv, GotInv, DoneInv
  <2> QED BY <2>1, <2>2 DEF BodyIsWhole
<1> QED BY BodyInvariance, <1>1, PTL

\* A response that the client sees end is whole, for any number of chunks
\* (ChannelBody and write() in stream.rs, the pump in context.ts).
THEOREM ResponseWhole == IoSpec => []ResponseIsWhole
<1>1. ASSUME IoBodyInv PROVE ResponseIsWhole
  <2>1. ASSUME sink = "ended" PROVE received = UpTo(made)
    <3>1. rchan = <<>> /\ Len(received) + Len(rchan) = made /\ received = UpTo(Len(received))
          /\ Len(received) \in Nat
      BY <1>1, <2>1 DEF IoBodyInv, ResponseInv
    <3>2. Len(received) = made
      BY <3>1
    <3> QED BY <3>1, <3>2
  <2> QED BY <2>1 DEF ResponseIsWhole, UpTo
<1> QED BY BodyInvariance, <1>1, PTL

-----------------------------------------------------------------------------
(* The form.  A position in the stream of events: the part, the chunks of  *)
(* it that have passed, and whether the part is open ("in"), over ("out"), *)
(* or the upload was rejected ("dead").                                    *)

Parts == Len(form.parts)
Sides == {"in", "out", "dead"}
Pos == [p : Nat, c : Nat, at : Sides]
At(p, c, at) == [p |-> p, c |-> c, at |-> at]

\* The files and the fields, and those of one kind among the first p parts.
FileParts == {n \in 1 .. Parts : form.parts[n].file}
FieldParts == {n \in 1 .. Parts : ~form.parts[n].file}
Among(kind, p) == kind \intersect (1 .. p)

\* The limits and the type checks let the first p parts in.
LetIn(p) ==
  /\ Cardinality(Among(FileParts, p)) <= MaxFiles
  /\ Cardinality(Among(FieldParts, p)) <= MaxFields
  /\ \A n \in 1 .. p : form.parts[n].file => M!Admitted(form.parts[n])

\* Event e leads from position q to position r.
LeadsToPart(q, e, r) ==
  /\ e.tag = "part" /\ q.at = "out" /\ e.part = q.p + 1
  /\ e.part <= Parts /\ LetIn(e.part)
  /\ r = At(q.p + 1, 0, "in")
LeadsToChunk(q, e, r) ==
  /\ e.tag = "chunk" /\ q.at = "in" /\ e.part = q.p /\ e.chunk = q.c + 1
  /\ q.p \in 1 .. Parts /\ q.c < Len(form.parts[q.p].ends)
  /\ M!End(q.p, q.c + 1) <= M!SizeLimit(q.p)
  /\ r = At(q.p, q.c + 1, "in")
LeadsToEnd(q, e, r) ==
  /\ e.tag = "partEnd" /\ q.at = "in" /\ q.c = Len(form.parts[q.p].ends)
  /\ r = At(q.p, q.c, "out")
LeadsToReject(q, e, r) ==
  /\ e.tag = "reject" /\ q.at # "dead"
  /\ r = At(q.p, q.c, "dead")
LeadsTo(q, e, r) ==
  LeadsToPart(q, e, r) \/ LeadsToChunk(q, e, r) \/ LeadsToEnd(q, e, r) \/ LeadsToReject(q, e, r)

\* What parse_task does once its event is sent.
Phase == IF parser = "sending" THEN then ELSE parser

ParserInv ==
  /\ form \in Forms /\ part \in 0 .. Parts /\ taken \in Nat
  /\ parser \in {"new", "field", "chunk", "sending", "over"}
  /\ Phase \in {"new", "field", "chunk", "over"}
  /\ files = Cardinality(Among(FileParts, part)) /\ fields = Cardinality(Among(FieldParts, part))
  /\ Phase \in {"field", "chunk"} => LetIn(part)
  /\ Phase = "new" => part = 0 /\ parser = "new" /\ iter = "none"
  /\ Phase = "chunk" => /\ part > 0 /\ taken <= Len(form.parts[part].ends)
                        /\ size = M!End(part, taken)

\* parse_task stands at position s of the stream.
StandsAt(s) ==
  /\ Phase = "new" => s.at = "out" /\ s.p = 0
  /\ Phase = "field" => s.at = "out" /\ s.p = part
  /\ Phase = "chunk" => s.at = "in" /\ s.p = part /\ s.c = taken
  /\ Phase = "over" => s.at = "dead" \/ (s.at = "out" /\ s.p = Parts) \/ iter = "none"

\* From JS at position q over the channel to r, and over parse_task's hand to s.
Channel(q, r) == (events = <<>> /\ r = q) \/ \E e : events = <<e>> /\ LeadsTo(q, e, r)
Hand(r, s) == IF parser = "sending" THEN LeadsTo(r, event, s) ELSE s = r
Chain(q, r, s) == Channel(q, r) /\ Hand(r, s) /\ StandsAt(s)

Stats == {"open", "eof", "failed"}
Chunks == Seq(Nat \X Nat)

\* The number of readers.
N == Len(owner)

\* JS was told of the parts up to q, and of no others; every reader is of one of them.
ToldInv(q) ==
  /\ q.p <= Parts /\ LetIn(q.p)
  /\ announced = UpTo(q.p)
  /\ N \in Nat /\ owner \in [1 .. N -> Nat]
  /\ \A j \in 1 .. N : owner[j] \in 1 .. q.p
  /\ stat \in [1 .. N -> Stats]
  /\ pieces \in [1 .. N -> Chunks]

\* The outstanding calls.
CallsInv(q) ==
  /\ calls \subseteq 0 .. N
  /\ lock = None \/ lock \in calls
  /\ M!NextCall \in calls <=> iter = "waiting"
  /\ iter = "none" => calls = {} /\ q.p = 0
  /\ ~holds => calls = {} /\ iter \in {"end", "failed", "left"}
  /\ \A j \in 1 .. N : j \in calls => stat[j] = "open"

\* Between two parts only next_part moves on: read_part does not touch the channel
\* (ended), or finds it closed.
BetweenInv(q) ==
  q.at = "out" => q.p = 0 \/ ended \/ lock = M!NextCall \/ M!Closed

\* A rejection was thrown to somebody.
DeadInv(q) ==
  q.at = "dead" => iter = "failed" \/ \E j \in 1 .. N : stat[j] = "failed"

\* Chunk x has passed at position q, and is within its limit.
Passed(x, q) ==
  /\ x[1] < q.p \/ (x[1] = q.p /\ x[2] <= q.c)
  /\ M!End(x[1], x[2]) <= M!SizeLimit(x[1])

PiecesInv(q) ==
  \A k \in 1 .. N : \A i \in 1 .. Len(pieces[k]) :
    /\ Passed(pieces[k][i], q)
    /\ \A l \in 1 .. N : \A j \in 1 .. Len(pieces[l]) :
         pieces[k][i] = pieces[l][j] => k = l /\ i = j

\* The first c chunks of part k.
Given(k, c) == [i \in 1 .. c |-> <<k, i>>]

\* The iterator is at its part, or was left there.
AtPart == iter \in {"idle", "left"}

\* The one outstanding call is next_part's, or that of the current part's reader.
OneReads(q) ==
  calls \subseteq {M!NextCall} \/ \E j \in 1 .. N : calls = {j} /\ owner[j] = q.p /\ AtPart

\* A reader that has seen its part's end has the part, and no part has two readers.
Whole == \A j \in 1 .. N : stat[j] = "eof" => pieces[j] = M!ChunksOf(owner[j])
OneEach == \A i, j \in 1 .. N : owner[i] = owner[j] => i = j

\* The current part's reader has what has passed of the part; without a reader
\* nothing has passed.
HasAll(q) ==
  AtPart => \A j \in 1 .. N : owner[j] = q.p /\ stat[j] = "open"
              => q.at = "in" /\ ~ended /\ pieces[j] = Given(q.p, q.c)
Untouched(q) ==
  q.p > 0 /\ AtPart /\ (\A j \in 1 .. N : owner[j] # q.p) => q.at = "in" /\ ~ended /\ q.c = 0

\* While the parts are read one after the other, each by one reader.
OneCall(q) == ~strayed => OneReads(q)
PartsInv(q) == ~strayed => Whole /\ OneEach /\ HasAll(q) /\ Untouched(q)

JsInv(q) ==
  /\ ToldInv(q) /\ CallsInv(q) /\ BetweenInv(q) /\ DeadInv(q) /\ PiecesInv(q)
  /\ OneCall(q) /\ PartsInv(q)

FormInv ==
  /\ ParserInv
  /\ M!IterationIsWhole
  /\ \E q, r, s \in Pos : JsInv(q) /\ (holds => Chain(q, r, s))

-----------------------------------------------------------------------------

\* Positions and their fields.
LEMMA PosFacts ==
  /\ \A q \in Pos : q.p \in Nat /\ q.c \in Nat /\ q.at \in Sides
  /\ \A p, c \in Nat : \A at \in Sides :
       /\ At(p, c, at) \in Pos
       /\ At(p, c, at).p = p /\ At(p, c, at).c = c /\ At(p, c, at).at = at
BY DEF Pos, At

PartFields == [file : BOOLEAN, admitted : BOOLEAN, ends : Seq(Nat)]

\* The forms, and the bytes of their chunks.
LEMMA FormFacts ==
  ASSUME form \in Forms
  PROVE  /\ Parts \in Nat
         /\ \A n \in 1 .. Parts :
              /\ form.parts[n].file \in BOOLEAN
              /\ Len(form.parts[n].ends) \in Nat
              /\ M!SizeLimit(n) \in Nat
              /\ \A i \in 0 .. Len(form.parts[n].ends) : M!End(n, i) \in Nat
<1>1. form.parts \in Seq(PartFields)
  BY FormsAssumption, Zenon DEF PartFields
<1>2. Parts \in Nat /\ \A n \in 1 .. Parts : form.parts[n] \in PartFields
  BY <1>1 DEF Parts
<1> SUFFICES ASSUME NEW n \in 1 .. Parts
             PROVE  /\ form.parts[n].file \in BOOLEAN
                    /\ Len(form.parts[n].ends) \in Nat
                    /\ M!SizeLimit(n) \in Nat
                    /\ \A i \in 0 .. Len(form.parts[n].ends) : M!End(n, i) \in Nat
  BY <1>2
<1>3. form.parts[n].ends \in Seq(Nat)
  BY <1>2 DEF PartFields
<1>7. form.parts[n].file \in BOOLEAN
  BY <1>2, Zenon DEF PartFields
<1>4. \A i \in 0 .. Len(form.parts[n].ends) : i = 0 \/ i \in 1 .. Len(form.parts[n].ends)
  BY <1>3
<1>5. \A i \in 0 .. Len(form.parts[n].ends) : M!End(n, i) \in Nat
  BY <1>3, <1>4 DEF M!End
<1>6. M!SizeLimit(n) \in Nat
  BY MultipartLimitsAssumption DEF M!SizeLimit
<1>8. Len(form.parts[n].ends) \in Nat
  BY <1>3
<1> QED BY <1>5, <1>6, <1>7, <1>8, Zenon

\* One more part.
LEMMA KindCount ==
  ASSUME NEW kind, NEW p \in Nat
  PROVE  /\ Cardinality(Among(kind, 0)) = 0 /\ Cardinality(Among(kind, p)) \in Nat
         /\ p + 1 \in kind => Cardinality(Among(kind, p + 1)) = Cardinality(Among(kind, p)) + 1
         /\ p + 1 \notin kind => Cardinality(Among(kind, p + 1)) = Cardinality(Among(kind, p))
<1>1. Among(kind, 0) = {}
  BY DEF Among
<1>2. IsFiniteSet(1 .. p)
  BY FS_Interval
<1>3. IsFiniteSet(Among(kind, p))
  BY <1>2, FS_Subset DEF Among
<1>4. p + 1 \notin Among(kind, p)
  BY DEF Among
<1>5. Cardinality(Among(kind, 0)) = 0
  BY <1>1, FS_EmptySet, Zenon
<1>6. Cardinality(Among(kind, p)) \in Nat
  BY <1>3, FS_CardinalityType
<1>7. ASSUME p + 1 \in kind
      PROVE  Cardinality(Among(kind, p + 1)) = Cardinality(Among(kind, p)) + 1
  <2>1. Among(kind, p + 1) = Among(kind, p) \union {p + 1}
    BY <1>7 DEF Among
  <2>2. Cardinality(Among(kind, p) \union {p + 1}) = Cardinality(Among(kind, p)) + 1
    BY <1>3, <1>4, FS_AddElement
  <2> QED BY <2>1, <2>2
<1>8. ASSUME p + 1 \notin kind
      PROVE  Cardinality(Among(kind, p + 1)) = Cardinality(Among(kind, p))
  <2>1. Among(kind, p + 1) = Among(kind, p)
    BY <1>8 DEF Among
  <2> QED BY <2>1, Zenon
<1> QED BY <1>5, <1>6, <1>7, <1>8, Zenon

\* Before the first part no limit is exceeded.
LEMMA NothingLetIn == LetIn(0)
<1>1. Cardinality(Among(FileParts, 0)) = 0 /\ Cardinality(Among(FieldParts, 0)) = 0
  BY KindCount
<1>2. MaxFiles \in Nat /\ MaxFields \in Nat
  BY MultipartLimitsAssumption
<1>3. Cardinality(Among(FileParts, 0)) <= MaxFiles /\ Cardinality(Among(FieldParts, 0)) <= MaxFields
  BY <1>1, <1>2
<1>4. 1 .. 0 = {}
  OBVIOUS
<1> QED BY <1>3, <1>4, Zenon DEF LetIn

\* A sequence of length n as a function, and one more element.
Extends(g, f, n, x, S) ==
  g \in [1 .. n + 1 -> S] /\ g[n + 1] = x /\ \A k \in 1 .. n : g[k] = f[k]

\* Append, as an extension of a function.
LEMMA AppendFun ==
  ASSUME NEW S, NEW n \in Nat, NEW f \in [1 .. n -> S], NEW x \in S, NEW g, g = Append(f, x)
  PROVE  Extends(g, f, n, x, S)
<1>1. f \in Seq(S) /\ Len(f) = n
  OBVIOUS
<1>2. Append(f, x) \in Seq(S) /\ Len(Append(f, x)) = n + 1
  BY <1>1
<1>3. Append(f, x) \in [1 .. n + 1 -> S]
  BY <1>2, LenProperties
<1>4. Append(f, x)[n + 1] = x /\ \A k \in 1 .. n : Append(f, x)[k] = f[k]
  BY <1>1
<1> QED BY <1>1, <1>2, <1>3, <1>4 DEF Extends

-----------------------------------------------------------------------------
(* parse_task.                                                             *)

\* A part is a file or a field.
LEMMA PartIsOfAKind ==
  ASSUME form \in Forms, NEW n \in 1 .. Parts
  PROVE  /\ form.parts[n].file => n \in FileParts /\ n \notin FieldParts
         /\ ~form.parts[n].file => n \notin FileParts /\ n \in FieldParts
BY DEF FileParts, FieldParts

\* A part that is not refused is let in.
LEMMA NotRefused ==
  ASSUME ParserInv, LetIn(part), part < Parts, M!Refusal(form.parts[part + 1]) = None
  PROVE  LetIn(part + 1)
<1> DEFINE n == part + 1
<1>1. part \in Nat /\ n \in 1 .. Parts /\ form \in Forms
  BY FormFacts DEF ParserInv
<1>2. MaxFiles \in Nat /\ MaxFields \in Nat /\ None # 400 /\ None # 415
  BY MultipartLimitsAssumption, NoneAssumption
<1>3. files \in Nat /\ fields \in Nat
  BY <1>1, KindCount DEF ParserInv
<1>4. CASE form.parts[n].file
  <2>1. files + 1 <= MaxFiles /\ M!Admitted(form.parts[n])
    BY <1>2, <1>3, <1>4 DEF M!Refusal
  <2>2. Cardinality(Among(FileParts, n)) <= MaxFiles
    BY <1>1, <1>4, <2>1, KindCount, PartIsOfAKind DEF ParserInv
  <2>3. Cardinality(Among(FieldParts, n)) <= MaxFields
    BY <1>1, <1>4, KindCount, PartIsOfAKind DEF LetIn
  <2>4. \A i \in 1 .. n : i \in 1 .. part \/ i = n
    BY <1>1
  <2> QED BY <2>1, <2>2, <2>3, <2>4, Zenon DEF LetIn
<1>5. CASE ~form.parts[n].file
  <2>1. fields + 1 <= MaxFields
    BY <1>2, <1>3, <1>5 DEF M!Refusal
  <2>2. Cardinality(Among(FieldParts, n)) <= MaxFields
    BY <1>1, <1>5, <2>1, KindCount, PartIsOfAKind DEF ParserInv
  <2>3. Cardinality(Among(FileParts, n)) <= MaxFiles
    BY <1>1, <1>5, KindCount, PartIsOfAKind DEF LetIn
  <2>4. \A i \in 1 .. n : i \in 1 .. part \/ i = n
    BY <1>1
  <2> QED BY <1>5, <2>2, <2>3, <2>4, Zenon DEF LetIn
<1> QED BY <1>4, <1>5

\* The counters of parse_task go with the parts.
LEMMA CountersStep ==
  ASSUME ParserInv, part < Parts, UNCHANGED form, M!NextField
  PROVE  /\ files' = Cardinality(Among(FileParts, part + 1))
         /\ fields' = Cardinality(Among(FieldParts, part + 1))
<1> DEFINE n == part + 1
<1>1. part \in Nat /\ n \in 1 .. Parts /\ form \in Forms
  BY FormFacts DEF ParserInv
<1>2. files \in Nat /\ fields \in Nat
  BY <1>1, KindCount DEF ParserInv
<1>3. /\ files' = files + (IF form.parts[n].file THEN 1 ELSE 0)
      /\ fields' = fields + (IF form.parts[n].file THEN 0 ELSE 1)
  BY DEF M!NextField
<1>4. CASE form.parts[n].file
  <2>1. files' = files + 1 /\ fields' = fields
    BY <1>2, <1>3, <1>4
  <2> QED BY <1>1, <1>4, <2>1, KindCount, PartIsOfAKind DEF ParserInv
<1>5. CASE ~form.parts[n].file
  <2>1. files' = files /\ fields' = fields + 1
    BY <1>2, <1>3, <1>5
  <2> QED BY <1>1, <1>5, <2>1, KindCount, PartIsOfAKind DEF ParserInv
<1> QED BY <1>4, <1>5
\* What depends on the form alone.
LEMMA FormStays ==
  ASSUME UNCHANGED form
  PROVE  /\ Parts' = Parts /\ FileParts' = FileParts /\ FieldParts' = FieldParts
         /\ \A p : LetIn(p)' <=> LetIn(p)
         /\ \A n, i : M!End(n, i)' = M!End(n, i)
         /\ \A n : M!SizeLimit(n)' = M!SizeLimit(n) /\ M!ChunksOf(n)' = M!ChunksOf(n)
<1>1. Parts' = Parts
  BY DEF Parts
<1>2. FileParts' = FileParts /\ FieldParts' = FieldParts
  BY <1>1 DEF FileParts, FieldParts
<1>3. ASSUME NEW p PROVE LetIn(p)' <=> LetIn(p)
  BY <1>2 DEF LetIn, Among
<1>4. ASSUME NEW n, NEW i PROVE M!End(n, i)' = M!End(n, i)
  BY DEF M!End
<1>5. ASSUME NEW n PROVE M!SizeLimit(n)' = M!SizeLimit(n)
  BY DEF M!SizeLimit
<1>6. ASSUME NEW n PROVE M!ChunksOf(n)' = M!ChunksOf(n)
  BY DEF M!ChunksOf
<1> QED BY <1>1, <1>2, <1>3, <1>4, <1>5, <1>6

\* Where an event leads depends on the form alone.
LEMMA LeadsStays ==
  ASSUME UNCHANGED form, NEW q, NEW e, NEW r
  PROVE  LeadsTo(q, e, r)' <=> LeadsTo(q, e, r)
<1>1. LeadsToPart(q, e, r)' <=> LeadsToPart(q, e, r)
  BY FormStays, Zenon DEF LeadsToPart
<1>2. LeadsToChunk(q, e, r)' <=> LeadsToChunk(q, e, r)
  BY FormStays, Zenon DEF LeadsToChunk
<1>3. LeadsToEnd(q, e, r)' <=> LeadsToEnd(q, e, r)
  BY Zenon DEF LeadsToEnd
<1>4. LeadsToReject(q, e, r)' <=> LeadsToReject(q, e, r)
  BY DEF LeadsToReject
<1> QED BY <1>1, <1>2, <1>3, <1>4, Zenon DEF LeadsTo

\* Where an event leads is a position.
LEMMA LeadsToPos ==
  ASSUME NEW q \in Pos, NEW e, NEW r, LeadsTo(q, e, r)
  PROVE  r \in Pos
<1>1. q.p \in Nat /\ q.c \in Nat /\ q.p + 1 \in Nat /\ q.c + 1 \in Nat /\ 0 \in Nat
      /\ "in" \in Sides /\ "out" \in Sides /\ "dead" \in Sides
  BY PosFacts DEF Sides
<1>2. /\ At(q.p + 1, 0, "in") \in Pos /\ At(q.p, q.c + 1, "in") \in Pos
      /\ At(q.p, q.c, "out") \in Pos /\ At(q.p, q.c, "dead") \in Pos
  BY <1>1, PosFacts
<1> QED BY <1>2, Zenon
        DEF LeadsTo, LeadsToPart, LeadsToChunk, LeadsToEnd, LeadsToReject

\* parse_task keeps its counters, its place and the limits.
LEMMA ParserStepHolds ==
  ASSUME ParserInv, M!ParserStep
  PROVE  ParserInv' /\ UNCHANGED form
<1>0. UNCHANGED form
  BY DEF M!ParserStep, M!Arrive, M!NextField, M!FormEnds, M!NextChunk, M!PartEnds,
         M!Malformed, M!EventSent
<1> SUFFICES ParserInv'
  BY <1>0
<1>a. /\ form \in Forms /\ form' \in Forms /\ part \in 0 .. Parts /\ Parts \in Nat
      /\ taken \in Nat /\ Parts' = Parts
  BY <1>0, FormFacts, FormStays DEF ParserInv
<1>b. /\ Cardinality(Among(FileParts, part))' = Cardinality(Among(FileParts, part'))
      /\ Cardinality(Among(FieldParts, part))' = Cardinality(Among(FieldParts, part'))
  BY <1>0, FormStays DEF Among
<1>c. ASSUME UNCHANGED part
      PROVE  /\ Cardinality(Among(FileParts, part))' = Cardinality(Among(FileParts, part))
             /\ Cardinality(Among(FieldParts, part))' = Cardinality(Among(FieldParts, part))
             /\ LetIn(part)' <=> LetIn(part)
             /\ Len(form.parts[part].ends)' = Len(form.parts[part].ends)
             /\ \A t : M!End(part, t)' = M!End(part, t)
  BY <1>0, <1>b, <1>c, FormStays
<1>1. CASE M!Arrive
  <2>1. parser = "new" /\ Phase = "new" /\ part = 0 /\ iter = "none"
    BY <1>1 DEF M!Arrive, ParserInv, Phase
  <2>2. UNCHANGED <<part, taken, size, files, fields>> /\ parser' \in {"field", "over"}
    BY <1>1 DEF M!Arrive
  <2>3. LetIn(part)
    BY <2>1, NothingLetIn
  <2> QED BY <1>a, <1>c, <2>1, <2>2, <2>3 DEF ParserInv, Phase
<1>2. CASE M!NextField
  <2>1. parser = "field" /\ Phase = "field" /\ LetIn(part) /\ part < Parts
        /\ part' = part + 1 /\ taken' = 0 /\ size' = 0 /\ parser' = "sending"
    BY <1>2 DEF M!NextField, M!Emit, ParserInv, Phase, Parts
  <2>2. files' = Cardinality(Among(FileParts, part')) /\ fields' = Cardinality(Among(FieldParts, part'))
    BY <1>0, <1>2, <2>1, CountersStep
  <2>3. then' = "over" \/ (then' = "chunk" /\ M!Refusal(form.parts[part + 1]) = None)
    BY <1>2, <2>1 DEF M!NextField, M!Emit
  <2>4. then' = "chunk" => LetIn(part)'
    <3>1. LetIn(part)' <=> LetIn(part + 1)
      BY <1>0, <2>1, FormStays
    <3> QED BY <2>1, <2>3, <3>1, NotRefused
  <2>5. part' \in 1 .. Parts /\ M!End(part, taken)' = 0 /\ Len(form.parts[part'].ends) \in Nat
    BY <1>a, <2>1, FormFacts DEF M!End
  <2> QED BY <1>0, <1>a, <1>b, <2>1, <2>2, <2>3, <2>4, <2>5 DEF ParserInv, Phase
<1>3. CASE M!FormEnds
  BY <1>3, <1>a, <1>c DEF M!FormEnds, ParserInv, Phase
<1>4. CASE M!NextChunk
  <2>1. /\ parser = "chunk" /\ Phase = "chunk" /\ LetIn(part) /\ part \in 1 .. Parts
        /\ taken < Len(form.parts[part].ends) /\ taken' = taken + 1
        /\ parser' = "sending" /\ then' \in {"chunk", "over"}
        /\ UNCHANGED <<part, files, fields>>
    BY <1>4, <1>a DEF M!NextChunk, M!Emit, ParserInv, Phase
  <2>2. Len(form.parts[part].ends) \in Nat /\ M!End(part, taken) \in Nat /\ M!End(part, taken + 1) \in Nat
    BY <1>a, <2>1, FormFacts
  <2>3. size' = size + (M!End(part, taken + 1) - M!End(part, taken)) /\ size = M!End(part, taken)
    BY <1>4, <2>1 DEF M!NextChunk, ParserInv
  <2>4. size' = M!End(part, taken')
    BY <2>1, <2>2, <2>3
  <2> QED BY <1>a, <1>c, <2>1, <2>2, <2>4 DEF ParserInv, Phase
<1>5. CASE M!PartEnds
  BY <1>5, <1>a, <1>c DEF M!PartEnds, M!Emit, ParserInv, Phase
<1>6. CASE M!Malformed
  BY <1>6, <1>a, <1>c DEF M!Malformed, M!Emit, ParserInv, Phase
<1>7. CASE M!EventSent
  <2>1. /\ parser = "sending" /\ parser' \in {then, "over"} /\ parser' # "new" /\ parser' # "sending"
        /\ UNCHANGED <<part, taken, size, files, fields, iter>>
    BY <1>7 DEF M!EventSent, ParserInv, Phase, M!jsVars
  <2> QED BY <1>a, <1>c, <2>1 DEF ParserInv, Phase
<1> QED BY <1>0, <1>1, <1>2, <1>3, <1>4, <1>5, <1>6, <1>7 DEF M!ParserStep
\* parse_task moves on to the position behind the event it is about to send.
LEMMA ParserMoves ==
  ASSUME ParserInv, NEW r \in Pos, NEW s \in Pos, Hand(r, s), StandsAt(s),
         M!ParserStep, parser # "sending"
  PROVE  \E t \in Pos : Hand(r, t)' /\ StandsAt(t)'
<1>0. ParserInv' /\ UNCHANGED form /\ form \in Forms /\ Parts \in Nat /\ Parts' = Parts
  BY ParserStepHolds, FormFacts, FormStays DEF ParserInv
<1>1. s = r /\ Phase = parser
  BY DEF Hand, Phase
<1>2. r.p \in Nat /\ r.c \in Nat
  BY PosFacts
<1>3. SUFFICES ASSUME parser' = "sending"
               PROVE  \E t : LeadsTo(r, event', t) /\ StandsAt(t)'
  <2>1. CASE parser' = "sending"
    <3>1. PICK t : LeadsTo(r, event', t) /\ StandsAt(t)'
      BY <1>3, <2>1
    <3>2. t \in Pos /\ LeadsTo(r, event, t)'
      BY <1>0, <3>1, LeadsToPos, LeadsStays
    <3> QED BY <2>1, <3>1, <3>2 DEF Hand
  <2>2. CASE parser' # "sending"
    <3>1. M!Arrive \/ M!FormEnds
      BY <2>2 DEF M!ParserStep, M!NextField, M!NextChunk, M!PartEnds, M!Malformed,
                  M!EventSent, M!Emit
    <3>2. UNCHANGED part /\ Phase' = parser'
      BY <2>2, <3>1 DEF M!Arrive, M!FormEnds, Phase
    <3>3. StandsAt(r)'
      BY <1>0, <1>1, <3>1, <3>2 DEF M!Arrive, M!FormEnds, StandsAt, ParserInv, M!jsVars, Parts
    <3>4. Hand(r, r)'
      BY <2>2 DEF Hand
    <3> QED BY <3>3, <3>4
  <2> QED BY <2>1, <2>2
<1>a. Phase' = then'
  BY <1>3 DEF Phase
<1>b. ASSUME NEW e, e.tag = "reject", event' = e, then' = "over", parser \in {"field", "chunk"}
      PROVE  \E t : LeadsTo(r, event', t) /\ StandsAt(t)'
  <2>1. r.at # "dead"
    BY <1>1, <1>b DEF StandsAt
  <2>2. LeadsTo(r, e, At(r.p, r.c, "dead"))
    BY <1>b, <2>1 DEF LeadsTo, LeadsToReject
  <2>3. StandsAt(At(r.p, r.c, "dead"))'
    BY <1>a, <1>b DEF StandsAt, At
  <2> QED BY <1>b, <2>2, <2>3
<1>4. CASE M!NextField
  <2>1. parser = "field" /\ part < Parts /\ part' = part + 1 /\ taken' = 0
        /\ r.at = "out" /\ r.p = part
    BY <1>1, <1>4 DEF M!NextField, StandsAt, Parts
  <2>2. CASE M!Refusal(form.parts[part + 1]) = None
    <3>1. event' = M!Part(part + 1) /\ then' = "chunk"
      BY <1>4, <2>1, <2>2 DEF M!NextField, M!Emit
    <3>2. LetIn(part + 1) /\ part + 1 <= Parts
      BY <1>0, <1>1, <2>1, <2>2, NotRefused DEF ParserInv
    <3>3. LeadsTo(r, event', At(r.p + 1, 0, "in"))
      BY <2>1, <3>1, <3>2 DEF LeadsTo, LeadsToPart, M!Part
    <3>4. StandsAt(At(r.p + 1, 0, "in"))'
      BY <1>a, <2>1, <3>1 DEF StandsAt, At
    <3> QED BY <3>3, <3>4
  <2>3. CASE M!Refusal(form.parts[part + 1]) # None
    <3>1. PICK st : event' = M!Reject(st) /\ then' = "over"
      BY <1>4, <2>1, <2>3 DEF M!NextField, M!Emit
    <3> QED BY <1>b, <2>1, <3>1 DEF M!Reject
  <2> QED BY <2>2, <2>3
<1>5. CASE M!NextChunk
  <2>1. /\ parser = "chunk" /\ UNCHANGED part /\ taken' = taken + 1 /\ part \in 1 .. Parts
        /\ r.at = "in" /\ r.p = part /\ r.c = taken /\ taken < Len(form.parts[part].ends)
    BY <1>0, <1>1, <1>5 DEF M!NextChunk, StandsAt, ParserInv
  <2>2. CASE then' = "chunk"
    <3>1. size' = M!End(part, taken + 1)
      <4>1. size' = M!End(part, taken)' /\ M!End(part, taken)' = M!End(part', taken')
        BY <1>0, <1>a, <2>2, FormStays DEF ParserInv
      <4> QED BY <2>1, <4>1
    <3>2. event' = M!Chunk(part, taken + 1) /\ ~(size' > M!SizeLimit(part))
      BY <1>5, <2>1, <2>2 DEF M!NextChunk, M!Emit
    <3>3. M!End(part, taken + 1) <= M!SizeLimit(part)
      <4>1. taken + 1 \in 0 .. Len(form.parts[part].ends)
        BY <1>0, <2>1, FormFacts DEF ParserInv
      <4>2. M!End(part, taken + 1) \in Nat /\ M!SizeLimit(part) \in Nat
        BY <1>0, <2>1, <4>1, FormFacts
      <4> QED BY <3>1, <3>2, <4>2
    <3>4. LeadsTo(r, event', At(r.p, r.c + 1, "in"))
      BY <2>1, <3>2, <3>3 DEF LeadsTo, LeadsToChunk, M!Chunk
    <3>5. StandsAt(At(r.p, r.c + 1, "in"))'
      BY <1>a, <2>1, <2>2 DEF StandsAt, At
    <3> QED BY <3>4, <3>5
  <2>3. CASE then' # "chunk"
    <3>1. PICK st : event' = M!Reject(st) /\ then' = "over"
      BY <1>5, <2>3 DEF M!NextChunk, M!Emit
    <3> QED BY <1>b, <2>1, <3>1 DEF M!Reject
  <2> QED BY <2>2, <2>3
<1>6. CASE M!PartEnds
  <2>1. /\ parser = "chunk" /\ UNCHANGED part /\ event' = M!PartEnd /\ then' = "field"
        /\ r.at = "in" /\ r.p = part /\ r.c = taken /\ taken = Len(form.parts[part].ends)
    BY <1>1, <1>6 DEF M!PartEnds, M!Emit, StandsAt
  <2>2. LeadsTo(r, event', At(r.p, r.c, "out"))
    BY <2>1 DEF LeadsTo, LeadsToEnd, M!PartEnd
  <2>3. StandsAt(At(r.p, r.c, "out"))'
    BY <1>a, <2>1 DEF StandsAt, At
  <2> QED BY <2>2, <2>3
<1>7. CASE M!Malformed
  <2>1. parser \in {"field", "chunk"} /\ event' = M!Reject(400) /\ then' = "over"
    BY <1>7 DEF M!Malformed, M!Emit
  <2> QED BY <1>b, <2>1 DEF M!Reject
<1> QED BY <1>3, <1>4, <1>5, <1>6, <1>7
        DEF M!ParserStep, M!Arrive, M!FormEnds, M!EventSent

\* The chunks JS has stay the chunks it has.
LEMMA PiecesKept ==
  ASSUME UNCHANGED <<form, owner, pieces>>, NEW q, PiecesInv(q)
  PROVE  PiecesInv(q)'
BY FormStays DEF PiecesInv, Passed, N

\* What JS knows does not change with the parser.
LEMMA JsKept ==
  ASSUME NEW q \in Pos, JsInv(q), M!Closed => M!Closed',
         UNCHANGED <<form, holds, lock, ended, calls, announced, owner, stat, pieces, strayed>>,
         iter' = iter \/ (iter = "none" /\ iter' = "idle")
  PROVE  JsInv(q)'
<1>0. /\ N' = N /\ q.p \in Nat /\ ToldInv(q) /\ CallsInv(q)
      /\ iter' = iter \/ (q.p = 0 /\ calls = {})
  BY PosFacts DEF JsInv, CallsInv, N
<1>1. ToldInv(q)'
  BY <1>0, FormStays DEF ToldInv
<1>2. CallsInv(q)'
  BY <1>0 DEF CallsInv, M!NextCall
<1>3. BetweenInv(q)'
  BY DEF JsInv, BetweenInv, M!NextCall
<1>4. DeadInv(q)'
  BY <1>0 DEF JsInv, DeadInv
<1>5. PiecesInv(q)'
  BY PiecesKept DEF JsInv
<1>6. OneCall(q)'
  BY <1>0 DEF JsInv, OneCall, OneReads, AtPart, M!NextCall
<1>7. PartsInv(q)'
  <2>1. Whole' <=> Whole
    BY <1>0, FormStays DEF Whole
  <2>2. OneEach' <=> OneEach
    BY <1>0 DEF OneEach
  <2>3. Untouched(q) => Untouched(q)'
    BY <1>0 DEF Untouched, AtPart
  <2>4. HasAll(q) => HasAll(q)'
    BY <1>0 DEF HasAll, ToldInv, AtPart
  <2> QED BY <2>1, <2>2, <2>3, <2>4 DEF JsInv, PartsInv
<1> QED BY <1>1, <1>2, <1>3, <1>4, <1>5, <1>6, <1>7 DEF JsInv

\* parse_task extends the walk at its far end, or passes its event on to the
\* channel.
LEMMA ParserKeepsForm == FormInv /\ M!ParserStep => FormInv'
<1> SUFFICES ASSUME FormInv, M!ParserStep PROVE FormInv'
  OBVIOUS
<1>0. ParserInv /\ ParserInv' /\ UNCHANGED form
  BY ParserStepHolds DEF FormInv
<1>1. PICK q \in Pos, r \in Pos, s \in Pos : JsInv(q) /\ (holds => Chain(q, r, s))
  BY DEF FormInv
<1>2. /\ UNCHANGED <<holds, lock, ended, calls, announced, owner, stat, pieces, strayed>>
      /\ iter' = iter \/ (parser = "new" /\ iter' \in {"idle", "none"})
  BY DEF M!ParserStep, M!Arrive, M!NextField, M!FormEnds, M!NextChunk, M!PartEnds,
         M!Malformed, M!EventSent, M!jsVars
<1>3. iter' = iter \/ (iter = "none" /\ iter' = "idle")
  BY <1>0, <1>2 DEF ParserInv, Phase
<1>4. M!Closed => M!Closed'
  BY DEF M!ParserStep, M!Arrive, M!NextField, M!FormEnds, M!NextChunk, M!PartEnds,
         M!Malformed, M!EventSent, M!Closed
<1>5. JsInv(q)'
  BY <1>0, <1>1, <1>2, <1>3, <1>4, JsKept
<1>6. M!IterationIsWhole'
  BY <1>0, <1>2, <1>3 DEF FormInv, M!IterationIsWhole
<1>7. ASSUME holds PROVE \E u \in Pos, t \in Pos : Chain(q, u, t)'
  <2>0. Channel(q, r) /\ Hand(r, s) /\ StandsAt(s)
    BY <1>1, <1>7 DEF Chain
  <2>1. CASE parser # "sending"
    <3>1. PICK t \in Pos : Hand(r, t)' /\ StandsAt(t)'
      BY <1>0, <2>0, <2>1, ParserMoves
    <3>2. UNCHANGED events
      BY <2>1 DEF M!ParserStep, M!Arrive, M!NextField, M!FormEnds, M!NextChunk, M!PartEnds,
                  M!Malformed, M!EventSent
    <3>3. Channel(q, r)'
      BY <1>0, <2>0, <3>2, LeadsStays DEF Channel
    <3> QED BY <3>1, <3>3 DEF Chain
  <2>2. CASE parser = "sending"
    <3>1. /\ Len(events) < 1 /\ events' = Append(events, event) /\ parser' = then
          /\ UNCHANGED <<part, taken>>
      BY <1>7, <2>2 DEF M!ParserStep, M!Arrive, M!NextField, M!FormEnds, M!NextChunk,
                        M!PartEnds, M!Malformed, M!EventSent, M!EVENT_CHANNEL_CAP
    <3>2. events = <<>> /\ r = q
      BY <2>0, <3>1 DEF Channel
    <3>3. events' = <<event>>
      BY <3>1, <3>2
    <3>4. LeadsTo(q, event, s)
      BY <2>0, <2>2, <3>2 DEF Hand
    <3>5. Channel(q, s)'
      BY <1>0, <3>3, <3>4, LeadsStays DEF Channel
    <3>6. then # "sending" /\ Phase = then /\ Phase' = then
      BY <1>0, <2>2, <3>1 DEF ParserInv, Phase
    <3>7. UNCHANGED iter /\ Parts' = Parts
      BY <1>0, <1>2, <2>2, FormStays
    <3>8. Hand(s, s)' /\ StandsAt(s)'
      BY <2>0, <3>1, <3>6, <3>7 DEF Hand, StandsAt
    <3> QED BY <3>5, <3>8 DEF Chain
  <2> QED BY <2>1, <2>2
<1> QED BY <1>0, <1>1, <1>2, <1>5, <1>6, <1>7 DEF FormInv
-----------------------------------------------------------------------------
(* The calls of JS.                                                        *)

\* A step of JS leaves parse_task as it is.
LEMMA ParserKept ==
  ASSUME ParserInv, UNCHANGED <<form, parser, event, then, part, taken, size, files, fields>>,
         iter = "none" => iter' = "none"
  PROVE  /\ ParserInv'
         /\ \A r, s : Hand(r, s) => Hand(r, s)'
         /\ \A s : StandsAt(s) => StandsAt(s)'
<1>1. Phase' = Phase
  BY DEF Phase
<1>2. ParserInv'
  BY <1>1, FormStays DEF ParserInv, Among
<1>3. ASSUME NEW r, NEW s, Hand(r, s) PROVE Hand(r, s)'
  BY <1>3, LeadsStays DEF Hand
<1>4. ASSUME NEW s, StandsAt(s) PROVE StandsAt(s)'
  BY <1>1, <1>4, FormStays DEF StandsAt
<1> QED BY <1>2, <1>3, <1>4

\* A step of JS that leaves the channel alone.
LEMMA StaysPut ==
  ASSUME ParserInv, NEW q \in Pos, NEW r \in Pos, NEW s \in Pos, holds => Chain(q, r, s),
         UNCHANGED <<form, parser, event, then, part, taken, size, files, fields, events>>,
         holds' => holds, iter = "none" => iter' = "none",
         JsInv(q)', M!IterationIsWhole'
  PROVE  FormInv'
<1>1. ParserInv'
  BY ParserKept
<1>2. ASSUME holds' PROVE Chain(q, r, s)'
  <2>1. Channel(q, r)'
    BY <1>2, LeadsStays DEF Chain, Channel
  <2> QED BY <1>2, <2>1, ParserKept DEF Chain
<1> QED BY <1>1, <1>2 DEF FormInv

\* A step of JS that takes the event from the channel.
LEMMA MovesOn ==
  ASSUME ParserInv, NEW q \in Pos, NEW r \in Pos, NEW s \in Pos, Chain(q, r, s),
         UNCHANGED <<form, parser, event, then, part, taken, size, files, fields>>,
         events' = <<>>, iter = "none" => iter' = "none",
         JsInv(r)', M!IterationIsWhole'
  PROVE  FormInv'
<1>1. ParserInv'
  BY ParserKept
<1>2. Channel(r, r)'
  BY DEF Channel
<1>3. Chain(r, r, s)'
  BY <1>2, ParserKept DEF Chain
<1> QED BY <1>1, <1>3 DEF FormInv

\* An event in the channel leads JS on to r.
LEMMA HeadLeads ==
  ASSUME NEW q, NEW r, Channel(q, r), events # <<>>
  PROVE  LeadsTo(q, Head(events), r) /\ Tail(events) = <<>>
<1>1. PICK e : events = <<e>> /\ LeadsTo(q, e, r)
  BY DEF Channel
<1>2. ASSUME NEW x PROVE Head(<<x>>) = x /\ Tail(<<x>>) = <<>>
  OBVIOUS
<1> QED BY <1>1, <1>2, Zenon

\* next_part and read_part run for an outstanding call, so BodyIo exists.
LEMMA CallRuns ==
  ASSUME NEW q \in Pos, JsInv(q), NEW c, lock = c, c = M!NextCall \/ c \in calls
  PROVE  /\ c \in calls /\ c \in 0 .. N /\ holds /\ iter # "none"
         /\ c = M!NextCall => iter = "waiting"
<1>1. CallsInv(q)
  BY DEF JsInv
<1>2. c \in calls
  BY <1>1, NoneAssumption DEF CallsInv, M!NextCall
<1>3. c \in 0 .. N /\ (c = M!NextCall => iter = "waiting")
  BY <1>1, <1>2 DEF CallsInv
<1>4. holds
  BY <1>1, <1>2 DEF CallsInv
<1>5. iter # "none"
  BY <1>1, <1>2 DEF CallsInv
<1> QED BY <1>2, <1>3, <1>4, <1>5

\* A call that runs for a reader.
LEMMA ReaderRuns ==
  ASSUME NEW q \in Pos, JsInv(q), NEW k \in calls \ {M!NextCall}, lock = k
  PROVE  k \in 1 .. N /\ k # 0 /\ holds /\ iter # "none" /\ stat[k] = "open" /\ q.p # 0
<1>1. k \in calls /\ k \in 0 .. N /\ k # 0 /\ holds /\ iter # "none"
  BY CallRuns DEF M!NextCall
<1>2. N \in Nat /\ q.p \in Nat /\ CallsInv(q) /\ ToldInv(q)
  BY PosFacts DEF JsInv, ToldInv
<1>3. k \in 1 .. N
  BY <1>1, <1>2
<1>4. stat[k] = "open"
  BY <1>1, <1>2, <1>3 DEF CallsInv
<1>5. q.p # 0
  BY <1>2, <1>3 DEF ToldInv
<1> QED BY <1>1, <1>3, <1>4, <1>5

\* In good order it is the current part's reader, and the only one of that part.
LEMMA ReadsCurrent ==
  ASSUME NEW q \in Pos, JsInv(q), NEW k \in 1 .. N, k \in calls, k # 0, ~strayed
  PROVE  /\ calls = {k} /\ owner[k] = q.p /\ AtPart
         /\ \A i \in 1 .. N : owner[i] = q.p => i = k
<1>1. OneReads(q) /\ OneEach
  BY DEF JsInv, OneCall, PartsInv
<1>2. calls = {k} /\ owner[k] = q.p /\ AtPart
  BY <1>1 DEF OneReads, M!NextCall
<1> QED BY <1>1, <1>2 DEF OneEach

\* Then no call is left when it returns.
LEMMA LastReads ==
  ASSUME NEW q \in Pos, JsInv(q), NEW k \in 1 .. N, k \in calls, k # 0,
         calls' = calls \ {k}, UNCHANGED strayed, NEW r
  PROVE  OneCall(r)'
<1>1. ~strayed => calls = {k}
  BY ReadsCurrent
<1>2. ~strayed => calls' = {}
  BY <1>1
<1> QED BY <1>2 DEF OneCall, OneReads

\* While the iterator waits, or once it has stopped, the readers have what they have.
LEMMA StaysWaiting ==
  ASSUME NEW q \in Pos, JsInv(q), iter = "waiting", iter' \notin {"idle", "left"},
         calls' \subseteq calls, UNCHANGED <<form, owner, stat, pieces, strayed>>, NEW r
  PROVE  OneCall(r)' /\ PartsInv(r)'
<1>0. N' = N
  BY DEF N
<1>1. ~strayed => calls \subseteq {M!NextCall}
  BY DEF JsInv, OneCall, OneReads, AtPart
<1>2. OneCall(r)'
  BY <1>1 DEF OneCall, OneReads, M!NextCall
<1>3. (Whole' <=> Whole) /\ (OneEach' <=> OneEach)
  BY <1>0, FormStays DEF Whole, OneEach
<1>4. HasAll(r)' /\ Untouched(r)'
  BY DEF HasAll, Untouched, AtPart
<1> QED BY <1>2, <1>3, <1>4 DEF JsInv, PartsInv

\* What the part objects and the readers are called.
LEMMA CurrentIs ==
  ASSUME NEW q \in Pos, ToldInv(q)
  PROVE  /\ M!Current = q.p /\ DOMAIN announced = 1 .. q.p
         /\ DOMAIN owner = 1 .. N /\ DOMAIN stat = 1 .. N
         /\ \A k \in 1 .. q.p : announced[k] = k
<1>1. q.p \in Nat
  BY PosFacts
<1>2. Len(UpTo(q.p)) = q.p /\ DOMAIN UpTo(q.p) = 1 .. q.p /\ \A k \in 1 .. q.p : UpTo(q.p)[k] = k
  BY <1>1 DEF UpTo
<1> QED BY <1>2 DEF ToldInv, M!Current

\* The iterator asks for the next part.
LEMMA CallNextKeeps ==
  ASSUME NEW q \in Pos, JsInv(q), M!CallNext
  PROVE  JsInv(q)'
<1>0. /\ iter = "idle" /\ iter' = "waiting" /\ calls' = calls \union {0}
      /\ strayed' = (strayed \/ calls # {})
      /\ UNCHANGED <<form, parser, events, holds, lock, ended, announced, owner, stat, pieces>>
  BY DEF M!CallNext, M!NextCall, M!parserVars
<1>1. q.p \in Nat /\ ToldInv(q) /\ CallsInv(q) /\ N' = N /\ N \in Nat
  BY <1>0, PosFacts DEF JsInv, ToldInv, N
<1>3. ToldInv(q)'
  BY <1>0, <1>1, FormStays DEF ToldInv
<1>4. CallsInv(q)'
  BY <1>0, <1>1 DEF CallsInv, M!NextCall
<1>5. BetweenInv(q)'
  BY <1>0 DEF JsInv, BetweenInv, M!NextCall, M!Closed
<1>6. DeadInv(q)'
  BY <1>0, <1>1 DEF JsInv, DeadInv
<1>7. PiecesInv(q)'
  BY <1>0, PiecesKept DEF JsInv
<1>8. OneCall(q)'
  BY <1>0 DEF OneCall, OneReads, M!NextCall
<1>9. PartsInv(q)'
  <2>1. Whole' <=> Whole
    BY <1>0, <1>1, FormStays DEF Whole
  <2>2. OneEach' <=> OneEach
    BY <1>0, <1>1 DEF OneEach
  <2>3. Untouched(q)' /\ HasAll(q)'
    BY <1>0 DEF Untouched, HasAll, AtPart
  <2> QED BY <1>0, <2>1, <2>2, <2>3 DEF JsInv, PartsInv
<1> QED BY <1>3, <1>4, <1>5, <1>6, <1>7, <1>8, <1>9 DEF JsInv

\* No chunk was given twice.
LEMMA PieceOnce ==
  ASSUME NEW q, PiecesInv(q), NEW i \in 1 .. N, NEW j \in 1 .. Len(pieces[i]),
         NEW l \in 1 .. N, NEW m \in 1 .. Len(pieces[l]), pieces[i][j] = pieces[l][m]
  PROVE  i = l /\ j = m
BY Zenon DEF PiecesInv

\* A reader asks on.
LEMMA CallReadKeeps ==
  ASSUME NEW q \in Pos, JsInv(q), NEW j \in DOMAIN owner, M!CallRead(j)
  PROVE  JsInv(q)'
<1>1. q.p \in Nat /\ ToldInv(q) /\ CallsInv(q) /\ M!Current = q.p /\ DOMAIN owner = 1 .. N
      /\ N \in Nat /\ j \in 1 .. N
  BY PosFacts, CurrentIs DEF JsInv, ToldInv
<1>0. /\ stat[j] = "open" /\ j \notin calls /\ holds
      /\ calls' = calls \union {j}
      /\ UNCHANGED <<form, parser, events, holds, lock, ended, iter, announced, owner, stat, pieces>>
      /\ strayed' = (strayed \/ owner[j] # q.p \/ iter \notin {"idle", "left"}
                             \/ \E i \in 1 .. N : i # j /\ owner[i] = owner[j])
  BY <1>1 DEF M!CallRead, M!Read, M!parserVars
<1>2. N' = N
  BY <1>0 DEF N
<1>3. ToldInv(q)'
  BY <1>0, <1>1, <1>2, FormStays DEF ToldInv
<1>4. CallsInv(q)'
  <2>1. j \in 0 .. N /\ j # 0
    BY <1>1
  <2>2. calls' \subseteq 0 .. N
    BY <1>0, <1>1, <2>1, Zenon DEF CallsInv
  <2>3. 0 \in calls' <=> 0 \in calls
    BY <1>0, <2>1
  <2>4. iter # "none"
    BY <1>1, <2>1 DEF CallsInv, ToldInv
  <2> QED BY <1>0, <1>1, <1>2, <2>2, <2>3, <2>4 DEF CallsInv, M!NextCall
<1>5. BetweenInv(q)' /\ DeadInv(q)'
  BY <1>0, <1>2 DEF JsInv, BetweenInv, M!NextCall, M!Closed, DeadInv
<1>7. PiecesInv(q)'
  BY <1>0, PiecesKept DEF JsInv
<1>8. OneCall(q)'
  <2> SUFFICES ASSUME ~strayed' PROVE OneReads(q)'
    BY DEF OneCall
  <2>1. /\ ~strayed /\ owner[j] = q.p /\ iter \in {"idle", "left"}
        /\ \A i \in 1 .. N : owner[i] = owner[j] => i = j
    BY <1>0
  <2>2. 0 \notin calls
    BY <1>1, <2>1 DEF CallsInv, M!NextCall
  <2>3. calls = {}
    BY <1>0, <2>1, <2>2 DEF JsInv, OneCall, OneReads, M!NextCall, AtPart
  <2>4. calls' = {j}
    BY <1>0, <2>3
  <2> QED BY <1>0, <1>1, <1>2, <2>1, <2>4 DEF OneReads, AtPart
<1>9. PartsInv(q)'
  <2>1. Whole' <=> Whole
    BY <1>0, <1>2, FormStays DEF Whole
  <2>2. OneEach' <=> OneEach
    BY <1>0, <1>2 DEF OneEach
  <2>3. (Untouched(q)' <=> Untouched(q)) /\ (HasAll(q)' <=> HasAll(q))
    BY <1>0, <1>2 DEF Untouched, HasAll, AtPart
  <2> QED BY <1>0, <2>1, <2>2, <2>3 DEF JsInv, PartsInv
<1> QED BY <1>3, <1>4, <1>5, <1>7, <1>8, <1>9 DEF JsInv

\* A part object makes a reader.
LEMMA NewReaderKeeps ==
  ASSUME NEW q \in Pos, JsInv(q), NEW k \in DOMAIN announced, M!NewReader(k)
  PROVE  JsInv(q)'
<1>1. /\ q.p \in Nat /\ ToldInv(q) /\ CallsInv(q) /\ M!Current = q.p /\ DOMAIN owner = 1 .. N
      /\ N \in Nat /\ k \in 1 .. q.p /\ owner \in [1 .. N -> Nat]
      /\ stat \in [1 .. N -> Stats] /\ pieces \in [1 .. N -> Chunks]
  BY PosFacts, CurrentIs DEF JsInv, ToldInv
<1>0. /\ owner' = Append(owner, k) /\ stat' = Append(stat, "open") /\ pieces' = Append(pieces, <<>>)
      /\ calls' = calls \union {N'} /\ holds /\ N' = Len(owner')
      /\ UNCHANGED <<form, parser, events, holds, lock, ended, iter, announced>>
      /\ strayed' = (strayed \/ k # q.p \/ iter \notin {"idle", "left"}
                             \/ \E i \in DOMAIN owner : i # N' /\ owner[i] = k)
  BY <1>1 DEF M!NewReader, M!Read, M!parserVars, N
<1>a. Extends(owner', owner, N, k, Nat)
  <2>1. k \in Nat
    BY <1>1
  <2> QED BY <1>0, <1>1, <2>1, AppendFun
<1>b. Extends(stat', stat, N, "open", Stats)
  <2>1. "open" \in Stats
    BY DEF Stats
  <2> QED BY <1>0, <1>1, <2>1, AppendFun
<1>c. Extends(pieces', pieces, N, <<>>, Chunks)
  <2>1. <<>> \in Chunks
    BY DEF Chunks
  <2> QED BY <1>0, <1>1, <2>1, AppendFun
<1>d. N' = N + 1
  <2>1. owner \in Seq(Nat) /\ Len(owner) = N /\ k \in Nat
    BY <1>1 DEF N
  <2> QED BY <1>0, <2>1
<1>e. \A i \in 1 .. N' : i \in 1 .. N \/ i = N + 1
  BY <1>1, <1>d
<1>f. N + 1 \in 1 .. N' /\ \A i \in 1 .. N : i \in 1 .. N' /\ i # N + 1
  BY <1>1, <1>d
<1>3. ToldInv(q)'
  <2>1. \A i \in 1 .. N' : owner'[i] \in 1 .. q.p
    BY <1>1, <1>a, <1>e DEF Extends, ToldInv
  <2> QED BY <1>0, <1>1, <1>a, <1>b, <1>c, <1>d, <2>1, FormStays DEF ToldInv, Extends
<1>4. CallsInv(q)'
  <2>1. calls' \subseteq 0 .. N'
    BY <1>0, <1>1, <1>d DEF CallsInv
  <2>2. 0 \in calls' <=> 0 \in calls
    BY <1>0, <1>1, <1>d
  <2>3. iter # "none"
    BY <1>1 DEF CallsInv
  <2>4. \A j \in 1 .. N' : j \in calls' => stat'[j] = "open"
    BY <1>0, <1>1, <1>b, <1>d, <1>e, <1>f DEF CallsInv, Extends
  <2> QED BY <1>0, <1>1, <2>1, <2>2, <2>3, <2>4 DEF CallsInv, M!NextCall
<1>5. BetweenInv(q)'
  BY <1>0 DEF JsInv, BetweenInv, M!NextCall, M!Closed
<1>6. DeadInv(q)'
  BY <1>0, <1>b, <1>f DEF JsInv, DeadInv, Extends
<1>7. PiecesInv(q)'
  <2>1. \A i \in 1 .. N' : \A m \in 1 .. Len(pieces'[i]) : i \in 1 .. N /\ pieces'[i] = pieces[i]
    BY <1>c, <1>e DEF Extends
  <2>2. \A i \in 1 .. N : \A m \in 1 .. Len(pieces[i]) : Passed(pieces[i][m], q)
    BY DEF JsInv, PiecesInv
  <2>3. ASSUME NEW x, Passed(x, q) PROVE Passed(x, q)'
    BY <1>0, <2>3, FormStays DEF Passed
  <2>4. \A i \in 1 .. N' : \A m \in 1 .. Len(pieces'[i]) : Passed(pieces[i][m], q)'
    BY <2>1, <2>2, <2>3
  <2>5. ASSUME NEW i \in 1 .. N', NEW m \in 1 .. Len(pieces'[i]),
               NEW l \in 1 .. N', NEW j \in 1 .. Len(pieces'[l]), pieces'[i][m] = pieces'[l][j]
        PROVE  i = l /\ m = j
    <3>1. /\ PiecesInv(q) /\ i \in 1 .. N /\ l \in 1 .. N
          /\ m \in 1 .. Len(pieces[i]) /\ j \in 1 .. Len(pieces[l]) /\ pieces[i][m] = pieces[l][j]
      BY <2>1, <2>5 DEF JsInv
    <3> QED BY <3>1, PieceOnce
  <2> QED BY <2>4, <2>5 DEF PiecesInv
<1>8. ASSUME ~strayed'
      PROVE  /\ ~strayed /\ k = q.p /\ iter \in {"idle", "left"} /\ calls = {}
             /\ \A i \in 1 .. N : owner[i] # q.p
  <2>1. /\ ~strayed /\ k = q.p /\ iter \in {"idle", "left"}
        /\ \A i \in 1 .. N : owner[i] # q.p
    BY <1>0, <1>1, <1>8, <1>d, <1>f
  <2>2. 0 \notin calls
    BY <1>1, <2>1 DEF CallsInv, M!NextCall
  <2>3. calls = {}
    BY <2>1, <2>2 DEF JsInv, OneCall, OneReads, M!NextCall, AtPart
  <2> QED BY <2>1, <2>3
<1>9. OneCall(q)'
  <2> SUFFICES ASSUME ~strayed' PROVE OneReads(q)'
    BY DEF OneCall
  <2>1. calls' = {N + 1}
    BY <1>0, <1>8, <1>d
  <2> QED BY <1>0, <1>8, <1>a, <1>b, <1>f, <2>1 DEF OneReads, Extends, AtPart
<1>10. PartsInv(q)'
  <2> SUFFICES ASSUME ~strayed'
               PROVE  Whole' /\ OneEach' /\ Untouched(q)' /\ HasAll(q)'
    BY DEF PartsInv
  <2>1. Whole /\ OneEach /\ Untouched(q)
    BY <1>8 DEF JsInv, PartsInv
  <2>2. Whole'
    <3>1. stat'[N + 1] # "eof"
      BY <1>b DEF Extends
    <3>2. \A i \in 1 .. N : stat'[i] = stat[i] /\ pieces'[i] = pieces[i] /\ owner'[i] = owner[i]
      BY <1>a, <1>b, <1>c DEF Extends
    <3>3. \A n : M!ChunksOf(n)' = M!ChunksOf(n)
      BY <1>0, FormStays
    <3>4. ASSUME NEW i \in 1 .. N', stat'[i] = "eof" PROVE pieces'[i] = M!ChunksOf(owner'[i])
      <4>1. i \in 1 .. N
        BY <1>e, <3>1, <3>4
      <4>2. stat[i] = "eof" /\ pieces'[i] = pieces[i] /\ owner'[i] = owner[i]
        BY <3>2, <3>4, <4>1
      <4>3. pieces[i] = M!ChunksOf(owner[i])
        BY <2>1, <4>1, <4>2 DEF Whole
      <4> QED BY <4>2, <4>3
    <3>5. ASSUME NEW i \in 1 .. N', stat'[i] = "eof" PROVE pieces'[i] = M!ChunksOf(owner[i])'
      <4>1. M!ChunksOf(owner[i])' = M!ChunksOf(owner'[i])
        BY <1>0 DEF M!ChunksOf
      <4> QED BY <3>4, <3>5, <4>1
    <3> QED BY <3>5 DEF Whole
  <2>3. OneEach'
    BY <1>8, <1>a, <1>e, <2>1 DEF OneEach, Extends
  <2>4. Untouched(q)'
    BY <1>8, <1>a, <1>f DEF Untouched, Extends, AtPart
  <2>5. HasAll(q)'
    <3>1. q.at = "in" /\ ~ended /\ q.c = 0
      BY <1>1, <1>8, <2>1 DEF Untouched, AtPart
    <3>2. pieces'[N + 1] = Given(q.p, 0)
      <4>1. \A x : [i \in 1 .. 0 |-> <<x, i>>] = <<>>
        OBVIOUS
      <4> QED BY <1>c, <4>1 DEF Given, Extends
    <3>3. \A i \in 1 .. N' : owner'[i] = q.p => i = N + 1
      BY <1>8, <1>a, <1>e DEF Extends
    <3> QED BY <1>0, <3>1, <3>2, <3>3 DEF HasAll, AtPart
  <2> QED BY <2>2, <2>3, <2>4, <2>5
<1> QED BY <1>3, <1>4, <1>5, <1>6, <1>7, <1>9, <1>10 DEF JsInv

\* The handler leaves, BodyIo is released, or a call gets the lock.
LEMMA OthersKeep ==
  ASSUME NEW q \in Pos, JsInv(q),
         M!LeaveForm \/ M!ReleaseForm \/ \E c \in calls : M!Acquire(c)
  PROVE  JsInv(q)'
<1>1. q.p \in Nat /\ ToldInv(q) /\ CallsInv(q)
  BY PosFacts DEF JsInv
<1>2. /\ UNCHANGED <<form, parser, events, ended, calls, announced, owner, stat, pieces, strayed>>
      /\ \/ UNCHANGED <<lock, holds>> /\ iter = "idle" /\ iter' = "left"
         \/ UNCHANGED <<lock, iter>> /\ calls = {} /\ iter \in {"end", "failed", "left"}
         \/ UNCHANGED <<holds, iter>> /\ lock = None /\ lock' \in calls
  BY DEF M!LeaveForm, M!ReleaseForm, M!Acquire, M!parserVars, M!jsVars
<1>a. N' = N
  BY <1>2 DEF N
<1>3. ToldInv(q)'
  BY <1>1, <1>2, <1>a, FormStays DEF ToldInv
<1>4. CallsInv(q)'
  BY <1>1, <1>2, <1>a DEF CallsInv, M!NextCall
<1>5. BetweenInv(q)'
  BY <1>2, NoneAssumption DEF JsInv, BetweenInv, M!NextCall, M!Closed
<1>6. DeadInv(q)'
  BY <1>2, <1>a DEF JsInv, DeadInv
<1>7. PiecesInv(q)'
  BY <1>2, PiecesKept DEF JsInv
<1>8. OneCall(q)'
  BY <1>2, <1>a DEF JsInv, OneCall, OneReads, M!NextCall, AtPart
<1>9. PartsInv(q)'
  <2>1. Whole' <=> Whole
    BY <1>2, <1>a, FormStays DEF Whole
  <2>2. OneEach' <=> OneEach
    BY <1>2, <1>a DEF OneEach
  <2>3. (Untouched(q) => Untouched(q)') /\ (HasAll(q) => HasAll(q)')
    BY <1>2, <1>a DEF Untouched, HasAll, AtPart
  <2> QED BY <1>2, <2>1, <2>2, <2>3 DEF JsInv, PartsInv
<1> QED BY <1>3, <1>4, <1>5, <1>6, <1>7, <1>8, <1>9 DEF JsInv
-----------------------------------------------------------------------------
(* next_part and read_part.                                                *)

\* What the event in the channel says.
LEMMA LeadCases ==
  ASSUME NEW q \in Pos, NEW e, NEW r, LeadsTo(q, e, r)
  PROVE  /\ e.tag = "part" => /\ q.at = "out" /\ e.part = q.p + 1
                              /\ q.p + 1 <= Parts /\ LetIn(q.p + 1)
                              /\ r.p = q.p + 1 /\ r.c = 0 /\ r.at = "in"
         /\ e.tag = "chunk" => /\ q.at = "in" /\ e.part = q.p /\ e.chunk = q.c + 1
                               /\ M!End(q.p, q.c + 1) <= M!SizeLimit(q.p)
                               /\ r.p = q.p /\ r.c = q.c + 1 /\ r.at = "in"
         /\ e.tag = "partEnd" => /\ q.at = "in" /\ q.c = Len(form.parts[q.p].ends)
                                 /\ r.p = q.p /\ r.c = q.c /\ r.at = "out"
         /\ e.tag = "reject" => q.at # "dead" /\ r.p = q.p /\ r.c = q.c /\ r.at = "dead"
         /\ e.tag \in {"part", "chunk", "partEnd", "reject"}
<1>1. \A p, c, at : At(p, c, at).p = p /\ At(p, c, at).c = c /\ At(p, c, at).at = at
  BY DEF At
<1>2. CASE LeadsToPart(q, e, r)
  BY <1>1, <1>2 DEF LeadsToPart
<1>3. CASE LeadsToChunk(q, e, r)
  BY <1>1, <1>3 DEF LeadsToChunk
<1>4. CASE LeadsToEnd(q, e, r)
  BY <1>1, <1>4 DEF LeadsToEnd
<1>5. CASE LeadsToReject(q, e, r)
  BY <1>1, <1>5 DEF LeadsToReject
<1> QED BY <1>2, <1>3, <1>4, <1>5 DEF LeadsTo

\* What has passed at q has passed at a later position in the same part.
LEMMA PiecesPass ==
  ASSUME NEW q \in Pos, NEW r \in Pos, q.p < r.p \/ (r.p = q.p /\ q.c <= r.c),
         PiecesInv(q), ToldInv(q), UNCHANGED <<form, owner, pieces>>
  PROVE  PiecesInv(r)'
<1>1. q.p \in Nat /\ q.c \in Nat /\ r.p \in Nat /\ r.c \in Nat
  BY PosFacts
<1>2. \A k \in 1 .. N : \A i \in 1 .. Len(pieces[k]) : pieces[k][i][1] \in Nat /\ pieces[k][i][2] \in Nat
  BY DEF ToldInv, Chunks
<1>3. \A k \in 1 .. N : \A i \in 1 .. Len(pieces[k]) : Passed(pieces[k][i], r)
  <2> SUFFICES ASSUME NEW k \in 1 .. N, NEW i \in 1 .. Len(pieces[k])
               PROVE  Passed(pieces[k][i], r)
    OBVIOUS
  <2>1. Passed(pieces[k][i], q)
    BY DEF PiecesInv
  <2> DEFINE x == pieces[k][i]
  <2>2. x[1] \in Nat /\ x[2] \in Nat /\ Passed(x, q)
    BY <1>2, <2>1
  <2> HIDE DEF x
  <2>3. Passed(x, r)
    BY <1>1, <2>2 DEF Passed
  <2> QED BY <2>3 DEF x
<1>4. PiecesInv(r)
  BY <1>3 DEF PiecesInv
<1> QED BY <1>4, PiecesKept

\* next_part passes over an event of an abandoned part.
LEMMA NextSkipsKeeps ==
  ASSUME NEW q \in Pos, JsInv(q), NEW r \in Pos, LeadsTo(q, Head(events), r), M!NextSkips
  PROVE  JsInv(r)'
<1>0. /\ lock = 0 /\ Head(events).tag \in {"chunk", "partEnd"}
      /\ UNCHANGED <<form, parser, holds, lock, ended, calls, iter, announced, owner, stat, pieces,
                     strayed>>
  BY DEF M!NextSkips, M!NextCall, M!Has, M!parserVars, M!jsVars
<1>1. /\ q.p \in Nat /\ q.c \in Nat /\ ToldInv(q) /\ CallsInv(q) /\ iter = "waiting"
  BY <1>0, PosFacts, CallRuns DEF JsInv, M!NextCall
<1>2. r.p = q.p /\ (r.c = q.c + 1 \/ r.c = q.c) /\ r.at # "dead" /\ q.c <= r.c
  BY <1>0, <1>1, LeadCases
<1>a. N' = N
  BY <1>0 DEF N
<1>3. ToldInv(r)'
  BY <1>0, <1>1, <1>2, <1>a, FormStays DEF ToldInv
<1>4. CallsInv(r)'
  BY <1>0, <1>1, <1>2, <1>a DEF CallsInv, M!NextCall
<1>5. BetweenInv(r)' /\ DeadInv(r)'
  BY <1>0, <1>2 DEF BetweenInv, DeadInv, M!NextCall
<1>6. PiecesInv(r)'
  BY <1>0, <1>1, <1>2, PiecesPass DEF JsInv
<1>7. OneCall(r)' /\ PartsInv(r)'
  BY <1>0, <1>1, StaysWaiting
<1> QED BY <1>3, <1>4, <1>5, <1>6, <1>7 DEF JsInv

\* One more part is announced.
LEMMA UpToGrows ==
  ASSUME NEW n \in Nat, NEW g, g = Append(UpTo(n), n + 1) PROVE g = UpTo(n + 1)
<1>1. UpTo(n) \in [1 .. n -> Nat] /\ n + 1 \in Nat
  BY DEF UpTo
<1>2. Extends(g, UpTo(n), n, n + 1, Nat)
  BY <1>1, AppendFun
<1>3. \A k \in 1 .. n + 1 : g[k] = k
  BY <1>2 DEF Extends, UpTo
<1> QED BY <1>2, <1>3 DEF Extends, UpTo

\* next_part returns a part.
LEMMA NextReturnsKeeps ==
  ASSUME NEW q \in Pos, JsInv(q), NEW r \in Pos, LeadsTo(q, Head(events), r), M!NextReturns
  PROVE  JsInv(r)'
<1>0. /\ lock = 0 /\ Head(events).tag = "part" /\ ended' = FALSE
      /\ announced' = Append(announced, Head(events).part)
      /\ iter' = "idle" /\ lock' = None /\ calls' = calls \ {0}
      /\ UNCHANGED <<form, parser, holds, owner, stat, pieces, strayed>>
  BY DEF M!NextReturns, M!NextCall, M!Has, M!Return, M!parserVars
<1>1. /\ q.p \in Nat /\ q.c \in Nat /\ ToldInv(q) /\ CallsInv(q) /\ iter = "waiting" /\ holds
  BY <1>0, PosFacts, CallRuns DEF JsInv, M!NextCall
<1>2. /\ Head(events).part = q.p + 1 /\ q.p + 1 <= Parts /\ LetIn(q.p + 1)
      /\ r.p = q.p + 1 /\ r.c = 0 /\ r.at = "in" /\ q.p < r.p
  BY <1>0, <1>1, LeadCases
<1>a. N' = N
  BY <1>0 DEF N
<1>c. announced' = UpTo(r.p)
  BY <1>0, <1>1, <1>2, UpToGrows DEF ToldInv
<1>d. \A j \in 1 .. N : owner[j] \in 1 .. r.p /\ owner[j] # r.p
  BY <1>1, <1>2 DEF ToldInv
<1>3. ToldInv(r)'
  BY <1>0, <1>1, <1>2, <1>a, <1>c, <1>d, FormStays DEF ToldInv
<1>4. CallsInv(r)'
  <2>1. calls' \subseteq 0 .. N /\ 0 \notin calls'
    BY <1>0, <1>1 DEF CallsInv
  <2> QED BY <1>0, <1>1, <1>a, <2>1 DEF CallsInv, M!NextCall
<1>5. BetweenInv(r)' /\ DeadInv(r)'
  BY <1>2 DEF BetweenInv, DeadInv
<1>6. PiecesInv(r)'
  BY <1>0, <1>1, <1>2, PiecesPass DEF JsInv
<1>7. OneCall(r)'
  <2>1. ~strayed => calls \subseteq {0}
    BY <1>1 DEF JsInv, OneCall, OneReads, M!NextCall, AtPart
  <2> QED BY <1>0, <2>1 DEF OneCall, OneReads, M!NextCall
<1>8. PartsInv(r)'
  <2>1. Whole' <=> Whole
    BY <1>0, <1>a, FormStays DEF Whole
  <2>2. OneEach' <=> OneEach
    BY <1>0, <1>a DEF OneEach
  <2>3. Untouched(r)'
    BY <1>0, <1>2 DEF Untouched, AtPart
  <2>4. HasAll(r)'
    BY <1>0, <1>a, <1>d DEF HasAll, AtPart
  <2> QED BY <1>0, <2>1, <2>2, <2>3, <2>4 DEF JsInv, PartsInv
<1> QED BY <1>3, <1>4, <1>5, <1>6, <1>7, <1>8 DEF JsInv
\* A closed channel: a rejection was taken from it, or the form is over.
LEMMA ClosedAt ==
  ASSUME NEW q, NEW r, NEW s, Chain(q, r, s), M!Closed, iter # "none"
  PROVE  q.at = "dead" \/ (q.at = "out" /\ q.p = Parts)
<1>1. events = <<>> /\ parser = "over"
  BY DEF M!Closed
<1>2. r = q
  <2>1. ASSUME NEW e PROVE <<>> # <<e>>
    OBVIOUS
  <2> QED BY <1>1, <2>1 DEF Chain, Channel
<1>3. s = r /\ Phase = "over"
  BY <1>1 DEF Chain, Hand, Phase
<1> QED BY <1>2, <1>3 DEF Chain, StandsAt

\* A call returns and leaves part objects and channel alone.
LEMMA NextStopsKeeps ==
  ASSUME NEW q \in Pos, JsInv(q), M!NextStops, NEW r \in Pos,
         \/ M!Closed /\ r = q
         \/ ~M!Closed /\ LeadsTo(q, Head(events), r)
  PROVE  JsInv(r)'
<1>0. /\ lock = 0 /\ lock' = None /\ calls' = calls \ {0}
      /\ M!Closed => iter' = "end" /\ UNCHANGED events
      /\ ~M!Closed => iter' = "failed" /\ Head(events).tag = "reject"
      /\ UNCHANGED <<form, parser, holds, ended, announced, owner, stat, pieces, strayed>>
  BY DEF M!NextStops, M!NextCall, M!Has, M!Return, M!parserVars
<1>1. /\ q.p \in Nat /\ q.c \in Nat /\ ToldInv(q) /\ CallsInv(q) /\ iter = "waiting" /\ holds
  BY <1>0, PosFacts, CallRuns DEF JsInv, M!NextCall
<1>2. r.p = q.p /\ r.c = q.c /\ (r.at = "dead" \/ (r = q /\ M!Closed)) /\ q.c <= r.c
  BY <1>0, <1>1, LeadCases
<1>a. N' = N
  BY <1>0 DEF N
<1>3. ToldInv(r)'
  BY <1>0, <1>1, <1>2, <1>a, FormStays DEF ToldInv
<1>4. CallsInv(r)'
  BY <1>0, <1>1, <1>2, <1>a DEF CallsInv, M!NextCall
<1>5. BetweenInv(r)'
  BY <1>0, <1>2 DEF BetweenInv, M!Closed
<1>6. DeadInv(r)'
  BY <1>0, <1>1, <1>2, <1>a DEF JsInv, DeadInv
<1>7. PiecesInv(r)'
  BY <1>0, <1>1, <1>2, PiecesPass DEF JsInv
<1>8. OneCall(r)' /\ PartsInv(r)'
  BY <1>0, <1>1, StaysWaiting
<1> QED BY <1>3, <1>4, <1>5, <1>6, <1>7, <1>8 DEF JsInv

\* The status of one reader changes.
LEMMA StatChange ==
  ASSUME NEW n \in Nat, stat \in [1 .. n -> Stats], NEW k \in 1 .. n,
         M!PartOver(k) \/ stat' = [stat EXCEPT ![k] = "failed"]
  PROVE  /\ stat' \in [1 .. n -> Stats]
         /\ \A i \in 1 .. n : i # k => stat'[i] = stat[i]
         /\ M!PartOver(k) => stat'[k] = "eof"
         /\ ~M!PartOver(k) => stat'[k] = "failed"
BY DEF M!PartOver, Stats

\* read_part of a part whose end was seen.
LEMMA ReadAfterEndKeeps ==
  ASSUME NEW q \in Pos, JsInv(q), NEW k \in calls \ {M!NextCall}, M!ReadAfterEnd(k)
  PROVE  JsInv(q)'
<1>0. /\ lock = k /\ ended /\ M!PartOver(k) /\ lock' = None /\ calls' = calls \ {k}
      /\ UNCHANGED <<form, parser, events, holds, ended, iter, announced, owner, pieces, strayed>>
  BY DEF M!ReadAfterEnd, M!Return, M!parserVars
<1>1. /\ q.p \in Nat /\ ToldInv(q) /\ CallsInv(q) /\ N \in Nat /\ N' = N
      /\ k \in 1 .. N /\ k # 0 /\ holds /\ stat[k] = "open"
  BY <1>0, PosFacts, ReaderRuns DEF JsInv, ToldInv, N
<1>2. /\ stat' \in [1 .. N -> Stats] /\ \A i \in 1 .. N : i # k => stat'[i] = stat[i]
      /\ stat'[k] = "eof"
  BY <1>0, <1>1, StatChange DEF ToldInv
<1>3. ToldInv(q)'
  BY <1>0, <1>1, <1>2, FormStays DEF ToldInv
<1>4. CallsInv(q)'
  BY <1>0, <1>1, <1>2 DEF CallsInv, M!NextCall
<1>5. BetweenInv(q)'
  BY <1>0 DEF BetweenInv
<1>6. DeadInv(q)'
  BY <1>0, <1>1, <1>2 DEF JsInv, DeadInv
<1>7. PiecesInv(q)'
  BY <1>0, PiecesKept DEF JsInv
<1>8. OneCall(q)' /\ PartsInv(q)'
  <2>1. ASSUME ~strayed PROVE FALSE
    <3>1. owner[k] = q.p /\ AtPart
      BY <1>1, <2>1, ReadsCurrent
    <3>2. HasAll(q)
      BY <2>1 DEF JsInv, PartsInv
    <3> QED BY <1>0, <1>1, <3>1, <3>2 DEF HasAll, AtPart
  <2> QED BY <1>0, <2>1 DEF OneCall, PartsInv
<1> QED BY <1>3, <1>4, <1>5, <1>6, <1>7, <1>8 DEF JsInv
\* One more chunk for reader k.
OneMore(g, f, n, k, x) ==
  /\ g \in [1 .. n -> Chunks] /\ \A i \in 1 .. n : i # k => g[i] = f[i]
  /\ g[k] = Append(f[k], x)
  /\ Len(f[k]) \in Nat /\ Len(g[k]) = Len(f[k]) + 1
  /\ g[k][Len(f[k]) + 1] = x
  /\ \A j \in 1 .. Len(f[k]) : g[k][j] = f[k][j]

\* One more chunk for reader k.
LEMMA ChunkAdded ==
  ASSUME NEW n \in Nat, NEW f \in [1 .. n -> Chunks], NEW k \in 1 .. n, NEW x \in Nat \X Nat,
         NEW g, g = [f EXCEPT ![k] = Append(f[k], x)]
  PROVE  OneMore(g, f, n, k, x)
<1>1. f[k] \in Seq(Nat \X Nat)
  BY DEF Chunks
<1>2. Append(f[k], x) \in Chunks
  BY <1>1 DEF Chunks
<1>3. g \in [1 .. n -> Chunks] /\ (\A i \in 1 .. n : i # k => g[i] = f[i])
      /\ g[k] = Append(f[k], x)
  BY <1>2
<1>4. /\ Len(f[k]) \in Nat /\ Len(Append(f[k], x)) = Len(f[k]) + 1
      /\ Append(f[k], x)[Len(f[k]) + 1] = x
      /\ \A j \in 1 .. Len(f[k]) : Append(f[k], x)[j] = f[k][j]
  BY <1>1
<1> QED BY <1>3, <1>4 DEF OneMore

\* A chunk is a pair of numbers that has passed.
LEMMA PieceTypes ==
  ASSUME NEW q, ToldInv(q), PiecesInv(q), NEW l \in 1 .. N, NEW j \in 1 .. Len(pieces[l])
  PROVE  /\ pieces[l][j][1] \in Nat /\ pieces[l][j][2] \in Nat /\ Passed(pieces[l][j], q)
<1>1. pieces[l] \in Seq(Nat \X Nat)
  BY DEF ToldInv, Chunks
<1>2. pieces[l][j] \in Nat \X Nat
  BY <1>1
<1> QED BY <1>2 DEF PiecesInv

\* One more chunk of the open part.
LEMMA GivenGrows ==
  ASSUME NEW n \in Nat, NEW k \in Nat, NEW g, g = Append(Given(k, n), <<k, n + 1>>)
  PROVE  g = Given(k, n + 1)
<1>1. Given(k, n) \in [1 .. n -> Nat \X Nat] /\ <<k, n + 1>> \in Nat \X Nat
  BY DEF Given
<1>2. Extends(g, Given(k, n), n, <<k, n + 1>>, Nat \X Nat)
  BY <1>1, AppendFun
<1>3. \A i \in 1 .. n + 1 : g[i] = <<k, i>>
  BY <1>2 DEF Extends, Given
<1> QED BY <1>2, <1>3 DEF Extends, Given

\* read_part returns a chunk, to whoever asked.
LEMMA ReadChunkKeeps ==
  ASSUME NEW q \in Pos, JsInv(q), NEW r \in Pos, LeadsTo(q, Head(events), r),
         NEW k \in calls \ {M!NextCall}, M!ReadChunk(k)
  PROVE  JsInv(r)'
<1> DEFINE x == <<q.p, q.c + 1>>
<1>0. /\ lock = k /\ lock' = None /\ calls' = calls \ {k} /\ Head(events).tag = "chunk"
      /\ pieces' = [pieces EXCEPT ![k] = Append(@, <<Head(events).part, Head(events).chunk>>)]
      /\ UNCHANGED <<form, parser, holds, ended, iter, announced, owner, stat, strayed>>
  BY DEF M!ReadChunk, M!Return, M!Has, M!parserVars
<1>1. /\ q.p \in Nat /\ q.c \in Nat /\ ToldInv(q) /\ CallsInv(q) /\ N \in Nat
      /\ k \in 1 .. N /\ k # 0 /\ holds /\ stat[k] = "open"
  BY <1>0, PosFacts, ReaderRuns DEF JsInv, ToldInv
<1>2. /\ Head(events).part = q.p /\ Head(events).chunk = q.c + 1
      /\ M!End(q.p, q.c + 1) <= M!SizeLimit(q.p)
      /\ r.p = q.p /\ r.c = q.c + 1 /\ r.at = "in"
  BY <1>0, LeadCases
<1>a. x \in Nat \X Nat /\ x[1] = q.p /\ x[2] = q.c + 1
  BY <1>1
<1>b. /\ pieces' \in [1 .. N -> Chunks] /\ \A i \in 1 .. N : i # k => pieces'[i] = pieces[i]
      /\ pieces'[k] = Append(pieces[k], x)
      /\ Len(pieces[k]) \in Nat /\ Len(pieces'[k]) = Len(pieces[k]) + 1
      /\ pieces'[k][Len(pieces[k]) + 1] = x
      /\ \A j \in 1 .. Len(pieces[k]) : pieces'[k][j] = pieces[k][j]
  <2>1. pieces' = [pieces EXCEPT ![k] = Append(pieces[k], x)]
    BY <1>0, <1>2
  <2> HIDE DEF x
  <2>2. OneMore(pieces', pieces, N, k, x)
    BY <1>1, <1>a, <2>1, ChunkAdded DEF ToldInv
  <2> QED BY <2>2 DEF OneMore
<1> HIDE DEF x
<1>c. N' = N
  BY <1>0 DEF N
<1>3. ToldInv(r)'
  BY <1>0, <1>1, <1>2, <1>b, <1>c, FormStays DEF ToldInv
<1>4. CallsInv(r)'
  BY <1>0, <1>1, <1>2, <1>c DEF CallsInv, M!NextCall
<1>5. BetweenInv(r)' /\ DeadInv(r)'
  BY <1>2 DEF BetweenInv, DeadInv
<1>6. PiecesInv(r)'
  <2>1. \A l \in 1 .. N : \A j \in 1 .. Len(pieces'[l]) :
          \/ j \in 1 .. Len(pieces[l]) /\ pieces'[l][j] = pieces[l][j]
          \/ l = k /\ j = Len(pieces[k]) + 1 /\ pieces'[l][j] = x
    BY <1>b
  <2>2. \A l \in 1 .. N : \A j \in 1 .. Len(pieces[l]) :
          /\ pieces[l][j][1] \in Nat /\ pieces[l][j][2] \in Nat /\ Passed(pieces[l][j], q)
    BY <1>1, PieceTypes DEF JsInv
  <2>3. \A l \in 1 .. N : \A j \in 1 .. Len(pieces[l]) :
          pieces[l][j] # x /\ Passed(pieces[l][j], r)
    BY <1>1, <1>2, <1>a, <2>2 DEF Passed
  <2>4. Passed(x, r)
    BY <1>1, <1>2, <1>a DEF Passed
  <2>5. ASSUME NEW y, Passed(y, r) PROVE Passed(y, r)'
    BY <1>0, <2>5, FormStays DEF Passed
  <2>6. \A l \in 1 .. N : \A j \in 1 .. Len(pieces'[l]) : Passed(pieces[l][j], r)'
    BY <2>1, <2>3, <2>4, <2>5
  <2>7. ASSUME NEW i \in 1 .. N, NEW j \in 1 .. Len(pieces'[i]),
               NEW l \in 1 .. N, NEW m \in 1 .. Len(pieces'[l]), pieces'[i][j] = pieces'[l][m]
        PROVE  i = l /\ j = m
    <3>1. CASE j \in 1 .. Len(pieces[i]) /\ m \in 1 .. Len(pieces[l])
               /\ pieces'[i][j] = pieces[i][j] /\ pieces'[l][m] = pieces[l][m]
      <4>1. PiecesInv(q) /\ pieces[i][j] = pieces[l][m]
        BY <2>7, <3>1 DEF JsInv
      <4> QED BY <3>1, <4>1, PieceOnce
    <3>2. CASE i = k /\ j = Len(pieces[k]) + 1 /\ l = k /\ m = Len(pieces[k]) + 1
      BY <3>2
    <3>3. CASE pieces'[i][j] = x /\ m \in 1 .. Len(pieces[l]) /\ pieces'[l][m] = pieces[l][m]
      BY <2>3, <2>7, <3>3
    <3>4. CASE pieces'[l][m] = x /\ j \in 1 .. Len(pieces[i]) /\ pieces'[i][j] = pieces[i][j]
      BY <2>3, <2>7, <3>4
    <3> QED BY <2>1, <3>1, <3>2, <3>3, <3>4
  <2>8. 1 .. N' = 1 .. N
    BY <1>c
  <2>9. \A l \in 1 .. N' : \A j \in 1 .. Len(pieces'[l]) : Passed(pieces[l][j], r)'
    BY <2>6, <2>8
  <2>10. \A i \in 1 .. N : \A j \in 1 .. Len(pieces'[i]) :
           \A l \in 1 .. N : \A m \in 1 .. Len(pieces'[l]) :
             pieces'[i][j] = pieces'[l][m] => i = l /\ j = m
    BY <2>7
  <2> QED BY <2>8, <2>9, <2>10, Zenon DEF PiecesInv
<1>8. OneCall(r)'
  BY <1>0, <1>1, LastReads
<1>9. PartsInv(r)'
  <2> SUFFICES ASSUME ~strayed
               PROVE  Whole' /\ OneEach' /\ HasAll(r)' /\ Untouched(r)'
    BY <1>0 DEF PartsInv
  <2>0. /\ owner[k] = q.p /\ AtPart /\ \A i \in 1 .. N : owner[i] = q.p => i = k
        /\ Whole /\ OneEach /\ HasAll(q)
    BY <1>1, ReadsCurrent DEF JsInv, PartsInv
  <2>1. Whole'
    BY <1>0, <1>1, <1>b, <1>c, <2>0, FormStays DEF Whole
  <2>2. OneEach'
    BY <1>0, <1>c, <2>0 DEF OneEach
  <2>3. Untouched(r)'
    BY <1>0, <1>1, <1>2, <1>c, <2>0 DEF Untouched, AtPart
  <2>4. HasAll(r)'
    <3>1. pieces[k] = Given(q.p, q.c) /\ ~ended
      BY <1>1, <2>0 DEF HasAll, AtPart
    <3>2. pieces'[k] = Append(Given(q.p, q.c), <<q.p, q.c + 1>>)
      BY <1>b, <3>1 DEF x
    <3>3. pieces'[k] = Given(q.p, q.c + 1)
      BY <1>1, <3>2, GivenGrows
    <3> QED BY <1>0, <1>2, <1>c, <2>0, <3>1, <3>3 DEF HasAll, AtPart
  <2> QED BY <2>1, <2>2, <2>3, <2>4
<1> QED BY <1>3, <1>4, <1>5, <1>6, <1>8, <1>9 DEF JsInv

\* read_part meets the end of its part.
LEMMA ReadEndKeeps ==
  ASSUME NEW q \in Pos, JsInv(q), NEW r \in Pos, NEW k \in calls \ {M!NextCall}, M!ReadEnd(k),
         \/ M!Closed /\ r = q /\ q.at # "in"
         \/ ~M!Closed /\ LeadsTo(q, Head(events), r)
  PROVE  JsInv(r)'
<1>0. /\ lock = k /\ ~ended /\ ended' = TRUE /\ M!PartOver(k)
      /\ lock' = None /\ calls' = calls \ {k}
      /\ ~M!Closed => Head(events).tag \in {"partEnd", "part"}
      /\ UNCHANGED <<form, parser, holds, iter, announced, owner, pieces, strayed>>
  BY DEF M!ReadEnd, M!Return, M!Has, M!parserVars
<1>1. /\ q.p \in Nat /\ q.c \in Nat /\ ToldInv(q) /\ CallsInv(q) /\ N \in Nat /\ N' = N
      /\ k \in 1 .. N /\ k # 0 /\ q.p # 0 /\ holds /\ stat[k] = "open"
  BY <1>0, PosFacts, ReaderRuns DEF JsInv, ToldInv, N
<1>2. /\ stat' \in [1 .. N -> Stats] /\ \A i \in 1 .. N : i # k => stat'[i] = stat[i]
      /\ stat'[k] = "eof"
  BY <1>0, <1>1, StatChange DEF ToldInv
\* The safety net is not needed: between two parts read_part does not look.
<1>3. ~M!Closed => Head(events).tag = "partEnd"
  <2>1. ~M!Closed /\ Head(events).tag = "part" => q.at = "out"
    BY LeadCases
  <2>2. ~(q.at = "out" /\ ~M!Closed)
    BY <1>0, <1>1 DEF JsInv, BetweenInv, M!NextCall
  <2> QED BY <1>0, <2>1, <2>2
<1>4. /\ r.p = q.p /\ r.c = q.c
      /\ (r.at = "dead" => r = q)
      /\ (~M!Closed => q.c = Len(form.parts[q.p].ends))
  BY <1>3, LeadCases
<1>5. ToldInv(r)'
  BY <1>0, <1>1, <1>2, <1>4, FormStays DEF ToldInv
<1>6. CallsInv(r)'
  BY <1>0, <1>1, <1>2, <1>4 DEF CallsInv, M!NextCall
<1>7. BetweenInv(r)'
  BY <1>0 DEF BetweenInv
<1>8. DeadInv(r)'
  BY <1>0, <1>1, <1>2, <1>4 DEF JsInv, DeadInv
<1>9. PiecesInv(r)'
  <2>1. q.c <= r.c
    BY <1>1, <1>4
  <2> QED BY <1>0, <1>1, <1>4, <2>1, PiecesPass DEF JsInv
<1>11. OneCall(r)'
  BY <1>0, <1>1, LastReads
<1>12. PartsInv(r)'
  <2> SUFFICES ASSUME ~strayed PROVE Whole' /\ OneEach' /\ HasAll(r)' /\ Untouched(r)'
    BY <1>0 DEF PartsInv
  <2>1. /\ owner[k] = q.p /\ AtPart /\ \A i \in 1 .. N : owner[i] = q.p => i = k
        /\ Whole /\ OneEach /\ HasAll(q)
    BY <1>1, ReadsCurrent DEF JsInv, PartsInv
  <2>2. Whole'
    <3>1. pieces[k] = Given(q.p, q.c) /\ q.at = "in"
      BY <1>1, <2>1 DEF HasAll, AtPart
    <3>2. q.c = Len(form.parts[q.p].ends)
      BY <1>4, <3>1
    <3>3. pieces[k] = M!ChunksOf(owner[k])
      BY <2>1, <3>1, <3>2 DEF Given, M!ChunksOf
    <3> QED BY <1>0, <1>1, <1>2, <2>1, <3>3, FormStays DEF Whole
  <2>3. OneEach' /\ HasAll(r)' /\ Untouched(r)'
    BY <1>0, <1>1, <1>2, <1>4, <2>1 DEF OneEach, HasAll, Untouched, AtPart
  <2> QED BY <2>2, <2>3
<1> QED BY <1>5, <1>6, <1>7, <1>8, <1>9, <1>11, <1>12 DEF JsInv

\* read_part throws the rejection.
LEMMA ReadRejectedKeeps ==
  ASSUME NEW q \in Pos, JsInv(q), NEW r \in Pos, LeadsTo(q, Head(events), r),
         NEW k \in calls \ {M!NextCall}, M!ReadRejected(k)
  PROVE  JsInv(r)'
<1>0. /\ lock = k /\ stat' = [stat EXCEPT ![k] = "failed"]
      /\ lock' = None /\ calls' = calls \ {k} /\ Head(events).tag = "reject"
      /\ UNCHANGED <<form, parser, holds, ended, iter, announced, owner, pieces, strayed>>
  BY DEF M!ReadRejected, M!Return, M!Has, M!parserVars
<1>1. /\ q.p \in Nat /\ q.c \in Nat /\ ToldInv(q) /\ CallsInv(q) /\ N \in Nat /\ N' = N
      /\ k \in 1 .. N /\ k # 0 /\ holds /\ stat[k] = "open"
  BY <1>0, PosFacts, ReaderRuns DEF JsInv, ToldInv, N
<1>2. /\ stat' \in [1 .. N -> Stats] /\ stat'[k] = "failed"
      /\ \A i \in 1 .. N : i # k => stat'[i] = stat[i]
  BY <1>0, <1>1 DEF ToldInv, Stats
<1>3. r.p = q.p /\ r.c = q.c /\ r.at = "dead"
  BY <1>0, LeadCases
<1>4. ToldInv(r)'
  BY <1>0, <1>1, <1>2, <1>3, FormStays DEF ToldInv
<1>5. CallsInv(r)'
  BY <1>0, <1>1, <1>2, <1>3 DEF CallsInv, M!NextCall
<1>6. BetweenInv(r)' /\ DeadInv(r)'
  BY <1>1, <1>2, <1>3 DEF BetweenInv, DeadInv
<1>7. PiecesInv(r)'
  <2>1. q.c <= r.c
    BY <1>1, <1>3
  <2> QED BY <1>0, <1>1, <1>3, <2>1, PiecesPass DEF JsInv
<1>9. OneCall(r)'
  BY <1>0, <1>1, LastReads
<1>10. PartsInv(r)'
  <2> SUFFICES ASSUME ~strayed PROVE Whole' /\ OneEach' /\ HasAll(r)' /\ Untouched(r)'
    BY <1>0 DEF PartsInv
  <2>1. /\ owner[k] = q.p /\ AtPart /\ \A i \in 1 .. N : owner[i] = q.p => i = k
        /\ Whole /\ OneEach
    BY <1>1, ReadsCurrent DEF JsInv, PartsInv
  <2>2. Whole'
    BY <1>0, <1>1, <1>2, <2>1, FormStays DEF Whole
  <2>3. OneEach' /\ HasAll(r)' /\ Untouched(r)'
    BY <1>0, <1>1, <1>2, <1>3, <2>1 DEF OneEach, HasAll, Untouched, AtPart
  <2> QED BY <2>2, <2>3
<1> QED BY <1>4, <1>5, <1>6, <1>7, <1>9, <1>10 DEF JsInv

-----------------------------------------------------------------------------

\* What the runs call IterationIsWhole survives a step that neither ends the
\* iteration nor forgets a failure.
LEMMA IterationKept ==
  ASSUME M!IterationIsWhole, UNCHANGED <<form, announced>>, iter' = "end" => iter = "end",
         \A k \in DOMAIN stat : k \in DOMAIN stat' /\ (stat[k] = "failed" => stat'[k] = "failed")
  PROVE  M!IterationIsWhole'
BY DEF M!IterationIsWhole

\* JS calls, leaves and lets go of the form, and a call gets the lock.
LEMMA JsStepHolds ==
  ASSUME FormInv, M!JsStep \/ \E c \in calls : M!Acquire(c)
  PROVE  FormInv'
<1>1. PICK q \in Pos, r \in Pos, s \in Pos : JsInv(q) /\ (holds => Chain(q, r, s))
  BY DEF FormInv
<1>2. ParserInv /\ M!IterationIsWhole /\ ToldInv(q)
  BY <1>1 DEF FormInv, JsInv
<1>3. /\ UNCHANGED <<form, parser, event, then, part, taken, size, files, fields, events, announced>>
      /\ holds' => holds
      /\ iter = "none" => iter' = "none"
      /\ iter' = "end" => iter = "end"
  BY DEF M!JsStep, M!CallNext, M!CallRead, M!NewReader, M!Read, M!LeaveForm, M!ReleaseForm,
         M!Acquire, M!parserVars, M!jsVars
<1>4. JsInv(q)'
  BY <1>1, CallNextKeeps, CallReadKeeps, NewReaderKeeps, OthersKeep DEF M!JsStep
<1>5. \A k \in DOMAIN stat : k \in DOMAIN stat' /\ (stat[k] = "failed" => stat'[k] = "failed")
  <2>1. CASE \E k \in DOMAIN announced : M!NewReader(k)
    <3>1. stat' = Append(stat, "open") /\ stat \in [1 .. N -> Stats] /\ N \in Nat
      BY <1>2, <2>1 DEF M!NewReader, ToldInv
    <3>2. "open" \in Stats
      BY DEF Stats
    <3>3. Extends(stat', stat, N, "open", Stats)
      BY <3>1, <3>2, AppendFun
    <3>4. \A k \in 1 .. N : k \in 1 .. N + 1
      BY <3>1
    <3> QED BY <3>1, <3>3, <3>4 DEF Extends
  <2>2. CASE ~\E k \in DOMAIN announced : M!NewReader(k)
    <3>1. UNCHANGED stat
      BY <2>2 DEF M!JsStep, M!CallNext, M!CallRead, M!LeaveForm, M!ReleaseForm, M!Acquire, M!jsVars
    <3> QED BY <3>1
  <2> QED BY <2>1, <2>2
<1>6. M!IterationIsWhole'
  BY <1>2, <1>3, <1>5, IterationKept
<1> QED BY <1>1, <1>2, <1>3, <1>4, <1>6, StaysPut

\* A call that takes an event, or finds the channel closed.
TakesEvent ==
  \/ M!NextSkips \/ M!NextReturns \/ (M!NextStops /\ ~M!Closed)
  \/ \E k \in calls \ {M!NextCall} :
       M!ReadChunk(k) \/ (M!ReadEnd(k) /\ ~M!Closed) \/ M!ReadRejected(k)
TakesNothing ==
  \/ (M!NextStops /\ M!Closed)
  \/ \E k \in calls \ {M!NextCall} : M!ReadAfterEnd(k) \/ (M!ReadEnd(k) /\ M!Closed)

\* No read forgets a failure or ends the iteration.
LEMMA ReadsKeepIteration ==
  ASSUME NEW q \in Pos, JsInv(q), M!IterationIsWhole, NEW k \in calls \ {M!NextCall},
         M!ReadAfterEnd(k) \/ M!ReadChunk(k) \/ M!ReadEnd(k) \/ M!ReadRejected(k)
  PROVE  M!IterationIsWhole'
<1>1. lock = k /\ UNCHANGED <<form, announced, iter>>
  BY DEF M!ReadAfterEnd, M!ReadChunk, M!ReadEnd, M!ReadRejected
<1>2. N \in Nat /\ k \in 1 .. N /\ stat[k] = "open" /\ stat \in [1 .. N -> Stats]
  BY <1>1, ReaderRuns DEF JsInv, ToldInv
<1>3. UNCHANGED stat \/ M!PartOver(k) \/ stat' = [stat EXCEPT ![k] = "failed"]
  BY DEF M!ReadAfterEnd, M!ReadChunk, M!ReadEnd, M!ReadRejected
<1>4. \A i \in DOMAIN stat : i \in DOMAIN stat' /\ (stat[i] = "failed" => stat'[i] = "failed")
  <2>1. CASE UNCHANGED stat
    BY <2>1
  <2>2. CASE ~UNCHANGED stat
    BY <1>2, <1>3, <2>2, StatChange
  <2> QED BY <2>1, <2>2
<1> QED BY <1>1, <1>4, IterationKept

\* Taking an event moves JS one position on.
LEMMA TakesEventHolds ==
  ASSUME FormInv, TakesEvent
  PROVE  FormInv'
<1>1. PICK q \in Pos, r \in Pos, s \in Pos : JsInv(q) /\ (holds => Chain(q, r, s))
  BY DEF FormInv
<1>2. ParserInv /\ M!IterationIsWhole
  BY DEF FormInv
<1>3. /\ UNCHANGED <<form, parser, event, then, part, taken, size, files, fields>>
      /\ events # <<>> /\ events' = Tail(events) /\ ~M!Closed
      /\ lock = M!NextCall \/ lock \in calls
  BY DEF TakesEvent, M!NextSkips, M!NextReturns, M!NextStops, M!ReadChunk, M!ReadEnd,
         M!ReadRejected, M!Has, M!Closed, M!parserVars
<1>4. holds /\ iter # "none" /\ Chain(q, r, s)
  BY <1>1, <1>3, CallRuns
<1>5. LeadsTo(q, Head(events), r) /\ events' = <<>>
  BY <1>3, <1>4, HeadLeads DEF Chain
<1>6. JsInv(r)'
  BY <1>1, <1>3, <1>5, NextSkipsKeeps, NextReturnsKeeps, NextStopsKeeps, ReadChunkKeeps, ReadEndKeeps,
     ReadRejectedKeeps DEF TakesEvent
<1>7. M!IterationIsWhole'
  <2>1. CASE M!NextSkips
    BY <1>2, <2>1, IterationKept DEF M!NextSkips, M!jsVars
  <2>2. CASE M!NextReturns \/ M!NextStops
    BY <1>3, <2>2 DEF M!NextReturns, M!NextStops, M!IterationIsWhole
  <2>3. CASE \E k \in calls \ {M!NextCall} : M!ReadChunk(k) \/ M!ReadEnd(k) \/ M!ReadRejected(k)
    BY <1>1, <1>2, <2>3, ReadsKeepIteration
  <2> QED BY <2>1, <2>2, <2>3 DEF TakesEvent
<1> QED BY <1>1, <1>2, <1>3, <1>4, <1>5, <1>6, <1>7, MovesOn

\* A closed channel means the end of the form or a rejection somebody has seen.
LEMMA TakesNothingHolds ==
  ASSUME FormInv, TakesNothing
  PROVE  FormInv'
<1>1. PICK q \in Pos, r \in Pos, s \in Pos : JsInv(q) /\ (holds => Chain(q, r, s))
  BY DEF FormInv
<1>2. ParserInv /\ M!IterationIsWhole
  BY DEF FormInv
<1>3. /\ UNCHANGED <<form, parser, event, then, part, taken, size, files, fields, events, holds>>
      /\ lock = M!NextCall \/ lock \in calls
  BY DEF TakesNothing, M!NextStops, M!ReadEnd, M!ReadAfterEnd, M!parserVars
<1>4. holds /\ iter # "none" /\ Chain(q, r, s)
  BY <1>1, <1>3, CallRuns
<1>5. M!Closed => q.at = "dead" \/ (q.at = "out" /\ q.p = Parts)
  BY <1>4, ClosedAt
<1>6. JsInv(q)'
  BY <1>1, <1>5, NextStopsKeeps, ReadAfterEndKeeps, ReadEndKeeps DEF TakesNothing
<1>7. M!IterationIsWhole'
  <2>1. CASE M!NextStops /\ M!Closed
    <3>1. iter = "waiting" /\ q.p \in Nat
      BY <1>1, <2>1, CallRuns, PosFacts DEF M!NextStops
    <3>2. /\ announced = UpTo(q.p) /\ stat \in [1 .. N -> Stats]
          /\ q.at = "dead" => \E k \in 1 .. N : stat[k] = "failed"
      BY <1>1, <3>1 DEF JsInv, ToldInv, DeadInv
    <3>3. UNCHANGED <<form, announced, stat>>
      BY <2>1 DEF M!NextStops
    <3>4. CASE q.at = "dead"
      BY <3>2, <3>3, <3>4 DEF M!IterationIsWhole
    <3>5. CASE q.p = Parts
      BY <3>2, <3>3, <3>5 DEF M!IterationIsWhole, UpTo, Parts
    <3> QED BY <1>5, <2>1, <3>4, <3>5
  <2>2. CASE \E k \in calls \ {M!NextCall} : M!ReadAfterEnd(k) \/ M!ReadEnd(k)
    BY <1>1, <1>2, <2>2, ReadsKeepIteration
  <2> QED BY <2>1, <2>2 DEF TakesNothing
<1>8. iter = "none" => iter' = "none"
  BY <1>4
<1> QED BY <1>1, <1>2, <1>3, <1>4, <1>6, <1>7, <1>8, StaysPut

\* Every step of the form.
LEMMA FormStepHolds == FormInv /\ M!FormStep => FormInv'
<1> SUFFICES ASSUME FormInv, M!FormStep PROVE FormInv'
  OBVIOUS
<1>1. CASE M!ParserStep
  BY <1>1, ParserKeepsForm
<1>2. CASE M!JsStep \/ \E c \in calls : M!Acquire(c)
  BY <1>2, JsStepHolds
<1>3. CASE TakesEvent \/ TakesNothing
  BY <1>3, TakesEventHolds, TakesNothingHolds
<1> QED BY <1>1, <1>2, <1>3 DEF M!FormStep, M!CallStep, TakesEvent, TakesNothing

\* A form of either kind of request; that of a regular one is never looked at.
LEMMA FormInitHolds == IoInit => FormInv
<1> SUFFICES ASSUME IoInit PROVE FormInv
  OBVIOUS
<1>1. form \in Forms
  BY InputsAssumption DEF IoInit, RegularInit, FormInit, M!Init
<1>2. M!InitWith("new") \/ M!InitWith("over")
  BY DEF IoInit, RegularInit, FormInit, M!Init
<1>3. /\ parser \in {"new", "over"} /\ part = 0 /\ taken = 0 /\ files = 0 /\ fields = 0
      /\ events = <<>> /\ holds /\ lock = None /\ ~ended /\ calls = {} /\ iter = "none"
      /\ announced = <<>> /\ owner = <<>> /\ stat = <<>> /\ pieces = <<>>
  BY <1>2 DEF M!InitWith
<1>a. N = 0 /\ 1 .. 0 = {}
  BY <1>3 DEF N
<1>4. Parts \in Nat /\ Phase = parser /\ parser # "sending"
  BY <1>1, <1>3, FormFacts DEF Phase
<1>5. Cardinality(Among(FileParts, 0)) = 0 /\ Cardinality(Among(FieldParts, 0)) = 0
  BY KindCount
<1>6. ParserInv
  BY <1>1, <1>3, <1>4, <1>5, NothingLetIn DEF ParserInv
<1>7. M!IterationIsWhole
  BY <1>3 DEF M!IterationIsWhole
<1> DEFINE q == At(0, 0, "out")
<1>8. q \in Pos /\ q.p = 0 /\ q.c = 0 /\ q.at = "out"
  BY PosFacts DEF Sides
<1> HIDE DEF q
<1>9. Chain(q, q, q)
  BY <1>3, <1>4, <1>8 DEF Chain, Channel, Hand, StandsAt
<1>10. ToldInv(q)
  BY <1>3, <1>4, <1>8, <1>a, NothingLetIn DEF ToldInv, UpTo
<1>11. CallsInv(q) /\ BetweenInv(q) /\ DeadInv(q) /\ PiecesInv(q)
  BY <1>3, <1>8, <1>a DEF CallsInv, BetweenInv, DeadInv, PiecesInv, M!NextCall
<1>12. OneCall(q) /\ PartsInv(q)
  BY <1>3, <1>8, <1>a
     DEF OneCall, OneReads, PartsInv, Whole, OneEach, HasAll, Untouched, AtPart, M!NextCall
<1> QED BY <1>6, <1>7, <1>8, <1>9, <1>10, <1>11, <1>12 DEF FormInv, JsInv

\* The form's invariant: parse_task, the event in its hand, the event channel and
\* the readers follow one walk through the form (multipart.rs 55-137,
\* stream.rs 183-237).
THEOREM FormInvariance == IoSpec => []FormInv
<1>1. FormInv /\ [IoNext]_ioVars => FormInv'
  <2> SUFFICES ASSUME FormInv, [IoNext]_ioVars PROVE FormInv'
    OBVIOUS
  <2>1. CASE M!FormStep
    BY <2>1, FormStepHolds
  <2>2. CASE UNCHANGED formVars
    <3>1. PICK q \in Pos, r \in Pos, s \in Pos : JsInv(q) /\ (holds => Chain(q, r, s))
      BY DEF FormInv
    <3>2. /\ UNCHANGED <<form, parser, event, then, part, taken, size, files, fields, events>>
          /\ UNCHANGED <<holds, lock, ended, calls, iter, announced, owner, stat, pieces, strayed>>
      BY <2>2 DEF formVars
    <3>3. JsInv(q)'
      BY <3>1, <3>2, JsKept DEF M!Closed
    <3>4. ParserInv /\ M!IterationIsWhole'
      BY <3>2 DEF FormInv, M!IterationIsWhole
    <3> QED BY <3>1, <3>2, <3>3, <3>4, StaysPut
  <2> QED BY <2>1, <2>2 DEF IoNext, ioVars, M!Finished, M!vars, M!parserVars, M!jsVars, formVars
<1> QED BY <1>1, FormInitHolds, PTL DEF IoSpec

\* An upload that is cut is not taken for a whole one and read_part never swallows
\* the head of a part, whoever reads; and a part that was read to its end is whole,
\* provided the parts were read one after the other, each by one reader
\* (multipart.rs 55-63, 126-137, stream.rs 183-237, context.ts 337-381).
THEOREM FormWhole == IoSpec => []FormIsWhole
<1>1. FormInv => FormIsWhole
  <2> SUFFICES ASSUME FormInv PROVE FormIsWhole
    OBVIOUS
  <2>1. PICK q \in Pos : JsInv(q)
    BY DEF FormInv
  <2>2. /\ q.p \in Nat /\ announced = UpTo(q.p) /\ PartsInv(q)
        /\ stat \in [1 .. N -> Stats] /\ \A j \in 1 .. N : owner[j] \in 1 .. q.p
    BY <2>1, PosFacts DEF JsInv, ToldInv
  <2>3. \A k \in 1 .. q.p : announced[k] = k
    BY <2>2 DEF UpTo
  <2>4. M!PartIsWhole
    BY <2>2, <2>3 DEF M!PartIsWhole, PartsInv, Whole
  <2> QED BY <2>4 DEF FormInv, FormIsWhole, M!FormIsWhole
<1> QED BY <1>1, FormInvariance, PTL

\* Multipart's own copy of FiniteSets defines the same.
LEMMA SameCardinality == \A S : M!Cardinality(S) = Cardinality(S)
BY Zenon DEF M!Cardinality, Cardinality

\* What the limits and the type checks refuse never reaches JS, and no byte does
\* twice (multipart.rs 70-131).
THEOREM AdmittedOnly == IoSpec => []OnlyAdmitted
<1>1. FormInv => OnlyAdmitted
  <2> SUFFICES ASSUME FormInv PROVE OnlyAdmitted
    OBVIOUS
  <2>1. PICK q \in Pos : JsInv(q)
    BY DEF FormInv
  <2>2. /\ q.p \in Nat /\ q.p <= Parts /\ announced = UpTo(q.p) /\ LetIn(q.p)
        /\ pieces \in [1 .. N -> Chunks] /\ form \in Forms /\ Parts \in Nat
    BY <2>1, PosFacts, FormFacts DEF JsInv, ToldInv, FormInv, ParserInv
  <2> DEFINE told(f) == {n \in 1 .. Parts :
                           form.parts[n].file = f /\ \E k \in DOMAIN announced : announced[k] = n}
  <2>3. ASSUME NEW n PROVE (\E k \in DOMAIN announced : announced[k] = n) <=> n \in 1 .. q.p
    BY <2>2 DEF UpTo
  <2>4. \A n \in 1 .. Parts : form.parts[n].file \in BOOLEAN
    BY <2>2, FormFacts
  <2>5. \A n : n \in 1 .. q.p => n \in 1 .. Parts
    BY <2>2
  <2>6. told(TRUE) = Among(FileParts, q.p) /\ told(FALSE) = Among(FieldParts, q.p)
    BY <2>3, <2>4, <2>5, Zenon DEF FileParts, FieldParts, Among
  <2>7. Cardinality(told(TRUE)) <= MaxFiles /\ Cardinality(told(FALSE)) <= MaxFields
    <3>1. /\ Cardinality(Among(FileParts, q.p)) <= MaxFiles
          /\ Cardinality(Among(FieldParts, q.p)) <= MaxFields
      BY <2>2 DEF LetIn
    <3> QED BY <2>6, <3>1, Zenon
  <2>8. \A n \in told(TRUE) : M!Admitted(form.parts[n])
    <3>1. \A n \in 1 .. q.p : form.parts[n].file => M!Admitted(form.parts[n])
      BY <2>2, Zenon DEF LetIn
    <3>2. \A n \in told(TRUE) : n \in 1 .. q.p /\ form.parts[n].file
      BY <2>3, Zenon
    <3> QED BY <3>1, <3>2, Zenon
  <2>9. \A k \in DOMAIN pieces : \A i \in DOMAIN pieces[k] :
          /\ M!End(pieces[k][i][1], pieces[k][i][2]) <= M!SizeLimit(pieces[k][i][1])
          /\ \A l \in DOMAIN pieces : \A j \in DOMAIN pieces[l] :
               pieces[k][i] = pieces[l][j] => k = l /\ i = j
    <3>1. DOMAIN pieces = 1 .. N /\ \A k \in 1 .. N : DOMAIN pieces[k] = 1 .. Len(pieces[k])
      BY <2>2, LenProperties DEF Chunks
    <3>2. PiecesInv(q)
      BY <2>1 DEF JsInv
    <3> QED BY <3>1, <3>2 DEF PiecesInv, Passed
  <2>10. M!Cardinality(told(TRUE)) <= MaxFiles /\ M!Cardinality(told(FALSE)) <= MaxFields
    BY <2>7, SameCardinality, Zenon
  <2> QED BY <2>8, <2>9, <2>10, Zenon DEF OnlyAdmitted, M!OnlyAdmitted, Parts
<1> QED BY <1>1, FormInvariance, PTL
=============================================================================
