----------------------------- MODULE Multipart ------------------------------
(***************************************************************************)
(* A multipart/form-data upload: parse_task in src/src/multipart.rs, the   *)
(* calls next_part and read_part of BodyIo in src/src/stream.rs, and the   *)
(* part iterator and part objects in src/js/context.ts.                    *)
(*                                                                         *)
(* A form is a record: whether its Content-Type has a boundary, and its    *)
(* parts.  A part is a record: is it a file, do allowedMimeTypes and       *)
(* allowedExtensions admit it, and where its chunks end, in bytes.         *)
(*                                                                         *)
(* JS calls return promises; each call runs as a task of its own on napi's *)
(* thread pool, so that two outstanding calls may get the lock in either   *)
(* order.  What reads is a reader: a stream taken from a part object, or   *)
(* its text() or arrayBuffer().  read_part does not know who asks, and     *)
(* nothing ties a reader to its part: a part object can make any number of *)
(* readers, they can be used after the iterator has moved on, and a stream *)
(* pulls ahead of its own reader.                                          *)
(***************************************************************************)
EXTENDS Naturals, Sequences, FiniteSets

CONSTANTS
  Forms,         \* the forms
  MaxFiles,      \* maxFiles
  MaxFields,     \* maxFields
  MaxFileSize,   \* maxFileSize
  MaxFieldSize,  \* maxFieldSize
  MaxReaders,    \* bound on the readers the handler makes
  None           \* "nothing"

EVENT_CHANNEL_CAP == 1

\* A call of next_part, among the calls; readers have numbers from 1.
NextCall == 0

VARIABLES
  form,       \* the form that is uploaded
  parser,     \* parse_task: "new", in next_field() "field", in chunk() "chunk",
              \* "sending" or "over"
  event,      \* the event parse_task is about to send
  then,       \* what it does after that
  part,       \* the part it is in
  taken,      \* the chunks of that part it has taken
  size,       \* their bytes
  files,      \* the files it has met
  fields,     \* the fields it has met
  events,     \* the event channel
  holds,      \* does BodyIo, with the receiver, still exist?
  lock,       \* the call that holds BodyIo.mp, or None
  ended,      \* MpState.ended
  calls,      \* the native calls that are outstanding: NextCall, or the number of
              \* the reader
  iter,       \* the iterator: "none", "idle", "waiting", "end", "failed" or "left"
  announced,  \* the parts of the form JS was told of: one part object for each
  owner,      \* the part object each reader was made by
  stat,       \* reader: "open", "eof" or "failed"
  pieces,     \* the chunks each reader was given: <<part, chunk>>
  strayed     \* history: the parts were not read one after the other, each by one
              \* reader, with no read left outstanding at the next one

parserVars == <<parser, event, then, part, taken, size, files, fields>>
jsVars == <<calls, iter, announced, owner, stat, pieces, strayed>>
vars == <<form, parserVars, events, holds, lock, ended, jsVars>>

InitWith(start) ==
  /\ parser = start /\ event = None /\ then = None
  /\ part = 0 /\ taken = 0 /\ size = 0 /\ files = 0 /\ fields = 0
  /\ events = <<>> /\ holds = TRUE /\ lock = None /\ ended = FALSE
  /\ calls = {} /\ iter = "none" /\ announced = <<>>
  /\ owner = <<>> /\ stat = <<>> /\ pieces = <<>> /\ strayed = FALSE

Init == form \in Forms /\ InitWith("new")

\* MpEvent.
Part(n) == [tag |-> "part", part |-> n]
Chunk(n, i) == [tag |-> "chunk", part |-> n, chunk |-> i]
PartEnd == [tag |-> "partEnd"]
Reject(status) == [tag |-> "reject", status |-> status]

-----------------------------------------------------------------------------
(* dispatch() and parse_task.                                              *)

\* The route takes forms: without a boundary Rust answers 415, otherwise
\* parse_task and the handler start.
Arrive ==
  /\ parser = "new"
  /\ parser' = IF form.boundary THEN "field" ELSE "over"
  /\ iter' = IF form.boundary THEN "idle" ELSE "none"
  /\ UNCHANGED <<form, event, then, part, taken, size, files, fields, events, holds, lock,
                 ended, calls, announced, owner, stat, pieces, strayed>>

\* The bytes of the first i chunks of part n.
End(n, i) == IF i = 0 THEN 0 ELSE form.parts[n].ends[i]

\* The limit of part n.
SizeLimit(n) == IF form.parts[n].file THEN MaxFileSize ELSE MaxFieldSize

Emit(e, next) == parser' = "sending" /\ event' = e /\ then' = next

\* mime_allowed and ext_allowed.
Admitted(q) == q.admitted

\* Mutant of Refusal: the counters are compared before they are raised.
RefusalTooLate(q) ==
  IF q.file
  THEN IF files > MaxFiles THEN 400 ELSE IF ~Admitted(q) THEN 415 ELSE None
  ELSE IF fields > MaxFields THEN 400 ELSE None

\* The status with which the next part q is refused before JS hears of it.
Refusal(q) ==
  IF q.file
  THEN IF files + 1 > MaxFiles THEN 400 ELSE IF ~Admitted(q) THEN 415 ELSE None
  ELSE IF fields + 1 > MaxFields THEN 400 ELSE None

\* next_field: the next part begins.
NextField ==
  /\ parser = "field" /\ part < Len(form.parts)
  /\ part' = part + 1 /\ taken' = 0 /\ size' = 0
  /\ LET q == form.parts[part'] IN
       /\ files' = files + (IF q.file THEN 1 ELSE 0)
       /\ fields' = fields + (IF q.file THEN 0 ELSE 1)
       /\ IF Refusal(q) = None
          THEN Emit(Part(part'), "chunk")
          ELSE Emit(Reject(Refusal(q)), "over")
  /\ UNCHANGED <<form, events, holds, lock, ended, jsVars>>

\* next_field: the form ends; the sender is dropped.
FormEnds ==
  /\ parser = "field" /\ part = Len(form.parts)
  /\ parser' = "over"
  /\ UNCHANGED <<form, event, then, part, taken, size, files, fields, events, holds, lock,
                 ended, jsVars>>

\* chunk(): a chunk of the part, against the limit of its kind.
NextChunk ==
  /\ parser = "chunk" /\ taken < Len(form.parts[part].ends)
  /\ taken' = taken + 1
  /\ size' = size + (End(part, taken') - End(part, taken))
  /\ IF size' > SizeLimit(part)
     THEN Emit(Reject(IF form.parts[part].file THEN 413 ELSE 400), "over")
     ELSE Emit(Chunk(part, taken'), "chunk")
  /\ UNCHANGED <<form, part, files, fields, events, holds, lock, ended, jsVars>>

\* chunk(): the part ends.
PartEnds ==
  /\ parser = "chunk" /\ taken = Len(form.parts[part].ends)
  /\ Emit(PartEnd, "field")
  /\ UNCHANGED <<form, part, taken, size, files, fields, events, holds, lock, ended, jsVars>>

\* The connection breaks off, or what arrives is no form.
Malformed ==
  /\ parser \in {"field", "chunk"}
  /\ Emit(Reject(400), "over")
  /\ UNCHANGED <<form, part, taken, size, files, fields, events, holds, lock, ended, jsVars>>

\* The channel takes the event, or its receiver is gone.
EventSent ==
  /\ parser = "sending" /\ (~holds \/ Len(events) < EVENT_CHANNEL_CAP)
  /\ events' = IF holds THEN Append(events, event) ELSE events
  /\ parser' = IF holds THEN then ELSE "over"
  /\ event' = None /\ then' = None
  /\ UNCHANGED <<form, part, taken, size, files, fields, holds, lock, ended, jsVars>>

-----------------------------------------------------------------------------
(* JS calls.  Part object k is the k-th the iterator has yielded.          *)

Current == Len(announced)

\* partsIterator asks for the next part, whatever became of the one before.
CallNext ==
  /\ iter = "idle"
  /\ iter' = "waiting"
  /\ calls' = calls \union {NextCall}
  /\ strayed' = (strayed \/ calls # {})
  /\ UNCHANGED <<form, parserVars, events, holds, lock, ended, announced, owner, stat,
                 pieces>>

\* A read for part object k: it strays if the iterator is not at that part.
Read(c, k) ==
  /\ holds /\ c \notin calls
  /\ calls' = calls \union {c}
  /\ strayed' = (strayed \/ k # Current \/ iter \notin {"idle", "left"}
                         \/ \E j \in DOMAIN owner : j # c /\ owner[j] = k)
  /\ UNCHANGED <<form, parserVars, events, holds, lock, ended, iter, announced>>

\* Part object k makes a reader, which asks for its first chunk.
NewReader(k) ==
  /\ Len(owner) < MaxReaders
  /\ owner' = Append(owner, k)
  /\ stat' = Append(stat, "open")
  /\ pieces' = Append(pieces, <<>>)
  /\ Read(Len(owner'), k)

\* A reader asks on: its stream pulls, or collect() goes on.
CallRead(j) ==
  /\ stat[j] = "open"
  /\ Read(j, owner[j])
  /\ UNCHANGED <<owner, stat, pieces>>

\* The handler is done with the form before its end, or fails.
LeaveForm ==
  /\ iter = "idle"
  /\ iter' = "left"
  /\ UNCHANGED <<form, parserVars, events, holds, lock, ended, calls, announced, owner,
                 stat, pieces, strayed>>

\* Nobody holds BodyIo any more.
ReleaseForm ==
  /\ holds /\ calls = {} /\ iter \in {"end", "failed", "left"}
  /\ holds' = FALSE
  /\ UNCHANGED <<form, parserVars, events, lock, ended, jsVars>>

\* A call gets the lock.
Acquire(c) ==
  /\ lock = None
  /\ lock' = c
  /\ UNCHANGED <<form, parserVars, events, holds, ended, jsVars>>

-----------------------------------------------------------------------------
(* BodyIo.next_part and BodyIo.read_part, with the lock.                   *)

Return(c) == lock' = None /\ calls' = calls \ {c}
Closed == events = <<>> /\ parser = "over"
Has(tags) == events # <<>> /\ Head(events).tag \in tags

\* next_part passes over what is left of an abandoned part.
NextSkips ==
  /\ lock = NextCall /\ Has({"chunk", "partEnd"})
  /\ events' = Tail(events)
  /\ UNCHANGED <<form, parserVars, holds, lock, ended, jsVars>>

\* Mutant of NextReturns: the end of the part before is not forgotten.
NextReturnsStale ==
  /\ lock = NextCall /\ Has({"part"})
  /\ events' = Tail(events)
  /\ announced' = Append(announced, Head(events).part)
  /\ iter' = "idle"
  /\ Return(NextCall)
  /\ UNCHANGED <<form, parserVars, holds, ended, owner, stat, pieces, strayed>>

\* next_part returns a part, and the iterator yields an object for it.
NextReturns ==
  /\ lock = NextCall /\ Has({"part"})
  /\ events' = Tail(events)
  /\ ended' = FALSE
  /\ announced' = Append(announced, Head(events).part)
  /\ iter' = "idle"
  /\ Return(NextCall)
  /\ UNCHANGED <<form, parserVars, holds, owner, stat, pieces, strayed>>

\* next_part throws the rejection, or returns null at the end of the form.
NextStops ==
  /\ lock = NextCall /\ (Has({"reject"}) \/ Closed)
  /\ events' = IF Closed THEN events ELSE Tail(events)
  /\ iter' = IF Closed THEN "end" ELSE "failed"
  /\ Return(NextCall)
  /\ UNCHANGED <<form, parserVars, holds, ended, announced, owner, stat, pieces, strayed>>

\* Reader k learns that the part is over.
PartOver(k) == stat' = [stat EXCEPT ![k] = "eof"]

\* read_part of a part whose end was seen does not touch the channel.
ReadAfterEnd(k) ==
  /\ lock = k /\ ended
  /\ PartOver(k)
  /\ Return(k)
  /\ UNCHANGED <<form, parserVars, events, holds, ended, iter, announced, owner, pieces,
                 strayed>>

\* read_part returns a chunk.
ReadChunk(k) ==
  /\ lock = k /\ ~ended /\ Has({"chunk"})
  /\ events' = Tail(events)
  /\ pieces' = [pieces EXCEPT ![k] = Append(@, <<Head(events).part, Head(events).chunk>>)]
  /\ Return(k)
  /\ UNCHANGED <<form, parserVars, holds, ended, iter, announced, owner, stat, strayed>>

\* read_part meets the end of the part, or the safety net: a part, or the end of
\* the form.
ReadEnd(k) ==
  /\ lock = k /\ ~ended /\ (Has({"partEnd", "part"}) \/ Closed)
  /\ events' = IF Closed THEN events ELSE Tail(events)
  /\ ended' = TRUE
  /\ PartOver(k)
  /\ Return(k)
  /\ UNCHANGED <<form, parserVars, holds, iter, announced, owner, pieces, strayed>>

\* read_part throws the rejection.
ReadRejected(k) ==
  /\ lock = k /\ ~ended /\ Has({"reject"})
  /\ events' = Tail(events)
  /\ stat' = [stat EXCEPT ![k] = "failed"]
  /\ Return(k)
  /\ UNCHANGED <<form, parserVars, holds, ended, iter, announced, owner, pieces, strayed>>

-----------------------------------------------------------------------------
\* Nothing is left to do.
Finished ==
  /\ parser = "over" /\ (iter = "none" \/ ~holds)
  /\ UNCHANGED vars

ParserStep ==
  \/ Arrive \/ NextField \/ FormEnds \/ NextChunk \/ PartEnds \/ Malformed \/ EventSent
JsStep ==
  \/ CallNext \/ LeaveForm \/ ReleaseForm
  \/ \E k \in DOMAIN announced : NewReader(k)
  \/ \E j \in DOMAIN owner : CallRead(j)
CallStep ==
  \/ \E c \in calls : Acquire(c)
  \/ NextSkips \/ NextReturns \/ NextStops
  \/ \E k \in calls \ {NextCall} :
       ReadAfterEnd(k) \/ ReadChunk(k) \/ ReadEnd(k) \/ ReadRejected(k)

FormStep == ParserStep \/ JsStep \/ CallStep

Next == FormStep \/ Finished

Spec == Init /\ [][Next]_vars

-----------------------------------------------------------------------------
(* Properties.                                                             *)

\* The chunks of part n of the form.
ChunksOf(n) == [i \in 1 .. Len(form.parts[n].ends) |-> <<n, i>>]

\* An iteration that ends without an error, and in which no read of a part failed,
\* has seen every part, in order (multipart.rs 55-63, 126-137, stream.rs 183-237):
\* a break in the upload is not taken for its end, and read_part never swallows
\* the head of a part, although its safety net would.
IterationIsWhole ==
  iter = "end" /\ (\A k \in DOMAIN stat : stat[k] # "failed")
    => announced = [n \in 1 .. Len(form.parts) |-> n]

\* A part that was read to its end was given all its chunks and no others, provided
\* the handler read the parts one after the other, each by one reader (stream.rs
\* 183-237, context.ts 337-346): then no chunk is lost or taken for another part's,
\* even if parts were left half read or not at all.
PartIsWhole ==
  ~strayed => \A j \in DOMAIN stat :
    stat[j] = "eof" => pieces[j] = ChunksOf(announced[owner[j]])

\* What JS saw of the form is whole, the list of the parts and each part.
FormIsWhole == IterationIsWhole /\ PartIsWhole

\* What a limit or a type check refuses never reaches JS (multipart.rs 70-131):
\* neither a part too many, nor a file of a type that is not admitted, nor a byte
\* of a part behind its limit, nor a byte twice, however the chunks were divided
\* among readers.
OnlyAdmitted ==
  LET told(f) == {n \in 1 .. Len(form.parts) :
                    form.parts[n].file = f /\ \E k \in DOMAIN announced : announced[k] = n}
  IN
  /\ Cardinality(told(TRUE)) <= MaxFiles
  /\ Cardinality(told(FALSE)) <= MaxFields
  /\ \A n \in told(TRUE) : Admitted(form.parts[n])
  /\ \A k \in DOMAIN pieces : \A i \in DOMAIN pieces[k] :
       /\ End(pieces[k][i][1], pieces[k][i][2]) <= SizeLimit(pieces[k][i][1])
       /\ \A l \in DOMAIN pieces : \A j \in DOMAIN pieces[l] :
            pieces[k][i] = pieces[l][j] => k = l /\ i = j

\* next_part skips "the tail of an unread" part (stream.rs 183) and read_part
\* reads "the current part" (stream.rs 214): whatever became of the parts before,
\* and of the readers made for them, the one reader of the part the iterator is at is
\* given all of it before its end.
EveryPartIsWhole ==
  iter = "idle" => \A j \in DOMAIN stat :
    stat[j] = "eof" /\ {i \in DOMAIN owner : owner[i] = Current} = {j}
      => pieces[j] = ChunksOf(announced[Current])
=============================================================================
