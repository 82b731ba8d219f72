--------------------------- MODULE RequestParser ---------------------------
(***************************************************************************)
(* The requests of one connection as Client::_clientReadCb and httpRequest *)
(* (src/httpMessage/httpRequest/) take them out of the read buffer: the    *)
(* bytes come in fragments cut anywhere, and each fragment is parsed as    *)
(* far as it goes.                                                         *)
(*                                                                         *)
(*   buf      _clientReadBuffer                                            *)
(*   req      _request                                                     *)
(*   code     the error the request was refused with, 0 if none: the       *)
(*            connection reads no further                                  *)
(*   message  the request the peer is sending                              *)
(*   sent     how many of its bytes have come                              *)
(*   reads    in how many reads                                            *)
(*   count    requests begun                                               *)
(***************************************************************************)
EXTENDS Buffer

CONSTANTS
  Messages,       \* the requests the peer may send
  MaxMessages,    \* bound: requests sent on the connection
  MaxReads,       \* bound: reads in which one request comes
  MaxBody,        \* clientMaxBodySize of the location
  MaxHeader       \* DEFAULT_MAX_HEADER_SIZE

\* A start line: its method, and the code that resolving its path throws.
StartLines ==
  [GET |-> 0, POST |-> 0, LOST |-> 404]

\* Header fields, the number a Content-Length gives, the sizes of chunks.
Lengths    == [Length0 |-> 0, Length1 |-> 1, Length3 |-> 3, Length9 |-> 9]
Fields     == {"Host", "Chunked", "Other"} \union DOMAIN Lengths
ChunkSizes == [x0 |-> 0, x1 |-> 1, x2 |-> 2, x9 |-> 9]

Bytes == {CR, LF} \union DOMAIN StartLines \union Fields \union DOMAIN ChunkSizes
         \union {"a", "b", "c", "junk"}

\* A message: its bytes, the positions where the network may cut it, the
\* header and body it carries and the outcomes it may have, 0 if accepted.
ASSUME ParserAssumption ==
  /\ \A m \in Messages :
       /\ m.wire \in Seq(Bytes) \ {<<>>}
       /\ m.cuts \subseteq DOMAIN m.wire /\ Len(m.wire) \in m.cuts
       /\ m.fields \subseteq Fields
       /\ m.codes \subseteq Nat
  /\ MaxMessages \in Nat \ {0}
  /\ {MaxReads, MaxBody, MaxHeader} \subseteq Nat

VARIABLES buf, req, code, message, sent, reads, count

vars == <<buf, req, code, message, sent, reads, count>>

-----------------------------------------------------------------------------
EmptyRequest ==
  [start |-> "none", fields |-> {}, header |-> FALSE, chunked |-> FALSE,
   sized |-> FALSE, length |-> 0, resolved |-> FALSE, body |-> <<>>, bodyLen |-> 0,
   done |-> FALSE, size |-> 0, sizeKnown |-> FALSE, firstLine |-> FALSE]

\* What a parsing function works on: the buffer and the request, the code it
\* throws, and whether its loop goes on.
Work(b, r)     == [buf |-> b, req |-> r, code |-> 0, more |-> TRUE]
Throw(w, c)    == [w EXCEPT !.code = c, !.more = FALSE]
Stop(w)        == [w EXCEPT !.more = FALSE]
TakeLine(w)    == [w EXCEPT !.buf = AfterLine(@)]

\* A loop takes two bytes at least from the buffer in each round; none is
\* begun once an error was thrown.
Repeat(Round(_), w) ==
  LET rounds == Size(w.buf) + 1
      Step(v) == IF v.more THEN Round(v) ELSE v
      after[n \in 0..rounds] ==
        IF n = 0 THEN [w EXCEPT !.more = w.code = 0] ELSE Step(after[n - 1])
  IN  after[rounds]

-----------------------------------------------------------------------------
\* Header.

\* _parseHttpStartLine: the first line that is not empty.
StartLine(w) ==
  CASE ~HasLine(w.buf) -> Stop(w)
    [] HasLine(w.buf) /\ Line(w.buf) = <<>> -> TakeLine(w)
    [] HasLine(w.buf) /\ Line(w.buf) \in {<<s>> : s \in DOMAIN StartLines} ->
         Stop([TakeLine(w) EXCEPT !.req.start = Line(w.buf)[1]])
    [] OTHER -> Throw(TakeLine(w), 400)

\* _checkHttpHeaders and _setVars, at the empty line.
HeaderEnd(w) ==
  LET fields  == w.req.fields
      lengths == fields \intersect DOMAIN Lengths
      chunked == "Chunked" \in fields
  IN  IF "Host" \notin fields THEN Throw(w, 400)
      ELSE Stop([w EXCEPT !.req.chunked = chunked, !.req.sized = lengths # {},
                          !.req.length = IF chunked \/ lengths = {} THEN 0
                                         ELSE Lengths[CHOOSE f \in lengths : TRUE]])

\* _parseHttpHeaders: lines up to the empty one, or up to the last there is.
HeaderLine(w) ==
  CASE ~HasLine(w.buf) -> Stop(w)
    [] HasLine(w.buf) /\ Line(w.buf) = <<>> -> HeaderEnd(TakeLine(w))
    [] HasLine(w.buf) /\ Line(w.buf) \in {<<f>> : f \in Fields} ->
         [TakeLine(w) EXCEPT !.req.fields = @ \union {Line(w.buf)[1]}]
    [] OTHER -> Throw(TakeLine(w), 400)

\* parseHeader: complete whatever was found.
ParseHeader(w) ==
  LET h == Repeat(HeaderLine, Repeat(StartLine, w))
  IN  [h EXCEPT !.req.header = h.code = 0]

\* _resolvePathAndLocationBlock; an address was only read from a start line.
Resolve(w) ==
  LET r == [w EXCEPT !.req.resolved = TRUE]
  IN  CASE w.code # 0 \/ w.req.resolved -> w
        [] ~(w.code # 0 \/ w.req.resolved) /\ w.req.start # "none" /\ StartLines[w.req.start] # 0 ->
             Throw(r, StartLines[w.req.start])
        [] OTHER -> r

-----------------------------------------------------------------------------
\* Body.

\* _addToFixedContentSize: readAndRemove replaces the body read so far.
FixedBody(w) ==
  LET missing == w.req.length - w.req.bodyLen
      last    == Size(w.buf) >= missing
      data    == Read(w.buf, IF last THEN missing ELSE Size(w.buf))
  IN  IF w.req.length > MaxBody THEN Throw(w, 413)
      ELSE [w EXCEPT !.buf = Drop(@, Len(data)), !.req.body = data, !.req.done = last,
                     !.req.bodyLen = IF last THEN w.req.length ELSE @ + Size(w.buf)]

\* Mutant: each chunk begins the body anew.
ChunkSizeAfresh(w) ==
  IF Line(w.buf) \in {<<s>> : s \in DOMAIN ChunkSizes}
    THEN [TakeLine(w) EXCEPT !.req.size = ChunkSizes[Line(w.buf)[1]], !.req.sizeKnown = TRUE,
                             !.req.body = <<>>]
    ELSE Throw(TakeLine(w), 400)

\* One line of _addChunkedContent: a size...
ChunkSize(w) ==
  LET line == Line(w.buf)
      v    == TakeLine(w)
  IN  CASE line = <<>> -> Stop(v)
        [] line \in {<<s>> : s \in DOMAIN ChunkSizes} ->
             [v EXCEPT !.req.size = ChunkSizes[line[1]], !.req.sizeKnown = TRUE]
        [] OTHER -> Throw(v, 400)

\* Mutant: the limit is tested for each chunk alone.
ChunkDataUncounted(w) ==
  CASE w.req.size > MaxBody -> Throw(TakeLine(w), 413)
    [] w.req.size = 0 -> Stop([TakeLine(w) EXCEPT !.req.done = TRUE])
    [] OTHER -> [TakeLine(w) EXCEPT !.req.body = @ \o Line(w.buf), !.req.size = 0,
                                    !.req.sizeKnown = FALSE]

\* ...or the data it announced, which is the next line whatever its length.
ChunkData(w) ==
  LET line == Line(w.buf)
      v    == TakeLine(w)
  IN  CASE w.req.bodyLen + w.req.size > MaxBody -> Throw(v, 413)
        [] w.req.bodyLen + w.req.size <= MaxBody /\ w.req.size = 0 ->
             IF line = <<>> THEN Stop([v EXCEPT !.req.done = TRUE]) ELSE Throw(v, 400)
        [] OTHER -> [v EXCEPT !.req.body = @ \o line, !.req.bodyLen = @ + Len(line),
                              !.req.size = 0, !.req.sizeKnown = FALSE]

ChunkedBody(w) ==
  LET round(v) == CASE ~HasLine(v.buf) -> Stop(v)
                    [] HasLine(v.buf) /\ v.req.sizeKnown -> ChunkData(v)
                    [] OTHER -> ChunkSize(v)
  IN  Repeat(round, w)

\* _addUntilNewline: one line is the body, the next one ends it.  Without a
\* line the buffer becomes the body, and what it held is not counted.
UntilNewline(w) ==
  LET first == IF w.req.firstLine THEN w
               ELSE LET line == IF HasLine(w.buf) THEN Line(w.buf) ELSE Contents(w.buf)
                        v    == IF HasLine(w.buf) THEN TakeLine(w) ELSE w
                    IN  [v EXCEPT !.req.body = @ \o line, !.req.bodyLen = @ + Len(line),
                                  !.req.firstLine = TRUE]
  IN  CASE w.buf.lines = 0 -> [w EXCEPT !.req.body = Contents(w.buf), !.buf = Clear(@)]
        [] w.buf.lines # 0 /\ first.buf.lines # 0 ->
             [first EXCEPT !.req.done = TRUE, !.buf = IF HasLine(@) THEN AfterLine(@) ELSE @]
        [] OTHER -> first

HasNoBody(r) == r.start \in {"GET", "LOST"}

\* The end of parse, and parseBody.
ParseBody(w) ==
  CASE w.code # 0 \/ w.req.done -> w
    [] ~(w.code # 0 \/ w.req.done) /\ HasNoBody(w.req) -> [w EXCEPT !.req.done = TRUE]
    [] OTHER -> IF Size(w.buf) = 0 THEN w
                ELSE IF w.req.chunked THEN ChunkedBody(w)
                ELSE IF w.req.sized THEN FixedBody(w) ELSE UntilNewline(w)

-----------------------------------------------------------------------------
\* parse: nothing before a header's end has come.
Parse(w) ==
  IF ~w.req.header /\ w.buf.empty = 0 THEN w
  ELSE ParseBody(Resolve(IF w.req.header THEN w ELSE ParseHeader(w)))

\* The response was sent, so _request.clear ran and left the buffer as it was;
\* the peer begins its next request.
NextMessage(m) ==
  /\ count < MaxMessages
  /\ req.done
  /\ req' = EmptyRequest
  /\ message' = m
  /\ sent' = 0
  /\ reads' = 0
  /\ count' = count + 1
  /\ UNCHANGED <<buf, code>>

\* What a read leaves; an error drops the buffer and the request.
Parsed(w) ==
  LET long == ~w.req.header /\ Size(w.buf) > MaxHeader IN
  /\ code' = IF w.code = 0 /\ long THEN 413 ELSE w.code
  /\ buf' = IF code' = 0 THEN w.buf ELSE Clear(w.buf)
  /\ req' = IF code' = 0 THEN w.req ELSE EmptyRequest

\* _clientReadCb: one read, of the bytes up to a cut.
Receive(cut) ==
  /\ code = 0
  /\ ~req.done
  /\ cut > sent
  /\ reads + 1 < MaxReads \/ cut = Len(message.wire)
  /\ sent' = cut
  /\ reads' = reads + 1
  /\ Parsed(Parse(Work(Add(buf, SubSeq(message.wire, sent + 1, cut)), req)))
  /\ UNCHANGED <<message, count>>

Init ==
  /\ buf = EmptyBuffer
  /\ req = EmptyRequest
  /\ code = 0
  /\ message \in Messages
  /\ sent = 0
  /\ reads = 0
  /\ count = 1

Next ==
  \/ \E m \in Messages : NextMessage(m)
  \/ \E cut \in message.cuts : Receive(cut)

Spec == Init /\ [][Next]_vars
-----------------------------------------------------------------------------
\* The requests whose bytes are lines: a start line, fields, an empty line and,
\* if the method has a body, chunks of two lines each, the last one empty.  The
\* other forms of a body are left out: one of a fixed size, or up to an empty
\* line, is read right only if it comes at once.
Text   == Bytes \ {CR, LF}
Chunks == [size : DOMAIN ChunkSizes, data : Seq(Text)]

InLines(lines) == FlattenSeq([i \in DOMAIN lines |-> lines[i] \o <<CR, LF>>])

RequestLines(start, fields, chunks) ==
  LET end      == Len(fields) + 2
      chunk(i) == chunks[(i - end + 1) \div 2]
  IN  [i \in 1..(end + 2 * Len(chunks)) |->
         CASE i = 1 -> <<start>>
           [] i \in 2..(end - 1) -> <<fields[i - 1]>>
           [] i = end -> <<>>
           [] i > end /\ (i - end) % 2 = 1 -> <<chunk(i).size>>
           [] OTHER -> chunk(i).data]

\* m is such a request, within the limits: each line of its header is one token
\* and a line end.
WellFormed(m, fields, chunks) ==
  /\ m.start \in DOMAIN StartLines /\ StartLines[m.start] \in m.codes
  /\ fields \in Seq(Fields) /\ m.fields = ToSet(fields) /\ "Host" \in m.fields
  /\ 3 * (Len(fields) + 1) + 2 <= MaxHeader
  /\ chunks \in Seq(Chunks)
  /\ m.wire = InLines(RequestLines(m.start, fields, chunks))
  /\ m.body = FlattenSeq([i \in DOMAIN chunks |-> chunks[i].data])
  /\ Len(m.body) <= MaxBody
  /\ IF HasNoBody(m) THEN chunks = <<>> ELSE "Chunked" \in m.fields /\ chunks # <<>>
  /\ \A i \in DOMAIN chunks :
       /\ Len(chunks[i].data) = ChunkSizes[chunks[i].size]
       /\ ChunkSizes[chunks[i].size] = 0 <=> i = Len(chunks)

AllWellFormed ==
  \A m \in Messages : \E fields \in Seq(Fields), chunks \in Seq(Chunks) : WellFormed(m, fields, chunks)

-----------------------------------------------------------------------------
TypeOK ==
  /\ buf.items \in Seq([data : Seq(Bytes), lines : Nat])
  /\ buf.lines \in Nat /\ buf.empty \in Nat /\ buf.nl \in NewLineStatus
  /\ req \in [start : {"none"} \union DOMAIN StartLines, fields : SUBSET Fields,
              header : BOOLEAN, chunked : BOOLEAN, sized : BOOLEAN, length : Nat,
              resolved : BOOLEAN, body : Seq(Bytes), bodyLen : Nat, done : BOOLEAN,
              size : Nat, sizeKnown : BOOLEAN, firstLine : BOOLEAN]
  /\ code \in Nat
  /\ message \in Messages
  /\ sent \in 0..Len(message.wire)
  /\ reads \in Nat
  /\ count \in 1..MaxMessages

\* The running count of lines is the sum of the counts of the items, so what
\* remove subtracts from the unsigned count was added before: it never wraps,
\* however items are popped, cut and counted afresh.
CountsAgree == buf.lines = LinesOf(buf.items)

\* A header that is taken for complete is the header that was sent, all of it,
\* wherever it was cut and whatever the requests before left in the buffer's
\* status and counts.
HeaderWhole ==
  req.header => req.start = message.start /\ req.fields = message.fields

\* A request that is complete has exactly the body that was sent, and nothing
\* of it is left in the buffer for the next request.
BodyWhole ==
  req.done => req.body = message.body /\ Size(buf) = 0

\* Once all of a request has come it is complete or refused: no miscounted line
\* leaves the peer waiting for an answer and the parser for input.
NeverStalls == sent = Len(message.wire) => req.done \/ code # 0

\* A request is refused for what is wrong with it and for nothing else, and a
\* request that must be refused never completes: 0 stands for acceptance.
RefusedRightly ==
  /\ code # 0 => code \in message.codes
  /\ req.done => 0 \in message.codes
=============================================================================
