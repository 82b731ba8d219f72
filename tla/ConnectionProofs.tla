-------------------------- MODULE ConnectionProofs --------------------------
(***************************************************************************)
(* Theorems of Connection, for every value of its constants.               *)
(***************************************************************************)
EXTENDS Connection, TLAPS, SequenceTheorems

(***************************************************************************)
(* What is true of a file at any moment: the buffer holds the last units   *)
(* read, no more than it may; a handler at its end has dropped its         *)
(* descriptor and, when the socket never makes the connection wait, has    *)
(* read the whole file.                                                    *)
(***************************************************************************)
GoodHandler(h) ==
  /\ h \in Handlers
  /\ h.buf <= BufferSize /\ h.buf <= h.pos /\ h.pos <= h.len
  /\ AlwaysWritable /\ h.eof /\ ~h.bad => h.pos = h.len

GoodFile(f)   == f = NoFile \/ GoodHandler(f)
GoodClients   == {c \in Clients : GoodFile(c.file)}

-----------------------------------------------------------------------------
LEMMA TokenTypes ==
  /\ Units \subseteq Tokens /\ Heads \subseteq Tokens /\ LastChunk \in Tokens
  /\ \A src \in Sources, i \in Nat : Unit(src, i) \in Units
BY DEF Tokens, Units, Heads, LastChunk, Unit

LEMMA UnitsAreTokens ==
  ASSUME NEW s \in Seq(Units) PROVE s \in Seq(Tokens)
BY TokenTypes

LEMMA SetFixedSizeBodyType ==
  ASSUME NEW resp \in Responses, NEW body \in Seq(Units)
  PROVE  SetFixedSizeBody(resp, body) \in Responses
BY DEF SetFixedSizeBody, Responses

LEMMA SetCodeType ==
  ASSUME NEW resp \in Responses, NEW code \in Nat
  PROVE  SetCode(resp, code) \in Responses
<1>1. <<Unit("error", 1)>> \in Seq(Units)
  BY TokenTypes DEF Sources
<1>2. [resp EXCEPT !.code = code] \in Responses
  BY DEF Responses, Codes
<1>3. SetFixedSizeBody([resp EXCEPT !.code = code], <<Unit("error", 1)>>) \in Responses
  BY <1>1, <1>2, SetFixedSizeBodyType
<1> QED BY <1>2, <1>3 DEF SetCode

LEMMA HeadType ==
  ASSUME NEW resp \in Responses, NEW framing \in {"fixed", "chunked", "cut"}
  PROVE  HeadOf(resp, framing) \in Heads
<1>1. resp.code \in Codes /\ Len(resp.body) \in Nat
  BY LenProperties DEF Responses
<1> QED BY <1>1 DEF HeadOf, Heads

LEMMA FixedBodyResponseType ==
  ASSUME NEW resp \in Responses
  PROVE  /\ FixedBodyResponse(resp) \in Seq(Tokens)
         /\ StartLineAndHeaders(resp) \in Seq(Tokens)
         /\ ChunkedHead(resp) \in Seq(Tokens)
<1>1. resp.body \in Seq(Tokens)
  BY UnitsAreTokens DEF Responses
<1>2. ASSUME NEW framing \in {"fixed", "chunked", "cut"}
      PROVE  <<HeadOf(resp, framing)>> \in Seq(Tokens)
  BY HeadType, TokenTypes
<1>3. FixedBodyResponse(resp) \in Seq(Tokens)
  BY <1>1, <1>2, ConcatProperties DEF FixedBodyResponse
<1>4. [HeadOf(resp, "chunked") EXCEPT !.n = 0] \in Tokens
  BY HeadType, TokenTypes DEF Heads
<1> QED BY <1>2, <1>3, <1>4 DEF StartLineAndHeaders, ChunkedHead

LEMMA ChunkType ==
  ASSUME NEW resp \in Responses, NEW line \in Seq(Units)
  PROVE  /\ Chunk(line) \in Seq(Tokens)
         /\ AfterChunk(resp, line) \in Responses
         /\ StartChunked(resp) \in Responses
<1>1. Chunk(line) \in Seq(Tokens)
  BY TokenTypes, UnitsAreTokens DEF Chunk
<1> QED BY <1>1 DEF AfterChunk, StartChunked, Responses
-----------------------------------------------------------------------------
LEMMA OpenGood ==
  ASSUME NEW src \in Sources, NEW f \in FileStates
  PROVE  GoodHandler(Open(src, f)) /\ ~Open(src, f).polled
BY BufferSizeAssumption DEF Open, GoodHandler, Handlers, FileStates

LEMMA ReadGood ==
  ASSUME NEW h, GoodHandler(h)
  PROVE  /\ ReadUnits(h) \in Seq(Units)
         /\ GoodHandler(AfterRead(h))
         /\ AfterRead(h).buf < BufferSize
<1>1. Taken(h) \in Nat /\ Taken(h) = h.buf
  BY BufferSizeAssumption DEF Taken, GoodHandler, Handlers
<1>2. \A i \in 1..Taken(h) : Unit(h.src, h.pos - h.buf + i) \in Units
  BY <1>1 DEF GoodHandler, Handlers, Unit, Units
<1>3. ReadUnits(h) \in Seq(Units)
  BY <1>1, <1>2 DEF ReadUnits
<1>4. GoodHandler(AfterRead(h)) /\ AfterRead(h).buf = 0
  BY <1>1, BufferSizeAssumption DEF AfterRead, GoodHandler, Handlers
<1> QED BY <1>3, <1>4, BufferSizeAssumption

LEMMA ReadCbGood ==
  ASSUME NEW h, GoodHandler(h), AlwaysWritable /\ ~h.bad => h.buf < BufferSize
  PROVE  GoodHandler(ReadCb(h)) /\ GoodHandler(ReadCbFails(h))
<1>1. Got(h) \in Nat /\ h.buf + Got(h) <= BufferSize /\ h.pos + Got(h) <= h.len
  BY BufferSizeAssumption DEF Got, GoodHandler, Handlers
<1>2. h.buf < BufferSize /\ Got(h) = 0 => h.pos = h.len
  BY BufferSizeAssumption DEF Got, GoodHandler, Handlers
<1>3. ReadCb(h) \in Handlers
  <2>1. /\ h \in Handlers /\ h.pos + Got(h) \in Nat /\ h.buf + Got(h) \in Nat
        /\ (Got(h) = 0) \in BOOLEAN /\ (Got(h) # 0) \in BOOLEAN
    BY <1>1 DEF GoodHandler, Handlers
  <2> QED BY <2>1 DEF ReadCb, Handlers
<1>4. /\ ReadCb(h).pos = h.pos + Got(h)
      /\ ReadCb(h).buf = h.buf + Got(h)
      /\ ReadCb(h).len = h.len
      /\ ReadCb(h).bad = h.bad
      /\ ReadCb(h).eof <=> Got(h) = 0
  BY DEF ReadCb, GoodHandler, Handlers
<1>5. h.pos \in Nat /\ h.buf \in Nat /\ h.len \in Nat /\ h.buf <= h.pos
  BY DEF GoodHandler, Handlers
<1>6. AlwaysWritable /\ ReadCb(h).eof /\ ~ReadCb(h).bad => ReadCb(h).pos = ReadCb(h).len
  BY <1>1, <1>2, <1>4, <1>5
<1>7. GoodHandler(ReadCb(h))
  BY <1>1, <1>3, <1>4, <1>5, <1>6, BufferSizeAssumption DEF GoodHandler
<1> QED BY <1>7 DEF ReadCbFails, GoodHandler, Handlers
-----------------------------------------------------------------------------
(***************************************************************************)
(* The methods of Client keep its types and the state of its file.  A file *)
(* they replace is fresh: no callback of the running iteration reads it.   *)
(***************************************************************************)
Fresh(f) == f = NoFile \/ ~f.polled

LEMMA DiskTypes ==
  ASSUME disk \in Disks
  PROVE  /\ disk.doc \in FileStates /\ disk.page \in FileStates
         /\ disk.script \in Scripts
BY ConnectionAssumption

LEMMA ClientTypes ==
  ASSUME NEW c \in GoodClients
  PROVE  /\ c.state \in States /\ c.rbuf \in Seq(Fragments) /\ c.wbuf \in Seq(Tokens)
         /\ c.req \in Requests \union {NoRequest} /\ c.resp \in Responses
         /\ GoodFile(c.file) /\ c.cgi \in CgiMessages \union {NoScript}
         /\ c.file \in Handlers \union {NoFile}
BY DEF GoodClients, Clients

LEMMA ReturnErrorGood ==
  ASSUME NEW c \in GoodClients, NEW code \in Nat, disk \in Disks
  PROVE  LET d == ReturnError(c, code) IN
         d \in GoodClients /\ (d.file = c.file \/ Fresh(d.file)) /\ d.cgi = c.cgi
<1> DEFINE resp == SetCode(c.resp, code)
           plain == [c EXCEPT !.rbuf = <<>>, !.req = NoRequest, !.resp = resp, !.state = "ERROR",
                              !.wbuf = FixedBodyResponse(resp)]
           page == [c EXCEPT !.rbuf = <<>>, !.req = NoRequest, !.resp = resp, !.state = "ERROR",
                             !.wbuf = <<>>, !.file = Open("page", disk.page)]
<1>1. resp \in Responses /\ FixedBodyResponse(resp) \in Seq(Tokens)
  BY ClientTypes, SetCodeType, FixedBodyResponseType
<1>2. <<>> \in Seq(Fragments) /\ <<>> \in Seq(Tokens) /\ "ERROR" \in States
  BY DEF States
<1>3. GoodHandler(Open("page", disk.page)) /\ ~Open("page", disk.page).polled
  BY OpenGood, DiskTypes DEF Sources
<1>4. ReturnError(c, code) \in {plain, page}
  BY ClientTypes DEF ReturnError
<1>5. plain \in GoodClients /\ plain.file = c.file /\ plain.cgi = c.cgi
  <2> HIDE DEF resp
  <2> QED BY <1>1, <1>2, ClientTypes DEF GoodClients, Clients
<1>6. page \in GoodClients /\ Fresh(page.file) /\ page.cgi = c.cgi
  <2> HIDE DEF resp
  <2> QED BY <1>1, <1>2, <1>3, ClientTypes DEF GoodClients, Clients, GoodFile, GoodHandler, Fresh
<1> QED BY <1>4, <1>5, <1>6

LEMMA FixedAnswerGood ==
  ASSUME NEW c \in GoodClients, NEW resp \in Responses
  PROVE  LET d == FixedAnswer(c, resp) IN
         d \in GoodClients /\ d.file = c.file /\ d.cgi = c.cgi
BY ClientTypes, FixedBodyResponseType DEF FixedAnswer, GoodClients, Clients

LEMMA BuildResponseGood ==
  ASSUME NEW c \in GoodClients, disk \in Disks
  PROVE  LET d == BuildResponse(c) IN
         d \in GoodClients /\ (d.file = c.file \/ Fresh(d.file))
<1> DEFINE listing == SetCode(SetFixedSizeBody(c.resp, <<Unit("listing", 1)>>), 200)
           notice  == SetFixedSizeBody(SetCode(c.resp, 200), <<Unit("notice", 1)>>)
           script  == [c EXCEPT !.cgi = Start]
           doc     == [c EXCEPT !.file = Open("doc", disk.doc)]
<1>1. BuildResponse(c) \in {script, FixedAnswer(c, listing), doc, FixedAnswer(c, notice),
                            ReturnError(c, 999), ReturnError(c, 500)}
  BY DEF BuildResponse
<1>2. <<Unit("listing", 1)>> \in Seq(Units) /\ <<Unit("notice", 1)>> \in Seq(Units)
  BY TokenTypes DEF Sources
<1>3. listing \in Responses /\ notice \in Responses
  <2>1. c.resp \in Responses
    BY ClientTypes
  <2>2. listing \in Responses
    <3>1. SetFixedSizeBody(c.resp, <<Unit("listing", 1)>>) \in Responses
      BY <1>2, <2>1, SetFixedSizeBodyType
    <3> QED BY <3>1, SetCodeType
  <2>3. notice \in Responses
    <3>1. SetCode(c.resp, 200) \in Responses
      BY <2>1, SetCodeType
    <3> QED BY <1>2, <3>1, SetFixedSizeBodyType
  <2> QED BY <2>2, <2>3
<1>4. script \in GoodClients /\ script.file = c.file
  BY ClientTypes DEF GoodClients, Clients, Start, CgiMessages
<1>5. doc \in GoodClients /\ Fresh(doc.file)
  <2>1. GoodHandler(Open("doc", disk.doc)) /\ ~Open("doc", disk.doc).polled
    BY OpenGood, DiskTypes DEF Sources
  <2> QED BY <2>1, ClientTypes DEF GoodClients, Clients, GoodFile, GoodHandler, Fresh
<1>6. \A resp \in {listing, notice} :
        FixedAnswer(c, resp) \in GoodClients /\ FixedAnswer(c, resp).file = c.file
  BY <1>3, FixedAnswerGood
<1>7. \A code \in {999, 500} :
        /\ ReturnError(c, code) \in GoodClients
        /\ ReturnError(c, code).file = c.file \/ Fresh(ReturnError(c, code).file)
  BY ReturnErrorGood
<1> HIDE DEF listing, notice, script, doc
<1> QED BY <1>1, <1>4, <1>5, <1>6, <1>7

LEMMA ParseGood ==
  ASSUME NEW c \in GoodClients, c.rbuf # <<>>, disk \in Disks
  PROVE  LET d == Parse(c) IN
         d \in GoodClients /\ (d.file = c.file \/ Fresh(d.file))
<1> DEFINE d == [c EXCEPT !.rbuf = SubSeq(@, 3, Len(@))]
           r == c.rbuf[1].req
           e == [d EXCEPT !.req = r]
<1>1. c.rbuf[1] \in Fragments /\ r \in Requests
  <2>1. c.rbuf \in Seq(Fragments) /\ Len(c.rbuf) # 0
    BY ClientTypes, EmptySeq
  <2>2. c.rbuf[1] \in Fragments
    BY <2>1, LenProperties, ElementOfSeq
  <2> QED BY <2>2 DEF Fragments
<1>2. SubSeq(c.rbuf, 3, Len(c.rbuf)) \in Seq(Fragments)
  BY ClientTypes, SubSeqProperties, LenProperties
<1>3. d \in GoodClients /\ d.file = c.file
  BY <1>2, ClientTypes DEF GoodClients, Clients
<1>4. e \in GoodClients /\ e.file = c.file
  <2> HIDE DEF d, r
  <2> QED BY <1>1, <1>3, ClientTypes DEF GoodClients, Clients
<1>5. Parse(c) \in {c, ReturnError(c, 400), e} \union
                   {ReturnError(x, RejectCodes[k]) : x \in {d, e}, k \in DOMAIN RejectCodes}
  BY DEF Parse, Rejected, RejectCodes
<1>6. \A k \in DOMAIN RejectCodes : RejectCodes[k] \in Nat
  BY DEF RejectCodes
<1>7. ASSUME NEW x \in {c, d, e}, NEW code \in Nat
      PROVE  /\ ReturnError(x, code) \in GoodClients
             /\ ReturnError(x, code).file = c.file \/ Fresh(ReturnError(x, code).file)
  <2>1. x \in GoodClients /\ x.file = c.file
    BY <1>3, <1>4
  <2> HIDE DEF d, e
  <2> QED BY <2>1, ReturnErrorGood
<1> HIDE DEF d, e
<1> QED BY <1>4, <1>5, <1>6, <1>7

LEMMA HandleInputGood ==
  ASSUME NEW c \in GoodClients, c.rbuf # <<>>, disk \in Disks
  PROVE  LET d == HandleInput(c) IN
         d \in GoodClients /\ (d.file = c.file \/ Fresh(d.file))
<1> DEFINE a == [c EXCEPT !.state = "READ_REQUEST"]
           p == Parse(a)
           b == [p EXCEPT !.state = "BUILDING_RESPONSE"]
<1>1. a \in GoodClients /\ a.file = c.file /\ a.rbuf # <<>>
  BY ClientTypes DEF GoodClients, Clients, States
<1>2. p \in GoodClients /\ (p.file = c.file \/ Fresh(p.file))
  <2> HIDE DEF a
  <2> QED BY <1>1, ParseGood
<1>3. b \in GoodClients /\ b.file = p.file
  <2> HIDE DEF p
  <2> QED BY <1>2, ClientTypes DEF GoodClients, Clients, States
<1>4. BuildResponse(b) \in GoodClients /\ (BuildResponse(b).file = b.file \/ Fresh(BuildResponse(b).file))
  <2> HIDE DEF b
  <2> QED BY <1>3, BuildResponseGood
<1>5. HandleInput(c) \in {p, BuildResponse(b)}
  BY DEF HandleInput
<1> HIDE DEF p, b
<1> QED BY <1>2, <1>3, <1>4, <1>5
-----------------------------------------------------------------------------
(***************************************************************************)
(* The write callback leaves no full buffer behind, unless the file is bad *)
(* or was opened by the callback itself.                                   *)
(***************************************************************************)
Drained(f) == Fresh(f) \/ f.bad \/ f.buf < BufferSize

LEMMA SendChunkGood ==
  ASSUME NEW c \in GoodClients, NEW stale \in BOOLEAN, c.file # NoFile
  PROVE  LET d == SendChunk(c, stale) IN d \in GoodClients /\ Drained(d.file)
<1> DEFINE resp  == SetCode(c.resp, 200)
           chunk == ReadUnits(c.file)
           next  == [c EXCEPT !.state = "WRITE_RESPONSE", !.file = AfterRead(c.file)]
           a == [next EXCEPT !.resp = AfterChunk(resp, chunk), !.wbuf = @ \o Chunk(chunk)]
           b == [next EXCEPT !.resp = AfterChunk(StartChunked(resp), <<>>),
                             !.wbuf = ChunkedHead(resp), !.file = NoFile]
           e == [next EXCEPT !.resp = AfterChunk(StartChunked(resp), chunk),
                             !.wbuf = ChunkedHead(resp) \o Chunk(chunk)]
<1>1. /\ chunk \in Seq(Units)
      /\ GoodHandler(AfterRead(c.file)) /\ AfterRead(c.file).buf < BufferSize
  BY ClientTypes, ReadGood DEF GoodFile
<1>2. next \in GoodClients /\ Drained(next.file)
  BY <1>1, ClientTypes DEF GoodClients, Clients, GoodFile, GoodHandler, States, Drained
<1>3. resp \in Responses /\ StartChunked(resp) \in Responses
  BY ClientTypes, SetCodeType, ChunkType, <1>1
<1>4. <<>> \in Seq(Units)
  BY EmptySeq
<1>5. /\ AfterChunk(resp, chunk) \in Responses
      /\ AfterChunk(StartChunked(resp), <<>>) \in Responses
      /\ AfterChunk(StartChunked(resp), chunk) \in Responses
  <2> HIDE DEF resp, chunk
  <2> QED BY <1>1, <1>3, <1>4, ChunkType
<1>6. Chunk(chunk) \in Seq(Tokens) /\ ChunkedHead(resp) \in Seq(Tokens)
  <2> HIDE DEF resp, chunk
  <2> QED BY <1>1, <1>3, ChunkType, FixedBodyResponseType
<1>7. /\ next.wbuf \o Chunk(chunk) \in Seq(Tokens)
      /\ ChunkedHead(resp) \o Chunk(chunk) \in Seq(Tokens)
  <2> HIDE DEF resp, chunk, next
  <2> QED BY <1>2, <1>6, ClientTypes, ConcatProperties
<1>8. /\ a \in GoodClients /\ a.file = next.file
      /\ b \in GoodClients /\ b.file = NoFile
      /\ e \in GoodClients /\ e.file = next.file
  <2> HIDE DEF resp, chunk, next
  <2> QED BY <1>2, <1>5, <1>6, <1>7, ClientTypes DEF GoodClients, Clients, GoodFile
<1>9. SendChunk(c, stale) \in {a, b, e}
  BY DEF SendChunk
<1> HIDE DEF a, b, e, next
<1> QED BY <1>2, <1>8, <1>9 DEF Drained, Fresh

LEMMA SendRestGood ==
  ASSUME NEW c \in GoodClients, NEW stale \in BOOLEAN, c.file # NoFile
  PROVE  LET d == SendRest(c, stale) IN d \in GoodClients /\ d.file = NoFile
<1> DEFINE rest == ReadUnits(c.file)
           resp == SetFixedSizeBody(SetCode(c.resp, 200), rest)
           next == [c EXCEPT !.state = "WRITE_RESPONSE", !.file = NoFile]
           a == [next EXCEPT !.resp = AfterChunk(c.resp, <<>>),
                             !.wbuf = @ \o Chunk(rest) \o Chunk(<<>>)]
           b == [next EXCEPT !.resp = resp, !.wbuf = StartLineAndHeaders(resp)]
           e == [next EXCEPT !.resp = resp, !.wbuf = FixedBodyResponse(resp)]
<1>1. rest \in Seq(Units) /\ <<>> \in Seq(Units)
  BY ClientTypes, ReadGood, EmptySeq DEF GoodFile
<1>2. next \in GoodClients /\ next.file = NoFile
  BY ClientTypes DEF GoodClients, Clients, GoodFile, States
<1>3. resp \in Responses /\ AfterChunk(c.resp, <<>>) \in Responses
  BY ZenonT(60), <1>1, ClientTypes, SetCodeType, SetFixedSizeBodyType, ChunkType
<1>4. /\ next.wbuf \in Seq(Tokens)
      /\ Chunk(rest) \in Seq(Tokens) /\ Chunk(<<>>) \in Seq(Tokens)
      /\ StartLineAndHeaders(resp) \in Seq(Tokens) /\ FixedBodyResponse(resp) \in Seq(Tokens)
  <2> HIDE DEF rest, resp, next
  <2> QED BY <1>1, <1>2, <1>3, ClientTypes, ChunkType, FixedBodyResponseType
<1>5. next.wbuf \o Chunk(rest) \o Chunk(<<>>) \in Seq(Tokens)
  <2> HIDE DEF rest, next
  <2> QED BY <1>4, ConcatProperties
<1>6. \A x \in {a, b, e} : x \in GoodClients /\ x.file = NoFile
  <2> HIDE DEF rest, resp, next
  <2> QED BY ZenonT(60), <1>2, <1>3, <1>4, <1>5, ClientTypes DEF GoodClients, Clients, GoodFile
<1>7. SendRest(c, stale) \in {a, b, e}
  BY DEF SendRest
<1> HIDE DEF a, b, e
<1> QED BY <1>6, <1>7

LEMMA ReadFromFileGood ==
  ASSUME NEW c \in GoodClients, NEW stale \in BOOLEAN, c.file # NoFile, disk \in Disks
  PROVE  LET d == ReadFromFile(c, stale) IN d \in GoodClients /\ Drained(d.file)
<1>1. CASE c.file.bad
  <2> DEFINE n == [c EXCEPT !.file = NoFile]
  <2>1. n \in GoodClients /\ n.file = NoFile
    BY ClientTypes DEF GoodClients, Clients, GoodFile
  <2>2. ReturnError(n, 403) \in GoodClients /\ Drained(ReturnError(n, 403).file)
    <3> HIDE DEF n
    <3> QED BY <2>1, ReturnErrorGood DEF Drained, Fresh
  <2>3. ReturnError(c, 500) \in GoodClients /\ Drained(ReturnError(c, 500).file)
    BY <1>1, ReturnErrorGood DEF Drained, Fresh
  <2>4. ReadFromFile(c, stale) \in {ReturnError(n, 403), ReturnError(c, 500)}
    BY <1>1 DEF ReadFromFile
  <2> HIDE DEF n
  <2> QED BY <2>2, <2>3, <2>4
<1>2. CASE ~c.file.bad
  <2> DEFINE d == IF ReadBufferFull(c.file) THEN SendChunk(c, stale) ELSE c
  <2>1. d \in GoodClients /\ Drained(d.file)
    <3>1. ReadBufferFull(c.file) => d \in GoodClients /\ Drained(d.file)
      BY SendChunkGood
    <3>2. ~ReadBufferFull(c.file) => d \in GoodClients /\ Drained(d.file)
      BY BufferSizeAssumption, ClientTypes DEF ReadBufferFull, Drained, GoodFile, GoodHandler, Handlers
    <3> QED BY <3>1, <3>2
  <2>2. d.file # NoFile => SendRest(d, stale) \in GoodClients /\ SendRest(d, stale).file = NoFile
    <3> HIDE DEF d
    <3> QED BY <2>1, SendRestGood
  <2>3. ReadFromFile(c, stale) = IF d.file # NoFile /\ d.file.eof THEN SendRest(d, stale) ELSE d
    BY <1>2 DEF ReadFromFile
  <2> HIDE DEF d
  <2> QED BY <2>1, <2>2, <2>3 DEF Drained, Fresh
<1> QED BY <1>1, <1>2

LEMMA ReadFromCgiGood ==
  ASSUME NEW c \in GoodClients, c.cgi # NoScript, disk \in Disks
  PROVE  LET d == ReadFromCgi(c) IN
         d \in GoodClients /\ (d.file = c.file \/ Fresh(d.file))
<1> DEFINE g    == AfterStatus(c.cgi)
           gone == [c EXCEPT !.cgi = NoScript]
           read == [gone EXCEPT !.state = "CGI_READ"]
           body == [i \in 1..g.got |-> Unit("script", i)]
           resp == SetFixedSizeBody(SetCode(c.resp, 200), body)
           wait == [c EXCEPT !.cgi = g, !.state = "CGI_WRITE"]
<1>1. g \in CgiMessages
  BY ClientTypes DEF AfterStatus, CgiMessages
<1>2. gone \in GoodClients /\ gone.file = c.file
  BY ClientTypes DEF GoodClients, Clients
<1>3. read \in GoodClients /\ read.file = c.file
  <2> HIDE DEF gone
  <2> QED BY <1>2, ClientTypes DEF GoodClients, Clients, States
<1>4. body \in Seq(Units)
  <2>1. g.got \in Nat
    BY <1>1 DEF CgiMessages
  <2>2. \A i \in 1..g.got : Unit("script", i) \in Units
    BY <2>1, TokenTypes DEF Sources
  <2> HIDE DEF g
  <2> QED BY <2>1, <2>2
<1>5. resp \in Responses
  <2> HIDE DEF body
  <2> QED BY <1>4, ClientTypes, SetCodeType, SetFixedSizeBodyType
<1>6. wait \in GoodClients /\ wait.file = c.file
  <2> HIDE DEF g
  <2> QED BY <1>1, ClientTypes DEF GoodClients, Clients, States
<1>7. ASSUME NEW code \in Nat
      PROVE  /\ ReturnError(gone, code) \in GoodClients
             /\ ReturnError(gone, code).file = c.file \/ Fresh(ReturnError(gone, code).file)
  <2> HIDE DEF gone
  <2> QED BY <1>2, ReturnErrorGood
<1>8. FixedAnswer(read, resp) \in GoodClients /\ FixedAnswer(read, resp).file = c.file
  <2> HIDE DEF read, resp
  <2> QED BY <1>3, <1>5, FixedAnswerGood
<1>9. ReadFromCgi(c) \in {FixedAnswer(read, resp), wait} \union
                         {ReturnError(gone, code) : code \in {408, 413, 500}}
  BY DEF ReadFromCgi
<1> HIDE DEF gone, read, resp, wait
<1> QED BY <1>6, <1>7, <1>8, <1>9

LEMMA FillWriteBufferGood ==
  ASSUME NEW c \in GoodClients, NEW stale \in BOOLEAN, disk \in Disks
  PROVE  LET d == FillWriteBuffer(c, stale) IN d \in GoodClients /\ Drained(d.file)
<1> DEFINE d == IF c.file = NoFile THEN c ELSE ReadFromFile(c, stale)
<1>1. d \in GoodClients /\ Drained(d.file)
  BY ReadFromFileGood DEF Drained, Fresh
<1>2. d.cgi # NoScript => ReadFromCgi(d) \in GoodClients /\ Drained(ReadFromCgi(d).file)
  <2> HIDE DEF d
  <2> QED BY <1>1, ReadFromCgiGood DEF Drained
<1>3. FillWriteBuffer(c, stale) = IF d.cgi = NoScript THEN d ELSE ReadFromCgi(d)
  BY DEF FillWriteBuffer
<1> HIDE DEF d
<1> QED BY <1>1, <1>2, <1>3

LEMMA AfterWriteGood ==
  ASSUME NEW c \in GoodClients, NEW n \in Nat
  PROVE  LET d == AfterWrite(c, n) IN
         /\ d \in GoodClients /\ d.file = c.file
         /\ Reset(d) \in GoodClients /\ Reset(d).file = NoFile
<1> DEFINE d == AfterWrite(c, n)
<1>1. SubSeq(c.wbuf, n + 1, Len(c.wbuf)) \in Seq(Tokens)
  BY ClientTypes, LenProperties, SubSeqProperties
<1>2. d \in GoodClients /\ d.file = c.file
  BY <1>1, ClientTypes DEF AfterWrite, GoodClients, Clients, States
<1>3. EmptyResponse \in Responses
  BY EmptySeq DEF EmptyResponse, Responses, Codes
<1>4. Reset(d) \in GoodClients /\ Reset(d).file = NoFile
  <2> HIDE DEF d
  <2> QED BY <1>2, <1>3, ClientTypes DEF Reset, GoodClients, Clients, GoodFile, States
<1> QED BY <1>2, <1>4

LEMMA NewClientGood ==
  ASSUME NEW state \in States
  PROVE  NewClient(state) \in GoodClients /\ NewClient(state).file = NoFile
<1>1. EmptyResponse \in Responses
  BY EmptySeq DEF EmptyResponse, Responses, Codes
<1> QED BY <1>1, EmptySeq DEF NewClient, GoodClients, Clients, GoodFile

LEMMA ScriptGood ==
  ASSUME NEW g \in CgiMessages, NEW status \in Nat
  PROVE  /\ CgiRead(g) \in CgiMessages /\ Written(g) \in CgiMessages
         /\ Exited(g, status) \in CgiMessages /\ [g EXCEPT !.late = TRUE] \in CgiMessages
<1> g.made + 1 \in Nat /\ g.pipe + 1 \in Nat /\ g.got + g.pipe \in Nat
  BY DEF CgiMessages
<1>1. /\ Written(g) \in CgiMessages
      /\ Exited(g, status) \in CgiMessages /\ [g EXCEPT !.late = TRUE] \in CgiMessages
  <2>1. \A m, w \in Nat : [g EXCEPT !.made = m, !.pipe = w] \in CgiMessages
    BY DEF CgiMessages
  <2>2. Exited(g, status) \in CgiMessages /\ [g EXCEPT !.late = TRUE] \in CgiMessages
    BY DEF Exited, CgiMessages
  <2> QED BY <2>1, <2>2 DEF Written
<1>2. CgiRead(g) \in CgiMessages
  <2>1. /\ [g EXCEPT !.complete = TRUE] \in CgiMessages
        /\ [g EXCEPT !.eof = TRUE] \in CgiMessages
        /\ \A n \in Nat : [g EXCEPT !.pipe = 0, !.got = n] \in CgiMessages
    BY DEF CgiMessages
  <2>2. (g.tooLarge \/ ~g.reaped) \in BOOLEAN /\ (g.doomed \/ g.alive) \in BOOLEAN
    BY DEF CgiMessages
  <2>3. [g EXCEPT !.pipe = 0, !.got = 0, !.tooLarge = @ \/ ~g.reaped, !.doomed = @ \/ g.alive] \in CgiMessages
    BY <2>2 DEF CgiMessages
  <2>4. [g EXCEPT !.pipe = 0, !.got = @ + g.pipe] \in CgiMessages
    BY <2>1
  <2> QED BY <2>1, <2>3, <2>4 DEF CgiRead
<1> QED BY <1>1, <1>2

LEMMA DecodeType ==
  ASSUME NEW s \in Seq(Tokens), NEW k \in DOMAIN s
  PROVE  Decode(s, k) \in Answers
<1> DEFINE stop == IF s[k] = LastChunk THEN k - 1 ELSE k
           body == SubSeq(s, 2, stop)
<1>1. Garbled \in Answers
  BY EmptySeq DEF Garbled, Answers, Codes
<1>2. ASSUME s[1].t = "head", \A i \in 2..stop : s[i].t = "unit"
      PROVE  [code |-> s[1].code, body |-> body] \in Answers
  <2>1. Len(s) \in Nat /\ k \in 1..Len(s) /\ 1 \in 1..Len(s) /\ stop \in Int /\ stop <= Len(s)
    BY LenProperties
  <2>2. s[1] \in Tokens /\ \A i \in 2..stop : s[i] \in Tokens
    BY <2>1, ElementOfSeq
  <2>3. s[1].code \in Codes
    BY <1>2, <2>2 DEF Tokens, Units, Heads, LastChunk
  <2>4. \A i \in 2..stop : s[i] \in Units
    <3> HIDE DEF stop
    <3> QED BY <1>2, <2>2 DEF Tokens, Units, Heads, LastChunk
  <2>5. body \in Seq(Units)
    <3> HIDE DEF stop
    <3> QED BY <2>1, <2>4, SubSeqProperties
  <2> HIDE DEF body
  <2> QED BY <2>3, <2>5 DEF Answers
<1> QED BY <1>1, <1>2 DEF Decode
-----------------------------------------------------------------------------
(***************************************************************************)
(* The inductive invariant.  Callbacks of the socket are due only while it *)
(* is open, a connection that is closed or erased has no file, and, when   *)
(* the socket is always writable, the callback of a file never comes       *)
(* before the callback that empties a full buffer.  The peer's half-sent   *)
(* request is the last it asked.                                           *)
(***************************************************************************)
FileOfConnection == ~(listed /\ sock.valid) => client.file = NoFile
SocketEvents     == "in" \in todo \/ "out" \in todo => listed /\ sock.valid
DrainedFirst     == AlwaysWritable /\ "file" \in todo => "out" \in todo \/ Drained(client.file)
HalfAsked        == peer.half => peer.asked # <<>>

IInv ==
  /\ TypeOK
  /\ GoodFile(client.file)
  /\ FileOfConnection
  /\ SocketEvents
  /\ DrainedFirst
  /\ HalfAsked

LEMMA InitIInv == Init => IInv
<1> SUFFICES ASSUME Init PROVE IInv
  OBVIOUS
<1>1. client \in GoodClients /\ client.file = NoFile
  BY NewClientGood, ConnectionAssumption DEF Init, States
<1>2. peer \in Peers
  BY EmptySeq DEF Init, NewPeer, Peers
<1>3. inq \in Seq(Fragments) /\ throws \in 0..MaxThrows
  BY EmptySeq, ConnectionAssumption DEF Init
<1>4. TypeOK
  BY <1>1, <1>2, <1>3 DEF Init, TypeOK, GoodClients
<1> QED BY <1>1, <1>4 DEF Init, IInv, GoodFile, FileOfConnection, SocketEvents, DrainedFirst, Drained, Fresh,
                        HalfAsked, NewPeer

\* What an action keeps when it leaves the file alone.
LEMMA SameFile ==
  ASSUME IInv, TypeOK', HalfAsked', client'.file = client.file, sock'.valid = sock.valid,
         listed' = listed, todo' = todo
  PROVE  IInv'
BY DEF IInv, FileOfConnection, SocketEvents, DrainedFirst

\* A callback of the loop: it consumes the first event that is due.
LEMMA CallsFirst ==
  ASSUME IInv, NEW event \in Events, First(event)
  PROVE  /\ todo \ {event} \subseteq Events
         /\ event # "in" => "in" \notin todo
         /\ event \notin {"in", "out"} => "out" \notin todo
         /\ event \notin {"in", "out", "file"} => "file" \notin todo
         /\ event \in {"in", "out"} => listed /\ sock.valid
<1>1. \A e \in todo : Rank[event] <= Rank[e]
  BY DEF First
<1>2. event \in {"in", "out", "file", "data", "hangup", "sweep"}
  BY DEF Events, Rank
<1>3. event # "in" => "in" \notin todo
  BY <1>1, <1>2 DEF Rank
<1>4. event \notin {"in", "out"} => "out" \notin todo
  BY <1>1, <1>2 DEF Rank
<1>5. event \notin {"in", "out", "file"} => "file" \notin todo
  BY <1>1, <1>2 DEF Rank
<1> QED BY <1>3, <1>4, <1>5 DEF First, IInv, TypeOK, SocketEvents

LEMMA PeerSteps ==
  ASSUME IInv, PeerReads \/ AskRest \/ Leave \/ (\E r \in Requests : Ask(r)) \/ IdleTimeout
  PROVE  IInv'
<1>1. peer.unread \in Seq(Tokens) /\ peer.answers \in Seq(Answers) /\ peer.asked \in Seq(Requests)
  BY DEF IInv, TypeOK, Peers
<1>2. CASE PeerReads
  <2>1. PICK k \in DOMAIN peer.unread : PeerTakes(k)
    BY <1>2 DEF PeerReads
  <2>2. Append(peer.answers, Decode(peer.unread, k)) \in Seq(Answers)
    BY <1>1, DecodeType, AppendProperties
  <2>3. SubSeq(peer.unread, k + 1, Len(peer.unread)) \in Seq(Tokens)
    BY <1>1, LenProperties, SubSeqProperties
  <2>4. peer' \in Peers
    BY <2>1, <2>2, <2>3 DEF PeerTakes, IInv, TypeOK, Peers
  <2>5. HalfAsked'
    BY <2>1 DEF PeerTakes, IInv, TypeOK, Peers, HalfAsked
  <2> QED BY <2>1, <2>4, <2>5, SameFile DEF PeerTakes, IInv, TypeOK
<1>3. CASE AskRest
  <2>1. peer' \in Peers
    BY <1>3 DEF AskRest, IInv, TypeOK, Peers
  <2>2. peer.asked[Len(peer.asked)] \in Requests
    BY <1>1, <1>3, EmptySeq, LenProperties, ElementOfSeq DEF AskRest, IInv, HalfAsked
  <2>3. Append(inq, [req |-> peer.asked[Len(peer.asked)], part |-> 2]) \in Seq(Fragments)
    BY <2>2, AppendProperties DEF IInv, TypeOK, Fragments
  <2>4. inq' \in Seq(Fragments)
    BY <1>3, <2>3 DEF AskRest, IInv, TypeOK
  <2>5. HalfAsked'
    BY <1>3 DEF AskRest, IInv, TypeOK, Peers, HalfAsked
  <2> QED BY <1>3, <2>1, <2>4, <2>5, SameFile DEF AskRest, IInv, TypeOK
<1>4. CASE Leave
  <2>1. peer' \in Peers
    BY <1>4 DEF Leave, IInv, TypeOK, Peers
  <2>2. HalfAsked'
    BY <1>4 DEF Leave, IInv, TypeOK, Peers, HalfAsked
  <2> QED BY <1>4, <2>1, <2>2, SameFile DEF Leave, IInv, TypeOK
<1>5. CASE \E r \in Requests : Ask(r)
  <2>1. PICK r \in Requests : Ask(r)
    BY <1>5
  <2>2. Append(peer.asked, r) \in Seq(Requests)
    BY <1>1, AppendProperties
  <2>3. Append(inq, [req |-> r, part |-> 1]) \in Seq(Fragments)
    BY AppendProperties DEF IInv, TypeOK, Fragments
  <2>4. peer' \in Peers
    BY <2>1, <2>2 DEF Ask, IInv, TypeOK, Peers
  <2>5. HalfAsked'
    BY <1>1, <2>1, <2>2, AppendProperties DEF Ask, IInv, TypeOK, Peers, HalfAsked
  <2> QED BY <2>1, <2>3, <2>4, <2>5, SameFile DEF Ask, IInv, TypeOK
<1>6. CASE IdleTimeout
  BY <1>6, SameFile DEF IdleTimeout, IInv, TypeOK, HalfAsked
<1> QED BY <1>2, <1>3, <1>4, <1>5, <1>6

LEMMA ScriptSteps ==
  ASSUME IInv, Script
  PROVE  IInv'
<1> DEFINE g == client.cgi
<1>1. disk.script.status \in Nat /\ KilledStatus \in Nat
  BY DiskTypes DEF IInv, TypeOK, Scripts, KilledStatus
<1>2. g \in CgiMessages
  BY DEF Script, ScriptWrites, ScriptExits, ScriptDies, ScriptTimesOut, IInv, TypeOK, Clients
<1>3. PICK x \in CgiMessages : ScriptStep(x)
  BY <1>1, <1>2, ScriptGood DEF Script, ScriptWrites, ScriptExits, ScriptDies, ScriptTimesOut
<1>4. client' \in Clients /\ client'.file = client.file
  BY <1>3 DEF ScriptStep, IInv, TypeOK, Clients
<1> QED BY <1>3, <1>4, SameFile DEF ScriptStep, IInv, TypeOK, HalfAsked

\* The loop's own moves on todo; the file is left alone, or only marked.
LEMMA PollStep ==
  ASSUME IInv, NEW writable \in BOOLEAN, Poll(writable)
  PROVE  IInv'
<1> DEFINE file == client.file # NoFile /\ client.file.fd
<1>1. /\ todo' \subseteq Events
      /\ "in" \in todo' => listed /\ sock.valid
      /\ "out" \in todo' <=> listed /\ sock.valid /\ writable
      /\ "file" \in todo' => client.file # NoFile
  BY DEF Poll, Events, Rank
<1>2. DrainedFirst'
  BY <1>1 DEF Poll, DrainedFirst, IInv, FileOfConnection
<1>3. client.file \in Handlers => [client.file EXCEPT !.polled = TRUE] \in Handlers
  BY DEF Handlers
<1>4. client.cgi \in CgiMessages => [client.cgi EXCEPT !.polled = TRUE] \in CgiMessages
  BY DEF CgiMessages
<1>5. client' \in Clients
  BY <1>3, <1>4 DEF Poll, IInv, TypeOK, Clients
<1>6. GoodFile(client'.file) /\ (client.file = NoFile => client'.file = NoFile)
  <2>1. GoodHandler(client.file) => GoodHandler([client.file EXCEPT !.polled = TRUE])
    BY DEF GoodHandler, Handlers
  <2>2. client'.file = IF file THEN [client.file EXCEPT !.polled = TRUE] ELSE client.file
    BY DEF Poll, IInv, TypeOK, Clients
  <2> QED BY <2>1, <2>2 DEF IInv, GoodFile
<1> QED BY <1>1, <1>2, <1>5, <1>6 DEF Poll, IInv, TypeOK, HalfAsked, FileOfConnection, SocketEvents

LEMMA ClientReadStep ==
  ASSUME IInv, ClientReadCb
  PROVE  IInv'
<1> DEFINE c == [client EXCEPT !.rbuf = @ \o inq]
<1>1. /\ First("in") /\ todo' = todo \ {"in"} /\ "in" \in Events
      /\ listed' = listed /\ peer' = peer /\ disk' = disk /\ throws' = throws
  BY DEF ClientReadCb, Calls, Events, Rank
<1>2. listed /\ sock.valid /\ todo' \subseteq Events
  BY <1>1, CallsFirst
<1>3. inq' \in Seq(Fragments) /\ idle' \in BOOLEAN
      /\ sock' \in [valid : BOOLEAN, eof : BOOLEAN] /\ sock'.valid = sock.valid
  BY ZenonT(60), EmptySeq DEF ClientReadCb, IInv, TypeOK
<1>4. client \in GoodClients /\ disk \in Disks
  BY DEF IInv, TypeOK, GoodClients
<1>5. c \in GoodClients /\ c.file = client.file
  BY <1>4, ConcatProperties DEF IInv, TypeOK, GoodClients, Clients
<1>6. c.rbuf # <<>> => /\ HandleInput(c) \in GoodClients
                       /\ HandleInput(c).file = client.file \/ Fresh(HandleInput(c).file)
  <2> HIDE DEF c
  <2> QED BY <1>4, <1>5, HandleInputGood
<1>7. client' \in {client, c} \/ (c.rbuf # <<>> /\ client' = HandleInput(c))
  BY DEF ClientReadCb
<1>8. client' \in GoodClients /\ (client'.file = client.file \/ Fresh(client'.file))
  <2> HIDE DEF c
  <2> QED BY <1>4, <1>5, <1>6, <1>7
<1>9. TypeOK' /\ GoodFile(client.file)'
  BY <1>1, <1>2, <1>3, <1>8 DEF GoodClients, IInv, TypeOK
<1>10. DrainedFirst'
  BY <1>1, <1>8 DEF IInv, DrainedFirst, Drained
<1> QED BY <1>1, <1>2, <1>3, <1>9, <1>10 DEF IInv, FileOfConnection, SocketEvents, HalfAsked

LEMMA ClientWriteStep ==
  ASSUME IInv, WriteCb
  PROVE  IInv'
<1> PICK stale \in BOOLEAN :
         ClientWriteNothing(stale) \/ (\E n \in 1..WriteSize : ClientWriteCb(stale, n))
           \/ ClientWriteFails(stale)
  BY DEF WriteCb
<1> DEFINE c == FillWriteBuffer(client, stale)
<1>1. /\ First("out") /\ todo' = todo \ {"out"} /\ "out" \in Events
      /\ listed' = listed /\ inq' = inq /\ disk' = disk /\ throws' = throws
  BY DEF ClientWriteNothing, ClientWriteCb, ClientWriteFails, Calls, Events, Rank
<1>2. listed /\ sock.valid /\ todo' \subseteq Events /\ "in" \notin todo'
  BY <1>1, CallsFirst
<1>3. client \in GoodClients /\ disk \in Disks
  BY DEF IInv, TypeOK, GoodClients
<1>4. c \in GoodClients /\ Drained(c.file)
  BY <1>3, FillWriteBufferGood
<1>5. SUFFICES /\ client' \in GoodClients /\ Drained(client'.file)
               /\ sock' \in [valid : BOOLEAN, eof : BOOLEAN]
               /\ ~sock'.valid => client'.file = NoFile
               /\ idle' \in BOOLEAN
               /\ peer' \in Peers /\ peer'.half = peer.half /\ peer'.asked = peer.asked
  BY <1>1, <1>2 DEF GoodClients, IInv, TypeOK, FileOfConnection, SocketEvents, DrainedFirst, HalfAsked
<1> HIDE DEF c
<1>6. CASE ClientWriteNothing(stale)
  <2>1. client' = c /\ sock' = sock /\ peer' = peer /\ idle' = (idle /\ c = client /\ client.cgi = NoScript)
    BY <1>6 DEF ClientWriteNothing, c
  <2> QED BY <1>2, <1>4, <2>1 DEF IInv, TypeOK
<1>7. CASE \E n \in 1..WriteSize : ClientWriteCb(stale, n)
  <2> PICK n \in 1..WriteSize : ClientWriteCb(stale, n)
    BY <1>7
  <2> DEFINE d == AfterWrite(c, n)
  <2>1. n \in Nat
    BY ConnectionAssumption
  <2>2. /\ d \in GoodClients /\ d.file = c.file
        /\ Reset(d) \in GoodClients /\ Reset(d).file = NoFile
    BY <1>4, <2>1, AfterWriteGood
  <2>3. /\ client' = IF ResponseSent(d) THEN Reset(d) ELSE d
        /\ sock' = [sock EXCEPT !.valid = ~(ResponseSent(d) /\ ClosesAfter(d))]
        /\ idle' = FALSE
        /\ peer' = [peer EXCEPT !.unread = IF peer.left THEN @ ELSE @ \o SubSeq(c.wbuf, 1, n)]
        /\ n <= Len(c.wbuf)
    BY DEF ClientWriteCb, c
  <2> HIDE DEF d
  <2>4. client' \in GoodClients /\ Drained(client'.file)
    BY <1>4, <2>2, <2>3 DEF Drained, Fresh
  <2>5. sock' \in [valid : BOOLEAN, eof : BOOLEAN] /\ (~sock'.valid => client'.file = NoFile)
    BY <2>2, <2>3 DEF IInv, TypeOK
  <2>6. c.wbuf \in Seq(Tokens)
    BY <1>4, ClientTypes
  <2>7. SubSeq(c.wbuf, 1, n) \in Seq(Tokens)
    BY <2>1, <2>3, <2>6, LenProperties, SubSeqProperties
  <2>8. peer.unread \o SubSeq(c.wbuf, 1, n) \in Seq(Tokens)
    BY <2>7, ConcatProperties DEF IInv, TypeOK, Peers
  <2>9. peer' \in Peers /\ peer'.half = peer.half /\ peer'.asked = peer.asked
    BY <2>3, <2>8 DEF IInv, TypeOK, Peers
  <2> QED BY <2>3, <2>4, <2>5, <2>9
<1>8. CASE ClientWriteFails(stale)
  <2>1. client' = [c EXCEPT !.state = "ERROR"] /\ sock' = sock /\ peer' = peer /\ idle' = FALSE
    BY <1>8 DEF ClientWriteFails, c
  <2>2. client' \in GoodClients /\ client'.file = c.file
    BY <1>4, <2>1 DEF GoodClients, Clients, States
  <2> QED BY <1>2, <1>4, <2>1, <2>2 DEF IInv, TypeOK
<1> QED BY <1>6, <1>7, <1>8

LEMMA FileReadStep ==
  ASSUME IInv, FileReadCb
  PROVE  IInv'
<1> DEFINE h == client.file
<1>1. /\ First("file") /\ todo' = todo \ {"file"} /\ "file" \in Events /\ "file" \in todo
      /\ h # NoFile /\ h.polled
      /\ UNCHANGED <<sock, listed, inq, idle, disk, peer, throws>>
  BY DEF FileReadCb, FileEvent, Calls, First, Events, Rank
<1>2. "in" \notin todo /\ "out" \notin todo /\ todo' \subseteq Events
  BY <1>1, CallsFirst
<1>3. GoodHandler(h) /\ (AlwaysWritable => h.bad \/ h.buf < BufferSize)
  BY <1>1, <1>2 DEF IInv, GoodFile, DrainedFirst, Drained, Fresh
<1>4. GoodHandler(ReadCb(h)) /\ GoodHandler(ReadCbFails(h))
  BY <1>3, ReadCbGood
<1>5. client' \in {[client EXCEPT !.file = ReadCb(h)], [client EXCEPT !.file = ReadCbFails(h)]}
  BY DEF FileReadCb
<1>6. client' \in Clients /\ GoodFile(client'.file)
  <2> HIDE DEF h
  <2> QED BY <1>4, <1>5 DEF IInv, TypeOK, Clients, GoodFile, GoodHandler
<1>7. listed /\ sock.valid
  BY <1>1 DEF IInv, FileOfConnection
<1> QED BY <1>1, <1>2, <1>6, <1>7
        DEF IInv, TypeOK, FileOfConnection, SocketEvents, DrainedFirst, HalfAsked

LEMMA CgiReadStep ==
  ASSUME IInv, CgiReadCb
  PROVE  IInv'
<1>1. PICK event \in {"data", "hangup"} :
        First(event) /\ todo' = IF KillThrows(client.cgi) THEN {} ELSE todo \ {event}
  BY DEF CgiReadCb
<1>2. event \in Events
  BY DEF Events, Rank
<1>3. todo' \subseteq Events /\ "in" \notin todo' /\ "out" \notin todo' /\ "file" \notin todo'
  BY <1>1, <1>2, CallsFirst
<1>4. CgiRead(client.cgi) \in CgiMessages
  BY ScriptGood, DiskTypes DEF CgiReadCb, ScriptEvent, IInv, TypeOK, Clients, Scripts
<1>5. client' \in Clients /\ client'.file = client.file
  BY <1>4 DEF CgiReadCb, IInv, TypeOK, Clients
<1> QED BY <1>3, <1>5
        DEF CgiReadCb, IInv, TypeOK, FileOfConnection, SocketEvents, DrainedFirst, HalfAsked

LEMMA SkipStep ==
  ASSUME IInv, SkipDead
  PROVE  IInv'
<1>1. CASE Calls("file") /\ ~FileEvent
  BY <1>1 DEF SkipDead, Calls, IInv, TypeOK, FileOfConnection, SocketEvents, DrainedFirst, HalfAsked
<1>2. CASE Calls("data") /\ ~ScriptEvent
  BY <1>2 DEF SkipDead, Calls, IInv, TypeOK, FileOfConnection, SocketEvents, DrainedFirst, HalfAsked
<1>3. CASE Calls("hangup") /\ ~ScriptEvent
  BY <1>3 DEF SkipDead, Calls, IInv, TypeOK, FileOfConnection, SocketEvents, DrainedFirst, HalfAsked
<1> QED BY <1>1, <1>2, <1>3 DEF SkipDead

LEMMA SweepStep ==
  ASSUME IInv, Sweep
  PROVE  IInv'
<1>1. First("sweep") /\ todo' = todo \ {"sweep"} /\ "sweep" \in Events
  BY DEF Sweep, Calls, Events, Rank
<1>2. todo' \subseteq Events /\ "in" \notin todo' /\ "out" \notin todo' /\ "file" \notin todo'
  BY <1>1, CallsFirst
<1>3. UNCHANGED <<idle, disk, peer, throws>>
  BY DEF Sweep
<1>4. CASE Dead
  <2>1. client' \in GoodClients /\ client'.file = NoFile
    BY <1>4, NewClientGood DEF Sweep, States
  <2> QED BY <1>2, <1>3, <1>4, <2>1, EmptySeq
          DEF Sweep, GoodClients, IInv, TypeOK, GoodFile, FileOfConnection, SocketEvents, DrainedFirst, HalfAsked
<1>5. CASE ~Dead
  BY <1>2, <1>3, <1>5
     DEF Sweep, IInv, TypeOK, FileOfConnection, SocketEvents, DrainedFirst, HalfAsked
<1> QED BY <1>4, <1>5

LEMMA ThrowStep ==
  ASSUME IInv, OtherThrows
  PROVE  IInv'
<1>1. throws' \in 0..MaxThrows
  BY ConnectionAssumption DEF OtherThrows, IInv, TypeOK
<1> QED BY <1>1
        DEF OtherThrows, IInv, TypeOK, FileOfConnection, SocketEvents, DrainedFirst, HalfAsked

LEMMA StutterStep ==
  ASSUME IInv, UNCHANGED vars
  PROVE  IInv'
BY DEF vars, IInv, TypeOK, FileOfConnection, SocketEvents, DrainedFirst, HalfAsked

LEMMA NextIInv == IInv /\ [Next]_vars => IInv'
<1> SUFFICES ASSUME IInv, [Next]_vars PROVE IInv'
  OBVIOUS
<1>1. CASE Loop
  <2>1. CASE \E writable \in BOOLEAN : Poll(writable)
    BY <2>1, PollStep
  <2>2. CASE ClientReadCb
    BY <2>2, ClientReadStep
  <2>3. CASE WriteCb
    BY <2>3, ClientWriteStep
  <2>4. CASE FileReadCb
    BY <2>4, FileReadStep
  <2>5. CASE CgiReadCb
    BY <2>5, CgiReadStep
  <2>6. CASE SkipDead
    BY <2>6, SkipStep
  <2>7. CASE Sweep
    BY <2>7, SweepStep
  <2> QED BY <1>1, <2>1, <2>2, <2>3, <2>4, <2>5, <2>6, <2>7 DEF Loop
<1>2. CASE OtherThrows
  BY <1>2, ThrowStep
<1>3. CASE Script
  BY <1>3, ScriptSteps
<1>4. CASE IdleTimeout \/ PeerReads \/ AskRest \/ Leave \/ (\E r \in Requests : Ask(r))
  BY <1>4, PeerSteps
<1>5. CASE UNCHANGED vars
  BY <1>5, StutterStep
<1> QED BY <1>1, <1>2, <1>3, <1>4, <1>5 DEF Next

LEMMA SpecIInv == Spec => []IInv
BY InitIInv, NextIInv, PTL DEF Spec
-----------------------------------------------------------------------------
(***************************************************************************)
(* Theorems.                                                               *)
(***************************************************************************)

\* Every variable keeps its type, whatever the peer, the files, the script and
\* the exceptions of other connections do: what goes on the wire is a sequence
\* of heads, units and last chunks.
THEOREM TypeCorrect == Spec => []TypeOK
<1>1. IInv => TypeOK
  BY DEF IInv
<1> QED BY <1>1, SpecIInv, PTL

\* The read buffer of a file never outgrows its bound, so the difference that
\* _readCb asks the file for is never negative.
THEOREM BufferBounded == Spec => []BufferBound
<1>1. IInv => BufferBound
  BY DEF IInv, BufferBound, GoodFile, GoodHandler
<1> QED BY <1>1, SpecIInv, PTL

\* While the socket is always ready for writing, no file is cut short: the write
\* callback empties a full buffer before the file is read again.
THEOREM NoFalseEofWhenWritable ==
  ASSUME AlwaysWritable
  PROVE  Spec => []NoFalseEof
<1>1. IInv => NoFalseEof
  BY DEF IInv, NoFalseEof, GoodFile, GoodHandler
<1> QED BY <1>1, SpecIInv, PTL

-----------------------------------------------------------------------------

(***************************************************************************)
(* Codes on the wire.  The heads of a sequence of tokens that all bear one *)
(* code, a client whose write buffer bears the code of its response, and a *)
(* method that does not change a code which has been set.                  *)
(***************************************************************************)
CodeOf(t)      == IF t.t = "head" THEN t.code ELSE NoCode
Bears(s, code) == \A i \in DOMAIN s : CodeOf(s[i]) \in {NoCode, code}
Speaks(c)      == Bears(c.wbuf, c.resp.code)
Kept(c, d)     == c.resp.code # NoCode => d.resp.code = c.resp.code

LEMMA BearsConcat ==
  ASSUME NEW s \in Seq(Tokens), NEW t \in Seq(Tokens), NEW code, Bears(s, code), Bears(t, code)
  PROVE  Bears(s \o t, code)
<1>1. /\ DOMAIN (s \o t) = 1..(Len(s) + Len(t)) /\ Len(s) \in Nat /\ Len(t) \in Nat
      /\ DOMAIN s = 1..Len(s) /\ DOMAIN t = 1..Len(t)
      /\ \A i \in DOMAIN (s \o t) : (s \o t)[i] = IF i <= Len(s) THEN s[i] ELSE t[i - Len(s)]
  BY ConcatProperties, LenProperties
<1> SUFFICES ASSUME NEW i \in DOMAIN (s \o t) PROVE CodeOf((s \o t)[i]) \in {NoCode, code}
  BY DEF Bears
<1>2. CASE i <= Len(s)
  BY <1>1, <1>2 DEF Bears
<1>3. CASE ~(i <= Len(s))
  <2>1. i - Len(s) \in DOMAIN t
    BY <1>1, <1>3
  <2> QED BY <1>1, <1>3, <2>1 DEF Bears
<1> QED BY <1>2, <1>3

LEMMA BearsPart ==
  ASSUME NEW s \in Seq(Tokens), NEW code, Bears(s, code), NEW m \in Nat, m >= 1, NEW n \in Nat, n <= Len(s)
  PROVE  Bears(SubSeq(s, m, n), code)
<1>1. /\ DOMAIN s = 1..Len(s) /\ Len(s) \in Nat
      /\ DOMAIN SubSeq(s, m, n) = 1..(IF m <= n THEN n - m + 1 ELSE 0)
      /\ \A i \in 1..(n - m + 1) : SubSeq(s, m, n)[i] = s[m + i - 1]
  BY LenProperties
<1> SUFFICES ASSUME NEW i \in DOMAIN SubSeq(s, m, n)
             PROVE  CodeOf(SubSeq(s, m, n)[i]) \in {NoCode, code}
  BY DEF Bears
<1>2. m + i - 1 \in DOMAIN s
  BY <1>1
<1> QED BY <1>1, <1>2 DEF Bears

\* What is left of a sequence when its first k elements are taken.
LEMMA TailOf ==
  ASSUME NEW s \in Seq(Tokens), NEW k \in DOMAIN s
  PROVE  \A i \in DOMAIN SubSeq(s, k + 1, Len(s)) :
           i \in Nat /\ i >= 1 /\ k + i \in DOMAIN s /\ SubSeq(s, k + 1, Len(s))[i] = s[k + i]
<1> DEFINE v == SubSeq(s, k + 1, Len(s))
           n == Len(s) - (k + 1) + 1
<1>1. DOMAIN s = 1..Len(s) /\ Len(s) \in Nat /\ k \in Nat /\ k <= Len(s) /\ k >= 1
  BY LenProperties
<1>2. DOMAIN v = 1..n /\ \A i \in 1..n : v[i] = s[k + 1 + i - 1]
  BY SMTT(40), <1>1
<1> HIDE DEF v
<1>3. \A i \in 1..n : i \in Nat /\ i >= 1 /\ k + i \in 1..Len(s) /\ k + 1 + i - 1 = k + i
  BY <1>1
<1>4. \A i \in DOMAIN v : i \in Nat /\ i >= 1 /\ k + i \in DOMAIN s /\ v[i] = s[k + i]
  BY <1>1, <1>2, <1>3
<1> QED BY <1>4 DEF v

\* Units bear any code; a chunk is units or the last chunk.
LEMMA UnitsBear ==
  ASSUME NEW line \in Seq(Units), NEW code
  PROVE  Bears(line, code) /\ Bears(Chunk(line), code)
<1>1. \A i \in DOMAIN line : line[i] \in Units
  BY ElementOfSeq, LenProperties
<1>2. Bears(line, code)
  BY <1>1 DEF Bears, CodeOf, Units
<1>3. Bears(<<LastChunk>>, code)
  BY DEF Bears, CodeOf, LastChunk
<1> QED BY <1>2, <1>3 DEF Chunk

LEMMA HeadsBear ==
  ASSUME NEW resp \in Responses
  PROVE  /\ Bears(FixedBodyResponse(resp), resp.code)
         /\ Bears(StartLineAndHeaders(resp), resp.code)
         /\ Bears(ChunkedHead(resp), resp.code)
<1>1. \A framing \in {"fixed", "chunked", "cut"} :
        /\ <<HeadOf(resp, framing)>> \in Seq(Tokens)
        /\ Bears(<<HeadOf(resp, framing)>>, resp.code)
  <2> TAKE framing \in {"fixed", "chunked", "cut"}
  <2>1. HeadOf(resp, framing) \in Tokens
    BY HeadType, TokenTypes
  <2>2. CodeOf(HeadOf(resp, framing)) = resp.code
    BY DEF CodeOf, HeadOf
  <2> QED BY <2>1, <2>2 DEF Bears
<1>2. resp.body \in Seq(Units) /\ resp.body \in Seq(Tokens) /\ Bears(resp.body, resp.code)
  BY UnitsBear, UnitsAreTokens DEF Responses
<1>3. Bears(FixedBodyResponse(resp), resp.code)
  BY <1>1, <1>2, BearsConcat DEF FixedBodyResponse
<1>4. Bears(ChunkedHead(resp), resp.code)
  BY DEF ChunkedHead, HeadOf, Bears, CodeOf
<1> QED BY <1>1, <1>3, <1>4 DEF StartLineAndHeaders

LEMMA CodesKept ==
  ASSUME NEW resp \in Responses, NEW code \in Nat, NEW body, NEW line
  PROVE  /\ SetCode(resp, code).code = IF resp.code = NoCode THEN code ELSE resp.code
         /\ SetCode(resp, code).code # NoCode
         /\ SetFixedSizeBody(resp, body).code = resp.code
         /\ AfterChunk(resp, line).code = resp.code
         /\ StartChunked(resp).code = resp.code
BY DEF SetCode, SetFixedSizeBody, AfterChunk, StartChunked, Responses, NoCode
-----------------------------------------------------------------------------
(***************************************************************************)
(* The methods of Client: the buffer speaks with the code of the response, *)
(* and a code that was set stays until the response is cleared.            *)
(***************************************************************************)
LEMMA ReturnErrorSpeaks ==
  ASSUME NEW c \in GoodClients, NEW code \in Nat
  PROVE  LET d == ReturnError(c, code) IN Speaks(d) /\ Kept(c, d) /\ d.resp.code # NoCode
<1> DEFINE resp == SetCode(c.resp, code)
           plain == [c EXCEPT !.rbuf = <<>>, !.req = NoRequest, !.resp = resp, !.state = "ERROR",
                              !.wbuf = FixedBodyResponse(resp)]
           page == [c EXCEPT !.rbuf = <<>>, !.req = NoRequest, !.resp = resp, !.state = "ERROR",
                             !.wbuf = <<>>, !.file = Open("page", disk.page)]
<1>1. resp \in Responses /\ Bears(FixedBodyResponse(resp), resp.code) /\ Bears(<<>>, resp.code)
  BY ClientTypes, SetCodeType, HeadsBear DEF Bears
<1>2. resp.code # NoCode /\ (c.resp.code # NoCode => resp.code = c.resp.code)
  BY ClientTypes, CodesKept
<1>3. ReturnError(c, code) \in {plain, page}
  BY ClientTypes DEF ReturnError
<1>4. /\ plain.resp = resp /\ plain.wbuf = FixedBodyResponse(resp)
      /\ page.resp = resp /\ page.wbuf = <<>>
  BY DEF GoodClients, Clients
<1> HIDE DEF plain, page, resp
<1> QED BY <1>1, <1>2, <1>3, <1>4 DEF Speaks, Kept

LEMMA FixedAnswerSpeaks ==
  ASSUME NEW c \in GoodClients, NEW resp \in Responses, c.resp.code # NoCode => resp.code = c.resp.code
  PROVE  LET d == FixedAnswer(c, resp) IN Speaks(d) /\ Kept(c, d)
<1>1. FixedAnswer(c, resp).resp = resp /\ FixedAnswer(c, resp).wbuf = FixedBodyResponse(resp)
  BY DEF FixedAnswer, GoodClients, Clients
<1> QED BY <1>1, HeadsBear DEF Speaks, Kept

LEMMA BuildResponseSpeaks ==
  ASSUME NEW c \in GoodClients, Speaks(c), disk \in Disks
  PROVE  LET d == BuildResponse(c) IN Speaks(d) /\ Kept(c, d)
<1> DEFINE listing == SetCode(SetFixedSizeBody(c.resp, <<Unit("listing", 1)>>), 200)
           notice  == SetFixedSizeBody(SetCode(c.resp, 200), <<Unit("notice", 1)>>)
           script  == [c EXCEPT !.cgi = Start]
           doc     == [c EXCEPT !.file = Open("doc", disk.doc)]
<1>1. BuildResponse(c) \in {script, FixedAnswer(c, listing), doc, FixedAnswer(c, notice),
                            ReturnError(c, 999), ReturnError(c, 500)}
  BY DEF BuildResponse
<1>2. c.resp \in Responses
  BY ClientTypes
<1>3. <<Unit("listing", 1)>> \in Seq(Units) /\ <<Unit("notice", 1)>> \in Seq(Units)
  BY TokenTypes DEF Sources
<1>4. listing \in Responses /\ (c.resp.code # NoCode => listing.code = c.resp.code)
  <2> DEFINE x == SetFixedSizeBody(c.resp, <<Unit("listing", 1)>>)
  <2>1. x \in Responses
    BY <1>2, <1>3, SetFixedSizeBodyType
  <2>2. x.code = c.resp.code
    BY <1>2, CodesKept
  <2> HIDE DEF x
  <2>3. SetCode(x, 200) \in Responses
    BY <2>1, SetCodeType
  <2>4. SetCode(x, 200).code = IF x.code = NoCode THEN 200 ELSE x.code
    BY <2>1, CodesKept
  <2> QED BY <2>2, <2>3, <2>4 DEF x
<1>5. notice \in Responses /\ (c.resp.code # NoCode => notice.code = c.resp.code)
  <2> DEFINE x == SetCode(c.resp, 200)
  <2>1. x \in Responses
    BY <1>2, SetCodeType
  <2>2. x.code = IF c.resp.code = NoCode THEN 200 ELSE c.resp.code
    BY <1>2, CodesKept
  <2> HIDE DEF x
  <2>3. SetFixedSizeBody(x, <<Unit("notice", 1)>>) \in Responses
    BY <1>3, <2>1, SetFixedSizeBodyType
  <2>4. SetFixedSizeBody(x, <<Unit("notice", 1)>>).code = x.code
    BY <2>1, CodesKept
  <2> QED BY <2>2, <2>3, <2>4 DEF x
<1>6. \A x \in {script, doc} : x.resp = c.resp /\ x.wbuf = c.wbuf
  BY DEF GoodClients, Clients
<1> HIDE DEF listing, notice, script, doc
<1>7. \A x \in {script, doc} : Speaks(x) /\ Kept(c, x)
  BY <1>6 DEF Speaks, Kept
<1>8. \A resp \in {listing, notice} : Speaks(FixedAnswer(c, resp)) /\ Kept(c, FixedAnswer(c, resp))
  BY <1>4, <1>5, FixedAnswerSpeaks
<1>9. \A code \in {999, 500} : Speaks(ReturnError(c, code)) /\ Kept(c, ReturnError(c, code))
  BY ReturnErrorSpeaks
<1> QED BY <1>1, <1>7, <1>8, <1>9

LEMMA ParseSpeaks ==
  ASSUME NEW c \in GoodClients, Speaks(c), c.rbuf # <<>>, disk \in Disks
  PROVE  LET d == Parse(c) IN Speaks(d) /\ Kept(c, d)
<1> DEFINE d == [c EXCEPT !.rbuf = SubSeq(@, 3, Len(@))]
           r == c.rbuf[1].req
           e == [d EXCEPT !.req = r]
<1>1. c.rbuf[1] \in Fragments /\ r \in Requests
  <2>1. c.rbuf \in Seq(Fragments) /\ Len(c.rbuf) # 0
    BY ClientTypes, EmptySeq
  <2>2. c.rbuf[1] \in Fragments
    BY <2>1, LenProperties, ElementOfSeq
  <2> QED BY <2>2 DEF Fragments
<1>2. SubSeq(c.rbuf, 3, Len(c.rbuf)) \in Seq(Fragments)
  BY ClientTypes, SubSeqProperties, LenProperties
<1>3. d \in GoodClients /\ d.resp = c.resp /\ d.wbuf = c.wbuf
  BY <1>2, ClientTypes DEF GoodClients, Clients
<1>4. e \in GoodClients /\ e.resp = c.resp /\ e.wbuf = c.wbuf
  <2> HIDE DEF d, r
  <2> QED BY <1>1, <1>3, ClientTypes DEF GoodClients, Clients
<1>5. Parse(c) \in {c, ReturnError(c, 400), e} \union
                   {ReturnError(x, RejectCodes[k]) : x \in {d, e}, k \in DOMAIN RejectCodes}
  BY SMTT(40) DEF Parse, Rejected, RejectCodes
<1>6. \A k \in DOMAIN RejectCodes : RejectCodes[k] \in Nat
  BY DEF RejectCodes
<1>7. ASSUME NEW x \in {c, d, e}, NEW code \in Nat
      PROVE  Speaks(ReturnError(x, code)) /\ Kept(c, ReturnError(x, code))
  <2>1. x \in GoodClients /\ x.resp = c.resp
    BY <1>3, <1>4
  <2> HIDE DEF d, e
  <2> QED BY <2>1, ReturnErrorSpeaks DEF Kept
<1> HIDE DEF d, e
<1>8. Speaks(e) /\ Kept(c, e) /\ Kept(c, c)
  BY <1>4 DEF Speaks, Kept
<1> QED BY <1>5, <1>6, <1>7, <1>8

LEMMA HandleInputSpeaks ==
  ASSUME NEW c \in GoodClients, Speaks(c), c.rbuf # <<>>, disk \in Disks
  PROVE  LET d == HandleInput(c) IN Speaks(d) /\ Kept(c, d)
<1> DEFINE a == [c EXCEPT !.state = "READ_REQUEST"]
           p == Parse(a)
           b == [p EXCEPT !.state = "BUILDING_RESPONSE"]
<1>1. a \in GoodClients /\ a.resp = c.resp /\ a.wbuf = c.wbuf /\ a.rbuf # <<>>
  BY ClientTypes DEF GoodClients, Clients, States
<1>2. p \in GoodClients /\ Speaks(p) /\ Kept(c, p)
  <2> HIDE DEF a
  <2>1. Speaks(a)
    BY <1>1 DEF Speaks
  <2> QED BY <1>1, <2>1, ParseGood, ParseSpeaks DEF Kept
<1>3. b \in GoodClients /\ b.resp = p.resp /\ b.wbuf = p.wbuf
  <2> HIDE DEF p
  <2> QED BY <1>2, ClientTypes DEF GoodClients, Clients, States
<1>4. Speaks(BuildResponse(b)) /\ Kept(c, BuildResponse(b))
  <2> HIDE DEF b, p
  <2>1. Speaks(b)
    BY <1>2, <1>3 DEF Speaks
  <2> QED BY <1>2, <1>3, <2>1, BuildResponseSpeaks DEF Kept
<1>5. HandleInput(c) \in {p, BuildResponse(b)}
  BY DEF HandleInput
<1> HIDE DEF p, b
<1> QED BY <1>2, <1>4, <1>5
LEMMA SendChunkSpeaks ==
  ASSUME NEW c \in GoodClients, NEW stale \in BOOLEAN, c.file # NoFile, Speaks(c)
  PROVE  LET d == SendChunk(c, stale) IN Speaks(d) /\ Kept(c, d)
<1> DEFINE resp  == SetCode(c.resp, 200)
           chunk == ReadUnits(c.file)
           next  == [c EXCEPT !.state = "WRITE_RESPONSE", !.file = AfterRead(c.file)]
           a == [next EXCEPT !.resp = AfterChunk(resp, chunk), !.wbuf = @ \o Chunk(chunk)]
           b == [next EXCEPT !.resp = AfterChunk(StartChunked(resp), <<>>),
                             !.wbuf = ChunkedHead(resp), !.file = NoFile]
           e == [next EXCEPT !.resp = AfterChunk(StartChunked(resp), chunk),
                             !.wbuf = ChunkedHead(resp) \o Chunk(chunk)]
<1>1. chunk \in Seq(Units) /\ c.resp \in Responses /\ c.wbuf \in Seq(Tokens)
  BY ClientTypes, ReadGood DEF GoodFile
<1>2. resp \in Responses /\ resp.code = (IF c.resp.code = NoCode THEN 200 ELSE c.resp.code)
  BY ZenonT(60), <1>1, SetCodeType, CodesKept
<1>3. SendChunk(c, stale) \in {a, b, e}
  BY DEF SendChunk
<1>4. /\ a.resp = AfterChunk(resp, chunk) /\ a.wbuf = c.wbuf \o Chunk(chunk)
      /\ b.resp = AfterChunk(StartChunked(resp), <<>>) /\ b.wbuf = ChunkedHead(resp)
      /\ e.resp = AfterChunk(StartChunked(resp), chunk) /\ e.wbuf = ChunkedHead(resp) \o Chunk(chunk)
  <2> HIDE DEF resp, chunk
  <2> QED BY DEF GoodClients, Clients
<1> HIDE DEF a, b, e, next, resp, chunk
<1>5. /\ StartChunked(resp) \in Responses /\ StartChunked(resp).code = resp.code
      /\ Chunk(chunk) \in Seq(Tokens) /\ ChunkedHead(resp) \in Seq(Tokens)
  <2>1. StartChunked(resp) \in Responses /\ Chunk(chunk) \in Seq(Tokens)
    BY <1>1, <1>2, ChunkType
  <2>2. ChunkedHead(resp) \in Seq(Tokens)
    BY <1>2, FixedBodyResponseType
  <2>3. StartChunked(resp).code = resp.code
    BY <1>2, CodesKept
  <2> QED BY <2>1, <2>2, <2>3
<1>6. \A x \in {a, b, e} : x.resp.code = resp.code
  <2>1. AfterChunk(resp, chunk).code = resp.code
    BY <1>2, CodesKept
  <2>2. /\ AfterChunk(StartChunked(resp), <<>>).code = resp.code
        /\ AfterChunk(StartChunked(resp), chunk).code = resp.code
    BY <1>5, CodesKept
  <2> QED BY <1>4, <2>1, <2>2
<1>7. Bears(c.wbuf, resp.code)
  BY <1>2 DEF Speaks, Bears
<1>8. Bears(Chunk(chunk), resp.code) /\ Bears(ChunkedHead(resp), resp.code)
  BY <1>1, <1>2, UnitsBear, HeadsBear
<1>9. Bears(c.wbuf \o Chunk(chunk), resp.code) /\ Bears(ChunkedHead(resp) \o Chunk(chunk), resp.code)
  BY <1>1, <1>5, <1>7, <1>8, BearsConcat
<1>10. \A x \in {a, b, e} : Bears(x.wbuf, resp.code)
  BY <1>4, <1>8, <1>9
<1> QED BY <1>2, <1>3, <1>6, <1>10 DEF Speaks, Kept

LEMMA SendRestSpeaks ==
  ASSUME NEW c \in GoodClients, NEW stale \in BOOLEAN, c.file # NoFile, Speaks(c)
  PROVE  LET d == SendRest(c, stale) IN Speaks(d) /\ Kept(c, d)
<1> DEFINE rest == ReadUnits(c.file)
           set  == SetCode(c.resp, 200)
           resp == SetFixedSizeBody(set, rest)
           next == [c EXCEPT !.state = "WRITE_RESPONSE", !.file = NoFile]
           a == [next EXCEPT !.resp = AfterChunk(c.resp, <<>>),
                             !.wbuf = @ \o Chunk(rest) \o Chunk(<<>>)]
           b == [next EXCEPT !.resp = resp, !.wbuf = StartLineAndHeaders(resp)]
           e == [next EXCEPT !.resp = resp, !.wbuf = FixedBodyResponse(resp)]
<1>1. rest \in Seq(Units) /\ <<>> \in Seq(Units) /\ c.resp \in Responses /\ c.wbuf \in Seq(Tokens)
  BY ClientTypes, ReadGood, EmptySeq DEF GoodFile
<1>2. set \in Responses /\ set.code = (IF c.resp.code = NoCode THEN 200 ELSE c.resp.code)
  BY ZenonT(60), <1>1, SetCodeType, CodesKept
<1>3. SendRest(c, stale) \in {a, b, e}
  BY DEF SendRest
<1>4. /\ a.resp = AfterChunk(c.resp, <<>>) /\ a.wbuf = c.wbuf \o Chunk(rest) \o Chunk(<<>>)
      /\ b.resp = resp /\ b.wbuf = StartLineAndHeaders(resp)
      /\ e.resp = resp /\ e.wbuf = FixedBodyResponse(resp)
  <2> HIDE DEF rest, resp
  <2> QED BY DEF GoodClients, Clients
<1> HIDE DEF a, b, e, next, set, rest
<1>5. resp \in Responses /\ resp.code = set.code
  BY <1>1, <1>2, SetFixedSizeBodyType, CodesKept
<1> HIDE DEF resp
<1>6. AfterChunk(c.resp, <<>>).code = c.resp.code
  BY <1>1, CodesKept
<1>7. /\ Chunk(rest) \in Seq(Tokens) /\ Chunk(<<>>) \in Seq(Tokens)
      /\ Bears(Chunk(rest), c.resp.code) /\ Bears(Chunk(<<>>), c.resp.code)
  BY <1>1, ChunkType, UnitsBear
<1>8. c.wbuf \o Chunk(rest) \in Seq(Tokens) /\ Bears(c.wbuf \o Chunk(rest), c.resp.code)
  BY <1>1, <1>7, BearsConcat, ConcatProperties DEF Speaks
<1>9. Bears(a.wbuf, c.resp.code)
  BY <1>4, <1>7, <1>8, BearsConcat
<1>10. Bears(b.wbuf, resp.code) /\ Bears(e.wbuf, resp.code)
  BY <1>4, <1>5, HeadsBear
<1> QED BY <1>2, <1>3, <1>4, <1>5, <1>6, <1>9, <1>10 DEF Speaks, Kept

LEMMA ReadFromFileSpeaks ==
  ASSUME NEW c \in GoodClients, NEW stale \in BOOLEAN, c.file # NoFile, Speaks(c), disk \in Disks
  PROVE  LET d == ReadFromFile(c, stale) IN Speaks(d) /\ Kept(c, d)
<1>1. CASE c.file.bad
  <2> DEFINE n == [c EXCEPT !.file = NoFile]
  <2>1. n \in GoodClients /\ n.resp = c.resp
    BY ClientTypes DEF GoodClients, Clients, GoodFile
  <2>2. ReadFromFile(c, stale) \in {ReturnError(n, 403), ReturnError(c, 500)}
    BY <1>1 DEF ReadFromFile
  <2> HIDE DEF n
  <2> QED BY <2>1, <2>2, ReturnErrorSpeaks DEF Kept
<1>2. CASE ~c.file.bad
  <2> DEFINE d == IF ReadBufferFull(c.file) THEN SendChunk(c, stale) ELSE c
  <2>1. d \in GoodClients /\ Speaks(d) /\ Kept(c, d)
    BY SendChunkGood, SendChunkSpeaks DEF Kept
  <2>2. ReadFromFile(c, stale) = IF d.file # NoFile /\ d.file.eof THEN SendRest(d, stale) ELSE d
    BY <1>2 DEF ReadFromFile
  <2> HIDE DEF d
  <2>3. d.file # NoFile => Speaks(SendRest(d, stale)) /\ Kept(c, SendRest(d, stale))
    BY <2>1, SendRestSpeaks DEF Kept
  <2> QED BY <2>1, <2>2, <2>3
<1> QED BY <1>1, <1>2

LEMMA ReadFromCgiSpeaks ==
  ASSUME NEW c \in GoodClients, c.cgi # NoScript, Speaks(c), disk \in Disks
  PROVE  LET d == ReadFromCgi(c) IN Speaks(d) /\ Kept(c, d)
<1> DEFINE g    == AfterStatus(c.cgi)
           gone == [c EXCEPT !.cgi = NoScript]
           read == [gone EXCEPT !.state = "CGI_READ"]
           body == [i \in 1..g.got |-> Unit("script", i)]
           set  == SetCode(c.resp, 200)
           resp == SetFixedSizeBody(set, body)
           wait == [c EXCEPT !.cgi = g, !.state = "CGI_WRITE"]
<1>1. g \in CgiMessages
  BY ClientTypes DEF AfterStatus, CgiMessages
<1>2. gone \in GoodClients /\ gone.resp = c.resp
  BY ClientTypes DEF GoodClients, Clients
<1>3. read \in GoodClients /\ read.resp = c.resp
  <2> HIDE DEF gone
  <2> QED BY <1>2, ClientTypes DEF GoodClients, Clients, States
<1>4. body \in Seq(Units)
  <2>1. g.got \in Nat
    BY <1>1 DEF CgiMessages
  <2>2. \A i \in 1..g.got : Unit("script", i) \in Units
    BY <2>1, TokenTypes DEF Sources
  <2> HIDE DEF g
  <2> QED BY <2>1, <2>2
<1>5. wait.resp = c.resp /\ wait.wbuf = c.wbuf
  <2> HIDE DEF g
  <2> QED BY DEF GoodClients, Clients
<1>6. ReadFromCgi(c) \in {FixedAnswer(read, resp), wait} \union
                         {ReturnError(gone, code) : code \in {408, 413, 500}}
  BY DEF ReadFromCgi
<1> HIDE DEF gone, read, wait, body, g, set
<1>7. resp \in Responses /\ (c.resp.code # NoCode => resp.code = c.resp.code)
  <2>1. set \in Responses /\ (c.resp.code # NoCode => set.code = c.resp.code)
    <3>1. c.resp \in Responses
      BY ClientTypes
    <3>2. SetCode(c.resp, 200) \in Responses
      BY <3>1, SetCodeType
    <3>3. SetCode(c.resp, 200).code = IF c.resp.code = NoCode THEN 200 ELSE c.resp.code
      BY <3>1, CodesKept
    <3> QED BY <3>2, <3>3 DEF set
  <2>2. SetFixedSizeBody(set, body) \in Responses
    BY <1>4, <2>1, SetFixedSizeBodyType
  <2>3. SetFixedSizeBody(set, body).code = set.code
    BY <2>1, CodesKept
  <2> QED BY <2>1, <2>2, <2>3
<1> HIDE DEF resp
<1>8. Speaks(FixedAnswer(read, resp)) /\ Kept(c, FixedAnswer(read, resp))
  BY <1>3, <1>7, FixedAnswerSpeaks DEF Kept
<1>9. Speaks(wait) /\ Kept(c, wait)
  BY <1>5 DEF Speaks, Kept
<1>10. \A code \in {408, 413, 500} :
         Speaks(ReturnError(gone, code)) /\ Kept(c, ReturnError(gone, code))
  BY <1>2, ReturnErrorSpeaks DEF Kept
<1> QED BY <1>6, <1>8, <1>9, <1>10

LEMMA FillWriteBufferSpeaks ==
  ASSUME NEW c \in GoodClients, NEW stale \in BOOLEAN, Speaks(c), disk \in Disks
  PROVE  LET d == FillWriteBuffer(c, stale) IN Speaks(d) /\ Kept(c, d)
<1> DEFINE d == IF c.file = NoFile THEN c ELSE ReadFromFile(c, stale)
<1>1. d \in GoodClients /\ Speaks(d) /\ Kept(c, d)
  BY ReadFromFileGood, ReadFromFileSpeaks DEF Kept
<1>2. FillWriteBuffer(c, stale) = IF d.cgi = NoScript THEN d ELSE ReadFromCgi(d)
  BY DEF FillWriteBuffer
<1> HIDE DEF d
<1> QED BY <1>1, <1>2, ReadFromCgiSpeaks DEF Kept
-----------------------------------------------------------------------------
(***************************************************************************)
(* The inductive invariant for ErrorIsLast: an error that the peer was     *)
(* told, in an answer or in what it has not read yet, is still the code of *)
(* the response while the socket is open, and nothing else follows it.     *)
(***************************************************************************)
AfterError(a, b) == IsErrorCode(a) => b \in {NoCode, a}

AnswersFirst ==
  \A k \in DOMAIN peer.answers, i \in DOMAIN peer.unread :
    AfterError(peer.answers[k].code, CodeOf(peer.unread[i]))

UnreadInOrder ==
  \A i, j \in DOMAIN peer.unread :
    i < j => AfterError(CodeOf(peer.unread[i]), CodeOf(peer.unread[j]))

Stays(code) == IsErrorCode(code) => client.resp.code = code

ErrorStays ==
  sock.valid =>
    /\ \A k \in DOMAIN peer.answers : Stays(peer.answers[k].code)
    /\ \A i \in DOMAIN peer.unread : Stays(CodeOf(peer.unread[i]))

ErrorInv ==
  /\ IInv
  /\ Speaks(client)
  /\ ErrorStays
  /\ AnswersFirst
  /\ UnreadInOrder
  /\ ErrorIsLast

LEMMA InitError == Init => ErrorInv
<1> SUFFICES ASSUME Init PROVE ErrorInv
  OBVIOUS
<1>1. peer.answers = <<>> /\ peer.unread = <<>> /\ client.wbuf = <<>>
  BY DEF Init, NewPeer, NewClient
<1> QED BY <1>1, InitIInv DEF ErrorInv, Speaks, Bears, ErrorStays, AnswersFirst, UnreadInOrder, ErrorIsLast

\* What a step keeps that puts nothing on the wire and takes nothing from it.
LEMMA SameAnswers ==
  ASSUME ErrorInv, IInv', Speaks(client'), sock'.valid => sock.valid /\ Kept(client, client'),
         peer'.answers = peer.answers, peer'.unread = peer.unread
  PROVE  ErrorInv'
<1>1. ErrorStays'
  <2> SUFFICES ASSUME sock'.valid, NEW code, Stays(code) PROVE Stays(code)'
    BY DEF ErrorInv, ErrorStays
  <2> QED BY DEF Stays, Kept, IsErrorCode, NoCode
<1>2. AnswersFirst' /\ UnreadInOrder' /\ ErrorIsLast'
  BY DEF ErrorInv, AnswersFirst, UnreadInOrder, ErrorIsLast
<1> QED BY <1>1, <1>2 DEF ErrorInv, Speaks

LEMMA ReadStepError ==
  ASSUME ErrorInv, IInv', ClientReadCb
  PROVE  ErrorInv'
<1> DEFINE c == [client EXCEPT !.rbuf = @ \o inq]
<1>1. client \in GoodClients /\ disk \in Disks /\ inq \in Seq(Fragments)
  BY DEF ErrorInv, IInv, TypeOK, GoodClients
<1>2. c \in GoodClients /\ c.resp = client.resp /\ c.wbuf = client.wbuf
  BY <1>1, ConcatProperties DEF GoodClients, Clients
<1>3. client' \in {client, c} \/ (c.rbuf # <<>> /\ client' = HandleInput(c))
  BY DEF ClientReadCb
<1>4. peer' = peer /\ (sock'.valid => sock.valid)
  BY DEF ClientReadCb, ErrorInv, IInv, TypeOK
<1> HIDE DEF c
<1>5. Speaks(c) /\ Kept(client, c) /\ Kept(client, client)
  BY <1>2 DEF ErrorInv, Speaks, Kept
<1>6. c.rbuf # <<>> => Speaks(HandleInput(c)) /\ Kept(client, HandleInput(c))
  BY <1>1, <1>2, <1>5, HandleInputSpeaks DEF Kept
<1>7. Speaks(client') /\ Kept(client, client')
  BY <1>3, <1>5, <1>6 DEF ErrorInv
<1> QED BY <1>4, <1>7, SameAnswers

\* The tokens that a write puts behind what the peer has not read yet.
LEMMA WrittenTokens ==
  ASSUME ErrorInv, sock.valid, NEW s \in Seq(Tokens), NEW code, Bears(s, code),
         client.resp.code # NoCode => code = client.resp.code,
         peer'.answers = peer.answers, peer'.unread = peer.unread \o s
  PROVE  /\ AnswersFirst' /\ UnreadInOrder'
         /\ \A k \in DOMAIN peer'.answers : IsErrorCode(peer'.answers[k].code) => code = peer'.answers[k].code
         /\ \A i \in DOMAIN peer'.unread : IsErrorCode(CodeOf(peer'.unread[i])) => code = CodeOf(peer'.unread[i])
<1> DEFINE u == peer.unread
           v == peer'.unread
<1>1. u \in Seq(Tokens)
  BY DEF ErrorInv, IInv, TypeOK, Peers
<1>2. /\ DOMAIN v = 1..(Len(u) + Len(s)) /\ Len(u) \in Nat /\ Len(s) \in Nat
      /\ DOMAIN u = 1..Len(u) /\ DOMAIN s = 1..Len(s)
      /\ \A i \in DOMAIN v : v[i] = IF i <= Len(u) THEN u[i] ELSE s[i - Len(u)]
  BY <1>1, ConcatProperties, LenProperties
<1>3. \A i \in DOMAIN v : (i \in DOMAIN u /\ v[i] = u[i]) \/ (i > Len(u) /\ CodeOf(v[i]) \in {NoCode, code})
  <2> TAKE i \in DOMAIN v
  <2>1. CASE i <= Len(u)
    BY <1>2, <2>1
  <2>2. CASE ~(i <= Len(u))
    <3>1. i - Len(u) \in DOMAIN s
      BY <1>2, <2>2
    <3> QED BY <1>2, <2>2, <3>1 DEF Bears
  <2> QED BY <2>1, <2>2
<1>4. ~IsErrorCode(NoCode)
  BY DEF IsErrorCode, NoCode
<1>5. ASSUME NEW e, Stays(e), IsErrorCode(e) PROVE code = e
  BY <1>4, <1>5 DEF Stays
<1>6. \A k \in DOMAIN peer.answers : IsErrorCode(peer.answers[k].code) => code = peer.answers[k].code
  BY <1>5 DEF ErrorInv, ErrorStays
<1>7. \A i \in DOMAIN u : IsErrorCode(CodeOf(u[i])) => code = CodeOf(u[i])
  BY <1>5 DEF ErrorInv, ErrorStays
<1>8. \A i \in DOMAIN v : IsErrorCode(CodeOf(v[i])) => code = CodeOf(v[i])
  <2> HIDE DEF u, v
  <2> QED BY <1>3, <1>4, <1>7
<1>9. AnswersFirst'
  <2> SUFFICES ASSUME NEW k \in DOMAIN peer.answers, NEW i \in DOMAIN v
               PROVE  AfterError(peer.answers[k].code, CodeOf(v[i]))
    BY DEF AnswersFirst
  <2>1. CASE i \in DOMAIN u /\ v[i] = u[i]
    BY <2>1 DEF ErrorInv, AnswersFirst
  <2>2. CASE CodeOf(v[i]) \in {NoCode, code}
    BY <1>6, <2>2 DEF AfterError
  <2> QED BY <1>3, <2>1, <2>2
<1>10. UnreadInOrder'
  <2> SUFFICES ASSUME NEW i \in DOMAIN v, NEW j \in DOMAIN v, i < j
               PROVE  AfterError(CodeOf(v[i]), CodeOf(v[j]))
    BY DEF UnreadInOrder
  <2>1. CASE j \in DOMAIN u /\ v[j] = u[j]
    <3>1. i \in DOMAIN u /\ v[i] = u[i]
      BY <1>2, <2>1
    <3> QED BY <2>1, <3>1 DEF ErrorInv, UnreadInOrder
  <2>2. CASE CodeOf(v[j]) \in {NoCode, code}
    BY <1>8, <2>2 DEF AfterError
  <2> QED BY <1>3, <2>1, <2>2
<1> QED BY <1>6, <1>8, <1>9, <1>10

LEMMA WriteStepError ==
  ASSUME ErrorInv, IInv', WriteCb
  PROVE  ErrorInv'
<1> PICK stale \in BOOLEAN :
         ClientWriteNothing(stale) \/ (\E n \in 1..WriteSize : ClientWriteCb(stale, n))
           \/ ClientWriteFails(stale)
  BY DEF WriteCb
<1> DEFINE c == FillWriteBuffer(client, stale)
<1>1. client \in GoodClients /\ disk \in Disks /\ Speaks(client)
  BY DEF ErrorInv, IInv, TypeOK, GoodClients
<1>2. c \in GoodClients /\ Speaks(c) /\ Kept(client, c)
  BY <1>1, FillWriteBufferGood, FillWriteBufferSpeaks
<1>3. sock.valid
  BY DEF ClientWriteNothing, ClientWriteCb, ClientWriteFails, Calls, First, ErrorInv, IInv, SocketEvents
<1>4. CASE ClientWriteNothing(stale)
  <2>1. client' = c /\ sock' = sock /\ peer' = peer
    BY <1>4 DEF ClientWriteNothing
  <2> HIDE DEF c
  <2> QED BY <1>2, <1>3, <2>1, SameAnswers
<1>5. CASE ClientWriteFails(stale)
  <2>1. client' = [c EXCEPT !.state = "ERROR"] /\ sock' = sock /\ peer' = peer
    BY <1>5 DEF ClientWriteFails
  <2> HIDE DEF c
  <2>2. client'.resp = c.resp /\ client'.wbuf = c.wbuf
    BY <1>2, <2>1 DEF GoodClients, Clients
  <2>3. Speaks(client') /\ Kept(client, client')
    BY <1>2, <2>2 DEF Speaks, Kept
  <2> QED BY <1>3, <2>1, <2>3, SameAnswers
<1>6. CASE \E n \in 1..WriteSize : ClientWriteCb(stale, n)
  <2> PICK n \in 1..WriteSize : ClientWriteCb(stale, n)
    BY <1>6
  <2> DEFINE d == AfterWrite(c, n)
  <2>1. /\ client' = IF ResponseSent(d) THEN Reset(d) ELSE d
        /\ sock' = [sock EXCEPT !.valid = ~(ResponseSent(d) /\ ClosesAfter(d))]
        /\ peer' = [peer EXCEPT !.unread = IF peer.left THEN @ ELSE @ \o SubSeq(c.wbuf, 1, n)]
        /\ n <= Len(c.wbuf)
    BY DEF ClientWriteCb
  <2>2. n \in Nat /\ n >= 1 /\ n + 1 \in Nat /\ n + 1 >= 1
    BY ConnectionAssumption
  <2> HIDE DEF c
  <2>3. c.wbuf \in Seq(Tokens) /\ Len(c.wbuf) \in Nat /\ Bears(c.wbuf, c.resp.code)
    BY <1>2, ClientTypes, LenProperties DEF Speaks
  <2>4. SubSeq(c.wbuf, 1, n) \in Seq(Tokens) /\ Bears(SubSeq(c.wbuf, 1, n), c.resp.code)
    BY SMTT(40), <2>1, <2>2, <2>3, BearsPart, SubSeqProperties
  <2>5. Bears(SubSeq(c.wbuf, n + 1, Len(c.wbuf)), c.resp.code)
    BY <2>2, <2>3, BearsPart
  <2>6. d.resp = c.resp /\ d.wbuf = SubSeq(c.wbuf, n + 1, Len(c.wbuf))
    BY <1>2 DEF AfterWrite, GoodClients, Clients
  <2>7. d \in GoodClients /\ Reset(d).wbuf = d.wbuf
    <3>1. d \in GoodClients
      BY <1>2, <2>2, AfterWriteGood
    <3> HIDE DEF d
    <3> QED BY <3>1 DEF Reset, GoodClients, Clients
  <2> HIDE DEF d
  <2>8. Speaks(client')
    <3>1. CASE ResponseSent(d)
      BY <2>1, <2>7, <3>1 DEF ResponseSent, Speaks, Bears
    <3>2. CASE ~ResponseSent(d)
      BY <2>1, <2>5, <2>6, <3>2 DEF Speaks
    <3> QED BY <3>1, <3>2
  <2>9. /\ peer'.answers = peer.answers
        /\ peer'.unread = peer.unread \/ peer'.unread = peer.unread \o SubSeq(c.wbuf, 1, n)
    BY <2>1 DEF ErrorInv, IInv, TypeOK, Peers
  <2>10. sock'.valid /\ (IsErrorCode(c.resp.code) \/ ~ResponseSent(d)) => client'.resp.code = c.resp.code
    BY <2>1, <2>6 DEF ClosesAfter, ErrorInv, IInv, TypeOK
  <2>11. CASE peer'.unread = peer.unread
    <3>1. ErrorStays'
      <4> SUFFICES ASSUME sock'.valid, NEW code, Stays(code) PROVE Stays(code)'
        BY <1>3, <2>9, <2>11 DEF ErrorInv, ErrorStays
      <4> QED BY <1>2, <2>10 DEF Stays, Kept, IsErrorCode, NoCode
    <3> QED BY <2>8, <2>9, <2>11, <3>1 DEF ErrorInv, Speaks, AnswersFirst, UnreadInOrder, ErrorIsLast
  <2>12. CASE peer'.unread = peer.unread \o SubSeq(c.wbuf, 1, n)
    <3>1. /\ AnswersFirst' /\ UnreadInOrder'
          /\ \A k \in DOMAIN peer'.answers :
               IsErrorCode(peer'.answers[k].code) => c.resp.code = peer'.answers[k].code
          /\ \A i \in DOMAIN peer'.unread :
               IsErrorCode(CodeOf(peer'.unread[i])) => c.resp.code = CodeOf(peer'.unread[i])
      BY <1>2, <1>3, <2>4, <2>9, <2>12, WrittenTokens DEF Kept
    <3>2. ErrorStays'
      BY <2>10, <3>1 DEF ErrorStays, Stays
    <3> QED BY <2>8, <2>9, <3>1, <3>2 DEF ErrorInv, Speaks, ErrorIsLast
  <2> QED BY <2>9, <2>11, <2>12
<1> QED BY <1>4, <1>5, <1>6

LEMMA PeerReadsError ==
  ASSUME ErrorInv, IInv', PeerReads
  PROVE  ErrorInv'
<1> PICK k \in DOMAIN peer.unread : PeerTakes(k)
  BY DEF PeerReads
<1> DEFINE u == peer.unread
           v == SubSeq(u, k + 1, Len(u))
           as == peer.answers
           a == Decode(u, k)
<1>1. u \in Seq(Tokens) /\ as \in Seq(Answers) /\ Len(u) \in Nat /\ Len(as) \in Nat
      /\ DOMAIN u = 1..Len(u) /\ DOMAIN as = 1..Len(as)
  BY LenProperties DEF ErrorInv, IInv, TypeOK, Peers
<1>2. peer'.answers = Append(as, a) /\ peer'.unread = v /\ client' = client /\ sock' = sock
  BY DEF PeerTakes, ErrorInv, IInv, TypeOK, Peers
<1>3. a \in Answers
  BY <1>1, DecodeType
<1>4. a.code \in {NoCode, CodeOf(u[1])}
  BY DEF Decode, Garbled, CodeOf
<1> HIDE DEF a
<1>5. /\ DOMAIN Append(as, a) = 1..(Len(as) + 1)
      /\ \A j \in DOMAIN Append(as, a) :
           IF j = Len(as) + 1 THEN Append(as, a)[j] = a ELSE j \in DOMAIN as /\ Append(as, a)[j] = as[j]
  BY <1>1, <1>3, AppendProperties
<1>6. \A i \in DOMAIN v : i \in Nat /\ i >= 1 /\ k + i \in DOMAIN u /\ v[i] = u[k + i]
  BY <1>1, TailOf
<1>7. 1 \in DOMAIN u /\ k \in Nat /\ k >= 1
  BY <1>1
<1> HIDE DEF v, u
<1>8. \A j \in DOMAIN as : AfterError(as[j].code, a.code)
  BY <1>4, <1>7 DEF u, AfterError, ErrorInv, AnswersFirst
<1>9. \A i \in DOMAIN v : AfterError(a.code, CodeOf(v[i]))
  <2> TAKE i \in DOMAIN v
  <2>1. k + i \in DOMAIN u /\ 1 < k + i /\ v[i] = u[k + i]
    BY <1>6, <1>7
  <2>2. AfterError(CodeOf(u[1]), CodeOf(u[k + i]))
    BY <1>7, <2>1 DEF u, ErrorInv, UnreadInOrder
  <2> QED BY <1>4, <2>1, <2>2 DEF AfterError, IsErrorCode, NoCode
<1>10. ErrorIsLast'
  <2> SUFFICES ASSUME NEW i \in DOMAIN Append(as, a), NEW j \in DOMAIN Append(as, a), i < j
               PROVE  AfterError(Append(as, a)[i].code, Append(as, a)[j].code)
    BY <1>2 DEF ErrorIsLast, AfterError
  <2>1. CASE j = Len(as) + 1
    <3>1. i # Len(as) + 1
      BY <1>1, <1>5, <2>1
    <3> QED BY <1>5, <1>8, <2>1, <3>1
  <2>2. CASE j # Len(as) + 1
    <3>1. i # Len(as) + 1
      BY <1>1, <1>5, <2>2
    <3> QED BY <1>5, <2>2, <3>1 DEF ErrorInv, ErrorIsLast, AfterError
  <2> QED BY <2>1, <2>2
<1>11. AnswersFirst'
  <2> SUFFICES ASSUME NEW i \in DOMAIN Append(as, a), NEW j \in DOMAIN v
               PROVE  AfterError(Append(as, a)[i].code, CodeOf(v[j]))
    BY <1>2 DEF AnswersFirst
  <2>1. k + j \in DOMAIN u /\ v[j] = u[k + j]
    BY <1>6
  <2>2. CASE i = Len(as) + 1
    BY <1>5, <1>9, <2>2
  <2>3. CASE i # Len(as) + 1
    BY <1>5, <2>1, <2>3 DEF u, ErrorInv, AnswersFirst
  <2> QED BY <2>2, <2>3
<1>12. UnreadInOrder'
  <2> SUFFICES ASSUME NEW i \in DOMAIN v, NEW j \in DOMAIN v, i < j
               PROVE  AfterError(CodeOf(v[i]), CodeOf(v[j]))
    BY <1>2 DEF UnreadInOrder
  <2>1. /\ k + i \in DOMAIN u /\ k + j \in DOMAIN u /\ v[i] = u[k + i] /\ v[j] = u[k + j]
        /\ k + i < k + j
    BY <1>6, <1>7
  <2> QED BY <2>1 DEF u, ErrorInv, UnreadInOrder
<1>13. ErrorStays'
  <2> SUFFICES ASSUME sock.valid
               PROVE  /\ \A i \in DOMAIN Append(as, a) : Stays(Append(as, a)[i].code)
                      /\ \A j \in DOMAIN v : Stays(CodeOf(v[j]))
    BY <1>2 DEF ErrorStays, Stays
  <2>1. \A j \in DOMAIN v : Stays(CodeOf(v[j]))
    <3> TAKE j \in DOMAIN v
    <3>1. k + j \in DOMAIN u /\ v[j] = u[k + j]
      BY <1>6
    <3>2. Stays(CodeOf(u[k + j]))
      BY <3>1 DEF u, ErrorInv, ErrorStays
    <3> QED BY <3>1, <3>2
  <2>2. Stays(a.code)
    BY <1>4, <1>7 DEF u, ErrorInv, ErrorStays, Stays, IsErrorCode, NoCode
  <2>3. \A i \in DOMAIN Append(as, a) : Stays(Append(as, a)[i].code)
    BY <1>5, <2>2 DEF ErrorInv, ErrorStays
  <2> QED BY <2>1, <2>3
<1> QED BY <1>2, <1>10, <1>11, <1>12, <1>13 DEF ErrorInv, Speaks

\* Steps that leave the response and the write buffer alone.
LEMMA OtherStepsError ==
  ASSUME ErrorInv, IInv', peer'.answers = peer.answers, peer'.unread = peer.unread,
         sock'.valid => sock.valid,
         client'.resp = client.resp /\ client'.wbuf = client.wbuf
  PROVE  ErrorInv'
<1>1. Speaks(client') /\ Kept(client, client')
  BY DEF ErrorInv, Speaks, Kept
<1> QED BY <1>1, SameAnswers

LEMMA NextError == ErrorInv /\ [Next]_vars => ErrorInv'
<1> SUFFICES ASSUME ErrorInv, [Next]_vars PROVE ErrorInv'
  OBVIOUS
<1>1. IInv /\ IInv'
  BY NextIInv DEF ErrorInv
<1>2. client \in Clients /\ sock \in [valid : BOOLEAN, eof : BOOLEAN] /\ peer \in Peers
  BY <1>1 DEF IInv, TypeOK
<1>3. CASE ClientReadCb
  BY <1>1, <1>3, ReadStepError
<1>4. CASE WriteCb
  BY <1>1, <1>4, WriteStepError
<1>5. CASE PeerReads
  BY <1>1, <1>5, PeerReadsError
<1>6. CASE Sweep
  <2>1. CASE Dead
    <3>1. ~sock'.valid /\ client' = NewClient("READY_FOR_INPUT") /\ peer' = peer
      BY <1>2, <1>6, <2>1 DEF Sweep
    <3>2. Speaks(client')
      BY <3>1 DEF NewClient, Speaks, Bears
    <3> QED BY <1>1, <3>1, <3>2, SameAnswers
  <2>2. CASE ~Dead
    <3>1. client' = client /\ sock' = sock /\ peer' = peer
      BY <1>6, <2>2 DEF Sweep
    <3> QED BY <1>1, <3>1, OtherStepsError
  <2> QED BY <2>1, <2>2
<1>7. CASE \E writable \in BOOLEAN : Poll(writable)
  BY <1>1, <1>2, <1>7, OtherStepsError DEF Poll, Clients
<1>8. CASE FileReadCb \/ CgiReadCb \/ SkipDead \/ OtherThrows
  <2>1. sock' = sock /\ peer' = peer
    BY <1>8 DEF FileReadCb, CgiReadCb, SkipDead, OtherThrows
  <2>2. client'.resp = client.resp /\ client'.wbuf = client.wbuf
    BY <1>2, <1>8 DEF FileReadCb, CgiReadCb, SkipDead, OtherThrows, Clients
  <2> QED BY <1>1, <2>1, <2>2, OtherStepsError
<1>9. CASE Script
  <2>1. PICK g : ScriptStep(g)
    BY <1>9 DEF Script, ScriptWrites, ScriptExits, ScriptDies, ScriptTimesOut
  <2>2. client'.resp = client.resp /\ client'.wbuf = client.wbuf /\ sock' = sock /\ peer' = peer
    BY <1>2, <2>1 DEF ScriptStep, Clients
  <2> QED BY <1>1, <2>2, OtherStepsError
<1>10. CASE IdleTimeout \/ AskRest \/ Leave \/ (\E r \in Requests : Ask(r))
  <2>1. client' = client /\ sock' = sock
    BY <1>10 DEF IdleTimeout, AskRest, Leave, Ask
  <2>2. peer'.answers = peer.answers /\ peer'.unread = peer.unread
    BY <1>2, <1>10 DEF IdleTimeout, AskRest, Leave, Ask, Peers
  <2> QED BY <1>1, <2>1, <2>2, OtherStepsError
<1>11. CASE UNCHANGED vars
  BY <1>1, <1>11, OtherStepsError DEF vars
<1> QED BY <1>3, <1>4, <1>5, <1>6, <1>7, <1>8, <1>9, <1>10, <1>11 DEF Next, Loop
-----------------------------------------------------------------------------
\* An error answer is the last of its connection, whatever the peer asks and
\* when, whatever fails and however slowly it reads: behind it comes at most the
\* rest of the error or the error repeated.
THEOREM ErrorsAreLast == Spec => []ErrorIsLast
<1>1. Init => ErrorInv
  BY InitError
<1>2. ErrorInv /\ [Next]_vars => ErrorInv'
  BY NextError
<1>3. ErrorInv => ErrorIsLast
  BY DEF ErrorInv
<1> QED BY <1>1, <1>2, <1>3, PTL DEF Spec
=============================================================================
