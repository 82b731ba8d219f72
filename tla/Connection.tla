----------------------------- MODULE Connection -----------------------------
(***************************************************************************)
(* One connection of the server: class Client (src/client/) with its       *)
(* socket, the file or script it is serving, and the iterations of the     *)
(* main loop (src/main.cpp, src/async/pollarray.cpp) that drive it.        *)
(*                                                                         *)
(*   client   the Client object (Clients, below)                           *)
(*   sock     its AsyncSocketClient: the descriptor is open; _eof was set  *)
(*   listed   the Client is an element of clientsList                      *)
(*   inq      request fragments the kernel has received and not delivered  *)
(*   todo     the callbacks that the running iteration still has to call,  *)
(*            then "sweep": erasing dead clients; {} between iterations    *)
(*   idle     _lastActivityTime is more than 30 seconds ago                *)
(*   disk     the files, the directory and the script requests name        *)
(*   peer     what the client at the other end asked and was answered      *)
(*   throws   iterations cut short so far                                  *)
(*                                                                         *)
(* A method of Client that does not block is an operator from Client       *)
(* record to Client record, so that an action makes every call its         *)
(* callback makes.                                                         *)
(***************************************************************************)
EXTENDS CgiMessage

CONSTANTS
  Requests,       \* the requests the peer may send
  Disks,          \* the states the file system may be in
  Avoided,        \* lengths of the files that the peer never names in a HEAD
  FirstStates,    \* values of _state in a new Client: it is not initialised
  WriteSize,      \* DEFAULT_WRITE_SIZE
  MaxAsked,       \* bound: requests the peer sends on this connection
  MaxUnread,      \* bound: tokens the peer holds of an answer not complete yet
  PolitePeer,     \* the peer waits for each answer before it asks again, and
                  \* stays within the 30 seconds that the server allows it
  AlwaysWritable, \* ::poll always reports POLLOUT: the peer reads fast enough
  IoFails,        \* ::read of a file may fail, and ::write once the peer has left
  MaxThrows       \* bound: iterations that an exception from a callback of some
                  \* other connection cuts short

Kinds ==
  {"get", "head", "list", "delete", "put", "redirect", "missing", "bad", "script"}

ASSUME ConnectionAssumption ==
  /\ Requests \subseteq [kind : Kinds, close : BOOLEAN]
  /\ Disks \subseteq [doc : FileStates, page : FileStates,
                      listing : BOOLEAN, removable : BOOLEAN, script : Scripts]
  /\ FirstStates \subseteq {"READY_FOR_INPUT", "ERROR"}
  /\ WriteSize \in Nat \ {0}
  /\ MaxAsked \in Nat
  /\ MaxUnread \in Nat
  /\ MaxThrows \in Nat
  /\ {PolitePeer, AlwaysWritable, IoFails} \subseteq BOOLEAN

VARIABLES client, sock, listed, inq, todo, idle, disk, peer, throws

vars == <<client, sock, listed, inq, todo, idle, disk, peer, throws>>

-----------------------------------------------------------------------------
\* Data.

NoRequest == [kind |-> "none"]
NoFile    == [src |-> "none"]
NoScript  == [status |-> "none"]

\* A request travels in two fragments; the second holds the end of its header.
Fragments == [req : Requests, part : {1, 2}]

States == {"READY_FOR_INPUT", "READ_REQUEST", "BUILDING_RESPONSE",
           "WRITE_RESPONSE", "CGI_WRITE", "CGI_READ", "ERROR"}

Clients ==
  [state : States, rbuf : Seq(Fragments), wbuf : Seq(Tokens),
   req : Requests \union {NoRequest}, resp : Responses,
   file : Handlers \union {NoFile}, cgi : CgiMessages \union {NoScript}]

NewClient(state) ==
  [state |-> state, rbuf |-> <<>>, wbuf |-> <<>>, req |-> NoRequest,
   resp |-> EmptyResponse, file |-> NoFile, cgi |-> NoScript]

\* The code of the exception that httpRequest::parse throws for a request.
RejectCodes == [bad |-> 400, missing |-> 404, redirect |-> 301]
Rejected(r) == r.kind \in DOMAIN RejectCodes

\* The header Connection of a request that was cleared is empty.
AsksToClose(r) == r # NoRequest /\ r.close
-----------------------------------------------------------------------------
(***************************************************************************)
(* Methods of Client.                                                      *)
(***************************************************************************)

\* _returnHttpErrorToClient: buffers dropped, the error body or the custom
\* page queued, the request forgotten.  Without a request there is no server
\* block to take a page from.
ReturnError(c, code) ==
  LET resp == SetCode(c.resp, code)
      cleared == [c EXCEPT !.rbuf = <<>>, !.req = NoRequest, !.resp = resp, !.state = "ERROR"]
  IN  IF disk.page.open = "absent" \/ c.req = NoRequest
        THEN [cleared EXCEPT !.wbuf = FixedBodyResponse(resp)]
        ELSE [cleared EXCEPT !.wbuf = <<>>, !.file = Open("page", disk.page)]

\* A response whose body is known at once; the request is forgotten here, long
\* before the response is written.
FixedAnswer(c, resp) ==
  [c EXCEPT !.resp = resp, !.wbuf = FixedBodyResponse(resp), !.req = NoRequest]

\* _buildResponse.
BuildResponse(c) ==
  LET kind == c.req.kind IN
  CASE kind = "script" /\ disk.script.exec -> [c EXCEPT !.cgi = Start]
    [] kind = "list" /\ disk.listing ->
         FixedAnswer(c, SetCode(SetFixedSizeBody(c.resp, <<Unit("listing", 1)>>), 200))
    [] kind \in {"get", "head"} -> [c EXCEPT !.file = Open("doc", disk.doc)]
    [] kind = "delete" /\ disk.removable ->
         FixedAnswer(c, SetFixedSizeBody(SetCode(c.resp, 200), <<Unit("notice", 1)>>))
    [] kind = "put" -> ReturnError(c, 999)
    [] OTHER -> ReturnError(c, 500)

\* httpRequest::parse on the read buffer: nothing before the end of a header
\* has come, and one request at a time.  A bad header is refused before the
\* server block is known.
Parse(c) ==
  CASE c.req # NoRequest \/ (Len(c.rbuf) = 1 /\ c.rbuf[1].part = 1) -> c
    [] c.req = NoRequest /\ c.rbuf[1].part = 2 -> ReturnError(c, 400)
    [] OTHER ->
         LET r == c.rbuf[1].req
             d == [c EXCEPT !.rbuf = SubSeq(@, 3, Len(@))]
         IN  CASE r.kind = "bad" -> ReturnError(d, RejectCodes[r.kind])
               [] r.kind # "bad" /\ Rejected(r) ->
                    ReturnError([d EXCEPT !.req = r], RejectCodes[r.kind])
               [] OTHER -> [d EXCEPT !.req = r]

\* _clientReadCb once data is in the buffer.
HandleInput(c) ==
  LET p == Parse([c EXCEPT !.state = "READ_REQUEST"])
  IN  IF p.req = NoRequest THEN p
      ELSE BuildResponse([p EXCEPT !.state = "BUILDING_RESPONSE"])

\* The test for HEAD reads _httpMethod, which a cleared request does not
\* initialise: stale is the value found there.
IsHead(c, stale) == IF c.req = NoRequest THEN stale ELSE c.req.kind = "head"

\* _readFromFile, its two parts: a full buffer is a chunk...
SendChunk(c, stale) ==
  LET resp  == SetCode(c.resp, 200)
      chunk == ReadUnits(c.file)
      next  == [c EXCEPT !.state = "WRITE_RESPONSE", !.file = AfterRead(c.file)]
  IN  CASE resp.chunked ->
             [next EXCEPT !.resp = AfterChunk(resp, chunk), !.wbuf = @ \o Chunk(chunk)]
        [] ~resp.chunked /\ IsHead(c, stale) ->
             [next EXCEPT !.resp = AfterChunk(StartChunked(resp), <<>>),
                          !.wbuf = ChunkedHead(resp), !.file = NoFile]
        [] OTHER ->
             [next EXCEPT !.resp = AfterChunk(StartChunked(resp), chunk),
                          !.wbuf = ChunkedHead(resp) \o Chunk(chunk)]

\* ...and at the end of the file what is left is the last chunk, or all of it.
SendRest(c, stale) ==
  LET rest == ReadUnits(c.file)
      resp == SetFixedSizeBody(SetCode(c.resp, 200), rest)
      next == [c EXCEPT !.state = "WRITE_RESPONSE", !.file = NoFile]
  IN  CASE c.resp.chunked ->
             [next EXCEPT !.resp = AfterChunk(c.resp, <<>>),
                          !.wbuf = @ \o Chunk(rest) \o Chunk(<<>>)]
        [] ~c.resp.chunked /\ IsHead(c, stale) ->
             [next EXCEPT !.resp = resp, !.wbuf = StartLineAndHeaders(resp)]
        [] OTHER -> [next EXCEPT !.resp = resp, !.wbuf = FixedBodyResponse(resp)]

ReadFromFile(c, stale) ==
  IF c.file.bad
    THEN IF c.file.denied THEN ReturnError([c EXCEPT !.file = NoFile], 403)
                          ELSE ReturnError(c, 500)
    ELSE LET d == IF ReadBufferFull(c.file) THEN SendChunk(c, stale) ELSE c
         IN  IF d.file # NoFile /\ d.file.eof THEN SendRest(d, stale) ELSE d

\* _readFromCgi: the status of the process is tested before its output.
ReadFromCgi(c) ==
  LET g    == AfterStatus(c.cgi)
      gone == [c EXCEPT !.cgi = NoScript]
      resp == SetFixedSizeBody(SetCode(c.resp, 200), [i \in 1..g.got |-> Unit("script", i)])
  IN  CASE g.late -> ReturnError(gone, 408)
        [] ~g.late /\ ExitCode(g) # 0 -> ReturnError(gone, IF g.tooLarge THEN 413 ELSE 500)
        [] ~g.late /\ ExitCode(g) = 0 /\ g.complete ->
             FixedAnswer([gone EXCEPT !.state = "CGI_READ"], resp)
        [] OTHER -> [c EXCEPT !.cgi = g, !.state = "CGI_WRITE"]

\* The head of _clientWriteCb: what there is to write.
FillWriteBuffer(c, stale) ==
  LET d == IF c.file = NoFile THEN c ELSE ReadFromFile(c, stale)
  IN  IF d.cgi = NoScript THEN d ELSE ReadFromCgi(d)

\* Mutants: a partial write drops the rest of the buffer; an error does not
\* close the connection; the response is not cleared.
AfterWholeWrite(c, n)   == [c EXCEPT !.state = "WRITE_RESPONSE", !.wbuf = <<>>]
ClosesWhenAsked(c)      == AsksToClose(c.req)
ResetKeepingResponse(c) == [c EXCEPT !.req = NoRequest, !.file = NoFile, !.state = "READY_FOR_INPUT"]

\* The rest of it, after n tokens were written.
AfterWrite(c, n) == [c EXCEPT !.state = "WRITE_RESPONSE", !.wbuf = SubSeq(@, n + 1, Len(@))]
ResponseSent(c)  == c.wbuf = <<>> /\ c.resp.complete
ClosesAfter(c)   == AsksToClose(c.req) \/ IsErrorCode(c.resp.code)
Reset(c) ==
  [c EXCEPT !.resp = EmptyResponse, !.req = NoRequest, !.file = NoFile,
            !.state = "READY_FOR_INPUT"]
-----------------------------------------------------------------------------
(***************************************************************************)
(* The peer: an HTTP client that splits what it receives into answers.     *)
(***************************************************************************)
Answers == [code : Codes, body : Seq(Units)]
Garbled == [code |-> NoCode, body |-> <<>>]      \* bytes that are no answer

\* asked and answers in order; half: the last request is not all sent;
\* unread: received and not yet a whole answer; left: it has shut down.
Peers == [asked : Seq(Requests), half : BOOLEAN, answers : Seq(Answers),
          unread : Seq(Tokens), left : BOOLEAN]

NewPeer == [asked |-> <<>>, half |-> FALSE, answers |-> <<>>, unread |-> <<>>, left |-> FALSE]

\* The positions at which the answer to r at the front of s may end.
Ends(s, r) ==
  CASE s[1].t # "head" -> {1}
    [] s[1].t = "head" /\ s[1].framing = "cut" -> {}
    [] s[1].t = "head" /\ s[1].framing # "cut" /\ r.kind = "head" -> {1}
    [] s[1].t = "head" /\ s[1].framing = "fixed" /\ r.kind # "head" -> {s[1].n + 1} \intersect DOMAIN s
    [] OTHER -> {k \in DOMAIN s : s[k] = LastChunk}

Decode(s, k) ==
  LET stop == IF s[k] = LastChunk THEN k - 1 ELSE k
      body == SubSeq(s, 2, stop)
  IN  IF s[1].t = "head" /\ \A i \in 2..stop : s[i].t = "unit"
        THEN [code |-> s[1].code, body |-> body] ELSE Garbled

Waiting(p) == Len(p.answers) < Len(p.asked)

PeerTakes(k) ==
  /\ peer.unread # <<>>
  /\ ~peer.left
  /\ Waiting(peer)
  /\ LET ends == Ends(peer.unread, peer.asked[Len(peer.answers) + 1])
     IN  k \in ends /\ \A j \in ends : k <= j
  /\ peer' = [peer EXCEPT !.answers = Append(@, Decode(peer.unread, k)),
                          !.unread = SubSeq(@, k + 1, Len(@))]
  /\ UNCHANGED <<client, sock, listed, inq, todo, idle, disk, throws>>

Ask(r) ==
  /\ sock.valid
  /\ ~peer.left /\ ~peer.half
  /\ Len(peer.asked) < MaxAsked
  /\ r.kind = "head" => disk.doc.len \notin Avoided
  /\ PolitePeer => ~Waiting(peer) /\ ~idle
  /\ peer' = [peer EXCEPT !.asked = Append(@, r), !.half = TRUE]
  /\ inq' = Append(inq, [req |-> r, part |-> 1])
  /\ UNCHANGED <<client, sock, listed, todo, idle, disk, throws>>

AskRest ==
  /\ peer.half /\ ~peer.left
  /\ peer' = [peer EXCEPT !.half = FALSE]
  /\ inq' = IF sock.valid
              THEN Append(inq, [req |-> peer.asked[Len(peer.asked)], part |-> 2])
              ELSE inq
  /\ UNCHANGED <<client, sock, listed, todo, idle, disk, throws>>

Leave ==
  /\ ~peer.left
  /\ peer' = [peer EXCEPT !.left = TRUE]
  /\ UNCHANGED <<client, sock, listed, inq, todo, idle, disk, throws>>
-----------------------------------------------------------------------------
(***************************************************************************)
(* The script's process, and time.                                         *)
(***************************************************************************)
ScriptStep(g) ==
  /\ client' = [client EXCEPT !.cgi = g]
  /\ UNCHANGED <<sock, listed, inq, todo, idle, disk, peer, throws>>

ScriptWrites ==
  /\ client.cgi # NoScript /\ CanWrite(client.cgi, disk.script)
  /\ ScriptStep(Written(client.cgi))

ScriptExits ==
  /\ client.cgi # NoScript /\ CanExit(client.cgi, disk.script)
  /\ ScriptStep(Exited(client.cgi, disk.script.status))

ScriptDies ==
  /\ client.cgi # NoScript /\ client.cgi.alive /\ client.cgi.doomed
  /\ ScriptStep(Exited(client.cgi, KilledStatus))

\* Ten seconds pass only when the script makes no progress or the peer makes
\* none: an iteration takes a few milliseconds.
ScriptTimesOut ==
  /\ client.cgi # NoScript /\ ~client.cgi.late
  /\ ~AlwaysWritable \/ Stuck(client.cgi, disk.script)
  /\ ScriptStep([client.cgi EXCEPT !.late = TRUE])

\* Likewise thirty seconds.
NothingToDo ==
  /\ inq = <<>> \/ client.state = "ERROR"
  /\ \/ ~AlwaysWritable
     \/ client.wbuf = <<>> /\ client.file = NoFile /\ client.cgi = NoScript

IdleTimeout ==
  /\ listed /\ sock.valid /\ ~idle
  /\ NothingToDo
  /\ PolitePeer => ~peer.half
  /\ idle' = TRUE
  /\ UNCHANGED <<client, sock, listed, inq, todo, disk, peer, throws>>
-----------------------------------------------------------------------------
(***************************************************************************)
(* The main loop.                                                          *)
(***************************************************************************)

\* The descriptors are polled in the order in which they were added, so the
\* socket comes before the file and the pipe; a pipe with data whose writer is
\* gone has two events.  The erase of main comes last.
Rank   == [in |-> 1, out |-> 2, file |-> 3, data |-> 4, hangup |-> 5, sweep |-> 6]
Events == DOMAIN Rank

\* AsyncPollArray::poll, up to the return of ::poll.
Poll(writable) ==
  LET connected == listed /\ sock.valid
      ready == [in     |-> connected /\ (inq # <<>> \/ peer.left),
                out    |-> connected /\ writable,
                file   |-> client.file # NoFile /\ client.file.fd,
                data   |-> client.cgi # NoScript /\ Readable(client.cgi),
                hangup |-> client.cgi # NoScript /\ HungUp(client.cgi),
                sweep  |-> TRUE]
  IN  /\ todo = {}
      /\ AlwaysWritable => writable
      /\ todo' = {e \in Events : ready[e]}
      /\ client' = [client EXCEPT
           !.file = IF ready.file THEN [@ EXCEPT !.polled = TRUE] ELSE @,
           !.cgi  = IF ready.data \/ ready.hangup THEN [@ EXCEPT !.polled = TRUE] ELSE @]
      /\ UNCHANGED <<sock, listed, inq, idle, disk, peer, throws>>

\* The next callback of the iteration.
First(event) == event \in todo /\ \A e \in todo : Rank[event] <= Rank[e]
Calls(event) == First(event) /\ todo' = todo \ {event}

\* _clientReadCb.
ClientReadCb ==
  /\ Calls("in")
  /\ LET c == [client EXCEPT !.rbuf = @ \o inq] IN
     IF client.state = "ERROR"
       THEN UNCHANGED <<client, sock, inq, idle>>
       ELSE /\ inq' = <<>>
            /\ sock' = [sock EXCEPT !.eof = @ \/ inq = <<>>]
            /\ client' = IF c.rbuf = <<>> THEN c ELSE HandleInput(c)
            /\ idle' = (idle /\ c.rbuf = <<>>)
  /\ UNCHANGED <<listed, disk, peer, throws>>

\* _clientWriteCb with nothing to write.
ClientWriteNothing(stale) ==
  LET c == FillWriteBuffer(client, stale) IN
  /\ Calls("out")
  /\ c.wbuf = <<>>
  /\ client' = c
  /\ idle' = (idle /\ c = client /\ client.cgi = NoScript)
  /\ UNCHANGED <<sock, listed, inq, disk, peer, throws>>

\* _clientWriteCb when ::write takes n tokens.
ClientWriteCb(stale, n) ==
  LET c == FillWriteBuffer(client, stale)
      d == AfterWrite(c, n)
  IN  /\ Calls("out")
      /\ n <= Len(c.wbuf)
      /\ peer.left \/ Len(peer.unread) + n <= MaxUnread
      /\ client' = IF ResponseSent(d) THEN Reset(d) ELSE d
      /\ sock' = [sock EXCEPT !.valid = ~(ResponseSent(d) /\ ClosesAfter(d))]
      /\ idle' = FALSE
      /\ peer' = [peer EXCEPT !.unread = IF peer.left THEN @ ELSE @ \o SubSeq(c.wbuf, 1, n)]
      /\ UNCHANGED <<listed, inq, disk, throws>>

\* _clientWriteCb when ::write fails.
ClientWriteFails(stale) ==
  LET c == FillWriteBuffer(client, stale) IN
  /\ Calls("out")
  /\ c.wbuf # <<>>
  /\ IoFails /\ peer.left
  /\ client' = [c EXCEPT !.state = "ERROR"]
  /\ idle' = FALSE
  /\ UNCHANGED <<sock, listed, inq, disk, peer, throws>>

\* A callback is only called while its descriptor lives: the event of a handler
\* that was dropped or replaced since ::poll is skipped.
FileEvent   == client.file # NoFile /\ client.file.fd /\ client.file.polled
ScriptEvent == client.cgi # NoScript /\ client.cgi.polled

\* InFileHandler::_readCb.
FileReadCb ==
  /\ Calls("file")
  /\ FileEvent
  /\ \/ client' = [client EXCEPT !.file = ReadCb(@)]
     \/ IoFails /\ client' = [client EXCEPT !.file = ReadCbFails(@)]
  /\ UNCHANGED <<sock, listed, inq, idle, disk, peer, throws>>

\* cgiMessage::_cgiReadCb; what it throws ends the iteration.
CgiReadCb ==
  /\ ScriptEvent
  /\ \E event \in {"data", "hangup"} :
       /\ First(event)
       /\ todo' = IF KillThrows(client.cgi) THEN {} ELSE todo \ {event}
  /\ client' = [client EXCEPT !.cgi = CgiRead(@)]
  /\ UNCHANGED <<sock, listed, inq, idle, disk, peer, throws>>

SkipDead ==
  /\ \/ Calls("file") /\ ~FileEvent
     \/ Calls("data") /\ ~ScriptEvent
     \/ Calls("hangup") /\ ~ScriptEvent
  /\ UNCHANGED <<client, sock, listed, inq, idle, disk, peer, throws>>

\* Mutant: the erase does not test whether the socket is still valid.
DeadOrIdle == listed /\ (sock.eof \/ idle)

\* The erase of main: a Client that goes takes its file and script with it.
Dead == listed /\ (sock.eof \/ idle \/ ~sock.valid)

Sweep ==
  /\ Calls("sweep")
  /\ IF Dead
       THEN /\ listed' = FALSE
            /\ sock' = [sock EXCEPT !.valid = FALSE]
            /\ client' = NewClient("READY_FOR_INPUT")
            /\ inq' = <<>>
       ELSE UNCHANGED <<listed, sock, client, inq>>
  /\ UNCHANGED <<idle, disk, peer, throws>>

\* An exception from some other callback of the iteration: main catches it and
\* neither the callbacks that follow nor the erase are run.
OtherThrows ==
  /\ throws < MaxThrows
  /\ throws' = throws + 1
  /\ todo # {}
  /\ todo' = {}
  /\ UNCHANGED <<client, sock, listed, inq, idle, disk, peer>>
-----------------------------------------------------------------------------
Init ==
  /\ \E state \in FirstStates : client = NewClient(state)
  /\ sock = [valid |-> TRUE, eof |-> FALSE]
  /\ listed = TRUE
  /\ inq = <<>>
  /\ todo = {}
  /\ idle = FALSE
  /\ disk \in Disks
  /\ peer = NewPeer
  /\ throws = 0

WriteCb ==
  \E stale \in BOOLEAN :
    \/ ClientWriteNothing(stale)
    \/ \E n \in 1..WriteSize : ClientWriteCb(stale, n)
    \/ ClientWriteFails(stale)

Loop ==
  \/ \E writable \in BOOLEAN : Poll(writable)
  \/ ClientReadCb \/ WriteCb \/ FileReadCb \/ CgiReadCb \/ SkipDead \/ Sweep

Script == ScriptWrites \/ ScriptExits \/ ScriptDies \/ ScriptTimesOut

PeerReads == \E k \in DOMAIN peer.unread : PeerTakes(k)

Next ==
  \/ Loop \/ OtherThrows
  \/ Script \/ IdleTimeout
  \/ PeerReads \/ AskRest \/ Leave
  \/ \E r \in Requests : Ask(r)

Spec == Init /\ [][Next]_vars

\* The loop keeps running, and processes, clocks and the peer's reading and
\* sending of what it has begun are not stopped forever; nobody has to ask.
Fairness ==
  /\ WF_vars(Loop)
  /\ WF_vars(ScriptWrites) /\ WF_vars(ScriptExits) /\ WF_vars(ScriptDies)
  /\ WF_vars(ScriptTimesOut) /\ WF_vars(IdleTimeout)
  /\ WF_vars(PeerReads) /\ WF_vars(AskRest)

FairSpec == Spec /\ Fairness
-----------------------------------------------------------------------------
(***************************************************************************)
(* What a connection promises.                                             *)
(***************************************************************************)
Body(src, n) == [i \in 1..n |-> Unit(src, i)]
ErrorAnswer(code) == [code |-> code, body |-> Body("error", 1)]

\* The right answer to a request, when no error page is configured.
RightAnswer(r) ==
  CASE Rejected(r) /\ r.kind # "redirect" -> ErrorAnswer(RejectCodes[r.kind])
    [] r.kind = "redirect" -> [code |-> 301, body |-> <<>>]
    [] r.kind = "put" -> ErrorAnswer(999)
    [] r.kind = "list" /\ disk.listing -> [code |-> 200, body |-> Body("listing", 1)]
    [] r.kind = "delete" /\ disk.removable -> [code |-> 200, body |-> Body("notice", 1)]
    [] r.kind \in {"get", "head"} /\ disk.doc.open = "ok" ->
         [code |-> 200, body |-> IF r.kind = "head" THEN <<>> ELSE Body("doc", disk.doc.len)]
    [] r.kind \in {"get", "head"} /\ disk.doc.open = "denied" -> ErrorAnswer(403)
    [] r.kind = "script" /\ disk.script.exec ->
         CASE disk.script.out > MaxScriptBody -> ErrorAnswer(413)
           [] disk.script.out <= MaxScriptBody /\ disk.script.hangs -> ErrorAnswer(408)
           [] disk.script.out <= MaxScriptBody /\ ~disk.script.hangs /\ disk.script.status = 0 ->
                [code |-> 200, body |-> Body("script", disk.script.out)]
           [] OTHER -> ErrorAnswer(500)
    [] OTHER -> ErrorAnswer(500)

(***************************************************************************)
(* What the constants must be for a connection to implement HttpExchange.  *)
(* A peer that does not wait, a socket that makes the connection wait, a   *)
(* read that fails, a redirect, an error page of its own, a file that      *)
(* cannot be opened but is not forbidden, an answer to HEAD shorter than   *)
(* the buffer, a file that ends with a full buffer and a script that is    *)
(* cut off but exits by itself each break the promise.                     *)
(***************************************************************************)
KeepsPromise ==
  /\ PolitePeer /\ AlwaysWritable /\ ~IoFails
  /\ FirstStates \subseteq {"READY_FOR_INPUT"}
  /\ \A r \in Requests : r.kind # "redirect"
  /\ \A d \in Disks :
       /\ d.page.open = "absent"
       /\ d.doc.open \in {"ok", "denied"}
       /\ d.doc.open = "denied" \/ d.doc.len < BufferSize => d.doc.len \in Avoided
       /\ \A m \in 1..d.doc.len : d.doc.len # m * BufferSize
       /\ d.script.out > MaxScriptBody => d.script.hangs

\* A connection implements HttpExchange: the peer sees it open until it has
\* taken all that was sent before the close.
Exchange == INSTANCE HttpExchange WITH
  promise  <- [r \in Requests |-> {RightAnswer(r)}],
  asked    <- peer.asked,
  answered <- peer.answers,
  open     <- sock.valid \/ peer.unread # <<>>,
  left     <- peer.left

ImplementsExchange == Exchange!Spec

TypeOK ==
  /\ client \in Clients
  /\ sock \in [valid : BOOLEAN, eof : BOOLEAN]
  /\ listed \in BOOLEAN
  /\ inq \in Seq(Fragments)
  /\ todo \subseteq Events
  /\ idle \in BOOLEAN
  /\ disk \in Disks
  /\ peer \in Peers
  /\ throws \in 0..MaxThrows

\* The read buffer of a file never outgrows its bound: _readCb asks the file
\* for _bufferSize - _readbuffer.length() bytes, an unsigned difference.
BufferBound == client.file # NoFile => client.file.buf <= BufferSize

\* A handler that is at its end has read the whole file, unless a read failed:
\* _readCb takes a read that returns nothing for the end of the file, also one
\* that asked for nothing because the buffer was full.
NoFalseEof ==
  client.file # NoFile =>
    (client.file.eof /\ ~client.file.bad => client.file.pos = client.file.len)

\* Whatever is lost when things go wrong, the body of an answer is the front
\* of one file, script output or text: partial writes, full buffers and
\* restarted callbacks neither drop, repeat nor mix units.  This is said of a
\* peer that has not received garbage yet: a file that is ended with two last
\* chunks leaves one over, which the peer takes for the next answer; it is then
\* one request ahead of the server, which starts a file again in mid-answer.
AnswersArePrefixes ==
  \A k \in DOMAIN peer.answers :
    LET body == peer.answers[k].body IN
    body # <<>> /\ (\A j \in 1..k : peer.answers[j] # Garbled) =>
      body = Body(body[1].src, Len(body))

\* An error answer is the last of its connection: a peer that asks again gets
\* no other answer, at most the rest of the error or the error repeated.
ErrorIsLast ==
  \A j, k \in DOMAIN peer.answers :
    j < k /\ IsErrorCode(peer.answers[j].code) =>
      peer.answers[k].code \in {NoCode, peer.answers[j].code}

\* Only a redirect is answered with 301: a response that was written whole is
\* cleared before the next request is answered.
OnlyRedirectsRedirected ==
  \A k \in DOMAIN peer.answers :
    peer.answers[k].code = 301 => peer.asked[k].kind = "redirect"

\* A connection whose peer has left is erased from the list.
GoneIsErased == peer.left ~> ~listed
=============================================================================
