# A model of codam-webserv

codam-webserv is an HTTP/1.1 server in C++: one process, one thread, one loop
around `poll(2)`. It serves files and directory listings, deletes files, runs CGI
scripts, redirects and sends error pages. Nothing runs in parallel, and still the
order of things is hard: the socket, the file and the script of a request are
separate descriptors with callbacks of their own, the peer and the scripts are
other processes, and the objects that the callbacks are bound to live in a vector
that moves them.

These modules model that behaviour in TLA+. TLC checks them on small instances
(`<run>.cfg`), and TLAPS checks the proofs in `ConnectionProofs`, `ExchangeProofs`,
`ParserProofs`, `ServerProofs`, `ClientListProofs`, `ScriptProofs`, `RoutingProofs` and
`OrderProofs`. `PROJECT.json` maps each definition to the lines it stands for, and lists the
runs, the hazards, the findings and the theorems.

Paths below are relative to the root of the repository.

## 1. Inventory

| Component | Source | State | Operations | Interacts with |
|---|---|---|---|---|
| Client | `src/client/*`, `include/client.hpp` | `_state`, read and write buffer, `_request`, `_response`, `_inputFile`, `_cgiMessage`, session, last activity | read and write callbacks, build the response, read from file or script, return an error, copy | everything below |
| httpResponse | `src/httpMessage/http_response.cpp` | code, body, fixed or chunked, complete | `setCode`, `setFixedSizeBody`, `setChunkedEncoding`, `get*` | built by Client |
| httpRequest | `src/httpMessage/httpRequest/*` | how far header and body are parsed, location, body | `parse`, `clear`, copy | reads Buffer, asks the configuration |
| Buffer | `src/buffer.cpp` | bytes per read, counts of lines and empty lines, status of the last byte | `add`, `read`, `remove`, `getCRLFLine`, `clear` | filled by Client, emptied by httpRequest |
| InFileHandler, AsyncInFile, AsyncInput | `src/file_handler.cpp`, `src/async/in_file.cpp`, `src/async/input.cpp` | bounded read buffer, end of file, errors | `_readCb`, `read` | poll loop fills, Client empties |
| cgiMessage, AsyncProgram | `src/httpMessage/cgi_message.cpp`, `src/async/program.cpp` | output collected, process status, size and time limits | `_cgiReadCb`, `_cgiWriteCb`, `checkProgramStatus`, `kill` | poll loop, Client, a process |
| AsyncPollArray and main loop | `src/async/pollarray.cpp`, `src/main.cpp` | weak pointers to descriptors, the `pollfd`s | `poll`, then the erase of clients and sessions | calls every callback |
| AsyncSocket, AsyncSocketClient, AsyncOutput | `src/async/socket*.cpp`, `src/async/output.cpp` | descriptor, end of file, pending bytes | `accept`, `read`, `write`, `close` | kernel and Client |
| `std::vector<Client>` | `src/main.cpp`, `src/client/client.cpp` | the objects, their memory | `emplace_back`, `erase(remove_if)` | copies Clients, so rebinds callbacks |
| WebServSessionList | `src/session.cpp`, `src/client/client_session.cpp` | sessions by id, creation time | `createSession`, `getSession`, `removeExpiredSessions` | Clients share sessions |
| Server and location selection | `src/config/*` | tree of blocks | pick a server, then a location; inherit | httpRequest |
| Configuration parser, utilities, listing, logging | `src/config/*`, `src/utils*`, `lib/*` | none after start-up | text | all |

What is hard in it, and what makes each part correct:

* **Client.** A file is read by one callback and sent by another, in an order the
  list of descriptors decides; writes are partial; an exception of some other
  connection cuts an iteration short; one connection serves many requests, and what
  one answer leaves behind shapes the next. Correct: every request of a peer that waits
  for its answers is answered once, in order, whole, and with the right thing; a
  connection whose peer is gone is erased.
* **InFileHandler.** The buffer may be full when the file is polled. Correct: the
  buffer keeps its bound, and the end of the buffer is not the end of the file.
* **cgiMessage.** Exit, end of output, overflow and timeout come in any order, the
  pipes cut input and output anywhere, and the process runs beside the loop.
  Correct: each end has its own answer (200, 413, 408, 500 or the script's own Status),
  whatever comes first; the body reaches the script in order and its output the answer; no
  request waits for ever and no script outlives its answer.
* **AsyncPollArray and the descriptors.** Results of `::poll` are matched by position to a
  list that the callbacks change, and numbers of descriptors are used again within one
  iteration. Correct: an event goes to the object that was polled; every open
  descriptor has one owner and one place in the list; no peer is forgotten.
* **Buffer and httpRequest.** Bytes come in reads cut anywhere, between CR and LF
  too. Correct: the cuts do not change what is parsed, and nothing stalls.
* **`std::vector<Client>`.** Callbacks and pointers hold addresses. Correct: they
  follow their client, and a copy carries all of the state.
* **Sessions.** Shared by clients and outlived by them. Correct: never shared by
  two users.
* **Configuration.** Settings are inherited when the whole text was read, tables keep the
  first of several servers, locations are tried in a sorted order. Correct: each
  request gets the server, location, settings and answer that the text says.

## 2. Modules

```
HttpResponse <- FileHandler <- CgiMessage <- Connection <- MCConnection
                                                           MCConnection <- MCExchange
                                             Connection <- ConnectionProofs <- ExchangeProofs
                               HttpExchange  (instantiated by Connection)
Buffer <- RequestParser <- MCRequestParser
          RequestParser <- ParserProofs
Sessions <- ClientList <- MCClientList
            ClientList <- ClientListProofs
Script <- MCScript
Script <- ScriptProofs
Configuration <- Routing <- MCRouting
                 Routing <- RoutingProofs
Order <- Server <- MCServer
         Server <- ServerProofs
Order <- OrderProofs   (extended by ServerProofs, ClientListProofs, ScriptProofs,
                        RoutingProofs, ParserProofs)
```

(An arrow points from the module that extends to the one it extends.)

**HttpResponse, FileHandler, CgiMessage** are operators on records, as the classes
are objects used by a Client. Data is abstract: a body is a sequence of units
`[src, i]` (the i-th unit of the document, the listing, the script...), so that a
unit lost, repeated or mixed with another source shows. What goes on the wire is a
sequence of tokens: a head with its code and framing, units, the last chunk.

**Connection** is one connection with its Client, its peer, its file or script and
the iterations of the main loop that concern it. `Poll` fills `todo` with the ready
events, as `AsyncPollArray::poll` takes them from `::poll`; the callbacks then run
one by one in the order of the list (`Rank`) and the erase of `main` comes
last (`Sweep`). Each callback is one action that makes all the calls of the code:
`ClientReadCb` (parse and `_buildResponse`), `ClientWriteNothing`,
`ClientWriteCb` and `ClientWriteFails` (`_clientWriteCb` with its calls to
`_readFromFile` and `_readFromCgi`), `FileReadCb`, `CgiReadCb`. Between the
callbacks the peer, the process and the clocks take steps of their own.
`OtherThrows` is an exception from another connection's callback: `main` catches it,
and neither the remaining callbacks nor the erase run. Values that the code leaves
uninitialised are chosen nondeterministically: `_state` of a new Client
(`FirstStates`), the method of a cleared request (`stale`).

**HttpExchange** is the abstract specification: ask, answer with a right answer,
close when nobody waits, leave. `Connection` implements it under the mapping in
`Exchange`: a connection is *open* until the peer has taken what was sent before
the close, and `promise` gives for each request the one answer the disk stands for.

**Buffer and RequestParser** take requests out of the read buffer, at the level of
bytes where lines end (CR, LF) and of tokens elsewhere. `Receive` is
one call of `_clientReadCb`: `add`, `parse` as far as it goes, the check of the
header size. The loops of the parser are recursive functions over the rounds.

**Sessions and ClientList** are the connections together. A Client is at an address
(memory, place); `Accept` may move all of them to new memory, `Sweep` moves
those behind a gap, and both apply the assignment operator of the code with what
it leaves out. `quiet` and `resolved` record what the code does not keep, to state
properties against it.

**Script** opens what `CgiMessage` counts: the body of the request on its way through a
bounded pipe, the output on its way back, split into header lines and body, the
process with its exit in two steps (descriptors first, then the status), SIGKILL, SIGPIPE
and the 10 seconds. A script is a sequence of steps (read, write, close its output, hang)
and an exit code; an output is a sequence of tokens, of which header lines and line ends
matter. `ReadFromCgi`, `CgiReadCb` and `CgiWriteCb` are the callbacks of the code, each
with all it calls, in the order in which the connection, the output and the input are listed.
A write to an output that was closed writes nothing; `ScriptAssumption` leaves programs
with such writes out.

A script that fails is answered by `Failure`, line by line as in
`client_cgi_handling.cpp:13-29`: 413 if it was too large, else `std::stoi` of the first Status
field of its header (`StatusOf`, with the constant `Number` for what `stoi` makes of a value), 500
if there is none. That number may be any, 200 too, and only codes from 400 to 599 and 999 get a
text (`ErrorText`, as in `setCode`): what was read and not yet moved to the body. Of a value that
is no number `stoi` makes an exception, which leaves the write callback and ends the iteration,
after the script was let go and before an answer was built: the answer is then `Lost`, and
no later callback gives one.

**Configuration and Routing.** A configuration is a sequence of directives, read one per
step as the extractors do, block by block, and refused where they throw. `EndOfText` then
hands settings down (`Overridden`). The tables, the error page and the script of a path
are operators. `Route` answers one request: `_resolvePathAndLocationBlock`, the test of
the body's size, `_buildResponse` and the page of `_returnHttpErrorToClient`. What the
path leads to on the disk comes with the request, and whether it can be removed, and whether
its body is `counted`: by a Content-Length, or chunk by chunk. Only such a body has a limit
(`parse_body.cpp:38` and `:87`); the body of a POST, PUT or PATCH with neither is read by
`_addUntilNewline` (`:120`), which tests none, and is then run or served whatever its size.
Requests are HTTP/1.1: of another version, one without a Host would not be refused
(`parse_header.cpp:99`). The properties compare with a second
reading of the text (`Around`, `InForce`, `PortsOf`...), which knows positions and braces
only, not the code's records.

**Server** is the process: all objects that hold a descriptor, the numbers the kernel
gives them (the lowest free one), the list of weak pointers, the results of `::poll` as
pairs of position and event, and the erase. `Poll` rids the list of dead objects; the walk
then takes the events in order, and each callback may add to the list, open, close and
destroy. What a callback reads or writes is in
`Connection` and `Script`; here a request or an answer takes any number of callbacks.
`accept` fails when no number is left, which ends the iteration.

A handler of the code makes several calls, and the next must see what the last one did. So the
helpers take and give a *world*, the clients, objects, open numbers and list as the calls so far
have left them: `WithObject` adds an object, `Rid` destroys what nobody holds any more and closes it,
`HasFile` and `HasPipes` replace a handler or a script, `ErrorReturned` is
`_returnHttpErrorToClient`. The write callback (`WriteCb`) is `_readFromFile`, then
`_readFromCgi`, then the write, and the first two may fail: a script that timed out or failed is let
go, which closes its pipes, and the error page that is then opened may get one of
their numbers, and is added to the list under the walk; a file that could not be opened is a null
pointer in the list, also when the page of its own error is the file that cannot be opened.
A page is opened only while the request still has its server (`asked`), for
`_returnHttpErrorToClient` clears the request. `Throws` is `std::stoi` of a Status that is no number: it
cuts the iteration. `owner` in a result is the
object that was polled, to state `EventsToOwner`; no action reads it.

**Order** has numbers by their rank in a finite set. `std::remove_if` keeps the k-th of the
places that hold a living object at place k, and a new descriptor is the lowest
number that is free: both are members of a set with so many lower ones.

## 3. Runs

| Run | Module | Expect | What it asks |
|---|---|---|---|
| `polite` | MCExchange | pass | `TypeOK`, `NoFalseEof`, `ImplementsExchange`, `GoneIsErased`: for a peer that waits for each answer, all kinds of answers, an iteration cut short at any point |
| `slow` | MCConnection | pass | `BufferBound`, `AnswersArePrefixes`, `ErrorIsLast`: what survives when the socket is not always writable, and reads and writes fail |
| `parser` | MCRequestParser | pass | `TypeOK`, `CountsAgree`, `HeaderWhole`, `BodyWhole`, `NeverStalls`, `RefusedRightly`: two requests of any kinds after each other, cut anywhere |
| `clients` | MCClientList | pass | `TypeOK`, `CallbacksBound`, `SessionsPrivate`: three connections of two users, moved in any order |
| `script` | MCScript | pass | `TypeOK`, `AnswerWhole`, `FailureReported`, `TooLargeRefused`, `InputInOrder`, `AlwaysAnswered`, `NoneLeftRunning`: one request to a script of any behaviour |
| `config` | MCRouting | pass | `TypeOK`, `SettingsInherited`, `ServerChosen`, `LocationChosen`, `ServedAsConfigured`, `RefusedWithReason`: families of configurations, and requests under each |
| `server` | MCServer | pass | `TypeOK`, `EventsToOwner`, `DescriptorsOwned`, `ListedOnce`, `NobodyForgotten`: peers that come, ask and leave while read and write callbacks open and close, and descriptors run out |
| `false_eof` | MCConnection | violation | `NoFalseEof` |
| `redirect` | MCConnection | violation | `OnlyRedirectsRedirected` |
| `fixed_body` | MCRequestParser | violation | `BodyWhole` |
| `inactivity` | MCClientList | violation | `RemovedWhenInactive` |
| `moved_request` | MCClientList | violation | `LocationKept` |

`MCExchange` assumes `KeepsPromise` of its constants, so that TLC evaluates the hypothesis of
`AnswersAsPromised` (below) on the instance of `polite`.

### What the violations show

* `false_eof`: when the socket is not writable for an iteration, the file is polled
  with its buffer full, asked for 0 bytes, and the 0 it returns is taken for its
  end: the answer is cut short, and framed as if it were whole.
* `redirect`: a redirect has no body, so `_bodyComplete` stays false and the response is
  never cleared; the next request on the connection is answered 301.
* `fixed_body`: each read of a body with Content-Length replaces what came before.
* `inactivity`: `operator=` leaves `_lastActivityTime` out, so a Client that `erase`
  moves takes over the time of the one that was erased, and is erased as well.
* `moved_request`: `operator=` of httpRequest leaves `_location` out, so a request that
  waits for its body loses it when the vector grows.

### Bounds

* `BufferSize` = 2 units: files of 0 to 5 units have none, one, two and more than two
  buffers, full and partial. `MaxScriptBody` = 2: a script may fit or overflow.
* `WriteSize` = 2 tokens: a write may take part of a chunk or of a head with its body.
* `MaxAsked` = 2: what one answer leaves behind can only show in the next, and all pairs
  are tried. `MaxThrows` = 1: one cut iteration, at any point.
* `MaxUnread` limits what a peer has received and not yet split into answers. It is large enough for the longest
  answer of its run (in `polite` 8 tokens: a head, 5 units, the last chunk), so
  that a full peer is never the reason for which a write does not happen.
* Parser: 16 messages, 4 reads, every position of the header and of most bodies as a
  cut. `MaxBody` = 3 and `MaxHeader` = 12 make each limit reachable.
* `ClientList`: 3 connections, so that the vector grows 1, 2, 4 and an erase leaves
  elements before and behind the gap; 3 requests; ages up to `Timeout` + 1, beyond which
  all ages are alike. `Timeout` = 0 in `clients` makes any tick expire everything.
  The two connections of one user may be exchanged (`Symmetry`); nothing in the module
  or in the three invariants tells them apart.
* `Script`: `PipeSize` = 5 and a body of 7 tokens, so that an input needs two writes and an
  output may have to wait; `MaxOutput` = 6, with outputs below it, above it by less than a
  pipe, and above it by more, with up to three full pipes and a header. Programs write in one
  to four steps, read before, between and after, have both exit codes, close early and hang.
  Scripts that fail give themselves the Status 200, another, none, or one that is no number.
* `Routing`: texts with every setting present or not at each level and before or after the
  blocks it is for; two or three servers on two ports with two names; three locations in
  any order, with equal references among them; all methods, targets and sizes
  around the limits, counted or not; a file that cannot be removed; texts that must be refused.
* `Server`: two machines. `Tight` has two descriptors beside the listening socket, for two
  connections and their files: `accept` fails, and numbers are used again within an
  iteration. `Roomy` has six for one connection: the four of a script's pipes can be made
  beside a socket, and not beside the two of an earlier script that is not yet read; an error
  page opens under the number of a pipe released in the same callback. One
  listening socket: a second would only be another place in the list.

### What the runs leave out, each for a reason

* `polite` has no redirect (see `redirect`), no custom error page, no writable gap (see
  `false_eof`). A custom page larger than the read buffer is cut after its first chunk,
  since `setCode` has already completed the response with the built-in text; and
  `_readFromFile` reads the method of the cleared request, which is not initialised: as
  HEAD, the page's body is not sent.
* A page for a file that fails to be read in mid-answer (`file_handler.cpp:71`) is put
  behind the units already sent. `slow` has pages only where the file cannot be opened.
* `FirstStates` is `READY_FOR_INPUT` in all runs. `_state` is not initialised
  (`client.cpp:18`); where it holds `ERROR` the connection never reads.
* `polite` has no file whose length is a multiple of the buffer. Its end is sent twice
  (`client_file_handling.cpp:53`) and the second terminator is taken for the next
  answer.
* `polite` never asks HEAD of a file smaller than the buffer, nor of an unreadable one
  (`Avoided` holds the lengths). The answer to the first has no empty line after its
  headers (`client_file_handling.cpp:47`), so the peer would wait; the answer to the
  second has a body.
* `polite` has no file that fails to open for a reason other than permissions: the handler
  stays and the error is built again in each write callback.
* `polite` has no script that overflows after it has exited: the kill then throws, and the
  script is not reported as too large.
* `parser` has no body of fixed size that is cut (see `fixed_body`), no Content-Length
  of 0 (the body is never complete, `parse_body.cpp:21`), no chunk whose data holds
  a line break, and no two requests in one read (the count of empty lines then
  outlives the first).
* In `ClientList` every request has a body to wait for and is answered by a script:
  the two moments at which a move matters. A file needs nothing when its Client moves,
  for its handler is reached through a pointer that is copied.

* In `Script`, `FailureReported` and `TooLargeRefused` are about exits at which the status
  can be had as soon as the descriptors are closed (`prompt`): otherwise the loop may run
  between the two, and a failing script is answered 200. `AnswerWhole` is about outputs
  whose header is written at once (`HeaderAtOnce`): what the first read does not hold of it
  becomes body, and a first line that is no header loses its line end.
* The limit of an output is not exact. The header is not counted, and it comes with the
  first read; and a script that exits before the limit is noticed leaves what its pipe holds, which
  is cut and answered 200. So an output may exceed the limit by two pipes: with a header of
  5 tokens and 5 + 5 of body, 15 tokens pass a limit of 6. `TooLargeRefused` states this bound.
* In `Routing` a name has a dot only before its extension: an address with any other dot
  gets no slash (`parse_header.cpp:179`). A target that is "absent" may be run as a script
  (the test of the method never refuses, `parse_header.cpp:214`), and is modelled so.
* `AnswerWhole` has an exception for a script that fails and gives itself the Status 200: it is
  answered 200 with its fields and without its text. `FailureReported` lets a failing script have
  the codes that it names itself, and `AlwaysAnswered` leaves out one whose Status is no number
  (`Mumbles`).
* In `Connection` a failing script has no Status and is answered 500; what a Status does is in
  `Script`. In `Script` the answer to an error is the built-in one; that the server's own page
  replaces its text is in `Routing`, and that a page is a file of its own, with its descriptor,
  in `Connection` and `Server`.
* In `Server` a socket always has room, the callbacks of a script's pipes are left to
  `Script`, and of the callbacks only `accept` and the write callback throw (an exception of any other
  is `OtherThrows` in `Connection`). `std::filesystem::exists`, which may throw, does not.

`script` ends with the answer, `config` with a text that is refused, and
SIGPIPE ends the server in `server`, so these run without the check for deadlock. `parser` does too, for a connection stops when its request is
refused or its last one complete.

### Fairness

`FairSpec` of `Connection` has weak fairness of the loop (`poll` has a timeout of 5 ms,
so an iteration always begins and ends), of the process (the system schedules it), of the clocks,
and of the peer's reading and of sending the rest of what it has begun. Nobody has to
ask, to leave or to throw. A write waits in the model for a peer that holds `MaxUnread`
tokens; `PeerReads` is fair because the runs with liveness are about peers that want
their answers. `FairSpec` of `ClientList` has
the clock and the loop only. `HttpExchange` promises `WF(Answer)`: who waits and stays is
answered.

`Script` has weak fairness of the loop, of the clock and of the kernel (what was killed
ends, a zombie appears); the program itself may stop anywhere. The peer has room again and
again (strong fairness of `Poll(TRUE)`), for `_readFromCgi` runs in the connection's write
callback: a peer that never reads keeps its script until it is inactive. `Server` has
fairness of the loop (`GoesRound`): it polls and walks again and again until SIGPIPE ends it, since
a walk has as many steps as `::poll` returned events; and of the clock (`GrowsIdle`): a client
whose state does not change becomes inactive. They are weak fairness of `Loop`, of which a step is
enabled until SIGPIPE, and of `TimePasses`, which is disabled by its own step; stated by states,
because TLC would have to evaluate the enabledness of every callback in every state.
`NobodyForgotten` has an exception beside those of SIGPIPE and of descriptors that never become
free: scripts of others that fail with a Status that is no number, again and again
(`Interrupted`), each cutting an iteration before the erase.

## 4. Proofs

Each theorem holds for every value of the constants that satisfies the named assumptions of
the modules, which TLC evaluates in the runs. Each rests on one inductive invariant, proved
with one step per action; lemmas say what the methods of the code return and keep.
What is called an invariant below was first checked by TLC on the run of its module.

### One connection

`ConnectionAssumption`, `BufferSizeAssumption` and `MaxScriptBodyAssumption`:

| Theorem | Statement |
|---|---|
| `TypeCorrect` | `Spec => []TypeOK` |
| `BufferBounded` | `Spec => []BufferBound`: no socket condition, failed read or restarted request makes a file's buffer outgrow its bound |
| `NoFalseEofWhenWritable` | `AlwaysWritable => (Spec => []NoFalseEof)`: no file is cut short while the socket is always writable. `false_eof` shows that the assumption is needed |
| `ErrorsAreLast` | `Spec => []ErrorIsLast`: behind an error answer a peer gets at most the same error again |
| `AnswersAsPromised` (ExchangeProofs) | `KeepsPromise => (Spec => Exchange!Init /\ [][Exchange!Next]_(Exchange!vars))`: the safety part of `ImplementsExchange` |

The first three rest on

    IInv == TypeOK /\ GoodFile(client.file) /\ FileOfConnection
              /\ SocketEvents /\ DrainedFirst /\ HalfAsked

`NoFalseEof` is not inductive. `ReadCb` reads nothing only if the file is at its end or
the buffer is full, so it must be known that the buffer is not full when the file's callback
runs. That holds because the write callback, which precedes it in the same iteration,
has just emptied the buffer (`DrainedFirst`); because it was called in every iteration that calls the
file's, a socket with a file being listed and valid (`SocketEvents`,
`FileOfConnection`); and because a file opened in the running iteration was not
polled in it. `GoodHandler` ties the buffer to the position in the file, so that
what remains unread is known, and `HalfAsked` makes the request that `AskRest`
completes exist.

`ErrorsAreLast` adds to it that the write buffer bears only the code of the response
(`Speaks`), that an error that the peer has seen is still the response's code while the socket
is valid (`ErrorStays`: `setCode` refuses a second code, and the response of an error
is cleared only when the socket is closed), and that neither the answers nor the unread tokens
have another code behind an error (`AnswersFirst`, `UnreadInOrder`). Nothing is assumed
of the peer or the socket: writes may be partial or fail and requests come at any time.

`AnswersAsPromised` needs what `KeepsPromise` says: the peer waits for its answers, the
socket is writable, and the requests and the disk are among those that the code serves well (each
condition is explained under "What the runs leave out"). Its invariant describes a peer that is
there by phases:

* *Quiet*: all is answered, nothing is under way and the client is as it was made;
* *Sent*: the request is on its way, its two parts split between the socket and the read buffer;
* *Work*: the client works on it, in one of four ways. *Reading*: the file is open and nothing
  has been sent. *Scripting*: the script runs, and `ScriptOf` relates what was read of it to what it
  does. *Chunking*: what the peer has with what is in the write buffer is the head and the
  units up to the handler's position, a whole number of buffers. *Finishing*: it is all of `Message`,
  the tokens of the right answer;
* *Done*: the peer has all of it and has not yet split it off.

Each callback moves within a phase or to the next, and an exception elsewhere
changes nothing but the rest of the iteration. What the peer splits off of `Message` is then the answer that
`HttpExchange` promises. A peer that has left leaves
only steps that close. Its proof is the longest here, since all of `_clientWriteCb` passes through it.

### The read buffer and the parser

`ParserAssumption` (a message is a sequence of at least one byte, its cuts are positions of it, the
limits are natural numbers):

| Theorem | Statement |
|---|---|
| `LineCountsAgree` | `Spec => []CountsAgree`: the count of the buffer's lines is the sum of its items' counts |
| `ParserTypes` | `Spec => []TypeOK` |
| `CutsDoNotCount` | `Add(Add(b, c), d)` and `Add(b, c \o d)` have the same bytes, counts and status: a network that cuts a read in two, anywhere, changes only the items |
| `DropTakesFirst` | `remove` leaves the bytes behind the first `n`, whichever items hold them, and counts that agree |
| `WholeHeaders` | `AllWellFormed => (Spec => []HeaderWhole)` |
| `WholeBodies` | `AllWellFormed => (Spec => []BodyWhole)` |
| `NoneStalls` | `AllWellFormed => (Spec => []NeverStalls)` |
| `RefusalsRight` | `AllWellFormed => (Spec => []RefusedRightly)` |

`TypeOK` is not inductive, for `remove` subtracts from an unsigned count: `Typed` adds `CountsAgree`,
by which the lines of what is popped were counted before. A front item that is cut is counted
afresh, which may give it fewer lines than before (a line feed whose carriage return was taken) and
never more than it has. Each loop of the parser is followed for any set that
its rounds do not leave (`StartLoop`, `HeaderLoop`, `ChunkLoop`), and `LineTaken` says what
`getCRLFLine` returns and what it leaves. The theorems about the operators hold for all
sequences of bytes, also those that are no request.

The last four theorems compare what is parsed with what was sent, so they need messages whose
bytes encode a request: `AllWellFormed` says of each message that some `fields` and `chunks` make it
`WellFormed`: its bytes are a start line, any number of fields with a Host among them, an empty
line, and for a method with a body any number of chunks of any text, within the limits of
header and body. `MCRequestParser` assumes `WellFormedAre`, so that TLC evaluates the
hypothesis on the well-formed messages of the run `parser`. Bodies of a fixed size and bodies up to
an empty line are left out, because for them the properties are false when a body comes in parts
(`fixed_body`). Messages that are refused for their form stay with TLC.

The argument is the state of the parser as a function of how many bytes have come (`OnCourse`).
`Layout` gives the line `ls[k]` of a message the position `at[k]` of its last byte, and
`Reading(b, m, ls, at, k, q)` says that a buffer holds the bytes behind line `k` up to byte `q`, that
each of its items that has a line feed counts a line (`AllMark`: else `getCRLFLine` would not see
it), and that the status of its last byte is the one of byte `q` (`Status`). Then either

* *Starts*: the end of the header has not come, nothing was taken, and no empty line is counted;
* *Waits*: the header is in the request, the first `j` chunks are the body, the size of the next
  is known or not, and the next line has not come in full; or
* *Over*: the body is the one that was sent, nothing is in the buffer and no empty line is counted.

`Received` says what a read adds to this: it follows `add` byte by byte over the lines
(`NextByte`), which needs that no two lines in a row are empty (`Clean`), for behind an empty
line the status stays CRLFCR. It also says that the count of empty lines rises exactly when the
header's end has come, so `parse` begins there and not before. `TakesLine` says that
`getCRLFLine` returns the next line if it is there in full and nothing otherwise. From it, each
loop is shown to stop at the right line: `HeaderRead` at the empty one, `BodyRead` at the first line
that is not there or at the last chunk. A loop ends because each round takes two bytes
(`LoopEnds`). A buffer that was emptied in *Over* and a new request are *Starts* again, whatever status
the last byte left: this is why `Status` says nothing of byte 0.

### The server

`ServerAssumption` (the listening ports are different, and each machine has a descriptor for each):

| Theorem | Statement |
|---|---|
| `EventsReachOwner` | `Spec => []EventsToOwner`: no result of `::poll` is given to an object that was not polled for it |
| `DescriptorsNeverShared` | `Spec => []DescriptorsOwned`: open descriptors and objects with a number stay one to one |
| `PolledOnce` | `Spec => []ListedOnce`: what is owned is in the poll list exactly once |
| `Typing` | `Spec => []TypeOK` |

They rest on

    IInv == machine \in Machines /\ Owned(fds, open, Fds) /\ Placed /\ Waiting
              /\ Typed /\ Listed

`Owned` is `DescriptorsOwned` with its types, stated of any three values. A handler may close,
open and append several times, so what it does is shown call by call. `Fit(w, D, N)` says of a
world `w` that its owners, types and places are right and that its list is the present one with
something new at its end (`Grown`), where `N` are the connections; each helper has a lemma
that what it gives fits if what it is given does (`WithObject`, `Rid`, `HasFile`, `FileOpened`,
`ErrorReturned`, `ReadFromFile`, `ReadFromCgi`...). So every callback ends in a world
that fits, whatever it opened after what it released, and the invariant follows once from
that (`StepFits`): only `accept` adds a connection and only `Poll` changes the list otherwise. A new
number is free, a destroyed object takes its number out of `open`. `Placed` says that the list is a sequence and that the
positions in `due` hold the objects that were polled. It is kept because callbacks only
append: the list is rid of dead objects before `::poll` and not while it is walked.
`Waiting` says that a connection in a backlog is nobody's object yet and waits once, so
that `accept` never gives a second descriptor to a connection; without it the induction
fails at `Accept`. A new file or pipe has a name that is neither an object's nor in the
list (`Unused`), as a new object is not at the address of a living one and a weak pointer
to a dead object never finds it. `Listed` says of the living that they have one place in the
list, and of connections that were not accepted that they have none; `Cleaned` keeps it, as
`InOrderLists` (in `OrderProofs`) makes the kept places a sequence that has each of them once.

### The list of clients

`ClientListAssumption` and `TimeoutAssumption`:

| Theorem | Statement |
|---|---|
| `CallbacksFollow` | `Spec => []CallbacksBound`: the socket of each listed client calls back the client of its own slot |
| `SessionsNeverShared` | `Spec => []SessionsPrivate`: no session is held by two users |
| `Typing` | `Spec => []TypeOK` |

They rest on `TypeOK /\ capacity \in Nat /\ Bound /\ Private`. `Bound` adds that a connection
without an element has no callback, so that moving one element over another cannot leave a callback
behind. `Private` counts every place that has a session: the cookie of a browser, the
client's field and the cookie in an answer on its way; each number has at most one user in all of
them, and none is above `made`, so that the next one is nobody's.

### Scripts

`ScriptAssumption` (the pipes hold something, bodies and what scripts write are sequences, and
nothing is written to a closed output):

| Theorem | Statement |
|---|---|
| `BodyInOrder` | `Spec => []InputInOrder`: a script reads the body of its request, each byte once and in order, however the pipe cuts it |
| `FailureNeverHidden` | `Spec => []FailureReported`: a script that fails before it closes its output is answered 408, 413, 500 or with a number that a Status of its own names, when the status of an exit follows its end of output at once |
| `OutputAnsweredWhole` | `Spec => []AnswerWhole`: a 200 for an output within the limit has its fields and its whole text in order, or is the Status of a script that failed, and then has its fields and no text |
| `LimitKept` | `Spec => []TooLargeRefused`: a 200 never has an output beyond the limit and two pipes |
| `Typing` | `Spec => []TypeOK` |

`BodyInOrder` rests on `InputIInv`: the pipe holds no more than its size and
`_writeCounter` is not past the body, so the next part begins where the last one ended
(`NextPart`). `FailureNeverHidden` rests on `OutputIInv`, whose parts say

* `EndIsReal`: the output of a process that still runs is at its end only because it
  closed it;
* `EventsHold`: what `::poll` returned is still true when the callback runs. A readable
  output keeps its bytes until its callback, so that an empty read, which sets `_eof`,
  happens only on a hang-up;
* `MessageTrue`: `_eof` and `isBodyComplete` follow such an end, and `_running` is true
  only of a process that has not been reaped.

An answer as if the script had succeeded therefore has an ended output, and an exit code that is
not 0 has not been seen then: the process runs, so it closed the output. `AnsweredRightly` is
this last step. For the code of a failure, the header that was parsed has only fields that
the script wrote, so `StatusOf` is 500 or a number among `OwnCodes`.

The other three rest on `WholeIInv`, which adds to these what the message holds of what was
written. `Spoken` is all that a program has written after so many steps. `EndIsLast`: an output ends
when all of it is written, or by a kill or a close. `MessageBound`: buffer and body are within
the limit, the pipe within its size. `Counted`: what is held is what was written less
the header, at most a pipe; or the limit was passed, no more is written and what was is within
the limit and two pipes. `Split`: an output within the limit is never killed for its size, and body, buffer
and pipe, one after the other, are the written text from the end of its header on.
The bound of `LimitKept` was one pipe at first; the induction failed at the first read, and
TLC then found the header and two parts that exceed it, in a program that the run now has.

### Configuration and routing

`ConfigurationAssumption` and `RoutingAssumption`: a text is any sequence of directives
whose arguments have the types that the extractors make of them, and a request has a method
that `_parseHttpStartLine` lets pass.

| Theorem | Statement |
|---|---|
| `Typing` | `Spec => []TypeOK` |
| `Inheritance` | `Spec => []SettingsInherited`: each location has the settings that stand nearest to it in the text |
| `FirstServer` | `Spec => []ServerChosen`: the first server of the text with port and name, or else with the port |
| `LongestReference` | `Spec => []LocationChosen`: a longest reference that begins the address |
| `OnlyAsConfigured` | `Spec => []ServedAsConfigured`: nothing is served that the text does not allow there; the size is only that of a body with a length or in chunks, others have no limit |
| `RefusalsGiveReason` | `Spec => []RefusedWithReason`: an error has its reason, and its server's page |

The properties hold at the end of the text only, and while it is read say nothing of the
records; so the invariant (`Reads`) says at each position `at` what the records hold: what
the second reading finds *before* `at`. `ReadAt` has, in each block, the settings of `main`
and of each server and location (`SettingsOf`: the last directive of the block), their ports,
names, index files, scripts and pages (in the order of the text), and one record for each
block that was opened. It has to know which block a position is in, and the second
reading counts braces for that: `Nested` says that all blocks that opened before `at`
are closed, but as many as the reader is in, and `LastOf` that the open ones are the last of
their kind. From these, `AroundHere` shows that the position read next is in the block of
the record that the reader fills; all other records keep what they hold (`ServersKept`,
`ClosedKept`). At the end `TextEnds` turns the two passes of `_overrideDefaults` into `InForce`. An answer
(`Answered`) is then right because the searches of the code, over indexes of records, find the
same as the searches of the properties, over positions (`FirstInOrder`), for every order that
`std::sort` leaves equal references in (`SortedLocations`).

### Induction

The library's theorems for induction take an operator as a parameter, which the installed
provers cannot instantiate, and RECURSIVE operators lose the SMT backend. Both can be
avoided: `LeastExists` in `OrderProofs` (a set of natural numbers has a least member) gives
induction on a set of numbers (`Induction`), by the least counterexample, and a
recursive function is first shown to satisfy its equation, in the same way. `NthExists` and
`InOrderLists` (ranks in a finite set) and `SpokenSteps` (what a script has written) are proved so.

### Checked by TLC only

* Liveness (`GoneIsErased`, `NobodyForgotten`, `AlwaysAnswered`, `NoneLeftRunning`, the
  fairness of `ImplementsExchange`): out of the reach of this prover.
* `AnswersArePrefixes`. It is about a slow peer, where a file may be cut short, and only about
  the answers before the first garbled one: when a file ends by two last chunks, the second is left over
  and is taken for the beginning of the next answer.
  It does not hold for every value of the constants: the 403 to a HEAD of a file that cannot be read
  leaves the units of its error page over, when there is a page, and the next answer begins with them
  (`slow` asks for no such file with HEAD). A theorem would have to name the requests and the files
  it is about.
* `HeaderWhole`, `BodyWhole`, `NeverStalls` and `RefusedRightly` of messages that are not
  well-formed: an empty line before the start line, junk, a header that is too long, chunks that are
  refused, bodies of a fixed size or up to an empty line that come at once. Their messages are listed
  in `MCRequestParser`.

## 5. Not modelled

* **The spelling of a configuration**: a directive with an argument that its extractor
  refuses is "junk". Sizes are natural numbers; the conversion of a negative or huge one is
  undefined (`config_extractors.cpp:149`). `config_insertions.cpp` prints.
* **The environment of a script**: texts that are set before it starts. Only standard input
  and output are modelled.
* **httpMessage, utilities, directory listing**: maps of headers, MIME types, times
  and HTML; a listing is one unit.
* **Logging**: output only.
* **Pipelining**: two requests in one read; see the plan.
* **Other versions of HTTP**: a request of the models is HTTP/1.1, in which a Host is required.
* **Content-Length 0, a chunk whose data holds a line break, and a script that is absent** (hazards
  without a property): no property of the runs would see what the code does with them.
* **The start of the program**: `bind`, `listen` and the configuration file fail before
  anything is served.
* `AsyncPollArray::remove`, `AsyncFD::poll`, `removeSession` and `updateSessionTimeout` are
  never called.

## 6. Plan

Done, in the order of importance: the file path of a connection, then its
other answers and errors, the abstract exchange, scripts, the proofs of the
core; the parser; the client list with sessions; configuration and routing; scripts
with their pipes; the server over its descriptors; the proofs of the client list and of the
server's list; the refinement of the exchange; the proofs of a script's output, of what
the text of a configuration means, and of the answers under it; the proofs of the read buffer,
of the parser's types, and of what it makes of well-formed requests.

Next, to prove:

1. `Connection`: `AnswersArePrefixes` of requests without HEAD of an unreadable file, from the
   phases of `ExchangeProofs` without `AlwaysWritable`.
2. `RequestParser`: that a request which is not well-formed is refused, and with which code.

Next, to model and check:

3. **A script's Status in `Connection`**: the request that is never answered, as the peer sees it.
4. **Pipelining**: two requests in one read, in the parser and in `Connection`; the
   count of empty lines that outlives a request; Content-Length 0, and
   chunk data with a line break.
5. **Error pages**: a promise that configured pages keep, once it is stated which.
