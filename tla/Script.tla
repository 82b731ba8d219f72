------------------------------- MODULE Script -------------------------------
(***************************************************************************)
(* One request that a script answers, with the bytes that CgiMessage       *)
(* counts only: the body on its way to the script's standard input, and    *)
(* the script's output on its way to the answer's header and body          *)
(* (src/httpMessage/cgi_message.cpp, src/async/program.cpp,                *)
(* src/client/client_cgi_handling.cpp).  The process runs beside the loop, *)
(* which polls the connection, then the script's output, then its input.   *)
(* Of an output the tokens matter: a field is the text of a header line,   *)
(* NL a line end (of one or two bytes), any other token a byte.            *)
(***************************************************************************)
EXTENDS Integers, Sequences, SequencesExt, FiniteSets

CONSTANTS
  Programs,                \* [steps, code]: what scripts do, their exit code
  Bodies,                  \* of the requests; a request without one is not POST
  Fields, NL,              \* tokens of an output; Content-Type, which the
                           \* server adds or replaces, is not among Fields
  Number,                  \* of the Status fields: what std::stoi makes of the
                           \* value; of an empty one, 500
  NoNumber,                \* std::stoi throws
  PipeSize,                \* of both pipes, in tokens
  MaxOutput,               \* CGI_MAX_BODY_SIZE, in tokens
  NoBody, None,            \* no body, no answer yet
  Lost                     \* no answer any more

ASSUME ScriptAssumption ==
  /\ PipeSize \in Nat \ {0} /\ MaxOutput \in Nat
  /\ NL \notin Fields
  /\ DOMAIN Number \subseteq Fields /\ Number \in [DOMAIN Number -> Int \union {NoNumber}]
  /\ NoNumber \notin Int /\ Lost # None
  /\ NoBody \notin Bodies /\ \A b \in Bodies : b \in Seq(ToSet(b))
  /\ \A p \in Programs :
       /\ p.steps \in Seq(ToSet(p.steps))
       /\ \A s \in ToSet(p.steps) : s.op = "write" => s.data \in Seq(ToSet(s.data))
       \* A write to an output that was closed writes nothing, and is left out.
       /\ \A i, j \in DOMAIN p.steps :
            i < j /\ p.steps[i].op = "close" => p.steps[j].op # "write"

VARIABLES
  program, body,   \* what is run, and the body of the request
  prompt,          \* an exit closes the descriptors and leaves a zombie at
                   \* once; otherwise the loop may run between the two
  process,         \* "none", "running", "closing", "zombie", "reaped" or "failed"
  step,            \* of the program
  killed,          \* SIGKILL is under way
  consumed,        \* what the script has read
  stdin, stdout,   \* the pipes; stdout is open while outOpen
  outOpen,
  cgi,             \* _cgiMessage
  late,            \* CGI_TIMEOUT has passed
  answer,          \* what the connection gets
  phase, events,   \* of the loop: whose callback is next, what ::poll returned
  down             \* the server was ended by SIGPIPE

given    == <<program, body, prompt>>
process_ == <<process, step, killed, consumed>>
pipes    == <<stdin, stdout, outOpen>>
loop     == <<phase, events>>
vars     == <<given, process_, pipes, cgi, late, answer, loop, down>>

\* Fields of a new cgiMessage, and _running and _eof of its AsyncProgram.
NewMessage ==
  [headersComplete |-> FALSE, bodyComplete |-> FALSE, readBuffer |-> <<>>, httpBody |-> <<>>,
   fields |-> <<>>, writeCounter |-> 0, tooLarge |-> FALSE, running |-> TRUE, eof |-> FALSE]

ExitCode == IF killed THEN 137 ELSE program.code

Gone == IF prompt THEN "zombie" ELSE "closing"
-----------------------------------------------------------------------------
(***************************************************************************)
(* The process.                                                            *)
(***************************************************************************)
Ends(p) ==
  /\ process' = p
  /\ outOpen' = FALSE

Runs(op) ==
  /\ process = "running" /\ ~killed /\ ~down
  /\ step <= Len(program.steps) /\ program.steps[step].op = op

ReadsInput ==
  /\ Runs("read") /\ stdin # <<>>
  /\ consumed' = Append(consumed, Head(stdin))
  /\ stdin' = Tail(stdin)
  /\ step' = step + 1
  /\ UNCHANGED <<given, process, killed, stdout, outOpen, cgi, late, answer, loop, down>>

\* A write that fits is done at once.
WritesOutput ==
  /\ Runs("write") /\ Len(stdout) + Len(program.steps[step].data) <= PipeSize
  /\ stdout' = stdout \o program.steps[step].data
  /\ step' = step + 1
  /\ UNCHANGED <<given, process, killed, consumed, stdin, outOpen, cgi, late, answer, loop, down>>

ClosesOutput ==
  /\ Runs("close")
  /\ outOpen' = FALSE
  /\ step' = step + 1
  /\ UNCHANGED <<given, process, killed, consumed, stdin, stdout, cgi, late, answer, loop, down>>

Exits ==
  /\ process = "running" /\ ~killed /\ ~down /\ step > Len(program.steps)
  /\ Ends(Gone)
  /\ UNCHANGED <<given, step, killed, consumed, stdin, stdout, cgi, late, answer, loop, down>>

Dies ==
  /\ process = "running" /\ killed
  /\ Ends(Gone)
  /\ UNCHANGED <<given, step, killed, consumed, stdin, stdout, cgi, late, answer, loop, down>>

\* The rest of an exit, after the descriptors are closed.
BecomesZombie ==
  /\ process = "closing"
  /\ process' = "zombie"
  /\ UNCHANGED <<given, step, killed, consumed, pipes, cgi, late, answer, loop, down>>

TimePasses ==
  /\ process # "none" /\ ~late
  /\ late' = TRUE
  /\ UNCHANGED <<given, process_, pipes, cgi, answer, loop, down>>
-----------------------------------------------------------------------------
(***************************************************************************)
(* _makeEnvironment and AsyncProgram's constructor: it throws when the     *)
(* executor cannot be run, a pipe made or a process forked; the answer is  *)
(* then 500 (_buildResponse).                                              *)
(***************************************************************************)
Answered(code, fields, text) == [code |-> code, fields |-> fields, body |-> text]

Start ==
  /\ process = "none"
  /\ \/ process' = "running" /\ UNCHANGED answer
     \/ process' = "failed" /\ answer' = Answered(500, <<>>, <<>>)
  /\ UNCHANGED <<given, step, killed, consumed, pipes, cgi, late, loop, down>>

(***************************************************************************)
(* The poll: the connection is always polled for writing; peer says        *)
(* whether it has room.  Descriptors of a script that has been answered    *)
(* are closed.                                                             *)
(***************************************************************************)
Poll(peer) ==
  /\ phase = "poll" /\ process # "none" /\ answer = None /\ ~down
  /\ events' = {e \in {"out", "in", "hangup", "write"} :
                  \/ e = "out" /\ peer
                  \/ e = "in" /\ stdout # <<>>
                  \/ e = "hangup" /\ ~outOpen
                  \/ e = "write" /\ Len(stdin) < PipeSize}
  /\ phase' = "out"
  /\ UNCHANGED <<given, process_, pipes, cgi, late, answer, down>>

After == [out |-> "in", in |-> "hangup", hangup |-> "write", write |-> "poll"]
Turn(e)  == phase = e /\ e \in events /\ answer = None
Skip ==
  /\ phase # "poll" /\ phase \notin events /\ answer = None
  /\ phase' = After[phase]
  /\ UNCHANGED <<given, process_, pipes, cgi, late, answer, events, down>>

\* _updateProgramStatus: waitpid with WNOHANG.
Running       == cgi.running /\ process # "zombie"
StatusUpdated == process' = IF cgi.running /\ process = "zombie" THEN "reaped" ELSE process

\* Mutant: the script is left alone.
NotKilled == killed' = killed

\* ~AsyncProgram: a script that runs, as far as the server knows, is killed.
Destroyed == killed' = (killed \/ (Running /\ process = "running"))

\* The first Status field decides.
StatusOf(fields) ==
  LET lines == {i \in DOMAIN fields : fields[i] \in DOMAIN Number}
  IN  IF lines = {} THEN 500 ELSE Number[fields[Min(lines)]]

\* setCode gives a body to errors only.
ErrorText(code, text) == IF code \in (400..599) \union {999} THEN text ELSE <<>>

\* The answer for a script that failed, which has been let go: its own Status, with
\* what was read and not moved to the body; an exception leaves the write callback.
Failure ==
  LET code == StatusOf(cgi.fields)
  IN  IF cgi.tooLarge THEN Answered(413, <<>>, <<>>)
      ELSE IF code = NoNumber THEN Lost
      ELSE Answered(code, cgi.fields, ErrorText(code, cgi.readBuffer))

\* Mutant: the time a script has is not limited.
Never == FALSE

Expired == late

\* Mutant: the exit code is not looked at.
SucceededAnyway == TRUE

Succeeded == Running \/ ExitCode = 0

\* _readFromCgi, from the write callback of the connection.  An exception ends
\* the iteration.
ReadFromCgi ==
  /\ Turn("out")
  /\ StatusUpdated
  /\ \/ /\ Expired
        /\ answer' = Answered(408, <<>>, <<>>)
     \/ /\ ~Expired /\ ~Succeeded
        /\ answer' = Failure
     \/ /\ ~Expired /\ Succeeded /\ cgi.bodyComplete
        /\ answer' = Answered(200, cgi.fields, cgi.httpBody)
     \/ /\ ~Expired /\ Succeeded /\ ~cgi.bodyComplete
        /\ UNCHANGED answer
  /\ IF answer' # None THEN Destroyed ELSE UNCHANGED killed
  /\ cgi' = [cgi EXCEPT !.running = Running]
  /\ phase' = IF answer' = Lost THEN "poll" ELSE After[phase]
  /\ UNCHANGED <<given, step, consumed, pipes, late, events, down>>
-----------------------------------------------------------------------------
(***************************************************************************)
(* _cgiReadCb.  The first call with output takes the header from what has  *)
(* been read; later ones move what has been read to the body.              *)
(***************************************************************************)
\* The number of header lines at the beginning.
HeaderLines(s) ==
  Max({n \in 0..Len(s) : 2 * n <= Len(s) /\ \A i \in 1..n : s[2 * i - 1] \in Fields /\ s[2 * i] = NL})

LineEnd(s) == SelectInSeq(s, LAMBDA t : t = NL)

\* A first line that is no header is put back without its line end; after
\* header lines, the next line is taken as the end of the header.
WithHeader(c) ==
  LET n == HeaderLines(c.readBuffer)
      rest == SubSeq(c.readBuffer, 2 * n + 1, Len(c.readBuffer))
      end == LineEnd(rest)
      left == CASE end = 0 -> rest
                [] end # 0 /\ n = 0 -> RemoveAt(rest, end)
                [] OTHER -> SubSeq(rest, end + 1, Len(rest))
  IN  [c EXCEPT !.fields = [i \in 1..n |-> c.readBuffer[2 * i - 1]],
                !.readBuffer = left, !.headersComplete = TRUE]

\* Mutant: the body is what was read last.
Replaced(c) == [c EXCEPT !.httpBody = c.readBuffer, !.readBuffer = <<>>]

Moved(c) == [c EXCEPT !.httpBody = @ \o c.readBuffer, !.readBuffer = <<>>]

Parsed(c) == IF c.headersComplete THEN Moved(c) ELSE WithHeader(c)

Received == [cgi EXCEPT !.readBuffer = @ \o stdout, !.eof = stdout = <<>>]
Emptied  == [Received EXCEPT !.readBuffer = <<>>, !.httpBody = <<>>]

\* Mutant: only what was read just now is held against the limit.
OverflowsAtOnce == Len(Received.readBuffer) > MaxOutput

Overflows == Len(Received.readBuffer) + Len(Received.httpBody) > MaxOutput

\* Mutant: the script of an output that is too large runs on.
RunsOn == cgi' = Parsed(Emptied) /\ UNCHANGED <<process, killed>>

\* kill sends SIGKILL and asks for the status; when the process was reaped it
\* throws, and what is too large is not noted.
Kill ==
  IF cgi.running
    THEN /\ killed' = (killed \/ process = "running")
         /\ StatusUpdated
         /\ cgi' = Parsed([Emptied EXCEPT !.tooLarge = TRUE, !.running = Running])
    ELSE cgi' = Emptied /\ UNCHANGED <<process, killed>>

\* An exception ends the iteration.
CgiReadCb(e) ==
  /\ Turn(e)
  /\ stdout' = IF cgi.eof THEN stdout ELSE <<>>
  /\ \/ cgi.eof /\ cgi' = [cgi EXCEPT !.bodyComplete = TRUE] /\ UNCHANGED <<process, killed>>
     \/ ~cgi.eof /\ ~Overflows /\ cgi' = Parsed(Received) /\ UNCHANGED <<process, killed>>
     \/ ~cgi.eof /\ Overflows /\ Kill
  /\ phase' = IF ~cgi.eof /\ Overflows /\ ~cgi.running THEN "poll" ELSE After[phase]
  /\ UNCHANGED <<given, step, consumed, stdin, outOpen, late, answer, events, down>>
-----------------------------------------------------------------------------
HasInput == body # NoBody /\ cgi.writeCounter < Len(body)
Room     == PipeSize - Len(stdin)

\* What ::write takes.
NextInput == SubSeq(body, cgi.writeCounter + 1, Min({Len(body), cgi.writeCounter + Room}))

\* Mutant: the counter is set, not advanced.
Restarted(n) == n

Advanced(n) == cgi.writeCounter + n

\* _cgiWriteCb.  A write to a script that has gone raises SIGPIPE, and its
\* default action ends the server.
CgiWriteCb ==
  /\ Turn("write")
  /\ \/ ~HasInput /\ UNCHANGED <<stdin, cgi, down>>
     \/ /\ HasInput /\ process = "running"
        /\ stdin' = stdin \o NextInput
        /\ cgi' = [cgi EXCEPT !.writeCounter = Advanced(Len(NextInput))]
        /\ UNCHANGED down
     \/ HasInput /\ process # "running" /\ down' = TRUE /\ UNCHANGED <<stdin, cgi>>
  /\ phase' = After[phase]
  /\ UNCHANGED <<given, process_, stdout, outOpen, late, answer, events>>
-----------------------------------------------------------------------------
Init ==
  /\ program \in Programs /\ body \in Bodies \union {NoBody} /\ prompt \in BOOLEAN
  /\ process = "none" /\ step = 1 /\ killed = FALSE /\ consumed = <<>>
  /\ stdin = <<>> /\ stdout = <<>> /\ outOpen = TRUE
  /\ cgi = NewMessage /\ late = FALSE /\ answer = None
  /\ phase = "poll" /\ events = {} /\ down = FALSE

Process == ReadsInput \/ WritesOutput \/ ClosesOutput \/ Exits
Server  == Poll(FALSE) \/ Skip \/ ReadFromCgi \/ CgiReadCb("in") \/ CgiReadCb("hangup") \/ CgiWriteCb

Next == Start \/ Process \/ Dies \/ BecomesZombie \/ TimePasses \/ Poll(TRUE) \/ Server

Spec == Init /\ [][Next]_vars

\* The loop runs, the peer has room again and again, time passes and the
\* kernel ends what was killed; the script may stop anywhere.
Fairness ==
  /\ WF_vars(Start) /\ WF_vars(Server) /\ SF_vars(Poll(TRUE))
  /\ WF_vars(TimePasses) /\ WF_vars(Dies) /\ WF_vars(BecomesZombie)

FairSpec == Spec /\ Fairness
-----------------------------------------------------------------------------
(***************************************************************************)
(* What a script means to say: all it writes, split once for all.          *)
(***************************************************************************)
Data(p, i) == IF p.steps[i].op = "write" THEN p.steps[i].data ELSE <<>>

\* What has been written after i steps.
Spoken(p) ==
  LET S[i \in 0..Len(p.steps)] == IF i = 0 THEN <<>> ELSE S[i - 1] \o Data(p, i)
  IN  S

Output == Spoken(program)[Len(program.steps)]

\* The tokens that it may write, and the codes that it may give itself.
SaidBy(p) == UNION {ToSet(s.data) : s \in {t \in ToSet(p.steps) : t.op = "write"}}
Said      == SaidBy(program)
OwnCodes  == {Number[f] : f \in DOMAIN Number \intersect Said}

FieldsOf == [i \in 1..HeaderLines(Output) |-> Output[2 * i - 1]]

\* After the header and its empty line.
TextOf ==
  LET n == HeaderLines(Output)
  IN  IF n = 0 THEN Output ELSE SubSeq(Output, 2 * n + 2, Len(Output))

\* What is written first holds all of the header with its empty line, or else
\* there is no line end at all.
HeaderAtOnce ==
  LET n == HeaderLines(Output)
  IN  \/ /\ n > 0 /\ Len(Output) > 2 * n /\ Output[2 * n + 1] = NL
        /\ \A i \in 1..Len(program.steps) :
             Spoken(program)[i] # <<>> => Len(Spoken(program)[i]) > 2 * n
      \/ NL \notin ToSet(Output)

TypeOK ==
  /\ program \in Programs /\ body \in Bodies \union {NoBody}
  /\ process \in {"none", "running", "closing", "zombie", "reaped", "failed"}
  /\ step \in 1..(Len(program.steps) + 1)
  /\ Len(stdin) <= PipeSize /\ Len(stdout) <= PipeSize
  /\ process \in {"closing", "zombie", "reaped"} => ~outOpen
  /\ cgi.bodyComplete => cgi.eof /\ stdout = <<>>
  /\ Len(cgi.readBuffer) + Len(cgi.httpBody) <= MaxOutput
  /\ phase \in {"poll", "out", "in", "hangup", "write"}
  /\ cgi.running <=> process # "reaped"

\* The connection has an answer.
IsAnswered == answer \notin {None, Lost}

\* An answer that says 200 has the fields of the script and its whole text, in
\* order, however the output was cut by the pipe and however its end, its exit
\* and the callbacks came after each other (_cgiReadCb, _readFromCgi): for outputs
\* within the limit whose header is written at once.  A script that fails and
\* gives itself the Status 200 is answered with its fields and no text.
AnswerWhole ==
  (IsAnswered /\ answer.code = 200 /\ HeaderAtOnce /\ Len(Output) <= MaxOutput) =>
    /\ answer.fields = FieldsOf
    /\ \/ answer.body = TextOf
       \/ program.code # 0 /\ StatusOf(FieldsOf) = 200 /\ answer.body = <<>>

\* A script that has not closed its output before it fails is answered with an
\* error of the server or with a code that it gave itself (which may be 200),
\* never as if it had succeeded: the end of the output is only taken for the
\* answer when the exit code is 0 (_readFromCgi asks for it before
\* isBodyComplete).  The kernel closes the descriptors of a process before it
\* can be waited for, so this and the next need the exit to be prompt.
FailureReported ==
  (prompt /\ IsAnswered /\ program.code # 0) =>
    \/ answer.code \in {408, 413, 500} \union OwnCodes
    \/ \E i \in DOMAIN program.steps : program.steps[i].op = "close"

\* An output that is over the limit by more than what two pipes hold is never
\* answered 200 (CGI_MAX_BODY_SIZE): its script is killed while it writes.  The
\* header is not counted, and comes with the first read; a script that ends
\* before the limit is noticed leaves what its pipe holds.
TooLargeRefused ==
  (prompt /\ IsAnswered /\ answer.code = 200) => Len(Output) <= MaxOutput + 2 * PipeSize

\* What the script has read, and what waits in the pipe, is the beginning of
\* the body of the request up to _writeCounter, each byte once (_cgiWriteCb).
InputInOrder ==
  consumed \o stdin = IF body = NoBody THEN <<>> ELSE SubSeq(body, 1, cgi.writeCounter)

\* The answer is lost where a script fails with a Status that is no number.
Mumbles == program.code # 0 /\ NoNumber \in OwnCodes

\* Every request to a script is answered, whatever the script does
\* (CGI_TIMEOUT), unless the server itself is ended by writing to it, or the
\* script fails with a Status of which std::stoi makes no number: it throws when
\* the script was let go, and no later callback answers the request.
AlwaysAnswered == <>(IsAnswered \/ down \/ (answer = Lost /\ Mumbles))

\* No script outlives its answer (~AsyncProgram).
NoneLeftRunning == answer # None ~> process # "running"
=============================================================================
