---------------------------- MODULE ScriptProofs ----------------------------
(***************************************************************************)
(* Theorems of Script, for every value of its constants.                   *)
(***************************************************************************)
EXTENDS Script, OrderProofs, SequenceTheorems

(***************************************************************************)
(* The parts of the inductive invariant.                                   *)
(***************************************************************************)
Message == cgi = [f \in DOMAIN NewMessage |-> cgi[f]]

\* What the script has been given, with the bound of the pipe.
Bytes == IF body = NoBody THEN {} ELSE ToSet(body)

InputIInv ==
  /\ Message /\ cgi.writeCounter \in Nat /\ body \in Bodies \union {NoBody}
  /\ consumed \in Seq(Bytes) /\ stdin \in Seq(Bytes) /\ Len(stdin) <= PipeSize
  /\ body # NoBody => cgi.writeCounter <= Len(body)
  /\ InputInOrder

\* Why an output is at its end while the script runs.
ClosedByProgram == \E i \in DOMAIN program.steps : program.steps[i].op = "close"

\* Ends of outputs, and who brought them about.
EndIsReal ==
  /\ process \in {"none", "running", "closing", "zombie", "reaped", "failed"}
  /\ process \in {"none", "failed"} => outOpen
  /\ ~outOpen /\ process = "running" => ClosedByProgram
  /\ prompt => process # "closing"

\* What ::poll returned is still so when its callback runs.
EventsHold ==
  /\ phase \in {"poll", "out", "in", "hangup", "write"}
  /\ "hangup" \in events => ~outOpen
  /\ phase \in {"out", "in"} /\ "in" \in events => stdout # <<>>

\* What the message says of the end and of the process.
MessageTrue ==
  /\ Message
  /\ cgi.eof => ~outOpen
  /\ cgi.bodyComplete => cgi.eof
  /\ cgi.running => process # "reaped"

OutputIInv ==
  /\ program \in Programs /\ step \in Nat \ {0} /\ stdout \in Seq(Said)
  /\ EndIsReal /\ EventsHold /\ MessageTrue

\* What has been written until now.
Written == Spoken(program)[step - 1]

\* Who brought about the end of an output, and that all has been written then.
EndIsLast ==
  /\ step \in 1..(Len(program.steps) + 1)
  /\ process \in {"closing", "zombie", "reaped"} => ~outOpen
  /\ ~outOpen /\ process = "running" => \E i \in 1..(step - 1) : program.steps[i].op = "close"
  /\ process \in {"closing", "zombie", "reaped"} /\ ~killed => step = Len(program.steps) + 1
  /\ process = "none" => answer = None /\ phase = "poll"

\* What the message and the pipe hold of it.
MessageBound ==
  /\ killed \in BOOLEAN /\ outOpen \in BOOLEAN /\ cgi.headersComplete \in BOOLEAN
  /\ cgi.readBuffer \in Seq(Said) /\ cgi.httpBody \in Seq(Said) /\ Len(stdout) <= PipeSize
  /\ Len(cgi.readBuffer) + Len(cgi.httpBody) <= MaxOutput
  /\ ~cgi.headersComplete => cgi.readBuffer = <<>> /\ cgi.httpBody = <<>>
  /\ cgi.eof => stdout = <<>> /\ cgi.headersComplete /\ cgi.readBuffer = <<>>
  /\ cgi.running <=> process # "reaped"

Held == Len(stdout) + Len(cgi.readBuffer) + Len(cgi.httpBody)

\* Nothing is held that was not written; what was written is held, its header
\* apart, until the limit is passed, and then no more is written.
Counted ==
  /\ Held <= Len(Written)
  /\ \/ Len(Written) <= Held + IF cgi.headersComplete THEN PipeSize ELSE 0
     \/ (killed \/ process \notin {"none", "running"}) /\ Len(Written) <= MaxOutput + 2 * PipeSize

HeaderSize == IF HeaderLines(Output) = 0 THEN 0 ELSE 2 * HeaderLines(Output) + 1

\* An output within the limit is never cut, and its header is taken off whole.
Split ==
  Len(Output) <= MaxOutput /\ answer = None =>
    /\ ~killed
    /\ ~cgi.headersComplete => Written = stdout
    /\ HeaderAtOnce /\ cgi.headersComplete =>
         /\ cgi.fields = FieldsOf /\ HeaderSize <= Len(Written)
         /\ (cgi.httpBody \o cgi.readBuffer) \o stdout = SubSeq(Output, HeaderSize + 1, Len(Written))

\* What a failure is answered with: fields that the script wrote, and 413 if it
\* was killed.
FailureKnown ==
  /\ cgi.fields \in Seq(Said)
  /\ ~cgi.headersComplete => cgi.fields = <<>>
  /\ killed /\ answer = None => cgi.tooLarge

\* All of it together, with the properties that it carries.
WholeIInv ==
  /\ InputIInv /\ OutputIInv
  /\ EndIsLast /\ MessageBound /\ Counted /\ Split /\ FailureKnown
  /\ TooLargeRefused /\ AnswerWhole /\ FailureReported
-----------------------------------------------------------------------------
\* The methods of cgiMessage change the fields that they name.
LEMMA ParsedKeeps ==
  ASSUME NEW c, c = [f \in DOMAIN NewMessage |-> c[f]]
  PROVE  /\ Parsed(c) = [f \in DOMAIN NewMessage |-> Parsed(c)[f]]
         /\ Parsed(c).writeCounter = c.writeCounter /\ Parsed(c).eof = c.eof
         /\ Parsed(c).bodyComplete = c.bodyComplete /\ Parsed(c).running = c.running
BY ZenonT(60) DEF Parsed, Moved, WithHeader, NewMessage

LEMMA ReceivedKeeps ==
  ASSUME Message
  PROVE  /\ Received = [f \in DOMAIN NewMessage |-> Received[f]]
         /\ Emptied = [f \in DOMAIN NewMessage |-> Emptied[f]]
         /\ Received.writeCounter = cgi.writeCounter /\ Emptied.writeCounter = cgi.writeCounter
         /\ Received.bodyComplete = cgi.bodyComplete /\ Emptied.bodyComplete = cgi.bodyComplete
         /\ Received.running = cgi.running /\ Emptied.running = cgi.running
         /\ Received.eof = (stdout = <<>>) /\ Emptied.eof = (stdout = <<>>)
BY DEF Message, Received, Emptied, NewMessage

\* What _cgiReadCb does to a message: it may see the end of an empty output,
\* complete the body after that, and reap the process.
LEMMA ReadKeeps ==
  ASSUME Message, NEW e, CgiReadCb(e)
  PROVE  /\ Message' /\ cgi'.writeCounter = cgi.writeCounter
         /\ cgi'.eof => cgi.eof \/ stdout = <<>>
         /\ cgi'.bodyComplete => cgi.bodyComplete \/ cgi.eof
         /\ cgi.eof => cgi'.eof
         /\ \/ process' = process /\ cgi'.running = cgi.running
            \/ process' = "reaped" /\ cgi.running /\ process = "zombie" /\ ~cgi'.running
            \/ process' = process /\ process # "zombie" /\ cgi.running /\ cgi'.running
<1>1. CASE cgi.eof /\ cgi' = [cgi EXCEPT !.bodyComplete = TRUE] /\ UNCHANGED <<process, killed>>
  BY <1>1 DEF Message, NewMessage
<1>2. CASE ~cgi.eof /\ ~Overflows /\ cgi' = Parsed(Received) /\ UNCHANGED <<process, killed>>
  BY <1>2, ParsedKeeps, ReceivedKeeps DEF Message
<1>3. CASE ~cgi.eof /\ Kill
  <2>1. CASE ~cgi.running
    <3>1. cgi' = Emptied /\ process' = process
      BY <1>3, <2>1 DEF Kill
    <3> QED BY <1>3, <3>1, ReceivedKeeps DEF Message
  <2>2. CASE cgi.running
    <3> DEFINE k == [Emptied EXCEPT !.tooLarge = TRUE, !.running = Running]
    <3>1. cgi' = Parsed(k) /\ StatusUpdated
      BY <1>3, <2>2 DEF Kill
    <3>2. /\ k = [f \in DOMAIN NewMessage |-> k[f]] /\ k.running = Running
          /\ k.writeCounter = Emptied.writeCounter /\ k.eof = Emptied.eof
          /\ k.bodyComplete = Emptied.bodyComplete
      BY ReceivedKeeps DEF NewMessage
    <3> HIDE DEF k
    <3> QED BY <1>3, <2>2, <3>1, <3>2, ParsedKeeps, ReceivedKeeps DEF Message, Running, StatusUpdated
  <2> QED BY <2>1, <2>2
<1> QED BY <1>1, <1>2, <1>3 DEF CgiReadCb

\* _readFromCgi reaps the process and keeps the rest of the message.
LEMMA AnswerKeeps ==
  ASSUME Message, ReadFromCgi
  PROVE  /\ Message' /\ cgi'.writeCounter = cgi.writeCounter
         /\ cgi'.eof = cgi.eof /\ cgi'.bodyComplete = cgi.bodyComplete
         /\ cgi'.running = Running /\ StatusUpdated
BY DEF ReadFromCgi, Message, NewMessage
-----------------------------------------------------------------------------
(***************************************************************************)
(* The input of a script.                                                  *)
(***************************************************************************)
\* The next part of a body goes on where the last one ended.
LEMMA NextPart ==
  ASSUME NEW S, NEW b \in Seq(S), NEW n \in Nat, NEW m \in Nat, n <= m, m <= Len(b)
  PROVE  /\ SubSeq(b, 1, n) \o SubSeq(b, n + 1, m) = SubSeq(b, 1, m)
         /\ SubSeq(b, n + 1, m) \in Seq(S) /\ Len(SubSeq(b, n + 1, m)) = m - n
OBVIOUS

LEMMA InputStep ==
  ASSUME InputIInv, [Next]_vars
  PROVE  InputIInv'
<1> DEFINE Given == body = NoBody \/ body \in Seq(ToSet(body))
<1>0. Given
  BY ScriptAssumption DEF InputIInv
<1>1. ASSUME ReadsInput
      PROVE  InputIInv'
  <2>1. /\ stdin # <<>> /\ consumed' = Append(consumed, Head(stdin)) /\ stdin' = Tail(stdin)
        /\ UNCHANGED <<body, cgi>>
    BY <1>1 DEF ReadsInput, given
  <2>2. Bytes' = Bytes
    BY <2>1 DEF Bytes
  <2>3. consumed \in Seq(Bytes) /\ stdin \in Seq(Bytes) /\ Len(stdin) <= PipeSize
    BY DEF InputIInv
  <2>4. consumed' \o stdin' = consumed \o stdin /\ consumed' \in Seq(Bytes) /\ stdin' \in Seq(Bytes)
    BY <2>1, <2>3
  <2>5. Len(stdin') <= PipeSize
    BY <2>1, <2>3, ScriptAssumption
  <2> QED BY <2>1, <2>2, <2>4, <2>5 DEF InputIInv, InputInOrder, Message
<1>2. ASSUME CgiWriteCb, HasInput, process = "running"
      PROVE  InputIInv'
  <2> DEFINE m == Min({Len(body), cgi.writeCounter + Room})
  <2>1. /\ stdin' = stdin \o NextInput /\ UNCHANGED <<body, consumed>>
        /\ cgi' = [cgi EXCEPT !.writeCounter = Advanced(Len(NextInput))]
    BY <1>2 DEF CgiWriteCb, given, process_
  <2>2. /\ body # NoBody /\ body \in Seq(Bytes) /\ Bytes' = Bytes
        /\ cgi.writeCounter \in Nat /\ cgi.writeCounter <= Len(body)
    BY <1>0, <1>2, <2>1 DEF HasInput, InputIInv, Bytes, Message
  <2>3. Room \in Nat
    BY ScriptAssumption DEF InputIInv, Room
  <2>4. m \in Nat /\ cgi.writeCounter <= m /\ m <= Len(body) /\ m <= cgi.writeCounter + Room
    <3>1. Len(body) \in Nat
      BY <2>2
    <3> QED BY <2>2, <2>3, <3>1 DEF Min
  <2> HIDE DEF m
  <2>5. NextInput = SubSeq(body, cgi.writeCounter + 1, m)
    BY DEF NextInput, m
  <2>6. /\ SubSeq(body, 1, cgi.writeCounter) \o NextInput = SubSeq(body, 1, m)
        /\ NextInput \in Seq(Bytes) /\ Len(NextInput) = m - cgi.writeCounter
    BY <2>2, <2>4, <2>5, NextPart
  <2>7. Message' /\ cgi'.writeCounter = m
    <3>1. cgi.writeCounter + Len(NextInput) = m
      BY <2>2, <2>4, <2>6
    <3> QED BY <2>1, <2>4, <3>1 DEF InputIInv, Message, NewMessage, Advanced
  <2>8. consumed' \o stdin' = SubSeq(body, 1, m)
    <3>1. consumed \o stdin = SubSeq(body, 1, cgi.writeCounter)
      BY <2>2 DEF InputIInv, InputInOrder
    <3>2. consumed \in Seq(Bytes) /\ stdin \in Seq(Bytes) /\ NextInput \in Seq(Bytes)
      BY <2>6 DEF InputIInv
    <3>3. (consumed \o stdin) \o NextInput = consumed \o (stdin \o NextInput)
      BY <3>2
    <3> QED BY <2>1, <2>6, <3>1, <3>3
  <2>9. stdin' \in Seq(Bytes) /\ Len(stdin') <= PipeSize
    <3>1. stdin \in Seq(Bytes) /\ NextInput \in Seq(Bytes)
      BY <2>6 DEF InputIInv
    <3>2. Len(stdin') = Len(stdin) + Len(NextInput) /\ stdin' \in Seq(Bytes)
      BY <2>1, <2>6, <3>1, ConcatProperties
    <3> QED BY SMTT(40), <2>2, <2>3, <2>4, <2>6, <3>1, <3>2, ScriptAssumption DEF Room
  <2> QED BY <2>1, <2>2, <2>4, <2>7, <2>8, <2>9 DEF InputIInv, InputInOrder
<1>3. ASSUME UNCHANGED <<body, consumed, stdin>>, Message', cgi'.writeCounter = cgi.writeCounter
      PROVE  InputIInv'
  BY <1>3 DEF InputIInv, InputInOrder, Bytes
<1>4. CASE UNCHANGED <<body, consumed, stdin, cgi>>
  BY <1>3, <1>4 DEF InputIInv, Message
<1>5. CASE Start \/ WritesOutput \/ ClosesOutput \/ Exits \/ Dies \/ BecomesZombie \/ TimePasses
  BY <1>4, <1>5 DEF Start, WritesOutput, ClosesOutput, Exits, Dies, BecomesZombie, TimePasses, Ends,
                    given, process_, pipes
<1>6. ASSUME NEW peer, Poll(peer) \/ Skip \/ UNCHANGED vars
      PROVE  InputIInv'
  BY <1>4, <1>6 DEF Poll, Skip, vars, given, process_, pipes
<1>7. CASE ReadFromCgi
  <2>1. Message' /\ cgi'.writeCounter = cgi.writeCounter
    BY <1>7, AnswerKeeps DEF InputIInv
  <2> QED BY <1>3, <1>7, <2>1 DEF ReadFromCgi, given, pipes
<1>8. ASSUME NEW e, CgiReadCb(e)
      PROVE  InputIInv'
  <2>1. Message' /\ cgi'.writeCounter = cgi.writeCounter
    BY <1>8, ReadKeeps DEF InputIInv
  <2> QED BY <1>3, <1>8, <2>1 DEF CgiReadCb, given
<1>9. CASE CgiWriteCb /\ ~(HasInput /\ process = "running")
  BY <1>4, <1>9 DEF CgiWriteCb, given, process_
<1> QED BY <1>1, <1>2, <1>5, <1>6, <1>7, <1>8, <1>9 DEF Next, Process, Server
-----------------------------------------------------------------------------
(***************************************************************************)
(* The output of a script and its exit.                                    *)
(***************************************************************************)
\* The end of an output is seen only when there is one.
LEMMA EndSeen ==
  ASSUME OutputIInv, NEW e \in {"in", "hangup"}, CgiReadCb(e), stdout = <<>>
  PROVE  ~outOpen
BY DEF CgiReadCb, Turn, OutputIInv, EventsHold

LEMMA OutputStep ==
  ASSUME OutputIInv, [Next]_vars
  PROVE  OutputIInv'
<1> USE DEF OutputIInv
<1>1. CASE Start
  BY <1>1 DEF Start, given, pipes, loop, Answered, EndIsReal, EventsHold, MessageTrue, Message,
              ClosedByProgram, Said
<1>2. CASE ReadsInput
  BY <1>2 DEF ReadsInput, given, loop, EndIsReal, EventsHold, MessageTrue, Message,
              ClosedByProgram, Said
<1>3. CASE WritesOutput
  <2> DEFINE data == program.steps[step].data
  <2>1. /\ stdout' = stdout \o data /\ step' = step + 1 /\ Runs("write")
        /\ UNCHANGED <<given, process, outOpen, cgi, answer, loop>>
    BY <1>3 DEF WritesOutput
  <2>2. data \in Seq(Said)
    <3>1. step \in DOMAIN program.steps /\ program.steps[step] \in ToSet(program.steps)
      BY <2>1, ScriptAssumption DEF Runs, ToSet
    <3>2. data \in Seq(ToSet(data)) /\ ToSet(data) \subseteq Said
      BY <2>1, <3>1, ScriptAssumption DEF Runs, Said, SaidBy
    <3> QED BY <3>2
  <2> HIDE DEF data
  <2>3. stdout' \in Seq(Said) /\ (stdout # <<>> => stdout' # <<>>)
    BY <2>1, <2>2, ConcatProperties, EmptySeq
  <2>4. Said' = Said
    BY <2>1 DEF given, Said
  <2> QED BY <2>1, <2>3, <2>4 DEF given, loop, EndIsReal, EventsHold, MessageTrue, Message,
                                  ClosedByProgram
<1>4. CASE ClosesOutput
  <2>1. ClosedByProgram
    BY <1>4, ScriptAssumption DEF ClosesOutput, Runs, ClosedByProgram
  <2> QED BY <1>4, <2>1 DEF ClosesOutput, Runs, given, loop, EndIsReal, EventsHold, MessageTrue,
                            Message, ClosedByProgram, Said
<1>5. CASE Exits \/ Dies \/ BecomesZombie
  BY <1>5 DEF Exits, Dies, BecomesZombie, Ends, Gone, given, pipes, loop, EndIsReal, EventsHold,
              MessageTrue, Message, ClosedByProgram, Said
<1>6. CASE TimePasses
  BY <1>6 DEF TimePasses, given, process_, pipes, loop, EndIsReal, EventsHold, MessageTrue, Message,
              ClosedByProgram, Said
<1>7. ASSUME NEW peer, Poll(peer)
      PROVE  OutputIInv'
  BY <1>7 DEF Poll, given, process_, pipes, EndIsReal, EventsHold, MessageTrue, Message,
              ClosedByProgram, Said
<1>8. CASE Skip
  <2>1. EventsHold'
    BY <1>8 DEF Skip, After, EventsHold, pipes
  <2> QED BY <1>8, <2>1 DEF Skip, given, process_, pipes, EndIsReal, MessageTrue, Message,
                            ClosedByProgram, Said
<1>9. CASE ReadFromCgi
  <2>1. /\ Message' /\ cgi'.eof = cgi.eof /\ cgi'.bodyComplete = cgi.bodyComplete
        /\ cgi'.running = Running /\ StatusUpdated
    BY <1>9, AnswerKeeps DEF MessageTrue
  <2>2. phase = "out" /\ phase' \in {"poll", "in"} /\ UNCHANGED <<given, step, pipes, events>>
    BY <1>9 DEF ReadFromCgi, Turn, After
  <2>4. EventsHold' /\ Said' = Said
    BY <2>2 DEF EventsHold, pipes, given, Said
  <2>5. EndIsReal' /\ MessageTrue'
    BY <2>1, <2>2 DEF EndIsReal, MessageTrue, ClosedByProgram, pipes, given, Running, StatusUpdated
  <2> QED BY <2>2, <2>4, <2>5 DEF given, pipes
<1>10. ASSUME NEW e \in {"in", "hangup"}, CgiReadCb(e)
       PROVE  OutputIInv'
  <2>1. /\ stdout' = IF cgi.eof THEN stdout ELSE <<>>
        /\ UNCHANGED <<given, step, outOpen, answer, events>>
        /\ phase' \in {"poll", "hangup", "write"}
    BY <1>10 DEF CgiReadCb, Turn, After
  <2>2. /\ Message'
        /\ cgi'.eof => cgi.eof \/ stdout = <<>>
        /\ cgi'.bodyComplete => cgi.bodyComplete \/ cgi.eof
        /\ cgi.eof => cgi'.eof
        /\ \/ process' = process /\ cgi'.running = cgi.running
           \/ process' = "reaped" /\ cgi.running /\ process = "zombie" /\ ~cgi'.running
           \/ process' = process /\ process # "zombie" /\ cgi.running /\ cgi'.running
    BY <1>10, ReadKeeps DEF MessageTrue
  <2>3. stdout = <<>> => ~outOpen
    BY <1>10, EndSeen
  <2>4. Said' = Said /\ stdout' \in Seq(Said)
    BY <2>1 DEF given, Said
  <2>5. EventsHold'
    BY <2>1 DEF EventsHold
  <2>6. EndIsReal' /\ MessageTrue'
    BY <2>1, <2>2, <2>3 DEF EndIsReal, MessageTrue, ClosedByProgram, given
  <2> QED BY <2>1, <2>4, <2>5, <2>6 DEF given
<1>11. CASE CgiWriteCb
  <2>1. /\ UNCHANGED <<given, process_, stdout, outOpen, answer, events>> /\ phase' = "poll"
        /\ Message' /\ cgi'.eof = cgi.eof /\ cgi'.bodyComplete = cgi.bodyComplete
        /\ cgi'.running = cgi.running
    BY <1>11 DEF CgiWriteCb, Turn, After, MessageTrue, Message, NewMessage
  <2> QED BY <2>1 DEF given, process_, EndIsReal, EventsHold, MessageTrue, ClosedByProgram, Said
<1>12. CASE UNCHANGED vars
  BY <1>12 DEF vars, given, process_, pipes, loop, EndIsReal, EventsHold, MessageTrue, Message,
               ClosedByProgram, Said
<1> QED BY <1>1, <1>2, <1>3, <1>4, <1>5, <1>6, <1>7, <1>8, <1>9, <1>10, <1>11, <1>12
        DEF Next, Process, Server
-----------------------------------------------------------------------------
(***************************************************************************)
(* What a script writes.                                                   *)
(***************************************************************************)
\* The definition of Spoken by recursion has a solution.
LEMMA SpokenSteps ==
  ASSUME NEW p \in Programs
  PROVE  /\ p.steps \in Seq(ToSet(p.steps)) /\ Len(p.steps) \in Nat /\ DOMAIN Spoken(p) = 0..Len(p.steps)
         /\ Spoken(p)[0] = <<>>
         /\ \A i \in 1..Len(p.steps) : Spoken(p)[i] = Spoken(p)[i - 1] \o Data(p, i)
<1> DEFINE Until(n, g) == g = [i \in 0..n |-> IF i = 0 THEN <<>> ELSE g[i - 1] \o Data(p, i)]
           Missing == {n \in Nat : ~\E g : Until(n, g)}
<1>1. p.steps \in Seq(ToSet(p.steps)) /\ Len(p.steps) \in Nat
  BY ScriptAssumption
<1>2. Missing = {}
  <2> SUFFICES ASSUME Missing # {} PROVE FALSE
    OBVIOUS
  <2>1. PICK n \in Missing : \A m \in Missing : n <= m
    <3>1. Missing \subseteq Nat
      OBVIOUS
    <3> HIDE DEF Missing
    <3> QED BY <3>1, LeastExists
  <2>2. n \in Nat /\ ~\E g : Until(n, g)
    OBVIOUS
  <2>3. CASE n = 0
    <3>1. Until(0, [i \in 0..0 |-> <<>>])
      OBVIOUS
    <3> QED BY <2>2, <2>3, <3>1
  <2>4. CASE n # 0
    <3>1. n - 1 \in Nat /\ ~(n <= n - 1)
      BY <2>2, <2>4
    <3>2. PICK g : Until(n - 1, g)
      BY <2>1, <3>1
    <3> DEFINE h == [i \in 0..n |-> IF i < n THEN g[i] ELSE g[n - 1] \o Data(p, n)]
    <3>3. \A i \in 0..(n - 1) : g[i] = IF i = 0 THEN <<>> ELSE g[i - 1] \o Data(p, i)
      BY <3>2
    <3>4. \A i \in 0..n : h[i] = IF i = 0 THEN <<>> ELSE h[i - 1] \o Data(p, i)
      BY <2>2, <2>4, <3>3
    <3>5. Until(n, h)
      BY <3>4
    <3> QED BY <2>2, <3>5
  <2> QED BY <2>3, <2>4
<1>3. \E g : Until(Len(p.steps), g)
  BY <1>1, <1>2
<1>4. Until(Len(p.steps), Spoken(p))
  <2> DEFINE Steps == CHOOSE g : Until(Len(p.steps), g)
  <2>1. Until(Len(p.steps), Steps)
    BY <1>3
  <2>2. Spoken(p) = Steps
    BY DEF Spoken
  <2> QED BY <2>1, <2>2, Zenon
<1> HIDE DEF Missing
<1>5. DOMAIN Spoken(p) = 0..Len(p.steps)
  BY <1>4
<1>6. \A i \in 0..Len(p.steps) : Spoken(p)[i] = IF i = 0 THEN <<>> ELSE Spoken(p)[i - 1] \o Data(p, i)
  BY <1>4
<1>7. 0 \in 0..Len(p.steps) /\ \A i \in 1..Len(p.steps) : i \in 0..Len(p.steps) /\ i # 0
  BY <1>1
<1> HIDE DEF Until
<1> QED BY <1>1, <1>5, <1>6, <1>7

LEMMA DataType ==
  ASSUME NEW p \in Programs, NEW i \in 1..Len(p.steps)
  PROVE  Data(p, i) \in Seq(SaidBy(p))
<1>1. CASE p.steps[i].op = "write"
  <2> DEFINE s == p.steps[i]
  <2>1. s \in ToSet(p.steps)
    BY ScriptAssumption DEF ToSet
  <2>2. s.data \in Seq(ToSet(s.data)) /\ ToSet(s.data) \subseteq SaidBy(p)
    BY <1>1, <2>1, ScriptAssumption DEF SaidBy
  <2>3. Data(p, i) = s.data
    BY <1>1 DEF Data
  <2> HIDE DEF s
  <2> QED BY <2>2, <2>3
<1>2. CASE p.steps[i].op # "write"
  BY <1>2 DEF Data
<1> QED BY <1>1, <1>2

LEMMA SpokenType ==
  ASSUME NEW p \in Programs
  PROVE  \A i \in 0..Len(p.steps) : Spoken(p)[i] \in Seq(SaidBy(p)) /\ Len(Spoken(p)[i]) \in Nat
<1> DEFINE T == {i \in Nat : i <= Len(p.steps) => Spoken(p)[i] \in Seq(SaidBy(p))}
<1>1. 0 \in T
  <2>1. <<>> \in Seq(SaidBy(p))
    OBVIOUS
  <2> QED BY <2>1, SpokenSteps
<1>2. ASSUME NEW n \in T, n \in Nat, n + 1 <= Len(p.steps)
      PROVE  Spoken(p)[n + 1] \in Seq(SaidBy(p))
  <2>1. n + 1 \in 1..Len(p.steps) /\ (n + 1) - 1 = n /\ n <= Len(p.steps)
    BY <1>2, SpokenSteps
  <2>2. Spoken(p)[n + 1] = Spoken(p)[n] \o Data(p, n + 1)
    BY <2>1, SpokenSteps
  <2>3. Spoken(p)[n] \in Seq(SaidBy(p)) /\ Data(p, n + 1) \in Seq(SaidBy(p))
    BY <2>1, DataType
  <2> HIDE DEF T
  <2> QED BY <2>2, <2>3, ConcatProperties
<1>3. \A n \in T : n \in Nat => n + 1 \in T
  BY <1>2
<1>4. \A n \in Nat : n \in T
  <2> HIDE DEF T
  <2> QED BY <1>1, <1>3, Induction
<1>5. \A i \in 0..Len(p.steps) : Spoken(p)[i] \in Seq(SaidBy(p))
  BY <1>4, SpokenSteps
<1> QED BY <1>5

\* What was written stays in front.
LEMMA SpokenGrows ==
  ASSUME NEW p \in Programs, NEW i \in 0..Len(p.steps), NEW j \in i..Len(p.steps)
  PROVE  /\ Len(Spoken(p)[i]) <= Len(Spoken(p)[j])
         /\ Spoken(p)[i] = SubSeq(Spoken(p)[j], 1, Len(Spoken(p)[i]))
<1> DEFINE S == SaidBy(p)
           a(n) == Spoken(p)[n]
           T == {n \in Nat : i + n <= Len(p.steps) =>
                   Len(a(i)) <= Len(a(i + n)) /\ a(i) = SubSeq(a(i + n), 1, Len(a(i)))}
<1>0. i \in Nat /\ j \in Nat /\ j - i \in Nat /\ i + (j - i) = j /\ j <= Len(p.steps) /\ Len(p.steps) \in Nat
  BY SpokenSteps
<1>a. \A n \in 0..Len(p.steps) : a(n) \in Seq(S) /\ Len(a(n)) \in Nat
  BY SpokenType
<1>1. 0 \in T
  <2>1. a(i) \in Seq(S)
    BY <1>a
  <2>2. SubSeq(a(i), 1, Len(a(i))) = a(i) /\ Len(a(i)) <= Len(a(i))
    BY <2>1, SubSeqFull
  <2> QED BY <1>0, <2>2
<1>2. ASSUME NEW n \in T, n \in Nat, i + (n + 1) <= Len(p.steps)
      PROVE  Len(a(i)) <= Len(a(i + (n + 1))) /\ a(i) = SubSeq(a(i + (n + 1)), 1, Len(a(i)))
  <2>1. i + (n + 1) \in 1..Len(p.steps) /\ (i + (n + 1)) - 1 = i + n /\ i + n <= Len(p.steps)
        /\ i + n \in 0..Len(p.steps) /\ i + (n + 1) \in 0..Len(p.steps)
    BY <1>0, <1>2
  <2> DEFINE b == a(i + n)  d == Data(p, i + (n + 1))
  <2>2. a(i + (n + 1)) = b \o d
    BY <2>1, SpokenSteps
  <2>3. b \in Seq(S) /\ d \in Seq(S) /\ a(i) \in Seq(S) /\ Len(a(i)) <= Len(b) /\ a(i) = SubSeq(b, 1, Len(a(i)))
    BY <1>a, <2>1, DataType
  <2> HIDE DEF b, d, S
  <2>4. SubSeq(b \o d, 1, Len(a(i))) = SubSeq(b, 1, Len(a(i))) /\ Len(b) <= Len(b \o d) /\ Len(b \o d) \in Nat
    BY <2>3
  <2> QED BY SMTT(40), <2>2, <2>3, <2>4
<1>3. \A n \in T : n \in Nat => n + 1 \in T
  BY <1>2
<1>4. \A n \in Nat : n \in T
  <2> HIDE DEF T
  <2> QED BY <1>1, <1>3, Induction
<1> QED BY <1>0, <1>4

\* A script that has closed its output has written all.
LEMMA ClosedIsAll ==
  ASSUME NEW p \in Programs, NEW i \in 1..Len(p.steps), p.steps[i].op = "close",
         NEW j \in i..Len(p.steps)
  PROVE  Spoken(p)[j] = Spoken(p)[Len(p.steps)]
<1> DEFINE S == SaidBy(p)
           a(n) == Spoken(p)[n]
           T == {n \in Nat : i + n <= Len(p.steps) => a(i + n) = a(i)}
<1>0. /\ i \in Nat /\ j \in Nat /\ j - i \in Nat /\ i + (j - i) = j /\ j <= Len(p.steps)
      /\ Len(p.steps) \in Nat /\ Len(p.steps) - i \in Nat /\ i + (Len(p.steps) - i) = Len(p.steps)
      /\ DOMAIN p.steps = 1..Len(p.steps)
  BY SpokenSteps
<1>1. 0 \in T
  BY <1>0
<1>2. ASSUME NEW n \in T, n \in Nat, i + (n + 1) <= Len(p.steps)
      PROVE  a(i + (n + 1)) = a(i)
  <2>1. /\ i + (n + 1) \in 1..Len(p.steps) /\ (i + (n + 1)) - 1 = i + n /\ i + n <= Len(p.steps)
        /\ i + n \in 0..Len(p.steps) /\ i < i + (n + 1)
    BY <1>0, <1>2
  <2>2. p.steps[i + (n + 1)].op # "write"
    BY <1>0, <2>1, ScriptAssumption
  <2>3. Data(p, i + (n + 1)) = <<>>
    BY <2>2 DEF Data
  <2>4. a(i + (n + 1)) = a(i + n) \o <<>> /\ a(i + n) \in Seq(S)
    BY <2>1, <2>3, SpokenSteps, SpokenType
  <2>5. a(i + n) \o <<>> = a(i + n)
    <3> HIDE DEF S, a
    <3> QED BY <2>4, ConcatEmptySeq
  <2>6. a(i + n) = a(i)
    BY <2>1
  <2> QED BY <2>4, <2>5, <2>6
<1>3. \A n \in T : n \in Nat => n + 1 \in T
  BY <1>2
<1>4. \A n \in Nat : n \in T
  <2> HIDE DEF T
  <2> QED BY <1>1, <1>3, Induction
<1>5. a(j) = a(i) /\ a(Len(p.steps)) = a(i)
  <2>1. \A n \in Nat : i + n <= Len(p.steps) => a(i + n) = a(i)
    BY <1>4
  <2> HIDE DEF a, T
  <2>2. i + (j - i) <= Len(p.steps) /\ i + (Len(p.steps) - i) <= Len(p.steps)
    BY <1>0
  <2>3. a(i + (j - i)) = a(i) /\ a(i + (Len(p.steps) - i)) = a(i)
    BY <1>0, <2>1, <2>2
  <2> QED BY <1>0, <2>3
<1> QED BY <1>5

-----------------------------------------------------------------------------
(***************************************************************************)
(* The header of an output.                                                *)
(***************************************************************************)
\* A set of numbers with a bound has a greatest one.
LEMMA Greatest ==
  ASSUME NEW m \in Nat, NEW T, T \subseteq 0..m, T # {}
  PROVE  Max(T) \in T /\ \A y \in T : y <= Max(T)
<1> DEFINE U == {m - x : x \in T}
<1>1. \A x \in T : x \in Nat /\ m - x \in Nat
  OBVIOUS
<1>2. U \subseteq Nat /\ U # {}
  BY <1>1
<1>3. PICK u \in U : \A v \in U : u <= v
  <2> HIDE DEF U
  <2> QED BY <1>2, LeastExists
<1>4. PICK x \in T : u = m - x
  OBVIOUS
<1>5. \A y \in T : x >= y
  BY <1>1, <1>3, <1>4
<1>6. \E z \in T : \A y \in T : z >= y
  BY <1>5
<1>7. Max(T) \in T /\ \A y \in T : Max(T) >= y
  BY <1>6 DEF Max
<1> QED BY <1>1, <1>7

IsHeader(s, n) == 2 * n <= Len(s) /\ \A i \in 1..n : s[2 * i - 1] \in Fields /\ s[2 * i] = NL

\* HeaderLines is the greatest number of header lines.
LEMMA HeaderLinesMost ==
  ASSUME NEW S, NEW s \in Seq(S)
  PROVE  /\ HeaderLines(s) \in Nat /\ IsHeader(s, HeaderLines(s))
         /\ \A n \in Nat : IsHeader(s, n) => n <= HeaderLines(s)
<1> DEFINE H == {n \in 0..Len(s) : 2 * n <= Len(s) /\ \A i \in 1..n : s[2 * i - 1] \in Fields /\ s[2 * i] = NL}
<1>1. Len(s) \in Nat /\ H \subseteq 0..Len(s)
  OBVIOUS
<1>2. 0 \in H
  BY <1>1
<1>3. HeaderLines(s) = Max(H)
  BY DEF HeaderLines
<1>4. Max(H) \in H /\ \A n \in H : n <= Max(H)
  <2> HIDE DEF H
  <2> QED BY <1>1, <1>2, Greatest
<1>5. \A n \in Nat : IsHeader(s, n) => n \in H
  BY <1>1 DEF IsHeader
<1>6. \A n \in H : n \in Nat /\ IsHeader(s, n)
  BY <1>1 DEF IsHeader
<1> HIDE DEF H
<1> QED BY <1>3, <1>4, <1>5, <1>6

\* The header of a beginning that goes beyond it.
LEMMA HeaderOfBeginning ==
  ASSUME NEW S, NEW s \in Seq(S), NEW m \in 0..Len(s), 2 * HeaderLines(s) <= m
  PROVE  HeaderLines(SubSeq(s, 1, m)) = HeaderLines(s)
<1> DEFINE t == SubSeq(s, 1, m)
           n == HeaderLines(s)
           k == HeaderLines(t)
<1>1. Len(s) \in Nat /\ t \in Seq(S) /\ Len(t) = m /\ \A i \in 1..m : t[i] = s[i]
  OBVIOUS
<1>2. n \in Nat /\ IsHeader(s, n) /\ (\A i \in Nat : IsHeader(s, i) => i <= n)
  BY HeaderLinesMost
<1>3. k \in Nat /\ IsHeader(t, k) /\ (\A i \in Nat : IsHeader(t, i) => i <= k)
  <2> HIDE DEF t
  <2> QED BY <1>1, HeaderLinesMost
<1> HIDE DEF t, n, k
<1>4. IsHeader(t, n)
  <2>1. \A i \in 1..n : 2 * i - 1 \in 1..m /\ 2 * i \in 1..m
    BY <1>2 DEF n
  <2> QED BY <1>1, <1>2, <2>1 DEF IsHeader, n
<1>5. IsHeader(s, k)
  <2>0. 2 * k <= m
    BY <1>1, <1>3 DEF IsHeader
  <2>1. \A i \in 1..k : 2 * i - 1 \in 1..m /\ 2 * i \in 1..m
    BY <1>3, <2>0
  <2> QED BY <1>1, <1>3, <2>0, <2>1 DEF IsHeader
<1>6. n <= k /\ k <= n
  BY <1>2, <1>3, <1>4, <1>5
<1> QED BY <1>2, <1>3, <1>6 DEF t, n, k

LEMMA FirstLineEnd ==
  ASSUME NEW S, NEW s \in Seq(S)
  PROVE  /\ LineEnd(s) \in 0..Len(s)
         /\ NL \notin ToSet(s) => LineEnd(s) = 0
         /\ s # <<>> /\ s[1] = NL => LineEnd(s) = 1
<1> DEFINE I == {i \in 1..Len(s) : s[i] = NL}
<1>1. LineEnd(s) = IF I # {} THEN Min(I) ELSE 0
  BY DEF LineEnd, SelectInSeq
<1>2. Len(s) \in Nat /\ I \subseteq Nat /\ DOMAIN s = 1..Len(s)
  OBVIOUS
<1>3. I # {} => Min(I) \in I /\ \A i \in I : Min(I) <= i
  <2> HIDE DEF I
  <2> QED BY <1>2, LeastExists DEF Min
<1>4. NL \notin ToSet(s) => I = {}
  BY <1>2 DEF ToSet
<1>5. s # <<>> /\ s[1] = NL => 1 \in I
  BY <1>2
<1>6. \A i \in I : i \in 1..Len(s)
  OBVIOUS
<1> HIDE DEF I
<1>7. s # <<>> /\ s[1] = NL => I # {} /\ Min(I) = 1
  <2> SUFFICES ASSUME s # <<>>, s[1] = NL PROVE I # {} /\ Min(I) = 1
    OBVIOUS
  <2>1. I # {} /\ Min(I) \in I /\ Min(I) <= 1
    BY <1>3, <1>5
  <2>2. Min(I) \in 1..Len(s)
    BY <1>6, <2>1
  <2>3. \A k \in 1..Len(s) : k <= 1 => k = 1
    BY <1>2
  <2> QED BY <2>1, <2>2, <2>3
<1>8. LineEnd(s) \in 0..Len(s)
  <2>1. CASE I # {}
    <3>1. Min(I) \in 1..Len(s)
      BY <1>3, <1>6, <2>1
    <3> QED BY <1>1, <1>2, <2>1, <3>1
  <2>2. CASE I = {}
    BY <1>1, <1>2, <2>2
  <2> QED BY <2>1, <2>2
<1> QED BY <1>1, <1>4, <1>7, <1>8

\* What is left of what was read, when the header is taken from it.
Left(r) ==
  LET n == HeaderLines(r)
      rest == SubSeq(r, 2 * n + 1, Len(r))
      end == LineEnd(rest)
  IN  CASE end = 0 -> rest
        [] end # 0 /\ n = 0 -> RemoveAt(rest, end)
        [] OTHER -> SubSeq(rest, end + 1, Len(rest))

LEMMA Rest ==
  ASSUME NEW S, NEW r \in Seq(S), NEW m \in 0..Len(r), NEW rest, rest = SubSeq(r, m + 1, Len(r))
  PROVE  /\ rest \in Seq(S) /\ Len(rest) = Len(r) - m /\ Len(r) \in Nat
         /\ m < Len(r) => /\ rest # <<>> /\ rest[1] = r[m + 1]
                          /\ SubSeq(rest, 2, Len(rest)) = SubSeq(r, m + 2, Len(r))
<1>1. Len(r) \in Nat /\ m \in Nat /\ m <= Len(r)
  OBVIOUS
<1>a. m + 1 \in Int /\ Len(r) \in Int /\ DOMAIN r = 1..Len(r)
  OBVIOUS
<1>2. \A i \in (m + 1)..Len(r) : r[i] \in S
  BY <1>1
<1>3. /\ rest \in Seq(S) /\ Len(rest) = IF m + 1 <= Len(r) THEN Len(r) - (m + 1) + 1 ELSE 0
      /\ \A i \in 1..(Len(r) - (m + 1) + 1) : rest[i] = r[(m + 1) + i - 1]
  BY <1>1, <1>a, <1>2, SubSeqProperties
<1>4. Len(rest) = Len(r) - m
  <2>1. CASE m + 1 <= Len(r)
    <3>1. Len(rest) = Len(r) - (m + 1) + 1
      BY <1>3, <2>1
    <3> QED BY <1>1, <3>1
  <2>2. CASE ~(m + 1 <= Len(r))
    <3>1. Len(rest) = 0
      BY <1>3, <2>2
    <3> QED BY <1>1, <2>2, <3>1
  <2> QED BY <2>1, <2>2
<1>5. ASSUME m < Len(r)
      PROVE  rest # <<>> /\ rest[1] = r[m + 1] /\ SubSeq(rest, 2, Len(rest)) = SubSeq(r, m + 2, Len(r))
  <2>1. 1 \in 1..(Len(r) - (m + 1) + 1) /\ (m + 1) + 1 - 1 = m + 1
    BY <1>1, <1>5
  <2>2. rest[1] = r[m + 1]
    BY <1>3, <2>1
  <2>3. rest # <<>>
    <3>1. Len(rest) # 0
      BY <1>1, <1>4, <1>5
    <3> QED BY <3>1
  <2>5. Tail(rest) = SubSeq(rest, 2, Len(rest)) /\ Tail(rest) = SubSeq(r, m + 2, Len(r))
    <3>1. m + 1 \in 1..Len(r) /\ Len(r) \in (m + 1)..Len(r) /\ (m + 1) + 1 = m + 2
      BY <1>1, <1>5
    <3>2. Tail(SubSeq(r, m + 1, Len(r))) = SubSeq(r, (m + 1) + 1, Len(r))
      BY <3>1, HeadTailOfSubSeq
    <3> QED BY <1>3, <2>3, <3>1, <3>2, TailIsSubSeq
  <2> QED BY <2>2, <2>3, <2>5
<1> QED BY <1>1, <1>3, <1>4, <1>5

LEMMA LeftType ==
  ASSUME NEW S, NEW r \in Seq(S)
  PROVE  Left(r) \in Seq(S) /\ Len(Left(r)) <= Len(r)
<1> DEFINE n == HeaderLines(r)
           rest == SubSeq(r, 2 * n + 1, Len(r))
           end == LineEnd(rest)
<1>1. n \in Nat /\ 2 * n <= Len(r)
  BY HeaderLinesMost DEF IsHeader
<1>2. rest \in Seq(S) /\ Len(rest) = Len(r) - 2 * n /\ Len(r) \in Nat
  <2> HIDE DEF n
  <2>1. 2 * n \in 0..Len(r)
    BY <1>1
  <2> QED BY <2>1, Rest
<1>3. end \in 0..Len(rest)
  <2> HIDE DEF rest
  <2> QED BY <1>2, FirstLineEnd
<1>4. Left(r) = CASE end = 0 -> rest
                  [] end # 0 /\ n = 0 -> RemoveAt(rest, end)
                  [] OTHER -> SubSeq(rest, end + 1, Len(rest))
  BY DEF Left
<1> HIDE DEF rest, end, n
<1>5. CASE end = 0
  BY <1>1, <1>2, <1>4, <1>5
<1>6. CASE end # 0 /\ n = 0
  <2> DEFINE x == SubSeq(rest, 1, end - 1)
             y == SubSeq(rest, end + 1, Len(rest))
  <2>1. x \in Seq(S) /\ Len(x) = end - 1 /\ y \in Seq(S) /\ Len(y) = Len(rest) - end
    BY <1>2, <1>3, <1>6
  <2>2. Left(r) = x \o y
    BY <1>4, <1>6 DEF RemoveAt
  <2> HIDE DEF x, y
  <2>3. x \o y \in Seq(S) /\ Len(x \o y) = (end - 1) + (Len(rest) - end)
    BY SMTT(40), <1>2, <1>3, <2>1, ConcatProperties
  <2> QED BY <1>1, <1>2, <1>3, <2>2, <2>3
<1>7. CASE end # 0 /\ n # 0
  <2>1. Left(r) = SubSeq(rest, end + 1, Len(rest))
    BY <1>4, <1>7
  <2>2. SubSeq(rest, end + 1, Len(rest)) \in Seq(S) /\ Len(SubSeq(rest, end + 1, Len(rest))) = Len(rest) - end
    BY <1>2, <1>3
  <2> QED BY <1>1, <1>2, <1>3, <2>1, <2>2
<1> QED BY <1>5, <1>6, <1>7

\* Without a line end there is no header.
LEMMA NoHeader ==
  ASSUME NEW S, NEW r \in Seq(S), NL \notin ToSet(r)
  PROVE  HeaderLines(r) = 0 /\ Left(r) = r
<1> DEFINE n == HeaderLines(r)
<1>1. n \in Nat /\ IsHeader(r, n) /\ 2 * n <= Len(r) /\ Len(r) \in Nat /\ DOMAIN r = 1..Len(r)
  BY HeaderLinesMost DEF IsHeader
<1> HIDE DEF n
<1>2. n = 0
  <2> SUFFICES ASSUME n # 0 PROVE FALSE
    OBVIOUS
  <2>1. r[2 * 1] = NL
    BY <1>1 DEF IsHeader
  <2>2. 2 * 1 \in DOMAIN r
    BY <1>1
  <2>3. r[2 * 1] \in ToSet(r)
    BY <2>2 DEF ToSet
  <2> QED BY <2>1, <2>3
<1>3. SubSeq(r, 2 * 0 + 1, Len(r)) = r
  BY SubSeqFull
<1>4. LineEnd(r) = 0
  BY FirstLineEnd
<1> QED BY <1>2, <1>3, <1>4 DEF n, Left

LEMMA HeaderWithEnd ==
  ASSUME NEW S, NEW r \in Seq(S), HeaderLines(r) > 0,
         Len(r) > 2 * HeaderLines(r), r[2 * HeaderLines(r) + 1] = NL
  PROVE  Left(r) = SubSeq(r, 2 * HeaderLines(r) + 2, Len(r))
<1> DEFINE n == HeaderLines(r)
           rest == SubSeq(r, 2 * n + 1, Len(r))
<1>1. n \in Nat /\ 2 * n <= Len(r) /\ n # 0
  BY HeaderLinesMost DEF IsHeader
<1>2. /\ rest \in Seq(S) /\ rest # <<>> /\ rest[1] = NL
      /\ SubSeq(rest, 2, Len(rest)) = SubSeq(r, 2 * n + 2, Len(r))
  <2> DEFINE m == 2 * n
  <2>1. /\ m < Len(r) /\ m \in 0..Len(r) /\ r[m + 1] = NL /\ rest = SubSeq(r, m + 1, Len(r))
        /\ SubSeq(r, 2 * n + 2, Len(r)) = SubSeq(r, m + 2, Len(r))
    BY <1>1
  <2> HIDE DEF m, n, rest
  <2>2. /\ rest \in Seq(S)
        /\ m < Len(r) => /\ rest # <<>> /\ rest[1] = r[m + 1]
                         /\ SubSeq(rest, 2, Len(rest)) = SubSeq(r, m + 2, Len(r))
    BY <2>1, Rest
  <2> QED BY <2>1, <2>2
<1>3. LineEnd(rest) = 1
  <2> HIDE DEF rest
  <2> QED BY <1>2, FirstLineEnd
<1>4. Left(r) = CASE LineEnd(rest) = 0 -> rest
                  [] LineEnd(rest) # 0 /\ n = 0 -> RemoveAt(rest, LineEnd(rest))
                  [] OTHER -> SubSeq(rest, LineEnd(rest) + 1, Len(rest))
  BY DEF Left
<1> HIDE DEF rest, n
<1>5. Left(r) = SubSeq(rest, 2, Len(rest))
  BY <1>1, <1>3, <1>4
<1> QED BY <1>2, <1>5 DEF n

\* What is taken from a message and what stays in it.
LEMMA ParsedMessage ==
  ASSUME NEW S, NEW c, c = [f \in DOMAIN NewMessage |-> c[f]], c.readBuffer \in Seq(S), c.httpBody \in Seq(S)
  PROVE
         /\ Parsed(c).headersComplete = TRUE /\ Parsed(c).tooLarge = c.tooLarge
         /\ Parsed(c).readBuffer \in Seq(S) /\ Parsed(c).httpBody \in Seq(S)
         /\ c.headersComplete => /\ Parsed(c).readBuffer = <<>> /\ Parsed(c).httpBody = c.httpBody \o c.readBuffer
                                 /\ Parsed(c).fields = c.fields
         /\ ~c.headersComplete => /\ Parsed(c).readBuffer = Left(c.readBuffer) /\ Parsed(c).httpBody = c.httpBody
                                  /\ Parsed(c).fields = [i \in 1..HeaderLines(c.readBuffer) |-> c.readBuffer[2 * i - 1]]
         /\ Len(Parsed(c).readBuffer) + Len(Parsed(c).httpBody) <= Len(c.readBuffer) + Len(c.httpBody)
<1> DEFINE d == Parsed(c)
           r == c.readBuffer
           h == c.httpBody
<1>1. r \in Seq(S) /\ h \in Seq(S) /\ Len(r) \in Nat /\ Len(h) \in Nat
  OBVIOUS
<1>2. ASSUME c.headersComplete
      PROVE  /\ d.headersComplete = TRUE /\ d.tooLarge = c.tooLarge
             /\ d.readBuffer = <<>> /\ d.httpBody = h \o r /\ d.fields = c.fields
  BY <1>2 DEF Parsed, Moved, NewMessage
<1>3. ASSUME ~c.headersComplete
      PROVE  /\ d.fields = [i \in 1..HeaderLines(r) |-> r[2 * i - 1]]
             /\ d.readBuffer = Left(r) /\ d.headersComplete = TRUE /\ d.httpBody = h
             /\ d.tooLarge = c.tooLarge
  BY <1>3 DEF Parsed, WithHeader, NewMessage, Left
<1> HIDE DEF d, r, h
<1>4. /\ Left(r) \in Seq(S) /\ Len(Left(r)) <= Len(r) /\ Len(Left(r)) \in Nat
      /\ h \o r \in Seq(S) /\ Len(h \o r) = Len(h) + Len(r)
      /\ <<>> \in Seq(S) /\ Len(<<>>) = 0
  BY <1>1, LeftType, ConcatProperties
<1>5. d.readBuffer \in Seq(S) /\ d.httpBody \in Seq(S) /\ Len(d.readBuffer) + Len(d.httpBody) <= Len(r) + Len(h)
  <2>1. CASE c.headersComplete
    <3>1. d.readBuffer = <<>> /\ d.httpBody = h \o r
      BY <1>2, <2>1
    <3> QED BY <1>1, <1>4, <3>1
  <2>2. CASE ~c.headersComplete
    <3>1. d.readBuffer = Left(r) /\ d.httpBody = h
      BY <1>3, <2>2
    <3> QED BY <1>1, <1>4, <3>1
  <2> QED BY <2>1, <2>2
<1> QED BY <1>2, <1>3, <1>5 DEF d, r, h

-----------------------------------------------------------------------------
(***************************************************************************)
(* An output on its way to the answer.                                     *)
(***************************************************************************)
\* What has been written is the beginning of the output.
LEMMA WrittenBegins ==
  ASSUME program \in Programs, step \in 1..(Len(program.steps) + 1)
  PROVE  /\ Written \in Seq(Said) /\ Output \in Seq(Said)
         /\ Len(Written) \in Nat /\ Len(Output) \in Nat /\ Len(Written) <= Len(Output)
         /\ Written = SubSeq(Output, 1, Len(Written))
<1>1. Len(program.steps) \in Nat /\ step - 1 \in 0..Len(program.steps)
      /\ Len(program.steps) \in (step - 1)..Len(program.steps)
  <2>1. Len(program.steps) \in Nat
    BY SpokenSteps
  <2> QED BY <2>1
<1>2. Said = SaidBy(program)
  BY DEF Said
<1> DEFINE a == Spoken(program)[step - 1]
           b == Spoken(program)[Len(program.steps)]
<1>3. a \in Seq(Said) /\ b \in Seq(Said) /\ Len(a) \in Nat /\ Len(b) \in Nat
  <2>1. Len(program.steps) \in 0..Len(program.steps)
    BY <1>1
  <2> QED BY <1>1, <1>2, <2>1, SpokenType
<1>4. Len(a) <= Len(b) /\ a = SubSeq(b, 1, Len(a))
  BY <1>1, SpokenGrows
<1> QED BY <1>3, <1>4 DEF Written, Output

\* A step of the script that writes nothing.
LEMMA WritesNothing ==
  ASSUME program \in Programs, step \in 1..(Len(program.steps) + 1), step <= Len(program.steps),
         program.steps[step].op # "write", step' = step + 1, program' = program
  PROVE  Written' = Written
<1>1. step \in 1..Len(program.steps) /\ (step + 1) - 1 = step /\ step - 1 \in 0..Len(program.steps)
  <2>1. Len(program.steps) \in Nat
    BY SpokenSteps
  <2> QED BY <2>1
<1>2. Spoken(program)[step] = Spoken(program)[step - 1] \o <<>>
  BY <1>1, SpokenSteps DEF Data
<1>3. Spoken(program)[step - 1] \in Seq(SaidBy(program))
  BY <1>1, SpokenType
<1>4. Spoken(program)[step] = Spoken(program)[step - 1]
  BY <1>2, <1>3, ConcatEmptySeq
<1> QED BY <1>1, <1>4 DEF Written

\* At the end of an output, all of it has been written.
LEMMA AllWritten ==
  ASSUME program \in Programs, EndIsReal, EndIsLast, ~outOpen, ~killed \/ process = "running"
  PROVE  Written = Output
<1>1. Len(program.steps) \in Nat /\ step \in 1..(Len(program.steps) + 1)
  BY SpokenSteps DEF EndIsLast
<1>2. CASE process = "running"
  <2>1. PICK i \in 1..(step - 1) : program.steps[i].op = "close"
    BY <1>2 DEF EndIsLast
  <2>2. i \in 1..Len(program.steps) /\ step - 1 \in i..Len(program.steps)
    BY <1>1
  <2> QED BY <2>1, <2>2, ClosedIsAll DEF Written, Output
<1>3. CASE process # "running"
  <2>1. process \in {"closing", "zombie", "reaped"}
    BY <1>3 DEF EndIsReal
  <2>2. step = Len(program.steps) + 1
    BY <1>3, <2>1 DEF EndIsLast
  <2>3. step - 1 = Len(program.steps)
    BY <1>1, <2>2
  <2> QED BY <2>3 DEF Written, Output
<1> QED BY <1>2, <1>3

\* The first output that is read holds the whole header, or there is none.
LEMMA FirstRead ==
  ASSUME program \in Programs, step \in 1..(Len(program.steps) + 1), HeaderAtOnce,
         Written # <<>> \/ Written = Output
  PROVE  /\ [i \in 1..HeaderLines(Written) |-> Written[2 * i - 1]] = FieldsOf
         /\ HeaderSize <= Len(Written)
         /\ Left(Written) = SubSeq(Output, HeaderSize + 1, Len(Written))
<1> DEFINE w == Written
           o == Output
           n == HeaderLines(Output)
<1>1. /\ w \in Seq(Said) /\ o \in Seq(Said) /\ Len(w) \in Nat /\ Len(o) \in Nat /\ Len(w) <= Len(o)
      /\ w = SubSeq(o, 1, Len(w)) /\ \A i \in 1..Len(w) : w[i] = o[i]
  <2>1. /\ w \in Seq(Said) /\ o \in Seq(Said) /\ Len(w) \in Nat /\ Len(o) \in Nat /\ Len(w) <= Len(o)
        /\ w = SubSeq(o, 1, Len(w))
    BY WrittenBegins
  <2> HIDE DEF w, o
  <2>2. \A i \in 1..Len(w) : SubSeq(o, 1, Len(w))[i] = o[i]
    BY <2>1
  <2> QED BY <2>1, <2>2
<1>2. n \in Nat /\ IsHeader(o, n)
  BY <1>1, HeaderLinesMost
<1>3. CASE NL \in ToSet(o)
  <2>1. n > 0 /\ Len(o) > 2 * n /\ o[2 * n + 1] = NL
    BY <1>3 DEF HeaderAtOnce
  <2>2. Len(w) > 2 * n
    <3>1. CASE w = <<>>
      BY <2>1, <3>1
    <3>2. CASE w # <<>>
      <4>1. Len(program.steps) \in Nat /\ Spoken(program)[0] = <<>>
        BY SpokenSteps
      <4>2. step - 1 \in 1..Len(program.steps)
        BY <3>2, <4>1 DEF Written
      <4> QED BY <1>3, <3>2, <4>2 DEF HeaderAtOnce, Written
    <3> QED BY <3>1, <3>2
  <2>3. HeaderLines(w) = n
    <3>1. Len(w) \in 0..Len(o) /\ 2 * n <= Len(w)
      BY <1>1, <1>2, <2>2
    <3> HIDE DEF w, o
    <3> QED BY <1>1, <3>1, HeaderOfBeginning DEF o
  <2>4. w[2 * n + 1] = NL /\ \A i \in 1..n : 2 * i - 1 \in 1..Len(w)
    <3>1. 2 * n + 1 \in 1..Len(w) /\ \A i \in 1..n : 2 * i - 1 \in 1..Len(w)
      BY <1>1, <1>2, <2>2
    <3> QED BY <1>1, <2>1, <3>1
  <2>5. Left(w) = SubSeq(w, 2 * n + 2, Len(w))
    <3> HIDE DEF w, o, n
    <3> QED BY <1>1, <2>1, <2>2, <2>3, <2>4, HeaderWithEnd
  <2>6. SubSeq(w, 2 * n + 2, Len(w)) = SubSeq(o, 2 * n + 2, Len(w))
    <3> HIDE DEF w, o, n
    <3> QED BY <1>1, <1>2, <2>2
  <2>7. HeaderSize = 2 * n + 1 /\ HeaderSize + 1 = 2 * n + 2
    BY <1>2, <2>1 DEF HeaderSize
  <2>8. [i \in 1..HeaderLines(w) |-> w[2 * i - 1]] = FieldsOf
    <3>1. \A i \in 1..n : w[2 * i - 1] = o[2 * i - 1]
      BY <1>1, <2>4
    <3> QED BY <2>3, <3>1 DEF FieldsOf
  <2>9. HeaderSize <= Len(w)
    BY <1>1, <1>2, <2>2, <2>7
  <2> QED BY <2>5, <2>6, <2>7, <2>8, <2>9
<1>4. CASE NL \notin ToSet(o)
  <2>1. NL \notin ToSet(w)
    <3>1. DOMAIN w = 1..Len(w) /\ DOMAIN o = 1..Len(o)
      <4> HIDE DEF w, o
      <4> QED BY <1>1
    <3>2. \A i \in DOMAIN w : i \in DOMAIN o /\ w[i] = o[i]
      BY <1>1, <3>1
    <3> HIDE DEF w, o
    <3> QED BY <1>4, <3>2 DEF ToSet
  <2>2. n = 0 /\ HeaderLines(w) = 0 /\ Left(w) = w
    <3> HIDE DEF w, o
    <3> QED BY <1>1, <1>4, <2>1, NoHeader DEF o
  <2>3. HeaderSize = 0
    BY <2>2 DEF HeaderSize
  <2> QED BY <1>1, <2>2, <2>3 DEF FieldsOf
<1> QED BY <1>3, <1>4

\* What a step leaves as it is, as far as the output is concerned.
Kept ==
  /\ UNCHANGED <<program, prompt, stdout, killed>> /\ Written' = Written
  /\ outOpen' \in BOOLEAN
  /\ cgi'.headersComplete = cgi.headersComplete /\ cgi'.readBuffer = cgi.readBuffer
  /\ cgi'.httpBody = cgi.httpBody /\ cgi'.eof = cgi.eof /\ cgi'.fields = cgi.fields
  /\ cgi'.running <=> process' # "reaped"
  /\ process \notin {"none", "running"} => process' \notin {"none", "running"}

LEMMA KeptKeeps ==
  ASSUME MessageBound, Counted, Split, Kept, answer' = None => answer = None
  PROVE  MessageBound' /\ Counted' /\ Split'
<1>1. UNCHANGED <<Said, Output, FieldsOf, HeaderSize, HeaderAtOnce, Held>>
  BY DEF Kept, Said, Output, FieldsOf, HeaderSize, HeaderAtOnce, Held
<1>2. MessageBound'
  BY <1>1 DEF Kept, MessageBound
<1>3. Counted'
  BY <1>1 DEF Kept, Counted
<1>4. Split'
  BY <1>1 DEF Kept, Split
<1> QED BY <1>2, <1>3, <1>4

\* An answer stays as it is.
LEMMA AnswerKept ==
  ASSUME TooLargeRefused, AnswerWhole, UNCHANGED <<program, prompt>>,
         answer' = answer \/ answer'.code # 200 \/ answer' = None
  PROVE  TooLargeRefused' /\ AnswerWhole'
BY DEF TooLargeRefused, AnswerWhole, IsAnswered, Output, FieldsOf, TextOf, HeaderAtOnce

\* The steps of the script, and those of the loop that look at no output.
LEMMA OtherWhole ==
  ASSUME WholeIInv,
         ReadsInput \/ ClosesOutput \/ Exits \/ Dies \/ BecomesZombie \/ TimePasses \/ Start
           \/ (\E peer : Poll(peer)) \/ Skip \/ CgiWriteCb \/ UNCHANGED vars
  PROVE  EndIsLast' /\ MessageBound' /\ Counted' /\ Split' /\ TooLargeRefused' /\ AnswerWhole'
<1> USE DEF WholeIInv
<1>0. /\ program \in Programs /\ Message /\ step \in 1..(Len(program.steps) + 1)
      /\ Len(program.steps) \in Nat /\ step \in Nat /\ step + 1 \in Nat
      /\ cgi.running <=> process # "reaped"
      /\ outOpen \in BOOLEAN /\ EndIsReal
  <2>1. program \in Programs /\ Message /\ EndIsReal
    BY DEF OutputIInv, MessageTrue
  <2>2. Len(program.steps) \in Nat
    BY <2>1, SpokenSteps
  <2> QED BY <2>1, <2>2 DEF EndIsLast, MessageBound
<1>1. CASE ReadsInput
  <2>1. /\ step' = step + 1 /\ step <= Len(program.steps) /\ program.steps[step].op # "write"
        /\ UNCHANGED <<program, prompt, process, killed, stdout, outOpen, cgi, answer, phase>>
        /\ process = "running"
    BY <1>1 DEF ReadsInput, Runs, given, loop
  <2>2. Written' = Written
    BY <1>0, <2>1, WritesNothing
  <2>3. Kept
    BY <1>0, <2>1, <2>2 DEF Kept
  <2>4. EndIsLast'
    <3>1. step + 1 \in 1..(Len(program.steps) + 1) /\ \A i \in 1..(step - 1) : i \in 1..((step + 1) - 1)
      BY <1>0, <2>1
    <3> QED BY <2>1, <3>1 DEF EndIsLast
  <2> QED BY <2>1, <2>3, <2>4, KeptKeeps, AnswerKept
<1>2. CASE ClosesOutput
  <2>1. /\ step' = step + 1 /\ step <= Len(program.steps) /\ program.steps[step].op = "close"
        /\ UNCHANGED <<program, prompt, process, killed, stdout, cgi, answer, phase>> /\ outOpen' = FALSE
        /\ process = "running"
    BY <1>2 DEF ClosesOutput, Runs, given, loop
  <2>2. Written' = Written
    BY <1>0, <2>1, WritesNothing
  <2>3. Kept
    BY <1>0, <2>1, <2>2 DEF Kept
  <2>4. EndIsLast'
    <3>1. step + 1 \in 1..(Len(program.steps) + 1) /\ step \in 1..((step + 1) - 1)
      BY <1>0, <2>1
    <3> QED BY <2>1, <3>1 DEF EndIsLast
  <2> QED BY <2>1, <2>3, <2>4, KeptKeeps, AnswerKept
<1>3. CASE Exits \/ Dies
  <2>1. /\ UNCHANGED <<program, prompt, step, killed, stdout, cgi, answer, phase>> /\ outOpen' = FALSE
        /\ process = "running" /\ process' \in {"zombie", "closing"}
        /\ killed \/ step > Len(program.steps)
    BY <1>3 DEF Exits, Dies, Ends, Gone, given, loop
  <2>2. Written' = Written
    BY <2>1 DEF Written
  <2>3. Kept
    BY <1>0, <2>1, <2>2 DEF Kept
  <2>4. EndIsLast'
    <3>1. step > Len(program.steps) => step = Len(program.steps) + 1
      BY <1>0
    <3> QED BY <1>0, <2>1, <3>1 DEF EndIsLast
  <2> QED BY <2>1, <2>3, <2>4, KeptKeeps, AnswerKept
<1>4. CASE BecomesZombie
  <2>1. /\ UNCHANGED <<program, prompt, step, killed, stdout, outOpen, cgi, answer, phase>>
        /\ process = "closing" /\ process' = "zombie"
    BY <1>4 DEF BecomesZombie, given, pipes, loop
  <2>2. Written' = Written
    BY <2>1 DEF Written
  <2>3. Kept
    BY <1>0, <2>1, <2>2 DEF Kept
  <2>4. EndIsLast'
    BY <2>1 DEF EndIsLast
  <2> QED BY <2>1, <2>3, <2>4, KeptKeeps, AnswerKept
<1>5. CASE Start
  <2>1. /\ UNCHANGED <<program, prompt, step, killed, stdout, outOpen, cgi, phase>>
        /\ process = "none" /\ process' \in {"running", "failed"}
        /\ answer' = answer \/ answer'.code = 500
    BY <1>5 DEF Start, Answered, given, pipes, loop
  <2>2. answer = None /\ outOpen
    BY <1>0, <2>1 DEF EndIsLast, EndIsReal
  <2>3. Written' = Written
    BY <2>1 DEF Written
  <2>4. Kept
    BY <1>0, <2>1, <2>3 DEF Kept
  <2>5. EndIsLast'
    BY <2>1, <2>2 DEF EndIsLast
  <2>6. answer' = answer \/ answer'.code # 200
    BY <2>1
  <2> QED BY <2>1, <2>2, <2>4, <2>5, <2>6, KeptKeeps, AnswerKept
<1>6. CASE TimePasses \/ Skip \/ (\E peer : Poll(peer)) \/ UNCHANGED vars
  <2>1. /\ UNCHANGED <<program, prompt, step, process, killed, stdout, outOpen, cgi, answer>>
        /\ process = "none" => phase' = phase \/ phase # "poll"
    BY <1>6 DEF TimePasses, Skip, Poll, vars, given, process_, pipes, loop
  <2>2. Written' = Written
    BY <2>1 DEF Written
  <2>3. Kept
    BY <1>0, <2>1, <2>2 DEF Kept
  <2>4. EndIsLast'
    BY <2>1 DEF EndIsLast
  <2> QED BY <2>1, <2>3, <2>4, KeptKeeps, AnswerKept
<1>7. CASE CgiWriteCb
  <2>1. /\ UNCHANGED <<program, prompt, step, process, killed, stdout, outOpen, answer>>
        /\ phase # "poll" /\ answer = None
    BY <1>7 DEF CgiWriteCb, Turn, given, process_
  <2>2. /\ cgi'.headersComplete = cgi.headersComplete /\ cgi'.readBuffer = cgi.readBuffer
        /\ cgi'.httpBody = cgi.httpBody /\ cgi'.eof = cgi.eof /\ cgi'.fields = cgi.fields
        /\ cgi'.running = cgi.running
    BY <1>0, <1>7 DEF CgiWriteCb, Message, NewMessage
  <2>3. Written' = Written
    BY <2>1 DEF Written
  <2>4. Kept
    BY <1>0, <2>1, <2>2, <2>3 DEF Kept
  <2>5. EndIsLast'
    BY <2>1 DEF EndIsLast
  <2> QED BY <2>1, <2>4, <2>5, KeptKeeps, AnswerKept
<1> QED BY <1>1, <1>2, <1>3, <1>4, <1>5, <1>6, <1>7

\* A write of the script: it goes to the pipe and to what has been written.
LEMMA WriteWhole ==
  ASSUME WholeIInv, WritesOutput
  PROVE  EndIsLast' /\ MessageBound' /\ Counted' /\ Split' /\ TooLargeRefused' /\ AnswerWhole'
<1> USE DEF WholeIInv
<1> DEFINE d == Data(program, step)
           w == Written
           x == cgi.readBuffer
           h == cgi.httpBody
<1>0. /\ program \in Programs /\ step \in 1..(Len(program.steps) + 1) /\ Len(program.steps) \in Nat
      /\ stdout \in Seq(Said) /\ x \in Seq(Said) /\ h \in Seq(Said) /\ PipeSize \in Nat /\ MaxOutput \in Nat
  <2>1. program \in Programs
    BY DEF OutputIInv
  <2> QED BY <2>1, SpokenSteps, ScriptAssumption DEF OutputIInv, EndIsLast, MessageBound
<1>1. /\ step <= Len(program.steps) /\ program.steps[step].op = "write" /\ process = "running" /\ ~killed
      /\ Len(stdout) + Len(d) <= PipeSize /\ stdout' = stdout \o d /\ step' = step + 1
      /\ UNCHANGED <<program, prompt, process, killed, outOpen, cgi, answer, phase>>
  BY DEF WritesOutput, Runs, given, loop, Data
<1>2. step \in 1..Len(program.steps) /\ (step + 1) - 1 = step /\ step + 1 \in 1..(Len(program.steps) + 1)
  BY <1>0, <1>1
<1>3. d \in Seq(Said)
  <2>1. d \in Seq(SaidBy(program))
    BY <1>0, <1>2, DataType
  <2> QED BY <2>1 DEF Said
<1>4. Written' = w \o d
  BY <1>0, <1>1, <1>2, SpokenSteps DEF Written
<1>5. /\ w \in Seq(Said) /\ Output \in Seq(Said) /\ Len(w) \in Nat /\ Len(Output) \in Nat
      /\ w = SubSeq(Output, 1, Len(w))
  BY <1>0, WrittenBegins
<1>6. UNCHANGED <<Said, Output, FieldsOf, HeaderSize, HeaderAtOnce>>
  BY <1>1 DEF Said, Output, FieldsOf, HeaderSize, HeaderAtOnce
<1>7. /\ Len(w \o d) <= Len(Output) /\ w \o d = SubSeq(Output, 1, Len(w \o d)) /\ Len(w \o d) \in Nat
  <2>1. step' \in 1..(Len(program'.steps) + 1) /\ program' \in Programs
    BY <1>0, <1>1, <1>2
  <2>2. /\ Spoken(program)[step] = w \o d /\ step \in 0..Len(program.steps)
        /\ Len(program.steps) \in step..Len(program.steps)
    BY SMTT(40), <1>0, <1>1, <1>2, <1>4 DEF Written
  <2>3. /\ Len(Spoken(program)[step]) <= Len(Output)
        /\ Spoken(program)[step] = SubSeq(Output, 1, Len(Spoken(program)[step]))
    BY <1>0, <2>2, SpokenGrows DEF Output
  <2>4. Len(Spoken(program)[step]) \in Nat
    BY <1>0, <2>2, SpokenType
  <2> QED BY <2>2, <2>3, <2>4
<1>8. EndIsLast'
  <2>1. \A i \in 1..(step - 1) : i \in 1..((step + 1) - 1)
    BY <1>0
  <2> QED BY <1>1, <1>2, <2>1 DEF EndIsLast
<1> HIDE DEF d, w
<1>9. /\ Len(stdout \o d) = Len(stdout) + Len(d) /\ Len(w \o d) = Len(w) + Len(d)
      /\ Len(stdout) \in Nat /\ Len(d) \in Nat /\ Len(x) \in Nat /\ Len(h) \in Nat
  BY <1>0, <1>3, <1>5
<1>10. ~cgi.eof
  <2>1. outOpen
    <3>1. ASSUME ~outOpen PROVE FALSE
      <4>1. PICK i \in 1..(step - 1) : program.steps[i].op = "close"
        BY <1>1, <3>1 DEF EndIsLast
      <4>2. i \in DOMAIN program.steps /\ step \in DOMAIN program.steps /\ i < step
        <5>1. DOMAIN program.steps = 1..Len(program.steps)
          BY <1>0, SpokenSteps
        <5> QED BY <1>0, <1>2, <5>1
      <4> QED BY <1>0, <1>1, <4>1, <4>2, ScriptAssumption
    <3> QED BY <3>1
  <2> QED BY <2>1 DEF OutputIInv, MessageTrue
<1>11. MessageBound'
  <2> HIDE DEF x, h
  <2>1. Len(stdout') <= PipeSize
    BY <1>1, <1>9
  <2> QED BY <1>1, <1>6, <1>10, <2>1 DEF MessageBound
<1>12. Held' = Held + Len(d) /\ Held \in Nat
  <2>1. Held = Len(stdout) + Len(x) + Len(h) /\ Held' = Len(stdout \o d) + Len(x) + Len(h)
    BY <1>1 DEF Held
  <2> HIDE DEF x, h
  <2> QED BY <1>9, <2>1
<1>13. Counted'
  <2>1. Len(Written') = Len(Written) + Len(d) /\ Len(Written) \in Nat
    BY <1>4, <1>5, <1>9 DEF w
  <2>2. Held' <= Len(Written')
    BY <1>9, <1>12, <2>1 DEF Counted
  <2>3. Len(Written') <= Held' + IF cgi.headersComplete THEN PipeSize ELSE 0
    <3>1. Len(Written) <= Held + IF cgi.headersComplete THEN PipeSize ELSE 0
      BY <1>1 DEF Counted
    <3> DEFINE p == IF cgi.headersComplete THEN PipeSize ELSE 0
    <3>2. p \in Nat
      BY <1>0
    <3> HIDE DEF p
    <3>3. Len(Written') <= Held' + p
      BY <1>9, <1>12, <2>1, <3>1, <3>2 DEF p
    <3> QED BY <3>3 DEF p
  <2> QED BY <1>1, <2>2, <2>3 DEF Counted
<1>14. Split'
  <2> SUFFICES ASSUME Len(Output) <= MaxOutput, answer = None PROVE Split'
    BY <1>1, <1>6 DEF Split
  <2>1. cgi.headersComplete \/ Written' = stdout'
    BY <1>1, <1>4 DEF Split, w
  <2>2. ASSUME HeaderAtOnce, cgi.headersComplete
        PROVE  /\ cgi.fields = FieldsOf /\ HeaderSize <= Len(Written')
               /\ (h \o x) \o stdout' = SubSeq(Output, HeaderSize + 1, Len(Written'))
    <3>1. cgi.fields = FieldsOf /\ HeaderSize <= Len(w) /\ (h \o x) \o stdout = SubSeq(Output, HeaderSize + 1, Len(w))
      BY <2>2 DEF Split, w
    <3>2. HeaderSize \in Nat
      <4>1. HeaderLines(Output) \in Nat
        BY <1>5, HeaderLinesMost
      <4> QED BY <4>1 DEF HeaderSize
    <3>3. (h \o x) \o (stdout \o d) = ((h \o x) \o stdout) \o d
      <4> DEFINE y == h \o x
      <4>1. y \in Seq(Said) /\ stdout \in Seq(Said)
        BY <1>0, ConcatProperties
      <4> HIDE DEF y
      <4>2. y \o (stdout \o d) = (y \o stdout) \o d
        BY SMTT(40), <1>3, <4>1, ConcatAssociative
      <4> QED BY <4>2 DEF y
    <3>4. SubSeq(w, HeaderSize + 1, Len(w)) = SubSeq(Output, HeaderSize + 1, Len(w))
      <4> DEFINE m == Len(w)
      <4> HIDE DEF m
      <4>1. m \in Nat /\ m <= Len(Output) /\ w = SubSeq(Output, 1, m)
        BY <1>5, <1>7, <1>9 DEF m
      <4>2. SubSeq(SubSeq(Output, 1, m), HeaderSize + 1, m) = SubSeq(Output, HeaderSize + 1, m)
        BY <1>5, <3>1, <3>2, <4>1
      <4> QED BY <4>1, <4>2 DEF m
    <3>5. SubSeq(Output, HeaderSize + 1, Len(w)) \o d = SubSeq(Output, HeaderSize + 1, Len(w \o d))
      <4> DEFINE m == Len(w)
                 k == Len(w \o d)
      <4>1. d = SubSeq(Output, m + 1, k)
        <5>1. /\ \A i \in 1..Len(d) : (w \o d)[m + i] = d[i]
              /\ k = m + Len(d) /\ m \in Nat
          BY <1>3, <1>5, <1>9
        <5> HIDE DEF m, k
        <5>2. SubSeq(Output, m + 1, k) \in Seq(Said) /\ Len(SubSeq(Output, m + 1, k)) = Len(d)
              /\ \A i \in 1..Len(d) : SubSeq(Output, m + 1, k)[i] = Output[m + i]
          BY <1>5, <1>7, <1>9, <5>1 DEF k
        <5>3. \A i \in 1..Len(d) : (w \o d)[m + i] = Output[m + i]
          <6>1. \A j \in 1..k : SubSeq(Output, 1, k)[j] = Output[j]
            BY <1>5, <1>7 DEF k
          <6>2. \A i \in 1..Len(d) : m + i \in 1..k
            BY <1>9, <5>1
          <6> QED BY <1>7, <6>1, <6>2 DEF k
        <5>4. \A i \in 1..Len(d) : d[i] = SubSeq(Output, m + 1, k)[i]
          BY <5>1, <5>2, <5>3
        <5> QED BY <1>3, <5>2, <5>4, SeqEqual
      <4>2. HeaderSize + 1 \in 1..Len(Output) + 1 /\ m \in (HeaderSize + 1) - 1..Len(Output) /\ k \in m..Len(Output)
        BY <1>5, <1>7, <1>9, <3>1, <3>2
      <4>3. SubSeq(Output, HeaderSize + 1, m) \o SubSeq(Output, m + 1, k) = SubSeq(Output, HeaderSize + 1, k)
        <5> HIDE DEF m, k
        <5> QED BY <1>5, <4>2, ConcatAdjacentSubSeq
      <4> QED BY <4>1, <4>3
    <3>6. HeaderSize <= Len(w \o d)
      BY <1>5, <1>9, <3>1, <3>2
    <3> QED BY <1>1, <1>4, <3>1, <3>3, <3>5, <3>6
  <2> QED BY <1>1, <1>6, <2>1, <2>2 DEF Split
<1>15. TooLargeRefused' /\ AnswerWhole'
  BY <1>1, AnswerKept
<1> QED BY <1>8, <1>11, <1>13, <1>14, <1>15

\* What is held, and with it what has been written, has a bound.
LEMMA WrittenBound ==
  ASSUME WholeIInv
  PROVE  Held \in Nat /\ Held <= MaxOutput + PipeSize /\ Len(Written) <= MaxOutput + 2 * PipeSize
<1> USE DEF WholeIInv
<1> DEFINE a == Len(stdout)
           b == Len(cgi.readBuffer)
           c == Len(cgi.httpBody)
<1>1. PipeSize \in Nat /\ MaxOutput \in Nat
  BY ScriptAssumption
<1>2. a \in Nat /\ b \in Nat /\ c \in Nat /\ a <= PipeSize /\ b + c <= MaxOutput
  <2>1. stdout \in Seq(Said) /\ cgi.readBuffer \in Seq(Said) /\ cgi.httpBody \in Seq(Said)
    BY DEF OutputIInv, MessageBound
  <2>2. a \in Nat /\ b \in Nat /\ c \in Nat
    BY <2>1
  <2> QED BY <2>2 DEF MessageBound
<1>3. Held = a + b + c
  BY DEF Held
<1> HIDE DEF a, b, c
<1>4. Held \in Nat /\ Held <= MaxOutput + PipeSize
  BY <1>1, <1>2, <1>3
<1>5. Len(Written) \in Nat
  BY WrittenBegins DEF OutputIInv, EndIsLast
<1>6. CASE Len(Written) <= Held + IF cgi.headersComplete THEN PipeSize ELSE 0
  BY <1>1, <1>4, <1>5, <1>6
<1>7. CASE Len(Written) <= MaxOutput + 2 * PipeSize
  BY <1>4, <1>7
<1> QED BY <1>6, <1>7 DEF Counted

\* What a failure is answered with.
LEMMA FailureIs ==
  ASSUME answer' = Failure, IsAnswered'
  PROVE  \/ answer'.code = 413
         \/ /\ ~cgi.tooLarge /\ answer'.code = StatusOf(cgi.fields) /\ answer'.fields = cgi.fields
            /\ answer'.code = 200 => answer'.body = <<>>
<1> DEFINE code == StatusOf(cgi.fields)
           body_ == ErrorText(code, cgi.readBuffer)
<1>1. CASE cgi.tooLarge
  <2>1. answer' = Answered(413, <<>>, <<>>)
    BY <1>1 DEF Failure
  <2> QED BY <2>1 DEF Answered
<1>2. CASE ~cgi.tooLarge
  <2>1. answer' = Answered(code, cgi.fields, body_)
    BY <1>2, Zenon DEF Failure, IsAnswered
  <2>2. code = 200 => body_ = <<>>
    BY DEF ErrorText
  <2> HIDE DEF code, body_
  <2>3. answer'.code = code /\ answer'.fields = cgi.fields /\ answer'.body = body_
    BY <2>1 DEF Answered
  <2>4. answer'.code = 200 => answer'.body = <<>>
    BY <2>2, <2>3
  <2> QED BY <1>2, <2>3, <2>4 DEF code
<1> QED BY <1>1, <1>2

\* _readFromCgi: what it answers is all that the script has written.
LEMMA AnswerWholly ==
  ASSUME WholeIInv, ReadFromCgi
  PROVE  EndIsLast' /\ MessageBound' /\ Counted' /\ Split' /\ TooLargeRefused' /\ AnswerWhole'
<1> USE DEF WholeIInv
<1>0. /\ program \in Programs /\ Message /\ step \in 1..(Len(program.steps) + 1) /\ EndIsReal
      /\ cgi.running <=> process # "reaped"
      /\ outOpen \in BOOLEAN /\ killed \in BOOLEAN /\ PipeSize \in Nat /\ MaxOutput \in Nat
  BY ScriptAssumption DEF OutputIInv, MessageTrue, EndIsLast, MessageBound
<1>1. /\ UNCHANGED <<program, prompt, step, stdout, outOpen>> /\ StatusUpdated
      /\ phase = "out" /\ answer = None /\ cgi' = [cgi EXCEPT !.running = Running]
      /\ (answer' = None => killed' = killed) /\ killed' \in BOOLEAN /\ (killed => killed')
  BY <1>0 DEF ReadFromCgi, Turn, Destroyed, given, pipes
<1>2. /\ cgi'.headersComplete = cgi.headersComplete /\ cgi'.readBuffer = cgi.readBuffer
      /\ cgi'.httpBody = cgi.httpBody /\ cgi'.eof = cgi.eof /\ cgi'.fields = cgi.fields
      /\ cgi'.running = Running
  BY <1>0, <1>1 DEF Message, NewMessage
<1>3. /\ cgi'.running <=> process' # "reaped"
      /\ process' = process \/ (process = "zombie" /\ process' = "reaped")
  BY <1>0, <1>1, <1>2 DEF StatusUpdated, Running
<1>4. /\ UNCHANGED <<Said, Output, FieldsOf, HeaderSize, HeaderAtOnce, Written, Held, TextOf>>
  BY <1>1, <1>2 DEF Said, Output, FieldsOf, HeaderSize, HeaderAtOnce, Written, Held, TextOf
<1>5. EndIsLast'
  BY <1>1, <1>3 DEF EndIsLast
<1>6. MessageBound'
  BY <1>1, <1>2, <1>3, <1>4 DEF MessageBound
<1>7. Counted'
  BY <1>1, <1>2, <1>3, <1>4 DEF Counted
<1>8. Split'
  BY <1>1, <1>2, <1>4 DEF Split
<1>9. ASSUME IsAnswered', answer'.code = 200
      PROVE  /\ answer'.fields = cgi.fields
             /\ \/ cgi.bodyComplete /\ Succeeded /\ answer'.body = cgi.httpBody
                \/ /\ ~Succeeded /\ ~cgi.tooLarge /\ StatusOf(cgi.fields) = 200
                   /\ answer'.body = <<>>
  <2>1. CASE answer' = Failure /\ ~Succeeded
    BY <1>9, <2>1, FailureIs
  <2>2. CASE answer' = Answered(200, cgi.fields, cgi.httpBody) /\ Succeeded /\ cgi.bodyComplete
    BY <2>2 DEF Answered
  <2> QED BY <1>1, <1>9, <2>1, <2>2 DEF ReadFromCgi, Answered, IsAnswered
<1>10. ASSUME cgi.bodyComplete PROVE ~outOpen /\ stdout = <<>> /\ cgi.readBuffer = <<>> /\ cgi.headersComplete
  BY <1>10 DEF OutputIInv, MessageTrue, MessageBound
<1>11. /\ Written \in Seq(Said) /\ Output \in Seq(Said) /\ Len(Written) \in Nat /\ Len(Output) \in Nat
  BY <1>0, WrittenBegins
<1>a. ASSUME ~Succeeded, ~cgi.tooLarge PROVE ~outOpen /\ ~killed /\ program.code # 0
  BY <1>0, <1>1, <1>a DEF Succeeded, Running, ExitCode, EndIsLast, FailureKnown
<1>12. TooLargeRefused'
  <2> SUFFICES ASSUME prompt, IsAnswered', answer'.code = 200
               PROVE  Len(Output) <= MaxOutput + 2 * PipeSize
    BY <1>1, <1>4 DEF TooLargeRefused
  <2>1. ~outOpen /\ (~killed \/ Succeeded)
    BY <1>9, <1>10, <1>a
  <2>2. ~killed \/ process = "running"
    <3>1. ASSUME killed PROVE process = "running"
      <4>1. Running
        BY <2>1, <3>1 DEF Succeeded, ExitCode
      <4> QED BY <1>0, <2>1, <4>1 DEF Running, EndIsReal
    <3> QED BY <3>1
  <2>3. Written = Output
    BY <1>0, <2>1, <2>2, AllWritten
  <2>4. Len(Written) <= MaxOutput + 2 * PipeSize
    BY WrittenBound
  <2> QED BY <2>3, <2>4
<1>13. AnswerWhole'
  <2> SUFFICES ASSUME IsAnswered', answer'.code = 200, HeaderAtOnce, Len(Output) <= MaxOutput
               PROVE  /\ answer'.fields = FieldsOf
                      /\ \/ answer'.body = TextOf
                         \/ program.code # 0 /\ StatusOf(FieldsOf) = 200 /\ answer'.body = <<>>
    BY <1>1, <1>4 DEF AnswerWhole
  <2>a. CASE ~Succeeded /\ ~cgi.tooLarge /\ StatusOf(cgi.fields) = 200 /\ answer'.body = <<>>
    <3>1. cgi.headersComplete
      <4>1. ASSUME cgi.fields = <<>> PROVE StatusOf(cgi.fields) = 500
        BY <4>1 DEF StatusOf
      <4> QED BY <2>a, <4>1 DEF FailureKnown
    <3>2. cgi.fields = FieldsOf
      BY <1>1, <3>1 DEF Split
    <3> QED BY <1>9, <1>a, <2>a, <3>2
  <2> SUFFICES ASSUME cgi.bodyComplete, answer'.body = cgi.httpBody
               PROVE  answer'.fields = FieldsOf /\ answer'.body = TextOf
    BY <1>9, <2>a
  <2>1. /\ ~outOpen /\ stdout = <<>> /\ cgi.readBuffer = <<>> /\ cgi.headersComplete
        /\ answer'.fields = cgi.fields /\ answer'.body = cgi.httpBody
    BY <1>9, <1>10
  <2>2. /\ ~killed /\ cgi.fields = FieldsOf
        /\ (cgi.httpBody \o cgi.readBuffer) \o stdout = SubSeq(Output, HeaderSize + 1, Len(Written))
    BY <1>1, <2>1 DEF Split
  <2>3. Written = Output
    BY <1>0, <2>1, <2>2, AllWritten
  <2>4. (cgi.httpBody \o <<>>) \o <<>> = cgi.httpBody
    <3>1. cgi.httpBody \in Seq(Said)
      BY DEF MessageBound
    <3> QED BY <3>1, ConcatEmptySeq
  <2>5. SubSeq(Output, HeaderSize + 1, Len(Output)) = TextOf
    <3>1. HeaderLines(Output) \in Nat
      BY <1>11, HeaderLinesMost
    <3>2. CASE HeaderLines(Output) = 0
      <4>1. SubSeq(Output, 1, Len(Output)) = Output
        BY <1>11, SubSeqFull
      <4> QED BY <3>2, <4>1 DEF HeaderSize, TextOf
    <3>3. CASE HeaderLines(Output) # 0
      <4>1. HeaderSize + 1 = 2 * HeaderLines(Output) + 2
        BY <3>1, <3>3 DEF HeaderSize
      <4> QED BY <3>3, <4>1 DEF TextOf
    <3> QED BY <3>2, <3>3
  <2>6. (cgi.httpBody \o <<>>) \o <<>> = SubSeq(Output, HeaderSize + 1, Len(Output))
    BY <2>1, <2>2, <2>3
  <2> QED BY <2>1, <2>2, <2>4, <2>5, <2>6
<1> QED BY <1>5, <1>6, <1>7, <1>8, <1>12, <1>13

\* A failure is answered with 413 if the script was killed, or else with what it
\* has written of its Status, or 500.
LEMMA AnsweredRightly ==
  ASSUME WholeIInv, ReadFromCgi
  PROVE  FailureReported'
<1> SUFFICES ASSUME prompt, IsAnswered', program.code # 0
             PROVE  answer'.code \in {408, 413, 500} \union OwnCodes \/ ClosedByProgram
  BY DEF ReadFromCgi, given, FailureReported, ClosedByProgram, OwnCodes, Said
<1>1. answer = None /\ Message
  BY DEF ReadFromCgi, Turn, WholeIInv, InputIInv
<1>2. CASE answer' = Failure
  <2>1. cgi.fields \in Seq(Said)
    BY DEF WholeIInv, FailureKnown
  <2>2. StatusOf(cgi.fields) \in {500} \union OwnCodes
    <3> DEFINE lines == {i \in DOMAIN cgi.fields : cgi.fields[i] \in DOMAIN Number}
    <3>1. CASE lines = {}
      BY <3>1 DEF StatusOf
    <3>2. CASE lines # {}
      <4>1. lines \subseteq Nat /\ \A i \in lines : cgi.fields[i] \in Said \intersect DOMAIN Number
        BY <2>1
      <4>2. Min(lines) \in lines
        <5> HIDE DEF lines
        <5> QED BY <3>2, <4>1, LeastExists DEF Min
      <4>3. StatusOf(cgi.fields) = Number[cgi.fields[Min(lines)]]
        BY <3>2 DEF StatusOf
      <4> HIDE DEF lines
      <4> QED BY <4>1, <4>2, <4>3 DEF OwnCodes
    <3> QED BY <3>1, <3>2
  <2>3. answer'.code \in {413, StatusOf(cgi.fields)}
    BY <1>2, FailureIs
  <2> QED BY <2>2, <2>3
<1>3. CASE answer' = Answered(408, <<>>, <<>>)
  BY <1>3 DEF Answered
<1>4. CASE cgi.bodyComplete /\ Succeeded
  <2>1. ~outOpen
    BY <1>4 DEF WholeIInv, OutputIInv, MessageTrue
  <2>2. ExitCode # 0
    BY DEF ExitCode
  <2>3. cgi.running /\ process # "zombie"
    BY <1>4, <2>2 DEF Succeeded, Running
  <2>4. process = "running"
    BY <2>1, <2>3 DEF WholeIInv, OutputIInv, MessageTrue, EndIsReal
  <2> QED BY <2>1, <2>4 DEF WholeIInv, OutputIInv, EndIsReal
<1> QED BY <1>1, <1>2, <1>3, <1>4 DEF ReadFromCgi, IsAnswered

\* Fields are taken from what was read, and a script is killed when it is too large.
LEMMA FailureStep ==
  ASSUME WholeIInv, [Next]_vars
  PROVE  FailureKnown' /\ FailureReported'
<1>0. Message /\ FailureKnown /\ FailureReported /\ MessageBound /\ stdout \in Seq(Said)
  BY DEF WholeIInv, InputIInv, OutputIInv
<1>1. ASSUME UNCHANGED <<program, prompt, killed>>, answer' = answer \/ (answer = None /\ answer'.code = 500),
             cgi'.fields = cgi.fields, cgi'.headersComplete = cgi.headersComplete,
             cgi'.tooLarge = cgi.tooLarge
      PROVE  FailureKnown' /\ FailureReported'
  BY <1>0, <1>1 DEF FailureKnown, FailureReported, IsAnswered, OwnCodes, Said
<1>2. CASE Process \/ BecomesZombie \/ Dies \/ TimePasses \/ (\E peer : Poll(peer)) \/ Skip \/ UNCHANGED vars
  <2>1. UNCHANGED <<program, prompt, killed, answer, cgi>>
    BY <1>2 DEF Process, ReadsInput, WritesOutput, ClosesOutput, Exits, Dies, BecomesZombie, TimePasses,
                Poll, Skip, vars, given, process_
  <2> QED BY <1>1, <2>1
<1>3. CASE Start
  <2>1. UNCHANGED <<program, prompt, killed, cgi>> /\ process = "none"
        /\ (answer' = answer \/ answer'.code = 500)
    BY <1>3 DEF Start, Answered, given
  <2>2. answer = None
    BY <2>1 DEF WholeIInv, EndIsLast
  <2> QED BY <1>1, <2>1, <2>2
<1>4. CASE CgiWriteCb
  <2>1. UNCHANGED <<program, prompt, killed, answer>>
    BY <1>4 DEF CgiWriteCb, given, process_
  <2>2. /\ cgi'.fields = cgi.fields /\ cgi'.headersComplete = cgi.headersComplete
        /\ cgi'.tooLarge = cgi.tooLarge
    BY <1>0, <1>4 DEF CgiWriteCb, Message, NewMessage
  <2> QED BY <1>1, <2>1, <2>2
<1>5. CASE ReadFromCgi
  <2>1. /\ UNCHANGED <<program, prompt>> /\ cgi' = [cgi EXCEPT !.running = Running]
        /\ answer = None /\ (answer' = None => killed' = killed)
    BY <1>5 DEF ReadFromCgi, Turn, given
  <2>2. /\ cgi'.fields = cgi.fields /\ cgi'.headersComplete = cgi.headersComplete
        /\ cgi'.tooLarge = cgi.tooLarge
    BY <1>0, <2>1 DEF Message, NewMessage
  <2>3. FailureKnown'
    BY <1>0, <2>1, <2>2 DEF FailureKnown, Said
  <2> QED BY <1>5, <2>3, AnsweredRightly
<1>6. ASSUME NEW e, CgiReadCb(e)
      PROVE  FailureKnown' /\ FailureReported'
  <2>1. UNCHANGED <<program, prompt, answer>> /\ Said' = Said
    BY <1>6 DEF CgiReadCb, given, Said
  <2>2. FailureReported'
    BY <1>0, <2>1 DEF FailureReported, IsAnswered, OwnCodes
  <2>3. ASSUME NEW c, c = [f \in DOMAIN NewMessage |-> c[f]],
               c.readBuffer \in Seq(Said), c.httpBody \in Seq(Said), c.fields \in Seq(Said)
        PROVE  /\ Parsed(c).fields \in Seq(Said) /\ Parsed(c).headersComplete = TRUE
               /\ Parsed(c).tooLarge = c.tooLarge
    <3>1. /\ Parsed(c).headersComplete = TRUE /\ Parsed(c).tooLarge = c.tooLarge
          /\ c.headersComplete => Parsed(c).fields = c.fields
          /\ ~c.headersComplete =>
               Parsed(c).fields = [i \in 1..HeaderLines(c.readBuffer) |-> c.readBuffer[2 * i - 1]]
      BY <2>3, ParsedMessage, ZenonT(30)
    <3>2. [i \in 1..HeaderLines(c.readBuffer) |-> c.readBuffer[2 * i - 1]] \in Seq(Said)
      <4> DEFINE r == c.readBuffer
                 n == HeaderLines(r)
      <4>1. r \in Seq(Said) /\ n \in Nat /\ 2 * n <= Len(r) /\ Len(r) \in Nat
        BY <2>3, HeaderLinesMost DEF IsHeader
      <4> HIDE DEF n, r
      <4>2. \A i \in 1..n : 2 * i - 1 \in 1..Len(r)
        BY <4>1
      <4>3. \A i \in 1..n : r[2 * i - 1] \in Said
        BY <4>1, <4>2
      <4>4. [i \in 1..n |-> r[2 * i - 1]] \in Seq(Said)
        BY <4>1, <4>3
      <4> QED BY <4>4 DEF n, r
    <3> QED BY <2>3, <3>1, <3>2
  <2>4. CASE cgi.eof /\ cgi' = [cgi EXCEPT !.bodyComplete = TRUE] /\ UNCHANGED <<process, killed>>
    <3>1. /\ cgi'.fields = cgi.fields /\ cgi'.headersComplete = cgi.headersComplete
          /\ cgi'.tooLarge = cgi.tooLarge
      BY <1>0, <2>4 DEF Message, NewMessage
    <3> QED BY <1>1, <2>1, <2>4, <3>1
  <2>5. CASE ~cgi.eof /\ ~Overflows /\ cgi' = Parsed(Received) /\ UNCHANGED <<process, killed>>
    <3>1. /\ Received = [f \in DOMAIN NewMessage |-> Received[f]]
          /\ Received.readBuffer = cgi.readBuffer \o stdout /\ Received.httpBody = cgi.httpBody
          /\ Received.fields = cgi.fields /\ Received.tooLarge = cgi.tooLarge
      BY <1>0, ReceivedKeeps DEF Message, Received, NewMessage
    <3>2. Received.readBuffer \in Seq(Said) /\ Received.httpBody \in Seq(Said) /\ Received.fields \in Seq(Said)
      <4>1. cgi.readBuffer \in Seq(Said) /\ cgi.httpBody \in Seq(Said) /\ cgi.fields \in Seq(Said)
        BY <1>0 DEF MessageBound, FailureKnown
      <4>2. cgi.readBuffer \o stdout \in Seq(Said)
        BY <1>0, <4>1
      <4> QED BY <3>1, <4>1, <4>2
    <3>3. /\ Parsed(Received).fields \in Seq(Said) /\ Parsed(Received).headersComplete = TRUE
          /\ Parsed(Received).tooLarge = Received.tooLarge
      BY <2>3, <3>1, <3>2
    <3> QED BY <1>0, <2>1, <2>2, <2>5, <3>1, <3>3 DEF FailureKnown
  <2>6. CASE ~cgi.eof /\ Kill
    <3>0. <<>> \in Seq(Said)
      OBVIOUS
    <3>1. /\ Emptied = [f \in DOMAIN NewMessage |-> Emptied[f]]
          /\ Emptied.readBuffer = <<>> /\ Emptied.httpBody = <<>>
          /\ Emptied.fields = cgi.fields /\ Emptied.tooLarge = cgi.tooLarge
          /\ Emptied.headersComplete = cgi.headersComplete
      BY <1>0, ReceivedKeeps DEF Message, Received, Emptied, NewMessage
    <3>2. CASE ~cgi.running
      BY <1>1, <2>1, <2>6, <3>1, <3>2 DEF Kill
    <3>3. CASE cgi.running
      <4> DEFINE k == [Emptied EXCEPT !.tooLarge = TRUE, !.running = Running]
      <4>1. cgi' = Parsed(k)
        BY <2>6, <3>3 DEF Kill
      <4>2. /\ k = [f \in DOMAIN NewMessage |-> k[f]] /\ k.tooLarge = TRUE
            /\ k.readBuffer = Emptied.readBuffer /\ k.httpBody = Emptied.httpBody /\ k.fields = Emptied.fields
        BY <3>1 DEF NewMessage
      <4> HIDE DEF k
      <4>3. /\ Parsed(k).fields \in Seq(Said) /\ Parsed(k).headersComplete = TRUE
            /\ Parsed(k).tooLarge = k.tooLarge
        BY <1>0, <2>3, <3>0, <3>1, <4>2 DEF FailureKnown
      <4> QED BY <2>1, <2>2, <4>1, <4>2, <4>3 DEF FailureKnown
    <3> QED BY <3>2, <3>3
  <2> QED BY <1>6, <2>4, <2>5, <2>6 DEF CgiReadCb
<1> QED BY <1>2, <1>3, <1>4, <1>5, <1>6 DEF Next, Server

\* _cgiReadCb: what it takes from the pipe goes to the message, or too much of it is dropped.
LEMMA ReadWhole ==
  ASSUME WholeIInv, NEW e \in {"in", "hangup"}, CgiReadCb(e)
  PROVE  EndIsLast' /\ MessageBound' /\ Counted' /\ Split' /\ TooLargeRefused' /\ AnswerWhole'
<1> USE DEF WholeIInv
<1> DEFINE r == cgi.readBuffer
           h == cgi.httpBody
<1>0. /\ program \in Programs /\ Message /\ step \in 1..(Len(program.steps) + 1) /\ EndIsReal
      /\ cgi.running <=> process # "reaped"
      /\ outOpen \in BOOLEAN /\ killed \in BOOLEAN /\ cgi.headersComplete \in BOOLEAN
      /\ PipeSize \in Nat /\ MaxOutput \in Nat
      /\ stdout \in Seq(Said) /\ r \in Seq(Said) /\ h \in Seq(Said)
      /\ ~cgi.headersComplete => r = <<>> /\ h = <<>>
  BY ScriptAssumption DEF OutputIInv, MessageTrue, EndIsLast, MessageBound
<1>1. /\ UNCHANGED <<program, prompt, step, outOpen, answer>> /\ phase # "poll" /\ answer = None
      /\ stdout' = IF cgi.eof THEN stdout ELSE <<>>
  BY DEF CgiReadCb, Turn, given
<1>2. UNCHANGED <<Said, Output, FieldsOf, HeaderSize, HeaderAtOnce, Written>>
  BY <1>1 DEF Said, Output, FieldsOf, HeaderSize, HeaderAtOnce, Written
<1>3. /\ cgi'.running <=> process' # "reaped"
      /\ process' = process \/ (process = "zombie" /\ process' = "reaped")
      /\ cgi'.eof => cgi.eof \/ stdout = <<>>
  BY <1>0, ReadKeeps
<1>4. killed' \in BOOLEAN /\ (killed => killed')
  BY <1>0 DEF CgiReadCb, Kill
<1>5. EndIsLast'
  BY <1>1, <1>3, <1>4 DEF EndIsLast
<1>6. TooLargeRefused' /\ AnswerWhole'
  BY <1>1, AnswerKept
<1>7. /\ Written \in Seq(Said) /\ Output \in Seq(Said) /\ Len(Written) \in Nat /\ Len(Output) \in Nat
      /\ Len(Written) <= Len(Output)
  BY <1>0, WrittenBegins
<1>8. /\ Received = [f \in DOMAIN NewMessage |-> Received[f]]
      /\ Received.readBuffer = r \o stdout /\ Received.httpBody = h /\ Received.fields = cgi.fields
      /\ Received.headersComplete = cgi.headersComplete
      /\ Emptied = [f \in DOMAIN NewMessage |-> Emptied[f]]
      /\ Emptied.readBuffer = <<>> /\ Emptied.httpBody = <<>>
      /\ Emptied.headersComplete = cgi.headersComplete
  <2>1. /\ Received = [f \in DOMAIN NewMessage |-> Received[f]]
        /\ Emptied = [f \in DOMAIN NewMessage |-> Emptied[f]]
    BY <1>0, ReceivedKeeps
  <2>2. /\ Received.readBuffer = r \o stdout /\ Received.httpBody = h /\ Received.fields = cgi.fields
        /\ Received.headersComplete = cgi.headersComplete
    BY <1>0 DEF Message, NewMessage, Received
  <2>3. /\ Emptied.readBuffer = <<>> /\ Emptied.httpBody = <<>>
        /\ Emptied.headersComplete = cgi.headersComplete
    BY <1>0 DEF Message, NewMessage, Received, Emptied
  <2> QED BY <2>1, <2>2, <2>3
<1>9. /\ Len(r) \in Nat /\ Len(h) \in Nat /\ Len(stdout) \in Nat
      /\ r \o stdout \in Seq(Said) /\ Len(r \o stdout) = Len(r) + Len(stdout)
      /\ Held = Len(stdout) + Len(r) + Len(h)
  BY <1>0, ConcatProperties DEF Held
<1> HIDE DEF r, h
<1>10. Overflows <=> Held > MaxOutput
  <2> DEFINE a == Len(r)
             b == Len(h)
             c == Len(stdout)
  <2>1. Overflows <=> Len(r \o stdout) + b > MaxOutput
    BY <1>8 DEF Overflows
  <2>2. a \in Nat /\ b \in Nat /\ c \in Nat /\ Len(r \o stdout) = a + c /\ Held = c + a + b
    BY <1>9
  <2> HIDE DEF a, b, c
  <2> QED BY <1>0, <2>1, <2>2
<1>11. CASE cgi.eof
  <2>1. cgi' = [cgi EXCEPT !.bodyComplete = TRUE] /\ UNCHANGED <<process, killed, stdout>>
    BY <1>1, <1>11 DEF CgiReadCb
  <2>2. /\ cgi'.headersComplete = cgi.headersComplete /\ cgi'.readBuffer = cgi.readBuffer
        /\ cgi'.httpBody = cgi.httpBody /\ cgi'.eof = cgi.eof /\ cgi'.fields = cgi.fields
    BY <1>0, <2>1 DEF Message, NewMessage
  <2>3. Kept
    BY <1>0, <1>1, <1>2, <1>3, <2>1, <2>2 DEF Kept
  <2> QED BY <1>1, <1>5, <1>6, <2>3, KeptKeeps
<1>12. CASE ~cgi.eof /\ ~Overflows
  <2> DEFINE q == cgi'.readBuffer
             g == cgi'.httpBody
  <2>1. cgi' = Parsed(Received) /\ UNCHANGED <<process, killed>> /\ stdout' = <<>>
    BY <1>1, <1>12 DEF CgiReadCb
  <2>2. /\ cgi'.headersComplete = TRUE
        /\ q \in Seq(Said) /\ g \in Seq(Said)
        /\ cgi.headersComplete => q = <<>> /\ g = h \o (r \o stdout) /\ cgi'.fields = cgi.fields
        /\ ~cgi.headersComplete =>
             /\ q = Left(r \o stdout) /\ g = h
             /\ cgi'.fields = [i \in 1..HeaderLines(r \o stdout) |-> (r \o stdout)[2 * i - 1]]
        /\ Len(q) + Len(g) <= Len(r \o stdout) + Len(h)
    <3> DEFINE c == Received
    <3>0. /\ c.readBuffer = r \o stdout /\ c.httpBody = h
          /\ c.fields = cgi.fields /\ c.headersComplete = cgi.headersComplete
      BY <1>8
    <3>1. c = [f \in DOMAIN NewMessage |-> c[f]] /\ c.readBuffer \in Seq(Said) /\ c.httpBody \in Seq(Said)
      BY <1>0, <1>8, <1>9 DEF h
    <3> HIDE DEF c
    <3>2. /\ Parsed(c).headersComplete = TRUE
          /\ Parsed(c).readBuffer \in Seq(Said) /\ Parsed(c).httpBody \in Seq(Said)
          /\ c.headersComplete => /\ Parsed(c).readBuffer = <<>>
                                  /\ Parsed(c).httpBody = c.httpBody \o c.readBuffer
                                  /\ Parsed(c).fields = c.fields
          /\ ~c.headersComplete =>
               /\ Parsed(c).readBuffer = Left(c.readBuffer) /\ Parsed(c).httpBody = c.httpBody
               /\ Parsed(c).fields = [i \in 1..HeaderLines(c.readBuffer) |-> c.readBuffer[2 * i - 1]]
          /\ Len(Parsed(c).readBuffer) + Len(Parsed(c).httpBody) <= Len(c.readBuffer) + Len(c.httpBody)
      BY <3>1, ParsedMessage, ZenonT(30)
    <3>3. cgi' = Parsed(c)
      BY <2>1 DEF c
    <3> QED BY <3>0, <3>2, <3>3
  <2> HIDE DEF q, g
  <2>3. Len(q) \in Nat /\ Len(g) \in Nat
    BY <2>2
  <2>4. Held' = Len(q) + Len(g) /\ Held' <= Held /\ Held' <= MaxOutput /\ Held \in Nat
    <3>1. Held' = Len(<<>>) + Len(q) + Len(g)
      BY <2>1 DEF Held, q, g
    <3> QED BY <1>0, <1>9, <1>10, <1>12, <2>2, <2>3, <3>1
  <2>5. MessageBound'
    <3>1. cgi'.eof => q = <<>>
      <4> SUFFICES ASSUME cgi'.eof PROVE q = <<>>
        OBVIOUS
      <4>1. stdout = <<>>
        BY <1>3, <1>12
      <4>2. CASE cgi.headersComplete
        BY <2>2, <4>2
      <4>3. CASE ~cgi.headersComplete
        <5>1. Len(r) = 0 /\ Len(h) = 0 /\ Len(stdout) = 0
          BY <1>0, <4>1, <4>3 DEF r, h
        <5>2. Len(q) = 0
          BY <1>9, <2>2, <2>3, <5>1
        <5> QED BY <2>2, <5>2
      <4> QED BY <4>2, <4>3
    <3>2. Len(stdout') <= PipeSize
      BY <1>0, <2>1
    <3>3. Len(q) + Len(g) <= MaxOutput /\ Said' = Said
      BY <1>2, <2>4
    <3> QED BY <1>0, <1>1, <1>3, <1>4, <2>1, <2>2, <3>1, <3>2, <3>3 DEF MessageBound, q, g
  <2>6. Counted'
    <3>1. Held' <= Len(Written')
      BY <1>2, <1>7, <2>3, <2>4 DEF Counted
    <3>2. ASSUME Len(Written) <= Held + IF cgi.headersComplete THEN PipeSize ELSE 0
          PROVE  Len(Written') <= Held' + PipeSize
      <4>1. CASE cgi.headersComplete
        <5>1. q = <<>> /\ g = h \o (r \o stdout) /\ Len(q) = 0
          BY <2>2, <4>1
        <5>2. Len(g) = Len(h) + Len(r \o stdout)
          BY <1>0, <1>9, <5>1, ConcatProperties DEF h
        <5>3. Held' = Held
          BY <1>9, <2>3, <2>4, <5>1, <5>2
        <5> QED BY <1>2, <3>2, <4>1, <5>3
      <4>2. CASE ~cgi.headersComplete
        <5>1. Len(r) = 0 /\ Len(h) = 0
          BY <1>0, <4>2 DEF r, h
        <5>2. Len(stdout) <= PipeSize
          BY DEF MessageBound
        <5> QED BY <1>0, <1>2, <1>7, <1>9, <2>3, <2>4, <3>2, <4>2, <5>1, <5>2
      <4> QED BY <4>1, <4>2
    <3> QED BY <1>2, <2>1, <2>2, <3>1, <3>2 DEF Counted
  <2>7. Split'
    <3> SUFFICES ASSUME Len(Output) <= MaxOutput
                 PROVE  /\ ~killed
                        /\ HeaderAtOnce => /\ cgi'.fields = FieldsOf /\ HeaderSize <= Len(Written)
                                           /\ (g \o q) \o <<>> = SubSeq(Output, HeaderSize + 1, Len(Written))
      BY <1>1, <1>2, <2>1, <2>2 DEF Split, q, g
    <3>1. ~killed
      BY <1>1 DEF Split
    <3>2. ASSUME HeaderAtOnce
          PROVE  /\ cgi'.fields = FieldsOf /\ HeaderSize <= Len(Written)
                 /\ g \o q = SubSeq(Output, HeaderSize + 1, Len(Written))
      <4>1. CASE cgi.headersComplete
        <5>1. /\ cgi.fields = FieldsOf /\ HeaderSize <= Len(Written)
              /\ (h \o r) \o stdout = SubSeq(Output, HeaderSize + 1, Len(Written))
          BY <1>1, <3>2, <4>1 DEF Split, r, h
        <5>2. r \in Seq(Said) /\ h \in Seq(Said) /\ stdout \in Seq(Said)
          BY <1>0 DEF r, h
        <5>3. (h \o r) \o stdout = h \o (r \o stdout)
          BY SMTT(40), <5>2
        <5>4. g \o <<>> = g
          BY <2>2, ConcatEmptySeq
        <5> QED BY <2>2, <4>1, <5>1, <5>3, <5>4
      <4>2. CASE ~cgi.headersComplete
        <5>1. r = <<>> /\ h = <<>> /\ Written = stdout
          BY <1>0, <1>1, <4>2 DEF Split, r, h
        <5>2. r \o stdout = Written
          BY <1>0, <5>1, ConcatEmptySeq
        <5>3. Written # <<>> \/ Written = Output
          <6>1. ASSUME stdout = <<>> PROVE Written = Output
            <7>1. ~outOpen
              BY <6>1, EndSeen
            <7> QED BY <1>0, <3>1, <7>1, AllWritten
          <6> QED BY <5>1, <6>1
        <5>4. /\ [i \in 1..HeaderLines(Written) |-> Written[2 * i - 1]] = FieldsOf
              /\ HeaderSize <= Len(Written)
              /\ Left(Written) = SubSeq(Output, HeaderSize + 1, Len(Written))
          BY <1>0, <3>2, <5>3, FirstRead
        <5>5. g \o q = q
          BY <2>2, <4>2, <5>1, ConcatEmptySeq
        <5> QED BY <2>2, <4>2, <5>2, <5>4, <5>5
      <4> QED BY <4>1, <4>2
    <3>3. (g \o q) \o <<>> = g \o q
      <4>1. g \o q \in Seq(Said)
        BY <2>2, ConcatProperties
      <4> QED BY <4>1, ConcatEmptySeq
    <3> QED BY <3>1, <3>2, <3>3
  <2> QED BY <1>5, <1>6, <2>5, <2>6, <2>7
<1>13. CASE ~cgi.eof /\ Overflows
  <2>1. Kill /\ stdout' = <<>>
    BY <1>1, <1>13 DEF CgiReadCb
  <2>2. Len(Output) > MaxOutput /\ (stdout = <<>> => cgi.headersComplete)
    <3>1. Len(Output) > MaxOutput
      BY <1>0, <1>7, <1>9, <1>10, <1>13 DEF Counted
    <3>2. ASSUME stdout = <<>>, ~cgi.headersComplete PROVE FALSE
      <4>1. Len(r) = 0 /\ Len(h) = 0 /\ Len(stdout) = 0
        BY <1>0, <3>2 DEF r, h
      <4> QED BY <1>0, <1>9, <1>10, <1>13, <4>1
    <3> QED BY <3>1, <3>2
  <2>3. /\ cgi'.readBuffer = <<>> /\ cgi'.httpBody = <<>> /\ cgi'.headersComplete \in BOOLEAN
        /\ stdout = <<>> => cgi'.headersComplete
        /\ killed' \/ process' \notin {"none", "running"}
    <3>1. process # "none"
      BY <1>1 DEF EndIsLast
    <3>2. CASE ~cgi.running
      <4>1. cgi' = Emptied /\ UNCHANGED process
        BY <2>1, <3>2 DEF Kill
      <4> QED BY <1>0, <1>8, <2>2, <3>2, <4>1
    <3>3. CASE cgi.running
      <4> DEFINE k == [Emptied EXCEPT !.tooLarge = TRUE, !.running = Running]
      <4>1. cgi' = Parsed(k) /\ killed' = (killed \/ process = "running") /\ StatusUpdated
        BY <2>1, <3>3 DEF Kill
      <4>2. k = [f \in DOMAIN NewMessage |-> k[f]] /\ k.readBuffer = <<>> /\ k.httpBody = <<>>
        BY <1>8 DEF NewMessage
      <4> HIDE DEF k
      <4>3. k.readBuffer \in Seq(Said) /\ k.httpBody \in Seq(Said)
        <5>1. <<>> \in Seq(Said)
          OBVIOUS
        <5> QED BY <4>2, <5>1
      <4>4. /\ cgi'.headersComplete = TRUE /\ cgi'.readBuffer \in Seq(Said) /\ cgi'.httpBody \in Seq(Said)
            /\ Len(cgi'.readBuffer) + Len(cgi'.httpBody) <= Len(k.readBuffer) + Len(k.httpBody)
        BY <4>1, <4>2, <4>3, ParsedMessage
      <4>5. cgi'.readBuffer = <<>> /\ cgi'.httpBody = <<>>
        <5> DEFINE q == cgi'.readBuffer
                   g == cgi'.httpBody
        <5>1. Len(q) + Len(g) <= 0 /\ q \in Seq(Said) /\ g \in Seq(Said)
          <6>1. Len(<<>>) = 0 /\ Len(<<>>) + Len(<<>>) = 0
            OBVIOUS
          <6> QED BY <4>2, <4>4, <6>1
        <5> HIDE DEF q, g
        <5>2. Len(q) = 0 /\ Len(g) = 0
          BY <5>1
        <5>3. q = <<>> /\ g = <<>>
          BY <5>1, <5>2, EmptySeq
        <5> QED BY <5>3 DEF q, g
      <4>6. killed' \/ process' \notin {"none", "running"}
        BY <3>1, <4>1 DEF StatusUpdated
      <4> QED BY <4>4, <4>5, <4>6
    <3> QED BY <3>2, <3>3
  <2>4. Held' = 0
    BY <2>1, <2>3 DEF Held
  <2>5. MessageBound'
    <3>1. <<>> \in Seq(Said) /\ Len(<<>>) = 0
      OBVIOUS
    <3>2. cgi'.eof => cgi'.headersComplete
      BY <1>3, <1>13, <2>3
    <3> QED BY <1>0, <1>1, <1>2, <1>3, <1>4, <2>1, <2>3, <3>1, <3>2 DEF MessageBound
  <2>6. Counted'
    BY <1>2, <1>7, <2>3, <2>4, WrittenBound DEF Counted
  <2>7. Split'
    BY <1>0, <1>2, <1>7, <2>2 DEF Split
  <2> QED BY <1>5, <1>6, <2>5, <2>6, <2>7
<1> QED BY <1>11, <1>12, <1>13 DEF CgiReadCb

LEMMA WholeStep ==
  ASSUME WholeIInv, [Next]_vars
  PROVE  WholeIInv'
<1>1. InputIInv' /\ OutputIInv'
  BY InputStep, OutputStep DEF WholeIInv
<1>2. EndIsLast' /\ MessageBound' /\ Counted' /\ Split' /\ TooLargeRefused' /\ AnswerWhole'
  <2>1. CASE ReadsInput \/ ClosesOutput \/ Exits \/ Dies \/ BecomesZombie \/ TimePasses \/ Start
               \/ (\E peer : Poll(peer)) \/ Skip \/ CgiWriteCb \/ UNCHANGED vars
    BY <2>1, OtherWhole
  <2>2. CASE WritesOutput
    BY <2>2, WriteWhole
  <2>3. CASE ReadFromCgi
    BY <2>3, AnswerWholly
  <2>4. CASE \E e \in {"in", "hangup"} : CgiReadCb(e)
    BY <2>4, ReadWhole
  <2> QED BY <2>1, <2>2, <2>3, <2>4 DEF Next, Process, Server
<1> QED BY <1>1, <1>2, FailureStep DEF WholeIInv

LEMMA WholeInit ==
  ASSUME Init
  PROVE  WholeIInv
<1> USE DEF Init
<1>1. InputIInv /\ OutputIInv
  BY ScriptAssumption DEF InputIInv, InputInOrder, Message, NewMessage, Bytes,
                          OutputIInv, EndIsReal, EventsHold, MessageTrue
<1>2. Spoken(program)[0] = <<>> /\ Len(program.steps) \in Nat
  BY SpokenSteps
<1>3. Written = <<>>
  BY <1>2 DEF Written
<1>4. EndIsLast
  BY <1>2 DEF EndIsLast
<1>5. MessageBound
  <2>1. <<>> \in Seq(Said) /\ Len(<<>>) = 0 /\ Len(<<>>) + Len(<<>>) = 0
    OBVIOUS
  <2>2. /\ NewMessage.headersComplete = FALSE /\ NewMessage.readBuffer = <<>> /\ NewMessage.httpBody = <<>>
        /\ NewMessage.eof = FALSE /\ NewMessage.running = TRUE
    BY DEF NewMessage
  <2>3. 0 <= PipeSize /\ 0 <= MaxOutput
    BY ScriptAssumption
  <2>4. /\ cgi.headersComplete = FALSE /\ cgi.readBuffer = <<>> /\ cgi.httpBody = <<>>
        /\ cgi.eof = FALSE /\ cgi.running = TRUE
    BY <2>2
  <2>5. /\ Len(cgi.readBuffer) + Len(cgi.httpBody) <= MaxOutput /\ Len(stdout) <= PipeSize
        /\ cgi.readBuffer \in Seq(Said) /\ cgi.httpBody \in Seq(Said)
    BY <2>1, <2>3, <2>4
  <2> QED BY <2>4, <2>5 DEF MessageBound
<1>6. Counted
  <2>1. Held = 0
    BY DEF Held, NewMessage
  <2> QED BY <1>3, <2>1 DEF Counted, NewMessage
<1>7. Split /\ TooLargeRefused /\ AnswerWhole /\ FailureReported
  BY <1>3 DEF Split, NewMessage, TooLargeRefused, AnswerWhole, FailureReported, IsAnswered
<1>8. FailureKnown
  <2>1. <<>> \in Seq(Said)
    OBVIOUS
  <2> QED BY <2>1 DEF FailureKnown, NewMessage
<1> QED BY <1>1, <1>4, <1>5, <1>6, <1>7, <1>8 DEF WholeIInv
-----------------------------------------------------------------------------
(***************************************************************************)
(* The theorems.                                                           *)
(***************************************************************************)
\* What a script reads is the body of its request, every byte once and in
\* order, however the pipe cut it (_cgiWriteCb and _writeCounter).
THEOREM BodyInOrder == Spec => []InputInOrder
<1>1. Init => InputIInv
  BY ScriptAssumption DEF Init, InputIInv, InputInOrder, Message, NewMessage, Bytes
<1>2. InputIInv /\ [Next]_vars => InputIInv'
  BY InputStep
<1>3. InputIInv => InputInOrder
  BY DEF InputIInv
<1> QED BY <1>1, <1>2, <1>3, PTL DEF Spec

\* A script that fails is answered with an error of the server or with a code of
\* its own, unless it closed its output itself, when the exit of a process is
\* prompt (_readFromCgi, isBodyComplete).
THEOREM FailureNeverHidden == Spec => []FailureReported
<1>1. Init => WholeIInv
  BY WholeInit
<1>2. WholeIInv /\ [Next]_vars => WholeIInv'
  BY WholeStep
<1>3. WholeIInv => FailureReported
  BY DEF WholeIInv
<1> QED BY <1>1, <1>2, <1>3, PTL DEF Spec

\* An answer 200 to a script's request is whole: the header that the script wrote
\* and its whole text, in order, however the pipe cut it and however the exit,
\* the callbacks and the poll came after each other (_cgiReadCb, _readFromCgi);
\* a script that fails and says 200 itself gets its header and no text.
THEOREM OutputAnsweredWhole == Spec => []AnswerWhole
<1>1. Init => WholeIInv
  BY WholeInit
<1>2. WholeIInv /\ [Next]_vars => WholeIInv'
  BY WholeStep
<1>3. WholeIInv => AnswerWhole
  BY DEF WholeIInv
<1> QED BY <1>1, <1>2, <1>3, PTL DEF Spec

\* An answer that says 200 never has an output behind it that is longer than the
\* limit and two pipes (CGI_MAX_BODY_SIZE, kill), when the exit is prompt.
THEOREM LimitKept == Spec => []TooLargeRefused
<1>1. Init => WholeIInv
  BY WholeInit
<1>2. WholeIInv /\ [Next]_vars => WholeIInv'
  BY WholeStep
<1>3. WholeIInv => TooLargeRefused
  BY DEF WholeIInv
<1> QED BY <1>1, <1>2, <1>3, PTL DEF Spec

\* The variables keep their types; with them the bounds of the pipes and of
\* what a message holds, and that _running tells a reaped process.
THEOREM Typing == Spec => []TypeOK
<1>1. Init => WholeIInv
  BY WholeInit
<1>2. WholeIInv /\ [Next]_vars => WholeIInv'
  BY WholeStep
<1>3. WholeIInv => TypeOK
  BY DEF WholeIInv, InputIInv, OutputIInv, EndIsReal, EventsHold, MessageTrue, EndIsLast,
         MessageBound, TypeOK
<1> QED BY <1>1, <1>2, <1>3, PTL DEF Spec
=============================================================================
