--------------------------- MODULE ExchangeProofs ---------------------------
(***************************************************************************)
(* Every step of Connection is a step of HttpExchange, or leaves it as it  *)
(* is: what the peer sees of a connection is a sequence of questions and   *)
(* right answers.  This needs a peer and a server that the code serves     *)
(* well (KeepsPromise); README.md says which run shows what else happens.  *)
(***************************************************************************)
EXTENDS ConnectionProofs

\* The tokens of the right answer to r.
FixedMessage(a) ==
  <<[t |-> "head", code |-> a.code, framing |-> "fixed", n |-> Len(a.body)]>> \o a.body

ChunkHead == [t |-> "head", code |-> 200, framing |-> "chunked", n |-> 0]

Chunked(r) == r.kind = "get" /\ disk.doc.open = "ok" /\ disk.doc.len > BufferSize

Message(r) ==
  CASE r.kind = "head" -> <<ChunkHead>>
    [] Chunked(r) -> <<ChunkHead>> \o Body("doc", disk.doc.len) \o <<LastChunk>>
    [] OTHER -> FixedMessage(RightAnswer(r))
-----------------------------------------------------------------------------
(***************************************************************************)
(* The phases of an exchange.  Between answers the client is as it was     *)
(* made.  A request travels, is read in two parts and is worked on: its    *)
(* file or script is read, and what was written so far with what is in the *)
(* write buffer is the front of the right message, or all of it.           *)
(***************************************************************************)
Current == peer.asked[Len(peer.answers) + 1]

Clear(c) ==
  /\ c.wbuf = <<>> /\ c.req = NoRequest /\ c.resp = EmptyResponse
  /\ c.file = NoFile /\ c.cgi = NoScript
  /\ c.state # "ERROR"

\* The handler of the document: at its end its buffer is not full.
DocFile(h) ==
  /\ h # NoFile /\ h.src = "doc" /\ h.len = disk.doc.len
  /\ (h.bad <=> disk.doc.open = "denied") /\ (h.denied <=> disk.doc.open = "denied")
  /\ h.fd => ~h.bad
  /\ h.eof => h.buf < BufferSize

\* How much of the document has been taken from the handler.
Off(h) == h.pos - h.buf

\* A script and what was read of its output: no process that was not killed
\* is reported as killed, and one that ended has written all its output.
ScriptOf(g) ==
  /\ g.open = g.alive /\ (g.reaped => ~g.alive)
  /\ g.made <= disk.script.out /\ g.got <= MaxScriptBody
  /\ (g.complete => g.eof) /\ (g.eof => ~g.alive /\ g.pipe = 0)
  /\ g.doomed = g.tooLarge
  /\ g.tooLarge => disk.script.out > MaxScriptBody /\ g.pipe = 0 /\ g.got = 0
  /\ ~g.tooLarge => g.got + g.pipe = g.made
  /\ ~g.alive /\ g.doomed => g.status = KilledStatus
  /\ ~g.alive /\ ~g.doomed =>
       g.made = disk.script.out /\ ~disk.script.hangs /\ g.status = disk.script.status
  /\ g.late => g.alive /\ ~g.doomed /\ g.pipe = 0 /\ g.made = disk.script.out /\ disk.script.hangs

Reading(c, r) ==
  /\ r.kind \in {"get", "head"}
  /\ c.req = r /\ c.resp = EmptyResponse /\ c.wbuf = <<>> /\ c.cgi = NoScript
  /\ DocFile(c.file) /\ Off(c.file) = 0

Scripting(c, r) ==
  /\ r.kind = "script" /\ disk.script.exec
  /\ c.req = r /\ c.resp = EmptyResponse /\ c.wbuf = <<>> /\ c.file = NoFile
  /\ c.cgi # NoScript /\ ScriptOf(c.cgi)

\* u: the tokens that the peer has received.
Chunking(c, r, u) ==
  /\ Chunked(r)
  /\ c.req = r /\ c.cgi = NoScript
  /\ c.resp.code = 200 /\ c.resp.chunked /\ ~c.resp.complete
  /\ DocFile(c.file)
  /\ \E m \in 1..Off(c.file) : Off(c.file) = m * BufferSize
  /\ u \o c.wbuf = <<ChunkHead>> \o Body("doc", Off(c.file))

Finishing(c, r, u) ==
  /\ c.req \in {r, NoRequest} /\ c.file = NoFile /\ c.cgi = NoScript
  /\ c.resp.complete
  /\ c.wbuf # <<>>
  /\ u \o c.wbuf = Message(r)

Working(c, r, u) ==
  \/ u = <<>> /\ (Reading(c, r) \/ Scripting(c, r))
  \/ Chunking(c, r, u)
  \/ Finishing(c, r, u)

\* Nothing of a request is on its way.
NoInput == ~peer.half /\ inq = <<>>

AtRest == sock.valid => Clear(client) /\ client.rbuf = <<>>

QuietPhase ==
  /\ Len(peer.asked) = Len(peer.answers)
  /\ peer.unread = <<>> /\ NoInput /\ AtRest

Pending(r) ==
  IF peer.half THEN <<[req |-> r, part |-> 1]>>
               ELSE <<[req |-> r, part |-> 1], [req |-> r, part |-> 2]>>

SentPhase ==
  /\ peer.unread = <<>> /\ sock.valid /\ ~idle /\ Clear(client)
  /\ client.rbuf \o inq = Pending(Current)
  /\ Len(client.rbuf) <= 1

WorkPhase ==
  /\ sock.valid /\ ~idle /\ NoInput /\ client.rbuf = <<>>
  /\ Working(client, Current, peer.unread)

DonePhase == peer.unread = Message(Current) /\ NoInput /\ AtRest

\* One request waits, and it is not one that Ask avoids.
OneWaits ==
  /\ Len(peer.asked) = Len(peer.answers) + 1
  /\ Current.kind = "head" => disk.doc.len \notin Avoided

Phases ==
  \/ QuietPhase
  \/ OneWaits /\ (SentPhase \/ WorkPhase \/ DonePhase)

\* The events that are due have a cause.
Caused ==
  /\ ~sock.eof
  /\ "in" \in todo => inq # <<>>
  /\ ScriptEvent =>
       /\ "data" \in todo => client.cgi.pipe > 0
       /\ "hangup" \in todo => ~client.cgi.open

ExchangeInv ==
  /\ IInv
  /\ ~peer.left => Caused /\ Phases
-----------------------------------------------------------------------------
(***************************************************************************)
(* Sequences of tokens.                                                    *)
(***************************************************************************)
LEMMA BodyType ==
  ASSUME NEW src \in Sources, NEW n \in Nat
  PROVE  /\ Body(src, n) \in Seq(Units) /\ Body(src, n) \in Seq(Tokens)
         /\ Len(Body(src, n)) = n /\ DOMAIN Body(src, n) = 1..n
         /\ \A i \in 1..n : Body(src, n)[i] = Unit(src, i) /\ Body(src, n)[i] \in Units
<1>1. \A i \in 1..n : Unit(src, i) \in Units
  BY TokenTypes
<1>2. Body(src, n) \in Seq(Units) /\ Len(Body(src, n)) = n
  BY <1>1 DEF Body
<1>3. Body(src, n) \in Seq(Tokens)
  BY <1>2, UnitsAreTokens
<1> QED BY <1>1, <1>2, <1>3 DEF Body

LEMMA OneUnit ==
  ASSUME NEW src \in Sources
  PROVE  <<Unit(src, 1)>> = Body(src, 1)
BY DEF Body

\* Nothing appended, and the elements of what is appended.
LEMMA Appended ==
  ASSUME NEW s \in Seq(Tokens), NEW t \in Seq(Tokens)
  PROVE  /\ s \o t \in Seq(Tokens)
         /\ Len(s) \in Nat /\ Len(t) \in Nat /\ Len(s \o t) = Len(s) + Len(t)
         /\ DOMAIN s = 1..Len(s) /\ DOMAIN t = 1..Len(t) /\ DOMAIN (s \o t) = 1..(Len(s) + Len(t))
         /\ \A i \in 1..Len(s) : (s \o t)[i] = s[i]
         /\ \A i \in 1..Len(t) : (s \o t)[Len(s) + i] = t[i]
BY ConcatProperties, LenProperties

\* Sequences are equal if their lengths and elements are.
LEMMA SameSequence ==
  ASSUME NEW s \in Seq(Tokens), NEW t \in Seq(Tokens), Len(s) = Len(t),
         \A i \in 1..Len(s) : s[i] = t[i]
  PROVE  s = t
BY SeqEqual

LEMMA Associative ==
  ASSUME NEW a \in Seq(Tokens), NEW b \in Seq(Tokens), NEW c \in Seq(Tokens)
  PROVE  (a \o b) \o c = a \o (b \o c)
BY ConcatAssociative

\* A write moves the front of the buffer behind what the peer has.
LEMMA Moved ==
  ASSUME NEW u \in Seq(Tokens), NEW s \in Seq(Tokens), NEW n \in 1..Len(s)
  PROVE  /\ (u \o SubSeq(s, 1, n)) \o SubSeq(s, n + 1, Len(s)) = u \o s
         /\ SubSeq(s, 1, n) \in Seq(Tokens) /\ SubSeq(s, n + 1, Len(s)) \in Seq(Tokens)
<1>1. SubSeq(s, 1, n) \in Seq(Tokens) /\ SubSeq(s, n + 1, Len(s)) \in Seq(Tokens)
      /\ n \in Nat /\ n + 1 \in Nat /\ Len(s) \in Nat
  BY LenProperties, SubSeqProperties
<1>2. SubSeq(s, 1, n) \o SubSeq(s, n + 1, Len(s)) = s
  <2>1. 1 \in 1..Len(s) + 1 /\ n \in (1 - 1)..Len(s) /\ Len(s) \in n..Len(s)
    BY <1>1
  <2>2. SubSeq(s, 1, n) \o SubSeq(s, n + 1, Len(s)) = SubSeq(s, 1, Len(s))
    BY <2>1, ConcatAdjacentSubSeq
  <2> QED BY <2>2, SubSeqFull
<1> DEFINE x == SubSeq(s, 1, n)
           y == SubSeq(s, n + 1, Len(s))
<1> HIDE DEF x, y
<1>3. (u \o x) \o y = u \o (x \o y)
  <2>1. x \in Seq(Tokens) /\ y \in Seq(Tokens)
    BY <1>1 DEF x, y
  <2> QED BY <2>1, Associative
<1> QED BY <1>1, <1>2, <1>3 DEF x, y

\* What is read next continues the document.
LEMMA ReadNext ==
  ASSUME NEW h, GoodHandler(h), h.src = "doc"
  PROVE  /\ Off(h) \in Nat /\ Off(h) + h.buf = h.pos
         /\ ReadUnits(h) \in Seq(Units) /\ Len(ReadUnits(h)) = h.buf
         /\ Body("doc", Off(h)) \o ReadUnits(h) = Body("doc", h.pos)
         /\ Off(AfterRead(h)) = h.pos
<1>1. h.pos \in Nat /\ h.buf \in Nat /\ h.buf <= h.pos /\ Taken(h) = h.buf /\ "doc" \in Sources
  BY BufferSizeAssumption DEF Taken, GoodHandler, Handlers, Sources
<1>2. Off(h) \in Nat /\ Off(h) + h.buf = h.pos
  BY <1>1 DEF Off
<1>3. ReadUnits(h) \in Seq(Units)
  BY ReadGood
<1>4. Len(ReadUnits(h)) = h.buf /\ \A i \in 1..h.buf : ReadUnits(h)[i] = Unit("doc", Off(h) + i)
  BY <1>1 DEF ReadUnits, Off
<1>5. Off(AfterRead(h)) = h.pos
  BY <1>1 DEF Off, AfterRead, GoodHandler, Handlers
<1>6. Body("doc", Off(h)) \o ReadUnits(h) = Body("doc", h.pos)
  <2> DEFINE b == Body("doc", Off(h))
             t == ReadUnits(h)
             p == Body("doc", h.pos)
  <2>1. b \in Seq(Tokens) /\ t \in Seq(Tokens) /\ p \in Seq(Tokens) /\ Len(b) = Off(h) /\ Len(p) = h.pos
        /\ Len(t) = h.buf
    BY <1>1, <1>2, <1>3, <1>4, BodyType, UnitsAreTokens
  <2>2. /\ \A i \in 1..Off(h) : b[i] = Unit("doc", i)
        /\ \A i \in 1..h.pos : p[i] = Unit("doc", i)
        /\ \A i \in 1..h.buf : t[i] = Unit("doc", Off(h) + i)
    BY <1>1, <1>2, <1>4, BodyType
  <2> HIDE DEF b, t, p
  <2>3. b \o t \in Seq(Tokens) /\ Len(b \o t) = h.pos
        /\ (\A i \in 1..Off(h) : (b \o t)[i] = b[i])
        /\ (\A i \in 1..h.buf : (b \o t)[Off(h) + i] = t[i])
    <3>1. /\ b \o t \in Seq(Tokens) /\ Len(b \o t) = Len(b) + Len(t)
          /\ \A i \in 1..Len(b) : (b \o t)[i] = b[i]
          /\ \A i \in 1..Len(t) : (b \o t)[Len(b) + i] = t[i]
      BY <2>1, Appended
    <3> QED BY <1>2, <2>1, <3>1
  <2>4. \A i \in 1..h.pos : (b \o t)[i] = p[i]
    <3> TAKE i \in 1..h.pos
    <3>1. CASE i <= Off(h)
      BY <1>2, <2>2, <2>3, <3>1
    <3>2. CASE ~(i <= Off(h))
      <4>1. i - Off(h) \in 1..h.buf /\ Off(h) + (i - Off(h)) = i
        BY <1>1, <1>2, <3>2
      <4> QED BY SMTT(40), <2>2, <2>3, <4>1
    <3> QED BY <3>1, <3>2
  <2> QED BY <2>1, <2>3, <2>4, SameSequence DEF b, t, p
<1> QED BY <1>2, <1>3, <1>4, <1>5, <1>6
-----------------------------------------------------------------------------
(***************************************************************************)
(* The right answers, and the messages that carry them.                    *)
(***************************************************************************)
\* The right answers, by kind of request.
LEMMA RightAnswers ==
  ASSUME NEW r \in Requests, disk \in Disks, KeepsPromise
  PROVE  /\ r.kind = "bad" => RightAnswer(r) = ErrorAnswer(400)
         /\ r.kind = "missing" => RightAnswer(r) = ErrorAnswer(404)
         /\ r.kind = "put" => RightAnswer(r) = ErrorAnswer(999)
         /\ r.kind = "list" => RightAnswer(r) = IF disk.listing
                                 THEN [code |-> 200, body |-> Body("listing", 1)] ELSE ErrorAnswer(500)
         /\ r.kind = "delete" => RightAnswer(r) = IF disk.removable
                                   THEN [code |-> 200, body |-> Body("notice", 1)] ELSE ErrorAnswer(500)
         /\ r.kind \in {"get", "head"} /\ disk.doc.open = "denied" => RightAnswer(r) = ErrorAnswer(403)
         /\ r.kind = "head" /\ disk.doc.open = "ok" => RightAnswer(r) = [code |-> 200, body |-> <<>>]
         /\ r.kind = "get" /\ disk.doc.open = "ok" =>
              RightAnswer(r) = [code |-> 200, body |-> Body("doc", disk.doc.len)]
         /\ r.kind = "script" /\ ~disk.script.exec => RightAnswer(r) = ErrorAnswer(500)
BY DEF RightAnswer, Rejected, RejectCodes

LEMMA RightScripts ==
  ASSUME NEW r \in Requests, disk \in Disks, KeepsPromise, r.kind = "script", disk.script.exec
  PROVE  /\ disk.script.out > MaxScriptBody => RightAnswer(r) = ErrorAnswer(413)
         /\ disk.script.out <= MaxScriptBody /\ disk.script.hangs => RightAnswer(r) = ErrorAnswer(408)
         /\ disk.script.out <= MaxScriptBody /\ ~disk.script.hangs /\ disk.script.status # 0 =>
              RightAnswer(r) = ErrorAnswer(500)
         /\ disk.script.out <= MaxScriptBody /\ ~disk.script.hangs /\ disk.script.status = 0 =>
              RightAnswer(r) = [code |-> 200, body |-> Body("script", disk.script.out)]
<1>1. disk.script.out \in Nat /\ disk.script.hangs \in BOOLEAN /\ MaxScriptBody \in Nat
  BY DiskTypes, MaxScriptBodyAssumption DEF Scripts
<1> QED BY <1>1 DEF RightAnswer, Rejected, RejectCodes

LEMMA Served ==
  ASSUME disk \in Disks, KeepsPromise
  PROVE  /\ disk.doc.len \in Nat /\ disk.doc.open \in {"ok", "denied"} /\ disk.page.open = "absent"
         /\ disk.doc.len \notin Avoided => disk.doc.open = "ok" /\ disk.doc.len >= BufferSize
         /\ \A m \in 1..disk.doc.len : disk.doc.len # m * BufferSize
         /\ disk.script.out > MaxScriptBody => disk.script.hangs
         /\ disk.script.out \in Nat /\ disk.script.status \in Nat
         /\ BufferSize \in Nat /\ BufferSize > 0 /\ MaxScriptBody \in Nat
<1>1. disk.doc.len \in Nat /\ disk.script.out \in Nat /\ disk.script.status \in Nat
  BY DiskTypes DEF FileStates, Scripts
<1> QED BY <1>1, BufferSizeAssumption, MaxScriptBodyAssumption DEF KeepsPromise

LEMMA ErrorType ==
  ASSUME NEW code \in Nat
  PROVE  /\ ErrorAnswer(code) = [code |-> code, body |-> Body("error", 1)]
         /\ Body("error", 1) = <<Unit("error", 1)>>
         /\ ErrorAnswer(code).code \in Nat /\ ErrorAnswer(code).body \in Seq(Units)
BY BodyType, OneUnit DEF ErrorAnswer, Sources

LEMMA RightType ==
  ASSUME NEW r \in Requests, disk \in Disks, KeepsPromise
  PROVE  \E code \in Nat, body \in Seq(Units) : RightAnswer(r) = [code |-> code, body |-> body]
<1> DEFINE Typed(a) == \E code \in Nat, body \in Seq(Units) : a = [code |-> code, body |-> body]
<1> SUFFICES Typed(RightAnswer(r))
  OBVIOUS
<1>1. \A code \in Nat : Typed(ErrorAnswer(code))
  BY ErrorType
<1>2. \A src \in Sources, n \in Nat : Typed([code |-> 200, body |-> Body(src, n)])
  BY ZenonT(60), BodyType
<1>3. Typed([code |-> 200, body |-> <<>>])
  BY ZenonT(60), EmptySeq
<1>4. r.kind \in Kinds /\ r.kind # "redirect" /\ {"listing", "notice", "doc", "script"} \subseteq Sources
  BY ConnectionAssumption DEF KeepsPromise, Sources
<1>5. disk.doc.len \in Nat /\ disk.script.out \in Nat /\ MaxScriptBody \in Nat
      /\ disk.doc.open \in {"ok", "denied"}
  BY Served
<1> HIDE DEF Typed
<1>6. CASE r.kind \in {"bad", "missing", "put"}
  BY SMTT(40), <1>1, <1>6, RightAnswers
<1>7. CASE r.kind \in {"list", "delete"}
  BY <1>1, <1>2, <1>4, <1>7, RightAnswers
<1>8. CASE r.kind \in {"get", "head"}
  BY <1>1, <1>2, <1>3, <1>4, <1>5, <1>8, RightAnswers
<1>9. CASE r.kind = "script"
  <2>1. CASE ~disk.script.exec
    BY <1>1, <1>9, <2>1, RightAnswers
  <2>2. CASE disk.script.exec
    BY <1>1, <1>2, <1>4, <1>5, <1>9, <2>2, RightScripts
  <2> QED BY <2>1, <2>2
<1> QED BY <1>4, <1>6, <1>7, <1>8, <1>9 DEF Kinds

LEMMA MessageOf ==
  ASSUME NEW r \in Requests, disk \in Disks, KeepsPromise, r.kind = "head" => disk.doc.len \notin Avoided
  PROVE  \E code \in Nat, body \in Seq(Units) :
           /\ RightAnswer(r) = [code |-> code, body |-> body]
           /\ \/ r.kind = "head" /\ Message(r) = <<ChunkHead>> /\ code = 200 /\ body = <<>>
              \/ /\ Chunked(r) /\ r.kind = "get" /\ code = 200
                 /\ Message(r) = (<<ChunkHead>> \o body) \o <<LastChunk>>
              \/ r.kind # "head" /\ Message(r) = FixedMessage([code |-> code, body |-> body])
<1>1. PICK code \in Nat, body \in Seq(Units) : RightAnswer(r) = [code |-> code, body |-> body]
  BY RightType
<1>2. CASE r.kind = "head"
  <2>1. RightAnswer(r) = [code |-> 200, body |-> <<>>]
    BY <1>2, Served, RightAnswers
  <2>2. Message(r) = <<ChunkHead>>
    BY <1>2 DEF Message, Chunked
  <2> QED BY ZenonT(60), <1>2, <2>1, <2>2, EmptySeq
<1>3. CASE Chunked(r)
  <2>1. r.kind = "get" /\ RightAnswer(r) = [code |-> 200, body |-> Body("doc", disk.doc.len)]
    BY <1>3, RightAnswers DEF Chunked
  <2>2. Message(r) = (<<ChunkHead>> \o Body("doc", disk.doc.len)) \o <<LastChunk>>
    BY <1>3, <2>1 DEF Message
  <2>3. Body("doc", disk.doc.len) \in Seq(Units)
    BY Served, BodyType DEF Sources
  <2> QED BY ZenonT(60), <1>3, <2>1, <2>2, <2>3
<1>4. CASE r.kind # "head" /\ ~Chunked(r)
  <2>1. Message(r) = FixedMessage([code |-> code, body |-> body])
    BY <1>1, <1>4 DEF Message
  <2> QED BY <1>1, <1>4, <2>1
<1> QED BY <1>2, <1>3, <1>4

LEMMA Head1 ==
  ASSUME NEW h \in Heads, NEW body \in Seq(Units)
  PROVE  LET s == <<h>> \o body IN
         /\ s \in Seq(Tokens) /\ Len(s) = Len(body) + 1 /\ Len(body) \in Nat
         /\ DOMAIN s = 1..(Len(body) + 1)
         /\ s[1] = h
         /\ \A i \in 1..Len(body) : s[1 + i] = body[i] /\ body[i] \in Units
<1>1. <<h>> \in Seq(Tokens) /\ body \in Seq(Tokens) /\ Len(<<h>>) = 1 /\ <<h>>[1] = h
  BY TokenTypes, UnitsAreTokens
<1> DEFINE a == <<h>>
<1> HIDE DEF a
<1>2. /\ a \o body \in Seq(Tokens)
      /\ Len(a) \in Nat /\ Len(body) \in Nat /\ Len(a \o body) = Len(a) + Len(body)
      /\ DOMAIN (a \o body) = 1..(Len(a) + Len(body))
      /\ \A i \in 1..Len(a) : (a \o body)[i] = a[i]
      /\ \A i \in 1..Len(body) : (a \o body)[Len(a) + i] = body[i]
  <2>1. a \in Seq(Tokens)
    BY <1>1 DEF a
  <2> QED BY <1>1, <2>1, Appended
<1>3. \A i \in 1..Len(body) : body[i] \in Units
  BY ElementOfSeq
<1>4. Len(a) = 1 /\ a[1] = h
  BY <1>1 DEF a
<1>5. \A i \in 1..Len(body) : (a \o body)[1 + i] = body[i]
  BY <1>2, <1>4
<1> QED BY <1>2, <1>3, <1>4, <1>5 DEF a

LEMMA Ended ==
  ASSUME NEW s \in Seq(Tokens)
  PROVE  LET e == s \o <<LastChunk>> IN
         /\ e \in Seq(Tokens) /\ Len(e) = Len(s) + 1 /\ Len(s) \in Nat /\ DOMAIN e = 1..(Len(s) + 1)
         /\ e[Len(s) + 1] = LastChunk
         /\ \A i \in 1..Len(s) : e[i] = s[i]
<1> DEFINE a == <<LastChunk>>
<1>1. a \in Seq(Tokens) /\ Len(a) = 1 /\ a[1] = LastChunk
  BY TokenTypes
<1> HIDE DEF a
<1>2. /\ s \o a \in Seq(Tokens)
      /\ Len(s) \in Nat /\ Len(a) \in Nat /\ Len(s \o a) = Len(s) + Len(a)
      /\ DOMAIN (s \o a) = 1..(Len(s) + Len(a))
      /\ \A i \in 1..Len(s) : (s \o a)[i] = s[i]
      /\ \A i \in 1..Len(a) : (s \o a)[Len(s) + i] = a[i]
  BY <1>1, Appended
<1> QED BY <1>1, <1>2 DEF a

\* The tokens of a message.
LEMMA FixedTokens ==
  ASSUME NEW code \in Nat, NEW body \in Seq(Units)
  PROVE  LET s == FixedMessage([code |-> code, body |-> body]) IN
         /\ s \in Seq(Tokens) /\ Len(body) \in Nat /\ Len(s) = Len(body) + 1 /\ DOMAIN s = 1..(Len(body) + 1)
         /\ s[1].t = "head" /\ s[1].framing = "fixed" /\ s[1].n = Len(body) /\ s[1].code = code
         /\ \A i \in 1..Len(body) : s[1 + i] = body[i] /\ body[i] \in Units
<1> DEFINE h == [t |-> "head", code |-> code, framing |-> "fixed", n |-> Len(body)]
<1>1. h \in Heads
  BY LenProperties DEF Heads, Codes
<1>2. h.t = "head" /\ h.framing = "fixed" /\ h.n = Len(body) /\ h.code = code
  OBVIOUS
<1>3. FixedMessage([code |-> code, body |-> body]) = <<h>> \o body
  BY DEF FixedMessage
<1> HIDE DEF h
<1>4. LET s == <<h>> \o body IN
         /\ s \in Seq(Tokens) /\ Len(s) = Len(body) + 1 /\ Len(body) \in Nat
         /\ DOMAIN s = 1..(Len(body) + 1)
         /\ s[1] = h
         /\ \A i \in 1..Len(body) : s[1 + i] = body[i] /\ body[i] \in Units
  BY <1>1, Head1
<1> QED BY <1>2, <1>3, <1>4

LEMMA ChunkHeadType == ChunkHead \in Heads /\ ChunkHead # LastChunk
BY DEF ChunkHead, Heads, Codes, LastChunk

LEMMA ChunkedTokens ==
  ASSUME NEW body \in Seq(Units)
  PROVE  LET s == (<<ChunkHead>> \o body) \o <<LastChunk>> IN
         /\ s \in Seq(Tokens) /\ Len(body) \in Nat /\ Len(s) = Len(body) + 2 /\ DOMAIN s = 1..(Len(body) + 2)
         /\ s[1] = ChunkHead /\ s[Len(body) + 2] = LastChunk
         /\ \A i \in 1..Len(body) : s[1 + i] = body[i] /\ body[i] \in Units
<1> DEFINE a == <<ChunkHead>> \o body
           s == a \o <<LastChunk>>
<1>1. /\ a \in Seq(Tokens) /\ Len(a) = Len(body) + 1 /\ Len(body) \in Nat
      /\ DOMAIN a = 1..(Len(body) + 1)
      /\ a[1] = ChunkHead
      /\ \A i \in 1..Len(body) : a[1 + i] = body[i] /\ body[i] \in Units
  BY Head1, ChunkHeadType
<1> HIDE DEF a
<1>2. /\ s \in Seq(Tokens) /\ Len(s) = Len(a) + 1 /\ DOMAIN s = 1..(Len(a) + 1)
      /\ s[Len(a) + 1] = LastChunk
      /\ \A i \in 1..Len(a) : s[i] = a[i]
  BY <1>1, Ended
<1> HIDE DEF s
<1>3. Len(s) = Len(body) + 2 /\ DOMAIN s = 1..(Len(body) + 2) /\ s[Len(body) + 2] = LastChunk
      /\ s[1] = ChunkHead
  BY <1>1, <1>2
<1>4. \A i \in 1..Len(body) : s[1 + i] = body[i] /\ body[i] \in Units
  BY <1>1, <1>2
<1> QED BY <1>1, <1>2, <1>3, <1>4 DEF s, a

LEMMA UnitsAreNotLast ==
  ASSUME NEW x \in Units PROVE x # LastChunk /\ x.t = "unit"
BY DEF Units, LastChunk

\* No message ends before its last token.
LEMMA PartEnds ==
  ASSUME NEW r \in Requests, disk \in Disks, KeepsPromise, r.kind = "head" => disk.doc.len \notin Avoided,
         NEW u \in Seq(Tokens), NEW w \in Seq(Tokens), u # <<>>, w # <<>>, u \o w = Message(r)
  PROVE  Ends(u, r) = {}
<1>1. Len(u) \in Nat /\ Len(w) \in Nat /\ Len(u) > 0 /\ Len(w) > 0
      /\ Len(u \o w) = Len(u) + Len(w) /\ DOMAIN u = 1..Len(u)
      /\ \A i \in 1..Len(u) : (u \o w)[i] = u[i]
  BY Appended, EmptySeq
<1>2. PICK code \in Nat, body \in Seq(Units) :
           /\ RightAnswer(r) = [code |-> code, body |-> body]
           /\ \/ r.kind = "head" /\ Message(r) = <<ChunkHead>> /\ code = 200 /\ body = <<>>
              \/ /\ Chunked(r) /\ r.kind = "get" /\ code = 200
                 /\ Message(r) = (<<ChunkHead>> \o body) \o <<LastChunk>>
              \/ r.kind # "head" /\ Message(r) = FixedMessage([code |-> code, body |-> body])
  BY MessageOf
<1> DEFINE s == u \o w
<1> HIDE DEF s
<1>3. s = Message(r) /\ Len(s) = Len(u) + Len(w) /\ \A i \in 1..Len(u) : s[i] = u[i]
  BY <1>1 DEF s
<1>4. CASE r.kind = "head" /\ Message(r) = <<ChunkHead>>
  <2>1. Len(s) = 1
    BY <1>3, <1>4
  <2> QED BY <1>1, <1>3, <2>1
<1>5. CASE r.kind = "get" /\ Message(r) = (<<ChunkHead>> \o body) \o <<LastChunk>>
  <2>1. /\ Len(body) \in Nat /\ Len(s) = Len(body) + 2
        /\ s[1] = ChunkHead
        /\ \A i \in 1..Len(body) : s[1 + i] = body[i] /\ body[i] \in Units
    BY <1>3, <1>5, ChunkedTokens
  <2>2. ASSUME NEW k \in DOMAIN u PROVE u[k] # LastChunk
    <3>1. k \in 1..Len(u) /\ k \in Nat /\ k <= Len(body) + 1 /\ u[k] = s[k]
      BY <1>1, <1>3, <2>1
    <3>2. CASE k = 1
      BY <2>1, <3>1, <3>2, ChunkHeadType
    <3>3. CASE k # 1
      <4>1. k - 1 \in 1..Len(body) /\ 1 + (k - 1) = k
        BY <1>1, <2>1, <3>1, <3>3
      <4> QED BY <2>1, <3>1, <4>1, UnitsAreNotLast
    <3> QED BY <3>2, <3>3
  <2>3. u[1] = ChunkHead
    BY <1>1, <1>3, <2>1
  <2>4. u[1].t = "head" /\ u[1].framing = "chunked" /\ r.kind # "head"
    BY <1>5, <2>3 DEF ChunkHead
  <2>5. Ends(u, r) = {k \in DOMAIN u : u[k] = LastChunk}
    BY <2>4 DEF Ends
  <2> QED BY <2>2, <2>5
<1>6. CASE r.kind # "head" /\ Message(r) = FixedMessage([code |-> code, body |-> body])
  <2>1. /\ Len(body) \in Nat /\ Len(s) = Len(body) + 1
        /\ s[1].t = "head" /\ s[1].framing = "fixed" /\ s[1].n = Len(body)
    <3> DEFINE f == FixedMessage([code |-> code, body |-> body])
    <3>1. /\ Len(body) \in Nat /\ Len(f) = Len(body) + 1
          /\ f[1].t = "head" /\ f[1].framing = "fixed" /\ f[1].n = Len(body)
      BY FixedTokens
    <3>2. s = f
      BY <1>3, <1>6
    <3> HIDE DEF f
    <3> QED BY <3>1, <3>2
  <2>2. u[1] = s[1] /\ Len(body) + 1 \notin DOMAIN u
    BY <1>1, <1>3, <2>1
  <2> QED BY <1>6, <2>1, <2>2 DEF Ends
<1> QED BY <1>2, <1>4, <1>5, <1>6

LEMMA BodyOf ==
  ASSUME NEW s \in Seq(Tokens), NEW body \in Seq(Units), Len(body) + 1 <= Len(s),
         \A i \in 1..Len(body) : s[1 + i] = body[i] /\ body[i] \in Units
  PROVE  SubSeq(s, 2, Len(body) + 1) = body /\ \A i \in 2..(Len(body) + 1) : s[i].t = "unit"
<1> DEFINE n == Len(body)
           x == SubSeq(s, 2, n + 1)
<1>1. n \in Nat /\ Len(s) \in Nat /\ body \in Seq(Tokens)
  BY LenProperties, UnitsAreTokens
<1>2. x \in Seq(Tokens) /\ Len(x) = n /\ \A i \in 1..n : x[i] = s[1 + i]
  <2> HIDE DEF n
  <2>1. \A i \in 2..(n + 1) : s[i] \in Tokens
    BY <1>1, ElementOfSeq DEF n
  <2>2. /\ x \in Seq(Tokens)
        /\ Len(x) = IF 2 <= n + 1 THEN n + 1 - 2 + 1 ELSE 0
        /\ \A i \in 1..(n + 1 - 2 + 1) : x[i] = s[2 + i - 1]
    BY <1>1, <2>1, SubSeqProperties DEF n
  <2>3. \A i \in 1..n : 2 + i - 1 = 1 + i
    BY <1>1
  <2> QED BY <1>1, <2>2, <2>3
<1> HIDE DEF x
<1>3. x = body
  BY <1>1, <1>2, SameSequence
<1>4. ASSUME NEW i \in 2..(n + 1) PROVE s[i].t = "unit"
  <2>1. i - 1 \in 1..n /\ 1 + (i - 1) = i
    BY <1>1
  <2> QED BY <2>1, UnitsAreNotLast
<1> QED BY <1>3, <1>4 DEF x

\* A message ends at its last token, and is decoded to the right answer.
LEMMA WholeEnds ==
  ASSUME NEW r \in Requests, disk \in Disks, KeepsPromise, r.kind = "head" => disk.doc.len \notin Avoided,
         NEW s, s = Message(r), NEW k \in Ends(s, r)
  PROVE  s \in Seq(Tokens) /\ k = Len(s) /\ Decode(s, k) = RightAnswer(r)
<1>1. PICK code \in Nat, body \in Seq(Units) :
           /\ RightAnswer(r) = [code |-> code, body |-> body]
           /\ \/ r.kind = "head" /\ Message(r) = <<ChunkHead>> /\ code = 200 /\ body = <<>>
              \/ /\ Chunked(r) /\ r.kind = "get" /\ code = 200
                 /\ Message(r) = (<<ChunkHead>> \o body) \o <<LastChunk>>
              \/ r.kind # "head" /\ Message(r) = FixedMessage([code |-> code, body |-> body])
  BY MessageOf
<1> SUFFICES ASSUME s \in Seq(Tokens), Len(body) \in Nat, Len(body) + 1 <= Len(s),
                    \A i \in 1..Len(body) : s[1 + i] = body[i] /\ body[i] \in Units,
                    s[1].t = "head" /\ s[1].code = code, k = Len(s),
                    s[k] = LastChunk => Len(s) = Len(body) + 2,
                    s[k] # LastChunk => Len(s) = Len(body) + 1
             PROVE  Decode(s, k) = [code |-> code, body |-> body]
  <2>1. CASE r.kind = "head" /\ Message(r) = <<ChunkHead>> /\ code = 200 /\ body = <<>>
    <3>1. s = <<ChunkHead>> /\ s \in Seq(Tokens) /\ Len(s) = 1 /\ s[1] = ChunkHead /\ Len(body) = 0
      BY <2>1, ChunkHeadType, TokenTypes
    <3>2. ChunkHead.t = "head" /\ ChunkHead.framing = "chunked" /\ ChunkHead.code = 200
      BY DEF ChunkHead
    <3>3. Ends(s, r) = {1}
      BY <2>1, <3>1, <3>2 DEF Ends
    <3> QED BY <1>1, <2>1, <3>1, <3>2, <3>3, ChunkHeadType
  <2>2. CASE r.kind = "get" /\ code = 200 /\ Message(r) = (<<ChunkHead>> \o body) \o <<LastChunk>>
    <3>1. /\ s \in Seq(Tokens) /\ Len(body) \in Nat /\ Len(s) = Len(body) + 2 /\ DOMAIN s = 1..(Len(body) + 2)
          /\ s[1] = ChunkHead /\ s[Len(body) + 2] = LastChunk
          /\ \A i \in 1..Len(body) : s[1 + i] = body[i] /\ body[i] \in Units
      BY <2>2, ChunkedTokens
    <3>2. s[1].t = "head" /\ s[1].framing = "chunked" /\ s[1].code = 200
      BY <3>1 DEF ChunkHead
    <3>3. Ends(s, r) = {j \in DOMAIN s : s[j] = LastChunk}
      BY <2>2, <3>2 DEF Ends
    <3>4. k \in 1..(Len(body) + 2) /\ s[k] = LastChunk
      BY <3>1, <3>3
    <3>5. k = Len(body) + 2
      <4>1. k # 1
        BY <3>1, <3>4, ChunkHeadType
      <4>2. ASSUME k # Len(body) + 2 PROVE FALSE
        <5>1. k - 1 \in 1..Len(body) /\ 1 + (k - 1) = k
          BY <3>1, <3>4, <4>1, <4>2
        <5>2. s[k] \in Units
          BY <3>1, <5>1
        <5> QED BY <3>4, <5>2, UnitsAreNotLast
      <4> QED BY <4>2
    <3> QED BY <1>1, <2>2, <3>1, <3>2, <3>4, <3>5
  <2>3. CASE r.kind # "head" /\ Message(r) = FixedMessage([code |-> code, body |-> body])
    <3>1. /\ s \in Seq(Tokens) /\ Len(body) \in Nat /\ Len(s) = Len(body) + 1 /\ DOMAIN s = 1..(Len(body) + 1)
          /\ s[1].t = "head" /\ s[1].framing = "fixed" /\ s[1].n = Len(body) /\ s[1].code = code
          /\ \A i \in 1..Len(body) : s[1 + i] = body[i] /\ body[i] \in Units
      <4> DEFINE f == FixedMessage([code |-> code, body |-> body])
      <4>1. /\ f \in Seq(Tokens) /\ Len(body) \in Nat /\ Len(f) = Len(body) + 1 /\ DOMAIN f = 1..(Len(body) + 1)
            /\ f[1].t = "head" /\ f[1].framing = "fixed" /\ f[1].n = Len(body) /\ f[1].code = code
            /\ \A i \in 1..Len(body) : f[1 + i] = body[i] /\ body[i] \in Units
        BY FixedTokens
      <4>2. s = f
        BY <2>3
      <4> HIDE DEF f
      <4> QED BY <4>1, <4>2
    <3>2. k = Len(body) + 1
      BY <2>3, <3>1 DEF Ends
    <3>3. s[k] # LastChunk
      <4>1. CASE Len(body) = 0
        BY <3>1, <3>2, <4>1 DEF LastChunk
      <4>2. CASE Len(body) # 0
        <5>1. Len(body) \in 1..Len(body) /\ 1 + Len(body) = k
          BY <3>1, <3>2, <4>2
        <5> QED BY <3>1, <5>1, UnitsAreNotLast
      <4> QED BY <4>1, <4>2
    <3> QED BY <1>1, <3>1, <3>2, <3>3
  <2> QED BY <1>1, <2>1, <2>2, <2>3
<1> DEFINE stop == IF s[k] = LastChunk THEN k - 1 ELSE k
<1>2. stop = Len(body) + 1
  OBVIOUS
<1>3. SubSeq(s, 2, Len(body) + 1) = body /\ \A i \in 2..(Len(body) + 1) : s[i].t = "unit"
  BY BodyOf
<1>4. Decode(s, k) = IF s[1].t = "head" /\ \A i \in 2..stop : s[i].t = "unit"
                       THEN [code |-> s[1].code, body |-> SubSeq(s, 2, stop)] ELSE Garbled
  BY DEF Decode
<1> HIDE DEF stop
<1> QED BY <1>2, <1>3, <1>4

-----------------------------------------------------------------------------
(***************************************************************************)
(* What the methods of Client write.  c is the client they are called on,  *)
(* r the request it works on.                                              *)
(***************************************************************************)
LEMMA FixedBytes ==
  ASSUME NEW resp \in Responses, ~resp.chunked, resp.code \in Nat
  PROVE  /\ FixedBodyResponse(resp) = FixedMessage([code |-> resp.code, body |-> resp.body])
         /\ FixedBodyResponse(resp) \in Seq(Tokens) /\ FixedBodyResponse(resp) # <<>>
<1> DEFINE s == FixedMessage([code |-> resp.code, body |-> resp.body])
<1>1. FixedBodyResponse(resp) = s
  BY DEF FixedBodyResponse, FixedMessage, HeadOf
<1>2. s \in Seq(Tokens) /\ Len(s) = Len(resp.body) + 1 /\ Len(resp.body) \in Nat
  <2>1. resp.body \in Seq(Units)
    BY DEF Responses
  <2> QED BY <2>1, FixedTokens
<1> HIDE DEF s
<1>3. s # <<>>
  BY <1>2, EmptySeq
<1> QED BY <1>1, <1>2, <1>3 DEF s

\* A client with a complete response of fixed size finishes an exchange.
LEMMA AnswerFinishes ==
  ASSUME NEW c, NEW r \in Requests,
         r.kind # "head", ~Chunked(r),
         c.resp \in Responses, c.resp.code \in Nat, c.resp.complete, ~c.resp.chunked,
         RightAnswer(r) = [code |-> c.resp.code, body |-> c.resp.body],
         c.req \in {r, NoRequest}, c.file = NoFile, c.cgi = NoScript,
         c.wbuf = FixedBodyResponse(c.resp)
  PROVE  Finishing(c, r, <<>>)
<1>1. Message(r) = FixedMessage([code |-> c.resp.code, body |-> c.resp.body])
  BY DEF Message
<1>2. c.wbuf = Message(r) /\ c.wbuf \in Seq(Tokens) /\ c.wbuf # <<>>
  BY <1>1, FixedBytes
<1>3. <<>> \o c.wbuf = c.wbuf
  BY <1>2, ConcatEmptySeq
<1> QED BY <1>2, <1>3 DEF Finishing

LEMMA FirstCode ==
  ASSUME NEW code \in Nat
  PROVE  LET resp == SetCode(EmptyResponse, code) IN
         /\ resp \in Responses /\ resp.code = code /\ ~resp.chunked
         /\ IsErrorCode(code) \/ code = 999 => resp.complete /\ resp.body = <<Unit("error", 1)>>
         /\ ~(IsErrorCode(code) \/ code = 999) => resp = [EmptyResponse EXCEPT !.code = code]
<1> DEFINE e == EmptyResponse
           x == [e EXCEPT !.code = code]
<1>1. e \in Responses /\ e.code = NoCode /\ ~e.chunked
  BY EmptySeq DEF EmptyResponse, Responses, Codes
<1> HIDE DEF e
<1>2. x \in Responses /\ x.code = code /\ ~x.chunked
  BY <1>1 DEF Responses, Codes
<1>3. SetCode(e, code) = IF IsErrorCode(code) \/ code = 999
                           THEN SetFixedSizeBody(x, <<Unit("error", 1)>>) ELSE x
  BY <1>1 DEF SetCode
<1>4. SetCode(e, code) \in Responses
  BY <1>1, SetCodeType
<1> HIDE DEF x
<1>5. SetFixedSizeBody(x, <<Unit("error", 1)>>).code = x.code
      /\ SetFixedSizeBody(x, <<Unit("error", 1)>>).chunked = x.chunked
      /\ SetFixedSizeBody(x, <<Unit("error", 1)>>).complete
      /\ SetFixedSizeBody(x, <<Unit("error", 1)>>).body = <<Unit("error", 1)>>
  BY <1>2 DEF SetFixedSizeBody, Responses
<1> QED BY <1>2, <1>3, <1>4, <1>5 DEF e, x

\* An error is reported with its own page.
LEMMA ErrorFinishes ==
  ASSUME NEW c \in GoodClients, NEW r \in Requests, disk \in Disks, KeepsPromise,
         NEW code \in Nat, IsErrorCode(code) \/ code = 999,
         r.kind # "head", ~Chunked(r), RightAnswer(r) = ErrorAnswer(code),
         c.resp = EmptyResponse, c.file = NoFile, c.cgi = NoScript
  PROVE  /\ Finishing(ReturnError(c, code), r, <<>>)
         /\ ReturnError(c, code).rbuf = <<>>
<1> DEFINE resp == SetCode(c.resp, code)
           d == [c EXCEPT !.rbuf = <<>>, !.req = NoRequest, !.resp = resp, !.state = "ERROR",
                          !.wbuf = FixedBodyResponse(resp)]
<1>1. disk.page.open = "absent"
  BY Served
<1>2. ReturnError(c, code) = d
  BY <1>1, ClientTypes DEF ReturnError
<1>3. resp \in Responses /\ resp.code = code /\ ~resp.chunked /\ resp.complete
      /\ resp.body = <<Unit("error", 1)>>
  BY FirstCode
<1>4. RightAnswer(r) = [code |-> resp.code, body |-> resp.body]
  BY <1>3, ErrorType
<1> HIDE DEF resp
<1>5. /\ d.req = NoRequest /\ d.file = NoFile /\ d.cgi = NoScript /\ d.rbuf = <<>>
      /\ d.resp = resp /\ d.wbuf = FixedBodyResponse(resp)
  BY ClientTypes DEF GoodClients, Clients
<1> HIDE DEF d
<1>6. d.req \in {r, NoRequest} /\ d.wbuf = FixedBodyResponse(d.resp)
      /\ d.resp \in Responses /\ d.resp.code \in Nat /\ d.resp.complete /\ ~d.resp.chunked
      /\ RightAnswer(r) = [code |-> d.resp.code, body |-> d.resp.body]
  BY <1>3, <1>4, <1>5
<1>7. Finishing(d, r, <<>>)
  BY <1>5, <1>6, AnswerFinishes
<1> QED BY <1>2, <1>5, <1>7

LEMMA FixedFinishes ==
  ASSUME NEW c \in GoodClients, NEW r \in Requests, NEW resp \in Responses,
         resp.code \in Nat, resp.complete, ~resp.chunked,
         RightAnswer(r) = [code |-> resp.code, body |-> resp.body],
         r.kind # "head", ~Chunked(r), c.file = NoFile, c.cgi = NoScript
  PROVE  Finishing(FixedAnswer(c, resp), r, <<>>) /\ FixedAnswer(c, resp).rbuf = c.rbuf
<1> DEFINE d == FixedAnswer(c, resp)
<1>1. /\ d.req = NoRequest /\ d.file = NoFile /\ d.cgi = NoScript /\ d.resp = resp
      /\ d.wbuf = FixedBodyResponse(resp) /\ d.rbuf = c.rbuf
  BY DEF FixedAnswer, GoodClients, Clients
<1> HIDE DEF d
<1>2. d.req \in {r, NoRequest} /\ d.wbuf = FixedBodyResponse(d.resp)
      /\ d.resp \in Responses /\ d.resp.code \in Nat /\ d.resp.complete /\ ~d.resp.chunked
      /\ RightAnswer(r) = [code |-> d.resp.code, body |-> d.resp.body]
  BY <1>1
<1>3. Finishing(d, r, <<>>)
  BY <1>1, <1>2, AnswerFinishes
<1> QED BY <1>1, <1>3 DEF d

\* The body of a response, and its code, in either order.
LEMMA BodySet ==
  ASSUME NEW resp \in Responses, NEW body \in Seq(Units)
  PROVE  LET d == SetFixedSizeBody(resp, body) IN
         /\ d \in Responses /\ d.code = resp.code /\ d.chunked = resp.chunked
         /\ d.complete /\ d.body = body
BY SetFixedSizeBodyType DEF SetFixedSizeBody, Responses

Carries(resp, body) ==
  resp \in Responses /\ resp.code = 200 /\ ~resp.chunked /\ resp.complete /\ resp.body = body

LEMMA GoodResponses ==
  ASSUME NEW body \in Seq(Units)
  PROVE  /\ Carries(SetCode(SetFixedSizeBody(EmptyResponse, body), 200), body)
         /\ Carries(SetFixedSizeBody(SetCode(EmptyResponse, 200), body), body)
<1> DEFINE a == SetFixedSizeBody(EmptyResponse, body)
           b == SetCode(EmptyResponse, 200)
           d == SetFixedSizeBody(b, body)
<1>1. ~IsErrorCode(200) /\ 200 # NoCode
  BY DEF IsErrorCode, NoCode
<1>2. EmptyResponse \in Responses /\ EmptyResponse.code = NoCode /\ ~EmptyResponse.chunked
  BY EmptySeq DEF EmptyResponse, Responses, Codes
<1>3. a \in Responses /\ a.code = NoCode /\ ~a.chunked /\ a.complete /\ a.body = body
  BY <1>2, BodySet
<1>4. b \in Responses /\ b.code = 200 /\ ~b.chunked
  BY FirstCode
<1> HIDE DEF a, b
<1>5. d \in Responses /\ d.code = 200 /\ ~d.chunked /\ d.complete /\ d.body = body
  BY <1>4, BodySet
<1>6. SetCode(a, 200) = [a EXCEPT !.code = 200]
  BY <1>1, <1>3 DEF SetCode
<1>7. LET x == [a EXCEPT !.code = 200] IN
      x \in Responses /\ x.code = 200 /\ ~x.chunked /\ x.complete /\ x.body = body
  BY <1>3 DEF Responses, Codes
<1> QED BY ZenonT(60), <1>5, <1>6, <1>7 DEF a, b, Carries

\* A handler that is not a handler, and a message that is none.
LEMMA NotNone ==
  /\ \A h \in Handlers : h # NoFile
  /\ \A g \in CgiMessages : g # NoScript
  /\ \A r \in Requests : r # NoRequest
<1>1. \A h \in Handlers : h # NoFile
  BY DEF Handlers, NoFile, Sources
<1>2. \A g \in CgiMessages : g # NoScript
  BY DEF CgiMessages, NoScript
<1>3. \A r \in Requests : r # NoRequest
  BY ConnectionAssumption DEF NoRequest, Kinds
<1> QED BY <1>1, <1>2, <1>3

LEMMA BuildWorks ==
  ASSUME NEW c \in GoodClients, NEW r \in Requests, disk \in Disks, KeepsPromise,
         r.kind \notin {"bad", "missing"}, r.kind = "head" => disk.doc.len \notin Avoided,
         c.req = r, c.resp = EmptyResponse, c.file = NoFile, c.cgi = NoScript,
         c.wbuf = <<>>, c.rbuf = <<>>
  PROVE  Working(BuildResponse(c), r, <<>>) /\ BuildResponse(c).rbuf = <<>>
<1>1. r.kind \in Kinds /\ r.kind # "redirect"
  BY ConnectionAssumption DEF KeepsPromise
<1>2. ~IsErrorCode(200) /\ IsErrorCode(500)
  BY DEF IsErrorCode
<1>3. CASE r.kind = "script" /\ disk.script.exec
  <2> DEFINE d == [c EXCEPT !.cgi = Start]
  <2>1. BuildResponse(c) = d
    BY <1>3 DEF BuildResponse
  <2>2. /\ d.req = r /\ d.resp = EmptyResponse /\ d.wbuf = <<>> /\ d.rbuf = <<>> /\ d.file = NoFile
        /\ d.cgi = Start
    BY DEF GoodClients, Clients
  <2>3. Start # NoScript /\ ScriptOf(Start)
    <3> DEFINE g == Start
    <3>1. /\ g.alive /\ g.open /\ ~g.reaped /\ ~g.complete /\ ~g.eof /\ ~g.doomed /\ ~g.tooLarge /\ ~g.late
          /\ g.open = g.alive /\ g.doomed = g.tooLarge
          /\ g.made = 0 /\ g.pipe = 0 /\ g.got = 0 /\ g # NoScript
      BY DEF Start, NoScript
    <3> HIDE DEF g
    <3>2. ScriptOf(g)
      BY <3>1, Served DEF ScriptOf
    <3> QED BY <3>1, <3>2 DEF g
  <2> HIDE DEF d
  <2> QED BY <1>3, <2>1, <2>2, <2>3 DEF Working, Scripting
<1>4. CASE r.kind \in {"get", "head"}
  <2> DEFINE d == [c EXCEPT !.file = Open("doc", disk.doc)]
             h == Open("doc", disk.doc)
  <2>1. BuildResponse(c) = d
    BY <1>4 DEF BuildResponse
  <2>2. /\ d.req = r /\ d.resp = EmptyResponse /\ d.wbuf = <<>> /\ d.rbuf = <<>> /\ d.cgi = NoScript
        /\ d.file = h
    BY DEF GoodClients, Clients
  <2>3. h # NoFile
    BY DEF Open, NoFile
  <2>4. DocFile(h) /\ Off(h) = 0
    <3>1. /\ h.src = "doc" /\ h.len = disk.doc.len /\ h.pos = 0 /\ h.buf = 0 /\ ~h.eof
          /\ (h.bad <=> disk.doc.open # "ok") /\ (h.denied <=> disk.doc.open = "denied")
          /\ (h.fd <=> disk.doc.open = "ok")
      BY DEF Open
    <3> HIDE DEF h
    <3> QED BY <2>3, <3>1, Served DEF DocFile, Off
  <2> HIDE DEF d, h
  <2> QED BY <1>4, <2>1, <2>2, <2>4 DEF Working, Reading
<1>5. CASE r.kind = "list" /\ disk.listing
  <2> DEFINE resp == SetCode(SetFixedSizeBody(EmptyResponse, <<Unit("listing", 1)>>), 200)
  <2>1. BuildResponse(c) = FixedAnswer(c, resp)
    BY <1>5 DEF BuildResponse
  <2>2. RightAnswer(r) = [code |-> 200, body |-> Body("listing", 1)] /\ ~Chunked(r)
    BY <1>5, RightAnswers DEF Chunked
  <2>3. Finishing(FixedAnswer(c, resp), r, <<>>) /\ FixedAnswer(c, resp).rbuf = c.rbuf
    <3>1. <<Unit("listing", 1)>> \in Seq(Units) /\ <<Unit("listing", 1)>> = Body("listing", 1)
      BY TokenTypes, OneUnit DEF Sources
    <3>2. Carries(resp, <<Unit("listing", 1)>>)
      BY <3>1, GoodResponses
    <3> HIDE DEF resp
    <3>3. /\ RightAnswer(r) = [code |-> resp.code, body |-> resp.body] /\ resp.code \in Nat
          /\ resp \in Responses /\ ~resp.chunked /\ resp.complete
      BY <2>2, <3>1, <3>2 DEF Carries
    <3> QED BY <1>5, <2>2, <3>3, FixedFinishes
  <2> HIDE DEF resp
  <2> QED BY <2>1, <2>3 DEF Working
<1>6. CASE r.kind = "delete" /\ disk.removable
  <2> DEFINE resp == SetFixedSizeBody(SetCode(EmptyResponse, 200), <<Unit("notice", 1)>>)
  <2>1. BuildResponse(c) = FixedAnswer(c, resp)
    BY <1>6 DEF BuildResponse
  <2>2. RightAnswer(r) = [code |-> 200, body |-> Body("notice", 1)] /\ ~Chunked(r)
    BY <1>6, RightAnswers DEF Chunked
  <2>3. Finishing(FixedAnswer(c, resp), r, <<>>) /\ FixedAnswer(c, resp).rbuf = c.rbuf
    <3>1. <<Unit("notice", 1)>> \in Seq(Units) /\ <<Unit("notice", 1)>> = Body("notice", 1)
      BY TokenTypes, OneUnit DEF Sources
    <3>2. Carries(resp, <<Unit("notice", 1)>>)
      BY <3>1, GoodResponses
    <3> HIDE DEF resp
    <3>3. /\ RightAnswer(r) = [code |-> resp.code, body |-> resp.body] /\ resp.code \in Nat
          /\ resp \in Responses /\ ~resp.chunked /\ resp.complete
      BY <2>2, <3>1, <3>2 DEF Carries
    <3> QED BY <1>6, <2>2, <3>3, FixedFinishes
  <2> HIDE DEF resp
  <2> QED BY <2>1, <2>3 DEF Working
<1>7. CASE r.kind = "put"
  <2>1. BuildResponse(c) = ReturnError(c, 999)
    BY <1>7 DEF BuildResponse
  <2>2. RightAnswer(r) = ErrorAnswer(999) /\ ~Chunked(r)
    BY <1>7, RightAnswers DEF Chunked
  <2>3. Finishing(ReturnError(c, 999), r, <<>>) /\ ReturnError(c, 999).rbuf = <<>>
    BY <1>7, <2>2, ErrorFinishes
  <2> QED BY <2>1, <2>3 DEF Working
<1>8. CASE \/ r.kind = "script" /\ ~disk.script.exec
           \/ r.kind = "list" /\ ~disk.listing
           \/ r.kind = "delete" /\ ~disk.removable
  <2>1. BuildResponse(c) = ReturnError(c, 500)
    BY <1>8 DEF BuildResponse
  <2>2. RightAnswer(r) = ErrorAnswer(500) /\ ~Chunked(r) /\ r.kind # "head"
    BY <1>8, RightAnswers DEF Chunked
  <2>3. Finishing(ReturnError(c, 500), r, <<>>) /\ ReturnError(c, 500).rbuf = <<>>
    BY <1>2, <2>2, ErrorFinishes
  <2> QED BY <2>1, <2>3 DEF Working
<1> QED BY <1>1, <1>3, <1>4, <1>5, <1>6, <1>7, <1>8 DEF Kinds

\* Half a request is kept, a whole one is worked on.
LEMMA HalfKept ==
  ASSUME NEW c \in GoodClients, NEW r \in Requests, c.req = NoRequest,
         c.rbuf = <<[req |-> r, part |-> 1]>>
  PROVE  HandleInput(c) = [c EXCEPT !.state = "READ_REQUEST"]
<1> DEFINE a == [c EXCEPT !.state = "READ_REQUEST"]
<1>1. a.req = NoRequest /\ a.rbuf = c.rbuf
  BY DEF GoodClients, Clients
<1>2. Len(c.rbuf) = 1 /\ c.rbuf[1].part = 1
  OBVIOUS
<1> HIDE DEF a
<1>3. Parse(a) = a
  BY <1>1, <1>2 DEF Parse
<1>4. HandleInput(c) = a
  BY <1>1, <1>3 DEF HandleInput, a
<1> QED BY <1>4 DEF a

LEMMA WholeWorks ==
  ASSUME NEW c \in GoodClients, NEW r \in Requests, disk \in Disks, KeepsPromise,
         r.kind = "head" => disk.doc.len \notin Avoided,
         c.req = NoRequest, c.resp = EmptyResponse, c.file = NoFile, c.cgi = NoScript, c.wbuf = <<>>,
         c.rbuf = <<[req |-> r, part |-> 1], [req |-> r, part |-> 2]>>
  PROVE  Working(HandleInput(c), r, <<>>) /\ HandleInput(c).rbuf = <<>>
<1> DEFINE a == [c EXCEPT !.state = "READ_REQUEST"]
           d == [a EXCEPT !.rbuf = SubSeq(@, 3, Len(@))]
           e == [d EXCEPT !.req = r]
           b == [e EXCEPT !.state = "BUILDING_RESPONSE"]
<1>0. HandleInput(c) = IF Parse(a).req = NoRequest THEN Parse(a)
                       ELSE BuildResponse([Parse(a) EXCEPT !.state = "BUILDING_RESPONSE"])
  BY Zenon DEF HandleInput
<1>1. /\ a \in GoodClients /\ a.rbuf = c.rbuf /\ a.req = NoRequest /\ a.resp = EmptyResponse
      /\ a.file = NoFile /\ a.cgi = NoScript /\ a.wbuf = <<>>
  BY DEF GoodClients, Clients, States
<1>2. Len(c.rbuf) = 2 /\ c.rbuf[1].part = 1 /\ c.rbuf[1].req = r /\ SubSeq(c.rbuf, 3, Len(c.rbuf)) = <<>>
  <2>1. Len(c.rbuf) = 2 /\ c.rbuf[1].part = 1 /\ c.rbuf[1].req = r
    OBVIOUS
  <2> QED BY <2>1, SubSeqEmpty
<1>3. r # NoRequest /\ r.kind \in Kinds /\ r.kind # "redirect"
  BY NotNone, ConnectionAssumption DEF KeepsPromise
<1> HIDE DEF a
<1>4. /\ d \in GoodClients /\ d.rbuf = <<>> /\ d.req = NoRequest /\ d.resp = EmptyResponse
      /\ d.file = NoFile /\ d.cgi = NoScript /\ d.wbuf = <<>>
  BY <1>1, <1>2, EmptySeq DEF GoodClients, Clients
<1>5. Parse(a) = CASE r.kind = "bad" -> ReturnError(d, RejectCodes[r.kind])
                   [] r.kind # "bad" /\ Rejected(r) -> ReturnError(e, RejectCodes[r.kind])
                   [] OTHER -> e
  <2>1. /\ ~(a.req # NoRequest \/ (Len(a.rbuf) = 1 /\ a.rbuf[1].part = 1))
        /\ ~(a.req = NoRequest /\ a.rbuf[1].part = 2)
    BY <1>1, <1>2
  <2>2. a.rbuf[1].req = r
    BY <1>1, <1>2
  <2>3. Parse(a) = CASE a.rbuf[1].req.kind = "bad" -> ReturnError(d, RejectCodes[a.rbuf[1].req.kind])
                   [] a.rbuf[1].req.kind # "bad" /\ Rejected(a.rbuf[1].req) ->
                        ReturnError([d EXCEPT !.req = a.rbuf[1].req], RejectCodes[a.rbuf[1].req.kind])
                   [] OTHER -> [d EXCEPT !.req = a.rbuf[1].req]
    BY <2>1 DEF Parse
  <2> HIDE DEF d
  <2> QED BY <2>2, <2>3
<1> HIDE DEF d
<1>6. /\ e \in GoodClients /\ e.rbuf = <<>> /\ e.req = r /\ e.resp = EmptyResponse
      /\ e.file = NoFile /\ e.cgi = NoScript /\ e.wbuf = <<>>
  BY <1>4 DEF GoodClients, Clients
<1> HIDE DEF e
<1>7. /\ b \in GoodClients /\ b.rbuf = <<>> /\ b.req = r /\ b.resp = EmptyResponse
      /\ b.file = NoFile /\ b.cgi = NoScript /\ b.wbuf = <<>>
  BY <1>6 DEF GoodClients, Clients, States
<1>9. CASE r.kind \notin {"bad", "missing"}
  <2>1. Parse(a) = e
    BY <1>3, <1>5, <1>9 DEF Rejected, RejectCodes
  <2>2. HandleInput(c) = BuildResponse(b)
    BY <1>0, <1>3, <1>6, <2>1
  <2> HIDE DEF b
  <2>3. Working(BuildResponse(b), r, <<>>) /\ BuildResponse(b).rbuf = <<>>
    BY <1>7, <1>9, BuildWorks
  <2> QED BY <2>2, <2>3
<1>10. ASSUME NEW x \in GoodClients, NEW code \in {400, 404}, Parse(a) = ReturnError(x, code),
              RightAnswer(r) = ErrorAnswer(code), r.kind \in {"bad", "missing"},
              x.resp = EmptyResponse, x.file = NoFile, x.cgi = NoScript
       PROVE  Working(HandleInput(c), r, <<>>) /\ HandleInput(c).rbuf = <<>>
  <2>1. IsErrorCode(code) /\ code \in Nat
    BY DEF IsErrorCode
  <2>2. r.kind # "head" /\ ~Chunked(r)
    BY <1>10 DEF Chunked
  <2>3. Finishing(Parse(a), r, <<>>) /\ Parse(a).rbuf = <<>>
    BY <1>10, <2>1, <2>2, ErrorFinishes
  <2>4. Parse(a).req = NoRequest
    <3>1. disk.page.open = "absent"
      BY Served
    <3> QED BY <1>10, <3>1 DEF ReturnError, GoodClients, Clients
  <2> QED BY <1>0, <2>3, <2>4 DEF Working
<1>11. CASE r.kind = "bad"
  <2>1. Parse(a) = ReturnError(d, 400) /\ RightAnswer(r) = ErrorAnswer(400)
    BY <1>5, <1>11, RightAnswers DEF RejectCodes
  <2> QED BY <1>4, <1>10, <1>11, <2>1
<1>12. CASE r.kind = "missing"
  <2>1. Parse(a) = ReturnError(e, 404) /\ RightAnswer(r) = ErrorAnswer(404)
    BY <1>5, <1>12, RightAnswers DEF RejectCodes, Rejected
  <2> QED BY <1>6, <1>10, <1>12, <2>1
<1> QED BY <1>9, <1>11, <1>12

\* The response to a document that is sent in chunks.
LEMMA ChunkSent ==
  ASSUME NEW resp \in Responses, NEW chunk \in Seq(Units)
  PROVE  LET d == AfterChunk(resp, chunk) IN
         /\ d \in Responses /\ d.code = resp.code /\ d.chunked = resp.chunked
         /\ d.complete <=> resp.complete \/ chunk = <<>>
BY ChunkType DEF AfterChunk, Responses

LEMMA FirstHead ==
  LET resp == SetCode(EmptyResponse, 200)
      x == StartChunked(resp)
  IN  /\ resp \in Responses /\ ~resp.chunked /\ resp.code = 200
      /\ ChunkedHead(resp) = <<ChunkHead>>
      /\ x \in Responses /\ x.code = 200 /\ x.chunked /\ ~x.complete
<1> DEFINE resp == SetCode(EmptyResponse, 200)
           h == HeadOf(resp, "chunked")
           x == StartChunked(resp)
<1>1. ~IsErrorCode(200)
  BY DEF IsErrorCode
<1>2. /\ resp \in Responses /\ resp.code = 200 /\ ~resp.chunked
      /\ resp = [EmptyResponse EXCEPT !.code = 200]
  BY <1>1, FirstCode
<1>3. EmptyResponse \in Responses /\ ~EmptyResponse.complete
  BY EmptySeq DEF EmptyResponse, Responses, Codes
<1> HIDE DEF resp
<1>4. ~resp.complete
  BY <1>2, <1>3 DEF Responses
<1>5. h = [t |-> "head", code |-> 200, framing |-> "chunked", n |-> Len(resp.body)]
  BY <1>2 DEF HeadOf
<1>6. ChunkedHead(resp) = <<[h EXCEPT !.n = 0]>>
  BY DEF ChunkedHead
<1>7. [h EXCEPT !.n = 0] = ChunkHead
  BY <1>5 DEF ChunkHead
<1>8. x \in Responses /\ x.code = 200 /\ x.chunked /\ ~x.complete
  BY ZenonT(60), <1>2, <1>4 DEF StartChunked, Responses
<1> QED BY <1>2, <1>6, <1>7, <1>8 DEF resp

\* A document that was not read yet.
LEMMA ReadingStart ==
  ASSUME NEW c \in GoodClients, NEW r \in Requests, disk \in Disks, KeepsPromise, Reading(c, r)
  PROVE  /\ GoodHandler(c.file) /\ c.file # NoFile /\ c.file.src = "doc" /\ c.file.len = disk.doc.len
         /\ c.file.buf \in Nat /\ c.file.buf <= BufferSize /\ c.file.pos = c.file.buf
         /\ c.file.pos <= disk.doc.len
         /\ (c.file.bad <=> disk.doc.open = "denied") /\ (c.file.denied <=> disk.doc.open = "denied")
         /\ c.file.eof => c.file.buf < BufferSize
         /\ c.file.eof /\ ~c.file.bad => c.file.pos = disk.doc.len
         /\ ReadUnits(c.file) = Body("doc", c.file.pos)
         /\ Off(AfterRead(c.file)) = c.file.pos
<1> DEFINE h == c.file
<1>1. GoodHandler(h) /\ DocFile(h) /\ Off(h) = 0
  BY ClientTypes DEF Reading, DocFile, GoodFile
<1> HIDE DEF h
<1>2. h.buf \in Nat /\ h.pos \in Nat /\ h.buf <= BufferSize /\ h.pos <= h.len /\ h.pos = h.buf
  BY <1>1 DEF GoodHandler, Handlers, Off
<1>3. h.src = "doc" /\ h.len = disk.doc.len /\ h # NoFile
  BY <1>1 DEF DocFile
<1>4. ReadUnits(h) \in Seq(Units) /\ Body("doc", 0) \o ReadUnits(h) = Body("doc", h.pos)
      /\ Off(AfterRead(h)) = h.pos
  BY <1>1, <1>3, ReadNext
<1>5. Body("doc", 0) = <<>>
  <2>1. Len(Body("doc", 0)) = 0 /\ Body("doc", 0) \in Seq(Units)
    BY BodyType DEF Sources
  <2> QED BY <2>1, EmptySeq
<1>6. ReadUnits(h) = Body("doc", h.pos)
  BY <1>4, <1>5, ConcatEmptySeq
<1>7. h.eof /\ ~h.bad => h.pos = h.len
  BY <1>1 DEF GoodHandler, KeepsPromise
<1> QED BY <1>1, <1>2, <1>3, <1>4, <1>6, <1>7 DEF DocFile, h

LEMMA DeniedWorks ==
  ASSUME NEW c \in GoodClients, NEW r \in Requests, disk \in Disks, KeepsPromise,
         r.kind = "head" => disk.doc.len \notin Avoided, NEW stale \in BOOLEAN,
         Reading(c, r), c.file.bad
  PROVE  Finishing(ReadFromFile(c, stale), r, <<>>) /\ ReadFromFile(c, stale).rbuf = <<>>
<1> DEFINE n == [c EXCEPT !.file = NoFile]
<1>1. disk.doc.open = "denied" /\ c.file.denied
  BY ReadingStart
<1>2. r.kind = "get" /\ ~Chunked(r) /\ RightAnswer(r) = ErrorAnswer(403) /\ IsErrorCode(403)
  BY <1>1, Served, RightAnswers DEF Reading, Chunked, IsErrorCode
<1>3. n \in GoodClients /\ n.file = NoFile /\ n.cgi = NoScript /\ n.resp = EmptyResponse
  BY ClientTypes DEF GoodClients, Clients, GoodFile, Reading
<1>4. ReadFromFile(c, stale) = ReturnError(n, 403)
  BY <1>1 DEF ReadFromFile
<1> HIDE DEF n
<1> QED BY <1>2, <1>3, <1>4, ErrorFinishes

\* The first full buffer: the head alone, or with the first chunk.
LEMMA FirstChunkWorks ==
  ASSUME NEW c \in GoodClients, NEW r \in Requests, disk \in Disks, KeepsPromise,
         NEW stale \in BOOLEAN,
         Reading(c, r), ~c.file.bad, ReadBufferFull(c.file), c.rbuf = <<>>
  PROVE  LET d == ReadFromFile(c, stale) IN
         (Chunking(d, r, <<>>) \/ Finishing(d, r, <<>>)) /\ d.rbuf = <<>>
<1> DEFINE h == c.file
           resp == SetCode(c.resp, 200)
           x == StartChunked(resp)
           chunk == ReadUnits(h)
           next == [c EXCEPT !.state = "WRITE_RESPONSE", !.file = AfterRead(h)]
           hd == [next EXCEPT !.resp = AfterChunk(x, <<>>), !.wbuf = ChunkedHead(resp), !.file = NoFile]
           gt == [next EXCEPT !.resp = AfterChunk(x, chunk), !.wbuf = ChunkedHead(resp) \o Chunk(chunk)]
<1>1. /\ GoodHandler(h) /\ h # NoFile /\ h.src = "doc" /\ h.len = disk.doc.len
      /\ h.buf \in Nat /\ h.buf <= BufferSize /\ h.pos = h.buf /\ h.pos <= disk.doc.len
      /\ h.eof => h.buf < BufferSize
      /\ chunk = Body("doc", h.pos) /\ Off(AfterRead(h)) = h.pos
  BY ReadingStart
<1>2. disk.doc.len \in Nat /\ BufferSize \in Nat /\ BufferSize > 0 /\ disk.doc.open \in {"ok", "denied"}
      /\ \A m \in 1..disk.doc.len : disk.doc.len # m * BufferSize
  BY Served
<1>3. c.req = r /\ c.resp = EmptyResponse /\ c.wbuf = <<>> /\ c.cgi = NoScript /\ r.kind \in {"get", "head"}
      /\ r # NoRequest
  BY NotNone DEF Reading
<1>4. h.buf = BufferSize /\ ~h.eof /\ h.pos = BufferSize
  BY <1>1, <1>2 DEF ReadBufferFull
<1>5. disk.doc.open = "ok"
  BY <1>2, ReadingStart
<1>6. chunk \in Seq(Units) /\ Len(chunk) = BufferSize /\ chunk # <<>> /\ <<>> \in Seq(Units)
  <2>1. chunk \in Seq(Units) /\ Len(chunk) = BufferSize
    BY <1>1, <1>4, BodyType DEF Sources
  <2> QED BY <2>1, <1>2, EmptySeq
<1>7. /\ resp \in Responses /\ ~resp.chunked /\ resp.code = 200
      /\ ChunkedHead(resp) = <<ChunkHead>>
      /\ x \in Responses /\ x.code = 200 /\ x.chunked /\ ~x.complete
  BY <1>3, FirstHead
<1>8. SendChunk(c, stale) = IF r.kind = "head" THEN hd ELSE gt
  <2>1. IsHead(c, stale) <=> r.kind = "head"
    BY <1>3 DEF IsHead
  <2> QED BY <2>1, <1>7 DEF SendChunk
<1>9. AfterChunk(x, <<>>).complete
      /\ AfterChunk(x, chunk).code = 200 /\ AfterChunk(x, chunk).chunked /\ ~AfterChunk(x, chunk).complete
  <2> HIDE DEF x, chunk
  <2>1. AfterChunk(x, <<>>).complete
    BY <1>6, <1>7, ChunkSent
  <2> QED BY <2>1, <1>6, <1>7, ChunkSent
<1>10. ReadFromFile(c, stale) = LET d == SendChunk(c, stale) IN
         IF d.file # NoFile /\ d.file.eof THEN SendRest(d, stale) ELSE d
  BY DEF ReadFromFile
<1>11. GoodHandler(AfterRead(h)) /\ AfterRead(h) # NoFile /\ AfterRead(h).eof = h.eof
       /\ AfterRead(h).src = h.src /\ AfterRead(h).len = h.len /\ AfterRead(h).bad = h.bad
       /\ AfterRead(h).denied = h.denied /\ AfterRead(h).fd = h.fd
  <2>1. GoodHandler(AfterRead(h))
    BY <1>1, ReadGood
  <2>2. AfterRead(h) # NoFile
    BY <2>1, NotNone DEF GoodHandler
  <2> QED BY <2>1, <2>2, <1>1 DEF AfterRead, GoodHandler, Handlers
<1> HIDE DEF resp, x, chunk
<1>12. CASE r.kind = "head"
  <2>1. /\ hd.req = r /\ hd.cgi = NoScript /\ hd.file = NoFile /\ hd.resp = AfterChunk(x, <<>>)
        /\ hd.wbuf = <<ChunkHead>> /\ hd.rbuf = <<>>
    BY <1>3, <1>7 DEF GoodClients, Clients
  <2>2. ReadFromFile(c, stale) = hd
    <3> HIDE DEF hd
    <3> QED BY <1>8, <1>10, <1>12, <2>1
  <2>3. Message(r) = <<ChunkHead>>
    BY <1>12 DEF Message, Chunked
  <2>4. <<>> \o <<ChunkHead>> = <<ChunkHead>> /\ <<ChunkHead>> # <<>>
    <3>1. <<ChunkHead>> \in Seq(Tokens)
      BY ChunkHeadType, TokenTypes
    <3> QED BY <3>1, ConcatEmptySeq
  <2> HIDE DEF hd
  <2>5. Finishing(hd, r, <<>>)
    BY <1>9, <2>1, <2>3, <2>4 DEF Finishing
  <2> QED BY <2>1, <2>2, <2>5
<1>13. CASE r.kind = "get"
  <2>1. /\ gt.req = r /\ gt.cgi = NoScript /\ gt.file = AfterRead(h) /\ gt.resp = AfterChunk(x, chunk)
        /\ gt.wbuf = <<ChunkHead>> \o chunk /\ gt.rbuf = <<>>
    BY <1>3, <1>6, <1>7 DEF GoodClients, Clients, Chunk
  <2>2. ReadFromFile(c, stale) = gt
    <3> HIDE DEF gt, h
    <3> QED BY <1>4, <1>8, <1>10, <1>11, <1>13, <2>1
  <2>3. Chunked(r)
    <3>1. 1 \in 1..disk.doc.len /\ 1 * BufferSize = BufferSize
      BY <1>1, <1>2, <1>4
    <3>2. disk.doc.len # BufferSize
      BY <1>2, <3>1
    <3> QED BY <1>1, <1>2, <1>4, <1>5, <1>13, <3>2 DEF Chunked
  <2>4. DocFile(AfterRead(h))
    <3>1. DocFile(h)
      BY DEF Reading
    <3> HIDE DEF h
    <3> QED BY <1>4, <1>11, <3>1 DEF DocFile
  <2>5. <<>> \o gt.wbuf = <<ChunkHead>> \o Body("doc", Off(gt.file))
    <3>1. <<ChunkHead>> \o chunk \in Seq(Tokens)
      BY <1>6, ChunkHeadType, Head1
    <3>2. gt.wbuf = <<ChunkHead>> \o Body("doc", Off(gt.file))
      <4> HIDE DEF gt, h
      <4> QED BY <1>1, <2>1
    <3> HIDE DEF gt
    <3> QED BY <2>1, <3>1, <3>2, ConcatEmptySeq
  <2>6. \E m \in 1..Off(gt.file) : Off(gt.file) = m * BufferSize
    <3>1. Off(gt.file) = BufferSize
      <4> HIDE DEF gt, h
      <4> QED BY <1>1, <1>4, <2>1
    <3>2. 1 \in 1..BufferSize /\ BufferSize = 1 * BufferSize
      BY <1>2
    <3> HIDE DEF gt
    <3> QED BY <3>1, <3>2
  <2> HIDE DEF gt
  <2>7. Chunking(gt, r, <<>>)
    BY <1>9, <2>1, <2>3, <2>4, <2>5, <2>6 DEF Chunking
  <2> QED BY <2>1, <2>2, <2>7
<1> QED BY <1>3, <1>12, <1>13

\* A document smaller than the buffer is an answer of fixed size.
LEMMA SmallFileWorks ==
  ASSUME NEW c \in GoodClients, NEW r \in Requests, disk \in Disks, KeepsPromise,
         r.kind = "head" => disk.doc.len \notin Avoided, NEW stale \in BOOLEAN,
         Reading(c, r), ~c.file.bad, ~ReadBufferFull(c.file), c.file.eof, c.rbuf = <<>>
  PROVE  LET d == ReadFromFile(c, stale) IN
         Finishing(d, r, <<>>) /\ d.rbuf = <<>>
<1> DEFINE h == c.file
           rest == ReadUnits(h)
           resp == SetFixedSizeBody(SetCode(EmptyResponse, 200), rest)
           next == [c EXCEPT !.state = "WRITE_RESPONSE", !.file = NoFile]
           d == [next EXCEPT !.resp = resp, !.wbuf = FixedBodyResponse(resp)]
<1>1. /\ GoodHandler(h) /\ h # NoFile /\ h.buf \in Nat /\ h.pos = h.buf /\ h.pos = disk.doc.len
      /\ rest = Body("doc", h.pos)
  BY ReadingStart
<1>2. /\ disk.doc.len \in Nat /\ BufferSize \in Nat /\ disk.doc.open \in {"ok", "denied"}
      /\ disk.doc.len \notin Avoided => disk.doc.len >= BufferSize
  BY Served
<1>3. c.req = r /\ c.resp = EmptyResponse /\ c.cgi = NoScript /\ r.kind \in {"get", "head"} /\ r # NoRequest
  BY NotNone DEF Reading
<1>4. disk.doc.len < BufferSize
  <2>1. ~(h.buf >= BufferSize)
    BY DEF ReadBufferFull
  <2>2. h.buf = disk.doc.len
    BY <1>1
  <2> HIDE DEF h
  <2>3. /\ disk.doc.len \in Nat /\ BufferSize \in Nat
    BY <1>2
  <2> QED BY <2>1, <2>2, <2>3
<1>5. disk.doc.open = "ok"
  <2>1. h.bad <=> disk.doc.open = "denied"
    BY ReadingStart
  <2> QED BY <1>2, <2>1
<1>6. r.kind = "get" /\ ~Chunked(r)
  <2>1. ~(disk.doc.len >= BufferSize) /\ ~(disk.doc.len > BufferSize)
    BY <1>2, <1>4
  <2>2. r.kind = "get"
    BY <1>2, <1>3, <2>1
  <2> QED BY <2>1, <2>2 DEF Chunked
<1>7. rest \in Seq(Units)
  BY <1>1, ReadGood
<1>8. Carries(resp, rest)
  <2> HIDE DEF rest
  <2> QED BY <1>7, GoodResponses
<1>9. ~EmptyResponse.chunked
  BY DEF EmptyResponse
<1>10. ReadFromFile(c, stale) = SendRest(c, stale)
  BY <1>1 DEF ReadFromFile
<1>11. ~IsHead(c, stale)
  BY <1>3, <1>6 DEF IsHead
<1>12. SendRest(c, stale) = d
  BY <1>3, <1>9, <1>11 DEF SendRest
<1> HIDE DEF rest, resp
<1>13. /\ d.req = r /\ d.cgi = NoScript /\ d.file = NoFile /\ d.resp = resp
       /\ d.wbuf = FixedBodyResponse(resp) /\ d.rbuf = <<>>
  BY <1>3 DEF GoodClients, Clients
<1>14. RightAnswer(r) = [code |-> resp.code, body |-> resp.body]
  BY <1>1, <1>5, <1>6, <1>8, RightAnswers DEF Carries
<1> HIDE DEF d
<1>15. d.req \in {r, NoRequest} /\ d.wbuf = FixedBodyResponse(d.resp)
       /\ d.resp \in Responses /\ d.resp.code \in Nat /\ d.resp.complete /\ ~d.resp.chunked
       /\ RightAnswer(r) = [code |-> d.resp.code, body |-> d.resp.body]
  BY <1>8, <1>13, <1>14 DEF Carries
<1>16. Finishing(d, r, <<>>)
  BY <1>6, <1>13, <1>15, AnswerFinishes
<1> QED BY <1>10, <1>12, <1>13, <1>16

LEMMA ReadingWorks ==
  ASSUME NEW c \in GoodClients, NEW r \in Requests, disk \in Disks, KeepsPromise,
         r.kind = "head" => disk.doc.len \notin Avoided, NEW stale \in BOOLEAN,
         Reading(c, r), c.rbuf = <<>>
  PROVE  LET d == FillWriteBuffer(c, stale) IN
         Working(d, r, <<>>) /\ d.rbuf = <<>>
<1>1. c.file # NoFile /\ c.cgi = NoScript
  BY DEF Reading, DocFile
<1> DEFINE e == ReadFromFile(c, stale)
<1>2. CASE c.file.bad
  <2>1. Finishing(e, r, <<>>) /\ e.rbuf = <<>>
    BY <1>2, DeniedWorks
  <2>2. e.cgi = NoScript
    BY <2>1 DEF Finishing
  <2> HIDE DEF e
  <2>3. FillWriteBuffer(c, stale) = e
    BY <1>1, <2>2 DEF FillWriteBuffer, e
  <2> QED BY <2>1, <2>3 DEF Working
<1>3. CASE ~c.file.bad /\ ReadBufferFull(c.file)
  <2>1. (Chunking(e, r, <<>>) \/ Finishing(e, r, <<>>)) /\ e.rbuf = <<>>
    BY <1>3, FirstChunkWorks
  <2>2. e.cgi = NoScript
    BY <2>1 DEF Chunking, Finishing
  <2> HIDE DEF e
  <2>3. FillWriteBuffer(c, stale) = e
    BY <1>1, <2>2 DEF FillWriteBuffer, e
  <2> QED BY <2>1, <2>3 DEF Working
<1>4. CASE ~c.file.bad /\ ~ReadBufferFull(c.file) /\ c.file.eof
  <2>1. Finishing(e, r, <<>>) /\ e.rbuf = <<>>
    BY <1>4, SmallFileWorks
  <2>2. e.cgi = NoScript
    BY <2>1 DEF Finishing
  <2> HIDE DEF e
  <2>3. FillWriteBuffer(c, stale) = e
    BY <1>1, <2>2 DEF FillWriteBuffer, e
  <2> QED BY <2>1, <2>3 DEF Working
<1>5. CASE ~c.file.bad /\ ~ReadBufferFull(c.file) /\ ~c.file.eof
  <2>1. e = c
    BY <1>5 DEF ReadFromFile
  <2>2. FillWriteBuffer(c, stale) = c
    BY <1>1, <2>1 DEF FillWriteBuffer
  <2> QED BY <2>2 DEF Working
<1> QED BY <1>2, <1>3, <1>4, <1>5

LEMMA ChunkingStart ==
  ASSUME NEW c \in GoodClients, NEW r \in Requests, NEW u, disk \in Disks, KeepsPromise, Chunking(c, r, u)
  PROVE  /\ GoodHandler(c.file) /\ c.file # NoFile /\ c.file.src = "doc" /\ c.file.len = disk.doc.len
         /\ DocFile(c.file)
         /\ c.file.buf \in Nat /\ c.file.buf <= BufferSize
         /\ c.file.pos \in Nat /\ c.file.pos <= disk.doc.len /\ disk.doc.len \in Nat
         /\ ~c.file.bad
         /\ c.file.eof => c.file.buf < BufferSize
         /\ c.file.eof => c.file.pos = disk.doc.len
         /\ Off(c.file) \in Nat /\ Off(c.file) + c.file.buf = c.file.pos
         /\ ReadUnits(c.file) \in Seq(Units) /\ Len(ReadUnits(c.file)) = c.file.buf
         /\ Body("doc", Off(c.file)) \o ReadUnits(c.file) = Body("doc", c.file.pos)
         /\ Off(AfterRead(c.file)) = c.file.pos
<1> DEFINE h == c.file
<1>1. GoodHandler(h) /\ DocFile(h)
  BY ClientTypes DEF Chunking, DocFile, GoodFile
<1>2. disk.doc.open = "ok"
  BY DEF Chunking, Chunked
<1> HIDE DEF h
<1>3. h.src = "doc" /\ h.len = disk.doc.len /\ h # NoFile /\ ~h.bad /\ (h.eof => h.buf < BufferSize)
  BY <1>1, <1>2 DEF DocFile
<1>4. /\ h.buf \in Nat /\ h.pos \in Nat /\ h.buf <= BufferSize /\ h.pos <= h.len
      /\ h.eof => h.pos = h.len
  BY <1>1, <1>3 DEF GoodHandler, Handlers, KeepsPromise
<1>5. /\ Off(h) \in Nat /\ Off(h) + h.buf = h.pos
      /\ ReadUnits(h) \in Seq(Units) /\ Len(ReadUnits(h)) = h.buf
      /\ Body("doc", Off(h)) \o ReadUnits(h) = Body("doc", h.pos)
      /\ Off(AfterRead(h)) = h.pos
  BY <1>1, <1>3, ReadNext
<1>6. disk.doc.len \in Nat
  BY Served
<1> QED BY <1>1, <1>3, <1>4, <1>5, <1>6 DEF h

\* What AfterRead leaves alone.
LEMMA ReadKeeps ==
  ASSUME NEW h, GoodHandler(h)
  PROVE  /\ GoodHandler(AfterRead(h)) /\ AfterRead(h) # NoFile /\ AfterRead(h).eof = h.eof
         /\ AfterRead(h).src = h.src /\ AfterRead(h).len = h.len /\ AfterRead(h).bad = h.bad
         /\ AfterRead(h).denied = h.denied /\ AfterRead(h).fd = h.fd
<1>1. GoodHandler(AfterRead(h))
  BY ReadGood
<1>2. AfterRead(h) # NoFile
  BY <1>1, NotNone DEF GoodHandler
<1> QED BY <1>1, <1>2 DEF AfterRead, GoodHandler, Handlers

LEMMA NextChunkWorks ==
  ASSUME NEW c \in GoodClients, NEW r \in Requests, NEW u \in Seq(Tokens), disk \in Disks, KeepsPromise,
         NEW stale \in BOOLEAN, Chunking(c, r, u), ReadBufferFull(c.file), c.rbuf = <<>>
  PROVE  LET d == ReadFromFile(c, stale) IN
         Chunking(d, r, u) /\ d.rbuf = <<>>
<1> DEFINE h == c.file
           chunk == ReadUnits(h)
           next == [c EXCEPT !.state = "WRITE_RESPONSE", !.file = AfterRead(h)]
           d == [next EXCEPT !.resp = AfterChunk(c.resp, chunk), !.wbuf = @ \o Chunk(chunk)]
<1>1. /\ GoodHandler(h) /\ h # NoFile /\ DocFile(h)
      /\ h.buf \in Nat /\ h.buf <= BufferSize /\ h.pos \in Nat
      /\ h.eof => h.buf < BufferSize
      /\ Off(h) \in Nat /\ Off(h) + h.buf = h.pos
      /\ chunk \in Seq(Units) /\ Len(chunk) = h.buf
      /\ Body("doc", Off(h)) \o chunk = Body("doc", h.pos) /\ Off(AfterRead(h)) = h.pos
  BY ChunkingStart
<1>2. ~h.bad
  BY ChunkingStart
<1>3. BufferSize \in Nat /\ BufferSize > 0
  BY BufferSizeAssumption
<1>4. h.buf = BufferSize /\ ~h.eof
  <2>1. h.buf >= BufferSize
    BY DEF ReadBufferFull
  <2> HIDE DEF h
  <2> QED BY <1>1, <1>3, <2>1
<1>5. /\ Chunked(r) /\ c.req = r /\ c.cgi = NoScript
      /\ c.resp.code = 200 /\ c.resp.chunked /\ ~c.resp.complete
      /\ u \o c.wbuf = <<ChunkHead>> \o Body("doc", Off(h))
      /\ c.resp \in Responses /\ c.wbuf \in Seq(Tokens)
  BY ClientTypes DEF Chunking
<1>6. chunk # <<>> /\ Chunk(chunk) = chunk /\ chunk \in Seq(Tokens)
  <2> HIDE DEF chunk, h
  <2> QED BY <1>1, <1>3, <1>4, EmptySeq, UnitsAreTokens DEF Chunk
<1>7. SetCode(c.resp, 200) = c.resp
  BY <1>5 DEF SetCode, NoCode
<1>8. SendChunk(c, stale) = d
  BY ZenonT(60), <1>5, <1>7 DEF SendChunk
<1>9. AfterChunk(c.resp, chunk).code = 200 /\ AfterChunk(c.resp, chunk).chunked
      /\ ~AfterChunk(c.resp, chunk).complete
  <2> HIDE DEF chunk
  <2> QED BY SMTT(40), <1>1, <1>5, <1>6, ChunkSent
<1>10. /\ GoodHandler(AfterRead(h)) /\ AfterRead(h) # NoFile /\ AfterRead(h).eof = h.eof
       /\ AfterRead(h).src = h.src /\ AfterRead(h).len = h.len /\ AfterRead(h).bad = h.bad
       /\ AfterRead(h).denied = h.denied /\ AfterRead(h).fd = h.fd
  BY <1>1, ReadKeeps
<1> HIDE DEF chunk
<1>11. /\ d.req = r /\ d.cgi = NoScript /\ d.file = AfterRead(h) /\ d.resp = AfterChunk(c.resp, chunk)
       /\ d.wbuf = c.wbuf \o chunk /\ d.rbuf = <<>>
  BY <1>5, <1>6 DEF GoodClients, Clients
<1> HIDE DEF d
<1>12. ReadFromFile(c, stale) = d
  <2>1. ReadFromFile(c, stale) = IF d.file # NoFile /\ d.file.eof THEN SendRest(d, stale) ELSE d
    BY <1>2, <1>8 DEF ReadFromFile
  <2> HIDE DEF h
  <2> QED BY <1>4, <1>10, <1>11, <2>1
<1> HIDE DEF h
<1>13. DocFile(d.file)
  BY <1>1, <1>4, <1>10, <1>11 DEF DocFile
<1>14. u \o d.wbuf = <<ChunkHead>> \o Body("doc", Off(d.file))
  <2> DEFINE w == c.wbuf
             a == <<ChunkHead>>
             b == Body("doc", Off(h))
  <2>1. w \in Seq(Tokens) /\ u \o w = a \o b /\ b \o chunk = Body("doc", h.pos)
    BY <1>1, <1>5
  <2>5. a \in Seq(Tokens) /\ b \in Seq(Tokens)
    BY <1>1, BodyType, ChunkHeadType, TokenTypes DEF Sources
  <2>2. d.wbuf = w \o chunk /\ Off(d.file) = h.pos
    BY <1>1, <1>11
  <2> HIDE DEF w, b, a
  <2>3. u \o (w \o chunk) = a \o (b \o chunk)
    <3>1. (u \o w) \o chunk = u \o (w \o chunk)
      BY <1>6, <2>1, Associative
    <3>2. (a \o b) \o chunk = a \o (b \o chunk)
      BY ZenonT(60), <1>6, <2>5, Associative
    <3> QED BY <2>1, <3>1, <3>2
  <2>4. u \o (w \o chunk) = a \o Body("doc", h.pos)
    BY <2>1, <2>3
  <2> QED BY <2>2, <2>4 DEF a
<1>15. \E m \in 1..Off(d.file) : Off(d.file) = m * BufferSize
  <2>1. PICK m \in 1..Off(h) : Off(h) = m * BufferSize
    BY DEF Chunking, h
  <2>2. m \in Nat /\ Off(d.file) = m * BufferSize + BufferSize /\ m <= m * BufferSize
    <3>1. Off(d.file) = Off(h) + BufferSize /\ m <= Off(h) /\ m \in Nat /\ Off(h) \in Nat
      BY <1>1, <1>4, <1>11, <2>1
    <3> QED BY <1>3, <2>1, <3>1
  <2>3. (m + 1) * BufferSize = m * BufferSize + BufferSize
    BY <1>3, <2>2
  <2>4. m + 1 \in 1..Off(d.file)
    <3>1. Off(d.file) = Off(h) + BufferSize /\ m <= Off(h) /\ m \in Nat /\ Off(h) \in Nat
      BY <1>1, <1>4, <1>11, <2>1
    <3> QED BY <1>3, <3>1
  <2> QED BY <2>2, <2>3, <2>4
<1>16. Chunking(d, r, u)
  BY <1>5, <1>9, <1>11, <1>13, <1>14, <1>15 DEF Chunking
<1> QED BY <1>11, <1>12, <1>16

LEMMA LastChunksWork ==
  ASSUME NEW c \in GoodClients, NEW r \in Requests, NEW u \in Seq(Tokens), disk \in Disks, KeepsPromise,
         NEW stale \in BOOLEAN, Chunking(c, r, u), ~ReadBufferFull(c.file), c.file.eof, c.rbuf = <<>>
  PROVE  LET d == ReadFromFile(c, stale) IN
         Finishing(d, r, u) /\ d.rbuf = <<>>
<1> DEFINE h == c.file
           rest == ReadUnits(h)
           next == [c EXCEPT !.state = "WRITE_RESPONSE", !.file = NoFile]
           d == [next EXCEPT !.resp = AfterChunk(c.resp, <<>>), !.wbuf = @ \o Chunk(rest) \o Chunk(<<>>)]
           a == <<ChunkHead>>
           b == Body("doc", Off(h))
           w == c.wbuf
           z == <<LastChunk>>
<1>1. /\ GoodHandler(h) /\ h # NoFile
      /\ h.buf \in Nat /\ h.pos \in Nat /\ h.pos = disk.doc.len
      /\ Off(h) \in Nat /\ Off(h) + h.buf = h.pos
      /\ rest \in Seq(Units) /\ Len(rest) = h.buf
      /\ b \o rest = Body("doc", h.pos)
  BY ChunkingStart
<1>2. ~h.bad
  BY ChunkingStart
<1>3. \A m \in 1..disk.doc.len : disk.doc.len # m * BufferSize
  BY Served
<1>4. /\ Chunked(r) /\ c.req = r /\ c.cgi = NoScript
      /\ c.resp.chunked
      /\ u \o w = a \o b
      /\ c.resp \in Responses /\ w \in Seq(Tokens)
  BY ClientTypes DEF Chunking
<1>5. h.buf # 0
  <2>1. PICK m \in 1..Off(h) : Off(h) = m * BufferSize
    BY DEF Chunking
  <2> HIDE DEF h
  <2> QED BY <1>1, <1>3, <2>1
<1>6. rest # <<>> /\ Chunk(rest) = rest /\ rest \in Seq(Tokens)
  <2> HIDE DEF rest, h
  <2> QED BY <1>1, <1>5, EmptySeq, UnitsAreTokens DEF Chunk
<1>7. Chunk(<<>>) = z /\ <<>> \in Seq(Units) /\ z \in Seq(Tokens) /\ Len(z) = 1
  BY EmptySeq, TokenTypes DEF Chunk
<1>8. SendRest(c, stale) = d
  BY <1>4 DEF SendRest
<1>9. AfterChunk(c.resp, <<>>).complete
  BY <1>4, <1>7, ChunkSent
<1>10. ReadFromFile(c, stale) = d
  <2>1. ReadFromFile(c, stale) = SendRest(c, stale)
    BY <1>1, <1>2 DEF ReadFromFile
  <2> HIDE DEF d
  <2> QED BY <1>8, <2>1
<1> HIDE DEF rest, z
<1>11. /\ d.req = r /\ d.cgi = NoScript /\ d.file = NoFile /\ d.resp = AfterChunk(c.resp, <<>>)
       /\ d.wbuf = (w \o rest) \o z /\ d.rbuf = <<>>
  BY <1>4, <1>6, <1>7 DEF GoodClients, Clients
<1> HIDE DEF d
<1>12. Message(r) = (a \o Body("doc", disk.doc.len)) \o z
  BY <1>4 DEF Message, Chunked, z
<1>13. a \in Seq(Tokens) /\ b \in Seq(Tokens)
  BY <1>1, BodyType, ChunkHeadType, TokenTypes DEF Sources
<1> HIDE DEF w, b, a
<1>14. w \o rest \in Seq(Tokens) /\ Len(w \o rest) \in Nat
  <2>1. w \o rest \in Seq(Tokens)
    BY <1>4, <1>6, Appended
  <2> QED BY <2>1, LenProperties
<1>15. d.wbuf # <<>>
  <2>1. Len((w \o rest) \o z) = Len(w \o rest) + Len(z)
    <3> DEFINE x == w \o rest
    <3> HIDE DEF x
    <3>1. Len(x \o z) = Len(x) + Len(z)
      <4>1. x \in Seq(Tokens)
        BY <1>14 DEF x
      <4> QED BY <1>7, <4>1, Appended
    <3> QED BY <3>1 DEF x
  <2>2. Len((w \o rest) \o z) # 0
    BY <1>7, <1>14, <2>1
  <2>3. Len(<<>>) = 0
    BY EmptySeq
  <2> QED BY <1>11, <2>2, <2>3
<1>16. u \o d.wbuf = Message(r)
  <2> DEFINE x == w \o rest
  <2>1. x \in Seq(Tokens)
    BY <1>14
  <2>2. u \o x = a \o Body("doc", disk.doc.len)
    <3>1. (u \o w) \o rest = u \o (w \o rest)
      BY <1>4, <1>6, Associative
    <3>2. (a \o b) \o rest = a \o (b \o rest)
      BY ZenonT(60), <1>6, <1>13, Associative
    <3> QED BY <1>1, <1>4, <3>1, <3>2
  <2>3. d.wbuf = x \o z
    BY <1>11
  <2> HIDE DEF x
  <2>4. (u \o x) \o z = u \o (x \o z)
    BY SMTT(40), <1>7, <2>1, Associative
  <2> QED BY <1>12, <2>2, <2>3, <2>4
<1>17. Finishing(d, r, u)
  BY <1>9, <1>11, <1>15, <1>16 DEF Finishing
<1> QED BY <1>10, <1>11, <1>17

LEMMA ChunkingWorks ==
  ASSUME NEW c \in GoodClients, NEW r \in Requests, NEW u \in Seq(Tokens), disk \in Disks, KeepsPromise,
         NEW stale \in BOOLEAN, Chunking(c, r, u), c.rbuf = <<>>
  PROVE  LET d == FillWriteBuffer(c, stale) IN
         Working(d, r, u) /\ d.rbuf = <<>>
<1> DEFINE e == ReadFromFile(c, stale)
<1>1. c.file # NoFile /\ c.cgi = NoScript /\ ~c.file.bad
  <2>1. c.file # NoFile /\ ~c.file.bad
    BY ChunkingStart
  <2> QED BY <2>1 DEF Chunking
<1>2. (Chunking(e, r, u) \/ Finishing(e, r, u)) /\ e.rbuf = <<>>
  <2>1. CASE ReadBufferFull(c.file)
    BY <2>1, NextChunkWorks
  <2>2. CASE ~ReadBufferFull(c.file) /\ c.file.eof
    BY <2>2, LastChunksWork
  <2>3. CASE ~ReadBufferFull(c.file) /\ ~c.file.eof
    <3>1. e = c
      BY <1>1, <2>3 DEF ReadFromFile
    <3> QED BY <3>1
  <2> QED BY <2>1, <2>2, <2>3
<1>3. e.cgi = NoScript
  BY <1>2 DEF Chunking, Finishing
<1> HIDE DEF e
<1>4. FillWriteBuffer(c, stale) = e
  BY <1>1, <1>3 DEF FillWriteBuffer, e
<1> QED BY <1>2, <1>4 DEF Working

\* The output of a script, or what became of it.
LEMMA ScriptingWorks ==
  ASSUME NEW c \in GoodClients, NEW r \in Requests, disk \in Disks, KeepsPromise,
         Scripting(c, r), c.rbuf = <<>>
  PROVE  LET d == ReadFromCgi(c) IN
         Working(d, r, <<>>) /\ d.rbuf = <<>>
<1> DEFINE o == c.cgi
           g == AfterStatus(o)
           gone == [c EXCEPT !.cgi = NoScript]
           read == [gone EXCEPT !.state = "CGI_READ"]
           body == [i \in 1..g.got |-> Unit("script", i)]
           resp == SetFixedSizeBody(SetCode(c.resp, 200), body)
           wait == [c EXCEPT !.cgi = g, !.state = "CGI_WRITE"]
<1>1. /\ r.kind = "script" /\ disk.script.exec /\ c.req = r /\ c.resp = EmptyResponse /\ c.wbuf = <<>>
      /\ c.file = NoFile /\ o \in CgiMessages /\ ScriptOf(o)
  BY ClientTypes DEF Scripting
<1> HIDE DEF o
<1>2. /\ g \in CgiMessages /\ ScriptOf(g) /\ (g.reaped <=> ~g.alive)
      /\ g.got = o.got /\ g.alive = o.alive /\ g.status = o.status
      /\ g.complete = o.complete /\ g.late = o.late /\ g.tooLarge = o.tooLarge
  <2>1. /\ g \in CgiMessages
        /\ g.alive = o.alive /\ g.status = o.status /\ g.made = o.made /\ g.open = o.open
        /\ g.pipe = o.pipe /\ g.doomed = o.doomed /\ g.eof = o.eof /\ g.complete = o.complete
        /\ g.got = o.got /\ g.tooLarge = o.tooLarge /\ g.late = o.late
        /\ g.reaped = ~o.alive
    BY <1>1 DEF AfterStatus, CgiMessages
  <2> HIDE DEF g
  <2>2. g.alive \in BOOLEAN /\ g.reaped \in BOOLEAN
    BY <2>1 DEF CgiMessages
  <2> QED BY ZenonT(60), <1>1, <2>1, <2>2 DEF ScriptOf
<1>3. /\ gone \in GoodClients /\ gone.cgi = NoScript /\ gone.file = NoFile /\ gone.resp = EmptyResponse
      /\ gone.rbuf = <<>>
  BY <1>1 DEF GoodClients, Clients
<1>4. read \in GoodClients /\ read.cgi = NoScript /\ read.file = NoFile /\ read.rbuf = <<>>
  <2> HIDE DEF gone
  <2> QED BY <1>3 DEF GoodClients, Clients, States
<1>5. ReadFromCgi(c) = CASE g.late -> ReturnError(gone, 408)
        [] ~g.late /\ ExitCode(g) # 0 -> ReturnError(gone, IF g.tooLarge THEN 413 ELSE 500)
        [] ~g.late /\ ExitCode(g) = 0 /\ g.complete -> FixedAnswer(read, resp)
        [] OTHER -> wait
  BY DEF ReadFromCgi, o
<1>6. r.kind # "head" /\ ~Chunked(r)
  BY <1>1 DEF Chunked
<1>7. ASSUME NEW code \in {408, 413, 500}, ReadFromCgi(c) = ReturnError(gone, code),
             RightAnswer(r) = ErrorAnswer(code)
      PROVE  Working(ReadFromCgi(c), r, <<>>) /\ ReadFromCgi(c).rbuf = <<>>
  <2>1. code \in Nat /\ IsErrorCode(code)
    BY DEF IsErrorCode
  <2>2. Finishing(ReturnError(gone, code), r, <<>>) /\ ReturnError(gone, code).rbuf = <<>>
    <3> HIDE DEF gone
    <3> QED BY <1>3, <1>6, <1>7, <2>1, ErrorFinishes
  <2> QED BY <1>7, <2>2 DEF Working
<1>8. /\ disk.script.out \in Nat /\ disk.script.status \in Nat /\ MaxScriptBody \in Nat
      /\ disk.script.out > MaxScriptBody => disk.script.hangs
  BY Served
<1>9. /\ g.got \in Nat /\ g.pipe \in Nat /\ g.made \in Nat /\ g.status \in Nat
      /\ g.alive \in BOOLEAN /\ g.tooLarge \in BOOLEAN /\ g.late \in BOOLEAN /\ g.complete \in BOOLEAN
      /\ g.doomed \in BOOLEAN
  BY <1>2 DEF CgiMessages
<1>10. ExitCode(g) = IF g.alive THEN 0 ELSE g.status
  BY DEF ExitCode
<1> HIDE DEF g, gone, read, resp, wait
<1>11. CASE g.late
  <2>1. ~g.doomed /\ g.pipe = 0 /\ g.made = disk.script.out /\ disk.script.hangs /\ ~g.tooLarge
        /\ g.got <= MaxScriptBody /\ g.got + g.pipe = g.made
    BY <1>2, <1>11 DEF ScriptOf
  <2>2. disk.script.out <= MaxScriptBody
    BY <1>9, <2>1
  <2>3. RightAnswer(r) = ErrorAnswer(408)
    BY <1>1, <2>1, <2>2, RightScripts
  <2> QED BY <1>5, <1>7, <1>11, <2>3
<1>12. CASE ~g.late /\ ExitCode(g) # 0 /\ g.tooLarge
  <2>1. disk.script.out > MaxScriptBody
    BY <1>2, <1>12 DEF ScriptOf
  <2>2. RightAnswer(r) = ErrorAnswer(413)
    BY <1>1, <2>1, RightScripts
  <2> QED BY <1>5, <1>7, <1>12, <2>2
<1>13. CASE ~g.late /\ ExitCode(g) # 0 /\ ~g.tooLarge
  <2>1. ~g.alive /\ g.status # 0
    BY <1>10, <1>13
  <2>2. g.made = disk.script.out /\ ~disk.script.hangs /\ g.status = disk.script.status
    BY <1>2, <1>9, <1>13, <2>1 DEF ScriptOf
  <2>3. disk.script.out <= MaxScriptBody
    BY <1>8, <2>2
  <2>4. RightAnswer(r) = ErrorAnswer(500)
    BY <1>1, <2>1, <2>2, <2>3, RightScripts
  <2> QED BY <1>5, <1>7, <1>13, <2>4
<1>14. CASE ~g.late /\ ExitCode(g) = 0 /\ g.complete
  <2>1. ~g.alive /\ g.pipe = 0 /\ g.status = 0
    BY <1>2, <1>10, <1>14 DEF ScriptOf
  <2>2. ~g.doomed /\ ~g.tooLarge
    BY <1>2, <1>9, <2>1 DEF ScriptOf, KilledStatus
  <2>3. g.got + g.pipe = g.made /\ g.made = disk.script.out /\ ~disk.script.hangs /\ disk.script.status = 0
    BY <1>2, <2>1, <2>2 DEF ScriptOf
  <2>4. g.got = disk.script.out /\ disk.script.out <= MaxScriptBody
    BY <1>8, <1>9, <2>1, <2>3
  <2>5. RightAnswer(r) = [code |-> 200, body |-> Body("script", disk.script.out)]
    BY <1>1, <2>3, <2>4, RightScripts
  <2>6. body = Body("script", disk.script.out) /\ body \in Seq(Units)
    <3>1. body = Body("script", disk.script.out)
      BY <2>4 DEF Body
    <3> HIDE DEF body
    <3> QED BY <1>8, <3>1, BodyType DEF Sources
  <2> HIDE DEF body
  <2>7. Carries(resp, body)
    BY <1>1, <2>6, GoodResponses DEF resp
  <2>8. /\ resp \in Responses /\ resp.code \in Nat /\ resp.complete /\ ~resp.chunked
        /\ RightAnswer(r) = [code |-> resp.code, body |-> resp.body]
    BY <2>5, <2>6, <2>7 DEF Carries
  <2>9. Finishing(FixedAnswer(read, resp), r, <<>>) /\ FixedAnswer(read, resp).rbuf = read.rbuf
    BY <1>4, <1>6, <2>8, FixedFinishes
  <2>10. ReadFromCgi(c) = FixedAnswer(read, resp)
    BY <1>5, <1>14
  <2> QED BY <1>4, <2>9, <2>10 DEF Working
<1>15. CASE ~g.late /\ ExitCode(g) = 0 /\ ~g.complete
  <2>1. ReadFromCgi(c) = wait
    BY <1>5, <1>15
  <2>2. /\ wait.req = r /\ wait.resp = EmptyResponse /\ wait.wbuf = <<>> /\ wait.file = NoFile
        /\ wait.cgi = g /\ wait.rbuf = <<>>
    BY <1>1 DEF wait, GoodClients, Clients
  <2>3. g # NoScript
    BY <1>2, NotNone
  <2>4. Scripting(wait, r)
    BY <1>1, <1>2, <2>2, <2>3 DEF Scripting
  <2> QED BY <2>1, <2>2, <2>4 DEF Working
<1> QED BY <1>9, <1>11, <1>12, <1>13, <1>14, <1>15

\* What there is to write continues the message, whatever is being worked on.
LEMMA FillWorks ==
  ASSUME NEW c \in GoodClients, NEW r \in Requests, NEW u \in Seq(Tokens), disk \in Disks, KeepsPromise,
         r.kind = "head" => disk.doc.len \notin Avoided, NEW stale \in BOOLEAN,
         Working(c, r, u), c.rbuf = <<>>
  PROVE  LET d == FillWriteBuffer(c, stale) IN
         Working(d, r, u) /\ d.rbuf = <<>>
<1>1. CASE u = <<>> /\ Reading(c, r)
  BY <1>1, ReadingWorks
<1>2. CASE u = <<>> /\ Scripting(c, r)
  <2>1. FillWriteBuffer(c, stale) = ReadFromCgi(c)
    BY <1>2 DEF FillWriteBuffer, Scripting
  <2> QED BY <1>2, <2>1, ScriptingWorks
<1>3. CASE Chunking(c, r, u)
  BY <1>3, ChunkingWorks
<1>4. CASE Finishing(c, r, u)
  <2>1. FillWriteBuffer(c, stale) = c
    BY <1>4 DEF FillWriteBuffer, Finishing
  <2> QED BY <1>4, <2>1 DEF Working
<1> QED BY <1>1, <1>2, <1>3, <1>4 DEF Working

\* The connection writes nothing while there is nothing to answer.
LEMMA ClearStays ==
  ASSUME NEW c, Clear(c), NEW stale
  PROVE  FillWriteBuffer(c, stale) = c /\ c.wbuf = <<>>
BY DEF Clear, FillWriteBuffer

\* Of an answer that is not written whole the peer never takes a part.
LEMMA WorkEnds ==
  ASSUME NEW c \in GoodClients, NEW r \in Requests, NEW u \in Seq(Tokens), disk \in Disks, KeepsPromise,
         r.kind = "head" => disk.doc.len \notin Avoided, Working(c, r, u), u # <<>>
  PROVE  Ends(u, r) = {}
<1>1. c.wbuf \in Seq(Tokens)
  BY ClientTypes
<1>2. CASE Chunking(c, r, u)
  <2> DEFINE b == Body("doc", Off(c.file))
             s == <<ChunkHead>> \o b
  <2>1. b \in Seq(Units) /\ r.kind = "get"
    <3>1. Off(c.file) \in Nat
      BY <1>2, ChunkingStart
    <3> QED BY <1>2, <3>1, BodyType DEF Sources, Chunking, Chunked
  <2> HIDE DEF b
  <2>2. /\ s \in Seq(Tokens) /\ Len(s) = Len(b) + 1 /\ Len(b) \in Nat /\ s[1] = ChunkHead
        /\ \A i \in 1..Len(b) : s[1 + i] = b[i] /\ b[i] \in Units
    BY <2>1, ChunkHeadType, Head1
  <2>3. u \o c.wbuf = s
    BY <1>2 DEF Chunking, b
  <2> HIDE DEF s
  <2>4. /\ Len(u) \in Nat /\ Len(c.wbuf) \in Nat /\ Len(s) = Len(u) + Len(c.wbuf)
        /\ DOMAIN u = 1..Len(u) /\ \A i \in 1..Len(u) : s[i] = u[i]
    BY <1>1, <2>3, Appended
  <2>5. 1 \in 1..Len(u)
    BY <2>4, EmptySeq
  <2>6. u[1] = ChunkHead
    BY <2>2, <2>4, <2>5
  <2>7. \A k \in DOMAIN u : u[k] # LastChunk
    <3> TAKE k \in DOMAIN u
    <3>1. CASE k = 1
      BY <2>6, <3>1, ChunkHeadType
    <3>2. CASE k # 1
      <4>1. k - 1 \in 1..Len(b) /\ 1 + (k - 1) = k
        BY <2>2, <2>4, <3>2
      <4>2. u[k] = b[k - 1] /\ b[k - 1] \in Units
        BY <2>2, <2>4, <4>1
      <4> QED BY <4>2, UnitsAreNotLast
    <3> QED BY <3>1, <3>2
  <2>8. u[1].t = "head" /\ u[1].framing = "chunked" /\ r.kind # "head"
    BY <2>1, <2>6 DEF ChunkHead
  <2> QED BY <2>7, <2>8 DEF Ends
<1>3. CASE Finishing(c, r, u)
  BY <1>1, <1>3, PartEnds DEF Finishing
<1> QED BY <1>2, <1>3 DEF Working

\* A write moves the message on; once it is written whole, the client is as new.
LEMMA WriteWorks ==
  ASSUME NEW c \in GoodClients, NEW r \in Requests, NEW u \in Seq(Tokens),
         Working(c, r, u), c.rbuf = <<>>, NEW n \in 1..Len(c.wbuf)
  PROVE  LET d == AfterWrite(c, n)
             v == u \o SubSeq(c.wbuf, 1, n)
         IN  /\ v \in Seq(Tokens) /\ d.rbuf = <<>> /\ d.cgi = NoScript
             /\ \/ ~ResponseSent(d) /\ Working(d, r, v)
                \/ ResponseSent(d) /\ v = Message(r) /\ Clear(Reset(d)) /\ Reset(d).rbuf = <<>>
<1> DEFINE d == AfterWrite(c, n)
           x == SubSeq(c.wbuf, 1, n)
           y == SubSeq(c.wbuf, n + 1, Len(c.wbuf))
           v == u \o x
<1>1. c.wbuf \in Seq(Tokens) /\ c.wbuf # <<>>
  <2>1. c.wbuf \in Seq(Tokens) /\ Len(c.wbuf) \in Nat
    BY ClientTypes, LenProperties
  <2> QED BY <2>1, EmptySeq
<1>2. v \o y = u \o c.wbuf /\ x \in Seq(Tokens) /\ y \in Seq(Tokens)
  BY <1>1, Moved
<1>3. v \in Seq(Tokens)
  BY <1>2, Appended
<1>4. /\ d.req = c.req /\ d.resp = c.resp /\ d.file = c.file /\ d.cgi = c.cgi /\ d.rbuf = <<>>
      /\ d.wbuf = y /\ d.state = "WRITE_RESPONSE" /\ d \in GoodClients
  <2>1. d \in GoodClients
    BY AfterWriteGood, LenProperties, <1>1
  <2>2. c \in Clients
    BY DEF GoodClients
  <2>3. /\ d.req = c.req /\ d.resp = c.resp /\ d.file = c.file /\ d.cgi = c.cgi /\ d.rbuf = c.rbuf
        /\ d.wbuf = y /\ d.state = "WRITE_RESPONSE"
    <3> HIDE DEF y
    <3>1. d = [c EXCEPT !.state = "WRITE_RESPONSE", !.wbuf = y]
      BY DEF AfterWrite, y
    <3> HIDE DEF d
    <3> QED BY <2>2, <3>1 DEF Clients
  <2> HIDE DEF d, y
  <2> QED BY <2>1, <2>3
<1>5. d.cgi = NoScript
  <2> HIDE DEF d
  <2> QED BY <1>1, <1>4 DEF Working, Reading, Scripting, Chunking, Finishing
<1>6. CASE Chunking(c, r, u)
  <2>1. Chunking(d, r, v)
    <3> HIDE DEF d, v, y
    <3>1. v \o d.wbuf = u \o c.wbuf
      BY <1>2, <1>4
    <3> QED BY <1>4, <1>6, <3>1 DEF Chunking
  <2>2. ~ResponseSent(d)
    BY <2>1 DEF Chunking, ResponseSent
  <2> QED BY <1>3, <1>4, <1>5, <2>1, <2>2 DEF Working
<1>7. CASE Finishing(c, r, u)
  <2>1. CASE y # <<>>
    <3>1. Finishing(d, r, v)
      BY <1>2, <1>4, <1>7, <2>1 DEF Finishing
    <3>2. ~ResponseSent(d)
      BY <1>4, <2>1 DEF ResponseSent
    <3> QED BY <1>3, <1>4, <1>5, <3>1, <3>2 DEF Working
  <2>2. CASE y = <<>>
    <3>1. ResponseSent(d)
      BY <1>4, <1>7, <2>2 DEF ResponseSent, Finishing
    <3>2. v = Message(r)
      <4>1. v \o y = v
        BY <1>3, <2>2, ConcatEmptySeq
      <4> QED BY <1>2, <1>7, <4>1 DEF Finishing
    <3>3. /\ Reset(d).wbuf = <<>> /\ Reset(d).rbuf = <<>> /\ Reset(d).req = NoRequest
          /\ Reset(d).resp = EmptyResponse /\ Reset(d).file = NoFile /\ Reset(d).cgi = NoScript
          /\ Reset(d).state = "READY_FOR_INPUT"
      <4> HIDE DEF d
      <4> QED BY <1>4, <1>7, <2>2 DEF Reset, GoodClients, Clients, Finishing
    <3> QED BY <1>3, <1>4, <1>5, <3>1, <3>2, <3>3 DEF Clear
  <2> QED BY <2>1, <2>2
<1>8. CASE Reading(c, r) \/ Scripting(c, r)
  BY <1>1, <1>8 DEF Reading, Scripting
<1> QED BY <1>6, <1>7, <1>8 DEF Working

-----------------------------------------------------------------------------
(***************************************************************************)
(* What happens to a file or a script while its answer is worked on.       *)
(***************************************************************************)

\* A file that is read into a buffer with room ends with room in it.
LEMMA FileKept ==
  ASSUME NEW h \in Handlers, GoodHandler(h), DocFile(h)
  PROVE  /\ DocFile([h EXCEPT !.polled = TRUE]) /\ Off([h EXCEPT !.polled = TRUE]) = Off(h)
         /\ h.fd /\ h.buf < BufferSize => DocFile(ReadCb(h)) /\ Off(ReadCb(h)) = Off(h)
<1> DEFINE p == [h EXCEPT !.polled = TRUE]
           d == ReadCb(h)
<1>1. /\ p \in Handlers /\ p.src = h.src /\ p.len = h.len /\ p.bad = h.bad /\ p.denied = h.denied
      /\ p.fd = h.fd /\ p.eof = h.eof /\ p.pos = h.pos /\ p.buf = h.buf
  BY DEF Handlers
<1>2. p # NoFile
  BY <1>1, NotNone
<1>3. DocFile(p) /\ Off(p) = Off(h)
  <2> HIDE DEF p
  <2> QED BY <1>1, <1>2 DEF DocFile, Off
<1>4. ASSUME h.fd, h.buf < BufferSize
      PROVE  DocFile(d) /\ Off(d) = Off(h)
  <2>1. GoodHandler(d)
    BY <1>4, ReadCbGood
  <2>2. d # NoFile
    BY <2>1, NotNone DEF GoodHandler
  <2>3. Got(h) \in Nat /\ h.pos \in Nat /\ h.buf \in Nat
    BY <1>4, BufferSizeAssumption DEF Got, GoodHandler, Handlers
  <2>4. /\ d.src = h.src /\ d.len = h.len /\ d.bad = h.bad /\ d.denied = h.denied
        /\ d.pos = h.pos + Got(h) /\ d.buf = h.buf + Got(h)
        /\ d.eof <=> Got(h) = 0
    BY DEF ReadCb, Handlers
  <2> HIDE DEF d
  <2>5. Off(d) = Off(h)
    BY <2>3, <2>4 DEF Off
  <2>6. ~h.bad
    BY <1>4 DEF DocFile
  <2>7. d.eof => d.buf < BufferSize
    BY <1>4, <2>3, <2>4
  <2> QED BY <2>2, <2>4, <2>5, <2>6, <2>7 DEF DocFile
<1> QED BY <1>3, <1>4

\* The process goes on, and ends; the ten seconds pass.
LEMMA ProcessKept ==
  ASSUME NEW g \in CgiMessages, ScriptOf(g), disk \in Disks, KeepsPromise
  PROVE  /\ ScriptOf([g EXCEPT !.polled = TRUE])
         /\ CanWrite(g, disk.script) => ScriptOf(Written(g)) /\ Written(g).pipe > 0
         /\ CanExit(g, disk.script) => ScriptOf(Exited(g, disk.script.status))
         /\ g.alive /\ g.doomed => ScriptOf(Exited(g, KilledStatus))
         /\ Stuck(g, disk.script) => ScriptOf([g EXCEPT !.late = TRUE])
<1>1. g.made \in Nat /\ g.pipe \in Nat /\ g.got \in Nat /\ disk.script.out \in Nat
  BY Served DEF CgiMessages
<1>2. ScriptOf([g EXCEPT !.polled = TRUE])
  BY DEF ScriptOf, CgiMessages
<1>3. CanWrite(g, disk.script) => ScriptOf(Written(g)) /\ Written(g).pipe > 0
  <2> SUFFICES ASSUME CanWrite(g, disk.script) PROVE ScriptOf(Written(g)) /\ Written(g).pipe > 0
    OBVIOUS
  <2> DEFINE e == Written(g)
  <2>1. /\ e.alive = g.alive /\ e.open = g.open /\ e.reaped = g.reaped /\ e.made = g.made + 1
        /\ e.got = g.got /\ e.complete = g.complete /\ e.eof = g.eof /\ e.late = g.late /\ e.pipe = g.pipe + 1
        /\ e.status = g.status /\ e.tooLarge = g.tooLarge /\ e.doomed = g.doomed
    BY DEF Written, CgiMessages
  <2> HIDE DEF e
  <2>2. g.alive /\ ~g.doomed /\ g.made < disk.script.out
    BY DEF CanWrite
  <2> QED BY <1>1, <2>1, <2>2 DEF ScriptOf, e
<1>4. CanExit(g, disk.script) => ScriptOf(Exited(g, disk.script.status))
  <2> SUFFICES ASSUME CanExit(g, disk.script) PROVE ScriptOf(Exited(g, disk.script.status))
    OBVIOUS
  <2> DEFINE e == Exited(g, disk.script.status)
  <2>1. /\ ~e.alive /\ ~e.open /\ e.reaped = g.reaped /\ e.made = g.made
        /\ e.alive = FALSE /\ e.open = FALSE
        /\ e.got = g.got /\ e.complete = g.complete /\ e.eof = g.eof /\ e.late = g.late /\ e.pipe = g.pipe
        /\ e.status = disk.script.status /\ e.tooLarge = g.tooLarge /\ e.doomed = g.doomed
    BY DEF Exited, CgiMessages
  <2> HIDE DEF e
  <2>2. g.alive /\ ~g.doomed /\ g.made = disk.script.out /\ ~disk.script.hangs
    BY DEF CanExit
  <2> QED BY <1>1, <2>1, <2>2 DEF ScriptOf, e
<1>5. g.alive /\ g.doomed => ScriptOf(Exited(g, KilledStatus))
  BY <1>1 DEF Exited, ScriptOf, CgiMessages
<1>6. Stuck(g, disk.script) => ScriptOf([g EXCEPT !.late = TRUE])
  BY <1>1 DEF Stuck, ScriptOf, CgiMessages
<1> QED BY <1>2, <1>3, <1>4, <1>5, <1>6

\* Its output is read when there is some, or when there will be no more.
LEMMA OutputKept ==
  ASSUME NEW g \in CgiMessages, ScriptOf(g), disk \in Disks, KeepsPromise, g.pipe > 0 \/ ~g.open
  PROVE  ScriptOf(CgiRead(g)) /\ CgiRead(g).open = g.open
<1> DEFINE full == [g EXCEPT !.pipe = 0, !.got = 0, !.tooLarge = @ \/ ~g.reaped, !.doomed = @ \/ g.alive]
           more == [g EXCEPT !.pipe = 0, !.got = @ + g.pipe]
           done == [g EXCEPT !.complete = TRUE]
           end  == [g EXCEPT !.eof = TRUE]
<1>0. CgiRead(g) = CASE g.eof -> done [] AtEnd(g) -> end [] Overflow(g) -> full [] OTHER -> more
  BY DEF CgiRead
<1>1. /\ g.made \in Nat /\ g.pipe \in Nat /\ g.got \in Nat /\ disk.script.out \in Nat
      /\ MaxScriptBody \in Nat /\ (disk.script.out > MaxScriptBody => disk.script.hangs)
  BY Served DEF CgiMessages
<1>2. ~g.late
  BY <1>1 DEF ScriptOf
<1>3. CASE g.eof
  <2>1. CgiRead(g) = done
    <3> HIDE DEF done, end, full, more
    <3> QED BY <1>3, <1>0 DEF AtEnd, Overflow
  <2>2. /\ done.alive = g.alive /\ done.open = g.open /\ done.reaped = g.reaped /\ done.made = g.made
        /\ done.got = g.got /\ done.eof = g.eof /\ done.late = g.late /\ done.pipe = g.pipe
        /\ done.status = g.status /\ done.tooLarge = g.tooLarge /\ done.doomed = g.doomed
    BY DEF CgiMessages
  <2> HIDE DEF done
  <2>3. ScriptOf(done)
    BY <1>1, <1>3, <2>2 DEF ScriptOf
  <2> QED BY <2>1, <2>2, <2>3
<1>4. CASE ~g.eof /\ g.pipe = 0
  <2>1. ~g.alive
    BY <1>1, <1>4 DEF ScriptOf
  <2>2. CgiRead(g) = end
    <3>1. ~Overflow(g)
      BY <1>1, <1>4 DEF Overflow, ScriptOf
    <3> HIDE DEF done, end, full, more
    <3> QED BY <1>4, <1>0, <3>1 DEF AtEnd
  <2>3. /\ end.alive = g.alive /\ end.open = g.open /\ end.reaped = g.reaped /\ end.made = g.made
        /\ end.got = g.got /\ end.complete = g.complete /\ end.late = g.late /\ end.pipe = g.pipe
        /\ end.status = g.status /\ end.tooLarge = g.tooLarge /\ end.doomed = g.doomed
    BY DEF CgiMessages
  <2> HIDE DEF end
  <2>4. ScriptOf(end)
    BY <1>1, <1>4, <2>1, <2>3 DEF ScriptOf
  <2> QED BY <2>2, <2>3, <2>4
<1>5. CASE ~g.eof /\ g.pipe # 0 /\ Overflow(g)
  <2>1. ~g.tooLarge
    BY <1>1, <1>5 DEF ScriptOf
  <2>2. disk.script.out > MaxScriptBody
    BY <1>1, <1>5, <2>1 DEF Overflow, ScriptOf
  <2>3. g.alive /\ ~g.reaped
    BY <1>1, <2>1, <2>2 DEF ScriptOf
  <2>4. CgiRead(g) = full
    <3> HIDE DEF done, end, full, more
    <3> QED BY <1>5, <1>0 DEF AtEnd
  <2>5. /\ full.alive = g.alive /\ full.open = g.open /\ full.reaped = g.reaped /\ full.made = g.made
        /\ full.got = 0 /\ full.complete = g.complete /\ full.eof = g.eof /\ full.late = g.late
        /\ full.pipe = 0 /\ full.status = g.status
        /\ full.tooLarge = TRUE /\ full.doomed = TRUE
    BY <2>3 DEF CgiMessages
  <2> HIDE DEF full
  <2>6. ScriptOf(full)
    <3>1. g.made <= disk.script.out /\ g.open = g.alive /\ (g.complete => g.eof)
      BY DEF ScriptOf
    <3>2. /\ full.open = full.alive /\ (full.reaped => ~full.alive)
          /\ full.made <= disk.script.out /\ full.got <= MaxScriptBody
      BY <1>1, <2>3, <2>5, <3>1
    <3>3. /\ (full.complete => full.eof) /\ ~full.eof /\ ~full.late /\ full.alive
          /\ full.doomed = full.tooLarge /\ full.tooLarge
      BY <1>2, <1>5, <2>3, <2>5, <3>1
    <3> QED BY <2>2, <2>5, <3>2, <3>3 DEF ScriptOf
  <2> QED BY <2>4, <2>5, <2>6
<1>6. CASE ~g.eof /\ g.pipe # 0 /\ ~Overflow(g)
  <2>1. CgiRead(g) = more
    <3> HIDE DEF done, end, full, more
    <3> QED BY <1>6, <1>0 DEF AtEnd
  <2>2. /\ more.alive = g.alive /\ more.open = g.open /\ more.reaped = g.reaped /\ more.made = g.made
        /\ more.got = g.got + g.pipe /\ more.complete = g.complete /\ more.eof = g.eof
        /\ more.late = g.late /\ more.pipe = 0 /\ more.status = g.status
        /\ more.tooLarge = g.tooLarge /\ more.doomed = g.doomed
    BY DEF CgiMessages
  <2> HIDE DEF more
  <2>3. ~g.tooLarge /\ g.got + g.pipe <= MaxScriptBody
    BY <1>1, <1>6 DEF ScriptOf, Overflow
  <2>4. ScriptOf(more)
    BY <1>1, <1>2, <1>6, <2>2, <2>3 DEF ScriptOf
  <2> QED BY <2>1, <2>2, <2>4
<1> QED BY <1>3, <1>4, <1>5, <1>6

\* What is left of a script once its state was looked at.
LEMMA ScriptAfter ==
  ASSUME NEW c \in GoodClients, c.cgi # NoScript, disk \in Disks
  PROVE  ReadFromCgi(c).cgi \in {NoScript, AfterStatus(c.cgi)}
<1> DEFINE g    == AfterStatus(c.cgi)
           gone == [c EXCEPT !.cgi = NoScript]
           read == [gone EXCEPT !.state = "CGI_READ"]
           resp == SetFixedSizeBody(SetCode(c.resp, 200), [i \in 1..g.got |-> Unit("script", i)])
           wait == [c EXCEPT !.cgi = g, !.state = "CGI_WRITE"]
<1>1. gone \in GoodClients /\ gone.cgi = NoScript /\ read.cgi = NoScript /\ wait.cgi = g
  BY DEF GoodClients, Clients
<1>2. \A code \in {408, 413, 500} : ReturnError(gone, code).cgi = NoScript
  <2> HIDE DEF gone
  <2> QED BY <1>1, ReturnErrorGood
<1>3. FixedAnswer(read, resp).cgi = NoScript
  <2>1. read \in Clients
    BY DEF GoodClients, Clients, States
  <2> HIDE DEF read, resp
  <2> QED BY <1>1, <2>1 DEF FixedAnswer, Clients
<1>4. ReadFromCgi(c) \in {FixedAnswer(read, resp), wait} \union
                         {ReturnError(gone, code) : code \in {408, 413, 500}}
  BY DEF ReadFromCgi
<1> HIDE DEF gone, read, resp, wait, g
<1>5. ReadFromCgi(c).cgi \in {NoScript, g}
  BY <1>1, <1>2, <1>3, <1>4
<1> QED BY <1>5 DEF g

-----------------------------------------------------------------------------
(***************************************************************************)
(* The phases under the actions.                                           *)
(***************************************************************************)
LEMMA SameDisk ==
  ASSUME disk' = disk
  PROVE  /\ \A c, r, u : Working(c, r, u)' <=> Working(c, r, u)
         /\ \A r : Message(r)' = Message(r)
         /\ \A r : RightAnswer(r)' = RightAnswer(r)
         /\ (disk.doc.len)' = disk.doc.len
<1>1. \A r : RightAnswer(r)' = RightAnswer(r)
  BY DEF RightAnswer
<1>2. \A r : (Message(r)' = Message(r)) /\ (Chunked(r)' <=> Chunked(r))
  BY <1>1 DEF Message, Chunked
<1>3. \A c, r, u : Working(c, r, u)' <=> Working(c, r, u)
  BY DEF Working, Reading, Scripting, Chunking, Finishing, Message, RightAnswer, Chunked, DocFile, ScriptOf
<1> QED BY <1>1, <1>2, <1>3

LEMMA SameQuestion ==
  ASSUME peer' = peer
  PROVE  Current' = Current /\ (\A r : Pending(r)' = Pending(r))
BY DEF Current, Pending

\* What an action keeps when all that it does is to work on the answer.
LEMMA PhasesKept ==
  ASSUME Phases, disk' = disk, peer' = peer, inq' = inq, sock' = sock,
         SentPhase \/ WorkPhase => ~idle',
         sock.valid /\ Clear(client) => client' = client,
         WorkPhase => Working(client', Current, peer.unread) /\ client'.rbuf = <<>>
  PROVE  Phases'
<1>1. /\ Current' = Current /\ Pending(Current)' = Pending(Current)
      /\ Message(Current)' = Message(Current) /\ NoInput' = NoInput
  BY SameDisk, SameQuestion DEF NoInput
<1>2. AtRest => AtRest'
  BY DEF AtRest, Clear
<1>3. CASE QuietPhase
  BY <1>1, <1>2, <1>3 DEF Phases, QuietPhase
<1>4. CASE OneWaits /\ (SentPhase \/ WorkPhase \/ DonePhase)
  <2>1. OneWaits'
    BY <1>1, <1>4 DEF OneWaits
  <2>2. CASE SentPhase
    <3>1. client' = client
      BY <2>2 DEF SentPhase
    <3>2. Clear(client)'
      BY <2>2, <3>1 DEF SentPhase, Clear
    <3>3. SentPhase'
      BY <1>1, <2>2, <3>1, <3>2 DEF SentPhase
    <3> QED BY <2>1, <3>3 DEF Phases
  <2>3. CASE WorkPhase
    <3>1. Working(client', Current', peer'.unread)
      BY <1>1, <2>3
    <3>2. Working(client, Current, peer.unread)'
      BY <3>1, SameDisk
    <3>3. WorkPhase'
      BY <1>1, <2>3, <3>2 DEF WorkPhase
    <3> QED BY <2>1, <3>3 DEF Phases
  <2>4. CASE DonePhase
    BY <1>1, <1>2, <2>1, <2>4 DEF Phases, DonePhase
  <2> QED BY <1>4, <2>2, <2>3, <2>4
<1> QED BY <1>3, <1>4 DEF Phases

LEMMA CurrentType ==
  ASSUME IInv, OneWaits
  PROVE  Current \in Requests /\ peer.unread \in Seq(Tokens) /\ disk \in Disks /\ client \in GoodClients
<1>1. peer.asked \in Seq(Requests) /\ peer.answers \in Seq(Answers) /\ peer.unread \in Seq(Tokens)
  BY DEF IInv, TypeOK, Peers
<1>2. Len(peer.answers) \in Nat /\ Len(peer.asked) \in Nat
  BY <1>1, LenProperties
<1>3. Len(peer.answers) + 1 \in 1..Len(peer.asked)
  BY <1>2 DEF OneWaits
<1>4. Current \in Requests
  BY <1>1, <1>3, ElementOfSeq DEF Current
<1> QED BY <1>1, <1>4 DEF IInv, TypeOK, GoodClients

\* A file or a script may change while it is worked on, as long as it stays one.
LEMMA WorkKept ==
  ASSUME NEW c, NEW d, NEW r, NEW u, Working(c, r, u),
         d.req = c.req, d.resp = c.resp, d.wbuf = c.wbuf,
         c.file = NoFile => d.file = NoFile,
         DocFile(c.file) => DocFile(d.file) /\ Off(d.file) = Off(c.file),
         c.cgi = NoScript => d.cgi = NoScript,
         c.cgi # NoScript /\ ScriptOf(c.cgi) => d.cgi # NoScript /\ ScriptOf(d.cgi)
  PROVE  Working(d, r, u)
<1>1. CASE u = <<>> /\ Reading(c, r)
  BY <1>1 DEF Working, Reading
<1>2. CASE u = <<>> /\ Scripting(c, r)
  BY <1>2 DEF Working, Scripting
<1>3. CASE Chunking(c, r, u)
  BY <1>3 DEF Working, Chunking
<1>4. CASE Finishing(c, r, u)
  BY <1>4 DEF Working, Finishing
<1> QED BY <1>1, <1>2, <1>3, <1>4 DEF Working

LEMMA PollKeeps ==
  ASSUME IInv, KeepsPromise, ~peer.left, Caused, Phases, NEW writable \in BOOLEAN, Poll(writable)
  PROVE  Caused' /\ Phases'
<1> DEFINE file == client.file # NoFile /\ client.file.fd
           some == client.cgi # NoScript /\ (Readable(client.cgi) \/ HungUp(client.cgi))
           f == IF file THEN [client.file EXCEPT !.polled = TRUE] ELSE client.file
           g == IF some THEN [client.cgi EXCEPT !.polled = TRUE] ELSE client.cgi
<1>1. client \in Clients /\ disk \in Disks /\ GoodFile(client.file)
      /\ client.cgi \in CgiMessages \union {NoScript}
  BY DEF IInv, TypeOK, Clients
<1>2. /\ "in" \in todo' => inq # <<>>
      /\ "data" \in todo' => client.cgi # NoScript /\ client.cgi.pipe > 0
      /\ "hangup" \in todo' => client.cgi # NoScript /\ ~client.cgi.open
      /\ UNCHANGED <<sock, listed, inq, idle, disk, peer, throws>>
  BY DEF Poll, Events, Rank, Readable, HungUp
<1>3. client' = [client EXCEPT !.file = f, !.cgi = g]
  <2>1. some <=> (client.cgi # NoScript /\ Readable(client.cgi)) \/ (client.cgi # NoScript /\ HungUp(client.cgi))
    OBVIOUS
  <2> QED BY <2>1 DEF Poll
<1> HIDE DEF f, g
<1>4. client'.file = f /\ client'.cgi = g /\ client'.req = client.req /\ client'.resp = client.resp
      /\ client'.wbuf = client.wbuf /\ client'.rbuf = client.rbuf
  BY <1>1, <1>3 DEF Clients
<1>5. client.cgi = NoScript => g = client.cgi
  BY DEF g
<1>6. client.file = NoFile => f = client.file
  BY DEF f
<1>7. client.cgi # NoScript => g \in CgiMessages /\ g # NoScript /\ g.pipe = client.cgi.pipe /\ g.open = client.cgi.open
  <2> SUFFICES ASSUME client.cgi # NoScript
               PROVE  g \in CgiMessages /\ g # NoScript /\ g.pipe = client.cgi.pipe /\ g.open = client.cgi.open
    OBVIOUS
  <2>1. g \in CgiMessages /\ g.pipe = client.cgi.pipe /\ g.open = client.cgi.open
    BY <1>1 DEF g, CgiMessages
  <2> QED BY <2>1, NotNone
<1>8. Caused'
  <2>1. ScriptEvent' => client.cgi # NoScript /\ g.pipe = client.cgi.pipe /\ g.open = client.cgi.open
    BY <1>4, <1>5, <1>7 DEF ScriptEvent
  <2> QED BY <1>2, <1>4, <2>1 DEF Caused
<1>9. Clear(client) => client' = client
  <2> SUFFICES ASSUME Clear(client) PROVE client' = client
    OBVIOUS
  <2>1. f = client.file /\ g = client.cgi
    BY <1>5, <1>6 DEF Clear
  <2> QED BY <1>1, <1>3, <2>1 DEF Clients
<1>10. ASSUME WorkPhase
       PROVE  Working(client', Current, peer.unread) /\ client'.rbuf = <<>>
  <2>1. ScriptOf(client.cgi) /\ client.cgi # NoScript => ScriptOf(g)
    BY <1>1, ProcessKept DEF g
  <2>2. DocFile(client.file) => DocFile(f) /\ Off(f) = Off(client.file)
    <3>1. DocFile(client.file) => GoodHandler(client.file) /\ client.file \in Handlers
      BY <1>1 DEF DocFile, GoodFile, GoodHandler
    <3> QED BY <3>1, FileKept DEF f
  <2>3. Working(client', Current, peer.unread)
    BY <1>4, <1>5, <1>6, <1>7, <1>10, <2>1, <2>2, WorkKept DEF WorkPhase
  <2> QED BY <1>4, <1>10, <2>3 DEF WorkPhase
<1>11. SentPhase \/ WorkPhase => ~idle'
  BY <1>2 DEF SentPhase, WorkPhase
<1> QED BY <1>2, <1>8, <1>9, <1>10, <1>11, PhasesKept

LEMMA MessageNotEmpty ==
  ASSUME NEW r \in Requests, disk \in Disks, KeepsPromise, r.kind = "head" => disk.doc.len \notin Avoided
  PROVE  Message(r) # <<>>
<1> PICK code \in Nat, body \in Seq(Units) :
           \/ Message(r) = <<ChunkHead>>
           \/ Message(r) = (<<ChunkHead>> \o body) \o <<LastChunk>>
           \/ Message(r) = FixedMessage([code |-> code, body |-> body])
  BY MessageOf
<1>1. Len((<<ChunkHead>> \o body) \o <<LastChunk>>) = Len(body) + 2 /\ Len(body) \in Nat
  BY ChunkedTokens
<1>2. Len(FixedMessage([code |-> code, body |-> body])) = Len(body) + 1
  BY FixedTokens
<1> QED BY SMTT(40), <1>1, <1>2, EmptySeq

LEMMA FileReadKeeps ==
  ASSUME IInv, KeepsPromise, ~peer.left, Caused, Phases, FileReadCb
  PROVE  Caused' /\ Phases'
<1> DEFINE h == client.file
<1>1. /\ First("file") /\ "file" \in Events /\ "file" \in todo /\ todo' = todo \ {"file"}
      /\ h # NoFile /\ h.fd /\ h.polled
      /\ client' = [client EXCEPT !.file = ReadCb(h)]
      /\ UNCHANGED <<sock, listed, inq, idle, disk, peer, throws>>
  BY DEF FileReadCb, FileEvent, Calls, First, Events, Rank, KeepsPromise
<1>2. "out" \notin todo
  BY <1>1, CallsFirst
<1>3. GoodHandler(h) /\ h \in Handlers /\ (h.bad \/ h.buf < BufferSize)
  BY <1>1, <1>2 DEF IInv, GoodFile, GoodHandler, DrainedFirst, Drained, Fresh, KeepsPromise
<1>4. client \in Clients /\ client.file # NoFile
  BY <1>1 DEF IInv, TypeOK
<1> HIDE DEF h
<1>5. client'.file = ReadCb(h) /\ client'.cgi = client.cgi /\ client'.req = client.req /\ client'.resp = client.resp
      /\ client'.wbuf = client.wbuf /\ client'.rbuf = client.rbuf
  BY <1>1, <1>4 DEF Clients
<1>6. Caused'
  BY <1>1, <1>5 DEF Caused, ScriptEvent
<1>7. ~Clear(client)
  BY <1>4 DEF Clear
<1>8. DocFile(h) => DocFile(ReadCb(h)) /\ Off(ReadCb(h)) = Off(h)
  <2>1. DocFile(h) => h.buf < BufferSize
    BY <1>1, <1>3 DEF DocFile
  <2> QED BY <1>1, <1>3, <2>1, FileKept
<1>9. ASSUME WorkPhase
      PROVE  Working(client', Current, peer.unread) /\ client'.rbuf = <<>>
  <2>1. Working(client', Current, peer.unread)
    BY <1>4, <1>5, <1>8, <1>9, WorkKept DEF WorkPhase, h
  <2> QED BY <1>5, <1>9, <2>1 DEF WorkPhase
<1>10. SentPhase \/ WorkPhase => ~idle'
  BY <1>1 DEF SentPhase, WorkPhase
<1> QED BY <1>1, <1>6, <1>7, <1>9, <1>10, PhasesKept

LEMMA CgiReadKeeps ==
  ASSUME IInv, KeepsPromise, ~peer.left, Caused, Phases, CgiReadCb
  PROVE  Caused' /\ Phases'
<1> DEFINE g == client.cgi
<1>1. PICK event \in {"data", "hangup"} :
        First(event) /\ todo' = IF KillThrows(g) THEN {} ELSE todo \ {event}
  BY DEF CgiReadCb
<1>2. /\ g # NoScript /\ g.polled /\ ScriptEvent
      /\ client' = [client EXCEPT !.cgi = CgiRead(g)]
      /\ UNCHANGED <<sock, listed, inq, idle, disk, peer, throws>>
  BY DEF CgiReadCb, ScriptEvent
<1>3. client \in Clients /\ g \in CgiMessages /\ disk \in Disks
  BY <1>2 DEF IInv, TypeOK, Clients
<1>4. g.pipe > 0 \/ ~g.open
  BY <1>1, <1>2 DEF First, Caused
<1>5. "data" \notin todo' /\ todo' \subseteq todo
  <2>1. event = "hangup" => "data" \notin todo
    BY <1>1 DEF First, Rank
  <2> QED BY <1>1, <2>1
<1>6. "hangup" \in todo' => ~g.open
  BY <1>2, <1>5 DEF Caused
<1> HIDE DEF g
<1>7. client'.cgi = CgiRead(g) /\ client'.file = client.file /\ client'.req = client.req
      /\ client'.resp = client.resp /\ client'.wbuf = client.wbuf /\ client'.rbuf = client.rbuf
  BY <1>2, <1>3 DEF Clients
<1>8. CgiRead(g).open = g.open
  BY <1>3 DEF CgiRead, CgiMessages
<1>9. Caused'
  BY <1>2, <1>5, <1>6, <1>7, <1>8 DEF Caused, ScriptEvent
<1>10. ~Clear(client)
  BY <1>2 DEF Clear, g
<1>11. ScriptOf(g) => ScriptOf(CgiRead(g)) /\ CgiRead(g) # NoScript
  <2>1. CgiRead(g) \in CgiMessages
    BY <1>3, ScriptGood, Served
  <2> QED BY <1>3, <1>4, <2>1, OutputKept, NotNone
<1>12. ASSUME WorkPhase
       PROVE  Working(client', Current, peer.unread) /\ client'.rbuf = <<>>
  <2>1. /\ client.cgi # NoScript
        /\ ScriptOf(client.cgi) => client'.cgi # NoScript /\ ScriptOf(client'.cgi)
    BY <1>2, <1>7, <1>11 DEF g
  <2>2. /\ client.file = NoFile => client'.file = NoFile
        /\ DocFile(client.file) => DocFile(client'.file) /\ Off(client'.file) = Off(client.file)
    BY <1>7
  <2>3. Working(client, Current, peer.unread)
    BY <1>12 DEF WorkPhase
  <2>4. Working(client', Current, peer.unread)
    BY <1>7, <2>1, <2>2, <2>3, WorkKept
  <2> QED BY <1>7, <1>12, <2>4 DEF WorkPhase
<1>13. SentPhase \/ WorkPhase => ~idle'
  BY <1>2 DEF SentPhase, WorkPhase
<1> QED BY <1>2, <1>9, <1>10, <1>12, <1>13, PhasesKept

\* Nothing changes but the list of events that are due.
LEMMA SameKeeps ==
  ASSUME Caused, Phases, UNCHANGED <<client, sock, inq, idle, disk, peer>>, todo' \subseteq todo
  PROVE  Caused' /\ Phases'
<1>1. Caused'
  BY DEF Caused, ScriptEvent
<1>2. SentPhase \/ WorkPhase => ~idle'
  BY DEF SentPhase, WorkPhase
<1>3. WorkPhase => Working(client', Current, peer.unread) /\ client'.rbuf = <<>>
  BY DEF WorkPhase
<1> QED BY <1>1, <1>2, <1>3, PhasesKept

LEMMA SkipKeeps ==
  ASSUME Caused, Phases, SkipDead \/ OtherThrows \/ (Sweep /\ ~Dead)
  PROVE  Caused' /\ Phases'
<1>1. UNCHANGED <<client, sock, inq, idle, disk, peer>> /\ todo' \subseteq todo
  BY DEF SkipDead, OtherThrows, Sweep, Calls
<1> QED BY <1>1, SameKeeps

\* A connection that is erased is between answers.
LEMMA SweepKeeps ==
  ASSUME IInv, KeepsPromise, ~peer.left, Caused, Phases, Sweep, Dead
  PROVE  Caused' /\ Phases' /\ ((sock.valid /\ ~Waiting(peer)) \/ ~sock.valid \/ peer.unread # <<>>)
<1>1. /\ sock' = [sock EXCEPT !.valid = FALSE] /\ ~sock'.valid /\ ~sock'.eof /\ inq' = <<>>
      /\ client' = NewClient("READY_FOR_INPUT")
      /\ First("sweep") /\ "sweep" \in Events /\ todo' = todo \ {"sweep"}
      /\ UNCHANGED <<idle, disk, peer, throws>>
  BY DEF Sweep, Calls, Caused, IInv, TypeOK, Events, Rank
<1>2. "in" \notin todo'
  BY <1>1, CallsFirst
<1>3. Caused'
  BY <1>1, <1>2 DEF Caused, ScriptEvent, NewClient, NoScript
<1>4. ~(sock.valid /\ ~idle)
  BY DEF Dead, Caused
<1>5. QuietPhase \/ (OneWaits /\ DonePhase)
  BY <1>4 DEF Phases, SentPhase, WorkPhase
<1>6. AtRest' /\ (NoInput => NoInput')
  BY <1>1 DEF AtRest, NoInput
<1>7. Current' = Current /\ Message(Current)' = Message(Current)
  BY <1>1, SameDisk, SameQuestion
<1>8. CASE QuietPhase
  <2>1. QuietPhase'
    BY <1>1, <1>6, <1>8 DEF QuietPhase
  <2>2. ~Waiting(peer)
    <3>1. Len(peer.answers) \in Nat
      BY LenProperties DEF IInv, TypeOK, Peers
    <3> QED BY <1>8, <3>1 DEF QuietPhase, Waiting
  <2> QED BY <1>3, <2>1, <2>2 DEF Phases
<1>9. CASE OneWaits /\ DonePhase
  <2>1. OneWaits' /\ DonePhase'
    BY <1>1, <1>6, <1>7, <1>9 DEF OneWaits, DonePhase
  <2>2. peer.unread # <<>>
    BY <1>9, CurrentType, MessageNotEmpty DEF DonePhase, OneWaits
  <2> QED BY <1>3, <2>1, <2>2 DEF Phases
<1> QED BY <1>5, <1>8, <1>9

LEMMA ScriptStepKeeps ==
  ASSUME IInv, KeepsPromise, Caused, Phases, Script
  PROVE  Caused' /\ Phases'
<1> DEFINE g == client.cgi
<1>1. client \in Clients /\ disk \in Disks /\ g # NoScript
  BY DEF Script, ScriptWrites, ScriptExits, ScriptDies, ScriptTimesOut, IInv, TypeOK
<1>2. g \in CgiMessages
  BY <1>1 DEF Clients
<1>3. disk.script.status \in Nat /\ KilledStatus \in Nat /\ g.pipe \in Nat
  BY <1>1, <1>2, Served DEF KilledStatus, CgiMessages
<1>4. PICK x \in CgiMessages :
        /\ ScriptStep(x)
        /\ ScriptOf(g) => ScriptOf(x)
        /\ x.polled = g.polled /\ (g.pipe > 0 => x.pipe > 0) /\ (~g.open => ~x.open)
  <2>1. CASE ScriptWrites
    <3>1. Written(g).polled = g.polled /\ Written(g).pipe > 0 /\ Written(g).open = g.open
      BY <1>2, <1>3 DEF Written, CgiMessages
    <3>2. ScriptStep(Written(g)) /\ CanWrite(g, disk.script)
      BY <2>1 DEF ScriptWrites
    <3> HIDE DEF g
    <3> QED BY <1>1, <1>2, <1>3, <3>1, <3>2, ScriptGood, ProcessKept
  <2>2. CASE ScriptExits
    <3> DEFINE x == Exited(g, disk.script.status)
    <3>1. x.polled = g.polled /\ x.pipe = g.pipe /\ ~x.open
      BY <1>2, <1>3 DEF Exited, CgiMessages
    <3>2. ScriptStep(x) /\ CanExit(g, disk.script)
      BY <2>2 DEF ScriptExits
    <3> HIDE DEF g
    <3> QED BY <1>1, <1>2, <1>3, <3>1, <3>2, ScriptGood, ProcessKept
  <2>3. CASE ScriptDies
    <3> DEFINE x == Exited(g, KilledStatus)
    <3>1. x.polled = g.polled /\ x.pipe = g.pipe /\ ~x.open
      BY <1>2, <1>3 DEF Exited, CgiMessages
    <3>2. ScriptStep(x) /\ g.alive /\ g.doomed
      BY <2>3 DEF ScriptDies
    <3> HIDE DEF g
    <3> QED BY <1>1, <1>2, <1>3, <3>1, <3>2, ScriptGood, ProcessKept
  <2>4. CASE ScriptTimesOut
    <3> DEFINE x == [g EXCEPT !.late = TRUE]
    <3>1. x.polled = g.polled /\ x.pipe = g.pipe /\ x.open = g.open
      BY <1>2, <1>3 DEF CgiMessages
    <3>2. ScriptStep(x) /\ Stuck(g, disk.script)
      BY <2>4 DEF ScriptTimesOut, KeepsPromise
    <3> HIDE DEF g
    <3> QED BY <1>1, <1>2, <1>3, <3>1, <3>2, ScriptGood, ProcessKept
  <2> QED BY <2>1, <2>2, <2>3, <2>4 DEF Script
<1>5. /\ client' = [client EXCEPT !.cgi = x]
      /\ UNCHANGED <<sock, listed, inq, todo, idle, disk, peer, throws>>
  BY <1>4 DEF ScriptStep
<1>6. client'.cgi = x /\ client'.file = client.file /\ client'.req = client.req
      /\ client'.resp = client.resp /\ client'.wbuf = client.wbuf /\ client'.rbuf = client.rbuf
  BY <1>1, <1>5 DEF Clients
<1>7. Caused'
  BY <1>1, <1>4, <1>5, <1>6 DEF Caused, ScriptEvent
<1>8. ~Clear(client)
  BY <1>1 DEF Clear
<1>9. ASSUME WorkPhase
      PROVE  Working(client', Current, peer.unread) /\ client'.rbuf = <<>>
  <2>1. /\ client.cgi # NoScript
        /\ ScriptOf(client.cgi) => client'.cgi # NoScript /\ ScriptOf(client'.cgi)
    BY <1>1, <1>4, <1>6, NotNone
  <2>2. /\ client.file = NoFile => client'.file = NoFile
        /\ DocFile(client.file) => DocFile(client'.file) /\ Off(client'.file) = Off(client.file)
    BY <1>6
  <2>3. Working(client, Current, peer.unread)
    BY <1>9 DEF WorkPhase
  <2>4. Working(client', Current, peer.unread)
    BY <1>6, <2>1, <2>2, <2>3, WorkKept
  <2> QED BY <1>6, <1>9, <2>4 DEF WorkPhase
<1>10. SentPhase \/ WorkPhase => ~idle'
  BY <1>5 DEF SentPhase, WorkPhase
<1> QED BY <1>5, <1>7, <1>8, <1>9, <1>10, PhasesKept

\* A connection that has something to read or to write is not idle.
LEMMA IdleKeeps ==
  ASSUME IInv, KeepsPromise, Caused, Phases, IdleTimeout
  PROVE  Caused' /\ Phases'
<1>1. /\ UNCHANGED <<client, sock, listed, inq, todo, disk, peer, throws>>
      /\ ~peer.half /\ NothingToDo
      /\ client.wbuf = <<>> /\ client.file = NoFile /\ client.cgi = NoScript
  BY DEF IdleTimeout, NothingToDo, KeepsPromise
<1>2. Caused'
  BY <1>1 DEF Caused, ScriptEvent
<1>3. ~SentPhase
  <2> SUFFICES ASSUME SentPhase PROVE FALSE
    OBVIOUS
  <2>1. inq = <<>> /\ Len(client.rbuf) <= 1
    BY <1>1 DEF NothingToDo, SentPhase, Clear
  <2>2. client.rbuf \in Seq(Fragments)
    BY DEF IInv, TypeOK, Clients
  <2>3. client.rbuf \o inq = client.rbuf
    BY <2>1, <2>2, ConcatEmptySeq
  <2>4. client.rbuf = <<[req |-> Current, part |-> 1], [req |-> Current, part |-> 2]>>
    BY <1>1, <2>3 DEF SentPhase, Pending
  <2>5. Len(client.rbuf) = 2
    BY <2>4
  <2> QED BY <2>1, <2>5
<1>4. ~WorkPhase
  BY <1>1, NotNone DEF WorkPhase, Working, Reading, Scripting, Chunking, Finishing, DocFile
<1> QED BY <1>1, <1>2, <1>3, <1>4, PhasesKept

\* A request may start a script; no event of it is due.
LEMMA NewScript ==
  ASSUME NEW c \in GoodClients, c.rbuf # <<>>, disk \in Disks
  PROVE  HandleInput(c).cgi \in {c.cgi, Start}
<1> DEFINE a == [c EXCEPT !.state = "READ_REQUEST"]
           p == Parse(a)
           b == [p EXCEPT !.state = "BUILDING_RESPONSE"]
<1>1. a \in GoodClients /\ a.cgi = c.cgi /\ a.rbuf # <<>>
  BY ClientTypes DEF GoodClients, Clients, States
<1>2. p.cgi = c.cgi
  <2> DEFINE d == [a EXCEPT !.rbuf = SubSeq(@, 3, Len(@))]
             e == [d EXCEPT !.req = a.rbuf[1].req]
  <2> HIDE DEF a
  <2>1. a.rbuf \in Seq(Fragments) /\ Len(a.rbuf) # 0
    BY <1>1, ClientTypes, EmptySeq
  <2>2. a.rbuf[1].req \in Requests
    <3>1. a.rbuf[1] \in Fragments
      BY <2>1, LenProperties, ElementOfSeq
    <3> QED BY <3>1 DEF Fragments
  <2>3. SubSeq(a.rbuf, 3, Len(a.rbuf)) \in Seq(Fragments)
    BY <2>1, SubSeqProperties, LenProperties
  <2>4. d \in GoodClients /\ d.cgi = a.cgi
    BY <1>1, <2>3, ClientTypes DEF GoodClients, Clients
  <2>5. e \in GoodClients /\ e.cgi = a.cgi
    <3> HIDE DEF d
    <3> QED BY <2>2, <2>4, ClientTypes DEF GoodClients, Clients
  <2>6. Parse(a) \in {a, ReturnError(a, 400), e} \union
                     {ReturnError(x, RejectCodes[k]) : x \in {d, e}, k \in DOMAIN RejectCodes}
    BY DEF Parse, Rejected, RejectCodes
  <2>7. \A k \in DOMAIN RejectCodes : RejectCodes[k] \in Nat
    BY DEF RejectCodes
  <2> HIDE DEF d, e
  <2>8. \A x \in {a, d, e}, code \in Nat : ReturnError(x, code).cgi = a.cgi
    BY <1>1, <2>4, <2>5, ReturnErrorGood
  <2> QED BY <1>1, <2>5, <2>6, <2>7, <2>8
<1>3. b \in GoodClients /\ b.cgi = c.cgi
  <2>1. p \in GoodClients
    <3> HIDE DEF a
    <3> QED BY <1>1, ParseGood
  <2> HIDE DEF p
  <2> QED BY <1>2, <2>1, ClientTypes DEF GoodClients, Clients, States
<1>4. HandleInput(c) \in {p, BuildResponse(b)}
  BY DEF HandleInput
<1> HIDE DEF p, b
<1>5. BuildResponse(b).cgi \in {b.cgi, Start}
  <2> DEFINE listing == SetCode(SetFixedSizeBody(b.resp, <<Unit("listing", 1)>>), 200)
             notice  == SetFixedSizeBody(SetCode(b.resp, 200), <<Unit("notice", 1)>>)
             script  == [b EXCEPT !.cgi = Start]
             doc     == [b EXCEPT !.file = Open("doc", disk.doc)]
  <2>1. BuildResponse(b) \in {script, FixedAnswer(b, listing), doc, FixedAnswer(b, notice),
                              ReturnError(b, 999), ReturnError(b, 500)}
    BY DEF BuildResponse
  <2>2. script.cgi = Start /\ doc.cgi = b.cgi
    BY <1>3 DEF GoodClients, Clients
  <2>3. \A resp : FixedAnswer(b, resp).cgi = b.cgi
    BY <1>3 DEF FixedAnswer, GoodClients, Clients
  <2>4. ReturnError(b, 999).cgi = b.cgi /\ ReturnError(b, 500).cgi = b.cgi
    BY <1>3, ReturnErrorGood
  <2> HIDE DEF listing, notice, script, doc
  <2> QED BY <2>1, <2>2, <2>3, <2>4
<1> QED BY <1>2, <1>3, <1>4, <1>5

\* A request is kept until all of it has come, and then worked on.
LEMMA ClientReadKeeps ==
  ASSUME IInv, KeepsPromise, Caused, Phases, ClientReadCb
  PROVE  Caused' /\ Phases'
<1> DEFINE c == [client EXCEPT !.rbuf = @ \o inq]
           r == Current
           one == <<[req |-> r, part |-> 1]>>
           two == <<[req |-> r, part |-> 1], [req |-> r, part |-> 2]>>
<1>1. inq # <<>> /\ todo' = todo \ {"in"} /\ UNCHANGED <<listed, disk, peer, throws>>
  BY DEF ClientReadCb, Calls, First, Caused
<1>2. OneWaits /\ SentPhase
  BY <1>1 DEF Phases, QuietPhase, WorkPhase, DonePhase, NoInput
<1>3. r \in Requests /\ disk \in Disks /\ client \in GoodClients /\ (r.kind = "head" => disk.doc.len \notin Avoided)
  BY <1>2, CurrentType DEF OneWaits
<1>4. /\ client.wbuf = <<>> /\ client.req = NoRequest /\ client.resp = EmptyResponse
      /\ client.file = NoFile /\ client.cgi = NoScript /\ client.state # "ERROR"
      /\ sock.valid /\ ~idle /\ peer.unread = <<>>
  BY <1>2 DEF SentPhase, Clear
<1>5. client.rbuf \o inq = IF peer.half THEN one ELSE two
  BY <1>2 DEF SentPhase, Pending
<1>6. /\ c \in GoodClients /\ c.rbuf = client.rbuf \o inq
      /\ c.wbuf = <<>> /\ c.req = NoRequest /\ c.resp = EmptyResponse
      /\ c.file = NoFile /\ c.cgi = NoScript
  BY <1>3, <1>4, ConcatProperties DEF IInv, TypeOK, GoodClients, Clients
<1>7. one # <<>> /\ two # <<>> /\ Len(one) = 1
  OBVIOUS
<1> HIDE DEF r, one, two
<1>8. c.rbuf # <<>>
  BY <1>5, <1>6, <1>7
<1>9. /\ inq' = <<>> /\ sock'.eof = sock.eof /\ sock'.valid
      /\ client' = HandleInput(c) /\ ~idle'
  <2>1. /\ inq' = <<>> /\ sock' = [sock EXCEPT !.eof = @ \/ inq = <<>>]
        /\ client' = IF c.rbuf = <<>> THEN c ELSE HandleInput(c)
        /\ idle' = (idle /\ c.rbuf = <<>>)
    BY <1>4 DEF ClientReadCb
  <2>2. sock \in [valid : BOOLEAN, eof : BOOLEAN]
    BY DEF IInv, TypeOK
  <2> HIDE DEF c
  <2> QED BY <1>1, <1>4, <1>8, <2>1, <2>2
<1> HIDE DEF c
<1>10. Caused'
  <2>1. client'.cgi \in {NoScript, Start}
    BY <1>3, <1>6, <1>8, <1>9, NewScript
  <2>2. ~ScriptEvent'
    BY <2>1 DEF ScriptEvent, Start
  <2> QED BY <1>1, <1>9, <2>2 DEF Caused
<1>11. Current' = r /\ Pending(Current)' = Pending(Current) /\ peer'.half = peer.half /\ peer'.unread = <<>>
  BY <1>1, <1>4, SameQuestion DEF r
<1>12. OneWaits'
  BY <1>1, <1>2, <1>11, SameDisk DEF OneWaits, r
<1>13. CASE peer.half
  <2>1. client' = [c EXCEPT !.state = "READ_REQUEST"]
    BY <1>3, <1>5, <1>6, <1>9, <1>13, HalfKept DEF one
  <2>2. /\ client'.rbuf = one /\ client'.wbuf = <<>> /\ client'.req = NoRequest
        /\ client'.resp = EmptyResponse /\ client'.file = NoFile /\ client'.cgi = NoScript
        /\ client'.state = "READ_REQUEST"
    BY <1>5, <1>6, <1>13, <2>1 DEF GoodClients, Clients
  <2>3. Clear(client)'
    BY <2>2 DEF Clear
  <2>4. (client.rbuf \o inq)' = Pending(Current)'
    <3>1. client'.rbuf \in Seq(Fragments)
      BY <1>5, <1>6, <1>13, <2>2, ClientTypes
    <3>2. client'.rbuf \o <<>> = one
      BY <2>2, <3>1, ConcatEmptySeq
    <3> QED BY <1>9, <1>11, <1>13, <3>2 DEF Pending, one, r
  <2>5. client'.rbuf = one
    BY <2>2
  <2>6. Len(one) = 1
    BY <1>7
  <2>7. Len(client'.rbuf) = 1
    BY <2>5, <2>6, Zenon
  <2>8. Len(client'.rbuf) <= 1
    BY <2>7
  <2>9. SentPhase'
    BY <1>9, <1>11, <2>3, <2>4, <2>8 DEF SentPhase
  <2> QED BY <1>10, <1>12, <2>9 DEF Phases
<1>14. CASE ~peer.half
  <2>1. Working(HandleInput(c), r, <<>>) /\ HandleInput(c).rbuf = <<>>
    BY <1>3, <1>5, <1>6, <1>14, WholeWorks DEF two
  <2>2. Working(client', Current', peer'.unread) /\ client'.rbuf = <<>>
    BY <1>9, <1>11, <2>1
  <2>3. Working(client, Current, peer.unread)'
    BY <1>1, <2>2, SameDisk
  <2>4. NoInput'
    BY <1>9, <1>11, <1>14 DEF NoInput
  <2>5. WorkPhase'
    BY <1>9, <2>2, <2>3, <2>4 DEF WorkPhase
  <2> QED BY <1>10, <1>12, <2>5 DEF Phases
<1> QED BY <1>13, <1>14

\* Where the script of a connection that writes comes from.
LEMMA FillScript ==
  ASSUME NEW c \in GoodClients, NEW r \in Requests, NEW u \in Seq(Tokens), disk \in Disks, KeepsPromise,
         r.kind = "head" => disk.doc.len \notin Avoided, NEW stale \in BOOLEAN,
         Working(c, r, u), c.rbuf = <<>>
  PROVE  FillWriteBuffer(c, stale).cgi \in {NoScript, AfterStatus(c.cgi)}
<1> DEFINE d == FillWriteBuffer(c, stale)
<1>1. CASE u = <<>> /\ Scripting(c, r)
  <2>1. d = ReadFromCgi(c) /\ c.cgi # NoScript
    BY <1>1 DEF FillWriteBuffer, Scripting
  <2> QED BY <2>1, ScriptAfter
<1>2. CASE r.kind # "script"
  <2>1. Working(d, r, u)
    BY FillWorks
  <2> HIDE DEF d
  <2>2. d.cgi = NoScript
    BY <1>2, <2>1 DEF Working, Reading, Scripting, Chunking, Finishing
  <2> QED BY <2>2 DEF d
<1>3. CASE Finishing(c, r, u)
  BY <1>3 DEF FillWriteBuffer, Finishing
<1>4. (u = <<>> /\ Reading(c, r)) \/ Chunking(c, r, u) => r.kind # "script"
  BY DEF Reading, Chunking, Chunked
<1> QED BY <1>1, <1>2, <1>3, <1>4 DEF Working

\* A write callback moves the answer on, or has nothing to do.
LEMMA WriteNothingKeeps ==
  ASSUME IInv, KeepsPromise, Caused, Phases, NEW stale \in BOOLEAN, ClientWriteNothing(stale)
  PROVE  Caused' /\ Phases'
<1> DEFINE d == FillWriteBuffer(client, stale)
<1>1. /\ client' = d /\ UNCHANGED <<sock, inq, disk, peer>> /\ todo' \subseteq todo
      /\ idle' = (idle /\ d = client /\ client.cgi = NoScript)
  BY DEF ClientWriteNothing, Calls
<1>2. Clear(client) => client' = client
  BY <1>1, ClearStays
<1>3. sock.valid
  BY SMTT(40) DEF ClientWriteNothing, Calls, First, IInv, SocketEvents
<1>4. WorkPhase => OneWaits
  BY <1>3, NotNone DEF Phases, QuietPhase, WorkPhase, AtRest, Working, Clear, Reading, Scripting, Chunking, Finishing, DocFile
<1>5. ASSUME WorkPhase
      PROVE  /\ Working(client', Current, peer.unread) /\ client'.rbuf = <<>>
             /\ client'.cgi \in {NoScript, AfterStatus(client.cgi)}
  <2>1. Current \in Requests /\ peer.unread \in Seq(Tokens) /\ disk \in Disks /\ client \in GoodClients
        /\ (Current.kind = "head" => disk.doc.len \notin Avoided)
    BY <1>4, <1>5, CurrentType DEF OneWaits
  <2>2. Working(client, Current, peer.unread) /\ client.rbuf = <<>>
    BY <1>5 DEF WorkPhase
  <2> DEFINE r == Current
             u == peer.unread
             c == client
  <2> HIDE DEF r, u, c
  <2>3. /\ Working(FillWriteBuffer(c, stale), r, u) /\ FillWriteBuffer(c, stale).rbuf = <<>>
    BY <2>1, <2>2, FillWorks DEF r, u, c
  <2>4. FillWriteBuffer(c, stale).cgi \in {NoScript, AfterStatus(c.cgi)}
    BY <2>1, <2>2, FillScript DEF r, u, c
  <2> QED BY <1>1, <2>3, <2>4 DEF r, u, c
<1>6. Caused'
  <2>1. CASE Clear(client)
    BY <1>1, <1>2, <2>1 DEF Caused, ScriptEvent
  <2>2. CASE ~Clear(client)
    <3>1. WorkPhase
      BY <1>3, <2>2 DEF Phases, QuietPhase, SentPhase, DonePhase, AtRest
    <3>2. ScriptEvent' => ScriptEvent /\ client'.cgi.pipe = client.cgi.pipe /\ client'.cgi.open = client.cgi.open
      <4>1. CASE client'.cgi = NoScript
        BY <4>1 DEF ScriptEvent
      <4>2. CASE client'.cgi = AfterStatus(client.cgi) /\ client.cgi # NoScript
        <5>1. client.cgi \in CgiMessages
          BY <4>2 DEF IInv, TypeOK, Clients
        <5> QED BY <4>2, <5>1 DEF ScriptEvent, AfterStatus, CgiMessages
      <4>3. client.cgi = NoScript => client'.cgi = NoScript
        <5> SUFFICES ASSUME client.cgi = NoScript PROVE client'.cgi = NoScript
          OBVIOUS
        <5>1. AfterStatus(client.cgi) # NoScript => FALSE
          BY DEF AfterStatus, NoScript
        <5> QED BY <1>5, <3>1, <5>1
      <4> QED BY <1>5, <3>1, <4>1, <4>2, <4>3
    <3> QED BY <1>1, <3>2 DEF Caused
  <2> QED BY <2>1, <2>2
<1>7. SentPhase \/ WorkPhase => ~idle'
  BY <1>1 DEF SentPhase, WorkPhase
<1> QED BY <1>1, <1>2, <1>5, <1>6, <1>7, PhasesKept

LEMMA WriteSomeKeeps ==
  ASSUME IInv, KeepsPromise, ~peer.left, Caused, Phases, NEW stale \in BOOLEAN, NEW n \in 1..WriteSize,
         ClientWriteCb(stale, n)
  PROVE  Caused' /\ Phases' /\ peer'.unread # <<>>
<1> DEFINE c == FillWriteBuffer(client, stale)
           d == AfterWrite(c, n)
           r == Current
           u == peer.unread
           v == u \o SubSeq(c.wbuf, 1, n)
           b == client
<1>1. /\ n \in Nat /\ n > 0 /\ n <= Len(c.wbuf) /\ todo' = todo \ {"out"}
      /\ client' = IF ResponseSent(d) THEN Reset(d) ELSE d
      /\ sock' = [sock EXCEPT !.valid = ~(ResponseSent(d) /\ ClosesAfter(d))]
      /\ idle' = FALSE
      /\ peer' = [peer EXCEPT !.unread = v]
      /\ UNCHANGED <<listed, inq, disk, throws>>
  BY ConnectionAssumption DEF ClientWriteCb, Calls
<1>2. sock.valid /\ sock \in [valid : BOOLEAN, eof : BOOLEAN] /\ peer \in Peers
  BY DEF ClientWriteCb, Calls, First, IInv, SocketEvents, TypeOK
<1>3. ~Clear(client)
  <2> SUFFICES ASSUME Clear(client) PROVE FALSE
    OBVIOUS
  <2>1. c.wbuf = <<>>
    BY ClearStays
  <2> HIDE DEF c
  <2> QED BY <1>1, <2>1, EmptySeq
<1>4. OneWaits /\ WorkPhase
  BY <1>2, <1>3 DEF Phases, QuietPhase, SentPhase, DonePhase, AtRest
<1>5. /\ r \in Requests /\ u \in Seq(Tokens) /\ disk \in Disks /\ b \in GoodClients
      /\ r.kind = "head" => disk.doc.len \notin Avoided
  BY <1>4, CurrentType DEF OneWaits
<1>6. Working(b, r, u) /\ b.rbuf = <<>> /\ NoInput
  BY <1>4 DEF WorkPhase
<1>7. c \in GoodClients
  BY <1>5, FillWriteBufferGood
<1>8. Working(c, r, u) /\ c.rbuf = <<>>
  <2> HIDE DEF r, u, b
  <2>1. Working(FillWriteBuffer(b, stale), r, u) /\ FillWriteBuffer(b, stale).rbuf = <<>>
    BY <1>5, <1>6, FillWorks
  <2> QED BY <2>1 DEF b
<1> HIDE DEF c, r, u, b
<1>9. n \in 1..Len(c.wbuf)
  <2>1. Len(c.wbuf) \in Nat
    BY <1>7, ClientTypes, LenProperties
  <2> QED BY <1>1, <2>1
<1>10. /\ v \in Seq(Tokens) /\ d.rbuf = <<>> /\ d.cgi = NoScript
       /\ \/ ~ResponseSent(d) /\ Working(d, r, v)
          \/ ResponseSent(d) /\ v = Message(r) /\ Clear(Reset(d)) /\ Reset(d).rbuf = <<>>
  BY <1>5, <1>7, <1>8, <1>9, WriteWorks
<1>11. v # <<>>
  <2> DEFINE x == SubSeq(c.wbuf, 1, n)
  <2>1. c.wbuf \in Seq(Tokens) /\ Len(c.wbuf) \in Nat /\ n \in 1..Len(c.wbuf)
    BY <1>7, <1>9, ClientTypes, LenProperties
  <2>2. x \in Seq(Tokens) /\ Len(x) = n
    BY <1>1, <2>1, SubSeqProperties
  <2> HIDE DEF x
  <2>3. Len(u \o x) = Len(u) + Len(x) /\ Len(u) \in Nat
    BY <1>5, <2>2, Appended
  <2>4. Len(u \o x) # 0
    BY <1>1, <2>2, <2>3
  <2> QED BY <2>4, EmptySeq DEF x
<1> HIDE DEF d, v
<1>12. /\ peer'.unread = v /\ peer'.asked = peer.asked /\ peer'.answers = peer.answers /\ peer'.half = peer.half
       /\ sock'.eof = sock.eof /\ sock'.valid = ~(ResponseSent(d) /\ ClosesAfter(d))
  BY <1>1, <1>2 DEF Peers
<1>13. Current' = r /\ Message(Current)' = Message(r) /\ NoInput' /\ OneWaits'
  <2>1. Current' = r
    BY <1>12 DEF Current, r
  <2>2. Message(Current)' = Message(r)
    BY <1>1, <2>1, SameDisk
  <2> QED BY <1>1, <1>4, <1>6, <1>12, <2>1, <2>2 DEF NoInput, OneWaits, r
<1>14. CASE ~ResponseSent(d)
  <2>1. client' = d /\ sock'.valid
    BY <1>1, <1>12, <1>14
  <2>2. Working(client', Current', peer'.unread)
    BY <1>10, <1>12, <1>13, <1>14, <2>1
  <2>3. Working(client, Current, peer.unread)'
    BY <1>1, <2>2, SameDisk
  <2>4. WorkPhase'
    BY <1>1, <1>10, <1>13, <2>1, <2>3 DEF WorkPhase
  <2>5. Caused'
    BY <1>1, <1>10, <1>12, <2>1 DEF Caused, ScriptEvent
  <2> QED BY <1>11, <1>12, <1>13, <2>4, <2>5 DEF Phases
<1>15. CASE ResponseSent(d)
  <2>1. client' = Reset(d) /\ Clear(Reset(d)) /\ Reset(d).rbuf = <<>> /\ v = Message(r)
    BY <1>1, <1>10, <1>15
  <2>2. Clear(client)' /\ client'.rbuf = <<>> /\ client'.cgi = NoScript
    BY <2>1 DEF Clear
  <2>3. DonePhase'
    BY <1>12, <1>13, <2>1, <2>2 DEF DonePhase, AtRest
  <2>4. Caused'
    BY <1>1, <1>12, <2>2 DEF Caused, ScriptEvent
  <2> QED BY <1>11, <1>12, <1>13, <2>3, <2>4 DEF Phases
<1> QED BY <1>14, <1>15

LEMMA TwoParts ==
  ASSUME NEW a \in Fragments, NEW b \in Fragments
  PROVE  Append(<<a>>, b) = <<a, b>>
<1> DEFINE s == Append(<<a>>, b)
           t == <<a, b>>
<1>1. <<a>> \in Seq(Fragments) /\ Len(<<a>>) = 1 /\ <<a>>[1] = a
  OBVIOUS
<1>2. s \in Seq(Fragments) /\ Len(s) = 2 /\ s[1] = a /\ s[2] = b
  BY <1>1, AppendProperties
<1>3. t \in Seq(Fragments) /\ Len(t) = 2 /\ t[1] = a /\ t[2] = b
  OBVIOUS
<1> HIDE DEF s, t
<1>4. \A i \in 1..Len(s) : s[i] = t[i]
  <2> TAKE i \in 1..Len(s)
  <2>1. i = 1 \/ i = 2
    BY <1>2
  <2> QED BY <1>2, <1>3, <2>1
<1>5. s = t
  BY <1>2, <1>3, <1>4, SeqEqual
<1> QED BY <1>5 DEF s, t

LEMMA AppendedLater ==
  ASSUME NEW a \in Seq(Fragments), NEW b \in Seq(Fragments), NEW e \in Fragments
  PROVE  a \o Append(b, e) = Append(a \o b, e)
<1> DEFINE x == <<e>>
           y == a \o b
<1>1. x \in Seq(Fragments) /\ y \in Seq(Fragments)
  BY ConcatProperties
<1>2. Append(b, e) = b \o x
  BY AppendIsConcat
<1>3. Append(y, e) = y \o x
  <2> HIDE DEF y
  <2> QED BY <1>1, AppendIsConcat
<1>4. (a \o b) \o x = a \o (b \o x)
  <2> HIDE DEF x
  <2> QED BY <1>1, ConcatAssociative
<1> QED BY <1>2, <1>3, <1>4

\* The peer sends the second half of its request.
LEMMA AskRestKeeps ==
  ASSUME IInv, Caused, Phases, AskRest
  PROVE  Caused' /\ Phases'
<1> DEFINE r == Current
           one == <<[req |-> r, part |-> 1]>>
           last == [req |-> r, part |-> 2]
<1>1. peer.half /\ peer' = [peer EXCEPT !.half = FALSE] /\ UNCHANGED <<client, sock, listed, todo, idle, disk, throws>>
  BY DEF AskRest
<1>2. OneWaits /\ SentPhase
  BY <1>1 DEF Phases, QuietPhase, WorkPhase, DonePhase, NoInput
<1>3. r \in Requests /\ client \in GoodClients /\ inq \in Seq(Fragments) /\ peer \in Peers
  BY <1>2, CurrentType DEF IInv, TypeOK
<1>4. inq' = Append(inq, last)
  <2>1. peer.asked[Len(peer.asked)] = r
    BY <1>2 DEF OneWaits, Current
  <2> QED BY <1>2, <2>1 DEF AskRest, SentPhase
<1>5. client.rbuf \o inq = one
  BY <1>1, <1>2 DEF SentPhase, Pending
<1>6. client.rbuf \in Seq(Fragments) /\ last \in Fragments
  BY <1>3, ClientTypes DEF Fragments
<1>7. client.rbuf \o Append(inq, last) = Append(client.rbuf \o inq, last)
  BY <1>3, <1>6, AppendedLater
<1>8. Append(one, last) = <<[req |-> r, part |-> 1], [req |-> r, part |-> 2]>>
  <2> DEFINE first == [req |-> r, part |-> 1]
  <2> HIDE DEF last
  <2>1. first \in Fragments
    BY <1>3 DEF Fragments
  <2> HIDE DEF first
  <2>2. Append(<<first>>, last) = <<first, last>>
    BY <1>6, <2>1, TwoParts
  <2> QED BY <2>2 DEF first, last
<1>9. peer'.half = FALSE /\ peer'.asked = peer.asked /\ peer'.answers = peer.answers /\ peer'.unread = peer.unread
  BY <1>1, <1>3 DEF Peers
<1>10. Current' = r
  BY <1>9 DEF Current
<1> HIDE DEF r, one, last
<1>11. (client.rbuf \o inq)' = Pending(Current)'
  BY <1>1, <1>4, <1>5, <1>7, <1>8, <1>9, <1>10 DEF Pending
<1>12. Clear(client)'
  BY <1>1, <1>2 DEF SentPhase, Clear
<1>13. SentPhase'
  BY <1>1, <1>2, <1>9, <1>11, <1>12 DEF SentPhase
<1>14. OneWaits'
  BY <1>1, <1>2, <1>9, <1>10 DEF OneWaits, r
<1>15. Append(inq, last) # <<>>
  BY <1>3, <1>6, AppendProperties
<1>16. Caused'
  BY <1>1, <1>4, <1>15 DEF Caused, ScriptEvent
<1> QED BY <1>13, <1>14, <1>16 DEF Phases

\* The peer takes an answer when it has the whole message.
LEMMA PeerReadsKeeps ==
  ASSUME IInv, KeepsPromise, Caused, Phases, PeerReads
  PROVE  /\ Caused' /\ Phases'
         /\ OneWaits /\ Current \in Requests
         /\ peer'.answers = Append(peer.answers, RightAnswer(Current))
         /\ peer'.asked = peer.asked /\ peer'.left = peer.left /\ peer.unread # <<>>
<1> DEFINE r == Current
           s == peer.unread
           b == client
<1>1. PICK k \in DOMAIN s : PeerTakes(k)
  BY DEF PeerReads
<1>2. /\ s # <<>> /\ k \in Ends(s, r)
      /\ peer' = [peer EXCEPT !.answers = Append(@, Decode(s, k)), !.unread = SubSeq(@, k + 1, Len(@))]
      /\ UNCHANGED <<client, sock, listed, inq, todo, idle, disk, throws>>
  BY <1>1 DEF PeerTakes, Current
<1>3. OneWaits /\ (WorkPhase \/ DonePhase)
  BY <1>2 DEF Phases, QuietPhase, SentPhase
<1>4. /\ r \in Requests /\ s \in Seq(Tokens) /\ disk \in Disks /\ b \in GoodClients
      /\ r.kind = "head" => disk.doc.len \notin Avoided
  BY <1>3, CurrentType DEF OneWaits
<1>5. ~WorkPhase
  <2> SUFFICES ASSUME WorkPhase PROVE FALSE
    OBVIOUS
  <2>1. Working(b, r, s)
    BY DEF WorkPhase
  <2> HIDE DEF r, s, b
  <2>2. Ends(s, r) = {}
    BY <1>2, <1>4, <2>1, WorkEnds
  <2> QED BY <1>2, <2>2
<1>6. s = Message(r) /\ NoInput /\ AtRest
  BY <1>3, <1>5 DEF DonePhase
<1>7. peer \in Peers /\ Len(peer.answers) \in Nat /\ peer.answers \in Seq(Answers)
  BY LenProperties DEF IInv, TypeOK, Peers
<1> HIDE DEF r, s, b
<1>8. k = Len(s) /\ Decode(s, k) = RightAnswer(r)
  BY <1>2, <1>4, <1>6, WholeEnds
<1>9. SubSeq(s, Len(s) + 1, Len(s)) = <<>>
  BY <1>4, LenProperties, SubSeqEmpty
<1>10. peer'.answers = Append(peer.answers, RightAnswer(r)) /\ peer'.unread = <<>>
       /\ peer'.asked = peer.asked /\ peer'.left = peer.left /\ peer'.half = peer.half
  BY <1>2, <1>7, <1>8, <1>9 DEF Peers, s
<1>11. Len(peer'.answers) = Len(peer.answers) + 1
  <2>1. Decode(s, k) \in Answers
    BY <1>1, <1>4, DecodeType
  <2> QED BY <1>7, <1>8, <1>10, <2>1, AppendProperties
<1>12. QuietPhase'
  <2>1. NoInput' /\ AtRest'
    BY <1>2, <1>6, <1>10 DEF NoInput, AtRest, Clear
  <2> QED BY <1>3, <1>10, <1>11, <2>1 DEF QuietPhase, OneWaits
<1>13. Caused'
  BY <1>2 DEF Caused, ScriptEvent
<1> QED BY <1>2, <1>3, <1>4, <1>10, <1>12, <1>13 DEF Phases, r, s

\* It asks when it has its answer, and the connection is free then.
LEMMA AskKeeps ==
  ASSUME IInv, KeepsPromise, Caused, Phases, NEW r \in Requests, Ask(r)
  PROVE  Caused' /\ Phases' /\ peer'.answers = peer.answers /\ peer'.asked = Append(peer.asked, r)
         /\ peer'.unread = peer.unread /\ peer'.left = peer.left
<1> DEFINE e == [req |-> r, part |-> 1]
<1>1. /\ sock.valid /\ ~Waiting(peer) /\ ~idle /\ (r.kind = "head" => disk.doc.len \notin Avoided)
      /\ peer' = [peer EXCEPT !.asked = Append(@, r), !.half = TRUE]
      /\ inq' = Append(inq, e)
      /\ UNCHANGED <<client, sock, listed, todo, idle, disk, throws>>
  BY DEF Ask, KeepsPromise
<1>2. peer \in Peers /\ peer.asked \in Seq(Requests) /\ Len(peer.answers) \in Nat /\ Len(peer.asked) \in Nat
      /\ inq \in Seq(Fragments) /\ e \in Fragments
  BY LenProperties DEF IInv, TypeOK, Peers, Fragments
<1>3. QuietPhase
  BY <1>1, <1>2 DEF Phases, OneWaits, Waiting
<1>4. Clear(client) /\ client.rbuf = <<>> /\ inq = <<>> /\ peer.unread = <<>>
      /\ Len(peer.asked) = Len(peer.answers)
  BY <1>1, <1>3 DEF QuietPhase, NoInput, AtRest
<1>5. /\ peer'.asked = Append(peer.asked, r) /\ peer'.half = TRUE /\ peer'.answers = peer.answers
      /\ peer'.unread = peer.unread /\ peer'.left = peer.left
  BY <1>1, <1>2 DEF Peers
<1>6. Len(peer'.asked) = Len(peer'.answers) + 1 /\ Current' = r
  <2>1. /\ Len(Append(peer.asked, r)) = Len(peer.asked) + 1
        /\ Append(peer.asked, r)[Len(peer.asked) + 1] = r
    BY <1>2, AppendProperties
  <2> QED BY <1>2, <1>4, <1>5, <2>1 DEF Current
<1>7. OneWaits'
  BY <1>1, <1>6 DEF OneWaits
<1>8. inq' # <<>> /\ inq' \in Seq(Fragments)
  <2> HIDE DEF e
  <2> QED BY <1>1, <1>2, AppendProperties
<1>9. inq' = <<e>>
  <2> HIDE DEF e
  <2> QED BY <1>1, <1>2, <1>4, AppendIsConcat, ConcatEmptySeq
<1>10. (client.rbuf \o inq)' = Pending(Current)'
  <2>1. <<>> \o inq' = inq'
    BY <1>8, ConcatEmptySeq
  <2>2. client'.rbuf \o inq' = <<e>>
    BY <1>1, <1>4, <1>9, <2>1
  <2> QED BY <1>5, <1>6, <2>2 DEF Pending
<1>11. Clear(client)' /\ client'.rbuf = <<>>
  BY <1>1, <1>4 DEF Clear
<1>12. SentPhase'
  <2>1. Len(client'.rbuf) <= 1
    BY <1>11, EmptySeq
  <2> QED BY <1>1, <1>4, <1>5, <1>10, <1>11, <2>1 DEF SentPhase
<1>13. Caused'
  BY <1>1, <1>8 DEF Caused, ScriptEvent
<1> QED BY <1>5, <1>7, <1>12, <1>13 DEF Phases

LEMMA InitExchange ==
  ASSUME Init, KeepsPromise
  PROVE  ExchangeInv
<1>1. IInv
  BY InitIInv
<1>2. PICK state \in FirstStates : client = NewClient(state)
  BY DEF Init
<1>3. state = "READY_FOR_INPUT"
  BY DEF KeepsPromise
<1>4. Clear(client) /\ client.rbuf = <<>>
  BY <1>2, <1>3 DEF NewClient, Clear
<1>5. QuietPhase
  BY <1>4 DEF Init, NewPeer, QuietPhase, NoInput, AtRest
<1>6. Caused
  BY <1>4 DEF Init, Caused, ScriptEvent, Clear
<1> QED BY <1>1, <1>5, <1>6 DEF ExchangeInv, Phases

LEMMA NextKeeps ==
  ASSUME ExchangeInv, KeepsPromise, Next
  PROVE  ExchangeInv'
<1>1. IInv /\ IInv'
  BY NextIInv DEF ExchangeInv
<1> SUFFICES ASSUME ~peer'.left PROVE Caused' /\ Phases'
  BY <1>1 DEF ExchangeInv
<1>2. ~Leave
  <2> SUFFICES ASSUME Leave PROVE FALSE
    OBVIOUS
  <2>1. peer'.left
    BY <1>1 DEF Leave, IInv, TypeOK, Peers
  <2> QED BY <2>1
<1>3. CASE \E stale \in BOOLEAN, n \in 1..WriteSize : ClientWriteCb(stale, n)
  <2>1. PICK stale \in BOOLEAN, n \in 1..WriteSize : ClientWriteCb(stale, n)
    BY <1>3
  <2>2. peer'.left = peer.left
    BY <1>1, <2>1 DEF ClientWriteCb, IInv, TypeOK, Peers
  <2> QED BY <1>1, <2>1, <2>2, WriteSomeKeeps DEF ExchangeInv
<1>4. CASE PeerReads \/ AskRest \/ (\E r \in Requests : Ask(r))
  <2>1. ~peer.left
    BY <1>4 DEF PeerReads, PeerTakes, AskRest, Ask
  <2> QED BY <1>1, <1>4, <2>1, PeerReadsKeeps, AskRestKeeps, AskKeeps DEF ExchangeInv
<1>5. CASE \/ (\E writable \in BOOLEAN : Poll(writable)) \/ ClientReadCb
           \/ (\E stale \in BOOLEAN : ClientWriteNothing(stale))
           \/ FileReadCb \/ CgiReadCb \/ SkipDead \/ Sweep \/ OtherThrows \/ Script \/ IdleTimeout
  <2>1. peer' = peer
    BY <1>5 DEF Poll, ClientReadCb, ClientWriteNothing, FileReadCb, CgiReadCb, SkipDead, Sweep, OtherThrows,
                Script, ScriptWrites, ScriptExits, ScriptDies, ScriptTimesOut, ScriptStep, IdleTimeout
  <2>2. ~peer.left /\ Caused /\ Phases
    BY <2>1 DEF ExchangeInv
  <2>3. CASE (\E writable \in BOOLEAN : Poll(writable)) \/ ClientReadCb
             \/ (\E stale \in BOOLEAN : ClientWriteNothing(stale))
    BY <1>1, <2>2, <2>3, PollKeeps, ClientReadKeeps, WriteNothingKeeps
  <2>4. CASE FileReadCb \/ CgiReadCb \/ Script \/ IdleTimeout
    BY <1>1, <2>2, <2>4, FileReadKeeps, CgiReadKeeps, ScriptStepKeeps, IdleKeeps
  <2>5. CASE SkipDead \/ Sweep \/ OtherThrows
    BY <1>1, <2>2, <2>5, SkipKeeps, SweepKeeps
  <2> QED BY <1>5, <2>3, <2>4, <2>5
<1>6. \A stale \in BOOLEAN : ~ClientWriteFails(stale)
  BY DEF ClientWriteFails, KeepsPromise
<1> QED BY <1>2, <1>3, <1>4, <1>5, <1>6 DEF Next, Loop, WriteCb

LEMMA StutterKeeps ==
  ASSUME ExchangeInv, UNCHANGED vars
  PROVE  ExchangeInv'
<1>1. IInv'
  BY StutterStep DEF ExchangeInv
<1>2. Caused /\ Phases => Caused' /\ Phases'
  BY SameKeeps DEF vars
<1> QED BY <1>1, <1>2 DEF ExchangeInv, vars

LEMMA SpecExchangeInv ==
  ASSUME KeepsPromise
  PROVE  Spec => []ExchangeInv
<1>1. ExchangeInv /\ [Next]_vars => ExchangeInv'
  BY NextKeeps, StutterKeeps
<1>2. Init => ExchangeInv
  BY InitExchange
<1> QED BY <1>1, <1>2, PTL DEF Spec
-----------------------------------------------------------------------------
(***************************************************************************)
(* Every step of the connection is a step of the exchange.                 *)
(***************************************************************************)
LEMMA ExchangeStutters ==
  ASSUME disk' = disk, peer'.asked = peer.asked, peer'.answers = peer.answers, peer'.left = peer.left,
         (sock'.valid \/ peer'.unread # <<>>) <=> (sock.valid \/ peer.unread # <<>>)
  PROVE  UNCHANGED Exchange!vars
<1>1. [r \in Requests |-> {RightAnswer(r)}]' = [r \in Requests |-> {RightAnswer(r)}]
  BY SameDisk
<1> QED BY <1>1 DEF Exchange!vars

LEMMA ExchangeCloses ==
  ASSUME disk' = disk, peer' = peer, sock.valid \/ peer.unread # <<>>,
         ~sock'.valid, peer.unread = <<>>, ~Waiting(peer) \/ peer.left
  PROVE  Exchange!Close
<1>1. [r \in Requests |-> {RightAnswer(r)}]' = [r \in Requests |-> {RightAnswer(r)}]
  BY SameDisk
<1> QED BY <1>1 DEF Exchange!Close, Exchange!Waiting, Waiting

LEMMA ExchangeLeaves ==
  ASSUME IInv, Leave
  PROVE  Exchange!Leave
<1>1. [r \in Requests |-> {RightAnswer(r)}]' = [r \in Requests |-> {RightAnswer(r)}]
  BY SameDisk DEF Leave
<1>2. peer'.left = TRUE /\ ~peer.left /\ peer'.asked = peer.asked /\ peer'.answers = peer.answers
      /\ peer'.unread = peer.unread /\ sock' = sock
  BY DEF Leave, IInv, TypeOK, Peers
<1> QED BY <1>1, <1>2 DEF Exchange!Leave

LEMMA ExchangeAsks ==
  ASSUME IInv, KeepsPromise, Caused, Phases, NEW r \in Requests, Ask(r)
  PROVE  Exchange!Ask
<1>1. /\ peer'.answers = peer.answers /\ peer'.asked = Append(peer.asked, r)
      /\ peer'.unread = peer.unread /\ peer'.left = peer.left
  BY AskKeeps
<1>2. sock.valid /\ ~peer.left /\ ~Waiting(peer) /\ sock' = sock /\ disk' = disk
  BY DEF Ask, KeepsPromise
<1>3. [q \in Requests |-> {RightAnswer(q)}]' = [q \in Requests |-> {RightAnswer(q)}]
  BY <1>2, SameDisk
<1> QED BY <1>1, <1>2, <1>3 DEF Exchange!Ask, Exchange!Waiting, Waiting

LEMMA ExchangeAnswers ==
  ASSUME IInv, KeepsPromise, Caused, Phases, PeerReads
  PROVE  Exchange!Answer
<1>1. /\ OneWaits /\ Current \in Requests
      /\ peer'.answers = Append(peer.answers, RightAnswer(Current))
      /\ peer'.asked = peer.asked /\ peer'.left = peer.left /\ peer.unread # <<>>
  BY PeerReadsKeeps
<1>2. ~peer.left /\ Waiting(peer) /\ disk' = disk
  BY DEF PeerReads, PeerTakes
<1>3. [q \in Requests |-> {RightAnswer(q)}]' = [q \in Requests |-> {RightAnswer(q)}]
  BY <1>2, SameDisk
<1>4. RightAnswer(Current) \in [q \in Requests |-> {RightAnswer(q)}][peer.asked[Len(peer.answers) + 1]]
  BY <1>1 DEF Current
<1> QED BY <1>1, <1>2, <1>3, <1>4 DEF Exchange!Answer, Exchange!Waiting, Waiting

\* Once the peer has left, nothing is seen of the connection but its close.
LEMMA LeftSteps ==
  ASSUME IInv, KeepsPromise, peer.left, Next
  PROVE  [Exchange!Next]_(Exchange!vars)
<1>1. peer' = peer /\ disk' = disk
  BY DEF Next, Loop, Poll, ClientReadCb, WriteCb, ClientWriteNothing, ClientWriteCb, ClientWriteFails,
         FileReadCb, CgiReadCb, SkipDead, Sweep, OtherThrows, Script, ScriptWrites, ScriptExits, ScriptDies,
         ScriptTimesOut, ScriptStep, IdleTimeout, PeerReads, PeerTakes, AskRest, Leave, Ask, IInv, TypeOK, Peers
<1>2. sock'.valid => sock.valid
  <2>1. CASE WriteCb
    BY <2>1 DEF WriteCb, ClientWriteNothing, ClientWriteCb, ClientWriteFails, Calls, First, IInv, SocketEvents
  <2>2. CASE ClientReadCb
    BY <2>2 DEF ClientReadCb, IInv, TypeOK
  <2>3. CASE Sweep
    BY <2>3 DEF Sweep, IInv, TypeOK
  <2>4. CASE ~(WriteCb \/ ClientReadCb \/ Sweep)
    BY <2>4 DEF Next, Loop, Poll, FileReadCb, CgiReadCb, SkipDead, OtherThrows, Script, ScriptWrites, ScriptExits,
                ScriptDies, ScriptTimesOut, ScriptStep, IdleTimeout, PeerReads, PeerTakes, AskRest, Leave, Ask
  <2> QED BY <2>1, <2>2, <2>3, <2>4
<1>3. CASE (sock'.valid \/ peer'.unread # <<>>) <=> (sock.valid \/ peer.unread # <<>>)
  BY <1>1, <1>3, ExchangeStutters
<1>4. CASE ~((sock'.valid \/ peer'.unread # <<>>) <=> (sock.valid \/ peer.unread # <<>>))
  <2>1. sock.valid /\ ~sock'.valid /\ peer.unread = <<>>
    BY <1>1, <1>2, <1>4
  <2> QED BY <1>1, <2>1, ExchangeCloses DEF Exchange!Next
<1> QED BY <1>3, <1>4

\* Before that, it waits for its answer and takes it.
LEMMA PresentSteps ==
  ASSUME ExchangeInv, KeepsPromise, ~peer.left, Next
  PROVE  [Exchange!Next]_(Exchange!vars)
<1>1. IInv /\ Caused /\ Phases
  BY DEF ExchangeInv
<1>2. CASE PeerReads
  BY <1>1, <1>2, ExchangeAnswers DEF Exchange!Next
<1>3. CASE \E r \in Requests : Ask(r)
  BY <1>1, <1>3, ExchangeAsks DEF Exchange!Next
<1>4. CASE Leave
  BY <1>1, <1>4, ExchangeLeaves DEF Exchange!Next
<1>5. CASE \E stale \in BOOLEAN, n \in 1..WriteSize : ClientWriteCb(stale, n)
  <2>1. PICK stale \in BOOLEAN, n \in 1..WriteSize : ClientWriteCb(stale, n)
    BY <1>5
  <2>2. peer'.unread # <<>>
    BY <1>1, <2>1, WriteSomeKeeps
  <2>3. sock.valid /\ disk' = disk
    BY <1>1, <2>1 DEF ClientWriteCb, Calls, First, IInv, SocketEvents
  <2>4. peer'.asked = peer.asked /\ peer'.answers = peer.answers /\ peer'.left = peer.left
    BY <1>1, <2>1 DEF ClientWriteCb, IInv, TypeOK, Peers
  <2> QED BY <2>2, <2>3, <2>4, ExchangeStutters
<1>6. CASE Sweep /\ Dead
  <2>1. peer' = peer /\ disk' = disk /\ ~sock'.valid
    BY <1>1, <1>6 DEF Sweep, IInv, TypeOK
  <2>2. (sock.valid /\ ~Waiting(peer)) \/ ~sock.valid \/ peer.unread # <<>>
    BY <1>1, <1>6, SweepKeeps
  <2>3. CASE sock.valid /\ peer.unread = <<>>
    BY <2>1, <2>2, <2>3, ExchangeCloses DEF Exchange!Next
  <2>4. CASE ~(sock.valid /\ peer.unread = <<>>)
    BY <2>1, <2>4, ExchangeStutters
  <2> QED BY <2>3, <2>4
<1>7. CASE \/ (\E writable \in BOOLEAN : Poll(writable)) \/ ClientReadCb
           \/ (\E stale \in BOOLEAN : ClientWriteNothing(stale))
           \/ FileReadCb \/ CgiReadCb \/ SkipDead \/ (Sweep /\ ~Dead) \/ OtherThrows
           \/ Script \/ IdleTimeout \/ AskRest
  <2>1. /\ disk' = disk /\ peer'.asked = peer.asked /\ peer'.answers = peer.answers
        /\ peer'.left = peer.left /\ peer'.unread = peer.unread /\ sock'.valid = sock.valid
    BY <1>1, <1>7
       DEF Poll, ClientReadCb, ClientWriteNothing, FileReadCb, CgiReadCb, SkipDead, Sweep, OtherThrows,
           Script, ScriptWrites, ScriptExits, ScriptDies, ScriptTimesOut, ScriptStep, IdleTimeout, AskRest,
           IInv, TypeOK, Peers
  <2> QED BY <2>1, ExchangeStutters
<1>8. \A stale \in BOOLEAN : ~ClientWriteFails(stale)
  BY DEF ClientWriteFails, KeepsPromise
<1> QED BY <1>2, <1>3, <1>4, <1>5, <1>6, <1>7, <1>8 DEF Next, Loop, WriteCb

LEMMA ExchangeInit ==
  ASSUME Init, KeepsPromise
  PROVE  Exchange!Init
BY DEF Init, NewPeer, Exchange!Init

(***************************************************************************)
(* Theorems.                                                               *)
(***************************************************************************)

\* A connection implements HttpExchange, its liveness apart: a client that waits
\* for each answer is answered every request, in order and once, with what the
\* files and the script stand for, and the connection is not closed on a request
\* that waits for its answer.
THEOREM AnswersAsPromised ==
  ASSUME KeepsPromise
  PROVE  Spec => Exchange!Init /\ [][Exchange!Next]_(Exchange!vars)
<1>1. Init => Exchange!Init
  BY ExchangeInit
<1>2. ExchangeInv /\ [Next]_vars => [Exchange!Next]_(Exchange!vars)
  <2> SUFFICES ASSUME ExchangeInv, [Next]_vars PROVE [Exchange!Next]_(Exchange!vars)
    OBVIOUS
  <2>1. CASE Next
    BY <2>1, LeftSteps, PresentSteps DEF ExchangeInv
  <2>2. CASE UNCHANGED vars
    BY <2>2, ExchangeStutters DEF vars
  <2> QED BY <2>1, <2>2
<1>3. Spec => []ExchangeInv
  BY SpecExchangeInv
<1> QED BY <1>1, <1>2, <1>3, PTL DEF Spec
=============================================================================
