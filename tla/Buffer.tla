------------------------------- MODULE Buffer -------------------------------
(***************************************************************************)
(* class Buffer (src/buffer.cpp): the bytes received and not yet parsed,   *)
(* in one item per read, with a running count of their lines and of the    *)
(* empty ones.  Methods are operators from Buffer record to Buffer record. *)
(*                                                                         *)
(* A byte is CR, LF, or a token: any string that stands for bytes without  *)
(* a line break, which the buffer treats as it treats one such byte.       *)
(* _sizeOfBuffer is always the number of bytes held, so it is computed.    *)
(***************************************************************************)
EXTENDS Integers, SequencesExt

CR == "cr"
LF == "lf"

NewLineStatus == {"NO_NEWLINE", "CR", "CRLF", "CRLFCR"}

\* items: the bytes of each read, with the line ends counted in them;
\* lines: _linesInBuffer; empty: _emptyLines; nl: _newLineStatus.
EmptyBuffer == [items |-> <<>>, lines |-> 0, empty |-> 0, nl |-> "NO_NEWLINE"]

Contents(b) == FlattenSeq([i \in DOMAIN b.items |-> b.items[i].data])
Size(b)     == Len(Contents(b))

\* The positions of the line feeds that end a line of s.
LineEnds(s) == {i \in 2..Len(s) : s[i] = LF /\ s[i - 1] = CR}

-----------------------------------------------------------------------------
\* The loop body of add.  After an empty line the status stays CRLFCR.
AfterByte(s, byte) ==
  CASE byte = CR ->
         [s EXCEPT !.nl = CASE @ = "CRLF" -> "CRLFCR"
                            [] @ = "NO_NEWLINE" -> "CR"
                            [] OTHER -> "NO_NEWLINE"]
    [] byte = LF /\ s.nl = "CR" -> [s EXCEPT !.lines = @ + 1, !.nl = "CRLF"]
    [] byte = LF /\ s.nl = "CRLFCR" -> [s EXCEPT !.lines = @ + 1, !.empty = @ + 1]
    [] OTHER -> [s EXCEPT !.nl = "NO_NEWLINE"]

Scan(s, data) ==
  LET after[i \in 0..Len(data)] == IF i = 0 THEN s ELSE AfterByte(after[i - 1], data[i])
  IN  after[Len(data)]

\* Mutant: each read is scanned as if nothing had come before it.
AddAfresh(b, data) ==
  LET s == Scan([nl |-> "NO_NEWLINE", lines |-> 0, empty |-> b.empty], data)
  IN  [items |-> Append(b.items, [data |-> data, lines |-> s.lines]),
       lines |-> b.lines + s.lines, empty |-> s.empty, nl |-> s.nl]

\* add: the bytes of one read become an item.
Add(b, data) ==
  LET s == Scan([nl |-> b.nl, lines |-> 0, empty |-> b.empty], data)
  IN  [items |-> Append(b.items, [data |-> data, lines |-> s.lines]),
       lines |-> b.lines + s.lines, empty |-> s.empty, nl |-> s.nl]

\* read: asked for no bytes it returns all, for the count of what is left to
\* copy is decreased before it is tested.
Read(b, n) ==
  LET s == Contents(b) IN IF n = 0 \/ n > Len(s) THEN s ELSE SubSeq(s, 1, n)

\* Mutant: the empty lines are not forgotten.
ClearKeepingEmpty(b) == [b EXCEPT !.items = <<>>, !.lines = 0]

\* clear: the status of the last byte is kept.
Clear(b) == [b EXCEPT !.items = <<>>, !.lines = 0, !.empty = 0]

\* Mutant: the lines counted in the front item are not forgotten before what
\* is left of it is counted again.
RecountKeeping(item, rest) ==
  [data |-> rest, lines |-> item.lines + Cardinality(LineEnds(rest))]

\* Mutant: the lines counted afresh are added to the buffer's count only.
RecountForgetting(item, rest) == [data |-> rest, lines |-> 0]

\* What remains of the front item: its lines are counted afresh, without the
\* bytes before them.
Recount(item, rest) == [data |-> rest, lines |-> Cardinality(LineEnds(rest))]

\* Lines counted in items.
LinesOf(items) ==
  LET sum[i \in 0..Len(items)] == IF i = 0 THEN 0 ELSE sum[i - 1] + items[i].lines
  IN  sum[Len(items)]

\* remove: whole items first, then the beginning of the next; the count of
\* empty lines is only reset when nothing is left.
Drop(b, n) ==
  LET upTo(k) == Len(Contents([b EXCEPT !.items = SubSeq(@, 1, k)]))
      whole   == Max({k \in 0..Len(b.items) : upTo(k) <= n})
      rest    == SubSeq(b.items, whole + 1, Len(b.items))
      front   == Recount(rest[1], SubSeq(rest[1].data, n - upTo(whole) + 1, Len(rest[1].data)))
      popped  == LinesOf(SubSeq(b.items, 1, whole))
  IN  CASE n >= Size(b) -> Clear(b)
        [] n < Size(b) /\ n = upTo(whole) -> [b EXCEPT !.items = rest, !.lines = @ - popped]
        [] OTHER -> [b EXCEPT !.items = <<front>> \o Tail(rest),
                              !.lines = @ - popped - rest[1].lines + Cardinality(LineEnds(front.data))]

\* getCRLFLine: a line is there, what it is, and the buffer without it.
HasLine(b)   == b.lines # 0 /\ LineEnds(Contents(b)) # {}
Line(b)      == SubSeq(Contents(b), 1, Min(LineEnds(Contents(b))) - 2)
AfterLine(b) == Drop(b, Len(Line(b)) + 2)
=============================================================================
