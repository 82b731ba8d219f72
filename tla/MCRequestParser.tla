-------------------------- MODULE MCRequestParser --------------------------
(***************************************************************************)
(* Small instances of RequestParser.                                       *)
(***************************************************************************)
EXTENDS RequestParser

Lines(seqs) == FlattenSeq([i \in DOMAIN seqs |-> seqs[i] \o <<CR, LF>>])
Header(start, fields) == Lines(<<<<start>>>> \o [i \in DOMAIN fields |-> <<fields[i]>>] \o <<<<>>>>)

\* A message whose body may be cut, or not.
Msg(wire, cuts, start, fields, body, codes) ==
  [wire |-> wire, cuts |-> cuts \union {Len(wire)}, start |-> start,
   fields |-> ToSet(fields), body |-> body, codes |-> codes]

Cut(start, fields, coded, body, codes) ==
  LET wire == Header(start, fields) \o coded
  IN  Msg(wire, DOMAIN wire, start, fields, body, codes)
Whole(start, fields, coded, body, codes) ==
  LET head == Header(start, fields)
  IN  Msg(head \o coded, DOMAIN head, start, fields, body, codes)

Chunked == <<"Host", "Chunked">>

\* Requests that are well-formed, with the fields and the
\* chunks that make them so.
Asked(start, fields, chunks, outcome) ==
  LET lines == FlattenSeq([i \in DOMAIN chunks |-> <<<<chunks[i].size>>, chunks[i].data>>])
      body  == FlattenSeq([i \in DOMAIN chunks |-> chunks[i].data])
  IN  [message |-> Cut(start, fields, Lines(lines), body, {outcome}), fields |-> fields, chunks |-> chunks]

WellFormedRequests ==
  {Asked("GET", <<"Host">>, <<>>, 0),
   Asked("LOST", <<"Host">>, <<>>, 404),
   Asked("POST", Chunked, <<[size |-> "x2", data |-> <<"a", "b">>], [size |-> "x1", data |-> <<"c">>],
                            [size |-> "x0", data |-> <<>>]>>, 0)}

\* What the theorems about well-formed requests assume of all of them.
ASSUME WellFormedAre ==
  \A r \in WellFormedRequests : WellFormed(r.message, r.fields, r.chunks)

MCMessages ==
  {r.message : r \in WellFormedRequests} \union
  {Cut("GET", <<"Other">>, <<>>, <<>>, {400}),
   Cut("junk", <<"Host">>, <<>>, <<>>, {400}),
   LET wire == Header("GET", <<"Host", "junk">>)
   IN  Msg(wire, DOMAIN wire, "GET", <<"Host">>, <<>>, {400}),
   \* an empty line before the request
   LET wire == <<CR, LF>> \o Header("GET", <<"Host">>)
   IN  Msg(wire, DOMAIN wire, "GET", <<"Host">>, <<>>, {0}),
   \* a header that is too long unless it comes at once
   LET wire == Header("GET", <<"Host", "Other", "Other", "Other">>)
   IN  Msg(wire, DOMAIN wire, "GET", <<"Host", "Other">>, <<>>, {0, 413}),
   \* chunked bodies: too large together; too large at once; no size; no end
   Cut("POST", Chunked, Lines(<<<<"x2">>, <<"a", "b">>, <<"x2">>, <<"a", "b">>, <<"x0">>, <<>>>>),
       <<>>, {413}),
   Cut("POST", Chunked, Lines(<<<<"x9">>, <<"a">>>>), <<>>, {413}),
   Cut("POST", Chunked, Lines(<<<<"junk">>, <<>>>>), <<>>, {400}),
   Cut("POST", Chunked, Lines(<<<<"x0">>, <<"a">>>>), <<>>, {400}),
   \* bodies that must come at once: of fixed size, and up to an empty line
   Cut("POST", <<"Host", "Length1">>, <<"a">>, <<"a">>, {0}),
   Whole("POST", <<"Host", "Length3">>, <<"a", CR, "b">>, <<"a", CR, "b">>, {0}),
   Whole("POST", <<"Host", "Length9">>, <<"a">>, <<>>, {413}),
   Whole("POST", <<"Host">>, Lines(<<<<"a", "b">>, <<>>>>), <<"a", "b">>, {0})}

\* A body of fixed size that comes in pieces.
FixedMessages == {Cut("POST", <<"Host", "Length3">>, <<"a", "b", "c">>, <<"a", "b", "c">>, {0})}
=============================================================================
