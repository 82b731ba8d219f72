---------------------------- MODULE HttpResponse ----------------------------
(***************************************************************************)
(* class httpResponse (src/httpMessage/http_response.cpp) and what it puts *)
(* on the wire.  A response is the record of the fields its methods test;  *)
(* headers, dates and wording are abstracted.                              *)
(*                                                                         *)
(* Bytes are abstracted to tokens.  A unit is one piece of a body: the     *)
(* i-th piece of the document, of the error page, of the generated error   *)
(* text...  A head is the start line with the header list; its framing     *)
(* says how the receiver finds the end of the body:                        *)
(*   "fixed"    Content-Length: n, then n units                            *)
(*   "chunked"  Transfer-Encoding: chunked, units up to the "last" token   *)
(*   "cut"      the header list without the empty line that ends it        *)
(* The chunk size lines are abstracted: units of one chunk follow one      *)
(* another.                                                                *)
(***************************************************************************)
EXTENDS Integers, Sequences

Sources == {"doc", "page", "listing", "notice", "error", "script"}

NoCode == -1                       \* _responseCode before setCode
Codes  == {NoCode} \union Nat

Unit(src, i) == [t |-> "unit", src |-> src, i |-> i]
Units        == [t : {"unit"}, src : Sources, i : Nat]
Heads        == [t : {"head"}, code : Codes, framing : {"fixed", "chunked", "cut"}, n : Nat]
LastChunk    == [t |-> "last"]
Tokens       == Units \union Heads \union {LastChunk}

Responses == [code : Codes, complete : BOOLEAN, chunked : BOOLEAN, body : Seq(Units)]

\* httpResponse::clear, and the constructor.
EmptyResponse == [code |-> NoCode, complete |-> FALSE, chunked |-> FALSE, body |-> <<>>]

\* The codes after which a connection is closed.
IsErrorCode(code) == code >= 400 /\ code <= 599

\* setFixedSizeBody: the body is complete as soon as it is set.
SetFixedSizeBody(resp, body) == [resp EXCEPT !.body = body, !.complete = TRUE]

\* setCode: the first code wins; an error code brings its own body.
SetCode(resp, code) ==
  CASE resp.code # NoCode -> resp
    [] resp.code = NoCode /\ (IsErrorCode(code) \/ code = 999) ->
         SetFixedSizeBody([resp EXCEPT !.code = code], <<Unit("error", 1)>>)
    [] OTHER -> [resp EXCEPT !.code = code]

HeadOf(resp, framing) ==
  [t |-> "head", code |-> resp.code, framing |-> framing, n |-> Len(resp.body)]

\* getFixedBodyResponseAsString.  The header list still says "chunked" when an
\* earlier call of getHeadersForChunkedResponse has set it.
FixedBodyResponse(resp) ==
  <<HeadOf(resp, IF resp.chunked THEN "chunked" ELSE "fixed")>> \o resp.body

\* getStartLine and getHeaderListAsString, as _readFromFile joins them for HEAD.
StartLineAndHeaders(resp) == <<HeadOf(resp, "cut")>>

\* getHeadersForChunkedResponse: what it returns, and what it does to the response.
ChunkedHead(resp) == <<[HeadOf(resp, "chunked") EXCEPT !.n = 0]>>
StartChunked(resp) == [resp EXCEPT !.chunked = TRUE]

\* transformLineForChunkedResponse: an empty line is the last chunk.
Chunk(line) == IF line = <<>> THEN <<LastChunk>> ELSE line
AfterChunk(resp, line) == [resp EXCEPT !.complete = @ \/ line = <<>>]
=============================================================================
