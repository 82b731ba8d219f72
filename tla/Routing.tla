------------------------------ MODULE Routing ------------------------------
(***************************************************************************)
(* What the server does with a request under a configuration               *)
(* (src/httpMessage/httpRequest/parse_header.cpp, _build_response in       *)
(* src/client/client_build_response.cpp): pick the server, the location,   *)
(* the path, and answer with a file, a listing, a script or an error.      *)
(* A path is a sequence of pieces, "/" among them; ext is the extension of *)
(* what it names, and only a name with an extension holds a dot.  What the *)
(* path leads to on the disk comes with the request, and whether its body  *)
(* is counted: by a Content-Length, or chunk by chunk.                     *)
(***************************************************************************)
EXTENDS Configuration

CONSTANT Requests

\* Methods that AllowedMethods does not list never pass _parseHttpStartLine.
ASSUME RoutingAssumption ==
  /\ Methods \subseteq {"GET", "HEAD", "POST", "PUT", "PATCH", "DELETE", "OPTIONS"}
  /\ \A r \in Requests :
       /\ r.method \in Methods /\ r.path # <<>> /\ r.path[1] = "/"
       /\ r.length \in Nat /\ r.counted \in BOOLEAN /\ r.removable \in BOOLEAN

VARIABLES request, answer

vars == <<configVars, request, answer>>

NoRequest == [method |-> "none"]
NoAnswer  == [what |-> "none"]

HasBody(r) == r.method \in {"POST", "PUT", "PATCH"}
-----------------------------------------------------------------------------
(***************************************************************************)
(* _resolvePathAndLocationBlock.                                           *)
(***************************************************************************)
ResolvePath(r) ==
  IF r.ext = "" /\ Last(r.path) # "/" THEN Append(r.path, "/") ELSE r.path

\* The location: its place in the server's list, 0 for none.
FindLocation(s, r) ==
  Least({j \in DOMAIN s.locations : IsPrefix(s.locations[j].ref, ResolvePath(r))})

\* The first index file of the location that is there.
IndexFile(l, r) == Least({i \in DOMAIN l.index : l.index[i] \in r.present})

Refused(code)     == [what |-> "error", code |-> code, ext |-> ""]
Found(what, ext)  == [what |-> what, code |-> 200, ext |-> ext]

\* A "locked" directory can be read and not be searched: to look for an index
\* file in it fails, to list it does not.
ResolveDirectory(l, r) ==
  CASE r.target = "locked" /\ l.index # <<>> -> Refused(403)
    [] r.target = "dir" /\ IndexFile(l, r) # 0 -> Found("file", l.index[IndexFile(l, r)].ext)
    [] OTHER ->
         CASE l.settings.autoindex.value -> Found("list", r.ext)
           [] ~l.settings.autoindex.value /\ l.index # <<>> -> Refused(404)
           [] OTHER -> Refused(403)

Resolve(l, r) ==
  CASE l.redirect -> Refused(301)
    [] ~l.redirect /\ r.method \notin l.settings.allowed.value -> Refused(405)
    [] OTHER ->
         CASE r.target = "denied" -> Refused(403)
           [] r.target = "absent" /\ r.method # "PUT" /\ GetCgiFromPath(l, r.ext) = 0 -> Refused(404)
           [] r.target \in {"dir", "locked"} -> ResolveDirectory(l, r)
           [] OTHER -> Found("file", r.ext)

\* Mutant: a body of the size of the limit is refused.
BodyReachesLimit(l, r) == HasBody(r) /\ r.counted /\ r.length >= l.settings.bodySize.value

\* _addToFixedContentSize and _addChunkedContent; _addUntilNewline, which reads
\* a body that is not counted, has no limit.
BodyTooLarge(l, r) == HasBody(r) /\ r.counted /\ r.length > l.settings.bodySize.value
-----------------------------------------------------------------------------
(***************************************************************************)
(* _buildResponse, once the body is complete.  found is what _path and     *)
(* _returnAutoIndex say.                                                   *)
(***************************************************************************)
\* Mutant: the methods of the script are not looked at.
RunsWhateverMethod(l, r, found) == GetCgiFromPath(l, found.ext) # 0

RunsScript(l, r, found) ==
  LET c == GetCgiFromPath(l, found.ext)
  IN  c # 0 /\ r.method \in l.cgis[c].allowed

BuildResponse(l, r, found) ==
  CASE RunsScript(l, r, found) -> IF r.executable THEN Found("script", found.ext) ELSE Refused(500)
    [] ~RunsScript(l, r, found) /\ found.what = "list" -> found
    [] OTHER ->
         CASE r.method \in {"GET", "POST", "HEAD"} ->
                IF r.target = "absent" THEN Refused(500) ELSE found
           [] r.method = "DELETE" ->
                IF r.target = "absent" \/ ~r.removable THEN Refused(500)
                ELSE [found EXCEPT !.what = "delete"]
           [] r.method \in {"PUT", "OPTIONS"} -> Refused(999)
           [] OTHER -> Refused(405)

Handle(l, r) ==
  LET found == Resolve(l, r)
  IN  CASE found.what = "error" -> found
        [] found.what # "error" /\ BodyTooLarge(l, r) -> Refused(413)
        [] OTHER -> BuildResponse(l, r, found)

(***************************************************************************)
(* _returnHttpErrorToClient: the page of the server for the code, under    *)
(* the root of its location "/"; base is that location, 0 the directory    *)
(* the server was started in.                                              *)
(***************************************************************************)
RootLocation(s) == Least({j \in DOMAIN s.locations : s.locations[j].ref = <<"/">>})
Line(s, j)      == IF j = 0 THEN 0 ELSE s.locations[j].line

ErrorPage(s, code, r) ==
  IF code # 200 /\ GetErrorPage(s, code) # "" /\ r.pageExists
    THEN [page |-> GetErrorPage(s, code), base |-> Line(s, RootLocation(s))]
    ELSE [page |-> "", base |-> 0]

Answer(s, j, r) ==
  LET res == IF j = 0 THEN Refused(404) ELSE Handle(s.locations[j], r)
  IN  [what |-> res.what, code |-> res.code, ext |-> res.ext,
       server |-> s.line, location |-> Line(s, j), page |-> ErrorPage(s, res.code, r)]

\* parse and _buildResponse for a request that came on a port the server
\* listens on; so some server is always found.
Route ==
  /\ block = "ready" /\ request = NoRequest
  /\ \E r \in Requests :
       /\ r.port \in GetPorts
       /\ request' = r
       /\ LET s == servers[GetServer(r.port, r.host)]
          IN  answer' = Answer(s, FindLocation(s, r), r)
  /\ UNCHANGED configVars

\* httpRequest::clear, when the response has been sent.
ClearRequest ==
  /\ request # NoRequest
  /\ request' = NoRequest
  /\ answer' = NoAnswer
  /\ UNCHANGED configVars

Init == ConfigInit /\ request = NoRequest /\ answer = NoAnswer

Next ==
  \/ ReadConfig /\ UNCHANGED <<request, answer>>
  \/ Route
  \/ ClearRequest

Spec == Init /\ [][Next]_vars
-----------------------------------------------------------------------------
(***************************************************************************)
(* A second reading of the text, for the properties: what a block says     *)
(* itself, and what the blocks around it say.  A block is the position of  *)
(* its first word, 0 the whole text.                                       *)
(***************************************************************************)
Opens(p)  == text[p].word \in {"server", "location"}
Closes(p) == text[p].word = "}"

\* The block around position p: the last to open such that all that opens
\* after it is closed again.
Around(p) ==
  LET Between(q) == (q + 1)..(p - 1)
      Balanced(q) == Cardinality({k \in Between(q) : Opens(k)}) = Cardinality({k \in Between(q) : Closes(k)})
      outer == {q \in 1..(p - 1) : Opens(q) /\ Balanced(q)}
  IN  IF outer = {} THEN 0 ELSE Max(outer)

Says(b, word) == {p \in DOMAIN text : text[p].word = word /\ Around(p) = b}

Servers      == Says(0, "server")
Locations(b) == Says(b, "location")

\* The directive in force in location l: its own, or the server's, or main's.
InForce(l, word) ==
  LET levels == <<Says(l, word), Says(Around(l), word), Says(0, word)>>
      n == Least({i \in 1..3 : levels[i] # {}})
  IN  IF n = 0 THEN 0 ELSE Max(levels[n])

AllowedIn(l)   == LET p == InForce(l, "allowed_methods") IN IF p = 0 THEN {} ELSE text[p].methods
LimitIn(l)     == LET p == InForce(l, "client_max_body_size") IN IF p = 0 THEN DefaultBodySize ELSE text[p].size
AutoindexIn(l) == LET p == InForce(l, "autoindex") IN p # 0 /\ text[p].on

\* Scripts are not inherited one by one: a location has its own or the server's.
CgisIn(l) == LET own == Says(l, "cgi") IN IF own # {} THEN own ELSE Says(Around(l), "cgi")

\* The first of them with an extension decides.
ScriptIn(l, ext, method) ==
  LET c == Least({p \in CgisIn(l) : ext # "" /\ ext \in text[p].exts})
  IN  c # 0 /\ method \in text[c].methods

PortsOf(b) ==
  LET S == Says(b, "listen") IN IF S = {} THEN {DefaultPort} ELSE {text[p].port : p \in S}
NamesOf(b) == UNION {ToSet(text[p].names) : p \in Says(b, "server_name")}
-----------------------------------------------------------------------------
(***************************************************************************)
(* Properties.                                                             *)
(***************************************************************************)
TypeOK ==
  /\ text \in Texts /\ at \in 1..(Len(text) + 1)
  /\ block \in {"main", "server", "location", "ready", "refused"}
  /\ \A i \in DOMAIN servers :
       /\ servers[i].ports # <<>>
       /\ \A j, k \in DOMAIN servers[i].ports : servers[i].ports[j] = servers[i].ports[k] => j = k
       /\ \A j \in DOMAIN servers[i].locations : Leads(servers[i].locations[j])
  /\ request \in Requests \union {NoRequest}
  /\ request = NoRequest <=> answer = NoAnswer

\* Each location ends up with the setting that stands nearest to it in the
\* text, wherever in the text the outer ones stand (_overrideDefaults).
SettingsInherited ==
  block = "ready" =>
    \A i \in DOMAIN servers : \A j \in DOMAIN servers[i].locations :
      LET l == servers[i].locations[j]
      IN  /\ l.settings.allowed.value = AllowedIn(l.line)
          /\ l.settings.bodySize.value = LimitIn(l.line)
          /\ l.settings.autoindex.value = AutoindexIn(l.line)
          /\ Len(l.cgis) = Cardinality(CgisIn(l.line))

\* A request is answered by the first server of the text that listens on the
\* port and has the name that it asks for, or else by the first that listens
\* on the port (getServer and the tables behind it).
ServerChosen ==
  answer # NoAnswer =>
    LET listening == {b \in Servers : request.port \in PortsOf(b)}
        named     == {b \in listening : request.host # "" /\ request.host \in NamesOf(b)}
    IN  answer.server = Least(IF named = {} THEN listening ELSE named)

\* Its location is one with the longest reference that begins the address,
\* whatever the order of the blocks in the text (sortLocations and the loop
\* of _resolvePathAndLocationBlock).
LocationChosen ==
  answer # NoAnswer =>
    LET Fits(b) == IsPrefix(text[b].ref, ResolvePath(request))
        fitting == {b \in Locations(answer.server) : Fits(b)}
    IN  IF fitting = {} THEN answer.location = 0
        ELSE /\ answer.location \in fitting
             /\ \A b \in fitting : Len(text[b].ref) <= Len(text[answer.location].ref)

\* Nothing is read, run, listed or deleted unless the configuration says so of
\* that location: the method is allowed and there is no redirect, a body with a
\* length or in chunks is within the limit (others have none), a script has an
\* entry for its extension and method, what has such an entry is never sent as
\* a file, and a listing needs autoindex and no index file.
ServedAsConfigured ==
  (answer # NoAnswer /\ answer.what # "error") =>
    LET l == answer.location IN
    /\ l # 0 /\ Says(l, "redirect") = {}
    /\ request.method \in AllowedIn(l)
    /\ HasBody(request) /\ request.counted => request.length <= LimitIn(l)
    /\ answer.what = "script" <=> ScriptIn(l, answer.ext, request.method)
    /\ answer.what = "list" =>
         AutoindexIn(l) /\ \A p \in Says(l, "index") : ToSet(text[p].files) \cap request.present = {}

\* What is refused is refused for the reason that its code gives, and with the
\* page that its own server has for that code, if the page is there.
RefusedWithReason ==
  (answer # NoAnswer /\ answer.what = "error") =>
    LET l == answer.location
        pages == {p \in Says(answer.server, "error_page") : answer.code \in text[p].codes}
    IN  /\ answer.code = 301 <=> (l # 0 /\ Says(l, "redirect") # {})
        /\ answer.code = 405 => request.method \notin AllowedIn(l) \/ request.method = "PATCH"
        /\ answer.code = 413 => request.counted /\ request.length > LimitIn(l)
        /\ answer.code = 404 => l = 0 \/ request.target \in {"absent", "dir"}
        /\ answer.page.page =
             IF pages = {} \/ ~request.pageExists THEN "" ELSE text[Least(pages)].page
=============================================================================
