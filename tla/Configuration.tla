--------------------------- MODULE Configuration ---------------------------
(***************************************************************************)
(* The configuration of the server (src/config/config.cpp,                 *)
(* src/config/config_extractors.cpp): a text of directives in nested       *)
(* blocks is read once, the settings of outer blocks are handed to inner   *)
(* ones that have none, and two tables from ports and names to servers are *)
(* built.  A text is a sequence of directives; what is not one, or has an  *)
(* argument its extractor refuses, is the directive "junk".                *)
(***************************************************************************)
EXTENDS Naturals, Sequences, SequencesExt, FiniteSets

CONSTANTS
  Methods,                               \* HttpMethod, those of AllowedMethods
  Texts,                                 \* the configurations to read
  DefaultPort, DefaultBodySize           \* DEFAULT_PORT, DEFAULT_CLIENT_BODY_SIZE

\* A text is a sequence, and the arguments of its directives have the types
\* that their extractors make of them.
ASSUME ConfigurationAssumption ==
  /\ DefaultPort \in Nat /\ DefaultBodySize \in Nat
  /\ \A t \in Texts : t \in Seq(ToSet(t))
  /\ \A t \in Texts : \A d \in ToSet(t) :
       /\ d.word = "client_max_body_size" => d.size \in Nat
       /\ d.word = "autoindex" => d.on \in BOOLEAN
       /\ d.word = "server_name" => d.names \in Seq(ToSet(d.names))
       /\ d.word = "index" => d.files \in Seq(ToSet(d.files))
       /\ d.word = "location" => d.ref \in Seq(ToSet(d.ref))

VARIABLES
  text,      \* the configuration
  at,        \* the position that is read next
  block,     \* the block it is in, or "ready" to serve, or "refused"
  main,      \* settings outside servers
  servers,   \* _servers
  server,    \* the server block being read
  location   \* the location block being read

configVars == <<text, at, block, main, servers, server, location>>
-----------------------------------------------------------------------------
(***************************************************************************)
(* AllowedMethods, BodySize and AutoIndex: a value and whether it is the   *)
(* default.  No method is allowed by default.                              *)
(***************************************************************************)
Default(v) == [value |-> v, default |-> TRUE]
Given(v)   == [value |-> v, default |-> FALSE]

DefaultSettings ==
  [allowed |-> Default({}), bodySize |-> Default(DefaultBodySize), autoindex |-> Default(FALSE)]

SettingWords == {"allowed_methods", "client_max_body_size", "autoindex"}

\* Their extractors: what was read last counts.
WithSetting(s, d) ==
  CASE d.word = "allowed_methods"      -> [s EXCEPT !.allowed = Given(d.methods)]
    [] d.word = "client_max_body_size" -> [s EXCEPT !.bodySize = Given(d.size)]
    [] d.word = "autoindex"            -> [s EXCEPT !.autoindex = Given(d.on)]

\* line, the position of the block in the text, is not in the code: it tells
\* apart blocks of equal contents.
NewServer(line) ==
  [line |-> line, settings |-> DefaultSettings, ports |-> <<>>, names |-> <<>>,
   locations |-> <<>>, errorPages |-> <<>>, cgis |-> <<>>]
NewLocation(ref, line) ==
  [line |-> line, settings |-> DefaultSettings, ref |-> ref, root |-> FALSE,
   index |-> <<>>, redirect |-> FALSE, cgis |-> <<>>]

NoServer   == NewServer(0)
NoLocation == NewLocation(<<>>, 0)

\* Some extractor throws: main prints the error and the server does not start.
Refuse ==
  /\ block' = "refused"
  /\ UNCHANGED <<text, at, main, servers, server, location>>

Reading(b) == block = b /\ at <= Len(text)
-----------------------------------------------------------------------------
\* operator>> of MainConfig, its loop.
ReadMain ==
  /\ Reading("main")
  /\ LET d == text[at] IN
     \/ /\ d.word \in SettingWords
        /\ main' = WithSetting(main, d)
        /\ at' = at + 1
        /\ UNCHANGED <<text, block, servers, server, location>>
     \/ /\ d.word = "server"
        /\ server' = NewServer(at)
        /\ block' = "server"
        /\ at' = at + 1
        /\ UNCHANGED <<text, main, servers, location>>
     \/ d.word \notin SettingWords \union {"server"} /\ Refuse

\* The lambdas of setServerSubparsers but "location".
ServerWords == SettingWords \union {"listen", "server_name", "error_page", "cgi"}
WithDirective(s, d) ==
  CASE d.word \in SettingWords  -> [s EXCEPT !.settings = WithSetting(@, d)]
    [] d.word = "listen"        -> [s EXCEPT !.ports = Append(@, d.port)]
    [] d.word = "server_name"   -> [s EXCEPT !.names = @ \o d.names]
    [] d.word = "error_page"    -> [s EXCEPT !.errorPages = Append(@, [codes |-> d.codes, page |-> d.page])]
    [] d.word = "cgi"           -> [s EXCEPT !.cgis = Append(@, [exts |-> d.exts, allowed |-> d.methods])]

DuplicatePort(s, d) == d.word = "listen" /\ d.port \in ToSet(s.ports)

\* Mutant: locations stay in the order of the text.
UnsortedLocations(s) == {s}

\* sortLocations: by length of ref, longest first.  std::sort leaves the order
\* of equal lengths open.
SortLocations(s) ==
  {t \in {[i \in DOMAIN s |-> s[p[i]]] : p \in Bijection(DOMAIN s, DOMAIN s)} :
     \A i, j \in DOMAIN t : i < j => Len(t[i].ref) >= Len(t[j].ref)}

\* Mutant: no port to listen on.
WithoutDefaultPort(s) == s

WithDefaultPort(s) == IF s.ports = <<>> THEN [s EXCEPT !.ports = <<DefaultPort>>] ELSE s

\* operator>> of ServerConfig.
ReadServer ==
  /\ Reading("server")
  /\ LET d == text[at] IN
     \/ /\ d.word \in ServerWords /\ ~DuplicatePort(server, d)
        /\ server' = WithDirective(server, d)
        /\ at' = at + 1
        /\ UNCHANGED <<text, block, main, servers, location>>
     \/ /\ d.word = "location"
        /\ location' = NewLocation(d.ref, at)
        /\ block' = "location"
        /\ at' = at + 1
        /\ UNCHANGED <<text, main, servers, server>>
     \/ /\ d.word = "}"
        /\ \E sorted \in SortLocations(server.locations) :
             servers' = Append(servers, [WithDefaultPort(server) EXCEPT !.locations = sorted])
        /\ server' = NoServer
        /\ block' = "main"
        /\ at' = at + 1
        /\ UNCHANGED <<text, main, location>>
     \/ (d.word \notin ServerWords \union {"location", "}"} \/ DuplicatePort(server, d)) /\ Refuse

\* The lambdas of operator>> of Location.
LocationWords == SettingWords \union {"root", "index", "redirect", "cgi"}
WithEntry(l, d) ==
  CASE d.word \in SettingWords -> [l EXCEPT !.settings = WithSetting(@, d)]
    [] d.word = "root"         -> [l EXCEPT !.root = TRUE]
    [] d.word = "index"        -> [l EXCEPT !.index = @ \o d.files]
    [] d.word = "redirect"     -> [l EXCEPT !.redirect = TRUE]
    [] d.word = "cgi"          -> [l EXCEPT !.cgis = Append(@, [exts |-> d.exts, allowed |-> d.methods])]

Leads(l) == l.root \/ l.redirect

\* operator>> of Location: a nested block, and one that leads nowhere, throw.
ReadLocation ==
  /\ Reading("location")
  /\ LET d == text[at] IN
     \/ /\ d.word \in LocationWords
        /\ location' = WithEntry(location, d)
        /\ at' = at + 1
        /\ UNCHANGED <<text, block, main, servers, server>>
     \/ /\ d.word = "}" /\ Leads(location)
        /\ server' = [server EXCEPT !.locations = Append(@, location)]
        /\ location' = NoLocation
        /\ block' = "server"
        /\ at' = at + 1
        /\ UNCHANGED <<text, main, servers>>
     \/ (d.word \notin LocationWords \union {"}"} \/ (d.word = "}" /\ ~Leads(location))) /\ Refuse
-----------------------------------------------------------------------------
\* _overrideDefaults, for one block inside another.
Inherited(outer, inner) ==
  [f \in DOMAIN inner |-> IF ~outer[f].default /\ inner[f].default THEN outer[f] ELSE inner[f]]

LocationOf(s, l) ==
  [l EXCEPT !.settings = Inherited(s.settings, @),
            !.cgis = IF @ = <<>> THEN s.cgis ELSE @]
ServerOf(s) ==
  [s EXCEPT !.locations = [j \in DOMAIN @ |-> LocationOf(s, @[j])]]

\* Mutant: locations inherit before servers do.
InnermostFirst(s) == [ServerOf(s) EXCEPT !.settings = Inherited(main, @)]

Overridden(s) == ServerOf([s EXCEPT !.settings = Inherited(main, @)])

\* The end of the text.  In an open block the extractors find no closing brace.
EndOfText ==
  /\ at > Len(text)
  /\ \/ /\ block = "main"
        /\ servers' = [i \in DOMAIN servers |-> Overridden(servers[i])]
        /\ block' = "ready"
        /\ UNCHANGED <<text, at, main, server, location>>
     \/ block \in {"server", "location"} /\ Refuse

ConfigInit ==
  /\ text \in Texts
  /\ at = 1
  /\ block = "main"
  /\ main = DefaultSettings
  /\ servers = <<>>
  /\ server = NoServer
  /\ location = NoLocation

ReadConfig == ReadMain \/ ReadServer \/ ReadLocation \/ EndOfText
-----------------------------------------------------------------------------
(***************************************************************************)
(* The tables.  Insertion does not overwrite, so each key leads to the     *)
(* first server that has it; 0 is nullptr.                                 *)
(***************************************************************************)
Least(S) == IF S = {} THEN 0 ELSE CHOOSE i \in S : \A j \in S : i <= j

\* Mutant: the last server that has the key.
LastListening(port) ==
  LET S == {i \in DOMAIN servers : port \in ToSet(servers[i].ports)}
  IN  IF S = {} THEN 0 ELSE CHOOSE i \in S : \A j \in S : i >= j

GetServerFromPort(port) ==
  Least({i \in DOMAIN servers : port \in ToSet(servers[i].ports)})
GetServerFromPortAndName(port, name) ==
  Least({i \in DOMAIN servers : port \in ToSet(servers[i].ports) /\ name \in ToSet(servers[i].names)})

GetServer(port, name) ==
  LET named == GetServerFromPortAndName(port, name)
  IN  IF name # "" /\ named # 0 THEN named ELSE GetServerFromPort(port)

GetPorts == UNION {ToSet(servers[i].ports) : i \in DOMAIN servers}

\* ServerConfig::getErrorPage: the first entry with the code; "" is none.
GetErrorPage(s, code) ==
  LET n == Least({i \in DOMAIN s.errorPages : code \in s.errorPages[i].codes})
  IN  IF n = 0 THEN "" ELSE s.errorPages[n].page

\* Location::getCgiFromPath: the first entry with the extension of the path.
GetCgiFromPath(l, ext) ==
  Least({i \in DOMAIN l.cgis : ext # "" /\ ext \in l.cgis[i].exts})
=============================================================================
