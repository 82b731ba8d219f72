----------------------------- MODULE MCRouting -----------------------------
(***************************************************************************)
(* Small instances of Routing: families of configurations, and requests.   *)
(***************************************************************************)
EXTENDS Routing

MCMethods == {"GET", "HEAD", "POST", "PUT", "PATCH", "DELETE", "OPTIONS"}

Allow(ms)        == [word |-> "allowed_methods", methods |-> ms]
Limit(n)         == [word |-> "client_max_body_size", size |-> n]
Autoindex(b)     == [word |-> "autoindex", on |-> b]
Listen(p)        == [word |-> "listen", port |-> p]
Names(ns)        == [word |-> "server_name", names |-> ns]
Page(codes, p)   == [word |-> "error_page", codes |-> codes, page |-> p]
Script(exts, ms) == [word |-> "cgi", exts |-> exts, methods |-> ms]
Index(files)     == [word |-> "index", files |-> files]
Plain(word)      == [word |-> word]
Root             == Plain("root")
Junk             == Plain("junk")

Loc(ref, body) == <<[word |-> "location", ref |-> ref]>> \o body \o <<Plain("}")>>
Srv(body)      == <<Plain("server")>> \o body \o <<Plain("}")>>

All      == Allow(MCMethods)
Top      == Loc(<<"/">>, <<Root>>)
Html     == [name |-> "index.html", ext |-> ".html"]
PyIndex  == [name |-> "index.py", ext |-> ".py"]
Page404  == Page({404}, "lost.html")
PageMany == Page({301, 403, 404, 405, 413}, "many.html")

Optional(d) == {<<>>, <<d>>}

\* Settings and scripts of the three levels, the outermost before or after.
Levels(m, s, l) ==
  {p[1] \o Srv(p[2] \o Loc(<<"/">>, <<Root>> \o p[3]) \o p[4]) \o p[5] :
     p \in {q \in Optional(m) \X Optional(s) \X Optional(l) \X Optional(s) \X Optional(m) :
              (q[1] = <<>> \/ q[5] = <<>>) /\ (q[2] = <<>> \/ q[4] = <<>>)}}
Inheritances ==
  Levels(Allow({"GET"}), Allow({"POST", "PATCH"}), Allow({"GET", "DELETE"}))
  \union {<<All>> \o t : t \in Levels(Limit(0), Limit(1), Limit(2)) \union Levels(Autoindex(TRUE), Autoindex(FALSE), Autoindex(TRUE))}
  \union {<<All>> \o Srv(s \o Loc(<<"/">>, <<Root>> \o l)) :
            s \in Optional(Script({".py"}, {"GET"})) \union {<<Script({".py"}, {"POST"}), Script({".py"}, {"GET"})>>},
            l \in Optional(Script({".py", ".html"}, {"POST", "GET"})) \union {<<Script({".sh"}, {"GET"})>>}}

\* Two or three servers.
Virtual(ports, names) == Srv([i \in DOMAIN ports |-> Listen(ports[i])] \o names \o Top)
Pair(P, N, Q, M) == {Virtual(p, n) \o Virtual(q, m) : p \in P, n \in N, q \in Q, m \in M}
SomePorts == {<<>>, <<80>>, <<81>>, <<81, 80>>}
SomeNames == {<<>>, <<Names(<<"a">>)>>, <<Names(<<"b">>), Names(<<"a">>)>>, <<Names(<<"b", "">>)>>}
Selections ==
  {<<Allow({"GET"})>> \o t :
     t \in Pair(SomePorts, SomeNames, SomePorts, SomeNames)
           \union {Virtual(<<80>>, <<>>) \o u : u \in Pair({<<80>>}, SomeNames, {<<80, 81>>}, SomeNames)}}

\* Three locations in any order, two of the same reference among them.
Refs == {<<"/">>, <<"/", "a">>, <<"/", "a", "/">>, <<"/", "b", "/">>}
Trees ==
  {<<All>> \o Srv(<<PageMany>> \o Loc(r1, <<Root>>) \o Loc(r2, <<Root, Allow({"GET"})>>) \o Loc(r3, <<Plain("redirect")>>)) :
     r1 \in Refs, r2 \in Refs, r3 \in Refs}

\* Index files, listings, scripts and error pages of one location.
Sites ==
  {<<All, Limit(1)>> \o Srv(<<Page404, PageMany>> \o Loc(<<"/">>, <<Root>> \o i \o a \o c) \o Loc(<<"/", "a", "/">>, r)) :
     i \in {<<>>, <<Index(<<Html>>)>>, <<Index(<<PyIndex>>), Index(<<Html>>)>>},
     a \in Optional(Autoindex(TRUE)),
     c \in Optional(Script({".py"}, {"GET", "PUT"})),
     r \in {<<Root>>, <<Plain("redirect")>>}}

\* Texts that no server starts with.
Faulty ==
  LET Bad(body) == {Srv(body), Srv(<<Listen(81)>> \o body), Srv(Top) \o Srv(body)}
  IN  {<<Junk>>, Top, <<Listen(80)>> \o Srv(Top), <<Plain("server")>>, <<Plain("server")>> \o Top}
      \union Bad(<<Junk>>) \union Bad(<<Listen(80), Names(<<"a">>), Listen(80)>>) \union Bad(<<Plain("server")>>)
      \union Bad(Loc(<<"/">>, <<Index(<<Html>>)>>)) \union Bad(Loc(<<"/">>, <<Root, Junk>>))
      \union Bad(Loc(<<"/">>, <<Root>> \o Top)) \union Bad(<<[word |-> "location", ref |-> <<"/">>]>>)

MCTexts == Inheritances \union Selections \union Trees \union Sites \union Faulty

Ask(port, host, method, path, ext, length, target, present) ==
  [port |-> port, host |-> host, method |-> method, path |-> path, ext |-> ext, length |-> length,
   counted |-> TRUE, target |-> target, present |-> present,
   executable |-> TRUE, removable |-> TRUE, pageExists |-> TRUE]

Sizes(method) == IF HasBody([method |-> method]) THEN 0..3 ELSE {0}

MCRequests ==
  {[Ask(80, "a", m, <<"/">>, e, n, "file", {}) EXCEPT !.counted = FALSE] :
     m \in {"POST", "PUT", "PATCH"}, e \in {"", ".py"}, n \in {1, 3}}
  \union {[Ask(80, "a", "DELETE", <<"/">>, e, 0, "file", {}) EXCEPT !.removable = FALSE] : e \in {"", ".py"}}
  \union
  {Ask(port, host, "GET", <<"/">>, "", 0, "file", {}) : port \in {80, 81}, host \in {"", "a", "b"}}
  \union {Ask(80, "a", "GET", <<"/">> \o p, e, 0, t, {}) :
            p \in {<<"a">>, <<"a", "/">>, <<"b", "/", "a">>, <<"a", "b">>}, e \in {"", ".txt"}, t \in {"file", "absent"}}
  \union UNION {{Ask(80, "a", m, <<"/">>, e, n, t, {}) :
                   n \in Sizes(m), e \in {"", ".py"}, t \in {"file", "absent"}} : m \in MCMethods}
  \union {Ask(80, "a", m, <<"/">>, "", 0, t, i) :
            m \in {"GET", "DELETE"}, t \in {"dir", "locked", "denied"}, i \in SUBSET {Html, PyIndex}}
  \union {[Ask(80, "a", "GET", <<"/">>, ".py", 0, t, {}) EXCEPT !.executable = FALSE, !.pageExists = FALSE] : t \in {"file", "absent", "denied"}}
=============================================================================
