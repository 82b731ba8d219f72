---------------------------- MODULE MCConnection ----------------------------
(***************************************************************************)
(* Small instances of Connection.                                          *)
(***************************************************************************)
EXTENDS Connection

Of(kinds) == [kind : kinds, close : {FALSE}]

Doc(len)   == [open |-> "ok", len |-> len]
NoDoc(how) == [open |-> how, len |-> 0]

GoodScript == [exec |-> TRUE, out |-> 2, status |-> 0, hangs |-> FALSE]

Disk(doc, page, yes, script) ==
  [doc |-> doc, page |-> page, listing |-> yes, removable |-> yes, script |-> script]

-----------------------------------------------------------------------------
\* All kinds of requests but redirects, with no error page.
MCRequests == Of(Kinds \ {"redirect"}) \union [kind : {"get"}, close : {TRUE}]

\* Files of no exact multiple of the buffer, scripts with every outcome.
MCDisks ==
  {Disk(Doc(n), NoDoc("absent"), TRUE, GoodScript) : n \in {0, 1, 3, 5}} \union
  {Disk(NoDoc(how), NoDoc("absent"), FALSE, GoodScript) : how \in {"denied"}} \union
  {Disk(Doc(1), NoDoc("absent"), TRUE, [GoodScript EXCEPT !.status = 1]),
   Disk(Doc(1), NoDoc("absent"), TRUE, [GoodScript EXCEPT !.hangs = TRUE]),
   Disk(Doc(1), NoDoc("absent"), TRUE, [GoodScript EXCEPT !.out = 3, !.hangs = TRUE]),
   Disk(Doc(1), NoDoc("absent"), TRUE, [GoodScript EXCEPT !.exec = FALSE])}
-----------------------------------------------------------------------------
\* Answers from files, found or not, with and without error page.
FileRequests == Of({"get", "missing"})
FileDisks ==
  {Disk(Doc(n), NoDoc("absent"), TRUE, GoodScript) : n \in {0, 1, 2, 4}} \union
  {Disk(NoDoc("denied"), Doc(n), TRUE, GoodScript) : n \in {1, 3}}
-----------------------------------------------------------------------------
\* The instances of the disagreements.
OneDisk == {Disk(Doc(3), NoDoc("absent"), TRUE, GoodScript)}
OneRequest == Of({"get"})
RedirectRequests == Of({"get", "redirect"})
=============================================================================
