----------------------------- MODULE ClientList -----------------------------
(***************************************************************************)
(* The connections of the server together: clientsList, the                *)
(* std::vector<Client> of src/main.cpp, and the sessions they share.       *)
(*                                                                         *)
(* A Client is an object at an address.  Its socket's callbacks and its    *)
(* script hold that address, so a Client that the vector copies (a full    *)
(* vector when a client is added, a gap when one is erased) must bind them *)
(* again and carry its state over: Client::operator= says what it carries. *)
(*                                                                         *)
(*   clients   the elements, in order                                      *)
(*   capacity  how many the vector's memory holds; it names that memory    *)
(*   sock      each connection's socket; eof: _eof was set; over: closed   *)
(*   cb        the Client to which each socket's callbacks are bound       *)
(*   cgi       the Client whose request each connection's script reads     *)
(*   list      WebServSessionList; made: sessions created so far           *)
(*   cookie    the session cookie each user's browser holds                *)
(*   begun     requests begun so far                                       *)
(*   quiet     time since the connection was last active (not in the code) *)
(*   resolved  the location its request was resolved to (not in the code)  *)
(***************************************************************************)
EXTENDS Sessions, Order, Sequences

CONSTANTS
  Conns,          \* the connections that may be made, each once
  Users, User,    \* the browsers, and the one that makes a connection
  MaxRequests,    \* bound: requests begun in all
  Locations,      \* the location blocks of the configuration
  NoLocation      \* a null _location

ASSUME ClientListAssumption ==
  /\ User \in [Conns -> Users]
  /\ MaxRequests \in Nat
  /\ NoLocation \notin Locations

VARIABLES clients, capacity, sock, cb, cgi, list, made, cookie, begun, quiet, resolved

vars == <<clients, capacity, sock, cb, cgi, list, made, cookie, begun, quiet, resolved>>

-----------------------------------------------------------------------------
\* The parts of a Client that the vector's copies bear on.
Clients == [conn : Conns, stage : {"idle", "waiting", "script"}, age : Ages,
            location : Locations \union {NoLocation}, session : Nat, setCookie : Nat]

NewClient(c) == [conn |-> c, stage |-> "idle", age |-> 0, location |-> NoLocation,
                 session |-> NoSession, setCookie |-> NoSession]

\* operator= of httpRequest leaves _location out: the object's own stays.
AssignedLocation(object) == object.location

\* Mutant: the session is not carried over.
AssignedWithoutSession(object, e) ==
  [e EXCEPT !.age = object.age, !.location = AssignedLocation(object),
            !.session = object.session]

\* operator= of Client leaves _lastActivityTime out.
Assigned(object, e) == [e EXCEPT !.age = object.age, !.location = AssignedLocation(object)]

\* The copy constructor: a new object, assigned to.
Copied(e) == Assigned(NewClient(e.conn), e)

\* An address: the vector's memory and the place in it.
Nowhere   == <<0, 0>>
At(cap, i) == <<cap, i>>
Addresses == {Nowhere} \union ((Nat \ {0}) \X (Nat \ {0}))

\* Addresses the elements cs have in a memory, of those that Want it noted.
Noted(f, cs, cap, Want(_)) ==
  [c \in Conns |-> IF \E i \in DOMAIN cs : cs[i].conn = c /\ Want(cs[i])
                     THEN At(cap, CHOOSE i \in DOMAIN cs : cs[i].conn = c) ELSE f[c]]

\* Mutant: only a new client registers its callbacks, not a copied one.
RegisteredOnce(f, cs, cap) == Noted(f, cs, cap, LAMBDA e : f[e.conn] = Nowhere)

\* _registerCallbacks, and setRequest on the script if there is one.
Registered(f, cs, cap) == Noted(f, cs, cap, LAMBDA e : TRUE)
Repointed(f, cs, cap)  == Noted(f, cs, cap, LAMBDA e : e.stage = "script")

-----------------------------------------------------------------------------
\* Where std::vector puts one element more.
Grown == IF Len(clients) < capacity THEN capacity ELSE IF capacity = 0 THEN 1 ELSE 2 * capacity

\* mainClientAvailableCb: emplace_back, which copies all elements when full.
Accept(c) ==
  LET kept == IF Grown = capacity THEN clients ELSE [i \in DOMAIN clients |-> Copied(clients[i])]
  IN  /\ sock[c] = "new"
      /\ sock' = [sock EXCEPT ![c] = "open"]
      /\ capacity' = Grown
      /\ clients' = Append(kept, NewClient(c))
      /\ cb' = Registered(cb, clients', Grown)
      /\ cgi' = Repointed(cgi, clients', Grown)
      /\ UNCHANGED <<list, made, cookie, begun, quiet, resolved>>

\* A callback of connection c is called on the Client it is bound to: the one
\* for reading until the end of file, the one for writing until the close.
Called(c, i) == cb[c] = At(capacity, i) /\ i \in DOMAIN clients
Reads(c, i)  == sock[c] = "open" /\ Called(c, i)
Writes(c, i) == sock[c] \in {"open", "eof"} /\ Called(c, i)

\* _handleSession: the session of the connection, else the one its cookie
\* finds, else a new one, whose id goes out with the response.
HandleSession(e, u) ==
  CASE e.session # NoSession -> e
    [] e.session = NoSession /\ Found(list, cookie[u]) -> [e EXCEPT !.session = cookie[u]]
    [] OTHER -> [e EXCEPT !.session = made + 1, !.setCookie = made + 1]

\* _clientReadCb when the header of a request is complete: its location is
\* resolved and its session found, and its body is still to come.
HeaderComes(c, i, loc) ==
  LET e == HandleSession(clients[i], User[c])
      new == e.setCookie # clients[i].setCookie
  IN  /\ Reads(c, i)
      /\ clients[i].stage = "idle"
      /\ begun < MaxRequests
      /\ begun' = begun + 1
      /\ clients' = [clients EXCEPT ![i] = [e EXCEPT !.location = loc, !.stage = "waiting", !.age = 0]]
      /\ list' = IF new THEN Created(list, made + 1) ELSE list
      /\ made' = IF new THEN made + 1 ELSE made
      /\ quiet' = [quiet EXCEPT ![c] = 0]
      /\ resolved' = [resolved EXCEPT ![c] = loc]
      /\ UNCHANGED <<capacity, sock, cb, cgi, cookie>>

\* _clientReadCb when the body is complete: _buildResponse starts the script.
BodyComes(c, i) ==
  /\ Reads(c, i)
  /\ clients[i].stage = "waiting"
  /\ clients' = [clients EXCEPT ![i].stage = "script", ![i].age = 0]
  /\ cgi' = [cgi EXCEPT ![c] = At(capacity, i)]
  /\ quiet' = [quiet EXCEPT ![c] = 0]
  /\ UNCHANGED <<capacity, sock, cb, list, made, cookie, begun, resolved>>

\* _clientWriteCb when the response is sent: request and response are cleared,
\* but not _location; the connection may be closed.
Answered(c, i, close) ==
  /\ Writes(c, i)
  /\ clients[i].stage = "script"
  /\ clients' = [clients EXCEPT ![i].stage = "idle", ![i].age = 0, ![i].setCookie = NoSession]
  /\ cookie' = IF clients[i].setCookie # NoSession
                 THEN [cookie EXCEPT ![User[c]] = clients[i].setCookie] ELSE cookie
  /\ cgi' = [cgi EXCEPT ![c] = Nowhere]
  /\ sock' = IF close THEN [sock EXCEPT ![c] = "over"] ELSE sock
  /\ quiet' = [quiet EXCEPT ![c] = 0]
  /\ resolved' = [resolved EXCEPT ![c] = NoLocation]
  /\ UNCHANGED <<capacity, cb, list, made, begun>>

\* The read that finds the end of what the peer sends.
PeerLeaves(c) ==
  /\ sock[c] = "open"
  /\ sock' = [sock EXCEPT ![c] = "eof"]
  /\ UNCHANGED <<clients, capacity, cb, cgi, list, made, cookie, begun, quiet, resolved>>

Listed == {clients[i].conn : i \in DOMAIN clients}

\* Time passes for every clock.
Tick ==
  /\ clients' = [i \in DOMAIN clients |-> [clients[i] EXCEPT !.age = Older(@)]]
  /\ list' = {[s EXCEPT !.age = Older(@)] : s \in list}
  /\ quiet' = [c \in Conns |-> IF c \in Listed THEN Older(quiet[c]) ELSE 0]
  /\ UNCHANGED <<capacity, sock, cb, cgi, made, cookie, begun, resolved>>

-----------------------------------------------------------------------------
\* The test of remove_if.
Dead(e) == sock[e.conn] # "open" \/ e.age > Timeout

\* Mutant: what remove_if leaves behind the elements it keeps is not erased.
ShiftedOnly(cs) ==
  LET live == InOrder({i \in DOMAIN cs : ~Dead(cs[i])})
  IN  [j \in DOMAIN cs |-> IF j \in DOMAIN live THEN Assigned(cs[j], cs[live[j]]) ELSE cs[j]]

\* erase(remove_if): the elements kept are assigned to the first places.
Shifted(cs) ==
  LET live == InOrder({i \in DOMAIN cs : ~Dead(cs[i])})
  IN  [j \in DOMAIN live |-> Assigned(cs[j], cs[live[j]])]

\* The end of an iteration of main: dead clients are erased, with their
\* sockets and scripts, and then expired sessions.
Sweep ==
  LET gone == {clients[i].conn : i \in {j \in DOMAIN clients : Dead(clients[j])}}
      Without(f) == [c \in Conns |-> IF c \in gone THEN Nowhere ELSE f[c]]
  IN  /\ clients' = Shifted(clients)
      /\ sock' = [c \in Conns |-> IF c \in gone THEN "over" ELSE sock[c]]
      /\ cb' = Registered(Without(cb), clients', capacity)
      /\ cgi' = Repointed(Without(cgi), clients', capacity)
      /\ list' = WithoutExpired(list)
      /\ quiet' = [c \in Conns |-> IF c \in gone THEN 0 ELSE quiet[c]]
      /\ resolved' = [c \in Conns |-> IF c \in gone THEN NoLocation ELSE resolved[c]]
      /\ UNCHANGED <<capacity, made, cookie, begun>>

Init ==
  /\ clients = <<>>
  /\ capacity = 0
  /\ sock = [c \in Conns |-> "new"]
  /\ cb = [c \in Conns |-> Nowhere]
  /\ cgi = [c \in Conns |-> Nowhere]
  /\ list = {}
  /\ made = 0
  /\ cookie = [u \in Users |-> NoSession]
  /\ begun = 0
  /\ quiet = [c \in Conns |-> 0]
  /\ resolved = [c \in Conns |-> NoLocation]

Callback(c, i) ==
  \/ \E loc \in Locations : HeaderComes(c, i, loc)
  \/ BodyComes(c, i)
  \/ \E close \in BOOLEAN : Answered(c, i, close)

Next ==
  \/ \E c \in Conns : Accept(c) \/ PeerLeaves(c)
  \/ \E c \in Conns, i \in DOMAIN clients : Callback(c, i)
  \/ Tick
  \/ Sweep

Spec == Init /\ [][Next]_vars

\* Time passes and the main loop runs; no peer has to do anything.
FairSpec == Spec /\ WF_vars(Tick) /\ WF_vars(Sweep)
-----------------------------------------------------------------------------
\* Every element has a connection of its own, and its memory has room for it.
TypeOK ==
  /\ clients \in Seq(Clients)
  /\ Len(clients) <= capacity
  /\ \A i, j \in DOMAIN clients : clients[i].conn = clients[j].conn => i = j
  /\ sock \in [Conns -> {"new", "open", "eof", "over"}]
  /\ cb \in [Conns -> Addresses] /\ cgi \in [Conns -> Addresses]
  /\ list \subseteq Sessions /\ made \in Nat
  /\ cookie \in [Users -> 0..made]
  /\ begun \in 0..MaxRequests
  /\ quiet \in [Conns -> Ages]
  /\ resolved \in [Conns -> Locations \union {NoLocation}]

\* Wherever the vector has moved a Client, its socket calls it and its script
\* reads its request: no callback or pointer is left on an object that is gone
\* or that has become another client's.
CallbacksBound ==
  \A i \in DOMAIN clients :
    LET c == clients[i].conn IN
    /\ cb[c] = At(capacity, i)
    /\ clients[i].stage = "script" => cgi[c] = At(capacity, i)

\* No two users ever share a session, in whatever order their clients come,
\* are moved and go, and their cookies arrive.
SessionsPrivate ==
  \A i, j \in DOMAIN clients :
    clients[i].session = clients[j].session /\ clients[i].session # NoSession =>
      User[clients[i].conn] = User[clients[j].conn]

\* A connection that the server ends for inactivity has been inactive: this is
\* what the loop logs of it.
RemovedWhenInactive ==
  [][\A c \in Listed : sock[c] = "open" /\ c \notin Listed' => quiet[c] > Timeout]_vars

\* A request that waits for its body keeps the location it was resolved to.
LocationKept ==
  \A i \in DOMAIN clients :
    clients[i].stage = "waiting" => clients[i].location = resolved[clients[i].conn]
=============================================================================
