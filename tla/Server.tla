------------------------------- MODULE Server -------------------------------
(***************************************************************************)
(* The whole server over its descriptors: listening sockets, clients, the  *)
(* files and pipes of their answers, the list of weak pointers that        *)
(* AsyncPollArray walks (src/async/pollarray.cpp), the descriptors of the  *)
(* kernel and the erase of main (src/main.cpp).  What is read and written  *)
(* is in Connection and Script; here a request or an answer takes any      *)
(* number of callbacks.                                                    *)
(*                                                                         *)
(* An object (AsyncFD) is named by the port of a listening socket, by a    *)
(* connection, or by a number for a file or the end of a pipe.             *)
(***************************************************************************)
EXTENDS Order, Sequences, Functions

CONSTANTS
  Ports,       \* that main listens on, in the order of getPorts
  Conns,       \* connections that peers make
  Machines,    \* [maxFd, conns]: descriptors are numbered from 3 to maxFd
               \* (RLIMIT_NOFILE), and which connections are made
  Null         \* a null pointer in the list

Listening == {Ports[i] : i \in DOMAIN Ports}
NoFd      == -1
Locals    == Nat
Objects   == Listening \union Conns \union Locals

ASSUME ServerAssumption ==
  /\ Ports \in Seq(Listening)
  /\ \A i, j \in DOMAIN Ports : Ports[i] = Ports[j] => i = j
  /\ Machines \subseteq [maxFd : Nat, conns : SUBSET Conns]
  /\ \A m \in Machines : Len(Ports) + 2 <= m.maxFd
  /\ Listening \intersect Conns = {}
  /\ \A o \in Listening \union Conns : o \notin Locals
  /\ Null \notin Objects

VARIABLES
  machine,   \* that the server runs on
  peer,      \* of each connection: the state of its socket in the kernel
  data,      \* connections with a request that was not read
  backlog,   \* of each port: connections to accept
  fds,       \* _fd of the objects that exist
  open,      \* descriptors that the process has open
  clients,   \* clientsList
  list,      \* _weakFDs
  due,       \* events that ::poll returned and the walk has not come to
  phase,     \* "poll", or "walk" from ::poll to the erase
  down       \* the server was ended by SIGPIPE

outside == <<machine, peer, data, backlog>>
objects == <<fds, open, clients>>
loop    == <<list, due, phase>>
vars    == <<outside, objects, loop, down>>

\* The fields of a Client that open descriptors, keep them or have it erased:
\* text, _clientWriteBuffer is not empty; asked, _request has a server, whose
\* error pages count; deaf, state ERROR.  file is the handler, if there is one,
\* by its descriptor: Null if the file could not be opened or is read to its end.
Clients == [text : BOOLEAN, asked : BOOLEAN, deaf : BOOLEAN, eof : BOOLEAN, idle : BOOLEAN,
            file : SUBSET (Locals \union {Null}), pipes : SUBSET Locals]
NewClient == [text |-> FALSE, asked |-> FALSE, deaf |-> FALSE, eof |-> FALSE, idle |-> FALSE,
              file |-> {}, pipes |-> {}]

Rank   == [in |-> 1, out |-> 2, hangup |-> 3]
Events == DOMAIN Rank
\* owner, the object that was polled, is not in the code: it knows positions.
Due    == [at : Nat, event : Events, owner : Objects]
-----------------------------------------------------------------------------
(***************************************************************************)
(* The peers.  One that leaves shuts its side or resets the connection; a  *)
(* reset is reported by one call and leaves the connection broken, and so  *)
(* does writing to a peer that has closed.                                 *)
(***************************************************************************)
Left(c) == peer[c] \in {"shut", "reset", "broken"}

Connect(c, p) ==
  /\ peer[c] = "away" /\ c \in machine.conns
  /\ peer' = [peer EXCEPT ![c] = "open"]
  /\ backlog' = [backlog EXCEPT ![p] = Append(@, c)]
  /\ UNCHANGED <<machine, data, objects, loop, down>>

Sends(c) ==
  /\ peer[c] = "open" /\ c \notin data
  /\ data' = data \union {c}
  /\ UNCHANGED <<machine, peer, backlog, objects, loop, down>>

Leaves(c) ==
  /\ peer[c] = "open"
  /\ \/ peer' = [peer EXCEPT ![c] = "shut"] /\ UNCHANGED data
     \/ peer' = [peer EXCEPT ![c] = "reset"] /\ data' = data \ {c}
  /\ UNCHANGED <<machine, backlog, objects, loop, down>>

\* _timeOutDuration without a change of state.
TimePasses(c) ==
  /\ c \in DOMAIN clients /\ ~clients[c].idle /\ ~down
  /\ clients' = [clients EXCEPT ![c].idle = TRUE]
  /\ UNCHANGED <<outside, fds, open, loop, down>>
-----------------------------------------------------------------------------
(***************************************************************************)
(* Objects and descriptors.  What a handler has done so far is a world:    *)
(* clients, objects, open numbers and list as it would leave them.         *)
(***************************************************************************)
\* What the kernel gives when the numbers s are open, the lowest number first;
\* nothing if it has none left.
Fds         == 3..machine.maxFd
Given(s, k) == Nth(Fds \ s, k)

\* Names for new objects, beside the objects f and the list l.
Unused(f, l)   == 0..(Len(l) + 1) \ (DOMAIN f \union {l[i] : i \in DOMAIN l})
Named(f, l, k) == Nth(Unused(f, l), k)

With(f, x, v) == [y \in DOMAIN f \union {x} |-> IF y = x THEN v ELSE f[y]]

IsValid(o) == o \in DOMAIN fds /\ fds[o] # NoFd

\* What shared pointers keep.
Held(cs) ==
  Listening \union DOMAIN cs \union UNION {cs[c].file \union cs[c].pipes : c \in DOMAIN cs}

World(cs, f, s, l) == [clients |-> cs, fds |-> f, open |-> s, list |-> l]
Now == World(clients, fds, open, list)

\* An object that nobody holds is destroyed, and closed if valid.
Rid(w) ==
  LET kept == DOMAIN w.fds \intersect Held(w.clients)
  IN  World(w.clients, Restrict(w.fds, kept), w.open \ {w.fds[o] : o \in DOMAIN w.fds \ kept}, w.list)

Becomes(w) == clients' = w.clients /\ fds' = w.fds /\ open' = w.open /\ list' = w.list

\* Mutant: _fd is not reset.
ClosedKeepingNumber(f, c) == f

\* AsyncFD::close.
Closed(f, c) == [f EXCEPT ![c] = NoFd]

\* Mutants: added at the front; added by the client and by main.
AddedInFront(l, o) == <<o>> \o l
AddedTwice(l, o)   == l \o <<o, o>>

\* AsyncPollArray::add.
Added(l, o) == Append(l, o)

\* An object of the name o with the number n, at the end of the list.
WithObject(w, o, n) == World(w.clients, With(w.fds, o, n), w.open \union {n}, Added(w.list, o))

SocketClosed(w, c) == World(w.clients, Closed(w.fds, c), w.open \ {w.fds[c]}, w.list)

\* The client c with the fields of v; changeState, which it keeps the time of;
\* the handler and the pipes that it has from now on.
Client(w, c, v)       == World([w.clients EXCEPT ![c] = v], w.fds, w.open, w.list)
ChangedState(v, deaf) == [v EXCEPT !.deaf = deaf, !.idle = FALSE]
HasFile(w, c, f)      == Rid(Client(w, c, [w.clients[c] EXCEPT !.file = f]))
HasPipes(w, c, f)     == Rid(Client(w, c, [w.clients[c] EXCEPT !.pipes = f]))

\* _openFileAndAddToPollArray: opened before what it replaces is closed.  A
\* handler that could not open its file adds a null pointer to the list.
ReadableFile(w, c) ==
  {HasFile(WithObject(w, o, n), c, {o}) : n \in Given(w.open, 0), o \in Named(w.fds, w.list, 0)}
BadFile(w, c)    == HasFile(World(w.clients, w.fds, w.open, Added(w.list, Null)), c, {Null})
FileOpened(w, c) == ReadableFile(w, c) \union {BadFile(w, c)}

\* _returnHttpErrorToClient: a text, or a page of the server of the request; the
\* request is forgotten, so that a page that fails is answered with a text.
ErrorReturned(w, c) ==
  LET error(text) ==
        Client(w, c, [ChangedState(w.clients[c], TRUE) EXCEPT !.text = text, !.asked = FALSE])
  IN  {error(TRUE)} \union IF w.clients[c].asked THEN FileOpened(error(FALSE), c) ELSE {}
-----------------------------------------------------------------------------
(***************************************************************************)
(* AsyncPollArray::poll: the list is rid of dead and invalid objects, the  *)
(* rest polled, and the results looked up by position while callbacks add  *)
(* to the list, open and close.  A pipe's callbacks are in Script.         *)
(***************************************************************************)
Ready(o) ==
  CASE o \in Listening -> IF backlog[o] = <<>> THEN {} ELSE {"in"}
    [] o \in Conns -> (IF o \in data \/ Left(o) THEN {"in"} ELSE {}) \union {"out"} \union
                      (IF peer[o] \in {"reset", "broken"} THEN {"hangup"} ELSE {})
    [] OTHER -> IF \E c \in DOMAIN clients : o \in clients[c].file THEN {"in"} ELSE {}

\* AsyncPollArray::cleanup: the objects that are valid, in their order.
Cleaned ==
  LET order == InOrder({i \in DOMAIN list : IsValid(list[i])})
  IN  [k \in DOMAIN order |-> list[order[k]]]

Poll ==
  /\ phase = "poll" /\ ~down
  /\ list' = Cleaned
  /\ due' = UNION {{[at |-> i, event |-> e, owner |-> list'[i]] : e \in Ready(list'[i])}
                     : i \in DOMAIN list'}
  /\ phase' = "walk"
  /\ UNCHANGED <<outside, objects, down>>

First(d) ==
  /\ d \in due
  /\ \A x \in due : d.at < x.at \/ (d.at = x.at /\ Rank[d.event] <= Rank[x.event])

\* The walk comes to event e and finds object o in its place.
Finds(o, e) ==
  /\ phase = "walk" /\ ~down
  /\ \E d \in due : First(d) /\ list[d.at] = o /\ d.event = e /\ due' = due \ {d}
  /\ phase' = phase

Calls(o, e) == Finds(o, e) /\ o \in DOMAIN fds

Skip ==
  /\ \E d \in due : list[d.at] \notin DOMAIN fds /\ Finds(list[d.at], d.event)
  /\ UNCHANGED <<outside, objects, list, down>>
-----------------------------------------------------------------------------
(***************************************************************************)
(* mainClientAvailableCb.  accept throws when there is no descriptor left, *)
(* and main catches it: the walk and the erase are left out.               *)
(***************************************************************************)
\* Mutant: the result of accept is not tested.
AcceptedAnyNumber == IF Given(open, 0) = {} THEN {NoFd - 1} ELSE Given(open, 0)
Accepted == Given(open, 0)

Accept(p) ==
  /\ Calls(p, "in") /\ backlog[p] # <<>>
  /\ \E n \in Accepted :
       LET c == Head(backlog[p])
           w == WithObject(Now, c, n)
       IN  Becomes(Rid(World(With(clients, c, NewClient), w.fds, w.open, w.list)))
  /\ backlog' = [backlog EXCEPT ![p] = Tail(@)]
  /\ UNCHANGED <<machine, peer, data, down>>

AcceptFails(p) ==
  /\ phase = "walk" /\ ~down
  /\ \E d \in due : First(d) /\ list[d.at] = p
  /\ Accepted = {}
  /\ due' = {} /\ phase' = "poll"
  /\ UNCHANGED <<outside, objects, list, down>>
-----------------------------------------------------------------------------
(***************************************************************************)
(* _clientReadCb, called for input and for a hangup.                       *)
(***************************************************************************)
ReadCalls(c) == Calls(c, "in") \/ Calls(c, "hangup")
CanRead(c)   == ~clients[c].deaf /\ fds[c] # NoFd

\* In state ERROR, or when read throws: the socket was closed by the write
\* callback of the same iteration, or the peer has reset the connection.
ReadsNothing(c) ==
  /\ ReadCalls(c)
  /\ \/ ~CanRead(c) /\ UNCHANGED peer
     \/ CanRead(c) /\ peer[c] = "reset" /\ peer' = [peer EXCEPT ![c] = "broken"]
  /\ UNCHANGED <<machine, data, backlog, objects, list, down>>

ReadsEnd(c) ==
  /\ ReadCalls(c)
  /\ CanRead(c) /\ c \notin data /\ peer[c] \in {"shut", "broken"}
  /\ clients' = [clients EXCEPT ![c].eof = TRUE]
  /\ UNCHANGED <<outside, fds, open, list, down>>

\* Part of a request, whose server may be known with it, or a request that is
\* answered with a text: state ERROR if that is an error.
ReadsRequest(c) ==
  /\ ReadCalls(c)
  /\ CanRead(c) /\ c \in data
  /\ data' = data \ {c}
  /\ \/ \E asked \in {clients[c].asked, TRUE} :
          clients' = [clients EXCEPT ![c] = [ChangedState(@, FALSE) EXCEPT !.asked = asked]]
     \/ \E deaf \in BOOLEAN :
          clients' = [clients EXCEPT ![c] = [ChangedState(@, deaf) EXCEPT !.text = TRUE, !.asked = FALSE]]
  /\ UNCHANGED <<machine, peer, backlog, fds, open, list, down>>

\* A request that is complete, with its server.
Asks(c) == Client(Now, c, [ChangedState(clients[c], FALSE) EXCEPT !.asked = TRUE])

\* A request for a file, or one that is refused with a page.
OpensFile(c) ==
  /\ ReadCalls(c)
  /\ CanRead(c) /\ c \in data
  /\ data' = data \ {c}
  /\ LET asks == Asks(c)
     IN  \E w \in FileOpened(asks, c) \union ErrorReturned(asks, c) : Becomes(w)
  /\ UNCHANGED <<machine, peer, backlog, down>>

\* Two pipes take four descriptors, of which the server keeps the first and the
\* last; with fewer, the constructor of AsyncProgram throws, the answer is 500.
RunsScript(c) ==
  /\ ReadCalls(c)
  /\ CanRead(c) /\ c \in data
  /\ data' = data \ {c}
  /\ LET asks == Asks(c)
     IN  \/ \E n \in Given(open, 0), m \in Given(open, 3),
               o \in Named(fds, list, 0), q \in Named(fds, list, 1) :
               Becomes(HasPipes(WithObject(WithObject(asks, o, n), q, m), c, {o, q}))
         \/ Given(open, 3) = {} /\ \E w \in ErrorReturned(asks, c) : Becomes(w)
  /\ UNCHANGED <<machine, peer, backlog, down>>
-----------------------------------------------------------------------------
(***************************************************************************)
(* _clientWriteCb: first what the file and the script have to say, of      *)
(* which an error may open a page, also under a number just released.      *)
(***************************************************************************)
\* changeState(WRITE_RESPONSE), with something to write.
Filled(w, c) == Client(w, c, [ChangedState(w.clients[c], FALSE) EXCEPT !.text = TRUE])

\* _readFromFile: nothing yet, a chunk, the rest or the head, or a bad file.
ReadFromFile(w, c) ==
  LET file   == w.clients[c].file
      let_go == HasFile(w, c, {})
  IN  CASE file = {}     -> {w}
        [] Null \in file -> {Filled(let_go, c)} \union ErrorReturned(let_go, c) \union ErrorReturned(w, c)
        [] OTHER         -> {w, Filled(w, c), Filled(let_go, c)} \union ErrorReturned(w, c)

\* _readFromCgi: running, read to its end, or failed.
ReadFromCgi(w, c) ==
  LET let_go == HasPipes(w, c, {})
      answer == [ChangedState(let_go.clients[c], FALSE) EXCEPT !.text = TRUE, !.asked = FALSE]
  IN  IF w.clients[c].pipes = {} THEN {w}
      ELSE {Client(w, c, ChangedState(w.clients[c], FALSE)), Client(let_go, c, answer)}
           \union ErrorReturned(let_go, c)

Prepared(c) == UNION {ReadFromCgi(w, c) : w \in ReadFromFile(Now, c)}

WritesNothing(c, w) == ~w.clients[c].text /\ Becomes(w) /\ UNCHANGED <<peer, down>>

\* A part of the answer, or its end, after which the socket may be closed.
Writes(c, w) ==
  LET written == ChangedState(w.clients[c], FALSE)
      ended   == Client(w, c, [written EXCEPT !.text = FALSE, !.asked = FALSE, !.file = {}])
  IN  /\ w.clients[c].text /\ peer[c] \in {"open", "shut"}
      /\ \/ \E rest \in BOOLEAN : Becomes(Client(w, c, [written EXCEPT !.text = rest]))
         \/ Becomes(Rid(ended))
         \/ Becomes(Rid(SocketClosed(ended, c)))
      /\ \/ UNCHANGED peer
         \/ peer[c] = "shut" /\ peer' = [peer EXCEPT ![c] = "broken"]
      /\ UNCHANGED down

WriteFails(c, w) ==
  /\ w.clients[c].text
  /\ \/ /\ peer[c] = "reset" /\ peer' = [peer EXCEPT ![c] = "broken"]
        /\ Becomes(Client(w, c, ChangedState(w.clients[c], TRUE)))
        /\ UNCHANGED down
     \/ peer[c] = "broken" /\ down' = TRUE /\ UNCHANGED <<peer, objects, list>>

WriteCb(c) ==
  /\ Calls(c, "out")
  /\ \E w \in Prepared(c) : WritesNothing(c, w) \/ Writes(c, w) \/ WriteFails(c, w)
  /\ UNCHANGED <<machine, data, backlog>>

\* A script that failed with a Status that is no number: std::stoi throws when
\* the script was let go, and main catches it.
Throws(c) ==
  /\ phase = "walk" /\ ~down
  /\ \E d \in due : First(d) /\ list[d.at] = c /\ d.event = "out"
  /\ clients[c].pipes # {}
  /\ \E w \in ReadFromFile(Now, c) : Becomes(HasPipes(w, c, {}))
  /\ due' = {} /\ phase' = "poll"
  /\ UNCHANGED <<outside, down>>
-----------------------------------------------------------------------------
\* InFileHandler::_readCb: at the end of the file it lets the descriptor go.
FileRead(o) ==
  /\ Calls(o, "in")
  /\ \E c \in DOMAIN clients :
       /\ o \in clients[c].file
       /\ Becomes(Now) \/ Becomes(HasFile(Now, c, {Null}))
  /\ UNCHANGED <<outside, down>>

\* Mutant: inactivity is not tested.
DeadWhenRead(c) == clients[c].eof \/ ~IsValid(c)

\* The test of main's erase; what is not valid any more is not closed again.
Dead(c) == clients[c].eof \/ clients[c].idle \/ ~IsValid(c)

Sweep ==
  /\ phase = "walk" /\ due = {} /\ ~down
  /\ Becomes(Rid(World(Restrict(clients, {c \in DOMAIN clients : ~Dead(c)}), fds, open, list)))
  /\ phase' = "poll"
  /\ UNCHANGED <<outside, due, down>>
-----------------------------------------------------------------------------
\* After initiateSockets; 0, 1 and 2 are open already.
Init ==
  /\ machine \in Machines
  /\ peer = [c \in Conns |-> "away"]
  /\ data = {}
  /\ backlog = [p \in Listening |-> <<>>]
  /\ fds = [p \in Listening |-> (CHOOSE i \in DOMAIN Ports : Ports[i] = p) + 2]
  /\ open = 3..(Len(Ports) + 2)
  /\ clients = <<>>
  /\ list = Ports
  /\ due = {}
  /\ phase = "poll"
  /\ down = FALSE

Callback ==
  \/ \E p \in Listening : Accept(p) \/ AcceptFails(p)
  \/ \E c \in DOMAIN clients :
       \/ ReadsNothing(c) \/ ReadsEnd(c) \/ ReadsRequest(c) \/ OpensFile(c) \/ RunsScript(c)
       \/ WriteCb(c) \/ Throws(c)
       \/ \E o \in clients[c].file : FileRead(o)

Loop == Poll \/ Callback \/ Skip \/ Sweep

Next ==
  \/ Loop
  \/ \E c \in Conns : Sends(c) \/ Leaves(c) \/ TimePasses(c) \/ \E p \in Listening : Connect(c, p)

Spec == Init /\ [][Next]_vars

\* The loop goes round until SIGPIPE ends it, and the clock goes on; nobody has to
\* connect, ask or leave.  This is weak fairness of Loop, of which a step is enabled
\* until then and a walk has as many as ::poll returned events, and of TimePasses,
\* which its own step disables.
GoesRound    == []<>(phase = "poll" \/ down) /\ []<>(phase = "walk" \/ down)
GrowsIdle(c) == []<>(c \notin DOMAIN clients \/ clients[c].idle \/ down)
Fairness     == GoesRound /\ \A c \in Conns : GrowsIdle(c)
FairSpec == Spec /\ Fairness
-----------------------------------------------------------------------------
TypeOK ==
  /\ machine \in Machines
  /\ peer \in [Conns -> {"away", "open", "shut", "reset", "broken"}]
  /\ data \subseteq Conns
  /\ backlog \in [Listening -> Seq(Conns)]
  /\ DOMAIN fds \subseteq Objects /\ fds \in [DOMAIN fds -> Fds \union {NoFd}]
  /\ open \subseteq Fds
  /\ DOMAIN clients \subseteq Conns /\ clients \in [DOMAIN clients -> Clients]
  /\ list \in Seq(Objects \union {Null})
  /\ due \subseteq Due
  /\ phase \in {"poll", "walk"}
  /\ down \in BOOLEAN

\* What ::poll returned for an object is given to that object or dropped: the
\* two are matched by position only, while callbacks extend the list, destroy
\* objects and open others under the same numbers.
EventsToOwner == \A d \in due : d.at \in DOMAIN list /\ list[d.at] = d.owner

\* No two objects think that they have the same descriptor, none has a number
\* that was closed, and none is left open when its object is gone.
DescriptorsOwned ==
  /\ \A o \in DOMAIN fds : fds[o] # NoFd => fds[o] \in open
  /\ \A o, q \in DOMAIN fds : fds[o] = fds[q] /\ fds[o] # NoFd => o = q
  /\ \A n \in open : \E o \in DOMAIN fds : fds[o] = n

\* Every descriptor is polled, once: an object has its place in the list as
\* long as it is valid, and no destroyed client or handler keeps it from that.
ListedOnce ==
  \A o \in DOMAIN fds : fds[o] # NoFd => Cardinality({i \in DOMAIN list : list[i] = o}) = 1

\* Connections wait, and no descriptor is left to accept them.
Exhausted == Accepted = {} /\ \E p \in Listening : backlog[p] # <<>>

\* A connection waits for the server until it is accepted and, when its peer
\* has left, until its descriptors are freed.
Waits(c) ==
  \/ \E p \in Listening : \E i \in DOMAIN backlog[p] : backlog[p][i] = c
  \/ c \in DOMAIN clients /\ Left(c)

\* An iteration is cut short by a script's Status (Throws), before the erase.
Interrupted == phase = "walk" /\ phase' = "poll" /\ due # {} /\ clients' # clients

\* No connection waits forever, also in state ERROR, in which the end of the
\* input is not read, unless SIGPIPE ends the server or it stays out of
\* descriptors: accept then throws in every iteration, before any callback of a
\* client and the erase that would free some.  And unless scripts of others fail
\* with a Status that is no number again and again, each cutting an iteration.
NobodyForgotten ==
  \/ \A c \in Conns : Waits(c) ~> (~Waits(c) \/ down \/ []Exhausted)
  \/ []<><<Interrupted>>_vars
=============================================================================
