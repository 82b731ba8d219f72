---------------------------- MODULE ServerProofs ----------------------------
(***************************************************************************)
(* Theorems of Server, for every value of its constants.                   *)
(***************************************************************************)
EXTENDS Server, OrderProofs, SequenceTheorems

(***************************************************************************)
(* The parts of the inductive invariant.  Owned is DescriptorsOwned with   *)
(* types, of any objects f and open numbers s out of fs.                   *)
(***************************************************************************)
Owned(f, s, fs) ==
  /\ f \in [DOMAIN f -> fs \union {NoFd}] /\ s \subseteq fs /\ fs \subseteq Nat
  /\ \A o \in DOMAIN f : f[o] # NoFd => f[o] \in s
  /\ \A o, q \in DOMAIN f : f[o] = f[q] /\ f[o] # NoFd => o = q
  /\ \A n \in s : \E o \in DOMAIN f : f[o] = n

\* The list is a sequence, and results are at their places in it.
Placed == list \in Seq(Objects \union {Null}) /\ EventsToOwner

\* A connection that is away or waits to be accepted has no object yet.
Waiting ==
  /\ peer \in [Conns -> {"away", "open", "shut", "reset", "broken"}]
  /\ backlog \in [Listening -> Seq(Conns)]
  /\ \A p \in Listening : \A i \in DOMAIN backlog[p] :
       backlog[p][i] \notin DOMAIN fds /\ peer[backlog[p][i]] # "away"
  /\ \A p, q \in Listening : \A i \in DOMAIN backlog[p], j \in DOMAIN backlog[q] :
       backlog[p][i] = backlog[q][j] => p = q /\ i = j
  /\ \A c \in Conns : c \in DOMAIN fds => peer[c] # "away"

\* The types that the other parts do not give.
Typed ==
  /\ data \subseteq Conns /\ phase \in {"poll", "walk"} /\ down \in BOOLEAN
  /\ DOMAIN fds \subseteq Objects
  /\ DOMAIN clients \subseteq Conns /\ clients \in [DOMAIN clients -> Clients]
  /\ due \subseteq Due

\* A valid object has one place in the list; a connection that is away or waits
\* has none, so that it can be added.
Once(s, o)   == \E i \in DOMAIN s : \A j \in DOMAIN s : s[j] = o <=> j = i
Absent(s, o) == \A i \in DOMAIN s : s[i] # o
Listed ==
  /\ \A o \in DOMAIN fds : fds[o] # NoFd => Once(list, o)
  /\ \A i \in DOMAIN list : list[i] \in Conns => peer[list[i]] # "away"
  /\ \A p \in Listening : \A j \in DOMAIN backlog[p] : \A i \in DOMAIN list : list[i] # backlog[p][j]

IInv == machine \in Machines /\ Owned(fds, open, Fds) /\ Placed /\ Waiting /\ Typed /\ Listed

\* A world that a callback may leave: its clients are D, its objects the old
\* ones, those of N and files or pipes; the list is longer by some of these.
Grown(l, N) ==
  /\ l \in Seq(Objects \union {Null})
  /\ \A i \in DOMAIN list : i \in DOMAIN l /\ l[i] = list[i]
  /\ \A i \in DOMAIN l : i \in DOMAIN list \/ l[i] \in Nat \union {Null} \union N

Fit(w, D, N) ==
  /\ Owned(w.fds, w.open, Fds)
  /\ w.clients \in [D -> Clients]
  /\ DOMAIN w.fds \subseteq DOMAIN fds \union Nat \union N
  /\ D \intersect DOMAIN fds \subseteq DOMAIN w.fds
  /\ Grown(w.list, N)
  /\ \A o \in DOMAIN w.fds : w.fds[o] # NoFd => Once(w.list, o)
-----------------------------------------------------------------------------
LEMMA FdTypes ==
  ASSUME machine \in Machines
  PROVE  Fds \subseteq Nat /\ NoFd \notin Fds /\ machine.maxFd \in Nat
BY ServerAssumption DEF Fds, NoFd

\* A new object with a number that was free.
LEMMA WithOwned ==
  ASSUME NEW f, NEW s, NEW fs, Owned(f, s, fs), NoFd \notin fs,
         NEW o, o \notin DOMAIN f, NEW n \in fs \ s
  PROVE  Owned(With(f, o, n), s \union {n}, fs)
<1> DEFINE g == With(f, o, n)
<1>1. /\ DOMAIN g = DOMAIN f \union {o} /\ g[o] = n
      /\ \A y \in DOMAIN f : g[y] = f[y]
      /\ g = [y \in DOMAIN g |-> g[y]]
  BY DEF With
<1> HIDE DEF g
<1>2. n # NoFd /\ \A y \in DOMAIN f : f[y] # n
  BY DEF Owned
<1>3. g \in [DOMAIN g -> fs \union {NoFd}]
  BY <1>1 DEF Owned
<1>4. \A m \in s \union {n} : \E y \in DOMAIN g : g[y] = m
  BY <1>1 DEF Owned
<1>5. \A y, z \in DOMAIN g : g[y] = g[z] /\ g[y] # NoFd => y = z
  BY <1>1, <1>2 DEF Owned
<1>6. Owned(g, s \union {n}, fs)
  BY <1>1, <1>3, <1>4, <1>5 DEF Owned
<1> QED BY <1>6 DEF g

\* A socket that is closed keeps its object.
LEMMA ClosedOwned ==
  ASSUME NEW f, NEW s, NEW fs, Owned(f, s, fs), NoFd \notin fs, NEW c \in DOMAIN f
  PROVE  /\ Owned(Closed(f, c), s \ {f[c]}, fs)
         /\ DOMAIN Closed(f, c) = DOMAIN f
<1> DEFINE g == Closed(f, c)
<1>1. /\ DOMAIN g = DOMAIN f /\ g[c] = NoFd
      /\ \A y \in DOMAIN f : y # c => g[y] = f[y]
      /\ g \in [DOMAIN g -> fs \union {NoFd}]
  BY DEF Closed, Owned
<1> HIDE DEF g
<1>2. \A m \in s \ {f[c]} : \E y \in DOMAIN g : g[y] = m
  BY <1>1 DEF Owned
<1>3. Owned(g, s \ {f[c]}, fs)
  BY <1>1, <1>2 DEF Owned
<1> QED BY <1>1, <1>3 DEF g

\* What nobody holds any more is closed with its object.
LEMMA RidOwned ==
  ASSUME NEW w, NEW fs, Owned(w.fds, w.open, fs), NoFd \notin fs
  PROVE  /\ Owned(Rid(w).fds, Rid(w).open, fs)
         /\ DOMAIN Rid(w).fds = DOMAIN w.fds \intersect Held(w.clients)
         /\ \A o \in DOMAIN Rid(w).fds : Rid(w).fds[o] = w.fds[o]
         /\ Rid(w).clients = w.clients /\ Rid(w).list = w.list
<1> DEFINE kept == DOMAIN w.fds \intersect Held(w.clients)
           f == Rid(w).fds
           s == Rid(w).open
<1>1. /\ f = [o \in kept |-> w.fds[o]]
      /\ s = w.open \ {w.fds[o] : o \in DOMAIN w.fds \ kept}
      /\ Rid(w).clients = w.clients /\ Rid(w).list = w.list
  BY DEF Rid, World, Restrict
<1>2. kept \subseteq DOMAIN w.fds
  OBVIOUS
<1> HIDE DEF kept, f, s
<1>3. DOMAIN f = kept /\ \A o \in kept : f[o] = w.fds[o]
  BY <1>1
<1>4. \A n \in s : \E o \in kept : f[o] = n
  BY <1>1, <1>2, <1>3 DEF Owned
<1>5. \A o \in kept : f[o] # NoFd => f[o] \in s
  BY <1>1, <1>2, <1>3 DEF Owned
<1>6. Owned(f, s, fs)
  BY <1>1, <1>2, <1>3, <1>4, <1>5 DEF Owned
<1> QED BY <1>1, <1>3, <1>6 DEF kept, f, s

\* What the kernel gives is free, and new names are not in use.
LEMMA GivenAndNamed ==
  ASSUME NEW f, NEW l, NEW s
  PROVE  /\ \A n \in Given(s, 0) : n \in Fds \ s
         /\ \A n \in Given(s, 0), m \in Given(s, 3) : m \in Fds \ (s \union {n})
         /\ \A o \in Named(f, l, 0) \union Named(f, l, 1) : o \in Nat \ DOMAIN f /\ Absent(l, o)
         /\ \A o \in Named(f, l, 0), q \in Named(f, l, 1) : o # q
<1>1. \A o \in Unused(f, l) : o \in Nat \ DOMAIN f /\ Absent(l, o)
  BY DEF Unused, Absent
<1>2. \A S : Nth(S, 0) \subseteq S /\ Nth(S, 1) \subseteq S /\ Nth(S, 3) \subseteq S
  BY DEF Nth
<1>3. \A S : \A a \in Nth(S, 0) : a \notin Nth(S, 1) /\ a \notin Nth(S, 3)
  BY DEF Nth
<1> QED BY <1>1, <1>2, <1>3 DEF Given, Named
-----------------------------------------------------------------------------
\* The places of an object when a list grows.
LEMMA ConcatOnce ==
  ASSUME NEW T, NEW s \in Seq(T), NEW t \in Seq(T), NEW o,
         \/ Once(s, o) /\ Absent(t, o)
         \/ Absent(s, o) /\ Once(t, o)
  PROVE  Once(s \o t, o)
<1> DEFINE r == s \o t
<1>1. /\ DOMAIN r = 1..(Len(s) + Len(t)) /\ Len(s) \in Nat /\ Len(t) \in Nat
      /\ DOMAIN s = 1..Len(s) /\ DOMAIN t = 1..Len(t)
      /\ \A i \in 1..Len(s) : r[i] = s[i]
      /\ \A i \in 1..Len(t) : r[Len(s) + i] = t[i]
  BY ConcatProperties
<1> HIDE DEF r
<1>2. ASSUME NEW j \in DOMAIN r, j \notin DOMAIN s
      PROVE  j - Len(s) \in DOMAIN t /\ r[j] = t[j - Len(s)]
  <2>1. j - Len(s) \in 1..Len(t) /\ Len(s) + (j - Len(s)) = j
    BY <1>1, <1>2
  <2> QED BY <1>1, <2>1
<1>3. CASE Absent(s, o) /\ Once(t, o)
  <2>1. PICK i \in DOMAIN t : \A j \in DOMAIN t : t[j] = o <=> j = i
    BY <1>3 DEF Once
  <2>2. Len(s) + i \in DOMAIN r /\ r[Len(s) + i] = o
    BY <1>1, <2>1
  <2>3. ASSUME NEW j \in DOMAIN r, r[j] = o
        PROVE  j = Len(s) + i
    <3>1. j \notin DOMAIN s
      BY <1>1, <1>3, <2>3 DEF Absent
    <3>2. j - Len(s) = i
      BY <1>2, <2>1, <2>3, <3>1
    <3> QED BY <1>1, <3>2
  <2>4. Once(r, o)
    BY <2>2, <2>3 DEF Once
  <2> QED BY <2>4 DEF r
<1>4. CASE Once(s, o) /\ Absent(t, o)
  <2>1. PICK i \in DOMAIN s : \A j \in DOMAIN s : s[j] = o <=> j = i
    BY <1>4 DEF Once
  <2>2. i \in DOMAIN r /\ r[i] = o
    BY <1>1, <2>1
  <2>3. ASSUME NEW j \in DOMAIN r, r[j] = o
        PROVE  j = i
    <3>1. j \in DOMAIN s
      BY <1>2, <1>4, <2>3 DEF Absent
    <3> QED BY <1>1, <2>1, <2>3, <3>1
  <2>4. Once(r, o)
    BY <2>2, <2>3 DEF Once
  <2> QED BY <2>4 DEF r
<1> QED BY <1>3, <1>4

\* What one addition to the list does.
LEMMA AddedOnce ==
  ASSUME NEW T, NEW l \in Seq(T), NEW x \in T, NEW o,
         \/ Once(l, o) /\ o # x
         \/ Absent(l, o) /\ o = x
  PROVE  Once(Added(l, x), o)
<1>1. <<x>> \in Seq(T) /\ DOMAIN <<x>> = {1} /\ <<x>>[1] = x
  OBVIOUS
<1>2. (o # x => Absent(<<x>>, o)) /\ (o = x => Once(<<x>>, o))
  BY <1>1 DEF Once, Absent
<1>3. Once(l \o <<x>>, o)
  BY <1>1, <1>2, ConcatOnce
<1>4. Append(l, x) = l \o <<x>>
  BY AppendIsConcat
<1> QED BY <1>3, <1>4 DEF Added

LEMMA AddedGrown ==
  ASSUME NEW N \in SUBSET Conns, NEW l, Grown(l, N), NEW x \in Nat \union {Null} \union N
  PROVE  /\ l \in Seq(Objects \union {Null}) /\ x \in Objects \union {Null}
         /\ Grown(Added(l, x), N)
         /\ \A o : Absent(l, o) /\ o # x => Absent(Added(l, x), o)
<1> DEFINE r == Added(l, x)
           T == Objects \union {Null}
<1>1. l \in Seq(T) /\ x \in T
  BY DEF Grown, Objects, Locals
<1> HIDE DEF T
<1>2. /\ r \in Seq(T) /\ DOMAIN r = 1..(Len(l) + 1) /\ r[Len(l) + 1] = x
      /\ \A i \in 1..Len(l) : r[i] = l[i]
      /\ DOMAIN l = 1..Len(l) /\ Len(l) \in Nat
  BY <1>1, AppendProperties DEF Added
<1> HIDE DEF r
<1>3. \A i \in DOMAIN r : (i \in DOMAIN l /\ r[i] = l[i]) \/ r[i] = x
  BY <1>2
<1>4. Grown(r, N)
  BY <1>2, <1>3 DEF Grown, T
<1>5. \A o : Absent(l, o) /\ o # x => Absent(r, o)
  BY <1>3 DEF Absent
<1> QED BY <1>1, <1>4, <1>5 DEF r, T
-----------------------------------------------------------------------------
(***************************************************************************)
(* Every part of a callback leaves a world that fits.                      *)
(***************************************************************************)
LEMMA NowFit ==
  ASSUME IInv, NEW N
  PROVE  Fit(Now, DOMAIN clients, N)
BY DEF IInv, Typed, Placed, Listed, Fit, Grown, Now, World

\* A new object, under a free number and a name that is not in the list.
LEMMA ObjectFit ==
  ASSUME machine \in Machines, NEW D, NEW N \in SUBSET Conns, NEW w, Fit(w, D, N),
         NEW o \in Nat \union N, o \notin DOMAIN w.fds, Absent(w.list, o), NEW n \in Fds \ w.open
  PROVE  Fit(WithObject(w, o, n), D, N)
<1> DEFINE x == WithObject(w, o, n)
<1>1. /\ x.clients = w.clients /\ x.fds = With(w.fds, o, n) /\ x.open = w.open \union {n}
      /\ x.list = Added(w.list, o)
  BY DEF WithObject, World
<1> HIDE DEF x
<1>2. Owned(x.fds, x.open, Fds)
  BY <1>1, FdTypes, WithOwned DEF Fit
<1>3. DOMAIN x.fds = DOMAIN w.fds \union {o} /\ \A q \in DOMAIN w.fds : x.fds[q] = w.fds[q]
  BY <1>1 DEF With
<1>4. Grown(x.list, N) /\ w.list \in Seq(Objects \union {Null}) /\ o \in Objects \union {Null}
  <2>1. Grown(w.list, N) /\ o \in Nat \union {Null} \union N
    BY DEF Fit
  <2>2. Grown(Added(w.list, o), N)
    BY <2>1, AddedGrown
  <2>3. o \in Objects \union {Null}
    BY DEF Objects, Locals
  <2> QED BY <1>1, <2>1, <2>2, <2>3 DEF Grown
<1>5. ASSUME NEW q \in DOMAIN x.fds, x.fds[q] # NoFd
      PROVE  Once(x.list, q)
  <2>1. q # o => Once(w.list, q)
    BY <1>3, <1>5 DEF Fit
  <2> QED BY <1>1, <1>4, <2>1, AddedOnce
<1>6. Fit(x, D, N)
  BY <1>1, <1>2, <1>3, <1>4, <1>5 DEF Fit
<1> QED BY <1>6 DEF x

\* A null pointer that is added to the list.
LEMMA NullFit ==
  ASSUME IInv, NEW D, NEW N \in SUBSET Conns, NEW w, Fit(w, D, N)
  PROVE  Fit(World(w.clients, w.fds, w.open, Added(w.list, Null)), D, N)
<1> DEFINE x == World(w.clients, w.fds, w.open, Added(w.list, Null))
<1>1. x.clients = w.clients /\ x.fds = w.fds /\ x.open = w.open /\ x.list = Added(w.list, Null)
  BY DEF World
<1> HIDE DEF x
<1>2. Grown(x.list, N) /\ w.list \in Seq(Objects \union {Null})
  BY <1>1, AddedGrown DEF Fit
<1>3. Null \notin DOMAIN w.fds
  BY ServerAssumption DEF Fit, IInv, Typed, Objects, Locals
<1>4. \A o \in DOMAIN w.fds : w.fds[o] # NoFd => Once(x.list, o)
  BY <1>1, <1>2, <1>3, AddedOnce DEF Fit
<1>5. Fit(x, D, N)
  BY <1>1, <1>2, <1>4 DEF Fit
<1> QED BY <1>5 DEF x

LEMMA RidFit ==
  ASSUME machine \in Machines, NEW D, NEW N, NEW w, Fit(w, D, N)
  PROVE  Fit(Rid(w), D, N)
<1> DEFINE x == Rid(w)
<1>1. /\ Owned(x.fds, x.open, Fds) /\ DOMAIN x.fds = DOMAIN w.fds \intersect Held(w.clients)
      /\ \A o \in DOMAIN x.fds : x.fds[o] = w.fds[o]
      /\ x.clients = w.clients /\ x.list = w.list
  BY FdTypes, RidOwned DEF Fit
<1>2. DOMAIN w.clients \subseteq Held(w.clients) /\ DOMAIN w.clients = D
  BY DEF Held, Fit
<1> HIDE DEF x
<1>3. Fit(x, D, N)
  BY <1>1, <1>2 DEF Fit
<1> QED BY <1>3 DEF x

\* AsyncFD::close: the client keeps its object.
LEMMA ClosedFit ==
  ASSUME machine \in Machines, NEW D, NEW N, NEW w, Fit(w, D, N), NEW c \in D, c \in DOMAIN fds
  PROVE  Fit(SocketClosed(w, c), D, N)
<1> DEFINE x == SocketClosed(w, c)
<1>1. /\ x.clients = w.clients /\ x.fds = Closed(w.fds, c) /\ x.open = w.open \ {w.fds[c]}
      /\ x.list = w.list
  BY DEF SocketClosed, World
<1> HIDE DEF x
<1>2. c \in DOMAIN w.fds
  BY DEF Fit
<1>3. Owned(x.fds, x.open, Fds) /\ DOMAIN x.fds = DOMAIN w.fds
  BY <1>1, <1>2, FdTypes, ClosedOwned DEF Fit
<1>4. \A o \in DOMAIN w.fds : x.fds[o] # NoFd => x.fds[o] = w.fds[o]
  BY <1>1, <1>2 DEF Closed
<1>5. Fit(x, D, N)
  BY <1>1, <1>3, <1>4 DEF Fit
<1> QED BY <1>5 DEF x

LEMMA ClientFit ==
  ASSUME NEW D, NEW N, NEW w, Fit(w, D, N), NEW c \in D, NEW v \in Clients
  PROVE  Fit(Client(w, c, v), D, N) /\ Client(w, c, v).clients[c] = v
<1> DEFINE x == Client(w, c, v)
<1>1. /\ x.clients = [w.clients EXCEPT ![c] = v] /\ x.fds = w.fds /\ x.open = w.open /\ x.list = w.list
  BY DEF Client, World
<1> HIDE DEF x
<1>2. x.clients \in [D -> Clients] /\ x.clients[c] = v
  BY <1>1 DEF Fit
<1>3. Fit(x, D, N)
  BY <1>1, <1>2 DEF Fit
<1> QED BY <1>2, <1>3 DEF x

\* The fields that a callback sets.
LEMMA Fields ==
  ASSUME NEW v \in Clients, NEW a \in BOOLEAN, NEW b \in BOOLEAN
  PROVE  /\ ChangedState(v, a) \in Clients
         /\ [v EXCEPT !.text = a] \in Clients
         /\ [v EXCEPT !.asked = a] \in Clients
         /\ [v EXCEPT !.eof = a] \in Clients
         /\ [v EXCEPT !.idle = a] \in Clients
         /\ [v EXCEPT !.text = a, !.asked = b] \in Clients
         /\ [v EXCEPT !.text = a, !.asked = b, !.file = {}] \in Clients
         /\ \A f \in SUBSET (Locals \union {Null}) : [v EXCEPT !.file = f] \in Clients
         /\ \A f \in SUBSET Locals : [v EXCEPT !.pipes = f] \in Clients
BY DEF ChangedState, Clients

LEMMA HasFileFit ==
  ASSUME machine \in Machines, NEW D, NEW N, NEW w, Fit(w, D, N), NEW c \in D,
         NEW f \in SUBSET (Locals \union {Null})
  PROVE  Fit(HasFile(w, c, f), D, N)
<1>1. w.clients[c] \in Clients
  BY DEF Fit
<1> QED BY <1>1, Fields, ClientFit, RidFit DEF HasFile

LEMMA HasPipesFit ==
  ASSUME machine \in Machines, NEW D, NEW N, NEW w, Fit(w, D, N), NEW c \in D,
         NEW f \in SUBSET Locals
  PROVE  Fit(HasPipes(w, c, f), D, N)
<1>1. w.clients[c] \in Clients
  BY DEF Fit
<1> QED BY <1>1, Fields, ClientFit, RidFit DEF HasPipes

LEMMA FileOpenedFit ==
  ASSUME IInv, NEW D, NEW N \in SUBSET Conns, NEW w, Fit(w, D, N), NEW c \in D,
         NEW x \in FileOpened(w, c)
  PROVE  Fit(x, D, N)
<1>0. machine \in Machines
  BY DEF IInv
<1>1. ASSUME NEW n \in Given(w.open, 0), NEW o \in Named(w.fds, w.list, 0),
             x = HasFile(WithObject(w, o, n), c, {o})
      PROVE  Fit(x, D, N)
  <2>1. n \in Fds \ w.open /\ o \in Nat /\ o \notin DOMAIN w.fds /\ Absent(w.list, o)
    BY GivenAndNamed
  <2>2. Fit(WithObject(w, o, n), D, N)
    BY <1>0, <2>1, ObjectFit
  <2>3. {o} \in SUBSET (Locals \union {Null})
    BY <2>1 DEF Locals
  <2> QED BY <1>0, <1>1, <2>2, <2>3, HasFileFit
<1>2. CASE x = HasFile(World(w.clients, w.fds, w.open, Added(w.list, Null)), c, {Null})
  <2>1. Fit(World(w.clients, w.fds, w.open, Added(w.list, Null)), D, N)
    BY NullFit
  <2>2. {Null} \in SUBSET (Locals \union {Null})
    OBVIOUS
  <2> QED BY <1>0, <1>2, <2>1, <2>2, HasFileFit
<1>3. x \in ReadableFile(w, c) =>
        \E n \in Given(w.open, 0), o \in Named(w.fds, w.list, 0) :
          x = HasFile(WithObject(w, o, n), c, {o})
  BY DEF ReadableFile
<1>4. x \in ReadableFile(w, c) \/ x = BadFile(w, c)
  BY DEF FileOpened
<1> QED BY <1>1, <1>2, <1>3, <1>4 DEF BadFile

LEMMA ErrorReturnedFit ==
  ASSUME IInv, NEW D, NEW N \in SUBSET Conns, NEW w, Fit(w, D, N), NEW c \in D,
         NEW x \in ErrorReturned(w, c)
  PROVE  Fit(x, D, N)
<1> DEFINE error(text) ==
             Client(w, c, [ChangedState(w.clients[c], TRUE) EXCEPT !.text = text, !.asked = FALSE])
<1>1. w.clients[c] \in Clients
  BY DEF Fit
<1>2. \A text \in BOOLEAN : Fit(error(text), D, N)
  <2> SUFFICES ASSUME NEW text \in BOOLEAN PROVE Fit(error(text), D, N)
    OBVIOUS
  <2>1. ChangedState(w.clients[c], TRUE) \in Clients
    BY <1>1, Fields
  <2>2. [ChangedState(w.clients[c], TRUE) EXCEPT !.text = text, !.asked = FALSE] \in Clients
    BY <2>1, Fields
  <2> QED BY <2>2, ClientFit
<1>3. x = error(TRUE) \/ x \in FileOpened(error(FALSE), c)
  BY DEF ErrorReturned
<1> HIDE DEF error
<1> QED BY <1>2, <1>3, FileOpenedFit

LEMMA FilledFit ==
  ASSUME NEW D, NEW N, NEW w, Fit(w, D, N), NEW c \in D
  PROVE  Fit(Filled(w, c), D, N)
<1>1. w.clients[c] \in Clients
  BY DEF Fit
<1>2. ChangedState(w.clients[c], FALSE) \in Clients
  BY <1>1, Fields
<1>3. [ChangedState(w.clients[c], FALSE) EXCEPT !.text = TRUE] \in Clients
  BY <1>2, Fields
<1> QED BY <1>3, ClientFit DEF Filled

LEMMA ReadFromFileFit ==
  ASSUME IInv, NEW D, NEW N \in SUBSET Conns, NEW w, Fit(w, D, N), NEW c \in D,
         NEW x \in ReadFromFile(w, c)
  PROVE  Fit(x, D, N)
<1> DEFINE let_go == HasFile(w, c, {})
<1>1. Fit(let_go, D, N)
  BY HasFileFit DEF IInv
<1>2. \/ x = w \/ x = Filled(w, c) \/ x = Filled(let_go, c)
      \/ x \in ErrorReturned(let_go, c) \/ x \in ErrorReturned(w, c)
  BY DEF ReadFromFile
<1> HIDE DEF let_go
<1> QED BY <1>1, <1>2, FilledFit, ErrorReturnedFit

LEMMA ReadFromCgiFit ==
  ASSUME IInv, NEW D, NEW N \in SUBSET Conns, NEW w, Fit(w, D, N), NEW c \in D,
         NEW x \in ReadFromCgi(w, c)
  PROVE  Fit(x, D, N)
<1> DEFINE let_go == HasPipes(w, c, {})
           answer == [ChangedState(let_go.clients[c], FALSE) EXCEPT !.text = TRUE, !.asked = FALSE]
<1>1. Fit(let_go, D, N)
  BY HasPipesFit DEF IInv
<1>2. \/ x = w \/ x = Client(w, c, ChangedState(w.clients[c], FALSE))
      \/ x = Client(let_go, c, answer) \/ x \in ErrorReturned(let_go, c)
  BY DEF ReadFromCgi
<1> HIDE DEF let_go
<1>3. w.clients[c] \in Clients /\ let_go.clients[c] \in Clients
  BY <1>1 DEF Fit
<1>4. ChangedState(w.clients[c], FALSE) \in Clients /\ ChangedState(let_go.clients[c], FALSE) \in Clients
  BY <1>3, Fields
<1>5. answer \in Clients
  BY <1>4, Fields
<1> HIDE DEF answer
<1>6. Fit(Client(w, c, ChangedState(w.clients[c], FALSE)), D, N)
  BY <1>4, ClientFit
<1>7. Fit(Client(let_go, c, answer), D, N)
  BY <1>1, <1>5, ClientFit
<1>8. x \in ErrorReturned(let_go, c) => Fit(x, D, N)
  BY <1>1, ErrorReturnedFit
<1> QED BY <1>2, <1>6, <1>7, <1>8

LEMMA PreparedFit ==
  ASSUME IInv, NEW c \in DOMAIN clients, NEW x \in Prepared(c)
  PROVE  Fit(x, DOMAIN clients, {})
<1>1. Fit(Now, DOMAIN clients, {})
  BY NowFit
<1>2. PICK w \in ReadFromFile(Now, c) : x \in ReadFromCgi(w, c)
  BY DEF Prepared
<1>3. Fit(w, DOMAIN clients, {})
  BY <1>1, ReadFromFileFit
<1> QED BY <1>2, <1>3, ReadFromCgiFit
-----------------------------------------------------------------------------
(***************************************************************************)
(* Every step but Poll leaves such a world; only accept adds a connection. *)
(***************************************************************************)
Fits(N) == \E D \in SUBSET Conns : \E w : Fit(w, D, N) /\ N \subseteq DOMAIN w.fds /\ Becomes(w)

LEMMA AcceptFits ==
  ASSUME IInv, NEW p \in Listening, Accept(p)
  PROVE  /\ Head(backlog[p]) \in Conns /\ Head(backlog[p]) = backlog[p][1] /\ 1 \in DOMAIN backlog[p]
         /\ Fits({Head(backlog[p])})
<1> DEFINE c == Head(backlog[p])
<1>0. machine \in Machines /\ Waiting /\ Listed /\ Typed
  BY DEF IInv
<1>1. /\ c \in Conns /\ c = backlog[p][1] /\ 1 \in DOMAIN backlog[p]
  <2>1. backlog[p] \in Seq(Conns) /\ backlog[p] # <<>>
    BY <1>0 DEF Accept, Waiting
  <2> QED BY <2>1
<1>2. c \notin DOMAIN fds /\ Absent(list, c)
  BY <1>0, <1>1 DEF Waiting, Listed, Absent
<1>3. PICK n \in Given(open, 0) :
        Becomes(Rid(World(With(clients, c, NewClient), WithObject(Now, c, n).fds,
                          WithObject(Now, c, n).open, WithObject(Now, c, n).list)))
  BY DEF Accept, Accepted
<1> DEFINE v == WithObject(Now, c, n)
           D == DOMAIN clients \union {c}
           w == World(With(clients, c, NewClient), v.fds, v.open, v.list)
<1> HIDE DEF c
<1>4. Now.fds = fds /\ Now.open = open /\ Now.list = list
  BY DEF Now, World
<1>5. Fit(v, DOMAIN clients, {c})
  <2>1. Fit(Now, DOMAIN clients, {c})
    BY NowFit
  <2>2. n \in Fds \ Now.open /\ c \notin DOMAIN Now.fds /\ Absent(Now.list, c) /\ {c} \in SUBSET Conns
    BY <1>1, <1>2, <1>4, GivenAndNamed
  <2> QED BY <1>0, <2>1, <2>2, ObjectFit
<1>6. DOMAIN v.fds = DOMAIN fds \union {c}
  BY <1>4 DEF WithObject, World, With
<1> HIDE DEF v
<1>7. w.clients = With(clients, c, NewClient) /\ w.fds = v.fds /\ w.open = v.open /\ w.list = v.list
  BY DEF World
<1>8. NewClient \in Clients /\ D \in SUBSET Conns
  BY <1>0, <1>1 DEF NewClient, Clients, Typed
<1>9. w.clients \in [D -> Clients]
  BY <1>0, <1>7, <1>8 DEF With, Typed
<1> HIDE DEF w, D
<1>10. Fit(w, D, {c})
  <2>1. D \intersect DOMAIN fds \subseteq DOMAIN w.fds
    BY <1>6, <1>7
  <2> QED BY <1>5, <1>7, <1>9, <2>1 DEF Fit
<1>11. Fit(Rid(w), D, {c}) /\ c \in DOMAIN Rid(w).fds
  <2>1. Fit(Rid(w), D, {c})
    BY <1>0, <1>10, RidFit
  <2>2. c \in DOMAIN w.clients
    BY <1>7 DEF With
  <2>3. c \in DOMAIN w.fds \intersect Held(w.clients)
    BY <1>6, <1>7, <2>2 DEF Held
  <2>4. DOMAIN Rid(w).fds = DOMAIN w.fds \intersect Held(w.clients)
    BY DEF Rid, World, Restrict
  <2> QED BY <2>1, <2>3, <2>4
<1>12. Becomes(Rid(w))
  BY <1>3 DEF w, v
<1>13. Fits({c})
  BY <1>8, <1>11, <1>12 DEF Fits
<1> QED BY <1>1, <1>13 DEF c

LEMMA StepFits ==
  ASSUME IInv, [Next]_vars, ~Poll, ~\E p \in Listening : Accept(p)
  PROVE  Fits({})
<1> DEFINE D == DOMAIN clients
<1>0. /\ D \in SUBSET Conns /\ machine \in Machines /\ Typed
      /\ Fit(Now, D, {})
      /\ Now.clients = clients /\ Now.fds = fds /\ Now.open = open /\ Now.list = list
  BY NowFit DEF IInv, Typed, Now, World
<1>1. ASSUME NEW w, Fit(w, D, {}), Becomes(w)
      PROVE  Fits({})
  BY <1>0, <1>1 DEF Fits
<1>2. CASE UNCHANGED <<objects, list>>
  <2>1. Becomes(Now)
    BY <1>0, <1>2 DEF Becomes, objects
  <2> QED BY <1>0, <1>1, <2>1
<1>3. ASSUME NEW c \in D, NEW v \in Clients, clients' = [clients EXCEPT ![c] = v],
             UNCHANGED <<fds, open, list>>
      PROVE  Fits({})
  <2>1. Fit(Client(Now, c, v), D, {})
    BY <1>0, ClientFit
  <2>2. Becomes(Client(Now, c, v))
    BY <1>0, <1>3 DEF Becomes, Client, World
  <2> QED BY <1>1, <2>1, <2>2
<1>4. \A c \in D : clients[c] \in Clients
  BY <1>0 DEF Typed
<1>5. ASSUME NEW c \in D, ReadsEnd(c) \/ TimePasses(c)
      PROVE  Fits({})
  <2>1. \/ clients' = [clients EXCEPT ![c] = [clients[c] EXCEPT !.eof = TRUE]]
        \/ clients' = [clients EXCEPT ![c] = [clients[c] EXCEPT !.idle = TRUE]]
    BY <1>5 DEF ReadsEnd, TimePasses
  <2>2. UNCHANGED <<fds, open, list>>
    BY <1>5 DEF ReadsEnd, TimePasses, loop
  <2>3. [clients[c] EXCEPT !.eof = TRUE] \in Clients /\ [clients[c] EXCEPT !.idle = TRUE] \in Clients
    BY <1>4, Fields
  <2> QED BY <1>3, <2>1, <2>2, <2>3
<1>6. ASSUME NEW c \in D, ReadsRequest(c)
      PROVE  Fits({})
  <2>1. \A deaf \in BOOLEAN : ChangedState(clients[c], deaf) \in Clients
    BY <1>4, Fields
  <2>2. \A asked, deaf \in BOOLEAN :
          /\ [ChangedState(clients[c], FALSE) EXCEPT !.asked = asked] \in Clients
          /\ [ChangedState(clients[c], deaf) EXCEPT !.text = TRUE, !.asked = FALSE] \in Clients
    BY <2>1, Fields
  <2>3. \E v \in Clients : clients' = [clients EXCEPT ![c] = v]
    <3>1. clients[c].asked \in BOOLEAN
      BY <1>4 DEF Clients
    <3>2. \/ \E asked \in BOOLEAN :
               clients' = [clients EXCEPT ![c] = [ChangedState(clients[c], FALSE) EXCEPT !.asked = asked]]
          \/ \E deaf \in BOOLEAN :
               clients' = [clients EXCEPT ![c] = [ChangedState(clients[c], deaf)
                                                    EXCEPT !.text = TRUE, !.asked = FALSE]]
      BY <1>6, <3>1 DEF ReadsRequest
    <3> QED BY <2>2, <3>2
  <2>4. UNCHANGED <<fds, open, list>>
    BY <1>6 DEF ReadsRequest
  <2> QED BY <1>3, <2>3, <2>4
<1>7. ASSUME NEW c \in D
      PROVE  Fit(Asks(c), D, {}) /\ Asks(c).fds = fds /\ Asks(c).open = open /\ Asks(c).list = list
  <2>1. ChangedState(clients[c], FALSE) \in Clients
    BY <1>4, Fields
  <2>2. [ChangedState(clients[c], FALSE) EXCEPT !.asked = TRUE] \in Clients
    BY <2>1, Fields
  <2>3. Fit(Asks(c), D, {})
    BY <1>0, <2>2, ClientFit DEF Asks
  <2> QED BY <1>0, <2>3 DEF Asks, Client, World
<1>8. ASSUME NEW c \in D, OpensFile(c)
      PROVE  Fits({})
  <2>1. PICK w \in FileOpened(Asks(c), c) \union ErrorReturned(Asks(c), c) : Becomes(w)
    BY <1>8 DEF OpensFile
  <2>2. Fit(w, D, {})
    BY <1>7, FileOpenedFit, ErrorReturnedFit
  <2> QED BY <1>1, <2>1, <2>2
<1>9. ASSUME NEW c \in D, RunsScript(c)
      PROVE  Fits({})
  <2>1. CASE \E w \in ErrorReturned(Asks(c), c) : Becomes(w)
    <3>1. \A w \in ErrorReturned(Asks(c), c) : Fit(w, D, {})
      BY <1>7, ErrorReturnedFit
    <3> QED BY <1>1, <2>1, <3>1
  <2>2. ASSUME NEW n \in Given(open, 0), NEW m \in Given(open, 3),
               NEW o \in Named(fds, list, 0), NEW q \in Named(fds, list, 1),
               Becomes(HasPipes(WithObject(WithObject(Asks(c), o, n), q, m), c, {o, q}))
        PROVE  Fits({})
    <3>1. /\ n \in Fds \ open /\ m \in Fds \ (open \union {n})
          /\ o \in Nat \ DOMAIN fds /\ q \in Nat \ DOMAIN fds /\ o # q
          /\ Absent(list, o) /\ Absent(list, q)
      BY GivenAndNamed
    <3> DEFINE a == WithObject(Asks(c), o, n)
               b == WithObject(a, q, m)
    <3>2. Fit(a, D, {})
      BY <1>0, <1>7, <3>1, ObjectFit
    <3>3. a.open = open \union {n} /\ DOMAIN a.fds = DOMAIN fds \union {o} /\ a.list = Added(list, o)
      BY <1>7 DEF WithObject, World, With
    <3>4. Absent(Added(list, o), q)
      <4>1. Grown(list, {})
        BY <1>0 DEF Fit
      <4> QED BY <3>1, <4>1, AddedGrown
    <3> HIDE DEF a
    <3>5. Fit(b, D, {})
      BY <1>0, <3>1, <3>2, <3>3, <3>4, ObjectFit
    <3>6. {o, q} \in SUBSET Locals
      BY <3>1 DEF Locals
    <3> HIDE DEF b
    <3>7. Fit(HasPipes(b, c, {o, q}), D, {})
      BY <1>0, <3>5, <3>6, HasPipesFit
    <3>8. Becomes(HasPipes(b, c, {o, q}))
      BY <2>2 DEF a, b
    <3> QED BY <1>1, <3>7, <3>8
  <2> QED BY <1>9, <2>1, <2>2 DEF RunsScript
<1>10. ASSUME NEW c \in D, WriteCb(c)
       PROVE  Fits({})
  <2>1. PICK w \in Prepared(c) : WritesNothing(c, w) \/ Writes(c, w) \/ WriteFails(c, w)
    BY <1>10 DEF WriteCb
  <2>2. Fit(w, D, {}) /\ c \in DOMAIN fds
    BY <1>10, PreparedFit DEF WriteCb, Calls
  <2>3. CASE WritesNothing(c, w)
    BY <1>1, <2>2, <2>3 DEF WritesNothing
  <2>4. w.clients[c] \in Clients
    BY <2>2 DEF Fit
  <2>5. /\ ChangedState(w.clients[c], FALSE) \in Clients
        /\ ChangedState(w.clients[c], TRUE) \in Clients
    BY <2>4, Fields
  <2>6. CASE Writes(c, w)
    <3> DEFINE written == ChangedState(w.clients[c], FALSE)
               part(rest) == Client(w, c, [written EXCEPT !.text = rest])
               ended == Client(w, c, [written EXCEPT !.text = FALSE, !.asked = FALSE, !.file = {}])
    <3>1. \A rest \in BOOLEAN : Fit(part(rest), D, {})
      <4> SUFFICES ASSUME NEW rest \in BOOLEAN PROVE Fit(part(rest), D, {})
        OBVIOUS
      <4>1. [written EXCEPT !.text = rest] \in Clients
        BY <2>5, Fields
      <4> QED BY <2>2, <4>1, ClientFit
    <3>2. Fit(ended, D, {})
      <4>1. [written EXCEPT !.text = FALSE, !.asked = FALSE, !.file = {}] \in Clients
        BY <2>5, Fields
      <4> QED BY <2>2, <4>1, ClientFit
    <3>3. \/ \E rest \in BOOLEAN : Becomes(part(rest))
          \/ Becomes(Rid(ended)) \/ Becomes(Rid(SocketClosed(ended, c)))
      BY <2>6 DEF Writes
    <3> HIDE DEF part, ended
    <3>4. Fit(Rid(ended), D, {})
      BY <1>0, <3>2, RidFit
    <3>5. Fit(Rid(SocketClosed(ended, c)), D, {})
      <4>1. Fit(SocketClosed(ended, c), D, {})
        BY <1>0, <2>2, <3>2, ClosedFit
      <4> QED BY <1>0, <4>1, RidFit
    <3>6. CASE \E rest \in BOOLEAN : Becomes(part(rest))
      BY <1>1, <3>1, <3>6
    <3>7. CASE Becomes(Rid(ended))
      BY <1>1, <3>4, <3>7
    <3>8. CASE Becomes(Rid(SocketClosed(ended, c)))
      BY <1>1, <3>5, <3>8
    <3> QED BY <3>3, <3>6, <3>7, <3>8
  <2>7. CASE WriteFails(c, w)
    <3>1. \/ Becomes(Client(w, c, ChangedState(w.clients[c], TRUE)))
          \/ UNCHANGED <<objects, list>>
      BY <2>7 DEF WriteFails
    <3>2. Fit(Client(w, c, ChangedState(w.clients[c], TRUE)), D, {})
      BY <2>2, <2>5, ClientFit
    <3>3. CASE Becomes(Client(w, c, ChangedState(w.clients[c], TRUE)))
      BY <1>1, <3>2, <3>3
    <3> QED BY <1>2, <3>1, <3>3
  <2> QED BY <2>1, <2>3, <2>6, <2>7
<1>11. ASSUME NEW c \in D, Throws(c)
       PROVE  Fits({})
  <2>1. PICK w \in ReadFromFile(Now, c) : Becomes(HasPipes(w, c, {}))
    BY <1>11 DEF Throws
  <2>2. Fit(w, D, {})
    BY <1>0, ReadFromFileFit
  <2>3. Fit(HasPipes(w, c, {}), D, {})
    BY <1>0, <2>2, HasPipesFit
  <2> QED BY <1>1, <2>1, <2>3
<1>12. ASSUME NEW o, FileRead(o)
       PROVE  Fits({})
  <2>1. PICK c \in D : Becomes(Now) \/ Becomes(HasFile(Now, c, {Null}))
    BY <1>12 DEF FileRead
  <2>2. Fit(HasFile(Now, c, {Null}), D, {})
    BY <1>0, HasFileFit
  <2>3. CASE Becomes(Now)
    BY <1>0, <1>1, <2>3
  <2>4. CASE Becomes(HasFile(Now, c, {Null}))
    BY <1>1, <2>2, <2>4
  <2> QED BY <2>1, <2>3, <2>4
<1>13. CASE Sweep
  <2> DEFINE live == {c \in DOMAIN clients : ~Dead(c)}
             w == World(Restrict(clients, live), fds, open, list)
  <2>1. /\ w.clients = Restrict(clients, live) /\ w.fds = fds /\ w.open = open /\ w.list = list
    BY DEF World
  <2>2. live \subseteq D /\ live \in SUBSET Conns
    BY <1>0
  <2>3. Becomes(Rid(w))
    BY <1>13 DEF Sweep
  <2> HIDE DEF live, w
  <2>4. w.clients \in [live -> Clients]
    BY <1>4, <2>1, <2>2 DEF Restrict
  <2>5. Fit(w, live, {})
    BY <1>0, <2>1, <2>2, <2>4 DEF Fit
  <2>6. Fit(Rid(w), live, {})
    BY <1>0, <2>5, RidFit
  <2> QED BY <2>2, <2>3, <2>6 DEF Fits
<1>14. ASSUME NEW c, ReadsNothing(c) \/ Sends(c) \/ Leaves(c) \/ \E p \in Listening : Connect(c, p)
       PROVE  Fits({})
  BY <1>2, <1>14 DEF ReadsNothing, Sends, Leaves, Connect, loop
<1>15. CASE Skip \/ UNCHANGED vars \/ \E p \in Listening : AcceptFails(p)
  BY <1>2, <1>15 DEF Skip, AcceptFails, vars, loop
<1>16. ASSUME NEW c, TimePasses(c)
       PROVE  c \in D
  BY <1>16 DEF TimePasses
<1> HIDE DEF D
<1> QED
  BY <1>5, <1>6, <1>8, <1>9, <1>10, <1>11, <1>12, <1>13, <1>14, <1>15, <1>16
     DEF Next, Loop, Callback, D
-----------------------------------------------------------------------------
\* Only ::poll adds results; the others use them up.
LEMMA DueStep ==
  ASSUME [Next]_vars, ~Poll
  PROVE  due' \subseteq due
<1>0. \A o, e : Finds(o, e) => due' \subseteq due
  BY DEF Finds
<1>1. ASSUME NEW p \in Listening, Accept(p) \/ AcceptFails(p)
      PROVE  due' \subseteq due
  BY SMTT(40), <1>0, <1>1 DEF Accept, AcceptFails, Calls
<1>2. ASSUME NEW c,
             \/ OpensFile(c) \/ RunsScript(c) \/ FileRead(c)
             \/ ReadsNothing(c) \/ ReadsEnd(c) \/ ReadsRequest(c) \/ WriteCb(c) \/ Throws(c)
             \/ Sends(c) \/ Leaves(c) \/ TimePasses(c) \/ \E p \in Listening : Connect(c, p)
      PROVE  due' \subseteq due
  BY <1>0, <1>2
     DEF OpensFile, RunsScript, FileRead, ReadsNothing, ReadsEnd, ReadsRequest, ReadCalls,
         WriteCb, Throws, Calls, Sends, Leaves, TimePasses, Connect, loop
<1>3. CASE Skip \/ Sweep \/ UNCHANGED vars
  BY <1>0, <1>3 DEF Skip, Sweep, vars, loop
<1> QED BY <1>1, <1>2, <1>3 DEF Next, Loop, Callback

\* What happens to the peers and their connections.
LEMMA OutsideStep ==
  ASSUME [Next]_vars
  PROVE  /\ machine' = machine
         /\ \/ UNCHANGED <<peer, backlog>>
            \/ /\ UNCHANGED backlog
               /\ \E c : \E v \in {"shut", "reset", "broken"} :
                    peer[c] # "away" /\ peer' = [peer EXCEPT ![c] = v]
            \/ \E p \in Listening : Accept(p)
            \/ \E c \in Conns, p \in Listening : Connect(c, p)
<1>1. CASE UNCHANGED outside
  BY <1>1 DEF outside
<1>2. ASSUME NEW c, ReadsNothing(c) \/ Leaves(c)
      PROVE  /\ UNCHANGED <<machine, backlog>>
             /\ \/ UNCHANGED peer
                \/ \E v \in {"shut", "reset", "broken"} :
                     peer[c] # "away" /\ peer' = [peer EXCEPT ![c] = v]
  BY <1>2 DEF ReadsNothing, Leaves
<1>3. ASSUME NEW c, WriteCb(c)
      PROVE  /\ UNCHANGED <<machine, backlog>>
             /\ \/ UNCHANGED peer
                \/ \E v \in {"shut", "reset", "broken"} :
                     peer[c] # "away" /\ peer' = [peer EXCEPT ![c] = v]
  BY <1>3 DEF WriteCb, WritesNothing, Writes, WriteFails
<1>4. ASSUME NEW c, ReadsRequest(c) \/ OpensFile(c) \/ RunsScript(c) \/ Sends(c)
      PROVE  UNCHANGED <<machine, peer, backlog>>
  BY <1>4 DEF ReadsRequest, OpensFile, RunsScript, Sends
<1>5. ASSUME NEW c, ReadsEnd(c) \/ Throws(c) \/ FileRead(c) \/ TimePasses(c)
      PROVE  UNCHANGED <<machine, peer, backlog>>
  BY <1>1, <1>5 DEF ReadsEnd, Throws, FileRead, TimePasses, outside
<1>6. CASE Poll \/ Skip \/ Sweep \/ UNCHANGED vars \/ \E p \in Listening : AcceptFails(p)
  BY <1>1, <1>6 DEF Poll, Skip, Sweep, AcceptFails, vars, outside
<1>7. ASSUME NEW c, NEW p, Accept(p) \/ Connect(c, p)
      PROVE  machine' = machine
  BY <1>7 DEF Accept, Connect
<1> QED BY <1>2, <1>3, <1>4, <1>5, <1>6, <1>7 DEF Next, Loop, Callback
-----------------------------------------------------------------------------
\* cleanup keeps objects, at the places of a sequence.
LEMMA CleanedPlaces ==
  ASSUME IInv
  PROVE  /\ Cleaned \in Seq(Objects)
         /\ \A k \in DOMAIN Cleaned : \E i \in DOMAIN list : Cleaned[k] = list[i]
<1> DEFINE kept == {i \in DOMAIN list : IsValid(list[i])}
           order == InOrder(kept)
<1>1. IsFiniteSet(kept) /\ \A i \in kept : i \in Nat
  <2>1. DOMAIN list = 1..Len(list) /\ Len(list) \in Nat
    BY DEF IInv, Placed
  <2>2. IsFiniteSet(DOMAIN list)
    BY <2>1, FS_Interval
  <2> QED BY <2>1, <2>2, FS_Subset
<1>2. /\ DOMAIN Cleaned = DOMAIN order /\ \A k \in DOMAIN order : Cleaned[k] = list[order[k]]
      /\ Cleaned = [k \in DOMAIN order |-> list[order[k]]]
  BY DEF Cleaned
<1>3. \A i \in kept : i \in DOMAIN list /\ list[i] \in Objects
  BY DEF IsValid, IInv, Typed
<1> HIDE DEF kept
<1>4. DOMAIN order = 1..Cardinality(kept) /\ Cardinality(kept) \in Nat
  BY <1>1, InOrderLists
<1>5. \A k \in DOMAIN order : order[k] \in kept
  BY <1>1, InOrderLists, ElementOfSeq
<1> HIDE DEF order
<1>6. \A k \in DOMAIN order : list[order[k]] \in Objects
  BY <1>3, <1>5
<1>7. Cleaned \in Seq(Objects)
  <2> DEFINE elem(k) == list[order[k]]
  <2>1. Cleaned = [k \in DOMAIN order |-> elem(k)]
    BY <1>2
  <2>2. \A k \in DOMAIN order : elem(k) \in Objects
    BY <1>6
  <2> HIDE DEF elem
  <2>3. Cleaned = [k \in 1..Cardinality(kept) |-> elem(k)]
    BY <1>4, <2>1
  <2>4. \A k \in 1..Cardinality(kept) : elem(k) \in Objects
    BY <1>4, <2>2
  <2>5. Cleaned \in [1..Cardinality(kept) -> Objects]
    BY <2>3, <2>4
  <2> QED BY <1>4, <2>5
<1>8. \A k \in DOMAIN Cleaned : order[k] \in DOMAIN list /\ Cleaned[k] = list[order[k]]
  BY <1>2, <1>3, <1>5
<1> QED BY <1>7, <1>8

\* cleanup keeps the place of what is valid.
LEMMA CleanedOnce ==
  ASSUME Placed, NEW o \in DOMAIN fds, fds[o] # NoFd, Once(list, o)
  PROVE  Once(Cleaned, o)
<1> DEFINE kept == {i \in DOMAIN list : IsValid(list[i])}
           order == InOrder(kept)
<1>1. IsFiniteSet(kept) /\ \A i \in kept : i \in Nat
  <2>1. DOMAIN list = 1..Len(list) /\ Len(list) \in Nat
    BY DEF Placed
  <2>2. IsFiniteSet(DOMAIN list)
    BY <2>1, FS_Interval
  <2> QED BY <2>1, <2>2, FS_Subset
<1>2. DOMAIN Cleaned = DOMAIN order /\ \A k \in DOMAIN order : Cleaned[k] = list[order[k]]
  BY DEF Cleaned
<1>3. PICK i \in DOMAIN list : \A j \in DOMAIN list : list[j] = o <=> j = i
  BY DEF Once
<1>4. i \in kept /\ kept \subseteq DOMAIN list
  BY <1>3 DEF IsValid
<1> HIDE DEF kept
<1>5. /\ \A j, k \in DOMAIN order : order[j] = order[k] => j = k
      /\ \E k \in DOMAIN order : order[k] = i
  BY <1>1, <1>4, InOrderLists
<1>6. \A k \in DOMAIN order : order[k] \in kept
  BY <1>1, InOrderLists, ElementOfSeq
<1> HIDE DEF order
<1>7. PICK k \in DOMAIN order : order[k] = i
  BY <1>5
<1>8. \A j \in DOMAIN Cleaned : Cleaned[j] = o <=> j = k
  BY <1>2, <1>3, <1>4, <1>5, <1>6, <1>7
<1> QED BY <1>2, <1>7, <1>8 DEF Once

LEMMA PollDue ==
  ASSUME IInv, Poll
  PROVE  Placed' /\ due' \subseteq Due
<1>1. /\ list' \in Seq(Objects)
      /\ due' = UNION {{[at |-> i, event |-> e, owner |-> list'[i]] : e \in Ready(list'[i])}
                         : i \in DOMAIN list'}
  BY CleanedPlaces DEF Poll
<1>2. /\ list' \in Seq(Objects \union {Null})
      /\ \A i \in DOMAIN list' : i \in Nat /\ list'[i] \in Objects
  BY <1>1
<1>3. \A d \in due' : d.at \in DOMAIN list' /\ list'[d.at] = d.owner
  BY <1>1
<1>4. \A o : Ready(o) \subseteq Events
  BY DEF Ready, Events, Rank
<1>5. due' \subseteq Due
  BY <1>1, <1>2, <1>4 DEF Due
<1> QED BY <1>2, <1>3, <1>5 DEF Placed, EventsToOwner
-----------------------------------------------------------------------------
(***************************************************************************)
(* The parts of the invariant, step by step.                               *)
(***************************************************************************)
\* A step is Poll, which changes no object, or leaves a world that fits.
LEMMA Kinds ==
  ASSUME IInv, [Next]_vars
  PROVE  \/ Poll /\ UNCHANGED objects
         \/ Fits({})
         \/ \E p \in Listening : Accept(p) /\ Head(backlog[p]) \in Conns /\ Fits({Head(backlog[p])})
BY StepFits, AcceptFits DEF Poll

LEMMA OwnedStep ==
  ASSUME IInv, [Next]_vars
  PROVE  Owned(fds', open', Fds)
<1>1. CASE UNCHANGED objects
  BY <1>1 DEF IInv, objects
<1>2. ASSUME NEW N, Fits(N) PROVE Owned(fds', open', Fds)
  BY <1>2 DEF Fits, Fit, Becomes
<1> QED BY <1>1, <1>2, Kinds

\* The list grows at its end, and results are used up.
LEMMA PlacedStep ==
  ASSUME IInv, [Next]_vars
  PROVE  Placed' /\ due' \subseteq Due
<1>0. Placed /\ Typed
  BY DEF IInv
<1>1. ASSUME NEW N, Fits(N), ~Poll
      PROVE  Placed' /\ due' \subseteq Due
  <2>1. due' \subseteq due
    BY <1>1, DueStep
  <2>2. Grown(list', N)
    BY <1>1 DEF Fits, Fit, Becomes
  <2>3. \A d \in due' : d.at \in DOMAIN list' /\ list'[d.at] = d.owner
    BY <1>0, <2>1, <2>2 DEF Placed, EventsToOwner, Grown
  <2> QED BY <1>0, <2>1, <2>2, <2>3 DEF Placed, EventsToOwner, Grown, Typed
<1>2. CASE Poll
  BY <1>2, PollDue
<1> QED BY <1>1, <1>2, Kinds

\* Every handler leaves the valid objects with one place each.
LEMMA OnceStep ==
  ASSUME IInv, [Next]_vars, NEW o \in DOMAIN fds', fds'[o] # NoFd
  PROVE  Once(list', o)
<1>1. ASSUME NEW N, Fits(N) PROVE Once(list', o)
  BY <1>1 DEF Fits, Fit, Becomes
<1>2. CASE Poll /\ UNCHANGED objects
  <2>1. o \in DOMAIN fds /\ fds[o] # NoFd /\ Placed /\ Once(list, o) /\ list' = Cleaned
    BY <1>2 DEF Poll, objects, IInv, Listed
  <2> QED BY <2>1, CleanedOnce
<1> QED BY <1>1, <1>2, Kinds

\* The connections that are added to the list have come and do not wait.
LEMMA AddedConns ==
  ASSUME IInv, [Next]_vars, NEW i \in DOMAIN list'
  PROVE  \/ list'[i] \in Nat \union {Null}
         \/ list'[i] \in Conns /\ list'[i] \in DOMAIN fds'
         \/ \E j \in DOMAIN list : list'[i] = list[j]
<1>1. ASSUME NEW N \in SUBSET Conns, Fits(N)
      PROVE  \/ list'[i] \in Nat \union {Null}
             \/ list'[i] \in Conns /\ list'[i] \in DOMAIN fds'
             \/ \E j \in DOMAIN list : list'[i] = list[j]
  <2>1. Grown(list', N) /\ N \subseteq DOMAIN fds'
    BY <1>1 DEF Fits, Fit, Becomes
  <2> QED BY <1>1, <2>1 DEF Grown
<1>2. CASE Poll
  <2>1. \E j \in DOMAIN list : list'[i] = list[j]
    BY <1>2, CleanedPlaces DEF Poll
  <2> QED BY <2>1
<1> QED BY <1>1, <1>2, Kinds

LEMMA WaitingStep ==
  ASSUME IInv, [Next]_vars
  PROVE  Waiting'
<1> SUFFICES ASSUME Waiting PROVE Waiting'
  BY DEF IInv
<1>0. \A c \in Conns : c \notin Nat
  BY ServerAssumption DEF Locals
<1>1. ASSUME UNCHANGED backlog, DOMAIN fds' \subseteq DOMAIN fds \union Nat,
             peer' \in [Conns -> {"away", "open", "shut", "reset", "broken"}],
             \A c \in Conns : peer'[c] = "away" => peer[c] = "away"
      PROVE  Waiting'
  <2>1. \A p \in Listening : \A i \in DOMAIN backlog[p] : backlog[p][i] \in Conns
    BY DEF Waiting
  <2> QED BY <1>0, <1>1, <2>1 DEF Waiting
<1>2. ASSUME UNCHANGED backlog, DOMAIN fds' \subseteq DOMAIN fds \union Nat,
             \/ UNCHANGED peer
             \/ \E c, v : /\ peer[c] # "away" /\ v \in {"shut", "reset", "broken"}
                          /\ peer' = [peer EXCEPT ![c] = v]
      PROVE  Waiting'
  <2>1. CASE UNCHANGED peer
    BY <1>1, <1>2, <2>1 DEF Waiting
  <2>2. ASSUME NEW c, NEW v \in {"shut", "reset", "broken"},
               peer[c] # "away", peer' = [peer EXCEPT ![c] = v]
        PROVE  Waiting'
    <3>1. peer' \in [Conns -> {"away", "open", "shut", "reset", "broken"}]
      BY <2>2 DEF Waiting
    <3>2. \A b \in Conns : peer'[b] = "away" => peer[b] = "away"
      BY <2>2 DEF Waiting
    <3> QED BY <1>1, <1>2, <3>1, <3>2
  <2> QED BY <1>2, <2>1, <2>2
<1>3. ASSUME NEW p \in Listening, Accept(p)
      PROVE  Waiting'
  <2> DEFINE c == Head(backlog[p])
  <2>1. /\ backlog[p] \in Seq(Conns) /\ backlog[p] # <<>>
        /\ backlog' = [backlog EXCEPT ![p] = Tail(@)] /\ peer' = peer
    BY <1>3 DEF Accept, Waiting
  <2>2. c \in Conns /\ 1 \in DOMAIN backlog[p] /\ c = backlog[p][1]
    BY <2>1
  <2>3. DOMAIN fds' \subseteq DOMAIN fds \union Nat \union {c}
    BY <1>3, AcceptFits DEF Fits, Fit, Becomes
  <2>4. peer[c] # "away"
    BY <2>2 DEF Waiting
  <2> HIDE DEF c
  <2>5. backlog' \in [Listening -> Seq(Conns)]
    BY <2>1 DEF Waiting
  <2>6. \A i \in DOMAIN backlog'[p] : i + 1 \in DOMAIN backlog[p] /\ backlog'[p][i] = backlog[p][i + 1]
    BY <2>1 DEF Waiting
  <2>7. \A q \in Listening : q # p => backlog'[q] = backlog[q]
    BY <2>1 DEF Waiting
  <2>8. \A q \in Listening : \A i \in DOMAIN backlog'[q] :
          backlog'[q][i] \notin DOMAIN fds' /\ peer'[backlog'[q][i]] # "away"
    <3>0. \A q \in Listening : \A j \in DOMAIN backlog[q] : backlog[q][j] \in Conns
      BY DEF Waiting
    <3> SUFFICES ASSUME NEW q \in Listening, NEW i \in DOMAIN backlog'[q]
                 PROVE  backlog'[q][i] \notin DOMAIN fds' /\ peer'[backlog'[q][i]] # "away"
      OBVIOUS
    <3>1. PICK j \in DOMAIN backlog[q] : backlog'[q][i] = backlog[q][j] /\ (q = p => j # 1)
      <4>1. DOMAIN backlog'[p] = 1..Len(backlog'[p]) /\ Len(backlog'[p]) \in Nat
        BY <2>5
      <4> QED BY <2>6, <2>7, <4>1
    <3>2. backlog[q][j] # c
      BY <2>2, <3>1 DEF Waiting
    <3> QED BY <1>0, <2>1, <2>3, <3>0, <3>1, <3>2 DEF Waiting
  <2>9. \A q, r \in Listening : \A i \in DOMAIN backlog'[q], j \in DOMAIN backlog'[r] :
          backlog'[q][i] = backlog'[r][j] => q = r /\ i = j
    <3>1. DOMAIN backlog'[p] = 1..Len(backlog'[p]) /\ Len(backlog'[p]) \in Nat
      BY <2>5
    <3>2. \A q \in Listening : \A i \in DOMAIN backlog'[q] :
            LET k == IF q = p THEN i + 1 ELSE i
            IN  k \in DOMAIN backlog[q] /\ backlog'[q][i] = backlog[q][k]
      BY <2>6, <2>7
    <3> SUFFICES ASSUME NEW q \in Listening, NEW r \in Listening,
                        NEW i \in DOMAIN backlog'[q], NEW j \in DOMAIN backlog'[r],
                        backlog'[q][i] = backlog'[r][j]
                 PROVE  q = r /\ i = j
      OBVIOUS
    <3>3. (IF q = p THEN i + 1 ELSE i) = (IF r = p THEN j + 1 ELSE j) /\ q = r
      BY <3>2 DEF Waiting
    <3>4. i \in Nat /\ j \in Nat
      BY <2>5
    <3> QED BY <3>3, <3>4
  <2>10. \A b \in Conns : b \in DOMAIN fds' => peer'[b] # "away"
    BY <1>0, <2>1, <2>3, <2>4 DEF Waiting
  <2> QED BY <2>1, <2>5, <2>8, <2>9, <2>10 DEF Waiting
<1>4. ASSUME NEW c \in Conns, NEW p \in Listening, Connect(c, p)
      PROVE  Waiting'
  <2>1. /\ peer[c] = "away" /\ peer' = [peer EXCEPT ![c] = "open"] /\ fds' = fds
        /\ backlog' = [backlog EXCEPT ![p] = Append(@, c)]
    BY <1>4 DEF Connect, objects
  <2>2. backlog[p] \in Seq(Conns) /\ backlog' \in [Listening -> Seq(Conns)]
    BY <2>1 DEF Waiting
  <2>3. /\ DOMAIN backlog'[p] = 1..(Len(backlog[p]) + 1) /\ backlog'[p][Len(backlog[p]) + 1] = c
        /\ \A i \in 1..Len(backlog[p]) : backlog'[p][i] = backlog[p][i]
        /\ DOMAIN backlog[p] = 1..Len(backlog[p]) /\ Len(backlog[p]) \in Nat
    BY <2>1, <2>2 DEF Waiting
  <2>4. \A q \in Listening : q # p => backlog'[q] = backlog[q]
    BY <2>1 DEF Waiting
  <2>5. /\ peer' \in [Conns -> {"away", "open", "shut", "reset", "broken"}]
        /\ \A b \in Conns : peer'[b] = "away" => peer[b] = "away" /\ b # c
    BY <2>1 DEF Waiting
  <2>6. \A q \in Listening : \A i \in DOMAIN backlog[q] : backlog[q][i] \in Conns /\ backlog[q][i] # c
    BY <2>1 DEF Waiting
  <2>7. \A q \in Listening : \A i \in DOMAIN backlog'[q] :
          backlog'[q][i] = c \/ (i \in DOMAIN backlog[q] /\ backlog'[q][i] = backlog[q][i])
    BY SMTT(40), <2>3, <2>4
  <2>8. \A q \in Listening : \A i \in DOMAIN backlog'[q] :
          backlog'[q][i] = c => q = p /\ i = Len(backlog[p]) + 1
    BY SMTT(40), <2>3, <2>4, <2>6
  <2>9. \A q \in Listening : \A i \in DOMAIN backlog'[q] :
          backlog'[q][i] \notin DOMAIN fds' /\ peer'[backlog'[q][i]] # "away"
    BY <2>1, <2>5, <2>6, <2>7 DEF Waiting
  <2>10. \A q, r \in Listening : \A i \in DOMAIN backlog'[q], j \in DOMAIN backlog'[r] :
          backlog'[q][i] = backlog'[r][j] => q = r /\ i = j
    BY <2>6, <2>7, <2>8 DEF Waiting
  <2> QED BY <2>1, <2>2, <2>5, <2>9, <2>10 DEF Waiting
<1>5. CASE ~\E p \in Listening : Accept(p) \/ \E c \in Conns : Connect(c, p)
  <2>1. DOMAIN fds' \subseteq DOMAIN fds \union Nat
    <3>1. Fits({}) => DOMAIN fds' \subseteq DOMAIN fds \union Nat
      BY DEF Fits, Fit, Becomes
    <3> QED BY <1>5, <3>1, Kinds DEF objects
  <2> QED BY <1>2, <1>5, <2>1, OutsideStep
<1> QED BY <1>3, <1>4, <1>5

\* A connection that is away was away; one that waits, waited or was away.
LEMMA WaitingBefore ==
  ASSUME Waiting, [Next]_vars
  PROVE  /\ \A c \in Conns : peer'[c] = "away" => peer[c] = "away"
         /\ \A p \in Listening : \A i \in DOMAIN backlog'[p] :
              \/ \E j \in DOMAIN backlog[p] : backlog'[p][i] = backlog[p][j]
              \/ backlog'[p][i] \in Conns /\ peer[backlog'[p][i]] = "away" /\ list' = list
<1> DEFINE Goal == /\ \A c \in Conns : peer'[c] = "away" => peer[c] = "away"
                   /\ \A p \in Listening : \A i \in DOMAIN backlog'[p] :
                        \/ \E j \in DOMAIN backlog[p] : backlog'[p][i] = backlog[p][j]
                        \/ backlog'[p][i] \in Conns /\ peer[backlog'[p][i]] = "away" /\ list' = list
<1> SUFFICES Goal
  OBVIOUS
<1>1. CASE UNCHANGED <<peer, backlog>>
  BY <1>1
<1>2. ASSUME UNCHANGED backlog, NEW c, NEW v \in {"shut", "reset", "broken"},
             peer' = [peer EXCEPT ![c] = v]
      PROVE  Goal
  BY <1>2 DEF Waiting
<1>3. ASSUME NEW p \in Listening, Accept(p)
      PROVE  Goal
  <2>1. /\ backlog[p] \in Seq(Conns) /\ backlog[p] # <<>>
        /\ backlog' = [backlog EXCEPT ![p] = Tail(@)] /\ peer' = peer
    BY <1>3 DEF Accept, Waiting
  <2>2. \A i \in DOMAIN backlog'[p] : i + 1 \in DOMAIN backlog[p] /\ backlog'[p][i] = backlog[p][i + 1]
    BY <2>1 DEF Waiting
  <2>3. \A q \in Listening : q # p => backlog'[q] = backlog[q]
    BY <2>1 DEF Waiting
  <2> QED BY <2>1, <2>2, <2>3
<1>4. ASSUME NEW c \in Conns, NEW p \in Listening, Connect(c, p)
      PROVE  Goal
  <2>1. /\ peer[c] = "away" /\ peer' = [peer EXCEPT ![c] = "open"] /\ list' = list
        /\ backlog' = [backlog EXCEPT ![p] = Append(@, c)]
    BY <1>4 DEF Connect, loop
  <2>2. /\ backlog[p] \in Seq(Conns)
        /\ DOMAIN backlog'[p] = 1..(Len(backlog[p]) + 1) /\ backlog'[p][Len(backlog[p]) + 1] = c
        /\ \A i \in 1..Len(backlog[p]) : backlog'[p][i] = backlog[p][i]
        /\ DOMAIN backlog[p] = 1..Len(backlog[p]) /\ Len(backlog[p]) \in Nat
    BY <2>1 DEF Waiting
  <2>3. \A q \in Listening : q # p => backlog'[q] = backlog[q]
    BY <2>1 DEF Waiting
  <2>4. \A i \in DOMAIN backlog'[p] : i \in DOMAIN backlog[p] \/ backlog'[p][i] = c
    BY <2>2
  <2>5. \A b \in Conns : peer'[b] = "away" => peer[b] = "away"
    BY <2>1 DEF Waiting
  <2> QED BY <2>1, <2>2, <2>3, <2>4, <2>5
<1>5. CASE UNCHANGED backlog /\ \E c : \E v \in {"shut", "reset", "broken"} : peer' = [peer EXCEPT ![c] = v]
  BY <1>2, <1>5
<1> HIDE DEF Goal
<1> QED BY SMTT(40), <1>1, <1>3, <1>4, <1>5, OutsideStep

LEMMA ListedStep ==
  ASSUME IInv, [Next]_vars
  PROVE  Listed'
<1>0. /\ Waiting /\ Waiting' /\ Listed
      /\ \A c \in Conns : c \notin Nat \union {Null}
  BY WaitingStep, ServerAssumption DEF IInv, Locals, Objects
<1>1. \A o \in DOMAIN fds' : fds'[o] # NoFd => Once(list', o)
  BY OnceStep
<1>2. ASSUME NEW i \in DOMAIN list', list'[i] \in Conns, peer'[list'[i]] = "away"
      PROVE  FALSE
  <2>1. list'[i] \notin DOMAIN fds' /\ peer[list'[i]] = "away"
    BY <1>0, <1>2, WaitingBefore DEF Waiting
  <2>2. PICK j \in DOMAIN list : list'[i] = list[j]
    BY <1>0, <1>2, <2>1, AddedConns
  <2> QED BY <1>0, <1>2, <2>1, <2>2 DEF Listed
<1>3. ASSUME NEW p \in Listening, NEW k \in DOMAIN backlog'[p], NEW i \in DOMAIN list',
             list'[i] = backlog'[p][k]
      PROVE  FALSE
  <2>1. list'[i] \in Conns /\ list'[i] \notin DOMAIN fds'
    BY <1>0, <1>3 DEF Waiting
  <2>2. PICK j \in DOMAIN list : list'[i] = list[j]
    BY <1>0, <2>1, AddedConns
  <2>3. \/ \E m \in DOMAIN backlog[p] : list'[i] = backlog[p][m]
        \/ peer[list'[i]] = "away"
    BY <1>0, <1>3, WaitingBefore
  <2> QED BY <1>0, <2>1, <2>2, <2>3 DEF Listed
<1> QED BY <1>1, <1>2, <1>3 DEF Listed

\* The peers' requests and the state of the loop.
LEMMA LoopStep ==
  ASSUME Typed, [Next]_vars
  PROVE  data' \subseteq Conns /\ phase' \in {"poll", "walk"} /\ down' \in BOOLEAN
<1>0. data \subseteq Conns /\ phase \in {"poll", "walk"} /\ down \in BOOLEAN
  BY DEF Typed
<1>1. \A o, e : Finds(o, e) => phase' = phase
  BY DEF Finds
<1>2. CASE UNCHANGED <<data, phase, down>>
  BY SMTT(40), <1>0, <1>2
<1>3. ASSUME NEW c, OpensFile(c) \/ RunsScript(c) \/ ReadsRequest(c)
      PROVE  data' \subseteq data /\ UNCHANGED <<phase, down>>
  BY ZenonT(60), <1>1, <1>3 DEF OpensFile, RunsScript, ReadsRequest, ReadCalls, Calls
<1>4. ASSUME NEW c,
             \/ FileRead(c) \/ ReadsNothing(c) \/ ReadsEnd(c)
             \/ TimePasses(c) \/ \E p \in Listening : Connect(c, p)
      PROVE  UNCHANGED <<data, phase, down>>
  BY <1>1, <1>4 DEF FileRead, ReadsNothing, ReadsEnd, ReadCalls, Calls, TimePasses, Connect, outside, loop
<1>5. ASSUME NEW c, WriteCb(c)
      PROVE  UNCHANGED <<data, phase>> /\ down' \in {down, TRUE}
  BY <1>1, <1>5 DEF WriteCb, WritesNothing, Writes, WriteFails, Calls
<1>6. ASSUME NEW c \in Conns, Sends(c) \/ Leaves(c)
      PROVE  data' \subseteq data \union {c} /\ UNCHANGED <<phase, down>>
  BY <1>6 DEF Sends, Leaves, loop
<1>7. ASSUME NEW p \in Listening, NEW c, Accept(p) \/ AcceptFails(p) \/ Throws(c)
      PROVE  data' = data /\ phase' \in {phase, "poll"} /\ down' = down
  BY <1>1, <1>7 DEF Accept, AcceptFails, Throws, Calls, outside
<1>8. CASE Poll \/ Skip \/ Sweep
  BY <1>0, <1>1, <1>8 DEF Poll, Skip, Sweep, outside
<1>9. CASE UNCHANGED vars
  BY <1>2, <1>9 DEF vars, outside, loop
<1>10. ASSUME NEW c, Throws(c)
       PROVE  data' = data /\ phase' = "poll" /\ down' = down
  BY <1>10 DEF Throws, outside
<1> QED
  BY <1>0, <1>2, <1>3, <1>4, <1>5, <1>6, <1>7, <1>8, <1>9, <1>10 DEF Next, Loop, Callback

LEMMA TypedStep ==
  ASSUME IInv, [Next]_vars
  PROVE  Typed'
<1>0. Typed
  BY DEF IInv
<1>1. /\ DOMAIN fds' \subseteq Objects
      /\ DOMAIN clients' \subseteq Conns /\ clients' \in [DOMAIN clients' -> Clients]
  <2>1. CASE UNCHANGED objects
    BY <1>0, <2>1 DEF Typed, objects
  <2>2. ASSUME NEW N \in SUBSET Conns, Fits(N)
        PROVE  /\ DOMAIN fds' \subseteq Objects
               /\ DOMAIN clients' \subseteq Conns /\ clients' \in [DOMAIN clients' -> Clients]
    <3>0. PICK D \in SUBSET Conns : \E w : Fit(w, D, N) /\ Becomes(w)
      BY <2>2 DEF Fits
    <3>1. PICK w : Fit(w, D, N) /\ Becomes(w)
      BY <3>0
    <3>2. clients' \in [D -> Clients] /\ DOMAIN fds' \subseteq DOMAIN fds \union Nat \union N
      BY <3>1 DEF Fit, Becomes
    <3> QED BY <1>0, <3>2 DEF Typed, Objects, Locals
  <2> QED BY <2>1, <2>2, Kinds
<1> QED BY <1>0, <1>1, PlacedStep, LoopStep DEF Typed
-----------------------------------------------------------------------------
\* After initiateSockets the ports have the first numbers.
LEMMA InitInvariant == Init => IInv
<1> SUFFICES ASSUME Init PROVE IInv
  OBVIOUS
<1>1. /\ machine \in Machines /\ Len(Ports) + 2 <= machine.maxFd /\ machine.maxFd \in Nat
      /\ Ports \in Seq(Listening) /\ DOMAIN Ports = 1..Len(Ports) /\ Len(Ports) \in Nat
  BY ServerAssumption DEF Init
<1>2. ASSUME NEW i \in DOMAIN Ports
      PROVE  Ports[i] \in Listening /\ (CHOOSE j \in DOMAIN Ports : Ports[j] = Ports[i]) = i
  BY ServerAssumption DEF Listening
<1>3. \A p \in Listening : \E i \in DOMAIN Ports : p = Ports[i]
  BY DEF Listening
<1>4. DOMAIN fds = Listening /\ \A i \in DOMAIN Ports : fds[Ports[i]] = i + 2
  BY <1>2 DEF Init
<1>5. Owned(fds, open, Fds)
  <2>1. fds \in [DOMAIN fds -> Fds]
    <3>1. \A p \in Listening : fds[p] \in Fds
      BY SMTT(40), <1>1, <1>3, <1>4 DEF Fds
    <3>2. fds = [p \in Listening |-> fds[p]]
      BY DEF Init
    <3> QED BY <1>4, <3>1, <3>2
  <2>2. open \subseteq Fds /\ Fds \subseteq Nat
    BY <1>1 DEF Init, Fds
  <2>3. \A p \in Listening : fds[p] \in open
    BY <1>1, <1>3, <1>4 DEF Init
  <2>4. \A p, q \in Listening : fds[p] = fds[q] => p = q
    BY <1>1, <1>3, <1>4
  <2>5. \A n \in open : \E p \in Listening : fds[p] = n
    <3> SUFFICES ASSUME NEW n \in open PROVE \E p \in Listening : fds[p] = n
      OBVIOUS
    <3>1. n - 2 \in DOMAIN Ports /\ (n - 2) + 2 = n
      BY <1>1 DEF Init
    <3> QED BY <1>2, <1>4, <3>1
  <2> QED BY <1>4, <2>1, <2>2, <2>3, <2>4, <2>5 DEF Owned
<1>6. Placed
  BY SMTT(40), <1>1 DEF Init, Placed, EventsToOwner, Objects
<1>7. Waiting
  <2>1. \A c \in Conns : c \notin DOMAIN fds
    BY <1>4, ServerAssumption
  <2>2. /\ \A p \in Listening : backlog[p] = <<>> /\ DOMAIN backlog[p] = {}
        /\ backlog \in [Listening -> Seq(Conns)]
    BY DEF Init
  <2> QED BY <2>1, <2>2 DEF Init, Waiting
<1>8. Typed
  <2>1. DOMAIN clients = {} /\ clients \in [DOMAIN clients -> Clients]
    BY DEF Init
  <2>2. \A i \in DOMAIN list : list[i] \in Listening
    BY <1>2 DEF Init
  <2>3. /\ data = {} /\ due = {} /\ phase = "poll" /\ down = FALSE
    BY DEF Init
  <2> QED BY <1>4, <2>1, <2>2, <2>3 DEF Typed, Objects
<1>9. Listed
  <2>1. ASSUME NEW p \in Listening PROVE Once(list, p)
    <3>1. PICK i \in DOMAIN Ports : p = Ports[i]
      BY <1>3
    <3>2. \A j \in DOMAIN Ports : Ports[j] = p <=> j = i
      BY <3>1, ServerAssumption
    <3> QED BY <3>2 DEF Init, Once
  <2>2. \A i \in DOMAIN list : list[i] \notin Conns
    BY <1>2, ServerAssumption DEF Init
  <2>3. \A p \in Listening : DOMAIN backlog[p] = {}
    BY DEF Init
  <2> QED BY <1>4, <2>1, <2>2, <2>3 DEF Listed
<1> QED BY <1>1, <1>5, <1>6, <1>7, <1>8, <1>9 DEF IInv

LEMMA StepInvariant == IInv /\ [Next]_vars => IInv'
<1> SUFFICES ASSUME IInv, [Next]_vars PROVE IInv'
  OBVIOUS
<1>1. machine' = machine /\ machine' \in Machines
  BY OutsideStep DEF IInv
<1>2. Owned(fds', open', Fds')
  BY <1>1, OwnedStep DEF Fds
<1>3. Placed' /\ Waiting'
  BY PlacedStep, WaitingStep DEF IInv
<1>4. Typed' /\ Listed'
  BY TypedStep, ListedStep
<1> QED BY <1>1, <1>2, <1>3, <1>4 DEF IInv

LEMMA Invariant == Spec => []IInv
BY InitInvariant, StepInvariant, PTL DEF Spec
-----------------------------------------------------------------------------
(***************************************************************************)
(* The event that ::poll returned for an object is never given to another  *)
(* one (AsyncPollArray::poll, pollarray.cpp:70), whatever callbacks of the *)
(* iteration add, close, destroy or open: the list only grows at its end.  *)
(***************************************************************************)
THEOREM EventsReachOwner == Spec => []EventsToOwner
<1>1. IInv => EventsToOwner
  BY DEF IInv, Placed
<1> QED BY <1>1, Invariant, PTL

(***************************************************************************)
(* No two objects hold the same descriptor, none keeps the number of one   *)
(* that was closed, and no descriptor stays open when its object is gone   *)
(* (AsyncFD::close, ~AsyncFD, fd.cpp:46), for any number of connections,   *)
(* also when descriptors run out.                                          *)
(***************************************************************************)
THEOREM DescriptorsNeverShared == Spec => []DescriptorsOwned
<1>1. IInv => DescriptorsOwned
  BY DEF IInv, Owned, DescriptorsOwned
<1> QED BY <1>1, Invariant, PTL

(***************************************************************************)
(* Every descriptor is polled, and once: a valid object has exactly one    *)
(* place in _weakFDs (AsyncPollArray::add, cleanup, pollarray.cpp:14), for *)
(* what callbacks add is new, and cleanup keeps the order of the rest.     *)
(***************************************************************************)
THEOREM PolledOnce == Spec => []ListedOnce
<1>1. ASSUME IInv, NEW o \in DOMAIN fds, fds[o] # NoFd
      PROVE  Cardinality({i \in DOMAIN list : list[i] = o}) = 1
  <2>1. PICK i \in DOMAIN list : \A j \in DOMAIN list : list[j] = o <=> j = i
    BY <1>1 DEF IInv, Listed, Once
  <2>2. {j \in DOMAIN list : list[j] = o} = {i}
    BY <2>1
  <2> QED BY <2>2, FS_Singleton
<1>2. IInv => ListedOnce
  BY <1>1 DEF ListedOnce
<1> QED BY <1>2, Invariant, PTL

\* The values of the variables are of the types that the code's have.
THEOREM Typing == Spec => []TypeOK
<1>1. ASSUME IInv PROVE TypeOK
  BY <1>1 DEF IInv, TypeOK, Owned, Placed, Waiting, Typed
<1> QED BY <1>1, Invariant, PTL
=============================================================================
