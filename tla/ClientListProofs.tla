-------------------------- MODULE ClientListProofs --------------------------
(***************************************************************************)
(* Theorems of ClientList, for every value of its constants.               *)
(***************************************************************************)
EXTENDS ClientList, OrderProofs, SequenceTheorems

(***************************************************************************)
(* The parts of the inductive invariant.                                   *)
(***************************************************************************)
\* No connection has two elements.
Distinct(cs) == \A i, j \in DOMAIN cs : cs[i].conn = cs[j].conn => i = j

\* A callback is bound to the element of its connection, and a connection
\* without an element has none: what is called on an element is for it.
Bound ==
  /\ CallbacksBound
  /\ \A c \in Conns : c \notin Listed => cb[c] = Nowhere
  /\ \A i \in DOMAIN clients : sock[clients[i].conn] # "new"

\* User u has session n: in the browser, in a client or on its way.
Holds(cs, ck, u, n) ==
  \/ ck[u] = n
  \/ \E i \in DOMAIN cs : User[cs[i].conn] = u /\ n \in {cs[i].session, cs[i].setCookie}

\* A session has one user, and its number was given before.
Private ==
  /\ \A n \in Ids : \A u, v \in Users :
       Holds(clients, cookie, u, n) /\ Holds(clients, cookie, v, n) => u = v
  /\ \A i \in DOMAIN clients : clients[i].session <= made /\ clients[i].setCookie <= made

IInv == TypeOK /\ capacity \in Nat /\ Bound /\ Private
-----------------------------------------------------------------------------
(***************************************************************************)
(* What is kept when the vector moves its elements.                        *)
(***************************************************************************)
Same(d, e) == d.conn = e.conn /\ d.stage = e.stage /\ d.session = e.session /\ d.setCookie = e.setCookie

LEMMA NewClientType ==
  ASSUME NEW c \in Conns
  PROVE  /\ NewClient(c) \in Clients /\ NewClient(c).conn = c /\ NewClient(c).stage = "idle"
         /\ NewClient(c).session = NoSession /\ NewClient(c).setCookie = NoSession
<1>1. 0 \in Ages /\ NoSession \in Nat
  BY TimeoutAssumption DEF Ages, NoSession
<1> QED BY <1>1 DEF NewClient, Clients

LEMMA AssignedKeeps ==
  ASSUME NEW o \in Clients, NEW e \in Clients
  PROVE  Assigned(o, e) \in Clients /\ Same(Assigned(o, e), e)
BY DEF Assigned, AssignedLocation, Clients, Same

LEMMA CopiedKeeps ==
  ASSUME NEW e \in Clients
  PROVE  Copied(e) \in Clients /\ Same(Copied(e), e)
<1>1. NewClient(e.conn) \in Clients
  BY NewClientType DEF Clients
<1> QED BY <1>1, AssignedKeeps DEF Copied

LEMMA OlderType == \A a \in Ages : Older(a) \in Ages
BY TimeoutAssumption DEF Older, Ages

\* Every element has a place of its own, which the callbacks are given.
LEMMA AtAddress ==
  ASSUME NEW cap \in Nat, NEW i \in 1..cap
  PROVE  /\ At(cap, i) \in Addresses /\ At(cap, i) # Nowhere
         /\ \A j : At(cap, j) = At(cap, i) => j = i
<1>1. cap \in Nat \ {0} /\ i \in Nat \ {0}
  OBVIOUS
<1> QED BY <1>1 DEF At, Addresses, Nowhere

LEMMA RegisteredAt ==
  ASSUME NEW f \in [Conns -> Addresses], NEW cs \in Seq(Clients), Distinct(cs),
         NEW cap \in Nat, Len(cs) <= cap
  PROVE  /\ Registered(f, cs, cap) \in [Conns -> Addresses]
         /\ \A i \in DOMAIN cs : Registered(f, cs, cap)[cs[i].conn] = At(cap, i)
         /\ \A c \in Conns : (\A i \in DOMAIN cs : cs[i].conn # c) => Registered(f, cs, cap)[c] = f[c]
<1> DEFINE r == Registered(f, cs, cap)
<1>1. r = [c \in Conns |-> IF \E i \in DOMAIN cs : cs[i].conn = c
                             THEN At(cap, CHOOSE i \in DOMAIN cs : cs[i].conn = c) ELSE f[c]]
  BY DEF Registered, Noted
<1> HIDE DEF r
<1>2. ASSUME NEW i \in DOMAIN cs
      PROVE  /\ cs[i].conn \in Conns /\ (CHOOSE j \in DOMAIN cs : cs[j].conn = cs[i].conn) = i
             /\ At(cap, i) \in Addresses
  <2>1. cs[i] \in Clients /\ i \in 1..cap
    OBVIOUS
  <2>2. (CHOOSE j \in DOMAIN cs : cs[j].conn = cs[i].conn) = i
    BY DEF Distinct
  <2> QED BY <2>1, <2>2, AtAddress DEF Clients
<1>3. \A i \in DOMAIN cs : r[cs[i].conn] = At(cap, i)
  BY <1>1, <1>2
<1>4. \A c \in Conns : r[c] \in Addresses
  BY <1>1, <1>2
<1>5. r \in [Conns -> Addresses]
  BY <1>1, <1>4
<1>6. \A c \in Conns : (\A i \in DOMAIN cs : cs[i].conn # c) => r[c] = f[c]
  BY <1>1
<1> QED BY <1>3, <1>5, <1>6 DEF r

LEMMA RepointedAt ==
  ASSUME NEW f \in [Conns -> Addresses], NEW cs \in Seq(Clients), Distinct(cs),
         NEW cap \in Nat, Len(cs) <= cap
  PROVE  /\ Repointed(f, cs, cap) \in [Conns -> Addresses]
         /\ \A i \in DOMAIN cs : cs[i].stage = "script" => Repointed(f, cs, cap)[cs[i].conn] = At(cap, i)
<1> DEFINE r == Repointed(f, cs, cap)
<1>1. r = [c \in Conns |-> IF \E i \in DOMAIN cs : cs[i].conn = c /\ cs[i].stage = "script"
                             THEN At(cap, CHOOSE i \in DOMAIN cs : cs[i].conn = c) ELSE f[c]]
  BY DEF Repointed, Noted
<1> HIDE DEF r
<1>2. ASSUME NEW i \in DOMAIN cs
      PROVE  /\ cs[i].conn \in Conns /\ (CHOOSE j \in DOMAIN cs : cs[j].conn = cs[i].conn) = i
             /\ At(cap, i) \in Addresses
  <2>1. cs[i] \in Clients /\ i \in 1..cap
    OBVIOUS
  <2>2. (CHOOSE j \in DOMAIN cs : cs[j].conn = cs[i].conn) = i
    BY DEF Distinct
  <2> QED BY <2>1, <2>2, AtAddress DEF Clients
<1>3. \A i \in DOMAIN cs : cs[i].stage = "script" => r[cs[i].conn] = At(cap, i)
  BY <1>1, <1>2
<1>4. \A c \in Conns : r[c] \in Addresses
  BY <1>1, <1>2
<1>5. r \in [Conns -> Addresses]
  BY <1>1, <1>4
<1> QED BY <1>3, <1>5 DEF r
-----------------------------------------------------------------------------
(***************************************************************************)
(* The vector after each operation that moves its elements.                *)
(***************************************************************************)
\* emplace_back: the elements keep their order, and the new one is last.
LEMMA AcceptMoves ==
  ASSUME IInv, NEW c \in Conns, Accept(c)
  PROVE  /\ clients' \in Seq(Clients) /\ capacity' \in Nat /\ Len(clients') <= capacity'
         /\ DOMAIN clients' = 1..(Len(clients) + 1)
         /\ \A i \in DOMAIN clients : Same(clients'[i], clients[i])
         /\ clients'[Len(clients) + 1] = NewClient(c)
         /\ Distinct(clients')
<1> DEFINE kept == IF Grown = capacity THEN clients ELSE [i \in DOMAIN clients |-> Copied(clients[i])]
<1>0. /\ clients \in Seq(Clients) /\ Len(clients) <= capacity /\ capacity \in Nat
      /\ Len(clients) \in Nat /\ DOMAIN clients = 1..Len(clients) /\ Distinct(clients)
  BY DEF IInv, TypeOK, Distinct
<1>1. /\ kept \in Seq(Clients) /\ Len(kept) = Len(clients) /\ DOMAIN kept = DOMAIN clients
      /\ \A i \in DOMAIN clients : Same(kept[i], clients[i])
  <2>1. CASE Grown = capacity
    BY <1>0, <2>1 DEF Same
  <2>2. CASE Grown # capacity
    <3>1. \A i \in DOMAIN clients : Copied(clients[i]) \in Clients /\ Same(Copied(clients[i]), clients[i])
      BY <1>0, CopiedKeeps
    <3>2. kept = [i \in 1..Len(clients) |-> Copied(clients[i])]
      BY <1>0, <2>2
    <3> QED BY <1>0, <3>1, <3>2
  <2> QED BY <2>1, <2>2
<1>2. clients' = Append(kept, NewClient(c)) /\ capacity' = Grown
  BY DEF Accept
<1> HIDE DEF kept
<1>3. /\ clients' \in Seq(Clients) /\ Len(clients') = Len(clients) + 1
      /\ DOMAIN clients' = 1..(Len(clients) + 1)
      /\ clients'[Len(clients) + 1] = NewClient(c)
      /\ \A i \in DOMAIN clients : clients'[i] = kept[i]
  BY <1>0, <1>1, <1>2, NewClientType
<1>4. Grown \in Nat /\ Len(clients) + 1 <= Grown
  BY <1>0 DEF Grown
<1>5. \A i \in DOMAIN clients : clients[i].conn # c
  BY DEF IInv, Bound, Accept
<1>6. Distinct(clients')
  <2>1. \A i \in DOMAIN clients : clients'[i].conn = clients[i].conn
    BY <1>1, <1>3 DEF Same
  <2>2. clients'[Len(clients) + 1].conn = c
    BY <1>3, NewClientType
  <2>3. \A i \in DOMAIN clients' : i \in DOMAIN clients \/ i = Len(clients) + 1
    BY <1>0, <1>3
  <2> QED BY <1>0, <1>5, <2>1, <2>2, <2>3 DEF Distinct
<1> QED BY <1>1, <1>2, <1>3, <1>4, <1>6

\* erase(remove_if): every element that is left is one that was not dead.
LEMMA SweepMoves ==
  ASSUME IInv, Sweep
  PROVE  /\ clients' \in Seq(Clients) /\ Len(clients') <= capacity
         /\ \A j \in DOMAIN clients' : \E i \in DOMAIN clients :
              ~Dead(clients[i]) /\ Same(clients'[j], clients[i])
         /\ \A i \in DOMAIN clients : ~Dead(clients[i]) =>
              \E j \in DOMAIN clients' : clients'[j].conn = clients[i].conn
         /\ Distinct(clients')
<1> DEFINE K == {i \in DOMAIN clients : ~Dead(clients[i])}
           live == InOrder(K)
<1>0. /\ clients \in Seq(Clients) /\ Len(clients) <= capacity /\ capacity \in Nat
      /\ Len(clients) \in Nat /\ DOMAIN clients = 1..Len(clients) /\ Distinct(clients)
  BY DEF IInv, TypeOK, Distinct
<1>1. /\ IsFiniteSet(K) /\ \A i \in K : i \in Nat
      /\ Cardinality(K) <= Len(clients)
  <2>1. \A n \in Nat : IsFiniteSet(1..n) /\ Cardinality(1..n) = n
    <3> SUFFICES ASSUME NEW n \in Nat PROVE IsFiniteSet(1..n) /\ Cardinality(1..n) = n
      OBVIOUS
    <3>1. IsFiniteSet(1..n) /\ Cardinality(1..n) = IF 1 > n THEN 0 ELSE n - 1 + 1
      BY FS_Interval
    <3> QED BY <3>1
  <2>2. IsFiniteSet(DOMAIN clients) /\ Cardinality(DOMAIN clients) = Len(clients)
    BY <1>0, <2>1
  <2>3. K \subseteq DOMAIN clients /\ \A i \in K : i \in Nat
    BY <1>0
  <2> HIDE DEF K
  <2> QED BY <2>2, <2>3, FS_Subset
<1>2. clients' = [j \in DOMAIN live |-> Assigned(clients[j], clients[live[j]])]
  BY DEF Sweep, Shifted
<1>a. K \subseteq DOMAIN clients /\ (\A i \in K : ~Dead(clients[i])) /\ \A i \in DOMAIN clients : ~Dead(clients[i]) => i \in K
  OBVIOUS
<1> HIDE DEF K
<1>3. /\ DOMAIN live = 1..Cardinality(K) /\ Cardinality(K) \in Nat
      /\ \A i, j \in DOMAIN live : live[i] = live[j] => i = j
      /\ \A i \in K : \E j \in DOMAIN live : live[j] = i
  BY <1>1, InOrderLists
<1>4. \A j \in DOMAIN live : live[j] \in K
  BY <1>1, InOrderLists, ElementOfSeq
<1> HIDE DEF live
<1>5. ASSUME NEW j \in DOMAIN live
      PROVE  /\ j \in DOMAIN clients /\ live[j] \in DOMAIN clients
             /\ clients'[j] \in Clients /\ Same(clients'[j], clients[live[j]])
  <2>1. j \in DOMAIN clients /\ live[j] \in DOMAIN clients
    BY <1>0, <1>1, <1>a, <1>3, <1>4
  <2>2. clients[j] \in Clients /\ clients[live[j]] \in Clients
    BY <1>0, <2>1
  <2> QED BY <1>2, <2>1, <2>2, AssignedKeeps
<1>6. DOMAIN clients' = 1..Cardinality(K)
  BY <1>2, <1>3
<1>7. clients' \in Seq(Clients) /\ Len(clients') = Cardinality(K)
  <2>1. clients' = [j \in 1..Cardinality(K) |-> clients'[j]]
    BY <1>2, <1>3
  <2> QED BY <1>3, <1>5, <2>1
<1>8. \A i \in DOMAIN clients : ~Dead(clients[i]) =>
        \E j \in DOMAIN clients' : clients'[j].conn = clients[i].conn
  BY <1>a, <1>3, <1>5, <1>6 DEF Same
<1>9. Distinct(clients')
  BY SMTT(40), <1>0, <1>3, <1>5, <1>6 DEF Distinct, Same
<1> QED BY <1>0, <1>1, <1>a, <1>3, <1>4, <1>5, <1>6, <1>7, <1>8, <1>9
-----------------------------------------------------------------------------
LEMMA Elements ==
  ASSUME IInv
  PROVE  \A i \in DOMAIN clients : clients[i] \in Clients /\ clients[i].conn \in Conns
<1>1. clients \in Seq(Clients)
  BY DEF IInv, TypeOK
<1>2. \A i \in DOMAIN clients : clients[i] \in Clients
  BY <1>1
<1> QED BY <1>2 DEF Clients

\* A callback is called on the element of its connection.
LEMMA CalledOnOwn ==
  ASSUME IInv, NEW c \in Conns, NEW i, Called(c, i)
  PROVE  i \in DOMAIN clients /\ clients[i] \in Clients /\ clients[i].conn = c
<1>0. /\ clients \in Seq(Clients) /\ Len(clients) <= capacity /\ capacity \in Nat
      /\ Bound /\ i \in DOMAIN clients
  BY DEF IInv, TypeOK, Called
<1>1. i \in 1..capacity /\ \A j \in DOMAIN clients : j \in 1..capacity
  BY <1>0
<1>2. cb[c] # Nowhere
  BY <1>0, <1>1, AtAddress DEF Called
<1>3. PICK j \in DOMAIN clients : clients[j].conn = c
  BY <1>0, <1>2 DEF Bound, Listed
<1>4. At(capacity, i) = At(capacity, j)
  BY <1>0, <1>3 DEF Bound, CallbacksBound, Called
<1> QED BY <1>0, <1>1, <1>3, <1>4, AtAddress

\* What a callback changes: one element, which stays its connection's.
OneElement(c, i) ==
  /\ UNCHANGED <<capacity, cb>>
  /\ i \in DOMAIN clients /\ clients[i].conn = c
  /\ \E d \in Clients : d.conn = c /\ clients' = [clients EXCEPT ![i] = d]

LEMMA OneElementTypes ==
  ASSUME IInv, NEW c \in Conns, NEW i, OneElement(c, i)
  PROVE  /\ clients' \in Seq(Clients) /\ Len(clients') = Len(clients) /\ Distinct(clients')
         /\ DOMAIN clients' = DOMAIN clients
         /\ \A j \in DOMAIN clients : clients'[j].conn = clients[j].conn /\ (j # i => clients'[j] = clients[j])
<1>0. clients \in Seq(Clients) /\ Distinct(clients)
  BY DEF IInv, TypeOK, Distinct
<1>1. PICK d \in Clients : d.conn = c /\ clients' = [clients EXCEPT ![i] = d]
  BY DEF OneElement
<1>2. clients' \in Seq(Clients) /\ Len(clients') = Len(clients) /\ DOMAIN clients' = DOMAIN clients
  BY <1>0, <1>1 DEF OneElement
<1>3. \A j \in DOMAIN clients : clients'[j].conn = clients[j].conn /\ (j # i => clients'[j] = clients[j])
  BY <1>0, <1>1 DEF OneElement
<1> QED BY <1>0, <1>2, <1>3 DEF Distinct

LEMMA SessionFound ==
  ASSUME NEW e \in Clients, NEW u \in Users, made \in Nat, cookie \in [Users -> 0..made],
         e.session <= made, e.setCookie <= made
  PROVE  LET d == HandleSession(e, u)
         IN  /\ d \in Clients /\ d.conn = e.conn
             /\ \/ d.setCookie = e.setCookie /\ d.session \in {e.session, cookie[u]}
                \/ d.setCookie = made + 1 /\ d.session = made + 1 /\ d.setCookie # e.setCookie
<1>1. made + 1 \in Nat /\ cookie[u] \in Nat /\ e.setCookie \in Nat /\ e.setCookie # made + 1
  BY DEF Clients
<1>2. CASE e.session # NoSession
  BY <1>2 DEF HandleSession
<1>3. CASE e.session = NoSession /\ Found(list, cookie[u])
  BY <1>1, <1>3 DEF HandleSession, Clients
<1>4. CASE e.session = NoSession /\ ~Found(list, cookie[u])
  BY <1>1, <1>4 DEF HandleSession, Clients
<1> QED BY <1>2, <1>3, <1>4

LEMMA HeaderElement ==
  ASSUME IInv, NEW c \in Conns, NEW i \in DOMAIN clients, NEW loc \in Locations, HeaderComes(c, i, loc)
  PROVE  /\ OneElement(c, i) /\ clients'[i].conn = c
         /\ made' \in {made, made + 1}
         /\ clients'[i].stage = "waiting"
         /\ \/ made' = made /\ clients'[i].setCookie = clients[i].setCookie
               /\ clients'[i].session \in {clients[i].session, cookie[User[c]]}
            \/ made' = made + 1 /\ clients'[i].setCookie = made + 1 /\ clients'[i].session = made + 1
<1> DEFINE d == HandleSession(clients[i], User[c])
           e == [d EXCEPT !.location = loc, !.stage = "waiting", !.age = 0]
<1>0. /\ clients[i] \in Clients /\ clients[i].conn = c /\ clients \in Seq(Clients)
      /\ made \in Nat /\ cookie \in [Users -> 0..made] /\ User[c] \in Users
      /\ clients[i].session <= made /\ clients[i].setCookie <= made /\ 0 \in Ages
  <2>1. clients[i] \in Clients /\ clients[i].conn = c
    BY CalledOnOwn DEF HeaderComes, Reads
  <2>2. clients \in Seq(Clients) /\ made \in Nat /\ cookie \in [Users -> 0..made]
    BY DEF IInv, TypeOK
  <2>3. clients[i].session <= made /\ clients[i].setCookie <= made
    BY DEF IInv, Private
  <2>4. User[c] \in Users /\ 0 \in Ages
    BY ClientListAssumption, TimeoutAssumption DEF Ages
  <2> QED BY <2>1, <2>2, <2>3, <2>4
<1>1. /\ d \in Clients /\ d.conn = c
      /\ \/ d.setCookie = clients[i].setCookie /\ d.session \in {clients[i].session, cookie[User[c]]}
         \/ d.setCookie = made + 1 /\ d.session = made + 1 /\ d.setCookie # clients[i].setCookie
  BY <1>0, SessionFound
<1>2. /\ clients' = [clients EXCEPT ![i] = e] /\ UNCHANGED <<capacity, cb>>
      /\ made' = IF d.setCookie # clients[i].setCookie THEN made + 1 ELSE made
  BY DEF HeaderComes
<1> HIDE DEF d
<1>3. e \in Clients /\ e.conn = c /\ e.session = d.session /\ e.setCookie = d.setCookie /\ e.stage = "waiting"
  BY <1>0, <1>1 DEF Clients
<1> HIDE DEF e
<1>4. clients'[i] = e
  BY <1>0, <1>2
<1> QED BY <1>0, <1>1, <1>2, <1>3, <1>4 DEF OneElement

LEMMA BodyElement ==
  ASSUME IInv, NEW c \in Conns, NEW i \in DOMAIN clients, BodyComes(c, i)
  PROVE  /\ OneElement(c, i)
         /\ clients'[i].session = clients[i].session /\ clients'[i].setCookie = clients[i].setCookie
<1>0. clients[i] \in Clients /\ clients[i].conn = c /\ 0 \in Ages
  BY CalledOnOwn, TimeoutAssumption DEF BodyComes, Reads, Ages
<1> DEFINE d == [clients[i] EXCEPT !.stage = "script", !.age = 0]
<1>1. d \in Clients /\ d.conn = c /\ d.session = clients[i].session /\ d.setCookie = clients[i].setCookie
  BY <1>0 DEF Clients
<1>2. clients' = [clients EXCEPT ![i] = d] /\ UNCHANGED <<capacity, cb>>
  BY DEF BodyComes
<1> HIDE DEF d
<1> QED BY <1>0, <1>1, <1>2 DEF OneElement

LEMMA AnsweredElement ==
  ASSUME IInv, NEW c \in Conns, NEW i \in DOMAIN clients, NEW close \in BOOLEAN, Answered(c, i, close)
  PROVE  /\ OneElement(c, i) /\ clients'[i].stage = "idle"
         /\ clients'[i].session = clients[i].session /\ clients'[i].setCookie = NoSession
<1>0. clients[i] \in Clients /\ clients[i].conn = c /\ 0 \in Ages /\ NoSession \in Nat
  BY CalledOnOwn, TimeoutAssumption DEF Answered, Writes, Ages, NoSession
<1> DEFINE d == [clients[i] EXCEPT !.stage = "idle", !.age = 0, !.setCookie = NoSession]
<1>1. d \in Clients /\ d.conn = c /\ d.session = clients[i].session /\ d.setCookie = NoSession /\ d.stage = "idle"
  BY <1>0 DEF Clients
<1>2. clients' = [clients EXCEPT ![i] = d] /\ UNCHANGED <<capacity, cb>>
  BY DEF Answered
<1> HIDE DEF d
<1> QED BY <1>0, <1>1, <1>2 DEF OneElement

LEMMA TickElements ==
  ASSUME IInv, Tick
  PROVE  /\ clients' \in Seq(Clients) /\ Len(clients') = Len(clients) /\ DOMAIN clients' = DOMAIN clients
         /\ \A i \in DOMAIN clients : Same(clients'[i], clients[i])
         /\ Distinct(clients')
<1>0. clients \in Seq(Clients) /\ Distinct(clients)
  BY DEF IInv, TypeOK, Distinct
<1> DEFINE older(i) == [clients[i] EXCEPT !.age = Older(@)]
<1>1. ASSUME NEW i \in DOMAIN clients
      PROVE  older(i) \in Clients /\ Same(older(i), clients[i])
  <2>1. clients[i] \in Clients
    BY <1>0
  <2>2. Older(clients[i].age) \in Ages
    BY <2>1, OlderType DEF Clients
  <2> QED BY <2>1, <2>2 DEF Clients, Same
<1>2. clients' = [i \in DOMAIN clients |-> older(i)]
  BY DEF Tick
<1> HIDE DEF older
<1>3. clients' \in Seq(Clients) /\ Len(clients') = Len(clients) /\ DOMAIN clients' = DOMAIN clients
  <2>1. clients' = [i \in 1..Len(clients) |-> older(i)] /\ Len(clients) \in Nat
    BY <1>0, <1>2
  <2> QED BY <1>0, <1>1, <2>1
<1>4. \A i \in DOMAIN clients : Same(clients'[i], clients[i])
  BY <1>1, <1>2
<1> QED BY <1>0, <1>3, <1>4 DEF Distinct, Same
-----------------------------------------------------------------------------
(***************************************************************************)
(* Callbacks stay bound, whatever the vector does.                         *)
(***************************************************************************)
\* The Bound of a step that moves no element and binds no callback.
LEMMA BoundKept ==
  ASSUME IInv, UNCHANGED <<capacity, cb>>, DOMAIN clients' = DOMAIN clients,
         \A i \in DOMAIN clients :
           /\ clients'[i].conn = clients[i].conn
           /\ clients'[i].stage = "script" => cgi'[clients[i].conn] = At(capacity, i),
         \A c \in Conns : sock'[c] = "new" => sock[c] = "new"
  PROVE  Bound'
<1>1. \A i \in DOMAIN clients : clients[i].conn \in Conns
  BY Elements
<1>2. Bound /\ Listed' = Listed
  BY DEF IInv, Listed
<1>3. CallbacksBound'
  BY <1>2 DEF Bound, CallbacksBound
<1> QED BY <1>1, <1>2, <1>3 DEF Bound

LEMMA BoundStep ==
  ASSUME IInv, [Next]_vars
  PROVE  Bound'
<1>0. /\ Bound /\ clients \in Seq(Clients) /\ Distinct(clients) /\ capacity \in Nat
      /\ cb \in [Conns -> Addresses] /\ cgi \in [Conns -> Addresses] /\ Len(clients) <= capacity
      /\ sock \in [Conns -> {"new", "open", "eof", "over"}]
  BY DEF IInv, TypeOK, Distinct
<1>1. ASSUME NEW c \in Conns, Accept(c)
      PROVE  Bound'
  <2>1. /\ clients' \in Seq(Clients) /\ capacity' \in Nat /\ Len(clients') <= capacity' /\ Distinct(clients')
        /\ DOMAIN clients' = 1..(Len(clients) + 1)
        /\ \A i \in DOMAIN clients : Same(clients'[i], clients[i])
        /\ clients'[Len(clients) + 1] = NewClient(c)
    BY <1>1, AcceptMoves
  <2>2. cb' = Registered(cb, clients', capacity') /\ cgi' = Repointed(cgi, clients', capacity')
        /\ sock' = [sock EXCEPT ![c] = "open"]
    BY <1>1 DEF Accept
  <2>3. CallbacksBound'
    BY <1>0, <2>1, <2>2, RegisteredAt, RepointedAt DEF CallbacksBound
  <2>4. Listed \subseteq Listed'
    <3>1. \A i \in DOMAIN clients : i \in DOMAIN clients' /\ clients'[i].conn = clients[i].conn
      BY <1>0, <2>1 DEF Same
    <3> QED BY <3>1 DEF Listed
  <2>5. \A d \in Conns : d \notin Listed' => cb'[d] = Nowhere
    <3> SUFFICES ASSUME NEW d \in Conns, d \notin Listed' PROVE cb'[d] = Nowhere
      OBVIOUS
    <3>1. \A i \in DOMAIN clients' : clients'[i].conn # d
      BY DEF Listed
    <3>2. cb'[d] = cb[d]
      BY SMTT(40), <1>0, <2>1, <2>2, <3>1, RegisteredAt
    <3> QED BY <1>0, <2>4, <3>2 DEF Bound
  <2>6. \A i \in DOMAIN clients' : sock'[clients'[i].conn] # "new"
    <3>1. \A i \in DOMAIN clients' : i \in DOMAIN clients \/ i = Len(clients) + 1
      BY <1>0, <2>1
    <3>2. NewClient(c).conn = c
      BY NewClientType
    <3>3. \A i \in DOMAIN clients : clients[i].conn \in Conns /\ sock[clients[i].conn] # "new"
      BY <1>0, Elements DEF Bound
    <3> QED BY <1>0, <2>1, <2>2, <3>1, <3>2, <3>3 DEF Same
  <2> QED BY <2>3, <2>5, <2>6 DEF Bound
<1>2. CASE Sweep
  <2> DEFINE gone == {clients[i].conn : i \in {j \in DOMAIN clients : Dead(clients[j])}}
             left  == [c \in Conns |-> IF c \in gone THEN Nowhere ELSE cb[c]]
             leftS == [c \in Conns |-> IF c \in gone THEN Nowhere ELSE cgi[c]]
  <2>1. /\ clients' \in Seq(Clients) /\ Len(clients') <= capacity /\ Distinct(clients')
        /\ \A j \in DOMAIN clients' : \E i \in DOMAIN clients :
             ~Dead(clients[i]) /\ Same(clients'[j], clients[i])
        /\ \A i \in DOMAIN clients : ~Dead(clients[i]) =>
             \E j \in DOMAIN clients' : clients'[j].conn = clients[i].conn
    BY <1>2, SweepMoves
  <2>2. /\ cb' = Registered(left, clients', capacity)
        /\ cgi' = Repointed(leftS, clients', capacity)
        /\ sock' = [c \in Conns |-> IF c \in gone THEN "over" ELSE sock[c]] /\ capacity' = capacity
    BY <1>2 DEF Sweep
  <2>3. left \in [Conns -> Addresses] /\ leftS \in [Conns -> Addresses]
    BY <1>0 DEF Addresses
  <2>a. \A i \in DOMAIN clients : Dead(clients[i]) => clients[i].conn \in gone
    OBVIOUS
  <2>b. \A c \in Conns : left[c] = IF c \in gone THEN Nowhere ELSE cb[c]
    OBVIOUS
  <2> HIDE DEF gone, left, leftS
  <2>c. clients' \in Seq(Clients) /\ Len(clients') <= capacity /\ Distinct(clients') /\ capacity \in Nat
    BY <1>0, <2>1
  <2>d. /\ \A i \in DOMAIN clients' : Registered(left, clients', capacity)[clients'[i].conn] = At(capacity, i)
        /\ \A c \in Conns : (\A i \in DOMAIN clients' : clients'[i].conn # c)
                            => Registered(left, clients', capacity)[c] = left[c]
    BY <2>3, <2>c, RegisteredAt
  <2>e. \A i \in DOMAIN clients' : clients'[i].stage = "script" =>
          Repointed(leftS, clients', capacity)[clients'[i].conn] = At(capacity, i)
    BY <2>3, <2>c, RepointedAt
  <2>4. CallbacksBound'
    BY <2>2, <2>d, <2>e DEF CallbacksBound
  <2>5. \A c \in Conns : c \notin Listed' => cb'[c] = Nowhere
    <3> SUFFICES ASSUME NEW c \in Conns, c \notin Listed' PROVE cb'[c] = Nowhere
      OBVIOUS
    <3>1. \A i \in DOMAIN clients' : clients'[i].conn # c
      BY DEF Listed
    <3>2. cb'[c] = left[c]
      BY <2>2, <2>d, <3>1
    <3>3. c \notin Listed \/ c \in gone
      BY <2>1, <2>a, <3>1 DEF Listed
    <3> QED BY <1>0, <2>b, <3>2, <3>3 DEF Bound
  <2>6. \A j \in DOMAIN clients' : sock'[clients'[j].conn] # "new"
    <3>1. \A i \in DOMAIN clients : clients[i].conn \in Conns /\ sock[clients[i].conn] # "new"
      BY <1>0, Elements DEF Bound
    <3> QED BY <2>1, <2>2, <3>1 DEF Same
  <2> QED BY <2>4, <2>5, <2>6 DEF Bound
<1>3. CASE Tick
  <2>1. DOMAIN clients' = DOMAIN clients /\ \A i \in DOMAIN clients : Same(clients'[i], clients[i])
    BY <1>3, TickElements
  <2>2. UNCHANGED <<capacity, cb, cgi, sock>>
    BY <1>3 DEF Tick
  <2> QED BY <1>0, <2>1, <2>2, BoundKept DEF Same, Bound, CallbacksBound
<1>4. ASSUME NEW c \in Conns, PeerLeaves(c)
      PROVE  Bound'
  <2>1. UNCHANGED <<clients, capacity, cb, cgi>> /\ sock' = [sock EXCEPT ![c] = "eof"]
    BY <1>4 DEF PeerLeaves
  <2>2. \A d \in Conns : sock'[d] = "new" => sock[d] = "new"
    BY <1>0, <2>1
  <2> QED BY <1>0, <2>1, <2>2, BoundKept DEF Bound, CallbacksBound
<1>5. ASSUME NEW c \in Conns, NEW i \in DOMAIN clients, NEW loc \in Locations, HeaderComes(c, i, loc)
      PROVE  Bound'
  <2>1. OneElement(c, i) /\ clients'[i].stage = "waiting"
    BY <1>5, HeaderElement
  <2>2. UNCHANGED <<capacity, cb, cgi, sock>>
    BY <1>5 DEF HeaderComes
  <2> QED BY <1>0, <2>1, <2>2, OneElementTypes, BoundKept DEF Bound, CallbacksBound
<1>6. ASSUME NEW c \in Conns, NEW i \in DOMAIN clients, BodyComes(c, i)
      PROVE  Bound'
  <2>1. OneElement(c, i)
    BY <1>6, BodyElement
  <2>2. UNCHANGED <<capacity, cb, sock>> /\ cgi' = [cgi EXCEPT ![c] = At(capacity, i)]
    BY <1>6 DEF BodyComes
  <2>3. /\ DOMAIN clients' = DOMAIN clients
        /\ \A j \in DOMAIN clients : clients'[j].conn = clients[j].conn /\ (j # i => clients'[j] = clients[j])
    BY <2>1, OneElementTypes
  <2>4. ASSUME NEW j \in DOMAIN clients, clients'[j].stage = "script"
        PROVE  cgi'[clients[j].conn] = At(capacity, j)
    <3>1. clients[j].conn \in Conns /\ clients[i].conn = c
      BY <2>1, Elements DEF OneElement
    <3>2. CASE j = i
      BY <1>0, <2>2, <3>1, <3>2
    <3>3. CASE j # i
      <4>1. clients[j].conn # c
        BY <1>0, <3>1, <3>3 DEF Distinct
      <4> QED BY <1>0, <2>2, <2>3, <2>4, <3>3, <4>1 DEF Bound, CallbacksBound
    <3> QED BY <3>2, <3>3
  <2> QED BY <2>2, <2>3, <2>4, BoundKept
<1>7. ASSUME NEW c \in Conns, NEW i \in DOMAIN clients, NEW close \in BOOLEAN, Answered(c, i, close)
      PROVE  Bound'
  <2>1. OneElement(c, i) /\ clients'[i].stage = "idle"
    BY <1>7, AnsweredElement
  <2>2. /\ UNCHANGED <<capacity, cb>> /\ cgi' = [cgi EXCEPT ![c] = Nowhere]
        /\ sock' \in {sock, [sock EXCEPT ![c] = "over"]}
    BY <1>7 DEF Answered
  <2>3. /\ DOMAIN clients' = DOMAIN clients
        /\ \A j \in DOMAIN clients : clients'[j].conn = clients[j].conn /\ (j # i => clients'[j] = clients[j])
    BY <2>1, OneElementTypes
  <2>4. ASSUME NEW j \in DOMAIN clients, clients'[j].stage = "script"
        PROVE  cgi'[clients[j].conn] = At(capacity, j)
    <3>1. clients[j].conn \in Conns /\ clients[i].conn = c /\ j # i
      BY <2>1, <2>4, Elements DEF OneElement
    <3>2. clients[j].conn # c
      BY <1>0, <3>1 DEF Distinct
    <3> QED BY <1>0, <2>2, <2>3, <2>4, <3>1, <3>2 DEF Bound, CallbacksBound
  <2>5. \A d \in Conns : sock'[d] = "new" => sock[d] = "new"
    BY <1>0, <2>2
  <2> QED BY <2>2, <2>3, <2>4, <2>5, BoundKept
<1>8. CASE UNCHANGED vars
  BY <1>0, <1>8, BoundKept DEF vars, Bound, CallbacksBound
<1> QED
  BY <1>1, <1>2, <1>3, <1>4, <1>5, <1>6, <1>7, <1>8 DEF Next, Callback
-----------------------------------------------------------------------------
(***************************************************************************)
(* Sessions stay private.                                                  *)
(***************************************************************************)
LEMMA GivenBefore ==
  ASSUME IInv, NEW u \in Users, NEW n \in Ids, Holds(clients, cookie, u, n)
  PROVE  n <= made
<1>1. made \in Nat /\ cookie[u] \in 0..made
  BY DEF IInv, TypeOK
<1> QED BY <1>1 DEF IInv, Private, Holds

\* In a step, users keep what they had, and one of them may get a new session.
LEMMA PrivateKept ==
  ASSUME IInv, NEW w \in Users, made' \in {made, made + 1},
         \A u \in Users : \A n \in Ids : Holds(clients', cookie', u, n) =>
           \/ Holds(clients, cookie, u, n)
           \/ n = made + 1 /\ u = w,
         \A i \in DOMAIN clients' : clients'[i].session <= made' /\ clients'[i].setCookie <= made'
  PROVE  Private'
<1>1. made \in Nat
  BY DEF IInv, TypeOK
<1>2. \A u \in Users : ~Holds(clients, cookie, u, made + 1)
  <2>1. made + 1 \in Ids /\ ~(made + 1 <= made)
    BY <1>1 DEF Ids, NoSession
  <2> QED BY <2>1, GivenBefore
<1>3. ASSUME NEW n \in Ids, NEW u \in Users, NEW v \in Users,
             Holds(clients', cookie', u, n), Holds(clients', cookie', v, n)
      PROVE  u = v
  <2>1. CASE n = made + 1
    BY <1>2, <1>3, <2>1
  <2>2. CASE n # made + 1
    <3>1. Holds(clients, cookie, u, n) /\ Holds(clients, cookie, v, n)
      BY <1>3, <2>2
    <3> QED BY <3>1 DEF IInv, Private
  <2> QED BY <2>1, <2>2
<1> QED BY <1>3 DEF Private

\* No one gets a session when every element's was some element's of its user.
LEMMA PrivateMoved ==
  ASSUME IInv, UNCHANGED <<cookie, made>>,
         \A j \in DOMAIN clients' :
           \/ \E i \in DOMAIN clients : Same(clients'[j], clients[i])
           \/ clients'[j].session = NoSession /\ clients'[j].setCookie = NoSession
  PROVE  Private'
<1>1. Private /\ made \in Nat
  BY DEF IInv, TypeOK
<1>2. \A u \in Users : \A n \in Ids : Holds(clients', cookie', u, n) => Holds(clients, cookie, u, n)
  <2> SUFFICES ASSUME NEW u \in Users, NEW n \in Ids, Holds(clients', cookie', u, n)
               PROVE  Holds(clients, cookie, u, n)
    OBVIOUS
  <2>1. CASE cookie'[u] = n
    BY <2>1 DEF Holds
  <2>2. ASSUME NEW j \in DOMAIN clients', User[clients'[j].conn] = u,
               n \in {clients'[j].session, clients'[j].setCookie}
        PROVE  Holds(clients, cookie, u, n)
    <3>1. n # NoSession
      BY DEF Ids
    <3>2. PICK i \in DOMAIN clients : Same(clients'[j], clients[i])
      BY <2>2, <3>1
    <3> QED BY <2>2, <3>2 DEF Same, Holds
  <2> QED BY <2>1, <2>2 DEF Holds
<1>3. \A j \in DOMAIN clients' : clients'[j].session <= made /\ clients'[j].setCookie <= made
  BY <1>1 DEF Private, Same, NoSession
<1>4. ASSUME NEW n \in Ids, NEW u \in Users, NEW v \in Users,
             Holds(clients', cookie', u, n), Holds(clients', cookie', v, n)
      PROVE  u = v
  BY <1>1, <1>2, <1>4 DEF Private
<1> QED BY <1>3, <1>4 DEF Private

LEMMA PrivateStep ==
  ASSUME IInv, [Next]_vars
  PROVE  Private'
<1>0. /\ Private /\ clients \in Seq(Clients) /\ made \in Nat /\ cookie \in [Users -> 0..made]
  BY DEF IInv, TypeOK
<1>1. ASSUME NEW c \in Conns, Accept(c)
      PROVE  Private'
  <2>1. /\ DOMAIN clients' = 1..(Len(clients) + 1)
        /\ \A i \in DOMAIN clients : Same(clients'[i], clients[i])
        /\ clients'[Len(clients) + 1] = NewClient(c)
    BY <1>1, AcceptMoves
  <2>2. \A j \in DOMAIN clients' : j \in DOMAIN clients \/ j = Len(clients) + 1
    BY <1>0, <2>1
  <2>3. UNCHANGED <<cookie, made>>
    BY <1>1 DEF Accept
  <2> QED BY <2>1, <2>2, <2>3, NewClientType, PrivateMoved
<1>2. CASE Sweep
  <2>1. UNCHANGED <<cookie, made>>
    BY <1>2 DEF Sweep
  <2>2. \A j \in DOMAIN clients' : \E i \in DOMAIN clients : Same(clients'[j], clients[i])
    BY <1>2, SweepMoves
  <2> QED BY <2>1, <2>2, PrivateMoved
<1>3. CASE Tick
  <2>1. UNCHANGED <<cookie, made>>
    BY <1>3 DEF Tick
  <2>2. \A j \in DOMAIN clients' : j \in DOMAIN clients /\ Same(clients'[j], clients[j])
    BY <1>3, TickElements
  <2> QED BY <2>1, <2>2, PrivateMoved
<1>4. CASE UNCHANGED <<clients, cookie, made>>
  BY <1>4, PrivateMoved DEF Same
<1>5. ASSUME NEW c \in Conns, NEW i \in DOMAIN clients, NEW loc \in Locations, HeaderComes(c, i, loc)
      PROVE  Private'
  <2> DEFINE u == User[c]
  <2>1. OneElement(c, i) /\ clients'[i].conn = c /\ u \in Users /\ clients[i].conn = c
    BY <1>5, HeaderElement, ClientListAssumption DEF OneElement
  <2>2. \/ made' = made /\ clients'[i].setCookie = clients[i].setCookie
           /\ clients'[i].session \in {clients[i].session, cookie[u]}
        \/ made' = made + 1 /\ clients'[i].setCookie = made + 1 /\ clients'[i].session = made + 1
    BY <1>5, HeaderElement
  <2>3. /\ DOMAIN clients' = DOMAIN clients
        /\ \A j \in DOMAIN clients : clients'[j].conn = clients[j].conn /\ (j # i => clients'[j] = clients[j])
    BY <2>1, OneElementTypes
  <2>4. cookie' = cookie
    BY <1>5 DEF HeaderComes
  <2> HIDE DEF u
  <2>5. ASSUME NEW v \in Users, NEW n \in Ids, Holds(clients', cookie', v, n)
        PROVE  Holds(clients, cookie, v, n) \/ (n = made + 1 /\ v = u)
    <3>1. CASE cookie'[v] = n
      BY <2>4, <3>1 DEF Holds
    <3>2. ASSUME NEW j \in DOMAIN clients', j # i, User[clients'[j].conn] = v,
                 n \in {clients'[j].session, clients'[j].setCookie}
          PROVE  Holds(clients, cookie, v, n)
      BY <2>3, <3>2 DEF Holds
    <3>3. ASSUME v = u, n \in {clients'[i].session, clients'[i].setCookie}
          PROVE  Holds(clients, cookie, v, n) \/ n = made + 1
      BY <2>1, <2>2, <3>3 DEF Holds, u
    <3> QED BY <2>1, <2>3, <2>5, <3>1, <3>2, <3>3 DEF Holds, u
  <2>6. ASSUME NEW j \in DOMAIN clients'
        PROVE  clients'[j].session <= made' /\ clients'[j].setCookie <= made'
    <3>1. clients[j].session <= made /\ clients[j].setCookie <= made /\ clients[j] \in Clients /\ cookie[u] \in 0..made
      BY <1>0, <2>1, <2>3 DEF Private
    <3> QED BY SMTT(40), <1>0, <2>2, <2>3, <3>1 DEF Clients
  <2> QED BY <2>1, <2>2, <2>5, <2>6, PrivateKept
<1>6. ASSUME NEW c \in Conns, NEW i \in DOMAIN clients,
             BodyComes(c, i) \/ \E close \in BOOLEAN : Answered(c, i, close)
      PROVE  Private'
  <2>1. /\ OneElement(c, i) /\ clients'[i].session = clients[i].session
        /\ clients'[i].setCookie \in {clients[i].setCookie, NoSession} /\ User[c] \in Users
    BY <1>6, BodyElement, AnsweredElement, ClientListAssumption
  <2>2. /\ made' = made
        /\ cookie' \in {cookie, [cookie EXCEPT ![User[c]] = clients[i].setCookie]}
    BY <1>6 DEF BodyComes, Answered
  <2>3. /\ DOMAIN clients' = DOMAIN clients /\ clients[i].conn = c
        /\ \A j \in DOMAIN clients : clients'[j].conn = clients[j].conn /\ (j # i => clients'[j] = clients[j])
    BY <2>1, OneElementTypes DEF OneElement
  <2>4. ASSUME NEW v \in Users, NEW n \in Ids, Holds(clients', cookie', v, n)
        PROVE  Holds(clients, cookie, v, n)
    <3>0. n # NoSession
      BY DEF Ids
    <3>1. CASE cookie'[v] = n
      <4>1. cookie[v] = n \/ (v = User[c] /\ n = clients[i].setCookie)
        BY <1>0, <2>1, <2>2, <3>1
      <4> QED BY <2>3, <4>1 DEF Holds
    <3>2. ASSUME NEW j \in DOMAIN clients', User[clients'[j].conn] = v,
                 n \in {clients'[j].session, clients'[j].setCookie}
          PROVE  Holds(clients, cookie, v, n)
      <4>1. n \in {clients[j].session, clients[j].setCookie}
        BY <2>1, <2>3, <3>0, <3>2
      <4> QED BY <2>3, <3>2, <4>1 DEF Holds
    <3> QED BY <2>4, <3>1, <3>2 DEF Holds
  <2>5. ASSUME NEW j \in DOMAIN clients'
        PROVE  clients'[j].session <= made /\ clients'[j].setCookie <= made
    <3>1. clients[j].session <= made /\ clients[j].setCookie <= made
      BY <1>0, <2>3 DEF Private
    <3> QED BY <1>0, <2>1, <2>3, <3>1 DEF NoSession
  <2> QED BY <2>1, <2>2, <2>4, <2>5, PrivateKept
<1> QED
  BY <1>1, <1>2, <1>3, <1>4, <1>5, <1>6 DEF Next, Callback, PeerLeaves, vars
-----------------------------------------------------------------------------
(***************************************************************************)
(* Types, the elements' own and the others'.                               *)
(***************************************************************************)
Rest ==
  /\ sock \in [Conns -> {"new", "open", "eof", "over"}]
  /\ cb \in [Conns -> Addresses] /\ cgi \in [Conns -> Addresses]
  /\ list \subseteq Sessions /\ made \in Nat
  /\ cookie \in [Users -> 0..made]
  /\ begun \in 0..MaxRequests
  /\ quiet \in [Conns -> Ages]
  /\ resolved \in [Conns -> Locations \union {NoLocation}]

Elems == clients \in Seq(Clients) /\ Len(clients) <= capacity /\ Distinct(clients) /\ capacity \in Nat

LEMMA TypeParts == TypeOK /\ capacity \in Nat <=> Elems /\ Rest
BY DEF TypeOK, Elems, Rest, Distinct

LEMMA ElemsStep ==
  ASSUME IInv, [Next]_vars
  PROVE  Elems'
<1>0. Elems
  BY TypeParts DEF IInv
<1>1. ASSUME NEW c \in Conns, Accept(c)
      PROVE  Elems'
  BY <1>1, AcceptMoves DEF Elems
<1>2. CASE Sweep
  <2>1. capacity' = capacity
    BY <1>2 DEF Sweep
  <2> QED BY <1>0, <1>2, <2>1, SweepMoves DEF Elems
<1>3. CASE Tick
  <2>1. capacity' = capacity
    BY <1>3 DEF Tick
  <2> QED BY <1>0, <1>3, <2>1, TickElements DEF Elems
<1>4. CASE UNCHANGED <<clients, capacity>>
  BY <1>0, <1>4 DEF Elems, Distinct
<1>5. ASSUME NEW c \in Conns, NEW i \in DOMAIN clients, Callback(c, i)
      PROVE  Elems'
  <2>1. OneElement(c, i)
    BY <1>5, HeaderElement, BodyElement, AnsweredElement DEF Callback
  <2>2. capacity' = capacity
    BY <2>1 DEF OneElement
  <2> QED BY <1>0, <2>1, <2>2, OneElementTypes DEF Elems
<1>6. CASE UNCHANGED vars \/ \E c \in Conns : PeerLeaves(c)
  BY <1>4, <1>6 DEF PeerLeaves, vars
<1> QED
  BY <1>1, <1>2, <1>3, <1>5, <1>6 DEF Next

LEMMA RestStep ==
  ASSUME IInv, [Next]_vars
  PROVE  Rest'
<1>0. Rest /\ Elems /\ 0 \in Ages /\ Nowhere \in Addresses /\ MaxRequests \in Nat
  BY TypeParts, TimeoutAssumption, ClientListAssumption DEF IInv, Ages, Addresses
<1>e. Elems'
  BY ElemsStep
<1>1. ASSUME NEW c \in Conns, Accept(c)
      PROVE  Rest'
  <2>1. /\ cb' = Registered(cb, clients', capacity') /\ cgi' = Repointed(cgi, clients', capacity')
        /\ sock' = [sock EXCEPT ![c] = "open"]
        /\ UNCHANGED <<list, made, cookie, begun, quiet, resolved>>
    BY <1>1 DEF Accept
  <2>2. cb' \in [Conns -> Addresses] /\ cgi' \in [Conns -> Addresses]
    BY <1>0, <1>e, <2>1, RegisteredAt, RepointedAt DEF Elems, Rest
  <2> QED BY <1>0, <2>1, <2>2 DEF Rest
<1>2. CASE Sweep
  <2> DEFINE gone == {clients[i].conn : i \in {j \in DOMAIN clients : Dead(clients[j])}}
             left  == [c \in Conns |-> IF c \in gone THEN Nowhere ELSE cb[c]]
             leftS == [c \in Conns |-> IF c \in gone THEN Nowhere ELSE cgi[c]]
  <2>1. /\ cb' = Registered(left, clients', capacity) /\ cgi' = Repointed(leftS, clients', capacity)
        /\ sock' = [c \in Conns |-> IF c \in gone THEN "over" ELSE sock[c]]
        /\ list' = WithoutExpired(list)
        /\ quiet' = [c \in Conns |-> IF c \in gone THEN 0 ELSE quiet[c]]
        /\ resolved' = [c \in Conns |-> IF c \in gone THEN NoLocation ELSE resolved[c]]
        /\ UNCHANGED <<capacity, made, cookie, begun>>
    BY <1>2 DEF Sweep
  <2>2. left \in [Conns -> Addresses] /\ leftS \in [Conns -> Addresses]
    BY <1>0 DEF Rest
  <2> HIDE DEF gone, left, leftS
  <2>3. cb' \in [Conns -> Addresses] /\ cgi' \in [Conns -> Addresses]
    BY <1>e, <2>1, <2>2, RegisteredAt, RepointedAt DEF Elems
  <2>4. list' \subseteq Sessions
    BY <1>0, <2>1 DEF Rest, WithoutExpired
  <2> QED BY <1>0, <2>1, <2>3, <2>4 DEF Rest
<1>3. CASE Tick
  <2>1. /\ list' = {[s EXCEPT !.age = Older(@)] : s \in list}
        /\ quiet' = [c \in Conns |-> IF c \in Listed THEN Older(quiet[c]) ELSE 0]
        /\ UNCHANGED <<sock, cb, cgi, made, cookie, begun, resolved>>
    BY <1>3 DEF Tick
  <2>2. ASSUME NEW s \in list PROVE [s EXCEPT !.age = Older(@)] \in Sessions
    <3>1. s \in Sessions
      BY <1>0 DEF Rest
    <3>2. Older(s.age) \in Ages
      BY <3>1, OlderType DEF Sessions
    <3> QED BY <3>1, <3>2 DEF Sessions
  <2>3. quiet' \in [Conns -> Ages]
    BY <1>0, <2>1, OlderType DEF Rest
  <2> QED BY <1>0, <2>1, <2>2, <2>3 DEF Rest
<1>4. ASSUME NEW c \in Conns, PeerLeaves(c)
      PROVE  Rest'
  BY <1>0, <1>4 DEF PeerLeaves, Rest
<1>5. ASSUME NEW c \in Conns, NEW i \in DOMAIN clients, NEW loc \in Locations, HeaderComes(c, i, loc)
      PROVE  Rest'
  <2>1. /\ list' \in {list, Created(list, made + 1)}
        /\ begun < MaxRequests /\ begun' = begun + 1
        /\ quiet' = [quiet EXCEPT ![c] = 0] /\ resolved' = [resolved EXCEPT ![c] = loc]
        /\ UNCHANGED <<sock, cb, cgi, cookie>>
    BY <1>5 DEF HeaderComes
  <2>2. made' \in {made, made + 1}
    BY <1>5, HeaderElement
  <2>3. made' \in Nat /\ \A u \in Users : cookie[u] \in 0..made'
    BY <1>0, <2>2 DEF Rest
  <2>4. list' \subseteq Sessions
    BY <1>0, <2>1 DEF Rest, Created, Sessions, Ids, NoSession
  <2>5. begun' \in 0..MaxRequests
    BY <1>0, <2>1 DEF Rest
  <2> QED BY <1>0, <2>1, <2>3, <2>4, <2>5 DEF Rest
<1>6. ASSUME NEW c \in Conns, NEW i \in DOMAIN clients, BodyComes(c, i)
      PROVE  Rest'
  <2>1. /\ cgi' = [cgi EXCEPT ![c] = At(capacity, i)] /\ quiet' = [quiet EXCEPT ![c] = 0]
        /\ UNCHANGED <<sock, cb, list, made, cookie, begun, resolved>>
    BY <1>6 DEF BodyComes
  <2>2. At(capacity, i) \in Addresses
    <3>1. capacity \in Nat /\ i \in 1..capacity
      BY <1>0 DEF Elems
    <3> QED BY <3>1, AtAddress
  <2> QED BY <1>0, <2>1, <2>2 DEF Rest
<1>7. ASSUME NEW c \in Conns, NEW i \in DOMAIN clients, NEW close \in BOOLEAN, Answered(c, i, close)
      PROVE  Rest'
  <2>1. /\ cgi' = [cgi EXCEPT ![c] = Nowhere] /\ quiet' = [quiet EXCEPT ![c] = 0]
        /\ resolved' = [resolved EXCEPT ![c] = NoLocation]
        /\ sock' \in {sock, [sock EXCEPT ![c] = "over"]}
        /\ cookie' \in {cookie, [cookie EXCEPT ![User[c]] = clients[i].setCookie]}
        /\ UNCHANGED <<cb, list, made, begun>>
    BY <1>7 DEF Answered
  <2>2. clients[i].setCookie \in 0..made
    <3>1. clients[i].setCookie \in Nat
      BY Elements DEF Clients
    <3>2. clients[i].setCookie <= made
      BY DEF IInv, Private
    <3> QED BY <1>0, <3>1, <3>2 DEF Rest
  <2> QED BY <1>0, <2>1, <2>2 DEF Rest
<1>8. CASE UNCHANGED vars
  BY <1>0, <1>8 DEF Rest, vars
<1> QED
  BY <1>1, <1>2, <1>3, <1>4, <1>5, <1>6, <1>7, <1>8 DEF Next, Callback
-----------------------------------------------------------------------------
LEMMA InitInvariant == Init => IInv
<1> SUFFICES ASSUME Init PROVE IInv
  OBVIOUS
<1>1. /\ clients = <<>> /\ capacity = 0 /\ DOMAIN clients = {} /\ clients \in Seq(Clients) /\ Len(clients) = 0
  BY DEF Init
<1>2. Elems
  BY <1>1 DEF Elems, Distinct
<1>3. Rest
  BY TimeoutAssumption, ClientListAssumption DEF Init, Rest, Addresses, Ages, NoSession
<1>4. Bound
  BY <1>1 DEF Init, Bound, CallbacksBound
<1>5. Private
  BY <1>1 DEF Init, Private, Holds, Ids
<1> QED BY <1>2, <1>3, <1>4, <1>5, TypeParts DEF IInv

LEMMA StepInvariant == IInv /\ [Next]_vars => IInv'
<1> SUFFICES ASSUME IInv, [Next]_vars PROVE IInv'
  OBVIOUS
<1>1. (TypeOK /\ capacity \in Nat <=> Elems /\ Rest)'
  BY DEF TypeOK, Elems, Rest, Distinct
<1>2. Elems' /\ Rest' /\ Bound' /\ Private'
  BY ElemsStep, RestStep, BoundStep, PrivateStep
<1> QED BY <1>1, <1>2 DEF IInv

LEMMA Invariant == Spec => []IInv
BY InitInvariant, StepInvariant, PTL DEF Spec
-----------------------------------------------------------------------------
(***************************************************************************)
(* However often the vector of clients grows and is swept, every socket's  *)
(* callbacks are bound to the element that has it, and every script reads  *)
(* the request of its own (operator= of Client, client.cpp:33).            *)
(***************************************************************************)
THEOREM CallbacksFollow == Spec => []CallbacksBound
<1>1. IInv => CallbacksBound
  BY DEF IInv, Bound
<1> QED BY <1>1, Invariant, PTL

(***************************************************************************)
(* No two users share a session (_handleSession, client_session.cpp:6),    *)
(* for any number of them, of their connections and of their requests,     *)
(* also when sessions expire and cookies arrive late.                      *)
(***************************************************************************)
THEOREM SessionsNeverShared == Spec => []SessionsPrivate
<1>1. ASSUME IInv PROVE SessionsPrivate
  <2> SUFFICES ASSUME NEW i \in DOMAIN clients, NEW j \in DOMAIN clients,
                      clients[i].session = clients[j].session, clients[i].session # NoSession
               PROVE  User[clients[i].conn] = User[clients[j].conn]
    BY DEF SessionsPrivate
  <2> DEFINE n == clients[i].session
             u == User[clients[i].conn]
             v == User[clients[j].conn]
  <2>1. n \in Ids /\ u \in Users /\ v \in Users
    BY <1>1, Elements, ClientListAssumption DEF Clients, Ids
  <2>2. Holds(clients, cookie, u, n) /\ Holds(clients, cookie, v, n)
    BY DEF Holds
  <2> QED BY <1>1, <2>1, <2>2 DEF IInv, Private
<1> QED BY <1>1, Invariant, PTL

\* Every element has a connection of its own, and the memory has room for it.
THEOREM Typing == Spec => []TypeOK
<1>1. IInv => TypeOK
  BY DEF IInv
<1> QED BY <1>1, Invariant, PTL
=============================================================================
