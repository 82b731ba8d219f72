--------------------------- MODULE RoutingProofs ---------------------------
(***************************************************************************)
(* Theorems of Routing, for every value of its constants: what the server  *)
(* makes of any text, and of any request under it.                         *)
(***************************************************************************)
EXTENDS Routing, OrderProofs, SequenceTheorems

(***************************************************************************)
(* How far the text is read.  Before position n, all blocks are closed but *)
(* those that the reader is in: level many.                                *)
(***************************************************************************)
Openings(q, n) == Cardinality({k \in (q + 1)..(n - 1) : Opens(k)})
Closings(q, n) == Cardinality({k \in (q + 1)..(n - 1) : Closes(k)})

Depth(q)   == IF text[q].word = "server" THEN 1 ELSE 2
LevelOf(b) == CASE b = "server" -> 1 [] b = "location" -> 2 [] OTHER -> 0

Nested(n, level) ==
  \A q \in 1..(n - 1) : Opens(q) => Openings(q, n) + Depth(q) = Closings(q, n) + level

\* p is the last position before n with this word.
LastOf(word, p, n) ==
  /\ p \in 1..(n - 1) /\ text[p].word = word
  /\ \A q \in (p + 1)..(n - 1) : text[q].word # word

(***************************************************************************)
(* What the records hold of the directives of their block before n.        *)
(***************************************************************************)
Before(b, word, n) == {p \in Says(b, word) : p < n}

AllowedBy(S)   == IF S = {} THEN Default({}) ELSE Given(text[Max(S)].methods)
LimitBy(S)     == IF S = {} THEN Default(DefaultBodySize) ELSE Given(text[Max(S)].size)
AutoindexBy(S) == IF S = {} THEN Default(FALSE) ELSE Given(text[Max(S)].on)

SettingsOf(b, n) ==
  [allowed   |-> AllowedBy(Before(b, "allowed_methods", n)),
   bodySize  |-> LimitBy(Before(b, "client_max_body_size", n)),
   autoindex |-> AutoindexBy(Before(b, "autoindex", n))]

Script(p)   == [exts |-> text[p].exts, allowed |-> text[p].methods]
Page(p)     == [codes |-> text[p].codes, page |-> text[p].page]
Scripts(S)  == [k \in 1..Cardinality(S) |-> Script(InOrder(S)[k])]
Pages(S)    == [k \in 1..Cardinality(S) |-> Page(InOrder(S)[k])]

Files(S)    == UNION {ToSet(text[p].files) : p \in S}
NamesIn(S)  == UNION {ToSet(text[p].names) : p \in S}
PortsIn(S)  == {text[p].port : p \in S}

LocationFields == {"line", "settings", "ref", "root", "index", "redirect", "cgis"}

LocationRead(l, n) ==
  /\ DOMAIN l = LocationFields
  /\ l.settings = SettingsOf(l.line, n)
  /\ l.ref = text[l.line].ref
  /\ l.redirect \in BOOLEAN
  /\ l.redirect <=> Before(l.line, "redirect", n) # {}
  /\ l.index \in Seq(ToSet(l.index))
  /\ ToSet(l.index) = Files(Before(l.line, "index", n))
  /\ l.cgis = Scripts(Before(l.line, "cgi", n))

LinesOf(ls) == {ls[j].line : j \in DOMAIN ls}

ServerFields == {"line", "settings", "ports", "names", "locations", "errorPages", "cgis"}

\* Its locations are those that begin before m.
ServerRead(s, n, m) ==
  /\ DOMAIN s = ServerFields
  /\ s.settings = SettingsOf(s.line, n)
  /\ s.errorPages = Pages(Before(s.line, "error_page", n))
  /\ s.cgis = Scripts(Before(s.line, "cgi", n))
  /\ s.names \in Seq(ToSet(s.names))
  /\ ToSet(s.names) = NamesIn(Before(s.line, "server_name", n))
  /\ s.locations \in Seq(ToSet(s.locations))
  /\ LinesOf(s.locations) = Before(s.line, "location", m)
  /\ \A j \in DOMAIN s.locations : LocationRead(s.locations[j], n)

PortsRead(s, n) ==
  /\ s.ports \in Seq(ToSet(s.ports))
  /\ ToSet(s.ports) = PortsIn(Before(s.line, "listen", n))

Sorted(ls)  == \A i, j \in DOMAIN ls : i < j => Len(ls[i].ref) >= Len(ls[j].ref)
PortsOr(S)  == IF S = {} THEN {DefaultPort} ELSE PortsIn(S)

\* The servers that are closed are those that begin before m.
ServersRead(ss, n, m) ==
  /\ ss \in Seq(ToSet(ss))
  /\ Len(ss) = Cardinality(Before(0, "server", m))
  /\ \A i \in DOMAIN ss :
       /\ ss[i].line = InOrder(Before(0, "server", m))[i]
       /\ ServerRead(ss[i], n, n)
       /\ ToSet(ss[i].ports) = PortsOr(Before(ss[i].line, "listen", n))
       /\ Sorted(ss[i].locations)

ReadAt(b, n, mn, ss, s, l) ==
  /\ b \in {"main", "server", "location"} /\ n \in 1..(Len(text) + 1)
  /\ Nested(n, LevelOf(b))
  /\ mn = SettingsOf(0, n)
  /\ b = "main" => ServersRead(ss, n, n)
  /\ b \in {"server", "location"} =>
       LastOf("server", s.line, n) /\ s.line \in Before(0, "server", n)
       /\ ServersRead(ss, n, s.line) /\ PortsRead(s, n)
  /\ b = "server" => ServerRead(s, n, n)
  /\ b = "location" =>
       LastOf("location", l.line, n) /\ ServerRead(s, n, l.line)
       /\ LocationRead(l, n) /\ l.line \in Before(s.line, "location", n)
-----------------------------------------------------------------------------
(***************************************************************************)
(* Least and greatest numbers, and a set of numbers in order.              *)
(***************************************************************************)
LEMMA LeastMember ==
  ASSUME NEW S, S \subseteq Nat
  PROVE  /\ S = {} => Least(S) = 0
         /\ S # {} => Least(S) \in S /\ \A x \in S : Least(S) <= x
<1>1. CASE S = {}
  BY <1>1 DEF Least
<1>2. CASE S # {}
  <2>1. \E x \in S : \A y \in S : x <= y
    BY <1>2, LeastExists
  <2> QED BY <1>2, <2>1 DEF Least
<1> QED BY <1>1, <1>2

\* Only one number is least.
LEMMA LeastIs ==
  ASSUME NEW S, S \subseteq Nat, NEW m \in S, \A x \in S : m <= x
  PROVE  Least(S) = m
<1>1. Least(S) \in S /\ Least(S) <= m
  BY LeastMember
<1>2. m <= Least(S) /\ m \in Nat /\ Least(S) \in Nat
  BY <1>1
<1> QED BY <1>1, <1>2

LEMMA MaxOfMore ==
  ASSUME NEW S, S \subseteq Nat, NEW m \in Nat, \A x \in S : x < m
  PROVE  Max(S \union {m}) = m
<1> DEFINE T == S \union {m}
<1>1. m \in T /\ \A x \in T : m >= x
  OBVIOUS
<1>2. \A x \in T : (\A y \in T : x >= y) => x = m
  <2> SUFFICES ASSUME NEW x \in T, \A y \in T : x >= y PROVE x = m
    OBVIOUS
  <2>1. x >= m /\ m >= x /\ x \in Nat
    BY <1>1
  <2> QED BY <2>1
<1>3. (CHOOSE x \in T : \A y \in T : x >= y) = m
  <2> HIDE DEF T
  <2> QED BY <1>1, <1>2
<1> QED BY <1>3 DEF Max

\* A set of positions before n, which is finite.
LEMMA FiniteBefore ==
  ASSUME NEW n \in Nat, NEW S, S \subseteq 1..n
  PROVE  /\ IsFiniteSet(S) /\ \A x \in S : x \in Nat
         /\ Cardinality(S) \in Nat
<1>1. IsFiniteSet(1..n)
  BY FS_Interval
<1>2. IsFiniteSet(S)
  BY <1>1, FS_Subset
<1> QED BY <1>2, FS_CardinalityType

\* A new greatest number comes last.
LEMMA InOrderMore ==
  ASSUME NEW S, \A x \in S : x \in Nat, IsFiniteSet(S), NEW m \in Nat, \A x \in S : x < m
  PROVE  /\ Cardinality(S \union {m}) = Cardinality(S) + 1
         /\ \A k \in 1..Cardinality(S) : InOrder(S \union {m})[k] = InOrder(S)[k]
         /\ InOrder(S \union {m})[Cardinality(S) + 1] = m
<1> DEFINE T == S \union {m}
           n == Cardinality(S)
<1>1. m \notin S
  OBVIOUS
<1>2. n \in Nat /\ Cardinality(T) = n + 1 /\ IsFiniteSet(T)
  BY <1>1, FS_AddElement, FS_CardinalityType
<1>3. \A x \in S : Lower(T, x) = Lower(S, x)
  BY DEF Lower
<1>4. Lower(T, m) = S
  BY DEF Lower
<1>5. \A k \in 0..(n - 1) : Nth(T, k) = Nth(S, k)
  <2> TAKE k \in 0..(n - 1)
  <2>1. k # n
    BY <1>2
  <2> QED BY <1>3, <1>4, <2>1 DEF Nth
<1>6. Nth(T, n) = {m}
  <2>1. ASSUME NEW x \in S PROVE Cardinality(Lower(S, x)) # n
    BY <1>2, LowerFinite
  <2> QED BY <1>3, <1>4, <2>1 DEF Nth
<1>7. \A k \in 1..n : InOrder(T)[k] = InOrder(S)[k]
  <2> TAKE k \in 1..n
  <2>1. k - 1 \in 0..(n - 1) /\ k \in 1..(n + 1)
    BY <1>2
  <2>2. Nth(T, k - 1) = Nth(S, k - 1)
    BY <1>5, <2>1
  <2>3. InOrder(T)[k] = CHOOSE x \in Nth(T, k - 1) : TRUE
    BY <1>2, <2>1 DEF InOrder
  <2>4. InOrder(S)[k] = CHOOSE x \in Nth(S, k - 1) : TRUE
    BY DEF InOrder
  <2> QED BY <2>2, <2>3, <2>4
<1>8. InOrder(T)[n + 1] = m
  <2>1. n + 1 \in 1..(n + 1) /\ (n + 1) - 1 = n
    BY <1>2
  <2>2. InOrder(T)[n + 1] = CHOOSE x \in Nth(T, n) : TRUE
    BY <1>2, <2>1 DEF InOrder
  <2> QED BY <1>6, <2>2
<1> QED BY <1>2, <1>7, <1>8

\* The first place of a number out of Q holds the least one.
LEMMA FirstInOrder ==
  ASSUME NEW S, \A x \in S : x \in Nat, IsFiniteSet(S), NEW Q, Q \subseteq S
  PROVE  LET K == {k \in 1..Cardinality(S) : InOrder(S)[k] \in Q}
         IN  /\ K = {} <=> Q = {}
             /\ K # {} => Least(K) \in K /\ InOrder(S)[Least(K)] = Least(Q)
<1> DEFINE K == {k \in 1..Cardinality(S) : InOrder(S)[k] \in Q}
           s == InOrder(S)
<1>1. /\ Cardinality(S) \in Nat /\ DOMAIN s = 1..Cardinality(S)
      /\ s \in Seq(S)
      /\ \A i, j \in DOMAIN s : i < j => s[i] < s[j]
      /\ \A x \in S : \E i \in DOMAIN s : s[i] = x
  BY InOrderLists
<1>2. K = {} <=> Q = {}
  BY <1>1
<1>3. ASSUME K # {} PROVE Least(K) \in K /\ s[Least(K)] = Least(Q)
  <2> DEFINE k == Least(K)
  <2>1. K \subseteq Nat
    BY <1>1
  <2>2. k \in K /\ \A j \in K : k <= j
    <3> HIDE DEF K
    <3> QED BY <1>3, <2>1, LeastMember
  <2>3. s[k] \in Q /\ k \in 1..Cardinality(S)
    BY <2>2
  <2>4. ASSUME NEW x \in Q PROVE s[k] <= x
    <3>1. PICK j \in DOMAIN s : s[j] = x
      BY <1>1
    <3>2. j \in K
      BY <1>1, <3>1
    <3>3. k <= j /\ k \in DOMAIN s /\ k \in Nat /\ j \in Nat
      BY <1>1, <2>2, <2>3, <3>2
    <3>4. k = j \/ k < j
      BY <3>3
    <3>5. s[k] \in Nat /\ s[j] \in Nat /\ (k < j => s[k] < s[j])
      BY <1>1, <2>3, <3>1, <3>3
    <3> QED BY <3>1, <3>4, <3>5
  <2>5. Q \subseteq Nat
    OBVIOUS
  <2>6. Least(Q) = s[k]
    <3> HIDE DEF k, s
    <3> QED BY <2>3, <2>4, <2>5, LeastIs
  <2> QED BY <2>2, <2>6
<1> QED BY <1>2, <1>3

\* The same for the greatest of some positions.
LEMMA MaxIs ==
  ASSUME NEW S, S \subseteq Nat, NEW m \in S, \A x \in S : x <= m
  PROVE  Max(S) = m
<1>1. \A x \in S : (\A y \in S : x >= y) => x = m
  <2> SUFFICES ASSUME NEW x \in S, \A y \in S : x >= y PROVE x = m
    OBVIOUS
  <2>1. x >= m /\ x <= m /\ x \in Nat /\ m \in Nat
    OBVIOUS
  <2> QED BY <2>1
<1>2. \A y \in S : m >= y
  OBVIOUS
<1> QED BY <1>1, <1>2 DEF Max

LEMMA MaxMember ==
  ASSUME NEW n \in Nat, NEW S, S \subseteq 1..n, S # {}
  PROVE  Max(S) \in S /\ \A x \in S : x <= Max(S)
<1> DEFINE T == {n - x : x \in S}
<1>1. T \subseteq Nat /\ T # {}
  OBVIOUS
<1>2. PICK t \in T : \A y \in T : t <= y
  <2> HIDE DEF T
  <2> QED BY <1>1, LeastExists
<1>3. PICK m \in S : t = n - m
  BY <1>2
<1>4. \A x \in S : x <= m
  <2> TAKE x \in S
  <2>1. n - m <= n - x
    BY <1>2, <1>3
  <2> QED BY <2>1
<1>5. S \subseteq Nat
  OBVIOUS
<1>6. Max(S) = m
  BY <1>4, <1>5, MaxIs
<1> QED BY <1>4, <1>6
-----------------------------------------------------------------------------
(***************************************************************************)
(* The blocks of a text.                                                   *)
(***************************************************************************)
LEMMA TextType ==
  ASSUME text \in Texts
  PROVE  /\ Len(text) \in Nat /\ DOMAIN text = 1..Len(text)
         /\ \A p \in DOMAIN text :
              /\ text[p].word = "client_max_body_size" => text[p].size \in Nat
              /\ text[p].word = "autoindex" => text[p].on \in BOOLEAN
              /\ text[p].word = "server_name" => text[p].names \in Seq(ToSet(text[p].names))
              /\ text[p].word = "index" => text[p].files \in Seq(ToSet(text[p].files))
              /\ text[p].word = "location" => text[p].ref \in Seq(ToSet(text[p].ref))
<1>1. text \in Seq(ToSet(text))
  BY ConfigurationAssumption
<1>2. \A p \in DOMAIN text : text[p] \in ToSet(text)
  BY DEF ToSet
<1>3. Len(text) \in Nat /\ DOMAIN text = 1..Len(text)
  BY <1>1, LenProperties
<1> QED BY <1>2, <1>3, ConfigurationAssumption

LEMMA AroundIs ==
  ASSUME NEW p \in Nat
  PROVE  LET outer == {q \in 1..(p - 1) : Opens(q) /\ Openings(q, p) = Closings(q, p)}
         IN  Around(p) = IF outer = {} THEN 0 ELSE Max(outer)
BY DEF Around, Openings, Closings

\* A block begins before what it is around.
LEMMA AroundBefore ==
  ASSUME NEW p \in Nat, p >= 1
  PROVE  Around(p) \in Nat /\ Around(p) < p
<1> DEFINE outer == {q \in 1..(p - 1) : Opens(q) /\ Openings(q, p) = Closings(q, p)}
<1>0. Around(p) = IF outer = {} THEN 0 ELSE Max(outer)
  BY AroundIs
<1>1. CASE outer = {}
  BY <1>0, <1>1
<1>2. CASE outer # {}
  <2>1. outer \subseteq 1..(p - 1) /\ p - 1 \in Nat
    OBVIOUS
  <2>2. Max(outer) \in outer
    <3> HIDE DEF outer
    <3> QED BY <1>2, <2>1, MaxMember
  <2>3. Around(p) \in 1..(p - 1)
    <3> HIDE DEF outer
    <3> QED BY <1>0, <1>2, <2>1, <2>2
  <2> QED BY <2>3
<1> QED BY <1>1, <1>2

LEMMA CountTypes ==
  ASSUME NEW q \in Nat, NEW n \in Nat
  PROVE  Openings(q, n) \in Nat /\ Closings(q, n) \in Nat
<1>1. IsFiniteSet((q + 1)..(n - 1))
  BY FS_Interval
<1>2. IsFiniteSet({k \in (q + 1)..(n - 1) : Opens(k)}) /\ IsFiniteSet({k \in (q + 1)..(n - 1) : Closes(k)})
  BY <1>1, FS_Subset
<1> QED BY <1>2, FS_CardinalityType DEF Openings, Closings

LEMMA CountMore ==
  ASSUME NEW q \in Nat, NEW n \in Nat, q < n
  PROVE  /\ Openings(q, n + 1) = Openings(q, n) + (IF Opens(n) THEN 1 ELSE 0)
         /\ Closings(q, n + 1) = Closings(q, n) + (IF Closes(n) THEN 1 ELSE 0)
<1> DEFINE A == {k \in (q + 1)..(n - 1) : Opens(k)}
           B == {k \in (q + 1)..(n - 1) : Closes(k)}
<1>1. IsFiniteSet((q + 1)..(n - 1))
  BY FS_Interval
<1>2. IsFiniteSet(A) /\ IsFiniteSet(B)
  BY <1>1, FS_Subset
<1>3. n \notin A /\ n \notin B
  OBVIOUS
<1>4. (q + 1)..((n + 1) - 1) = ((q + 1)..(n - 1)) \union {n}
  OBVIOUS
<1>5. {k \in (q + 1)..((n + 1) - 1) : Opens(k)} = IF Opens(n) THEN A \union {n} ELSE A
  BY <1>4
<1>6. {k \in (q + 1)..((n + 1) - 1) : Closes(k)} = IF Closes(n) THEN B \union {n} ELSE B
  BY <1>4
<1>7. Cardinality(A) \in Nat /\ Cardinality(B) \in Nat
  BY <1>2, FS_CardinalityType
<1>8. Cardinality(A \union {n}) = Cardinality(A) + 1 /\ Cardinality(B \union {n}) = Cardinality(B) + 1
  <2> HIDE DEF A, B
  <2> QED BY <1>2, <1>3, FS_AddElement
<1> HIDE DEF A, B
<1>9. Openings(q, n) = Cardinality(A) /\ Closings(q, n) = Cardinality(B)
  BY DEF Openings, Closings, A, B
<1>10. Openings(q, n + 1) = Cardinality(IF Opens(n) THEN A \union {n} ELSE A)
  BY <1>5 DEF Openings
<1>11. Closings(q, n + 1) = Cardinality(IF Closes(n) THEN B \union {n} ELSE B)
  BY <1>6 DEF Closings
<1> QED BY <1>7, <1>8, <1>9, <1>10, <1>11

LEMMA CountNone ==
  ASSUME NEW n \in Nat
  PROVE  Openings(n, n + 1) = 0 /\ Closings(n, n + 1) = 0
<1>1. (n + 1)..((n + 1) - 1) = {}
  OBVIOUS
<1>2. Cardinality({}) = 0
  BY FS_EmptySet
<1> QED BY <1>1, <1>2 DEF Openings, Closings

\* The reader goes on by a directive, into a block or out of it.
LEMMA NestedMore ==
  ASSUME NEW n \in Nat, n >= 1, NEW level \in Nat, Nested(n, level)
  PROVE  /\ ~Opens(n) /\ ~Closes(n) => Nested(n + 1, level)
         /\ Opens(n) /\ Depth(n) = level + 1 => Nested(n + 1, level + 1)
         /\ Closes(n) /\ level >= 1 => Nested(n + 1, level - 1)
<1>1. ~(Opens(n) /\ Closes(n))
  BY DEF Opens, Closes
<1>2. \A q \in 1..(n - 1) :
        /\ Openings(q, n) \in Nat /\ Closings(q, n) \in Nat /\ Depth(q) \in Nat
        /\ Openings(q, n + 1) = Openings(q, n) + (IF Opens(n) THEN 1 ELSE 0)
        /\ Closings(q, n + 1) = Closings(q, n) + (IF Closes(n) THEN 1 ELSE 0)
  <2> TAKE q \in 1..(n - 1)
  <2>1. q \in Nat /\ q < n
    OBVIOUS
  <2> QED BY <2>1, CountMore, CountTypes DEF Depth
<1>3. 1..((n + 1) - 1) = (1..(n - 1)) \union {n}
  OBVIOUS
<1>4. Openings(n, n + 1) = 0 /\ Closings(n, n + 1) = 0 /\ Depth(n) \in Nat
  BY CountNone DEF Depth
<1>5. \A q \in 1..(n - 1) : Opens(q) => Openings(q, n) + Depth(q) = Closings(q, n) + level
  BY DEF Nested
<1>6. CASE ~Opens(n) /\ ~Closes(n)
  BY <1>2, <1>3, <1>5, <1>6 DEF Nested
<1>7. CASE Opens(n) /\ Depth(n) = level + 1
  BY <1>1, <1>2, <1>3, <1>4, <1>5, <1>7 DEF Nested
<1>8. CASE Closes(n) /\ level >= 1
  BY <1>1, <1>2, <1>3, <1>5, <1>8 DEF Nested
<1> QED BY <1>1, <1>6, <1>7, <1>8

LEMMA AroundHere ==
  ASSUME NEW n \in Nat, n >= 1, NEW p
  PROVE  /\ Nested(n, 0) => Around(n) = 0
         /\ Nested(n, 1) /\ LastOf("server", p, n) => Around(n) = p
         /\ Nested(n, 2) /\ LastOf("location", p, n) => Around(n) = p
<1> DEFINE outer == {q \in 1..(n - 1) : Opens(q) /\ Openings(q, n) = Closings(q, n)}
<1>1. Around(n) = IF outer = {} THEN 0 ELSE Max(outer)
  BY AroundIs
<1>2. ASSUME NEW level \in Nat, Nested(n, level)
      PROVE  outer = {q \in 1..(n - 1) : Opens(q) /\ Depth(q) = level}
  <2>1. ASSUME NEW q \in 1..(n - 1), Opens(q)
        PROVE  Openings(q, n) = Closings(q, n) <=> Depth(q) = level
    <3>0. q \in Nat
      OBVIOUS
    <3>1. Openings(q, n) \in Nat /\ Closings(q, n) \in Nat /\ Depth(q) \in Nat
      BY <3>0, CountTypes DEF Depth
    <3>2. Openings(q, n) + Depth(q) = Closings(q, n) + level
      BY <1>2, <2>1 DEF Nested
    <3> QED BY <3>1, <3>2
  <2> QED BY <2>1
<1>3. ASSUME Nested(n, 0) PROVE Around(n) = 0
  <2>1. outer = {}
    BY <1>2, <1>3 DEF Depth
  <2> QED BY <1>1, <2>1, <1>3
<1>4. ASSUME NEW level \in {1, 2}, Nested(n, level),
             LastOf(IF level = 1 THEN "server" ELSE "location", p, n)
      PROVE  Around(n) = p
  <2>1. outer = {q \in 1..(n - 1) : Opens(q) /\ Depth(q) = level}
    BY <1>2, <1>4
  <2>2. p \in outer
    <3>1. p \in 1..(n - 1) /\ text[p].word = IF level = 1 THEN "server" ELSE "location"
      BY <1>4 DEF LastOf
    <3>2. Opens(p) /\ Depth(p) = level
      BY <3>1 DEF Opens, Depth
    <3> QED BY <2>1, <3>1, <3>2
  <2>3. \A q \in outer : q <= p
    <3> SUFFICES ASSUME NEW q \in outer PROVE q <= p
      OBVIOUS
    <3>1. q \in 1..(n - 1) /\ Opens(q) /\ Depth(q) = level
      BY <2>1
    <3>2. text[q].word = IF level = 1 THEN "server" ELSE "location"
      BY <3>1 DEF Opens, Depth
    <3>3. p \in 1..(n - 1) /\ q \notin (p + 1)..(n - 1)
      BY <1>4, <3>2 DEF LastOf
    <3> QED BY <3>1, <3>3
  <2>4. outer \subseteq Nat
    OBVIOUS
  <2>5. Max(outer) = p
    <3> HIDE DEF outer
    <3> QED BY <2>2, <2>3, <2>4, MaxIs
  <2> QED BY <1>1, <2>2, <2>5
<1>5. Nested(n, 1) /\ LastOf("server", p, n) => Around(n) = p
  BY <1>4
<1>6. Nested(n, 2) /\ LastOf("location", p, n) => Around(n) = p
  BY <1>4
<1> QED BY <1>3, <1>5, <1>6

LEMMA LastMore ==
  ASSUME NEW n \in Nat, n >= 1, NEW word, NEW p
  PROVE  /\ LastOf(word, p, n) /\ text[n].word # word => LastOf(word, p, n + 1)
         /\ text[n].word = word => LastOf(word, n, n + 1)
BY DEF LastOf

\* The directives before n, and one more.
LEMMA BeforeType ==
  ASSUME text \in Texts, NEW n \in Nat, n >= 1, NEW b, NEW word
  PROVE  /\ Before(b, word, n) \subseteq 1..(n - 1)
         /\ IsFiniteSet(Before(b, word, n)) /\ \A p \in Before(b, word, n) : p \in Nat /\ p < n
         /\ Before(b, word, n) \subseteq Nat /\ Cardinality(Before(b, word, n)) \in Nat
         /\ Before(b, word, n) = {p \in DOMAIN text : text[p].word = word /\ Around(p) = b /\ p < n}
<1>1. Before(b, word, n) = {p \in DOMAIN text : text[p].word = word /\ Around(p) = b /\ p < n}
  BY DEF Before, Says
<1>2. Before(b, word, n) \subseteq 1..(n - 1)
  BY <1>1, TextType
<1>3. n - 1 \in Nat
  OBVIOUS
<1>4. IsFiniteSet(Before(b, word, n)) /\ Cardinality(Before(b, word, n)) \in Nat
  BY <1>2, <1>3, FiniteBefore
<1>5. \A p \in 1..(n - 1) : p \in Nat /\ p < n
  OBVIOUS
<1> QED BY <1>1, <1>2, <1>4, <1>5

LEMMA BeforeMore ==
  ASSUME text \in Texts, NEW n \in DOMAIN text, NEW b, NEW word
  PROVE  /\ n \in Nat /\ n >= 1 /\ n + 1 \in Nat /\ n + 1 >= 1
         /\ text[n].word = word /\ Around(n) = b => Before(b, word, n + 1) = Before(b, word, n) \union {n}
         /\ ~(text[n].word = word /\ Around(n) = b) => Before(b, word, n + 1) = Before(b, word, n)
<1>1. n \in Nat /\ n >= 1 /\ \A p \in DOMAIN text : p \in Nat
  BY TextType
<1>2. \A p \in DOMAIN text : p < n + 1 <=> p < n \/ p = n
  BY <1>1
<1>3. Before(b, word, n) = {p \in DOMAIN text : text[p].word = word /\ Around(p) = b /\ p < n}
  BY <1>1, BeforeType
<1>4. Before(b, word, n + 1) = {p \in DOMAIN text : text[p].word = word /\ Around(p) = b /\ p < n + 1}
  BY <1>1, BeforeType
<1> QED BY <1>1, <1>2, <1>3, <1>4

\* A block that does not begin before n has said nothing before it.
LEMMA BeforeNone ==
  ASSUME text \in Texts, NEW n \in Nat, n >= 1, NEW b \in Nat, b >= n, NEW word
  PROVE  Before(b, word, n + 1) = {}
<1>1. \A p \in Before(b, word, n + 1) : p \in 1..n /\ Around(p) = b
  BY BeforeType
<1>2. \A p \in 1..n : Around(p) \in Nat /\ Around(p) < n
  BY AroundBefore
<1> QED BY SMTT(40), <1>1, <1>2
-----------------------------------------------------------------------------
(***************************************************************************)
(* The records after one more directive.                                   *)
(***************************************************************************)
LEMMA SettingsMore ==
  ASSUME text \in Texts, NEW n \in DOMAIN text, NEW b
  PROVE  /\ text[n].word \in SettingWords /\ Around(n) = b =>
              SettingsOf(b, n + 1) = WithSetting(SettingsOf(b, n), text[n])
         /\ ~(text[n].word \in SettingWords /\ Around(n) = b) => SettingsOf(b, n + 1) = SettingsOf(b, n)
<1> DEFINE W == text[n].word
<1>0. n \in Nat /\ n >= 1
  BY BeforeMore
<1>1. \A w : W = w /\ Around(n) = b =>
         /\ Before(b, w, n + 1) # {} /\ Max(Before(b, w, n + 1)) = n
  <2> SUFFICES ASSUME NEW w, W = w, Around(n) = b
               PROVE  Before(b, w, n + 1) # {} /\ Max(Before(b, w, n + 1)) = n
    OBVIOUS
  <2>1. Before(b, w, n + 1) = Before(b, w, n) \union {n}
    BY BeforeMore
  <2>2. Before(b, w, n) \subseteq Nat /\ \A x \in Before(b, w, n) : x < n
    BY <1>0, BeforeType
  <2> QED BY <1>0, <2>1, <2>2, MaxOfMore
<1>2. \A w : ~(W = w /\ Around(n) = b) => Before(b, w, n + 1) = Before(b, w, n)
  BY BeforeMore
<1>3. CASE ~(W \in SettingWords /\ Around(n) = b)
  BY <1>2, <1>3 DEF SettingsOf, SettingWords
<1>4. CASE W = "allowed_methods" /\ Around(n) = b
  BY <1>1, <1>2, <1>4 DEF SettingsOf, SettingWords, WithSetting, AllowedBy
<1>5. CASE W = "client_max_body_size" /\ Around(n) = b
  BY <1>1, <1>2, <1>5 DEF SettingsOf, SettingWords, WithSetting, LimitBy
<1>6. CASE W = "autoindex" /\ Around(n) = b
  BY <1>1, <1>2, <1>6 DEF SettingsOf, SettingWords, WithSetting, AutoindexBy
<1> QED BY <1>3, <1>4, <1>5, <1>6 DEF SettingWords

LEMMA ListMore ==
  ASSUME text \in Texts, NEW n \in DOMAIN text, NEW b, NEW word
  PROVE  /\ text[n].word = word /\ Around(n) = b =>
              /\ Scripts(Before(b, word, n + 1)) = Append(Scripts(Before(b, word, n)), Script(n))
              /\ Pages(Before(b, word, n + 1)) = Append(Pages(Before(b, word, n)), Page(n))
         /\ ~(text[n].word = word /\ Around(n) = b) =>
              /\ Scripts(Before(b, word, n + 1)) = Scripts(Before(b, word, n))
              /\ Pages(Before(b, word, n + 1)) = Pages(Before(b, word, n))
<1> DEFINE S == Before(b, word, n)
           T == Before(b, word, n + 1)
           m == Cardinality(S)
<1>0. n \in Nat /\ n >= 1
  BY BeforeMore
<1>1. CASE ~(text[n].word = word /\ Around(n) = b)
  BY <1>1, BeforeMore
<1>2. CASE text[n].word = word /\ Around(n) = b
  <2>1. T = S \union {n}
    BY <1>2, BeforeMore
  <2>2. m \in Nat /\ IsFiniteSet(S) /\ \A x \in S : x \in Nat /\ x < n
    BY <1>0, BeforeType
  <2>3. /\ Cardinality(T) = m + 1
        /\ \A k \in 1..m : InOrder(T)[k] = InOrder(S)[k]
        /\ InOrder(T)[m + 1] = n
    <3> HIDE DEF S, T
    <3> QED BY <1>0, <2>1, <2>2, InOrderMore
  <2>4. \A k \in 1..(m + 1) : k \in 1..m \/ k = m + 1
    BY <2>2
  <2> HIDE DEF S, T, m
  <2>5. Scripts(T) = Append(Scripts(S), Script(n))
    <3>1. Scripts(S) = [k \in 1..m |-> Script(InOrder(S)[k])] /\ Scripts(T) = [k \in 1..(m + 1) |-> Script(InOrder(T)[k])]
      BY <2>3 DEF Scripts, m
    <3>2. Append(Scripts(S), Script(n)) = [k \in 1..(m + 1) |-> IF k = m + 1 THEN Script(n) ELSE Scripts(S)[k]]
      BY <2>2, <3>1
    <3>3. \A k \in 1..(m + 1) : Script(InOrder(T)[k]) = IF k = m + 1 THEN Script(n) ELSE Scripts(S)[k]
      BY <2>2, <2>3, <2>4, <3>1
    <3> QED BY <3>1, <3>2, <3>3
  <2>6. Pages(T) = Append(Pages(S), Page(n))
    <3>1. Pages(S) = [k \in 1..m |-> Page(InOrder(S)[k])] /\ Pages(T) = [k \in 1..(m + 1) |-> Page(InOrder(T)[k])]
      BY <2>3 DEF Pages, m
    <3>2. Append(Pages(S), Page(n)) = [k \in 1..(m + 1) |-> IF k = m + 1 THEN Page(n) ELSE Pages(S)[k]]
      BY <2>2, <3>1
    <3>3. \A k \in 1..(m + 1) : Page(InOrder(T)[k]) = IF k = m + 1 THEN Page(n) ELSE Pages(S)[k]
      BY <2>2, <2>3, <2>4, <3>1
    <3> QED BY <3>1, <3>2, <3>3
  <2> QED BY <1>2, <2>5, <2>6 DEF S, T
<1> QED BY <1>1, <1>2

LEMMA SetOfConcat ==
  ASSUME NEW a, a \in Seq(ToSet(a)), NEW b, b \in Seq(ToSet(b))
  PROVE  ToSet(a \o b) = ToSet(a) \union ToSet(b) /\ a \o b \in Seq(ToSet(a \o b))
<1>1. /\ Len(a) \in Nat /\ Len(b) \in Nat /\ DOMAIN a = 1..Len(a) /\ DOMAIN b = 1..Len(b)
      /\ DOMAIN (a \o b) = 1..(Len(a) + Len(b))
      /\ \A i \in 1..(Len(a) + Len(b)) : (a \o b)[i] = IF i <= Len(a) THEN a[i] ELSE b[i - Len(a)]
  BY LenProperties, ConcatProperties
<1>2. ToSet(a \o b) \subseteq ToSet(a) \union ToSet(b)
  <2> SUFFICES ASSUME NEW i \in 1..(Len(a) + Len(b)) PROVE (a \o b)[i] \in ToSet(a) \union ToSet(b)
    BY <1>1 DEF ToSet
  <2>1. CASE i <= Len(a)
    BY <1>1, <2>1 DEF ToSet
  <2>2. CASE ~(i <= Len(a))
    <3>1. i - Len(a) \in 1..Len(b)
      BY <1>1, <2>2
    <3> QED BY <1>1, <2>2, <3>1 DEF ToSet
  <2> QED BY <2>1, <2>2
<1>3. ToSet(a) \subseteq ToSet(a \o b)
  <2> SUFFICES ASSUME NEW i \in 1..Len(a) PROVE a[i] \in ToSet(a \o b)
    BY <1>1 DEF ToSet
  <2>1. i \in 1..(Len(a) + Len(b)) /\ i <= Len(a)
    BY <1>1
  <2> QED BY <1>1, <2>1 DEF ToSet
<1>4. ToSet(b) \subseteq ToSet(a \o b)
  <2> SUFFICES ASSUME NEW i \in 1..Len(b) PROVE b[i] \in ToSet(a \o b)
    BY <1>1 DEF ToSet
  <2>1. Len(a) + i \in 1..(Len(a) + Len(b)) /\ ~(Len(a) + i <= Len(a)) /\ (Len(a) + i) - Len(a) = i
    BY <1>1
  <2> QED BY <1>1, <2>1 DEF ToSet
<1>5. a \in Seq(ToSet(a \o b)) /\ b \in Seq(ToSet(a \o b))
  <2> DEFINE T == ToSet(a \o b)
  <2>1. a \in Seq(T) <=> \A i \in 1..Len(a) : a[i] \in T
    <3> HIDE DEF T
    <3> QED BY <1>1
  <2>2. b \in Seq(T) <=> \A i \in 1..Len(b) : b[i] \in T
    <3> HIDE DEF T
    <3> QED BY <1>1
  <2>3. (\A i \in 1..Len(a) : a[i] \in ToSet(a)) /\ \A i \in 1..Len(b) : b[i] \in ToSet(b)
    BY <1>1 DEF ToSet
  <2> HIDE DEF T
  <2>4. ToSet(a) \subseteq T /\ ToSet(b) \subseteq T
    BY <1>3, <1>4 DEF T
  <2> QED BY <2>1, <2>2, <2>3, <2>4 DEF T
<1> QED BY <1>2, <1>3, <1>4, <1>5

LEMMA SetOfAppend ==
  ASSUME NEW a, a \in Seq(ToSet(a)), NEW x
  PROVE  /\ ToSet(Append(a, x)) = ToSet(a) \union {x} /\ Append(a, x) \in Seq(ToSet(Append(a, x)))
         /\ Len(a) \in Nat /\ DOMAIN a = 1..Len(a)
         /\ Len(Append(a, x)) = Len(a) + 1 /\ DOMAIN Append(a, x) = 1..(Len(a) + 1)
         /\ \A i \in 1..Len(a) : Append(a, x)[i] = a[i]
         /\ Append(a, x)[Len(a) + 1] = x
<1> DEFINE b == Append(a, x)
           T == ToSet(a) \union {x}
<1>1. a \in Seq(T) /\ x \in T
  BY DEF ToSet
<1> HIDE DEF T
<1>2. /\ Len(a) \in Nat /\ DOMAIN a = 1..Len(a) /\ b \in Seq(T)
      /\ Len(b) = Len(a) + 1 /\ DOMAIN b = 1..(Len(a) + 1)
      /\ \A i \in 1..Len(a) : b[i] = a[i]
      /\ b[Len(a) + 1] = x
  BY <1>1, LenProperties, AppendProperties
<1> HIDE DEF b
<1>3. ToSet(b) = ToSet(a) \union {x}
  <2>1. \A i \in 1..(Len(a) + 1) : i \in 1..Len(a) \/ i = Len(a) + 1
    BY <1>2
  <2>2. \A i \in 1..Len(a) : i \in 1..(Len(a) + 1)
    BY <1>2
  <2>3. Len(a) + 1 \in 1..(Len(a) + 1)
    BY <1>2
  <2> QED BY <1>2, <2>1, <2>2, <2>3 DEF ToSet
<1>4. b \in Seq(ToSet(b))
  BY <1>2, <1>3 DEF T
<1> QED BY <1>2, <1>3, <1>4 DEF b

LEMMA SetOfNone ==
  ASSUME NEW a, a \in Seq(ToSet(a))
  PROVE  a = <<>> <=> ToSet(a) = {}
<1>1. Len(a) \in Nat /\ DOMAIN a = 1..Len(a)
  BY LenProperties
<1>2. a = <<>> \/ Len(a) # 0
  BY EmptySeq
<1>3. CASE a = <<>>
  BY <1>3 DEF ToSet
<1>4. CASE Len(a) # 0
  <2>1. 1 \in DOMAIN a
    BY <1>1, <1>4
  <2>2. a[1] \in ToSet(a)
    BY <2>1 DEF ToSet
  <2> QED BY <1>4, <2>2, EmptySeq
<1> QED BY <1>2, <1>3, <1>4

LEMMA SetsMore ==
  ASSUME NEW S, NEW n
  PROVE  /\ Files(S \union {n}) = Files(S) \union ToSet(text[n].files)
         /\ NamesIn(S \union {n}) = NamesIn(S) \union ToSet(text[n].names)
         /\ PortsIn(S \union {n}) = PortsIn(S) \union {text[n].port}
BY DEF Files, NamesIn, PortsIn

LEMMA NothingSaid == 
  /\ Scripts({}) = <<>> /\ Pages({}) = <<>> /\ Files({}) = {} /\ NamesIn({}) = {} /\ PortsIn({}) = {}
  /\ AllowedBy({}) = Default({}) /\ LimitBy({}) = Default(DefaultBodySize) /\ AutoindexBy({}) = Default(FALSE)
  /\ ToSet(<<>>) = {}
<1>1. Cardinality({}) = 0
  BY FS_EmptySet
<1>2. Scripts({}) = <<>> /\ Pages({}) = <<>>
  BY <1>1 DEF Scripts, Pages
<1> QED BY <1>2 DEF Files, NamesIn, PortsIn, AllowedBy, LimitBy, AutoindexBy, ToSet

\* A record after the assignment of a field.
Assigned(k, r, field) ==
  /\ DOMAIN k = DOMAIN r
  /\ \A f \in DOMAIN r : f # field => k[f] = r[f]

LEMMA EntryAssigns ==
  ASSUME NEW l, DOMAIN l = LocationFields, NEW d
  PROVE  LET k == WithEntry(l, d) IN
         /\ d.word \in SettingWords =>
              Assigned(k, l, "settings") /\ k.settings = WithSetting(l.settings, d)
         /\ d.word = "root" => Assigned(k, l, "root") /\ k.root = TRUE
         /\ d.word = "index" => Assigned(k, l, "index") /\ k.index = l.index \o d.files
         /\ d.word = "redirect" => Assigned(k, l, "redirect") /\ k.redirect = TRUE
         /\ d.word = "cgi" =>
              Assigned(k, l, "cgis") /\ k.cgis = Append(l.cgis, [exts |-> d.exts, allowed |-> d.methods])
<1>1. ASSUME d.word \in SettingWords
      PROVE  Assigned(WithEntry(l, d), l, "settings") /\ WithEntry(l, d).settings = WithSetting(l.settings, d)
  <2>1. WithEntry(l, d) = [l EXCEPT !.settings = WithSetting(l.settings, d)]
    BY <1>1 DEF WithEntry, SettingWords
  <2> QED BY <2>1 DEF Assigned, LocationFields
<1>2. ASSUME d.word = "root"
      PROVE  Assigned(WithEntry(l, d), l, "root") /\ WithEntry(l, d).root = TRUE
  <2>1. WithEntry(l, d) = [l EXCEPT !.root = TRUE]
    BY <1>2 DEF WithEntry, SettingWords
  <2> QED BY <2>1 DEF Assigned, LocationFields
<1>3. ASSUME d.word = "index"
      PROVE  Assigned(WithEntry(l, d), l, "index") /\ WithEntry(l, d).index = l.index \o d.files
  <2>1. WithEntry(l, d) = [l EXCEPT !.index = l.index \o d.files]
    BY <1>3 DEF WithEntry, SettingWords
  <2> QED BY <2>1 DEF Assigned, LocationFields
<1>4. ASSUME d.word = "redirect"
      PROVE  Assigned(WithEntry(l, d), l, "redirect") /\ WithEntry(l, d).redirect = TRUE
  <2>1. WithEntry(l, d) = [l EXCEPT !.redirect = TRUE]
    BY <1>4 DEF WithEntry, SettingWords
  <2> QED BY <2>1 DEF Assigned, LocationFields
<1>5. ASSUME d.word = "cgi"
      PROVE  Assigned(WithEntry(l, d), l, "cgis") /\ WithEntry(l, d).cgis = Append(l.cgis, [exts |-> d.exts, allowed |-> d.methods])
  <2>1. WithEntry(l, d) = [l EXCEPT !.cgis = Append(l.cgis, [exts |-> d.exts, allowed |-> d.methods])]
    BY <1>5 DEF WithEntry, SettingWords
  <2> QED BY <2>1 DEF Assigned, LocationFields
<1> QED BY <1>1, <1>2, <1>3, <1>4, <1>5

\* What becomes of a location by an entry.
EntryMade(k, l, d) ==
  /\ DOMAIN k = LocationFields /\ k.line = l.line /\ k.ref = l.ref
  /\ k.settings = IF d.word \in SettingWords THEN WithSetting(l.settings, d) ELSE l.settings
  /\ k.index = IF d.word = "index" THEN l.index \o d.files ELSE l.index
  /\ k.redirect = IF d.word = "redirect" THEN TRUE ELSE l.redirect
  /\ k.cgis = IF d.word = "cgi" THEN Append(l.cgis, [exts |-> d.exts, allowed |-> d.methods]) ELSE l.cgis

LEMMA EntryFields ==
  ASSUME NEW l, DOMAIN l = LocationFields, NEW d, d.word \in LocationWords
  PROVE  EntryMade(WithEntry(l, d), l, d)
<1> DEFINE k == WithEntry(l, d)
<1>1. /\ d.word \in SettingWords => Assigned(k, l, "settings") /\ k.settings = WithSetting(l.settings, d)
      /\ d.word = "root" => Assigned(k, l, "root") /\ k.root = TRUE
      /\ d.word = "index" => Assigned(k, l, "index") /\ k.index = l.index \o d.files
      /\ d.word = "redirect" => Assigned(k, l, "redirect") /\ k.redirect = TRUE
      /\ d.word = "cgi" =>
           Assigned(k, l, "cgis") /\ k.cgis = Append(l.cgis, [exts |-> d.exts, allowed |-> d.methods])
  BY EntryAssigns, ZenonT(60)
<1> HIDE DEF k
<1>2. CASE d.word \in SettingWords
  <2>1. Assigned(k, l, "settings") /\ k.settings = WithSetting(l.settings, d)
    BY <1>1, <1>2
  <2> QED BY <1>2, <2>1 DEF Assigned, LocationFields, SettingWords, EntryMade, k
<1>3. CASE d.word = "root"
  <2>1. Assigned(k, l, "root") /\ k.root = TRUE
    BY <1>1, <1>3
  <2> QED BY <1>3, <2>1 DEF Assigned, LocationFields, SettingWords, EntryMade, k
<1>4. CASE d.word = "index"
  <2>1. Assigned(k, l, "index") /\ k.index = l.index \o d.files
    BY <1>1, <1>4
  <2> QED BY <1>4, <2>1 DEF Assigned, LocationFields, SettingWords, EntryMade, k
<1>5. CASE d.word = "redirect"
  <2>1. Assigned(k, l, "redirect") /\ k.redirect = TRUE
    BY <1>1, <1>5
  <2> QED BY <1>5, <2>1 DEF Assigned, LocationFields, SettingWords, EntryMade, k
<1>6. CASE d.word = "cgi"
  <2>1. Assigned(k, l, "cgis") /\ k.cgis = Append(l.cgis, [exts |-> d.exts, allowed |-> d.methods])
    BY <1>1, <1>6
  <2> QED BY <1>6, <2>1 DEF Assigned, LocationFields, SettingWords, EntryMade, k
<1> QED BY <1>2, <1>3, <1>4, <1>5, <1>6 DEF LocationWords

LEMMA DirectiveAssigns ==
  ASSUME NEW s, DOMAIN s = ServerFields, NEW d
  PROVE  LET k == WithDirective(s, d) IN
         /\ d.word \in SettingWords =>
              Assigned(k, s, "settings") /\ k.settings = WithSetting(s.settings, d)
         /\ d.word = "listen" => Assigned(k, s, "ports") /\ k.ports = Append(s.ports, d.port)
         /\ d.word = "server_name" => Assigned(k, s, "names") /\ k.names = s.names \o d.names
         /\ d.word = "error_page" =>
              Assigned(k, s, "errorPages") /\ k.errorPages = Append(s.errorPages, [codes |-> d.codes, page |-> d.page])
         /\ d.word = "cgi" =>
              Assigned(k, s, "cgis") /\ k.cgis = Append(s.cgis, [exts |-> d.exts, allowed |-> d.methods])
<1>1. ASSUME d.word \in SettingWords
      PROVE  Assigned(WithDirective(s, d), s, "settings") /\ WithDirective(s, d).settings = WithSetting(s.settings, d)
  <2>1. WithDirective(s, d) = [s EXCEPT !.settings = WithSetting(s.settings, d)]
    BY <1>1 DEF WithDirective, SettingWords
  <2> QED BY <2>1 DEF Assigned, ServerFields
<1>2. ASSUME d.word = "listen"
      PROVE  Assigned(WithDirective(s, d), s, "ports") /\ WithDirective(s, d).ports = Append(s.ports, d.port)
  <2>1. WithDirective(s, d) = [s EXCEPT !.ports = Append(s.ports, d.port)]
    BY <1>2 DEF WithDirective, SettingWords
  <2> QED BY <2>1 DEF Assigned, ServerFields
<1>3. ASSUME d.word = "server_name"
      PROVE  Assigned(WithDirective(s, d), s, "names") /\ WithDirective(s, d).names = s.names \o d.names
  <2>1. WithDirective(s, d) = [s EXCEPT !.names = s.names \o d.names]
    BY <1>3 DEF WithDirective, SettingWords
  <2> QED BY <2>1 DEF Assigned, ServerFields
<1>4. ASSUME d.word = "error_page"
      PROVE  Assigned(WithDirective(s, d), s, "errorPages") /\ WithDirective(s, d).errorPages = Append(s.errorPages, [codes |-> d.codes, page |-> d.page])
  <2>1. WithDirective(s, d) = [s EXCEPT !.errorPages = Append(s.errorPages, [codes |-> d.codes, page |-> d.page])]
    BY <1>4 DEF WithDirective, SettingWords
  <2> QED BY <2>1 DEF Assigned, ServerFields
<1>5. ASSUME d.word = "cgi"
      PROVE  Assigned(WithDirective(s, d), s, "cgis") /\ WithDirective(s, d).cgis = Append(s.cgis, [exts |-> d.exts, allowed |-> d.methods])
  <2>1. WithDirective(s, d) = [s EXCEPT !.cgis = Append(s.cgis, [exts |-> d.exts, allowed |-> d.methods])]
    BY <1>5 DEF WithDirective, SettingWords
  <2> QED BY <2>1 DEF Assigned, ServerFields
<1> QED BY <1>1, <1>2, <1>3, <1>4, <1>5

\* What becomes of a server by a directive.
DirectiveMade(k, s, d) ==
  /\ DOMAIN k = ServerFields /\ k.line = s.line /\ k.locations = s.locations
  /\ k.settings = IF d.word \in SettingWords THEN WithSetting(s.settings, d) ELSE s.settings
  /\ k.ports = IF d.word = "listen" THEN Append(s.ports, d.port) ELSE s.ports
  /\ k.names = IF d.word = "server_name" THEN s.names \o d.names ELSE s.names
  /\ k.errorPages = IF d.word = "error_page" THEN Append(s.errorPages, [codes |-> d.codes, page |-> d.page])
                                               ELSE s.errorPages
  /\ k.cgis = IF d.word = "cgi" THEN Append(s.cgis, [exts |-> d.exts, allowed |-> d.methods]) ELSE s.cgis

LEMMA DirectiveFields ==
  ASSUME NEW s, DOMAIN s = ServerFields, NEW d, d.word \in ServerWords
  PROVE  DirectiveMade(WithDirective(s, d), s, d)
<1> DEFINE k == WithDirective(s, d)
<1>1. /\ d.word \in SettingWords => Assigned(k, s, "settings") /\ k.settings = WithSetting(s.settings, d)
      /\ d.word = "listen" => Assigned(k, s, "ports") /\ k.ports = Append(s.ports, d.port)
      /\ d.word = "server_name" => Assigned(k, s, "names") /\ k.names = s.names \o d.names
      /\ d.word = "error_page" =>
           Assigned(k, s, "errorPages") /\ k.errorPages = Append(s.errorPages, [codes |-> d.codes, page |-> d.page])
      /\ d.word = "cgi" =>
           Assigned(k, s, "cgis") /\ k.cgis = Append(s.cgis, [exts |-> d.exts, allowed |-> d.methods])
  BY DirectiveAssigns, ZenonT(60)
<1> HIDE DEF k
<1>2. CASE d.word \in SettingWords
  <2>1. Assigned(k, s, "settings") /\ k.settings = WithSetting(s.settings, d)
    BY <1>1, <1>2
  <2> QED BY <1>2, <2>1 DEF Assigned, ServerFields, SettingWords, DirectiveMade, k
<1>3. CASE d.word = "listen"
  <2>1. Assigned(k, s, "ports") /\ k.ports = Append(s.ports, d.port)
    BY <1>1, <1>3
  <2> QED BY <1>3, <2>1 DEF Assigned, ServerFields, SettingWords, DirectiveMade, k
<1>4. CASE d.word = "server_name"
  <2>1. Assigned(k, s, "names") /\ k.names = s.names \o d.names
    BY <1>1, <1>4
  <2> QED BY <1>4, <2>1 DEF Assigned, ServerFields, SettingWords, DirectiveMade, k
<1>5. CASE d.word = "error_page"
  <2>1. Assigned(k, s, "errorPages") /\ k.errorPages = Append(s.errorPages, [codes |-> d.codes, page |-> d.page])
    BY <1>1, <1>5
  <2> QED BY <1>5, <2>1 DEF Assigned, ServerFields, SettingWords, DirectiveMade, k
<1>6. CASE d.word = "cgi"
  <2>1. Assigned(k, s, "cgis") /\ k.cgis = Append(s.cgis, [exts |-> d.exts, allowed |-> d.methods])
    BY <1>1, <1>6
  <2> QED BY <1>6, <2>1 DEF Assigned, ServerFields, SettingWords, DirectiveMade, k
<1> QED BY <1>2, <1>3, <1>4, <1>5, <1>6 DEF ServerWords

LEMMA NewBlocks ==
  ASSUME text \in Texts, NEW n \in DOMAIN text
  PROVE  /\ LocationRead(NewLocation(text[n].ref, n), n + 1)
         /\ ServerRead(NewServer(n), n + 1, n + 1) /\ PortsRead(NewServer(n), n + 1)
<1>1. \A w : Before(n, w, n + 1) = {}
  BY BeforeMore, BeforeNone
<1>2. SettingsOf(n, n + 1) = DefaultSettings
  BY <1>1, NothingSaid DEF SettingsOf, DefaultSettings
<1>3. <<>> \in Seq(ToSet(<<>>)) /\ DOMAIN <<>> = {}
  OBVIOUS
<1>4. LocationRead(NewLocation(text[n].ref, n), n + 1)
  <2> DEFINE l == NewLocation(text[n].ref, n)
  <2>1. /\ DOMAIN l = LocationFields /\ l.line = n /\ l.settings = DefaultSettings /\ l.ref = text[n].ref
        /\ l.index = <<>> /\ l.redirect = FALSE /\ l.cgis = <<>>
    BY DEF NewLocation, LocationFields
  <2> HIDE DEF l
  <2>2. LocationRead(l, n + 1)
    BY <1>1, <1>2, <1>3, <2>1, NothingSaid DEF LocationRead
  <2> QED BY <2>2 DEF l
<1>5. ServerRead(NewServer(n), n + 1, n + 1) /\ PortsRead(NewServer(n), n + 1)
  <2> DEFINE s == NewServer(n)
  <2>1. /\ DOMAIN s = ServerFields /\ s.line = n /\ s.settings = DefaultSettings /\ s.ports = <<>>
        /\ s.names = <<>> /\ s.locations = <<>> /\ s.errorPages = <<>> /\ s.cgis = <<>>
    BY DEF NewServer, ServerFields
  <2> HIDE DEF s
  <2>2. LinesOf(s.locations) = Before(n, "location", n + 1)
    BY <1>1, <1>3, <2>1 DEF LinesOf
  <2>3. ServerRead(s, n + 1, n + 1)
    BY <1>1, <1>2, <1>3, <2>1, <2>2, NothingSaid DEF ServerRead
  <2>4. PortsRead(s, n + 1)
    BY <1>1, <1>3, <2>1, NothingSaid DEF PortsRead
  <2> QED BY <2>3, <2>4 DEF s
<1> QED BY <1>4, <1>5

\* The directive at n is none of these words in block b.
Unsaid(n, b, words) == Around(n) # b \/ text[n].word \notin words

\* A location after a directive that is none of its entries.
LEMMA LocationKept ==
  ASSUME text \in Texts, NEW n \in DOMAIN text, NEW l, LocationRead(l, n), Unsaid(n, l.line, LocationWords)
  PROVE  LocationRead(l, n + 1)
<1>1. \A w \in LocationWords : Before(l.line, w, n + 1) = Before(l.line, w, n)
  BY BeforeMore DEF Unsaid
<1>2. SettingsOf(l.line, n + 1) = SettingsOf(l.line, n)
  BY SettingsMore DEF Unsaid, LocationWords
<1>3. {"redirect", "index", "cgi"} \subseteq LocationWords
  BY DEF LocationWords
<1> QED BY <1>1, <1>2, <1>3 DEF LocationRead

\* A location after an entry of its own.
LEMMA LocationMore ==
  ASSUME text \in Texts, NEW n \in DOMAIN text, NEW l, LocationRead(l, n), Around(n) = l.line,
         text[n].word \in LocationWords, NEW k, k = WithEntry(l, text[n])
  PROVE  LocationRead(k, n + 1) /\ k.line = l.line
<1> DEFINE entry == text[n]
           b == l.line
<1>1. /\ DOMAIN l = LocationFields /\ l.settings = SettingsOf(b, n) /\ l.ref = text[b].ref
      /\ l.redirect \in BOOLEAN /\ (l.redirect <=> Before(b, "redirect", n) # {})
      /\ l.index \in Seq(ToSet(l.index)) /\ ToSet(l.index) = Files(Before(b, "index", n))
      /\ l.cgis = Scripts(Before(b, "cgi", n))
  BY DEF LocationRead
<1>2. /\ DOMAIN k = LocationFields /\ k.line = b /\ k.ref = l.ref
      /\ k.settings = IF entry.word \in SettingWords THEN WithSetting(l.settings, entry) ELSE l.settings
      /\ k.index = IF entry.word = "index" THEN l.index \o entry.files ELSE l.index
      /\ k.redirect = IF entry.word = "redirect" THEN TRUE ELSE l.redirect
      /\ k.cgis = IF entry.word = "cgi" THEN Append(l.cgis, [exts |-> entry.exts, allowed |-> entry.methods]) ELSE l.cgis
  <2>1. EntryMade(k, l, entry)
    BY <1>1, EntryFields
  <2> QED BY <2>1 DEF EntryMade
<1>3. k.settings = SettingsOf(b, n + 1)
  BY <1>1, <1>2, SettingsMore
<1>4. k.redirect \in BOOLEAN /\ (k.redirect <=> Before(b, "redirect", n + 1) # {})
  <2>1. entry.word = "redirect" => Before(b, "redirect", n + 1) = Before(b, "redirect", n) \union {n}
    BY BeforeMore
  <2>2. entry.word # "redirect" => Before(b, "redirect", n + 1) = Before(b, "redirect", n)
    BY BeforeMore
  <2> HIDE DEF entry, b
  <2> QED BY <1>1, <1>2, <2>1, <2>2
<1>5. k.cgis = Scripts(Before(b, "cgi", n + 1))
  <2>1. Script(n) = [exts |-> entry.exts, allowed |-> entry.methods]
    BY DEF Script
  <2>2. Around(n) = b
    OBVIOUS
  <2> HIDE DEF entry
  <2>3. entry.word = "cgi" => Scripts(Before(b, "cgi", n + 1)) = Append(Scripts(Before(b, "cgi", n)), Script(n))
    BY <2>2, ListMore DEF entry
  <2>4. entry.word # "cgi" => Scripts(Before(b, "cgi", n + 1)) = Scripts(Before(b, "cgi", n))
    BY <2>2, ListMore DEF entry
  <2> HIDE DEF b
  <2> QED BY <1>1, <1>2, <2>1, <2>3, <2>4
<1>6. k.index \in Seq(ToSet(k.index)) /\ ToSet(k.index) = Files(Before(b, "index", n + 1))
  <2>1. CASE entry.word = "index"
    <3>1. entry.files \in Seq(ToSet(entry.files))
      BY <2>1, TextType
    <3>2. Before(b, "index", n + 1) = Before(b, "index", n) \union {n}
      BY <2>1, BeforeMore
    <3>3. Files(Before(b, "index", n + 1)) = Files(Before(b, "index", n)) \union ToSet(entry.files)
      <4>1. Files(Before(b, "index", n) \union {n}) = Files(Before(b, "index", n)) \union ToSet(text[n].files)
        BY SetsMore
      <4> QED BY <3>2, <4>1
    <3>4. k.index = l.index \o entry.files
      BY <1>2, <2>1
    <3>5. l.index \in Seq(ToSet(l.index)) /\ ToSet(l.index) = Files(Before(b, "index", n))
      BY <1>1
    <3>6. ToSet(l.index \o entry.files) = ToSet(l.index) \union ToSet(entry.files) /\ l.index \o entry.files \in Seq(ToSet(l.index \o entry.files))
      BY <3>1, <3>5, SetOfConcat
    <3> QED BY <3>3, <3>4, <3>5, <3>6
  <2>2. CASE entry.word # "index"
    BY <1>1, <1>2, <2>2, BeforeMore
  <2> QED BY <2>1, <2>2
<1> HIDE DEF b
<1> QED BY <1>1, <1>2, <1>3, <1>4, <1>5, <1>6 DEF LocationRead, b
\* A server after a directive that is none of its own, nor of its locations.
LEMMA ServerKept ==
  ASSUME text \in Texts, NEW n \in DOMAIN text, NEW s, NEW m, ServerRead(s, n, m),
         Unsaid(n, s.line, ServerWords),
         \A j \in DOMAIN s.locations : Unsaid(n, s.locations[j].line, LocationWords)
  PROVE  /\ ServerRead(s, n + 1, m)
         /\ m = n /\ Unsaid(n, s.line, {"location"}) => ServerRead(s, n + 1, n + 1)
         /\ PortsRead(s, n) => PortsRead(s, n + 1)
         /\ Before(s.line, "listen", n + 1) = Before(s.line, "listen", n)
<1>1. \A w \in ServerWords : Before(s.line, w, n + 1) = Before(s.line, w, n)
  BY BeforeMore DEF Unsaid
<1>2. SettingsOf(s.line, n + 1) = SettingsOf(s.line, n)
  BY SettingsMore DEF Unsaid, ServerWords
<1>3. {"error_page", "cgi", "server_name", "listen"} \subseteq ServerWords
  BY DEF ServerWords
<1>4. \A j \in DOMAIN s.locations : LocationRead(s.locations[j], n + 1)
  BY LocationKept DEF ServerRead
<1>5. ServerRead(s, n + 1, m)
  BY <1>1, <1>2, <1>3, <1>4 DEF ServerRead
<1>6. Unsaid(n, s.line, {"location"}) => Before(s.line, "location", n + 1) = Before(s.line, "location", n)
  BY BeforeMore DEF Unsaid
<1>7. m = n /\ Unsaid(n, s.line, {"location"}) => ServerRead(s, n + 1, n + 1)
  BY <1>5, <1>6 DEF ServerRead
<1>8. PortsRead(s, n) => PortsRead(s, n + 1)
  BY <1>1, <1>3 DEF PortsRead
<1> QED BY <1>1, <1>3, <1>5, <1>7, <1>8

\* A server after a directive of its own.
LEMMA ServerMore ==
  ASSUME text \in Texts, NEW n \in DOMAIN text, NEW s, ServerRead(s, n, n), PortsRead(s, n), Around(n) = s.line,
         \A j \in DOMAIN s.locations : Unsaid(n, s.locations[j].line, LocationWords),
         text[n].word \in ServerWords, NEW k, k = WithDirective(s, text[n])
  PROVE  ServerRead(k, n + 1, n + 1) /\ PortsRead(k, n + 1) /\ k.line = s.line
<1> DEFINE entry == text[n]
           b == s.line
<1>1. /\ DOMAIN s = ServerFields /\ s.settings = SettingsOf(b, n)
      /\ s.errorPages = Pages(Before(b, "error_page", n)) /\ s.cgis = Scripts(Before(b, "cgi", n))
      /\ s.names \in Seq(ToSet(s.names)) /\ ToSet(s.names) = NamesIn(Before(b, "server_name", n))
      /\ s.locations \in Seq(ToSet(s.locations)) /\ LinesOf(s.locations) = Before(b, "location", n)
      /\ s.ports \in Seq(ToSet(s.ports)) /\ ToSet(s.ports) = PortsIn(Before(b, "listen", n))
  BY DEF ServerRead, PortsRead
<1>2. /\ DOMAIN k = ServerFields /\ k.line = b /\ k.locations = s.locations
      /\ k.settings = IF entry.word \in SettingWords THEN WithSetting(s.settings, entry) ELSE s.settings
      /\ k.ports = IF entry.word = "listen" THEN Append(s.ports, entry.port) ELSE s.ports
      /\ k.names = IF entry.word = "server_name" THEN s.names \o entry.names ELSE s.names
      /\ k.errorPages = IF entry.word = "error_page" THEN Append(s.errorPages, [codes |-> entry.codes, page |-> entry.page])
                                                     ELSE s.errorPages
      /\ k.cgis = IF entry.word = "cgi" THEN Append(s.cgis, [exts |-> entry.exts, allowed |-> entry.methods]) ELSE s.cgis
  <2>1. DirectiveMade(k, s, entry)
    BY <1>1, DirectiveFields
  <2> QED BY <2>1 DEF DirectiveMade
<1>3. k.settings = SettingsOf(b, n + 1)
  BY <1>1, <1>2, SettingsMore
<1>4. k.cgis = Scripts(Before(b, "cgi", n + 1)) /\ k.errorPages = Pages(Before(b, "error_page", n + 1))
  <2>1. Script(n) = [exts |-> entry.exts, allowed |-> entry.methods] /\ Page(n) = [codes |-> entry.codes, page |-> entry.page]
    BY DEF Script, Page
  <2>2. Around(n) = b
    OBVIOUS
  <2> HIDE DEF entry
  <2>3. entry.word = "cgi" => Scripts(Before(b, "cgi", n + 1)) = Append(Scripts(Before(b, "cgi", n)), Script(n))
    BY <2>2, ListMore DEF entry
  <2>4. entry.word # "cgi" => Scripts(Before(b, "cgi", n + 1)) = Scripts(Before(b, "cgi", n))
    BY <2>2, ListMore DEF entry
  <2>5. entry.word = "error_page" => Pages(Before(b, "error_page", n + 1)) = Append(Pages(Before(b, "error_page", n)), Page(n))
    BY <2>2, ListMore DEF entry
  <2>6. entry.word # "error_page" => Pages(Before(b, "error_page", n + 1)) = Pages(Before(b, "error_page", n))
    BY <2>2, ListMore DEF entry
  <2> HIDE DEF b
  <2> QED BY <1>1, <1>2, <2>1, <2>3, <2>4, <2>5, <2>6
<1>5. k.names \in Seq(ToSet(k.names)) /\ ToSet(k.names) = NamesIn(Before(b, "server_name", n + 1))
  <2>1. CASE entry.word = "server_name"
    <3>1. entry.names \in Seq(ToSet(entry.names))
      BY <2>1, TextType
    <3>2. Before(b, "server_name", n + 1) = Before(b, "server_name", n) \union {n}
      BY <2>1, BeforeMore
    <3>3. NamesIn(Before(b, "server_name", n + 1)) = NamesIn(Before(b, "server_name", n)) \union ToSet(entry.names)
      <4>1. NamesIn(Before(b, "server_name", n) \union {n}) =
              NamesIn(Before(b, "server_name", n)) \union ToSet(text[n].names)
        BY SetsMore
      <4> QED BY <3>2, <4>1
    <3>4. k.names = s.names \o entry.names
      BY <1>2, <2>1
    <3>5. s.names \in Seq(ToSet(s.names)) /\ ToSet(s.names) = NamesIn(Before(b, "server_name", n))
      BY <1>1
    <3>6. /\ ToSet(s.names \o entry.names) = ToSet(s.names) \union ToSet(entry.names)
          /\ s.names \o entry.names \in Seq(ToSet(s.names \o entry.names))
      BY <3>1, <3>5, SetOfConcat
    <3> QED BY <3>3, <3>4, <3>5, <3>6
  <2>2. CASE entry.word # "server_name"
    BY <1>1, <1>2, <2>2, BeforeMore
  <2> QED BY <2>1, <2>2
<1>6. k.ports \in Seq(ToSet(k.ports)) /\ ToSet(k.ports) = PortsIn(Before(b, "listen", n + 1))
  <2>1. CASE entry.word = "listen"
    <3>1. Before(b, "listen", n + 1) = Before(b, "listen", n) \union {n}
      BY <2>1, BeforeMore
    <3>2. PortsIn(Before(b, "listen", n + 1)) = PortsIn(Before(b, "listen", n)) \union {entry.port}
      <4>1. PortsIn(Before(b, "listen", n) \union {n}) = PortsIn(Before(b, "listen", n)) \union {text[n].port}
        BY SetsMore
      <4> QED BY <3>1, <4>1
    <3>3. k.ports = Append(s.ports, entry.port)
      BY <1>2, <2>1
    <3>4. s.ports \in Seq(ToSet(s.ports)) /\ ToSet(s.ports) = PortsIn(Before(b, "listen", n))
      BY <1>1
    <3>5. /\ ToSet(Append(s.ports, entry.port)) = ToSet(s.ports) \union {entry.port}
          /\ Append(s.ports, entry.port) \in Seq(ToSet(Append(s.ports, entry.port)))
      BY <3>4, SetOfAppend
    <3> QED BY <3>2, <3>3, <3>4, <3>5
  <2>2. CASE entry.word # "listen"
    BY <1>1, <1>2, <2>2, BeforeMore
  <2> QED BY <2>1, <2>2
<1>7. LinesOf(k.locations) = Before(b, "location", n + 1) /\ k.locations \in Seq(ToSet(k.locations))
  <2>1. entry.word # "location"
    BY DEF ServerWords, SettingWords
  <2> QED BY <1>1, <1>2, <2>1, BeforeMore
<1>8. \A j \in DOMAIN k.locations : LocationRead(k.locations[j], n + 1)
  BY <1>2, LocationKept DEF ServerRead
<1> HIDE DEF b
<1>9. ServerRead(k, n + 1, n + 1)
  BY <1>2, <1>3, <1>4, <1>5, <1>7, <1>8 DEF ServerRead
<1>10. PortsRead(k, n + 1)
  BY <1>2, <1>6 DEF PortsRead
<1> QED BY <1>2, <1>9, <1>10 DEF b

\* The servers after a directive that is none of theirs.
LEMMA ServersKept ==
  ASSUME text \in Texts, NEW n \in DOMAIN text, NEW ss, NEW m, ServersRead(ss, n, m),
         \A i \in DOMAIN ss :
           /\ Around(n) # ss[i].line
           /\ \A j \in DOMAIN ss[i].locations : Around(n) # ss[i].locations[j].line
  PROVE  /\ ServersRead(ss, n + 1, m)
         /\ m = n /\ Unsaid(n, 0, {"server"}) => ServersRead(ss, n + 1, n + 1)
<1>1. ASSUME NEW i \in DOMAIN ss
      PROVE  /\ ServerRead(ss[i], n + 1, n + 1)
             /\ Before(ss[i].line, "listen", n + 1) = Before(ss[i].line, "listen", n)
  <2>1. ServerRead(ss[i], n, n)
    BY DEF ServersRead
  <2> QED BY <2>1, ServerKept DEF Unsaid
<1>2. ServersRead(ss, n + 1, m)
  BY <1>1 DEF ServersRead
<1>3. Unsaid(n, 0, {"server"}) => Before(0, "server", n + 1) = Before(0, "server", n)
  BY BeforeMore DEF Unsaid
<1> QED BY <1>2, <1>3 DEF ServersRead

\* Where servers and their locations begin.
LEMMA ServerLines ==
  ASSUME text \in Texts, NEW n \in Nat, n >= 1, NEW s, NEW m \in Nat, m >= 1, ServerRead(s, n, m)
  PROVE  \A j \in DOMAIN s.locations :
           LET p == s.locations[j].line
           IN  p \in DOMAIN text /\ text[p].word = "location" /\ Around(p) = s.line /\ p < m
<1> SUFFICES ASSUME NEW j \in DOMAIN s.locations
             PROVE  LET p == s.locations[j].line
                    IN  p \in DOMAIN text /\ text[p].word = "location" /\ Around(p) = s.line /\ p < m
  OBVIOUS
<1>1. s.locations[j].line \in Before(s.line, "location", m)
  BY DEF ServerRead, LinesOf
<1> QED BY <1>1, BeforeType

LEMMA ServersLines ==
  ASSUME text \in Texts, NEW n \in Nat, n >= 1, NEW ss, NEW m \in Nat, m >= 1, ServersRead(ss, n, m)
  PROVE  /\ Len(ss) \in Nat /\ DOMAIN ss = 1..Len(ss)
         /\ \A i \in DOMAIN ss :
              /\ ss[i].line \in DOMAIN text /\ text[ss[i].line].word = "server" /\ Around(ss[i].line) = 0 /\ ss[i].line < m
              /\ \A j \in DOMAIN ss[i].locations :
                   LET p == ss[i].locations[j].line
                   IN  p \in DOMAIN text /\ text[p].word = "location" /\ Around(p) = ss[i].line
<1> DEFINE S == Before(0, "server", m)
<1>1. Len(ss) = Cardinality(S) /\ Len(ss) \in Nat /\ DOMAIN ss = 1..Len(ss)
  BY LenProperties DEF ServersRead
<1>2. IsFiniteSet(S) /\ \A p \in S : p \in Nat
  BY BeforeType
<1>3. DOMAIN InOrder(S) = 1..Cardinality(S) /\ InOrder(S) \in Seq(S)
  BY <1>2, InOrderLists
<1>4. ASSUME NEW i \in DOMAIN ss
      PROVE  ss[i].line \in DOMAIN text /\ text[ss[i].line].word = "server" /\ Around(ss[i].line) = 0 /\ ss[i].line < m
  <2>1. ss[i].line = InOrder(S)[i]
    BY DEF ServersRead
  <2>2. ss[i].line \in S
    <3> HIDE DEF S
    <3> QED BY <1>1, <1>3, <2>1
  <2> QED BY <2>2, BeforeType
<1>5. ASSUME NEW i \in DOMAIN ss, NEW j \in DOMAIN ss[i].locations
      PROVE  LET p == ss[i].locations[j].line
             IN  p \in DOMAIN text /\ text[p].word = "location" /\ Around(p) = ss[i].line
  <2>1. ServerRead(ss[i], n, n)
    BY DEF ServersRead
  <2> QED BY <2>1, ServerLines
<1> QED BY <1>1, <1>4, <1>5
-----------------------------------------------------------------------------
(***************************************************************************)
(* The steps of the reader.                                                *)
(***************************************************************************)
LEMMA MainStep ==
  ASSUME text \in Texts, NEW n \in DOMAIN text, NEW mn, NEW ss, NEW s, NEW l, ReadAt("main", n, mn, ss, s, l)
  PROVE  /\ text[n].word \in SettingWords => ReadAt("main", n + 1, WithSetting(mn, text[n]), ss, s, l)
         /\ text[n].word = "server" => ReadAt("server", n + 1, mn, ss, NewServer(n), l)
<1>1. n \in Nat /\ n >= 1 /\ n + 1 \in 1..(Len(text) + 1) /\ n + 1 \in Nat /\ n + 1 >= 1
  BY TextType
<1>2. Nested(n, 0) /\ mn = SettingsOf(0, n) /\ ServersRead(ss, n, n)
  BY DEF ReadAt, LevelOf
<1>3. Around(n) = 0
  BY <1>1, <1>2, AroundHere
<1>4. /\ ServersRead(ss, n + 1, n)
      /\ text[n].word # "server" => ServersRead(ss, n + 1, n + 1)
  <2>1. \A i \in DOMAIN ss :
           /\ Around(n) # ss[i].line
           /\ \A j \in DOMAIN ss[i].locations : Around(n) # ss[i].locations[j].line
    <3>1. \A p \in DOMAIN text : p # 0
      BY TextType
    <3> QED BY <1>1, <1>2, <1>3, <3>1, ServersLines
  <2> QED BY <1>2, <2>1, ServersKept DEF Unsaid
<1>5. CASE text[n].word \in SettingWords
  <2>1. SettingsOf(0, n + 1) = WithSetting(mn, text[n])
    BY <1>2, <1>3, <1>5, SettingsMore
  <2>2. text[n].word \notin {"server", "location", "}"}
    BY <1>5 DEF SettingWords
  <2>3. Nested(n + 1, 0)
    BY <1>1, <1>2, <2>2, NestedMore DEF Opens, Closes
  <2> QED BY <1>1, <1>4, <1>5, <2>1, <2>2, <2>3 DEF ReadAt, LevelOf
<1>6. CASE text[n].word = "server"
  <2>1. SettingsOf(0, n + 1) = mn
    BY <1>2, <1>6, SettingsMore DEF SettingWords
  <2>2. Opens(n) /\ Depth(n) = 0 + 1 /\ 0 \in Nat
    BY <1>6 DEF Opens, Depth
  <2>3. Nested(n + 1, 1)
    BY <1>1, <1>2, <2>2, NestedMore
  <2>4. LastOf("server", n, n + 1)
    BY <1>1, <1>6, LastMore
  <2>5. n \in Before(0, "server", n + 1)
    BY <1>1, <1>3, <1>6, BeforeMore
  <2>6. NewServer(n).line = n
    BY DEF NewServer
  <2>7. ServerRead(NewServer(n), n + 1, n + 1) /\ PortsRead(NewServer(n), n + 1)
    BY NewBlocks
  <2> HIDE DEF NewServer
  <2> QED BY <1>1, <1>4, <1>6, <2>1, <2>3, <2>4, <2>5, <2>6, <2>7 DEF ReadAt, LevelOf, SettingWords
<1> QED BY <1>5, <1>6

\* Where the blocks begin that the reader is in.
LEMMA ServerPlace ==
  ASSUME text \in Texts, NEW n \in Nat, n >= 1, NEW b \in {"server", "location"}, NEW mn, NEW ss, NEW s, NEW l,
         ReadAt(b, n, mn, ss, s, l)
  PROVE  /\ s.line \in DOMAIN text /\ text[s.line].word = "server" /\ Around(s.line) = 0 /\ s.line < n
         /\ s.line \in Nat /\ s.line >= 1 /\ s.line # 0
         /\ b = "server" => Around(n) = s.line
         /\ b = "location" => 
              /\ Around(n) = l.line /\ l.line # s.line /\ l.line # 0
              /\ l.line \in DOMAIN text /\ text[l.line].word = "location" /\ Around(l.line) = s.line /\ l.line < n
              /\ l.line \in Nat /\ l.line >= 1
<1>1. s.line \in DOMAIN text /\ text[s.line].word = "server" /\ Around(s.line) = 0 /\ s.line < n
  BY BeforeType DEF ReadAt
<1>2. \A p \in DOMAIN text : p \in Nat /\ p >= 1 /\ p # 0
  BY TextType
<1>3. b = "server" => Around(n) = s.line
  BY AroundHere DEF ReadAt, LevelOf
<1>4. b = "location" => Around(n) = l.line
  BY AroundHere DEF ReadAt, LevelOf
<1>5. b = "location" => 
              l.line \in DOMAIN text /\ text[l.line].word = "location" /\ Around(l.line) = s.line /\ l.line < n
  BY BeforeType DEF ReadAt
<1>6. b = "location" => l.line # s.line
  BY <1>1, <1>5
<1> QED BY <1>1, <1>2, <1>3, <1>4, <1>5, <1>6

\* The servers that are closed already, at a directive in another block.
LEMMA ClosedKept ==
  ASSUME text \in Texts, NEW n \in DOMAIN text, NEW b \in {"server", "location"}, NEW mn, NEW ss, NEW s, NEW l,
         ReadAt(b, n, mn, ss, s, l)
  PROVE  ServersRead(ss, n + 1, s.line) /\ SettingsOf(0, n + 1) = mn
<1>1. n \in Nat /\ n >= 1
  BY TextType
<1>2. /\ s.line \in DOMAIN text /\ text[s.line].word = "server" /\ Around(s.line) = 0
      /\ s.line \in Nat /\ s.line >= 1 /\ s.line # 0
      /\ b = "server" => Around(n) = s.line
      /\ b = "location" => 
           /\ Around(n) = l.line /\ l.line # 0
           /\ text[l.line].word = "location" /\ Around(l.line) = s.line
  BY <1>1, ServerPlace
<1>3. ServersRead(ss, n, s.line)
  BY DEF ReadAt
<1>4. \A i \in DOMAIN ss :
         /\ ss[i].line < s.line /\ ss[i].line # s.line /\ text[ss[i].line].word = "server"
         /\ \A j \in DOMAIN ss[i].locations :
              LET p == ss[i].locations[j].line
              IN  text[p].word = "location" /\ Around(p) = ss[i].line
  <2>1. \A i \in DOMAIN ss :
          /\ ss[i].line \in DOMAIN text /\ text[ss[i].line].word = "server" /\ Around(ss[i].line) = 0 /\ ss[i].line < s.line
          /\ \A j \in DOMAIN ss[i].locations :
               LET p == ss[i].locations[j].line
               IN  p \in DOMAIN text /\ text[p].word = "location" /\ Around(p) = ss[i].line
    BY <1>1, <1>2, <1>3, ServersLines
  <2>2. \A p \in DOMAIN text : p < s.line => p # s.line
    BY <1>2, TextType
  <2> QED BY <2>1, <2>2
<1>5. \A i \in DOMAIN ss :
         /\ Around(n) # ss[i].line
         /\ \A j \in DOMAIN ss[i].locations : Around(n) # ss[i].locations[j].line
  <2> TAKE i \in DOMAIN ss
  <2>1. Around(n) # ss[i].line
    BY <1>2, <1>4
  <2>2. ASSUME NEW j \in DOMAIN ss[i].locations PROVE Around(n) # ss[i].locations[j].line
    BY <1>2, <1>4
  <2> QED BY <2>1, <2>2
<1>6. ServersRead(ss, n + 1, s.line)
  BY <1>3, <1>5, ServersKept
<1>7. Around(n) # 0 /\ mn = SettingsOf(0, n)
  BY <1>2 DEF ReadAt
<1>8. SettingsOf(0, n + 1) = mn
  BY <1>7, SettingsMore
<1> QED BY <1>6, <1>8
LEMMA ServerStep ==
  ASSUME text \in Texts, NEW n \in DOMAIN text, NEW mn, NEW ss, NEW s, NEW l, ReadAt("server", n, mn, ss, s, l)
  PROVE  /\ text[n].word \in ServerWords => ReadAt("server", n + 1, mn, ss, WithDirective(s, text[n]), l)
         /\ text[n].word = "location" => ReadAt("location", n + 1, mn, ss, s, NewLocation(text[n].ref, n))
<1>1. n \in Nat /\ n >= 1 /\ n + 1 \in 1..(Len(text) + 1) /\ n + 1 \in Nat /\ n + 1 >= 1
  BY TextType
<1>2. /\ Nested(n, 1) /\ ServerRead(s, n, n) /\ PortsRead(s, n)
      /\ LastOf("server", s.line, n) /\ s.line \in Before(0, "server", n)
  BY DEF ReadAt, LevelOf
<1>3. /\ Around(n) = s.line /\ s.line \in Nat /\ s.line < n
      /\ ServersRead(ss, n + 1, s.line) /\ SettingsOf(0, n + 1) = mn
  BY <1>1, ServerPlace, ClosedKept
<1>4. \A j \in DOMAIN s.locations :
         s.locations[j].line # s.line /\ Unsaid(n, s.locations[j].line, LocationWords)
  <2> SUFFICES ASSUME NEW j \in DOMAIN s.locations PROVE s.locations[j].line # s.line
    BY <1>3 DEF Unsaid
  <2>1. s.locations[j].line \in DOMAIN text /\ Around(s.locations[j].line) = s.line
    BY <1>1, <1>2, ServerLines
  <2>2. s.locations[j].line \in Nat /\ s.locations[j].line >= 1
    BY <2>1, TextType
  <2>3. s.line < s.locations[j].line
    BY <2>1, <2>2, AroundBefore
  <2> QED BY <1>3, <2>2, <2>3
<1>5. text[n].word # "server" =>
         LastOf("server", s.line, n + 1) /\ s.line \in Before(0, "server", n + 1)
  BY <1>1, <1>2, LastMore, BeforeMore
<1>6. CASE text[n].word \in ServerWords
  <2> DEFINE k == WithDirective(s, text[n])
  <2>1. text[n].word \notin {"server", "location", "}"}
    BY <1>6 DEF ServerWords, SettingWords
  <2>2. Nested(n + 1, 1)
    BY <1>1, <1>2, <2>1, NestedMore DEF Opens, Closes
  <2>3. ServerRead(k, n + 1, n + 1) /\ PortsRead(k, n + 1) /\ k.line = s.line
    BY <1>2, <1>3, <1>4, <1>6, ServerMore
  <2> HIDE DEF k
  <2>4. ReadAt("server", n + 1, mn, ss, k, l)
    BY <1>1, <1>3, <1>5, <2>1, <2>2, <2>3 DEF ReadAt, LevelOf
  <2> QED BY <2>1, <2>4 DEF k
<1>7. CASE text[n].word = "location"
  <2> DEFINE k == NewLocation(text[n].ref, n)
  <2>1. Opens(n) /\ Depth(n) = 1 + 1 /\ 1 \in Nat /\ 1 + 1 = 2
    BY <1>7 DEF Opens, Depth
  <2>2. Nested(n + 1, 2)
    BY <1>1, <1>2, <2>1, NestedMore
  <2>3. LocationRead(k, n + 1)
    BY NewBlocks
  <2>4. k.line = n
    BY DEF NewLocation
  <2>5. LastOf("location", n, n + 1) /\ n \in Before(s.line, "location", n + 1)
    <3>1. LastOf("location", n, n + 1)
      BY <1>1, <1>7, LastMore
    <3>2. Before(s.line, "location", n + 1) = Before(s.line, "location", n) \union {n}
      BY <1>3, <1>7, BeforeMore
    <3> QED BY <3>1, <3>2
  <2>6. ServerRead(s, n + 1, n) /\ PortsRead(s, n + 1)
    <3>1. Unsaid(n, s.line, ServerWords)
      BY <1>7 DEF Unsaid, ServerWords, SettingWords
    <3> QED BY <1>2, <1>4, <3>1, ServerKept
  <2>7. text[n].word # "server"
    BY <1>7
  <2> HIDE DEF k
  <2>8. ReadAt("location", n + 1, mn, ss, s, k)
    BY <1>1, <1>3, <1>5, <2>2, <2>3, <2>4, <2>5, <2>6, <2>7 DEF ReadAt, LevelOf
  <2> QED BY <1>7, <2>8 DEF k, ServerWords, SettingWords
<1> QED BY <1>6, <1>7

\* sortLocations puts the locations in another order.
LEMMA SortedLocations ==
  ASSUME NEW ls, ls \in Seq(ToSet(ls)), NEW sorted \in SortLocations(ls)
  PROVE  /\ DOMAIN sorted = DOMAIN ls /\ Sorted(sorted) /\ sorted \in Seq(ToSet(sorted))
         /\ \A j \in DOMAIN sorted : \E i \in DOMAIN ls : sorted[j] = ls[i]
         /\ \A i \in DOMAIN ls : \E j \in DOMAIN sorted : sorted[j] = ls[i]
         /\ LinesOf(sorted) = LinesOf(ls)
<1>1. PICK p \in Bijection(DOMAIN ls, DOMAIN ls) : sorted = [i \in DOMAIN ls |-> ls[p[i]]]
  BY DEF SortLocations
<1>2. p \in [DOMAIN ls -> DOMAIN ls] /\ \A i \in DOMAIN ls : \E j \in DOMAIN ls : p[j] = i
  BY DEF Bijection, Surjection
<1>3. DOMAIN sorted = DOMAIN ls /\ \A i \in DOMAIN ls : p[i] \in DOMAIN ls /\ sorted[i] = ls[p[i]]
  BY <1>1, <1>2
<1>4. Sorted(sorted)
  BY DEF SortLocations, Sorted
<1>5. sorted \in Seq(ToSet(sorted))
  <2>1. Len(ls) \in Nat /\ DOMAIN ls = 1..Len(ls)
    BY LenProperties
  <2>2. \A i \in 1..Len(ls) : sorted[i] \in ToSet(sorted)
    BY <1>3, <2>1 DEF ToSet
  <2>3. sorted = [i \in 1..Len(ls) |-> sorted[i]]
    BY <1>1, <1>3, <2>1
  <2> QED BY <2>1, <2>2, <2>3
<1>6. \A j \in DOMAIN sorted : \E i \in DOMAIN ls : sorted[j] = ls[i]
  BY <1>3
<1>7. \A i \in DOMAIN ls : \E j \in DOMAIN sorted : sorted[j] = ls[i]
  BY <1>2, <1>3
<1>8. LinesOf(sorted) = LinesOf(ls)
  <2>1. ASSUME NEW x \in LinesOf(sorted) PROVE x \in LinesOf(ls)
    BY <1>6, <2>1 DEF LinesOf
  <2>2. ASSUME NEW x \in LinesOf(ls) PROVE x \in LinesOf(sorted)
    <3>1. PICK i \in DOMAIN ls : x = ls[i].line
      BY <2>2 DEF LinesOf
    <3>2. PICK j \in DOMAIN sorted : sorted[j] = ls[i]
      BY <1>7
    <3> QED BY <3>1, <3>2 DEF LinesOf
  <2> QED BY <2>1, <2>2
<1> QED BY <1>3, <1>4, <1>5, <1>6, <1>7, <1>8

\* A server whose block is closed.
ClosedServer(s, sorted) == [WithDefaultPort(s) EXCEPT !.locations = sorted]

LEMMA ServerClosed ==
  ASSUME NEW n, NEW s, ServerRead(s, n, n), PortsRead(s, n), NEW sorted \in SortLocations(s.locations)
  PROVE  LET k == ClosedServer(s, sorted)
         IN  /\ k.line = s.line /\ ServerRead(k, n, n) /\ Sorted(k.locations)
             /\ ToSet(k.ports) = PortsOr(Before(s.line, "listen", n))
<1> DEFINE w == WithDefaultPort(s)
           k == ClosedServer(s, sorted)
<1>1. /\ DOMAIN s = ServerFields /\ s.settings = SettingsOf(s.line, n)
      /\ s.errorPages = Pages(Before(s.line, "error_page", n)) /\ s.cgis = Scripts(Before(s.line, "cgi", n))
      /\ s.names \in Seq(ToSet(s.names)) /\ ToSet(s.names) = NamesIn(Before(s.line, "server_name", n))
      /\ s.locations \in Seq(ToSet(s.locations)) /\ LinesOf(s.locations) = Before(s.line, "location", n)
      /\ \A j \in DOMAIN s.locations : LocationRead(s.locations[j], n)
      /\ s.ports \in Seq(ToSet(s.ports)) /\ ToSet(s.ports) = PortsIn(Before(s.line, "listen", n))
  BY DEF ServerRead, PortsRead
<1>2. DOMAIN s = ServerFields
  BY <1>1
<1>3. /\ DOMAIN w = ServerFields /\ w.line = s.line /\ w.settings = s.settings /\ w.names = s.names
      /\ w.errorPages = s.errorPages /\ w.cgis = s.cgis
      /\ w.ports = IF s.ports = <<>> THEN <<DefaultPort>> ELSE s.ports
  BY <1>2 DEF WithDefaultPort, ServerFields
<1> HIDE DEF w
<1>4. k = [w EXCEPT !.locations = sorted]
  BY DEF ClosedServer, w
<1> HIDE DEF k
<1>5. /\ DOMAIN k = ServerFields /\ k.line = s.line /\ k.settings = s.settings /\ k.names = s.names
      /\ k.errorPages = s.errorPages /\ k.cgis = s.cgis /\ k.ports = w.ports /\ k.locations = sorted
  BY <1>3, <1>4 DEF ServerFields
<1>6. /\ DOMAIN sorted = DOMAIN s.locations /\ Sorted(sorted) /\ sorted \in Seq(ToSet(sorted))
      /\ \A j \in DOMAIN sorted : \E i \in DOMAIN s.locations : sorted[j] = s.locations[i]
      /\ LinesOf(sorted) = LinesOf(s.locations)
  BY <1>1, SortedLocations
<1>7. ServerRead(k, n, n)
  <2>1. \A j \in DOMAIN k.locations : LocationRead(k.locations[j], n)
    BY <1>1, <1>5, <1>6
  <2>2. k.settings = SettingsOf(k.line, n)
    BY <1>1, <1>5
  <2> QED BY <1>1, <1>5, <1>6, <2>1, <2>2 DEF ServerRead
<1>8. ToSet(k.ports) = PortsOr(Before(s.line, "listen", n))
  <2> DEFINE S == Before(s.line, "listen", n)
  <2>1. s.ports = <<>> <=> S = {}
    <3>1. s.ports = <<>> <=> ToSet(s.ports) = {}
      BY <1>1, SetOfNone
    <3>2. PortsIn(S) = {} <=> S = {}
      BY DEF PortsIn
    <3> QED BY <1>1, <3>1, <3>2
  <2>2. ToSet(<<DefaultPort>>) = {DefaultPort}
    BY DEF ToSet
  <2> QED BY <1>1, <1>3, <1>5, <2>1, <2>2 DEF PortsOr
<1> QED BY <1>5, <1>6, <1>7, <1>8 DEF k
\* The last block of a kind comes after all others of the same outer block.
LEMMA LastBefore ==
  ASSUME text \in Texts, NEW n \in Nat, n >= 1, NEW b, NEW word, NEW p, LastOf(word, p, n), p \in Before(b, word, n)
  PROVE  Before(b, word, n) = Before(b, word, p) \union {p}
<1>1. p \in 1..(n - 1) /\ p \in Nat /\ p >= 1 /\ p < n
  BY DEF LastOf
<1>2. /\ Before(b, word, n) = {q \in DOMAIN text : text[q].word = word /\ Around(q) = b /\ q < n}
      /\ Before(b, word, p) = {q \in DOMAIN text : text[q].word = word /\ Around(q) = b /\ q < p}
  BY <1>1, BeforeType
<1>3. \A q \in DOMAIN text : q \in Nat
  BY TextType
<1>4. \A q \in DOMAIN text : text[q].word = word /\ q < n => q <= p
  <2> SUFFICES ASSUME NEW q \in DOMAIN text, text[q].word = word, q < n PROVE q <= p
    OBVIOUS
  <2>1. q \notin (p + 1)..(n - 1)
    BY DEF LastOf
  <2> QED BY <1>1, <1>3, <2>1
<1>5. \A q \in DOMAIN text : q < p => q < n
  BY <1>1, <1>3
<1>6. \A q \in DOMAIN text : q <= p => q < p \/ q = p
  BY <1>1, <1>3
<1> QED BY <1>2, <1>4, <1>5, <1>6

\* A closing brace is nothing else.
LEMMA ClosesOnly ==
  ASSUME NEW n, Closes(n)
  PROVE  /\ text[n].word # "server" /\ text[n].word # "location"
         /\ text[n].word \notin ServerWords /\ text[n].word \notin LocationWords
         /\ text[n].word \notin {"server"} /\ text[n].word \notin {"location"}
BY DEF Closes, ServerWords, LocationWords, SettingWords

LEMMA ServerEnd ==
  ASSUME text \in Texts, NEW n \in DOMAIN text, NEW mn, NEW ss, NEW s, NEW l, ReadAt("server", n, mn, ss, s, l),
         Closes(n), NEW sorted \in SortLocations(s.locations), NEW other
  PROVE  ReadAt("main", n + 1, mn, Append(ss, ClosedServer(s, sorted)), other, l)
<1> DEFINE k == ClosedServer(s, sorted)
           S == Before(0, "server", s.line)
           tt == Append(ss, k)
<1>1. n \in Nat /\ n >= 1 /\ n + 1 \in 1..(Len(text) + 1) /\ n + 1 \in Nat /\ n + 1 >= 1
  BY TextType
<1>2. /\ Nested(n, 1) /\ ServerRead(s, n, n) /\ PortsRead(s, n)
      /\ LastOf("server", s.line, n) /\ s.line \in Before(0, "server", n)
  BY DEF ReadAt, LevelOf
<1>3. /\ s.line \in Nat /\ s.line >= 1 /\ ServersRead(ss, n + 1, s.line) /\ SettingsOf(0, n + 1) = mn
  BY <1>1, ServerPlace, ClosedKept
<1>4. Nested(n + 1, 0)
  <2>1. 1 \in Nat /\ 1 >= 1 /\ 1 - 1 = 0
    OBVIOUS
  <2> QED BY <1>1, <1>2, <2>1, NestedMore
<1>5. ServerRead(s, n + 1, n + 1) /\ PortsRead(s, n + 1)
  <2>1. Unsaid(n, s.line, ServerWords) /\ Unsaid(n, s.line, {"location"}) /\ \A p : Unsaid(n, p, LocationWords)
    BY ClosesOnly DEF Unsaid
  <2> QED BY <1>2, <2>1, ServerKept
<1>6. /\ k.line = s.line /\ ServerRead(k, n + 1, n + 1) /\ Sorted(k.locations)
      /\ ToSet(k.ports) = PortsOr(Before(k.line, "listen", n + 1))
  BY <1>5, ServerClosed
<1>7. Before(0, "server", n + 1) = S \union {s.line}
  <2>1. Before(0, "server", n + 1) = Before(0, "server", n)
    BY ClosesOnly, BeforeMore
  <2> QED BY <1>1, <1>2, <2>1, LastBefore
<1>8. IsFiniteSet(S) /\ Cardinality(S) \in Nat /\ \A p \in S : p \in Nat /\ p < s.line
  BY <1>3, BeforeType
<1>9. /\ Cardinality(S \union {s.line}) = Cardinality(S) + 1
      /\ \A i \in 1..Cardinality(S) : InOrder(S \union {s.line})[i] = InOrder(S)[i]
      /\ InOrder(S \union {s.line})[Cardinality(S) + 1] = s.line
  <2> HIDE DEF S
  <2> QED BY <1>3, <1>8, InOrderMore
<1>10. /\ ss \in Seq(ToSet(ss)) /\ Len(ss) = Cardinality(S)
       /\ \A i \in DOMAIN ss :
            /\ ss[i].line = InOrder(S)[i]
            /\ ServerRead(ss[i], n + 1, n + 1)
            /\ ToSet(ss[i].ports) = PortsOr(Before(ss[i].line, "listen", n + 1))
            /\ Sorted(ss[i].locations)
  BY <1>3 DEF ServersRead
<1> HIDE DEF k
<1>11. /\ tt \in Seq(ToSet(tt)) /\ Len(tt) = Cardinality(S) + 1
       /\ DOMAIN ss = 1..Cardinality(S) /\ DOMAIN tt = 1..(Cardinality(S) + 1)
       /\ \A i \in 1..Cardinality(S) : tt[i] = ss[i]
       /\ tt[Cardinality(S) + 1] = k
  BY SMTT(40), <1>10, SetOfAppend
<1> HIDE DEF tt, S
<1>12. ASSUME NEW i \in DOMAIN tt
       PROVE  /\ tt[i].line = InOrder(Before(0, "server", n + 1))[i]
              /\ ServerRead(tt[i], n + 1, n + 1)
              /\ ToSet(tt[i].ports) = PortsOr(Before(tt[i].line, "listen", n + 1))
              /\ Sorted(tt[i].locations)
  <2>1. CASE i \in 1..Cardinality(S)
    <3>1. tt[i] = ss[i] /\ InOrder(Before(0, "server", n + 1))[i] = InOrder(S)[i]
      BY <1>7, <1>9, <1>11, <2>1
    <3> QED BY <1>10, <1>11, <2>1, <3>1
  <2>2. CASE i = Cardinality(S) + 1
    <3>1. tt[i] = k /\ InOrder(Before(0, "server", n + 1))[i] = s.line
      BY <1>7, <1>9, <1>11, <2>2
    <3> QED BY <1>6, <3>1
  <2>3. i \in 1..Cardinality(S) \/ i = Cardinality(S) + 1
    BY <1>8, <1>11
  <2> QED BY <2>1, <2>2, <2>3
<1>13. ServersRead(tt, n + 1, n + 1)
  BY <1>7, <1>9, <1>11, <1>12 DEF ServersRead
<1>14. ReadAt("main", n + 1, mn, tt, other, l)
  BY <1>1, <1>3, <1>4, <1>13 DEF ReadAt, LevelOf
<1> QED BY <1>14 DEF tt, k

LEMMA LocationStep ==
  ASSUME text \in Texts, NEW n \in DOMAIN text, NEW mn, NEW ss, NEW s, NEW l, ReadAt("location", n, mn, ss, s, l)
  PROVE  /\ text[n].word \in LocationWords => ReadAt("location", n + 1, mn, ss, s, WithEntry(l, text[n]))
         /\ Closes(n) =>
              \A other : ReadAt("server", n + 1, mn, ss, [s EXCEPT !.locations = Append(@, l)], other)
<1>1. n \in Nat /\ n >= 1 /\ n + 1 \in 1..(Len(text) + 1) /\ n + 1 \in Nat /\ n + 1 >= 1
  BY TextType
<1>2. /\ Nested(n, 2) /\ ServerRead(s, n, l.line) /\ PortsRead(s, n) /\ LocationRead(l, n)
      /\ LastOf("server", s.line, n) /\ s.line \in Before(0, "server", n)
      /\ LastOf("location", l.line, n) /\ l.line \in Before(s.line, "location", n)
  BY DEF ReadAt, LevelOf
<1>3. /\ Around(n) = l.line /\ l.line \in Nat /\ l.line >= 1 /\ l.line < n /\ l.line # s.line
      /\ ServersRead(ss, n + 1, s.line) /\ SettingsOf(0, n + 1) = mn
  BY <1>1, ServerPlace, ClosedKept
<1>4. \A j \in DOMAIN s.locations : s.locations[j].line # l.line
  <2> SUFFICES ASSUME NEW j \in DOMAIN s.locations PROVE s.locations[j].line # l.line
    OBVIOUS
  <2>1. s.locations[j].line \in DOMAIN text /\ s.locations[j].line < l.line
    BY <1>1, <1>2, <1>3, ServerLines
  <2>2. s.locations[j].line \in Nat
    BY <2>1, TextType
  <2> QED BY <1>3, <2>1, <2>2
<1>5. ServerRead(s, n + 1, l.line) /\ PortsRead(s, n + 1)
  <2>1. Unsaid(n, s.line, ServerWords) /\ \A j \in DOMAIN s.locations : Unsaid(n, s.locations[j].line, LocationWords)
    BY <1>3, <1>4 DEF Unsaid
  <2> QED BY <1>2, <2>1, ServerKept
<1>6. /\ text[n].word # "server" => LastOf("server", s.line, n + 1)
      /\ text[n].word # "location" => LastOf("location", l.line, n + 1)
  BY <1>1, <1>2, LastMore
<1>7. /\ text[n].word # "server" => Before(0, "server", n + 1) = Before(0, "server", n)
      /\ text[n].word # "location" => Before(s.line, "location", n + 1) = Before(s.line, "location", n)
  BY BeforeMore
<1>8. CASE text[n].word \in LocationWords
  <2> DEFINE k == WithEntry(l, text[n])
  <2>1. text[n].word \notin {"server", "location", "}"}
    BY <1>8 DEF LocationWords, SettingWords
  <2>2. Nested(n + 1, 2)
    BY <1>1, <1>2, <2>1, NestedMore DEF Opens, Closes
  <2>3. LocationRead(k, n + 1) /\ k.line = l.line
    BY <1>2, <1>3, <1>8, LocationMore
  <2> HIDE DEF k
  <2>4. ReadAt("location", n + 1, mn, ss, s, k)
    BY <1>1, <1>2, <1>3, <1>5, <1>6, <1>7, <2>1, <2>2, <2>3 DEF ReadAt, LevelOf
  <2>5. ~Closes(n)
    BY <2>1 DEF Closes
  <2> QED BY <2>4, <2>5 DEF k
<1>9. CASE Closes(n)
  <2> DEFINE ls == Append(s.locations, l)
             k == [s EXCEPT !.locations = Append(@, l)]
  <2>1. Nested(n + 1, 1)
    <3>1. 2 \in Nat /\ 2 >= 1 /\ 2 - 1 = 1
      OBVIOUS
    <3> QED BY <1>1, <1>2, <1>9, <3>1, NestedMore
  <2>2. LocationRead(l, n + 1)
    <3>1. Unsaid(n, l.line, LocationWords)
      BY <1>9, ClosesOnly DEF Unsaid
    <3> QED BY <1>2, <3>1, LocationKept
  <2>3. DOMAIN s = ServerFields
    BY <1>2 DEF ServerRead
  <2>4. /\ DOMAIN k = ServerFields /\ k.line = s.line /\ k.settings = s.settings /\ k.names = s.names
        /\ k.errorPages = s.errorPages /\ k.cgis = s.cgis /\ k.ports = s.ports /\ k.locations = ls
    BY <2>3 DEF ServerFields
  <2>5. /\ s.settings = SettingsOf(s.line, n + 1)
        /\ s.errorPages = Pages(Before(s.line, "error_page", n + 1)) /\ s.cgis = Scripts(Before(s.line, "cgi", n + 1))
        /\ s.names \in Seq(ToSet(s.names)) /\ ToSet(s.names) = NamesIn(Before(s.line, "server_name", n + 1))
        /\ s.locations \in Seq(ToSet(s.locations)) /\ LinesOf(s.locations) = Before(s.line, "location", l.line)
        /\ \A j \in DOMAIN s.locations : LocationRead(s.locations[j], n + 1)
    BY <1>5 DEF ServerRead
  <2>6. /\ ls \in Seq(ToSet(ls)) /\ Len(s.locations) \in Nat /\ DOMAIN s.locations = 1..Len(s.locations)
        /\ DOMAIN ls = 1..(Len(s.locations) + 1)
        /\ \A i \in 1..Len(s.locations) : ls[i] = s.locations[i]
        /\ ls[Len(s.locations) + 1] = l
    BY <2>5, SetOfAppend
  <2> HIDE DEF ls, k
  <2>7. \A i \in DOMAIN ls : i \in DOMAIN s.locations \/ i = Len(s.locations) + 1
    BY <2>6
  <2>8. \A j \in DOMAIN ls : LocationRead(ls[j], n + 1)
    BY <2>2, <2>5, <2>6, <2>7
  <2>9. LinesOf(ls) = LinesOf(s.locations) \union {l.line}
    <3>1. ASSUME NEW x \in LinesOf(ls) PROVE x \in LinesOf(s.locations) \union {l.line}
      <4>1. PICK i \in DOMAIN ls : x = ls[i].line
        BY <3>1 DEF LinesOf
      <4> QED BY <2>6, <2>7, <4>1 DEF LinesOf
    <3>2. LinesOf(s.locations) \subseteq LinesOf(ls)
      <4>1. \A i \in DOMAIN s.locations : i \in DOMAIN ls /\ ls[i] = s.locations[i]
        BY <2>6
      <4> QED BY <4>1 DEF LinesOf
    <3>3. l.line \in LinesOf(ls)
      <4>1. Len(s.locations) + 1 \in DOMAIN ls
        BY <2>6
      <4> QED BY <2>6, <4>1 DEF LinesOf
    <3> QED BY <3>1, <3>2, <3>3
  <2>10. LinesOf(ls) = Before(s.line, "location", n + 1)
    <3>1. Before(s.line, "location", n) = Before(s.line, "location", l.line) \union {l.line}
      BY <1>1, <1>2, LastBefore
    <3> QED BY <1>7, <1>9, <2>5, <2>9, <3>1, ClosesOnly
  <2>11. ServerRead(k, n + 1, n + 1)
    BY <2>4, <2>5, <2>6, <2>8, <2>10 DEF ServerRead
  <2>12. PortsRead(k, n + 1)
    BY <1>5, <2>4 DEF PortsRead
  <2>13. \A other : ReadAt("server", n + 1, mn, ss, k, other)
    BY <1>1, <1>2, <1>3, <1>6, <1>7, <1>9, <2>1, <2>4, <2>11, <2>12, ClosesOnly DEF ReadAt, LevelOf
  <2> QED BY <1>9, <2>13, ClosesOnly DEF k
<1> QED BY <1>8, <1>9
-----------------------------------------------------------------------------
(***************************************************************************)
(* The text stays, and so does all that is read of it.                     *)
(***************************************************************************)
LEMMA SameAround ==
  ASSUME text' = text
  PROVE  /\ \A p : (Opens(p)' <=> Opens(p)) /\ (Closes(p)' <=> Closes(p))
         /\ \A p : Around(p)' = Around(p)
         /\ \A b, word : Says(b, word)' = Says(b, word)
         /\ \A b, word, n : Before(b, word, n)' = Before(b, word, n)
<1>1. \A p : (Opens(p)' <=> Opens(p)) /\ (Closes(p)' <=> Closes(p))
  BY DEF Opens, Closes
<1>2. \A p : Around(p)' = Around(p)
  BY DEF Around, Opens, Closes
<1>3. \A b, word : Says(b, word)' = Says(b, word)
  BY <1>2 DEF Says
<1>4. \A b, word, n : Before(b, word, n)' = Before(b, word, n)
  BY <1>3 DEF Before
<1> QED BY <1>1, <1>2, <1>3, <1>4

LEMMA SameRead ==
  ASSUME text' = text
  PROVE  \A b, n, mn, ss, s, l : ReadAt(b, n, mn, ss, s, l)' <=> ReadAt(b, n, mn, ss, s, l)
<1>1. \A b, word, n : Before(b, word, n)' = Before(b, word, n)
  BY SameAround
<1>2. \A n, level : Nested(n, level)' <=> Nested(n, level)
  BY DEF Nested, Openings, Closings, Opens, Closes, Depth
<1>3. \A word, p, n : LastOf(word, p, n)' <=> LastOf(word, p, n)
  BY DEF LastOf
<1>4. \A S : /\ Scripts(S)' = Scripts(S) /\ Pages(S)' = Pages(S) /\ Files(S)' = Files(S) 
             /\ NamesIn(S)' = NamesIn(S) /\ PortsIn(S)' = PortsIn(S) /\ PortsOr(S)' = PortsOr(S)
             /\ AllowedBy(S)' = AllowedBy(S) /\ LimitBy(S)' = LimitBy(S) /\ AutoindexBy(S)' = AutoindexBy(S)
  BY DEF Scripts, Pages, Files, NamesIn, PortsIn, PortsOr, AllowedBy, LimitBy, AutoindexBy, Script, Page
<1>5. \A b, n : SettingsOf(b, n)' = SettingsOf(b, n)
  BY <1>1, <1>4 DEF SettingsOf
<1>6. \A l, n : LocationRead(l, n)' <=> LocationRead(l, n)
  BY <1>1, <1>4, <1>5 DEF LocationRead
<1>7. \A s, n, m : ServerRead(s, n, m)' <=> ServerRead(s, n, m)
  BY <1>1, <1>4, <1>5, <1>6 DEF ServerRead
<1>8. \A s, n : PortsRead(s, n)' <=> PortsRead(s, n)
  BY <1>1, <1>4 DEF PortsRead
<1>9. \A ss, n, m : ServersRead(ss, n, m)' <=> ServersRead(ss, n, m)
  BY <1>1, <1>4, <1>7 DEF ServersRead
<1> QED BY <1>1, <1>2, <1>3, <1>5, <1>6, <1>7, <1>8, <1>9 DEF ReadAt
-----------------------------------------------------------------------------
(***************************************************************************)
(* At the end of the text: what the servers hold then.                     *)
(***************************************************************************)
LocationReady(l) ==
  /\ l.ref = text[l.line].ref
  /\ l.redirect \in BOOLEAN
  /\ l.redirect <=> Says(l.line, "redirect") # {}
  /\ l.index \in Seq(ToSet(l.index))
  /\ ToSet(l.index) = Files(Says(l.line, "index"))
  /\ l.cgis = Scripts(CgisIn(l.line))
  /\ l.settings.allowed.value = AllowedIn(l.line)
  /\ l.settings.bodySize.value = LimitIn(l.line)
  /\ l.settings.autoindex.value = AutoindexIn(l.line)

ServerReady(s) ==
  /\ ToSet(s.ports) = PortsOf(s.line)
  /\ ToSet(s.names) = NamesOf(s.line)
  /\ s.errorPages = Pages(Says(s.line, "error_page"))
  /\ s.locations \in Seq(ToSet(s.locations))
  /\ LinesOf(s.locations) = Locations(s.line)
  /\ Sorted(s.locations)
  /\ \A j \in DOMAIN s.locations : LocationReady(s.locations[j])

ServersReady(ss) ==
  /\ ss \in Seq(ToSet(ss))
  /\ Len(ss) = Cardinality(Servers)
  /\ \A i \in DOMAIN ss : ss[i].line = InOrder(Servers)[i] /\ ServerReady(ss[i])

LEMMA SaysType ==
  ASSUME text \in Texts, NEW b, NEW word
  PROVE  /\ Says(b, word) = Before(b, word, Len(text) + 1)
         /\ IsFiniteSet(Says(b, word)) /\ Cardinality(Says(b, word)) \in Nat
         /\ Says(b, word) \subseteq Nat
         /\ \A p \in Says(b, word) : p \in DOMAIN text /\ p \in Nat /\ p >= 1 /\ text[p].word = word /\ Around(p) = b
         /\ Says(b, word) # {} => /\ Max(Says(b, word)) \in Says(b, word) /\ Max(Says(b, word)) # 0
                                  /\ \A p \in Says(b, word) : p <= Max(Says(b, word))
<1>1. Len(text) \in Nat /\ Len(text) + 1 \in Nat /\ Len(text) + 1 >= 1 /\ DOMAIN text = 1..Len(text)
  BY TextType
<1>2. Says(b, word) \subseteq 1..Len(text)
  BY <1>1 DEF Says
<1>3. Says(b, word) = Before(b, word, Len(text) + 1)
  BY <1>1, <1>2 DEF Before
<1>4. IsFiniteSet(Says(b, word)) /\ Cardinality(Says(b, word)) \in Nat
  BY <1>1, <1>2, FiniteBefore
<1>5. \A p \in Says(b, word) : p \in DOMAIN text /\ text[p].word = word /\ Around(p) = b
  BY DEF Says
<1>6. \A p \in DOMAIN text : p \in Nat /\ p >= 1 /\ p # 0
  BY <1>1
<1>7. Says(b, word) # {} => /\ Max(Says(b, word)) \in Says(b, word) 
                            /\ \A p \in Says(b, word) : p <= Max(Says(b, word))
  BY <1>1, <1>2, MaxMember
<1> QED BY <1>3, <1>4, <1>5, <1>6, <1>7

LEMMA InForceIs ==
  ASSUME NEW l, NEW word
  PROVE  InForce(l, word) =
           IF Says(l, word) # {} THEN Max(Says(l, word))
           ELSE IF Says(Around(l), word) # {} THEN Max(Says(Around(l), word))
           ELSE IF Says(0, word) # {} THEN Max(Says(0, word)) ELSE 0
<1> DEFINE A == Says(l, word)
           B == Says(Around(l), word)
           C == Says(0, word)
           levels == <<A, B, C>>
           K == {i \in 1..3 : levels[i] # {}}
<1>1. InForce(l, word) = IF Least(K) = 0 THEN 0 ELSE Max(levels[Least(K)])
  BY DEF InForce
<1> HIDE DEF A, B, C
<1>2. levels[1] = A /\ levels[2] = B /\ levels[3] = C
  OBVIOUS
<1>3. 1..3 = {1, 2, 3}
  OBVIOUS
<1>4. K \subseteq Nat
  OBVIOUS
<1>5. (1 \in K <=> A # {}) /\ (2 \in K <=> B # {}) /\ (3 \in K <=> C # {}) /\ \A i \in K : i \in {1, 2, 3}
  BY <1>2, <1>3
<1> HIDE DEF levels, K
<1>6. CASE A # {}
  <2>1. 1 \in K /\ \A i \in K : 1 <= i
    BY <1>5, <1>6
  <2>2. Least(K) = 1
    BY <1>4, <2>1, LeastIs
  <2> QED BY <1>1, <1>2, <1>6, <2>2 DEF A, B, C
<1>7. CASE A = {} /\ B # {}
  <2>1. 2 \in K /\ \A i \in K : 2 <= i
    BY <1>5, <1>7
  <2>2. Least(K) = 2
    BY <1>4, <2>1, LeastIs
  <2> QED BY <1>1, <1>2, <1>7, <2>2 DEF A, B, C
<1>8. CASE A = {} /\ B = {} /\ C # {}
  <2>1. 3 \in K /\ \A i \in K : 3 <= i
    BY <1>5, <1>8
  <2>2. Least(K) = 3
    BY <1>4, <2>1, LeastIs
  <2> QED BY <1>1, <1>2, <1>8, <2>2 DEF A, B, C
<1>9. CASE A = {} /\ B = {} /\ C = {}
  <2>1. K = {}
    BY <1>5, <1>9
  <2>2. Least(K) = 0
    BY <1>4, <2>1, LeastMember
  <2> QED BY <1>1, <1>9, <2>2 DEF A, B, C
<1> QED BY <1>6, <1>7, <1>8, <1>9

\* A setting that stands nearest: what is inherited is what is in force.
LEMMA SettingsInForce ==
  ASSUME text \in Texts, NEW l, NEW b, Around(l) = b
  PROVE  LET n == Len(text) + 1
             t == Inherited(Inherited(SettingsOf(0, n), SettingsOf(b, n)), SettingsOf(l, n))
         IN  /\ t.allowed.value = AllowedIn(l)
             /\ t.bodySize.value = LimitIn(l)
             /\ t.autoindex.value = AutoindexIn(l)
<1> DEFINE n == Len(text) + 1
           t == Inherited(Inherited(SettingsOf(0, n), SettingsOf(b, n)), SettingsOf(l, n))
           Nearest(outer, inner) == IF ~outer.default /\ inner.default THEN outer ELSE inner
<1>1. \A w, c : Before(c, w, n) = Says(c, w)
  BY SaysType
<1>2. \A c : /\ SettingsOf(c, n).allowed = AllowedBy(Says(c, "allowed_methods"))
             /\ SettingsOf(c, n).bodySize = LimitBy(Says(c, "client_max_body_size"))
             /\ SettingsOf(c, n).autoindex = AutoindexBy(Says(c, "autoindex"))
             /\ DOMAIN SettingsOf(c, n) = {"allowed", "bodySize", "autoindex"}
  BY <1>1 DEF SettingsOf
<1>3. \A o, i : DOMAIN i = {"allowed", "bodySize", "autoindex"} =>
         /\ DOMAIN Inherited(o, i) = {"allowed", "bodySize", "autoindex"}
         /\ Inherited(o, i).allowed = Nearest(o.allowed, i.allowed)
         /\ Inherited(o, i).bodySize = Nearest(o.bodySize, i.bodySize)
         /\ Inherited(o, i).autoindex = Nearest(o.autoindex, i.autoindex)
  BY DEF Inherited
<1> HIDE DEF n, Nearest
<1>4. /\ t.allowed = Nearest(Nearest(SettingsOf(0, n).allowed, SettingsOf(b, n).allowed), SettingsOf(l, n).allowed)
      /\ t.bodySize = Nearest(Nearest(SettingsOf(0, n).bodySize, SettingsOf(b, n).bodySize), SettingsOf(l, n).bodySize)
      /\ t.autoindex = Nearest(Nearest(SettingsOf(0, n).autoindex, SettingsOf(b, n).autoindex), SettingsOf(l, n).autoindex)
  <2> HIDE DEF t
  <2>1. t = Inherited(Inherited(SettingsOf(0, n), SettingsOf(b, n)), SettingsOf(l, n))
    BY DEF t
  <2> QED BY <1>2, <1>3, <2>1
<1> HIDE DEF t
<1>5. \A c, w : Says(c, w) # {} => Max(Says(c, w)) # 0
  BY SaysType
<1>6. t.allowed.value = AllowedIn(l)
  <2> DEFINE w == "allowed_methods"
  <2>1. t.allowed = Nearest(Nearest(AllowedBy(Says(0, w)), AllowedBy(Says(b, w))), AllowedBy(Says(l, w)))
    BY <1>2, <1>4
  <2>2. \A S : /\ AllowedBy(S).default <=> S = {}
               /\ AllowedBy(S).value = IF S = {} THEN {} ELSE text[Max(S)].methods
    BY DEF AllowedBy, Default, Given
  <2>3. AllowedIn(l) = LET p == InForce(l, w) IN IF p = 0 THEN {} ELSE text[p].methods
    BY DEF AllowedIn
  <2>4. InForce(l, w) =
           IF Says(l, w) # {} THEN Max(Says(l, w))
           ELSE IF Says(b, w) # {} THEN Max(Says(b, w))
           ELSE IF Says(0, w) # {} THEN Max(Says(0, w)) ELSE 0
    BY InForceIs
  <2> HIDE DEF w
  <2> QED BY <1>5, <2>1, <2>2, <2>3, <2>4 DEF Nearest
<1>7. t.bodySize.value = LimitIn(l)
  <2> DEFINE w == "client_max_body_size"
  <2>1. t.bodySize = Nearest(Nearest(LimitBy(Says(0, w)), LimitBy(Says(b, w))), LimitBy(Says(l, w)))
    BY <1>2, <1>4
  <2>2. \A S : /\ LimitBy(S).default <=> S = {}
               /\ LimitBy(S).value = IF S = {} THEN DefaultBodySize ELSE text[Max(S)].size
    BY DEF LimitBy, Default, Given
  <2>3. LimitIn(l) = LET p == InForce(l, w) IN IF p = 0 THEN DefaultBodySize ELSE text[p].size
    BY DEF LimitIn
  <2>4. InForce(l, w) =
           IF Says(l, w) # {} THEN Max(Says(l, w))
           ELSE IF Says(b, w) # {} THEN Max(Says(b, w))
           ELSE IF Says(0, w) # {} THEN Max(Says(0, w)) ELSE 0
    BY InForceIs
  <2> HIDE DEF w
  <2> QED BY <1>5, <2>1, <2>2, <2>3, <2>4 DEF Nearest
<1>8. t.autoindex.value = AutoindexIn(l)
  <2> DEFINE w == "autoindex"
  <2>1. t.autoindex = Nearest(Nearest(AutoindexBy(Says(0, w)), AutoindexBy(Says(b, w))), AutoindexBy(Says(l, w)))
    BY <1>2, <1>4
  <2>2. \A S : /\ AutoindexBy(S).default <=> S = {}
               /\ AutoindexBy(S).value = IF S = {} THEN FALSE ELSE text[Max(S)].on
    BY DEF AutoindexBy, Default, Given
  <2>3. AutoindexIn(l) = (InForce(l, w) # 0 /\ text[InForce(l, w)].on)
    BY DEF AutoindexIn
  <2>4. InForce(l, w) =
           IF Says(l, w) # {} THEN Max(Says(l, w))
           ELSE IF Says(b, w) # {} THEN Max(Says(b, w))
           ELSE IF Says(0, w) # {} THEN Max(Says(0, w)) ELSE 0
    BY InForceIs
  <2>5. \A c : Says(c, w) # {} => text[Max(Says(c, w))].on \in BOOLEAN
    BY SaysType, TextType
  <2> HIDE DEF w
  <2> QED BY ZenonT(60), <1>5, <2>1, <2>2, <2>3, <2>4, <2>5 DEF Nearest
<1> QED BY <1>6, <1>7, <1>8 DEF t, n
LEMMA ScriptsOfNone ==
  ASSUME NEW S, IsFiniteSet(S), Cardinality(S) \in Nat
  PROVE  /\ Scripts(S) = <<>> <=> S = {}
         /\ Len(Scripts(S)) = Cardinality(S) /\ Len(Pages(S)) = Cardinality(S)
         /\ DOMAIN Scripts(S) = 1..Cardinality(S) /\ DOMAIN Pages(S) = 1..Cardinality(S)
<1> DEFINE n == Cardinality(S)
<1>1. n = 0 <=> S = {}
  BY FS_EmptySet
<1>2. Scripts(S) = [k \in 1..n |-> Script(InOrder(S)[k])] /\ Pages(S) = [k \in 1..n |-> Page(InOrder(S)[k])]
  BY DEF Scripts, Pages
<1> HIDE DEF n
<1>3. n \in Nat
  BY DEF n
<1>4. DOMAIN Scripts(S) = 1..n /\ DOMAIN Pages(S) = 1..n /\ Len(Scripts(S)) = n /\ Len(Pages(S)) = n
  BY <1>2, <1>3
<1>5. S # {} => Scripts(S) # <<>>
  <2>1. DOMAIN <<>> = {}
    OBVIOUS
  <2>2. S # {} => 1 \in 1..n
    BY <1>1, <1>3
  <2> QED BY <1>4, <2>1, <2>2
<1>6. S = {} => Scripts(S) = <<>>
  BY NothingSaid
<1> QED BY <1>4, <1>5, <1>6 DEF n

LEMMA LocationEnds ==
  ASSUME text \in Texts, NEW l, LocationRead(l, Len(text) + 1), NEW s, Around(l.line) = s.line,
         s.settings = Inherited(SettingsOf(0, Len(text) + 1), SettingsOf(s.line, Len(text) + 1)),
         s.cgis = Scripts(Says(s.line, "cgi"))
  PROVE  LET k == LocationOf(s, l)
         IN  LocationReady(k) /\ k.line = l.line /\ (Leads(k) <=> Leads(l)) /\ k.ref = l.ref
<1> DEFINE n == Len(text) + 1
           k == LocationOf(s, l)
           t == Inherited(s.settings, l.settings)
           g == IF l.cgis = <<>> THEN s.cgis ELSE l.cgis
<1>1. /\ DOMAIN l = LocationFields /\ l.settings = SettingsOf(l.line, n) /\ l.ref = text[l.line].ref
      /\ l.redirect \in BOOLEAN /\ (l.redirect <=> Before(l.line, "redirect", n) # {})
      /\ l.index \in Seq(ToSet(l.index)) /\ ToSet(l.index) = Files(Before(l.line, "index", n))
      /\ l.cgis = Scripts(Before(l.line, "cgi", n))
  BY DEF LocationRead
<1>2. \A w : Before(l.line, w, n) = Says(l.line, w)
  BY SaysType
<1>3. DOMAIN l = LocationFields
  BY <1>1
<1>4. /\ k.line = l.line /\ k.ref = l.ref /\ k.redirect = l.redirect /\ k.root = l.root /\ k.index = l.index
      /\ k.settings = t /\ k.cgis = g
  <2>1. k = [l EXCEPT !.settings = t, !.cgis = g]
    BY DEF LocationOf
  <2> HIDE DEF k, t, g
  <2> QED BY <1>3, <2>1 DEF LocationFields
<1>5. g = Scripts(CgisIn(l.line))
  <2>1. l.cgis = <<>> <=> Says(l.line, "cgi") = {}
    BY <1>1, <1>2, SaysType, ScriptsOfNone
  <2>2. l.cgis = Scripts(Says(l.line, "cgi"))
    BY <1>1, <1>2
  <2>3. CgisIn(l.line) = IF Says(l.line, "cgi") # {} THEN Says(l.line, "cgi") ELSE Says(s.line, "cgi")
    BY DEF CgisIn
  <2> QED BY <2>1, <2>2, <2>3
<1>6. t = Inherited(Inherited(SettingsOf(0, n), SettingsOf(s.line, n)), SettingsOf(l.line, n))
  BY <1>1
<1> HIDE DEF k, t, g
<1>7. /\ t.allowed.value = AllowedIn(l.line) /\ t.bodySize.value = LimitIn(l.line)
      /\ t.autoindex.value = AutoindexIn(l.line)
  BY <1>6, SettingsInForce
<1>8. LocationReady(k)
  BY <1>1, <1>2, <1>4, <1>5, <1>7 DEF LocationReady
<1>9. Leads(k) <=> Leads(l)
  BY <1>4 DEF Leads
<1> QED BY <1>4, <1>8, <1>9 DEF k

LEMMA ServerEnds ==
  ASSUME text \in Texts, NEW s, ServerRead(s, Len(text) + 1, Len(text) + 1),
         ToSet(s.ports) = PortsOr(Before(s.line, "listen", Len(text) + 1)), Sorted(s.locations),
         main = SettingsOf(0, Len(text) + 1)
  PROVE  LET k == Overridden(s)
         IN  /\ k.line = s.line /\ k.ports = s.ports /\ ServerReady(k)
             /\ DOMAIN k.locations = DOMAIN s.locations
             /\ \A j \in DOMAIN s.locations : Leads(k.locations[j]) <=> Leads(s.locations[j])
<1> DEFINE n == Len(text) + 1
           o == [s EXCEPT !.settings = Inherited(main, @)]
           ls == [j \in DOMAIN s.locations |-> LocationOf(o, s.locations[j])]
           k == Overridden(s)
<1>1. /\ DOMAIN s = ServerFields /\ s.settings = SettingsOf(s.line, n)
      /\ s.errorPages = Pages(Before(s.line, "error_page", n)) /\ s.cgis = Scripts(Before(s.line, "cgi", n))
      /\ s.names \in Seq(ToSet(s.names)) /\ ToSet(s.names) = NamesIn(Before(s.line, "server_name", n))
      /\ s.locations \in Seq(ToSet(s.locations)) /\ LinesOf(s.locations) = Before(s.line, "location", n)
      /\ \A j \in DOMAIN s.locations : LocationRead(s.locations[j], n)
  BY DEF ServerRead
<1>2. \A w : Before(s.line, w, n) = Says(s.line, w)
  BY SaysType
<1>3. DOMAIN s = ServerFields
  BY <1>1
<1>4. /\ DOMAIN o = ServerFields /\ o.line = s.line /\ o.names = s.names /\ o.ports = s.ports
      /\ o.errorPages = s.errorPages /\ o.cgis = s.cgis /\ o.locations = s.locations
      /\ o.settings = Inherited(main, s.settings)
  BY <1>3 DEF ServerFields
<1> HIDE DEF o
<1>5. k = [o EXCEPT !.locations = ls]
  <2>1. k = ServerOf(o)
    BY DEF Overridden, o
  <2>2. ServerOf(o) = [o EXCEPT !.locations = [j \in DOMAIN @ |-> LocationOf(o, @[j])]]
    BY DEF ServerOf
  <2> QED BY <1>4, <2>1, <2>2
<1> HIDE DEF k
<1>6. /\ k.line = s.line /\ k.names = s.names /\ k.ports = s.ports /\ k.errorPages = s.errorPages /\ k.locations = ls
  <2> HIDE DEF ls
  <2> QED BY <1>4, <1>5 DEF ServerFields
<1>7. Len(s.locations) \in Nat /\ DOMAIN s.locations = 1..Len(s.locations) /\ DOMAIN ls = DOMAIN s.locations
  BY <1>1, LenProperties
<1>8. ASSUME NEW j \in DOMAIN s.locations
      PROVE  /\ LocationReady(ls[j]) /\ ls[j].line = s.locations[j].line /\ ls[j].ref = s.locations[j].ref
             /\ (Leads(ls[j]) <=> Leads(s.locations[j]))
  <2>1. ls[j] = LocationOf(o, s.locations[j])
    BY <1>8
  <2>2. LocationRead(s.locations[j], n)
    BY <1>1
  <2>3. Around(s.locations[j].line) = o.line
    <3>1. s.locations[j].line \in Before(s.line, "location", n)
      BY <1>1 DEF LinesOf
    <3> QED BY <1>2, <1>4, <3>1, SaysType
  <2>4. o.settings = Inherited(SettingsOf(0, n), SettingsOf(o.line, n)) /\ o.cgis = Scripts(Says(o.line, "cgi"))
    BY <1>1, <1>2, <1>4
  <2> DEFINE one == s.locations[j]
  <2>5. one.line = s.locations[j].line /\ one.ref = s.locations[j].ref /\ (Leads(one) <=> Leads(s.locations[j]))
    OBVIOUS
  <2>6. ls[j] = LocationOf(o, one) /\ LocationRead(one, n) /\ Around(one.line) = o.line
    BY <2>1, <2>2, <2>3
  <2> HIDE DEF ls, one
  <2>7. LocationReady(LocationOf(o, one)) /\ LocationOf(o, one).line = one.line
        /\ (Leads(LocationOf(o, one)) <=> Leads(one)) /\ LocationOf(o, one).ref = one.ref
    BY <2>4, <2>6, LocationEnds
  <2> QED BY <2>5, <2>6, <2>7
<1>9. ls \in Seq(ToSet(ls))
  <2>1. \A j \in 1..Len(s.locations) : ls[j] \in ToSet(ls)
    BY <1>7 DEF ToSet
  <2>2. ls = [j \in 1..Len(s.locations) |-> ls[j]]
    BY <1>7
  <2> HIDE DEF ls
  <2> QED BY <1>7, <2>1, <2>2
<1> HIDE DEF ls
<1>10. LinesOf(ls) = Locations(s.line)
  <2>1. LinesOf(ls) = LinesOf(s.locations)
    BY <1>7, <1>8 DEF LinesOf
  <2> QED BY <1>1, <1>2, <2>1 DEF Locations
<1>11. Sorted(ls)
  BY <1>7, <1>8 DEF Sorted
<1>12. ToSet(s.ports) = PortsOf(s.line) /\ ToSet(s.names) = NamesOf(s.line)
  BY <1>1, <1>2 DEF PortsOf, NamesOf, PortsOr, PortsIn, NamesIn
<1>13. ServerReady(k)
  BY <1>1, <1>2, <1>6, <1>7, <1>8, <1>9, <1>10, <1>11, <1>12 DEF ServerReady
<1> QED BY <1>6, <1>7, <1>8, <1>13 DEF k

LEMMA TextEnds ==
  ASSUME text \in Texts, NEW ss, ServersRead(ss, Len(text) + 1, Len(text) + 1), main = SettingsOf(0, Len(text) + 1)
  PROVE  LET tt == [i \in DOMAIN ss |-> Overridden(ss[i])]
         IN  /\ ServersReady(tt) /\ DOMAIN tt = DOMAIN ss
             /\ \A i \in DOMAIN ss :
                  /\ tt[i].ports = ss[i].ports
                  /\ DOMAIN tt[i].locations = DOMAIN ss[i].locations
                  /\ \A j \in DOMAIN ss[i].locations : Leads(tt[i].locations[j]) <=> Leads(ss[i].locations[j])
<1> DEFINE n == Len(text) + 1
           tt == [i \in DOMAIN ss |-> Overridden(ss[i])]
<1>1. /\ ss \in Seq(ToSet(ss)) /\ Len(ss) = Cardinality(Before(0, "server", n))
      /\ \A i \in DOMAIN ss :
           /\ ss[i].line = InOrder(Before(0, "server", n))[i]
           /\ ServerRead(ss[i], n, n)
           /\ ToSet(ss[i].ports) = PortsOr(Before(ss[i].line, "listen", n))
           /\ Sorted(ss[i].locations)
  BY DEF ServersRead
<1>2. Before(0, "server", n) = Servers
  BY SaysType DEF Servers
<1>3. Len(ss) \in Nat /\ DOMAIN ss = 1..Len(ss) /\ DOMAIN tt = DOMAIN ss
  BY <1>1, LenProperties
<1>4. ASSUME NEW i \in DOMAIN ss
      PROVE  /\ tt[i].line = ss[i].line /\ tt[i].ports = ss[i].ports /\ ServerReady(tt[i])
             /\ DOMAIN tt[i].locations = DOMAIN ss[i].locations
             /\ \A j \in DOMAIN ss[i].locations : Leads(tt[i].locations[j]) <=> Leads(ss[i].locations[j])
  <2>1. tt[i] = Overridden(ss[i])
    OBVIOUS
  <2> HIDE DEF tt
  <2> QED BY <1>1, <2>1, ServerEnds
<1>5. tt \in Seq(ToSet(tt)) /\ Len(tt) = Len(ss)
  <2>1. \A j \in 1..Len(ss) : tt[j] \in ToSet(tt)
    BY <1>3 DEF ToSet
  <2>2. tt = [j \in 1..Len(ss) |-> tt[j]]
    BY <1>3
  <2> HIDE DEF tt
  <2> QED BY <1>3, <2>1, <2>2
<1> HIDE DEF tt
<1>6. ServersReady(tt)
  BY <1>1, <1>2, <1>3, <1>4, <1>5 DEF ServersReady
<1> QED BY <1>3, <1>4, <1>6 DEF tt
-----------------------------------------------------------------------------
(***************************************************************************)
(* The configuration under the actions.                                    *)
(***************************************************************************)
ReadSoFar == block \in {"main", "server", "location"} => ReadAt(block, at, main, servers, server, location)

\* No port twice, no location that leads nowhere.
Well(s) ==
  /\ \A j, k \in DOMAIN s.ports : s.ports[j] = s.ports[k] => j = k
  /\ \A j \in DOMAIN s.locations : Leads(s.locations[j])

Ready == block = "ready" => ServersReady(servers)

Reads == TypeOK /\ ReadSoFar /\ Well(server) /\ Ready

LEMMA SameReady ==
  ASSUME text' = text
  PROVE  \A ss : ServersReady(ss)' <=> ServersReady(ss)
<1>1. /\ \A p : Around(p)' = Around(p)
      /\ \A b, word : Says(b, word)' = Says(b, word)
  BY SameAround
<1>2. \A S : /\ Scripts(S)' = Scripts(S) /\ Pages(S)' = Pages(S) /\ Files(S)' = Files(S)
  BY DEF Scripts, Pages, Files, Script, Page
<1>3. \A l, w : InForce(l, w)' = InForce(l, w)
  BY <1>1 DEF InForce
<1>4. \A l : /\ AllowedIn(l)' = AllowedIn(l) /\ LimitIn(l)' = LimitIn(l) /\ CgisIn(l)' = CgisIn(l)
             /\ AutoindexIn(l)' = AutoindexIn(l)
  BY <1>1, <1>3 DEF AllowedIn, LimitIn, AutoindexIn, CgisIn
<1>5. \A b : PortsOf(b)' = PortsOf(b) /\ NamesOf(b)' = NamesOf(b) /\ Locations(b)' = Locations(b)
  BY <1>1 DEF PortsOf, NamesOf, Locations
<1>6. Servers' = Servers
  BY <1>1 DEF Servers
<1>7. \A l : LocationReady(l)' <=> LocationReady(l)
  BY <1>1, <1>2, <1>4 DEF LocationReady
<1>8. \A s : ServerReady(s)' <=> ServerReady(s)
  BY <1>1, <1>2, <1>5, <1>7 DEF ServerReady
<1> QED BY <1>6, <1>8 DEF ServersReady

LEMMA ReaderAdvances ==
  ASSUME TypeOK, ReadSoFar, ReadConfig
  PROVE  ReadSoFar' /\ text' = text /\ text \in Texts
<1>1. text \in Texts /\ at \in 1..(Len(text) + 1)
  BY DEF TypeOK
<1>2. Len(text) \in Nat /\ DOMAIN text = 1..Len(text)
  BY <1>1, TextType
<1>3. text' = text
  BY DEF ReadConfig, ReadMain, ReadServer, ReadLocation, EndOfText, Refuse
<1> SUFFICES ReadSoFar'
  BY <1>1, <1>3
<1>4. ASSUME block' \in {"main", "server", "location"} =>
               ReadAt(block', at', main', servers', server', location')
      PROVE  ReadSoFar'
  BY <1>3, <1>4, SameRead DEF ReadSoFar
<1>5. CASE Refuse
  BY <1>4, <1>5 DEF Refuse
<1>6. CASE ReadMain /\ ~Refuse
  <2>1. block = "main" /\ at \in DOMAIN text
    BY <1>1, <1>2, <1>6 DEF ReadMain, Reading
  <2>2. ReadAt("main", at, main, servers, server, location)
    BY <2>1 DEF ReadSoFar
  <2>3. CASE text[at].word \in SettingWords /\ main' = WithSetting(main, text[at]) /\ at' = at + 1
             /\ block' = block /\ servers' = servers /\ server' = server /\ location' = location
    BY <1>1, <1>4, <2>1, <2>2, <2>3, MainStep
  <2>4. CASE text[at].word = "server" /\ server' = NewServer(at) /\ block' = "server" /\ at' = at + 1
             /\ main' = main /\ servers' = servers /\ location' = location
    BY <1>1, <1>4, <2>1, <2>2, <2>4, MainStep
  <2> QED BY <1>6, <2>3, <2>4 DEF ReadMain
<1>7. CASE ReadServer /\ ~Refuse
  <2>a. Reading("server")
    BY <1>7 DEF ReadServer
  <2>1. block = "server" /\ at \in DOMAIN text
    BY <1>1, <1>2, <2>a DEF Reading
  <2>2. ReadAt("server", at, main, servers, server, location)
    BY <2>1 DEF ReadSoFar
  <2>3. CASE text[at].word \in ServerWords /\ server' = WithDirective(server, text[at]) /\ at' = at + 1
             /\ block' = block /\ main' = main /\ servers' = servers /\ location' = location
    BY <1>1, <1>4, <2>1, <2>2, <2>3, ServerStep
  <2>4. CASE text[at].word = "location" /\ location' = NewLocation(text[at].ref, at) /\ block' = "location"
             /\ at' = at + 1 /\ main' = main /\ servers' = servers /\ server' = server
    BY <1>1, <1>4, <2>1, <2>2, <2>4, ServerStep
  <2>5. CASE /\ Closes(at)
             /\ \E sorted \in SortLocations(server.locations) : servers' = Append(servers, ClosedServer(server, sorted))
             /\ block' = "main" /\ at' = at + 1 /\ main' = main /\ location' = location
    <3>1. PICK sorted \in SortLocations(server.locations) : servers' = Append(servers, ClosedServer(server, sorted))
      BY <2>5
    <3>2. ReadAt("main", at + 1, main, Append(servers, ClosedServer(server, sorted)), server', location)
      BY <1>1, <2>1, <2>2, <2>5, ServerEnd
    <3> QED BY <1>4, <2>5, <3>1, <3>2
  <2> QED BY <1>7, <2>3, <2>4, <2>5 DEF ReadServer, Closes, ClosedServer
<1>8. CASE ReadLocation /\ ~Refuse
  <2>a. Reading("location")
    BY <1>8 DEF ReadLocation
  <2>1. block = "location" /\ at \in DOMAIN text
    BY <1>1, <1>2, <2>a DEF Reading
  <2>2. ReadAt("location", at, main, servers, server, location)
    BY <2>1 DEF ReadSoFar
  <2>3. CASE text[at].word \in LocationWords /\ location' = WithEntry(location, text[at]) /\ at' = at + 1
             /\ block' = block /\ main' = main /\ servers' = servers /\ server' = server
    BY <1>1, <1>4, <2>1, <2>2, <2>3, LocationStep
  <2>4. CASE Closes(at) /\ server' = [server EXCEPT !.locations = Append(@, location)] /\ block' = "server"
             /\ at' = at + 1 /\ main' = main /\ servers' = servers
    BY <1>1, <1>4, <2>1, <2>2, <2>4, LocationStep
  <2> QED BY <1>8, <2>3, <2>4 DEF ReadLocation, Closes
<1>9. CASE EndOfText /\ ~Refuse
  <2>1. block' = "ready"
    BY <1>9 DEF EndOfText
  <2> QED BY <1>4, <2>1
<1> QED BY <1>5, <1>6, <1>7, <1>8, <1>9 DEF ReadConfig

LEMMA WellMore ==
  ASSUME NEW s, DOMAIN s = ServerFields, Well(s), s.ports \in Seq(ToSet(s.ports)), s.locations \in Seq(ToSet(s.locations))
  PROVE  /\ \A d : d.word \in ServerWords /\ ~DuplicatePort(s, d) => Well(WithDirective(s, d))
         /\ \A l : Leads(l) => Well([s EXCEPT !.locations = Append(@, l)])
         /\ \A sorted \in SortLocations(s.locations) :
              Well(ClosedServer(s, sorted)) /\ ClosedServer(s, sorted).ports # <<>>
<1>1. /\ \A j, k \in DOMAIN s.ports : s.ports[j] = s.ports[k] => j = k
      /\ \A j \in DOMAIN s.locations : Leads(s.locations[j])
  BY DEF Well
<1>2. ASSUME NEW d, d.word \in ServerWords, ~DuplicatePort(s, d) PROVE Well(WithDirective(s, d))
  <2> DEFINE k == WithDirective(s, d)
             n == Len(s.ports)
  <2>1. DirectiveMade(k, s, d)
    BY <1>2, DirectiveFields
  <2> HIDE DEF k
  <2>2. /\ k.locations = s.locations
        /\ k.ports = IF d.word = "listen" THEN Append(s.ports, d.port) ELSE s.ports
    BY <2>1 DEF DirectiveMade
  <2>3. CASE d.word # "listen"
    BY <1>1, <2>2, <2>3 DEF Well, k
  <2>4. CASE d.word = "listen"
    <3> DEFINE p == s.ports
               q == Append(p, d.port)
    <3>1. d.port \notin ToSet(p)
      BY <1>2, <2>4 DEF DuplicatePort
    <3>2. p \in Seq(ToSet(p)) /\ k.ports = q
      BY <2>2, <2>4
    <3>3. \A i, j \in DOMAIN p : p[i] = p[j] => i = j
      BY <1>1
    <3> HIDE DEF p
    <3>4. /\ Len(p) \in Nat /\ DOMAIN p = 1..Len(p) /\ DOMAIN q = 1..(Len(p) + 1)
          /\ \A i \in 1..Len(p) : q[i] = p[i]
          /\ q[Len(p) + 1] = d.port
      BY <3>2, SetOfAppend
    <3> HIDE DEF q
    <3>5. \A i \in DOMAIN p : p[i] # d.port
      BY <3>1 DEF ToSet
    <3>6. \A i \in DOMAIN q : i \in DOMAIN p \/ i = Len(p) + 1
      BY <3>4
    <3>7. \A i, j \in DOMAIN q : q[i] = q[j] => i = j
      BY <3>3, <3>4, <3>5, <3>6
    <3> QED BY <1>1, <2>2, <3>2, <3>7 DEF Well, k
  <2> QED BY <2>3, <2>4
<1>3. ASSUME NEW l, Leads(l) PROVE Well([s EXCEPT !.locations = Append(@, l)])
  <2> DEFINE p == s.locations
             q == Append(p, l)
             k == [s EXCEPT !.locations = Append(@, l)]
  <2>1. k.locations = q /\ k.ports = s.ports
    BY DEF ServerFields
  <2>2. p \in Seq(ToSet(p)) /\ \A i \in DOMAIN p : Leads(p[i])
    BY <1>1
  <2> HIDE DEF p
  <2>3. /\ Len(p) \in Nat /\ DOMAIN p = 1..Len(p) /\ DOMAIN q = 1..(Len(p) + 1)
        /\ \A i \in 1..Len(p) : q[i] = p[i]
        /\ q[Len(p) + 1] = l
    BY <2>2, SetOfAppend
  <2> HIDE DEF q, k
  <2>4. \A i \in DOMAIN q : i \in DOMAIN p \/ i = Len(p) + 1
    BY <2>3
  <2>5. \A i \in DOMAIN q : Leads(q[i])
    BY <1>3, <2>2, <2>3, <2>4
  <2>6. Well(k)
    BY <1>1, <2>1, <2>5 DEF Well
  <2> QED BY <2>6 DEF k
<1>4. ASSUME NEW sorted \in SortLocations(s.locations)
      PROVE  Well(ClosedServer(s, sorted)) /\ ClosedServer(s, sorted).ports # <<>>
  <2> DEFINE w == WithDefaultPort(s)
             k == ClosedServer(s, sorted)
             p == <<DefaultPort>>
  <2>1. DOMAIN w = ServerFields /\ w.ports = IF s.ports = <<>> THEN p ELSE s.ports
    BY DEF WithDefaultPort, ServerFields
  <2> HIDE DEF w
  <2>2. k = [w EXCEPT !.locations = sorted]
    BY DEF ClosedServer, w
  <2> HIDE DEF k
  <2>3. k.ports = (IF s.ports = <<>> THEN p ELSE s.ports) /\ k.locations = sorted
    BY <2>1, <2>2 DEF ServerFields
  <2>4. p # <<>> /\ \A i, j \in DOMAIN p : p[i] = p[j] => i = j
    OBVIOUS
  <2> HIDE DEF p
  <2>5. k.ports # <<>> /\ \A i, j \in DOMAIN k.ports : k.ports[i] = k.ports[j] => i = j
    BY <1>1, <2>3, <2>4
  <2>6. \A j \in DOMAIN sorted : Leads(sorted[j])
    <3>1. \A j \in DOMAIN sorted : \E i \in DOMAIN s.locations : sorted[j] = s.locations[i]
      BY SortedLocations
    <3> QED BY <1>1, <3>1
  <2>7. Well(k)
    BY <2>3, <2>5, <2>6 DEF Well
  <2> QED BY <2>5, <2>7 DEF k
<1> QED BY <1>2, <1>3, <1>4

LEMMA NoneWell ==
  ASSUME NEW n
  PROVE  Well(NewServer(n))
<1>1. NewServer(n).ports = <<>> /\ NewServer(n).locations = <<>> /\ DOMAIN <<>> = {}
  BY DEF NewServer
<1> QED BY <1>1 DEF Well

\* The servers that are closed already keep their shape.
AllWell(ss) == \A i \in DOMAIN ss : ss[i].ports # <<>> /\ Well(ss[i])

LEMMA ReaderKeeps ==
  ASSUME Reads, ReadConfig, UNCHANGED <<request, answer>>
  PROVE  Reads'
<1>1. /\ text \in Texts /\ at \in 1..(Len(text) + 1) /\ AllWell(servers) /\ Well(server)
      /\ block \in {"main", "server", "location", "ready", "refused"}
  BY DEF Reads, TypeOK, AllWell, Well
<1>2. Len(text) \in Nat /\ DOMAIN text = 1..Len(text)
  BY <1>1, TextType
<1>3. ReadSoFar' /\ text' = text
  BY ReaderAdvances DEF Reads
<1>4. ASSUME block' \in {"main", "server", "location", "ready", "refused"}, at' \in 1..(Len(text) + 1),
             AllWell(servers'), Well(server'), block' = "ready" => ServersReady(servers')
      PROVE  Reads'
  <2>1. AllWell(servers)' /\ Well(server)'
    BY <1>4 DEF AllWell, Well, Leads
  <2>2. TypeOK'
    BY <1>1, <1>3, <1>4, <2>1 DEF Reads, TypeOK, AllWell, Well
  <2>3. Ready'
    BY <1>3, <1>4, SameReady DEF Ready
  <2> QED BY <1>3, <2>1, <2>2, <2>3 DEF Reads
<1>5. CASE Refuse
  BY <1>1, <1>4, <1>5 DEF Refuse
<1>6. CASE ReadMain /\ ~Refuse
  <2>1. Reading("main")
    BY <1>6 DEF ReadMain
  <2>2. at' = at + 1 /\ servers' = servers /\ block' \in {"main", "server"}
        /\ (server' = server \/ server' = NewServer(at))
    BY <1>6, <2>1 DEF ReadMain, Reading
  <2>3. at + 1 \in 1..(Len(text) + 1)
    BY <1>1, <1>2, <2>1 DEF Reading
  <2> QED BY <1>1, <1>4, <2>2, <2>3, NoneWell
<1>7. CASE ReadServer /\ ~Refuse
  <2>1. Reading("server")
    BY <1>7 DEF ReadServer
  <2>2. at + 1 \in 1..(Len(text) + 1) /\ at \in DOMAIN text
    BY <1>1, <1>2, <2>1 DEF Reading
  <2>3. ServerRead(server, at, at) /\ PortsRead(server, at)
    BY <2>1 DEF Reads, ReadSoFar, ReadAt, Reading
  <2>4. /\ DOMAIN server = ServerFields /\ server.ports \in Seq(ToSet(server.ports))
        /\ server.locations \in Seq(ToSet(server.locations))
    BY <2>3 DEF ServerRead, PortsRead
  <2>5. CASE text[at].word \in ServerWords /\ ~DuplicatePort(server, text[at])
             /\ server' = WithDirective(server, text[at]) /\ at' = at + 1 /\ block' = block /\ servers' = servers
    <3>1. Well(server')
      BY <1>1, <2>4, <2>5, WellMore
    <3> QED BY <1>1, <1>4, <2>1, <2>2, <2>5, <3>1 DEF Reading
  <2>6. CASE block' = "location" /\ at' = at + 1 /\ servers' = servers /\ server' = server
    BY <1>1, <1>4, <2>2, <2>6
  <2>7. CASE /\ \E sorted \in SortLocations(server.locations) : servers' = Append(servers, ClosedServer(server, sorted))
             /\ block' = "main" /\ at' = at + 1 /\ server' = NoServer
    <3>1. PICK sorted \in SortLocations(server.locations) : servers' = Append(servers, ClosedServer(server, sorted))
      BY <2>7
    <3> DEFINE k == ClosedServer(server, sorted)
    <3>2. Well(k) /\ k.ports # <<>>
      BY <1>1, <2>4, WellMore
    <3> HIDE DEF k
    <3>3. servers \in Seq(ToSet(servers))
      BY <2>1 DEF Reads, ReadSoFar, ReadAt, Reading, ServersRead
    <3>4. /\ Len(servers) \in Nat /\ DOMAIN servers = 1..Len(servers) /\ DOMAIN servers' = 1..(Len(servers) + 1)
          /\ \A i \in 1..Len(servers) : servers'[i] = servers[i]
          /\ servers'[Len(servers) + 1] = k
      BY <3>1, <3>3, SetOfAppend DEF k
    <3>5. \A i \in DOMAIN servers' : i \in DOMAIN servers \/ i = Len(servers) + 1
      BY <3>4
    <3>6. AllWell(servers')
      BY <1>1, <3>2, <3>4, <3>5 DEF AllWell
    <3>7. Well(server')
      BY <2>7, NoneWell DEF NoServer
    <3> QED BY <1>4, <2>2, <2>7, <3>6, <3>7
  <2> QED BY <1>7, <2>5, <2>6, <2>7 DEF ReadServer, ClosedServer
<1>8. CASE ReadLocation /\ ~Refuse
  <2>1. Reading("location")
    BY <1>8 DEF ReadLocation
  <2>2. at + 1 \in 1..(Len(text) + 1) /\ at \in DOMAIN text
    BY <1>1, <1>2, <2>1 DEF Reading
  <2>3. ServerRead(server, at, location.line) /\ PortsRead(server, at)
    BY <2>1 DEF Reads, ReadSoFar, ReadAt, Reading
  <2>4. /\ DOMAIN server = ServerFields /\ server.ports \in Seq(ToSet(server.ports))
        /\ server.locations \in Seq(ToSet(server.locations))
    BY <2>3 DEF ServerRead, PortsRead
  <2>5. CASE at' = at + 1 /\ block' = block /\ servers' = servers /\ server' = server
    BY <1>1, <1>4, <2>1, <2>2, <2>5 DEF Reading
  <2>6. CASE Leads(location) /\ server' = [server EXCEPT !.locations = Append(@, location)] /\ block' = "server"
             /\ at' = at + 1 /\ servers' = servers
    <3>1. Well(server')
      BY <1>1, <2>4, <2>6, WellMore
    <3> QED BY <1>1, <1>4, <2>2, <2>6, <3>1
  <2> QED BY <1>8, <2>5, <2>6 DEF ReadLocation
<1>9. CASE EndOfText /\ ~Refuse
  <2>1. /\ block = "main" /\ at > Len(text) /\ block' = "ready" /\ at' = at /\ server' = server
        /\ servers' = [i \in DOMAIN servers |-> Overridden(servers[i])]
    BY <1>9 DEF EndOfText
  <2>2. at = Len(text) + 1
    BY <1>1, <1>2, <2>1
  <2>3. ServersRead(servers, at, at) /\ main = SettingsOf(0, at)
    BY <2>1 DEF Reads, ReadSoFar, ReadAt
  <2>4. /\ ServersReady(servers') /\ DOMAIN servers' = DOMAIN servers
        /\ \A i \in DOMAIN servers :
             /\ servers'[i].ports = servers[i].ports
             /\ DOMAIN servers'[i].locations = DOMAIN servers[i].locations
             /\ \A j \in DOMAIN servers[i].locations : Leads(servers'[i].locations[j]) <=> Leads(servers[i].locations[j])
    BY <1>1, <2>1, <2>2, <2>3, TextEnds
  <2>5. AllWell(servers')
    BY <1>1, <2>4 DEF AllWell, Well
  <2> QED BY <1>1, <1>4, <2>1, <2>4, <2>5
<1> QED BY <1>5, <1>6, <1>7, <1>8, <1>9 DEF ReadConfig

LEMMA NothingRead ==
  ASSUME Init
  PROVE  Reads
<1>1. text \in Texts /\ at = 1 /\ block = "main" /\ main = DefaultSettings /\ servers = <<>>
      /\ server = NoServer /\ request = NoRequest /\ answer = NoAnswer
  BY DEF Init, ConfigInit
<1>2. Len(text) \in Nat /\ 1 \in 1..(Len(text) + 1)
  BY <1>1, TextType
<1>3. \A b, word : Before(b, word, 1) = {}
  <2>1. \A b, word : Before(b, word, 1) \subseteq 1..(1 - 1)
    BY <1>1, BeforeType
  <2>2. 1..(1 - 1) = {}
    OBVIOUS
  <2> QED BY <2>1, <2>2
<1>4. Nested(1, LevelOf(block))
  <2>1. 1..(1 - 1) = {}
    OBVIOUS
  <2> QED BY <2>1 DEF Nested
<1>5. main = SettingsOf(0, 1)
  BY <1>1, <1>3, NothingSaid DEF SettingsOf, DefaultSettings
<1>6. DOMAIN servers = {} /\ Len(servers) = 0 /\ servers \in Seq(ToSet(servers))
  BY <1>1
<1>7. ServersRead(servers, 1, 1)
  <2>1. Cardinality(Before(0, "server", 1)) = 0
    BY <1>3, FS_EmptySet
  <2> QED BY <1>6, <2>1 DEF ServersRead
<1>8. ReadSoFar
  BY <1>1, <1>2, <1>4, <1>5, <1>7 DEF ReadSoFar, ReadAt
<1>9. Well(server)
  BY <1>1, NoneWell DEF NoServer
<1>10. TypeOK
  BY <1>1, <1>2, <1>6 DEF TypeOK
<1> QED BY <1>1, <1>8, <1>9, <1>10 DEF Reads, Ready

\* What is read stays, whatever is asked and answered.
LEMMA ConfigKept ==
  ASSUME Reads, UNCHANGED configVars,
         request' \in Requests \union {NoRequest}, request' = NoRequest <=> answer' = NoAnswer
  PROVE  Reads'
<1>1. text' = text /\ at' = at /\ block' = block /\ main' = main /\ servers' = servers /\ server' = server
      /\ location' = location
  BY DEF configVars
<1>2. ReadSoFar'
  BY <1>1, SameRead DEF Reads, ReadSoFar
<1>3. Ready'
  BY <1>1, SameReady DEF Reads, Ready
<1>4. Well(server)'
  BY <1>1 DEF Reads, Well, Leads
<1>5. TypeOK'
  BY <1>1 DEF Reads, TypeOK, Leads
<1> QED BY <1>2, <1>3, <1>4, <1>5 DEF Reads

LEMMA RouteKeeps ==
  ASSUME Reads, Route
  PROVE  Reads'
<1>1. PICK r \in Requests :
        /\ request' = r
        /\ LET s == servers[GetServer(r.port, r.host)]
           IN  answer' = Answer(s, FindLocation(s, r), r)
  BY DEF Route
<1>2. request' # NoRequest
  <2>1. r.method \in Methods /\ "none" \notin Methods
    BY RoutingAssumption
  <2> QED BY <1>1, <2>1 DEF NoRequest
<1>3. answer' # NoAnswer
  <2>1. \A s, j : "code" \in DOMAIN Answer(s, j, r)
    BY DEF Answer
  <2>2. "code" \notin DOMAIN NoAnswer
    BY DEF NoAnswer
  <2> QED BY <1>1, <2>1, <2>2
<1> QED BY <1>1, <1>2, <1>3, ConfigKept DEF Route

LEMMA NextReads ==
  ASSUME Reads, [Next]_vars
  PROVE  Reads'
<1>1. CASE ReadConfig /\ UNCHANGED <<request, answer>>
  BY <1>1, ReaderKeeps
<1>2. CASE Route
  BY <1>2, RouteKeeps
<1>3. CASE ClearRequest
  BY <1>3, ConfigKept DEF ClearRequest
<1>4. CASE UNCHANGED vars
  <2>1. UNCHANGED configVars /\ request' = request /\ answer' = answer
    BY <1>4 DEF vars
  <2> QED BY <2>1, ConfigKept DEF Reads, TypeOK
<1> QED BY <1>1, <1>2, <1>3, <1>4 DEF Next

\* What the records hold is what the text says, as far as it is read.
THEOREM WhatIsRead == Spec => []Reads
<1>1. Init => Reads
  BY NothingRead
<1>2. Reads /\ [Next]_vars => Reads'
  BY NextReads
<1> QED BY <1>1, <1>2, PTL DEF Spec

\* Every server that was read listens, no port twice, and each of its
\* locations leads somewhere; an answer is there when a request is.
THEOREM Typing == Spec => []TypeOK
<1>1. Reads => TypeOK
  BY DEF Reads
<1> QED BY <1>1, WhatIsRead, PTL

\* Each location is given the settings that stand nearest to it in the text,
\* and the scripts (_overrideDefaults), whatever the text.
THEOREM Inheritance == Spec => []SettingsInherited
<1>1. ASSUME Reads PROVE SettingsInherited
  <2> SUFFICES ASSUME block = "ready", NEW i \in DOMAIN servers, NEW j \in DOMAIN servers[i].locations
               PROVE  LET l == servers[i].locations[j]
                      IN  /\ l.settings.allowed.value = AllowedIn(l.line)
                          /\ l.settings.bodySize.value = LimitIn(l.line)
                          /\ l.settings.autoindex.value = AutoindexIn(l.line)
                          /\ Len(l.cgis) = Cardinality(CgisIn(l.line))
    BY DEF SettingsInherited
  <2> DEFINE l == servers[i].locations[j]
  <2>1. LocationReady(l) /\ text \in Texts
    BY <1>1 DEF Reads, Ready, ServersReady, ServerReady, TypeOK
  <2>2. IsFiniteSet(CgisIn(l.line)) /\ Cardinality(CgisIn(l.line)) \in Nat
    BY <2>1, SaysType DEF CgisIn
  <2> HIDE DEF l
  <2>3. Len(l.cgis) = Cardinality(CgisIn(l.line))
    BY <2>1, <2>2, ScriptsOfNone DEF LocationReady
  <2>4. /\ l.settings.allowed.value = AllowedIn(l.line)
        /\ l.settings.bodySize.value = LimitIn(l.line)
        /\ l.settings.autoindex.value = AutoindexIn(l.line)
    BY <2>1 DEF LocationReady
  <2> QED BY <2>3, <2>4 DEF l
<1> QED BY <1>1, WhatIsRead, PTL
-----------------------------------------------------------------------------
(***************************************************************************)
(* What is looked up in the records is what the text says.                 *)
(***************************************************************************)
Listening(port)   == {b \in Servers : port \in PortsOf(b)}
Named(port, name) == {b \in Listening(port) : name # "" /\ name \in NamesOf(b)}

LEMMA ServerFound ==
  ASSUME text \in Texts, ServersReady(servers), NEW port \in GetPorts, NEW name
  PROVE  LET g == GetServer(port, name)
         IN  /\ g \in DOMAIN servers
             /\ servers[g].line = Least(IF Named(port, name) = {} THEN Listening(port) ELSE Named(port, name))
             /\ servers[g].line \in Servers
<1> DEFINE L == {i \in DOMAIN servers : port \in ToSet(servers[i].ports)}
           A == {i \in DOMAIN servers : port \in ToSet(servers[i].ports) /\ name \in ToSet(servers[i].names)}
           N == {i \in A : name # ""}
           S == Servers
<1>1. IsFiniteSet(S) /\ Cardinality(S) \in Nat /\ \A b \in S : b \in Nat
  BY SaysType DEF Servers
<1>2. /\ DOMAIN servers = 1..Cardinality(S)
      /\ \A i \in DOMAIN servers :
           /\ servers[i].line = InOrder(S)[i] /\ ToSet(servers[i].ports) = PortsOf(servers[i].line)
           /\ ToSet(servers[i].names) = NamesOf(servers[i].line)
  BY <1>1, LenProperties DEF ServersReady, ServerReady
<1>3. \A i \in 1..Cardinality(S) : InOrder(S)[i] \in S
  BY <1>1, InOrderLists, ElementOfSeq
<1>4. L = {k \in 1..Cardinality(S) : InOrder(S)[k] \in Listening(port)}
  BY <1>2, <1>3 DEF Listening
<1>5. N = {k \in 1..Cardinality(S) : InOrder(S)[k] \in Named(port, name)}
  BY <1>2, <1>3 DEF Listening, Named
<1>6. L # {}
  BY DEF GetPorts
<1>7. GetServerFromPort(port) = Least(L) /\ GetServerFromPortAndName(port, name) = Least(A)
  BY DEF GetServerFromPort, GetServerFromPortAndName
<1>8. L \subseteq 1..Cardinality(S) /\ N \subseteq 1..Cardinality(S)
  BY <1>2
<1>9. Listening(port) \subseteq S /\ Named(port, name) \subseteq S
  BY DEF Listening, Named
<1>b. N = IF name # "" THEN A ELSE {}
  <2> DEFINE none == ""
  <2>1. N = {i \in A : name # none}
    OBVIOUS
  <2> HIDE DEF none, A
  <2>2. N = IF name # none THEN A ELSE {}
    BY <2>1
  <2> QED BY <2>2 DEF none
<1> HIDE DEF L, A, N, S
<1>10. Least(L) \in L /\ InOrder(S)[Least(L)] = Least(Listening(port))
  BY <1>1, <1>4, <1>6, <1>9, FirstInOrder
<1>11. /\ N = {} <=> Named(port, name) = {}
       /\ N # {} => Least(N) \in N /\ InOrder(S)[Least(N)] = Least(Named(port, name))
  BY <1>1, <1>5, <1>9, FirstInOrder
<1>12. Least(N) # 0 <=> N # {}
  <2>1. N = {} => Least(N) = 0
    BY DEF Least
  <2>2. N # {} => Least(N) # 0
    BY <1>8, <1>11
  <2> QED BY <2>1, <2>2
<1>13. GetServer(port, name) = IF N # {} THEN Least(N) ELSE Least(L)
  <2> DEFINE none == ""
  <2>1. GetServer(port, name) =
          IF name # none /\ Least(A) # 0 THEN Least(A) ELSE Least(L)
    BY <1>7 DEF GetServer
  <2>2. N = IF name # none THEN A ELSE {}
    BY <1>b
  <2> HIDE DEF none
  <2> QED BY <1>12, <2>1, <2>2
<1>14. GetServer(port, name) \in DOMAIN servers
       /\ InOrder(S)[GetServer(port, name)] =
            Least(IF Named(port, name) = {} THEN Listening(port) ELSE Named(port, name))
  BY <1>2, <1>8, <1>10, <1>11, <1>13
<1> QED BY <1>2, <1>3, <1>14 DEF S

Fits(b, r) == IsPrefix(text[b].ref, ResolvePath(r))

LEMMA LocationFound ==
  ASSUME text \in Texts, NEW s, ServerReady(s), NEW r
  PROVE  LET j == FindLocation(s, r)
             b == Line(s, j)
             fitting == {p \in Locations(s.line) : Fits(p, r)}
         IN  /\ j = 0 => b = 0 /\ fitting = {}
             /\ j # 0 => /\ j \in DOMAIN s.locations /\ b = s.locations[j].line /\ b # 0 /\ b \in fitting
                         /\ \A p \in fitting : Len(text[p].ref) <= Len(text[b].ref)
<1> DEFINE ls == s.locations
           K == {j \in DOMAIN ls : IsPrefix(ls[j].ref, ResolvePath(r))}
           j == FindLocation(s, r)
           fitting == {p \in Locations(s.line) : Fits(p, r)}
<1>1. /\ ls \in Seq(ToSet(ls)) /\ LinesOf(ls) = Locations(s.line) /\ Sorted(ls)
      /\ \A i \in DOMAIN ls : ls[i].ref = text[ls[i].line].ref
  BY DEF ServerReady, LocationReady
<1>2. Len(ls) \in Nat /\ DOMAIN ls = 1..Len(ls)
  BY <1>1, LenProperties
<1>3. j = Least(K)
  BY DEF FindLocation
<1>4. \A p \in Locations(s.line) : \E i \in DOMAIN ls : ls[i].line = p
  BY <1>1 DEF LinesOf
<1>5. \A i \in DOMAIN ls : ls[i].line \in Locations(s.line)
  BY <1>1 DEF LinesOf
<1>6. \A p \in Locations(s.line) : p # 0 /\ p \in DOMAIN text /\ text[p].word = "location" /\ Len(text[p].ref) \in Nat
  <2>1. \A p \in Locations(s.line) : p # 0 /\ p \in DOMAIN text /\ text[p].word = "location"
    BY SaysType DEF Locations
  <2> QED BY <2>1, TextType, LenProperties
<1>7. \A i \in DOMAIN ls : i \in K <=> ls[i].line \in fitting
  BY <1>1, <1>5 DEF Fits
<1>8. K \subseteq Nat /\ 0 \notin K
  BY <1>2
<1>9. /\ \A i \in K : i \in DOMAIN ls
      /\ \A p \in fitting : p \in Locations(s.line)
  OBVIOUS
<1>10. Line(s, j) = IF j = 0 THEN 0 ELSE ls[j].line
  BY DEF Line
<1> HIDE DEF K, fitting, j
<1>11. (K = {} => j = 0) /\ (K # {} => j \in K /\ \A x \in K : j <= x)
  BY <1>3, <1>8, LeastMember
<1>12. K = {} => fitting = {}
  BY <1>4, <1>7, <1>9
<1>13. ASSUME K # {}, NEW p \in fitting PROVE Len(text[p].ref) <= Len(text[ls[j].line].ref)
  <2>1. PICK i \in DOMAIN ls : ls[i].line = p
    BY <1>4, <1>9, <1>13
  <2>2. i \in K /\ j <= i /\ j \in DOMAIN ls
    BY <1>7, <1>9, <1>11, <1>13, <2>1
  <2>3. Len(ls[j].ref) >= Len(ls[i].ref) \/ i = j
    <3>1. i \in Nat /\ j \in Nat
      BY <1>8, <1>11, <1>13, <2>2
    <3> QED BY <1>1, <2>2, <3>1 DEF Sorted
  <2>4. ls[j].ref = text[ls[j].line].ref /\ ls[i].ref = text[p].ref
    BY <1>1, <2>1, <2>2
  <2>5. Len(text[p].ref) \in Nat /\ Len(text[ls[j].line].ref) \in Nat
    BY <1>5, <1>6, <1>9, <1>13, <2>2
  <2> HIDE DEF ls
  <2> QED BY <2>1, <2>3, <2>4, <2>5
<1>14. K # {} => j # 0 /\ j \in DOMAIN ls /\ ls[j].line \in fitting /\ ls[j].line # 0
  BY <1>5, <1>6, <1>7, <1>8, <1>9, <1>11
<1>15. j = 0 => K = {}
  BY <1>8, <1>11
<1> HIDE DEF ls
<1>16. /\ j = 0 => Line(s, j) = 0 /\ fitting = {}
       /\ j # 0 => /\ j \in DOMAIN ls /\ Line(s, j) = ls[j].line /\ Line(s, j) # 0 /\ Line(s, j) \in fitting
                   /\ \A p \in fitting : Len(text[p].ref) <= Len(text[Line(s, j)].ref)
  <2>1. j = 0 => Line(s, j) = 0 /\ fitting = {}
    BY <1>10, <1>12, <1>15
  <2>2. j # 0 => K # {} /\ Line(s, j) = ls[j].line
    BY <1>10, <1>11
  <2> QED BY <1>13, <1>14, <2>1, <2>2
<1> QED BY <1>16 DEF fitting, j, ls

LEMMA ScriptFound ==
  ASSUME text \in Texts, NEW l, LocationReady(l), NEW ext, NEW method
  PROVE  LET c == GetCgiFromPath(l, ext)
         IN  (c # 0 /\ method \in l.cgis[c].allowed) <=> ScriptIn(l.line, ext, method)
<1> DEFINE S == CgisIn(l.line)
           In(exts) == ext # "" /\ ext \in exts
           Q == {p \in S : In(text[p].exts)}
           K == {k \in 1..Cardinality(S) : InOrder(S)[k] \in Q}
           c == GetCgiFromPath(l, ext)
<1>1. IsFiniteSet(S) /\ Cardinality(S) \in Nat /\ \A p \in S : p \in Nat /\ p # 0
  BY SaysType DEF CgisIn
<1>2. \A k \in 1..Cardinality(S) : InOrder(S)[k] \in S
  BY <1>1, InOrderLists, ElementOfSeq
<1>3. l.cgis = Scripts(S)
  BY DEF LocationReady
<1>4. /\ DOMAIN l.cgis = 1..Cardinality(S)
      /\ \A k \in 1..Cardinality(S) :
           l.cgis[k].exts = text[InOrder(S)[k]].exts /\ l.cgis[k].allowed = text[InOrder(S)[k]].methods
  <2> HIDE DEF S
  <2> QED BY <1>3 DEF Scripts, Script
<1>5. c = Least({i \in DOMAIN l.cgis : In(l.cgis[i].exts)})
  BY DEF GetCgiFromPath
<1>6. ScriptIn(l.line, ext, method) <=> (Least(Q) # 0 /\ method \in text[Least(Q)].methods)
  BY DEF ScriptIn
<1> HIDE DEF In
<1>a. {i \in DOMAIN l.cgis : In(l.cgis[i].exts)} = K
  <2> HIDE DEF S
  <2> QED BY <1>2, <1>4
<1>7. Q \subseteq S /\ K \subseteq 1..Cardinality(S)
  OBVIOUS
<1>8. Q \subseteq Nat /\ 0 \notin Q
  BY <1>1, <1>7
<1>9. /\ K = {} <=> Q = {}
      /\ K # {} => Least(K) \in K /\ InOrder(S)[Least(K)] = Least(Q)
  <2> HIDE DEF S, Q
  <2> QED BY <1>1, <1>7, FirstInOrder
<1> HIDE DEF S, Q, K, c
<1>10. /\ K = {} => Least(K) = 0 /\ Least(Q) = 0
       /\ K # {} => Least(K) # 0 /\ Least(Q) # 0
  <2>1. Q = {} => Least(Q) = 0
    BY <1>8, LeastMember
  <2>2. K = {} => Least(K) = 0
    BY DEF Least
  <2>3. Q # {} => Least(Q) # 0
    BY <1>8, LeastMember
  <2> QED BY <1>7, <1>9, <2>1, <2>2, <2>3
<1>11. (c # 0 /\ method \in l.cgis[c].allowed) <=> (Least(Q) # 0 /\ method \in text[Least(Q)].methods)
  BY <1>4, <1>5, <1>a, <1>7, <1>9, <1>10
<1> QED BY <1>6, <1>11 DEF c

PagesFor(b, code) == {p \in Says(b, "error_page") : code \in text[p].codes}

LEMMA PageFound ==
  ASSUME text \in Texts, NEW s, ServerReady(s), NEW code
  PROVE  GetErrorPage(s, code) =
           IF PagesFor(s.line, code) = {} THEN "" ELSE text[Least(PagesFor(s.line, code))].page
<1> DEFINE S == Says(s.line, "error_page")
           Q == PagesFor(s.line, code)
           K == {k \in 1..Cardinality(S) : InOrder(S)[k] \in Q}
           none == ""
           n == Least({i \in DOMAIN s.errorPages : code \in s.errorPages[i].codes})
<1>1. IsFiniteSet(S) /\ Cardinality(S) \in Nat /\ \A p \in S : p \in Nat
  BY SaysType
<1>2. \A k \in 1..Cardinality(S) : InOrder(S)[k] \in S
  BY <1>1, InOrderLists, ElementOfSeq
<1>3. s.errorPages = Pages(S)
  BY DEF ServerReady
<1>4. /\ DOMAIN s.errorPages = 1..Cardinality(S)
      /\ \A k \in 1..Cardinality(S) :
           s.errorPages[k].codes = text[InOrder(S)[k]].codes /\ s.errorPages[k].page = text[InOrder(S)[k]].page
  <2> HIDE DEF S
  <2> QED BY <1>3 DEF Pages, Page
<1>5. n = Least(K)
  <2>1. {i \in DOMAIN s.errorPages : code \in s.errorPages[i].codes} = K
    BY <1>2, <1>4 DEF PagesFor
  <2> QED BY <2>1
<1>6. GetErrorPage(s, code) = IF n = 0 THEN none ELSE s.errorPages[n].page
  BY DEF GetErrorPage
<1> HIDE DEF none
<1>7. Q \subseteq S /\ K \subseteq 1..Cardinality(S)
  BY DEF PagesFor
<1> HIDE DEF S, Q, n
<1>8. /\ K = {} <=> Q = {}
      /\ K # {} => Least(K) \in K /\ InOrder(S)[Least(K)] = Least(Q)
  BY <1>1, <1>7, FirstInOrder
<1> HIDE DEF K
<1>9. (K = {} => Least(K) = 0) /\ (K # {} => Least(K) # 0)
  <2>1. K = {} => Least(K) = 0
    BY DEF Least
  <2> QED BY <1>7, <1>8, <2>1
<1>10. GetErrorPage(s, code) = IF Q = {} THEN none ELSE text[Least(Q)].page
  BY <1>4, <1>5, <1>6, <1>7, <1>8, <1>9
<1> QED BY <1>10 DEF Q, none
-----------------------------------------------------------------------------
(***************************************************************************)
(* What is answered.                                                       *)
(***************************************************************************)
LEMMA RefusedFields ==
  ASSUME NEW code
  PROVE  Refused(code).what = "error" /\ Refused(code).code = code
<1> DEFINE none == ""
<1>1. Refused(code) = [what |-> "error", code |-> code, ext |-> none]
  BY DEF Refused
<1> HIDE DEF none
<1> QED BY <1>1

LEMMA FoundFields ==
  ASSUME NEW what, NEW ext
  PROVE  LET f == Found(what, ext)
         IN  DOMAIN f = {"what", "code", "ext"} /\ f.what = what /\ f.ext = ext
  BY DEF Found

LEMMA NoIndexFile ==
  ASSUME NEW l, l.index \in Seq(ToSet(l.index)), NEW r, l.index = <<>> \/ IndexFile(l, r) = 0
  PROVE  ToSet(l.index) \cap r.present = {}
<1> DEFINE K == {i \in DOMAIN l.index : l.index[i] \in r.present}
<1>1. CASE l.index = <<>>
  BY <1>1, SetOfNone
<1>2. CASE IndexFile(l, r) = 0
  <2>1. DOMAIN l.index = 1..Len(l.index) /\ Len(l.index) \in Nat
    BY LenProperties
  <2>2. K \subseteq Nat /\ 0 \notin K
    BY <2>1
  <2>3. Least(K) = 0
    BY <1>2 DEF IndexFile
  <2>4. K = {}
    <3> HIDE DEF K
    <3> QED BY <2>2, <2>3, LeastMember
  <2> QED BY <2>4 DEF ToSet
<1> QED BY <1>1, <1>2

\* What _resolvePathAndLocationBlock makes of a request in a location.
ResolvedBy(f, l, r) ==
  /\ f.what \in {"error", "file", "list"}
  /\ f.what = "error" =>
       /\ f.code \in {301, 403, 404, 405}
       /\ f.code = 301 <=> l.redirect
       /\ f.code = 405 => r.method \notin l.settings.allowed.value
       /\ f.code = 404 => r.target \in {"absent", "dir"}
  /\ f.what # "error" =>
       DOMAIN f = {"what", "code", "ext"} /\ ~l.redirect /\ r.method \in l.settings.allowed.value
  /\ f.what = "list" => l.settings.autoindex.value /\ ToSet(l.index) \cap r.present = {}

LEMMA DirectoryResolved ==
  ASSUME NEW l, l.index \in Seq(ToSet(l.index)), ~l.redirect, NEW r, r.method \in l.settings.allowed.value,
         r.target \in {"dir", "locked"}
  PROVE  ResolvedBy(ResolveDirectory(l, r), l, r)
<1> DEFINE f == ResolveDirectory(l, r)
<1>1. CASE r.target = "locked" /\ l.index # <<>>
  <2>1. f = Refused(403)
    BY <1>1 DEF ResolveDirectory
  <2> HIDE DEF f
  <2>2. f.what = "error" /\ f.code = 403
    BY <2>1, RefusedFields
  <2> QED BY <2>2 DEF ResolvedBy, f
<1>2. CASE r.target = "dir" /\ IndexFile(l, r) # 0
  <2>1. f = Found("file", l.index[IndexFile(l, r)].ext)
    BY <1>2 DEF ResolveDirectory
  <2> HIDE DEF f
  <2>2. f.what = "file" /\ DOMAIN f = {"what", "code", "ext"}
    BY <2>1, FoundFields
  <2> QED BY <2>2 DEF ResolvedBy, f
<1>3. CASE ~(r.target = "locked" /\ l.index # <<>>) /\ ~(r.target = "dir" /\ IndexFile(l, r) # 0)
  <2>1. ToSet(l.index) \cap r.present = {}
    BY <1>3, NoIndexFile
  <2>2. CASE l.settings.autoindex.value
    <3>1. f = Found("list", r.ext)
      BY <1>3, <2>2 DEF ResolveDirectory
    <3> HIDE DEF f
    <3>2. f.what = "list" /\ DOMAIN f = {"what", "code", "ext"}
      BY <3>1, FoundFields
    <3> QED BY <2>1, <2>2, <3>2 DEF ResolvedBy, f
  <2>3. CASE ~l.settings.autoindex.value /\ l.index # <<>>
    <3>1. f = Refused(404) /\ r.target = "dir"
      BY <1>3, <2>3 DEF ResolveDirectory
    <3> HIDE DEF f
    <3>2. f.what = "error" /\ f.code = 404
      BY <3>1, RefusedFields
    <3> QED BY <3>1, <3>2 DEF ResolvedBy, f
  <2>4. CASE ~l.settings.autoindex.value /\ l.index = <<>>
    <3>1. f = Refused(403)
      BY <1>3, <2>4 DEF ResolveDirectory
    <3> HIDE DEF f
    <3>2. f.what = "error" /\ f.code = 403
      BY <3>1, RefusedFields
    <3> QED BY <3>2 DEF ResolvedBy, f
  <2> QED BY <2>2, <2>3, <2>4
<1> QED BY <1>1, <1>2, <1>3

LEMMA Resolved ==
  ASSUME NEW l, l.index \in Seq(ToSet(l.index)), NEW r
  PROVE  ResolvedBy(Resolve(l, r), l, r)
<1> DEFINE f == Resolve(l, r)
<1>1. CASE l.redirect
  <2>1. f = Refused(301)
    BY <1>1 DEF Resolve
  <2> HIDE DEF f
  <2>2. f.what = "error" /\ f.code = 301
    BY <2>1, RefusedFields
  <2> QED BY <1>1, <2>2 DEF ResolvedBy, f
<1>2. CASE ~l.redirect /\ r.method \notin l.settings.allowed.value
  <2>1. f = Refused(405)
    BY <1>2 DEF Resolve
  <2> HIDE DEF f
  <2>2. f.what = "error" /\ f.code = 405
    BY <2>1, RefusedFields
  <2> QED BY <1>2, <2>2 DEF ResolvedBy, f
<1>3. CASE ~l.redirect /\ r.method \in l.settings.allowed.value
  <2>1. CASE r.target = "denied"
    <3>1. f = Refused(403)
      BY <1>3, <2>1 DEF Resolve
    <3> HIDE DEF f
    <3>2. f.what = "error" /\ f.code = 403
      BY <3>1, RefusedFields
    <3> QED BY <1>3, <3>2 DEF ResolvedBy, f
  <2>2. CASE r.target = "absent" /\ r.method # "PUT" /\ GetCgiFromPath(l, r.ext) = 0
    <3>1. f = Refused(404)
      BY <1>3, <2>2 DEF Resolve
    <3> HIDE DEF f
    <3>2. f.what = "error" /\ f.code = 404
      BY <3>1, RefusedFields
    <3> QED BY <1>3, <2>2, <3>2 DEF ResolvedBy, f
  <2>3. CASE r.target \in {"dir", "locked"}
    <3>1. f = ResolveDirectory(l, r)
      BY <1>3, <2>3 DEF Resolve
    <3> QED BY <1>3, <2>3, <3>1, DirectoryResolved
  <2>4. CASE /\ r.target # "denied" /\ r.target \notin {"dir", "locked"}
             /\ ~(r.target = "absent" /\ r.method # "PUT" /\ GetCgiFromPath(l, r.ext) = 0)
    <3>1. f = Found("file", r.ext)
      BY <1>3, <2>4 DEF Resolve
    <3> HIDE DEF f
    <3>2. f.what = "file" /\ DOMAIN f = {"what", "code", "ext"}
      BY <3>1, FoundFields
    <3> QED BY <1>3, <3>2 DEF ResolvedBy, f
  <2> QED BY <2>1, <2>2, <2>3, <2>4
<1> QED BY <1>1, <1>2, <1>3

\* What _buildResponse makes of what was found.
LEMMA Built ==
  ASSUME NEW l, NEW r \in Requests, NEW f, f.what \in {"file", "list"}, DOMAIN f = {"what", "code", "ext"}
  PROVE  LET b == BuildResponse(l, r, f)
         IN  /\ b.what = "error" => b.code \in {500, 999, 405} /\ (b.code = 405 => r.method = "PATCH")
             /\ b.what # "error" =>
                  /\ b.ext = f.ext
                  /\ b.what = "script" <=> RunsScript(l, r, f)
                  /\ b.what = "list" => f.what = "list"
<1> DEFINE b == BuildResponse(l, r, f)
           Right == /\ b.what = "error" => b.code \in {500, 999, 405} /\ (b.code = 405 => r.method = "PATCH")
                    /\ b.what # "error" =>
                         /\ b.ext = f.ext
                         /\ b.what = "script" <=> RunsScript(l, r, f)
                         /\ b.what = "list" => f.what = "list"
<1>1. r.method \in {"GET", "HEAD", "POST", "PUT", "PATCH", "DELETE", "OPTIONS"}
  BY RoutingAssumption
<1>a. RunsScript(l, r, f) \in BOOLEAN
  BY DEF RunsScript
<1>2. ASSUME NEW code \in {500, 999, 405}, code = 405 => r.method = "PATCH", b = Refused(code) PROVE Right
  <2>1. b.what = "error" /\ b.code = code
    <3> HIDE DEF b
    <3> QED BY <1>2, RefusedFields
  <2> HIDE DEF b
  <2> QED BY <1>2, <2>1 DEF b
<1>3. CASE RunsScript(l, r, f)
  <2>1. b = IF r.executable THEN Found("script", f.ext) ELSE Refused(500)
    BY <1>3 DEF BuildResponse
  <2>2. CASE r.executable
    <3>1. b = Found("script", f.ext)
      BY <2>1, <2>2
    <3> HIDE DEF b
    <3>2. b.what = "script" /\ b.ext = f.ext
      BY <3>1, FoundFields
    <3> QED BY <1>a, <1>3, <3>2 DEF b
  <2> QED BY <1>2, <2>1, <2>2
<1>4. CASE ~RunsScript(l, r, f) /\ f.what = "list"
  <2>1. b = f
    BY <1>4 DEF BuildResponse
  <2> HIDE DEF b
  <2> QED BY <1>a, <1>4, <2>1 DEF b
<1>5. CASE ~RunsScript(l, r, f) /\ f.what = "file"
  <2>1. b = CASE r.method \in {"GET", "POST", "HEAD"} ->
                   IF r.target = "absent" THEN Refused(500) ELSE f
              [] r.method = "DELETE" ->
                   IF r.target = "absent" \/ ~r.removable THEN Refused(500) ELSE [f EXCEPT !.what = "delete"]
              [] r.method \in {"PUT", "OPTIONS"} -> Refused(999)
              [] OTHER -> Refused(405)
    BY <1>5 DEF BuildResponse
  <2>2. CASE r.method \in {"GET", "POST", "HEAD"}
    <3>1. b = IF r.target = "absent" THEN Refused(500) ELSE f
      BY <2>1, <2>2
    <3>2. CASE b = f
      <4> HIDE DEF b
      <4> QED BY <1>a, <1>5, <3>2 DEF b
    <3> QED BY <1>2, <3>1, <3>2
  <2>3. CASE r.method = "DELETE"
    <3>1. b = IF r.target = "absent" \/ ~r.removable THEN Refused(500) ELSE [f EXCEPT !.what = "delete"]
      BY <2>1, <2>3
    <3>2. CASE b = [f EXCEPT !.what = "delete"]
      <4> HIDE DEF b
      <4>1. b.what = "delete" /\ b.ext = f.ext
        BY <3>2
      <4> QED BY <1>a, <1>5, <4>1 DEF b
    <3> QED BY <1>2, <3>1, <3>2
  <2>4. CASE r.method \in {"PUT", "OPTIONS"}
    <3>1. b = Refused(999)
      BY <2>1, <2>4
    <3> QED BY <1>2, <3>1
  <2>5. CASE r.method = "PATCH"
    <3>1. b = Refused(405)
      BY <2>1, <2>5
    <3> QED BY <1>2, <2>5, <3>1
  <2> QED BY <1>1, <2>2, <2>3, <2>4, <2>5
<1> QED BY <1>3, <1>4, <1>5
-----------------------------------------------------------------------------
(***************************************************************************)
(* The answer a to request r from the block at line b, or 0.               *)
(***************************************************************************)
ServedBy(b, r, a) ==
  /\ b # 0 /\ Says(b, "redirect") = {}
  /\ r.method \in AllowedIn(b)
  /\ HasBody(r) /\ r.counted => r.length <= LimitIn(b)
  /\ a.what = "script" <=> ScriptIn(b, a.ext, r.method)
  /\ a.what = "list" =>
       AutoindexIn(b) /\ \A p \in Says(b, "index") : ToSet(text[p].files) \cap r.present = {}

RefusedBy(b, r, a) ==
  /\ a.code = 301 <=> (b # 0 /\ Says(b, "redirect") # {})
  /\ a.code = 405 => r.method \notin AllowedIn(b) \/ r.method = "PATCH"
  /\ a.code = 413 => r.counted /\ r.length > LimitIn(b)
  /\ a.code = 404 => b = 0 \/ r.target \in {"absent", "dir"}

LEMMA LimitType ==
  ASSUME text \in Texts, NEW b
  PROVE  LimitIn(b) \in Nat
<1> DEFINE word == "client_max_body_size"
           p == InForce(b, word)
<1>1. p = 0 \/ (p \in DOMAIN text /\ text[p].word = word)
  <2>1. \A c : Says(c, word) # {} => Max(Says(c, word)) \in DOMAIN text /\ text[Max(Says(c, word))].word = word
    BY SaysType
  <2>2. p = IF Says(b, word) # {} THEN Max(Says(b, word))
            ELSE IF Says(Around(b), word) # {} THEN Max(Says(Around(b), word))
            ELSE IF Says(0, word) # {} THEN Max(Says(0, word)) ELSE 0
    BY InForceIs
  <2> HIDE DEF p, word
  <2> QED BY <2>1, <2>2
<1>2. LimitIn(b) = IF p = 0 THEN DefaultBodySize ELSE text[p].size
  BY DEF LimitIn
<1>3. DefaultBodySize \in Nat
  BY ConfigurationAssumption
<1> HIDE DEF p
<1> QED BY <1>1, <1>2, <1>3, TextType

LEMMA Handled ==
  ASSUME text \in Texts, NEW l, LocationReady(l), l.line # 0, NEW r \in Requests
  PROVE  LET a == Handle(l, r)
         IN  /\ a.what # "error" => ServedBy(l.line, r, a)
             /\ a.what = "error" => RefusedBy(l.line, r, a) /\ a.code # 200
<1> DEFINE a == Handle(l, r)
           f == Resolve(l, r)
           b == l.line
           Right == /\ a.what # "error" => ServedBy(b, r, a)
                    /\ a.what = "error" => RefusedBy(b, r, a) /\ a.code # 200
<1>1. /\ l.redirect \in BOOLEAN /\ (l.redirect <=> Says(b, "redirect") # {})
      /\ l.index \in Seq(ToSet(l.index)) /\ ToSet(l.index) = Files(Says(b, "index"))
      /\ l.settings.allowed.value = AllowedIn(b) /\ l.settings.bodySize.value = LimitIn(b)
      /\ l.settings.autoindex.value = AutoindexIn(b)
  BY DEF LocationReady
<1>2. ResolvedBy(f, l, r)
  BY <1>1, Resolved
<1>3. r.length \in Nat /\ LimitIn(b) \in Nat
  BY RoutingAssumption, LimitType
<1>4. a = CASE f.what = "error" -> f
            [] f.what # "error" /\ BodyTooLarge(l, r) -> Refused(413)
            [] OTHER -> BuildResponse(l, r, f)
  BY DEF Handle
<1>5. BodyTooLarge(l, r) <=> (HasBody(r) /\ r.counted /\ r.length > LimitIn(b))
  BY <1>1 DEF BodyTooLarge
<1>6. CASE f.what = "error"
  <2>1. a = f
    BY <1>4, <1>6
  <2> HIDE DEF a, f, b
  <2>2. /\ f.code \in {301, 403, 404, 405} /\ (f.code = 301 <=> Says(b, "redirect") # {})
        /\ f.code = 405 => r.method \notin AllowedIn(b)
        /\ f.code = 404 => r.target \in {"absent", "dir"}
    BY <1>1, <1>2, <1>6 DEF ResolvedBy
  <2>3. RefusedBy(b, r, f) /\ f.code # 200
    <3>1. b # 0
      BY DEF b
    <3> QED BY <2>2, <3>1 DEF RefusedBy
  <2> QED BY <1>6, <2>1, <2>3 DEF a, b
<1>7. CASE f.what # "error" /\ BodyTooLarge(l, r)
  <2>1. a = Refused(413)
    BY <1>4, <1>7
  <2> HIDE DEF a, f, b
  <2>2. a.what = "error" /\ a.code = 413
    BY <2>1, RefusedFields
  <2>3. Says(b, "redirect") = {}
    BY <1>1, <1>2, <1>7 DEF ResolvedBy
  <2>4. RefusedBy(b, r, a)
    BY <1>5, <1>7, <2>2, <2>3 DEF RefusedBy
  <2> QED BY <2>2, <2>4 DEF a, b
<1>8. CASE f.what # "error" /\ ~BodyTooLarge(l, r)
  <2>1. a = BuildResponse(l, r, f)
    BY <1>4, <1>8
  <2> HIDE DEF a, f, b
  <2>2. /\ f.what \in {"file", "list"} /\ DOMAIN f = {"what", "code", "ext"}
        /\ ~l.redirect /\ r.method \in AllowedIn(b)
        /\ f.what = "list" => AutoindexIn(b) /\ ToSet(l.index) \cap r.present = {}
    BY <1>1, <1>2, <1>8 DEF ResolvedBy
  <2>3. /\ a.what = "error" => a.code \in {500, 999, 405} /\ (a.code = 405 => r.method = "PATCH")
        /\ a.what # "error" =>
             /\ a.ext = f.ext
             /\ a.what = "script" <=> RunsScript(l, r, f)
             /\ a.what = "list" => f.what = "list"
    BY <2>1, <2>2, Built
  <2>4. RunsScript(l, r, f) <=> ScriptIn(b, f.ext, r.method)
    BY ScriptFound DEF RunsScript, b
  <2>5. Says(b, "redirect") = {} /\ b # 0
    BY <1>1, <2>2 DEF b
  <2>6. f.what = "list" => \A p \in Says(b, "index") : ToSet(text[p].files) \cap r.present = {}
    BY <1>1, <2>2 DEF Files
  <2>7. HasBody(r) /\ r.counted => r.length <= LimitIn(b)
    BY <1>3, <1>5, <1>8
  <2>8. CASE a.what = "error"
    <3>1. a.code \in {500, 999, 405} /\ (a.code = 405 => r.method = "PATCH")
      BY <2>3, <2>8
    <3>2. RefusedBy(b, r, a) /\ a.code # 200
      BY <2>5, <3>1 DEF RefusedBy
    <3> QED BY <2>8, <3>2 DEF a, b
  <2>9. CASE a.what # "error"
    <3>1. /\ a.ext = f.ext /\ (a.what = "script" <=> RunsScript(l, r, f))
          /\ a.what = "list" => f.what = "list"
      BY <2>3, <2>9
    <3>2. a.what = "script" <=> ScriptIn(b, a.ext, r.method)
      BY <2>4, <3>1
    <3>3. a.what = "list" => AutoindexIn(b)
      BY <2>2, <3>1
    <3>4. ServedBy(b, r, a)
      BY <2>2, <2>5, <2>6, <2>7, <3>1, <3>2, <3>3 DEF ServedBy
    <3> QED BY <2>9, <3>4 DEF a, b
  <2> QED BY <2>8, <2>9
<1> QED BY <1>6, <1>7, <1>8

PageShown(b, code, exists) ==
  IF PagesFor(b, code) = {} \/ ~exists THEN "" ELSE text[Least(PagesFor(b, code))].page

LEMMA PageIs ==
  ASSUME text \in Texts, NEW s, ServerReady(s), NEW code, code # 200, NEW r
  PROVE  ErrorPage(s, code, r).page = PageShown(s.line, code, r.pageExists)
<1> DEFINE none == ""
           page == GetErrorPage(s, code)
           base == Line(s, RootLocation(s))
           first == text[Least(PagesFor(s.line, code))].page
<1>1. page = IF PagesFor(s.line, code) = {} THEN none ELSE first
  BY PageFound
<1>2. ErrorPage(s, code, r) =
        IF code # 200 /\ page # none /\ r.pageExists
          THEN [page |-> page, base |-> base] ELSE [page |-> none, base |-> 0]
  BY DEF ErrorPage
<1>3. PageShown(s.line, code, r.pageExists) =
        IF PagesFor(s.line, code) = {} \/ ~r.pageExists THEN none ELSE first
  BY DEF PageShown
<1> HIDE DEF none, page, base, first
<1> QED BY <1>1, <1>2, <1>3
-----------------------------------------------------------------------------
(***************************************************************************)
(* Every answer follows the text.                                          *)
(***************************************************************************)
LocationRight(r, a) ==
  LET fitting == {p \in Locations(a.server) : Fits(p, r)}
  IN  IF fitting = {} THEN a.location = 0
      ELSE /\ a.location \in fitting
           /\ \A p \in fitting : Len(text[p].ref) <= Len(text[a.location].ref)

AnswerRight(r, a) ==
  /\ a.server = Least(IF Named(r.port, r.host) = {} THEN Listening(r.port) ELSE Named(r.port, r.host))
  /\ LocationRight(r, a)
  /\ a.what # "error" => ServedBy(a.location, r, a)
  /\ a.what = "error" => RefusedBy(a.location, r, a) /\ a.page.page = PageShown(a.server, a.code, r.pageExists)

Answered == answer # NoAnswer => AnswerRight(request, answer)

LEMMA AnswerIsRight ==
  ASSUME text \in Texts, ServersReady(servers), NEW r \in Requests, r.port \in GetPorts
  PROVE  LET s == servers[GetServer(r.port, r.host)]
         IN  AnswerRight(r, Answer(s, FindLocation(s, r), r))
<1> DEFINE g   == GetServer(r.port, r.host)
           s   == servers[g]
           j   == FindLocation(s, r)
           b   == Line(s, j)
           res == IF j = 0 THEN Refused(404) ELSE Handle(s.locations[j], r)
           a   == Answer(s, j, r)
<1>1. g \in DOMAIN servers
      /\ s.line = Least(IF Named(r.port, r.host) = {} THEN Listening(r.port) ELSE Named(r.port, r.host))
  BY ServerFound
<1>2. ServerReady(s)
  BY <1>1 DEF ServersReady
<1> HIDE DEF s
<1>3. /\ a.what = res.what /\ a.code = res.code /\ a.ext = res.ext /\ a.server = s.line /\ a.location = b
      /\ a.page = ErrorPage(s, res.code, r)
  BY DEF Answer
<1>4. LET fitting == {p \in Locations(s.line) : Fits(p, r)}
      IN  /\ j = 0 => b = 0 /\ fitting = {}
          /\ j # 0 => /\ j \in DOMAIN s.locations /\ b = s.locations[j].line /\ b # 0 /\ b \in fitting
                      /\ \A p \in fitting : Len(text[p].ref) <= Len(text[b].ref)
  BY <1>2, LocationFound
<1>5. j # 0 => LocationReady(s.locations[j])
  BY <1>2, <1>4 DEF ServerReady
<1>6. /\ res.what # "error" => ServedBy(b, r, res)
      /\ res.what = "error" => RefusedBy(b, r, res) /\ res.code # 200
  <2>1. CASE j = 0
    <3>1. res = Refused(404) /\ b = 0
      BY <1>4, <2>1
    <3> HIDE DEF res, b
    <3>2. res.what = "error" /\ res.code = 404
      BY <3>1, RefusedFields
    <3>3. RefusedBy(b, r, res)
      BY <3>1, <3>2 DEF RefusedBy
    <3> QED BY <3>2, <3>3
  <2>2. CASE j # 0
    <3> DEFINE l == s.locations[j]
    <3>1. res = Handle(l, r) /\ LocationReady(l) /\ l.line = b /\ b # 0
      BY <1>4, <1>5, <2>2
    <3> HIDE DEF res, b, l
    <3> QED BY <3>1, Handled
  <2> QED BY <2>1, <2>2
<1> HIDE DEF res, b, a, j, g
<1>7. LocationRight(r, a)
  <2>1. CASE j = 0
    BY <1>3, <1>4, <2>1 DEF LocationRight
  <2>2. CASE j # 0
    BY <1>3, <1>4, <2>2 DEF LocationRight
  <2> QED BY <2>1, <2>2
<1>8. res.what = "error" => a.page.page = PageShown(s.line, res.code, r.pageExists)
  BY <1>2, <1>3, <1>6, PageIs
<1>9. AnswerRight(r, a)
  <2>1. a.what # "error" => ServedBy(a.location, r, a)
    BY <1>3, <1>6 DEF ServedBy
  <2>2. a.what = "error" => RefusedBy(a.location, r, a)
    BY <1>3, <1>6 DEF RefusedBy
  <2> QED BY <1>1, <1>3, <1>7, <1>8, <2>1, <2>2 DEF AnswerRight
<1> QED BY <1>9 DEF a, j, s, g

LEMMA SameAnswer ==
  ASSUME text' = text
  PROVE  \A r, a : AnswerRight(r, a)' <=> AnswerRight(r, a)
<1>1. /\ \A p : Around(p)' = Around(p)
      /\ \A b, word : Says(b, word)' = Says(b, word)
  BY SameAround
<1>2. \A l, w : InForce(l, w)' = InForce(l, w)
  BY <1>1 DEF InForce
<1>3. \A l : /\ AllowedIn(l)' = AllowedIn(l) /\ LimitIn(l)' = LimitIn(l) /\ CgisIn(l)' = CgisIn(l)
             /\ AutoindexIn(l)' = AutoindexIn(l)
  BY <1>1, <1>2 DEF AllowedIn, LimitIn, AutoindexIn, CgisIn
<1>4. \A b : PortsOf(b)' = PortsOf(b) /\ NamesOf(b)' = NamesOf(b) /\ Locations(b)' = Locations(b)
  BY <1>1 DEF PortsOf, NamesOf, Locations
<1>5. Servers' = Servers
  BY <1>1 DEF Servers
<1>6. \A port : Listening(port)' = Listening(port)
  BY <1>4, <1>5 DEF Listening
<1>7. \A port, name : Named(port, name)' = Named(port, name)
  BY <1>4, <1>6 DEF Named
<1>8. \A l, ext, m : ScriptIn(l, ext, m)' <=> ScriptIn(l, ext, m)
  BY <1>3 DEF ScriptIn
<1>9. \A p, r : Fits(p, r)' <=> Fits(p, r)
  BY DEF Fits
<1>10. \A r, a : LocationRight(r, a)' <=> LocationRight(r, a)
  BY <1>4, <1>9 DEF LocationRight
<1>11. \A b, r, a : ServedBy(b, r, a)' <=> ServedBy(b, r, a)
  BY <1>1, <1>3, <1>8 DEF ServedBy
<1>12. \A b, r, a : RefusedBy(b, r, a)' <=> RefusedBy(b, r, a)
  BY <1>1, <1>3 DEF RefusedBy
<1>13. \A b, code : PagesFor(b, code)' = PagesFor(b, code)
  BY <1>1 DEF PagesFor
<1>14. \A b, code, exists : PageShown(b, code, exists)' = PageShown(b, code, exists)
  <2> DEFINE none == ""
  <2>1. \A b, code, exists :
          /\ PageShown(b, code, exists)' = IF PagesFor(b, code)' = {} \/ ~exists THEN none
                                            ELSE text'[Least(PagesFor(b, code)')].page
          /\ PageShown(b, code, exists) = IF PagesFor(b, code) = {} \/ ~exists THEN none
                                           ELSE text[Least(PagesFor(b, code))].page
    BY DEF PageShown
  <2> HIDE DEF none
  <2> QED BY <1>13, <2>1
<1> QED BY <1>6, <1>7, <1>10, <1>11, <1>12, <1>14 DEF AnswerRight

LEMMA NextAnswers ==
  ASSUME Reads, Answered, [Next]_vars
  PROVE  Answered'
<1>1. ASSUME UNCHANGED text, answer' # NoAnswer => AnswerRight(request', answer') PROVE Answered'
  BY <1>1, SameAnswer DEF Answered, NoAnswer
<1>2. CASE ReadConfig /\ UNCHANGED <<request, answer>>
  <2>1. text' = text
    BY <1>2, ReaderAdvances DEF Reads
  <2> QED BY <1>1, <1>2, <2>1 DEF Answered
<1>3. CASE Route
  <2>1. PICK r \in Requests :
          /\ r.port \in GetPorts
          /\ request' = r
          /\ LET s == servers[GetServer(r.port, r.host)]
             IN  answer' = Answer(s, FindLocation(s, r), r)
    BY <1>3 DEF Route
  <2>2. text \in Texts /\ ServersReady(servers) /\ text' = text
    BY <1>3 DEF Route, Reads, Ready, TypeOK, configVars
  <2>3. AnswerRight(request', answer')
    BY <2>1, <2>2, AnswerIsRight
  <2> QED BY <1>1, <2>2, <2>3
<1>4. CASE ClearRequest
  BY <1>1, <1>4 DEF ClearRequest, configVars
<1>5. CASE UNCHANGED vars
  BY <1>1, <1>5 DEF vars, configVars, Answered
<1> QED BY <1>2, <1>3, <1>4, <1>5 DEF Next

LEMMA AlwaysRight == Spec => []Answered
<1>1. Init => Answered
  BY DEF Init, Answered
<1>2. Reads /\ Answered /\ [Next]_vars => Answered'
  BY NextAnswers
<1> QED BY <1>1, <1>2, WhatIsRead, PTL DEF Spec

\* Whatever the text and the request, the server is the first that listens on
\* the port and has the name, or else the first that listens on the port
\* (getServer, and the tables into which the first entry is inserted).
THEOREM FirstServer == Spec => []ServerChosen
<1>1. Answered => ServerChosen
  BY DEF Answered, AnswerRight, ServerChosen, Listening, Named
<1> QED BY <1>1, AlwaysRight, PTL

\* And the location is one with the longest reference that begins the address,
\* for every order that std::sort may leave equal ones in.
THEOREM LongestReference == Spec => []LocationChosen
<1>1. Answered => LocationChosen
  BY DEF Answered, AnswerRight, LocationRight, LocationChosen, Fits
<1> QED BY <1>1, AlwaysRight, PTL

\* Nothing is read, run, listed or deleted unless the text allows it of the
\* location (_checkLocation, _addToFixedContentSize, _buildResponse).
THEOREM OnlyAsConfigured == Spec => []ServedAsConfigured
<1>1. Answered => ServedAsConfigured
  BY DEF Answered, AnswerRight, ServedBy, ServedAsConfigured
<1> QED BY <1>1, AlwaysRight, PTL

\* What is refused is refused for the reason that its code gives, with the page
\* of its own server for that code (_returnHttpErrorToClient).
THEOREM RefusalsGiveReason == Spec => []RefusedWithReason
<1>1. Answered => RefusedWithReason
  <2> DEFINE pages == PagesFor(answer.server, answer.code)
             page  == IF pages = {} \/ ~request.pageExists THEN "" ELSE text[Least(pages)].page
  <2>1. Answered /\ answer # NoAnswer /\ answer.what = "error" =>
          RefusedBy(answer.location, request, answer) /\ answer.page.page = page
    BY DEF Answered, AnswerRight, PageShown
  <2>2. RefusedWithReason <=>
          (answer # NoAnswer /\ answer.what = "error" =>
             RefusedBy(answer.location, request, answer) /\ answer.page.page = page)
    BY DEF RefusedWithReason, RefusedBy, PagesFor
  <2> QED BY <2>1, <2>2
<1> QED BY <1>1, AlwaysRight, PTL
=============================================================================
