---------------------------- MODULE ParserProofs ----------------------------
(***************************************************************************)
(* Theorems of Buffer and RequestParser, for every set of messages, every  *)
(* way to cut them and every limit: first those that hold for any bytes,   *)
(* then what becomes of well-formed requests.                              *)
(***************************************************************************)
EXTENDS RequestParser, OrderProofs, SequenceTheorems

-----------------------------------------------------------------------------
(***************************************************************************)
(* A value made in n steps, as the recursive functions of the model make   *)
(* it: step is given the value so far and the number of the step.          *)
(***************************************************************************)
Steppers(S, n) == [S \X (1..n) -> S]
Iterates(S, s, n, step) ==
  {g \in [0..n -> S] : g[0] = s /\ \A i \in 1..n : g[i] = step[<<g[i - 1], i>>]}

LEMMA Iteration ==
  ASSUME NEW S, NEW s \in S, NEW n \in Nat, NEW step \in Steppers(S, n)
  PROVE  Iterates(S, s, n, step) # {}
<1> DEFINE Until(k, g) == /\ g \in [0..k -> S] /\ g[0] = s
                          /\ \A i \in 1..k : g[i] = step[<<g[i - 1], i>>]
           T == {k \in Nat : k <= n => \E g : Until(k, g)}
<1>0. step \in [S \X (1..n) -> S]
  BY DEF Steppers
<1>1. 0 \in T
  <2>1. Until(0, [i \in 0..0 |-> s])
    OBVIOUS
  <2> QED BY <2>1
<1>2. ASSUME NEW k \in T, k \in Nat, k + 1 <= n PROVE \E g : Until(k + 1, g)
  <2>1. PICK g : Until(k, g)
    BY <1>2
  <2> DEFINE h == [i \in 0..(k + 1) |-> IF i <= k THEN g[i] ELSE step[<<g[k], k + 1>>]]
  <2>2. k \in 0..k /\ k + 1 \in 1..n /\ g[k] \in S
    BY <1>2, <2>1
  <2>3. step[<<g[k], k + 1>>] \in S
    BY <1>0, <2>2
  <2>4. h \in [0..(k + 1) -> S] /\ h[0] = s
    BY <1>2, <2>1, <2>3
  <2>5. ASSUME NEW i \in 1..(k + 1) PROVE h[i] = step[<<h[i - 1], i>>]
    <3>1. CASE i <= k
      BY <1>2, <2>1, <3>1
    <3>2. CASE ~(i <= k)
      <4>1. i = k + 1 /\ i - 1 = k
        BY <1>2, <3>2
      <4>2. h[k + 1] = step[<<g[k], k + 1>>] /\ h[k] = g[k]
        BY <1>2
      <4> HIDE DEF h
      <4> QED BY <4>1, <4>2
    <3> QED BY <3>1, <3>2
  <2>6. Until(k + 1, h)
    BY <2>4, <2>5
  <2> QED BY <2>6
<1>3. \A k \in T : k \in Nat => k + 1 \in T
  BY <1>2
<1>4. n \in T
  <2> HIDE DEF T
  <2> QED BY <1>1, <1>3, Induction
<1>5. PICK g : Until(n, g)
  BY <1>4
<1>6. g \in Iterates(S, s, n, step)
  BY <1>5 DEF Iterates
<1> QED BY <1>6

\* Of a function over 0..n that begins in a set and does not leave it.
LEMMA StaysInside ==
  ASSUME NEW S, NEW n \in Nat, NEW g, g[0] \in S,
         \A i \in 1..n : g[i - 1] \in S => g[i] \in S
  PROVE  \A i \in 0..n : g[i] \in S
<1> DEFINE T == {i \in Nat : i <= n => g[i] \in S}
<1>1. 0 \in T
  OBVIOUS
<1>2. ASSUME NEW i \in T, i \in Nat, i + 1 <= n PROVE g[i + 1] \in S
  <2>1. i + 1 \in 1..n /\ (i + 1) - 1 = i /\ i <= n
    BY <1>2
  <2> QED BY <2>1
<1>3. \A i \in T : i \in Nat => i + 1 \in T
  BY <1>2
<1>4. \A i \in Nat : i \in T
  <2> HIDE DEF T
  <2> QED BY <1>1, <1>3, Induction
<1> QED BY <1>4

\* Two functions that begin and go on alike are alike.
GoOnAlike(n, g, h) == \A i \in 1..n : g[i - 1] = h[i - 1] => g[i] = h[i]

LEMMA SameSteps ==
  ASSUME NEW n \in Nat, NEW g, NEW h, g[0] = h[0], GoOnAlike(n, g, h)
  PROVE  \A i \in 0..n : g[i] = h[i]
<1> DEFINE T == {i \in Nat : i <= n => g[i] = h[i]}
<1>1. 0 \in T
  OBVIOUS
<1>2. ASSUME NEW i \in T, i \in Nat, i + 1 <= n PROVE g[i + 1] = h[i + 1]
  <2>1. i + 1 \in 1..n /\ (i + 1) - 1 = i /\ i <= n
    BY <1>2
  <2> QED BY <2>1 DEF GoOnAlike
<1>3. \A i \in T : i \in Nat => i + 1 \in T
  BY <1>2
<1>4. \A i \in Nat : i \in T
  <2> HIDE DEF T
  <2> QED BY <1>1, <1>3, Induction
<1> QED BY <1>4

-----------------------------------------------------------------------------
(***************************************************************************)
(* The counts of lines.                                                    *)
(***************************************************************************)
Item    == [data : Seq(Bytes), lines : Nat]
Counts  == [nl : NewLineStatus, lines : Nat, empty : Nat]
Counted == [items : Seq(Item), lines : Nat, empty : Nat, nl : NewLineStatus]
Buffers == {b \in Counted : b.lines = LinesOf(b.items)}

\* The sums that LinesOf makes.
LEMMA LinesOfSums ==
  ASSUME NEW items \in Seq(Item)
  PROVE  \E g \in [0..Len(items) -> Nat] :
           /\ g[0] = 0
           /\ \A i \in 1..Len(items) : g[i] = g[i - 1] + items[i].lines
           /\ LinesOf(items) = g[Len(items)]
<1> DEFINE n == Len(items)
           step == [x \in Nat \X (1..n) |-> x[1] + items[x[2]].lines]
           Is(g) == g = [i \in 0..n |-> IF i = 0 THEN 0 ELSE g[i - 1] + items[i].lines]
<1>1. 0 \in Nat /\ n \in Nat /\ \A i \in 1..n : items[i].lines \in Nat
  <2>1. \A i \in 1..n : items[i] \in Item
    BY ElementOfSeq
  <2> QED BY <2>1, LenProperties DEF Item
<1>2. step \in [Nat \X (1..n) -> Nat]
  BY <1>1
<1>3. PICK g \in [0..n -> Nat] : g[0] = 0 /\ \A i \in 1..n : g[i] = step[<<g[i - 1], i>>]
  <2>1. step \in Steppers(Nat, n)
    BY <1>2 DEF Steppers
  <2>2. Iterates(Nat, 0, n, step) # {}
    <3> HIDE DEF step, n
    <3> QED BY <1>1, <2>1, Iteration
  <2> HIDE DEF step, n
  <2> QED BY <2>2 DEF Iterates
<1>4. \A i \in 0..n : g[i] = IF i = 0 THEN 0 ELSE g[i - 1] + items[i].lines
  <2> SUFFICES ASSUME NEW i \in 0..n, i # 0 PROVE g[i] = g[i - 1] + items[i].lines
    BY <1>3
  <2>1. i \in 1..n /\ i - 1 \in 0..n
    BY <1>1
  <2>2. g[i - 1] \in Nat
    BY <1>3, <2>1
  <2> QED BY <1>3, <2>1, <2>2
<1>5. Is(g)
  BY <1>3, <1>4
<1> DEFINE sum == CHOOSE h : Is(h)
<1>6. Is(sum)
  BY <1>5
<1>7. LinesOf(items) = sum[n]
  BY DEF LinesOf
<1>8. sum[0] = 0 /\ \A i \in 1..n : sum[i] = sum[i - 1] + items[i].lines
  <2> HIDE DEF sum
  <2>1. \A i \in 0..n : sum[i] = IF i = 0 THEN 0 ELSE sum[i - 1] + items[i].lines
    BY <1>6
  <2>2. 0 \in 0..n /\ \A i \in 1..n : i \in 0..n /\ i # 0
    BY <1>1
  <2> QED BY <2>1, <2>2
<1>9. \A i \in 0..n : sum[i] \in Nat
  <2> HIDE DEF sum
  <2>1. \A i \in 1..n : sum[i - 1] \in Nat => sum[i] \in Nat
    BY <1>1, <1>8
  <2> HIDE DEF n
  <2> QED BY <1>1, <1>8, <2>1, StaysInside
<1>10. sum = [i \in 0..n |-> sum[i]]
  <2> HIDE DEF sum
  <2> QED BY <1>6
<1>11. sum \in [0..n -> Nat]
  <2> HIDE DEF sum, Is, n
  <2> QED BY <1>9, <1>10
<1> HIDE DEF sum
<1> QED BY <1>7, <1>8, <1>11

LEMMA LinesOfEmpty == LinesOf(<<>>) = 0
<1>1. <<>> \in Seq(Item) /\ Len(<<>>) = 0
  OBVIOUS
<1> QED BY <1>1, LinesOfSums

LEMMA LinesOfAppend ==
  ASSUME NEW s \in Seq(Item), NEW x \in Item
  PROVE  LinesOf(Append(s, x)) = LinesOf(s) + x.lines /\ LinesOf(s) \in Nat
<1> DEFINE t == Append(s, x)  n == Len(s)
<1>1. /\ t \in Seq(Item) /\ n \in Nat /\ Len(t) = n + 1 /\ t[n + 1] = x
      /\ \A i \in 1..n : t[i] = s[i]
  BY AppendProperties, LenProperties
<1> HIDE DEF t
<1>2. PICK g \in [0..n -> Nat] : g[0] = 0 /\ (\A i \in 1..n : g[i] = g[i - 1] + s[i].lines)
                               /\ LinesOf(s) = g[n]
  BY LinesOfSums
<1>3. PICK h \in [0..(n + 1) -> Nat] : h[0] = 0 /\ (\A i \in 1..(n + 1) : h[i] = h[i - 1] + t[i].lines)
                                     /\ LinesOf(t) = h[n + 1]
  BY <1>1, LinesOfSums
<1> HIDE DEF n
<1>4. \A i \in 0..n : g[i] = h[i]
  <2>1. ASSUME NEW i \in 1..n, g[i - 1] = h[i - 1] PROVE g[i] = h[i]
    <3>1. i \in 1..(n + 1) /\ t[i] = s[i]
      BY <1>1
    <3>2. h[i] = h[i - 1] + s[i].lines
      BY <1>3, <3>1
    <3> QED BY <1>2, <2>1, <3>2
  <2>2. g[0] = h[0]
    BY <1>2, <1>3
  <2>3. GoOnAlike(n, g, h)
    BY <2>1 DEF GoOnAlike
  <2> QED BY <1>1, <2>2, <2>3, SameSteps, ZenonT(60)
<1>5. h[n + 1] = h[n] + x.lines /\ h[n] = g[n] /\ g[n] \in Nat
  <2>1. n + 1 \in 1..(n + 1) /\ (n + 1) - 1 = n /\ n \in 0..n
    BY <1>1
  <2> QED BY <1>1, <1>2, <1>3, <1>4, <2>1
<1> QED BY <1>2, <1>3, <1>5 DEF t

LEMMA LinesOfType ==
  ASSUME NEW s \in Seq(Item)
  PROVE  LinesOf(s) \in Nat
<1>1. PICK g \in [0..Len(s) -> Nat] : LinesOf(s) = g[Len(s)]
  BY LinesOfSums
<1>2. Len(s) \in 0..Len(s)
  BY LenProperties
<1> QED BY <1>1, <1>2

LEMMA LinesOfConcat ==
  ASSUME NEW s \in Seq(Item), NEW t \in Seq(Item)
  PROVE  LinesOf(s \o t) = LinesOf(s) + LinesOf(t)
<1> DEFINE T == {n \in Nat : \A u \in Seq(Item) : Len(u) = n => LinesOf(s \o u) = LinesOf(s) + LinesOf(u)}
<1>1. 0 \in T
  <2> SUFFICES ASSUME NEW u \in Seq(Item), Len(u) = 0 PROVE LinesOf(s \o u) = LinesOf(s) + LinesOf(u)
    OBVIOUS
  <2>1. u = <<>> /\ s \o u = s
    BY EmptySeq, ConcatEmptySeq
  <2> QED BY <2>1, LinesOfEmpty, LinesOfType
<1>2. ASSUME NEW n \in T, n \in Nat, NEW u \in Seq(Item), Len(u) = n + 1
      PROVE  LinesOf(s \o u) = LinesOf(s) + LinesOf(u)
  <2>1. u # <<>>
    BY <1>2
  <2>2. PICK v \in Seq(Item), x \in Item : u = Append(v, x)
    BY <2>1, SequenceEmptyOrAppend
  <2>3. Len(v) = n
    BY <1>2, <2>2, AppendProperties, LenProperties
  <2>4. LinesOf(s \o v) = LinesOf(s) + LinesOf(v)
    BY <1>2, <2>3
  <2>5. s \o u = Append(s \o v, x) /\ s \o v \in Seq(Item)
    BY <2>2
  <2>6. LinesOf(s \o u) = LinesOf(s \o v) + x.lines /\ LinesOf(u) = LinesOf(v) + x.lines
    BY <2>2, <2>5, LinesOfAppend
  <2>7. x.lines \in Nat /\ LinesOf(v) \in Nat /\ LinesOf(s) \in Nat
    BY LinesOfType DEF Item
  <2> HIDE DEF T
  <2> QED BY <2>4, <2>6, <2>7
<1>3. \A n \in T : n \in Nat => n + 1 \in T
  BY <1>2
<1>4. \A n \in Nat : n \in T
  <2> HIDE DEF T
  <2> QED BY <1>1, <1>3, Induction
<1>5. Len(t) \in Nat
  BY LenProperties
<1> QED BY <1>4, <1>5

-----------------------------------------------------------------------------
(***************************************************************************)
(* The bytes of a sequence of items.                                       *)
(***************************************************************************)
LEMMA FlatSteps ==
  ASSUME NEW S, NEW seqs \in Seq(Seq(S))
  PROVE  \E g \in [0..Len(seqs) -> Seq(S)] :
           /\ g[0] = <<>>
           /\ \A i \in 1..Len(seqs) : g[i] = g[i - 1] \o seqs[i]
           /\ FlattenSeq(seqs) = g[Len(seqs)]
<1> DEFINE n == Len(seqs)
           Q == Seq(S)
           step == [x \in Q \X (1..n) |-> x[1] \o seqs[x[2]]]
           Is(f) == f = [i \in 1..n |-> IF i = 1 THEN seqs[i] ELSE f[i - 1] \o seqs[i]]
<1>1. <<>> \in Q /\ n \in Nat /\ (\A i \in 1..n : seqs[i] \in Q) /\ \A u, v \in Q : u \o v \in Q
  BY ElementOfSeq, LenProperties, EmptySeq, ConcatProperties
<1>2. step \in Steppers(Q, n)
  <2> HIDE DEF Q, n
  <2> QED BY <1>1 DEF Steppers
<1>3. PICK g \in [0..n -> Q] : g[0] = <<>> /\ \A i \in 1..n : g[i] = g[i - 1] \o seqs[i]
  <2>1. Iterates(Q, <<>>, n, step) # {}
    <3> HIDE DEF step, n, Q
    <3> QED BY <1>1, <1>2, Iteration
  <2>2. PICK g \in [0..n -> Q] : g[0] = <<>> /\ \A i \in 1..n : g[i] = step[<<g[i - 1], i>>]
    <3> HIDE DEF step, n, Q
    <3> QED BY <2>1 DEF Iterates
  <2>3. ASSUME NEW i \in 1..n PROVE g[i] = g[i - 1] \o seqs[i]
    <3>1. i - 1 \in 0..n
      BY <1>1
    <3>2. g[i - 1] \in Q
      BY <2>2, <3>1
    <3> HIDE DEF Q, n
    <3> QED BY <2>2, <3>2
  <2> QED BY <2>2, <2>3
<1>4. CASE n = 0
  <2>1. seqs = <<>>
    BY <1>4, EmptySeq
  <2>2. FlattenSeq(seqs) = seqs
    BY <1>4 DEF FlattenSeq
  <2> QED BY <1>3, <1>4, <2>1, <2>2
<1>5. CASE n # 0
  <2> DEFINE flat == CHOOSE f : Is(f)
             r == [i \in 1..n |-> g[i]]
  <2>0. 1 \in 1..n /\ n \in 1..n /\ 1 - 1 = 0
    BY <1>1, <1>5
  <2>1. g[1] = seqs[1]
    <3>1. g[1] = <<>> \o seqs[1]
      <4> HIDE DEF Q, n
      <4> QED BY <1>3, <2>0
    <3>2. seqs[1] \in Seq(S)
      BY <1>1, <2>0
    <3> QED BY <3>1, <3>2, ConcatEmptySeq
  <2>2. ASSUME NEW i \in 1..n PROVE r[i] = IF i = 1 THEN seqs[i] ELSE r[i - 1] \o seqs[i]
    <3>1. i # 1 => i - 1 \in 1..n
      BY <1>1
    <3> HIDE DEF Q, n
    <3> QED BY <1>3, <2>1, <3>1
  <2>3. Is(r)
    <3> HIDE DEF n
    <3>1. r = [i \in 1..n |-> IF i = 1 THEN seqs[i] ELSE r[i - 1] \o seqs[i]]
      BY <2>2, SMTT(40)
    <3> QED BY <3>1
  <2>4. Is(flat)
    BY <2>3
  <2>5. FlattenSeq(seqs) = flat[n]
    BY <1>5 DEF FlattenSeq
  <2> DEFINE h == [i \in 0..n |-> IF i = 0 THEN <<>> ELSE flat[i]]
  <2>6. \A i \in 1..n : flat[i] = IF i = 1 THEN seqs[i] ELSE flat[i - 1] \o seqs[i]
    <3> HIDE DEF flat
    <3> QED BY <2>4
  <2>7. ASSUME NEW i \in 1..n, g[i - 1] = h[i - 1] PROVE g[i] = h[i]
    <3>1. CASE i = 1
      <4> HIDE DEF flat, n, Q
      <4> QED BY <2>0, <2>1, <2>6, <3>1
    <3>2. CASE i # 1
      <4>1. i - 1 \in 1..n /\ i \in 0..n /\ i - 1 \in 0..n /\ i # 0 /\ i - 1 # 0
        BY <1>1, <3>2
      <4>2. h[i] = flat[i] /\ h[i - 1] = flat[i - 1]
        <5> HIDE DEF flat
        <5> QED BY <4>1
      <4> HIDE DEF flat, h, n, Q
      <4> QED BY <1>3, <2>6, <2>7, <3>2, <4>2, ZenonT(60)
    <3> QED BY <3>1, <3>2
  <2>8. \A i \in 0..n : g[i] = h[i]
    <3>1. g[0] = h[0]
      BY <1>1, <1>3
    <3> HIDE DEF h, n, Q
    <3>2. GoOnAlike(n, g, h)
      BY <2>7, SMTT(40) DEF GoOnAlike
    <3> QED BY <1>1, <3>1, <3>2, SameSteps, SMTT(40)
  <2>9. g[n] = flat[n]
    <3> HIDE DEF flat, Q
    <3> QED BY <1>1, <1>5, <2>0, <2>8
  <2> QED BY <1>3, <2>5, <2>9
<1> QED BY <1>4, <1>5

LEMMA FlatAppend ==
  ASSUME NEW S, NEW seqs \in Seq(Seq(S)), NEW x \in Seq(S)
  PROVE  /\ FlattenSeq(seqs) \in Seq(S)
         /\ FlattenSeq(Append(seqs, x)) = FlattenSeq(seqs) \o x
<1> DEFINE t == Append(seqs, x)  n == Len(seqs)  Q == Seq(S)
<1>1. /\ t \in Seq(Q) /\ n \in Nat /\ Len(t) = n + 1 /\ t[n + 1] = x
      /\ \A i \in 1..n : t[i] = seqs[i]
  BY AppendProperties, LenProperties
<1> HIDE DEF t
<1>2. PICK g \in [0..n -> Q] : g[0] = <<>> /\ (\A i \in 1..n : g[i] = g[i - 1] \o seqs[i])
                             /\ FlattenSeq(seqs) = g[n]
  BY FlatSteps
<1>3. PICK h \in [0..(n + 1) -> Q] : h[0] = <<>> /\ (\A i \in 1..(n + 1) : h[i] = h[i - 1] \o t[i])
                                   /\ FlattenSeq(t) = h[n + 1]
  <2>1. PICK h \in [0..Len(t) -> Q] : h[0] = <<>> /\ (\A i \in 1..Len(t) : h[i] = h[i - 1] \o t[i])
                                    /\ FlattenSeq(t) = h[Len(t)]
    BY <1>1, FlatSteps
  <2> QED BY <1>1, <2>1
<1> HIDE DEF n, Q
<1>4. \A i \in 0..n : g[i] = h[i]
  <2>1. ASSUME NEW i \in 1..n, g[i - 1] = h[i - 1] PROVE g[i] = h[i]
    <3>1. i \in 1..(n + 1) /\ t[i] = seqs[i]
      BY <1>1
    <3>2. h[i] = h[i - 1] \o seqs[i]
      BY <1>3, <3>1
    <3> QED BY <1>2, <2>1, <3>2
  <2>2. g[0] = h[0]
    BY <1>2, <1>3
  <2>3. GoOnAlike(n, g, h)
    BY <2>1 DEF GoOnAlike
  <2>4. n \in Nat
    BY <1>1
  <2> QED BY <2>2, <2>3, <2>4, SameSteps, SMTT(40)
<1>5. h[n + 1] = h[n] \o x /\ h[n] = g[n] /\ g[n] \in Q
  <2>1. n + 1 \in 1..(n + 1) /\ (n + 1) - 1 = n /\ n \in 0..n
    BY <1>1
  <2> QED BY <1>1, <1>2, <1>3, <1>4, <2>1
<1> QED BY <1>2, <1>3, <1>5 DEF t, Q

\* The bytes that items hold; Contents(b) is Held(b.items).
Held(items) == FlattenSeq([i \in DOMAIN items |-> items[i].data])

LEMMA HeldEmpty == Held(<<>>) = <<>>
<1>1. [i \in DOMAIN <<>> |-> <<>>[i].data] = <<>>
  OBVIOUS
<1>2. FlattenSeq(<<>>) = <<>>
  BY DEF FlattenSeq
<1> QED BY <1>1, <1>2 DEF Held

LEMMA HeldAppend ==
  ASSUME NEW s \in Seq(Item), NEW x \in Item
  PROVE  Held(Append(s, x)) = Held(s) \o x.data /\ Held(s) \in Seq(Bytes)
<1> DEFINE D(u) == [i \in DOMAIN u |-> u[i].data]
           n == Len(s)
           t == Append(s, x)
<1>1. \A i \in 1..n : s[i].data \in Seq(Bytes)
  <2>1. \A i \in 1..n : s[i] \in Item
    BY ElementOfSeq
  <2> QED BY <2>1 DEF Item
<1>2. n \in Nat /\ DOMAIN s = 1..n /\ DOMAIN t = 1..(n + 1) /\ t[n + 1] = x /\ \A i \in 1..n : t[i] = s[i]
  BY AppendProperties, LenProperties
<1> DEFINE Q == Seq(Bytes)
<1>3. D(s) \in Seq(Q) /\ Len(D(s)) = n /\ x.data \in Q
  <2>1. x.data \in Q
    BY DEF Item
  <2>2. D(s) = [i \in 1..n |-> s[i].data]
    BY <1>2
  <2> HIDE DEF n, Q
  <2> QED BY <1>1, <1>2, <2>1, <2>2 DEF Q
<1>4. D(t) = Append(D(s), x.data)
  <2> DEFINE a == Append(D(s), x.data)
  <2>1. a \in Seq(Q) /\ Len(a) = n + 1 /\ a[n + 1] = x.data /\ \A i \in 1..n : a[i] = D(s)[i]
    <3> HIDE DEF Q, D
    <3> QED BY <1>2, <1>3, AppendProperties
  <2>2. DOMAIN a = 1..(n + 1) /\ a = [i \in 1..(n + 1) |-> a[i]]
    <3> HIDE DEF Q, a
    <3> QED BY <1>2, <2>1, LenProperties
  <2>3. D(t) = [i \in 1..(n + 1) |-> t[i].data]
    BY <1>2
  <2>4. ASSUME NEW i \in 1..(n + 1) PROVE a[i] = t[i].data
    <3>1. CASE i \in 1..n
      <4>1. D(s)[i] = s[i].data
        BY <1>2, <3>1
      <4> HIDE DEF a, t, D
      <4> QED BY <1>2, <2>1, <3>1, <4>1
    <3>2. CASE i \notin 1..n
      <4>1. i = n + 1
        BY <1>2, <3>2
      <4> HIDE DEF a, t, D
      <4> QED BY <1>2, <2>1, <4>1
    <3> QED BY <3>1, <3>2
  <2> HIDE DEF a, t, D
  <2>5. a = D(t)
    BY <2>2, <2>3, <2>4
  <2> QED BY <2>5 DEF a
<1>5. Held(s) = FlattenSeq(D(s)) /\ Held(t) = FlattenSeq(D(t))
  BY DEF Held
<1> HIDE DEF D, t
<1>6. FlattenSeq(D(s)) \in Seq(Bytes) /\ FlattenSeq(Append(D(s), x.data)) = FlattenSeq(D(s)) \o x.data
  <2>1. D(s) \in Seq(Seq(Bytes)) /\ x.data \in Seq(Bytes)
    BY <1>3
  <2> QED BY <2>1, FlatAppend
<1> QED BY <1>4, <1>5, <1>6 DEF t

LEMMA HeldType ==
  ASSUME NEW s \in Seq(Item)
  PROVE  Held(s) \in Seq(Bytes) /\ Len(Held(s)) \in Nat
<1>1. [data |-> <<>>, lines |-> 0] \in Item
  BY EmptySeq DEF Item
<1>2. Held(s) \in Seq(Bytes)
  BY <1>1, HeldAppend
<1> QED BY <1>2, LenProperties

LEMMA BytesAssociative ==
  ASSUME NEW c \in Seq(Bytes), NEW d \in Seq(Bytes), NEW e \in Seq(Bytes)
  PROVE  (c \o d) \o e = c \o (d \o e)
<1> DEFINE B == Bytes
<1>1. c \in Seq(B) /\ d \in Seq(B) /\ e \in Seq(B)
  OBVIOUS
<1> HIDE DEF B
<1> QED BY <1>1, ConcatAssociative

LEMMA HeldConcat ==
  ASSUME NEW s \in Seq(Item), NEW t \in Seq(Item)
  PROVE  Held(s \o t) = Held(s) \o Held(t)
<1> DEFINE T == {n \in Nat : \A u \in Seq(Item) : Len(u) = n => Held(s \o u) = Held(s) \o Held(u)}
<1>1. 0 \in T
  <2> SUFFICES ASSUME NEW u \in Seq(Item), Len(u) = 0 PROVE Held(s \o u) = Held(s) \o Held(u)
    OBVIOUS
  <2>1. u = <<>> /\ s \o u = s
    BY EmptySeq, ConcatEmptySeq
  <2>2. Held(s) \in Seq(Bytes)
    BY HeldType
  <2>3. Held(s) \o <<>> = Held(s)
    BY <2>2, ConcatEmptySeq
  <2> QED BY <2>1, <2>3, HeldEmpty
<1>2. ASSUME NEW n \in T, n \in Nat, NEW u \in Seq(Item), Len(u) = n + 1
      PROVE  Held(s \o u) = Held(s) \o Held(u)
  <2>1. u # <<>>
    BY <1>2
  <2>2. PICK v \in Seq(Item), x \in Item : u = Append(v, x)
    BY <2>1, SequenceEmptyOrAppend
  <2>3. Len(v) = n
    BY <1>2, <2>2, AppendProperties, LenProperties
  <2>4. Held(s \o v) = Held(s) \o Held(v)
    BY <1>2, <2>3
  <2>5. s \o u = Append(s \o v, x) /\ s \o v \in Seq(Item)
    BY <2>2
  <2>6. Held(s \o u) = Held(s \o v) \o x.data /\ Held(u) = Held(v) \o x.data
    BY <2>2, <2>5, HeldAppend
  <2>7. x.data \in Seq(Bytes) /\ Held(v) \in Seq(Bytes) /\ Held(s) \in Seq(Bytes)
    BY HeldType DEF Item
  <2>8. (Held(s) \o Held(v)) \o x.data = Held(s) \o (Held(v) \o x.data)
    BY ONLY <2>7, BytesAssociative
  <2> HIDE DEF T
  <2> QED BY <2>4, <2>6, <2>8
<1>3. \A n \in T : n \in Nat => n + 1 \in T
  BY <1>2, SMTT(60)
<1>4. \A n \in Nat : n \in T
  <2> HIDE DEF T
  <2> QED BY <1>1, <1>3, Induction
<1>5. Len(t) \in Nat
  BY LenProperties
<1> QED BY <1>4, <1>5

-----------------------------------------------------------------------------
(***************************************************************************)
(* What the loop of add counts.                                            *)
(***************************************************************************)
LEMMA AfterByteType ==
  ASSUME NEW s \in Counts, NEW byte
  PROVE  AfterByte(s, byte) \in Counts
<1> DEFINE N == NewLineStatus
<1>1. /\ s = [nl |-> s.nl, lines |-> s.lines, empty |-> s.empty]
      /\ s.nl \in N /\ s.lines \in Nat /\ s.empty \in Nat
  BY DEF Counts
<1>2. "NO_NEWLINE" \in N /\ "CR" \in N /\ "CRLF" \in N /\ "CRLFCR" \in N
  BY DEF NewLineStatus
<1>3. CR # LF
  BY DEF CR, LF
<1>4. ASSUME NEW x \in N, NEW m \in Nat, NEW e \in Nat PROVE [nl |-> x, lines |-> m, empty |-> e] \in Counts
  BY DEF Counts
<1> HIDE DEF N
<1>5. CASE byte = CR
  <2> DEFINE x == CASE s.nl = "CRLF" -> "CRLFCR" [] s.nl = "NO_NEWLINE" -> "CR" [] OTHER -> "NO_NEWLINE"
  <2>1. AfterByte(s, byte) = [s EXCEPT !.nl = x]
    BY <1>3, <1>5 DEF AfterByte
  <2>2. x \in N
    BY <1>2
  <2> HIDE DEF x
  <2>3. AfterByte(s, byte) = [nl |-> x, lines |-> s.lines, empty |-> s.empty]
    BY <1>1, <2>1
  <2> QED BY <1>1, <1>4, <2>2, <2>3
<1>6. CASE byte = LF /\ s.nl = "CR"
  <2>1. AfterByte(s, byte) = [nl |-> "CRLF", lines |-> s.lines + 1, empty |-> s.empty]
    BY <1>1, <1>3, <1>6 DEF AfterByte
  <2>2. s.lines + 1 \in Nat
    BY <1>1
  <2> QED BY <1>1, <1>2, <1>4, <2>1, <2>2
<1>7. CASE byte = LF /\ s.nl = "CRLFCR"
  <2>1. AfterByte(s, byte) = [nl |-> "CRLFCR", lines |-> s.lines + 1, empty |-> s.empty + 1]
    BY <1>1, <1>3, <1>7 DEF AfterByte
  <2>2. s.lines + 1 \in Nat /\ s.empty + 1 \in Nat
    BY <1>1
  <2> QED BY <1>2, <1>4, <2>1, <2>2
<1>8. CASE byte # CR /\ ~(byte = LF /\ s.nl = "CR") /\ ~(byte = LF /\ s.nl = "CRLFCR")
  <2>1. AfterByte(s, byte) = [nl |-> "NO_NEWLINE", lines |-> s.lines, empty |-> s.empty]
    BY <1>1, <1>8 DEF AfterByte
  <2> QED BY <1>1, <1>2, <1>4, <2>1
<1> QED BY <1>5, <1>6, <1>7, <1>8

LEMMA ScanSteps ==
  ASSUME NEW s \in Counts, NEW data \in Seq(Bytes)
  PROVE  \E g \in [0..Len(data) -> Counts] :
           /\ g[0] = s
           /\ \A i \in 1..Len(data) : g[i] = AfterByte(g[i - 1], data[i])
           /\ Scan(s, data) = g[Len(data)]
<1> DEFINE n == Len(data)
           step == [x \in Counts \X (1..n) |-> AfterByte(x[1], data[x[2]])]
           Is(g) == g = [i \in 0..n |-> IF i = 0 THEN s ELSE AfterByte(g[i - 1], data[i])]
<1>1. n \in Nat
  BY LenProperties
<1>2. step \in Steppers(Counts, n)
  <2> HIDE DEF n
  <2> QED BY AfterByteType DEF Steppers
<1>3. PICK g \in [0..n -> Counts] : g[0] = s /\ \A i \in 1..n : g[i] = AfterByte(g[i - 1], data[i])
  <2>1. Iterates(Counts, s, n, step) # {}
    <3> HIDE DEF step, n
    <3> QED BY <1>1, <1>2, Iteration
  <2>2. PICK g \in [0..n -> Counts] : g[0] = s /\ \A i \in 1..n : g[i] = step[<<g[i - 1], i>>]
    <3> HIDE DEF step, n
    <3> QED BY <2>1 DEF Iterates
  <2>3. ASSUME NEW i \in 1..n PROVE g[i] = AfterByte(g[i - 1], data[i])
    <3>1. i - 1 \in 0..n
      BY <1>1
    <3>2. g[i - 1] \in Counts
      BY <2>2, <3>1
    <3> HIDE DEF n
    <3> QED BY <2>2, <3>2
  <2> QED BY <2>2, <2>3
<1>4. Is(g)
  <2>1. \A i \in 0..n : g[i] = IF i = 0 THEN s ELSE AfterByte(g[i - 1], data[i])
    <3>1. \A i \in 0..n : i # 0 => i \in 1..n
      BY <1>1
    <3> HIDE DEF n
    <3> QED BY <1>3, <3>1
  <2>2. g = [i \in 0..n |-> g[i]]
    <3> HIDE DEF n
    <3> QED BY <1>3
  <2> HIDE DEF n
  <2> QED BY <2>1, <2>2
<1> DEFINE after == CHOOSE h : Is(h)
<1>5. Is(after)
  BY <1>4
<1>6. Scan(s, data) = after[n]
  BY DEF Scan
<1>7. \A i \in 0..n : after[i] = IF i = 0 THEN s ELSE AfterByte(after[i - 1], data[i])
  <2> HIDE DEF after
  <2> QED BY <1>5
<1> HIDE DEF after, Is
<1>8. g[n] = after[n]
  <2> HIDE DEF n
  <2>1. ASSUME NEW i \in 1..n, g[i - 1] = after[i - 1] PROVE g[i] = after[i]
    <3>1. i \in 0..n /\ i # 0
      BY <1>1
    <3> QED BY <1>3, <1>7, <2>1, <3>1
  <2>2. GoOnAlike(n, g, after)
    BY <2>1 DEF GoOnAlike
  <2>3. 0 \in 0..n /\ n \in 0..n
    BY <1>1
  <2>4. g[0] = after[0]
    BY <1>3, <1>7, <2>3
  <2>5. \A i \in 0..n : g[i] = after[i]
    BY <1>1, <2>2, <2>4, SameSteps
  <2> QED BY <2>3, <2>5
<1> QED BY <1>3, <1>6, <1>8

LEMMA ScanEmpty ==
  ASSUME NEW s \in Counts
  PROVE  Scan(s, <<>>) = s
<1> DEFINE nothing == <<>>
<1>1. nothing \in Seq(Bytes) /\ Len(nothing) = 0
  BY EmptySeq
<1> HIDE DEF nothing
<1>2. PICK g \in [0..Len(nothing) -> Counts] : g[0] = s /\ Scan(s, nothing) = g[Len(nothing)]
  BY <1>1, ScanSteps, ZenonT(60)
<1>3. Scan(s, nothing) = s
  BY <1>1, <1>2
<1> QED BY <1>3 DEF nothing

LEMMA ScanAppend ==
  ASSUME NEW s \in Counts, NEW data \in Seq(Bytes), NEW x \in Bytes
  PROVE  Scan(s, Append(data, x)) = AfterByte(Scan(s, data), x) /\ Scan(s, data) \in Counts
<1> DEFINE t == Append(data, x)  n == Len(data)
<1>1. /\ t \in Seq(Bytes) /\ n \in Nat /\ Len(t) = n + 1 /\ t[n + 1] = x
      /\ \A i \in 1..n : t[i] = data[i]
  BY AppendProperties, LenProperties
<1> HIDE DEF t
<1>2. PICK g \in [0..n -> Counts] : g[0] = s /\ (\A i \in 1..n : g[i] = AfterByte(g[i - 1], data[i]))
                                 /\ Scan(s, data) = g[n]
  BY ScanSteps
<1>3. PICK h \in [0..(n + 1) -> Counts] : h[0] = s /\ (\A i \in 1..(n + 1) : h[i] = AfterByte(h[i - 1], t[i]))
                                       /\ Scan(s, t) = h[n + 1]
  <2>1. PICK h \in [0..Len(t) -> Counts] : h[0] = s /\ (\A i \in 1..Len(t) : h[i] = AfterByte(h[i - 1], t[i]))
                                        /\ Scan(s, t) = h[Len(t)]
    BY <1>1, ScanSteps
  <2> QED BY <1>1, <2>1
<1> HIDE DEF n
<1>4. \A i \in 0..n : g[i] = h[i]
  <2>1. ASSUME NEW i \in 1..n, g[i - 1] = h[i - 1] PROVE g[i] = h[i]
    <3>1. i \in 1..(n + 1) /\ t[i] = data[i]
      BY <1>1
    <3>2. h[i] = AfterByte(h[i - 1], data[i])
      BY <1>3, <3>1
    <3> QED BY <1>2, <2>1, <3>2
  <2>2. g[0] = h[0]
    BY <1>2, <1>3
  <2>3. GoOnAlike(n, g, h)
    BY <2>1 DEF GoOnAlike
  <2>4. n \in Nat
    BY <1>1
  <2> QED BY <2>2, <2>3, <2>4, SameSteps
<1>5. h[n + 1] = AfterByte(h[n], x) /\ h[n] = g[n] /\ g[n] \in Counts
  <2>1. n + 1 \in 1..(n + 1) /\ (n + 1) - 1 = n /\ n \in 0..n
    BY <1>1
  <2> QED BY <1>1, <1>2, <1>3, <1>4, <2>1
<1> QED BY <1>2, <1>3, <1>5 DEF t

LEMMA ScanType ==
  ASSUME NEW s \in Counts, NEW data \in Seq(Bytes)
  PROVE  Scan(s, data) \in Counts
<1>1. CR \in Bytes
  BY DEF Bytes
<1> QED BY <1>1, ScanAppend

\* To count two pieces is to count them as one.
LEMMA ScanConcat ==
  ASSUME NEW s \in Counts, NEW c \in Seq(Bytes), NEW d \in Seq(Bytes)
  PROVE  Scan(s, c \o d) = Scan(Scan(s, c), d)
<1> DEFINE T == {n \in Nat : \A u \in Seq(Bytes) : Len(u) = n => Scan(s, c \o u) = Scan(Scan(s, c), u)}
<1>0. Scan(s, c) \in Counts
  BY ScanType
<1>1. 0 \in T
  <2> SUFFICES ASSUME NEW u \in Seq(Bytes), Len(u) = 0 PROVE Scan(s, c \o u) = Scan(Scan(s, c), u)
    OBVIOUS
  <2>1. u = <<>> /\ c \o u = c
    BY EmptySeq, ConcatEmptySeq
  <2> QED BY <1>0, <2>1, ScanEmpty
<1>2. ASSUME NEW n \in T, n \in Nat, NEW u \in Seq(Bytes), Len(u) = n + 1
      PROVE  Scan(s, c \o u) = Scan(Scan(s, c), u)
  <2>1. u # <<>>
    BY <1>2
  <2>2. PICK v \in Seq(Bytes), x \in Bytes : u = Append(v, x)
    BY <2>1, SequenceEmptyOrAppend
  <2>3. Len(v) = n
    BY <1>2, <2>2, AppendProperties, LenProperties
  <2>4. Scan(s, c \o v) = Scan(Scan(s, c), v)
    BY <1>2, <2>3
  <2>5. c \o u = Append(c \o v, x) /\ c \o v \in Seq(Bytes)
    BY <2>2
  <2>6. /\ Scan(s, c \o u) = AfterByte(Scan(s, c \o v), x)
        /\ Scan(Scan(s, c), u) = AfterByte(Scan(Scan(s, c), v), x)
    <3>1. Scan(s, Append(c \o v, x)) = AfterByte(Scan(s, c \o v), x)
      BY <2>5, ScanAppend
    <3>2. Scan(Scan(s, c), Append(v, x)) = AfterByte(Scan(Scan(s, c), v), x)
      BY <1>0, ScanAppend
    <3> QED BY <2>2, <2>5, <3>1, <3>2
  <2> HIDE DEF T
  <2> QED BY <2>4, <2>6
<1>3. \A n \in T : n \in Nat => n + 1 \in T
  BY <1>2
<1>4. \A n \in Nat : n \in T
  <2> HIDE DEF T
  <2> QED BY <1>1, <1>3, Induction
<1>5. Len(d) \in Nat
  BY LenProperties
<1> QED BY <1>4, <1>5

\* How many lines were there before makes no difference to what is counted.
Afresh(s) == [s EXCEPT !.lines = 0]

LEMMA AfterByteAdds ==
  ASSUME NEW s \in Counts, NEW r \in Counts, NEW k \in Nat, NEW byte,
         r.nl = s.nl, r.empty = s.empty, r.lines = s.lines + k
  PROVE  /\ AfterByte(r, byte).nl = AfterByte(s, byte).nl
         /\ AfterByte(r, byte).empty = AfterByte(s, byte).empty
         /\ AfterByte(r, byte).lines = AfterByte(s, byte).lines + k
BY DEF AfterByte, Counts, NewLineStatus, CR, LF

LEMMA ScanAdds ==
  ASSUME NEW s \in Counts, NEW data \in Seq(Bytes)
  PROVE  /\ Afresh(s) \in Counts
         /\ Scan(s, data).nl = Scan(Afresh(s), data).nl
         /\ Scan(s, data).empty = Scan(Afresh(s), data).empty
         /\ Scan(s, data).lines = Scan(Afresh(s), data).lines + s.lines
<1> DEFINE k == s.lines
           z == Afresh(s)
           Alike(u) == /\ Scan(s, u).nl = Scan(z, u).nl /\ Scan(s, u).empty = Scan(z, u).empty
                       /\ Scan(s, u).lines = Scan(z, u).lines + k
           T == {n \in Nat : \A u \in Seq(Bytes) : Len(u) = n => Alike(u)}
<1>0. z \in Counts /\ k \in Nat /\ z.nl = s.nl /\ z.empty = s.empty /\ z.lines = 0
  BY DEF Afresh, Counts
<1>1. 0 \in T
  <2> SUFFICES ASSUME NEW u \in Seq(Bytes), Len(u) = 0 PROVE Alike(u)
    OBVIOUS
  <2>1. u = <<>>
    BY EmptySeq
  <2>2. Scan(s, u) = s /\ Scan(z, u) = z
    BY <1>0, <2>1, ScanEmpty
  <2> HIDE DEF z
  <2> QED BY <1>0, <2>2
<1>2. ASSUME NEW n \in T, n \in Nat, NEW u \in Seq(Bytes), Len(u) = n + 1
      PROVE  Alike(u)
  <2>1. u # <<>>
    BY <1>2
  <2>2. PICK v \in Seq(Bytes), x \in Bytes : u = Append(v, x)
    BY <2>1, SequenceEmptyOrAppend
  <2>3. Len(v) = n
    BY <1>2, <2>2, AppendProperties, LenProperties
  <2>4. Alike(v)
    BY <1>2, <2>3
  <2> HIDE DEF T, z
  <2>5. /\ Scan(s, u) = AfterByte(Scan(s, v), x) /\ Scan(s, v) \in Counts
        /\ Scan(z, u) = AfterByte(Scan(z, v), x) /\ Scan(z, v) \in Counts
    BY <1>0, <2>2, ScanAppend
  <2> HIDE DEF k
  <2> QED BY <1>0, <2>4, <2>5, AfterByteAdds
<1>3. \A n \in T : n \in Nat => n + 1 \in T
  BY <1>2
<1>4. \A n \in Nat : n \in T
  <2> HIDE DEF T
  <2> QED BY <1>1, <1>3, Induction
<1>5. Len(data) \in Nat
  BY LenProperties
<1>6. Alike(data)
  BY <1>4, <1>5
<1> QED BY <1>0, <1>6

-----------------------------------------------------------------------------
(***************************************************************************)
(* Numbers, and the ends of lines.                                         *)
(***************************************************************************)
LEMMA MinIsLeast ==
  ASSUME NEW T, T \subseteq Nat, T # {}
  PROVE  Min(T) \in T /\ \A y \in T : Min(T) <= y
<1>1. \E x \in T : \A y \in T : x <= y
  BY LeastExists
<1> QED BY <1>1 DEF Min

LEMMA MaxIsGreatest ==
  ASSUME NEW T, NEW m \in Nat, T \subseteq 0..m, T # {}
  PROVE  Max(T) \in T /\ \A y \in T : y <= Max(T)
<1> DEFINE D == {m - x : x \in T}
<1>1. D \subseteq Nat /\ D # {}
  <2>1. \A x \in T : x \in 0..m /\ m - x \in Nat
    OBVIOUS
  <2>2. PICK x \in T : TRUE
    OBVIOUS
  <2>3. m - x \in D
    OBVIOUS
  <2> QED BY <2>1, <2>3
<1>2. PICK d \in D : \A e \in D : d <= e
  <2> HIDE DEF D
  <2> QED BY <1>1, LeastExists
<1>3. PICK x \in T : d = m - x
  BY <1>2
<1>4. \A y \in T : x >= y
  <2> SUFFICES ASSUME NEW y \in T PROVE x >= y
    OBVIOUS
  <2>1. m - y \in D
    OBVIOUS
  <2>2. d <= m - y
    BY <1>2, <2>1
  <2>3. x \in 0..m /\ y \in 0..m
    OBVIOUS
  <2> HIDE DEF D
  <2> QED BY <1>3, <2>2, <2>3
<1>5. Max(T) \in T /\ \A y \in T : Max(T) >= y
  BY <1>4 DEF Max
<1> QED BY <1>5

LEMMA LineEndsType ==
  ASSUME NEW s \in Seq(Bytes)
  PROVE  /\ LineEnds(s) \subseteq 2..Len(s) /\ LineEnds(s) \subseteq Nat
         /\ Cardinality(LineEnds(s)) \in Nat
<1>1. Len(s) \in Nat
  BY LenProperties
<1>2. LineEnds(s) \subseteq 2..Len(s)
  BY DEF LineEnds
<1>3. IsFiniteSet(2..Len(s))
  BY <1>1, FS_Interval
<1>4. IsFiniteSet(LineEnds(s))
  BY <1>2, <1>3, FS_Subset
<1> QED BY <1>1, <1>2, <1>4, FS_CardinalityType

LEMMA RecountType ==
  ASSUME NEW item, NEW s \in Seq(Bytes)
  PROVE  /\ Recount(item, s) \in Item /\ Recount(item, s).data = s
         /\ Recount(item, s).lines = Cardinality(LineEnds(s))
BY LineEndsType DEF Recount, Item

-----------------------------------------------------------------------------
(***************************************************************************)
(* The operations of the buffer.  Its bytes are a queue: add puts bytes at *)
(* the end, remove takes them from the front.                              *)
(***************************************************************************)
LEMMA ContentsHeld ==
  ASSUME NEW b \in Buffers
  PROVE  /\ b.items \in Seq(Item) /\ b.lines = LinesOf(b.items) /\ b.lines \in Nat
         /\ b.empty \in Nat /\ b.nl \in NewLineStatus
         /\ Contents(b) = Held(b.items) /\ Contents(b) \in Seq(Bytes)
         /\ Size(b) = Len(Contents(b)) /\ Size(b) \in Nat
<1>1. b.items \in Seq(Item)
  BY DEF Buffers, Counted
<1>2. Contents(b) = Held(b.items)
  BY DEF Contents, Held
<1> QED BY <1>1, <1>2, HeldType DEF Buffers, Counted, Size

LEMMA BufferIs ==
  ASSUME NEW b, NEW items \in Seq(Item), NEW k \in Nat, NEW nl \in NewLineStatus,
         b = [items |-> items, lines |-> LinesOf(items), empty |-> k, nl |-> nl]
  PROVE  b \in Buffers /\ Contents(b) = Held(items)
<1>1. LinesOf(items) \in Nat
  BY LinesOfType
<1> QED BY <1>1 DEF Buffers, Counted, Contents, Held

LEMMA BufferFields ==
  ASSUME NEW b \in Buffers
  PROVE  b = [items |-> b.items, lines |-> LinesOf(b.items), empty |-> b.empty, nl |-> b.nl]
BY DEF Buffers, Counted

LEMMA EmptyBufferType == EmptyBuffer \in Buffers /\ Contents(EmptyBuffer) = <<>>
<1>1. <<>> \in Seq(Item) /\ 0 \in Nat /\ "NO_NEWLINE" \in NewLineStatus
  BY EmptySeq DEF NewLineStatus
<1>2. EmptyBuffer = [items |-> <<>>, lines |-> LinesOf(<<>>), empty |-> 0, nl |-> "NO_NEWLINE"]
  BY LinesOfEmpty DEF EmptyBuffer
<1> QED BY <1>1, <1>2, BufferIs, HeldEmpty

LEMMA FourFields ==
  ASSUME NEW A, NEW B, NEW C, NEW D, NEW r \in [items : A, lines : B, empty : C, nl : D],
         NEW x \in A, NEW y \in B, NEW z \in C
  PROVE  /\ [r EXCEPT !.items = x, !.lines = y] = [items |-> x, lines |-> y, empty |-> r.empty, nl |-> r.nl]
         /\ [r EXCEPT !.items = x, !.lines = y, !.empty = z] = [items |-> x, lines |-> y, empty |-> z, nl |-> r.nl]
<1> DEFINE R == [items : A, lines : B, empty : C, nl : D]
           s == [r EXCEPT !.items = x, !.lines = y]
           t == [r EXCEPT !.items = x, !.lines = y, !.empty = z]
<1>1. s \in R /\ t \in R
  OBVIOUS
<1>2. s.items = x /\ s.lines = y /\ s.empty = r.empty /\ s.nl = r.nl
  OBVIOUS
<1>3. t.items = x /\ t.lines = y /\ t.empty = z /\ t.nl = r.nl
  OBVIOUS
<1> HIDE DEF s, t
<1>4. s = [items |-> x, lines |-> y, empty |-> r.empty, nl |-> r.nl]
  BY <1>1, <1>2
<1>5. t = [items |-> x, lines |-> y, empty |-> z, nl |-> r.nl]
  BY <1>1, <1>3
<1> QED BY <1>4, <1>5 DEF s, t

LEMMA ClearType ==
  ASSUME NEW b \in Buffers
  PROVE  Clear(b) \in Buffers /\ Contents(Clear(b)) = <<>>
<1>1. <<>> \in Seq(Item) /\ 0 \in Nat /\ b.nl \in NewLineStatus
  BY EmptySeq, ContentsHeld
<1>2. Clear(b) = [items |-> <<>>, lines |-> LinesOf(<<>>), empty |-> 0, nl |-> b.nl]
  <2>1. Clear(b) = [items |-> <<>>, lines |-> 0, empty |-> 0, nl |-> b.nl]
    <3> DEFINE none == <<>>
    <3>1. b \in [items : Seq(Item), lines : Nat, empty : Nat, nl : NewLineStatus]
      BY DEF Buffers, Counted
    <3>2. Clear(b) = [b EXCEPT !.items = none, !.lines = 0, !.empty = 0]
      BY DEF Clear
    <3>0. none \in Seq(Item)
      BY EmptySeq
    <3> HIDE DEF none
    <3>3. Clear(b) = [items |-> none, lines |-> 0, empty |-> 0, nl |-> b.nl]
      BY <3>0, <3>1, <3>2, FourFields
    <3> QED BY <3>3 DEF none
  <2> QED BY <2>1, LinesOfEmpty
<1> QED BY <1>1, <1>2, BufferIs, HeldEmpty

LEMMA AddType ==
  ASSUME NEW b \in Buffers, NEW data \in Seq(Bytes)
  PROVE  Add(b, data) \in Buffers /\ Contents(Add(b, data)) = Contents(b) \o data
<1> DEFINE z == [nl |-> b.nl, lines |-> 0, empty |-> b.empty]
           s == Scan(z, data)
           x == [data |-> data, lines |-> s.lines]
           items == Append(b.items, x)
<1>1. z \in Counts
  BY ContentsHeld DEF Counts
<1>2. s \in Counts
  <2> HIDE DEF z
  <2> QED BY <1>1, ScanType
<1>3. s.lines \in Nat /\ s.empty \in Nat /\ s.nl \in NewLineStatus
  <2> HIDE DEF s
  <2> QED BY <1>2 DEF Counts
<1>4. Add(b, data) = [items |-> items, lines |-> b.lines + s.lines, empty |-> s.empty, nl |-> s.nl]
  BY DEF Add
<1> HIDE DEF s
<1>5. x \in Item /\ x.data = data /\ x.lines = s.lines
  BY <1>3 DEF Item
<1> HIDE DEF x
<1>6. b.items \in Seq(Item) /\ b.lines = LinesOf(b.items)
  BY ContentsHeld
<1>7. LinesOf(items) = b.lines + s.lines /\ items \in Seq(Item)
  <2>1. LinesOf(items) = LinesOf(b.items) + x.lines
    BY <1>5, <1>6, LinesOfAppend
  <2>2. items \in Seq(Item)
    BY <1>5, <1>6, AppendProperties
  <2> HIDE DEF items
  <2> QED BY <1>5, <1>6, <2>1, <2>2
<1>8. Held(items) = Held(b.items) \o data
  <2>1. Held(items) = Held(b.items) \o x.data
    BY <1>5, <1>6, HeldAppend, ZenonT(60)
  <2> QED BY <1>5, <2>1
<1> HIDE DEF items
<1>9. Add(b, data) = [items |-> items, lines |-> LinesOf(items), empty |-> s.empty, nl |-> s.nl]
  BY <1>4, <1>7
<1>10. Add(b, data) \in Buffers /\ Contents(Add(b, data)) = Held(items)
  BY <1>3, <1>7, <1>9, BufferIs, SMTT(40)
<1> QED BY <1>8, <1>10, ContentsHeld

\* The count of whole items that remove pops.
UpTo(b, k)  == Len(Held(SubSeq(b.items, 1, k)))
Whole(b, n) == Max({k \in 0..Len(b.items) : UpTo(b, k) <= n})

LEMMA PrefixOfItems ==
  ASSUME NEW s \in Seq(Item), NEW k \in 0..Len(s)
  PROVE  /\ SubSeq(s, 1, k) \in Seq(Item) /\ SubSeq(s, k + 1, Len(s)) \in Seq(Item)
         /\ SubSeq(s, 1, k) \o SubSeq(s, k + 1, Len(s)) = s
         /\ Len(SubSeq(s, k + 1, Len(s))) = Len(s) - k
         /\ k < Len(s) => SubSeq(s, k + 1, Len(s))[1] = s[k + 1]
<1>1. Len(s) \in Nat /\ k \in Nat /\ k <= Len(s) /\ \A i \in 1..Len(s) : s[i] \in Item
  BY LenProperties, ElementOfSeq
<1>2. SubSeq(s, 1, k) \in Seq(Item)
  <2>1. \A i \in 1..k : s[i] \in Item
    BY <1>1
  <2> QED BY <1>1, <2>1, SubSeqProperties
<1>3. /\ SubSeq(s, k + 1, Len(s)) \in Seq(Item)
      /\ Len(SubSeq(s, k + 1, Len(s))) = Len(s) - k
      /\ k < Len(s) => SubSeq(s, k + 1, Len(s))[1] = s[k + 1]
  <2>1. k + 1 \in Int /\ Len(s) \in Int /\ \A i \in (k + 1)..Len(s) : s[i] \in Item
    BY <1>1
  <2> DEFINE m == k + 1  n == Len(s)
  <2> HIDE DEF m, n
  <2>2. /\ SubSeq(s, m, n) \in Seq(Item)
        /\ Len(SubSeq(s, m, n)) = IF m <= n THEN n - m + 1 ELSE 0
        /\ \A i \in 1..(n - m + 1) : SubSeq(s, m, n)[i] = s[m + i - 1]
    BY <2>1, SubSeqProperties DEF m, n
  <2>3. k < n => 1 \in 1..(n - m + 1) /\ m + 1 - 1 = k + 1
    BY <1>1 DEF m, n
  <2>4. k < n => SubSeq(s, m, n)[1] = s[k + 1]
    BY <2>2, <2>3
  <2> QED BY <1>1, <2>2, <2>4 DEF m, n
<1>4. SubSeq(s, 1, k) \o SubSeq(s, k + 1, Len(s)) = SubSeq(s, 1, Len(s))
  <2>1. 1 \in 1..(Len(s) + 1) /\ k \in (1 - 1)..Len(s) /\ Len(s) \in k..Len(s)
    BY <1>1
  <2> QED BY <2>1, ConcatAdjacentSubSeq
<1>5. SubSeq(s, 1, Len(s)) = s
  BY SubSeqFull
<1> QED BY <1>2, <1>3, <1>4, <1>5

LEMMA WholeItems ==
  ASSUME NEW b \in Buffers, NEW n \in Nat
  PROVE  /\ Whole(b, n) \in 0..Len(b.items) /\ UpTo(b, Whole(b, n)) <= n
         /\ UpTo(b, Whole(b, n)) \in Nat
         /\ \A k \in 0..Len(b.items) : UpTo(b, k) <= n => k <= Whole(b, n)
         /\ n < Size(b) => Whole(b, n) < Len(b.items)
<1> DEFINE m == Len(b.items)
           T == {k \in 0..m : UpTo(b, k) <= n}
<1>1. b.items \in Seq(Item) /\ m \in Nat
  BY ContentsHeld, LenProperties
<1>2. \A k \in 0..m : UpTo(b, k) \in Nat
  BY <1>1, PrefixOfItems, HeldType DEF UpTo
<1>3. 0 \in T
  <2>1. SubSeq(b.items, 1, 0) = <<>>
    BY SubSeqEmpty
  <2>2. UpTo(b, 0) = 0
    BY <2>1, HeldEmpty, EmptySeq DEF UpTo
  <2> QED BY <1>1, <2>2
<1>4. Max(T) \in T /\ \A k \in T : k <= Max(T)
  <2>1. T \subseteq 0..m /\ T # {}
    BY <1>3
  <2> HIDE DEF T, m
  <2> QED BY <1>1, <2>1, MaxIsGreatest
<1>5. Whole(b, n) = Max(T)
  BY DEF Whole
<1>6. UpTo(b, m) = Size(b) /\ Size(b) \in Nat
  <2>1. SubSeq(b.items, 1, m) = b.items
    BY <1>1, SubSeqFull
  <2> QED BY <2>1, ContentsHeld DEF UpTo
<1> DEFINE w == Max(T)
<1> HIDE DEF w
<1>7. w \in 0..m /\ UpTo(b, w) <= n /\ \A k \in 0..m : UpTo(b, k) <= n => k <= w
  BY <1>4 DEF w
<1>8. n < Size(b) => w < m
  <2>1. n < Size(b) => w # m
    BY <1>6, <1>7
  <2> HIDE DEF m, T
  <2> QED BY <1>1, <1>7, <2>1
<1> QED BY <1>2, <1>5, <1>7, <1>8 DEF w

LEMMA OneItem ==
  ASSUME NEW x \in Item
  PROVE  <<x>> \in Seq(Item) /\ LinesOf(<<x>>) = x.lines /\ Held(<<x>>) = x.data
<1> DEFINE none == <<>>
<1>1. none \in Seq(Item) /\ <<x>> \in Seq(Item) /\ <<x>> = Append(none, x)
  BY EmptySeq
<1>2. LinesOf(none) = 0 /\ Held(none) = none
  BY LinesOfEmpty, HeldEmpty
<1>3. x.lines \in Nat /\ x.data \in Seq(Bytes) /\ none \o x.data = x.data
  BY ConcatEmptySeq DEF Item
<1> HIDE DEF none
<1>4. LinesOf(<<x>>) = 0 + x.lines /\ Held(<<x>>) = none \o x.data
  BY <1>1, <1>2, LinesOfAppend, HeldAppend
<1> QED BY <1>1, <1>3, <1>4

\* What is behind the first n bytes.
Behind(s, n) == SubSeq(s, n + 1, Len(s))

LEMMA BehindType ==
  ASSUME NEW s \in Seq(Bytes), NEW n \in Nat
  PROVE  /\ Behind(s, n) \in Seq(Bytes)
         /\ Len(Behind(s, n)) = IF n <= Len(s) THEN Len(s) - n ELSE 0
         /\ \A i \in 1..(Len(s) - n) : Behind(s, n)[i] = s[n + i]
         /\ n >= Len(s) => Behind(s, n) = <<>>
<1> DEFINE m == n + 1  k == Len(s)
<1>1. k \in Nat /\ m \in Int /\ k \in Int /\ \A i \in m..k : s[i] \in Bytes
  BY LenProperties, ElementOfSeq
<1> HIDE DEF m, k
<1>2. /\ SubSeq(s, m, k) \in Seq(Bytes)
      /\ Len(SubSeq(s, m, k)) = IF m <= k THEN k - m + 1 ELSE 0
      /\ \A i \in 1..(k - m + 1) : SubSeq(s, m, k)[i] = s[m + i - 1]
  BY <1>1, SubSeqProperties
<1>3. Behind(s, n) = SubSeq(s, m, k)
  BY DEF Behind, m, k
<1>4. Len(Behind(s, n)) = IF n <= k THEN k - n ELSE 0
  BY <1>1, <1>2, <1>3 DEF m
<1>5. \A i \in 1..(k - n) : Behind(s, n)[i] = s[n + i]
  <2> SUFFICES ASSUME NEW i \in 1..(k - n) PROVE Behind(s, n)[i] = s[n + i]
    OBVIOUS
  <2>1. i \in 1..(k - m + 1) /\ m + i - 1 = n + i
    BY <1>1 DEF m
  <2> QED BY <1>2, <1>3, <2>1
<1>6. n >= k => Behind(s, n) = <<>>
  <2>1. n >= k => k < m
    BY <1>1 DEF m
  <2> QED BY <1>1, <1>3, <2>1, SubSeqEmpty
<1> QED BY <1>2, <1>3, <1>4, <1>5, <1>6 DEF k

LEMMA BehindConcat ==
  ASSUME NEW s \in Seq(Bytes), NEW t \in Seq(Bytes), NEW n \in Nat
  PROVE  /\ n = Len(s) => Behind(s \o t, n) = t
         /\ n <= Len(s) => Behind(s \o t, n) = Behind(s, n) \o t
         /\ n >= Len(s) => Behind(s \o t, n) = Behind(t, n - Len(s))
<1> DEFINE c == s \o t
<1>1. /\ Len(s) \in Nat /\ Len(t) \in Nat /\ c \in Seq(Bytes) /\ Len(c) = Len(s) + Len(t)
      /\ \A i \in 1..(Len(s) + Len(t)) : c[i] = IF i <= Len(s) THEN s[i] ELSE t[i - Len(s)]
  BY ConcatProperties, LenProperties
<1> HIDE DEF c
<1>2. /\ Behind(c, n) \in Seq(Bytes) /\ Len(Behind(c, n)) = IF n <= Len(c) THEN Len(c) - n ELSE 0
      /\ \A i \in 1..(Len(c) - n) : Behind(c, n)[i] = c[n + i]
  BY <1>1, BehindType
<1>3. ASSUME n <= Len(s) PROVE Behind(c, n) = Behind(s, n) \o t
  <2> DEFINE a == Behind(s, n)  d == a \o t
  <2>1. a \in Seq(Bytes) /\ Len(a) = Len(s) - n /\ \A i \in 1..(Len(s) - n) : a[i] = s[n + i]
    BY <1>3, BehindType
  <2> HIDE DEF a
  <2>2. /\ d \in Seq(Bytes) /\ Len(d) = Len(a) + Len(t)
        /\ \A i \in 1..(Len(a) + Len(t)) : d[i] = IF i <= Len(a) THEN a[i] ELSE t[i - Len(a)]
    BY <2>1, ConcatProperties
  <2> HIDE DEF d
  <2>3. Len(Behind(c, n)) = Len(d)
    BY <1>1, <1>2, <1>3, <2>1, <2>2
  <2>4. ASSUME NEW i \in 1..Len(Behind(c, n)) PROVE Behind(c, n)[i] = d[i]
    <3>1. i \in 1..(Len(c) - n) /\ n + i \in 1..(Len(s) + Len(t)) /\ i \in 1..(Len(a) + Len(t))
      BY <1>1, <1>2, <1>3, <2>1
    <3>2. Behind(c, n)[i] = IF n + i <= Len(s) THEN s[n + i] ELSE t[n + i - Len(s)]
      BY <1>1, <1>2, <3>1
    <3>3. d[i] = IF i <= Len(s) - n THEN a[i] ELSE t[i - (Len(s) - n)]
      BY <2>1, <2>2, <3>1
    <3>4. n + i <= Len(s) <=> i <= Len(s) - n
      BY <1>1, <3>1
    <3>5. n + i - Len(s) = i - (Len(s) - n)
      BY <1>1, <3>1
    <3>6. i <= Len(s) - n => a[i] = s[n + i]
      BY <1>1, <2>1, <3>1
    <3> QED BY <3>2, <3>3, <3>4, <3>5, <3>6
  <2>5. Behind(c, n) = d
    BY <1>2, <2>2, <2>3, <2>4, SeqEqual
  <2> QED BY <2>5 DEF d, a
<1>4. ASSUME n >= Len(s) PROVE Behind(c, n) = Behind(t, n - Len(s))
  <2> DEFINE k == n - Len(s)
  <2>1. k \in Nat
    BY <1>1, <1>4
  <2>2. /\ Behind(t, k) \in Seq(Bytes) /\ Len(Behind(t, k)) = IF k <= Len(t) THEN Len(t) - k ELSE 0
        /\ \A i \in 1..(Len(t) - k) : Behind(t, k)[i] = t[k + i]
    BY <2>1, BehindType
  <2>3. Len(Behind(t, k)) = Len(Behind(c, n))
    BY <1>1, <1>2, <1>4, <2>2
  <2>4. ASSUME NEW i \in 1..Len(Behind(c, n)) PROVE Behind(c, n)[i] = Behind(t, k)[i]
    <3>1. i \in Nat /\ i > 0 /\ i \in 1..(Len(c) - n) /\ n + i \in 1..(Len(s) + Len(t)) /\ i \in 1..(Len(t) - k)
      BY <1>1, <1>2, <1>4
    <3>2. ~(n + i <= Len(s)) /\ n + i - Len(s) = k + i
      BY <1>1, <1>4, <3>1
    <3>3. Behind(c, n)[i] = c[n + i] /\ c[n + i] = t[n + i - Len(s)]
      BY <1>1, <1>2, <3>1, <3>2
    <3>4. Behind(t, k)[i] = t[k + i]
      BY <2>2, <3>1
    <3> QED BY <3>2, <3>3, <3>4
  <2> HIDE DEF k
  <2>5. Behind(c, n) = Behind(t, k)
    BY <1>2, <2>2, <2>3, <2>4, SeqEqual
  <2> QED BY <2>5 DEF k
<1>5. ASSUME n = Len(s) PROVE Behind(c, n) = t
  <2>1. n >= Len(s) /\ n - Len(s) = 0
    BY <1>1, <1>5
  <2>2. Behind(t, 0) = t
    BY SubSeqFull DEF Behind
  <2> QED BY <1>4, <2>1, <2>2
<1> QED BY <1>3, <1>4, <1>5 DEF c

\* What remove leaves: nothing, the last items, or with them what is left of
\* one, counted afresh.
Suffix(b, c)   == \E pre \in Seq(Item) : b.items = pre \o c.items
Recounted(b, c) ==
  \E pre \in Seq(Item), tail \in Seq(Item), x \in Item, front \in Item :
    /\ b.items = pre \o (<<x>> \o tail) /\ c.items = <<front>> \o tail
    /\ front.lines = Cardinality(LineEnds(front.data))

LEMMA DropLeaves ==
  ASSUME NEW b \in Buffers, NEW n \in Nat
  PROVE  /\ Drop(b, n) \in Buffers /\ Contents(Drop(b, n)) = Behind(Contents(b), n)
         /\ IF n >= Size(b) THEN Drop(b, n) = Clear(b)
            ELSE Drop(b, n).nl = b.nl /\ (Suffix(b, Drop(b, n)) \/ Recounted(b, Drop(b, n)))
<1> DEFINE w == Whole(b, n)
           u == UpTo(b, w)
           pre == SubSeq(b.items, 1, w)
           rest == SubSeq(b.items, w + 1, Len(b.items))
           popped == LinesOf(pre)
<1>1. /\ b.items \in Seq(Item) /\ b.lines = LinesOf(b.items) /\ b.empty \in Nat /\ b.nl \in NewLineStatus
      /\ Contents(b) = Held(b.items) /\ Contents(b) \in Seq(Bytes) /\ Size(b) = Len(Contents(b)) /\ Size(b) \in Nat
      /\ Len(b.items) \in Nat
  BY ContentsHeld, LenProperties
<1>2. /\ w \in 0..Len(b.items) /\ u <= n /\ u \in Nat
      /\ \A k \in 0..Len(b.items) : UpTo(b, k) <= n => k <= w
      /\ n < Size(b) => w < Len(b.items)
  BY WholeItems
<1>3. \A k : Len(Contents([b EXCEPT !.items = SubSeq(@, 1, k)])) = UpTo(b, k)
  <2> SUFFICES ASSUME NEW k PROVE Len(Contents([b EXCEPT !.items = SubSeq(@, 1, k)])) = UpTo(b, k)
    OBVIOUS
  <2> DEFINE p == SubSeq(b.items, 1, k)
             c == [b EXCEPT !.items = p]
  <2>1. b \in Counted
    BY DEF Buffers
  <2> HIDE DEF p
  <2>2. c.items = p
    BY <2>1 DEF Counted
  <2> HIDE DEF c
  <2>3. Contents(c) = Held(p)
    BY <2>2 DEF Contents, Held
  <2> QED BY <2>3 DEF UpTo, c, p
<1>4. Drop(b, n) = CASE n >= Size(b) -> Clear(b)
                     [] n < Size(b) /\ n = u -> [b EXCEPT !.items = rest, !.lines = @ - popped]
                     [] OTHER ->
                          LET front == Recount(rest[1], SubSeq(rest[1].data, n - u + 1, Len(rest[1].data)))
                          IN  [b EXCEPT !.items = <<front>> \o Tail(rest),
                                        !.lines = @ - popped - rest[1].lines + Cardinality(LineEnds(front.data))]
  <2> DEFINE upTo(k) == Len(Contents([b EXCEPT !.items = SubSeq(@, 1, k)]))
  <2>1. {k \in 0..Len(b.items) : upTo(k) <= n} = {k \in 0..Len(b.items) : UpTo(b, k) <= n}
    BY <1>3
  <2>2. Max({k \in 0..Len(b.items) : upTo(k) <= n}) = w
    BY <2>1 DEF Whole
  <2>3. upTo(w) = u
    BY <1>3
  <2> QED BY <2>2, <2>3 DEF Drop
<1> HIDE DEF w
<1>5. /\ pre \in Seq(Item) /\ rest \in Seq(Item) /\ pre \o rest = b.items
      /\ Len(rest) = Len(b.items) - w
  BY <1>1, <1>2, PrefixOfItems
<1> HIDE DEF pre, rest
<1>6. /\ b.lines = popped + LinesOf(rest) /\ popped \in Nat /\ LinesOf(rest) \in Nat
      /\ Contents(b) = Held(pre) \o Held(rest) /\ Held(pre) \in Seq(Bytes) /\ Held(rest) \in Seq(Bytes)
  BY <1>1, <1>5, LinesOfConcat, LinesOfType, HeldConcat, HeldType
<1> HIDE DEF popped
<1>7. u = Len(Held(pre))
  BY DEF u, UpTo, pre
<1> HIDE DEF u
<1>8. CASE n >= Size(b)
  <2>1. Drop(b, n) = Clear(b)
    BY <1>1, <1>4, <1>8
  <2> QED BY <1>1, <1>8, <2>1, ClearType, BehindType
<1>b. b \in [items : Seq(Item), lines : Nat, empty : Nat, nl : NewLineStatus]
  BY DEF Buffers, Counted
<1>9. CASE n < Size(b) /\ n = u
  <2>1. Drop(b, n) = [b EXCEPT !.items = rest, !.lines = b.lines - popped]
    BY <1>1, <1>4, <1>9
  <2>2. b.lines - popped = LinesOf(rest)
    BY <1>6
  <2>3. Drop(b, n) = [items |-> rest, lines |-> LinesOf(rest), empty |-> b.empty, nl |-> b.nl]
    BY <1>b, <1>1, <1>5, <1>6, <2>1, <2>2, FourFields
  <2>4. Drop(b, n) \in Buffers /\ Contents(Drop(b, n)) = Held(rest)
    BY <1>1, <1>5, <2>3, BufferIs
  <2>5. Behind(Contents(b), n) = Held(rest)
    BY <1>2, <1>6, <1>7, <1>9, BehindConcat
  <2>6. Drop(b, n).items = rest /\ Drop(b, n).nl = b.nl
    BY <2>3
  <2>7. Suffix(b, Drop(b, n))
    BY <1>5, <2>6 DEF Suffix
  <2>8. ~(n >= Size(b))
    BY <1>1, <1>9
  <2> QED BY <2>4, <2>5, <2>6, <2>7, <2>8
<1>10. CASE n < Size(b) /\ n # u
  <2> DEFINE tail == Tail(rest)
             x == rest[1]
             left == SubSeq(x.data, n - u + 1, Len(x.data))
             front == Recount(x, left)
             after == <<front>> \o tail
  <2>1. rest # <<>> /\ w < Len(b.items) /\ Len(rest) # 0 /\ Len(rest) \in Nat /\ x \in Item /\ tail \in Seq(Item)
    <3>1. w < Len(b.items) /\ Len(rest) \in Nat /\ Len(rest) # 0
      BY <1>1, <1>2, <1>5, <1>10, LenProperties
    <3>2. rest # <<>> /\ 1 \in 1..Len(rest)
      BY <3>1, EmptySeq
    <3> QED BY <1>5, <3>1, <3>2, ElementOfSeq, HeadTailProperties
  <2>2. rest = <<x>> \o tail /\ <<x>> \in Seq(Item)
    BY <1>5, <2>1
  <2> HIDE DEF x, tail
  <2>3. /\ LinesOf(rest) = x.lines + LinesOf(tail) /\ x.lines \in Nat /\ LinesOf(tail) \in Nat
        /\ Held(rest) = x.data \o Held(tail) /\ x.data \in Seq(Bytes) /\ Held(tail) \in Seq(Bytes)
    BY <2>1, <2>2, OneItem, LinesOfConcat, HeldConcat, LinesOfType, HeldType
  <2>4. n - u \in Nat /\ n - u < Len(x.data) /\ Len(x.data) \in Nat
    <3>1. n - u \in Nat /\ Len(x.data) \in Nat
      BY <1>2, <2>3, LenProperties
    <3>2. UpTo(b, w + 1) = u + Len(x.data)
      <4>1. w + 1 \in 1..Len(b.items) /\ 1 \in 1..Len(b.items) /\ w + 1 \in 1..(w + 1) /\ (w + 1) - 1 = w
        BY <1>1, <1>2, <2>1
      <4>2. SubSeq(b.items, 1, w + 1) = pre \o <<b.items[w + 1]>>
        BY <1>1, <4>1, SubSeqRecursiveSecond DEF pre
      <4>3. b.items[w + 1] = x
        BY <1>1, <1>2, <2>1, PrefixOfItems DEF x, rest
      <4>4. Held(SubSeq(b.items, 1, w + 1)) = Held(pre) \o x.data
        BY <1>5, <2>1, <2>2, <4>2, <4>3, OneItem, HeldConcat, ZenonT(60)
      <4>5. Len(Held(pre) \o x.data) = Len(Held(pre)) + Len(x.data)
        BY <1>6, <2>3, ConcatProperties
      <4> QED BY <1>7, <4>4, <4>5 DEF UpTo
    <3>3. w + 1 \in 0..Len(b.items) /\ ~(w + 1 <= w)
      BY <1>1, <1>2, <2>1
    <3>4. ~(UpTo(b, w + 1) <= n)
      BY <1>2, <3>3
    <3> QED BY <1>2, <3>1, <3>2, <3>4
  <2>5. left = Behind(x.data, n - u) /\ left \in Seq(Bytes)
    BY <2>3, <2>4, BehindType DEF Behind
  <2>6. front \in Item /\ front.data = left /\ front.lines = Cardinality(LineEnds(left))
    BY <2>5, RecountType
  <2>a. Drop(b, n) = [b EXCEPT !.items = after, !.lines = b.lines - popped - x.lines + Cardinality(LineEnds(front.data))]
    BY <1>1, <1>4, <1>10 DEF x, tail
  <2> HIDE DEF front, left
  <2>7. /\ after \in Seq(Item) /\ LinesOf(after) = front.lines + LinesOf(tail) /\ Held(after) = left \o Held(tail)
        /\ LinesOf(after) \in Nat /\ front.lines \in Nat
    <3>1. <<front>> \in Seq(Item) /\ LinesOf(<<front>>) = front.lines /\ Held(<<front>>) = left
      BY <2>6, OneItem
    <3>2. after \in Seq(Item)
      BY <2>1, <3>1, ConcatProperties
    <3> QED BY <2>1, <2>6, <3>1, <3>2, LinesOfConcat, HeldConcat, LinesOfType DEF Item
  <2> HIDE DEF after
  <2>9. b.lines - popped - x.lines + Cardinality(LineEnds(front.data)) = LinesOf(after)
    <3>1. Cardinality(LineEnds(front.data)) = front.lines
      BY <2>6
    <3> DEFINE c == Cardinality(LineEnds(front.data))
    <3>2. c = front.lines
      BY <3>1
    <3> HIDE DEF c
    <3>3. b.lines - popped - x.lines + c = LinesOf(after)
      <4>1. /\ popped \in Nat /\ x.lines \in Nat /\ LinesOf(tail) \in Nat /\ c \in Nat
            /\ b.lines = popped + (x.lines + LinesOf(tail)) /\ LinesOf(after) = c + LinesOf(tail)
        BY <1>6, <2>3, <2>7, <3>2
      <4> QED BY <4>1
    <3> QED BY <3>3 DEF c
  <2>10. Drop(b, n) = [items |-> after, lines |-> LinesOf(after), empty |-> b.empty, nl |-> b.nl]
    BY <1>b, <1>1, <2>7, <2>a, <2>9, FourFields
  <2>11. Drop(b, n) \in Buffers /\ Contents(Drop(b, n)) = Held(after)
    BY <1>1, <2>7, <2>10, BufferIs
  <2>12. Behind(Contents(b), n) = left \o Held(tail)
    <3>1. Behind(Contents(b), n) = Behind(Held(rest), n - u)
      BY <1>2, <1>6, <1>7, BehindConcat
    <3>2. Behind(Held(rest), n - u) = Behind(x.data, n - u) \o Held(tail)
      <4> DEFINE k == n - u
      <4>1. k \in Nat /\ k <= Len(x.data)
        BY <2>4
      <4> HIDE DEF k
      <4>2. Behind(x.data \o Held(tail), k) = Behind(x.data, k) \o Held(tail)
        BY <2>3, <4>1, BehindConcat, SMTT(40)
      <4> QED BY <2>3, <4>2 DEF k
    <3> QED BY <2>5, <3>1, <3>2
  <2>13. Drop(b, n).items = <<front>> \o tail /\ Drop(b, n).nl = b.nl
    BY <2>10 DEF after
  <2>14. Recounted(b, Drop(b, n))
    BY <1>5, <2>1, <2>2, <2>6, <2>13 DEF Recounted
  <2>15. ~(n >= Size(b))
    BY <1>1, <1>10
  <2> QED BY <2>7, <2>11, <2>12, <2>13, <2>14, <2>15
<1> QED BY <1>1, <1>8, <1>9, <1>10

\* remove takes the first n bytes and leaves the rest as they are, and the
\* count of lines that of the items that are left.
THEOREM DropTakesFirst ==
  ASSUME NEW b \in Buffers, NEW n \in Nat
  PROVE  Drop(b, n) \in Buffers /\ Contents(Drop(b, n)) = Behind(Contents(b), n)
BY DropLeaves

\* The count of lines, of empty lines and the status do not depend on how the
\* network cuts what it brings, nor do the bytes that are held.
THEOREM CutsDoNotCount ==
  ASSUME NEW b \in Buffers, NEW c \in Seq(Bytes), NEW d \in Seq(Bytes)
  PROVE  LET once  == Add(b, c \o d)
             twice == Add(Add(b, c), d)
         IN  /\ Contents(twice) = Contents(once)
             /\ twice.lines = once.lines /\ twice.empty = once.empty /\ twice.nl = once.nl
<1> DEFINE a == Add(b, c)
           z == [nl |-> b.nl, lines |-> 0, empty |-> b.empty]
           s == Scan(z, c)
           t == Scan(s, d)
           r == Scan(Afresh(s), d)
<1>1. z \in Counts
  BY ContentsHeld DEF Counts
<1>2. s \in Counts /\ Afresh(s) \in Counts /\ Scan(z, c \o d) = t
  <2> HIDE DEF z
  <2> QED BY <1>1, ScanType, ScanConcat, ScanAdds
<1>3. t \in Counts /\ r \in Counts /\ t.nl = r.nl /\ t.empty = r.empty /\ t.lines = r.lines + s.lines
  <2> HIDE DEF s
  <2> QED BY <1>2, ScanType, ScanAdds
<1>4. a \in Buffers /\ Contents(a) = Contents(b) \o c /\ a.lines = b.lines + s.lines
      /\ Afresh(s) = [nl |-> a.nl, lines |-> 0, empty |-> a.empty]
  <2>1. a.lines = b.lines + s.lines /\ a.empty = s.empty /\ a.nl = s.nl
    BY DEF Add
  <2>2. Afresh(s) = [nl |-> s.nl, lines |-> 0, empty |-> s.empty]
    <3> HIDE DEF s
    <3>1. Afresh(s) \in Counts /\ Afresh(s).nl = s.nl /\ Afresh(s).empty = s.empty /\ Afresh(s).lines = 0
      BY <1>2 DEF Afresh, Counts
    <3> QED BY <3>1 DEF Counts
  <2> QED BY <2>1, <2>2, AddType
<1> HIDE DEF a
<1>5. /\ Add(a, d).lines = a.lines + r.lines /\ Add(a, d).empty = r.empty /\ Add(a, d).nl = r.nl
  <2> DEFINE v == [nl |-> a.nl, lines |-> 0, empty |-> a.empty]
  <2>1. /\ Add(a, d).lines = a.lines + Scan(v, d).lines
        /\ Add(a, d).empty = Scan(v, d).empty /\ Add(a, d).nl = Scan(v, d).nl
    BY DEF Add
  <2> HIDE DEF v, s
  <2>2. v = Afresh(s)
    BY <1>4 DEF v
  <2> QED BY <2>1, <2>2
<1>6. /\ Add(b, c \o d).lines = b.lines + t.lines /\ Add(b, c \o d).empty = t.empty
      /\ Add(b, c \o d).nl = t.nl
  <2>1. /\ Add(b, c \o d).lines = b.lines + Scan(z, c \o d).lines
        /\ Add(b, c \o d).empty = Scan(z, c \o d).empty /\ Add(b, c \o d).nl = Scan(z, c \o d).nl
    BY DEF Add
  <2> HIDE DEF z, s, t
  <2> QED BY <1>2, <2>1
<1>7. Contents(Add(a, d)) = Contents(Add(b, c \o d))
  <2> DEFINE q == Contents(b)
  <2>1. q \in Seq(Bytes) /\ c \o d \in Seq(Bytes)
    BY ContentsHeld, ConcatProperties
  <2>2. Contents(Add(a, d)) = (q \o c) \o d /\ Contents(Add(b, c \o d)) = q \o (c \o d)
    BY <1>4, <2>1, AddType
  <2> HIDE DEF q
  <2> QED BY <2>1, <2>2, ConcatAssociative
<1>8. a.lines + r.lines = b.lines + t.lines
  <2> HIDE DEF r, s, t
  <2>1. r.lines \in Nat /\ s.lines \in Nat /\ t.lines \in Nat /\ b.lines \in Nat
    BY <1>2, <1>3, ContentsHeld DEF Counts
  <2> QED BY <1>3, <1>4, <2>1
<1> HIDE DEF r, t, s
<1> QED BY <1>3, <1>5, <1>6, <1>7, <1>8 DEF a

\* getCRLFLine gives the bytes before the first line end and takes them and the
\* line end away.
LEMMA LineTaken ==
  ASSUME NEW b \in Buffers, HasLine(b)
  PROVE  /\ Line(b) \in Seq(Bytes) /\ AfterLine(b) \in Buffers
         /\ Contents(b) = Line(b) \o (<<CR, LF>> \o Contents(AfterLine(b)))
         /\ Size(b) = Len(Line(b)) + 2 + Size(AfterLine(b)) /\ Len(Line(b)) \in Nat
<1> DEFINE s == Contents(b)
           e == Min(LineEnds(s))
           n == Len(s)
           m == e - 2
<1>1. s \in Seq(Bytes) /\ n \in Nat
  BY ContentsHeld, LenProperties
<1>2. e \in LineEnds(s)
  <2>1. LineEnds(s) # {} /\ LineEnds(s) \subseteq Nat
    BY <1>1, LineEndsType DEF HasLine
  <2> QED BY <2>1, MinIsLeast
<1>3. e \in 2..n /\ s[e] = LF /\ s[e - 1] = CR
  BY <1>2 DEF LineEnds
<1>4. Line(b) = SubSeq(s, 1, m)
  BY DEF Line
<1> HIDE DEF e
<1>5. m \in Nat /\ m <= n /\ m + 2 = e /\ m + 1 = e - 1 /\ m + 2 <= n
  BY <1>1, <1>3
<1>6. Line(b) \in Seq(Bytes) /\ Len(Line(b)) = m
  <2>1. \A i \in 1..m : s[i] \in Bytes
    BY <1>1, <1>5, ElementOfSeq
  <2> HIDE DEF m, s
  <2> QED BY <1>4, <1>5, <2>1, SubSeqProperties
<1>7. AfterLine(b) = Drop(b, m + 2)
  BY <1>6 DEF AfterLine
<1> HIDE DEF m
<1>8. AfterLine(b) \in Buffers /\ Contents(AfterLine(b)) = Behind(s, m + 2)
  BY <1>5, <1>7, DropTakesFirst
<1>9. Behind(s, m + 2) \in Seq(Bytes) /\ Len(Behind(s, m + 2)) = n - (m + 2)
  <2> DEFINE k == m + 2
  <2>1. k \in Nat /\ k <= Len(s) /\ s \in Seq(Bytes)
    BY <1>1, <1>5
  <2> HIDE DEF k, s
  <2>2. Behind(s, k) \in Seq(Bytes) /\ Len(Behind(s, k)) = Len(s) - k
    BY <2>1, BehindType
  <2> QED BY <2>2 DEF k, s
<1> HIDE DEF s, n
<1>10. s = SubSeq(s, 1, m) \o SubSeq(s, m + 1, n)
  <2>1. 1 \in 1..(n + 1) /\ m \in (1 - 1)..n /\ n \in m..n
    BY <1>1, <1>5
  <2>2. SubSeq(s, 1, m) \o SubSeq(s, m + 1, n) = SubSeq(s, 1, n)
    BY <1>1, <2>1, ConcatAdjacentSubSeq DEF n
  <2> QED BY <1>1, <2>2, SubSeqFull DEF n
<1>11. SubSeq(s, m + 1, n) = SubSeq(s, m + 1, m + 2) \o Behind(s, m + 2)
  <2>1. m + 1 \in 1..(n + 1) /\ m + 2 \in ((m + 1) - 1)..n /\ n \in (m + 2)..n
    BY <1>1, <1>5
  <2>2. SubSeq(s, m + 1, m + 2) \o SubSeq(s, (m + 2) + 1, n) = SubSeq(s, m + 1, n)
    BY <1>1, <2>1, ConcatAdjacentSubSeq DEF n
  <2> QED BY <2>2 DEF Behind, n
<1>12. SubSeq(s, m + 1, m + 2) = <<CR, LF>>
  <2> DEFINE i == m + 1  j == m + 2  p == SubSeq(s, i, j)
  <2>1. i \in Int /\ j \in Int /\ i <= j /\ j - i + 1 = 2 /\ \A k \in i..j : s[k] \in Bytes
    BY <1>1, <1>5, ElementOfSeq DEF n
  <2> HIDE DEF i, j
  <2>2. p \in Seq(Bytes) /\ Len(p) = 2 /\ \A k \in 1..2 : p[k] = s[i + k - 1]
    BY <2>1, SubSeqProperties
  <2> HIDE DEF p
  <2>3. i + 1 - 1 = m + 1 /\ i + 2 - 1 = m + 2
    BY <1>5 DEF i
  <2>4. p[1] = CR /\ p[2] = LF
    BY <1>3, <1>5, <2>2, <2>3
  <2>5. CR \in Bytes /\ LF \in Bytes
    BY DEF Bytes
  <2>6. p = <<CR, LF>>
    BY <2>2, <2>4, <2>5
  <2> QED BY <2>6 DEF p, i, j
<1>13. Size(b) = n /\ Size(AfterLine(b)) = Len(Contents(AfterLine(b)))
  BY ContentsHeld DEF s, n, Size
<1>14. Size(b) = Len(Line(b)) + 2 + Size(AfterLine(b))
  BY <1>1, <1>5, <1>6, <1>8, <1>9, <1>13
<1> QED BY <1>4, <1>5, <1>6, <1>8, <1>10, <1>11, <1>12, <1>14 DEF s

-----------------------------------------------------------------------------
(***************************************************************************)
(* What a parsing function works on, and its types.                        *)
(***************************************************************************)
Requests ==
  [start : {"none"} \union DOMAIN StartLines, fields : SUBSET Fields,
   header : BOOLEAN, chunked : BOOLEAN, sized : BOOLEAN, length : Nat,
   resolved : BOOLEAN, body : Seq(Bytes), bodyLen : Nat, done : BOOLEAN,
   size : Nat, sizeKnown : BOOLEAN, firstLine : BOOLEAN]

Works == [buf : Buffers, req : Requests, code : Nat, more : BOOLEAN]

LEMMA Tables ==
  /\ \A s \in DOMAIN StartLines : StartLines[s] \in Nat /\ s \in Bytes /\ s # "none"
  /\ \A f \in DOMAIN Lengths : Lengths[f] \in Nat
  /\ \A s \in DOMAIN ChunkSizes : ChunkSizes[s] \in Nat
<1>1. DOMAIN StartLines = {"GET", "POST", "LOST"}
  BY DEF StartLines
<1>2. StartLines["GET"] = 0 /\ StartLines["POST"] = 0 /\ StartLines["LOST"] = 404
  BY DEF StartLines
<1>3. DOMAIN Lengths = {"Length0", "Length1", "Length3", "Length9"}
  BY DEF Lengths
<1>4. Lengths["Length0"] = 0 /\ Lengths["Length1"] = 1 /\ Lengths["Length3"] = 3 /\ Lengths["Length9"] = 9
  BY DEF Lengths
<1>5. DOMAIN ChunkSizes = {"x0", "x1", "x2", "x9"}
  BY DEF ChunkSizes
<1>6. ChunkSizes["x0"] = 0 /\ ChunkSizes["x1"] = 1 /\ ChunkSizes["x2"] = 2 /\ ChunkSizes["x9"] = 9
  BY DEF ChunkSizes
<1>7. \A s \in DOMAIN StartLines : StartLines[s] \in Nat
  BY <1>1, <1>2
<1>8. \A f \in DOMAIN Lengths : Lengths[f] \in Nat
  BY <1>3, <1>4
<1>9. \A s \in DOMAIN ChunkSizes : ChunkSizes[s] \in Nat
  BY <1>5, <1>6
<1>10. \A s \in DOMAIN StartLines : s \in Bytes /\ s # "none"
  BY <1>1 DEF Bytes
<1> QED BY <1>7, <1>8, <1>9, <1>10

LEMMA EmptyRequestType == EmptyRequest \in Requests
<1>1. <<>> \in Seq(Bytes) /\ {} \in SUBSET Fields
  BY EmptySeq
<1> QED BY <1>1 DEF EmptyRequest, Requests

LEMMA WorkFields ==
  ASSUME NEW w \in Works
  PROVE  w.buf \in Buffers /\ w.req \in Requests /\ w.code \in Nat /\ w.more \in BOOLEAN
BY DEF Works

LEMMA WorkType ==
  ASSUME NEW b \in Buffers, NEW r \in Requests
  PROVE  Work(b, r) \in Works
BY DEF Work, Works

LEMMA StopType ==
  ASSUME NEW w \in Works
  PROVE  /\ Stop(w) \in Works /\ Stop(w).buf = w.buf /\ Stop(w).req = w.req
         /\ Stop(w).code = w.code /\ Stop(w).more = FALSE
BY DEF Stop, Works

LEMMA ThrowType ==
  ASSUME NEW w \in Works, NEW c \in Nat
  PROVE  /\ Throw(w, c) \in Works /\ Throw(w, c).buf = w.buf /\ Throw(w, c).req = w.req
         /\ Throw(w, c).code = c /\ Throw(w, c).more = FALSE
BY DEF Throw, Works

LEMMA RefusalType ==
  ASSUME NEW w \in Works
  PROVE  Throw(w, 400) \in Works /\ Throw(w, 413) \in Works
<1>1. \A c \in Nat : Throw(w, c) \in Works
  BY ThrowType
<1>2. 400 \in Nat /\ 413 \in Nat
  OBVIOUS
<1> QED BY <1>1, <1>2

LEMMA TakeLineType ==
  ASSUME NEW w \in Works, HasLine(w.buf)
  PROVE  /\ TakeLine(w) \in Works /\ TakeLine(w).buf = AfterLine(w.buf) /\ TakeLine(w).req = w.req
         /\ TakeLine(w).code = w.code /\ TakeLine(w).more = w.more
<1>1. AfterLine(w.buf) \in Buffers
  BY WorkFields, LineTaken
<1> QED BY <1>1 DEF TakeLine, Works

LEMMA WithRequest ==
  ASSUME NEW w \in Works, NEW r \in Requests
  PROVE  [w EXCEPT !.req = r] \in Works
BY DEF Works

LEMMA StartLineType ==
  ASSUME NEW w \in Works
  PROVE  StartLine(w) \in Works
<1>1. CASE ~HasLine(w.buf)
  <2>1. StartLine(w) = Stop(w)
    BY <1>1 DEF StartLine
  <2> QED BY <2>1, StopType
<1>2. CASE HasLine(w.buf)
  <2> DEFINE v == TakeLine(w)
             starts == {<<s>> : s \in DOMAIN StartLines}
  <2>1. v \in Works /\ v.req \in Requests
    BY <1>2, TakeLineType, WorkFields
  <2>2. \/ StartLine(w) = v
        \/ Line(w.buf) \in starts /\ StartLine(w) = Stop([v EXCEPT !.req.start = Line(w.buf)[1]])
        \/ StartLine(w) = Throw(v, 400)
    BY <1>2 DEF StartLine
  <2>3. ASSUME Line(w.buf) \in starts
        PROVE  [v EXCEPT !.req.start = Line(w.buf)[1]] \in Works
    <3>1. PICK s \in DOMAIN StartLines : Line(w.buf) = <<s>>
      BY <2>3
    <3>2. [v.req EXCEPT !.start = s] \in Requests
      BY <2>1 DEF Requests
    <3> DEFINE r == [v.req EXCEPT !.start = s]
    <3>3. [v EXCEPT !.req.start = s] = [v EXCEPT !.req = r]
      OBVIOUS
    <3>4. Line(w.buf)[1] = s
      BY <3>1
    <3> HIDE DEF v, r
    <3> QED BY <2>1, <3>2, <3>3, <3>4, WithRequest DEF r
  <2> HIDE DEF v
  <2> DEFINE u == [v EXCEPT !.req.start = Line(w.buf)[1]]
  <2>4. Line(w.buf) \in starts => u \in Works
    BY <2>3
  <2>5. Throw(v, 400) \in Works
    BY <2>1, RefusalType
  <2> HIDE DEF u, starts
  <2>6. Line(w.buf) \in starts => Stop(u) \in Works
    BY <2>4, StopType
  <2> QED BY <2>1, <2>2, <2>5, <2>6 DEF u
<1> QED BY <1>1, <1>2

LEMMA HeaderEndType ==
  ASSUME NEW w \in Works
  PROVE  HeaderEnd(w) \in Works
<1> DEFINE lengths == w.req.fields \intersect DOMAIN Lengths
           chunked == "Chunked" \in w.req.fields
           length == IF chunked \/ lengths = {} THEN 0 ELSE Lengths[CHOOSE f \in lengths : TRUE]
           s == lengths # {}
           v == [w EXCEPT !.req.chunked = chunked, !.req.sized = s, !.req.length = length]
<1>1. w.req \in Requests
  BY WorkFields
<1>2. length \in Nat
  <2>1. ASSUME lengths # {} PROVE Lengths[CHOOSE f \in lengths : TRUE] \in Nat
    <3>1. (CHOOSE f \in lengths : TRUE) \in lengths
      BY <2>1
    <3> QED BY <3>1, Tables
  <2> QED BY <2>1
<1>3. chunked \in BOOLEAN /\ s \in BOOLEAN
  OBVIOUS
<1>4. HeaderEnd(w) \in {Throw(w, 400), Stop(v)}
  BY DEF HeaderEnd
<1>5. v \in Works
  <2> HIDE DEF length, chunked, s
  <2> DEFINE r == [w.req EXCEPT !.chunked = chunked, !.sized = s, !.length = length]
  <2>1. r \in Requests
    BY <1>1, <1>2, <1>3 DEF Requests
  <2>2. v = [w EXCEPT !.req = r]
    BY DEF Works
  <2> HIDE DEF v, r
  <2> QED BY <2>1, <2>2, WithRequest
<1> HIDE DEF v
<1>6. Stop(v) \in Works
  BY <1>5, StopType
<1>7. Throw(w, 400) \in Works
  BY RefusalType
<1> QED BY <1>4, <1>6, <1>7

LEMMA HeaderLineType ==
  ASSUME NEW w \in Works
  PROVE  HeaderLine(w) \in Works
<1>1. CASE ~HasLine(w.buf)
  <2>1. HeaderLine(w) = Stop(w)
    BY <1>1 DEF HeaderLine
  <2> QED BY <2>1, StopType
<1>2. CASE HasLine(w.buf)
  <2> DEFINE v == TakeLine(w)
             fields == {<<f>> : f \in Fields}
  <2>1. v \in Works /\ v.req \in Requests
    BY <1>2, TakeLineType, WorkFields
  <2>2. \/ HeaderLine(w) = HeaderEnd(v)
        \/ Line(w.buf) \in fields /\ HeaderLine(w) = [v EXCEPT !.req.fields = @ \union {Line(w.buf)[1]}]
        \/ HeaderLine(w) = Throw(v, 400)
    BY <1>2 DEF HeaderLine
  <2>3. ASSUME Line(w.buf) \in fields
        PROVE  [v EXCEPT !.req.fields = @ \union {Line(w.buf)[1]}] \in Works
    <3>1. PICK f \in Fields : Line(w.buf) = <<f>>
      BY <2>3
    <3> DEFINE r == [v.req EXCEPT !.fields = @ \union {f}]
    <3>2. r \in Requests
      BY <2>1 DEF Requests
    <3>3. [v EXCEPT !.req.fields = @ \union {f}] = [v EXCEPT !.req = r]
      OBVIOUS
    <3>4. Line(w.buf)[1] = f
      BY <3>1
    <3> HIDE DEF v, r
    <3> QED BY <2>1, <3>2, <3>3, <3>4, WithRequest DEF r
  <2> HIDE DEF v
  <2> QED BY <2>1, <2>2, <2>3, HeaderEndType, RefusalType
<1> QED BY <1>1, <1>2

-----------------------------------------------------------------------------
(***************************************************************************)
(* The loops: the values after each round, of which the last is returned,  *)
(* in any set that no round leaves.                                        *)
(***************************************************************************)
Begun(w) == [w EXCEPT !.more = w.code = 0]

LEMMA BegunType ==
  ASSUME NEW w \in Works
  PROVE  /\ Begun(w) \in Works /\ Begun(w).buf = w.buf /\ Begun(w).req = w.req /\ Begun(w).code = w.code
         /\ Begun(w).more = (w.code = 0) /\ Size(w.buf) \in Nat
<1>1. Size(w.buf) \in Nat
  BY WorkFields, ContentsHeld
<1> QED BY <1>1 DEF Begun, Works


\* _parseHttpStartLine.
LEMMA StartLoop ==
  ASSUME NEW S, NEW w, Size(w.buf) \in Nat, Begun(w) \in S,
         \A v \in S : v.more => StartLine(v) \in S
  PROVE  \E g \in [0..(Size(w.buf) + 1) -> S] :
           /\ g[0] = Begun(w)
           /\ \A i \in 1..(Size(w.buf) + 1) :
                g[i] = IF g[i - 1].more THEN StartLine(g[i - 1]) ELSE g[i - 1]
           /\ Repeat(StartLine, w) = g[Size(w.buf) + 1]
<1> DEFINE n == Size(w.buf) + 1
           a == Begun(w)
           Step(v) == IF v.more THEN StartLine(v) ELSE v
           step == [x \in S \X (1..n) |-> Step(x[1])]
           Is(g) == g = [i \in 0..n |-> IF i = 0 THEN a ELSE Step(g[i - 1])]
<1>1. n \in Nat /\ a \in S /\ \A v \in S : Step(v) \in S
  OBVIOUS
<1> HIDE DEF n, a, Step
<1>2. step \in Steppers(S, n)
  BY <1>1 DEF Steppers
<1>3. PICK g \in [0..n -> S] : g[0] = a /\ \A i \in 1..n : g[i] = Step(g[i - 1])
  <2>1. Iterates(S, a, n, step) # {}
    <3> HIDE DEF step
    <3> QED BY <1>1, <1>2, Iteration
  <2>2. PICK g \in [0..n -> S] : g[0] = a /\ \A i \in 1..n : g[i] = step[<<g[i - 1], i>>]
    <3> HIDE DEF step
    <3> QED BY <2>1 DEF Iterates
  <2>3. ASSUME NEW i \in 1..n PROVE g[i] = Step(g[i - 1])
    <3>1. i - 1 \in 0..n
      BY <1>1
    <3>2. g[i - 1] \in S
      BY <2>2, <3>1
    <3> QED BY <2>2, <3>2
  <2> QED BY <2>2, <2>3
<1>4. Is(g)
  <2>1. \A i \in 0..n : g[i] = IF i = 0 THEN a ELSE Step(g[i - 1])
    <3>1. \A i \in 0..n : i # 0 => i \in 1..n
      BY <1>1
    <3> QED BY <1>3, <3>1
  <2>2. g = [i \in 0..n |-> g[i]]
    BY <1>3
  <2> QED BY <2>1, <2>2
<1> DEFINE after == CHOOSE h : Is(h)
<1>5. Is(after)
  BY <1>4
<1>6. Repeat(StartLine, w) = after[n]
  BY DEF Repeat, Step, n, a, Begun
<1>7. \A i \in 0..n : after[i] = IF i = 0 THEN a ELSE Step(after[i - 1])
  <2> HIDE DEF after
  <2> QED BY <1>5
<1>8. after = [i \in 0..n |-> after[i]]
  <2> HIDE DEF after
  <2> QED BY <1>5
<1> HIDE DEF after, Is
<1>9. after[0] = a /\ \A i \in 1..n : after[i] = Step(after[i - 1])
  <2>1. 0 \in 0..n /\ \A i \in 1..n : i \in 0..n /\ i # 0
    BY <1>1
  <2> QED BY <1>7, <2>1
<1>10. \A i \in 0..n : after[i] \in S
  <2>1. \A i \in 1..n : after[i - 1] \in S => after[i] \in S
    BY <1>1, <1>9
  <2>2. after[0] \in S
    BY <1>1, <1>9
  <2> QED BY <1>1, <2>1, <2>2, StaysInside
<1>11. after \in [0..n -> S]
  BY <1>8, <1>10
<1> QED BY <1>6, <1>9, <1>11 DEF n, a, Step


\* _parseHttpHeaders.
LEMMA HeaderLoop ==
  ASSUME NEW S, NEW w, Size(w.buf) \in Nat, Begun(w) \in S,
         \A v \in S : v.more => HeaderLine(v) \in S
  PROVE  \E g \in [0..(Size(w.buf) + 1) -> S] :
           /\ g[0] = Begun(w)
           /\ \A i \in 1..(Size(w.buf) + 1) :
                g[i] = IF g[i - 1].more THEN HeaderLine(g[i - 1]) ELSE g[i - 1]
           /\ Repeat(HeaderLine, w) = g[Size(w.buf) + 1]
<1> DEFINE n == Size(w.buf) + 1
           a == Begun(w)
           Step(v) == IF v.more THEN HeaderLine(v) ELSE v
           step == [x \in S \X (1..n) |-> Step(x[1])]
           Is(g) == g = [i \in 0..n |-> IF i = 0 THEN a ELSE Step(g[i - 1])]
<1>1. n \in Nat /\ a \in S /\ \A v \in S : Step(v) \in S
  OBVIOUS
<1> HIDE DEF n, a, Step
<1>2. step \in Steppers(S, n)
  BY <1>1 DEF Steppers
<1>3. PICK g \in [0..n -> S] : g[0] = a /\ \A i \in 1..n : g[i] = Step(g[i - 1])
  <2>1. Iterates(S, a, n, step) # {}
    <3> HIDE DEF step
    <3> QED BY <1>1, <1>2, Iteration
  <2>2. PICK g \in [0..n -> S] : g[0] = a /\ \A i \in 1..n : g[i] = step[<<g[i - 1], i>>]
    <3> HIDE DEF step
    <3> QED BY <2>1 DEF Iterates
  <2>3. ASSUME NEW i \in 1..n PROVE g[i] = Step(g[i - 1])
    <3>1. i - 1 \in 0..n
      BY <1>1
    <3>2. g[i - 1] \in S
      BY <2>2, <3>1
    <3> QED BY <2>2, <3>2
  <2> QED BY <2>2, <2>3
<1>4. Is(g)
  <2>1. \A i \in 0..n : g[i] = IF i = 0 THEN a ELSE Step(g[i - 1])
    <3>1. \A i \in 0..n : i # 0 => i \in 1..n
      BY <1>1
    <3> QED BY <1>3, <3>1
  <2>2. g = [i \in 0..n |-> g[i]]
    BY <1>3
  <2> QED BY <2>1, <2>2
<1> DEFINE after == CHOOSE h : Is(h)
<1>5. Is(after)
  BY <1>4
<1>6. Repeat(HeaderLine, w) = after[n]
  BY DEF Repeat, Step, n, a, Begun
<1>7. \A i \in 0..n : after[i] = IF i = 0 THEN a ELSE Step(after[i - 1])
  <2> HIDE DEF after
  <2> QED BY <1>5
<1>8. after = [i \in 0..n |-> after[i]]
  <2> HIDE DEF after
  <2> QED BY <1>5
<1> HIDE DEF after, Is
<1>9. after[0] = a /\ \A i \in 1..n : after[i] = Step(after[i - 1])
  <2>1. 0 \in 0..n /\ \A i \in 1..n : i \in 0..n /\ i # 0
    BY <1>1
  <2> QED BY <1>7, <2>1
<1>10. \A i \in 0..n : after[i] \in S
  <2>1. \A i \in 1..n : after[i - 1] \in S => after[i] \in S
    BY <1>1, <1>9
  <2>2. after[0] \in S
    BY <1>1, <1>9
  <2> QED BY <1>1, <2>1, <2>2, StaysInside
<1>11. after \in [0..n -> S]
  BY <1>8, <1>10
<1> QED BY <1>6, <1>9, <1>11 DEF n, a, Step


\* A line of a chunked body.
ChunkRound(v) == CASE ~HasLine(v.buf) -> Stop(v)
                   [] HasLine(v.buf) /\ v.req.sizeKnown -> ChunkData(v)
                   [] OTHER -> ChunkSize(v)


\* _addChunkedContent.
LEMMA ChunkLoop ==
  ASSUME NEW S, NEW w, Size(w.buf) \in Nat, Begun(w) \in S,
         \A v \in S : v.more => ChunkRound(v) \in S
  PROVE  \E g \in [0..(Size(w.buf) + 1) -> S] :
           /\ g[0] = Begun(w)
           /\ \A i \in 1..(Size(w.buf) + 1) :
                g[i] = IF g[i - 1].more THEN ChunkRound(g[i - 1]) ELSE g[i - 1]
           /\ ChunkedBody(w) = g[Size(w.buf) + 1]
<1> DEFINE n == Size(w.buf) + 1
           a == Begun(w)
           Step(v) == IF v.more THEN ChunkRound(v) ELSE v
           step == [x \in S \X (1..n) |-> Step(x[1])]
           Is(g) == g = [i \in 0..n |-> IF i = 0 THEN a ELSE Step(g[i - 1])]
<1>1. n \in Nat /\ a \in S /\ \A v \in S : Step(v) \in S
  OBVIOUS
<1> HIDE DEF n, a, Step
<1>2. step \in Steppers(S, n)
  BY <1>1 DEF Steppers
<1>3. PICK g \in [0..n -> S] : g[0] = a /\ \A i \in 1..n : g[i] = Step(g[i - 1])
  <2>1. Iterates(S, a, n, step) # {}
    <3> HIDE DEF step
    <3> QED BY <1>1, <1>2, Iteration
  <2>2. PICK g \in [0..n -> S] : g[0] = a /\ \A i \in 1..n : g[i] = step[<<g[i - 1], i>>]
    <3> HIDE DEF step
    <3> QED BY <2>1 DEF Iterates
  <2>3. ASSUME NEW i \in 1..n PROVE g[i] = Step(g[i - 1])
    <3>1. i - 1 \in 0..n
      BY <1>1
    <3>2. g[i - 1] \in S
      BY <2>2, <3>1
    <3> QED BY <2>2, <3>2
  <2> QED BY <2>2, <2>3
<1>4. Is(g)
  <2>1. \A i \in 0..n : g[i] = IF i = 0 THEN a ELSE Step(g[i - 1])
    <3>1. \A i \in 0..n : i # 0 => i \in 1..n
      BY <1>1
    <3> QED BY <1>3, <3>1
  <2>2. g = [i \in 0..n |-> g[i]]
    BY <1>3
  <2> QED BY <2>1, <2>2
<1> DEFINE after == CHOOSE h : Is(h)
<1>5. Is(after)
  BY <1>4
<1>6. ChunkedBody(w) = after[n]
  BY DEF ChunkedBody, ChunkRound, Repeat, Step, n, a, Begun
<1>7. \A i \in 0..n : after[i] = IF i = 0 THEN a ELSE Step(after[i - 1])
  <2> HIDE DEF after
  <2> QED BY <1>5
<1>8. after = [i \in 0..n |-> after[i]]
  <2> HIDE DEF after
  <2> QED BY <1>5
<1> HIDE DEF after, Is
<1>9. after[0] = a /\ \A i \in 1..n : after[i] = Step(after[i - 1])
  <2>1. 0 \in 0..n /\ \A i \in 1..n : i \in 0..n /\ i # 0
    BY <1>1
  <2> QED BY <1>7, <2>1
<1>10. \A i \in 0..n : after[i] \in S
  <2>1. \A i \in 1..n : after[i - 1] \in S => after[i] \in S
    BY <1>1, <1>9
  <2>2. after[0] \in S
    BY <1>1, <1>9
  <2> QED BY <1>1, <2>1, <2>2, StaysInside
<1>11. after \in [0..n -> S]
  BY <1>8, <1>10
<1> QED BY <1>6, <1>9, <1>11 DEF n, a, Step

LEMMA ParseHeaderType ==
  ASSUME NEW w \in Works
  PROVE  ParseHeader(w) \in Works
<1> DEFINE s == Repeat(StartLine, w)
           h == Repeat(HeaderLine, s)
<1>1. s \in Works
  <2>1. Begun(w) \in Works /\ Size(w.buf) \in Nat
    BY BegunType
  <2>2. \A v \in Works : v.more => StartLine(v) \in Works
    BY StartLineType
  <2>3. PICK g \in [0..(Size(w.buf) + 1) -> Works] : s = g[Size(w.buf) + 1]
    BY <2>1, <2>2, StartLoop
  <2>4. Size(w.buf) + 1 \in 0..(Size(w.buf) + 1)
    BY <2>1
  <2> QED BY <2>3, <2>4
<1> HIDE DEF s
<1>2. h \in Works
  <2>1. Begun(s) \in Works /\ Size(s.buf) \in Nat
    BY <1>1, BegunType
  <2>2. \A v \in Works : v.more => HeaderLine(v) \in Works
    BY HeaderLineType
  <2>3. PICK g \in [0..(Size(s.buf) + 1) -> Works] : h = g[Size(s.buf) + 1]
    BY <2>1, <2>2, HeaderLoop
  <2>4. Size(s.buf) + 1 \in 0..(Size(s.buf) + 1)
    BY <2>1
  <2> QED BY <2>3, <2>4
<1>3. ParseHeader(w) = [h EXCEPT !.req.header = h.code = 0]
  BY DEF ParseHeader, h, s
<1> HIDE DEF h
<1> DEFINE f == h.code = 0
           r == [h.req EXCEPT !.header = f]
<1>4. r \in Requests
  BY <1>2, WorkFields DEF Requests
<1>5. [h EXCEPT !.req.header = f] = [h EXCEPT !.req = r]
  OBVIOUS
<1> HIDE DEF r
<1> QED BY <1>2, <1>3, <1>4, <1>5, WithRequest

LEMMA ResolveType ==
  ASSUME NEW w \in Works
  PROVE  Resolve(w) \in Works
<1> DEFINE v == [w EXCEPT !.req.resolved = TRUE]
           r == [w.req EXCEPT !.resolved = TRUE]
<1>1. r \in Requests /\ w.req \in Requests
  BY WorkFields DEF Requests
<1>2. v = [w EXCEPT !.req = r]
  OBVIOUS
<1>3. v \in Works
  <2> HIDE DEF v, r
  <2> QED BY <1>1, <1>2, WithRequest
<1>4. \/ Resolve(w) = w
      \/ Resolve(w) = v
      \/ w.req.start # "none" /\ Resolve(w) = Throw(v, StartLines[w.req.start])
  BY DEF Resolve
<1>5. w.req.start # "none" => StartLines[w.req.start] \in Nat
  BY <1>1, Tables DEF Requests
<1> HIDE DEF v
<1> DEFINE c == StartLines[w.req.start]
<1>6. w.req.start # "none" => c \in Nat
  BY <1>5
<1> HIDE DEF c
<1>7. c \in Nat => Throw(v, c) \in Works
  BY <1>3, ThrowType
<1> QED BY <1>3, <1>4, <1>6, <1>7 DEF c

LEMMA ReadType ==
  ASSUME NEW b \in Buffers, NEW n \in Int
  PROVE  Read(b, n) \in Seq(Bytes) /\ Len(Read(b, n)) \in Nat
<1> DEFINE s == Contents(b)
<1>1. s \in Seq(Bytes)
  BY ContentsHeld
<1>2. Read(b, n) \in Seq(Bytes)
  <2>1. CASE n = 0 \/ n > Len(s)
    BY <1>1, <2>1 DEF Read
  <2>2. CASE ~(n = 0 \/ n > Len(s))
    <3>1. Len(s) \in Nat /\ \A i \in 1..Len(s) : s[i] \in Bytes
      BY <1>1, LenProperties, ElementOfSeq
    <3>2. \A i \in 1..n : s[i] \in Bytes
      BY <2>2, <3>1
    <3>3. Read(b, n) = SubSeq(s, 1, n)
      BY <2>2 DEF Read
    <3> HIDE DEF s
    <3> QED BY <3>2, <3>3, SubSeqProperties
  <2> QED BY <2>1, <2>2
<1> QED BY <1>2, LenProperties

LEMMA FixedBodyType ==
  ASSUME NEW w \in Works
  PROVE  FixedBody(w) \in Works
<1> DEFINE missing == w.req.length - w.req.bodyLen
           last == Size(w.buf) >= missing
           k == IF last THEN missing ELSE Size(w.buf)
           data == Read(w.buf, k)
           len == IF last THEN w.req.length ELSE w.req.bodyLen + Size(w.buf)
           b == Drop(w.buf, Len(data))
           r == [w.req EXCEPT !.body = data, !.done = last, !.bodyLen = len]
<1>1. w.buf \in Buffers /\ w.req \in Requests /\ Size(w.buf) \in Nat
  BY WorkFields, ContentsHeld
<1>2. w.req.length \in Nat /\ w.req.bodyLen \in Nat
  BY <1>1 DEF Requests
<1>3. k \in Int /\ len \in Nat /\ last \in BOOLEAN
  BY <1>1, <1>2
<1>4. data \in Seq(Bytes) /\ Len(data) \in Nat
  <2> HIDE DEF k
  <2> QED BY <1>1, <1>3, ReadType
<1>5. b \in Buffers
  <2> HIDE DEF data
  <2> QED BY <1>1, <1>4, DropTakesFirst
<1>6. FixedBody(w) \in {Throw(w, 413), [w EXCEPT !.buf = b, !.req.body = data, !.req.done = last, !.req.bodyLen = len]}
  BY DEF FixedBody
<1> HIDE DEF last, k, data, len, b
<1>7. r \in Requests
  BY <1>1, <1>3, <1>4 DEF Requests
<1>8. [w EXCEPT !.buf = b, !.req.body = data, !.req.done = last, !.req.bodyLen = len] = [w EXCEPT !.buf = b, !.req = r]
  BY DEF Works
<1> HIDE DEF r
<1>9. [w EXCEPT !.buf = b, !.req = r] \in Works
  BY <1>5, <1>7 DEF Works
<1>10. Throw(w, 413) \in Works
  BY RefusalType
<1> QED BY <1>6, <1>8, <1>9, <1>10

LEMMA ChunkSizeType ==
  ASSUME NEW w \in Works, HasLine(w.buf)
  PROVE  ChunkSize(w) \in Works
<1> DEFINE v == TakeLine(w)
           sizes == {<<s>> : s \in DOMAIN ChunkSizes}
           u == [v EXCEPT !.req.size = ChunkSizes[Line(w.buf)[1]], !.req.sizeKnown = TRUE]
<1>1. v \in Works /\ v.req \in Requests
  BY TakeLineType, WorkFields
<1>2. \/ ChunkSize(w) = Stop(v)
      \/ Line(w.buf) \in sizes /\ ChunkSize(w) = u
      \/ ChunkSize(w) = Throw(v, 400)
  BY DEF ChunkSize
<1>3. ASSUME Line(w.buf) \in sizes PROVE u \in Works
  <2>1. PICK s \in DOMAIN ChunkSizes : Line(w.buf) = <<s>>
    BY <1>3
  <2> DEFINE k == ChunkSizes[s]
             r == [v.req EXCEPT !.size = k, !.sizeKnown = TRUE]
  <2>2. k \in Nat
    BY Tables
  <2>3. u = [v EXCEPT !.req.size = k, !.req.sizeKnown = TRUE]
    BY <2>1
  <2> HIDE DEF k, v, u
  <2>4. r \in Requests
    BY <1>1, <2>2 DEF Requests
  <2>5. [v EXCEPT !.req.size = k, !.req.sizeKnown = TRUE] = [v EXCEPT !.req = r]
    BY <1>1 DEF Works
  <2> HIDE DEF r
  <2> QED BY <1>1, <2>3, <2>4, <2>5, WithRequest
<1> HIDE DEF v, u
<1>4. Stop(v) \in Works
  BY <1>1, StopType
<1>5. Throw(v, 400) \in Works
  BY <1>1, RefusalType
<1> QED BY <1>2, <1>3, <1>4, <1>5

LEMMA ChunkDataType ==
  ASSUME NEW w \in Works, HasLine(w.buf)
  PROVE  ChunkData(w) \in Works
<1> DEFINE v == TakeLine(w)
           line == Line(w.buf)
           body == v.req.body \o line
           len == v.req.bodyLen + Len(line)
           u == [v EXCEPT !.req.body = @ \o line, !.req.bodyLen = @ + Len(line),
                          !.req.size = 0, !.req.sizeKnown = FALSE]
           d == [v EXCEPT !.req.done = TRUE]
<1>1. v \in Works /\ v.req \in Requests /\ line \in Seq(Bytes) /\ Len(line) \in Nat
  BY TakeLineType, WorkFields, LineTaken
<1>2. ChunkData(w) \in {Throw(v, 413), Throw(v, 400), Stop(d), u}
  BY DEF ChunkData
<1> HIDE DEF v, line
<1>3. body \in Seq(Bytes) /\ len \in Nat
  <2>1. v.req.body \in Seq(Bytes) /\ v.req.bodyLen \in Nat
    BY <1>1 DEF Requests
  <2> QED BY <1>1, <2>1, ConcatProperties
<1>4. u \in Works
  <2> DEFINE r == [v.req EXCEPT !.body = body, !.bodyLen = len, !.size = 0, !.sizeKnown = FALSE]
  <2>1. u = [v EXCEPT !.req = r]
    BY <1>1 DEF Works
  <2> HIDE DEF body, len, u
  <2>2. r \in Requests
    BY <1>1, <1>3 DEF Requests
  <2> HIDE DEF r
  <2> QED BY <1>1, <2>1, <2>2, WithRequest
<1>5. d \in Works
  <2> DEFINE r == [v.req EXCEPT !.done = TRUE]
  <2>1. d = [v EXCEPT !.req = r]
    OBVIOUS
  <2>2. r \in Requests
    BY <1>1 DEF Requests
  <2> HIDE DEF r, d
  <2> QED BY <1>1, <2>1, <2>2, WithRequest
<1> HIDE DEF u, d
<1>6. Stop(d) \in Works
  BY <1>5, StopType
<1>7. Throw(v, 400) \in Works /\ Throw(v, 413) \in Works
  BY <1>1, RefusalType
<1> QED BY <1>2, <1>4, <1>6, <1>7

LEMMA ChunkRoundType ==
  ASSUME NEW w \in Works
  PROVE  ChunkRound(w) \in Works
<1>1. CASE ~HasLine(w.buf)
  <2>1. ChunkRound(w) = Stop(w)
    BY <1>1 DEF ChunkRound
  <2> QED BY <2>1, StopType
<1>2. CASE HasLine(w.buf)
  <2>1. ChunkRound(w) \in {ChunkData(w), ChunkSize(w)}
    BY <1>2 DEF ChunkRound
  <2> QED BY <1>2, <2>1, ChunkDataType, ChunkSizeType
<1> QED BY <1>1, <1>2

LEMMA ChunkedBodyType ==
  ASSUME NEW w \in Works
  PROVE  ChunkedBody(w) \in Works
<1>1. Begun(w) \in Works /\ Size(w.buf) \in Nat
  BY BegunType
<1>2. \A v \in Works : v.more => ChunkRound(v) \in Works
  BY ChunkRoundType
<1>3. PICK g \in [0..(Size(w.buf) + 1) -> Works] : ChunkedBody(w) = g[Size(w.buf) + 1]
  BY <1>1, <1>2, ChunkLoop
<1>4. Size(w.buf) + 1 \in 0..(Size(w.buf) + 1)
  BY <1>1
<1> QED BY <1>3, <1>4

LEMMA UntilNewlineType ==
  ASSUME NEW w \in Works
  PROVE  UntilNewline(w) \in Works
<1> DEFINE has == HasLine(w.buf)
           line == IF has THEN Line(w.buf) ELSE Contents(w.buf)
           v == IF has THEN TakeLine(w) ELSE w
           body == v.req.body \o line
           len == v.req.bodyLen + Len(line)
           u == [v EXCEPT !.req.body = @ \o line, !.req.bodyLen = @ + Len(line), !.req.firstLine = TRUE]
           first == IF w.req.firstLine THEN w ELSE u
           whole == [w EXCEPT !.req.body = Contents(w.buf), !.buf = Clear(@)]
           ends == IF HasLine(first.buf) THEN AfterLine(first.buf) ELSE first.buf
           last == [first EXCEPT !.req.done = TRUE, !.buf = IF HasLine(@) THEN AfterLine(@) ELSE @]
<1>1. /\ v \in Works /\ v.req \in Requests /\ line \in Seq(Bytes) /\ Len(line) \in Nat
      /\ w.buf \in Buffers /\ w.req \in Requests
  <2>1. w.buf \in Buffers /\ w.req \in Requests
    BY WorkFields
  <2>2. line \in Seq(Bytes)
    BY <2>1, ContentsHeld, LineTaken
  <2>3. v \in Works
    BY TakeLineType
  <2> HIDE DEF v, line
  <2> QED BY <2>1, <2>2, <2>3, WorkFields, LenProperties
<1>2. UntilNewline(w) \in {whole, last, first}
  BY DEF UntilNewline
<1> HIDE DEF v, line, has
<1>3. u \in Works
  <2>1. body \in Seq(Bytes) /\ len \in Nat
    <3>1. v.req.body \in Seq(Bytes) /\ v.req.bodyLen \in Nat
      BY <1>1 DEF Requests
    <3> QED BY <1>1, <3>1, ConcatProperties
  <2> DEFINE r == [v.req EXCEPT !.body = body, !.bodyLen = len, !.firstLine = TRUE]
  <2>2. u = [v EXCEPT !.req = r]
    BY <1>1 DEF Works
  <2> HIDE DEF body, len, u
  <2>3. r \in Requests
    BY <1>1, <2>1 DEF Requests
  <2> HIDE DEF r
  <2> QED BY <1>1, <2>2, <2>3, WithRequest
<1> HIDE DEF u
<1>4. first \in Works
  BY <1>3
<1>5. whole \in Works
  <2> DEFINE all == Contents(w.buf)
             b == Clear(w.buf)
             r == [w.req EXCEPT !.body = all]
  <2>1. all \in Seq(Bytes) /\ b \in Buffers
    BY <1>1, ContentsHeld, ClearType
  <2>2. whole = [w EXCEPT !.req = r, !.buf = b]
    BY DEF Works
  <2> HIDE DEF all, b, whole
  <2>3. r \in Requests
    BY <1>1, <2>1 DEF Requests
  <2> HIDE DEF r
  <2>4. [w EXCEPT !.req = r, !.buf = b] \in Works
    BY <2>1, <2>3 DEF Works
  <2> QED BY <2>2, <2>4
<1> HIDE DEF first, whole
<1>6. last \in Works
  <2> DEFINE r == [first.req EXCEPT !.done = TRUE]
  <2>1. first.buf \in Buffers /\ first.req \in Requests
    BY <1>4, WorkFields
  <2>2. ends \in Buffers
    BY <2>1, LineTaken
  <2>3. last = [first EXCEPT !.req = r, !.buf = ends]
    BY <1>4 DEF Works
  <2> HIDE DEF ends, last
  <2>4. r \in Requests
    BY <2>1 DEF Requests
  <2> HIDE DEF r
  <2>5. [first EXCEPT !.req = r, !.buf = ends] \in Works
    BY <1>4, <2>2, <2>4 DEF Works
  <2> QED BY <2>3, <2>5
<1> HIDE DEF last
<1> QED BY <1>2, <1>4, <1>5, <1>6

LEMMA ParseBodyType ==
  ASSUME NEW w \in Works
  PROVE  ParseBody(w) \in Works
<1> DEFINE d == [w EXCEPT !.req.done = TRUE]
           r == [w.req EXCEPT !.done = TRUE]
<1>1. r \in Requests
  BY WorkFields DEF Requests
<1>2. d = [w EXCEPT !.req = r]
  OBVIOUS
<1> HIDE DEF d, r
<1>3. d \in Works
  BY <1>1, <1>2, WithRequest
<1>4. ParseBody(w) \in {w, d, ChunkedBody(w), FixedBody(w), UntilNewline(w)}
  BY DEF ParseBody, d
<1> QED BY <1>3, <1>4, ChunkedBodyType, FixedBodyType, UntilNewlineType

LEMMA ParseType ==
  ASSUME NEW w \in Works
  PROVE  Parse(w) \in Works
<1> DEFINE h == IF w.req.header THEN w ELSE ParseHeader(w)
<1>1. h \in Works
  BY ParseHeaderType
<1> HIDE DEF h
<1>2. Resolve(h) \in Works
  BY <1>1, ResolveType
<1>3. ParseBody(Resolve(h)) \in Works
  BY <1>2, ParseBodyType
<1>4. Parse(w) \in {w, ParseBody(Resolve(h))}
  BY DEF Parse, h
<1> QED BY <1>3, <1>4

-----------------------------------------------------------------------------
(***************************************************************************)
(* The types of the state.  That _linesInBuffer does not wrap below zero   *)
(* rests on the counts of the items, which therefore belong to the         *)
(* inductive invariant.                                                    *)
(***************************************************************************)
Typed ==
  /\ buf \in Buffers
  /\ req \in Requests
  /\ code \in Nat
  /\ message \in Messages
  /\ sent \in 0..Len(message.wire)
  /\ reads \in Nat
  /\ count \in 1..MaxMessages

LEMMA TypedInit ==
  ASSUME Init
  PROVE  Typed
<1>1. message.wire \in Seq(Bytes)
  BY ParserAssumption DEF Init
<1>2. sent \in 0..Len(message.wire)
  BY <1>1, LenProperties DEF Init
<1>3. count \in 1..MaxMessages
  BY ParserAssumption DEF Init
<1> QED BY <1>2, <1>3, EmptyBufferType, EmptyRequestType DEF Init, Typed

LEMMA ReceiveTyped ==
  ASSUME Typed, NEW cut \in message.cuts, Receive(cut)
  PROVE  Typed'
<1> DEFINE piece == SubSeq(message.wire, sent + 1, cut)
           b == Add(buf, piece)
           w == Parse(Work(b, req))
<1>1. message.wire \in Seq(Bytes) /\ message.cuts \subseteq DOMAIN message.wire /\ Len(message.wire) \in Nat
  BY ParserAssumption, LenProperties DEF Typed
<1>2. cut \in 1..Len(message.wire) /\ sent \in 0..Len(message.wire)
  BY <1>1, LenProperties DEF Typed
<1>3. piece \in Seq(Bytes)
  <2>1. sent + 1 \in Int /\ cut \in Int /\ \A i \in (sent + 1)..cut : message.wire[i] \in Bytes
    BY <1>1, <1>2, ElementOfSeq
  <2> QED BY <2>1, SubSeqProperties
<1> HIDE DEF piece
<1>4. b \in Buffers
  BY <1>3, AddType DEF Typed
<1> HIDE DEF b
<1>5. w \in Works
  BY <1>4, WorkType, ParseType DEF Typed
<1>6. Parsed(w) /\ sent' = cut /\ reads' = reads + 1 /\ message' = message /\ count' = count
  BY DEF Receive, b, piece, w
<1> HIDE DEF w
<1>7. w.buf \in Buffers /\ w.req \in Requests /\ w.code \in Nat
  BY <1>5, WorkFields
<1>8. code' \in Nat
  BY <1>6, <1>7 DEF Parsed
<1>9. buf' \in Buffers
  BY <1>6, <1>7, ClearType DEF Parsed
<1>10. req' \in Requests
  BY <1>6, <1>7, EmptyRequestType DEF Parsed
<1> QED BY <1>1, <1>2, <1>6, <1>8, <1>9, <1>10 DEF Typed

LEMMA TypedStep ==
  ASSUME Typed, [Next]_vars
  PROVE  Typed'
<1>1. ASSUME NEW m \in Messages, NextMessage(m)
      PROVE  Typed'
  <2>1. Len(m.wire) \in Nat
    BY ParserAssumption, LenProperties
  <2> QED BY <1>1, <2>1, ParserAssumption, EmptyRequestType DEF Typed, NextMessage
<1>2. ASSUME NEW cut \in message.cuts, Receive(cut)
      PROVE  Typed'
  BY <1>2, ReceiveTyped
<1>3. CASE UNCHANGED vars
  BY <1>3 DEF vars, Typed
<1> QED BY <1>1, <1>2, <1>3 DEF Next

LEMMA SpecTyped == Spec => []Typed
<1>1. Init => Typed
  BY TypedInit
<1>2. Typed /\ [Next]_vars => Typed'
  BY TypedStep
<1> QED BY <1>1, <1>2, PTL DEF Spec

\* Whatever the peer sends, however it is cut: the buffer, its counts, the
\* request and the code stay of their types, and no unsigned count wraps.
THEOREM ParserTypes == Spec => []TypeOK
<1>1. Typed => TypeOK
  BY DEF Typed, TypeOK, Buffers, Counted, Item, Requests
<1> QED BY <1>1, SpecTyped, PTL

\* What remove subtracts from the running count was counted before.
THEOREM LineCountsAgree == Spec => []CountsAgree
<1>1. Typed => CountsAgree
  BY DEF Typed, CountsAgree, Buffers
<1> QED BY <1>1, SpecTyped, PTL

-----------------------------------------------------------------------------
(***************************************************************************)
(* The bytes of lines.  Line k of ls ends at byte at[k].                   *)
(***************************************************************************)
Layout(wire, ls, at) ==
  /\ at \in [0..Len(ls) -> Nat] /\ at[0] = 0 /\ at[Len(ls)] = Len(wire)
  /\ \A k \in 1..Len(ls) :
       /\ at[k] = at[k - 1] + Len(ls[k]) + 2 /\ at[k] <= Len(wire)
       /\ \A j \in 1..Len(ls[k]) : wire[at[k - 1] + j] = ls[k][j]
       /\ wire[at[k] - 1] = CR /\ wire[at[k]] = LF

LEMMA Ended ==
  ASSUME NEW c \in Seq(Text)
  PROVE  /\ c \o <<CR, LF>> \in Seq(Bytes) /\ Len(c \o <<CR, LF>>) = Len(c) + 2
         /\ \A j \in 1..Len(c) : (c \o <<CR, LF>>)[j] = c[j]
         /\ (c \o <<CR, LF>>)[Len(c) + 1] = CR /\ (c \o <<CR, LF>>)[Len(c) + 2] = LF
<1> DEFINE B == Bytes  T == Text  x == CR  y == LF
<1>1. x \in B /\ y \in B /\ T \subseteq B
  BY DEF Bytes, Text
<1>2. c \in Seq(T)
  OBVIOUS
<1> HIDE DEF B, T, x, y
<1>3. c \in Seq(B) /\ <<x, y>> \in Seq(B) /\ Len(<<x, y>>) = 2
  BY <1>1, <1>2
<1>4. c \o <<x, y>> \in Seq(B)
  BY <1>3, ConcatProperties
<1>5. /\ Len(c \o <<x, y>>) = Len(c) + 2
      /\ \A j \in 1..Len(c) : (c \o <<x, y>>)[j] = c[j]
      /\ (c \o <<x, y>>)[Len(c) + 1] = x /\ (c \o <<x, y>>)[Len(c) + 2] = y
  BY <1>3
<1> QED BY <1>4, <1>5 DEF B, x, y

LEMMA Laid ==
  ASSUME NEW ls \in Seq(Seq(Text))
  PROVE  InLines(ls) \in Seq(Bytes) /\ \E at : Layout(InLines(ls), ls, at)
<1> DEFINE n == Len(ls)
           bytes == [k \in DOMAIN ls |-> ls[k] \o <<CR, LF>>]
<1>1. n \in Nat /\ DOMAIN ls = 1..n /\ \A k \in 1..n : ls[k] \in Seq(Text)
  BY LenProperties, ElementOfSeq
<1>2. \A k \in 1..n : bytes[k] \in Seq(Bytes)
  BY <1>1, Ended
<1>3. bytes \in Seq(Seq(Bytes)) /\ Len(bytes) = n
  <2> DEFINE Q == Seq(Bytes)
  <2>1. bytes \in [1..n -> Q]
    BY <1>1, <1>2
  <2> HIDE DEF bytes, n, Q
  <2>2. bytes \in Seq(Q) /\ Len(bytes) = n
    BY <1>1, <2>1
  <2> QED BY <2>2 DEF Q
<1>4. \A k \in 1..n : bytes[k] = ls[k] \o <<CR, LF>>
  BY <1>1
<1>5. InLines(ls) = FlattenSeq(bytes)
  BY DEF InLines
<1> HIDE DEF bytes
<1>6. PICK g \in [0..Len(bytes) -> Seq(Bytes)] :
           /\ g[0] = <<>>
           /\ \A i \in 1..Len(bytes) : g[i] = g[i - 1] \o bytes[i]
           /\ FlattenSeq(bytes) = g[Len(bytes)]
  BY <1>3, FlatSteps
<1> DEFINE at == [i \in 0..n |-> Len(g[i])]
           Printed(w, k) ==
             /\ at[k] = at[k - 1] + Len(ls[k]) + 2 /\ at[k] <= Len(w)
             /\ \A j \in 1..Len(ls[k]) : w[at[k - 1] + j] = ls[k][j]
             /\ w[at[k] - 1] = CR /\ w[at[k]] = LF
           T == {k \in Nat : k <= n => \A i \in 1..k : Printed(g[i], i) /\ Printed(g[k], i)}
<1>7. \A i \in 0..n : g[i] \in Seq(Bytes) /\ at[i] = Len(g[i]) /\ at[i] \in Nat
  BY <1>3, <1>6, LenProperties
<1>8. at \in [0..n -> Nat] /\ at[0] = 0
  BY <1>1, <1>6, <1>7
<1> HIDE DEF at
<1>9. ASSUME NEW k \in 0..n, k + 1 <= n
      PROVE  /\ Printed(g[k + 1], k + 1)
             /\ \A i \in 1..k : Printed(g[k], i) => Printed(g[k + 1], i)
  <2> DEFINE u == g[k]  v == ls[k + 1]  x == bytes[k + 1]  w == g[k + 1]
  <2>1. k + 1 \in 1..n /\ (k + 1) - 1 = k /\ k + 1 \in 0..n /\ v \in Seq(Text) /\ Len(v) \in Nat
    BY <1>1, <1>9, LenProperties
  <2>2. w = u \o x /\ u \in Seq(Bytes) /\ Len(u) = at[k] /\ at[k] \in Nat /\ Len(w) = at[k + 1]
    BY <1>3, <1>6, <1>7, <2>1
  <2>3. /\ x \in Seq(Bytes) /\ Len(x) = Len(v) + 2
        /\ \A j \in 1..Len(v) : x[j] = v[j]
        /\ x[Len(v) + 1] = CR /\ x[Len(v) + 2] = LF
    BY <1>4, <2>1, Ended
  <2> HIDE DEF u, v, x, w
  <2>4. /\ Len(w) = at[k] + Len(v) + 2
        /\ \A j \in 1..at[k] : w[j] = u[j]
        /\ \A j \in 1..(Len(v) + 2) : w[at[k] + j] = x[j]
    <3> DEFINE B == Bytes
    <3>1. u \in Seq(B) /\ x \in Seq(B)
      BY <2>2, <2>3
    <3> HIDE DEF B
    <3>2. Len(u \o x) = Len(u) + Len(x)
      BY <3>1
    <3>3. \A j \in 1..(Len(u) + Len(x)) : (u \o x)[j] = IF j <= Len(u) THEN u[j] ELSE x[j - Len(u)]
      BY <3>1
    <3>4. ASSUME NEW j \in 1..at[k] PROVE w[j] = u[j]
      BY <2>1, <2>2, <2>3, <3>3, SMTT(40)
    <3>5. ASSUME NEW j \in 1..(Len(v) + 2) PROVE w[at[k] + j] = x[j]
      <4> DEFINE a == at[k]  l == Len(u)  m == Len(x)
      <4>1. a \in Nat /\ l = a /\ m = Len(v) + 2 /\ j \in 1..m /\ Len(v) \in Nat
        BY <2>1, <2>2, <2>3 DEF v
      <4>2. /\ w = u \o x
            /\ \A i \in 1..(l + m) : (u \o x)[i] = IF i <= l THEN u[i] ELSE x[i - l]
        BY <2>2, <3>3
      <4> HIDE DEF a, l, m
      <4>3. a + j \in 1..(l + m) /\ ~(a + j <= l) /\ (a + j) - l = j
        BY <4>1
      <4>4. w[a + j] = x[j]
        BY <4>2, <4>3
      <4> QED BY <4>4 DEF a
    <3>6. Len(w) = at[k] + Len(v) + 2
      <4> DEFINE a == at[k]  m == Len(v)
      <4>1. a \in Nat /\ m \in Nat /\ Len(u) = a /\ Len(x) = m + 2 /\ w = u \o x
        BY <2>1, <2>2, <2>3 DEF v
      <4> HIDE DEF a, m
      <4>2. Len(w) = a + m + 2
        BY <3>2, <4>1
      <4> QED BY <4>2 DEF a, m
    <3> QED BY <3>4, <3>5, <3>6
  <2>5. Printed(w, k + 1)
    <3>1. Len(w) = at[k + 1] /\ at[k + 1] = at[k] + Len(v) + 2
      BY <2>2, <2>4
    <3>2. \A j \in 1..Len(v) : w[at[k] + j] = v[j]
      <4> DEFINE m == Len(v)
      <4>1. m \in Nat
        BY <2>1 DEF v
      <4>2. /\ \A j \in 1..m : x[j] = v[j]
            /\ \A j \in 1..(m + 2) : w[at[k] + j] = x[j]
        BY <2>3, <2>4
      <4> HIDE DEF m
      <4>3. \A j \in 1..m : j \in 1..(m + 2)
        BY <4>1
      <4>4. \A j \in 1..m : w[at[k] + j] = v[j]
        BY <4>2, <4>3
      <4> QED BY <4>4 DEF m
    <3>3. w[at[k] + (Len(v) + 1)] = CR /\ w[at[k] + (Len(v) + 2)] = LF
      <4>1. Len(v) + 1 \in 1..(Len(v) + 2) /\ Len(v) + 2 \in 1..(Len(v) + 2)
        BY <2>1 DEF v
      <4> QED BY <2>3, <2>4, <4>1
    <3>4. at[k + 1] - 1 = at[k] + (Len(v) + 1) /\ at[k + 1] = at[k] + (Len(v) + 2)
      <4> DEFINE a == at[k]  l == Len(v)
      <4>1. a \in Nat /\ l \in Nat /\ at[k + 1] = a + l + 2
        BY <2>1, <2>2, <3>1 DEF v
      <4> HIDE DEF a, l
      <4>2. at[k + 1] - 1 = a + (l + 1) /\ at[k + 1] = a + (l + 2)
        BY <4>1
      <4> QED BY <4>2 DEF a, l
    <3>5. at[k + 1] <= Len(w)
      BY <2>1, <3>1, <1>7
    <3> QED BY <2>1, <3>1, <3>2, <3>3, <3>4, <3>5 DEF v
  <2>6. ASSUME NEW i \in 1..k, Printed(u, i) PROVE Printed(w, i)
    <3>1. i - 1 \in 0..n /\ i \in 0..n /\ at[i - 1] \in Nat /\ at[i] \in Nat /\ Len(ls[i]) \in Nat
      BY <1>1, <1>7, <1>9, LenProperties
    <3> DEFINE p == at[i - 1]  q == at[i]  l == Len(ls[i])  a == at[k]  m == Len(v)  z == Len(w)
    <3>2. /\ p \in Nat /\ q \in Nat /\ l \in Nat /\ a \in Nat /\ m \in Nat
          /\ q = p + l + 2 /\ q <= a /\ z = a + m + 2
      BY <2>1, <2>2, <2>4, <2>6, <3>1 DEF v
    <3>3. /\ \A j \in 1..l : u[p + j] = ls[i][j]
          /\ u[q - 1] = CR /\ u[q] = LF /\ \A j \in 1..a : w[j] = u[j]
      BY <2>4, <2>6
    <3> HIDE DEF p, q, l, a, m, z
    <3>4. /\ q <= z /\ q - 1 \in 1..a /\ q \in 1..a
          /\ \A j \in 1..l : p + j \in 1..a
      BY <3>2
    <3>5. /\ \A j \in 1..l : w[p + j] = ls[i][j]
          /\ w[q - 1] = CR /\ w[q] = LF
      BY <3>3, <3>4
    <3> QED BY <3>2, <3>4, <3>5 DEF p, q, l, z
  <2> QED BY <2>5, <2>6 DEF u, w
<1> HIDE DEF Printed
<1>10. 0 \in T
  BY <1>1
<1>11. ASSUME NEW k \in T, k \in Nat PROVE k + 1 \in T
  <2> SUFFICES ASSUME k + 1 <= n, NEW i \in 1..(k + 1)
               PROVE  Printed(g[i], i) /\ Printed(g[k + 1], i)
    OBVIOUS
  <2>1. k \in 0..n
    BY <1>1, <1>11
  <2>2. CASE i = k + 1
    BY <1>9, <2>1, <2>2
  <2>3. CASE i # k + 1
    <3>1. i \in 1..k
      BY <1>11, <2>3
    <3> QED BY <1>9, <1>11, <2>1, <3>1
  <2> QED BY <2>2, <2>3
<1>12. n \in T
  <2> HIDE DEF T, n
  <2> QED BY <1>1, <1>10, <1>11, Induction
<1>13. \A k \in 1..n : Printed(g[n], k)
  BY <1>1, <1>12
<1>14. g[n] = InLines(ls) /\ at[n] = Len(g[n]) /\ InLines(ls) \in Seq(Bytes)
  BY <1>1, <1>3, <1>5, <1>6, <1>7
<1>15. Layout(InLines(ls), ls, at)
  BY <1>8, <1>13, <1>14 DEF Layout, Printed
<1> QED BY <1>14, <1>15

\* Byte p is in line k.
In(at, p, k) == at[k - 1] < p /\ p <= at[k]

LEMMA LayoutTypes ==
  ASSUME NEW ls \in Seq(Seq(Text)), NEW wire \in Seq(Bytes), NEW at, Layout(wire, ls, at)
  PROVE  /\ Len(ls) \in Nat /\ Len(wire) \in Nat /\ at[0] = 0 /\ at[Len(ls)] = Len(wire)
         /\ \A k \in 0..Len(ls) : at[k] \in Nat
         /\ \A k \in 1..Len(ls) : /\ ls[k] \in Seq(Text) /\ Len(ls[k]) \in Nat /\ k - 1 \in 0..Len(ls)
                                  /\ at[k] = at[k - 1] + Len(ls[k]) + 2 /\ at[k] <= Len(wire)
<1>1. Len(ls) \in Nat /\ Len(wire) \in Nat
  BY LenProperties
<1>2. \A k \in 1..Len(ls) : ls[k] \in Seq(Text) /\ Len(ls[k]) \in Nat /\ k - 1 \in 0..Len(ls)
  BY <1>1, ElementOfSeq, LenProperties
<1>3. \A k \in 0..Len(ls) : at[k] \in Nat
  BY DEF Layout
<1> QED BY <1>1, <1>2, <1>3 DEF Layout

LEMMA AtGrows ==
  ASSUME NEW ls \in Seq(Seq(Text)), NEW wire \in Seq(Bytes), NEW at, Layout(wire, ls, at)
  PROVE  \A i, j \in 0..Len(ls) : i < j => at[i] + 2 <= at[j]
<1> DEFINE n == Len(ls)
           T == {j \in Nat : j <= n => \A i \in 0..n : i < j => at[i] + 2 <= at[j]}
<1>1. /\ n \in Nat /\ \A k \in 0..n : at[k] \in Nat
      /\ \A k \in 1..n : at[k - 1] + 2 <= at[k]
  <2>1. /\ n \in Nat /\ \A k \in 0..n : at[k] \in Nat
    BY LayoutTypes
  <2>2. ASSUME NEW k \in 1..n PROVE at[k - 1] + 2 <= at[k]
    <3>1. at[k] = at[k - 1] + Len(ls[k]) + 2 /\ Len(ls[k]) \in Nat /\ at[k - 1] \in Nat
      BY LayoutTypes
    <3> QED BY <3>1
  <2> QED BY <2>1, <2>2
<1> HIDE DEF n
<1>2. 0 \in T
  BY <1>1
<1>3. ASSUME NEW j \in T, j \in Nat PROVE j + 1 \in T
  <2> SUFFICES ASSUME j + 1 <= n, NEW i \in 0..n, i < j + 1 PROVE at[i] + 2 <= at[j + 1]
    OBVIOUS
  <2>1. j + 1 \in 1..n /\ (j + 1) - 1 = j /\ j \in 0..n /\ j <= n /\ j + 1 \in 0..n
    BY <1>1, <1>3
  <2>2. at[j] + 2 <= at[j + 1]
    BY <1>1, <2>1
  <2>3. CASE i = j
    BY <2>2, <2>3
  <2>4. CASE i # j
    <3>1. i < j
      BY <1>3, <2>4
    <3>2. at[i] + 2 <= at[j]
      BY <1>3, <2>1, <3>1
    <3>3. at[i] \in Nat /\ at[j] \in Nat /\ at[j + 1] \in Nat
      BY <1>1, <2>1
    <3> QED BY <2>2, <3>2, <3>3
  <2> QED BY <2>3, <2>4
<1>4. \A j \in Nat : j \in T
  <2> HIDE DEF T
  <2> QED BY <1>2, <1>3, Induction
<1> QED BY <1>1, <1>4 DEF n

LEMMA InALine ==
  ASSUME NEW ls \in Seq(Seq(Text)), NEW wire \in Seq(Bytes), NEW at, Layout(wire, ls, at),
         NEW p \in 1..Len(wire)
  PROVE  \E k \in 1..Len(ls) : In(at, p, k)
<1> DEFINE n == Len(ls)
           T == {k \in Nat : k <= n /\ p <= at[k]}
<1>1. /\ n \in Nat /\ Len(wire) \in Nat /\ at[0] = 0 /\ at[n] = Len(wire)
      /\ \A k \in 0..n : at[k] \in Nat
  BY LayoutTypes
<1>2. T \subseteq Nat /\ n \in T
  BY <1>1
<1>3. PICK k \in T : \A y \in T : k <= y
  <2> HIDE DEF T
  <2> QED BY <1>2, LeastExists
<1>4. k \in 1..n /\ p <= at[k]
  BY <1>1, <1>3
<1>5. k - 1 \notin T
  BY <1>3, <1>4
<1>6. k - 1 \in Nat /\ k - 1 <= n /\ k - 1 \in 0..n
  BY <1>1, <1>4
<1>7. at[k - 1] < p
  BY <1>1, <1>5, <1>6
<1> QED BY <1>4, <1>7 DEF In

LEMMA OneLine ==
  ASSUME NEW ls \in Seq(Seq(Text)), NEW wire \in Seq(Bytes), NEW at, Layout(wire, ls, at),
         NEW p \in Nat, NEW i \in 1..Len(ls), NEW j \in 1..Len(ls), In(at, p, i), In(at, p, j)
  PROVE  i = j
<1> DEFINE n == Len(ls)
<1>1. /\ n \in Nat /\ \A k \in 0..n : at[k] \in Nat
      /\ \A u, v \in 0..n : u < v => at[u] + 2 <= at[v]
  BY LayoutTypes, AtGrows
<1>2. ASSUME NEW u \in 1..n, NEW v \in 1..n, In(at, p, u), In(at, p, v), u < v PROVE FALSE
  <2>1. v - 1 \in 0..n /\ u \in 0..n /\ (u = v - 1 \/ u < v - 1)
    BY <1>1, <1>2
  <2>2. at[u] \in Nat /\ at[v - 1] \in Nat
    BY <1>1, <2>1
  <2>3. at[u] <= at[v - 1]
    <3>1. CASE u = v - 1
      BY <2>2, <3>1
    <3>2. CASE u < v - 1
      <4>1. at[u] + 2 <= at[v - 1]
        BY <1>1, <2>1, <3>2
      <4> QED BY <2>2, <4>1, SMTT(40)
    <3> QED BY <2>1, <3>1, <3>2
  <2> QED BY <1>2, <2>2, <2>3 DEF In
<1>3. ~(i < j) /\ ~(j < i)
  BY <1>2
<1> QED BY <1>1, <1>3

LEMMA ByteOf ==
  ASSUME NEW ls \in Seq(Seq(Text)), NEW wire \in Seq(Bytes), NEW at, Layout(wire, ls, at),
         NEW k \in 1..Len(ls), NEW p \in Nat, In(at, p, k)
  PROVE  /\ p < at[k] - 1 => wire[p] \notin {CR, LF}
         /\ p = at[k] - 1 => wire[p] = CR
         /\ p = at[k] => wire[p] = LF
<1>1. /\ Len(ls) \in Nat /\ at[k - 1] \in Nat /\ at[k] = at[k - 1] + Len(ls[k]) + 2 /\ Len(ls[k]) \in Nat
      /\ ls[k] \in Seq(Text)
  BY LayoutTypes
<1>2. wire[at[k] - 1] = CR /\ wire[at[k]] = LF /\ \A j \in 1..Len(ls[k]) : wire[at[k - 1] + j] = ls[k][j]
  BY DEF Layout
<1>3. ASSUME p < at[k] - 1 PROVE wire[p] \notin {CR, LF}
  <2> DEFINE a == at[k - 1]  l == Len(ls[k])  j == p - a
  <2>1. a \in Nat /\ l \in Nat /\ a < p /\ p < (a + l + 2) - 1
    BY <1>1, <1>3 DEF In
  <2>2. j \in 1..l /\ a + j = p
    <3> HIDE DEF a, l
    <3> QED BY <2>1
  <2>3. wire[p] = ls[k][j]
    BY <1>2, <2>2
  <2>4. ls[k][j] \in Text
    <3> DEFINE Q == Text
    <3>1. ls[k] \in Seq(Q)
      BY <1>1
    <3> HIDE DEF Q, j
    <3>2. ls[k][j] \in Q
      BY <2>2, <3>1, ElementOfSeq
    <3> QED BY <3>2 DEF Q
  <2> QED BY <2>3, <2>4 DEF Text
<1> QED BY <1>2, <1>3

-----------------------------------------------------------------------------
(***************************************************************************)
(* What add counts in lines of which no two in a row are empty.            *)
(***************************************************************************)
Clean(ls) ==
  /\ ls \in Seq(Seq(Text)) /\ ls # <<>> /\ ls[1] # <<>>
  /\ \A k \in 1..Len(ls) : k > 1 /\ ls[k] = <<>> => ls[k - 1] # <<>>

\* The status behind byte p; before the first one it is any.
Status(ls, at, p, nl) ==
  \A k \in 1..Len(ls) :
    In(at, p, k) => nl = IF p < at[k] - 1 THEN "NO_NEWLINE"
                         ELSE IF ls[k] = <<>> THEN "CRLFCR"
                         ELSE IF p = at[k] THEN "CRLF" ELSE "CR"

\* Byte p ends an empty line.
EndsEmpty(ls, at, p) == \E k \in 1..Len(ls) : ls[k] = <<>> /\ p = at[k]

LEMMA NextByte ==
  ASSUME NEW ls, Clean(ls), NEW wire \in Seq(Bytes), NEW at, Layout(wire, ls, at),
         NEW p \in Nat, p < Len(wire), NEW s \in Counts, Status(ls, at, p, s.nl)
  PROVE  LET t == AfterByte(s, wire[p + 1])
         IN  /\ Status(ls, at, p + 1, t.nl)
             /\ t.lines = s.lines + (IF wire[p + 1] = LF THEN 1 ELSE 0)
             /\ t.empty = s.empty + (IF EndsEmpty(ls, at, p + 1) THEN 1 ELSE 0)
<1> DEFINE t == AfterByte(s, wire[p + 1])
           n == Len(ls)
<1>1. ls \in Seq(Seq(Text))
  BY DEF Clean
<1>2. p + 1 \in 1..Len(wire) /\ p + 1 \in Nat
  BY LenProperties
<1>3. PICK k \in 1..n : In(at, p + 1, k)
  BY <1>1, <1>2, InALine
<1>4. /\ n \in Nat /\ at[k - 1] \in Nat /\ at[k] \in Nat /\ Len(ls[k]) \in Nat
      /\ at[k] = at[k - 1] + Len(ls[k]) + 2 /\ ls[k] \in Seq(Text)
  BY <1>1, LayoutTypes
<1>5. \A j \in 1..n : In(at, p + 1, j) => j = k
  BY <1>1, <1>2, <1>3, OneLine
<1>6. /\ p + 1 < at[k] - 1 => wire[p + 1] \notin {CR, LF}
      /\ p + 1 = at[k] - 1 => wire[p + 1] = CR
      /\ p + 1 = at[k] => wire[p + 1] = LF
  BY <1>1, <1>2, <1>3, ByteOf
<1>7. EndsEmpty(ls, at, p + 1) <=> ls[k] = <<>> /\ p + 1 = at[k]
  <2>1. ASSUME NEW j \in 1..n, p + 1 = at[j] PROVE j = k
    <3>1. at[j - 1] < at[j]
      <4>1. at[j - 1] \in Nat /\ Len(ls[j]) \in Nat /\ at[j] = at[j - 1] + Len(ls[j]) + 2
        BY <1>1, LayoutTypes
      <4> QED BY <4>1
    <3>2. In(at, p + 1, j)
      BY <2>1, <3>1 DEF In
    <3> QED BY <1>5, <3>2
  <2> QED BY <1>3, <2>1 DEF EndsEmpty
<1>8. at[k - 1] < p + 1 /\ p + 1 <= at[k]
  BY <1>3 DEF In
\* The byte before it is in the same line, or ends the line before.
<1>9. ASSUME p > at[k - 1]
      PROVE  s.nl = IF p < at[k] - 1 THEN "NO_NEWLINE" ELSE IF ls[k] = <<>> THEN "CRLFCR"
                    ELSE IF p = at[k] THEN "CRLF" ELSE "CR"
  <2>1. In(at, p, k)
    BY <1>4, <1>8, <1>9 DEF In
  <2> QED BY <2>1 DEF Status
<1>10. ASSUME ls[k] = <<>>, p = at[k - 1] PROVE s.nl = "CRLF"
  <2>1. k > 1 /\ ls[k - 1] # <<>> /\ k - 1 \in 1..n
    <3>1. k # 1
      BY <1>10 DEF Clean
    <3>2. k > 1 /\ k - 1 \in 1..n
      BY <1>4, <3>1
    <3> QED BY <1>10, <3>2 DEF Clean
  <2>2. at[k - 1] = at[k - 2] + Len(ls[k - 1]) + 2 /\ at[k - 2] \in Nat /\ Len(ls[k - 1]) \in Nat
    <3>1. (k - 1) - 1 = k - 2
      BY <1>4
    <3> QED BY <1>1, <2>1, <3>1, LayoutTypes
  <2>3. In(at, p, k - 1)
    <3>1. (k - 1) - 1 = k - 2
      BY <1>4
    <3> QED BY <1>10, <2>2, <3>1 DEF In
  <2>4. ~(p < at[k - 1] - 1)
    BY <1>10, <1>4
  <2> QED BY <1>10, <2>1, <2>3, <2>4 DEF Status
<1>11. Len(ls[k]) = 0 <=> ls[k] = <<>>
  BY <1>4, EmptySeq
<1>12. ASSUME NEW nl, nl = IF p + 1 < at[k] - 1 THEN "NO_NEWLINE" ELSE IF ls[k] = <<>> THEN "CRLFCR"
                          ELSE IF p + 1 = at[k] THEN "CRLF" ELSE "CR"
       PROVE  Status(ls, at, p + 1, nl)
  BY <1>5, <1>12 DEF Status
<1>13. s.nl \in NewLineStatus /\ s.lines \in Nat /\ s.empty \in Nat
  BY DEF Counts
<1>14. CASE p + 1 < at[k] - 1
  <2>1. t.nl = "NO_NEWLINE" /\ t.lines = s.lines /\ t.empty = s.empty
    BY <1>6, <1>14 DEF AfterByte, Counts
  <2>2. wire[p + 1] # LF /\ p + 1 # at[k]
    BY <1>4, <1>6, <1>14
  <2> QED BY <1>7, <1>12, <1>13, <1>14, <2>1, <2>2
<1>15. CASE p + 1 = at[k] - 1
  <2>1. wire[p + 1] = CR /\ wire[p + 1] # LF /\ p + 1 # at[k] /\ ~(p + 1 < at[k] - 1)
    BY <1>4, <1>6, <1>15 DEF CR, LF
  <2>2. s.nl = IF ls[k] = <<>> THEN "CRLF" ELSE "NO_NEWLINE"
    <3>1. CASE ls[k] = <<>>
      <4>1. p = at[k - 1]
        BY <1>4, <1>11, <1>15, <3>1
      <4> QED BY <1>10, <3>1, <4>1
    <3>2. CASE ls[k] # <<>>
      <4>1. p > at[k - 1] /\ p < at[k] - 1
        BY <1>4, <1>11, <1>15, <3>2
      <4> QED BY <1>9, <3>2, <4>1
    <3> QED BY <3>1, <3>2
  <2>3. t.nl = (IF ls[k] = <<>> THEN "CRLFCR" ELSE "CR") /\ t.lines = s.lines /\ t.empty = s.empty
    BY <2>1, <2>2 DEF AfterByte, Counts
  <2> QED BY <1>7, <1>12, <1>13, <2>1, <2>3
<1>16. CASE p + 1 = at[k]
  <2>1. wire[p + 1] = LF /\ LF # CR /\ ~(p + 1 < at[k] - 1)
    BY <1>4, <1>6, <1>16 DEF CR, LF
  <2>2. p > at[k - 1] /\ ~(p < at[k] - 1) /\ p # at[k]
    BY <1>4, <1>16
  <2>3. s.nl = IF ls[k] = <<>> THEN "CRLFCR" ELSE "CR"
    BY <1>9, <2>2
  <2>4. /\ t.nl = (IF ls[k] = <<>> THEN "CRLFCR" ELSE "CRLF") /\ t.lines = s.lines + 1
        /\ t.empty = s.empty + (IF ls[k] = <<>> THEN 1 ELSE 0)
    BY <2>1, <2>3, <1>13 DEF AfterByte, Counts
  <2> QED BY <1>7, <1>12, <1>16, <2>1, <2>4
<1> QED BY <1>4, <1>8, <1>14, <1>15, <1>16, SMTT(40)

\* Line feeds, and ends of empty lines, behind byte p and up to q.
LineFeed(wire, p, q)   == \E i \in (p + 1)..q : wire[i] = LF
EmptyLine(ls, at, p, q) == \E i \in (p + 1)..q : EndsEmpty(ls, at, i)

LEMMA ScanOn ==
  ASSUME NEW ls, Clean(ls), NEW wire \in Seq(Bytes), NEW at, Layout(wire, ls, at),
         NEW p \in Nat, NEW q \in Nat, p <= q, q <= Len(wire),
         NEW s \in Counts, Status(ls, at, p, s.nl)
  PROVE  LET t == Scan(s, SubSeq(wire, p + 1, q))
         IN  /\ t \in Counts /\ Status(ls, at, q, t.nl)
             /\ LineFeed(wire, p, q) => t.lines > s.lines
             /\ IF EmptyLine(ls, at, p, q) THEN t.empty > s.empty ELSE t.empty = s.empty
<1> DEFINE data == SubSeq(wire, p + 1, q)
<1>1. data \in Seq(Bytes) /\ Len(data) = q - p /\ \A i \in 1..(q - p) : data[i] = wire[p + i]
  <2> DEFINE B == Bytes
  <2>1. wire \in Seq(B) /\ Len(wire) \in Nat /\ \A i \in (p + 1)..q : wire[i] \in B
    BY LenProperties, ElementOfSeq
  <2> HIDE DEF B
  <2>2. /\ data \in Seq(B)
        /\ Len(data) = IF p + 1 <= q THEN q - (p + 1) + 1 ELSE 0
        /\ \A i \in 1..(q - (p + 1) + 1) : data[i] = wire[(p + 1) + i - 1]
    BY <2>1, SubSeqProperties
  <2>3. Len(data) = q - p /\ q - (p + 1) + 1 = q - p /\ \A i \in 1..(q - p) : (p + 1) + i - 1 = p + i
    BY <2>2
  <2> QED BY <2>2, <2>3 DEF B
<1> DEFINE n == q - p
<1>2. n \in Nat /\ Len(wire) \in Nat
  BY LenProperties
<1> HIDE DEF data
<1>3. PICK g \in [0..Len(data) -> Counts] :
           /\ g[0] = s
           /\ \A i \in 1..Len(data) : g[i] = AfterByte(g[i - 1], data[i])
           /\ Scan(s, data) = g[Len(data)]
  BY <1>1, ScanSteps
<1> DEFINE So(k) ==
             /\ g[k] \in Counts /\ Status(ls, at, p + k, g[k].nl)
             /\ g[k].lines >= s.lines /\ g[k].empty >= s.empty
             /\ LineFeed(wire, p, p + k) => g[k].lines > s.lines
             /\ IF EmptyLine(ls, at, p, p + k) THEN g[k].empty > s.empty ELSE g[k].empty = s.empty
           T == {k \in Nat : k <= n => So(k)}
<1>4. 0 \in T
  <2>1. ~LineFeed(wire, p, p + 0) /\ ~EmptyLine(ls, at, p, p + 0) /\ p + 0 = p
    BY DEF LineFeed, EmptyLine
  <2>2. g[0] = s /\ s.lines \in Nat /\ s.empty \in Nat
    BY <1>3 DEF Counts
  <2>3. So(0)
    BY <2>1, <2>2
  <2> QED BY <2>3
<1>5. ASSUME NEW k \in T, k \in Nat PROVE k + 1 \in T
  <2> SUFFICES ASSUME k + 1 <= n PROVE So(k + 1)
    OBVIOUS
  <2>1. So(k)
    BY <1>2, <1>5
  <2>2. k + 1 \in 1..n /\ (k + 1) - 1 = k /\ p + k \in Nat /\ p + k < Len(wire) /\ p + (k + 1) = (p + k) + 1
    BY <1>2, <1>5
  <2>3. g[k + 1] = AfterByte(g[k], wire[(p + k) + 1])
    BY <1>1, <1>3, <2>2
  <2> DEFINE u == g[k]  t == g[k + 1]  x == wire[(p + k) + 1]  r == (p + k) + 1
  <2>4. /\ Status(ls, at, r, t.nl)
        /\ t.lines = u.lines + (IF x = LF THEN 1 ELSE 0)
        /\ t.empty = u.empty + (IF EndsEmpty(ls, at, r) THEN 1 ELSE 0)
    BY <2>1, <2>2, <2>3, NextByte
  <2>5. t \in Counts /\ u \in Counts
    BY <2>1, <2>3, AfterByteType
  <2>6. LineFeed(wire, p, r) <=> LineFeed(wire, p, p + k) \/ x = LF
    <3>1. \A i : i \in (p + 1)..r <=> i \in (p + 1)..(p + k) \/ i = r
      BY <1>5, <2>2
    <3> QED BY <3>1 DEF LineFeed
  <2>7. EmptyLine(ls, at, p, r) <=> EmptyLine(ls, at, p, p + k) \/ EndsEmpty(ls, at, r)
    <3>1. \A i : i \in (p + 1)..r <=> i \in (p + 1)..(p + k) \/ i = r
      BY <1>5, <2>2
    <3> QED BY <3>1 DEF EmptyLine
  <2>8. /\ u.lines \in Nat /\ u.empty \in Nat /\ t.lines \in Nat /\ t.empty \in Nat
        /\ s.lines \in Nat /\ s.empty \in Nat
    BY <2>5 DEF Counts
  <2>9. So(k) /\ p + (k + 1) = r
    BY <2>1, <2>2
  <2>10. /\ u.lines >= s.lines /\ u.empty >= s.empty
         /\ LineFeed(wire, p, p + k) => u.lines > s.lines
         /\ IF EmptyLine(ls, at, p, p + k) THEN u.empty > s.empty ELSE u.empty = s.empty
    BY <2>1
  <2> HIDE DEF t, x, r, u
  <2>11. t.lines >= s.lines /\ t.empty >= s.empty
    BY <2>4, <2>8, <2>10, SMTT(40)
  <2>12. LineFeed(wire, p, r) => t.lines > s.lines
    BY <2>4, <2>6, <2>8, <2>10, SMTT(40)
  <2>13. IF EmptyLine(ls, at, p, r) THEN t.empty > s.empty ELSE t.empty = s.empty
    BY <2>4, <2>7, <2>8, <2>10, SMTT(40)
  <2>14. p + (k + 1) = r /\ t \in Counts /\ Status(ls, at, r, t.nl)
    BY <2>4, <2>5, <2>9
  <2> QED BY <2>11, <2>12, <2>13, <2>14 DEF t
<1>6. \A k \in Nat : k \in T
  <2> HIDE DEF T
  <2> QED BY <1>4, <1>5, Induction
<1>7. So(n) /\ p + n = q
  BY <1>2, <1>6
<1>8. Scan(s, data) = g[n]
  BY <1>1, <1>3
<1> QED BY <1>7, <1>8 DEF data

-----------------------------------------------------------------------------
(***************************************************************************)
(* A buffer whose items have counted a line where they hold a line feed.   *)
(* One that is not counted would make getCRLFLine miss a line.             *)
(***************************************************************************)
HasFeed(s)     == \E j \in 1..Len(s) : s[j] = LF
Marks(x)       == HasFeed(x.data) => x.lines > 0
AllMark(items) == \A i \in 1..Len(items) : Marks(items[i])

LEMMA FeedInConcat ==
  ASSUME NEW c \in Seq(Bytes), NEW d \in Seq(Bytes)
  PROVE  HasFeed(c \o d) <=> HasFeed(c) \/ HasFeed(d)
<1> DEFINE B == Bytes  x == LF  m == Len(c)  n == Len(d)  e == c \o d
<1>1. c \in Seq(B) /\ d \in Seq(B)
  OBVIOUS
<1> HIDE DEF B
<1>2. /\ m \in Nat /\ n \in Nat /\ Len(e) = m + n
      /\ \A i \in 1..(m + n) : e[i] = IF i <= m THEN c[i] ELSE d[i - m]
  BY <1>1, LenProperties
<1> HIDE DEF m, n, e, x
<1>3. ASSUME NEW j \in 1..Len(e), e[j] = x
      PROVE  (\E i \in 1..m : c[i] = x) \/ (\E i \in 1..n : d[i] = x)
  <2>1. CASE j <= m
    BY <1>2, <1>3, <2>1
  <2>2. CASE ~(j <= m)
    <3>1. j - m \in 1..n
      BY <1>2, <2>2
    <3> QED BY <1>2, <1>3, <2>2, <3>1
  <2> QED BY <2>1, <2>2
<1>4. ASSUME NEW i \in 1..m, c[i] = x PROVE \E j \in 1..Len(e) : e[j] = x
  BY <1>2, <1>4
<1>5. ASSUME NEW i \in 1..n, d[i] = x PROVE \E j \in 1..Len(e) : e[j] = x
  <2>1. m + i \in 1..(m + n) /\ ~(m + i <= m) /\ (m + i) - m = i
    BY <1>2
  <2> QED BY <1>2, <1>5, <2>1
<1> QED BY <1>3, <1>4, <1>5 DEF HasFeed, m, n, e, x

LEMMA MarkConcat ==
  ASSUME NEW s \in Seq(Item), NEW t \in Seq(Item)
  PROVE  AllMark(s \o t) <=> AllMark(s) /\ AllMark(t)
<1> DEFINE m == Len(s)  n == Len(t)  e == s \o t
<1>2. /\ m \in Nat /\ n \in Nat /\ Len(e) = m + n
      /\ \A i \in 1..(m + n) : e[i] = IF i <= m THEN s[i] ELSE t[i - m]
  BY LenProperties
<1> HIDE DEF m, n, e
<1>3. ASSUME NEW j \in 1..Len(e), \A i \in 1..m : Marks(s[i]), \A i \in 1..n : Marks(t[i])
      PROVE  Marks(e[j])
  <2>1. CASE j <= m
    BY <1>2, <1>3, <2>1
  <2>2. CASE ~(j <= m)
    <3>1. j - m \in 1..n
      BY <1>2, <2>2
    <3> QED BY <1>2, <1>3, <2>2, <3>1
  <2> QED BY <2>1, <2>2
<1>4. ASSUME NEW i \in 1..m, \A j \in 1..Len(e) : Marks(e[j]) PROVE Marks(s[i])
  BY <1>2, <1>4
<1>5. ASSUME NEW i \in 1..n, \A j \in 1..Len(e) : Marks(e[j]) PROVE Marks(t[i])
  <2>1. m + i \in 1..(m + n) /\ ~(m + i <= m) /\ (m + i) - m = i
    BY <1>2
  <2> QED BY <1>2, <1>5, <2>1
<1> QED BY <1>3, <1>4, <1>5 DEF AllMark, m, n, e

LEMMA MarkOne ==
  ASSUME NEW x \in Item
  PROVE  AllMark(<<x>>) <=> Marks(x)
BY DEF AllMark

\* The count of a buffer that holds a line feed is not 0.
LEMMA FeedCounted ==
  ASSUME NEW s \in Seq(Item), AllMark(s), HasFeed(Held(s))
  PROVE  LinesOf(s) > 0
<1> DEFINE T == {n \in Nat : \A u \in Seq(Item) :
                               Len(u) = n /\ AllMark(u) /\ HasFeed(Held(u)) => LinesOf(u) > 0}
<1>1. 0 \in T
  <2> SUFFICES ASSUME NEW u \in Seq(Item), Len(u) = 0 PROVE ~HasFeed(Held(u))
    OBVIOUS
  <2>1. u = <<>>
    BY EmptySeq
  <2>2. Held(u) = <<>>
    BY <2>1, HeldEmpty
  <2>3. Len(Held(u)) = 0
    BY <2>2, EmptySeq
  <2> QED BY <2>3 DEF HasFeed
<1>2. ASSUME NEW n \in T, n \in Nat, NEW u \in Seq(Item), Len(u) = n + 1, AllMark(u), HasFeed(Held(u))
      PROVE  LinesOf(u) > 0
  <2>1. u # <<>>
    BY <1>2, EmptySeq
  <2>2. PICK v \in Seq(Item), x \in Item : u = Append(v, x)
    BY <2>1, SequenceEmptyOrAppend
  <2>3. Len(v) = n
    BY <1>2, <2>2, AppendProperties, LenProperties
  <2>4. Held(u) = Held(v) \o x.data /\ Held(v) \in Seq(Bytes) /\ LinesOf(u) = LinesOf(v) + x.lines /\ LinesOf(v) \in Nat
    BY <2>2, HeldAppend, LinesOfAppend
  <2>5. x.data \in Seq(Bytes) /\ x.lines \in Nat
    BY DEF Item
  <2>6. HasFeed(Held(v)) \/ HasFeed(x.data)
    BY <1>2, <2>4, <2>5, FeedInConcat
  <2>7. AllMark(v) /\ Marks(x)
    <3>1. u = v \o <<x>> /\ <<x>> \in Seq(Item)
      BY <2>2
    <3>2. AllMark(v) /\ AllMark(<<x>>)
      BY <1>2, <3>1, MarkConcat
    <3> QED BY <3>2, MarkOne
  <2>8. HasFeed(Held(v)) => LinesOf(v) > 0
    BY <1>2, <2>3, <2>7
  <2>9. HasFeed(x.data) => x.lines > 0
    BY <2>7 DEF Marks
  <2> HIDE DEF T
  <2> QED BY <2>4, <2>5, <2>6, <2>8, <2>9
<1>3. \A n \in T : n \in Nat => n + 1 \in T
  BY <1>2, SMTT(40)
<1>4. \A n \in Nat : n \in T
  <2> HIDE DEF T
  <2> QED BY <1>1, <1>3, Induction
<1>5. Len(s) \in Nat
  BY LenProperties
<1> QED BY <1>4, <1>5

LEMMA ClearMarks ==
  ASSUME NEW b \in Buffers
  PROVE  AllMark(Clear(b).items) /\ Clear(b).nl = b.nl /\ Clear(b).empty = 0
<1>1. b \in [items : Seq(Item), lines : Nat, empty : Nat, nl : NewLineStatus]
  BY DEF Buffers, Counted
<1>2. Clear(b).items = <<>> /\ Clear(b).nl = b.nl /\ Clear(b).empty = 0
  BY <1>1 DEF Clear
<1> DEFINE none == Clear(b).items
<1>3. Len(none) = 0
  BY <1>2, EmptySeq
<1> HIDE DEF none
<1>4. AllMark(none)
  BY <1>3 DEF AllMark
<1> QED BY <1>2, <1>4 DEF none

LEMMA AddMarks ==
  ASSUME NEW b \in Buffers, AllMark(b.items), NEW data \in Seq(Bytes),
         NEW t, t = Scan([nl |-> b.nl, lines |-> 0, empty |-> b.empty], data), t \in Counts,
         HasFeed(data) => t.lines > 0
  PROVE  LET c == Add(b, data) IN AllMark(c.items) /\ c.nl = t.nl /\ c.empty = t.empty
<1> DEFINE x == [data |-> data, lines |-> t.lines]
<1>1. Add(b, data) = [items |-> Append(b.items, x), lines |-> b.lines + t.lines,
                      empty |-> t.empty, nl |-> t.nl]
  BY DEF Add
<1>2. x \in Item /\ x.data = data /\ x.lines = t.lines
  BY DEF Item, Counts
<1>3. Marks(x)
  BY <1>2 DEF Marks
<1> HIDE DEF x
<1>4. b.items \in Seq(Item)
  BY ContentsHeld
<1>5. Append(b.items, x) = b.items \o <<x>> /\ <<x>> \in Seq(Item)
  BY <1>2, <1>4
<1>6. AllMark(Append(b.items, x))
  <2>1. AllMark(<<x>>)
    BY <1>2, <1>3, MarkOne
  <2>2. AllMark(b.items \o <<x>>)
    BY <1>4, <1>5, <2>1, MarkConcat
  <2> QED BY <1>5, <2>2
<1> QED BY <1>1, <1>6

\* Every line feed is behind a carriage return.
FeedsFollow(s) == \A j \in 1..Len(s) : s[j] = LF => j > 1 /\ s[j - 1] = CR

LEMMA DropMarks ==
  ASSUME NEW b \in Buffers, AllMark(b.items), NEW n \in Nat, FeedsFollow(Contents(Drop(b, n)))
  PROVE  /\ AllMark(Drop(b, n).items) /\ Drop(b, n).nl = b.nl
         /\ Contents(Drop(b, n)) = <<>> => Drop(b, n).empty = 0
<1> DEFINE c == Drop(b, n)
<1>1. c \in Buffers /\ Contents(c) = Behind(Contents(b), n)
  BY DropLeaves
<1>2. CASE n >= Size(b)
  <2>1. c = Clear(b)
    BY <1>2, DropLeaves
  <2> QED BY <2>1, ClearMarks
<1>3. CASE ~(n >= Size(b))
  <2>1. c.nl = b.nl /\ (Suffix(b, c) \/ Recounted(b, c))
    BY <1>3, DropLeaves
  <2>2. Contents(c) # <<>>
    <3>1. Size(b) = Len(Contents(b)) /\ Size(b) \in Nat /\ Contents(b) \in Seq(Bytes)
      BY ContentsHeld
    <3>2. Len(Behind(Contents(b), n)) = Size(b) - n
      BY <1>3, <3>1, BehindType
    <3>3. Len(Contents(c)) # 0
      BY <1>1, <1>3, <3>1, <3>2
    <3> QED BY <3>3, EmptySeq
  <2>3. CASE Suffix(b, c)
    <3>1. PICK pre \in Seq(Item) : b.items = pre \o c.items
      BY <2>3 DEF Suffix
    <3>2. c.items \in Seq(Item)
      BY <1>1, ContentsHeld
    <3>3. AllMark(c.items)
      BY <3>1, <3>2, MarkConcat
    <3> QED BY <2>1, <2>2, <3>3
  <2>4. CASE Recounted(b, c)
    <3>1. PICK pre \in Seq(Item), tail \in Seq(Item), x \in Item, front \in Item :
            /\ b.items = pre \o (<<x>> \o tail) /\ c.items = <<front>> \o tail
            /\ front.lines = Cardinality(LineEnds(front.data))
      BY <2>4 DEF Recounted
    <3>2. <<x>> \in Seq(Item) /\ <<x>> \o tail \in Seq(Item) /\ <<front>> \in Seq(Item)
      BY ConcatProperties
    <3>3. AllMark(tail)
      <4> DEFINE r == <<x>> \o tail
      <4>1. r \in Seq(Item) /\ b.items = pre \o r
        BY <3>1, <3>2
      <4>2. AllMark(r) <=> AllMark(<<x>>) /\ AllMark(tail)
        BY <3>2, MarkConcat
      <4> HIDE DEF r
      <4>3. AllMark(r)
        BY <4>1, MarkConcat
      <4> QED BY <4>2, <4>3
    <3>4. Contents(c) = front.data \o Held(tail)
      <4>1. Contents(c) = Held(<<front>> \o tail)
        BY <1>1, <3>1, ContentsHeld
      <4>2. Held(<<front>> \o tail) = Held(<<front>>) \o Held(tail)
        BY <3>2, HeldConcat
      <4> QED BY <4>1, <4>2, OneItem
    <3>5. ASSUME HasFeed(front.data) PROVE front.lines > 0
      <4> DEFINE d == front.data
      <4>1. d \in Seq(Bytes) /\ Held(tail) \in Seq(Bytes) /\ Len(d) \in Nat /\ Len(Held(tail)) \in Nat
        BY HeldType, LenProperties DEF Item
      <4>2. PICK j \in 1..Len(d) : d[j] = LF
        BY <3>5 DEF HasFeed
      <4>3. \A i \in 1..Len(d) : i \in 1..Len(Contents(c)) /\ Contents(c)[i] = d[i]
        <5>1. /\ Len(d \o Held(tail)) = Len(d) + Len(Held(tail))
              /\ \A i \in 1..(Len(d) + Len(Held(tail))) :
                   (d \o Held(tail))[i] = IF i <= Len(d) THEN d[i] ELSE Held(tail)[i - Len(d)]
          BY <4>1, ConcatProperties
        <5> HIDE DEF d
        <5> QED BY <3>4, <4>1, <5>1 DEF d
      <4> HIDE DEF c
      <4>4. j > 1 /\ Contents(c)[j - 1] = CR
        BY <4>2, <4>3 DEF FeedsFollow, c
      <4>5. j \in 2..Len(d) /\ d[j - 1] = CR
        BY <4>1, <4>3, <4>4
      <4>6. j \in LineEnds(d)
        BY <4>2, <4>5 DEF LineEnds
      <4>7. Cardinality(LineEnds(d)) # 0 /\ Cardinality(LineEnds(d)) \in Nat
        <5>1. LineEnds(d) \subseteq 2..Len(d) /\ Cardinality(LineEnds(d)) \in Nat
          BY <4>1, LineEndsType
        <5>2. IsFiniteSet(LineEnds(d))
          <6> DEFINE E == LineEnds(d)  m == Len(d)
          <6>1. m \in Int /\ 2 \in Int /\ E \subseteq 2..m
            BY <4>1, <5>1
          <6> HIDE DEF E, m
          <6>2. IsFiniteSet(2..m)
            BY <6>1, FS_Interval
          <6>3. IsFiniteSet(E)
            BY <6>1, <6>2, FS_Subset
          <6> QED BY <6>3 DEF E
        <5> QED BY <4>6, <5>1, <5>2, FS_EmptySet
      <4> QED BY <3>1, <4>7
    <3>6. AllMark(<<front>> \o tail)
      BY <3>2, <3>3, <3>5, MarkConcat, MarkOne DEF Marks
    <3> QED BY <2>1, <2>2, <3>1, <3>6
  <2> QED BY <2>1, <2>3, <2>4
<1> QED BY <1>2, <1>3

-----------------------------------------------------------------------------
(***************************************************************************)
(* A buffer that holds the bytes behind byte i and up to p, and what       *)
(* getCRLFLine takes from it.                                              *)
(***************************************************************************)
Holds(b, wire, i, p) ==
  b \in Buffers /\ AllMark(b.items) /\ Contents(b) = SubSeq(wire, i + 1, p)

LEMMA BytesEqual ==
  ASSUME NEW c \in Seq(Bytes), NEW d \in Seq(Bytes), Len(c) = Len(d),
         \A i \in 1..Len(c) : c[i] = d[i]
  PROVE  c = d
<1> DEFINE B == Bytes
<1>1. c \in Seq(B) /\ d \in Seq(B)
  OBVIOUS
<1> HIDE DEF B
<1> QED BY <1>1, SeqEqual

LEMMA SegmentIs ==
  ASSUME NEW wire \in Seq(Bytes), NEW i \in Nat, NEW p \in Nat, i <= p, p <= Len(wire)
  PROVE  LET c == SubSeq(wire, i + 1, p)
         IN  c \in Seq(Bytes) /\ Len(c) = p - i /\ \A j \in 1..(p - i) : c[j] = wire[i + j]
<1> DEFINE B == Bytes  c == SubSeq(wire, i + 1, p)
<1>1. wire \in Seq(B) /\ Len(wire) \in Nat /\ \A j \in (i + 1)..p : wire[j] \in B
  BY LenProperties, ElementOfSeq
<1> HIDE DEF B
<1>2. /\ c \in Seq(B)
      /\ Len(c) = IF i + 1 <= p THEN p - (i + 1) + 1 ELSE 0
      /\ \A j \in 1..(p - (i + 1) + 1) : c[j] = wire[(i + 1) + j - 1]
  BY <1>1, SubSeqProperties
<1>3. Len(c) = p - i /\ p - (i + 1) + 1 = p - i /\ \A j \in 1..(p - i) : (i + 1) + j - 1 = i + j
  BY <1>2
<1> QED BY <1>2, <1>3 DEF B

LEMMA SegmentBehind ==
  ASSUME NEW wire \in Seq(Bytes), NEW i \in Nat, NEW p \in Nat, NEW m \in Nat,
         i + m <= p, p <= Len(wire)
  PROVE  Behind(SubSeq(wire, i + 1, p), m) = SubSeq(wire, (i + m) + 1, p)
<1> DEFINE c == SubSeq(wire, i + 1, p)
           d == Behind(c, m)
           e == SubSeq(wire, (i + m) + 1, p)
<1>1. c \in Seq(Bytes) /\ Len(c) = p - i /\ \A j \in 1..(p - i) : c[j] = wire[i + j]
  BY SegmentIs
<1>2. i + m \in Nat
  OBVIOUS
<1>3. e \in Seq(Bytes) /\ Len(e) = p - (i + m) /\ \A j \in 1..(p - (i + m)) : e[j] = wire[(i + m) + j]
  BY <1>2, SegmentIs
<1> HIDE DEF c
<1>4. /\ d \in Seq(Bytes)
      /\ Len(d) = IF m <= Len(c) THEN Len(c) - m ELSE 0
      /\ \A j \in 1..(Len(c) - m) : d[j] = c[m + j]
  BY <1>1, BehindType
<1> HIDE DEF d, e
<1>5. Len(d) = p - (i + m) /\ Len(c) - m = p - (i + m)
  BY <1>1, <1>4
<1>6. ASSUME NEW j \in 1..Len(d) PROVE d[j] = e[j]
  <2>1. m + j \in 1..(p - i) /\ i + (m + j) = (i + m) + j /\ j \in 1..(p - (i + m))
    BY <1>5
  <2> QED BY <1>1, <1>3, <1>4, <1>5, <2>1
<1>7. d = e
  BY <1>3, <1>4, <1>5, <1>6, BytesEqual
<1> QED BY <1>7 DEF c, d, e

LEMMA SegmentFeeds ==
  ASSUME NEW ls \in Seq(Seq(Text)), NEW wire \in Seq(Bytes), NEW at, Layout(wire, ls, at),
         NEW k \in 0..Len(ls), NEW p \in Nat, at[k] <= p, p <= Len(wire)
  PROVE  /\ FeedsFollow(SubSeq(wire, at[k] + 1, p))
         /\ k < Len(ls) /\ p < at[k + 1] => ~HasFeed(SubSeq(wire, at[k] + 1, p))
<1> DEFINE i == at[k]  c == SubSeq(wire, i + 1, p)  n == Len(ls)
<1>1. /\ n \in Nat /\ i \in Nat /\ \A u \in 0..n : at[u] \in Nat
      /\ \A u, v \in 0..n : u < v => at[u] + 2 <= at[v]
  BY LayoutTypes, AtGrows
<1>2. c \in Seq(Bytes) /\ Len(c) = p - i /\ \A j \in 1..(p - i) : c[j] = wire[i + j]
  BY <1>1, SegmentIs
<1> HIDE DEF c
<1>3. ASSUME NEW j \in 1..Len(c), c[j] = LF
      PROVE  /\ j > 1 /\ c[j - 1] = CR
             /\ k < n => at[k + 1] <= p
  <2> DEFINE q == i + j
  <2>1. q \in 1..Len(wire) /\ q \in Nat /\ q > i /\ q <= p /\ wire[q] = LF
    BY <1>1, <1>2, <1>3, LenProperties, SMTT(40)
  <2>2. PICK m \in 1..n : In(at, q, m)
    BY <2>1, InALine
  <2>3. /\ q < at[m] - 1 => wire[q] \notin {CR, LF}
        /\ q = at[m] - 1 => wire[q] = CR
    BY <2>1, <2>2, ByteOf
  <2>4. m - 1 \in 0..n /\ m \in 0..n /\ at[m] \in Nat /\ q <= at[m] /\ at[m - 1] < q
    BY <1>1, <2>2 DEF In
  <2>5. q = at[m]
    <3> DEFINE z == at[m]
    <3>1. z \in Nat /\ q \in Nat /\ q <= z
      BY <2>1, <2>4
    <3>2. ~(q < z - 1) /\ q # z - 1
      BY <2>1, <2>3 DEF CR, LF
    <3> HIDE DEF z, q
    <3>3. q = z
      BY <3>1, <3>2
    <3> QED BY <3>3 DEF z
  <2>6. k < m
    <3>1. CASE m = k
      BY <1>1, <2>1, <2>5, <3>1
    <3>2. CASE m < k
      BY <1>1, <2>1, <2>4, <2>5, <3>2, SMTT(40)
    <3> QED BY <1>1, <2>4, <3>1, <3>2
  <2>7. at[k] + 2 <= at[m]
    BY <1>1, <2>4, <2>6
  <2>8. wire[at[m] - 1] = CR
    BY <2>2 DEF Layout
  <2>9. j > 1 /\ j - 1 \in 1..(p - i) /\ i + (j - 1) = at[m] - 1
    <3> DEFINE z == at[m]  l == Len(c)
    <3>1. z \in Nat /\ i \in Nat /\ i + 2 <= z /\ i + j = z /\ l = p - i /\ l \in Nat /\ j \in 1..l
      BY <1>1, <1>2, <2>4, <2>5, <2>7, LenProperties
    <3> HIDE DEF z, l, i
    <3>2. j > 1 /\ j - 1 \in 1..l /\ i + (j - 1) = z - 1
      BY <3>1
    <3> QED BY <3>1, <3>2 DEF z
  <2>10. c[j - 1] = CR
    BY <1>2, <2>8, <2>9
  <2>11. ASSUME k < n PROVE at[k + 1] <= p
    <3>1. CASE m = k + 1
      BY <2>1, <2>5, <3>1
    <3>2. CASE m # k + 1
      <4>1. k + 1 < m /\ k + 1 \in 0..n
        BY <1>1, <2>4, <2>6, <2>11, <3>2
      <4>2. at[k + 1] + 2 <= at[m] /\ at[k + 1] \in Nat
        BY <1>1, <2>4, <4>1
      <4> QED BY <2>1, <2>5, <4>2
    <3> QED BY <3>1, <3>2
  <2> QED BY <2>9, <2>10, <2>11
<1>4. FeedsFollow(c)
  BY <1>3 DEF FeedsFollow
<1>5. ASSUME k < n, p < at[k + 1] PROVE ~HasFeed(c)
  <2>1. k + 1 \in 0..n
    BY <1>1, <1>5
  <2>2. at[k + 1] \in Nat /\ ~(at[k + 1] <= p)
    BY <1>1, <1>5, <2>1
  <2> QED BY <1>3, <1>5, <2>2 DEF HasFeed
<1> QED BY <1>4, <1>5 DEF c

LEMMA NextLine ==
  ASSUME NEW ls \in Seq(Seq(Text)), NEW wire \in Seq(Bytes), NEW at, Layout(wire, ls, at),
         NEW k \in 0..Len(ls), k < Len(ls), NEW p \in Nat, at[k] <= p, p <= Len(wire),
         NEW b, Holds(b, wire, at[k], p)
  PROVE  /\ at[k + 1] <= p =>
              /\ HasLine(b) /\ Line(b) = ls[k + 1]
              /\ Holds(AfterLine(b), wire, at[k + 1], p) /\ AfterLine(b).nl = b.nl
              /\ p = at[k + 1] => AfterLine(b).empty = 0
         /\ p < at[k + 1] => ~HasLine(b)
<1> DEFINE i == at[k]  c == Contents(b)  e == at[k + 1]  l == Len(ls[k + 1])
<1>1. b \in Buffers /\ AllMark(b.items) /\ c = SubSeq(wire, i + 1, p)
  BY DEF Holds
<1>2. k + 1 \in 1..Len(ls) /\ k + 1 \in 0..Len(ls) /\ (k + 1) - 1 = k
  <2> DEFINE n == Len(ls)
  <2>1. n \in Nat /\ k \in 0..n /\ k < n
    BY LayoutTypes
  <2> HIDE DEF n
  <2>2. k + 1 \in 1..n /\ k + 1 \in 0..n /\ (k + 1) - 1 = k
    BY <2>1
  <2> QED BY <2>2 DEF n
<1>3. /\ i \in Nat /\ e \in Nat /\ l \in Nat /\ e = i + l + 2 /\ ls[k + 1] \in Seq(Text)
  <2>1. i \in Nat /\ e \in Nat
    BY <1>2, LayoutTypes
  <2>2. at[k + 1] = at[(k + 1) - 1] + l + 2 /\ l \in Nat /\ ls[k + 1] \in Seq(Text)
    <3> DEFINE m == k + 1
    <3>1. m \in 1..Len(ls)
      BY <1>2
    <3> HIDE DEF m
    <3>2. at[m] = at[m - 1] + Len(ls[m]) + 2 /\ Len(ls[m]) \in Nat /\ ls[m] \in Seq(Text)
      BY <3>1, LayoutTypes
    <3> QED BY <3>2 DEF m
  <2> QED BY <1>2, <2>1, <2>2
<1>4. c \in Seq(Bytes) /\ Len(c) = p - i /\ \A j \in 1..(p - i) : c[j] = wire[i + j]
  <2>1. i \in Nat /\ i <= p /\ c = SubSeq(wire, i + 1, p)
    BY <1>1, <1>3
  <2> HIDE DEF i, c
  <2> QED BY <2>1, SegmentIs
<1>5. FeedsFollow(c) /\ (p < e => ~HasFeed(c))
  BY <1>1, SegmentFeeds
<1>6. /\ wire[e - 1] = CR /\ wire[e] = LF
      /\ \A j \in 1..l : wire[i + j] = ls[k + 1][j]
  <2>1. /\ wire[at[k + 1] - 1] = CR /\ wire[at[k + 1]] = LF
        /\ \A j \in 1..l : wire[at[(k + 1) - 1] + j] = ls[k + 1][j]
    BY <1>2 DEF Layout
  <2> QED BY <1>2, <2>1
<1>9. i <= p
  OBVIOUS
<1> DEFINE v == ls[k + 1]
<1>10. ASSUME e <= p PROVE FeedsFollow(SubSeq(wire, e + 1, p))
  <2>1. at[k + 1] <= p
    BY <1>10
  <2> QED BY <1>2, <2>1, SegmentFeeds
<1>7. Len(v) = l /\ v \in Seq(Text) /\ \A j \in 1..l : wire[i + j] = v[j]
  BY <1>3, <1>6
<1>8. /\ (p < e => ~HasLine(b))
       /\ (e <= p => /\ HasLine(b) /\ Line(b) = v
                     /\ Holds(AfterLine(b), wire, e, p) /\ AfterLine(b).nl = b.nl
                     /\ p = e => AfterLine(b).empty = 0)
  <2> HIDE DEF c, i, e, l, v
  <2>7. ASSUME p < e PROVE ~HasLine(b)
    <3>1. LineEnds(c) = {}
      BY <1>5, <2>7, <1>4 DEF LineEnds, HasFeed
    <3> QED BY <3>1 DEF HasLine, c
  <2>8. ASSUME e <= p
        PROVE  /\ HasLine(b) /\ Line(b) = v
               /\ Holds(AfterLine(b), wire, e, p) /\ AfterLine(b).nl = b.nl
               /\ p = e => AfterLine(b).empty = 0
    <3>1. l + 2 \in 2..(p - i) /\ l + 1 \in 1..(p - i) /\ i + (l + 2) = e /\ i + (l + 1) = e - 1 /\ (l + 2) - 1 = l + 1
      BY <1>3, <2>8
    <3>2. c[l + 2] = LF /\ c[l + 1] = CR /\ l + 2 \in 1..(p - i)
      BY <1>4, <1>6, <3>1
    <3>3. l + 2 \in LineEnds(c)
      BY <1>4, <3>1, <3>2 DEF LineEnds
    <3>4. ASSUME NEW j \in LineEnds(c), j < l + 2 PROVE FALSE
      <4>1. j \in 2..(p - i) /\ c[j] = LF
        BY <1>4 DEF LineEnds
      <4>2. j \in 1..(l + 1) /\ j \in 1..(p - i)
        BY <1>3, <3>4, <4>1
      <4>3. CASE j = l + 1
        BY <3>2, <4>1, <4>3 DEF CR, LF
      <4>4. CASE j # l + 1
        <5>1. j \in 1..l
          BY <1>3, <4>2, <4>4
        <5>2. c[j] = v[j]
          BY <1>4, <1>7, <4>2, <5>1
        <5>3. v[j] \in Text
          BY <1>7, <5>1, ElementOfSeq
        <5> QED BY <4>1, <5>2, <5>3 DEF Text
      <4> QED BY <4>3, <4>4
    <3>5. LineEnds(c) \subseteq 2..Len(c) /\ LineEnds(c) \subseteq Nat
      BY <1>4, LineEndsType, SMTT(30)
    <3>6. Min(LineEnds(c)) = l + 2
      <4> DEFINE E == LineEnds(c)
      <4>1. E \subseteq Nat /\ l + 2 \in E /\ \A j \in E : ~(j < l + 2)
        BY <3>3, <3>4, <3>5
      <4> HIDE DEF E
      <4>2. Min(E) \in E /\ Min(E) <= l + 2
        BY <4>1, MinIsLeast
      <4>3. Min(E) \in Nat /\ ~(Min(E) < l + 2) /\ l + 2 \in Nat
        BY <1>3, <4>1, <4>2
      <4>4. Min(E) = l + 2
        BY <4>2, <4>3
      <4> QED BY <4>4 DEF E
    <3>7. HasLine(b)
      <4>1. HasFeed(c)
        BY <1>4, <3>2 DEF HasFeed
      <4>2. LinesOf(b.items) > 0
        BY <1>1, <4>1, ContentsHeld, FeedCounted DEF c
      <4>3. b.lines # 0
        BY <1>1, <4>2, ContentsHeld
      <4> QED BY <3>3, <4>3 DEF HasLine, c
    <3>8. Line(b) = SubSeq(c, 1, l)
      <4>1. (l + 2) - 2 = l
        BY <1>3
      <4> QED BY <3>6, <4>1 DEF Line, c
    <3>9. Line(b) = v /\ Len(Line(b)) = l
      <4>0. l \in Nat /\ 0 <= l /\ l <= Len(c) /\ 0 \in Nat /\ 0 + 1 = 1 /\ l - 0 = l
        BY <1>3, <1>4, <3>1
      <4>1. /\ SubSeq(c, 0 + 1, l) \in Seq(Bytes) /\ Len(SubSeq(c, 0 + 1, l)) = l - 0
            /\ \A j \in 1..(l - 0) : SubSeq(c, 0 + 1, l)[j] = c[0 + j]
        BY <1>4, <4>0, SegmentIs
      <4> DEFINE u == SubSeq(c, 1, l)
      <4>2. u \in Seq(Bytes) /\ Len(u) = l /\ \A j \in 1..l : u[j] = c[j]
        <5>1. \A j \in 1..l : 0 + j = j
          BY <4>0
        <5> QED BY <4>0, <4>1, <5>1
      <4> HIDE DEF u
      <4>3. v \in Seq(Bytes) /\ Len(v) = l
        <5>1. Text \subseteq Bytes
          BY DEF Text
        <5> QED BY <1>7, <5>1, SeqMonotonic
      <4>4. ASSUME NEW j \in 1..l PROVE u[j] = v[j]
        <5>1. j \in 1..(p - i)
          BY <1>3, <3>1
        <5> QED BY <1>4, <1>7, <4>2, <5>1
      <4>5. u = v
        BY <4>2, <4>3, <4>4, BytesEqual
      <4> QED BY <3>8, <4>2, <4>5 DEF u
    <3>10. AfterLine(b) = Drop(b, l + 2) /\ l + 2 \in Nat
      BY <1>3, <3>9 DEF AfterLine
    <3>11. Drop(b, l + 2) \in Buffers /\ Contents(Drop(b, l + 2)) = SubSeq(wire, e + 1, p)
      <4>1. i + (l + 2) = e /\ i + (l + 2) <= p
        BY <1>3, <2>8
      <4>2. Behind(SubSeq(wire, i + 1, p), l + 2) = SubSeq(wire, (i + (l + 2)) + 1, p)
        BY <1>3, <3>10, <4>1, SegmentBehind, SMTT(40)
      <4> QED BY <1>1, <3>10, <4>1, <4>2, DropTakesFirst DEF c
    <3>12. FeedsFollow(SubSeq(wire, e + 1, p))
      BY <1>10, <2>8
    <3>13. /\ AllMark(Drop(b, l + 2).items) /\ Drop(b, l + 2).nl = b.nl
           /\ Contents(Drop(b, l + 2)) = <<>> => Drop(b, l + 2).empty = 0
      BY <1>1, <3>10, <3>11, <3>12, DropMarks
    <3>14. ASSUME p = e PROVE SubSeq(wire, e + 1, p) = <<>>
      <4>1. e + 1 \in Int /\ p \in Int /\ p < e + 1
        BY <1>3, <3>14
      <4> QED BY <4>1, SubSeqEmpty
    <3> QED BY <3>7, <3>9, <3>10, <3>11, <3>13, <3>14 DEF Holds
  <2> QED BY <2>7, <2>8
<1> QED BY <1>8 DEF i, e, v

\* A read of the bytes behind byte p and up to q.
LEMMA Received ==
  ASSUME NEW ls, Clean(ls), NEW wire \in Seq(Bytes), NEW at, Layout(wire, ls, at),
         NEW i \in Nat, NEW p \in Nat, NEW q \in Nat, i <= p, p <= q, q <= Len(wire),
         NEW b, Holds(b, wire, i, p), Status(ls, at, p, b.nl)
  PROVE  LET c == Add(b, SubSeq(wire, p + 1, q))
         IN  /\ Holds(c, wire, i, q) /\ Status(ls, at, q, c.nl)
             /\ IF EmptyLine(ls, at, p, q) THEN c.empty > b.empty ELSE c.empty = b.empty
<1> DEFINE data == SubSeq(wire, p + 1, q)
           s == [nl |-> b.nl, lines |-> 0, empty |-> b.empty]
           t == Scan(s, data)
           c == Add(b, data)
<1>1. b \in Buffers /\ AllMark(b.items) /\ Contents(b) = SubSeq(wire, i + 1, p) /\ b.empty \in Nat
  BY ContentsHeld DEF Holds
<1>2. s \in Counts /\ s.nl = b.nl /\ s.lines = 0 /\ s.empty = b.empty
  BY <1>1, ContentsHeld DEF Counts
<1>3. data \in Seq(Bytes) /\ Len(data) = q - p /\ \A j \in 1..(q - p) : data[j] = wire[p + j]
  <2>1. p <= Len(wire) /\ Len(wire) \in Nat
    BY LenProperties
  <2> QED BY <2>1, SegmentIs
<1> HIDE DEF s
<1>4. /\ t \in Counts /\ Status(ls, at, q, t.nl)
      /\ LineFeed(wire, p, q) => t.lines > s.lines
      /\ IF EmptyLine(ls, at, p, q) THEN t.empty > s.empty ELSE t.empty = s.empty
  BY <1>2, ScanOn
<1> HIDE DEF data, t
<1>5. HasFeed(data) => LineFeed(wire, p, q)
  <2> SUFFICES ASSUME NEW j \in 1..Len(data), data[j] = LF PROVE LineFeed(wire, p, q)
    BY DEF HasFeed
  <2>1. j \in 1..(q - p) /\ p + j \in (p + 1)..q /\ wire[p + j] = LF
    BY <1>3
  <2> QED BY <2>1 DEF LineFeed
<1>6. AllMark(c.items) /\ c.nl = t.nl /\ c.empty = t.empty
  <2>1. HasFeed(data) => t.lines > 0
    BY <1>2, <1>4, <1>5
  <2>2. t = Scan([nl |-> b.nl, lines |-> 0, empty |-> b.empty], data)
    BY DEF t, s
  <2> QED BY <1>1, <1>3, <1>4, <2>1, <2>2, AddMarks
<1>7. c \in Buffers /\ Contents(c) = Contents(b) \o data
  BY <1>1, <1>3, AddType
<1>8. SubSeq(wire, i + 1, p) \o data = SubSeq(wire, i + 1, q)
  <2> DEFINE u == SubSeq(wire, i + 1, p)  v == SubSeq(wire, i + 1, q)  w == u \o data
  <2>1. i <= q /\ p <= Len(wire) /\ Len(wire) \in Nat
    BY LenProperties
  <2>2. u \in Seq(Bytes) /\ Len(u) = p - i /\ \A j \in 1..(p - i) : u[j] = wire[i + j]
    BY <2>1, SegmentIs
  <2>3. v \in Seq(Bytes) /\ Len(v) = q - i /\ \A j \in 1..(q - i) : v[j] = wire[i + j]
    BY <2>1, SegmentIs
  <2> HIDE DEF u, v
  <2>4. /\ w \in Seq(Bytes) /\ Len(w) = q - i
        /\ \A j \in 1..(q - i) : w[j] = IF j <= p - i THEN u[j] ELSE data[j - (p - i)]
    <3> DEFINE B == Bytes  m == p - i  n == q - p
    <3>1. /\ u \in Seq(B) /\ data \in Seq(B) /\ Len(u) = m /\ Len(data) = n /\ m + n = q - i
          /\ m \in Nat /\ n \in Nat
      BY <1>3, <2>2
    <3> HIDE DEF B, m, n
    <3>2. /\ u \o data \in Seq(B) /\ Len(u \o data) = m + n
          /\ \A j \in 1..(m + n) : (u \o data)[j] = IF j <= m THEN u[j] ELSE data[j - m]
      <4>1. u \o data \in Seq(B)
        BY <3>1, ConcatProperties
      <4>2. /\ Len(u \o data) = m + n
            /\ \A j \in 1..(m + n) : (u \o data)[j] = IF j <= m THEN u[j] ELSE data[j - m]
        BY <3>1, SMTT(40)
      <4> QED BY <4>1, <4>2
    <3> QED BY <3>1, <3>2 DEF B, m
  <2>5. ASSUME NEW j \in 1..(q - i) PROVE w[j] = v[j]
    <3>1. CASE j <= p - i
      <4>1. j \in 1..(p - i)
        BY <3>1
      <4> QED BY <2>2, <2>3, <2>4, <3>1, <4>1
    <3>2. CASE ~(j <= p - i)
      <4>1. j - (p - i) \in 1..(q - p) /\ p + (j - (p - i)) = i + j
        BY <3>2
      <4> QED BY <1>3, <2>3, <2>4, <3>2, <4>1
    <3> QED BY <3>1, <3>2
  <2> HIDE DEF w
  <2>6. w = v
    BY <2>3, <2>4, <2>5, BytesEqual
  <2> QED BY <2>6 DEF u, v, w
<1>9. Holds(c, wire, i, q)
  <2>1. Contents(c) = SubSeq(wire, i + 1, q)
    BY <1>1, <1>7, <1>8
  <2> QED BY <1>6, <1>7, <2>1 DEF Holds
<1> QED BY <1>2, <1>4, <1>6, <1>9 DEF data

-----------------------------------------------------------------------------
(***************************************************************************)
(* The lines of a well-formed request.                                     *)
(***************************************************************************)
Known(m, fields, chunks) ==
  m \in Messages /\ fields \in Seq(Fields) /\ chunks \in Seq(Chunks) /\ WellFormed(m, fields, chunks)

\* The lines of its header.
Ends(fields) == Len(fields) + 2

LEMMA TextTokens ==
  /\ \A x \in DOMAIN StartLines \union Fields \union DOMAIN ChunkSizes : x \in Text
  /\ <<>> \in Seq(Text)
<1>1. /\ DOMAIN StartLines = {"GET", "POST", "LOST"} /\ DOMAIN ChunkSizes = {"x0", "x1", "x2", "x9"}
      /\ Fields = {"Host", "Chunked", "Other", "Length0", "Length1", "Length3", "Length9"}
  BY DEF StartLines, ChunkSizes, Fields, Lengths
<1>2. CR = "cr" /\ LF = "lf"
  BY DEF CR, LF
<1>3. \A x \in DOMAIN StartLines \union Fields \union DOMAIN ChunkSizes : x # CR /\ x # LF
  BY <1>1, <1>2
<1>4. \A x \in DOMAIN StartLines \union Fields \union DOMAIN ChunkSizes : x \in Bytes
  BY DEF Bytes
<1> QED BY <1>3, <1>4, EmptySeq DEF Text

LEMMA OneToken ==
  ASSUME NEW x \in Text
  PROVE  <<x>> \in Seq(Text) /\ Len(<<x>>) = 1 /\ <<x>> # <<>>
<1> DEFINE T == Text
<1>1. x \in T
  OBVIOUS
<1> HIDE DEF T
<1>2. <<x>> \in Seq(T) /\ Len(<<x>>) = 1 /\ <<x>> # <<>>
  BY <1>1
<1> QED BY <1>2 DEF T

LEMMA ChunkType ==
  ASSUME NEW chunks \in Seq(Chunks), NEW j \in 1..Len(chunks)
  PROVE  chunks[j].size \in DOMAIN ChunkSizes /\ chunks[j].data \in Seq(Text) /\ Len(chunks) \in Nat
<1>1. chunks[j] \in Chunks /\ Len(chunks) \in Nat
  BY ElementOfSeq, LenProperties
<1> QED BY <1>1 DEF Chunks

LEMMA LinesAre ==
  ASSUME NEW start, NEW fields, NEW chunks, start \in DOMAIN StartLines,
         fields \in Seq(Fields), chunks \in Seq(Chunks)
  PROVE  LET ls == RequestLines(start, fields, chunks)
             h  == Ends(fields)
             c  == Len(chunks)
         IN  /\ h \in Nat /\ c \in Nat /\ h = Len(fields) + 2 /\ Len(ls) = h + 2 * c /\ Len(fields) \in Nat
             /\ ls[1] = <<start>> /\ ls[h] = <<>>
             /\ \A i \in 2..(h - 1) : ls[i] = <<fields[i - 1]>> /\ fields[i - 1] \in Fields
             /\ \A j \in 1..c : ls[h + 2 * j - 1] = <<chunks[j].size>> /\ ls[h + 2 * j] = chunks[j].data
             /\ Clean(ls)
<1> DEFINE ls == RequestLines(start, fields, chunks)
           h  == Ends(fields)
           c  == Len(chunks)
           n  == h + 2 * c
           chunk(i) == chunks[(i - h + 1) \div 2]
           body(i) == CASE i = 1 -> <<start>>
                        [] i \in 2..(h - 1) -> <<fields[i - 1]>>
                        [] i = h -> <<>>
                        [] i > h /\ (i - h) % 2 = 1 -> <<chunk(i).size>>
                        [] OTHER -> chunk(i).data
<1>1. h \in Nat /\ c \in Nat /\ h = Len(fields) + 2 /\ Len(fields) \in Nat
  BY LenProperties DEF Ends
<1>2. ls = [i \in 1..n |-> body(i)]
  BY DEF RequestLines, Ends
<1> HIDE DEF ls, h, c
<1>3. \A i \in 1..n : ls[i] = body(i)
  BY <1>2
<1>4. ls[1] = <<start>>
  <2>1. 1 \in 1..n /\ body(1) = <<start>>
    BY <1>1
  <2> HIDE DEF body
  <2> QED BY <1>3, <2>1
<1>5. ls[h] = <<>>
  <2>1. h \in 1..n /\ h # 1 /\ ~(h \in 2..(h - 1))
    BY <1>1
  <2>2. body(h) = <<>>
    BY <2>1
  <2> HIDE DEF body
  <2> QED BY <1>3, <2>1, <2>2
<1>6. ASSUME NEW i \in 2..(h - 1) PROVE ls[i] = <<fields[i - 1]>> /\ fields[i - 1] \in Fields
  <2>1. i \in 1..n /\ i # 1 /\ i # h /\ ~(i > h)
    BY <1>1
  <2>2. i - 1 \in 1..Len(fields)
    BY <1>1
  <2>3. fields[i - 1] \in Fields
    <3> DEFINE j == i - 1
    <3>1. j \in 1..Len(fields)
      BY <2>2
    <3> HIDE DEF j
    <3>2. fields[j] \in Fields
      BY <3>1, ElementOfSeq
    <3> QED BY <3>2 DEF j
  <2>4. body(i) = <<fields[i - 1]>>
    <3> HIDE DEF chunk
    <3> QED BY <2>1
  <2> HIDE DEF body
  <2> QED BY <1>3, <2>1, <2>3, <2>4
<1>7. ASSUME NEW j \in 1..c PROVE ls[h + 2 * j - 1] = <<chunks[j].size>> /\ ls[h + 2 * j] = chunks[j].data
  <2> DEFINE u == h + 2 * j - 1  v == h + 2 * j
  <2>1. /\ u \in 1..n /\ u # 1 /\ ~(u \in 2..(h - 1)) /\ u # h /\ u > h
        /\ (u - h) % 2 = 1 /\ (u - h + 1) \div 2 = j
    BY <1>1
  <2>2. /\ v \in 1..n /\ v # 1 /\ ~(v \in 2..(h - 1)) /\ v # h
        /\ (v - h) % 2 # 1 /\ (v - h + 1) \div 2 = j
    BY <1>1
  <2> HIDE DEF u, v
  <2>3. body(u) = <<chunks[j].size>>
    BY <2>1
  <2>4. body(v) = chunks[j].data
    BY <2>2
  <2>5. ls[u] = <<chunks[j].size>> /\ ls[v] = chunks[j].data
    BY <1>3, <2>1, <2>2, <2>3, <2>4
  <2> QED BY <2>5 DEF u, v
<1>8. ASSUME NEW k \in 1..n
      PROVE  \/ k = 1 \/ k \in 2..(h - 1) \/ k = h
             \/ \E j \in 1..c : k = h + 2 * j - 1
             \/ \E j \in 1..c : k = h + 2 * j
  <2> SUFFICES ASSUME k > h
               PROVE  \E j \in 1..c : k = h + 2 * j - 1 \/ k = h + 2 * j
    BY <1>1
  <2> DEFINE j == (k - h + 1) \div 2
  <2>1. j \in 1..c /\ (k = h + 2 * j - 1 \/ k = h + 2 * j)
    BY <1>1
  <2> QED BY <2>1
<1>9. ASSUME NEW k \in 1..n
      PROVE  /\ ls[k] \in Seq(Text)
             /\ ls[k] = <<>> => k > 1 /\ ls[k - 1] # <<>>
  <2>1. CASE k = 1
    BY <1>4, <2>1, TextTokens, OneToken
  <2>2. CASE k \in 2..(h - 1)
    <3>1. fields[k - 1] \in Text
      BY <1>6, <2>2, TextTokens
    <3> QED BY <1>6, <2>2, <3>1, OneToken
  <2>3. CASE k = h
    <3>1. CASE h = 2
      <4>1. k - 1 = 1 /\ k > 1
        BY <2>3, <3>1
      <4> QED BY <1>4, <1>5, <2>3, <4>1, TextTokens, OneToken
    <3>2. CASE h # 2
      <4>1. k - 1 \in 2..(h - 1) /\ k > 1
        BY <1>1, <2>3, <3>2
      <4>2. <<fields[(k - 1) - 1]>> # <<>>
        BY <1>6, <4>1, TextTokens, OneToken
      <4> QED BY <1>5, <1>6, <2>3, <4>1, <4>2, TextTokens
    <3> QED BY <3>1, <3>2
  <2>4. ASSUME NEW j \in 1..c, k = h + 2 * j - 1
        PROVE  ls[k] \in Seq(Text) /\ ls[k] # <<>>
    <3>1. chunks[j].size \in Text
      BY ChunkType, TextTokens DEF c
    <3> QED BY <1>7, <2>4, <3>1, OneToken
  <2>5. ASSUME NEW j \in 1..c, k = h + 2 * j
        PROVE  ls[k] \in Seq(Text) /\ k > 1 /\ ls[k - 1] # <<>>
    <3>1. chunks[j].size \in Text /\ chunks[j].data \in Seq(Text)
      BY ChunkType, TextTokens DEF c
    <3>2. k - 1 = h + 2 * j - 1 /\ k > 1
      BY <1>1, <2>5
    <3>3. ls[k - 1] = <<chunks[j].size>> /\ ls[k] = chunks[j].data
      BY <1>7, <2>5, <3>2
    <3> QED BY <3>1, <3>2, <3>3, OneToken
  <2> QED BY <1>8, <2>1, <2>2, <2>3, <2>4, <2>5
<1>10. ls \in Seq(Seq(Text)) /\ Len(ls) = n
  <2> DEFINE Q == Seq(Text)
  <2> HIDE DEF body
  <2>1. n \in Nat /\ \A i \in 1..n : body(i) \in Q
    BY <1>1, <1>3, <1>9
  <2> HIDE DEF Q, n
  <2>2. ls \in [1..n -> Q]
    BY <1>2, <2>1
  <2>3. ls \in Seq(Q) /\ Len(ls) = n
    BY <2>1, <2>2
  <2> QED BY <2>3 DEF Q
<1>11. Clean(ls)
  <2>1. 1 \in 1..n /\ Len(ls) = n
    BY <1>1, <1>10
  <2>2. ls # <<>>
    <3>1. n # 0
      BY <1>1
    <3> QED BY <1>10, <3>1, EmptySeq
  <2>3. ls[1] # <<>>
    BY <1>4, TextTokens, OneToken
  <2> QED BY <1>9, <1>10, <2>1, <2>2, <2>3 DEF Clean
<1> QED BY <1>1, <1>4, <1>5, <1>6, <1>7, <1>10, <1>11 DEF ls, h, c

\* The bodies that its first chunks make.
Parts(m, chunks, g) ==
  /\ g[0] = <<>> /\ g[Len(chunks)] = m.body
  /\ \A j \in 0..Len(chunks) : g[j] \in Seq(Bytes) /\ Len(g[j]) <= MaxBody
  /\ \A j \in 1..Len(chunks) : /\ g[j] = g[j - 1] \o chunks[j].data
                               /\ Len(g[j]) = Len(g[j - 1]) + Len(chunks[j].data)

LEMMA TextIsBytes ==
  ASSUME NEW s \in Seq(Text)
  PROVE  s \in Seq(Bytes)
<1>1. Text \subseteq Bytes
  BY DEF Text
<1> QED BY <1>1, SeqMonotonic

LEMMA PartsExist ==
  ASSUME NEW m, NEW fields, NEW chunks, Known(m, fields, chunks)
  PROVE  \E g : Parts(m, chunks, g)
<1> DEFINE c == Len(chunks)
           datas == [i \in DOMAIN chunks |-> chunks[i].data]
<1>1. c \in Nat /\ DOMAIN chunks = 1..c /\ chunks \in Seq(Chunks)
  BY LenProperties DEF Known
<1>2. \A i \in 1..c : chunks[i].data \in Seq(Bytes) /\ Len(chunks[i].data) \in Nat
  BY <1>1, ChunkType, TextIsBytes, LenProperties
<1>3. datas \in Seq(Seq(Bytes)) /\ Len(datas) = c /\ \A i \in 1..c : datas[i] = chunks[i].data
  <2> DEFINE Q == Seq(Bytes)
  <2>1. datas \in [1..c -> Q] /\ \A i \in 1..c : datas[i] = chunks[i].data
    BY <1>1, <1>2
  <2> HIDE DEF datas, c, Q
  <2>2. datas \in Seq(Q) /\ Len(datas) = c
    BY <1>1, <2>1
  <2> QED BY <2>1, <2>2 DEF Q
<1>4. m.body = FlattenSeq(datas) /\ Len(m.body) <= MaxBody
  BY DEF Known, WellFormed
<1> HIDE DEF datas
<1>5. PICK g \in [0..Len(datas) -> Seq(Bytes)] :
           /\ g[0] = <<>>
           /\ \A i \in 1..Len(datas) : g[i] = g[i - 1] \o datas[i]
           /\ FlattenSeq(datas) = g[Len(datas)]
  BY <1>3, FlatSteps
<1>6. \A j \in 0..c : g[j] \in Seq(Bytes) /\ Len(g[j]) \in Nat
  BY <1>3, <1>5, LenProperties
<1>7. ASSUME NEW j \in 1..c
      PROVE  g[j] = g[j - 1] \o chunks[j].data /\ Len(g[j]) = Len(g[j - 1]) + Len(chunks[j].data)
  <2>1. g[j] = g[j - 1] \o chunks[j].data
    BY <1>3, <1>5
  <2>2. j - 1 \in 0..c
    BY <1>1
  <2> DEFINE B == Bytes  u == g[j - 1]  v == chunks[j].data
  <2>3. u \in Seq(B) /\ v \in Seq(B)
    BY <1>2, <1>6, <2>2
  <2> HIDE DEF B, u, v
  <2>4. Len(u \o v) = Len(u) + Len(v)
    BY <2>3
  <2> QED BY <2>1, <2>4 DEF u, v
<1> DEFINE T == {k \in Nat : k <= c => Len(g[c - k]) <= MaxBody}
<1>8. c - 0 = c /\ g[c] = m.body /\ MaxBody \in Nat
  BY <1>1, <1>3, <1>4, <1>5, ParserAssumption
<1>9. 0 \in T
  BY <1>4, <1>8
<1>10. ASSUME NEW k \in T, k \in Nat PROVE k + 1 \in T
  <2> SUFFICES ASSUME k + 1 <= c PROVE Len(g[c - (k + 1)]) <= MaxBody
    OBVIOUS
  <2>1. c - k \in 1..c /\ (c - k) - 1 = c - (k + 1) /\ c - (k + 1) \in 0..c /\ c - k \in 0..c
    BY <1>1, <1>10
  <2>2. Len(g[c - k]) <= MaxBody
    BY <1>1, <1>10
  <2> DEFINE j == c - k  i == c - (k + 1)
  <2>3. j \in 1..c /\ j - 1 = i /\ i \in 0..c /\ j \in 0..c
    BY <2>1
  <2> HIDE DEF i, j
  <2>4. Len(g[j]) = Len(g[i]) + Len(chunks[j].data)
    BY <1>7, <2>3
  <2>5. Len(g[j]) \in Nat /\ Len(g[i]) \in Nat /\ Len(chunks[j].data) \in Nat
    BY <1>2, <1>6, <2>3
  <2>6. Len(g[j]) <= MaxBody
    BY <2>2 DEF j
  <2>7. Len(g[i]) <= MaxBody
    <3> DEFINE x == Len(g[j])  y == Len(g[i])  z == Len(chunks[j].data)  b == MaxBody
    <3>1. x \in Nat /\ y \in Nat /\ z \in Nat /\ b \in Nat /\ x = y + z /\ x <= b
      BY <1>8, <2>4, <2>5, <2>6
    <3> HIDE DEF x, y, z, b
    <3>2. y <= b
      BY <3>1
    <3> QED BY <3>2 DEF y, b
  <2> QED BY <2>7 DEF i
<1>11. \A k \in Nat : k \in T
  <2> HIDE DEF T
  <2> QED BY <1>9, <1>10, Induction
<1>12. ASSUME NEW j \in 0..c PROVE Len(g[j]) <= MaxBody
  <2>1. c - j \in Nat /\ c - j <= c /\ c - (c - j) = j
    BY <1>1
  <2>2. Len(g[c - (c - j)]) <= MaxBody
    BY <1>11, <2>1
  <2> QED BY <2>1, <2>2
<1>13. g[0] = <<>>
  BY <1>5
<1>14. Parts(m, chunks, g)
  BY <1>6, <1>7, <1>8, <1>12, <1>13 DEF Parts
<1> QED BY <1>14

\* A well-formed request with its lines, where they end and what its body is
\* made of.
Plan(m, fields, chunks, ls, at, g) ==
  /\ Known(m, fields, chunks)
  /\ ls = RequestLines(m.start, fields, chunks) /\ Layout(m.wire, ls, at)
  /\ Parts(m, chunks, g)

LEMMA Planned ==
  ASSUME AllWellFormed, NEW m \in Messages
  PROVE  \E fields, chunks, ls, at, g : Plan(m, fields, chunks, ls, at, g)
<1>1. PICK fields \in Seq(Fields), chunks \in Seq(Chunks) : WellFormed(m, fields, chunks)
  BY DEF AllWellFormed
<1>2. Known(m, fields, chunks)
  BY <1>1 DEF Known
<1>3. PICK g : Parts(m, chunks, g)
  BY <1>2, PartsExist
<1> DEFINE ls == RequestLines(m.start, fields, chunks)
<1>4. m.start \in DOMAIN StartLines /\ m.wire = InLines(ls)
  BY <1>1 DEF WellFormed
<1>5. ls \in Seq(Seq(Text))
  BY <1>4, LinesAre DEF Clean
<1> HIDE DEF ls
<1>6. PICK at : Layout(InLines(ls), ls, at)
  BY <1>5, Laid
<1> QED BY <1>2, <1>3, <1>4, <1>6 DEF Plan, ls

LEMMA PlanLines ==
  ASSUME NEW m, NEW fields, NEW chunks, NEW ls, NEW at, NEW g,
         Plan(m, fields, chunks, ls, at, g)
  PROVE  /\ m.wire \in Seq(Bytes) /\ Layout(m.wire, ls, at) /\ Clean(ls) /\ ls \in Seq(Seq(Text))
         /\ Ends(fields) \in Nat /\ Len(chunks) \in Nat /\ Ends(fields) = Len(fields) + 2
         /\ Len(fields) \in Nat /\ Len(ls) = Ends(fields) + 2 * Len(chunks)
         /\ ls[1] = <<m.start>> /\ ls[Ends(fields)] = <<>>
         /\ \A i \in 2..(Ends(fields) - 1) : ls[i] = <<fields[i - 1]>> /\ fields[i - 1] \in Fields
<1>1. /\ m \in Messages /\ m.start \in DOMAIN StartLines /\ fields \in Seq(Fields) /\ chunks \in Seq(Chunks)
      /\ Layout(m.wire, ls, at)
  BY DEF Plan, Known, WellFormed
<1>2. m.wire \in Seq(Bytes)
  BY <1>1, ParserAssumption
<1>3. Clean(ls) => ls \in Seq(Seq(Text))
  BY DEF Clean
<1> DEFINE s == m.start  r == RequestLines(s, fields, chunks)  h == Ends(fields)  c == Len(chunks)
<1>4. s \in DOMAIN StartLines /\ ls = r
  BY <1>1 DEF Plan
<1> HIDE DEF s
<1>5. /\ h \in Nat /\ c \in Nat /\ h = Len(fields) + 2 /\ Len(r) = h + 2 * c /\ Len(fields) \in Nat
      /\ r[1] = <<s>> /\ r[h] = <<>>
      /\ \A i \in 2..(h - 1) : r[i] = <<fields[i - 1]>> /\ fields[i - 1] \in Fields
      /\ \A j \in 1..c : r[h + 2 * j - 1] = <<chunks[j].size>> /\ r[h + 2 * j] = chunks[j].data
      /\ Clean(r)
  BY <1>1, <1>4, LinesAre
<1> HIDE DEF r, h, c
<1>6. Clean(ls)
  BY <1>4, <1>5
<1> QED BY <1>1, <1>2, <1>3, <1>4, <1>5, <1>6 DEF h, c, s

LEMMA ChunkLines ==
  ASSUME NEW m, NEW fields, NEW chunks, NEW ls, NEW at, NEW g,
         Plan(m, fields, chunks, ls, at, g), NEW j \in 1..Len(chunks)
  PROVE  /\ ls[Ends(fields) + 2 * j - 1] = <<chunks[j].size>>
         /\ ls[Ends(fields) + 2 * j] = chunks[j].data
<1> DEFINE s == m.start  r == RequestLines(s, fields, chunks)  h == Ends(fields)  c == Len(chunks)
<1>1. s \in DOMAIN StartLines /\ ls = r /\ fields \in Seq(Fields) /\ chunks \in Seq(Chunks)
  BY DEF Plan, Known, WellFormed
<1> HIDE DEF s
<1>2. /\ h \in Nat /\ c \in Nat /\ h = Len(fields) + 2 /\ Len(r) = h + 2 * c /\ Len(fields) \in Nat
      /\ r[1] = <<s>> /\ r[h] = <<>>
      /\ \A i \in 2..(h - 1) : r[i] = <<fields[i - 1]>> /\ fields[i - 1] \in Fields
      /\ \A i \in 1..c : r[h + 2 * i - 1] = <<chunks[i].size>> /\ r[h + 2 * i] = chunks[i].data
      /\ Clean(r)
  BY <1>1, LinesAre
<1> HIDE DEF r, h
<1>3. r[h + 2 * j - 1] = <<chunks[j].size>> /\ r[h + 2 * j] = chunks[j].data
  BY <1>2
<1> QED BY <1>1, <1>3 DEF h

\* The header is within the limit, and its last line the first empty one.
LEMMA HeaderSpan ==
  ASSUME NEW m, NEW fields, NEW chunks, NEW ls, NEW at, NEW g,
         Plan(m, fields, chunks, ls, at, g), NEW p \in Nat, NEW q \in Nat
  PROVE  /\ at[Ends(fields)] \in Nat /\ at[Ends(fields)] > 0 /\ at[Ends(fields)] <= MaxHeader
         /\ at[Ends(fields)] <= Len(m.wire)
         /\ q < at[Ends(fields)] => ~EmptyLine(ls, at, p, q)
         /\ p < at[Ends(fields)] /\ at[Ends(fields)] <= q => EmptyLine(ls, at, p, q)
<1> DEFINE h == Ends(fields)  n == Len(ls)
<1>1. /\ m.wire \in Seq(Bytes) /\ Layout(m.wire, ls, at) /\ ls \in Seq(Seq(Text))
      /\ h \in Nat /\ h = Len(fields) + 2 /\ Len(fields) \in Nat /\ h <= n
      /\ ls[1] = <<m.start>> /\ ls[h] = <<>>
      /\ \A i \in 2..(h - 1) : ls[i] = <<fields[i - 1]>> /\ fields[i - 1] \in Fields
  <2> DEFINE c == Len(chunks)
  <2>1. /\ m.wire \in Seq(Bytes) /\ Layout(m.wire, ls, at) /\ ls \in Seq(Seq(Text))
        /\ h \in Nat /\ h = Len(fields) + 2 /\ Len(fields) \in Nat /\ c \in Nat /\ n = h + 2 * c
        /\ ls[1] = <<m.start>> /\ ls[h] = <<>>
        /\ \A i \in 2..(h - 1) : ls[i] = <<fields[i - 1]>> /\ fields[i - 1] \in Fields
    <3>1. m.wire \in Seq(Bytes) /\ Layout(m.wire, ls, at) /\ ls \in Seq(Seq(Text))
      BY PlanLines
    <3>2. h \in Nat /\ h = Len(fields) + 2 /\ Len(fields) \in Nat /\ c \in Nat /\ n = h + 2 * c
      BY PlanLines
    <3>3. ls[1] = <<m.start>>
      BY PlanLines
    <3>5. ls[h] = <<>>
      BY PlanLines
    <3>4. \A i \in 2..(h - 1) : ls[i] = <<fields[i - 1]>> /\ fields[i - 1] \in Fields
      BY PlanLines
    <3> QED BY <3>1, <3>2, <3>3, <3>4, <3>5
  <2> HIDE DEF c, h, n
  <2>2. h <= n
    BY <2>1
  <2> QED BY <2>1, <2>2
<1>2. /\ n \in Nat /\ at[0] = 0 /\ \A k \in 0..n : at[k] \in Nat
      /\ \A k \in 1..n : at[k] = at[k - 1] + Len(ls[k]) + 2 /\ at[k] <= Len(m.wire)
      /\ \A i, j \in 0..n : i < j => at[i] + 2 <= at[j]
  <2> DEFINE w == m.wire
  <2>1. w \in Seq(Bytes) /\ Layout(w, ls, at) /\ ls \in Seq(Seq(Text))
    BY <1>1
  <2> HIDE DEF w
  <2>2. /\ n \in Nat /\ at[0] = 0 /\ \A k \in 0..n : at[k] \in Nat
        /\ \A k \in 1..n : at[k] = at[k - 1] + Len(ls[k]) + 2 /\ at[k] <= Len(w)
    BY <2>1, LayoutTypes
  <2>3. \A i, j \in 0..n : i < j => at[i] + 2 <= at[j]
    BY <2>1, AtGrows
  <2> QED BY <2>2, <2>3 DEF w
<1>3. m.start \in Text
  BY TextTokens DEF Plan, Known, WellFormed
<1>4. 3 * (Len(fields) + 1) + 2 <= MaxHeader /\ MaxHeader \in Nat
  BY ParserAssumption DEF Plan, Known, WellFormed
<1>5. \A k \in 1..(h - 1) : Len(ls[k]) = 1 /\ ls[k] # <<>>
  <2>1. ASSUME NEW k \in 1..(h - 1) PROVE Len(ls[k]) = 1 /\ ls[k] # <<>>
    <3>1. CASE k = 1
      BY <1>1, <1>3, <3>1, OneToken
    <3>2. CASE k # 1
      <4>1. k \in 2..(h - 1)
        BY <1>1, <3>2
      <4>2. fields[k - 1] \in Text
        BY <1>1, <4>1, TextTokens
      <4> QED BY <1>1, <4>1, <4>2, OneToken
    <3> QED BY <3>1, <3>2
  <2> QED BY <2>1
<1> HIDE DEF h, n
<1> DEFINE T == {k \in Nat : k <= h - 1 => at[k] = 3 * k}
<1>6. 0 \in T
  BY <1>2
<1>7. ASSUME NEW k \in T, k \in Nat PROVE k + 1 \in T
  <2> SUFFICES ASSUME k + 1 <= h - 1 PROVE at[k + 1] = 3 * (k + 1)
    OBVIOUS
  <2> DEFINE i == k + 1
  <2>1. i \in 1..(h - 1) /\ i \in 1..n /\ i - 1 = k /\ at[k] = 3 * k /\ 3 * i = 3 * k + 3
    <3>1. h \in Nat /\ n \in Nat /\ h <= n /\ k <= h - 1
      BY <1>1, <1>2, <1>7
    <3>2. at[k] = 3 * k
      BY <1>7, <3>1
    <3> QED BY <1>7, <3>1, <3>2
  <2> HIDE DEF i
  <2>2. at[i] = 3 * k + 1 + 2
    BY <1>2, <1>5, <2>1
  <2>3. at[i] = 3 * i
    BY <1>7, <2>1, <2>2
  <2> QED BY <2>3 DEF i
<1>8. \A k \in Nat : k \in T
  <2> HIDE DEF T
  <2> QED BY <1>6, <1>7, Induction
<1>9. at[h] \in Nat /\ at[h] > 0 /\ at[h] <= MaxHeader /\ at[h] <= Len(m.wire) /\ h \in 1..n /\ h \in 0..n
  <2>1. h \in 1..n /\ h \in 0..n /\ h - 1 \in Nat /\ h - 1 = Len(fields) + 1
    <3> DEFINE f == Len(fields)
    <3>1. f \in Nat /\ h = f + 2 /\ h <= n /\ n \in Nat
      BY <1>1, <1>2
    <3> HIDE DEF f
    <3>2. h \in 1..n /\ h \in 0..n /\ h - 1 \in Nat /\ h - 1 = f + 1
      BY <3>1
    <3> QED BY <3>2 DEF f
  <2>2. at[h - 1] = 3 * (Len(fields) + 1)
    BY <1>8, <2>1
  <2>3. Len(ls[h]) = 0
    BY <1>1, EmptySeq
  <2>4. at[h] = at[h - 1] + 0 + 2 /\ at[h] <= Len(m.wire) /\ at[h] \in Nat
    BY <1>2, <2>1, <2>3
  <2> QED BY <1>1, <1>4, <2>1, <2>2, <2>4
<1>10. ASSUME q < at[h] PROVE ~EmptyLine(ls, at, p, q)
  <2> SUFFICES ASSUME NEW i \in (p + 1)..q, NEW k \in 1..n, ls[k] = <<>>, i = at[k] PROVE FALSE
    BY DEF EmptyLine, EndsEmpty, n
  <2>1. ~(k \in 1..(h - 1)) /\ k \in 0..n
    BY <1>5, <1>2
  <2>2. k = h \/ h < k
    BY <1>1, <1>2, <2>1
  <2>3. at[k] >= at[h] /\ at[k] \in Nat
    <3>1. at[k] \in Nat
      BY <1>2, <2>1
    <3>2. CASE k = h
      BY <1>9, <3>1, <3>2
    <3>3. CASE h < k
      <4>1. at[h] + 2 <= at[k]
        BY <1>2, <1>9, <2>1, <3>3
      <4> QED BY <1>9, <3>1, <4>1
    <3> QED BY <2>2, <3>1, <3>2, <3>3
  <2> QED BY <1>9, <1>10, <2>3
<1>11. ASSUME p < at[h], at[h] <= q PROVE EmptyLine(ls, at, p, q)
  <2>1. at[h] \in (p + 1)..q
    BY <1>9, <1>11
  <2> QED BY <1>1, <1>9, <2>1 DEF EmptyLine, EndsEmpty, n
<1> QED BY <1>9, <1>10, <1>11 DEF h

-----------------------------------------------------------------------------
(***************************************************************************)
(* Parsing it.  The buffer holds what is behind line k, up to byte q.      *)
(***************************************************************************)
Reading(b, m, ls, at, k, q) ==
  /\ k \in 0..Len(ls) /\ q \in Nat /\ q <= Len(m.wire) /\ at[k] <= q
  /\ Holds(b, m.wire, at[k], q) /\ Status(ls, at, q, b.nl)

\* The next line is taken if it is there.
LEMMA TakesLine ==
  ASSUME NEW m, NEW fields, NEW chunks, NEW ls, NEW at, NEW g,
         Plan(m, fields, chunks, ls, at, g),
         NEW k, NEW q, NEW b, Reading(b, m, ls, at, k, q), k < Len(ls)
  PROVE  /\ k + 1 \in 1..Len(ls) /\ k \in Nat /\ Len(ls) \in Nat /\ at[k + 1] \in Nat
         /\ q < at[k + 1] => ~HasLine(b)
         /\ at[k + 1] <= q => /\ HasLine(b) /\ Line(b) = ls[k + 1]
                              /\ Reading(AfterLine(b), m, ls, at, k + 1, q)
                              /\ q = at[k + 1] => AfterLine(b).empty = 0
<1> DEFINE n == Len(ls)  w == m.wire
<1>1. w \in Seq(Bytes) /\ Layout(w, ls, at) /\ ls \in Seq(Seq(Text))
  BY PlanLines
<1>2. k \in 0..n /\ q \in Nat /\ q <= Len(w) /\ at[k] <= q /\ Holds(b, w, at[k], q) /\ Status(ls, at, q, b.nl)
  BY DEF Reading
<1> HIDE DEF w
<1>3. n \in Nat /\ \A i \in 0..n : at[i] \in Nat
  BY <1>1, LayoutTypes
<1>4. /\ at[k + 1] <= q =>
           /\ HasLine(b) /\ Line(b) = ls[k + 1]
           /\ Holds(AfterLine(b), w, at[k + 1], q) /\ AfterLine(b).nl = b.nl
           /\ q = at[k + 1] => AfterLine(b).empty = 0
      /\ q < at[k + 1] => ~HasLine(b)
  BY <1>1, <1>2, NextLine
<1>5. k + 1 \in 1..n /\ k + 1 \in 0..n /\ k \in Nat
  <2> HIDE DEF n
  <2>1. k \in 0..n /\ n \in Nat /\ k < n
    BY <1>2, <1>3 DEF n
  <2> QED BY <2>1
<1>6. at[k + 1] \in Nat
  BY <1>3, <1>5
<1>7. at[k + 1] <= q => Reading(AfterLine(b), m, ls, at, k + 1, q)
  BY <1>2, <1>4, <1>5 DEF Reading, w
<1> QED BY <1>3, <1>4, <1>5, <1>6, <1>7

\* A loop whose every round takes a byte ends within its rounds.
Shrinks(n, g) ==
  \A i \in 1..n : g[i].more => g[i - 1].more /\ Size(g[i].buf) + 1 <= Size(g[i - 1].buf)

LEMMA LoopEnds ==
  ASSUME NEW N \in Nat, NEW g, \A i \in 0..(N + 1) : Size(g[i].buf) \in Nat,
         Size(g[0].buf) = N, Shrinks(N + 1, g)
  PROVE  ~g[N + 1].more
<1> DEFINE T == {i \in Nat : i <= N + 1 /\ g[i].more => Size(g[i].buf) + i <= N}
<1>1. 0 \in T
  OBVIOUS
<1>2. ASSUME NEW i \in T, i \in Nat PROVE i + 1 \in T
  <2> SUFFICES ASSUME i + 1 <= N + 1, g[i + 1].more PROVE Size(g[i + 1].buf) + (i + 1) <= N
    OBVIOUS
  <2> DEFINE k == i + 1
  <2>1. k \in 1..(N + 1) /\ k - 1 = i /\ i \in 0..(N + 1) /\ k \in 0..(N + 1) /\ i <= N + 1
    BY <1>2
  <2> HIDE DEF k
  <2>2. g[i].more /\ Size(g[k].buf) + 1 <= Size(g[i].buf)
    <3>1. g[k].more
      BY DEF k
    <3> QED BY <2>1, <3>1 DEF Shrinks
  <2>3. Size(g[i].buf) + i <= N
    BY <1>2, <2>1, <2>2
  <2> DEFINE x == Size(g[k].buf)  y == Size(g[i].buf)
  <2>4. x \in Nat /\ y \in Nat /\ x + 1 <= y /\ y + i <= N /\ k = i + 1
    BY <2>1, <2>2, <2>3 DEF k
  <2> HIDE DEF x, y
  <2>5. x + (i + 1) <= N
    BY <1>2, <2>4
  <2> QED BY <2>5 DEF x, k
<1>3. \A i \in Nat : i \in T
  <2> HIDE DEF T
  <2> QED BY <1>1, <1>2, Induction
<1>4. N + 1 \in T /\ N + 1 \in 0..(N + 1)
  BY <1>3
<1> DEFINE x == Size(g[N + 1].buf)
<1>5. x \in Nat /\ (g[N + 1].more => x + (N + 1) <= N)
  BY <1>4
<1> HIDE DEF x
<1>6. ~(x + (N + 1) <= N)
  BY <1>5
<1> QED BY <1>5, <1>6

LEMMA ReadingSize ==
  ASSUME NEW m, NEW fields, NEW chunks, NEW ls, NEW at, NEW g,
         Plan(m, fields, chunks, ls, at, g), NEW k, NEW q, NEW b, Reading(b, m, ls, at, k, q)
  PROVE  b \in Buffers /\ Size(b) = q - at[k] /\ Size(b) \in Nat /\ at[k] \in Nat
<1> DEFINE w == m.wire
<1>1. w \in Seq(Bytes) /\ Layout(w, ls, at) /\ ls \in Seq(Seq(Text))
  BY PlanLines
<1>2. k \in 0..Len(ls) /\ q \in Nat /\ q <= Len(w) /\ at[k] <= q /\ Holds(b, w, at[k], q)
  BY DEF Reading
<1> HIDE DEF w
<1>3. at[k] \in Nat
  BY <1>1, <1>2, LayoutTypes
<1>4. b \in Buffers /\ Contents(b) = SubSeq(w, at[k] + 1, q)
  BY <1>2 DEF Holds
<1>5. Len(SubSeq(w, at[k] + 1, q)) = q - at[k]
  BY <1>1, <1>2, <1>3, SegmentIs
<1>6. Size(b) = q - at[k] /\ Size(b) \in Nat
  BY <1>4, <1>5, ContentsHeld DEF Size
<1> QED BY <1>3, <1>4, <1>6

\* The start line.
LEMMA StartLineRead ==
  ASSUME NEW m, NEW fields, NEW chunks, NEW ls, NEW at, NEW g,
         Plan(m, fields, chunks, ls, at, g),
         NEW q, at[1] <= q, NEW w \in Works, w.code = 0,
         Reading(w.buf, m, ls, at, 0, q), w.req = EmptyRequest
  PROVE  LET v == StartLine(w)
         IN  /\ v \in Works /\ ~v.more /\ v.code = 0
             /\ v.req = [EmptyRequest EXCEPT !.start = m.start]
             /\ Reading(v.buf, m, ls, at, 1, q)
<1> DEFINE s == m.start  v == TakeLine(w)  r == [v.req EXCEPT !.start = s]
           u == [v EXCEPT !.req.start = s]
<1>1. HasLine(w.buf) /\ Line(w.buf) = <<s>> /\ Reading(AfterLine(w.buf), m, ls, at, 1, q)
  <2>1. 0 < Len(ls)
    <3> DEFINE h == Ends(fields)  c == Len(chunks)  n == Len(ls)
    <3>1. h \in Nat /\ c \in Nat /\ h = Len(fields) + 2 /\ Len(fields) \in Nat /\ n = h + 2 * c
      BY PlanLines
    <3> HIDE DEF h, c, n
    <3>2. 0 < n
      BY <3>1
    <3> QED BY <3>2 DEF n
  <2>2. 0 + 1 = 1 /\ at[0 + 1] <= q
    OBVIOUS
  <2>3. HasLine(w.buf) /\ Line(w.buf) = ls[0 + 1] /\ Reading(AfterLine(w.buf), m, ls, at, 0 + 1, q)
    BY <2>1, <2>2, TakesLine
  <2>4. ls[1] = <<s>>
    BY PlanLines
  <2> QED BY <2>2, <2>3, <2>4
<1>2. s \in DOMAIN StartLines /\ <<s>> # <<>> /\ <<s>>[1] = s
  <2>1. s \in DOMAIN StartLines
    BY DEF Plan, Known, WellFormed
  <2>2. s \in Text
    BY <2>1, TextTokens
  <2> HIDE DEF s
  <2> QED BY <2>1, <2>2, OneToken
<1>3. v \in Works /\ v.buf = AfterLine(w.buf) /\ v.req = EmptyRequest /\ v.code = 0 /\ v.req \in Requests
  BY <1>1, TakeLineType, WorkFields
<1> HIDE DEF s
<1>4. StartLine(w) = Stop(u)
  <2> DEFINE starts == {<<x>> : x \in DOMAIN StartLines}  line == Line(w.buf)
  <2>1. line \in starts /\ line # <<>> /\ line[1] = s
    BY <1>1, <1>2
  <2>2. HasLine(w.buf) /\ u = [v EXCEPT !.req.start = line[1]]
    BY <1>1, <2>1
  <2> HIDE DEF starts, line, u, v
  <2>3. StartLine(w) = Stop([v EXCEPT !.req.start = line[1]])
    BY <2>1, <2>2 DEF StartLine, starts, line, v
  <2> QED BY <2>2, <2>3
<1> HIDE DEF v
<1>5. r \in Requests
  BY <1>2, <1>3 DEF Requests
<1>6. u = [v EXCEPT !.req = r]
  OBVIOUS
<1>7. u \in Works /\ u.buf = v.buf /\ u.req = r /\ u.code = v.code
  <2> HIDE DEF r, u
  <2>1. u \in Works
    BY <1>3, <1>5, <1>6, WithRequest
  <2> QED BY <1>3, <1>6, <2>1 DEF Works
<1>8. r = [EmptyRequest EXCEPT !.start = s]
  BY <1>3
<1> HIDE DEF u, r
<1>9. /\ Stop(u) \in Works /\ Stop(u).buf = u.buf /\ Stop(u).req = u.req
      /\ Stop(u).code = u.code /\ Stop(u).more = FALSE
  BY <1>7, StopType
<1> QED BY <1>1, <1>3, <1>4, <1>7, <1>8, <1>9 DEF s

LEMMA StartRead ==
  ASSUME NEW m, NEW fields, NEW chunks, NEW ls, NEW at, NEW g,
         Plan(m, fields, chunks, ls, at, g),
         NEW q, at[1] <= q, NEW w \in Works, w.code = 0,
         Reading(w.buf, m, ls, at, 0, q), w.req = EmptyRequest
  PROVE  LET v == Repeat(StartLine, w)
         IN  /\ v \in Works /\ v.code = 0
             /\ v.req = [EmptyRequest EXCEPT !.start = m.start]
             /\ Reading(v.buf, m, ls, at, 1, q)
<1> DEFINE N == Size(w.buf)
           r == [EmptyRequest EXCEPT !.start = m.start]
           Before(v) == v.more /\ v.req = EmptyRequest /\ Reading(v.buf, m, ls, at, 0, q)
           After(v)  == ~v.more /\ v.req = r /\ Reading(v.buf, m, ls, at, 1, q)
           S == {v \in Works : v.code = 0 /\ (Before(v) \/ After(v))}
<1> HIDE DEF r
<1>1. N \in Nat /\ Begun(w) \in Works /\ Begun(w).more /\ Begun(w).buf = w.buf /\ Begun(w).req = w.req /\ Begun(w).code = 0
  BY BegunType
<1>2. Before(Begun(w))
  BY <1>1
<1>3. ASSUME NEW v \in S, v.more PROVE After(StartLine(v)) /\ StartLine(v) \in Works /\ StartLine(v).code = 0
  <2>1. v \in Works /\ v.code = 0 /\ v.req = EmptyRequest /\ Reading(v.buf, m, ls, at, 0, q)
    BY <1>3
  <2> QED BY <2>1, StartLineRead DEF r
<1> HIDE DEF Before, After, N
<1>4. Begun(w) \in S /\ \A v \in S : v.more => StartLine(v) \in S
  BY <1>1, <1>2, <1>3
<1>5. PICK f \in [0..(N + 1) -> S] :
           /\ f[0] = Begun(w)
           /\ \A i \in 1..(N + 1) :
                f[i] = IF f[i - 1].more THEN StartLine(f[i - 1]) ELSE f[i - 1]
           /\ Repeat(StartLine, w) = f[N + 1]
  <2> HIDE DEF S
  <2>1. Size(w.buf) \in Nat
    BY <1>1 DEF N
  <2> QED BY <1>4, <2>1, StartLoop DEF N
<1>6. \A i \in 0..(N + 1) : f[i] \in S /\ Size(f[i].buf) \in Nat
  <2>1. \A i \in 0..(N + 1) : f[i] \in S
    BY <1>5
  <2> QED BY <2>1, BegunType
<1>7. Shrinks(N + 1, f)
  <2>1. ASSUME NEW i \in 1..(N + 1) PROVE ~f[i].more
    <3>1. i - 1 \in 0..(N + 1)
      BY <1>1
    <3>2. f[i - 1] \in S /\ f[i] = IF f[i - 1].more THEN StartLine(f[i - 1]) ELSE f[i - 1]
      BY <1>5, <1>6, <3>1
    <3>3. f[i - 1].more => ~StartLine(f[i - 1]).more
      BY <1>3, <3>2 DEF After
    <3> QED BY <3>2, <3>3
  <2> QED BY <2>1 DEF Shrinks
<1>8. Size(f[0].buf) = N
  BY <1>1, <1>5 DEF N
<1>9. ~f[N + 1].more
  <2> HIDE DEF S
  <2> QED BY <1>1, <1>6, <1>7, <1>8, LoopEnds
<1>10. f[N + 1] \in S
  BY <1>1, <1>6
<1>11. After(f[N + 1]) /\ f[N + 1] \in Works /\ f[N + 1].code = 0
  BY <1>9, <1>10 DEF Before
<1> QED BY <1>5, <1>11 DEF After, r

\* What a request holds when the first k lines of its header are read.
Blank(r) == ~r.resolved /\ r.body = <<>> /\ r.bodyLen = 0 /\ ~r.done /\ ~r.sizeKnown

HeaderPart(r, m, fields, k) ==
  Blank(r) /\ ~r.header /\ r.start = m.start /\ r.fields = {fields[i] : i \in 1..(k - 1)}

\* And when all of them are.
HasHeader(r, m) ==
  r.start = m.start /\ r.fields = m.fields /\ r.chunked = ("Chunked" \in m.fields)

\* A field of the header.
LEMMA FieldRead ==
  ASSUME NEW m, NEW fields, NEW chunks, NEW ls, NEW at, NEW g,
         Plan(m, fields, chunks, ls, at, g),
         NEW q, at[Ends(fields)] <= q, NEW w \in Works, w.code = 0, w.more,
         NEW k \in 1..(Ends(fields) - 2),
         Reading(w.buf, m, ls, at, k, q), HeaderPart(w.req, m, fields, k)
  PROVE  LET v == HeaderLine(w)
         IN  /\ v \in Works /\ v.more /\ v.code = 0
             /\ HeaderPart(v.req, m, fields, k + 1)
             /\ Reading(v.buf, m, ls, at, k + 1, q)
             /\ Size(v.buf) + 1 <= Size(w.buf)
<1> DEFINE h == Ends(fields)  v == TakeLine(w)  x == fields[k]
           r == [v.req EXCEPT !.fields = @ \union {x}]
           u == [v EXCEPT !.req.fields = @ \union {x}]
<1>1. h \in Nat /\ h = Len(fields) + 2 /\ Len(fields) \in Nat /\ h <= Len(ls) /\ Len(ls) \in Nat /\ k < Len(ls)
  <2> DEFINE c == Len(chunks)  n == Len(ls)  f == Len(fields)
  <2>1. h \in Nat /\ c \in Nat /\ h = f + 2 /\ f \in Nat /\ n = h + 2 * c /\ k \in 1..(h - 2)
    BY PlanLines
  <2> HIDE DEF h, c, n, f
  <2>2. h <= n /\ n \in Nat /\ k < n
    BY <2>1
  <2> QED BY <2>1, <2>2 DEF n, f
<1>2. k + 1 \in 2..(h - 1) /\ (k + 1) - 1 = k /\ k + 1 \in 0..Len(ls) /\ k \in 0..Len(ls) /\ h \in 0..Len(ls) /\ k + 1 < h
  <2> DEFINE n == Len(ls)
  <2>1. h \in Nat /\ h <= n /\ n \in Nat /\ k \in 1..(h - 2)
    BY <1>1
  <2> HIDE DEF n, h
  <2>2. k + 1 \in 2..(h - 1) /\ (k + 1) - 1 = k /\ k + 1 \in 0..n /\ k \in 0..n /\ h \in 0..n /\ k + 1 < h
    BY <2>1
  <2> QED BY <2>2 DEF n
<1>3. ls[k + 1] = <<x>> /\ x \in Fields
  <2>1. \A i \in 2..(h - 1) : ls[i] = <<fields[i - 1]>> /\ fields[i - 1] \in Fields
    BY PlanLines
  <2> HIDE DEF h
  <2> QED BY <1>2, <2>1
<1>4. at[k] + 2 <= at[k + 1] /\ at[k + 1] + 2 <= at[h] /\ at[k] \in Nat /\ at[k + 1] \in Nat /\ at[h] \in Nat
  <2> DEFINE z == m.wire
  <2>1. z \in Seq(Bytes) /\ Layout(z, ls, at) /\ ls \in Seq(Seq(Text))
    BY PlanLines
  <2> HIDE DEF z, h
  <2>2. \A i, j \in 0..Len(ls) : i < j => at[i] + 2 <= at[j]
    BY <2>1, AtGrows
  <2>3. \A i \in 0..Len(ls) : at[i] \in Nat
    BY <2>1, LayoutTypes
  <2>4. k < k + 1
    OBVIOUS
  <2> QED BY <1>2, <2>2, <2>3, <2>4
<1>5. q \in Nat /\ at[k + 1] <= q
  <2>1. q \in Nat /\ at[h] <= q
    BY DEF Reading
  <2> QED BY <1>4, <2>1
<1>6. HasLine(w.buf) /\ Line(w.buf) = <<x>> /\ Reading(AfterLine(w.buf), m, ls, at, k + 1, q)
  BY <1>1, <1>3, <1>5, TakesLine
<1>7. v \in Works /\ v.buf = AfterLine(w.buf) /\ v.req = w.req /\ v.code = 0 /\ v.more /\ v.req \in Requests
  BY <1>6, TakeLineType, WorkFields
<1>8. <<x>> # <<>> /\ <<x>>[1] = x
  <2>1. x \in Text
    BY <1>3, TextTokens
  <2> HIDE DEF x
  <2> QED BY <2>1, OneToken
<1> HIDE DEF x, h
<1>9. HeaderLine(w) = u
  <2> DEFINE lines == {<<f>> : f \in Fields}  line == Line(w.buf)
  <2>1. line \in lines /\ line # <<>> /\ line[1] = x
    BY <1>3, <1>6, <1>8
  <2>2. HasLine(w.buf) /\ u = [v EXCEPT !.req.fields = @ \union {line[1]}]
    BY <1>6, <2>1
  <2> HIDE DEF lines, line, u, v
  <2>3. HeaderLine(w) = [v EXCEPT !.req.fields = @ \union {line[1]}]
    BY <2>1, <2>2 DEF HeaderLine, lines, line, v
  <2> QED BY <2>2, <2>3
<1> HIDE DEF v
<1>10. r \in Requests /\ r.fields = v.req.fields \union {x} /\ r.start = v.req.start /\ r.header = v.req.header
       /\ (Blank(v.req) => Blank(r))
  BY <1>3, <1>7 DEF Requests, Blank
<1>11. u = [v EXCEPT !.req = r]
  OBVIOUS
<1> HIDE DEF r, u
<1>12. u \in Works /\ u.buf = v.buf /\ u.req = r /\ u.code = v.code /\ u.more = v.more
  <2>1. u \in Works
    BY <1>7, <1>10, <1>11, WithRequest
  <2> QED BY <1>7, <1>11, <2>1 DEF Works
<1>13. {fields[i] : i \in 1..(k - 1)} \union {x} = {fields[i] : i \in 1..((k + 1) - 1)}
  <2>1. \A i : i \in 1..((k + 1) - 1) <=> i \in 1..(k - 1) \/ i = k
    BY <1>1
  <2> QED BY <2>1 DEF x
<1>14. HeaderPart(r, m, fields, k + 1)
  BY <1>7, <1>10, <1>13 DEF HeaderPart
<1>15. Size(u.buf) + 1 <= Size(w.buf)
  <2>1. Size(w.buf) = q - at[k]
    BY ReadingSize
  <2>2. Size(u.buf) = q - at[k + 1]
    BY <1>6, <1>7, <1>12, ReadingSize
  <2> QED BY <1>4, <1>5, <2>1, <2>2
<1> QED BY <1>6, <1>7, <1>9, <1>12, <1>14, <1>15

\* The empty line.
LEMMA HeaderEndRead ==
  ASSUME NEW m, NEW fields, NEW chunks, NEW ls, NEW at, NEW g,
         Plan(m, fields, chunks, ls, at, g),
         NEW q, at[Ends(fields)] <= q, NEW w \in Works, w.code = 0,
         Reading(w.buf, m, ls, at, Ends(fields) - 1, q),
         HeaderPart(w.req, m, fields, Ends(fields) - 1)
  PROVE  LET v == HeaderLine(w)
         IN  /\ v \in Works /\ ~v.more /\ v.code = 0
             /\ Blank(v.req) /\ ~v.req.header /\ HasHeader(v.req, m)
             /\ Reading(v.buf, m, ls, at, Ends(fields), q)
             /\ q = at[Ends(fields)] => v.buf.empty = 0
<1> DEFINE h == Ends(fields)  k == h - 1  v == TakeLine(w)
           lengths == v.req.fields \intersect DOMAIN Lengths
           chunked == "Chunked" \in v.req.fields
           length == IF chunked \/ lengths = {} THEN 0 ELSE Lengths[CHOOSE f \in lengths : TRUE]
           s == lengths # {}
           u == [v EXCEPT !.req.chunked = chunked, !.req.sized = s, !.req.length = length]
           r == [v.req EXCEPT !.chunked = chunked, !.sized = s, !.length = length]
<1>1. h \in Nat /\ h = Len(fields) + 2 /\ Len(fields) \in Nat /\ h <= Len(ls) /\ Len(ls) \in Nat
      /\ k < Len(ls) /\ k + 1 = h /\ k - 1 = Len(fields)
  <2> DEFINE c == Len(chunks)  n == Len(ls)  f == Len(fields)
  <2>1. h \in Nat /\ c \in Nat /\ h = f + 2 /\ f \in Nat /\ n = h + 2 * c
    BY PlanLines
  <2> HIDE DEF h, c, n, f
  <2>2. h <= n /\ n \in Nat /\ h - 1 < n /\ (h - 1) + 1 = h /\ (h - 1) - 1 = f
    BY <2>1
  <2> QED BY <2>1, <2>2 DEF n, f, h
<1>2. HasLine(w.buf) /\ Line(w.buf) = <<>> /\ Reading(AfterLine(w.buf), m, ls, at, h, q)
      /\ (q = at[h] => AfterLine(w.buf).empty = 0)
  <2>1. ls[h] = <<>>
    BY PlanLines
  <2>2. at[k + 1] <= q
    BY <1>1
  <2>3. Reading(w.buf, m, ls, at, k, q) /\ k < Len(ls)
    BY <1>1
  <2> HIDE DEF k
  <2>4. HasLine(w.buf) /\ Line(w.buf) = ls[k + 1] /\ Reading(AfterLine(w.buf), m, ls, at, k + 1, q)
        /\ (q = at[k + 1] => AfterLine(w.buf).empty = 0)
    BY <2>2, <2>3, TakesLine
  <2> QED BY <1>1, <2>1, <2>4
<1>3. v \in Works /\ v.buf = AfterLine(w.buf) /\ v.req = w.req /\ v.code = 0 /\ v.req \in Requests
  BY <1>2, TakeLineType, WorkFields
<1>4. Blank(v.req) /\ ~v.req.header /\ v.req.start = m.start /\ v.req.fields = m.fields /\ "Host" \in m.fields
  <2>1. Blank(w.req) /\ ~w.req.header /\ w.req.start = m.start /\ w.req.fields = {fields[i] : i \in 1..(k - 1)}
    BY DEF HeaderPart
  <2>2. m.fields = ToSet(fields) /\ "Host" \in m.fields /\ fields \in Seq(Fields)
    BY DEF Plan, Known, WellFormed
  <2>3. DOMAIN fields = 1..(k - 1)
    <3>1. DOMAIN fields = 1..Len(fields)
      BY <2>2, LenProperties
    <3> HIDE DEF k
    <3> QED BY <1>1, <3>1
  <2>4. ToSet(fields) = {fields[i] : i \in 1..(k - 1)}
    BY <2>3 DEF ToSet
  <2> QED BY <1>3, <2>1, <2>2, <2>4
<1> HIDE DEF h, k, v
<1>5. HeaderLine(w) = HeaderEnd(v)
  <2> DEFINE line == Line(w.buf)
  <2>1. HasLine(w.buf) /\ line = <<>>
    BY <1>2
  <2> HIDE DEF line
  <2> QED BY <2>1 DEF HeaderLine, line, v
<1>6. HeaderEnd(v) = Stop(u)
  <2>1. "Host" \in v.req.fields
    BY <1>4
  <2> QED BY <2>1 DEF HeaderEnd
<1>7. length \in Nat
  <2>1. ASSUME lengths # {} PROVE Lengths[CHOOSE f \in lengths : TRUE] \in Nat
    <3>1. (CHOOSE f \in lengths : TRUE) \in lengths
      BY <2>1
    <3> QED BY <3>1, Tables
  <2> QED BY <2>1
<1>8. chunked \in BOOLEAN /\ s \in BOOLEAN /\ chunked = ("Chunked" \in m.fields)
  BY <1>4
<1> HIDE DEF length, s, chunked
<1>9. r \in Requests /\ r.chunked = chunked /\ r.fields = v.req.fields /\ r.start = v.req.start
      /\ r.header = v.req.header /\ (Blank(v.req) => Blank(r))
  BY <1>3, <1>7, <1>8 DEF Requests, Blank
<1>10. u = [v EXCEPT !.req = r]
  BY <1>3 DEF Works
<1> HIDE DEF r, u
<1>11. u \in Works /\ u.buf = v.buf /\ u.req = r /\ u.code = v.code
  <2>1. u \in Works
    BY <1>3, <1>9, <1>10, WithRequest
  <2> QED BY <1>3, <1>10, <2>1 DEF Works
<1>12. /\ Stop(u) \in Works /\ Stop(u).buf = u.buf /\ Stop(u).req = u.req
       /\ Stop(u).code = u.code /\ Stop(u).more = FALSE
  BY <1>11, StopType
<1>13. Blank(r) /\ ~r.header /\ HasHeader(r, m)
  BY <1>4, <1>8, <1>9 DEF HasHeader
<1> QED BY <1>2, <1>3, <1>5, <1>6, <1>11, <1>12, <1>13 DEF h

LEMMA HeaderRead ==
  ASSUME NEW m, NEW fields, NEW chunks, NEW ls, NEW at, NEW g,
         Plan(m, fields, chunks, ls, at, g),
         NEW q, at[Ends(fields)] <= q, NEW w \in Works, w.code = 0,
         Reading(w.buf, m, ls, at, 1, q), HeaderPart(w.req, m, fields, 1)
  PROVE  LET v == Repeat(HeaderLine, w)
         IN  /\ v \in Works /\ v.code = 0
             /\ Blank(v.req) /\ ~v.req.header /\ HasHeader(v.req, m)
             /\ Reading(v.buf, m, ls, at, Ends(fields), q)
             /\ q = at[Ends(fields)] => v.buf.empty = 0
<1> DEFINE N == Size(w.buf)  h == Ends(fields)
           At(v, k) == Reading(v.buf, m, ls, at, k, q) /\ HeaderPart(v.req, m, fields, k)
           Before(v) == v.more /\ \E k \in 1..(h - 1) : At(v, k)
           After(v)  == /\ ~v.more /\ Blank(v.req) /\ ~v.req.header /\ HasHeader(v.req, m)
                        /\ Reading(v.buf, m, ls, at, h, q) /\ (q = at[h] => v.buf.empty = 0)
           S == {v \in Works : v.code = 0 /\ (Before(v) \/ After(v))}
<1>1. N \in Nat /\ Begun(w) \in Works /\ Begun(w).more /\ Begun(w).buf = w.buf /\ Begun(w).req = w.req /\ Begun(w).code = 0
  BY BegunType
<1>2. h \in Nat /\ h - 1 >= 1
  <2>1. h = Len(fields) + 2 /\ Len(fields) \in Nat
    BY PlanLines
  <2> QED BY <2>1
<1>3. Before(Begun(w))
  <2>1. At(Begun(w), 1) /\ 1 \in 1..(h - 1)
    BY <1>1, <1>2
  <2> HIDE DEF At, h
  <2> QED BY <1>1, <2>1
<1>4. ASSUME NEW v \in S, v.more
      PROVE  /\ HeaderLine(v) \in S
             /\ HeaderLine(v).more => Size(HeaderLine(v).buf) + 1 <= Size(v.buf)
  <2>1. PICK k \in 1..(h - 1) : At(v, k)
    BY <1>4
  <2>2. v \in Works /\ v.code = 0
    BY <1>4
  <2>3. CASE k = h - 1
    <3>1. HeaderLine(v) \in Works /\ HeaderLine(v).code = 0 /\ After(HeaderLine(v))
      BY <2>1, <2>2, <2>3, HeaderEndRead
    <3> QED BY <3>1
  <2>4. CASE k # h - 1
    <3>1. k \in 1..(h - 2)
      BY <1>2, <2>4
    <3>2. /\ HeaderLine(v) \in Works /\ HeaderLine(v).code = 0 /\ HeaderLine(v).more /\ At(HeaderLine(v), k + 1)
          /\ Size(HeaderLine(v).buf) + 1 <= Size(v.buf)
      BY <1>4, <2>1, <2>2, <3>1, FieldRead
    <3>3. k + 1 \in 1..(h - 1)
      BY <1>2, <3>1
    <3> HIDE DEF At
    <3> QED BY <3>2, <3>3
  <2> QED BY <2>3, <2>4
<1> HIDE DEF Before, After, N
<1>5. Begun(w) \in S
  BY <1>1, <1>3
<1>6. PICK f \in [0..(N + 1) -> S] :
           /\ f[0] = Begun(w)
           /\ \A i \in 1..(N + 1) :
                f[i] = IF f[i - 1].more THEN HeaderLine(f[i - 1]) ELSE f[i - 1]
           /\ Repeat(HeaderLine, w) = f[N + 1]
  <2> HIDE DEF S
  <2>1. Size(w.buf) \in Nat
    BY <1>1 DEF N
  <2> QED BY <1>4, <1>5, <2>1, HeaderLoop DEF N
<1>7. \A i \in 0..(N + 1) : f[i] \in S /\ Size(f[i].buf) \in Nat
  <2>1. \A i \in 0..(N + 1) : f[i] \in S
    BY <1>6
  <2> QED BY <2>1, BegunType
<1>8. Shrinks(N + 1, f)
  <2>1. ASSUME NEW i \in 1..(N + 1), f[i].more
        PROVE  f[i - 1].more /\ Size(f[i].buf) + 1 <= Size(f[i - 1].buf)
    <3>1. i - 1 \in 0..(N + 1)
      BY <1>1
    <3>2. f[i - 1] \in S /\ f[i] = IF f[i - 1].more THEN HeaderLine(f[i - 1]) ELSE f[i - 1]
      BY <1>6, <1>7, <3>1
    <3> HIDE DEF S
    <3> QED BY <1>4, <2>1, <3>2
  <2> QED BY <2>1 DEF Shrinks
<1>9. Size(f[0].buf) = N
  BY <1>1, <1>6 DEF N
<1>10. ~f[N + 1].more
  <2> HIDE DEF S
  <2> QED BY <1>1, <1>7, <1>8, <1>9, LoopEnds
<1>11. f[N + 1] \in S
  BY <1>1, <1>7
<1>12. After(f[N + 1]) /\ f[N + 1] \in Works /\ f[N + 1].code = 0
  BY <1>10, <1>11 DEF Before
<1> QED BY <1>6, <1>12 DEF After

LEMMA ParseHeaderRead ==
  ASSUME NEW m, NEW fields, NEW chunks, NEW ls, NEW at, NEW g,
         Plan(m, fields, chunks, ls, at, g),
         NEW q, at[Ends(fields)] <= q, NEW w \in Works, w.code = 0,
         Reading(w.buf, m, ls, at, 0, q), w.req = EmptyRequest
  PROVE  LET v == ParseHeader(w)
         IN  /\ v \in Works /\ v.code = 0
             /\ Blank(v.req) /\ v.req.header /\ HasHeader(v.req, m)
             /\ Reading(v.buf, m, ls, at, Ends(fields), q)
             /\ q = at[Ends(fields)] => v.buf.empty = 0
<1> DEFINE h == Ends(fields)  s == Repeat(StartLine, w)  x == Repeat(HeaderLine, s)
<1>1. at[1] <= q
  <2> DEFINE z == m.wire
  <2>1. z \in Seq(Bytes) /\ Layout(z, ls, at) /\ ls \in Seq(Seq(Text))
    BY PlanLines
  <2> HIDE DEF z
  <2>2. 1 \in 0..Len(ls) /\ h \in 0..Len(ls) /\ 1 < h
    <3> DEFINE c == Len(chunks)  n == Len(ls)  f == Len(fields)
    <3>1. h \in Nat /\ c \in Nat /\ h = f + 2 /\ f \in Nat /\ n = h + 2 * c
      BY PlanLines
    <3> HIDE DEF h, c, n, f
    <3>2. 1 \in 0..n /\ h \in 0..n /\ 1 < h
      BY <3>1
    <3> QED BY <3>2 DEF n
  <2> HIDE DEF h
  <2>3. at[1] + 2 <= at[h] /\ at[1] \in Nat /\ at[h] \in Nat
    BY <2>1, <2>2, LayoutTypes, AtGrows
  <2>4. q \in Nat /\ at[h] <= q
    BY DEF Reading, h
  <2> QED BY <2>3, <2>4
<1>2. s \in Works /\ s.code = 0 /\ s.req = [EmptyRequest EXCEPT !.start = m.start] /\ Reading(s.buf, m, ls, at, 1, q)
  BY <1>1, StartRead
<1> HIDE DEF s
<1>3. HeaderPart(s.req, m, fields, 1)
  <2>1. {fields[i] : i \in 1..(1 - 1)} = {}
    OBVIOUS
  <2> QED BY <1>2, <2>1 DEF HeaderPart, Blank, EmptyRequest
<1>4. /\ x \in Works /\ x.code = 0
      /\ Blank(x.req) /\ ~x.req.header /\ HasHeader(x.req, m)
      /\ Reading(x.buf, m, ls, at, h, q)
      /\ q = at[h] => x.buf.empty = 0
  BY <1>2, <1>3, HeaderRead
<1> DEFINE v == [x EXCEPT !.req.header = x.code = 0]
           r == [x.req EXCEPT !.header = x.code = 0]
<1>5. ParseHeader(w) = v
  BY DEF ParseHeader, s
<1> HIDE DEF x, h
<1>6. /\ r \in Requests /\ r.header /\ r.fields = x.req.fields /\ r.start = x.req.start
      /\ r.chunked = x.req.chunked /\ (Blank(x.req) => Blank(r))
  <2>1. x.req \in Requests
    BY <1>4, WorkFields
  <2> QED BY <1>4, <2>1 DEF Requests, Blank
<1>7. v = [x EXCEPT !.req = r]
  OBVIOUS
<1> HIDE DEF r, v
<1>8. v \in Works /\ v.buf = x.buf /\ v.req = r /\ v.code = x.code
  <2>1. v \in Works
    BY <1>4, <1>6, <1>7, WithRequest
  <2> QED BY <1>4, <1>7, <2>1 DEF Works
<1>9. HasHeader(r, m)
  BY <1>4, <1>6 DEF HasHeader
<1> QED BY <1>4, <1>5, <1>6, <1>8, <1>9 DEF h

-----------------------------------------------------------------------------
(***************************************************************************)
(* Its body: j chunks are read, or j chunks and the size of the next.      *)
(***************************************************************************)
ChunkLine(fields, j) == Ends(fields) + 2 * j
DataLine(fields, j)  == Ends(fields) + 2 * j + 1

InBody(r, m, g, j) ==
  /\ HasHeader(r, m) /\ r.header /\ r.chunked /\ r.resolved /\ ~r.done
  /\ r.body = g[j] /\ r.bodyLen = Len(g[j])

AtChunk(r, m, g, j)        == InBody(r, m, g, j) /\ ~r.sizeKnown
AtData(r, m, chunks, g, j) == InBody(r, m, g, j) /\ r.sizeKnown /\ r.size = ChunkSizes[chunks[j + 1].size]

Complete(r, m) == HasHeader(r, m) /\ r.header /\ r.done /\ r.body = m.body

LEMMA BodyLines ==
  ASSUME NEW m, NEW fields, NEW chunks, NEW ls, NEW at, NEW g,
         Plan(m, fields, chunks, ls, at, g), NEW j \in 0..(Len(chunks) - 1)
  PROVE  /\ j \in Nat /\ j + 1 \in 1..Len(chunks) /\ (j + 1) - 1 = j /\ j \in 0..Len(chunks)
         /\ j + 1 \in 0..Len(chunks) /\ Len(chunks) \in Nat
         /\ ChunkLine(fields, j) < Len(ls) /\ DataLine(fields, j) < Len(ls)
         /\ ChunkLine(fields, j) + 1 = DataLine(fields, j)
         /\ DataLine(fields, j) + 1 = ChunkLine(fields, j + 1)
         /\ ChunkLine(fields, Len(chunks)) = Len(ls)
         /\ ls[DataLine(fields, j)] = <<chunks[j + 1].size>>
         /\ ls[ChunkLine(fields, j + 1)] = chunks[j + 1].data
<1> DEFINE h == Ends(fields)  c == Len(chunks)  n == Len(ls)  i == j + 1
<1>1. h \in Nat /\ c \in Nat /\ n = h + 2 * c
  BY PlanLines
<1>2. \A k \in 1..c : ls[h + 2 * k - 1] = <<chunks[k].size>> /\ ls[h + 2 * k] = chunks[k].data
  <2>1. ASSUME NEW k \in 1..Len(chunks)
        PROVE  /\ ls[Ends(fields) + 2 * k - 1] = <<chunks[k].size>>
               /\ ls[Ends(fields) + 2 * k] = chunks[k].data
    BY ChunkLines
  <2> QED BY <2>1
<1>3. j \in 0..(c - 1)
  OBVIOUS
<1> HIDE DEF h, c, n
<1>4. j \in Nat /\ i \in 1..c /\ i - 1 = j /\ j \in 0..c /\ i \in 0..c
  BY <1>1, <1>3
<1>5. ls[h + 2 * i - 1] = <<chunks[i].size>> /\ ls[h + 2 * i] = chunks[i].data
  BY <1>2, <1>4
<1>6. ChunkLine(fields, j) = h + 2 * j /\ DataLine(fields, j) = h + 2 * j + 1
      /\ ChunkLine(fields, i) = h + 2 * i /\ ChunkLine(fields, c) = h + 2 * c
  BY DEF ChunkLine, DataLine, h
<1> HIDE DEF i
<1>7. /\ h + 2 * j < n /\ h + 2 * j + 1 < n /\ (h + 2 * j) + 1 = h + 2 * j + 1
      /\ (h + 2 * j + 1) + 1 = h + 2 * i /\ h + 2 * c = n
      /\ h + 2 * j + 1 = h + 2 * i - 1
  <2>1. i = j + 1
    BY DEF i
  <2> QED BY <1>1, <1>4, <2>1
<1>8. /\ ChunkLine(fields, j) < n /\ DataLine(fields, j) < n
      /\ ChunkLine(fields, j) + 1 = DataLine(fields, j)
      /\ DataLine(fields, j) + 1 = ChunkLine(fields, i)
      /\ ChunkLine(fields, c) = n
  BY <1>6, <1>7
<1>9. ls[DataLine(fields, j)] = <<chunks[i].size>> /\ ls[ChunkLine(fields, i)] = chunks[i].data
  BY <1>5, <1>6, <1>7
<1> QED BY <1>1, <1>4, <1>8, <1>9 DEF i, c, n

\* What PlanLines and AtGrows say of two lines.
LEMMA AtNext ==
  ASSUME NEW m, NEW fields, NEW chunks, NEW ls, NEW at, NEW g,
         Plan(m, fields, chunks, ls, at, g), NEW k \in 0..Len(ls), k < Len(ls)
  PROVE  at[k] + 2 <= at[k + 1] /\ at[k] \in Nat /\ at[k + 1] \in Nat /\ at[k + 1] <= Len(m.wire)
         /\ at[Len(ls)] = Len(m.wire) /\ Len(m.wire) \in Nat
<1> DEFINE z == m.wire  n == Len(ls)
<1>1. z \in Seq(Bytes) /\ Layout(z, ls, at) /\ ls \in Seq(Seq(Text))
  BY PlanLines
<1> HIDE DEF z
<1>2. n \in Nat /\ Len(z) \in Nat /\ at[n] = Len(z) /\ \A i \in 0..n : at[i] \in Nat
  BY <1>1, LayoutTypes
<1>3. \A i, j \in 0..n : i < j => at[i] + 2 <= at[j]
  BY <1>1, AtGrows
<1>4. \A i \in 1..n : at[i] <= Len(z)
  BY <1>1, LayoutTypes
<1> HIDE DEF n
<1>5. k \in 0..n /\ k < n
  BY DEF n
<1>6. k + 1 \in 0..n /\ k + 1 \in 1..n /\ k < k + 1
  BY <1>2, <1>5
<1> QED BY <1>2, <1>3, <1>4, <1>5, <1>6 DEF z, n

\* The size of a chunk.
LEMMA SizeRead ==
  ASSUME NEW m, NEW fields, NEW chunks, NEW ls, NEW at, NEW g,
         Plan(m, fields, chunks, ls, at, g), NEW j \in 0..(Len(chunks) - 1),
         NEW q, NEW w \in Works, w.code = 0, w.more, at[DataLine(fields, j)] <= q,
         Reading(w.buf, m, ls, at, ChunkLine(fields, j), q), AtChunk(w.req, m, g, j)
  PROVE  LET v == ChunkRound(w)
         IN  /\ v \in Works /\ v.more /\ v.code = 0
             /\ AtData(v.req, m, chunks, g, j)
             /\ Reading(v.buf, m, ls, at, DataLine(fields, j), q)
             /\ Size(v.buf) + 1 <= Size(w.buf)
<1> DEFINE k == ChunkLine(fields, j)  e == DataLine(fields, j)
           v == TakeLine(w)  x == chunks[j + 1].size  y == ChunkSizes[x]
           r == [v.req EXCEPT !.size = y, !.sizeKnown = TRUE]
           u == [v EXCEPT !.req.size = y, !.req.sizeKnown = TRUE]
<1>1. k < Len(ls) /\ k + 1 = e /\ ls[e] = <<x>> /\ j + 1 \in 1..Len(chunks)
  <2>1. k < Len(ls) /\ k + 1 = e
    BY BodyLines
  <2>2. ls[e] = <<x>>
    BY BodyLines
  <2>3. j + 1 \in 1..Len(chunks)
    BY BodyLines
  <2> QED BY <2>1, <2>2, <2>3
<1>2. x \in DOMAIN ChunkSizes /\ x \in Text
  <2>1. chunks \in Seq(Chunks)
    BY DEF Plan, Known
  <2> DEFINE i == j + 1
  <2>2. i \in 1..Len(chunks)
    BY <1>1
  <2> HIDE DEF i
  <2>3. chunks[i].size \in DOMAIN ChunkSizes
    BY <2>1, <2>2, ChunkType
  <2> QED BY <2>3, TextTokens DEF i
<1>3. Reading(w.buf, m, ls, at, k, q) /\ k \in 0..Len(ls) /\ q \in Nat
  BY DEF Reading
<1> HIDE DEF k, e, x
<1>4. HasLine(w.buf) /\ Line(w.buf) = <<x>> /\ Reading(AfterLine(w.buf), m, ls, at, e, q)
  <2>1. at[k + 1] <= q
    BY <1>1 DEF e
  <2>2. HasLine(w.buf) /\ Line(w.buf) = ls[k + 1] /\ Reading(AfterLine(w.buf), m, ls, at, k + 1, q)
    BY <1>1, <1>3, <2>1, TakesLine
  <2> QED BY <1>1, <2>2
<1>5. v \in Works /\ v.buf = AfterLine(w.buf) /\ v.req = w.req /\ v.code = 0 /\ v.more /\ v.req \in Requests
  BY <1>4, TakeLineType, WorkFields
<1>6. <<x>> # <<>> /\ <<x>>[1] = x
  BY <1>2, OneToken
<1>7. ChunkRound(w) = u
  <2> DEFINE sizes == {<<f>> : f \in DOMAIN ChunkSizes}  line == Line(w.buf)
  <2>1. line \in sizes /\ line # <<>> /\ line[1] = x
    BY <1>2, <1>4, <1>6
  <2>2. HasLine(w.buf) /\ u = [v EXCEPT !.req.size = ChunkSizes[line[1]], !.req.sizeKnown = TRUE]
    BY <1>4, <2>1
  <2>3. ~w.req.sizeKnown
    BY DEF AtChunk
  <2> HIDE DEF sizes, line, u, v
  <2>4. ChunkSize(w) = [v EXCEPT !.req.size = ChunkSizes[line[1]], !.req.sizeKnown = TRUE]
    BY <2>1, <2>2 DEF ChunkSize, sizes, line, v
  <2>5. ChunkRound(w) = ChunkSize(w)
    BY <2>2, <2>3 DEF ChunkRound
  <2> QED BY <2>2, <2>4, <2>5
<1>8. y \in Nat
  BY <1>2, Tables
<1> HIDE DEF v, y
<1>9. r \in Requests /\ (AtChunk(v.req, m, g, j) => AtData(r, m, chunks, g, j))
  <2>1. r \in Requests
    BY <1>5, <1>8 DEF Requests
  <2>2. /\ r.start = v.req.start /\ r.fields = v.req.fields /\ r.chunked = v.req.chunked /\ r.header = v.req.header
        /\ r.resolved = v.req.resolved /\ r.done = v.req.done /\ r.sizeKnown = TRUE /\ r.size = y
        /\ r.body = v.req.body /\ r.bodyLen = v.req.bodyLen
    BY <1>5 DEF Requests
  <2> HIDE DEF r
  <2> QED BY <2>1, <2>2 DEF AtChunk, AtData, InBody, HasHeader, y, x
<1>10. u = [v EXCEPT !.req = r]
  BY <1>5 DEF Works
<1> HIDE DEF r, u
<1>11. u \in Works /\ u.buf = v.buf /\ u.req = r /\ u.code = v.code /\ u.more = v.more
  <2>1. u \in Works
    BY <1>5, <1>9, <1>10, WithRequest
  <2> QED BY <1>5, <1>10, <2>1 DEF Works
<1>12. Size(u.buf) + 1 <= Size(w.buf)
  <2>1. Size(w.buf) = q - at[k]
    BY <1>3, ReadingSize
  <2>2. Size(u.buf) = q - at[e]
    BY <1>4, <1>5, <1>11, ReadingSize
  <2>3. at[k] + 2 <= at[e] /\ at[k] \in Nat /\ at[e] \in Nat
    BY <1>1, <1>3, AtNext
  <2> QED BY <1>3, <2>1, <2>2, <2>3
<1> QED BY <1>4, <1>5, <1>7, <1>9, <1>11, <1>12 DEF e

\* The facts about chunk j + 1 that its lines are read with.
ChunkIs(m, chunks, g, i, j, data, size) ==
  /\ data \in Seq(Text) /\ Len(data) = size /\ size \in Nat
  /\ size = 0 <=> i = Len(chunks)
  /\ g[i] = g[j] \o data /\ Len(g[i]) = Len(g[j]) + size
  /\ Len(g[i]) <= MaxBody /\ g[j] \in Seq(Bytes) /\ Len(g[j]) \in Nat
  /\ g[Len(chunks)] = m.body

LEMMA ChunkFacts ==
  ASSUME NEW m, NEW fields, NEW chunks, NEW ls, NEW at, NEW g,
         Plan(m, fields, chunks, ls, at, g), NEW i \in 1..Len(chunks), NEW j, j = i - 1,
         NEW data, data = chunks[i].data, NEW size, size = ChunkSizes[chunks[i].size]
  PROVE  ChunkIs(m, chunks, g, i, j, data, size)
<1> DEFINE x == chunks[i]  c == Len(chunks)
<1>1. i \in 1..c /\ i - 1 = j /\ j \in 0..c /\ i \in 0..c
  <2>1. c \in Nat
    BY PlanLines
  <2> HIDE DEF c
  <2>2. i \in 1..c
    BY DEF c
  <2> QED BY <2>1, <2>2
<1>2. chunks \in Seq(Chunks) /\ Parts(m, chunks, g) /\ WellFormed(m, fields, chunks)
  BY DEF Plan, Known
<1>3. x.data \in Seq(Text) /\ x.size \in DOMAIN ChunkSizes
  BY <1>1, <1>2, ChunkType, SMTT(40)
<1>4. Len(x.data) = ChunkSizes[x.size] /\ (ChunkSizes[x.size] = 0 <=> i = c)
  <2>1. DOMAIN chunks = 1..c
    BY <1>2, LenProperties
  <2> QED BY <1>1, <1>2, <2>1 DEF WellFormed
<1>5. ChunkSizes[x.size] \in Nat
  BY <1>3, Tables
<1>6. /\ g[i] = g[j] \o x.data /\ Len(g[i]) = Len(g[j]) + Len(x.data) /\ Len(g[i]) <= MaxBody
      /\ g[j] \in Seq(Bytes) /\ g[c] = m.body
  BY <1>1, <1>2 DEF Parts
<1>7. Len(g[j]) \in Nat
  BY <1>6, LenProperties
<1> HIDE DEF x, c
<1> QED BY <1>3, <1>4, <1>5, <1>6, <1>7 DEF x, c, ChunkIs

\* The data of a chunk that is not the last.
LEMMA DataRead ==
  ASSUME NEW m, NEW fields, NEW chunks, NEW ls, NEW at, NEW g,
         Plan(m, fields, chunks, ls, at, g), NEW j \in 0..(Len(chunks) - 1), j + 1 # Len(chunks),
         NEW q, NEW w \in Works, w.code = 0, w.more, at[ChunkLine(fields, j + 1)] <= q,
         Reading(w.buf, m, ls, at, DataLine(fields, j), q), AtData(w.req, m, chunks, g, j)
  PROVE  LET v == ChunkRound(w)
         IN  /\ v \in Works /\ v.more /\ v.code = 0
             /\ AtChunk(v.req, m, g, j + 1)
             /\ Reading(v.buf, m, ls, at, ChunkLine(fields, j + 1), q)
             /\ Size(v.buf) + 1 <= Size(w.buf)
<1> DEFINE k == DataLine(fields, j)  e == ChunkLine(fields, j + 1)
           v == TakeLine(w)  x == chunks[j + 1].data  y == ChunkSizes[chunks[j + 1].size]
           z == Line(w.buf)
           body == v.req.body \o z
           len == v.req.bodyLen + Len(z)
           r == [v.req EXCEPT !.body = body, !.bodyLen = len, !.size = 0, !.sizeKnown = FALSE]
           u == [v EXCEPT !.req.body = @ \o z, !.req.bodyLen = @ + Len(z), !.req.size = 0, !.req.sizeKnown = FALSE]
<1>1. k < Len(ls) /\ k + 1 = e /\ ls[e] = x
  <2>1. k < Len(ls)
    BY BodyLines
  <2>2. k + 1 = e
    BY BodyLines
  <2>3. ls[e] = x
    BY BodyLines
  <2> QED BY <2>1, <2>2, <2>3
<1>2. /\ x \in Seq(Bytes) /\ Len(x) = y /\ y \in Nat /\ y # 0
      /\ g[j + 1] = g[j] \o x /\ Len(g[j + 1]) = Len(g[j]) + y
      /\ Len(g[j + 1]) <= MaxBody /\ g[j] \in Seq(Bytes) /\ Len(g[j]) \in Nat
  <2> DEFINE i == j + 1
  <2>1. i \in 1..Len(chunks) /\ j = i - 1
    BY BodyLines
  <2>2. i # Len(chunks) /\ x = chunks[i].data /\ y = ChunkSizes[chunks[i].size]
    OBVIOUS
  <2> HIDE DEF x, y, i
  <2>3. ChunkIs(m, chunks, g, i, j, x, y)
    BY <2>1, <2>2, ChunkFacts
  <2> QED BY <2>2, <2>3, TextIsBytes DEF i, ChunkIs
<1>3. Reading(w.buf, m, ls, at, k, q) /\ k \in 0..Len(ls) /\ q \in Nat
  BY DEF Reading
<1> HIDE DEF k, e, x, y
<1>4. HasLine(w.buf) /\ Line(w.buf) = x /\ Reading(AfterLine(w.buf), m, ls, at, e, q)
  <2>1. at[k + 1] <= q
    BY <1>1 DEF e
  <2>2. HasLine(w.buf) /\ Line(w.buf) = ls[k + 1] /\ Reading(AfterLine(w.buf), m, ls, at, k + 1, q)
    BY <1>1, <1>3, <2>1, TakesLine
  <2> QED BY <1>1, <2>2
<1>5. v \in Works /\ v.buf = AfterLine(w.buf) /\ v.req = w.req /\ v.code = 0 /\ v.more /\ v.req \in Requests
  BY <1>4, TakeLineType, WorkFields
<1>6. w.req.sizeKnown /\ w.req.size = y /\ w.req.body = g[j] /\ w.req.bodyLen = Len(g[j])
  BY DEF AtData, InBody, y
<1>7. ChunkRound(w) = u
  <2>1. ~(w.req.bodyLen + w.req.size > MaxBody) /\ w.req.size # 0
    <3> DEFINE a == Len(g[j])  b == Len(g[j + 1])  t == MaxBody
    <3>1. a \in Nat /\ y \in Nat /\ b = a + y /\ b <= t /\ t \in Nat /\ w.req.bodyLen = a /\ w.req.size = y
      BY <1>2, <1>6, ParserAssumption
    <3> HIDE DEF a, b, t
    <3>2. ~(w.req.bodyLen + w.req.size > t)
      BY <3>1
    <3> QED BY <1>2, <1>6, <3>2 DEF t
  <2> HIDE DEF u, v, z
  <2>2. ChunkData(w) = u
    BY <2>1 DEF ChunkData, u, v, z
  <2>3. ChunkRound(w) = ChunkData(w)
    BY <1>4, <1>6 DEF ChunkRound
  <2> QED BY <2>2, <2>3
<1>8. body = g[j + 1] /\ len = Len(g[j + 1]) /\ body \in Seq(Bytes) /\ len \in Nat
  <2>1. body = g[j] \o x /\ len = Len(g[j]) + Len(x)
    BY <1>4, <1>5, <1>6
  <2>2. g[j] \o x \in Seq(Bytes)
    BY <1>2, ConcatProperties
  <2> QED BY <1>2, <2>1, <2>2
<1> HIDE DEF v, z
<1>9. u = [v EXCEPT !.req = r]
  BY <1>5 DEF Works
<1> HIDE DEF body, len, u
<1>10. r \in Requests
  BY <1>5, <1>8 DEF Requests
<1>11. AtChunk(r, m, g, j + 1)
  <2>1. /\ r.start = v.req.start /\ r.fields = v.req.fields /\ r.chunked = v.req.chunked /\ r.header = v.req.header
        /\ r.resolved = v.req.resolved /\ r.done = v.req.done /\ r.sizeKnown = FALSE
        /\ r.body = body /\ r.bodyLen = len
    BY <1>5 DEF Requests
  <2> HIDE DEF r
  <2> QED BY <1>5, <1>8, <2>1 DEF AtChunk, AtData, InBody, HasHeader
<1> HIDE DEF r
<1>12. u \in Works /\ u.buf = v.buf /\ u.req = r /\ u.code = v.code /\ u.more = v.more
  <2>1. u \in Works
    BY <1>5, <1>9, <1>10, WithRequest
  <2> QED BY <1>5, <1>9, <2>1 DEF Works
<1>13. Size(u.buf) + 1 <= Size(w.buf)
  <2>1. Size(w.buf) = q - at[k]
    BY <1>3, ReadingSize
  <2>2. Size(u.buf) = q - at[e]
    BY <1>4, <1>5, <1>12, ReadingSize
  <2>3. at[k] + 2 <= at[e] /\ at[k] \in Nat /\ at[e] \in Nat
    BY <1>1, <1>3, AtNext
  <2> QED BY <1>3, <2>1, <2>2, <2>3
<1> QED BY <1>4, <1>5, <1>7, <1>11, <1>12, <1>13 DEF e

\* The empty line of the last chunk.
LEMMA LastRead ==
  ASSUME NEW m, NEW fields, NEW chunks, NEW ls, NEW at, NEW g,
         Plan(m, fields, chunks, ls, at, g), NEW j \in 0..(Len(chunks) - 1), j + 1 = Len(chunks),
         NEW q, NEW w \in Works, w.code = 0, w.more, at[ChunkLine(fields, j + 1)] <= q,
         Reading(w.buf, m, ls, at, DataLine(fields, j), q), AtData(w.req, m, chunks, g, j)
  PROVE  LET v == ChunkRound(w)
         IN  /\ v \in Works /\ ~v.more /\ v.code = 0
             /\ Complete(v.req, m) /\ q = Len(m.wire)
             /\ Reading(v.buf, m, ls, at, Len(ls), q) /\ v.buf.empty = 0
<1> DEFINE k == DataLine(fields, j)  e == ChunkLine(fields, j + 1)
           v == TakeLine(w)  x == chunks[j + 1].data  y == ChunkSizes[chunks[j + 1].size]
           r == [v.req EXCEPT !.done = TRUE]
           u == [v EXCEPT !.req.done = TRUE]
<1>1. k < Len(ls) /\ k + 1 = e /\ ls[e] = x /\ e = Len(ls)
  <2>1. k < Len(ls)
    BY BodyLines
  <2>2. k + 1 = e
    BY BodyLines
  <2>3. ls[e] = x
    BY BodyLines
  <2>4. e = Len(ls)
    BY BodyLines
  <2> QED BY <2>1, <2>2, <2>3, <2>4
<1>2. /\ x \in Seq(Text) /\ Len(x) = y /\ y = 0
      /\ g[j + 1] = g[j] \o x /\ Len(g[j + 1]) = Len(g[j]) + y
      /\ Len(g[j + 1]) <= MaxBody /\ g[j] \in Seq(Bytes) /\ Len(g[j]) \in Nat /\ g[j + 1] = m.body
  <2> DEFINE i == j + 1
  <2>1. i \in 1..Len(chunks) /\ j = i - 1
    BY BodyLines
  <2>2. i = Len(chunks) /\ x = chunks[i].data /\ y = ChunkSizes[chunks[i].size]
    OBVIOUS
  <2> HIDE DEF x, y, i
  <2>3. ChunkIs(m, chunks, g, i, j, x, y)
    BY <2>1, <2>2, ChunkFacts
  <2> QED BY <2>2, <2>3 DEF i, ChunkIs
<1>3. Reading(w.buf, m, ls, at, k, q) /\ k \in 0..Len(ls) /\ q \in Nat /\ q <= Len(m.wire)
  BY DEF Reading
<1> HIDE DEF k, e, x, y
<1>4. x = <<>> /\ g[j] = m.body
  <2>1. x = <<>>
    BY <1>2, EmptySeq
  <2>2. g[j] \o <<>> = g[j]
    <3> DEFINE B == Bytes  a == g[j]
    <3>1. a \in Seq(B)
      BY <1>2
    <3> HIDE DEF B, a
    <3>2. a \o <<>> = a
      BY <3>1, ConcatEmptySeq
    <3> QED BY <3>2 DEF a
  <2> QED BY <1>2, <2>1, <2>2
<1>5. q = Len(m.wire) /\ q = at[e]
  <2>1. at[k + 1] <= Len(m.wire) /\ at[Len(ls)] = Len(m.wire) /\ Len(m.wire) \in Nat
    BY <1>1, <1>3, AtNext
  <2>2. at[e] <= q
    BY DEF e
  <2> QED BY <1>1, <1>3, <2>1, <2>2
<1>6. /\ HasLine(w.buf) /\ Line(w.buf) = <<>> /\ Reading(AfterLine(w.buf), m, ls, at, e, q)
      /\ AfterLine(w.buf).empty = 0
  <2>1. at[k + 1] <= q /\ q = at[k + 1]
    BY <1>1, <1>3, <1>5
  <2>2. at[k + 1] <= q
    BY <2>1
  <2>3. Reading(w.buf, m, ls, at, k, q) /\ k < Len(ls)
    BY <1>1, <1>3
  <2>4. HasLine(w.buf) /\ Line(w.buf) = ls[k + 1] /\ Reading(AfterLine(w.buf), m, ls, at, k + 1, q)
        /\ (q = at[k + 1] => AfterLine(w.buf).empty = 0)
    BY <2>2, <2>3, TakesLine, SMTT(40)
  <2> QED BY <1>1, <1>4, <2>1, <2>4
<1>7. v \in Works /\ v.buf = AfterLine(w.buf) /\ v.req = w.req /\ v.code = 0 /\ v.req \in Requests
  BY <1>6, TakeLineType, WorkFields
<1>8. w.req.sizeKnown /\ w.req.size = 0 /\ w.req.body = g[j] /\ w.req.bodyLen = Len(g[j])
  BY <1>2 DEF AtData, InBody, y
<1>9. ChunkRound(w) = Stop(u)
  <2>1. w.req.bodyLen + w.req.size <= MaxBody /\ ~(w.req.bodyLen + w.req.size > MaxBody)
    <3> DEFINE a == Len(g[j])  b == Len(g[j + 1])  t == MaxBody
    <3>1. a \in Nat /\ b = a + 0 /\ b <= t /\ t \in Nat /\ w.req.bodyLen = a /\ w.req.size = 0
      BY <1>2, <1>8, ParserAssumption
    <3> HIDE DEF a, b, t
    <3>2. w.req.bodyLen + w.req.size <= t /\ ~(w.req.bodyLen + w.req.size > t)
      BY <3>1
    <3> QED BY <3>2 DEF t
  <2> HIDE DEF u, v
  <2>2. ChunkData(w) = Stop(u)
    BY <1>6, <1>8, <2>1 DEF ChunkData, u, v
  <2>3. ChunkRound(w) = ChunkData(w)
    BY <1>6, <1>8 DEF ChunkRound
  <2> QED BY <2>2, <2>3
<1> HIDE DEF v
<1>10. u = [v EXCEPT !.req = r]
  OBVIOUS
<1>11. r \in Requests
  BY <1>7 DEF Requests
<1>12. Complete(r, m)
  <2>1. /\ r.start = v.req.start /\ r.fields = v.req.fields /\ r.chunked = v.req.chunked /\ r.header = v.req.header
        /\ r.done = TRUE /\ r.body = v.req.body
    BY <1>7 DEF Requests
  <2> HIDE DEF r
  <2> QED BY <1>4, <1>7, <2>1 DEF Complete, AtData, InBody, HasHeader
<1> HIDE DEF r, u
<1>13. u \in Works /\ u.buf = v.buf /\ u.req = r /\ u.code = v.code
  <2>1. u \in Works
    BY <1>7, <1>10, <1>11, WithRequest
  <2> QED BY <1>7, <1>10, <2>1 DEF Works
<1>14. /\ Stop(u) \in Works /\ Stop(u).buf = u.buf /\ Stop(u).req = u.req
       /\ Stop(u).code = u.code /\ Stop(u).more = FALSE
  BY <1>13, StopType
<1> QED BY <1>1, <1>5, <1>6, <1>7, <1>9, <1>12, <1>13, <1>14

\* A body with a line to come, one whose next line is not there, and a
\* complete request.
OnChunk(r, b, m, fields, ls, at, g, q, j) ==
  AtChunk(r, m, g, j) /\ Reading(b, m, ls, at, ChunkLine(fields, j), q)
OnData(r, b, m, fields, chunks, ls, at, g, q, j) ==
  AtData(r, m, chunks, g, j) /\ Reading(b, m, ls, at, DataLine(fields, j), q)

Under(r, b, m, fields, chunks, ls, at, g, q) ==
  \E j \in 0..(Len(chunks) - 1) :
    \/ OnChunk(r, b, m, fields, ls, at, g, q, j)
    \/ OnData(r, b, m, fields, chunks, ls, at, g, q, j)

Waits(r, b, m, fields, chunks, ls, at, g, q) ==
  \E j \in 0..(Len(chunks) - 1) :
    \/ OnChunk(r, b, m, fields, ls, at, g, q, j) /\ q < at[DataLine(fields, j)]
    \/ OnData(r, b, m, fields, chunks, ls, at, g, q, j) /\ q < at[ChunkLine(fields, j + 1)]

Over(r, b, m, ls, at, q) ==
  Complete(r, m) /\ q = Len(m.wire) /\ Reading(b, m, ls, at, Len(ls), q) /\ b.empty = 0

LEMMA ChunkRoundRead ==
  ASSUME NEW m, NEW fields, NEW chunks, NEW ls, NEW at, NEW g,
         Plan(m, fields, chunks, ls, at, g),
         NEW q, NEW w \in Works, w.code = 0, w.more,
         Under(w.req, w.buf, m, fields, chunks, ls, at, g, q)
  PROVE  LET v == ChunkRound(w)
         IN  /\ v \in Works /\ v.code = 0
             /\ IF v.more THEN /\ Under(v.req, v.buf, m, fields, chunks, ls, at, g, q)
                               /\ Size(v.buf) + 1 <= Size(w.buf)
                ELSE \/ Waits(v.req, v.buf, m, fields, chunks, ls, at, g, q)
                     \/ Over(v.req, v.buf, m, ls, at, q)
<1> DEFINE v == ChunkRound(w)  c == Len(chunks)
<1>1. PICK j \in 0..(c - 1) :
        \/ OnChunk(w.req, w.buf, m, fields, ls, at, g, q, j)
        \/ OnData(w.req, w.buf, m, fields, chunks, ls, at, g, q, j)
  BY DEF Under
<1>2. c \in Nat
  BY PlanLines
<1>3. ASSUME ~HasLine(w.buf)
      PROVE  v \in Works /\ v.code = 0 /\ ~v.more /\ v.req = w.req /\ v.buf = w.buf
  <2>1. v = Stop(w)
    BY <1>3 DEF ChunkRound
  <2> QED BY <2>1, StopType
<1>4. CASE OnChunk(w.req, w.buf, m, fields, ls, at, g, q, j)
  <2> DEFINE k == ChunkLine(fields, j)  e == DataLine(fields, j)
  <2>1. AtChunk(w.req, m, g, j) /\ Reading(w.buf, m, ls, at, k, q) /\ q \in Nat
    BY <1>4 DEF OnChunk, Reading
  <2>2. k < Len(ls) /\ k + 1 = e
    BY BodyLines
  <2> HIDE DEF k, e
  <2>3. at[e] \in Nat /\ (q < at[e] => ~HasLine(w.buf))
    BY <2>1, <2>2, TakesLine
  <2>4. CASE q < at[e]
    <3>1. v \in Works /\ v.code = 0 /\ ~v.more /\ v.req = w.req /\ v.buf = w.buf
      BY <1>3, <2>3, <2>4
    <3>2. Waits(w.req, w.buf, m, fields, chunks, ls, at, g, q)
      BY <1>4, <2>4 DEF Waits, e
    <3> HIDE DEF v
    <3> QED BY <3>1, <3>2 DEF v
  <2>5. CASE ~(q < at[e])
    <3>1. at[e] <= q
      BY <2>1, <2>3, <2>5
    <3>2. /\ v \in Works /\ v.more /\ v.code = 0
          /\ AtData(v.req, m, chunks, g, j)
          /\ Reading(v.buf, m, ls, at, DataLine(fields, j), q)
          /\ Size(v.buf) + 1 <= Size(w.buf)
      BY <2>1, <3>1, SizeRead DEF k, e
    <3> HIDE DEF v
    <3>3. Under(v.req, v.buf, m, fields, chunks, ls, at, g, q)
      BY <3>2 DEF Under, OnData
    <3> QED BY <3>2, <3>3 DEF v
  <2> QED BY <2>4, <2>5
<1>5. CASE OnData(w.req, w.buf, m, fields, chunks, ls, at, g, q, j)
  <2> DEFINE k == DataLine(fields, j)  e == ChunkLine(fields, j + 1)
  <2>1. AtData(w.req, m, chunks, g, j) /\ Reading(w.buf, m, ls, at, k, q) /\ q \in Nat
    BY <1>5 DEF OnData, Reading
  <2>2. k < Len(ls) /\ k + 1 = e
    BY BodyLines
  <2> HIDE DEF k, e
  <2>3. at[e] \in Nat /\ (q < at[e] => ~HasLine(w.buf))
    BY <2>1, <2>2, TakesLine
  <2>4. CASE q < at[e]
    <3>1. v \in Works /\ v.code = 0 /\ ~v.more /\ v.req = w.req /\ v.buf = w.buf
      BY <1>3, <2>3, <2>4
    <3>2. Waits(w.req, w.buf, m, fields, chunks, ls, at, g, q)
      BY <1>5, <2>4 DEF Waits, e
    <3> HIDE DEF v
    <3> QED BY <3>1, <3>2 DEF v
  <2>5. CASE ~(q < at[e]) /\ j + 1 # c
    <3>1. at[e] <= q
      BY <2>1, <2>3, <2>5
    <3>2. /\ v \in Works /\ v.more /\ v.code = 0
          /\ AtChunk(v.req, m, g, j + 1)
          /\ Reading(v.buf, m, ls, at, ChunkLine(fields, j + 1), q)
          /\ Size(v.buf) + 1 <= Size(w.buf)
      BY <2>1, <2>5, <3>1, DataRead DEF k, e
    <3>3. j + 1 \in 0..(c - 1)
      BY <1>2, <2>5
    <3> HIDE DEF v
    <3>4. Under(v.req, v.buf, m, fields, chunks, ls, at, g, q)
      BY <3>2, <3>3 DEF Under, OnChunk
    <3> QED BY <3>2, <3>4 DEF v
  <2>6. CASE ~(q < at[e]) /\ j + 1 = c
    <3>1. at[e] <= q
      BY <2>1, <2>3, <2>6
    <3>2. /\ v \in Works /\ ~v.more /\ v.code = 0
          /\ Complete(v.req, m) /\ q = Len(m.wire)
          /\ Reading(v.buf, m, ls, at, Len(ls), q) /\ v.buf.empty = 0
      BY <2>1, <2>6, <3>1, LastRead DEF k, e
    <3> HIDE DEF v
    <3>3. Over(v.req, v.buf, m, ls, at, q)
      BY <3>2 DEF Over
    <3> QED BY <3>2, <3>3 DEF v
  <2> QED BY <2>4, <2>5, <2>6
<1> QED BY <1>1, <1>4, <1>5

LEMMA BodyRead ==
  ASSUME NEW m, NEW fields, NEW chunks, NEW ls, NEW at, NEW g,
         Plan(m, fields, chunks, ls, at, g),
         NEW q, NEW w \in Works, w.code = 0,
         Under(w.req, w.buf, m, fields, chunks, ls, at, g, q)
  PROVE  LET v == ChunkedBody(w)
         IN  /\ v \in Works /\ v.code = 0
             /\ \/ Waits(v.req, v.buf, m, fields, chunks, ls, at, g, q)
                \/ Over(v.req, v.buf, m, ls, at, q)
<1> DEFINE N == Size(w.buf)
           Before(v) == Under(v.req, v.buf, m, fields, chunks, ls, at, g, q)
           After(v) == Waits(v.req, v.buf, m, fields, chunks, ls, at, g, q) \/ Over(v.req, v.buf, m, ls, at, q)
           S == {v \in Works : v.code = 0 /\ IF v.more THEN Before(v) ELSE After(v)}
<1>1. N \in Nat /\ Begun(w) \in Works /\ Begun(w).more /\ Begun(w).buf = w.buf /\ Begun(w).req = w.req /\ Begun(w).code = 0
  BY BegunType
<1>2. Before(Begun(w))
  BY <1>1
<1>3. ASSUME NEW v \in S, v.more
      PROVE  /\ ChunkRound(v) \in S
             /\ ChunkRound(v).more => Size(ChunkRound(v).buf) + 1 <= Size(v.buf)
  <2>1. v \in Works /\ v.code = 0 /\ Under(v.req, v.buf, m, fields, chunks, ls, at, g, q)
    BY <1>3
  <2> DEFINE u == ChunkRound(v)
  <2>2. /\ u \in Works /\ u.code = 0
        /\ IF u.more THEN Before(u) /\ Size(u.buf) + 1 <= Size(v.buf) ELSE After(u)
    BY <1>3, <2>1, ChunkRoundRead
  <2> HIDE DEF u, Before, After
  <2>3. u \in S /\ (u.more => Size(u.buf) + 1 <= Size(v.buf))
    BY <2>2
  <2> QED BY <2>3 DEF u
<1> HIDE DEF Before, After, N
<1>4. Begun(w) \in S
  BY <1>1, <1>2
<1>5. PICK f \in [0..(N + 1) -> S] :
           /\ f[0] = Begun(w)
           /\ \A i \in 1..(N + 1) :
                f[i] = IF f[i - 1].more THEN ChunkRound(f[i - 1]) ELSE f[i - 1]
           /\ ChunkedBody(w) = f[N + 1]
  <2> HIDE DEF S
  <2>1. Size(w.buf) \in Nat
    BY <1>1 DEF N
  <2> QED BY <1>3, <1>4, <2>1, ChunkLoop DEF N
<1>6. \A i \in 0..(N + 1) : f[i] \in S /\ Size(f[i].buf) \in Nat
  <2>1. \A i \in 0..(N + 1) : f[i] \in S
    BY <1>5
  <2> QED BY <2>1, BegunType
<1>7. Shrinks(N + 1, f)
  <2>1. ASSUME NEW i \in 1..(N + 1), f[i].more
        PROVE  f[i - 1].more /\ Size(f[i].buf) + 1 <= Size(f[i - 1].buf)
    <3>1. i - 1 \in 0..(N + 1)
      BY <1>1
    <3>2. f[i - 1] \in S /\ f[i] = IF f[i - 1].more THEN ChunkRound(f[i - 1]) ELSE f[i - 1]
      BY <1>5, <1>6, <3>1
    <3> HIDE DEF S
    <3> QED BY <1>3, <2>1, <3>2
  <2> QED BY <2>1 DEF Shrinks
<1>8. Size(f[0].buf) = N
  BY <1>1, <1>5 DEF N
<1>9. ~f[N + 1].more
  <2> HIDE DEF S
  <2> QED BY <1>1, <1>6, <1>7, <1>8, LoopEnds
<1>10. f[N + 1] \in S
  BY <1>1, <1>6
<1>11. After(f[N + 1]) /\ f[N + 1] \in Works /\ f[N + 1].code = 0
  BY <1>9, <1>10
<1> QED BY <1>5, <1>11 DEF After

-----------------------------------------------------------------------------
(***************************************************************************)
(* A whole read.                                                           *)
(***************************************************************************)
Admitted(m) == StartLines[m.start] = 0 /\ 0 \in m.codes

\* The header is read, the body not begun.
Headed(r, m) ==
  /\ r.body = <<>> /\ r.bodyLen = 0 /\ ~r.done /\ ~r.sizeKnown /\ r.header /\ HasHeader(r, m)

LEMMA PlanStart ==
  ASSUME NEW m, NEW fields, NEW chunks, NEW ls, NEW at, NEW g,
         Plan(m, fields, chunks, ls, at, g)
  PROVE  /\ m.start \in DOMAIN StartLines /\ m.start # "none"
         /\ StartLines[m.start] \in Nat /\ StartLines[m.start] \in m.codes
         /\ IF HasNoBody(m) THEN chunks = <<>> /\ Len(chunks) = 0
            ELSE Admitted(m) /\ "Chunked" \in m.fields /\ Len(chunks) \in Nat \ {0}
         /\ ~Admitted(m) => StartLines[m.start] # 0
<1> DEFINE s == m.start
<1>1. /\ s \in DOMAIN StartLines /\ StartLines[s] \in m.codes /\ chunks \in Seq(Chunks)
      /\ IF HasNoBody(m) THEN chunks = <<>> ELSE "Chunked" \in m.fields /\ chunks # <<>>
  BY DEF Plan, Known, WellFormed
<1>2. Len(chunks) \in Nat /\ (chunks = <<>> <=> Len(chunks) = 0)
  BY <1>1, EmptySeq, LenProperties
<1>3. DOMAIN StartLines = {"GET", "POST", "LOST"} /\ StartLines["POST"] = 0
  BY DEF StartLines
<1>4. HasNoBody(m) <=> s \in {"GET", "LOST"}
  BY DEF HasNoBody
<1>5. StartLines[s] \in Nat /\ s # "none"
  BY <1>1, Tables
<1>6. ~HasNoBody(m) => StartLines[s] = 0
  BY <1>1, <1>3, <1>4
<1>7. StartLines[s] = 0 <=> Admitted(m)
  BY <1>1 DEF Admitted
<1> HIDE DEF s
<1> QED BY <1>1, <1>2, <1>5, <1>6, <1>7 DEF s

\* Its address is resolved, or not found.
LEMMA ResolveRead ==
  ASSUME NEW m, NEW fields, NEW chunks, NEW ls, NEW at, NEW g,
         Plan(m, fields, chunks, ls, at, g),
         NEW w \in Works, w.code = 0, ~w.req.resolved, Headed(w.req, m)
  PROVE  LET v == Resolve(w)
         IN  /\ v \in Works
             /\ IF Admitted(m) THEN /\ v.code = 0 /\ v.buf = w.buf
                                    /\ v.req.resolved /\ Headed(v.req, m)
                ELSE v.code # 0 /\ v.code \in m.codes
<1> DEFINE v == [w EXCEPT !.req.resolved = TRUE]
           r == [w.req EXCEPT !.resolved = TRUE]
           c == StartLines[m.start]
<1>1. m.start # "none" /\ c \in Nat /\ c \in m.codes /\ (Admitted(m) <=> c = 0)
  BY PlanStart DEF Admitted
<1>2. w.req.start = m.start
  BY DEF Headed, HasHeader
<1>3. Resolve(w) = IF c = 0 THEN v ELSE Throw(v, c)
  <2>1. CASE c = 0
    BY <1>1, <1>2, <2>1 DEF Resolve
  <2>2. CASE c # 0
    BY <1>1, <1>2, <2>2 DEF Resolve
  <2> QED BY <2>1, <2>2
<1>4. r \in Requests /\ r.resolved /\ Headed(r, m)
  <2>1. w.req \in Requests
    BY WorkFields
  <2>2. r \in Requests /\ r.resolved
    BY <2>1 DEF Requests
  <2>3. /\ r.body = w.req.body /\ r.bodyLen = w.req.bodyLen /\ r.done = w.req.done
        /\ r.sizeKnown = w.req.sizeKnown /\ r.header = w.req.header /\ r.start = w.req.start
        /\ r.fields = w.req.fields /\ r.chunked = w.req.chunked
    BY <2>1 DEF Requests
  <2> HIDE DEF r
  <2> QED BY <2>2, <2>3 DEF Headed, HasHeader
<1>5. v = [w EXCEPT !.req = r]
  OBVIOUS
<1> HIDE DEF r, v, c
<1>6. v \in Works /\ v.buf = w.buf /\ v.req = r /\ v.code = w.code
  <2>1. v \in Works
    BY <1>4, <1>5, WithRequest
  <2> QED BY <1>4, <1>5, <2>1 DEF Works
<1>7. Throw(v, c) \in Works /\ Throw(v, c).code = c
  BY <1>1, <1>6, ThrowType
<1>8. CASE c = 0
  <2>1. Resolve(w) = v /\ Admitted(m)
    BY <1>1, <1>3, <1>8
  <2> QED BY <1>4, <1>6, <2>1
<1>9. CASE c # 0
  <2>1. Resolve(w) = Throw(v, c) /\ ~Admitted(m)
    BY <1>1, <1>3, <1>9
  <2> QED BY <1>1, <1>7, <1>9, <2>1
<1> QED BY <1>8, <1>9

\* A body that waits for its next line stays as it is, and no byte makes none.
LEMMA NothingThere ==
  ASSUME NEW m, NEW fields, NEW chunks, NEW ls, NEW at, NEW g,
         Plan(m, fields, chunks, ls, at, g),
         NEW q, NEW r, NEW b, Size(b) = 0,
         Under(r, b, m, fields, chunks, ls, at, g, q)
  PROVE  Waits(r, b, m, fields, chunks, ls, at, g, q)
<1> DEFINE c == Len(chunks)
<1>1. PICK j \in 0..(c - 1) :
        \/ OnChunk(r, b, m, fields, ls, at, g, q, j)
        \/ OnData(r, b, m, fields, chunks, ls, at, g, q, j)
  BY DEF Under
<1>2. ASSUME NEW k, Reading(b, m, ls, at, k, q), k < Len(ls)
      PROVE  q < at[k + 1]
  <2>1. k \in 0..Len(ls) /\ q \in Nat
    BY <1>2 DEF Reading
  <2>2. at[k] + 2 <= at[k + 1] /\ at[k] \in Nat /\ at[k + 1] \in Nat
    BY <1>2, <2>1, AtNext
  <2>3. Size(b) = q - at[k]
    BY <1>2, ReadingSize
  <2>4. 0 = q - at[k]
    BY <2>3
  <2> QED BY <2>1, <2>2, <2>4
<1>3. /\ ChunkLine(fields, j) < Len(ls) /\ DataLine(fields, j) < Len(ls)
      /\ ChunkLine(fields, j) + 1 = DataLine(fields, j)
      /\ DataLine(fields, j) + 1 = ChunkLine(fields, j + 1)
  BY BodyLines
<1>4. CASE OnChunk(r, b, m, fields, ls, at, g, q, j)
  <2>1. q < at[ChunkLine(fields, j) + 1]
    BY <1>2, <1>3, <1>4 DEF OnChunk
  <2> QED BY <1>3, <1>4, <2>1 DEF Waits
<1>5. CASE OnData(r, b, m, fields, chunks, ls, at, g, q, j)
  <2>1. q < at[DataLine(fields, j) + 1]
    BY <1>2, <1>3, <1>5 DEF OnData
  <2> QED BY <1>3, <1>5, <2>1 DEF Waits
<1> QED BY <1>1, <1>4, <1>5

\* A body of which some is read, or none.
LEMMA MoreBody ==
  ASSUME NEW m, NEW fields, NEW chunks, NEW ls, NEW at, NEW g,
         Plan(m, fields, chunks, ls, at, g),
         NEW q, NEW w \in Works, w.code = 0,
         Under(w.req, w.buf, m, fields, chunks, ls, at, g, q)
  PROVE  LET v == ParseBody(w)
         IN  /\ v \in Works /\ v.code = 0 /\ Admitted(m)
             /\ \/ Waits(v.req, v.buf, m, fields, chunks, ls, at, g, q)
                \/ Over(v.req, v.buf, m, ls, at, q)
<1> DEFINE c == Len(chunks)
<1>1. PICK j \in 0..(c - 1) :
        \/ OnChunk(w.req, w.buf, m, fields, ls, at, g, q, j)
        \/ OnData(w.req, w.buf, m, fields, chunks, ls, at, g, q, j)
  BY DEF Under
<1>2. InBody(w.req, m, g, j)
  BY <1>1 DEF OnChunk, OnData, AtChunk, AtData
<1>3. ~HasNoBody(m) /\ Admitted(m)
  <2>1. IF HasNoBody(m) THEN chunks = <<>> /\ c = 0
        ELSE Admitted(m) /\ "Chunked" \in m.fields /\ c \in Nat \ {0}
    BY PlanStart
  <2>2. c # 0
    <3> HIDE DEF c
    <3> QED BY <1>1
  <2> QED BY <2>1, <2>2
<1>4. ~HasNoBody(w.req) /\ ~w.req.done /\ w.req.chunked
  BY <1>2, <1>3 DEF InBody, HasHeader, HasNoBody
<1>5. ParseBody(w) = IF Size(w.buf) = 0 THEN w ELSE ChunkedBody(w)
  BY <1>4 DEF ParseBody
<1>6. CASE Size(w.buf) = 0
  <2>1. Waits(w.req, w.buf, m, fields, chunks, ls, at, g, q)
    BY <1>6, NothingThere
  <2> QED BY <1>3, <1>5, <1>6, <2>1
<1>7. CASE Size(w.buf) # 0
  <2> DEFINE v == ChunkedBody(w)
  <2>1. /\ v \in Works /\ v.code = 0
        /\ \/ Waits(v.req, v.buf, m, fields, chunks, ls, at, g, q)
           \/ Over(v.req, v.buf, m, ls, at, q)
    BY BodyRead
  <2>2. ParseBody(w) = v
    BY <1>5, <1>7
  <2> HIDE DEF v
  <2> QED BY <1>3, <2>1, <2>2
<1> QED BY <1>6, <1>7

LEMMA BodyBegun ==
  ASSUME NEW m, NEW fields, NEW chunks, NEW ls, NEW at, NEW g,
         Plan(m, fields, chunks, ls, at, g), Admitted(m),
         NEW q, NEW w \in Works, w.code = 0, w.req.resolved, Headed(w.req, m),
         Reading(w.buf, m, ls, at, Ends(fields), q), q = at[Ends(fields)] => w.buf.empty = 0
  PROVE  LET v == ParseBody(w)
         IN  /\ v \in Works /\ v.code = 0
             /\ \/ Waits(v.req, v.buf, m, fields, chunks, ls, at, g, q)
                \/ Over(v.req, v.buf, m, ls, at, q)
<1> DEFINE h == Ends(fields)  c == Len(chunks)
<1>1. /\ h \in Nat /\ c \in Nat /\ Len(ls) = h + 2 * c /\ m.wire \in Seq(Bytes)
      /\ Layout(m.wire, ls, at) /\ ls \in Seq(Seq(Text))
  BY PlanLines
<1>2. g[0] = <<>> /\ g[c] = m.body
  BY DEF Plan, Parts
<1>3. CASE HasNoBody(m)
  <2> DEFINE v == [w EXCEPT !.req.done = TRUE]
             r == [w.req EXCEPT !.done = TRUE]
  <2>1. c = 0 /\ Len(ls) = h
    <3>1. c = 0
      BY <1>3, PlanStart
    <3> HIDE DEF c, h
    <3> QED BY <1>1, <3>1
  <2>2. HasNoBody(w.req) /\ ~w.req.done
    BY <1>3 DEF Headed, HasHeader, HasNoBody
  <2>3. ParseBody(w) = v
    BY <2>2 DEF ParseBody
  <2>4. r \in Requests /\ Complete(r, m)
    <3>1. w.req \in Requests /\ w.req.body = m.body
      BY <1>2, <2>1, WorkFields DEF Headed
    <3>2. r \in Requests /\ r.done
      BY <3>1 DEF Requests
    <3>3. /\ r.body = w.req.body /\ r.header = w.req.header /\ r.start = w.req.start
          /\ r.fields = w.req.fields /\ r.chunked = w.req.chunked
      BY <3>1 DEF Requests
    <3> HIDE DEF r
    <3> QED BY <3>1, <3>2, <3>3 DEF Complete, Headed, HasHeader
  <2>5. v = [w EXCEPT !.req = r]
    OBVIOUS
  <2> HIDE DEF r, v
  <2>6. v \in Works /\ v.buf = w.buf /\ v.req = r /\ v.code = w.code
    <3>1. v \in Works
      BY <2>4, <2>5, WithRequest
    <3> QED BY <2>4, <2>5, <3>1 DEF Works
  <2>7. q = Len(m.wire) /\ q = at[h]
    <3> DEFINE z == Len(m.wire)
    <3>1. at[Len(ls)] = z /\ z \in Nat
      BY <1>1, LayoutTypes
    <3>2. q \in Nat /\ q <= z /\ at[h] <= q
      BY DEF Reading
    <3>3. at[h] = z
      BY <2>1, <3>1
    <3> HIDE DEF z, h
    <3> QED BY <3>1, <3>2, <3>3 DEF z
  <2>8. Over(v.req, v.buf, m, ls, at, q)
    BY <2>1, <2>4, <2>6, <2>7 DEF Over
  <2> QED BY <2>3, <2>6, <2>8
<1>4. CASE ~HasNoBody(m)
  <2>1. "Chunked" \in m.fields /\ c \in Nat \ {0}
    BY <1>4, PlanStart
  <2>2. 0 \in 0..(c - 1)
    <3> HIDE DEF c
    <3> QED BY <2>1
  <2>3. ChunkLine(fields, 0) = h
    <3>1. ChunkLine(fields, 0) = h + 2 * 0
      BY DEF ChunkLine
    <3> HIDE DEF h
    <3> QED BY <1>1, <3>1
  <2>4. AtChunk(w.req, m, g, 0)
    <3>1. w.req.body = g[0] /\ w.req.bodyLen = Len(g[0])
      BY <1>2, EmptySeq DEF Headed
    <3>2. w.req.chunked
      BY <2>1 DEF Headed, HasHeader
    <3> QED BY <3>1, <3>2 DEF AtChunk, InBody, Headed
  <2>5. Under(w.req, w.buf, m, fields, chunks, ls, at, g, q)
    BY <2>2, <2>3, <2>4 DEF Under, OnChunk
  <2> QED BY <2>5, MoreBody
<1> QED BY <1>3, <1>4

\* How far the parser is when q bytes of a request have come: its header is not
\* complete, or the body waits for a line, or all of it is read.
Starts(r, b, m, fields, ls, at, q) ==
  r = EmptyRequest /\ Reading(b, m, ls, at, 0, q) /\ q < at[Ends(fields)] /\ b.empty = 0

Progress(r, b, m, fields, chunks, ls, at, g, q) ==
  \/ Starts(r, b, m, fields, ls, at, q)
  \/ Admitted(m) /\ Waits(r, b, m, fields, chunks, ls, at, g, q)
  \/ Admitted(m) /\ Over(r, b, m, ls, at, q)

LEMMA WholeHeaderRead ==
  ASSUME NEW m, NEW fields, NEW chunks, NEW ls, NEW at, NEW g,
         Plan(m, fields, chunks, ls, at, g),
         NEW q, NEW w \in Works, w.code = 0, at[Ends(fields)] <= q,
         Reading(w.buf, m, ls, at, 0, q), w.req = EmptyRequest
  PROVE  LET v == ParseBody(Resolve(ParseHeader(w)))
         IN  /\ v \in Works
             /\ IF v.code = 0 THEN Progress(v.req, v.buf, m, fields, chunks, ls, at, g, q)
                ELSE v.code \in m.codes
<1> DEFINE h == ParseHeader(w)
           r == Resolve(h)
           v == ParseBody(r)
<1>1. /\ h \in Works /\ h.code = 0
      /\ Blank(h.req) /\ h.req.header /\ HasHeader(h.req, m)
      /\ Reading(h.buf, m, ls, at, Ends(fields), q)
      /\ q = at[Ends(fields)] => h.buf.empty = 0
  BY ParseHeaderRead
<1> HIDE DEF h
<1>2. ~h.req.resolved /\ Headed(h.req, m)
  BY <1>1 DEF Headed, Blank
<1>3. /\ r \in Works
      /\ IF Admitted(m) THEN r.code = 0 /\ r.buf = h.buf /\ r.req.resolved /\ Headed(r.req, m)
         ELSE r.code # 0 /\ r.code \in m.codes
  BY <1>1, <1>2, ResolveRead
<1> HIDE DEF r
<1>4. CASE Admitted(m)
  <2>1. r.code = 0 /\ r.buf = h.buf /\ r.req.resolved /\ Headed(r.req, m)
    BY <1>3, <1>4
  <2>2. Reading(r.buf, m, ls, at, Ends(fields), q) /\ (q = at[Ends(fields)] => r.buf.empty = 0)
    BY <1>1, <2>1
  <2>3. /\ v \in Works /\ v.code = 0
        /\ \/ Waits(v.req, v.buf, m, fields, chunks, ls, at, g, q)
           \/ Over(v.req, v.buf, m, ls, at, q)
    BY <1>3, <1>4, <2>1, <2>2, BodyBegun
  <2> HIDE DEF v
  <2>4. Progress(v.req, v.buf, m, fields, chunks, ls, at, g, q)
    BY <1>4, <2>3 DEF Progress
  <2> QED BY <2>3, <2>4 DEF v, r, h
<1>5. CASE ~Admitted(m)
  <2>1. r.code # 0 /\ r.code \in m.codes
    BY <1>3, <1>5
  <2>2. v = r
    BY <2>1 DEF ParseBody
  <2> HIDE DEF v
  <2> QED BY <1>3, <2>1, <2>2 DEF v, r, h
<1> QED BY <1>4, <1>5

LEMMA ParseRead ==
  ASSUME NEW m, NEW fields, NEW chunks, NEW ls, NEW at, NEW g,
         Plan(m, fields, chunks, ls, at, g),
         NEW q, NEW w \in Works, w.code = 0,
         \/ /\ w.req = EmptyRequest /\ Reading(w.buf, m, ls, at, 0, q)
            /\ IF q < at[Ends(fields)] THEN w.buf.empty = 0 ELSE w.buf.empty # 0
         \/ Under(w.req, w.buf, m, fields, chunks, ls, at, g, q)
  PROVE  LET v == Parse(w)
         IN  /\ v \in Works
             /\ IF v.code = 0 THEN Progress(v.req, v.buf, m, fields, chunks, ls, at, g, q)
                ELSE v.code \in m.codes
<1>1. CASE /\ w.req = EmptyRequest /\ Reading(w.buf, m, ls, at, 0, q)
           /\ IF q < at[Ends(fields)] THEN w.buf.empty = 0 ELSE w.buf.empty # 0
  <2>1. ~w.req.header
    BY <1>1 DEF EmptyRequest
  <2>2. CASE q < at[Ends(fields)]
    <3>1. Parse(w) = w
      BY <1>1, <2>1, <2>2 DEF Parse
    <3>2. Starts(w.req, w.buf, m, fields, ls, at, q)
      BY <1>1, <2>2 DEF Starts
    <3> QED BY <3>1, <3>2 DEF Progress
  <2>3. CASE ~(q < at[Ends(fields)])
    <3>1. at[Ends(fields)] \in Nat /\ q \in Nat
      <4>1. q \in Nat
        BY <1>1 DEF Reading
      <4> QED BY <4>1, HeaderSpan
    <3>2. at[Ends(fields)] <= q
      BY <2>3, <3>1
    <3> DEFINE v == ParseBody(Resolve(ParseHeader(w)))
    <3>3. Parse(w) = v
      BY <1>1, <2>1, <2>3 DEF Parse
    <3>4. /\ v \in Works
          /\ IF v.code = 0 THEN Progress(v.req, v.buf, m, fields, chunks, ls, at, g, q)
             ELSE v.code \in m.codes
      BY <1>1, <3>2, WholeHeaderRead
    <3> HIDE DEF v
    <3> QED BY <3>3, <3>4
  <2> QED BY <2>2, <2>3
<1>2. CASE Under(w.req, w.buf, m, fields, chunks, ls, at, g, q)
  <2>1. w.req.header /\ w.req.resolved
    BY <1>2 DEF Under, OnChunk, OnData, AtChunk, AtData, InBody
  <2>2. Resolve(w) = w
    BY <2>1 DEF Resolve
  <2> DEFINE v == ParseBody(w)
  <2>3. Parse(w) = v
    BY <2>1, <2>2 DEF Parse
  <2>4. /\ v \in Works /\ v.code = 0 /\ Admitted(m)
        /\ \/ Waits(v.req, v.buf, m, fields, chunks, ls, at, g, q)
           \/ Over(v.req, v.buf, m, ls, at, q)
    BY <1>2, MoreBody
  <2> HIDE DEF v
  <2> QED BY <2>3, <2>4 DEF Progress
<1> QED BY <1>1, <1>2

\* What a read adds to it.
LEMMA ReadOn ==
  ASSUME NEW m, NEW fields, NEW chunks, NEW ls, NEW at, NEW g,
         Plan(m, fields, chunks, ls, at, g),
         NEW k, NEW q, NEW b, Reading(b, m, ls, at, k, q),
         NEW p \in Nat, q <= p, p <= Len(m.wire)
  PROVE  LET c == Add(b, SubSeq(m.wire, q + 1, p))
         IN  /\ Reading(c, m, ls, at, k, p) /\ c \in Buffers /\ b.empty \in Nat
             /\ IF EmptyLine(ls, at, q, p) THEN c.empty > b.empty ELSE c.empty = b.empty
<1> DEFINE z == m.wire  i == at[k]  c == Add(b, SubSeq(z, q + 1, p))
<1>1. z \in Seq(Bytes) /\ Layout(z, ls, at) /\ Clean(ls) /\ ls \in Seq(Seq(Text))
  BY PlanLines
<1>2. k \in 0..Len(ls) /\ q \in Nat /\ i <= q /\ Holds(b, z, i, q) /\ Status(ls, at, q, b.nl)
  BY DEF Reading
<1>3. i \in Nat /\ b \in Buffers
  BY ReadingSize
<1>4. b.empty \in Nat
  BY <1>3, ContentsHeld
<1>5. p <= Len(z)
  OBVIOUS
<1> HIDE DEF z, i
<1>6. /\ Holds(c, z, i, p) /\ Status(ls, at, p, c.nl)
      /\ IF EmptyLine(ls, at, q, p) THEN c.empty > b.empty ELSE c.empty = b.empty
  BY <1>1, <1>2, <1>3, <1>5, Received
<1> HIDE DEF c
<1>7. c \in Buffers
  BY <1>6 DEF Holds
<1>8. i <= p
  BY <1>2, <1>3
<1>9. Reading(c, m, ls, at, k, p)
  BY <1>2, <1>5, <1>6, <1>8 DEF Reading, z, i
<1> QED BY <1>4, <1>6, <1>7, <1>9 DEF c, z

\* A request that is not complete goes on.
LEMMA ProgressOn ==
  ASSUME NEW m, NEW fields, NEW chunks, NEW ls, NEW at, NEW g,
         Plan(m, fields, chunks, ls, at, g),
         NEW q \in Nat, NEW r \in Requests, NEW b \in Buffers, ~r.done,
         Progress(r, b, m, fields, chunks, ls, at, g, q),
         NEW p \in Nat, q <= p, p <= Len(m.wire)
  PROVE  LET v == Parse(Work(Add(b, SubSeq(m.wire, q + 1, p)), r))
         IN  /\ v \in Works
             /\ IF v.code = 0 THEN Progress(v.req, v.buf, m, fields, chunks, ls, at, g, p)
                ELSE v.code \in m.codes
<1> DEFINE c == Add(b, SubSeq(m.wire, q + 1, p))
           w == Work(c, r)
           Ready == \/ /\ w.req = EmptyRequest /\ Reading(w.buf, m, ls, at, 0, p)
                       /\ IF p < at[Ends(fields)] THEN w.buf.empty = 0 ELSE w.buf.empty # 0
                    \/ Under(w.req, w.buf, m, fields, chunks, ls, at, g, p)
<1>1. ASSUME NEW k, Reading(b, m, ls, at, k, q)
      PROVE  /\ Reading(c, m, ls, at, k, p) /\ c \in Buffers /\ b.empty \in Nat
             /\ IF EmptyLine(ls, at, q, p) THEN c.empty > b.empty ELSE c.empty = b.empty
  BY <1>1, ReadOn
<1>2. w.req = r /\ w.buf = c /\ w.code = 0
  BY DEF Work
<1>3. c \in Buffers => w \in Works
  <2> HIDE DEF c
  <2> QED BY WorkType
<1> HIDE DEF c, w
<1>4. ASSUME Starts(r, b, m, fields, ls, at, q) PROVE w \in Works /\ Ready
  <2> DEFINE h == at[Ends(fields)]  e == EmptyLine(ls, at, q, p)
  <2>1. r = EmptyRequest /\ Reading(b, m, ls, at, 0, q) /\ q < h /\ b.empty = 0
    BY <1>4 DEF Starts
  <2>2. /\ Reading(c, m, ls, at, 0, p) /\ c \in Buffers
        /\ IF e THEN c.empty > b.empty ELSE c.empty = b.empty
    BY <1>1, <2>1
  <2>3. h \in Nat /\ (p < h => ~e) /\ (q < h /\ h <= p => e)
    BY HeaderSpan
  <2> HIDE DEF h, e
  <2>4. c.empty \in Nat
    BY <2>2, ContentsHeld
  <2>5. IF p < h THEN c.empty = 0 ELSE c.empty # 0
    <3>1. CASE p < h
      BY <2>1, <2>2, <2>3, <3>1
    <3>2. CASE ~(p < h)
      <4>1. h <= p
        BY <2>3, <3>2
      <4>2. c.empty > 0
        BY <2>1, <2>2, <2>3, <4>1
      <4> QED BY <2>4, <3>2, <4>2
    <3> QED BY <3>1, <3>2
  <2>6. Ready
    BY <1>2, <2>1, <2>2, <2>5 DEF h
  <2> QED BY <1>3, <2>2, <2>6
<1>5. ASSUME Waits(r, b, m, fields, chunks, ls, at, g, q) PROVE w \in Works /\ Ready
  <2>1. PICK j \in 0..(Len(chunks) - 1) :
          \/ OnChunk(r, b, m, fields, ls, at, g, q, j)
          \/ OnData(r, b, m, fields, chunks, ls, at, g, q, j)
    BY <1>5 DEF Waits
  <2>2. CASE OnChunk(r, b, m, fields, ls, at, g, q, j)
    <3>1. OnChunk(r, c, m, fields, ls, at, g, p, j) /\ c \in Buffers
      BY <1>1, <2>2 DEF OnChunk
    <3>2. Under(r, c, m, fields, chunks, ls, at, g, p)
      BY <3>1 DEF Under
    <3> QED BY <1>2, <1>3, <3>1, <3>2
  <2>3. CASE OnData(r, b, m, fields, chunks, ls, at, g, q, j)
    <3>1. OnData(r, c, m, fields, chunks, ls, at, g, p, j) /\ c \in Buffers
      BY <1>1, <2>3 DEF OnData
    <3>2. Under(r, c, m, fields, chunks, ls, at, g, p)
      BY <3>1 DEF Under
    <3> QED BY <1>2, <1>3, <3>1, <3>2
  <2> QED BY <2>1, <2>2, <2>3
<1>6. ~Over(r, b, m, ls, at, q)
  BY DEF Over, Complete
<1>7. w \in Works /\ Ready
  BY <1>3, <1>4, <1>5, <1>6 DEF Progress
<1>8. /\ Parse(w) \in Works
      /\ IF Parse(w).code = 0
           THEN Progress(Parse(w).req, Parse(w).buf, m, fields, chunks, ls, at, g, p)
         ELSE Parse(w).code \in m.codes
  BY <1>2, <1>7, ParseRead
<1> QED BY <1>8 DEF w, c

\* A request begins in a buffer that nothing is left in.
LEMMA ProgressBegins ==
  ASSUME NEW m, NEW fields, NEW chunks, NEW ls, NEW at, NEW g,
         Plan(m, fields, chunks, ls, at, g),
         NEW b \in Buffers, AllMark(b.items), Contents(b) = <<>>, b.empty = 0
  PROVE  Progress(EmptyRequest, b, m, fields, chunks, ls, at, g, 0)
<1> DEFINE z == m.wire  n == Len(ls)
<1>1. z \in Seq(Bytes) /\ Layout(z, ls, at) /\ ls \in Seq(Seq(Text))
  BY PlanLines
<1> HIDE DEF z
<1>2. n \in Nat /\ Len(z) \in Nat /\ at[0] = 0
  BY <1>1, LayoutTypes
<1>3. SubSeq(z, 0 + 1, 0) = <<>>
  OBVIOUS
<1>4. Holds(b, z, at[0], 0)
  BY <1>2, <1>3 DEF Holds
<1>5. Status(ls, at, 0, b.nl)
  <2>1. ASSUME NEW k \in 1..n PROVE ~In(at, 0, k)
    <3>1. k - 1 \in 0..n
      BY <1>2
    <3>2. at[k - 1] \in Nat
      BY <1>1, <3>1, LayoutTypes
    <3> QED BY <3>2 DEF In
  <2> QED BY <2>1 DEF Status
<1>6. 0 \in 0..n /\ 0 <= Len(z) /\ at[0] <= 0
  <2> HIDE DEF n
  <2> QED BY <1>2
<1>7. Reading(b, m, ls, at, 0, 0)
  BY <1>4, <1>5, <1>6 DEF Reading, z
<1>8. 0 < at[Ends(fields)]
  BY HeaderSpan
<1> QED BY <1>7, <1>8 DEF Progress, Starts

\* And a complete one leaves such a buffer.
LEMMA OverEmpty ==
  ASSUME NEW m, NEW fields, NEW chunks, NEW ls, NEW at, NEW g,
         Plan(m, fields, chunks, ls, at, g),
         NEW q, NEW r, NEW b, Over(r, b, m, ls, at, q)
  PROVE  b \in Buffers /\ AllMark(b.items) /\ Contents(b) = <<>> /\ b.empty = 0 /\ Size(b) = 0
<1> DEFINE z == m.wire  n == Len(ls)
<1>1. z \in Seq(Bytes) /\ Layout(z, ls, at) /\ ls \in Seq(Seq(Text))
  BY PlanLines
<1>2. q = Len(z) /\ Reading(b, m, ls, at, n, q) /\ b.empty = 0
  BY DEF Over
<1>3. b \in Buffers /\ AllMark(b.items)
  BY <1>2 DEF Reading, Holds
<1>4. Size(b) = q - at[n] /\ at[n] \in Nat
  BY <1>2, ReadingSize
<1>5. at[n] = Len(z)
  BY <1>1, LayoutTypes
<1>6. Size(b) = 0
  <2> HIDE DEF z, n
  <2> QED BY <1>2, <1>4, <1>5
<1>7. Contents(b) = <<>>
  <2>1. Contents(b) \in Seq(Bytes)
    BY <1>3, ContentsHeld
  <2>2. Len(Contents(b)) = 0
    BY <1>6 DEF Size
  <2> QED BY <2>1, <2>2, EmptySeq
<1> QED BY <1>2, <1>3, <1>6, <1>7

-----------------------------------------------------------------------------
(***************************************************************************)
(* The state of a connection whose requests are all well-formed.           *)
(***************************************************************************)
AsPlanned(r, b, m, q) ==
  \E fields, chunks, ls, at, g :
    Plan(m, fields, chunks, ls, at, g) /\ Progress(r, b, m, fields, chunks, ls, at, g, q)

OnCourse ==
  IF code = 0 THEN AsPlanned(req, buf, message, sent) ELSE code \in message.codes /\ req = EmptyRequest

LEMMA BeginsAsPlanned ==
  ASSUME AllWellFormed, NEW m \in Messages,
         NEW b \in Buffers, AllMark(b.items), Contents(b) = <<>>, b.empty = 0
  PROVE  AsPlanned(EmptyRequest, b, m, 0)
<1>1. PICK fields, chunks, ls, at, g : Plan(m, fields, chunks, ls, at, g)
  BY Planned
<1>2. Progress(EmptyRequest, b, m, fields, chunks, ls, at, g, 0)
  BY <1>1, ProgressBegins
<1> QED BY <1>1, <1>2 DEF AsPlanned

LEMMA CourseBegins ==
  ASSUME AllWellFormed, Init
  PROVE  OnCourse
<1>1. buf = EmptyBuffer /\ req = EmptyRequest /\ code = 0 /\ message \in Messages /\ sent = 0
  BY DEF Init
<1>2. EmptyBuffer \in Buffers /\ Contents(EmptyBuffer) = <<>>
  BY EmptyBufferType
<1>3. EmptyBuffer.empty = 0 /\ AllMark(EmptyBuffer.items)
  <2>1. EmptyBuffer.items = <<>> /\ EmptyBuffer.empty = 0
    BY DEF EmptyBuffer
  <2>2. Len(<<>>) = 0
    OBVIOUS
  <2> QED BY <2>1, <2>2 DEF AllMark
<1>4. AsPlanned(EmptyRequest, EmptyBuffer, message, 0)
  BY <1>1, <1>2, <1>3, BeginsAsPlanned
<1> QED BY <1>1, <1>4 DEF OnCourse

LEMMA NextOnCourse ==
  ASSUME AllWellFormed, Typed, OnCourse, NEW m \in Messages, NextMessage(m)
  PROVE  OnCourse'
<1>1. req.done /\ req' = EmptyRequest /\ message' = m /\ sent' = 0 /\ buf' = buf /\ code' = code
  BY DEF NextMessage
<1>2. code = 0
  BY <1>1 DEF OnCourse, EmptyRequest
<1>3. PICK fields, chunks, ls, at, g :
        Plan(message, fields, chunks, ls, at, g) /\ Progress(req, buf, message, fields, chunks, ls, at, g, sent)
  BY <1>2 DEF OnCourse, AsPlanned
<1>4. Over(req, buf, message, ls, at, sent)
  BY <1>1, <1>3 DEF Progress, Starts, EmptyRequest, Waits, OnChunk, OnData, AtChunk, AtData, InBody
<1>5. buf \in Buffers /\ AllMark(buf.items) /\ Contents(buf) = <<>> /\ buf.empty = 0
  BY <1>3, <1>4, OverEmpty
<1>6. AsPlanned(EmptyRequest, buf, m, 0)
  BY <1>5, BeginsAsPlanned
<1> QED BY <1>1, <1>2, <1>6 DEF OnCourse

LEMMA ReceiveOnCourse ==
  ASSUME Typed, OnCourse, NEW cut \in message.cuts, Receive(cut)
  PROVE  OnCourse'
<1> DEFINE z == message.wire
           w == Parse(Work(Add(buf, SubSeq(z, sent + 1, cut)), req))
<1>1. code = 0 /\ ~req.done /\ cut > sent /\ sent' = cut /\ Parsed(w) /\ message' = message
  BY DEF Receive
<1>2. z \in Seq(Bytes) /\ message.cuts \subseteq DOMAIN z /\ Len(z) \in Nat
  BY ParserAssumption, LenProperties DEF Typed
<1>3. cut \in Nat /\ cut <= Len(z) /\ sent \in Nat /\ sent <= cut
  <2>1. cut \in 1..Len(z) /\ sent \in 0..Len(z)
    BY <1>2, LenProperties DEF Typed
  <2> DEFINE n == Len(z)
  <2> HIDE DEF n, z
  <2>2. cut \in 1..n /\ sent \in 0..n /\ n \in Nat
    BY <1>2, <2>1 DEF n
  <2>3. cut \in Nat /\ cut <= n /\ sent \in Nat /\ sent <= cut
    BY <1>1, <2>2
  <2> QED BY <2>3 DEF n
<1>4. PICK fields, chunks, ls, at, g :
        Plan(message, fields, chunks, ls, at, g) /\ Progress(req, buf, message, fields, chunks, ls, at, g, sent)
  BY <1>1 DEF OnCourse, AsPlanned
<1>5. req \in Requests /\ buf \in Buffers
  BY DEF Typed
<1>6. /\ w \in Works
      /\ IF w.code = 0 THEN Progress(w.req, w.buf, message, fields, chunks, ls, at, g, cut)
         ELSE w.code \in message.codes
  BY <1>1, <1>3, <1>4, <1>5, ProgressOn
<1> HIDE DEF w, z
<1>7. CASE w.code # 0
  BY <1>1, <1>6, <1>7 DEF Parsed, OnCourse
<1>8. CASE w.code = 0
  <2>1. Progress(w.req, w.buf, message, fields, chunks, ls, at, g, cut)
    BY <1>6, <1>8
  <2>2. ~(~w.req.header /\ Size(w.buf) > MaxHeader)
    <3>1. CASE Starts(w.req, w.buf, message, fields, ls, at, cut)
      <4> DEFINE h == at[Ends(fields)]  s == Size(w.buf)
      <4>1. Reading(w.buf, message, ls, at, 0, cut) /\ cut < h
        BY <3>1 DEF Starts
      <4>2. s = cut - at[0] /\ at[0] \in Nat
        BY <1>4, <4>1, ReadingSize
      <4>3. h \in Nat /\ h <= MaxHeader
        BY <1>3, <1>4, HeaderSpan
      <4>4. MaxHeader \in Nat
        BY ParserAssumption
      <4> HIDE DEF h, s
      <4>5. ~(s > MaxHeader)
        BY <1>3, <4>1, <4>2, <4>3, <4>4
      <4> QED BY <4>5 DEF s
    <3>2. CASE ~Starts(w.req, w.buf, message, fields, ls, at, cut)
      <4>1. w.req.header
        BY <2>1, <3>2 DEF Progress, Waits, OnChunk, OnData, AtChunk, AtData, InBody, Over, Complete
      <4> QED BY <4>1
    <3> QED BY <3>1, <3>2
  <2>3. code' = 0 /\ buf' = w.buf /\ req' = w.req
    BY <1>1, <1>8, <2>2 DEF Parsed
  <2>4. AsPlanned(w.req, w.buf, message, cut)
    BY <1>4, <2>1 DEF AsPlanned
  <2> QED BY <1>1, <2>3, <2>4 DEF OnCourse
<1> QED BY <1>7, <1>8

LEMMA SpecOnCourse == AllWellFormed => (Spec => [](Typed /\ OnCourse))
<1> SUFFICES ASSUME AllWellFormed
             PROVE  Spec => [](Typed /\ OnCourse)
  OBVIOUS
<1>1. Init => Typed /\ OnCourse
  BY TypedInit, CourseBegins
<1>2. Typed /\ OnCourse /\ [Next]_vars => (Typed /\ OnCourse)'
  <2> SUFFICES ASSUME Typed, OnCourse, [Next]_vars
               PROVE  (Typed /\ OnCourse)'
    OBVIOUS
  <2>1. Typed'
    BY TypedStep
  <2>2. CASE UNCHANGED vars
    BY <2>1, <2>2 DEF vars, OnCourse
  <2>3. ASSUME NEW m \in Messages, NextMessage(m)
        PROVE  OnCourse'
    BY <2>3, NextOnCourse
  <2>4. ASSUME NEW cut \in message.cuts, Receive(cut)
        PROVE  OnCourse'
    BY <2>4, ReceiveOnCourse
  <2> QED BY <2>1, <2>2, <2>3, <2>4 DEF Next
<1> QED BY <1>1, <1>2, PTL DEF Spec

\* What it says of a request accepted so far.
LEMMA CourseSays ==
  ASSUME Typed, OnCourse
  PROVE  HeaderWhole /\ BodyWhole /\ NeverStalls /\ RefusedRightly
<1>1. CASE code # 0
  <2>1. code \in message.codes /\ req = EmptyRequest
    BY <1>1 DEF OnCourse
  <2>2. ~req.header /\ ~req.done
    BY <2>1 DEF EmptyRequest
  <2> QED BY <1>1, <2>1, <2>2 DEF HeaderWhole, BodyWhole, NeverStalls, RefusedRightly
<1>2. CASE code = 0
  <2>1. PICK fields, chunks, ls, at, g :
          Plan(message, fields, chunks, ls, at, g) /\ Progress(req, buf, message, fields, chunks, ls, at, g, sent)
    BY <1>2 DEF OnCourse, AsPlanned
  <2> DEFINE z == message.wire  n == Len(z)
  <2>2. z \in Seq(Bytes) /\ Layout(z, ls, at) /\ ls \in Seq(Seq(Text))
    BY <2>1, PlanLines
  <2>3. n \in Nat /\ \A i \in 0..Len(ls) : at[i] \in Nat
    BY <2>2, LayoutTypes
  <2>4. \A i \in 1..Len(ls) : at[i] <= n
    BY <2>2, LayoutTypes
  <2> HIDE DEF n, z
  <2>5. CASE Starts(req, buf, message, fields, ls, at, sent)
    <3>1. req = EmptyRequest /\ sent < at[Ends(fields)] /\ sent \in Nat
      BY <2>5 DEF Starts, Reading
    <3>2. ~req.header /\ ~req.done
      BY <3>1 DEF EmptyRequest
    <3>3. at[Ends(fields)] \in Nat /\ at[Ends(fields)] <= n
      BY <2>1, <3>1, HeaderSpan DEF n, z
    <3>4. sent # n
      BY <2>3, <3>1, <3>3
    <3> QED BY <1>2, <3>2, <3>4 DEF HeaderWhole, BodyWhole, NeverStalls, RefusedRightly, n, z
  <2>6. CASE Waits(req, buf, message, fields, chunks, ls, at, g, sent)
    <3>1. PICK j \in 0..(Len(chunks) - 1) :
            \/ OnChunk(req, buf, message, fields, ls, at, g, sent, j) /\ sent < at[DataLine(fields, j)]
            \/ OnData(req, buf, message, fields, chunks, ls, at, g, sent, j) /\ sent < at[ChunkLine(fields, j + 1)]
      BY <2>6 DEF Waits
    <3>2. InBody(req, message, g, j) /\ sent \in Nat
      BY <3>1 DEF OnChunk, OnData, AtChunk, AtData, Reading
    <3>3. ASSUME NEW k, Reading(buf, message, ls, at, k, sent), k < Len(ls), sent < at[k + 1]
          PROVE  sent # n
      <4>1. k \in 0..Len(ls)
        BY <3>3 DEF Reading
      <4>2. at[k + 1] \in Nat /\ at[k + 1] <= n
        BY <2>1, <3>3, <4>1, AtNext DEF n, z
      <4> QED BY <2>3, <3>2, <3>3, <4>2
    <3>4. /\ ChunkLine(fields, j) < Len(ls) /\ DataLine(fields, j) < Len(ls)
          /\ ChunkLine(fields, j) + 1 = DataLine(fields, j)
          /\ DataLine(fields, j) + 1 = ChunkLine(fields, j + 1)
      BY <2>1, BodyLines
    <3>5. sent # n
      <4>1. CASE OnChunk(req, buf, message, fields, ls, at, g, sent, j) /\ sent < at[DataLine(fields, j)]
        BY <3>3, <3>4, <4>1 DEF OnChunk
      <4>2. CASE OnData(req, buf, message, fields, chunks, ls, at, g, sent, j) /\ sent < at[ChunkLine(fields, j + 1)]
        BY <3>3, <3>4, <4>2 DEF OnData
      <4> QED BY <3>1, <4>1, <4>2
    <3>6. ~req.done /\ req.start = message.start /\ req.fields = message.fields
      BY <3>2 DEF InBody, HasHeader
    <3> QED BY <1>2, <3>5, <3>6 DEF HeaderWhole, BodyWhole, NeverStalls, RefusedRightly, n, z
  <2>7. CASE Admitted(message) /\ Over(req, buf, message, ls, at, sent)
    <3>1. /\ req.done /\ req.start = message.start /\ req.fields = message.fields
          /\ req.body = message.body
      BY <2>7 DEF Over, Complete, HasHeader
    <3>2. Size(buf) = 0 /\ 0 \in message.codes
      BY <2>1, <2>7, OverEmpty DEF Admitted
    <3> QED BY <1>2, <3>1, <3>2 DEF HeaderWhole, BodyWhole, NeverStalls, RefusedRightly
  <2> QED BY <2>1, <2>5, <2>6, <2>7 DEF Progress
<1> QED BY <1>1, <1>2

\* However its bytes are cut, and whatever requests came before it on the
\* connection: the start line and the fields that parseHeader leaves in a
\* well-formed request are those that were sent, once it calls it complete.
THEOREM WholeHeaders == AllWellFormed => (Spec => []HeaderWhole)
<1>1. Typed /\ OnCourse => HeaderWhole
  BY CourseSays
<1> QED BY <1>1, SpecOnCourse, PTL

\* A well-formed request that parse calls complete has the body that was sent,
\* and the whole of it was taken from the buffer.
THEOREM WholeBodies == AllWellFormed => (Spec => []BodyWhole)
<1>1. Typed /\ OnCourse => BodyWhole
  BY CourseSays
<1> QED BY <1>1, SpecOnCourse, PTL

\* When the last byte of a well-formed request has come the parser is done
\* with it: no line that the counts of the buffer miss keeps it waiting.
THEOREM NoneStalls == AllWellFormed => (Spec => []NeverStalls)
<1>1. Typed /\ OnCourse => NeverStalls
  BY CourseSays
<1> QED BY <1>1, SpecOnCourse, PTL

\* A well-formed request is refused only by the code that its address resolves
\* to, or another of the outcomes it may have, and a request whose address
\* is not found never completes.
THEOREM RefusalsRight == AllWellFormed => (Spec => []RefusedRightly)
<1>1. Typed /\ OnCourse => RefusedRightly
  BY CourseSays
<1> QED BY <1>1, SpecOnCourse, PTL
=============================================================================
