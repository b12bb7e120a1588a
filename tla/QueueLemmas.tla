---------------------------- MODULE QueueLemmas ----------------------------
(* What the proofs use of queues: sequences, mostly without repeats, that   *)
(* grow at the tail and shrink anywhere.                                    *)
EXTENDS Queues, SequencesExt, TLAPS, WellFoundedInduction

\* What the rest uses of Append and of Head and Tail.
LEMMA AppendFacts ==
    ASSUME NEW S, NEW q \in Seq(S), NEW e \in S
    PROVE  /\ Append(q, e) \in Seq(S)
           /\ Len(Append(q, e)) = Len(q) + 1
           /\ \A i \in 1 .. Len(q) : Append(q, e)[i] = q[i]
           /\ Append(q, e)[Len(q) + 1] = e
OBVIOUS

LEMMA TailFacts ==
    ASSUME NEW S, NEW q \in Seq(S), q # << >>
    PROVE  /\ Tail(q) \in Seq(S)
           /\ Len(q) \in Nat \ {0}
           /\ Len(Tail(q)) = Len(q) - 1
           /\ \A i \in 1 .. Len(q) - 1 : Tail(q)[i] = q[i + 1]
           /\ Head(q) = q[1]
           /\ Head(q) \in S
OBVIOUS

\* A queue that grows or shrinks stays a queue.
LEMMA AppendInSeq == \A S : \A q \in Seq(S), e \in S : Append(q, e) \in Seq(S)
BY AppendFacts

LEMMA TailInSeq == \A S : \A q \in Seq(S) : q # << >> => Tail(q) \in Seq(S)
BY TailFacts

\* The head of a queue does not change when an element joins it.
LEMMA AppendBehind ==
    ASSUME NEW S, NEW q \in Seq(S), q # << >>, NEW e \in S
    PROVE  /\ Append(q, e) # << >>
           /\ Head(Append(q, e)) = Head(q)
           /\ Tail(Append(q, e)) = Append(Tail(q), e)
OBVIOUS

\* A queue without repeats stays so when a new element joins it or its head
\* leaves, and no other element comes or goes.
In(x, q) == \E i \in 1 .. Len(q) : q[i] = x
Distinct(q) == \A i, j \in 1 .. Len(q) : q[i] = q[j] => i = j

LEMMA JoinQueue ==
    ASSUME NEW S, NEW q \in Seq(S), NEW e \in S, Distinct(q), ~In(e, q)
    PROVE  /\ Distinct(Append(q, e))
           /\ \A x \in S : In(x, Append(q, e)) <=> In(x, q) \/ x = e
<1> DEFINE a == Append(q, e)
<1>1. /\ Len(q) \in Nat
      /\ Len(a) = Len(q) + 1
      /\ \A i \in 1 .. Len(q) : a[i] = q[i]
      /\ a[Len(q) + 1] = e
  BY AppendFacts
<1> HIDE DEF a
<1>2. Distinct(a)
  BY <1>1 DEF Distinct, In
<1>3. ASSUME NEW x \in S PROVE In(x, a) <=> In(x, q) \/ x = e
  BY <1>1 DEF In
<1> QED
  BY <1>2, <1>3 DEF a

LEMMA LeaveQueue ==
    ASSUME NEW S, NEW q \in Seq(S), q # << >>, Distinct(q)
    PROVE  /\ Distinct(Tail(q))
           /\ In(Head(q), q)
           /\ \A x \in S : In(x, Tail(q)) <=> In(x, q) /\ x # Head(q)
<1> DEFINE t == Tail(q)
<1>1. /\ Len(q) \in Nat \ {0}
      /\ Len(t) = Len(q) - 1
      /\ \A i \in 1 .. Len(q) - 1 : t[i] = q[i + 1]
      /\ Head(q) = q[1]
  BY TailFacts
<1> HIDE DEF t
<1>2. Distinct(t) /\ In(Head(q), q)
  BY <1>1 DEF Distinct, In
<1>3. ASSUME NEW x \in S, In(x, t) PROVE In(x, q) /\ x # Head(q)
  <2>1. PICK i \in 1 .. Len(t) : t[i] = x
    BY <1>3 DEF In
  <2>2. i + 1 \in 1 .. Len(q) /\ q[i + 1] = x /\ i + 1 # 1 /\ 1 \in 1 .. Len(q)
    BY <1>1, <2>1
  <2> QED
    BY <1>1, <2>2 DEF In, Distinct
<1>4. ASSUME NEW x \in S, In(x, q), x # Head(q) PROVE In(x, t)
  <2>1. PICK i \in 1 .. Len(q) : q[i] = x
    BY <1>4 DEF In
  <2>2. i - 1 \in 1 .. Len(t) /\ t[i - 1] = x
    BY <1>1, <1>4, <2>1
  <2> QED
    BY <2>2 DEF In
<1> QED
  BY <1>2, <1>3, <1>4 DEF t

\* A stack: the queue to whose head an element is put.
LEMMA PushQueue ==
    ASSUME NEW S, NEW q \in Seq(S), NEW e \in S
    PROVE  /\ <<e>> \o q \in Seq(S)
           /\ <<e>> \o q # << >>
           /\ Head(<<e>> \o q) = e
           /\ Tail(<<e>> \o q) = q
           /\ Distinct(q) /\ ~In(e, q) => Distinct(<<e>> \o q)
           /\ \A x \in S : In(x, <<e>> \o q) <=> In(x, q) \/ x = e
<1> DEFINE a == <<e>> \o q
<1>1. /\ Len(q) \in Nat
      /\ a \in Seq(S)
      /\ Len(a) = Len(q) + 1
      /\ \A i \in 1 .. Len(q) : a[i + 1] = q[i]
      /\ a[1] = e
  OBVIOUS
<1>2. a # << >> /\ Head(a) = e
  BY <1>1
<1>3. Tail(a) = q
  OBVIOUS
<1> HIDE DEF a
<1>4. \A i \in 2 .. Len(a) : i - 1 \in 1 .. Len(q) /\ a[i] = q[i - 1]
  BY <1>1
<1>5. ASSUME Distinct(q), ~In(e, q) PROVE Distinct(a)
  <2>1. \A i \in 2 .. Len(a) : a[i] # e
    BY <1>4, <1>5 DEF In
  <2>2. ASSUME NEW i \in 1 .. Len(a), NEW j \in 1 .. Len(a), a[i] = a[j] PROVE i = j
    <3>1. CASE i = 1 \/ j = 1
      <4>1. 1 \in 1 .. Len(a) /\ \A k \in 1 .. Len(a) : k = 1 \/ k \in 2 .. Len(a)
        BY <1>1
      <4> QED
        BY <1>1, <2>1, <2>2, <3>1, <4>1
    <3>2. CASE i # 1 /\ j # 1
      <4>1. i \in 2 .. Len(a) /\ j \in 2 .. Len(a) /\ i - 1 = j - 1 => i = j
        BY <1>1, <3>2
      <4> QED
        BY <1>4, <1>5, <2>2, <3>2, <4>1 DEF Distinct
    <3> QED
      BY <3>1, <3>2
  <2> QED
    BY <2>2 DEF Distinct
<1>6. ASSUME NEW x \in S PROVE In(x, a) <=> In(x, q) \/ x = e
  <2>1. ASSUME In(x, a), x # e PROVE In(x, q)
    <3>1. PICK i \in 1 .. Len(a) : a[i] = x
      BY <2>1 DEF In
    <3>2. i \in 2 .. Len(a)
      BY <1>1, <2>1, <3>1
    <3> QED
      BY <1>4, <3>1, <3>2 DEF In
  <2>2. x = e => In(x, a)
    BY <1>1 DEF In
  <2>3. ASSUME In(x, q) PROVE In(x, a)
    <3>1. PICK i \in 1 .. Len(q) : q[i] = x
      BY <2>3 DEF In
    <3>2. i + 1 \in 1 .. Len(a) /\ a[i + 1] = x
      BY <1>1, <3>1
    <3> QED
      BY <3>2 DEF In
  <2> QED
    BY <2>1, <2>2, <2>3
<1> QED
  BY <1>1, <1>2, <1>3, <1>5, <1>6 DEF a

-----------------------------------------------------------------------------
(* What Without leaves, by induction over the length of the queue: were it  *)
(* wrong for some length, it would be so for a least one.                   *)

LEMMA Least ==
    ASSUME NEW T \in SUBSET Nat, T # {}
    PROVE  \E n \in T : \A m \in T : n <= m
<1>1. PICK n \in T : \A m \in T : ~ (<<m, n>> \in OpToRel(<, Nat))
  BY NatLessThanWellFounded, WFMin
<1>2. \A m \in T : ~(m < n)
  BY <1>1 DEF OpToRel
<1> QED
  BY <1>2

Keeps(s, D, m, f) ==
    f = [n \in 0 .. m |-> IF n = 0 THEN << >>
                          ELSE IF s[n] \in D THEN f[n - 1] ELSE Append(f[n - 1], s[n])]

\* The recursive function in Without exists.
LEMMA KeepsExists ==
    ASSUME NEW s, NEW D, NEW m \in Nat
    PROVE  \E f : Keeps(s, D, m, f)
<1> DEFINE T == {n \in Nat : ~ \E f : Keeps(s, D, n, f)}
<1>1. SUFFICES ASSUME T # {} PROVE FALSE
  OBVIOUS
<1>2. PICK n \in T : \A k \in T : n <= k
  <2> HIDE DEF T
  <2>1. T \in SUBSET Nat
    BY DEF T
  <2> QED
    BY <1>1, <2>1, Least
<1>3. CASE n = 0
  <2>1. Keeps(s, D, 0, [k \in 0 .. 0 |-> << >>])
    BY DEF Keeps
  <2> QED
    BY <1>2, <1>3, <2>1
<1>4. CASE n # 0
  <2>1. n - 1 \in Nat /\ n - 1 \notin T
    BY <1>2, <1>4
  <2>2. PICK f : Keeps(s, D, n - 1, f)
    BY <2>1
  <2> DEFINE e == IF s[n] \in D THEN f[n - 1] ELSE Append(f[n - 1], s[n])
             g == [k \in 0 .. n |-> IF k = n THEN e ELSE f[k]]
  <2>3. \A k \in 0 .. n - 1 :
           f[k] = IF k = 0 THEN << >>
                  ELSE IF s[k] \in D THEN f[k - 1] ELSE Append(f[k - 1], s[k])
    BY <2>2, Zenon DEF Keeps
  <2>4. \A k \in 0 .. n :
           g[k] = IF k = 0 THEN << >>
                  ELSE IF s[k] \in D THEN g[k - 1] ELSE Append(g[k - 1], s[k])
    <3>1. \A k \in 0 .. n : k = n \/ k \in 0 .. n - 1
      BY <1>2
    <3>2. \A k \in 0 .. n - 1 : g[k] = f[k]
      BY <1>2
    <3>3. n \in 0 .. n /\ g[n] = e
      BY <1>2
    <3>4. n - 1 \in 0 .. n - 1 /\ \A k \in 0 .. n - 1 : k # 0 => k - 1 \in 0 .. n - 1
      BY <1>2, <1>4
    <3> HIDE DEF g
    <3> QED
      BY <1>4, <2>3, <3>1, <3>2, <3>3, <3>4
  <2>5. Keeps(s, D, n, g)
    <3>1. g = [k \in 0 .. n |-> g[k]]
      OBVIOUS
    <3> HIDE DEF g
    <3> QED
      BY <2>4, <3>1 DEF Keeps
  <2> QED
    BY <1>2, <2>5
<1> QED
  BY <1>3, <1>4

LEMMA WithoutKeeps ==
    ASSUME NEW s, NEW D, Len(s) \in Nat
    PROVE  \E f : Keeps(s, D, Len(s), f) /\ Without(s, D) = f[Len(s)]
<1> DEFINE f == CHOOSE f : Keeps(s, D, Len(s), f)
<1>1. Keeps(s, D, Len(s), f)
  BY KeepsExists
<1>2. Without(s, D) = f[Len(s)]
  BY DEF Without, Keeps
<1> QED
  BY <1>1, <1>2

LEMMA WithoutFacts ==
    ASSUME NEW S, NEW s \in Seq(S), NEW D
    PROVE  /\ Without(s, D) \in Seq(S)
           /\ \A x : In(x, Without(s, D)) <=> In(x, s) /\ x \notin D
           /\ Distinct(s) => Distinct(Without(s, D))
<1>0. Len(s) \in Nat /\ \A i \in 1 .. Len(s) : s[i] \in S
  OBVIOUS
<1>1. PICK f : Keeps(s, D, Len(s), f) /\ Without(s, D) = f[Len(s)]
  BY <1>0, WithoutKeeps
<1>2. \A k \in 0 .. Len(s) :
         f[k] = IF k = 0 THEN << >>
                ELSE IF s[k] \in D THEN f[k - 1] ELSE Append(f[k - 1], s[k])
  BY <1>1, Zenon DEF Keeps
<1> DEFINE Right(n) == /\ f[n] \in Seq(S)
                       /\ \A x : In(x, f[n]) <=> x \notin D /\ \E i \in 1 .. n : s[i] = x
                       /\ Distinct(s) => Distinct(f[n])
           T == {n \in 0 .. Len(s) : ~Right(n)}
<1>3. T = {}
  <2> SUFFICES ASSUME T # {} PROVE FALSE
    OBVIOUS
  <2>1. PICK n \in T : \A k \in T : n <= k
    <3> HIDE DEF T
    <3>1. T \in SUBSET Nat
      BY <1>0 DEF T
    <3> QED
      BY <3>1, Least
  <2>2. n \in 0 .. Len(s) /\ ~Right(n)
    OBVIOUS
  <2> HIDE DEF Right
  <2>3. CASE n = 0
    <3>1. f[n] = << >>
      BY <1>2, <2>2, <2>3
    <3>2. Right(n)
      BY <2>3, <3>1 DEF Right, In, Distinct
    <3> QED
      BY <2>2, <3>2
  <2>4. CASE n # 0
    <3>1. n - 1 \in 0 .. Len(s) /\ n - 1 \notin T /\ n \in 1 .. Len(s) /\ s[n] \in S
      BY <1>0, <2>1, <2>2, <2>4
    <3>2. Right(n - 1)
      BY <3>1
    <3>3. \A x : (\E i \in 1 .. n : s[i] = x) <=> (\E i \in 1 .. n - 1 : s[i] = x) \/ s[n] = x
      <4>1. \A i : i \in 1 .. n <=> i \in 1 .. n - 1 \/ i = n
        BY <3>1
      <4> QED
        BY <4>1
    <3>4. CASE s[n] \in D
      <4>1. f[n] = f[n - 1]
        BY <1>2, <2>2, <2>4, <3>4
      <4>2. Right(n)
        BY <3>2, <3>3, <3>4, <4>1 DEF Right
      <4> QED
        BY <2>2, <4>2
    <3>5. CASE s[n] \notin D
      <4>1. f[n] = Append(f[n - 1], s[n])
        BY <1>2, <2>2, <2>4, <3>5
      <4> DEFINE g == f[n - 1]
                 a == Append(g, s[n])
      <4>2. /\ g \in Seq(S)
            /\ \A x : In(x, g) <=> x \notin D /\ \E i \in 1 .. n - 1 : s[i] = x
            /\ Distinct(s) => Distinct(g)
        BY <3>2 DEF Right
      <4>3. /\ a \in Seq(S) /\ Len(g) \in Nat
            /\ Len(a) = Len(g) + 1
            /\ \A i \in 1 .. Len(g) : a[i] = g[i]
            /\ a[Len(g) + 1] = s[n]
        BY <3>1, <4>2, AppendFacts
      <4> HIDE DEF a, g
      <4>4. \A x : In(x, a) <=> In(x, g) \/ x = s[n]
        BY <4>3 DEF In
      <4>5. ASSUME Distinct(s) PROVE Distinct(a)
        <5>1. ~In(s[n], g)
          <6> SUFFICES ASSUME NEW i \in 1 .. n - 1, s[i] = s[n] PROVE FALSE
            BY <4>2
          <6>1. i \in 1 .. Len(s) /\ i # n
            BY <3>1
          <6> QED
            BY <3>1, <4>5, <6>1 DEF Distinct
        <5> QED
          BY <3>1, <4>2, <4>5, <5>1, JoinQueue DEF a
      <4>6. Right(n)
        BY <3>3, <3>5, <4>1, <4>2, <4>3, <4>4, <4>5 DEF Right, a, g
      <4> QED
        BY <2>2, <4>6
    <3> QED
      BY <3>4, <3>5
  <2> QED
    BY <2>3, <2>4
<1>4. Len(s) \in 0 .. Len(s)
  BY <1>0
<1>5. Right(Len(s))
  BY <1>3, <1>4
<1>6. \A x : (\E i \in 1 .. Len(s) : s[i] = x) <=> In(x, s)
  BY DEF In
<1> HIDE DEF Right
<1> QED
  BY <1>1, <1>5, <1>6 DEF Right

\* The more goes the less is left.
LEMMA WithoutLess ==
    ASSUME NEW S, NEW s \in Seq(S), NEW D, NEW E, D \subseteq E
    PROVE  Len(Without(s, E)) <= Len(Without(s, D))
<1>0. Len(s) \in Nat /\ \A i \in 1 .. Len(s) : s[i] \in S
  OBVIOUS
<1>1. PICK f : Keeps(s, D, Len(s), f) /\ Without(s, D) = f[Len(s)]
  BY <1>0, WithoutKeeps
<1>2. PICK g : Keeps(s, E, Len(s), g) /\ Without(s, E) = g[Len(s)]
  BY <1>0, WithoutKeeps
<1>3. \A k \in 0 .. Len(s) :
         f[k] = IF k = 0 THEN << >>
                ELSE IF s[k] \in D THEN f[k - 1] ELSE Append(f[k - 1], s[k])
  BY <1>1, Zenon DEF Keeps
<1>4. \A k \in 0 .. Len(s) :
         g[k] = IF k = 0 THEN << >>
                ELSE IF s[k] \in E THEN g[k - 1] ELSE Append(g[k - 1], s[k])
  BY <1>2, Zenon DEF Keeps
<1> DEFINE Right(n) == f[n] \in Seq(S) /\ g[n] \in Seq(S) /\ Len(g[n]) <= Len(f[n])
           T == {n \in 0 .. Len(s) : ~Right(n)}
<1>5. T = {}
  <2> SUFFICES ASSUME T # {} PROVE FALSE
    OBVIOUS
  <2>1. PICK n \in T : \A k \in T : n <= k
    <3> HIDE DEF T
    <3>1. T \in SUBSET Nat
      BY <1>0 DEF T
    <3> QED
      BY <3>1, Least
  <2>2. n \in 0 .. Len(s) /\ ~Right(n)
    OBVIOUS
  <2> HIDE DEF Right
  <2>3. CASE n = 0
    <3>1. f[n] = << >> /\ g[n] = << >>
      BY <1>3, <1>4, <2>2, <2>3
    <3> QED
      BY <2>2, <3>1 DEF Right
  <2>4. CASE n # 0
    <3>1. n - 1 \in 0 .. Len(s) /\ n - 1 \notin T /\ n \in 1 .. Len(s) /\ s[n] \in S
      BY <1>0, <2>1, <2>2, <2>4
    <3>2. Right(n - 1)
      BY <3>1
    <3> DEFINE u == f[n - 1]
               w == g[n - 1]
    <3>3. u \in Seq(S) /\ w \in Seq(S) /\ Len(w) <= Len(u)
      BY <3>2 DEF Right
    <3>4. /\ f[n] = IF s[n] \in D THEN u ELSE Append(u, s[n])
          /\ g[n] = IF s[n] \in E THEN w ELSE Append(w, s[n])
      BY <1>3, <1>4, <2>2, <2>4
    <3> HIDE DEF u, w
    <3>5. /\ Append(u, s[n]) \in Seq(S) /\ Len(Append(u, s[n])) = Len(u) + 1
          /\ Append(w, s[n]) \in Seq(S) /\ Len(Append(w, s[n])) = Len(w) + 1
          /\ Len(u) \in Nat /\ Len(w) \in Nat
      BY <3>1, <3>3, AppendFacts
    <3>6. Right(n)
      BY <3>3, <3>4, <3>5 DEF Right
    <3> QED
      BY <2>2, <3>6
  <2> QED
    BY <2>3, <2>4
<1>6. Len(s) \in 0 .. Len(s)
  BY <1>0
<1>7. Right(Len(s))
  BY <1>5, <1>6
<1> HIDE DEF Right
<1> QED
  BY <1>1, <1>2, <1>7 DEF Right

\* x comes before y in a queue.
Before(w, x, y) == \E i, j \in 1 .. Len(w) : i < j /\ w[i] = x /\ w[j] = y

\* What is left of a queue is in the order it was in.
LEMMA WithoutBefore ==
    ASSUME NEW S, NEW s \in Seq(S), NEW D
    PROVE  \A x, y : Before(Without(s, D), x, y) => Before(s, x, y)
<1>0. Len(s) \in Nat /\ \A i \in 1 .. Len(s) : s[i] \in S
  OBVIOUS
<1>1. PICK f : Keeps(s, D, Len(s), f) /\ Without(s, D) = f[Len(s)]
  BY <1>0, WithoutKeeps
<1>2. \A k \in 0 .. Len(s) :
         f[k] = IF k = 0 THEN << >>
                ELSE IF s[k] \in D THEN f[k - 1] ELSE Append(f[k - 1], s[k])
  BY <1>1, Zenon DEF Keeps
<1> DEFINE Right(n) == /\ f[n] \in Seq(S)
                       /\ \A x : In(x, f[n]) => \E i \in 1 .. n : s[i] = x
                       /\ \A x, y : Before(f[n], x, y) =>
                                       \E i, j \in 1 .. n : i < j /\ s[i] = x /\ s[j] = y
           T == {n \in 0 .. Len(s) : ~Right(n)}
<1>3. T = {}
  <2> SUFFICES ASSUME T # {} PROVE FALSE
    OBVIOUS
  <2>1. PICK n \in T : \A k \in T : n <= k
    <3> HIDE DEF T
    <3>1. T \in SUBSET Nat
      BY <1>0 DEF T
    <3> QED
      BY <3>1, Least
  <2>2. n \in 0 .. Len(s) /\ ~Right(n)
    OBVIOUS
  <2> HIDE DEF Right
  <2>3. CASE n = 0
    <3>1. f[n] = << >>
      BY <1>2, <2>2, <2>3
    <3>2. Right(n)
      BY <2>3, <3>1 DEF Right, In, Before
    <3> QED
      BY <2>2, <3>2
  <2>4. CASE n # 0
    <3>1. n - 1 \in 0 .. Len(s) /\ n - 1 \notin T /\ n \in 1 .. Len(s) /\ s[n] \in S
      BY <1>0, <2>1, <2>2, <2>4
    <3>2. Right(n - 1)
      BY <3>1
    <3>3. \A i : i \in 1 .. n - 1 => i \in 1 .. n /\ i < n
      BY <3>1
    <3>4. CASE s[n] \in D
      <4>1. f[n] = f[n - 1]
        BY <1>2, <2>2, <2>4, <3>4
      <4>2. Right(n)
        BY <3>2, <3>3, <4>1 DEF Right
      <4> QED
        BY <2>2, <4>2
    <3>5. CASE s[n] \notin D
      <4>1. f[n] = Append(f[n - 1], s[n])
        BY <1>2, <2>2, <2>4, <3>5
      <4> DEFINE g == f[n - 1]
                 a == Append(g, s[n])
      <4>2. /\ g \in Seq(S)
            /\ \A x : In(x, g) => \E i \in 1 .. n - 1 : s[i] = x
            /\ \A x, y : Before(g, x, y) =>
                            \E i, j \in 1 .. n - 1 : i < j /\ s[i] = x /\ s[j] = y
        BY <3>2 DEF Right
      <4>3. /\ a \in Seq(S) /\ Len(g) \in Nat
            /\ Len(a) = Len(g) + 1
            /\ \A i \in 1 .. Len(g) : a[i] = g[i]
            /\ a[Len(g) + 1] = s[n]
        BY <3>1, <4>2, AppendFacts
      <4> HIDE DEF a, g
      <4>4. \A x : In(x, a) => In(x, g) \/ x = s[n]
        BY <4>3 DEF In
      <4>5. ASSUME NEW x, In(x, a) PROVE \E i \in 1 .. n : s[i] = x
        BY <3>1, <3>3, <4>2, <4>4, <4>5
      <4>6. ASSUME NEW x, NEW y, Before(a, x, y)
            PROVE  \E i, j \in 1 .. n : i < j /\ s[i] = x /\ s[j] = y
        <5>1. PICK i \in 1 .. Len(a), j \in 1 .. Len(a) : i < j /\ a[i] = x /\ a[j] = y
          BY <4>6 DEF Before
        <5>2. i \in 1 .. Len(g) /\ a[i] = g[i]
          BY <4>3, <5>1
        <5>3. CASE j = Len(g) + 1
          <6>1. In(x, g) /\ y = s[n]
            BY <4>3, <5>1, <5>2, <5>3 DEF In
          <6> QED
            BY <3>1, <3>3, <4>2, <6>1
        <5>4. CASE j # Len(g) + 1
          <6>1. j \in 1 .. Len(g) /\ a[j] = g[j]
            BY <4>3, <5>1, <5>4
          <6>2. Before(g, x, y)
            BY <5>1, <5>2, <6>1 DEF Before
          <6> QED
            BY <3>3, <4>2, <6>2
        <5> QED
          BY <5>3, <5>4
      <4>7. Right(n)
        BY <4>1, <4>3, <4>5, <4>6 DEF Right, a, g
      <4> QED
        BY <2>2, <4>7
    <3> QED
      BY <3>4, <3>5
  <2> QED
    BY <2>3, <2>4
<1>4. Len(s) \in 0 .. Len(s)
  BY <1>0
<1> HIDE DEF Right
<1>5. Right(Len(s))
  BY <1>3, <1>4
<1>6. \A x, y : Before(f[Len(s)], x, y) => \E i, j \in 1 .. Len(s) : i < j /\ s[i] = x /\ s[j] = y
  BY <1>5, Zenon DEF Right
<1>7. \A x, y : Before(f[Len(s)], x, y) => Before(s, x, y)
  BY <1>6 DEF Before
<1> QED
  BY <1>1, <1>7

\* An element taken out of the middle.
LEMMA ToSetIn ==
    ASSUME NEW S, NEW s \in Seq(S) PROVE \A x : x \in ToSet(s) <=> In(x, s)
BY DEF ToSet, In

LEMMA JoinFacts ==
    ASSUME NEW S, NEW a \in Seq(S), NEW b \in Seq(S)
    PROVE  /\ a \o b \in Seq(S) /\ Len(a \o b) = Len(a) + Len(b)
           /\ \A i \in 1 .. Len(a) + Len(b) :
                 (a \o b)[i] = IF i <= Len(a) THEN a[i] ELSE b[i - Len(a)]
OBVIOUS

LEMMA RemoveAtFacts ==
    ASSUME NEW S, NEW s \in Seq(S), NEW n \in 1 .. Len(s)
    PROVE  /\ RemoveAt(s, n) \in Seq(S)
           /\ Len(RemoveAt(s, n)) = Len(s) - 1
           /\ \A i \in 1 .. Len(s) - 1 : RemoveAt(s, n)[i] = IF i < n THEN s[i] ELSE s[i + 1]
<1> DEFINE a == SubSeq(s, 1, n - 1)
           b == SubSeq(s, n + 1, Len(s))
<1>1. Len(s) \in Nat /\ \A i \in 1 .. Len(s) : s[i] \in S
  OBVIOUS
<1>2. /\ a \in Seq(S) /\ Len(a) = n - 1
      /\ \A i \in 1 .. n - 1 : a[i] = s[i]
  OBVIOUS
<1>3. /\ b \in Seq(S) /\ Len(b) = Len(s) - n
      /\ \A i \in 1 .. Len(s) - n : b[i] = s[n + i]
  OBVIOUS
<1>4. RemoveAt(s, n) = a \o b
  BY DEF RemoveAt
<1> HIDE DEF a, b
<1>5. /\ a \o b \in Seq(S) /\ Len(a \o b) = Len(s) - 1
      /\ \A i \in 1 .. Len(s) - 1 : (a \o b)[i] = IF i <= n - 1 THEN a[i] ELSE b[i - (n - 1)]
  BY <1>1, <1>2, <1>3, JoinFacts
<1>6. ASSUME NEW i \in 1 .. Len(s) - 1
      PROVE  (a \o b)[i] = IF i < n THEN s[i] ELSE s[i + 1]
  <2>1. CASE i < n
    <3>1. i \in 1 .. n - 1
      BY <1>1, <2>1
    <3> QED
      BY <1>2, <1>5, <2>1, <3>1
  <2>2. CASE ~(i < n)
    <3>1. i - (n - 1) \in 1 .. Len(s) - n /\ n + (i - (n - 1)) = i + 1 /\ ~(i <= n - 1)
      BY <1>1, <2>2
    <3> QED
      BY <1>3, <1>5, <2>2, <3>1
  <2> QED
    BY <2>1, <2>2
<1> QED
  BY <1>4, <1>5, <1>6

LEMMA RemoveAtDistinct ==
    ASSUME NEW S, NEW s \in Seq(S), Distinct(s), NEW n \in 1 .. Len(s)
    PROVE  /\ Distinct(RemoveAt(s, n))
           /\ \A x : In(x, RemoveAt(s, n)) <=> In(x, s) /\ x # s[n]
<1> DEFINE r == RemoveAt(s, n)
<1>0. Len(s) \in Nat
  OBVIOUS
<1>1. /\ Len(r) = Len(s) - 1
      /\ \A i \in 1 .. Len(s) - 1 : r[i] = IF i < n THEN s[i] ELSE s[i + 1]
  BY RemoveAtFacts, Zenon
<1> HIDE DEF r
<1>2. ASSUME NEW i \in 1 .. Len(r), NEW j \in 1 .. Len(r), r[i] = r[j] PROVE i = j
  <2>1. \A k \in 1 .. Len(r) : /\ k < n => k \in 1 .. Len(s) /\ r[k] = s[k]
                               /\ k >= n => k + 1 \in 1 .. Len(s) /\ r[k] = s[k + 1]
    BY <1>0, <1>1
  <2>2. \A k, l \in 1 .. Len(s) : s[k] = s[l] => k = l
    BY DEF Distinct
  <2>3. CASE i < n /\ j < n
    BY <1>2, <2>1, <2>2, <2>3
  <2>4. CASE i < n /\ j >= n
    <3>1. i \in 1 .. Len(s) /\ j + 1 \in 1 .. Len(s) /\ s[i] = s[j + 1]
      BY <1>2, <2>1, <2>4
    <3> QED
      BY <2>2, <2>4, <3>1
  <2>5. CASE i >= n /\ j < n
    <3>1. i + 1 \in 1 .. Len(s) /\ j \in 1 .. Len(s) /\ s[i + 1] = s[j]
      BY <1>2, <2>1, <2>5
    <3> QED
      BY <2>2, <2>5, <3>1
  <2>6. CASE i >= n /\ j >= n
    <3>1. i + 1 \in 1 .. Len(s) /\ j + 1 \in 1 .. Len(s) /\ s[i + 1] = s[j + 1]
      BY <1>2, <2>1, <2>6
    <3> QED
      BY <2>2, <3>1
  <2> QED
    BY <1>0, <1>1, <2>3, <2>4, <2>5, <2>6
<1>3. ASSUME NEW x, In(x, r) PROVE In(x, s) /\ x # s[n]
  BY <1>0, <1>1, <1>3 DEF In, Distinct
<1>4. ASSUME NEW x, In(x, s), x # s[n] PROVE In(x, r)
  <2>1. PICK i \in 1 .. Len(s) : s[i] = x
    BY <1>4 DEF In
  <2>2. CASE i < n
    BY <1>0, <1>1, <2>1, <2>2 DEF In
  <2>3. CASE i > n
    <3>1. i - 1 \in 1 .. Len(r) /\ r[i - 1] = x
      BY <1>0, <1>1, <2>1, <2>3
    <3> QED
      BY <3>1 DEF In
  <2> QED
    BY <1>4, <2>1, <2>2, <2>3
<1> QED
  BY <1>2, <1>3, <1>4 DEF r, Distinct

\* Who joins a queue comes last, and who leaves it was first.
LEMMA JoinOrder ==
    ASSUME NEW S, NEW s \in Seq(S), NEW e \in S
    PROVE  \A x, y : Before(Append(s, e), x, y) => Before(s, x, y) \/ (In(x, s) /\ y = e)
<1> DEFINE a == Append(s, e)
<1>1. /\ Len(s) \in Nat /\ Len(a) = Len(s) + 1 /\ a[Len(s) + 1] = e
      /\ \A i \in 1 .. Len(s) : a[i] = s[i]
  BY AppendFacts
<1> HIDE DEF a
<1>2. ASSUME NEW x, NEW y, Before(a, x, y) PROVE Before(s, x, y) \/ (In(x, s) /\ y = e)
  <2>1. PICK i, j \in 1 .. Len(a) : i < j /\ a[i] = x /\ a[j] = y
    BY <1>2 DEF Before
  <2>2. i \in 1 .. Len(s) /\ s[i] = x
    BY <1>1, <2>1
  <2>3. CASE j = Len(s) + 1
    BY <1>1, <2>1, <2>2, <2>3 DEF In
  <2>4. CASE j \in 1 .. Len(s)
    BY <1>1, <2>1, <2>2, <2>4 DEF Before
  <2> QED
    BY <1>1, <2>1, <2>3, <2>4
<1> QED
  BY <1>2 DEF a

LEMMA LeaveOrder ==
    ASSUME NEW S, NEW s \in Seq(S), s # << >>
    PROVE  /\ \A x, y : Before(Tail(s), x, y) => Before(s, x, y)
           /\ \A x : In(x, Tail(s)) => In(x, s) /\ Before(s, Head(s), x)
           /\ In(Head(s), s)
<1> DEFINE t == Tail(s)
<1>1. /\ Len(s) \in Nat \ {0} /\ Len(t) = Len(s) - 1 /\ Head(s) = s[1]
      /\ \A i \in 1 .. Len(s) - 1 : t[i] = s[i + 1]
  BY TailFacts
<1> HIDE DEF t
<1>2. ASSUME NEW x, NEW y, Before(t, x, y) PROVE Before(s, x, y)
  <2>1. PICK i, j \in 1 .. Len(t) : i < j /\ t[i] = x /\ t[j] = y
    BY <1>2 DEF Before
  <2>2. /\ i + 1 \in 1 .. Len(s) /\ j + 1 \in 1 .. Len(s) /\ i + 1 < j + 1
        /\ s[i + 1] = x /\ s[j + 1] = y
    BY <1>1, <2>1
  <2> QED
    BY <2>2 DEF Before
<1>3. ASSUME NEW x, In(x, t) PROVE In(x, s) /\ Before(s, Head(s), x)
  <2>1. PICK i \in 1 .. Len(t) : t[i] = x
    BY <1>3 DEF In
  <2>2. i + 1 \in 1 .. Len(s) /\ 1 \in 1 .. Len(s) /\ 1 < i + 1 /\ s[i + 1] = x
    BY <1>1, <2>1
  <2> QED
    BY <1>1, <2>2 DEF In, Before
<1>4. In(Head(s), s)
  BY <1>1 DEF In
<1> QED
  BY <1>2, <1>3, <1>4 DEF t

\* The order of a queue outlives a join, and what is in it is before what joins.
LEMMA JoinBehind ==
    ASSUME NEW S, NEW s \in Seq(S), NEW e \in S
    PROVE  /\ \A x, y : Before(s, x, y) => Before(Append(s, e), x, y)
           /\ \A x : In(x, s) => Before(Append(s, e), x, e)
<1> DEFINE a == Append(s, e)
<1>1. /\ Len(s) \in Nat /\ Len(a) = Len(s) + 1 /\ a[Len(s) + 1] = e
      /\ \A i \in 1 .. Len(s) : a[i] = s[i]
  BY AppendFacts
<1> HIDE DEF a
<1>2. ASSUME NEW x, NEW y, Before(s, x, y) PROVE Before(a, x, y)
  <2>1. PICK i, j \in 1 .. Len(s) : i < j /\ s[i] = x /\ s[j] = y
    BY <1>2 DEF Before
  <2>2. i \in 1 .. Len(a) /\ j \in 1 .. Len(a) /\ a[i] = x /\ a[j] = y
    BY <1>1, <2>1
  <2> QED
    BY <2>1, <2>2 DEF Before
<1>3. ASSUME NEW x, In(x, s) PROVE Before(a, x, e)
  <2>1. PICK i \in 1 .. Len(s) : s[i] = x
    BY <1>3 DEF In
  <2>2. i \in 1 .. Len(a) /\ Len(s) + 1 \in 1 .. Len(a) /\ i < Len(s) + 1 /\ a[i] = x
    BY <1>1, <2>1
  <2> QED
    BY <1>1, <2>2 DEF Before
<1> QED
  BY <1>2, <1>3 DEF a

\* The head of a queue without repeats is behind none, and the others keep their
\* order when it leaves.
LEMMA LeaveBehind ==
    ASSUME NEW S, NEW s \in Seq(S), s # << >>, Distinct(s), NEW x, NEW y, Before(s, x, y)
    PROVE  y # Head(s) /\ (x = Head(s) \/ Before(Tail(s), x, y))
<1> DEFINE t == Tail(s)
<1>1. /\ Len(s) \in Nat \ {0} /\ Len(t) = Len(s) - 1 /\ Head(s) = s[1]
      /\ \A i \in 1 .. Len(s) - 1 : t[i] = s[i + 1]
  BY TailFacts
<1> HIDE DEF t
<1>2. PICK i, j \in 1 .. Len(s) : i < j /\ s[i] = x /\ s[j] = y
  BY DEF Before
<1>3. y # Head(s)
  BY <1>1, <1>2 DEF Distinct
<1>4. CASE i = 1
  BY <1>1, <1>2, <1>3, <1>4
<1>5. CASE i # 1
  <2>1. /\ i - 1 \in 1 .. Len(t) /\ j - 1 \in 1 .. Len(t) /\ i - 1 < j - 1
        /\ t[i - 1] = s[(i - 1) + 1] /\ t[j - 1] = s[(j - 1) + 1]
    BY <1>1, <1>2, <1>5
  <2>2. (i - 1) + 1 = i /\ (j - 1) + 1 = j
    BY <1>2
  <2>3. Before(t, x, y)
    BY <1>2, <2>1, <2>2 DEF Before
  <2> QED
    BY <1>3, <2>3 DEF t
<1> QED
  BY <1>4, <1>5

\* An element put in front of a queue is behind none.
LEMMA PushOrder ==
    ASSUME NEW S, NEW s \in Seq(S), NEW e \in S, NEW x, NEW y, Before(<<e>> \o s, x, y), x # e
    PROVE  Before(s, x, y)
<1> DEFINE a == <<e>> \o s
<1>1. /\ Len(s) \in Nat /\ Len(a) = Len(s) + 1 /\ a[1] = e
      /\ \A i \in 2 .. Len(a) : i - 1 \in 1 .. Len(s) /\ a[i] = s[i - 1]
  OBVIOUS
<1>2. Before(a, x, y)
  OBVIOUS
<1> HIDE DEF a
<1>3. PICK i, j \in 1 .. Len(a) : i < j /\ a[i] = x /\ a[j] = y
  BY <1>2 DEF Before
<1>4. i \in 2 .. Len(a) /\ j \in 2 .. Len(a)
  BY <1>1, <1>3
<1>5. i - 1 \in 1 .. Len(s) /\ j - 1 \in 1 .. Len(s) /\ i - 1 < j - 1 /\ s[i - 1] = x /\ s[j - 1] = y
  BY <1>1, <1>3, <1>4
<1> QED
  BY <1>5 DEF Before

-----------------------------------------------------------------------------
(* A queue whose elements are looked at through a function.                 *)

LEMMA SameQueue ==
    ASSUME NEW S, NEW s \in Seq(S), NEW t \in Seq(S), Len(s) = Len(t),
           \A i \in 1 .. Len(s) : s[i] = t[i]
    PROVE  s = t
OBVIOUS

\* The queue s with g[x] for x.
Through(s, g) == [n \in 1 .. Len(s) |-> g[s[n]]]

LEMMA ThroughFacts ==
    ASSUME NEW S, NEW s \in Seq(S), NEW g, NEW R, \A x \in S : g[x] \in R
    PROVE  /\ Through(s, g) \in Seq(R)
           /\ Len(Through(s, g)) = Len(s)
           /\ \A i \in 1 .. Len(s) : Through(s, g)[i] = g[s[i]]
<1>1. Len(s) \in Nat /\ \A i \in 1 .. Len(s) : s[i] \in S
  OBVIOUS
<1>2. \A i \in 1 .. Len(s) : g[s[i]] \in R
  BY <1>1
<1> QED
  BY <1>1, <1>2 DEF Through

LEMMA ThroughAppend ==
    ASSUME NEW S, NEW s \in Seq(S), NEW e \in S, NEW g
    PROVE  Through(Append(s, e), g) = Append(Through(s, g), g[e])
<1> DEFINE R == {g[x] : x \in S}
           a == Append(s, e)
           t == Through(a, g)
           u == Append(Through(s, g), g[e])
<1>1. /\ a \in Seq(S) /\ Len(a) = Len(s) + 1 /\ Len(s) \in Nat
      /\ \A i \in 1 .. Len(s) : a[i] = s[i]
      /\ a[Len(s) + 1] = e
  BY AppendFacts
<1>0. \A x \in S : g[x] \in R
  OBVIOUS
<1> HIDE DEF R
<1>2. /\ Through(s, g) \in Seq(R) /\ Len(Through(s, g)) = Len(s) /\ g[e] \in R
      /\ \A i \in 1 .. Len(s) : Through(s, g)[i] = g[s[i]]
  <2>1. Through(s, g) \in Seq(R)
    BY <1>0, ThroughFacts
  <2>2. Len(Through(s, g)) = Len(s) /\ \A i \in 1 .. Len(s) : Through(s, g)[i] = g[s[i]]
    BY <1>1 DEF Through
  <2> QED
    BY <1>0, <2>1, <2>2
<1>3. /\ t \in Seq(R) /\ Len(t) = Len(s) + 1
      /\ \A i \in 1 .. Len(a) : t[i] = g[a[i]]
  <2> HIDE DEF a
  <2>1. t \in Seq(R)
    BY <1>0, <1>1, ThroughFacts
  <2>2. Len(t) = Len(a) /\ \A i \in 1 .. Len(a) : t[i] = g[a[i]]
    BY <1>1 DEF Through
  <2> QED
    BY <1>1, <2>1, <2>2
<1>4. /\ u \in Seq(R) /\ Len(u) = Len(s) + 1
      /\ \A i \in 1 .. Len(s) : u[i] = Through(s, g)[i]
      /\ u[Len(s) + 1] = g[e]
  BY <1>2, AppendFacts
<1> HIDE DEF a, t, u
<1>5. ASSUME NEW i \in 1 .. Len(t) PROVE t[i] = u[i]
  <2>1. i \in 1 .. Len(a) /\ (i \in 1 .. Len(s) \/ i = Len(s) + 1)
    BY <1>1, <1>3
  <2> QED
    BY <1>1, <1>2, <1>3, <1>4, <2>1
<1>6. t = u
  BY <1>3, <1>4, <1>5, SameQueue
<1> QED
  BY <1>6 DEF a, t, u

\* What goes from a queue goes from what is seen of it.
LEMMA ThroughWithout ==
    ASSUME NEW S, NEW s \in Seq(S), NEW g, NEW D, NEW E,
           \A x \in S : In(x, s) => (x \in D <=> g[x] \in E)
    PROVE  Through(Without(s, D), g) = Without(Through(s, g), E)
<1> DEFINE t == Through(s, g)
<1>0. /\ Len(s) \in Nat /\ \A i \in 1 .. Len(s) : s[i] \in S
      /\ Len(t) = Len(s) /\ \A i \in 1 .. Len(s) : t[i] = g[s[i]]
  <2>1. Len(t) = Len(s) /\ \A i \in 1 .. Len(s) : t[i] = g[s[i]]
    BY DEF Through
  <2> QED
    BY <2>1
<1> HIDE DEF t
<1>1. PICK f : Keeps(s, D, Len(s), f) /\ Without(s, D) = f[Len(s)]
  BY <1>0, WithoutKeeps
<1>2. PICK h : Keeps(t, E, Len(s), h) /\ Without(t, E) = h[Len(s)]
  BY <1>0, WithoutKeeps
<1>3. \A k \in 0 .. Len(s) :
         f[k] = IF k = 0 THEN << >>
                ELSE IF s[k] \in D THEN f[k - 1] ELSE Append(f[k - 1], s[k])
  BY <1>1, Zenon DEF Keeps
<1>4. \A k \in 0 .. Len(s) :
         h[k] = IF k = 0 THEN << >>
                ELSE IF t[k] \in E THEN h[k - 1] ELSE Append(h[k - 1], t[k])
  BY <1>2, Zenon DEF Keeps
<1> DEFINE Right(n) == f[n] \in Seq(S) /\ Through(f[n], g) = h[n]
           T == {n \in 0 .. Len(s) : ~Right(n)}
<1>5. T = {}
  <2> SUFFICES ASSUME T # {} PROVE FALSE
    OBVIOUS
  <2>1. PICK n \in T : \A k \in T : n <= k
    <3> HIDE DEF T
    <3>1. T \in SUBSET Nat
      BY <1>0 DEF T
    <3> QED
      BY <3>1, Least
  <2>2. n \in 0 .. Len(s) /\ ~Right(n)
    OBVIOUS
  <2> HIDE DEF Right
  <2>3. CASE n = 0
    <3>1. f[n] = << >> /\ h[n] = << >>
      BY <1>3, <1>4, <2>2, <2>3
    <3>2. Through(<< >>, g) = << >>
      BY DEF Through
    <3> QED
      BY <2>2, <3>1, <3>2 DEF Right
  <2>4. CASE n # 0
    <3>1. n - 1 \in 0 .. Len(s) /\ n - 1 \notin T /\ n \in 1 .. Len(s) /\ s[n] \in S
      BY <1>0, <2>1, <2>2, <2>4
    <3>2. f[n - 1] \in Seq(S) /\ Through(f[n - 1], g) = h[n - 1]
      BY <3>1 DEF Right
    <3>3. (s[n] \in D <=> t[n] \in E) /\ t[n] = g[s[n]]
      BY <1>0, <3>1 DEF In
    <3>4. CASE s[n] \in D
      <4>1. f[n] = f[n - 1] /\ h[n] = h[n - 1]
        BY <1>3, <1>4, <2>2, <2>4, <3>3, <3>4
      <4> QED
        BY <2>2, <3>2, <4>1 DEF Right
    <3>5. CASE s[n] \notin D
      <4>1. f[n] = Append(f[n - 1], s[n]) /\ h[n] = Append(h[n - 1], g[s[n]])
        BY <1>3, <1>4, <2>2, <2>4, <3>3, <3>5
      <4>2. f[n] \in Seq(S)
        BY <3>1, <3>2, <4>1, AppendInSeq
      <4>3. Through(f[n], g) = Append(Through(f[n - 1], g), g[s[n]])
        <5> DEFINE w == f[n - 1]
        <5>1. w \in Seq(S) /\ f[n] = Append(w, s[n])
          BY <3>2, <4>1
        <5> HIDE DEF w
        <5>2. Through(Append(w, s[n]), g) = Append(Through(w, g), g[s[n]])
          BY <3>1, <5>1, ThroughAppend
        <5> QED
          BY <5>1, <5>2 DEF w
      <4> QED
        BY <2>2, <3>2, <4>1, <4>2, <4>3 DEF Right
    <3> QED
      BY <3>4, <3>5
  <2> QED
    BY <2>3, <2>4
<1>6. Len(s) \in 0 .. Len(s)
  BY <1>0
<1>7. Right(Len(s))
  BY <1>5, <1>6
<1> HIDE DEF Right
<1> QED
  BY <1>1, <1>2, <1>7 DEF Right, t

\* A queue loses nothing when none of it is to go.
LEMMA WithoutNone ==
    ASSUME NEW S, NEW s \in Seq(S), NEW D, \A x \in D : ~In(x, s)
    PROVE  Without(s, D) = s
<1>0. Len(s) \in Nat /\ \A i \in 1 .. Len(s) : s[i] \in S /\ s[i] \notin D
  BY DEF In
<1>1. PICK f : Keeps(s, D, Len(s), f) /\ Without(s, D) = f[Len(s)]
  BY <1>0, WithoutKeeps
<1>2. \A k \in 0 .. Len(s) :
         f[k] = IF k = 0 THEN << >>
                ELSE IF s[k] \in D THEN f[k - 1] ELSE Append(f[k - 1], s[k])
  BY <1>1, Zenon DEF Keeps
<1> DEFINE Right(n) == f[n] \in Seq(S) /\ Len(f[n]) = n /\ \A i \in 1 .. n : f[n][i] = s[i]
           T == {n \in 0 .. Len(s) : ~Right(n)}
<1>3. T = {}
  <2> SUFFICES ASSUME T # {} PROVE FALSE
    OBVIOUS
  <2>1. PICK n \in T : \A k \in T : n <= k
    <3> HIDE DEF T
    <3>1. T \in SUBSET Nat
      BY <1>0 DEF T
    <3> QED
      BY <3>1, Least
  <2>2. n \in 0 .. Len(s) /\ ~Right(n)
    OBVIOUS
  <2> HIDE DEF Right
  <2>3. CASE n = 0
    <3>1. f[n] = << >>
      BY <1>2, <2>2, <2>3
    <3> QED
      BY <2>2, <2>3, <3>1 DEF Right
  <2>4. CASE n # 0
    <3>1. n - 1 \in 0 .. Len(s) /\ n - 1 \notin T /\ n \in 1 .. Len(s) /\ s[n] \in S
          /\ s[n] \notin D
      BY <1>0, <2>1, <2>2, <2>4
    <3> DEFINE w == f[n - 1]
    <3>2. w \in Seq(S) /\ Len(w) = n - 1 /\ \A i \in 1 .. n - 1 : w[i] = s[i]
      BY <3>1 DEF Right
    <3>3. f[n] = Append(w, s[n])
      BY <1>2, <2>2, <2>4, <3>1
    <3> HIDE DEF w
    <3>4. /\ f[n] \in Seq(S) /\ Len(f[n]) = Len(w) + 1
          /\ \A i \in 1 .. Len(w) : f[n][i] = w[i]
          /\ f[n][Len(w) + 1] = s[n]
      BY <3>1, <3>2, <3>3, AppendFacts
    <3>5. Len(f[n]) = n /\ \A i \in 1 .. n : f[n][i] = s[i]
      <4>1. n \in Nat \ {0} /\ Len(w) = n - 1 /\ Len(w) + 1 = n
        BY <1>0, <3>1, <3>2
      <4>2. f[n][n] = s[n] /\ Len(f[n]) = n
        BY <3>4, <4>1
      <4>3. ASSUME NEW i \in 1 .. n PROVE f[n][i] = s[i]
        <5>1. CASE i = n
          BY <4>2, <5>1
        <5>2. CASE i # n
          <6>1. i \in 1 .. n - 1
            BY <4>1, <5>2
          <6> QED
            BY <3>2, <3>4, <4>1, <6>1
        <5> QED
          BY <5>1, <5>2
      <4> QED
        BY <4>2, <4>3
    <3> QED
      BY <2>2, <3>4, <3>5 DEF Right
  <2> QED
    BY <2>3, <2>4
<1>4. Len(s) \in 0 .. Len(s)
  BY <1>0
<1>5. Right(Len(s))
  BY <1>3, <1>4
<1> HIDE DEF Right
<1>6. Without(s, D) \in Seq(S) /\ Len(Without(s, D)) = Len(s)
      /\ \A i \in 1 .. Len(s) : Without(s, D)[i] = s[i]
  BY <1>1, <1>5 DEF Right
<1> QED
  BY <1>6, SameQueue

\* What stays stays in its order.
LEMMA WithoutAfter ==
    ASSUME NEW S, NEW s \in Seq(S), Distinct(s), NEW D, NEW x, NEW y,
           Before(s, x, y), x \notin D, y \notin D
    PROVE  Before(Without(s, D), x, y)
<1> DEFINE w == Without(s, D)
<1>1. PICK i, j \in 1 .. Len(s) : i < j /\ s[i] = x /\ s[j] = y
  BY DEF Before
<1>2. In(x, w) /\ In(y, w)
  <2>1. In(x, s) /\ In(y, s)
    BY <1>1 DEF In
  <2> QED
    BY <2>1, WithoutFacts
<1>3. ~Before(s, y, x) /\ x # y
  <2>0. Len(s) \in Nat
    OBVIOUS
  <2> QED
    BY <1>1, <2>0 DEF Before, Distinct
<1>4. ~Before(w, y, x)
  BY <1>3, WithoutBefore
<1>5. Len(w) \in Nat
  BY WithoutFacts
<1> HIDE DEF w
<1>6. PICK m, n \in 1 .. Len(w) : w[m] = x /\ w[n] = y
  BY <1>2 DEF In
<1>7. m # n /\ ~(n < m)
  BY <1>3, <1>4, <1>6 DEF Before
<1>8. m < n
  BY <1>5, <1>7
<1> QED
  BY <1>6, <1>8 DEF Before, w
=============================================================================
