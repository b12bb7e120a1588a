----------------------------- MODULE PipeProofs -----------------------------
(* Proofs about Pipe, for any number of readers and writers, whatever they  *)
(* read and write, and any limits: what is written is read, in its order.   *)
EXTENDS Pipe, QueueLemmas, SequenceTheorems

-----------------------------------------------------------------------------
(* The blocks of a queue as one.                                            *)

Nothing == [data |-> << >>, alloc |-> 0]
Cat(s, t) == s \o t
Both(a, b) == [data |-> Cat(a.data, b.data), alloc |-> a.alloc + b.alloc]
Wholes == [data : Seq(Nat), alloc : Nat]

LEMMA BlockWhole == \A b \in Block : b \in Wholes /\ Len(b.data) <= b.alloc
<1>1. ASSUME NEW b \in Block PROVE b \in Wholes /\ Len(b.data) <= b.alloc
  <2>1. b \in [data : Seq(Nat), alloc : 0 .. Maxatomic] /\ Len(b.data) <= b.alloc
    BY DEF Block
  <2>2. 0 .. Maxatomic \subseteq Nat
    BY QioAssumption
  <2> QED
    BY <2>1, <2>2 DEF Wholes
<1> QED
  BY <1>1

LEMMA BothFacts ==
    ASSUME NEW a \in Wholes, NEW b \in Wholes
    PROVE  Both(a, b) \in Wholes
<1>1. Cat(a.data, b.data) \in Seq(Nat) /\ a.alloc + b.alloc \in Nat
  BY ConcatProperties DEF Wholes, Cat
<1> QED
  BY <1>1 DEF Both, Wholes

LEMMA NothingWhole == Nothing \in Wholes
<1>1. << >> \in Seq(Nat)
  OBVIOUS
<1> QED
  BY <1>1 DEF Nothing, Wholes

LEMMA BothNothing ==
    ASSUME NEW a \in Wholes
    PROVE  Both(Nothing, a) = a /\ Both(a, Nothing) = a
<1>1. a.data \in Seq(Nat) /\ a.alloc \in Nat /\ a = [data |-> a.data, alloc |-> a.alloc]
  BY DEF Wholes
<1>2. Cat(<< >>, a.data) = a.data /\ Cat(a.data, << >>) = a.data
  BY <1>1, ConcatEmptySeq DEF Cat
<1>3. 0 + a.alloc = a.alloc /\ a.alloc + 0 = a.alloc
  BY <1>1
<1> QED
  BY <1>1, <1>2, <1>3 DEF Both, Nothing, Wholes

LEMMA CatFacts ==
    \A s, t \in Seq(Nat) : Cat(s, t) \in Seq(Nat) /\ Len(Cat(s, t)) = Len(s) + Len(t)
BY JoinFacts DEF Cat

LEMMA NumsAssociate ==
    \A s, t, u \in Seq(Nat) : Cat(Cat(s, t), u) = Cat(s, Cat(t, u))
<1> TAKE s \in Seq(Nat), t \in Seq(Nat), u \in Seq(Nat)
<1> QED
  BY ConcatAssociative DEF Cat

LEMMA BothTwice ==
    ASSUME NEW a \in Wholes, NEW b \in Wholes, NEW c \in Wholes
    PROVE  Both(Both(a, b), c) = Both(a, Both(b, c))
<1>1. Cat(Cat(a.data, b.data), c.data) = Cat(a.data, Cat(b.data, c.data))
  <2>1. a.data \in Seq(Nat) /\ b.data \in Seq(Nat) /\ c.data \in Seq(Nat)
    BY DEF Wholes
  <2> QED
    BY <2>1, NumsAssociate
<1>2. (a.alloc + b.alloc) + c.alloc = a.alloc + (b.alloc + c.alloc)
  BY DEF Wholes
<1> QED
  BY <1>1, <1>2 DEF Both

Joins(s, m, f) == f = [n \in 0 .. m |-> IF n = 0 THEN Nothing ELSE Both(f[n - 1], s[n])]

\* The recursive function in Whole exists.
LEMMA JoinsExists ==
    ASSUME NEW s, NEW m \in Nat
    PROVE  \E f : Joins(s, m, f)
<1> DEFINE T == {n \in Nat : ~ \E f : Joins(s, n, f)}
<1>1. SUFFICES ASSUME T # {} PROVE FALSE
  OBVIOUS
<1>2. PICK n \in T : \A k \in T : n <= k
  <2> HIDE DEF T
  <2>1. T \in SUBSET Nat
    BY DEF T
  <2> QED
    BY <1>1, <2>1, Least
<1>3. CASE n = 0
  <2>1. Joins(s, 0, [k \in 0 .. 0 |-> Nothing])
    BY DEF Joins
  <2> QED
    BY <1>2, <1>3, <2>1
<1>4. CASE n # 0
  <2>1. n - 1 \in Nat /\ n - 1 \notin T
    BY <1>2, <1>4
  <2>2. PICK f : Joins(s, n - 1, f)
    BY <2>1
  <2> DEFINE e == Both(f[n - 1], s[n])
             g == [k \in 0 .. n |-> IF k = n THEN e ELSE f[k]]
  <2>3. \A k \in 0 .. n - 1 : f[k] = IF k = 0 THEN Nothing ELSE Both(f[k - 1], s[k])
    BY <2>2, Zenon DEF Joins
  <2>4. \A k \in 0 .. n : g[k] = IF k = 0 THEN Nothing ELSE Both(g[k - 1], s[k])
    <3>1. \A k \in 0 .. n : k = n \/ k \in 0 .. n - 1
      BY <1>2
    <3>2. \A k \in 0 .. n - 1 : g[k] = f[k]
      BY <1>2
    <3>3. n \in 0 .. n /\ g[n] = e
      BY <1>2
    <3>4. n - 1 \in 0 .. n - 1 /\ \A k \in 0 .. n - 1 : k # 0 => k - 1 \in 0 .. n - 1
      BY <1>2, <1>4
    <3> HIDE DEF g
    <3> QED
      BY <1>4, <2>3, <3>1, <3>2, <3>3, <3>4
  <2>5. Joins(s, n, g)
    <3>1. g = [k \in 0 .. n |-> g[k]]
      OBVIOUS
    <3> HIDE DEF g
    <3> QED
      BY <2>4, <3>1 DEF Joins
  <2> QED
    BY <1>2, <2>5
<1> QED
  BY <1>3, <1>4

\* Whole is the last of a sequence of wholes, each with one more block.
LEMMA WholeJoins ==
    ASSUME NEW s \in Seq(Block)
    PROVE  \E f : /\ Whole(s) = f[Len(s)]
                  /\ \A n \in 0 .. Len(s) : /\ f[n] = IF n = 0 THEN Nothing ELSE Both(f[n - 1], s[n])
                                            /\ f[n] \in Wholes
<1> DEFINE f == CHOOSE f : Joins(s, Len(s), f)
<1>0. Len(s) \in Nat /\ \A n \in 1 .. Len(s) : s[n] \in Wholes
  BY BlockWhole
<1>1. Joins(s, Len(s), f)
  BY <1>0, JoinsExists
<1>2. Whole(s) = f[Len(s)]
  BY DEF Whole, Joins, Both, Cat, Nothing
<1>3. \A n \in 0 .. Len(s) : f[n] = IF n = 0 THEN Nothing ELSE Both(f[n - 1], s[n])
  <2> HIDE DEF f
  <2> QED
    BY <1>1, Zenon DEF Joins
<1> HIDE DEF f
<1> DEFINE T == {n \in 0 .. Len(s) : f[n] \notin Wholes}
<1>4. T = {}
  <2> SUFFICES ASSUME T # {} PROVE FALSE
    OBVIOUS
  <2>1. PICK n \in T : \A k \in T : n <= k
    <3> HIDE DEF T
    <3>1. T \in SUBSET Nat
      BY <1>0 DEF T
    <3> QED
      BY <3>1, Least
  <2>2. n \in 0 .. Len(s) /\ f[n] \notin Wholes
    OBVIOUS
  <2>3. n # 0
    BY <1>3, <2>2, NothingWhole
  <2>4. n - 1 \in 0 .. Len(s) /\ n - 1 \notin T /\ n \in 1 .. Len(s)
    BY <1>0, <2>1, <2>2, <2>3
  <2>5. f[n - 1] \in Wholes /\ s[n] \in Wholes
    BY <1>0, <2>4
  <2> QED
    BY <1>3, <2>2, <2>3, <2>5, BothFacts
<1> QED
  BY <1>2, <1>3, <1>4

LEMMA WholeFacts ==
    ASSUME NEW s \in Seq(Block)
    PROVE  Whole(s) \in Wholes /\ (s = << >> => Whole(s) = Nothing)
<1>1. Len(s) \in Nat /\ (s = << >> => Len(s) = 0)
  OBVIOUS
<1>2. PICK f : /\ Whole(s) = f[Len(s)]
               /\ \A n \in 0 .. Len(s) : /\ f[n] = IF n = 0 THEN Nothing ELSE Both(f[n - 1], s[n])
                                         /\ f[n] \in Wholes
  BY WholeJoins
<1>3. Len(s) \in 0 .. Len(s)
  BY <1>1
<1> QED
  BY <1>1, <1>2, <1>3

\* A block more at the end.
LEMMA WholeAppend ==
    ASSUME NEW s \in Seq(Block), NEW b \in Block
    PROVE  Append(s, b) \in Seq(Block) /\ Whole(Append(s, b)) = Both(Whole(s), b)
<1> DEFINE a == Append(s, b)
<1>1. /\ a \in Seq(Block) /\ Len(s) \in Nat /\ Len(a) = Len(s) + 1
      /\ \A i \in 1 .. Len(s) : a[i] = s[i]
      /\ a[Len(s) + 1] = b
  BY AppendFacts
<1> HIDE DEF a
<1>2. PICK f : /\ Whole(s) = f[Len(s)]
               /\ \A n \in 0 .. Len(s) : /\ f[n] = IF n = 0 THEN Nothing ELSE Both(f[n - 1], s[n])
                                         /\ f[n] \in Wholes
  BY WholeJoins
<1>3. PICK g : /\ Whole(a) = g[Len(a)]
               /\ \A n \in 0 .. Len(a) : /\ g[n] = IF n = 0 THEN Nothing ELSE Both(g[n - 1], a[n])
                                         /\ g[n] \in Wholes
  BY <1>1, WholeJoins
<1> DEFINE T == {n \in 0 .. Len(s) : g[n] # f[n]}
<1>4. T = {}
  <2> SUFFICES ASSUME T # {} PROVE FALSE
    OBVIOUS
  <2>1. PICK n \in T : \A k \in T : n <= k
    <3> HIDE DEF T
    <3>1. T \in SUBSET Nat
      BY <1>1 DEF T
    <3> QED
      BY <3>1, Least
  <2>2. n \in 0 .. Len(s) /\ n \in 0 .. Len(a) /\ g[n] # f[n]
    BY <1>1
  <2>3. f[n] = IF n = 0 THEN Nothing ELSE Both(f[n - 1], s[n])
    BY <1>2, <2>2
  <2>4. g[n] = IF n = 0 THEN Nothing ELSE Both(g[n - 1], a[n])
    BY <1>3, <2>2
  <2>5. n # 0
    BY <2>2, <2>3, <2>4
  <2>6. n - 1 \in 0 .. Len(s) /\ n - 1 \notin T /\ n \in 1 .. Len(s)
    BY <1>1, <2>1, <2>2, <2>5
  <2>7. g[n - 1] = f[n - 1]
    BY <2>6
  <2> HIDE DEF T
  <2> QED
    BY <1>1, <2>2, <2>3, <2>4, <2>5, <2>6, <2>7
<1>5. g[Len(s)] = f[Len(s)]
  BY <1>1, <1>4
<1>6. g[Len(a)] = Both(g[Len(s)], b)
  <2>1. Len(a) \in 0 .. Len(a) /\ Len(a) # 0 /\ Len(a) - 1 = Len(s)
    BY <1>1
  <2>2. g[Len(a)] = Both(g[Len(a) - 1], a[Len(a)])
    BY <1>3, <2>1
  <2> QED
    BY <1>1, <2>1, <2>2
<1> QED
  BY <1>1, <1>2, <1>3, <1>5, <1>6 DEF a

\* A block more at the head.
LEMMA WholeCons ==
    ASSUME NEW s \in Seq(Block), NEW b \in Block
    PROVE  <<b>> \o s \in Seq(Block) /\ Whole(<<b>> \o s) = Both(b, Whole(s))
<1> DEFINE a == <<b>> \o s
<1>1. /\ a \in Seq(Block) /\ Len(s) \in Nat /\ Len(a) = Len(s) + 1
      /\ \A i \in 1 .. Len(s) : a[i + 1] = s[i]
      /\ a[1] = b
  OBVIOUS
<1> HIDE DEF a
<1>0. b \in Wholes /\ \A i \in 1 .. Len(s) : s[i] \in Wholes
  BY BlockWhole
<1>2. PICK f : /\ Whole(s) = f[Len(s)]
               /\ \A n \in 0 .. Len(s) : /\ f[n] = IF n = 0 THEN Nothing ELSE Both(f[n - 1], s[n])
                                         /\ f[n] \in Wholes
  BY WholeJoins
<1>3. PICK g : /\ Whole(a) = g[Len(a)]
               /\ \A n \in 0 .. Len(a) : /\ g[n] = IF n = 0 THEN Nothing ELSE Both(g[n - 1], a[n])
                                         /\ g[n] \in Wholes
  BY <1>1, WholeJoins
<1> DEFINE T == {n \in 0 .. Len(s) : g[n + 1] # Both(b, f[n])}
<1>4. T = {}
  <2> SUFFICES ASSUME T # {} PROVE FALSE
    OBVIOUS
  <2>1. PICK n \in T : \A k \in T : n <= k
    <3> HIDE DEF T
    <3>1. T \in SUBSET Nat
      BY <1>1 DEF T
    <3> QED
      BY <3>1, Least
  <2>2. n \in 0 .. Len(s) /\ n + 1 \in 0 .. Len(a) /\ n + 1 # 0 /\ g[n + 1] # Both(b, f[n])
    BY <1>1
  <2>3. f[n] = IF n = 0 THEN Nothing ELSE Both(f[n - 1], s[n])
    BY <1>2, <2>2
  <2>4. g[n + 1] = Both(g[n], a[n + 1])
    <3>1. g[n + 1] = Both(g[n + 1 - 1], a[n + 1])
      BY <1>3, <2>2
    <3>2. n + 1 - 1 = n
      BY <2>2
    <3> QED
      BY <3>1, <3>2
  <2>5. CASE n = 0
    <3>1. g[0] = Nothing
      BY <1>1, <1>3
    <3>2. g[1] = Both(Nothing, b) /\ f[0] = Nothing
      BY <1>1, <2>3, <2>4, <2>5, <3>1
    <3> QED
      BY <1>0, <2>2, <2>5, <3>2, BothNothing
  <2>6. CASE n # 0
    <3>1. n - 1 \in 0 .. Len(s) /\ n - 1 \notin T /\ n \in 1 .. Len(s) /\ n - 1 + 1 = n
      BY <1>1, <2>1, <2>2, <2>6
    <3>2. g[n] = Both(b, f[n - 1])
      BY <3>1
    <3>3. g[n + 1] = Both(Both(b, f[n - 1]), s[n])
      BY <1>1, <2>4, <3>1, <3>2
    <3>4. f[n - 1] \in Wholes /\ s[n] \in Wholes
      BY <1>0, <1>2, <3>1
    <3>5. g[n + 1] = Both(b, Both(f[n - 1], s[n]))
      BY <1>0, <3>3, <3>4, BothTwice
    <3> QED
      BY <2>2, <2>3, <2>6, <3>5
  <2> QED
    BY <2>5, <2>6
<1>5. g[Len(a)] = Both(b, f[Len(s)])
  <2>1. Len(s) \in 0 .. Len(s) /\ Len(s) \notin T
    BY <1>1, <1>4
  <2> QED
    BY <1>1, <2>1
<1> QED
  BY <1>1, <1>2, <1>3, <1>5 DEF a

LEMMA WholeTail ==
    ASSUME NEW s \in Seq(Block), s # << >>
    PROVE  /\ Head(s) \in Block /\ Tail(s) \in Seq(Block)
           /\ Whole(s) = Both(Head(s), Whole(Tail(s)))
<1>1. Head(s) \in Block /\ Tail(s) \in Seq(Block)
  BY TailFacts
<1>2. s = <<Head(s)>> \o Tail(s)
  OBVIOUS
<1> QED
  BY <1>1, <1>2, WholeCons

-----------------------------------------------------------------------------
(* The numbers of the bytes.                                                *)

Nums(g, k) == [i \in 1 .. k |-> g + i]

LEMMA NumsFacts ==
    ASSUME NEW g \in Nat, NEW k \in Nat
    PROVE  /\ Nums(g, k) \in Seq(Nat) /\ Len(Nums(g, k)) = k
           /\ \A i \in 1 .. k : Nums(g, k)[i] = g + i
BY DEF Nums

LEMMA NumsMore ==
    ASSUME NEW g \in Nat, NEW k \in Nat, NEW n \in Nat
    PROVE  Cat(Nums(g, k), Nums(g + k, n)) = Nums(g, k + n)
<1> DEFINE a == Nums(g, k)
           b == Nums(g + k, n)
           c == Nums(g, k + n)
<1>1. /\ a \in Seq(Nat) /\ Len(a) = k
      /\ \A i \in 1 .. k : a[i] = g + i
  BY NumsFacts
<1>2. /\ b \in Seq(Nat) /\ Len(b) = n
      /\ \A i \in 1 .. n : b[i] = g + k + i
  <2>1. g + k \in Nat
    OBVIOUS
  <2> QED
    BY <2>1, NumsFacts
<1>3. /\ c \in Seq(Nat) /\ Len(c) = k + n
      /\ \A i \in 1 .. k + n : c[i] = g + i
  BY NumsFacts
<1> HIDE DEF a, b, c
<1>4. /\ a \o b \in Seq(Nat) /\ Len(a \o b) = k + n
      /\ \A i \in 1 .. k + n : (a \o b)[i] = IF i <= k THEN a[i] ELSE b[i - k]
  BY <1>1, <1>2, JoinFacts
<1>5. ASSUME NEW i \in 1 .. k + n PROVE (a \o b)[i] = c[i]
  <2>1. CASE i <= k
    BY <1>1, <1>3, <1>4, <2>1
  <2>2. CASE ~(i <= k)
    <3>1. i - k \in 1 .. n /\ g + k + (i - k) = g + i
      BY <2>2
    <3>2. b[i - k] = g + i
      BY <1>2, <3>1
    <3> QED
      BY <1>3, <1>4, <2>2, <3>2
  <2> QED
    BY <2>1, <2>2
<1>6. a \o b = c
  BY <1>3, <1>4, <1>5, SeqEqual
<1> QED
  BY <1>6 DEF a, b, c, Cat

\* r is what is left of s when the first n bytes have been taken.
Rest(r, s, n) == Len(r) = Len(s) - n /\ \A i \in 1 .. Len(s) - n : r[i] = s[i + n]

LEMMA NumsLess ==
    ASSUME NEW g \in Nat, NEW k \in Nat, NEW s \in Seq(Nat), NEW t \in Seq(Nat),
           Cat(s, t) = Nums(g, k),
           NEW n \in 0 .. Len(s), NEW r \in Seq(Nat), Rest(r, s, n)
    PROVE  Len(s) <= k /\ Cat(r, t) = Nums(g + n, k - n)
<1> DEFINE c == Nums(g + n, k - n)
<1>0. Len(s) \in Nat /\ Len(t) \in Nat /\ n \in Nat /\ n <= Len(s)
  OBVIOUS
<1>1. /\ r \in Seq(Nat) /\ Len(r) = Len(s) - n
      /\ \A i \in 1 .. Len(s) - n : r[i] = s[i + n]
  BY DEF Rest
<1>2. /\ Len(s) + Len(t) = k
      /\ \A i \in 1 .. Len(s) + Len(t) : g + i = IF i <= Len(s) THEN s[i] ELSE t[i - Len(s)]
  <2>1. /\ Len(s \o t) = Len(s) + Len(t)
        /\ \A i \in 1 .. Len(s) + Len(t) : (s \o t)[i] = IF i <= Len(s) THEN s[i] ELSE t[i - Len(s)]
    BY JoinFacts
  <2>2. Len(Nums(g, k)) = k /\ \A i \in 1 .. k : Nums(g, k)[i] = g + i
    BY NumsFacts
  <2> QED
    BY <2>1, <2>2 DEF Cat
<1>3. k - n \in Nat /\ g + n \in Nat
  BY <1>0, <1>2
<1>4. /\ c \in Seq(Nat) /\ Len(c) = k - n
      /\ \A i \in 1 .. k - n : c[i] = g + n + i
  BY <1>3, NumsFacts
<1> HIDE DEF c
<1>5. /\ r \o t \in Seq(Nat) /\ Len(r \o t) = Len(r) + Len(t)
      /\ \A i \in 1 .. Len(r) + Len(t) : (r \o t)[i] = IF i <= Len(r) THEN r[i] ELSE t[i - Len(r)]
  BY <1>1, JoinFacts
<1>6. ASSUME NEW i \in 1 .. k - n PROVE (r \o t)[i] = c[i]
  <2>1. i \in 1 .. Len(r) + Len(t) /\ i + n \in 1 .. Len(s) + Len(t) /\ i \in Nat
    BY <1>0, <1>1, <1>2
  <2>2. CASE i <= Len(r)
    <3>1. i \in 1 .. Len(s) - n /\ i + n <= Len(s)
      BY <1>0, <1>1, <2>1, <2>2
    <3>2. (r \o t)[i] = s[i + n] /\ s[i + n] = g + (i + n)
      BY <1>1, <1>2, <1>5, <2>1, <2>2, <3>1
    <3>3. g + (i + n) = g + n + i
      BY <1>0, <2>1
    <3> QED
      BY <1>4, <3>2, <3>3
  <2>3. CASE ~(i <= Len(r))
    <3>1. ~(i + n <= Len(s)) /\ i + n - Len(s) = i - Len(r)
      BY <1>0, <1>1, <2>1, <2>3
    <3>2. (r \o t)[i] = t[i - Len(r)] /\ t[i + n - Len(s)] = g + (i + n)
      BY <1>2, <1>5, <2>1, <2>3, <3>1
    <3>3. g + (i + n) = g + n + i
      BY <1>0, <2>1
    <3> QED
      BY <1>4, <3>1, <3>2, <3>3
  <2> QED
    BY <2>2, <2>3
<1>7. r \o t = c
  <2>1. Len(r \o t) = Len(c)
    BY <1>0, <1>1, <1>2, <1>4, <1>5
  <2> QED
    BY <1>4, <1>5, <1>6, <2>1, SeqEqual
<1> QED
  BY <1>0, <1>1, <1>2, <1>7 DEF c, Cat

LEMMA NumsPassed ==
    ASSUME NEW g \in Nat, NEW k \in Nat, NEW s \in Seq(Nat), NEW t \in Seq(Nat),
           Cat(s, t) = Nums(g, k)
    PROVE  Len(s) <= k /\ t = Nums(g + Len(s), k - Len(s))
<1>1. Len(s) \in 0 .. Len(s) /\ Len(s) \in Nat /\ << >> \in Seq(Nat)
  OBVIOUS
<1>2. PICK n \in 0 .. Len(s) : n = Len(s)
  BY <1>1
<1>3. PICK r \in Seq(Nat) : r = << >>
  BY <1>1, Zenon
<1>4. Rest(r, s, n)
  BY <1>1, <1>2, <1>3 DEF Rest
<1>5. Len(s) <= k /\ Cat(r, t) = Nums(g + n, k - n)
  BY <1>4, NumsLess
<1>6. Cat(<< >>, t) = t
  BY ConcatEmptySeq DEF Cat
<1> QED
  BY <1>2, <1>3, <1>5, <1>6

-----------------------------------------------------------------------------
(* A QLock, the Rendez its holder sleeps on, and what the Procs that use    *)
(* them do.                                                                 *)

\* The Procs of P queue for the QLock lk but where they are at a label of out;
\* past "qlock" they hold it.  z is the one that sleeps on the Rendez.
Side(P, out, lk, z, c) ==
    /\ Distinct(lk)
    /\ \A p \in P : /\ In(p, lk) <=> c[p] \notin out
                    /\ c[p] \notin out \cup {"qlock"} => p = Head(lk)
    /\ z # None => c[z] = "asleep"

\* None of P moves, but for a Wakeup of z.
Idles(P, lk, z, c, lk2, z2, d) ==
    /\ lk2 = lk
    /\ \/ z2 = z /\ \A p \in P : d[p] = c[p]
       \/ z2 = None /\ \A p \in P : d[p] = IF p = z THEN "woken" ELSE c[p]

\* p asks for the QLock, goes on as its holder, or lets it go.
Moves(P, out, p, lk, z, c, lk2, z2, d) ==
    /\ \A x \in P : x # p => d[x] = c[x]
    /\ \/ c[p] \in out /\ d[p] = "qlock" /\ lk2 = Append(lk, p) /\ z2 = z
       \/ /\ c[p] \notin out /\ p = Head(lk) /\ d[p] \notin out /\ lk2 = lk
          /\ (z2 = z /\ c[p] # "asleep") \/ (z2 = p /\ d[p] = "asleep")
       \/ /\ c[p] \notin out /\ p = Head(lk) /\ d[p] \in out /\ lk2 = Tail(lk)
          /\ (z2 = z /\ c[p] # "asleep") \/ z2 = (IF z = p THEN None ELSE z)

LEMMA SideIdles ==
    ASSUME NEW P, None \notin P, NEW out, out \subseteq {"idle", "more"},
           NEW lk \in Seq(P), NEW z \in P \cup {None}, NEW c,
           NEW lk2, NEW z2, NEW d,
           Side(P, out, lk, z, c), Idles(P, lk, z, c, lk2, z2, d)
    PROVE  /\ Side(P, out, lk2, z2, d)
           /\ lk2 \in Seq(P) /\ z2 \in P \cup {None}
<1>1. lk2 = lk /\ z2 \in P \cup {None}
  BY DEF Idles
<1>2. ASSUME NEW p \in P PROVE d[p] = c[p] \/ (c[p] = "asleep" /\ d[p] = "woken")
  BY DEF Idles, Side
<1>3. z2 # None => d[z2] = "asleep"
  BY DEF Idles, Side
<1>4. ASSUME NEW p \in P
      PROVE  (In(p, lk) <=> d[p] \notin out) /\ (d[p] \notin out \cup {"qlock"} => p = Head(lk))
  <2>1. (In(p, lk) <=> c[p] \notin out) /\ (c[p] \notin out \cup {"qlock"} => p = Head(lk))
    BY DEF Side
  <2>2. CASE d[p] = c[p]
    BY <2>1, <2>2
  <2>3. CASE c[p] = "asleep" /\ d[p] = "woken"
    BY <2>1, <2>3
  <2> QED
    BY <1>2, <2>2, <2>3
<1>5. Distinct(lk)
  BY DEF Side
<1> QED
  BY <1>1, <1>2, <1>3, <1>4, <1>5 DEF Side

LEMMA SideMoves ==
    ASSUME NEW P, None \notin P, NEW out, out \subseteq {"idle", "more"},
           NEW lk \in Seq(P), NEW z \in P \cup {None}, NEW c,
           NEW lk2, NEW z2, NEW d, NEW p \in P,
           Side(P, out, lk, z, c), Moves(P, out, p, lk, z, c, lk2, z2, d)
    PROVE  /\ Side(P, out, lk2, z2, d)
           /\ lk2 \in Seq(P) /\ z2 \in P \cup {None}
<1>1. /\ Distinct(lk)
      /\ \A x \in P : /\ In(x, lk) <=> c[x] \notin out
                      /\ c[x] \notin out \cup {"qlock"} => x = Head(lk)
      /\ z # None => c[z] = "asleep"
  BY DEF Side
<1>2. \A x \in P : x # p => d[x] = c[x]
  BY DEF Moves
<1>3. CASE c[p] \in out /\ d[p] = "qlock" /\ lk2 = Append(lk, p) /\ z2 = z
  <2>1. ~In(p, lk) /\ z # p
    BY <1>1, <1>3
  <2>2. Distinct(lk2) /\ lk2 \in Seq(P) /\ \A x \in P : In(x, lk2) <=> In(x, lk) \/ x = p
    BY <1>1, <1>3, <2>1, JoinQueue, AppendInSeq
  <2>3. ASSUME NEW x \in P, d[x] \notin out \cup {"qlock"} PROVE x = Head(lk2)
    <3>1. c[x] \notin out \cup {"qlock"}
      BY <1>2, <1>3, <2>3
    <3>2. x = Head(lk) /\ In(x, lk)
      BY <1>1, <3>1
    <3>3. lk # << >>
      BY <3>2 DEF In
    <3> QED
      BY <1>3, <3>2, <3>3, AppendBehind
  <2>4. \A x \in P : In(x, lk2) <=> d[x] \notin out
    BY <1>1, <1>2, <1>3, <2>2
  <2>5. z2 # None => d[z2] = "asleep"
    BY <1>1, <1>2, <1>3, <2>1
  <2> QED
    BY <1>3, <2>2, <2>3, <2>4, <2>5 DEF Side
<1>4. CASE /\ c[p] \notin out /\ p = Head(lk) /\ d[p] \notin out /\ lk2 = lk
           /\ (z2 = z /\ c[p] # "asleep") \/ (z2 = p /\ d[p] = "asleep")
  <2>1. \A x \in P : /\ In(x, lk2) <=> d[x] \notin out
                     /\ d[x] \notin out \cup {"qlock"} => x = Head(lk2)
    BY <1>1, <1>2, <1>4
  <2>2. (z2 # None => d[z2] = "asleep") /\ z2 \in P \cup {None}
    BY <1>1, <1>2, <1>4
  <2> QED
    BY <1>1, <1>4, <2>1, <2>2 DEF Side
<1>5. CASE /\ c[p] \notin out /\ p = Head(lk) /\ d[p] \in out /\ lk2 = Tail(lk)
           /\ (z2 = z /\ c[p] # "asleep") \/ z2 = (IF z = p THEN None ELSE z)
  <2>1. In(p, lk) /\ lk # << >>
    BY <1>1, <1>5 DEF In
  <2>2. /\ Distinct(lk2) /\ lk2 \in Seq(P)
        /\ \A x \in P : In(x, lk2) <=> In(x, lk) /\ x # p
    BY <1>1, <1>5, <2>1, LeaveQueue, TailInSeq
  <2>3. ASSUME NEW x \in P PROVE d[x] \in out \cup {"qlock"} /\ (In(x, lk2) <=> d[x] \notin out)
    <3>1. CASE x = p
      BY <1>5, <2>2, <3>1
    <3>2. CASE x # p
      <4>1. d[x] = c[x] /\ x # Head(lk)
        BY <1>2, <1>5, <3>2
      <4> QED
        BY <1>1, <2>2, <3>2, <4>1
    <3> QED
      BY <3>1, <3>2
  <2>4. (z2 # None => d[z2] = "asleep") /\ z2 \in P \cup {None}
    <3>1. z2 # None => z2 = z /\ z2 # p
      BY <1>1, <1>5
    <3> QED
      BY <1>1, <1>2, <3>1
  <2> QED
    BY <2>2, <2>3, <2>4 DEF Side
<1> QED
  BY <1>3, <1>4, <1>5 DEF Moves

-----------------------------------------------------------------------------
(* What the actions do to the QLocks, the Rendez and the block in hand.     *)

LocksTyped == /\ rlock \in Seq(Readers) /\ wlock \in Seq(Writers)
              /\ rr \in Readers \cup {None} /\ wr \in Writers \cup {None}
              /\ pc \in [Procs -> Labels]

ReadSide == Side(Readers, {"idle"}, rlock, rr, pc)
WriteSide == Side(Writers, {"idle", "more"}, wlock, wr, pc)

\* A block is in hand while a reader copies it.
ReaderLabels == {"idle", "qlock", "copy", "sleep", "asleep", "woken", "wake"}
Handed == /\ \A r \in Readers : pc[r] \in ReaderLabels
          /\ \A w \in Writers : pc[w] # "copy"
          /\ hand # None <=> \E r \in Readers : pc[r] = "copy"

Holds == LocksTyped /\ ReadSide /\ WriteSide /\ Handed

Queued == q \in Seq(Block) /\ hand \in Block \cup {None}

Handing(r) == \/ pc[r] = "copy" /\ pc'[r] # "copy" /\ hand' = None
              \/ pc[r] # "copy" /\ pc'[r] # "copy" /\ hand' = hand
              \/ pc[r] # "copy" /\ pc'[r] = "copy" /\ hand' # None

ReadersIdle == Idles(Readers, rlock, rr, pc, rlock', rr', pc')
WritersIdle == Idles(Writers, wlock, wr, pc, wlock', wr', pc')

ReaderGoes(r) == /\ Moves(Readers, {"idle"}, r, rlock, rr, pc, rlock', rr', pc')
                 /\ WritersIdle
                 /\ pc' \in [Procs -> Labels] /\ pc'[r] \in ReaderLabels
                 /\ Handing(r)

WriterGoes(w) == /\ Moves(Writers, {"idle", "more"}, w, wlock, wr, pc, wlock', wr', pc')
                 /\ ReadersIdle
                 /\ pc' \in [Procs -> Labels] /\ pc'[w] # "copy"
                 /\ hand' = hand

NoneGoes == ReadersIdle /\ WritersIdle /\ pc' \in [Procs -> Labels] /\ hand' = hand

LEMMA Apart ==
    /\ \A r \in Readers : r \in Procs /\ r \notin Writers /\ r # None
    /\ \A w \in Writers : w \in Procs /\ w \notin Readers /\ w # None
    /\ None \notin Readers /\ None \notin Writers
BY QioAssumption DEF Procs

LEMMA GotoFacts ==
    ASSUME NEW p \in Procs, NEW l \in Labels, pc \in [Procs -> Labels], Goto(p, l)
    PROVE  /\ pc' \in [Procs -> Labels] /\ pc'[p] = l
           /\ \A x \in Procs : x # p => pc'[x] = pc[x]
BY DEF Goto

LEMMA GotoWakingFacts ==
    ASSUME NEW p \in Procs, NEW l \in Labels, NEW z, pc \in [Procs -> Labels], GotoWaking(p, l, z)
    PROVE  /\ pc' \in [Procs -> Labels] /\ pc'[p] = l
           /\ \A x \in Procs : x # p => pc'[x] = IF x = z THEN "woken" ELSE pc[x]
BY DEF GotoWaking, Labels

\* One step of a reader: the labels it goes between, and where it lets the QLock go.
LEMMA ReaderGoesOn ==
    ASSUME NEW r \in Readers, Holds, NEW l \in ReaderLabels, Goto(r, l),
           \/ l = "qlock" /\ pc[r] = "idle" /\ rlock' = Append(rlock, r)
           \/ l \notin {"idle", "qlock"} /\ pc[r] # "idle" /\ r = Head(rlock) /\ rlock' = rlock
           \/ l = "idle" /\ pc[r] # "idle" /\ r = Head(rlock) /\ rlock' = Tail(rlock),
           \/ rr' = rr /\ pc[r] # "asleep"
           \/ rr' = r /\ l = "asleep"
           \/ rr' = (IF rr = r THEN None ELSE rr) /\ l = "idle" /\ pc[r] # "idle",
           wlock' = wlock, wr' = wr,
           \/ pc[r] = "copy" /\ l # "copy" /\ hand' = None
           \/ pc[r] # "copy" /\ l # "copy" /\ hand' = hand
           \/ pc[r] # "copy" /\ l = "copy" /\ hand' # None
    PROVE  ReaderGoes(r)
<1>1. r \in Procs /\ l \in Labels /\ pc \in [Procs -> Labels]
  BY Apart DEF Holds, LocksTyped, Labels, ReaderLabels
<1>2. /\ pc' \in [Procs -> Labels] /\ pc'[r] = l
      /\ \A x \in Procs : x # r => pc'[x] = pc[x]
  BY <1>1, GotoFacts
<1>3. Moves(Readers, {"idle"}, r, rlock, rr, pc, rlock', rr', pc')
  <2>1. \A x \in Readers : x # r => pc'[x] = pc[x]
    BY <1>2, Apart
  <2> QED
    BY <1>2, <2>1 DEF Moves
<1>4. WritersIdle
  <2>1. \A w \in Writers : pc'[w] = pc[w]
    BY <1>2, Apart
  <2> QED
    BY <2>1 DEF WritersIdle, Idles
<1> QED
  BY <1>2, <1>3, <1>4 DEF ReaderGoes, Handing

LEMMA WriterGoesOn ==
    ASSUME NEW w \in Writers, Holds, NEW l \in Labels, l # "copy", Goto(w, l),
           \/ l = "qlock" /\ pc[w] \in {"idle", "more"} /\ wlock' = Append(wlock, w)
           \/ /\ l \notin {"idle", "more", "qlock"} /\ pc[w] \notin {"idle", "more"}
              /\ w = Head(wlock) /\ wlock' = wlock
           \/ /\ l \in {"idle", "more"} /\ pc[w] \notin {"idle", "more"}
              /\ w = Head(wlock) /\ wlock' = Tail(wlock),
           \/ wr' = wr /\ pc[w] # "asleep"
           \/ wr' = w /\ l = "asleep"
           \/ wr' = (IF wr = w THEN None ELSE wr) /\ l = "idle" /\ pc[w] \notin {"idle", "more"},
           rlock' = rlock, rr' = rr, hand' = hand
    PROVE  WriterGoes(w)
<1>1. w \in Procs /\ pc \in [Procs -> Labels]
  BY Apart DEF Holds, LocksTyped
<1>2. /\ pc' \in [Procs -> Labels] /\ pc'[w] = l
      /\ \A x \in Procs : x # w => pc'[x] = pc[x]
  BY <1>1, GotoFacts
<1>3. Moves(Writers, {"idle", "more"}, w, wlock, wr, pc, wlock', wr', pc')
  <2>1. \A x \in Writers : x # w => pc'[x] = pc[x]
    BY <1>2, Apart
  <2> QED
    BY <1>2, <2>1 DEF Moves
<1>4. ReadersIdle
  <2>1. \A r \in Readers : pc'[r] = pc[r]
    BY <1>2, Apart
  <2> QED
    BY <2>1 DEF ReadersIdle, Idles
<1> QED
  BY <1>2, <1>3, <1>4 DEF WriterGoes

\* The holder of q->rlock, and what a reader is not doing when another copies.
LEMMA Holding ==
    ASSUME Holds
    PROVE  /\ \A r \in Readers : pc[r] \notin {"idle", "qlock"} => r = Head(rlock)
           /\ \A w \in Writers : pc[w] \notin {"idle", "more", "qlock"} => w = Head(wlock)
BY DEF Holds, ReadSide, WriteSide, Side

LEMMA ReaderActs ==
    ASSUME NEW r \in Readers, Holds, Queued,
           piperead(r) \/ ReaderStep(r) \/ EintrReader(r)
    PROVE  ReaderGoes(r)
<1>0. pc[r] \notin {"idle", "qlock"} => r = Head(rlock)
  BY Holding
<1>1. CASE piperead(r)
  BY <1>1, ReaderGoesOn DEF piperead, qread, ReaderLabels
<1>2. CASE qwaitClosed(r)
  BY <1>2, ReaderGoesOn DEF qwaitClosed, Checks, ReaderLabels
<1>3. CASE qwaitStarve(r)
  BY <1>3, ReaderGoesOn DEF qwaitStarve, Checks, ReaderLabels, waits
<1>4. CASE qremove(r)
  <2>1. Head(q) \in Block
    BY <1>4, TailFacts DEF qremove, Queued
  <2>2. hand' # None
    BY <1>4, <2>1, PipeAssumption DEF qremove
  <2> QED
    BY <1>4, <2>2, ReaderGoesOn DEF qremove, Checks, ReaderLabels, waits
<1>5. ASSUME NEW n, qwakeup_unlock(r, n), wlock' = wlock, wr' = wr, rr' = rr,
             pc[r] \in {"copy", "qlock", "woken"}, r = Head(rlock),
             hand' = IF pc[r] = "copy" THEN None ELSE hand
      PROVE  ReaderGoes(r)
  <2>1. CASE Goto(r, "wake") /\ rlock' = rlock
    BY <1>5, <2>1, ReaderGoesOn DEF ReaderLabels
  <2>2. CASE Goto(r, "idle") /\ rlock' = Tail(rlock)
    BY <1>5, <2>2, ReaderGoesOn DEF ReaderLabels
  <2> QED
    BY <1>5, <2>1, <2>2 DEF qwakeup_unlock
<1>6. ASSUME NEW n, copy(r, n) PROVE ReaderGoes(r)
  BY <1>0, <1>5, <1>6 DEF copy
<1>7. ASSUME NEW n, qbread(r, n) PROVE ReaderGoes(r)
  BY <1>5, <1>7 DEF qbread, Checks
<1>8. CASE wakeWriter(r)
  <2>1. r \in Procs /\ pc \in [Procs -> Labels] /\ wr # r
    BY Apart DEF Holds, LocksTyped
  <2>2. /\ pc' \in [Procs -> Labels] /\ pc'[r] = "idle"
        /\ \A x \in Procs : x # r => pc'[x] = IF x = wr THEN "woken" ELSE pc[x]
    BY <1>8, <2>1, GotoWakingFacts DEF wakeWriter, Labels
  <2>3. Moves(Readers, {"idle"}, r, rlock, rr, pc, rlock', rr', pc')
    <3>1. \A x \in Readers : x # r => pc'[x] = pc[x]
      BY <2>2, Apart DEF Holds, LocksTyped
    <3> QED
      BY <1>0, <1>8, <2>2, <3>1 DEF Moves, wakeWriter
  <2>4. WritersIdle
    <3>1. \A w \in Writers : pc'[w] = IF w = wr THEN "woken" ELSE pc[w]
      BY <2>2, Apart
    <3> QED
      BY <1>8, <3>1 DEF WritersIdle, Idles, wakeWriter
  <2> QED
    BY <1>8, <2>2, <2>3, <2>4 DEF ReaderGoes, Handing, wakeWriter, ReaderLabels
<1>9. CASE SleepReader(r)
  <2>1. CASE notempty /\ Goto(r, "woken") /\ rr' = rr
    BY <1>0, <1>9, <2>1, ReaderGoesOn DEF SleepReader, ReaderLabels
  <2>2. CASE rr' = r /\ Goto(r, "asleep")
    BY <1>0, <1>9, <2>2, ReaderGoesOn DEF SleepReader, ReaderLabels
  <2> QED
    BY <1>9, <2>1, <2>2 DEF SleepReader
<1>10. CASE EintrReader(r)
  BY <1>0, <1>10, ReaderGoesOn DEF EintrReader, ReaderLabels
<1> QED
  BY <1>1, <1>2, <1>3, <1>4, <1>6, <1>7, <1>8, <1>9, <1>10 DEF ReaderStep

LEMMA WriterActs ==
    ASSUME NEW w \in Writers, Holds,
           (\E n \in Writes : pipewrite(w, n)) \/ WriterStep(w) \/ EintrWriter(w)
    PROVE  WriterGoes(w)
<1>0. pc[w] \notin {"idle", "more", "qlock"} => w = Head(wlock)
  BY Holding
<1>1. ASSUME NEW n \in Writes, pipewrite(w, n) PROVE WriterGoes(w)
  BY <1>1, WriterGoesOn DEF pipewrite, qwrite, Labels
<1>2. CASE more(w)
  BY <1>2, WriterGoesOn DEF more, Labels
<1>3. CASE qbwriteClosed(w)
  BY <1>3, WriterGoesOn DEF qbwriteClosed, Fails, Labels
<1>4. CASE qbwrite(w)
  BY <1>4, WriterGoesOn DEF qbwrite, waits, Labels
<1>5. CASE wakeReader(w)
  <2>1. w \in Procs /\ pc \in [Procs -> Labels] /\ rr # w
    BY Apart DEF Holds, LocksTyped
  <2>2. /\ pc' \in [Procs -> Labels] /\ pc'[w] = "full"
        /\ \A x \in Procs : x # w => pc'[x] = IF x = rr THEN "woken" ELSE pc[x]
    BY <1>5, <2>1, GotoWakingFacts DEF wakeReader, Labels
  <2>3. Moves(Writers, {"idle", "more"}, w, wlock, wr, pc, wlock', wr', pc')
    <3>1. \A x \in Writers : x # w => pc'[x] = pc[x]
      BY <2>2, Apart DEF Holds, LocksTyped
    <3> QED
      BY <1>0, <1>5, <2>2, <3>1 DEF Moves, wakeReader
  <2>4. ReadersIdle
    <3>1. \A r \in Readers : pc'[r] = IF r = rr THEN "woken" ELSE pc[r]
      BY <2>2, Apart
    <3> QED
      BY <1>5, <3>1 DEF ReadersIdle, Idles, wakeReader
  <2> QED
    BY <1>5, <2>2, <2>3, <2>4 DEF WriterGoes, wakeReader
<1>6. CASE qbwriteDone(w)
  BY <1>0, <1>6, WriterGoesOn DEF qbwriteDone, Labels
<1>7. CASE qbwriteFull(w)
  BY <1>0, <1>7, WriterGoesOn DEF qbwriteFull, waits, Labels
<1>8. CASE setflow(w)
  BY <1>0, <1>8, WriterGoesOn DEF setflow, waits, Labels
<1>9. CASE SleepWriter(w)
  <2>1. CASE qnotfull /\ Goto(w, "woken") /\ wr' = wr
    BY <1>0, <1>9, <2>1, WriterGoesOn DEF SleepWriter, Labels
  <2>2. CASE wr' = w /\ Goto(w, "asleep")
    BY <1>0, <1>9, <2>2, WriterGoesOn DEF SleepWriter, Labels
  <2> QED
    BY <1>9, <2>1, <2>2 DEF SleepWriter
<1>10. CASE EintrWriter(w)
  BY <1>0, <1>10, WriterGoesOn DEF EintrWriter, Fails, Labels
<1> QED
  BY <1>1, <1>2, <1>3, <1>4, <1>5, <1>6, <1>7, <1>8, <1>9, <1>10 DEF WriterStep

LEMMA OtherActs ==
    ASSUME Holds,
           (\E s \in Sides : pipeopen(s) \/ pipeclose(s)) \/ Close
    PROVE  NoneGoes
<1>0. pc \in [Procs -> Labels]
  BY DEF Holds, LocksTyped
<1>1. ASSUME pc' = pc, hand' = hand, UNCHANGED waits PROVE NoneGoes
  BY <1>0, <1>1 DEF NoneGoes, ReadersIdle, WritersIdle, Idles, waits
<1>2. ASSUME NEW s \in Sides, pipeopen(s) PROVE NoneGoes
  BY <1>1, <1>2 DEF pipeopen, vars
<1>3. ASSUME NEW s \in Sides, pipeclose(s) PROVE NoneGoes
  BY <1>1, <1>3 DEF pipeclose, vars, qclose, qhangup
<1>4. CASE pipecloseEnd
  BY <1>1, <1>4 DEF pipecloseEnd, vars, qreopen
<1>5. CASE WakeReader
  <2>1. pc' \in [Procs -> Labels] /\ \A p \in Procs : pc'[p] = IF p = rr THEN "woken" ELSE pc[p]
    BY <1>0, <1>5 DEF WakeReader, Labels
  <2>2. /\ \A r \in Readers : pc'[r] = IF r = rr THEN "woken" ELSE pc[r]
        /\ \A w \in Writers : pc'[w] = pc[w]
    BY <2>1, Apart DEF Holds, LocksTyped
  <2> QED
    BY <1>5, <2>1, <2>2 DEF WakeReader, NoneGoes, ReadersIdle, WritersIdle, Idles
<1>6. CASE WakeWriter
  <2>1. pc' \in [Procs -> Labels] /\ \A p \in Procs : pc'[p] = IF p = wr THEN "woken" ELSE pc[p]
    BY <1>0, <1>6 DEF WakeWriter, Labels
  <2>2. /\ \A w \in Writers : pc'[w] = IF w = wr THEN "woken" ELSE pc[w]
        /\ \A r \in Readers : pc'[r] = pc[r]
    BY <2>1, Apart DEF Holds, LocksTyped
  <2> QED
    BY <1>6, <2>1, <2>2 DEF WakeWriter, NoneGoes, ReadersIdle, WritersIdle, Idles
<1> QED
  BY <1>2, <1>3, <1>4, <1>5, <1>6 DEF Close, pipecloseWake

\* A step is a reader's, a writer's, or one of an open or a close.
ReaderDoes(r) == /\ piperead(r) \/ ReaderStep(r) \/ EintrReader(r)
                 /\ UNCHANGED <<qref, closing>>
WriterDoes(w) == /\ (\E n \in Writes : pipewrite(w, n)) \/ WriterStep(w) \/ EintrWriter(w)
                 /\ UNCHANGED <<qref, closing>>
OtherDoes == (\E s \in Sides : pipeopen(s) \/ pipeclose(s)) \/ Close

LEMMA NextDoes ==
    ASSUME Next
    PROVE  (\E r \in Readers : ReaderDoes(r)) \/ (\E w \in Writers : WriterDoes(w)) \/ OtherDoes
<1>1. ASSUME NEW p \in Procs, Step(p) \/ Eintr(p)
      PROVE  (\E r \in Readers : ReaderDoes(r)) \/ (\E w \in Writers : WriterDoes(w))
  <2>1. CASE p \in Readers
    BY <1>1, <2>1 DEF Step, Eintr, ReaderDoes
  <2>2. CASE p \notin Readers
    BY <1>1, <2>2 DEF Step, Eintr, WriterDoes, Procs
  <2> QED
    BY <2>1, <2>2
<1>2. ASSUME NEW r \in Readers, piperead(r) PROVE ReaderDoes(r)
  BY <1>2 DEF ReaderDoes, piperead
<1>3. ASSUME NEW w \in Writers, NEW n \in Writes, pipewrite(w, n) PROVE WriterDoes(w)
  BY <1>3 DEF WriterDoes, pipewrite
<1> QED
  BY <1>1, <1>2, <1>3 DEF Next, OtherDoes

LEMMA NextGoes ==
    ASSUME Holds, Queued, Next
    PROVE  (\E r \in Readers : ReaderGoes(r)) \/ (\E w \in Writers : WriterGoes(w)) \/ NoneGoes
BY NextDoes, ReaderActs, WriterActs, OtherActs DEF ReaderDoes, WriterDoes, OtherDoes

LEMMA HoldsKept ==
    ASSUME Holds, Queued, Next PROVE Holds'
<1>0. /\ {"idle"} \subseteq {"idle", "more"}
      /\ None \notin Readers /\ None \notin Writers
      /\ rlock \in Seq(Readers) /\ wlock \in Seq(Writers)
      /\ rr \in Readers \cup {None} /\ wr \in Writers \cup {None}
      /\ Side(Readers, {"idle"}, rlock, rr, pc)
      /\ Side(Writers, {"idle", "more"}, wlock, wr, pc)
  BY Apart DEF Holds, LocksTyped, ReadSide, WriteSide
<1>1. ASSUME ReadersIdle
      PROVE  /\ ReadSide' /\ rlock' \in Seq(Readers) /\ rr' \in Readers \cup {None}
             /\ \A r \in Readers : pc'[r] = pc[r] \/ (pc[r] = "asleep" /\ pc'[r] = "woken")
  <2>1. Idles(Readers, rlock, rr, pc, rlock', rr', pc')
    BY <1>1 DEF ReadersIdle
  <2>2. /\ Side(Readers, {"idle"}, rlock', rr', pc')
        /\ rlock' \in Seq(Readers) /\ rr' \in Readers \cup {None}
    BY <1>0, <2>1, SideIdles
  <2>3. \A r \in Readers : pc'[r] = pc[r] \/ (pc[r] = "asleep" /\ pc'[r] = "woken")
    BY <1>0, <2>1 DEF Idles, Side
  <2> QED
    BY <2>2, <2>3 DEF ReadSide
<1>2. ASSUME WritersIdle
      PROVE  /\ WriteSide' /\ wlock' \in Seq(Writers) /\ wr' \in Writers \cup {None}
             /\ \A w \in Writers : pc'[w] = pc[w] \/ (pc[w] = "asleep" /\ pc'[w] = "woken")
  <2>1. Idles(Writers, wlock, wr, pc, wlock', wr', pc')
    BY <1>2 DEF WritersIdle
  <2>2. /\ Side(Writers, {"idle", "more"}, wlock', wr', pc')
        /\ wlock' \in Seq(Writers) /\ wr' \in Writers \cup {None}
    BY <1>0, <2>1, SideIdles
  <2>3. \A w \in Writers : pc'[w] = pc[w] \/ (pc[w] = "asleep" /\ pc'[w] = "woken")
    BY <1>0, <2>1 DEF Idles, Side
  <2> QED
    BY <2>2, <2>3 DEF WriteSide
<1>3. ASSUME NEW r \in Readers, ReaderGoes(r) PROVE Holds'
  <2>1. ReadSide' /\ rlock' \in Seq(Readers) /\ rr' \in Readers \cup {None}
    BY <1>0, <1>3, SideMoves DEF ReaderGoes, ReadSide
  <2>2. /\ WriteSide' /\ wlock' \in Seq(Writers) /\ wr' \in Writers \cup {None}
        /\ \A w \in Writers : pc'[w] = pc[w] \/ (pc[w] = "asleep" /\ pc'[w] = "woken")
    BY <1>2, <1>3 DEF ReaderGoes
  <2>3. Handed'
    <3>1. \A x \in Readers : x # r => pc'[x] = pc[x]
      BY <1>3 DEF ReaderGoes, Moves
    <3>2. /\ \A x \in Readers : pc[x] \in ReaderLabels
          /\ \A w \in Writers : pc[w] # "copy"
          /\ hand # None <=> \E x \in Readers : pc[x] = "copy"
      BY DEF Holds, Handed
    <3>3. \A x \in Readers : pc[x] = "copy" => x = Head(rlock)
      BY Holding
    <3>4. (pc[r] # "idle" /\ r = Head(rlock)) \/ pc'[r] = "qlock"
      BY <1>3 DEF ReaderGoes, Moves
    <3>5. Handing(r) /\ pc'[r] \in ReaderLabels
      BY <1>3 DEF ReaderGoes
    <3>6. \A x \in Readers : pc'[x] \in ReaderLabels
      BY <3>1, <3>2, <3>5
    <3>7. \A w \in Writers : pc'[w] # "copy"
      BY <2>2, <3>2
    <3>8. hand' # None <=> \E x \in Readers : pc'[x] = "copy"
      <4>1. CASE pc[r] = "copy" /\ pc'[r] # "copy" /\ hand' = None
        BY <3>1, <3>3, <4>1
      <4>2. CASE pc[r] # "copy" /\ pc'[r] # "copy" /\ hand' = hand
        BY <3>1, <3>2, <4>2
      <4>3. CASE pc[r] # "copy" /\ pc'[r] = "copy" /\ hand' # None
        BY <4>3
      <4> QED
        BY <3>5, <4>1, <4>2, <4>3 DEF Handing
    <3> QED
      BY <3>6, <3>7, <3>8 DEF Handed
  <2> QED
    BY <1>3, <2>1, <2>2, <2>3 DEF Holds, LocksTyped, ReaderGoes
<1>4. ASSUME ReadersIdle, hand' = hand PROVE Handed' <=> \A w \in Writers : pc'[w] # "copy"
  BY <1>1, <1>4 DEF Holds, Handed, ReaderLabels
<1>5. ASSUME NEW w \in Writers, WriterGoes(w) PROVE Holds'
  <2>1. WriteSide' /\ wlock' \in Seq(Writers) /\ wr' \in Writers \cup {None}
    BY <1>0, <1>5, SideMoves DEF WriterGoes, WriteSide
  <2>2. /\ ReadSide' /\ rlock' \in Seq(Readers) /\ rr' \in Readers \cup {None}
    BY <1>1, <1>5 DEF WriterGoes
  <2>3. \A x \in Writers : pc'[x] # "copy"
    BY <1>5 DEF WriterGoes, Moves, Holds, Handed
  <2> QED
    BY <1>4, <1>5, <2>1, <2>2, <2>3 DEF Holds, LocksTyped, WriterGoes
<1>6. CASE NoneGoes
  <2>1. \A x \in Writers : pc'[x] # "copy"
    BY <1>2, <1>6 DEF NoneGoes, Holds, Handed
  <2> QED
    BY <1>1, <1>2, <1>4, <1>6, <2>1 DEF Holds, LocksTyped, NoneGoes
<1> QED
  BY <1>3, <1>5, <1>6, NextGoes

-----------------------------------------------------------------------------
(* What is in the queue and in hand is what was written and not yet read.   *)

Sums == /\ Queued
        /\ sent \in Nat /\ got \in Nat /\ got <= sent
        /\ dlen = Len(Whole(q).data) /\ len = Whole(q).alloc
        /\ todo \in [Writers -> Nat]

HandBytes == IF hand = None THEN << >> ELSE hand.data
Streamed == Cat(HandBytes, Whole(q).data) = Nums(got, sent - got)

Data == Sums /\ Streamed

\* A read takes n bytes of a block, or all of it.
LEMMA RestFacts ==
    ASSUME NEW s \in Seq(Nat), NEW n \in Nat, n < Len(s)
    PROVE  SubSeq(s, n + 1, Len(s)) \in Seq(Nat) /\ Rest(SubSeq(s, n + 1, Len(s)), s, n)
<1>1. SubSeq(s, n + 1, Len(s)) \in Seq(Nat) /\ Len(SubSeq(s, n + 1, Len(s))) = Len(s) - n
  OBVIOUS
<1>2. \A i \in 1 .. Len(s) - n : SubSeq(s, n + 1, Len(s))[i] = s[i + n]
  OBVIOUS
<1> QED
  BY <1>1, <1>2 DEF Rest

LEMMA TakeBytes ==
    ASSUME NEW b \in Block, NEW W \in Wholes, NEW g \in Nat, NEW k \in Nat,
           Cat(b.data, W.data) = Nums(g, k), NEW n \in Nat
    PROVE  /\ Len(b.data) \in Nat /\ Len(b.data) <= k
           /\ W.data = Nums(g + Len(b.data), k - Len(b.data))
           /\ \A r \in Seq(Nat) : n < Len(b.data) /\ Rest(r, b.data, n)
                                   => Cat(r, W.data) = Nums(g + n, k - n)
<1>1. b.data \in Seq(Nat) /\ W.data \in Seq(Nat)
  BY BlockWhole DEF Wholes
<1> DEFINE s == b.data
           t == W.data
<1>2. s \in Seq(Nat) /\ t \in Seq(Nat) /\ Cat(s, t) = Nums(g, k)
  BY <1>1
<1> HIDE DEF s, t
<1>3. Len(s) \in Nat /\ Len(s) <= k /\ t = Nums(g + Len(s), k - Len(s))
  BY <1>2, NumsPassed
<1>4. ASSUME NEW r \in Seq(Nat), n < Len(s), Rest(r, s, n)
      PROVE  Cat(r, t) = Nums(g + n, k - n)
  <2>1. n \in 0 .. Len(s)
    BY <1>3, <1>4
  <2> QED
    BY <1>2, <1>4, <2>1, NumsLess
<1> QED
  BY <1>3, <1>4 DEF s, t

\* The block that is left over.
LEMMA RestBlock ==
    ASSUME NEW b \in Block, NEW r \in Seq(Nat), Len(r) <= Len(b.data)
    PROVE  /\ [data |-> r, alloc |-> Len(r)] \in Block
           /\ [b EXCEPT !.data = r] \in Block
           /\ [b EXCEPT !.data = r] = [data |-> r, alloc |-> b.alloc]
<1>1. b \in [data : Seq(Nat), alloc : 0 .. Maxatomic] /\ Len(b.data) <= b.alloc
  BY DEF Block
<1>2. Len(r) \in 0 .. Maxatomic /\ Len(r) <= b.alloc
  <2>1. Len(r) \in Nat /\ Len(b.data) \in Nat /\ b.alloc \in 0 .. Maxatomic
    BY <1>1
  <2> QED
    BY <1>1, <2>1, QioAssumption
<1>3. [b EXCEPT !.data = r] = [data |-> r, alloc |-> b.alloc]
  BY <1>1
<1>4. [data |-> r, alloc |-> b.alloc] \in [data : Seq(Nat), alloc : 0 .. Maxatomic]
  BY <1>1
<1>5. [data |-> r, alloc |-> Len(r)] \in [data : Seq(Nat), alloc : 0 .. Maxatomic]
  BY <1>2
<1>6. [data |-> r, alloc |-> b.alloc] \in Block
  BY <1>2, <1>4 DEF Block
<1>7. [data |-> r, alloc |-> Len(r)] \in Block
  BY <1>5 DEF Block
<1> QED
  BY <1>3, <1>6, <1>7

\* The block that qbwrite makes of the next n bytes.
LEMMA NextBlock ==
    ASSUME NEW m \in Nat, NEW n \in 0 .. Maxatomic
    PROVE  [data |-> Nums(m, n), alloc |-> n] \in Block
<1>1. n \in Nat
  BY QioAssumption
<1>2. Nums(m, n) \in Seq(Nat) /\ Len(Nums(m, n)) = n
  BY <1>1, NumsFacts
<1> DEFINE b == [data |-> Nums(m, n), alloc |-> n]
<1>3. b \in [data : Seq(Nat), alloc : 0 .. Maxatomic]
  BY <1>2
<1>4. b.data = Nums(m, n) /\ b.alloc = n
  OBVIOUS
<1> HIDE DEF b
<1>5. Len(b.data) <= b.alloc
  BY <1>1, <1>2, <1>4
<1>6. b \in Block
  BY <1>3, <1>5 DEF Block
<1> QED
  BY <1>6 DEF b

LEMMA DataSame ==
    ASSUME Data, UNCHANGED <<blocks, hand, history>>, todo' \in [Writers -> Nat]
    PROVE  Data'
<1>1. q' = q /\ len' = len /\ dlen' = dlen /\ hand' = hand /\ sent' = sent /\ got' = got
  BY DEF blocks, history
<1> QED
  BY <1>1 DEF Data, Sums, Queued, Streamed, HandBytes

\* The stream when no block is in hand: the block at the head of the queue, and the rest.
LEMMA HeadData ==
    ASSUME Data, hand = None, q # << >>
    PROVE  /\ Head(q) \in Block /\ Tail(q) \in Seq(Block)
           /\ len = Head(q).alloc + Whole(Tail(q)).alloc
           /\ dlen = Len(Head(q).data) + Len(Whole(Tail(q)).data)
           /\ Head(q).alloc \in Nat /\ Whole(Tail(q)).alloc \in Nat
           /\ Len(Head(q).data) \in Nat /\ Len(Whole(Tail(q)).data) \in Nat
           /\ Cat(Head(q).data, Whole(Tail(q)).data) = Nums(got, sent - got)
<1>1. q \in Seq(Block)
  BY DEF Data, Sums, Queued
<1>2. /\ Head(q) \in Block /\ Tail(q) \in Seq(Block)
      /\ Whole(q) = Both(Head(q), Whole(Tail(q)))
  BY <1>1, WholeTail
<1> DEFINE b == Head(q)
           W == Whole(Tail(q))
<1>3. b \in Wholes /\ W \in Wholes
  BY <1>2, BlockWhole, WholeFacts
<1>4. Whole(q).data = Cat(b.data, W.data) /\ Whole(q).alloc = b.alloc + W.alloc
  BY <1>2 DEF Both
<1> HIDE DEF b, W
<1>5. Cat(b.data, W.data) = Nums(got, sent - got)
  <2>1. Cat(<< >>, Whole(q).data) = Whole(q).data
    BY <1>1, WholeFacts, ConcatEmptySeq DEF Cat, Wholes
  <2> QED
    BY <1>4, <2>1 DEF Data, Streamed, HandBytes
<1>6. Len(Cat(b.data, W.data)) = Len(b.data) + Len(W.data) /\ Len(b.data) \in Nat /\ Len(W.data) \in Nat
  <2>1. b.data \in Seq(Nat) /\ W.data \in Seq(Nat)
    BY <1>3 DEF Wholes
  <2> QED
    BY <2>1, JoinFacts DEF Cat
<1>7. dlen = Len(b.data) + Len(W.data) /\ len = b.alloc + W.alloc
  BY <1>4, <1>6 DEF Data, Sums
<1>8. b.alloc \in Nat /\ W.alloc \in Nat
  BY <1>3 DEF Wholes
<1> QED
  BY <1>2, <1>5, <1>6, <1>7, <1>8 DEF b, W

\* qremove, when no block is in hand.
LEMMA RemoveData ==
    ASSUME Data, NEW r \in Readers, qremove(r), hand = None PROVE Data'
<1>1. q # << >>
  BY DEF qremove
<1> DEFINE b == Head(q)
           W == Whole(Tail(q))
<1>2. /\ b \in Block /\ Tail(q) \in Seq(Block)
      /\ len = b.alloc + W.alloc
      /\ dlen = Len(b.data) + Len(W.data)
      /\ b.alloc \in Nat /\ W.alloc \in Nat
      /\ Len(b.data) \in Nat /\ Len(W.data) \in Nat
      /\ Cat(b.data, W.data) = Nums(got, sent - got)
  BY <1>1, HeadData
<1>3. q' = Tail(q) /\ hand' = b /\ len' = len - b.alloc /\ dlen' = dlen - Len(b.data)
  BY DEF qremove, BALLOC, BLEN
<1>4. sent' = sent /\ got' = got /\ todo' = todo
  BY DEF qremove, history
<1>5. Whole(q') = W
  BY <1>3
<1> HIDE DEF b, W
<1>6. dlen' = Len(W.data) /\ len' = W.alloc
  BY <1>2, <1>3
<1>7. b # None
  BY <1>2, PipeAssumption
<1>8. Sums'
  BY <1>2, <1>3, <1>4, <1>5, <1>6 DEF Data, Sums, Queued
<1>9. Streamed'
  BY <1>2, <1>3, <1>4, <1>5, <1>7 DEF Streamed, HandBytes
<1> QED
  BY <1>8, <1>9 DEF Data

\* A read of n bytes of the block b at the head of the stream, before s: what it
\* leaves, if any, is the first of what the queue then holds.
Takes(b, s, n) ==
    IF n < Len(b.data)
    THEN \E c \in Block : /\ c.data \in Seq(Nat) /\ Rest(c.data, b.data, n)
                          /\ q' = <<c>> \o s
                          /\ len' = Whole(s).alloc + c.alloc
                          /\ dlen' = Len(Whole(s).data) + Len(b.data) - n
                          /\ got' = got + n
    ELSE /\ q' = s
         /\ len' = Whole(s).alloc
         /\ dlen' = Len(Whole(s).data)
         /\ got' = got + Len(b.data)

LEMMA TakeData ==
    ASSUME NEW b \in Block, NEW s \in Seq(Block), NEW n \in Nat,
           sent \in Nat, got \in Nat, got <= sent, todo \in [Writers -> Nat], todo' = todo,
           Cat(b.data, Whole(s).data) = Nums(got, sent - got),
           hand' = None, sent' = sent, Takes(b, s, n)
    PROVE  Data'
<1> DEFINE W == Whole(s)
           k == sent - got
<1>0. W \in Wholes /\ k \in Nat
  BY WholeFacts
<1>1. /\ Cat(b.data, W.data) = Nums(got, k)
  OBVIOUS
<1> HIDE DEF W, k
<1>2. /\ Len(b.data) \in Nat /\ Len(b.data) <= k
      /\ W.data = Nums(got + Len(b.data), k - Len(b.data))
  BY <1>0, <1>1, TakeBytes
<1>3. \A r \in Seq(Nat) : n < Len(b.data) /\ Rest(r, b.data, n)
                           => Cat(r, W.data) = Nums(got + n, k - n)
  BY <1>0, <1>1, TakeBytes
<1>4. HandBytes' = << >>
  BY DEF HandBytes
<1>5. W.data \in Seq(Nat) /\ W.alloc \in Nat
  BY <1>0 DEF Wholes
<1>6. CASE n < Len(b.data)
  <2>1. PICK c \in Block :
           /\ c.data \in Seq(Nat) /\ Rest(c.data, b.data, n)
           /\ q' = <<c>> \o s
           /\ len' = W.alloc + c.alloc
           /\ dlen' = Len(W.data) + Len(b.data) - n
           /\ got' = got + n
    BY <1>6 DEF Takes, W
  <2>2. PICK r : r = c.data
    OBVIOUS
  <2>3. r \in Seq(Nat) /\ Len(r) = Len(b.data) - n /\ Cat(r, W.data) = Nums(got + n, k - n)
    BY <1>3, <1>6, <2>1, <2>2 DEF Rest
  <2>4. <<c>> \o s \in Seq(Block) /\ Whole(<<c>> \o s) = Both(c, W)
    BY WholeCons DEF W
  <2>5. q' \in Seq(Block) /\ Whole(q') = Both(c, W)
    BY <2>1, <2>4
  <2>6. Whole(q').data = Cat(r, W.data) /\ Whole(q').alloc = c.alloc + W.alloc
    BY <2>2, <2>5 DEF Both
  <2>7. Len(Cat(r, W.data)) = Len(r) + Len(W.data)
    BY <1>5, <2>3, JoinFacts DEF Cat
  <2>8. c.alloc \in Nat
    BY BlockWhole DEF Wholes
  <2>9. /\ dlen' = Len(Whole(q').data) /\ len' = Whole(q').alloc
    <3>1. Len(W.data) \in Nat
      BY <1>5
    <3>2. Len(Whole(q').data) = Len(r) + Len(W.data) /\ Whole(q').alloc = c.alloc + W.alloc
      BY <2>6, <2>7
    <3>3. Len(W.data) + Len(b.data) - n = Len(b.data) - n + Len(W.data)
      <4>1. PICK x \in Nat, y \in Nat : x = Len(W.data) /\ y = Len(b.data)
        BY <1>2, <3>1
      <4>2. x + y - n = y - n + x
        OBVIOUS
      <4> QED
        BY <4>1, <4>2
    <3>4. W.alloc + c.alloc = c.alloc + W.alloc
      BY <1>5, <2>8
    <3> QED
      BY <2>1, <2>3, <3>2, <3>3, <3>4
  <2>10. got' \in Nat /\ got' <= sent' /\ sent' \in Nat /\ sent' - got' = k - n
    BY <1>2, <1>6, <2>1 DEF k
  <2>11. Sums'
    BY <2>5, <2>9, <2>10 DEF Sums, Queued
  <2>12. Cat(HandBytes', Whole(q').data) = Cat(r, W.data)
    <3>1. Cat(r, W.data) \in Seq(Nat)
      BY <1>5, <2>3, JoinFacts DEF Cat
    <3>2. Cat(<< >>, Cat(r, W.data)) = Cat(r, W.data)
      BY <3>1, ConcatEmptySeq DEF Cat
    <3> QED
      BY <1>4, <2>6, <3>2
  <2>13. Streamed'
    BY <2>1, <2>3, <2>10, <2>12 DEF Streamed
  <2> QED
    BY <2>11, <2>13 DEF Data
<1>7. CASE ~(n < Len(b.data))
  <2>1. /\ q' = s /\ len' = W.alloc /\ dlen' = Len(W.data)
        /\ got' = got + Len(b.data)
    BY <1>7 DEF Takes, W
  <2>2. Whole(q') = W
    BY <2>1 DEF W
  <2>3. got' \in Nat /\ got' <= sent' /\ sent' \in Nat /\ sent' - got' = k - Len(b.data)
    BY <1>2, <2>1 DEF k
  <2>4. Sums'
    BY <2>1, <2>2, <2>3 DEF Sums, Queued
  <2>5. Cat(<< >>, W.data) = W.data
    BY <1>5, ConcatEmptySeq DEF Cat
  <2>6. Streamed'
    BY <1>2, <1>4, <2>1, <2>2, <2>3, <2>5 DEF Streamed
  <2> QED
    BY <2>4, <2>6 DEF Data
<1> QED
  BY <1>6, <1>7

LEMMA CopyData ==
    ASSUME Data, NEW r \in Readers, NEW n \in Reads, copy(r, n), hand # None PROVE Data'
<1>1. hand \in Block /\ q \in Seq(Block) /\ n \in Nat
  BY QioAssumption DEF Data, Sums, Queued
<1>2. /\ sent \in Nat /\ got \in Nat /\ got <= sent /\ todo \in [Writers -> Nat]
      /\ dlen = Len(Whole(q).data) /\ len = Whole(q).alloc
  BY DEF Data, Sums
<1>3. Cat(hand.data, Whole(q).data) = Nums(got, sent - got)
  BY DEF Data, Streamed, HandBytes
<1>4. hand' = None /\ sent' = sent /\ todo' = todo
  BY DEF copy
<1>5. hand.data \in Seq(Nat) /\ Len(hand.data) \in Nat
  BY <1>1, BlockWhole DEF Wholes
<1>6. CASE n < Len(hand.data)
  <2> DEFINE rest == SubSeq(hand.data, n + 1, Len(hand.data))
             c == [hand EXCEPT !.data = rest]
  <2>1. /\ q' = <<c>> \o q
        /\ len' = len + hand.alloc
        /\ dlen' = dlen + Len(hand.data) - n
        /\ got' = got + n
    BY <1>6 DEF copy, BLEN, BALLOC
  <2>2. rest \in Seq(Nat) /\ Rest(rest, hand.data, n)
    BY <1>1, <1>5, <1>6, RestFacts
  <2> HIDE DEF rest
  <2>3. Len(rest) <= Len(hand.data)
    BY <1>1, <1>5, <1>6, <2>2 DEF Rest
  <2>4. c \in Block /\ c = [data |-> rest, alloc |-> hand.alloc]
    BY <1>1, <2>2, <2>3, RestBlock
  <2>5. c.data = rest /\ c.alloc = hand.alloc
    BY <2>4
  <2> HIDE DEF c
  <2>6. Takes(hand, q, n)
    BY <1>2, <1>6, <2>1, <2>2, <2>4, <2>5 DEF Takes
  <2> QED
    BY <1>1, <1>2, <1>3, <1>4, <2>6, TakeData
<1>7. CASE ~(n < Len(hand.data))
  <2>1. q' = q /\ len' = len /\ dlen' = dlen /\ got' = got + Len(hand.data)
    BY <1>7 DEF copy, BLEN, blocks
  <2>2. Takes(hand, q, n)
    BY <1>2, <1>7, <2>1 DEF Takes
  <2> QED
    BY <1>1, <1>2, <1>3, <1>4, <2>2, TakeData
<1> QED
  BY <1>6, <1>7

LEMMA QbreadData ==
    ASSUME Data, NEW r \in Readers, NEW n \in Reads, qbread(r, n), hand = None PROVE Data'
<1>0. q # << >> /\ n \in Nat
  BY QioAssumption DEF qbread
<1> DEFINE b == Head(q)
           W == Whole(Tail(q))
<1>1. /\ b \in Block /\ Tail(q) \in Seq(Block)
      /\ len = b.alloc + W.alloc
      /\ dlen = Len(b.data) + Len(W.data)
      /\ b.alloc \in Nat /\ W.alloc \in Nat
      /\ Len(b.data) \in Nat /\ Len(W.data) \in Nat
      /\ Cat(b.data, W.data) = Nums(got, sent - got)
  BY <1>0, HeadData
<1>2. sent \in Nat /\ got \in Nat /\ got <= sent /\ todo \in [Writers -> Nat]
  BY DEF Data, Sums
<1>3. hand' = None /\ sent' = sent /\ todo' = todo
  BY DEF qbread
<1>4. b.data \in Seq(Nat)
  BY <1>1, BlockWhole DEF Wholes
<1>5. CASE n < Len(b.data)
  <2> DEFINE rest == SubSeq(b.data, n + 1, Len(b.data))
             c == [data |-> rest, alloc |-> Len(rest)]
  <2>1. /\ q' = <<c>> \o Tail(q)
        /\ len' = len - b.alloc + Len(rest)
        /\ dlen' = dlen - n
        /\ got' = got + n
    BY <1>5 DEF qbread, BLEN, BALLOC
  <2>2. rest \in Seq(Nat) /\ Rest(rest, b.data, n)
    BY <1>0, <1>4, <1>5, RestFacts
  <2> HIDE DEF rest
  <2>3. Len(rest) <= Len(b.data) /\ Len(rest) \in Nat
    BY <1>0, <1>1, <1>5, <2>2 DEF Rest
  <2>4. c \in Block
    BY <1>1, <2>2, <2>3, RestBlock
  <2>5. c.data = rest /\ c.alloc = Len(rest)
    OBVIOUS
  <2> HIDE DEF b, W, c
  <2>6. len' = W.alloc + c.alloc
    BY <1>1, <2>1, <2>3, <2>5
  <2>7. dlen' = Len(W.data) + Len(b.data) - n
    <3>1. PICK x \in Nat, y \in Nat : x = Len(W.data) /\ y = Len(b.data)
      BY <1>1
    <3>2. y + x - n = x + y - n
      BY <1>0
    <3>3. dlen' = y + x - n
      BY <1>0, <1>1, <2>1, <3>1
    <3> QED
      BY <3>1, <3>2, <3>3
  <2>8. Takes(b, Tail(q), n)
    BY <1>5, <2>1, <2>2, <2>4, <2>5, <2>6, <2>7 DEF Takes, W
  <2> QED
    BY <1>0, <1>1, <1>2, <1>3, <2>8, TakeData DEF W
<1>6. CASE ~(n < Len(b.data))
  <2>1. q' = Tail(q) /\ len' = len - b.alloc /\ dlen' = dlen - Len(b.data) /\ got' = got + Len(b.data)
    BY <1>6 DEF qbread, BLEN, BALLOC
  <2> HIDE DEF b, W
  <2>2. len' = W.alloc /\ dlen' = Len(W.data)
    BY <1>1, <2>1
  <2>3. Takes(b, Tail(q), n)
    BY <1>6, <2>1, <2>2 DEF Takes, W
  <2> QED
    BY <1>0, <1>1, <1>2, <1>3, <2>3, TakeData DEF W
<1> QED
  BY <1>5, <1>6

LEMMA WriteData ==
    ASSUME Data, NEW w \in Writers, qbwrite(w) PROVE Data'
<1>1. /\ q \in Seq(Block) /\ sent \in Nat /\ got \in Nat /\ got <= sent
      /\ dlen = Len(Whole(q).data) /\ len = Whole(q).alloc /\ todo \in [Writers -> Nat]
  BY DEF Data, Sums, Queued
<1> DEFINE n == IF todo[w] > Maxatomic THEN Maxatomic ELSE todo[w]
           c == [data |-> Nums(sent, n), alloc |-> n]
<1>2. n \in 0 .. Maxatomic /\ n \in Nat /\ todo[w] - n \in Nat
  <2>1. todo[w] \in Nat /\ Maxatomic \in Nat
    BY <1>1, QioAssumption
  <2> QED
    BY <2>1
<1>3. /\ q' = Append(q, c) /\ len' = len + n /\ dlen' = dlen + n
      /\ todo' = [todo EXCEPT ![w] = @ - n] /\ sent' = sent + n /\ hand' = hand /\ got' = got
  BY DEF qbwrite, Nums
<1> HIDE DEF n
<1>4. todo' \in [Writers -> Nat]
  BY <1>1, <1>2, <1>3
<1>5. c \in Block
  BY <1>1, <1>2, NextBlock
<1>6. c.data = Nums(sent, n) /\ c.alloc = n
  OBVIOUS
<1> HIDE DEF c
<1>7. q' \in Seq(Block) /\ Whole(q') = Both(Whole(q), c)
  <2>1. Append(q, c) \in Seq(Block) /\ Whole(Append(q, c)) = Both(Whole(q), c)
    BY <1>1, <1>5, WholeAppend
  <2> QED
    BY <1>3, <2>1
<1> DEFINE W == Whole(q)
<1>8. W \in Wholes
  BY <1>1, WholeFacts
<1>9. W.data \in Seq(Nat) /\ W.alloc \in Nat /\ Len(W.data) \in Nat
  BY <1>8 DEF Wholes
<1>10. Whole(q').data = Cat(W.data, Nums(sent, n)) /\ Whole(q').alloc = W.alloc + n
  BY <1>6, <1>7 DEF Both
<1>11. dlen = Len(W.data) /\ len = W.alloc
  BY <1>1
<1>12. Cat(HandBytes, W.data) = Nums(got, sent - got)
  BY DEF Data, Streamed
<1> HIDE DEF W
<1>13. Nums(sent, n) \in Seq(Nat) /\ Len(Nums(sent, n)) = n
  BY <1>1, <1>2, NumsFacts
<1>14. dlen' = Len(Whole(q').data) /\ len' = Whole(q').alloc
  <2>1. Len(Cat(W.data, Nums(sent, n))) = Len(W.data) + n
    BY <1>9, <1>13, CatFacts
  <2> QED
    BY <1>3, <1>10, <1>11, <2>1
<1>15. Sums'
  <2>1. sent' \in Nat /\ got' \in Nat /\ got' <= sent'
    BY <1>1, <1>2, <1>3
  <2>2. q' \in Seq(Block) /\ hand' \in Block \cup {None}
    BY <1>3, <1>7 DEF Data, Sums, Queued
  <2> QED
    BY <1>4, <1>14, <2>1, <2>2 DEF Sums, Queued
<1>16. HandBytes \in Seq(Nat)
  <2>1. hand # None => hand.data \in Seq(Nat)
    BY BlockWhole DEF Data, Sums, Queued, Wholes
  <2>2. << >> \in Seq(Nat)
    OBVIOUS
  <2> QED
    BY <2>1, <2>2 DEF HandBytes
<1>17. Cat(HandBytes, Cat(W.data, Nums(sent, n))) = Nums(got, sent' - got)
  <2>1. PICK k \in Nat : k = sent - got
    BY <1>1
  <2>2. got + k = sent /\ k + n = sent' - got
    BY <1>1, <1>2, <1>3, <2>1
  <2>3. Cat(HandBytes, Cat(W.data, Nums(sent, n))) = Cat(Cat(HandBytes, W.data), Nums(sent, n))
    BY <1>9, <1>13, <1>16, NumsAssociate
  <2>4. Cat(Nums(got, k), Nums(got + k, n)) = Nums(got, k + n)
    BY <1>1, <1>2, NumsMore
  <2> QED
    BY <1>12, <2>1, <2>2, <2>3, <2>4
<1>18. Streamed'
  <2>1. HandBytes' = HandBytes
    BY <1>3 DEF HandBytes
  <2> QED
    BY <1>3, <1>10, <1>17, <2>1 DEF Streamed
<1> QED
  BY <1>15, <1>18 DEF Data

\* qclose and qreopen when nobody reads.
LEMMA CloseData ==
    ASSUME Data, qclose, hand = None PROVE Data'
<1>1. /\ q' = << >> /\ len' = 0 /\ dlen' = 0 /\ got' = sent /\ sent' = sent
      /\ hand' = None /\ todo' = todo
  BY DEF qclose
<1>2. sent \in Nat /\ todo \in [Writers -> Nat]
  BY DEF Data, Sums
<1>3. q' \in Seq(Block) /\ Whole(q') = Nothing
  <2>1. << >> \in Seq(Block)
    OBVIOUS
  <2> QED
    BY <1>1, <2>1, WholeFacts
<1>4. Nothing.data = << >> /\ Nothing.alloc = 0 /\ Len(<< >>) = 0
  BY DEF Nothing
<1>5. Sums'
  BY <1>1, <1>2, <1>3, <1>4 DEF Sums, Queued
<1>6. Cat(<< >>, << >>) = << >> /\ Nums(sent, 0) = << >>
  <2>1. << >> \in Seq(Nat) /\ << >> \o << >> = << >>
    OBVIOUS
  <2>2. Nums(sent, 0) \in Seq(Nat) /\ Len(Nums(sent, 0)) = 0
    BY <1>2, NumsFacts
  <2> QED
    BY <2>1, <2>2 DEF Cat
<1>7. Streamed'
  <2>1. sent' - got' = 0
    BY <1>1, <1>2
  <2> QED
    BY <1>1, <1>3, <1>4, <1>6, <2>1 DEF Streamed, HandBytes
<1> QED
  BY <1>5, <1>7 DEF Data

LEMMA ReopenData ==
    ASSUME Data, qreopen, hand = None PROVE Data'
<1>1. q' = q /\ len' = len /\ dlen' = dlen /\ hand' = None /\ todo' = todo
  BY DEF qreopen, blocks
<1>2. q \in Seq(Block) /\ sent \in Nat /\ got \in Nat /\ got <= sent
  BY DEF Data, Sums, Queued
<1>3. CASE q # << >>
  <2>1. sent' = sent /\ got' = got
    BY <1>2, <1>3 DEF qreopen
  <2> QED
    BY <1>1, <2>1 DEF Data, Sums, Queued, Streamed, HandBytes
<1>4. CASE q = << >>
  <2>1. sent' = 0 /\ got' = 0
    BY <1>2, <1>4 DEF qreopen
  <2>2. Whole(q) = Nothing
    BY <1>2, <1>4, WholeFacts
  <2>3. Nothing.data = << >>
    BY DEF Nothing
  <2>4. Cat(<< >>, << >>) = << >> /\ Nums(0, 0) = << >>
    <3>1. << >> \in Seq(Nat) /\ << >> \o << >> = << >>
      OBVIOUS
    <3>2. Nums(0, 0) \in Seq(Nat) /\ Len(Nums(0, 0)) = 0
      BY NumsFacts
    <3> QED
      BY <3>1, <3>2 DEF Cat
  <2>5. Sums'
    BY <1>1, <1>2, <2>1 DEF Data, Sums, Queued
  <2>6. Streamed'
    BY <1>1, <2>1, <2>2, <2>3, <2>4 DEF Streamed, HandBytes
  <2> QED
    BY <2>5, <2>6 DEF Data
<1> QED
  BY <1>3, <1>4

-----------------------------------------------------------------------------
(* The open Chans, and the end of the stream.                               *)

RestTyped == /\ closed \in BOOLEAN /\ flow \in BOOLEAN /\ starve \in BOOLEAN
             /\ eof \in 0 .. EofMax
             /\ qref \in [Sides -> Nat] /\ \A s \in Sides : qref[s] <= MaxRef[s]
             /\ closing \in {"no", "rr", "wr", "check"}

\* A Proc inside a read or a write refers to the Chan that it uses.
Referred == \A s \in Sides : InUse(s) => qref[s] > 0

\* After an end-of-file has been read nothing is queued or in hand.  When nobody
\* has the reading side open, the stream is not hung up with data in it, unless
\* pipeclose is about to reopen it.
Ended == /\ eof > 0 => closed /\ q = << >> /\ hand = None
         /\ closing = "no" /\ qref[0] = 0 /\ closed => q = << >>
         /\ closing # "no" => closed /\ (qref[0] = 0 => qref[1] = 0 \/ q = << >>)

PipeInv == Holds /\ Data /\ RestTyped /\ Referred /\ Ended

LEMMA NoHand ==
    ASSUME Holds
    PROVE  /\ ~InUse(0) => hand = None
           /\ \A r \in Readers : pc[r] = "copy" => hand # None
           /\ \A r \in Readers : Checks(r) => hand = None
<1>1. hand # None <=> \E r \in Readers : pc[r] = "copy"
  BY DEF Holds, Handed
<1>2. \A r \in Readers : pc[r] = "copy" => r = Head(rlock)
  BY Holding
<1> QED
  BY <1>1, <1>2 DEF InUse, Users, Checks

LEMMA DataKept ==
    ASSUME PipeInv, Next PROVE Data'
<1>0. Data /\ Holds /\ Referred /\ todo \in [Writers -> Nat]
  BY DEF PipeInv, Data, Sums
<1>1. ASSUME NEW r \in Readers, ReaderDoes(r) PROVE Data'
  <2>1. CASE piperead(r)
    BY <1>0, <2>1, DataSame DEF piperead, qread
  <2>2. CASE qwaitClosed(r)
    BY <1>0, <2>2, DataSame DEF qwaitClosed
  <2>3. CASE qwaitStarve(r)
    BY <1>0, <2>3, DataSame DEF qwaitStarve
  <2>4. CASE qremove(r)
    <3>1. hand = None
      BY <1>0, <2>4, NoHand DEF qremove
    <3> QED
      BY <1>0, <2>4, <3>1, RemoveData
  <2>5. ASSUME NEW n \in Reads, copy(r, n) PROVE Data'
    <3>1. hand # None
      BY <1>0, <2>5, NoHand DEF copy
    <3> QED
      BY <1>0, <2>5, <3>1, CopyData
  <2>6. ASSUME NEW n \in Reads, qbread(r, n) PROVE Data'
    <3>1. hand = None
      BY <1>0, <2>6, NoHand DEF qbread
    <3> QED
      BY <1>0, <2>6, <3>1, QbreadData
  <2>7. CASE wakeWriter(r)
    BY <1>0, <2>7, DataSame DEF wakeWriter
  <2>8. CASE SleepReader(r)
    BY <1>0, <2>8, DataSame DEF SleepReader
  <2>9. CASE EintrReader(r)
    BY <1>0, <2>9, DataSame DEF EintrReader
  <2> QED
    BY <1>1, <2>1, <2>2, <2>3, <2>4, <2>5, <2>6, <2>7, <2>8, <2>9 DEF ReaderDoes, ReaderStep
<1>2. ASSUME NEW w \in Writers, WriterDoes(w) PROVE Data'
  <2>1. ASSUME NEW n \in Writes, pipewrite(w, n) PROVE Data'
    <3>1. n \in Nat
      BY QioAssumption
    <3>2. todo' \in [Writers -> Nat]
      BY <1>0, <2>1, <3>1 DEF pipewrite, qwrite
    <3> QED
      BY <1>0, <2>1, <3>2, DataSame DEF pipewrite, qwrite
  <2>2. ASSUME Fails(w), UNCHANGED <<blocks, hand, history>> PROVE Data'
    BY <1>0, <2>2, DataSame DEF Fails
  <2>3. CASE more(w)
    BY <1>0, <2>3, DataSame DEF more
  <2>4. CASE qbwriteClosed(w)
    BY <2>2, <2>4 DEF qbwriteClosed
  <2>5. CASE qbwrite(w)
    BY <1>0, <2>5, WriteData
  <2>6. CASE wakeReader(w)
    BY <1>0, <2>6, DataSame DEF wakeReader
  <2>7. CASE qbwriteDone(w)
    BY <1>0, <2>7, DataSame DEF qbwriteDone
  <2>8. CASE qbwriteFull(w)
    BY <1>0, <2>8, DataSame DEF qbwriteFull
  <2>9. CASE setflow(w)
    BY <1>0, <2>9, DataSame DEF setflow
  <2>10. CASE SleepWriter(w)
    BY <1>0, <2>10, DataSame DEF SleepWriter
  <2>11. CASE EintrWriter(w)
    BY <2>2, <2>11 DEF EintrWriter
  <2> QED
    BY <1>2, <2>1, <2>3, <2>4, <2>5, <2>6, <2>7, <2>8, <2>9, <2>10, <2>11 DEF WriterDoes, WriterStep
<1>3. CASE OtherDoes
  <2>0. ASSUME UNCHANGED vars PROVE Data'
    BY <1>0, <2>0, DataSame DEF vars
  <2>1. ASSUME NEW s \in Sides, pipeopen(s) PROVE Data'
    BY <2>0, <2>1 DEF pipeopen
  <2>2. ASSUME NEW s \in Sides, pipeclose(s) PROVE Data'
    <3>1. CASE qref[s] > 1
      BY <2>0, <2>2, <3>1 DEF pipeclose
    <3>2. CASE ~(qref[s] > 1) /\ s = 0
      <4>1. qref[s] = 1 /\ ~InUse(s)
        BY <2>2, <3>2 DEF pipeclose, PipeInv, RestTyped, Sides
      <4>2. hand = None
        BY <1>0, <3>2, <4>1, NoHand
      <4> QED
        BY <1>0, <2>2, <3>2, <4>2, CloseData DEF pipeclose
    <3>3. CASE ~(qref[s] > 1) /\ s # 0
      BY <1>0, <2>2, <3>3, DataSame DEF pipeclose, qhangup
    <3> QED
      BY <3>1, <3>2, <3>3
  <2>3. CASE WakeReader
    BY <1>0, <2>3, DataSame DEF WakeReader
  <2>4. CASE WakeWriter
    BY <1>0, <2>4, DataSame DEF WakeWriter
  <2>5. CASE pipecloseEnd
    <3>1. CASE qref = [s \in Sides |-> 0]
      <4>1. ~InUse(0)
        BY <1>0, <3>1 DEF Referred, Sides
      <4>2. hand = None
        BY <1>0, <4>1, NoHand
      <4> QED
        BY <1>0, <2>5, <3>1, <4>2, ReopenData DEF pipecloseEnd
    <3>2. CASE qref # [s \in Sides |-> 0]
      BY <2>0, <2>5, <3>2 DEF pipecloseEnd
    <3> QED
      BY <3>1, <3>2
  <2> QED
    BY <1>3, <2>1, <2>2, <2>3, <2>4, <2>5 DEF OtherDoes, Close, pipecloseWake
<1> QED
  BY <1>1, <1>2, <1>3, NextDoes

\* What a step may do to the state of the queue and to the Chans.
LEMMA ReaderState ==
    ASSUME NEW r \in Readers, PipeInv, ReaderDoes(r)
    PROVE  /\ closed' = closed /\ flow' \in BOOLEAN /\ starve' \in BOOLEAN /\ eof' \in 0 .. EofMax
           /\ pc[r] = "idle" => qref[0] > 0
           /\ eof' > 0 => closed /\ q' = << >> /\ hand' = None
<1>0. /\ closed \in BOOLEAN /\ flow \in BOOLEAN /\ starve \in BOOLEAN /\ eof \in 0 .. EofMax
      /\ eof > 0 => closed /\ q = << >> /\ hand = None
      /\ pc[r] = "copy" => hand # None
      /\ Checks(r) => hand = None
  BY NoHand DEF PipeInv, RestTyped, Ended
<1>1. CASE piperead(r)
  BY <1>0, <1>1 DEF piperead, qread, state, blocks
<1>2. CASE qwaitClosed(r)
  BY <1>0, <1>2 DEF qwaitClosed, Checks, blocks, EofMax
<1>3. CASE qwaitStarve(r)
  BY <1>0, <1>3 DEF qwaitStarve, Checks, blocks
<1>4. CASE qremove(r)
  BY <1>0, <1>4 DEF qremove, Checks, state
<1>5. ASSUME NEW n, qwakeup_unlock(r, n) PROVE flow' \in BOOLEAN
  BY <1>0, <1>5 DEF qwakeup_unlock
<1>6. ASSUME NEW n, copy(r, n)
      PROVE  /\ closed' = closed /\ flow' \in BOOLEAN /\ starve' = starve /\ eof' = eof
             /\ pc[r] = "copy"
  BY <1>5, <1>6 DEF copy
<1>7. ASSUME NEW n, qbread(r, n)
      PROVE  /\ closed' = closed /\ flow' \in BOOLEAN /\ starve' = starve /\ eof' = eof
             /\ q # << >> /\ Checks(r)
  BY <1>5, <1>7 DEF qbread
<1>8. CASE wakeWriter(r)
  BY <1>0, <1>8 DEF wakeWriter, state, blocks
<1>9. CASE SleepReader(r)
  BY <1>0, <1>9 DEF SleepReader, state, blocks
<1>10. CASE EintrReader(r)
  BY <1>0, <1>10 DEF EintrReader, state, blocks
<1>11. ASSUME NEW n, copy(r, n) \/ qbread(r, n)
       PROVE  /\ closed' = closed /\ flow' \in BOOLEAN /\ starve' \in BOOLEAN /\ eof' \in 0 .. EofMax
              /\ pc[r] # "idle" /\ ~(eof' > 0)
  BY <1>0, <1>6, <1>7, <1>11 DEF Checks
<1> QED
  BY <1>1, <1>2, <1>3, <1>4, <1>8, <1>9, <1>10, <1>11 DEF ReaderDoes, ReaderStep

LEMMA WriterState ==
    ASSUME NEW w \in Writers, PipeInv, WriterDoes(w)
    PROVE  /\ closed' = closed /\ flow' \in BOOLEAN /\ starve' \in BOOLEAN /\ eof' = eof
           /\ pc[w] = "idle" => qref[1] > 0
           /\ hand' = hand /\ (closed => q' = q)
<1>0. flow \in BOOLEAN /\ starve \in BOOLEAN
  BY DEF PipeInv, RestTyped
<1>1. ASSUME NEW n \in Writes, pipewrite(w, n)
      PROVE  /\ closed' = closed /\ flow' = flow /\ starve' = starve /\ eof' = eof
             /\ qref[1] > 0 /\ hand' = hand /\ q' = q
  BY <1>1 DEF pipewrite, qwrite, state, blocks
<1>2. CASE more(w)
  BY <1>0, <1>2 DEF more, state, blocks
<1>3. CASE qbwriteClosed(w)
  BY <1>0, <1>3 DEF qbwriteClosed, state, blocks
<1>4. CASE qbwrite(w)
  BY <1>0, <1>4 DEF qbwrite
<1>5. CASE wakeReader(w)
  BY <1>0, <1>5 DEF wakeReader, state, blocks
<1>6. CASE qbwriteDone(w)
  BY <1>0, <1>6 DEF qbwriteDone, state, blocks
<1>7. CASE qbwriteFull(w)
  BY <1>0, <1>7 DEF qbwriteFull, state, blocks
<1>8. CASE setflow(w)
  BY <1>0, <1>8 DEF setflow, blocks
<1>9. CASE SleepWriter(w)
  BY <1>0, <1>9 DEF SleepWriter, state, blocks
<1>10. CASE EintrWriter(w)
  BY <1>0, <1>10 DEF EintrWriter, state, blocks
<1> QED
  BY <1>0, <1>1, <1>2, <1>3, <1>4, <1>5, <1>6, <1>7, <1>8, <1>9, <1>10 DEF WriterDoes, WriterStep

LEMMA OtherState ==
    ASSUME PipeInv, OtherDoes
    PROVE  /\ RestTyped' /\ Ended'
           /\ \A s \in Sides : InUse(s) => qref'[s] > 0
<1>0. /\ RestTyped /\ Referred /\ Ended /\ Holds
      /\ \A s \in Sides : qref[s] \in Nat /\ qref[s] <= MaxRef[s] /\ MaxRef[s] \in Nat
      /\ 0 \in Sides /\ 1 \in Sides
  BY PipeAssumption DEF PipeInv, RestTyped, Sides
<1>1. ASSUME NEW s \in Sides, pipeopen(s)
      PROVE  RestTyped' /\ Ended' /\ \A t \in Sides : InUse(t) => qref'[t] > 0
  <2>1. /\ closing = "no" /\ closing' = closing /\ closed' = closed /\ flow' = flow
        /\ starve' = starve /\ eof' = eof /\ q' = q /\ hand' = hand
        /\ qref[s] < MaxRef[s]
        /\ qref' = [qref EXCEPT ![s] = @ + 1]
    BY <1>1 DEF pipeopen, vars, state, blocks
  <2>2. /\ qref' \in [Sides -> Nat] /\ qref'[s] = qref[s] + 1
        /\ \A t \in Sides : t # s => qref'[t] = qref[t]
    BY <1>0, <2>1 DEF RestTyped
  <2>3. RestTyped'
    BY <1>0, <2>1, <2>2 DEF RestTyped
  <2>4. Ended'
    <3>1. qref'[0] = 0 => qref[0] = 0
      BY <1>0, <2>2
    <3> QED
      BY <1>0, <2>1, <3>1 DEF Ended
  <2>5. ASSUME NEW t \in Sides, InUse(t) PROVE qref'[t] > 0
    BY <1>0, <2>2, <2>5 DEF Referred
  <2> QED
    BY <2>3, <2>4, <2>5
<1>2. ASSUME NEW s \in Sides, pipeclose(s)
      PROVE  RestTyped' /\ Ended' /\ \A t \in Sides : InUse(t) => qref'[t] > 0
  <2>1. /\ closing = "no" /\ qref[s] > 0 /\ (qref[s] = 1 => ~InUse(s))
        /\ qref' = [qref EXCEPT ![s] = @ - 1]
    BY <1>2 DEF pipeclose
  <2>2. /\ qref' \in [Sides -> Nat] /\ qref'[s] = qref[s] - 1
        /\ \A t \in Sides : t # s => qref'[t] = qref[t]
    BY <1>0, <2>1 DEF RestTyped
  <2>3. \A t \in Sides : InUse(t) => qref'[t] > 0
    BY <1>0, <2>1, <2>2 DEF Referred
  <2>4. \A t \in Sides : qref'[t] <= MaxRef[t]
    BY <1>0, <2>2
  <2>5. CASE qref[s] > 1
    <3>1. /\ closing' = closing /\ closed' = closed /\ flow' = flow
          /\ starve' = starve /\ eof' = eof /\ q' = q /\ hand' = hand
      BY <1>2, <2>5 DEF pipeclose, vars, state, blocks
    <3>2. qref'[0] = 0 => qref[0] = 0
      BY <1>0, <2>2, <2>5
    <3> QED
      BY <1>0, <2>1, <2>2, <2>3, <2>4, <3>1, <3>2 DEF RestTyped, Ended
  <2>6. CASE ~(qref[s] > 1) /\ s = 0
    <3>1. /\ closing' = "rr" /\ closed' = TRUE /\ flow' = FALSE /\ starve' = FALSE
          /\ q' = << >> /\ eof' = eof /\ hand' = hand
      BY <1>2, <2>6 DEF pipeclose, qclose
    <3> QED
      BY <1>0, <2>2, <2>3, <2>4, <3>1 DEF RestTyped, Ended
  <2>7. CASE ~(qref[s] > 1) /\ s = 1
    <3>1. /\ closing' = "rr" /\ closed' = TRUE /\ flow' = flow /\ starve' = starve
          /\ q' = q /\ eof' = eof /\ hand' = hand
      BY <1>2, <2>7 DEF pipeclose, qhangup, blocks
    <3>2. qref'[1] = 0
      BY <1>0, <2>1, <2>2, <2>7
    <3> QED
      BY <1>0, <2>2, <2>3, <2>4, <3>1, <3>2 DEF RestTyped, Ended
  <2> QED
    BY <2>5, <2>6, <2>7 DEF Sides
<1>3. CASE pipecloseWake
  <2>1. /\ closing # "no" /\ closing' \in {"wr", "check"} /\ qref' = qref /\ closed' = closed
        /\ flow' = flow /\ starve' = starve /\ eof' = eof /\ q' = q /\ hand' = hand
    BY <1>3 DEF pipecloseWake, WakeReader, WakeWriter, state, blocks
  <2> QED
    BY <1>0, <2>1 DEF RestTyped, Ended, Referred
<1>4. CASE pipecloseEnd
  <2>1. closing = "check" /\ closing' = "no" /\ qref' = qref
    BY <1>4 DEF pipecloseEnd
  <2>2. CASE qref = [s \in Sides |-> 0]
    <3>1. /\ closed' = FALSE /\ starve' = TRUE /\ eof' = 0 /\ flow' = flow
      BY <1>4, <2>2 DEF pipecloseEnd, qreopen
    <3>2. RestTyped'
      <4>1. closed' \in BOOLEAN /\ starve' \in BOOLEAN /\ flow' \in BOOLEAN
        BY <1>0, <3>1, Zenon DEF RestTyped
      <4>2. eof' \in 0 .. EofMax
        BY <3>1 DEF EofMax
      <4> QED
        BY <1>0, <2>1, <4>1, <4>2 DEF RestTyped
    <3>3. Ended'
      BY <2>1, <3>1 DEF Ended
    <3>4. \A s \in Sides : InUse(s) => qref'[s] > 0
      BY <1>0, <2>1 DEF Referred
    <3> QED
      BY <3>2, <3>3, <3>4
  <2>3. CASE qref # [s \in Sides |-> 0]
    <3>1. /\ closed' = closed /\ flow' = flow /\ starve' = starve /\ eof' = eof
          /\ q' = q /\ hand' = hand
      BY <1>4, <2>3 DEF pipecloseEnd, vars, state, blocks
    <3>2. ~(qref[0] = 0 /\ qref[1] = 0)
      BY <1>0, <2>3 DEF RestTyped, Sides
    <3> QED
      BY <1>0, <2>1, <3>1, <3>2 DEF RestTyped, Ended, Referred
  <2> QED
    BY <2>2, <2>3
<1> QED
  BY <1>1, <1>2, <1>3, <1>4 DEF OtherDoes, Close

\* None but r or w begins a read or a write.
LEMMA InUseStays ==
    ASSUME Holds, NEW s \in Sides, InUse(s)'
    PROVE  /\ s = 0 /\ ReadersIdle => InUse(s)
           /\ s = 1 /\ WritersIdle => InUse(s)
           /\ \A r \in Readers : ReaderGoes(r) /\ s = 0 /\ ~InUse(s) => pc[r] = "idle"
           /\ \A w \in Writers : WriterGoes(w) /\ s = 1 /\ ~InUse(s) => pc[w] = "idle"
<1>1. /\ rr # None => pc[rr] = "asleep"
      /\ wr # None => pc[wr] = "asleep"
  BY DEF Holds, ReadSide, WriteSide, Side
<1>2. PICK p \in Users(s) : pc'[p] # "idle"
  BY DEF InUse, Users
<1>3. ASSUME s = 0, ReadersIdle PROVE InUse(s)
  <2>1. p \in Readers
    BY <1>2, <1>3 DEF Users
  <2>2. pc[p] # "idle"
    BY <1>1, <1>2, <1>3, <2>1, Apart DEF ReadersIdle, Idles
  <2> QED
    BY <1>3, <2>1, <2>2 DEF InUse, Users
<1>4. ASSUME s = 1, WritersIdle PROVE InUse(s)
  <2>1. p \in Writers
    BY <1>2, <1>4 DEF Users
  <2>2. pc[p] # "idle"
    BY <1>1, <1>2, <1>4, <2>1, Apart DEF WritersIdle, Idles
  <2> QED
    BY <1>4, <2>1, <2>2 DEF InUse, Users
<1> QED
  BY <1>3, <1>4 DEF InUse, Users

LEMMA PipeInvKept ==
    ASSUME PipeInv, Next PROVE PipeInv'
<1>0. Holds /\ Data /\ RestTyped /\ Referred /\ Ended /\ Queued
  BY DEF PipeInv, Data, Sums
<1>1. Holds' /\ Data'
  BY <1>0, HoldsKept, DataKept
<1>2. ASSUME NEW r \in Readers, ReaderDoes(r) PROVE RestTyped' /\ Referred' /\ Ended'
  <2>1. /\ closed' = closed /\ flow' \in BOOLEAN /\ starve' \in BOOLEAN /\ eof' \in 0 .. EofMax
        /\ pc[r] = "idle" => qref[0] > 0
        /\ eof' > 0 => closed /\ q' = << >> /\ hand' = None
    BY <1>2, ReaderState
  <2>2. qref' = qref /\ closing' = closing /\ ReaderGoes(r)
    BY <1>0, <1>2, ReaderActs DEF ReaderDoes
  <2>3. WritersIdle
    BY <2>2 DEF ReaderGoes
  <2>4. qref[0] > 0
    <3>1. CASE pc[r] = "idle"
      BY <2>1, <3>1
    <3>2. CASE pc[r] # "idle"
      BY <1>0, <3>2 DEF Referred, InUse, Users, Sides
    <3> QED
      BY <3>1, <3>2
  <2>5. Referred'
    <3>1. ASSUME NEW s \in Sides, InUse(s)' PROVE qref'[s] > 0
      BY <1>0, <2>2, <2>3, <2>4, <3>1, InUseStays DEF Referred, Sides
    <3> QED
      BY <3>1 DEF Referred
  <2>6. RestTyped'
    BY <1>0, <2>1, <2>2 DEF RestTyped
  <2>7. Ended'
    <3>1. qref[0] # 0
      BY <1>0, <2>4 DEF RestTyped, Sides
    <3> QED
      BY <1>0, <2>1, <2>2, <3>1 DEF Ended
  <2> QED
    BY <2>5, <2>6, <2>7
<1>3. ASSUME NEW w \in Writers, WriterDoes(w) PROVE RestTyped' /\ Referred' /\ Ended'
  <2>1. /\ closed' = closed /\ flow' \in BOOLEAN /\ starve' \in BOOLEAN /\ eof' = eof
        /\ pc[w] = "idle" => qref[1] > 0
        /\ hand' = hand /\ (closed => q' = q)
    BY <1>3, WriterState
  <2>2. qref' = qref /\ closing' = closing /\ WriterGoes(w)
    BY <1>0, <1>3, WriterActs DEF WriterDoes
  <2>3. ReadersIdle
    BY <2>2 DEF WriterGoes
  <2>4. Referred'
    <3>1. ASSUME NEW s \in Sides, InUse(s)' PROVE qref'[s] > 0
      <4>1. CASE s = 0
        BY <1>0, <2>2, <2>3, <3>1, <4>1, InUseStays DEF Referred
      <4>2. CASE s = 1
        BY <1>0, <2>1, <2>2, <3>1, <4>2, InUseStays DEF Referred
      <4> QED
        BY <4>1, <4>2 DEF Sides
    <3> QED
      BY <3>1 DEF Referred
  <2>5. RestTyped'
    BY <1>0, <2>1, <2>2 DEF RestTyped
  <2>6. Ended'
    BY <1>0, <2>1, <2>2 DEF Ended
  <2> QED
    BY <2>4, <2>5, <2>6
<1>4. ASSUME OtherDoes PROVE RestTyped' /\ Referred' /\ Ended'
  <2>0. RestTyped' /\ Ended'
    BY <1>4, OtherState
  <2>1. \A s \in Sides : InUse(s) => qref'[s] > 0
    BY <1>4, OtherState
  <2>2. ReadersIdle /\ WritersIdle
    BY <1>0, <1>4, OtherActs DEF OtherDoes, NoneGoes
  <2>3. Referred'
    <3>1. ASSUME NEW s \in Sides, InUse(s)' PROVE qref'[s] > 0
      BY <1>0, <2>1, <2>2, <3>1, InUseStays DEF Sides
    <3> QED
      BY <3>1 DEF Referred
  <2> QED
    BY <2>0, <2>3
<1>5. RestTyped' /\ Referred' /\ Ended'
  BY <1>2, <1>3, <1>4, NextDoes
<1> QED
  BY <1>1, <1>5 DEF PipeInv

LEMMA InitPipeInv == PInit => PipeInv
<1> SUFFICES ASSUME PInit PROVE PipeInv
  OBVIOUS
<1>1. /\ q = << >> /\ len = 0 /\ dlen = 0
      /\ closed = FALSE /\ flow = FALSE /\ starve = TRUE /\ eof = 0
      /\ rlock = << >> /\ wlock = << >> /\ rr = None /\ wr = None
      /\ pc = [p \in Procs |-> "idle"] /\ hand = None
      /\ todo = [w \in Writers |-> 0] /\ sent = 0 /\ got = 0
      /\ qref = [s \in Sides |-> 0] /\ closing = "no"
  BY DEF PInit, Init
<1>2. \A p \in Procs : pc[p] = "idle"
  BY <1>1
<1>3. Holds
  <2>1. LocksTyped
    BY <1>1 DEF LocksTyped, Labels
  <2>2. \A P : Len(<< >>) = 0 /\ Distinct(<< >>) /\ \A p : ~In(p, << >>)
    BY DEF Distinct, In
  <2>3. ReadSide
    BY <1>1, <1>2, <2>2, Apart DEF ReadSide, Side
  <2>4. WriteSide
    BY <1>1, <1>2, <2>2, Apart DEF WriteSide, Side
  <2>5. Handed
    BY <1>1, <1>2, Apart DEF Handed, ReaderLabels
  <2> QED
    BY <2>1, <2>3, <2>4, <2>5 DEF Holds
<1>4. Data
  <2>1. << >> \in Seq(Block) /\ << >> \in Seq(Nat) /\ << >> \o << >> = << >> /\ Len(<< >>) = 0
    OBVIOUS
  <2>2. Whole(q) = Nothing
    BY <1>1, <2>1, WholeFacts
  <2>3. Nothing.data = << >> /\ Nothing.alloc = 0
    BY DEF Nothing
  <2>4. Nums(0, 0) = << >>
    <3>1. Nums(0, 0) \in Seq(Nat) /\ Len(Nums(0, 0)) = 0
      BY NumsFacts
    <3> QED
      BY <3>1
  <2>5. Sums
    BY <1>1, <2>1, <2>2, <2>3 DEF Sums, Queued
  <2>6. Streamed
    BY <1>1, <2>1, <2>2, <2>3, <2>4 DEF Streamed, HandBytes, Cat
  <2> QED
    BY <2>5, <2>6 DEF Data
<1>5. RestTyped
  <2>1. \A s \in Sides : MaxRef[s] \in Nat
    BY PipeAssumption
  <2>2. closed \in BOOLEAN /\ starve \in BOOLEAN /\ flow \in BOOLEAN
    BY <1>1, Zenon
  <2> QED
    BY <1>1, <2>1, <2>2 DEF RestTyped, EofMax
<1>6. Referred
  <2>1. \A s \in Sides : \A p \in Users(s) : p \in Procs
    BY Apart DEF Users
  <2> QED
    BY <1>2, <2>1 DEF Referred, InUse
<1>7. Ended
  BY <1>1 DEF Ended
<1> QED
  BY <1>3, <1>4, <1>5, <1>6, <1>7 DEF PipeInv

LEMMA PipeInvStutter == PipeInv /\ UNCHANGED pvars => PipeInv'
<1> SUFFICES ASSUME PipeInv, UNCHANGED pvars PROVE PipeInv'
  OBVIOUS
<1>1. /\ q' = q /\ len' = len /\ dlen' = dlen
      /\ closed' = closed /\ flow' = flow /\ starve' = starve /\ eof' = eof
      /\ rlock' = rlock /\ wlock' = wlock /\ rr' = rr /\ wr' = wr
      /\ pc' = pc /\ hand' = hand /\ todo' = todo /\ sent' = sent /\ got' = got
      /\ qref' = qref /\ closing' = closing
  BY DEF pvars, vars, blocks, state, waits, history
<1>2. Holds'
  BY <1>1 DEF PipeInv, Holds, LocksTyped, ReadSide, WriteSide, Handed
<1>3. Data'
  BY <1>1 DEF PipeInv, Data, Sums, Queued, Streamed, HandBytes
<1>4. RestTyped' /\ Ended'
  BY <1>1 DEF PipeInv, RestTyped, Ended
<1>5. Referred'
  BY <1>1 DEF PipeInv, Referred, InUse
<1> QED
  BY <1>2, <1>3, <1>4, <1>5 DEF PipeInv

THEOREM PipeInvariant == Spec => []PipeInv
<1>1. PInit => PipeInv
  BY InitPipeInv
<1>2. PipeInv /\ [Next]_pvars => PipeInv'
  BY PipeInvKept, PipeInvStutter
<1> QED
  BY <1>1, <1>2, PTL DEF Spec

\* After a read has seen the end of the stream nothing is queued again before the
\* pipe is reopened (qbwrite looks at Qclosed in the section that queues), and
\* nothing is left for those who open it next when its readers are gone
\* (pipeclose, devpipe.c:243-289).
THEOREM PipeEofFinal == Spec => []EofFinal
<1>1. PipeInv => EofFinal
  <2> SUFFICES ASSUME PipeInv, eof > 0 \/ (closing = "no" /\ qref[0] = 0 /\ closed)
               PROVE  closed /\ q = << >> /\ hand = None
    BY DEF EofFinal
  <2>1. Ended /\ Referred /\ Holds
    BY DEF PipeInv
  <2>2. CASE eof > 0
    BY <2>1, <2>2 DEF Ended
  <2>3. CASE closing = "no" /\ qref[0] = 0 /\ closed
    <3>1. ~InUse(0)
      BY <2>1, <2>3 DEF Referred, Sides
    <3>2. hand = None
      BY <2>1, <3>1, NoHand
    <3> QED
      BY <2>1, <2>3, <3>2 DEF Ended
  <2> QED
    BY <2>2, <2>3
<1> QED
  BY <1>1, PipeInvariant, PTL

\* q->len and q->dlen are the bytes that the queued blocks have and hold,
\* whatever qread puts back, and the variables have their types.
THEOREM PipeCounted == Spec => []Counted
<1>1. PipeInv => Counted
  <2> SUFFICES ASSUME PipeInv PROVE Counted
    OBVIOUS
  <2>1. Holds /\ Data /\ RestTyped
    BY DEF PipeInv
  <2>2. /\ q \in Seq(Block) /\ hand \in Block \cup {None}
        /\ sent \in Nat /\ got \in 0 .. sent /\ todo \in [Writers -> Nat]
        /\ dlen = Len(Whole(q).data) /\ len = Whole(q).alloc
    BY <2>1 DEF Data, Sums, Queued
  <2>3. len \in Nat /\ dlen \in Nat
    BY <2>2, WholeFacts DEF Wholes
  <2>4. TypeOK
    BY <2>1, <2>2, <2>3 DEF TypeOK, Holds, LocksTyped, RestTyped
  <2> QED
    BY <2>2, <2>4 DEF Counted, Bytes
<1> QED
  BY <1>1, PipeInvariant, PTL

\* What was written and not yet read is what is in hand and in the queue, in the
\* order of the writes, though qread copies with q->l dropped.
THEOREM PipeInOrder == Spec => []InOrder
<1>1. PipeInv => InOrder
  <2> SUFFICES ASSUME PipeInv PROVE InOrder
    OBVIOUS
  <2>1. q \in Seq(Block) /\ hand \in Block \cup {None} /\ Streamed
    BY DEF PipeInv, Data, Sums, Queued
  <2>2. Whole(InHand \o q).data = Cat(HandBytes, Whole(q).data)
    <3>1. CASE hand = None
      <4>1. << >> \o q = q
        BY <2>1, ConcatEmptySeq
      <4>2. Cat(<< >>, Whole(q).data) = Whole(q).data
        BY <2>1, WholeFacts, ConcatEmptySeq DEF Cat, Wholes
      <4> QED
        BY <3>1, <4>1, <4>2 DEF InHand, HandBytes
    <3>2. CASE hand # None
      <4>1. hand \in Block
        BY <2>1, <3>2
      <4>2. Whole(<<hand>> \o q) = Both(hand, Whole(q))
        BY <2>1, <4>1, WholeCons
      <4> QED
        BY <3>2, <4>2 DEF InHand, HandBytes, Both
    <3> QED
      BY <3>1, <3>2
  <2> QED
    BY <2>1, <2>2 DEF InOrder, Bytes, Streamed, Nums
<1> QED
  BY <1>1, PipeInvariant, PTL
=============================================================================
