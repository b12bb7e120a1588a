--------------------------- MODULE AcmeFileProofs ---------------------------
(* Proofs, for any text, any blocks and any commands, of the safety          *)
(* properties of AcmeFile, and of what the Buffer's operations do.           *)
EXTENDS AcmeFile, QueueLemmas

-----------------------------------------------------------------------------
(* Sequences, by their elements.                                           *)

LEMMA SubSeqFacts ==
    ASSUME NEW S, NEW s \in Seq(S), NEW m \in 1 .. Len(s) + 1, NEW n \in m - 1 .. Len(s)
    PROVE  /\ SubSeq(s, m, n) \in Seq(S)
           /\ Len(SubSeq(s, m, n)) = n - m + 1
           /\ \A x \in 1 .. n - m + 1 : SubSeq(s, m, n)[x] = s[m + x - 1]
OBVIOUS

LEMMA SpliceFacts ==
    ASSUME NEW S, NEW s \in Seq(S), NEW t \in Seq(S),
           NEW q0 \in 0 .. Len(s), NEW q1 \in q0 .. Len(s)
    PROVE  /\ Splice(s, q0, q1, t) \in Seq(S)
           /\ Len(Splice(s, q0, q1, t)) = Len(s) - (q1 - q0) + Len(t)
           /\ \A x \in 1 .. Len(s) - (q1 - q0) + Len(t) :
                 Splice(s, q0, q1, t)[x] = IF x <= q0 THEN s[x]
                                           ELSE IF x <= q0 + Len(t) THEN t[x - q0]
                                           ELSE s[x - Len(t) + (q1 - q0)]
<1> DEFINE a == SubSeq(s, 1, q0)
           b == SubSeq(s, q1 + 1, Len(s))
<1>0. Len(s) \in Nat /\ Len(t) \in Nat
  OBVIOUS
<1>1. a \in Seq(S) /\ Len(a) = q0 /\ \A x \in 1 .. q0 : a[x] = s[x]
  BY <1>0, SubSeqFacts
<1>2. /\ b \in Seq(S) /\ Len(b) = Len(s) - q1
      /\ \A x \in 1 .. Len(s) - q1 : b[x] = s[q1 + x]
  <2>1. q1 + 1 \in 1 .. Len(s) + 1 /\ Len(s) \in q1 .. Len(s)
    BY <1>0
  <2> QED
    BY <1>0, <2>1, SubSeqFacts
<1> HIDE DEF a, b
<1> DEFINE d == a \o t
<1>3. /\ d \in Seq(S) /\ Len(d) = q0 + Len(t)
      /\ \A x \in 1 .. q0 + Len(t) : d[x] = IF x <= q0 THEN a[x] ELSE t[x - q0]
  BY <1>0, <1>1, JoinFacts
<1>5. Splice(s, q0, q1, t) = d \o b
  BY DEF Splice, a, b
<1> HIDE DEF d
<1>4. /\ d \o b \in Seq(S) /\ Len(d \o b) = Len(d) + Len(b)
      /\ \A x \in 1 .. Len(d) + Len(b) :
            (d \o b)[x] = IF x <= Len(d) THEN d[x] ELSE b[x - Len(d)]
  BY <1>2, <1>3, JoinFacts
<1>6. Len(s) - (q1 - q0) + Len(t) = q0 + Len(t) + (Len(s) - q1)
  BY <1>0
<1>7. ASSUME NEW x \in 1 .. Len(s) - (q1 - q0) + Len(t)
      PROVE  Splice(s, q0, q1, t)[x] = IF x <= q0 THEN s[x]
                                       ELSE IF x <= q0 + Len(t) THEN t[x - q0]
                                       ELSE s[x - Len(t) + (q1 - q0)]
  <2>1. CASE x <= q0
    BY <2>1, <1>0, <1>1, <1>3, <1>4, <1>5, <1>6
  <2>2. CASE q0 < x /\ x <= q0 + Len(t)
    BY <2>2, <1>0, <1>3, <1>4, <1>5, <1>6
  <2>3. CASE q0 + Len(t) < x
    <3>1. /\ x - (q0 + Len(t)) \in 1 .. Len(s) - q1
          /\ q1 + (x - (q0 + Len(t))) = x - Len(t) + (q1 - q0)
      BY <2>3, <1>0
    <3>2. Splice(s, q0, q1, t)[x] = b[x - (q0 + Len(t))]
      BY <2>3, <1>0, <1>2, <1>3, <1>4, <1>5, <1>6
    <3>3. b[x - (q0 + Len(t))] = s[x - Len(t) + (q1 - q0)]
      BY <3>1, <1>2
    <3> QED
      BY <2>3, <3>2, <3>3, <1>0
  <2> QED
    BY <2>1, <2>2, <2>3, <1>0
<1> QED
  BY <1>0, <1>2, <1>3, <1>4, <1>5, <1>6, <1>7

LEMMA SpliceIn ==
    ASSUME NEW S, NEW s \in Seq(S), NEW t \in Seq(S), NEW q \in 0 .. Len(s)
    PROVE  /\ Splice(s, q, q, t) \in Seq(S)
           /\ Len(Splice(s, q, q, t)) = Len(s) + Len(t)
           /\ \A x \in 1 .. Len(s) + Len(t) :
                 Splice(s, q, q, t)[x] = IF x <= q THEN s[x]
                                         ELSE IF x <= q + Len(t) THEN t[x - q]
                                         ELSE s[x - Len(t)]
<1>0. Len(s) \in Nat /\ Len(t) \in Nat
  OBVIOUS
<1>1. SUFFICES ASSUME NEW r \in q .. Len(s), r = q
               PROVE  /\ Splice(s, q, r, t) \in Seq(S)
                      /\ Len(Splice(s, q, r, t)) = Len(s) + Len(t)
                      /\ \A x \in 1 .. Len(s) + Len(t) :
                            Splice(s, q, r, t)[x] = IF x <= q THEN s[x]
                                                    ELSE IF x <= q + Len(t) THEN t[x - q]
                                                    ELSE s[x - Len(t)]
  <2>1. q \in q .. Len(s)
    BY <1>0
  <2> QED
    BY <2>1
<1>2. /\ Splice(s, q, r, t) \in Seq(S)
      /\ Len(Splice(s, q, r, t)) = Len(s) - (r - q) + Len(t)
  BY SpliceFacts
<1>3. \A x \in 1 .. Len(s) - (r - q) + Len(t) :
         Splice(s, q, r, t)[x] = IF x <= q THEN s[x]
                                 ELSE IF x <= q + Len(t) THEN t[x - q]
                                 ELSE s[x - Len(t) + (r - q)]
  BY SpliceFacts
<1>4. Len(s) - (r - q) + Len(t) = Len(s) + Len(t)
  BY <1>0, <1>1
<1>5. \A x \in 1 .. Len(s) + Len(t) : x - Len(t) + (r - q) = x - Len(t)
  BY <1>0, <1>1
<1> QED
  BY <1>2, <1>3, <1>4, <1>5

\* p is s with t in the place of what is between q0 and q1.
Spliced(S, p, s, q0, q1, t) ==
    /\ p \in Seq(S) /\ Len(p) = Len(s) - (q1 - q0) + Len(t)
    /\ \A x \in 1 .. Len(s) - (q1 - q0) + Len(t) :
          p[x] = IF x <= q0 THEN s[x] ELSE IF x <= q0 + Len(t) THEN t[x - q0]
                 ELSE s[x - Len(t) + (q1 - q0)]

\* p is s with t at q.
Inserted(S, p, s, q, t) ==
    /\ p \in Seq(S) /\ Len(p) = Len(s) + Len(t)
    /\ \A x \in 1 .. Len(s) + Len(t) :
          p[x] = IF x <= q THEN s[x] ELSE IF x <= q + Len(t) THEN t[x - q] ELSE s[x - Len(t)]

LEMMA SpliceIs ==
    ASSUME NEW S, NEW s \in Seq(S), NEW t \in Seq(S),
           NEW q0 \in 0 .. Len(s), NEW q1 \in q0 .. Len(s)
    PROVE  Spliced(S, Splice(s, q0, q1, t), s, q0, q1, t)
<1> DEFINE p == Splice(s, q0, q1, t)
<1>1. p \in Seq(S) /\ Len(p) = Len(s) - (q1 - q0) + Len(t)
  BY SpliceFacts
<1>2. \A x \in 1 .. Len(s) - (q1 - q0) + Len(t) :
         p[x] = IF x <= q0 THEN s[x] ELSE IF x <= q0 + Len(t) THEN t[x - q0]
                ELSE s[x - Len(t) + (q1 - q0)]
  BY SpliceFacts
<1> HIDE DEF p
<1>3. Spliced(S, p, s, q0, q1, t)
  BY <1>1, <1>2 DEF Spliced
<1> QED
  BY <1>3 DEF p

LEMMA SpliceInIs ==
    ASSUME NEW S, NEW s \in Seq(S), NEW t \in Seq(S), NEW q \in 0 .. Len(s)
    PROVE  Inserted(S, Splice(s, q, q, t), s, q, t)
<1> DEFINE p == Splice(s, q, q, t)
<1>1. p \in Seq(S) /\ Len(p) = Len(s) + Len(t)
  BY SpliceIn
<1>2. \A x \in 1 .. Len(s) + Len(t) :
         p[x] = IF x <= q THEN s[x] ELSE IF x <= q + Len(t) THEN t[x - q] ELSE s[x - Len(t)]
  BY SpliceIn
<1> HIDE DEF p
<1>3. Inserted(S, p, s, q, t)
  BY <1>1, <1>2 DEF Inserted
<1> QED
  BY <1>3 DEF p

LEMMA InsertAtFacts ==
    ASSUME NEW S, NEW s \in Seq(S), NEW e \in S, NEW n \in 1 .. Len(s) + 1
    PROVE  /\ InsertAt(s, n, e) \in Seq(S)
           /\ Len(InsertAt(s, n, e)) = Len(s) + 1
           /\ InsertAt(s, n, e)[n] = e
           /\ \A x \in 1 .. Len(s) + 1 : x < n => InsertAt(s, n, e)[x] = s[x]
           /\ \A x \in 1 .. Len(s) + 1 : x > n => InsertAt(s, n, e)[x] = s[x - 1]
<1>1. Len(s) \in Nat
  OBVIOUS
<1> DEFINE u == <<e>>
           k == n - 1
<1>2. InsertAt(s, n, e) = Splice(s, k, k, u)
  <2>1. (n - 1) + 1 = n
    OBVIOUS
  <2> QED
    BY <2>1 DEF InsertAt, Splice
<1>3. k \in 0 .. Len(s) /\ n = k + 1
  BY <1>1
<1>4. u \in Seq(S) /\ Len(u) = 1 /\ u[1] = e
  OBVIOUS
<1> HIDE DEF u, k
<1> DEFINE p == Splice(s, k, k, u)
<1>5. /\ p \in Seq(S)
      /\ Len(p) = Len(s) + Len(u)
      /\ \A x \in 1 .. Len(s) + Len(u) :
            p[x] = IF x <= k THEN s[x] ELSE IF x <= k + Len(u) THEN u[x - k]
                   ELSE s[x - Len(u)]
  BY <1>3, <1>4, SpliceIn
<1> HIDE DEF p
<1>6. ASSUME NEW x \in 1 .. Len(s) + 1
      PROVE  (x = n => p[x] = e) /\ (x < n => p[x] = s[x]) /\ (x > n => p[x] = s[x - 1])
  <2>1. x = n => x - k = 1
    BY <1>1, <1>3
  <2> QED
    BY <2>1, <1>1, <1>3, <1>4, <1>5
<1>7. InsertAt(s, n, e) = p
  BY <1>2 DEF p
<1> QED
  BY <1>1, <1>4, <1>5, <1>6, <1>7

-----------------------------------------------------------------------------
(* Induction, and the recursive functions that loops are written as.       *)

LEMMA Steps ==
    ASSUME NEW N \in Nat, NEW T, 0 \in T, \A k \in 1 .. N : k - 1 \in T => k \in T
    PROVE  \A k \in 0 .. N : k \in T
<1> DEFINE U == {k \in 0 .. N : k \notin T}
<1>1. SUFFICES ASSUME U # {} PROVE FALSE
  OBVIOUS
<1>2. PICK n \in U : \A k \in U : n <= k
  <2> HIDE DEF U
  <2>1. U \in SUBSET Nat
    BY DEF U
  <2> QED
    BY <2>1, <1>1, Least
<1>3. n \in 1 .. N /\ n - 1 \in 0 .. N /\ n - 1 < n
  OBVIOUS
<1>4. n - 1 \in T
  BY <1>2, <1>3
<1> QED
  BY <1>3, <1>4

Iterate(f, V, a, N, G) == /\ f \in [0 .. N -> V] /\ f[0] = a
                          /\ \A k \in 1 .. N : f[k] = G[k][f[k - 1]]

LEMMA Iterates ==
    ASSUME NEW V, NEW a \in V, NEW N \in Nat, NEW G \in [1 .. N -> [V -> V]]
    PROVE  \E f : Iterate(f, V, a, N, G)
<1> DEFINE Is(f, n) == /\ f \in [0 .. n -> V] /\ f[0] = a
                       /\ \A k \in 1 .. n : f[k] = G[k][f[k - 1]]
           T == {n \in 0 .. N : \E f : Is(f, n)}
<1>1. 0 \in T
  <2> DEFINE f == [k \in 0 .. 0 |-> a]
  <2>1. f \in [0 .. 0 -> V] /\ f[0] = a
    OBVIOUS
  <2> HIDE DEF f
  <2>2. Is(f, 0) /\ 0 \in 0 .. N
    BY <2>1
  <2> HIDE DEF Is
  <2> QED
    BY <2>2
<1>2. ASSUME NEW n \in 1 .. N, n - 1 \in T PROVE n \in T
  <2>1. PICK f : Is(f, n - 1)
    BY <1>2
  <2> DEFINE g == [k \in 0 .. n |-> IF k = n THEN G[n][f[n - 1]] ELSE f[k]]
  <2>2. /\ f \in [0 .. n - 1 -> V] /\ f[0] = a
        /\ \A k \in 1 .. n - 1 : f[k] = G[k][f[k - 1]]
    BY <2>1
  <2>3. f[n - 1] \in V /\ G[n][f[n - 1]] \in V
    BY <2>2
  <2>4. g \in [0 .. n -> V] /\ g[n] = G[n][f[n - 1]] /\ \A k \in 0 .. n - 1 : g[k] = f[k]
    BY <2>2, <2>3
  <2> HIDE DEF g
  <2>5. g[0] = a
    BY <2>2, <2>4
  <2>6. ASSUME NEW k \in 1 .. n PROVE g[k] = G[k][g[k - 1]]
    <3>1. g[k - 1] = f[k - 1]
      <4>1. k - 1 \in 0 .. n - 1
        OBVIOUS
      <4> QED
        BY <4>1, <2>4
    <3>2. CASE k = n
      BY <3>1, <3>2, <2>4
    <3>3. CASE k # n
      <4>1. k \in 1 .. n - 1 /\ k \in 0 .. n - 1
        BY <3>3
      <4> QED
        BY <4>1, <3>1, <2>2, <2>4
    <3> QED
      BY <3>2, <3>3
  <2>7. Is(g, n)
    BY <2>4, <2>5, <2>6
  <2> HIDE DEF Is
  <2> QED
    BY <2>7
<1> HIDE DEF T
<1>3. \A n \in 0 .. N : n \in T
  BY <1>1, <1>2, Steps
<1>4. N \in T
  BY <1>3
<1> QED
  BY <1>4 DEF T, Iterate

-----------------------------------------------------------------------------
(* The blocks of the temporary file.  A is the set of their addresses, and *)
(* for each of them room says how much room it has and list which free     *)
(* list it is on, or 0 if it is in use.                                    *)

Cells == Runes \cup {"free"}
Sizes == Maxblock \div Blockincr
Room(s) == s * Blockincr

Blocks == [addr : Nat, n : 1 .. Maxblock]
Buffers == [nc : Nat, cq : Nat, c : Seq(Cells), cbi : Nat \ {0}, cdirty : BOOLEAN,
            bl : Seq(Blocks), free : [0 .. Sizes -> Seq(Nat)], addr : Nat, store : Seq(Cells)]

\* The blocks lie side by side from the start of the file to its end.
Tiled(A, room, top) ==
    /\ \A a \in A : room[a] >= 1 /\ a + room[a] <= top
    /\ \A a, d \in A : a < d => a + room[a] <= d
    /\ \A x \in 1 .. top : \E a \in A : a < x /\ x <= a + room[a]

Disk(b, A, room, list) ==
    /\ A \subseteq Nat /\ room \in [Nat -> Nat] /\ list \in [Nat -> 0 .. Sizes]
    /\ Len(b.store) = b.addr
    /\ Tiled(A, room, b.addr)
    /\ \A s \in 1 .. Sizes :
          /\ Distinct(b.free[s])
          /\ \A a \in Nat : In(a, b.free[s]) <=> a \in A /\ list[a] = s
    /\ \A a \in A : list[a] # 0 => room[a] = Room(list[a])

\* The blocks in use are those of the Buffer.
Chain(bl, A, room, list) ==
    /\ \A i \in 1 .. Len(bl) : /\ bl[i].addr \in A
                               /\ list[bl[i].addr] = 0
                               /\ room[bl[i].addr] = Size(bl[i].n)
    /\ \A i, j \in 1 .. Len(bl) : bl[i].addr = bl[j].addr => i = j
    /\ \A a \in A : list[a] = 0 => \E i \in 1 .. Len(bl) : bl[i].addr = a

LEMMA SizeFacts ==
    /\ Sizes \in Nat
    /\ \A n \in 1 .. Maxblock : /\ ntosize(n) \in 1 .. Sizes
                                /\ Size(n) = Room(ntosize(n))
                                /\ Size(n) \in Nat
                                /\ n <= Size(n)
    /\ \A s \in 1 .. Sizes : Room(s) \in Nat /\ Room(s) >= 1
<1>1. /\ Maxblock \in Nat \ {0} /\ Blockincr \in Nat \ {0} /\ Maxblock % Blockincr = 0
  BY BufferAssumption
<1>2. Sizes \in Nat /\ Maxblock = Sizes * Blockincr
  BY <1>1 DEF Sizes
<1>3. ASSUME NEW s \in 1 .. Sizes PROVE Room(s) \in Nat /\ Room(s) >= 1
  BY <1>1, <1>2 DEF Room
<1>4. ASSUME NEW n \in 1 .. Maxblock
      PROVE  ntosize(n) \in 1 .. Sizes /\ n <= Size(n) /\ Size(n) = Room(ntosize(n))
  <2> DEFINE q == ntosize(n)
  <2>1. q \in Int /\ q * Blockincr <= n + Blockincr - 1 /\ n + Blockincr - 1 < q * Blockincr + Blockincr
    BY <1>1 DEF ntosize
  <2> HIDE DEF q
  <2>2. n <= q * Blockincr
    BY <2>1, <1>1
  <2>3. q >= 1
    BY <2>1, <2>2, <1>1
  <2>4. q <= Sizes
    BY <2>1, <1>1, <1>2
  <2> QED
    BY <2>1, <2>2, <2>3, <2>4, <1>2 DEF q, Size, Room
<1> QED
  BY <1>2, <1>3, <1>4

\* The fields of a Buffer that are not the disk's are as they were.
SameText(d, b) == d.nc = b.nc /\ d.cq = b.cq /\ d.c = b.c /\ d.cbi = b.cbi /\ d.cdirty = b.cdirty

\* Disk.new finds a block that nobody has, and leaves what is written alone.
LEMMA NewFacts ==
    ASSUME NEW b \in Buffers, NEW A, NEW room, NEW list, Disk(b, A, room, list),
           NEW n \in 1 .. Maxblock
    PROVE  LET d == new(b, n)[1]
               a == new(b, n)[2].addr
           IN /\ d \in Buffers /\ SameText(d, b) /\ d.bl = b.bl
              /\ new(b, n)[2] = [addr |-> a, n |-> n] /\ a \in Nat
              /\ b.addr <= d.addr
              /\ \A x \in 1 .. b.addr : d.store[x] = b.store[x]
              /\ ~(a \in A /\ list[a] = 0)
              /\ Disk(d, A \cup {a}, [room EXCEPT ![a] = Size(n)], [list EXCEPT ![a] = 0])
<1> DEFINE s == ntosize(n)
<1>0. /\ s \in 1 .. Sizes /\ Size(n) = Room(s) /\ Size(n) \in Nat /\ Size(n) >= 1
      /\ Sizes \in Nat /\ s = ntosize(n)
  BY SizeFacts
<1> HIDE DEF s
<1>1. /\ b.free \in [0 .. Sizes -> Seq(Nat)] /\ b.addr \in Nat /\ b.store \in Seq(Cells)
      /\ b.free[s] \in Seq(Nat)
  BY <1>0 DEF Buffers
<1>2. /\ A \subseteq Nat /\ room \in [Nat -> Nat] /\ list \in [Nat -> 0 .. Sizes]
      /\ Len(b.store) = b.addr
  BY DEF Disk
<1>3. CASE b.free[s] # << >>
  <2> DEFINE a == Head(b.free[s])
             d == [b EXCEPT !.free[s] = Tail(@)]
  <2>1. new(b, n) = <<d, [addr |-> a, n |-> n]>>
    BY <1>0, <1>3 DEF new
  <2>2. a \in Nat /\ Tail(b.free[s]) \in Seq(Nat) /\ a = Head(b.free[s])
    BY <1>1, <1>3, TailFacts
  <2>3. /\ d \in Buffers /\ SameText(d, b) /\ d.bl = b.bl /\ d.addr = b.addr /\ d.store = b.store
        /\ d.free = [b.free EXCEPT ![s] = Tail(@)]
    BY <1>1, <2>2 DEF Buffers, SameText
  <2> HIDE DEF a, d
  <2>4. a \in A /\ list[a] = s
    <3>1. /\ Distinct(b.free[s])
          /\ \A x \in Nat : In(x, b.free[s]) <=> x \in A /\ list[x] = s
      BY <1>0 DEF Disk
    <3>2. In(a, b.free[s])
      BY <1>1, <1>3, <2>2, <3>1, LeaveQueue
    <3> QED
      BY <3>1, <3>2, <2>2
  <2>5. room[a] = Size(n) /\ list[a] # 0
    <3>1. list[a] # 0
      BY <2>4, <1>0
    <3> QED
      BY <3>1, <2>4, <1>0 DEF Disk
  <2> DEFINE r2 == [room EXCEPT ![a] = Size(n)]
             l2 == [list EXCEPT ![a] = 0]
  <2>6. r2 = room /\ A \cup {a} = A /\ l2 \in [Nat -> 0 .. Sizes]
    <3>1. r2 = room
      BY <2>2, <2>5, <1>2
    <3>2. 0 \in 0 .. Sizes
      BY <1>0
    <3>3. l2 \in [Nat -> 0 .. Sizes]
      BY <3>2, <1>2
    <3>4. A \cup {a} = A
      BY <2>4
    <3> QED
      BY <3>1, <3>3, <3>4
  <2>7. ASSUME NEW u \in 1 .. Sizes
        PROVE  /\ Distinct(d.free[u])
               /\ \A x \in Nat : In(x, d.free[u]) <=> x \in A /\ l2[x] = u
    <3>1. /\ Distinct(b.free[u])
          /\ \A x \in Nat : In(x, b.free[u]) <=> x \in A /\ list[x] = u
      BY DEF Disk
    <3>2. CASE u # s
      <4>1. d.free[u] = b.free[u]
        BY <3>2, <2>3, <1>1
      <4>2. \A x \in Nat : l2[x] = u <=> list[x] = u
        <5>1. u # 0
          BY <1>0
        <5> QED
          BY <5>1, <3>2, <2>4, <1>2
      <4> QED
        BY <3>1, <4>1, <4>2
    <3>3. CASE u = s
      <4>1. d.free[u] = Tail(b.free[s])
        BY <3>3, <2>3, <1>1, <1>0
      <4>2. \A x \in Nat : l2[x] = s <=> list[x] = s /\ x # a
        <5>1. s # 0
          BY <1>0
        <5> QED
          BY <5>1, <2>4, <1>2
      <4>3. /\ Distinct(Tail(b.free[s]))
            /\ \A x \in Nat : In(x, Tail(b.free[s])) <=> In(x, b.free[s]) /\ x # a
        BY <1>1, <1>3, <2>2, <3>1, <3>3, LeaveQueue
      <4> QED
        BY <3>1, <3>3, <4>1, <4>2, <4>3
    <3> QED
      BY <3>2, <3>3
  <2>8. Disk(d, A \cup {a}, r2, l2)
    <3>1. \A x \in A : l2[x] # 0 => r2[x] = Room(l2[x])
      BY <2>6, <1>2 DEF Disk
    <3>2. Tiled(A, room, d.addr)
      BY <2>3 DEF Disk
    <3> HIDE DEF l2, r2
    <3> QED
      BY <1>2, <2>3, <2>6, <2>7, <3>1, <3>2 DEF Disk
  <2>9. new(b, n)[1] = d /\ new(b, n)[2] = [addr |-> a, n |-> n] /\ new(b, n)[2].addr = a
    BY <2>1
  <2> QED
    BY <2>2, <2>3, <2>5, <2>8, <2>9, <1>1
<1>4. CASE b.free[s] = << >>
  <2> DEFINE a == b.addr
             f == [x \in 1 .. Size(n) |-> "free"]
             d == [b EXCEPT !.addr = @ + Size(n), !.store = @ \o f]
  <2>1. new(b, n) = <<d, [addr |-> a, n |-> n]>>
    BY <1>0, <1>4 DEF new
  <2>2. f \in Seq(Cells) /\ Len(f) = Size(n)
    BY <1>0 DEF Cells
  <2> HIDE DEF f
  <2>3. /\ b.store \o f \in Seq(Cells) /\ Len(b.store \o f) = b.addr + Size(n)
        /\ \A x \in 1 .. b.addr : (b.store \o f)[x] = b.store[x]
    <3> DEFINE g == b.store
               h == g \o f
    <3>1. g \in Seq(Cells) /\ Len(g) = b.addr
      BY <1>1, <1>2
    <3> HIDE DEF g
    <3>2. /\ h \in Seq(Cells) /\ Len(h) = Len(g) + Len(f)
          /\ \A x \in 1 .. Len(g) + Len(f) : h[x] = IF x <= Len(g) THEN g[x] ELSE f[x - Len(g)]
      BY <2>2, <3>1, JoinFacts
    <3> HIDE DEF h
    <3>3. /\ h \in Seq(Cells) /\ Len(h) = b.addr + Size(n)
          /\ \A x \in 1 .. b.addr : h[x] = g[x]
      <4>1. b.addr \in Nat /\ Size(n) \in Nat
        BY <1>0, <1>1
      <4>2. \A x \in 1 .. b.addr : x \in 1 .. Len(g) + Len(f) /\ x <= Len(g)
        BY <4>1, <3>1, <2>2
      <4> QED
        BY <4>2, <3>1, <3>2, <2>2
    <3> QED
      BY <3>3 DEF g, h
  <2>4. /\ d \in Buffers /\ SameText(d, b) /\ d.bl = b.bl /\ d.addr = b.addr + Size(n)
        /\ d.store = b.store \o f /\ d.free = b.free
    <3> HIDE DEF a
    <3>1. b.addr + Size(n) \in Nat
      BY <1>0, <1>1
    <3> QED
      BY <1>1, <2>3, <3>1 DEF Buffers, SameText
  <2>5. a \in Nat /\ a \notin A /\ a = b.addr
    <3>1. Tiled(A, room, b.addr)
      BY DEF Disk
    <3>2. \A x \in A : room[x] >= 1 /\ x + room[x] <= b.addr
      BY <3>1 DEF Tiled
    <3>3. \A x \in A : x \in Nat /\ room[x] \in Nat
      BY <1>2
    <3>4. \A x \in A : x < b.addr
      BY <3>2, <3>3, <1>1
    <3> QED
      BY <3>4, <1>1
  <2> HIDE DEF a, d
  <2> DEFINE r2 == [room EXCEPT ![a] = Size(n)]
             l2 == [list EXCEPT ![a] = 0]
  <2>6. /\ r2 \in [Nat -> Nat] /\ l2 \in [Nat -> 0 .. Sizes]
        /\ r2[a] = Size(n) /\ l2[a] = 0
        /\ \A x \in A : r2[x] = room[x] /\ l2[x] = list[x]
    <3>1. 0 \in 0 .. Sizes /\ Size(n) \in Nat
      BY <1>0
    <3> QED
      BY <3>1, <1>2, <2>5
  <2>7. Tiled(A \cup {a}, r2, d.addr)
    <3> HIDE DEF r2, l2
    <3>1. Tiled(A, room, a)
      BY <2>5 DEF Disk
    <3>5. /\ \A x \in A : room[x] >= 1 /\ x + room[x] <= a
          /\ \A x, y \in A : x < y => x + room[x] <= y
          /\ \A x \in 1 .. a : \E y \in A : y < x /\ x <= y + room[y]
      BY <3>1 DEF Tiled
    <3>6. \A x \in A : x \in Nat /\ room[x] \in Nat
      BY <1>2
    <3>7. Size(n) \in Nat /\ Size(n) >= 1 /\ d.addr = a + Size(n) /\ a \in Nat
      BY <1>0, <2>4, <2>5
    <3>2. \A x \in A \cup {a} : r2[x] >= 1 /\ x + r2[x] <= d.addr
      BY <3>5, <3>6, <3>7, <2>6
    <3>3. \A x, y \in A \cup {a} : x < y => x + r2[x] <= y
      BY <3>5, <3>6, <3>7, <2>6
    <3>4. ASSUME NEW x \in 1 .. d.addr PROVE \E y \in A \cup {a} : y < x /\ x <= y + r2[y]
      <4>1. CASE x <= a
        <5>1. x \in 1 .. a
          BY <4>1, <3>7
        <5> QED
          BY <5>1, <3>5, <2>6
      <4>2. CASE x > a
        <5>1. a < x /\ x <= a + r2[a]
          BY <4>2, <3>7, <2>6
        <5> QED
          BY <5>1
      <4> QED
        BY <4>1, <4>2, <3>7
    <3> QED
      BY <3>2, <3>3, <3>4 DEF Tiled
  <2>8. ASSUME NEW u \in 1 .. Sizes
        PROVE  /\ Distinct(d.free[u])
               /\ \A x \in Nat : In(x, d.free[u]) <=> x \in A \cup {a} /\ l2[x] = u
    <3>1. /\ Distinct(b.free[u])
          /\ \A x \in Nat : In(x, b.free[u]) <=> x \in A /\ list[x] = u
      BY DEF Disk
    <3>2. u # 0
      BY <1>0
    <3> QED
      BY <3>1, <3>2, <2>4, <2>5, <2>6
  <2>9. Disk(d, A \cup {a}, r2, l2)
    <3>1. \A x \in A \cup {a} : l2[x] # 0 => r2[x] = Room(l2[x])
      BY <2>6 DEF Disk
    <3>2. A \cup {a} \subseteq Nat
      BY <1>2, <2>5
    <3>3. Len(d.store) = d.addr
      BY <2>3, <2>4
    <3> HIDE DEF l2, r2
    <3> QED
      BY <2>6, <2>7, <2>8, <3>1, <3>2, <3>3 DEF Disk
  <2>10. b.addr <= d.addr /\ \A x \in 1 .. b.addr : d.store[x] = b.store[x]
    <3>1. b.addr \in Nat /\ Size(n) \in Nat
      BY <1>0, <1>1
    <3> QED
      BY <3>1, <2>3, <2>4
  <2>11. new(b, n)[1] = d /\ new(b, n)[2] = [addr |-> a, n |-> n] /\ new(b, n)[2].addr = a
    BY <2>1
  <2> QED
    BY <2>4, <2>5, <2>9, <2>10, <2>11
<1> QED
  BY <1>3, <1>4

LEMMA PutFacts ==
    ASSUME NEW store \in Seq(Cells), NEW s \in Seq(Cells), NEW a \in Nat, a + Len(s) <= Len(store)
    PROVE  /\ Put(store, a, s) \in Seq(Cells)
           /\ Len(Put(store, a, s)) = Len(store)
           /\ \A x \in 1 .. Len(store) :
                 Put(store, a, s)[x] = IF a < x /\ x <= a + Len(s) THEN s[x - a] ELSE store[x]
<1>1. Len(store) \in Nat /\ Len(s) \in Nat
  OBVIOUS
<1>2. PICK q0 \in 0 .. Len(store) : \E q1 \in q0 .. Len(store) : q0 = a /\ q1 = a + Len(s)
  BY <1>1
<1>9. PICK q1 \in q0 .. Len(store) : q0 = a /\ q1 = a + Len(s)
  BY <1>2
<1> DEFINE p == Splice(store, q0, q1, s)
<1>3. Put(store, a, s) = p
  BY <1>9 DEF Put
<1>4. Spliced(Cells, p, store, q0, q1, s)
  BY SpliceIs
<1> HIDE DEF p
<1>5. /\ p \in Seq(Cells) /\ Len(p) = Len(store) - (q1 - q0) + Len(s)
      /\ \A x \in 1 .. Len(store) - (q1 - q0) + Len(s) :
            p[x] = IF x <= q0 THEN store[x] ELSE IF x <= q0 + Len(s) THEN s[x - q0]
                   ELSE store[x - Len(s) + (q1 - q0)]
  BY <1>4 DEF Spliced
<1>6. Len(store) - (q1 - q0) + Len(s) = Len(store)
  BY <1>1, <1>9
<1>7. \A x \in 1 .. Len(store) : x - Len(s) + (q1 - q0) = x
  BY <1>1, <1>9
<1>8. ASSUME NEW x \in 1 .. Len(store)
      PROVE  p[x] = IF a < x /\ x <= a + Len(s) THEN s[x - a] ELSE store[x]
  BY <1>1, <1>9, <1>5, <1>6, <1>7
<1> QED
  BY <1>3, <1>5, <1>6, <1>8

\* Writing within the file moves no block.
LEMMA StoreFacts ==
    ASSUME NEW b \in Buffers, NEW A, NEW room, NEW list, Disk(b, A, room, list),
           NEW s \in Seq(Cells), Len(s) = b.addr
    PROVE  LET d == [b EXCEPT !.store = s]
           IN /\ d \in Buffers /\ SameText(d, b) /\ d.bl = b.bl /\ d.addr = b.addr /\ d.store = s
              /\ Disk(d, A, room, list)
<1> DEFINE d == [b EXCEPT !.store = s]
<1>1. d \in Buffers /\ SameText(d, b) /\ d.bl = b.bl /\ d.addr = b.addr /\ d.store = s /\ d.free = b.free
  BY DEF Buffers, SameText
<1> HIDE DEF d
<1>2. Disk(d, A, room, list)
  BY <1>1 DEF Disk
<1> QED
  BY <1>1, <1>2 DEF d

\* Disk.release puts a block that is in use on the free list of its size.
LEMMA ReleaseFacts ==
    ASSUME NEW b \in Buffers, NEW A, NEW room, NEW list, Disk(b, A, room, list),
           NEW blk \in Blocks, blk.addr \in A, list[blk.addr] = 0,
           room[blk.addr] = Size(blk.n)
    PROVE  LET d == release(b, blk)
           IN /\ d \in Buffers /\ SameText(d, b) /\ d.bl = b.bl /\ d.addr = b.addr
              /\ \A x \in 1 .. b.addr :
                    ~(blk.addr < x /\ x <= blk.addr + Size(blk.n)) => d.store[x] = b.store[x]
              /\ Disk(d, A, room, [list EXCEPT ![blk.addr] = ntosize(blk.n)])
<1> DEFINE a == blk.addr
           n == blk.n
           s == ntosize(blk.n)
           f == [x \in 1 .. Size(n) |-> "free"]
           p == Put(b.store, a, f)
           e == [b EXCEPT !.free[s] = <<a>> \o @]
           d == [e EXCEPT !.store = p]
<1>0. a \in Nat /\ n \in 1 .. Maxblock
  BY DEF Blocks
<1>1. /\ s \in 1 .. Sizes /\ Size(n) = Room(s) /\ Size(n) \in Nat /\ Sizes \in Nat
  BY <1>0, SizeFacts
<1>2. /\ b.free \in [0 .. Sizes -> Seq(Nat)] /\ b.addr \in Nat /\ b.store \in Seq(Cells)
      /\ b.free[s] \in Seq(Nat)
  BY <1>1 DEF Buffers
<1>3. /\ A \subseteq Nat /\ room \in [Nat -> Nat] /\ list \in [Nat -> 0 .. Sizes]
      /\ Len(b.store) = b.addr
  BY DEF Disk
<1>4. release(b, blk) = d
  BY DEF release
<1>5. f \in Seq(Cells) /\ Len(f) = Size(n)
  BY <1>1 DEF Cells
<1>6. a + Size(n) <= b.addr
  BY DEF Disk, Tiled
<1> HIDE DEF a, n, s, f
<1>7. /\ p \in Seq(Cells) /\ Len(p) = b.addr
      /\ \A x \in 1 .. b.addr : ~(a < x /\ x <= a + Size(n)) => p[x] = b.store[x]
  <2>1. f \in Seq(Cells) /\ a \in Nat /\ b.store \in Seq(Cells) /\ a + Len(f) <= Len(b.store)
    BY <1>0, <1>2, <1>3, <1>5, <1>6 DEF a
  <2>2. /\ p \in Seq(Cells) /\ Len(p) = Len(b.store)
        /\ \A x \in 1 .. Len(b.store) :
              p[x] = IF a < x /\ x <= a + Len(f) THEN f[x - a] ELSE b.store[x]
    BY <2>1, PutFacts, Zenon
  <2> HIDE DEF p
  <2> QED
    BY <2>2, <1>3, <1>5
<1> HIDE DEF p
<1>8. /\ <<a>> \o b.free[s] \in Seq(Nat)
      /\ \A x \in Nat : In(x, <<a>> \o b.free[s]) <=> In(x, b.free[s]) \/ x = a
  <2> DEFINE l == b.free[s]
  <2>1. l \in Seq(Nat) /\ a \in Nat
    BY <1>0, <1>2
  <2> HIDE DEF l
  <2>2. /\ <<a>> \o l \in Seq(Nat)
        /\ \A x \in Nat : In(x, <<a>> \o l) <=> In(x, l) \/ x = a
    BY <2>1, PushQueue
  <2> QED
    BY <2>2 DEF l
<1>9. /\ e \in Buffers /\ SameText(e, b) /\ e.bl = b.bl /\ e.addr = b.addr /\ e.store = b.store
      /\ e.free = [b.free EXCEPT ![s] = <<a>> \o @]
  BY <1>1, <1>2, <1>8 DEF Buffers, SameText
<1> HIDE DEF e
<1> DEFINE l2 == [list EXCEPT ![a] = s]
<1>10. l2 \in [Nat -> 0 .. Sizes] /\ l2[a] = s /\ \A x \in Nat : x # a => l2[x] = list[x]
  <2>1. s \in 0 .. Sizes
    BY <1>1
  <2> QED
    BY <2>1, <1>0, <1>3
<1> HIDE DEF l2
<1>11. a \in A /\ list[a] = 0 /\ room[a] = Size(n)
  BY DEF a, n
<1>12. ASSUME NEW u \in 1 .. Sizes
       PROVE  /\ Distinct(e.free[u])
              /\ \A x \in Nat : In(x, e.free[u]) <=> x \in A /\ l2[x] = u
  <2>1. /\ Distinct(b.free[u])
        /\ \A x \in Nat : In(x, b.free[u]) <=> x \in A /\ list[x] = u
    BY DEF Disk
  <2>2. u # 0
    BY <1>1
  <2>3. CASE u # s
    <3>1. e.free[u] = b.free[u]
      BY <2>3, <1>1, <1>2, <1>9
    <3> QED
      BY <2>1, <2>2, <2>3, <3>1, <1>10, <1>11
  <2>4. CASE u = s
    <3>1. e.free[u] = <<a>> \o b.free[s]
      BY <2>4, <1>1, <1>2, <1>9
    <3>2. ~In(a, b.free[s])
      BY <2>1, <2>2, <2>4, <1>0, <1>11
    <3>3. Distinct(<<a>> \o b.free[s])
      BY <2>1, <2>4, <3>2, <1>0, <1>2, PushQueue
    <3> QED
      BY <2>1, <2>4, <3>1, <3>3, <1>8, <1>10, <1>11
  <2> QED
    BY <2>3, <2>4
<1>13. Disk(e, A, room, l2)
  <2>1. \A x \in A : l2[x] # 0 => room[x] = Room(l2[x])
    <3>1. \A x \in A : list[x] # 0 => room[x] = Room(list[x])
      BY DEF Disk
    <3> QED
      BY <3>1, <1>1, <1>3, <1>10, <1>11
  <2>2. Tiled(A, room, e.addr)
    BY <1>9 DEF Disk
  <2> QED
    BY <1>3, <1>9, <1>10, <1>12, <2>1, <2>2 DEF Disk
<1>14. /\ d \in Buffers /\ SameText(d, e) /\ d.bl = e.bl /\ d.addr = e.addr /\ d.store = p
       /\ Disk(d, A, room, l2)
  BY <1>7, <1>9, <1>13, StoreFacts
<1> HIDE DEF d
<1>15. SameText(d, b)
  BY <1>9, <1>14 DEF SameText
<1>16. /\ d \in Buffers /\ d.bl = b.bl /\ d.addr = b.addr
       /\ \A x \in 1 .. b.addr : ~(a < x /\ x <= a + Size(n)) => d.store[x] = b.store[x]
       /\ Disk(d, A, room, [list EXCEPT ![a] = s])
  BY <1>7, <1>9, <1>14 DEF l2
<1> QED
  BY <1>4, <1>15, <1>16 DEF a, n, s

-----------------------------------------------------------------------------
(* What the Buffer asks of the disk.                                       *)

Apart(b) == \E A, room, list : Disk(b, A, room, list) /\ Chain(b.bl, A, room, list)

\* Block j of d holds what block i of b does.
SameBlock(d, j, b, i) ==
    /\ d.bl[j].n = b.bl[i].n
    /\ \A x \in 1 .. b.bl[i].n : d.store[d.bl[j].addr + x] = b.store[b.bl[i].addr + x]

\* Like Chain, but that block i is to be at a.
ChainBut(bl, i, a, A, room, list) ==
    /\ \A j \in 1 .. Len(bl) : j # i => /\ bl[j].addr \in A /\ bl[j].addr # a
                                        /\ list[bl[j].addr] = 0
                                        /\ room[bl[j].addr] = Size(bl[j].n)
    /\ \A j, k \in 1 .. Len(bl) : j # i /\ k # i /\ bl[j].addr = bl[k].addr => j = k
    /\ \A x \in A : list[x] = 0 => x = a \/ \E j \in 1 .. Len(bl) : j # i /\ bl[j].addr = x

\* A block keeps to its room, which no other has a part of.
LEMMA RoomFacts ==
    ASSUME NEW b \in Buffers, NEW A, NEW room, NEW list, Disk(b, A, room, list)
    PROVE  /\ \A a \in A : a \in Nat /\ room[a] \in Nat /\ a + room[a] <= b.addr
           /\ \A a, d \in A : a # d => a + room[a] <= d \/ d + room[d] <= a
<1>1. /\ \A a \in A : a + room[a] <= b.addr
      /\ \A a, d \in A : a < d => a + room[a] <= d
  BY DEF Disk, Tiled
<1>2. \A a \in A : a \in Nat /\ room[a] \in Nat
  BY DEF Disk
<1>3. \A a, d \in A : a # d => a < d \/ d < a
  BY <1>2
<1> QED
  BY <1>1, <1>2, <1>3

\* d is b with s in its ith block.
Changed(d, b, i, s) == /\ d \in Buffers /\ SameText(d, b) /\ Apart(d)
                       /\ Len(d.bl) = Len(b.bl)
                       /\ d.bl[i].n = Len(s)
                       /\ \A x \in 1 .. Len(s) : d.store[d.bl[i].addr + x] = s[x]
                       /\ \A j \in 1 .. Len(b.bl) : j # i => SameBlock(d, j, b, j)

LEMMA PlaceFacts ==
    ASSUME NEW b \in Buffers, NEW A, NEW room, NEW list, Disk(b, A, room, list),
           NEW i \in 1 .. Len(b.bl), NEW s \in Seq(Cells), Len(s) \in 1 .. Maxblock,
           NEW a \in A, list[a] = 0, room[a] = Size(Len(s)),
           ChainBut(b.bl, i, a, A, room, list), NEW blk, blk.addr = a
    PROVE  Changed(place(<<b, blk>>, i, s), b, i, s)
<1> DEFINE new2 == [addr |-> a, n |-> Len(s)]
           e == [b EXCEPT !.bl[i] = new2]
           p == Put(b.store, a, s)
           d == [e EXCEPT !.store = p]
<1>0. /\ a \in Nat /\ Len(s) <= Size(Len(s)) /\ a + room[a] <= b.addr /\ Size(Len(s)) \in Nat
      /\ Maxblock \in Nat /\ Len(s) \in Nat
  BY RoomFacts, SizeFacts, BufferAssumption
<1>1. /\ b.bl \in Seq(Blocks) /\ b.store \in Seq(Cells) /\ b.addr \in Nat /\ Len(b.store) = b.addr
      /\ Len(b.bl) \in Nat
  BY DEF Buffers, Disk
<1>2. place(<<b, blk>>, i, s) = d
  BY DEF place
<1>3. new2 \in Blocks
  BY <1>0 DEF Blocks
<1>4. /\ p \in Seq(Cells) /\ Len(p) = b.addr
      /\ \A x \in 1 .. b.addr : p[x] = IF a < x /\ x <= a + Len(s) THEN s[x - a] ELSE b.store[x]
  <2>1. a + Len(s) <= Len(b.store) /\ a \in Nat /\ b.store \in Seq(Cells) /\ s \in Seq(Cells)
    BY <1>0, <1>1
  <2>2. /\ p \in Seq(Cells) /\ Len(p) = Len(b.store)
        /\ \A x \in 1 .. Len(b.store) :
              p[x] = IF a < x /\ x <= a + Len(s) THEN s[x - a] ELSE b.store[x]
    BY <2>1, PutFacts, Zenon
  <2> HIDE DEF p
  <2> QED
    BY <2>2, <1>1
<1> HIDE DEF p
<1>5. /\ e \in Buffers /\ SameText(e, b) /\ e.addr = b.addr /\ e.store = b.store
      /\ e.free = b.free /\ e.bl = [b.bl EXCEPT ![i] = new2]
  <2>1. [b.bl EXCEPT ![i] = new2] \in Seq(Blocks)
    BY <1>1, <1>3
  <2> HIDE DEF new2
  <2> QED
    BY <2>1 DEF Buffers, SameText
<1>6. /\ Len(e.bl) = Len(b.bl) /\ e.bl[i].addr = a /\ e.bl[i].n = Len(s)
      /\ \A j \in 1 .. Len(b.bl) : j # i => e.bl[j] = b.bl[j]
  BY <1>1, <1>5
<1> HIDE DEF e, new2
<1>7. Disk(e, A, room, list)
  BY <1>5 DEF Disk
<1>8. /\ d \in Buffers /\ SameText(d, e) /\ d.bl = e.bl /\ d.addr = e.addr /\ d.store = p
      /\ Disk(d, A, room, list)
  BY <1>4, <1>5, <1>7, StoreFacts
<1> HIDE DEF d
<1>9. Chain(d.bl, A, room, list)
  <2>1. \A j \in 1 .. Len(b.bl) : /\ d.bl[j].addr \in A
                                  /\ list[d.bl[j].addr] = 0
                                  /\ room[d.bl[j].addr] = Size(d.bl[j].n)
    BY <1>6, <1>8 DEF ChainBut
  <2>2. ASSUME NEW j \in 1 .. Len(b.bl), NEW k \in 1 .. Len(b.bl), d.bl[j].addr = d.bl[k].addr
        PROVE  j = k
    <3>1. CASE j # i /\ k # i
      BY <3>1, <2>2, <1>6, <1>8 DEF ChainBut
    <3>2. CASE j = i \/ k = i
      BY <3>2, <2>2, <1>6, <1>8 DEF ChainBut
    <3> QED
      BY <3>1, <3>2
  <2>3. \A x \in A : list[x] = 0 => \E j \in 1 .. Len(b.bl) : d.bl[j].addr = x
    BY <1>6, <1>8 DEF ChainBut
  <2> QED
    BY <2>1, <2>2, <2>3, <1>6, <1>8 DEF Chain
<1>10. \A x \in 1 .. Len(s) : d.store[d.bl[i].addr + x] = s[x]
  <2> SUFFICES ASSUME NEW x \in 1 .. Len(s) PROVE p[a + x] = s[x]
    BY <1>6, <1>8
  <2>1. a + x \in 1 .. b.addr /\ a < a + x /\ a + x <= a + Len(s) /\ (a + x) - a = x
    BY <1>0, <1>1
  <2> QED
    BY <2>1, <1>4
<1>11. ASSUME NEW j \in 1 .. Len(b.bl), j # i
       PROVE  SameBlock(d, j, b, j)
  <2> DEFINE q == b.bl[j].addr
             n == b.bl[j].n
  <2>6. b.bl[j] \in Blocks
    BY <1>1
  <2>7. n \in 1 .. Maxblock
    BY <2>6 DEF Blocks
  <2>8. q \in A /\ q # a /\ room[q] = Size(n)
    BY <1>11 DEF ChainBut
  <2> HIDE DEF q, n
  <2>1. /\ q \in A /\ q # a /\ room[q] = Size(n) /\ n \in 1 .. Maxblock
    BY <2>7, <2>8
  <2>2. n <= room[q] /\ q \in Nat /\ room[q] \in Nat /\ q + room[q] <= b.addr
    BY <2>1, SizeFacts, RoomFacts
  <2>3. q + room[q] <= a \/ a + room[a] <= q
    BY <2>1, RoomFacts
  <2>4. d.bl[j] = b.bl[j]
    BY <1>6, <1>8, <1>11
  <2>5. ASSUME NEW x \in 1 .. n PROVE p[q + x] = b.store[q + x]
    <3> DEFINE r == room[q]
               l == Len(s)
               w == b.addr
    <3>1. /\ n \in Nat /\ q \in Nat /\ r \in Nat /\ w \in Nat /\ a \in Nat /\ l \in Nat
          /\ n <= r /\ q + r <= w
      BY <2>1, <2>2, <1>0, <1>1
    <3>2. l <= room[a] /\ room[a] \in Nat
      BY <1>0
    <3>3. q + r <= a \/ a + room[a] <= q
      BY <2>3
    <3> HIDE DEF r, l, w
    <3>4. q + r <= a \/ a + l <= q
      BY <3>1, <3>2, <3>3
    <3>5. q + x \in 1 .. w /\ ~(a < q + x /\ q + x <= a + l)
      BY <3>1, <3>4
    <3> QED
      BY <3>5, <1>4 DEF w, l
  <2> QED
    BY <2>4, <2>5, <1>8 DEF SameBlock, q, n
<1>12. SameText(d, b) /\ Apart(d)
  BY <1>5, <1>8, <1>9 DEF SameText, Apart
<1>13. Changed(d, b, i, s)
  BY <1>6, <1>8, <1>10, <1>11, <1>12 DEF Changed
<1> QED
  BY <1>2, <1>13

\* Disk.write changes one block of the Buffer, which it may move, and no other.
LEMMA WriteFacts ==
    ASSUME NEW b \in Buffers, Apart(b), NEW i \in 1 .. Len(b.bl),
           NEW s \in Seq(Cells), Len(s) \in 1 .. Maxblock
    PROVE  LET d == write(b, i, s)
           IN /\ d \in Buffers /\ SameText(d, b) /\ Apart(d)
              /\ Len(d.bl) = Len(b.bl)
              /\ d.bl[i].n = Len(s)
              /\ \A x \in 1 .. Len(s) : d.store[d.bl[i].addr + x] = s[x]
              /\ \A j \in 1 .. Len(b.bl) : j # i => SameBlock(d, j, b, j)
<1> DEFINE old == b.bl[i]
           a == old.addr
           n == old.n
<1>1. PICK A, room, list : Disk(b, A, room, list) /\ Chain(b.bl, A, room, list)
  BY DEF Apart
<1>2. /\ b.bl \in Seq(Blocks) /\ Len(b.bl) \in Nat /\ old \in Blocks
      /\ \A j \in 1 .. Len(b.bl) : b.bl[j] \in Blocks
  BY DEF Buffers
<1>3. n \in 1 .. Maxblock /\ a \in Nat /\ Maxblock \in Nat
  BY <1>2, BufferAssumption DEF Blocks
<1>4. /\ \A j \in 1 .. Len(b.bl) : /\ b.bl[j].addr \in A
                                   /\ list[b.bl[j].addr] = 0
                                   /\ room[b.bl[j].addr] = Size(b.bl[j].n)
      /\ \A j, k \in 1 .. Len(b.bl) : b.bl[j].addr = b.bl[k].addr => j = k
      /\ \A x \in A : list[x] = 0 => \E j \in 1 .. Len(b.bl) : b.bl[j].addr = x
  BY <1>1 DEF Chain
<1>5. a \in A /\ list[a] = 0 /\ room[a] = Size(n) /\ a = b.bl[i].addr
  BY <1>4
<1>6. write(b, i, s) = IF Size(Len(s)) = Size(n) THEN place(<<b, old>>, i, s)
                       ELSE place(new(release(b, old), Len(s)), i, s)
  BY DEF write, place
<1>7. CASE Size(Len(s)) = Size(n)
  <2>1. ChainBut(b.bl, i, a, A, room, list)
    BY <1>4 DEF ChainBut
  <2>2. room[a] = Size(Len(s))
    BY <1>5, <1>7
  <2>3. write(b, i, s) = place(<<b, old>>, i, s)
    BY <1>6, <1>7
  <2> HIDE DEF a, old
  <2>4. old.addr = a
    BY DEF a, old
  <2> QED
    <3>1. Changed(place(<<b, old>>, i, s), b, i, s)
      BY <1>1, <1>5, <2>1, <2>2, <2>4, PlaceFacts
    <3> DEFINE d == write(b, i, s)
    <3>2. Changed(d, b, i, s)
      BY <3>1, <2>3
    <3> HIDE DEF d
    <3>3. /\ d \in Buffers /\ SameText(d, b) /\ Apart(d) /\ Len(d.bl) = Len(b.bl)
          /\ d.bl[i].n = Len(s)
          /\ \A x \in 1 .. Len(s) : d.store[d.bl[i].addr + x] = s[x]
          /\ \A j \in 1 .. Len(b.bl) : j # i => SameBlock(d, j, b, j)
      BY <3>2 DEF Changed
    <3> QED
      BY <3>3 DEF d
<1>8. CASE Size(Len(s)) # Size(n)
  <2> DEFINE e == release(b, old)
             l2 == [list EXCEPT ![a] = ntosize(n)]
             f == new(e, Len(s))[1]
             q == new(e, Len(s))[2].addr
             blk == [addr |-> q, n |-> Len(s)]
             A2 == A \cup {q}
             r3 == [room EXCEPT ![q] = Size(Len(s))]
             l3 == [l2 EXCEPT ![q] = 0]
  <2>1. /\ e \in Buffers /\ SameText(e, b) /\ e.bl = b.bl /\ e.addr = b.addr
        /\ \A x \in 1 .. b.addr :
              ~(a < x /\ x <= a + Size(n)) => e.store[x] = b.store[x]
        /\ Disk(e, A, room, l2)
    BY <1>1, <1>2, <1>5, ReleaseFacts
  <2> HIDE DEF e
  <2>2. /\ f \in Buffers /\ SameText(f, e) /\ f.bl = e.bl
        /\ new(e, Len(s))[2] = blk /\ q \in Nat
        /\ e.addr <= f.addr
        /\ \A x \in 1 .. e.addr : f.store[x] = e.store[x]
        /\ ~(q \in A /\ l2[q] = 0)
        /\ Disk(f, A2, r3, l3)
    <3> HIDE DEF l2
    <3> QED
      BY <2>1, NewFacts
  <2>3. write(b, i, s) = place(<<f, blk>>, i, s)
    <3>1. write(b, i, s) = place(new(e, Len(s)), i, s)
      BY <1>6, <1>8 DEF e
    <3> QED
      BY <3>1, <2>2 DEF place
  <2>4. /\ room \in [Nat -> Nat] /\ list \in [Nat -> 0 .. Sizes] /\ A \subseteq Nat
    BY <1>1 DEF Disk
  <2>5. /\ ntosize(n) # 0 /\ Sizes \in Nat /\ ntosize(n) \in 0 .. Sizes
    <3> HIDE DEF n
    <3>1. ntosize(n) \in 1 .. Sizes /\ Sizes \in Nat
      BY <1>3, SizeFacts
    <3> QED
      BY <3>1
  <2>6. /\ \A x \in A : x # a => l2[x] = list[x]
        /\ l2[a] # 0 /\ l2 \in [Nat -> 0 .. Sizes]
    BY <1>5, <2>4, <2>5
  <2> HIDE DEF f, q, l2
  <2>7. /\ r3[q] = Size(Len(s)) /\ l3[q] = 0
        /\ \A x \in A : x # q => r3[x] = room[x] /\ l3[x] = l2[x]
    BY <2>2, <2>4, <2>6
  <2> HIDE DEF A2, r3, l3
  <2>8. ASSUME NEW j \in 1 .. Len(b.bl), j # i
        PROVE  /\ b.bl[j].addr \in A /\ b.bl[j].addr # a /\ b.bl[j].addr # q
               /\ list[b.bl[j].addr] = 0 /\ l2[b.bl[j].addr] = 0
    <3> DEFINE p == b.bl[j].addr
    <3>1. p \in A /\ list[p] = 0 /\ p # a
      BY <1>4, <1>5, <2>8
    <3> HIDE DEF p
    <3>2. l2[p] = 0
      BY <3>1, <2>6
    <3>3. p # q
      BY <3>1, <3>2, <2>2
    <3> QED
      BY <3>1, <3>2, <3>3 DEF p
  <2>9. ChainBut(f.bl, i, q, A2, r3, l3)
    <3>1. \A j \in 1 .. Len(b.bl) : j # i => /\ b.bl[j].addr \in A2 /\ b.bl[j].addr # q
                                             /\ l3[b.bl[j].addr] = 0
                                             /\ r3[b.bl[j].addr] = Size(b.bl[j].n)
      BY <1>4, <2>7, <2>8 DEF A2
    <3>2. \A x \in A2 : l3[x] = 0 => x = q \/ \E j \in 1 .. Len(b.bl) : j # i /\ b.bl[j].addr = x
      <4> SUFFICES ASSUME NEW x \in A, l3[x] = 0, x # q
                   PROVE  \E j \in 1 .. Len(b.bl) : j # i /\ b.bl[j].addr = x
        BY DEF A2
      <4>1. x # a /\ list[x] = 0
        BY <2>6, <2>7
      <4> QED
        BY <4>1, <1>4, <1>5
    <3> QED
      BY <3>1, <3>2, <1>4, <2>1, <2>2 DEF ChainBut
  <2> DEFINE d == place(<<f, blk>>, i, s)
  <2>10. Changed(d, f, i, s)
    <3>1. q \in A2 /\ l3[q] = 0 /\ r3[q] = Size(Len(s)) /\ i \in 1 .. Len(f.bl)
      BY <2>1, <2>2, <2>7 DEF A2
    <3> DEFINE g == blk
    <3>2. g.addr = q
      OBVIOUS
    <3> HIDE DEF g
    <3>3. f \in Buffers /\ Disk(f, A2, r3, l3)
      BY <2>2
    <3>4. s \in Seq(Cells) /\ Len(s) \in 1 .. Maxblock
      OBVIOUS
    <3> HIDE DEF f, q, A2, r3, l3
    <3>5. Changed(place(<<f, g>>, i, s), f, i, s)
      BY ONLY <2>9, <3>1, <3>2, <3>3, <3>4, PlaceFacts
    <3> QED
      BY <3>5 DEF g
  <2> HIDE DEF d
  <2>11. /\ d \in Buffers /\ SameText(d, f) /\ Apart(d) /\ Len(d.bl) = Len(f.bl)
         /\ d.bl[i].n = Len(s)
         /\ \A x \in 1 .. Len(s) : d.store[d.bl[i].addr + x] = s[x]
         /\ \A j \in 1 .. Len(f.bl) : j # i => SameBlock(d, j, f, j)
    BY <2>10 DEF Changed
  <2>12. ASSUME NEW j \in 1 .. Len(b.bl), j # i PROVE SameBlock(d, j, b, j)
    <3> DEFINE p == b.bl[j].addr
               m == b.bl[j].n
    <3>1. m \in 1 .. Maxblock
      BY <1>2 DEF Blocks
    <3>2. p \in A /\ p # a /\ room[p] = Size(m)
      BY <2>12, <1>4, <2>8
    <3>3. /\ p + room[p] <= a \/ a + room[a] <= p
          /\ p \in Nat /\ p + room[p] <= b.addr
      BY <3>2, <1>1, <1>5, RoomFacts
    <3>4. m <= room[p] /\ room[p] \in Nat /\ Size(n) \in Nat
      BY <3>1, <3>2, <1>3, SizeFacts
    <3>5. b.addr \in Nat
      BY DEF Buffers
    <3>6. SameBlock(d, j, f, j) /\ f.bl[j] = b.bl[j]
      BY <2>1, <2>2, <2>11, <2>12
    <3> HIDE DEF p, m
    <3>7. ASSUME NEW x \in 1 .. m PROVE f.store[p + x] = b.store[p + x]
      <4>1. p + x \in 1 .. b.addr /\ ~(a < p + x /\ p + x <= a + Size(n))
        <5> HIDE DEF a, n, old
        <5>1. x \in Nat /\ x >= 1 /\ x <= m /\ m \in Nat /\ a \in Nat
          BY <3>1, <1>3
        <5>2. x <= room[p] /\ room[a] = Size(n)
          BY <5>1, <3>4, <1>5
        <5> QED
          BY <5>1, <5>2, <3>3, <3>4, <3>5
      <4> QED
        BY <4>1, <2>1, <2>2
    <3> QED
      BY <3>6, <3>7 DEF SameBlock, p, m
  <2>13. SameText(d, b)
    BY <2>1, <2>2, <2>11 DEF SameText
  <2>14. write(b, i, s) = d
    BY <2>3 DEF d
  <2> QED
    BY <2>1, <2>2, <2>11, <2>12, <2>13, <2>14
<1> QED
  BY <1>7, <1>8

\* What is written in the blocks of a Buffer, which are apart from all else, is
\* theirs: an operation on the disk that leaves their runes alone leaves them.
LEMMA SameFacts ==
    ASSUME NEW b \in Buffers, NEW d \in Buffers,
           NEW i \in 1 .. Len(b.bl), NEW j \in 1 .. Len(d.bl), d.bl[j] = b.bl[i],
           NEW A, NEW room, NEW list, Disk(b, A, room, list), Chain(b.bl, A, room, list),
           NEW a \in A, a # b.bl[i].addr,
           \A x \in 1 .. b.addr : ~(a < x /\ x <= a + room[a]) => d.store[x] = b.store[x]
    PROVE  SameBlock(d, j, b, i)
<1> DEFINE q == b.bl[i].addr
           n == b.bl[i].n
<1>1. b.bl \in Seq(Blocks) /\ b.addr \in Nat
  BY DEF Buffers
<1>2. b.bl[i] \in Blocks
  BY <1>1
<1>3. n \in 1 .. Maxblock /\ q \in Nat /\ Maxblock \in Nat
  BY <1>2, BufferAssumption DEF Blocks
<1>4. q \in A /\ room[q] = Size(n) /\ q # a
  BY DEF Chain
<1> HIDE DEF q, n
<1>5. n <= room[q] /\ room[q] \in Nat /\ q + room[q] <= b.addr
  BY <1>3, <1>4, SizeFacts, RoomFacts
<1>6. q + room[q] <= a \/ a + room[a] <= q
  BY <1>4, RoomFacts
<1>7. a \in Nat /\ room[a] \in Nat
  BY RoomFacts
<1>8. ASSUME NEW x \in 1 .. n PROVE d.store[q + x] = b.store[q + x]
  <2>1. x \in Nat /\ x >= 1 /\ x <= n /\ n \in Nat
    BY <1>3
  <2>2. q + x \in 1 .. b.addr /\ ~(a < q + x /\ q + x <= a + room[a])
    BY <2>1, <1>1, <1>3, <1>5, <1>6, <1>7
  <2> QED
    BY <2>2
<1> QED
  BY <1>8 DEF SameBlock, q, n

LEMMA DelblockFacts ==
    ASSUME NEW b \in Buffers, Apart(b), NEW i \in 1 .. Len(b.bl)
    PROVE  LET d == delblock(b, i)
           IN /\ d \in Buffers /\ SameText(d, b) /\ Apart(d)
              /\ Len(d.bl) = Len(b.bl) - 1
              /\ \A j \in 1 .. Len(b.bl) - 1 : SameBlock(d, j, b, IF j < i THEN j ELSE j + 1)
<1> DEFINE old == b.bl[i]
           a == old.addr
           e == release(b, old)
           left == RemoveAt(e.bl, i)
           d == [e EXCEPT !.bl = left]
<1>1. PICK A, room, list : Disk(b, A, room, list) /\ Chain(b.bl, A, room, list)
  BY DEF Apart
<1>2. /\ b.bl \in Seq(Blocks) /\ Len(b.bl) \in Nat /\ old \in Blocks
      /\ \A j \in 1 .. Len(b.bl) : b.bl[j] \in Blocks
  BY DEF Buffers
<1>3. a \in Nat /\ old.n \in 1 .. Maxblock
  BY <1>2 DEF Blocks
<1>4. /\ \A j \in 1 .. Len(b.bl) : /\ b.bl[j].addr \in A
                                   /\ list[b.bl[j].addr] = 0
                                   /\ room[b.bl[j].addr] = Size(b.bl[j].n)
      /\ \A j, k \in 1 .. Len(b.bl) : b.bl[j].addr = b.bl[k].addr => j = k
      /\ \A x \in A : list[x] = 0 => \E j \in 1 .. Len(b.bl) : b.bl[j].addr = x
  BY <1>1 DEF Chain
<1>5. a \in A /\ list[a] = 0 /\ room[a] = Size(old.n) /\ a = b.bl[i].addr
  BY <1>4
<1> DEFINE l2 == [list EXCEPT ![a] = ntosize(old.n)]
<1>6. /\ e \in Buffers /\ SameText(e, b) /\ e.bl = b.bl /\ e.addr = b.addr
      /\ \A x \in 1 .. b.addr : ~(a < x /\ x <= a + Size(old.n)) => e.store[x] = b.store[x]
      /\ Disk(e, A, room, l2)
  BY <1>1, <1>2, <1>5, ReleaseFacts
<1>7. delblock(b, i) = d
  BY DEF delblock
<1>8. room \in [Nat -> Nat] /\ list \in [Nat -> 0 .. Sizes] /\ A \subseteq Nat
  BY <1>1 DEF Disk
<1>9. ntosize(old.n) # 0
  <2> DEFINE n == old.n
  <2> HIDE DEF n
  <2>1. n \in 1 .. Maxblock
    BY <1>3 DEF n
  <2>2. ntosize(n) \in 1 .. Sizes /\ Sizes \in Nat
    BY <2>1, SizeFacts
  <2>3. ntosize(n) # 0
    BY <2>2
  <2> QED
    BY <2>3 DEF n
<1>10. l2[a] # 0 /\ \A x \in A : x # a => l2[x] = list[x]
  BY <1>5, <1>8, <1>9
<1> HIDE DEF e, l2, old, a
<1>11. /\ left \in Seq(Blocks) /\ Len(left) = Len(b.bl) - 1
       /\ \A j \in 1 .. Len(b.bl) - 1 : left[j] = b.bl[IF j < i THEN j ELSE j + 1]
  <2>1. e.bl \in Seq(Blocks) /\ i \in 1 .. Len(e.bl)
    BY <1>2, <1>6
  <2>2. /\ left \in Seq(Blocks) /\ Len(left) = Len(e.bl) - 1
        /\ \A j \in 1 .. Len(e.bl) - 1 : left[j] = IF j < i THEN e.bl[j] ELSE e.bl[j + 1]
    BY <2>1, RemoveAtFacts
  <2> HIDE DEF left
  <2> QED
    BY <2>2, <1>6
<1> HIDE DEF left
<1>12. /\ d \in Buffers /\ SameText(d, e) /\ d.bl = left /\ d.addr = e.addr
       /\ d.store = e.store /\ d.free = e.free
  BY <1>6, <1>11 DEF Buffers, SameText
<1> HIDE DEF d
<1>13. Disk(d, A, room, l2)
  BY <1>6, <1>12 DEF Disk
<1> DEFINE was(j) == IF j < i THEN j ELSE j + 1
<1>14. \A j \in 1 .. Len(b.bl) - 1 : was(j) \in 1 .. Len(b.bl) /\ was(j) # i /\ d.bl[j] = b.bl[was(j)]
  BY <1>2, <1>11, <1>12
<1>15. \A j \in 1 .. Len(b.bl) : j # i => \E k \in 1 .. Len(b.bl) - 1 : was(k) = j
  <2> TAKE j \in 1 .. Len(b.bl)
  <2> HAVE j # i
  <2> DEFINE k == IF j < i THEN j ELSE j - 1
  <2>1. k \in 1 .. Len(b.bl) - 1 /\ was(k) = j
    BY <1>2
  <2> QED
    BY <2>1
<1>16. \A j, k \in 1 .. Len(b.bl) - 1 : was(j) = was(k) => j = k
  BY <1>2
<1> HIDE DEF was
<1>17. Chain(d.bl, A, room, l2)
  <2>1. \A j \in 1 .. Len(b.bl) - 1 : /\ d.bl[j].addr \in A
                                      /\ l2[d.bl[j].addr] = 0
                                      /\ room[d.bl[j].addr] = Size(d.bl[j].n)
    <3> TAKE j \in 1 .. Len(b.bl) - 1
    <3> DEFINE k == was(j)
    <3>1. k \in 1 .. Len(b.bl) /\ k # i /\ d.bl[j] = b.bl[k]
      BY <1>14
    <3> HIDE DEF k
    <3>2. b.bl[k].addr # a
      BY <3>1, <1>4, <1>5
    <3> QED
      BY <3>1, <3>2, <1>4, <1>10
  <2>2. ASSUME NEW j \in 1 .. Len(b.bl) - 1, NEW k \in 1 .. Len(b.bl) - 1,
               d.bl[j].addr = d.bl[k].addr
        PROVE  j = k
    <3>1. was(j) = was(k)
      BY <2>2, <1>4, <1>14
    <3> QED
      BY <3>1, <1>16
  <2>3. ASSUME NEW x \in A, l2[x] = 0 PROVE \E j \in 1 .. Len(b.bl) - 1 : d.bl[j].addr = x
    <3>1. x # a /\ list[x] = 0
      BY <2>3, <1>10
    <3>2. PICK j \in 1 .. Len(b.bl) : b.bl[j].addr = x
      BY <3>1, <1>4
    <3>3. j # i
      BY <3>1, <3>2, <1>5
    <3>4. PICK k \in 1 .. Len(b.bl) - 1 : was(k) = j
      BY <3>3, <1>15
    <3> QED
      BY <3>2, <3>4, <1>14
  <2> QED
    BY <2>1, <2>2, <2>3, <1>11, <1>12 DEF Chain
<1>18. ASSUME NEW j \in 1 .. Len(b.bl) - 1
       PROVE  SameBlock(d, j, b, was(j))
  <2> DEFINE k == was(j)
  <2>1. k \in 1 .. Len(b.bl) /\ k # i /\ d.bl[j] = b.bl[k]
    BY <1>14
  <2> HIDE DEF k
  <2>2. a # b.bl[k].addr
    BY <2>1, <1>4, <1>5
  <2>3. \A x \in 1 .. b.addr : ~(a < x /\ x <= a + room[a]) => d.store[x] = b.store[x]
    BY <1>5, <1>6, <1>12
  <2>4. j \in 1 .. Len(d.bl)
    BY <1>11, <1>12
  <2>5. SameBlock(d, j, b, k)
    <3>1. /\ b \in Buffers /\ d \in Buffers /\ k \in 1 .. Len(b.bl) /\ j \in 1 .. Len(d.bl)
          /\ d.bl[j] = b.bl[k] /\ Disk(b, A, room, list) /\ Chain(b.bl, A, room, list)
          /\ a \in A /\ a # b.bl[k].addr
          /\ \A x \in 1 .. b.addr : ~(a < x /\ x <= a + room[a]) => d.store[x] = b.store[x]
      BY <2>1, <2>2, <2>3, <2>4, <1>1, <1>5, <1>12
    <3> QED
      BY <3>1, SameFacts
  <2> QED
    BY <2>5 DEF k
<1>19. SameText(d, b) /\ Apart(d) /\ d \in Buffers /\ Len(d.bl) = Len(b.bl) - 1
  BY <1>6, <1>11, <1>12, <1>13, <1>17 DEF SameText, Apart
<1> QED
  BY <1>7, <1>18, <1>19 DEF was, d

LEMMA AddblockFacts ==
    ASSUME NEW b \in Buffers, Apart(b), NEW i \in 1 .. Len(b.bl) + 1, NEW n \in 1 .. Maxblock
    PROVE  LET d == addblock(b, i, n)
           IN /\ d \in Buffers /\ SameText(d, b) /\ Apart(d)
              /\ Len(d.bl) = Len(b.bl) + 1
              /\ d.bl[i].n = n
              /\ \A j \in 1 .. Len(b.bl) : SameBlock(d, IF j < i THEN j ELSE j + 1, b, j)
<1> DEFINE e == new(b, n)[1]
           a == new(b, n)[2].addr
           blk == [addr |-> a, n |-> n]
           more == InsertAt(e.bl, i, blk)
           d == [e EXCEPT !.bl = more]
<1>1. PICK A, room, list : Disk(b, A, room, list) /\ Chain(b.bl, A, room, list)
  BY DEF Apart
<1> DEFINE A2 == A \cup {a}
           r2 == [room EXCEPT ![a] = Size(n)]
           l2 == [list EXCEPT ![a] = 0]
<1>2. /\ b.bl \in Seq(Blocks) /\ Len(b.bl) \in Nat /\ b.addr \in Nat
      /\ \A j \in 1 .. Len(b.bl) : b.bl[j] \in Blocks
  BY DEF Buffers
<1>3. /\ e \in Buffers /\ SameText(e, b) /\ e.bl = b.bl
      /\ new(b, n)[2] = blk /\ a \in Nat
      /\ b.addr <= e.addr
      /\ \A x \in 1 .. b.addr : e.store[x] = b.store[x]
      /\ ~(a \in A /\ list[a] = 0)
      /\ Disk(e, A2, r2, l2)
  BY <1>1, NewFacts
<1>4. /\ \A j \in 1 .. Len(b.bl) : /\ b.bl[j].addr \in A
                                   /\ list[b.bl[j].addr] = 0
                                   /\ room[b.bl[j].addr] = Size(b.bl[j].n)
      /\ \A j, k \in 1 .. Len(b.bl) : b.bl[j].addr = b.bl[k].addr => j = k
      /\ \A x \in A : list[x] = 0 => \E j \in 1 .. Len(b.bl) : b.bl[j].addr = x
  BY <1>1 DEF Chain
<1>5. addblock(b, i, n) = d
  BY <1>3 DEF addblock
<1>6. room \in [Nat -> Nat] /\ list \in [Nat -> 0 .. Sizes] /\ A \subseteq Nat
  BY <1>1 DEF Disk
<1>7. /\ r2[a] = Size(n) /\ l2[a] = 0 /\ a \in A2
      /\ \A x \in A : x # a => r2[x] = room[x] /\ l2[x] = list[x]
      /\ \A x \in A2 : x = a \/ x \in A
  BY <1>3, <1>6
<1> HIDE DEF e, a, r2, l2
<1>8. blk \in Blocks /\ blk.addr = a /\ blk.n = n
  BY <1>3 DEF Blocks
<1> HIDE DEF blk
<1>9. /\ more \in Seq(Blocks) /\ Len(more) = Len(b.bl) + 1
      /\ \A j \in 1 .. Len(b.bl) + 1 :
            more[j] = IF j < i THEN b.bl[j] ELSE IF j = i THEN blk ELSE b.bl[j - 1]
  <2>1. e.bl \in Seq(Blocks) /\ i \in 1 .. Len(e.bl) + 1
    BY <1>2, <1>3
  <2>2. /\ more \in Seq(Blocks) /\ Len(more) = Len(e.bl) + 1
        /\ \A j \in 1 .. Len(e.bl) + 1 :
              more[j] = IF j < i THEN e.bl[j] ELSE IF j = i THEN blk ELSE e.bl[j - 1]
    <3> DEFINE w == e.bl
    <3>1. w \in Seq(Blocks) /\ i \in 1 .. Len(w) + 1 /\ blk \in Blocks
      BY <2>1, <1>8
    <3> HIDE DEF w
    <3>2. /\ InsertAt(w, i, blk) \in Seq(Blocks) /\ Len(InsertAt(w, i, blk)) = Len(w) + 1
          /\ InsertAt(w, i, blk)[i] = blk
          /\ \A j \in 1 .. Len(w) + 1 : j < i => InsertAt(w, i, blk)[j] = w[j]
          /\ \A j \in 1 .. Len(w) + 1 : j > i => InsertAt(w, i, blk)[j] = w[j - 1]
      BY <3>1, InsertAtFacts
    <3> HIDE DEF blk
    <3>3. /\ more = InsertAt(w, i, blk) /\ w = e.bl
      BY DEF w
    <3> HIDE DEF more
    <3>4. Len(w) \in Nat
      BY <3>1
    <3> QED
      BY <3>2, <3>3, <3>4
  <2> HIDE DEF more
  <2> QED
    BY <2>2, <1>3
<1> HIDE DEF more
<1>10. /\ d \in Buffers /\ SameText(d, e) /\ d.bl = more /\ d.addr = e.addr
       /\ d.store = e.store /\ d.free = e.free
  BY <1>3, <1>9 DEF Buffers, SameText
<1> HIDE DEF d
<1>11. Disk(d, A2, r2, l2)
  BY <1>3, <1>10 DEF Disk
<1> HIDE DEF A2
<1>12. i \in 1 .. Len(b.bl) + 1 /\ d.bl[i] = blk
  BY <1>2, <1>9, <1>10
<1>13. ASSUME NEW j \in 1 .. Len(b.bl) + 1, j # i
       PROVE  \E k \in 1 .. Len(b.bl) : d.bl[j] = b.bl[k] /\ j = IF k < i THEN k ELSE k + 1
  <2> DEFINE k == IF j < i THEN j ELSE j - 1
  <2>1. k \in 1 .. Len(b.bl) /\ d.bl[j] = b.bl[k] /\ j = IF k < i THEN k ELSE k + 1
    BY <1>2, <1>9, <1>10, <1>13
  <2> QED
    BY <2>1
<1>14. \A j \in 1 .. Len(b.bl) : b.bl[j].addr # a
  BY <1>3, <1>4
<1> DEFINE is(k) == IF k < i THEN k ELSE k + 1
<1>15. \A k \in 1 .. Len(b.bl) : is(k) \in 1 .. Len(b.bl) + 1 /\ is(k) # i /\ d.bl[is(k)] = b.bl[k]
  <2> TAKE k \in 1 .. Len(b.bl)
  <2>1. k \in 1 .. Len(b.bl) + 1 /\ k + 1 \in 1 .. Len(b.bl) + 1 /\ (k + 1) - 1 = k
    BY <1>2
  <2>2. CASE k < i
    BY <2>1, <2>2, <1>9, <1>10
  <2>3. CASE k >= i
    <3>1. ~(k < i) /\ ~(k + 1 < i) /\ k + 1 # i
      BY <2>3
    <3> QED
      BY <2>1, <3>1, <1>9, <1>10
  <2> QED
    BY <2>2, <2>3
<1>16. Chain(d.bl, A2, r2, l2)
  <2>1. ASSUME NEW j \in 1 .. Len(b.bl) + 1
        PROVE  d.bl[j].addr \in A2 /\ l2[d.bl[j].addr] = 0 /\ r2[d.bl[j].addr] = Size(d.bl[j].n)
    <3>1. CASE j = i
      BY <3>1, <1>7, <1>8, <1>12
    <3>2. CASE j # i
      <4>1. PICK k \in 1 .. Len(b.bl) : d.bl[j] = b.bl[k]
        BY <3>2, <1>13
      <4> QED
        BY <4>1, <1>4, <1>7, <1>14 DEF A2
    <3> QED
      BY <3>1, <3>2
  <2>2. ASSUME NEW j \in 1 .. Len(b.bl) + 1, NEW k \in 1 .. Len(b.bl) + 1,
               d.bl[j].addr = d.bl[k].addr
        PROVE  j = k
    <3>1. CASE j # i /\ k # i
      <4>1. PICK u \in 1 .. Len(b.bl) : d.bl[j] = b.bl[u] /\ j = IF u < i THEN u ELSE u + 1
        BY <3>1, <1>13
      <4>2. PICK w \in 1 .. Len(b.bl) : d.bl[k] = b.bl[w] /\ k = IF w < i THEN w ELSE w + 1
        BY <3>1, <1>13
      <4> QED
        BY <4>1, <4>2, <2>2, <1>4
    <3>2. CASE j = i /\ k # i
      BY <3>2, <2>2, <1>8, <1>12, <1>13, <1>14
    <3>3. CASE j # i /\ k = i
      BY <3>3, <2>2, <1>8, <1>12, <1>13, <1>14
    <3> QED
      BY <3>1, <3>2, <3>3
  <2>3. ASSUME NEW x \in A2, l2[x] = 0 PROVE \E j \in 1 .. Len(b.bl) + 1 : d.bl[j].addr = x
    <3>1. CASE x = a
      BY <3>1, <1>8, <1>12
    <3>2. CASE x # a
      <4>1. x \in A /\ list[x] = 0
        BY <3>2, <2>3, <1>7
      <4>2. PICK k \in 1 .. Len(b.bl) : b.bl[k].addr = x
        BY <4>1, <1>4
      <4> QED
        BY <4>2, <1>15
    <3> QED
      BY <3>1, <3>2
  <2> QED
    BY <2>1, <2>2, <2>3, <1>9, <1>10 DEF Chain
<1>17. ASSUME NEW k \in 1 .. Len(b.bl)
       PROVE  SameBlock(d, is(k), b, k)
  <2> DEFINE q == b.bl[k].addr
             m == b.bl[k].n
  <2>1. b.bl[k] \in Blocks
    BY <1>2
  <2>2. m \in 1 .. Maxblock /\ q \in Nat /\ Maxblock \in Nat
    BY <2>1, BufferAssumption DEF Blocks
  <2>3. q \in A /\ room[q] = Size(m)
    BY <1>4
  <2>4. d.bl[is(k)] = b.bl[k]
    BY <1>15
  <2> HIDE DEF q, m
  <2>5. m <= room[q] /\ room[q] \in Nat /\ q + room[q] <= b.addr
    BY <2>2, <2>3, <1>1, SizeFacts, RoomFacts
  <2>6. ASSUME NEW x \in 1 .. m PROVE d.store[q + x] = b.store[q + x]
    <3>1. q + x \in 1 .. b.addr
      BY <2>2, <2>5, <1>2
    <3> QED
      BY <3>1, <1>3, <1>10
  <2> QED
    BY <2>4, <2>6 DEF SameBlock, q, m
<1>18. SameText(d, b) /\ Apart(d) /\ d \in Buffers /\ Len(d.bl) = Len(b.bl) + 1 /\ d.bl[i].n = n
  BY <1>3, <1>8, <1>9, <1>10, <1>11, <1>12, <1>16 DEF SameText, Apart
<1> QED
  BY <1>5, <1>17, <1>18 DEF is

-----------------------------------------------------------------------------
(* The text a Buffer holds: block i, of the first m, is the part of it that *)
(* starts at st[i], and the cache is that of block cbi.  The blocks after   *)
(* them hold nothing: reset leaves one.                                     *)

Block(b, i, t, p, q) == /\ q = p + b.bl[i].n
                        /\ \A x \in 1 .. b.bl[i].n : b.store[b.bl[i].addr + x] = t[p + x]

Cache(b, t, p, q) == /\ q = p + Len(b.c)
                     /\ \A x \in 1 .. Len(b.c) : b.c[x] = t[p + x]

Starts(st, m, n) == /\ st \in [1 .. m + 1 -> Nat] /\ st[1] = 0 /\ st[m + 1] = n
                    /\ \A i, j \in 1 .. m + 1 : i <= j => st[i] <= st[j]

\* All blocks but one hold their part.
Lies(b, t, st, m, but) ==
    /\ b.nc = Len(t) /\ m \in 0 .. Len(b.bl)
    /\ Starts(st, m, Len(t))
    /\ \A i \in 1 .. m : i # but => Block(b, i, t, st[i], st[i + 1])

Text(b, t, st, m) ==
    /\ Lies(b, t, st, m, b.cbi)
    /\ Len(b.c) <= Maxblock
    /\ IF b.bl = << >> THEN b.cbi = 1 /\ b.cq = 0 /\ b.c = << >> /\ ~b.cdirty
       ELSE /\ b.cbi \in 1 .. m /\ b.cq = st[b.cbi]
            /\ Cache(b, t, st[b.cbi], st[b.cbi + 1])
    /\ ~b.cdirty /\ b.nc # 0 => Block(b, b.cbi, t, st[b.cbi], st[b.cbi + 1])
    /\ ~b.cdirty /\ b.nc = 0 => b.c = << >> /\ b.cbi = 1

\* Between flush and the read of another block, nothing is cached.
Flushed(b, t, st, m) == /\ Lies(b, t, st, m, 0) /\ ~b.cdirty
                        /\ b.cbi \in 1 .. m + 1 /\ b.cq = st[b.cbi]

Holds(b, t) == /\ b \in Buffers /\ Apart(b)
               /\ \E m \in Nat : \E st : Text(b, t, st, m)

SameDisk(d, b) == d.bl = b.bl /\ d.free = b.free /\ d.addr = b.addr /\ d.store = b.store

LEMMA SameDiskFacts ==
    ASSUME NEW b, NEW d, SameDisk(d, b)
    PROVE  /\ Apart(b) => Apart(d)
           /\ \A i, t, p, q : Block(b, i, t, p, q) => Block(d, i, t, p, q)
           /\ \A a, i, j : SameBlock(b, j, a, i) => SameBlock(d, j, a, i)
<1>1. Apart(b) => Apart(d)
  <2> SUFFICES ASSUME Apart(b) PROVE Apart(d)
    OBVIOUS
  <2>1. PICK A, room, list : Disk(b, A, room, list) /\ Chain(b.bl, A, room, list)
    BY DEF Apart
  <2>2. Disk(d, A, room, list) /\ Chain(d.bl, A, room, list)
    BY <2>1 DEF Disk, SameDisk
  <2> QED
    BY <2>2 DEF Apart
<1>2. \A i, t, p, q : Block(b, i, t, p, q) => Block(d, i, t, p, q)
  BY DEF Block, SameDisk
<1>3. \A a, i, j : SameBlock(b, j, a, i) => SameBlock(d, j, a, i)
  BY DEF SameBlock, SameDisk
<1> QED
  BY <1>1, <1>2, <1>3

\* A block that is what it was, or what the cache was, holds the same part.
LEMMA BlockFacts ==
    /\ \A b, d, i, j, t, p, q :
          Block(b, i, t, p, q) /\ SameBlock(d, j, b, i) => Block(d, j, t, p, q)
    /\ \A b, d, i, t, p, q :
          /\ Cache(b, t, p, q) /\ d.bl[i].n = Len(b.c)
          /\ \A x \in 1 .. Len(b.c) : d.store[d.bl[i].addr + x] = b.c[x]
          => Block(d, i, t, p, q)
<1>1. ASSUME NEW b, NEW d, NEW i, NEW j, NEW t, NEW p, NEW q,
             Block(b, i, t, p, q), SameBlock(d, j, b, i)
      PROVE  Block(d, j, t, p, q)
  BY <1>1 DEF Block, SameBlock
<1>2. ASSUME NEW b, NEW d, NEW i, NEW t, NEW p, NEW q,
             Cache(b, t, p, q), d.bl[i].n = Len(b.c),
             \A x \in 1 .. Len(b.c) : d.store[d.bl[i].addr + x] = b.c[x]
      PROVE  Block(d, i, t, p, q)
  BY <1>2 DEF Block, Cache
<1> QED
  BY <1>1, <1>2

\* The starts, without an empty block.
LEMMA StartsWithout ==
    ASSUME NEW m \in Nat, NEW st, NEW n \in Nat, Starts(st, m, n), NEW i \in 1 .. m,
           st[i] = st[i + 1]
    PROVE  LET u == [j \in 1 .. m |-> IF j <= i THEN st[j] ELSE st[j + 1]]
           IN Starts(u, m - 1, n)
<1> DEFINE u == [j \in 1 .. m |-> IF j <= i THEN st[j] ELSE st[j + 1]]
<1>1. /\ st \in [1 .. m + 1 -> Nat] /\ st[1] = 0 /\ st[m + 1] = n
      /\ \A j, k \in 1 .. m + 1 : j <= k => st[j] <= st[k]
  BY DEF Starts
<1>2. (m - 1) + 1 = m
  OBVIOUS
<1>3. u \in [1 .. m -> Nat]
  BY <1>1
<1>4. u[1] = 0
  BY <1>1
<1>5. u[m] = n
  <2>1. m \in 1 .. m
    OBVIOUS
  <2>2. CASE m = i
    BY <2>1, <2>2, <1>1
  <2>3. CASE m # i
    BY <2>1, <2>3, <1>1
  <2> QED
    BY <2>2, <2>3
<1>6. ASSUME NEW j \in 1 .. m, NEW k \in 1 .. m, j <= k PROVE u[j] <= u[k]
  <2>1. j \in 1 .. m + 1 /\ k \in 1 .. m + 1 /\ j + 1 \in 1 .. m + 1 /\ k + 1 \in 1 .. m + 1
    OBVIOUS
  <2> QED
    BY <2>1, <1>1, <1>6
<1> HIDE DEF u
<1> QED
  BY <1>2, <1>3, <1>4, <1>5, <1>6 DEF Starts, u

\* Buffer.flush leaves the text, all of it, in the blocks.
LEMMA FlushFacts ==
    ASSUME NEW b \in Buffers, Apart(b), NEW t \in Seq(Runes), NEW m \in Nat, NEW st,
           Text(b, t, st, m), b.bl # << >>, b.nc # 0 \/ b.cdirty
    PROVE  LET f == flush(b)
           IN /\ f \in Buffers /\ Apart(f)
              /\ f.nc = b.nc /\ f.cq = b.cq /\ f.cbi = b.cbi /\ f.c = b.c
              /\ b.c = << >> => /\ Len(f.bl) = Len(b.bl) - 1
                                /\ \E u : Flushed(f, t, u, m - 1)
              /\ b.c # << >> => Len(f.bl) = Len(b.bl) /\ Flushed(f, t, st, m)
<1> DEFINE i == b.cbi
<1>0. Len(t) \in Nat /\ Maxblock \in Nat
  BY BufferAssumption
<1>1. /\ b.bl \in Seq(Blocks) /\ Len(b.bl) \in Nat /\ b.c \in Seq(Cells) /\ Len(b.c) \in Nat
      /\ b.nc \in Nat /\ b.cdirty \in BOOLEAN
  BY DEF Buffers
<1>2. /\ b.nc = Len(t) /\ m \in 0 .. Len(b.bl) /\ Starts(st, m, Len(t))
      /\ \A j \in 1 .. m : j # i => Block(b, j, t, st[j], st[j + 1])
      /\ Len(b.c) <= Maxblock
      /\ i \in 1 .. m /\ b.cq = st[i] /\ Cache(b, t, st[i], st[i + 1])
      /\ ~b.cdirty => Block(b, i, t, st[i], st[i + 1])
  BY DEF Text, Lies
<1>3. i \in 1 .. Len(b.bl)
  BY <1>1, <1>2
<1> HIDE DEF i
<1>4. CASE b.c = << >>
  <2> DEFINE e == delblock(b, i)
             f == [e EXCEPT !.cdirty = FALSE]
             u == [j \in 1 .. m |-> IF j <= i THEN st[j] ELSE st[j + 1]]
  <2>1. flush(b) = f
    BY <1>4 DEF flush, i
  <2>2. /\ e \in Buffers /\ SameText(e, b) /\ Apart(e) /\ Len(e.bl) = Len(b.bl) - 1
        /\ \A j \in 1 .. Len(b.bl) - 1 : SameBlock(e, j, b, IF j < i THEN j ELSE j + 1)
    BY <1>3, DelblockFacts
  <2> HIDE DEF e
  <2>3. /\ f \in Buffers /\ SameDisk(f, e) /\ f.cdirty = FALSE
        /\ f.nc = e.nc /\ f.cq = e.cq /\ f.cbi = e.cbi /\ f.c = e.c
    BY <2>2 DEF Buffers, SameDisk
  <2> HIDE DEF f
  <2>4. f.nc = b.nc /\ f.cq = b.cq /\ f.cbi = i /\ f.c = b.c /\ Len(f.bl) = Len(b.bl) - 1
    BY <2>2, <2>3 DEF SameText, SameDisk, i
  <2>5. Apart(f) /\ \A j \in 1 .. Len(b.bl) - 1 : SameBlock(f, j, b, IF j < i THEN j ELSE j + 1)
    BY <2>2, <2>3, SameDiskFacts
  <2>6. st \in [1 .. m + 1 -> Nat] /\ st[i] = st[i + 1]
    <3>1. st \in [1 .. m + 1 -> Nat]
      BY <1>2 DEF Starts
    <3>2. st[i + 1] = st[i] + 0
      BY <1>2, <1>4 DEF Cache
    <3> QED
      BY <3>1, <3>2, <1>2
  <2>7. Starts(u, m - 1, Len(t))
    BY <2>6, <1>0, <1>2, StartsWithout
  <2>8. ASSUME NEW j \in 1 .. m - 1
        PROVE  Block(f, j, t, u[j], u[j + 1])
    <3>1. j \in 1 .. m /\ j + 1 \in 1 .. m /\ j \in 1 .. Len(b.bl) - 1
      BY <1>1, <1>2
    <3>2. CASE j < i
      <4>1. u[j] = st[j] /\ u[j + 1] = st[j + 1] /\ SameBlock(f, j, b, j) /\ j # i
        BY <3>1, <3>2, <2>5, <1>2
      <4> QED
        BY <4>1, <3>1, <1>2, BlockFacts
    <3>3. CASE j >= i
      <4>1. u[j] = st[j + 1]
        BY <3>1, <3>3, <2>6, <1>2
      <4>2. u[j + 1] = st[(j + 1) + 1] /\ SameBlock(f, j, b, j + 1) /\ j + 1 # i
        BY <3>1, <3>3, <2>5, <1>2
      <4>3. Block(b, j + 1, t, st[j + 1], st[(j + 1) + 1])
        BY <3>1, <4>2, <1>2
      <4> QED
        BY <4>1, <4>2, <4>3, BlockFacts
    <3> QED
      BY <3>1, <3>2, <3>3, <1>2
  <2>9. u[i] = st[i] /\ i \in 1 .. (m - 1) + 1 /\ m - 1 \in 0 .. Len(b.bl) - 1
    BY <1>1, <1>2
  <2> HIDE DEF u
  <2>10. Flushed(f, t, u, m - 1)
    BY <2>3, <2>4, <2>7, <2>8, <2>9, <1>2 DEF Flushed, Lies
  <2> QED
    BY <2>1, <2>3, <2>4, <2>5, <2>10, <1>4 DEF i
<1>5. CASE b.c # << >> /\ b.cdirty
  <2> DEFINE e == write(b, i, b.c)
             f == [e EXCEPT !.cdirty = FALSE]
  <2>1. flush(b) = f
    BY <1>5 DEF flush, i
  <2>2. Len(b.c) \in 1 .. Maxblock
    BY <1>0, <1>1, <1>2, <1>5
  <2>3. /\ e \in Buffers /\ SameText(e, b) /\ Apart(e)
        /\ Len(e.bl) = Len(b.bl)
        /\ e.bl[i].n = Len(b.c)
        /\ \A x \in 1 .. Len(b.c) : e.store[e.bl[i].addr + x] = b.c[x]
        /\ \A j \in 1 .. Len(b.bl) : j # i => SameBlock(e, j, b, j)
    BY <2>2, <1>1, <1>3, WriteFacts
  <2> HIDE DEF e
  <2>4. /\ f \in Buffers /\ SameDisk(f, e) /\ f.cdirty = FALSE
        /\ f.nc = e.nc /\ f.cq = e.cq /\ f.cbi = e.cbi /\ f.c = e.c
    BY <2>3 DEF Buffers, SameDisk
  <2> HIDE DEF f
  <2>5. f.nc = b.nc /\ f.cq = b.cq /\ f.cbi = i /\ f.c = b.c /\ Len(f.bl) = Len(b.bl)
    BY <2>3, <2>4 DEF SameText, SameDisk, i
  <2>6. Apart(f)
    BY <2>3, <2>4, SameDiskFacts
  <2>7. ASSUME NEW j \in 1 .. m PROVE Block(f, j, t, st[j], st[j + 1])
    <3>1. CASE j = i
      <4>1. Block(e, i, t, st[i], st[i + 1])
        BY <2>3, <1>2, BlockFacts
      <4> QED
        BY <4>1, <3>1, <2>4, SameDiskFacts
    <3>2. CASE j # i
      <4>1. j \in 1 .. Len(b.bl)
        BY <1>1, <1>2
      <4>2. Block(e, j, t, st[j], st[j + 1])
        BY <4>1, <3>2, <2>3, <1>2, BlockFacts
      <4> QED
        BY <4>2, <2>4, SameDiskFacts
    <3> QED
      BY <3>1, <3>2
  <2>8. i \in 1 .. m + 1
    BY <1>2
  <2>9. Flushed(f, t, st, m)
    BY <2>4, <2>5, <2>7, <2>8, <1>2 DEF Flushed, Lies
  <2> QED
    BY <2>1, <2>4, <2>5, <2>6, <2>9, <1>5 DEF i
<1>6. CASE b.c # << >> /\ ~b.cdirty
  <2>1. flush(b) = b
    BY <1>6 DEF flush
  <2>2. \A j \in 1 .. m : Block(b, j, t, st[j], st[j + 1])
    BY <1>2, <1>6
  <2>3. i \in 1 .. m + 1
    BY <1>2
  <2>4. Flushed(b, t, st, m)
    BY <2>2, <2>3, <1>2, <1>6 DEF Flushed, Lies, i
  <2> QED
    BY <2>1, <2>4, <1>6
<1> QED
  BY <1>4, <1>5, <1>6

\* Disk.read reads what is in the block.
LEMMA DiskreadFacts ==
    ASSUME NEW b \in Buffers, Apart(b), NEW i \in 1 .. Len(b.bl)
    PROVE  LET c == diskread(b, b.bl[i])
           IN /\ c \in Seq(Cells) /\ Len(c) = b.bl[i].n /\ Len(c) \in 1 .. Maxblock
              /\ \A x \in 1 .. b.bl[i].n : c[x] = b.store[b.bl[i].addr + x]
<1> DEFINE q == b.bl[i].addr
           n == b.bl[i].n
           s == b.store
           c == SubSeq(s, q + 1, q + n)
<1>1. PICK A, room, list : Disk(b, A, room, list) /\ Chain(b.bl, A, room, list)
  BY DEF Apart
<1>2. b.bl[i] \in Blocks /\ s \in Seq(Cells) /\ b.addr \in Nat
  BY DEF Buffers
<1>3. n \in 1 .. Maxblock /\ q \in Nat /\ Maxblock \in Nat
  BY <1>2, BufferAssumption DEF Blocks
<1>4. q \in A /\ room[q] = Size(n) /\ Len(s) = b.addr
  BY <1>1 DEF Chain, Disk
<1>5. diskread(b, b.bl[i]) = c
  BY DEF diskread
<1> HIDE DEF q, n, s
<1>6. n <= room[q] /\ room[q] \in Nat /\ q + room[q] <= b.addr
  <2>1. n <= room[q]
    BY <1>3, <1>4, SizeFacts
  <2>2. \A x \in A : x \in Nat /\ room[x] \in Nat /\ x + room[x] <= b.addr
    BY <1>1, RoomFacts
  <2> QED
    BY <1>4, <2>1, <2>2
<1>7. PICK k \in 1 .. Len(s) + 1 : k = q + 1
  BY <1>2, <1>3, <1>4, <1>6
<1>8. PICK l \in k - 1 .. Len(s) : l = q + n
  BY <1>2, <1>3, <1>4, <1>6, <1>7
<1>9. /\ SubSeq(s, k, l) \in Seq(Cells) /\ Len(SubSeq(s, k, l)) = l - k + 1
      /\ \A x \in 1 .. l - k + 1 : SubSeq(s, k, l)[x] = s[k + x - 1]
  BY <1>2, SubSeqFacts
<1>10. c = SubSeq(s, k, l)
  BY <1>7, <1>8
<1> HIDE DEF c
<1>11. l - k + 1 = n /\ \A x \in 1 .. n : k + x - 1 = q + x
  BY <1>3, <1>7, <1>8
<1> QED
  BY <1>3, <1>5, <1>9, <1>10, <1>11 DEF q, n, s

\* Buffer.setcache's search ends at the block that q0 is in or, at the end of the
\* text, at the last one.
LEMMA SeekFacts ==
    ASSUME NEW f \in Buffers, Apart(f), NEW t \in Seq(Runes), NEW m \in Nat, NEW st,
           Flushed(f, t, st, m), NEW q0 \in 0 .. Len(t), q0 < f.cq \/ f.cq < Len(t)
    PROVE  LET d == seek(f, q0)
           IN /\ d \in Buffers /\ Apart(d) /\ Text(d, t, st, m)
              /\ d.bl # << >> /\ d.cq <= q0 /\ q0 <= d.cq + Len(d.c)
              /\ q0 < Len(t) => q0 < d.cq + Len(d.c)
<1> DEFINE first == IF q0 < f.cq THEN 1 ELSE f.cbi
           base == IF q0 < f.cq THEN 0 ELSE f.cq
           L == Len(f.bl)
           Is(at) == at = [j \in first .. L |-> IF j = first THEN base
                                                ELSE at[j - 1] + f.bl[j - 1].n]
           at == CHOOSE at : Is(at)
           past(j) == at[j] + f.bl[j].n <= q0 /\ at[j] + f.bl[j].n < f.nc
           J == {j \in first .. L : ~past(j)}
           i == Min(J)
           c == diskread(f, f.bl[i])
           d == [f EXCEPT !.cbi = i, !.cq = at[i], !.c = c]
<1>0. Len(t) \in Nat
  OBVIOUS
<1>1. /\ f.bl \in Seq(Blocks) /\ L \in Nat /\ f.nc = Len(t) /\ m \in 0 .. L
      /\ f.cbi \in 1 .. m + 1 /\ f.cq = st[f.cbi] /\ f.cdirty = FALSE
      /\ st \in [1 .. m + 1 -> Nat] /\ st[1] = 0 /\ st[m + 1] = Len(t)
      /\ \A k, j \in 1 .. m + 1 : k <= j => st[k] <= st[j]
      /\ \A j \in 1 .. m : Block(f, j, t, st[j], st[j + 1])
  BY DEF Buffers, Flushed, Lies, Starts
<1>2. \A j \in 1 .. L : f.bl[j].n \in Nat
  <2>1. \A j \in 1 .. L : f.bl[j] \in Blocks
    BY <1>1
  <2> QED
    BY <2>1, BufferAssumption DEF Blocks
<1>3. /\ first \in 1 .. m /\ first \in 1 .. L /\ base = st[first] /\ base \in Nat /\ base <= q0
  <2>0. 1 \in 1 .. m + 1 /\ m + 1 \in 1 .. m + 1 /\ f.cq \in Nat
    BY <1>1
  <2>1. CASE q0 < f.cq
    <3>1. m # 0
      BY <2>1, <1>1
    <3>2. 1 \in 1 .. m /\ 1 \in 1 .. L
      BY <3>1, <1>1
    <3> QED
      BY <2>1, <3>2, <1>1
  <2>2. CASE ~(q0 < f.cq)
    <3>1. f.cq < Len(t) /\ f.cq <= q0
      BY <2>0, <2>2
    <3>2. f.cbi # m + 1
      BY <3>1, <1>0, <1>1
    <3>3. f.cbi \in 1 .. m /\ f.cbi \in 1 .. L
      BY <3>2, <1>1
    <3> QED
      BY <2>0, <2>2, <3>1, <3>3, <1>1
  <2> QED
    BY <2>1, <2>2
<1>4. seek(f, q0) = d
  BY DEF seek
<1> HIDE DEF first, base, L
<1>5. Is(at)
  <2> DEFINE N == L - first
             G == [k \in 1 .. N |-> [v \in Nat |-> v + f.bl[first + k - 1].n]]
  <2>1. N \in Nat
    BY <1>1, <1>3
  <2>2. G \in [1 .. N -> [Nat -> Nat]]
    <3>1. \A k \in 1 .. N : first + k - 1 \in 1 .. L
      BY <1>1, <1>3
    <3> QED
      BY <3>1, <1>2
  <2>3. \A k \in 1 .. N : \A v \in Nat : G[k][v] = v + f.bl[first + k - 1].n
    OBVIOUS
  <2> HIDE DEF N, G
  <2>4. PICK g : Iterate(g, Nat, base, N, G)
    <3>1. base \in Nat
      BY <1>3
    <3> QED
      BY <2>1, <2>2, <3>1, Iterates
  <2>8. g \in [0 .. N -> Nat] /\ g[0] = base /\ \A k \in 1 .. N : g[k] = G[k][g[k - 1]]
    BY <2>4 DEF Iterate
  <2> DEFINE h == [j \in first .. L |-> g[j - first]]
  <2>5. \A j \in first .. L : h[j] = IF j = first THEN base ELSE h[j - 1] + f.bl[j - 1].n
    <3> TAKE j \in first .. L
    <3>1. CASE j = first
      <4>1. j - first = 0
        BY <3>1, <1>3
      <4> QED
        BY <3>1, <4>1, <2>8
    <3>2. CASE j # first
      <4>1. /\ j - first \in 1 .. N /\ j - 1 \in first .. L /\ (j - 1) - first = (j - first) - 1
            /\ first + (j - first) - 1 = j - 1 /\ (j - first) - 1 \in 0 .. N
        BY <3>2, <1>1, <1>3 DEF N
      <4>2. h[j] = g[j - first] /\ h[j - 1] = g[(j - first) - 1] /\ h[j - 1] \in Nat
        BY <4>1, <2>8
      <4>3. g[j - first] = g[(j - first) - 1] + f.bl[j - 1].n
        BY <4>1, <2>3, <2>8
      <4> QED
        BY <3>2, <4>2, <4>3
    <3> QED
      BY <3>1, <3>2
  <2>6. h = [j \in first .. L |-> h[j]]
    OBVIOUS
  <2> HIDE DEF h
  <2>7. Is(h)
    BY <2>5, <2>6
  <2> HIDE DEF Is
  <2> QED
    BY <2>7
<1>6. \A j \in first .. L : at[j] = IF j = first THEN base ELSE at[j - 1] + f.bl[j - 1].n
  <2> HIDE DEF at
  <2> QED
    BY <1>5
<1> HIDE DEF at, Is
<1>7. ASSUME NEW j \in first .. m PROVE at[j] = st[j]
  <2> DEFINE T == {k \in 0 .. m - first : at[first + k] = st[first + k]}
  <2>1. 0 \in T
    <3>1. first \in first .. L /\ first + 0 = first /\ 0 \in 0 .. m - first
      BY <1>1, <1>3
    <3> QED
      BY <3>1, <1>3, <1>6
  <2>2. ASSUME NEW k \in 1 .. m - first, k - 1 \in T PROVE k \in T
    <3> DEFINE l == first + (k - 1)
    <3>1. /\ l \in 1 .. m /\ first + k \in first .. L /\ first + k # first /\ (first + k) - 1 = l
          /\ first + k = l + 1
      BY <1>1, <1>3
    <3>2. at[l] = st[l]
      BY <2>2
    <3> HIDE DEF l
    <3>3. at[first + k] = at[l] + f.bl[l].n
      BY <3>1, <1>6
    <3>4. st[l + 1] = st[l] + f.bl[l].n
      BY <3>1, <1>1 DEF Block
    <3>5. at[first + k] = st[first + k] /\ k \in 0 .. m - first
      BY <3>1, <3>2, <3>3, <3>4
    <3> QED
      BY <3>5
  <2> HIDE DEF T
  <2>3. m - first \in Nat
    BY <1>1, <1>3
  <2>4. \A k \in 0 .. m - first : k \in T
    BY <2>1, <2>2, <2>3, Steps
  <2>5. j - first \in 0 .. m - first /\ first + (j - first) = j
    BY <1>1, <1>3
  <2>6. j - first \in T
    BY <2>4, <2>5
  <2> QED
    BY <2>5, <2>6 DEF T
<1>8. \A j \in first .. m : past(j) <=> st[j + 1] <= q0 /\ st[j + 1] < Len(t)
  <2> TAKE j \in first .. m
  <2>1. j \in 1 .. m
    BY <1>3
  <2>2. st[j + 1] = st[j] + f.bl[j].n
    BY <2>1, <1>1 DEF Block
  <2> QED
    BY <2>2, <1>1, <1>7
<1>9. i \in J /\ \A j \in J : i <= j
  <2>1. m \in J
    <3>1. m \in first .. m /\ m \in first .. L
      BY <1>1, <1>3
    <3>2. ~past(m)
      BY <3>1, <1>0, <1>1, <1>8
    <3> QED
      BY <3>1, <3>2
  <2>2. J \in SUBSET Nat
    BY <1>1, <1>3
  <2> HIDE DEF J
  <2>3. \E n \in J : \A j \in J : n <= j
    BY <2>1, <2>2, Least
  <2> QED
    BY <2>1, <2>3 DEF Min
<1>10. m \in J
  <2>1. m \in first .. m /\ m \in first .. L
    BY <1>1, <1>3
  <2>2. ~past(m)
    BY <2>1, <1>0, <1>1, <1>8
  <2> QED
    BY <2>1, <2>2
<1>11. i \in first .. L /\ ~past(i) /\ i <= m /\ \A j \in first .. L : j < i => past(j)
  <2> HIDE DEF i
  <2>1. i \in first .. L /\ ~past(i) /\ i <= m
    BY <1>9, <1>10
  <2>2. \A j \in first .. L : j < i => j \in Int /\ i \in Int /\ ~(i <= j)
    BY <1>3, <2>1, <1>1
  <2>3. \A j \in first .. L : j < i => j \notin J
    BY <2>2, <1>9
  <2> QED
    BY <2>1, <2>3
<1> HIDE DEF i, J, past
<1>12. i \in 1 .. m /\ i \in first .. m /\ i \in 1 .. L
  BY <1>1, <1>3, <1>11
<1>13. at[i] = st[i] /\ st[i] \in Nat /\ st[i + 1] \in Nat
  BY <1>1, <1>7, <1>12
<1>14. st[i] <= q0
  <2>1. CASE i = first
    BY <2>1, <1>3
  <2>2. CASE i # first
    <3>1. i - 1 \in first .. m /\ i - 1 \in first .. L /\ i - 1 < i /\ (i - 1) + 1 = i
      BY <2>2, <1>1, <1>3, <1>12
    <3>2. st[(i - 1) + 1] <= q0
      BY <3>1, <1>8, <1>11
    <3> QED
      BY <3>1, <3>2
  <2> QED
    BY <2>1, <2>2
<1>15. q0 <= st[i + 1] /\ (q0 < Len(t) => q0 < st[i + 1])
  <2>1. ~(st[i + 1] <= q0 /\ st[i + 1] < Len(t))
    BY <1>8, <1>11, <1>12
  <2> QED
    BY <2>1, <1>0, <1>13
<1>16. /\ c \in Seq(Cells) /\ Len(c) = f.bl[i].n /\ Len(c) \in 1 .. Maxblock
       /\ \A x \in 1 .. f.bl[i].n : c[x] = f.store[f.bl[i].addr + x]
  BY <1>12, DiskreadFacts DEF L
<1> HIDE DEF c
<1>17. Block(f, i, t, st[i], st[i + 1])
  BY <1>1, <1>12
<1>18. st[i + 1] = st[i] + Len(c) /\ \A x \in 1 .. Len(c) : c[x] = t[st[i] + x]
  BY <1>16, <1>17 DEF Block
<1>19. /\ d \in Buffers /\ SameDisk(d, f) /\ d.nc = f.nc /\ d.cdirty = FALSE
       /\ d.cbi = i /\ d.cq = st[i] /\ d.c = c
  <2>1. i \in Nat \ {0}
    BY <1>12
  <2> QED
    BY <2>1, <1>1, <1>13, <1>16 DEF Buffers, SameDisk
<1> HIDE DEF d
<1>20. Apart(d) /\ \A j \in 1 .. m : Block(d, j, t, st[j], st[j + 1])
  BY <1>1, <1>19, SameDiskFacts
<1>21. d.bl = f.bl /\ d.bl # << >>
  BY <1>1, <1>12, <1>19 DEF SameDisk, L
<1>22. Lies(d, t, st, m, i)
  BY <1>1, <1>19, <1>20, <1>21 DEF Lies, Starts, L
<1>23. Cache(d, t, st[i], st[i + 1])
  BY <1>18, <1>19 DEF Cache
<1>24. d.nc # 0
  BY <1>0, <1>1, <1>3, <1>19
<1>25. Len(c) <= Maxblock
  BY <1>16, BufferAssumption
<1>26. Text(d, t, st, m)
  BY <1>12, <1>19, <1>20, <1>21, <1>22, <1>23, <1>24, <1>25 DEF Text
<1>27. d.cq <= q0 /\ q0 <= d.cq + Len(d.c) /\ (q0 < Len(t) => q0 < d.cq + Len(d.c))
  BY <1>14, <1>15, <1>18, <1>19
<1> QED
  BY <1>4, <1>19, <1>20, <1>21, <1>26, <1>27

\* The cache is where q0 is: in it or, at the end of the text, at its end.
At(b, q0) == /\ b.cq <= q0 /\ q0 <= b.cq + Len(b.c)
             /\ q0 < b.nc => q0 < b.cq + Len(b.c)

\* Buffer.setcache keeps the text.
LEMMA SetcacheFacts ==
    ASSUME NEW b, NEW t \in Seq(Runes), Holds(b, t), NEW q0 \in 0 .. Len(t)
    PROVE  Holds(setcache(b, q0), t) /\ At(setcache(b, q0), q0)
<1>0. Len(t) \in Nat /\ Maxblock \in Nat \ {0}
  BY BufferAssumption
<1>1. b \in Buffers /\ Apart(b)
  BY DEF Holds
<1>2. PICK m \in Nat : \E st : Text(b, t, st, m)
  BY DEF Holds
<1>3. PICK st : Text(b, t, st, m)
  BY <1>2
<1>4. /\ b.nc = Len(t) /\ b.c \in Seq(Cells) /\ Len(b.c) \in Nat /\ b.cq \in Nat
      /\ st \in [1 .. m + 1 -> Nat] /\ st[1] = 0 /\ st[m + 1] = Len(t)
      /\ \A i, j \in 1 .. m + 1 : i <= j => st[i] <= st[j]
      /\ m \in 0 .. Len(b.bl)
  BY <1>1, <1>3 DEF Text, Lies, Starts, Buffers
<1>5. b.bl # << >> => /\ b.cbi \in 1 .. m /\ b.cq = st[b.cbi]
                      /\ st[b.cbi + 1] = b.cq + Len(b.c)
  BY <1>3 DEF Text, Cache
<1>6. b.bl = << >> => b.nc = 0 /\ b.cq = 0
  <2>1. b.bl = << >> => m = 0
    BY <1>4
  <2> QED
    BY <2>1, <1>3, <1>4 DEF Text
<1>7. b.cq + Len(b.c) <= Len(t)
  <2>1. CASE b.bl = << >>
    BY <2>1, <1>0, <1>3, <1>6 DEF Text
  <2>2. CASE b.bl # << >>
    <3>1. b.cbi + 1 \in 1 .. m + 1 /\ m + 1 \in 1 .. m + 1 /\ b.cbi + 1 <= m + 1
      BY <2>2, <1>5
    <3> QED
      BY <3>1, <2>2, <1>4, <1>5
  <2> QED
    BY <2>1, <2>2
<1>8. CASE b.nc = 0 \/ Cached(b, q0)
  <2>1. setcache(b, q0) = b
    BY <1>8 DEF setcache
  <2>2. At(b, q0)
    BY <1>0, <1>4, <1>7, <1>8 DEF At, Cached
  <2> QED
    BY <2>1, <2>2
<1>9. CASE b.nc # 0 /\ ~Cached(b, q0)
  <2> DEFINE f == flush(b)
             d == seek(f, q0)
  <2>1. setcache(b, q0) = d
    BY <1>9 DEF setcache
  <2>2. b.bl # << >>
    BY <1>6, <1>9
  <2>3. /\ f \in Buffers /\ Apart(f) /\ f.cq = b.cq
        /\ \E n \in Nat : \E u : Flushed(f, t, u, n)
    <3>1. /\ f \in Buffers /\ Apart(f)
          /\ f.nc = b.nc /\ f.cq = b.cq /\ f.cbi = b.cbi /\ f.c = b.c
          /\ b.c = << >> => /\ Len(f.bl) = Len(b.bl) - 1
                            /\ \E u : Flushed(f, t, u, m - 1)
          /\ b.c # << >> => Len(f.bl) = Len(b.bl) /\ Flushed(f, t, st, m)
      BY <1>1, <1>3, <1>9, <2>2, FlushFacts
    <3> HIDE DEF f
    <3>2. m - 1 \in Nat
      BY <1>5, <2>2
    <3> QED
      BY <3>1, <3>2
  <2> HIDE DEF f
  <2>4. PICK n \in Nat : \E u : Flushed(f, t, u, n)
    BY <2>3
  <2>5. PICK u : Flushed(f, t, u, n)
    BY <2>4
  <2>6. q0 < f.cq \/ f.cq < Len(t)
    BY <1>0, <1>4, <1>7, <1>9, <2>3 DEF Cached
  <2>7. /\ d \in Buffers /\ Apart(d) /\ Text(d, t, u, n)
        /\ d.bl # << >> /\ d.cq <= q0 /\ q0 <= d.cq + Len(d.c)
        /\ q0 < Len(t) => q0 < d.cq + Len(d.c)
    BY <2>3, <2>5, <2>6, SeekFacts
  <2> HIDE DEF d
  <2>8. d.nc = Len(t)
    BY <2>7 DEF Text, Lies
  <2> QED
    BY <2>1, <2>7, <2>8 DEF Holds, At
<1> QED
  BY <1>8, <1>9

-----------------------------------------------------------------------------
(* Edits.  What they replace is in the cache; the blocks before it stay as *)
(* they are, and those after it move.                                      *)

LEMMA AroundFacts ==
    ASSUME NEW b \in Buffers, NEW i \in 1 .. Len(b.bl), NEW t \in Seq(Runes), NEW s \in Seq(Runes),
           NEW q0 \in 0 .. Len(t), NEW q1 \in q0 .. Len(t),
           NEW p \in Nat, NEW q \in 0 .. Len(t), Block(b, i, t, p, q)
    PROVE  /\ q <= q0 => Block(b, i, Splice(t, q0, q1, s), p, q)
           /\ q1 <= p => Block(b, i, Splice(t, q0, q1, s), p - (q1 - q0) + Len(s),
                                                           q - (q1 - q0) + Len(s))
<1> DEFINE u == Splice(t, q0, q1, s)
           n == b.bl[i].n
           k == Len(s) - (q1 - q0)
<1>0. Len(t) \in Nat /\ Len(s) \in Nat
  OBVIOUS
<1>1. /\ u \in Seq(Runes)
      /\ Len(u) = Len(t) - (q1 - q0) + Len(s)
      /\ \A x \in 1 .. Len(t) - (q1 - q0) + Len(s) :
            u[x] = IF x <= q0 THEN t[x] ELSE IF x <= q0 + Len(s) THEN s[x - q0]
                   ELSE t[x - Len(s) + (q1 - q0)]
  BY SpliceFacts
<1> HIDE DEF u
<1>2. b.bl[i] \in Blocks
  BY DEF Buffers
<1>3. n \in Nat
  BY <1>2, BufferAssumption DEF Blocks
<1>4. q = p + n /\ \A x \in 1 .. n : b.store[b.bl[i].addr + x] = t[p + x]
  BY DEF Block
<1> HIDE DEF n
<1>5. ASSUME q <= q0 PROVE Block(b, i, u, p, q)
  <2>1. ASSUME NEW x \in 1 .. n PROVE u[p + x] = t[p + x]
    <3>1. p + x \in 1 .. Len(t) - (q1 - q0) + Len(s) /\ p + x <= q0
      BY <1>0, <1>3, <1>4, <1>5
    <3> QED
      BY <3>1, <1>1
  <2> QED
    BY <2>1, <1>4 DEF Block, n
<1>6. ASSUME q1 <= p PROVE Block(b, i, u, p - (q1 - q0) + Len(s), q - (q1 - q0) + Len(s))
  <2> DEFINE r == p - (q1 - q0) + Len(s)
  <2>1. ASSUME NEW x \in 1 .. n PROVE u[r + x] = t[p + x]
    <3>1. /\ r + x \in 1 .. Len(t) - (q1 - q0) + Len(s) /\ ~(r + x <= q0) /\ ~(r + x <= q0 + Len(s))
          /\ (r + x) - Len(s) + (q1 - q0) = p + x
      BY <1>0, <1>3, <1>4, <1>6
    <3> HIDE DEF r
    <3>2. u[r + x] = t[(r + x) - Len(s) + (q1 - q0)]
      BY <3>1, <1>1
    <3> QED
      BY <3>1, <3>2
  <2>2. q - (q1 - q0) + Len(s) = r + n
    BY <1>0, <1>3, <1>4
  <2> HIDE DEF r
  <2> QED
    BY <2>1, <2>2, <1>4 DEF Block, n, r
<1> QED
  BY <1>5, <1>6 DEF u

LEMMA WithinFacts ==
    ASSUME NEW b \in Buffers, NEW d, NEW t \in Seq(Runes), NEW s \in Seq(Runes),
           NEW q0 \in 0 .. Len(t), NEW q1 \in q0 .. Len(t),
           NEW p \in 0 .. q0, NEW q \in q1 .. Len(t), Cache(b, t, p, q),
           d.c = Splice(b.c, q0 - p, q1 - p, s)
    PROVE  /\ Cache(d, Splice(t, q0, q1, s), p, q - (q1 - q0) + Len(s))
           /\ d.c \in Seq(Cells) /\ Len(d.c) = Len(b.c) - (q1 - q0) + Len(s)
<1> DEFINE u == Splice(t, q0, q1, s)
<1>0. /\ Len(t) \in Nat /\ Len(s) \in Nat /\ b.c \in Seq(Cells) /\ Len(b.c) \in Nat
      /\ s \in Seq(Cells) /\ q0 \in Nat /\ q1 \in Nat /\ q0 <= q1 /\ p \in Nat /\ q \in Nat
      /\ p <= q0 /\ q1 <= q
  BY DEF Cells, Buffers
<1>11. u \in Seq(Runes) /\ Len(u) = Len(t) - (q1 - q0) + Len(s)
  BY SpliceFacts
<1>1. /\ \A x \in 1 .. Len(t) - (q1 - q0) + Len(s) :
            u[x] = IF x <= q0 THEN t[x] ELSE IF x <= q0 + Len(s) THEN s[x - q0]
                   ELSE t[x - Len(s) + (q1 - q0)]
  BY SpliceFacts
<1> HIDE DEF u
<1>2. q = p + Len(b.c) /\ \A x \in 1 .. Len(b.c) : b.c[x] = t[p + x]
  BY DEF Cache
<1>3. PICK o0 \in 0 .. Len(b.c) : o0 = q0 - p
  BY <1>0, <1>2
<1>4. PICK o1 \in o0 .. Len(b.c) : o1 = q1 - p
  BY <1>0, <1>2, <1>3
<1> DEFINE w == b.c
           v == Splice(w, o0, o1, s)
<1>5. d.c = v
  BY <1>3, <1>4
<1>6. w \in Seq(Cells) /\ o0 \in 0 .. Len(w) /\ o1 \in o0 .. Len(w)
  BY <1>0
<1> HIDE DEF w
<1>7. /\ v \in Seq(Cells)
      /\ Len(v) = Len(w) - (o1 - o0) + Len(s)
      /\ \A x \in 1 .. Len(w) - (o1 - o0) + Len(s) :
            v[x] = IF x <= o0 THEN w[x] ELSE IF x <= o0 + Len(s) THEN s[x - o0]
                   ELSE w[x - Len(s) + (o1 - o0)]
  BY <1>0, <1>6, SpliceFacts
<1> HIDE DEF v
<1>8. o1 - o0 = q1 - q0 /\ Len(w) \in Nat /\ q = p + Len(w) /\ \A x \in 1 .. Len(w) : w[x] = t[p + x]
  BY <1>0, <1>2, <1>3, <1>4 DEF w
<1>12. /\ Len(t) \in Nat /\ Len(s) \in Nat /\ Len(w) \in Nat /\ q0 \in Nat /\ q1 \in Nat
       /\ p \in Nat /\ q0 <= q1 /\ p <= q0 /\ q1 <= q /\ q <= Len(t) /\ q = p + Len(w)
       /\ o0 = q0 - p /\ o1 = q1 - p
  BY <1>0, <1>3, <1>4, <1>8
<1>9. ASSUME NEW x \in 1 .. Len(w) - (q1 - q0) + Len(s) PROVE v[x] = u[p + x]
  <2>0. p + x \in 1 .. Len(t) - (q1 - q0) + Len(s)
    BY <1>12
  <2>1. CASE x <= o0
    <3>1. x \in 1 .. Len(w) /\ p + x <= q0
      BY <2>1, <1>12
    <3> QED
      BY <2>0, <2>1, <3>1, <1>1, <1>7, <1>8
  <2>2. CASE ~(x <= o0) /\ x <= o0 + Len(s)
    <3>1. ~(p + x <= q0) /\ p + x <= q0 + Len(s) /\ (p + x) - q0 = x - o0
      BY <2>2, <1>12
    <3>2. v[x] = s[x - o0] /\ u[p + x] = s[(p + x) - q0]
      BY <2>0, <2>2, <3>1, <1>1, <1>7, <1>8
    <3> QED
      BY <3>1, <3>2
  <2>3. CASE ~(x <= o0) /\ ~(x <= o0 + Len(s))
    <3>1. /\ ~(p + x <= q0) /\ ~(p + x <= q0 + Len(s))
          /\ x - Len(s) + (o1 - o0) \in 1 .. Len(w)
          /\ p + (x - Len(s) + (o1 - o0)) = (p + x) - Len(s) + (q1 - q0)
      BY <2>3, <1>12
    <3>2. v[x] = w[x - Len(s) + (o1 - o0)] /\ u[p + x] = t[(p + x) - Len(s) + (q1 - q0)]
      BY <2>0, <2>3, <3>1, <1>1, <1>7, <1>8
    <3>3. w[x - Len(s) + (o1 - o0)] = t[p + (x - Len(s) + (o1 - o0))]
      BY <3>1, <1>8
    <3> QED
      BY <3>1, <3>2, <3>3
  <2> QED
    BY <2>1, <2>2, <2>3
<1>10. Len(v) = Len(w) - (q1 - q0) + Len(s) /\ q - (q1 - q0) + Len(s) = p + Len(v)
  <2>1. Len(v) = Len(w) - (q1 - q0) + Len(s)
    BY <1>7, <1>8
  <2> QED
    BY <2>1, <1>12
<1> QED
  BY <1>5, <1>7, <1>9, <1>10 DEF Cache, u, w

\* The starts, when what is between two of them grows or shrinks.
LEMMA StartsMoved ==
    ASSUME NEW m \in Nat, NEW st, NEW n \in Nat, Starts(st, m, n), NEW i \in 1 .. m,
           NEW q0 \in Nat, NEW q1 \in Nat, st[i] <= q0, q0 <= q1, q1 <= st[i + 1], NEW k \in Nat
    PROVE  LET u == [j \in 1 .. m + 1 |-> IF j <= i THEN st[j] ELSE st[j] - (q1 - q0) + k]
           IN Starts(u, m, n - (q1 - q0) + k)
<1> DEFINE u == [j \in 1 .. m + 1 |-> IF j <= i THEN st[j] ELSE st[j] - (q1 - q0) + k]
<1>1. /\ st \in [1 .. m + 1 -> Nat] /\ st[1] = 0 /\ st[m + 1] = n
      /\ \A j, l \in 1 .. m + 1 : j <= l => st[j] <= st[l]
  BY DEF Starts
<1>2. \A j \in 1 .. m + 1 : st[j] \in Nat
  BY <1>1
<1>3. \A j \in 1 .. m + 1 : ~(j <= i) => q1 <= st[j]
  <2> TAKE j \in 1 .. m + 1
  <2> HAVE ~(j <= i)
  <2>1. i + 1 \in 1 .. m + 1 /\ i + 1 <= j
    OBVIOUS
  <2>2. st[i + 1] <= st[j]
    BY <2>1, <1>1
  <2>3. st[i + 1] \in Nat /\ st[j] \in Nat
    BY <2>1, <1>2
  <2> QED
    BY <2>2, <2>3
<1>4. \A j \in 1 .. m + 1 : j <= i => st[j] <= q0
  <2> TAKE j \in 1 .. m + 1
  <2> HAVE j <= i
  <2>1. i \in 1 .. m + 1
    OBVIOUS
  <2>2. st[j] <= st[i]
    BY <2>1, <1>1
  <2>3. st[i] \in Nat /\ st[j] \in Nat
    BY <2>1, <1>2
  <2> QED
    BY <2>2, <2>3
<1>5. u \in [1 .. m + 1 -> Nat]
  BY <1>2, <1>3
<1>6. u[1] = 0 /\ u[m + 1] = n - (q1 - q0) + k
  BY <1>1
<1>7. ASSUME NEW j \in 1 .. m + 1, NEW l \in 1 .. m + 1, j <= l PROVE u[j] <= u[l]
  <2>1. st[j] \in Nat /\ st[l] \in Nat /\ st[j] <= st[l]
    BY <1>1, <1>2, <1>7
  <2>2. CASE l <= i
    BY <2>1, <2>2, <1>7
  <2>3. CASE ~(j <= i)
    BY <2>1, <2>3, <1>7
  <2>4. CASE j <= i /\ ~(l <= i)
    <3>1. u[j] = st[j] /\ u[l] = st[l] - (q1 - q0) + k
      BY <2>4
    <3> QED
      BY <3>1, <2>1, <2>4, <1>3, <1>4
  <2> QED
    BY <2>2, <2>3, <2>4
<1> HIDE DEF u
<1> QED
  BY <1>5, <1>6, <1>7 DEF Starts, u

\* The starts, with one more: v, between i's and the next.
LEMMA StartsSplit ==
    ASSUME NEW m \in Nat, NEW st, NEW n \in Nat, Starts(st, m, n), NEW i \in 1 .. m + 1,
           NEW v \in Nat, st[i] <= v, i <= m => v <= st[i + 1], i = m + 1 => v = n
    PROVE  LET u == [j \in 1 .. m + 2 |-> IF j <= i THEN st[j] ELSE IF j = i + 1 THEN v
                                          ELSE st[j - 1]]
           IN Starts(u, m + 1, n)
<1> DEFINE u == [j \in 1 .. m + 2 |-> IF j <= i THEN st[j] ELSE IF j = i + 1 THEN v
                                      ELSE st[j - 1]]
<1>1. /\ st \in [1 .. m + 1 -> Nat] /\ st[1] = 0 /\ st[m + 1] = n
      /\ \A j, l \in 1 .. m + 1 : j <= l => st[j] <= st[l]
  BY DEF Starts
<1>2. \A j \in 1 .. m + 1 : st[j] \in Nat
  BY <1>1
<1>3. \A j \in 1 .. m + 1 : j <= i => st[j] <= v
  <2> TAKE j \in 1 .. m + 1
  <2> HAVE j <= i
  <2>1. st[j] <= st[i] /\ st[i] \in Nat /\ st[j] \in Nat
    BY <1>1, <1>2
  <2> QED
    BY <2>1
<1>4. \A j \in 1 .. m + 1 : ~(j <= i) => v <= st[j]
  <2> TAKE j \in 1 .. m + 1
  <2> HAVE ~(j <= i)
  <2>1. i <= m /\ i + 1 \in 1 .. m + 1 /\ i + 1 <= j
    OBVIOUS
  <2>2. st[i + 1] <= st[j] /\ st[i + 1] \in Nat /\ st[j] \in Nat
    BY <2>1, <1>1, <1>2
  <2> QED
    BY <2>1, <2>2
<1>5. \A j \in 1 .. m + 2 : ~(j <= i) /\ j # i + 1 => j - 1 \in 1 .. m + 1 /\ ~(j - 1 <= i)
  OBVIOUS
<1>6. \A j \in 1 .. m + 2 : j <= i => j \in 1 .. m + 1
  OBVIOUS
<1>7. /\ \A j \in 1 .. m + 2 : j <= i => u[j] = st[j]
      /\ u[i + 1] = v
      /\ \A j \in 1 .. m + 2 : ~(j <= i) /\ j # i + 1 => u[j] = st[j - 1]
  OBVIOUS
<1>8. u \in [1 .. m + 2 -> Nat]
  BY <1>2, <1>5, <1>6
<1> HIDE DEF u
<1>9. u[1] = 0 /\ u[m + 2] = n
  <2>1. 1 \in 1 .. m + 2 /\ m + 2 \in 1 .. m + 2 /\ 1 <= i /\ ~(m + 2 <= i) /\ (m + 2) - 1 = m + 1
    OBVIOUS
  <2>2. u[m + 2] = n
    <3>1. CASE i = m + 1
      <4>1. i + 1 = m + 2
        BY <3>1
      <4> QED
        BY <3>1, <4>1, <1>7
    <3>2. CASE i # m + 1
      <4>1. i + 1 # m + 2
        BY <3>2
      <4> QED
        BY <2>1, <4>1, <1>1, <1>7
    <3> QED
      BY <3>1, <3>2
  <2> QED
    BY <2>1, <2>2, <1>1, <1>7
<1>10. ASSUME NEW j \in 1 .. m + 2, NEW l \in 1 .. m + 2, j <= l PROVE u[j] <= u[l]
  <2>1. CASE l <= i
    <3>1. j <= i /\ j \in 1 .. m + 1 /\ l \in 1 .. m + 1
      BY <2>1, <1>10
    <3> QED
      BY <2>1, <3>1, <1>1, <1>7, <1>10
  <2>2. CASE l = i + 1 /\ j <= i
    BY <2>2, <1>3, <1>6, <1>7
  <2>3. CASE l = i + 1 /\ j = i + 1
    BY <2>3, <1>7
  <2>4. CASE ~(l <= i) /\ l # i + 1
    <3>0. l - 1 \in 1 .. m + 1 /\ ~(l - 1 <= i) /\ u[l] = st[l - 1]
      BY <2>4, <1>5, <1>7
    <3>1. CASE j <= i
      <4>1. j \in 1 .. m + 1 /\ j <= l - 1 /\ u[j] = st[j]
        BY <3>1, <3>0, <1>6, <1>7
      <4> QED
        BY <3>0, <4>1, <1>1
    <3>2. CASE j = i + 1
      BY <3>0, <3>2, <1>4, <1>7
    <3>3. CASE ~(j <= i) /\ j # i + 1
      <4>1. j - 1 \in 1 .. m + 1 /\ j - 1 <= l - 1 /\ u[j] = st[j - 1]
        BY <3>3, <1>5, <1>7, <1>10
      <4> QED
        BY <3>0, <4>1, <1>1
    <3> QED
      BY <3>1, <3>2, <3>3
  <2> QED
    BY <2>1, <2>2, <2>3, <2>4, <1>10
<1>11. (m + 1) + 1 = m + 2
  OBVIOUS
<1> QED
  BY <1>8, <1>9, <1>10, <1>11 DEF Starts, u

\* An edit of what is cached.
Edit(b, q0, q1, s) == [b EXCEPT !.c = Splice(@, q0 - b.cq, q1 - b.cq, s),
                                !.nc = @ - (q1 - q0) + Len(s), !.cdirty = TRUE]

LEMMA EditFacts ==
    ASSUME NEW b \in Buffers, Apart(b), b.bl # << >>, NEW t \in Seq(Runes),
           NEW m \in Nat, NEW st, Text(b, t, st, m), NEW s \in Seq(Runes),
           NEW q0 \in 0 .. Len(t), NEW q1 \in q0 .. Len(t),
           b.cq <= q0, q1 <= b.cq + Len(b.c), Len(b.c) - (q1 - q0) + Len(s) <= Maxblock
    PROVE  Holds(Edit(b, q0, q1, s), Splice(t, q0, q1, s))
<1> DEFINE i == b.cbi
           k == Len(s)
           u == [j \in 1 .. m + 1 |-> IF j <= i THEN st[j] ELSE st[j] - (q1 - q0) + k]
           w == Splice(t, q0, q1, s)
           d == Edit(b, q0, q1, s)
<1>0. /\ Len(t) \in Nat /\ k \in Nat /\ q0 \in Nat /\ q1 \in Nat /\ q0 <= q1 /\ q1 <= Len(t)
  OBVIOUS
<1>1. /\ b.nc = Len(t) /\ m \in 0 .. Len(b.bl) /\ Starts(st, m, Len(t))
      /\ \A j \in 1 .. m : j # i => Block(b, j, t, st[j], st[j + 1])
      /\ i \in 1 .. m /\ b.cq = st[i] /\ Cache(b, t, st[i], st[i + 1])
  BY DEF Text, Lies
<1>2. /\ st \in [1 .. m + 1 -> Nat]
      /\ \A j, l \in 1 .. m + 1 : j <= l => st[j] <= st[l]
  BY <1>1 DEF Starts
<1>3. st[i + 1] = st[i] + Len(b.c) /\ st[i] <= q0 /\ q1 <= st[i + 1] /\ st[i + 1] <= Len(t)
  <2>1. i + 1 \in 1 .. m + 1 /\ m + 1 \in 1 .. m + 1 /\ i + 1 <= m + 1
    BY <1>1
  <2>2. st[m + 1] = Len(t)
    BY <1>1 DEF Starts
  <2>3. st[i + 1] <= Len(t)
    BY <2>1, <2>2, <1>2
  <2> QED
    BY <2>3, <1>1 DEF Cache
<1>4. st[i] \in 0 .. q0 /\ st[i + 1] \in q1 .. Len(t)
  <2>1. i \in 1 .. m + 1 /\ i + 1 \in 1 .. m + 1
    BY <1>1
  <2>2. st[i] \in Nat /\ st[i + 1] \in Nat
    BY <2>1, <1>2
  <2> QED
    BY <2>2, <1>0, <1>3
<1>5. d.c = Splice(b.c, q0 - st[i], q1 - st[i], s)
  BY <1>1 DEF Edit, Buffers
<1>6. /\ Cache(d, w, st[i], st[i + 1] - (q1 - q0) + k)
      /\ d.c \in Seq(Cells) /\ Len(d.c) = Len(b.c) - (q1 - q0) + k
  BY <1>1, <1>4, <1>5, WithinFacts
<1>7. /\ d \in Buffers /\ SameDisk(d, b) /\ d.nc = Len(t) - (q1 - q0) + k
      /\ d.cdirty = TRUE /\ d.cq = b.cq /\ d.cbi = i
  <2>1. Len(t) - (q1 - q0) + k \in Nat
    BY <1>0
  <2> DEFINE c == Splice(b.c, q0 - b.cq, q1 - b.cq, s)
             n == b.nc - (q1 - q0) + k
  <2>2. d.c = c /\ c \in Seq(Cells) /\ n \in Nat
    BY <2>1, <1>1, <1>5, <1>6
  <2>3. d = [b EXCEPT !.c = c, !.nc = n, !.cdirty = TRUE]
    BY DEF Edit
  <2> HIDE DEF c, n, d
  <2>4. d \in Buffers /\ SameDisk(d, b) /\ d.nc = n /\ d.cdirty = TRUE /\ d.cq = b.cq /\ d.cbi = i
    BY <2>2, <2>3 DEF Buffers, SameDisk
  <2> QED
    BY <2>4, <1>1 DEF n
<1> HIDE DEF d
<1>8. Len(w) = Len(t) - (q1 - q0) + k /\ w \in Seq(Runes)
  <2>1. /\ Splice(t, q0, q1, s) \in Seq(Runes)
        /\ Len(Splice(t, q0, q1, s)) = Len(t) - (q1 - q0) + Len(s)
    <3> HIDE DEF i, u
    <3> QED
      BY SpliceFacts
  <2> QED
    BY <2>1
<1>9. Starts(u, m, Len(t) - (q1 - q0) + k)
  <2> HIDE DEF k, i
  <2> QED
    BY <1>0, <1>1, <1>3, StartsMoved
<1> HIDE DEF w
<1>10. u[i] = st[i] /\ u[i + 1] = st[i + 1] - (q1 - q0) + k
  BY <1>1
<1>11. ASSUME NEW j \in 1 .. m, j # i PROVE Block(d, j, w, u[j], u[j + 1])
  <2>0. /\ j \in 1 .. m + 1 /\ j + 1 \in 1 .. m + 1 /\ i \in 1 .. m + 1 /\ i + 1 \in 1 .. m + 1
        /\ m + 1 \in 1 .. m + 1 /\ j + 1 <= m + 1 /\ j \in 1 .. Len(b.bl)
    <3>1. Len(b.bl) \in Nat
      BY DEF Buffers
    <3>2. m <= Len(b.bl) /\ i \in 1 .. m
      BY <3>1, <1>1
    <3> HIDE DEF i
    <3> QED
      BY <3>1, <3>2
  <2>1. st[j] \in Nat /\ st[j + 1] \in 0 .. Len(t)
    <3> DEFINE x == st[j + 1]
    <3>1. x <= st[m + 1] /\ st[m + 1] = Len(t)
      BY <2>0, <1>1, <1>2 DEF Starts
    <3>2. x \in Nat /\ st[j] \in Nat
      BY <2>0, <1>2
    <3>3. Len(t) \in Nat
      OBVIOUS
    <3> HIDE DEF x
    <3>4. x \in 0 .. Len(t)
      BY <3>1, <3>2, <3>3
    <3> QED
      BY <3>2, <3>4 DEF x
  <2>2. Block(b, j, t, st[j], st[j + 1])
    BY <1>1, <1>11
  <2>3. /\ st[j + 1] <= q0 => Block(b, j, w, st[j], st[j + 1])
        /\ q1 <= st[j] => Block(b, j, w, st[j] - (q1 - q0) + k, st[j + 1] - (q1 - q0) + k)
    BY <2>0, <2>1, <2>2, AroundFacts DEF w
  <2>4. CASE j < i
    <3>1. j <= i /\ j + 1 <= i
      BY <2>4, <1>1
    <3>2. st[j + 1] <= st[i]
      BY <2>0, <3>1, <1>2
    <3>3. st[j + 1] <= q0
      BY <2>1, <3>2, <1>3, <1>4
    <3>4. u[j] = st[j] /\ u[j + 1] = st[j + 1]
      BY <2>0, <3>1
    <3>5. Block(b, j, w, u[j], u[j + 1])
      BY <2>3, <3>3, <3>4
    <3> HIDE DEF u
    <3> QED
      BY <3>5, <1>7, SameDiskFacts
  <2>5. CASE j > i
    <3>1. ~(j <= i) /\ ~(j + 1 <= i) /\ i + 1 <= j
      BY <2>5, <1>1
    <3>2. st[i + 1] <= st[j]
      BY <2>0, <3>1, <1>2
    <3>3. q1 <= st[j]
      BY <2>1, <3>2, <1>3, <1>4
    <3>4. u[j] = st[j] - (q1 - q0) + k /\ u[j + 1] = st[j + 1] - (q1 - q0) + k
      BY <2>0, <3>1
    <3>5. Block(b, j, w, u[j], u[j + 1])
      BY <2>3, <3>3, <3>4
    <3> HIDE DEF u
    <3> QED
      BY <3>5, <1>7, SameDiskFacts
  <2> QED
    BY <2>4, <2>5, <1>1, <1>11
<1> HIDE DEF u
<1>12. Lies(d, w, u, m, i)
  BY <1>1, <1>7, <1>8, <1>9, <1>11 DEF Lies, SameDisk
<1>13. Cache(d, w, u[i], u[i + 1])
  BY <1>6, <1>10
<1>14. d.bl # << >> /\ Len(d.c) <= Maxblock
  BY <1>6, <1>7 DEF SameDisk
<1>15. Text(d, w, u, m)
  BY <1>1, <1>7, <1>10, <1>12, <1>13, <1>14 DEF Text
<1>16. Apart(d)
  BY <1>7, SameDiskFacts
<1> QED
  BY <1>7, <1>15, <1>16 DEF Holds, w, d

\* A new block, of which nothing is used yet, between two others.
Opened(f, i, k, q0) ==
    [addblock(f, i, k) EXCEPT !.c = << >>, !.cq = q0, !.cbi = i, !.cdirty = TRUE]

\* d is such a change of b, where no text has been lost.
Grown(d, b, t, m) == /\ d \in Buffers /\ Apart(d) /\ d.bl # << >> /\ d.nc = b.nc
                     /\ \E u : Text(d, t, u, m + 1)

LEMMA EmptyFacts ==
    ASSUME NEW f \in Buffers, Apart(f), NEW t \in Seq(Runes), NEW m \in Nat, NEW st,
           Lies(f, t, st, m, 0), NEW i \in 1 .. m + 1, NEW k \in 1 .. Maxblock,
           NEW q0, q0 = st[i]
    PROVE  Grown(Opened(f, i, k, q0), f, t, m)
<1> DEFINE a == addblock(f, i, k)
           e == [a EXCEPT !.c = << >>, !.cq = q0, !.cbi = i, !.cdirty = TRUE]
           u == [j \in 1 .. m + 2 |-> IF j <= i THEN st[j] ELSE IF j = i + 1 THEN q0
                                      ELSE st[j - 1]]
<1>1. /\ f.nc = Len(t) /\ m \in 0 .. Len(f.bl) /\ Starts(st, m, Len(t)) /\ Len(f.bl) \in Nat
      /\ \A j \in 1 .. m : Block(f, j, t, st[j], st[j + 1])
  BY DEF Lies, Buffers
<1>2. i \in 1 .. Len(f.bl) + 1
  BY <1>1
<1>3. /\ a \in Buffers /\ SameText(a, f) /\ Apart(a)
      /\ Len(a.bl) = Len(f.bl) + 1
      /\ a.bl[i].n = k
      /\ \A j \in 1 .. Len(f.bl) : SameBlock(a, IF j < i THEN j ELSE j + 1, f, j)
  BY <1>2, AddblockFacts
<1> HIDE DEF a
<1>4. /\ st \in [1 .. m + 1 -> Nat] /\ st[m + 1] = Len(t)
      /\ \A j, l \in 1 .. m + 1 : j <= l => st[j] <= st[l]
  BY <1>1 DEF Starts
<1>5. q0 \in Nat /\ st[i] <= q0 /\ (i <= m => q0 <= st[i + 1]) /\ (i = m + 1 => q0 = Len(t))
  <2>1. q0 \in Nat /\ st[i] <= q0
    BY <1>4
  <2>2. i <= m => q0 <= st[i + 1]
    <3> HAVE i <= m
    <3>1. i + 1 \in 1 .. m + 1 /\ i <= i + 1
      OBVIOUS
    <3> QED
      BY <3>1, <1>4
  <2> QED
    BY <2>1, <2>2, <1>4
<1>6. Starts(u, m + 1, Len(t))
  <2>1. Len(t) \in Nat
    OBVIOUS
  <2> QED
    BY <2>1, <1>1, <1>5, StartsSplit
<1>7. /\ e \in Buffers /\ SameDisk(e, a) /\ e.nc = a.nc /\ e.cdirty = TRUE
      /\ e.c = << >> /\ e.cq = q0 /\ e.cbi = i
  <2>1. i \in Nat \ {0} /\ << >> \in Seq(Cells)
    OBVIOUS
  <2> QED
    BY <2>1, <1>3, <1>5 DEF Buffers, SameDisk
<1> HIDE DEF e
<1>8. /\ Apart(e) /\ e.nc = f.nc /\ Len(e.bl) = Len(f.bl) + 1 /\ e.bl # << >>
      /\ \A j \in 1 .. Len(f.bl) : SameBlock(e, IF j < i THEN j ELSE j + 1, f, j)
  <2>1. Apart(e) /\ \A j \in 1 .. Len(f.bl) : SameBlock(e, IF j < i THEN j ELSE j + 1, f, j)
    BY <1>3, <1>7, SameDiskFacts
  <2>2. e.nc = f.nc /\ Len(e.bl) = Len(f.bl) + 1
    BY <1>3, <1>7 DEF SameDisk, SameText
  <2>3. e.bl # << >>
    BY <2>2, <1>1
  <2> QED
    BY <2>1, <2>2, <2>3
<1>9. ASSUME NEW j \in 1 .. m + 1, j # i PROVE Block(e, j, t, u[j], u[j + 1])
  <2>1. CASE j < i
    <3>1. j \in 1 .. m /\ j \in 1 .. Len(f.bl) /\ j <= i /\ j + 1 <= i /\ j \in 1 .. m + 2 /\ j + 1 \in 1 .. m + 2
      BY <2>1, <1>1
    <3>2. u[j] = st[j] /\ u[j + 1] = st[j + 1]
      BY <3>1
    <3> HIDE DEF u
    <3>3. SameBlock(e, j, f, j)
      BY <2>1, <3>1, <1>8
    <3> QED
      BY <3>1, <3>2, <3>3, <1>1, BlockFacts
  <2>2. CASE j > i
    <3> DEFINE l == j - 1
    <3>1. /\ l \in 1 .. m /\ l \in 1 .. Len(f.bl) /\ ~(l < i) /\ j = l + 1
          /\ ~(j <= i) /\ j # i /\ ~(j + 1 <= i) /\ j + 1 # i + 1 /\ (j + 1) - 1 = l + 1
          /\ j \in 1 .. m + 2 /\ j + 1 \in 1 .. m + 2
      BY <2>2, <1>1
    <3>2. u[j + 1] = st[l + 1]
      BY <3>1
    <3>3. u[j] = st[l]
      <4>1. CASE j = i + 1
        <5>1. l = i /\ u[j] = q0
          BY <3>1, <4>1
        <5> QED
          BY <5>1
      <4>2. CASE j # i + 1
        BY <3>1, <4>2
      <4> QED
        BY <4>1, <4>2
    <3> HIDE DEF u, l
    <3>4. SameBlock(e, j, f, l)
      BY <3>1, <1>8
    <3> QED
      BY <3>1, <3>2, <3>3, <3>4, <1>1, BlockFacts
  <2> QED
    BY <2>1, <2>2, <1>9
<1>10. u[i] = q0 /\ u[i + 1] = q0
  <2>1. i \in 1 .. m + 2 /\ i + 1 \in 1 .. m + 2 /\ ~(i + 1 <= i)
    OBVIOUS
  <2> QED
    BY <2>1
<1> HIDE DEF u
<1>11. Lies(e, t, u, m + 1, i)
  <2>1. m + 1 \in 0 .. Len(e.bl)
    BY <1>1, <1>8
  <2> QED
    BY <2>1, <1>1, <1>6, <1>8, <1>9 DEF Lies
<1>12. Cache(e, t, u[i], u[i + 1])
  BY <1>5, <1>7, <1>10 DEF Cache
<1>13. Text(e, t, u, m + 1)
  <2>1. Len(e.c) <= Maxblock
    BY <1>7, BufferAssumption
  <2> QED
    BY <2>1, <1>7, <1>8, <1>10, <1>11, <1>12 DEF Text
<1>14. e = Opened(f, i, k, q0)
  BY DEF e, a, Opened
<1>15. Grown(e, f, t, m)
  BY <1>7, <1>8, <1>13 DEF Grown
<1> QED
  BY <1>14, <1>15

\* What follows q0 in the cached block is cut off into a block of its own.
LEMMA SplitFacts ==
    ASSUME NEW b \in Buffers, Apart(b), b.bl # << >>, NEW t \in Seq(Runes),
           NEW m \in Nat, NEW st, Text(b, t, st, m), NEW off \in 1 .. Len(b.c) - 1
    PROVE  LET left == SubSeq(b.c, 1, off)
               right == SubSeq(b.c, off + 1, Len(b.c))
               i == b.cbi + 1
               e == [write(addblock(b, i, Len(right)), i, right)
                        EXCEPT !.c = left, !.cdirty = TRUE]
           IN Grown(e, b, t, m) /\ e.cq = b.cq /\ e.cbi = b.cbi /\ Len(left) = off
<1> DEFINE left == SubSeq(b.c, 1, off)
           right == SubSeq(b.c, off + 1, Len(b.c))
           i == b.cbi
           a == addblock(b, i + 1, Len(right))
           g == write(a, i + 1, right)
           e == [g EXCEPT !.c = left, !.cdirty = TRUE]
           v == st[i] + off
           u == [j \in 1 .. m + 2 |-> IF j <= i THEN st[j] ELSE IF j = i + 1 THEN v
                                      ELSE st[j - 1]]
<1>0. /\ Len(t) \in Nat /\ b.c \in Seq(Cells) /\ Len(b.c) \in Nat /\ off \in Nat
      /\ Maxblock \in Nat /\ Len(b.bl) \in Nat
  BY BufferAssumption DEF Buffers
<1>1. /\ b.nc = Len(t) /\ m \in 0 .. Len(b.bl) /\ Starts(st, m, Len(t))
      /\ \A j \in 1 .. m : j # i => Block(b, j, t, st[j], st[j + 1])
      /\ i \in 1 .. m /\ b.cq = st[i] /\ Cache(b, t, st[i], st[i + 1])
      /\ Len(b.c) <= Maxblock
  BY DEF Text, Lies
<1> HIDE DEF i
<1>2. /\ left \in Seq(Cells) /\ Len(left) = off
      /\ \A x \in 1 .. off : left[x] = b.c[x]
  <2> DEFINE w == b.c
  <2> HIDE DEF w
  <2>1. w \in Seq(Cells) /\ 1 \in 1 .. Len(w) + 1 /\ off \in 1 - 1 .. Len(w) /\ off - 1 + 1 = off
    BY <1>0 DEF w
  <2>2. /\ SubSeq(w, 1, off) \in Seq(Cells) /\ Len(SubSeq(w, 1, off)) = off - 1 + 1
        /\ \A x \in 1 .. off - 1 + 1 : SubSeq(w, 1, off)[x] = w[1 + x - 1]
    BY <2>1, SubSeqFacts
  <2>3. \A x \in 1 .. off : 1 + x - 1 = x
    OBVIOUS
  <2> QED
    BY <2>1, <2>2, <2>3 DEF w
<1>3. /\ right \in Seq(Cells) /\ Len(right) = Len(b.c) - off
      /\ \A x \in 1 .. Len(b.c) - off : right[x] = b.c[off + x]
  <2> DEFINE w == b.c
             p == off + 1
  <2> HIDE DEF w
  <2>1. w \in Seq(Cells) /\ p \in 1 .. Len(w) + 1 /\ Len(w) \in p - 1 .. Len(w)
    BY <1>0 DEF w
  <2> HIDE DEF p
  <2>2. /\ SubSeq(w, p, Len(w)) \in Seq(Cells) /\ Len(SubSeq(w, p, Len(w))) = Len(w) - p + 1
        /\ \A x \in 1 .. Len(w) - p + 1 : SubSeq(w, p, Len(w))[x] = w[p + x - 1]
    BY <2>1, SubSeqFacts
  <2>3. Len(w) - p + 1 = Len(w) - off /\ \A x \in 1 .. Len(w) - off : p + x - 1 = off + x
    BY <1>0 DEF p, w
  <2> QED
    BY <2>1, <2>2, <2>3 DEF w, p
<1> HIDE DEF left, right
<1>4. Len(right) \in 1 .. Maxblock /\ i + 1 \in 1 .. Len(b.bl) + 1
  BY <1>0, <1>1, <1>3
<1>5. /\ a \in Buffers /\ SameText(a, b) /\ Apart(a)
      /\ Len(a.bl) = Len(b.bl) + 1
      /\ \A j \in 1 .. Len(b.bl) : SameBlock(a, IF j < i + 1 THEN j ELSE j + 1, b, j)
  BY <1>4, AddblockFacts
<1> HIDE DEF a
<1>6. i + 1 \in 1 .. Len(a.bl)
  BY <1>4, <1>5
<1>7. /\ g \in Buffers /\ SameText(g, a) /\ Apart(g)
      /\ Len(g.bl) = Len(a.bl)
      /\ g.bl[i + 1].n = Len(right)
      /\ \A x \in 1 .. Len(right) : g.store[g.bl[i + 1].addr + x] = right[x]
      /\ \A j \in 1 .. Len(a.bl) : j # i + 1 => SameBlock(g, j, a, j)
  BY <1>3, <1>4, <1>5, <1>6, WriteFacts
<1> HIDE DEF g
<1>8. /\ e \in Buffers /\ SameDisk(e, g) /\ e.nc = g.nc /\ e.cdirty = TRUE
      /\ e.c = left /\ e.cq = g.cq /\ e.cbi = g.cbi
  BY <1>2, <1>7 DEF Buffers, SameDisk
<1> HIDE DEF e
<1>9. /\ e.nc = b.nc /\ e.cq = b.cq /\ e.cbi = i /\ Len(e.bl) = Len(b.bl) + 1 /\ e.bl # << >>
  <2>1. e.nc = b.nc /\ e.cq = b.cq /\ e.cbi = i /\ Len(e.bl) = Len(b.bl) + 1
    BY <1>5, <1>7, <1>8 DEF SameDisk, SameText, i
  <2> QED
    BY <2>1, <1>0
<1>10. Apart(e)
  BY <1>7, <1>8, SameDiskFacts
<1>11. /\ st \in [1 .. m + 1 -> Nat] /\ st[m + 1] = Len(t)
       /\ st[i + 1] = st[i] + Len(b.c)
       /\ \A x \in 1 .. Len(b.c) : b.c[x] = t[st[i] + x]
  BY <1>1 DEF Starts, Cache
<1>12. st[i] \in Nat /\ v \in Nat /\ st[i] <= v /\ v <= st[i + 1] /\ i \in 1 .. m + 1 /\ i # m + 1
  <2>1. m \in Nat /\ i \in 1 .. m
    BY <1>0, <1>1
  <2>2. i \in 1 .. m + 1 /\ i # m + 1
    BY ONLY <2>1
  <2>3. st[i] \in Nat /\ st[i + 1] = st[i] + Len(b.c)
    BY <2>2, <1>11
  <2>4. Len(b.c) \in Nat /\ off \in 1 .. Len(b.c) - 1
    BY <1>0
  <2> DEFINE y == st[i]
             z == st[i + 1]
  <2>5. y \in Nat /\ z = y + Len(b.c)
    BY <2>3
  <2> HIDE DEF y, z
  <2>6. y + off \in Nat /\ y <= y + off /\ y + off <= z
    BY ONLY <2>4, <2>5
  <2> QED
    BY <2>2, <2>5, <2>6 DEF y, z
<1>13. Starts(u, m + 1, Len(t))
  <2> HIDE DEF v
  <2> QED
    BY <1>0, <1>1, <1>12, StartsSplit
<1>14. /\ \A j \in 1 .. m + 2 : j <= i => u[j] = st[j]
       /\ u[i + 1] = v
       /\ \A j \in 1 .. m + 2 : ~(j <= i) /\ j # i + 1 => u[j] = st[j - 1]
  BY <1>1
<1> HIDE DEF u
<1>15. ASSUME NEW j \in 1 .. m + 1, j # i PROVE Block(e, j, t, u[j], u[j + 1])
  <2>1. CASE j < i
    <3>1. /\ j \in 1 .. m /\ j \in 1 .. Len(b.bl) /\ j <= i /\ j + 1 <= i /\ j # i + 1 /\ j < i + 1
          /\ j \in 1 .. m + 2 /\ j + 1 \in 1 .. m + 2 /\ j \in 1 .. Len(b.bl) + 1
      <4>1. m <= Len(b.bl) /\ i \in 1 .. m
        BY <1>0, <1>1
      <4> QED
        BY <2>1, <4>1, <1>0
    <3>2. u[j] = st[j] /\ u[j + 1] = st[j + 1]
      BY <3>1, <1>14
    <3>3. SameBlock(a, j, b, j) /\ SameBlock(g, j, a, j)
      BY <3>1, <1>5, <1>7
    <3>4. Block(b, j, t, st[j], st[j + 1])
      BY <3>1, <1>1, <1>15
    <3>5. Block(g, j, t, st[j], st[j + 1])
      BY <3>3, <3>4, BlockFacts
    <3> QED
      BY <3>2, <3>5, <1>8, SameDiskFacts
  <2>2. CASE j = i + 1
    <3>1. j + 1 \in 1 .. m + 2 /\ ~(j + 1 <= i) /\ j + 1 # i + 1 /\ (j + 1) - 1 = i + 1
      BY <2>2, <1>1
    <3>2. u[j] = v /\ u[j + 1] = st[i + 1]
      BY <2>2, <3>1, <1>14
    <3>3. st[i + 1] = v + Len(right)
      BY <1>0, <1>3, <1>11, <1>12
    <3>4. ASSUME NEW x \in 1 .. Len(right) PROVE right[x] = t[v + x]
      <4>1. off + x \in 1 .. Len(b.c) /\ x \in 1 .. Len(b.c) - off /\ st[i] + (off + x) = v + x
        BY <1>0, <1>3, <1>12
      <4> QED
        BY <4>1, <1>3, <1>11
    <3>5. Block(g, j, t, v, st[i + 1])
      BY <2>2, <3>3, <3>4, <1>7 DEF Block
    <3> QED
      BY <3>2, <3>5, <1>8, SameDiskFacts
  <2>3. CASE j > i + 1
    <3> DEFINE l == j - 1
    <3>1. /\ l \in 1 .. m /\ l \in 1 .. Len(b.bl) /\ ~(l < i + 1) /\ j = l + 1 /\ l # i
          /\ ~(j <= i) /\ j # i + 1 /\ ~(j + 1 <= i) /\ j + 1 # i + 1 /\ (j + 1) - 1 = l + 1
          /\ j \in 1 .. m + 2 /\ j + 1 \in 1 .. m + 2 /\ j \in 1 .. Len(b.bl) + 1
      BY <2>3, <1>0, <1>1
    <3>2. u[j + 1] = st[l + 1] /\ u[j] = st[l]
      BY <3>1, <1>14
    <3> HIDE DEF l
    <3>3. SameBlock(a, j, b, l) /\ SameBlock(g, j, a, j)
      BY <3>1, <1>5, <1>7
    <3>4. Block(b, l, t, st[l], st[l + 1])
      BY <3>1, <1>1
    <3>5. Block(g, j, t, st[l], st[l + 1])
      BY <3>3, <3>4, BlockFacts
    <3> QED
      BY <3>2, <3>5, <1>8, SameDiskFacts
  <2> QED
    BY <2>1, <2>2, <2>3, <1>1, <1>15
<1>16. u[i] = st[i] /\ u[i + 1] = st[i] + off
  <2>1. i \in 1 .. m + 2 /\ i <= i
    BY <1>1
  <2> QED
    BY <2>1, <1>14
<1>17. Lies(e, t, u, m + 1, i)
  <2>1. m + 1 \in 0 .. Len(e.bl)
    BY <1>0, <1>1, <1>9
  <2> QED
    BY <2>1, <1>1, <1>9, <1>13, <1>15 DEF Lies
<1>18. Cache(e, t, u[i], u[i + 1])
  <2>1. \A x \in 1 .. off : x \in 1 .. Len(b.c)
    BY <1>0
  <2> QED
    BY <2>1, <1>2, <1>8, <1>11, <1>16 DEF Cache
<1>19. Text(e, t, u, m + 1)
  <2>1. Len(e.c) <= Maxblock /\ i \in 1 .. m + 1
    BY <1>0, <1>1, <1>2, <1>8
  <2> QED
    BY <2>1, <1>1, <1>8, <1>9, <1>16, <1>17, <1>18 DEF Text
<1>20. Grown(e, b, t, m)
  BY <1>8, <1>9, <1>10, <1>19 DEF Grown
<1> QED
  BY <1>2, <1>9, <1>20 DEF e, g, a, i, left, right

LEMMA SameBuffer ==
    ASSUME NEW b \in Buffers, NEW d \in Buffers, SameDisk(d, b), SameText(d, b) PROVE d = b
<1>1. ASSUME NEW x \in Buffers
      PROVE  x = [nc |-> x.nc, cq |-> x.cq, c |-> x.c, cbi |-> x.cbi, cdirty |-> x.cdirty,
                  bl |-> x.bl, free |-> x.free, addr |-> x.addr, store |-> x.store]
  BY DEF Buffers
<1> QED
  BY <1>1, Zenon DEF SameDisk, SameText

LEMMA InsertEdit ==
    ASSUME NEW b \in Buffers, Apart(b), b.bl # << >>, NEW t \in Seq(Runes),
           NEW m \in Nat, NEW st, Text(b, t, st, m), NEW s \in Seq(Runes),
           NEW q0 \in 0 .. Len(t), b.cq <= q0, q0 <= b.cq + Len(b.c),
           Len(b.c) + Len(s) <= Maxblock,
           NEW d \in Buffers, SameDisk(d, b), d.c = Splice(b.c, q0 - b.cq, q0 - b.cq, s),
           d.nc = b.nc + Len(s), d.cdirty = TRUE, d.cq = b.cq, d.cbi = b.cbi
    PROVE  Holds(d, Splice(t, q0, q0, s))
<1>0. /\ Len(t) \in Nat /\ Len(s) \in Nat /\ b.nc \in Nat /\ b.c \in Seq(Cells) /\ Len(b.c) \in Nat
  <2>1. b.nc \in Nat /\ b.c \in Seq(Cells)
    BY DEF Buffers
  <2> QED
    BY <2>1
<1>1. PICK q1 \in q0 .. Len(t) : q1 = q0
  BY <1>0
<1>2. Len(b.c) - (q1 - q0) + Len(s) <= Maxblock /\ q1 <= b.cq + Len(b.c)
  BY <1>0, <1>1
<1> DEFINE e == Edit(b, q0, q1, s)
<1>3. Holds(e, Splice(t, q0, q1, s))
  BY <1>2, EditFacts
<1>4. b.nc - (q1 - q0) + Len(s) = b.nc + Len(s)
  BY <1>0, <1>1
<1>5. /\ e.c = Splice(b.c, q0 - b.cq, q1 - b.cq, s) /\ e.nc = b.nc - (q1 - q0) + Len(s)
      /\ e.cdirty = TRUE /\ e.cq = b.cq /\ e.cbi = b.cbi /\ SameDisk(e, b)
  BY DEF Edit, Buffers, SameDisk
<1> HIDE DEF e
<1>6. e \in Buffers
  BY <1>3 DEF Holds
<1>7. SameDisk(d, e) /\ SameText(d, e)
  BY <1>1, <1>4, <1>5 DEF SameDisk, SameText
<1>8. d = e
  BY <1>6, <1>7, SameBuffer
<1> QED
  BY <1>1, <1>3, <1>8

LEMMA SpliceEnd ==
    ASSUME NEW S, NEW s \in Seq(S), NEW t \in Seq(S), NEW n, n = Len(s)
    PROVE  Splice(s, n, n, t) = s \o t
<1> DEFINE p == Splice(s, n, n, t)
           w == s \o t
<1>1. n \in 0 .. Len(s) /\ Len(s) \in Nat /\ Len(t) \in Nat
  OBVIOUS
<1>2. /\ p \in Seq(S) /\ Len(p) = Len(s) + Len(t)
      /\ \A x \in 1 .. Len(s) + Len(t) :
            p[x] = IF x <= n THEN s[x] ELSE IF x <= n + Len(t) THEN t[x - n] ELSE s[x - Len(t)]
  BY <1>1, SpliceIn
<1>3. /\ w \in Seq(S) /\ Len(w) = Len(s) + Len(t)
      /\ \A x \in 1 .. Len(s) + Len(t) : w[x] = IF x <= Len(s) THEN s[x] ELSE t[x - Len(s)]
  BY JoinFacts
<1> HIDE DEF p, w
<1>4. \A x \in 1 .. Len(s) + Len(t) : p[x] = w[x]
  BY <1>1, <1>2, <1>3
<1>5. p = w
  BY <1>2, <1>3, <1>4, SameQueue
<1> QED
  BY <1>5 DEF p, w

\* A turn of Buffer.insert's loop inserts a part of s.
LEMMA InsertSomeFacts ==
    ASSUME NEW b, NEW t \in Seq(Runes), Holds(b, t), NEW q0 \in 0 .. Len(t), At(b, q0),
           NEW s \in Seq(Runes), s # << >>
    PROVE  LET r == insertSome(b, q0, s)
           IN r[2] \in 1 .. Len(s) /\ Holds(r[1], Splice(t, q0, q0, SubSeq(s, 1, r[2])))
<1> DEFINE off == q0 - b.cq
           fits == Len(b.c) + Len(s) <= Maxblock
           edge == off \in {0, Len(b.c)}
           k == IF fits THEN Len(s) ELSE Min({Len(s), IF edge THEN Maxblock ELSE Maxblock - off})
           some == SubSeq(s, 1, k)
           flushed == IF b.cdirty THEN flush(b) ELSE b
           i == IF flushed.bl = << >> THEN 1 ELSE IF off > 0 THEN b.cbi + 1 ELSE b.cbi
           left == SubSeq(b.c, 1, off)
           right == SubSeq(b.c, off + 1, Len(b.c))
           next == IF fits
                   THEN [IF b.bl = << >> THEN [addblock(b, 1, k) EXCEPT !.cbi = 1] ELSE b
                            EXCEPT !.c = Splice(b.c, off, off, some)]
                   ELSE IF edge
                   THEN [addblock(flushed, i, k) EXCEPT !.c = some, !.cq = q0, !.cbi = i]
                   ELSE [write(addblock(b, b.cbi + 1, Len(right)), b.cbi + 1, right)
                            EXCEPT !.c = left \o some]
           d == [next EXCEPT !.nc = @ + k, !.cdirty = TRUE]
<1>0. Len(t) \in Nat /\ Len(s) \in Nat /\ Len(s) >= 1 /\ Maxblock \in Nat \ {0}
  BY BufferAssumption
<1>1. b \in Buffers /\ Apart(b)
  BY DEF Holds
<1>2. PICK m \in Nat : \E st : Text(b, t, st, m)
  BY DEF Holds
<1>3. PICK st : Text(b, t, st, m)
  BY <1>2
<1>4. /\ b.nc = Len(t) /\ b.c \in Seq(Cells) /\ Len(b.c) \in Nat /\ b.cq \in Nat
      /\ Len(b.c) <= Maxblock /\ b.cbi \in Nat \ {0} /\ b.cdirty \in BOOLEAN
      /\ m \in 0 .. Len(b.bl) /\ Starts(st, m, Len(t))
      /\ Lies(b, t, st, m, b.cbi) /\ Len(b.bl) \in Nat
  BY <1>1, <1>3 DEF Text, Lies, Buffers
<1>5. b.bl # << >> => /\ b.cbi \in 1 .. m /\ b.cq = st[b.cbi]
                      /\ st[b.cbi + 1] = b.cq + Len(b.c)
  BY <1>3 DEF Text, Cache
<1>6. b.bl = << >> => /\ m = 0 /\ b.nc = 0 /\ b.cq = 0 /\ b.c = << >> /\ b.cbi = 1
                      /\ b.cdirty = FALSE
  <2>1. b.bl = << >> => m = 0
    BY <1>4
  <2> QED
    BY <2>1, <1>3, <1>4 DEF Text, Starts
<1>7. off \in 0 .. Len(b.c) /\ b.cq <= q0 /\ q0 <= b.cq + Len(b.c)
      /\ (q0 < b.nc => q0 < b.cq + Len(b.c))
  BY <1>4 DEF At
<1>8. insertSome(b, q0, s) = <<d, k>>
  BY DEF insertSome, SplitAt
<1>9. k \in 1 .. Len(s) /\ (fits => k = Len(s)) /\ (~fits /\ edge => k <= Maxblock)
      /\ (~fits /\ ~edge => k <= Maxblock - off)
  <2>1. \A x, y \in Nat : x >= 1 /\ y >= 1 => Min({x, y}) \in 1 .. x /\ Min({x, y}) <= y
    <3> TAKE x, y \in Nat
    <3> HAVE x >= 1 /\ y >= 1
    <3> DEFINE S == {x, y}
    <3>1. S \in SUBSET Nat /\ S # {}
      OBVIOUS
    <3>2. \E n \in S : \A l \in S : n <= l
      <4> HIDE DEF S
      <4> QED
        BY <3>1, Least
    <3>3. Min(S) \in S /\ \A l \in S : Min(S) <= l
      BY <3>2 DEF Min
    <3> QED
      BY <3>3
  <2>2. CASE fits
    BY <2>2, <1>0
  <2>3. CASE ~fits /\ edge
    <3>1. Maxblock \in Nat /\ Maxblock >= 1
      BY <1>0
    <3>2. k = Min({Len(s), Maxblock})
      BY <2>3
    <3> HIDE DEF k
    <3> QED
      BY <2>1, <2>3, <3>1, <3>2, <1>0
  <2>4. CASE ~fits /\ ~edge
    <3> DEFINE y == Maxblock - off
    <3>1. y \in Nat /\ y >= 1
      <4>1. Len(b.c) \in Nat /\ Len(b.c) <= Maxblock /\ Maxblock \in Nat
        BY <1>0, <1>4
      <4>2. off \in 0 .. Len(b.c)
        BY <1>7
      <4>3. off # Len(b.c)
        BY <2>4
      <4> HIDE DEF off
      <4> QED
        BY <4>1, <4>2, <4>3
    <3>2. k = Min({Len(s), y})
      BY <2>4
    <3> HIDE DEF k, y
    <3>3. k \in 1 .. Len(s) /\ k <= y
      BY <2>1, <3>1, <3>2, <1>0
    <3> QED
      BY <2>4, <3>3 DEF y
  <2> QED
    BY <2>2, <2>3, <2>4
<1> HIDE DEF k
<1>10. some \in Seq(Runes) /\ Len(some) = k /\ some \in Seq(Cells) /\ k \in Nat
  <2>1. 1 \in 1 .. Len(s) + 1 /\ k \in 1 - 1 .. Len(s) /\ k - 1 + 1 = k
    BY <1>0, <1>9
  <2>2. SubSeq(s, 1, k) \in Seq(Runes) /\ Len(SubSeq(s, 1, k)) = k - 1 + 1
    BY <2>1, SubSeqFacts
  <2>3. some \in Seq(Cells)
    BY <2>2 DEF Cells
  <2> QED
    BY <2>1, <2>2, <2>3
<1> HIDE DEF some
<1>11. Splice(<< >>, 0, 0, some) = some
  <2>1. << >> \in Seq(Cells) /\ 0 = Len(<< >>) /\ << >> \o some = some
    BY <1>10
  <2> QED
    BY <2>1, <1>10, SpliceEnd
<1>16. ASSUME b.bl # << >>, off = 0 \/ off = Len(b.c), NEW j,
              j = IF off > 0 THEN b.cbi + 1 ELSE b.cbi
       PROVE  j \in 1 .. m + 1 /\ st[j] = q0
  <2>1. /\ b.cbi \in Nat /\ m \in Nat /\ 1 <= b.cbi /\ b.cbi <= m /\ b.cq \in Nat /\ q0 \in Nat
        /\ Len(b.c) \in Nat
    BY <1>4, <1>5, <1>16
  <2>2. b.cq = st[b.cbi] /\ st[b.cbi + 1] = b.cq + Len(b.c)
    BY <1>5, <1>16
  <2>3. off \in 0 .. Len(b.c)
    BY <1>7
  <2>4. off \in Nat /\ q0 = b.cq + off
    BY <2>1, <2>3
  <2> HIDE DEF off
  <2>5. CASE off = 0
    BY <2>1, <2>2, <2>4, <2>5, <1>16
  <2>6. CASE off # 0
    BY <2>1, <2>2, <2>4, <2>6, <1>16
  <2> QED
    BY <2>5, <2>6
<1> DEFINE w == Splice(t, q0, q0, some)
<1>20. SUFFICES Holds(d, w)
  <2> HIDE DEF d
  <2>1. insertSome(b, q0, s)[1] = d /\ insertSome(b, q0, s)[2] = k
    BY <1>8
  <2> QED
    BY <2>1, <1>9 DEF some
<1>12. CASE fits /\ b.bl # << >>
  <2>1. d = [[b EXCEPT !.c = Splice(b.c, off, off, some)] EXCEPT !.nc = @ + k, !.cdirty = TRUE]
    BY <1>12
  <2>2. Splice(b.c, off, off, some) \in Seq(Cells)
    BY <1>4, <1>7, <1>10, SpliceIn
  <2> DEFINE c == Splice(b.c, off, off, some)
  <2>3. c = Splice(b.c, q0 - b.cq, q0 - b.cq, some) /\ c \in Seq(Cells)
    BY <2>2
  <2> HIDE DEF d, c
  <2>4. /\ d \in Buffers /\ SameDisk(d, b) /\ d.c = c /\ d.nc = b.nc + Len(some)
        /\ d.cdirty = TRUE /\ d.cq = b.cq /\ d.cbi = b.cbi
    <3>1. b.nc + k \in Nat
      BY <1>0, <1>4, <1>10
    <3>2. d = [[b EXCEPT !.c = c] EXCEPT !.nc = @ + k, !.cdirty = TRUE]
      BY <2>1 DEF c
    <3> QED
      BY <2>3, <3>1, <3>2, <1>1, <1>10 DEF Buffers, SameDisk
  <2>5. Len(b.c) + Len(some) <= Maxblock
    BY <1>9, <1>10, <1>12
  <2>6. Holds(d, w)
    BY <2>3, <2>4, <2>5, <1>1, <1>3, <1>7, <1>10, <1>12, InsertEdit
  <2> QED
    BY <2>6
<1>13. CASE fits /\ b.bl = << >>
  <2> DEFINE a == addblock(b, 1, k)
             e == Opened(b, 1, k, q0)
  <2>1. d = [[[a EXCEPT !.cbi = 1] EXCEPT !.c = Splice(b.c, off, off, some)]
                EXCEPT !.nc = @ + k, !.cdirty = TRUE]
    BY <1>13
  <2>2. q0 = 0 /\ off = 0 /\ b.c = << >> /\ b.cq = 0 /\ m = 0 /\ b.nc = 0
    BY <1>4, <1>6, <1>13
  <2>3. Lies(b, t, st, m, 0) /\ 1 \in 1 .. m + 1 /\ k \in 1 .. Maxblock /\ q0 = st[1]
    BY <2>2, <1>0, <1>4, <1>9, <1>13 DEF Lies, Starts
  <2>4. /\ e \in Buffers /\ Apart(e) /\ e.bl # << >> /\ e.nc = b.nc
        /\ \E u : Text(e, t, u, m + 1)
    <3>1. Grown(Opened(b, 1, k, q0), b, t, m)
      BY <2>3, <1>1, EmptyFacts
    <3> HIDE DEF e
    <3>2. e = Opened(b, 1, k, q0)
      BY DEF e
    <3> QED
      BY <3>1, <3>2 DEF Grown
  <2>5. PICK u : Text(e, t, u, m + 1)
    BY <2>4
  <2>6. a \in Buffers /\ SameText(a, b)
    <3>1. 1 \in 1 .. Len(b.bl) + 1
      BY <1>4
    <3> QED
      BY <2>3, <3>1, <1>1, AddblockFacts
  <2> HIDE DEF a, d
  <2>7. /\ e.c = << >> /\ e.cq = q0 /\ e.cbi = 1 /\ SameDisk(e, a)
    <3>1. e = [a EXCEPT !.c = << >>, !.cq = q0, !.cbi = 1, !.cdirty = TRUE]
      BY DEF e, a, Opened
    <3> HIDE DEF e
    <3> QED
      BY <2>6, <3>1 DEF Buffers, SameDisk
  <2>8. d = [[[a EXCEPT !.cbi = 1] EXCEPT !.c = some] EXCEPT !.nc = @ + k, !.cdirty = TRUE]
    BY <2>1, <2>2, <1>11
  <2>9. a.nc = b.nc /\ a.cq = q0
    BY <2>2, <2>6 DEF SameText
  <2>10. /\ d \in Buffers /\ SameDisk(d, a) /\ d.c = some /\ d.nc = a.nc + k
         /\ d.cdirty = TRUE /\ d.cq = a.cq /\ d.cbi = 1
    <3>1. a.nc + k \in Nat /\ some \in Seq(Cells)
      BY <2>6, <1>10 DEF Buffers
    <3> DEFINE f == [a EXCEPT !.cbi = 1]
               g == [f EXCEPT !.c = some]
    <3>2. d = [g EXCEPT !.nc = @ + k, !.cdirty = TRUE]
      BY <2>8
    <3> HIDE DEF e, w, off
    <3>3. f \in Buffers /\ SameDisk(f, a) /\ f.nc = a.nc /\ f.cq = a.cq /\ f.cbi = 1
      <4> DEFINE v == 1
      <4>1. v \in Nat \ {0}
        OBVIOUS
      <4>2. f = [a EXCEPT !.cbi = v]
        OBVIOUS
      <4>3. a \in Buffers
        BY <2>6
      <4> HIDE DEF f, v
      <4>4. f \in Buffers /\ SameDisk(f, a) /\ f.nc = a.nc /\ f.cq = a.cq /\ f.cbi = v
        BY <4>1, <4>2, <4>3 DEF Buffers, SameDisk
      <4> QED
        BY <4>4 DEF v
    <3> HIDE DEF f
    <3>4. g \in Buffers /\ SameDisk(g, f) /\ g.nc = f.nc /\ g.cq = f.cq /\ g.cbi = f.cbi /\ g.c = some
      BY <3>1, <3>3 DEF Buffers, SameDisk
    <3> HIDE DEF g
    <3>5. /\ d \in Buffers /\ SameDisk(d, g) /\ d.nc = g.nc + k /\ d.cq = g.cq /\ d.cbi = g.cbi
          /\ d.c = g.c /\ d.cdirty = TRUE
      <4>1. g.nc + k \in Nat
        BY <3>1, <3>3, <3>4
      <4> QED
        BY <4>1, <3>2, <3>4 DEF Buffers, SameDisk
    <3> QED
      BY <3>3, <3>4, <3>5 DEF SameDisk
  <2> HIDE DEF e
  <2>11. /\ SameDisk(d, e) /\ d.c = Splice(e.c, q0 - e.cq, q0 - e.cq, some)
         /\ d.nc = e.nc + Len(some) /\ d.cq = e.cq /\ d.cbi = e.cbi
    BY <2>2, <2>4, <2>7, <2>9, <2>10, <1>10, <1>11 DEF SameDisk
  <2>12. e.cq <= q0 /\ q0 <= e.cq + Len(e.c) /\ Len(e.c) + Len(some) <= Maxblock
    BY <2>2, <2>3, <2>7, <1>0, <1>10
  <2>13. m + 1 \in Nat
    BY <1>4
  <2>14. Holds(d, w)
    BY <2>4, <2>5, <2>10, <2>11, <2>12, <2>13, <1>10, InsertEdit
  <2> QED
    BY <2>14
<1>14. CASE ~fits /\ edge
  <2> DEFINE a == addblock(flushed, i, k)
             e == Opened(flushed, i, k, q0)
  <2>1. d = [[a EXCEPT !.c = some, !.cq = q0, !.cbi = i] EXCEPT !.nc = @ + k, !.cdirty = TRUE]
    BY <1>14
  <2>2. /\ flushed \in Buffers /\ Apart(flushed) /\ flushed.nc = b.nc
        /\ \E n \in Nat : \E u : Lies(flushed, t, u, n, 0) /\ i \in 1 .. n + 1 /\ u[i] = q0
    <3>1. CASE b.cdirty
      <4>1. b.bl # << >> /\ flushed = flush(b)
        BY <3>1, <1>6
      <4>2. /\ flushed \in Buffers /\ Apart(flushed)
            /\ flushed.nc = b.nc /\ flushed.cq = b.cq /\ flushed.cbi = b.cbi /\ flushed.c = b.c
            /\ b.c = << >> => /\ Len(flushed.bl) = Len(b.bl) - 1
                              /\ \E u : Flushed(flushed, t, u, m - 1)
            /\ b.c # << >> => Len(flushed.bl) = Len(b.bl) /\ Flushed(flushed, t, st, m)
        BY <3>1, <4>1, <1>1, <1>3, FlushFacts
      <4> HIDE DEF flushed
      <4>3. CASE b.c = << >>
        <5>1. PICK u : Flushed(flushed, t, u, m - 1)
          BY <4>2, <4>3
        <5>2. off = 0 /\ m - 1 \in Nat /\ q0 = b.cq
          <6>1. b.cq \in Nat /\ Len(b.c) = 0 /\ b.cbi \in 1 .. m /\ off \in 0 .. Len(b.c)
            BY <4>1, <4>3, <1>4, <1>5, <1>7
          <6>2. b.cq \in Nat /\ q0 \in Nat /\ q0 - b.cq \in 0 .. 0
            BY <6>1
          <6>3. m - 1 \in Nat
            BY <6>1
          <6> QED
            BY <6>2, <6>3
        <5>3. /\ Lies(flushed, t, u, m - 1, 0) /\ b.cbi \in 1 .. (m - 1) + 1 /\ u[b.cbi] = q0
              /\ m - 1 <= Len(flushed.bl)
          <6>1. Lies(flushed, t, u, m - 1, 0) /\ u[b.cbi] = b.cq
            BY <4>2, <5>1 DEF Flushed
          <6>2. m - 1 \in 0 .. Len(flushed.bl)
            BY <6>1 DEF Lies
          <6>3. b.cbi \in 1 .. (m - 1) + 1
            BY <4>1, <1>5
          <6>4. Len(flushed.bl) \in Nat
            BY <4>2 DEF Buffers
          <6> QED
            BY <6>1, <6>2, <6>3, <6>4, <5>2
        <5>4. flushed.bl = << >> => b.cbi = 1
          BY <5>2, <5>3
        <5>5. i = b.cbi
          BY <5>2, <5>4
        <5> QED
          BY <4>2, <5>2, <5>3, <5>5
      <4>4. CASE b.c # << >>
        <5>1. Lies(flushed, t, st, m, 0) /\ flushed.bl # << >>
          BY <4>1, <4>2, <4>4, <1>4 DEF Flushed
        <5>2. i = IF off > 0 THEN b.cbi + 1 ELSE b.cbi
          BY <5>1
        <5>3. off = 0 \/ off = Len(b.c)
          BY <1>14
        <5>4. i \in 1 .. m + 1 /\ st[i] = q0
          BY <4>1, <5>2, <5>3, <1>16
        <5> QED
          BY <4>2, <5>1, <5>4, <1>4
      <4> QED
        BY <4>3, <4>4
    <3>2. CASE ~b.cdirty
      <4>1. flushed = b
        BY <3>2
      <4>2. CASE b.nc = 0
        <5>1. b.c = << >> /\ b.cbi = 1
          BY <3>2, <4>2, <1>3 DEF Text
        <5>2. off = 0 /\ q0 = 0
          BY <4>2, <5>1, <1>4, <1>7
        <5>3. i = 1
          BY <4>1, <5>1, <5>2
        <5> DEFINE u == [j \in 1 .. 0 + 1 |-> 0]
        <5>4. Starts(u, 0, 0)
          BY DEF Starts
        <5> HIDE DEF u
        <5>5. Len(t) = 0 /\ 0 \in 0 .. Len(b.bl) /\ 1 .. 0 = {}
          BY <4>2, <1>4
        <5>6. Lies(b, t, u, 0, 0)
          BY <5>4, <5>5, <1>4 DEF Lies
        <5>7. i \in 1 .. 0 + 1 /\ u[i] = q0 /\ 0 \in Nat
          BY <5>2, <5>3, <5>4 DEF Starts
        <5> HIDE DEF i
        <5> QED
          BY <4>1, <5>6, <5>7, <1>1
      <4>3. CASE b.nc # 0
        <5>0. b.bl # << >>
          BY <4>3, <1>6
        <5>1. Block(b, b.cbi, t, st[b.cbi], st[b.cbi + 1])
          BY <3>2, <4>3, <1>3 DEF Text
        <5>2. Lies(b, t, st, m, 0)
          BY <5>1, <1>4 DEF Lies
        <5>3. i = IF off > 0 THEN b.cbi + 1 ELSE b.cbi
          BY <4>1, <5>0
        <5>4. off = 0 \/ off = Len(b.c)
          BY <1>14
        <5>5. i \in 1 .. m + 1 /\ st[i] = q0
          BY <5>0, <5>3, <5>4, <1>16
        <5> HIDE DEF i
        <5> QED
          BY <4>1, <5>2, <5>5, <1>1
      <4> QED
        BY <4>2, <4>3
    <3> QED
      BY <3>1, <3>2, <1>4
  <2> HIDE DEF flushed, i
  <2>3. PICK n \in Nat : \E u : Lies(flushed, t, u, n, 0) /\ i \in 1 .. n + 1 /\ u[i] = q0
    BY <2>2
  <2>4. PICK u : Lies(flushed, t, u, n, 0) /\ i \in 1 .. n + 1 /\ u[i] = q0
    BY <2>3
  <2>5. k \in 1 .. Maxblock
    BY <1>0, <1>9, <1>14
  <2>6. /\ e \in Buffers /\ Apart(e) /\ e.bl # << >> /\ e.nc = flushed.nc
        /\ \E v : Text(e, t, v, n + 1)
    <3>1. Grown(Opened(flushed, i, k, q0), flushed, t, n)
      BY <2>2, <2>4, <2>5, EmptyFacts
    <3> HIDE DEF e
    <3>2. e = Opened(flushed, i, k, q0)
      BY DEF e
    <3> QED
      BY <3>1, <3>2 DEF Grown
  <2>7. PICK v : Text(e, t, v, n + 1)
    BY <2>6
  <2>8. a \in Buffers /\ SameText(a, flushed)
    <3>1. i \in 1 .. Len(flushed.bl) + 1
      <4>1. n <= Len(flushed.bl) /\ Len(flushed.bl) \in Nat
        BY <2>2, <2>4 DEF Lies, Buffers
      <4> QED
        BY <2>4, <4>1
    <3> QED
      BY <2>2, <2>5, <3>1, AddblockFacts
  <2> HIDE DEF a, d
  <2>9. i \in Nat \ {0} /\ a = addblock(flushed, i, k)
    BY <2>4 DEF a
  <2>10. /\ e.c = << >> /\ e.cq = q0 /\ e.cbi = i /\ SameDisk(e, a)
    <3>1. e = [a EXCEPT !.c = << >>, !.cq = q0, !.cbi = i, !.cdirty = TRUE]
      BY DEF e, a, Opened
    <3> HIDE DEF e
    <3> QED
      BY <2>8, <3>1 DEF Buffers, SameDisk
  <2>11. /\ d \in Buffers /\ SameDisk(d, a) /\ d.c = some /\ d.nc = a.nc + k
         /\ d.cdirty = TRUE /\ d.cq = q0 /\ d.cbi = i
    <3>1. a.nc + k \in Nat /\ q0 \in Nat
      BY <2>8, <1>10 DEF Buffers
    <3> QED
      BY <2>1, <2>8, <2>9, <3>1, <1>10 DEF Buffers, SameDisk
  <2> HIDE DEF e
  <2>12. q0 - e.cq = 0 /\ e.c = << >>
    BY <2>10
  <2>13. /\ SameDisk(d, e) /\ d.c = Splice(e.c, q0 - e.cq, q0 - e.cq, some)
         /\ d.nc = e.nc + Len(some) /\ d.cq = e.cq /\ d.cbi = e.cbi
    BY <2>6, <2>8, <2>10, <2>11, <2>12, <1>10, <1>11 DEF SameDisk, SameText
  <2>14. e.cq <= q0 /\ q0 <= e.cq + Len(e.c) /\ Len(e.c) + Len(some) <= Maxblock
    BY <2>5, <2>10, <1>0, <1>10
  <2>15. n + 1 \in Nat
    OBVIOUS
  <2>16. Holds(d, w)
    BY <2>6, <2>7, <2>11, <2>13, <2>14, <2>15, <1>10, InsertEdit
  <2> QED
    BY <2>16
<1>15. CASE ~fits /\ ~edge
  <2> DEFINE g == write(addblock(b, b.cbi + 1, Len(right)), b.cbi + 1, right)
             e == [g EXCEPT !.c = left, !.cdirty = TRUE]
  <2>1. d = [[g EXCEPT !.c = left \o some] EXCEPT !.nc = @ + k, !.cdirty = TRUE]
    BY <1>15
  <2>2. off \in 1 .. Len(b.c) - 1 /\ b.bl # << >>
    <3>1. off # 0 /\ off # Len(b.c)
      BY <1>15
    <3>2. off \in 1 .. Len(b.c) - 1
      BY <3>1, <1>4, <1>7
    <3>3. b.c # << >>
      BY <3>1, <1>4, <1>7
    <3> QED
      BY <3>2, <3>3, <1>6
  <2>3. /\ e \in Buffers /\ Apart(e) /\ e.bl # << >> /\ e.nc = b.nc
        /\ e.cq = b.cq /\ e.cbi = b.cbi /\ Len(left) = off
        /\ \E u : Text(e, t, u, m + 1)
    <3> HIDE DEF off
    <3>1. Grown(e, b, t, m) /\ e.cq = b.cq /\ e.cbi = b.cbi /\ Len(left) = off
      BY <2>2, <1>1, <1>3, SplitFacts
    <3> HIDE DEF e, left
    <3> QED
      BY <3>1 DEF Grown
  <2>4. PICK u : Text(e, t, u, m + 1)
    BY <2>3
  <2>5. left \in Seq(Cells)
    BY <2>2, <1>4
  <2>6. Splice(left, off, off, some) = left \o some
    BY <2>3, <2>5, <1>10, SpliceEnd
  <2>7. left \o some \in Seq(Cells)
    BY <2>5, <1>10
  <2> HIDE DEF left, right
  <2>8. g \in Buffers
    <3>1. Len(b.bl) \in Nat /\ b.cbi + 1 \in 1 .. Len(b.bl) + 1 /\ Len(right) \in 1 .. Maxblock
          /\ right \in Seq(Cells)
      <4>1. right \in Seq(Cells) /\ Len(right) = Len(b.c) - off
        <5> DEFINE w1 == b.c
                   p == off + 1
        <5> HIDE DEF off
        <5>0. b.c \in Seq(Cells) /\ Len(b.c) \in Nat /\ off \in 1 .. Len(b.c) - 1
          BY <2>2, <1>4
        <5> HIDE DEF w1
        <5>1. w1 \in Seq(Cells) /\ p \in 1 .. Len(w1) + 1 /\ Len(w1) \in p - 1 .. Len(w1)
          BY <5>0 DEF w1
        <5>2. Len(w1) - p + 1 = Len(w1) - off
          BY <5>0 DEF w1
        <5> HIDE DEF p
        <5>3. SubSeq(w1, p, Len(w1)) \in Seq(Cells) /\ Len(SubSeq(w1, p, Len(w1))) = Len(w1) - p + 1
          BY <5>1, SubSeqFacts
        <5> QED
          BY <5>2, <5>3 DEF right, w1, p
      <4>2. /\ Len(b.c) \in Nat /\ Len(b.c) <= Maxblock /\ Maxblock \in Nat /\ Len(b.bl) \in Nat
            /\ b.cbi \in Nat /\ b.cbi >= 1 /\ m \in Nat /\ m <= Len(b.bl)
        BY <1>0, <1>4
      <4>3. b.cbi <= m
        BY <2>2, <1>5
      <4>4. off \in 1 .. Len(b.c) - 1
        BY <2>2
      <4> HIDE DEF off
      <4>5. Len(right) \in 1 .. Maxblock
        BY <4>1, <4>2, <4>4
      <4>6. b.cbi + 1 \in 1 .. Len(b.bl) + 1
        BY <4>2, <4>3
      <4> QED
        BY <4>1, <4>2, <4>5, <4>6
    <3> DEFINE a == addblock(b, b.cbi + 1, Len(right))
    <3>2. a \in Buffers /\ Apart(a) /\ Len(a.bl) = Len(b.bl) + 1
      BY <3>1, <1>1, AddblockFacts
    <3> HIDE DEF a
    <3>3. b.cbi + 1 \in 1 .. Len(a.bl)
      BY <3>1, <3>2
    <3>4. write(a, b.cbi + 1, right) \in Buffers
      BY <3>1, <3>2, <3>3, WriteFacts
    <3> QED
      BY <3>4 DEF a
  <2> HIDE DEF g, d
  <2>9. /\ e.c = left /\ SameDisk(e, g) /\ e.nc = g.nc /\ e.cq = g.cq /\ e.cbi = g.cbi
    BY <2>8 DEF Buffers, SameDisk
  <2> DEFINE c == left \o some
  <2>10. d = [[g EXCEPT !.c = c] EXCEPT !.nc = @ + k, !.cdirty = TRUE] /\ c \in Seq(Cells)
    BY <2>1, <2>7
  <2> HIDE DEF c
  <2>11. /\ d \in Buffers /\ SameDisk(d, g) /\ d.c = c /\ d.nc = g.nc + k
         /\ d.cdirty = TRUE /\ d.cq = g.cq /\ d.cbi = g.cbi
    <3>1. g.nc + k \in Nat
      BY <2>8, <1>10 DEF Buffers
    <3> QED
      BY <2>8, <2>10, <3>1 DEF Buffers, SameDisk
  <2> HIDE DEF e
  <2>12. /\ SameDisk(d, e) /\ d.c = Splice(e.c, q0 - e.cq, q0 - e.cq, some)
         /\ d.nc = e.nc + Len(some) /\ d.cq = e.cq /\ d.cbi = e.cbi
    <3>1. SameDisk(d, e) /\ d.nc = e.nc + Len(some) /\ d.cq = e.cq /\ d.cbi = e.cbi
      BY <2>9, <2>11, <1>10 DEF SameDisk
    <3>2. q0 - e.cq = off
      BY <2>3
    <3> HIDE DEF off
    <3> QED
      BY <2>6, <2>9, <2>11, <3>1, <3>2 DEF c
  <2>13. e.cq <= q0 /\ q0 <= e.cq + Len(e.c) /\ Len(e.c) + Len(some) <= Maxblock
    <3>1. Len(e.c) = off /\ e.cq = b.cq
      BY <2>3, <2>9
    <3>2. k <= Maxblock - off
      BY <1>9, <1>15
    <3>3. /\ off \in 0 .. Len(b.c) /\ b.cq <= q0 /\ Maxblock \in Nat /\ b.cq \in Nat /\ q0 \in Nat
          /\ k \in Nat /\ Len(some) = k /\ Len(b.c) \in Nat
      BY <1>0, <1>4, <1>7, <1>10
    <3>4. q0 = b.cq + off
      BY <3>3
    <3> HIDE DEF off, e
    <3> QED
      BY <3>1, <3>2, <3>3, <3>4
  <2>14. m + 1 \in Nat
    BY <1>4
  <2>15. Holds(d, w)
    BY <2>3, <2>4, <2>11, <2>12, <2>13, <2>14, <1>10, InsertEdit
  <2> QED
    BY <2>15
<1> QED
  BY <1>12, <1>13, <1>14, <1>15

LEMMA MinFacts ==
    ASSUME NEW x \in Nat, NEW y \in Nat
    PROVE  Min({x, y}) \in Nat /\ Min({x, y}) \in {x, y} /\ Min({x, y}) <= x /\ Min({x, y}) <= y
<1> DEFINE S == {x, y}
<1>1. S \in SUBSET Nat /\ S # {}
  OBVIOUS
<1>2. \E n \in S : \A l \in S : n <= l
  <2> HIDE DEF S
  <2> QED
    BY <1>1, Least
<1>3. Min(S) \in S /\ \A l \in S : Min(S) <= l
  BY <1>2 DEF Min
<1> QED
  BY <1>3

\* What deleteSome and readSome take from the cached block.
LEMMA SomeFacts ==
    ASSUME NEW b, NEW t \in Seq(Runes), Holds(b, t),
           NEW q0 \in 0 .. Len(t), NEW q1 \in q0 + 1 .. Len(t), At(b, q0)
    PROVE  LET n == Min({Len(b.c) - (q0 - b.cq), q1 - q0})
           IN /\ n \in 1 .. q1 - q0 /\ q0 + n \in q0 .. Len(t) /\ q0 + n <= b.cq + Len(b.c)
              /\ q0 - b.cq + n <= Len(b.c) /\ b.cq \in Nat /\ b.cq <= q0
              /\ b.bl # << >> /\ b.c \in Seq(Cells) /\ Len(b.c) <= Maxblock
              /\ \A x \in 1 .. Len(b.c) : b.c[x] = t[b.cq + x]
<1> DEFINE rest == Len(b.c) - (q0 - b.cq)
           most == q1 - q0
           n == Min({rest, most})
<1>1. b \in Buffers /\ \E m \in Nat : \E st : Text(b, t, st, m)
  BY DEF Holds
<1>2. PICK m \in Nat : \E st : Text(b, t, st, m)
  BY <1>1
<1>3. PICK st : Text(b, t, st, m)
  BY <1>2
<1>4. /\ b.nc = Len(t) /\ b.c \in Seq(Cells) /\ Len(b.c) \in Nat /\ b.cq \in Nat
      /\ Len(b.c) <= Maxblock /\ Len(t) \in Nat
  BY <1>1, <1>3 DEF Text, Lies, Buffers
<1>5. /\ q0 \in Nat /\ q1 \in Nat /\ q0 < q1 /\ q1 <= Len(t)
      /\ b.cq <= q0 /\ q0 < b.cq + Len(b.c)
  BY <1>4 DEF At
<1>6. b.bl # << >>
  <2> SUFFICES ASSUME b.bl = << >> PROVE FALSE
    OBVIOUS
  <2>1. b.cq = 0 /\ Len(b.c) = 0
    BY <1>3 DEF Text
  <2> QED
    BY <2>1, <1>5
<1>7. \A x \in 1 .. Len(b.c) : b.c[x] = t[b.cq + x]
  BY <1>3, <1>6 DEF Text, Cache
<1>8. rest \in Nat /\ rest >= 1 /\ most \in Nat /\ most >= 1
  BY <1>4, <1>5
<1>9. n \in Nat /\ n >= 1 /\ n <= rest /\ n <= most
  <2> HIDE DEF rest, most
  <2>1. n \in Nat /\ n \in {rest, most} /\ n <= rest /\ n <= most
    BY <1>8, MinFacts
  <2> HIDE DEF n
  <2> QED
    BY <2>1, <1>8
<1> HIDE DEF n
<1>10. /\ n \in 1 .. q1 - q0 /\ q0 + n \in q0 .. Len(t) /\ q0 + n <= b.cq + Len(b.c)
       /\ q0 - b.cq + n <= Len(b.c)
  BY <1>4, <1>5, <1>9
<1> QED
  BY <1>4, <1>5, <1>6, <1>7, <1>10 DEF n

\* A turn of Buffer.delete's loop deletes the first part of what is to be deleted.
LEMMA DeleteSomeFacts ==
    ASSUME NEW b, NEW t \in Seq(Runes), Holds(b, t),
           NEW q0 \in 0 .. Len(t), NEW q1 \in q0 + 1 .. Len(t), At(b, q0)
    PROVE  LET r == deleteSome(b, q0, q1)
           IN r[2] \in 1 .. q1 - q0 /\ Holds(r[1], Splice(t, q0, q0 + r[2], << >>))
<1> DEFINE n == Min({Len(b.c) - (q0 - b.cq), q1 - q0})
           q == q0 + n
           e == Edit(b, q0, q, << >>)
           d == [b EXCEPT !.c = Splice(@, q0 - b.cq, q0 - b.cq + n, << >>),
                          !.cdirty = TRUE, !.nc = @ - n]
<1>1. b \in Buffers /\ Apart(b) /\ \E m \in Nat : \E st : Text(b, t, st, m)
  BY DEF Holds
<1>2. PICK m \in Nat : \E st : Text(b, t, st, m)
  BY <1>1
<1>3. PICK st : Text(b, t, st, m)
  BY <1>2
<1>4. deleteSome(b, q0, q1) = <<d, n>>
  BY DEF deleteSome
<1>5. /\ n \in 1 .. q1 - q0 /\ q \in q0 .. Len(t) /\ q <= b.cq + Len(b.c)
      /\ b.cq \in Nat /\ b.cq <= q0 /\ b.bl # << >> /\ b.c \in Seq(Cells) /\ Len(b.c) <= Maxblock
  BY SomeFacts
<1> HIDE DEF n
<1>6. << >> \in Seq(Runes) /\ Len(<< >>) = 0
  OBVIOUS
<1>7. Len(b.c) - (q - q0) + 0 <= Maxblock
  <2>1. /\ n \in Nat /\ Len(b.c) \in Nat /\ Maxblock \in Nat /\ q0 \in Nat /\ Len(b.c) <= Maxblock
    BY <1>5, BufferAssumption
  <2> QED
    BY <2>1
<1>8. Holds(e, Splice(t, q0, q, << >>))
  <2> HIDE DEF q
  <2> QED
    BY <1>1, <1>3, <1>5, <1>6, <1>7, EditFacts
<1>9. d = e
  <2>1. b.nc \in Nat
    BY <1>1 DEF Buffers
  <2>2. q - b.cq = q0 - b.cq + n /\ b.nc - (q - q0) + Len(<< >>) = b.nc - n
    BY <2>1, <1>5, <1>6
  <2> DEFINE c == Splice(b.c, q0 - b.cq, q0 - b.cq + n, << >>)
             nc == b.nc - n
  <2>3. d = [b EXCEPT !.c = c, !.cdirty = TRUE, !.nc = nc]
    OBVIOUS
  <2>4. e = [b EXCEPT !.c = c, !.nc = nc, !.cdirty = TRUE]
    BY <2>2 DEF Edit
  <2> HIDE DEF c, nc, d, e
  <2> QED
    BY <2>3, <2>4, <1>1 DEF Buffers
<1> HIDE DEF d, e
<1>10. deleteSome(b, q0, q1)[1] = d /\ deleteSome(b, q0, q1)[2] = n
  BY <1>4
<1> QED
  BY <1>5, <1>8, <1>9, <1>10

\* A turn of Buffer.read's loop reads the first part of what is to be read.
LEMMA ReadSomeFacts ==
    ASSUME NEW b, NEW t \in Seq(Runes), Holds(b, t),
           NEW q0 \in 0 .. Len(t), NEW q1 \in q0 + 1 .. Len(t), At(b, q0)
    PROVE  \E n \in 1 .. q1 - q0 : readSome(b, q0, q1) = SubSeq(t, q0 + 1, q0 + n)
<1> DEFINE n == Min({Len(b.c) - (q0 - b.cq), q1 - q0})
           off == q0 - b.cq
           r == SubSeq(b.c, off + 1, off + n)
           w == SubSeq(t, q0 + 1, q0 + n)
<1>1. readSome(b, q0, q1) = r
  BY DEF readSome
<1>2. /\ n \in 1 .. q1 - q0 /\ q0 + n \in q0 .. Len(t) /\ q0 + n <= b.cq + Len(b.c)
      /\ off + n <= Len(b.c) /\ b.cq \in Nat /\ b.cq <= q0
      /\ b.c \in Seq(Cells)
      /\ \A x \in 1 .. Len(b.c) : b.c[x] = t[b.cq + x]
  BY SomeFacts
<1> HIDE DEF n
<1>3. Len(t) \in Nat /\ Len(b.c) \in Nat /\ q0 \in Nat /\ n \in Nat /\ off \in Nat
      /\ q0 = b.cq + off /\ q0 + n <= Len(t) /\ off + n <= Len(b.c) /\ t \in Seq(Cells)
  <2>1. Len(t) \in Nat /\ Len(b.c) \in Nat /\ q0 \in Nat /\ n \in Nat /\ b.cq \in Nat /\ b.cq <= q0
        /\ q0 + n <= Len(t)
    BY <1>2
  <2>2. off \in Nat /\ q0 = b.cq + off
    BY <2>1
  <2>3. t \in Seq(Cells)
    BY DEF Cells
  <2> QED
    BY <2>1, <2>2, <2>3, <1>2
<1> HIDE DEF off
<1>4. r \in Seq(Cells) /\ Len(r) = n /\ \A x \in 1 .. n : r[x] = b.c[off + x]
  <2> DEFINE p == off + 1
             q == off + n
             c == b.c
  <2>1. p \in 1 .. Len(c) + 1 /\ q \in p - 1 .. Len(c) /\ q - p + 1 = n
        /\ (\A x \in 1 .. n : p + x - 1 = off + x)
    BY <1>3
  <2>2. c \in Seq(Cells)
    BY <1>2
  <2> HIDE DEF p, q, c
  <2>3. SubSeq(c, p, q) \in Seq(Cells) /\ Len(SubSeq(c, p, q)) = q - p + 1
        /\ \A x \in 1 .. q - p + 1 : SubSeq(c, p, q)[x] = c[p + x - 1]
    BY <2>1, <2>2, SubSeqFacts
  <2> QED
    BY <2>1, <2>3 DEF p, q, c
<1>5. w \in Seq(Cells) /\ Len(w) = n /\ \A x \in 1 .. n : w[x] = t[q0 + x]
  <2> DEFINE p == q0 + 1
             q == q0 + n
  <2>1. p \in 1 .. Len(t) + 1 /\ q \in p - 1 .. Len(t) /\ q - p + 1 = n
        /\ (\A x \in 1 .. n : p + x - 1 = q0 + x)
    <3>1. Len(t) \in Nat /\ q0 \in Nat /\ n \in Nat /\ q0 + n <= Len(t)
      BY <1>3
    <3>2. \A x \in 1 .. n : p + x - 1 = q0 + x
      BY <3>1
    <3>3. p \in 1 .. Len(t) + 1 /\ q \in p - 1 .. Len(t) /\ q - p + 1 = n
      BY <3>1
    <3> QED
      BY <3>2, <3>3
  <2> HIDE DEF p, q
  <2>3. SubSeq(t, p, q) \in Seq(Cells) /\ Len(SubSeq(t, p, q)) = q - p + 1
        /\ \A x \in 1 .. q - p + 1 : SubSeq(t, p, q)[x] = t[p + x - 1]
    BY <2>1, <1>3, SubSeqFacts
  <2> QED
    BY <2>1, <2>3 DEF p, q
<1> HIDE DEF r, w
<1>6. \A x \in 1 .. n : r[x] = w[x]
  <2> TAKE x \in 1 .. n
  <2>1. off + x \in 1 .. Len(b.c) /\ b.cq + (off + x) = q0 + x
    <3>1. /\ Len(b.c) \in Nat /\ n \in Nat /\ off \in Nat /\ off + n <= Len(b.c)
          /\ b.cq \in Nat /\ q0 = b.cq + off
      BY <1>2, <1>3
    <3> QED
      BY <3>1
  <2>2. b.c[off + x] = t[b.cq + (off + x)]
    BY <2>1, <1>2
  <2> QED
    BY <2>1, <2>2, <1>4, <1>5
<1>7. r = w
  BY <1>4, <1>5, <1>6, SameQueue
<1> QED
  BY <1>1, <1>2, <1>7 DEF w

LEMMA PartFacts ==
    ASSUME NEW S, NEW s \in Seq(S), NEW m \in 0 .. Len(s), NEW n \in m .. Len(s)
    PROVE  /\ SubSeq(s, m + 1, n) \in Seq(S) /\ Len(SubSeq(s, m + 1, n)) = n - m
           /\ \A x \in 1 .. n - m : SubSeq(s, m + 1, n)[x] = s[m + x]
<1> DEFINE p == m + 1
<1>1. Len(s) \in Nat /\ m \in Nat /\ n \in Nat /\ m <= n /\ n <= Len(s)
  <2>1. Len(s) \in Nat
    OBVIOUS
  <2> QED
    BY <2>1
<1>2. p \in 1 .. Len(s) + 1 /\ n \in p - 1 .. Len(s) /\ n - p + 1 = n - m
  BY <1>1
<1>3. \A x \in 1 .. n - m : p + x - 1 = m + x
  BY <1>1
<1> HIDE DEF p
<1>4. SubSeq(s, p, n) \in Seq(S) /\ Len(SubSeq(s, p, n)) = n - p + 1
      /\ \A x \in 1 .. n - p + 1 : SubSeq(s, p, n)[x] = s[p + x - 1]
  BY <1>2, SubSeqFacts
<1> QED
  BY <1>2, <1>3, <1>4 DEF p

LEMMA FirstFacts ==
    ASSUME NEW S, NEW s \in Seq(S), NEW n \in 0 .. Len(s)
    PROVE  /\ SubSeq(s, 1, n) \in Seq(S) /\ Len(SubSeq(s, 1, n)) = n
           /\ \A x \in 1 .. n : SubSeq(s, 1, n)[x] = s[x]
<1>1. Len(s) \in Nat
  OBVIOUS
<1>2. 1 \in 1 .. Len(s) + 1 /\ n \in 1 - 1 .. Len(s) /\ n - 1 + 1 = n
      /\ \A x \in 1 .. n : 1 + x - 1 = x
  BY <1>1
<1>3. SubSeq(s, 1, n) \in Seq(S) /\ Len(SubSeq(s, 1, n)) = n - 1 + 1
      /\ \A x \in 1 .. n - 1 + 1 : SubSeq(s, 1, n)[x] = s[1 + x - 1]
  BY <1>2, SubSeqFacts
<1> QED
  BY <1>2, <1>3

LEMMA SpliceNone ==
    ASSUME NEW S, NEW t \in Seq(S), NEW q \in 0 .. Len(t)
    PROVE  Splice(t, q, q, << >>) = t
<1> DEFINE none == << >>
           w == Splice(t, q, q, none)
<1>1. none \in Seq(S) /\ Len(none) = 0 /\ Len(t) \in Nat
  OBVIOUS
<1> HIDE DEF none
<1>2. /\ w \in Seq(S) /\ Len(w) = Len(t) + Len(none)
      /\ \A x \in 1 .. Len(t) + Len(none) :
            w[x] = IF x <= q THEN t[x] ELSE IF x <= q + Len(none) THEN none[x - q]
                   ELSE t[x - Len(none)]
  <2>1. none \in Seq(S)
    BY <1>1
  <2> QED
    BY <2>1, SpliceIn
<1> HIDE DEF w
<1>3. Len(w) = Len(t) /\ \A x \in 1 .. Len(t) : w[x] = t[x]
  BY <1>1, <1>2
<1>4. w = t
  BY <1>2, <1>3, SameQueue
<1> QED
  BY <1>4 DEF w, none

LEMMA SpliceMore ==
    ASSUME NEW S, NEW t \in Seq(S), NEW s \in Seq(S), NEW q \in 0 .. Len(t),
           NEW n \in 0 .. Len(s), NEW k \in 0 .. Len(s) - n
    PROVE  Splice(Splice(t, q, q, SubSeq(s, 1, n)), q + n, q + n,
                  SubSeq(SubSeq(s, n + 1, Len(s)), 1, k))
           = Splice(t, q, q, SubSeq(s, 1, n + k))
<1> DEFINE first == SubSeq(s, 1, n)
           rest == SubSeq(s, n + 1, Len(s))
           next == SubSeq(rest, 1, k)
           both == SubSeq(s, 1, n + k)
           u == Splice(t, q, q, first)
           v == Splice(u, q + n, q + n, next)
           w == Splice(t, q, q, both)
<1>0. /\ Len(s) \in Nat /\ Len(t) \in Nat /\ n \in Nat /\ k \in Nat /\ q \in Nat
      /\ n + k <= Len(s) /\ q <= Len(t)
  <2>1. Len(s) \in Nat /\ Len(t) \in Nat
    OBVIOUS
  <2> QED
    BY <2>1
<1>1. first \in Seq(S) /\ Len(first) = n /\ \A x \in 1 .. n : first[x] = s[x]
  BY FirstFacts
<1>2. rest \in Seq(S) /\ Len(rest) = Len(s) - n /\ \A x \in 1 .. Len(s) - n : rest[x] = s[n + x]
  <2>1. Len(s) \in n .. Len(s)
    BY <1>0
  <2> QED
    BY <2>1, PartFacts
<1>3. both \in Seq(S) /\ Len(both) = n + k /\ \A x \in 1 .. n + k : both[x] = s[x]
  <2> DEFINE m == n + k
  <2>1. m \in 0 .. Len(s)
    BY <1>0
  <2> HIDE DEF m
  <2>2. SubSeq(s, 1, m) \in Seq(S) /\ Len(SubSeq(s, 1, m)) = m /\ \A x \in 1 .. m : SubSeq(s, 1, m)[x] = s[x]
    BY <2>1, FirstFacts
  <2> QED
    BY <2>2 DEF m
<1> HIDE DEF first, rest, both
<1>4. next \in Seq(S) /\ Len(next) = k /\ \A x \in 1 .. k : next[x] = rest[x]
  <2>1. k \in 0 .. Len(rest)
    BY <1>2
  <2> QED
    BY <2>1, <1>2, FirstFacts
<1> HIDE DEF next
<1>5. /\ u \in Seq(S) /\ Len(u) = Len(t) + n
      /\ \A x \in 1 .. Len(t) + n :
            u[x] = IF x <= q THEN t[x] ELSE IF x <= q + n THEN first[x - q] ELSE t[x - n]
  <2>1. Inserted(S, u, t, q, first)
    BY <1>1, SpliceInIs
  <2> HIDE DEF u
  <2> QED
    BY <2>1, <1>1 DEF Inserted
<1> HIDE DEF u
<1>6. /\ v \in Seq(S) /\ Len(v) = Len(t) + n + k
      /\ \A x \in 1 .. Len(t) + n + k :
            v[x] = IF x <= q + n THEN u[x] ELSE IF x <= q + n + k THEN next[x - (q + n)] ELSE u[x - k]
  <2> DEFINE p == q + n
  <2>1. p \in 0 .. Len(u)
    BY <1>0, <1>5
  <2> HIDE DEF p
  <2>2. Inserted(S, Splice(u, p, p, next), u, p, next)
    BY <2>1, <1>4, <1>5, SpliceInIs
  <2>3. Inserted(S, v, u, p, next)
    BY <2>2 DEF p
  <2> HIDE DEF v
  <2> QED
    BY <2>3, <1>4, <1>5 DEF p, Inserted
<1> HIDE DEF v
<1>7. /\ w \in Seq(S) /\ Len(w) = Len(t) + (n + k)
      /\ \A x \in 1 .. Len(t) + (n + k) :
            w[x] = IF x <= q THEN t[x] ELSE IF x <= q + (n + k) THEN both[x - q] ELSE t[x - (n + k)]
  <2>1. both \in Seq(S)
    BY <1>3
  <2>2. Inserted(S, w, t, q, both)
    BY <2>1, SpliceInIs
  <2>3. Len(both) = n + k
    BY <1>3
  <2> HIDE DEF w
  <2> QED
    BY <2>2, <2>3 DEF Inserted
<1> HIDE DEF w
<1>8. Len(v) = Len(w)
  BY <1>0, <1>6, <1>7
<1>9. ASSUME NEW x \in 1 .. Len(v) PROVE v[x] = w[x]
  <2>1. x \in Nat /\ 1 <= x /\ x <= Len(t) + n + k
    BY <1>0, <1>6
  <2>2. x \in 1 .. Len(t) + n + k /\ x \in 1 .. Len(t) + (n + k)
    BY <2>1, <1>0
  <2>3. CASE x <= q
    <3>1. x \in 1 .. Len(t) + n /\ x <= q + n
      BY <2>1, <2>3, <1>0
    <3> QED
      BY <2>2, <2>3, <3>1, <1>5, <1>6, <1>7
  <2>4. CASE ~(x <= q) /\ x <= q + n
    <3>1. x \in 1 .. Len(t) + n /\ x - q \in 1 .. n /\ x - q \in 1 .. n + k /\ x <= q + (n + k)
      BY <2>1, <2>4, <1>0
    <3> QED
      BY <2>2, <2>4, <3>1, <1>1, <1>3, <1>5, <1>6, <1>7
  <2>5. CASE ~(x <= q + n) /\ x <= q + n + k
    <3>1. /\ x - (q + n) \in 1 .. k /\ x - (q + n) \in 1 .. Len(s) - n
          /\ x - q \in 1 .. n + k /\ x <= q + (n + k) /\ ~(x <= q) /\ n + (x - (q + n)) = x - q
      BY <2>1, <2>5, <1>0
    <3>2. v[x] = s[n + (x - (q + n))]
      BY <2>2, <2>5, <3>1, <1>2, <1>4, <1>6
    <3>3. w[x] = s[x - q]
      BY <2>2, <3>1, <1>3, <1>7
    <3> QED
      BY <3>1, <3>2, <3>3
  <2>6. CASE ~(x <= q + n + k)
    <3>1. /\ x - k \in 1 .. Len(t) + n /\ ~(x - k <= q) /\ ~(x - k <= q + n)
          /\ ~(x <= q + n) /\ ~(x <= q) /\ ~(x <= q + (n + k)) /\ x - k - n = x - (n + k)
      BY <2>1, <2>6, <1>0
    <3>2. v[x] = t[x - k - n]
      BY <2>2, <2>6, <3>1, <1>5, <1>6
    <3>3. w[x] = t[x - (n + k)]
      BY <2>2, <3>1, <1>7
    <3> QED
      BY <3>1, <3>2, <3>3
  <2> QED
    BY <2>3, <2>4, <2>5, <2>6
<1>10. v = w
  BY <1>6, <1>7, <1>8, <1>9, SameQueue
<1> QED
  BY <1>10 DEF v, w, u, next, both, rest, first

\* u is t without the m that followed q.
Removed(S, u, t, q, m) ==
    /\ u \in Seq(S) /\ Len(u) = Len(t) - m
    /\ \A x \in 1 .. Len(t) - m : u[x] = IF x <= q THEN t[x] ELSE t[x + m]

LEMMA SpliceOut ==
    ASSUME NEW S, NEW t \in Seq(S), NEW q \in 0 .. Len(t), NEW p \in q .. Len(t),
           NEW none \in Seq(S), Len(none) = 0, NEW m, m = p - q
    PROVE  Removed(S, Splice(t, q, p, none), t, q, m)
<1> DEFINE w == Splice(t, q, p, none)
<1>1. Spliced(S, w, t, q, p, none)
  BY SpliceIs
<1> HIDE DEF w
<1>2. /\ w \in Seq(S) /\ Len(w) = Len(t) - (p - q) + Len(none)
      /\ \A x \in 1 .. Len(t) - (p - q) + Len(none) :
            w[x] = IF x <= q THEN t[x] ELSE IF x <= q + Len(none) THEN none[x - q]
                   ELSE t[x - Len(none) + (p - q)]
  BY <1>1 DEF Spliced
<1>3. Len(t) \in Nat /\ q \in Nat /\ p \in Nat /\ q <= p /\ m = p - q /\ m \in Nat /\ Len(none) = 0
  OBVIOUS
<1>4. Len(t) - (p - q) + Len(none) = Len(t) - m
  BY ONLY <1>3
<1>5. ASSUME NEW x \in 1 .. Len(t) - m PROVE w[x] = IF x <= q THEN t[x] ELSE t[x + m]
  <2>1. x \in 1 .. Len(t) - (p - q) + Len(none)
    BY <1>4
  <2>2. w[x] = IF x <= q THEN t[x] ELSE IF x <= q + Len(none) THEN none[x - q]
               ELSE t[x - Len(none) + (p - q)]
    BY <2>1, <1>2
  <2>3. x \in Nat
    BY <1>3
  <2>4. x - Len(none) + (p - q) = x + m /\ (x <= q + Len(none) <=> x <= q)
    BY ONLY <2>3, <1>3
  <2> QED
    BY <2>2, <2>4
<1>6. Removed(S, w, t, q, m)
  BY <1>2, <1>4, <1>5 DEF Removed
<1> QED
  BY <1>6 DEF w

\* Where o gets to when what is between q and p has gone.
Comes(r, q, p, o) == r = q + (o - p)

LEMMA SpliceLess ==
    ASSUME NEW S, NEW t \in Seq(S), NEW q \in 0 .. Len(t),
           NEW p \in q .. Len(t), NEW o \in p .. Len(t), NEW r, Comes(r, q, p, o)
    PROVE  Splice(Splice(t, q, p, << >>), q, r, << >>) = Splice(t, q, o, << >>)
<1> DEFINE none == << >>
           n == p - q
           k == o - p
           u == Splice(t, q, p, none)
           v == Splice(u, q, r, none)
           w == Splice(t, q, o, none)
<1>0. Len(t) \in Nat /\ none \in Seq(S) /\ Len(none) = 0
  OBVIOUS
<1>1. /\ n \in Nat /\ k \in Nat /\ q \in Nat /\ q + n + k <= Len(t)
      /\ p \in q .. Len(t) /\ o \in q .. Len(t) /\ p - q = n /\ o - q = n + k /\ r - q = k
      /\ r = q + k
  BY <1>0 DEF Comes
<1> HIDE DEF none, n, k
<1>2. /\ u \in Seq(S) /\ Len(u) = Len(t) - n
      /\ \A x \in 1 .. Len(t) - n : u[x] = IF x <= q THEN t[x] ELSE t[x + n]
  <2>1. Removed(S, u, t, q, n)
    BY <1>0, <1>1, SpliceOut
  <2> HIDE DEF u
  <2> QED
    BY <2>1 DEF Removed
<1> HIDE DEF u
<1>3. r \in q .. Len(u) /\ q \in 0 .. Len(u)
  BY <1>0, <1>1, <1>2
<1>4. /\ v \in Seq(S) /\ Len(v) = Len(u) - k
      /\ \A x \in 1 .. Len(u) - k : v[x] = IF x <= q THEN u[x] ELSE u[x + k]
  <2>1. Removed(S, v, u, q, k)
    BY <1>0, <1>1, <1>2, <1>3, SpliceOut
  <2> HIDE DEF v
  <2> QED
    BY <2>1 DEF Removed
<1> HIDE DEF v
<1>5. /\ w \in Seq(S) /\ Len(w) = Len(t) - (n + k)
      /\ \A x \in 1 .. Len(t) - (n + k) : w[x] = IF x <= q THEN t[x] ELSE t[x + (n + k)]
  <2> DEFINE m == n + k
  <2>1. m = o - q /\ o \in q .. Len(t)
    BY <1>1
  <2> HIDE DEF m
  <2>2. Removed(S, w, t, q, m)
    BY <2>1, <1>0, SpliceOut
  <2> HIDE DEF w
  <2>3. /\ w \in Seq(S) /\ Len(w) = Len(t) - m
        /\ \A x \in 1 .. Len(t) - m : w[x] = IF x <= q THEN t[x] ELSE t[x + m]
    BY <2>2 DEF Removed
  <2> QED
    BY <2>3 DEF m
<1> HIDE DEF w
<1>6. Len(v) = Len(w)
  <2>1. Len(v) = Len(u) - k /\ Len(u) = Len(t) - n /\ Len(w) = Len(t) - (n + k)
    BY <1>2, <1>4, <1>5
  <2>2. Len(t) \in Nat /\ n \in Nat /\ k \in Nat
    BY <1>0, <1>1
  <2> QED
    BY ONLY <2>1, <2>2
<1>7. ASSUME NEW x \in 1 .. Len(v) PROVE v[x] = w[x]
  <2>1. /\ x \in Nat /\ 1 <= x /\ x <= Len(t) - n - k
    BY <1>0, <1>1, <1>2, <1>4
  <2>2. /\ x \in 1 .. Len(u) - k /\ x \in 1 .. Len(t) - (n + k)
        /\ x \in 1 .. Len(t) - n /\ x + k \in 1 .. Len(t) - n
    BY <2>1, <1>0, <1>1, <1>2
  <2>3. CASE x <= q
    BY <2>2, <2>3, <1>2, <1>4, <1>5
  <2>4. CASE ~(x <= q)
    <3>1. ~(x + k <= q) /\ x + k + n = x + (n + k)
      BY <2>1, <2>4, <1>1
    <3>2. v[x] = t[x + k + n]
      BY <2>2, <2>4, <3>1, <1>2, <1>4
    <3> QED
      BY <2>2, <2>4, <3>1, <3>2, <1>5
  <2> QED
    BY <2>3, <2>4
<1>8. v = w
  BY <1>4, <1>5, <1>6, <1>7, SameQueue
<1> QED
  BY <1>8 DEF v, w, u, none

LEMMA SubSeqMore ==
    ASSUME NEW S, NEW t \in Seq(S), NEW q \in 0 .. Len(t),
           NEW n \in 0 .. Len(t) - q, NEW k \in 0 .. Len(t) - q - n
    PROVE  SubSeq(t, q + 1, q + n) \o SubSeq(t, q + n + 1, q + n + k)
           = SubSeq(t, q + 1, q + (n + k))
<1> DEFINE p == q + n
           o == q + n + k
           u == SubSeq(t, q + 1, p)
           v == SubSeq(t, p + 1, o)
           w == SubSeq(t, q + 1, o)
           y == u \o v
<1>0. Len(t) \in Nat
  OBVIOUS
<1>1. /\ n \in Nat /\ k \in Nat /\ q \in Nat /\ q + n + k <= Len(t)
      /\ p \in q .. Len(t) /\ p \in 0 .. Len(t) /\ o \in q .. Len(t) /\ o \in p .. Len(t)
      /\ p - q = n /\ o - q = n + k /\ o - p = k /\ p = q + n /\ q + (n + k) = o
  BY <1>0
<1> HIDE DEF p, o
<1>2. u \in Seq(S) /\ Len(u) = p - q /\ \A x \in 1 .. p - q : u[x] = t[q + x]
  BY <1>1, PartFacts
<1>3. v \in Seq(S) /\ Len(v) = o - p /\ \A x \in 1 .. o - p : v[x] = t[p + x]
  BY <1>1, PartFacts
<1>4. w \in Seq(S) /\ Len(w) = o - q /\ \A x \in 1 .. o - q : w[x] = t[q + x]
  BY <1>1, PartFacts
<1> HIDE DEF u, v, w
<1>5. /\ y \in Seq(S) /\ Len(y) = Len(u) + Len(v)
      /\ \A x \in 1 .. Len(u) + Len(v) : y[x] = IF x <= Len(u) THEN u[x] ELSE v[x - Len(u)]
  BY <1>2, <1>3, JoinFacts
<1> HIDE DEF y
<1>6. Len(y) = n + k /\ Len(w) = n + k /\ Len(u) = n /\ Len(v) = k
  BY <1>1, <1>2, <1>3, <1>4, <1>5
<1>7. ASSUME NEW x \in 1 .. Len(y) PROVE y[x] = w[x]
  <2>1. x \in Nat /\ 1 <= x /\ x <= n + k
    BY <1>1, <1>6
  <2>2. w[x] = t[q + x]
    BY <1>1, <1>4, <1>6
  <2>3. CASE x <= n
    <3>1. x \in 1 .. n /\ x \in 1 .. n + k
      BY <2>1, <2>3, <1>1
    <3> QED
      BY <2>2, <2>3, <3>1, <1>1, <1>2, <1>5, <1>6
  <2>4. CASE ~(x <= n)
    <3>1. x - n \in 1 .. k /\ p + (x - n) = q + x
      BY <2>1, <2>4, <1>1
    <3>2. y[x] = v[x - n]
      BY <2>4, <1>5, <1>6
    <3>3. v[x - n] = t[p + (x - n)]
      BY <3>1, <1>1, <1>3
    <3> QED
      BY <2>2, <3>1, <3>2, <3>3
  <2> QED
    BY <2>3, <2>4
<1>8. y = w
  BY <1>4, <1>5, <1>6, <1>7, SameQueue
<1> QED
  BY <1>1, <1>8 DEF y, u, v, w, p, o

\* A loop each of whose turns gets on ends, where N is what it has to do.
Looped(f, V, a, N, g) ==
    f \in [0 .. N -> V] /\ f[0] = a /\ \A k \in 1 .. N : f[k] = g[f[k - 1]]

GetsOn(V, N, g, size) ==
    /\ g \in [V -> V] /\ size \in [V -> 0 .. N]
    /\ \A w \in V : size[w] = N \/ size[w] < size[g[w]]
    /\ \A w \in V : size[w] = N => size[g[w]] = N

Loops(h, V, a, N, g) ==
    h[0] = a /\ \A k \in 1 .. N : h[k - 1] \in V => h[k] = g[h[k - 1]]

LEMMA LoopRuns ==
    ASSUME NEW V, NEW a \in V, NEW N \in Nat, NEW g \in [V -> V]
    PROVE  \E f : Looped(f, V, a, N, g)
<1> DEFINE G == [k \in 1 .. N |-> g]
<1>1. G \in [1 .. N -> [V -> V]] /\ \A k \in 1 .. N : G[k] = g
  OBVIOUS
<1> HIDE DEF G
<1>2. PICK f : Iterate(f, V, a, N, G)
  BY <1>1, Iterates
<1>3. Looped(f, V, a, N, g)
  BY <1>1, <1>2 DEF Iterate, Looped
<1> QED
  BY <1>3

LEMMA LoopEnds ==
    ASSUME NEW V, NEW a \in V, NEW N \in Nat, NEW g, NEW size, GetsOn(V, N, g, size),
           NEW h, Loops(h, V, a, N, g)
    PROVE  h[N] \in V /\ size[h[N]] = N
<1> DEFINE T == {k \in 0 .. N : h[k] \in V /\ size[h[k]] >= k}
<1>1. 0 \in T
  <2>1. size[a] \in 0 .. N /\ h[0] = a
    BY DEF GetsOn, Loops
  <2>2. size[a] >= 0 /\ 0 \in 0 .. N
    BY <2>1
  <2> QED
    BY <2>1, <2>2
<1>2. ASSUME NEW k \in 1 .. N, k - 1 \in T PROVE k \in T
  <2>1. h[k - 1] \in V /\ size[h[k - 1]] >= k - 1 /\ h[k] = g[h[k - 1]]
    BY <1>2 DEF Loops
  <2> DEFINE w == h[k - 1]
             u == h[k]
  <2>2. w \in V /\ size[w] >= k - 1 /\ u = g[w]
    BY <2>1
  <2> HIDE DEF w, u
  <2>3. u \in V /\ size[w] \in 0 .. N /\ size[u] \in 0 .. N
    BY <2>2 DEF GetsOn
  <2>4. size[w] = N => size[u] = N
    BY <2>2 DEF GetsOn
  <2>5. size[w] = N \/ size[w] < size[u]
    BY <2>2 DEF GetsOn
  <2>6. size[u] >= k
    BY <2>2, <2>3, <2>4, <2>5
  <2> QED
    BY <2>3, <2>6 DEF u
<1> HIDE DEF T
<1>3. \A k \in 0 .. N : k \in T
  BY <1>1, <1>2, Steps
<1>4. N \in T
  BY <1>3
<1>5. h[N] \in V /\ size[h[N]] >= N
  BY <1>4 DEF T
<1>6. size[h[N]] \in 0 .. N
  BY <1>5 DEF GetsOn
<1> QED
  BY <1>5, <1>6

\* Buffer.insert inserts.
LEMMA InsertTurnFacts ==
    ASSUME NEW t \in Seq(Runes), NEW s \in Seq(Runes), NEW q0 \in 0 .. Len(t),
           NEW b, NEW n \in 0 .. Len(s), n # Len(s), Holds(b, Splice(t, q0, q0, SubSeq(s, 1, n)))
    PROVE  LET w == insertTurn(<<b, n>>, q0, s)
           IN /\ w = <<w[1], w[2]>>
              /\ w[2] \in n + 1 .. Len(s)
              /\ Holds(w[1], Splice(t, q0, q0, SubSeq(s, 1, w[2])))
<1> DEFINE q == q0 + n
           rest == SubSeq(s, n + 1, Len(s))
           u == Splice(t, q0, q0, SubSeq(s, 1, n))
           c == setcache(b, q)
           some == insertSome(c, q, rest)
           w == <<some[1], n + some[2]>>
<1>1. insertTurn(<<b, n>>, q0, s) = w
  BY DEF insertTurn
<1>2. Len(s) \in Nat /\ Len(t) \in Nat /\ Len(s) \in n .. Len(s) /\ n \in 0 .. Len(s)
  <2>1. Len(s) \in Nat /\ Len(t) \in Nat
    OBVIOUS
  <2> QED
    BY <2>1
<1>3. rest \in Seq(Runes) /\ Len(rest) = Len(s) - n
  BY <1>2, PartFacts
<1>4. rest # << >>
  <2> HIDE DEF rest
  <2> QED
    BY <1>2, <1>3
<1>5. u \in Seq(Runes) /\ Len(u) = Len(t) + n
  <2> DEFINE f == SubSeq(s, 1, n)
  <2>1. f \in Seq(Runes) /\ Len(f) = n
    BY FirstFacts
  <2> HIDE DEF f
  <2>2. Splice(t, q0, q0, f) \in Seq(Runes) /\ Len(Splice(t, q0, q0, f)) = Len(t) + Len(f)
    BY <2>1, SpliceIn
  <2> QED
    BY <2>1, <2>2 DEF f
<1>6. q \in 0 .. Len(u)
  BY <1>2, <1>5
<1>7. Holds(b, u)
  OBVIOUS
<1> HIDE DEF u, q, rest
<1>8. Holds(c, u) /\ At(c, q)
  BY <1>5, <1>6, <1>7, SetcacheFacts
<1> HIDE DEF c
<1>9. some[2] \in 1 .. Len(rest) /\ Holds(some[1], Splice(u, q, q, SubSeq(rest, 1, some[2])))
  BY <1>3, <1>4, <1>5, <1>6, <1>8, InsertSomeFacts
<1> DEFINE k == some[2]
<1>10. k \in 1 .. Len(rest) /\ Holds(some[1], Splice(u, q, q, SubSeq(rest, 1, k)))
  BY <1>9
<1>11. w = <<some[1], n + k>>
  OBVIOUS
<1> HIDE DEF k, some, w
<1>12. k \in 0 .. Len(s) - n /\ n + k \in n + 1 .. Len(s)
  BY <1>2, <1>3, <1>10
<1>13. Splice(u, q, q, SubSeq(rest, 1, k)) = Splice(t, q0, q0, SubSeq(s, 1, n + k))
  BY <1>12, SpliceMore DEF u, q, rest
<1>14. w[1] = some[1] /\ w[2] = n + k /\ w = <<w[1], w[2]>>
  BY <1>11
<1> QED
  BY <1>1, <1>10, <1>12, <1>13, <1>14

LEMMA InsertHolds ==
    ASSUME NEW b, NEW t \in Seq(Runes), Holds(b, t), NEW q0 \in 0 .. Len(t), NEW s \in Seq(Runes)
    PROVE  Holds(insert(b, q0, s), Splice(t, q0, q0, s))
<1> DEFINE N == Len(s)
           V == {w \in Buffers \X (0 .. N) : Holds(w[1], Splice(t, q0, q0, SubSeq(s, 1, w[2])))}
           g == [w \in V |-> insertTurn(w, q0, s)]
           size == [w \in V |-> w[2]]
           a == <<b, 0>>
           Is(h) == h = [k \in 0 .. N |-> IF k = 0 THEN a ELSE insertTurn(h[k - 1], q0, s)]
           turn == CHOOSE h : Is(h)
<1>1. insert(b, q0, s) = turn[N][1]
  BY DEF insert
<1>2. N \in Nat /\ Len(t) \in Nat
  OBVIOUS
<1>3. a \in V
  <2>1. SubSeq(s, 1, 0) = << >>
    BY <1>2
  <2>2. Splice(t, q0, q0, SubSeq(s, 1, 0)) = t
    BY <2>1, SpliceNone
  <2>3. b \in Buffers /\ 0 \in 0 .. N
    BY <1>2 DEF Holds
  <2> HIDE DEF N
  <2>4. a \in Buffers \X (0 .. N) /\ a[1] = b /\ a[2] = 0
    BY <2>3
  <2> QED
    BY <2>2, <2>4
<1>4. ASSUME NEW w \in V
      PROVE  /\ insertTurn(w, q0, s) \in V
             /\ w[2] \in 0 .. N /\ insertTurn(w, q0, s)[2] \in 0 .. N
             /\ w[2] = N \/ w[2] < insertTurn(w, q0, s)[2]
             /\ w[2] = N => insertTurn(w, q0, s)[2] = N
  <2> DEFINE v == insertTurn(w, q0, s)
  <2>1. /\ w = <<w[1], w[2]>> /\ w[2] \in 0 .. N
        /\ Holds(w[1], Splice(t, q0, q0, SubSeq(s, 1, w[2])))
    OBVIOUS
  <2>2. CASE w[2] = N
    <3>1. v = w
      BY <2>2 DEF insertTurn
    <3> QED
      BY <2>1, <2>2, <3>1
  <2>3. CASE w[2] # N
    <3> DEFINE c == w[1]
               n == w[2]
    <3>1. w = <<c, n>> /\ n \in 0 .. Len(s) /\ n # Len(s) /\ Holds(c, Splice(t, q0, q0, SubSeq(s, 1, n)))
      BY <2>1, <2>3
    <3> HIDE DEF c, n
    <3>2. LET z == insertTurn(<<c, n>>, q0, s)
          IN /\ z = <<z[1], z[2]>>
             /\ z[2] \in n + 1 .. Len(s)
             /\ Holds(z[1], Splice(t, q0, q0, SubSeq(s, 1, z[2])))
      BY <3>1, InsertTurnFacts
    <3>3. /\ v = <<v[1], v[2]>> /\ v[2] \in n + 1 .. Len(s)
          /\ Holds(v[1], Splice(t, q0, q0, SubSeq(s, 1, v[2])))
      BY <3>1, <3>2
    <3> HIDE DEF v
    <3>4. v[1] \in Buffers
      BY <3>3 DEF Holds
    <3>5. v[2] \in 0 .. N /\ n < v[2]
      BY <3>1, <3>3, <1>2
    <3>6. v \in V
      BY <3>3, <3>4, <3>5
    <3> HIDE DEF V
    <3> QED
      BY <2>1, <2>3, <3>5, <3>6 DEF v, n
  <2> QED
    BY <2>2, <2>3
<1> HIDE DEF V
<1>5. g \in [V -> V] /\ size \in [V -> 0 .. N]
  BY <1>4
<1>6. \A w \in V : g[w] = insertTurn(w, q0, s) /\ size[w] = w[2] /\ size[g[w]] = g[w][2]
  BY <1>4
<1> HIDE DEF g, size, a
<1>7. Is(turn)
  <2>0. PICK f : Looped(f, V, a, N, g)
    <3> HIDE DEF N
    <3> QED
      BY <1>2, <1>3, <1>5, LoopRuns
  <2>1. f \in [0 .. N -> V] /\ f[0] = a /\ \A k \in 1 .. N : f[k] = g[f[k - 1]]
    BY <2>0 DEF Looped
  <2>2. \A k \in 0 .. N : f[k] = IF k = 0 THEN a ELSE insertTurn(f[k - 1], q0, s)
    <3> TAKE k \in 0 .. N
    <3>1. CASE k = 0
      BY <2>1, <3>1
    <3>2. CASE k # 0
      <4>1. k \in 1 .. N /\ k - 1 \in 0 .. N
        BY <3>2, <1>2
      <4> QED
        BY <2>1, <3>2, <4>1, <1>6
    <3> QED
      BY <3>1, <3>2
  <2>3. f = [k \in 0 .. N |-> f[k]]
    BY <2>1
  <2>4. Is(f)
    BY <2>2, <2>3
  <2> HIDE DEF Is
  <2> QED
    BY <2>4
<1>8. \A k \in 0 .. N : turn[k] = IF k = 0 THEN a ELSE insertTurn(turn[k - 1], q0, s)
  <2> HIDE DEF turn
  <2> QED
    BY <1>7
<1> HIDE DEF turn, Is
<1>9. Loops(turn, V, a, N, g)
  <2>1. turn[0] = a
    BY <1>2, <1>8
  <2>2. ASSUME NEW k \in 1 .. N, turn[k - 1] \in V PROVE turn[k] = g[turn[k - 1]]
    <3>1. k \in 0 .. N /\ k # 0
      BY <1>2
    <3> QED
      BY <2>2, <3>1, <1>6, <1>8
  <2> QED
    BY <2>1, <2>2 DEF Loops
<1>10. GetsOn(V, N, g, size)
  BY <1>4, <1>5, <1>6 DEF GetsOn
<1>11. turn[N] \in V /\ size[turn[N]] = N
  <2> HIDE DEF N
  <2> QED
    BY <1>2, <1>3, <1>9, <1>10, LoopEnds
<1>12. turn[N][2] = N /\ Holds(turn[N][1], Splice(t, q0, q0, SubSeq(s, 1, N)))
  <2>1. turn[N][2] = N
    BY <1>6, <1>11
  <2>2. Holds(turn[N][1], Splice(t, q0, q0, SubSeq(s, 1, turn[N][2])))
    BY <1>11 DEF V
  <2> QED
    BY <2>1, <2>2
<1>13. SubSeq(s, 1, N) = s
  <2> DEFINE z == SubSeq(s, 1, N)
  <2>1. z \in Seq(Runes) /\ Len(z) = N /\ \A x \in 1 .. N : z[x] = s[x]
    <3>1. Len(s) \in 0 .. Len(s)
      BY <1>2
    <3> QED
      BY <3>1, FirstFacts
  <2> HIDE DEF z
  <2>2. z = s
    BY <2>1, SameQueue
  <2> QED
    BY <2>2 DEF z
<1> QED
  BY <1>1, <1>12, <1>13

\* Buffer.delete deletes.
LEMMA DeleteTurnFacts ==
    ASSUME NEW t \in Seq(Runes), NEW q0 \in 0 .. Len(t), NEW q1 \in q0 .. Len(t),
           NEW b, NEW n \in 0 .. q1 - q0, n # q1 - q0, Holds(b, Splice(t, q0, q0 + n, << >>))
    PROVE  LET w == deleteTurn(<<b, n>>, q0, q1)
           IN /\ w = <<w[1], w[2]>>
              /\ w[2] \in n + 1 .. q1 - q0
              /\ Holds(w[1], Splice(t, q0, q0 + w[2], << >>))
<1> DEFINE q == q0 + n
           u == Splice(t, q0, q, << >>)
           c == setcache(b, q0)
           o == q1 - n
           some == deleteSome(c, q0, o)
           w == <<some[1], n + some[2]>>
<1>1. deleteTurn(<<b, n>>, q0, q1) = w
  BY DEF deleteTurn
<1>2. /\ Len(t) \in Nat /\ q0 \in Nat /\ q1 \in Nat /\ n \in Nat /\ q0 + n < q1 /\ q1 <= Len(t)
      /\ q \in q0 .. Len(t) /\ q - q0 = n
  <2>1. Len(t) \in Nat
    OBVIOUS
  <2> QED
    BY <2>1
<1> HIDE DEF q
<1>3. u \in Seq(Runes) /\ Len(u) = Len(t) - n
  <2> DEFINE f == << >>
  <2>1. f \in Seq(Runes) /\ Len(f) = 0
    OBVIOUS
  <2> HIDE DEF f
  <2>2. Splice(t, q0, q, f) \in Seq(Runes) /\ Len(Splice(t, q0, q, f)) = Len(t) - (q - q0) + Len(f)
    <3>1. f \in Seq(Runes) /\ q \in q0 .. Len(t)
      BY <2>1, <1>2
    <3> QED
      BY <3>1, SpliceFacts
  <2>3. Len(t) - (q - q0) + Len(f) = Len(t) - n
    BY <2>1, <1>2
  <2> QED
    BY <2>2, <2>3 DEF f
<1>4. q0 \in 0 .. Len(u) /\ o \in q0 + 1 .. Len(u) /\ o - q0 = q1 - q0 - n
  <2> HIDE DEF u
  <2> QED
    BY <1>2, <1>3
<1>5. Holds(b, u)
  BY DEF q
<1> HIDE DEF u, o
<1>6. Holds(c, u) /\ At(c, q0)
  BY <1>3, <1>4, <1>5, SetcacheFacts
<1> HIDE DEF c
<1>7. some[2] \in 1 .. o - q0 /\ Holds(some[1], Splice(u, q0, q0 + some[2], << >>))
  BY <1>3, <1>4, <1>6, DeleteSomeFacts
<1> DEFINE k == some[2]
<1>8. k \in 1 .. o - q0 /\ Holds(some[1], Splice(u, q0, q0 + k, << >>))
  BY <1>7
<1>9. w = <<some[1], n + k>>
  OBVIOUS
<1> HIDE DEF k, some, w
<1>10. k \in 0 .. Len(t) - q0 - n /\ n \in 0 .. Len(t) - q0 /\ n + k \in n + 1 .. q1 - q0
  BY <1>2, <1>4, <1>8
<1>11. Splice(u, q0, q0 + k, << >>) = Splice(t, q0, q0 + (n + k), << >>)
  <2>1. k \in 0 .. Len(t) - q0 - n /\ n \in 0 .. Len(t) - q0
    BY <1>10
  <2> DEFINE x == q0 + k
             y == q0 + (n + k)
  <2>2. q \in q0 .. Len(t) /\ y \in q .. Len(t) /\ Comes(x, q0, q, y)
    BY <2>1, <1>2 DEF q, Comes
  <2> HIDE DEF x, y
  <2>3. Splice(Splice(t, q0, q, << >>), q0, x, << >>) = Splice(t, q0, y, << >>)
    BY <2>2, SpliceLess
  <2> QED
    BY <2>3 DEF u, x, y
<1>12. w[1] = some[1] /\ w[2] = n + k /\ w = <<w[1], w[2]>>
  BY <1>9
<1> QED
  BY <1>1, <1>8, <1>10, <1>11, <1>12

LEMMA DeleteHolds ==
    ASSUME NEW b, NEW t \in Seq(Runes), Holds(b, t), NEW q0 \in 0 .. Len(t), NEW q1 \in q0 .. Len(t)
    PROVE  Holds(delete(b, q0, q1), Splice(t, q0, q1, << >>))
<1> DEFINE N == q1 - q0
           V == {w \in Buffers \X (0 .. N) : Holds(w[1], Splice(t, q0, q0 + w[2], << >>))}
           g == [w \in V |-> deleteTurn(w, q0, q1)]
           size == [w \in V |-> w[2]]
           a == <<b, 0>>
           Is(h) == h = [k \in 0 .. N |-> IF k = 0 THEN a ELSE deleteTurn(h[k - 1], q0, q1)]
           turn == CHOOSE h : Is(h)
<1>1. delete(b, q0, q1) = turn[N][1]
  BY DEF delete
<1>2. N \in Nat /\ Len(t) \in Nat /\ q0 + N = q1 /\ q0 + 0 = q0
  OBVIOUS
<1>3. a \in V
  <2>1. Splice(t, q0, q0 + 0, << >>) = t
    BY <1>2, SpliceNone
  <2>2. b \in Buffers /\ 0 \in 0 .. N
    BY <1>2 DEF Holds
  <2> HIDE DEF N
  <2>3. a \in Buffers \X (0 .. N) /\ a[1] = b /\ a[2] = 0
    BY <2>2
  <2> QED
    BY <2>1, <2>3
<1>4. ASSUME NEW w \in V
      PROVE  /\ deleteTurn(w, q0, q1) \in V
             /\ w[2] \in 0 .. N /\ deleteTurn(w, q0, q1)[2] \in 0 .. N
             /\ w[2] = N \/ w[2] < deleteTurn(w, q0, q1)[2]
             /\ w[2] = N => deleteTurn(w, q0, q1)[2] = N
  <2> DEFINE v == deleteTurn(w, q0, q1)
  <2>1. /\ w = <<w[1], w[2]>> /\ w[2] \in 0 .. N
        /\ Holds(w[1], Splice(t, q0, q0 + w[2], << >>))
    OBVIOUS
  <2>2. CASE w[2] = N
    <3>1. v = w
      BY <2>2 DEF deleteTurn
    <3> QED
      BY <2>1, <2>2, <3>1
  <2>3. CASE w[2] # N
    <3> DEFINE c == w[1]
               n == w[2]
    <3>1. /\ w = <<c, n>> /\ n \in 0 .. q1 - q0 /\ n # q1 - q0
          /\ Holds(c, Splice(t, q0, q0 + n, << >>))
      BY <2>1, <2>3
    <3> HIDE DEF c, n
    <3>2. LET z == deleteTurn(<<c, n>>, q0, q1)
          IN /\ z = <<z[1], z[2]>>
             /\ z[2] \in n + 1 .. q1 - q0
             /\ Holds(z[1], Splice(t, q0, q0 + z[2], << >>))
      BY <3>1, DeleteTurnFacts
    <3>3. /\ v = <<v[1], v[2]>> /\ v[2] \in n + 1 .. q1 - q0
          /\ Holds(v[1], Splice(t, q0, q0 + v[2], << >>))
      BY <3>1, <3>2
    <3> HIDE DEF v
    <3>4. v[1] \in Buffers
      BY <3>3 DEF Holds
    <3>5. v[2] \in 0 .. N /\ n < v[2]
      BY <3>1, <3>3, <1>2
    <3>6. v \in V
      BY <3>3, <3>4, <3>5
    <3> HIDE DEF V
    <3> QED
      BY <2>1, <2>3, <3>5, <3>6 DEF v, n
  <2> QED
    BY <2>2, <2>3
<1> HIDE DEF V
<1>5. g \in [V -> V] /\ size \in [V -> 0 .. N]
  BY <1>4
<1>6. \A w \in V : g[w] = deleteTurn(w, q0, q1) /\ size[w] = w[2] /\ size[g[w]] = g[w][2]
  BY <1>4
<1> HIDE DEF g, size, a
<1>7. Is(turn)
  <2>0. PICK f : Looped(f, V, a, N, g)
    <3> HIDE DEF N
    <3> QED
      BY <1>2, <1>3, <1>5, LoopRuns
  <2>1. f \in [0 .. N -> V] /\ f[0] = a /\ \A k \in 1 .. N : f[k] = g[f[k - 1]]
    BY <2>0 DEF Looped
  <2>2. \A k \in 0 .. N : f[k] = IF k = 0 THEN a ELSE deleteTurn(f[k - 1], q0, q1)
    <3> TAKE k \in 0 .. N
    <3>1. CASE k = 0
      BY <2>1, <3>1
    <3>2. CASE k # 0
      <4>1. k \in 1 .. N /\ k - 1 \in 0 .. N
        BY <3>2, <1>2
      <4> QED
        BY <2>1, <3>2, <4>1, <1>6
    <3> QED
      BY <3>1, <3>2
  <2>3. f = [k \in 0 .. N |-> f[k]]
    BY <2>1
  <2>4. Is(f)
    BY <2>2, <2>3
  <2> HIDE DEF Is
  <2> QED
    BY <2>4
<1>8. \A k \in 0 .. N : turn[k] = IF k = 0 THEN a ELSE deleteTurn(turn[k - 1], q0, q1)
  <2> HIDE DEF turn
  <2> QED
    BY <1>7
<1> HIDE DEF turn, Is
<1>9. Loops(turn, V, a, N, g)
  <2>1. turn[0] = a
    BY <1>2, <1>8
  <2>2. ASSUME NEW k \in 1 .. N, turn[k - 1] \in V PROVE turn[k] = g[turn[k - 1]]
    <3>1. k \in 0 .. N /\ k # 0
      BY <1>2
    <3> QED
      BY <2>2, <3>1, <1>6, <1>8
  <2> QED
    BY <2>1, <2>2 DEF Loops
<1>10. GetsOn(V, N, g, size)
  <2> HIDE DEF N
  <2>1. ASSUME NEW w \in V
        PROVE  /\ size[w] = N \/ size[w] < size[g[w]]
               /\ size[w] = N => size[g[w]] = N
    BY <1>4, <1>6
  <2> QED
    BY <2>1, <1>5 DEF GetsOn
<1>11. turn[N] \in V /\ size[turn[N]] = N
  <2>1. N \in Nat
    BY <1>2
  <2> HIDE DEF N
  <2>2. a \in V /\ GetsOn(V, N, g, size) /\ Loops(turn, V, a, N, g)
    BY <1>3, <1>9, <1>10
  <2> HIDE DEF V, a, g, size
  <2> QED
    BY ONLY <2>1, <2>2, LoopEnds
<1>12. turn[N][2] = N /\ Holds(turn[N][1], Splice(t, q0, q1, << >>))
  <2>1. turn[N][2] = N
    BY <1>6, <1>11
  <2>2. Holds(turn[N][1], Splice(t, q0, q0 + turn[N][2], << >>))
    BY <1>11 DEF V
  <2> QED
    BY <2>1, <2>2, <1>2
<1> QED
  BY <1>1, <1>12

\* Buffer.read reads, and changes nothing but the cache.
Part(t, q0, n) == SubSeq(t, q0 + 1, q0 + n)

ReadOn(w, t, q0, n, q1) == /\ w = <<w[1], w[2]>> /\ Holds(w[1], t)
                           /\ \E k \in n + 1 .. q1 - q0 : w[2] = Part(t, q0, k)

LEMMA ReadTurnFacts ==
    ASSUME NEW t \in Seq(Runes), NEW q0 \in 0 .. Len(t), NEW q1 \in q0 .. Len(t),
           NEW b, NEW n \in 0 .. q1 - q0, n # q1 - q0, Holds(b, t),
           NEW r, r = Part(t, q0, n)
    PROVE  Len(r) = n /\ ReadOn(readTurn(<<b, r>>, q0, q1), t, q0, n, q1)
<1> DEFINE q == q0 + n
           c == setcache(b, q)
           some == readSome(c, q, q1)
<1>1. /\ Len(t) \in Nat /\ q0 \in Nat /\ q1 \in Nat /\ n \in Nat /\ q0 + n < q1 /\ q1 <= Len(t)
      /\ q \in q0 .. Len(t) /\ q - q0 = n /\ q \in 0 .. Len(t) /\ q1 \in q + 1 .. Len(t) /\ q # q1
  <2>1. Len(t) \in Nat
    OBVIOUS
  <2> QED
    BY <2>1
<1>2. Len(r) = n
  <2> HIDE DEF q
  <2>1. Len(SubSeq(t, q0 + 1, q)) = q - q0
    BY <1>1, PartFacts
  <2> QED
    BY <2>1, <1>1 DEF q, Part
<1>3. readTurn(<<b, r>>, q0, q1) = <<c, r \o some>>
  <2>1. <<b, r>>[1] = b /\ <<b, r>>[2] = r /\ q0 + Len(r) = q
    BY <1>2
  <2>2. q # q1
    BY <1>1
  <2> HIDE DEF q
  <2> QED
    BY <2>1, <2>2 DEF readTurn
<1> HIDE DEF q
<1>4. Holds(c, t) /\ At(c, q)
  BY <1>1, SetcacheFacts
<1> HIDE DEF c
<1>5. PICK m \in 1 .. q1 - q : some = SubSeq(t, q + 1, q + m)
  BY <1>1, <1>4, ReadSomeFacts
<1> HIDE DEF some
<1>6. m \in 0 .. Len(t) - q0 - n /\ n \in 0 .. Len(t) - q0 /\ n + m \in n + 1 .. q1 - q0
  <2>1. q1 - q \in Nat /\ q = q0 + n
    BY <1>1 DEF q
  <2> QED
    BY <2>1, <1>1
<1>7. r \o some = Part(t, q0, n + m)
  BY <1>5, <1>6, SubSeqMore DEF q, Part
<1> DEFINE v == r \o some
<1> HIDE DEF v
<1>8. v = Part(t, q0, n + m)
  BY <1>7 DEF v
<1>9. readTurn(<<b, r>>, q0, q1) = <<c, v>>
  BY <1>3 DEF v
<1>10. \E k \in n + 1 .. q1 - q0 : v = Part(t, q0, k)
  BY <1>6, <1>8
<1> DEFINE w == readTurn(<<b, r>>, q0, q1)
<1>11. w = <<w[1], w[2]>> /\ w[1] = c /\ w[2] = v
  BY <1>9
<1> HIDE DEF w
<1>12. Holds(w[1], t) /\ \E k \in n + 1 .. q1 - q0 : w[2] = Part(t, q0, k)
  BY <1>4, <1>10, <1>11
<1> QED
  BY <1>2, <1>11, <1>12 DEF w, ReadOn

LEMMA ReadHolds ==
    ASSUME NEW b, NEW t \in Seq(Runes), Holds(b, t), NEW q0 \in 0 .. Len(t), NEW q1 \in q0 .. Len(t)
    PROVE  /\ read(b, q0, q1) = <<read(b, q0, q1)[1], read(b, q0, q1)[2]>>
           /\ Holds(read(b, q0, q1)[1], t)
           /\ read(b, q0, q1)[2] = SubSeq(t, q0 + 1, q1)
<1> DEFINE N == q1 - q0
           V == {w \in Buffers \X {Part(t, q0, n) : n \in 0 .. N} : Holds(w[1], t)}
           g == [w \in V |-> readTurn(w, q0, q1)]
           size == [w \in V |-> Len(w[2])]
           a == <<b, << >>>>
           Is(h) == h = [k \in 0 .. N |-> IF k = 0 THEN a ELSE readTurn(h[k - 1], q0, q1)]
           turn == CHOOSE h : Is(h)
<1>1. read(b, q0, q1) = turn[N]
  BY DEF read
<1>2. N \in Nat /\ Len(t) \in Nat /\ q0 + N = q1 /\ q0 + 0 = q0 /\ q0 \in Nat /\ q1 <= Len(t)
  OBVIOUS
<1>14. ASSUME NEW n \in 0 .. N PROVE Len(Part(t, q0, n)) = n
  <2> DEFINE q == q0 + n
  <2>1. q \in q0 .. Len(t) /\ q - q0 = n
    BY <1>2
  <2> HIDE DEF q
  <2>2. Len(SubSeq(t, q0 + 1, q)) = q - q0
    BY <2>1, PartFacts
  <2> QED
    BY <2>1, <2>2 DEF q, Part
<1>3. a \in V
  <2>1. Part(t, q0, 0) = << >>
    <3>1. Len(SubSeq(t, q0 + 1, q0)) = 0 /\ SubSeq(t, q0 + 1, q0) \in Seq(Runes)
      <4>1. q0 \in q0 .. Len(t) /\ q0 - q0 = 0
        BY <1>2
      <4> QED
        BY <4>1, PartFacts
    <3> QED
      BY <3>1, <1>2 DEF Part
  <2>2. b \in Buffers /\ 0 \in 0 .. N
    BY <1>2 DEF Holds
  <2> HIDE DEF N
  <2>3. a[1] = b /\ a[2] = Part(t, q0, 0) /\ a = <<a[1], a[2]>>
    BY <2>1
  <2> HIDE DEF a
  <2> QED
    BY <2>2, <2>3
<1>4. ASSUME NEW w \in V
      PROVE  /\ readTurn(w, q0, q1) \in V
             /\ Len(w[2]) \in 0 .. N /\ Len(readTurn(w, q0, q1)[2]) \in 0 .. N
             /\ Len(w[2]) = N \/ Len(w[2]) < Len(readTurn(w, q0, q1)[2])
             /\ Len(w[2]) = N => Len(readTurn(w, q0, q1)[2]) = N
  <2> DEFINE v == readTurn(w, q0, q1)
             c == w[1]
             r == w[2]
  <2>1. PICK n \in 0 .. N : r = Part(t, q0, n)
    OBVIOUS
  <2>2. w = <<c, r>> /\ Holds(c, t) /\ c \in Buffers
    OBVIOUS
  <2> HIDE DEF c, r
  <2>3. Len(r) = n
    BY <2>1, <1>14
  <2>4. CASE n = N
    <3>1. v = w
      <4>1. <<c, r>>[2] = r /\ q0 + Len(r) = q1
        BY <2>3, <2>4, <1>2
      <4> HIDE DEF N, V
      <4> QED
        BY <2>2, <4>1 DEF readTurn
    <3>2. w[2] = r
      BY DEF r
    <3> HIDE DEF V, N, v
    <3> QED
      BY <2>3, <2>4, <3>1, <3>2, <1>2 DEF v
  <2>5. CASE n # N
    <3>1. n \in 0 .. q1 - q0 /\ n # q1 - q0
      BY <2>5
    <3>2. ReadOn(readTurn(<<c, r>>, q0, q1), t, q0, n, q1)
      <4>1. Holds(c, t) /\ r = Part(t, q0, n)
        BY <2>1, <2>2
      <4> QED
        BY <4>1, <3>1, ReadTurnFacts
    <3>3. /\ v = <<v[1], v[2]>> /\ Holds(v[1], t)
          /\ \E k \in n + 1 .. q1 - q0 : v[2] = Part(t, q0, k)
      BY <2>2, <3>2 DEF ReadOn
    <3> HIDE DEF v
    <3>4. PICK k \in n + 1 .. q1 - q0 : v[2] = Part(t, q0, k)
      BY <3>3
    <3>5. v[1] \in Buffers
      BY <3>3 DEF Holds
    <3>6. k \in 0 .. N /\ n < k
      BY <1>2
    <3>7. Len(v[2]) = k
      BY <3>4, <3>6, <1>14
    <3>8. v \in V
      BY <3>3, <3>4, <3>5, <3>6
    <3>9. w[2] = r
      BY DEF r
    <3> HIDE DEF V, N
    <3> QED
      BY <2>3, <2>5, <3>6, <3>7, <3>8, <3>9 DEF v
  <2> QED
    BY <2>4, <2>5
<1> HIDE DEF V
<1>5. g \in [V -> V] /\ size \in [V -> 0 .. N]
  BY <1>4
<1>6. \A w \in V : g[w] = readTurn(w, q0, q1) /\ size[w] = Len(w[2]) /\ size[g[w]] = Len(g[w][2])
  BY <1>4
<1> HIDE DEF g, size, a
<1>7. Is(turn)
  <2>0. PICK f : Looped(f, V, a, N, g)
    <3> HIDE DEF N
    <3> QED
      BY <1>2, <1>3, <1>5, LoopRuns
  <2>1. f \in [0 .. N -> V] /\ f[0] = a /\ \A k \in 1 .. N : f[k] = g[f[k - 1]]
    BY <2>0 DEF Looped
  <2>2. \A k \in 0 .. N : f[k] = IF k = 0 THEN a ELSE readTurn(f[k - 1], q0, q1)
    <3> TAKE k \in 0 .. N
    <3>1. CASE k = 0
      BY <2>1, <3>1
    <3>2. CASE k # 0
      <4>1. k \in 1 .. N /\ k - 1 \in 0 .. N
        BY <3>2, <1>2
      <4> QED
        BY <2>1, <3>2, <4>1, <1>6
    <3> QED
      BY <3>1, <3>2
  <2>3. f = [k \in 0 .. N |-> f[k]]
    BY <2>1
  <2>4. Is(f)
    BY <2>2, <2>3
  <2> HIDE DEF Is
  <2> QED
    BY <2>4
<1>8. \A k \in 0 .. N : turn[k] = IF k = 0 THEN a ELSE readTurn(turn[k - 1], q0, q1)
  <2> HIDE DEF turn
  <2> QED
    BY <1>7
<1> HIDE DEF turn, Is
<1>9. Loops(turn, V, a, N, g)
  <2>1. turn[0] = a
    BY <1>2, <1>8
  <2>2. ASSUME NEW k \in 1 .. N, turn[k - 1] \in V PROVE turn[k] = g[turn[k - 1]]
    <3>1. k \in 0 .. N /\ k # 0
      BY <1>2
    <3> QED
      BY <2>2, <3>1, <1>6, <1>8
  <2> QED
    BY <2>1, <2>2 DEF Loops
<1>10. GetsOn(V, N, g, size)
  <2> HIDE DEF N
  <2>1. ASSUME NEW w \in V
        PROVE  /\ size[w] = N \/ size[w] < size[g[w]]
               /\ size[w] = N => size[g[w]] = N
    BY <1>4, <1>6
  <2> QED
    BY <2>1, <1>5 DEF GetsOn
<1>11. turn[N] \in V /\ size[turn[N]] = N
  <2>1. N \in Nat
    BY <1>2
  <2> HIDE DEF N
  <2>2. a \in V /\ GetsOn(V, N, g, size) /\ Loops(turn, V, a, N, g)
    BY <1>3, <1>9, <1>10
  <2> HIDE DEF V, a, g, size
  <2> QED
    BY ONLY <2>1, <2>2, LoopEnds
<1>12. PICK n \in 0 .. N : turn[N][2] = Part(t, q0, n)
  BY <1>11 DEF V
<1>13. n = N
  BY <1>6, <1>11, <1>12, <1>14
<1>15. Holds(turn[N][1], t) /\ turn[N] = <<turn[N][1], turn[N][2]>>
  BY <1>11 DEF V
<1> QED
  BY <1>1, <1>2, <1>12, <1>13, <1>15 DEF Part

\* A Buffer that has just been made, and one that has been reset, hold no text.
LEMMA BlankHolds ==
    ASSUME NEW b \in Buffers, Apart(b), b.nc = 0, b.c = << >>, b.cq = 0, b.cdirty = FALSE, b.cbi = 1
    PROVE  Holds(b, << >>)
<1> DEFINE t == << >>
           m == IF b.bl = << >> THEN 0 ELSE 1
           st == [i \in 1 .. m + 1 |-> 0]
<1>1. t \in Seq(Runes) /\ Len(t) = 0 /\ m \in {0, 1} /\ m \in Nat
  OBVIOUS
<1>2. Len(b.bl) \in Nat /\ m \in 0 .. Len(b.bl)
  <2>1. b.bl \in Seq(Blocks)
    BY DEF Buffers
  <2>2. Len(b.bl) \in Nat /\ (b.bl # << >> => Len(b.bl) >= 1)
    BY <2>1
  <2> QED
    BY <2>2
<1>3. b.bl = << >> => m = 0
  OBVIOUS
<1>4. b.bl # << >> => m = 1
  OBVIOUS
<1> HIDE DEF m
<1>5. Starts(st, m, 0)
  BY <1>1 DEF Starts
<1>6. \A i \in 1 .. m + 1 : st[i] = 0
  OBVIOUS
<1> HIDE DEF st, t
<1>7. Lies(b, t, st, m, b.cbi)
  <2>1. \A i \in 1 .. m : i = 1
    BY <1>1
  <2> QED
    BY <2>1, <1>1, <1>2, <1>5 DEF Lies
<1>8. b.bl # << >> => /\ b.cbi \in 1 .. m /\ b.cq = st[b.cbi]
                      /\ Cache(b, t, st[b.cbi], st[b.cbi + 1])
  <2> SUFFICES ASSUME b.bl # << >>
               PROVE  /\ b.cbi \in 1 .. m /\ b.cq = st[b.cbi]
                      /\ Cache(b, t, st[b.cbi], st[b.cbi + 1])
    OBVIOUS
  <2>1. m = 1 /\ 1 \in 1 .. m /\ 1 \in 1 .. m + 1 /\ b.cbi + 1 \in 1 .. m + 1
    BY <1>4
  <2>2. st[b.cbi] = 0 /\ st[b.cbi + 1] = 0
    BY <2>1, <1>6
  <2>3. Len(b.c) = 0 /\ 1 .. Len(b.c) = {}
    OBVIOUS
  <2> QED
    BY <2>1, <2>2, <2>3 DEF Cache
<1>9. Text(b, t, st, m)
  BY <1>7, <1>8, BufferAssumption DEF Text
<1> QED
  BY <1>1, <1>9 DEF Holds, t

LEMMA NewbufferHolds == Holds(newbuffer, << >>)
<1> DEFINE b == newbuffer
           A == {}
           room == [a \in Nat |-> 0]
           list == [a \in Nat |-> 0]
<1>1. Sizes \in Nat /\ Sizes = Maxblock \div Blockincr
  BY SizeFacts DEF Sizes
<1>2. b \in Buffers
  <2>1. << >> \in Seq(Cells) /\ << >> \in Seq(Blocks) /\ << >> \in Seq(Nat)
    OBVIOUS
  <2> QED
    BY <2>1, <1>1 DEF newbuffer, Buffers
<1>3. /\ b.nc = 0 /\ b.c = << >> /\ b.cq = 0 /\ b.cdirty = FALSE /\ b.cbi = 1
      /\ b.bl = << >> /\ b.addr = 0 /\ b.store = << >>
      /\ \A s \in 1 .. Sizes : b.free[s] = << >>
  BY <1>1 DEF newbuffer
<1> HIDE DEF b
<1>4. \A a \in Nat : room[a] = 0 /\ list[a] = 0
  OBVIOUS
<1>5. room \in [Nat -> Nat] /\ list \in [Nat -> 0 .. Sizes]
  BY <1>1
<1> HIDE DEF room, list
<1>6. Disk(b, A, room, list)
  <2>1. Tiled(A, room, b.addr)
    BY <1>3 DEF Tiled
  <2>2. \A s \in 1 .. Sizes : Distinct(b.free[s]) /\ \A a \in Nat : ~In(a, b.free[s])
    BY <1>3 DEF Distinct, In
  <2> QED
    BY <2>1, <2>2, <1>3, <1>5 DEF Disk
<1>7. Chain(b.bl, A, room, list)
  BY <1>3 DEF Chain
<1>8. Apart(b)
  BY <1>6, <1>7 DEF Apart
<1> QED
  BY <1>2, <1>3, <1>8, BlankHolds DEF b

LEMMA ResetHolds ==
    ASSUME NEW b, NEW t, Holds(b, t)
    PROVE  Holds(reset(b), << >>)
<1> DEFINE N == Len(b.bl)
           e == [b EXCEPT !.nc = 0, !.c = << >>, !.cq = 0, !.cdirty = FALSE, !.cbi = 1]
           Is(h) == h = [i \in 1 .. N |-> IF i = N THEN e ELSE delblock(h[i + 1], i)]
           left == CHOOSE h : Is(h)
           V == {d \in Buffers : Apart(d) /\ SameText(d, e)}
           G == [k \in 1 .. N - 1 |->
                    [d \in V |-> IF Len(d.bl) = N - k + 1 THEN delblock(d, N - k) ELSE d]]
<1>1. b \in Buffers /\ Apart(b)
  BY DEF Holds
<1>2. N \in Nat
  BY <1>1 DEF Buffers
<1>3. e \in Buffers /\ SameDisk(e, b) /\ e.nc = 0 /\ e.c = << >> /\ e.cq = 0 /\ e.cdirty = FALSE
      /\ e.cbi = 1
  <2> DEFINE c == << >>
             v == 1
  <2>1. c \in Seq(Cells) /\ v \in Nat \ {0}
    OBVIOUS
  <2>2. e = [b EXCEPT !.nc = 0, !.c = c, !.cq = 0, !.cdirty = FALSE, !.cbi = v]
    OBVIOUS
  <2> HIDE DEF c, v, e
  <2>3. e \in Buffers /\ SameDisk(e, b) /\ e.nc = 0 /\ e.c = c /\ e.cq = 0 /\ e.cdirty = FALSE
        /\ e.cbi = v
    BY <2>1, <2>2, <1>1 DEF Buffers, SameDisk
  <2> QED
    BY <2>3 DEF c, v
<1>4. reset(b) = IF b.bl = << >> THEN e ELSE left[1]
  BY DEF reset
<1> HIDE DEF e
<1>5. e \in V /\ Len(e.bl) = N
  <2>1. Apart(e)
    BY <1>1, <1>3, SameDiskFacts
  <2> QED
    BY <2>1, <1>3 DEF SameText, SameDisk
<1>6. ASSUME NEW d \in V PROVE Holds(d, << >>)
  BY <1>3, <1>6, BlankHolds DEF SameText
<1>7. CASE b.bl = << >>
  BY <1>4, <1>5, <1>6, <1>7
<1>8. CASE b.bl # << >>
  <2>1. N >= 1 /\ N - 1 \in Nat
    <3>1. b.bl \in Seq(Blocks)
      BY <1>1 DEF Buffers
    <3> QED
      BY <3>1, <1>8
  <2>2. ASSUME NEW d \in V, NEW i \in 1 .. N - 1, Len(d.bl) = i + 1
        PROVE  delblock(d, i) \in V /\ Len(delblock(d, i).bl) = i
    <3>1. d \in Buffers /\ Apart(d) /\ i \in 1 .. Len(d.bl)
      BY <2>2, <1>2
    <3>2. /\ delblock(d, i) \in Buffers /\ SameText(delblock(d, i), d) /\ Apart(delblock(d, i))
          /\ Len(delblock(d, i).bl) = Len(d.bl) - 1
      BY <3>1, DelblockFacts
    <3>3. SameText(d, e)
      OBVIOUS
    <3> QED
      BY <2>2, <3>2, <3>3 DEF SameText
  <2>3. G \in [1 .. N - 1 -> [V -> V]]
    <3>1. ASSUME NEW k \in 1 .. N - 1, NEW d \in V
          PROVE  (IF Len(d.bl) = N - k + 1 THEN delblock(d, N - k) ELSE d) \in V
      <4>1. N - k \in 1 .. N - 1
        BY <2>1, <1>2
      <4> HIDE DEF V, N
      <4> QED
        BY <4>1, <2>2
    <3> HIDE DEF V, N
    <3> QED
      BY <3>1
  <2>4. \A k \in 1 .. N - 1 : \A d \in V :
            G[k][d] = IF Len(d.bl) = N - k + 1 THEN delblock(d, N - k) ELSE d
    OBVIOUS
  <2> HIDE DEF G, V
  <2>5. PICK g : Iterate(g, V, e, N - 1, G)
    BY <2>1, <2>3, <1>5, Iterates
  <2>6. /\ g \in [0 .. N - 1 -> V] /\ g[0] = e
        /\ \A k \in 1 .. N - 1 : g[k] = G[k][g[k - 1]]
    BY <2>5 DEF Iterate
  <2> HIDE DEF N
  <2>7. \A k \in 0 .. N - 1 : Len(g[k].bl) = N - k
    <3> DEFINE T == {k \in 0 .. N - 1 : Len(g[k].bl) = N - k}
    <3>1. 0 \in T
      BY <2>1, <2>6, <1>2, <1>5
    <3>2. ASSUME NEW k \in 1 .. N - 1, k - 1 \in T PROVE k \in T
      <4>1. k - 1 \in 0 .. N - 1 /\ N - (k - 1) = N - k + 1 /\ N - k \in 1 .. N - 1
            /\ N - k + 1 = (N - k) + 1 /\ k \in 0 .. N - 1
        BY <2>1, <1>2
      <4>2. g[k - 1] \in V /\ Len(g[k - 1].bl) = N - k + 1
        BY <3>2, <4>1, <2>6
      <4>3. g[k] = delblock(g[k - 1], N - k)
        BY <4>2, <2>4, <2>6
      <4>4. Len(g[k].bl) = N - k
        BY <4>1, <4>2, <4>3, <2>2
      <4> QED
        BY <4>1, <4>4
    <3> HIDE DEF T
    <3>3. \A k \in 0 .. N - 1 : k \in T
      BY <3>1, <3>2, <2>1, Steps
    <3> QED
      BY <3>3 DEF T
  <2> DEFINE h == [i \in 1 .. N |-> g[N - i]]
  <2>8. \A i \in 1 .. N : h[i] = IF i = N THEN e ELSE delblock(h[i + 1], i)
    <3> TAKE i \in 1 .. N
    <3>1. CASE i = N
      <4>1. N - i = 0
        BY <3>1, <1>2
      <4> QED
        BY <3>1, <4>1, <2>6
    <3>2. CASE i # N
      <4>1. /\ N - i \in 1 .. N - 1 /\ N - i - 1 \in 0 .. N - 1 /\ N - (i + 1) = N - i - 1
            /\ N - (N - i) = i /\ i + 1 \in 1 .. N /\ N - (N - i - 1) = N - (N - i) + 1
        BY <3>2, <1>2
      <4>2. g[N - i - 1] \in V /\ Len(g[N - i - 1].bl) = N - (N - i) + 1
        BY <4>1, <2>6, <2>7
      <4>3. h[i] = g[N - i] /\ h[i + 1] = g[N - i - 1]
        BY <4>1
      <4> HIDE DEF h
      <4>4. g[N - i] = G[N - i][g[N - i - 1]]
        BY <4>1, <2>6
      <4>5. g[N - i] = delblock(g[N - i - 1], N - (N - i))
        BY <4>1, <4>2, <4>4, <2>4
      <4> QED
        BY <3>2, <4>1, <4>3, <4>5
    <3> QED
      BY <3>1, <3>2
  <2>9. h = [i \in 1 .. N |-> h[i]]
    OBVIOUS
  <2> HIDE DEF h
  <2>10. Is(h)
    BY <2>8, <2>9
  <2>11. Is(left)
    <3> HIDE DEF Is
    <3> QED
      BY <2>10
  <2> HIDE DEF left
  <2>12. \A i \in 1 .. N : left[i] = IF i = N THEN e ELSE delblock(left[i + 1], i)
    BY <2>11
  <2>13. \A k \in 0 .. N - 1 : left[N - k] \in V /\ Len(left[N - k].bl) = N - k
    <3> DEFINE T == {k \in 0 .. N - 1 : left[N - k] \in V /\ Len(left[N - k].bl) = N - k}
    <3>1. 0 \in T
      <4>1. N - 0 = N /\ N \in 1 .. N /\ 0 \in 0 .. N - 1
        BY <2>1, <1>2
      <4>2. left[N] = e
        BY <4>1, <2>12
      <4> QED
        BY <4>1, <4>2, <1>5
    <3>2. ASSUME NEW k \in 1 .. N - 1, k - 1 \in T PROVE k \in T
      <4>1. /\ N - (k - 1) = N - k + 1 /\ N - k \in 1 .. N - 1 /\ N - k \in 1 .. N /\ N - k # N
            /\ k \in 0 .. N - 1
        BY <2>1, <1>2
      <4>2. left[N - k + 1] \in V /\ Len(left[N - k + 1].bl) = N - k + 1
        BY <3>2, <4>1
      <4>3. left[N - k] = delblock(left[N - k + 1], N - k)
        BY <4>1, <2>12
      <4>4. left[N - k] \in V /\ Len(left[N - k].bl) = N - k
        BY <4>1, <4>2, <4>3, <2>2
      <4> QED
        BY <4>1, <4>4
    <3> HIDE DEF T
    <3>3. \A k \in 0 .. N - 1 : k \in T
      BY <3>1, <3>2, <2>1, Steps
    <3> QED
      BY <3>3 DEF T
  <2>14. left[1] \in V
    <3>1. N - 1 \in 0 .. N - 1 /\ N - (N - 1) = 1
      BY <2>1, <1>2
    <3>2. left[N - (N - 1)] \in V
      BY <3>1, <2>13
    <3> QED
      BY <3>1, <3>2
  <2> QED
    BY <2>14, <1>4, <1>6, <1>8
<1> QED
  BY <1>7, <1>8

-----------------------------------------------------------------------------
(* What a Buffer that holds a text says of the file.                       *)

LEMMA ApartBlocks ==
    ASSUME buf \in Buffers, Apart(buf)
    PROVE  BlocksApart
<1> DEFINE All == Used \cup Free
           from(blk) == Place(blk)[1]
           some(blk) == Place(blk)[2]
<1>1. PICK A, room, list : Disk(buf, A, room, list) /\ Chain(buf.bl, A, room, list)
  BY DEF Apart
<1>2. /\ Sizes = Maxblock \div Blockincr /\ Sizes \in Nat /\ buf.addr \in Nat
      /\ Len(buf.bl) \in Nat /\ \A s \in 1 .. Sizes : Len(buf.free[s]) \in Nat
  <2>1. \A s \in 1 .. Sizes : buf.free[s] \in Seq(Nat)
    BY SizeFacts DEF Buffers
  <2>2. \A s \in 1 .. Sizes : Len(buf.free[s]) \in Nat
    BY <2>1
  <2> QED
    BY <2>2, SizeFacts DEF Buffers, Sizes
<1>3. ASSUME NEW blk \in All
      PROVE  \/ \E i \in 1 .. Len(buf.bl) : blk = <<0, i>>
             \/ \E s \in 1 .. Sizes : \E k \in 1 .. Len(buf.free[s]) : blk = <<s, k>>
  BY <1>2 DEF Used, Free
<1>4. ASSUME NEW i \in 1 .. Len(buf.bl)
      PROVE  /\ <<0, i>> \in All
             /\ from(<<0, i>>) = buf.bl[i].addr /\ from(<<0, i>>) \in A
             /\ list[from(<<0, i>>)] = 0 /\ some(<<0, i>>) = room[from(<<0, i>>)]
  <2> DEFINE blk == <<0, i>>
  <2>1. blk[1] = 0 /\ blk[2] = i
    OBVIOUS
  <2>2. blk \in All
    BY DEF Used
  <2> HIDE DEF blk
  <2>3. Place(blk) = <<buf.bl[i].addr, Size(buf.bl[i].n)>>
    BY <2>1 DEF Place
  <2>4. from(blk) = buf.bl[i].addr /\ some(blk) = Size(buf.bl[i].n)
    BY <2>3
  <2>5. buf.bl[i].addr \in A /\ list[buf.bl[i].addr] = 0 /\ room[buf.bl[i].addr] = Size(buf.bl[i].n)
    BY <1>1 DEF Chain
  <2> HIDE DEF from, some, All
  <2> QED
    BY <2>2, <2>4, <2>5 DEF blk
<1>5. ASSUME NEW s \in 1 .. Sizes, NEW k \in 1 .. Len(buf.free[s])
      PROVE  /\ <<s, k>> \in All
             /\ from(<<s, k>>) = buf.free[s][k] /\ from(<<s, k>>) \in A
             /\ list[from(<<s, k>>)] = s /\ some(<<s, k>>) = room[from(<<s, k>>)]
  <2> DEFINE blk == <<s, k>>
             a == buf.free[s][k]
  <2>1. blk[1] = s /\ blk[2] = k /\ s # 0
    BY <1>2
  <2>2. blk \in All
    BY <1>2 DEF Free
  <2>3. a \in Nat
    <3>1. buf.free[s] \in Seq(Nat)
      BY <1>2 DEF Buffers
    <3> QED
      BY <3>1
  <2>4. In(a, buf.free[s])
    BY DEF In
  <2> HIDE DEF blk, a
  <2>5. Place(blk) = <<a, s * Blockincr>>
    BY <2>1 DEF Place, a
  <2>6. from(blk) = a /\ some(blk) = Room(s)
    BY <2>5 DEF Room
  <2>7. a \in A /\ list[a] = s
    BY <2>3, <2>4, <1>1 DEF Disk
  <2>8. room[a] = Room(s)
    BY <2>1, <2>7, <1>1 DEF Disk
  <2> HIDE DEF from, some, All
  <2> QED
    BY <2>2, <2>6, <2>7, <2>8 DEF blk, a
<1>6. ASSUME NEW blk \in All
      PROVE  from(blk) \in A /\ some(blk) = room[from(blk)]
  <2> HIDE DEF from, some, All
  <2>1. CASE \E i \in 1 .. Len(buf.bl) : blk = <<0, i>>
    BY <2>1, <1>4
  <2>2. CASE \E s \in 1 .. Sizes : \E k \in 1 .. Len(buf.free[s]) : blk = <<s, k>>
    BY <2>2, <1>5
  <2> QED
    BY <2>1, <2>2, <1>3
<1>7. ASSUME NEW blk \in All, NEW other \in All, from(blk) = from(other)
      PROVE  blk = other
  <2> HIDE DEF from, some, All
  <2>1. ASSUME NEW i \in 1 .. Len(buf.bl), blk = <<0, i>>,
               NEW j \in 1 .. Len(buf.bl), other = <<0, j>>
        PROVE  blk = other
    <3>1. buf.bl[i].addr = buf.bl[j].addr
      BY <2>1, <1>4, <1>7
    <3> QED
      BY <2>1, <3>1, <1>1 DEF Chain
  <2>2. ASSUME NEW s \in 1 .. Sizes, NEW k \in 1 .. Len(buf.free[s]), blk = <<s, k>>,
               NEW r \in 1 .. Sizes, NEW l \in 1 .. Len(buf.free[r]), other = <<r, l>>
        PROVE  blk = other
    <3>1. s = r /\ buf.free[s][k] = buf.free[r][l]
      BY <2>2, <1>5, <1>7
    <3> QED
      BY <2>2, <3>1, <1>1 DEF Disk, Distinct
  <2>3. ASSUME NEW i \in 1 .. Len(buf.bl), NEW s \in 1 .. Sizes, NEW k \in 1 .. Len(buf.free[s]),
               from(<<0, i>>) = from(<<s, k>>)
        PROVE  FALSE
    <3>1. s = 0
      BY <2>3, <1>4, <1>5
    <3> QED
      BY <3>1
  <2> QED
    BY <2>1, <2>2, <2>3, <1>3, <1>7
<1>8. ASSUME NEW a \in A PROVE \E blk \in All : from(blk) = a
  <2> HIDE DEF from, some, All
  <2>1. a \in Nat /\ list[a] \in 0 .. Sizes
    BY <1>1 DEF Disk
  <2>2. CASE list[a] = 0
    <3>1. PICK i \in 1 .. Len(buf.bl) : buf.bl[i].addr = a
      BY <2>2, <1>1 DEF Chain
    <3> QED
      BY <3>1, <1>4
  <2>3. CASE list[a] # 0
    <3>1. list[a] \in 1 .. Sizes
      BY <2>1, <2>3, <1>2
    <3>2. In(a, buf.free[list[a]])
      BY <2>1, <3>1, <1>1 DEF Disk
    <3>3. PICK s \in 1 .. Sizes : s = list[a]
      BY <3>1
    <3>4. PICK k \in 1 .. Len(buf.free[s]) : buf.free[s][k] = a
      BY <3>2, <3>3 DEF In
    <3>5. <<s, k>> \in All /\ from(<<s, k>>) = a
      BY <3>4, <1>5
    <3> QED
      BY <3>5
  <2> QED
    BY <2>2, <2>3
<1>9. \A blk : Extent(blk) = from(blk) + 1 .. from(blk) + some(blk)
  BY DEF Extent
<1>10. /\ \A a \in A : a \in Nat /\ room[a] \in Nat /\ a + room[a] <= buf.addr
       /\ \A a, d \in A : a # d => a + room[a] <= d \/ d + room[d] <= a
       /\ \A x \in 1 .. buf.addr : \E a \in A : a < x /\ x <= a + room[a]
  <2>1. /\ \A a \in A : a \in Nat /\ room[a] \in Nat /\ a + room[a] <= buf.addr
        /\ \A a, d \in A : a # d => a + room[a] <= d \/ d + room[d] <= a
    BY <1>1, RoomFacts
  <2>2. Tiled(A, room, buf.addr)
    BY <1>1 DEF Disk
  <2>3. \A x \in 1 .. buf.addr : \E a \in A : a < x /\ x <= a + room[a]
    BY <2>2 DEF Tiled
  <2> QED
    BY <2>1, <2>3
<1> HIDE DEF from, some, All
<1>11. UNION {Extent(blk) : blk \in All} = 1 .. buf.addr
  <2>1. ASSUME NEW blk \in All, NEW x \in Extent(blk) PROVE x \in 1 .. buf.addr
    <3> DEFINE a == from(blk)
               r == some(blk)
    <3>1. a \in Nat /\ r \in Nat /\ a + r <= buf.addr /\ x \in a + 1 .. a + r
      BY <1>6, <1>9, <1>10
    <3> HIDE DEF a, r
    <3> QED
      BY <3>1, <1>2
  <2>2. ASSUME NEW x \in 1 .. buf.addr PROVE \E blk \in All : x \in Extent(blk)
    <3>1. PICK a \in A : a < x /\ x <= a + room[a]
      BY <1>10
    <3>2. PICK blk \in All : from(blk) = a
      BY <1>8
    <3>3. some(blk) = room[a] /\ a \in Nat /\ room[a] \in Nat
      BY <3>2, <1>6, <1>10
    <3>4. x \in a + 1 .. a + room[a]
      BY <3>1, <3>3, <1>2
    <3>5. x \in Extent(blk)
      BY <3>2, <3>3, <3>4, <1>9
    <3> QED
      BY <3>5
  <2> QED
    BY <2>1, <2>2
<1>12. ASSUME NEW blk \in All, NEW other \in All, blk # other
       PROVE  Extent(blk) \cap Extent(other) = {}
  <2> DEFINE a == from(blk)
             d == from(other)
             r == some(blk)
             q == some(other)
  <2>1. a # d
    BY <1>7, <1>12
  <2>2. /\ a \in Nat /\ d \in Nat /\ r \in Nat /\ q \in Nat
        /\ a + r <= d \/ d + q <= a
    BY <2>1, <1>6, <1>10
  <2>3. Extent(blk) = a + 1 .. a + r /\ Extent(other) = d + 1 .. d + q
    BY <1>9
  <2> HIDE DEF a, d, r, q
  <2> QED
    BY <2>2, <2>3
<1> QED
  BY <1>11, <1>12 DEF BlocksApart, All

LEMMA HeldContents ==
    ASSUME NEW t \in Seq(Runes), Holds(buf, t)
    PROVE  buf.nc = Len(t) /\ SubSeq(Contents, 1, buf.nc) = t
<1> DEFINE L == Len(buf.bl)
           Is(h) == h = [i \in 0 .. L |-> IF i = 0 THEN << >> ELSE h[i - 1] \o Held(i)]
           upto == CHOOSE h : Is(h)
           V == Seq(Cells)
           G == [k \in 1 .. L |-> [w \in V |-> w \o Held(k)]]
<1>1. buf \in Buffers /\ Apart(buf) /\ \E m \in Nat : \E st : Text(buf, t, st, m)
  BY DEF Holds
<1>2. PICK m \in Nat : \E st : Text(buf, t, st, m)
  BY <1>1
<1>3. PICK st : Text(buf, t, st, m)
  BY <1>2
<1>4. Contents = upto[L]
  BY DEF Contents
<1>5. /\ L \in Nat /\ Len(t) \in Nat /\ buf.nc = Len(t) /\ m \in 0 .. L
      /\ st \in [1 .. m + 1 -> Nat] /\ st[1] = 0 /\ st[m + 1] = Len(t)
      /\ \A i \in 1 .. m : i # buf.cbi => Block(buf, i, t, st[i], st[i + 1])
      /\ buf.c \in Seq(Cells) /\ Len(buf.c) \in Nat
  <2>1. L \in Nat /\ Len(t) \in Nat /\ buf.c \in Seq(Cells)
    BY <1>1 DEF Buffers
  <2> QED
    BY <2>1, <1>3 DEF Text, Lies, Starts
<1>6. ASSUME NEW i \in 1 .. L PROVE Held(i) \in Seq(Cells) /\ Len(Held(i)) \in Nat
  <2>1. diskread(buf, buf.bl[i]) \in Seq(Cells)
    BY <1>1, DiskreadFacts
  <2>2. Held(i) \in Seq(Cells)
    BY <2>1, <1>5 DEF Held
  <2> QED
    BY <2>2
<1>7. ASSUME NEW i \in 1 .. m
      PROVE  /\ st[i] \in Nat /\ st[i + 1] \in Nat /\ st[i + 1] = st[i] + Len(Held(i))
             /\ \A x \in 1 .. Len(Held(i)) : Held(i)[x] = t[st[i] + x]
  <2>1. i \in 1 .. L /\ i \in 1 .. m + 1 /\ i + 1 \in 1 .. m + 1
    BY <1>5
  <2>2. st[i] \in Nat /\ st[i + 1] \in Nat
    BY <2>1, <1>5
  <2>3. CASE i = buf.cbi
    <3>1. buf.bl # << >>
      BY <2>1
    <3>2. Cache(buf, t, st[i], st[i + 1])
      BY <2>3, <3>1, <1>3 DEF Text
    <3>3. Held(i) = buf.c
      BY <2>3 DEF Held
    <3> QED
      BY <2>2, <3>2, <3>3 DEF Cache
  <2>4. CASE i # buf.cbi
    <3> DEFINE c == diskread(buf, buf.bl[i])
    <3>1. Block(buf, i, t, st[i], st[i + 1])
      BY <2>4, <1>5
    <3>2. /\ Len(c) = buf.bl[i].n
          /\ \A x \in 1 .. buf.bl[i].n : c[x] = buf.store[buf.bl[i].addr + x]
      BY <2>1, <1>1, DiskreadFacts
    <3>3. Held(i) = c
      BY <2>4 DEF Held
    <3> HIDE DEF c
    <3> QED
      BY <2>2, <3>1, <3>2, <3>3 DEF Block
  <2> QED
    BY <2>3, <2>4
<1>8. G \in [1 .. L -> [V -> V]]
  <2>1. ASSUME NEW k \in 1 .. L, NEW w \in V PROVE w \o Held(k) \in V
    BY <1>6
  <2> HIDE DEF V, L
  <2> QED
    BY <2>1
<1>9. \A k \in 1 .. L : \A w \in V : G[k][w] = w \o Held(k)
  OBVIOUS
<1> DEFINE a == << >>
<1>10. a \in V
  OBVIOUS
<1> HIDE DEF G, V, a, L
<1>11. PICK f : Iterate(f, V, a, L, G)
  BY <1>5, <1>8, <1>10, Iterates
<1>12. f \in [0 .. L -> V] /\ f[0] = a /\ \A k \in 1 .. L : f[k] = G[k][f[k - 1]]
  BY <1>11 DEF Iterate
<1>13. Is(f)
  <2>1. \A k \in 0 .. L : f[k] = IF k = 0 THEN << >> ELSE f[k - 1] \o Held(k)
    <3> TAKE k \in 0 .. L
    <3>1. CASE k = 0
      BY <3>1, <1>12 DEF a
    <3>2. CASE k # 0
      <4>1. k \in 1 .. L /\ k - 1 \in 0 .. L
        BY <3>2, <1>5
      <4>2. f[k - 1] \in V
        BY <4>1, <1>12
      <4> QED
        BY <3>2, <4>1, <4>2, <1>9, <1>12
    <3> QED
      BY <3>1, <3>2
  <2>2. f = [k \in 0 .. L |-> f[k]]
    BY <1>12
  <2> QED
    BY <2>1, <2>2
<1>14. Is(upto)
  <2> HIDE DEF Is
  <2> QED
    BY <1>13
<1> HIDE DEF upto
<1>15. \A k \in 0 .. L : upto[k] = IF k = 0 THEN << >> ELSE upto[k - 1] \o Held(k)
  BY <1>14
<1> HIDE DEF Is
<1> DEFINE Good(k) == /\ upto[k] \in Seq(Cells) /\ Len(upto[k]) \in Nat
                      /\ k <= m => Len(upto[k]) = st[k + 1]
                      /\ k >= m => Len(upto[k]) >= Len(t)
                      /\ \A x \in 1 .. Len(t) : x <= Len(upto[k]) => upto[k][x] = t[x]
           T == {k \in 0 .. L : Good(k)}
<1>16. 0 \in T
  <2>1. 0 \in 0 .. L
    BY <1>5
  <2>2. upto[0] = << >>
    BY <2>1, <1>15
  <2>3. upto[0] \in Seq(Cells) /\ Len(upto[0]) = 0 /\ 0 + 1 = 1
    BY <2>2
  <2>4. 0 >= m => Len(t) = 0
    BY <1>5
  <2>5. \A x \in 1 .. Len(t) : ~(x <= 0)
    BY <1>5
  <2>6. Good(0)
    BY <2>3, <2>4, <2>5, <1>5
  <2> HIDE DEF Good
  <2> QED
    BY <2>1, <2>6
<1>17. ASSUME NEW k \in 1 .. L, k - 1 \in T PROVE k \in T
  <2> DEFINE u == upto[k - 1]
             w == upto[k]
             h == Held(k)
  <2>1. /\ k \in 0 .. L /\ k # 0 /\ k - 1 \in 0 .. L /\ k - 1 + 1 = k
    BY <1>5
  <2>2. w = u \o h
    BY <2>1, <1>15
  <2>3. /\ u \in Seq(Cells) /\ Len(u) \in Nat
        /\ k - 1 <= m => Len(u) = st[k]
        /\ k - 1 >= m => Len(u) >= Len(t)
        /\ \A x \in 1 .. Len(t) : x <= Len(u) => u[x] = t[x]
    BY <2>1, <1>17
  <2>4. h \in Seq(Cells) /\ Len(h) \in Nat
    BY <1>6
  <2>5. k \in 1 .. m => /\ st[k] \in Nat /\ st[k + 1] = st[k] + Len(h)
                        /\ \A x \in 1 .. Len(h) : h[x] = t[st[k] + x]
    BY <1>7
  <2> HIDE DEF u, w, h
  <2>6. /\ w \in Seq(Cells) /\ Len(w) = Len(u) + Len(h)
        /\ \A x \in 1 .. Len(u) + Len(h) : w[x] = IF x <= Len(u) THEN u[x] ELSE h[x - Len(u)]
    BY <2>2, <2>3, <2>4, JoinFacts
  <2>7. k <= m => Len(w) = st[k + 1]
    <3> SUFFICES ASSUME k <= m PROVE Len(w) = st[k + 1]
      OBVIOUS
    <3>1. k \in 1 .. m /\ k - 1 <= m
      BY <2>1, <1>5
    <3> QED
      BY <3>1, <2>3, <2>5, <2>6
  <2>8. k >= m => Len(w) >= Len(t)
    <3>1. CASE k = m
      BY <3>1, <2>7, <1>5
    <3>2. CASE k > m
      <4>1. k - 1 >= m
        BY <3>2, <1>5
      <4> QED
        BY <4>1, <2>3, <2>4, <2>6, <1>5
    <3> QED
      BY <3>1, <3>2, <1>5
  <2>9. ASSUME NEW x \in 1 .. Len(t), x <= Len(w) PROVE w[x] = t[x]
    <3>1. x \in 1 .. Len(u) + Len(h)
      BY <2>3, <2>4, <2>6, <2>9, <1>5
    <3>2. CASE x <= Len(u)
      BY <3>1, <3>2, <2>3, <2>6
    <3>3. CASE ~(x <= Len(u))
      <4>1. ~(k - 1 >= m)
        BY <3>3, <2>3, <1>5
      <4>2. k \in 1 .. m /\ k - 1 <= m
        BY <4>1, <2>1, <1>5
      <4>3. Len(u) = st[k] /\ x - Len(u) \in 1 .. Len(h) /\ st[k] + (x - Len(u)) = x
        <5>1. /\ x \in 1 .. Len(u) + Len(h) /\ ~(x <= Len(u)) /\ Len(u) \in Nat /\ Len(h) \in Nat
              /\ Len(u) = st[k]
          BY <3>1, <3>3, <4>2, <2>3, <2>4
        <5> QED
          BY <5>1
      <4> QED
        BY <3>1, <3>3, <4>2, <4>3, <2>5, <2>6
    <3> QED
      BY <3>2, <3>3
  <2>10. Len(w) \in Nat
    BY <2>6
  <2>11. Good(k)
    BY <2>6, <2>7, <2>8, <2>9, <2>10 DEF w
  <2> HIDE DEF Good
  <2> QED
    BY <2>1, <2>11
<1> HIDE DEF T
<1>18. \A k \in 0 .. L : k \in T
  BY <1>5, <1>16, <1>17, Steps
<1>19. L \in T /\ L >= m
  BY <1>5, <1>18
<1> DEFINE w == upto[L]
<1>20. w \in Seq(Cells) /\ Len(w) >= Len(t) /\ Len(w) \in Nat
       /\ \A x \in 1 .. Len(t) : w[x] = t[x]
  <2>1. /\ w \in Seq(Cells) /\ Len(w) >= Len(t) /\ Len(w) \in Nat
        /\ \A x \in 1 .. Len(t) : x <= Len(w) => w[x] = t[x]
    BY <1>19 DEF T
  <2> HIDE DEF w
  <2>2. \A x \in 1 .. Len(t) : x <= Len(w)
    BY <2>1, <1>5
  <2> QED
    BY <2>1, <2>2
<1> HIDE DEF w
<1> DEFINE v == SubSeq(w, 1, Len(t))
<1>21. v \in Seq(Cells) /\ Len(v) = Len(t) /\ \A x \in 1 .. Len(t) : v[x] = w[x]
  <2>1. Len(t) \in 0 .. Len(w)
    BY <1>5, <1>20
  <2> QED
    BY <2>1, <1>20, FirstFacts
<1>22. t \in Seq(Cells)
  BY DEF Cells
<1> HIDE DEF v
<1>23. v = t
  BY <1>20, <1>21, <1>22, SameQueue
<1> QED
  BY <1>4, <1>5, <1>23 DEF v, w

-----------------------------------------------------------------------------
(* The logs.  An entry leads from a document to the one before, and what   *)
(* apply writes on the other log leads back.                               *)

LEMMA SpliceBack ==
    ASSUME NEW S, NEW t \in Seq(S), NEW p \in 0 .. Len(t), NEW q \in p .. Len(t)
    PROVE  Splice(Splice(t, p, q, << >>), p, p, SubSeq(t, p + 1, q)) = t
<1> DEFINE none == << >>
           n == q - p
           c == SubSeq(t, p + 1, q)
           u == Splice(t, p, q, none)
           v == Splice(u, p, p, c)
<1>0. Len(t) \in Nat /\ none \in Seq(S) /\ Len(none) = 0
  OBVIOUS
<1>1. n \in Nat /\ p \in Nat /\ q \in Nat /\ q = p + n /\ p + n <= Len(t) /\ q - p = n
  BY <1>0
<1> HIDE DEF none, n
<1>2. c \in Seq(S) /\ Len(c) = n /\ \A x \in 1 .. n : c[x] = t[p + x]
  <2>1. c \in Seq(S) /\ Len(c) = q - p /\ \A x \in 1 .. q - p : c[x] = t[p + x]
    BY PartFacts
  <2> HIDE DEF c
  <2> QED
    BY <2>1, <1>1
<1> HIDE DEF c
<1>3. /\ u \in Seq(S) /\ Len(u) = Len(t) - n
      /\ \A x \in 1 .. Len(t) - n : u[x] = IF x <= p THEN t[x] ELSE t[x + n]
  <2>1. /\ u \in Seq(S) /\ Len(u) = Len(t) - (q - p) + Len(none)
        /\ \A x \in 1 .. Len(t) - (q - p) + Len(none) :
              u[x] = IF x <= p THEN t[x] ELSE IF x <= p + Len(none) THEN none[x - p]
                     ELSE t[x - Len(none) + (q - p)]
    <3>1. none \in Seq(S)
      BY <1>0
    <3> QED
      BY <3>1, SpliceFacts
  <2> HIDE DEF u
  <2>2. Len(t) - (q - p) + Len(none) = Len(t) - n
    BY <1>0, <1>1
  <2>3. ASSUME NEW x \in 1 .. Len(t) - n PROVE u[x] = IF x <= p THEN t[x] ELSE t[x + n]
    <3>1. x \in 1 .. Len(t) - (q - p) + Len(none)
      BY <2>2
    <3>2. u[x] = IF x <= p THEN t[x] ELSE IF x <= p + Len(none) THEN none[x - p]
                 ELSE t[x - Len(none) + (q - p)]
      BY <3>1, <2>1
    <3>3. x - Len(none) + (q - p) = x + n /\ (x <= p + Len(none) <=> x <= p)
      BY <1>0, <1>1
    <3> QED
      BY <3>2, <3>3
  <2> QED
    BY <2>1, <2>2, <2>3
<1> HIDE DEF u
<1>4. /\ v \in Seq(S) /\ Len(v) = Len(u) + Len(c)
      /\ \A x \in 1 .. Len(u) + Len(c) :
            v[x] = IF x <= p THEN u[x] ELSE IF x <= p + Len(c) THEN c[x - p] ELSE u[x - Len(c)]
  <2>1. u \in Seq(S) /\ c \in Seq(S) /\ p \in 0 .. Len(u)
    BY <1>0, <1>1, <1>2, <1>3
  <2> QED
    BY <2>1, SpliceIn
<1> HIDE DEF v
<1>5. Len(v) = Len(t)
  BY <1>0, <1>1, <1>2, <1>3, <1>4
<1>6. ASSUME NEW x \in 1 .. Len(v) PROVE v[x] = t[x]
  <2>1. x \in Nat /\ 1 <= x /\ x <= Len(t) /\ Len(u) = Len(t) - n /\ Len(c) = n
    BY <1>0, <1>2, <1>3, <1>5
  <2>2. x \in 1 .. Len(u) + Len(c)
    BY <1>4
  <2>3. v[x] = IF x <= p THEN u[x] ELSE IF x <= p + n THEN c[x - p] ELSE u[x - n]
    BY <2>1, <2>2, <1>4
  <2>4. CASE x <= p
    <3>1. x \in 1 .. Len(t) - n
      BY <2>1, <2>4, <1>0, <1>1
    <3> QED
      BY <2>3, <2>4, <3>1, <1>3
  <2>5. CASE ~(x <= p) /\ x <= p + n
    <3>1. x - p \in 1 .. n /\ p + (x - p) = x
      BY <2>1, <2>5, <1>1
    <3> QED
      BY <2>3, <2>5, <3>1, <1>2
  <2>6. CASE ~(x <= p + n)
    <3>1. x - n \in 1 .. Len(t) - n /\ ~(x - n <= p) /\ ~(x <= p) /\ (x - n) + n = x
      BY <2>1, <2>6, <1>0, <1>1
    <3> QED
      BY <2>3, <2>6, <3>1, <1>3
  <2> QED
    BY <2>4, <2>5, <2>6
<1>7. v = t
  BY <1>4, <1>5, <1>6, SameQueue
<1> QED
  BY <1>7 DEF v, u, c, none

LEMMA SpliceUndo ==
    ASSUME NEW S, NEW t \in Seq(S), NEW s \in Seq(S), NEW p \in 0 .. Len(t), NEW n, n = Len(s)
    PROVE  Splice(Splice(t, p, p, s), p, p + n, << >>) = t
<1> DEFINE none == << >>
           u == Splice(t, p, p, s)
           q == p + n
           v == Splice(u, p, q, none)
<1>0. Len(t) \in Nat /\ none \in Seq(S) /\ Len(none) = 0 /\ n \in Nat /\ p \in Nat /\ p <= Len(t)
  <2>1. Len(t) \in Nat /\ Len(s) \in Nat
    OBVIOUS
  <2> QED
    BY <2>1
<1> HIDE DEF none
<1>1. /\ u \in Seq(S) /\ Len(u) = Len(t) + n
      /\ \A x \in 1 .. Len(t) + n :
            u[x] = IF x <= p THEN t[x] ELSE IF x <= p + n THEN s[x - p] ELSE t[x - n]
  <2>1. /\ u \in Seq(S) /\ Len(u) = Len(t) + Len(s)
        /\ \A x \in 1 .. Len(t) + Len(s) :
              u[x] = IF x <= p THEN t[x] ELSE IF x <= p + Len(s) THEN s[x - p] ELSE t[x - Len(s)]
    BY SpliceIn
  <2> HIDE DEF u
  <2> QED
    BY <2>1
<1> HIDE DEF u
<1>2. p \in 0 .. Len(u) /\ q \in p .. Len(u) /\ q - p = n
  BY <1>0, <1>1
<1> HIDE DEF q
<1>3. /\ v \in Seq(S) /\ Len(v) = Len(u) - n
      /\ \A x \in 1 .. Len(u) - n : v[x] = IF x <= p THEN u[x] ELSE u[x + n]
  <2>1. /\ v \in Seq(S) /\ Len(v) = Len(u) - (q - p) + Len(none)
        /\ \A x \in 1 .. Len(u) - (q - p) + Len(none) :
              v[x] = IF x <= p THEN u[x] ELSE IF x <= p + Len(none) THEN none[x - p]
                     ELSE u[x - Len(none) + (q - p)]
    <3>1. none \in Seq(S) /\ u \in Seq(S) /\ p \in 0 .. Len(u) /\ q \in p .. Len(u)
      BY <1>0, <1>1, <1>2
    <3> QED
      BY <3>1, SpliceFacts
  <2> HIDE DEF v
  <2>2. Len(u) - (q - p) + Len(none) = Len(u) - n
    BY <1>0, <1>1, <1>2
  <2>3. ASSUME NEW x \in 1 .. Len(u) - n PROVE v[x] = IF x <= p THEN u[x] ELSE u[x + n]
    <3>1. x \in 1 .. Len(u) - (q - p) + Len(none)
      BY <2>2
    <3>2. v[x] = IF x <= p THEN u[x] ELSE IF x <= p + Len(none) THEN none[x - p]
                 ELSE u[x - Len(none) + (q - p)]
      BY <3>1, <2>1
    <3>3. x - Len(none) + (q - p) = x + n /\ (x <= p + Len(none) <=> x <= p)
      BY <1>0, <1>2
    <3> QED
      BY <3>2, <3>3
  <2> QED
    BY <2>1, <2>2, <2>3
<1> HIDE DEF v
<1>4. Len(v) = Len(t) /\ Len(u) - n = Len(t)
  BY <1>0, <1>1, <1>3
<1>5. ASSUME NEW x \in 1 .. Len(v) PROVE v[x] = t[x]
  <2>1. x \in Nat /\ 1 <= x /\ x <= Len(t) /\ x \in 1 .. Len(u) - n /\ x \in 1 .. Len(t) + n
        /\ x + n \in 1 .. Len(t) + n
    BY <1>0, <1>4
  <2>2. v[x] = IF x <= p THEN u[x] ELSE u[x + n]
    BY <2>1, <1>3
  <2>3. CASE x <= p
    BY <2>1, <2>2, <2>3, <1>1
  <2>4. CASE ~(x <= p)
    <3>1. ~(x + n <= p) /\ ~(x + n <= p + n) /\ x + n - n = x
      BY <2>1, <2>4, <1>0
    <3> QED
      BY <2>1, <2>2, <2>4, <3>1, <1>1
  <2> QED
    BY <2>3, <2>4
<1>6. v = t
  BY <1>3, <1>4, <1>5, SameQueue
<1> QED
  BY <1>6 DEF v, q, u, none

Texts == {t \in Seq(Runes) : Len(t) <= MaxText}
Docs == [text : Texts, name : Names]
Entries == [typex : {"Delete", "Insert", "Filename"}, mod : BOOLEAN, seq : 1 .. MaxSeq,
            p0 : 0 .. MaxText, n : 0 .. MaxText, data : Texts \cup Names]

\* The entry u, which command k has written, leads from d back to e.
Leads(u, d, e, k) ==
    /\ u \in Entries /\ d \in Docs /\ e \in Docs /\ u.seq = k
    /\ \/ /\ u.typex = "Delete" /\ u.data = << >> /\ u.p0 + u.n <= Len(d.text)
          /\ e.name = d.name /\ e.text = Splice(d.text, u.p0, u.p0 + u.n, << >>)
       \/ /\ u.typex = "Insert" /\ u.data \in Texts /\ Len(u.data) = u.n /\ u.p0 <= Len(d.text)
          /\ e.name = d.name /\ e.text = Splice(d.text, u.p0, u.p0, u.data)
       \/ /\ u.typex = "Filename" /\ u.data \in Names
          /\ e.name = u.data /\ e.text = d.text

Files == [buf : Buffers, shown : Texts, name : Names, seq : 0 .. MaxSeq, mod : BOOLEAN,
          log : Seq(Entries)]

\* A file that is in the midst of a command and shows d.
Shows(F, d) == F \in Files /\ Holds(F.buf, d.text) /\ F.shown = d.text /\ F.name = d.name

\* G is what becomes of F when a change to e has been logged as command k's.
Logged(F, G, d, e, k) == /\ Shows(G, e) /\ G.seq = k
                         /\ \E v : Leads(v, e, d, k) /\ G.log = Append(F.log, v)

LEMMA FileRecord ==
    ASSUME NEW F \in Files
    PROVE  F = [buf |-> F.buf, shown |-> F.shown, name |-> F.name, seq |-> F.seq, mod |-> F.mod,
                log |-> F.log]
BY DEF Files

LEMMA TextFacts ==
    ASSUME NEW d \in Docs
    PROVE  /\ d.text \in Seq(Runes) /\ Len(d.text) \in Nat /\ Len(d.text) <= MaxText
           /\ d.text \in Texts /\ d.name \in Names
<1>1. d.text \in Texts /\ d.name \in Names
  BY DEF Docs
<1>2. d.text \in Seq(Runes) /\ Len(d.text) <= MaxText
  BY <1>1 DEF Texts
<1>3. Len(d.text) \in Nat
  BY <1>2
<1> QED
  BY <1>1, <1>2, <1>3

\* What a deletion does: the entry that takes it back inserts what was there.
LEMMA DeleteLogged ==
    ASSUME NEW F, NEW d \in Docs, Shows(F, d), NEW k \in 1 .. MaxSeq, NEW mm \in BOOLEAN,
           NEW p \in 0 .. Len(d.text), NEW q \in p .. Len(d.text)
    PROVE  LET G == [F EXCEPT !.seq = k]
               R == [undelete(G, p, q) EXCEPT !.mod = mm, !.buf = delete(@, p, q),
                                              !.shown = Splice(@, p, q, << >>)]
               e == [text |-> Splice(d.text, p, q, << >>), name |-> d.name]
           IN Logged(F, R, d, e, k)
<1> DEFINE t == d.text
           G == [F EXCEPT !.seq = k]
           got == read(F.buf, p, q)
           data == got[2]
           v == [typex |-> "Insert", mod |-> F.mod, seq |-> k, p0 |-> p, n |-> Len(data), data |-> data]
           b == delete(got[1], p, q)
           w == Splice(t, p, q, << >>)
           e == [text |-> w, name |-> d.name]
           U == undelete(G, p, q)
           R == [U EXCEPT !.mod = mm, !.buf = delete(@, p, q), !.shown = Splice(@, p, q, << >>)]
<1>1. /\ t \in Seq(Runes) /\ Len(t) \in Nat /\ Len(t) <= MaxText /\ t \in Texts /\ d.name \in Names
      /\ MaxText \in Nat
  BY TextFacts, FileAssumption
<1>2. /\ F \in Files /\ Holds(F.buf, t) /\ F.shown = t /\ F.name = d.name /\ F.mod \in BOOLEAN
      /\ F.log \in Seq(Entries)
  BY DEF Shows, Files
<1>3. Holds(got[1], t) /\ data = SubSeq(t, p + 1, q)
  <2>1. p \in 0 .. Len(t) /\ q \in p .. Len(t)
    OBVIOUS
  <2> HIDE DEF t
  <2> QED
    BY <2>1, <1>1, <1>2, ReadHolds
<1>4. Holds(b, w)
  <2> DEFINE c == got[1]
  <2>1. p \in 0 .. Len(t) /\ q \in p .. Len(t) /\ Holds(c, t)
    BY <1>3
  <2> HIDE DEF t, c
  <2>2. Holds(delete(c, p, q), Splice(t, p, q, << >>))
    BY <2>1, <1>1, DeleteHolds
  <2> QED
    BY <2>2 DEF c
<1>5. /\ p \in Nat /\ q \in Nat /\ p <= q /\ q <= Len(t)
      /\ p \in 0 .. Len(t) /\ q \in p .. Len(t)
  BY <1>1
<1>6. data \in Seq(Runes) /\ Len(data) = q - p
  <2> HIDE DEF t, data
  <2> QED
    BY <1>1, <1>3, <1>5, PartFacts
<1>7. w \in Seq(Runes) /\ Len(w) = Len(t) - (q - p)
  <2> DEFINE none == << >>
  <2>1. none \in Seq(Runes) /\ Len(none) = 0
    OBVIOUS
  <2> HIDE DEF none, t
  <2>2. Splice(t, p, q, none) \in Seq(Runes) /\ Len(Splice(t, p, q, none)) = Len(t) - (q - p) + Len(none)
    <3>1. none \in Seq(Runes) /\ t \in Seq(Runes) /\ p \in 0 .. Len(t) /\ q \in p .. Len(t)
      BY <2>1, <1>1, <1>5
    <3> QED
      BY <3>1, SpliceFacts
  <2> QED
    BY <2>1, <2>2, <1>1, <1>5 DEF none
<1>8. /\ Len(data) \in 0 .. MaxText /\ p \in 0 .. MaxText /\ data \in Texts /\ w \in Texts
      /\ p <= Len(w)
  <2>1. Len(data) \in 0 .. MaxText /\ Len(w) <= MaxText /\ p <= Len(w) /\ p \in 0 .. MaxText
    BY <1>1, <1>5, <1>6, <1>7
  <2>2. data \in Seq(Runes) /\ w \in Seq(Runes) /\ Len(data) <= MaxText
    BY <2>1, <1>1, <1>6, <1>7
  <2> HIDE DEF data, w
  <2>3. data \in Texts /\ w \in Texts
    BY <2>1, <2>2 DEF Texts
  <2> QED
    BY <2>1, <2>3
<1>9. e \in Docs /\ e.text = w /\ e.name = d.name
  <2> HIDE DEF w
  <2> QED
    BY <1>1, <1>8 DEF Docs
<1>10. Splice(w, p, p, data) = t
  BY <1>1, <1>3, <1>5, SpliceBack
<1>11. U = [G EXCEPT !.buf = got[1], !.log = Append(@, Entry(G, "Insert", p, Len(data), data))]
  <2>1. G.buf = F.buf
    BY <1>2 DEF Files
  <2> QED
    BY <2>1 DEF undelete, undeleted
<1> HIDE DEF t, data, got, b, w, e, U
<1>12. Entry(G, "Insert", p, Len(data), data) = v
  BY <1>2 DEF Entry, Files
<1>13. v \in Entries
  BY <1>2, <1>8 DEF Entries
<1>14. Leads(v, e, d, k)
  <2>1. v.seq = k /\ v.typex = "Insert" /\ v.data = data /\ v.n = Len(data) /\ v.p0 = p
    OBVIOUS
  <2> HIDE DEF v
  <2> QED
    BY <2>1, <1>8, <1>9, <1>10, <1>13 DEF Leads, t
<1> HIDE DEF v
<1>15. G = [buf |-> F.buf, shown |-> t, name |-> d.name, seq |-> k, mod |-> F.mod, log |-> F.log]
  <2>1. F = [buf |-> F.buf, shown |-> F.shown, name |-> F.name, seq |-> F.seq, mod |-> F.mod,
             log |-> F.log]
    BY <1>2, FileRecord
  <2> QED
    BY <2>1, <1>2
<1> HIDE DEF G
<1>16. U = [buf |-> got[1], shown |-> t, name |-> d.name, seq |-> k, mod |-> F.mod,
            log |-> Append(F.log, v)]
  BY <1>11, <1>12, <1>15
<1>17. R = [buf |-> b, shown |-> w, name |-> d.name, seq |-> k, mod |-> mm,
            log |-> Append(F.log, v)]
  <2>1. /\ U.buf = got[1] /\ U.shown = t
        /\ b = delete(got[1], p, q) /\ w = Splice(t, p, q, << >>)
    BY <1>16 DEF b, w
  <2> DEFINE c == got[1]
             l == Append(F.log, v)
  <2>2. U = [buf |-> c, shown |-> t, name |-> d.name, seq |-> k, mod |-> F.mod, log |-> l]
    BY <1>16
  <2> HIDE DEF c, l
  <2>3. R = [[buf |-> c, shown |-> t, name |-> d.name, seq |-> k, mod |-> F.mod, log |-> l]
               EXCEPT !.mod = mm, !.buf = b, !.shown = w]
    BY <2>1, <2>2
  <2> HIDE DEF R
  <2>4. R = [buf |-> b, shown |-> w, name |-> d.name, seq |-> k, mod |-> mm, log |-> l]
    BY <2>3
  <2> QED
    BY <2>4 DEF l
<1>18. R.buf = b /\ R.shown = w /\ R.name = d.name /\ R.seq = k /\ R.log = Append(F.log, v)
  BY <1>17
<1>19. R \in Files
  <2>1. Append(F.log, v) \in Seq(Entries)
    BY <1>2, <1>13
  <2>2. b \in Buffers
    BY <1>4 DEF Holds
  <2>3. k \in 0 .. MaxSeq
    BY FileAssumption
  <2> QED
    BY <2>1, <2>2, <2>3, <1>1, <1>8, <1>17 DEF Files
<1> HIDE DEF R
<1>20. Logged(F, R, d, e, k)
  BY <1>4, <1>9, <1>14, <1>18, <1>19 DEF Logged, Shows
<1> QED
  BY <1>20 DEF R, U, G, e, w, t

\* What an insertion does: the entry that takes it back deletes it.
LEMMA InsertLogged ==
    ASSUME NEW F, NEW d \in Docs, Shows(F, d), NEW k \in 1 .. MaxSeq, NEW mm \in BOOLEAN,
           NEW p \in 0 .. Len(d.text), NEW s \in Texts, NEW n, n = Len(s),
           Len(d.text) + n <= MaxText
    PROVE  LET G == [F EXCEPT !.seq = k]
               R == [uninsert(G, p, n) EXCEPT !.mod = mm, !.buf = insert(@, p, s),
                                              !.shown = Splice(@, p, p, s)]
               e == [text |-> Splice(d.text, p, p, s), name |-> d.name]
           IN Logged(F, R, d, e, k)
<1> DEFINE t == d.text
           G == [F EXCEPT !.seq = k]
           none == << >>
           v == [typex |-> "Delete", mod |-> F.mod, seq |-> k, p0 |-> p, n |-> n, data |-> none]
           b == insert(F.buf, p, s)
           w == Splice(t, p, p, s)
           e == [text |-> w, name |-> d.name]
           U == uninsert(G, p, n)
           R == [U EXCEPT !.mod = mm, !.buf = insert(@, p, s), !.shown = Splice(@, p, p, s)]
<1>1. /\ t \in Seq(Runes) /\ Len(t) \in Nat /\ Len(t) <= MaxText /\ t \in Texts /\ d.name \in Names
      /\ MaxText \in Nat
  BY TextFacts, FileAssumption
<1>2. /\ F \in Files /\ Holds(F.buf, t) /\ F.shown = t /\ F.name = d.name /\ F.mod \in BOOLEAN
      /\ F.log \in Seq(Entries)
  BY DEF Shows, Files
<1>3. s \in Seq(Runes) /\ n \in Nat /\ p \in 0 .. Len(t) /\ Len(t) + n <= MaxText
  <2>1. s \in Seq(Runes)
    BY DEF Texts
  <2>2. Len(s) \in Nat
    BY <2>1
  <2> QED
    BY <2>1, <2>2
<1>4. Holds(b, w)
  <2> HIDE DEF t
  <2>1. t \in Seq(Runes) /\ s \in Seq(Runes) /\ p \in 0 .. Len(t) /\ Holds(F.buf, t)
    BY <1>1, <1>2, <1>3
  <2> QED
    BY <2>1, InsertHolds
<1>5. /\ p \in Nat /\ p <= Len(t) /\ n \in 0 .. MaxText /\ p \in 0 .. MaxText
      /\ p + n <= Len(t) + n
  BY <1>1, <1>3
<1>6. w \in Seq(Runes) /\ Len(w) = Len(t) + n
  <2> HIDE DEF t
  <2>1. t \in Seq(Runes) /\ s \in Seq(Runes) /\ p \in 0 .. Len(t)
    BY <1>1, <1>3
  <2>2. w \in Seq(Runes) /\ Len(w) = Len(t) + Len(s)
    BY <2>1, SpliceIn
  <2> HIDE DEF w
  <2> QED
    BY <2>2
<1>7. w \in Texts /\ p + n <= Len(w) /\ none \in Texts
  <2> HIDE DEF w, t
  <2>1. Len(w) <= MaxText /\ p + n <= Len(w)
    BY <1>3, <1>5, <1>6
  <2>2. none \in Seq(Runes) /\ Len(none) <= MaxText
    BY <1>1
  <2> QED
    BY <2>1, <2>2, <1>6 DEF Texts
<1>8. e \in Docs /\ e.text = w /\ e.name = d.name
  <2> HIDE DEF w
  <2> QED
    BY <1>1, <1>7 DEF Docs
<1>9. Splice(w, p, p + n, none) = t
  <2> HIDE DEF t
  <2>1. t \in Seq(Runes) /\ s \in Seq(Runes) /\ p \in 0 .. Len(t) /\ n = Len(s)
    BY <1>1, <1>3
  <2> QED
    BY <2>1, SpliceUndo
<1> HIDE DEF t, none, b, w, e
<1>10. Entry(G, "Delete", p, n, << >>) = v /\ U = [G EXCEPT !.log = Append(@, v)]
  BY <1>2 DEF Entry, Files, uninsert, none
<1>11. v \in Entries
  BY <1>2, <1>5, <1>7 DEF Entries
<1>12. Leads(v, e, d, k)
  <2>1. v.seq = k /\ v.typex = "Delete" /\ v.data = none /\ v.n = n /\ v.p0 = p
    OBVIOUS
  <2> HIDE DEF v
  <2> QED
    BY <2>1, <1>7, <1>8, <1>9, <1>11 DEF Leads, t, none
<1> HIDE DEF v
<1>13. G = [buf |-> F.buf, shown |-> t, name |-> d.name, seq |-> k, mod |-> F.mod, log |-> F.log]
  <2>1. F = [buf |-> F.buf, shown |-> F.shown, name |-> F.name, seq |-> F.seq, mod |-> F.mod,
             log |-> F.log]
    BY <1>2, FileRecord
  <2> QED
    BY <2>1, <1>2
<1> HIDE DEF G, U
<1>14. R = [buf |-> b, shown |-> w, name |-> d.name, seq |-> k, mod |-> mm,
            log |-> Append(F.log, v)]
  <2> DEFINE c == F.buf
             l == Append(F.log, v)
  <2>1. U = [buf |-> c, shown |-> t, name |-> d.name, seq |-> k, mod |-> F.mod, log |-> l]
    BY <1>10, <1>13
  <2>2. U.buf = c /\ U.shown = t /\ b = insert(c, p, s) /\ w = Splice(t, p, p, s)
    BY <2>1 DEF b, w
  <2> HIDE DEF c, l
  <2>3. R = [[buf |-> c, shown |-> t, name |-> d.name, seq |-> k, mod |-> F.mod, log |-> l]
               EXCEPT !.mod = mm, !.buf = b, !.shown = w]
    BY <2>1, <2>2
  <2> HIDE DEF R
  <2>4. R = [buf |-> b, shown |-> w, name |-> d.name, seq |-> k, mod |-> mm, log |-> l]
    BY <2>3
  <2> QED
    BY <2>4 DEF l
<1>15. R.buf = b /\ R.shown = w /\ R.name = d.name /\ R.seq = k /\ R.log = Append(F.log, v)
  BY <1>14
<1>16. R \in Files
  <2>1. Append(F.log, v) \in Seq(Entries)
    BY <1>2, <1>11
  <2>2. b \in Buffers
    BY <1>4 DEF Holds
  <2>3. k \in 0 .. MaxSeq
    BY FileAssumption
  <2> QED
    BY <2>1, <2>2, <2>3, <1>1, <1>7, <1>14 DEF Files
<1> HIDE DEF R
<1>17. Logged(F, R, d, e, k)
  BY <1>4, <1>8, <1>12, <1>15, <1>16 DEF Logged, Shows
<1> QED
  BY <1>17 DEF R, U, G, e, w, t

\* What a change of name does.
LEMMA NameLogged ==
    ASSUME NEW G, NEW d \in Docs, Shows(G, d), NEW k \in 1 .. MaxSeq, G.seq = k,
           NEW mm \in BOOLEAN, NEW n \in Names
    PROVE  LET R == [unsetname(G) EXCEPT !.mod = mm, !.name = n]
               e == [text |-> d.text, name |-> n]
           IN Logged(G, R, d, e, k)
<1> DEFINE z == 0
           v == [typex |-> "Filename", mod |-> G.mod, seq |-> k, p0 |-> z, n |-> z,
                 data |-> d.name]
           e == [text |-> d.text, name |-> n]
           l == Append(G.log, v)
           R == [unsetname(G) EXCEPT !.mod = mm, !.name = n]
<1>1. d.text \in Texts /\ d.name \in Names /\ z \in 0 .. MaxText
  BY TextFacts, FileAssumption
<1>2. /\ G \in Files /\ Holds(G.buf, d.text) /\ G.shown = d.text /\ G.name = d.name
      /\ G.log \in Seq(Entries) /\ G.buf \in Buffers /\ G.mod \in BOOLEAN
  BY DEF Shows, Files
<1>3. G = [buf |-> G.buf, shown |-> d.text, name |-> d.name, seq |-> k, mod |-> G.mod,
           log |-> G.log]
  BY <1>2, FileRecord
<1>4. Entry(G, "Filename", 0, 0, G.name) = v
  BY <1>2 DEF Entry
<1> HIDE DEF z
<1>5. v \in Entries
  BY <1>1, <1>2 DEF Entries
<1>6. e \in Docs /\ e.text = d.text /\ e.name = n
  BY <1>1 DEF Docs
<1>7. Leads(v, e, d, k)
  BY <1>1, <1>5, <1>6 DEF Leads
<1> HIDE DEF v
<1>8. l = Append(G.log, Entry(G, "Filename", 0, 0, G.name)) /\ l \in Seq(Entries)
  BY <1>2, <1>4, <1>5
<1> HIDE DEF l
<1>9. R = [buf |-> G.buf, shown |-> d.text, name |-> n, seq |-> k, mod |-> mm, log |-> l]
  <2> DEFINE U == unsetname(G)
  <2>1. U = [G EXCEPT !.log = l]
    BY <1>8 DEF unsetname
  <2> HIDE DEF U
  <2>2. U = [buf |-> G.buf, shown |-> d.text, name |-> d.name, seq |-> k, mod |-> G.mod,
             log |-> l]
    BY <1>3, <2>1
  <2> DEFINE c == G.buf
             t == d.text
             V == [buf |-> c, shown |-> t, name |-> d.name, seq |-> k, mod |-> G.mod, log |-> l]
  <2>3. R = [V EXCEPT !.mod = mm, !.name = n]
    BY <2>2 DEF U
  <2> HIDE DEF c, t, R
  <2>4. R = [buf |-> c, shown |-> t, name |-> n, seq |-> k, mod |-> mm, log |-> l]
    BY <2>3
  <2> QED
    BY <2>4 DEF c, t
<1>10. R.buf = G.buf /\ R.shown = d.text /\ R.name = n /\ R.seq = k /\ R.log = l
  BY <1>9
<1>11. R \in Files
  <2>1. k \in 0 .. MaxSeq
    BY FileAssumption
  <2> QED
    BY <2>1, <1>1, <1>2, <1>8, <1>9 DEF Files
<1> HIDE DEF R, e
<1>12. Logged(G, R, d, e, k)
  BY <1>2, <1>6, <1>7, <1>10, <1>11 DEF Logged, Shows, l
<1> QED
  BY <1>12 DEF R, e

\* What undo does with the entry that leads from the document shown to another.
LEMMA ApplyFacts ==
    ASSUME NEW F, NEW u, NEW d, NEW e, NEW k \in 1 .. MaxSeq, Shows(F, d), Leads(u, d, e, k)
    PROVE  Logged(F, apply(F, u), d, e, k)
<1> DEFINE G == [F EXCEPT !.seq = k]
           p == u.p0
           n == u.n
           x == u.data
           mm == u.mod
           t == d.text
<1>1. /\ u \in Entries /\ d \in Docs /\ e \in Docs /\ u.seq = k /\ mm \in BOOLEAN
      /\ p \in 0 .. MaxText /\ n \in 0 .. MaxText
  BY DEF Leads, Entries
<1>2. e = [text |-> e.text, name |-> e.name] /\ e.text \in Texts
  BY <1>1 DEF Docs
<1>3. t \in Seq(Runes) /\ Len(t) \in Nat /\ Len(t) <= MaxText /\ MaxText \in Nat
  BY <1>1, TextFacts, FileAssumption
<1>4. CASE u.typex = "Delete"
  <2> DEFINE q == p + n
             R == [undelete(G, p, q) EXCEPT !.mod = mm, !.buf = delete(@, p, q),
                                            !.shown = Splice(@, p, q, << >>)]
  <2>1. q <= Len(t) /\ e.name = d.name /\ e.text = Splice(t, p, q, << >>)
    BY <1>4 DEF Leads
  <2>2. p \in 0 .. Len(t) /\ q \in p .. Len(t)
    BY <2>1, <1>1, <1>3
  <2>3. apply(F, u) = R
    BY <1>1, <1>4 DEF apply
  <2>4. Logged(F, R, d, [text |-> Splice(t, p, q, << >>), name |-> d.name], k)
    <3> HIDE DEF q, p, mm
    <3> QED
      BY <2>2, <1>1, DeleteLogged
  <2> HIDE DEF R, q, p
  <2> QED
    BY <2>1, <2>3, <2>4, <1>2
<1>5. CASE u.typex = "Insert"
  <2> DEFINE R == [uninsert(G, p, n) EXCEPT !.mod = mm, !.buf = insert(@, p, x),
                                            !.shown = Splice(@, p, p, x)]
             w == Splice(t, p, p, x)
  <2>1. x \in Texts /\ Len(x) = n /\ p <= Len(t) /\ e.name = d.name /\ e.text = w
    BY <1>5 DEF Leads
  <2>2. p \in 0 .. Len(t) /\ x \in Seq(Runes)
    BY <2>1, <1>1, <1>3 DEF Texts
  <2>3. Len(w) = Len(t) + Len(x)
    <3> HIDE DEF t, p, x
    <3> QED
      BY <2>2, <1>3, SpliceIn
  <2>4. Len(w) <= MaxText
    BY <2>1, <1>2 DEF Texts
  <2>5. Len(t) + n <= MaxText
    <3> HIDE DEF t, x, n, w
    <3> QED
      BY <2>1, <2>3, <2>4
  <2>6. apply(F, u) = R
    BY <1>1, <1>5 DEF apply
  <2>7. Logged(F, R, d, [text |-> w, name |-> d.name], k)
    <3> HIDE DEF p, mm, x, n
    <3> QED
      BY <2>1, <2>2, <2>5, <1>1, InsertLogged
  <2> HIDE DEF R, w
  <2> QED
    BY <2>1, <2>6, <2>7, <1>2
<1>6. CASE u.typex = "Filename"
  <2> DEFINE R == [unsetname(G) EXCEPT !.mod = mm, !.name = x]
  <2>1. x \in Names /\ e.name = x /\ e.text = t
    BY <1>6 DEF Leads
  <2>2. F \in Files
    BY DEF Shows
  <2>3. k \in 0 .. MaxSeq
    BY FileAssumption
  <2>4. /\ G \in Files /\ G.seq = k /\ G.buf = F.buf /\ G.shown = F.shown /\ G.name = F.name
        /\ G.log = F.log
    BY <2>2, <2>3 DEF Files
  <2>5. apply(F, u) = R
    BY <1>1, <1>6 DEF apply
  <2> HIDE DEF G
  <2>6. Shows(G, d)
    BY <2>4 DEF Shows
  <2>7. Logged(G, R, d, [text |-> t, name |-> x], k)
    <3> HIDE DEF mm, x
    <3> QED
      BY <2>1, <2>4, <2>6, <1>1, NameLogged
  <2> HIDE DEF R
  <2>8. Logged(G, R, d, e, k)
    BY <2>1, <2>7, <1>2
  <2> QED
    BY <2>4, <2>5, <2>8 DEF Logged
<1> QED
  BY <1>4, <1>5, <1>6 DEF Leads

\* R is what F becomes by the last j of the L entries of a log, which lead back along
\* the documents D and are of the commands S.
Turned(F, R, D, S, L, j) ==
    /\ Shows(R, D[L - j])
    /\ R.seq = IF j = 0 THEN F.seq ELSE S[L - j + 1]
    /\ Len(R.log) = Len(F.log) + j
    /\ \A x \in 1 .. Len(F.log) : R.log[x] = F.log[x]
    /\ \A y \in 1 .. j : Leads(R.log[Len(F.log) + y], D[L - y], D[L - y + 1], S[L - y + 1])

LEMMA TurnFacts ==
    ASSUME NEW F, F \in Files, NEW R, NEW D, NEW S, NEW L \in Nat, NEW j \in 0 .. L - 1,
           Turned(F, R, D, S, L, j), NEW u, Leads(u, D[L - j], D[L - j - 1], S[L - j]),
           S[L - j] \in 1 .. MaxSeq
    PROVE  Turned(F, apply(R, u), D, S, L, j + 1)
<1> DEFINE T == apply(R, u)
           m == j + 1
           i == L - j
           M == Len(F.log)
           N == Len(R.log)
<1>1. /\ m \in 1 .. L /\ i - 1 = L - m /\ i = L - m + 1 /\ m # 0 /\ i \in Nat /\ j \in Nat /\ m = j + 1
      /\ i - 1 = L - j - 1
  OBVIOUS
<1>2. /\ Shows(R, D[i]) /\ N = M + j
      /\ \A x \in 1 .. M : R.log[x] = F.log[x]
      /\ \A y \in 1 .. j : Leads(R.log[M + y], D[L - y], D[L - y + 1], S[L - y + 1])
  BY DEF Turned
<1>3. F.log \in Seq(Entries) /\ R.log \in Seq(Entries)
  BY <1>2 DEF Shows, Files
<1>4. M \in Nat /\ N \in Nat
  BY <1>3
<1>5. Leads(u, D[i], D[i - 1], S[i]) /\ S[i] \in 1 .. MaxSeq
  BY <1>1
<1> HIDE DEF m, i, M, N, T
<1>6. Logged(R, T, D[i], D[i - 1], S[i])
  BY <1>2, <1>5, ApplyFacts DEF T
<1>7. PICK v : Leads(v, D[i - 1], D[i], S[i]) /\ T.log = Append(R.log, v)
  BY <1>6 DEF Logged
<1>8. v \in Entries
  BY <1>7 DEF Leads
<1>9. /\ Len(T.log) = N + 1 /\ \A x \in 1 .. N : T.log[x] = R.log[x]
      /\ T.log[N + 1] = v
  BY <1>3, <1>7, <1>8, AppendFacts DEF N
<1>10. Shows(T, D[L - m]) /\ T.seq = S[L - m + 1]
  <2>1. Shows(T, D[i - 1]) /\ T.seq = S[i]
    BY <1>6 DEF Logged
  <2> QED
    BY <2>1, <1>1
<1>11. Len(T.log) = M + m
  BY <1>1, <1>2, <1>4, <1>9
<1>12. ASSUME NEW x \in 1 .. M PROVE T.log[x] = F.log[x]
  <2>1. x \in 1 .. N
    BY <1>1, <1>2, <1>4
  <2> QED
    BY <2>1, <1>2, <1>9
<1>13. ASSUME NEW y \in 1 .. m
       PROVE  Leads(T.log[M + y], D[L - y], D[L - y + 1], S[L - y + 1])
  <2>1. CASE y = m
    <3>1. M + y = N + 1 /\ L - y = i - 1 /\ L - y + 1 = i
      BY <2>1, <1>1, <1>2, <1>4
    <3>2. Leads(T.log[N + 1], D[i - 1], D[i], S[i])
      BY <1>7, <1>9
    <3> QED
      BY <3>1, <3>2
  <2>2. CASE y # m
    <3>1. y \in 1 .. j /\ M + y \in 1 .. N
      BY <2>2, <1>1, <1>2, <1>4
    <3>2. T.log[M + y] = R.log[M + y]
      BY <3>1, <1>9
    <3> QED
      BY <3>1, <3>2, <1>2
  <2> QED
    BY <2>1, <2>2
<1>14. Turned(F, T, D, S, L, m)
  BY <1>1, <1>10, <1>11, <1>12, <1>13 DEF Turned, M
<1> QED
  BY <1>14 DEF T, m

LEMMA ReversedFacts ==
    ASSUME NEW F, NEW from \in Seq(Entries), NEW D, NEW S, NEW L, L = Len(from),
           Shows(F, D[L]), NEW n \in 0 .. L,
           \A i \in 1 .. L : Leads(from[i], D[i], D[i - 1], S[i]) /\ S[i] \in 1 .. MaxSeq
    PROVE  Turned(F, Reversed(F, from, n), D, S, L, L - n)
<1> DEFINE Is(h) == h = [i \in n .. Len(from) |->
                            IF i = Len(from) THEN F ELSE apply(h[i + 1], from[i + 1])]
           done == CHOOSE h : Is(h)
           M == L - n
           Good(X, k) == Turned(F, X, D, S, L, k)
           G == [k \in 1 .. M |->
                    [X \in Files |-> IF Good(X, k - 1) THEN apply(X, from[L - k + 1]) ELSE X]]
<1>1. Reversed(F, from, n) = done[n]
  BY DEF Reversed
<1>2. L \in Nat /\ n \in Nat /\ n <= L /\ M \in Nat /\ L = n + M
  OBVIOUS
<1>3. F \in Files /\ F.log \in Seq(Entries)
  BY DEF Shows, Files
<1>4. Good(F, 0)
  <2>1. L - 0 = L /\ Len(F.log) = Len(F.log) + 0
    BY <1>2, <1>3
  <2> QED
    BY <2>1 DEF Turned
<1>5. ASSUME NEW X, NEW k \in 1 .. M, Good(X, k - 1)
      PROVE  Good(apply(X, from[L - k + 1]), k) /\ apply(X, from[L - k + 1]) \in Files
  <2> DEFINE j == k - 1
             i == L - j
  <2>1. j \in 0 .. L - 1 /\ j + 1 = k /\ i \in 1 .. L /\ i = L - k + 1 /\ L - j - 1 = i - 1
    BY <1>2
  <2>2. Leads(from[i], D[i], D[i - 1], S[i]) /\ S[i] \in 1 .. MaxSeq
    BY <2>1
  <2>3. Leads(from[i], D[L - j], D[L - j - 1], S[L - j]) /\ S[L - j] \in 1 .. MaxSeq
    BY <2>1, <2>2
  <2>4. Turned(F, X, D, S, L, j)
    BY <1>5
  <2> HIDE DEF j, i, Good
  <2>5. Turned(F, apply(X, from[i]), D, S, L, j + 1)
    BY <2>1, <2>3, <2>4, <1>2, <1>3, TurnFacts
  <2>6. apply(X, from[i]) \in Files
    BY <2>5 DEF Turned, Shows
  <2> QED
    BY <2>1, <2>5, <2>6 DEF Good
<1>6. G \in [1 .. M -> [Files -> Files]]
  <2> HIDE DEF Good, M
  <2>1. ASSUME NEW k \in 1 .. M, NEW X \in Files
        PROVE  (IF Good(X, k - 1) THEN apply(X, from[L - k + 1]) ELSE X) \in Files
    BY <1>5
  <2> QED
    BY <2>1
<1>7. \A k \in 1 .. M : \A X \in Files :
          G[k][X] = IF Good(X, k - 1) THEN apply(X, from[L - k + 1]) ELSE X
  OBVIOUS
<1> HIDE DEF G, M, Good
<1>8. PICK g : Iterate(g, Files, F, M, G)
  BY <1>2, <1>3, <1>6, Iterates
<1>9. /\ g \in [0 .. M -> Files] /\ g[0] = F
      /\ \A k \in 1 .. M : g[k] = G[k][g[k - 1]]
  BY <1>8 DEF Iterate
<1>10. \A k \in 0 .. M : Good(g[k], k)
  <2> DEFINE T == {k \in 0 .. M : Good(g[k], k)}
  <2>1. 0 \in T
    BY <1>2, <1>4, <1>9
  <2>2. ASSUME NEW k \in 1 .. M, k - 1 \in T PROVE k \in T
    <3>1. k - 1 \in 0 .. M /\ k \in 0 .. M
      BY <1>2
    <3>2. Good(g[k - 1], k - 1) /\ g[k - 1] \in Files
      BY <2>2, <3>1, <1>9
    <3>3. g[k] = apply(g[k - 1], from[L - k + 1])
      BY <3>2, <1>7, <1>9
    <3> QED
      BY <3>1, <3>2, <3>3, <1>5
  <2> HIDE DEF T
  <2>3. \A k \in 0 .. M : k \in T
    BY <2>1, <2>2, <1>2, Steps
  <2> QED
    BY <2>3 DEF T
<1> DEFINE h == [i \in n .. L |-> g[L - i]]
<1>11. \A i \in n .. L : h[i] = IF i = L THEN F ELSE apply(h[i + 1], from[i + 1])
  <2> TAKE i \in n .. L
  <2>1. CASE i = L
    <3>1. L - i = 0
      BY <2>1, <1>2
    <3> QED
      BY <2>1, <3>1, <1>9
  <2>2. CASE i # L
    <3> DEFINE k == L - i
    <3>1. /\ k \in 1 .. M /\ k - 1 \in 0 .. M /\ L - (i + 1) = k - 1
          /\ L - k + 1 = i + 1 /\ i + 1 \in n .. L
      BY <2>2, <1>2
    <3>2. h[i] = g[k] /\ h[i + 1] = g[k - 1]
      BY <3>1
    <3> HIDE DEF h, k
    <3>3. Good(g[k - 1], k - 1) /\ g[k - 1] \in Files
      BY <3>1, <1>9, <1>10
    <3>4. g[k] = apply(g[k - 1], from[L - k + 1])
      BY <3>1, <3>3, <1>7, <1>9
    <3> QED
      BY <2>2, <3>1, <3>2, <3>4
  <2> QED
    BY <2>1, <2>2
<1>12. h = [i \in n .. L |-> h[i]]
  OBVIOUS
<1> HIDE DEF h
<1>13. Is(h)
  BY <1>11, <1>12
<1>14. Is(done)
  <2> HIDE DEF Is
  <2> QED
    BY <1>13
<1> HIDE DEF done
<1>15. \A i \in n .. L : done[i] = IF i = L THEN F ELSE apply(done[i + 1], from[i + 1])
  BY <1>14
<1> HIDE DEF Is
<1>16. \A k \in 0 .. M : Good(done[L - k], k)
  <2> DEFINE T == {k \in 0 .. M : Good(done[L - k], k)}
  <2>1. 0 \in T
    <3>1. L - 0 = L /\ L \in n .. L /\ 0 \in 0 .. M
      BY <1>2
    <3> QED
      BY <3>1, <1>4, <1>15
  <2>2. ASSUME NEW k \in 1 .. M, k - 1 \in T PROVE k \in T
    <3>1. /\ k - 1 \in 0 .. M /\ k \in 0 .. M /\ L - k \in n .. L /\ L - k # L
          /\ L - (k - 1) = L - k + 1
      BY <1>2
    <3>2. Good(done[L - k + 1], k - 1)
      BY <2>2, <3>1
    <3>3. done[L - k] = apply(done[L - k + 1], from[L - k + 1])
      BY <3>1, <1>15
    <3> QED
      BY <3>1, <3>2, <3>3, <1>5
  <2> HIDE DEF T
  <2>3. \A k \in 0 .. M : k \in T
    BY <2>1, <2>2, <1>2, Steps
  <2> QED
    BY <2>3 DEF T
<1>17. M \in 0 .. M /\ L - M = n /\ M = L - n
  BY <1>2 DEF M
<1>18. Good(done[n], L - n)
  <2>1. Good(done[L - M], M)
    BY <1>16, <1>17
  <2> QED
    BY <2>1, <1>17
<1> QED
  BY <1>1, <1>18 DEF Good

LEMMA KeptFacts ==
    ASSUME NEW L \in Nat, NEW stops \in SUBSET (1 .. L)
    PROVE  /\ Kept(stops) \in 0 .. L /\ Kept(stops) \in {0} \cup stops
           /\ \A i \in stops : i <= Kept(stops)
<1> DEFINE S == {0} \cup stops
           T == {y \in 0 .. L : L - y \in S}
<1>1. L \in T /\ T \in SUBSET Nat
  OBVIOUS
<1>2. PICK y \in T : \A z \in T : y <= z
  <2> HIDE DEF T
  <2> QED
    BY <1>1, Least
<1>3. L - y \in S /\ \A i \in S : L - y >= i
  <2>1. L - y \in S /\ y \in 0 .. L
    OBVIOUS
  <2>2. ASSUME NEW i \in S PROVE L - y >= i
    <3>1. i \in 0 .. L
      OBVIOUS
    <3>2. L - i \in T
      BY <3>1
    <3>3. y <= L - i
      BY <3>2, <1>2
    <3> QED
      BY <2>1, <3>1, <3>3
  <2> QED
    BY <2>1, <2>2
<1> HIDE DEF T
<1>4. Max(S) \in S /\ \A i \in S : Max(S) >= i
  BY <1>3 DEF Max
<1>5. S \in SUBSET (0 .. L)
  OBVIOUS
<1>6. Kept(stops) = Max(S)
  BY DEF Kept
<1>7. \A i \in S : i \in Nat
  BY <1>5
<1>8. Max(S) \in 0 .. L
  BY <1>4, <1>5
<1>9. \A i \in stops : i <= Max(S)
  BY <1>4, <1>7, <1>8
<1> QED
  BY <1>4, <1>6, <1>8, <1>9

-----------------------------------------------------------------------------
(* The documents that a log leads back to, one for each command.           *)

\* The entries of d lead back through docs; those of e, forward from the (N - Len(e))th.
Behind(d, docs, sq) == \A i \in 1 .. Len(d) : Leads(d[i], docs[i], docs[i - 1], sq[i])
Ahead(e, docs, sq, N) ==
    \A j \in 1 .. Len(e) : Leads(e[j], docs[N - j], docs[N - j + 1], sq[N - j + 1])

LEMMA BackFacts ==
    ASSUME NEW u, NEW d, NEW e, NEW k, Leads(u, d, e, k)
    PROVE  Back(u, d) = e
<1>1. /\ d \in Docs /\ e \in Docs
      /\ \/ /\ u.typex = "Delete" /\ e.name = d.name
            /\ e.text = Splice(d.text, u.p0, u.p0 + u.n, << >>)
         \/ /\ u.typex = "Insert" /\ e.name = d.name
            /\ e.text = Splice(d.text, u.p0, u.p0, u.data)
         \/ /\ u.typex = "Filename" /\ e.name = u.data /\ e.text = d.text
  BY DEF Leads
<1>2. d = [text |-> d.text, name |-> d.name] /\ e = [text |-> e.text, name |-> e.name]
  BY <1>1 DEF Docs
<1>3. CASE u.typex = "Delete"
  <2> DEFINE w == Splice(d.text, u.p0, u.p0 + u.n, << >>)
  <2>1. Back(u, d) = [d EXCEPT !.text = w] /\ e.name = d.name /\ e.text = w
    BY <1>1, <1>3 DEF Back
  <2> HIDE DEF w
  <2> QED
    BY <2>1, <1>2
<1>4. CASE u.typex = "Insert"
  <2> DEFINE w == Splice(d.text, u.p0, u.p0, u.data)
  <2>1. Back(u, d) = [d EXCEPT !.text = w] /\ e.name = d.name /\ e.text = w
    BY <1>1, <1>4 DEF Back
  <2> HIDE DEF w
  <2> QED
    BY <2>1, <1>2
<1>5. CASE u.typex = "Filename"
  <2>1. Back(u, d) = [d EXCEPT !.name = u.data] /\ e.name = u.data /\ e.text = d.text
    BY <1>1, <1>5 DEF Back
  <2> QED
    BY <2>1, <1>2
<1> QED
  BY <1>1, <1>3, <1>4, <1>5

\* f[i] is the documents of D before i that a command of S changed first.
Lists(f, D, S, n) ==
    /\ f[0] = << >>
    /\ \A i \in 0 .. n : f[i] \in Seq(Docs)
    /\ \A i \in 1 .. n : f[i] = IF i = 1 \/ S[i] # S[i - 1] THEN Append(f[i - 1], D[i - 1])
                                ELSE f[i - 1]

LEMMA DocumentsFacts ==
    ASSUME NEW log \in Seq(Entries), NEW D, NEW S, Behind(log, D, S), NEW n, n = Len(log)
    PROVE  \E f : Lists(f, D, S, n) /\ Documents(log, D[n]) = f[n]
<1> DEFINE doc == D[n]
           IsB(b) == b = [i \in 1 .. Len(log) + 1 |->
                             IF i = Len(log) + 1 THEN doc ELSE Back(log[i], b[i + 1])]
           before == CHOOSE b : IsB(b)
           IsU(u) == u = [i \in 0 .. Len(log) |->
                             IF i = 0 THEN << >>
                             ELSE IF i = 1 \/ log[i].seq # log[i - 1].seq
                                  THEN Append(u[i - 1], before[i]) ELSE u[i - 1]]
           upto == CHOOSE u : IsU(u)
<1>1. Documents(log, doc) = upto[n]
  BY DEF Documents
<1>2. n \in Nat /\ n + 1 \in Nat
  OBVIOUS
<1>3. \A i \in 1 .. n : Leads(log[i], D[i], D[i - 1], S[i])
  BY DEF Behind
<1>4. \A i \in 1 .. n : log[i].seq = S[i] /\ D[i - 1] \in Docs /\ Back(log[i], D[i]) = D[i - 1]
  <2> TAKE i \in 1 .. n
  <2>1. Leads(log[i], D[i], D[i - 1], S[i])
    BY <1>3
  <2> QED
    BY <2>1, BackFacts DEF Leads
<1>5. \A i \in 1 .. n : before[i] = D[i - 1]
  <2> DEFINE B == [i \in 1 .. n + 1 |-> D[i - 1]]
  <2>1. \A i \in 1 .. n + 1 : B[i] = IF i = n + 1 THEN doc ELSE Back(log[i], B[i + 1])
    <3> TAKE i \in 1 .. n + 1
    <3>1. CASE i = n + 1
      <4>1. i - 1 = n
        BY <3>1, <1>2
      <4> QED
        BY <3>1, <4>1
    <3>2. CASE i # n + 1
      <4>1. i \in 1 .. n /\ i + 1 \in 1 .. n + 1 /\ (i + 1) - 1 = i
        BY <3>2, <1>2
      <4>2. B[i] = D[i - 1] /\ B[i + 1] = D[i]
        BY <4>1
      <4> HIDE DEF B
      <4> QED
        BY <3>2, <4>1, <4>2, <1>4
    <3> QED
      BY <3>1, <3>2
  <2>2. B = [i \in 1 .. n + 1 |-> B[i]]
    OBVIOUS
  <2> HIDE DEF B, doc
  <2>3. IsB(B)
    BY <2>1, <2>2
  <2>4. IsB(before)
    <3> HIDE DEF IsB
    <3> QED
      BY <2>3
  <2> HIDE DEF before
  <2>5. \A i \in 1 .. n + 1 : before[i] = IF i = n + 1 THEN doc ELSE Back(log[i], before[i + 1])
    BY <2>4
  <2> HIDE DEF IsB
  <2> DEFINE T == {k \in 0 .. n : before[n + 1 - k] = D[n - k]}
  <2>6. 0 \in T
    <3>1. n + 1 - 0 = n + 1 /\ n - 0 = n /\ n + 1 \in 1 .. n + 1 /\ 0 \in 0 .. n
      BY <1>2
    <3> QED
      BY <3>1, <2>5 DEF doc
  <2>7. ASSUME NEW k \in 1 .. n, k - 1 \in T PROVE k \in T
    <3> DEFINE i == n + 1 - k
    <3>1. /\ i \in 1 .. n /\ i \in 1 .. n + 1 /\ i # n + 1 /\ n + 1 - (k - 1) = i + 1
          /\ n - (k - 1) = i /\ n - k = i - 1 /\ k \in 0 .. n /\ k - 1 \in 0 .. n
      BY <1>2
    <3> HIDE DEF i
    <3>2. before[i + 1] = D[i]
      BY <2>7, <3>1
    <3>3. before[i] = D[i - 1]
      BY <3>1, <3>2, <2>5, <1>4
    <3> QED
      BY <3>1, <3>3 DEF i
  <2> HIDE DEF T
  <2>8. \A k \in 0 .. n : k \in T
    BY <2>6, <2>7, <1>2, Steps
  <2> TAKE i \in 1 .. n
  <2> DEFINE k == n + 1 - i
  <2>9. k \in 0 .. n /\ n + 1 - k = i /\ n - k = i - 1
    BY <1>2
  <2> HIDE DEF k
  <2> QED
    BY <2>8, <2>9 DEF T
<1> HIDE DEF before, doc
<1> DEFINE V == Seq(Docs)
           none == << >>
           First(i) == i = 1 \/ S[i] # S[i - 1]
           G == [k \in 1 .. n |-> [q \in V |-> IF First(k) THEN Append(q, D[k - 1]) ELSE q]]
<1>6. none \in V
  OBVIOUS
<1> HIDE DEF none
<1>7. G \in [1 .. n -> [V -> V]]
  <2> HIDE DEF First
  <2>1. \A q \in V, d \in Docs : Append(q, d) \in V
    BY AppendInSeq
  <2>2. ASSUME NEW k \in 1 .. n, NEW q \in V
        PROVE  (IF First(k) THEN Append(q, D[k - 1]) ELSE q) \in V
    <3>1. D[k - 1] \in Docs
      BY <1>4
    <3> HIDE DEF V
    <3> QED
      BY <3>1, <2>1
  <2> HIDE DEF V
  <2> QED
    BY <2>2
<1>8. \A k \in 1 .. n : \A q \in V : G[k][q] = IF First(k) THEN Append(q, D[k - 1]) ELSE q
  OBVIOUS
<1> HIDE DEF G, V, First
<1>9. PICK g : Iterate(g, V, none, n, G)
  BY <1>2, <1>6, <1>7, Iterates
<1>10. /\ g \in [0 .. n -> V] /\ g[0] = none
       /\ \A k \in 1 .. n : g[k] = G[k][g[k - 1]]
  BY <1>9 DEF Iterate
<1>11. \A i \in 1 .. n : i - 1 \in 0 .. n /\ i \in 0 .. n /\ i # 0 /\ (i # 1 => i - 1 \in 1 .. n)
  BY <1>2
<1>12. \A i \in 1 .. n : First(i) <=> i = 1 \/ log[i].seq # log[i - 1].seq
  BY <1>4, <1>11 DEF First
<1>13. \A i \in 0 .. n : g[i] = IF i = 0 THEN none
                                ELSE IF i = 1 \/ log[i].seq # log[i - 1].seq
                                     THEN Append(g[i - 1], before[i]) ELSE g[i - 1]
  <2> TAKE i \in 0 .. n
  <2>1. CASE i = 0
    BY <2>1, <1>10
  <2>2. CASE i # 0
    <3>1. i \in 1 .. n
      BY <2>2, <1>2
    <3>2. g[i - 1] \in V
      BY <3>1, <1>10, <1>11
    <3>3. g[i] = IF First(i) THEN Append(g[i - 1], D[i - 1]) ELSE g[i - 1]
      BY <3>1, <3>2, <1>8, <1>10
    <3> QED
      BY <2>2, <3>1, <3>3, <1>5, <1>12
  <2> QED
    BY <2>1, <2>2
<1>14. g = [i \in 0 .. n |-> g[i]]
  BY <1>10
<1>15. IsU(g)
  BY <1>13, <1>14 DEF none
<1>16. IsU(upto)
  <2> HIDE DEF IsU
  <2> QED
    BY <1>15
<1> HIDE DEF upto
<1>17. \A i \in 0 .. n : upto[i] = IF i = 0 THEN none
                                   ELSE IF i = 1 \/ log[i].seq # log[i - 1].seq
                                        THEN Append(upto[i - 1], before[i]) ELSE upto[i - 1]
  BY <1>16 DEF none
<1> HIDE DEF IsU
<1>18. upto[0] = none
  <2>1. 0 \in 0 .. n
    BY <1>2
  <2> QED
    BY <2>1, <1>17
<1>19. \A i \in 1 .. n : upto[i] = IF First(i) THEN Append(upto[i - 1], D[i - 1]) ELSE upto[i - 1]
  BY <1>5, <1>11, <1>12, <1>17
<1>20. \A i \in 0 .. n : upto[i] \in V
  <2> DEFINE T == {i \in 0 .. n : upto[i] \in V}
  <2>1. 0 \in T
    BY <1>2, <1>6, <1>18
  <2>2. ASSUME NEW i \in 1 .. n, i - 1 \in T PROVE i \in T
    <3>1. upto[i - 1] \in V /\ D[i - 1] \in Docs /\ i \in 0 .. n
      BY <2>2, <1>4, <1>11
    <3>2. Append(upto[i - 1], D[i - 1]) \in V
      BY <3>1, AppendInSeq DEF V
    <3>3. upto[i] \in V
      BY <3>1, <3>2, <1>19
    <3> QED
      BY <3>1, <3>3
  <2> HIDE DEF T
  <2>3. \A i \in 0 .. n : i \in T
    BY <2>1, <2>2, <1>2, Steps
  <2> QED
    BY <2>3 DEF T
<1>21. Lists(upto, D, S, n)
  BY <1>18, <1>19, <1>20 DEF Lists, V, none, First
<1> QED
  BY <1>1, <1>21 DEF doc

LEMMA ListsSame ==
    ASSUME NEW n \in Nat, NEW m \in Nat, n <= m, NEW f, NEW g, NEW D, NEW S,
           Lists(f, D, S, n), Lists(g, D, S, m)
    PROVE  f[n] = g[n]
<1> DEFINE T == {k \in 0 .. n : f[k] = g[k]}
<1>1. 0 \in T
  BY DEF Lists
<1>2. ASSUME NEW k \in 1 .. n, k - 1 \in T PROVE k \in T
  <2>1. k \in 1 .. m /\ k \in 0 .. n /\ f[k - 1] = g[k - 1]
    BY <1>2
  <2>2. f[k] = g[k]
    BY <2>1 DEF Lists
  <2> QED
    BY <2>1, <2>2
<1> HIDE DEF T
<1>3. \A k \in 0 .. n : k \in T
  BY <1>1, <1>2, Steps
<1>4. n \in 0 .. n
  OBVIOUS
<1> QED
  BY <1>3, <1>4 DEF T

\* The entries after the first n are of one command.
Flat(S, n, m, s) == \A i \in n + 1 .. m : S[i] = s

LEMMA ListsFlat ==
    ASSUME NEW m \in Nat, NEW n \in 0 .. m - 1, NEW f, NEW D, NEW S, Lists(f, D, S, m),
           NEW s, Flat(S, n, m, s), n = 0 \/ S[n] # s
    PROVE  f[m] = Append(f[n], D[n])
<1> DEFINE a == n + 1
           z == m - a
           T == {k \in 0 .. z : f[a + k] = Append(f[n], D[n])}
<1>1. /\ a \in 1 .. m /\ a - 1 = n /\ z \in Nat /\ a + z = m /\ a \in Nat /\ a \in n + 1 .. m
      /\ (a = 1 <=> n = 0)
  OBVIOUS
<1>2. \A i \in 1 .. m : f[i] = IF i = 1 \/ S[i] # S[i - 1] THEN Append(f[i - 1], D[i - 1])
                               ELSE f[i - 1]
  BY DEF Lists
<1>3. \A i \in a .. m : S[i] = s
  BY DEF Flat
<1> HIDE DEF a, z
<1>4. f[a] = Append(f[n], D[n])
  <2>1. S[a] = s
    BY <1>1 DEF Flat
  <2> QED
    BY <2>1, <1>1, <1>2
<1>5. 0 \in T
  <2>1. a + 0 = a /\ 0 \in 0 .. z
    BY <1>1
  <2> QED
    BY <2>1, <1>4
<1>6. ASSUME NEW k \in 1 .. z, k - 1 \in T PROVE k \in T
  <2> DEFINE i == a + k
             j == i - 1
  <2>1. /\ i \in 1 .. m /\ i # 1 /\ i \in a .. m /\ j \in a .. m /\ j = a + (k - 1) /\ k \in 0 .. z
    BY <1>1
  <2>2. f[j] = Append(f[n], D[n])
    BY <2>1, <1>6
  <2> HIDE DEF i
  <2>3. f[i] = IF i = 1 \/ S[i] # S[j] THEN Append(f[j], D[j]) ELSE f[j]
    BY <2>1, <1>2
  <2> HIDE DEF j
  <2>4. S[i] = s /\ S[j] = s
    BY <2>1, <1>3
  <2>5. f[i] = f[j]
    BY <2>1, <2>3, <2>4
  <2> QED
    BY <2>1, <2>2, <2>5 DEF i
<1> HIDE DEF T
<1>7. \A k \in 0 .. z : k \in T
  BY <1>1, <1>5, <1>6, Steps
<1>8. z \in 0 .. z
  BY <1>1
<1> QED
  BY <1>1, <1>7, <1>8 DEF T

\* The log a leads from x back to y, before a command, and from there as b does.
Adds(a, x, b, y) == /\ Documents(b, y) \in Seq(Docs)
                    /\ Documents(a, x) = Append(Documents(b, y), y)

\* All that the log a has more than w is of the command s.
LEMMA CommandFacts ==
    ASSUME NEW a \in Seq(Entries), NEW w \in Seq(Entries), NEW D, NEW S,
           Behind(a, D, S), Behind(w, D, S), NEW m, NEW n, m = Len(a), n = Len(w), n < m,
           NEW s, \A i \in n + 1 .. m : S[i] = s, n = 0 \/ S[n] # s
    PROVE  Adds(a, D[m], w, D[n])
<1>1. m \in Nat /\ n \in Nat /\ n <= m /\ n \in 0 .. m - 1 /\ n \in 0 .. n
  <2>1. m \in Nat /\ n \in Nat
    OBVIOUS
  <2> QED
    BY <2>1
<1>2. PICK f : Lists(f, D, S, m) /\ Documents(a, D[m]) = f[m]
  BY DocumentsFacts
<1>3. PICK g : Lists(g, D, S, n) /\ Documents(w, D[n]) = g[n]
  BY DocumentsFacts
<1>4. g[n] = f[n]
  BY <1>1, <1>2, <1>3, ListsSame
<1>5. f[m] = Append(f[n], D[n])
  <2>1. Lists(f, D, S, m) /\ Flat(S, n, m, s) /\ (n = 0 \/ S[n] # s)
    BY <1>2 DEF Flat
  <2> QED
    BY ONLY <2>1, <1>1, ListsFlat
<1>6. g[n] \in Seq(Docs)
  BY <1>1, <1>3 DEF Lists
<1> QED
  BY <1>2, <1>3, <1>4, <1>5, <1>6 DEF Adds

LEMMA AheadCommand ==
    ASSUME NEW a \in Seq(Entries), NEW w \in Seq(Entries), NEW docs, NEW sq, NEW N \in Nat,
           Ahead(a, docs, sq, N), Ahead(w, docs, sq, N),
           NEW m, NEW n, m = Len(a), n = Len(w), n < m, m <= N,
           NEW s, \A i \in N - m + 1 .. N - n : sq[i] = s, n = 0 \/ sq[N - n + 1] # s
    PROVE  Adds(a, docs[N - m], w, docs[N - n])
<1> DEFINE D == [j \in 0 .. N |-> docs[N - j]]
           S == [j \in 1 .. N |-> sq[N - j + 1]]
<1>1. m \in Nat /\ n \in Nat
  OBVIOUS
<1>2. \A j \in 0 .. N : D[j] = docs[N - j]
  OBVIOUS
<1>3. \A j \in 1 .. N : S[j] = sq[N - j + 1]
  OBVIOUS
<1> HIDE DEF D, S
<1>4. \A j \in 1 .. N : j \in 0 .. N /\ j - 1 \in 0 .. N /\ N - (j - 1) = N - j + 1
  OBVIOUS
<1>5. \A j \in 1 .. N : /\ D[j] = docs[N - j] /\ D[j - 1] = docs[N - j + 1]
                        /\ S[j] = sq[N - j + 1]
  BY <1>2, <1>3, <1>4
<1>6. Behind(a, D, S)
  <2>1. \A j \in 1 .. Len(a) : j \in 1 .. N
    BY <1>1
  <2> QED
    BY <2>1, <1>5 DEF Ahead, Behind
<1>7. Behind(w, D, S)
  <2>1. \A j \in 1 .. Len(w) : j \in 1 .. N
    BY <1>1
  <2> QED
    BY <2>1, <1>5 DEF Ahead, Behind
<1>8. \A i \in n + 1 .. m : S[i] = s
  <2> TAKE i \in n + 1 .. m
  <2>1. i \in 1 .. N /\ N - i + 1 \in N - m + 1 .. N - n
    BY <1>1
  <2> QED
    BY <2>1, <1>3
<1>9. n = 0 \/ S[n] # s
  <2>1. n = 0 \/ n \in 1 .. N
    BY <1>1
  <2> QED
    BY <2>1, <1>3
<1>10. D[m] = docs[N - m] /\ D[n] = docs[N - n]
  <2>1. m \in 0 .. N /\ n \in 0 .. N
    BY <1>1
  <2> QED
    BY <2>1, <1>2
<1>11. Adds(a, D[m], w, D[n])
  <2>1. /\ a \in Seq(Entries) /\ w \in Seq(Entries) /\ m = Len(a) /\ n = Len(w) /\ n < m
        /\ (\A i \in n + 1 .. m : S[i] = s) /\ (n = 0 \/ S[n] # s)
    BY <1>8, <1>9
  <2> QED
    BY ONLY <2>1, <1>6, <1>7, CommandFacts
<1> QED
  BY <1>10, <1>11

LEMMA DocumentsNone ==
    ASSUME NEW d
    PROVE  Documents(<< >>, d) = << >>
<1> DEFINE none == << >>
           D == [i \in {0} |-> d]
           z == 0
<1>1. none \in Seq(Entries) /\ z = Len(none) /\ 1 .. Len(none) = {} /\ D[z] = d
  OBVIOUS
<1> HIDE DEF none, D, z
<1>2. Behind(none, D, none)
  BY <1>1 DEF Behind
<1>3. PICK f : Lists(f, D, none, z) /\ Documents(none, D[z]) = f[z]
  BY ONLY <1>1, <1>2, DocumentsFacts
<1>4. f[z] = << >>
  BY <1>3 DEF Lists, z
<1> QED
  BY <1>1, <1>3, <1>4 DEF none

-----------------------------------------------------------------------------
(* The history that a file has behind and before it: N + 1 documents, docs, *)
(* of which the file is at the one after the entries of d, and the commands *)
(* sq that led from each to the next.  The entries of d lead back, those of *)
(* e forward.  s is f.seq, p w.putseq, top dat->seq, sv the files and doc    *)
(* what the window shows.                                                  *)

Label(sq, i) == IF i = 0 THEN 0 ELSE sq[i]

\* Where Undo and Redo may end.
Stop(sq, N, i) == i = 0 \/ i = N \/ sq[i] < sq[i + 1]

Order(sq, N, top) == /\ \A i \in 1 .. N : sq[i] \in 1 .. MaxSeq /\ sq[i] <= top
                     /\ \A i, j \in 1 .. N : i <= j => sq[i] <= sq[j]

Line(d, e, N, docs, sq, doc, s, top) ==
    /\ d \in Seq(Entries) /\ e \in Seq(Entries) /\ N = Len(d) + Len(e)
    /\ doc \in Docs /\ docs[Len(d)] = doc
    /\ Order(sq, N, top) /\ Behind(d, docs, sq) /\ Ahead(e, docs, sq, N)
    /\ Label(sq, Len(d)) <= s
    /\ Len(d) < N => s = Label(sq, Len(d)) /\ s < sq[Len(d) + 1]

Told(sv, doc) == doc.text = IF sv[doc.name] = None THEN << >> ELSE sv[doc.name]

\* What is in the files where the window would not be dirty, but for the names that
\* are astray.
Sure(bad, sv, doc) == doc.name \in bad \/ Told(sv, doc)

Safe(bad, N, docs, sq, doc, s, p, sv) ==
    /\ s = p => Sure(bad, sv, doc)
    /\ \A i \in 0 .. N : Stop(sq, N, i) /\ Label(sq, i) = p => Sure(bad, sv, docs[i])

Known(d, e, doc, s, p, sv, top, bad) ==
    \E N, docs, sq : /\ Line(d, e, N, docs, sq, doc, s, top)
                     /\ Safe(bad, N, docs, sq, doc, s, p, sv)

\* A file that has been read.
LEMMA KnownNew ==
    ASSUME NEW doc \in Docs, NEW p, NEW sv, NEW top \in Nat, NEW bad, Sure(bad, sv, doc)
    PROVE  Known(<< >>, << >>, doc, 0, p, sv, top, bad)
<1> DEFINE none == << >>
           docs == [i \in {0} |-> doc]
           z == 0
<1>1. none \in Seq(Entries) /\ Len(none) = z /\ z = z + z /\ z \in Nat /\ 1 .. z = {} /\ 0 .. z = {0}
  OBVIOUS
<1>2. docs[0] = doc
  OBVIOUS
<1> HIDE DEF none, docs
<1>3. Line(none, none, z, docs, none, doc, 0, top)
  BY <1>1, <1>2 DEF Line, Order, Behind, Ahead, Label
<1>4. Safe(bad, z, docs, none, doc, 0, p, sv)
  BY <1>1, <1>2 DEF Safe
<1> HIDE DEF z
<1>5. Known(none, none, doc, 0, p, sv, top, bad)
  BY <1>3, <1>4 DEF Known
<1> QED
  BY <1>5 DEF none

\* The next command begins: what could be redone is dropped.
LEMMA KnownMark ==
    ASSUME NEW d, NEW e, NEW doc, NEW s \in Nat, NEW p, NEW sv, NEW top \in Nat, NEW bad,
           Known(d, e, doc, s, p, sv, top, bad), p \in Nat, p <= top
    PROVE  Known(d, << >>, doc, top + 1, p, sv, top + 1, bad)
<1> DEFINE none == << >>
           M == Len(d)
           k == top + 1
<1>1. PICK N, docs, sq : Line(d, e, N, docs, sq, doc, s, top) /\ Safe(bad, N, docs, sq, doc, s, p, sv)
  BY DEF Known
<1>2. /\ d \in Seq(Entries) /\ e \in Seq(Entries) /\ N = M + Len(e)
      /\ doc \in Docs /\ docs[M] = doc
      /\ Order(sq, N, top) /\ Behind(d, docs, sq) /\ Label(sq, M) <= s
      /\ M < N => s = Label(sq, M)
  BY <1>1 DEF Line
<1>3. M \in Nat /\ Len(e) \in Nat
  BY <1>2
<1>4. none \in Seq(Entries) /\ Len(none) = 0 /\ M = M + Len(none) /\ 1 .. Len(none) = {} /\ ~(M < M)
  BY <1>3
<1>5. M \in 0 .. N /\ N \in Nat /\ k \in Nat /\ top < k /\ p # k
  BY <1>2, <1>3
<1> HIDE DEF none, M, k
<1>6. Order(sq, M, k) /\ Label(sq, M) <= k
  <2>1. \A i \in 1 .. M : i \in 1 .. N
    BY <1>3, <1>5
  <2>2. \A i \in 1 .. N : sq[i] \in 1 .. MaxSeq /\ sq[i] <= top
    BY <1>2 DEF Order
  <2>3. \A i \in 1 .. M : sq[i] \in 1 .. MaxSeq /\ sq[i] <= k
    BY <2>1, <2>2, <1>5
  <2>4. \A i, j \in 1 .. M : i <= j => sq[i] <= sq[j]
    BY <2>1, <1>2 DEF Order
  <2>5. Label(sq, M) <= k
    <3>1. CASE M = 0
      BY <3>1, <1>5 DEF Label
    <3>2. CASE M # 0
      <4>1. M \in 1 .. M
        BY <3>2, <1>3
      <4> QED
        BY <3>2, <4>1, <2>3 DEF Label
    <3> QED
      BY <3>1, <3>2
  <2> QED
    BY <2>3, <2>4, <2>5 DEF Order
<1>7. Line(d, none, M, docs, sq, doc, k, k)
  BY <1>2, <1>4, <1>6 DEF Line, Ahead, M
<1>8. Safe(bad, M, docs, sq, doc, k, p, sv)
  <2>1. ASSUME NEW i \in 0 .. M, Stop(sq, M, i), Label(sq, i) = p PROVE Sure(bad, sv, docs[i])
    <3>1. i \in 0 .. N
      BY <1>3, <1>5
    <3>2. CASE i = M /\ M < N
      BY <3>2, <2>1, <1>1, <1>2 DEF Safe
    <3>3. CASE i = M /\ M = N
      BY <3>1, <3>3, <2>1, <1>1 DEF Safe, Stop
    <3>4. CASE i # M
      BY <3>1, <3>4, <2>1, <1>1 DEF Safe, Stop
    <3>5. M < N \/ M = N
      BY <1>3, <1>5
    <3> QED
      BY <3>2, <3>3, <3>4, <3>5
  <2> QED
    BY <2>1, <1>5 DEF Safe
<1>9. Known(d, none, doc, k, p, sv, k, bad)
  BY <1>7, <1>8 DEF Known
<1> QED
  BY <1>9 DEF none, k

\* What an edit of the command s does to the log d, from doc to later.
Edits(d, doc, later, s, dv) ==
    /\ dv # << >> /\ Last(dv).seq = s
    /\ Documents(dv, later) = IF d = << >> \/ Last(d).seq # s
                              THEN Append(Documents(d, doc), doc) ELSE Documents(d, doc)

\* The command that is going on edits once more.
LEMMA KnownEdit ==
    ASSUME NEW d, NEW doc, NEW s \in 1 .. MaxSeq, NEW p, NEW sv, NEW top \in Nat, NEW bad,
           Known(d, << >>, doc, s, p, sv, top, bad), s <= top, p # s,
           NEW v, NEW later, Leads(v, later, doc, s)
    PROVE  /\ Known(Append(d, v), << >>, later, s, p, sv, top, bad)
           /\ Edits(d, doc, later, s, Append(d, v))
<1> DEFINE none == << >>
           M == Len(d)
           L == M + 1
           dv == Append(d, v)
<1>1. PICK N, docs, sq : /\ Line(d, none, N, docs, sq, doc, s, top)
                         /\ Safe(bad, N, docs, sq, doc, s, p, sv)
  BY DEF Known
<1>2. none \in Seq(Entries) /\ Len(none) = 0 /\ 1 .. Len(none) = {}
  OBVIOUS
<1> HIDE DEF none
<1>3. /\ d \in Seq(Entries) /\ N = M + Len(none)
      /\ doc \in Docs /\ docs[M] = doc
      /\ Order(sq, N, top) /\ Behind(d, docs, sq) /\ Label(sq, M) <= s
  BY <1>1 DEF Line
<1>4. M \in Nat /\ N = M /\ L \in Nat /\ L = L + Len(none) /\ ~(L < L) /\ 1 \in Nat
  BY <1>2, <1>3
<1>5. v \in Entries /\ later \in Docs
  BY DEF Leads
<1> HIDE DEF dv, M, L
<1>6. dv \in Seq(Entries) /\ Len(dv) = L /\ dv[L] = v /\ \A i \in 1 .. M : dv[i] = d[i]
  <2>1. Append(d, v) \in Seq(Entries) /\ Len(Append(d, v)) = Len(d) + 1
        /\ (\A i \in 1 .. Len(d) : Append(d, v)[i] = d[i]) /\ Append(d, v)[Len(d) + 1] = v
    BY <1>3, <1>5, AppendFacts
  <2> QED
    BY <2>1 DEF dv, M, L
<1>7. \A i \in 1 .. L : i \in Nat /\ (i # L => i \in 1 .. M /\ i <= M) /\ i <= L
  BY <1>4 DEF L
<1>8. \A i \in 0 .. L : i \in Nat /\ (i # L => i \in 0 .. M) /\ i <= L
  BY <1>4 DEF L
<1>9. L # 0 /\ L \in 1 .. L /\ L - 1 = M /\ M # L /\ M \in 0 .. L /\ L = M + 1 /\ L \in 0 .. L
  BY <1>4 DEF L
<1> DEFINE D == [i \in 0 .. L |-> IF i = L THEN later ELSE docs[i]]
           Q == [i \in 1 .. L |-> IF i = L THEN s ELSE sq[i]]
<1>10. D[L] = later /\ D[M] = doc /\ \A i \in 0 .. M : D[i] = docs[i]
  <2>1. \A i \in 0 .. M : i \in 0 .. L /\ i # L
    BY <1>4 DEF L
  <2> QED
    BY <2>1, <1>3, <1>9
<1>11. Q[L] = s /\ \A i \in 1 .. M : Q[i] = sq[i]
  <2>1. \A i \in 1 .. M : i \in 1 .. L /\ i # L
    BY <1>4 DEF L
  <2> QED
    BY <2>1, <1>9
<1> HIDE DEF D, Q
<1>12. \A i \in 1 .. M : sq[i] \in 1 .. MaxSeq /\ sq[i] <= top /\ sq[i] <= s
  <2>1. \A i \in 1 .. M : sq[i] \in 1 .. MaxSeq /\ sq[i] <= top
    BY <1>3, <1>4 DEF Order
  <2>2. ASSUME NEW i \in 1 .. M PROVE sq[i] <= s
    <3>1. M \in 1 .. M /\ i <= M /\ M # 0
      BY <1>4
    <3>2. sq[i] <= sq[M]
      BY <3>1, <1>3, <1>4 DEF Order
    <3>3. sq[M] <= s
      BY <3>1, <1>3 DEF Label
    <3>4. sq[i] \in Nat /\ sq[M] \in Nat /\ s \in Nat
      BY <2>1, <3>1
    <3> QED
      BY <3>2, <3>3, <3>4
  <2> QED
    BY <2>1, <2>2
<1>13. Order(Q, L, top)
  <2>1. ASSUME NEW i \in 1 .. L PROVE Q[i] \in 1 .. MaxSeq /\ Q[i] <= top
    BY <1>7, <1>11, <1>12
  <2>2. ASSUME NEW i \in 1 .. L, NEW j \in 1 .. L, i <= j PROVE Q[i] <= Q[j]
    <3>1. CASE j = L
      <4>1. CASE i = L
        BY <3>1, <4>1, <1>11
      <4>2. CASE i # L
        BY <3>1, <4>2, <1>7, <1>11, <1>12
      <4> QED
        BY <4>1, <4>2
    <3>2. CASE j # L
      <4>1. j \in 1 .. M /\ i # L
        BY <2>2, <3>2, <1>7, <1>4
      <4>2. i \in 1 .. M
        BY <4>1, <1>7
      <4>3. sq[i] <= sq[j]
        BY <4>1, <4>2, <2>2, <1>3, <1>4 DEF Order
      <4> QED
        BY <4>1, <4>2, <4>3, <1>11
    <3> QED
      BY <3>1, <3>2
  <2> QED
    BY <2>1, <2>2 DEF Order
<1>14. Behind(dv, D, Q)
  <2>1. ASSUME NEW i \in 1 .. L PROVE Leads(dv[i], D[i], D[i - 1], Q[i])
    <3>1. CASE i = L
      BY <3>1, <1>6, <1>9, <1>10, <1>11
    <3>2. CASE i # L
      <4>1. i \in 1 .. M /\ i \in 0 .. M /\ i - 1 \in 0 .. M
        BY <3>2, <1>7, <1>4
      <4>2. Leads(d[i], docs[i], docs[i - 1], sq[i])
        BY <4>1, <1>3 DEF Behind, M
      <4> QED
        BY <4>1, <4>2, <1>6, <1>10, <1>11
    <3> QED
      BY <3>1, <3>2
  <2> QED
    BY <2>1, <1>6 DEF Behind
<1>15. Line(dv, none, L, D, Q, later, s, top)
  <2>1. Label(Q, L) <= s
    BY <1>9, <1>11 DEF Label
  <2> QED
    BY <2>1, <1>2, <1>4, <1>5, <1>6, <1>10, <1>13, <1>14 DEF Line, Ahead
<1>16. Safe(bad, L, D, Q, later, s, p, sv)
  <2>1. ASSUME NEW i \in 0 .. L, Stop(Q, L, i), Label(Q, i) = p PROVE Sure(bad, sv, D[i])
    <3>1. i # L
      BY <2>1, <1>9, <1>11 DEF Label
    <3>2. i \in 0 .. M /\ D[i] = docs[i]
      BY <3>1, <1>8, <1>10
    <3>3. Label(sq, i) = p
      <4>1. CASE i = 0
        BY <4>1, <2>1 DEF Label
      <4>2. CASE i # 0
        <5>1. i \in 1 .. M
          BY <3>2, <4>2, <1>4
        <5> QED
          BY <4>2, <5>1, <2>1, <1>11 DEF Label
      <4> QED
        BY <4>1, <4>2
    <3>4. Stop(sq, N, i)
      <4>1. CASE i = 0 \/ i = M
        BY <4>1, <1>4 DEF Stop
      <4>2. CASE i # 0 /\ i # M
        <5>1. i \in 1 .. M /\ i + 1 \in 1 .. M
          BY <3>2, <4>2, <1>4
        <5> QED
          BY <3>1, <4>2, <5>1, <2>1, <1>11 DEF Stop
      <4> QED
        BY <4>1, <4>2
    <3> QED
      BY <3>2, <3>3, <3>4, <1>1, <1>4 DEF Safe
  <2> QED
    BY <2>1, <1>4 DEF Safe
<1>17. Known(dv, none, later, s, p, sv, top, bad)
  BY <1>15, <1>16 DEF Known
<1>18. \A i \in 1 .. M : Leads(d[i], D[i], D[i - 1], Q[i])
  <2> TAKE i \in 1 .. M
  <2>1. i \in 0 .. M /\ i - 1 \in 0 .. M
    BY <1>4
  <2>2. Leads(d[i], docs[i], docs[i - 1], sq[i])
    BY <1>3 DEF Behind, M
  <2> QED
    BY <2>1, <2>2, <1>10, <1>11
<1>19. Edits(d, doc, later, s, dv)
  <2>1. Behind(d, D, Q)
    BY <1>18 DEF Behind, M
  <2>2. M = Len(d)
    BY DEF M
  <2>3. PICK f : Lists(f, D, Q, L) /\ Documents(dv, D[L]) = f[L]
    BY <1>6, <1>14, DocumentsFacts
  <2>4. PICK g : Lists(g, D, Q, M) /\ Documents(d, D[M]) = g[M]
    BY <2>1, <2>2, <1>3, DocumentsFacts
  <2>5. g[M] = f[M]
    <3>1. M \in Nat /\ L \in Nat /\ M <= L
      BY <1>4, <1>9
    <3> QED
      BY ONLY <3>1, <2>3, <2>4, ListsSame
  <2>6. f[L] = IF L = 1 \/ Q[L] # Q[M] THEN Append(f[M], D[M]) ELSE f[M]
    BY <2>3, <1>9 DEF Lists
  <2>7. L = 1 <=> d = << >>
    <3>1. L = 1 <=> M = 0
      BY <1>4, <1>9
    <3> QED
      BY <3>1, <2>2, <1>3
  <2>8. d # << >> => Last(d).seq = Q[M]
    <3> SUFFICES ASSUME d # << >> PROVE Last(d).seq = Q[M]
      OBVIOUS
    <3>1. M \in 1 .. M
      BY <2>2, <1>3
    <3>2. Last(d) = d[M]
      BY <2>2 DEF Last
    <3> QED
      BY <3>1, <3>2, <1>18 DEF Leads
  <2>9. dv # << >> /\ Last(dv) = v
    BY <1>6, <1>9 DEF Last
  <2>10. v.seq = s
    BY DEF Leads
  <2> HIDE DEF D, Q
  <2> QED
    BY <2>3, <2>4, <2>5, <2>6, <2>7, <2>8, <2>9, <2>10, <1>10, <1>11 DEF Edits
<1> QED
  BY <1>17, <1>19 DEF dv, none

\* The text is written to the file of the window's name.
LEMMA KnownPut ==
    ASSUME NEW d, NEW e, NEW doc, NEW s \in Nat, NEW p, NEW sv, NEW top, NEW bad,
           Known(d, e, doc, s, p, sv, top, bad),
           NEW later, Told(later, doc)
    PROVE  Known(d, e, doc, s, s, later, top, {})
<1> DEFINE M == Len(d)
<1>1. PICK N, docs, sq : Line(d, e, N, docs, sq, doc, s, top)
  BY DEF Known
<1>2. /\ d \in Seq(Entries) /\ e \in Seq(Entries) /\ N = M + Len(e)
      /\ docs[M] = doc
      /\ Order(sq, N, top) /\ Label(sq, M) <= s
      /\ M < N => s < sq[M + 1]
  BY <1>1 DEF Line
<1>3. M \in Nat /\ N \in Nat /\ M <= N
  <2>1. M \in Nat /\ Len(e) \in Nat
    BY <1>2
  <2> QED
    BY <2>1, <1>2
<1> HIDE DEF M
<1>4. \A i \in 1 .. N : sq[i] \in Nat /\ sq[i] >= 1
  BY <1>2 DEF Order
<1>5. ASSUME NEW i \in 0 .. N, Stop(sq, N, i), Label(sq, i) = s PROVE i = M
  <2>1. CASE i < M
    <3>1. M \in 1 .. N /\ i + 1 \in 1 .. N /\ i + 1 <= M /\ i # N /\ M # 0
      BY <2>1, <1>3
    <3>2. sq[i + 1] <= sq[M] /\ sq[M] <= s
      BY <3>1, <1>2 DEF Order, Label
    <3>3. CASE i = 0
      <4>1. s = 0 /\ sq[M] \in Nat /\ sq[M] >= 1
        BY <3>1, <3>3, <1>4, <1>5 DEF Label
      <4> QED
        BY <3>2, <4>1
    <3>4. CASE i # 0
      <4>1. i \in 1 .. N
        BY <3>4
      <4>2. sq[i] = s /\ sq[i] < sq[i + 1]
        BY <3>1, <3>4, <1>5 DEF Label, Stop
      <4>3. sq[i] \in Nat /\ sq[i + 1] \in Nat /\ sq[M] \in Nat
        BY <3>1, <4>1, <1>4
      <4> QED
        BY <3>2, <4>2, <4>3
    <3> QED
      BY <3>3, <3>4
  <2>2. CASE i > M
    <3>1. i \in 1 .. N /\ M + 1 \in 1 .. N /\ M + 1 <= i /\ M < N /\ i # 0
      BY <2>2, <1>3
    <3>2. s < sq[M + 1] /\ sq[M + 1] <= sq[i]
      BY <3>1, <1>2 DEF Order
    <3>3. sq[i] = s
      BY <3>1, <1>5 DEF Label
    <3>4. sq[i] \in Nat /\ sq[M + 1] \in Nat
      BY <3>1, <1>4
    <3> QED
      BY <3>2, <3>3, <3>4
  <2> QED
    BY <2>1, <2>2, <1>3
<1>6. Safe({}, N, docs, sq, doc, s, s, later)
  BY <1>2, <1>5 DEF Safe, Sure
<1> QED
  BY <1>1, <1>6 DEF Known

\* All of a line are documents.
LEMMA LineDocs ==
    ASSUME NEW d, NEW e, NEW N, NEW docs, NEW sq, NEW doc, NEW s, NEW top,
           Line(d, e, N, docs, sq, doc, s, top), NEW i \in 0 .. N
    PROVE  docs[i] \in Docs
<1> DEFINE M == Len(d)
           L == Len(e)
<1>1. /\ d \in Seq(Entries) /\ e \in Seq(Entries) /\ N = M + L
      /\ doc \in Docs /\ docs[M] = doc
      /\ \A k \in 1 .. M : Leads(d[k], docs[k], docs[k - 1], sq[k])
      /\ \A j \in 1 .. L : Leads(e[j], docs[N - j], docs[N - j + 1], sq[N - j + 1])
  BY DEF Line, Behind, Ahead
<1>2. M \in Nat /\ L \in Nat
  BY <1>1
<1> HIDE DEF M, L
<1>3. CASE i = M
  BY <1>1, <1>3
<1>4. CASE i < M
  <2> DEFINE k == i + 1
  <2>1. k \in 1 .. M /\ k - 1 = i
    BY <1>2, <1>4
  <2> HIDE DEF k
  <2> QED
    BY <2>1, <1>1 DEF Leads
<1>5. CASE i > M
  <2> DEFINE j == N - i + 1
  <2>1. j \in 1 .. L /\ N - j + 1 = i
    BY <1>1, <1>2, <1>5
  <2> HIDE DEF j
  <2> QED
    BY <2>1, <1>1 DEF Leads
<1> QED
  BY <1>2, <1>3, <1>4, <1>5

\* What has happened to the file of one name is all that has happened.
LEMMA KnownAstray ==
    ASSUME NEW d, NEW e, NEW doc, NEW s, NEW p, NEW sv, NEW top, NEW bad,
           Known(d, e, doc, s, p, sv, top, bad),
           NEW n, NEW later, \A m \in Names : m # n => later[m] = sv[m]
    PROVE  Known(d, e, doc, s, p, later, top, bad \cup {n})
<1>1. PICK N, docs, sq : Line(d, e, N, docs, sq, doc, s, top) /\ Safe(bad, N, docs, sq, doc, s, p, sv)
  BY DEF Known
<1>2. ASSUME NEW x \in Docs, Sure(bad, sv, x) PROVE Sure(bad \cup {n}, later, x)
  <2>1. x.name \in Names
    BY DEF Docs
  <2>2. CASE x.name = n
    BY <2>2 DEF Sure
  <2>3. CASE x.name # n
    <3>1. later[x.name] = sv[x.name]
      BY <2>1, <2>3
    <3> QED
      BY <3>1, <1>2 DEF Sure, Told
  <2> QED
    BY <2>2, <2>3
<1>3. doc \in Docs
  BY <1>1 DEF Line
<1>4. \A i \in 0 .. N : docs[i] \in Docs
  BY <1>1, LineDocs
<1>5. Safe(bad \cup {n}, N, docs, sq, doc, s, p, later)
  BY <1>1, <1>2, <1>3, <1>4 DEF Safe
<1> QED
  BY <1>1, <1>5 DEF Known

\* The entries of commands before s.
Earlier(d, s) == {i \in 1 .. Len(d) : d[i].seq < s}

\* The entries after the w of the log a, of one command, which led from x to y, are
\* turned into those after the b of the log l.
Moved(a, x, w, b, l, y) == Adds(a, x, w, y) /\ Adds(l, y, b, x)

\* Undo leaves n entries.
Undoes(d, e, doc, s, n, w, l, to) ==
    /\ n # 0 => w # << >> /\ Last(w).seq = d[n].seq /\ d[n].seq # 0
    /\ n = Len(d) => /\ to = doc /\ w = d /\ l = e
                     /\ d = << >> \/ (s # 0 /\ Last(d).seq # s)
    /\ n # Len(d) => /\ Moved(d, doc, w, e, l, to)
                     /\ d # << >> /\ Last(d).seq = s

\* Undo: the file goes back to where the command s began.
LEMMA KnownUndo ==
    ASSUME NEW d, NEW e, NEW doc, NEW s \in Nat, NEW p, NEW sv, NEW top, NEW bad,
           Known(d, e, doc, s, p, sv, top, bad),
           NEW F, Shows(F, doc), F.log = e,
           NEW n, n = Kept(Earlier(d, s)),
           NEW k, k = IF n = 0 THEN 0 ELSE d[n].seq
    PROVE  \E to : /\ Shows(Reversed(F, d, n), to) /\ k \in 0 .. MaxSeq /\ k <= s
                   /\ Known(SubSeq(d, 1, n), Reversed(F, d, n).log, to, k, p, sv, top, bad)
                   /\ Undoes(d, e, doc, s, n, SubSeq(d, 1, n), Reversed(F, d, n).log, to)
<1> DEFINE M == Len(d)
           E == Len(e)
           G == Reversed(F, d, n)
           w == SubSeq(d, 1, n)
           stops == {i \in 1 .. M : d[i].seq < s}
<1>1. PICK N, docs, sq : Line(d, e, N, docs, sq, doc, s, top) /\ Safe(bad, N, docs, sq, doc, s, p, sv)
  BY DEF Known
<1>2. /\ d \in Seq(Entries) /\ e \in Seq(Entries) /\ N = M + E
      /\ doc \in Docs /\ docs[M] = doc
      /\ Order(sq, N, top) /\ Behind(d, docs, sq) /\ Ahead(e, docs, sq, N)
      /\ M < N => s = Label(sq, M) /\ s < sq[M + 1]
      /\ Label(sq, M) <= s
  BY <1>1 DEF Line
<1>3. M \in Nat /\ E \in Nat /\ N \in Nat /\ M <= N
  <2>1. M \in Nat /\ E \in Nat
    BY <1>2
  <2> QED
    BY <2>1, <1>2
<1>4. /\ n \in 0 .. M /\ n \in {0} \cup stops /\ \A i \in stops : i <= n
  <2>1. stops \in SUBSET (1 .. M)
    OBVIOUS
  <2>2. n = Kept(stops)
    BY DEF Earlier
  <2> HIDE DEF stops, M
  <2> QED
    BY <2>1, <2>2, <1>3, KeptFacts
<1>5. \A i \in 1 .. M : Leads(d[i], docs[i], docs[i - 1], sq[i])
  BY <1>2 DEF Behind
<1>6. \A i \in 1 .. N : sq[i] \in 1 .. MaxSeq /\ sq[i] \in Nat /\ sq[i] >= 1
  BY <1>2 DEF Order
<1>7. \A i \in 1 .. M : i \in 1 .. N /\ d[i].seq = sq[i]
  BY <1>3, <1>5 DEF Leads
<1> HIDE DEF M, E, stops, w
<1>8. Turned(F, G, docs, sq, M, M - n)
  <2>1. \A i \in 1 .. M : Leads(d[i], docs[i], docs[i - 1], sq[i]) /\ sq[i] \in 1 .. MaxSeq
    BY <1>5, <1>6, <1>7
  <2>2. M = Len(d)
    BY DEF M
  <2>3. Shows(F, docs[M])
    BY <1>2
  <2> HIDE DEF G
  <2>4. Turned(F, Reversed(F, d, n), docs, sq, M, M - n)
    BY <2>1, <2>2, <2>3, <1>2, <1>4, ReversedFacts
  <2> QED
    BY <2>4 DEF G
<1> HIDE DEF G
<1> DEFINE l == G.log
           z == M - n
<1>9. z \in Nat /\ M - z = n /\ n \in Nat /\ n <= M /\ N = n + (E + z)
  BY <1>2, <1>3, <1>4
<1>10. /\ Shows(G, docs[n]) /\ Len(l) = E + z
       /\ \A x \in 1 .. E : l[x] = e[x]
       /\ \A y \in 1 .. z : Leads(l[E + y], docs[M - y], docs[M - y + 1], sq[M - y + 1])
  <2>1. Turned(F, G, docs, sq, M, z)
    BY <1>8
  <2> HIDE DEF z
  <2> QED
    BY <2>1, <1>9 DEF Turned, E
<1>11. l \in Seq(Entries)
  BY <1>10 DEF Shows, Files
<1> HIDE DEF l, z
<1>12. Ahead(l, docs, sq, N)
  <2>1. ASSUME NEW j \in 1 .. E + z PROVE Leads(l[j], docs[N - j], docs[N - j + 1], sq[N - j + 1])
    <3>1. CASE j <= E
      <4>1. j \in 1 .. E
        BY <3>1, <1>3, <1>9
      <4>2. Leads(e[j], docs[N - j], docs[N - j + 1], sq[N - j + 1])
        BY <4>1, <1>2 DEF Ahead, E
      <4> QED
        BY <4>1, <4>2, <1>10
    <3>2. CASE ~(j <= E)
      <4> DEFINE y == j - E
      <4>1. y \in 1 .. z /\ E + y = j /\ N - j = M - y
        <5>1. j \in Nat /\ E < j /\ j <= E + z /\ N = M + E /\ z \in Nat
          BY <3>2, <1>2, <1>3, <1>9
        <5> QED
          BY <5>1, <1>3
      <4> HIDE DEF y
      <4> QED
        BY <4>1, <1>10
    <3> QED
      BY <3>1, <3>2
  <2> QED
    BY <2>1, <1>10 DEF Ahead
<1>13. w \in Seq(Entries) /\ Len(w) = n /\ \A x \in 1 .. n : w[x] = d[x]
  BY <1>2, <1>4, FirstFacts DEF w, M
<1>14. Behind(w, docs, sq)
  <2>1. \A i \in 1 .. n : i \in 1 .. M
    BY <1>3, <1>9
  <2> QED
    BY <2>1, <1>5, <1>13 DEF Behind
<1>15. docs[n] \in Docs
  <2>1. CASE n = M
    BY <2>1, <1>2
  <2>2. CASE n # M
    <3> DEFINE i == n + 1
    <3>1. i \in 1 .. M /\ i - 1 = n
      BY <2>2, <1>3, <1>9
    <3> HIDE DEF i
    <3>2. Leads(d[i], docs[i], docs[i - 1], sq[i])
      BY <3>1, <1>5
    <3> QED
      BY <3>1, <3>2 DEF Leads
  <2> QED
    BY <2>1, <2>2
<1>16. k = Label(sq, n) /\ k \in 0 .. MaxSeq /\ k \in Nat
  <2>1. CASE n = 0
    BY <2>1, FileAssumption DEF Label
  <2>2. CASE n # 0
    <3>1. n \in 1 .. M
      BY <2>2, <1>9, <1>3
    <3>2. k = sq[n] /\ sq[n] \in 1 .. MaxSeq
      BY <2>2, <3>1, <1>6, <1>7
    <3>3. sq[n] \in 0 .. MaxSeq /\ sq[n] \in Nat
      BY <3>2, FileAssumption
    <3> QED
      BY <2>2, <3>2, <3>3 DEF Label
  <2> QED
    BY <2>1, <2>2
<1>17. n < N => k < sq[n + 1]
  <2> SUFFICES ASSUME n < N PROVE k < sq[n + 1]
    OBVIOUS
  <2>0. n + 1 \in 1 .. N
    <3>1. n < N /\ n \in Nat /\ N \in Nat
      BY <1>3, <1>9
    <3> QED
      BY <3>1
  <2>1. CASE n = M
    BY <2>1, <1>2, <1>16
  <2>2. CASE n # M
    <3>1. n + 1 \in 1 .. M /\ ~(n + 1 <= n)
      BY <2>2, <1>3, <1>9
    <3>2. ~(sq[n + 1] < s)
      BY <3>1, <1>4, <1>7 DEF stops
    <3>3. sq[n + 1] \in Nat /\ sq[n + 1] >= 1
      BY <2>0, <1>6
    <3>4. CASE n = 0
      BY <3>3, <3>4, <1>16 DEF Label
    <3>5. CASE n # 0
      <4>1. n \in stops
        BY <3>5, <1>4
      <4>2. k = sq[n] /\ sq[n] < s
        BY <4>1, <3>5, <1>7, <1>16 DEF stops, Label
      <4> QED
        BY <3>2, <3>3, <4>2, <1>16
    <3> QED
      BY <3>4, <3>5
  <2> QED
    BY <2>1, <2>2
<1>18. Stop(sq, N, n)
  <2>1. n # 0 => k = sq[n]
    BY <1>16 DEF Label
  <2>2. n < N \/ n = N
    BY <1>3, <1>9
  <2> QED
    BY <2>1, <2>2, <1>17 DEF Stop
<1>19. Line(w, l, N, docs, sq, docs[n], k, top)
  <2>1. Label(sq, n) <= k
    BY <1>16
  <2> QED
    BY <2>1, <1>2, <1>9, <1>10, <1>11, <1>12, <1>13, <1>14, <1>15, <1>16, <1>17 DEF Line
<1>20. Safe(bad, N, docs, sq, docs[n], k, p, sv)
  <2>1. n \in 0 .. N
    BY <1>3, <1>9
  <2> QED
    BY <2>1, <1>1, <1>16, <1>18 DEF Safe
<1>21. Known(w, l, docs[n], k, p, sv, top, bad)
  BY <1>19, <1>20 DEF Known
<1>22. k <= s
  <2>1. CASE n = 0
    BY <2>1
  <2>2. CASE n # 0
    <3>1. n \in stops
      BY <2>2, <1>4
    <3>2. k < s
      BY <2>2, <3>1 DEF stops
    <3> QED
      BY <3>2, <1>16
  <2> QED
    BY <2>1, <2>2
<1>23. ASSUME n # 0 PROVE w # << >> /\ Last(w).seq = d[n].seq /\ d[n].seq # 0
  <2>1. n \in 1 .. n /\ n \in 1 .. M
    BY <1>23, <1>3, <1>9
  <2>2. w # << >> /\ Last(w) = w[n] /\ w[n] = d[n]
    BY <2>1, <1>13 DEF Last
  <2>3. d[n].seq = sq[n] /\ sq[n] # 0
    BY <2>1, <1>6, <1>7
  <2> QED
    BY <2>2, <2>3
<1>24. ASSUME n = M
       PROVE  /\ docs[n] = doc /\ w = d /\ l = e
              /\ d = << >> \/ (s # 0 /\ Last(d).seq # s)
  <2>1. z = 0 /\ E + z = E
    BY <1>24, <1>3, <1>9
  <2>2. l = e
    <3>1. Len(l) = Len(e) /\ \A x \in 1 .. Len(l) : l[x] = e[x]
      BY <2>1, <1>10 DEF E
    <3> QED
      BY <3>1, <1>2, <1>11, SameQueue
  <2>3. w = d
    <3>1. Len(w) = Len(d) /\ \A x \in 1 .. Len(w) : w[x] = d[x]
      BY <1>13, <1>24 DEF M
    <3> QED
      BY <3>1, <1>2, <1>13, SameQueue
  <2>4. CASE M = 0
    <3>1. d = << >>
      BY <2>4, <1>2 DEF M
    <3> QED
      BY <3>1, <2>2, <2>3, <1>2, <1>24
  <2>5. CASE M # 0
    <3>1. M \in stops /\ M \in 1 .. M
      BY <2>5, <1>3, <1>4, <1>24
    <3>2. d[M].seq < s /\ d[M].seq \in Nat
      BY <3>1, <1>6, <1>7 DEF stops
    <3>3. Last(d) = d[M]
      BY DEF Last, M
    <3>4. s # 0 /\ Last(d).seq # s
      BY <3>2, <3>3
    <3> QED
      BY <3>4, <2>2, <2>3, <1>2, <1>24
  <2> QED
    BY <2>4, <2>5
<1>25. ASSUME n # M PROVE Moved(d, doc, w, e, l, docs[n]) /\ d # << >> /\ Last(d).seq = s
  <2>1. n < M /\ M # 0 /\ z # 0
    BY <1>25, <1>3, <1>9
  <2>2. \A i \in n + 1 .. M : sq[i] = s
    <3> TAKE i \in n + 1 .. M
    <3>1. i \in 1 .. M /\ ~(i <= n) /\ M \in 1 .. N /\ i <= M
      BY <1>3, <1>9
    <3>2. ~(sq[i] < s) /\ sq[i] \in Nat
      BY <3>1, <1>4, <1>6, <1>7 DEF stops
    <3>3. sq[i] <= sq[M] /\ sq[M] \in Nat
      BY <3>1, <1>2, <1>6, <1>7 DEF Order
    <3>4. sq[M] <= s
      BY <2>1, <1>2 DEF Label
    <3> QED
      BY <3>2, <3>3, <3>4
  <2>3. n = 0 \/ sq[n] # s
    <3> SUFFICES ASSUME n # 0 PROVE sq[n] # s
      OBVIOUS
    <3>1. n \in stops /\ n \in 1 .. M
      BY <1>4, <1>3, <1>9
    <3>2. sq[n] < s /\ sq[n] \in Nat
      BY <3>1, <1>6, <1>7 DEF stops
    <3> QED
      BY <3>2
  <2>4. Adds(d, docs[M], w, docs[n])
    <3>1. d \in Seq(Entries) /\ w \in Seq(Entries) /\ M = Len(d) /\ n = Len(w)
          /\ Behind(d, docs, sq) /\ Behind(w, docs, sq)
      BY <1>2, <1>13, <1>14 DEF M
    <3> QED
      BY ONLY <3>1, <2>1, <2>2, <2>3, CommandFacts
  <2>5. E = 0 \/ sq[N - E + 1] # s
    <3> SUFFICES ASSUME E # 0 PROVE sq[N - E + 1] # s
      OBVIOUS
    <3>1. M < N /\ N - E + 1 = M + 1 /\ M + 1 \in 1 .. N
      BY <1>2, <1>3
    <3>2. s < sq[M + 1] /\ sq[M + 1] \in Nat
      BY <3>1, <1>2, <1>6
    <3> QED
      BY <3>1, <3>2
  <2> DEFINE L == E + z
  <2>6. L \in Nat /\ E < L /\ L <= N /\ N - L = n /\ N - E = M
    BY <2>1, <1>2, <1>3, <1>9
  <2>7. L = Len(l) /\ E = Len(e)
    BY <1>10 DEF E
  <2> HIDE DEF L
  <2>8. \A i \in N - L + 1 .. N - E : sq[i] = s
    BY <2>2, <2>6
  <2>9. Adds(l, docs[N - L], e, docs[N - E])
    <3>1. l \in Seq(Entries) /\ e \in Seq(Entries) /\ N \in Nat
          /\ Ahead(l, docs, sq, N) /\ Ahead(e, docs, sq, N)
      BY <1>2, <1>3, <1>11, <1>12
    <3> QED
      BY ONLY <3>1, <2>5, <2>6, <2>7, <2>8, AheadCommand
  <2>10. Moved(d, doc, w, e, l, docs[n])
    BY <2>4, <2>6, <2>9, <1>2 DEF Moved
  <2>11. Last(d).seq = s /\ d # << >>
    <3>1. M \in 1 .. M /\ M \in n + 1 .. M
      BY <2>1, <1>3, <1>9
    <3>2. Last(d) = d[M] /\ d # << >>
      BY <2>1 DEF Last, M
    <3> QED
      BY <3>1, <3>2, <2>2, <1>7
  <2> QED
    BY <2>10, <2>11
<1>26. Undoes(d, e, doc, s, n, w, l, docs[n])
  BY <1>23, <1>24, <1>25 DEF Undoes, M
<1> QED
  BY <1>10, <1>16, <1>21, <1>22, <1>26 DEF w, l, G

\* Redo leaves n entries, and f.seq is k.
Redoes(d, e, doc, s, n, w, l, to, k) ==
    /\ n = Len(e) => to = doc /\ w = e /\ l = d /\ e = << >> /\ k = s
    /\ n # Len(e) => /\ Moved(e, doc, w, d, l, to)
                     /\ l # << >> /\ Last(l).seq = k

\* Redo: the file goes forward to where the next command ended.
LEMMA KnownRedo ==
    ASSUME NEW d, NEW e, NEW doc, NEW s \in Nat, NEW p, NEW sv, NEW top \in Nat, NEW bad, s <= top,
           Known(d, e, doc, s, p, sv, top, bad),
           NEW F, Shows(F, doc), F.log = d, F.seq = s,
           NEW n, n = Kept({j \in 1 .. Len(e) : redoStops(e[j])}), e = epsilon
    PROVE  \E to : /\ Shows(Reversed(F, e, n), to) /\ Reversed(F, e, n).seq <= top
                   /\ Known(Reversed(F, e, n).log, SubSeq(e, 1, n), to, Reversed(F, e, n).seq, p, sv,
                            top, bad)
                   /\ Redoes(d, e, doc, s, n, SubSeq(e, 1, n), Reversed(F, e, n).log, to,
                             Reversed(F, e, n).seq)
<1> DEFINE M == Len(d)
           E == Len(e)
           G == Reversed(F, e, n)
           w == SubSeq(e, 1, n)
           stops == {j \in 1 .. E : redoStops(e[j])}
<1>1. PICK N, docs, sq : Line(d, e, N, docs, sq, doc, s, top) /\ Safe(bad, N, docs, sq, doc, s, p, sv)
  BY DEF Known
<1>2. /\ d \in Seq(Entries) /\ e \in Seq(Entries) /\ N = M + E
      /\ doc \in Docs /\ docs[M] = doc
      /\ Order(sq, N, top) /\ Behind(d, docs, sq) /\ Ahead(e, docs, sq, N)
      /\ Label(sq, M) <= s /\ (M < N => s = Label(sq, M) /\ s < sq[M + 1])
  BY <1>1 DEF Line
<1>3. M \in Nat /\ E \in Nat /\ N \in Nat /\ M <= N /\ N - E = M
  <2>1. M \in Nat /\ E \in Nat
    BY <1>2
  <2> QED
    BY <2>1, <1>2
<1>4. /\ n \in 0 .. E /\ n \in {0} \cup stops /\ \A i \in stops : i <= n
  <2>1. stops \in SUBSET (1 .. E)
    OBVIOUS
  <2>2. n = Kept(stops)
    OBVIOUS
  <2> HIDE DEF stops, E
  <2> QED
    BY <2>1, <2>2, <1>3, KeptFacts
<1>5. \A j \in 1 .. E : Leads(e[j], docs[N - j], docs[N - j + 1], sq[N - j + 1])
  BY <1>2 DEF Ahead
<1>6. \A i \in 1 .. N : sq[i] \in 1 .. MaxSeq /\ sq[i] \in Nat /\ sq[i] >= 1
  BY <1>2 DEF Order
<1>7. \A j \in 1 .. E : N - j + 1 \in 1 .. N /\ e[j].seq = sq[N - j + 1]
  <2>1. \A j \in 1 .. E : N - j + 1 \in 1 .. N
    <3> HIDE DEF M, E
    <3> QED
      BY <1>2, <1>3
  <2> QED
    BY <2>1, <1>5 DEF Leads
<1>8. \A j \in 1 .. E : j \in stops <=> sq[N - j + 1] > sq[M + 1]
  <2> TAKE j \in 1 .. E
  <2>1. Last(e) = e[E]
    BY DEF Last
  <2>2. E \in 1 .. E /\ N - E + 1 = M + 1
    BY <1>3
  <2>3. Last(e).seq = sq[M + 1]
    BY <2>1, <2>2, <1>7
  <2>4. j \in stops <=> e[j].seq > Last(e).seq
    BY DEF redoStops
  <2> HIDE DEF stops, E
  <2> QED
    BY <2>3, <2>4, <1>7
<1> HIDE DEF M, E, stops, w
<1> DEFINE D == [j \in 0 .. E |-> docs[N - j]]
           S == [j \in 1 .. E |-> sq[N - j + 1]]
<1>9. \A j \in 0 .. E : D[j] = docs[N - j]
  OBVIOUS
<1>10. \A j \in 1 .. E : S[j] = sq[N - j + 1]
  OBVIOUS
<1> HIDE DEF D, S
<1>11. Turned(F, G, D, S, E, E - n)
  <2>1. ASSUME NEW j \in 1 .. E PROVE Leads(e[j], D[j], D[j - 1], S[j]) /\ S[j] \in 1 .. MaxSeq
    <3>1. j \in 0 .. E /\ j - 1 \in 0 .. E /\ N - (j - 1) = N - j + 1
      BY <1>3
    <3>2. D[j] = docs[N - j] /\ D[j - 1] = docs[N - j + 1] /\ S[j] = sq[N - j + 1]
      BY <3>1, <1>9, <1>10
    <3> QED
      BY <3>2, <1>5, <1>6, <1>7
  <2>2. E = Len(e)
    BY DEF E
  <2>3. Shows(F, D[E])
    <3>1. E \in 0 .. E
      BY <1>3
    <3> QED
      BY <3>1, <1>2, <1>3, <1>9
  <2> HIDE DEF G
  <2>4. Turned(F, Reversed(F, e, n), D, S, E, E - n)
    BY <2>1, <2>2, <2>3, <1>2, <1>4, ReversedFacts
  <2> QED
    BY <2>4 DEF G
<1> HIDE DEF G
<1> DEFINE l == G.log
           z == E - n
           c == N - n
<1>12. /\ z \in Nat /\ E - z = n /\ n \in Nat /\ n <= E /\ c \in Nat /\ c = M + z /\ N = c + n
       /\ (z = 0 <=> n = E) /\ c \in 0 .. N
  <2>1. n \in Nat /\ n <= E /\ N = M + E
    BY <1>2, <1>3, <1>4
  <2> QED
    BY <2>1, <1>3
<1>13. /\ Shows(G, D[n]) /\ Len(l) = M + z
       /\ \A x \in 1 .. M : l[x] = d[x]
       /\ \A y \in 1 .. z : Leads(l[M + y], D[E - y], D[E - y + 1], S[E - y + 1])
       /\ G.seq = IF z = 0 THEN s ELSE S[E - z + 1]
  <2>1. Turned(F, G, D, S, E, z)
    BY <1>11
  <2> HIDE DEF z
  <2> QED
    BY <2>1, <1>12 DEF Turned, M
<1>14. l \in Seq(Entries)
  BY <1>13 DEF Shows, Files
<1>15. D[n] = docs[c]
  BY <1>4, <1>9
<1> HIDE DEF l, z, c
<1>16. Behind(l, docs, sq)
  <2>1. ASSUME NEW i \in 1 .. M + z PROVE Leads(l[i], docs[i], docs[i - 1], sq[i])
    <3>1. CASE i <= M
      <4>1. i \in 1 .. M
        BY <3>1, <1>3, <1>12
      <4>2. Leads(d[i], docs[i], docs[i - 1], sq[i])
        BY <4>1, <1>2 DEF Behind, M
      <4> QED
        BY <4>1, <4>2, <1>13
    <3>2. CASE ~(i <= M)
      <4> DEFINE y == i - M
                 j == E - y
                 m == j + 1
      <4>1. y \in 1 .. z /\ M + y = i
        <5>1. i \in Nat /\ M < i /\ i <= M + z /\ z \in Nat
          BY <3>2, <1>3, <1>12
        <5> QED
          BY <5>1, <1>3
      <4>2. j \in 0 .. E /\ m \in 0 .. E /\ m \in 1 .. E /\ N - j = i /\ N - m = i - 1 /\ N - m + 1 = i
        <5>1. z <= E /\ N = M + E /\ i = M + y /\ y \in Nat /\ 1 <= y /\ y <= z
          BY <4>1, <1>2, <1>3, <1>12
        <5> QED
          BY <5>1, <1>3, <1>12
      <4>3. Leads(l[M + y], D[j], D[m], S[m])
        BY <4>1, <1>13
      <4> HIDE DEF y, j, m
      <4> QED
        BY <4>1, <4>2, <4>3, <1>9, <1>10
    <3> QED
      BY <3>1, <3>2
  <2> QED
    BY <2>1, <1>13 DEF Behind
<1>17. w \in Seq(Entries) /\ Len(w) = n /\ \A x \in 1 .. n : w[x] = e[x]
  BY <1>2, <1>4, FirstFacts DEF w, E
<1>18. Ahead(w, docs, sq, N)
  <2>1. \A i \in 1 .. n : i \in 1 .. E
    BY <1>3, <1>12
  <2> QED
    BY <2>1, <1>5, <1>17 DEF Ahead
<1>19. docs[c] \in Docs
  <2>1. CASE n = E
    BY <2>1, <1>2, <1>3 DEF c
  <2>2. CASE n # E
    <3> DEFINE i == n + 1
    <3>0. n \in Nat /\ n <= E /\ n # E /\ N = c + n /\ c \in Nat
      BY <2>2, <1>12
    <3>1. i \in 1 .. E /\ N - i + 1 = c
      <4>1. i \in Nat /\ 1 <= i /\ i <= E
        BY <3>0, <1>3
      <4>2. N - i + 1 = c
        BY <3>0, <1>3
      <4> QED
        BY <4>1, <4>2
    <3> HIDE DEF i
    <3>2. Leads(e[i], docs[N - i], docs[N - i + 1], sq[N - i + 1])
      BY <3>1, <1>5
    <3> QED
      BY <3>1, <3>2 DEF Leads
  <2> QED
    BY <2>1, <2>2
<1>20. n = E => n = 0 /\ c = N /\ c = M /\ G.seq = s
  <2> SUFFICES ASSUME n = E PROVE n = 0 /\ c = N /\ c = M /\ G.seq = s
    OBVIOUS
  <2>1. n = 0
    <3> SUFFICES ASSUME n # 0 PROVE FALSE
      OBVIOUS
    <3>1. E \in stops /\ E \in 1 .. E /\ M + 1 \in 1 .. N
      BY <1>2, <1>3, <1>4
    <3>2. sq[N - E + 1] > sq[M + 1]
      BY <3>1, <1>8
    <3>3. sq[M + 1] \in Nat
      BY <3>1, <1>6
    <3> QED
      BY <3>2, <3>3, <1>3
  <2> QED
    BY <2>1, <1>12, <1>13
<1>21. n # E => /\ c \in 1 .. N /\ c # 0 /\ G.seq = sq[c] /\ sq[c] \in Nat
                /\ n # 0 => c + 1 \in 1 .. N /\ sq[c] < sq[c + 1]
  <2> SUFFICES ASSUME n # E
               PROVE  /\ c \in 1 .. N /\ c # 0 /\ G.seq = sq[c] /\ sq[c] \in Nat
                      /\ n # 0 => c + 1 \in 1 .. N /\ sq[c] < sq[c + 1]
    OBVIOUS
  <2> DEFINE i == n + 1
  <2>0. /\ n \in Nat /\ n <= E /\ n # E /\ N = c + n /\ c = M + z /\ N = M + E /\ E - z = n
        /\ z \in Nat /\ z # 0 /\ c \in Nat
    BY <1>2, <1>12
  <2>1. i \in 1 .. E /\ N - i + 1 = c /\ c \in 1 .. N /\ c # 0 /\ M + 1 \in 1 .. N
        /\ E - z + 1 = i /\ z # 0 /\ ~(i <= n)
    <3>1. i \in Nat /\ 1 <= i /\ i <= E /\ ~(i <= n) /\ N - i + 1 = c
      <4>1. i \in Nat /\ 1 <= i /\ i <= E
        BY <2>0, <1>3
      <4>2. ~(i <= n)
        BY <2>0
      <4>3. N - i + 1 = c
        BY <2>0, <1>3
      <4> QED
        BY <4>1, <4>2, <4>3
    <3>2. c \in 1 .. N /\ c # 0 /\ M + 1 \in 1 .. N
      BY <2>0, <1>3
    <3>3. E - z + 1 = i
      BY <2>0, <1>3
    <3> QED
      BY <3>1, <3>2, <3>3, <2>0, <1>3
  <2> HIDE DEF i
  <2>2. G.seq = S[i] /\ S[i] = sq[c]
    BY <2>1, <1>10, <1>13
  <2>3. sq[c] \in Nat /\ sq[M + 1] \in Nat
    BY <2>1, <1>6
  <2>4. ~(sq[c] > sq[M + 1])
    BY <2>1, <1>4, <1>8
  <2>5. ASSUME n # 0 PROVE c + 1 \in 1 .. N /\ sq[c] < sq[c + 1]
    <3>1. n \in stops /\ n \in 1 .. E /\ N - n + 1 = c + 1 /\ c + 1 \in 1 .. N
      BY <2>5, <1>3, <1>4, <1>12
    <3>2. sq[c + 1] > sq[M + 1] /\ sq[c + 1] \in Nat
      BY <3>1, <1>6, <1>8
    <3> QED
      BY <3>1, <3>2, <2>3, <2>4
  <2> QED
    BY <2>1, <2>2, <2>3, <2>5
<1>22. Line(l, w, N, docs, sq, docs[c], G.seq, top)
  <2>1. Label(sq, c) <= G.seq
    <3>1. CASE n = E
      BY <3>1, <1>2, <1>20
    <3>2. CASE n # E
      BY <3>2, <1>21 DEF Label
    <3> QED
      BY <3>1, <3>2
  <2>2. ASSUME c < N PROVE G.seq = Label(sq, c) /\ G.seq < sq[c + 1]
    <3>1. n # 0 /\ n # E
      <4>1. n # 0
        BY <2>2, <1>12, <1>3
      <4> QED
        BY <4>1, <1>20
    <3> QED
      BY <3>1, <1>21 DEF Label
  <2>3. Len(l) = c
    BY <1>12, <1>13
  <2> QED
    BY <2>1, <2>2, <2>3, <1>2, <1>12, <1>14, <1>16, <1>17, <1>18, <1>19 DEF Line
<1>23. Safe(bad, N, docs, sq, docs[c], G.seq, p, sv)
  <2>1. CASE n = E
    BY <2>1, <1>1, <1>2, <1>20 DEF Safe
  <2>2. CASE n # E
    <3>1. Label(sq, c) = G.seq
      BY <2>2, <1>21 DEF Label
    <3>2. Stop(sq, N, c)
      <4>1. n = 0 => c = N
        BY <1>12
      <4> QED
        BY <4>1, <2>2, <1>21 DEF Stop
    <3> QED
      BY <3>1, <3>2, <1>1, <1>12 DEF Safe
  <2> QED
    BY <2>1, <2>2
<1>24. Known(l, w, docs[c], G.seq, p, sv, top, bad)
  BY <1>22, <1>23 DEF Known
<1>25. G.seq <= top
  <2>1. CASE n = E
    BY <2>1, <1>20
  <2>2. CASE n # E
    BY <2>2, <1>2, <1>21 DEF Order
  <2> QED
    BY <2>1, <2>2
<1>26. ASSUME n = E PROVE docs[c] = doc /\ w = e /\ l = d /\ e = << >> /\ G.seq = s
  <2>1. n = 0 /\ c = M /\ G.seq = s /\ E = 0 /\ z = 0 /\ M + z = M
    BY <1>3, <1>12, <1>20, <1>26
  <2>2. e = << >>
    BY <2>1, <1>2 DEF E
  <2>3. w = e
    BY <2>1, <2>2, <1>17
  <2>4. l = d
    <3>1. Len(l) = Len(d) /\ \A x \in 1 .. Len(l) : l[x] = d[x]
      BY <2>1, <1>13 DEF M
    <3> QED
      BY <3>1, <1>2, <1>14, SameQueue
  <2> QED
    BY <2>1, <2>2, <2>3, <2>4, <1>2
<1>27. ASSUME n # E PROVE Moved(e, doc, w, d, l, docs[c]) /\ l # << >> /\ Last(l).seq = G.seq
  <2> DEFINE r == sq[M + 1]
  <2>1. n < E /\ E <= N /\ N - E = M /\ N - n = c /\ M < c /\ M < N /\ c \in 1 .. c /\ c # 0
        /\ M + 1 \in 1 .. N /\ c <= N
    <3>1. n < E /\ n \in Nat /\ N = M + E /\ c = M + z /\ N = c + n
      BY <1>2, <1>3, <1>12, <1>27
    <3> QED
      BY <3>1, <1>3, <1>12
  <2>2. s = Label(sq, M) /\ s < r /\ r \in Nat
    BY <2>1, <1>2, <1>6
  <2> HIDE DEF r
  <2>3. ASSUME NEW i \in M + 1 .. c PROVE sq[i] = r
    <3> DEFINE j == N - i + 1
    <3>1. /\ i \in 1 .. N /\ j \in 1 .. E /\ ~(j <= n) /\ N - j + 1 = i /\ M + 1 <= i
      <4>1. i \in Nat /\ M + 1 <= i /\ i <= c /\ c \in Nat
        BY <1>3, <1>12
      <4>2. N = M + E /\ N = c + n /\ n \in Nat /\ M \in Nat /\ E \in Nat
        BY <1>2, <1>3, <1>12
      <4>3. j = N - i + 1
        OBVIOUS
      <4> HIDE DEF j
      <4> QED
        BY ONLY <4>1, <4>2, <4>3
    <3> HIDE DEF j
    <3>2. ~(sq[i] > r)
      <4>1. j \notin stops
        BY <3>1, <1>4
      <4> QED
        BY <4>1, <3>1, <1>8 DEF r
    <3>3. r <= sq[i] /\ sq[i] \in Nat
      BY <3>1, <2>1, <1>2, <1>6 DEF Order, r
    <3> QED
      BY <3>2, <3>3, <2>2
  <2>4. M = 0 \/ sq[M] # r
    BY <2>2 DEF Label
  <2>5. Adds(l, docs[c], d, docs[M])
    <3>1. l \in Seq(Entries) /\ d \in Seq(Entries) /\ c = Len(l) /\ M = Len(d) /\ M < c
          /\ Behind(l, docs, sq) /\ Behind(d, docs, sq)
      BY <2>1, <1>2, <1>12, <1>13, <1>14, <1>16 DEF M
    <3> QED
      BY ONLY <3>1, <2>3, <2>4, CommandFacts
  <2>6. n = 0 \/ sq[N - n + 1] # r
    <3> SUFFICES ASSUME n # 0 PROVE sq[N - n + 1] # r
      OBVIOUS
    <3>1. n \in stops /\ n \in 1 .. E
      BY <1>3, <1>4, <2>1
    <3>2. sq[N - n + 1] > r
      BY <3>1, <1>8 DEF r
    <3> QED
      BY <3>2, <2>2
  <2>7. \A i \in N - E + 1 .. N - n : sq[i] = r
    BY <2>1, <2>3
  <2>8. Adds(e, docs[N - E], w, docs[N - n])
    <3>1. e \in Seq(Entries) /\ w \in Seq(Entries) /\ E = Len(e) /\ n = Len(w)
          /\ Ahead(e, docs, sq, N) /\ Ahead(w, docs, sq, N) /\ N \in Nat
      BY <1>2, <1>3, <1>17, <1>18 DEF E
    <3> QED
      BY ONLY <3>1, <2>1, <2>6, <2>7, AheadCommand
  <2>9. Moved(e, doc, w, d, l, docs[c])
    BY <2>1, <2>5, <2>8, <1>2 DEF Moved
  <2>10. l # << >> /\ Last(l).seq = G.seq
    <3>1. Len(l) = c
      BY <1>12, <1>13
    <3>2. Leads(l[c], docs[c], docs[c - 1], sq[c])
      BY <3>1, <2>1, <1>16 DEF Behind
    <3>3. G.seq = sq[c]
      BY <1>21, <1>27
    <3> QED
      BY <3>1, <3>2, <3>3, <2>1 DEF Leads, Last
  <2> QED
    BY <2>9, <2>10
<1>28. Redoes(d, e, doc, s, n, w, l, docs[c], G.seq)
  BY <1>26, <1>27 DEF Redoes, E
<1> QED
  BY <1>13, <1>15, <1>24, <1>25, <1>28 DEF w, l, G

\* No entry of the log is of a later command than s.
LEMMA KnownLast ==
    ASSUME NEW d, NEW e, NEW doc, NEW s \in Nat, NEW p, NEW sv, NEW top, NEW bad,
           Known(d, e, doc, s, p, sv, top, bad)
    PROVE  d = << >> \/ (Last(d).seq \in Nat /\ Last(d).seq <= s)
<1>1. PICK N, docs, sq : Line(d, e, N, docs, sq, doc, s, top)
  BY DEF Known
<1>2. /\ d \in Seq(Entries) /\ e \in Seq(Entries) /\ N = Len(d) + Len(e)
      /\ Order(sq, N, top) /\ Behind(d, docs, sq) /\ Label(sq, Len(d)) <= s
  BY <1>1 DEF Line
<1> SUFFICES ASSUME d # << >> PROVE Last(d).seq \in Nat /\ Last(d).seq <= s
  OBVIOUS
<1> DEFINE m == Len(d)
<1>3. m \in 1 .. m /\ m \in 1 .. N /\ m # 0
  BY <1>2
<1>4. Last(d).seq = sq[m]
  <2>1. Leads(d[m], docs[m], docs[m - 1], sq[m])
    BY <1>2, <1>3 DEF Behind
  <2> QED
    BY <2>1 DEF Leads, Last
<1> HIDE DEF m
<1>5. sq[m] \in Nat
  BY <1>2, <1>3 DEF Order
<1>6. sq[m] <= s
  BY <1>2, <1>3 DEF Label, m
<1> QED
  BY <1>4, <1>5, <1>6

LEMMA KnownTold ==
    ASSUME NEW d, NEW e, NEW doc, NEW s, NEW sv, NEW top, NEW bad,
           Known(d, e, doc, s, s, sv, top, bad)
    PROVE  Sure(bad, sv, doc)
BY DEF Known, Safe

-----------------------------------------------------------------------------
(* The inductive invariant.                                                *)

FileOK == /\ shown \in Texts /\ name \in Names /\ Holds(buf, shown)
          /\ known \in Names \cup {None}
          /\ seq \in 0 .. MaxSeq /\ putseq \in 0 .. MaxSeq /\ count \in 0 .. MaxSeq
          /\ seq <= count /\ putseq <= count
          /\ mod \in BOOLEAN /\ dirty \in BOOLEAN /\ busy \in BOOLEAN /\ warned \in BOOLEAN
          /\ astray \subseteq Names
          /\ saved \in [Names -> {None} \cup Texts]

\* A file has the history that its logs say.
Remembers == Known(delta, epsilon, Document, seq, putseq, saved, count, astray)

\* The command that has marked the file is later than the one of the last Put.
Marked == busy => putseq < seq /\ epsilon = << >>

\* A window that is not dirty, whatever is in the cache.
Clean == ~dirty /\ ~warned => Sure(astray, saved, Document)

FileInv == FileOK /\ Remembers /\ Marked /\ Clean

\* There is room for the runes in the cache.
Typing == /\ cache \in Seq(Runes) /\ cq0 \in 0 .. MaxText
          /\ cache # << >> => cq0 <= Len(shown) /\ Len(shown) + Len(cache) <= MaxText

LEMMA CleanTold == FileInv => CleanIsSaved
BY DEF FileInv, Clean, CleanIsSaved, Sure, Told, Document

LEMMA NowShows ==
    ASSUME FileInv, NEW l \in Seq(Entries)
    PROVE  /\ Shows(Now, Document) /\ Shows([Now EXCEPT !.log = l], Document)
           /\ Document \in Docs /\ Document.text = shown /\ Document.name = name
<1>1. /\ shown \in Texts /\ name \in Names /\ Holds(buf, shown) /\ seq \in 0 .. MaxSeq
      /\ mod \in BOOLEAN
  BY DEF FileInv, FileOK
<1>2. buf \in Buffers
  BY <1>1 DEF Holds
<1>3. delta \in Seq(Entries)
  BY DEF FileInv, Remembers, Known, Line
<1>4. Document \in Docs /\ Document.text = shown /\ Document.name = name
  BY <1>1 DEF Document, Docs
<1>5. Now = [buf |-> buf, shown |-> shown, name |-> name, seq |-> seq, mod |-> mod, log |-> delta]
  BY DEF Now
<1>6. [Now EXCEPT !.log = l] =
          [buf |-> buf, shown |-> shown, name |-> name, seq |-> seq, mod |-> mod, log |-> l]
  BY <1>5
<1>7. Shows(Now, Document)
  BY <1>1, <1>2, <1>3, <1>4, <1>5 DEF Shows, Files
<1> DEFINE F == [Now EXCEPT !.log = l]
<1>8. F \in Files /\ F.buf = buf /\ F.shown = shown /\ F.name = name
  BY <1>1, <1>2, <1>6 DEF Files
<1> HIDE DEF F
<1>9. Shows(F, Document)
  BY <1>1, <1>4, <1>8 DEF Shows
<1> QED
  BY <1>4, <1>7, <1>9 DEF F

LEMMA BecomesFacts ==
    ASSUME NEW F, NEW e, Shows(F, e), e \in Docs, Becomes(F)
    PROVE  /\ shown' \in Texts /\ name' \in Names /\ Holds(buf', shown') /\ mod' \in BOOLEAN
           /\ Document' = e /\ seq' = F.seq
<1>1. /\ F \in Files /\ Holds(F.buf, e.text) /\ F.shown = e.text /\ F.name = e.name
      /\ F.mod \in BOOLEAN /\ F.shown \in Texts /\ F.name \in Names
  BY DEF Shows, Files
<1>2. buf' = F.buf /\ shown' = F.shown /\ name' = F.name /\ seq' = F.seq /\ mod' = F.mod
  BY DEF Becomes
<1>3. e = [text |-> e.text, name |-> e.name]
  BY DEF Docs
<1>4. Document' = e
  BY <1>1, <1>2, <1>3 DEF Document
<1> QED
  BY <1>1, <1>2, <1>4

\* The empty Buffer is filled.
LEMMA FillHolds ==
    ASSUME NEW b, Holds(b, << >>), NEW s \in Seq(Runes)
    PROVE  Holds(insert(b, 0, s), s)
<1> DEFINE none == << >>
           w == Splice(none, 0, 0, s)
<1>1. none \in Seq(Runes) /\ Len(none) = 0 /\ Holds(b, none)
  OBVIOUS
<1> HIDE DEF none
<1>2. 0 \in 0 .. Len(none)
  BY <1>1
<1>3. Holds(insert(b, 0, s), w)
  BY <1>1, <1>2, InsertHolds
<1>4. /\ w \in Seq(Runes) /\ Len(w) = Len(none) + Len(s)
      /\ \A x \in 1 .. Len(none) + Len(s) :
            w[x] = IF x <= 0 THEN none[x] ELSE IF x <= 0 + Len(s) THEN s[x - 0]
                   ELSE none[x - Len(s)]
  <2>1. none \in Seq(Runes)
    BY <1>1
  <2> QED
    BY <2>1, <1>2, SpliceIn
<1> HIDE DEF w
<1>5. Len(s) \in Nat
  OBVIOUS
<1>6. Len(w) = Len(s) /\ \A x \in 1 .. Len(s) : w[x] = s[x]
  BY <1>1, <1>4, <1>5
<1>7. w = s
  BY <1>4, <1>6, SameQueue
<1> QED
  BY <1>3, <1>7

LEMMA InitFile == Init => FileInv
<1> SUFFICES ASSUME Init PROVE FileInv
  OBVIOUS
<1>1. PICK f \in [Names -> {None} \cup Strings] :
          /\ saved = f /\ name \in {n \in Names : f[n] # None} /\ known = name /\ shown = f[name]
          /\ buf = insert(newbuffer, 0, f[name])
          /\ seq = 0 /\ putseq = 0 /\ count = 0
          /\ mod = FALSE /\ dirty = FALSE
          /\ delta = << >> /\ epsilon = << >>
          /\ busy = FALSE /\ warned = FALSE /\ astray = {}
  BY DEF Init
<1>2. name \in Names /\ saved[name] = shown /\ shown \in Strings /\ shown # None
  BY <1>1
<1>3. \A s \in Strings : s \in Texts
  BY FileAssumption DEF Texts
<1>4. shown \in Texts /\ shown \in Seq(Runes) /\ saved \in [Names -> {None} \cup Texts]
  BY <1>1, <1>2, <1>3 DEF Texts
<1>5. Holds(buf, shown)
  <2>1. Holds(insert(newbuffer, 0, shown), shown)
    BY <1>4, NewbufferHolds, FillHolds
  <2> QED
    BY <2>1, <1>1
<1>6. Document \in Docs /\ Sure(astray, saved, Document)
  BY <1>2, <1>4 DEF Document, Docs, Told, Sure
<1>7. Remembers
  <2>1. Known(<< >>, << >>, Document, 0, putseq, saved, count, astray)
    <3>1. count \in Nat
      BY <1>1
    <3> QED
      BY <3>1, <1>6, KnownNew
  <2> QED
    BY <2>1, <1>1 DEF Remembers
<1>8. FileOK
  <2>1. 0 \in 0 .. MaxSeq /\ 0 <= 0
    BY FileAssumption
  <2>2. /\ seq = 0 /\ putseq = 0 /\ count = 0 /\ known = name
        /\ mod \in BOOLEAN /\ dirty \in BOOLEAN /\ busy \in BOOLEAN /\ warned \in BOOLEAN
        /\ astray \subseteq Names
    BY <1>1
  <2> QED
    BY <2>1, <2>2, <1>2, <1>4, <1>5 DEF FileOK
<1> QED
  BY <1>1, <1>6, <1>7, <1>8 DEF FileInv, Marked, Clean

-----------------------------------------------------------------------------
(* What History says of the logs.                                          *)

LEMMA AppendEnds ==
    ASSUME NEW S, NEW q \in Seq(S), NEW x \in S
    PROVE  /\ Append(q, x) # << >>
           /\ Promise!Last(Append(q, x)) = x /\ Promise!Front(Append(q, x)) = q
<1> DEFINE p == Append(q, x)
           n == Len(q)
<1>1. p \in Seq(S) /\ Len(p) = n + 1 /\ (\A i \in 1 .. n : p[i] = q[i]) /\ p[n + 1] = x
  BY AppendFacts
<1>2. n \in Nat /\ n \in 0 .. Len(p) /\ Len(p) - 1 = n
  BY <1>1
<1> HIDE DEF p, n
<1>3. Promise!Last(p) = x
  BY <1>1 DEF Promise!Last
<1>4. SubSeq(p, 1, n) \in Seq(S) /\ Len(SubSeq(p, 1, n)) = n
      /\ \A i \in 1 .. n : SubSeq(p, 1, n)[i] = p[i]
  BY <1>1, <1>2, FirstFacts
<1>5. SubSeq(p, 1, n) = q
  BY <1>1, <1>4, SameQueue DEF n
<1>6. Promise!Front(p) = q
  BY <1>2, <1>5 DEF Promise!Front
<1>7. p # << >>
  BY <1>1, <1>2
<1> QED
  BY <1>3, <1>6, <1>7 DEF p

\* The last of a log that is read backwards comes first.
LEMMA ReverseAppend ==
    ASSUME NEW S, NEW q \in Seq(S), NEW x \in S
    PROVE  /\ Reverse(Append(q, x)) = <<x>> \o Reverse(q)
           /\ Reverse(Append(q, x)) # << >>
           /\ Head(Reverse(Append(q, x))) = x /\ Tail(Reverse(Append(q, x))) = Reverse(q)
<1> DEFINE p == Append(q, x)
           n == Len(q)
           r == Reverse(q)
           one == <<x>>
           j == one \o r
           s == Reverse(p)
<1>1. p \in Seq(S) /\ Len(p) = n + 1 /\ (\A i \in 1 .. n : p[i] = q[i]) /\ p[n + 1] = x
  BY AppendFacts
<1>2. n \in Nat
  OBVIOUS
<1>3. r \in Seq(S) /\ Len(r) = n /\ \A i \in 1 .. n : r[i] = q[(n - i) + 1]
  <2>1. r = [i \in 1 .. n |-> q[(n - i) + 1]]
    BY DEF Reverse
  <2>2. \A i \in 1 .. n : q[(n - i) + 1] \in S
    BY <1>2
  <2> HIDE DEF r
  <2> QED
    BY <2>1, <2>2, <1>2
<1> HIDE DEF r
<1>4. j \in Seq(S) /\ Len(j) = n + 1 /\ j[1] = x /\ \A i \in 1 .. n : j[i + 1] = r[i]
  BY <1>2, <1>3
<1> HIDE DEF p, n, one, j
<1>5. s \in Seq(S) /\ Len(s) = n + 1 /\ \A i \in 1 .. n + 1 : s[i] = p[((n + 1) - i) + 1]
  <2>1. s = [i \in 1 .. n + 1 |-> p[((n + 1) - i) + 1]]
    BY <1>1 DEF Reverse
  <2>2. \A i \in 1 .. n + 1 : p[((n + 1) - i) + 1] \in S
    BY <1>1, <1>2
  <2> HIDE DEF s
  <2> QED
    BY <2>1, <2>2, <1>2
<1> HIDE DEF s
<1>6. ASSUME NEW i \in 1 .. n + 1 PROVE s[i] = j[i]
  <2>1. s[i] = p[((n + 1) - i) + 1]
    BY <1>5
  <2>2. CASE i = 1
    <3>1. ((n + 1) - i) + 1 = n + 1
      BY <2>2, <1>2
    <3> QED
      BY <2>1, <2>2, <3>1, <1>1, <1>4
  <2>3. CASE i # 1
    <3> DEFINE k == i - 1
    <3>1. k \in 1 .. n /\ k + 1 = i /\ (n - k) + 1 \in 1 .. n /\ ((n + 1) - i) + 1 = (n - k) + 1
      BY <2>3, <1>2
    <3> HIDE DEF k
    <3>2. j[k + 1] = q[(n - k) + 1]
      BY <3>1, <1>3, <1>4
    <3> QED
      BY <2>1, <3>1, <3>2, <1>1
  <2> QED
    BY <2>2, <2>3
<1>7. s = j
  BY <1>4, <1>5, <1>6, SameQueue
<1>8. s # << >> /\ Head(s) = x /\ Tail(s) = r
  <2>1. s # << >> /\ Head(s) = x
    BY <1>2, <1>4, <1>5, <1>7
  <2>2. Tail(s) \in Seq(S) /\ Len(Tail(s)) = n /\ \A i \in 1 .. n : Tail(s)[i] = s[i + 1]
    BY <2>1, <1>2, <1>5, TailFacts
  <2> QED
    BY <2>1, <2>2, <1>3, <1>4, <1>7, SameQueue
<1> QED
  BY <1>7, <1>8 DEF p, r, s, j, one

LEMMA ReverseNone == Reverse(<< >>) = << >>
BY DEF Reverse

-----------------------------------------------------------------------------
(* Every action keeps it, and is a step of History.                        *)

LEMMA ExecuteFile == FileInv /\ Execute => FileInv' /\ Promise!Command
<1> SUFFICES ASSUME FileInv, Execute PROVE FileInv' /\ Promise!Command
  OBVIOUS
<1>1. /\ count < MaxSeq /\ count' = count + 1 /\ seq' = count + 1 /\ epsilon' = << >> /\ busy' = TRUE
      /\ buf' = buf /\ name' = name /\ mod' = mod /\ delta' = delta /\ known' = known
      /\ shown' = shown /\ dirty' = dirty /\ putseq' = putseq
      /\ warned' = warned /\ saved' = saved /\ astray' = astray
  BY DEF Execute, window, disk
<1>2. /\ count \in 0 .. MaxSeq /\ putseq \in 0 .. MaxSeq /\ seq \in Nat /\ putseq <= count
      /\ putseq \in Nat /\ count \in Nat /\ MaxSeq \in Nat
  BY FileAssumption DEF FileInv, FileOK
<1>3. count + 1 \in 0 .. MaxSeq /\ count + 1 <= count + 1 /\ putseq <= count + 1 /\ putseq < count + 1
  BY <1>1, <1>2
<1>4. Known(delta, << >>, Document, count + 1, putseq, saved, count + 1, astray)
  BY <1>2, KnownMark DEF FileInv, Remembers
<1>5. Remembers'
  BY <1>1, <1>4 DEF Remembers, Document
<1>6. FileOK'
  BY <1>1, <1>3 DEF FileInv, FileOK
<1>7. Clean'
  BY <1>1 DEF FileInv, Clean, Document
<1>8. FileInv'
  BY <1>1, <1>3, <1>5, <1>6, <1>7 DEF FileInv, Marked
<1>9. Promise!Command
  <2>1. delta = << >> \/ Last(delta).seq # count + 1
    <3>1. delta = << >> \/ (Last(delta).seq \in Nat /\ Last(delta).seq <= seq)
      BY <1>2, KnownLast DEF FileInv, Remembers
    <3>2. seq <= count
      BY DEF FileInv, FileOK
    <3> QED
      BY <3>1, <3>2, <1>2
  <2>2. count + 1 # 0
    BY <1>2
  <2>3. Blank' = TRUE
    BY <2>1, <2>2, <1>1 DEF Blank
  <2>4. Document' = Document
    BY <1>1 DEF Document
  <2>5. Documents(delta', Document') = Documents(delta, Document)
    BY <2>4, <1>1
  <2>6. Reverse(Documents(epsilon', Document')) = << >>
    BY <1>1, DocumentsNone, ReverseNone
  <2> QED
    BY <2>3, <2>4, <2>5, <2>6, <1>1 DEF Promise!Command
<1> QED
  BY <1>8, <1>9

\* An edit of the command that has marked the file.
LEMMA EditedFile ==
    ASSUME FileInv, busy, NEW F, NEW e, Logged(Now, F, Document, e, seq), Edited(F)
    PROVE  FileInv' /\ Promise!Change
<1>1. /\ Becomes(F) /\ delta' = F.log /\ dirty' = TRUE
      /\ epsilon' = epsilon /\ known' = known /\ putseq' = putseq /\ count' = count /\ busy' = busy
      /\ warned' = warned /\ saved' = saved /\ astray' = astray
  BY DEF Edited, disk
<1>2. Shows(F, e) /\ F.seq = seq
  BY DEF Logged
<1>3. PICK v : Leads(v, e, Document, seq) /\ F.log = Append(delta, v)
  <2>1. Now.log = delta
    BY DEF Now
  <2> QED
    BY <2>1 DEF Logged
<1>4. e \in Docs
  BY <1>3 DEF Leads
<1>5. /\ shown' \in Texts /\ name' \in Names /\ Holds(buf', shown') /\ mod' \in BOOLEAN
      /\ Document' = e /\ seq' = seq
  BY <1>1, <1>2, <1>4, BecomesFacts
<1>6. /\ seq \in 1 .. MaxSeq /\ seq <= count /\ count \in Nat /\ putseq # seq /\ epsilon = << >>
  <2>1. /\ seq \in 0 .. MaxSeq /\ putseq \in 0 .. MaxSeq /\ count \in 0 .. MaxSeq /\ seq <= count
        /\ putseq < seq /\ epsilon = << >>
    BY DEF FileInv, FileOK, Marked
  <2>2. seq \in 1 .. MaxSeq /\ count \in Nat /\ putseq # seq
    BY <2>1
  <2> QED
    BY <2>1, <2>2
<1>7. /\ Known(Append(delta, v), << >>, e, seq, putseq, saved, count, astray)
      /\ Edits(delta, Document, e, seq, Append(delta, v))
  <2>1. Known(delta, << >>, Document, seq, putseq, saved, count, astray)
    BY <1>6 DEF FileInv, Remembers
  <2> QED
    BY <2>1, <1>3, <1>6, KnownEdit
<1>8. Remembers'
  BY <1>1, <1>3, <1>5, <1>6, <1>7 DEF Remembers
<1>9. FileOK'
  BY <1>1, <1>5 DEF FileInv, FileOK
<1>10. Marked'
  BY <1>1, <1>5 DEF FileInv, Marked
<1>11. Clean'
  BY <1>1 DEF Clean
<1>12. Promise!Change
  <2>1. /\ delta' # << >> /\ Last(delta').seq = seq /\ seq # 0
        /\ Documents(delta', Document') =
               IF delta = << >> \/ Last(delta).seq # seq
               THEN Append(Documents(delta, Document), Document) ELSE Documents(delta, Document)
    BY <1>1, <1>3, <1>5, <1>6, <1>7 DEF Edits
  <2>2. Documents(delta', Document') =
            IF Blank THEN Append(Documents(delta, Document), Document)
            ELSE Documents(delta, Document)
    BY <2>1 DEF Blank
  <2>3. Blank' = FALSE
    BY <2>1, <1>5 DEF Blank
  <2>4. Reverse(Documents(epsilon', Document')) = Reverse(Documents(epsilon, Document))
    BY <1>1, <1>6, DocumentsNone
  <2> QED
    BY <2>2, <2>3, <2>4, <1>1 DEF Promise!Change
<1> QED
  BY <1>8, <1>9, <1>10, <1>11, <1>12 DEF FileInv

LEMMA FilledFile ==
    ASSUME FileInv, busy, NEW s \in Texts, NEW q0 \in Nat, q0 <= Len(shown),
           Len(shown) + Len(s) <= MaxText, Edited(fileinsert(Now, q0, s))
    PROVE  FileInv' /\ Promise!Change
<1> DEFINE n == Len(s)
           G == [Now EXCEPT !.seq = seq]
           R == [uninsert(G, q0, n) EXCEPT !.mod = TRUE, !.buf = insert(@, q0, s),
                                           !.shown = Splice(@, q0, q0, s)]
           e == [text |-> Splice(Document.text, q0, q0, s), name |-> Document.name]
<1>1. Len(shown) + n <= MaxText /\ Edited(fileinsert(Now, q0, s))
  OBVIOUS
<1>3. /\ Shows(Now, Document) /\ Document \in Docs /\ Document.text = shown
  <2>1. << >> \in Seq(Entries)
    OBVIOUS
  <2> QED
    BY <2>1, NowShows
<1>4. Holds(buf, shown) /\ shown \in Seq(Runes) /\ shown \in Texts
  BY DEF FileInv, FileOK, Texts
<1>5. q0 \in 0 .. Len(shown)
  <2>1. Len(shown) \in Nat
    BY <1>4
  <2> QED
    BY <2>1
<1>6. seq \in 1 .. MaxSeq /\ seq > 0
  <2>1. /\ seq \in 0 .. MaxSeq /\ putseq \in 0 .. MaxSeq /\ putseq < seq
    BY DEF FileInv, FileOK, Marked
  <2> QED
    BY <2>1
<1>7. Logged(Now, R, Document, e, seq)
  <2> DEFINE d == Document
  <2>1. q0 \in 0 .. Len(d.text) /\ Len(d.text) + n <= MaxText /\ d \in Docs /\ Shows(Now, d)
    BY <1>1, <1>3, <1>5
  <2> HIDE DEF d
  <2>2. TRUE \in BOOLEAN
    OBVIOUS
  <2>3. Logged(Now, [uninsert(G, q0, n) EXCEPT !.mod = TRUE, !.buf = insert(@, q0, s),
                                               !.shown = Splice(@, q0, q0, s)],
               d, [text |-> Splice(d.text, q0, q0, s), name |-> d.name], seq)
    BY <2>1, <2>2, <1>6, InsertLogged
  <2> QED
    BY <2>3 DEF d
<1>8. G = Now /\ Now.seq = seq
  BY DEF Now
<1>9. fileinsert(Now, q0, s) = R
  BY <1>6, <1>8 DEF fileinsert
<1> HIDE DEF R, e
<1> QED
  BY <1>1, <1>7, <1>9, EditedFile

LEMMA InsertFile ==
    ASSUME FileInv, NEW q0 \in 0 .. MaxText, NEW s \in Strings, Insert(q0, s)
    PROVE  FileInv' /\ Promise!Change
<1>1. /\ busy /\ Len(shown) + Len(s) <= MaxText /\ q0 <= buf.nc
      /\ Edited(fileinsert(Now, q0, s))
  BY DEF Insert
<1>2. s \in Texts
  BY FileAssumption DEF Texts
<1>3. buf.nc = Len(shown) /\ q0 \in Nat
  BY HeldContents DEF FileInv, FileOK, Texts
<1> QED
  BY <1>1, <1>2, <1>3, FilledFile

\* The cache goes to the File.
LEMMA TextcommitFile ==
    ASSUME FileInv, Typing, Textcommit
    PROVE  FileInv' /\ Promise!Change
<1>1. /\ busy /\ Edited(fileinsert(Now, cq0, cache))
      /\ cache \in Seq(Runes) /\ cq0 \in 0 .. MaxText /\ MaxText \in Nat /\ shown \in Seq(Runes)
      /\ cq0 <= Len(shown) /\ Len(shown) + Len(cache) <= MaxText
  BY FileAssumption DEF Textcommit, Typing, FileInv, FileOK, Texts
<1>2. Len(shown) \in Nat /\ Len(cache) \in Nat
  BY <1>1
<1>3. cache \in Texts /\ cq0 \in Nat /\ cq0 <= Len(shown)
  BY <1>1, <1>2 DEF Texts
<1> QED
  BY <1>1, <1>3, FilledFile

LEMMA DeleteFile ==
    ASSUME FileInv, NEW q0 \in 0 .. MaxText, NEW q1 \in 0 .. MaxText, Delete(q0, q1)
    PROVE  FileInv' /\ Promise!Change
<1> DEFINE G == [Now EXCEPT !.seq = seq]
           R == [undelete(G, q0, q1) EXCEPT !.mod = TRUE, !.buf = delete(@, q0, q1),
                                            !.shown = Splice(@, q0, q1, << >>)]
           e == [text |-> Splice(Document.text, q0, q1, << >>), name |-> Document.name]
<1>1. /\ busy /\ q0 < q1 /\ q1 <= buf.nc
      /\ Edited(filedelete(Now, q0, q1))
  BY DEF Delete
<1>3. /\ Shows(Now, Document) /\ Document \in Docs /\ Document.text = shown
  <2>1. << >> \in Seq(Entries)
    OBVIOUS
  <2> QED
    BY <2>1, NowShows
<1>4. Holds(buf, shown) /\ shown \in Seq(Runes) /\ shown \in Texts
  BY DEF FileInv, FileOK, Texts
<1>5. q0 \in 0 .. Len(shown) /\ q1 \in q0 .. Len(shown)
  <2>1. buf.nc = Len(shown)
    BY <1>4, HeldContents
  <2>2. Len(shown) \in Nat
    BY <1>4
  <2> QED
    BY <2>1, <2>2, <1>1
<1>6. seq \in 1 .. MaxSeq /\ seq > 0
  <2>1. /\ seq \in 0 .. MaxSeq /\ putseq \in 0 .. MaxSeq /\ putseq < seq
    BY <1>1 DEF FileInv, FileOK, Marked
  <2> QED
    BY <2>1
<1>7. Logged(Now, R, Document, e, seq)
  <2> DEFINE d == Document
  <2>1. q0 \in 0 .. Len(d.text) /\ q1 \in q0 .. Len(d.text) /\ d \in Docs /\ Shows(Now, d)
    BY <1>3, <1>5
  <2> HIDE DEF d
  <2>2. TRUE \in BOOLEAN
    OBVIOUS
  <2>3. Logged(Now, [undelete(G, q0, q1) EXCEPT !.mod = TRUE, !.buf = delete(@, q0, q1),
                                                !.shown = Splice(@, q0, q1, << >>)],
               d, [text |-> Splice(d.text, q0, q1, << >>), name |-> d.name], seq)
    BY <2>1, <2>2, <1>6, DeleteLogged
  <2> QED
    BY <2>3 DEF d
<1>8. G = Now /\ Now.seq = seq
  BY DEF Now
<1>9. filedelete(Now, q0, q1) = R
  BY <1>6, <1>8 DEF filedelete
<1> HIDE DEF R, e
<1> QED
  BY <1>1, <1>7, <1>9, EditedFile

LEMMA CommitFile ==
    ASSUME FileInv, NEW n \in Names, commit(n)
    PROVE  FileInv' /\ Promise!Rename
<1> DEFINE k == count + 1
           yes == TRUE
           G == [Now EXCEPT !.seq = k, !.mod = yes]
           U == unsetname(G)
           B == [U EXCEPT !.name = n]
           R == [U EXCEPT !.mod = yes, !.name = n]
           doc == Document
           e == [text |-> doc.text, name |-> n]
<1>1. /\ count < MaxSeq /\ count' = k /\ Becomes(B) /\ delta' = U.log /\ epsilon' = << >>
      /\ dirty' = TRUE /\ busy' = FALSE /\ known' = known /\ putseq' = putseq
      /\ warned' = warned /\ saved' = saved /\ astray' = astray
  BY DEF commit, disk
<1>2. /\ count \in Nat /\ putseq \in Nat /\ putseq <= count /\ seq \in Nat /\ MaxSeq \in Nat
  <2>1. /\ count \in 0 .. MaxSeq /\ putseq \in 0 .. MaxSeq /\ seq \in 0 .. MaxSeq /\ putseq <= count
    BY DEF FileInv, FileOK
  <2> QED
    BY <2>1, FileAssumption
<1>3. k \in 1 .. MaxSeq /\ k \in 0 .. MaxSeq /\ k <= k /\ putseq <= k /\ putseq # k /\ k \in Nat
  BY <1>1, <1>2
<1>4. Known(delta, << >>, doc, k, putseq, saved, k, astray)
  BY <1>2, KnownMark DEF FileInv, Remembers
<1>5. Shows(Now, doc) /\ doc \in Docs /\ delta \in Seq(Entries)
  <2>1. << >> \in Seq(Entries)
    OBVIOUS
  <2> QED
    BY <2>1, NowShows DEF FileInv, Remembers, Known, Line
<1>0. yes \in BOOLEAN
  OBVIOUS
<1> HIDE DEF k, doc, yes
<1>6. G = [buf |-> buf, shown |-> shown, name |-> name, seq |-> k, mod |-> yes, log |-> delta]
  <2> DEFINE V == [buf |-> buf, shown |-> shown, name |-> name, seq |-> seq, mod |-> mod,
                   log |-> delta]
  <2>1. G = [V EXCEPT !.seq = k, !.mod = yes]
    BY DEF Now
  <2> HIDE DEF G
  <2> QED
    BY <2>1
<1>7. G.seq = k /\ G.log = delta /\ Shows(G, doc)
  <2>1. /\ Now \in Files /\ Holds(buf, doc.text) /\ shown = doc.text /\ name = doc.name
    BY <1>5 DEF Shows, Now
  <2>2. buf \in Buffers /\ shown \in Texts /\ name \in Names
    BY <2>1 DEF Files, Now
  <2>3. G \in Files
    BY <2>2, <1>0, <1>3, <1>5, <1>6 DEF Files
  <2>4. G.seq = k /\ G.log = delta /\ G.buf = buf /\ G.shown = shown /\ G.name = name
    BY <1>6
  <2> HIDE DEF G
  <2> QED
    BY <2>1, <2>3, <2>4 DEF Shows
<1>8. U.log = R.log /\ R = B
  <2> DEFINE l == Append(delta, Entry(G, "Filename", 0, 0, G.name))
  <2>1. U = [G EXCEPT !.log = l]
    BY <1>7 DEF unsetname
  <2> HIDE DEF G, l, U
  <2>2. U = [buf |-> buf, shown |-> shown, name |-> name, seq |-> k, mod |-> yes, log |-> l]
    BY <2>1, <1>6
  <2> DEFINE V == [buf |-> buf, shown |-> shown, name |-> name, seq |-> k, mod |-> yes, log |-> l]
  <2>3. R = [V EXCEPT !.mod = yes, !.name = n] /\ B = [V EXCEPT !.name = n]
    BY <2>2
  <2> HIDE DEF R, B
  <2>4. R = [buf |-> buf, shown |-> shown, name |-> n, seq |-> k, mod |-> yes, log |-> l]
    BY <2>3
  <2>5. B = [buf |-> buf, shown |-> shown, name |-> n, seq |-> k, mod |-> yes, log |-> l]
    BY <2>3
  <2>6. R.log = l /\ R = B
    BY <2>4, <2>5
  <2> HIDE DEF V
  <2> QED
    BY <2>2, <2>6
<1>9. Logged(G, R, doc, e, k)
  <2> HIDE DEF G
  <2> QED
    BY <1>0, <1>3, <1>5, <1>7, NameLogged
<1> HIDE DEF G, U, B, R, e
<1>10. PICK v : Leads(v, e, doc, k) /\ R.log = Append(delta, v)
  BY <1>7, <1>9 DEF Logged
<1>11. Shows(R, e) /\ R.seq = k /\ e \in Docs
  BY <1>9, <1>10 DEF Logged, Leads
<1>12. /\ shown' \in Texts /\ name' \in Names /\ Holds(buf', shown') /\ mod' \in BOOLEAN
       /\ Document' = e /\ seq' = k
  BY <1>1, <1>8, <1>11, BecomesFacts
<1>13. /\ Known(Append(delta, v), << >>, e, k, putseq, saved, k, astray)
       /\ Edits(delta, doc, e, k, Append(delta, v))
  BY <1>3, <1>4, <1>10, KnownEdit
<1>14. Remembers'
  BY <1>1, <1>8, <1>10, <1>12, <1>13 DEF Remembers
<1>15. FileOK'
  BY <1>1, <1>3, <1>12 DEF FileInv, FileOK
<1>16. FileInv'
  BY <1>1, <1>14, <1>15 DEF FileInv, Marked, Clean, Document
<1>17. Promise!Rename
  <2>1. delta = << >> \/ Last(delta).seq # k
    <3>1. delta = << >> \/ (Last(delta).seq \in Nat /\ Last(delta).seq <= seq)
      BY <1>2, KnownLast DEF FileInv, Remembers
    <3>2. seq <= count
      BY DEF FileInv, FileOK
    <3> QED
      BY <3>1, <3>2, <1>2 DEF k
  <2>2. k # 0
    BY <1>3
  <2>3. delta' = Append(delta, v)
    BY <1>1, <1>8, <1>10
  <2>4. /\ delta' # << >> /\ Last(delta').seq = k
        /\ Documents(delta', Document') = Append(Documents(delta, doc), doc)
    BY <2>1, <2>3, <1>12, <1>13 DEF Edits
  <2>5. Blank' = FALSE
    BY <2>4, <1>12 DEF Blank
  <2>6. Reverse(Documents(epsilon', Document')) = << >>
    BY <1>1, DocumentsNone, ReverseNone
  <2>7. Documents(delta', Document') = Append(Documents(delta, Document), Document)
    BY <2>4 DEF doc
  <2> QED
    BY <2>5, <2>6, <2>7, <1>1 DEF Promise!Rename
<1> QED
  BY <1>16, <1>17

\* Undo and Redo end at a document that the files are known to hold, if the window is
\* not dirty then.
LEMMA UndoneFile ==
    ASSUME FileInv, Undone, FileOK', Remembers'
    PROVE  FileInv'
<1>1. /\ dirty' = (seq' # putseq) /\ busy' = FALSE /\ warned' = FALSE /\ putseq' = putseq
  BY DEF Undone
<1>2. ASSUME ~dirty' PROVE Sure(astray', saved', Document')
  <2>1. seq' = putseq'
    BY <1>1, <1>2
  <2>2. Known(delta', epsilon', Document', seq', seq', saved', count', astray')
    BY <2>1 DEF Remembers
  <2> QED
    BY <2>2, KnownTold
<1>3. Clean'
  BY <1>2 DEF Clean
<1> QED
  BY <1>1, <1>3 DEF FileInv, Marked

LEMMA UndoFile == FileInv /\ Undo => FileInv' /\ Promise!Undo
<1> SUFFICES ASSUME FileInv, Undo PROVE FileInv' /\ Promise!Undo
  OBVIOUS
<1> DEFINE n == Kept({i \in 1 .. Len(delta) : delta[i].seq < seq})
           F0 == [Now EXCEPT !.log = epsilon]
           F == Reversed(F0, delta, n)
           k == undoneSeq(n)
           R == [F EXCEPT !.seq = k]
<1>1. /\ Becomes(R) /\ delta' = SubSeq(delta, 1, n) /\ epsilon' = F.log /\ Undone
  BY DEF Undo
<1>2. /\ dirty' = (seq' # putseq) /\ busy' = FALSE /\ warned' = FALSE
      /\ known' = known /\ putseq' = putseq /\ count' = count /\ saved' = saved /\ astray' = astray
  BY <1>1 DEF Undone, disk
<1>3. Remembers /\ epsilon \in Seq(Entries)
  BY DEF FileInv, Remembers, Known, Line
<1>4. Shows(F0, Document) /\ F0.log = epsilon /\ Document \in Docs
  BY <1>3, NowShows DEF Now
<1>5. seq \in Nat /\ count \in Nat /\ seq <= count /\ MaxSeq \in Nat
  <2>1. seq \in 0 .. MaxSeq /\ count \in 0 .. MaxSeq /\ seq <= count
    BY DEF FileInv, FileOK
  <2> QED
    BY <2>1, FileAssumption
<1>6. k = IF n = 0 THEN 0 ELSE delta[n].seq
  BY DEF undoneSeq
<1> HIDE DEF F0, k
<1>7. PICK to : /\ Shows(F, to) /\ k \in 0 .. MaxSeq /\ k <= seq
                /\ Known(SubSeq(delta, 1, n), F.log, to, k, putseq, saved, count, astray)
                /\ Undoes(delta, epsilon, Document, seq, n, SubSeq(delta, 1, n), F.log, to)
  <2>1. Known(delta, epsilon, Document, seq, putseq, saved, count, astray)
    BY <1>3 DEF Remembers
  <2>2. n = Kept(Earlier(delta, seq))
    BY DEF Earlier
  <2> HIDE DEF n
  <2> QED
    BY <2>1, <2>2, <1>4, <1>5, <1>6, KnownUndo
<1> HIDE DEF F, n
<1>8. to \in Docs
  BY <1>7 DEF Known, Line
<1>9. Shows(R, to) /\ R.seq = k
  <2>1. F \in Files
    BY <1>7 DEF Shows
  <2>2. R \in Files /\ R.buf = F.buf /\ R.shown = F.shown /\ R.name = F.name /\ R.seq = k
    BY <2>1, <1>7 DEF Files
  <2> HIDE DEF R
  <2> QED
    BY <2>2, <1>7 DEF Shows
<1> HIDE DEF R
<1>10. /\ shown' \in Texts /\ name' \in Names /\ Holds(buf', shown') /\ mod' \in BOOLEAN
       /\ Document' = to /\ seq' = k
  BY <1>1, <1>8, <1>9, BecomesFacts
<1>11. Remembers'
  BY <1>1, <1>2, <1>7, <1>10 DEF Remembers
<1>12. FileOK'
  <2>1. k <= count /\ k \in 0 .. MaxSeq
    BY <1>5, <1>7
  <2>2. dirty' \in BOOLEAN /\ busy' \in BOOLEAN /\ warned' \in BOOLEAN
    BY <1>2
  <2> QED
    BY <2>1, <2>2, <1>2, <1>10 DEF FileInv, FileOK
<1>13. FileInv'
  BY <1>1, <1>11, <1>12, UndoneFile
<1>14. /\ n # 0 => delta' # << >> /\ Last(delta').seq = delta[n].seq
       /\ n = Len(delta) => /\ to = Document /\ delta' = delta /\ epsilon' = epsilon
                            /\ delta = << >> \/ (seq # 0 /\ Last(delta).seq # seq)
       /\ n # Len(delta) => /\ Moved(delta, Document, delta', epsilon, epsilon', to)
                            /\ delta # << >> /\ Last(delta).seq = seq
  BY <1>1, <1>7 DEF Undoes
<1>15. Blank' = FALSE
  BY <1>6, <1>10, <1>14 DEF Blank
<1>16. CASE n = Len(delta)
  <2>1. Document' = Document /\ delta' = delta /\ epsilon' = epsilon
    BY <1>10, <1>14, <1>16
  <2>2. Blank \/ Documents(delta, Document) = << >>
    BY <1>14, <1>16, DocumentsNone DEF Blank
  <2> QED
    BY <2>1, <2>2, <1>2, <1>13, <1>15 DEF Promise!Undo
<1>17. CASE n # Len(delta)
  <2> DEFINE past == Documents(delta, Document)
             before == Documents(delta', Document')
             future == Documents(epsilon, Document)
             after == Documents(epsilon', Document')
  <2>1. ~Blank
    BY <1>14, <1>17 DEF Blank
  <2>2. /\ before \in Seq(Docs) /\ past = Append(before, to)
        /\ future \in Seq(Docs) /\ after = Append(future, Document)
    BY <1>10, <1>14, <1>17 DEF Moved, Adds
  <2>3. Document \in Docs /\ Document' = to
    BY <1>4, <1>10
  <2> HIDE DEF past, before, future, after
  <2>4. past # << >> /\ Promise!Last(past) = to /\ Promise!Front(past) = before
    BY <2>2, <1>8, AppendEnds
  <2>5. Reverse(after) = <<Document>> \o Reverse(future)
    BY <2>2, <2>3, ReverseAppend
  <2> QED
    BY <2>1, <2>3, <2>4, <2>5, <1>2, <1>13, <1>15
    DEF Promise!Undo, past, before, future, after
<1> QED
  BY <1>13, <1>16, <1>17

LEMMA RedoFile == FileInv /\ Redo => FileInv' /\ Promise!Redo
<1> SUFFICES ASSUME FileInv, Redo PROVE FileInv' /\ Promise!Redo
  OBVIOUS
<1> DEFINE n == Kept({i \in 1 .. Len(epsilon) : redoStops(epsilon[i])})
           F == Reversed(Now, epsilon, n)
<1>1. /\ Becomes(F) /\ delta' = F.log /\ epsilon' = SubSeq(epsilon, 1, n) /\ Undone
  BY DEF Redo
<1>2. /\ dirty' = (seq' # putseq) /\ busy' = FALSE /\ warned' = FALSE
      /\ known' = known /\ putseq' = putseq /\ count' = count /\ saved' = saved /\ astray' = astray
  BY <1>1 DEF Undone, disk
<1>3. Remembers /\ epsilon \in Seq(Entries)
  BY DEF FileInv, Remembers, Known, Line
<1>4. Shows(Now, Document) /\ Now.log = delta /\ Now.seq = seq /\ Document \in Docs
  BY <1>3, NowShows DEF Now
<1>5. seq \in Nat /\ count \in Nat /\ seq <= count /\ MaxSeq \in Nat
  <2>1. seq \in 0 .. MaxSeq /\ count \in 0 .. MaxSeq /\ seq <= count
    BY DEF FileInv, FileOK
  <2> QED
    BY <2>1, FileAssumption
<1>7. PICK to : /\ Shows(F, to) /\ F.seq <= count
                /\ Known(F.log, SubSeq(epsilon, 1, n), to, F.seq, putseq, saved, count, astray)
                /\ Redoes(delta, epsilon, Document, seq, n, SubSeq(epsilon, 1, n), F.log, to,
                          F.seq)
  <2>1. Known(delta, epsilon, Document, seq, putseq, saved, count, astray)
    BY <1>3 DEF Remembers
  <2>2. n = Kept({i \in 1 .. Len(epsilon) : redoStops(epsilon[i])})
    OBVIOUS
  <2> HIDE DEF n
  <2> QED
    BY <2>1, <2>2, <1>4, <1>5, KnownRedo
<1> HIDE DEF F, n
<1>8. to \in Docs
  BY <1>7 DEF Known, Line
<1>9. /\ shown' \in Texts /\ name' \in Names /\ Holds(buf', shown') /\ mod' \in BOOLEAN
      /\ Document' = to /\ seq' = F.seq
  BY <1>1, <1>7, <1>8, BecomesFacts
<1>10. F.seq \in 0 .. MaxSeq
  BY <1>7 DEF Shows, Files
<1>11. Remembers'
  BY <1>1, <1>2, <1>7, <1>9 DEF Remembers
<1>12. FileOK'
  <2>1. dirty' \in BOOLEAN /\ busy' \in BOOLEAN /\ warned' \in BOOLEAN
    BY <1>2
  <2> QED
    BY <2>1, <1>2, <1>7, <1>9, <1>10 DEF FileInv, FileOK
<1>13. FileInv'
  BY <1>1, <1>11, <1>12, UndoneFile
<1>14. /\ n = Len(epsilon) => /\ to = Document /\ delta' = delta /\ epsilon' = epsilon
                              /\ epsilon = << >> /\ seq' = seq
       /\ n # Len(epsilon) => /\ Moved(epsilon, Document, epsilon', delta, delta', to)
                              /\ delta' # << >> /\ Last(delta').seq = seq'
  BY <1>1, <1>7, <1>9 DEF Redoes
<1>15. CASE n = Len(epsilon)
  <2>1. Document' = Document /\ delta' = delta /\ epsilon' = epsilon /\ seq' = seq
    BY <1>9, <1>14, <1>15
  <2>2. Reverse(Documents(epsilon, Document)) = << >>
    BY <1>14, <1>15, DocumentsNone, ReverseNone
  <2>3. Blank' = Blank
    BY <2>1 DEF Blank
  <2> QED
    BY <2>1, <2>2, <2>3, <1>2, <1>13 DEF Promise!Redo
<1>16. CASE n # Len(epsilon)
  <2> DEFINE past == Documents(delta, Document)
             behind == Documents(delta', Document')
             future == Documents(epsilon, Document)
             after == Documents(epsilon', Document')
  <2>1. Blank' = FALSE
    BY <1>14, <1>16 DEF Blank
  <2>2. /\ after \in Seq(Docs) /\ future = Append(after, to)
        /\ past \in Seq(Docs) /\ behind = Append(past, Document)
    BY <1>9, <1>14, <1>16 DEF Moved, Adds
  <2> HIDE DEF past, behind, future, after
  <2>3. /\ Reverse(future) # << >>
        /\ Head(Reverse(future)) = to /\ Tail(Reverse(future)) = Reverse(after)
    BY <2>2, <1>8, ReverseAppend
  <2> QED
    BY <2>1, <2>2, <2>3, <1>2, <1>9, <1>13 DEF Promise!Redo, past, behind, future, after
<1> QED
  BY <1>13, <1>15, <1>16

LEMMA ReadFile ==
    ASSUME FileInv, NEW q0 \in 0 .. MaxText, readc(q0)
    PROVE  FileInv'
<1> DEFINE q1 == q0 + 1
<1>1. /\ q0 < buf.nc /\ buf' = read(buf, q0, q1)[1]
      /\ name' = name /\ seq' = seq /\ mod' = mod /\ delta' = delta /\ epsilon' = epsilon
      /\ known' = known /\ shown' = shown /\ dirty' = dirty /\ putseq' = putseq /\ count' = count
      /\ busy' = busy /\ warned' = warned /\ saved' = saved /\ astray' = astray
  BY DEF readc, logs, window, disk
<1>2. Holds(buf, shown) /\ shown \in Seq(Runes)
  BY DEF FileInv, FileOK, Texts
<1>3. q0 \in 0 .. Len(shown) /\ q1 \in q0 .. Len(shown)
  <2>1. buf.nc = Len(shown)
    BY <1>2, HeldContents
  <2>2. Len(shown) \in Nat
    BY <1>2
  <2> QED
    BY <2>1, <2>2, <1>1
<1> HIDE DEF q1
<1>4. Holds(buf', shown)
  BY <1>1, <1>2, <1>3, ReadHolds
<1>5. FileOK'
  BY <1>1, <1>4 DEF FileInv, FileOK
<1>6. Remembers'
  BY <1>1 DEF FileInv, Remembers, Document
<1> QED
  BY <1>1, <1>5, <1>6 DEF FileInv, Marked, Clean, Document

LEMMA RefuseFile == FileInv /\ putRefused => FileInv'
<1> SUFFICES ASSUME FileInv, putRefused PROVE FileInv'
  OBVIOUS
<1>1. /\ known' = name /\ busy' = FALSE
      /\ buf' = buf /\ name' = name /\ seq' = seq /\ mod' = mod /\ delta' = delta
      /\ epsilon' = epsilon /\ shown' = shown /\ dirty' = dirty /\ putseq' = putseq
      /\ count' = count /\ warned' = warned /\ saved' = saved /\ astray' = astray
  BY DEF putRefused, logs, window, disk
<1>2. FileOK'
  BY <1>1 DEF FileInv, FileOK
<1>3. Remembers'
  BY <1>1 DEF FileInv, Remembers, Document
<1> QED
  BY <1>1, <1>2, <1>3 DEF FileInv, Marked, Clean, Document

\* Reading the whole of the Buffer.
LEMMA AllRead ==
    ASSUME FileInv
    PROVE  Holds(read(buf, 0, buf.nc)[1], shown) /\ read(buf, 0, buf.nc)[2] = shown
<1> DEFINE t == shown
           z == 0
<1>1. Holds(buf, t) /\ t \in Seq(Runes) /\ Len(t) \in Nat
  BY DEF FileInv, FileOK, Texts
<1>2. buf.nc = Len(t)
  BY <1>1, HeldContents
<1>3. z \in 0 .. Len(t) /\ buf.nc \in z .. Len(t) /\ z + 1 = 1 /\ Len(t) \in 0 .. Len(t)
  BY <1>1, <1>2
<1> HIDE DEF t, z
<1>4. Holds(read(buf, z, buf.nc)[1], t) /\ read(buf, z, buf.nc)[2] = SubSeq(t, z + 1, buf.nc)
  BY <1>1, <1>3, ReadHolds
<1>5. SubSeq(t, 1, Len(t)) = t
  <2> DEFINE w == SubSeq(t, 1, Len(t))
  <2>1. w \in Seq(Runes) /\ Len(w) = Len(t) /\ \A x \in 1 .. Len(t) : w[x] = t[x]
    BY <1>1, <1>3, FirstFacts
  <2> HIDE DEF w
  <2>2. w = t
    BY <1>1, <2>1, SameQueue
  <2> QED
    BY <2>2 DEF w
<1>6. Holds(read(buf, z, buf.nc)[1], t) /\ read(buf, z, buf.nc)[2] = t
  BY <1>2, <1>3, <1>4, <1>5
<1> QED
  BY <1>6 DEF t, z

LEMMA PutFile == FileInv /\ putWrites => FileInv'
<1> SUFFICES ASSUME FileInv, putWrites PROVE FileInv'
  OBVIOUS
<1> DEFINE got == read(buf, 0, buf.nc)
<1>1. /\ buf' = got[1] /\ saved' = [saved EXCEPT ![name] = got[2]]
      /\ known' = name /\ mod' = FALSE /\ dirty' = FALSE /\ putseq' = seq
      /\ busy' = FALSE /\ warned' = FALSE /\ astray' = {}
      /\ name' = name /\ seq' = seq /\ delta' = delta /\ epsilon' = epsilon /\ shown' = shown
      /\ count' = count
  BY DEF putWrites, logs
<1>2. /\ Holds(buf, shown) /\ shown \in Texts /\ shown \in Seq(Runes) /\ name \in Names
      /\ saved \in [Names -> {None} \cup Texts]
  BY DEF FileInv, FileOK, Texts
<1>3. Holds(buf', shown) /\ got[2] = shown
  BY <1>1, AllRead
<1> HIDE DEF got
<1>4. saved' \in [Names -> {None} \cup Texts] /\ saved'[name] = shown
  BY <1>1, <1>2, <1>3
<1>5. shown # None
  BY <1>2, FileAssumption
<1>6. Told(saved', Document)
  BY <1>4, <1>5 DEF Told, Document
<1>7. seq \in Nat /\ seq \in 0 .. MaxSeq /\ seq <= count
  BY DEF FileInv, FileOK
<1>8. Known(delta, epsilon, Document, seq, seq, saved', count, {})
  BY <1>6, <1>7, KnownPut DEF FileInv, Remembers
<1>9. Remembers'
  BY <1>1, <1>8 DEF Remembers, Document
<1>10. FileOK'
  <2>1. /\ mod' \in BOOLEAN /\ dirty' \in BOOLEAN /\ busy' \in BOOLEAN /\ warned' \in BOOLEAN
        /\ astray' \subseteq Names /\ known' \in Names \cup {None}
    BY <1>1, <1>2
  <2> QED
    BY <2>1, <1>1, <1>2, <1>3, <1>4, <1>7 DEF FileInv, FileOK
<1>11. Clean'
  <2>1. Document' = Document
    BY <1>1 DEF Document
  <2> QED
    BY <2>1, <1>6 DEF Clean, Sure
<1> QED
  BY <1>1, <1>9, <1>10, <1>11 DEF FileInv, Marked

\* A Put that fails, and one to another file: all that is left of it is in a file whose
\* name is astray.
LEMMA AstrayFile ==
    ASSUME FileInv, NEW n \in Names, NEW text \in Texts,
           saved' = [saved EXCEPT ![n] = text], astray' = astray \cup {n},
           Touched(n), busy' = FALSE, Holds(buf', shown),
           UNCHANGED <<name, seq, mod, logs, window, count, warned>>
    PROVE  FileInv'
<1>1. /\ name' = name /\ seq' = seq /\ mod' = mod /\ delta' = delta
      /\ epsilon' = epsilon /\ shown' = shown /\ dirty' = dirty /\ putseq' = putseq
      /\ count' = count /\ warned' = warned
  BY DEF logs, window
<1>2. known' \in {known, None}
  BY DEF Touched
<1>3. /\ saved' \in [Names -> {None} \cup Texts] /\ astray' \subseteq Names
      /\ \A m \in Names : m # n => saved'[m] = saved[m]
  BY DEF FileInv, FileOK
<1>4. FileOK'
  BY <1>1, <1>2, <1>3 DEF FileInv, FileOK
<1>5. Document' = Document /\ Document.name = name /\ name \in Names
  BY <1>1 DEF FileInv, FileOK, Document
<1>6. Known(delta, epsilon, Document, seq, putseq, saved', count, astray \cup {n})
  BY <1>3, KnownAstray DEF FileInv, Remembers
<1>7. Remembers'
  BY <1>1, <1>5, <1>6 DEF Remembers
<1>8. Clean'
  <2>1. ASSUME ~dirty, ~warned PROVE Sure(astray \cup {n}, saved', Document)
    <3>1. Sure(astray, saved, Document)
      BY <2>1 DEF FileInv, Clean
    <3>2. CASE name = n
      BY <3>2, <1>5 DEF Sure
    <3>3. CASE name # n
      BY <3>1, <3>3, <1>3, <1>5 DEF Sure, Told
    <3> QED
      BY <3>2, <3>3
  <2> QED
    BY <2>1, <1>1, <1>5 DEF Clean
<1> QED
  BY <1>4, <1>7, <1>8 DEF FileInv, Marked

LEMMA NoneTexts == << >> \in Texts
<1> DEFINE none == << >>
<1>1. none \in Seq(Runes) /\ Len(none) <= MaxText
  BY FileAssumption
<1> HIDE DEF none
<1>2. none \in Texts
  BY <1>1 DEF Texts
<1> QED
  BY <1>2 DEF none

LEMMA FailFile == FileInv /\ putFails => FileInv'
<1> SUFFICES ASSUME FileInv, putFails PROVE FileInv'
  OBVIOUS
<1> DEFINE none == << >>
<1>1. /\ saved' = [saved EXCEPT ![name] = none] /\ Touched(name)
      /\ astray' = astray \cup {name} /\ busy' = FALSE /\ buf' = buf
      /\ UNCHANGED <<name, seq, mod, logs, window, count, warned>>
  BY DEF putFails
<1>2. none \in Texts /\ name \in Names /\ Holds(buf, shown)
  BY NoneTexts DEF FileInv, FileOK
<1> HIDE DEF none
<1> QED
  BY <1>1, <1>2, AstrayFile

LEMMA OtherFile == ASSUME FileInv, NEW n \in Names, putOther(n) PROVE FileInv'
<1> DEFINE got == read(buf, 0, buf.nc)
           none == << >>
<1>1. PICK text \in {got[2], none} : saved' = [saved EXCEPT ![n] = text]
  BY DEF putOther
<1>2. /\ buf' = got[1] /\ Touched(n)
      /\ astray' = astray \cup {n} /\ busy' = FALSE
      /\ UNCHANGED <<name, seq, mod, logs, window, count, warned>>
  BY DEF putOther
<1>3. Holds(got[1], shown) /\ got[2] = shown
  BY AllRead
<1>4. none \in Texts /\ shown \in Texts
  BY NoneTexts DEF FileInv, FileOK
<1> HIDE DEF got, none
<1>5. text \in Texts /\ Holds(buf', shown)
  BY <1>1, <1>2, <1>3, <1>4
<1> QED
  BY <1>1, <1>2, <1>5, AstrayFile

LEMMA CleanFile == FileInv /\ clean => FileInv'
<1> SUFFICES ASSUME FileInv, clean PROVE FileInv'
  OBVIOUS
<1>1. /\ dirty' = FALSE /\ warned' = TRUE /\ busy' = FALSE
      /\ buf' = buf /\ name' = name /\ seq' = seq /\ mod' = mod /\ delta' = delta
      /\ epsilon' = epsilon /\ known' = known /\ shown' = shown /\ putseq' = putseq
      /\ count' = count /\ saved' = saved /\ astray' = astray
  BY DEF clean, file, disk
<1>2. FileOK'
  BY <1>1 DEF FileInv, FileOK
<1>3. Remembers'
  BY <1>1 DEF FileInv, Remembers, Document
<1> QED
  BY <1>1, <1>2, <1>3 DEF FileInv, Marked, Clean, Document

\* What can be read of a file is a text.
LEMMA PartlyTexts ==
    ASSUME FileInv, NEW n \in Names
    PROVE  Read(n) \in Texts /\ Partly(n) \subseteq Texts
<1> DEFINE none == << >>
           t == Read(n)
<1>1. none \in Texts /\ saved \in [Names -> {None} \cup Texts]
  BY NoneTexts DEF FileInv, FileOK
<1>2. t = IF saved[n] = None THEN none ELSE saved[n]
  BY DEF Read
<1> HIDE DEF none, t
<1>3. t \in Texts
  BY <1>1, <1>2
<1>4. ASSUME NEW k \in 0 .. Len(t) PROVE SubSeq(t, 1, k) \in Texts
  <2>1. t \in Seq(Runes) /\ Len(t) <= MaxText /\ Len(t) \in Nat /\ MaxText \in Nat
    BY <1>3, FileAssumption DEF Texts
  <2> DEFINE w == SubSeq(t, 1, k)
  <2>2. w \in Seq(Runes) /\ Len(w) = k
    BY <2>1, FirstFacts
  <2> HIDE DEF w
  <2>3. w \in Texts
    BY <2>1, <2>2 DEF Texts
  <2> QED
    BY <2>3 DEF w
<1> QED
  BY <1>3, <1>4 DEF Partly, t

\* A file has been read, or what there is of it.
LEMMA ReloadFile ==
    ASSUME FileInv, NEW text \in Texts, NEW other \in BOOLEAN, Reload(text, other),
           known' \in Names \cup {None}, astray' \subseteq Names,
           Sure(astray', saved, [text |-> text, name |-> name])
    PROVE  FileInv'
<1>1. /\ buf' = insert(reset(buf), 0, text) /\ shown' = text
      /\ seq' = 0 /\ delta' = << >> /\ epsilon' = << >>
      /\ mod' = other /\ dirty' = other /\ busy' = FALSE /\ warned' = FALSE
      /\ name' = name /\ putseq' = putseq /\ count' = count /\ saved' = saved
  BY DEF Reload
<1>2. /\ Holds(buf, shown) /\ name \in Names /\ saved \in [Names -> {None} \cup Texts]
      /\ count \in 0 .. MaxSeq
  BY DEF FileInv, FileOK
<1>3. text \in Seq(Runes)
  BY DEF Texts
<1>5. Holds(insert(reset(buf), 0, text), text)
  <2>1. Holds(reset(buf), << >>)
    BY <1>2, ResetHolds
  <2> QED
    BY <2>1, <1>3, FillHolds
<1>6. Document' = [text |-> text, name |-> name] /\ Document' \in Docs
  BY <1>1, <1>2 DEF Document, Docs
<1>7. Remembers'
  <2> DEFINE doc == [text |-> text, name |-> name]
  <2>1. count \in Nat
    BY <1>2
  <2>2. doc \in Docs /\ Sure(astray', saved, doc)
    BY <1>6
  <2> HIDE DEF doc
  <2>3. Known(<< >>, << >>, doc, 0, putseq, saved, count, astray')
    BY <2>1, <2>2, KnownNew
  <2> QED
    BY <2>3, <1>1, <1>6 DEF Remembers, doc
<1>8. FileOK'
  <2>1. mod' \in BOOLEAN /\ dirty' \in BOOLEAN /\ busy' \in BOOLEAN /\ warned' \in BOOLEAN
    BY <1>1
  <2>2. seq' \in 0 .. MaxSeq /\ seq' <= count'
    BY <1>1, <1>2, FileAssumption
  <2>3. Holds(buf', shown') /\ shown' \in Texts /\ name' \in Names
    BY <1>1, <1>2, <1>5
  <2> QED
    BY <2>1, <2>2, <2>3, <1>1 DEF FileInv, FileOK
<1>9. Clean'
  BY <1>1, <1>6 DEF Clean
<1> QED
  BY <1>1, <1>7, <1>8, <1>9 DEF FileInv, Marked

LEMMA GetFile ==
    ASSUME FileInv, Get \/ getFails \/ (\E n \in Names : getOther(n))
    PROVE  FileInv'
<1> DEFINE none == << >>
<1>0. /\ name \in Names /\ known \in Names \cup {None} /\ none \in Texts
      /\ astray \subseteq Names
  BY NoneTexts DEF FileInv, FileOK
<1> HIDE DEF none
<1>1. CASE Get
  <2> DEFINE text == Read(name)
  <2>1. /\ Reload(text, FALSE) /\ known' \in {known, name} /\ astray' = {}
    BY <1>1 DEF Get
  <2>2. text \in Texts
    BY <1>0, PartlyTexts
  <2>3. Sure({}, saved, [text |-> text, name |-> name])
    BY DEF Sure, Told, Read
  <2> HIDE DEF text
  <2> QED
    BY <2>1, <2>2, <2>3, <1>0, ReloadFile
<1>2. ASSUME NEW n \in Names, NEW text \in Partly(n) \cup {none}, NEW other \in BOOLEAN,
             Reload(text, other), known' \in {known, name}, astray' = astray \cup {name}
      PROVE  FileInv'
  <2>1. text \in Texts
    BY <1>0, PartlyTexts
  <2>2. Sure(astray', saved, [text |-> text, name |-> name])
    BY <1>2 DEF Sure
  <2> QED
    BY <2>1, <2>2, <1>0, <1>2, ReloadFile
<1>3. CASE getFails
  <2>1. /\ known' \in {known, name} /\ astray' = astray \cup {name}
        /\ \E text \in Partly(name) \cup {none} : Reload(text, FALSE)
    BY <1>3 DEF getFails, none
  <2> QED
    BY <2>1, <1>0, <1>2
<1>4. CASE \E n \in Names : getOther(n)
  <2>1. PICK n \in Names : getOther(n)
    BY <1>4
  <2>2. /\ known' \in {known, name} /\ astray' = astray \cup {name}
        /\ \E text \in Partly(n) \cup {none} : Reload(text, TRUE)
    BY <2>1 DEF getOther
  <2> QED
    BY <2>2, <1>2
<1> QED
  BY <1>1, <1>3, <1>4

\* What is typed is not in the File until it is committed.
LEMMA TypedFile ==
    ASSUME FileInv, UNCHANGED <<file, window, count, busy, warned, disk>>
    PROVE  FileInv'
<1>1. /\ buf' = buf /\ name' = name /\ seq' = seq /\ mod' = mod /\ delta' = delta
      /\ epsilon' = epsilon /\ known' = known /\ shown' = shown /\ dirty' = dirty
      /\ putseq' = putseq /\ count' = count /\ busy' = busy /\ warned' = warned
      /\ saved' = saved /\ astray' = astray
  BY DEF file, window, disk
<1>2. FileOK'
  BY <1>1 DEF FileInv, FileOK
<1>3. Remembers'
  BY <1>1 DEF FileInv, Remembers, Document
<1> QED
  BY <1>1, <1>2, <1>3 DEF FileInv, Marked, Clean, Document

LEMMA StepFile == FileInv /\ Typing /\ [Next]_vars => FileInv'
<1> SUFFICES ASSUME FileInv, Typing, [Next]_vars PROVE FileInv'
  OBVIOUS
<1>1. CASE Execute
  BY <1>1, ExecuteFile
<1>2. ASSUME NEW q0 \in 0 .. MaxText, NEW s \in Strings, Insert(q0, s) PROVE FileInv'
  BY <1>2, InsertFile
<1>3. ASSUME NEW q0 \in 0 .. MaxText, NEW q1 \in 0 .. MaxText, Delete(q0, q1) PROVE FileInv'
  BY <1>3, DeleteFile
<1>4. ASSUME NEW q0 \in 0 .. MaxText, readc(q0) PROVE FileInv'
  BY <1>4, ReadFile
<1>5. ASSUME NEW q0 \in 0 .. MaxText, NEW s \in Strings, typex(q0, s) PROVE FileInv'
  BY <1>5, TypedFile DEF typex
<1>6. ASSUME NEW n, erase(n) PROVE FileInv'
  BY <1>6, TypedFile DEF erase
<1>7. CASE Textcommit
  BY <1>7, TextcommitFile
<1>8. ASSUME NEW n \in Names, commit(n) PROVE FileInv'
  BY <1>8, CommitFile
<1>9. ASSUME NEW n \in Names, putOther(n) PROVE FileInv'
  BY <1>9, OtherFile
<1>10. CASE Get \/ getFails \/ \E n \in Names : getOther(n)
  BY <1>10, GetFile
<1>11. CASE Undo \/ Redo
  BY <1>11, UndoFile, RedoFile
<1>12. CASE putRefused \/ putWrites \/ putFails \/ clean
  BY <1>12, RefuseFile, PutFile, FailFile, CleanFile
<1>13. CASE UNCHANGED vars
  BY <1>13, TypedFile DEF vars
<1> QED
  BY <1>1, <1>2, <1>3, <1>4, <1>5, <1>6, <1>7, <1>8, <1>9, <1>10, <1>11, <1>12, <1>13 DEF Next

\* Runes are typed where there is room for them, and nothing else changes the text
\* while there are any.
LEMMA StepTyping == FileInv /\ Typing /\ [Next]_vars => Typing'
<1> SUFFICES ASSUME FileInv, Typing, [Next]_vars PROVE Typing'
  OBVIOUS
<1>1. /\ shown \in Seq(Runes) /\ cache \in Seq(Runes) /\ cq0 \in 0 .. MaxText /\ MaxText \in Nat
      /\ cache # << >> => cq0 <= Len(shown) /\ Len(shown) + Len(cache) <= MaxText
  BY FileAssumption DEF FileInv, FileOK, Texts, Typing
<1>2. Len(shown) \in Nat /\ Len(cache) \in Nat
  BY <1>1
<1>3. CASE cache' = << >> /\ cq0' \in {0, cq0}
  <2> DEFINE none == << >>
  <2>1. none \in Seq(Runes)
    OBVIOUS
  <2>2. cache' = none /\ ~(cache' # << >>) /\ cq0' \in 0 .. MaxText
    BY <1>1, <1>3
  <2> HIDE DEF none
  <2> QED
    BY <2>1, <2>2 DEF Typing
<1>4. CASE cache = << >> /\ UNCHANGED typing
  BY <1>3, <1>4 DEF typing
<1>5. CASE UNCHANGED <<shown, typing>>
  <2>1. shown' = shown /\ cache' = cache /\ cq0' = cq0
    BY <1>5 DEF typing
  <2> QED
    BY <2>1 DEF Typing
<1>6. ASSUME NEW q0 \in 0 .. MaxText, NEW s \in Strings, typex(q0, s) PROVE Typing'
  <2> DEFINE c == cache \o s
  <2>1. /\ shown' = shown /\ cache' = c
        /\ Len(shown) + Len(c) <= MaxText
        /\ \/ cache = << >> /\ q0 <= buf.nc /\ cq0' = q0
           \/ cache # << >> /\ cq0' = cq0
    BY <1>6 DEF typex, window
  <2>2. s \in Seq(Runes)
    BY FileAssumption
  <2>3. c \in Seq(Runes)
    BY <2>2, <1>1
  <2>4. buf.nc = Len(shown)
    BY <1>1, HeldContents DEF FileInv, FileOK
  <2> HIDE DEF c
  <2>5. cq0' <= Len(shown) /\ cq0' \in 0 .. MaxText
    BY <2>1, <2>4, <1>1
  <2> QED
    BY <2>1, <2>3, <2>5 DEF Typing
<1>7. ASSUME NEW n \in 1 .. MaxText, erase(n) PROVE Typing'
  <2> DEFINE m == Len(cache) - n
             c == SubSeq(cache, 1, m)
  <2>1. /\ shown' = shown /\ cache' = c /\ n <= Len(cache)
        /\ cq0' = IF n = Len(cache) THEN 0 ELSE cq0
    BY <1>7 DEF erase, window
  <2>2. m \in 0 .. Len(cache) /\ m + n = Len(cache)
    BY <2>1, <1>2
  <2> HIDE DEF m
  <2>3. c \in Seq(Runes) /\ Len(c) = m
    BY <2>2, <1>1, FirstFacts
  <2>4. m <= Len(cache) /\ cache # << >>
    BY <2>1, <2>2, <1>1, <1>2
  <2> HIDE DEF c
  <2>5. n = Len(cache) => ~(c # << >>)
    <3>1. n = Len(cache) => m = 0
      BY <2>2, <1>2
    <3> QED
      BY <3>1, <2>3
  <2>6. Len(shown) + m <= MaxText
    BY <2>2, <2>4, <1>1, <1>2
  <2>7. cq0' \in 0 .. MaxText
    BY <2>1, <1>1
  <2>8. cache' # << >> => cq0' <= Len(shown')
    BY <2>1, <2>4, <2>5, <1>1
  <2> QED
    BY <2>1, <2>3, <2>6, <2>7, <2>8 DEF Typing
<1>8. ASSUME NEW q0, NEW s, Insert(q0, s) PROVE Typing'
  BY <1>4, <1>8 DEF Insert
<1>9. ASSUME NEW q0, NEW q1, Delete(q0, q1) PROVE Typing'
  BY <1>4, <1>9 DEF Delete
<1>10. CASE Execute \/ clean \/ putRefused \/ putWrites \/ putFails
  BY <1>4, <1>5, <1>10 DEF Execute, clean, putRefused, putWrites, putFails, Writable, window
<1>11. CASE Textcommit
  BY <1>3, <1>11 DEF Textcommit
<1>12. ASSUME NEW n, commit(n) \/ putOther(n) \/ getOther(n) PROVE Typing'
  BY <1>4, <1>12 DEF commit, putOther, getOther, Reload
<1>13. CASE Undo \/ Redo
  BY <1>4, <1>13 DEF Undo, Redo, Undone
<1>14. CASE Get \/ getFails
  BY <1>4, <1>14 DEF Get, getFails, Reload
<1>15. ASSUME NEW q0, readc(q0) PROVE Typing'
  BY <1>5, <1>15 DEF readc, window
<1>16. CASE UNCHANGED vars
  BY <1>5, <1>16 DEF vars, window
<1> QED
  BY <1>6, <1>7, <1>8, <1>9, <1>10, <1>11, <1>12, <1>13, <1>14, <1>15, <1>16 DEF Next

LEMMA GetHistory ==
    ASSUME Get \/ getFails \/ \E n \in Names : getOther(n)
    PROVE  Promise!Reload
<1>1. seq' = 0 /\ delta' = << >> /\ epsilon' = << >> /\ busy' = FALSE
  BY DEF Get, getFails, getOther, Reload
<1>2. Documents(delta', Document') = << >> /\ Reverse(Documents(epsilon', Document')) = << >>
  BY <1>1, DocumentsNone, ReverseNone
<1>3. Blank' = FALSE
  BY <1>1 DEF Blank
<1> QED
  BY <1>1, <1>2, <1>3 DEF Promise!Reload

\* What leaves the text, the name and the logs alone leaves the history alone.
LEMMA SameHistory ==
    ASSUME UNCHANGED <<shown, name, seq, delta, epsilon>>
    PROVE  /\ Document' = Document /\ Documents(delta', Document') = Documents(delta, Document)
           /\ Reverse(Documents(epsilon', Document')) = Reverse(Documents(epsilon, Document))
           /\ Blank' = Blank
<1>1. shown' = shown /\ name' = name /\ seq' = seq /\ delta' = delta /\ epsilon' = epsilon
  OBVIOUS
<1>2. Document' = Document
  BY <1>1 DEF Document
<1>3. Blank' = Blank
  BY <1>1 DEF Blank
<1> QED
  BY <1>1, <1>2, <1>3

LEMMA RestHistory ==
    ASSUME putRefused \/ putWrites \/ putFails \/ clean \/ \E n \in Names : putOther(n)
    PROVE  Promise!Rest
<1>1. /\ UNCHANGED <<shown, name, seq, delta, epsilon>>
      /\ busy' = FALSE
  BY DEF putRefused, putWrites, putFails, putOther, clean, logs, window, file, disk
<1> QED
  BY <1>1, SameHistory DEF Promise!Rest

LEMMA ReadHistory ==
    ASSUME \/ \E q0 \in 0 .. MaxText : readc(q0) \/ \E s \in Strings : typex(q0, s)
           \/ \E n \in 1 .. MaxText : erase(n)
           \/ UNCHANGED vars
    PROVE  UNCHANGED Promise!vars
<1>1. UNCHANGED <<shown, name, seq, delta, epsilon>> /\ busy' = busy
  BY DEF readc, typex, erase, vars, logs, window, file, disk
<1> QED
  BY <1>1, SameHistory DEF Promise!vars

LEMMA StepHistory == FileInv /\ Typing /\ [Next]_vars => [Promise!Next]_(Promise!vars)
<1> SUFFICES ASSUME FileInv, Typing, [Next]_vars PROVE [Promise!Next]_(Promise!vars)
  OBVIOUS
<1>1. CASE Execute
  BY <1>1, ExecuteFile DEF Promise!Next
<1>2. ASSUME NEW q0 \in 0 .. MaxText, NEW s \in Strings, Insert(q0, s) PROVE Promise!Next
  BY <1>2, InsertFile DEF Promise!Next
<1>3. ASSUME NEW q0 \in 0 .. MaxText, NEW q1 \in 0 .. MaxText, Delete(q0, q1) PROVE Promise!Next
  BY <1>3, DeleteFile DEF Promise!Next
<1>4. CASE \/ \E q0 \in 0 .. MaxText : readc(q0) \/ \E s \in Strings : typex(q0, s)
           \/ \E n \in 1 .. MaxText : erase(n)
           \/ UNCHANGED vars
  BY <1>4, ReadHistory
<1>5. CASE Textcommit
  BY <1>5, TextcommitFile DEF Promise!Next
<1>6. ASSUME NEW n \in Names, commit(n) PROVE Promise!Next
  BY <1>6, CommitFile DEF Promise!Next
<1>7. CASE Undo \/ Redo
  BY <1>7, UndoFile, RedoFile DEF Promise!Next
<1>8. CASE putRefused \/ putWrites \/ putFails \/ clean \/ \E n \in Names : putOther(n)
  BY <1>8, RestHistory DEF Promise!Next
<1>9. CASE Get \/ getFails \/ \E n \in Names : getOther(n)
  BY <1>9, GetHistory DEF Promise!Next
<1> QED
  BY <1>1, <1>2, <1>3, <1>4, <1>5, <1>6, <1>7, <1>8, <1>9 DEF Next

\* What the invariant says of the logs, entry by entry.
LEMMA EntryFacts ==
    ASSUME NEW u, NEW d, NEW e, NEW k, Leads(u, d, e, k)
    PROVE  IsEntry(u)
<1>1. /\ u \in Entries
      /\ u.typex = "Delete" => u.data = << >>
      /\ u.typex = "Insert" => u.data \in Texts /\ Len(u.data) = u.n
      /\ u.typex = "Filename" => u.data \in Names
      /\ u.typex \in {"Delete", "Insert", "Filename"}
  BY DEF Leads
<1>2. /\ DOMAIN u = {"typex", "mod", "seq", "p0", "n", "data"}
      /\ u.mod \in BOOLEAN /\ u.seq \in 1 .. MaxSeq
      /\ u.p0 \in 0 .. MaxText /\ u.n \in 0 .. MaxText
  BY <1>1 DEF Entries
<1>3. \A t \in Texts : t \in Seq(Runes)
  BY DEF Texts
<1> QED
  BY <1>1, <1>2, <1>3 DEF IsEntry

LEMMA FileTypes == FileInv /\ Typing => TypeOK /\ ShownIsHeld /\ BlocksApart
<1> SUFFICES ASSUME FileInv, Typing PROVE TypeOK /\ ShownIsHeld /\ BlocksApart
  OBVIOUS
<1>1. /\ shown \in Texts /\ name \in Names /\ Holds(buf, shown)
      /\ known \in Names \cup {None}
      /\ seq \in 0 .. MaxSeq /\ putseq \in 0 .. MaxSeq /\ count \in 0 .. MaxSeq
      /\ mod \in BOOLEAN /\ dirty \in BOOLEAN /\ busy \in BOOLEAN /\ warned \in BOOLEAN
      /\ astray \subseteq Names
      /\ cq0 \in 0 .. MaxText /\ cache \in Seq(Runes)
      /\ saved \in [Names -> {None} \cup Texts]
  BY DEF FileInv, FileOK, Typing
<1>2. \A t \in Texts : t \in Seq(Runes)
  BY DEF Texts
<1>3. \A u \in ToSet(delta) \cup ToSet(epsilon) : IsEntry(u)
  <2>1. PICK N, docs, sq : Line(delta, epsilon, N, docs, sq, Document, seq, count)
    BY DEF FileInv, Remembers, Known
  <2>2. ASSUME NEW i \in 1 .. Len(delta) PROVE IsEntry(delta[i])
    <3>1. Leads(delta[i], docs[i], docs[i - 1], sq[i])
      BY <2>1 DEF Line, Behind
    <3> QED
      BY <3>1, EntryFacts
  <2>3. ASSUME NEW j \in 1 .. Len(epsilon) PROVE IsEntry(epsilon[j])
    <3>1. Leads(epsilon[j], docs[N - j], docs[N - j + 1], sq[N - j + 1])
      BY <2>1 DEF Line, Ahead
    <3> QED
      BY <3>1, EntryFacts
  <2>4. delta \in Seq(Entries) /\ epsilon \in Seq(Entries)
    BY <2>1 DEF Line
  <2>5. \A u \in ToSet(delta) : \E i \in 1 .. Len(delta) : delta[i] = u
    BY <2>4, ToSetIn DEF In
  <2>6. \A u \in ToSet(epsilon) : \E i \in 1 .. Len(epsilon) : epsilon[i] = u
    BY <2>4, ToSetIn DEF In
  <2> QED
    BY <2>2, <2>3, <2>5, <2>6
<1>4. TypeOK
  BY <1>1, <1>2, <1>3 DEF TypeOK
<1>5. ShownIsHeld
  <2>1. shown \in Seq(Runes)
    BY <1>1, <1>2
  <2> QED
    BY <2>1, <1>1, <1>4, HeldContents DEF ShownIsHeld
<1>6. BlocksApart
  BY <1>1, ApartBlocks DEF Holds
<1> QED
  BY <1>4, <1>5, <1>6

-----------------------------------------------------------------------------
LEMMA FileAlways == Spec => [](FileInv /\ Typing)
<1>1. Init => Typing
  <2> SUFFICES ASSUME Init PROVE Typing
    OBVIOUS
  <2>1. cq0 = 0 /\ cache = << >> /\ 0 \in 0 .. MaxText
    BY FileAssumption DEF Init
  <2> QED
    BY <2>1 DEF Typing
<1> QED
  BY <1>1, InitFile, StepFile, StepTyping, PTL DEF Spec

\* The state of a File and its window is well formed: the entries of both logs are
\* ones that undo knows.
THEOREM TypeCorrect == Spec => []TypeOK
<1>1. FileInv /\ Typing => TypeOK
  BY FileTypes
<1> QED
  BY <1>1, FileAlways, PTL

\* What the window shows is what the blocks on the disk and the cache hold, whatever
\* the edits, Undo, Redo, Get and reads have been (Buffer.insert, delete, read).
THEOREM ShownHeld == Spec => []ShownIsHeld
<1>1. FileInv /\ Typing => ShownIsHeld
  BY FileTypes
<1> QED
  BY <1>1, FileAlways, PTL

\* Disk.new and Disk.release never give out a place that is in use, and lose none.
THEOREM Apartness == Spec => []BlocksApart
<1>1. FileInv /\ Typing => BlocksApart
  BY FileTypes
<1> QED
  BY <1>1, FileAlways, PTL

\* A window that is not dirty, and has no runes in its cache, shows what is in the file
\* of its name, after any commands, Undos, Redos, renamings, Puts and Gets, with an
\* argument or without: unless the user has been warned of the changes, or the name has
\* gone astray by a Put or a Get that failed or that had an argument (Window.undo
\* compares f.seq with w.putseq).
THEOREM CleanSaved == Spec => []CleanIsSaved
<1> QED
  BY CleanTold, FileAlways, PTL

\* A File with its two logs implements History: Undo and Redo move along a line of
\* documents by whole commands and come back to the very text and name they left,
\* however many entries a command has logged (File.undo, File.mark).
THEOREM Promised == Spec => KeepsPromise
<1>1. Init => Promise!Init
  <2> SUFFICES ASSUME Init PROVE Promise!Init
    OBVIOUS
  <2>1. seq = 0 /\ delta = << >> /\ epsilon = << >> /\ busy = FALSE
    BY DEF Init
  <2>2. Documents(delta, Document) = << >> /\ Reverse(Documents(epsilon, Document)) = << >>
    BY <2>1, DocumentsNone, ReverseNone
  <2>3. Blank = FALSE
    BY <2>1 DEF Blank
  <2> QED
    BY <2>1, <2>2, <2>3 DEF Promise!Init
<1> QED
  BY <1>1, StepHistory, FileAlways, PTL DEF Spec, KeepsPromise, Promise!Spec
=============================================================================
