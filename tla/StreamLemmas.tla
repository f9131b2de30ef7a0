----------------------------- MODULE StreamLemmas -----------------------------
(***************************************************************************)
(* What the proofs about streams of bytes share: induction over the        *)
(* natural numbers and recursive definitions, stated of sets and functions *)
(* so that the provers can use them; how a sequence is cut and joined; and *)
(* what FlattenSeq of SequencesExt does with the first and the last of its *)
(* sequences.                                                              *)
(***************************************************************************)
EXTENDS SequencesExt, SequenceTheorems, WellFoundedInduction, TLAPS

------------------------------------------------------------------------------
(* Induction.                                                               *)

\* A set of numbers has a least one.
LEMMA LeastNumber ==
  ASSUME NEW S, S \subseteq Nat, S # {}
  PROVE  \E k \in S : \A n \in S : k <= n
<1>1. \E k \in S : \A n \in S : <<n, k>> \notin OpToRel(<, Nat)
  BY ONLY S \subseteq Nat, S # {}, NatLessThanWellFounded, WFMin, Zenon
<1>2. ASSUME NEW n \in Nat, NEW k \in Nat, n < k
      PROVE  <<n, k>> \in OpToRel(<, Nat)
  BY <1>2 DEF OpToRel
<1>3. PICK k \in S : \A n \in S : <<n, k>> \notin OpToRel(<, Nat)
  BY <1>1
<1>4. ASSUME NEW n \in S
      PROVE  k <= n
  <2>1. n \in Nat /\ k \in Nat /\ ~(n < k)
    BY <1>2, <1>3
  <2> QED
    BY <2>1
<1> QED
  BY <1>4

\* What holds of a number if it holds of all smaller ones holds of all.
LEMMA StrongInduction ==
  ASSUME NEW S, \A n \in Nat : (\A k \in Nat : k < n => k \in S) => n \in S
  PROVE  \A n \in Nat : n \in S
<1> DEFINE C == {n \in Nat : n \notin S}
<1> SUFFICES ASSUME C # {} PROVE FALSE
  OBVIOUS
<1>1. PICK n \in C : \A k \in C : n <= k
  <2>1. C \subseteq Nat /\ C # {}
    OBVIOUS
  <2> HIDE DEF C
  <2> QED
    BY <2>1, LeastNumber
<1>2. ASSUME NEW k \in Nat, k < n PROVE k \in S
  BY <1>1, <1>2
<1> QED
  BY <1>1, <1>2

\* A set with 0 in it and the successor of each of its numbers has all numbers.
LEMMA Induction ==
  ASSUME NEW S, 0 \in S, \A n \in Nat : n \in S => n + 1 \in S
  PROVE  \A n \in Nat : n \in S
<1>1. ASSUME NEW n \in Nat, \A k \in Nat : k < n => k \in S
      PROVE  n \in S
  <2>1. CASE n = 0
    BY <2>1
  <2>2. CASE n # 0
    <3>1. n - 1 \in Nat /\ n - 1 < n /\ (n - 1) + 1 = n
      BY <2>2
    <3>2. n - 1 \in S
      BY <1>1, <3>1
    <3> QED
      BY <3>1, <3>2
  <2> QED
    BY <2>1, <2>2
<1> QED
  BY <1>1, StrongInduction

------------------------------------------------------------------------------
(* Recursion.                                                               *)

\* The value of a recursive definition at x, step[<<x, f>>], depends on the
\* values of the function f at arguments of a lower rank only.
Descends(D, V, rank, step) ==
  /\ V # {}
  /\ rank \in [D -> Nat]
  /\ step \in [D \X [D -> V] -> V]
  /\ \A x \in D : \A f, g \in [D -> V] :
       (\A y \in D : rank[y] < rank[x] => f[y] = g[y])
         => step[<<x, f>>] = step[<<x, g>>]

\* Such a definition defines a function.
LEMMA RecursiveFunction ==
  ASSUME NEW D, NEW V, NEW rank, NEW step, Descends(D, V, rank, step)
  PROVE  \E f \in [D -> V] : \A x \in D : f[x] = step[<<x, f>>]
<1> USE DEF Descends
<1> DEFINE Good(f, n) == \A x \in D : rank[x] < n => f[x] = step[<<x, f>>]
<1>1. \A n \in Nat : \E f \in [D -> V] : Good(f, n)
  <2> DEFINE S == {n \in Nat : \E f \in [D -> V] : Good(f, n)}
  <2>1. 0 \in S
    <3>1. PICK v : v \in V
      OBVIOUS
    <3>2. [x \in D |-> v] \in [D -> V] /\ Good([x \in D |-> v], 0)
      BY <3>1
    <3> QED
      BY <3>2
  <2>2. ASSUME NEW n \in Nat, n \in S PROVE n + 1 \in S
    <3>1. PICK f \in [D -> V] : Good(f, n)
      BY <2>2
    <3> DEFINE g == [x \in D |-> step[<<x, f>>]]
    <3>2. g \in [D -> V]
      OBVIOUS
    <3>3. ASSUME NEW x \in D, rank[x] < n + 1 PROVE g[x] = step[<<x, g>>]
      <4>1. \A y \in D : rank[y] < rank[x] => f[y] = g[y]
        BY <3>1, <3>3
      <4>2. step[<<x, f>>] = step[<<x, g>>]
        BY <3>2, <4>1
      <4> QED
        BY <4>2
    <3> HIDE DEF g
    <3>4. Good(g, n + 1)
      BY <3>3
    <3> QED
      BY <3>2, <3>4
  <2> HIDE DEF S
  <2>3. \A n \in Nat : n \in S
    BY <2>1, <2>2, Induction
  <2> QED
    BY <2>3 DEF S
<1>2. ASSUME NEW f \in [D -> V], NEW g \in [D -> V], NEW m \in Nat, Good(f, m), Good(g, m)
      PROVE  \A x \in D : rank[x] < m => f[x] = g[x]
  <2> DEFINE S == {n \in Nat : \A x \in D : rank[x] = n /\ n < m => f[x] = g[x]}
  <2>1. ASSUME NEW n \in Nat, \A k \in Nat : k < n => k \in S PROVE n \in S
    <3> SUFFICES ASSUME NEW x \in D, rank[x] = n, n < m PROVE f[x] = g[x]
      OBVIOUS
    <3>1. \A y \in D : rank[y] < rank[x] => f[y] = g[y]
      BY <2>1
    <3>2. step[<<x, f>>] = step[<<x, g>>]
      BY <3>1
    <3> QED
      BY <1>2, <3>2
  <2> HIDE DEF S
  <2>2. \A n \in Nat : n \in S
    BY <2>1, StrongInduction
  <2> QED
    BY <2>2 DEF S
<1> HIDE DEF Good
<1> DEFINE upto(n) == CHOOSE f \in [D -> V] : Good(f, n)
<1>3. \A n \in Nat : upto(n) \in [D -> V] /\ Good(upto(n), n)
  BY <1>1
<1> HIDE DEF upto
<1> DEFINE F == [x \in D |-> upto(rank[x] + 1)[x]]
<1>4. F \in [D -> V]
  BY <1>3
<1>5. ASSUME NEW x \in D PROVE F[x] = step[<<x, F>>]
  <2> DEFINE f == upto(rank[x] + 1)
  <2>0. rank[x] + 1 \in Nat
    OBVIOUS
  <2>1. f \in [D -> V] /\ Good(f, rank[x] + 1) /\ F[x] = f[x]
    BY <1>3, <2>0
  <2>2. ASSUME NEW y \in D, rank[y] < rank[x] PROVE F[y] = f[y]
    <3> DEFINE g == upto(rank[y] + 1)
    <3>0. rank[y] + 1 \in Nat
      OBVIOUS
    <3>1. g \in [D -> V] /\ Good(g, rank[y] + 1) /\ F[y] = g[y]
      BY <1>3, <3>0
    <3> HIDE DEF f, g
    <3>4. \A z \in D : rank[z] < rank[y] + 1 => rank[z] < rank[x] + 1
      BY <2>2
    <3>2. Good(f, rank[y] + 1)
      BY <2>1, <3>4 DEF Good
    <3>3. g[y] = f[y]
      BY <1>2, <2>1, <3>1, <3>2
    <3> QED
      BY <3>1, <3>3
  <2> HIDE DEF f, F
  <2>3. step[<<x, F>>] = step[<<x, f>>]
    BY <1>4, <2>1, <2>2
  <2>4. f[x] = step[<<x, f>>]
    BY <2>1 DEF Good
  <2> QED
    BY <2>1, <2>3, <2>4
<1> HIDE DEF F
<1> QED
  BY <1>4, <1>5

------------------------------------------------------------------------------
(* Sequences.                                                               *)

\* A function on 1..n is a sequence of length n.
LEMMA FunctionIsSequence ==
  ASSUME NEW n \in Nat, NEW T, NEW f \in [1..n -> T]
  PROVE  f \in Seq(T) /\ Len(f) = n
<1>1. f \in Seq(T)
  OBVIOUS
<1> QED
  BY <1>1, LenProperties

\* What comes before a sequence is its head.
LEMMA FirstRead ==
  ASSUME NEW T, NEW x \in T, NEW s \in Seq(T)
  PROVE  /\ <<x>> \o s \in Seq(T) /\ <<x>> \o s # <<>>
         /\ Head(<<x>> \o s) = x /\ Tail(<<x>> \o s) = s
<1> DEFINE whole == <<x>> \o s
<1>1. <<x>> \in Seq(T) /\ Len(<<x>>) = 1
  OBVIOUS
<1>2. /\ whole \in Seq(T) /\ Len(whole) = 1 + Len(s)
      /\ \A i \in 1 .. 1 + Len(s) : whole[i] = IF i <= 1 THEN <<x>>[i] ELSE s[i - 1]
  <2> HIDE DEF whole
  <2>1. /\ whole \in Seq(T) /\ Len(whole) = Len(<<x>>) + Len(s)
        /\ \A i \in 1 .. Len(<<x>>) + Len(s) :
             whole[i] = IF i <= Len(<<x>>) THEN <<x>>[i] ELSE s[i - Len(<<x>>)]
    BY <1>1, ConcatProperties DEF whole
  <2> QED
    BY <1>1, <2>1
<1> HIDE DEF whole
<1>3. whole # <<>> /\ Head(whole) = x
  BY <1>2
<1>4. /\ Tail(whole) \in Seq(T) /\ Len(Tail(whole)) = Len(s)
      /\ \A i \in 1 .. Len(s) : Tail(whole)[i] = whole[i + 1]
  BY <1>2, <1>3, HeadTailProperties
<1>5. \A i \in 1 .. Len(s) : Tail(whole)[i] = s[i]
  BY <1>2, <1>4
<1>6. Tail(whole) = s
  BY <1>4, <1>5, SeqEqual
<1> QED
  BY <1>2, <1>3, <1>6 DEF whole

\* Where the elements of three sequences are when they follow each other.
LEMMA ThreeParts ==
  ASSUME NEW T, NEW a \in Seq(T), NEW b \in Seq(T), NEW c \in Seq(T)
  PROVE  /\ a \o b \o c \in Seq(T)
         /\ Len(a \o b \o c) = Len(a) + Len(b) + Len(c)
         /\ \A i \in 1..Len(a) : (a \o b \o c)[i] = a[i]
         /\ \A i \in 1..Len(b) : (a \o b \o c)[i + Len(a)] = b[i]
         /\ \A i \in 1..Len(c) : (a \o b \o c)[i + Len(a) + Len(b)] = c[i]
<1> DEFINE d == a \o b
           e == d \o c
<1>1. /\ d \in Seq(T) /\ Len(d) = Len(a) + Len(b)
      /\ \A i \in 1 .. Len(a) + Len(b) : d[i] = IF i <= Len(a) THEN a[i] ELSE b[i - Len(a)]
  BY ConcatProperties
<1> HIDE DEF d
<1>2. /\ e \in Seq(T) /\ Len(e) = Len(d) + Len(c)
      /\ \A i \in 1 .. Len(d) + Len(c) : e[i] = IF i <= Len(d) THEN d[i] ELSE c[i - Len(d)]
  <2>1. d \in Seq(T)
    BY <1>1
  <2> QED
    BY ONLY <2>1, c \in Seq(T), ConcatProperties DEF e
<1> HIDE DEF e
<1>3. Len(a) \in Nat /\ Len(b) \in Nat /\ Len(c) \in Nat
  OBVIOUS
<1>4. \A i \in 1..Len(a) : e[i] = a[i]
  BY <1>1, <1>2, <1>3
<1>5. \A i \in 1..Len(b) : e[i + Len(a)] = b[i]
  BY <1>1, <1>2, <1>3
<1>6. \A i \in 1..Len(c) : e[i + Len(a) + Len(b)] = c[i]
  BY <1>1, <1>2, <1>3
<1> QED
  BY <1>1, <1>2, <1>4, <1>5, <1>6 DEF d, e

\* A part of a sequence.
LEMMA Piece ==
  ASSUME NEW T, NEW b \in Seq(T), NEW i \in 0..Len(b), NEW j \in i..Len(b)
  PROVE  /\ SubSeq(b, i + 1, j) \in Seq(T) /\ Len(SubSeq(b, i + 1, j)) = j - i
         /\ \A x \in 1 .. j - i : SubSeq(b, i + 1, j)[x] = b[i + x]
<1> DEFINE n == Len(b)
<1>1. n \in Nat /\ i \in Nat /\ j \in Nat /\ i <= j /\ j <= n
  <2>1. n \in Nat
    BY LenProperties
  <2> HIDE DEF n
  <2> QED
    BY <2>1 DEF n
<1>2. \A x \in 1..n : b[x] \in T
  BY ElementOfSeq
<1> HIDE DEF n
<1>3. i + 1 \in 1 .. n + 1 /\ j \in i .. n /\ j \in 0..n
  BY <1>1
<1> QED
  BY <1>1, <1>2, <1>3 DEF n

\* A sequence cut in two.
LEMMA CutInTwo ==
  ASSUME NEW T, NEW w \in Seq(T), NEW n \in 0..Len(w)
  PROVE  /\ SubSeq(w, 1, n) \in Seq(T) /\ SubSeq(w, n + 1, Len(w)) \in Seq(T)
         /\ Len(SubSeq(w, 1, n)) = n
         /\ SubSeq(w, 1, n) \o SubSeq(w, n + 1, Len(w)) = w
<1> DEFINE N == Len(w)
           a == SubSeq(w, 1, n)
           b == SubSeq(w, n + 1, N)
           c == a \o b
<1>1. N \in Nat /\ n \in 0..N
  BY LenProperties
<1>2. a \in Seq(T) /\ Len(a) = n /\ \A x \in 1..n : a[x] = w[x]
  <2> DEFINE z == 0
  <2>1. z \in 0..N /\ n \in z..N
    BY <1>1
  <2>2. z + 1 = 1 /\ n - z = n /\ \A x \in 1..n : z + x = x
    BY <1>1
  <2> HIDE DEF z
  <2>3. /\ SubSeq(w, z + 1, n) \in Seq(T) /\ Len(SubSeq(w, z + 1, n)) = n - z
        /\ \A x \in 1 .. n - z : SubSeq(w, z + 1, n)[x] = w[z + x]
    BY <2>1, Piece DEF N
  <2> QED
    BY <2>2, <2>3
<1>3. b \in Seq(T) /\ Len(b) = N - n /\ \A x \in 1 .. N - n : b[x] = w[n + x]
  <2>1. N \in n..N
    BY <1>1
  <2> QED
    BY <1>1, <2>1, Piece DEF N
<1> HIDE DEF a, b, N
<1>4. /\ c \in Seq(T) /\ Len(c) = Len(a) + Len(b)
      /\ \A i \in 1 .. Len(a) + Len(b) : c[i] = IF i <= Len(a) THEN a[i] ELSE b[i - Len(a)]
  BY <1>2, <1>3, ConcatProperties
<1> HIDE DEF c
<1>5. Len(c) = N
  BY <1>1, <1>2, <1>3, <1>4
<1>6. ASSUME NEW i \in 1..N
      PROVE  c[i] = w[i]
  <2>1. CASE i <= n
    BY <1>1, <1>2, <1>3, <1>4, <2>1
  <2>2. CASE ~(i <= n)
    <3>1. i - n \in 1 .. N - n /\ n + (i - n) = i /\ i \in 1 .. Len(a) + Len(b)
      BY <1>1, <1>2, <1>3, <2>2
    <3>2. c[i] = b[i - n]
      BY <1>2, <1>4, <2>2, <3>1
    <3>3. b[i - n] = w[i]
      BY <1>3, <3>1
    <3> QED
      BY <3>2, <3>3
  <2> QED
    BY <2>1, <2>2
<1>7. c = w
  BY <1>4, <1>5, <1>6, SeqEqual DEF N
<1> QED
  BY <1>2, <1>3, <1>7 DEF a, b, c, N

\* What follows the first k elements.
Rest(a, k) == SubSeq(a, k + 1, Len(a))

\* c is a and then w.
Splits(c, a, w) == c = a \o w

\* Sequences that follow each other in two ways.
LEMMA Overlap ==
  ASSUME NEW T, NEW a \in Seq(T), NEW w \in Seq(T), NEW f \in Seq(T), NEW rest \in Seq(T),
         NEW c, Splits(c, a, w), Splits(c, f, rest)
  PROVE  /\ Len(a) + Len(w) = Len(f) + Len(rest)
         /\ \A i \in 1..Len(f) : i <= Len(a) => a[i] = f[i]
         /\ Len(a) >= Len(f) => Rest(a, Len(f)) \in Seq(T) /\ Splits(rest, Rest(a, Len(f)), w)
<1> DEFINE k == Len(f)
           n == Len(a)
<1>1. /\ k \in Nat /\ n \in Nat /\ Len(w) \in Nat /\ Len(rest) \in Nat
      /\ c \in Seq(T) /\ Len(c) = n + Len(w) /\ Len(c) = k + Len(rest)
      /\ \A i \in 1 .. n + Len(w) : c[i] = IF i <= n THEN a[i] ELSE w[i - n]
      /\ \A i \in 1 .. k + Len(rest) : c[i] = IF i <= k THEN f[i] ELSE rest[i - k]
  <2>1. /\ c \in Seq(T) /\ Len(c) = n + Len(w)
        /\ \A i \in 1 .. n + Len(w) : c[i] = IF i <= n THEN a[i] ELSE w[i - n]
    <3> DEFINE e == a \o w
    <3>1. /\ e \in Seq(T) /\ Len(e) = n + Len(w)
          /\ \A i \in 1 .. n + Len(w) : e[i] = IF i <= n THEN a[i] ELSE w[i - n]
      BY ConcatProperties
    <3> HIDE DEF e
    <3>2. c = e
      BY DEF e, Splits
    <3> QED
      BY <3>1, <3>2
  <2>2. /\ Len(c) = k + Len(rest)
        /\ \A i \in 1 .. k + Len(rest) : c[i] = IF i <= k THEN f[i] ELSE rest[i - k]
    <3> DEFINE e == f \o rest
    <3>1. /\ Len(e) = k + Len(rest)
          /\ \A i \in 1 .. k + Len(rest) : e[i] = IF i <= k THEN f[i] ELSE rest[i - k]
      BY ConcatProperties
    <3> HIDE DEF e
    <3>2. c = e
      BY DEF e, Splits
    <3> QED
      BY <3>1, <3>2
  <2> QED
    BY <2>1, <2>2, LenProperties
<1> HIDE DEF k, n
<1>2. ASSUME NEW i \in 1..k, i <= n
      PROVE  a[i] = f[i]
  <2>1. i \in 1 .. k + Len(rest) /\ i \in 1 .. n + Len(w) /\ i <= k
    BY <1>1, <1>2
  <2>2. c[i] = f[i]
    BY <1>1, <2>1
  <2>3. c[i] = a[i]
    BY <1>1, <1>2, <2>1
  <2> QED
    BY <2>2, <2>3
<1>3. ASSUME n >= k
      PROVE  SubSeq(a, k + 1, n) \in Seq(T) /\ SubSeq(a, k + 1, n) \o w = rest
  <2> DEFINE d == SubSeq(a, k + 1, n)
             e == d \o w
  <2>1. d \in Seq(T) /\ Len(d) = n - k /\ \A i \in 1 .. n - k : d[i] = a[k + i]
    <3>1. \A i \in 1..n : a[i] \in T
      BY ElementOfSeq DEF n
    <3> QED
      BY <1>1, <1>3, <3>1
  <2> HIDE DEF d
  <2>2. /\ e \in Seq(T) /\ Len(e) = Len(d) + Len(w)
        /\ \A i \in 1 .. Len(d) + Len(w) : e[i] = IF i <= Len(d) THEN d[i] ELSE w[i - Len(d)]
    BY <2>1, ConcatProperties
  <2> HIDE DEF e
  <2>3. Len(e) = Len(rest)
    BY <1>1, <1>3, <2>1, <2>2
  <2>4. \A i \in 1..Len(e) : e[i] = rest[i]
    <3> SUFFICES ASSUME NEW i \in 1..Len(e) PROVE e[i] = rest[i]
      OBVIOUS
    <3>1. k + i \in 1 .. k + Len(rest) /\ k + i \in 1 .. n + Len(w) /\ ~(k + i <= k) /\ (k + i) - k = i
      BY <1>1, <2>3
    <3>2. c[k + i] = rest[i]
      BY <1>1, <3>1
    <3>3. e[i] = c[k + i]
      <4>1. CASE i <= n - k
        <5>1. e[i] = d[i] /\ d[i] = a[k + i] /\ c[k + i] = a[k + i]
          BY <1>1, <1>3, <2>1, <2>2, <3>1, <4>1
        <5> QED
          BY <5>1
      <4>2. CASE ~(i <= n - k)
        <5>1. i - (n - k) = (k + i) - n /\ i \in 1 .. Len(d) + Len(w) /\ ~(i <= Len(d)) /\ ~(k + i <= n)
          BY <1>1, <1>3, <2>1, <2>2, <3>1, <4>2
        <5>2. e[i] = w[i - Len(d)] /\ c[k + i] = w[(k + i) - n] /\ Len(d) = n - k
          BY <1>1, <2>1, <2>2, <3>1, <5>1
        <5> QED
          BY <5>1, <5>2
      <4> QED
        BY <4>1, <4>2
    <3> QED
      BY <3>2, <3>3
  <2>5. e = rest
    BY <2>2, <2>3, <2>4, SeqEqual
  <2> QED
    BY <2>1, <2>5 DEF d, e
<1> QED
  BY <1>1, <1>2, <1>3 DEF k, n, Rest, Splits

------------------------------------------------------------------------------
(* Sequences of sequences.                                                  *)

\* FlattenSeq is the last of the functions that its definition builds up.
LEMMA FlattenIsLast ==
  ASSUME NEW T, NEW seqs \in Seq(Seq(T)), seqs # <<>>
  PROVE  \E f \in [1..Len(seqs) -> Seq(T)] :
           /\ f[1] = seqs[1]
           /\ \A i \in 2..Len(seqs) : f[i] = f[i - 1] \o seqs[i]
           /\ FlattenSeq(seqs) = f[Len(seqs)]
<1> DEFINE n     == Len(seqs)
           I     == 1..n
           U     == Seq(T)
           order  == [i \in I |-> i]
           next  == [p \in I \X [I -> U] |->
                      IF p[1] = 1 THEN seqs[p[1]] ELSE p[2][p[1] - 1] \o seqs[p[1]]]
<1>1. n \in Nat /\ n # 0 /\ \A i \in I : seqs[i] \in U
  OBVIOUS
<1>2. U # {} /\ order \in [I -> Nat]
  <2>1. <<>> \in U
    OBVIOUS
  <2> QED
    BY <2>1
<1>3. next \in [I \X [I -> U] -> U]
  <2>1. ASSUME NEW i \in I, NEW f \in [I -> U]
        PROVE  (IF i = 1 THEN seqs[i] ELSE f[i - 1] \o seqs[i]) \in U
    <3>1. CASE i = 1
      BY <1>1, <3>1
    <3>2. CASE i # 1
      <4>0. i - 1 \in I
        BY <1>1, <3>2
      <4>1. f[i - 1] \in U /\ seqs[i] \in U
        BY <1>1, <4>0
      <4> QED
        BY <3>2, <4>1, ConcatProperties
    <3> QED
      BY <3>1, <3>2
  <2> HIDE DEF I, U
  <2> QED
    BY <2>1
<1>4. ASSUME NEW i \in I, NEW f \in [I -> U], NEW g \in [I -> U],
             \A k \in I : order[k] < order[i] => f[k] = g[k]
      PROVE  next[<<i, f>>] = next[<<i, g>>]
  <2>1. i # 1 => i - 1 \in I /\ order[i - 1] < order[i]
    OBVIOUS
  <2>2. i # 1 => f[i - 1] = g[i - 1]
    BY <1>4, <2>1
  <2>3. /\ next[<<i, f>>] = IF i = 1 THEN seqs[i] ELSE f[i - 1] \o seqs[i]
        /\ next[<<i, g>>] = IF i = 1 THEN seqs[i] ELSE g[i - 1] \o seqs[i]
    OBVIOUS
  <2> QED
    BY <2>2, <2>3
<1>5. \E f \in [I -> U] : \A i \in I : f[i] = next[<<i, f>>]
  <2> HIDE DEF I, U, order, next
  <2>1. \A i \in I : \A f, g \in [I -> U] :
          (\A k \in I : order[k] < order[i] => f[k] = g[k]) => next[<<i, f>>] = next[<<i, g>>]
    BY <1>4, Zenon
  <2>2. Descends(I, U, order, next)
    BY <1>2, <1>3, <2>1, Zenon DEF Descends
  <2> QED
    BY <2>2, RecursiveFunction
<1>6. PICK h \in [I -> U] : \A i \in I : h[i] = next[<<i, h>>]
  BY <1>5
<1>7. h = [i \in I |-> IF i = 1 THEN seqs[i] ELSE h[i - 1] \o seqs[i]]
  BY <1>6
<1> DEFINE f == CHOOSE g : g = [i \in I |-> IF i = 1 THEN seqs[i] ELSE g[i - 1] \o seqs[i]]
<1>8. f = [i \in I |-> IF i = 1 THEN seqs[i] ELSE f[i - 1] \o seqs[i]]
  BY <1>7
<1>9. FlattenSeq(seqs) = f[n]
  BY <1>1 DEF FlattenSeq
<1> HIDE DEF f
<1>10. \A i \in I : f[i] \in U
  <2> DEFINE S == {k \in Nat : k \in I => f[k] \in U}
  <2>1. 0 \in S
    OBVIOUS
  <2>2. ASSUME NEW k \in Nat, k \in S PROVE k + 1 \in S
    <3> SUFFICES ASSUME k + 1 \in I PROVE f[k + 1] \in U
      OBVIOUS
    <3>1. seqs[k + 1] \in U
      BY <1>1
    <3>2. CASE k = 0
      BY <1>8, <3>1, <3>2
    <3>3. CASE k # 0
      <4>1. k \in I /\ k + 1 # 1 /\ (k + 1) - 1 = k
        BY <3>3
      <4>2. f[k] \in U
        BY <2>2, <4>1
      <4>3. f[k + 1] = f[k] \o seqs[k + 1]
        BY <1>8, <4>1
      <4> QED
        BY <3>1, <4>2, <4>3, ConcatProperties
    <3> QED
      BY <3>2, <3>3
  <2> HIDE DEF S
  <2>3. \A k \in Nat : k \in S
    BY <2>1, <2>2, Induction
  <2> QED
    BY <2>3 DEF S
<1>11. f \in [I -> U]
  BY <1>8, <1>10
<1>12. f[1] = seqs[1] /\ \A i \in 2..n : f[i] = f[i - 1] \o seqs[i]
  <2>1. 1 \in I /\ \A i \in 2..n : i \in I /\ i # 1
    BY <1>1
  <2>2. \A i \in I : f[i] = IF i = 1 THEN seqs[i] ELSE f[i - 1] \o seqs[i]
    BY <1>8, Zenon
  <2> HIDE DEF I
  <2>3. f[1] = seqs[1]
    BY <2>1, <2>2
  <2>4. \A i \in 2..n : f[i] = f[i - 1] \o seqs[i]
    BY <2>1, <2>2
  <2> QED
    BY <2>3, <2>4
<1> QED
  BY <1>9, <1>11, <1>12

\* What is put together is a sequence of the same elements.
LEMMA FlattenType ==
  ASSUME NEW T, NEW seqs \in Seq(Seq(T))
  PROVE  /\ FlattenSeq(seqs) \in Seq(T)
         /\ seqs = <<>> => FlattenSeq(seqs) = <<>>
<1>1. CASE seqs = <<>>
  BY <1>1 DEF FlattenSeq
<1>2. CASE seqs # <<>>
  <2>1. Len(seqs) \in 1..Len(seqs)
    BY <1>2
  <2>2. PICK f \in [1..Len(seqs) -> Seq(T)] : FlattenSeq(seqs) = f[Len(seqs)]
    BY <1>2, FlattenIsLast
  <2> QED
    BY <1>2, <2>1, <2>2
<1> QED
  BY <1>1, <1>2

\* One sequence alone stays as it is.
LEMMA FlattenSingle ==
  ASSUME NEW T, NEW s \in Seq(T)
  PROVE  FlattenSeq(<<s>>) = s
<1>1. <<s>> \in Seq(Seq(T)) /\ <<s>> # <<>> /\ Len(<<s>>) = 1 /\ <<s>>[1] = s
  OBVIOUS
<1> QED
  BY <1>1, FlattenIsLast

\* A sequence added at the end comes last.
LEMMA FlattenAppend ==
  ASSUME NEW T, NEW seqs \in Seq(Seq(T)), NEW s \in Seq(T)
  PROVE  FlattenSeq(Append(seqs, s)) = FlattenSeq(seqs) \o s
<1>1. CASE seqs = <<>>
  <2>1. FlattenSeq(seqs) = <<>>
    BY <1>1, FlattenType
  <2>2. Append(seqs, s) = <<s>> /\ <<>> \o s = s
    BY <1>1
  <2> QED
    BY <2>1, <2>2, FlattenSingle
<1>2. CASE seqs # <<>>
  <2> DEFINE n    == Len(seqs)
             more == Append(seqs, s)
  <2>1. /\ more \in Seq(Seq(T)) /\ Len(more) = n + 1 /\ more # <<>> /\ n \in Nat \ {0}
        /\ more[n + 1] = s /\ \A i \in 1..n : more[i] = seqs[i]
    BY <1>2
  <2> HIDE DEF more
  <2>2. PICK f \in [1..n -> Seq(T)] :
          /\ f[1] = seqs[1]
          /\ \A i \in 2..n : f[i] = f[i - 1] \o seqs[i]
          /\ FlattenSeq(seqs) = f[n]
    BY <1>2, FlattenIsLast
  <2>3. PICK g \in [1..Len(more) -> Seq(T)] :
          /\ g[1] = more[1]
          /\ \A i \in 2..Len(more) : g[i] = g[i - 1] \o more[i]
          /\ FlattenSeq(more) = g[Len(more)]
    BY <2>1, FlattenIsLast
  <2> DEFINE S == {k \in Nat : k \in 1..n => g[k] = f[k]}
  <2>4. 0 \in S
    OBVIOUS
  <2>5. ASSUME NEW k \in Nat, k \in S PROVE k + 1 \in S
    <3> SUFFICES ASSUME k + 1 \in 1..n PROVE g[k + 1] = f[k + 1]
      OBVIOUS
    <3>1. CASE k = 0
      BY <2>1, <2>2, <2>3, <3>1
    <3>2. CASE k # 0
      <4>1. k \in 1..n /\ k + 1 \in 2..n /\ k + 1 \in 2..Len(more) /\ (k + 1) - 1 = k
        BY <2>1, <3>2
      <4>2. g[k] = f[k] /\ more[k + 1] = seqs[k + 1]
        BY <2>1, <2>5, <4>1
      <4>3. g[k + 1] = g[k] \o more[k + 1] /\ f[k + 1] = f[k] \o seqs[k + 1]
        BY <2>2, <2>3, <4>1
      <4> QED
        BY <4>2, <4>3
    <3> QED
      BY <3>1, <3>2
  <2>6. g[n] = f[n]
    <3> HIDE DEF S
    <3>1. \A k \in Nat : k \in S
      BY <2>4, <2>5, Induction
    <3>2. n \in S /\ n \in 1..n
      BY <2>1, <3>1
    <3> QED
      BY <3>2 DEF S
  <2>7. g[n + 1] = g[n] \o more[n + 1]
    <3>1. n + 1 \in 2..Len(more) /\ (n + 1) - 1 = n
      BY <2>1
    <3> QED
      BY <2>3, <3>1
  <2> QED
    BY <2>1, <2>2, <2>3, <2>6, <2>7 DEF more
<1> QED
  BY <1>1, <1>2

\* A sequence added at the start comes first.
LEMMA FlattenCons ==
  ASSUME NEW T, NEW s \in Seq(T), NEW seqs \in Seq(Seq(T))
  PROVE  FlattenSeq(<<s>> \o seqs) = s \o FlattenSeq(seqs)
<1> DEFINE C == {n \in Nat : \A q \in Seq(Seq(T)) :
                   Len(q) = n => FlattenSeq(<<s>> \o q) = s \o FlattenSeq(q)}
<1>1. 0 \in C
  <2> SUFFICES ASSUME NEW q \in Seq(Seq(T)), Len(q) = 0
               PROVE  FlattenSeq(<<s>> \o q) = s \o FlattenSeq(q)
    OBVIOUS
  <2>1. q = <<>> /\ <<s>> \in Seq(Seq(T))
    BY EmptySeq
  <2>2. <<s>> \o q = <<s>> /\ FlattenSeq(q) = <<>> /\ s \o <<>> = s
    BY <2>1, FlattenType, ConcatEmptySeq
  <2> QED
    BY <2>2, FlattenSingle
<1>2. ASSUME NEW n \in Nat, n \in C PROVE n + 1 \in C
  <2> SUFFICES ASSUME NEW q \in Seq(Seq(T)), Len(q) = n + 1
               PROVE  FlattenSeq(<<s>> \o q) = s \o FlattenSeq(q)
    <3>1. n + 1 \in Nat
      OBVIOUS
    <3> QED
      BY <3>1, Zenon
  <2>1. q # <<>>
    BY EmptySeq
  <2>2. PICK front \in Seq(Seq(T)), last \in Seq(T) : q = Append(front, last)
    BY <2>1, SequenceEmptyOrAppend
  <2>3. Len(front) = n /\ <<s>> \in Seq(Seq(T))
    BY <2>2
  <2>4. FlattenSeq(<<s>> \o front) = s \o FlattenSeq(front)
    BY <1>2, <2>3
  <2>5. <<s>> \o q = Append(<<s>> \o front, last) /\ <<s>> \o front \in Seq(Seq(T))
    BY <2>2, <2>3
  <2>6. /\ FlattenSeq(<<s>> \o q) = FlattenSeq(<<s>> \o front) \o last
        /\ FlattenSeq(q) = FlattenSeq(front) \o last
    BY <2>2, <2>5, FlattenAppend
  <2>7. (s \o FlattenSeq(front)) \o last = s \o (FlattenSeq(front) \o last)
    <3>1. FlattenSeq(front) \in Seq(T)
      BY FlattenType
    <3>2. ASSUME NEW f \in Seq(T) PROVE (s \o f) \o last = s \o (f \o last)
      BY ONLY s \in Seq(T), f \in Seq(T), last \in Seq(T), ConcatAssociative
    <3> QED
      BY <3>1, <3>2, Zenon
  <2> QED
    BY <2>4, <2>6, <2>7
<1> HIDE DEF C
<1>3. \A n \in Nat : n \in C
  BY <1>1, <1>2, Induction
<1>4. Len(seqs) \in Nat
  OBVIOUS
<1> QED
  BY <1>3, <1>4, Zenon DEF C

\* The rest of a sequence of sequences starts with the first that is left.
LEMMA FlattenRest ==
  ASSUME NEW T, NEW seqs \in Seq(Seq(T)), NEW k \in 1..Len(seqs)
  PROVE  /\ SubSeq(seqs, k + 1, Len(seqs)) \in Seq(Seq(T))
         /\ FlattenSeq(SubSeq(seqs, k + 1, Len(seqs))) \in Seq(T)
         /\ FlattenSeq(SubSeq(seqs, k, Len(seqs)))
              = seqs[k] \o FlattenSeq(SubSeq(seqs, k + 1, Len(seqs)))
<1>1. seqs[k] \in Seq(T)
  BY ElementOfSeq
<1>2. SubSeq(seqs, k + 1, Len(seqs)) \in Seq(Seq(T))
  <2>1. \A i \in k + 1 .. Len(seqs) : seqs[i] \in Seq(T)
    OBVIOUS
  <2> QED
    BY <2>1, SubSeqProperties, LenProperties
<1>3. SubSeq(seqs, k, Len(seqs)) = <<seqs[k]>> \o SubSeq(seqs, k + 1, Len(seqs))
  <2>1. Len(seqs) \in k..Len(seqs)
    OBVIOUS
  <2> QED
    BY <2>1, SubSeqRecursiveFirst
<1> QED
  BY <1>1, <1>2, <1>3, FlattenCons, FlattenType

==============================================================================
