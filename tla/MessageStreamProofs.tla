-------------------------- MODULE MessageStreamProofs --------------------------
(***************************************************************************)
(* Proofs about the messages of a browser, for every buffer, mask and set  *)
(* of messages whose frames fit into the buffer: reading undoes writing,   *)
(* unmasking undoes masking, a frame is cut off the stream where the peer  *)
(* ended it, and so the handler does what the messages ask for however TCP *)
(* cuts the stream.                                                        *)
(***************************************************************************)
EXTENDS MessageStream, StreamLemmas

------------------------------------------------------------------------------
(* Arithmetic.                                                              *)

\* The numbers that the protocol divides by.
Divisors == {2, 4, 8, 16, 32, 64, 128, 256}

\* Quotient and remainder make up the number.
LEMMA Divide ==
  ASSUME NEW n \in Divisors, NEW v \in Nat
  PROVE  /\ v \div n \in Nat /\ v % n \in 0 .. n - 1 /\ v = n * (v \div n) + (v % n)
         /\ v >= n => v \div n # 0
         /\ v # 0 => v \div n < v
<1>1. v \div n \in Nat /\ v % n \in 0 .. n - 1
  BY DEF Divisors
<1>2. v = n * (v \div n) + (v % n)
  BY DEF Divisors
<1>3. v >= n => v \div n # 0
  BY DEF Divisors
<1>4. v # 0 => v \div n < v
  BY DEF Divisors
<1> QED
  BY <1>1, <1>2, <1>3, <1>4

\* They are determined by that.
LEMMA Quotient ==
  ASSUME NEW n \in Divisors, NEW q \in Nat, NEW r \in 0 .. n - 1
  PROVE  (n * q + r) \div n = q /\ (n * q + r) % n = r
BY DEF Divisors

\* The limits of the protocol.
LEMMA SignLimits ==
  /\ Sign \in Divisors /\ More \in Divisors /\ 4 * Sign \in Divisors
  /\ Sign \in Nat /\ Sign >= 4 /\ More = 2 * Sign /\ Byte = 0 .. 4 * Sign - 1
BY SignAssumption DEF SignAssumption, Divisors, More, Byte

------------------------------------------------------------------------------
(* Unsigned integers.                                                       *)

\* What is left of a number that needs more than one group is smaller.
LEMMA Shift ==
  ASSUME NEW v \in Nat, ~(v < More)
  PROVE  v \div More \in Nat /\ v \div More < v
<1>1. v # 0 /\ More \in Divisors
  BY SignLimits
<1> QED
  BY <1>1, Divide

\* The groups of an integer.
LEMMA WriteUnsigned ==
  /\ write_unsigned_integer \in [Nat -> Seq(Byte)]
  /\ \A v \in Nat : write_unsigned_integer[v] =
       IF v < More THEN <<v>>
                   ELSE <<More + (v % More)>> \o write_unsigned_integer[v \div More]
<1> DEFINE U == Seq(Byte)
           Group(v, rest) == IF v < More THEN <<v>> ELSE <<More + (v % More)>> \o rest
           step == [p \in Nat \X [Nat -> U] |-> Group(p[1], p[2][p[1] \div More])]
           order == [v \in Nat |-> v]
<1>1. ASSUME NEW v \in Nat, NEW rest \in U
      PROVE  Group(v, rest) \in U
  <2>1. CASE v < More
    <3>1. v \in Byte
      BY <2>1, SignLimits
    <3> QED
      BY <2>1, <3>1
  <2>2. CASE ~(v < More)
    <3>1. More + (v % More) \in Byte
      <4>1. v % More \in 0 .. More - 1
        BY SignLimits, Divide
      <4> QED
        BY <4>1, SignLimits
    <3> DEFINE x == More + (v % More)
    <3>2. <<x>> \in Seq(Byte)
      BY <3>1
    <3> HIDE DEF x
    <3>3. <<x>> \o rest \in Seq(Byte)
      BY <3>2, ConcatProperties
    <3> QED
      BY <2>2, <3>3 DEF x
  <2> QED
    BY <2>1, <2>2
<1> HIDE DEF Group, U
<1>2. \A v \in Nat : v \div More \in Nat
  BY SignLimits, Divide
<1>3. step \in [Nat \X [Nat -> U] -> U]
  BY <1>1, <1>2
<1>4. \A v \in Nat : \A f, g \in [Nat -> U] :
        (\A k \in Nat : order[k] < order[v] => f[k] = g[k])
          => step[<<v, f>>] = step[<<v, g>>]
  <2> SUFFICES ASSUME NEW v \in Nat, NEW f \in [Nat -> U], NEW g \in [Nat -> U],
                      \A k \in Nat : order[k] < order[v] => f[k] = g[k]
               PROVE  step[<<v, f>>] = step[<<v, g>>]
    BY Zenon
  <2>1. step[<<v, f>>] = Group(v, f[v \div More]) /\ step[<<v, g>>] = Group(v, g[v \div More])
    OBVIOUS
  <2>2. CASE v < More
    BY <2>1, <2>2 DEF Group
  <2>3. CASE ~(v < More)
    <3>1. v \div More \in Nat /\ v \div More < v
      BY <2>3, Shift
    <3> QED
      BY <2>1, <3>1
  <2> QED
    BY <2>2, <2>3
<1>5. U # {}
  <2>1. <<>> \in Seq(Byte)
    OBVIOUS
  <2> QED
    BY <2>1 DEF U
<1>11. order \in [Nat -> Nat]
  OBVIOUS
<1> HIDE DEF step, order
<1>12. Descends(Nat, U, order, step)
  BY <1>3, <1>4, <1>5, <1>11, Zenon DEF Descends
<1>6. PICK h \in [Nat -> U] : \A v \in Nat : h[v] = step[<<v, h>>]
  BY <1>12, RecursiveFunction
<1>7. h = [v \in Nat |-> Group(v, h[v \div More])]
  BY <1>6 DEF step
<1> DEFINE w == write_unsigned_integer
<1>8. w = [v \in Nat |-> Group(v, w[v \div More])]
  BY <1>7 DEF write_unsigned_integer, Group
<1> HIDE DEF w
<1>9. \A v \in Nat : w[v] \in U
  <2> DEFINE S == {v \in Nat : w[v] \in U}
  <2>1. ASSUME NEW v \in Nat, \A k \in Nat : k < v => k \in S
        PROVE  v \in S
    <3>1. w[v] = Group(v, w[v \div More])
      BY <1>8
    <3>2. CASE v < More
      <4>1. Group(v, w[v \div More]) = Group(v, <<>>) /\ <<>> \in U
        BY <3>2 DEF Group, U
      <4> QED
        BY <1>1, <3>1, <4>1
    <3>3. CASE ~(v < More)
      <4>1. v \div More \in Nat /\ v \div More < v
        BY <3>3, Shift
      <4> QED
        BY <1>1, <2>1, <3>1, <4>1
    <3> QED
      BY <3>2, <3>3
  <2> HIDE DEF S
  <2>2. \A v \in Nat : v \in S
    BY <2>1, StrongInduction
  <2> QED
    BY <2>2 DEF S
<1>10. w \in [Nat -> U]
  BY <1>8, <1>9
<1> QED
  BY <1>8, <1>10 DEF w, U, Group

------------------------------------------------------------------------------
(* Masking.                                                                 *)

\* Xor works from the lowest bit up.
LEMMA XorSteps ==
  /\ Xor \in [Nat -> [Nat -> Nat]]
  /\ \A a, b \in Nat : Xor[a][b] = IF a = 0 THEN b ELSE ((a + b) % 2) + 2 * Xor[a \div 2][b \div 2]
<1> DEFINE U == [Nat -> Nat]
           Bits(a, g) == [b \in Nat |-> IF a = 0 THEN b ELSE ((a + b) % 2) + 2 * g[b \div 2]]
           step == [p \in Nat \X [Nat -> U] |-> Bits(p[1], p[2][p[1] \div 2])]
           order == [a \in Nat |-> a]
<1>1. ASSUME NEW a \in Nat, NEW g \in U
      PROVE  Bits(a, g) \in U
  <2>1. ASSUME NEW b \in Nat
        PROVE  (IF a = 0 THEN b ELSE ((a + b) % 2) + 2 * g[b \div 2]) \in Nat
    <3>1. b \div 2 \in Nat /\ (a + b) % 2 \in Nat
      OBVIOUS
    <3>2. g[b \div 2] \in Nat
      BY <3>1
    <3> QED
      BY <3>1, <3>2
  <2> QED
    BY <2>1
<1> HIDE DEF Bits, U
<1>2. \A a \in Nat : a \div 2 \in Nat /\ (a # 0 => a \div 2 < a)
  OBVIOUS
<1>3. step \in [Nat \X [Nat -> U] -> U]
  BY <1>1, <1>2
<1>4. \A a \in Nat : \A f, g \in [Nat -> U] :
        (\A k \in Nat : order[k] < order[a] => f[k] = g[k])
          => step[<<a, f>>] = step[<<a, g>>]
  <2> SUFFICES ASSUME NEW a \in Nat, NEW f \in [Nat -> U], NEW g \in [Nat -> U],
                      \A k \in Nat : order[k] < order[a] => f[k] = g[k]
               PROVE  step[<<a, f>>] = step[<<a, g>>]
    BY Zenon
  <2>1. step[<<a, f>>] = Bits(a, f[a \div 2]) /\ step[<<a, g>>] = Bits(a, g[a \div 2])
    OBVIOUS
  <2>2. CASE a = 0
    BY <2>1, <2>2 DEF Bits
  <2>3. CASE a # 0
    BY <1>2, <2>1, <2>3
  <2> QED
    BY <2>2, <2>3
<1>5. U # {}
  <2>1. [b \in Nat |-> b] \in [Nat -> Nat]
    OBVIOUS
  <2> QED
    BY <2>1 DEF U
<1>6. order \in [Nat -> Nat]
  OBVIOUS
<1> HIDE DEF step, order
<1>7. Descends(Nat, U, order, step)
  BY <1>3, <1>4, <1>5, <1>6, Zenon DEF Descends
<1>8. PICK h \in [Nat -> U] : \A a \in Nat : h[a] = step[<<a, h>>]
  BY <1>7, RecursiveFunction
<1>9. h = [a \in Nat |-> Bits(a, h[a \div 2])]
  BY <1>8 DEF step
<1> DEFINE x == Xor
<1>10. x = [a \in Nat |-> Bits(a, x[a \div 2])]
  BY <1>9 DEF Xor, Bits
<1> HIDE DEF x
<1>11. \A a \in Nat : x[a] \in U
  <2> DEFINE S == {a \in Nat : x[a] \in U}
  <2>1. ASSUME NEW a \in Nat, \A k \in Nat : k < a => k \in S
        PROVE  a \in S
    <3>1. x[a] = Bits(a, x[a \div 2])
      BY <1>10
    <3>2. CASE a = 0
      <4>1. PICK g : g \in U
        BY <1>5
      <4>2. Bits(a, x[a \div 2]) = Bits(a, g)
        BY <3>2 DEF Bits
      <4> QED
        BY <1>1, <3>1, <4>1, <4>2
    <3>3. CASE a # 0
      BY <1>1, <1>2, <2>1, <3>1, <3>3
    <3> QED
      BY <3>2, <3>3
  <2> HIDE DEF S
  <2>2. \A a \in Nat : a \in S
    BY <2>1, StrongInduction
  <2> QED
    BY <2>2 DEF S
<1>12. x \in [Nat -> U]
  BY <1>10, <1>11
<1>13. \A a, b \in Nat : x[a][b] = IF a = 0 THEN b ELSE ((a + b) % 2) + 2 * x[a \div 2][b \div 2]
  <2>1. \A a \in Nat : x[a] = Bits(a, x[a \div 2])
    BY <1>10
  <2> QED
    BY <2>1 DEF Bits
<1> QED
  BY <1>12, <1>13 DEF x, U

\* The halves of two numbers, and the last bits.
LEMMA XorHalves ==
  ASSUME NEW a \in Nat, NEW b \in Nat
  PROVE  /\ a \div 2 \in Nat /\ b \div 2 \in Nat
         /\ Xor[a][b] \in Nat /\ Xor[a \div 2][b \div 2] \in Nat
         /\ Xor[a][b] = ((a + b) % 2) + 2 * Xor[a \div 2][b \div 2]
<1>1. a \div 2 \in Nat /\ b \div 2 \in Nat /\ (a = 0 => a \div 2 = 0)
  OBVIOUS
<1>2. Xor[a][b] \in Nat /\ Xor[a \div 2][b \div 2] \in Nat
  BY <1>1, XorSteps
<1>3. CASE a = 0
  <2>1. Xor[a][b] = b /\ Xor[a \div 2][b \div 2] = b \div 2
    BY <1>1, <1>3, XorSteps
  <2>2. b = ((0 + b) % 2) + 2 * (b \div 2)
    OBVIOUS
  <2> QED
    BY <1>1, <1>2, <1>3, <2>1, <2>2
<1>4. CASE a # 0
  BY <1>1, <1>2, <1>4, XorSteps
<1> QED
  BY <1>3, <1>4

\* A number is its own mask.
LEMMA XorSelf == \A b \in Nat : Xor[b][b] = 0
<1> DEFINE S == {b \in Nat : Xor[b][b] = 0}
<1>1. ASSUME NEW b \in Nat, \A k \in Nat : k < b => k \in S
      PROVE  b \in S
  <2>1. CASE b = 0
    BY <2>1, XorSteps
  <2>2. CASE b # 0
    <3>1. b \div 2 \in Nat /\ b \div 2 < b /\ (b + b) % 2 = 0
      BY <2>2
    <3>2. Xor[b \div 2][b \div 2] = 0
      BY <1>1, <3>1
    <3>3. Xor[b][b] = ((b + b) % 2) + 2 * Xor[b \div 2][b \div 2]
      BY XorHalves
    <3> QED
      BY <3>1, <3>2, <3>3
  <2> QED
    BY <2>1, <2>2
<1> HIDE DEF S
<1>2. \A b \in Nat : b \in S
  BY <1>1, StrongInduction
<1> QED
  BY <1>2 DEF S

\* What is masked twice is what it was.
LEMMA XorBack == \A a, b \in Nat : Xor[Xor[a][b]][b] = a
<1> DEFINE S == {a \in Nat : \A b \in Nat : Xor[Xor[a][b]][b] = a}
<1>1. ASSUME NEW a \in Nat, \A k \in Nat : k < a => k \in S
      PROVE  a \in S
  <2> SUFFICES ASSUME NEW b \in Nat PROVE Xor[Xor[a][b]][b] = a
    OBVIOUS
  <2>1. CASE a = 0
    BY <2>1, XorSteps, XorSelf
  <2>2. CASE a # 0
    <3> DEFINE x == Xor[a][b]
               h == a \div 2
               k == b \div 2
               y == Xor[h][k]
    <3>1. h \in Nat /\ k \in Nat /\ x \in Nat /\ y \in Nat /\ x = ((a + b) % 2) + 2 * y
      BY XorHalves
    <3>2. h < a
      BY <2>2
    <3>3. Xor[y][k] = h
      BY <1>1, <3>1, <3>2
    <3> HIDE DEF x, y
    <3>4. x \div 2 = y /\ (x + b) % 2 = a % 2
      <4>1. (a + b) % 2 \in 0..1
        OBVIOUS
      <4>2. x \div 2 = y
        BY <3>1, <4>1
      <4>3. (x + b) % 2 = a % 2
        BY <3>1, <4>1
      <4> QED
        BY <4>2, <4>3
    <3>5. Xor[x][b] = ((x + b) % 2) + 2 * Xor[x \div 2][k]
      BY <3>1, XorHalves
    <3>6. a = (a % 2) + 2 * h
      OBVIOUS
    <3>7. Xor[x][b] = a
      BY <3>3, <3>4, <3>5, <3>6
    <3> QED
      BY <3>7 DEF x
  <2> QED
    BY <2>1, <2>2
<1> HIDE DEF S
<1>2. \A a \in Nat : a \in S
  BY <1>1, StrongInduction
<1> QED
  BY <1>2 DEF S

\* Numbers below c stay below c.
XorWithin(c) == \A a, b \in 0 .. c - 1 : Xor[a][b] \in 0 .. c - 1

\* With one bit more.
LEMMA XorDoubles ==
  ASSUME NEW c \in Nat, XorWithin(c)
  PROVE  XorWithin(2 * c)
<1> SUFFICES ASSUME NEW a \in 0 .. (2 * c) - 1, NEW b \in 0 .. (2 * c) - 1
             PROVE  Xor[a][b] \in 0 .. (2 * c) - 1
  BY DEF XorWithin
<1>1. a \div 2 \in 0 .. c - 1 /\ b \div 2 \in 0 .. c - 1
  OBVIOUS
<1>2. Xor[a \div 2][b \div 2] \in 0 .. c - 1
  BY <1>1 DEF XorWithin
<1>3. (a + b) % 2 \in 0..1
  OBVIOUS
<1>4. Xor[a][b] = ((a + b) % 2) + 2 * Xor[a \div 2][b \div 2]
  <2>1. a \in Nat /\ b \in Nat
    OBVIOUS
  <2> QED
    BY <2>1, XorHalves
<1> QED
  BY <1>2, <1>3, <1>4

\* A byte masked with a byte is a byte.
LEMMA XorByte == \A a, b \in Byte : Xor[a][b] \in Byte
<1>1. XorWithin(1)
  <2>1. Xor[0][0] = 0
    BY XorSelf
  <2> QED
    BY <2>1 DEF XorWithin
<1>2. XorWithin(2) /\ XorWithin(4) /\ XorWithin(8) /\ XorWithin(16)
  <2>1. XorWithin(2 * 1)
    BY <1>1, XorDoubles
  <2>2. XorWithin(2 * 2)
    BY <2>1, XorDoubles
  <2>3. XorWithin(2 * 4)
    BY <2>2, XorDoubles
  <2>4. XorWithin(2 * 8)
    BY <2>3, XorDoubles
  <2> QED
    BY <2>1, <2>2, <2>3, <2>4
<1>3. XorWithin(32) /\ XorWithin(64) /\ XorWithin(128) /\ XorWithin(256)
  <2>1. XorWithin(2 * 16)
    BY <1>2, XorDoubles
  <2>2. XorWithin(2 * 32)
    BY <2>1, XorDoubles
  <2>3. XorWithin(2 * 64)
    BY <2>2, XorDoubles
  <2>4. XorWithin(2 * 128)
    BY <2>3, XorDoubles
  <2> QED
    BY <2>1, <2>2, <2>3, <2>4
<1>4. XorWithin(4 * Sign)
  BY <1>2, <1>3, SignAssumption DEF SignAssumption
<1> QED
  BY <1>4, SignLimits DEF XorWithin

\* The payload of a frame comes back when it is unmasked.
LEMMA MaskBack ==
  ASSUME NEW s \in Seq(Byte), NEW k \in [1..4 -> Byte]
  PROVE  /\ Masked(s, k) \in Seq(Byte) /\ Len(Masked(s, k)) = Len(s)
         /\ Masked(Masked(s, k), k) = s
<1> DEFINE n == Len(s)
           at(i) == ((i - 1) % 4) + 1
           m == Masked(s, k)
<1>1. n \in Nat /\ DOMAIN s = 1..n /\ \A i \in 1..n : s[i] \in Byte
  BY LenProperties, ElementOfSeq
<1>2. \A i \in 1..n : k[at(i)] \in Byte
  <2>1. \A i \in 1..n : at(i) \in 1..4
    BY <1>1
  <2> QED
    BY <2>1
<1> HIDE DEF at
<1>3. m = [i \in 1..n |-> Xor[s[i]][k[at(i)]]]
  BY <1>1 DEF Masked, at
<1>4. m \in [1..n -> Byte]
  BY <1>1, <1>2, <1>3, XorByte
<1> HIDE DEF m
<1>5. m \in Seq(Byte) /\ Len(m) = n /\ DOMAIN m = 1..n
  BY <1>1, <1>4
<1>6. Masked(m, k) = [i \in 1..n |-> Xor[m[i]][k[at(i)]]]
  BY <1>5 DEF Masked, at
<1>7. \A i \in 1..n : Xor[m[i]][k[at(i)]] = s[i]
  <2>1. \A b \in Byte : b \in Nat
    BY SignLimits
  <2> QED
    BY <1>1, <1>2, <1>3, <2>1, XorBack
<1>8. Masked(m, k) = [i \in 1..n |-> s[i]]
  BY <1>6, <1>7
<1>9. [i \in 1..n |-> s[i]] = s
  BY <1>1
<1> QED
  BY <1>5, <1>8, <1>9 DEF m

------------------------------------------------------------------------------
(* Reading integers.                                                        *)

\* What is read, and what follows.
Read == [ok : BOOLEAN, value : Int, rest : Seq(Byte)]

\* A sequence without its first element.
LEMMA TailIsShorter ==
  ASSUME NEW T, NEW s \in Seq(T), s # <<>>
  PROVE  /\ Head(s) \in T /\ Tail(s) \in Seq(T)
         /\ Len(Tail(s)) \in Nat /\ Len(Tail(s)) < Len(s)
<1>1. Head(s) \in T /\ Tail(s) \in Seq(T) /\ Len(Tail(s)) = Len(s) - 1 /\ Len(s) \in Nat
  OBVIOUS
<1>2. Len(Tail(s)) \in Nat
  BY <1>1, LenProperties
<1> QED
  BY <1>1, <1>2

\* The groups of an integer are read from the first on.
LEMMA ReadGroups ==
  /\ read_groups \in [Seq(Byte) -> Read]
  /\ \A s \in Seq(Byte) : read_groups[s] =
       IF s = <<>> THEN [ok |-> FALSE, value |-> 0, rest |-> s]
       ELSE IF Head(s) < More THEN [ok |-> TRUE, value |-> Head(s), rest |-> Tail(s)]
       ELSE [ok    |-> read_groups[Tail(s)].ok,
             value |-> (Head(s) % More) + More * read_groups[Tail(s)].value,
             rest  |-> read_groups[Tail(s)].rest]
<1> DEFINE U == Read
           B == Seq(Byte)
           Group(s, r) ==
             IF s = <<>> THEN [ok |-> FALSE, value |-> 0, rest |-> s]
             ELSE IF Head(s) < More THEN [ok |-> TRUE, value |-> Head(s), rest |-> Tail(s)]
             ELSE [ok |-> r.ok, value |-> (Head(s) % More) + More * r.value, rest |-> r.rest]
           none == [ok |-> FALSE, value |-> 0, rest |-> <<>>]
           next(s) == IF s = <<>> THEN s ELSE Tail(s)
           step == [p \in B \X [B -> U] |-> Group(p[1], p[2][next(p[1])])]
           order == [s \in B |-> Len(s)]
<1>1. ASSUME NEW s \in B, NEW r \in U
      PROVE  Group(s, r) \in U
  <2>1. CASE s = <<>>
    BY <2>1 DEF Read
  <2>2. CASE s # <<>> /\ Head(s) < More
    <3>1. Head(s) \in Int /\ Tail(s) \in B
      BY <2>2, TailIsShorter, SignLimits
    <3> QED
      BY <2>2, <3>1 DEF Read
  <2>3. CASE s # <<>> /\ ~(Head(s) < More)
    <3>1. Head(s) \in Nat
      BY <2>3, TailIsShorter, SignLimits
    <3>2. Head(s) % More \in Int /\ More \in Int
      <4>1. Head(s) % More \in 0 .. More - 1
        BY <3>1, SignLimits, Divide
      <4> QED
        BY <4>1, SignLimits
    <3>3. r.ok \in BOOLEAN /\ r.value \in Int /\ r.rest \in B
      BY DEF Read
    <3>4. (Head(s) % More) + More * r.value \in Int
      BY <3>2, <3>3
    <3> QED
      BY <2>3, <3>3, <3>4 DEF Read
  <2> QED
    BY <2>1, <2>2, <2>3
<1>2. \A s \in B : next(s) \in B /\ (s # <<>> => next(s) = Tail(s) /\ Len(next(s)) < Len(s))
  BY TailIsShorter
<1>3. none \in U
  BY DEF Read
<1>4. order \in [B -> Nat] /\ \A s \in B : order[s] = Len(s)
  BY LenProperties
<1>5. ASSUME NEW s \in B, NEW r \in U, NEW q \in U, s # <<>> => r = q
      PROVE  Group(s, r) = Group(s, q)
  BY <1>5
<1> HIDE DEF Group, U, B, next, none, order
<1>6. step \in [B \X [B -> U] -> U]
  BY <1>1, <1>2
<1>7. \A s \in B : \A f, g \in [B -> U] :
        (\A k \in B : order[k] < order[s] => f[k] = g[k])
          => step[<<s, f>>] = step[<<s, g>>]
  <2> SUFFICES ASSUME NEW s \in B, NEW f \in [B -> U], NEW g \in [B -> U],
                      \A k \in B : order[k] < order[s] => f[k] = g[k]
               PROVE  step[<<s, f>>] = step[<<s, g>>]
    BY Zenon
  <2>1. step[<<s, f>>] = Group(s, f[next(s)]) /\ step[<<s, g>>] = Group(s, g[next(s)])
    OBVIOUS
  <2>2. next(s) \in B /\ (s # <<>> => f[next(s)] = g[next(s)])
    BY <1>2, <1>4
  <2>3. f[next(s)] \in U /\ g[next(s)] \in U
    BY <2>2
  <2> HIDE DEF step
  <2> QED
    BY <1>5, <2>1, <2>2, <2>3
<1> HIDE DEF step
<1>8. Descends(B, U, order, step)
  BY <1>3, <1>4, <1>6, <1>7, Zenon DEF Descends
<1>9. PICK h \in [B -> U] : \A s \in B : h[s] = step[<<s, h>>]
  BY <1>8, RecursiveFunction
<1>10. \A s \in B : h[s] = Group(s, h[next(s)])
  BY <1>9 DEF step
<1>11. ASSUME NEW f, NEW s \in B
       PROVE  Group(s, f[next(s)]) =
             IF s = <<>> THEN [ok |-> FALSE, value |-> 0, rest |-> s]
             ELSE IF Head(s) < More THEN [ok |-> TRUE, value |-> Head(s), rest |-> Tail(s)]
             ELSE LET higher == f[Tail(s)]
                  IN  [ok    |-> higher.ok,
                       value |-> (Head(s) % More) + More * higher.value,
                       rest  |-> higher.rest]
  BY DEF Group, next
<1>12. h = [s \in B |->
             IF s = <<>> THEN [ok |-> FALSE, value |-> 0, rest |-> s]
             ELSE IF Head(s) < More THEN [ok |-> TRUE, value |-> Head(s), rest |-> Tail(s)]
             ELSE LET higher == h[Tail(s)]
                  IN  [ok    |-> higher.ok,
                       value |-> (Head(s) % More) + More * higher.value,
                       rest  |-> higher.rest]]
  BY <1>10, <1>11
<1> DEFINE r == read_groups
<1>13. r = [s \in B |->
             IF s = <<>> THEN [ok |-> FALSE, value |-> 0, rest |-> s]
             ELSE IF Head(s) < More THEN [ok |-> TRUE, value |-> Head(s), rest |-> Tail(s)]
             ELSE LET higher == r[Tail(s)]
                  IN  [ok    |-> higher.ok,
                       value |-> (Head(s) % More) + More * higher.value,
                       rest  |-> higher.rest]]
  BY <1>12 DEF read_groups, B
<1> HIDE DEF r
<1>14. r = [s \in B |-> Group(s, r[next(s)])]
  BY <1>11, <1>13
<1>15. \A s \in B : r[s] \in U
  <2> DEFINE S == {n \in Nat : \A s \in B : Len(s) = n => r[s] \in U}
  <2>1. ASSUME NEW n \in Nat, \A k \in Nat : k < n => k \in S
        PROVE  n \in S
    <3> SUFFICES ASSUME NEW s \in B, Len(s) = n PROVE r[s] \in U
      OBVIOUS
    <3>1. r[s] = Group(s, r[next(s)])
      BY <1>14
    <3>2. CASE s = <<>>
      <4>1. Group(s, r[next(s)]) = Group(s, none)
        BY <3>2 DEF Group
      <4> QED
        BY <1>1, <1>3, <3>1, <4>1
    <3>3. CASE s # <<>>
      <4>1. next(s) \in B /\ Len(next(s)) \in Nat /\ Len(next(s)) < n
        <5>1. next(s) \in B /\ Len(next(s)) < n
          BY <1>2, <3>3
        <5> QED
          BY <5>1, LenProperties DEF B
      <4>2. r[next(s)] \in U
        BY <2>1, <4>1
      <4> QED
        BY <1>1, <3>1, <4>2
    <3> QED
      BY <3>2, <3>3
  <2> HIDE DEF S
  <2>2. \A n \in Nat : n \in S
    BY <2>1, StrongInduction
  <2>3. \A s \in B : Len(s) \in Nat
    BY LenProperties DEF B
  <2> QED
    BY <2>2, <2>3 DEF S
<1>16. r \in [B -> U]
  BY <1>14, <1>15
<1>17. \A s \in B : r[s] = Group(s, r[next(s)])
  BY <1>14
<1> QED
  BY <1>16, <1>17 DEF r, U, B, Group, next

\* What is left is not longer than what was there.
LEMMA ReadGroupsRest == \A s \in Seq(Byte) : Len(read_groups[s].rest) <= Len(s)
<1> DEFINE B == Seq(Byte)
           S == {n \in Nat : \A s \in B : Len(s) = n => Len(read_groups[s].rest) <= n}
<1>1. ASSUME NEW n \in Nat, \A k \in Nat : k < n => k \in S
      PROVE  n \in S
  <2> SUFFICES ASSUME NEW s \in B, Len(s) = n PROVE Len(read_groups[s].rest) <= n
    OBVIOUS
  <2>1. CASE s = <<>>
    <3>1. read_groups[s] = [ok |-> FALSE, value |-> 0, rest |-> s]
      BY <2>1, ReadGroups
    <3>2. read_groups[s].rest = s
      BY <3>1
    <3> QED
      BY <3>2
  <2>2. CASE s # <<>>
    <3>1. Tail(s) \in B /\ Len(Tail(s)) \in Nat /\ Len(Tail(s)) < n
      BY <2>2, TailIsShorter
    <3>2. Len(read_groups[Tail(s)].rest) <= Len(Tail(s))
      BY <1>1, <3>1
    <3>3. read_groups[Tail(s)].rest \in Seq(Byte)
      BY <3>1, ReadGroups DEF Read
    <3>4. read_groups[s].rest = Tail(s) \/ read_groups[s].rest = read_groups[Tail(s)].rest
      BY <2>2, ReadGroups
    <3>5. Len(read_groups[Tail(s)].rest) \in Nat
      BY <3>3, LenProperties
    <3> QED
      BY <3>1, <3>2, <3>4, <3>5
  <2> QED
    BY <2>1, <2>2
<1> HIDE DEF S
<1>2. \A n \in Nat : n \in S
  BY <1>1, StrongInduction
<1>3. \A s \in B : Len(s) \in Nat
  BY LenProperties
<1> QED
  BY <1>2, <1>3 DEF S

\* Anything can be read, and what is left is shorter.
LEMMA ReadInt ==
  ASSUME NEW s \in Seq(Byte)
  PROVE  /\ read_int(s) \in Read
         /\ Len(read_int(s).rest) <= Len(s)
         /\ read_int(s).ok => Len(read_int(s).rest) < Len(s)
         /\ s = <<>> => ~read_int(s).ok
<1>1. CASE s = <<>>
  <2>1. read_int(s) = [ok |-> FALSE, value |-> 0, rest |-> s]
    BY <1>1 DEF read_int
  <2> QED
    BY <2>1 DEF Read
<1>2. CASE s # <<>>
  <2> DEFINE higher == IF Head(s) < More THEN [ok |-> TRUE, value |-> 0, rest |-> Tail(s)]
                                         ELSE read_groups[Tail(s)]
             m == (Head(s) % Sign) + Sign * higher.value
  <2>1. read_int(s) =
          [ok    |-> higher.ok,
           value |-> IF (Head(s) \div Sign) % 2 = 1 THEN -m ELSE m,
           rest  |-> higher.rest]
    BY <1>2 DEF read_int
  <2>2. /\ Head(s) \in Nat /\ Tail(s) \in Seq(Byte)
        /\ Len(Tail(s)) \in Nat /\ Len(Tail(s)) < Len(s)
    BY <1>2, TailIsShorter, SignLimits
  <2>3. higher \in Read /\ Len(higher.rest) <= Len(Tail(s))
    <3>1. CASE Head(s) < More
      BY <2>2, <3>1 DEF Read
    <3>2. CASE ~(Head(s) < More)
      BY <2>2, <3>2, ReadGroups, ReadGroupsRest
    <3> QED
      BY <3>1, <3>2
  <2> HIDE DEF higher
  <2>4. higher.ok \in BOOLEAN /\ higher.value \in Int /\ higher.rest \in Seq(Byte)
    BY <2>3 DEF Read
  <2>5. m \in Int
    <3>1. Head(s) % Sign \in 0 .. Sign - 1 /\ Sign \in Nat
      BY <2>2, SignLimits, Divide
    <3> QED
      BY <2>4, <3>1
  <2> HIDE DEF m
  <2>6. read_int(s) \in Read /\ read_int(s).rest = higher.rest
    BY <2>1, <2>4, <2>5 DEF Read
  <2>7. Len(higher.rest) \in Nat /\ Len(s) \in Nat
    BY <2>4, LenProperties
  <2> QED
    BY <1>2, <2>2, <2>3, <2>6, <2>7
<1> QED
  BY <1>1, <1>2

\* An unsigned integer is read as it was written.
LEMMA UnsignedBack ==
  \A v \in Nat : \A rest \in Seq(Byte) :
    read_groups[write_unsigned_integer[v] \o rest] = [ok |-> TRUE, value |-> v, rest |-> rest]
<1> DEFINE B == Seq(Byte)
           w == write_unsigned_integer
           S == {v \in Nat : \A rest \in B :
                   read_groups[w[v] \o rest] = [ok |-> TRUE, value |-> v, rest |-> rest]}
<1>1. ASSUME NEW v \in Nat, \A k \in Nat : k < v => k \in S
      PROVE  v \in S
  <2> SUFFICES ASSUME NEW rest \in B
               PROVE  read_groups[w[v] \o rest] = [ok |-> TRUE, value |-> v, rest |-> rest]
    OBVIOUS
  <2>1. CASE v < More
    <3>1. w[v] = <<v>> /\ v \in Byte
      <4>1. w[v] = <<v>>
        BY <2>1, WriteUnsigned
      <4>2. v \in Byte
        BY <2>1, SignLimits
      <4> QED
        BY <4>1, <4>2
    <3> DEFINE s == <<v>> \o rest
    <3>2. s \in B /\ s # <<>> /\ Head(s) = v /\ Tail(s) = rest
      BY <3>1, FirstRead
    <3> HIDE DEF s
    <3>3. read_groups[s] = [ok |-> TRUE, value |-> Head(s), rest |-> Tail(s)]
      BY <2>1, <3>2, ReadGroups
    <3> QED
      BY <3>1, <3>2, <3>3 DEF s
  <2>2. CASE ~(v < More)
    <3> DEFINE q    == v \div More
               x    == More + (v % More)
               more == w[q] \o rest
               s    == <<x>> \o more
    <3>1. q \in Nat /\ q < v /\ More \in Divisors /\ v % More \in 0 .. More - 1
          /\ v = More * q + (v % More)
      BY <2>2, Shift, SignLimits, Divide
    <3>2. x \in Byte /\ ~(x < More)
      BY <3>1, SignLimits
    <3>3. x % More = v % More
      <4>1. (More * 1 + (v % More)) % More = v % More
        BY <3>1, Quotient
      <4>2. More * 1 = More
        BY SignLimits
      <4> QED
        BY <4>1, <4>2
    <3>4. w[q] \in B /\ w[v] = <<x>> \o w[q]
      BY <2>2, <3>1, WriteUnsigned
    <3> HIDE DEF x, q, w
    <3>5. more \in B /\ w[v] \o rest = s
      <4>1. <<x>> \in B
        BY <3>2
      <4>2. more \in B
        BY <3>4, ConcatProperties
      <4>3. (<<x>> \o w[q]) \o rest = <<x>> \o (w[q] \o rest)
        <5> DEFINE a == <<x>>
                   c == w[q]
        <5>1. a \in Seq(Byte) /\ c \in Seq(Byte)
          BY <3>4, <4>1
        <5> HIDE DEF a, c
        <5>2. (a \o c) \o rest = a \o (c \o rest)
          BY <5>1, ConcatAssociative
        <5> QED
          BY <5>2 DEF a, c
      <4> QED
        BY <3>4, <4>2, <4>3
    <3>6. read_groups[more] = [ok |-> TRUE, value |-> q, rest |-> rest]
      BY <1>1, <3>1
    <3> HIDE DEF more
    <3>7. s \in B /\ s # <<>> /\ Head(s) = x /\ Tail(s) = more
      BY <3>2, <3>5, FirstRead
    <3> HIDE DEF s
    <3>8. read_groups[s] = [ok    |-> read_groups[more].ok,
                            value |-> (x % More) + More * read_groups[more].value,
                            rest  |-> read_groups[more].rest]
      BY <3>2, <3>7, ReadGroups
    <3>9. (x % More) + More * q = v
      BY <3>1, <3>3, SignLimits
    <3>10. read_groups[s] = [ok |-> TRUE, value |-> v, rest |-> rest]
      <4>1. /\ read_groups[more].ok = TRUE /\ read_groups[more].value = q
            /\ read_groups[more].rest = rest
        BY <3>6
      <4>2. read_groups[s] = [ok |-> TRUE, value |-> (x % More) + More * q, rest |-> rest]
        BY <3>8, <4>1
      <4> QED
        BY <3>9, <4>2
    <3> QED
      BY <3>5, <3>10
  <2> QED
    BY <2>1, <2>2
<1> HIDE DEF S
<1>2. \A v \in Nat : v \in S
  BY <1>1, StrongInduction
<1> QED
  BY <1>2 DEF S

\* A small unsigned integer, which has no sign bit, is read as a signed one.
LEMMA SmallBack ==
  ASSUME NEW v \in 0 .. Sign - 1, NEW rest \in Seq(Byte)
  PROVE  /\ write_unsigned_integer[v] = <<v>> /\ v \in Byte
         /\ read_int(<<v>> \o rest) = [ok |-> TRUE, value |-> v, rest |-> rest]
<1>1. v \in Byte /\ v \in Nat /\ v < More /\ Sign \in Divisors
  BY SignLimits
<1>2. write_unsigned_integer[v] = <<v>>
  BY <1>1, WriteUnsigned
<1> DEFINE s == <<v>> \o rest
<1>3. s \in Seq(Byte) /\ s # <<>> /\ Head(s) = v /\ Tail(s) = rest
  BY <1>1, FirstRead
<1>4. v % Sign = v /\ v \div Sign = 0
  <2>1. (Sign * 0 + v) \div Sign = 0 /\ (Sign * 0 + v) % Sign = v
    BY <1>1, Quotient
  <2>2. Sign * 0 + v = v
    BY <1>1, SignLimits
  <2> QED
    BY <2>1, <2>2
<1> HIDE DEF s
<1>5. read_int(s) = [ok    |-> TRUE,
                     value |-> IF (v \div Sign) % 2 = 1 THEN -((v % Sign) + Sign * 0)
                               ELSE (v % Sign) + Sign * 0,
                     rest  |-> rest]
  BY <1>1, <1>3 DEF read_int
<1>6. (v % Sign) + Sign * 0 = v /\ (v \div Sign) % 2 # 1
  BY <1>1, <1>4, SignLimits
<1> QED
  BY <1>1, <1>2, <1>5, <1>6 DEF s

\* The first byte of a signed integer of which m is the magnitude.
LEMMA FirstGroup ==
  ASSUME NEW m \in Nat, NEW sign \in 0..1, NEW more \in 0..1
  PROVE  LET x == (more * More) + (sign * Sign) + (m % Sign)
         IN  /\ x \in Byte /\ x % Sign = m % Sign /\ (x \div Sign) % 2 = sign
             /\ x < More <=> more = 0
<1> DEFINE r == m % Sign
           q == 2 * more + sign
           x == (more * More) + (sign * Sign) + r
<1>1. r \in 0 .. Sign - 1 /\ Sign \in Divisors /\ q \in Nat
  <2>1. r \in 0 .. Sign - 1
    BY SignLimits, Divide
  <2> QED
    BY <2>1, SignLimits
<1>2. x = Sign * q + r
  <2>1. CASE more = 0 /\ sign = 0
    BY <1>1, <2>1, SignLimits
  <2>2. CASE more = 0 /\ sign = 1
    BY <1>1, <2>2, SignLimits
  <2>3. CASE more = 1 /\ sign = 0
    BY <1>1, <2>3, SignLimits
  <2>4. CASE more = 1 /\ sign = 1
    BY <1>1, <2>4, SignLimits
  <2> QED
    BY <2>1, <2>2, <2>3, <2>4
<1>3. x \in Byte /\ (x < More <=> more = 0)
  <2> HIDE DEF r
  <2>1. CASE more = 0 /\ sign = 0
    BY <1>1, <2>1, SignLimits
  <2>2. CASE more = 0 /\ sign = 1
    BY <1>1, <2>2, SignLimits
  <2>3. CASE more = 1 /\ sign = 0
    BY <1>1, <2>3, SignLimits
  <2>4. CASE more = 1 /\ sign = 1
    BY <1>1, <2>4, SignLimits
  <2> QED
    BY <2>1, <2>2, <2>3, <2>4
<1>4. x \div Sign = q /\ x % Sign = r
  <2> HIDE DEF x, q, r
  <2>1. (Sign * q + r) \div Sign = q /\ (Sign * q + r) % Sign = r
    BY <1>1, Quotient
  <2> QED
    BY <1>2, <2>1
<1>5. q % 2 = sign
  OBVIOUS
<1> HIDE DEF x, q, r
<1>6. /\ x \in Byte /\ x % Sign = r /\ (x \div Sign) % 2 = sign
      /\ x < More <=> more = 0
  BY <1>3, <1>4, <1>5
<1> QED
  BY <1>6 DEF x, r

\* A signed integer is read as it was written.
LEMMA SignedBack ==
  ASSUME NEW v \in Int, NEW rest \in Seq(Byte)
  PROVE  /\ write_signed_integer(v) \in Seq(Byte)
         /\ read_int(write_signed_integer(v) \o rest) = [ok |-> TRUE, value |-> v, rest |-> rest]
<1> DEFINE m     == IF v < 0 THEN -v ELSE v
           sign  == IF v < 0 THEN 1 ELSE 0
           first == (IF v < 0 THEN Sign ELSE 0) + (m % Sign)
           w     == write_signed_integer(v)
<1>1. m \in Nat /\ sign \in 0..1 /\ v = IF sign = 1 THEN -m ELSE m
  OBVIOUS
<1>2. first = (sign * Sign) + (m % Sign)
  <2>1. m % Sign \in 0 .. Sign - 1
    BY <1>1, SignLimits, Divide
  <2>2. (IF v < 0 THEN Sign ELSE 0) = sign * Sign
    BY SignLimits
  <2> QED
    BY <2>2
<1>3. m = Sign * (m \div Sign) + (m % Sign) /\ m \div Sign \in Nat /\ m % Sign \in 0 .. Sign - 1
  BY <1>1, SignLimits, Divide
<1>4. w = IF m < Sign THEN <<first>> ELSE <<More + first>> \o write_unsigned_integer[m \div Sign]
  BY DEF write_signed_integer
<1> HIDE DEF m, sign, first, w
<1>5. ASSUME NEW x \in Byte, NEW tail \in Seq(Byte), NEW q \in Nat,
             x % Sign = m % Sign, (x \div Sign) % 2 = sign,
             (IF x < More THEN [ok |-> TRUE, value |-> 0, rest |-> tail] ELSE read_groups[tail])
               = [ok |-> TRUE, value |-> q, rest |-> rest],
             m = Sign * q + (m % Sign)
      PROVE  read_int(<<x>> \o tail) = [ok |-> TRUE, value |-> v, rest |-> rest]
  <2> DEFINE s == <<x>> \o tail
             higher == IF x < More THEN [ok |-> TRUE, value |-> 0, rest |-> tail]
                                   ELSE read_groups[tail]
  <2>4. s # <<>> /\ Head(s) = x /\ Tail(s) = tail
    BY FirstRead
  <2>5. higher.ok = TRUE /\ higher.value = q /\ higher.rest = rest
    BY <1>5
  <2> HIDE DEF s
  <2>6. read_int(s) =
          [ok    |-> higher.ok,
           value |-> IF (x \div Sign) % 2 = 1 THEN -((x % Sign) + Sign * higher.value)
                     ELSE (x % Sign) + Sign * higher.value,
           rest  |-> higher.rest]
    BY <2>4 DEF read_int
  <2> HIDE DEF higher
  <2>7. read_int(s) =
          [ok    |-> TRUE,
           value |-> IF sign = 1 THEN -((m % Sign) + Sign * q) ELSE (m % Sign) + Sign * q,
           rest  |-> rest]
    BY <1>5, <2>5, <2>6
  <2>8. (m % Sign) + Sign * q = m
    <3>1. Sign * q \in Nat
      BY SignLimits
    <3> QED
      BY <1>3, <1>5, <3>1
  <2>9. read_int(s) = [ok |-> TRUE, value |-> v, rest |-> rest]
    BY <1>1, <2>7, <2>8
  <2> QED
    BY <2>9 DEF s
<1>6. CASE m < Sign
  <2>1. m \div Sign = 0
    <3>0. m \in 0 .. Sign - 1 /\ Sign \in Divisors
      BY <1>1, <1>6, SignLimits
    <3>1. (Sign * 0 + m) \div Sign = 0
      BY <3>0, Quotient
    <3>2. Sign * 0 + m = m
      BY <1>1, SignLimits
    <3> QED
      BY <3>1, <3>2
  <2>2. first = (0 * More) + (sign * Sign) + (m % Sign)
    <3>1. sign * Sign \in Int /\ m % Sign \in Int /\ More \in Int
      BY <1>1, <1>3, SignLimits
    <3> QED
      BY <1>2, <3>1
  <2>3. first \in Byte /\ first % Sign = m % Sign /\ (first \div Sign) % 2 = sign /\ first < More
    BY <1>1, <2>2, FirstGroup
  <2>4. w = <<first>>
    BY <1>4, <1>6
  <2>5. w \in Seq(Byte)
    BY <2>3, <2>4
  <2>6. w \o rest \in Seq(Byte) /\ w \o rest = <<first>> \o rest
    BY <2>4, <2>5, ConcatProperties
  <2>8. m = Sign * 0 + (m % Sign)
    BY <1>3, <2>1
  <2>9. read_int(<<first>> \o rest) = [ok |-> TRUE, value |-> v, rest |-> rest]
    BY <1>5, <2>3, <2>8
  <2> QED
    BY <2>5, <2>6, <2>9 DEF w
<1>7. CASE ~(m < Sign)
  <2> DEFINE q == m \div Sign
             x == More + first
             u == write_unsigned_integer[q]
  <2>1. x = (1 * More) + (sign * Sign) + (m % Sign)
    <3>1. sign * Sign \in Int /\ m % Sign \in Int /\ More \in Int
      BY <1>1, <1>3, SignLimits
    <3> QED
      BY <1>2, <3>1
  <2>2. x \in Byte /\ x % Sign = m % Sign /\ (x \div Sign) % 2 = sign /\ ~(x < More)
    BY <1>1, <2>1, FirstGroup
  <2>3. u \in Seq(Byte) /\ q \in Nat
    BY <1>3, WriteUnsigned
  <2>4. w = <<x>> \o u
    BY <1>4, <1>7
  <2> HIDE DEF x, u
  <2>5. w \in Seq(Byte) /\ w \o rest \in Seq(Byte) /\ w \o rest = <<x>> \o (u \o rest)
    <3> DEFINE a == <<x>>
    <3>1. a \in Seq(Byte)
      BY <2>2
    <3> HIDE DEF a
    <3>6. u \in Seq(Byte)
      BY <2>3
    <3>2. a \o u \in Seq(Byte) /\ (a \o u) \o rest = a \o (u \o rest)
      <4>1. a \o u \in Seq(Byte)
        BY ONLY <3>1, <3>6, ConcatProperties
      <4>2. (a \o u) \o rest = a \o (u \o rest)
        BY ONLY <3>1, <3>6, rest \in Seq(Byte), ConcatAssociative
      <4> QED
        BY <4>1, <4>2
    <3>3. w = a \o u
      BY <2>4 DEF a
    <3>4. w \in Seq(Byte)
      BY <3>2, <3>3
    <3>5. w \o rest \in Seq(Byte)
      BY <3>4, ConcatProperties
    <3> QED
      BY <3>2, <3>3, <3>4, <3>5 DEF a
  <2> DEFINE tail == u \o rest
  <2>6. tail \in Seq(Byte)
    BY <2>3, ConcatProperties
  <2>7. m = Sign * q + (m % Sign)
    BY <1>3
  <2>8. read_groups[tail] = [ok |-> TRUE, value |-> q, rest |-> rest]
    BY <2>3, UnsignedBack DEF u
  <2> HIDE DEF q, tail
  <2>9. read_int(<<x>> \o tail) = [ok |-> TRUE, value |-> v, rest |-> rest]
    BY <1>5, <2>2, <2>3, <2>6, <2>7, <2>8
  <2> QED
    BY <2>5, <2>9 DEF w, tail
<1> QED
  BY <1>6, <1>7

------------------------------------------------------------------------------
(* Strings.                                                                 *)

\* Two sequences that follow each other can be taken apart again.
LEMMA TakeApart ==
  ASSUME NEW T, NEW a \in Seq(T), NEW b \in Seq(T)
  PROVE  /\ a \o b \in Seq(T) /\ Len(a \o b) = Len(a) + Len(b)
         /\ SubSeq(a \o b, 1, Len(a)) = a
         /\ SubSeq(a \o b, Len(a) + 1, Len(a \o b)) = b
<1> DEFINE c == a \o b
           k == Len(a)
           n == Len(b)
<1>1. /\ c \in Seq(T) /\ Len(c) = k + n /\ k \in Nat /\ n \in Nat
      /\ \A i \in 1 .. k + n : c[i] = IF i <= k THEN a[i] ELSE b[i - k]
  BY ConcatProperties, LenProperties
<1>2. \A i \in 1 .. k + n : c[i] \in T
  BY <1>1, ElementOfSeq
<1> HIDE DEF c
<1>3. SubSeq(c, 1, k) = a
  <2> HIDE DEF k, n
  <2>1. SubSeq(c, 1, k) \in Seq(T) /\ Len(SubSeq(c, 1, k)) = k
        /\ \A i \in 1..k : SubSeq(c, 1, k)[i] = c[i]
    BY <1>1, <1>2
  <2>2. \A i \in 1..k : c[i] = a[i]
    BY <1>1
  <2>3. \A i \in 1 .. Len(SubSeq(c, 1, k)) : SubSeq(c, 1, k)[i] = a[i]
    BY <2>1, <2>2
  <2>4. Len(SubSeq(c, 1, k)) = Len(a)
    BY <2>1 DEF k
  <2> QED
    BY <2>1, <2>3, <2>4, SeqEqual
<1>4. SubSeq(c, k + 1, Len(c)) = b
  <2> HIDE DEF k, n
  <2> DEFINE d == SubSeq(c, k + 1, Len(c))
  <2>1. d \in Seq(T) /\ Len(d) = n /\ \A i \in 1..n : d[i] = c[k + i]
    BY <1>1, <1>2
  <2>2. \A i \in 1..n : c[k + i] = b[i]
    BY <1>1
  <2> HIDE DEF d
  <2>3. \A i \in 1 .. Len(d) : d[i] = b[i]
    BY <2>1, <2>2
  <2>4. Len(d) = Len(b)
    BY <2>1 DEF n
  <2>5. d = b
    BY <2>1, <2>3, <2>4, SeqEqual
  <2> QED
    BY <2>5 DEF d
<1> QED
  BY <1>1, <1>3, <1>4 DEF c

\* What follows a string that is not empty is shorter.
LEMMA ReadString ==
  ASSUME NEW s \in Seq(Byte)
  PROVE  /\ read_string(s).value \in Seq(Byte) /\ read_string(s).rest \in Seq(Byte)
         /\ read_string(s).value # <<>> => Len(read_string(s).rest) < Len(s)
         /\ s = <<>> => read_string(s).value = <<>>
<1> DEFINE length == read_int(s)
           r == length.rest
           n == length.value
           first == SubSeq(r, 1, n)
           last == SubSeq(r, n + 1, Len(r))
<1>1. length \in Read /\ (length.ok => Len(r) < Len(s)) /\ (s = <<>> => ~length.ok)
  BY ReadInt
<1>2. r \in Seq(Byte) /\ Len(r) \in Nat /\ Len(s) \in Nat
  <2>1. r \in Seq(Byte)
    BY <1>1 DEF Read
  <2> QED
    BY <2>1, LenProperties
<1>3. read_string(s) = IF length.ok /\ n \in 0..Len(r) THEN [value |-> first, rest |-> last]
                                                         ELSE [value |-> <<>>, rest |-> r]
  BY DEF read_string
<1> HIDE DEF length, r, n
<1>4. CASE length.ok /\ n \in 0..Len(r)
  <2>1. first \in Seq(Byte) /\ last \in Seq(Byte) /\ Len(last) <= Len(r)
    <3>1. \A i \in 1..Len(r) : r[i] \in Byte
      BY <1>2, ElementOfSeq
    <3>2. first \in Seq(Byte)
      BY <1>2, <1>4, <3>1
    <3>3. last \in Seq(Byte) /\ Len(last) = Len(r) - n
      BY <1>2, <1>4, <3>1
    <3> QED
      BY <1>2, <1>4, <3>2, <3>3
  <2> HIDE DEF first, last
  <2>2. read_string(s).value = first /\ read_string(s).rest = last
    BY <1>3, <1>4
  <2>3. Len(last) < Len(s)
    <3>1. Len(last) \in Nat
      BY <2>1, LenProperties
    <3> QED
      BY <1>1, <1>2, <1>4, <2>1, <3>1
  <2> QED
    BY <1>1, <1>4, <2>1, <2>2, <2>3
<1>5. CASE ~(length.ok /\ n \in 0..Len(r))
  <2>1. read_string(s).value = <<>> /\ read_string(s).rest = r
    BY <1>3, <1>5
  <2> QED
    BY <1>2, <2>1
<1> QED
  BY <1>4, <1>5

\* The name of a key is read as it was written.
LEMMA StringBack ==
  ASSUME NEW s \in Modifier, NEW rest \in Seq(Byte)
  PROVE  /\ write_string(s) \in Seq(Byte)
         /\ read_string(write_string(s) \o rest) = [value |-> s, rest |-> rest]
<1> DEFINE n == Len(s)
           first == <<n>>
           tail == s \o rest
<1>1. s \in Seq(Byte) /\ n \in 0 .. Sign - 1 /\ rest \in Seq(Byte) /\ n \in Nat
  BY LenProperties DEF Modifier
<1>2. /\ tail \in Seq(Byte) /\ Len(tail) = n + Len(rest) /\ Len(rest) \in Nat
      /\ SubSeq(tail, 1, n) = s /\ SubSeq(tail, n + 1, Len(tail)) = rest
  BY <1>1, TakeApart, LenProperties
<1> HIDE DEF tail
<1>3. /\ write_unsigned_integer[n] = first /\ n \in Byte
      /\ read_int(first \o tail) = [ok |-> TRUE, value |-> n, rest |-> tail]
  <2> HIDE DEF n
  <2> QED
    BY <1>1, <1>2, SmallBack
<1>4. first \in Seq(Byte)
  BY <1>3
<1>5. write_string(s) = first \o s
  BY <1>3 DEF write_string
<1> HIDE DEF first, n
<1>6. first \o s \in Seq(Byte) /\ (first \o s) \o rest = first \o tail
  <2>1. first \o s \in Seq(Byte)
    BY ONLY <1>1, <1>4, ConcatProperties
  <2>2. (first \o s) \o rest = first \o (s \o rest)
    BY ONLY <1>1, <1>4, ConcatAssociative
  <2> QED
    BY <2>1, <2>2 DEF tail
<1> DEFINE whole == first \o tail
<1> HIDE DEF whole
<1>7. read_int(whole).ok = TRUE /\ read_int(whole).value = n /\ read_int(whole).rest = tail
  BY <1>3 DEF whole
<1>8. n \in 0 .. Len(tail)
  BY <1>1, <1>2
<1>9. read_string(whole) = [value |-> SubSeq(tail, 1, n), rest |-> SubSeq(tail, n + 1, Len(tail))]
  BY <1>7, <1>8 DEF read_string
<1> QED
  BY <1>2, <1>5, <1>6, <1>9 DEF whole

\* The modifiers are read one after another.
LEMMA ReadModifiers ==
  /\ Modifiers \in [Seq(Byte) -> SUBSET Seq(Byte)]
  /\ \A s \in Seq(Byte) : Modifiers[s] =
       IF read_string(s).value = <<>> THEN {}
       ELSE {read_string(s).value} \union Modifiers[read_string(s).rest]
<1> DEFINE B == Seq(Byte)
           U == SUBSET B
           value(s) == read_string(s).value
           next(s) == read_string(s).rest
           With(s, m) == IF value(s) = <<>> THEN {} ELSE {value(s)} \union m
           step == [p \in B \X [B -> U] |-> With(p[1], p[2][next(p[1])])]
           order == [s \in B |-> Len(s)]
<1>1. ASSUME NEW s \in B
      PROVE  value(s) \in B /\ next(s) \in B /\ (value(s) # <<>> => Len(next(s)) < Len(s))
  BY ReadString
<1>2. ASSUME NEW s \in B, NEW m \in U
      PROVE  With(s, m) \in U
  BY <1>1
<1>3. {} \in U
  OBVIOUS
<1>4. order \in [B -> Nat] /\ \A s \in B : order[s] = Len(s)
  BY LenProperties
<1>5. ASSUME NEW s \in B, NEW m, NEW q, value(s) # <<>> => m = q
      PROVE  With(s, m) = With(s, q)
  BY <1>5
<1> HIDE DEF With, U, B, next, value, order
<1>6. step \in [B \X [B -> U] -> U]
  BY <1>1, <1>2
<1>7. \A s \in B : \A f, g \in [B -> U] :
        (\A k \in B : order[k] < order[s] => f[k] = g[k])
          => step[<<s, f>>] = step[<<s, g>>]
  <2> SUFFICES ASSUME NEW s \in B, NEW f \in [B -> U], NEW g \in [B -> U],
                      \A k \in B : order[k] < order[s] => f[k] = g[k]
               PROVE  step[<<s, f>>] = step[<<s, g>>]
    BY Zenon
  <2>1. step[<<s, f>>] = With(s, f[next(s)]) /\ step[<<s, g>>] = With(s, g[next(s)])
    OBVIOUS
  <2>2. value(s) # <<>> => f[next(s)] = g[next(s)]
    BY <1>1, <1>4
  <2> HIDE DEF step
  <2> QED
    BY <1>5, <2>1, <2>2
<1> HIDE DEF step
<1>20. U # {}
  BY <1>3
<1>8. Descends(B, U, order, step)
  BY <1>4, <1>6, <1>7, <1>20, Zenon DEF Descends
<1>9. PICK h \in [B -> U] : \A s \in B : h[s] = step[<<s, h>>]
  BY <1>8, RecursiveFunction
<1>10. \A s \in B : h[s] = With(s, h[next(s)])
  BY <1>9 DEF step
<1>11. ASSUME NEW f, NEW s \in B
       PROVE  With(s, f[next(s)]) =
              LET read == read_string(s)
              IN  IF read.value = <<>> THEN {} ELSE {read.value} \union f[read.rest]
  BY DEF With, next, value
<1>12. h = [s \in B |->
             LET read == read_string(s)
             IN  IF read.value = <<>> THEN {} ELSE {read.value} \union h[read.rest]]
  BY <1>10, <1>11
<1> DEFINE m == Modifiers
<1>13. m = [s \in B |->
             LET read == read_string(s)
             IN  IF read.value = <<>> THEN {} ELSE {read.value} \union m[read.rest]]
  BY <1>12 DEF Modifiers, B
<1> HIDE DEF m
<1>14. m = [s \in B |-> With(s, m[next(s)])]
  <2>1. \A s \in B : With(s, m[next(s)]) =
          LET read == read_string(s)
          IN  IF read.value = <<>> THEN {} ELSE {read.value} \union m[read.rest]
    BY <1>11
  <2> QED
    BY <1>13, <2>1, Zenon
<1>15. \A s \in B : m[s] \in U
  <2> DEFINE S == {n \in Nat : \A s \in B : Len(s) = n => m[s] \in U}
  <2>1. ASSUME NEW n \in Nat, \A k \in Nat : k < n => k \in S
        PROVE  n \in S
    <3> SUFFICES ASSUME NEW s \in B, Len(s) = n PROVE m[s] \in U
      OBVIOUS
    <3>1. m[s] = With(s, m[next(s)])
      BY <1>14
    <3>2. CASE value(s) = <<>>
      <4>1. With(s, m[next(s)]) = With(s, {})
        BY <3>2 DEF With
      <4> QED
        BY <1>2, <1>3, <3>1, <4>1
    <3>3. CASE value(s) # <<>>
      <4>1. next(s) \in B /\ Len(next(s)) \in Nat /\ Len(next(s)) < n
        <5>1. next(s) \in B /\ Len(next(s)) < n
          BY <1>1, <3>3
        <5> QED
          BY <5>1, LenProperties DEF B
      <4>2. m[next(s)] \in U
        BY <2>1, <4>1
      <4> QED
        BY <1>2, <3>1, <4>2
    <3> QED
      BY <3>2, <3>3
  <2> HIDE DEF S
  <2>2. \A n \in Nat : n \in S
    BY <2>1, StrongInduction
  <2>3. \A s \in B : Len(s) \in Nat
    BY LenProperties DEF B
  <2> QED
    BY <2>2, <2>3 DEF S
<1>16. m \in [B -> U]
  BY <1>14, <1>15
<1>17. \A s \in B : m[s] = With(s, m[next(s)])
  BY <1>14
<1> QED
  BY <1>16, <1>17 DEF m, U, B, With, next, value

\* The modifiers of a message are read as they were written, until none is
\* left.
Written(q) == [i \in DOMAIN q |-> write_string(q[i])]

\* What the handler reads of the modifiers is the set that was written.
LEMMA ModifiersBack ==
  ASSUME NEW q \in Seq(Modifier)
  PROVE  /\ FlattenSeq(Written(q)) \in Seq(Byte)
         /\ Modifiers[FlattenSeq(Written(q))] = Range(q)
<1> DEFINE n == Len(q)
           w == Written(q)
           left(k) == FlattenSeq(SubSeq(w, k, n))
<1>1. n \in Nat /\ DOMAIN q = 1..n /\ \A i \in 1..n : q[i] \in Modifier
  BY LenProperties, ElementOfSeq
<1>2. \A s \in Modifier : s \in Seq(Byte) /\ s # <<>> /\ write_string(s) \in Seq(Byte)
  <2> SUFFICES ASSUME NEW s \in Modifier
               PROVE  s \in Seq(Byte) /\ s # <<>> /\ write_string(s) \in Seq(Byte)
    OBVIOUS
  <2>1. s \in Seq(Byte) /\ s # <<>>
    BY DEF Modifier
  <2>2. <<>> \in Seq(Byte)
    OBVIOUS
  <2> QED
    BY <2>1, <2>2, StringBack
<1>3. w = [i \in 1..n |-> write_string(q[i])]
  BY <1>1 DEF Written
<1>4. w \in [1..n -> Seq(Byte)] /\ \A i \in 1..n : w[i] = write_string(q[i])
  BY <1>1, <1>2, <1>3
<1> HIDE DEF w, n
<1>5. w \in Seq(Seq(Byte)) /\ Len(w) = n
  BY <1>1, <1>4, FunctionIsSequence
<1>6. ASSUME NEW k \in 1..n
      PROVE  left(k + 1) \in Seq(Byte) /\ left(k) = write_string(q[k]) \o left(k + 1)
  <2>1. k \in 1..Len(w)
    BY <1>5
  <2> QED
    BY <1>4, <1>5, <2>1, FlattenRest
<1>7. left(n + 1) = <<>>
  <2>1. SubSeq(w, n + 1, n) = <<>>
    BY <1>1, <1>5
  <2>2. <<>> \in Seq(Seq(Byte))
    OBVIOUS
  <2> QED
    BY <2>1, <2>2, FlattenType
<1>8. left(1) = FlattenSeq(w)
  BY <1>5, SubSeqFull
<1> HIDE DEF left
<1> DEFINE S == {j \in Nat : j <= n =>
                   /\ left((n - j) + 1) \in Seq(Byte)
                   /\ Modifiers[left((n - j) + 1)] = {q[i] : i \in (n - j) + 1 .. n}}
<1>9. 0 \in S
  <2>1. (n - 0) + 1 = n + 1 /\ (n - 0) + 1 .. n = {}
    BY <1>1
  <2>2. <<>> \in Seq(Byte)
    OBVIOUS
  <2>3. Modifiers[<<>>] = {}
    BY <2>2, ReadString, ReadModifiers
  <2> QED
    BY <1>7, <2>1, <2>2, <2>3
<1>10. ASSUME NEW j \in Nat, j \in S
       PROVE  j + 1 \in S
  <2> SUFFICES ASSUME j + 1 <= n
               PROVE  /\ left((n - (j + 1)) + 1) \in Seq(Byte)
                      /\ Modifiers[left((n - (j + 1)) + 1)] = {q[i] : i \in (n - (j + 1)) + 1 .. n}
    OBVIOUS
  <2> DEFINE k == (n - (j + 1)) + 1
             rest == left(k + 1)
  <2>1. k \in 1..n /\ (n - j) + 1 = k + 1 /\ j <= n
    BY <1>1
  <2>2. Modifiers[rest] = {q[i] : i \in k + 1 .. n}
    BY <1>10, <2>1
  <2> HIDE DEF k
  <2>3. rest \in Seq(Byte) /\ left(k) = write_string(q[k]) \o rest /\ q[k] \in Modifier
    BY <1>1, <1>6, <2>1
  <2> HIDE DEF rest
  <2>4. left(k) \in Seq(Byte)
    BY <1>2, <2>3, ConcatProperties
  <2>5. read_string(left(k)) = [value |-> q[k], rest |-> rest]
    BY <2>3, StringBack
  <2>6. read_string(left(k)).value = q[k] /\ read_string(left(k)).rest = rest
    BY <2>5
  <2>7. Modifiers[left(k)] = {q[k]} \union Modifiers[rest]
    BY <1>2, <2>3, <2>4, <2>6, ReadModifiers
  <2>8. {q[k]} \union {q[i] : i \in k + 1 .. n} = {q[i] : i \in k .. n}
    <3>1. k .. n = {k} \union (k + 1 .. n)
      BY <1>1, <2>1
    <3> QED
      BY <3>1
  <2>9. Modifiers[left(k)] = {q[i] : i \in k .. n}
    BY <2>2, <2>7, <2>8
  <2> QED
    BY <2>4, <2>9 DEF k
<1> HIDE DEF S
<1>11. \A j \in Nat : j \in S
  BY <1>9, <1>10, Induction
<1>12. left(1) \in Seq(Byte) /\ Modifiers[left(1)] = {q[i] : i \in 1..n}
  <2>1. n \in S /\ (n - n) + 1 = 1
    BY <1>1, <1>11
  <2> QED
    BY <1>1, <2>1 DEF S
<1>13. Range(q) = {q[i] : i \in 1..n}
  BY <1>1 DEF Range
<1> QED
  BY <1>8, <1>12, <1>13 DEF w

------------------------------------------------------------------------------
(* Messages.                                                                *)

\* The bytes of every message, taken apart by the handler, are acted on as that
\* message and as no other: the codec loses nothing that the handler looks at.
THEOREM PayloadHandled ==
  ASSUME NEW m \in Message, m # Close
  PROVE  Payload(m) \in Seq(Byte) /\ handle(Payload(m)) = Effect(m)
<1>1. TELEMETRY_QUERY \in 0 .. Sign - 1 /\ TELEMETRY_UPDATE \in 0 .. Sign - 1
  BY SignLimits DEF TELEMETRY_QUERY, TELEMETRY_UPDATE
<1>2. CASE m = Query
  <2> DEFINE t == TELEMETRY_QUERY
  <2>1. Payload(m) = write_unsigned_integer[t]
    BY <1>2 DEF Payload, Query, Close, TELEMETRY_QUERY
  <2>2. <<>> \in Seq(Byte)
    OBVIOUS
  <2> HIDE DEF t
  <2>3. /\ write_unsigned_integer[t] = <<t>> /\ t \in Byte
        /\ read_int(<<t>> \o <<>>) = [ok |-> TRUE, value |-> t, rest |-> <<>>]
    BY <1>1, <2>2, SmallBack DEF t
  <2>4. <<t>> \in Seq(Byte) /\ <<t>> \o <<>> = <<t>>
    BY <2>3
  <2>5. read_int(Payload(m)).value = TELEMETRY_QUERY
    BY <2>1, <2>3, <2>4 DEF t
  <2>6. handle(Payload(m)) = <<Query>>
    BY <2>5 DEF handle, TELEMETRY_QUERY, TELEMETRY_UPDATE
  <2>7. Effect(m) = <<Query>>
    BY <1>2 DEF Effect, Understood, Meant
  <2> QED
    BY <2>1, <2>3, <2>4, <2>6, <2>7
<1>3. CASE m # Query
  <2> DEFINE t == TELEMETRY_UPDATE
             a == <<t>>
             b == write_signed_integer(m.item)
             c == write_signed_integer(m.value)
             d == FlattenSeq(Written(m.modifiers))
             p == Payload(m)
  <2>1. /\ m.item \in Int /\ m.value \in Int /\ m.modifiers \in Seq(Modifier)
        /\ m \in [type : {TELEMETRY_UPDATE}, item : Int, value : Int, modifiers : Seq(Modifier)]
    BY <1>3 DEF Message
  <2>2. <<>> \in Seq(Byte)
    OBVIOUS
  <2>3. d \in Seq(Byte) /\ Modifiers[d] = Range(m.modifiers)
    BY <2>1, ModifiersBack
  <2>4. write_unsigned_integer[t] = a /\ t \in Byte
    <3> HIDE DEF t
    <3> QED
      BY <1>1, <2>2, SmallBack DEF t
  <2>5. a \in Seq(Byte) /\ b \in Seq(Byte) /\ c \in Seq(Byte)
    <3>1. \A v \in Int : write_signed_integer(v) \in Seq(Byte)
      BY <2>2, SignedBack
    <3>2. a \in Seq(Byte)
      BY <2>4
    <3> QED
      BY <2>1, <3>1, <3>2
  <2>6. p = ((a \o b) \o c) \o d
    BY <1>3, <2>4 DEF Payload, Written
  <2> HIDE DEF a, b, c, d, p
  <2>7. c \o d \in Seq(Byte) /\ b \o (c \o d) \in Seq(Byte) /\ a \o (b \o (c \o d)) \in Seq(Byte)
    BY <2>3, <2>5, ConcatProperties
  <2>8. p = a \o (b \o (c \o d))
    <3>1. a \o b \in Seq(Byte)
      BY <2>5, ConcatProperties
    <3>2. ((a \o b) \o c) \o d = (a \o b) \o (c \o d)
      BY <2>3, <2>5, <3>1, ConcatAssociative
    <3> DEFINE e == c \o d
    <3>3. e \in Seq(Byte)
      BY <2>7
    <3>4. ((a \o b) \o c) \o d = (a \o b) \o e
      BY <3>2
    <3> HIDE DEF e
    <3>5. (a \o b) \o e = a \o (b \o e)
      BY <2>5, <3>3, ConcatAssociative
    <3> QED
      BY <2>6, <3>4, <3>5 DEF e
  <2>9. read_int(a \o (b \o (c \o d))) = [ok |-> TRUE, value |-> t, rest |-> b \o (c \o d)]
    <3> DEFINE e == b \o (c \o d)
    <3>1. e \in Seq(Byte)
      BY <2>7
    <3> HIDE DEF e, t
    <3>2. read_int(<<t>> \o e) = [ok |-> TRUE, value |-> t, rest |-> e]
      BY <1>1, <3>1, SmallBack DEF t
    <3> QED
      BY <3>2 DEF a, e
  <2>10. read_int(b \o (c \o d)) = [ok |-> TRUE, value |-> m.item, rest |-> c \o d]
    <3> DEFINE e == c \o d
    <3>1. e \in Seq(Byte)
      BY <2>7
    <3> HIDE DEF e
    <3>2. read_int(b \o e) = [ok |-> TRUE, value |-> m.item, rest |-> e]
      BY <2>1, <3>1, SignedBack DEF b
    <3> QED
      BY <3>2 DEF e
  <2>11. read_int(c \o d) = [ok |-> TRUE, value |-> m.value, rest |-> d]
    BY <2>1, <2>3, SignedBack DEF c
  <2>12. read_int(p).value = TELEMETRY_UPDATE /\ read_int(p).rest = b \o (c \o d)
    BY <2>8, <2>9
  <2>13. read_int(read_int(p).rest).value = m.item /\ read_int(read_int(p).rest).rest = c \o d
    BY <2>10, <2>12
  <2>14. read_int(c \o d).value = m.value /\ read_int(c \o d).rest = d
    BY <2>11
  <2>15. deserialize_value(m.item, c \o d) = Meant(m)
    BY <1>3, <2>3, <2>14 DEF deserialize_value, Meant
  <2>16. CASE m.item \in Commands \union Selections
    <3>1. handle(p) = <<deserialize_value(m.item, c \o d)>>
      BY <2>12, <2>13, <2>16 DEF handle, TELEMETRY_QUERY, TELEMETRY_UPDATE
    <3>2. Effect(m) = <<Meant(m)>>
      BY <2>16 DEF Effect, Understood
    <3> QED
      BY <2>7, <2>8, <2>15, <3>1, <3>2 DEF p
  <2>17. CASE m.item \notin Commands \union Selections
    <3>1. handle(p) = <<>>
      BY <2>12, <2>13, <2>17 DEF handle, TELEMETRY_QUERY, TELEMETRY_UPDATE
    <3>2. Effect(m) = <<>>
      BY <1>3, <2>17 DEF Effect, Understood
    <3> QED
      BY <2>7, <2>8, <3>1, <3>2 DEF p
  <2> QED
    BY <2>16, <2>17
<1> QED
  BY <1>2, <1>3

------------------------------------------------------------------------------
(* Frames.                                                                  *)

\* What a frame has before its mask if its payload has k bytes.
Header(m, k) ==
  <<IF m = Close THEN OPCODE_CLOSE ELSE OPCODE_BINARY>>
    \o (IF k <= More - 3 THEN <<More + k>>
        ELSE <<2 * More - 2, k \div (4 * Sign), k % (4 * Sign)>>)

\* There are two or four bytes.
LEMMA HeaderBytes ==
  ASSUME NEW m, NEW k \in Nat
  PROVE  LET h == Header(m, k)
         IN  /\ h \in Seq(Nat) /\ Len(h) = IF k <= More - 3 THEN 2 ELSE 4
             /\ h[1] = IF m = Close THEN 8 ELSE 2
             /\ k <= More - 3 => h[2] = More + k
             /\ k > More - 3 => h[2] = 2 * More - 2 /\ h[3] = k \div (4 * Sign) /\ h[4] = k % (4 * Sign)
<1> DEFINE op == IF m = Close THEN 8 ELSE 2
           q == k \div (4 * Sign)
           r == k % (4 * Sign)
<1>1. q \in Nat /\ r \in Nat /\ op \in Nat /\ More \in Nat /\ More >= 8
  <2>1. 4 * Sign \in Divisors /\ q \in Nat /\ r \in 0 .. (4 * Sign) - 1
    BY SignLimits, Divide
  <2> QED
    BY <2>1, SignLimits
<1>2. Header(m, k) = <<op>> \o (IF k <= More - 3 THEN <<More + k>> ELSE <<2 * More - 2, q, r>>)
  BY DEF Header, OPCODE_CLOSE, OPCODE_BINARY
<1> HIDE DEF op, q, r
<1>3. CASE k <= More - 3
  <2> DEFINE x == More + k
  <2>1. x \in Nat
    BY <1>1
  <2>2. Header(m, k) = <<op>> \o <<x>>
    BY <1>2, <1>3
  <2> HIDE DEF x
  <2>3. <<op>> \o <<x>> = <<op, x>>
    <3> DEFINE u == <<op>>
               v == <<x>>
               w == <<op, x>>
               c == u \o v
    <3>1. /\ u \in Seq(Nat) /\ Len(u) = 1 /\ u[1] = op
          /\ v \in Seq(Nat) /\ Len(v) = 1 /\ v[1] = x
          /\ w \in Seq(Nat) /\ Len(w) = 2 /\ w[1] = op /\ w[2] = x
      BY <1>1, <2>1
    <3> HIDE DEF u, v, w
    <3>2. /\ c \in Seq(Nat) /\ Len(c) = Len(u) + Len(v)
          /\ \A i \in 1 .. Len(u) + Len(v) : c[i] = IF i <= Len(u) THEN u[i] ELSE v[i - Len(u)]
      BY <3>1, ConcatProperties
    <3> HIDE DEF c
    <3>3. Len(c) = Len(w) /\ \A i \in 1..Len(c) : c[i] = w[i]
      BY <3>1, <3>2
    <3>4. c = w
      BY <3>1, <3>2, <3>3, SeqEqual
    <3> QED
      BY <3>4 DEF c, u, v, w
  <2>4. Header(m, k) = <<op, x>>
    BY <2>2, <2>3
  <2> QED
    BY <1>1, <1>3, <2>1, <2>4 DEF op, x
<1>4. CASE ~(k <= More - 3)
  <2> DEFINE x == 2 * More - 2
  <2>1. x \in Nat
    BY <1>1
  <2>2. Header(m, k) = <<op>> \o <<x, q, r>>
    BY <1>2, <1>4
  <2> HIDE DEF x
  <2>3. <<op>> \o <<x, q, r>> = <<op, x, q, r>>
    <3> DEFINE u == <<op>>
               v == <<x, q, r>>
               w == <<op, x, q, r>>
               c == u \o v
    <3>1. /\ u \in Seq(Nat) /\ Len(u) = 1 /\ u[1] = op
          /\ v \in Seq(Nat) /\ Len(v) = 3 /\ v[1] = x /\ v[2] = q /\ v[3] = r
          /\ w \in Seq(Nat) /\ Len(w) = 4 /\ w[1] = op /\ w[2] = x /\ w[3] = q /\ w[4] = r
      BY <1>1, <2>1
    <3> HIDE DEF u, v, w
    <3>2. /\ c \in Seq(Nat) /\ Len(c) = Len(u) + Len(v)
          /\ \A i \in 1 .. Len(u) + Len(v) : c[i] = IF i <= Len(u) THEN u[i] ELSE v[i - Len(u)]
      BY <3>1, ConcatProperties
    <3> HIDE DEF c
    <3>3. Len(c) = Len(w) /\ \A i \in 1..Len(c) : c[i] = w[i]
      BY <3>1, <3>2
    <3>4. c = w
      BY <3>1, <3>2, <3>3, SeqEqual
    <3> QED
      BY <3>4 DEF c, u, v, w
  <2>4. Header(m, k) = <<op, x, q, r>>
    BY <2>2, <2>3
  <2> QED
    BY <1>1, <1>4, <2>1, <2>4 DEF op, q, r, x
<1> QED
  BY <1>3, <1>4

\* A payload is a sequence of bytes.
LEMMA PayloadType ==
  ASSUME NEW m \in Message
  PROVE  Payload(m) \in Seq(Byte) /\ (m = Close => Payload(m) = <<>>)
<1>1. CASE m = Close
  BY <1>1 DEF Payload
<1>2. CASE m # Close
  BY <1>2, PayloadHandled
<1> QED
  BY <1>1, <1>2

\* What the first bytes of a frame say of its length.
LEMMA HeaderSays ==
  ASSUME NEW k \in Nat, NEW b,
         k <= More - 3 => b[2] = More + k,
         k > More - 3 => b[2] = 2 * More - 2 /\ b[3] = k \div (4 * Sign) /\ b[4] = k % (4 * Sign)
  PROVE  data_length(b) = k /\ header_length(b) = IF k <= More - 3 THEN 6 ELSE 8
<1>1. CASE k <= More - 3
  <2> DEFINE x == More
  <2>1. x \in Divisors /\ k \in 0 .. x - 1 /\ k # x - 2 /\ x * 1 + k = x + k /\ 1 \in Nat
    BY <1>1, SignLimits
  <2> HIDE DEF x
  <2>2. (x * 1 + k) % x = k
    BY <2>1, Quotient
  <2>3. b[2] % More = k /\ k # More - 2
    BY <1>1, <2>1, <2>2 DEF x
  <2> QED
    BY <1>1, <2>3 DEF data_length, header_length
<1>2. CASE ~(k <= More - 3)
  <2> DEFINE x == More
             r == x - 2
             n == 4 * Sign
  <2>1. x \in Divisors /\ r \in 0 .. x - 1 /\ x * 1 + r = 2 * x - 2 /\ 1 \in Nat /\ n \in Divisors
    BY SignLimits
  <2> HIDE DEF x, r
  <2>2. (x * 1 + r) % x = r
    BY <2>1, Quotient
  <2>3. b[2] % More = More - 2
    <3>1. k > More - 3
      BY <1>2, SignLimits
    <3>2. b[2] = 2 * x - 2
      BY <3>1 DEF x
    <3> QED
      BY <2>1, <2>2, <3>2 DEF x, r
  <2>4. b[3] * 4 * Sign + b[4] = k
    <3>1. b[3] = k \div n /\ b[4] = k % n
      BY <1>2, SignLimits
    <3> HIDE DEF n
    <3>2. k \div n \in Nat /\ k % n \in 0 .. n - 1 /\ k = n * (k \div n) + (k % n)
      BY <2>1, Divide
    <3> DEFINE u == k \div n
               v == k % n
    <3>3. u \in Nat /\ v \in Nat /\ k = n * u + v /\ b[3] = u /\ b[4] = v
      BY <2>1, <3>1, <3>2 DEF Divisors
    <3> HIDE DEF u, v
    <3> QED
      BY <3>3, SignAssumption DEF n, SignAssumption
  <2> QED
    BY <1>2, <2>3, <2>4 DEF data_length, header_length
<1> QED
  BY <1>1, <1>2

\* The parts of a frame and what its first bytes say.
LEMMA FrameParts ==
  ASSUME NEW m \in Messages
  PROVE  LET f == Frame[m]
             p == Payload(m)
             h == header_length(f)
         IN  /\ f \in Seq(Byte) /\ p \in Seq(Byte)
             /\ Len(f) \in 6..BufferSize /\ h \in {6, 8} /\ Len(f) = h + Len(p)
             /\ frame_length(f) = Len(f)
             /\ f[1] % 16 = 8 <=> m = Close
             /\ \A i \in 1..4 : f[h - 4 + i] = Mask[i]
             /\ \A i \in 1..Len(p) : f[h + i] = Masked(p, Mask)[i]
<1> DEFINE p == Payload(m)
           k == Len(p)
           a == Header(m, k)
           c == Masked(p, Mask)
           f == a \o Mask \o c
           n == IF k <= More - 3 THEN 2 ELSE 4
<1>1. m \in Message /\ (m = Close => k = 0)
  BY MessagesAssumption, PayloadType DEF MessagesAssumption
<1>2. p \in Seq(Byte) /\ k \in Nat
  <2>1. p \in Seq(Byte)
    BY <1>1, PayloadType
  <2> QED
    BY <2>1, LenProperties
<1>3. Frame[m] = f
  BY DEF Frame, Header
<1>4. Mask \in Seq(Byte) /\ Len(Mask) = 4 /\ Mask \in [1..4 -> Byte]
  BY MaskAssumption, FunctionIsSequence DEF MaskAssumption
<1>5. c \in Seq(Byte) /\ Len(c) = k
  BY <1>2, <1>4, MaskBack
<1>6. /\ a \in Seq(Nat) /\ Len(a) = n
      /\ a[1] = IF m = Close THEN 8 ELSE 2
      /\ k <= More - 3 => a[2] = More + k
      /\ k > More - 3 => a[2] = 2 * More - 2 /\ a[3] = k \div (4 * Sign) /\ a[4] = k % (4 * Sign)
  BY <1>2, HeaderBytes
<1>7. n \in {2, 4} /\ (n = 2 <=> k <= More - 3) /\ 4 * Sign \in Nat /\ Byte = 0 .. 4 * Sign - 1 /\ 4 * Sign >= 16
  BY SignLimits
<1> HIDE DEF p, k, a, c, n
<1>8. /\ Len(f) = n + 4 + k
      /\ \A i \in 1..n : f[i] = a[i]
      /\ \A i \in 1..4 : f[i + n] = Mask[i]
      /\ \A i \in 1..k : f[i + n + 4] = c[i]
  <2>1. a \in Seq(Nat) /\ Mask \in Seq(Nat) /\ c \in Seq(Nat)
    <3>1. \A s \in Seq(Byte) : s \in Seq(Nat)
      BY <1>7
    <3> QED
      BY <1>4, <1>5, <1>6, <3>1
  <2>2. /\ Len(f) = Len(a) + Len(Mask) + Len(c)
        /\ \A i \in 1..Len(a) : f[i] = a[i]
        /\ \A i \in 1..Len(Mask) : f[i + Len(a)] = Mask[i]
        /\ \A i \in 1..Len(c) : f[i + Len(a) + Len(Mask)] = c[i]
    <3> DEFINE b == Mask
               T == Nat
               g == a \o b \o c
    <3>1. a \in Seq(T) /\ b \in Seq(T) /\ c \in Seq(T)
      BY <2>1
    <3> HIDE DEF b, T
    <3>2. /\ Len(g) = Len(a) + Len(b) + Len(c)
          /\ \A i \in 1..Len(a) : g[i] = a[i]
          /\ \A i \in 1..Len(b) : g[i + Len(a)] = b[i]
          /\ \A i \in 1..Len(c) : g[i + Len(a) + Len(b)] = c[i]
      BY <3>1, ThreeParts
    <3> QED
      BY <3>2 DEF b
  <2> HIDE DEF f
  <2> QED
    BY <1>4, <1>5, <1>6, <2>2
<1>9. Len(f) <= BufferSize
  BY <1>3, FitAssumption DEF FitAssumption
<1> HIDE DEF f
<1>10. \A i \in 1..n : a[i] \in Byte
  <2>1. a[1] \in Byte
    BY <1>6, <1>7
  <2>2. CASE n = 2
    <3>1. a[2] \in Byte
      BY <1>2, <1>6, <1>7, <2>2, SignLimits
    <3> QED
      BY <2>1, <2>2, <3>1
  <2>3. CASE n = 4
    <3> DEFINE x == 4 * Sign
               q == k \div x
               r == k % x
    <3>1. a[2] \in Byte
      BY <1>2, <1>6, <1>7, <2>3, SignLimits
    <3>2. a[3] = q /\ a[4] = r
      BY <1>2, <1>6, <1>7, <2>3, SignLimits
    <3>3. x \in Divisors
      BY SignLimits
    <3>4. q \in Nat /\ r \in 0 .. x - 1 /\ k = x * q + r
      <4> HIDE DEF x
      <4> QED
        BY <1>2, <3>3, Divide
    <3>5. k < 16 * Sign * Sign
      BY <1>2, <1>8, <1>9, <2>3, BufferAssumption, SignAssumption DEF BufferAssumption, SignAssumption
    <3> HIDE DEF q, r
    <3>6. q < x
      BY <1>2, <3>4, <3>5, SignAssumption DEF SignAssumption
    <3>7. a[3] \in Byte /\ a[4] \in Byte
      BY <1>7, <3>2, <3>4, <3>6
    <3> QED
      BY <2>1, <2>3, <3>1, <3>7
  <2> QED
    BY <1>7, <2>2, <2>3
<1>11. f \in Seq(Byte)
  <2>1. a \in Seq(Byte)
    BY <1>6, <1>7, <1>10
  <2> QED
    BY <1>4, <1>5, <2>1, ThreeParts DEF f
<1>12. data_length(f) = k /\ header_length(f) = n + 4
  <2>1. k <= More - 3 => f[2] = More + k
    BY <1>6, <1>7, <1>8
  <2>2. k > More - 3 => n = 4
    BY <1>2, <1>7, SignLimits
  <2>3. k > More - 3 => f[2] = 2 * More - 2 /\ f[3] = k \div (4 * Sign) /\ f[4] = k % (4 * Sign)
    BY <1>6, <1>8, <2>2
  <2>4. data_length(f) = k /\ header_length(f) = IF k <= More - 3 THEN 6 ELSE 8
    BY <1>2, <2>1, <2>3, HeaderSays
  <2> QED
    BY <1>7, <2>4
<1>13. f[1] % 16 = 8 <=> m = Close
  BY <1>6, <1>7, <1>8
<1>14. frame_length(f) = Len(f) /\ Len(f) \in 6..BufferSize
  BY <1>2, <1>7, <1>8, <1>9, <1>12, BufferAssumption DEF frame_length, BufferAssumption
<1>15. /\ \A i \in 1..4 : f[(n + 4) - 4 + i] = Mask[i]
       /\ \A i \in 1..k : f[(n + 4) + i] = c[i]
  <2>1. \A i \in 1..4 : (n + 4) - 4 + i = i + n
    BY <1>7
  <2>2. \A i \in 1..k : (n + 4) + i = i + n + 4
    BY <1>2, <1>7
  <2> QED
    BY <1>8, <2>1, <2>2
<1>16. header_length(f) \in {6, 8} /\ Len(f) = header_length(f) + k
  BY <1>2, <1>7, <1>8, <1>12
<1> QED
  BY <1>2, <1>3, <1>11, <1>12, <1>13, <1>14, <1>15, <1>16 DEF p, k, c

\* What handle_client sees at the start of its buffer when what it has and
\* will read begins with a frame: the end of the frame, and what is in it if
\* it is there.
LEMMA FrameAtStart ==
  ASSUME NEW m \in Messages, NEW b \in Seq(Byte), NEW w \in Seq(Byte), NEW rest \in Seq(Byte),
         b \o w = Frame[m] \o rest, Len(b) >= 6
  PROVE  /\ Closes(b) <=> m = Close
         /\ frame_length(b) = Len(Frame[m])
         /\ Len(b) >= Len(Frame[m]) =>
              /\ Unmasked(b) = Payload(m)
              /\ SubSeq(b, Len(Frame[m]) + 1, Len(b)) \in Seq(Byte)
              /\ SubSeq(b, Len(Frame[m]) + 1, Len(b)) \o w = rest
<1> DEFINE f == Frame[m]
           p == Payload(m)
           h == header_length(f)
           c == Masked(p, Mask)
           k == Len(p)
           n == Len(f)
           N == Len(b)
<1>1. /\ f \in Seq(Byte) /\ p \in Seq(Byte)
      /\ n \in 6..BufferSize /\ h \in {6, 8} /\ n = h + k
      /\ frame_length(f) = n
      /\ f[1] % 16 = 8 <=> m = Close
      /\ \A i \in 1..4 : f[h - 4 + i] = Mask[i]
      /\ \A i \in 1..k : f[h + i] = c[i]
  BY FrameParts
<1>2. Mask \in [1..4 -> Byte] /\ Mask \in Seq(Byte) /\ Len(Mask) = 4
  BY MaskAssumption, FunctionIsSequence DEF MaskAssumption
<1>3. c \in Seq(Byte) /\ Len(c) = k /\ Masked(c, Mask) = p
  BY <1>1, <1>2, MaskBack
<1>4. n \in Nat /\ k \in Nat /\ BufferSize \in Nat /\ N \in Nat /\ N >= 6
  <2>1. BufferSize \in Nat
    BY BufferAssumption DEF BufferAssumption
  <2>2. k \in Nat
    BY <1>1, LenProperties
  <2>3. N \in Nat
    BY LenProperties
  <2>4. N >= 6
    OBVIOUS
  <2> HIDE DEF n, k, N
  <2> QED
    BY <1>1, <2>1, <2>2, <2>3, <2>4
<1>5. /\ \A i \in 1..n : i <= N => b[i] = f[i]
      /\ N >= n => SubSeq(b, n + 1, N) \in Seq(Byte) /\ SubSeq(b, n + 1, N) \o w = rest
  <2> DEFINE s == b \o w
  <2>1. Splits(s, b, w) /\ Splits(s, f, rest)
    BY DEF Splits
  <2> HIDE DEF f, s
  <2>2. f \in Seq(Byte)
    BY <1>1
  <2>3. \A i \in 1..Len(f) : i <= Len(b) => b[i] = f[i]
    BY <2>1, <2>2, Overlap
  <2>4. ASSUME Len(b) >= Len(f)
        PROVE  Rest(b, Len(f)) \in Seq(Byte) /\ Rest(b, Len(f)) \o w = rest
    <3>1. Rest(b, Len(f)) \in Seq(Byte) /\ Splits(rest, Rest(b, Len(f)), w)
      BY <2>1, <2>2, <2>4, Overlap
    <3> QED
      BY <3>1 DEF Splits
  <2>5. Rest(b, Len(f)) = SubSeq(b, Len(f) + 1, Len(b))
    BY DEF Rest
  <2> QED
    BY <2>3, <2>4, <2>5 DEF n, N
<1> HIDE DEF p, h, c, k, n, f, N
<1>6. \A i \in 1..6 : b[i] = f[i]
  <2>1. \A i \in 1..6 : i \in 1..n /\ i <= N
    BY <1>1, <1>4
  <2> QED
    BY <1>5, <2>1
<1>7. Closes(b) <=> m = Close
  BY <1>1, <1>4, <1>6 DEF N, Closes, OPCODE_CLOSE
<1>8. header_length(b) = h /\ frame_length(b) = n
  <2>1. b[2] = f[2] /\ b[3] = f[3] /\ b[4] = f[4]
    BY <1>6
  <2>2. header_length(b) = header_length(f) /\ data_length(b) = data_length(f)
    BY <2>1 DEF header_length, data_length
  <2> QED
    BY <1>1, <2>2 DEF frame_length, h
<1>9. ASSUME N >= n
      PROVE  Unmasked(b) = p
  <2> DEFINE u == SubSeq(b, h + 1, n)
             v == SubSeq(b, h - 3, h)
  <2>0. /\ h \in {6, 8} /\ n = h + k /\ n \in Nat /\ k \in Nat /\ N \in Nat /\ n <= N
    BY <1>1, <1>4, <1>9
  <2>1. u \in Seq(Byte) /\ Len(u) = k /\ \A x \in 1..k : u[x] = b[h + x]
    <3>1. h \in 0..N /\ n \in h..N /\ n - h = k
      BY ONLY <2>0
    <3> QED
      BY <3>1, Piece DEF N
  <2>2. v \in Seq(Byte) /\ Len(v) = 4 /\ \A x \in 1..4 : v[x] = b[h - 4 + x]
    <3> DEFINE i == h - 4
    <3>1. i \in 0..N /\ h \in i..N /\ h - i = 4 /\ i + 1 = h - 3
      BY ONLY <2>0 DEF i
    <3> HIDE DEF i
    <3>2. /\ SubSeq(b, i + 1, h) \in Seq(Byte) /\ Len(SubSeq(b, i + 1, h)) = 4
          /\ \A x \in 1..4 : SubSeq(b, i + 1, h)[x] = b[i + x]
      BY <3>1, Piece DEF N
    <3> QED
      BY <3>1, <3>2 DEF i
  <2> HIDE DEF u, v
  <2>3. u = c
    <3>1. \A x \in 1..k : h + x \in 1..n /\ h + x <= N
      BY ONLY <2>0
    <3>2. \A x \in 1..k : u[x] = c[x]
      BY <1>1, <1>5, <2>1, <3>1
    <3> QED
      BY <1>3, <2>1, <3>2, SeqEqual
  <2>4. v = Mask
    <3>1. \A x \in 1..4 : h - 4 + x \in 1..n /\ h - 4 + x <= N
      BY ONLY <2>0
    <3>2. \A x \in 1..4 : v[x] = Mask[x]
      BY <1>1, <1>5, <2>2, <3>1
    <3> QED
      BY <1>2, <2>2, <3>2, SeqEqual
  <2>5. Unmasked(b) = Masked(u, v)
    BY <1>8 DEF Unmasked, u, v
  <2> QED
    BY <1>3, <2>3, <2>4, <2>5
<1> QED
  BY <1>5, <1>7, <1>8, <1>9 DEF n, p, f, N

------------------------------------------------------------------------------
(* The stream.                                                              *)

\* The frames of messages, the bytes of those after the first n, and what the
\* first n ask for.
FramesOf(s) == [i \in DOMAIN s |-> Frame[s[i]]]
After(s, n) == FlattenSeq(SubSeq(FramesOf(s), n + 1, Len(s)))
Effects(s, n) == FlattenSeq([i \in 1..n |-> Effect(s[i])])

\* What a message may make the handler do.
Acts == {Meant(m) : m \in {m \in Messages : Understood(m)}}

\* The frames of messages are sequences of bytes.
LEMMA FramesType ==
  ASSUME NEW s \in Seq(Messages)
  PROVE  /\ FramesOf(s) \in Seq(Seq(Byte)) /\ Len(FramesOf(s)) = Len(s)
         /\ \A i \in 1..Len(s) : s[i] \in Messages /\ FramesOf(s)[i] = Frame[s[i]]
<1> DEFINE n == Len(s)
           U == Seq(Byte)
<1>1. n \in Nat /\ DOMAIN s = 1..n /\ \A i \in 1..n : s[i] \in Messages
  BY LenProperties, ElementOfSeq
<1>2. \A m \in Messages : Frame[m] \in U
  BY FrameParts
<1> HIDE DEF n, U
<1>3. FramesOf(s) \in [1..n -> U]
  BY <1>1, <1>2 DEF FramesOf
<1>4. FramesOf(s) \in Seq(U) /\ Len(FramesOf(s)) = n
  BY <1>1, <1>3, FunctionIsSequence
<1> QED
  BY <1>1, <1>4 DEF n, U, FramesOf

\* The bytes of a message come before those of the messages after it.
LEMMA AfterStep ==
  ASSUME NEW s \in Seq(Messages), NEW k \in Nat, k < Len(s)
  PROVE  /\ s[k + 1] \in Messages
         /\ After(s, k) \in Seq(Byte) /\ After(s, k + 1) \in Seq(Byte)
         /\ After(s, k) = Frame[s[k + 1]] \o After(s, k + 1)
         /\ Len(After(s, k)) = Len(Frame[s[k + 1]]) + Len(After(s, k + 1))
<1> DEFINE q == FramesOf(s)
           j == k + 1
           f == Frame[s[k + 1]]
           a == After(s, k + 1)
<1>1. /\ q \in Seq(Seq(Byte)) /\ Len(q) = Len(s)
      /\ \A i \in 1..Len(s) : s[i] \in Messages /\ q[i] = Frame[s[i]]
  BY FramesType
<1>2. j \in 1..Len(s)
  <2>1. Len(s) \in Nat
    BY LenProperties
  <2> QED
    BY <2>1
<1>3. s[k + 1] \in Messages /\ q[j] = f
  BY <1>1, <1>2
<1>4. f \in Seq(Byte)
  BY <1>3, FrameParts
<1> HIDE DEF q
<1>5. /\ FlattenSeq(SubSeq(q, j + 1, Len(q))) \in Seq(Byte)
      /\ FlattenSeq(SubSeq(q, j, Len(q))) = q[j] \o FlattenSeq(SubSeq(q, j + 1, Len(q)))
  <2>1. j \in 1..Len(q)
    BY <1>1, <1>2
  <2> HIDE DEF j
  <2> QED
    BY <1>1, <2>1, FlattenRest
<1>6. a \in Seq(Byte) /\ After(s, k) = f \o a
  BY <1>1, <1>3, <1>5 DEF After, q
<1> HIDE DEF a, f
<1>7. f \o a \in Seq(Byte) /\ Len(f \o a) = Len(f) + Len(a)
  BY <1>4, <1>6, ConcatProperties
<1> QED
  BY <1>3, <1>6, <1>7 DEF a, f

\* After the last message there are none.
LEMMA AfterEnd ==
  ASSUME NEW s \in Seq(Messages)
  PROVE  After(s, Len(s)) = <<>>
<1> DEFINE q == FramesOf(s)
           n == Len(s)
           e == SubSeq(q, n + 1, n)
<1>1. q \in Seq(Seq(Byte)) /\ n \in Nat /\ Len(q) = n
  <2>1. n \in Nat
    BY LenProperties
  <2> QED
    BY <2>1, FramesType
<1> HIDE DEF q, n
<1>2. e = <<>>
  BY <1>1
<1>3. <<>> \in Seq(Seq(Byte))
  OBVIOUS
<1>4. FlattenSeq(<<>>) = <<>>
  BY <1>3, FlattenType
<1> QED
  BY <1>2, <1>4 DEF After, q, n

\* The bytes of what the peer sends come last.
LEMMA AfterSend ==
  ASSUME NEW s \in Seq(Messages), NEW m \in Messages, NEW k \in 0..Len(s)
  PROVE  /\ After(s, k) \in Seq(Byte)
         /\ After(Append(s, m), k) = After(s, k) \o Frame[m]
<1> DEFINE n == Len(s)
           t == Append(s, m)
           q == FramesOf(s)
           r == FramesOf(t)
           a == SubSeq(q, k + 1, n)
           b == SubSeq(r, k + 1, n + 1)
           f == Frame[m]
           U == Seq(Byte)
<1>1. n \in Nat /\ k \in 0..n /\ f \in U
  BY LenProperties, FrameParts
<1>2. t \in Seq(Messages) /\ Len(t) = n + 1 /\ t[n + 1] = m /\ \A i \in 1..n : t[i] = s[i]
  BY AppendProperties
<1>3. /\ q \in Seq(U) /\ Len(q) = n
      /\ \A i \in 1..n : q[i] = Frame[s[i]]
  BY FramesType
<1> HIDE DEF t, q
<1>4. /\ r \in Seq(U) /\ Len(r) = n + 1
      /\ \A i \in 1 .. n + 1 : r[i] = Frame[t[i]]
  <2>1. /\ FramesOf(t) \in Seq(Seq(Byte)) /\ Len(FramesOf(t)) = Len(t)
        /\ \A i \in 1..Len(t) : FramesOf(t)[i] = Frame[t[i]]
    BY <1>2, FramesType
  <2> QED
    BY <1>2, <2>1
<1> HIDE DEF r, U, n
<1>5. a \in Seq(U) /\ Len(a) = n - k /\ \A x \in 1 .. n - k : a[x] = q[k + x]
  <2>1. k \in 0..Len(q) /\ n \in k..Len(q)
    BY <1>1, <1>3
  <2> QED
    BY <1>3, <2>1, Piece
<1>6. b \in Seq(U) /\ Len(b) = (n - k) + 1 /\ \A x \in 1 .. (n - k) + 1 : b[x] = r[k + x]
  <2> DEFINE j == n + 1
  <2>1. k \in 0..Len(r) /\ j \in k..Len(r) /\ j - k = (n - k) + 1
    BY <1>1, <1>4
  <2> HIDE DEF j
  <2>2. /\ SubSeq(r, k + 1, j) \in Seq(U) /\ Len(SubSeq(r, k + 1, j)) = j - k
        /\ \A x \in 1 .. j - k : SubSeq(r, k + 1, j)[x] = r[k + x]
    BY <1>4, <2>1, Piece
  <2> QED
    BY <2>1, <2>2 DEF j
<1> HIDE DEF a, b, f
<1>7. b = Append(a, f)
  <2> DEFINE c == Append(a, f)
  <2>1. c \in Seq(U) /\ Len(c) = (n - k) + 1 /\ c[(n - k) + 1] = f /\ \A x \in 1 .. n - k : c[x] = a[x]
    BY <1>1, <1>5, AppendProperties
  <2> HIDE DEF c
  <2>2. \A x \in 1 .. n - k : b[x] = c[x]
    <3> SUFFICES ASSUME NEW x \in 1 .. n - k PROVE b[x] = c[x]
      OBVIOUS
    <3>1. x \in 1 .. (n - k) + 1 /\ k + x \in 1..n /\ k + x \in 1 .. n + 1
      BY <1>1
    <3>2. b[x] = Frame[t[k + x]] /\ c[x] = Frame[s[k + x]]
      BY <1>3, <1>4, <1>5, <1>6, <2>1, <3>1
    <3> QED
      BY <1>2, <3>1, <3>2
  <2>3. b[(n - k) + 1] = f
    <3> DEFINE l == (n - k) + 1
    <3>1. l \in 1 .. (n - k) + 1 /\ k + l = n + 1 /\ k + l \in 1 .. n + 1
      BY <1>1
    <3> HIDE DEF l
    <3>2. b[l] = Frame[t[k + l]]
      BY <1>4, <1>6, <3>1
    <3> QED
      BY <1>2, <3>1, <3>2 DEF l, f
  <2>4. \A x \in 1 .. (n - k) + 1 : b[x] = c[x]
    BY <1>1, <2>1, <2>2, <2>3
  <2>5. b = c
    BY <1>6, <2>1, <2>4, SeqEqual
  <2> QED
    BY <2>5 DEF c
<1>8. FlattenSeq(b) = FlattenSeq(a) \o f /\ FlattenSeq(a) \in Seq(Byte)
  BY <1>1, <1>5, <1>7, FlattenAppend, FlattenType DEF U
<1> QED
  BY <1>2, <1>8 DEF After, a, b, q, r, t, f, n

\* The more messages have gone, the fewer bytes follow.
LEMMA AfterLess ==
  ASSUME NEW s \in Seq(Messages), NEW k \in 0..Len(s)
  PROVE  \A n \in Nat : k + n <= Len(s) => /\ After(s, k + n) \in Seq(Byte)
                                           /\ Len(After(s, k + n)) <= Len(After(s, k))
<1> DEFINE L(i) == Len(After(s, i))
           N == Len(s)
           S == {n \in Nat : k + n <= N => After(s, k + n) \in Seq(Byte) /\ L(k + n) <= L(k)}
<1>1. N \in Nat /\ k \in 0..N
  BY LenProperties
<1>2. After(s, k) \in Seq(Byte)
  <2>1. CASE k < N
    <3>1. k \in Nat
      BY <1>1
    <3> QED
      BY <2>1, <3>1, AfterStep
  <2>2. CASE k = N
    <3>1. After(s, k) = <<>>
      BY <2>2, AfterEnd
    <3> QED
      BY <3>1
  <2> QED
    BY <1>1, <2>1, <2>2
<1>3. L(k) \in Nat
  BY <1>2, LenProperties
<1>4. 0 \in S
  <2>1. k + 0 = k
    BY <1>1
  <2> QED
    BY <1>2, <1>3, <2>1
<1>5. ASSUME NEW n \in Nat, n \in S
      PROVE  n + 1 \in S
  <2> SUFFICES ASSUME k + (n + 1) <= N
               PROVE  After(s, k + (n + 1)) \in Seq(Byte) /\ L(k + (n + 1)) <= L(k)
    BY DEF S
  <2> DEFINE i == k + n
  <2>1. i \in Nat /\ i < N /\ i <= N /\ k + (n + 1) = i + 1
    BY <1>1
  <2>2. After(s, i) \in Seq(Byte) /\ L(i) <= L(k)
    BY <1>5, <2>1
  <2> HIDE DEF i
  <2>3. /\ s[i + 1] \in Messages /\ After(s, i + 1) \in Seq(Byte)
        /\ L(i) = Len(Frame[s[i + 1]]) + L(i + 1)
    BY <2>1, AfterStep
  <2>4. Frame[s[i + 1]] \in Seq(Byte)
    BY <2>3, FrameParts
  <2>5. Len(Frame[s[i + 1]]) \in Nat /\ L(i + 1) \in Nat /\ L(i) \in Nat
    BY <2>2, <2>3, <2>4, LenProperties
  <2> HIDE DEF L
  <2>6. L(i + 1) <= L(k)
    BY <1>3, <2>2, <2>3, <2>5
  <2> QED
    BY <2>1, <2>3, <2>6
<1> HIDE DEF S
<1>6. \A n \in Nat : n \in S
  BY <1>4, <1>5, Induction
<1> QED
  BY <1>6 DEF S

\* What a message asks for is a sequence of acts.
LEMMA EffectType ==
  ASSUME NEW m \in Messages
  PROVE  Effect(m) \in Seq(Acts)
<1>1. CASE Understood(m)
  <2>1. Meant(m) \in Acts
    BY <1>1 DEF Acts
  <2> HIDE DEF Acts
  <2> QED
    BY <1>1, <2>1 DEF Effect
<1>2. CASE ~Understood(m)
  BY <1>2 DEF Effect
<1> QED
  BY <1>1, <1>2

\* What the first n messages ask for, one message at a time.
LEMMA EffectsStep ==
  ASSUME NEW s \in Seq(Messages)
  PROVE  /\ Effects(s, 0) = <<>>
         /\ \A n \in 0..Len(s) : Effects(s, n) \in Seq(Acts)
         /\ \A n \in Nat : n < Len(s) => Effects(s, n + 1) = Effects(s, n) \o Effect(s[n + 1])
<1> DEFINE E(n) == [i \in 1..n |-> Effect(s[i])]
           N == Len(s)
           U == Seq(Acts)
<1>1. N \in Nat /\ \A i \in 1..N : s[i] \in Messages
  BY LenProperties, ElementOfSeq
<1>2. \A i \in 1..N : Effect(s[i]) \in U
  BY <1>1, EffectType
<1> HIDE DEF N, U
<1>3. \A n \in 0..N : E(n) \in Seq(U) /\ Len(E(n)) = n
  <2> SUFFICES ASSUME NEW n \in 0..N PROVE E(n) \in Seq(U) /\ Len(E(n)) = n
    OBVIOUS
  <2>1. n \in Nat /\ \A i \in 1..n : i \in 1..N
    BY <1>1
  <2>2. E(n) \in [1..n -> U]
    BY <1>2, <2>1
  <2> HIDE DEF E
  <2> QED
    BY <2>1, <2>2, FunctionIsSequence
<1>4. \A n \in 0..N : Effects(s, n) \in Seq(Acts)
  BY <1>3, FlattenType DEF Effects, U
<1>5. Effects(s, 0) = <<>>
  <2> DEFINE e == E(0)
  <2>1. e \in Seq(U) /\ Len(e) = 0
    BY <1>1, <1>3
  <2> HIDE DEF e
  <2>2. e = <<>>
    BY <2>1, EmptySeq
  <2>3. FlattenSeq(e) = <<>>
    BY <2>1, <2>2, FlattenType DEF U
  <2> QED
    BY <2>3 DEF Effects, e
<1>6. ASSUME NEW n \in Nat, n < N
      PROVE  Effects(s, n + 1) = Effects(s, n) \o Effect(s[n + 1])
  <2> DEFINE a == E(n)
             b == E(n + 1)
             x == Effect(s[n + 1])
             c == Append(a, x)
  <2>1. n \in 0..N /\ n + 1 \in 0..N /\ n + 1 \in 1..N
    BY <1>1, <1>6
  <2>2. a \in Seq(U) /\ Len(a) = n /\ b \in Seq(U) /\ Len(b) = n + 1 /\ x \in U
    BY <1>2, <1>3, <2>1
  <2>3. b[n + 1] = x /\ \A i \in 1..n : b[i] = a[i]
    BY <1>6
  <2> HIDE DEF a, b, x
  <2>4. c \in Seq(U) /\ Len(c) = n + 1 /\ c[n + 1] = x /\ \A i \in 1..n : c[i] = a[i]
    BY <2>2, AppendProperties
  <2> HIDE DEF c
  <2>5. \A i \in 1 .. n + 1 : b[i] = c[i]
    BY <1>6, <2>3, <2>4
  <2>6. b = c
    BY <2>2, <2>4, <2>5, SeqEqual
  <2>7. FlattenSeq(b) = FlattenSeq(a) \o x
    BY <2>2, <2>6, FlattenAppend DEF U, c
  <2> QED
    BY <2>7 DEF Effects, a, b, x
<1> QED
  BY <1>4, <1>5, <1>6 DEF N

\* It does not depend on what is sent later.
LEMMA EffectsSend ==
  ASSUME NEW s \in Seq(Messages), NEW m \in Messages, NEW n \in 0..Len(s)
  PROVE  Effects(Append(s, m), n) = Effects(s, n)
<1>1. \A i \in 1..Len(s) : Append(s, m)[i] = s[i]
  BY AppendProperties
<1>2. Len(s) \in Nat
  BY LenProperties
<1>3. \A i \in 1..n : Append(s, m)[i] = s[i]
  BY <1>1, <1>2
<1>4. [i \in 1..n |-> Effect(Append(s, m)[i])] = [i \in 1..n |-> Effect(s[i])]
  BY <1>3
<1> QED
  BY <1>4 DEF Effects

------------------------------------------------------------------------------
(* The invariant.                                                           *)

\* The handler has done what the first k messages ask for, none of which was
\* to close the connection, and the buffer begins with the next one.  The
\* thread waits only if it does not have all of that.
At(k) ==
  /\ buffer \o wire = After(sent, k)
  /\ acted = Effects(sent, k)
  /\ BeforeClose(k)
  /\ reading /\ k < Len(sent) => Len(buffer) < Len(Frame[sent[k + 1]])
  /\ ~open /\ ~reading => k < Len(sent) /\ sent[k + 1] = Close

StreamInv ==
  /\ TypeOK
  /\ ~open /\ reading => hungUp
  /\ \E k \in 0..Len(sent) : At(k)

\* What the start of the buffer is.
LEMMA StartOfBuffer ==
  ASSUME TypeOK, NEW k \in Nat, k < Len(sent), buffer \o wire = After(sent, k)
  PROVE  LET m == sent[k + 1]
             n == Len(Frame[m])
         IN  /\ m \in Messages /\ n \in 6..BufferSize
             /\ Len(buffer) >= 6 => /\ Closes(buffer) <=> m = Close
                                    /\ frame_length(buffer) = n
             /\ Len(buffer) >= n => /\ Unmasked(buffer) = Payload(m)
                                    /\ SubSeq(buffer, n + 1, Len(buffer)) \in Seq(Byte)
                                    /\ SubSeq(buffer, n + 1, Len(buffer)) \o wire = After(sent, k + 1)
<1> DEFINE m == sent[k + 1]
           f == Frame[m]
           n == Len(f)
           a == After(sent, k + 1)
           N == Len(buffer)
<1>1. sent \in Seq(Messages) /\ buffer \in Seq(Byte) /\ wire \in Seq(Byte)
  BY DEF TypeOK
<1>2. m \in Messages /\ a \in Seq(Byte) /\ buffer \o wire = f \o a
  BY <1>1, AfterStep
<1>3. f \in Seq(Byte) /\ n \in 6..BufferSize /\ BufferSize \in Nat /\ N \in Nat
  BY <1>1, <1>2, FrameParts, BufferAssumption, LenProperties DEF BufferAssumption
<1> HIDE DEF m, a
<1>4. N >= 6 => /\ Closes(buffer) <=> m = Close
                /\ frame_length(buffer) = n
                /\ N >= n => /\ Unmasked(buffer) = Payload(m)
                             /\ SubSeq(buffer, n + 1, N) \in Seq(Byte)
                             /\ SubSeq(buffer, n + 1, N) \o wire = a
  <2> SUFFICES ASSUME N >= 6
               PROVE  /\ Closes(buffer) <=> m = Close
                      /\ frame_length(buffer) = n
                      /\ N >= n => /\ Unmasked(buffer) = Payload(m)
                                   /\ SubSeq(buffer, n + 1, N) \in Seq(Byte)
                                   /\ SubSeq(buffer, n + 1, N) \o wire = a
    OBVIOUS
  <2> QED
    BY <1>1, <1>2, FrameAtStart
<1> HIDE DEF f, n, N
<1>5. N >= n => N >= 6
  BY <1>3
<1> QED
  BY <1>2, <1>3, <1>4, <1>5 DEF m, n, f, a, N

\* After the last message the buffer is empty.
LEMMA NothingLeft ==
  ASSUME TypeOK, buffer \o wire = After(sent, Len(sent))
  PROVE  Len(buffer) = 0 /\ Len(wire) = 0
<1>1. sent \in Seq(Messages) /\ buffer \in Seq(Byte) /\ wire \in Seq(Byte)
  BY DEF TypeOK
<1>2. Len(buffer) \in Nat /\ Len(wire) \in Nat
  BY <1>1, LenProperties
<1> DEFINE c == buffer \o wire
<1>3. Len(c) = Len(buffer) + Len(wire)
  BY <1>1, ConcatProperties
<1>4. c = <<>>
  BY <1>1, AfterEnd
<1> HIDE DEF c
<1>5. Len(c) = 0
  BY <1>4
<1> QED
  BY <1>2, <1>3, <1>5

\* Nothing has been sent, read or done.
LEMMA StreamInit == Init => StreamInv
<1> SUFFICES ASSUME Init PROVE StreamInv
  OBVIOUS
<1>1. /\ wire = <<>> /\ sent = <<>> /\ hungUp = FALSE /\ buffer = <<>>
      /\ reading = TRUE /\ open = TRUE /\ acted = <<>>
  BY DEF Init
<1>2. BufferSize \in Nat
  BY BufferAssumption DEF BufferAssumption
<1>3. sent \in Seq(Messages) /\ Len(sent) = 0 /\ Len(buffer) = 0
  BY <1>1
<1>4. TypeOK
  <2>1. acted \in Seq(Acts) /\ wire \in Seq(Byte) /\ buffer \in Seq(Byte)
    BY <1>1
  <2>2. Len(buffer) <= BufferSize
    BY <1>2, <1>3
  <2> QED
    BY <1>1, <1>3, <2>1, <2>2 DEF TypeOK, Acts
<1>5. At(0)
  <2>1. After(sent, 0) = <<>>
    BY <1>3, AfterEnd
  <2>2. buffer \o wire = <<>>
    BY <1>1
  <2>3. Effects(sent, 0) = <<>>
    BY <1>3, EffectsStep
  <2> QED
    BY <1>1, <1>3, <2>1, <2>2, <2>3 DEF At, BeforeClose
<1>6. 0 \in 0..Len(sent)
  BY <1>3
<1> QED
  BY <1>1, <1>4, <1>5, <1>6 DEF StreamInv

\* What the peer sends comes after all that has not been handled.
LEMMA SendStep == StreamInv /\ Send => StreamInv'
<1> SUFFICES ASSUME StreamInv, Send PROVE StreamInv'
  OBVIOUS
<1>1. PICK m \in Messages : wire' = wire \o Frame[m] /\ sent' = Append(sent, m)
  BY DEF Send
<1>2. UNCHANGED <<hungUp, buffer, reading, open, acted>>
  BY DEF Send
<1>3. PICK k \in 0..Len(sent) : At(k)
  BY DEF StreamInv
<1> DEFINE n == Len(sent)
           f == Frame[m]
<1>4. TypeOK /\ sent \in Seq(Messages) /\ buffer \in Seq(Byte) /\ wire \in Seq(Byte)
  BY DEF StreamInv, TypeOK
<1>5. n \in Nat /\ k \in 0..n /\ f \in Seq(Byte) /\ Len(f) \in 6..BufferSize /\ BufferSize \in Nat
  BY <1>4, LenProperties, FrameParts, BufferAssumption DEF BufferAssumption
<1>6. sent' \in Seq(Messages) /\ Len(sent') = n + 1 /\ sent'[n + 1] = m /\ \A i \in 1..n : sent'[i] = sent[i]
  BY <1>1, <1>4, AppendProperties
<1> HIDE DEF n, f
<1>7. wire' \in Seq(Byte)
  BY <1>1, <1>4, <1>5, ConcatProperties DEF f
<1>8. TypeOK'
  BY <1>2, <1>4, <1>6, <1>7 DEF TypeOK
<1>9. At(k)'
  <2>1. buffer' \o wire' = After(sent', k)
    <3>1. After(sent', k) = After(sent, k) \o f
      BY <1>1, <1>3, <1>4, AfterSend DEF f
    <3>2. buffer \o (wire \o f) = (buffer \o wire) \o f
      <4>1. buffer \in Seq(Byte) /\ wire \in Seq(Byte) /\ f \in Seq(Byte)
        BY <1>4, <1>5
      <4> QED
        BY ONLY <4>1, ConcatAssociative
    <3>3. buffer \o wire = After(sent, k)
      BY <1>3 DEF At
    <3> QED
      BY <1>1, <1>2, <3>1, <3>2, <3>3 DEF f
  <2>2. acted' = Effects(sent', k)
    <3>1. Effects(sent', k) = Effects(sent, k)
      BY <1>1, <1>3, <1>4, EffectsSend
    <3> QED
      BY <1>2, <1>3, <3>1 DEF At
  <2>3. \A i \in 1..k : sent'[i] # Close
    <3>1. \A i \in 1..k : i \in 1..n
      BY <1>5
    <3> QED
      BY <1>3, <1>6, <3>1 DEF At, BeforeClose
  <2>4. ASSUME reading'
        PROVE  Len(buffer') < Len(Frame[sent'[k + 1]])
    <3>1. CASE k < n
      <4>1. k + 1 \in 1..n
        BY <1>5, <3>1
      <4> QED
        BY <1>2, <1>3, <1>6, <2>4, <3>1, <4>1 DEF At, n
    <3>2. CASE k = n
      <4>1. Len(buffer) = 0
        BY <1>3, <1>4, <3>2, NothingLeft DEF At, n
      <4>2. Frame[sent'[k + 1]] = f
        BY <1>6, <3>2 DEF f
      <4> QED
        BY <1>2, <1>5, <4>1, <4>2
    <3> QED
      BY <1>5, <3>1, <3>2
  <2>5. ~open' /\ ~reading' => k < Len(sent') /\ sent'[k + 1] = Close
    <3>1. ~open /\ ~reading => k < n /\ sent[k + 1] = Close
      BY <1>3 DEF At, n
    <3>2. k < n => k + 1 \in 1..n /\ k < n + 1
      BY <1>5
    <3> QED
      BY <1>2, <1>6, <3>1, <3>2
  <2> QED
    BY <2>1, <2>2, <2>3, <2>4, <2>5 DEF At, BeforeClose
<1>10. k \in 0..Len(sent')
  BY <1>5, <1>6
<1>11. (~open /\ reading => hungUp)'
  BY <1>2 DEF StreamInv
<1> QED
  BY <1>8, <1>9, <1>10, <1>11 DEF StreamInv

\* The end of the connection changes no bytes.
LEMMA HangUpStep == StreamInv /\ HangUp => StreamInv'
<1> SUFFICES ASSUME StreamInv, HangUp PROVE StreamInv'
  OBVIOUS
<1>1. hungUp' = TRUE /\ UNCHANGED <<wire, sent, buffer, reading, open, acted>>
  BY DEF HangUp
<1>2. PICK k \in 0..Len(sent) : At(k)
  BY DEF StreamInv
<1>3. At(k)' /\ k \in 0..Len(sent')
  BY <1>1, <1>2 DEF At, BeforeClose
<1>4. TypeOK'
  BY <1>1 DEF StreamInv, TypeOK
<1> QED
  BY <1>1, <1>3, <1>4 DEF StreamInv

\* Bytes go from the connection to the end of the buffer.
LEMMA ReceiveStep == StreamInv /\ Receive => StreamInv'
<1> SUFFICES ASSUME StreamInv, Receive PROVE StreamInv'
  OBVIOUS
<1>1. PICK n \in 1..Len(wire) :
        /\ n <= Room
        /\ buffer' = buffer \o SubSeq(wire, 1, n)
        /\ wire'   = SubSeq(wire, n + 1, Len(wire))
  BY DEF Receive
<1>2. open /\ reading /\ reading' = FALSE /\ UNCHANGED <<sent, hungUp, open, acted>>
  BY DEF Receive
<1>3. PICK k \in 0..Len(sent) : At(k)
  BY DEF StreamInv
<1> DEFINE a == SubSeq(wire, 1, n)
           b == SubSeq(wire, n + 1, Len(wire))
<1>4. TypeOK /\ buffer \in Seq(Byte) /\ wire \in Seq(Byte)
  BY DEF StreamInv, TypeOK
<1>5. a \in Seq(Byte) /\ b \in Seq(Byte) /\ Len(a) = n /\ a \o b = wire
  <2>1. n \in 0..Len(wire)
    <3>1. Len(wire) \in Nat
      BY <1>4, LenProperties
    <3> QED
      BY <3>1
  <2> QED
    BY <1>4, <2>1, CutInTwo
<1>6. buffer' = buffer \o a /\ wire' = b
  BY <1>1
<1> HIDE DEF a, b
<1>7. buffer' \in Seq(Byte) /\ Len(buffer') = Len(buffer) + n
  BY <1>4, <1>5, <1>6, ConcatProperties
<1>8. Len(buffer') <= BufferSize
  <2>1. Len(buffer) \in Nat /\ BufferSize \in Nat /\ n \in Nat
    BY <1>4, LenProperties, BufferAssumption DEF BufferAssumption
  <2> QED
    BY <1>1, <1>7, <2>1 DEF Room
<1>9. TypeOK'
  BY <1>2, <1>4, <1>5, <1>6, <1>7, <1>8 DEF TypeOK
<1>10. buffer' \o wire' = buffer \o wire
  <2>1. (buffer \o a) \o b = buffer \o (a \o b)
    <3>1. buffer \in Seq(Byte) /\ a \in Seq(Byte) /\ b \in Seq(Byte)
      BY <1>4, <1>5
    <3> QED
      BY ONLY <3>1, ConcatAssociative
  <2> QED
    BY <1>5, <1>6, <2>1
<1>11. At(k)' /\ k \in 0..Len(sent')
  <2>1. buffer' \o wire' = After(sent', k) /\ acted' = Effects(sent', k)
    BY <1>2, <1>3, <1>10 DEF At
  <2>2. BeforeClose(k)'
    BY <1>2, <1>3 DEF At, BeforeClose
  <2> QED
    BY <1>2, <2>1, <2>2 DEF At
<1> QED
  BY <1>2, <1>9, <1>11 DEF StreamInv

\* Only a full buffer would make read() return 0, and the frame of which the
\* thread waits for the rest would fit.
LEMMA DisconnectStep == StreamInv /\ Disconnect => StreamInv'
<1> SUFFICES ASSUME StreamInv, Disconnect PROVE StreamInv'
  OBVIOUS
<1>1. /\ reading /\ (hungUp \/ Room = 0)
      /\ open' = FALSE /\ UNCHANGED <<wire, sent, hungUp, buffer, reading, acted>>
  BY DEF Disconnect
<1>2. PICK k \in 0..Len(sent) : At(k)
  BY DEF StreamInv
<1>3. TypeOK /\ sent \in Seq(Messages) /\ buffer \in Seq(Byte)
  BY DEF StreamInv, TypeOK
<1>4. Room # 0
  <2> DEFINE n == Len(sent)
  <2>1. n \in Nat /\ k \in 0..n /\ Len(buffer) \in Nat /\ BufferSize \in Nat /\ BufferSize >= 1
    BY <1>3, LenProperties, BufferAssumption DEF BufferAssumption
  <2>2. CASE k < n
    <3>1. k \in Nat /\ k < Len(sent) /\ buffer \o wire = After(sent, k)
      BY <1>2, <2>1, <2>2 DEF At
    <3>2. Len(Frame[sent[k + 1]]) \in 6..BufferSize
      BY <1>3, <3>1, StartOfBuffer
    <3>3. Len(buffer) < Len(Frame[sent[k + 1]])
      BY <1>1, <1>2, <2>2 DEF At
    <3> QED
      BY <2>1, <3>2, <3>3 DEF Room
  <2>3. CASE k = n
    <3>1. Len(buffer) = 0
      BY <1>2, <1>3, <2>3, NothingLeft DEF At
    <3> QED
      BY <2>1, <3>1 DEF Room
  <2> QED
    BY <2>1, <2>2, <2>3
<1>5. hungUp'
  BY <1>1, <1>4
<1>6. At(k)' /\ k \in 0..Len(sent')
  BY <1>1, <1>2 DEF At, BeforeClose
<1>7. TypeOK'
  BY <1>1, <1>3 DEF TypeOK
<1> QED
  BY <1>5, <1>6, <1>7 DEF StreamInv

\* The frame at the start of the buffer is that of the next message.
LEMMA HandleStep == StreamInv /\ Handle => StreamInv'
<1> SUFFICES ASSUME StreamInv, Handle PROVE StreamInv'
  OBVIOUS
<1>1. /\ open /\ ~reading /\ Complete(buffer)
      /\ acted'  = acted \o handle(Unmasked(buffer))
      /\ buffer' = SubSeq(buffer, frame_length(buffer) + 1, Len(buffer))
      /\ UNCHANGED <<wire, sent, hungUp, reading, open>>
  BY DEF Handle
<1>2. PICK k \in 0..Len(sent) : At(k)
  BY DEF StreamInv
<1>3. TypeOK /\ sent \in Seq(Messages) /\ buffer \in Seq(Byte) /\ wire \in Seq(Byte)
  BY DEF StreamInv, TypeOK
<1> DEFINE n == Len(sent)
           N == Len(buffer)
           m == sent[k + 1]
           l == Len(Frame[m])
           j == k + 1
<1>4. n \in Nat /\ k \in 0..n /\ N \in Nat /\ BufferSize \in Nat /\ N <= BufferSize
  BY <1>3, LenProperties, BufferAssumption DEF BufferAssumption, TypeOK
<1>5. N >= 6 /\ ~Closes(buffer) /\ N >= frame_length(buffer)
  BY <1>1 DEF Complete
<1>6. k < n
  <2>1. k = n => N = 0
    BY <1>2, <1>3, NothingLeft DEF At
  <2> HIDE DEF n, N
  <2> QED
    BY <1>4, <1>5, <2>1
<1>7. /\ m \in Messages /\ l \in 6..BufferSize
      /\ N >= 6 => (Closes(buffer) <=> m = Close) /\ frame_length(buffer) = l
      /\ N >= l => /\ Unmasked(buffer) = Payload(m)
                   /\ SubSeq(buffer, l + 1, N) \in Seq(Byte)
                   /\ SubSeq(buffer, l + 1, N) \o wire = After(sent, j)
  <2>1. k \in Nat /\ k < Len(sent) /\ buffer \o wire = After(sent, k)
    BY <1>2, <1>4, <1>6 DEF At
  <2> QED
    BY <1>3, <2>1, StartOfBuffer
<1>8. /\ m \in Message /\ m # Close /\ N >= l /\ Unmasked(buffer) = Payload(m)
      /\ buffer' = SubSeq(buffer, l + 1, N)
      /\ buffer' \in Seq(Byte) /\ buffer' \o wire' = After(sent', j)
  <2>1. frame_length(buffer) = l /\ m # Close /\ N >= l
    BY <1>5, <1>7
  <2>2. m \in Message
    BY <1>7, MessagesAssumption DEF MessagesAssumption
  <2> QED
    BY <1>1, <1>7, <2>1, <2>2
<1>9. Len(buffer') <= BufferSize
  <2>1. l \in 0..N /\ N \in l..N /\ N - l \in Nat
    BY <1>4, <1>7, <1>8
  <2>2. Len(SubSeq(buffer, l + 1, N)) = N - l
    <3> HIDE DEF l
    <3> QED
      BY <1>3, <2>1, Piece
  <2> HIDE DEF l, N
  <2> QED
    BY <1>4, <1>7, <1>8, <2>1, <2>2
<1>10. acted' = Effects(sent', j) /\ acted' \in Seq(Acts)
  <2>1. handle(Unmasked(buffer)) = Effect(m)
    BY <1>8, PayloadHandled
  <2>2. k \in Nat /\ k < Len(sent) /\ j \in 0..Len(sent)
    BY <1>4, <1>6
  <2>3. Effects(sent, k + 1) = Effects(sent, k) \o Effect(sent[k + 1])
    BY <1>3, <2>2, EffectsStep
  <2>4. Effects(sent, j) \in Seq(Acts)
    <3> HIDE DEF j
    <3> QED
      BY <1>3, <2>2, EffectsStep
  <2>5. acted' = Effects(sent, j)
    BY <1>1, <1>2, <2>1, <2>3 DEF At
  <2> QED
    BY <1>1, <2>4, <2>5
<1>11. TypeOK'
  <2>1. acted \in Seq(Acts) /\ TypeOK
    BY <1>3 DEF TypeOK, Acts
  <2> QED
    BY <1>1, <1>3, <1>8, <1>9, <1>10 DEF TypeOK, Acts
<1>12. At(j)' /\ j \in 0..Len(sent')
  <2>1. j \in 0..n
    BY <1>4, <1>6
  <2>2. \A i \in 1..j : sent'[i] # Close
    <3>1. \A i \in 1..k : sent[i] # Close
      BY <1>2 DEF At, BeforeClose
    <3>2. sent[j] # Close
      BY <1>8
    <3>3. \A i \in 1..j : i \in 1..k \/ i = j
      BY <1>4
    <3> QED
      BY <1>1, <3>1, <3>2, <3>3
  <2>3. open' /\ ~reading' /\ sent' = sent
    BY <1>1
  <2> HIDE DEF j, m
  <2> QED
    BY <1>8, <1>10, <2>1, <2>2, <2>3 DEF At, BeforeClose, n
<1>13. (~open /\ reading => hungUp)'
  BY <1>1
<1> QED
  BY <1>11, <1>12, <1>13 DEF StreamInv

\* A frame that closes is the next message.
LEMMA CloseFrameStep == StreamInv /\ CloseFrame => StreamInv'
<1> SUFFICES ASSUME StreamInv, CloseFrame PROVE StreamInv'
  OBVIOUS
<1>1. /\ ~reading /\ Closes(buffer)
      /\ open' = FALSE /\ UNCHANGED <<wire, sent, hungUp, buffer, reading, acted>>
  BY DEF CloseFrame
<1>2. PICK k \in 0..Len(sent) : At(k)
  BY DEF StreamInv
<1>3. TypeOK /\ sent \in Seq(Messages) /\ buffer \in Seq(Byte)
  BY DEF StreamInv, TypeOK
<1>4. Len(sent) \in Nat /\ k \in 0..Len(sent) /\ Len(buffer) >= 6
  BY <1>1, <1>3, LenProperties DEF Closes
<1>5. k < Len(sent)
  <2>1. k = Len(sent) => Len(buffer) = 0
    BY <1>2, <1>3, NothingLeft DEF At
  <2> QED
    BY <1>4, <2>1
<1>6. sent[k + 1] = Close
  <2>1. k \in Nat /\ k < Len(sent) /\ buffer \o wire = After(sent, k)
    BY <1>2, <1>4, <1>5 DEF At
  <2>2. Len(buffer) >= 6 => (Closes(buffer) <=> sent[k + 1] = Close)
    BY <1>3, <2>1, StartOfBuffer
  <2> QED
    BY <1>1, <1>4, <2>2
<1>7. At(k)' /\ k \in 0..Len(sent')
  BY <1>1, <1>2, <1>5, <1>6 DEF At, BeforeClose
<1>8. TypeOK'
  BY <1>1, <1>3 DEF TypeOK
<1> QED
  BY <1>1, <1>7, <1>8 DEF StreamInv

\* The thread reads on only if the next message is not whole.
LEMMA ReadOnStep == StreamInv /\ ReadOn => StreamInv'
<1> SUFFICES ASSUME StreamInv, ReadOn PROVE StreamInv'
  OBVIOUS
<1>1. /\ open /\ ~Closes(buffer) /\ ~Complete(buffer)
      /\ reading' = TRUE /\ UNCHANGED <<wire, sent, hungUp, buffer, open, acted>>
  BY DEF ReadOn
<1>2. PICK k \in 0..Len(sent) : At(k)
  BY DEF StreamInv
<1>3. TypeOK /\ sent \in Seq(Messages) /\ buffer \in Seq(Byte)
  BY DEF StreamInv, TypeOK
<1>4. ASSUME k < Len(sent)
      PROVE  Len(buffer) < Len(Frame[sent[k + 1]])
  <2> DEFINE n == Len(Frame[sent[k + 1]])
             N == Len(buffer)
  <2>1. k \in Nat /\ k < Len(sent) /\ buffer \o wire = After(sent, k)
    BY <1>2, <1>4 DEF At
  <2>2. n \in 6..BufferSize /\ N \in Nat /\ BufferSize \in Nat
    <3>1. n \in 6..BufferSize
      BY <1>3, <2>1, StartOfBuffer
    <3>2. N \in Nat /\ BufferSize \in Nat
      BY <1>3, LenProperties, BufferAssumption DEF BufferAssumption
    <3> QED
      BY <3>1, <3>2
  <2>3. N >= 6 => frame_length(buffer) = n
    BY <1>3, <2>1, StartOfBuffer
  <2>4. N >= 6 => ~(N >= frame_length(buffer))
    BY <1>1 DEF Complete
  <2> HIDE DEF n, N
  <2>5. N < n
    BY <2>2, <2>3, <2>4
  <2> QED
    BY <2>5 DEF n, N
<1>5. At(k)' /\ k \in 0..Len(sent')
  BY <1>1, <1>2, <1>4 DEF At, BeforeClose
<1>6. TypeOK'
  BY <1>1, <1>3 DEF TypeOK
<1> QED
  BY <1>1, <1>5, <1>6 DEF StreamInv

\* The invariant is inductive.
LEMMA StreamSteps == StreamInv /\ [Next]_vars => StreamInv'
<1> SUFFICES ASSUME StreamInv, [Next]_vars PROVE StreamInv'
  OBVIOUS
<1>1. CASE UNCHANGED vars
  <2>1. UNCHANGED <<wire, sent, hungUp, buffer, reading, open, acted>>
    BY <1>1 DEF vars
  <2> QED
    BY <2>1 DEF StreamInv, TypeOK, At, BeforeClose
<1> QED
  BY <1>1, SendStep, HangUpStep, ReceiveStep, DisconnectStep, HandleStep, CloseFrameStep, ReadOnStep
  DEF Next

\* It holds of every behaviour of the server's thread and its peer.
LEMMA StreamAlways == Spec => []StreamInv
BY StreamInit, StreamSteps, PTL DEF Spec

\* The buffer holds bytes and never more than it has room for, and what has
\* been done is what messages mean (TypeOK of MessageStream).
THEOREM StreamTypes == Spec => []TypeOK
<1>1. StreamInv => TypeOK
  BY DEF StreamInv
<1> QED
  BY <1>1, StreamAlways, PTL

\* In read(), and after it, the messages that have arrived are those that have
\* been handled: the next one is not whole, or is there to close the
\* connection.
LEMMA HandledIsArrived == StreamInv => ActsOnWhatArrived
<1> SUFFICES ASSUME StreamInv, reading \/ ~open
             PROVE  acted = EffectOf(Max({n \in Arrived : BeforeClose(n)}))
  BY DEF ActsOnWhatArrived
<1>1. PICK k \in 0..Len(sent) : At(k)
  BY DEF StreamInv
<1> DEFINE S == {n \in Arrived : BeforeClose(n)}
           N == Len(sent)
           W == Len(wire)
           B == Len(buffer)
           L(n) == Len(After(sent, n))
<1>2. sent \in Seq(Messages) /\ buffer \in Seq(Byte) /\ wire \in Seq(Byte)
  BY DEF StreamInv, TypeOK
<1>3. N \in Nat /\ W \in Nat /\ B \in Nat /\ k \in 0..N
  BY <1>2, LenProperties
<1>4. L(k) = B + W /\ BeforeClose(k) /\ acted = Effects(sent, k)
  <2> DEFINE c == buffer \o wire
  <2>1. Len(c) = B + W
    BY <1>2, ConcatProperties
  <2>2. c = After(sent, k)
    BY <1>1 DEF At
  <2> HIDE DEF c, B, W
  <2> QED
    BY <1>1, <2>1, <2>2 DEF At
<1>5. S = {n \in 0..N : W <= L(n) /\ BeforeClose(n)}
  BY DEF Arrived, BytesAfter, After, FramesOf
<1> HIDE DEF S, L, N, W, B
<1>6. k \in S
  BY <1>3, <1>4, <1>5
<1>7. ASSUME NEW n \in S
      PROVE  n <= k
  <2>1. n \in 0..N /\ W <= L(n) /\ BeforeClose(n)
    BY <1>5
  <2> SUFFICES ASSUME n > k PROVE FALSE
    BY <1>3, <2>1
  <2> DEFINE f == Len(Frame[sent[k + 1]])
             j == k + 1
  <2>2. k \in Nat /\ k < N /\ j \in 0..N /\ n - j \in Nat /\ j + (n - j) = n /\ n <= N
    BY <1>3, <2>1
  <2>3. sent[k + 1] # Close
    <3>1. k + 1 \in 1..n
      BY <1>3, <2>1
    <3> QED
      BY <2>1, <3>1 DEF BeforeClose
  <2>4. /\ sent[k + 1] \in Messages /\ After(sent, k + 1) \in Seq(Byte)
        /\ L(k) = f + L(k + 1)
    BY <1>2, <2>2, AfterStep DEF L, N
  <2> HIDE DEF j
  <2>5. L(n) \in Nat /\ L(n) <= L(j)
    <3>1. After(sent, j + (n - j)) \in Seq(Byte) /\ Len(After(sent, j + (n - j))) <= Len(After(sent, j))
      BY <1>2, <2>2, AfterLess DEF N
    <3>2. After(sent, n) \in Seq(Byte) /\ Len(After(sent, n)) <= Len(After(sent, j))
      BY <2>2, <3>1
    <3>3. Len(After(sent, n)) \in Nat
      BY <3>2, LenProperties
    <3> QED
      BY <3>2, <3>3 DEF L
  <2>6. L(j) \in Nat /\ f \in Nat /\ L(k) = f + L(j)
    <3>1. Len(After(sent, k + 1)) \in Nat
      BY <2>4, LenProperties
    <3>2. Frame[sent[k + 1]] \in Seq(Byte)
      BY <2>4, FrameParts
    <3>3. f \in Nat
      BY <3>2, LenProperties
    <3> QED
      BY <2>4, <3>1, <3>3 DEF L, j
  <2> HIDE DEF f
  <2>7. B >= f
    BY <1>3, <1>4, <2>1, <2>5, <2>6
  <2>8. CASE reading
    <3>1. B < f
      BY <1>1, <2>2, <2>8 DEF At, B, f, N
    <3> QED
      BY <1>3, <2>6, <2>7, <3>1
  <2>9. CASE ~reading /\ ~open
    BY <1>1, <2>3, <2>9 DEF At
  <2> QED
    BY <2>8, <2>9
<1>8. \A n \in S : n \in Nat
  BY <1>3, <1>5
<1>9. Max(S) = k
  <2> DEFINE x == CHOOSE x \in S : \A y \in S : x >= y
  <2>1. \A y \in S : k >= y
    BY <1>3, <1>7, <1>8
  <2>2. x \in S /\ \A y \in S : x >= y
    BY <1>6, <2>1
  <2> HIDE DEF x
  <2>3. x = k
    BY <1>3, <1>6, <1>8, <2>1, <2>2
  <2> QED
    BY <2>3 DEF Max, x
<1>10. Effects(sent, k) = EffectOf(k)
  BY DEF Effects, EffectOf
<1> QED
  BY <1>4, <1>9, <1>10 DEF S

\* However the stream is cut, the handler has done what the messages that have
\* arrived ask for whenever its thread is in read() or has left its loop
\* (ActsOnWhatArrived of MessageStream).
THEOREM EveryMessageIsHandled == Spec => []ActsOnWhatArrived
BY StreamAlways, HandledIsArrived, PTL

\* The thread ends a connection only if the peer has closed it or said that
\* it will (ClosedByPeer of MessageStream).
THEOREM OnlyThePeerCloses == Spec => []ClosedByPeer
<1>1. StreamInv => ClosedByPeer
  <2> SUFFICES ASSUME StreamInv, ~open, ~hungUp
               PROVE  \E i \in DOMAIN sent : sent[i] = Close
    BY DEF ClosedByPeer
  <2>1. PICK k \in 0..Len(sent) : At(k)
    BY DEF StreamInv
  <2>2. k < Len(sent) /\ sent[k + 1] = Close
    BY <2>1 DEF StreamInv, At, TypeOK
  <2>3. k + 1 \in DOMAIN sent
    <3>1. sent \in Seq(Messages)
      BY DEF StreamInv, TypeOK
    <3>2. DOMAIN sent = 1..Len(sent) /\ Len(sent) \in Nat
      BY <3>1, LenProperties
    <3> QED
      BY <2>2, <3>2
  <2> QED
    BY <2>2, <2>3
<1> QED
  BY <1>1, StreamAlways, PTL

==============================================================================
