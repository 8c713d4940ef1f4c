---------------------------- MODULE CodecProofs -----------------------------
(***************************************************************************)
(* Numbers, strings, typed data, items, messages, actions and whole        *)
(* payloads: what an encoder wrote is read back, whatever follows it, and  *)
(* what a decoder accepts could have been written.  For every word size    *)
(* and every length the scratch array of PutUvarint may have.              *)
(***************************************************************************)
EXTENDS FrameCodec, WellFoundedInduction, SequenceTheorems, TLAPS

USE ZenonT(2), SMTT(60), SMTT(59)

(* A set of natural numbers that is not empty has a least one: what every  *)
(* induction below rests on.                                               *)
LEMMA Least ==
    ASSUME NEW T, T \subseteq Nat, T # {} PROVE \E n \in T : \A k \in T : n <= k
<1> DEFINE R == OpToRel(<, Nat)
<1>1. IsWellFoundedOn(R, Nat)
  BY NatLessThanWellFounded, Zenon
<1>2. \A x, y \in Nat : x < y => <<x, y>> \in R
  BY Zenon DEF OpToRel
<1> HIDE DEF R
<1>3. PICK n \in T : \A k \in T : ~(<<k, n>> \in R)
  BY <1>1, WFMin, Zenon
<1>4. \A k \in T : n \in Nat /\ k \in Nat /\ ~(k < n)
  BY <1>2, <1>3, Zenon
<1>5. \A k \in T : n <= k
  BY <1>4
<1> QED
  BY <1>5

(* A set that holds 0, and n + 1 whenever it holds n, holds every number.  *)
LEMMA Induction ==
    ASSUME NEW P, 0 \in P, \A n \in Nat : n \in P => n + 1 \in P PROVE Nat \subseteq P
<1> SUFFICES ASSUME Nat \ P # {} PROVE FALSE
  OBVIOUS
<1>1. PICK n \in Nat \ P : \A k \in Nat \ P : n <= k
  BY Least, Zenon
<1>2. n - 1 \in Nat /\ n - 1 \in P
  BY <1>1
<1> QED
  BY <1>1, <1>2

(* A function may be defined by recursion if the argument's measure drops: *)
(* from the values b where it ends, and otherwise, by c, from the argument *)
(* and the value that the next one has.                                    *)
Drops(D, S, base, mu, next, b, c) ==
    /\ base \subseteq D /\ mu \in [D -> Nat] /\ next \in [D \ base -> D]
    /\ \A x \in D \ base : mu[next[x]] < mu[x]
    /\ b \in [base -> S] /\ c \in [D \ base -> [S -> S]]

Satisfies(f, D, S, base, next, b, c) ==
    /\ f \in [D -> S]
    /\ \A x \in D : f[x] = IF x \in base THEN b[x] ELSE c[x][f[next[x]]]

(* Such a function exists.                                                 *)
LEMMA Recursion ==
    ASSUME NEW D, NEW S, NEW base, NEW mu, NEW next, NEW b, NEW c,
           Drops(D, S, base, mu, next, b, c)
    PROVE  \E f : Satisfies(f, D, S, base, next, b, c)
<1> USE DEF Drops
<1> DEFINE below(n) == {x \in D : mu[x] < n}
           right(g, n) == \A x \in below(n) :
                              g[x] = IF x \in base THEN b[x] ELSE c[x][g[next[x]]]
           P == {n \in Nat : \E g \in [below(n) -> S] : right(g, n)}
<1>0. ASSUME NEW n \in Nat, NEW x \in below(n + 1), x \notin base
      PROVE  next[x] \in below(n)
  BY <1>0
<1>1. 0 \in P
  <2>1. below(0) = {}
    OBVIOUS
  <2>2. [x \in {} |-> x] \in [below(0) -> S]
    BY <2>1
  <2>3. right([x \in {} |-> x], 0)
    BY <2>1
  <2> QED
    BY <2>2, <2>3
<1>2. ASSUME NEW n \in Nat, n \in P PROVE n + 1 \in P
  <2>1. PICK g \in [below(n) -> S] : right(g, n)
    BY <1>2
  <2> DEFINE h == [x \in below(n + 1) |-> IF x \in base THEN b[x] ELSE c[x][g[next[x]]]]
  <2>2. below(n) \subseteq below(n + 1)
    OBVIOUS
  <2>3. ASSUME NEW x \in below(n + 1) PROVE h[x] \in S
    BY <1>0, <2>3
  <2>4. \A x \in below(n) : h[x] = g[x]
    BY <2>1, <2>2
  <2>5. right(h, n + 1)
    BY <1>0, <2>4
  <2>6. h \in [below(n + 1) -> S]
    BY <2>3
  <2>7. n + 1 \in Nat
    OBVIOUS
  <2> HIDE DEF h, right, below
  <2> QED
    BY <2>5, <2>6, <2>7, Zenon
<1>3. \A n \in Nat : \E g \in [below(n) -> S] : right(g, n)
  <2> HIDE DEF P
  <2>1. Nat \subseteq P
    BY <1>1, <1>2, Induction, Zenon
  <2> QED
    BY <2>1, Zenon DEF P
<1> DEFINE G(n) == CHOOSE g \in [below(n) -> S] : right(g, n)
<1>4. \A n \in Nat : G(n) \in [below(n) -> S] /\ right(G(n), n)
  BY <1>3, Zenon
<1> HIDE DEF G
<1>e. ASSUME NEW n \in Nat, NEW x \in below(n)
      PROVE  /\ G(n)[x] \in S
             /\ G(n)[x] = IF x \in base THEN b[x] ELSE c[x][G(n)[next[x]]]
  BY <1>4, <1>e
(* Two of them agree where both are defined.                               *)
<1>5. ASSUME NEW m \in Nat, NEW n \in Nat, NEW x \in below(m), x \in below(n)
      PROVE  G(m)[x] = G(n)[x]
  <2> DEFINE bad == {k \in Nat : \E y \in below(m) \cap below(n) :
                                    mu[y] = k /\ G(m)[y] # G(n)[y]}
  <2> SUFFICES bad = {}
    BY <1>5
  <2> SUFFICES ASSUME bad # {} PROVE FALSE
    OBVIOUS
  <2>1. PICK k \in bad : \A j \in bad : k <= j
    BY Least, Zenon
  <2>2. PICK y \in below(m) \cap below(n) : mu[y] = k /\ G(m)[y] # G(n)[y]
    BY <2>1
  <2>3. y \notin base
    BY <1>e, <2>2
  <2>4. next[y] \in below(m) \cap below(n) /\ mu[next[y]] \in Nat /\ mu[next[y]] < k
    BY <2>2, <2>3
  <2>5. G(m)[next[y]] = G(n)[next[y]]
    BY <2>1, <2>4
  <2>6. \A j \in {m, n} : G(j)[y] = c[y][G(j)[next[y]]]
    BY <1>e, <2>2, <2>3
  <2> QED
    BY <2>2, <2>5, <2>6, Zenon
<1> DEFINE f == [x \in D |-> G(mu[x] + 1)[x]]
<1>6. \A x \in D : mu[x] + 1 \in Nat /\ x \in below(mu[x] + 1)
  OBVIOUS
<1>7. f \in [D -> S]
  <2>1. \A x \in D : G(mu[x] + 1)[x] \in S
    BY <1>e, <1>6
  <2> QED
    BY <2>1
<1>8. ASSUME NEW x \in D PROVE f[x] = IF x \in base THEN b[x] ELSE c[x][f[next[x]]]
  <2>1. CASE x \in base
    BY <1>e, <1>6, <2>1
  <2>2. CASE x \notin base
    <3>1. next[x] \in D /\ next[x] \in below(mu[x] + 1)
      BY <2>2
    <3>2. G(mu[x] + 1)[next[x]] = f[next[x]]
      BY <1>5, <1>6, <3>1
    <3> QED
      BY <1>e, <1>6, <2>2, <3>2
  <2> QED
    BY <2>1, <2>2
<1> HIDE DEF f
<1> QED
  BY <1>7, <1>8 DEF Satisfies

-----------------------------------------------------------------------------
(* What is defined by such a recursion has values in S.                    *)
Follows(f, D, S, base, next, b, c) ==
    \A x \in D : /\ x \in base => f[x] = b[x]
                 /\ x \notin base /\ f[next[x]] \in S => f[x] = c[x][f[next[x]]]

(* Whatever satisfies such a recursive definition has values of the type   *)
(* S.                                                                      *)
LEMMA Typed ==
    ASSUME NEW D, NEW S, NEW base, NEW mu, NEW next, NEW b, NEW c, NEW f,
           Drops(D, S, base, mu, next, b, c), Follows(f, D, S, base, next, b, c)
    PROVE  \A x \in D : f[x] \in S
<1> USE DEF Drops, Follows
<1> DEFINE bad == {k \in Nat : \E y \in D : mu[y] = k /\ f[y] \notin S}
<1> SUFFICES ASSUME NEW x \in D, f[x] \notin S PROVE FALSE
  OBVIOUS
<1>1. mu[x] \in bad /\ bad \subseteq Nat
  OBVIOUS
<1>2. PICK k \in bad : \A j \in bad : k <= j
  <2> HIDE DEF bad
  <2> QED
    BY <1>1, Least
<1>3. PICK y \in D : mu[y] = k /\ f[y] \notin S
  BY <1>2
<1>4. y \notin base
  BY <1>3
<1>5. next[y] \in D /\ mu[next[y]] \in Nat /\ mu[next[y]] < k
  BY <1>3, <1>4
<1>6. f[next[y]] \in S
  BY <1>2, <1>5
<1> QED
  BY <1>3, <1>4, <1>6

(* The recursive definition of Reach, as an equation.                      *)
LEMMA ReachIs ==
    /\ \A k \in Nat : Reach[k] \in Nat
    /\ \A k \in Nat : Reach[k] = IF k = 0 THEN 0 ELSE 128 + 128 * Reach[k - 1]
<1> DEFINE base == {0}
           next == [k \in Nat \ base |-> k - 1]
           mu == [k \in Nat |-> k]
           b == [k \in base |-> 0]
           c == [k \in Nat \ base |-> [r \in Nat |-> 128 + 128 * r]]
<1>a. \A k \in Nat : k \in base <=> k = 0
  OBVIOUS
<1>b. \A k \in base : b[k] = 0
  BY Zenon
<1>c. \A k \in Nat \ base : next[k] = k - 1
  BY Zenon
<1>d. \A k \in Nat \ base : \A r \in Nat : c[k][r] = 128 + 128 * r
  BY Zenon
<1>1. Drops(Nat, Nat, base, mu, next, b, c)
  <2>1. base \subseteq Nat /\ mu \in [Nat -> Nat] /\ b \in [base -> Nat]
    OBVIOUS
  <2>2. next \in [Nat \ base -> Nat] /\ \A x \in Nat \ base : mu[next[x]] < mu[x]
    OBVIOUS
  <2>3. c \in [Nat \ base -> [Nat -> Nat]]
    OBVIOUS
  <2> HIDE DEF base, next, mu, b, c
  <2> QED
    BY <2>1, <2>2, <2>3, Zenon DEF Drops
<1> HIDE DEF base, next, mu, b, c
<1>2. PICK f : Satisfies(f, Nat, Nat, base, next, b, c)
  BY <1>1, Recursion, Zenon
<1>3. ASSUME NEW k \in Nat PROVE f[k] = IF k = 0 THEN 0 ELSE 128 + 128 * f[k - 1]
  <2>1. f[k] = IF k \in base THEN b[k] ELSE c[k][f[next[k]]]
    BY <1>2, Zenon DEF Satisfies
  <2>2. CASE k \in base
    BY <1>a, <1>b, <2>1, <2>2, Zenon
  <2>3. CASE k \notin base
    <3>1. next[k] \in Nat /\ f[next[k]] \in Nat
      BY <1>1, <1>2, <2>3, Zenon DEF Satisfies, Drops
    <3>2. next[k] = k - 1 /\ c[k][f[next[k]]] = 128 + 128 * f[next[k]]
      BY <1>c, <1>d, <2>3, <3>1, ZenonT(60)
    <3>3. f[k] = 128 + 128 * f[k - 1]
      BY <2>1, <2>3, <3>2, Zenon
    <3> QED
      BY <1>a, <2>3, <3>3, Zenon
  <2> QED
    BY <2>2, <2>3, Zenon
<1>4. f = [k \in Nat |-> IF k = 0 THEN 0 ELSE 128 + 128 * f[k - 1]]
  <2>1. f = [k \in Nat |-> f[k]]
    BY <1>2, Zenon DEF Satisfies
  <2> QED
    BY <1>3, <2>1, Zenon
<1>5. Reach = [k \in Nat |-> IF k = 0 THEN 0 ELSE 128 + 128 * Reach[k - 1]]
  BY <1>4, ZenonT(60) DEF Reach
<1>6. \A k \in Nat : Reach[k] = IF k = 0 THEN 0 ELSE 128 + 128 * Reach[k - 1]
  BY <1>5, Zenon
<1>7. Follows(Reach, Nat, Nat, base, next, b, c)
  <2>1. ASSUME NEW k \in Nat, k \in base PROVE Reach[k] = b[k]
    BY <1>6, <1>a, <1>b, <2>1, ZenonT(60)
  <2>2. ASSUME NEW k \in Nat, k \notin base, Reach[next[k]] \in Nat
        PROVE  Reach[k] = c[k][Reach[next[k]]]
    <3>1. Reach[k] = 128 + 128 * Reach[k - 1]
      BY <1>6, <1>a, <2>2, Zenon
    <3>2. next[k] = k - 1 /\ c[k][Reach[next[k]]] = 128 + 128 * Reach[next[k]]
      BY <1>c, <1>d, <2>2, ZenonT(60)
    <3> QED
      BY <3>1, <3>2, Zenon
  <2> QED
    BY <2>1, <2>2, Zenon DEF Follows
<1> QED
  BY <1>1, <1>6, <1>7, Typed, ZenonT(60)

(* The recursive definition of Continuation, as an equation.               *)
LEMMA ContinuationIs ==
    /\ \A n \in Nat : Continuation[n] \in Seq(Byte)
    /\ \A n \in Nat : Continuation[n] =
          IF n < 128 THEN <<n>> ELSE <<128 + (n % 128)>> \o Continuation[(n - 128) \div 128]
<1> DEFINE base == 0 .. 127
           next == [n \in Nat \ base |-> (n - 128) \div 128]
           mu == [n \in Nat |-> n]
           b == [n \in base |-> <<n>>]
           c == [n \in Nat \ base |-> [s \in Seq(Byte) |-> <<128 + (n % 128)>> \o s]]
<1>a. \A n \in Nat : n \in base <=> n < 128
  OBVIOUS
<1>b. \A n \in base : b[n] = <<n>>
  BY Zenon
<1>c. \A n \in Nat \ base : next[n] = (n - 128) \div 128
  BY Zenon
<1>d. \A n \in Nat \ base : \A s \in Seq(Byte) : c[n][s] = <<128 + (n % 128)>> \o s
  BY Zenon
<1>1. Drops(Nat, Seq(Byte), base, mu, next, b, c)
  <2>1. \A n \in Nat \ base : /\ (n - 128) \div 128 \in Nat
                              /\ (n - 128) \div 128 < n
                              /\ 128 + (n % 128) \in Byte
    BY DEF Byte
  <2>2. \A n \in base : n \in Nat /\ <<n>> \in Seq(Byte)
    BY DEF Byte
  <2>3. ASSUME NEW n \in Nat \ base, NEW s \in Seq(Byte)
        PROVE  <<128 + (n % 128)>> \o s \in Seq(Byte)
    <3> HIDE DEF base
    <3> QED
      BY <2>1
  <2>4. base \subseteq Nat /\ mu \in [Nat -> Nat] /\ b \in [base -> Seq(Byte)]
    BY <2>2, Zenon
  <2>5. next \in [Nat \ base -> Nat] /\ \A n \in Nat \ base : mu[next[n]] < mu[n]
    BY <2>1, Zenon
  <2>6. c \in [Nat \ base -> [Seq(Byte) -> Seq(Byte)]]
    BY <2>3, Zenon
  <2> HIDE DEF base, next, mu, b, c
  <2> QED
    BY <2>4, <2>5, <2>6, Zenon DEF Drops
<1> HIDE DEF base, next, mu, b, c
<1>2. PICK f : Satisfies(f, Nat, Seq(Byte), base, next, b, c)
  BY <1>1, Recursion, Zenon
<1>3. ASSUME NEW n \in Nat PROVE f[n] = IF n < 128 THEN <<n>> ELSE <<128 + (n % 128)>> \o f[(n - 128) \div 128]
  <2>1. f[n] = IF n \in base THEN b[n] ELSE c[n][f[next[n]]]
    BY <1>2, Zenon DEF Satisfies
  <2>2. CASE n \in base
    BY <1>a, <1>b, <2>1, <2>2, Zenon
  <2>3. CASE n \notin base
    <3>1. next[n] \in Nat /\ f[next[n]] \in Seq(Byte)
      BY <1>1, <1>2, <2>3, Zenon DEF Satisfies, Drops
    <3>2. next[n] = (n - 128) \div 128 /\ c[n][f[next[n]]] = <<128 + (n % 128)>> \o f[next[n]]
      BY <1>c, <1>d, <2>3, <3>1, ZenonT(60)
    <3>3. f[n] = <<128 + (n % 128)>> \o f[(n - 128) \div 128]
      BY <2>1, <2>3, <3>2, Zenon
    <3> QED
      BY <1>a, <2>3, <3>3, Zenon
  <2> QED
    BY <2>2, <2>3, Zenon
<1>4. f = [n \in Nat |-> IF n < 128 THEN <<n>> ELSE <<128 + (n % 128)>> \o f[(n - 128) \div 128]]
  <2>1. f = [n \in Nat |-> f[n]]
    BY <1>2, Zenon DEF Satisfies
  <2> QED
    BY <1>3, <2>1, ZenonT(60)
<1>5. Continuation = [n \in Nat |-> IF n < 128 THEN <<n>> ELSE <<128 + (n % 128)>> \o Continuation[(n - 128) \div 128]]
  BY <1>4, ZenonT(60) DEF Continuation
<1>6. \A n \in Nat : Continuation[n] = IF n < 128 THEN <<n>> ELSE <<128 + (n % 128)>> \o Continuation[(n - 128) \div 128]
  BY <1>5, Zenon
<1>7. Follows(Continuation, Nat, Seq(Byte), base, next, b, c)
  <2>1. ASSUME NEW n \in Nat, n \in base PROVE Continuation[n] = b[n]
    <3>1. n < 128
      BY <1>a, <2>1, Zenon
    <3>2. Continuation[n] = <<n>>
      BY <1>6, <3>1, Zenon
    <3> QED
      BY <1>b, <2>1, <3>2, Zenon
  <2>2. ASSUME NEW n \in Nat, n \notin base, Continuation[next[n]] \in Seq(Byte)
        PROVE  Continuation[n] = c[n][Continuation[next[n]]]
    <3>1. Continuation[n] = <<128 + (n % 128)>> \o Continuation[(n - 128) \div 128]
      BY <1>6, <1>a, <2>2, ZenonT(60)
    <3>2. next[n] = (n - 128) \div 128 /\ c[n][Continuation[next[n]]] = <<128 + (n % 128)>> \o Continuation[next[n]]
      BY <1>c, <1>d, <2>2, ZenonT(60)
    <3> QED
      BY <3>1, <3>2, Zenon
  <2> QED
    BY <2>1, <2>2, Zenon DEF Follows
<1> QED
  BY <1>1, <1>6, <1>7, Typed, ZenonT(60)

(* What a decoder may return, of values in V.                              *)
Result(V) == {Error} \cup [val : V, n : Nat]

(* The recursive definition of Continued, as an equation.                  *)
LEMMA ContinuedIs ==
    /\ \A buf \in Seq(Byte) : Continued[buf] \in Result(Nat)
    /\ \A buf \in Seq(Byte) : Continued[buf] =
          IF buf = <<>> THEN Error
          ELSE IF buf[1] < 128 THEN Ok(buf[1], 1)
          ELSE Plus(buf[1], 128, Continued[Tail(buf)])
<1> DEFINE base == {buf \in Seq(Byte) : buf = <<>> \/ buf[1] < 128}
           next == [buf \in Seq(Byte) \ base |-> Tail(buf)]
           mu == [buf \in Seq(Byte) |-> Len(buf)]
           b == [buf \in base |-> IF buf = <<>> THEN Error ELSE Ok(buf[1], 1)]
           c == [buf \in Seq(Byte) \ base |-> [r \in Result(Nat) |-> Plus(buf[1], 128, r)]]
<1>a. \A buf \in Seq(Byte) : buf \in base <=> buf = <<>> \/ buf[1] < 128
  OBVIOUS
<1>b. \A buf \in base : b[buf] = IF buf = <<>> THEN Error ELSE Ok(buf[1], 1)
  BY Zenon
<1>c. \A buf \in Seq(Byte) \ base : next[buf] = Tail(buf)
  BY Zenon
<1>d. \A buf \in Seq(Byte) \ base : \A r \in Result(Nat) : c[buf][r] = Plus(buf[1], 128, r)
  BY Zenon
<1>1. Drops(Seq(Byte), Result(Nat), base, mu, next, b, c)
  <2>1. ASSUME NEW buf \in Seq(Byte), buf # <<>>
        PROVE  /\ Tail(buf) \in Seq(Byte) /\ Len(buf) \in Nat
               /\ Len(Tail(buf)) < Len(buf) /\ buf[1] \in Byte
    BY <2>1
  <2>2. ASSUME NEW byte \in Byte PROVE Ok(byte, 1) \in Result(Nat)
    BY DEF Result, Byte, Ok
  <2>3. ASSUME NEW byte \in Byte, NEW r \in Result(Nat) PROVE Plus(byte, 128, r) \in Result(Nat)
    BY WordAssumption DEF Result, Plus, AndThen, Failed, Ok, Error, Byte
  <2>4. base \subseteq Seq(Byte) /\ mu \in [Seq(Byte) -> Nat]
    OBVIOUS
  <2>5. \A buf \in Seq(Byte) : mu[buf] = Len(buf)
    BY Zenon
  <2>6. \A buf \in base : buf \in Seq(Byte)
    BY <2>4, Zenon
  <2> HIDE DEF base, mu
  <2>7. next \in [Seq(Byte) \ base -> Seq(Byte)]
    BY <1>a, <2>1, Zenon
  <2>8. \A buf \in Seq(Byte) \ base : mu[next[buf]] < mu[buf]
    BY <1>a, <1>c, <2>1, <2>5, Zenon
  <2>9. b \in [base -> Result(Nat)]
    BY <2>1, <2>2, <2>6, Zenon DEF Result
  <2>10. c \in [Seq(Byte) \ base -> [Result(Nat) -> Result(Nat)]]
    BY <1>a, <2>1, <2>3, Zenon
  <2> HIDE DEF next, b, c
  <2> QED
    BY <2>4, <2>7, <2>8, <2>9, <2>10, Zenon DEF Drops
<1> HIDE DEF base, next, mu, b, c
<1>2. PICK f : Satisfies(f, Seq(Byte), Result(Nat), base, next, b, c)
  BY <1>1, Recursion, Zenon
<1>3. ASSUME NEW buf \in Seq(Byte) PROVE f[buf] = IF buf = <<>> THEN Error ELSE IF buf[1] < 128 THEN Ok(buf[1], 1) ELSE Plus(buf[1], 128, f[Tail(buf)])
  <2>1. f[buf] = IF buf \in base THEN b[buf] ELSE c[buf][f[next[buf]]]
    BY <1>2, Zenon DEF Satisfies
  <2>2. CASE buf \in base
    BY <1>a, <1>b, <2>1, <2>2, Zenon
  <2>3. CASE buf \notin base
    <3>1. next[buf] \in Seq(Byte) /\ f[next[buf]] \in Result(Nat)
      BY <1>1, <1>2, <2>3, Zenon DEF Satisfies, Drops
    <3>2. next[buf] = Tail(buf) /\ c[buf][f[next[buf]]] = Plus(buf[1], 128, f[next[buf]])
      BY <1>c, <1>d, <2>3, <3>1, Zenon
    <3>3. f[buf] = Plus(buf[1], 128, f[Tail(buf)])
      BY <2>1, <2>3, <3>2, Zenon
    <3> QED
      BY <1>a, <2>3, <3>3, Zenon
  <2> QED
    BY <2>2, <2>3, Zenon
<1>4. f = [buf \in Seq(Byte) |-> IF buf = <<>> THEN Error ELSE IF buf[1] < 128 THEN Ok(buf[1], 1) ELSE Plus(buf[1], 128, f[Tail(buf)])]
  <2>1. f = [buf \in Seq(Byte) |-> f[buf]]
    BY <1>2, Zenon DEF Satisfies
  <2> QED
    BY <1>3, <2>1, Zenon
<1>5. Continued = [buf \in Seq(Byte) |-> IF buf = <<>> THEN Error ELSE IF buf[1] < 128 THEN Ok(buf[1], 1) ELSE Plus(buf[1], 128, Continued[Tail(buf)])]
  BY <1>4, Zenon DEF Continued
<1>6. \A buf \in Seq(Byte) : Continued[buf] = IF buf = <<>> THEN Error ELSE IF buf[1] < 128 THEN Ok(buf[1], 1) ELSE Plus(buf[1], 128, Continued[Tail(buf)])
  BY <1>5, Zenon
<1>7. Follows(Continued, Seq(Byte), Result(Nat), base, next, b, c)
  <2>1. ASSUME NEW buf \in Seq(Byte), buf \in base PROVE Continued[buf] = b[buf]
    <3>1. buf = <<>> \/ buf[1] < 128
      BY <1>a, <2>1, Zenon
    <3>2. Continued[buf] = IF buf = <<>> THEN Error ELSE Ok(buf[1], 1)
      BY <1>6, <3>1, Zenon
    <3> QED
      BY <1>b, <2>1, <3>2, Zenon
  <2>2. ASSUME NEW buf \in Seq(Byte), buf \notin base, Continued[next[buf]] \in Result(Nat)
        PROVE  Continued[buf] = c[buf][Continued[next[buf]]]
    <3>1. Continued[buf] = Plus(buf[1], 128, Continued[Tail(buf)])
      BY <1>6, <1>a, <2>2, Zenon
    <3>2. next[buf] = Tail(buf) /\ c[buf][Continued[next[buf]]] = Plus(buf[1], 128, Continued[next[buf]])
      BY <1>c, <1>d, <2>2, Zenon
    <3> QED
      BY <3>1, <3>2, Zenon
  <2> QED
    BY <2>1, <2>2, Zenon DEF Follows
<1> QED
  BY <1>1, <1>6, <1>7, Typed, Zenon

-----------------------------------------------------------------------------
(* Package varint.                                                         *)

(* How far k continuation bytes reach grows with k.                        *)
LEMMA ReachGrows == \A k \in Nat : \A j \in 0 .. k : Reach[j] <= Reach[k]
<1> DEFINE P == {k \in Nat : \A j \in 0 .. k : Reach[j] <= Reach[k]}
<1>1. 0 \in P
  BY ReachIs
<1>2. ASSUME NEW k \in Nat, k \in P PROVE k + 1 \in P
  <2>1. Reach[k] <= Reach[k + 1] /\ Reach[k + 1] \in Nat /\ k + 1 \in Nat
    <3>1. k + 1 \in Nat /\ k + 1 # 0 /\ (k + 1) - 1 = k
      OBVIOUS
    <3>2. Reach[k + 1] = 128 + 128 * Reach[k] /\ Reach[k] \in Nat
      BY <3>1, ReachIs
    <3> QED
      BY <3>1, <3>2
  <2>2. ASSUME NEW j \in 0 .. k + 1 PROVE Reach[j] <= Reach[k + 1]
    <3>1. CASE j = k + 1
      BY <2>1, <3>1
    <3>2. CASE j # k + 1
      <4>1. j \in 0 .. k /\ Reach[j] \in Nat /\ Reach[k] \in Nat /\ Reach[j] <= Reach[k]
        BY <1>2, <3>2, ReachIs
      <4> QED
        BY <2>1, <4>1
    <3> QED
      BY <3>1, <3>2
  <2> QED
    BY <2>1, <2>2
<1> HIDE DEF P
<1>3. Nat \subseteq P
  BY <1>1, <1>2, Induction, Zenon
<1> QED
  BY <1>3, Zenon DEF P

(* One continuation byte reaches 128.                                      *)
LEMMA ReachOne == Reach[0] = 0 /\ Reach[1] = 128
<1>1. 0 \in Nat /\ 1 \in Nat /\ 1 # 0 /\ 1 - 1 = 0
  OBVIOUS
<1>2. Reach[0] = 0 /\ Reach[1] = 128 + 128 * Reach[0]
  BY <1>1, ReachIs, Zenon
<1> QED
  BY <1>2

(* Below MaxLen bytes no number wraps round.                               *)
LEMMA ReachFits ==
    ASSUME NEW k \in Nat, k <= MaxLen - 2
    PROVE  240 + 16 * Reach[k] < Word /\ Reach[k] \in Nat /\ Reach[k] < Word
<1>1. /\ MaxLen - 2 \in Nat /\ k \in 0 .. MaxLen - 2 /\ (MaxLen - 1) - 1 = MaxLen - 2
      /\ Table(MaxLen - 1) < Word
  BY MaxLenAssumption
<1>2. 240 + 16 * Reach[MaxLen - 2] < Word
  BY <1>1, Zenon DEF Table
<1>3. Reach[k] <= Reach[MaxLen - 2] /\ Reach[k] \in Nat /\ Reach[MaxLen - 2] \in Nat
  BY <1>1, ReachGrows, ReachIs, Zenon
<1> QED
  BY <1>2, <1>3, WordAssumption

(* A number's continuation is as long as its range says.                   *)
LEMMA ContinuationLength ==
    \A n \in Nat : /\ Len(Continuation[n]) \in Nat \ {0}
                   /\ Reach[Len(Continuation[n]) - 1] <= n
                   /\ n < Reach[Len(Continuation[n])]
<1> DEFINE Good(n) == /\ Len(Continuation[n]) \in Nat \ {0}
                      /\ Reach[Len(Continuation[n]) - 1] <= n
                      /\ n < Reach[Len(Continuation[n])]
           bad == {n \in Nat : ~Good(n)}
<1> SUFFICES ASSUME bad # {} PROVE FALSE
  BY Zenon
<1>1. PICK n \in bad : \A k \in bad : n <= k
  <2>1. bad \subseteq Nat
    OBVIOUS
  <2> HIDE DEF bad
  <2> QED
    BY <2>1, Least, Zenon
<1>2. n \in Nat /\ ~Good(n)
  BY Zenon
<1>r. Reach[0] = 0 /\ Reach[1] = 128
  BY ReachOne
<1>3. ~(n < 128)
  <2> SUFFICES ASSUME n < 128 PROVE FALSE
    OBVIOUS
  <2>1. Continuation[n] = <<n>>
    BY <1>2, ContinuationIs, Zenon
  <2>2. Len(Continuation[n]) = 1
    BY <2>1
  <2> QED
    BY <1>2, <1>r, <2>2
<1> DEFINE m == (n - 128) \div 128
           k == Len(Continuation[m])
<1>4. m \in Nat /\ m < n /\ 128 + 128 * m <= n /\ n < 256 + 128 * m
  BY <1>2, <1>3
<1>5. Good(m)
  <2> HIDE DEF Good, m
  <2>1. m \notin bad
    <3> HIDE DEF bad
    <3> QED
      BY <1>1, <1>2, <1>4
  <2> QED
    BY <1>4, <2>1, Zenon
<1>6. Continuation[n] = <<128 + (n % 128)>> \o Continuation[m]
  BY <1>2, <1>3, ContinuationIs, Zenon
<1>7. Len(Continuation[n]) = k + 1
  <2> HIDE DEF m
  <2>1. Continuation[m] \in Seq(Byte) /\ 128 + (n % 128) \in Byte
    BY <1>2, <1>4, ContinuationIs DEF Byte
  <2> QED
    BY <1>6, <2>1
<1> HIDE DEF m, k
<1>8. k \in Nat \ {0} /\ Reach[k - 1] <= m /\ m < Reach[k]
  BY <1>5, Zenon DEF k
<1>9. /\ Reach[k] = 128 + 128 * Reach[k - 1] /\ Reach[k + 1] = 128 + 128 * Reach[k]
      /\ Reach[k - 1] \in Nat /\ Reach[k] \in Nat
  <2>1. k + 1 \in Nat /\ k + 1 # 0 /\ (k + 1) - 1 = k /\ k \in Nat /\ k # 0 /\ k - 1 \in Nat
    BY <1>8
  <2> QED
    BY <2>1, ReachIs
<1>10. Reach[k] <= n /\ n < Reach[k + 1]
  BY <1>2, <1>4, <1>8, <1>9
<1>11. (k + 1) - 1 = k /\ k + 1 \in Nat \ {0}
  BY <1>8
<1> QED
  BY <1>2, <1>7, <1>10, <1>11, Zenon

(* Buffers are put together in any order.                                  *)
LEMMA Assoc ==
    \A a, b, c \in Seq(Byte) : (a \o b) \o c = a \o (b \o c) /\ a \o b \in Seq(Byte)
  BY ConcatAssociative, ConcatProperties

(* The first byte of a buffer, and the rest of it.                         *)
LEMMA FirstByte ==
    ASSUME NEW byte \in Byte, NEW s \in Seq(Byte), NEW r \in Seq(Byte)
    PROVE  /\ <<byte>> \o s \in Seq(Byte) /\ (<<byte>> \o s) \o r \in Seq(Byte)
           /\ (<<byte>> \o s) \o r # <<>>
           /\ ((<<byte>> \o s) \o r)[1] = byte
           /\ Tail((<<byte>> \o s) \o r) = s \o r
           /\ Len(<<byte>> \o s) = 1 + Len(s)
<1>1. s \o r \in Seq(Byte) /\ <<byte>> \in Seq(Byte)
  OBVIOUS
<1>2. (<<byte>> \o s) \o r = <<byte>> \o (s \o r)
  BY <1>1, ConcatAssociative
<1> QED
  BY <1>1, <1>2

(* Reading a continuation, whatever follows it.                            *)
LEMMA ContinuedContinuation ==
    ASSUME NEW r \in Seq(Byte)
    PROVE  \A n \in 0 .. Word - 1 :
              Continued[Continuation[n] \o r] = Ok(n, Len(Continuation[n]))
<1> DEFINE Good(n) == Continued[Continuation[n] \o r] = Ok(n, Len(Continuation[n]))
           bad == {n \in 0 .. Word - 1 : ~Good(n)}
<1> SUFFICES ASSUME bad # {} PROVE FALSE
  BY Zenon
<1>1. PICK n \in bad : \A k \in bad : n <= k
  <2>1. bad \subseteq Nat
    BY WordAssumption
  <2> HIDE DEF bad
  <2> QED
    BY <2>1, Least, Zenon
<1>2. n \in 0 .. Word - 1 /\ n \in Nat /\ ~Good(n)
  BY WordAssumption
<1>3. ~(n < 128)
  <2> SUFFICES ASSUME n < 128 PROVE FALSE
    OBVIOUS
  <2>0. Continuation[n] = <<n>>
    BY <1>2, ContinuationIs, Zenon
  <2>1. n \in Byte
    <3>1. n \in Nat
      BY <1>2, Zenon
    <3> QED
      BY <3>1 DEF Byte
  <2>2. <<n>> \o r \in Seq(Byte) /\ <<n>> \o r # <<>> /\ (<<n>> \o r)[1] = n /\ Len(<<n>>) = 1
    BY <2>1
  <2>3. Continued[<<n>> \o r] = Ok(n, 1)
    BY <2>2, ContinuedIs, Zenon
  <2> QED
    BY <1>2, <2>0, <2>2, <2>3, Zenon
<1> DEFINE m == (n - 128) \div 128
           byte == 128 + (n % 128)
           s == Continuation[m]
<1>4. m \in 0 .. Word - 1 /\ m \in Nat /\ m < n /\ byte + 128 * m = n /\ byte \in Byte /\ ~(byte < 128)
  BY <1>2, <1>3, WordAssumption DEF Byte
<1>5. Good(m)
  <2> HIDE DEF Good, m
  <2>1. m \notin bad
    <3> HIDE DEF bad
    <3> QED
      BY <1>1, <1>2, <1>4
  <2> QED
    BY <1>4, <2>1, Zenon
<1>6. Continuation[n] = <<byte>> \o s
  BY <1>2, <1>3, ContinuationIs, Zenon
<1> HIDE DEF m, byte
<1>7. s \in Seq(Byte)
  BY <1>4, ContinuationIs, Zenon
<1> HIDE DEF s
<1>f. /\ (<<byte>> \o s) \o r \in Seq(Byte) /\ (<<byte>> \o s) \o r # <<>>
      /\ ((<<byte>> \o s) \o r)[1] = byte /\ Tail((<<byte>> \o s) \o r) = s \o r
      /\ Len(<<byte>> \o s) = 1 + Len(s)
  <2>1. byte \in Byte
    BY <1>4, Zenon
  <2> QED
    BY <2>1, <1>7, FirstByte
<1>8. Continued[(<<byte>> \o s) \o r] = Plus(byte, 128, Continued[s \o r])
  BY <1>4, <1>f, ContinuedIs, ZenonT(60)
<1>9. Continued[s \o r] = Ok(m, Len(s))
  BY <1>5, Zenon DEF s
<1>10. Plus(byte, 128, Ok(m, Len(s))) = Ok(n % Word, 1 + Len(s))
  BY <1>4, <1>7 DEF Plus, AndThen, Failed, Ok
<1>11. n % Word = n
  BY <1>2, WordAssumption
<1> QED
  BY <1>2, <1>6, <1>8, <1>9, <1>10, <1>11, <1>f, Zenon

(* Induction over sequences, by their length.                              *)
LEMMA SeqInduction ==
    ASSUME NEW S, NEW P,
           \A s \in Seq(S) : (\A t \in Seq(S) : Len(t) < Len(s) => t \in P) => s \in P
    PROVE  Seq(S) \subseteq P
<1> DEFINE bad == {k \in Nat : \E s \in Seq(S) : Len(s) = k /\ s \notin P}
<1> SUFFICES ASSUME NEW s \in Seq(S), s \notin P PROVE FALSE
  OBVIOUS
<1>1. Len(s) \in bad /\ bad \subseteq Nat
  OBVIOUS
<1>2. PICK k \in bad : \A j \in bad : k <= j
  <2> HIDE DEF bad
  <2> QED
    BY <1>1, Least, Zenon
<1>3. PICK t \in Seq(S) : Len(t) = k /\ t \notin P
  BY <1>2, Zenon
<1>4. PICK u \in Seq(S) : Len(u) < Len(t) /\ u \notin P
  BY <1>3, Zenon
<1>5. Len(u) \in Nat /\ Len(u) < k
  BY <1>3, <1>4
<1>6. Len(u) \in bad
  BY <1>4, <1>5, Zenon
<1> HIDE DEF bad
<1> QED
  BY <1>1, <1>2, <1>5, <1>6

(* A buffer that is not empty is a byte and the rest.                      *)
LEMMA HeadAndRest ==
    ASSUME NEW S, NEW s \in Seq(S), s # <<>>
    PROVE  /\ s[1] \in S /\ Tail(s) \in Seq(S) /\ s = <<s[1]>> \o Tail(s)
           /\ Len(s) \in Nat \ {0} /\ Len(Tail(s)) \in Nat /\ Len(s) = 1 + Len(Tail(s))
<1>1. /\ s[1] \in S /\ Tail(s) \in Seq(S)
      /\ Len(s) \in Nat \ {0} /\ Len(Tail(s)) \in Nat /\ Len(s) = 1 + Len(Tail(s))
  OBVIOUS
<1>2. s = <<s[1]>> \o Tail(s)
  OBVIOUS
<1> QED
  BY <1>1, <1>2, Zenon

(* A byte fits a word.                                                     *)
LEMMA ByteFits ==
    ASSUME NEW byte \in Byte
    PROVE  byte \in Nat /\ byte \in 0 .. Word - 1 /\ (~(byte < 128) => byte \in 128 .. 255)
  BY WordAssumption DEF Byte

(* A byte with its top bit set, and the number v of the n bytes behind it. *)
LEMMA ContinuationByte ==
    ASSUME NEW byte \in 128 .. 255, NEW v \in 0 .. Word - 1
    PROVE  /\ byte + 128 * v \in Nat
           /\ ~(byte + 128 * v < 128)
           /\ 128 + ((byte + 128 * v) % 128) = byte
           /\ ((byte + 128 * v) - 128) \div 128 = v
           /\ (byte + 128 * v) % Word \in 0 .. Word - 1
<1>1. byte \in Nat /\ byte > 127 /\ byte < 256 /\ v \in Nat
  BY WordAssumption
<1>2. byte + 128 * v \in Nat
  BY <1>1
<1>3. \A w \in Nat : w % Word \in 0 .. Word - 1
  BY WordAssumption
<1>4. ~(byte + 128 * v < 128) /\ 128 + ((byte + 128 * v) % 128) = byte
  BY <1>1
<1>5. ((byte + 128 * v) - 128) \div 128 = v
  BY <1>1
<1> QED
  BY <1>2, <1>3, <1>4, <1>5, Zenon

(* A shift of less than MaxLen bytes loses nothing.                        *)
LEMMA NoWrap ==
    ASSUME NEW byte \in 128 .. 255, NEW v \in 0 .. Word - 1, NEW n \in Nat,
           v < Reach[n], 1 + n <= MaxLen - 2
    PROVE  byte + 128 * v < Reach[1 + n] /\ (byte + 128 * v) % Word = byte + 128 * v
<1>1. Reach[1 + n] = 128 + 128 * Reach[n] /\ Reach[n] \in Nat
  <2>1. 1 + n \in Nat /\ 1 + n # 0 /\ (1 + n) - 1 = n /\ n \in Nat
    OBVIOUS
  <2> QED
    BY <2>1, ReachIs, Zenon
<1>2. byte \in Nat /\ byte > 127 /\ byte < 256 /\ v \in Nat
  BY WordAssumption
<1>3. byte + 128 * v < Reach[1 + n] /\ byte + 128 * v \in Nat
  BY <1>1, <1>2
<1>4. Reach[1 + n] < Word /\ Reach[1 + n] \in Nat
  BY ReachFits
<1>5. byte + 128 * v < Word
  BY <1>2, <1>3, <1>4, WordAssumption
<1>6. \A w \in Nat : w < Word => w % Word = w
  BY WordAssumption
<1> QED
  BY <1>3, <1>5, <1>6, Zenon

(* What the continuation bytes hold: a number below Word; and where there  *)
(* are few enough of them, nothing wrapped round and the bytes are those   *)
(* that the number is written in.                                          *)
Holds(s, v, n) ==
    /\ v \in 0 .. Word - 1
    /\ n \in 1 .. Len(s)
    /\ n <= MaxLen - 2 =>
          /\ v < Reach[n] /\ Len(Continuation[v]) = n
          /\ \E rest \in Seq(Byte) : s = Continuation[v] \o rest

(* What Continued returns is an error or what a continuation stands for.   *)
LEMMA ContinuedResult ==
    ASSUME NEW buf \in Seq(Byte)
    PROVE  Continued[buf] = Error \/ \E v, n : Continued[buf] = Ok(v, n) /\ Holds(buf, v, n)
<1> DEFINE Good(s) == Continued[s] = Error \/ \E v, n : Continued[s] = Ok(v, n) /\ Holds(s, v, n)
           P == {s \in Seq(Byte) : Good(s)}
<1>1. ASSUME NEW s \in Seq(Byte), \A t \in Seq(Byte) : Len(t) < Len(s) => t \in P
      PROVE  Good(s)
  <2>1. CASE s = <<>>
    <3>1. Continued[s] = Error
      BY <2>1, ContinuedIs, Zenon
    <3> QED
      BY <3>1, Zenon
  <2>2. ASSUME s # <<>> PROVE Good(s)
    <3> DEFINE byte == s[1]
               t == Tail(s)
    <3>1. /\ byte \in Byte /\ t \in Seq(Byte) /\ s = <<byte>> \o t
          /\ Len(s) \in Nat \ {0} /\ Len(t) \in Nat /\ Len(s) = 1 + Len(t)
      BY <2>2, HeadAndRest, Zenon
    <3>2. Continued[s] = IF byte < 128 THEN Ok(byte, 1) ELSE Plus(byte, 128, Continued[t])
      BY <2>2, ContinuedIs, Zenon
    <3> HIDE DEF byte, t
    <3>3. byte \in Nat /\ byte \in 0 .. Word - 1 /\ (~(byte < 128) => byte \in 128 .. 255)
      BY <3>1, ByteFits, Zenon
    <3>4. CASE byte < 128
      <4>1. Continuation[byte] = <<byte>>
        BY <3>3, <3>4, ContinuationIs, Zenon
      <4>2. Len(<<byte>>) = 1 /\ 1 \in 1 .. Len(s)
        BY <3>1
      <4>3. byte < Reach[1]
        BY <3>4, ReachOne, Zenon
      <4>4. Holds(s, byte, 1)
        BY <3>1, <3>3, <4>1, <4>2, <4>3, Zenon DEF Holds
      <4>5. Continued[s] = Ok(byte, 1)
        BY <3>2, <3>4, Zenon
      <4> QED
        BY <4>4, <4>5, Zenon
    <3>5. CASE ~(byte < 128)
      <4>1. Len(t) < Len(s)
        BY <3>1
      <4>2. t \in P
        <5> HIDE DEF P
        <5> QED
          BY <1>1, <3>1, <4>1, Zenon
      <4>3. Good(t)
        BY <4>2, Zenon
      <4>4. CASE Continued[t] = Error
        <5>1. Plus(byte, 128, Error) = Error
          BY DEF Plus, AndThen, Failed, Error
        <5> QED
          BY <3>2, <3>5, <4>4, <5>1, Zenon
      <4>5. ASSUME NEW v, NEW n, Continued[t] = Ok(v, n), Holds(t, v, n)
            PROVE  Good(s)
        <5> DEFINE w == byte + 128 * v
        <5>1. v \in 0 .. Word - 1 /\ n \in 1 .. Len(t) /\ byte \in 128 .. 255
          BY <3>3, <3>5, <4>5, Zenon DEF Holds
        <5>2. n \in Nat \ {0} /\ 1 + n \in 1 .. Len(s)
          BY <3>1, <5>1
        <5>3. Continued[s] = Ok(w % Word, 1 + n)
          <6>1. Plus(byte, 128, Ok(v, n)) = Ok((byte + 128 * v) % Word, 1 + n)
            BY <5>2 DEF Plus, AndThen, Failed, Ok
          <6> QED
            BY <3>2, <3>5, <4>5, <6>1, Zenon
        <5>4. /\ w \in Nat
              /\ ~(w < 128)
              /\ 128 + (w % 128) = byte
              /\ (w - 128) \div 128 = v
              /\ w % Word \in 0 .. Word - 1
          BY <5>1, ContinuationByte, ZenonT(60)
        <5>5. w % Word \in 0 .. Word - 1
          BY <5>4, Zenon
        <5>6. ASSUME 1 + n <= MaxLen - 2
              PROVE  /\ w % Word = w /\ w < Reach[1 + n] /\ Len(Continuation[w]) = 1 + n
                     /\ \E rest \in Seq(Byte) : s = Continuation[w] \o rest
          <6>1. n <= MaxLen - 2
            BY <5>2, <5>6, MaxLenAssumption
          <6>2. v < Reach[n] /\ Len(Continuation[v]) = n
            BY <4>5, <6>1, Zenon DEF Holds
          <6>3. PICK rest \in Seq(Byte) : t = Continuation[v] \o rest
            BY <4>5, <6>1, Zenon DEF Holds
          <6>4. w % Word = w /\ w < Reach[1 + n]
            BY <5>1, <5>2, <5>6, <6>2, NoWrap, Zenon
          <6>5. Continuation[w] = <<byte>> \o Continuation[v] /\ Continuation[v] \in Seq(Byte)
            <7>1. v \in Nat
              BY <5>1, WordAssumption
            <7> HIDE DEF w
            <7> QED
              BY <5>4, <7>1, ContinuationIs, ZenonT(60)
          <6>6. (<<byte>> \o Continuation[v]) \o rest = <<byte>> \o (Continuation[v] \o rest)
            <7>1. <<byte>> \in Seq(Byte)
              BY <3>1
            <7> QED
              BY <6>5, <7>1, Assoc, ZenonT(60)
          <6>7. Len(<<byte>> \o Continuation[v]) = 1 + n
            <7>1. Continuation[v] \in Seq(Byte) /\ Len(Continuation[v]) = n
              BY <6>2, <6>5, Zenon
            <7> QED
              BY <3>1, <7>1, FirstByte
          <6>8. s = Continuation[w] \o rest
            BY <3>1, <6>3, <6>5, <6>6, Zenon
          <6> QED
            BY <6>4, <6>5, <6>7, <6>8, Zenon
        <5> HIDE DEF w
        <5>7. Holds(s, w % Word, 1 + n)
          <6>1. CASE 1 + n <= MaxLen - 2
            BY <5>2, <5>5, <5>6, <6>1, Zenon DEF Holds
          <6>2. CASE ~(1 + n <= MaxLen - 2)
            BY <5>2, <5>5, <6>2, Zenon DEF Holds
          <6> QED
            BY <6>1, <6>2, Zenon
        <5> QED
          BY <5>3, <5>7, Zenon
      <4> QED
        BY <4>3, <4>4, <4>5, Zenon
    <3> QED
      BY <3>4, <3>5, Zenon
  <2> QED
    BY <2>1, <2>2, Zenon
<1>2. Seq(Byte) \subseteq P
  <2>1. ASSUME NEW s \in Seq(Byte), \A t \in Seq(Byte) : Len(t) < Len(s) => t \in P
        PROVE  s \in P
    BY <1>1, <2>1, Zenon
  <2> HIDE DEF P
  <2> QED
    BY <2>1, SeqInduction, Zenon
<1> QED
  BY <1>2, Zenon

(* A number above 239: its low four bits, and what the other bytes hold.   *)
LEMMA HeadByte ==
    ASSUME NEW n \in Nat, ~(n < 240)
    PROVE  /\ (n - 240) \div 16 \in Nat
           /\ (n - 240) \div 16 <= n
           /\ 240 + (n % 16) \in Byte
           /\ ~(240 + (n % 16) < 240)
           /\ (240 + (n % 16)) + 16 * ((n - 240) \div 16) = n
  BY DEF Byte

(* PutUvarint writes at least one byte.                                    *)
LEMMA PutBytes == \A n \in Nat : PutUvarint(n) \in Seq(Byte) /\ Len(PutUvarint(n)) \in Nat \ {0}
<1> SUFFICES ASSUME NEW n \in Nat
             PROVE  PutUvarint(n) \in Seq(Byte) /\ Len(PutUvarint(n)) \in Nat \ {0}
  BY Zenon
<1>1. CASE n < 240
  <2>1. PutUvarint(n) = <<n>>
    BY <1>1, Zenon DEF PutUvarint
  <2>2. n \in Byte
    BY <1>1 DEF Byte
  <2> QED
    BY <2>1, <2>2
<1>2. CASE ~(n < 240)
  <2>1. PutUvarint(n) = <<240 + (n % 16)>> \o Continuation[(n - 240) \div 16]
    BY <1>2, Zenon DEF PutUvarint
  <2>2. 240 + (n % 16) \in Byte /\ Continuation[(n - 240) \div 16] \in Seq(Byte)
    <3>1. (n - 240) \div 16 \in Nat
      BY <1>2, HeadByte, ZenonT(60)
    <3>2. 240 + (n % 16) \in Byte
      BY <1>2, HeadByte, Zenon
    <3> QED
      BY <3>1, <3>2, ContinuationIs, Zenon
  <2> QED
    BY <2>1, <2>2
<1> QED
  BY <1>1, <1>2

(* What was put is read, whatever follows it.                              *)
LEMMA UvarintPut ==
    ASSUME NEW n \in 0 .. Word - 1, NEW r \in Seq(Byte)
    PROVE  Uvarint(PutUvarint(n) \o r) = Ok(n, Len(PutUvarint(n)))
<1>0. n \in Nat /\ n < Word
  BY WordAssumption
<1>1. CASE n < 240
  <2>1. PutUvarint(n) = <<n>> /\ n \in Byte
    BY <1>0, <1>1 DEF PutUvarint, Byte
  <2>2. <<n>> \o r # <<>> /\ (<<n>> \o r)[1] = n /\ Len(<<n>>) = 1
    BY <2>1
  <2> QED
    BY <1>1, <2>1, <2>2, Zenon DEF Uvarint
<1>2. CASE ~(n < 240)
  <2> DEFINE byte == 240 + (n % 16)
             m == (n - 240) \div 16
             s == Continuation[m]
  <2>1. /\ m \in Nat
        /\ m <= n
        /\ byte \in Byte
        /\ ~(byte < 240)
        /\ byte + 16 * m = n
    BY <1>0, <1>2, HeadByte, Zenon
  <2>2. PutUvarint(n) = <<byte>> \o s
    BY <1>2, Zenon DEF PutUvarint
  <2> HIDE DEF byte, m
  <2>3. m \in 0 .. Word - 1 /\ s \in Seq(Byte)
    <3>1. m \in 0 .. Word - 1
      BY <1>0, <2>1, WordAssumption
    <3> QED
      BY <2>1, <3>1, ContinuationIs, Zenon
  <2>4. Continued[s \o r] = Ok(m, Len(s))
    BY <2>3, ContinuedContinuation, Zenon
  <2> HIDE DEF s
  <2>5. /\ (<<byte>> \o s) \o r # <<>>
        /\ ((<<byte>> \o s) \o r)[1] = byte /\ Tail((<<byte>> \o s) \o r) = s \o r
        /\ Len(<<byte>> \o s) = 1 + Len(s)
    BY <2>1, <2>3, FirstByte
  <2>6. Uvarint((<<byte>> \o s) \o r) = Plus(byte, 16, Ok(m, Len(s)))
    BY <2>1, <2>4, <2>5, Zenon DEF Uvarint
  <2>7. Plus(byte, 16, Ok(m, Len(s))) = Ok(n % Word, 1 + Len(s))
    BY <2>1, <2>3 DEF Plus, AndThen, Failed, Ok
  <2>8. n % Word = n
    BY <1>0, WordAssumption
  <2> QED
    BY <2>2, <2>5, <2>6, <2>7, <2>8, Zenon
<1> QED
  BY <1>1, <1>2, Zenon

(* A byte above 239, and the number v of the bytes behind it.              *)
LEMMA HeadByteBack ==
    ASSUME NEW byte \in 240 .. 255, NEW v \in 0 .. Word - 1
    PROVE  /\ byte + 16 * v \in Nat
           /\ ~(byte + 16 * v < 240)
           /\ 240 + ((byte + 16 * v) % 16) = byte
           /\ ((byte + 16 * v) - 240) \div 16 = v
           /\ (byte + 16 * v) % Word \in 0 .. Word - 1
<1>1. byte \in Nat /\ byte > 239 /\ byte < 256 /\ v \in Nat
  BY WordAssumption
<1>2. byte + 16 * v \in Nat
  BY <1>1
<1>3. \A w \in Nat : w % Word \in 0 .. Word - 1
  BY WordAssumption
<1>4. ~(byte + 16 * v < 240) /\ 240 + ((byte + 16 * v) % 16) = byte
  BY <1>1
<1>5. ((byte + 16 * v) - 240) \div 16 = v
  BY <1>1
<1> QED
  BY <1>2, <1>3, <1>4, <1>5, Zenon

(* Below MaxLen bytes the sum Uvarint forms stays below 2^64.              *)
LEMMA NoWrapAtAll ==
    ASSUME NEW byte \in 240 .. 255, NEW v \in 0 .. Word - 1, NEW n \in Nat,
           v < Reach[n], n <= MaxLen - 2
    PROVE  (byte + 16 * v) % Word = byte + 16 * v
<1>1. 240 + 16 * Reach[n] < Word /\ Reach[n] \in Nat
  BY ReachFits, Zenon
<1>2. byte \in Nat /\ byte < 256 /\ v \in Nat
  BY WordAssumption
<1>3. byte + 16 * v < Word /\ byte + 16 * v \in Nat
  BY <1>1, <1>2, WordAssumption
<1>4. \A w \in Nat : w < Word => w % Word = w
  BY WordAssumption
<1> QED
  BY <1>3, <1>4, Zenon

(* What Uvarint returns; and below MaxLen bytes, the buffer starts with    *)
(* what PutUvarint makes of the number.                                    *)
Reads(buf, v, n) ==
    /\ v \in 0 .. Word - 1
    /\ n \in 1 .. Len(buf)
    /\ n < MaxLen => /\ Len(PutUvarint(v)) = n
                     /\ \E rest \in Seq(Byte) : buf = PutUvarint(v) \o rest

(* Uvarint fails, or what it read is an encoding, and below MaxLen bytes   *)
(* the one PutUvarint writes.                                              *)
LEMMA UvarintResult ==
    ASSUME NEW buf \in Seq(Byte)
    PROVE  Uvarint(buf) = Error \/ \E v, n : Uvarint(buf) = Ok(v, n) /\ Reads(buf, v, n)
<1>1. CASE buf = <<>>
  BY <1>1, Zenon DEF Uvarint
<1>2. CASE buf # <<>>
  <2> DEFINE byte == buf[1]
             t == Tail(buf)
  <2>1. /\ byte \in Byte /\ t \in Seq(Byte) /\ buf = <<byte>> \o t
        /\ Len(buf) \in Nat \ {0} /\ Len(t) \in Nat /\ Len(buf) = 1 + Len(t)
    BY <1>2, HeadAndRest, Zenon
  <2>2. Uvarint(buf) = IF byte < 240 THEN Ok(byte, 1) ELSE Plus(byte, 16, Continued[t])
    BY <1>2, Zenon DEF Uvarint
  <2> HIDE DEF byte, t
  <2>3. byte \in Nat /\ byte \in 0 .. Word - 1
    BY <2>1, ByteFits, Zenon
  <2>4. CASE byte < 240
    <3>1. PutUvarint(byte) = <<byte>>
      BY <2>4, Zenon DEF PutUvarint
    <3>2. Len(<<byte>>) = 1 /\ 1 \in 1 .. Len(buf)
      BY <2>1
    <3>3. Reads(buf, byte, 1)
      BY <2>1, <2>3, <3>1, <3>2, Zenon DEF Reads
    <3> QED
      BY <2>2, <2>4, <3>3, Zenon
  <2>5. CASE ~(byte < 240)
    <3>1. byte \in 240 .. 255
      <4>1. byte \in 0 .. 255
        BY <2>1, Zenon DEF Byte
      <4> QED
        BY <2>5, <4>1
    <3>2. CASE Continued[t] = Error
      <4>1. Plus(byte, 16, Error) = Error
        BY DEF Plus, AndThen, Failed, Error
      <4> QED
        BY <2>2, <2>5, <3>2, <4>1, Zenon
    <3>3. ASSUME NEW v, NEW n, Continued[t] = Ok(v, n), Holds(t, v, n)
          PROVE  \E w, k : Uvarint(buf) = Ok(w, k) /\ Reads(buf, w, k)
      <4> DEFINE w == byte + 16 * v
      <4>1. v \in 0 .. Word - 1 /\ n \in 1 .. Len(t)
        BY <3>3, Zenon DEF Holds
      <4>2. n \in Nat \ {0} /\ 1 + n \in 1 .. Len(buf)
        BY <2>1, <4>1
      <4>3. Uvarint(buf) = Ok(w % Word, 1 + n)
        <5>1. Plus(byte, 16, Ok(v, n)) = Ok((byte + 16 * v) % Word, 1 + n)
          BY <4>2 DEF Plus, AndThen, Failed, Ok
        <5> QED
          BY <2>2, <2>5, <3>3, <5>1, Zenon
      <4>4. /\ w \in Nat
            /\ ~(w < 240)
            /\ 240 + (w % 16) = byte
            /\ (w - 240) \div 16 = v
            /\ w % Word \in 0 .. Word - 1
        BY <3>1, <4>1, HeadByteBack, Zenon
      <4>5. ASSUME 1 + n < MaxLen
            PROVE  /\ w % Word = w /\ Len(PutUvarint(w)) = 1 + n
                   /\ \E rest \in Seq(Byte) : buf = PutUvarint(w) \o rest
        <5>1. n <= MaxLen - 2
          BY <4>2, <4>5, MaxLenAssumption
        <5>2. v < Reach[n] /\ Len(Continuation[v]) = n
          BY <3>3, <5>1, Zenon DEF Holds
        <5>3. PICK rest \in Seq(Byte) : t = Continuation[v] \o rest
          BY <3>3, <5>1, Zenon DEF Holds
        <5>4. w % Word = w
          BY <3>1, <4>1, <4>2, <5>1, <5>2, NoWrapAtAll, Zenon
        <5>5. PutUvarint(w) = <<byte>> \o Continuation[v] /\ Continuation[v] \in Seq(Byte)
          <6>1. v \in Nat
            BY <4>1, WordAssumption
          <6> HIDE DEF w
          <6> QED
            BY <4>4, <6>1, ContinuationIs, ZenonT(60) DEF PutUvarint
        <5>6. (<<byte>> \o Continuation[v]) \o rest = <<byte>> \o (Continuation[v] \o rest)
          <6>1. <<byte>> \in Seq(Byte)
            BY <2>1
          <6> QED
            BY <5>5, <6>1, Assoc, Zenon
        <5>7. Len(<<byte>> \o Continuation[v]) = 1 + n
          <6>1. Continuation[v] \in Seq(Byte) /\ Len(Continuation[v]) = n
            BY <5>2, <5>5, Zenon
          <6> QED
            BY <2>1, <6>1, FirstByte
        <5>8. buf = PutUvarint(w) \o rest
          BY <2>1, <5>3, <5>5, <5>6, Zenon
        <5> QED
          BY <5>4, <5>5, <5>7, <5>8, Zenon
      <4> HIDE DEF w
      <4>6. Reads(buf, w % Word, 1 + n)
        <5>1. CASE 1 + n < MaxLen
          BY <4>2, <4>4, <4>5, <5>1, Zenon DEF Reads
        <5>2. CASE ~(1 + n < MaxLen)
          BY <4>2, <4>4, <5>2, Zenon DEF Reads
        <5> QED
          BY <5>1, <5>2, Zenon
      <4> QED
        BY <4>3, <4>6, Zenon
    <3> QED
      BY <2>1, <3>2, <3>3, ContinuedResult, Zenon
  <2> QED
    BY <2>4, <2>5, Zenon
<1> QED
  BY <1>1, <1>2, Zenon

-----------------------------------------------------------------------------
(* How many bytes a number takes.                                          *)

(* The table of the SPOE specification: what one to four bytes reach.      *)
LEMMA TableIs ==
    /\ Table(1) = 240 /\ Table(2) = 240 + 16 * 128 /\ Table(3) = 240 + 16 * (128 + 128 * 128)
    /\ Table(4) = 240 + 16 * (128 + 128 * (128 + 128 * 128))
<1>1. Reach[0] = 0 /\ Reach[1] = 128
  BY ReachOne
<1>2. /\ 2 \in Nat /\ 2 # 0 /\ 2 - 1 = 1 /\ 3 \in Nat /\ 3 # 0 /\ 3 - 1 = 2
      /\ 4 - 1 = 3 /\ 1 - 1 = 0
  OBVIOUS
<1>3. Reach[2] = 128 + 128 * Reach[1] /\ Reach[3] = 128 + 128 * Reach[2]
  BY <1>2, ReachIs, ZenonT(60)
<1>4. /\ Table(1) = 240 + 16 * Reach[0] /\ Table(2) = 240 + 16 * Reach[1]
      /\ Table(3) = 240 + 16 * Reach[2] /\ Table(4) = 240 + 16 * Reach[3]
  BY <1>2, Zenon DEF Table
<1> QED
  BY <1>1, <1>3, <1>4

(* A longer encoding reaches further.                                      *)
LEMMA TableGrows ==
    \A k \in Nat \ {0} : \A j \in 1 .. k :
        Table(j) \in Nat /\ Table(k) \in Nat /\ Table(j) <= Table(k)
<1> SUFFICES ASSUME NEW k \in Nat \ {0}, NEW j \in 1 .. k
             PROVE  Table(j) \in Nat /\ Table(k) \in Nat /\ Table(j) <= Table(k)
  BY Zenon
<1>1. k - 1 \in Nat /\ j - 1 \in 0 .. k - 1 /\ j - 1 \in Nat
  OBVIOUS
<1>2. Reach[j - 1] \in Nat /\ Reach[k - 1] \in Nat /\ Reach[j - 1] <= Reach[k - 1]
  BY <1>1, ReachGrows, ReachIs, ZenonT(60)
<1> QED
  BY <1>2 DEF Table

(* A number lies within the reach of its encoding and beyond that of a     *)
(* shorter one.                                                            *)
LEMMA PutInTable ==
    ASSUME NEW n \in Nat
    PROVE  /\ n < Table(Len(PutUvarint(n)))
           /\ Len(PutUvarint(n)) > 1 => Table(Len(PutUvarint(n)) - 1) <= n
<1>1. CASE n < 240
  <2>1. PutUvarint(n) = <<n>>
    BY <1>1, Zenon DEF PutUvarint
  <2>2. Len(PutUvarint(n)) = 1
    BY <2>1
  <2> QED
    BY <1>1, <2>2, TableIs
<1>2. CASE ~(n < 240)
  <2> DEFINE m == (n - 240) \div 16
             k == Len(Continuation[m])
  <2>1. PutUvarint(n) = <<240 + (n % 16)>> \o Continuation[m]
    BY <1>2, Zenon DEF PutUvarint
  <2>2. 240 + (n % 16) \in Byte /\ m \in Nat
    BY <1>2 DEF Byte
  <2>3. 240 + 16 * m <= n /\ n < 240 + 16 * (m + 1)
    BY <1>2
  <2> HIDE DEF m
  <2>4. Continuation[m] \in Seq(Byte)
    BY <2>2, ContinuationIs, Zenon
  <2>5. Len(PutUvarint(n)) = 1 + k
    BY <2>1, <2>2, <2>4, FirstByte
  <2>6. k \in Nat \ {0} /\ Reach[k - 1] <= m /\ m < Reach[k]
    BY <2>2, ContinuationLength, Zenon
  <2> HIDE DEF k
  <2>7. k \in Nat /\ k - 1 \in Nat /\ (1 + k) - 1 = k /\ 1 + k > 1
    BY <2>6
  <2>8. Reach[k - 1] \in Nat /\ Reach[k] \in Nat
    BY <2>7, ReachIs, Zenon
  <2>9. 240 + 16 * Reach[k - 1] <= n /\ n < 240 + 16 * Reach[k]
    BY <2>2, <2>3, <2>6, <2>8
  <2>10. Table(k) <= n /\ n < Table(1 + k)
    BY <2>7, <2>9, Zenon DEF Table
  <2> QED
    BY <2>5, <2>7, <2>10, Zenon
<1> QED
  BY <1>1, <1>2, Zenon

(* Any number takes at most k bytes if, and only if, it is below Table(k). *)
LEMMA PutLength ==
    ASSUME NEW n \in Nat, NEW k \in Nat \ {0}
    PROVE  Len(PutUvarint(n)) <= k <=> n < Table(k)
<1> DEFINE len == Len(PutUvarint(n))
<1>1. len \in Nat \ {0} /\ n < Table(len) /\ (len > 1 => Table(len - 1) <= n)
  BY PutBytes, PutInTable, Zenon
<1> HIDE DEF len
<1>2. ASSUME len <= k PROVE n < Table(k)
  <2>1. len \in 1 .. k
    BY <1>1, <1>2
  <2>2. Table(len) \in Nat /\ Table(k) \in Nat /\ Table(len) <= Table(k)
    BY <2>1, TableGrows, Zenon
  <2> QED
    BY <1>1, <2>2
<1>3. ASSUME n < Table(k), ~(len <= k) PROVE FALSE
  <2>1. len > 1 /\ len - 1 \in Nat \ {0} /\ k \in 1 .. len - 1
    BY <1>1, <1>3
  <2>2. Table(k) \in Nat /\ Table(len - 1) \in Nat /\ Table(k) <= Table(len - 1)
    BY <2>1, TableGrows, Zenon
  <2> QED
    BY <1>1, <1>3, <2>1, <2>2
<1> QED
  BY <1>2, <1>3, Zenon DEF len

(* PutUvarint's scratch array, of MaxLen bytes, holds any uint64.          *)
THEOREM ScratchSuffices == \A n \in 0 .. Word - 1 : Len(PutUvarint(n)) <= MaxLen
<1> SUFFICES ASSUME NEW n \in 0 .. Word - 1 PROVE Len(PutUvarint(n)) <= MaxLen
  BY Zenon
<1>1. n \in Nat /\ n < Word
  BY WordAssumption
<1>2. MaxLen \in Nat \ {0} /\ Word <= Table(MaxLen) /\ MaxLen \in 1 .. MaxLen
  BY MaxLenAssumption
<1>3. Table(MaxLen) \in Nat
  BY <1>2, TableGrows, Zenon
<1>4. n < Table(MaxLen)
  BY <1>1, <1>2, <1>3, WordAssumption
<1> QED
  BY <1>1, <1>2, <1>4, PutLength, Zenon

-----------------------------------------------------------------------------
(* Buffers put together from others.                                       *)

Flat(seqs) ==
    CHOOSE f : f = [i \in 0 .. Len(seqs) |-> IF i = 0 THEN <<>> ELSE f[i - 1] \o seqs[i]]

(* The recursive definition in Joined, as an equation.                     *)
LEMMA FlatIs ==
    ASSUME NEW seqs \in Seq(Seq(Byte))
    PROVE  /\ Joined(seqs) = Flat(seqs)[Len(seqs)]
           /\ \A i \in 0 .. Len(seqs) : Flat(seqs)[i] \in Seq(Byte)
           /\ \A i \in 0 .. Len(seqs) :
                 Flat(seqs)[i] = IF i = 0 THEN <<>> ELSE Flat(seqs)[i - 1] \o seqs[i]
<1> DEFINE D == 0 .. Len(seqs)
           base == {0}
           next == [i \in D \ base |-> i - 1]
           mu == [i \in D |-> i]
           b == [i \in base |-> <<>>]
           c == [i \in D \ base |-> [s \in Seq(Byte) |-> s \o seqs[i]]]
<1>l. Len(seqs) \in Nat /\ <<>> \in Seq(Byte)
  OBVIOUS
<1>m. \A i \in D \ base : seqs[i] \in Seq(Byte)
  OBVIOUS
<1>a. \A i \in D : i \in base <=> i = 0
  BY Zenon
<1>b. \A i \in base : b[i] = <<>>
  BY Zenon
<1>c. \A i \in D \ base : next[i] = i - 1
  BY Zenon
<1>d. \A i \in D \ base : \A s \in Seq(Byte) : c[i][s] = s \o seqs[i]
  BY Zenon
<1>1. Drops(D, Seq(Byte), base, mu, next, b, c)
  <2>1. 0 \in D /\ D \subseteq Nat
    BY <1>l
  <2>2. \A i \in D \ base : i - 1 \in D /\ i - 1 < i
    BY <1>l
  <2>3. \A i \in D \ base, s \in Seq(Byte) : s \o seqs[i] \in Seq(Byte)
    BY <1>m, Assoc, Zenon
  <2> HIDE DEF D
  <2>4. base \subseteq D /\ mu \in [D -> Nat] /\ b \in [base -> Seq(Byte)]
    BY <1>l, <2>1, Zenon
  <2>5. next \in [D \ base -> D] /\ \A i \in D \ base : mu[next[i]] < mu[i]
    BY <2>2, Zenon
  <2>6. c \in [D \ base -> [Seq(Byte) -> Seq(Byte)]]
    BY <2>3, Zenon
  <2> HIDE DEF base, next, mu, b, c
  <2> QED
    BY <2>4, <2>5, <2>6, Zenon DEF Drops
<1> HIDE DEF base, next, mu, b, c
<1> HIDE DEF D
<1>2. PICK f : Satisfies(f, D, Seq(Byte), base, next, b, c)
  BY <1>1, Recursion, Zenon
<1>3. ASSUME NEW i \in D PROVE f[i] = IF i = 0 THEN <<>> ELSE f[i - 1] \o seqs[i]
  <2>1. f[i] = IF i \in base THEN b[i] ELSE c[i][f[next[i]]]
    BY <1>2, Zenon DEF Satisfies
  <2>2. CASE i \in base
    BY <1>a, <1>b, <2>1, <2>2, Zenon
  <2>3. CASE i \notin base
    <3>1. next[i] \in D /\ f[next[i]] \in Seq(Byte)
      BY <1>1, <1>2, <2>3, Zenon DEF Satisfies, Drops
    <3>2. next[i] = i - 1 /\ c[i][f[next[i]]] = f[next[i]] \o seqs[i]
      BY <1>c, <1>d, <2>3, <3>1, Zenon
    <3>3. f[i] = f[i - 1] \o seqs[i]
      BY <2>1, <2>3, <3>2, Zenon
    <3> QED
      BY <1>a, <2>3, <3>3, Zenon
  <2> QED
    BY <2>2, <2>3, Zenon
<1>4. f = [i \in D |-> IF i = 0 THEN <<>> ELSE f[i - 1] \o seqs[i]]
  <2>1. f = [i \in D |-> f[i]]
    BY <1>2, Zenon DEF Satisfies
  <2> QED
    BY <1>3, <2>1, Zenon
<1> DEFINE F == Flat(seqs)
<1>5. F = [i \in D |-> IF i = 0 THEN <<>> ELSE F[i - 1] \o seqs[i]]
  BY <1>4, Zenon DEF Flat, D
<1>6. \A i \in D : F[i] = IF i = 0 THEN <<>> ELSE F[i - 1] \o seqs[i]
  <2> HIDE DEF F
  <2> QED
    BY <1>5, Zenon
<1>7. Follows(F, D, Seq(Byte), base, next, b, c)
  <2> HIDE DEF F
  <2>1. ASSUME NEW i \in D, i \in base PROVE F[i] = b[i]
    BY <1>6, <1>a, <1>b, <2>1, Zenon
  <2>2. ASSUME NEW i \in D, i \notin base, F[next[i]] \in Seq(Byte)
        PROVE  F[i] = c[i][F[next[i]]]
    <3>1. F[i] = F[i - 1] \o seqs[i]
      BY <1>6, <1>a, <2>2, Zenon
    <3>2. next[i] = i - 1 /\ c[i][F[next[i]]] = F[next[i]] \o seqs[i]
      BY <1>c, <1>d, <2>2, Zenon
    <3> QED
      BY <3>1, <3>2, Zenon
  <2> QED
    BY <2>1, <2>2, Zenon DEF Follows
<1>8. \A i \in D : F[i] \in Seq(Byte)
  <2> HIDE DEF F
  <2> QED
    BY <1>1, <1>7, Typed, Zenon
<1>9. Joined(seqs) = F[Len(seqs)]
  BY Zenon DEF Joined, Flat
<1> QED
  BY <1>6, <1>8, <1>9, Zenon DEF D

(* No buffers make an empty one.                                           *)
LEMMA JoinedEmpty == Joined(<<>>) = <<>>
<1>1. <<>> \in Seq(Seq(Byte)) /\ Len(<<>>) = 0 /\ 0 \in 0 .. 0
  OBVIOUS
<1>2. Joined(<<>>) = Flat(<<>>)[0] /\ Flat(<<>>)[0] = <<>>
  BY <1>1, FlatIs, Zenon
<1> QED
  BY <1>2, Zenon

(* Buffers of bytes make a buffer of bytes.                                *)
LEMMA JoinedBytes == \A seqs \in Seq(Seq(Byte)) : Joined(seqs) \in Seq(Byte)
<1> SUFFICES ASSUME NEW seqs \in Seq(Seq(Byte)) PROVE Joined(seqs) \in Seq(Byte)
  BY Zenon
<1>1. Len(seqs) \in 0 .. Len(seqs)
  OBVIOUS
<1> QED
  BY <1>1, FlatIs, Zenon

(* One more buffer at the end.                                             *)
LEMMA JoinedAppend ==
    ASSUME NEW seqs \in Seq(Seq(Byte)), NEW x \in Seq(Byte)
    PROVE  Joined(Append(seqs, x)) = Joined(seqs) \o x
<1> DEFINE more == Append(seqs, x)
           F == Flat(more)
           G == Flat(seqs)
           n == Len(seqs)
<1>1. /\ more \in Seq(Seq(Byte)) /\ Len(more) = n + 1 /\ n \in Nat
      /\ more[n + 1] = x /\ \A i \in 1 .. n : more[i] = seqs[i]
  OBVIOUS
<1> HIDE DEF more
<1>2. /\ Joined(more) = F[n + 1]
      /\ \A i \in 0 .. n + 1 : F[i] = IF i = 0 THEN <<>> ELSE F[i - 1] \o more[i]
  BY <1>1, FlatIs, Zenon
<1>3. /\ Joined(seqs) = G[n]
      /\ \A i \in 0 .. n : G[i] = IF i = 0 THEN <<>> ELSE G[i - 1] \o seqs[i]
  BY FlatIs, Zenon
<1> HIDE DEF F, G, n
<1> DEFINE P == {k \in Nat : k \in 0 .. n => F[k] = G[k]}
<1>4. 0 \in P
  <2>1. 0 \in 0 .. n /\ 0 \in 0 .. n + 1 /\ 0 \in Nat
    BY <1>1
  <2>2. F[0] = G[0]
    BY <1>2, <1>3, <2>1, Zenon
  <2> QED
    BY <2>1, <2>2, Zenon
<1>5. ASSUME NEW k \in Nat, k \in P PROVE k + 1 \in P
  <2>1. k + 1 \in Nat
    OBVIOUS
  <2>2. ASSUME k + 1 \in 0 .. n PROVE F[k + 1] = G[k + 1]
    <3>1. /\ k \in 0 .. n /\ k + 1 \in 0 .. n + 1 /\ k + 1 # 0
          /\ (k + 1) - 1 = k /\ k + 1 \in 1 .. n
      BY <1>1, <2>2
    <3>2. F[k] = G[k]
      BY <1>5, <3>1, Zenon
    <3>3. F[k + 1] = F[k] \o more[k + 1]
      BY <1>2, <3>1, Zenon
    <3>4. G[k + 1] = G[k] \o seqs[k + 1]
      BY <1>3, <2>2, <3>1, Zenon
    <3>5. more[k + 1] = seqs[k + 1]
      BY <1>1, <3>1, Zenon
    <3> QED
      BY <3>2, <3>3, <3>4, <3>5, Zenon
  <2> QED
    BY <2>1, <2>2, Zenon
<1> HIDE DEF P
<1>6. Nat \subseteq P
  BY <1>4, <1>5, Induction, Zenon
<1>7. n \in Nat /\ n \in 0 .. n /\ n + 1 \in 0 .. n + 1 /\ n + 1 # 0 /\ (n + 1) - 1 = n
  BY <1>1
<1>8. F[n] = G[n]
  BY <1>6, <1>7, Zenon DEF P
<1>9. F[n + 1] = F[n] \o x
  BY <1>1, <1>2, <1>7, Zenon
<1> QED
  BY <1>2, <1>3, <1>8, <1>9, Zenon DEF more

(* One more buffer at the front.                                           *)
LEMMA JoinedCons ==
    ASSUME NEW x \in Seq(Byte)
    PROVE  \A seqs \in Seq(Seq(Byte)) : Joined(<<x>> \o seqs) = x \o Joined(seqs)
<1> DEFINE P == {seqs \in Seq(Seq(Byte)) : Joined(<<x>> \o seqs) = x \o Joined(seqs)}
<1>1. ASSUME NEW s \in Seq(Seq(Byte)),
             \A t \in Seq(Seq(Byte)) : Len(t) < Len(s) => t \in P
      PROVE  s \in P
  <2>1. CASE s = <<>>
    <3>1. <<x>> \o <<>> = Append(<<>>, x) /\ x \o <<>> = x /\ <<>> \o x = x /\ <<>> \in Seq(Seq(Byte))
      OBVIOUS
    <3>2. Joined(Append(<<>>, x)) = Joined(<<>>) \o x
      BY <3>1, JoinedAppend, Zenon
    <3>3. Joined(<<x>> \o <<>>) = x \o Joined(<<>>)
      BY <3>1, <3>2, JoinedEmpty, Zenon
    <3> QED
      BY <2>1, <3>3, Zenon
  <2>2. CASE s # <<>>
    <3>1. PICK t \in Seq(Seq(Byte)), y \in Seq(Byte) : s = Append(t, y)
      BY <2>2, SequenceEmptyOrAppend
    <3>2. /\ Len(t) < Len(s) /\ <<x>> \o t \in Seq(Seq(Byte))
          /\ <<x>> \o Append(t, y) = Append(<<x>> \o t, y)
      BY <3>1
    <3>3. Joined(<<x>> \o t) = x \o Joined(t)
      BY <1>1, <3>2, Zenon
    <3>4. Joined(Append(<<x>> \o t, y)) = Joined(<<x>> \o t) \o y
      BY <3>2, JoinedAppend, Zenon
    <3>5. Joined(Append(t, y)) = Joined(t) \o y /\ Joined(t) \in Seq(Byte)
      BY JoinedAppend, JoinedBytes, Zenon
    <3>6. (x \o Joined(t)) \o y = x \o (Joined(t) \o y)
      BY <3>5, Assoc, ZenonT(60)
    <3>7. Joined(<<x>> \o s) = x \o Joined(s)
      BY <3>1, <3>2, <3>3, <3>4, <3>5, <3>6, Zenon
    <3> QED
      BY <3>7, Zenon
  <2> QED
    BY <2>1, <2>2, Zenon
<1> HIDE DEF P
<1>2. Seq(Seq(Byte)) \subseteq P
  BY <1>1, SeqInduction, Zenon
<1> QED
  BY <1>2, Zenon DEF P

(* What is made of the elements of a list by g, and the bytes of it.       *)
Image(g, es) == [i \in DOMAIN es |-> g[es[i]]]
Wire(g, es) == Joined(Image(g, es))

Grows(g, V, e, es) ==
    /\ Image(g, <<>>) = <<>>
    /\ Image(g, es) \in Seq(V) /\ Len(Image(g, es)) = Len(es)
    /\ Image(g, <<e>> \o es) = <<g[e]>> \o Image(g, es)
    /\ Image(g, Append(es, e)) = Append(Image(g, es), g[e])

(* One more element at either end of what is encoded.                      *)
LEMMA ImageCons ==
    ASSUME NEW T, NEW V, NEW g \in [T -> V], NEW e \in T, NEW es \in Seq(T)
    PROVE  Grows(g, V, e, es)
<1> DEFINE t == Image(g, es)
<1>0. <<>> \in Seq(T) /\ DOMAIN <<>> = {}
  OBVIOUS
<1>1. Image(g, <<>>) = <<>>
  BY <1>0 DEF Image
<1>2. t \in Seq(V) /\ Len(t) = Len(es) /\ \A i \in 1 .. Len(es) : t[i] = g[es[i]]
  BY DEF Image
<1> HIDE DEF t
<1>3. Image(g, <<e>> \o es) = <<g[e]>> \o t
  <2> DEFINE a == <<e>> \o es
             b == <<g[e]>> \o t
  <2>1. a \in Seq(T) /\ Len(a) = 1 + Len(es) /\ DOMAIN a = 1 .. 1 + Len(es)
    OBVIOUS
  <2>2. b \in Seq(V) /\ Len(b) = 1 + Len(es)
    BY <1>2
  <2>3. ASSUME NEW i \in 1 .. 1 + Len(es) PROVE g[a[i]] = b[i]
    <3>1. CASE i = 1
      BY <1>2, <3>1
    <3>2. CASE i # 1
      <4>1. i - 1 \in 1 .. Len(es)
        BY <3>2
      <4>2. a[i] = es[i - 1] /\ b[i] = t[i - 1]
        BY <1>2, <3>2, <4>1
      <4> QED
        BY <1>2, <4>1, <4>2
    <3> QED
      BY <3>1, <3>2
  <2> HIDE DEF a
  <2>4. Image(g, a) \in Seq(V) /\ Len(Image(g, a)) = Len(a) /\ \A i \in 1 .. Len(a) : Image(g, a)[i] = g[a[i]]
    BY <2>1 DEF Image
  <2> HIDE DEF b
  <2>5. Image(g, a) = b
    BY <2>1, <2>2, <2>3, <2>4, SeqEqual
  <2> QED
    BY <2>5, Zenon DEF a, b
<1>4. Image(g, Append(es, e)) = Append(t, g[e])
  <2> DEFINE a == Append(es, e)
             b == Append(t, g[e])
  <2>1. a \in Seq(T) /\ Len(a) = Len(es) + 1 /\ DOMAIN a = 1 .. Len(es) + 1
    OBVIOUS
  <2>2. b \in Seq(V) /\ Len(b) = Len(es) + 1
    BY <1>2
  <2>3. ASSUME NEW i \in 1 .. Len(es) + 1 PROVE g[a[i]] = b[i]
    <3>1. CASE i = Len(es) + 1
      BY <1>2, <3>1
    <3>2. CASE i # Len(es) + 1
      BY <1>2, <3>2
    <3> QED
      BY <3>1, <3>2
  <2> HIDE DEF a
  <2>4. Image(g, a) \in Seq(V) /\ Len(Image(g, a)) = Len(a) /\ \A i \in 1 .. Len(a) : Image(g, a)[i] = g[a[i]]
    BY <2>1 DEF Image
  <2> HIDE DEF b
  <2>5. Image(g, a) = b
    BY <2>1, <2>2, <2>3, <2>4, SeqEqual
  <2> QED
    BY <2>5, Zenon DEF a, b
<1> QED
  BY <1>1, <1>2, <1>3, <1>4, Zenon DEF Grows, t

WireGrows(g, e, es) ==
    /\ Wire(g, <<>>) = <<>> /\ Wire(g, es) \in Seq(Byte)
    /\ Wire(g, <<e>> \o es) = g[e] \o Wire(g, es)
    /\ Wire(g, Append(es, e)) = Wire(g, es) \o g[e]

(* One more element at either end, in bytes.                               *)
LEMMA WireCons ==
    ASSUME NEW T, NEW g \in [T -> Seq(Byte)], NEW e \in T, NEW es \in Seq(T)
    PROVE  WireGrows(g, e, es)
<1> DEFINE t == Image(g, es)
<1>0. g[e] \in Seq(Byte)
  OBVIOUS
<1>1. /\ Image(g, <<>>) = <<>>
      /\ t \in Seq(Seq(Byte)) /\ Len(t) = Len(es)
      /\ Image(g, <<e>> \o es) = <<g[e]>> \o t
      /\ Image(g, Append(es, e)) = Append(t, g[e])
  <2>1. Grows(g, Seq(Byte), e, es)
    BY ImageCons, Zenon
  <2> QED
    BY <2>1, Zenon DEF Grows
<1> HIDE DEF t
<1>2. /\ Joined(<<g[e]>> \o t) = g[e] \o Joined(t)
      /\ Joined(Append(t, g[e])) = Joined(t) \o g[e]
      /\ Joined(t) \in Seq(Byte)
  BY <1>0, <1>1, JoinedCons, JoinedAppend, JoinedBytes, Zenon
<1> QED
  BY <1>1, <1>2, JoinedEmpty, Zenon DEF WireGrows, Wire, t

-----------------------------------------------------------------------------
(* Parts of a buffer.                                                      *)

(* Taking apart what was put together.                                     *)
LEMMA Parts ==
    ASSUME NEW a \in Seq(Byte), NEW b \in Seq(Byte), NEW c \in Seq(Byte)
    PROVE  /\ Drop(a \o b, Len(a)) = b
           /\ SubSeq(a \o (b \o c), Len(a) + 1, Len(a) + Len(b)) = b
           /\ Len(a \o b) = Len(a) + Len(b)
           /\ Len(a) \in Nat /\ Len(b) \in Nat
           /\ Len(a \o (b \o c)) = Len(a) + Len(b) + Len(c)
<1>1. Drop(a \o b, Len(a)) = b
  BY DEF Drop
<1>2. SubSeq(a \o (b \o c), Len(a) + 1, Len(a) + Len(b)) = b
  OBVIOUS
<1> QED
  BY <1>1, <1>2

(* What is left when n bytes are taken.                                    *)
LEMMA DropBytes ==
    ASSUME NEW s \in Seq(Byte), NEW n \in 0 .. Len(s)
    PROVE  /\ Drop(s, n) \in Seq(Byte) /\ Len(Drop(s, n)) = Len(s) - n
           /\ Len(s) \in Nat /\ n \in Nat
<1>1. Drop(s, n) \in Seq(Byte)
  BY DEF Drop
<1>2. Len(Drop(s, n)) = Len(s) - n
  BY DEF Drop
<1> QED
  BY <1>1, <1>2

(* A decoder fails, or it takes some of the bytes it was given.            *)
Taken(buf, r, V) == r = Error \/ \E v \in V, n \in 1 .. Len(buf) : r = Ok(v, n)

-----------------------------------------------------------------------------
(* Strings.                                                                *)

(* PutString writes the length and then the bytes.                         *)
LEMMA StringBytes ==
    ASSUME NEW s \in Strings
    PROVE  /\ s \in Seq(Byte) /\ Len(s) \in 0 .. Word - 1 /\ Len(s) \in Nat
           /\ PutString(s) \in Seq(Byte) /\ Len(PutString(s)) \in Nat \ {0}
           /\ Len(PutString(s)) = Len(PutUvarint(Len(s))) + Len(s)
<1>1. s \in Seq(Byte) /\ Len(s) < Word
  BY Zenon DEF Strings
<1>2. Len(s) \in 0 .. Word - 1 /\ Len(s) \in Nat
  BY <1>1, WordAssumption
<1> DEFINE p == PutUvarint(Len(s))
<1>3. p \in Seq(Byte) /\ Len(p) \in Nat \ {0}
  BY <1>2, PutBytes, Zenon
<1> HIDE DEF p
<1>4. p \o s \in Seq(Byte) /\ Len(p \o s) = Len(p) + Len(s)
  BY <1>1, <1>3
<1>5. Len(p) + Len(s) \in Nat \ {0}
  BY <1>2, <1>3
<1> QED
  BY <1>1, <1>2, <1>4, <1>5, Zenon DEF PutString, p

(* A string is read back, whatever follows it.                             *)
LEMMA GetStringPut ==
    ASSUME NEW s \in Strings, NEW r \in Seq(Byte)
    PROVE  GetString(PutString(s) \o r) = Ok(s, Len(PutString(s)))
<1> DEFINE p == PutUvarint(Len(s))
           buf == p \o (s \o r)
           k == Len(p)
           l == Len(s)
<1>1. /\ s \in Seq(Byte) /\ Len(s) \in 0 .. Word - 1 /\ Len(s) \in Nat
      /\ Len(PutString(s)) = k + l
  BY StringBytes, Zenon
<1>2. p \in Seq(Byte) /\ k \in Nat \ {0}
  BY <1>1, PutBytes, Zenon
<1>3. s \o r \in Seq(Byte)
  BY <1>1, Assoc, Zenon
<1>4. Uvarint(buf) = Ok(l, k)
  BY <1>1, <1>3, UvarintPut, Zenon
<1>5. PutString(s) \o r = buf
  BY <1>1, <1>2, Assoc, ZenonT(60) DEF PutString
<1> HIDE DEF p
<1>6. /\ SubSeq(buf, k + 1, k + l) = s /\ Len(buf) = k + l + Len(r) /\ Len(r) \in Nat
  BY <1>1, <1>2, Parts, ZenonT(60)
<1> HIDE DEF buf, k, l
<1>7. l \in Nat /\ k \in Nat
  BY <1>1, <1>2 DEF l
<1>8. ~(Len(buf) - k < l) /\ ~(k < 0)
  BY <1>6, <1>7
<1>9. GetString(buf) = Ok(SubSeq(buf, k + 1, k + l), k + l)
  BY <1>4, <1>8 DEF GetString, AndThen, Failed, Ok
<1> QED
  BY <1>1, <1>5, <1>6, <1>9, Zenon

(* getString fails, or takes some of its bytes and returns a string.       *)
LEMMA GetStringTakes ==
    ASSUME NEW buf \in Seq(Byte)
    PROVE  Taken(buf, GetString(buf), Strings)
<1>1. CASE Uvarint(buf) = Error
  <2>1. GetString(buf) = Error
    BY <1>1 DEF GetString, AndThen, Failed, Error
  <2> QED
    BY <2>1, Zenon DEF Taken
<1>2. CASE Uvarint(buf) # Error
  <2>1. PICK v, n : Uvarint(buf) = Ok(v, n) /\ Reads(buf, v, n)
    BY <1>2, UvarintResult, Zenon
  <2>2. v \in Nat /\ v < Word /\ n \in 1 .. Len(buf) /\ Len(buf) \in Nat
    BY <2>1, WordAssumption DEF Reads
  <2>3. CASE Len(buf) - n < v
    <3>1. GetString(buf) = Error
      BY <2>1, <2>2, <2>3 DEF GetString, AndThen, Failed, Ok
    <3> QED
      BY <3>1, Zenon DEF Taken
  <2>4. CASE ~(Len(buf) - n < v)
    <3>1. GetString(buf) = Ok(SubSeq(buf, n + 1, n + v), n + v)
      BY <2>1, <2>2, <2>4 DEF GetString, AndThen, Failed, Ok
    <3>2. n + v \in 1 .. Len(buf) /\ n + 1 \in 1 .. Len(buf) + 1
      BY <2>2, <2>4
    <3>3. SubSeq(buf, n + 1, n + v) \in Seq(Byte) /\ Len(SubSeq(buf, n + 1, n + v)) = v
      BY <2>2, <3>2
    <3>4. SubSeq(buf, n + 1, n + v) \in Strings
      BY <2>2, <3>3, Zenon DEF Strings
    <3> QED
      BY <3>1, <3>2, <3>4, Zenon DEF Taken
  <2> QED
    BY <2>3, <2>4, Zenon
<1> QED
  BY <1>1, <1>2, Zenon

-----------------------------------------------------------------------------
(* Typed data.                                                             *)

(* A number less than the modulus is its own remainder.                    *)
LEMMA Remainder ==
    ASSUME NEW s \in Nat, s > 0, NEW q \in Int, NEW r \in Int, 0 <= r, r < s
    PROVE  (s * q + r) % s = r
<1> DEFINE a == s * q + r
           p == a \div s
           m == a % s
<1>1. a \in Int /\ p \in Int /\ m \in Int /\ 0 <= m /\ m < s /\ a = s * p + m
  OBVIOUS
<1>2. s * q + r = s * p + m
  BY <1>1
<1> HIDE DEF a, p, m
<1>3. s * (q - p) = m - r /\ q - p \in Int
  BY <1>1, <1>2
<1>4. q - p > 0 => s * (q - p) >= s
  BY <1>1
<1>5. q - p < 0 => s * (q - p) <= -s
  BY <1>1
<1>6. q - p = 0
  BY <1>1, <1>3, <1>4, <1>5
<1>7. m = r
  BY <1>1, <1>3, <1>6
<1> QED
  BY <1>7 DEF a, m

(* A word is a whole number of halves.                                     *)
LEMMA Sizes ==
    ASSUME NEW t
    PROVE  /\ Size(t) \in Nat /\ Size(t) > 1 /\ Size(t) <= Word
           /\ Size(t) = 2 * (Size(t) \div 2)
           /\ \E q \in Nat \ {0} : Word = Size(t) * q
<1>1. PICK q : q = Word \div Half
  OBVIOUS
<1>2. q \in Nat /\ Word = Half * q
  <2>1. q \in Int /\ Word = Half * q + (Word % Half)
    BY <1>1, WordAssumption, HalfAssumption
  <2>2. q \in Int /\ Word = Half * q
    BY <2>1, WordAssumption, HalfAssumption
  <2>3. q >= 0
    BY <2>2, WordAssumption, HalfAssumption
  <2> QED
    BY <2>2, <2>3
<1>3. q # 0
  BY <1>2, WordAssumption, HalfAssumption
<1>4. Half = 2 * (Half \div 2) /\ Half \div 2 \in Nat /\ Half > 1
  BY HalfAssumption
<1> DEFINE h == Half \div 2
<1>5. Word = 2 * (h * q) /\ h * q \in Nat
  <2> HIDE DEF h
  <2>1. Half = 2 * h /\ h \in Nat
    BY <1>4 DEF h
  <2> QED
    BY <1>2, <2>1
<1>6. Word = 2 * (Word \div 2)
  <2> DEFINE k == h * q
  <2> HIDE DEF k
  <2>1. Word = 2 * k /\ k \in Nat
    BY <1>5 DEF k
  <2> QED
    BY <2>1
<1>7. CASE t \in {"int32", "uint32"}
  <2>1. Size(t) = Half
    BY <1>7 DEF Size
  <2> QED
    BY <1>2, <1>3, <1>4, <2>1, HalfAssumption
<1>8. CASE t \notin {"int32", "uint32"}
  <2>1. Size(t) = Word
    BY <1>8 DEF Size
  <2>2. Word = Word * 1 /\ 1 \in Nat \ {0}
    BY WordAssumption
  <2>3. \E k \in Nat \ {0} : Word = Size(t) * k
    BY <2>1, <2>2, Zenon
  <2> QED
    BY <1>6, <2>1, <2>3, WordAssumption
<1> QED
  BY <1>7, <1>8, Zenon

(* A number that a type holds goes through a uint64 unharmed.              *)
LEMMA ConvertedBack ==
    ASSUME NEW t, NEW i \in Int, Fits(i, t)
    PROVE  i % Word \in 0 .. Word - 1 /\ Converted(i % Word, t) = i
<1> DEFINE s == Size(t)
           h == s \div 2
<1>1. /\ s \in Nat /\ s > 1 /\ s <= Word /\ s = 2 * h
      /\ \E q \in Nat \ {0} : Word = s * q
  BY Sizes, Zenon
<1>2. PICK q \in Nat \ {0} : Word = s * q
  BY <1>1
<1>3. h \in Nat
  BY <1>1
<1>4. /\ t \in Signed => -h <= i /\ i < h
      /\ t \notin Signed => 0 <= i /\ i < s
  BY Zenon DEF Fits
<1>5. Converted(i % Word, t) =
        IF t \in Signed /\ (i % Word) % s >= h THEN ((i % Word) % s) - s ELSE (i % Word) % s
  BY Zenon DEF Converted
<1> HIDE DEF s, h
<1>6. CASE i >= 0
  <2>1. i < s
    BY <1>1, <1>3, <1>4
  <2>2. i % Word = i
    BY <1>1, <1>6, <2>1, WordAssumption
  <2>3. i % s = i
    BY <1>1, <1>6, <2>1
  <2>4. Converted(i % Word, t) = i
    <3>1. t \in Signed => ~(i >= h)
      BY <1>3, <1>4
    <3> QED
      BY <1>5, <2>2, <2>3, <3>1, Zenon
  <2> QED
    BY <1>1, <1>6, <2>1, <2>2, <2>4, WordAssumption
<1>7. CASE i < 0
  <2>1. t \in Signed /\ -h <= i
    BY <1>4, <1>7
  <2>2. i + Word >= 0 /\ i + Word < Word /\ i + Word \in Int
    BY <1>1, <1>3, <1>7, <2>1, WordAssumption
  <2>3. i % Word = i + Word
    <3>1. i = Word * (-1) + (i + Word) /\ -1 \in Int /\ Word \in Nat /\ Word > 0 /\ 0 <= i + Word
      BY <2>2, WordAssumption
    <3>2. (Word * (-1) + (i + Word)) % Word = i + Word
      BY <2>2, <3>1, Remainder, Zenon
    <3> QED
      BY <3>1, <3>2
  <2>4. 0 <= i + s /\ i + s < s /\ i + s >= h /\ i + s \in Int
    BY <1>1, <1>3, <1>7, <2>1
  <2>5. (i + Word) % s = i + s
    <3>1. i + Word = s * (q - 1) + (i + s) /\ q - 1 \in Int /\ s > 0
      BY <1>1, <1>2
    <3>2. (s * (q - 1) + (i + s)) % s = i + s
      BY <1>1, <2>4, <3>1, Remainder, Zenon
    <3> QED
      BY <3>1, <3>2
  <2>6. Converted(i % Word, t) = (i + s) - s
    BY <1>5, <2>1, <2>3, <2>4, <2>5, Zenon
  <2> QED
    BY <1>1, <2>2, <2>3, <2>6, WordAssumption
<1> QED
  BY <1>6, <1>7

(* What Decode makes of a number is a number of the type.                  *)
LEMMA ConvertedFits ==
    ASSUME NEW t, NEW i \in Nat
    PROVE  Converted(i, t) \in Int /\ Fits(Converted(i, t), t)
<1> DEFINE s == Size(t)
           h == s \div 2
           low == i % s
<1>1. s \in Nat /\ s > 1 /\ s = 2 * h
  BY Sizes, Zenon
<1>2. h \in Nat /\ low \in Nat /\ low < s
  BY <1>1
<1>3. Converted(i, t) = IF t \in Signed /\ low >= h THEN low - s ELSE low
  BY Zenon DEF Converted
<1>4. Fits(Converted(i, t), t) <=>
         IF t \in Signed THEN -h <= Converted(i, t) /\ Converted(i, t) < h
                         ELSE 0 <= Converted(i, t) /\ Converted(i, t) < s
  BY Zenon DEF Fits
<1> HIDE DEF s, h, low
<1> QED
  BY <1>1, <1>2, <1>3, <1>4

(* The wire types, one by one.                                             *)
LEMMA TypesAre ==
    /\ Types[0 + 1] = "nil" /\ Types[1 + 1] = "bool"
    /\ Types[2 + 1] = "int32" /\ Types[3 + 1] = "uint32"
    /\ Types[4 + 1] = "int64" /\ Types[5 + 1] = "uint64"
    /\ Types[6 + 1] = "ip" /\ Types[7 + 1] = "ip"
    /\ Types[8 + 1] = "string" /\ Types[9 + 1] = "bytes"
  BY DEF Types

(* Decode behind the first byte, type by type.                             *)
LEMMA DecodeAsIs ==
    ASSUME NEW flags, NEW rest
    PROVE  /\ DecodeAs(0, flags, rest) = Took(0, <<>>, 0)
           /\ DecodeAs(1, flags, rest) = Took(1, <<flags % 2>>, 0)
           /\ \A t \in {6, 7} : DecodeAs(t, flags, rest) =
                 IF Len(rest) < IPLen(t) THEN Error
                 ELSE Took(t, SubSeq(rest, 1, IPLen(t)), IPLen(t))
           /\ \A t \in {8, 9} : DecodeAs(t, flags, rest) =
                 IF Failed(GetString(rest)) THEN Error
                 ELSE Took(t, GetString(rest).val, GetString(rest).n)
           /\ \A t \in {2, 3, 4, 5} : DecodeAs(t, flags, rest) =
                 IF Failed(Uvarint(rest)) THEN Error
                 ELSE Took(t, <<Converted(Uvarint(rest).val, Types[t + 1])>>, Uvarint(rest).n)
           /\ \A t \in {10, 11, 12, 13, 14, 15} : DecodeAs(t, flags, rest) = Error
  BY DEF DecodeAs, AndThen

(* The first byte d is given, and what is behind it.                       *)
Splits(d, byte, x) ==
    /\ byte \in Byte /\ x \in Seq(Byte)
    /\ Encode(d) = <<byte>> \o x
    /\ \A r \in Seq(Byte) :
          DecodeAs(byte % 16, byte \div 16, x \o r) = Ok(Canonical(d), Len(x) + 1)

SupportedValues == {d \in Values : Supported(d)}
Booleans == {<<0>>, <<1>>}

(* A value with an encoding has one of these types.                        *)
LEMMA SupportedType ==
    ASSUME NEW d \in SupportedValues
    PROVE  /\ d \in Values /\ d = Value(d.type, d.v)
           /\ \/ d.type = "nil" /\ d.v = <<>>
              \/ d.type = "bool" /\ d.v \in Booleans
              \/ d.type \in Integer /\ \E i \in Int : d.v = <<i>> /\ Fits(i, d.type)
              \/ d.type \in {"string", "bytes"} /\ d.v \in Strings
              \/ d.type = "ip" /\ d.v \in Seq(Byte) /\ Len(d.v) \in {4, 16}
<1>1. d \in Values /\ Supported(d)
  BY Zenon DEF SupportedValues
<1>2. d \in [type : GoTypes, v : Seq(Int)]
  BY <1>1, Zenon DEF Values
<1>3. d = Value(d.type, d.v)
  BY <1>2 DEF Value
<1>4. /\ d.type = "nil" => d.v = <<>>
      /\ d.type = "bool" => d.v \in Booleans
      /\ d.type \in Integer => Len(d.v) = 1 /\ Fits(d.v[1], d.type)
      /\ d.type \in {"string", "bytes", "ip"} => d.v \in Strings
  BY <1>1, Zenon DEF Values, Booleans
<1>5. \/ d.type \in Integer \cup {"nil", "bool", "string", "bytes"}
      \/ d.type = "ip" /\ Len(d.v) \in {4, 16}
  BY <1>1, Zenon DEF Supported
<1>6. ASSUME d.type \in Integer PROVE \E i \in Int : d.v = <<i>> /\ Fits(i, d.type)
  <2>1. d.v \in Seq(Int) /\ Len(d.v) = 1 /\ Fits(d.v[1], d.type)
    BY <1>2, <1>4, <1>6
  <2>2. d.v[1] \in Int /\ d.v = <<d.v[1]>>
    BY <2>1
  <2> QED
    BY <2>1, <2>2, Zenon
<1>7. d.v \in Strings => d.v \in Seq(Byte)
  BY Zenon DEF Strings
<1> QED
  BY <1>1, <1>3, <1>4, <1>5, <1>6, <1>7, Zenon

(* nil and the booleans are read back.                                     *)
LEMMA SplitsNilBool ==
    ASSUME NEW d, d = Value(d.type, d.v),
           \/ d.type = "nil" /\ d.v = <<>>
           \/ d.type = "bool" /\ d.v \in Booleans
    PROVE  \E byte, x : Splits(d, byte, x)
<1>0. <<>> \in Seq(Byte) /\ Len(<<>>) = 0 /\ \A r \in Seq(Byte) : <<>> \o r = r
  OBVIOUS
<1>1. CASE d.type = "nil" /\ d.v = <<>>
  <2>1. Encode(d) = <<0>> /\ Canonical(d) = d /\ d = Value("nil", <<>>)
    BY <1>1 DEF Encode, Canonical
  <2>2. <<0>> = <<0>> \o <<>> /\ 0 \in Byte /\ 0 % 16 = 0
    BY DEF Byte
  <2>3. \A r \in Seq(Byte) : DecodeAs(0, 0 \div 16, r) = Ok(d, 0 + 1)
    BY <2>1, DecodeAsIs, TypesAre, Zenon DEF Took
  <2>4. Splits(d, 0, <<>>)
    BY <1>0, <2>1, <2>2, <2>3, Zenon DEF Splits
  <2> QED
    BY <2>4, Zenon
<1>2. CASE d.type = "bool" /\ d.v = <<0>>
  <2>0. <<0>> # <<1>>
    OBVIOUS
  <2>1. Encode(d) = <<1>> /\ Canonical(d) = d /\ d = Value("bool", <<0>>)
    BY <1>2, <2>0 DEF Encode, Canonical
  <2>2. <<1>> = <<1>> \o <<>> /\ 1 \in Byte /\ 1 % 16 = 1 /\ (1 \div 16) % 2 = 0
    BY DEF Byte
  <2>3. \A r \in Seq(Byte) : DecodeAs(1, 1 \div 16, r) = Ok(d, 0 + 1)
    BY <2>1, <2>2, DecodeAsIs, TypesAre, ZenonT(60) DEF Took
  <2>4. Splits(d, 1, <<>>)
    BY <1>0, <2>1, <2>2, <2>3, Zenon DEF Splits
  <2> QED
    BY <2>4, Zenon
<1>3. CASE d.type = "bool" /\ d.v = <<1>>
  <2>1. Encode(d) = <<17>> /\ Canonical(d) = d /\ d = Value("bool", <<1>>)
    BY <1>3 DEF Encode, Canonical
  <2>2. <<17>> = <<17>> \o <<>> /\ 17 \in Byte /\ 17 % 16 = 1 /\ (17 \div 16) % 2 = 1
    BY DEF Byte
  <2>3. \A r \in Seq(Byte) : DecodeAs(1, 17 \div 16, r) = Ok(d, 0 + 1)
    BY <2>1, <2>2, DecodeAsIs, TypesAre, ZenonT(60) DEF Took
  <2>4. Splits(d, 17, <<>>)
    BY <1>0, <2>1, <2>2, <2>3, Zenon DEF Splits
  <2> QED
    BY <2>4, Zenon
<1> QED
  BY <1>1, <1>2, <1>3, Zenon DEF Booleans

(* The integers are read back.                                             *)
LEMMA SplitsInteger ==
    ASSUME NEW d, d = Value(d.type, d.v), d.type \in Integer,
           NEW i \in Int, d.v = <<i>>, Fits(i, d.type)
    PROVE  \E byte, x : Splits(d, byte, x)
<1> DEFINE t == WireType(d.type)
           u == Types[t + 1]
           x == PutUvarint(i % Word)
<1>1. /\ t \in {2, 3, 4, 5} /\ Size(u) = Size(d.type) /\ (u \in Signed <=> d.type \in Signed)
      /\ Canonical(d) = Value(u, d.v)
  BY TypesAre DEF WireType, Integer, Signed, Size, Canonical
<1>2. Encode(d) = <<t>> \o PutUvarint(d.v[1] % Word)
  BY DEF Encode, Integer
<1>3. d.v[1] = i
  OBVIOUS
<1>4. Fits(i, u)
  BY <1>1 DEF Fits
<1>5. i % Word \in 0 .. Word - 1 /\ Converted(i % Word, u) = i
  BY <1>4, ConvertedBack, Zenon
<1>6. i % Word \in Nat
  BY <1>5, WordAssumption
<1>7. x \in Seq(Byte) /\ Len(x) \in Nat \ {0}
  BY <1>6, PutBytes, Zenon
<1>8. t \in Byte /\ t % 16 = t
  BY <1>1 DEF Byte
<1>9. ASSUME NEW r \in Seq(Byte)
      PROVE  DecodeAs(t % 16, t \div 16, x \o r) = Ok(Canonical(d), Len(x) + 1)
  <2>1. Uvarint(x \o r) = Ok(i % Word, Len(x))
    BY <1>5, UvarintPut, Zenon
  <2> HIDE DEF x, t, u
  <2>2. ~Failed(Uvarint(x \o r)) /\ Uvarint(x \o r).val = i % Word /\ Uvarint(x \o r).n = Len(x)
    BY <1>7, <2>1 DEF Ok, Failed
  <2>3. DecodeAs(t, t \div 16, x \o r) = Took(t, <<Converted(i % Word, Types[t + 1])>>, Len(x))
    BY <1>1, <2>2, DecodeAsIs, ZenonT(60)
  <2>4. Took(t, <<i>>, Len(x)) = Ok(Value(u, <<i>>), Len(x) + 1)
    BY Zenon DEF Took, u
  <2> QED
    BY <1>1, <1>5, <1>8, <2>3, <2>4, Zenon DEF u
<1> HIDE DEF t, u
<1>10. Splits(d, t, x)
  BY <1>2, <1>3, <1>7, <1>8, <1>9, Zenon DEF Splits
<1> QED
  BY <1>10, Zenon

(* Strings and byte slices are read back.                                  *)
LEMMA SplitsString ==
    ASSUME NEW d, d = Value(d.type, d.v), d.type \in {"string", "bytes"}, d.v \in Strings
    PROVE  \E byte, x : Splits(d, byte, x)
<1> DEFINE t == WireType(d.type)
           x == PutString(d.v)
<1>1. t \in {8, 9} /\ Types[t + 1] = d.type /\ Canonical(d) = d
  BY TypesAre DEF WireType, Canonical
<1>2. Encode(d) = <<t>> \o x
  BY DEF Encode
<1>3. x \in Seq(Byte) /\ Len(x) \in Nat \ {0}
  BY StringBytes, Zenon
<1>4. t \in Byte /\ t % 16 = t
  BY <1>1 DEF Byte
<1>5. ASSUME NEW r \in Seq(Byte)
      PROVE  DecodeAs(t % 16, t \div 16, x \o r) = Ok(Canonical(d), Len(x) + 1)
  <2>1. GetString(x \o r) = Ok(d.v, Len(x))
    BY GetStringPut, Zenon
  <2> HIDE DEF x, t
  <2>2. ~Failed(GetString(x \o r)) /\ GetString(x \o r).val = d.v /\ GetString(x \o r).n = Len(x)
    BY <1>3, <2>1 DEF Ok, Failed
  <2>3. DecodeAs(t, t \div 16, x \o r) = Took(t, d.v, Len(x))
    BY <1>1, <2>2, DecodeAsIs, ZenonT(60)
  <2>4. Took(t, d.v, Len(x)) = Ok(Value(Types[t + 1], d.v), Len(x) + 1)
    BY Zenon DEF Took
  <2> QED
    BY <1>1, <1>4, <2>3, <2>4, Zenon
<1> HIDE DEF t, x
<1>6. Splits(d, t, x)
  BY <1>2, <1>3, <1>4, <1>5, Zenon DEF Splits
<1> QED
  BY <1>6, Zenon

(* Sixteen bytes at most are within a string.                              *)
LEMMA Within ==
    /\ \A s \in Seq(Byte) : Len(s) = 16 =>
          SubSeq(s, 13, 16) \in Seq(Byte) /\ Len(SubSeq(s, 13, 16)) = 4
    /\ \A s \in Seq(Byte) : Len(s) = 4 => s # <<>>
<1>1. ASSUME NEW s \in Seq(Byte), NEW m \in 1 .. Len(s), NEW n \in m .. Len(s)
      PROVE  SubSeq(s, m, n) \in Seq(Byte) /\ Len(SubSeq(s, m, n)) = n - m + 1
  OBVIOUS
<1>2. ASSUME NEW s \in Seq(Byte), Len(s) = 16
      PROVE  13 \in 1 .. Len(s) /\ 16 \in 13 .. Len(s) /\ 16 - 13 + 1 = 4
  BY <1>2
<1>3. \A s \in Seq(Byte) : Len(s) = 4 => s # <<>>
  OBVIOUS
<1> QED
  BY <1>1, <1>2, <1>3, Zenon

(* Addresses of four and of sixteen bytes are read back.                   *)
LEMMA SplitsIP ==
    ASSUME NEW d, d = Value(d.type, d.v), d.type = "ip", d.v \in Seq(Byte), Len(d.v) \in {4, 16}
    PROVE  \E byte, x : Splits(d, byte, x)
<1> DEFINE t == IF To4(d.v) # <<>> THEN 6 ELSE 7
           x == IF To4(d.v) # <<>> THEN To4(d.v) ELSE d.v
<1>1. x \in Seq(Byte) /\ Len(x) = IPLen(t)
  <2>1. CASE Len(d.v) = 4
    <3>1. To4(d.v) = d.v /\ d.v # <<>>
      BY <2>1 DEF To4
    <3> QED
      BY <2>1, <3>1 DEF IPLen
  <2>2. CASE Len(d.v) = 16 /\ SubSeq(d.v, 1, 12) = V4InV6
    <3>1. To4(d.v) = SubSeq(d.v, 13, 16)
      BY <2>2 DEF To4
    <3>2. SubSeq(d.v, 13, 16) \in Seq(Byte) /\ Len(SubSeq(d.v, 13, 16)) = 4
      BY <2>2, Within
    <3>3. SubSeq(d.v, 13, 16) # <<>>
      BY <3>2, Within
    <3> QED
      BY <3>1, <3>2, <3>3 DEF IPLen
  <2>3. CASE Len(d.v) = 16 /\ SubSeq(d.v, 1, 12) # V4InV6
    <3>1. To4(d.v) = <<>>
      BY <2>3 DEF To4
    <3> QED
      BY <2>3, <3>1 DEF IPLen
  <2> QED
    BY <2>1, <2>2, <2>3, Zenon
<1>2. Encode(d) = <<t>> \o x
  BY DEF Encode, EncodeIP
<1>3. t \in {6, 7} /\ Types[t + 1] = "ip" /\ Canonical(d) = Value("ip", x)
  BY TypesAre DEF Canonical
<1> HIDE DEF t, x
<1>4. t \in Byte /\ t % 16 = t /\ IPLen(t) \in Nat
  BY <1>3 DEF Byte, IPLen
<1>5. ASSUME NEW r \in Seq(Byte)
      PROVE  DecodeAs(t % 16, t \div 16, x \o r) = Ok(Canonical(d), Len(x) + 1)
  <2>1. ~(Len(x \o r) < Len(x)) /\ SubSeq(x \o r, 1, Len(x)) = x
    BY <1>1
  <2>2. DecodeAs(t, t \div 16, x \o r) = Took(t, x, Len(x))
    BY <1>1, <1>3, <2>1, DecodeAsIs, ZenonT(60)
  <2>3. Took(t, x, Len(x)) = Ok(Value(Types[t + 1], x), Len(x) + 1)
    BY Zenon DEF Took
  <2> QED
    BY <1>3, <1>4, <2>2, <2>3, Zenon
<1>6. Splits(d, t, x)
  BY <1>1, <1>2, <1>4, <1>5, Zenon DEF Splits
<1> QED
  BY <1>6, Zenon

(* Decode undoes Encode, whatever follows the value.                       *)
LEMMA DecodeEncode ==
    ASSUME NEW d \in SupportedValues, NEW r \in Seq(Byte)
    PROVE  /\ Encode(d) \in Seq(Byte) /\ Len(Encode(d)) \in Nat \ {0}
           /\ Decode(Encode(d) \o r) = Ok(Canonical(d), Len(Encode(d)))
<1>1. PICK byte, x : Splits(d, byte, x)
  BY SupportedType, SplitsNilBool, SplitsInteger, SplitsString, SplitsIP, Zenon
<1>2. byte \in Byte /\ x \in Seq(Byte) /\ Encode(d) = <<byte>> \o x
  BY <1>1, Zenon DEF Splits
<1>3. /\ <<byte>> \o x \in Seq(Byte) /\ (<<byte>> \o x) \o r \in Seq(Byte)
      /\ (<<byte>> \o x) \o r # <<>>
      /\ ((<<byte>> \o x) \o r)[1] = byte
      /\ Tail((<<byte>> \o x) \o r) = x \o r
      /\ Len(<<byte>> \o x) = 1 + Len(x)
  BY <1>2, FirstByte, Zenon
<1>4. Decode(Encode(d) \o r) = DecodeAs(byte % 16, byte \div 16, x \o r)
  BY <1>2, <1>3, Zenon DEF Decode
<1>5. Decode(Encode(d) \o r) = Ok(Canonical(d), Len(x) + 1)
  BY <1>1, <1>4, Zenon DEF Splits
<1>6. Len(x) \in Nat
  BY <1>2
<1>7. Len(x) + 1 = 1 + Len(x) /\ 1 + Len(x) \in Nat \ {0}
  BY <1>6
<1> QED
  BY <1>2, <1>3, <1>5, <1>7, Zenon

(* What Decode can make of a buffer.                                       *)
Shape(t, v) ==
    /\ t = "nil" => v = <<>>
    /\ t = "bool" => v \in {<<0>>, <<1>>}
    /\ t \in Integer => Len(v) = 1 /\ Fits(v[1], t)
    /\ t \in {"string", "bytes", "ip"} => v \in Strings
    /\ \/ t \in Integer \cup {"nil", "bool", "string", "bytes"}
       \/ t = "ip" /\ Len(v) \in {4, 16}

(* What a decoder returns has an encoding.                                 *)
LEMMA DecodedValues ==
    /\ Value("nil", <<>>) \in SupportedValues
    /\ \A b \in {0, 1} : Value("bool", <<b>>) \in SupportedValues
    /\ \A t \in Integer, i \in Int : Fits(i, t) => Value(t, <<i>>) \in SupportedValues
    /\ \A t \in {"string", "bytes"}, s \in Strings : Value(t, s) \in SupportedValues
    /\ \A s \in Strings : Len(s) \in {4, 16} => Value("ip", s) \in SupportedValues
<1>0. /\ "nil" \in GoTypes /\ "bool" \in GoTypes /\ "ip" \in GoTypes
      /\ \A t \in Integer \cup {"string", "bytes"} : t \in GoTypes
  BY Zenon DEF GoTypes
<1>1. ASSUME NEW t \in GoTypes, NEW v \in Seq(Int)
      PROVE  /\ Value(t, v) \in [type : GoTypes, v : Seq(Int)]
             /\ Value(t, v).type = t /\ Value(t, v).v = v
  BY DEF Value
<1>2. ASSUME NEW t \in GoTypes, NEW v \in Seq(Int), Shape(t, v)
      PROVE  Value(t, v) \in SupportedValues
  <2> DEFINE d == Value(t, v)
  <2>1. d \in [type : GoTypes, v : Seq(Int)] /\ d.type = t /\ d.v = v
    BY <1>1, Zenon
  <2> HIDE DEF d
  <2>2. d \in Values
    BY <1>2, <2>1, Zenon DEF Values, Shape
  <2>3. Supported(d)
    BY <1>2, <2>1, Zenon DEF Supported, Shape
  <2> QED
    BY <2>2, <2>3, Zenon DEF SupportedValues, d
<1>3. Value("nil", <<>>) \in SupportedValues
  <2>1. <<>> \in Seq(Int) /\ "nil" \notin Integer
    BY DEF Integer
  <2>2. Shape("nil", <<>>)
    BY <2>1 DEF Shape
  <2> QED
    BY <1>0, <1>2, <2>1, <2>2, Zenon
<1>4. ASSUME NEW b \in {0, 1} PROVE Value("bool", <<b>>) \in SupportedValues
  <2>1. <<b>> \in Seq(Int) /\ "bool" \notin Integer
    BY DEF Integer
  <2>2. <<b>> \in {<<0>>, <<1>>}
    OBVIOUS
  <2>3. Shape("bool", <<b>>)
    BY <2>1, <2>2 DEF Shape
  <2> QED
    BY <1>0, <1>2, <2>1, <2>3, Zenon
<1>5. ASSUME NEW t \in Integer, NEW i \in Int, Fits(i, t)
      PROVE  Value(t, <<i>>) \in SupportedValues
  <2>1. <<i>> \in Seq(Int) /\ Len(<<i>>) = 1 /\ <<i>>[1] = i
    OBVIOUS
  <2>2. t \notin {"nil", "bool", "string", "bytes", "ip"}
    BY DEF Integer
  <2>3. Shape(t, <<i>>)
    BY <1>5, <2>1, <2>2 DEF Shape
  <2> QED
    BY <1>0, <1>2, <2>1, <2>2, <2>3, Zenon
<1>6. ASSUME NEW s \in Strings PROVE s \in Seq(Int)
  <2>1. s \in Seq(Byte)
    BY Zenon DEF Strings
  <2>2. Byte \subseteq Int
    BY DEF Byte
  <2> QED
    BY <2>1, <2>2, SeqMonotonic, Zenon
<1>7. ASSUME NEW t \in {"string", "bytes"}, NEW s \in Strings
      PROVE  Value(t, s) \in SupportedValues
  <2>1. t \notin Integer /\ t \notin {"nil", "bool"}
    BY DEF Integer
  <2>2. Shape(t, s)
    BY <1>7, <2>1 DEF Shape
  <2> QED
    BY <1>0, <1>2, <1>6, <2>1, <2>2, Zenon
<1>8. ASSUME NEW s \in Strings, Len(s) \in {4, 16} PROVE Value("ip", s) \in SupportedValues
  <2>1. "ip" \notin Integer
    BY DEF Integer
  <2>2. Shape("ip", s)
    BY <1>8, <2>1 DEF Shape
  <2> QED
    BY <1>0, <1>2, <1>6, <2>1, <2>2, Zenon
<1> QED
  BY <1>3, <1>4, <1>5, <1>7, <1>8, Zenon

Behind(rest, r) ==
    r = Error \/ \E v \in SupportedValues, n \in 0 .. Len(rest) : r = Ok(v, n + 1)

(* Decoding a wire type fails, or takes some of its bytes and returns a    *)
(* value.                                                                  *)
LEMMA DecodeAsTakes ==
    ASSUME NEW byte \in Byte, NEW rest \in Seq(Byte)
    PROVE  Behind(rest, DecodeAs(byte % 16, byte \div 16, rest))
<1> DEFINE t == byte % 16
           f == byte \div 16
           r == DecodeAs(t, f, rest)
<1>1. /\ t \in {0} \cup {1} \cup {6, 7} \cup {8, 9} \cup {2, 3, 4, 5} \cup {10, 11, 12, 13, 14, 15}
      /\ f % 2 \in {0, 1}
  BY DEF Byte
<1>2. Len(rest) \in Nat /\ 0 \in 0 .. Len(rest)
  OBVIOUS
<1> SUFFICES Behind(rest, r)
  BY Zenon
<1> HIDE DEF t, f
<1>3. CASE t = 0
  <2>1. r = Ok(Value("nil", <<>>), 0 + 1)
    BY <1>3, DecodeAsIs, TypesAre, Zenon DEF Took
  <2> QED
    BY <1>2, <2>1, DecodedValues, Zenon DEF Behind
<1>4. CASE t = 1
  <2>1. r = Ok(Value("bool", <<f % 2>>), 0 + 1)
    BY <1>4, DecodeAsIs, TypesAre, Zenon DEF Took
  <2> QED
    BY <1>1, <1>2, <2>1, DecodedValues, Zenon DEF Behind
<1>5. CASE t \in {6, 7}
  <2>1. r = IF Len(rest) < IPLen(t) THEN Error ELSE Took(t, SubSeq(rest, 1, IPLen(t)), IPLen(t))
    BY <1>5, DecodeAsIs, Zenon
  <2>2. CASE Len(rest) < IPLen(t)
    BY <2>1, <2>2, Zenon DEF Behind
  <2>3. CASE ~(Len(rest) < IPLen(t))
    <3> DEFINE k == IPLen(t)
               s == SubSeq(rest, 1, k)
    <3>1. k \in {4, 16} /\ Types[t + 1] = "ip"
      BY <1>5, TypesAre DEF IPLen
    <3> HIDE DEF k
    <3>2. k \in 0 .. Len(rest) /\ k \in 1 .. Len(rest) /\ k < Word
      BY <1>2, <2>3, <3>1, WordAssumption DEF k
    <3>3. s \in Seq(Byte) /\ Len(s) = k
      BY <3>2
    <3> HIDE DEF s
    <3>4. s \in Strings
      BY <3>2, <3>3, Zenon DEF Strings
    <3>5. Value("ip", s) \in SupportedValues
      BY <3>1, <3>3, <3>4, DecodedValues, Zenon
    <3>6. r = Ok(Value("ip", s), k + 1)
      BY <2>1, <2>3, <3>1, Zenon DEF Took, k, s
    <3> HIDE DEF r
    <3> QED
      BY <3>2, <3>5, <3>6, Zenon DEF Behind
  <2> QED
    BY <2>2, <2>3, Zenon
<1>6. CASE t \in {8, 9}
  <2>1. r = IF Failed(GetString(rest)) THEN Error ELSE Took(t, GetString(rest).val, GetString(rest).n)
    BY <1>6, DecodeAsIs, Zenon
  <2>2. CASE Failed(GetString(rest))
    BY <2>1, <2>2, Zenon DEF Behind
  <2>3. CASE ~Failed(GetString(rest))
    <3>1. GetString(rest) # Error
      BY <2>3 DEF Failed, Error
    <3>2. PICK s \in Strings, n \in 1 .. Len(rest) : GetString(rest) = Ok(s, n)
      BY <3>1, GetStringTakes, Zenon DEF Taken
    <3>3. GetString(rest).val = s /\ GetString(rest).n = n /\ n \in 0 .. Len(rest)
      BY <3>2 DEF Ok
    <3>4. Types[t + 1] \in {"string", "bytes"}
      BY <1>6, TypesAre
    <3>5. r = Ok(Value(Types[t + 1], s), n + 1)
      BY <2>1, <2>3, <3>3, Zenon DEF Took
    <3>6. Value(Types[t + 1], s) \in SupportedValues
      BY <3>4, DecodedValues, Zenon
    <3> HIDE DEF r
    <3> QED
      BY <3>3, <3>5, <3>6, Zenon DEF Behind
  <2> QED
    BY <2>2, <2>3, Zenon
<1>7. CASE t \in {2, 3, 4, 5}
  <2>1. r = IF Failed(Uvarint(rest)) THEN Error
            ELSE Took(t, <<Converted(Uvarint(rest).val, Types[t + 1])>>, Uvarint(rest).n)
    BY <1>7, DecodeAsIs, Zenon
  <2>2. CASE Failed(Uvarint(rest))
    BY <2>1, <2>2, Zenon DEF Behind
  <2>3. CASE ~Failed(Uvarint(rest))
    <3>1. Uvarint(rest) # Error
      BY <2>3 DEF Failed, Error
    <3>2. PICK v, n : Uvarint(rest) = Ok(v, n) /\ Reads(rest, v, n)
      BY <3>1, UvarintResult, Zenon
    <3>3. v \in Nat /\ n \in 0 .. Len(rest)
      BY <3>2, WordAssumption DEF Reads
    <3>4. Uvarint(rest).val = v /\ Uvarint(rest).n = n
      BY <3>2 DEF Ok
    <3>5. Types[t + 1] \in Integer
      BY <1>7, TypesAre DEF Integer
    <3> DEFINE u == Types[t + 1]
               i == Converted(v, u)
    <3>6. i \in Int /\ Fits(i, u)
      BY <3>3, ConvertedFits, Zenon
    <3>7. r = Ok(Value(u, <<i>>), n + 1)
      BY <2>1, <2>3, <3>4, Zenon DEF Took
    <3> HIDE DEF i
    <3>8. Value(u, <<i>>) \in SupportedValues
      BY <3>5, <3>6, DecodedValues, Zenon
    <3> HIDE DEF r, u
    <3> QED
      BY <3>3, <3>7, <3>8, Zenon DEF Behind
  <2> QED
    BY <2>2, <2>3, Zenon
<1>8. CASE t \in {10, 11, 12, 13, 14, 15}
  BY <1>8, DecodeAsIs, Zenon DEF Behind
<1> HIDE DEF r
<1> QED
  BY <1>1, <1>3, <1>4, <1>5, <1>6, <1>7, <1>8, Zenon

(* Decode fails, or takes some of its bytes and returns a value.           *)
LEMMA DecodeTakes ==
    ASSUME NEW buf \in Seq(Byte)
    PROVE  Taken(buf, Decode(buf), SupportedValues)
<1>1. CASE buf = <<>>
  BY <1>1, Zenon DEF Decode, Taken
<1>2. CASE buf # <<>>
  <2> DEFINE byte == buf[1]
             t == Tail(buf)
  <2>1. /\ byte \in Byte /\ t \in Seq(Byte) /\ buf = <<byte>> \o t
        /\ Len(buf) \in Nat \ {0} /\ Len(t) \in Nat /\ Len(buf) = 1 + Len(t)
    BY <1>2, HeadAndRest, Zenon
  <2>2. Decode(buf) = DecodeAs(byte % 16, byte \div 16, t)
    BY <1>2, Zenon DEF Decode
  <2> HIDE DEF byte, t
  <2>3. CASE Decode(buf) = Error
    BY <2>3, Zenon DEF Taken
  <2>4. CASE Decode(buf) # Error
    <3>0. Behind(t, Decode(buf))
      BY <2>1, <2>2, DecodeAsTakes, Zenon
    <3>1. PICK v \in SupportedValues, n \in 0 .. Len(t) : Decode(buf) = Ok(v, n + 1)
      BY <2>4, <3>0, Zenon DEF Behind
    <3>2. n + 1 \in 1 .. Len(buf)
      BY <2>1
    <3> QED
      BY <3>1, <3>2, Zenon DEF Taken
  <2> QED
    BY <2>3, <2>4, Zenon
<1> QED
  BY <1>1, <1>2, Zenon

-----------------------------------------------------------------------------
(* KV items.                                                               *)

ValidItems == [name : Strings, val : SupportedValues]

(* The name and the value that buf starts with, and their lengths.         *)
HoldsItem(buf, s, k, v, m) ==
    /\ k \in Nat /\ m \in Nat
    /\ GetString(buf) = Ok(s, k) /\ Decode(Drop(buf, k)) = Ok(v, m)

(* GetItem reads a name and then a value.                                  *)
LEMMA GetItemIs ==
    ASSUME NEW buf, NEW s, NEW k, NEW v, NEW m, HoldsItem(buf, s, k, v, m)
    PROVE  GetItem(buf) = Ok(Item(s, v), k + m)
  BY DEF GetItem, AndThen, Failed, Ok, HoldsItem

(* An item is read back, whatever follows it.                              *)
LEMMA GetItemPut ==
    ASSUME NEW i \in ValidItems, NEW r \in Seq(Byte)
    PROVE  /\ PutItem(i) \in Seq(Byte) /\ Len(PutItem(i)) \in Nat \ {0}
           /\ GetItem(PutItem(i) \o r) = Ok(CanonicalItem(i), Len(PutItem(i)))
<1> DEFINE p == PutString(i.name)
           e == Encode(i.val)
<1>1. i.name \in Strings /\ i.val \in SupportedValues
  BY DEF ValidItems
<1>2. p \in Seq(Byte) /\ Len(p) \in Nat \ {0}
  BY <1>1, StringBytes, Zenon
<1>3. /\ e \in Seq(Byte) /\ Len(e) \in Nat \ {0}
      /\ Decode(e \o r) = Ok(Canonical(i.val), Len(e))
  BY <1>1, DecodeEncode, Zenon
<1>4. e \o r \in Seq(Byte) /\ (p \o e) \o r = p \o (e \o r) /\ p \o e \in Seq(Byte)
  BY <1>2, <1>3, Assoc, Zenon
<1>5. GetString(p \o (e \o r)) = Ok(i.name, Len(p))
  BY <1>1, <1>4, GetStringPut, Zenon
<1>6. PutItem(i) = p \o e
  BY Zenon DEF PutItem
<1> HIDE DEF p, e
<1>7. Drop(p \o (e \o r), Len(p)) = e \o r /\ Len(p \o e) = Len(p) + Len(e)
  BY <1>2, <1>3, <1>4, Parts, Zenon
<1>8. Len(p) \in Nat /\ Len(e) \in Nat /\ Len(p) + Len(e) \in Nat \ {0}
  BY <1>2, <1>3
<1>9. GetItem(p \o (e \o r)) = Ok(Item(i.name, Canonical(i.val)), Len(p) + Len(e))
  <2>1. HoldsItem(p \o (e \o r), i.name, Len(p), Canonical(i.val), Len(e))
    BY <1>3, <1>5, <1>7, <1>8, Zenon DEF HoldsItem
  <2> QED
    BY <2>1, GetItemIs, Zenon
<1> QED
  BY <1>4, <1>6, <1>7, <1>8, <1>9, Zenon DEF CanonicalItem

(* GetItem fails, or takes some of its bytes and returns an item.          *)
LEMMA GetItemTakes ==
    ASSUME NEW buf \in Seq(Byte)
    PROVE  Taken(buf, GetItem(buf), ValidItems)
<1>1. CASE GetString(buf) = Error
  <2>1. GetItem(buf) = Error
    BY <1>1 DEF GetItem, AndThen, Failed, Error
  <2> QED
    BY <2>1, Zenon DEF Taken
<1>2. CASE GetString(buf) # Error
  <2>1. PICK s \in Strings, k \in 1 .. Len(buf) : GetString(buf) = Ok(s, k)
    BY <1>2, GetStringTakes, Zenon DEF Taken
  <2>2. k \in 0 .. Len(buf)
    OBVIOUS
  <2>3. /\ Drop(buf, k) \in Seq(Byte) /\ Len(Drop(buf, k)) = Len(buf) - k
        /\ Len(buf) \in Nat /\ k \in Nat
    BY <2>2, DropBytes, Zenon
  <2>4. CASE Decode(Drop(buf, k)) = Error
    <3>1. GetItem(buf) = Error
      BY <2>1, <2>3, <2>4 DEF GetItem, AndThen, Failed, Error, Ok
    <3> QED
      BY <3>1, Zenon DEF Taken
  <2>5. CASE Decode(Drop(buf, k)) # Error
    <3>1. PICK v \in SupportedValues, m \in 1 .. Len(Drop(buf, k)) : Decode(Drop(buf, k)) = Ok(v, m)
      BY <2>3, <2>5, DecodeTakes, Zenon DEF Taken
    <3>2. m \in Nat /\ k + m \in 1 .. Len(buf)
      BY <2>3
    <3>3. GetItem(buf) = Ok(Item(s, v), k + m)
      <4>1. HoldsItem(buf, s, k, v, m)
        BY <2>1, <2>3, <3>1, <3>2, Zenon DEF HoldsItem
      <4> QED
        BY <4>1, GetItemIs, Zenon
    <3>4. Item(s, v) \in ValidItems
      BY Zenon DEF Item, ValidItems
    <3> QED
      BY <3>2, <3>3, <3>4, Zenon DEF Taken
  <2> QED
    BY <2>4, <2>5, Zenon
<1> QED
  BY <1>1, <1>2, Zenon

(* One thing after another.                                                *)
LEMMA ThenIs ==
    /\ \A e, n, m : \A k \in Nat : Then(Ok(e, n), Ok(m, k)) = Ok(<<e>> \o m, n + k)
    /\ \A e : Then(e, Error) = Error
<1>1. ASSUME NEW e, NEW n, NEW m, NEW k \in Nat
      PROVE  Then(Ok(e, n), Ok(m, k)) = Ok(<<e>> \o m, n + k)
  BY DEF Then, AndThen, Failed, Ok
<1>2. ASSUME NEW e PROVE Then(e, Error) = Error
  BY DEF Then, AndThen, Failed, Error
<1> QED
  BY <1>1, <1>2, Zenon

(* An error is a failure and a result is none.                             *)
LEMMA FailedIs ==
    /\ Failed(Error)
    /\ \A v : \A n \in Nat : ~Failed(Ok(v, n)) /\ Ok(v, n).val = v /\ Ok(v, n).n = n
  BY DEF Failed, Error, Ok

(* A list of entries grows by entries.                                     *)
LEMMA ThenResult ==
    ASSUME NEW V, NEW e \in V, NEW n \in Nat, NEW r \in Result(Seq(V))
    PROVE  Then(Ok(e, n), r) \in Result(Seq(V))
<1>1. CASE r = Error
  BY <1>1, ThenIs, Zenon DEF Result
<1>2. CASE r # Error
  <2>1. r \in [val : Seq(V), n : Nat]
    BY <1>2, Zenon DEF Result
  <2>2. r = Ok(r.val, r.n) /\ r.val \in Seq(V) /\ r.n \in Nat
    BY <2>1 DEF Ok
  <2>3. Then(Ok(e, n), r) = Ok(<<e>> \o r.val, n + r.n)
    <3>1. Then(Ok(e, n), Ok(r.val, r.n)) = Ok(<<e>> \o r.val, n + r.n)
      BY <2>2, ThenIs, ZenonT(60)
    <3> QED
      BY <2>2, <3>1, Zenon
  <2>4. <<e>> \o r.val \in Seq(V) /\ n + r.n \in Nat
    BY <2>2
  <2>5. Ok(<<e>> \o r.val, n + r.n) \in [val : Seq(V), n : Nat]
    BY <2>4, Zenon DEF Ok
  <2> QED
    BY <2>3, <2>5, Zenon DEF Result
<1> QED
  BY <1>1, <1>2, Zenon

(* UnmarshalNB satisfies its recursive definition.                         *)
Row(count, g) ==
    [buf \in Seq(Byte) |->
        IF count = 0 THEN Ok(<<>>, 0)
        ELSE IF Failed(GetItem(buf)) THEN Error
        ELSE Then(GetItem(buf), g[Drop(buf, GetItem(buf).n)])]

(* A row of the loop has results for values.                               *)
LEMMA RowTyped ==
    ASSUME NEW count, NEW g \in [Seq(Byte) -> Result(Seq(ValidItems))]
    PROVE  Row(count, g) \in [Seq(Byte) -> Result(Seq(ValidItems))]
<1> DEFINE R == Result(Seq(ValidItems))
           val(buf) == IF count = 0 THEN Ok(<<>>, 0)
                       ELSE IF Failed(GetItem(buf)) THEN Error
                       ELSE Then(GetItem(buf), g[Drop(buf, GetItem(buf).n)])
<1>1. Ok(<<>>, 0) \in R
  <2>1. <<>> \in Seq(ValidItems) /\ 0 \in Nat
    OBVIOUS
  <2> QED
    BY <2>1, Zenon DEF Result, Ok
<1>2. Error \in R
  BY Zenon DEF Result
<1>3. ASSUME NEW buf \in Seq(Byte), ~Failed(GetItem(buf))
      PROVE  Then(GetItem(buf), g[Drop(buf, GetItem(buf).n)]) \in R
  <2>1. GetItem(buf) # Error
    BY <1>3, FailedIs, Zenon
  <2>2. PICK v \in ValidItems, n \in 1 .. Len(buf) : GetItem(buf) = Ok(v, n)
    BY <2>1, GetItemTakes, Zenon DEF Taken
  <2>3. n \in Nat /\ n \in 0 .. Len(buf)
    OBVIOUS
  <2>4. GetItem(buf).n = n
    BY <2>2, <2>3, FailedIs, ZenonT(60)
  <2>5. Drop(buf, n) \in Seq(Byte)
    BY <2>3, DropBytes, Zenon
  <2>6. g[Drop(buf, n)] \in R
    BY <2>5, Zenon
  <2>7. Then(Ok(v, n), g[Drop(buf, n)]) \in R
    BY <2>3, <2>6, ThenResult, Zenon
  <2> QED
    BY <2>2, <2>4, <2>7, Zenon
<1>4. \A buf \in Seq(Byte) : val(buf) \in R
  <2> HIDE DEF R
  <2> QED
    BY <1>1, <1>2, <1>3, Zenon
<1>5. Row(count, g) = [buf \in Seq(Byte) |-> val(buf)]
  BY Zenon DEF Row
<1> HIDE DEF val, R
<1>6. [buf \in Seq(Byte) |-> val(buf)] \in [Seq(Byte) -> R]
  BY <1>4, Zenon
<1> QED
  BY <1>5, <1>6, Zenon DEF R

(* The recursive definition of UnmarshalNB, as an equation.                *)
LEMMA UnmarshalNBIs ==
    /\ \A k \in Nat : UnmarshalNB[k] \in [Seq(Byte) -> Result(Seq(ValidItems))]
    /\ \A k \in Nat : UnmarshalNB[k] = Row(k, UnmarshalNB[k - 1])
<1> DEFINE S == [Seq(Byte) -> Result(Seq(ValidItems))]
           base == {0}
           next == [k \in Nat \ base |-> k - 1]
           mu == [k \in Nat |-> k]
           b == [k \in base |-> Row(0, 0)]
           c == [k \in Nat \ base |-> [g \in S |-> Row(k, g)]]
<1>a. \A k \in Nat : k \in base <=> k = 0
  OBVIOUS
<1>b. \A k \in base : b[k] = Row(0, 0)
  BY Zenon
<1>c. \A k \in Nat \ base : next[k] = k - 1
  BY Zenon
<1>d. \A k \in Nat \ base : \A g \in S : c[k][g] = Row(k, g)
  BY Zenon
<1>e. \A g : Row(0, g) = Row(0, 0)
  BY Zenon DEF Row
<1>f. Row(0, 0) \in S
  <2>1. PICK g : g = [buf \in Seq(Byte) |-> Error]
    OBVIOUS
  <2>2. Error \in Result(Seq(ValidItems))
    BY Zenon DEF Result
  <2>3. g \in S
    BY <2>1, <2>2, Zenon
  <2> QED
    BY <1>e, <2>3, RowTyped, Zenon
<1>1. Drops(Nat, S, base, mu, next, b, c)
  <2>1. 0 \in Nat
    OBVIOUS
  <2>2. \A k \in Nat \ base : k - 1 \in Nat /\ k - 1 < k
    OBVIOUS
  <2>3. base \subseteq Nat /\ mu \in [Nat -> Nat] /\ b \in [base -> S]
    <3> HIDE DEF S
    <3> QED
      BY <1>f, <2>1, Zenon
  <2>4. next \in [Nat \ base -> Nat] /\ \A k \in Nat \ base : mu[next[k]] < mu[k]
    <3> HIDE DEF base
    <3> QED
      BY <2>2, Zenon
  <2>5. c \in [Nat \ base -> [S -> S]]
    <3>1. \A k : \A g \in S : Row(k, g) \in S
      BY RowTyped, Zenon
    <3> HIDE DEF S, base
    <3> QED
      BY <3>1, Zenon
  <2> HIDE DEF S, base, next, mu, b, c
  <2> QED
    BY <2>3, <2>4, <2>5, Zenon DEF Drops
<1> HIDE DEF S, base, next, mu, b, c
<1>2. PICK f : Satisfies(f, Nat, S, base, next, b, c)
  BY <1>1, Recursion, Zenon
<1>3. ASSUME NEW k \in Nat PROVE f[k] = Row(k, f[k - 1])
  <2>1. f[k] = IF k \in base THEN b[k] ELSE c[k][f[next[k]]]
    BY <1>2, Zenon DEF Satisfies
  <2>2. CASE k \in base
    BY <1>a, <1>b, <1>e, <2>1, <2>2, Zenon
  <2>3. CASE k \notin base
    <3>1. next[k] \in Nat /\ f[next[k]] \in S
      BY <1>1, <1>2, <2>3, Zenon DEF Satisfies, Drops
    <3>2. next[k] = k - 1 /\ c[k][f[next[k]]] = Row(k, f[next[k]])
      BY <1>c, <1>d, <2>3, <3>1, Zenon
    <3> QED
      BY <2>1, <2>3, <3>2, Zenon
  <2> QED
    BY <2>2, <2>3, Zenon
<1>4. f = [k \in Nat |-> Row(k, f[k - 1])]
  <2>1. f = [k \in Nat |-> f[k]]
    BY <1>2, Zenon DEF Satisfies
  <2> QED
    BY <1>3, <2>1, Zenon
<1>5. UnmarshalNB = [k \in Nat |-> Row(k, UnmarshalNB[k - 1])]
  BY <1>4, Zenon DEF UnmarshalNB, Row, AndThen
<1>6. \A k \in Nat : UnmarshalNB[k] = Row(k, UnmarshalNB[k - 1])
  BY <1>5, Zenon
<1>7. Follows(UnmarshalNB, Nat, S, base, next, b, c)
  <2>1. ASSUME NEW k \in Nat, k \in base PROVE UnmarshalNB[k] = b[k]
    BY <1>6, <1>a, <1>b, <1>e, <2>1, Zenon
  <2>2. ASSUME NEW k \in Nat, k \notin base, UnmarshalNB[next[k]] \in S
        PROVE  UnmarshalNB[k] = c[k][UnmarshalNB[next[k]]]
    <3>1. UnmarshalNB[k] = Row(k, UnmarshalNB[k - 1])
      BY <1>6, Zenon
    <3>2. next[k] = k - 1 /\ c[k][UnmarshalNB[next[k]]] = Row(k, UnmarshalNB[next[k]])
      BY <1>c, <1>d, <2>2, Zenon
    <3> QED
      BY <3>1, <3>2, Zenon
  <2> QED
    BY <2>1, <2>2, Zenon DEF Follows
<1> QED
  BY <1>1, <1>6, <1>7, Typed, Zenon DEF S

(* UnmarshalNB reads one item and then the others.                         *)
LEMMA UnmarshalNBStep ==
    ASSUME NEW k \in Nat, NEW buf \in Seq(Byte)
    PROVE  /\ UnmarshalNB[0][buf] = Ok(<<>>, 0)
           /\ UnmarshalNB[k + 1][buf] =
                 IF Failed(GetItem(buf)) THEN Error
                 ELSE Then(GetItem(buf), UnmarshalNB[k][Drop(buf, GetItem(buf).n)])
<1>1. k + 1 \in Nat /\ (k + 1) - 1 = k /\ k + 1 # 0 /\ 0 \in Nat
  OBVIOUS
<1>2. UnmarshalNB[0] = Row(0, UnmarshalNB[0 - 1]) /\ UnmarshalNB[k + 1] = Row(k + 1, UnmarshalNB[k])
  BY <1>1, UnmarshalNBIs, Zenon
<1> QED
  BY <1>1, <1>2, Zenon DEF Row

(* UnmarshalNB reads count items, or fails.                                *)
GotItems(buf, count, r) ==
    r = Error \/ \E v \in Seq(ValidItems), n \in 0 .. Len(buf) : Len(v) = count /\ r = Ok(v, n)

(* UnmarshalNB fails, or returns as many items as it was asked for.        *)
LEMMA UnmarshalNBTakes ==
    \A k \in Nat : \A buf \in Seq(Byte) : GotItems(buf, k, UnmarshalNB[k][buf])
<1> DEFINE P == {k \in Nat : \A buf \in Seq(Byte) : GotItems(buf, k, UnmarshalNB[k][buf])}
<1>1. 0 \in P
  <2>1. ASSUME NEW buf \in Seq(Byte) PROVE GotItems(buf, 0, UnmarshalNB[0][buf])
    <3>1. <<>> \in Seq(ValidItems) /\ Len(<<>>) = 0 /\ 0 \in Nat /\ 0 \in 0 .. Len(buf)
      OBVIOUS
    <3>2. UnmarshalNB[0][buf] = Ok(<<>>, 0)
      BY <3>1, UnmarshalNBStep, Zenon
    <3> QED
      BY <3>1, <3>2, Zenon DEF GotItems
  <2> QED
    BY <2>1, Zenon
<1>2. ASSUME NEW k \in Nat, k \in P PROVE k + 1 \in P
  <2>0. k + 1 \in Nat
    OBVIOUS
  <2>1. ASSUME NEW buf \in Seq(Byte) PROVE GotItems(buf, k + 1, UnmarshalNB[k + 1][buf])
    <3>1. UnmarshalNB[k + 1][buf] =
            IF Failed(GetItem(buf)) THEN Error
            ELSE Then(GetItem(buf), UnmarshalNB[k][Drop(buf, GetItem(buf).n)])
      BY UnmarshalNBStep, Zenon
    <3>2. CASE Failed(GetItem(buf))
      BY <3>1, <3>2, Zenon DEF GotItems
    <3>3. CASE ~Failed(GetItem(buf))
      <4>1. GetItem(buf) # Error
        BY <3>3, FailedIs, Zenon
      <4>2. PICK v \in ValidItems, n \in 1 .. Len(buf) : GetItem(buf) = Ok(v, n)
        BY <4>1, GetItemTakes, Zenon DEF Taken
      <4>3. n \in Nat /\ n \in 0 .. Len(buf)
        OBVIOUS
      <4>4. GetItem(buf).n = n
        BY <4>2, <4>3, FailedIs, ZenonT(60)
      <4> DEFINE rest == Drop(buf, n)
      <4>5. rest \in Seq(Byte) /\ Len(rest) = Len(buf) - n /\ Len(buf) \in Nat
        BY <4>3, DropBytes, Zenon
      <4> HIDE DEF rest
      <4>6. UnmarshalNB[k + 1][buf] = Then(Ok(v, n), UnmarshalNB[k][rest])
        BY <3>1, <3>3, <4>2, <4>4, Zenon DEF rest
      <4>7. GotItems(rest, k, UnmarshalNB[k][rest])
        BY <1>2, <4>5, Zenon
      <4>8. CASE UnmarshalNB[k][rest] = Error
        <5>1. UnmarshalNB[k + 1][buf] = Error
          BY <4>6, <4>8, ThenIs, Zenon
        <5> QED
          BY <5>1, Zenon DEF GotItems
      <4>9. CASE UnmarshalNB[k][rest] # Error
        <5>1. PICK w \in Seq(ValidItems), m \in 0 .. Len(rest) :
                 Len(w) = k /\ UnmarshalNB[k][rest] = Ok(w, m)
          BY <4>7, <4>9, Zenon DEF GotItems
        <5>2. m \in Nat /\ n + m \in 0 .. Len(buf)
          BY <4>5
        <5>3. <<v>> \o w \in Seq(ValidItems) /\ Len(<<v>> \o w) = k + 1
          BY <5>1
        <5>4. UnmarshalNB[k + 1][buf] = Ok(<<v>> \o w, n + m)
          <6>1. Then(Ok(v, n), Ok(w, m)) = Ok(<<v>> \o w, n + m)
            BY <5>2, ThenIs, ZenonT(60)
          <6> QED
            BY <4>6, <5>1, <6>1, Zenon
        <5> QED
          BY <5>2, <5>3, <5>4, Zenon DEF GotItems
      <4> QED
        BY <4>8, <4>9, Zenon
    <3> QED
      BY <3>2, <3>3, Zenon
  <2> QED
    BY <2>0, <2>1, Zenon
<1> HIDE DEF P
<1>3. Nat \subseteq P
  BY <1>1, <1>2, Induction, Zenon
<1> QED
  BY <1>3, Zenon DEF P

(* UnmarshalNB reads the items there are, whatever follows them.           *)
PutOf == [i \in ValidItems |-> PutItem(i)]
SeenAs == [i \in ValidItems |-> CanonicalItem(i)]

(* What Bytes writes, item by item.                                        *)
LEMMA BytesAre ==
    /\ PutOf \in [ValidItems -> Seq(Byte)]
    /\ SeenAs \in [ValidItems -> {CanonicalItem(i) : i \in ValidItems}]
    /\ \A args \in Seq(ValidItems) :
          /\ Bytes(args) = Wire(PutOf, args)
          /\ Image(SeenAs, args) = [i \in DOMAIN args |-> CanonicalItem(args[i])]
<1>1. PutOf \in [ValidItems -> Seq(Byte)]
  <2>1. <<>> \in Seq(Byte)
    OBVIOUS
  <2>2. \A i \in ValidItems : PutItem(i) \in Seq(Byte)
    BY <2>1, GetItemPut, Zenon
  <2> QED
    BY <2>2, Zenon DEF PutOf
<1>2. SeenAs \in [ValidItems -> {CanonicalItem(i) : i \in ValidItems}]
  BY Zenon DEF SeenAs
<1>3. ASSUME NEW args \in Seq(ValidItems)
      PROVE  /\ Bytes(args) = Wire(PutOf, args)
             /\ Image(SeenAs, args) = [i \in DOMAIN args |-> CanonicalItem(args[i])]
  <2>1. \A i \in DOMAIN args : args[i] \in ValidItems
    OBVIOUS
  <2>2. /\ \A i \in DOMAIN args : PutOf[args[i]] = PutItem(args[i])
        /\ \A i \in DOMAIN args : SeenAs[args[i]] = CanonicalItem(args[i])
    BY <2>1, Zenon DEF PutOf, SeenAs
  <2> QED
    BY <2>2, Zenon DEF Bytes, Wire, Image
<1> QED
  BY <1>1, <1>2, <1>3, Zenon

(* As many items as were written are read back, whatever follows them.     *)
LEMMA UnmarshalNBPut ==
    \A args \in Seq(ValidItems) : \A r \in Seq(Byte) :
        UnmarshalNB[Len(args)][Wire(PutOf, args) \o r] = Ok(Image(SeenAs, args), Len(Wire(PutOf, args)))
<1> DEFINE Good(s, r) == UnmarshalNB[Len(s)][Wire(PutOf, s) \o r] = Ok(Image(SeenAs, s), Len(Wire(PutOf, s)))
           P == {s \in Seq(ValidItems) : \A r \in Seq(Byte) : Good(s, r)}
<1>1. ASSUME NEW s \in Seq(ValidItems),
             \A t \in Seq(ValidItems) : Len(t) < Len(s) => t \in P
      PROVE  s \in P
  <2>1. ASSUME s = <<>>, NEW r \in Seq(Byte) PROVE Good(s, r)
    <3>1. Len(<<>>) = 0 /\ <<>> \o r = r /\ 0 \in Nat /\ <<>> \in Seq(Byte)
      OBVIOUS
    <3>2. Image(SeenAs, <<>>) = <<>> /\ Image(PutOf, <<>>) = <<>>
      BY DEF Image
    <3>3. Wire(PutOf, <<>>) = <<>>
      BY <3>2, JoinedEmpty, Zenon DEF Wire
    <3>4. UnmarshalNB[0][r] = Ok(<<>>, 0)
      BY <3>1, UnmarshalNBStep, Zenon
    <3> QED
      BY <2>1, <3>1, <3>2, <3>3, <3>4, Zenon
  <2>2. ASSUME s # <<>>, NEW r \in Seq(Byte) PROVE Good(s, r)
    <3> DEFINE e == s[1]
               t == Tail(s)
               w == Wire(PutOf, t)
               p == PutItem(e)
               c == CanonicalItem(e)
    <3>1. /\ e \in ValidItems /\ t \in Seq(ValidItems) /\ s = <<e>> \o t
          /\ Len(s) \in Nat \ {0} /\ Len(t) \in Nat /\ Len(s) = 1 + Len(t)
      BY <2>2, HeadAndRest, Zenon
    <3> HIDE DEF e, t
    <3>2. Grows(SeenAs, {CanonicalItem(i) : i \in ValidItems}, e, t)
      BY <3>1, BytesAre, ImageCons, Zenon
    <3>3. Image(SeenAs, s) = <<SeenAs[e]>> \o Image(SeenAs, t) /\ SeenAs[e] = c /\ PutOf[e] = p
      BY <3>1, <3>2, Zenon DEF Grows, SeenAs, PutOf
    <3>4. Wire(PutOf, s) = PutOf[e] \o w /\ w \in Seq(Byte)
      <4>1. WireGrows(PutOf, e, t)
        BY <3>1, BytesAre, WireCons, Zenon
      <4> QED
        BY <3>1, <4>1, Zenon DEF WireGrows
    <3>5. w \o r \in Seq(Byte)
      BY <3>4, Assoc, Zenon
    <3>6. p \in Seq(Byte) /\ Len(p) \in Nat \ {0} /\ GetItem(p \o (w \o r)) = Ok(c, Len(p))
      BY <3>1, <3>5, GetItemPut, Zenon
    <3> HIDE DEF p, c
    <3>7. t \in P /\ Len(t) + 1 = Len(s)
      <4>1. Len(t) < Len(s) /\ Len(t) + 1 = Len(s)
        BY <3>1
      <4> QED
        BY <1>1, <3>1, <4>1, Zenon
    <3>8. UnmarshalNB[Len(t)][w \o r] = Ok(Image(SeenAs, t), Len(w))
      BY <3>7, Zenon
    <3> HIDE DEF P
    <3> HIDE DEF w
    <3>9. /\ Wire(PutOf, s) \o r = p \o (w \o r) /\ p \o (w \o r) \in Seq(Byte)
          /\ Drop(p \o (w \o r), Len(p)) = w \o r
      <4>1. Wire(PutOf, s) \o r = p \o (w \o r) /\ p \o (w \o r) \in Seq(Byte)
        <5>1. (p \o w) \o r = p \o (w \o r)
          BY <3>4, <3>6, Assoc, ZenonT(60)
        <5>2. p \o (w \o r) \in Seq(Byte)
          BY <3>5, <3>6, Assoc, Zenon
        <5> QED
          BY <3>3, <3>4, <5>1, <5>2, Zenon
      <4>2. Drop(p \o (w \o r), Len(p)) = w \o r
        BY <3>5, <3>6, Parts, Zenon
      <4> QED
        BY <4>1, <4>2, Zenon
    <3>10. Len(Wire(PutOf, s)) = Len(p) + Len(w) /\ Len(p) \in Nat /\ Len(w) \in Nat
      BY <3>3, <3>4, <3>6
    <3> DEFINE buf == p \o (w \o r)
    <3>11. ~Failed(GetItem(buf)) /\ GetItem(buf).n = Len(p)
      <4>1. ~Failed(Ok(c, Len(p))) /\ Ok(c, Len(p)).n = Len(p)
        BY <3>10, FailedIs, Zenon
      <4> QED
        BY <3>6, <4>1, Zenon
    <3>12. UnmarshalNB[Len(t) + 1][buf] =
             IF Failed(GetItem(buf)) THEN Error
             ELSE Then(GetItem(buf), UnmarshalNB[Len(t)][Drop(buf, GetItem(buf).n)])
      BY <3>1, <3>9, UnmarshalNBStep, Zenon
    <3>13. UnmarshalNB[Len(s)][buf] = Then(Ok(c, Len(p)), Ok(Image(SeenAs, t), Len(w)))
      BY <3>6, <3>7, <3>8, <3>9, <3>11, <3>12, Zenon
    <3>14. UnmarshalNB[Len(s)][buf] = Ok(<<c>> \o Image(SeenAs, t), Len(p) + Len(w))
      <4>0. Len(w) \in Nat
        BY <3>10, Zenon
      <4>1. \A n, m : Then(Ok(c, n), Ok(m, Len(w))) = Ok(<<c>> \o m, n + Len(w))
        BY <4>0, ThenIs, ZenonT(60)
      <4> QED
        BY <3>13, <4>1, Zenon
    <3> QED
      BY <3>3, <3>9, <3>10, <3>14, Zenon
  <2> HIDE DEF Good
  <2> QED
    BY <2>1, <2>2, Zenon
<1> HIDE DEF P
<1>2. Seq(ValidItems) \subseteq P
  BY <1>1, SeqInduction, Zenon
<1> QED
  BY <1>2, Zenon DEF P

-----------------------------------------------------------------------------
(* Messages.                                                               *)

ValidMessages == [name : Strings, kv : {args \in Seq(ValidItems) : Len(args) < 256}]

Message(s, args) == [name |-> s, kv |-> args]

(* The name, the count and the arguments that buf starts with.             *)
HoldsMessage(buf, s, k, c, args, m) ==
    /\ k \in Nat /\ m \in Nat /\ Len(buf) # k
    /\ GetString(buf) = Ok(s, k) /\ buf[k + 1] = c
    /\ UnmarshalNB[c][Drop(buf, k + 1)] = Ok(args, m)

(* GetMessage reads a name, a count and then so many items.                *)
LEMMA GetMessageIs ==
    ASSUME NEW buf, NEW s, NEW k, NEW c, NEW args, NEW m, HoldsMessage(buf, s, k, c, args, m)
    PROVE  GetMessage(buf) = Ok(Message(s, args), k + 1 + m)
  BY DEF GetMessage, AndThen, Failed, Ok, HoldsMessage, Message

(* A byte between two parts of a buffer.                                   *)
Amid(a, x, c) ==
    /\ (a \o <<x>>) \o c = a \o (<<x>> \o c)
    /\ a \o <<x>> \in Seq(Byte) /\ <<x>> \o c \in Seq(Byte)
    /\ Len(a \o <<x>>) = Len(a) + 1
    /\ (a \o (<<x>> \o c))[Len(a) + 1] = x
    /\ Len(a \o (<<x>> \o c)) # Len(a)

(* A byte between two buffers.                                             *)
LEMMA Between ==
    ASSUME NEW a \in Seq(Byte), NEW x \in Byte, NEW c \in Seq(Byte)
    PROVE  Amid(a, x, c)
<1>1. <<x>> \in Seq(Byte)
  OBVIOUS
<1>2. (a \o <<x>>) \o c = a \o (<<x>> \o c) /\ a \o <<x>> \in Seq(Byte)
  BY <1>1, Assoc, Zenon
<1>3. <<x>> \o c \in Seq(Byte)
  BY <1>1, Assoc, Zenon
<1>4. Len(a \o <<x>>) = Len(a) + 1 /\ Len(a \o (<<x>> \o c)) # Len(a)
  OBVIOUS
<1>5. (a \o (<<x>> \o c))[Len(a) + 1] = x
  OBVIOUS
<1> QED
  BY <1>2, <1>3, <1>4, <1>5, Zenon DEF Amid

(* What a byte is.                                                         *)
LEMMA ByteIs == \A n : n \in Byte <=> n \in Nat /\ n < 256
  BY DEF Byte

(* A message is read back, whatever follows it.                            *)
LEMMA GetMessagePut ==
    ASSUME NEW e \in ValidMessages, NEW r \in Seq(Byte)
    PROVE  /\ PutMessage(e) \in Seq(Byte) /\ Len(PutMessage(e)) \in Nat \ {0}
           /\ GetMessage(PutMessage(e) \o r) = Ok(CanonicalEntry(Notify, e), Len(PutMessage(e)))
<1> DEFINE s == e.name
           args == e.kv
           p == PutString(s)
           l == Len(args)
           q == p \o <<l>>
           w == Bytes(args)
           buf == p \o (<<l>> \o (w \o r))
<1>1. s \in Strings /\ args \in Seq(ValidItems) /\ l < 256
  BY DEF ValidMessages
<1>2. l \in Byte /\ l \in Nat
  <2>1. Len(args) \in Nat
    BY <1>1
  <2> QED
    BY <1>1, <2>1, ByteIs, Zenon
<1>3. CanonicalEntry(Notify, e) = Message(s, [i \in DOMAIN args |-> CanonicalItem(args[i])])
  BY DEF CanonicalEntry, ValidMessages, Message
<1>4. PutMessage(e) = q \o w
  BY Zenon DEF PutMessage
<1> HIDE DEF s, args
<1>5. p \in Seq(Byte) /\ Len(p) \in Nat \ {0}
  BY <1>1, StringBytes, Zenon
<1>6. w = Wire(PutOf, args) /\ [i \in DOMAIN args |-> CanonicalItem(args[i])] = Image(SeenAs, args)
  BY <1>1, BytesAre, Zenon
<1>7. w \in Seq(Byte)
  <2>1. Image(PutOf, args) \in Seq(Seq(Byte))
    <3>1. \A i \in DOMAIN args : args[i] \in ValidItems /\ PutOf[args[i]] \in Seq(Byte)
      BY <1>1, BytesAre
    <3>2. DOMAIN args = 1 .. Len(args) /\ Len(args) \in Nat
      BY <1>1
    <3> QED
      BY <3>1, <3>2 DEF Image
  <2> QED
    BY <1>6, <2>1, JoinedBytes, Zenon DEF Wire
<1>8. w \o r \in Seq(Byte)
  BY <1>7, Assoc, Zenon
<1>9. UnmarshalNB[l][w \o r] = Ok(Image(SeenAs, args), Len(w))
  BY <1>1, <1>6, UnmarshalNBPut, Zenon
<1> HIDE DEF p, l, w
<1>10. /\ q \o (w \o r) = buf
       /\ q \in Seq(Byte) /\ <<l>> \o (w \o r) \in Seq(Byte)
       /\ Len(q) = Len(p) + 1
       /\ buf[Len(p) + 1] = l
       /\ Len(buf) # Len(p)
  <2>1. Amid(p, l, w \o r)
    BY <1>2, <1>5, <1>8, Between, Zenon
  <2> QED
    BY <2>1, Zenon DEF Amid
<1>11. GetString(buf) = Ok(s, Len(p))
  BY <1>1, <1>10, GetStringPut, Zenon DEF p
<1> HIDE DEF q, buf
<1>12. Drop(q \o (w \o r), Len(q)) = w \o r
  BY <1>8, <1>10, Parts, Zenon
<1>q. q \in Seq(Byte)
  BY <1>10, Zenon
<1>13. (q \o w) \o r = q \o (w \o r) /\ q \o w \in Seq(Byte)
  BY <1>7, <1>q, Assoc, Zenon
<1>14. Len(q \o w) = Len(q) + Len(w) /\ Len(w) \in Nat /\ Len(q) \in Nat
  BY <1>7, <1>q
<1>15. Len(p) \in Nat /\ Len(p) + 1 + Len(w) \in Nat \ {0}
  BY <1>5, <1>14
<1>16. HoldsMessage(buf, s, Len(p), l, Image(SeenAs, args), Len(w))
  BY <1>9, <1>10, <1>11, <1>12, <1>14, <1>15, Zenon DEF HoldsMessage
<1>17. GetMessage(buf) = Ok(Message(s, Image(SeenAs, args)), Len(p) + 1 + Len(w))
  BY <1>16, GetMessageIs, Zenon
<1> QED
  BY <1>3, <1>4, <1>6, <1>10, <1>13, <1>14, <1>15, <1>17, Zenon

(* GetMessage fails, or takes some of its bytes and returns a message.     *)
LEMMA GetMessageTakes ==
    ASSUME NEW buf \in Seq(Byte)
    PROVE  Taken(buf, GetMessage(buf), ValidMessages)
<1>1. CASE GetString(buf) = Error
  <2>1. GetMessage(buf) = Error
    BY <1>1 DEF GetMessage, AndThen, Failed, Error
  <2> QED
    BY <2>1, Zenon DEF Taken
<1>2. CASE GetString(buf) # Error
  <2>1. PICK s \in Strings, k \in 1 .. Len(buf) : GetString(buf) = Ok(s, k)
    BY <1>2, GetStringTakes, Zenon DEF Taken
  <2>2. k \in Nat /\ Len(buf) \in Nat /\ k >= 1 /\ k <= Len(buf)
    OBVIOUS
  <2>3. CASE Len(buf) = k
    <3>1. GetMessage(buf) = Error
      BY <2>1, <2>2, <2>3 DEF GetMessage, AndThen, Failed, Ok
    <3> QED
      BY <3>1, Zenon DEF Taken
  <2>4. CASE Len(buf) # k
    <3> DEFINE c == buf[k + 1]
               rest == Drop(buf, k + 1)
    <3>1. k + 1 \in 0 .. Len(buf) /\ k + 1 \in 1 .. Len(buf)
      BY <2>2, <2>4
    <3>2. c \in Byte
      BY <3>1
    <3>3. rest \in Seq(Byte) /\ Len(rest) = Len(buf) - (k + 1)
      BY <3>1, DropBytes, Zenon
    <3>4. c \in Nat /\ c < 256
      BY <3>2, ByteIs, Zenon
    <3> HIDE DEF c, rest
    <3>5. GotItems(rest, c, UnmarshalNB[c][rest])
      BY <3>3, <3>4, UnmarshalNBTakes, Zenon
    <3>6. CASE UnmarshalNB[c][rest] = Error
      <4>1. GetMessage(buf) = Error
        BY <2>1, <2>2, <2>4, <3>6 DEF GetMessage, AndThen, Failed, Ok, Error, c, rest
      <4> QED
        BY <4>1, Zenon DEF Taken
    <3>7. CASE UnmarshalNB[c][rest] # Error
      <4>1. PICK args \in Seq(ValidItems), m \in 0 .. Len(rest) :
               Len(args) = c /\ UnmarshalNB[c][rest] = Ok(args, m)
        BY <3>5, <3>7, Zenon DEF GotItems
      <4>2. m \in Nat /\ k + 1 + m \in 1 .. Len(buf)
        BY <2>2, <3>3
      <4>3. HoldsMessage(buf, s, k, c, args, m)
        BY <2>1, <2>2, <2>4, <4>1, <4>2, Zenon DEF HoldsMessage, c, rest
      <4>4. GetMessage(buf) = Ok(Message(s, args), k + 1 + m)
        BY <4>3, GetMessageIs, Zenon
      <4>5. Message(s, args) \in ValidMessages
        BY <3>4, <4>1, Zenon DEF Message, ValidMessages
      <4> QED
        BY <4>2, <4>4, <4>5, Zenon DEF Taken
    <3> QED
      BY <3>6, <3>7, Zenon
  <2> QED
    BY <2>3, <2>4, Zenon
<1> QED
  BY <1>1, <1>2, Zenon

-----------------------------------------------------------------------------
(* Actions.                                                                *)

ValidActions ==
    {a \in [type : {SetVar, UnsetVar}, scope : Scopes, name : Strings, val : SupportedValues] :
        a.type = UnsetVar => a.val = Nil}

(* The three bytes an action starts with.                                  *)
GoodHead(buf) ==
    /\ Len(buf) >= 3
    /\ buf[1] \in {SetVar, UnsetVar} /\ buf[2] = nbVars(buf[1]) /\ buf[3] \in Scopes

HoldsName(buf, s, k) ==
    /\ GoodHead(buf) /\ k \in Nat
    /\ GetString(Drop(buf, 3)) = Ok(s, k)

HoldsValue(buf, s, k, v, m) ==
    /\ HoldsName(buf, s, k) /\ m \in Nat
    /\ Decode(Drop(buf, 3 + k)) = Ok(v, m)

(* An action whose head is not one of the two is refused.                  *)
LEMMA GetActionBadHead ==
    ASSUME NEW buf \in Seq(Byte), ~GoodHead(buf) PROVE GetAction(buf) = Error
  BY DEF GetAction, GoodHead

(* An action without a name is refused.                                    *)
LEMMA GetActionNoName ==
    ASSUME NEW buf, GoodHead(buf), GetString(Drop(buf, 3)) = Error PROVE GetAction(buf) = Error
  BY DEF GetAction, GoodHead, AndThen, Failed, Error

(* UNSET-VAR ends behind its name.                                         *)
LEMMA GetActionName ==
    ASSUME NEW buf, NEW s, NEW k, HoldsName(buf, s, k)
    PROVE  /\ buf[1] = UnsetVar => GetAction(buf) = Ok(Action(buf, s, Nil), 3 + k)
           /\ buf[1] # UnsetVar /\ Decode(Drop(buf, 3 + k)) = Error => GetAction(buf) = Error
<1>1. ~(Len(buf) < 3) /\ GoodHead(buf)
  BY DEF HoldsName, GoodHead
<1>2. GetString(Drop(buf, 3)) = Ok(s, k) /\ k \in Nat
  BY Zenon DEF HoldsName
<1> QED
  BY <1>1, <1>2 DEF GetAction, GoodHead, AndThen, Failed, Ok, Error

(* SET-VAR has a value behind its name.                                    *)
LEMMA GetActionValue ==
    ASSUME NEW buf, NEW s, NEW k, NEW v, NEW m, HoldsValue(buf, s, k, v, m), buf[1] # UnsetVar
    PROVE  GetAction(buf) = Ok(Action(buf, s, v), 3 + k + m)
<1>1. ~(Len(buf) < 3) /\ GoodHead(buf)
  BY DEF HoldsName, HoldsValue, GoodHead
<1>2. GetString(Drop(buf, 3)) = Ok(s, k) /\ k \in Nat /\ m \in Nat /\ Decode(Drop(buf, 3 + k)) = Ok(v, m)
  BY Zenon DEF HoldsName, HoldsValue
<1> DEFINE g == GetString(Drop(buf, 3))
           d == Decode(Drop(buf, 3 + k))
<1>3. ~Failed(g) /\ g.val = s /\ g.n = k
  BY <1>2 DEF Failed, Ok
<1>4. ~Failed(d) /\ d.val = v /\ d.n = m
  BY <1>2 DEF Failed, Ok
<1> QED
  BY <1>1, <1>3, <1>4, Zenon DEF GetAction, GoodHead, AndThen

(* Three bytes in front of the rest of a buffer.                           *)
Triple(a, b, c, s) ==
    /\ <<a, b, c>> \in Seq(Byte) /\ Len(<<a, b, c>>) = 3
    /\ Len(<<a, b, c>> \o s) >= 3
    /\ (<<a, b, c>> \o s)[1] = a /\ (<<a, b, c>> \o s)[2] = b /\ (<<a, b, c>> \o s)[3] = c

(* The head of an action.                                                  *)
LEMMA ThreeBytes ==
    ASSUME NEW a \in Byte, NEW b \in Byte, NEW c \in Byte, NEW s \in Seq(Byte)
    PROVE  Triple(a, b, c, s)
  BY DEF Triple

(* The length of what was put together.                                    *)
LEMMA Lengths ==
    \A a, b \in Seq(Byte) : Len(a \o b) = Len(a) + Len(b) /\ Len(a) \in Nat /\ Len(b) \in Nat
  OBVIOUS

(* An action is read back, whatever follows it.                            *)
LEMMA GetActionPut ==
    ASSUME NEW a \in ValidActions, NEW r \in Seq(Byte)
    PROVE  /\ Marshal(a) \in Seq(Byte) /\ Len(Marshal(a)) \in Nat \ {0}
           /\ GetAction(Marshal(a) \o r) = Ok(CanonicalEntry(AgentAck, a), Len(Marshal(a)))
<1> DEFINE t == a.type
           h == <<t, nbVars(t), a.scope>>
           s == a.name
           p == PutString(s)
           e == IF t = UnsetVar THEN <<>> ELSE Encode(a.val)
           buf == h \o (p \o (e \o r))
<1>1. /\ t \in {SetVar, UnsetVar} /\ a.scope \in Scopes /\ s \in Strings /\ a.val \in SupportedValues
      /\ t = UnsetVar => a.val = Nil
      /\ a = [type |-> t, scope |-> a.scope, name |-> s, val |-> a.val]
  BY DEF ValidActions
<1>2. CanonicalEntry(AgentAck, a) =
         [type |-> t, scope |-> a.scope, name |-> s, val |-> Canonical(a.val)]
  BY DEF CanonicalEntry, ValidActions, AgentAck, Notify
<1>3. Marshal(a) = (h \o p) \o e
  BY Zenon DEF Marshal
<1>4. t \in Byte /\ nbVars(t) \in Byte /\ a.scope \in Byte
  <2>1. /\ t \in Nat /\ t < 256 /\ nbVars(t) \in Nat /\ nbVars(t) < 256
        /\ a.scope \in Nat /\ a.scope < 256
    BY <1>1 DEF SetVar, UnsetVar, nbVars, Scopes
  <2> QED
    BY <2>1, ByteIs, Zenon
<1>5. p \in Seq(Byte) /\ Len(p) \in Nat \ {0}
  BY <1>1, StringBytes, Zenon
<1>6. e \in Seq(Byte)
  <2>1. <<>> \in Seq(Byte) /\ Encode(a.val) \in Seq(Byte)
    BY <1>1, DecodeEncode
  <2> QED
    BY <2>1, Zenon
<1>8. e \o r \in Seq(Byte)
  BY <1>6, Assoc, Zenon
<1>9. p \o (e \o r) \in Seq(Byte)
  BY <1>5, <1>8, Assoc, Zenon
<1>10. Triple(t, nbVars(t), a.scope, p \o (e \o r))
  BY <1>4, <1>9, ThreeBytes, Zenon
<1>7. /\ h \in Seq(Byte) /\ Len(h) = 3 /\ Len(buf) >= 3
      /\ buf[1] = t /\ buf[2] = nbVars(t) /\ buf[3] = a.scope
  BY <1>10, Zenon DEF Triple
<1>11. GoodHead(buf)
  BY <1>1, <1>7, Zenon DEF GoodHead
<1> HIDE DEF t, s, h
<1>h. h \in Seq(Byte) /\ Len(h) = 3
  BY <1>7, Zenon
<1>p. h \o p \in Seq(Byte)
  BY <1>5, <1>h, Assoc, Zenon
<1>12. GetString(p \o (e \o r)) = Ok(s, Len(p))
  BY <1>1, <1>8, GetStringPut, Zenon
<1>13. t # UnsetVar => Decode(e \o r) = Ok(Canonical(a.val), Len(e))
  BY <1>1, DecodeEncode, Zenon
<1>14. t = UnsetVar => e = <<>> /\ a.val = Nil
  BY <1>1, Zenon
<1> HIDE DEF p, e
<1>15. Drop(buf, 3) = p \o (e \o r)
  <2>1. Drop(h \o (p \o (e \o r)), Len(h)) = p \o (e \o r)
    BY <1>9, <1>h, Parts, Zenon
  <2> QED
    BY <1>h, <2>1, Zenon
<1>16. Len(h \o p) = 3 + Len(p) /\ Len(p) \in Nat /\ Len(e) \in Nat
  BY <1>5, <1>6, <1>h, Lengths, Zenon
<1>17. (h \o p) \o (e \o r) = buf
  BY <1>5, <1>8, <1>h, Assoc, Zenon
<1>18. Drop(buf, 3 + Len(p)) = e \o r
  <2>1. Drop((h \o p) \o (e \o r), Len(h \o p)) = e \o r
    BY <1>8, <1>p, Parts, Zenon
  <2> QED
    BY <1>16, <1>17, <2>1, Zenon
<1>19. ((h \o p) \o e) \o r = buf
  <2>1. ((h \o p) \o e) \o r = (h \o p) \o (e \o r)
    BY <1>6, <1>p, Assoc, Zenon
  <2> QED
    BY <1>17, <2>1, Zenon
<1>20. Len((h \o p) \o e) = 3 + Len(p) + Len(e) /\ (h \o p) \o e \in Seq(Byte)
  <2>1. Len((h \o p) \o e) = Len(h \o p) + Len(e)
    BY <1>6, <1>p, Lengths, Zenon
  <2>2. (h \o p) \o e \in Seq(Byte)
    BY <1>6, <1>p, Assoc, Zenon
  <2> QED
    BY <1>16, <2>1, <2>2, Zenon
<1>21. 3 + Len(p) + Len(e) \in Nat \ {0}
  BY <1>16
<1> HIDE DEF buf
<1>22. HoldsName(buf, s, Len(p))
  BY <1>11, <1>12, <1>15, <1>16, Zenon DEF HoldsName
<1>23. \A v : Action(buf, s, v) = [type |-> t, scope |-> a.scope, name |-> s, val |-> v]
  BY <1>7, Zenon DEF Action
<1>24. GetAction(buf) = Ok(CanonicalEntry(AgentAck, a), 3 + Len(p) + Len(e))
  <2>1. CASE t = UnsetVar
    <3>1. GetAction(buf) = Ok(Action(buf, s, Nil), 3 + Len(p))
      BY <1>7, <1>22, <2>1, GetActionName, Zenon
    <3>2. Canonical(Nil) = Nil
      BY DEF Canonical, Nil, Value
    <3>3. Len(<<>>) = 0
      OBVIOUS
    <3>4. 3 + Len(p) = 3 + Len(p) + Len(e)
      BY <1>14, <1>16, <2>1, <3>3
    <3> QED
      BY <1>2, <1>14, <1>23, <2>1, <3>1, <3>2, <3>4, ZenonT(60)
  <2>2. CASE t # UnsetVar
    <3>1. HoldsValue(buf, s, Len(p), Canonical(a.val), Len(e))
      BY <1>13, <1>16, <1>18, <1>22, <2>2, Zenon DEF HoldsValue
    <3>2. GetAction(buf) = Ok(Action(buf, s, Canonical(a.val)), 3 + Len(p) + Len(e))
      <4>1. buf[1] # UnsetVar
        BY <1>7, <2>2, Zenon
      <4> QED
        BY <3>1, <4>1, GetActionValue, Zenon
    <3> QED
      BY <1>2, <1>23, <3>2, Zenon
  <2> QED
    BY <2>1, <2>2, Zenon
<1> QED
  BY <1>3, <1>19, <1>20, <1>21, <1>24, Zenon

(* GetAction fails, or takes some of its bytes and returns an action.      *)
LEMMA GetActionTakes ==
    ASSUME NEW buf \in Seq(Byte)
    PROVE  Taken(buf, GetAction(buf), ValidActions)
<1>1. CASE ~GoodHead(buf)
  BY <1>1, GetActionBadHead, Zenon DEF Taken
<1>2. CASE GoodHead(buf) /\ GetString(Drop(buf, 3)) = Error
  BY <1>2, GetActionNoName, Zenon DEF Taken
<1>3. CASE GoodHead(buf) /\ GetString(Drop(buf, 3)) # Error
  <2>0. Len(buf) >= 3 /\ buf[1] \in {SetVar, UnsetVar} /\ buf[3] \in Scopes
    BY <1>3, Zenon DEF GoodHead
  <2>1. 3 \in 0 .. Len(buf) /\ Len(buf) \in Nat
    BY <2>0
  <2>2. Drop(buf, 3) \in Seq(Byte) /\ Len(Drop(buf, 3)) = Len(buf) - 3
    BY <2>1, DropBytes, Zenon
  <2>3. PICK s \in Strings, k \in 1 .. Len(Drop(buf, 3)) : GetString(Drop(buf, 3)) = Ok(s, k)
    BY <1>3, <2>2, GetStringTakes, ZenonT(60) DEF Taken
  <2>4. k \in Nat /\ 3 + k \in 0 .. Len(buf) /\ 3 + k \in 1 .. Len(buf)
    BY <2>1, <2>2
  <2>5. HoldsName(buf, s, k)
    BY <1>3, <2>3, <2>4, Zenon DEF HoldsName
  <2>6. ASSUME NEW v \in SupportedValues, buf[1] = UnsetVar => v = Nil
        PROVE  Action(buf, s, v) \in ValidActions
    BY <2>0, <2>6 DEF Action, ValidActions
  <2>7. CASE buf[1] = UnsetVar
    <3>1. GetAction(buf) = Ok(Action(buf, s, Nil), 3 + k)
      BY <2>5, <2>7, GetActionName, Zenon
    <3>2. Nil \in SupportedValues
      BY DecodedValues, Zenon DEF Nil
    <3> QED
      BY <2>4, <2>6, <3>1, <3>2, Zenon DEF Taken
  <2>8. CASE buf[1] # UnsetVar
    <3> DEFINE rest == Drop(buf, 3 + k)
    <3>1. rest \in Seq(Byte) /\ Len(rest) = Len(buf) - (3 + k)
      BY <2>4, DropBytes, Zenon
    <3>2. CASE Decode(rest) = Error
      <4>1. GetAction(buf) = Error
        BY <2>5, <2>8, <3>2, GetActionName, Zenon
      <4> QED
        BY <4>1, Zenon DEF Taken
    <3>3. CASE Decode(rest) # Error
      <4>1. PICK v \in SupportedValues, m \in 1 .. Len(rest) : Decode(rest) = Ok(v, m)
        BY <3>1, <3>3, DecodeTakes, Zenon DEF Taken
      <4>2. m \in Nat /\ 3 + k + m \in 1 .. Len(buf)
        <5> HIDE DEF rest
        <5> QED
          BY <2>1, <2>4, <3>1
      <4>3. HoldsValue(buf, s, k, v, m)
        BY <2>5, <4>1, <4>2, Zenon DEF HoldsValue
      <4>4. GetAction(buf) = Ok(Action(buf, s, v), 3 + k + m)
        BY <2>8, <4>3, GetActionValue, Zenon
      <4>5. Action(buf, s, v) \in ValidActions
        BY <2>6, <2>8, Zenon
      <4> QED
        BY <4>2, <4>4, <4>5, Zenon DEF Taken
    <3> QED
      BY <3>2, <3>3, Zenon
  <2> QED
    BY <2>7, <2>8, Zenon
<1> QED
  BY <1>1, <1>2, <1>3, Zenon

-----------------------------------------------------------------------------
(* Payloads: items, messages or actions, until the buffer is used up.      *)

ValidEntries(type) ==
    IF type = Notify THEN ValidMessages
    ELSE IF type = AgentAck THEN ValidActions ELSE ValidItems

(* Reading an entry fails, or takes some of its bytes and returns an       *)
(* entry.                                                                  *)
LEMMA GetEntryTakes ==
    ASSUME NEW type, NEW buf \in Seq(Byte)
    PROVE  Taken(buf, GetEntry(type, buf), ValidEntries(type))
<1>1. CASE type = Notify
  BY <1>1, GetMessageTakes, Zenon DEF GetEntry, ValidEntries
<1>2. CASE type # Notify /\ type = AgentAck
  BY <1>2, GetActionTakes, Zenon DEF GetEntry, ValidEntries
<1>3. CASE type # Notify /\ type # AgentAck
  BY <1>3, GetItemTakes, Zenon DEF GetEntry, ValidEntries
<1> QED
  BY <1>1, <1>2, <1>3, Zenon

(* An entry is found again, as it is after a journey.                      *)
Found(type, e, r) ==
    /\ PutEntry(type, e) \in Seq(Byte) /\ Len(PutEntry(type, e)) \in Nat \ {0}
    /\ GetEntry(type, PutEntry(type, e) \o r) = Ok(CanonicalEntry(type, e), Len(PutEntry(type, e)))

(* An entry is read back, whatever follows it.                             *)
LEMMA GetEntryPut ==
    ASSUME NEW type, NEW e \in ValidEntries(type), NEW r \in Seq(Byte)
    PROVE  Found(type, e, r)
<1>1. CASE type = Notify
  <2>1. e \in ValidMessages
    BY <1>1, Zenon DEF ValidEntries
  <2>2. /\ PutMessage(e) \in Seq(Byte) /\ Len(PutMessage(e)) \in Nat \ {0}
        /\ GetMessage(PutMessage(e) \o r) = Ok(CanonicalEntry(Notify, e), Len(PutMessage(e)))
    BY <2>1, GetMessagePut, Zenon
  <2> QED
    BY <1>1, <2>2, Zenon DEF Found, GetEntry, PutEntry
<1>2. CASE type # Notify /\ type = AgentAck
  <2>1. e \in ValidActions
    BY <1>2, Zenon DEF ValidEntries
  <2>2. /\ Marshal(e) \in Seq(Byte) /\ Len(Marshal(e)) \in Nat \ {0}
        /\ GetAction(Marshal(e) \o r) = Ok(CanonicalEntry(AgentAck, e), Len(Marshal(e)))
    BY <2>1, GetActionPut, Zenon
  <2> QED
    BY <1>2, <2>2, Zenon DEF Found, GetEntry, PutEntry
<1>3. CASE type # Notify /\ type # AgentAck
  <2>1. e \in ValidItems
    BY <1>3, Zenon DEF ValidEntries
  <2>2. /\ PutItem(e) \in Seq(Byte) /\ Len(PutItem(e)) \in Nat \ {0}
        /\ GetItem(PutItem(e) \o r) = Ok(CanonicalItem(e), Len(PutItem(e)))
    BY <2>1, GetItemPut, Zenon
  <2>3. CanonicalEntry(type, e) = CanonicalItem(e)
    BY <1>3, <2>1 DEF CanonicalEntry, CanonicalItem, Item, ValidItems
  <2> QED
    BY <1>3, <2>2, <2>3, Zenon DEF Found, GetEntry, PutEntry
<1> QED
  BY <1>1, <1>2, <1>3, Zenon

(* The loop satisfies its recursive definition.                            *)
NextEntries(type, g, buf) ==
    IF buf = <<>> THEN Ok(<<>>, 0)
    ELSE IF Failed(GetEntry(type, buf)) THEN Error
    ELSE Then(GetEntry(type, buf), g[Drop(buf, GetEntry(type, buf).n)])

(* The recursive definition of Entries, as an equation.                    *)
LEMMA EntriesIs ==
    ASSUME NEW type
    PROVE  /\ \A buf \in Seq(Byte) : Entries(type)[buf] \in Result(Seq(ValidEntries(type)))
           /\ \A buf \in Seq(Byte) : Entries(type)[buf] = NextEntries(type, Entries(type), buf)
<1> DEFINE D == Seq(Byte)
           S == Result(Seq(ValidEntries(type)))
           E(buf) == GetEntry(type, buf)
           base == {buf \in D : buf = <<>> \/ Failed(E(buf))}
           next == [buf \in D \ base |-> Drop(buf, E(buf).n)]
           mu == [buf \in D |-> Len(buf)]
           b == [buf \in base |-> IF buf = <<>> THEN Ok(<<>>, 0) ELSE Error]
           c == [buf \in D \ base |-> [s \in S |-> Then(E(buf), s)]]
<1>a. \A buf \in D : buf \in base <=> buf = <<>> \/ Failed(E(buf))
  BY Zenon
<1>b. \A buf \in base : b[buf] = IF buf = <<>> THEN Ok(<<>>, 0) ELSE Error
  BY Zenon
<1>c. \A buf \in D \ base : next[buf] = Drop(buf, E(buf).n)
  BY Zenon
<1>d. \A buf \in D \ base : \A s \in S : c[buf][s] = Then(E(buf), s)
  BY Zenon
<1>1. Drops(D, S, base, mu, next, b, c)
  <2>1. Ok(<<>>, 0) \in S /\ Error \in S
    <3>1. <<>> \in Seq(ValidEntries(type)) /\ 0 \in Nat
      OBVIOUS
    <3> QED
      BY <3>1, Zenon DEF Result, Ok
  <2>2. ASSUME NEW buf \in D \ base
        PROVE  /\ Drop(buf, E(buf).n) \in D /\ Len(Drop(buf, E(buf).n)) < Len(buf)
               /\ \A s \in S : Then(E(buf), s) \in S
    <3>1. buf \in Seq(Byte) /\ ~Failed(E(buf))
      BY Zenon
    <3>2. E(buf) # Error
      BY <3>1, FailedIs, Zenon
    <3>3. PICK v \in ValidEntries(type), n \in 1 .. Len(buf) : E(buf) = Ok(v, n)
      BY <3>1, <3>2, GetEntryTakes, Zenon DEF Taken
    <3>4. Len(buf) \in Nat
      BY <3>1
    <3>5. n \in Nat /\ n \in 0 .. Len(buf) /\ n > 0
      BY <3>4
    <3>6. E(buf).n = n
      BY <3>3, <3>5, FailedIs, ZenonT(60)
    <3>7. Drop(buf, n) \in Seq(Byte) /\ Len(Drop(buf, n)) = Len(buf) - n
      BY <3>1, <3>5, DropBytes, Zenon
    <3>8. Len(buf) - n < Len(buf)
      BY <3>4, <3>5
    <3>9. \A s \in S : Then(Ok(v, n), s) \in S
      BY <3>5, ThenResult, Zenon
    <3> HIDE DEF S, E, base
    <3> QED
      BY <3>3, <3>6, <3>7, <3>8, <3>9, Zenon
  <2>3. \A buf \in D : Len(buf) \in Nat
    OBVIOUS
  <2> HIDE DEF S, E
  <2>4. base \subseteq D /\ mu \in [D -> Nat] /\ b \in [base -> S]
    <3>1. base \subseteq D
      BY Zenon
    <3> HIDE DEF base
    <3>2. mu \in [D -> Nat]
      BY <2>3, Zenon
    <3>3. b \in [base -> S]
      BY <2>1, Zenon
    <3> QED
      BY <3>1, <3>2, <3>3, Zenon
  <2> HIDE DEF base
  <2>5. next \in [D \ base -> D] /\ \A buf \in D \ base : mu[next[buf]] < mu[buf]
    BY <2>2, Zenon
  <2>6. c \in [D \ base -> [S -> S]]
    BY <2>2, Zenon
  <2> HIDE DEF D, next, mu, b, c
  <2> QED
    BY <2>4, <2>5, <2>6, Zenon DEF Drops
<1> HIDE DEF D, S, base, next, mu, b, c
<1>2. PICK f : Satisfies(f, D, S, base, next, b, c)
  BY <1>1, Recursion, Zenon
<1>3. ASSUME NEW buf \in D PROVE f[buf] = NextEntries(type, f, buf)
  <2>1. f[buf] = IF buf \in base THEN b[buf] ELSE c[buf][f[next[buf]]]
    BY <1>2, Zenon DEF Satisfies
  <2>2. CASE buf \in base
    BY <1>a, <1>b, <2>1, <2>2, ZenonT(60) DEF NextEntries
  <2>3. CASE buf \notin base
    <3>1. next[buf] \in D /\ f[next[buf]] \in S
      BY <1>1, <1>2, <2>3, Zenon DEF Satisfies, Drops
    <3>2. next[buf] = Drop(buf, E(buf).n) /\ c[buf][f[next[buf]]] = Then(E(buf), f[next[buf]])
      BY <1>c, <1>d, <2>3, <3>1, ZenonT(60)
    <3>3. f[buf] = Then(E(buf), f[Drop(buf, E(buf).n)])
      BY <2>1, <2>3, <3>2, Zenon
    <3>4. buf # <<>> /\ ~Failed(E(buf))
      BY <1>a, <2>3, Zenon
    <3> QED
      BY <3>3, <3>4, Zenon DEF NextEntries
  <2> QED
    BY <2>2, <2>3, Zenon
<1>4. f = [buf \in D |-> NextEntries(type, f, buf)]
  <2>1. f = [buf \in D |-> f[buf]]
    BY <1>2, Zenon DEF Satisfies
  <2> QED
    BY <1>3, <2>1, Zenon
<1> DEFINE F == Entries(type)
<1>5. F = [buf \in D |-> NextEntries(type, F, buf)]
  BY <1>4, Zenon DEF Entries, NextEntries, AndThen, D
<1>6. \A buf \in D : F[buf] = NextEntries(type, F, buf)
  <2> HIDE DEF F
  <2> QED
    BY <1>5, Zenon
<1>7. Follows(F, D, S, base, next, b, c)
  <2> HIDE DEF F
  <2>1. ASSUME NEW buf \in D, buf \in base PROVE F[buf] = b[buf]
    BY <1>6, <1>a, <1>b, <2>1, ZenonT(60) DEF NextEntries
  <2>2. ASSUME NEW buf \in D, buf \notin base, F[next[buf]] \in S
        PROVE  F[buf] = c[buf][F[next[buf]]]
    <3>1. buf # <<>> /\ ~Failed(E(buf))
      BY <1>a, <2>2, Zenon
    <3>2. F[buf] = Then(E(buf), F[Drop(buf, E(buf).n)])
      BY <1>6, <3>1, Zenon DEF NextEntries
    <3>3. next[buf] = Drop(buf, E(buf).n) /\ c[buf][F[next[buf]]] = Then(E(buf), F[next[buf]])
      BY <1>c, <1>d, <2>2, Zenon
    <3> QED
      BY <3>2, <3>3, Zenon
  <2> QED
    BY <2>1, <2>2, Zenon DEF Follows
<1>8. \A buf \in D : F[buf] \in S
  <2> HIDE DEF F
  <2> QED
    BY <1>1, <1>7, Typed, Zenon
<1> QED
  BY <1>6, <1>8, Zenon DEF D, S

PutAll(type) == [e \in ValidEntries(type) |-> PutEntry(type, e)]
SeenAll(type) == [e \in ValidEntries(type) |-> CanonicalEntry(type, e)]

(* What Payload writes, entry by entry.                                    *)
LEMMA PayloadIs ==
    ASSUME NEW type
    PROVE  /\ PutAll(type) \in [ValidEntries(type) -> Seq(Byte)]
           /\ SeenAll(type) \in [ValidEntries(type) -> {CanonicalEntry(type, e) : e \in ValidEntries(type)}]
           /\ \A es \in Seq(ValidEntries(type)) :
                 /\ Payload(type, es) = Wire(PutAll(type), es)
                 /\ CanonicalEntries(type, es) = Image(SeenAll(type), es)
<1> DEFINE V == ValidEntries(type)
<1>1. PutAll(type) \in [V -> Seq(Byte)]
  <2>1. <<>> \in Seq(Byte)
    OBVIOUS
  <2>2. \A e \in V : Found(type, e, <<>>)
    BY <2>1, GetEntryPut, Zenon
  <2>3. \A e \in V : PutEntry(type, e) \in Seq(Byte)
    BY <2>2, Zenon DEF Found
  <2> QED
    BY <2>3, Zenon DEF PutAll
<1>2. SeenAll(type) \in [V -> {CanonicalEntry(type, e) : e \in V}]
  BY Zenon DEF SeenAll
<1>3. ASSUME NEW es \in Seq(V)
      PROVE  /\ Payload(type, es) = Wire(PutAll(type), es)
             /\ CanonicalEntries(type, es) = Image(SeenAll(type), es)
  <2> HIDE DEF V
  <2>1. \A i \in DOMAIN es : es[i] \in V
    OBVIOUS
  <2>2. /\ \A i \in DOMAIN es : PutAll(type)[es[i]] = PutEntry(type, es[i])
        /\ \A i \in DOMAIN es : SeenAll(type)[es[i]] = CanonicalEntry(type, es[i])
    BY <2>1, Zenon DEF PutAll, SeenAll, V
  <2> QED
    BY <2>2, Zenon DEF Payload, Wire, Image, CanonicalEntries
<1> QED
  BY <1>1, <1>2, <1>3, Zenon

(* The entries of a payload are read back.                                 *)
LEMMA EntriesPut ==
    ASSUME NEW type
    PROVE  \A es \in Seq(ValidEntries(type)) :
              /\ Wire(PutAll(type), es) \in Seq(Byte)
              /\ Entries(type)[Wire(PutAll(type), es)] =
                    Ok(Image(SeenAll(type), es), Len(Wire(PutAll(type), es)))
<1> DEFINE V == ValidEntries(type)
           C == {CanonicalEntry(type, e) : e \in V}
           put == PutAll(type)
           see == SeenAll(type)
           Good(s) == /\ Wire(put, s) \in Seq(Byte)
                      /\ Entries(type)[Wire(put, s)] = Ok(Image(see, s), Len(Wire(put, s)))
           P == {s \in Seq(V) : Good(s)}
<1>0. put \in [V -> Seq(Byte)] /\ see \in [V -> C]
  BY PayloadIs, Zenon
<1>1. ASSUME NEW s \in Seq(V), \A t \in Seq(V) : Len(t) < Len(s) => t \in P
      PROVE  Good(s)
  <2>1. ASSUME s = <<>> PROVE Good(s)
    <3>1. Len(<<>>) = 0 /\ <<>> \in Seq(Byte)
      OBVIOUS
    <3>2. Image(see, <<>>) = <<>> /\ Image(put, <<>>) = <<>>
      <4> HIDE DEF see, put
      <4> QED
        BY DEF Image
    <3>3. Wire(put, <<>>) = <<>>
      BY <3>2, JoinedEmpty, Zenon DEF Wire
    <3>4. Entries(type)[<<>>] = Ok(<<>>, 0)
      BY <3>1, EntriesIs, Zenon DEF NextEntries
    <3> QED
      BY <2>1, <3>1, <3>2, <3>3, <3>4, ZenonT(60)
  <2>2. ASSUME s # <<>> PROVE Good(s)
    <3> DEFINE e == s[1]
               t == Tail(s)
               w == Wire(put, t)
               p == PutEntry(type, e)
               c == CanonicalEntry(type, e)
               buf == p \o w
    <3>1. /\ e \in V /\ t \in Seq(V) /\ s = <<e>> \o t
          /\ Len(s) \in Nat \ {0} /\ Len(t) \in Nat /\ Len(s) = 1 + Len(t)
      <4> HIDE DEF V
      <4> QED
        BY <2>2, HeadAndRest, Zenon
    <3> HIDE DEF e, t
    <3>2. see[e] = c /\ put[e] = p
      BY <3>1, Zenon DEF SeenAll, PutAll
    <3>3. t \in P
      <4>1. Len(t) < Len(s)
        BY <3>1
      <4> QED
        BY <1>1, <3>1, <4>1, Zenon
    <3>4. w \in Seq(Byte) /\ Entries(type)[w] = Ok(Image(see, t), Len(w))
      BY <3>3, Zenon
    <3>5. Found(type, e, w)
      BY <3>1, <3>4, GetEntryPut, Zenon
    <3>6. p \in Seq(Byte) /\ Len(p) \in Nat \ {0} /\ GetEntry(type, buf) = Ok(c, Len(p))
      BY <3>5, Zenon DEF Found
    <3> HIDE DEF V, C, put, see, p, c, w, P
    <3>7. Grows(see, C, e, t)
      BY <1>0, <3>1, ImageCons, Zenon
    <3>8. Image(see, s) = <<c>> \o Image(see, t)
      BY <3>1, <3>2, <3>7, Zenon DEF Grows
    <3>9. WireGrows(put, e, t)
      BY <1>0, <3>1, WireCons, Zenon
    <3>10. Wire(put, s) = buf
      BY <3>1, <3>2, <3>9, Zenon DEF WireGrows, w
    <3>11. Len(buf) = Len(p) + Len(w) /\ Len(p) \in Nat /\ Len(w) \in Nat
      BY <3>4, <3>6, Lengths, Zenon
    <3>12. buf \in Seq(Byte)
      BY <3>4, <3>6, Assoc, Zenon
    <3>13. Drop(buf, Len(p)) = w
      BY <3>4, <3>6, Parts, Zenon
    <3>14. buf # <<>>
      <4>1. Len(buf) # 0
        BY <3>6, <3>11
      <4>2. Len(<<>>) = 0
        OBVIOUS
      <4> QED
        BY <4>1, <4>2, Zenon
    <3>15. ~Failed(GetEntry(type, buf)) /\ GetEntry(type, buf).n = Len(p)
      <4>0. Len(p) \in Nat
        BY <3>11, Zenon
      <4>1. ~Failed(Ok(c, Len(p))) /\ Ok(c, Len(p)).n = Len(p)
        BY <4>0, FailedIs, Zenon
      <4> QED
        BY <3>6, <4>1, Zenon
    <3>16. Entries(type)[buf] = NextEntries(type, Entries(type), buf)
      BY <3>12, EntriesIs, Zenon
    <3>17. Entries(type)[buf] = Then(GetEntry(type, buf), Entries(type)[Drop(buf, GetEntry(type, buf).n)])
      BY <3>14, <3>15, <3>16, Zenon DEF NextEntries
    <3> HIDE DEF buf
    <3>18. Entries(type)[buf] = Then(Ok(c, Len(p)), Ok(Image(see, t), Len(w)))
      BY <3>4, <3>6, <3>13, <3>15, <3>17, ZenonT(60)
    <3>19. Entries(type)[buf] = Ok(<<c>> \o Image(see, t), Len(p) + Len(w))
      <4>0. Len(w) \in Nat
        BY <3>11, Zenon
      <4>1. \A n, m : Then(Ok(c, n), Ok(m, Len(w))) = Ok(<<c>> \o m, n + Len(w))
        BY <4>0, ThenIs, ZenonT(60)
      <4> QED
        BY <3>18, <4>1, Zenon
    <3> QED
      BY <3>8, <3>10, <3>11, <3>12, <3>19, ZenonT(60)
  <2> HIDE DEF Good
  <2> QED
    BY <2>1, <2>2, Zenon
<1>2. Seq(V) \subseteq P
  <2>1. \A s \in Seq(V) : (\A t \in Seq(V) : Len(t) < Len(s) => t \in P) => s \in P
    <3> HIDE DEF Good
    <3> QED
      BY <1>1, Zenon
  <2> HIDE DEF P
  <2> QED
    BY <2>1, SeqInduction, Zenon
<1> QED
  BY <1>2, Zenon

(* The payload of a frame is read as it was.                               *)
THEOREM PayloadBack ==
    ASSUME NEW type, NEW es \in Seq(ValidEntries(type))
    PROVE  /\ Payload(type, es) \in Seq(Byte) /\ Len(Payload(type, es)) \in Nat
           /\ Entries(type)[Payload(type, es)] =
                 Ok(CanonicalEntries(type, es), Len(Payload(type, es)))
<1>1. /\ Payload(type, es) = Wire(PutAll(type), es)
      /\ CanonicalEntries(type, es) = Image(SeenAll(type), es)
  BY PayloadIs, Zenon
<1>2. /\ Payload(type, es) \in Seq(Byte)
      /\ Entries(type)[Payload(type, es)] =
            Ok(CanonicalEntries(type, es), Len(Payload(type, es)))
  BY <1>1, EntriesPut, Zenon
<1>3. Len(Payload(type, es)) \in Nat
  BY <1>2
<1> QED
  BY <1>2, <1>3, Zenon

(* Whatever was read can be written, and read again.                       *)
THEOREM ReadAgain ==
    ASSUME NEW type, NEW buf \in Seq(Byte), ~Failed(Entries(type)[buf])
    PROVE  Entries(type)[Payload(type, Entries(type)[buf].val)].val =
              CanonicalEntries(type, Entries(type)[buf].val)
<1> DEFINE p == Entries(type)[buf]
<1>1. p \in Result(Seq(ValidEntries(type)))
  BY EntriesIs, Zenon
<1>2. p # Error
  BY FailedIs, Zenon
<1> HIDE DEF p
<1>3. p \in [val : Seq(ValidEntries(type)), n : Nat]
  BY <1>1, <1>2, Zenon DEF Result
<1>4. p.val \in Seq(ValidEntries(type))
  BY <1>3
<1>5. /\ Entries(type)[Payload(type, p.val)] =
            Ok(CanonicalEntries(type, p.val), Len(Payload(type, p.val)))
      /\ Len(Payload(type, p.val)) \in Nat
  BY <1>4, PayloadBack, Zenon
<1>6. Ok(CanonicalEntries(type, p.val), Len(Payload(type, p.val))).val = CanonicalEntries(type, p.val)
  BY <1>5, FailedIs, Zenon
<1> QED
  BY <1>5, <1>6, Zenon DEF p

=============================================================================
