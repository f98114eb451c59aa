---------------------------- MODULE CommonLemmas ----------------------------
(***************************************************************************)
(* Facts that several of the proofs rest on: about quotients and           *)
(* remainders, and about what FlattenSeq does, for sequences of any        *)
(* length: the elements of its argument's sequences, one sequence after    *)
(* the other.  It is defined by a recursive function, so this takes an     *)
(* induction.  The library states induction for an operator P(_); here it  *)
(* is stated for a set, from the well-foundedness of < on the natural      *)
(* numbers.                                                                *)
(***************************************************************************)
EXTENDS Integers, Sequences, SequencesExt, SequenceTheorems, WellFoundedInduction, TLAPS

-----------------------------------------------------------------------------
(* Arithmetic.                                                             *)

\* A number is made up of its quotient and its remainder.
LEMMA DivisionParts ==
  ASSUME NEW x \in Nat, NEW d \in Nat \ {0}, NEW q \in Int, q = x \div d, NEW r \in Int, r = x % d
  PROVE  x = d * q + r /\ r \in 0..d - 1 /\ q \in Nat
OBVIOUS

\* In only one way.
LEMMA RemainderUnique ==
  ASSUME NEW d \in Nat \ {0}, NEW p \in Int, NEW q \in Int, NEW r \in 0..d - 1, NEW s \in 0..d - 1,
         d * p + r = d * q + s
  PROVE  p = q /\ r = s
<1>1. CASE p = q
  BY <1>1
<1>2. CASE p >= q + 1
  <2>1. d * p >= d * (q + 1)
    BY <1>2
  <2>2. d * (q + 1) = d * q + d
    OBVIOUS
  <2>3. QED
    BY <2>1, <2>2
<1>3. CASE q >= p + 1
  <2>1. d * q >= d * (p + 1)
    BY <1>3
  <2>2. d * (p + 1) = d * p + d
    OBVIOUS
  <2>3. QED
    BY <2>1, <2>2
<1>4. QED
  BY <1>1, <1>2, <1>3

\* Multiples grow with their factors.
LEMMA ProductGrows ==
  ASSUME NEW a \in Nat, NEW b \in Nat, a <= b, NEW c \in Nat
  PROVE  a * c \in Nat /\ b * c \in Nat /\ a * c <= b * c
OBVIOUS

\* Quotient and remainder of a natural number.
LEMMA Divided ==
  ASSUME NEW x \in Nat, NEW d \in Nat \ {0}
  PROVE  /\ x \div d \in Nat /\ x % d \in 0..(d - 1)
         /\ x = d * (x \div d) + (x % d)
<1> DEFINE q == x \div d
           r == x % d
<1>1. q \in Int /\ r \in Int
  OBVIOUS
<1>2. x = d * q + r /\ r \in 0..(d - 1)
  BY <1>1, DivisionParts
<1> HIDE DEF q, r
<1>3. q >= 0
  <2>1. SUFFICES ASSUME q <= -1 PROVE FALSE
    BY <1>1
  <2>2. d * q <= d * (-1)
    BY <1>1, <2>1
  <2>3. QED
    BY <1>1, <1>2, <2>2
<1>4. QED
  BY <1>1, <1>2, <1>3 DEF q, r

\* They are the only ones.
LEMMA Quotient ==
  ASSUME NEW d \in Nat \ {0}, NEW q \in Nat, NEW r \in 0..(d - 1), NEW x, x = d * q + r
  PROVE  x \in Nat /\ x \div d = q /\ x % d = r
<1>1. d * q \in Nat
  OBVIOUS
<1>2. x \in Nat
  BY <1>1
<1> DEFINE p == x \div d
           s == x % d
<1>3. p \in Nat /\ s \in 0..(d - 1) /\ x = d * p + s
  BY <1>2, Divided
<1> HIDE DEF p, s
<1>4. d * q + r = d * p + s
  BY <1>3
<1>5. q = p /\ r = s
  <2>1. p \in Int /\ q \in Int
    BY <1>3
  <2>2. QED
    BY <1>3, <1>4, <2>1, RemainderUnique
<1>6. QED
  BY <1>2, <1>5 DEF p, s

\* Dividing what is a step further on.
LEMMA QuotientNext ==
  ASSUME NEW d \in Nat \ {0}, NEW x \in Nat
  PROVE  (x + d) \div d = (x \div d) + 1 /\ (x + d) % d = x % d
<1> DEFINE q == x \div d
           r == x % d
<1>1. q \in Nat /\ r \in 0..(d - 1) /\ x = d * q + r
  BY Divided
<1> HIDE DEF q, r
<1> DEFINE p == q + 1
           y == x + d
<1>2. p \in Nat /\ y = d * p + r
  BY <1>1
<1> HIDE DEF p, y
<1>3. y \div d = p /\ y % d = r
  BY <1>1, <1>2, Quotient
<1>4. QED
  BY <1>3 DEF p, q, r, y

\* A quotient grows with what is divided.
LEMMA QuotientGrows ==
  ASSUME NEW d \in Nat \ {0}, NEW x \in Nat, NEW y \in Nat, x <= y
  PROVE  x \div d <= y \div d
<1> DEFINE q == x \div d
           p == y \div d
           r == x % d
           s == y % d
<1>1. q \in Nat /\ r \in 0..(d - 1) /\ x = d * q + r
  BY Divided
<1>2. p \in Nat /\ s \in 0..(d - 1) /\ y = d * p + s
  BY Divided
<1> HIDE DEF q, r, p, s
<1>3. SUFFICES ASSUME q >= p + 1 PROVE FALSE
  BY <1>1, <1>2 DEF p, q
<1>4. d * q >= d * (p + 1)
  BY <1>1, <1>2, <1>3
<1>5. d * (p + 1) = d * p + d
  BY <1>2
<1>6. QED
  BY <1>1, <1>2, <1>4, <1>5

\* A quotient is below what the dividend is a multiple below.
LEMMA QuotientBelow ==
  ASSUME NEW d \in Nat \ {0}, NEW a \in Nat, NEW n \in Nat, a < d * n
  PROVE  /\ a \div d \in 0..(n - 1) /\ a % d \in 0..(d - 1)
         /\ a = d * (a \div d) + (a % d)
<1> DEFINE q == a \div d
           r == a % d
           x == d * q
           y == d * n
<1>1. q \in Nat /\ r \in 0..(d - 1) /\ a = d * q + r
  BY Divided
<1> HIDE DEF q, r
<1>2. x \in Nat /\ y \in Nat
  BY <1>1
<1>3. q < n
  <2>1. SUFFICES ASSUME n <= q PROVE FALSE
    BY <1>1
  <2>2. n * d <= q * d
    BY <1>1, <2>1, ProductGrows
  <2>3. n * d = y /\ q * d = x
    BY <1>1
  <2>4. a = x + r /\ a < y
    BY <1>1
  <2> HIDE DEF x, y
  <2>5. QED
    BY <1>1, <1>2, <2>2, <2>3, <2>4
<1>4. QED
  BY <1>1, <1>3 DEF q, r

\* The remainder by a multiple of d has the same remainder by d.
LEMMA RemainderOfRemainder ==
  ASSUME NEW d \in Nat \ {0}, NEW k \in Nat \ {0}, NEW x \in Nat
  PROVE  (x % (d * k)) % d = x % d
<1> DEFINE e == d * k
           q == x \div e
           r == x % e
           p == r \div d
           s == r % d
<1>1. e \in Nat \ {0}
  OBVIOUS
<1> HIDE DEF e
<1>2. q \in Nat /\ r \in 0..(e - 1) /\ x = e * q + r
  BY <1>1, Divided
<1>3. r \in Nat
  BY <1>1, <1>2
<1> HIDE DEF q, r
<1>4. p \in Nat /\ s \in 0..(d - 1) /\ r = d * p + s
  BY <1>3, Divided
<1> HIDE DEF p, s
<1>5. x = d * (k * q + p) + s
  BY <1>2, <1>4 DEF e
<1>6. k * q + p \in Nat
  BY <1>2, <1>4
<1>7. x % d = s
  BY <1>4, <1>5, <1>6, Quotient
<1>8. QED
  BY <1>7 DEF s, r, e

\* Counting one further modulo d.
LEMMA NextRemainder ==
  ASSUME NEW x \in Nat, NEW d \in Nat \ {0}
  PROVE  /\ x % d \in 0..d - 1 /\ (x + 1) % d \in 0..d - 1
         /\ (x + 1) % d = IF (x % d) + 1 = d THEN 0 ELSE (x % d) + 1
<1> DEFINE q == x \div d
           r == x % d
<1>1. q \in Nat /\ r \in 0..(d - 1) /\ x = d * q + r
  BY Divided
<1> HIDE DEF q, r
<1>2. CASE r + 1 = d
  <2>1. x + 1 = d * (q + 1) + 0 /\ q + 1 \in Nat /\ 0 \in 0..(d - 1)
    BY <1>1, <1>2
  <2>2. (x + 1) % d = 0
    BY <2>1, Quotient
  <2>3. QED
    BY <1>1, <1>2, <2>2 DEF r
<1>3. CASE r + 1 # d
  <2> DEFINE s == r + 1
             y == x + 1
  <2>1. y = d * q + s /\ s \in 0..(d - 1)
    BY <1>1, <1>3
  <2> HIDE DEF s, y
  <2>2. y % d = s
    BY <1>1, <2>1, Quotient
  <2>3. QED
    BY <1>1, <1>3, <2>1, <2>2 DEF r, s, y
<1>4. QED
  BY <1>2, <1>3

-----------------------------------------------------------------------------
(* Flattening.                                                             *)

\* A set that holds 0, and with each number the next, holds all natural numbers.
LEMMA InductionOnNat ==
  ASSUME NEW S, 0 \in S, \A n \in Nat : n \in S => n + 1 \in S
  PROVE  Nat \subseteq S
<1> DEFINE Out == Nat \ S
           R == OpToRel(<, Nat)
<1>1. SUFFICES ASSUME Out # {} PROVE FALSE
  OBVIOUS
<1>2. IsWellFoundedOn(R, Nat)
  BY NatLessThanWellFounded
<1>3. PICK x \in Out : \A y \in Out : ~(<<y, x>> \in R)
  <2> HIDE DEF R
  <2>1. Out \subseteq Nat
    OBVIOUS
  <2> HIDE DEF Out
  <2>2. QED
    BY <1>1, <1>2, <2>1, WFMin
<1>4. x \in Nat /\ x # 0
  OBVIOUS
<1>5. x - 1 \in Out
  BY <1>4
<1>6. <<x - 1, x>> \in R
  BY <1>4, <1>5 DEF OpToRel
<1>7. QED
  BY <1>3, <1>5, <1>6

-----------------------------------------------------------------------------
(* The recursive function behind FlattenSeq.                               *)

\* f flattens the first m sequences of s, for each m up to n.
Flattens(s, n, f) == \A m \in 1..n : f[m] = IF m = 1 THEN s[m] ELSE f[m - 1] \o s[m]

\* There is such a function.
LEMMA FlattensExists ==
  ASSUME NEW s, NEW n \in Nat
  PROVE  \E f : Flattens(s, n, f)
<1> DEFINE S == {k \in Nat : \E f : Flattens(s, k, f)}
<1>1. 0 \in S
  <2>1. Flattens(s, 0, [m \in 1..0 |-> 0])
    BY DEF Flattens
  <2>2. QED
    BY <2>1
<1>2. ASSUME NEW k \in Nat, k \in S
      PROVE  k + 1 \in S
  <2>1. PICK f : Flattens(s, k, f)
    BY <1>2
  <2> DEFINE last == IF k + 1 = 1 THEN s[k + 1] ELSE f[k] \o s[k + 1]
             g == [m \in 1..(k + 1) |-> IF m = k + 1 THEN last ELSE f[m]]
  <2> HIDE DEF last
  <2>2. (\A m \in 1..k : g[m] = f[m]) /\ g[k + 1] = last
    OBVIOUS
  <2> HIDE DEF g
  <2>3. ASSUME NEW m \in 1..(k + 1)
        PROVE  g[m] = IF m = 1 THEN s[m] ELSE g[m - 1] \o s[m]
    <3>1. CASE m = k + 1
      <4>1. m - 1 = k /\ (k # 0 => g[k] = f[k])
        BY <2>2, <3>1
      <4>2. QED
        BY <2>2, <3>1, <4>1 DEF last
    <3>2. CASE m # k + 1
      <4>1. m \in 1..k /\ (m # 1 => m - 1 \in 1..k)
        BY <3>2
      <4>2. f[m] = IF m = 1 THEN s[m] ELSE f[m - 1] \o s[m]
        BY <4>1, <2>1 DEF Flattens
      <4>3. g[m] = f[m] /\ (m # 1 => g[m - 1] = f[m - 1])
        BY <4>1, <2>2
      <4>4. QED
        BY <4>2, <4>3
    <3>3. QED
      BY <3>1, <3>2
  <2>4. Flattens(s, k + 1, g)
    BY <2>3 DEF Flattens
  <2>5. QED
    BY <2>4
<1> HIDE DEF S
<1>3. Nat \subseteq S
  BY <1>1, <1>2, InductionOnNat
<1>4. QED
  BY <1>3 DEF S

\* And no other one.
LEMMA FlattensUnique ==
  ASSUME NEW s, NEW n \in Nat, NEW f, NEW g, Flattens(s, n, f), Flattens(s, n, g)
  PROVE  \A m \in 1..n : f[m] = g[m]
<1> DEFINE S == {k \in Nat : k \in 1..n => f[k] = g[k]}
<1>1. 0 \in S
  OBVIOUS
<1>2. ASSUME NEW k \in Nat, k \in S
      PROVE  k + 1 \in S
  <2> SUFFICES ASSUME k + 1 \in 1..n PROVE f[k + 1] = g[k + 1]
    OBVIOUS
  <2>1. k # 0 => f[k] = g[k]
    BY <1>2
  <2>2. (k + 1) - 1 = k /\ (k + 1 = 1 <=> k = 0)
    OBVIOUS
  <2>3. f[k + 1] = IF k + 1 = 1 THEN s[k + 1] ELSE f[(k + 1) - 1] \o s[k + 1]
    BY DEF Flattens
  <2>4. g[k + 1] = IF k + 1 = 1 THEN s[k + 1] ELSE g[(k + 1) - 1] \o s[k + 1]
    BY DEF Flattens
  <2>5. QED
    BY <2>1, <2>2, <2>3, <2>4
<1> HIDE DEF S
<1>3. Nat \subseteq S
  BY <1>1, <1>2, InductionOnNat
<1>4. \A m \in Nat : m \in 1..n => f[m] = g[m]
  BY <1>3 DEF S
<1>5. QED
  BY <1>4

\* Its value at the number of sequences is the flattened sequence.
LEMMA FlattenIs ==
  ASSUME NEW s, NEW n \in Nat \ {0}, Len(s) = n, NEW f, Flattens(s, n, f)
  PROVE  FlattenSeq(s) = f[n]
<1> DEFINE Eq(h) == h = [m \in 1..n |-> IF m = 1 THEN s[m] ELSE h[m - 1] \o s[m]]
           h0 == [m \in 1..n |-> f[m]]
           c == CHOOSE h : Eq(h)
<1>1. Eq(h0)
  <2> SUFFICES ASSUME NEW m \in 1..n
               PROVE  h0[m] = IF m = 1 THEN s[m] ELSE h0[m - 1] \o s[m]
    BY Zenon
  <2>1. m # 1 => m - 1 \in 1..n
    OBVIOUS
  <2>2. QED
    BY <2>1 DEF Flattens
<1>2. Eq(c)
  BY <1>1, Zenon
<1>3. FlattenSeq(s) = c[n]
  BY DEF FlattenSeq
<1> HIDE DEF c, h0
<1>4. Flattens(s, n, c)
  BY <1>2, Zenon DEF Flattens
<1>5. QED
  BY <1>3, <1>4, FlattensUnique

\* Its values are sequences of the same elements.
LEMMA FlattensTypes ==
  ASSUME NEW T, NEW n \in Nat, NEW s, \A m \in 1..n : s[m] \in Seq(T), NEW f, Flattens(s, n, f)
  PROVE  \A m \in 1..n : f[m] \in Seq(T)
<1> DEFINE S == {k \in Nat : k \in 1..n => f[k] \in Seq(T)}
<1>1. 0 \in S
  OBVIOUS
<1>2. ASSUME NEW k \in Nat, k \in S
      PROVE  k + 1 \in S
  <2> SUFFICES ASSUME k + 1 \in 1..n PROVE f[k + 1] \in Seq(T)
    OBVIOUS
  <2>1. k # 0 => f[k] \in Seq(T)
    BY <1>2
  <2>2. s[k + 1] \in Seq(T) /\ (k + 1) - 1 = k /\ (k + 1 = 1 <=> k = 0)
    OBVIOUS
  <2>3. f[k + 1] = IF k + 1 = 1 THEN s[k + 1] ELSE f[(k + 1) - 1] \o s[k + 1]
    BY DEF Flattens
  <2>4. k # 0 => f[k] \o s[k + 1] \in Seq(T)
    BY <2>1, <2>2
  <2>5. QED
    BY <2>2, <2>3, <2>4
<1> HIDE DEF S
<1>3. Nat \subseteq S
  BY <1>1, <1>2, InductionOnNat
<1>4. \A m \in Nat : m \in 1..n => f[m] \in Seq(T)
  BY <1>3 DEF S
<1>5. QED
  BY <1>4

\* One sequence is itself.
LEMMA FlattenOne ==
  ASSUME NEW s, Len(s) = 1
  PROVE  FlattenSeq(s) = s[1]
<1> DEFINE f == [m \in 1..1 |-> s[1]]
<1>1. Flattens(s, 1, f) /\ f[1] = s[1]
  BY DEF Flattens
<1>2. 1 \in Nat \ {0}
  OBVIOUS
<1> HIDE DEF f
<1>3. FlattenSeq(s) = f[1]
  BY <1>1, <1>2, FlattenIs
<1>4. QED
  BY <1>1, <1>3

\* A flattened sequence grows by what is appended.
LEMMA FlattenAppend ==
  ASSUME NEW T, NEW s \in Seq(Seq(T)), NEW x \in Seq(T)
  PROVE  FlattenSeq(Append(s, x)) = FlattenSeq(s) \o x
<1> DEFINE n == Len(s)
           a == Append(s, x)
<1>1. n \in Nat /\ Len(a) = n + 1 /\ a[n + 1] = x /\ \A m \in 1..n : a[m] = s[m]
  OBVIOUS
<1>2. CASE n = 0
  <2>1. s = <<>>
    BY <1>2
  <2>2. FlattenSeq(s) = <<>>
    BY <2>1 DEF FlattenSeq
  <2>3. Len(a) = 1 /\ a[1] = x
    BY <1>1, <1>2
  <2>4. FlattenSeq(a) = x
    BY <2>3, FlattenOne
  <2>5. QED
    BY <2>2, <2>4
<1>3. CASE n # 0
  <2>1. PICK f : Flattens(s, n, f)
    BY <1>1, FlattensExists
  <2> DEFINE whole == f[n] \o x
             g == [m \in 1..(n + 1) |-> IF m = n + 1 THEN whole ELSE f[m]]
  <2> HIDE DEF whole, a, n
  <2>2. g[n + 1] = whole /\ \A m \in 1..n : g[m] = f[m]
    BY <1>1
  <2> HIDE DEF g
  <2>3. ASSUME NEW m \in 1..(n + 1)
        PROVE  g[m] = IF m = 1 THEN a[m] ELSE g[m - 1] \o a[m]
    <3>1. CASE m = n + 1
      <4>1. m - 1 = n /\ m # 1 /\ g[n] = f[n]
        BY <1>1, <1>3, <2>2, <3>1
      <4>2. QED
        BY <1>1, <2>2, <3>1, <4>1 DEF whole
    <3>2. CASE m # n + 1
      <4>1. m \in 1..n /\ (m # 1 => m - 1 \in 1..n)
        BY <1>1, <3>2
      <4>2. f[m] = IF m = 1 THEN s[m] ELSE f[m - 1] \o s[m]
        BY <4>1, <2>1 DEF Flattens
      <4>3. QED
        BY <1>1, <2>2, <4>1, <4>2
    <3>3. QED
      BY <3>1, <3>2
  <2>4. Flattens(a, n + 1, g)
    BY <2>3 DEF Flattens
  <2>5. FlattenSeq(a) = g[n + 1]
    <3>1. n + 1 \in Nat \ {0}
      BY <1>1
    <3>2. QED
      BY <1>1, <2>4, <3>1, FlattenIs
  <2>6. FlattenSeq(s) = f[n]
    BY <1>1, <1>3, <2>1, FlattenIs DEF n
  <2>7. QED
    BY <2>2, <2>5, <2>6 DEF whole, a
<1>4. QED
  BY <1>2, <1>3

\* It begins with its first sequence, the flattened others follow.
LEMMA FlattenFirst ==
  ASSUME NEW T, NEW s \in Seq(Seq(T)), s # <<>>
  PROVE  FlattenSeq(s) = Head(s) \o FlattenSeq(Tail(s))
<1> DEFINE n == Len(s)
           t == Tail(s)
           h == Head(s)
<1>1. /\ n \in Nat \ {0} /\ Len(t) = n - 1 /\ h = s[1] /\ t \in Seq(Seq(T))
      /\ \A m \in 1..(n - 1) : t[m] = s[m + 1]
      /\ \A m \in 1..n : s[m] \in Seq(T)
  BY HeadTailProperties
<1>2. CASE n = 1
  <2>1. t = <<>>
    <3>1. Len(t) = 0
      BY <1>1, <1>2
    <3>2. QED
      BY <1>1, <3>1, EmptySeq
  <2>2. FlattenSeq(t) = <<>>
    BY <2>1 DEF FlattenSeq
  <2>4. FlattenSeq(s) = h
    BY <1>1, <1>2, FlattenOne
  <2>5. h \in Seq(T)
    BY <1>1
  <2>6. QED
    BY <2>2, <2>4, <2>5
<1>3. CASE n # 1
  <2> HIDE DEF n, t, h
  <2>0. n - 1 \in Nat \ {0} /\ 1 \in 1..n /\ n \in 1..n
    BY <1>1, <1>3
  <2>1. PICK f : Flattens(t, n - 1, f)
    BY <2>0, FlattensExists
  <2>2. \A m \in 1..(n - 1) : t[m] \in Seq(T)
    BY <1>1
  <2>3. \A m \in 1..(n - 1) : f[m] \in Seq(T)
    BY <2>0, <2>1, <2>2, FlattensTypes
  <2> DEFINE g == [m \in 1..n |-> IF m = 1 THEN h ELSE h \o f[m - 1]]
  <2>4. g[1] = h /\ \A m \in 1..n : m # 1 => g[m] = h \o f[m - 1]
    BY <2>0, Zenon
  <2> HIDE DEF g
  <2>5. ASSUME NEW m \in 1..n
        PROVE  g[m] = IF m = 1 THEN s[m] ELSE g[m - 1] \o s[m]
    <3>1. CASE m = 1
      BY <1>1, <2>4, <3>1
    <3>2. CASE m = 2
      <4>1. m - 1 = 1 /\ 1 \in 1..(n - 1) /\ m # 1
        BY <1>1, <1>3, <3>2
      <4>2. f[1] = t[1] /\ t[1] = s[2]
        BY <1>1, <2>1, <4>1 DEF Flattens
      <4>3. QED
        BY <2>4, <3>2, <4>1, <4>2
    <3>3. CASE m # 1 /\ m # 2
      <4>1. m - 1 \in 1..(n - 1) /\ m - 2 \in 1..(n - 1) /\ m - 1 \in 1..n /\ (m - 1) - 1 = m - 2 /\ m - 1 # 1
            /\ (m - 1) + 1 = m
        BY <1>1, <3>3
      <4>2. f[m - 1] = f[m - 2] \o s[m]
        BY <1>1, <2>1, <4>1 DEF Flattens
      <4>3. g[m] = h \o f[m - 1] /\ g[m - 1] = h \o f[m - 2]
        BY <2>4, <3>3, <4>1
      <4>4. h \in Seq(T) /\ f[m - 2] \in Seq(T) /\ s[m] \in Seq(T)
        BY <1>1, <2>3, <4>1
      <4>5. (h \o f[m - 2]) \o s[m] = h \o (f[m - 2] \o s[m])
        <5>1. PICK a \in Seq(T) : a = f[m - 2]
          BY <4>4
        <5>2. PICK b \in Seq(T) : b = s[m]
          BY <4>4
        <5>3. PICK c \in Seq(T) : c = h
          BY <4>4
        <5>4. (c \o a) \o b = c \o (a \o b)
          OBVIOUS
        <5>5. QED
          BY <5>1, <5>2, <5>3, <5>4
      <4>6. QED
        BY <3>3, <4>2, <4>3, <4>5
    <3>4. QED
      BY <3>1, <3>2, <3>3
  <2>6. Flattens(s, n, g)
    BY <2>5 DEF Flattens
  <2>7. FlattenSeq(s) = g[n]
    BY <1>1, <2>6, FlattenIs DEF n
  <2>8. FlattenSeq(t) = f[n - 1]
    BY <1>1, <2>0, <2>1, FlattenIs
  <2>9. g[n] = h \o f[n - 1]
    BY <1>3, <2>0, <2>4
  <2>10. QED
    BY <2>7, <2>8, <2>9 DEF h, t
<1>4. QED
  BY <1>2, <1>3

-----------------------------------------------------------------------------
(* Where the elements are.                                                 *)

\* start[w] elements come from the first w of the n sequences.
Counts(s, n, start) ==
  /\ start \in [0..n -> Nat] /\ start[0] = 0
  /\ \A w \in 1..n : start[w] = start[w - 1] + Len(s[w])

\* t has the elements of one sequence after those of another.
InParts(s, n, start, t) ==
  \A i \in 1..start[n] : \E w \in 1..n : \E j \in 1..Len(s[w]) :
    i = start[w - 1] + j /\ t[i] = s[w][j]

\* The flattened sequence has as many elements as all of them, and each is the one
\* of the sequence it falls into.
LEMMA FlattenParts ==
  ASSUME NEW T, NEW n \in Nat, NEW s \in [1..n -> Seq(T)],
         NEW start, Counts(s, n, start)
  PROVE  /\ FlattenSeq(s) \in Seq(T)
         /\ Len(FlattenSeq(s)) = start[n]
         /\ InParts(s, n, start, FlattenSeq(s))
<1> DEFINE Holds(m, t) ==
             /\ t \in Seq(T) /\ Len(t) = start[m]
             /\ \A i \in 1..start[m] : \E w \in 1..m : \E j \in 1..Len(s[w]) :
                  i = start[w - 1] + j /\ t[i] = s[w][j]
<1>c. /\ start \in [0..n -> Nat] /\ start[0] = 0
      /\ \A w \in 1..n : start[w] = start[w - 1] + Len(s[w])
  BY DEF Counts
<1>1. s \in Seq(Seq(T)) /\ Len(s) = n
  OBVIOUS
<1> USE <1>c
<1>2. CASE n = 0
  <2>1. FlattenSeq(s) = <<>>
    BY <1>1, <1>2 DEF FlattenSeq
  <2>2. QED
    BY <1>2, <2>1 DEF InParts
<1>3. CASE n # 0
  <2>1. PICK f : Flattens(s, n, f)
    BY FlattensExists
  <2> DEFINE S == {k \in Nat : k \in 1..n => Holds(k, f[k])}
  <2>2. 0 \in S
    OBVIOUS
  <2>3. ASSUME NEW k \in Nat, k \in S
        PROVE  k + 1 \in S
    <3> SUFFICES ASSUME k + 1 \in 1..n PROVE Holds(k + 1, f[k + 1])
      OBVIOUS
    <3> DEFINE x == s[k + 1]
               a == start[k]
               t == f[k]
    <3>1. x \in Seq(T) /\ a \in Nat /\ start[k + 1] = a + Len(x)
      <4>1. (k + 1) - 1 = k /\ k \in 0..n
        OBVIOUS
      <4>2. QED
        BY <4>1
    <3>f. f[k + 1] = IF k = 0 THEN x ELSE t \o x
      <4>1. (k + 1) - 1 = k /\ (k + 1 = 1 <=> k = 0)
        OBVIOUS
      <4>2. f[k + 1] = IF k + 1 = 1 THEN s[k + 1] ELSE f[(k + 1) - 1] \o s[k + 1]
        BY <2>1, Zenon DEF Flattens
      <4>3. QED
        BY <4>1, <4>2
    <3>2. CASE k = 0
      <4>1. f[k + 1] = x /\ a = 0
        BY <3>2, <3>f
      <4>2. start[k + 1] = Len(x) /\ start[(k + 1) - 1] = 0
        BY <3>1, <3>2, <4>1
      <4> HIDE DEF x
      <4>3. ASSUME NEW i \in 1..start[k + 1]
            PROVE  i = start[(k + 1) - 1] + i /\ f[k + 1][i] = x[i] /\ i \in 1..Len(x)
        BY <3>1, <4>1, <4>2
      <4>4. QED
        BY <3>1, <4>1, <4>2, <4>3 DEF x
    <3>3. CASE k # 0
      <4> HIDE DEF Holds
      <4>k. k \in 1..n
        BY <3>3
      <4>1. Holds(k, t)
        BY <2>3, <4>k
      <4>2. f[k + 1] = t \o x
        BY <3>3, <3>f
      <4> USE DEF Holds
      <4>3. t \in Seq(T) /\ Len(t) = a
        BY <4>1
      <4> HIDE DEF t, x, a
      <4>4. /\ t \o x \in Seq(T) /\ Len(t \o x) = a + Len(x)
            /\ \A i \in 1..(a + Len(x)) : (t \o x)[i] = IF i <= a THEN t[i] ELSE x[i - a]
        BY <3>1, <4>3, ConcatProperties
      <4>5. ASSUME NEW i \in 1..start[k + 1]
            PROVE  \E w \in 1..(k + 1) : \E j \in 1..Len(s[w]) :
                     i = start[w - 1] + j /\ (t \o x)[i] = s[w][j]
        <5>1. CASE i <= a
          <6>1. i \in 1..a /\ (t \o x)[i] = t[i]
            <7>1. Len(x) \in Nat
              BY <3>1
            <7>2. i \in 1..(a + Len(x))
              BY <3>1, <7>1
            <7>3. QED
              BY <3>1, <4>4, <5>1, <7>2
          <6>2. PICK w \in 1..k : \E j \in 1..Len(s[w]) : i = start[w - 1] + j /\ t[i] = s[w][j]
            BY <4>1, <6>1 DEF t, a
          <6>3. w \in 1..(k + 1)
            OBVIOUS
          <6>4. QED
            BY <6>1, <6>2, <6>3
        <5>2. CASE ~(i <= a)
          <6>1. Len(x) \in Nat
            BY <3>1
          <6>2. i - a \in 1..Len(x) /\ i = a + (i - a)
            BY <3>1, <5>2, <6>1
          <6>3. (t \o x)[i] = x[i - a]
            BY <3>1, <4>4, <5>2
          <6>4. (k + 1) - 1 = k /\ k + 1 \in 1..(k + 1)
            OBVIOUS
          <6>5. QED
            BY <6>2, <6>3, <6>4 DEF x, a
        <5>3. QED
          BY <5>1, <5>2
      <4>6. QED
        BY <3>1, <4>2, <4>4, <4>5
    <3>4. QED
      BY <3>2, <3>3
  <2> HIDE DEF S
  <2>4. Nat \subseteq S
    BY <2>2, <2>3, InductionOnNat
  <2>5. Holds(n, f[n])
    BY <1>3, <2>4 DEF S
  <2>6. FlattenSeq(s) = f[n]
    BY <1>1, <1>3, <2>1, FlattenIs
  <2>7. f[n] \in Seq(T) /\ Len(f[n]) = start[n] /\ InParts(s, n, start, f[n])
    BY <2>5 DEF InParts
  <2>8. QED
    BY <2>6, <2>7
<1>4. QED
  BY <1>2, <1>3

\* There is such a count.
LEMMA CountsExist ==
  ASSUME NEW T, NEW n \in Nat, NEW s \in [1..n -> Seq(T)]
  PROVE  \E start : Counts(s, n, start)
<1> DEFINE S == {k \in Nat : k <= n => \E start : Counts(s, k, start)}
<1>1. 0 \in S
  <2> DEFINE start == [w \in 0..0 |-> 0]
  <2>1. Counts(s, 0, start)
    BY DEF Counts
  <2>2. QED
    BY <2>1
<1>2. ASSUME NEW k \in Nat, k \in S
      PROVE  k + 1 \in S
  <2>1. CASE ~(k + 1 <= n)
    BY <2>1
  <2>2. CASE k + 1 <= n
    <3>1. PICK old : Counts(s, k, old)
      BY <1>2, <2>2
    <3> DEFINE last == old[k] + Len(s[k + 1])
               new == [w \in 0..(k + 1) |-> IF w = k + 1 THEN last ELSE old[w]]
    <3>2. last \in Nat
      BY <2>2, <3>1 DEF Counts
    <3> HIDE DEF last
    <3>3. new \in [0..(k + 1) -> Nat] /\ new[0] = 0 /\ new[k + 1] = last
      BY <3>1, <3>2 DEF Counts
    <3>4. \A w \in 0..k : new[w] = old[w]
      OBVIOUS
    <3> HIDE DEF new
    <3>5. ASSUME NEW w \in 1..(k + 1)
          PROVE  new[w] = new[w - 1] + Len(s[w])
      <4>1. w - 1 \in 0..k
        OBVIOUS
      <4>2. CASE w = k + 1
        BY <3>3, <3>4, <4>1, <4>2 DEF last
      <4>3. CASE w # k + 1
        <5>1. w \in 1..k /\ w \in 0..k
          BY <4>3
        <5>2. old[w] = old[w - 1] + Len(s[w])
          BY <3>1, <5>1 DEF Counts
        <5>3. QED
          BY <3>4, <4>1, <5>1, <5>2
      <4>4. QED
        BY <4>2, <4>3
    <3>6. Counts(s, k + 1, new)
      BY <3>3, <3>5 DEF Counts
    <3>7. QED
      BY <3>6
  <2>3. QED
    BY <2>1, <2>2
<1> HIDE DEF S
<1>3. Nat \subseteq S
  BY <1>1, <1>2, InductionOnNat
<1>4. n \in S
  BY <1>3
<1>5. QED
  BY <1>4 DEF S

\* The counts of more sequences are no less.
LEMMA CountsGrow ==
  ASSUME NEW T, NEW n \in Nat, NEW s \in [1..n -> Seq(T)], NEW start, Counts(s, n, start),
         NEW a \in 0..n, NEW b \in 0..n, a <= b
  PROVE  start[a] \in Nat /\ start[b] \in Nat /\ start[a] <= start[b]
<1>1. start \in [0..n -> Nat] /\ \A w \in 1..n : start[w] = start[w - 1] + Len(s[w])
  BY DEF Counts
<1> DEFINE S == {k \in Nat : a + k <= n => start[a] <= start[a + k]}
<1>2. 0 \in S
  BY <1>1
<1>3. ASSUME NEW k \in Nat, k \in S
      PROVE  k + 1 \in S
  <2>1. SUFFICES ASSUME a + (k + 1) <= n PROVE start[a] <= start[a + (k + 1)]
    OBVIOUS
  <2>2. start[a] <= start[a + k]
    BY <1>3, <2>1
  <2>3. a + (k + 1) \in 1..n /\ (a + (k + 1)) - 1 = a + k /\ a + k \in 0..n
    BY <2>1
  <2>4. start[a + (k + 1)] = start[a + k] + Len(s[a + (k + 1)]) /\ Len(s[a + (k + 1)]) \in Nat
    BY <1>1, <2>3
  <2>5. start[a] \in Nat /\ start[a + k] \in Nat
    BY <1>1, <2>3
  <2>6. QED
    BY <2>2, <2>4, <2>5
<1> HIDE DEF S
<1>4. Nat \subseteq S
  BY <1>2, <1>3, InductionOnNat
<1>5. b - a \in Nat /\ a + (b - a) = b
  OBVIOUS
<1>6. b - a \in S
  BY <1>4, <1>5
<1>7. start[a] <= start[b]
  BY <1>5, <1>6 DEF S
<1>8. QED
  BY <1>1, <1>7

\* A sequence has an element at a place.
HasAt(s, p, x) == p \in DOMAIN s /\ s[p] = x

\* Each element of each sequence is in the flattened one, at its place.
LEMMA FlattenHas ==
  ASSUME NEW T, NEW n \in Nat, NEW s \in [1..n -> Seq(T)], NEW start, Counts(s, n, start),
         NEW w \in 1..n, NEW j \in DOMAIN s[w]
  PROVE  HasAt(FlattenSeq(s), start[w - 1] + j, s[w][j])
<1> DEFINE p == start[w - 1] + j
           t == FlattenSeq(s)
<1>1. /\ start \in [0..n -> Nat] /\ \A v \in 1..n : start[v] = start[v - 1] + Len(s[v])
      /\ t \in Seq(T) /\ Len(t) = start[n] /\ InParts(s, n, start, t)
  <2>1. t \in Seq(T) /\ Len(t) = start[n] /\ InParts(s, n, start, t)
    BY FlattenParts
  <2>2. QED
    BY <2>1 DEF Counts
<1>2. j \in 1..Len(s[w]) /\ Len(s[w]) \in Nat /\ w - 1 \in 0..n /\ w \in 0..n /\ n \in 0..n
  OBVIOUS
<1>3. start[w - 1] \in Nat /\ start[w] = start[w - 1] + Len(s[w]) /\ start[w] \in Nat /\ start[n] \in Nat
  BY <1>1, <1>2
<1>4. start[w] <= start[n]
  BY <1>2, CountsGrow
<1>5. p \in 1..start[n] /\ p \in Nat
  BY <1>2, <1>3, <1>4
<1>6. DOMAIN t = 1..start[n]
  BY <1>1
<1> HIDE DEF p, t
<1>7. PICK v \in 1..n : \E i \in 1..Len(s[v]) : p = start[v - 1] + i /\ t[p] = s[v][i]
  BY <1>1, <1>5 DEF InParts
<1>8. PICK i \in 1..Len(s[v]) : p = start[v - 1] + i /\ t[p] = s[v][i]
  BY <1>7
<1>9. /\ v - 1 \in 0..n /\ v \in 0..n /\ start[v - 1] \in Nat /\ Len(s[v]) \in Nat
      /\ start[v] = start[v - 1] + Len(s[v])
  BY <1>1
<1>10. v = w
  <2>1. CASE v < w
    <3>1. v <= w - 1
      BY <2>1
    <3>2. start[v] <= start[w - 1]
      BY <1>2, <1>9, <3>1, CountsGrow
    <3>3. QED
      BY <1>2, <1>3, <1>8, <1>9, <3>2 DEF p
  <2>2. CASE w < v
    <3>1. w <= v - 1
      BY <2>2
    <3>2. start[w] <= start[v - 1]
      BY <1>2, <1>9, <3>1, CountsGrow
    <3>3. QED
      BY <1>2, <1>3, <1>8, <1>9, <3>2 DEF p
  <2>3. QED
    BY <2>1, <2>2
<1>11. i = j
  BY <1>2, <1>3, <1>8, <1>10 DEF p
<1>12. QED
  BY <1>5, <1>6, <1>8, <1>10, <1>11 DEF p, t, HasAt

\* What is in the flattened sequence is in one of its parts.
LEMMA FlattenMembers ==
  ASSUME NEW T, NEW n \in Nat, NEW s \in [1..n -> Seq(T)]
  PROVE  /\ FlattenSeq(s) \in Seq(T)
         /\ \A i \in DOMAIN FlattenSeq(s) : \E w \in 1..n : \E j \in DOMAIN s[w] :
              FlattenSeq(s)[i] = s[w][j]
<1>1. PICK start : Counts(s, n, start)
  BY CountsExist
<1>2. /\ FlattenSeq(s) \in Seq(T) /\ Len(FlattenSeq(s)) = start[n]
      /\ InParts(s, n, start, FlattenSeq(s))
  BY <1>1, FlattenParts
<1>3. \A w \in 1..n : DOMAIN s[w] = 1..Len(s[w])
  OBVIOUS
<1>4. DOMAIN FlattenSeq(s) = 1..start[n]
  BY <1>2
<1>5. \A i \in 1..start[n] : \E w \in 1..n : \E j \in 1..Len(s[w]) :
        FlattenSeq(s)[i] = s[w][j]
  BY <1>2 DEF InParts
<1>6. QED
  BY <1>2, <1>3, <1>4, <1>5
=============================================================================
