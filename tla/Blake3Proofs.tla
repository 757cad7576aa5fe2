---- MODULE Blake3Proofs ----
EXTENDS Blake3, Blake3Tree, Counting, TLAPS

----------------------------------------------------------------------------
\* Powers of two, by the sizes of the sets of subsets.

\* Powers of two, by the sizes of the sets of subsets.
LEMMA TwoTo ==
  2^0 = 1 /\ \A n \in Nat : 2^n \in Nat /\ 2^(n + 1) = 2 * 2^n
<1>1. 2^0 = 1
  BY SMT
<1>2. ASSUME NEW n \in Nat
      PROVE  2^n \in Nat /\ 2^(n + 1) = 2 * 2^n
  <2> DEFINE A == SUBSET (1 .. n)
             B == {T \cup {n + 1} : T \in A}
             f == [T \in A |-> T \cup {n + 1}]
  <2>1. /\ IsFiniteSet(1 .. n) /\ Cardinality(1 .. n) = n
        /\ IsFiniteSet(1 .. n + 1) /\ Cardinality(1 .. n + 1) = n + 1
    BY FS_Interval
  <2>2. IsFiniteSet(A) /\ Cardinality(A) = 2^n
    BY <2>1, FS_SUBSET
  <2>3. Cardinality(SUBSET (1 .. n + 1)) = 2^(n + 1)
    BY <2>1, FS_SUBSET
  <2>4. IsFiniteSet(B) /\ Cardinality(B) = Cardinality(A)
    <3>1. n + 1 \notin 1 .. n
      OBVIOUS
    <3>2. f \in Bijection(A, B)
      <4>1. f \in [A -> B]
        OBVIOUS
      <4>2. \A S, T \in A : f[S] = f[T] => S = T
        <5>1. \A S \in A : n + 1 \notin S /\ f[S] = S \cup {n + 1}
          BY <3>1
        <5> QED
          BY <5>1
      <4>3. \A T \in B : \E S \in A : f[S] = T
        OBVIOUS
      <4> QED
        BY <4>1, <4>2, <4>3 DEF Bijection, Injection, IsInjective, Surjection
    <3> QED
      BY <2>2, <3>2, FS_Bijection DEF ExistsBijection
  <2>5. SUBSET (1 .. n + 1) = A \cup B
    <3>1. 1 .. n + 1 = (1 .. n) \cup {n + 1}
      OBVIOUS
    <3>2. ASSUME NEW T \in SUBSET ((1 .. n) \cup {n + 1})
          PROVE  T \in A \cup B
      <4>1. CASE n + 1 \in T
        <5>1. T = (T \ {n + 1}) \cup {n + 1} /\ T \ {n + 1} \in A
          BY <4>1
        <5> QED
          BY <5>1
      <4>2. CASE n + 1 \notin T
        BY <4>2
      <4> QED
        BY <4>1, <4>2
    <3>3. A \subseteq SUBSET ((1 .. n) \cup {n + 1}) /\ B \subseteq SUBSET ((1 .. n) \cup {n + 1})
      OBVIOUS
    <3> QED
      BY <3>1, <3>2, <3>3
  <2>6. A \cap B = {}
    <3>1. n + 1 \notin 1 .. n
      OBVIOUS
    <3> QED
      BY <3>1
  <2>7. Cardinality(A \cup B) = Cardinality(A) + Cardinality(B) - Cardinality(A \cap B)
    BY <2>2, <2>4, FS_Union
  <2>8. Cardinality(A \cap B) = 0
    BY <2>6, FS_EmptySet
  <2>9. Cardinality(A) \in Nat
    BY <2>2, FS_CardinalityType
  <2> HIDE DEF A, B
  <2>10. ASSUME NEW small, NEW large, small = Cardinality(A), large = Cardinality(A \cup B)
         PROVE  small \in Nat /\ large = 2 * small
    BY <2>4, <2>7, <2>8, <2>9, <2>10
  <2>11. 2^(n + 1) = Cardinality(A \cup B)
    BY <2>3, <2>5, Zenon
  <2>12. 2^n = Cardinality(A)
    BY <2>2, Zenon
  <2> QED
    BY <2>10, <2>11, <2>12, Zenon
<1> QED
  BY <1>1, <1>2

\* The powers of two: every degree and every whole subtree's count of chunks is
\* one.
Pow2 == {2^n : n \in Nat}

\* One is a power of two, twice a power of two is one, and one above 1 is twice
\* a smaller one.
LEMMA PowersOf2 ==
  /\ 1 \in Pow2 /\ Pow2 \subseteq Nat \ {0}
  /\ \A x \in Pow2 : 2 * x \in Pow2
  /\ \A x \in Pow2 : x # 1 => \E y \in Pow2 : x = 2 * y
<1>1. 0 \in Nat /\ 2^0 = 1
  BY TwoTo
<1>2. ASSUME NEW n \in Nat, n # 0
      PROVE  n - 1 \in Nat /\ 2^n = 2 * 2^(n - 1)
  <2>1. n - 1 \in Nat /\ (n - 1) + 1 = n
    BY <1>2
  <2> QED
    BY <2>1, TwoTo
<1>3. ASSUME NEW n \in Nat PROVE 2^n # 0
  <2> DEFINE Bad == {k \in Nat : 2^k = 0}
  <2>1. SUFFICES ASSUME Bad # {} PROVE FALSE
    OBVIOUS
  <2>2. PICK k \in Bad : \A j \in Bad : k <= j
    BY <2>1, LeastNumber
  <2>3. k # 0 /\ k \in Nat
    <3>1. 2^k = 0 /\ k \in Nat
      BY <2>2
    <3>2. 1 # 0
      OBVIOUS
    <3> QED
      BY <1>1, <3>1, <3>2, Zenon
  <2>4. k - 1 \in Nat /\ 2^k = 2 * 2^(k - 1) /\ 2^(k - 1) \in Nat
    BY <1>2, <2>3, TwoTo
  <2>5. k - 1 \in Bad
    BY <2>2, <2>4
  <2> QED
    BY <2>2, <2>3, <2>5
<1>4. 1 \in Pow2
  BY <1>1 DEF Pow2
<1>5. Pow2 \subseteq Nat \ {0}
  BY <1>3, TwoTo DEF Pow2
<1>6. ASSUME NEW x \in Pow2 PROVE 2 * x \in Pow2
  <2>1. PICK n \in Nat : x = 2^n
    BY DEF Pow2
  <2>2. n + 1 \in Nat /\ 2 * x = 2^(n + 1)
    BY <2>1, TwoTo
  <2> QED
    BY <2>2 DEF Pow2
<1>7. ASSUME NEW x \in Pow2, x # 1 PROVE \E y \in Pow2 : x = 2 * y
  <2>1. PICK n \in Nat : x = 2^n
    BY DEF Pow2
  <2>2. n # 0
    BY <1>1, <1>7, <2>1
  <2> QED
    BY <1>2, <2>1, <2>2 DEF Pow2
<1> QED
  BY <1>4, <1>5, <1>6, <1>7

\* Of two powers of two the smaller divides the greater, and its double does
\* not exceed it.
LEMMA PowerDivides ==
  ASSUME NEW x \in Pow2, NEW y \in Pow2, x <= y
  PROVE  /\ \E q \in Pow2 : y = x * q
         /\ x < y => 2 * x <= y
<1> DEFINE Bad == {u \in Pow2 : \E v \in Pow2 : u <= v /\ \A q \in Pow2 : v # u * q}
<1>1. Bad = {}
  <2>1. SUFFICES ASSUME Bad # {} PROVE FALSE
    OBVIOUS
  <2>2. PICK u \in Bad : \A w \in Bad : u <= w
    BY <2>1, LeastNumber, PowersOf2
  <2>3. PICK v \in Pow2 : u <= v /\ \A q \in Pow2 : v # u * q
    BY <2>2
  <2>4. u # 1
    <3>1. v = 1 * v
      BY PowersOf2
    <3> QED
      BY <2>3, <3>1
  <2>5. v # 1
    BY <2>2, <2>3, <2>4, PowersOf2
  <2>6. PICK a \in Pow2 : u = 2 * a
    BY <2>2, <2>4, PowersOf2
  <2>7. PICK b \in Pow2 : v = 2 * b
    BY <2>5, PowersOf2
  <2>8. a \in Nat \ {0} /\ b \in Nat
    BY PowersOf2
  <2>9. a <= b /\ a < u
    BY <2>3, <2>6, <2>7, <2>8
  <2>10. PICK q \in Pow2 : b = a * q
    BY <2>2, <2>6, <2>8, <2>9
  <2>11. q \in Nat
    BY PowersOf2
  <2>12. v = u * q
    <3>1. 2 * (a * q) = (2 * a) * q
      BY <2>8, <2>11
    <3> QED
      BY <2>6, <2>7, <2>10, <3>1
  <2> QED
    BY <2>3, <2>12
<1>2. PICK q \in Pow2 : y = x * q
  BY <1>1
<1>3. x < y => 2 * x <= y
  <2>1. SUFFICES ASSUME x < y PROVE 2 * x <= y
    OBVIOUS
  <2>2. x \in Nat /\ y \in Nat /\ q \in Nat \ {0}
    BY PowersOf2
  <2>3. q # 1
    BY <1>2, <2>1, <2>2
  <2>4. PICK r \in Pow2 : q = 2 * r
    BY <2>3, PowersOf2
  <2>5. r \in Nat /\ r >= 1
    BY PowersOf2
  <2>6. y = 2 * (x * r)
    BY <1>2, <2>2, <2>4, <2>5
  <2>7. x * r >= x /\ x * r \in Nat
    BY <2>2, <2>5
  <2> QED
    BY <2>2, <2>6, <2>7
<1> QED
  BY <1>2, <1>3

\* The power of two that a number lies at or above is unique.
LEMMA PowerUnique ==
  ASSUME NEW x \in Pow2, NEW y \in Pow2, NEW n \in Int, x <= n, n < 2 * x, y <= n, n < 2 * y
  PROVE  x = y
<1>1. x \in Nat /\ y \in Nat
  BY PowersOf2
<1>2. CASE x < y
  <2>1. 2 * x <= y
    BY <1>1, <1>2, PowerDivides
  <2> QED
    BY <1>1, <2>1
<1>3. CASE y < x
  <2>1. 2 * y <= x
    BY <1>1, <1>3, PowerDivides
  <2> QED
    BY <1>1, <2>1
<1> QED
  BY <1>1, <1>2, <1>3

----------------------------------------------------------------------------
\* popcnt and round_down_to_power_of_2 as recursions.

\* The pieces from which Counting's principle of recursion is instantiated
\* where the recursion runs over the naturals themselves; OnesBody is the
\* recursion of popcnt.
NatDom(p) == Nat
Itself(x) == x

OnesBody(p, f, y) == IF y = 0 THEN 0 ELSE (y % 2) + f[y \div 2]
OnesOf == INSTANCE Counting WITH Domain <- NatDom, Measure <- Itself, Body <- OnesBody

\* Halving: half of a number is smaller, and with the last bit gives the number
\* back.
LEMMA Halves ==
  ASSUME NEW y \in Nat
  PROVE  /\ y \div 2 \in Nat /\ (y # 0 => y \div 2 < y)
         /\ y % 2 \in {0, 1} /\ y = 2 * (y \div 2) + (y % 2)
         /\ (2 * y) \div 2 = y /\ (2 * y + 1) \div 2 = y
         /\ (2 * y) % 2 = 0 /\ (2 * y + 1) % 2 = 1
  BY SMT

\* popcnt satisfies its own recursive equation: the last bit, and the ones of
\* the rest.
LEMMA PopcntIs ==
  \A x \in Nat : popcnt(x) = IF x = 0 THEN 0 ELSE (x % 2) + popcnt(x \div 2)
<1>1. OnesOf!Sees(0)
  BY Halves DEF OnesOf!Sees, NatDom, Itself, OnesBody
<1>2. OnesOf!Recursive(0) = [x \in NatDom(0) |-> OnesBody(0, OnesOf!Recursive(0), x)]
  BY <1>1, OnesOf!Recursion
<1>3. \A x : popcnt(x) = OnesOf!Recursive(0)[x]
  BY DEF popcnt, OnesOf!Recursive, NatDom, OnesBody
<1> TAKE x \in Nat
<1>4. OnesOf!Recursive(0)[x] = OnesBody(0, OnesOf!Recursive(0), x)
  BY <1>2 DEF NatDom
<1> QED
  BY <1>3, <1>4 DEF OnesBody

\* The number of ones is a natural number.
LEMMA PopcntType ==
  \A x \in Nat : popcnt(x) \in Nat
<1> DEFINE Bad == {x \in Nat : popcnt(x) \notin Nat}
<1>1. SUFFICES ASSUME Bad # {} PROVE FALSE
  OBVIOUS
<1>2. PICK x \in Bad : \A y \in Bad : x <= y
  BY <1>1, LeastNumber
<1>3. x # 0
  BY <1>2, PopcntIs
<1>4. x \div 2 \in Nat /\ x \div 2 < x /\ x % 2 \in {0, 1}
  BY <1>2, <1>3, Halves
<1>5. popcnt(x \div 2) \in Nat
  BY <1>2, <1>4
<1> QED
  BY <1>2, <1>3, <1>4, <1>5, PopcntIs

\* A zero appended to a number keeps the count of its ones, a one appended adds
\* one.
LEMMA PopcntOfDouble ==
  ASSUME NEW x \in Nat
  PROVE  popcnt(2 * x) = popcnt(x) /\ popcnt(2 * x + 1) = popcnt(x) + 1
<1>1. popcnt(0) = 0 /\ popcnt(x) \in Nat
  BY PopcntIs, PopcntType
<1>2. x # 0 => popcnt(2 * x) = popcnt(x)
  <2>1. 2 * x \in Nat /\ (x # 0 => 2 * x # 0)
    OBVIOUS
  <2>2. x # 0 => popcnt(2 * x) = ((2 * x) % 2) + popcnt((2 * x) \div 2)
    BY <2>1, PopcntIs
  <2> QED
    BY <1>1, <2>2, Halves
<1>3. popcnt(2 * x + 1) = ((2 * x + 1) % 2) + popcnt((2 * x + 1) \div 2)
  BY PopcntIs
<1> QED
  BY <1>1, <1>2, <1>3, Halves

\* A power of two added to a multiple of its double is one more 1 bit.
LEMMA PopcntOfSum ==
  ASSUME NEW p \in Pow2, NEW q \in Nat
  PROVE  popcnt(2 * (p * q) + p) = popcnt(2 * (p * q)) + 1
<1> DEFINE Holds(u) == popcnt(2 * (u * q) + u) = popcnt(2 * (u * q)) + 1
           Bad == {u \in Pow2 : ~ Holds(u)}
<1>1. SUFFICES ASSUME Bad # {} PROVE FALSE
  OBVIOUS
<1>2. PICK u \in Bad : \A v \in Bad : u <= v
  BY <1>1, LeastNumber, PowersOf2
<1>3. u # 1
  <2>1. popcnt(2 * q + 1) = popcnt(2 * q) + 1
    BY PopcntOfDouble
  <2>2. 1 * q = q
    OBVIOUS
  <2> QED
    BY <1>2, <2>1, <2>2
<1>4. PICK v \in Pow2 : u = 2 * v
  BY <1>2, <1>3, PowersOf2
<1>5. v \in Nat \ {0} /\ v < u
  BY <1>4, PowersOf2
<1>6. popcnt(2 * (v * q) + v) = popcnt(2 * (v * q)) + 1
  BY <1>2, <1>4, <1>5
<1>7. PICK w \in Nat : w = v * q /\ u * q = 2 * w
  BY <1>4, <1>5
<1>8. /\ popcnt(2 * (2 * w)) = popcnt(2 * w)
      /\ popcnt(2 * (2 * w + v)) = popcnt(2 * w + v)
      /\ 2 * (2 * w) + 2 * v = 2 * (2 * w + v)
  BY <1>5, <1>7, PopcntOfDouble
<1> QED
  BY <1>2, <1>4, <1>6, <1>7, <1>8

\* The recursion of round_down_to_power_of_2 (blake3_impl.h).
PowerBody(p, f, y) == IF y <= 1 THEN 1 ELSE 2 * f[y \div 2]
Power == INSTANCE Counting WITH Domain <- NatDom, Measure <- Itself, Body <- PowerBody

\* round_down_to_power_of_2(x) is the power of two that is at most x and more
\* than half of x.
LEMMA RoundDown ==
  ASSUME NEW x \in Nat \ {0}
  PROVE  LET r == round_down_to_power_of_2(x)
         IN  r \in Pow2 /\ r <= x /\ x < 2 * r
<1>1. Power!Sees(0)
  BY Halves DEF Power!Sees, NatDom, Itself, PowerBody
<1>2. Power!Recursive(0) = [y \in NatDom(0) |-> PowerBody(0, Power!Recursive(0), y)]
  BY <1>1, Power!Recursion
<1> DEFINE r(y) == round_down_to_power_of_2(y)
<1>3. \A y : r(y) = Power!Recursive(0)[y]
  BY DEF round_down_to_power_of_2, Power!Recursive, NatDom, PowerBody
<1>4. ASSUME NEW y \in Nat PROVE r(y) = IF y <= 1 THEN 1 ELSE 2 * r(y \div 2)
  <2>1. Power!Recursive(0)[y] = PowerBody(0, Power!Recursive(0), y)
    BY <1>2 DEF NatDom
  <2> QED
    BY <1>3, <2>1 DEF PowerBody
<1> HIDE DEF r
<1> DEFINE Bad == {y \in Nat \ {0} : ~ (r(y) \in Pow2 /\ r(y) <= y /\ y < 2 * r(y))}
<1>5. Bad = {}
  <2>1. SUFFICES ASSUME Bad # {} PROVE FALSE
    OBVIOUS
  <2>2. PICK y \in Bad : \A z \in Bad : y <= z
    BY <2>1, LeastNumber
  <2>3. y # 1
    BY <1>4, <2>2, PowersOf2
  <2>4. y \div 2 \in Nat \ {0} /\ y \div 2 < y /\ (y = 2 * (y \div 2) \/ y = 2 * (y \div 2) + 1)
    BY <2>2, <2>3, Halves
  <2>5. PICK h \in Nat \ {0} : h = y \div 2
    BY <2>4
  <2>6. r(h) \in Pow2 /\ r(h) <= h /\ h < 2 * r(h)
    BY <2>2, <2>4, <2>5
  <2>7. r(h) \in Nat /\ r(y) = 2 * r(h)
    <3>1. y \in Nat /\ ~ (y <= 1)
      BY <2>2, <2>3
    <3>2. r(y) = 2 * r(h)
      BY <1>4, <2>5, <3>1
    <3> QED
      BY <2>6, <3>2, PowersOf2
  <2>8. 2 * r(h) \in Pow2
    BY <2>6, PowersOf2
  <2> QED
    BY <2>2, <2>4, <2>5, <2>6, <2>7, <2>8
<1> QED
  BY <1>5 DEF r

----------------------------------------------------------------------------
\* Sizes of subtrees: ShrinkToFit, chunks and blocks in bytes, left_len.

\* The recursion of the loop of blake3_hasher_update that halves the subtree
\* until it divides what was hashed.
PosDom(p) == Nat \ {0}
FitBody(count, f, y) == IF count % y = 0 THEN y ELSE f[y \div 2]
Fit == INSTANCE Counting WITH Domain <- PosDom, Measure <- Itself, Body <- FitBody

\* ShrinkToFit satisfies the equation of its loop.
LEMMA FitIs ==
  ASSUME NEW count \in Nat, NEW y \in Nat \ {0}
  PROVE  ShrinkToFit(y, count) = IF count % y = 0 THEN y ELSE ShrinkToFit(y \div 2, count)
<1>1. Fit!Sees(count)
  <2>1. ASSUME NEW x \in Nat \ {0}, count % x # 0
        PROVE  x \div 2 \in Nat \ {0} /\ x \div 2 < x
    <3>1. x # 1
      BY <2>1, SMT
    <3> QED
      BY <3>1, Halves
  <2> QED
    BY <2>1 DEF Fit!Sees, PosDom, Itself, FitBody
<1>2. Fit!Recursive(count) = [x \in PosDom(count) |-> FitBody(count, Fit!Recursive(count), x)]
  BY <1>1, Fit!Recursion
<1>3. \A x : ShrinkToFit(x, count) = Fit!Recursive(count)[x]
  BY DEF ShrinkToFit, Fit!Recursive, PosDom, FitBody
<1>4. Fit!Recursive(count)[y] = FitBody(count, Fit!Recursive(count), y)
  BY <1>2 DEF PosDom
<1> QED
  BY <1>3, <1>4 DEF FitBody

\* The subtree that fits is the largest: a power of two that divides what was
\* hashed before, and one that every smaller such power divides.
LEMMA FitsBest ==
  ASSUME NEW size \in Pow2, NEW count \in Nat,
         NEW d \in Pow2, d <= size, NEW k \in Nat, count = d * k
  PROVE  LET fit == ShrinkToFit(size, count)
         IN  /\ fit \in Pow2 /\ d <= fit /\ fit <= size
             /\ \E m \in Nat : count = fit * m
<1> DEFINE Good(x, fit) == /\ fit \in Pow2 /\ d <= fit /\ fit <= x
                           /\ \E m \in Nat : count = fit * m
           Bad == {x \in Pow2 : d <= x /\ ~ Good(x, ShrinkToFit(x, count))}
<1>1. SUFFICES ASSUME Bad # {} PROVE FALSE
  OBVIOUS
<1>2. PICK x \in Bad : \A y \in Bad : x <= y
  BY <1>1, LeastNumber, PowersOf2
<1>3. x \in Nat \ {0} /\ d \in Nat \ {0} /\ x \in Pow2 /\ d <= x
  BY <1>2, PowersOf2
<1>4. ShrinkToFit(x, count) = IF count % x = 0 THEN x ELSE ShrinkToFit(x \div 2, count)
  BY <1>3, FitIs
<1>5. CASE count % x = 0
  <2>1. PICK m \in Int : count = x * m
    <3>0. count \in Int /\ x \in Nat \ {0}
      BY <1>3
    <3>1. PICK m \in Int : count = x * m + (count % x)
      BY <3>0, Quotient, Zenon
    <3>2. x * m \in Int
      BY <1>3
    <3> QED
      BY <1>5, <3>1, <3>2
  <2>2. m >= 0
    BY <1>3, <2>1, SMT
  <2>3. m \in Nat
    BY <2>2
  <2> QED
    BY <1>2, <1>3, <1>4, <1>5, <2>1, <2>3
<1>6. CASE count % x # 0
  <2>1. d # x
    <3>1. (x * k + 0) % x = 0
      BY <1>3, Remainder
    <3>2. x * k + 0 = x * k
      BY <1>3
    <3> QED
      BY <1>6, <3>1, <3>2
  <2>2. 2 * d <= x
    BY <1>3, <2>1, PowerDivides
  <2>3. x # 1
    BY <1>3, <2>2
  <2>4. PICK y \in Pow2 : x = 2 * y
    BY <1>3, <2>3, PowersOf2
  <2>5. y \in Nat \ {0} /\ x \div 2 = y /\ d <= y /\ y < x
    <3>1. y \in Nat \ {0}
      BY PowersOf2
    <3> QED
      BY <1>3, <2>2, <2>4, <3>1, Halves
  <2>6. Good(y, ShrinkToFit(y, count))
    BY <1>2, <2>5
  <2>7. ShrinkToFit(x, count) = ShrinkToFit(y, count)
    BY <1>4, <1>6, <2>5
  <2>8. Good(x, ShrinkToFit(x, count))
    <3>1. ShrinkToFit(y, count) \in Nat
      BY <2>6, PowersOf2
    <3> QED
      BY <1>3, <2>5, <2>6, <2>7, <3>1
  <2> QED
    BY <1>2, <2>8
<1> QED
  BY <1>5, <1>6

\* Short names for the lengths of a chunk and of a block.
CL == BLAKE3_CHUNK_LEN
BL == BLAKE3_BLOCK_LEN

\* The lengths of chunks and blocks.
LEMMA Lengths ==
  /\ CL \in Pow2 /\ CL \in Nat \ {0} /\ BL \in Nat \ {0}
  /\ \E n \in Nat \ {0} : CL = BL * n
<1>1. CL \in Nat \ {0} /\ BL \in Nat \ {0} /\ CL % BL = 0
  BY LengthsAssumption DEF CL, BL
<1>2. CL \in Pow2
  <2>1. PICK k \in 0 .. CL : CL = 2^k
    BY LengthsAssumption DEF CL
  <2>2. k \in Nat
    BY <1>1
  <2> QED
    BY <2>1, <2>2 DEF Pow2
<1>3. PICK n \in Int : CL = BL * n + (CL % BL)
  <2>1. CL \in Int
    BY <1>1
  <2> QED
    BY <1>1, <2>1, Quotient, Zenon
<1>4. CL = BL * n
  <2>1. BL * n \in Int
    BY <1>1
  <2> QED
    BY <1>1, <1>3, <2>1
<1>5. n > 0
  BY <1>1, <1>4, SMT
<1> QED
  BY <1>1, <1>2, <1>4, <1>5

\* How many bytes a number of chunks and of blocks has.
InChunks(n) == n * CL
\* So many whole blocks, in bytes.
InBlocks(n) == n * BL

\* What the products of a count and a length are, so that later proofs multiply
\* nothing.
LEMMA Products ==
  /\ InChunks(0) = 0 /\ InChunks(1) = CL /\ InBlocks(0) = 0 /\ InBlocks(1) = BL
  /\ \A a \in Nat : InChunks(a) \in Nat /\ InBlocks(a) \in Nat
  /\ \A a, b \in Nat : InChunks(a + b) = InChunks(a) + InChunks(b)
                       /\ InBlocks(a + b) = InBlocks(a) + InBlocks(b)
  /\ \A a \in Nat : InBlocks(a + 1) = InBlocks(a) + BL /\ InChunks(a + 1) = InChunks(a) + CL
                    /\ InChunks(2 * a) = 2 * InChunks(a)
  /\ \A a, b \in Nat : a < b => InChunks(a) + CL <= InChunks(b) /\ InBlocks(a) + BL <= InBlocks(b)
  /\ \A a \in Nat \ {0} : CL <= InChunks(a) /\ BL <= InBlocks(a)
<1>1. CL \in Nat \ {0} /\ BL \in Nat \ {0}
  BY Lengths
<1>2. ASSUME NEW a \in Nat, NEW b \in Nat, NEW n \in Nat \ {0}
      PROVE  /\ a * n \in Nat /\ (a + b) * n = a * n + b * n /\ (a + 1) * n = a * n + n
             /\ (2 * a) * n = 2 * (a * n) /\ 0 * n = 0 /\ 1 * n = n
             /\ a < b => a * n + n <= b * n
             /\ a # 0 => n <= a * n
  <2>1. /\ a * n \in Nat /\ (a + b) * n = a * n + b * n /\ (a + 1) * n = a * n + n
        /\ (2 * a) * n = 2 * (a * n) /\ 0 * n = 0 /\ 1 * n = n
    OBVIOUS
  <2>2. ASSUME a < b PROVE a * n + n <= b * n
    <3>1. PICK k \in Nat : b = (a + 1) + k
      <4>1. b - (a + 1) \in Nat /\ b = (a + 1) + (b - (a + 1))
        BY <2>2
      <4> QED
        BY <4>1
    <3>2. b * n = (a + 1) * n + k * n /\ k * n \in Nat
      BY <3>1
    <3> QED
      BY <2>1, <3>2
  <2>3. ASSUME a # 0 PROVE n <= a * n
    <3>1. PICK k \in Nat : a = k + 1
      BY <2>3, a - 1 \in Nat /\ a = (a - 1) + 1
    <3>2. (k + 1) * n = k * n + n /\ k * n \in Nat
      OBVIOUS
    <3> QED
      BY <3>1, <3>2
  <2> QED
    BY <2>1, <2>2, <2>3
<1> QED
  BY <1>1, <1>2 DEF InChunks, InBlocks

\* The same facts for one count, as the later proofs cite them.
LEMMA Amount ==
  ASSUME NEW a \in Nat
  PROVE  /\ InChunks(a) \in Nat /\ InBlocks(a) \in Nat
         /\ a # 0 => InChunks(a) # 0 /\ InBlocks(a) # 0 /\ CL <= InChunks(a) /\ BL <= InBlocks(a)
         /\ InBlocks(a + 1) = InBlocks(a) + BL /\ InChunks(a + 1) = InChunks(a) + CL
         /\ InChunks(2 * a) = 2 * InChunks(a)
         /\ CL \in Nat \ {0} /\ BL \in Nat \ {0}
<1>1. CL \in Nat \ {0} /\ BL \in Nat \ {0}
  BY Lengths
<1>2. InChunks(a) \in Nat /\ InBlocks(a) \in Nat
  BY Products
<1>3. a # 0 => CL <= InChunks(a) /\ BL <= InBlocks(a)
  BY Products
<1>4. InBlocks(a + 1) = InBlocks(a) + BL /\ InChunks(a + 1) = InChunks(a) + CL
      /\ InChunks(2 * a) = 2 * InChunks(a)
  BY Products, Zenon
<1> QED
  BY <1>1, <1>2, <1>3, <1>4

\* The same facts for two counts.
LEMMA Amounts ==
  ASSUME NEW a \in Nat, NEW b \in Nat
  PROVE  /\ InChunks(a + b) = InChunks(a) + InChunks(b) /\ InBlocks(a + b) = InBlocks(a) + InBlocks(b)
         /\ a < b => InChunks(a) + CL <= InChunks(b) /\ InBlocks(a) + BL <= InBlocks(b)
         /\ a <= b => InChunks(a) <= InChunks(b) /\ InBlocks(a) <= InBlocks(b)
<1>1. CL \in Nat /\ BL \in Nat /\ InChunks(a) \in Nat /\ InBlocks(a) \in Nat
      /\ InChunks(b) \in Nat /\ InBlocks(b) \in Nat
  BY Amount
<1>2. a < b => InChunks(a) + CL <= InChunks(b) /\ InBlocks(a) + BL <= InBlocks(b)
  BY Products, Zenon
<1>3. InChunks(a + b) = InChunks(a) + InChunks(b) /\ InBlocks(a + b) = InBlocks(a) + InBlocks(b)
  BY Products, Zenon
<1> QED
  BY <1>1, <1>2, <1>3

\* The recursion of LeftChunks.
LeftBody(p, f, k) == IF k <= 2 * BLAKE3_CHUNK_LEN THEN 1 ELSE 2 * f[(k + 1) \div 2]
Left == INSTANCE Counting WITH Domain <- NatDom, Measure <- Itself, Body <- LeftBody

\* LeftChunks satisfies its own recursive equation.
LEMMA LeftIs ==
  \A n \in Nat : LeftChunks(n) = IF n <= 2 * CL THEN 1 ELSE 2 * LeftChunks((n + 1) \div 2)
<1>1. Left!Sees(0)
  <2>1. ASSUME NEW x \in Nat, ~ (x <= 2 * BLAKE3_CHUNK_LEN)
        PROVE  (x + 1) \div 2 \in Nat /\ (x + 1) \div 2 < x
    <3>1. BLAKE3_CHUNK_LEN \in Nat \ {0}
      BY Lengths DEF CL
    <3>2. x > 2
      BY <2>1, <3>1
    <3>3. \E h \in Nat : h = (x + 1) \div 2 /\ (x + 1 = 2 * h \/ x + 1 = 2 * h + 1)
      BY Halves
    <3> QED
      BY <3>2, <3>3
  <2> QED
    BY <2>1 DEF Left!Sees, NatDom, Itself, LeftBody
<1>2. Left!Recursive(0) = [x \in NatDom(0) |-> LeftBody(0, Left!Recursive(0), x)]
  BY <1>1, Left!Recursion
<1>3. \A x : LeftChunks(x) = Left!Recursive(0)[x]
  BY DEF LeftChunks, Left!Recursive, NatDom, LeftBody
<1> TAKE n \in Nat
<1>4. Left!Recursive(0)[n] = LeftBody(0, Left!Recursive(0), n)
  BY <1>2 DEF NatDom
<1> QED
  BY <1>3, <1>4 DEF LeftBody, CL

\* The left part of the tree over n bytes is the power of two of chunks that
\* is less than the bytes and not less than half of them.
LEMMA LeftChunksIs ==
  ASSUME NEW p \in Pow2, NEW n \in Nat, InChunks(p) < n, n <= 2 * InChunks(p)
  PROVE  LeftChunks(n) = p
<1> DEFINE Fine(u) == \A k \in Nat : InChunks(u) < k /\ k <= 2 * InChunks(u) => LeftChunks(k) = u
           Bad == {u \in Pow2 : ~ Fine(u)}
<1>1. SUFFICES ASSUME Bad # {} PROVE FALSE
  OBVIOUS
<1>2. PICK u \in Bad : \A v \in Bad : u <= v
  BY <1>1, LeastNumber, PowersOf2
<1>3. PICK k \in Nat : InChunks(u) < k /\ k <= 2 * InChunks(u) /\ LeftChunks(k) # u
  BY <1>2
<1>4. CASE u = 1
  <2>1. InChunks(u) = CL
    BY <1>4, Products
  <2> QED
    BY <1>3, <1>4, <2>1, LeftIs
<1>5. CASE u # 1
  <2>1. PICK v \in Pow2 : u = 2 * v
    BY <1>2, <1>5, PowersOf2
  <2>2. v \in Nat \ {0} /\ v < u
    BY <2>1, PowersOf2
  <2>3. Fine(v)
    BY <1>2, <2>2
  <2>4. PICK w \in Nat : w = InChunks(v) /\ InChunks(u) = 2 * w /\ CL <= w
    <3>1. InChunks(v) \in Nat /\ InChunks(0) + CL <= InChunks(v) /\ InChunks(0) = 0
      BY <2>2, Products
    <3>2. InChunks(u) = 2 * InChunks(v)
      BY <2>1, <2>2, Products
    <3> QED
      BY <3>1, <3>2, Lengths
  <2>5. PICK h \in Nat : h = (k + 1) \div 2 /\ (k + 1 = 2 * h \/ k + 1 = 2 * h + 1)
    BY Halves
  <2>6. w < h /\ h <= 2 * w /\ ~ (k <= 2 * CL)
    BY <1>3, <2>4, <2>5, Lengths
  <2>7. LeftChunks(h) = v
    BY <2>3, <2>4, <2>6
  <2>8. LeftChunks(k) = 2 * LeftChunks(h)
    BY <2>5, <2>6, LeftIs
  <2> QED
    BY <1>3, <2>1, <2>7, <2>8
<1> QED
  BY <1>4, <1>5

\* And there is such a power when there is more than one chunk.
LEMMA LeftChunksFor ==
  ASSUME NEW n \in Nat, n > CL
  PROVE  LET p == LeftChunks(n)
         IN  p \in Pow2 /\ InChunks(p) < n /\ n <= 2 * InChunks(p) /\ left_len(n) = InChunks(p)
<1> DEFINE x == (n - 1) \div CL
           p == round_down_to_power_of_2(x)
<1>1. n - 1 \in Nat /\ CL \in Nat \ {0}
  BY Lengths
<1>2. x \in Nat \ {0} /\ x * CL <= n - 1 /\ n - 1 < x * CL + CL
  BY <1>1, SMT
<1> HIDE DEF x
<1>3. p \in Pow2 /\ p <= x /\ x < 2 * p
  BY <1>2, RoundDown
<1>4. p \in Nat \ {0}
  BY <1>3, PowersOf2
<1>5. left_len(n) = InChunks(p)
  BY DEF left_len, CL, InChunks, x
<1> HIDE DEF p
<1>6. p * CL <= x * CL /\ (x + 1) * CL <= (2 * p) * CL
  BY <1>1, <1>2, <1>3, <1>4
<1>7. (x + 1) * CL = x * CL + CL /\ (2 * p) * CL = 2 * (p * CL)
  BY <1>1, <1>2, <1>4
<1>8. p * CL \in Nat /\ x * CL \in Nat
  BY <1>1, <1>2, <1>4
<1>9. InChunks(p) < n /\ n <= 2 * InChunks(p)
  <2>1. p * CL < n /\ n <= 2 * (p * CL)
    BY <1>1, <1>2, <1>6, <1>7, <1>8
  <2> QED
    BY <2>1, Zenon DEF InChunks
<1>10. LeftChunks(n) = p
  BY <1>3, <1>9, LeftChunksIs
<1> QED
  BY <1>3, <1>5, <1>9, <1>10

----------------------------------------------------------------------------
\* The nodes of the tree that Blake3Tree defines.

\* The recursion of the node of TreeRoot: parts of the input are pairs of a
\* first chunk and a length, and each half is shorter than the whole. The
\* parameter p is the key, the flags and the bytes.
PairDom(p) == Nat \X Nat
Second(x) == x[2]

TreeBody(p, node, part) ==
  LET counter == part[1]
      n == part[2]
      from == counter * BLAKE3_CHUNK_LEN
      half == LeftChunks(n)
      cut == half * BLAKE3_CHUNK_LEN
  IN  IF n <= BLAKE3_CHUNK_LEN
      THEN ChunkNode(p[1], p[2], SubSeq(p[3], from + 1, from + n), counter)
      ELSE <<p[1], <<node[<<counter, cut>>], node[<<counter + half, n - cut>>]>>,
             BLAKE3_BLOCK_LEN, 0, p[2] \cup {"PARENT"}>>

Tree == INSTANCE Counting WITH Domain <- PairDom, Measure <- Second, Body <- TreeBody

\* The node over the n bytes from chunk c on, and the node above two nodes.
Node(p, c, n) == Tree!Recursive(p)[<<c, n>>]
Parent(p, left, right) == <<p[1], <<left, right>>, BL, 0, p[2] \cup {"PARENT"}>>

\* The recursion calls itself on shorter parts only.
LEMMA TreeSees ==
  ASSUME NEW p
  PROVE  Tree!Sees(p)
<1>1. ASSUME NEW f, NEW g, NEW c \in Nat, NEW n \in Nat,
             \A y \in Nat \X Nat : y[2] < n => f[y] = g[y]
      PROVE  TreeBody(p, f, <<c, n>>) = TreeBody(p, g, <<c, n>>)
  <2>1. CASE n <= CL
    BY <2>1 DEF TreeBody, CL
  <2>2. CASE n > CL
    <3> DEFINE half == LeftChunks(n)
               cut == InChunks(half)
    <3>1. half \in Nat \ {0} /\ cut < n
      BY <2>2, LeftChunksFor, PowersOf2
    <3>2. cut \in Nat \ {0}
      BY <3>1, Amount
    <3>3. /\ f[<<c, cut>>] = g[<<c, cut>>]
          /\ f[<<c + half, n - cut>>] = g[<<c + half, n - cut>>]
      <4>1. <<c, cut>> \in Nat \X Nat /\ <<c + half, n - cut>> \in Nat \X Nat
        BY <3>1, <3>2
      <4>2. <<c, cut>>[2] < n /\ <<c + half, n - cut>>[2] < n
        BY <3>1, <3>2
      <4> QED
        BY <1>1, <4>1, <4>2
    <3>4. CL \in Nat /\ ~ (n <= CL)
      BY <2>2, Lengths
    <3> QED
      BY <3>3, <3>4 DEF TreeBody, CL, InChunks
  <2> QED
    BY <2>1, <2>2, Lengths
<1> QED
  <2>1. ASSUME NEW x \in Nat \X Nat, NEW f, NEW g,
               \A y \in Nat \X Nat : y[2] < x[2] => f[y] = g[y]
        PROVE  TreeBody(p, f, x) = TreeBody(p, g, x)
    <3>1. PICK c \in Nat, n \in Nat : x = <<c, n>>
      OBVIOUS
    <3> QED
      BY <1>1, <2>1, <3>1
  <2> QED
    BY <2>1 DEF Tree!Sees, PairDom, Second

\* A node over at most a chunk is the chunk's, and one over more is the parent
\* of the node over the left subtree and the node over the rest.
LEMMA NodeIs ==
  ASSUME NEW p, NEW c \in Nat, NEW n \in Nat
  PROVE  /\ n <= CL => Node(p, c, n) = ChunkNode(p[1], p[2], SubSeq(p[3], InChunks(c) + 1, InChunks(c) + n), c)
         /\ n > CL => Node(p, c, n) = Parent(p, Node(p, c, InChunks(LeftChunks(n))),
                                      Node(p, c + LeftChunks(n), n - InChunks(LeftChunks(n))))
<1>1. Tree!Recursive(p) = [x \in PairDom(p) |-> TreeBody(p, Tree!Recursive(p), x)]
  BY TreeSees, Tree!Recursion
<1>2. Tree!Recursive(p)[<<c, n>>] = TreeBody(p, Tree!Recursive(p), <<c, n>>)
  BY <1>1 DEF PairDom
<1>3. CL \in Nat
  BY Lengths
<1> QED
  BY <1>2, <1>3 DEF TreeBody, Node, Parent, CL, BL, InChunks

\* The root of the tree over a byte string is the node over all of it.
LEMMA TreeRootIs ==
  ASSUME NEW key, NEW flags, NEW bytes
  PROVE  TreeRoot(key, flags, bytes) = Node(<<key, flags, bytes>>, 0, Len(bytes))
BY DEF TreeRoot, Node, Tree!Recursive, PairDom, TreeBody

\* Where a tree is cut.
LEMMA NodeCut ==
  ASSUME NEW p, NEW c \in Nat, NEW n \in Nat, NEW u \in Pow2, InChunks(u) < n, n <= 2 * (InChunks(u))
  PROVE  Node(p, c, n) = Parent(p, Node(p, c, InChunks(u)), Node(p, c + u, n - InChunks(u)))
<1>1. LeftChunks(n) = u
  BY LeftChunksIs
<1>2. n > CL
  <2>1. u \in Nat \ {0} /\ CL \in Nat
    BY PowersOf2, Lengths
  <2>2. CL <= InChunks(u) /\ InChunks(u) \in Nat
    BY <2>1, Products
  <2> QED
    BY <2>1, <2>2
<1> QED
  BY <1>1, <1>2, NodeIs

\* Two complete trees of the same size make one.
LEMMA NodeOfHalves ==
  ASSUME NEW p, NEW c \in Nat, NEW u \in Pow2
  PROVE  Node(p, c, InChunks(2 * u)) = Parent(p, Node(p, c, InChunks(u)), Node(p, c + u, InChunks(u)))
<1>1. u \in Nat \ {0} /\ CL \in Nat \ {0}
  BY PowersOf2, Lengths
<1>2. PICK w \in Nat \ {0} : w = InChunks(u) /\ InChunks(2 * u) = 2 * w
  BY <1>1, Products, SMTT(40)
<1>3. InChunks(u) < 2 * w /\ 2 * w <= 2 * (InChunks(u)) /\ 2 * w - InChunks(u) = w
  BY <1>2
<1> QED
  BY <1>2, <1>3, NodeCut

\* Two byte strings that agree on their first size bytes.
SamePrefix(M, L, size) ==
  \A a \in Nat \ {0}, b \in Nat : b <= size => SubSeq(M, a, b) = SubSeq(L, a, b)
\* Two byte strings whose nodes within their first size bytes are the same.
NodesAgree(key, flags, M, L, size) ==
  \A c, n \in Nat : InChunks(c) + n <= size
    => Node(<<key, flags, M>>, c, n) = Node(<<key, flags, L>>, c, n)

\* A node tells the bytes it is over and nothing of those that follow.
LEMMA NodeOfPrefix ==
  ASSUME NEW key, NEW flags, NEW M, NEW L, NEW size \in Nat,
         SamePrefix(M, L, size)
  PROVE  NodesAgree(key, flags, M, L, size)
<1> DEFINE p == <<key, flags, M>>
           q == <<key, flags, L>>
           Fine(n) == \A c \in Nat : InChunks(c) + n <= size => Node(p, c, n) = Node(q, c, n)
           Bad == {n \in Nat : ~ Fine(n)}
<1>1. SUFFICES ASSUME Bad # {} PROVE FALSE
  BY DEF NodesAgree
<1>2. PICK n \in Bad : \A k \in Bad : n <= k
  BY <1>1, LeastNumber
<1>3. PICK c \in Nat : InChunks(c) + n <= size /\ Node(p, c, n) # Node(q, c, n)
  BY <1>2
<1>4. n \in Nat /\ CL \in Nat \ {0} /\ InChunks(c) \in Nat
  BY <1>2, Lengths, Products
<1>5. p[1] = q[1] /\ p[2] = q[2] /\ p[3] = M /\ q[3] = L
  OBVIOUS
<1> HIDE DEF p, q
<1>6. CASE n <= CL
  <2>1. SubSeq(M, InChunks(c) + 1, InChunks(c) + n) = SubSeq(L, InChunks(c) + 1, InChunks(c) + n)
    <3>1. PICK d \in Nat : d = InChunks(c)
      BY <1>4
    <3>2. d + 1 \in Nat \ {0} /\ d + n \in Nat /\ d + n <= size
      BY <1>3, <1>4, <3>1
    <3>3. SubSeq(M, d + 1, d + n) = SubSeq(L, d + 1, d + n)
      BY <3>2 DEF SamePrefix
    <3> QED
      BY <3>1, <3>3, Zenon
  <2>2. /\ Node(p, c, n) = ChunkNode(p[1], p[2], SubSeq(p[3], InChunks(c) + 1, InChunks(c) + n), c)
        /\ Node(q, c, n) = ChunkNode(q[1], q[2], SubSeq(q[3], InChunks(c) + 1, InChunks(c) + n), c)
    BY <1>4, <1>6, NodeIs, Zenon
  <2> QED
    BY <1>3, <1>5, <2>1, <2>2, Zenon
<1>7. CASE n > CL
  <2> DEFINE half == LeftChunks(n)
             cut == InChunks(half)
  <2>1. half \in Nat \ {0} /\ cut < n
    BY <1>4, <1>7, LeftChunksFor, PowersOf2
  <2>2. cut \in Nat \ {0} /\ c + half \in Nat /\ n - cut \in Nat /\ InChunks(c + half) = InChunks(c) + cut
    <3>1. cut \in Nat \ {0}
      BY <2>1, Amount
    <3>2. InChunks(c + half) = InChunks(c) + cut
      BY <2>1, Amounts
    <3> QED
      BY <1>4, <2>1, <3>1, <3>2
  <2> HIDE DEF cut
  <2>3. Fine(cut) /\ Fine(n - cut)
    <3>1. ASSUME NEW k \in Nat, k < n PROVE Fine(k)
      BY <1>2, <1>4, <3>1
    <3>2. n - cut < n
      BY <1>4, <2>2
    <3> QED
      BY <2>1, <2>2, <3>1, <3>2
  <2>4. InChunks(c) + cut <= size /\ (InChunks(c) + cut) + (n - cut) <= size
    BY <1>3, <1>4, <2>1, <2>2
  <2>5. Node(p, c, cut) = Node(q, c, cut)
    BY <2>3, <2>4
  <2>6. Node(p, c + half, n - cut) = Node(q, c + half, n - cut)
    BY <2>2, <2>3, <2>4
  <2>7. /\ Node(p, c, n) = Parent(p, Node(p, c, cut), Node(p, c + half, n - cut))
        /\ Node(q, c, n) = Parent(q, Node(q, c, cut), Node(q, c + half, n - cut))
    BY <1>4, <1>7, NodeIs, ZenonT(60) DEF cut
  <2>8. \A x, y : Parent(p, x, y) = Parent(q, x, y)
    BY <1>5 DEF Parent
  <2> QED
    BY <1>3, <2>5, <2>6, <2>7, <2>8, Zenon
<1> QED
  BY <1>4, <1>6, <1>7

----------------------------------------------------------------------------
\* The chain of compressions inside a chunk.

\* The flag of the first block of a chunk.
Start(b) == IF b = 0 THEN {"CHUNK_START"} ELSE {}

\* Block b of chunk c of which r bytes are there.
Block(p, c, b, r) ==
  [i \in 1 .. BL |-> IF InBlocks(b) + i <= r THEN p[3][InChunks(c) + (InBlocks(b) + i)] ELSE Zero]

\* The chaining value after k whole blocks, here of a chunk q[2] of a tree q[1].
ChainBody(q, f, k) ==
  IF k = 0 THEN q[1][1]
  ELSE <<f[k - 1], Block(q[1], q[2], k - 1, InBlocks(k - 1) + BL), BL, q[2], q[1][2] \cup Start(k - 1)>>
\* The chaining value of a chunk after its first k blocks.
Chains == INSTANCE Counting WITH Domain <- NatDom, Measure <- Itself, Body <- ChainBody
Chain(p, c, k) == Chains!Recursive(<<p, c>>)[k]

\* Before its first block a chunk's chaining value is the key; each block is
\* compressed into it.
LEMMA ChainIs ==
  ASSUME NEW p, NEW c, NEW k \in Nat
  PROVE  /\ Chain(p, c, 0) = p[1]
         /\ Chain(p, c, k + 1) = <<Chain(p, c, k), Block(p, c, k, InBlocks(k) + BL), BL, c, p[2] \cup Start(k)>>
<1> DEFINE q == <<p, c>>
<1>1. q[1] = p /\ q[2] = c
  OBVIOUS
<1> HIDE DEF q
<1>2. Chains!Sees(q)
  <2>1. ASSUME NEW x \in Nat, x # 0 PROVE x - 1 \in Nat /\ x - 1 < x
    BY <2>1
  <2> QED
    BY <2>1 DEF Chains!Sees, NatDom, Itself, ChainBody
<1>3. Chains!Recursive(q) = [x \in NatDom(q) |-> ChainBody(q, Chains!Recursive(q), x)]
  BY <1>2, Chains!Recursion
<1>4. \A x \in Nat : Chains!Recursive(q)[x] = ChainBody(q, Chains!Recursive(q), x)
  BY <1>3 DEF NatDom
<1>5. Chain(p, c, 0) = p[1]
  BY <1>1, <1>4 DEF Chain, ChainBody, q
<1>6. k + 1 # 0 /\ k + 1 \in Nat /\ (k + 1) - 1 = k
  OBVIOUS
<1>7. Chains!Recursive(q)[k + 1]
        = <<Chains!Recursive(q)[k], Block(p, c, k, InBlocks(k) + BL), BL, c, p[2] \cup Start(k)>>
  <2>1. Chains!Recursive(q)[k + 1] = ChainBody(q, Chains!Recursive(q), k + 1)
    BY <1>4, <1>6, Zenon
  <2>2. ChainBody(q, Chains!Recursive(q), k + 1)
          = <<Chains!Recursive(q)[(k + 1) - 1], Block(q[1], q[2], (k + 1) - 1, InBlocks((k + 1) - 1) + BL), BL,
              q[2], q[1][2] \cup Start((k + 1) - 1)>>
    BY <1>6, Zenon DEF ChainBody
  <2> QED
    BY <1>1, <1>6, <2>1, <2>2, Zenon
<1> QED
  BY <1>5, <1>7 DEF Chain, q

\* How many whole blocks are hashed of r bytes of a chunk: the last stays.
WholeBlocks(r) == IF r = 0 THEN 0 ELSE (r - 1) \div BL

\* Of r bytes all but the last 1 to 64 are in whole blocks, and that tells the
\* number of them.
LEMMA WholeBlocksIs ==
  ASSUME NEW r \in Nat
  PROVE  /\ WholeBlocks(r) \in Nat /\ InBlocks(WholeBlocks(r)) \in Nat
         /\ r - InBlocks(WholeBlocks(r)) \in 0 .. BL /\ (r # 0 => r - InBlocks(WholeBlocks(r)) # 0)
         /\ \A b \in Nat : InBlocks(b) < r /\ r <= InBlocks(b) + BL => WholeBlocks(r) = b
<1>1. BL \in Nat \ {0}
  BY Lengths
<1>2. CASE r = 0
  <2>1. WholeBlocks(r) = 0
    BY <1>2 DEF WholeBlocks
  <2>2. InBlocks(0) = 0 /\ \A b \in Nat : ~ (InBlocks(b) < 0)
    BY Products
  <2>3. InBlocks(WholeBlocks(r)) = 0
    BY <2>1, <2>2, Zenon
  <2>4. \A b \in Nat : InBlocks(b) < r /\ r <= InBlocks(b) + BL => WholeBlocks(r) = b
    <3> TAKE b \in Nat
    <3>1. ~ (InBlocks(b) < 0)
      BY <2>2
    <3> QED
      BY <1>2, <3>1
  <2>5. r - InBlocks(WholeBlocks(r)) \in 0 .. BL
    BY <1>1, <1>2, <2>3
  <2> QED
    BY <1>2, <2>1, <2>3, <2>4, <2>5
<1>3. CASE r # 0
  <2>1. PICK s \in Nat : r = s + 1
    <3>1. r - 1 \in Nat /\ r = (r - 1) + 1
      BY <1>3
    <3> QED
      BY <3>1
  <2>2. PICK w \in Nat : w = s \div BL /\ InBlocks(w) <= s /\ s < InBlocks(w) + BL /\ InBlocks(w) \in Nat
    BY <1>1, SMT DEF InBlocks
  <2>3. WholeBlocks(r) = w
    <3>1. r - 1 = s
      BY <2>1
    <3> QED
      BY <1>3, <2>2, <3>1, Zenon DEF WholeBlocks
  <2>4. \A b \in Nat : InBlocks(b) < r /\ r <= InBlocks(b) + BL => w = b
    <3> TAKE b \in Nat
    <3> HAVE InBlocks(b) < r /\ r <= InBlocks(b) + BL
    <3>1. CASE b < w
      <4>1. InBlocks(b) + BL <= InBlocks(w)
        BY <2>2, <3>1, Amounts
      <4>2. InBlocks(b) \in Nat
        BY Amount
      <4> QED
        BY <1>1, <2>1, <2>2, <4>1, <4>2
    <3>2. CASE w < b
      <4>1. InBlocks(w) + BL <= InBlocks(b)
        BY <2>2, <3>2, Amounts
      <4>2. InBlocks(b) \in Nat
        BY Amount
      <4> QED
        BY <1>1, <2>1, <2>2, <4>1, <4>2
    <3> QED
      BY <2>2, <3>1, <3>2
  <2>5. r - InBlocks(w) \in 0 .. BL /\ r - InBlocks(w) # 0
    BY <1>1, <2>1, <2>2
  <2> QED
    BY <2>2, <2>3, <2>4, <2>5
<1> QED
  BY <1>2, <1>3

\* The last compression of a chunk of r bytes: the unfinished (or last whole)
\* block, with the flag of the end.
Tip(p, c, r) ==
  LET b == WholeBlocks(r)
  IN  <<Chain(p, c, b), Block(p, c, b, r), r - InBlocks(b), c, (p[2] \cup Start(b)) \cup {"CHUNK_END"}>>

\* The nodes of the blocks of a chunk, as ChunkNode makes them.
Full(bytes) == IF bytes = <<>> THEN 0 ELSE (Len(bytes) - 1) \div BLAKE3_BLOCK_LEN
\* The recursion of ChunkNode over the blocks of a chunk; its parameter q is
\* the key, the flags, the bytes of the chunk and its number.
BlockDom(q) == 0 .. Full(q[3])
BlockBody(q, node, b) ==
  LET key == q[1]
      flags == q[2]
      bytes == q[3]
      counter == q[4]
      full == Full(bytes)
  IN  <<IF b = 0 THEN key ELSE node[b - 1],
        [i \in 1 .. BLAKE3_BLOCK_LEN |->
           LET at == b * BLAKE3_BLOCK_LEN + i
           IN  IF at <= Len(bytes) THEN bytes[at] ELSE Zero],
        IF b = full THEN Len(bytes) - full * BLAKE3_BLOCK_LEN ELSE BLAKE3_BLOCK_LEN,
        counter,
        flags \cup {f \in {"CHUNK_START"} : b = 0} \cup {f \in {"CHUNK_END"} : b = full}>>
Nodes == INSTANCE Counting WITH Domain <- BlockDom, Measure <- Itself, Body <- BlockBody

\* The compression of the b-th block of a chunk, given the chaining value
\* before it.
BlockNode(flags, bytes, counter, b, before) ==
  <<before,
    [i \in 1 .. BL |-> IF InBlocks(b) + i <= Len(bytes) THEN bytes[InBlocks(b) + i] ELSE Zero],
    IF b = Full(bytes) THEN Len(bytes) - InBlocks(Full(bytes)) ELSE BL,
    counter,
    (flags \cup Start(b)) \cup (IF b = Full(bytes) THEN {"CHUNK_END"} ELSE {})>>

\* ChunkNode satisfies the equation of its recursion.
LEMMA ChunkNodeIs ==
  ASSUME NEW key, NEW flags, NEW bytes, NEW counter, Full(bytes) \in Nat,
         NEW node, node = Nodes!Recursive(<<key, flags, bytes, counter>>)
  PROVE  /\ ChunkNode(key, flags, bytes, counter) = node[Full(bytes)]
         /\ \A b \in 0 .. Full(bytes) :
              node[b] = BlockNode(flags, bytes, counter, b, IF b = 0 THEN key ELSE node[b - 1])
<1> DEFINE q == <<key, flags, bytes, counter>>
           full == Full(bytes)
<1>1. q[1] = key /\ q[2] = flags /\ q[3] = bytes /\ q[4] = counter
  OBVIOUS
<1>2. ChunkNode(key, flags, bytes, counter) = node[full]
  BY DEF ChunkNode, Nodes!Recursive, BlockDom, BlockBody, Full
<1> HIDE DEF q
<1>3. Nodes!Sees(q)
  <2>1. ASSUME NEW f, NEW g, NEW b \in 0 .. full, \A y \in 0 .. full : y < b => f[y] = g[y]
        PROVE  BlockBody(q, f, b) = BlockBody(q, g, b)
    <3>1. b # 0 => f[b - 1] = g[b - 1]
      BY <2>1
    <3> QED
      BY <3>1, Zenon DEF BlockBody
  <2> QED
    BY <1>1, <2>1 DEF Nodes!Sees, BlockDom, Itself
<1>4. node = [x \in BlockDom(q) |-> BlockBody(q, node, x)]
  <2>1. Nodes!Recursive(q) = [x \in BlockDom(q) |-> BlockBody(q, Nodes!Recursive(q), x)]
    BY <1>3, Nodes!Recursion
  <2> QED
    BY <2>1, Zenon DEF q
<1>5. ASSUME NEW b \in 0 .. full
      PROVE  node[b] = BlockBody(q, node, b)
  BY <1>1, <1>4 DEF BlockDom
<1>6. ASSUME NEW b \in 0 .. full
      PROVE  BlockBody(q, node, b)
               = BlockNode(flags, bytes, counter, b, IF b = 0 THEN key ELSE node[b - 1])
  <2>1. /\ {f \in {"CHUNK_START"} : b = 0} = Start(b)
        /\ {f \in {"CHUNK_END"} : b = full} = IF b = full THEN {"CHUNK_END"} ELSE {}
    BY DEF Start
  <2> QED
    BY <1>1, <2>1, Zenon DEF BlockBody, BlockNode, BL, InBlocks
<1> QED
  BY <1>2, <1>5, <1>6, Zenon

----------------------------------------------------------------------------
\* Cutting sequences.

\* n elements of a sequence, those after the first `from'.
Cut(s, from, n) == [i \in 1 .. n |-> s[from + i]]
\* The n elements of a sequence behind the first from, as the code's pointer
\* and length name them.
Stretch(s, from, n) == SubSeq(s, from + 1, from + n)

\* Within the sequence, SubSeq gives the n elements from there on.
LEMMA CutIs ==
  ASSUME NEW S, NEW s \in Seq(S), NEW from \in Nat, NEW n \in Nat, from + n <= Len(s)
  PROVE  /\ Stretch(s, from, n) = Cut(s, from, n)
         /\ Cut(s, from, n) \in Seq(S) /\ Len(Cut(s, from, n)) = n
         /\ Cut(s, from, n) = <<>> <=> n = 0
         /\ \A i \in 1 .. n : Cut(s, from, n)[i] = s[from + i]
<1>1. /\ SubSeq(s, from + 1, from + n) \in Seq(S)
      /\ Len(SubSeq(s, from + 1, from + n)) = n
      /\ \A i \in 1 .. n : SubSeq(s, from + 1, from + n)[i] = s[from + i]
  BY SMT
<1>2. SubSeq(s, from + 1, from + n) = [i \in 1 .. n |-> s[from + i]]
  BY <1>1, SMT
<1>3. SubSeq(s, from + 1, from + n) = Cut(s, from, n) /\ Stretch(s, from, n) = Cut(s, from, n)
  BY <1>2 DEF Cut, Stretch
<1>4. Cut(s, from, n) \in Seq(S) /\ Len(Cut(s, from, n)) = n
  BY <1>1, <1>3
<1>5. Cut(s, from, n) = <<>> <=> n = 0
  BY <1>4
<1> QED
  BY <1>3, <1>4, <1>5 DEF Cut

\* A part of a part is a part of the whole, and so is what is left when its
\* beginning is taken away.
LEMMA CutOfCut ==
  ASSUME NEW S, NEW s \in Seq(S), NEW from \in Nat, NEW n \in Nat,
         NEW k \in Nat, NEW l \in Nat, from + n <= Len(s), k + l <= n
  PROVE  /\ Stretch(Cut(s, from, n), k, l) = Cut(s, from + k, l)
         /\ Drop(Cut(s, from, n), k) = Cut(s, from + k, n - k)
<1> DEFINE t == Cut(s, from, n)
<1>1. t \in Seq(S) /\ Len(t) = n /\ \A i \in 1 .. n : t[i] = s[from + i]
  BY CutIs
<1> HIDE DEF t
<1>2. ASSUME NEW j \in Nat, k + j <= n
      PROVE  Stretch(t, k, j) = Cut(s, from + k, j)
  <2>1. Stretch(t, k, j) = Cut(t, k, j)
    BY <1>1, <1>2, CutIs
  <2>2. \A i \in 1 .. j : t[k + i] = s[(from + k) + i]
    <3> TAKE i \in 1 .. j
    <3>1. k + i \in 1 .. n /\ from + (k + i) = (from + k) + i
      BY <1>2
    <3> QED
      BY <1>1, <3>1
  <2> QED
    BY <2>1, <2>2 DEF Cut
<1>3. Stretch(t, k, l) = Cut(s, from + k, l)
  BY <1>2
<1>4. Drop(t, k) = Cut(s, from + k, n - k)
  <2>1. n - k \in Nat /\ k + (n - k) = n
    OBVIOUS
  <2>2. Stretch(t, k, n - k) = Cut(s, from + k, n - k)
    BY <1>2, <2>1
  <2> QED
    BY <1>1, <2>1, <2>2 DEF Drop, Stretch
<1> QED
  BY <1>3, <1>4 DEF t

\* The node of a chunk is its tip.
LEMMA TipIs ==
  ASSUME NEW p, NEW S, NEW M \in Seq(S), p[3] = M, NEW c \in Nat, NEW r \in Nat, InChunks(c) + r <= Len(M)
  PROVE  ChunkNode(p[1], p[2], Cut(M, InChunks(c), r), c) = Tip(p, c, r)
<1> DEFINE bytes == Cut(M, InChunks(c), r)
           full == WholeBlocks(r)
           node == Nodes!Recursive(<<p[1], p[2], bytes, c>>)
<1>0. InChunks(c) \in Nat /\ BL \in Nat \ {0}
  BY Amount
<1>1. /\ bytes \in Seq(S) /\ Len(bytes) = r /\ (bytes = <<>> <=> r = 0)
      /\ \A i \in 1 .. r : bytes[i] = M[InChunks(c) + i]
  BY <1>0, CutIs, SMTT(40)
<1> HIDE DEF bytes
<1>2. Full(bytes) = full
  BY <1>1 DEF full, Full, WholeBlocks, BL
<1>3. full \in Nat /\ InBlocks(full) \in Nat /\ r - InBlocks(full) \in 0 .. BL
  BY WholeBlocksIs
<1> HIDE DEF node, full
<1>4. /\ ChunkNode(p[1], p[2], bytes, c) = node[full]
      /\ \A b \in 0 .. full :
           node[b] = BlockNode(p[2], bytes, c, b, IF b = 0 THEN p[1] ELSE node[b - 1])
  BY <1>2, <1>3, ChunkNodeIs DEF node
<1>5. ASSUME NEW b \in 0 .. full
      PROVE  [i \in 1 .. BL |-> IF InBlocks(b) + i <= Len(bytes) THEN bytes[InBlocks(b) + i] ELSE Zero]
               = Block(p, c, b, r)
  <2>1. b \in Nat /\ InBlocks(b) \in Nat
    <3>1. b \in Nat
      BY <1>3
    <3> QED
      BY <3>1, Amount
  <2>2. ASSUME NEW i \in 1 .. BL, InBlocks(b) + i <= r
        PROVE  bytes[InBlocks(b) + i] = M[InChunks(c) + (InBlocks(b) + i)]
    <3>1. InBlocks(b) + i \in 1 .. r
      BY <1>0, <2>1, <2>2
    <3> QED
      BY <1>1, <3>1
  <2> QED
    BY <1>1, <2>2, Zenon DEF Block
<1>51. ASSUME NEW b \in 0 .. full, NEW before
       PROVE  BlockNode(p[2], bytes, c, b, before)
                = <<before, Block(p, c, b, r), IF b = full THEN r - InBlocks(full) ELSE BL, c,
                    (p[2] \cup Start(b)) \cup (IF b = full THEN {"CHUNK_END"} ELSE {})>>
  BY <1>1, <1>2, <1>5, Zenon DEF BlockNode
<1>6. ASSUME NEW b \in 0 .. full, b # full
      PROVE  Block(p, c, b, r) = Block(p, c, b, InBlocks(b) + BL)
  <2>1. b \in Nat /\ InBlocks(b) \in Nat /\ InBlocks(b) + BL <= InBlocks(full)
    <3>1. b \in Nat /\ b + 1 <= full
      BY <1>3, <1>6
    <3>2. b < full => InBlocks(b) + BL <= InBlocks(full)
      BY <1>3, <3>1, Amounts
    <3> QED
      BY <1>3, <3>1, <3>2, Amount
  <2>2. \A i \in 1 .. BL : InBlocks(b) + i <= r /\ InBlocks(b) + i <= InBlocks(b) + BL
    BY <1>0, <1>3, <2>1
  <2> QED
    BY <2>2, Zenon DEF Block
<1>7. ASSUME NEW b \in 0 .. full, b # 0
      PROVE  node[b - 1] = Chain(p, c, b)
  <2> DEFINE Bad == {a \in Nat : a < full /\ node[a] # Chain(p, c, a + 1)}
  <2>1. Bad = {}
    <3>1. SUFFICES ASSUME Bad # {} PROVE FALSE
      OBVIOUS
    <3>2. PICK a \in Bad : \A d \in Bad : a <= d
      BY <3>1, LeastNumber
    <3>3. a \in 0 .. full /\ a # full /\ a \in Nat
      BY <1>3, <3>2
    <3>4. node[a] = <<IF a = 0 THEN p[1] ELSE node[a - 1], Block(p, c, a, InBlocks(a) + BL), BL, c,
                      (p[2] \cup Start(a)) \cup {}>>
      BY <1>4, <1>51, <1>6, <3>3, Zenon
    <3>5. (IF a = 0 THEN p[1] ELSE node[a - 1]) = Chain(p, c, a)
      <4>1. CASE a = 0
        BY <4>1, ChainIs
      <4>2. CASE a # 0
        <5>1. a - 1 \in Nat /\ a - 1 < full /\ a - 1 < a /\ (a - 1) + 1 = a
          BY <1>3, <3>3, <4>2
        <5>2. ~ (a <= a - 1)
          BY <3>3
        <5>3. node[a - 1] = Chain(p, c, (a - 1) + 1)
          BY <3>2, <5>1, <5>2
        <5> QED
          BY <4>2, <5>1, <5>3
      <4> QED
        BY <4>1, <4>2
    <3>6. Chain(p, c, a + 1) = <<Chain(p, c, a), Block(p, c, a, InBlocks(a) + BL), BL, c, p[2] \cup Start(a)>>
      BY <3>3, ChainIs
    <3>7. (p[2] \cup Start(a)) \cup {} = p[2] \cup Start(a)
      OBVIOUS
    <3>8. node[a] = Chain(p, c, a + 1)
      BY <3>4, <3>5, <3>6, <3>7, Zenon
    <3> QED
      BY <3>2, <3>8
  <2>2. b - 1 \in Nat /\ b - 1 < full /\ (b - 1) + 1 = b
    BY <1>3, <1>7
  <2> QED
    BY <2>1, <2>2
<1>8. full \in 0 .. full
  BY <1>3
<1>9. node[full] = <<Chain(p, c, full), Block(p, c, full, r), r - InBlocks(full), c,
                     (p[2] \cup Start(full)) \cup {"CHUNK_END"}>>
  <2>1. (IF full = 0 THEN p[1] ELSE node[full - 1]) = Chain(p, c, full)
    BY <1>3, <1>7, <1>8, ChainIs
  <2> QED
    BY <1>4, <1>51, <1>8, <2>1, Zenon
<1> QED
  BY <1>4, <1>9, Zenon DEF Tip, bytes, full

----------------------------------------------------------------------------
\* The records of the model: chunk states and hashers.

\* A chunk state, and what assignments make of one.
ChunkFields == {"cv", "chunk_counter", "buf", "buf_len", "blocks_compressed", "flags"}
\* A chunk state by its fields.
Chunk(cv, counter, buf, buf_len, blocks, flags) ==
  [cv |-> cv, chunk_counter |-> counter, buf |-> buf, buf_len |-> buf_len,
   blocks_compressed |-> blocks, flags |-> flags]

\* The fields of a chunk state.
LEMMA ChunkIs ==
  ASSUME NEW v, NEW c, NEW u, NEW l, NEW b, NEW f
  PROVE  /\ Chunk(v, c, u, l, b, f)
              = [x \in ChunkFields |->
                   IF x = "cv" THEN v ELSE IF x = "chunk_counter" THEN c ELSE IF x = "buf" THEN u
                   ELSE IF x = "buf_len" THEN l ELSE IF x = "blocks_compressed" THEN b ELSE f]
         /\ Chunk(v, c, u, l, b, f).cv = v /\ Chunk(v, c, u, l, b, f).chunk_counter = c
         /\ Chunk(v, c, u, l, b, f).buf = u /\ Chunk(v, c, u, l, b, f).buf_len = l
         /\ Chunk(v, c, u, l, b, f).blocks_compressed = b /\ Chunk(v, c, u, l, b, f).flags = f
BY DEF Chunk, ChunkFields

\* The assignments to fields of a chunk state that the code makes, each named.
WithBuf(self, u, l) == [self EXCEPT !.buf = u, !.buf_len = l]
WithBlock(self, v, b) == [self EXCEPT !.cv = v, !.blocks_compressed = b]
WithCounter(self, c) == [self EXCEPT !.chunk_counter = c]
Restarted(self, v, c, b, u, l) ==
  [self EXCEPT !.cv = v, !.chunk_counter = c, !.blocks_compressed = b, !.buf = u, !.buf_len = l]

\* What each of these assignments makes of a chunk state.
LEMMA ChunkChanged ==
  ASSUME NEW v, NEW c, NEW u, NEW l, NEW b, NEW f
  PROVE  /\ \A u2, l2 : WithBuf(Chunk(v, c, u, l, b, f), u2, l2) = Chunk(v, c, u2, l2, b, f)
         /\ \A v2, b2 : WithBlock(Chunk(v, c, u, l, b, f), v2, b2) = Chunk(v2, c, u, l, b2, f)
         /\ \A c2 : WithCounter(Chunk(v, c, u, l, b, f), c2) = Chunk(v, c2, u, l, b, f)
         /\ \A v2, c2, b2, u2, l2 :
              Restarted(Chunk(v, c, u, l, b, f), v2, c2, b2, u2, l2) = Chunk(v2, c2, u2, l2, b2, f)
<1> DEFINE R(a1, a2, a3, a4, a5, a6) ==
             [x \in ChunkFields |->
                   IF x = "cv" THEN a1 ELSE IF x = "chunk_counter" THEN a2 ELSE IF x = "buf" THEN a3
                   ELSE IF x = "buf_len" THEN a4 ELSE IF x = "blocks_compressed" THEN a5 ELSE a6]
<1>1. \A a1, a2, a3, a4, a5, a6 : Chunk(a1, a2, a3, a4, a5, a6) = R(a1, a2, a3, a4, a5, a6)
  BY ChunkIs
<1>2. ASSUME NEW v2, NEW c2, NEW u2, NEW l2, NEW b2
      PROVE
      /\ WithBuf(R(v, c, u, l, b, f), u2, l2) = R(v, c, u2, l2, b, f)
      /\ WithBlock(R(v, c, u, l, b, f), v2, b2) = R(v2, c, u, l, b2, f)
      /\ WithCounter(R(v, c, u, l, b, f), c2) = R(v, c2, u, l, b, f)
      /\ Restarted(R(v, c, u, l, b, f), v2, c2, b2, u2, l2) = R(v2, c2, u2, l2, b2, f)
  BY DEF ChunkFields, WithBuf, WithBlock, WithCounter, Restarted
<1> HIDE DEF R
<1> QED
  BY <1>1, <1>2

\* The same for a hasher.
HasherFields == {"key", "chunk", "cv_stack"}
\* A hasher by its fields.
Hasher(key, chunk, stack) == [key |-> key, chunk |-> chunk, cv_stack |-> stack]

\* The fields of a hasher.
LEMMA HasherIs ==
  ASSUME NEW k, NEW c, NEW s
  PROVE  /\ Hasher(k, c, s) = [x \in HasherFields |-> IF x = "key" THEN k ELSE IF x = "chunk" THEN c ELSE s]
         /\ Hasher(k, c, s).key = k /\ Hasher(k, c, s).chunk = c /\ Hasher(k, c, s).cv_stack = s
BY DEF Hasher, HasherFields

\* The assignments to fields of a hasher that the code makes, each named.
WithChunk(self, c) == [self EXCEPT !.chunk = c]
WithStack(self, s) == [self EXCEPT !.cv_stack = s]
WithChunkAndStack(self, c, s) == [self EXCEPT !.chunk = c, !.cv_stack = s]
WithChunkCounter(self, n) == [self EXCEPT !.chunk.chunk_counter = n]

\* What each of these assignments makes of a hasher.
LEMMA HasherChanged ==
  ASSUME NEW k, NEW c, NEW s
  PROVE  /\ \A c2 : WithChunk(Hasher(k, c, s), c2) = Hasher(k, c2, s)
         /\ \A s2 : WithStack(Hasher(k, c, s), s2) = Hasher(k, c, s2)
         /\ \A c2, s2 : WithChunkAndStack(Hasher(k, c, s), c2, s2) = Hasher(k, c2, s2)
         /\ \A n : WithChunkCounter(Hasher(k, c, s), n) = Hasher(k, WithCounter(c, n), s)
<1> DEFINE R(a1, a2, a3) == [x \in HasherFields |-> IF x = "key" THEN a1 ELSE IF x = "chunk" THEN a2 ELSE a3]
<1>1. \A a1, a2, a3 : Hasher(a1, a2, a3) = R(a1, a2, a3)
  BY HasherIs
<1>2. ASSUME NEW c2, NEW s2, NEW n
      PROVE
      /\ WithChunk(R(k, c, s), c2) = R(k, c2, s)
      /\ WithStack(R(k, c, s), s2) = R(k, c, s2)
      /\ WithChunkAndStack(R(k, c, s), c2, s2) = R(k, c2, s2)
      /\ WithChunkCounter(R(k, c, s), n) = R(k, WithCounter(c, n), s)
  BY DEF HasherFields, WithChunk, WithStack, WithChunkAndStack, WithChunkCounter, WithCounter
<1> HIDE DEF R
<1> QED
  BY <1>1, <1>2

----------------------------------------------------------------------------
\* The chunk state at a point of the input.

\* A chunk state after r bytes of chunk c, b blocks of which are hashed.
Held(p, c, b, r) ==
  Chunk(Chain(p, c, b), c, Block(p, c, b, r), r - InBlocks(b), b, p[2])

\* The chunk state after r bytes of chunk c: the last block is held back, even
\* when it is full.
ChunkAt(p, c, r) == Held(p, c, WholeBlocks(r), r)

\* A block of which nothing has come is all zeros.
LEMMA EmptyBlock ==
  ASSUME NEW p, NEW c, NEW b \in Nat
  PROVE  Block(p, c, b, InBlocks(b)) = ZeroBlock
<1>1. \A i \in 1 .. BL : ~ (InBlocks(b) + i <= InBlocks(b))
  <2>1. PICK w \in Nat : w = InBlocks(b)
    BY Amount
  <2> QED
    BY <2>1, Lengths
<1> QED
  BY <1>1, Zenon DEF Block, ZeroBlock, BL

\* A new chunk state and one that is reset have taken nothing of the chunk.
LEMMA NewChunk ==
  ASSUME NEW p, NEW c
  PROVE  /\ chunk_state_init(p[1], p[2]) = ChunkAt(p, 0, 0)
         /\ [chunk_state_init(p[1], p[2]) EXCEPT !.chunk_counter = c] = ChunkAt(p, c, 0)
         /\ \A d, r : chunk_state_reset(ChunkAt(p, d, r), p[1], c) = ChunkAt(p, c, 0)
<1>1. WholeBlocks(0) = 0 /\ InBlocks(0) = 0 /\ 0 - 0 = 0
  BY Products DEF WholeBlocks
<1>2. \A d : Chain(p, d, 0) = p[1]
  BY ChainIs
<1>3. \A d : Block(p, d, 0, 0) = ZeroBlock
  BY <1>1, EmptyBlock, Zenon
<1>4. \A d : ChunkAt(p, d, 0) = Chunk(p[1], d, ZeroBlock, 0, 0, p[2])
  BY <1>1, <1>2, <1>3, Zenon DEF ChunkAt, Held
<1>5. chunk_state_init(p[1], p[2]) = Chunk(p[1], 0, ZeroBlock, 0, 0, p[2])
  BY Zenon DEF chunk_state_init, Chunk
<1>6. [chunk_state_init(p[1], p[2]) EXCEPT !.chunk_counter = c] = Chunk(p[1], c, ZeroBlock, 0, 0, p[2])
  <2>1. WithCounter(Chunk(p[1], 0, ZeroBlock, 0, 0, p[2]), c) = Chunk(p[1], c, ZeroBlock, 0, 0, p[2])
    BY ChunkChanged
  <2> QED
    BY <1>5, <2>1, Zenon DEF WithCounter
<1>7. ASSUME NEW d, NEW r
      PROVE  chunk_state_reset(ChunkAt(p, d, r), p[1], c) = Chunk(p[1], c, ZeroBlock, 0, 0, p[2])
  <2> DEFINE b == WholeBlocks(r)
             self == Chunk(Chain(p, d, b), d, Block(p, d, b, r), r - InBlocks(b), b, p[2])
  <2>1. ChunkAt(p, d, r) = self
    BY Zenon DEF ChunkAt, Held
  <2>2. Restarted(self, p[1], c, 0, ZeroBlock, 0) = Chunk(p[1], c, ZeroBlock, 0, 0, p[2])
    BY ChunkChanged
  <2>3. \A x : chunk_state_reset(x, p[1], c) = Restarted(x, p[1], c, 0, ZeroBlock, 0)
    BY Zenon DEF chunk_state_reset, Restarted
  <2> HIDE DEF self
  <2> QED
    BY <2>1, <2>2, <2>3, Zenon
<1> QED
  BY <1>4, <1>5, <1>6, <1>7, Zenon

\* The length, the number and the flags of a chunk state at a point of the
\* input.
LEMMA ChunkLen ==
  ASSUME NEW p, NEW c, NEW r \in Nat
  PROVE  /\ chunk_state_len(ChunkAt(p, c, r)) = r
         /\ ChunkAt(p, c, r).buf_len \in 0 .. BL
         /\ ChunkAt(p, c, r).chunk_counter = c /\ ChunkAt(p, c, r).flags = p[2]
         /\ ChunkAt(p, c, r).buf_len = r - InBlocks(WholeBlocks(r))
<1> DEFINE b == WholeBlocks(r)
           self == Chunk(Chain(p, c, b), c, Block(p, c, b, r), r - InBlocks(b), b, p[2])
<1>1. b \in Nat /\ InBlocks(b) \in Nat /\ r - InBlocks(b) \in 0 .. BL
  BY WholeBlocksIs
<1>2. /\ self.buf_len = r - InBlocks(b) /\ self.blocks_compressed = b
      /\ self.chunk_counter = c /\ self.flags = p[2]
  BY ChunkIs
<1>3. ChunkAt(p, c, r) = self
  BY Zenon DEF ChunkAt, Held
<1> HIDE DEF self
<1>4. PICK w \in Nat : w = InBlocks(b) /\ BL * b = w
  <2>1. b * BL = BL * b
    BY <1>1, Lengths
  <2> QED
    BY <1>1, <2>1 DEF InBlocks
<1>5. chunk_state_len(self) = w + (r - w)
  BY <1>2, <1>4, Zenon DEF chunk_state_len, BL
<1> HIDE DEF b
<1>6. w + (r - w) = r
  OBVIOUS
<1>7. chunk_state_len(self) = r
  BY <1>5, <1>6, Zenon
<1>8. /\ self.buf_len \in 0 .. BL
      /\ self.chunk_counter = c /\ self.flags = p[2]
      /\ self.buf_len = r - InBlocks(b)
  BY <1>1, <1>2, Zenon
<1> QED
  BY <1>3, <1>7, <1>8, Zenon DEF b

\* Byte r of chunk c lies in M; l of n bytes fit into the buffer behind the
\* bytes of block b that are there, r of the chunk.
Within(c, r, M) == InChunks(c) + r <= Len(M)
\* The l of n bytes that the unfinished block still takes when r bytes of its
\* chunk have come, b whole blocks among them.
Fits(b, r, n, l) ==
  /\ InBlocks(b) <= r /\ r <= InBlocks(b) + BL
  /\ l = IF BL - (r - InBlocks(b)) < n THEN BL - (r - InBlocks(b)) ELSE n

\* What fits into the buffer goes there.
LEMMA FillBuf ==
  ASSUME NEW p, NEW S, NEW M \in Seq(S), NEW c \in Nat, NEW b \in Nat, NEW r \in Nat,
         NEW n \in Nat, NEW l, p[3] = M, Within(c, r + n, M), Fits(b, r, n, l)
  PROVE  /\ TakeLen(Held(p, c, b, r), Cut(M, InChunks(c) + r, n)) = l
         /\ chunk_state_fill_buf(Held(p, c, b, r), Cut(M, InChunks(c) + r, n)) = Held(p, c, b, r + l)
<1> DEFINE self == Held(p, c, b, r)
           input == Cut(M, InChunks(c) + r, n)
<1>1. PICK w \in Nat, d \in Nat : w = InBlocks(b) /\ d = InChunks(c)
  BY Amount
<1>0. /\ InBlocks(b) <= r /\ r <= InBlocks(b) + BL
      /\ l = IF BL - (r - InBlocks(b)) < n THEN BL - (r - InBlocks(b)) ELSE n
  BY DEF Fits
<1>2. d + r \in Nat /\ (d + r) + n <= Len(M) /\ input = Cut(M, d + r, n)
  <2>1. d + (r + n) <= Len(M) /\ Len(M) \in Nat
    BY <1>1 DEF Within
  <2>2. d + r \in Nat /\ (d + r) + n <= Len(M)
    BY ONLY <2>1, d \in Nat, r \in Nat, n \in Nat
  <2> QED
    BY <1>1, <2>2, Zenon
<1>3. Len(input) = n /\ \A i \in 1 .. n : input[i] = M[(d + r) + i]
  <2>1. Len(Cut(M, d + r, n)) = n /\ \A i \in 1 .. n : Cut(M, d + r, n)[i] = M[(d + r) + i]
    <3>1. PICK from \in Nat : from = d + r
      BY <1>2
    <3>2. Len(Cut(M, from, n)) = n /\ \A i \in 1 .. n : Cut(M, from, n)[i] = M[from + i]
      <4>1. from + n <= Len(M)
        BY <1>2, <3>1
      <4> HIDE DEF self
      <4> QED
        BY ONLY <4>1, CutIs, M \in Seq(S), from \in Nat, n \in Nat
    <3> QED
      BY <3>1, <3>2, Zenon
  <2> QED
    BY <1>2, <2>1, Zenon
<1> HIDE DEF input
<1>4. /\ self.buf = Block(p, c, b, r) /\ self.buf_len = r - w
      /\ DOMAIN Block(p, c, b, r) = 1 .. BL
  BY <1>1, ChunkIs DEF Held, Block
<1> HIDE DEF self
<1>5. TakeLen(self, input) = l
  BY <1>0, <1>1, <1>3, <1>4, Zenon DEF TakeLen, Least, BL
<1>6. l <= n /\ r + l <= w + BL /\ w <= r /\ BL \in Nat /\ l \in Nat
  <2>1. w <= r /\ r <= w + BL /\ l = IF BL - (r - w) < n THEN BL - (r - w) ELSE n
    BY <1>0, <1>1, Zenon
  <2> QED
    BY <2>1, Lengths
<1>7. [i \in 1 .. BL |-> IF i - (r - w) \in 1 .. l THEN input[i - (r - w)] ELSE Block(p, c, b, r)[i]]
        = Block(p, c, b, r + l)
  <2>1. ASSUME NEW i \in 1 .. BL
        PROVE  (IF i - (r - w) \in 1 .. l THEN input[i - (r - w)] ELSE Block(p, c, b, r)[i])
                 = IF w + i <= r + l THEN M[d + (w + i)] ELSE Zero
    <3>1. Block(p, c, b, r)[i] = IF w + i <= r THEN M[d + (w + i)] ELSE Zero
      BY <1>1 DEF Block
    <3>2. CASE i - (r - w) \in 1 .. l
      <4>1. i - (r - w) \in 1 .. n /\ (d + r) + (i - (r - w)) = d + (w + i) /\ w + i <= r + l
        BY <1>6, <3>2
      <4> QED
        BY <1>3, <3>2, <4>1
    <3>3. CASE i - (r - w) \notin 1 .. l
      <4>1. w + i <= r <=> w + i <= r + l
        BY <1>6, <3>3
      <4> QED
        BY <3>1, <3>3, <4>1
    <3> QED
      BY <3>2, <3>3
  <2> QED
    BY <1>1, <2>1, Zenon DEF Block
<1>8. chunk_state_fill_buf(self, input)
        = WithBuf(self, [i \in DOMAIN self.buf |-> IF i - self.buf_len \in 1 .. l
                                                   THEN input[i - self.buf_len] ELSE self.buf[i]],
                  self.buf_len + l)
  BY <1>5, Zenon DEF chunk_state_fill_buf, WithBuf
<1>9. chunk_state_fill_buf(self, input) = WithBuf(self, Block(p, c, b, r + l), (r - w) + l)
  BY <1>4, <1>7, <1>8, Zenon
<1>10. (r + l) - InBlocks(b) = (r - w) + l
  <2>0. l \in Nat
    BY <1>6
  <2>1. (r + l) - w = (r - w) + l
    BY ONLY <2>0, r \in Nat, w \in Nat
  <2> QED
    BY <1>1, <2>1, Zenon
<1>11. WithBuf(self, Block(p, c, b, r + l), (r - w) + l)
         = Chunk(Chain(p, c, b), c, Block(p, c, b, r + l), (r - w) + l, b, p[2])
  <2>1. \A x, y : WithBuf(self, x, y) = Chunk(Chain(p, c, b), c, x, y, b, p[2])
    BY ONLY ChunkChanged DEF self, Held
  <2> QED
    BY <2>1, Zenon
<1>12. chunk_state_fill_buf(self, input) = Held(p, c, b, r + l)
  BY <1>9, <1>10, <1>11, Zenon DEF Held
<1> QED
  BY <1>5, <1>12, Zenon DEF input, self

----------------------------------------------------------------------------
\* chunk_state_update by its steps.

\* One block more is hashed.
LEMMA BlockCompressed ==
  ASSUME NEW p, NEW c, NEW b \in Nat, NEW u, NEW l
  PROVE  CompressBlock(Chunk(Chain(p, c, b), c, u, l, b, p[2]), Block(p, c, b, InBlocks(b) + BL))
           = Chunk(Chain(p, c, b + 1), c, u, l, b + 1, p[2])
<1> DEFINE self == Chunk(Chain(p, c, b), c, u, l, b, p[2])
           block == Block(p, c, b, InBlocks(b) + BL)
<1>1. /\ self.cv = Chain(p, c, b) /\ self.chunk_counter = c /\ self.blocks_compressed = b
      /\ self.flags = p[2]
  BY ChunkIs
<1>2. \A v, n : WithBlock(self, v, n) = Chunk(v, c, u, l, n, p[2])
  BY ChunkChanged
<1> HIDE DEF self, block
<1>3. CompressBlock(self, block)
        = WithBlock(self, <<self.cv, block, BL, self.chunk_counter,
                            self.flags \cup chunk_state_maybe_start_flag(self)>>,
                    self.blocks_compressed + 1)
  BY Zenon DEF CompressBlock, WithBlock, compress_in_place, BL
<1>4. chunk_state_maybe_start_flag(self) = Start(b)
  BY <1>1, Zenon DEF chunk_state_maybe_start_flag, Start
<1>5. CompressBlock(self, block) = WithBlock(self, <<Chain(p, c, b), block, BL, c, p[2] \cup Start(b)>>, b + 1)
  BY <1>1, <1>3, <1>4, Zenon
<1>6. <<Chain(p, c, b), block, BL, c, p[2] \cup Start(b)>> = Chain(p, c, b + 1)
  BY ChainIs, Zenon DEF block
<1> QED
  BY <1>2, <1>5, <1>6, Zenon DEF self, block

\* The recursion of the loop of chunk_state_update over the whole blocks of its
\* input.
HashBody(q, f, k) ==
  IF k = 0 THEN q[1] ELSE CompressBlock(f[k - 1], Slice(q[2], BLAKE3_BLOCK_LEN, k))
Hashes == INSTANCE Counting WITH Domain <- NatDom, Measure <- Itself, Body <- HashBody

\* A chunk state after k more blocks of the input.
Hashed(start, rest, k) == Hashes!Recursive(<<start, rest>>)[k]

\* That loop compresses one block after the other.
LEMMA HashedIs ==
  ASSUME NEW start, NEW rest, NEW k \in Nat
  PROVE  /\ Hashed(start, rest, 0) = start
         /\ Hashed(start, rest, k + 1) = CompressBlock(Hashed(start, rest, k), Slice(rest, BL, k + 1))
<1> DEFINE q == <<start, rest>>
<1>1. q[1] = start /\ q[2] = rest
  OBVIOUS
<1> HIDE DEF q
<1>2. Hashes!Sees(q)
  <2>1. ASSUME NEW x \in Nat, x # 0 PROVE x - 1 \in Nat /\ x - 1 < x
    BY <2>1
  <2> QED
    BY <2>1 DEF Hashes!Sees, NatDom, Itself, HashBody
<1>3. Hashes!Recursive(q) = [x \in NatDom(q) |-> HashBody(q, Hashes!Recursive(q), x)]
  BY <1>2, Hashes!Recursion
<1>4. \A x \in Nat : Hashes!Recursive(q)[x] = HashBody(q, Hashes!Recursive(q), x)
  BY <1>3 DEF NatDom
<1>5. k + 1 # 0 /\ k + 1 \in Nat /\ (k + 1) - 1 = k /\ 0 \in Nat
  OBVIOUS
<1>6. Hashes!Recursive(q)[0] = start
  BY <1>1, <1>4, <1>5, Zenon DEF HashBody
<1>7. Hashes!Recursive(q)[k + 1] = CompressBlock(Hashes!Recursive(q)[k], Slice(rest, BL, k + 1))
  BY <1>1, <1>4, <1>5, Zenon DEF HashBody, BL
<1> QED
  BY <1>6, <1>7, Zenon DEF Hashed, q

\* chunk_state_update by its steps: fill the held block, compress it when more
\* input is left, compress the whole blocks but the last, and hold the rest.
LEMMA UpdateIs ==
  ASSUME NEW self, NEW input, NEW take, NEW rest, NEW filled, NEW whole,
         take = IF self.buf_len > 0 THEN TakeLen(self, input) ELSE 0,
         rest = Drop(input, take),
         filled = chunk_state_fill_buf(self, SubSeq(input, 1, take)),
         whole = IF rest = <<>> THEN 0 ELSE (Len(rest) - 1) \div BL
  PROVE  chunk_state_update(self, input)
           = chunk_state_fill_buf(
               Hashed(IF self.buf_len > 0 /\ rest # <<>>
                      THEN WithBuf(CompressBlock(filled, filled.buf), ZeroBlock, 0)
                      ELSE filled, rest, whole),
               Drop(rest, InBlocks(whole)))
<1> DEFINE start == IF self.buf_len > 0 /\ rest # <<>>
                    THEN WithBuf(CompressBlock(filled, filled.buf), ZeroBlock, 0)
                    ELSE filled
           q == <<start, rest>>
<1>1. q[1] = start /\ q[2] = rest
  OBVIOUS
<1> HIDE DEF q
<1>2. Hashes!Recursive(q)
        = CHOOSE f : f = [k \in Nat |->
            IF k = 0 THEN start ELSE CompressBlock(f[k - 1], Slice(rest, BLAKE3_BLOCK_LEN, k))]
  BY <1>1, Zenon DEF Hashes!Recursive, NatDom, HashBody
<1>3. chunk_state_update(self, input)
        = chunk_state_fill_buf(
            (CHOOSE f : f = [k \in Nat |->
                IF k = 0 THEN start ELSE CompressBlock(f[k - 1], Slice(rest, BLAKE3_BLOCK_LEN, k))])[whole],
            Drop(rest, InBlocks(whole)))
  BY Zenon DEF chunk_state_update, WithBuf, BL, InBlocks
<1> QED
  BY <1>2, <1>3, Zenon DEF Hashed, q

\* A stretch of the input that begins at a block of a chunk and is as long is
\* that block.
LEMMA CutIsBlock ==
  ASSUME NEW p, NEW M, NEW c \in Nat, NEW b \in Nat, p[3] = M
  PROVE  Cut(M, InChunks(c) + InBlocks(b), BL) = Block(p, c, b, InBlocks(b) + BL)
<1>1. PICK w \in Nat, d \in Nat : w = InBlocks(b) /\ d = InChunks(c)
  BY Amount
<1>2. \A i \in 1 .. BL : w + i <= w + BL /\ (d + w) + i = d + (w + i)
  BY Lengths
<1>3. \A i \in 1 .. BL : M[(d + w) + i] = IF w + i <= w + BL THEN M[d + (w + i)] ELSE Zero
  BY <1>2, Zenon
<1> QED
  BY <1>1, <1>3, Zenon DEF Cut, Block

\* Compressing k blocks of the input takes the chunk state k blocks further.
LEMMA HashedBlocks ==
  ASSUME NEW p, NEW S, NEW M \in Seq(S), NEW c \in Nat, NEW b \in Nat, NEW n \in Nat,
         NEW k \in Nat, p[3] = M, (InChunks(c) + InBlocks(b)) + n <= Len(M), InBlocks(k) <= n
  PROVE  Hashed(Held(p, c, b, InBlocks(b)), Cut(M, InChunks(c) + InBlocks(b), n), k) = Held(p, c, b + k, InBlocks(b + k))
<1> DEFINE start == Held(p, c, b, InBlocks(b))
           rest == Cut(M, InChunks(c) + InBlocks(b), n)
           Fine(j) == Hashed(start, rest, j) = Held(p, c, b + j, InBlocks(b + j))
           Bad == {j \in Nat : InBlocks(j) <= n /\ ~ Fine(j)}
<1>1. SUFFICES ASSUME Bad # {} PROVE FALSE
  OBVIOUS
<1>2. PICK j \in Bad : \A i \in Bad : j <= i
  BY <1>1, LeastNumber
<1>3. j # 0
  <2>1. Hashed(start, rest, 0) = start /\ b + 0 = b
    BY HashedIs
  <2>2. Fine(0)
    BY <2>1, Zenon
  <2> QED
    BY <1>2, <2>2
<1>4. PICK i \in Nat : j = i + 1
  <2>1. j - 1 \in Nat /\ j = (j - 1) + 1
    BY <1>2, <1>3
  <2> QED
    BY <2>1
<1>5. PICK w \in Nat, d \in Nat, e \in Nat : w = InBlocks(b) /\ d = InChunks(c) /\ e = InBlocks(i)
  BY Amount
<1>6. InBlocks(j) = e + BL /\ InBlocks(b + i) = w + e /\ BL \in Nat
  BY <1>4, <1>5, Amount, Amounts, Zenon
<1>7. Fine(i)
  <2>1. e <= n
    BY <1>2, <1>6
  <2> QED
    BY <1>2, <1>4, <1>5, <2>1
<1>8. Slice(rest, BL, i + 1) = Cut(M, InChunks(c) + InBlocks(b + i), BL)
  <2>1. Stretch(Cut(M, d + w, n), e, BL) = Cut(M, (d + w) + e, BL)
    <3>1. InBlocks(j) <= n
      BY <1>2
    <3>2. PICK from \in Nat : from = d + w
      BY <1>5
    <3>3. from + n <= Len(M) /\ e + BL <= n
      BY <1>5, <1>6, <3>1, <3>2
    <3>4. Stretch(Cut(M, from, n), e, BL) = Cut(M, from + e, BL)
      <4> HIDE DEF Bad, Fine, start, rest
      <4>1. BL \in Nat
        BY <1>6
      <4> QED
        BY <3>3, <4>1, CutOfCut
    <3> QED
      BY <3>2, <3>4, Zenon
  <2>2. ((i + 1) - 1) * BL + 1 = e + 1 /\ (i + 1) * BL = e + BL
    <3>1. (i + 1) - 1 = i
      BY <1>4
    <3> QED
      BY <1>4, <1>5, <1>6, <3>1, Zenon DEF InBlocks
  <2>3. (d + w) + e = InChunks(c) + InBlocks(b + i)
    BY <1>5, <1>6
  <2>4. rest = Cut(M, d + w, n)
    BY <1>5, Zenon
  <2> QED
    BY <2>1, <2>2, <2>3, <2>4, Zenon DEF Slice, Stretch
<1>9. b + i \in Nat /\ (b + i) + 1 = b + j
  BY <1>4
<1>10. Slice(rest, BL, i + 1) = Block(p, c, b + i, InBlocks(b + i) + BL)
  BY <1>8, <1>9, CutIsBlock
<1>11. /\ Held(p, c, b + i, InBlocks(b + i))
             = Chunk(Chain(p, c, b + i), c, ZeroBlock, 0, b + i, p[2])
       /\ Held(p, c, b + j, InBlocks(b + j))
             = Chunk(Chain(p, c, b + j), c, ZeroBlock, 0, b + j, p[2])
  <2>1. ASSUME NEW x \in Nat PROVE Held(p, c, x, InBlocks(x)) = Chunk(Chain(p, c, x), c, ZeroBlock, 0, x, p[2])
    <3>1. InBlocks(x) - InBlocks(x) = 0
      <4>1. InBlocks(x) \in Nat
        BY Amount
      <4> QED
        BY <4>1
    <3> QED
      BY <3>1, EmptyBlock, Zenon DEF Held
  <2>2. b + j \in Nat
    BY <1>9
  <2> QED
    BY <1>9, <2>1, <2>2, Zenon
<1>12. Hashed(start, rest, i + 1) = CompressBlock(Hashed(start, rest, i), Slice(rest, BL, i + 1))
  <2> HIDE DEF start, rest
  <2> QED
    BY HashedIs
<1>13. CompressBlock(Chunk(Chain(p, c, b + i), c, ZeroBlock, 0, b + i, p[2]),
                     Block(p, c, b + i, InBlocks(b + i) + BL))
         = Chunk(Chain(p, c, (b + i) + 1), c, ZeroBlock, 0, (b + i) + 1, p[2])
  BY <1>9, BlockCompressed, Zenon
<1>14. Fine(j)
  BY <1>4, <1>7, <1>9, <1>10, <1>11, <1>12, <1>13, Zenon
<1> QED
  BY <1>2, <1>14

----------------------------------------------------------------------------
\* chunk_state_update takes the chunk state to a later point.

\* From the start of a block on: the whole blocks are hashed, and what is left
\* goes into the buffer.
LEMMA FromBlock ==
  ASSUME NEW p, NEW S, NEW M \in Seq(S), NEW c \in Nat, NEW b \in Nat, NEW n \in Nat,
         p[3] = M, (InChunks(c) + InBlocks(b)) + n <= Len(M), n # 0 \/ b = 0
  PROVE  LET rest == Cut(M, InChunks(c) + InBlocks(b), n)
             whole == WholeBlocks(n)
         IN  chunk_state_fill_buf(Hashed(Held(p, c, b, InBlocks(b)), rest, whole), Drop(rest, InBlocks(whole)))
               = ChunkAt(p, c, InBlocks(b) + n)
<1> DEFINE k == WholeBlocks(n)
<1>1. k \in Nat /\ InBlocks(k) \in Nat /\ n - InBlocks(k) \in 0 .. BL /\ (n # 0 => n - InBlocks(k) # 0)
  BY WholeBlocksIs
<1>2. n = 0 => k = 0
  BY DEF WholeBlocks
<1> HIDE DEF k
<1>3. PICK w \in Nat, d \in Nat, e \in Nat : w = InBlocks(b) /\ d = InChunks(c) /\ e = InBlocks(k)
  BY <1>1, Amount
<1>31. PICK a \in Nat : a = b + k
  BY <1>1
<1>40. BL \in Nat \ {0}
  BY Lengths
<1>4. InBlocks(a) = w + e /\ BL \in Nat \ {0}
  BY <1>1, <1>3, <1>31, Lengths, Amounts, Zenon
<1>5. PICK from \in Nat : from = d + w /\ from = InChunks(c) + InBlocks(b) /\ from + n <= Len(M)
  <2>1. d + w \in Nat /\ (d + w) + n <= Len(M) /\ d + w = InChunks(c) + InBlocks(b)
    <3>1. d + w \in Nat
      BY ONLY w \in Nat, d \in Nat
    <3> QED
      BY <1>3, <3>1, Zenon
  <2> QED
    BY <2>1
<1>6. PICK l \in Nat : l = n - e /\ e <= n /\ l <= BL /\ (n # 0 => l # 0) /\ e + l = n
  <2>1. n - e \in 0 .. BL /\ (n # 0 => n - e # 0)
    BY <1>1, <1>3, Zenon
  <2> QED
    BY ONLY <1>40, <2>1, e \in Nat, n \in Nat
<1> DEFINE rest == Cut(M, InChunks(c) + InBlocks(b), n)
<1>7. Hashed(Held(p, c, b, InBlocks(b)), rest, k) = Held(p, c, a, InBlocks(a))
  <2>1. InBlocks(k) <= n
    BY <1>3, <1>6
  <2>2. Hashed(Held(p, c, b, InBlocks(b)), rest, k) = Held(p, c, b + k, InBlocks(b + k))
    BY <1>1, <2>1, HashedBlocks
  <2> QED
    BY <1>31, <2>2, Zenon
<1>8. Drop(rest, InBlocks(k)) = Cut(M, InChunks(c) + InBlocks(a), l)
  <2>1. e + l <= n
    BY <1>6
  <2>2. Drop(Cut(M, from, n), e) = Cut(M, from + e, n - e)
    BY <1>5, <2>1, CutOfCut
  <2>3. from + e = InChunks(c) + InBlocks(a)
    <3>1. (d + w) + e = d + (w + e)
      BY <1>3
    <3> QED
      BY <1>3, <1>4, <1>5, <3>1, Zenon
  <2> QED
    BY <1>3, <1>5, <1>6, <2>2, <2>3, Zenon
<1>9. chunk_state_fill_buf(Held(p, c, a, InBlocks(a)), Cut(M, InChunks(c) + InBlocks(a), l))
        = Held(p, c, a, InBlocks(a) + l)
  <2>1. PICK r \in Nat : r = w + e
    BY <1>3
  <2>2. InBlocks(a) = r
    BY <1>4, <2>1, Zenon
  <2>3. d + (r + l) <= Len(M) /\ r <= r /\ r <= r + BL
        /\ l = IF BL - (r - r) < l THEN BL - (r - r) ELSE l
    BY <1>4, <1>5, <1>6, <2>1
  <2>4. Within(c, r + l, M) /\ Fits(a, r, l, l)
    BY <1>3, <2>2, <2>3, Zenon DEF Within, Fits
  <2>5. chunk_state_fill_buf(Held(p, c, a, r), Cut(M, InChunks(c) + r, l)) = Held(p, c, a, r + l)
    <3> HIDE DEF rest
    <3> QED
      BY ONLY <2>4, FillBuf, M \in Seq(S), c \in Nat, a \in Nat, r \in Nat, l \in Nat, p[3] = M
  <2> QED
    BY <2>2, <2>5, Zenon
<1>10. InBlocks(a) + l = InBlocks(b) + n
  <2>1. (w + e) + l = w + n
    BY <1>3, <1>6
  <2> QED
    BY <1>3, <1>4, <2>1, Zenon
<1>11. WholeBlocks(InBlocks(b) + n) = a
  <2>1. CASE n = 0
    <3>1. InBlocks(b) + n = 0 /\ a = 0
      BY <1>2, <1>31, <2>1, Products
    <3> QED
      BY <3>1 DEF WholeBlocks
  <2>2. CASE n # 0
    <3>0. w + e < w + n /\ w + n <= (w + e) + BL /\ w + n \in Nat
      BY ONLY <1>40, <1>6, <2>2, w \in Nat, e \in Nat, l \in Nat, n \in Nat
    <3>1. InBlocks(a) < w + n /\ w + n <= InBlocks(a) + BL /\ w + n \in Nat
      BY <1>4, <3>0, Zenon
    <3>2. WholeBlocks(w + n) = a
      BY <1>4, <3>1, WholeBlocksIs
    <3> QED
      BY <1>3, <3>2, Zenon
  <2> QED
    BY <2>1, <2>2
<1> QED
  BY <1>7, <1>8, <1>9, <1>10, <1>11, Zenon DEF ChunkAt, k

\* A chunk state that takes n bytes more.
LEMMA ChunkUpdate ==
  ASSUME NEW p, NEW S, NEW M \in Seq(S), NEW c \in Nat, NEW r \in Nat, NEW n \in Nat,
         p[3] = M, InChunks(c) + (r + n) <= Len(M)
  PROVE  chunk_state_update(ChunkAt(p, c, r), Cut(M, InChunks(c) + r, n)) = ChunkAt(p, c, r + n)
<1> DEFINE b == WholeBlocks(r)
           self == Held(p, c, b, r)
           input == Cut(M, InChunks(c) + r, n)
<1>1. b \in Nat /\ InBlocks(b) \in Nat /\ r - InBlocks(b) \in 0 .. BL /\ (r # 0 => r - InBlocks(b) # 0)
  BY WholeBlocksIs
<1>2. r = 0 => b = 0
  BY DEF WholeBlocks
<1>3. self.buf_len = r - InBlocks(b)
  BY ChunkIs DEF Held
<1>4. ChunkAt(p, c, r) = self
  BY Zenon DEF ChunkAt
<1> HIDE DEF b
<1>5. PICK w \in Nat, d \in Nat : w = InBlocks(b) /\ d = InChunks(c)
  BY <1>1, Amount
<1>7. BL \in Nat \ {0} /\ d + (r + n) <= Len(M) /\ Len(M) \in Nat
  <2>1. Len(M) \in Nat
    OBVIOUS
  <2> QED
    BY <1>5, <2>1, Lengths, Zenon
<1>6. PICK u \in Nat : u = r - w /\ u <= BL /\ (u = 0 <=> r = 0) /\ w + u = r
  <2>1. r - w \in 0 .. BL /\ (r # 0 => r - w # 0) /\ (r = 0 => w = 0)
    BY <1>1, <1>2, <1>5, Products, Zenon
  <2> QED
    BY ONLY <1>7, <2>1, r \in Nat, w \in Nat
<1>8. self.buf_len = u
  BY <1>3, <1>5, <1>6
<1> DEFINE fits == IF BL - u < n THEN BL - u ELSE n
           take == IF u > 0 THEN fits ELSE 0
<1>9. TakeLen(self, input) = fits
  <2>0. w <= r /\ r <= w + BL
    BY ONLY <1>6, <1>7, w \in Nat, u \in Nat, r \in Nat
  <2>1. Fits(b, r, n, fits) /\ Within(c, r + n, M)
    BY <1>5, <1>6, <1>7, <2>0, Zenon DEF Fits, Within
  <2> HIDE DEF fits
  <2> QED
    BY <1>1, <2>1, FillBuf, SMTT(40)
<1>10. take \in Nat /\ take <= n /\ take <= BL - u /\ (u > 0 /\ take # n => take = BL - u)
  BY ONLY <1>6, <1>7, u \in Nat, n \in Nat DEF take, fits
<1>11. take = IF self.buf_len > 0 THEN TakeLen(self, input) ELSE 0
  BY <1>8, <1>9, Zenon
<1> HIDE DEF take, fits
<1>12. PICK from \in Nat : from = d + r /\ from = InChunks(c) + r /\ from + n <= Len(M)
  <2>1. d + r \in Nat /\ (d + r) + n <= Len(M)
    BY ONLY <1>7, d \in Nat, r \in Nat, n \in Nat
  <2> QED
    BY <1>5, <2>1, Zenon
<1> DEFINE rest == Drop(input, take)
           filled == chunk_state_fill_buf(self, SubSeq(input, 1, take))
           whole == IF rest = <<>> THEN 0 ELSE (Len(rest) - 1) \div BL
<1>13. SubSeq(input, 1, take) = Cut(M, InChunks(c) + r, take)
  <2>1. Stretch(Cut(M, from, n), 0, take) = Cut(M, from + 0, take)
    BY <1>10, <1>12, CutOfCut
  <2>2. from + 0 = from /\ 0 + 1 = 1 /\ 0 + take = take
    BY <1>10
  <2> QED
    BY <1>12, <2>1, <2>2, Zenon DEF Stretch
<1>14. filled = Held(p, c, b, r + take)
  <2>1. Within(c, r + take, M) /\ Fits(b, r, take, take)
    <3>1. d + (r + take) <= Len(M) /\ w <= r /\ r <= w + BL
          /\ take = IF BL - (r - w) < take THEN BL - (r - w) ELSE take
      BY ONLY <1>6, <1>7, <1>10, w \in Nat, u \in Nat, r \in Nat, d \in Nat, n \in Nat
    <3> QED
      BY <1>5, <3>1, Zenon DEF Within, Fits
  <2>2. chunk_state_fill_buf(Held(p, c, b, r), Cut(M, InChunks(c) + r, take)) = Held(p, c, b, r + take)
    BY ONLY <1>1, <1>10, <2>1, FillBuf, M \in Seq(S), c \in Nat, r \in Nat, p[3] = M, SMTT(40)
  <2> QED
    BY <1>13, <2>2, Zenon
<1>15. rest = Cut(M, InChunks(c) + (r + take), n - take)
  <2>1. Drop(Cut(M, from, n), take) = Cut(M, from + take, n - take)
    <3>1. take + (n - take) <= n
      BY <1>10
    <3> QED
      BY <1>10, <1>12, <3>1, CutOfCut
  <2>2. from + take = InChunks(c) + (r + take)
    <3>1. (d + r) + take = d + (r + take)
      BY ONLY <1>10, d \in Nat, r \in Nat
    <3> QED
      BY <1>5, <1>12, <3>1, Zenon
  <2> QED
    BY <1>12, <2>1, <2>2, Zenon
<1>16. PICK n1 \in Nat : n1 = n - take
  BY <1>10
<1>17. Len(rest) = n1 /\ (rest = <<>> <=> n1 = 0)
  <2>1. PICK a \in Nat : a = InChunks(c) + (r + take) /\ a + n1 <= Len(M)
    <3>1. d + (r + take) \in Nat /\ (d + (r + take)) + n1 <= Len(M)
      BY ONLY <1>7, <1>10, <1>16, d \in Nat, r \in Nat, n \in Nat
    <3> QED
      BY <1>5, <3>1, Zenon
  <2>2. Len(Cut(M, a, n1)) = n1 /\ (Cut(M, a, n1) = <<>> <=> n1 = 0)
    BY <2>1, CutIs
  <2> QED
    BY <1>15, <1>16, <2>1, <2>2, Zenon
<1>18. whole = WholeBlocks(n1)
  BY <1>17, Zenon DEF WholeBlocks
<1> HIDE DEF whole, rest
<1> DEFINE start == IF self.buf_len > 0 /\ rest # <<>>
                    THEN WithBuf(CompressBlock(filled, filled.buf), ZeroBlock, 0)
                    ELSE filled
<1>19. chunk_state_update(self, input)
         = chunk_state_fill_buf(Hashed(start, rest, whole), Drop(rest, InBlocks(whole)))
  <2>1. rest = Drop(input, take) /\ whole = IF rest = <<>> THEN 0 ELSE (Len(rest) - 1) \div BL
    BY Zenon DEF rest, whole
  <2> HIDE DEF self, input
  <2> QED
    BY <1>11, <2>1, UpdateIs
<1> HIDE DEF filled, input, self
\* From the start of block b1 on.
<1>20. ASSUME NEW b1 \in Nat, start = Held(p, c, b1, InBlocks(b1)), r + take = InBlocks(b1), n1 # 0 \/ b1 = 0
       PROVE  chunk_state_update(self, input) = ChunkAt(p, c, r + n)
  <2>1. rest = Cut(M, InChunks(c) + InBlocks(b1), n1)
    BY <1>15, <1>16, <1>20, Zenon
  <2>2. (InChunks(c) + InBlocks(b1)) + n1 <= Len(M) /\ InBlocks(b1) + n1 = r + n
    <3>1. PICK w1 \in Nat : w1 = InBlocks(b1) /\ r + take = w1
      BY <1>20, Amount
    <3>2. (d + w1) + n1 <= Len(M) /\ w1 + n1 = r + n
      BY ONLY <1>7, <1>10, <1>16, <3>1, d \in Nat, r \in Nat, n \in Nat
    <3> QED
      BY <1>5, <3>1, <3>2, Zenon
  <2>3. chunk_state_fill_buf(Hashed(Held(p, c, b1, InBlocks(b1)), Cut(M, InChunks(c) + InBlocks(b1), n1), WholeBlocks(n1)),
                             Drop(Cut(M, InChunks(c) + InBlocks(b1), n1), InBlocks(WholeBlocks(n1))))
          = ChunkAt(p, c, InBlocks(b1) + n1)
    <3>1. InChunks(c) + InBlocks(b1) + n1 <= Len(M) /\ (n1 # 0 \/ b1 = 0)
      BY <1>20, <2>2
    <3> QED
      BY ONLY <3>1, FromBlock, M \in Seq(S), c \in Nat, b1 \in Nat, n1 \in Nat, p[3] = M
  <2> QED
    BY <1>18, <1>19, <1>20, <2>1, <2>2, <2>3, Zenon
<1>21. ASSUME u = 0
       PROVE  chunk_state_update(self, input) = ChunkAt(p, c, r + n)
  <2>1. r = 0 /\ b = 0 /\ take = 0
    BY <1>2, <1>6, <1>21 DEF take
  <2>2. start = Held(p, c, 0, InBlocks(0)) /\ r + take = InBlocks(0)
    <3>1. InBlocks(0) = 0 /\ r + take = 0 /\ ~ (u > 0)
      BY <1>21, <2>1, Products
    <3> QED
      BY <1>8, <1>14, <2>1, <3>1, Zenon
  <2> HIDE DEF start
  <2> QED
    BY ONLY <1>20, <2>1, <2>2, <1>1, 0 \in Nat, Zenon
<1>22. ASSUME u # 0 /\ n1 # 0
       PROVE  chunk_state_update(self, input) = ChunkAt(p, c, r + n)
  <2>1. r + take = w + BL /\ u > 0 /\ InBlocks(b + 1) = w + BL /\ (w + BL) - w = BL
    <3>1. take = BL - u /\ u > 0 /\ r + take = w + BL /\ (w + BL) - w = BL
      BY ONLY <1>6, <1>7, <1>10, <1>16, <1>22, u \in Nat, r \in Nat, w \in Nat, n \in Nat
    <3>2. InBlocks(b + 1) = InBlocks(b) + BL
      BY <1>1, Amount
    <3> QED
      BY <1>5, <3>1, <3>2, Zenon
  <2>2. filled = Chunk(Chain(p, c, b), c, Block(p, c, b, InBlocks(b) + BL), BL, b, p[2])
    BY <1>5, <1>14, <2>1, Zenon DEF Held
  <2>3. filled.buf = Block(p, c, b, InBlocks(b) + BL)
    BY <2>2, ChunkIs
  <2>4. CompressBlock(filled, filled.buf)
          = Chunk(Chain(p, c, b + 1), c, Block(p, c, b, InBlocks(b) + BL), BL, b + 1, p[2])
    <3>1. CompressBlock(Chunk(Chain(p, c, b), c, Block(p, c, b, InBlocks(b) + BL), BL, b, p[2]), Block(p, c, b, InBlocks(b) + BL))
            = Chunk(Chain(p, c, b + 1), c, Block(p, c, b, InBlocks(b) + BL), BL, b + 1, p[2])
      BY <1>1, BlockCompressed
    <3> QED
      BY <2>2, <2>3, <3>1, Zenon
  <2>5. WithBuf(CompressBlock(filled, filled.buf), ZeroBlock, 0)
          = Chunk(Chain(p, c, b + 1), c, ZeroBlock, 0, b + 1, p[2])
    <3>1. \A x, y : WithBuf(Chunk(Chain(p, c, b + 1), c, Block(p, c, b, InBlocks(b) + BL), BL, b + 1, p[2]), x, y)
                      = Chunk(Chain(p, c, b + 1), c, x, y, b + 1, p[2])
      BY ONLY ChunkChanged
    <3> QED
      BY <2>4, <3>1, Zenon
  <2>6. Held(p, c, b + 1, InBlocks(b + 1)) = Chunk(Chain(p, c, b + 1), c, ZeroBlock, 0, b + 1, p[2])
    <3>1. InBlocks(b + 1) - InBlocks(b + 1) = 0 /\ b + 1 \in Nat
      <4>1. b + 1 \in Nat
        BY <1>1
      <4>2. InBlocks(b + 1) \in Nat
        BY <4>1, Amount
      <4> QED
        BY <4>1, <4>2
    <3> QED
      BY <3>1, EmptyBlock, Zenon DEF Held
  <2>7. start = Held(p, c, b + 1, InBlocks(b + 1)) /\ r + take = InBlocks(b + 1)
    BY <1>8, <1>17, <1>22, <2>1, <2>5, <2>6, Zenon
  <2> QED
    <3>1. b + 1 \in Nat
      BY <1>1
    <3> HIDE DEF start
    <3> QED
      BY ONLY <1>20, <1>22, <2>7, <3>1, Zenon
<1>23. ASSUME u # 0 /\ n1 = 0
       PROVE  chunk_state_update(self, input) = ChunkAt(p, c, r + n)
  <2>1. take = n /\ u > 0 /\ whole = 0 /\ r + n \in Nat
    BY <1>10, <1>16, <1>18, <1>23 DEF WholeBlocks
  <2>2. start = Held(p, c, b, r + n)
    BY <1>14, <1>17, <1>23, <2>1, Zenon
  <2>3. Drop(rest, InBlocks(whole)) = Cut(M, InChunks(c) + (r + n), 0)
    <3>1. PICK a \in Nat : a = InChunks(c) + (r + n) /\ a + 0 <= Len(M)
      BY <1>5, <1>7, <2>1
    <3>2. rest = Cut(M, a, 0)
      BY <1>15, <1>16, <1>23, <2>1, <3>1, Zenon
    <3>3. Drop(Cut(M, a, 0), 0) = Cut(M, a + 0, 0 - 0)
      BY <3>1, CutOfCut
    <3>4. InBlocks(whole) = 0 /\ a + 0 = a /\ 0 - 0 = 0
      BY <2>1, <3>1, Products
    <3> QED
      BY <3>1, <3>2, <3>3, <3>4, Zenon
  <2>4. Hashed(start, rest, 0) = start
    <3> HIDE DEF start
    <3> QED
      BY HashedIs
  <2>5. InBlocks(b) < r + n /\ r + n <= InBlocks(b) + BL
    <3>1. w < r + n /\ r + n <= w + BL
      BY ONLY <1>6, <1>7, <1>10, <2>1, w \in Nat, u \in Nat, r \in Nat, n \in Nat
    <3> QED
      BY <1>5, <3>1, Zenon
  <2>6. chunk_state_fill_buf(Held(p, c, b, r + n), Cut(M, InChunks(c) + (r + n), 0)) = Held(p, c, b, (r + n) + 0)
    <3> DEFINE t == r + n
    <3>1. t \in Nat /\ Within(c, t + 0, M) /\ Fits(b, t, 0, 0)
      <4>1. t \in Nat /\ d + (t + 0) <= Len(M) /\ w <= t /\ t <= w + BL
            /\ 0 = IF BL - (t - w) < 0 THEN BL - (t - w) ELSE 0
        <5>1. w < t /\ t <= w + BL
          BY <1>5, <2>5, Zenon
        <5> QED
          BY ONLY <1>7, <5>1, w \in Nat, d \in Nat, r \in Nat, n \in Nat DEF t
      <4> QED
        BY <1>5, <4>1, Zenon DEF Within, Fits
    <3> HIDE DEF t
    <3>2. chunk_state_fill_buf(Held(p, c, b, t), Cut(M, InChunks(c) + t, 0)) = Held(p, c, b, t + 0)
      BY ONLY <1>1, <3>1, FillBuf, M \in Seq(S), c \in Nat, 0 \in Nat, p[3] = M, SMTT(40)
    <3> QED
      BY <3>2, Zenon DEF t
  <2>7. (r + n) + 0 = r + n
    BY <2>1
  <2>8. WholeBlocks(r + n) = b
    BY <1>1, <2>1, <2>5, WholeBlocksIs
  <2> QED
    BY <1>19, <2>1, <2>2, <2>3, <2>4, <2>6, <2>7, <2>8, Zenon DEF ChunkAt
<1> QED
  BY <1>4, <1>21, <1>22, <1>23, Zenon DEF input

----------------------------------------------------------------------------
\* Outputs, and the nodes of single chunks.

\* What a node is before it is compressed.
AsOutput(node) == make_output(node[1], node[2], node[3], node[4], node[5])

\* The chaining value of an output is the node of its compression, and
\* parent_output is the output of the parent node.
LEMMA Outputs ==
  /\ \A v, b, l, c, f : output_chaining_value(AsOutput(<<v, b, l, c, f>>)) = <<v, b, l, c, f>>
  /\ \A p, x, y : /\ parent_output(<<x, y>>, p[1], p[2]) = AsOutput(Parent(p, x, y))
                  /\ output_chaining_value(AsOutput(Parent(p, x, y))) = Parent(p, x, y)
  /\ \A p, c, r : output_chaining_value(AsOutput(Tip(p, c, r))) = Tip(p, c, r)
<1>1. ASSUME NEW v, NEW b, NEW l, NEW c, NEW f
      PROVE  /\ AsOutput(<<v, b, l, c, f>>) = make_output(v, b, l, c, f)
             /\ output_chaining_value(make_output(v, b, l, c, f)) = <<v, b, l, c, f>>
  BY DEF AsOutput, output_chaining_value, make_output, compress_in_place
<1>2. \A p, x, y : parent_output(<<x, y>>, p[1], p[2]) = AsOutput(Parent(p, x, y))
  BY <1>1, Zenon DEF parent_output, Parent, BL
<1>3. \A v, b, l, c, f : output_chaining_value(AsOutput(<<v, b, l, c, f>>)) = <<v, b, l, c, f>>
  BY <1>1, Zenon
<1>4. \A p, x, y : output_chaining_value(AsOutput(Parent(p, x, y))) = Parent(p, x, y)
  BY <1>3, Zenon DEF Parent
<1>5. \A p, c, r : output_chaining_value(AsOutput(Tip(p, c, r))) = Tip(p, c, r)
  BY <1>3, Zenon DEF Tip
<1> QED
  BY <1>2, <1>3, <1>4, <1>5, Zenon

\* The output of a chunk state is its last compression.
LEMMA ChunkOutput ==
  ASSUME NEW p, NEW c, NEW r
  PROVE  chunk_state_output(ChunkAt(p, c, r)) = AsOutput(Tip(p, c, r))
<1> DEFINE b == WholeBlocks(r)
           self == Chunk(Chain(p, c, b), c, Block(p, c, b, r), r - InBlocks(b), b, p[2])
<1>1. /\ self.cv = Chain(p, c, b) /\ self.chunk_counter = c /\ self.blocks_compressed = b
      /\ self.flags = p[2] /\ self.buf = Block(p, c, b, r) /\ self.buf_len = r - InBlocks(b)
  BY ChunkIs
<1>2. ChunkAt(p, c, r) = self
  BY Zenon DEF ChunkAt, Held
<1> HIDE DEF self
<1>3. chunk_state_maybe_start_flag(self) = Start(b)
  BY <1>1, Zenon DEF chunk_state_maybe_start_flag, Start
<1>4. chunk_state_output(self)
        = make_output(Chain(p, c, b), Block(p, c, b, r), r - InBlocks(b), c,
                      (p[2] \cup Start(b)) \cup {"CHUNK_END"})
  BY <1>1, <1>3, Zenon DEF chunk_state_output
<1>5. \A v, d, l, n, f : AsOutput(<<v, d, l, n, f>>) = make_output(v, d, l, n, f)
  BY DEF AsOutput, make_output
<1> QED
  BY <1>2, <1>4, <1>5, Zenon DEF Tip

\* The node of a chunk, or of a part of the last one.
LEMMA LeafIs ==
  ASSUME NEW p, NEW S, NEW M \in Seq(S), p[3] = M, NEW c \in Nat, NEW r \in Nat,
         Within(c, r, M), r <= CL
  PROVE  Node(p, c, r) = Tip(p, c, r)
<1>1. Node(p, c, r) = ChunkNode(p[1], p[2], SubSeq(p[3], InChunks(c) + 1, InChunks(c) + r), c)
  BY NodeIs
<1>2. InChunks(c) \in Nat /\ InChunks(c) + r <= Len(M)
  BY Amount, Zenon DEF Within
<1>3. SubSeq(p[3], InChunks(c) + 1, InChunks(c) + r) = Cut(M, InChunks(c), r)
  <2>1. Stretch(M, InChunks(c), r) = Cut(M, InChunks(c), r)
    BY ONLY <1>2, CutIs, M \in Seq(S), r \in Nat
  <2> QED
    BY <2>1, Zenon DEF Stretch
<1>4. ChunkNode(p[1], p[2], Cut(M, InChunks(c), r), c) = Tip(p, c, r)
  BY ONLY <1>2, TipIs, M \in Seq(S), r \in Nat, c \in Nat, p[3] = M
<1> QED
  BY <1>1, <1>3, <1>4, Zenon

\* The chaining value of a chunk hashed at one go is the tree's node over that
\* chunk.
LEMMA ChunkCVIs ==
  ASSUME NEW p, NEW S, NEW M \in Seq(S), p[3] = M, NEW c \in Nat, NEW r \in Nat,
         Within(c, r, M), r <= CL
  PROVE  ChunkCV(Cut(M, InChunks(c), r), p[1], c, p[2]) = Node(p, c, r)
<1>1. [chunk_state_init(p[1], p[2]) EXCEPT !.chunk_counter = c] = ChunkAt(p, c, 0)
  BY NewChunk, Zenon
<1>2. chunk_state_update(ChunkAt(p, c, 0), Cut(M, InChunks(c), r)) = ChunkAt(p, c, r)
  <2>1. InChunks(c) \in Nat /\ InChunks(c) + r <= Len(M)
    BY Amount, Zenon DEF Within
  <2>2. InChunks(c) + (0 + r) <= Len(M) /\ 0 \in Nat
    BY <2>1
  <2>3. chunk_state_update(ChunkAt(p, c, 0), Cut(M, InChunks(c) + 0, r)) = ChunkAt(p, c, 0 + r)
    BY ONLY <2>2, ChunkUpdate, M \in Seq(S), r \in Nat, c \in Nat, p[3] = M
  <2>4. InChunks(c) + 0 = InChunks(c) /\ 0 + r = r
    BY <2>1
  <2> QED
    BY <2>3, <2>4, Zenon
<1>3. ChunkCV(Cut(M, InChunks(c), r), p[1], c, p[2]) = Tip(p, c, r)
  <2>1. ChunkCV(Cut(M, InChunks(c), r), p[1], c, p[2])
          = output_chaining_value(chunk_state_output(ChunkAt(p, c, r)))
    BY <1>1, <1>2, Zenon DEF ChunkCV
  <2>2. chunk_state_output(ChunkAt(p, c, r)) = AsOutput(Tip(p, c, r))
    BY ChunkOutput
  <2>3. output_chaining_value(AsOutput(Tip(p, c, r))) = Tip(p, c, r)
    BY Outputs, Zenon
  <2> QED
    BY <2>1, <2>2, <2>3, Zenon
<1> QED
  BY <1>3, LeafIs, Zenon

\* One input of several blocks, hashed by itself.
OneDom(q) == 0 .. Len(q[1])
\* The recursion of hash_one over the blocks of its input.
OneBody(q, cv, k) ==
  IF k = 0 THEN q[2]
  ELSE compress_in_place(cv[k - 1], q[1][k], BLAKE3_BLOCK_LEN, q[3],
         q[4] \cup (IF k = 1 THEN q[5] ELSE {}) \cup (IF k = Len(q[1]) THEN q[6] ELSE {}))
One == INSTANCE Counting WITH Domain <- OneDom, Measure <- Itself, Body <- OneBody

\* hash_one satisfies the equation of its loop.
LEMMA HashOne ==
  ASSUME NEW blocks, NEW key, NEW counter, NEW flags, NEW flags_start, NEW flags_end,
         Len(blocks) \in Nat,
         NEW cv, cv = One!Recursive(<<blocks, key, counter, flags, flags_start, flags_end>>)
  PROVE  /\ hash_one(blocks, key, counter, flags, flags_start, flags_end) = cv[Len(blocks)]
         /\ cv[0] = key
         /\ \A k \in 1 .. Len(blocks) :
              cv[k] = <<cv[k - 1], blocks[k], BL, counter,
                        flags \cup (IF k = 1 THEN flags_start ELSE {})
                              \cup (IF k = Len(blocks) THEN flags_end ELSE {})>>
<1> DEFINE q == <<blocks, key, counter, flags, flags_start, flags_end>>
<1>1. /\ q[1] = blocks /\ q[2] = key /\ q[3] = counter /\ q[4] = flags
      /\ q[5] = flags_start /\ q[6] = flags_end
  OBVIOUS
<1>2. hash_one(blocks, key, counter, flags, flags_start, flags_end) = cv[Len(blocks)]
  BY DEF hash_one, One!Recursive, OneDom, OneBody
<1> HIDE DEF q
<1>3. One!Sees(q)
  <2>1. ASSUME NEW f, NEW g, NEW k \in 0 .. Len(blocks), \A y \in 0 .. Len(blocks) : y < k => f[y] = g[y]
        PROVE  OneBody(q, f, k) = OneBody(q, g, k)
    <3>1. k # 0 => f[k - 1] = g[k - 1]
      BY <2>1
    <3> QED
      BY <3>1, Zenon DEF OneBody
  <2> QED
    BY <1>1, <2>1 DEF One!Sees, OneDom, Itself
<1>4. cv = [x \in OneDom(q) |-> OneBody(q, cv, x)]
  <2>1. One!Recursive(q) = [x \in OneDom(q) |-> OneBody(q, One!Recursive(q), x)]
    BY <1>3, One!Recursion
  <2> QED
    BY <2>1, Zenon DEF q
<1>5. ASSUME NEW k \in 0 .. Len(blocks)
      PROVE  cv[k] = OneBody(q, cv, k)
  BY <1>1, <1>4 DEF OneDom
<1>6. cv[0] = key
  <2>1. 0 \in 0 .. Len(blocks)
    OBVIOUS
  <2> QED
    BY <1>1, <1>5, <2>1, Zenon DEF OneBody
<1>7. ASSUME NEW k \in 1 .. Len(blocks)
      PROVE  cv[k] = <<cv[k - 1], blocks[k], BL, counter,
                        flags \cup (IF k = 1 THEN flags_start ELSE {})
                              \cup (IF k = Len(blocks) THEN flags_end ELSE {})>>
  <2>1. k \in 0 .. Len(blocks) /\ k # 0
    OBVIOUS
  <2> QED
    BY <1>1, <1>5, <2>1, Zenon DEF OneBody, compress_in_place, BL
<1> QED
  BY <1>2, <1>6, <1>7, Zenon

\* hash_one over a pair of chaining values is their parent node.
LEMMA HashPair ==
  ASSUME NEW p, NEW x, NEW y
  PROVE  hash_one(<<<<x, y>>>>, p[1], 0, p[2] \cup {"PARENT"}, {}, {}) = Parent(p, x, y)
<1>1. ASSUME NEW key, NEW f, NEW none, NEW n, NEW pair, none = {}
      PROVE  hash_one(<<pair>>, key, n, f, none, none) = <<key, pair, BL, n, f>>
  <2> DEFINE blocks == <<pair>>
             cv == One!Recursive(<<blocks, key, n, f, none, none>>)
  <2>1. Len(blocks) = 1 /\ blocks[1] = pair /\ Len(blocks) \in Nat
    OBVIOUS
  <2>2. cv = One!Recursive(<<blocks, key, n, f, none, none>>)
    OBVIOUS
  <2> HIDE DEF blocks, cv
  <2>3. /\ hash_one(blocks, key, n, f, none, none) = cv[Len(blocks)]
        /\ cv[0] = key
        /\ \A k \in 1 .. Len(blocks) :
             cv[k] = <<cv[k - 1], blocks[k], BL, n,
                       f \cup (IF k = 1 THEN none ELSE {}) \cup (IF k = Len(blocks) THEN none ELSE {})>>
    BY ONLY <2>1, <2>2, HashOne
  <2>4. 1 \in 1 .. Len(blocks) /\ 1 - 1 = 0
    BY <2>1
  <2>5. (f \cup (IF 1 = 1 THEN none ELSE {})) \cup (IF 1 = Len(blocks) THEN none ELSE {}) = f
    BY <1>1
  <2>6. cv[1] = <<key, pair, BL, n, f>>
    BY <2>1, <2>3, <2>4, <2>5, Zenon
  <2> QED
    BY <2>1, <2>3, <2>6, Zenon DEF blocks
<1> QED
  BY <1>1, Zenon DEF Parent

----------------------------------------------------------------------------
\* Chunks hashed in parallel.

\* A chunk has a whole number of blocks.
LEMMA BlocksInChunk ==
  \E n \in Nat \ {0} : CL = InBlocks(n) /\ CL \div BL = n
<1>1. PICK n \in Nat \ {0} : CL = BL * n
  BY Lengths
<1>2. BL \in Nat \ {0}
  BY Lengths
<1>3. BL * n = n * BL
  BY <1>1, <1>2
<1>4. (n * BL) \div BL = n
  BY <1>1, <1>2, SMT
<1> QED
  BY <1>1, <1>3, <1>4 DEF InBlocks

\* The blocks hash_one sees in a chunk of the input are the chunk's blocks.
LEMMA SliceIsBlock ==
  ASSUME NEW p, NEW S, NEW M \in Seq(S), p[3] = M, NEW c \in Nat, NEW i \in Nat,
         Within(c, CL, M), InBlocks(i) + BL <= CL
  PROVE  Slice(Cut(M, InChunks(c), CL), BL, i + 1) = Block(p, c, i, InBlocks(i) + BL)
<1>1. PICK d \in Nat, e \in Nat : d = InChunks(c) /\ e = InBlocks(i)
  BY Amount
<1>2. BL \in Nat /\ CL \in Nat
  BY Lengths
<1>3. d + CL <= Len(M) /\ e + BL <= CL
  BY <1>1, Zenon DEF Within
<1>4. Stretch(Cut(M, d, CL), e, BL) = Cut(M, d + e, BL)
  BY ONLY <1>2, <1>3, CutOfCut, M \in Seq(S), d \in Nat, e \in Nat
<1>5. ((i + 1) - 1) * BL + 1 = e + 1 /\ (i + 1) * BL = e + BL
  <2>1. InBlocks(i + 1) = e + BL
    BY <1>1, Amount, Zenon
  <2>2. (i + 1) - 1 = i
    OBVIOUS
  <2> QED
    BY <1>1, <2>1, <2>2, Zenon DEF InBlocks
<1>6. Cut(M, InChunks(c) + InBlocks(i), BL) = Block(p, c, i, InBlocks(i) + BL)
  BY CutIsBlock
<1> QED
  BY <1>1, <1>4, <1>5, <1>6, Zenon DEF Slice, Stretch

\* A whole chunk, hashed by itself.
LEMMA HashChunk ==
  ASSUME NEW p, NEW S, NEW M \in Seq(S), p[3] = M, NEW c \in Nat, Within(c, CL, M),
         NEW blocks, blocks = [b \in 1 .. CL \div BL |-> Slice(Cut(M, InChunks(c), CL), BL, b)]
  PROVE  hash_one(blocks, p[1], c, p[2], {"CHUNK_START"}, {"CHUNK_END"}) = Node(p, c, CL)
<1>1. PICK n \in Nat \ {0} : CL = InBlocks(n) /\ CL \div BL = n
  BY BlocksInChunk
<1>2. Len(blocks) = n /\ Len(blocks) \in Nat
  BY <1>1
<1>3. ASSUME NEW i \in Nat, i < n
      PROVE  blocks[i + 1] = Block(p, c, i, InBlocks(i) + BL)
  <2>1. i + 1 \in 1 .. n
    BY <1>3
  <2>2. blocks[i + 1] = Slice(Cut(M, InChunks(c), CL), BL, i + 1)
    BY <1>1, <2>1, Zenon
  <2>3. InBlocks(i) + BL <= CL
    BY <1>1, <1>3, Amounts
  <2>4. Slice(Cut(M, InChunks(c), CL), BL, i + 1) = Block(p, c, i, InBlocks(i) + BL)
    BY ONLY <2>3, SliceIsBlock, M \in Seq(S), c \in Nat, i \in Nat, p[3] = M, Within(c, CL, M)
  <2> QED
    BY <2>2, <2>4, Zenon
<1>4. PICK cv : cv = One!Recursive(<<blocks, p[1], c, p[2], {"CHUNK_START"}, {"CHUNK_END"}>>)
  OBVIOUS
<1>5. ASSUME NEW key, NEW f, NEW starts, NEW ends,
             cv = One!Recursive(<<blocks, key, c, f, starts, ends>>)
      PROVE  /\ hash_one(blocks, key, c, f, starts, ends) = cv[Len(blocks)]
             /\ cv[0] = key
             /\ \A k \in 1 .. Len(blocks) :
                  cv[k] = <<cv[k - 1], blocks[k], BL, c,
                            f \cup (IF k = 1 THEN starts ELSE {}) \cup (IF k = Len(blocks) THEN ends ELSE {})>>
  <2>1. \A x, y : <<x, y>> = <<x, y>>
    OBVIOUS
  <2> QED
    BY ONLY <1>2, <1>5, HashOne
<1>6. ASSUME NEW i \in Nat, i < n
      PROVE  /\ hash_one(blocks, p[1], c, p[2], {"CHUNK_START"}, {"CHUNK_END"}) = cv[n]
             /\ cv[0] = p[1]
             /\ cv[i + 1] = <<cv[i], Block(p, c, i, InBlocks(i) + BL), BL, c,
                              (p[2] \cup Start(i)) \cup (IF i + 1 = n THEN {"CHUNK_END"} ELSE {})>>
  <2>1. i + 1 \in 1 .. n /\ (i + 1) - 1 = i /\ (i + 1 = 1 <=> i = 0)
    BY <1>6
  <2>2. (IF i + 1 = 1 THEN {"CHUNK_START"} ELSE {}) = Start(i)
    BY <2>1 DEF Start
  <2>3. /\ hash_one(blocks, p[1], c, p[2], {"CHUNK_START"}, {"CHUNK_END"}) = cv[Len(blocks)]
        /\ cv[0] = p[1]
        /\ cv[i + 1] = <<cv[(i + 1) - 1], blocks[i + 1], BL, c,
                         p[2] \cup (IF i + 1 = 1 THEN {"CHUNK_START"} ELSE {})
                              \cup (IF i + 1 = Len(blocks) THEN {"CHUNK_END"} ELSE {})>>
    <3>1. PICK starts, ends : starts = {"CHUNK_START"} /\ ends = {"CHUNK_END"}
      OBVIOUS
    <3>2. cv = One!Recursive(<<blocks, p[1], c, p[2], starts, ends>>)
      BY <1>4, <3>1, Zenon
    <3>3. /\ hash_one(blocks, p[1], c, p[2], starts, ends) = cv[Len(blocks)]
          /\ cv[0] = p[1]
          /\ \A k \in 1 .. Len(blocks) :
                  cv[k] = <<cv[k - 1], blocks[k], BL, c,
                            p[2] \cup (IF k = 1 THEN starts ELSE {}) \cup (IF k = Len(blocks) THEN ends ELSE {})>>
      BY ONLY <3>2, <1>5, Zenon
    <3>4. cv[i + 1] = <<cv[(i + 1) - 1], blocks[i + 1], BL, c,
                        p[2] \cup (IF i + 1 = 1 THEN starts ELSE {})
                             \cup (IF i + 1 = Len(blocks) THEN ends ELSE {})>>
      BY <1>2, <2>1, <3>3, Zenon
    <3> QED
      BY ONLY <3>1, <3>3, <3>4
  <2> QED
    BY <1>2, <1>3, <1>6, <2>1, <2>2, <2>3, Zenon
<1>7. ASSUME NEW k \in Nat, k < n
      PROVE  cv[k] = Chain(p, c, k)
  <2> DEFINE Bad == {j \in Nat : j < n /\ cv[j] # Chain(p, c, j)}
  <2>1. SUFFICES ASSUME Bad # {} PROVE FALSE
    BY <1>7
  <2>2. PICK j \in Bad : \A i \in Bad : j <= i
    BY <2>1, LeastNumber
  <2>3. j # 0
    <3>1. cv[0] = p[1] /\ Chain(p, c, 0) = p[1]
      <4>1. 0 \in Nat /\ 0 < n
        OBVIOUS
      <4> QED
        BY <1>6, <4>1, ChainIs, Zenon
    <3> QED
      BY <2>2, <3>1
  <2>4. PICK i \in Nat : j = i + 1
    <3>1. j - 1 \in Nat /\ j = (j - 1) + 1
      BY <2>2, <2>3
    <3> QED
      BY <3>1
  <2>5. i < n /\ i + 1 # n /\ ~ (j <= i) /\ j < n
    BY <2>2, <2>4
  <2>6. cv[i] = Chain(p, c, i)
    BY <2>2, <2>4, <2>5
  <2>7. cv[i + 1] = <<cv[i], Block(p, c, i, InBlocks(i) + BL), BL, c, (p[2] \cup Start(i)) \cup {}>>
    BY <1>6, <2>4, <2>5, Zenon
  <2>8. (p[2] \cup Start(i)) \cup {} = p[2] \cup Start(i)
    OBVIOUS
  <2>9. cv[j] = Chain(p, c, j)
    <3>1. Chain(p, c, i + 1) = <<Chain(p, c, i), Block(p, c, i, InBlocks(i) + BL), BL, c, p[2] \cup Start(i)>>
      BY <2>4, ChainIs
    <3> QED
      BY <2>4, <2>6, <2>7, <2>8, <3>1, Zenon
  <2> QED
    BY <2>2, <2>9
<1>8. PICK b \in Nat : n = b + 1
  <2>1. n - 1 \in Nat /\ n = (n - 1) + 1
    BY <1>1
  <2> QED
    BY <2>1
<1>9. b < n /\ InBlocks(b) + BL = CL
  <2>1. b < n
    BY <1>8
  <2>2. InBlocks(b + 1) = InBlocks(b) + BL
    BY Amount
  <2> QED
    BY <1>1, <1>8, <2>1, <2>2, Zenon
<1>10. hash_one(blocks, p[1], c, p[2], {"CHUNK_START"}, {"CHUNK_END"})
         = <<Chain(p, c, b), Block(p, c, b, CL), BL, c, (p[2] \cup Start(b)) \cup {"CHUNK_END"}>>
  BY <1>6, <1>7, <1>8, <1>9, Zenon
<1>11. WholeBlocks(CL) = b /\ CL - InBlocks(b) = BL
  <2>1. PICK w \in Nat : w = InBlocks(b) /\ BL \in Nat \ {0} /\ CL \in Nat \ {0} /\ w + BL = CL
    BY <1>9, Amount
  <2>2. w < CL /\ CL <= w + BL /\ CL - w = BL
    BY ONLY <2>1
  <2>3. InBlocks(b) < CL /\ CL <= InBlocks(b) + BL /\ CL - InBlocks(b) = BL
    BY <2>1, <2>2, Zenon
  <2> QED
    BY <2>1, <2>3, WholeBlocksIs, Zenon
<1>12. Tip(p, c, CL) = <<Chain(p, c, b), Block(p, c, b, CL), BL, c, (p[2] \cup Start(b)) \cup {"CHUNK_END"}>>
  BY <1>11, Zenon DEF Tip
<1>13. Node(p, c, CL) = Tip(p, c, CL)
  <2>1. CL \in Nat /\ CL <= CL
    BY Lengths
  <2> QED
    BY ONLY <2>1, LeafIs, M \in Seq(S), c \in Nat, p[3] = M, Within(c, CL, M)
<1> QED
  BY <1>10, <1>12, <1>13, Zenon

----------------------------------------------------------------------------
\* Rows of subtrees.

\* Subtrees of s chunks each, side by side from chunk c on: where number j
\* starts, and how many chunks q of them have.
Place(c, s, j) == c + (j - 1) * s
Size(q, s) == q * s

\* The j-th subtree of twice the size begins where the (2j-1)-th begins, and
\* its second half where the 2j-th does.
LEMMA PlaceTwice ==
  ASSUME NEW c \in Nat, NEW s \in Nat, NEW j \in Nat \ {0}
  PROVE  /\ Place(c, s, j) \in Nat
         /\ Place(c, 2 * s, j) = Place(c, s, 2 * j - 1)
         /\ Place(c, 2 * s, j) + s = Place(c, s, 2 * j)
<1>1. PICK i \in Nat : j = i + 1
  <2>1. j - 1 \in Nat /\ j = (j - 1) + 1
    OBVIOUS
  <2> QED
    BY <2>1
<1>2. j - 1 = i /\ (2 * j - 1) - 1 = 2 * i /\ 2 * j - 1 = 2 * i + 1
  BY <1>1
<1>3. /\ i * s \in Nat
      /\ (2 * i) * s = 2 * (i * s) /\ i * (2 * s) = 2 * (i * s) /\ (2 * i + 1) * s = 2 * (i * s) + s
  BY <1>1
<1>4. PICK x \in Nat : x = i * s
  BY <1>3
<1>5. Place(c, s, j) = c + x /\ c + x \in Nat
  BY <1>2, <1>4 DEF Place
<1>6. Place(c, 2 * s, j) = c + 2 * x /\ Place(c, s, 2 * j - 1) = c + 2 * x
  BY <1>2, <1>3, <1>4, Zenon DEF Place
<1>7. Place(c, s, 2 * j) = (c + 2 * x) + s
  <2>1. Place(c, s, 2 * j) = c + (2 * x + s)
    BY <1>2, <1>3, <1>4, Zenon DEF Place
  <2>2. c + (2 * x + s) = (c + 2 * x) + s
    BY ONLY c \in Nat, x \in Nat, s \in Nat
  <2> QED
    BY <2>1, <2>2, Zenon
<1> QED
  BY <1>5, <1>6, <1>7, Zenon

\* Behind q subtrees the j-th is the (q+j)-th from the beginning.
LEMMA PlaceBehind ==
  ASSUME NEW c \in Nat, NEW s \in Nat, NEW q \in Nat, NEW j \in Nat \ {0}
  PROVE  Place(c + Size(q, s), s, j) = Place(c, s, q + j)
<1>1. PICK i \in Nat : j = i + 1
  <2>1. j - 1 \in Nat /\ j = (j - 1) + 1
    OBVIOUS
  <2> QED
    BY <2>1
<1>2. j - 1 = i /\ (q + j) - 1 = q + i
  BY <1>1
<1>3. PICK x \in Nat, y \in Nat : x = i * s /\ y = q * s /\ (q + i) * s = y + x
  <2>1. i * s \in Nat /\ q * s \in Nat /\ (q + i) * s = q * s + i * s
    OBVIOUS
  <2> QED
    BY <2>1
<1>4. Place(c, s, q + j) = c + (y + x)
  BY <1>2, <1>3, Zenon DEF Place
<1>5. Place(c + Size(q, s), s, j) = (c + y) + x
  BY <1>2, <1>3, Zenon DEF Place, Size
<1>6. (c + y) + x = c + (y + x)
  BY ONLY c \in Nat, x \in Nat, y \in Nat
<1> QED
  BY <1>4, <1>5, <1>6, Zenon

\* The same with the sums named, as later proofs meet them.
LEMMA PlaceOfRight ==
  ASSUME NEW c \in Nat, NEW s \in Nat, NEW q \in Nat, NEW j \in Nat \ {0},
         NEW b, b = c + Size(q, s), NEW i, i = q + j
  PROVE  Place(b, s, j) = Place(c, s, i)
BY PlaceBehind

\* What the sizes of rows of subtrees are, so that later proofs multiply
\* nothing.
LEMMA Sizes ==
  ASSUME NEW q \in Nat, NEW s \in Nat
  PROVE  /\ Size(q, s) \in Nat
         /\ Size(q, 1) = q /\ Size(1, s) = s /\ Size(2, s) = 2 * s
         /\ Size(2 * q, s) = Size(q, 2 * s) /\ Size(2 * q, s) = 2 * Size(q, s)
<1>1. q * s \in Nat /\ q * 1 = q /\ 1 * s = s /\ (2 * q) * s = q * (2 * s) /\ (2 * q) * s = 2 * (q * s)
  OBVIOUS
<1> QED
  BY <1>1, Zenon DEF Size

\* Where the first and the second subtree begin.
LEMMA FirstPlaces ==
  ASSUME NEW c \in Nat, NEW s \in Nat
  PROVE  Place(c, s, 1) = c /\ Place(c, s, 2) = c + s
<1>1. 1 - 1 = 0 /\ 2 - 1 = 1 /\ 0 * s = 0 /\ 1 * s = s /\ c + 0 = c
  OBVIOUS
<1> QED
  BY <1>1, Zenon DEF Place

\* The nodes of the q subtrees of s chunks each that follow one another from
\* chunk c on: the array of chaining values that compress_subtree_wide returns.
Row(p, c, s, q) == [j \in 1 .. q |-> Node(p, Place(c, s, j), InChunks(s))]

\* The elements of a row.
LEMMA RowIs ==
  ASSUME NEW p, NEW c, NEW s, NEW q \in Nat
  PROVE  /\ \E S : Row(p, c, s, q) \in Seq(S)
         /\ Len(Row(p, c, s, q)) = q
         /\ \A j \in 1 .. q : Row(p, c, s, q)[j] = Node(p, Place(c, s, j), InChunks(s))
<1> DEFINE f == Row(p, c, s, q)
           S == {Node(p, Place(c, s, j), InChunks(s)) : j \in 1 .. q}
<1>1. f \in [1 .. q -> S] /\ \A j \in 1 .. q : f[j] = Node(p, Place(c, s, j), InChunks(s))
  BY DEF Row
<1> HIDE DEF f, S
<1>2. f \in Seq(S) /\ Len(f) = q
  BY <1>1
<1> QED
  BY <1>1, <1>2 DEF f

\* As many whole chunks as there are, hashed next to one another.
LEMMA ParallelChunks ==
  ASSUME NEW p, NEW S, NEW M \in Seq(S), p[3] = M, NEW c \in Nat, NEW q \in Nat,
         Within(c, InChunks(q), M)
  PROVE  compress_chunks_parallel(Cut(M, InChunks(c), InChunks(q)), p[1], c, p[2]) = Row(p, c, 1, q)
<1> DEFINE input == Cut(M, InChunks(c), InChunks(q))
           full == Len(input) \div CL
           Blocks(chunk) == [b \in 1 .. CL \div BL |-> Slice(chunk, BL, b)]
           cvs == [j \in 1 .. full |->
                     hash_one(Blocks(Slice(input, CL, j)), p[1], c + j - 1, p[2],
                              {"CHUNK_START"}, {"CHUNK_END"})]
<1>1. PICK d \in Nat, e \in Nat : d = InChunks(c) /\ e = InChunks(q) /\ d + e <= Len(M)
  BY Amount DEF Within
<1>2. CL \in Nat \ {0} /\ BL \in Nat \ {0}
  BY Lengths
<1>3. Len(input) = e
  <2>1. Len(Cut(M, d, e)) = e
    BY <1>1, CutIs
  <2> QED
    BY <1>1, <2>1, Zenon
<1>4. full = q
  <2>1. (q * CL) \div CL = q
    BY <1>2, SMT
  <2> QED
    BY <1>1, <1>3, <2>1, Zenon DEF InChunks
<1>5. Drop(input, full * CL) = <<>>
  <2>1. Drop(Cut(M, d, e), e) = Cut(M, d + e, e - e)
    <3>1. e + 0 <= e
      OBVIOUS
    <3> QED
      BY <1>1, <3>1, CutOfCut
  <2>2. e - e = 0 /\ Cut(M, d + e, 0) = <<>>
    <3>1. d + e \in Nat /\ (d + e) + 0 <= Len(M)
      BY <1>1
    <3> QED
      BY <3>1, CutIs
  <2> QED
    BY <1>1, <1>4, <2>1, <2>2, Zenon DEF InChunks
<1>6. ASSUME NEW j \in 1 .. q
      PROVE  hash_one(Blocks(Slice(input, CL, j)), p[1], c + j - 1, p[2], {"CHUNK_START"}, {"CHUNK_END"})
               = Node(p, Place(c, 1, j), InChunks(1))
  <2>1. PICK i \in Nat : j = i + 1 /\ i < q /\ c + j - 1 = c + i /\ j - 1 = i
    <3>1. j - 1 \in Nat /\ j = (j - 1) + 1 /\ j - 1 < q /\ c + j - 1 = c + (j - 1)
      OBVIOUS
    <3> QED
      BY <3>1
  <2>2. PICK w \in Nat : w = InChunks(i) /\ w + CL <= e
    <3>1. InChunks(i) + CL <= e /\ InChunks(i) \in Nat
      BY <1>1, <2>1, Amounts, Amount
    <3> QED
      BY <3>1
  <2>3. PICK a \in Nat : a = c + i
    BY <2>1
  <2>4. InChunks(a) = d + w
    BY <1>1, <2>1, <2>2, <2>3, Amounts, Zenon
  <2>5. Slice(input, CL, j) = Cut(M, InChunks(a), CL)
    <3>1. Stretch(Cut(M, d, e), w, CL) = Cut(M, d + w, CL)
      <4>1. d + e <= Len(M)
        BY <1>1, Zenon
      <4>2. w + CL <= e
        BY <2>2, Zenon
      <4>3. CL \in Nat
        BY <1>2
      <4> QED
        BY ONLY <4>1, <4>2, <4>3, CutOfCut, M \in Seq(S), d \in Nat, e \in Nat, w \in Nat
    <3>2. (j - 1) * CL + 1 = w + 1 /\ j * CL = w + CL
      <4>1. InChunks(i + 1) = InChunks(i) + CL
        BY <2>1, Amount
      <4> QED
        BY <2>1, <2>2, <4>1, Zenon DEF InChunks
    <3> QED
      BY <1>1, <2>4, <3>1, <3>2, Zenon DEF Slice, Stretch
  <2>6. Within(a, CL, M)
    <3>1. (d + w) + CL <= Len(M)
      <4>1. d + e <= Len(M)
        BY <1>1, Zenon
      <4>2. w + CL <= e
        BY <2>2, Zenon
      <4>3. CL \in Nat /\ Len(M) \in Nat
        BY <1>2
      <4> QED
        BY ONLY <4>1, <4>2, <4>3, d \in Nat, e \in Nat, w \in Nat
    <3> QED
      BY <2>4, <3>1, Zenon DEF Within
  <2>7. PICK blocks : blocks = Blocks(Cut(M, InChunks(a), CL))
    OBVIOUS
  <2>8. hash_one(blocks, p[1], a, p[2], {"CHUNK_START"}, {"CHUNK_END"}) = Node(p, a, CL)
    <3>1. blocks = [b \in 1 .. CL \div BL |-> Slice(Cut(M, InChunks(a), CL), BL, b)]
      BY <2>7, Zenon
    <3> QED
      BY ONLY <2>3, <2>6, <3>1, HashChunk, M \in Seq(S), a \in Nat, p[3] = M
  <2>9. Place(c, 1, j) = a /\ InChunks(1) = CL
    <3>1. j \in Nat \ {0} /\ 1 \in Nat
      OBVIOUS
    <3>2. Place(c, 1, j) = c + (j - 1)
      <4>1. (j - 1) * 1 = j - 1
        BY <3>1
      <4> QED
        BY <4>1, Zenon DEF Place
    <3> QED
      BY <2>1, <2>3, <3>2, Products, Zenon
  <2> HIDE DEF Blocks, input
  <2> QED
    BY <2>1, <2>3, <2>5, <2>7, <2>8, <2>9, Zenon
<1>7. cvs = Row(p, c, 1, q)
  <2> HIDE DEF full, input, Blocks
  <2> QED
    BY <1>4, <1>6, Zenon DEF Row
<1>8. compress_chunks_parallel(input, p[1], c, p[2])
        = IF Drop(input, full * CL) = <<>> THEN cvs
          ELSE Append(cvs, ChunkCV(Drop(input, full * CL), p[1], c + full, p[2]))
  <2> DEFINE inputs == [j \in 1 .. full |-> Blocks(Slice(input, CL, j))]
  <2>1. Len(inputs) = full
    BY <1>4
  <2>2. hash_many(inputs, p[1], c, TRUE, p[2], {"CHUNK_START"}, {"CHUNK_END"}) = cvs
    <3>1. \A j \in 1 .. full : inputs[j] = Blocks(Slice(input, CL, j))
      OBVIOUS
    <3> HIDE DEF inputs, full, Blocks, input
    <3> QED
      BY <2>1, <3>1, Zenon DEF hash_many
  <2>3. compress_chunks_parallel(input, p[1], c, p[2])
          = IF Drop(input, full * CL) = <<>>
            THEN hash_many(inputs, p[1], c, TRUE, p[2], {"CHUNK_START"}, {"CHUNK_END"})
            ELSE Append(hash_many(inputs, p[1], c, TRUE, p[2], {"CHUNK_START"}, {"CHUNK_END"}),
                        ChunkCV(Drop(input, full * CL), p[1], c + full, p[2]))
    <3> HIDE DEF input
    <3> QED
      BY Zenon DEF compress_chunks_parallel, CL, BL
  <2> HIDE DEF inputs, cvs, full, Blocks, input
  <2> QED
    BY <2>2, <2>3, Zenon
<1> HIDE DEF cvs, full, Blocks
<1> QED
  BY <1>5, <1>7, <1>8, Zenon

----------------------------------------------------------------------------
\* compress_parents_parallel.

\* The parents of a row are the row of the trees of twice the size.
LEMMA ParallelParents ==
  ASSUME NEW p, NEW c \in Nat, NEW s \in Pow2, NEW q \in Nat, NEW cvs, cvs = Row(p, c, s, 2 * q)
  PROVE  compress_parents_parallel(cvs, p[1], p[2]) = Row(p, c, 2 * s, q)
<1>1. PICK n \in Nat : n = 2 * q
  OBVIOUS
<1>2. PICK T : cvs \in Seq(T)
  BY <1>1, RowIs, Zenon
<1>3. Len(cvs) = n /\ \A j \in 1 .. n : cvs[j] = Node(p, Place(c, s, j), InChunks(s))
  <2>1. Len(Row(p, c, s, n)) = n
        /\ \A j \in 1 .. n : Row(p, c, s, n)[j] = Node(p, Place(c, s, j), InChunks(s))
    BY ONLY RowIs, n \in Nat
  <2> QED
    BY <1>1, <2>1, Zenon
<1>4. Len(cvs) \div 2 = q
  <2>1. n \div 2 = q
    BY <1>1
  <2> QED
    BY <1>3, <2>1, Zenon
<1>5. s \in Nat
  BY PowersOf2
<1>6. ASSUME NEW j \in 1 .. q
      PROVE  hash_one(<<Slice(cvs, 2, j)>>, p[1], 0, p[2] \cup {"PARENT"}, {}, {})
               = Node(p, Place(c, 2 * s, j), InChunks(2 * s))
  <2>1. PICK i \in Nat : i = (j - 1) * 2 /\ j * 2 = i + 2 /\ 2 * j - 1 = i + 1 /\ 2 * j = i + 2 /\ i + 2 <= n
    <3>1. (j - 1) * 2 \in Nat /\ j * 2 = (j - 1) * 2 + 2 /\ 2 * j - 1 = (j - 1) * 2 + 1
          /\ 2 * j = (j - 1) * 2 + 2 /\ (j - 1) * 2 + 2 <= 2 * q
      OBVIOUS
    <3> QED
      BY <1>1, <3>1
  <2>2. Slice(cvs, 2, j) = <<cvs[i + 1], cvs[i + 2]>>
    <3>1. Slice(cvs, 2, j) = Stretch(cvs, i, 2)
      BY <2>1, Zenon DEF Slice, Stretch
    <3>2. Stretch(cvs, i, 2) = Cut(cvs, i, 2)
      BY ONLY <1>2, <1>3, <2>1, CutIs, n \in Nat, i \in Nat
    <3>3. Cut(cvs, i, 2) = <<cvs[i + 1], cvs[i + 2]>>
      <4>1. \A x : [k \in 1 .. 2 |-> cvs[x + k]] = <<cvs[x + 1], cvs[x + 2]>>
        BY ONLY SMT
      <4> QED
        BY <4>1, Zenon DEF Cut
    <3> QED
      BY <3>1, <3>2, <3>3, Zenon
  <2>3. PICK a \in Nat : a = Place(c, 2 * s, j) /\ Place(c, s, i + 1) = a /\ Place(c, s, i + 2) = a + s
    <3>1. j \in Nat \ {0}
      OBVIOUS
    <3>2. /\ Place(c, 2 * s, j) = Place(c, s, 2 * j - 1)
          /\ Place(c, 2 * s, j) + s = Place(c, s, 2 * j)
      BY <1>5, <3>1, PlaceTwice, Zenon
    <3>3. 2 * s \in Nat
      BY <1>5
    <3>4. Place(c, 2 * s, j) \in Nat
      BY <3>1, <3>3, PlaceTwice, Zenon
    <3> QED
      BY <2>1, <3>2, <3>4, Zenon
  <2>4. i + 1 \in 1 .. n /\ i + 2 \in 1 .. n
    BY ONLY <2>1, i \in Nat, n \in Nat
  <2>5. cvs[i + 1] = Node(p, a, InChunks(s)) /\ cvs[i + 2] = Node(p, a + s, InChunks(s))
    BY <1>3, <2>3, <2>4, Zenon
  <2>6. Node(p, a, InChunks(2 * s)) = Parent(p, Node(p, a, InChunks(s)), Node(p, a + s, InChunks(s)))
    BY <2>3, NodeOfHalves
  <2> QED
    BY <2>2, <2>3, <2>5, <2>6, HashPair, Zenon
<1>7. PICK key, flags : key = p[1] /\ flags = p[2] \cup {"PARENT"}
  OBVIOUS
<1> DEFINE inputs == [j \in 1 .. q |-> <<Slice(cvs, 2, j)>>]
<1>8. hash_many(inputs, key, 0, FALSE, flags, {}, {}) = Row(p, c, 2 * s, q)
  <2>1. Len(inputs) = q /\ \A j \in 1 .. q : inputs[j] = <<Slice(cvs, 2, j)>>
    OBVIOUS
  <2> HIDE DEF inputs
  <2>2. \A none : hash_many(inputs, key, 0, FALSE, flags, none, none)
                    = [j \in 1 .. q |-> hash_one(<<Slice(cvs, 2, j)>>, key, 0, flags, none, none)]
    BY <2>1, Zenon DEF hash_many
  <2>3. hash_many(inputs, key, 0, FALSE, flags, {}, {})
          = [j \in 1 .. q |-> hash_one(<<Slice(cvs, 2, j)>>, key, 0, flags, {}, {})]
    BY <2>2
  <2>4. \A j \in 1 .. q : hash_one(<<Slice(cvs, 2, j)>>, key, 0, flags, {}, {})
                            = Node(p, Place(c, 2 * s, j), InChunks(2 * s))
    BY <1>6, <1>7
  <2> QED
    BY <2>3, <2>4 DEF Row
<1>9. Drop(cvs, n) = <<>>
  BY <1>2, <1>3 DEF Drop
<1>10. Row(p, c, 2 * s, q) \o <<>> = Row(p, c, 2 * s, q)
  <2>1. PICK U : Row(p, c, 2 * s, q) \in Seq(U)
    BY RowIs
  <2> QED
    BY <2>1
<1>11. compress_parents_parallel(cvs, key, p[2])
         = hash_many(inputs, key, 0, FALSE, flags, {}, {}) \o Drop(cvs, n)
  <2> DEFINE pairs == Len(cvs) \div 2
  <2>1. compress_parents_parallel(cvs, key, p[2])
          = hash_many([j \in 1 .. pairs |-> <<Slice(cvs, 2, j)>>], key, 0, FALSE, p[2] \cup {"PARENT"}, {}, {})
            \o Drop(cvs, 2 * pairs)
    BY DEF compress_parents_parallel
  <2>2. pairs = q
    BY <1>4
  <2> HIDE DEF pairs
  <2> QED
    BY <1>1, <1>7, <2>1, <2>2
<1> QED
  BY <1>7, <1>8, <1>9, <1>10, <1>11

----------------------------------------------------------------------------
\* compress_subtree_wide by its steps.

\* The halves of a subtree, brought together.
Both(degree, n, left, right, key, flags) ==
  LET at == IF n > BLAKE3_CHUNK_LEN /\ degree = 1 THEN 2 ELSE degree
      cv_array == [i \in 1 .. at + Len(right) |->
                     IF i > at THEN right[i - at]
                     ELSE IF i <= Len(left) THEN left[i] ELSE Garbage]
  IN  IF Len(left) = 1 THEN SubSeq(cv_array, 1, 2)
      ELSE compress_parents_parallel(SubSeq(cv_array, 1, Len(left) + Len(right)), key, flags)

\* The recursion of compress_subtree_wide on the parts of its input; the
\* parameter q is the input, the key, the number of the first chunk, the flags
\* and the degree.
WideBody(q, wide, part) ==
  LET from == part[1]
      len == part[2]
      n == left_len(len)
  IN  IF len <= q[5] * BLAKE3_CHUNK_LEN
      THEN compress_chunks_parallel(SubSeq(q[1], from + 1, from + len), q[2],
             q[3] + from \div BLAKE3_CHUNK_LEN, q[4])
      ELSE Both(q[5], n, wide[<<from, n>>], wide[<<from + n, len - n>>], q[2], q[4])
Wides == INSTANCE Counting WITH Domain <- PairDom, Measure <- Second, Body <- WideBody
Wide(q, from, len) == Wides!Recursive(q)[<<from, len>>]

\* It calls itself on shorter parts only: the left part is neither empty nor
\* everything.
LEMMA WideSees ==
  ASSUME NEW q, q[5] \in Nat \ {0}
  PROVE  Wides!Sees(q)
<1>1. CL \in Nat \ {0}
  BY Lengths
<1>2. ASSUME NEW f, NEW g, NEW from \in Nat, NEW len \in Nat,
             \A y \in Nat \X Nat : y[2] < len => f[y] = g[y]
      PROVE  WideBody(q, f, <<from, len>>) = WideBody(q, g, <<from, len>>)
  <2>1. CASE len <= q[5] * CL
    BY <2>1 DEF WideBody, CL
  <2>2. CASE ~ (len <= q[5] * CL)
    <3>1. len > CL
      <4>1. CL <= q[5] * CL /\ q[5] * CL \in Nat
        <5>1. CL <= InChunks(q[5]) /\ InChunks(q[5]) \in Nat
          BY Amount
        <5> QED
          BY <5>1, Zenon DEF InChunks
      <4> QED
        BY <1>1, <2>2, <4>1
    <3>2. PICK n \in Nat \ {0} : n = left_len(len) /\ n < len
      <4>1. LET h == LeftChunks(len)
            IN  h \in Nat \ {0} /\ InChunks(h) < len /\ left_len(len) = InChunks(h)
        BY <3>1, LeftChunksFor, PowersOf2
      <4> QED
        BY <4>1, Amount
    <3>3. f[<<from, n>>] = g[<<from, n>>] /\ f[<<from + n, len - n>>] = g[<<from + n, len - n>>]
      <4>1. <<from, n>> \in Nat \X Nat /\ <<from + n, len - n>> \in Nat \X Nat
        BY <3>2
      <4>2. <<from, n>>[2] < len /\ <<from + n, len - n>>[2] < len
        BY <3>2
      <4> QED
        BY <1>2, <4>1, <4>2
    <3>4. \A h : WideBody(q, h, <<from, len>>)
                   = Both(q[5], n, h[<<from, n>>], h[<<from + n, len - n>>], q[2], q[4])
      BY <2>2, <3>2 DEF WideBody, CL
    <3> QED
      BY <3>3, <3>4, Zenon
  <2> QED
    BY <2>1, <2>2
<1>3. ASSUME NEW x \in Nat \X Nat, NEW f, NEW g,
             \A y \in Nat \X Nat : y[2] < x[2] => f[y] = g[y]
      PROVE  WideBody(q, f, x) = WideBody(q, g, x)
  <2>1. PICK from \in Nat, len \in Nat : x = <<from, len>>
    OBVIOUS
  <2> QED
    BY <1>2, <1>3, <2>1
<1> QED
  BY <1>3 DEF Wides!Sees, PairDom, Second

\* The recursion satisfies its equation.
LEMMA WideIs ==
  ASSUME NEW q, q[5] \in Nat \ {0}, NEW from \in Nat, NEW len \in Nat
  PROVE  /\ len <= InChunks(q[5]) =>
              Wide(q, from, len)
                = compress_chunks_parallel(Stretch(q[1], from, len), q[2], q[3] + from \div CL, q[4])
         /\ ~ (len <= InChunks(q[5])) =>
              Wide(q, from, len)
                = Both(q[5], left_len(len), Wide(q, from, left_len(len)),
                       Wide(q, from + left_len(len), len - left_len(len)), q[2], q[4])
<1>1. Wides!Recursive(q) = [x \in PairDom(q) |-> WideBody(q, Wides!Recursive(q), x)]
  BY WideSees, Wides!Recursion
<1>2. Wides!Recursive(q)[<<from, len>>] = WideBody(q, Wides!Recursive(q), <<from, len>>)
  BY <1>1 DEF PairDom
<1>3. \A f : WideBody(q, f, <<from, len>>)
         = IF len <= q[5] * BLAKE3_CHUNK_LEN
           THEN compress_chunks_parallel(SubSeq(q[1], from + 1, from + len), q[2],
                  q[3] + from \div BLAKE3_CHUNK_LEN, q[4])
           ELSE Both(q[5], left_len(len), f[<<from, left_len(len)>>],
                     f[<<from + left_len(len), len - left_len(len)>>], q[2], q[4])
  BY DEF WideBody
<1> QED
  BY <1>2, <1>3, Zenon DEF Wide, Stretch, InChunks, CL

\* At most degree chunks are hashed in parallel,
LEMMA WideLeaf ==
  ASSUME NEW q, q[5] \in Nat \ {0}, NEW from \in Nat, NEW len \in Nat, len <= InChunks(q[5])
  PROVE  Wide(q, from, len)
           = compress_chunks_parallel(Stretch(q[1], from, len), q[2], q[3] + from \div CL, q[4])
BY WideIs

\* and more are split.
LEMMA WideBoth ==
  ASSUME NEW q, q[5] \in Nat \ {0}, NEW from \in Nat, NEW len \in Nat, ~ (len <= InChunks(q[5])),
         NEW n, n = left_len(len), NEW middle, middle = from + n, NEW rest, rest = len - n
  PROVE  Wide(q, from, len) = Both(q[5], n, Wide(q, from, n), Wide(q, middle, rest), q[2], q[4])
BY WideIs, Zenon

\* compress_subtree_wide is that recursion on all of its input.
LEMMA SubtreeWideIs ==
  ASSUME NEW input, NEW key, NEW counter, NEW flags, NEW degree
  PROVE  compress_subtree_wide(input, key, counter, flags, degree)
           = Wide(<<input, key, counter, flags, degree>>, 0, Len(input))
BY DEF compress_subtree_wide, Wide, Wides!Recursive, PairDom, WideBody, Both

\* How many chaining values come of a subtree of u chunks.
Width(u, degree) == IF u <= degree THEN u ELSE IF degree = 1 THEN 2 ELSE degree

\* How many chaining values compress_subtree_wide returns for a whole subtree:
\* a power of two, and never a single one for more than a chunk.
LEMMA Widths ==
  ASSUME NEW u \in Pow2, NEW degree \in Pow2
  PROVE  /\ Width(u, degree) \in Pow2 /\ (u # 1 => Width(u, degree) # 1)
         /\ \A h \in Pow2 : u = 2 * h /\ u > degree =>
              /\ Width(h, degree) = IF InChunks(h) > CL /\ degree = 1 THEN 2 ELSE degree
              /\ Width(h, degree) = 1 => Width(u, degree) = 2 /\ h = 1
              /\ Width(h, degree) # 1 => Width(u, degree) = Width(h, degree)
<1>1. 1 \in Pow2 /\ 2 \in Pow2 /\ 2 * 1 = 2
  BY PowersOf2
<1>2. u \in Nat \ {0} /\ degree \in Nat \ {0}
  BY PowersOf2
<1>3. Width(u, degree) \in Pow2 /\ (u # 1 => Width(u, degree) # 1)
  BY <1>1, <1>2 DEF Width
<1>4. ASSUME NEW h \in Pow2, u = 2 * h, u > degree
      PROVE  /\ Width(h, degree) = IF InChunks(h) > CL /\ degree = 1 THEN 2 ELSE degree
             /\ Width(h, degree) = 1 => Width(u, degree) = 2 /\ h = 1
             /\ Width(h, degree) # 1 => Width(u, degree) = Width(h, degree)
  <2>1. h \in Nat \ {0}
    BY PowersOf2
  <2>2. degree <= h
    <3>1. 2 * degree <= u
      BY <1>2, <1>4, PowerDivides
    <3> QED
      BY <1>2, <1>4, <2>1, <3>1
  <2>3. InChunks(h) > CL <=> h # 1
    <3>1. InChunks(1) = CL /\ CL \in Nat \ {0}
      BY Products, Lengths
    <3>2. 1 < h => InChunks(1) + CL <= InChunks(h)
      BY <2>1, Amounts
    <3>3. InChunks(h) \in Nat
      BY <2>1, Amount
    <3> QED
      BY <2>1, <3>1, <3>2, <3>3
  <2> QED
    BY <1>2, <1>4, <2>1, <2>2, <2>3 DEF Width
<1> QED
  BY <1>3, <1>4

----------------------------------------------------------------------------
\* compress_subtree_wide returns a row of nodes.

\* How many places the array has for the left half, and the row that two rows
\* of w come to.
RoomFor(n, degree) == IF n > CL /\ degree = 1 THEN 2 ELSE degree
\* What joining the two halves of a subtree gives: with a width of 1 both
\* chaining values are returned as they are, otherwise their parents.
Joined(p, a, s, w) == IF w = 1 THEN Row(p, a, s, 2) ELSE Row(p, a, 2 * s, w)

\* Two rows side by side, of as many subtrees as the array has places for.
LEMMA BothRows ==
  ASSUME NEW p, NEW degree, NEW n, NEW w \in Nat \ {0}, NEW s \in Pow2, NEW a \in Nat,
         w = RoomFor(n, degree),
         NEW left, left = Row(p, a, s, w),
         NEW b \in Nat, b = a + Size(w, s), NEW right, right = Row(p, b, s, w)
  PROVE  Both(degree, n, left, right, p[1], p[2])
           = Joined(p, a, s, w)
<1> DEFINE cv_array == [i \in 1 .. w + w |->
                          IF i > w THEN right[i - w] ELSE IF i <= w THEN left[i] ELSE Garbage]
<1>1. s \in Nat /\ w \in Nat
  BY PowersOf2
<1>3. /\ Len(left) = w /\ \A j \in 1 .. w : left[j] = Node(p, Place(a, s, j), InChunks(s))
      /\ Len(right) = w /\ \A j \in 1 .. w : right[j] = Node(p, Place(b, s, j), InChunks(s))
  <2>1. /\ Len(Row(p, a, s, w)) = w
        /\ \A j \in 1 .. w : Row(p, a, s, w)[j] = Node(p, Place(a, s, j), InChunks(s))
    BY ONLY <1>1, RowIs
  <2>2. /\ Len(Row(p, b, s, w)) = w
        /\ \A j \in 1 .. w : Row(p, b, s, w)[j] = Node(p, Place(b, s, j), InChunks(s))
    BY ONLY <1>1, RowIs
  <2>3. left = Row(p, a, s, w) /\ right = Row(p, b, s, w)
    OBVIOUS
  <2> QED
    BY <2>1, <2>2, <2>3, Zenon
<1>4. PICK m \in Nat : m = w + w /\ m = 2 * w
  BY <1>1
<1>5. cv_array = Row(p, a, s, m)
  <2>1. ASSUME NEW i \in 1 .. m
        PROVE  (IF i > w THEN right[i - w] ELSE IF i <= w THEN left[i] ELSE Garbage)
                 = Node(p, Place(a, s, i), InChunks(s))
    <3>1. CASE i > w
      <4>1. PICK j \in 1 .. w : j = i - w /\ w + j = i /\ j \in Nat \ {0}
        <5>1. i - w \in 1 .. w /\ w + (i - w) = i
          BY <1>1, <1>4, <3>1
        <5> QED
          BY <5>1
      <4>2. right[j] = Node(p, Place(b, s, j), InChunks(s))
        BY <1>3, <4>1, Zenon
      <4>3. Place(b, s, j) = Place(a, s, i)
        <5>1. i = w + j
          BY <4>1
        <5>2. j \in Nat \ {0}
          BY <4>1
        <5>3. s \in Nat
          BY <1>1
        <5> QED
          BY ONLY <5>1, <5>2, <5>3, PlaceOfRight, a \in Nat, b \in Nat, w \in Nat, b = a + Size(w, s)
      <4> QED
        BY <3>1, <4>1, <4>2, <4>3, Zenon
    <3>2. CASE ~ (i > w)
      <4>1. i \in 1 .. w /\ i <= w
        BY <1>1, <1>4, <3>2
      <4> QED
        BY <1>3, <3>2, <4>1, Zenon
    <3> QED
      BY <3>1, <3>2
  <2> QED
    BY <1>4, <2>1, Zenon DEF Row
<1> HIDE DEF cv_array
<1>6. Both(degree, n, left, right, p[1], p[2])
        = IF w = 1 THEN SubSeq(cv_array, 1, 2)
          ELSE compress_parents_parallel(SubSeq(cv_array, 1, w + w), p[1], p[2])
  BY <1>3, Zenon DEF Both, CL, cv_array, RoomFor
<1>7. SubSeq(cv_array, 1, w + w) = cv_array /\ (w = 1 => w + w = 2)
  <2>1. \E T : Row(p, a, s, m) \in Seq(T)
    BY ONLY RowIs, m \in Nat
  <2>2. Len(Row(p, a, s, m)) = m
    BY ONLY RowIs, m \in Nat
  <2>3. PICK T : cv_array \in Seq(T)
    BY <1>5, <2>1, Zenon
  <2>4. Len(cv_array) = m
    BY <1>5, <2>2, Zenon
  <2>5. SubSeq(cv_array, 1, m) = cv_array
    BY ONLY <2>3, <2>4
  <2>6. w = 1 => w + w = 2
    OBVIOUS
  <2> QED
    BY <1>4, <2>5, <2>6, Zenon
<1>8. compress_parents_parallel(cv_array, p[1], p[2]) = Row(p, a, 2 * s, w)
  <2>1. cv_array = Row(p, a, s, 2 * w)
    BY <1>4, <1>5, Zenon
  <2> QED
    BY ONLY <1>1, <2>1, ParallelParents, a \in Nat, s \in Pow2
<1>9. CASE w = 1
  <2>1. SubSeq(cv_array, 1, 2) = cv_array /\ m = 2
    BY <1>4, <1>7, <1>9, Zenon
  <2>2. Row(p, a, s, m) = Row(p, a, s, 2)
    BY <2>1, Zenon
  <2> QED
    BY <1>5, <1>6, <1>9, <2>1, <2>2, Zenon DEF Joined
<1>10. CASE w # 1
  BY <1>6, <1>7, <1>8, <1>10, Zenon DEF Joined
<1> QED
  BY <1>9, <1>10, Zenon

\* Any subtree of u chunks among the t that q holds comes down to a row of as
\* many chaining values as its width.
Widens(p, c, t, degree, q) ==
  \A u \in Pow2 : \E s \in Pow2 :
    /\ Size(Width(u, degree), s) = u
    /\ \A a \in Nat : a + u <= t =>
         Wide(q, InChunks(a), InChunks(u)) = Row(p, c + a, s, Width(u, degree))

\* For a whole subtree compress_subtree_wide returns a row of nodes of subtrees
\* that make it up.
LEMMA WideRow ==
  ASSUME NEW p, NEW S, NEW M \in Seq(S), p[3] = M, NEW c \in Nat, NEW t \in Nat,
         Within(c, InChunks(t), M), NEW degree \in Pow2,
         NEW q, q = <<Cut(M, InChunks(c), InChunks(t)), p[1], c, p[2], degree>>
  PROVE  Widens(p, c, t, degree, q)
<1> DEFINE Comes(u, s) ==
             /\ Size(Width(u, degree), s) = u
             /\ \A a \in Nat : a + u <= t =>
                  Wide(q, InChunks(a), InChunks(u)) = Row(p, c + a, s, Width(u, degree))
           Bad == {u \in Pow2 : \A s \in Pow2 : ~ Comes(u, s)}
<1>0. Bad = {} => Widens(p, c, t, degree, q)
  BY Zenon DEF Widens
<1>1. SUFFICES ASSUME Bad # {} PROVE FALSE
  BY <1>0
<1>2. PICK u \in Bad : \A h \in Bad : u <= h
  BY <1>1, LeastNumber, PowersOf2
<1>3. u \in Nat \ {0} /\ degree \in Nat \ {0} /\ u \in Pow2
  BY <1>2, PowersOf2
<1>4. /\ q[1] = Cut(M, InChunks(c), InChunks(t)) /\ q[2] = p[1] /\ q[3] = c /\ q[4] = p[2]
      /\ q[5] = degree /\ q[5] \in Nat \ {0}
  BY <1>3
<1>5. PICK d \in Nat, e \in Nat : d = InChunks(c) /\ e = InChunks(t) /\ d + e <= Len(M)
  BY Amount DEF Within
<1>6. PICK len \in Nat : len = InChunks(u)
  BY <1>3, Amount
<1>7. CASE u <= degree
  <2>1. len <= InChunks(degree)
    BY <1>3, <1>6, <1>7, Amounts
  <2>2. Width(u, degree) = u /\ Size(u, 1) = u /\ 1 \in Pow2
    BY <1>3, <1>7, Sizes, PowersOf2 DEF Width
  <2>3. ASSUME NEW a \in Nat, a + u <= t
        PROVE  Wide(q, InChunks(a), InChunks(u)) = Row(p, c + a, 1, u)
    <3>1. PICK w \in Nat : w = InChunks(a) /\ w + len <= e
      <4>1. PICK b \in Nat : b = a + u /\ b <= t
        BY <1>3, <2>3
      <4>2. InChunks(b) <= InChunks(t)
        BY <4>1, Amounts
      <4>3. InChunks(b) = InChunks(a) + InChunks(u)
        BY <1>3, <4>1, Amounts, Zenon
      <4>4. InChunks(a) \in Nat
        BY Amount
      <4> QED
        BY <1>5, <1>6, <4>2, <4>3, <4>4
    <3>2. PICK ca \in Nat : ca = c + a
      OBVIOUS
    <3>3. InChunks(ca) = d + w
      BY <1>5, <3>1, <3>2, Amounts, Zenon
    <3>4. Stretch(q[1], w, len) = Cut(M, InChunks(ca), len)
      <4>1. Stretch(Cut(M, d, e), w, len) = Cut(M, d + w, len)
        BY ONLY <1>5, <3>1, CutOfCut, M \in Seq(S), len \in Nat, SMTT(40)
      <4> QED
        BY <1>4, <1>5, <3>3, <4>1, Zenon
    <3>5. w \div CL = a
      <4>1. CL \in Nat \ {0}
        BY Lengths
      <4>2. (a * CL) \div CL = a
        BY ONLY <4>1, a \in Nat, SMT
      <4> QED
        BY <3>1, <4>2, Zenon DEF InChunks
    <3>6. Within(ca, InChunks(u), M)
      <4>1. (d + w) + len <= Len(M)
        <5>1. Len(M) \in Nat
          OBVIOUS
        <5> QED
          BY ONLY <1>5, <3>1, <5>1, len \in Nat, SMTT(40)
      <4> QED
        BY <1>6, <3>3, <4>1, Zenon DEF Within
    <3>7. compress_chunks_parallel(Cut(M, InChunks(ca), InChunks(u)), p[1], ca, p[2]) = Row(p, ca, 1, u)
      BY ONLY <1>3, <3>6, ParallelChunks, M \in Seq(S), ca \in Nat, p[3] = M
    <3>8. Wide(q, w, len) = compress_chunks_parallel(Stretch(q[1], w, len), q[2], q[3] + w \div CL, q[4])
      <4>1. len <= InChunks(q[5])
        BY <1>4, <2>1, Zenon
      <4> QED
        BY ONLY <1>4, <4>1, WideLeaf, w \in Nat, len \in Nat, Zenon
    <3> QED
      BY <1>4, <1>6, <3>1, <3>2, <3>4, <3>5, <3>7, <3>8, Zenon
  <2>4. Comes(u, 1)
    BY <2>2, <2>3, Zenon
  <2> QED
    BY <1>2, <2>2, <2>4
<1>8. CASE u > degree
  <2>1. PICK h \in Pow2 : u = 2 * h
    <3>1. u # 1
      BY <1>3, <1>8
    <3> QED
      BY <1>3, <3>1, PowersOf2
  <2>2. h \in Nat \ {0} /\ h < u /\ u = h + h
    BY <2>1, PowersOf2
  <2> DEFINE w == Width(h, degree)
             v == Width(u, degree)
  <2>3. /\ w = IF InChunks(h) > CL /\ degree = 1 THEN 2 ELSE degree
        /\ w = 1 => v = 2 /\ h = 1
        /\ w # 1 => v = w
    BY <1>3, <1>8, <2>1, Widths
  <2>4. w \in Pow2 /\ w \in Nat \ {0}
    BY Widths, PowersOf2
  <2> HIDE DEF w, v
  <2>5. PICK s \in Pow2 : /\ Size(w, s) = h
                          /\ \A a \in Nat : a + h <= t =>
                               Wide(q, InChunks(a), InChunks(h)) = Row(p, c + a, s, w)
    <3>1. h \notin Bad
      <4> HIDE DEF Bad
      <4> QED
        BY ONLY <1>2, <1>3, <2>2
    <3> QED
      BY <3>1 DEF w
  <2>6. PICK n \in Nat : n = InChunks(h) /\ len = n + n /\ left_len(len) = n /\ len - n = n
                         /\ ~ (len <= InChunks(degree))
    <3>1. InChunks(h) \in Nat /\ InChunks(h) # 0 /\ InChunks(u) = InChunks(h) + InChunks(h)
          /\ CL <= InChunks(h) /\ CL \in Nat \ {0}
      BY <2>2, Amount, Amounts
    <3>2. len > CL
      BY <1>6, <3>1
    <3>3. LeftChunks(len) = h
      <4>1. InChunks(h) < len /\ len <= 2 * InChunks(h)
        BY <1>6, <3>1
      <4> QED
        BY <1>6, <4>1, LeftChunksIs
    <3>4. left_len(len) = InChunks(LeftChunks(len))
      BY <1>6, <3>2, LeftChunksFor
    <3>5. InChunks(degree) + CL <= InChunks(u) /\ InChunks(degree) \in Nat
      BY <1>3, <1>8, Amounts, Amount
    <3> QED
      BY <1>6, <3>1, <3>3, <3>4, <3>5
  <2>7. PICK s2 \in Pow2 : Size(v, s2) = u /\ s2 = IF w = 1 THEN s ELSE 2 * s
    <3>1. s \in Nat
      BY PowersOf2
    <3>2. CASE w = 1
      <4>1. Size(1, s) = s /\ Size(2, s) = 2 * s
        BY <3>1, Sizes
      <4> QED
        BY <2>1, <2>3, <2>5, <3>2, <4>1
    <3>3. CASE w # 1
      <4>1. Size(2 * w, s) = Size(w, 2 * s) /\ Size(2 * w, s) = 2 * Size(w, s)
        BY <2>4, <3>1, Sizes
      <4>2. 2 * s \in Pow2
        BY PowersOf2
      <4>3. Size(v, 2 * s) = u
        BY <2>1, <2>3, <2>5, <3>3, <4>1, Zenon
      <4> QED
        BY <3>3, <4>2, <4>3
    <3> QED
      BY <3>2, <3>3
  <2>8. ASSUME NEW a \in Nat, a + u <= t
        PROVE  Wide(q, InChunks(a), InChunks(u)) = Row(p, c + a, s2, v)
    <3>1. PICK b \in Nat : b = a + h /\ b + h <= t /\ a + h <= t /\ c + b = (c + a) + h
      BY <2>2, <2>8
    <3>2. PICK ca \in Nat : ca = c + a
      OBVIOUS
    <3>3. PICK left, right : left = Wide(q, InChunks(a), n) /\ right = Wide(q, InChunks(b), n)
      OBVIOUS
    <3>31. PICK cb \in Nat : cb = c + b /\ cb = ca + Size(w, s)
      BY <2>5, <3>1, <3>2
    <3>4. left = Row(p, ca, s, w) /\ right = Row(p, cb, s, w)
      BY <3>31, <2>5, <2>6, <3>1, <3>2, <3>3, Zenon
    <3>5. PICK from \in Nat : from = InChunks(a)
      BY Amount
    <3>6. InChunks(b) = from + n
      BY <2>2, <2>6, <3>1, <3>5, Amounts, ZenonT(60)
    <3>7. Wide(q, from, len) = Both(degree, n, left, right, p[1], p[2])
      <4>1. ~ (len <= InChunks(q[5]))
        BY <1>4, <2>6, Zenon
      <4>0. q[5] \in Nat \ {0}
        BY <1>4
      <4>2. PICK middle : middle = from + n
        OBVIOUS
      <4>3. n = left_len(len) /\ n = len - n
        BY <2>6, Zenon
      <4>4. Wide(q, from, len) = Both(q[5], n, Wide(q, from, n), Wide(q, middle, n), q[2], q[4])
        BY ONLY <4>1, <4>2, <4>3, WideBoth, from \in Nat, len \in Nat, <4>0
      <4> QED
        BY <1>4, <3>3, <3>5, <3>6, <4>2, <4>4, Zenon
    <3>8. Both(degree, n, left, right, p[1], p[2])
            = Joined(p, ca, s, w)
      <4>1. w = RoomFor(n, degree)
        BY <2>3, <2>6, Zenon DEF RoomFor
      <4> QED
        <5>1. left = Row(p, ca, s, w)
          BY <3>4
        <5>2. right = Row(p, cb, s, w)
          BY <3>4
        <5>3. cb = ca + Size(w, s)
          BY <3>31
        <5>4. w \in Nat \ {0}
          BY <2>4
        <5> QED
          BY ONLY <4>1, <5>1, <5>2, <5>3, <5>4, BothRows, s \in Pow2, ca \in Nat, cb \in Nat
    <3>9. Joined(p, ca, s, w) = Row(p, ca, s2, v)
      BY <2>3, <2>7, Zenon DEF Joined
    <3> QED
      BY <1>6, <3>2, <3>5, <3>7, <3>8, <3>9, Zenon
  <2>9. Comes(u, s2)
    BY <2>7, <2>8, Zenon DEF v
  <2> QED
    BY <1>2, <2>7, <2>9
<1> QED
  BY <1>3, <1>7, <1>8

----------------------------------------------------------------------------
\* compress_subtree_to_parent_node returns the two nodes under a subtree's.

\* The recursion of the loop of compress_subtree_to_parent_node.
NarrowBody(q, f, k) ==
  IF k = 0 THEN q[1]
  ELSE LET now == f[k - 1] IN IF Len(now) > 2 THEN compress_parents_parallel(now, q[2], q[3]) ELSE now
Narrows == INSTANCE Counting WITH Domain <- NatDom, Measure <- Itself, Body <- NarrowBody

\* The row after k rounds of the loop.
Narrowed(wide, key, flags, k) == Narrows!Recursive(<<wide, key, flags>>)[k]

\* That loop compresses pairs until two chaining values are left.
LEMMA NarrowedIs ==
  ASSUME NEW wide, NEW key, NEW flags, NEW k \in Nat
  PROVE  /\ Narrowed(wide, key, flags, 0) = wide
         /\ Narrowed(wide, key, flags, k + 1)
              = LET now == Narrowed(wide, key, flags, k)
                IN  IF Len(now) > 2 THEN compress_parents_parallel(now, key, flags) ELSE now
<1> DEFINE q == <<wide, key, flags>>
<1>1. q[1] = wide /\ q[2] = key /\ q[3] = flags
  OBVIOUS
<1> HIDE DEF q
<1>2. Narrows!Sees(q)
  <2>1. ASSUME NEW x \in Nat, x # 0 PROVE x - 1 \in Nat /\ x - 1 < x
    BY <2>1
  <2> QED
    BY <2>1 DEF Narrows!Sees, NatDom, Itself, NarrowBody
<1>3. Narrows!Recursive(q) = [x \in NatDom(q) |-> NarrowBody(q, Narrows!Recursive(q), x)]
  BY <1>2, Narrows!Recursion
<1>4. \A x \in Nat : Narrows!Recursive(q)[x] = NarrowBody(q, Narrows!Recursive(q), x)
  BY <1>3 DEF NatDom
<1>5. k + 1 # 0 /\ k + 1 \in Nat /\ (k + 1) - 1 = k /\ 0 \in Nat
  OBVIOUS
<1>6. Narrows!Recursive(q)[0] = wide
  BY <1>1, <1>4, <1>5, Zenon DEF NarrowBody
<1>7. Narrows!Recursive(q)[k + 1]
        = LET now == Narrows!Recursive(q)[k]
          IN  IF Len(now) > 2 THEN compress_parents_parallel(now, key, flags) ELSE now
  BY <1>1, <1>4, <1>5, Zenon DEF NarrowBody
<1> QED
  BY <1>6, <1>7, Zenon DEF Narrowed, q

\* compress_subtree_to_parent_node is that loop on what compress_subtree_wide
\* returns.
LEMMA ToParentNodeIs ==
  ASSUME NEW input, NEW key, NEW counter, NEW flags, NEW degree,
         NEW wide, wide = compress_subtree_wide(input, key, counter, flags, degree)
  PROVE  compress_subtree_to_parent_node(input, key, counter, flags, degree)
           = Narrowed(wide, key, flags, Len(wide))
<1> DEFINE q == <<wide, key, flags>>
<1>1. q[1] = wide /\ q[2] = key /\ q[3] = flags
  OBVIOUS
<1> HIDE DEF q
<1>2. Narrows!Recursive(q)
        = CHOOSE f : f = [k \in Nat |->
            IF k = 0 THEN wide
            ELSE LET now == f[k - 1]
                 IN  IF Len(now) > 2 THEN compress_parents_parallel(now, key, flags) ELSE now]
  BY <1>1, Zenon DEF Narrows!Recursive, NatDom, NarrowBody
<1>3. compress_subtree_to_parent_node(input, key, counter, flags, degree)
        = (CHOOSE f : f = [k \in Nat |->
            IF k = 0 THEN wide
            ELSE LET now == f[k - 1]
                 IN  IF Len(now) > 2 THEN compress_parents_parallel(now, key, flags) ELSE now])[Len(wide)]
  BY Zenon DEF compress_subtree_to_parent_node, While
<1> QED
  BY <1>2, <1>3, Zenon DEF Narrowed, q

\* After k rounds the row is still one over the same u chunks, of two
\* chaining values or of at least k less.
NarrowsTo(p, c, u, s0, w0, k) ==
  \E s, w \in Pow2 :
    /\ w # 1 /\ Size(w, s) = u /\ (w = 2 \/ w + k <= w0)
    /\ Narrowed(Row(p, c, s0, w0), p[1], p[2], k) = Row(p, c, s, w)

\* Each round of the loop halves the row, until two nodes are left.
LEMMA NarrowRow ==
  ASSUME NEW p, NEW c \in Nat, NEW u \in Pow2, NEW s0 \in Pow2, NEW w0 \in Pow2,
         w0 # 1, Size(w0, s0) = u
  PROVE  \A k \in Nat : NarrowsTo(p, c, u, s0, w0, k)
<1> DEFINE row(k) == Narrowed(Row(p, c, s0, w0), p[1], p[2], k)
           Fine(k) == \E s, w \in Pow2 : /\ w # 1 /\ Size(w, s) = u /\ (w = 2 \/ w + k <= w0)
                                         /\ row(k) = Row(p, c, s, w)
           Bad == {k \in Nat : ~ Fine(k)}
<1>0. ASSUME NEW k \in Nat
      PROVE  /\ row(0) = Row(p, c, s0, w0)
             /\ row(k + 1) = IF Len(row(k)) > 2 THEN compress_parents_parallel(row(k), p[1], p[2]) ELSE row(k)
  <2>1. 0 \in Nat
    OBVIOUS
  <2>2. row(0) = Row(p, c, s0, w0)
    BY NarrowedIs
  <2>3. row(k + 1) = IF Len(row(k)) > 2 THEN compress_parents_parallel(row(k), p[1], p[2]) ELSE row(k)
    BY NarrowedIs
  <2> QED
    BY <2>2, <2>3, Zenon
<1> HIDE DEF row
<1>1. Fine(0)
  <2>1. row(0) = Row(p, c, s0, w0)
    BY <1>0, 0 \in Nat
  <2>2. w0 + 0 <= w0
    BY PowersOf2
  <2> QED
    BY <2>1, <2>2, Zenon
<1>2. ASSUME NEW k \in Nat, Fine(k)
      PROVE  Fine(k + 1)
  <2>1. PICK s \in Pow2, w \in Pow2 : /\ w # 1 /\ Size(w, s) = u /\ (w = 2 \/ w + k <= w0)
                                      /\ row(k) = Row(p, c, s, w)
    BY <1>2
  <2> HIDE DEF Fine, Bad
  <2>2. s \in Nat \ {0} /\ w \in Nat \ {0} /\ w0 \in Nat \ {0}
    BY PowersOf2
  <2>3. Len(row(k)) = w
    <3>1. Len(Row(p, c, s, w)) = w
      BY <2>2, RowIs
    <3> QED
      BY <2>1, <3>1, Zenon
  <2>4. CASE w = 2
    <3>1. row(k + 1) = row(k)
      <4>1. ~ (Len(row(k)) > 2)
        BY <2>3, <2>4
      <4> QED
        BY <1>0, <4>1, Zenon
    <3> QED
      BY <2>1, <2>4, <3>1, Zenon DEF Fine
  <2>5. CASE w # 2
    <3>1. PICK v \in Pow2 : w = 2 * v
      BY <2>1, PowersOf2
    <3>2. v \in Nat \ {0} /\ v # 1 /\ w > 2 /\ v + (k + 1) <= w0
      <4>1. v \in Nat \ {0}
        BY PowersOf2
      <4>2. w + k <= w0
        BY <2>1, <2>5
      <4> QED
        BY <2>2, <2>5, <3>1, <4>1, <4>2
    <3>3. row(k + 1) = compress_parents_parallel(row(k), p[1], p[2])
      <4>1. Len(row(k)) > 2
        BY <2>3, <3>2, Zenon
      <4> QED
        BY <1>0, <4>1, Zenon
    <3>4. compress_parents_parallel(row(k), p[1], p[2]) = Row(p, c, 2 * s, v)
      <4>1. row(k) = Row(p, c, s, 2 * v)
        BY <2>1, <3>1, Zenon
      <4>2. v \in Nat
        BY <3>2
      <4> QED
        BY ONLY <4>1, <4>2, ParallelParents, c \in Nat, s \in Pow2
    <3>5. 2 * s \in Pow2 /\ Size(v, 2 * s) = u
      <4>1. Size(2 * v, s) = Size(v, 2 * s)
        BY <2>2, <3>2, Sizes
      <4> QED
        BY <2>1, <3>1, <4>1, PowersOf2, Zenon
    <3>6. row(k + 1) = Row(p, c, 2 * s, v)
      BY <3>3, <3>4, Zenon
    <3> QED
      BY <3>2, <3>5, <3>6, Zenon DEF Fine
  <2> QED
    BY <2>4, <2>5
<1> HIDE DEF Fine
<1>3. Bad = {}
  <2>1. SUFFICES ASSUME Bad # {} PROVE FALSE
    OBVIOUS
  <2>2. PICK k \in Bad : \A j \in Bad : k <= j
    BY <2>1, LeastNumber
  <2>3. k # 0
    BY <1>1, <2>2
  <2>4. PICK j \in Nat : k = j + 1
    <3>1. k - 1 \in Nat /\ k = (k - 1) + 1
      BY <2>2, <2>3
    <3> QED
      BY <3>1
  <2>5. ~ (k <= j)
    BY <2>4
  <2> QED
    BY <1>2, <2>2, <2>4, <2>5
<1>4. \A k \in Nat : Fine(k)
  BY <1>3
<1> QED
  BY <1>4, Zenon DEF Fine, row, NarrowsTo

\* A subtree of more than one chunk comes down to its two halves.
LEMMA ParentNode ==
  ASSUME NEW p, NEW S, NEW M \in Seq(S), p[3] = M, NEW c \in Nat, NEW h \in Pow2,
         Within(c, InChunks(2 * h), M), NEW degree \in Pow2
  PROVE  compress_subtree_to_parent_node(Cut(M, InChunks(c), InChunks(2 * h)), p[1], c, p[2], degree)
           = <<Node(p, c, InChunks(h)), Node(p, c + h, InChunks(h))>>
<1>1. PICK u \in Pow2 : u = 2 * h
  BY PowersOf2
<1>2. u \in Nat \ {0} /\ h \in Nat \ {0} /\ u # 1
  BY <1>1, PowersOf2
<1>3. PICK input : input = Cut(M, InChunks(c), InChunks(u))
  OBVIOUS
<1>4. PICK q : q = <<input, p[1], c, p[2], degree>>
  OBVIOUS
<1>5. Within(c, InChunks(u), M)
  BY <1>1, Zenon
<1>6. PICK s \in Pow2 :
        /\ Size(Width(u, degree), s) = u
        /\ \A a \in Nat : a + u <= u =>
             Wide(q, InChunks(a), InChunks(u)) = Row(p, c + a, s, Width(u, degree))
  <2>1. q = <<Cut(M, InChunks(c), InChunks(u)), p[1], c, p[2], degree>>
    BY <1>3, <1>4, Zenon
  <2>2. u \in Nat
    BY <1>2
  <2>3. Widens(p, c, u, degree, q)
    BY ONLY <1>5, <2>1, <2>2, WideRow, M \in Seq(S), p[3] = M, c \in Nat, degree \in Pow2
  <2> QED
    BY <2>3, Zenon DEF Widens
<1>7. PICK w \in Pow2 : w = Width(u, degree) /\ w # 1
  <2>1. Width(u, degree) \in Pow2 /\ Width(u, degree) # 1
    BY ONLY <1>2, Widths, u \in Pow2, degree \in Pow2
  <2> QED
    BY <2>1
<1>8. Wide(q, 0, InChunks(u)) = Row(p, c, s, w)
  <2>1. 0 \in Nat /\ 0 + u <= u /\ c + 0 = c
    BY <1>2
  <2> QED
    BY <1>6, <1>7, <2>1, Products, Zenon
<1>9. compress_subtree_wide(input, p[1], c, p[2], degree) = Row(p, c, s, w)
  <2>1. Len(input) = InChunks(u)
    <3>1. InChunks(c) \in Nat /\ InChunks(u) \in Nat /\ InChunks(c) + InChunks(u) <= Len(M)
      BY <1>2, <1>5, Amount DEF Within
    <3>2. Len(Cut(M, InChunks(c), InChunks(u))) = InChunks(u)
      BY ONLY <3>1, CutIs, M \in Seq(S)
    <3> QED
      BY <1>3, <3>2, Zenon
  <2> QED
    BY <1>4, <1>8, <2>1, SubtreeWideIs, Zenon
<1>10. compress_subtree_to_parent_node(input, p[1], c, p[2], degree) = Narrowed(Row(p, c, s, w), p[1], p[2], w)
  <2>1. Len(Row(p, c, s, w)) = w
    <3>1. w \in Nat
      BY PowersOf2
    <3> QED
      BY ONLY <3>1, RowIs
  <2>2. PICK wide : wide = compress_subtree_wide(input, p[1], c, p[2], degree)
    OBVIOUS
  <2>3. compress_subtree_to_parent_node(input, p[1], c, p[2], degree) = Narrowed(wide, p[1], p[2], Len(wide))
    BY ONLY <2>2, ToParentNodeIs
  <2> QED
    BY <1>9, <2>1, <2>2, <2>3, Zenon
<1>11. PICK s1 \in Pow2, w1 \in Pow2 :
         /\ w1 # 1 /\ Size(w1, s1) = u /\ (w1 = 2 \/ w1 + w <= w)
         /\ Narrowed(Row(p, c, s, w), p[1], p[2], w) = Row(p, c, s1, w1)
  <2>1. Size(w, s) = u /\ w \in Nat
    BY <1>6, <1>7, PowersOf2
  <2>2. \A k \in Nat : NarrowsTo(p, c, u, s, w, k)
    <3>1. w # 1
      BY <1>7
    <3>2. Size(w, s) = u
      BY <2>1
    <3> QED
      BY ONLY <3>1, <3>2, NarrowRow, c \in Nat, u \in Pow2, s \in Pow2, w \in Pow2
  <2> QED
    BY <2>1, <2>2, Zenon DEF NarrowsTo
<1>12. w1 = 2 /\ s1 = h
  <2>1. s1 \in Nat /\ w1 \in Nat \ {0} /\ w \in Nat
    BY PowersOf2
  <2>2. w1 = 2
    BY <1>11, <2>1
  <2>3. Size(2, s1) = 2 * s1
    BY <2>1, Sizes
  <2> QED
    BY <1>1, <1>2, <1>11, <2>1, <2>2, <2>3
<1>13. Row(p, c, h, 2) = <<Node(p, c, InChunks(h)), Node(p, c + h, InChunks(h))>>
  <2>1. Place(c, h, 1) = c /\ Place(c, h, 2) = c + h
    BY <1>2, FirstPlaces
  <2>2. PICK x : x = Node(p, Place(c, h, 1), InChunks(h))
    OBVIOUS
  <2>3. PICK y : y = Node(p, Place(c, h, 2), InChunks(h))
    OBVIOUS
  <2>4. Row(p, c, h, 2) = [j \in 1 .. 2 |-> IF j = 1 THEN x ELSE y]
    BY <2>2, <2>3 DEF Row
  <2>5. Row(p, c, h, 2) = <<x, y>>
    BY ONLY <2>4, SMT
  <2> QED
    BY <2>1, <2>2, <2>3, <2>5, Zenon
<1> QED
  BY <1>1, <1>3, <1>10, <1>11, <1>12, <1>13, Zenon

----------------------------------------------------------------------------
\* Ladders: the subtrees on the stack of chaining values.

\* Chaining values on the stack: number i is over the s[i] chunks from chunk
\* at[i] on.  The sizes are powers of two that fall, but for the last two,
\* which may be equal.
Ladder(at, s, k, c) ==
  /\ k \in Nat /\ at \in [1 .. k + 1 -> Nat] /\ s \in [1 .. k -> Pow2]
  /\ at[1] = 0 /\ at[k + 1] = c
  /\ \A i \in 1 .. k : at[i + 1] = at[i] + s[i]
  /\ \A i \in 1 .. k - 1 : s[i + 1] <= s[i] /\ (i + 1 # k => s[i + 1] < s[i])
\* The sizes of the subtrees on the stack strictly decrease: no merge is due.
Falls(s, k) == \A i \in 1 .. k - 1 : s[i + 1] < s[i]

\* One step of a ladder.
LEMMA Rung ==
  ASSUME NEW at, NEW s, NEW k, NEW c, Ladder(at, s, k, c), NEW i \in 1 .. k
  PROVE  /\ k \in Nat /\ c \in Nat /\ at[i] \in Nat /\ at[i + 1] \in Nat /\ s[i] \in Pow2 /\ s[i] \in Nat \ {0}
         /\ at[i + 1] = at[i] + s[i]
         /\ i # k => /\ i + 1 \in 1 .. k /\ s[i + 1] \in Pow2 /\ s[i + 1] \in Nat \ {0} /\ s[i + 1] <= s[i]
                     /\ i + 1 # k => s[i + 1] < s[i]
                     /\ Falls(s, k) => s[i + 1] < s[i]
<1>1. k \in Nat /\ i \in 1 .. k + 1 /\ i + 1 \in 1 .. k + 1 /\ k + 1 \in 1 .. k + 1
  BY DEF Ladder
<1>2. at[i] \in Nat /\ at[i + 1] \in Nat /\ s[i] \in Pow2 /\ at[i + 1] = at[i] + s[i] /\ c \in Nat
  BY <1>1 DEF Ladder
<1>3. i # k => i + 1 \in 1 .. k /\ i \in 1 .. k - 1
  BY <1>1
<1>4. i # k => s[i + 1] \in Pow2 /\ s[i + 1] <= s[i] /\ (i + 1 # k => s[i + 1] < s[i])
  BY <1>3 DEF Ladder
<1>5. i # k => (Falls(s, k) => s[i + 1] < s[i])
  BY <1>3 DEF Falls
<1> QED
  BY <1>1, <1>2, <1>3, <1>4, <1>5, PowersOf2

\* What lies above a step is no more than the step; if all the sizes fall, it
\* is less.
LEMMA Above ==
  ASSUME NEW at, NEW s, NEW k, NEW c, Ladder(at, s, k, c)
  PROVE  \A i \in 1 .. k : /\ at[i + 1] <= c /\ c <= at[i + 1] + s[i]
                           /\ i # k => at[i + 1] < c
                           /\ Falls(s, k) => c < at[i + 1] + s[i]
<1> DEFINE Fine(i) == /\ at[i + 1] <= c /\ c <= at[i + 1] + s[i]
                      /\ i # k => at[i + 1] < c
                      /\ Falls(s, k) => c < at[i + 1] + s[i]
           Bad == {j \in Nat : \E i \in 1 .. k : i + j = k /\ ~ Fine(i)}
<1>0. k \in Nat /\ at[k + 1] = c
  BY DEF Ladder
<1>1. ASSUME NEW i \in 1 .. k, ~ Fine(i) PROVE k - i \in Bad
  <2>1. k - i \in Nat /\ i + (k - i) = k
    BY <1>0
  <2> QED
    BY <1>1, <2>1
<1>2. SUFFICES ASSUME Bad # {} PROVE FALSE
  BY <1>1
<1>3. PICK j \in Bad : \A x \in Bad : j <= x
  BY <1>2, LeastNumber
<1>4. PICK i \in 1 .. k : i + j = k /\ ~ Fine(i)
  BY <1>3
<1>5. CASE i = k
  BY <1>0, <1>4, <1>5, Rung
<1>6. CASE i # k
  <2>1. PICK h \in 1 .. k : h = i + 1
    BY <1>0, <1>6
  <2>2. j - 1 \in Nat /\ h + (j - 1) = k /\ j - 1 < j
    BY <1>0, <1>3, <1>4, <1>6, <2>1
  <2>3. Fine(h)
    BY <1>3, <2>2
  <2> HIDE DEF Bad
  <2>4. PICK a \in Nat, b \in Nat, d \in Nat : a = at[i + 1] /\ b = at[h + 1] /\ d = s[i]
    BY Rung
  <2>5. PICK e \in Nat \ {0} : e = s[h] /\ b = a + e /\ e <= d /\ (h # k => e < d) /\ (Falls(s, k) => e < d)
    BY <1>6, <2>1, <2>4, Rung
  <2>6. (e < d => 2 * e <= d) /\ c \in Nat
    <3>1. e \in Pow2 /\ d \in Pow2
      BY <2>1, <2>4, <2>5, Rung
    <3>2. c \in Nat
      BY Rung
    <3> QED
      BY <2>4, <2>5, <3>1, <3>2, PowerDivides
  <2>7. /\ b <= c /\ c <= b + e /\ (h # k => b < c) /\ (Falls(s, k) => c < b + e)
    BY <2>3, <2>4, <2>5
  <2>8. /\ a <= c /\ c <= a + d /\ a < c /\ (Falls(s, k) => c < a + d)
    <3>1. CASE h = k
      <4>1. b = c
        BY <1>0, <2>4, <3>1
      <4> QED
        BY <2>4, <2>5, <4>1
    <3>2. CASE h # k
      BY <2>4, <2>5, <2>6, <2>7, <3>2
    <3> QED
      BY <3>1, <3>2
  <2> QED
    BY <1>4, <2>4, <2>8
<1> QED
  BY <1>5, <1>6

\* As long as the sizes fall, each step adds a 1 bit, and starts at a multiple
\* of twice its size.
LEMMA Bits ==
  ASSUME NEW at, NEW s, NEW k, NEW c, Ladder(at, s, k, c)
  PROVE  \A i \in 1 .. k : (i # k \/ Falls(s, k)) =>
           /\ \E q \in Nat : at[i] = 2 * (s[i] * q)
           /\ popcnt(at[i + 1]) = i
<1> DEFINE Fine(i) == /\ \E q \in Nat : at[i] = 2 * (s[i] * q)
                      /\ popcnt(at[i + 1]) = i
           Bad == {i \in 1 .. k : (i # k \/ Falls(s, k)) /\ ~ Fine(i)}
<1>0. k \in Nat /\ at[1] = 0
  BY DEF Ladder
<1>1. SUFFICES ASSUME Bad # {} PROVE FALSE
  OBVIOUS
<1>2. PICK i \in Bad : \A x \in Bad : i <= x
  <2>1. Bad \in SUBSET Nat
    OBVIOUS
  <2> HIDE DEF Bad
  <2> QED
    BY <1>1, <2>1, LeastNumber
<1>3. i \in 1 .. k /\ (i # k \/ Falls(s, k)) /\ ~ Fine(i)
  BY <1>2
<1>4. /\ s[i] \in Pow2 /\ s[i] \in Nat \ {0} /\ at[i] \in Nat /\ at[i + 1] = at[i] + s[i]
  BY <1>3, Rung
<1>5. PICK q \in Nat : at[i] = 2 * (s[i] * q) /\ popcnt(at[i]) = i - 1
  <2>1. CASE i = 1
    <3>1. at[i] = 2 * (s[i] * 0) /\ i - 1 = 0
      BY <1>0, <1>4, <2>1
    <3> QED
      BY <1>0, <2>1, <3>1, PopcntIs
  <2>2. CASE i # 1
    <3>1. PICK h \in 1 .. k : i = h + 1 /\ h # k /\ h < i
      <4>1. i - 1 \in 1 .. k /\ i = (i - 1) + 1 /\ i - 1 # k /\ i - 1 < i
        BY <1>0, <1>3, <2>2
      <4> QED
        BY <4>1
    <3>2. Fine(h)
      BY <1>2, <3>1
    <3>3. PICK r \in Nat : at[h] = 2 * (s[h] * r) /\ popcnt(at[i]) = h
      BY <3>1, <3>2
    <3>4. s[h] \in Pow2 /\ s[h] \in Nat \ {0} /\ at[i] = at[h] + s[h] /\ s[i] < s[h]
      BY <1>3, <3>1, Rung
    <3>5. PICK d \in Pow2 : s[h] = s[i] * d
      BY <1>4, <3>4, PowerDivides
    <3>6. d # 1
      BY <1>4, <3>4, <3>5
    <3>7. PICK e \in Pow2 : d = 2 * e
      BY <3>6, PowersOf2
    <3>8. e \in Nat
      BY PowersOf2
    <3>9. PICK x \in Nat : x = s[i]
      BY <1>4
    <3>10. at[i] = 2 * (x * (e * (2 * r + 1)))
      <4>1. at[i] = 2 * ((x * (2 * e)) * r) + x * (2 * e)
        BY <3>3, <3>4, <3>5, <3>7, <3>9
      <4>2. 2 * ((x * (2 * e)) * r) + x * (2 * e) = 2 * (x * (e * (2 * r + 1)))
        BY ONLY <3>8, x \in Nat, r \in Nat
      <4> QED
        BY <4>1, <4>2
    <3>11. e * (2 * r + 1) \in Nat /\ i - 1 = h
      BY <3>1, <3>8
    <3> QED
      BY <3>3, <3>9, <3>10, <3>11
  <2> QED
    BY <2>1, <2>2
<1>6. popcnt(at[i] + s[i]) = popcnt(at[i]) + 1
  BY <1>4, <1>5, PopcntOfSum
<1>7. popcnt(at[i + 1]) = i
  BY <1>3, <1>4, <1>5, <1>6
<1> QED
  BY <1>3, <1>5, <1>7

\* The last two steps, of the same size, become one.
LowerAt(at, k, c) == [i \in 1 .. k |-> IF i = k THEN c ELSE at[i]]
\* The sizes after the two subtrees on top, of equal size, are merged.
LowerSizes(s, k) == [i \in 1 .. k - 1 |-> IF i = k - 1 THEN 2 * s[i] ELSE s[i]]

\* A merge of two equal subtrees on top leaves a ladder.
LEMMA Lowered ==
  ASSUME NEW at, NEW s, NEW k, NEW c, Ladder(at, s, k, c), NEW h \in Nat \ {0}, k = h + 1, s[h + 1] = s[h]
  PROVE  Ladder(LowerAt(at, k, c), LowerSizes(s, k), h, c)
<1> DEFINE at2 == LowerAt(at, k, c)
           s2 == LowerSizes(s, k)
<1>1. k \in Nat /\ at \in [1 .. k + 1 -> Nat] /\ s \in [1 .. k -> Pow2] /\ at[1] = 0 /\ at[k + 1] = c
  BY DEF Ladder
<1>2. h \in 1 .. k /\ k \in 1 .. k /\ k - 1 = h /\ c \in Nat /\ k # 1 /\ h # k
  BY <1>1
<1>3. at2 = [i \in 1 .. k |-> IF i = k THEN c ELSE at[i]]
  BY DEF LowerAt
<1>4. s2 = [i \in 1 .. h |-> IF i = h THEN 2 * s[i] ELSE s[i]]
  BY <1>2 DEF LowerSizes
<1> HIDE DEF at2, s2
<1>5. s2 \in [1 .. h -> Pow2]
  <2>1. \A i \in 1 .. h : s[i] \in Pow2 /\ 2 * s[i] \in Pow2
    <3>1. \A i \in 1 .. h : i \in 1 .. k
      BY <1>2
    <3> QED
      BY <1>1, <3>1, PowersOf2
  <2> QED
    BY <1>4, <2>1
<1>6. at2 \in [1 .. h + 1 -> Nat] /\ at2[1] = 0 /\ at2[h + 1] = c
  BY <1>1, <1>2, <1>3
<1>7. ASSUME NEW i \in 1 .. h PROVE at2[i + 1] = at2[i] + s2[i]
  <2>1. i \in 1 .. k /\ i # k /\ i + 1 \in 1 .. k
    BY <1>1
  <2>2. at2[i] = at[i] /\ at[i + 1] = at[i] + s[i]
    BY <1>3, <2>1, Rung
  <2>3. CASE i = h
    <3>1. at2[i + 1] = c /\ s2[i] = 2 * s[i]
      BY <1>3, <1>4, <2>1, <2>3
    <3>2. at[k + 1] = at[k] + s[k]
      BY <1>2, Rung
    <3>3. s[i] \in Nat /\ at[i] \in Nat /\ s[k] = s[i] /\ at[k] = at[i + 1]
      BY <2>1, <2>3, Rung
    <3> QED
      BY <1>1, <2>2, <3>1, <3>2, <3>3
  <2>4. CASE i # h
    <3>1. i + 1 # k /\ s2[i] = s[i]
      BY <1>4, <2>1, <2>4
    <3>2. at2[i + 1] = at[i + 1]
      BY <1>3, <2>1, <3>1
    <3> QED
      BY <2>2, <3>1, <3>2
  <2> QED
    BY <2>3, <2>4
<1>8. ASSUME NEW i \in 1 .. h - 1
      PROVE  s2[i + 1] <= s2[i] /\ (i + 1 # h => s2[i + 1] < s2[i])
  <2>1. i \in 1 .. k /\ i + 1 \in 1 .. h /\ i \in 1 .. h /\ i # h /\ i + 1 # k /\ i # k
    BY <1>1
  <2>2. /\ s[i] \in Pow2 /\ s[i + 1] \in Pow2 /\ s[i] \in Nat /\ s[i + 1] \in Nat /\ s[i + 1] < s[i]
    BY <2>1, Rung
  <2>3. 2 * s[i + 1] <= s[i]
    BY <2>2, PowerDivides
  <2>4. s2[i] = s[i] /\ s2[i + 1] = IF i + 1 = h THEN 2 * s[i + 1] ELSE s[i + 1]
    BY <1>4, <2>1
  <2> QED
    BY <2>2, <2>3, <2>4
<1> QED
  BY <1>5, <1>6, <1>7, <1>8 DEF Ladder, at2, s2

----------------------------------------------------------------------------
\* How popcnt tells that a merge is due.

\* A ladder has as many steps as its height has 1 bits if all the sizes fall,
\* and more if the last two are equal.
LEMMA Ones ==
  ASSUME NEW at, NEW s, NEW k, NEW c, Ladder(at, s, k, c), Falls(s, k)
  PROVE  popcnt(c) = k
<1>1. k \in Nat /\ at[1] = 0 /\ at[k + 1] = c
  BY DEF Ladder
<1>2. CASE k = 0
  <2>1. c = 0
    BY <1>1, <1>2
  <2> QED
    BY <1>2, <2>1, PopcntIs
<1>3. CASE k # 0
  <2>1. k \in 1 .. k
    BY <1>1, <1>3
  <2> QED
    BY <1>1, <2>1, Bits
<1> QED
  BY <1>2, <1>3

\* Where the sizes of a ladder do not strictly decrease, the two on top are
\* equal: only they can be.
LEMMA Levels ==
  ASSUME NEW at, NEW s, NEW k, NEW c, Ladder(at, s, k, c), ~ Falls(s, k)
  PROVE  \E h \in Nat \ {0} : k = h + 1 /\ s[h + 1] = s[h]
<1>1. k \in Nat
  BY DEF Ladder
<1>2. PICK i \in 1 .. k - 1 : ~ (s[i + 1] < s[i])
  BY DEF Falls
<1>3. i \in 1 .. k /\ i # k /\ i \in Nat \ {0}
  BY <1>1
<1>4. /\ s[i + 1] <= s[i] /\ (i + 1 # k => s[i + 1] < s[i])
      /\ s[i + 1] \in Nat /\ s[i] \in Nat
  BY <1>3, Rung
<1>5. k = i + 1
  BY <1>2, <1>4
<1>6. s[i + 1] = s[i]
  BY <1>2, <1>4
<1> QED
  BY <1>3, <1>5, <1>6

\* While a merge is due, the stack is longer than the number of chunks has
\* ones: popcnt is the test hasher_merge_cv_stack makes.
LEMMA FewerOnes ==
  \A k \in Nat : \A at, s, c : Ladder(at, s, k, c) /\ ~ Falls(s, k) => popcnt(c) < k
<1> DEFINE Fine(k) == \A at, s, c : Ladder(at, s, k, c) /\ ~ Falls(s, k) => popcnt(c) < k
           Bad == {k \in Nat : ~ Fine(k)}
<1>1. SUFFICES ASSUME Bad # {} PROVE FALSE
  OBVIOUS
<1>2. PICK k \in Bad : \A x \in Bad : k <= x
  BY <1>1, LeastNumber
<1>3. PICK at, s, c : Ladder(at, s, k, c) /\ ~ Falls(s, k) /\ ~ (popcnt(c) < k)
  BY <1>2
<1>4. PICK h \in Nat \ {0} : k = h + 1 /\ s[h + 1] = s[h]
  BY <1>3, Levels
<1>5. PICK at2, s2 : at2 = LowerAt(at, k, c) /\ s2 = LowerSizes(s, k)
  OBVIOUS
<1>6. Ladder(at2, s2, h, c)
  <2>1. Ladder(LowerAt(at, k, c), LowerSizes(s, k), h, c)
    <3>1. Ladder(at, s, k, c)
      BY <1>3
    <3> HIDE DEF Bad
    <3> QED
      BY ONLY <1>4, <3>1, Lowered, h \in Nat \ {0}
  <2> QED
    BY <1>5, <2>1, Zenon
<1>7. popcnt(c) <= h
  <2>1. CASE Falls(s2, h)
    BY <1>6, <2>1, Ones
  <2>2. CASE ~ Falls(s2, h)
    <3>1. h \notin Bad
      BY <1>2, <1>4
    <3>2. popcnt(c) < h
      BY <1>6, <2>2, <3>1
    <3>3. popcnt(c) \in Nat
      <4>1. c \in Nat
        <5>1. h \in Nat /\ at2 \in [1 .. h + 1 -> Nat] /\ at2[h + 1] = c /\ h + 1 \in 1 .. h + 1
          BY <1>6 DEF Ladder
        <5> QED
          BY <5>1
      <4> QED
        BY <4>1, PopcntType
    <3> QED
      BY <3>2, <3>3
  <2> QED
    BY <2>1, <2>2
<1>8. popcnt(c) \in Nat
  <2>1. c \in Nat
    <3>1. k \in 1 .. k
      BY <1>4
    <3> QED
      BY <1>3, <3>1, Rung
  <2> QED
    BY <2>1, PopcntType
<1> QED
  BY <1>3, <1>4, <1>7, <1>8

\* A size that divides the height is no greater than the last step.
LEMMA NextFits ==
  ASSUME NEW at, NEW s, NEW k, NEW c, Ladder(at, s, k, c), Falls(s, k), k # 0,
         NEW u \in Pow2, NEW m \in Nat, c = u * m
  PROVE  u <= s[k]
<1>1. k \in Nat /\ k \in 1 .. k /\ at[k + 1] = c
  BY DEF Ladder
<1>2. s[k] \in Pow2 /\ s[k] \in Nat \ {0} /\ at[k + 1] = at[k] + s[k]
  BY <1>1, Rung
<1>3. PICK q \in Nat : at[k] = 2 * (s[k] * q)
  BY <1>1, Bits
<1>4. SUFFICES ASSUME s[k] < u PROVE FALSE
  BY <1>2, PowersOf2
<1>5. PICK x \in Nat \ {0} : x = s[k]
  BY <1>2
<1>6. PICK d \in Pow2 : u = x * d
  <2>1. x \in Pow2 /\ x <= u
    <3>1. u \in Nat
      BY PowersOf2
    <3> QED
      BY <1>2, <1>4, <1>5, <3>1
  <2> QED
    BY <2>1, PowerDivides
<1>7. d # 1
  BY <1>4, <1>5, <1>6
<1>8. PICK e \in Pow2 : d = 2 * e
  BY <1>7, PowersOf2
<1>9. e \in Nat
  BY PowersOf2
<1>10. PICK y \in Nat : y = e * m
  BY <1>9
<1>11. x * (2 * q + 1) = x * (2 * y)
  <2>1. x * (2 * q + 1) = (x * (2 * e)) * m
    BY <1>1, <1>2, <1>3, <1>5, <1>6, <1>8
  <2>2. (x * (2 * e)) * m = x * (2 * (e * m))
    BY ONLY <1>9, x \in Nat \ {0}, m \in Nat
  <2> QED
    BY <1>10, <2>1, <2>2
<1>12. 2 * q + 1 = 2 * y
  BY <1>11, SMT
<1> QED
  BY <1>12

----------------------------------------------------------------------------
\* The stack of chaining values of a ladder.

\* The chaining values of a ladder.
Pile(p, at, s, k) == [i \in 1 .. k |-> Node(p, at[i], InChunks(s[i]))]

\* The elements of a pile.
LEMMA PileIs ==
  ASSUME NEW p, NEW at, NEW s, NEW k \in Nat
  PROVE  /\ \E T : Pile(p, at, s, k) \in Seq(T)
         /\ Len(Pile(p, at, s, k)) = k
         /\ \A i \in 1 .. k : Pile(p, at, s, k)[i] = Node(p, at[i], InChunks(s[i]))
<1> DEFINE v(i) == Node(p, at[i], InChunks(s[i]))
<1>1. Pile(p, at, s, k) = [i \in 1 .. k |-> v(i)]
  BY DEF Pile
<1> HIDE DEF v
<1> DEFINE T == {v(i) : i \in 1 .. k}
<1>2. [i \in 1 .. k |-> v(i)] \in Seq(T) /\ Len([i \in 1 .. k |-> v(i)]) = k
  OBVIOUS
<1>3. \A i \in 1 .. k : Pile(p, at, s, k)[i] = v(i)
  BY <1>1
<1> QED
  BY <1>1, <1>2, <1>3 DEF v

\* What a merge makes of a sequence, and a push.
LEMMA TopTwo ==
  ASSUME NEW T, NEW stack \in Seq(T), NEW h \in Nat \ {0}, Len(stack) = h + 1, NEW v
  PROVE  /\ SubSeq(stack, Len(stack) - 1, Len(stack)) = <<stack[h], stack[h + 1]>>
         /\ Append(SubSeq(stack, 1, Len(stack) - 2), v) = [i \in 1 .. h |-> IF i = h THEN v ELSE stack[i]]
<1>1. Len(stack) - 1 = h /\ Len(stack) - 2 = h - 1
  OBVIOUS
<1>2. SubSeq(stack, h, h + 1) = <<stack[h], stack[h + 1]>>
  <2>1. SubSeq(stack, h, h + 1) = [i \in 1 .. 2 |-> stack[h + i - 1]]
    OBVIOUS
  <2>2. PICK x, y : x = stack[h] /\ y = stack[h + 1]
    OBVIOUS
  <2>3. SubSeq(stack, h, h + 1) = [i \in 1 .. 2 |-> IF i = 1 THEN x ELSE y]
    <3>1. \A i \in 1 .. 2 : stack[h + i - 1] = IF i = 1 THEN x ELSE y
      BY <2>2
    <3> QED
      BY <2>1, <3>1
  <2>4. SubSeq(stack, h, h + 1) = <<x, y>>
    <3>1. ASSUME NEW z, z = [i \in 1 .. 2 |-> IF i = 1 THEN x ELSE y]
          PROVE  z = <<x, y>>
      BY ONLY <3>1, SMT
    <3> QED
      BY <2>3, <3>1, Zenon
  <2> QED
    BY <2>2, <2>4
<1>3. Append(SubSeq(stack, 1, h - 1), v) = [i \in 1 .. h |-> IF i = h THEN v ELSE stack[i]]
  <2>1. PICK low : low = SubSeq(stack, 1, h - 1)
    OBVIOUS
  <2>2. Len(low) = h - 1 /\ \A i \in 1 .. h - 1 : low[i] = stack[i]
    BY <2>1
  <2>3. low \in Seq(T)
    BY <2>1
  <2>4. Append(low, v) = [i \in 1 .. h |-> IF i = h THEN v ELSE low[i]]
    <3>1. PICK z : z = Append(low, v)
      OBVIOUS
    <3>2. z \in Seq(T \cup {v}) /\ Len(z) = h /\ z[h] = v /\ \A i \in 1 .. h - 1 : z[i] = low[i]
      BY <2>2, <2>3, <3>1
    <3>3. z = [i \in 1 .. h |-> z[i]]
      BY <3>2
    <3>4. \A i \in 1 .. h : z[i] = IF i = h THEN v ELSE low[i]
      BY <3>2
    <3> QED
      BY <3>1, <3>3, <3>4
  <2> QED
    BY <2>1, <2>2, <2>4
<1> QED
  BY <1>1, <1>2, <1>3

\* What the loop of a merge does with the stack.
MergedTop(key, flags, stack) ==
  LET n == Len(stack)
  IN  Append(SubSeq(stack, 1, n - 2),
             output_chaining_value(parent_output(SubSeq(stack, n - 1, n), key, flags)))

\* Merging the two chaining values on top of a pile is the pile of the merged
\* ladder.
LEMMA MergedPile ==
  ASSUME NEW p, NEW at, NEW s, NEW k, NEW c, Ladder(at, s, k, c), NEW h \in Nat \ {0},
         k = h + 1, s[h + 1] = s[h]
  PROVE  MergedTop(p[1], p[2], Pile(p, at, s, k)) = Pile(p, LowerAt(at, k, c), LowerSizes(s, k), h)
<1>1. PICK stack : stack = Pile(p, at, s, k)
  OBVIOUS
<1>2. h \in 1 .. k /\ k \in 1 .. k /\ k \in Nat /\ h # k
  OBVIOUS
<1>3. /\ Len(stack) = h + 1 /\ \E T : stack \in Seq(T)
      /\ \A i \in 1 .. k : stack[i] = Node(p, at[i], InChunks(s[i]))
  BY <1>1, <1>2, PileIs
<1>4. PICK u \in Pow2, a \in Nat : u = s[h] /\ s[k] = u /\ a = at[h] /\ at[k] = a + u
  BY <1>2, Rung
<1>5. stack[h] = Node(p, a, InChunks(u)) /\ stack[h + 1] = Node(p, a + u, InChunks(u))
  BY <1>2, <1>3, <1>4
<1>6. PICK v : v = Node(p, a, InChunks(2 * u))
  OBVIOUS
<1>7. MergedTop(p[1], p[2], stack) = [i \in 1 .. h |-> IF i = h THEN v ELSE stack[i]]
  <2>1. PICK T : stack \in Seq(T)
    BY <1>3
  <2>2. SubSeq(stack, Len(stack) - 1, Len(stack)) = <<stack[h], stack[h + 1]>>
    <3>1. Len(stack) = h + 1
      BY <1>3
    <3> QED
      BY ONLY <2>1, <3>1, TopTwo, h \in Nat \ {0}
  <2>3. Append(SubSeq(stack, 1, Len(stack) - 2), v) = [i \in 1 .. h |-> IF i = h THEN v ELSE stack[i]]
    <3>1. Len(stack) = h + 1
      BY <1>3
    <3> QED
      BY ONLY <2>1, <3>1, TopTwo, h \in Nat \ {0}
  <2>4. output_chaining_value(parent_output(<<stack[h], stack[h + 1]>>, p[1], p[2])) = v
    <3>1. Node(p, a, InChunks(2 * u)) = Parent(p, Node(p, a, InChunks(u)), Node(p, a + u, InChunks(u)))
      BY NodeOfHalves
    <3>2. PICK x, y : x = Node(p, a, InChunks(u)) /\ y = Node(p, a + u, InChunks(u))
      OBVIOUS
    <3>3. parent_output(<<x, y>>, p[1], p[2]) = AsOutput(Parent(p, x, y))
      BY Outputs
    <3>4. output_chaining_value(AsOutput(Parent(p, x, y))) = Parent(p, x, y)
      BY Outputs
    <3> QED
      BY <1>5, <1>6, <3>1, <3>2, <3>3, <3>4, Zenon
  <2> QED
    BY <2>2, <2>3, <2>4, Zenon DEF MergedTop
<1>8. [i \in 1 .. h |-> IF i = h THEN v ELSE stack[i]]
        = Pile(p, LowerAt(at, k, c), LowerSizes(s, k), h)
  <2>1. ASSUME NEW i \in 1 .. h
        PROVE  (IF i = h THEN v ELSE stack[i])
                 = Node(p, LowerAt(at, k, c)[i], InChunks(LowerSizes(s, k)[i]))
    <3>1. i \in 1 .. k /\ i # k
      BY <1>2
    <3>2. LowerAt(at, k, c)[i] = at[i]
      BY <3>1 DEF LowerAt
    <3>3. LowerSizes(s, k)[i] = IF i = h THEN 2 * s[i] ELSE s[i]
      BY <1>2 DEF LowerSizes
    <3>4. stack[i] = Node(p, at[i], InChunks(s[i]))
      BY <1>3, <3>1
    <3>5. CASE i = h
      BY <1>4, <1>6, <3>2, <3>3, <3>5, Zenon
    <3>6. CASE i # h
      BY <3>2, <3>3, <3>4, <3>6, Zenon
    <3> QED
      BY <3>5, <3>6
  <2> QED
    BY <2>1, Zenon DEF Pile
<1> QED
  BY <1>1, <1>7, <1>8, Zenon

\* A stack over c chunks, and one that is merged as far as it can be.
Stands(p, c, st) == \E at, s, k : Ladder(at, s, k, c) /\ st = Pile(p, at, s, k)
\* A stack with no merge due over c chunks.
Settled(p, c, st) == \E at, s, k : Ladder(at, s, k, c) /\ Falls(s, k) /\ st = Pile(p, at, s, k)

\* The popcnt test is exact: as long as it says so a merge is due, and each
\* merge keeps the stack right.
LEMMA StandsIs ==
  ASSUME NEW p, NEW c, NEW st, Stands(p, c, st)
  PROVE  /\ c \in Nat /\ Len(st) \in Nat /\ (c # 0 => Len(st) # 0)
         /\ \E T : st \in Seq(T)
         /\ popcnt(c) = Len(st) => Settled(p, c, st)
         /\ popcnt(c) # Len(st) => popcnt(c) < Len(st) /\ Len(st) # 0
                                   /\ Stands(p, c, MergedTop(p[1], p[2], st))
                                   /\ Len(MergedTop(p[1], p[2], st)) = Len(st) - 1
<1>1. PICK at, s, k : Ladder(at, s, k, c) /\ st = Pile(p, at, s, k)
  BY DEF Stands
<1>2. k \in Nat /\ at \in [1 .. k + 1 -> Nat] /\ at[k + 1] = c /\ at[1] = 0
  BY <1>1 DEF Ladder
<1>3. Len(st) = k /\ \E T : st \in Seq(T)
  BY <1>1, <1>2, PileIs
<1>4. c \in Nat /\ (k = 0 => c = 0)
  BY <1>2
<1>5. CASE Falls(s, k)
  <2>1. popcnt(c) = k
    BY <1>1, <1>5, Ones
  <2>2. Settled(p, c, st)
    BY <1>1, <1>5, Zenon DEF Settled
  <2> QED
    BY <1>2, <1>3, <1>4, <2>1, <2>2
<1>6. CASE ~ Falls(s, k)
  <2>1. popcnt(c) < k
    BY <1>1, <1>2, <1>6, FewerOnes
  <2>2. PICK h \in Nat \ {0} : k = h + 1 /\ s[h + 1] = s[h]
    BY <1>1, <1>6, Levels
  <2>3. PICK at2, s2 : at2 = LowerAt(at, k, c) /\ s2 = LowerSizes(s, k)
    OBVIOUS
  <2>4. Ladder(LowerAt(at, k, c), LowerSizes(s, k), h, c)
    <3>1. Ladder(at, s, k, c)
      BY <1>1
    <3> QED
      BY ONLY <2>2, <3>1, Lowered, h \in Nat \ {0}
  <2>5. MergedTop(p[1], p[2], Pile(p, at, s, k)) = Pile(p, LowerAt(at, k, c), LowerSizes(s, k), h)
    <3>1. Ladder(at, s, k, c)
      BY <1>1
    <3> QED
      BY ONLY <2>2, <3>1, MergedPile, h \in Nat \ {0}
  <2>6. Stands(p, c, MergedTop(p[1], p[2], st))
    BY <1>1, <2>4, <2>5, Zenon DEF Stands
  <2>7. Len(MergedTop(p[1], p[2], st)) = h
    <3>1. h \in Nat
      OBVIOUS
    <3>2. Len(Pile(p, at2, s2, h)) = h
      BY ONLY <3>1, PileIs
    <3> QED
      BY <1>1, <2>3, <2>5, <3>2, Zenon
  <2>8. popcnt(c) \in Nat /\ popcnt(c) # k /\ k # 0 /\ k - 1 = h
    <3>1. popcnt(c) \in Nat
      BY <1>4, PopcntType
    <3> QED
      BY <2>1, <2>2, <3>1
  <2> QED
    BY <1>2, <1>3, <1>4, <2>1, <2>6, <2>7, <2>8
<1> QED
  BY <1>5, <1>6

----------------------------------------------------------------------------
\* hasher_merge_cv_stack and hasher_push_cv.

\* The recursion of the loop of hasher_merge_cv_stack.
MergeBody(q, f, k) ==
  IF k = 0 THEN q[1]
  ELSE LET now == f[k - 1] IN IF Len(now) > q[4] THEN MergedTop(q[2], q[3], now) ELSE now
Merges == INSTANCE Counting WITH Domain <- NatDom, Measure <- Itself, Body <- MergeBody

\* The stack after k rounds of the loop.
Merged(st, key, flags, most, k) == Merges!Recursive(<<st, key, flags, most>>)[k]

\* That loop merges the top of the stack until no more than popcnt values are
\* left.
LEMMA MergedIs ==
  ASSUME NEW st, NEW key, NEW flags, NEW most, NEW k \in Nat
  PROVE  /\ Merged(st, key, flags, most, 0) = st
         /\ Merged(st, key, flags, most, k + 1)
              = LET now == Merged(st, key, flags, most, k)
                IN  IF Len(now) > most THEN MergedTop(key, flags, now) ELSE now
<1> DEFINE q == <<st, key, flags, most>>
<1>1. q[1] = st /\ q[2] = key /\ q[3] = flags /\ q[4] = most
  OBVIOUS
<1> HIDE DEF q
<1>2. Merges!Sees(q)
  <2>1. ASSUME NEW x \in Nat, x # 0 PROVE x - 1 \in Nat /\ x - 1 < x
    BY <2>1
  <2> QED
    BY <2>1 DEF Merges!Sees, NatDom, Itself, MergeBody
<1>3. Merges!Recursive(q) = [x \in NatDom(q) |-> MergeBody(q, Merges!Recursive(q), x)]
  BY <1>2, Merges!Recursion
<1>4. \A x \in Nat : Merges!Recursive(q)[x] = MergeBody(q, Merges!Recursive(q), x)
  BY <1>3 DEF NatDom
<1>5. k + 1 # 0 /\ k + 1 \in Nat /\ (k + 1) - 1 = k /\ 0 \in Nat
  OBVIOUS
<1>6. Merges!Recursive(q)[0] = st
  BY <1>1, <1>4, <1>5, Zenon DEF MergeBody
<1>7. Merges!Recursive(q)[k + 1]
        = LET now == Merges!Recursive(q)[k]
          IN  IF Len(now) > most THEN MergedTop(key, flags, now) ELSE now
  BY <1>1, <1>4, <1>5, Zenon DEF MergeBody
<1> QED
  BY <1>6, <1>7, Zenon DEF Merged, q

\* hasher_merge_cv_stack is that loop.
LEMMA MergeIs ==
  ASSUME NEW self, NEW total_len
  PROVE  hasher_merge_cv_stack(self, total_len)
           = WithStack(self, Merged(self.cv_stack, self.key, self.chunk.flags, popcnt(total_len),
                                    Len(self.cv_stack)))
<1> DEFINE most == popcnt(total_len)
           q == <<self.cv_stack, self.key, self.chunk.flags, most>>
<1>1. q[1] = self.cv_stack /\ q[2] = self.key /\ q[3] = self.chunk.flags /\ q[4] = most
  OBVIOUS
<1> HIDE DEF q, most
<1>2. Merges!Recursive(q)
        = CHOOSE f : f = [k \in Nat |->
            IF k = 0 THEN self.cv_stack
            ELSE LET now == f[k - 1]
                 IN  IF Len(now) > most THEN MergedTop(self.key, self.chunk.flags, now) ELSE now]
  BY <1>1, Zenon DEF Merges!Recursive, NatDom, MergeBody
<1>3. hasher_merge_cv_stack(self, total_len)
        = WithStack(self, (CHOOSE f : f = [k \in Nat |->
            IF k = 0 THEN self.cv_stack
            ELSE LET now == f[k - 1]
                 IN  IF Len(now) > most THEN MergedTop(self.key, self.chunk.flags, now) ELSE now])[Len(self.cv_stack)])
  BY Zenon DEF hasher_merge_cv_stack, While, WithStack, MergedTop, most
<1> QED
  BY <1>2, <1>3, Zenon DEF Merged, q, most

\* After it no merge is due.
LEMMA Settles ==
  ASSUME NEW p, NEW c, NEW st, Stands(p, c, st)
  PROVE  Settled(p, c, Merged(st, p[1], p[2], popcnt(c), Len(st)))
<1> DEFINE most == popcnt(c)
           now(k) == Merged(st, p[1], p[2], most, k)
           Fine(k) == Stands(p, c, now(k)) /\ (Len(now(k)) = most \/ Len(now(k)) + k = Len(st))
           Bad == {k \in Nat : ~ Fine(k)}
<1>0. most \in Nat /\ Len(st) \in Nat
  BY StandsIs, PopcntType
<1>1. ASSUME NEW k \in Nat
      PROVE  /\ now(0) = st
             /\ now(k + 1) = IF Len(now(k)) > most THEN MergedTop(p[1], p[2], now(k)) ELSE now(k)
  <2>1. now(0) = st
    BY MergedIs
  <2>2. now(k + 1) = IF Len(now(k)) > most THEN MergedTop(p[1], p[2], now(k)) ELSE now(k)
    BY MergedIs
  <2> QED
    BY <2>1, <2>2, Zenon
<1> HIDE DEF now
<1>2. Fine(0)
  <2>1. now(0) = st
    BY <1>1, 0 \in Nat
  <2>2. Len(st) + 0 = Len(st)
    BY <1>0
  <2> QED
    BY <2>1, <2>2, Zenon
<1>3. ASSUME NEW k \in Nat, Fine(k)
      PROVE  Fine(k + 1)
  <2>1. PICK row : row = now(k) /\ Stands(p, c, row) /\ (Len(row) = most \/ Len(row) + k = Len(st))
    BY <1>3
  <2>2. /\ Len(row) \in Nat
        /\ most # Len(row) => /\ most < Len(row)
                              /\ Stands(p, c, MergedTop(p[1], p[2], row))
                              /\ Len(MergedTop(p[1], p[2], row)) = Len(row) - 1
    BY <2>1, StandsIs
  <2>3. CASE Len(row) = most
    <3>1. ~ (Len(row) > most)
      BY <1>0, <2>3
    <3>2. now(k + 1) = row
      BY <1>1, <2>1, <3>1, Zenon
    <3> QED
      BY <2>1, <2>3, <3>2
  <2>4. CASE Len(row) # most
    <3>1. Len(row) > most
      BY <1>0, <2>2, <2>4
    <3>2. now(k + 1) = MergedTop(p[1], p[2], row)
      BY <1>1, <2>1, <3>1, Zenon
    <3>3. (Len(row) - 1) + (k + 1) = Len(st)
      BY <2>1, <2>2, <2>4
    <3> QED
      BY <2>2, <2>4, <3>2, <3>3
  <2> QED
    BY <2>3, <2>4
<1> HIDE DEF Fine
<1>4. Bad = {}
  <2>1. SUFFICES ASSUME Bad # {} PROVE FALSE
    OBVIOUS
  <2>2. PICK k \in Bad : \A j \in Bad : k <= j
    BY <2>1, LeastNumber
  <2>3. k # 0
    BY <1>2, <2>2
  <2>4. PICK j \in Nat : k = j + 1
    <3>1. k - 1 \in Nat /\ k = (k - 1) + 1
      BY <2>2, <2>3
    <3> QED
      BY <3>1
  <2>5. ~ (k <= j)
    BY <2>4
  <2> QED
    BY <1>3, <2>2, <2>4, <2>5
<1>5. Fine(Len(st))
  BY <1>0, <1>4
<1>6. PICK row : row = now(Len(st)) /\ Stands(p, c, row) /\ (Len(row) = most \/ Len(row) + Len(st) = Len(st))
  BY <1>5 DEF Fine
<1>7. /\ Len(row) \in Nat
      /\ most # Len(row) => most < Len(row)
      /\ most = Len(row) => Settled(p, c, row)
  BY <1>6, StandsIs
<1>8. most = Len(row)
  BY <1>0, <1>6, <1>7
<1> QED
  BY <1>6, <1>7, <1>8, Zenon DEF now

\* The same of the hasher the stack belongs to.
LEMMA MergeSettles ==
  ASSUME NEW p, NEW c, NEW st, Stands(p, c, st), NEW chunk, chunk.flags = p[2]
  PROVE  \E st2 : /\ Settled(p, c, st2)
                  /\ hasher_merge_cv_stack(Hasher(p[1], chunk, st), c) = Hasher(p[1], chunk, st2)
<1>1. PICK self : self = Hasher(p[1], chunk, st)
  OBVIOUS
<1>2. self.key = p[1] /\ self.chunk = chunk /\ self.cv_stack = st
  BY <1>1, HasherIs
<1>3. PICK st2 : st2 = Merged(st, p[1], p[2], popcnt(c), Len(st))
  OBVIOUS
<1>4. Settled(p, c, st2)
  BY <1>3, Settles, Zenon
<1>5. hasher_merge_cv_stack(self, c) = WithStack(self, st2)
  <2>1. hasher_merge_cv_stack(self, c)
          = WithStack(self, Merged(self.cv_stack, self.key, self.chunk.flags, popcnt(c), Len(self.cv_stack)))
    BY MergeIs
  <2> QED
    BY <1>2, <1>3, <2>1, Zenon
<1>6. WithStack(self, st2) = Hasher(p[1], chunk, st2)
  BY <1>1, HasherChanged
<1> QED
  BY <1>1, <1>4, <1>5, <1>6, Zenon

\* The stack after c chunks and a push of u more.
Grown(p, c, u, st) == Stands(p, c + u, st) /\ Len(st) # 0 /\ (c # 0 => Len(st) >= 2)

\* A subtree of u chunks at a place that u divides goes on top of a ladder with
\* no merge due.
LEMMA LadderGrows ==
  ASSUME NEW at, NEW s, NEW k, NEW c, Ladder(at, s, k, c), Falls(s, k),
         NEW u \in Pow2, NEW m \in Nat, c = u * m,
         NEW at2, at2 = [i \in 1 .. k + 2 |-> IF i = k + 2 THEN c + u ELSE at[i]],
         NEW s2, s2 = [i \in 1 .. k + 1 |-> IF i = k + 1 THEN u ELSE s[i]]
  PROVE  Ladder(at2, s2, k + 1, c + u)
<1>1. k \in Nat /\ at \in [1 .. k + 1 -> Nat] /\ s \in [1 .. k -> Pow2] /\ at[1] = 0 /\ at[k + 1] = c
  BY DEF Ladder
<1>2. c \in Nat /\ u \in Nat \ {0} /\ c + u \in Nat
  BY <1>1, PowersOf2
<1>3. PICK h \in Nat \ {0} : h = k + 1 /\ h + 1 = k + 2
  BY <1>1
<1>4. at2 = [i \in 1 .. h + 1 |-> IF i = h + 1 THEN c + u ELSE at[i]]
      /\ s2 = [i \in 1 .. h |-> IF i = h THEN u ELSE s[i]]
  BY <1>3, Zenon
<1>5. at2 \in [1 .. h + 1 -> Nat] /\ at2[1] = 0 /\ at2[h + 1] = c + u
  BY <1>1, <1>2, <1>3, <1>4
<1>6. s2 \in [1 .. h -> Pow2]
  BY <1>1, <1>3, <1>4
<1>7. ASSUME NEW i \in 1 .. h PROVE at2[i + 1] = at2[i] + s2[i]
  <2>1. CASE i = h
    <3>1. at2[i + 1] = c + u /\ at2[i] = at[i] /\ s2[i] = u
      <4>1. i + 1 \in 1 .. h + 1 /\ i + 1 = h + 1 /\ i \in 1 .. h + 1 /\ i # h + 1
        BY <2>1
      <4> QED
        BY <1>4, <2>1, <4>1
    <3> QED
      BY <1>1, <1>3, <2>1, <3>1
  <2>2. CASE i # h
    <3>1. i \in 1 .. k /\ i + 1 # h + 1 /\ i # h + 1 /\ i + 1 \in 1 .. h + 1 /\ i \in 1 .. h + 1
      BY <1>1, <1>3, <2>2
    <3>2. at2[i + 1] = at[i + 1] /\ at2[i] = at[i] /\ s2[i] = s[i]
      BY <1>4, <2>2, <3>1
    <3>3. at[i + 1] = at[i] + s[i]
      BY <3>1, Rung
    <3> QED
      BY <3>2, <3>3
  <2> QED
    BY <2>1, <2>2
<1>8. ASSUME NEW i \in 1 .. h - 1
      PROVE  s2[i + 1] <= s2[i] /\ (i + 1 # h => s2[i + 1] < s2[i])
  <2>1. i \in 1 .. k /\ i # h /\ i \in 1 .. h /\ i + 1 \in 1 .. h
    BY <1>1, <1>3
  <2>2. s2[i] = s[i] /\ s2[i + 1] = IF i + 1 = h THEN u ELSE s[i + 1]
    BY <1>4, <2>1
  <2>3. CASE i + 1 = h
    <3>1. i = k /\ k # 0
      BY <1>1, <1>3, <2>1, <2>3
    <3>2. u <= s[k]
      BY <3>1, NextFits
    <3> QED
      BY <2>2, <2>3, <3>1, <3>2
  <2>4. CASE i + 1 # h
    <3>1. i # k
      BY <1>3, <2>4
    <3>2. s[i + 1] < s[i] /\ s[i + 1] \in Nat /\ s[i] \in Nat
      BY <2>1, <3>1, Rung
    <3> QED
      BY <2>2, <2>4, <3>2
  <2> QED
    BY <2>3, <2>4
<1>9. Ladder(at2, s2, h, c + u)
  <2>1. h \in Nat
    OBVIOUS
  <2> QED
    BY <1>5, <1>6, <1>7, <1>8, <2>1 DEF Ladder
<1> QED
  BY <1>3, <1>9, Zenon

\* The same of the stack: the subtree's node on top of it.
LEMMA PileGrows ==
  ASSUME NEW p, NEW c, NEW st, Settled(p, c, st), NEW u \in Pow2, NEW m \in Nat, c = u * m
  PROVE  Grown(p, c, u, Append(st, Node(p, c, InChunks(u))))
<1>1. PICK at, s, k : Ladder(at, s, k, c) /\ Falls(s, k) /\ st = Pile(p, at, s, k)
  BY DEF Settled
<1>2. k \in Nat /\ at \in [1 .. k + 1 -> Nat] /\ s \in [1 .. k -> Pow2] /\ at[1] = 0 /\ at[k + 1] = c
  BY <1>1 DEF Ladder
<1>3. PICK at2, s2 : /\ at2 = [i \in 1 .. k + 2 |-> IF i = k + 2 THEN c + u ELSE at[i]]
                     /\ s2 = [i \in 1 .. k + 1 |-> IF i = k + 1 THEN u ELSE s[i]]
  OBVIOUS
<1>4. Ladder(at2, s2, k + 1, c + u)
  <2>1. Ladder(at, s, k, c)
    BY <1>1
  <2>2. Falls(s, k)
    BY <1>1
  <2>3. at2 = [i \in 1 .. k + 2 |-> IF i = k + 2 THEN c + u ELSE at[i]]
    BY <1>3
  <2>4. s2 = [i \in 1 .. k + 1 |-> IF i = k + 1 THEN u ELSE s[i]]
    BY <1>3
  <2> QED
    BY ONLY <2>1, <2>2, <2>3, <2>4, LadderGrows, u \in Pow2, m \in Nat, c = u * m
<1>5. PICK v : v = Node(p, c, InChunks(u))
  OBVIOUS
<1>6. PICK h \in Nat \ {0} : h = k + 1
  BY <1>2
<1>7. Append(st, v) = Pile(p, at2, s2, h)
  <2>1. PICK T : st \in Seq(T) /\ Len(st) = k /\ \A i \in 1 .. k : st[i] = Node(p, at[i], InChunks(s[i]))
    <3>1. k \in Nat /\ st = Pile(p, at, s, k)
      BY <1>1, <1>2, Zenon
    <3>2. /\ \E T : Pile(p, at, s, k) \in Seq(T)
          /\ Len(Pile(p, at, s, k)) = k
          /\ \A i \in 1 .. k : Pile(p, at, s, k)[i] = Node(p, at[i], InChunks(s[i]))
      BY ONLY <3>1, PileIs
    <3> QED
      BY <3>1, <3>2, Zenon
  <2>2. PICK z : z = Append(st, v)
    OBVIOUS
  <2>3. z \in Seq(T \cup {v}) /\ Len(z) = h /\ z[h] = v /\ \A i \in 1 .. k : z[i] = st[i]
    BY <1>2, <1>6, <2>1, <2>2
  <2>4. z = [i \in 1 .. h |-> z[i]]
    BY <2>3
  <2>5. ASSUME NEW i \in 1 .. h
        PROVE  z[i] = Node(p, at2[i], InChunks(s2[i]))
    <3>1. CASE i = h
      <4>1. at2[i] = at[h] /\ s2[i] = u
        BY <1>2, <1>3, <1>6, <3>1
      <4>2. at[h] = c
        BY <1>2, <1>6
      <4> QED
        BY <1>5, <2>3, <3>1, <4>1, <4>2, Zenon
    <3>2. CASE i # h
      <4>1. i \in 1 .. k
        BY <1>2, <1>6, <3>2
      <4>2. at2[i] = at[i] /\ s2[i] = s[i]
        BY <1>2, <1>3, <1>6, <4>1
      <4> QED
        BY <2>1, <2>3, <4>1, <4>2, Zenon
    <3> QED
      BY <3>1, <3>2
  <2> QED
    BY <2>2, <2>4, <2>5, Zenon DEF Pile
<1>8. Len(Append(st, v)) = h /\ h # 0 /\ (c # 0 => h >= 2)
  <2>1. Len(Pile(p, at2, s2, h)) = h
    BY PileIs
  <2>2. c # 0 => k # 0
    BY <1>2
  <2> QED
    BY <1>2, <1>6, <1>7, <2>1, <2>2
<1>9. Stands(p, c + u, Append(st, v))
  BY <1>4, <1>6, <1>7, Zenon DEF Stands
<1> QED
  BY <1>5, <1>8, <1>9, Zenon DEF Grown

\* hasher_push_cv merges what is due and pushes the node of the next subtree.
LEMMA PushGrows ==
  ASSUME NEW p, NEW c, NEW st, Stands(p, c, st), NEW chunk, chunk.flags = p[2],
         NEW u \in Pow2, NEW m \in Nat, c = u * m
  PROVE  \E st2 : /\ Grown(p, c, u, st2)
                  /\ hasher_push_cv(Hasher(p[1], chunk, st), Node(p, c, InChunks(u)), c)
                       = Hasher(p[1], chunk, st2)
<1>1. PICK st1 : /\ Settled(p, c, st1)
                 /\ hasher_merge_cv_stack(Hasher(p[1], chunk, st), c) = Hasher(p[1], chunk, st1)
  BY MergeSettles
<1>2. PICK v : v = Node(p, c, InChunks(u))
  OBVIOUS
<1>3. PICK st2 : st2 = Append(st1, v)
  OBVIOUS
<1>4. Grown(p, c, u, st2)
  <2>1. Settled(p, c, st1)
    BY <1>1
  <2>2. Grown(p, c, u, Append(st1, Node(p, c, InChunks(u))))
    BY ONLY <2>1, PileGrows, u \in Pow2, m \in Nat, c = u * m
  <2> QED
    BY <1>2, <1>3, <2>2, Zenon
<1>5. hasher_push_cv(Hasher(p[1], chunk, st), v, c) = WithStack(Hasher(p[1], chunk, st1), st2)
  <2>1. Hasher(p[1], chunk, st1).cv_stack = st1
    BY HasherIs
  <2> QED
    BY <1>1, <1>3, <2>1, Zenon DEF hasher_push_cv, WithStack
<1>6. WithStack(Hasher(p[1], chunk, st1), st2) = Hasher(p[1], chunk, st2)
  BY HasherChanged
<1> QED
  BY <1>2, <1>4, <1>5, <1>6, Zenon

----------------------------------------------------------------------------
\* A hasher between two chunks, and the subtree it hashes next.

\* A chunk state without a byte, moved to another chunk.
LEMMA EmptyChunk ==
  ASSUME NEW p, NEW c, NEW d
  PROVE  WithCounter(ChunkAt(p, c, 0), d) = ChunkAt(p, d, 0)
<1>1. WholeBlocks(0) = 0
  BY DEF WholeBlocks
<1>2. \A x : ChunkAt(p, x, 0) = Chunk(p[1], x, ZeroBlock, 0, 0, p[2])
  <2>1. InBlocks(0) = 0 /\ 0 - 0 = 0
    BY Products
  <2>2. \A x : Chain(p, x, 0) = p[1]
    BY ChainIs
  <2>3. \A x : Block(p, x, 0, 0) = ZeroBlock
    BY <2>1, EmptyBlock, Zenon
  <2> QED
    BY <1>1, <2>1, <2>2, <2>3, Zenon DEF ChunkAt, Held
<1>3. WithCounter(Chunk(p[1], c, ZeroBlock, 0, 0, p[2]), d) = Chunk(p[1], d, ZeroBlock, 0, 0, p[2])
  BY ChunkChanged
<1> QED
  BY <1>2, <1>3, Zenon

\* A hasher after r bytes of chunk c.
HasherAt(p, c, r, st) == Hasher(p[1], ChunkAt(p, c, r), st)

\* The fields of such a hasher.
LEMMA HasherAtIs ==
  ASSUME NEW p, NEW c, NEW r, NEW st
  PROVE  /\ HasherAt(p, c, r, st).key = p[1] /\ HasherAt(p, c, r, st).chunk = ChunkAt(p, c, r)
         /\ HasherAt(p, c, r, st).cv_stack = st
         /\ HasherAt(p, c, r, st).chunk.flags = p[2] /\ HasherAt(p, c, r, st).chunk.chunk_counter = c
         /\ \A x : WithChunk(HasherAt(p, c, r, st), x) = Hasher(p[1], x, st)
<1>1. PICK x : x = ChunkAt(p, c, r)
  OBVIOUS
<1>2. x.flags = p[2] /\ x.chunk_counter = c
  <2> DEFINE b == WholeBlocks(r)
  <2>1. x = Chunk(Chain(p, c, b), c, Block(p, c, b, r), r - InBlocks(b), b, p[2])
    BY <1>1, Zenon DEF ChunkAt, Held
  <2> QED
    BY <2>1, ChunkIs
<1>3. Hasher(p[1], x, st).key = p[1] /\ Hasher(p[1], x, st).chunk = x /\ Hasher(p[1], x, st).cv_stack = st
  BY HasherIs
<1>4. \A y : WithChunk(Hasher(p[1], x, st), y) = Hasher(p[1], y, st)
  BY HasherChanged
<1> QED
  BY <1>1, <1>2, <1>3, <1>4, Zenon DEF HasherAt

\* The subtree that comes next: u chunks of the n bytes from chunk c on.
LEMMA NextSubtree ==
  ASSUME NEW c \in Nat, NEW n \in Nat, CL < n
  PROVE  \E u \in Pow2, m \in Nat :
           /\ ShrinkToFit(round_down_to_power_of_2(n), InChunks(c)) = InChunks(u)
           /\ InChunks(u) \div CL = u /\ InChunks(u) <= n /\ c = u * m
<1>1. CL \in Pow2 /\ CL \in Nat \ {0}
  BY Lengths
<1>2. PICK size \in Pow2 : size = round_down_to_power_of_2(n) /\ size <= n /\ n < 2 * size
  <2>1. n \in Nat \ {0}
    BY <1>1
  <2>2. LET r == round_down_to_power_of_2(n) IN r \in Pow2 /\ r <= n /\ n < 2 * r
    BY <2>1, RoundDown
  <2> QED
    BY <2>2
<1>3. size \in Nat
  BY PowersOf2
<1>4. CL <= size
  <2>1. SUFFICES ASSUME size < CL PROVE FALSE
    BY <1>1, <1>3
  <2>2. 2 * size <= CL
    BY <1>1, <2>1, PowerDivides
  <2> QED
    BY <1>1, <1>2, <1>3, <2>2
<1>5. PICK d \in Nat : d = InChunks(c) /\ d = CL * c
  <2>1. c * CL = CL * c /\ c * CL \in Nat
    BY <1>1
  <2> QED
    BY <2>1 DEF InChunks
<1>6. PICK fit \in Pow2 : fit = ShrinkToFit(size, d) /\ CL <= fit /\ fit <= size /\ \E m \in Nat : d = fit * m
  <2>1. LET fit == ShrinkToFit(size, d)
        IN  /\ fit \in Pow2 /\ CL <= fit /\ fit <= size
            /\ \E m \in Nat : d = fit * m
    BY <1>1, <1>4, <1>5, FitsBest
  <2> QED
    BY <2>1
<1>7. PICK m \in Nat : d = fit * m
  BY <1>6
<1>8. PICK u \in Pow2 : fit = CL * u
  BY <1>1, <1>6, PowerDivides
<1>9. u \in Nat /\ fit \in Nat
  BY PowersOf2
<1>10. fit = InChunks(u)
  <2>1. CL * u = u * CL
    BY <1>1, <1>9
  <2> QED
    BY <1>8, <2>1 DEF InChunks
<1>11. InChunks(u) \div CL = u
  <2>1. (u * CL) \div CL = u
    BY ONLY <1>1, <1>9, SMT
  <2> QED
    BY <2>1 DEF InChunks
<1>12. c = u * m
  <2>1. CL * c = (CL * u) * m
    BY <1>5, <1>7, <1>8, Zenon
  <2>2. (CL * u) * m = CL * (u * m)
    BY <1>1, <1>9
  <2>3. PICK x \in Nat : x = u * m
    BY <1>9
  <2>4. CL * c = CL * x
    BY <2>1, <2>2, <2>3, Zenon
  <2>5. c = x
    BY ONLY <1>1, <2>4, c \in Nat, x \in Nat, SMT
  <2> QED
    BY <2>3, <2>5
<1>13. fit <= n
  BY <1>2, <1>3, <1>6, <1>9
<1> QED
  BY <1>2, <1>5, <1>6, <1>10, <1>11, <1>12, <1>13, Zenon

\* What is left of the input when a hasher has taken a subtree of it.
Taken2(h, rest) == [hasher |-> h, rest |-> rest]

\* The hasher when a subtree has been pushed, its counter left as it was.
PushedSubtree(self, subtree, count, fit, degree) ==
  LET pair == compress_subtree_to_parent_node(subtree, self.key, count, self.chunk.flags, degree)
  IN  IF fit <= CL
      THEN hasher_push_cv(self, ChunkCV(subtree, self.key, count, self.chunk.flags), count)
      ELSE hasher_push_cv(hasher_push_cv(self, pair[1], count), pair[2], count + (fit \div CL) \div 2)

\* HashSubtree by its steps: the size of the subtree, its one or two chaining
\* values pushed, and the counter moved on.
LEMMA HashSubtreeIs ==
  ASSUME NEW self, NEW input, NEW degree, NEW count, count = self.chunk.chunk_counter,
         NEW fit, fit = ShrinkToFit(round_down_to_power_of_2(Len(input)), InChunks(count)),
         NEW pushed, pushed = PushedSubtree(self, SubSeq(input, 1, fit), count, fit, degree)
  PROVE  HashSubtree(self, input, degree)
           = Taken2(WithChunkCounter(pushed, pushed.chunk.chunk_counter + fit \div CL), Drop(input, fit))
BY Zenon DEF HashSubtree, Taken2, WithChunkCounter, CL, InChunks, PushedSubtree

----------------------------------------------------------------------------
\* One subtree leaves the input.

\* One subtree of the n bytes from chunk c on has gone from the input to the
\* stack.
SubtreeGone(p, c, n, st, rest, after) ==
  \E u \in Pow2 : \E st2 :
    /\ InChunks(u) <= n /\ Stands(p, c + u, st2) /\ Len(st2) # 0
    /\ InChunks(u) = n => Len(st2) >= 2
    /\ after = Taken2(HasherAt(p, c + u, 0, st2), Cut(rest, InChunks(c + u), n - InChunks(u)))

\* Hashing one subtree takes a hasher at chunk c to one behind that subtree.
LEMMA SubtreeGoes ==
  ASSUME NEW p, NEW S, NEW M \in Seq(S), p[3] = M, NEW c \in Nat, NEW n \in Nat, NEW degree \in Pow2,
         Within(c, n, M), CL < n, NEW st, Stands(p, c, st)
  PROVE  SubtreeGone(p, c, n, st, M, HashSubtree(HasherAt(p, c, 0, st), Cut(M, InChunks(c), n), degree))
<1>1. PICK self, input : self = HasherAt(p, c, 0, st) /\ input = Cut(M, InChunks(c), n)
  OBVIOUS
<1>2. PICK chunk : chunk = ChunkAt(p, c, 0)
  OBVIOUS
<1>3. /\ self = Hasher(p[1], chunk, st) /\ self.key = p[1] /\ self.chunk = chunk /\ self.cv_stack = st
      /\ self.chunk.flags = p[2] /\ self.chunk.chunk_counter = c /\ chunk.flags = p[2]
  <2>1. self = Hasher(p[1], chunk, st)
    BY <1>1, <1>2, Zenon DEF HasherAt
  <2>2. /\ self.key = p[1] /\ self.chunk = chunk /\ self.cv_stack = st
        /\ self.chunk.flags = p[2] /\ self.chunk.chunk_counter = c
    <3>1. /\ HasherAt(p, c, 0, st).key = p[1] /\ HasherAt(p, c, 0, st).chunk = ChunkAt(p, c, 0)
          /\ HasherAt(p, c, 0, st).cv_stack = st
          /\ HasherAt(p, c, 0, st).chunk.flags = p[2] /\ HasherAt(p, c, 0, st).chunk.chunk_counter = c
      BY HasherAtIs
    <3> QED
      BY <1>1, <1>2, <3>1, Zenon
  <2> QED
    BY <2>1, <2>2, Zenon
<1>4. PICK d \in Nat : d = InChunks(c) /\ d + n <= Len(M)
  BY Amount DEF Within
<1>5. Len(input) = n /\ input = Cut(M, d, n)
  <2>1. d + n <= Len(M)
    BY <1>4
  <2>2. Len(Cut(M, d, n)) = n
    BY ONLY <2>1, CutIs, M \in Seq(S), d \in Nat, n \in Nat
  <2> QED
    BY <1>1, <1>4, <2>2, Zenon
<1>6. PICK u \in Pow2, k \in Nat :
        /\ ShrinkToFit(round_down_to_power_of_2(n), InChunks(c)) = InChunks(u)
        /\ InChunks(u) \div CL = u /\ InChunks(u) <= n /\ c = u * k
  BY NextSubtree
<1>7. u \in Nat \ {0}
  BY PowersOf2
<1>8. PICK fit \in Nat : fit = InChunks(u) /\ fit <= n /\ fit \div CL = u
  BY <1>6, <1>7, Amount
<1>9. PICK subtree : subtree = SubSeq(input, 1, fit)
  OBVIOUS
<1>10. subtree = Cut(M, d, fit) /\ Drop(input, fit) = Cut(M, d + fit, n - fit)
  <2>1. 0 + fit <= n /\ fit + 0 <= n /\ d + n <= Len(M) /\ 0 \in Nat /\ d + 0 = d /\ 0 + 1 = 1 /\ 0 + fit = fit
    BY <1>4, <1>8
  <2>2. Stretch(Cut(M, d, n), 0, fit) = Cut(M, d + 0, fit)
    <3>1. 0 \in Nat
      OBVIOUS
    <3>2. 0 + fit <= n
      BY <2>1
    <3>3. d + n <= Len(M)
      BY <2>1
    <3> QED
      BY ONLY <3>1, <3>2, <3>3, CutOfCut, M \in Seq(S), d \in Nat, n \in Nat, fit \in Nat
  <2>3. Drop(Cut(M, d, n), fit) = Cut(M, d + fit, n - fit)
    <3>1. 0 \in Nat
      OBVIOUS
    <3>2. fit + 0 <= n
      BY <2>1
    <3>3. d + n <= Len(M)
      BY <2>1
    <3> QED
      BY ONLY <3>1, <3>2, <3>3, CutOfCut, M \in Seq(S), d \in Nat, n \in Nat, fit \in Nat
  <2>4. SubSeq(input, 1, fit) = Stretch(input, 0, fit)
    BY <2>1, Zenon DEF Stretch
  <2> QED
    BY <1>5, <1>9, <2>1, <2>2, <2>3, <2>4, Zenon
<1>11. PICK e \in Nat : e = c + u
  BY <1>7
<1>12. InChunks(e) = d + fit
  BY <1>4, <1>7, <1>8, <1>11, Amounts, Zenon
<1>13. PICK pair : pair = compress_subtree_to_parent_node(subtree, self.key, c, self.chunk.flags, degree)
  OBVIOUS
<1>14. PICK pushed : pushed = PushedSubtree(self, subtree, c, fit, degree)
  OBVIOUS
<1>141. pushed = IF fit <= CL
                  THEN hasher_push_cv(self, ChunkCV(subtree, self.key, c, self.chunk.flags), c)
                  ELSE hasher_push_cv(hasher_push_cv(self, pair[1], c), pair[2], c + u \div 2)
  BY <1>8, <1>13, <1>14, Zenon DEF PushedSubtree
<1>15. HashSubtree(self, input, degree)
         = Taken2(WithChunkCounter(pushed, pushed.chunk.chunk_counter + u), Drop(input, fit))
  <2>1. c = self.chunk.chunk_counter
    BY <1>3
  <2>2. fit = ShrinkToFit(round_down_to_power_of_2(Len(input)), InChunks(c))
    BY <1>5, <1>6, <1>8, Zenon
  <2>3. pushed = PushedSubtree(self, SubSeq(input, 1, fit), c, fit, degree)
    BY <1>9, <1>14, Zenon
  <2>4. HashSubtree(self, input, degree)
          = Taken2(WithChunkCounter(pushed, pushed.chunk.chunk_counter + fit \div CL), Drop(input, fit))
    BY ONLY <2>1, <2>2, <2>3, HashSubtreeIs
  <2> QED
    BY <1>8, <2>4, Zenon
<1>16. \E st2 : /\ pushed = Hasher(p[1], chunk, st2) /\ Stands(p, e, st2)
                /\ Len(st2) # 0 /\ (fit = n => Len(st2) >= 2)
  <2>1. CL \in Nat \ {0} /\ InChunks(1) = CL
    BY Lengths, Products
  <2>2. CASE u = 1
    <3>1. fit = CL /\ fit # n
      BY <1>8, <2>1, <2>2
    <3>2. ChunkCV(subtree, self.key, c, self.chunk.flags) = Node(p, c, InChunks(u))
      <4>1. CL \in Nat
        BY <2>1
      <4>2. Within(c, CL, M)
        BY <1>4, <4>1 DEF Within
      <4>3. CL <= CL
        BY <4>1
      <4>4. ChunkCV(Cut(M, InChunks(c), CL), p[1], c, p[2]) = Node(p, c, CL)
        BY ONLY <4>1, <4>2, <4>3, ChunkCVIs, M \in Seq(S), p[3] = M, c \in Nat
      <4> QED
        BY <1>3, <1>4, <1>8, <1>10, <3>1, <4>4, Zenon
    <3>3. PICK st2 : /\ Grown(p, c, u, st2)
                     /\ hasher_push_cv(Hasher(p[1], chunk, st), Node(p, c, InChunks(u)), c)
                          = Hasher(p[1], chunk, st2)
      <4>1. chunk.flags = p[2]
        BY <1>3
      <4>2. c = u * k
        BY <1>6
      <4> QED
        BY ONLY <4>1, <4>2, PushGrows, Stands(p, c, st), u \in Pow2, k \in Nat
    <3>4. fit <= CL
      BY <2>1, <3>1
    <3>5. pushed = Hasher(p[1], chunk, st2)
      BY <1>3, <1>141, <3>2, <3>3, <3>4, Zenon
    <3> QED
      BY <1>11, <3>1, <3>3, <3>5, Zenon DEF Grown
  <2>3. CASE u # 1
    <3>1. PICK h \in Pow2 : u = 2 * h
      BY <2>3, PowersOf2
    <3>2. h \in Nat \ {0}
      BY PowersOf2
    <3>3. u \div 2 = h /\ ~ (fit <= CL)
      <4>1. u \div 2 = h
        BY <3>1, <3>2
      <4>2. 1 < u
        BY <1>7, <2>3
      <4>3. InChunks(1) + CL <= InChunks(u)
        BY <1>7, <4>2, Amounts
      <4> QED
        BY <1>8, <2>1, <4>1, <4>3
    <3>4. pair = <<Node(p, c, InChunks(h)), Node(p, c + h, InChunks(h))>>
      <4>1. Within(c, InChunks(2 * h), M)
        <5>1. d + fit <= Len(M)
          BY <1>4, <1>8
        <5> QED
          BY <1>4, <1>8, <3>1, <5>1, Zenon DEF Within
      <4>2. compress_subtree_to_parent_node(Cut(M, InChunks(c), InChunks(2 * h)), p[1], c, p[2], degree)
              = <<Node(p, c, InChunks(h)), Node(p, c + h, InChunks(h))>>
        BY ONLY <4>1, ParentNode, M \in Seq(S), p[3] = M, c \in Nat, h \in Pow2, degree \in Pow2
      <4> QED
        BY <1>3, <1>4, <1>8, <1>10, <1>13, <3>1, <4>2, Zenon
    <3>5. PICK f \in Nat : f = c + h /\ f # 0
      BY <3>2
    <3>6. pair[1] = Node(p, c, InChunks(h)) /\ pair[2] = Node(p, f, InChunks(h))
      BY <3>4, <3>5
    <3>7. PICK x \in Nat, y \in Nat : x = 2 * k /\ y = x + 1 /\ c = h * x /\ f = h * y
      <4>1. c = h * (2 * k) /\ c + h = h * (2 * k + 1)
        <5>1. (2 * h) * k = h * (2 * k) /\ h * (2 * k) + h = h * (2 * k + 1)
          BY <3>2
        <5> QED
          BY <1>6, <3>1, <5>1
      <4> QED
        BY <3>5, <4>1
    <3>8. PICK st1 : /\ Grown(p, c, h, st1)
                     /\ hasher_push_cv(Hasher(p[1], chunk, st), Node(p, c, InChunks(h)), c)
                          = Hasher(p[1], chunk, st1)
      <4>1. chunk.flags = p[2]
        BY <1>3
      <4>2. c = h * x
        BY <3>7
      <4> QED
        BY ONLY <4>1, <4>2, PushGrows, Stands(p, c, st), h \in Pow2, x \in Nat
    <3>9. PICK st2 : /\ Grown(p, f, h, st2)
                     /\ hasher_push_cv(Hasher(p[1], chunk, st1), Node(p, f, InChunks(h)), f)
                          = Hasher(p[1], chunk, st2)
      <4>1. chunk.flags = p[2]
        BY <1>3
      <4>2. f = h * y
        BY <3>7
      <4>3. Stands(p, f, st1)
        BY <3>5, <3>8, Zenon DEF Grown
      <4> QED
        BY ONLY <4>1, <4>2, <4>3, PushGrows, h \in Pow2, y \in Nat
    <3>10. pushed = Hasher(p[1], chunk, st2)
      BY <1>3, <1>141, <3>3, <3>5, <3>6, <3>8, <3>9, Zenon
    <3>11. f + h = e
      BY <1>11, <3>1, <3>2, <3>5
    <3> QED
      BY <3>5, <3>9, <3>10, <3>11, Zenon DEF Grown
  <2> QED
    BY <2>2, <2>3
<1>17. PICK st2 : /\ pushed = Hasher(p[1], chunk, st2) /\ Stands(p, e, st2)
                  /\ Len(st2) # 0 /\ (fit = n => Len(st2) >= 2)
  BY <1>16
<1>18. WithChunkCounter(pushed, pushed.chunk.chunk_counter + u) = HasherAt(p, e, 0, st2)
  <2>1. pushed.chunk = chunk
    BY <1>17, HasherIs
  <2>2. WithChunkCounter(Hasher(p[1], chunk, st2), e) = Hasher(p[1], WithCounter(chunk, e), st2)
    BY HasherChanged
  <2>3. WithCounter(chunk, e) = ChunkAt(p, e, 0)
    BY <1>2, EmptyChunk
  <2> QED
    BY <1>3, <1>11, <1>17, <2>1, <2>2, <2>3, Zenon DEF HasherAt
<1>19. HashSubtree(self, input, degree) = Taken2(HasherAt(p, c + u, 0, st2), Cut(M, InChunks(c + u), n - InChunks(u)))
  BY <1>8, <1>10, <1>11, <1>12, <1>15, <1>18, Zenon
<1> QED
  BY <1>1, <1>8, <1>11, <1>17, <1>19, Zenon DEF SubtreeGone

----------------------------------------------------------------------------
\* All whole subtrees leave the input.

\* The recursion of the while loop of blake3_hasher_update.
SubtreesBody(q, f, k) ==
  IF k = 0 THEN Taken2(q[1], q[2])
  ELSE LET now == f[k - 1] IN IF Len(now.rest) > CL THEN HashSubtree(now.hasher, now.rest, q[3]) ELSE now
Subtrees == INSTANCE Counting WITH Domain <- NatDom, Measure <- Itself, Body <- SubtreesBody

\* The hasher and what is left of the input after k subtrees.
Round(self, input, degree, k) == Subtrees!Recursive(<<self, input, degree>>)[k]

\* That loop hashes subtrees while more than a chunk is left.
LEMMA RoundIs ==
  ASSUME NEW self, NEW input, NEW degree, NEW k \in Nat
  PROVE  /\ Round(self, input, degree, 0) = Taken2(self, input)
         /\ Round(self, input, degree, k + 1)
              = LET now == Round(self, input, degree, k)
                IN  IF Len(now.rest) > CL THEN HashSubtree(now.hasher, now.rest, degree) ELSE now
<1> DEFINE q == <<self, input, degree>>
<1>1. q[1] = self /\ q[2] = input /\ q[3] = degree
  OBVIOUS
<1> HIDE DEF q
<1>2. Subtrees!Sees(q)
  <2>1. ASSUME NEW x \in Nat, x # 0 PROVE x - 1 \in Nat /\ x - 1 < x
    BY <2>1
  <2> QED
    BY <2>1 DEF Subtrees!Sees, NatDom, Itself, SubtreesBody
<1>3. Subtrees!Recursive(q) = [x \in NatDom(q) |-> SubtreesBody(q, Subtrees!Recursive(q), x)]
  BY <1>2, Subtrees!Recursion
<1>4. \A x \in Nat : Subtrees!Recursive(q)[x] = SubtreesBody(q, Subtrees!Recursive(q), x)
  BY <1>3 DEF NatDom
<1>5. k + 1 # 0 /\ k + 1 \in Nat /\ (k + 1) - 1 = k /\ 0 \in Nat
  OBVIOUS
<1>6. Subtrees!Recursive(q)[0] = Taken2(self, input)
  BY <1>1, <1>4, <1>5, Zenon DEF SubtreesBody
<1>7. Subtrees!Recursive(q)[k + 1]
        = LET now == Subtrees!Recursive(q)[k]
          IN  IF Len(now.rest) > CL THEN HashSubtree(now.hasher, now.rest, degree) ELSE now
  BY <1>1, <1>4, <1>5, Zenon DEF SubtreesBody
<1> QED
  BY <1>6, <1>7, Zenon DEF Round, q

\* HashSubtrees is that loop.
LEMMA HashSubtreesIs ==
  ASSUME NEW self, NEW input, NEW degree
  PROVE  HashSubtrees(self, input, degree) = Round(self, input, degree, Len(input) \div CL)
<1> DEFINE q == <<self, input, degree>>
<1>1. q[1] = self /\ q[2] = input /\ q[3] = degree
  OBVIOUS
<1> HIDE DEF q
<1>2. Subtrees!Recursive(q)
        = CHOOSE f : f = [k \in Nat |->
            IF k = 0 THEN Taken2(self, input)
            ELSE LET now == f[k - 1]
                 IN  IF Len(now.rest) > CL THEN HashSubtree(now.hasher, now.rest, degree) ELSE now]
  BY <1>1, Zenon DEF Subtrees!Recursive, NatDom, SubtreesBody
<1>3. HashSubtrees(self, input, degree)
        = (CHOOSE f : f = [k \in Nat |->
            IF k = 0 THEN Taken2(self, input)
            ELSE LET now == f[k - 1]
                 IN  IF Len(now.rest) > CL THEN HashSubtree(now.hasher, now.rest, degree) ELSE now])[Len(input) \div CL]
  BY Zenon DEF HashSubtrees, While, CL, Taken2
<1> QED
  BY <1>2, <1>3, Zenon DEF Round, q

\* Of the n bytes from chunk c on the whole subtrees have gone to the stack,
\* at most j = CL bytes are left.
HalfGone(p, c, n, M, j, after) ==
  \E e \in Nat : \E st :
    /\ InChunks(e) + j = InChunks(c) + n /\ Stands(p, e, st)
    /\ j = 0 => Len(st) >= 2
    /\ after = Taken2(HasherAt(p, e, 0, st), Cut(M, InChunks(e), j))

\* A round of the loop with j bytes left takes at least a chunk away from them.
LEMMA RoundGoes ==
  ASSUME NEW p, NEW S, NEW M \in Seq(S), p[3] = M, NEW c \in Nat, NEW n \in Nat, NEW degree \in Pow2,
         Within(c, n, M), NEW j \in Nat, CL < j, NEW now, HalfGone(p, c, n, M, j, now)
  PROVE  /\ Len(now.rest) = j
         /\ \E i \in Nat : i + CL <= j /\ HalfGone(p, c, n, M, i, HashSubtree(now.hasher, now.rest, degree))
<1>1a. PICK e \in Nat : \E st :
        /\ InChunks(e) + j = InChunks(c) + n /\ Stands(p, e, st)
        /\ now = Taken2(HasherAt(p, e, 0, st), Cut(M, InChunks(e), j))
  BY Zenon DEF HalfGone
<1>1. PICK st :
        /\ InChunks(e) + j = InChunks(c) + n /\ Stands(p, e, st)
        /\ now = Taken2(HasherAt(p, e, 0, st), Cut(M, InChunks(e), j))
  BY <1>1a, Zenon
<1>2. now.rest = Cut(M, InChunks(e), j) /\ now.hasher = HasherAt(p, e, 0, st)
  BY <1>1 DEF Taken2
<1>3. Within(e, j, M)
  BY <1>1, Zenon DEF Within
<1>4. Len(now.rest) = j
  <2>1. PICK d \in Nat : d = InChunks(e) /\ d + j <= Len(M)
    BY <1>3, Amount DEF Within
  <2>2. d + j <= Len(M)
    BY <2>1
  <2>3. Len(Cut(M, d, j)) = j
    BY ONLY <2>2, CutIs, M \in Seq(S), d \in Nat, j \in Nat
  <2> QED
    BY <1>2, <2>1, <2>3, Zenon
<1>5. PICK after : after = HashSubtree(HasherAt(p, e, 0, st), Cut(M, InChunks(e), j), degree)
  OBVIOUS
<1>6. SubtreeGone(p, e, j, st, M, after)
  <2>1. Stands(p, e, st)
    BY <1>1
  <2>2. SubtreeGone(p, e, j, st, M, HashSubtree(HasherAt(p, e, 0, st), Cut(M, InChunks(e), j), degree))
    BY ONLY <1>3, <2>1, SubtreeGoes, M \in Seq(S), p[3] = M, e \in Nat, j \in Nat, CL < j, degree \in Pow2
  <2> QED
    BY <1>5, <2>2, Zenon
<1>7a. PICK u \in Pow2 : \E st2 :
        /\ InChunks(u) <= j /\ Stands(p, e + u, st2) /\ Len(st2) # 0
        /\ InChunks(u) = j => Len(st2) >= 2
        /\ after = Taken2(HasherAt(p, e + u, 0, st2), Cut(M, InChunks(e + u), j - InChunks(u)))
  BY <1>6, Zenon DEF SubtreeGone
<1>7. PICK st2 :
        /\ InChunks(u) <= j /\ Stands(p, e + u, st2) /\ Len(st2) # 0
        /\ InChunks(u) = j => Len(st2) >= 2
        /\ after = Taken2(HasherAt(p, e + u, 0, st2), Cut(M, InChunks(e + u), j - InChunks(u)))
  BY <1>7a, Zenon
<1>8. u \in Nat \ {0}
  BY PowersOf2
<1>9. PICK i \in Nat, g \in Nat : i = j - InChunks(u) /\ g = e + u /\ i + CL <= j
        /\ InChunks(g) + i = InChunks(e) + j /\ (i = 0 => InChunks(u) = j)
  <2>1. PICK x \in Nat : x = InChunks(u) /\ CL <= x
    BY <1>8, Amount
  <2>2. PICK y \in Nat : y = InChunks(e)
    BY Amount
  <2>3. PICK g \in Nat : g = e + u
    BY <1>8
  <2>4. InChunks(g) = y + x
    <3>1. InChunks(e + u) = InChunks(e) + InChunks(u)
      BY <1>8, Amounts
    <3> QED
      BY <2>1, <2>2, <2>3, <3>1, Zenon
  <2>5. x <= j
    BY <1>7, <2>1
  <2>6. PICK i \in Nat : i = j - x
    BY <2>5
  <2>7. i + CL <= j /\ (y + x) + i = y + j /\ (i = 0 => x = j)
    BY ONLY <2>1, <2>5, <2>6, Lengths, x \in Nat, y \in Nat, i \in Nat, j \in Nat
  <2>8. i = j - InChunks(u) /\ InChunks(g) + i = InChunks(e) + j /\ (i = 0 => InChunks(u) = j)
    BY <2>1, <2>2, <2>4, <2>6, <2>7, Zenon
  <2> QED
    BY <2>3, <2>7, <2>8, Zenon
<1>10. HalfGone(p, c, n, M, i, after)
  <2>1. InChunks(g) + i = InChunks(c) + n
    BY <1>1, <1>9, Zenon
  <2>2. Stands(p, g, st2) /\ (i = 0 => Len(st2) >= 2)
    BY <1>7, <1>9, Zenon
  <2>3. after = Taken2(HasherAt(p, g, 0, st2), Cut(M, InChunks(g), i))
    BY <1>7, <1>9, Zenon
  <2> QED
    BY <2>1, <2>2, <2>3, Zenon DEF HalfGone
<1> QED
  BY <1>2, <1>4, <1>5, <1>9, <1>10, Zenon

\* After the loop at most a chunk is left, and the stack holds all before it.
LEMMA SubtreesGo ==
  ASSUME NEW p, NEW S, NEW M \in Seq(S), p[3] = M, NEW c \in Nat, NEW n \in Nat, NEW degree \in Pow2,
         Within(c, n, M), n # 0, NEW st, Stands(p, c, st)
  PROVE  \E j \in Nat : j <= CL /\ HalfGone(p, c, n, M, j, HashSubtrees(HasherAt(p, c, 0, st), Cut(M, InChunks(c), n), degree))
<1> DEFINE self == HasherAt(p, c, 0, st)
           input == Cut(M, InChunks(c), n)
           now(k) == Round(self, input, degree, k)
           Fine(k) == \E j \in Nat : (j <= CL \/ InChunks(k) + j <= n) /\ HalfGone(p, c, n, M, j, now(k))
           Bad == {k \in Nat : ~ Fine(k)}
<1>0. CL \in Nat \ {0}
  BY Lengths
<1>1. ASSUME NEW k \in Nat
      PROVE  /\ now(0) = Taken2(self, input)
             /\ now(k + 1) = IF Len(now(k).rest) > CL THEN HashSubtree(now(k).hasher, now(k).rest, degree)
                             ELSE now(k)
  <2>1. now(0) = Taken2(self, input)
    BY RoundIs
  <2>2. now(k + 1) = IF Len(now(k).rest) > CL THEN HashSubtree(now(k).hasher, now(k).rest, degree) ELSE now(k)
    BY RoundIs
  <2> QED
    BY <2>1, <2>2, Zenon
<1> HIDE DEF now
<1>2. Fine(0)
  <2>1. now(0) = Taken2(self, input)
    BY <1>1, 0 \in Nat
  <2>2. HalfGone(p, c, n, M, n, now(0))
    BY <2>1, Zenon DEF HalfGone
  <2>3. InChunks(0) + n <= n
    BY Products
  <2> QED
    BY <2>2, <2>3, Zenon
<1>3. ASSUME NEW k \in Nat, Fine(k)
      PROVE  Fine(k + 1)
  <2>1. PICK j \in Nat : (j <= CL \/ InChunks(k) + j <= n) /\ HalfGone(p, c, n, M, j, now(k))
    BY <1>3
  <2>2. Len(now(k).rest) = j
    <3>1a. PICK e \in Nat : \E st2 :
            /\ InChunks(e) + j = InChunks(c) + n
            /\ now(k) = Taken2(HasherAt(p, e, 0, st2), Cut(M, InChunks(e), j))
      BY <2>1, Zenon DEF HalfGone
    <3>1. PICK st2 :
            /\ InChunks(e) + j = InChunks(c) + n
            /\ now(k) = Taken2(HasherAt(p, e, 0, st2), Cut(M, InChunks(e), j))
      BY <3>1a, Zenon
    <3>2. now(k).rest = Cut(M, InChunks(e), j)
      BY <3>1 DEF Taken2
    <3>3. PICK d \in Nat : d = InChunks(e) /\ d + j <= Len(M)
      <4>1. InChunks(e) \in Nat
        BY Amount
      <4>2. InChunks(e) + j <= Len(M)
        BY <3>1, Zenon DEF Within
      <4> QED
        BY <4>1, <4>2
    <3>4. Len(Cut(M, d, j)) = j
      BY ONLY <3>3, CutIs, M \in Seq(S), d \in Nat, j \in Nat
    <3> QED
      BY <3>2, <3>3, <3>4, Zenon
  <2>3. CASE j <= CL
    <3>1. ~ (Len(now(k).rest) > CL)
      BY <1>0, <2>2, <2>3
    <3>2. now(k + 1) = now(k)
      BY <1>1, <3>1, Zenon
    <3> QED
      BY <2>1, <2>3, <3>2, Zenon
  <2>4. CASE ~ (j <= CL)
    <3>1. Len(now(k).rest) > CL /\ CL < j
      BY <1>0, <2>2, <2>4
    <3>2. now(k + 1) = HashSubtree(now(k).hasher, now(k).rest, degree)
      BY <1>1, <3>1, Zenon
    <3>3. PICK i \in Nat : i + CL <= j /\ HalfGone(p, c, n, M, i, HashSubtree(now(k).hasher, now(k).rest, degree))
      <4>1. PICK x : x = now(k)
        OBVIOUS
      <4>2. HalfGone(p, c, n, M, j, x)
        BY <2>1, <4>1, Zenon
      <4>3. CL < j
        BY <3>1
      <4>4. \E i \in Nat : i + CL <= j /\ HalfGone(p, c, n, M, i, HashSubtree(x.hasher, x.rest, degree))
        BY ONLY <4>2, <4>3, RoundGoes, M \in Seq(S), p[3] = M, c \in Nat, n \in Nat, degree \in Pow2,
           Within(c, n, M), j \in Nat
      <4> QED
        BY <4>1, <4>4, Zenon
    <3>4. InChunks(k + 1) + i <= n
      <4>1. InChunks(k + 1) = InChunks(k) + CL /\ InChunks(k) \in Nat
        BY Amount
      <4>2. InChunks(k) + j <= n
        BY <2>1, <2>4
      <4> QED
        BY <1>0, <3>3, <4>1, <4>2
    <3> QED
      BY <3>2, <3>3, <3>4, Zenon
  <2> QED
    BY <2>3, <2>4
<1> HIDE DEF Fine
<1>4. Bad = {}
  <2>1. SUFFICES ASSUME Bad # {} PROVE FALSE
    OBVIOUS
  <2>2. PICK k \in Bad : \A j \in Bad : k <= j
    BY <2>1, LeastNumber
  <2>3. k # 0
    BY <1>2, <2>2
  <2>4. PICK j \in Nat : k = j + 1
    <3>1. k - 1 \in Nat /\ k = (k - 1) + 1
      BY <2>2, <2>3
    <3> QED
      BY <3>1
  <2>5. ~ (k <= j)
    BY <2>4
  <2> QED
    BY <1>3, <2>2, <2>4, <2>5
<1>5. PICK k \in Nat : k = Len(input) \div CL /\ n < InChunks(k + 1)
  <2>1. PICK d \in Nat : d = InChunks(c) /\ d + n <= Len(M)
    BY Amount DEF Within
  <2>2. Len(Cut(M, d, n)) = n
    <3> HIDE DEF Bad, Fine, input, self
    <3> QED
      BY ONLY <2>1, CutIs, M \in Seq(S), d \in Nat, n \in Nat
  <2>3. Len(input) = n
    BY <2>1, <2>2, Zenon
  <2>4. n \div CL \in Nat /\ n < (n \div CL) * CL + CL
    BY <1>0, SMT
  <2>5. \A x \in Nat : InChunks(x + 1) = x * CL + CL
    <3> TAKE x \in Nat
    <3>1. InChunks(x + 1) = InChunks(x) + CL
      BY Amount
    <3> QED
      BY <3>1, Zenon DEF InChunks
  <2> HIDE DEF input
  <2> QED
    BY <2>3, <2>4, <2>5
<1>6. PICK j \in Nat : (j <= CL \/ InChunks(k) + j <= n) /\ HalfGone(p, c, n, M, j, now(k))
  BY <1>4 DEF Fine
<1>7. j <= CL
  <2>1. InChunks(k + 1) = InChunks(k) + CL /\ InChunks(k) \in Nat
    BY Amount
  <2> QED
    BY <1>0, <1>5, <1>6, <2>1
<1>8. HashSubtrees(self, input, degree) = now(k)
  BY <1>5, HashSubtreesIs, Zenon DEF now
<1> QED
  BY <1>6, <1>7, <1>8, Zenon

----------------------------------------------------------------------------
\* What a hasher is after n bytes, and the parts of blake3_hasher_update.

\* A hasher that was set up with a key and flags, p[1] and p[2], and has taken
\* n bytes of the message p[3]: r of them are in chunk number c, which is not
\* closed, and the stack stands over the chunks before.
After(p, n, h) ==
  \E c \in Nat, r \in Nat : \E st :
    /\ n = InChunks(c) + r /\ r <= CL /\ h = HasherAt(p, c, r, st) /\ Stands(p, c, st)
    /\ r # 0 => Settled(p, c, st)
    /\ r = 0 /\ Len(st) # 0 => Len(st) >= 2

\* The empty stack is right for no chunks.
LEMMA EmptyPile ==
  ASSUME NEW p
  PROVE  Stands(p, 0, <<>>) /\ Settled(p, 0, <<>>)
<1> DEFINE at == [i \in 1 .. 1 |-> 0]
           s == [i \in 1 .. 0 |-> 1]
<1>1. Ladder(at, s, 0, 0)
  <2>1. at \in [1 .. 0 + 1 -> Nat] /\ s \in [1 .. 0 -> Pow2]
    BY PowersOf2
  <2>2. 1 .. 0 = {} /\ 1 .. 0 - 1 = {} /\ 0 + 1 = 1
    OBVIOUS
  <2> HIDE DEF s
  <2> QED
    BY <2>1, <2>2 DEF Ladder
<1>2. Falls(s, 0)
  BY DEF Falls
<1>3. Pile(p, at, s, 0) = <<>>
  <2> HIDE DEF at, s
  <2>1. ASSUME NEW z, z = Pile(p, at, s, 0) PROVE z = <<>>
    <3>1. (\E T : z \in Seq(T)) /\ Len(z) = 0
      BY <2>1, PileIs
    <3> QED
      BY <3>1
  <2> QED
    BY <2>1
<1> QED
  BY <1>1, <1>2, <1>3, Zenon DEF Stands, Settled

\* A new hasher, and one that is reset, has taken nothing.
LEMMA NewHasher ==
  ASSUME NEW p
  PROVE  /\ After(p, 0, hasher_init_base(p[1], p[2]))
         /\ \A n, h : After(p, n, h) => After(p, 0, blake3_hasher_reset(h))
<1>1. After(p, 0, HasherAt(p, 0, 0, <<>>))
  <2>1. 0 \in Nat /\ 0 = InChunks(0) + 0 /\ 0 <= CL /\ Len(<<>>) = 0
    BY Products, Lengths
  <2> QED
    BY <2>1, EmptyPile, Zenon DEF After
<1>2. hasher_init_base(p[1], p[2]) = HasherAt(p, 0, 0, <<>>)
  <2>1. chunk_state_init(p[1], p[2]) = ChunkAt(p, 0, 0)
    BY NewChunk
  <2> QED
    BY <2>1, Zenon DEF hasher_init_base, HasherAt, Hasher
<1>3. ASSUME NEW n, NEW h, After(p, n, h)
      PROVE  blake3_hasher_reset(h) = HasherAt(p, 0, 0, <<>>)
  <2>1. PICK c, r, st : h = HasherAt(p, c, r, st)
    BY <1>3, Zenon DEF After
  <2>2. h.key = p[1] /\ h.chunk = ChunkAt(p, c, r)
    BY <2>1, HasherAtIs
  <2>3. chunk_state_reset(ChunkAt(p, c, r), p[1], 0) = ChunkAt(p, 0, 0)
    BY NewChunk
  <2>4. blake3_hasher_reset(h) = WithChunkAndStack(h, chunk_state_reset(h.chunk, h.key, 0), <<>>)
    BY <2>1 DEF blake3_hasher_reset, WithChunkAndStack, HasherAt, Hasher
  <2>5. WithChunkAndStack(Hasher(p[1], ChunkAt(p, c, r), st), ChunkAt(p, 0, 0), <<>>)
          = Hasher(p[1], ChunkAt(p, 0, 0), <<>>)
    BY HasherChanged
  <2> QED
    BY <2>1, <2>2, <2>3, <2>4, <2>5, Zenon DEF HasherAt
<1> QED
  BY <1>1, <1>2, <1>3, Zenon

\* How much of the input fills up the unfinished chunk.
Topped(self, input) ==
  LET have == chunk_state_len(self.chunk)
  IN  IF have > 0 THEN Least(BLAKE3_CHUNK_LEN - have, Len(input)) ELSE 0

\* What becomes of a hasher without an unfinished chunk.
Hashed2(self, rest, degree) == Ending(HashSubtrees(self, rest, degree))

\* blake3_hasher_update by these steps.
LEMMA HasherUpdateIs ==
  ASSUME NEW self, NEW input, NEW degree,
         NEW take, take = Topped(self, input),
         NEW rest, rest = Drop(input, take),
         NEW filled, filled = Filled(self, input, take)
  PROVE  blake3_hasher_update(self, input, degree)
           = IF input = <<>> THEN self
             ELSE IF rest = <<>> THEN filled
             ELSE Hashed2(IF chunk_state_len(self.chunk) > 0 THEN Closed(filled, self.key) ELSE self, rest, degree)
<1>1. blake3_hasher_update(self, input, degree)
        = IF input = <<>> THEN self
          ELSE IF Drop(input, Topped(self, input)) = <<>> THEN Filled(self, input, Topped(self, input))
          ELSE Hashed2(IF chunk_state_len(self.chunk) > 0
                       THEN Closed(Filled(self, input, Topped(self, input)), self.key) ELSE self,
                       Drop(input, Topped(self, input)), degree)
  BY DEF blake3_hasher_update, Hashed2, Topped
<1> QED
  BY <1>1, Zenon

\* What these steps assign.
LEMMA PartsAre ==
  /\ \A x, y, n : Filled(x, y, n) = WithChunk(x, chunk_state_update(x.chunk, SubSeq(y, 1, n)))
  /\ \A x, k, y : y = hasher_push_cv(x, output_chaining_value(chunk_state_output(x.chunk)), x.chunk.chunk_counter)
       => Closed(x, k) = WithChunk(y, chunk_state_reset(y.chunk, k, y.chunk.chunk_counter + 1))
  /\ \A x, y : [x EXCEPT !.chunk = chunk_state_update(@, y)] = WithChunk(x, chunk_state_update(x.chunk, y))
<1>1. \A x, y, n : Filled(x, y, n) = WithChunk(x, chunk_state_update(x.chunk, SubSeq(y, 1, n)))
  BY DEF Filled, WithChunk
<1>2. \A x, k, y : y = hasher_push_cv(x, output_chaining_value(chunk_state_output(x.chunk)), x.chunk.chunk_counter)
       => Closed(x, k) = WithChunk(y, chunk_state_reset(y.chunk, k, y.chunk.chunk_counter + 1))
  BY Zenon DEF Closed, WithChunk
<1>3. \A x, y : [x EXCEPT !.chunk = chunk_state_update(@, y)] = WithChunk(x, chunk_state_update(x.chunk, y))
  BY DEF WithChunk
<1> QED
  BY <1>1, <1>2, <1>3, Zenon

\* The rest of an update, from a chunk that is empty.
LEMMA RestGoes ==
  ASSUME NEW p, NEW S, NEW M \in Seq(S), p[3] = M, NEW c \in Nat, NEW n \in Nat, NEW degree \in Pow2,
         Within(c, n, M), n # 0, NEW st, Stands(p, c, st)
  PROVE  After(p, InChunks(c) + n, Hashed2(HasherAt(p, c, 0, st), Cut(M, InChunks(c), n), degree))
<1>1. PICK hashed : hashed = HashSubtrees(HasherAt(p, c, 0, st), Cut(M, InChunks(c), n), degree)
  OBVIOUS
<1>2. PICK j \in Nat : j <= CL /\ HalfGone(p, c, n, M, j, hashed)
  <2>1. \E j \in Nat : j <= CL /\ HalfGone(p, c, n, M, j, HashSubtrees(HasherAt(p, c, 0, st), Cut(M, InChunks(c), n), degree))
    BY ONLY SubtreesGo, M \in Seq(S), p[3] = M, c \in Nat, n \in Nat, degree \in Pow2,
       Within(c, n, M), n # 0, Stands(p, c, st)
  <2> QED
    BY <1>1, <2>1, Zenon
<1>3a. PICK e \in Nat : \E st1 :
        /\ InChunks(e) + j = InChunks(c) + n /\ Stands(p, e, st1)
        /\ j = 0 => Len(st1) >= 2
        /\ hashed = Taken2(HasherAt(p, e, 0, st1), Cut(M, InChunks(e), j))
  BY <1>2, Zenon DEF HalfGone
<1>3. PICK st1 :
        /\ InChunks(e) + j = InChunks(c) + n /\ Stands(p, e, st1)
        /\ j = 0 => Len(st1) >= 2
        /\ hashed = Taken2(HasherAt(p, e, 0, st1), Cut(M, InChunks(e), j))
  BY <1>3a, Zenon
<1>4. hashed.hasher = HasherAt(p, e, 0, st1) /\ hashed.rest = Cut(M, InChunks(e), j)
  BY <1>3 DEF Taken2
<1>5. PICK d \in Nat : d = InChunks(e) /\ d + j <= Len(M)
  <2>1. InChunks(e) \in Nat
    BY Amount
  <2>2. InChunks(e) + j <= Len(M)
    BY <1>3, Zenon DEF Within
  <2> QED
    BY <2>1, <2>2
<1>6. hashed.rest = <<>> <=> j = 0
  <2>1. d + j <= Len(M)
    BY <1>5
  <2>2. Cut(M, d, j) = <<>> <=> j = 0
    BY ONLY <2>1, CutIs, M \in Seq(S), d \in Nat, j \in Nat
  <2> QED
    BY <1>4, <1>5, <2>2, Zenon
<1>7. CASE j = 0
  <2>1. Hashed2(HasherAt(p, c, 0, st), Cut(M, InChunks(c), n), degree) = HasherAt(p, e, 0, st1)
    BY <1>1, <1>4, <1>6, <1>7, Zenon DEF Hashed2, Ending
  <2>2. 0 <= CL /\ 0 \in Nat
    BY Lengths
  <2> QED
    BY <1>3, <1>7, <2>1, <2>2, Zenon DEF After
<1>8. CASE j # 0
  <2>1. chunk_state_update(ChunkAt(p, e, 0), Cut(M, InChunks(e), j)) = ChunkAt(p, e, j)
    <3>1. InChunks(e) + (0 + j) <= Len(M) /\ 0 \in Nat /\ 0 + j = j /\ InChunks(e) + 0 = InChunks(e)
      BY <1>5
    <3>2. 0 \in Nat
      BY <3>1
    <3>3. InChunks(e) + (0 + j) <= Len(M)
      BY <3>1
    <3>4. chunk_state_update(ChunkAt(p, e, 0), Cut(M, InChunks(e) + 0, j)) = ChunkAt(p, e, 0 + j)
      BY ONLY <3>2, <3>3, ChunkUpdate, M \in Seq(S), p[3] = M, e \in Nat, j \in Nat
    <3> QED
      BY <3>1, <3>4, Zenon
  <2>2. PICK last : last = WithChunk(hashed.hasher, chunk_state_update(hashed.hasher.chunk, hashed.rest))
    OBVIOUS
  <2>3. last = Hasher(p[1], ChunkAt(p, e, j), st1) /\ last.chunk.chunk_counter = e
    <3>1. HasherAt(p, e, 0, st1).chunk = ChunkAt(p, e, 0)
      BY HasherAtIs
    <3>2. \A x : WithChunk(HasherAt(p, e, 0, st1), x) = Hasher(p[1], x, st1)
      BY HasherAtIs
    <3>3. last = Hasher(p[1], ChunkAt(p, e, j), st1)
      BY <1>4, <2>1, <2>2, <3>1, <3>2, Zenon
    <3>4. HasherAt(p, e, j, st1).chunk.chunk_counter = e
      BY HasherAtIs
    <3> QED
      BY <3>3, <3>4, Zenon DEF HasherAt
  <2>4. PICK st2 : /\ Settled(p, e, st2)
                   /\ hasher_merge_cv_stack(Hasher(p[1], ChunkAt(p, e, j), st1), e) = Hasher(p[1], ChunkAt(p, e, j), st2)
    <3>1. ChunkAt(p, e, j).flags = p[2]
      BY ChunkLen
    <3>2. Stands(p, e, st1)
      BY <1>3
    <3> QED
      BY ONLY <3>1, <3>2, MergeSettles
  <2>5. Hashed2(HasherAt(p, c, 0, st), Cut(M, InChunks(c), n), degree) = HasherAt(p, e, j, st2)
    <3>1. Hashed2(HasherAt(p, c, 0, st), Cut(M, InChunks(c), n), degree) = Ending(hashed)
      BY <1>1, Zenon DEF Hashed2
    <3>2. [hashed.hasher EXCEPT !.chunk = chunk_state_update(@, hashed.rest)] = last
      BY <2>2, PartsAre, Zenon
    <3>3. Ending(hashed) = Settle(last)
      BY <1>6, <1>8, <3>2, Zenon DEF Ending
    <3> QED
      BY <2>3, <2>4, <3>1, <3>3, Zenon DEF Settle, HasherAt
  <2>6. Stands(p, e, st2)
    BY <2>4, Zenon DEF Stands, Settled
  <2> QED
    BY <1>2, <1>3, <1>8, <2>4, <2>5, <2>6, Zenon DEF After
<1> QED
  BY <1>7, <1>8

----------------------------------------------------------------------------
\* blake3_hasher_update.

\* An unfinished chunk takes bytes that do not fill it over.
LEMMA FilledIs ==
  ASSUME NEW p, NEW S, NEW M \in Seq(S), p[3] = M, NEW c \in Nat, NEW r \in Nat, NEW n \in Nat,
         NEW k \in Nat, k <= n, Within(c, r + n, M), NEW st
  PROVE  /\ Filled(HasherAt(p, c, r, st), Cut(M, InChunks(c) + r, n), k) = HasherAt(p, c, r + k, st)
         /\ Drop(Cut(M, InChunks(c) + r, n), k) = Cut(M, InChunks(c) + (r + k), n - k)
<1>0. PICK self, input : self = HasherAt(p, c, r, st) /\ input = Cut(M, InChunks(c) + r, n)
  OBVIOUS
<1>1. PICK d \in Nat : d = InChunks(c) /\ d + (r + n) <= Len(M)
  BY Amount DEF Within
<1>2. PICK from \in Nat : from = d + r /\ from + n <= Len(M) /\ from + k = d + (r + k) /\ from + 0 = from
  <2>1. d + r \in Nat /\ (d + r) + n = d + (r + n)
    OBVIOUS
  <2> QED
    BY <1>1, <2>1
<1>3. SubSeq(input, 1, k) = Cut(M, InChunks(c) + r, k)
  <2>1. 0 \in Nat /\ 0 + k <= n /\ 0 + 1 = 1 /\ 0 + k = k
    OBVIOUS
  <2>2. Stretch(Cut(M, from, n), 0, k) = Cut(M, from + 0, k)
    <3>1. 0 \in Nat
      OBVIOUS
    <3>2. 0 + k <= n
      BY <2>1
    <3>3. from + n <= Len(M)
      BY <1>2
    <3> QED
      BY ONLY <3>1, <3>2, <3>3, CutOfCut, M \in Seq(S), from \in Nat, n \in Nat, k \in Nat
  <2> QED
    BY <1>0, <1>1, <1>2, <2>1, <2>2, Zenon DEF Stretch
<1>4. Drop(input, k) = Cut(M, InChunks(c) + (r + k), n - k)
  <2>1. Drop(Cut(M, from, n), k) = Cut(M, from + k, n - k)
    <3>1. 0 \in Nat
      OBVIOUS
    <3>2. k + 0 <= n
      OBVIOUS
    <3>3. from + n <= Len(M)
      BY <1>2
    <3> QED
      BY ONLY <3>1, <3>2, <3>3, CutOfCut, M \in Seq(S), from \in Nat, n \in Nat, k \in Nat
  <2> QED
    BY <1>0, <1>1, <1>2, <2>1, Zenon
<1>5. chunk_state_update(ChunkAt(p, c, r), Cut(M, InChunks(c) + r, k)) = ChunkAt(p, c, r + k)
  <2>1. InChunks(c) + (r + k) <= Len(M)
    <3>1. d + (r + k) <= Len(M)
      <4>1. d + (r + k) <= d + (r + n) /\ Len(M) \in Nat
        OBVIOUS
      <4> QED
        BY <1>1, <4>1
    <3> QED
      BY <1>1, <3>1, Zenon
  <2> QED
    BY ONLY <2>1, ChunkUpdate, M \in Seq(S), p[3] = M, c \in Nat, r \in Nat, k \in Nat
<1>6. Filled(self, input, k) = HasherAt(p, c, r + k, st)
  <2>1. HasherAt(p, c, r, st).chunk = ChunkAt(p, c, r)
    BY HasherAtIs
  <2>2. \A x : WithChunk(HasherAt(p, c, r, st), x) = Hasher(p[1], x, st)
    BY HasherAtIs
  <2>3. Filled(self, input, k) = WithChunk(self, chunk_state_update(self.chunk, SubSeq(input, 1, k)))
    BY PartsAre, Zenon
  <2> QED
    BY <1>0, <1>3, <1>5, <2>1, <2>2, <2>3, Zenon DEF HasherAt
<1> QED
  BY <1>0, <1>4, <1>6, Zenon

\* A full chunk is closed: its chaining value goes to the stack.
LEMMA ClosedIs ==
  ASSUME NEW p, NEW S, NEW M \in Seq(S), p[3] = M, NEW c \in Nat, Within(c, CL, M),
         NEW st, Stands(p, c, st)
  PROVE  \E st2 : /\ Stands(p, c + 1, st2)
                  /\ Closed(HasherAt(p, c, CL, st), p[1]) = HasherAt(p, c + 1, 0, st2)
<1>0. CL \in Nat /\ CL <= CL /\ InChunks(1) = CL /\ 1 \in Pow2 /\ c = 1 * c
  BY Lengths, Products, PowersOf2
<1>1. PICK chunk : chunk = ChunkAt(p, c, CL)
  OBVIOUS
<1>2. chunk.flags = p[2] /\ chunk.chunk_counter = c
  <2>1. CL \in Nat
    BY <1>0
  <2>2. ChunkAt(p, c, CL).chunk_counter = c /\ ChunkAt(p, c, CL).flags = p[2]
    BY <2>1, ChunkLen
  <2> QED
    BY <1>1, <2>2, Zenon
<1>3. output_chaining_value(chunk_state_output(chunk)) = Node(p, c, InChunks(1))
  <2>1. CL \in Nat
    BY <1>0
  <2>2. CL <= CL
    BY <1>0
  <2>3. Node(p, c, CL) = Tip(p, c, CL)
    BY ONLY <2>1, <2>2, LeafIs, M \in Seq(S), p[3] = M, c \in Nat, Within(c, CL, M)
  <2>4. chunk_state_output(ChunkAt(p, c, CL)) = AsOutput(Tip(p, c, CL))
    BY ChunkOutput
  <2>5. output_chaining_value(AsOutput(Tip(p, c, CL))) = Tip(p, c, CL)
    BY Outputs
  <2> QED
    BY <1>0, <1>1, <2>3, <2>4, <2>5, Zenon
<1>4. PICK st2 : /\ Grown(p, c, 1, st2)
                 /\ hasher_push_cv(Hasher(p[1], chunk, st), Node(p, c, InChunks(1)), c) = Hasher(p[1], chunk, st2)
  <2>1. chunk.flags = p[2]
    BY <1>2
  <2>2. c = 1 * c
    BY <1>0
  <2>3. 1 \in Pow2
    BY <1>0
  <2> QED
    BY ONLY <2>1, <2>2, <2>3, PushGrows, Stands(p, c, st), c \in Nat
<1>5. PICK filled, pushed : filled = Hasher(p[1], chunk, st) /\ pushed = Hasher(p[1], chunk, st2)
  OBVIOUS
<1>6. filled.chunk = chunk /\ pushed.chunk = chunk
  BY <1>5, HasherIs
<1>7. pushed = hasher_push_cv(filled, output_chaining_value(chunk_state_output(filled.chunk)), filled.chunk.chunk_counter)
  BY <1>2, <1>3, <1>4, <1>5, <1>6, Zenon
<1>8. Closed(filled, p[1]) = WithChunk(pushed, chunk_state_reset(pushed.chunk, p[1], pushed.chunk.chunk_counter + 1))
  <2>1. \A x, k, y : y = hasher_push_cv(x, output_chaining_value(chunk_state_output(x.chunk)), x.chunk.chunk_counter)
          => Closed(x, k) = WithChunk(y, chunk_state_reset(y.chunk, k, y.chunk.chunk_counter + 1))
    BY PartsAre, Zenon
  <2> QED
    BY ONLY <1>7, <2>1, SMT
<1>9. chunk_state_reset(chunk, p[1], c + 1) = ChunkAt(p, c + 1, 0)
  BY <1>1, NewChunk
<1>10. \A x : WithChunk(Hasher(p[1], chunk, st2), x) = Hasher(p[1], x, st2)
  BY HasherChanged
<1>11. Closed(filled, p[1]) = HasherAt(p, c + 1, 0, st2)
  BY <1>2, <1>5, <1>6, <1>8, <1>9, <1>10, Zenon DEF HasherAt
<1> QED
  BY <1>1, <1>4, <1>5, <1>11, Zenon DEF HasherAt, Grown

\* A hasher that has taken m bytes of a message and is given the next n has
\* taken m + n of it, however the message is cut into calls.
THEOREM HasherUpdate ==
  ASSUME NEW p, NEW S, NEW M \in Seq(S), p[3] = M, NEW m \in Nat, NEW n \in Nat, m + n <= Len(M),
         NEW degree \in Pow2, NEW self, After(p, m, self)
  PROVE  After(p, m + n, blake3_hasher_update(self, Cut(M, m, n), degree))
<1>1a. PICK c \in Nat, r \in Nat : \E st :
        /\ m = InChunks(c) + r /\ r <= CL /\ self = HasherAt(p, c, r, st) /\ Stands(p, c, st)
        /\ r # 0 => Settled(p, c, st)
        /\ r = 0 /\ Len(st) # 0 => Len(st) >= 2
  BY Zenon DEF After
<1>1. PICK st :
        /\ m = InChunks(c) + r /\ r <= CL /\ self = HasherAt(p, c, r, st) /\ Stands(p, c, st)
        /\ r # 0 => Settled(p, c, st)
        /\ r = 0 /\ Len(st) # 0 => Len(st) >= 2
  BY <1>1a, Zenon
<1>2. PICK input : input = Cut(M, m, n)
  OBVIOUS
<1>3. PICK d \in Nat : d = InChunks(c) /\ m = d + r
  BY <1>1, Amount
<1>4. Len(input) = n /\ (input = <<>> <=> n = 0)
  BY <1>2, CutIs
<1>5. self.key = p[1] /\ chunk_state_len(self.chunk) = r
  <2>1. HasherAt(p, c, r, st).key = p[1] /\ HasherAt(p, c, r, st).chunk = ChunkAt(p, c, r)
    BY HasherAtIs
  <2>2. chunk_state_len(ChunkAt(p, c, r)) = r
    BY ChunkLen
  <2> QED
    BY <1>1, <2>1, <2>2, Zenon
<1>6. PICK take \in Nat : take = Topped(self, input) /\ take <= n /\ r + take <= CL
        /\ (r = 0 => take = 0) /\ (r # 0 /\ take # n => r + take = CL)
  <2>1. Topped(self, input) = IF r > 0 THEN Least(CL - r, n) ELSE 0
    BY <1>4, <1>5, Zenon DEF Topped, CL
  <2>2. CL \in Nat
    BY Lengths
  <2>3. (IF r > 0 THEN Least(CL - r, n) ELSE 0) = IF r > 0 THEN IF CL - r < n THEN CL - r ELSE n ELSE 0
    BY Zenon DEF Least
  <2>4. PICK take : take = IF r > 0 THEN IF CL - r < n THEN CL - r ELSE n ELSE 0
    OBVIOUS
  <2>5. take \in Nat /\ take <= n /\ r + take <= CL
        /\ (r = 0 => take = 0) /\ (r # 0 /\ take # n => r + take = CL)
    BY <1>1, <2>2, <2>4
  <2> QED
    BY <2>1, <2>3, <2>4, <2>5, Zenon
<1>61. take <= n /\ r + take <= CL /\ (r = 0 => take = 0) /\ (r # 0 /\ take # n => r + take = CL)
  BY <1>6
<1>7. PICK rest, filled : rest = Drop(input, take) /\ filled = Filled(self, input, take)
  OBVIOUS
<1>8. Within(c, r + n, M) /\ Within(c, r + take, M)
  <2>1. d + (r + n) <= Len(M) /\ d + (r + take) <= Len(M)
    <3>1. (d + r) + n = d + (r + n) /\ d + (r + take) <= d + (r + n) /\ Len(M) \in Nat
      BY ONLY <1>61, d \in Nat, r \in Nat, n \in Nat, take \in Nat, M \in Seq(S)
    <3> QED
      BY <1>3, <3>1
  <2> QED
    BY <1>3, <2>1, Zenon DEF Within
<1>9. filled = HasherAt(p, c, r + take, st) /\ rest = Cut(M, InChunks(c) + (r + take), n - take)
  <2>1. take <= n
    BY <1>6
  <2>2. Within(c, r + n, M)
    BY <1>8
  <2>3. self = HasherAt(p, c, r, st)
    BY <1>1
  <2>4. input = Cut(M, InChunks(c) + r, n)
    BY <1>1, <1>2, Zenon
  <2>5. /\ Filled(HasherAt(p, c, r, st), Cut(M, InChunks(c) + r, n), take) = HasherAt(p, c, r + take, st)
        /\ Drop(Cut(M, InChunks(c) + r, n), take) = Cut(M, InChunks(c) + (r + take), n - take)
    BY ONLY <2>1, <2>2, FilledIs, M \in Seq(S), p[3] = M, c \in Nat, r \in Nat, n \in Nat, take \in Nat
  <2> QED
    BY <1>7, <2>3, <2>4, <2>5, Zenon
<1>10. rest = <<>> <=> take = n
  <2>1. PICK from \in Nat, l \in Nat : from = InChunks(c) + (r + take) /\ l = n - take /\ from + l <= Len(M)
    <3>1. d + (r + take) \in Nat /\ n - take \in Nat /\ (d + (r + take)) + (n - take) = (d + r) + n
      BY ONLY <1>61, d \in Nat, r \in Nat, n \in Nat, take \in Nat
    <3> QED
      BY <1>3, <3>1
  <2>2. Cut(M, from, l) = <<>> <=> l = 0
    <3>1. from + l <= Len(M)
      BY <2>1
    <3> QED
      BY ONLY <3>1, CutIs, M \in Seq(S), from \in Nat, l \in Nat
  <2>3. l = 0 <=> take = n
    <3>1. l = n - take
      BY <2>1
    <3> QED
      BY ONLY <3>1, <1>61, l \in Nat, n \in Nat, take \in Nat
  <2> QED
    BY <1>9, <2>1, <2>2, <2>3, Zenon
<1>11. blake3_hasher_update(self, input, degree)
         = IF input = <<>> THEN self
           ELSE IF rest = <<>> THEN filled
           ELSE Hashed2(IF chunk_state_len(self.chunk) > 0 THEN Closed(filled, self.key) ELSE self, rest, degree)
  <2>1. take = Topped(self, input)
    BY <1>6
  <2>2. rest = Drop(input, take)
    BY <1>7
  <2>3. filled = Filled(self, input, take)
    BY <1>7
  <2> QED
    BY ONLY <2>1, <2>2, <2>3, HasherUpdateIs
<1>12. CASE n = 0
  <2>1. blake3_hasher_update(self, input, degree) = self /\ m + n = m
    BY <1>4, <1>11, <1>12
  <2> QED
    BY <1>2, <2>1, Zenon
<1>13. CASE n # 0 /\ take = n
  <2>1. blake3_hasher_update(self, input, degree) = filled
    BY <1>4, <1>10, <1>11, <1>13, Zenon
  <2>2. r # 0 /\ m + n = InChunks(c) + (r + take) /\ r + take # 0 /\ r + take \in Nat
    BY <1>3, <1>6, <1>13
  <2>3. After(p, m + n, filled)
    <3>1. PICK k \in Nat : k = r + take /\ k # 0
      BY <2>2
    <3>2. m + n = InChunks(c) + k /\ k <= CL /\ filled = HasherAt(p, c, k, st)
      BY <1>6, <1>9, <2>2, <3>1, Zenon
    <3>3. Settled(p, c, st)
      BY <1>1, <2>2
    <3> QED
      BY <1>1, <3>1, <3>2, <3>3, Zenon DEF After
  <2> QED
    BY <1>2, <2>1, <2>3, Zenon
<1>14. CASE n # 0 /\ take # n /\ r = 0
  <2>1. take = 0 /\ r + take = 0 /\ n - take = n /\ ~ (r > 0) /\ InChunks(c) + (r + take) = InChunks(c) /\ m = InChunks(c)
    <3>1. take = 0 /\ r + take = 0 /\ n - take = n /\ ~ (r > 0)
      BY <1>6, <1>14
    <3>2. d + (r + take) = d /\ m = d
      BY <1>3, <1>14, <3>1
    <3> QED
      BY <1>3, <3>1, <3>2, Zenon
  <2>2. blake3_hasher_update(self, input, degree) = Hashed2(self, Cut(M, InChunks(c), n), degree)
    BY <1>4, <1>5, <1>9, <1>10, <1>11, <1>14, <2>1, Zenon
  <2>3. After(p, InChunks(c) + n, Hashed2(HasherAt(p, c, 0, st), Cut(M, InChunks(c), n), degree))
    <3>1. Within(c, n, M)
      <4>1. d + n <= Len(M)
        BY <1>3, <1>14
      <4> QED
        BY <1>3, <4>1, Zenon DEF Within
    <3>2. n # 0
      BY <1>14
    <3>3. Stands(p, c, st)
      BY <1>1
    <3> QED
      BY ONLY <3>1, <3>2, <3>3, RestGoes, M \in Seq(S), p[3] = M, c \in Nat, n \in Nat, degree \in Pow2
  <2> QED
    BY <1>1, <1>2, <1>14, <2>1, <2>2, <2>3, Zenon
<1>15. CASE n # 0 /\ take # n /\ r # 0
  <2>1. r + take = CL /\ r > 0
    BY <1>6, <1>15
  <2>2. PICK st2 : /\ Stands(p, c + 1, st2)
                   /\ Closed(HasherAt(p, c, CL, st), p[1]) = HasherAt(p, c + 1, 0, st2)
    <3>1. Within(c, CL, M)
      BY <1>8, <2>1, Zenon
    <3>2. Stands(p, c, st)
      BY <1>1
    <3> QED
      BY ONLY <3>1, <3>2, ClosedIs, M \in Seq(S), p[3] = M, c \in Nat
  <2>3. PICK e \in Nat, l \in Nat : e = c + 1 /\ l = n - take /\ l # 0
    BY ONLY <1>61, <1>15, n \in Nat, take \in Nat, c \in Nat
  <2>4. InChunks(e) = InChunks(c) + CL
    BY <2>3, Amount
  <2>5. InChunks(e) + l = m + n /\ m + n <= Len(M)
    <3>1. CL \in Nat
      BY Lengths
    <3>2. (d + CL) + l = m + n
      BY ONLY <1>3, <1>6, <2>1, <2>3, <3>1, d \in Nat, r \in Nat, m \in Nat, n \in Nat, take \in Nat, l \in Nat, SMTT(40)
    <3> QED
      BY <1>3, <2>4, <3>2, Zenon
  <2>6. Within(e, l, M)
    BY <2>5, Zenon DEF Within
  <2>7. After(p, InChunks(e) + l, Hashed2(HasherAt(p, e, 0, st2), Cut(M, InChunks(e), l), degree))
    <3>1. Stands(p, e, st2)
      BY <2>2, <2>3, Zenon
    <3>2. l # 0
      BY <2>3
    <3> QED
      BY ONLY <2>6, <3>1, <3>2, RestGoes, M \in Seq(S), p[3] = M, e \in Nat, l \in Nat, degree \in Pow2
  <2>8. rest = Cut(M, InChunks(e), l) /\ filled = HasherAt(p, c, CL, st)
    BY <1>9, <2>1, <2>3, <2>4, Zenon
  <2>9. chunk_state_len(self.chunk) > 0 /\ rest # <<>> /\ input # <<>>
    BY <1>4, <1>5, <1>10, <1>15, <2>1, Zenon
  <2>10. blake3_hasher_update(self, input, degree) = Hashed2(HasherAt(p, e, 0, st2), Cut(M, InChunks(e), l), degree)
    BY <1>5, <1>11, <2>2, <2>3, <2>8, <2>9, Zenon
  <2> QED
    BY <1>2, <2>5, <2>7, <2>10, Zenon
<1> QED
  BY <1>12, <1>13, <1>14, <1>15

----------------------------------------------------------------------------
\* blake3_hasher_finalize_seek rolls the stack up to the root.

\* A node is what its output is compressed to.
LEMMA NodeCV ==
  ASSUME NEW p, NEW S, NEW M \in Seq(S), p[3] = M, NEW c \in Nat, NEW n \in Nat, Within(c, n, M)
  PROVE  output_chaining_value(AsOutput(Node(p, c, n))) = Node(p, c, n)
<1>0. CL \in Nat
  BY Lengths
<1>1. CASE n <= CL
  <2>1. Node(p, c, n) = Tip(p, c, n)
    BY ONLY <1>1, LeafIs, M \in Seq(S), p[3] = M, c \in Nat, n \in Nat, Within(c, n, M)
  <2>2. output_chaining_value(AsOutput(Tip(p, c, n))) = Tip(p, c, n)
    BY Outputs
  <2> QED
    BY <2>1, <2>2, Zenon
<1>2. CASE n > CL
  <2>1. PICK x, y : Node(p, c, n) = Parent(p, x, y)
    BY <1>2, NodeIs
  <2>2. output_chaining_value(AsOutput(Parent(p, x, y))) = Parent(p, x, y)
    BY Outputs
  <2> QED
    BY <2>1, <2>2, Zenon
<1> QED
  BY <1>0, <1>1, <1>2

\* The recursion of the loop of blake3_hasher_finalize_seek that rolls the
\* stack up.
RollBody(q, f, k) ==
  IF k = 0 THEN q[1]
  ELSE parent_output(<<q[2][q[3] - k + 1], output_chaining_value(f[k - 1])>>, q[4], q[5])
Rolls == INSTANCE Counting WITH Domain <- NatDom, Measure <- Itself, Body <- RollBody

\* An output joined with the k topmost of m chaining values.
Rolled(output, stack, m, key, flags, k) == Rolls!Recursive(<<output, stack, m, key, flags>>)[k]

\* Before its first round it has the output of the chunk, or of the two nodes
\* on top,
LEMMA RolledNone ==
  ASSUME NEW output, NEW stack, NEW m, NEW key, NEW flags
  PROVE  Rolled(output, stack, m, key, flags, 0) = output
<1> DEFINE q == <<output, stack, m, key, flags>>
<1>1. q[1] = output /\ q[2] = stack /\ q[3] = m /\ q[4] = key /\ q[5] = flags
  OBVIOUS
<1> HIDE DEF q
<1>2. Rolls!Sees(q)
  <2>1. ASSUME NEW x \in Nat, x # 0 PROVE x - 1 \in Nat /\ x - 1 < x
    BY <2>1
  <2> QED
    BY <2>1 DEF Rolls!Sees, NatDom, Itself, RollBody
<1>3. Rolls!Recursive(q) = [x \in NatDom(q) |-> RollBody(q, Rolls!Recursive(q), x)]
  BY <1>2, Rolls!Recursion
<1>4. \A x \in Nat : Rolls!Recursive(q)[x] = RollBody(q, Rolls!Recursive(q), x)
  BY <1>3 DEF NatDom
<1>5. 0 \in Nat
  OBVIOUS
<1>6. Rolls!Recursive(q)[0] = output
  BY <1>1, <1>4, <1>5, Zenon DEF RollBody
<1> QED
  BY <1>6, Zenon DEF Rolled, q

\* and each round makes it the output of the parent of the next node on the
\* stack and itself.
LEMMA RolledOne ==
  ASSUME NEW output, NEW stack, NEW m, NEW key, NEW flags, NEW k \in Nat
  PROVE  Rolled(output, stack, m, key, flags, k + 1)
           = parent_output(<<stack[m - (k + 1) + 1],
                             output_chaining_value(Rolled(output, stack, m, key, flags, k))>>, key, flags)
<1> DEFINE q == <<output, stack, m, key, flags>>
<1>1. q[1] = output /\ q[2] = stack /\ q[3] = m /\ q[4] = key /\ q[5] = flags
  OBVIOUS
<1> HIDE DEF q
<1>2. Rolls!Sees(q)
  <2>1. ASSUME NEW x \in Nat, x # 0 PROVE x - 1 \in Nat /\ x - 1 < x
    BY <2>1
  <2> QED
    BY <2>1 DEF Rolls!Sees, NatDom, Itself, RollBody
<1>3. Rolls!Recursive(q) = [x \in NatDom(q) |-> RollBody(q, Rolls!Recursive(q), x)]
  BY <1>2, Rolls!Recursion
<1>4. \A x \in Nat : Rolls!Recursive(q)[x] = RollBody(q, Rolls!Recursive(q), x)
  BY <1>3 DEF NatDom
<1>5. k + 1 # 0 /\ k + 1 \in Nat /\ (k + 1) - 1 = k /\ 0 \in Nat
  OBVIOUS
<1>7. Rolls!Recursive(q)[k + 1]
        = parent_output(<<stack[m - (k + 1) + 1], output_chaining_value(Rolls!Recursive(q)[k])>>, key, flags)
  BY <1>1, <1>4, <1>5, Zenon DEF RollBody
<1> QED
  BY <1>7, Zenon DEF Rolled, q

\* The root that a digest is taken from.
RootOutput(self) ==
  LET k == Len(self.cv_stack)
  IN  IF k = 0 \/ chunk_state_len(self.chunk) > 0
      THEN Rolled(chunk_state_output(self.chunk), self.cv_stack, k, self.key, self.chunk.flags, k)
      ELSE Rolled(parent_output(SubSeq(self.cv_stack, k - 1, k), self.key, self.chunk.flags),
                  self.cv_stack, k - 2, self.key, self.chunk.flags, k - 2)

\* blake3_hasher_finalize_seek gives the bytes of the output it has rolled up.
LEMMA FinalizeIs ==
  ASSUME NEW self, NEW seek, NEW n
  PROVE  blake3_hasher_finalize_seek(self, seek, n) = output_root_bytes(RootOutput(self), seek, n)
<1>1. \A o, m : Rolled(o, self.cv_stack, m, self.key, self.chunk.flags, m)
        = (CHOOSE f : f = [k \in Nat |->
              IF k = 0 THEN o
              ELSE parent_output(<<self.cv_stack[m - k + 1], output_chaining_value(f[k - 1])>>,
                                 self.key, self.chunk.flags)])[m]
  <2> TAKE o, m
  <2> DEFINE q == <<o, self.cv_stack, m, self.key, self.chunk.flags>>
  <2>1. q[1] = o /\ q[2] = self.cv_stack /\ q[3] = m /\ q[4] = self.key /\ q[5] = self.chunk.flags
    OBVIOUS
  <2> HIDE DEF q
  <2>2. Rolls!Recursive(q)
          = CHOOSE f : f = [k \in Nat |->
              IF k = 0 THEN o
              ELSE parent_output(<<self.cv_stack[m - k + 1], output_chaining_value(f[k - 1])>>,
                                 self.key, self.chunk.flags)]
    BY <2>1, Zenon DEF Rolls!Recursive, NatDom, RollBody
  <2> QED
    BY <2>2, Zenon DEF Rolled, q
<1> QED
  BY <1>1, Zenon DEF blake3_hasher_finalize_seek, RootOutput

\* What is there from rung i on is cut behind that rung.
CutAt(p, at, s, n, i) ==
  /\ InChunks(at[i]) <= n
  /\ Node(p, at[i], n - InChunks(at[i]))
       = Parent(p, Node(p, at[i], InChunks(s[i])), Node(p, at[i + 1], n - InChunks(at[i + 1])))
\* No merge was left undone when the last chunk began: with bytes in the last
\* chunk the sizes on the stack strictly decrease, and without the top of the
\* stack is the last of them.
LessThanRung(r, s, k, i) == (r # 0 => Falls(s, k)) /\ (r = 0 => i # k)

\* Rung i of a ladder and all that is above it make the node over the bytes
\* from there on: n bytes in all, r of them in a chunk that is not closed.
LEMMA RungNode ==
  ASSUME NEW p, NEW at, NEW s, NEW k, NEW c, Ladder(at, s, k, c), NEW r \in Nat, r <= CL,
         NEW n \in Nat, n = InChunks(c) + r, NEW i \in 1 .. k,
         LessThanRung(r, s, k, i)
  PROVE  CutAt(p, at, s, n, i)
<1>1. PICK a \in Nat, b \in Nat, u \in Pow2 : a = at[i] /\ b = at[i + 1] /\ u = s[i] /\ b = a + u
        /\ u \in Nat \ {0} /\ c \in Nat
  BY Rung
<1>2. b <= c /\ c <= b + u /\ (i # k => b < c) /\ (Falls(s, k) => c < b + u)
  <2>1. /\ at[i + 1] <= c /\ c <= at[i + 1] + s[i]
        /\ i # k => at[i + 1] < c
        /\ Falls(s, k) => c < at[i + 1] + s[i]
    BY Above
  <2> QED
    BY <1>1, <2>1, Zenon
<1>3. PICK x \in Nat, y \in Nat, z \in Nat : x = InChunks(a) /\ y = InChunks(u) /\ z = InChunks(c)
  BY <1>1, Amount
<1>4. InChunks(b) = x + y
  <2>1. InChunks(a + u) = InChunks(a) + InChunks(u)
    BY <1>1, Amounts
  <2> QED
    BY <1>1, <1>3, <2>1, Zenon
<1>5. InChunks(b + u) = (x + y) + y /\ InChunks(b) <= z /\ z <= InChunks(b + u)
      /\ (b < c => InChunks(b) + CL <= z) /\ (c < b + u => z + CL <= InChunks(b + u))
  <2>1. b + u \in Nat
    BY <1>1
  <2>2. InChunks(b + u) = InChunks(b) + InChunks(u)
    BY <1>1, Amounts
  <2>3. InChunks(b) <= InChunks(c)
    BY <1>1, <1>2, Amounts
  <2>4. InChunks(c) <= InChunks(b + u)
    BY <1>1, <1>2, <2>1, Amounts
  <2>5. b < c => InChunks(b) + CL <= InChunks(c)
    BY <1>1, Amounts
  <2>6. c < b + u => InChunks(c) + CL <= InChunks(b + u)
    BY <1>1, <2>1, Amounts
  <2> QED
    BY <1>3, <1>4, <2>2, <2>3, <2>4, <2>5, <2>6, Zenon
<1>6. CL \in Nat \ {0}
  BY Lengths
<1>7. x <= n /\ y < n - x /\ n - x <= 2 * y /\ (n - x) - y = n - (x + y) /\ n - x \in Nat
  <2>1. n = z + r
    BY <1>3
  <2>2. x + y <= z /\ z <= (x + y) + y /\ (b < c => (x + y) + CL <= z) /\ (c < b + u => z + CL <= (x + y) + y)
    BY <1>4, <1>5, Zenon
  <2>3. (r = 0 => b < c) /\ (r # 0 => c < b + u)
    BY <1>2 DEF LessThanRung
  <2>4. (r = 0 => (x + y) + CL <= z) /\ (r # 0 => z + CL <= (x + y) + y)
    BY <2>2, <2>3
  <2> QED
    BY ONLY <1>6, <2>1, <2>2, <2>4, r <= CL, x \in Nat, y \in Nat, z \in Nat, n \in Nat, r \in Nat
<1>8. PICK l \in Nat : l = n - x /\ y < l /\ l <= 2 * y /\ l - y = n - (x + y)
  BY <1>7
<1>9. Node(p, a, l) = Parent(p, Node(p, a, y), Node(p, b, l - y))
  <2>1. InChunks(u) < l
    BY <1>3, <1>8
  <2>2. l <= 2 * InChunks(u)
    BY <1>3, <1>8
  <2>3. Node(p, a, l) = Parent(p, Node(p, a, InChunks(u)), Node(p, a + u, l - InChunks(u)))
    BY ONLY <2>1, <2>2, NodeCut, a \in Nat, l \in Nat, u \in Pow2
  <2> QED
    BY <1>1, <1>3, <2>3, Zenon
<1>10. InChunks(at[i]) <= n
  BY <1>1, <1>3, <1>7
<1>11. Node(p, at[i], n - InChunks(at[i]))
         = Parent(p, Node(p, at[i], InChunks(s[i])), Node(p, at[i + 1], n - InChunks(at[i + 1])))
  BY <1>1, <1>3, <1>4, <1>8, <1>9, Zenon
<1> QED
  BY <1>10, <1>11, Zenon DEF CutAt

\* The output that is rolled up from what is there from rung j on is that at
\* the root.
LEMMA RollsUp ==
  ASSUME NEW p, NEW S, NEW M \in Seq(S), p[3] = M,
         NEW at, NEW s, NEW k, NEW c, Ladder(at, s, k, c), NEW r \in Nat, r <= CL,
         NEW n \in Nat, n = InChunks(c) + r, n <= Len(M), NEW j \in 1 .. k + 1,
         r # 0 => Falls(s, k), r = 0 => j <= k \/ k = 0,
         NEW output, output = AsOutput(Node(p, at[j], n - InChunks(at[j])))
  PROVE  Rolled(output, Pile(p, at, s, k), j - 1, p[1], p[2], j - 1) = AsOutput(Node(p, 0, n))
<1>0. k \in Nat /\ at[1] = 0 /\ at[k + 1] = c /\ c \in Nat
  BY DEF Ladder
<1> DEFINE now(m) == Rolled(output, Pile(p, at, s, k), j - 1, p[1], p[2], m)
           Fine(m) == now(m) = AsOutput(Node(p, at[j - m], n - InChunks(at[j - m])))
           Bad == {m \in Nat : m < j /\ ~ Fine(m)}
<1>1. ASSUME NEW m \in Nat
      PROVE  /\ now(0) = output
             /\ now(m + 1) = parent_output(<<Pile(p, at, s, k)[(j - 1) - (m + 1) + 1], output_chaining_value(now(m))>>, p[1], p[2])
  <2>1. now(0) = output
    BY RolledNone
  <2>2. now(m + 1) = parent_output(<<Pile(p, at, s, k)[(j - 1) - (m + 1) + 1], output_chaining_value(now(m))>>, p[1], p[2])
    BY RolledOne
  <2> QED
    BY <2>1, <2>2, Zenon
<1> HIDE DEF now
<1>2. Fine(0)
  <2>1. now(0) = output
    BY <1>1, 0 \in Nat
  <2>2. j - 0 = j
    BY <1>0
  <2> QED
    BY <2>1, <2>2, Zenon
<1>3. ASSUME NEW m \in Nat, m + 1 < j, Fine(m)
      PROVE  Fine(m + 1)
  <2>1. PICK i \in 1 .. k : i = j - (m + 1) /\ i + 1 = j - m /\ (j - 1) - (m + 1) + 1 = i
          /\ (r = 0 => i # k)
    <3>1. j - (m + 1) \in 1 .. k /\ (j - (m + 1)) + 1 = j - m /\ (j - 1) - (m + 1) + 1 = j - (m + 1)
          /\ (r = 0 => j - (m + 1) # k)
      BY <1>0, <1>3
    <3> QED
      BY <3>1, Zenon
  <2>2. /\ InChunks(at[i]) <= n
        /\ Node(p, at[i], n - InChunks(at[i]))
             = Parent(p, Node(p, at[i], InChunks(s[i])), Node(p, at[i + 1], n - InChunks(at[i + 1])))
    <3>1. LessThanRung(r, s, k, i)
      BY <2>1, Zenon DEF LessThanRung
    <3>2. CutAt(p, at, s, n, i)
      BY ONLY <3>1, RungNode, Ladder(at, s, k, c), r \in Nat, r <= CL, n \in Nat, n = InChunks(c) + r, i \in 1 .. k
    <3> QED
      BY <3>2, Zenon DEF CutAt
  <2>3. PICK b \in Nat, l \in Nat : b = at[i + 1] /\ l = n - InChunks(at[i + 1]) /\ Within(b, l, M)
    <3>1. PICK b \in Nat : b = at[i + 1] /\ b <= c
      <4>1. at[i + 1] \in Nat
        BY Rung
      <4>2. at[i + 1] <= c
        BY Above
      <4> QED
        BY <4>1, <4>2
    <3>2. PICK x \in Nat, z \in Nat : x = InChunks(b) /\ z = InChunks(c)
      BY <1>0, Amount
    <3>3. InChunks(b) <= InChunks(c)
      BY <1>0, <3>1, Amounts
    <3>4. x <= n /\ n - x \in Nat /\ x + (n - x) = n
      <4>1. x <= z /\ n = z + r
        BY <3>2, <3>3
      <4> QED
        BY ONLY <4>1, x \in Nat, z \in Nat, n \in Nat, r \in Nat
    <3> QED
      BY <3>1, <3>2, <3>4, Zenon DEF Within
  <2>4. now(m) = AsOutput(Node(p, b, l))
    BY <1>3, <2>1, <2>3, Zenon
  <2>5. output_chaining_value(now(m)) = Node(p, b, l)
    <3>1. Within(b, l, M)
      BY <2>3
    <3>2. output_chaining_value(AsOutput(Node(p, b, l))) = Node(p, b, l)
      BY ONLY <3>1, NodeCV, M \in Seq(S), p[3] = M, b \in Nat, l \in Nat
    <3> QED
      BY <2>4, <3>2, Zenon
  <2>6. Pile(p, at, s, k)[i] = Node(p, at[i], InChunks(s[i]))
    BY <1>0, PileIs
  <2>7. now(m + 1) = parent_output(<<Node(p, at[i], InChunks(s[i])), Node(p, b, l)>>, p[1], p[2])
    <3>1. now(m + 1) = parent_output(<<Pile(p, at, s, k)[(j - 1) - (m + 1) + 1], output_chaining_value(now(m))>>, p[1], p[2])
      BY <1>1
    <3> QED
      BY <2>1, <2>5, <2>6, <3>1, Zenon
  <2>8. parent_output(<<Node(p, at[i], InChunks(s[i])), Node(p, b, l)>>, p[1], p[2])
          = AsOutput(Parent(p, Node(p, at[i], InChunks(s[i])), Node(p, b, l)))
    BY Outputs
  <2> QED
    BY <2>1, <2>2, <2>3, <2>7, <2>8, Zenon
<1> HIDE DEF Fine
<1>4. Bad = {}
  <2>1. SUFFICES ASSUME Bad # {} PROVE FALSE
    OBVIOUS
  <2>2. PICK m \in Bad : \A i \in Bad : m <= i
    BY <2>1, LeastNumber
  <2>3. m # 0
    BY <1>2, <2>2
  <2>4. PICK i \in Nat : m = i + 1
    <3>1. m - 1 \in Nat /\ m = (m - 1) + 1
      BY <2>2, <2>3
    <3> QED
      BY <3>1
  <2>5. ~ (m <= i) /\ i < j /\ i + 1 < j
    BY <2>4, <1>0, <2>2
  <2> QED
    BY <1>3, <2>2, <2>4, <2>5
<1>5. PICK m \in Nat : m = j - 1 /\ m < j /\ j - m = 1
  <2>1. j - 1 \in Nat /\ j - 1 < j /\ j - (j - 1) = 1
    BY <1>0
  <2> QED
    BY <2>1
<1>6. Fine(m)
  BY <1>4, <1>5
<1>7. n - InChunks(0) = n
  BY Products
<1> QED
  BY <1>0, <1>5, <1>6, <1>7, Zenon DEF Fine, now

\* What finalize makes of a hasher that has taken n bytes.
LEMMA RootIs ==
  ASSUME NEW p, NEW S, NEW M \in Seq(S), p[3] = M, NEW n \in Nat, n <= Len(M), NEW self, After(p, n, self)
  PROVE  RootOutput(self) = AsOutput(Node(p, 0, n))
<1>1a. PICK c \in Nat, r \in Nat : \E st :
        /\ n = InChunks(c) + r /\ r <= CL /\ self = HasherAt(p, c, r, st) /\ Stands(p, c, st)
        /\ r # 0 => Settled(p, c, st)
        /\ r = 0 /\ Len(st) # 0 => Len(st) >= 2
  BY Zenon DEF After
<1>1. PICK st :
        /\ n = InChunks(c) + r /\ r <= CL /\ self = HasherAt(p, c, r, st) /\ Stands(p, c, st)
        /\ r # 0 => Settled(p, c, st)
        /\ r = 0 /\ Len(st) # 0 => Len(st) >= 2
  BY <1>1a, Zenon
<1>2. PICK at, s, k : Ladder(at, s, k, c) /\ (r # 0 => Falls(s, k)) /\ st = Pile(p, at, s, k)
  <2>1. CASE r = 0
    BY <1>1, <2>1, Zenon DEF Stands
  <2>2. CASE r # 0
    BY <1>1, <2>2, Zenon DEF Settled
  <2> QED
    BY <2>1, <2>2
<1>3. k \in Nat /\ at[1] = 0 /\ at[k + 1] = c
  BY <1>2 DEF Ladder
<1>4. /\ self.key = p[1] /\ self.chunk.flags = p[2] /\ self.cv_stack = st /\ chunk_state_len(self.chunk) = r
      /\ chunk_state_output(self.chunk) = AsOutput(Tip(p, c, r))
  <2>1. /\ HasherAt(p, c, r, st).key = p[1] /\ HasherAt(p, c, r, st).chunk = ChunkAt(p, c, r)
        /\ HasherAt(p, c, r, st).cv_stack = st /\ HasherAt(p, c, r, st).chunk.flags = p[2]
    BY HasherAtIs
  <2>2. chunk_state_len(ChunkAt(p, c, r)) = r
    BY ChunkLen
  <2>3. chunk_state_output(ChunkAt(p, c, r)) = AsOutput(Tip(p, c, r))
    BY ChunkOutput
  <2> QED
    BY <1>1, <2>1, <2>2, <2>3, Zenon
<1>5. Len(st) = k
  BY <1>2, <1>3, PileIs
<1>6. RootOutput(self)
        = IF k = 0 \/ r > 0 THEN Rolled(AsOutput(Tip(p, c, r)), st, k, p[1], p[2], k)
          ELSE Rolled(parent_output(SubSeq(st, k - 1, k), p[1], p[2]), st, k - 2, p[1], p[2], k - 2)
  BY <1>4, <1>5, Zenon DEF RootOutput
<1>7. CASE k = 0 \/ r > 0
  <2>1. Within(c, r, M)
    BY <1>1, Zenon DEF Within
  <2>2. Node(p, c, r) = Tip(p, c, r)
    <3>1. r <= CL
      BY <1>1
    <3> QED
      BY ONLY <2>1, <3>1, LeafIs, M \in Seq(S), p[3] = M, c \in Nat, r \in Nat
  <2>3. n - InChunks(c) = r
    <3>1. InChunks(c) \in Nat
      BY Amount
    <3> QED
      BY <1>1, <3>1
  <2>4. PICK j \in 1 .. k + 1 : j = k + 1 /\ j - 1 = k /\ (r = 0 => j <= k \/ k = 0)
    BY <1>3, <1>7
  <2>5. PICK output : output = AsOutput(Node(p, at[j], n - InChunks(at[j])))
    OBVIOUS
  <2>6. output = AsOutput(Tip(p, c, r))
    BY <1>3, <2>2, <2>3, <2>4, <2>5, Zenon
  <2>7. Rolled(output, Pile(p, at, s, k), j - 1, p[1], p[2], j - 1) = AsOutput(Node(p, 0, n))
    <3>1. r = 0 => j <= k \/ k = 0
      BY <2>4
    <3>2. Ladder(at, s, k, c)
      BY <1>2
    <3>3. r # 0 => Falls(s, k)
      BY <1>2
    <3>4. r <= CL
      BY <1>1
    <3>5. n = InChunks(c) + r
      BY <1>1
    <3> QED
      BY ONLY <2>5, <3>1, <3>2, <3>3, <3>4, <3>5, RollsUp, M \in Seq(S), p[3] = M, n <= Len(M),
         n \in Nat, r \in Nat, j \in 1 .. k + 1
  <2> QED
    BY <1>2, <1>6, <1>7, <2>4, <2>6, <2>7, Zenon
<1>8. CASE ~ (k = 0 \/ r > 0)
  <2>1. r = 0 /\ k >= 2
    BY <1>1, <1>3, <1>5, <1>8
  <2>2. PICK j \in 1 .. k + 1, h \in Nat \ {0} :
          /\ j = k - 1 /\ j - 1 = k - 2 /\ j <= k /\ h = j /\ h \in 1 .. k /\ h # k /\ k = h + 1 /\ h + 1 \in 1 .. k
    <3>1. k - 1 \in 1 .. k + 1 /\ k - 1 \in Nat \ {0} /\ (k - 1) - 1 = k - 2 /\ k - 1 <= k
          /\ k - 1 \in 1 .. k /\ k - 1 # k /\ k = (k - 1) + 1 /\ (k - 1) + 1 \in 1 .. k
      BY <1>3, <2>1
    <3> QED
      BY <3>1
  <2>3. SubSeq(st, k - 1, k) = <<st[h], st[h + 1]>>
    <3>1. PICK T : st \in Seq(T)
      BY <1>2, <1>3, PileIs, Zenon
    <3>2. Len(st) = h + 1
      BY <1>5, <2>2
    <3>3. SubSeq(st, Len(st) - 1, Len(st)) = <<st[h], st[h + 1]>>
      BY ONLY <3>1, <3>2, TopTwo, h \in Nat \ {0}
    <3> QED
      BY <1>5, <3>3, Zenon
  <2>4. st[h] = Node(p, at[h], InChunks(s[h])) /\ st[h + 1] = Node(p, at[h + 1], InChunks(s[h + 1]))
    <3>1. \A i \in 1 .. k : Pile(p, at, s, k)[i] = Node(p, at[i], InChunks(s[i]))
      BY <1>3, PileIs
    <3> QED
      BY <1>2, <2>2, <3>1, Zenon
  <2>5. InChunks(s[h + 1]) = n - InChunks(at[h + 1])
    <3>1. PICK a \in Nat, u \in Nat : a = at[h + 1] /\ u = s[h + 1] /\ c = a + u
      <4>1. PICK i \in 1 .. k : i = h + 1 /\ i = k
        BY <2>2
      <4>2. at[i] \in Nat /\ s[i] \in Nat \ {0} /\ at[i + 1] = at[i] + s[i]
        BY <1>2, Rung
      <4> QED
        BY <1>3, <4>1, <4>2
    <3>2. InChunks(a + u) = InChunks(a) + InChunks(u)
      BY Amounts
    <3>3. PICK x \in Nat, y \in Nat : x = InChunks(a) /\ y = InChunks(u)
      BY Amount
    <3>4. n = (x + y) + 0
      BY <1>1, <2>1, <3>1, <3>2, <3>3, Zenon
    <3>5. y = n - x
      BY <3>4
    <3> QED
      BY <3>1, <3>3, <3>5, Zenon
  <2>6. Node(p, at[h], n - InChunks(at[h]))
          = Parent(p, Node(p, at[h], InChunks(s[h])), Node(p, at[h + 1], n - InChunks(at[h + 1])))
    <3>1. LessThanRung(r, s, k, h)
      BY <1>2, <2>2, Zenon DEF LessThanRung
    <3>2. Ladder(at, s, k, c)
      BY <1>2
    <3>4. r <= CL
      BY <1>1
    <3>5. n = InChunks(c) + r
      BY <1>1
    <3>6. h \in 1 .. k
      BY <2>2
    <3> QED
      <4>1. CutAt(p, at, s, n, h)
        BY ONLY <3>1, <3>2, <3>4, <3>5, <3>6, RungNode, r \in Nat, n \in Nat
      <4> QED
        BY <4>1, Zenon DEF CutAt
  <2>7. PICK output : output = AsOutput(Node(p, at[j], n - InChunks(at[j])))
    OBVIOUS
  <2>8. parent_output(SubSeq(st, k - 1, k), p[1], p[2]) = output
    <3>1. \A x, y : parent_output(<<x, y>>, p[1], p[2]) = AsOutput(Parent(p, x, y))
      BY Outputs
    <3> QED
      <4>1. parent_output(SubSeq(st, k - 1, k), p[1], p[2]) = parent_output(<<st[h], st[h + 1]>>, p[1], p[2])
        BY <2>3, Zenon
      <4>2. parent_output(<<st[h], st[h + 1]>>, p[1], p[2]) = AsOutput(Parent(p, st[h], st[h + 1]))
        BY <3>1
      <4>3. Parent(p, st[h], st[h + 1]) = Node(p, at[h], n - InChunks(at[h]))
        BY <2>4, <2>5, <2>6, Zenon
      <4>4. output = AsOutput(Node(p, at[h], n - InChunks(at[h])))
        BY <2>2, <2>7, Zenon
      <4> QED
        BY <4>1, <4>2, <4>3, <4>4, Zenon
  <2>9. Rolled(output, Pile(p, at, s, k), j - 1, p[1], p[2], j - 1) = AsOutput(Node(p, 0, n))
    <3>1. r = 0 => j <= k \/ k = 0
      BY <2>2
    <3>2. Ladder(at, s, k, c)
      BY <1>2
    <3>3. r # 0 => Falls(s, k)
      BY <1>2
    <3>4. r <= CL
      BY <1>1
    <3>5. n = InChunks(c) + r
      BY <1>1
    <3> QED
      BY ONLY <2>7, <3>1, <3>2, <3>3, <3>4, <3>5, RollsUp, M \in Seq(S), p[3] = M, n <= Len(M),
         n \in Nat, r \in Nat, j \in 1 .. k + 1
  <2> QED
    BY <1>2, <1>6, <1>8, <2>2, <2>8, <2>9, Zenon
<1> QED
  BY <1>7, <1>8

----------------------------------------------------------------------------
\* The bytes of the digest.

\* The recursion of the loop of output_root_bytes; a call is the number of the
\* output block, the offset in it and how many bytes are still to come.
CopyDom(q) == Nat \X (0 .. 63) \X Nat
Third(x) == x[3]
Xof(q, counter) == compress_xof(q[1], q[2], q[3], counter, q[4] \cup {"ROOT"})
CopyBody(q, copy, call) ==
  LET counter == call[1]
      offset == call[2]
      len == call[3]
      take == Least(64 - offset, len)
  IN  IF len = 0 THEN <<>>
      ELSE SubSeq(Xof(q, counter).at, offset + 1, offset + take)
             \o copy[<<counter + 1, 0, len - take>>]
Copies == INSTANCE Counting WITH Domain <- CopyDom, Measure <- Third, Body <- CopyBody

\* The places of n bytes of the output from place i on.
Places(i, n) == [j \in 1 .. n |-> i + j - 1]

\* The k bytes of a block from place o on, and l bytes from the next block on.
Joining(q, c, o, k, l) ==
  SubSeq(Xof(q, c).at, o + 1, o + k) \o Places(64 * (c + 1) + 0, l) = Places(64 * c + o, k + l)

\* The bytes that are left of an output block and those of the blocks behind it
\* are the bytes from there on.
LEMMA PlacesJoin ==
  ASSUME NEW q, NEW c \in Nat, NEW o \in 0 .. 63, NEW k \in Nat, o + k <= 64, NEW l \in Nat,
         k = 64 - o \/ l = 0
  PROVE  Joining(q, c, o, k, l)
<1>0. PICK g \in Nat, h \in Nat, e \in Nat : g = 64 * c /\ h = 64 * (c + 1) + 0 /\ e = 64 * c + o /\ h = g + 64 /\ e = g + o
  <2>1. 64 * c \in Nat /\ 64 * (c + 1) + 0 = 64 * c + 64
    OBVIOUS
  <2> QED
    BY <2>1
<1>1. PICK w \in Seq(Nat) : w = Xof(q, c).at /\ Len(w) = 64 /\ \A i \in 1 .. 64 : w[i] = (g + i) - 1
  <2>1. Xof(q, c).at = [i \in 1 .. 64 |-> g + i - 1]
    BY <1>0 DEF Xof, compress_xof
  <2>2. ASSUME NEW w, w = [i \in 1 .. 64 |-> g + i - 1]
        PROVE  w \in Seq(Nat) /\ Len(w) = 64 /\ \A i \in 1 .. 64 : w[i] = (g + i) - 1
    <3>1. w \in [1 .. 64 -> Nat]
      BY <2>2
    <3> QED
      BY <2>2, <3>1
  <2> QED
    BY <2>1, <2>2
<1>2. PICK x : x = SubSeq(w, o + 1, o + k)
  OBVIOUS
<1>3. x \in Seq(Nat) /\ Len(x) = k /\ \A i \in 1 .. k : x[i] = (e + i) - 1
  <2>1. PICK a \in Nat, b \in Nat : a = o + 1 /\ b = o + k /\ 1 <= a /\ b <= Len(w) /\ a <= b + 1
    <3>1. Len(w) = 64
      BY <1>1
    <3>2. o + 1 \in Nat /\ o + k \in Nat /\ 1 <= o + 1 /\ o + k <= Len(w) /\ o + 1 <= (o + k) + 1
      BY ONLY <3>1, o + k <= 64, o \in 0 .. 63, k \in Nat
    <3> QED
      BY <3>2, Zenon
  <2>2. x = SubSeq(w, a, b)
    BY <1>2, <2>1
  <2>3. x \in Seq(Nat) /\ Len(x) = (b + 1) - a /\ \A i \in 1 .. (b + 1) - a : x[i] = w[(a + i) - 1]
    BY ONLY <2>1, <2>2, w \in Seq(Nat), a \in Nat, b \in Nat
  <2>4. (b + 1) - a = k
    BY <2>1
  <2>5. ASSUME NEW i \in 1 .. k PROVE (a + i) - 1 \in 1 .. 64 /\ (g + ((a + i) - 1)) - 1 = (e + i) - 1
    BY <1>0, <2>1
  <2>6. ASSUME NEW i \in 1 .. k PROVE x[i] = (e + i) - 1
    <3>1. PICK m \in 1 .. 64 : m = (a + i) - 1 /\ (g + m) - 1 = (e + i) - 1
      BY <2>5
    <3>2. x[i] = w[m]
      BY <2>3, <2>4, <3>1
    <3> QED
      BY <1>1, <3>1, <3>2
  <2> QED
    BY <2>3, <2>4, <2>6
<1>4. PICK y : y = Places(h, l)
  OBVIOUS
<1>5. y \in Seq(Nat) /\ Len(y) = l /\ \A i \in 1 .. l : y[i] = (h + i) - 1
  <2>1. y = [i \in 1 .. l |-> h + i - 1]
    BY <1>4 DEF Places
  <2> QED
    BY <2>1
<1>6. PICK z : z = x \o y
  OBVIOUS
<1>7. z \in Seq(Nat) /\ Len(z) = k + l
  <2>1. x \in Seq(Nat) /\ Len(x) = k /\ y \in Seq(Nat) /\ Len(y) = l
    BY <1>3, <1>5
  <2> QED
    <3>1. x \o y \in Seq(Nat) /\ Len(x \o y) = Len(x) + Len(y)
      BY <2>1
    <3> QED
      BY <1>6, <2>1, <3>1, Zenon
<1>8. ASSUME NEW i \in 1 .. k + l
      PROVE  z[i] = (e + i) - 1
  <2>1. CASE i <= k
    BY <1>3, <1>5, <1>6, <2>1
  <2>2. CASE i > k
    <3>1. z[i] = y[i - k]
      <4>1. Len(x) = k /\ i \in 1 .. Len(x) + Len(y) /\ i > Len(x)
        BY <1>3, <1>5, <2>2
      <4>2. (x \o y)[i] = y[i - Len(x)]
        BY ONLY <4>1, <1>3, <1>5, i \in 1 .. k + l, k \in Nat, l \in Nat
      <4> QED
        BY <1>6, <4>1, <4>2, Zenon
    <3>2. i - k \in 1 .. l /\ k = 64 - o
      BY <2>2
    <3>3. (h + (i - k)) - 1 = (e + i) - 1
      BY <1>0, <3>2
    <3> QED
      BY <1>5, <3>1, <3>2, <3>3
  <2> QED
    BY <2>1, <2>2
<1>9. z = Places(e, k + l)
  <2>1. z = [i \in 1 .. k + l |-> z[i]]
    BY <1>7
  <2>2. Places(e, k + l) = [i \in 1 .. k + l |-> (e + i) - 1]
    BY DEF Places
  <2> QED
    BY <1>8, <2>1, <2>2
<1> QED
  BY <1>0, <1>1, <1>2, <1>4, <1>6, <1>9, Zenon DEF Joining

\* The loop of output_root_bytes gives the n bytes of the root's output that
\* begin where it begins.
LEMMA CopyIs ==
  ASSUME NEW q, NEW n \in Nat
  PROVE  \A c \in Nat, o \in 0 .. 63 : Copies!Recursive(q)[<<c, o, n>>] = Places(64 * c + o, n)
<1> DEFINE Fine(m) == \A c \in Nat, o \in 0 .. 63 : Copies!Recursive(q)[<<c, o, m>>] = Places(64 * c + o, m)
           Bad == {m \in Nat : ~ Fine(m)}
           Take(o, m) == Least(64 - o, m)
<1>1. ASSUME NEW o \in 0 .. 63, NEW m \in Nat, m # 0
      PROVE  /\ Take(o, m) \in Nat \ {0} /\ o + Take(o, m) <= 64 /\ m - Take(o, m) \in Nat /\ m - Take(o, m) < m
             /\ Take(o, m) = 64 - o \/ m - Take(o, m) = 0
             /\ Take(o, m) + (m - Take(o, m)) = m
  BY <1>1 DEF Least
<1> HIDE DEF Take
<1>2. ASSUME NEW f, NEW c, NEW o, NEW m
      PROVE  CopyBody(q, f, <<c, o, m>>)
               = IF m = 0 THEN <<>>
                 ELSE SubSeq(Xof(q, c).at, o + 1, o + Take(o, m)) \o f[<<c + 1, 0, m - Take(o, m)>>]
  BY DEF CopyBody, Take
<1>3. Copies!Sees(q)
  <2>1. ASSUME NEW x \in CopyDom(q)
        PROVE  /\ Third(x) \in Nat
               /\ \A f, g : (\A y \in CopyDom(q) : Third(y) < Third(x) => f[y] = g[y])
                              => CopyBody(q, f, x) = CopyBody(q, g, x)
    <3>1. PICK c \in Nat, o \in 0 .. 63, m \in Nat : x = <<c, o, m>>
      BY DEF CopyDom
    <3>2. Third(x) = m
      BY <3>1 DEF Third
    <3>3. ASSUME NEW f, NEW g, \A y \in CopyDom(q) : Third(y) < Third(x) => f[y] = g[y]
          PROVE  CopyBody(q, f, x) = CopyBody(q, g, x)
      <4>1. CASE m = 0
        BY <1>2, <3>1, <4>1, Zenon
      <4>2. CASE m # 0
        <5>1. PICK l \in Nat : l = m - Take(o, m) /\ l < m
          BY <1>1, <4>2
        <5>2. <<c + 1, 0, l>> \in CopyDom(q) /\ Third(<<c + 1, 0, l>>) = l
          BY DEF CopyDom, Third
        <5>3. f[<<c + 1, 0, l>>] = g[<<c + 1, 0, l>>]
          BY <3>2, <3>3, <5>1, <5>2
        <5>4. CopyBody(q, f, <<c, o, m>>) = SubSeq(Xof(q, c).at, o + 1, o + Take(o, m)) \o f[<<c + 1, 0, l>>]
          BY <1>2, <4>2, <5>1, Zenon
        <5>5. CopyBody(q, g, <<c, o, m>>) = SubSeq(Xof(q, c).at, o + 1, o + Take(o, m)) \o g[<<c + 1, 0, l>>]
          BY <1>2, <4>2, <5>1, Zenon
        <5> QED
          BY <3>1, <5>3, <5>4, <5>5, Zenon
      <4> QED
        BY <4>1, <4>2
    <3> QED
      BY <3>2, <3>3, Zenon
  <2> QED
    BY <2>1 DEF Copies!Sees
<1>4. Copies!Recursive(q) = [x \in CopyDom(q) |-> CopyBody(q, Copies!Recursive(q), x)]
  BY <1>3, Copies!Recursion
<1>5. ASSUME NEW c \in Nat, NEW o \in 0 .. 63, NEW m \in Nat
      PROVE  Copies!Recursive(q)[<<c, o, m>>]
               = IF m = 0 THEN <<>>
                 ELSE SubSeq(Xof(q, c).at, o + 1, o + Take(o, m)) \o Copies!Recursive(q)[<<c + 1, 0, m - Take(o, m)>>]
  <2>1. <<c, o, m>> \in CopyDom(q)
    BY DEF CopyDom
  <2>2. Copies!Recursive(q)[<<c, o, m>>] = CopyBody(q, Copies!Recursive(q), <<c, o, m>>)
    BY <1>4, <2>1, Zenon
  <2> QED
    BY <1>2, <2>2, Zenon
<1>6. Fine(0)
  <2> TAKE c \in Nat, o \in 0 .. 63
  <2>1. Copies!Recursive(q)[<<c, o, 0>>] = <<>>
    BY <1>5, 0 \in Nat, Zenon
  <2>2. Places(64 * c + o, 0) = <<>>
    <3>1. ASSUME NEW z, z = Places(64 * c + o, 0) PROVE z = <<>>
      BY <3>1 DEF Places
    <3> QED
      BY <3>1
  <2> QED
    BY <2>1, <2>2
<1>7. ASSUME NEW m \in Nat, m # 0, \A l \in Nat : l < m => Fine(l)
      PROVE  Fine(m)
  <2> TAKE c \in Nat, o \in 0 .. 63
  <2>1. PICK k \in Nat, l \in Nat :
          k = Take(o, m) /\ l = m - Take(o, m) /\ l < m /\ o + k <= 64 /\ (k = 64 - o \/ l = 0) /\ k + l = m
    <3>1. PICK k : k = Take(o, m)
      OBVIOUS
    <3>2. k \in Nat \ {0} /\ o + k <= 64 /\ m - k \in Nat /\ m - k < m
          /\ (k = 64 - o \/ m - k = 0) /\ k + (m - k) = m
      BY <1>1, <1>7, <3>1, Zenon
    <3>3. PICK l \in Nat : l = m - k
      BY <3>2
    <3> QED
      BY <3>1, <3>2, <3>3
  <2>2. c + 1 \in Nat /\ 0 \in 0 .. 63
    OBVIOUS
  <2>3. Copies!Recursive(q)[<<c + 1, 0, l>>] = Places(64 * (c + 1) + 0, l)
    <3>1. Fine(l)
      BY <1>7, <2>1
    <3> QED
      BY <2>2, <3>1, Zenon
  <2>4. Copies!Recursive(q)[<<c, o, m>>]
          = SubSeq(Xof(q, c).at, o + 1, o + k) \o Copies!Recursive(q)[<<c + 1, 0, l>>]
    BY <1>5, <1>7, <2>1, Zenon
  <2>5. SubSeq(Xof(q, c).at, o + 1, o + k) \o Places(64 * (c + 1) + 0, l) = Places(64 * c + o, k + l)
    <3>1. o + k <= 64
      BY <2>1
    <3>2. k = 64 - o \/ l = 0
      BY <2>1
    <3> QED
      <4>1. Joining(q, c, o, k, l)
        BY ONLY <3>1, <3>2, PlacesJoin, c \in Nat, o \in 0 .. 63, k \in Nat, l \in Nat
      <4> QED
        BY <4>1, Zenon DEF Joining
  <2> QED
    BY <2>1, <2>3, <2>4, <2>5, Zenon
<1> HIDE DEF Fine
<1>8. Bad = {}
  <2>1. SUFFICES ASSUME Bad # {} PROVE FALSE
    OBVIOUS
  <2>2. PICK m \in Bad : \A l \in Bad : m <= l
    BY <2>1, LeastNumber
  <2>3. m \in Nat /\ m # 0 /\ ~ Fine(m)
    BY <1>6, <2>2
  <2>4. ASSUME NEW l \in Nat, l < m PROVE Fine(l)
    <3>1. ~ (m <= l)
      BY <2>3, <2>4
    <3> QED
      BY <2>2, <3>1
  <2> QED
    BY <1>7, <2>3, <2>4
<1>9. Fine(n)
  BY <1>8
<1> QED
  BY <1>9 DEF Fine

\* The bytes of the output of a root.
DigestOf(root, seek, n) == [of |-> <<root[1], root[2], root[3], root[5] \cup {"ROOT"}>>, at |-> Places(seek, n)]

\* output_root_bytes gives the n bytes from seek on of the root's output.
LEMMA OutputBytes ==
  ASSUME NEW root, NEW seek \in Nat, NEW n \in Nat
  PROVE  output_root_bytes(AsOutput(root), seek, n) = DigestOf(root, seek, n)
<1> DEFINE self == AsOutput(root)
           q == <<self.input_cv, self.block, self.block_len, self.flags>>
<1>1. q[1] = self.input_cv /\ q[2] = self.block /\ q[3] = self.block_len /\ q[4] = self.flags
  OBVIOUS
<1>2. self.input_cv = root[1] /\ self.block = root[2] /\ self.block_len = root[3] /\ self.flags = root[5]
  BY DEF AsOutput, make_output
<1> HIDE DEF self, q
<1>3. output_root_bytes(self, seek, n)
        = [of |-> Xof(q, 0).of, at |-> Copies!Recursive(q)[<<seek \div 64, seek % 64, n>>]]
  BY <1>1, ZenonT(60) DEF output_root_bytes, Copies!Recursive, CopyDom, CopyBody, Xof
<1>4. seek \div 64 \in Nat /\ seek % 64 \in 0 .. 63 /\ 64 * (seek \div 64) + (seek % 64) = seek
  OBVIOUS
<1>5. Copies!Recursive(q)[<<seek \div 64, seek % 64, n>>] = Places(seek, n)
  <2>1. PICK c \in Nat, o \in 0 .. 63 : c = seek \div 64 /\ o = seek % 64 /\ 64 * c + o = seek
    BY <1>4, Zenon
  <2>2. Copies!Recursive(q)[<<c, o, n>>] = Places(64 * c + o, n)
    BY CopyIs
  <2> QED
    BY <2>1, <2>2, Zenon
<1>6. Xof(q, 0).of = <<root[1], root[2], root[3], root[5] \cup {"ROOT"}>>
  BY <1>1, <1>2 DEF Xof, compress_xof
<1> QED
  BY <1>3, <1>5, <1>6, Zenon DEF DigestOf, self

\* A hasher's digest is that of the tree over the bytes it has taken.
LEMMA HasherDigest ==
  ASSUME NEW key, NEW flags, NEW S, NEW M \in Seq(S), NEW n \in Nat, n <= Len(M),
         NEW self, After(<<key, flags, M>>, n, self),
         NEW L, L = Cut(M, 0, n), NEW seek \in Nat, NEW size \in Nat
  PROVE  /\ blake3_hasher_finalize_seek(self, seek, size) = TreeDigest(key, flags, L, seek, size)
         /\ blake3_hasher_finalize_seek(self, seek, size) = DigestOf(TreeRoot(key, flags, L), seek, size)
<1>1. PICK p : p = <<key, flags, M>>
  OBVIOUS
<1>2. p[1] = key /\ p[2] = flags /\ p[3] = M
  BY <1>1
<1>3. RootOutput(self) = AsOutput(Node(p, 0, n))
  <2>1. After(p, n, self)
    BY <1>1, Zenon
  <2>2. p[3] = M
    BY <1>2
  <2> QED
    BY ONLY <2>1, <2>2, RootIs, M \in Seq(S), n \in Nat, n <= Len(M)
<1>4. blake3_hasher_finalize_seek(self, seek, size) = DigestOf(Node(p, 0, n), seek, size)
  <2>1. blake3_hasher_finalize_seek(self, seek, size) = output_root_bytes(RootOutput(self), seek, size)
    BY FinalizeIs
  <2>2. output_root_bytes(AsOutput(Node(p, 0, n)), seek, size) = DigestOf(Node(p, 0, n), seek, size)
    BY OutputBytes
  <2> QED
    BY <1>3, <2>1, <2>2, Zenon
<1>5. L \in Seq(S) /\ Len(L) = n /\ \A i \in 1 .. n : L[i] = M[i]
  <2>1. 0 + n <= Len(M) /\ 0 \in Nat
    OBVIOUS
  <2>2. Cut(M, 0, n) \in Seq(S) /\ Len(Cut(M, 0, n)) = n /\ \A i \in 1 .. n : Cut(M, 0, n)[i] = M[0 + i]
    BY <2>1, CutIs
  <2> QED
    BY <2>2
<1>6. Node(p, 0, n) = TreeRoot(key, flags, L)
  <2>1. SamePrefix(M, L, n)
    <3> SUFFICES \A a \in Nat \ {0}, b \in Nat : b <= n => SubSeq(M, a, b) = SubSeq(L, a, b)
      BY DEF SamePrefix
    <3> TAKE a \in Nat \ {0}, b \in Nat
    <3> HAVE b <= n
    <3>1. ASSUME NEW x \in Seq(S), NEW y \in Seq(S), x = SubSeq(M, a, b), y = SubSeq(L, a, b) PROVE x = y
      <4>1. Len(x) = Len(y)
        BY <1>5, <3>1
      <4>2. \A i \in 1 .. Len(x) : x[i] = y[i]
        BY <1>5, <3>1
      <4>3. x = [i \in 1 .. Len(x) |-> x[i]] /\ y = [i \in 1 .. Len(x) |-> y[i]]
        BY <4>1
      <4> QED
        BY <4>2, <4>3
    <3>2. SubSeq(M, a, b) \in Seq(S) /\ SubSeq(L, a, b) \in Seq(S)
      BY <1>5
    <3> QED
      BY <3>1, <3>2
  <2>2. \A c, m \in Nat : InChunks(c) + m <= n => Node(<<key, flags, M>>, c, m) = Node(<<key, flags, L>>, c, m)
    <3>1. NodesAgree(key, flags, M, L, n)
      BY ONLY <2>1, NodeOfPrefix, n \in Nat
    <3> QED
      BY <3>1 DEF NodesAgree
  <2>3. InChunks(0) + n <= n /\ 0 \in Nat
    BY Products
  <2>4. TreeRoot(key, flags, L) = Node(<<key, flags, L>>, 0, Len(L))
    BY TreeRootIs
  <2> QED
    BY <1>1, <1>5, <2>2, <2>3, <2>4, Zenon
<1>7. TreeDigest(key, flags, L, seek, size) = DigestOf(TreeRoot(key, flags, L), seek, size)
  BY Zenon DEF TreeDigest, DigestOf, Places
<1> QED
  BY <1>4, <1>6, <1>7, Zenon

=============================================================================
