------------------------------ MODULE Counting ------------------------------
(***************************************************************************)
(* Facts about numbers and finite sets that the proofs about several       *)
(* components use, and the principle of definition by recursion.           *)
(*                                                                         *)
(* A recursive function is the one of which                                *)
(*     f = [x \in Domain(p) |-> Body(p, f, x)]                             *)
(* where p is what else the definition speaks of.  There is one if Body    *)
(* looks at f only where Measure is smaller.  The constants are for the    *)
(* instances of this module, one for each such definition; the other       *)
(* lemmas do not mention them.                                             *)
(***************************************************************************)
EXTENDS Integers, FiniteSets, FiniteSetTheorems, WellFoundedInduction, TLAPS

CONSTANTS Domain(_), Measure(_), Body(_, _, _)

\* A part of a finite set has a size; one element more or less makes it one
\* more or less; and a part that is no smaller than the whole is the whole.
LEMMA CountOfPart ==
  ASSUME NEW U, IsFiniteSet(U), NEW S \in SUBSET U
  PROVE  /\ IsFiniteSet(S)
         /\ Cardinality(S) \in Nat
         /\ Cardinality(S) = 0 <=> S = {}
         /\ \A w \in U \ S : Cardinality(S \cup {w}) = Cardinality(S) + 1
         /\ \A w \in S : Cardinality(S \ {w}) = Cardinality(S) - 1
         /\ \A T \in SUBSET S : /\ Cardinality(T) <= Cardinality(S)
                                /\ Cardinality(S) <= Cardinality(T) => T = S
<1>1. IsFiniteSet(S)
  BY FS_Subset
<1>2. ASSUME NEW T \in SUBSET S
      PROVE  /\ Cardinality(T) <= Cardinality(S)
             /\ Cardinality(S) <= Cardinality(T) => T = S
  <2>1. /\ Cardinality(T) <= Cardinality(S) /\ IsFiniteSet(T)
        /\ Cardinality(T) = Cardinality(S) => T = S
    BY <1>1, FS_Subset
  <2>2. Cardinality(T) \in Nat /\ Cardinality(S) \in Nat
    BY <1>1, <2>1, FS_CardinalityType
  <2> QED
    BY <2>1, <2>2
<1> QED
  BY <1>1, <1>2, FS_CardinalityType, FS_EmptySet, FS_AddElement, FS_RemoveElement

\* A set of natural numbers that is not empty has a least element: what an
\* induction over the natural numbers rests on.
LEMMA LeastNumber ==
  ASSUME NEW T \in SUBSET Nat, T # {}
  PROVE  \E n \in T : \A m \in T : n <= m
<1> DEFINE R == OpToRel(<, Nat)
<1>1. IsWellFoundedOn(R, Nat)
  BY NatLessThanWellFounded
<1>2. \A x, y \in Nat : x < y => <<x, y>> \in R
  BY DEF OpToRel
<1> HIDE DEF R
<1>3. PICK n \in T : \A m \in T : ~ (<<m, n>> \in R)
  BY <1>1, WFMin
<1>4. ASSUME NEW m \in T
      PROVE  n <= m
  <2>1. n \in Nat /\ m \in Nat
    OBVIOUS
  <2>2. ~ (m < n)
    BY <1>2, <1>3, <2>1
  <2> QED
    BY <2>1, <2>2
<1> QED
  BY <1>4

\* The quotient and the remainder modulo m, and a sum whose first part is
\* reduced modulo m.
LEMMA Quotient ==
  ASSUME NEW m \in Nat \ {0}, NEW k \in Int
  PROVE  \E q \in Int : k = m * q + (k % m) /\ k % m \in 0 .. m - 1
<1>1. k = m * (k \div m) + (k % m) /\ k % m \in 0 .. m - 1 /\ k \div m \in Int
  BY SMT
<1> QED
  BY <1>1

LEMMA Remainder ==
  ASSUME NEW m \in Nat \ {0}, NEW q \in Int, NEW r \in 0 .. m - 1
  PROVE  (m * q + r) % m = r
BY SMT

LEMMA RemainderOfSum ==
  ASSUME NEW m \in Nat \ {0}, NEW k \in Int, NEW d \in Int
  PROVE  ((k % m) + d) % m = (k + d) % m
<1>1. PICK q \in Int, r \in 0 .. m - 1 : r = k % m /\ k = m * q + r
  BY Quotient
<1>2. r + d \in Int
  OBVIOUS
<1>3. PICK p \in Int, e \in 0 .. m - 1 : e = (r + d) % m /\ r + d = m * p + e
  BY <1>2, Quotient
<1>4. m * (q + p) = m * q + m * p
  OBVIOUS
<1>5. k + d = m * (q + p) + e
  <2>1. m * q \in Int /\ m * p \in Int /\ m * (q + p) \in Int
    OBVIOUS
  <2>2. ASSUME NEW a \in Int, NEW b \in Int, NEW c \in Int, c = a + b, k = a + r, r + d = b + e
        PROVE  k + d = c + e
    BY <2>2
  <2> QED
    BY <1>1, <1>3, <1>4, <2>1, <2>2, Zenon
<1>6. (m * (q + p) + e) % m = e
  BY Remainder
<1> QED
  BY <1>1, <1>3, <1>5, <1>6

-----------------------------------------------------------------------------
\* The principle of recursion.

\* What the recursive function definition f[x \in Domain(p)] == Body(p, f, x)
\* stands for.
Recursive(p) == CHOOSE f : f = [x \in Domain(p) |-> Body(p, f, x)]

\* The body looks at the function only where the measure is smaller.
Sees(p) == \A x \in Domain(p) :
   /\ Measure(x) \in Nat
   /\ \A f, g : (\A y \in Domain(p) : Measure(y) < Measure(x) => f[y] = g[y])
                  => Body(p, f, x) = Body(p, g, x)

\* The function as far as the measure is below n.
Below(p, n) == {x \in Domain(p) : Measure(x) < n}
Upto(p, f, n) == f = [x \in Below(p, n) |-> Body(p, f, x)]

\* Two such parts of the function agree as far as both go.
LEMMA Agree ==
  ASSUME NEW p, Sees(p), NEW a \in Nat, NEW b \in Nat, NEW f, NEW g, Upto(p, f, a), Upto(p, g, b)
  PROVE  \A x \in Domain(p) : Measure(x) < a /\ Measure(x) < b => f[x] = g[x]
<1> DEFINE Bad == {n \in Nat : \E x \in Domain(p) : Measure(x) = n /\ n < a /\ n < b /\ f[x] # g[x]}
<1>1. SUFFICES ASSUME Bad # {} PROVE FALSE
  BY DEF Sees
<1>2. PICK n \in Bad : \A m \in Bad : n <= m
  BY <1>1, LeastNumber
<1>3. PICK x \in Domain(p) : Measure(x) = n /\ n < a /\ n < b /\ f[x] # g[x]
  BY <1>2
<1>4. \A y \in Domain(p) : Measure(y) < Measure(x) => f[y] = g[y]
  <2> TAKE y \in Domain(p)
  <2> HAVE Measure(y) < Measure(x)
  <2>1. Measure(y) \in Nat /\ n \in Nat
    BY DEF Sees
  <2> QED
    BY <1>2, <1>3, <2>1
<1>5. Body(p, f, x) = Body(p, g, x)
  BY <1>4 DEF Sees
<1>6. f[x] = Body(p, f, x) /\ g[x] = Body(p, g, x)
  BY <1>3 DEF Upto, Below
<1> QED
  BY <1>3, <1>5, <1>6

\* A recursive function whose body looks only at smaller arguments satisfies its
\* equation: there is a part of it up to every measure, by the least measure
\* that has none, and the parts agree.
THEOREM Recursion ==
  ASSUME NEW p, Sees(p)
  PROVE  Recursive(p) = [x \in Domain(p) |-> Body(p, Recursive(p), x)]
<1> DEFINE Bad == {n \in Nat : \A f : ~ Upto(p, f, n)}
<1>1. ASSUME NEW n \in Nat PROVE \E f : Upto(p, f, n)
  <2>1. SUFFICES ASSUME Bad # {} PROVE FALSE
    OBVIOUS
  <2>2. PICK k \in Bad : \A m \in Bad : k <= m
    BY <2>1, LeastNumber
  <2>3. CASE k = 0
    <3>1. Below(p, 0) = {}
      BY DEF Below, Sees
    <3> DEFINE h == [x \in {} |-> x]
    <3>2. Upto(p, h, 0)
      BY <3>1 DEF Upto
    <3> QED
      BY <2>2, <2>3, <3>2
  <2>4. CASE k # 0
    <3>0. k \in Nat /\ k - 1 \in Nat /\ k - 1 < k
      BY <2>2, <2>4
    <3>1. PICK f : Upto(p, f, k - 1)
      BY <2>2, <3>0
    <3> DEFINE h == [x \in Below(p, k) |-> Body(p, f, x)]
    <3>2. ASSUME NEW x \in Below(p, k) PROVE Body(p, f, x) = Body(p, h, x)
      <4>1. ASSUME NEW y \in Domain(p), Measure(y) < Measure(x) PROVE f[y] = h[y]
        <5>1. Measure(y) \in Nat /\ Measure(x) \in Nat /\ Measure(x) < k
          BY DEF Sees, Below
        <5>2. y \in Below(p, k - 1) /\ y \in Below(p, k)
          BY <5>1, <4>1, <3>0 DEF Below
        <5> QED
          BY <5>2, <3>1 DEF Upto
      <4> QED
        BY <4>1 DEF Sees, Below
    <3> HIDE DEF h
    <3>3. h = [x \in Below(p, k) |-> Body(p, h, x)]
      BY <3>2 DEF h
    <3> QED
      BY <3>3, <2>2 DEF Upto
  <2> QED
    BY <2>3, <2>4
<1> DEFINE F(n) == CHOOSE f : Upto(p, f, n)
           h == [x \in Domain(p) |-> F(Measure(x) + 1)[x]]
<1>2. ASSUME NEW n \in Nat PROVE Upto(p, F(n), n)
  BY <1>1
<1> HIDE DEF F
<1>3. ASSUME NEW x \in Domain(p) PROVE h[x] = Body(p, h, x)
  <2>0. Measure(x) \in Nat /\ Measure(x) + 1 \in Nat /\ x \in Below(p, Measure(x) + 1)
    BY DEF Sees, Below
  <2>1. h[x] = Body(p, F(Measure(x) + 1), x)
    BY <2>0, <1>2 DEF Upto
  <2>2. ASSUME NEW y \in Domain(p), Measure(y) < Measure(x) PROVE h[y] = F(Measure(x) + 1)[y]
    <3>1. Measure(y) \in Nat /\ Measure(y) + 1 \in Nat
      BY DEF Sees
    <3>2. Upto(p, F(Measure(y) + 1), Measure(y) + 1) /\ Upto(p, F(Measure(x) + 1), Measure(x) + 1)
      BY <1>2, <2>0, <3>1
    <3>3. F(Measure(y) + 1)[y] = F(Measure(x) + 1)[y]
      <4>1. Measure(y) < Measure(y) + 1 /\ Measure(y) < Measure(x) + 1
        BY <3>1, <2>0, <2>2
      <4>2. \A z \in Domain(p) : /\ Measure(z) < Measure(y) + 1
                                  /\ Measure(z) < Measure(x) + 1
              => F(Measure(y) + 1)[z] = F(Measure(x) + 1)[z]
        BY <3>1, <2>0, <3>2, Agree
      <4> QED
        BY <4>1, <4>2
    <3> QED
      BY <3>3
  <2> QED
    BY <2>1, <2>2 DEF Sees
<1> HIDE DEF h
<1>4. h = [x \in Domain(p) |-> Body(p, h, x)]
  BY <1>3 DEF h
<1> QED
  BY <1>4 DEF Recursive

=============================================================================
