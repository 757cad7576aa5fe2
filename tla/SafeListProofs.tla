--------------------------- MODULE SafeListProofs ----------------------------
(***************************************************************************)
(* Proofs about SafeListUse and ListIterator, for any nodes, threads and   *)
(* width of the size, while one thread at a time uses the list during the  *)
(* calls that are made of two steps (Exclusive).                           *)
(*                                                                         *)
(* The invariant, ListInv, says of the hooks of all nodes, of the head, of *)
(* the tail and of the size that they are those of one sequence of         *)
(* distinct nodes (Holds).  Every operation is shown to make them those of *)
(* the sequence that the operation of Deque makes of it, so the list       *)
(* implements the deque (ListImplementsDeque); and a walk over the links   *)
(* is shown to meet that sequence (ListWalks), so every property that is   *)
(* stated with walks holds as well.                                        *)
(***************************************************************************)
EXTENDS ListIterator, Counting, SequenceTheorems, TLAPS

-----------------------------------------------------------------------------
\* Sequences.

Hooks == [prev : Nodes \cup {NULL}, next : Nodes \cup {NULL}]

\* What stands at a place of a sequence, inside of it or not; and a sequence
\* with n at place i, or without its place i.
At(s, i) == IF i \in 1 .. Len(s) THEN s[i] ELSE NULL

Inserted(s, i, n) ==
  [j \in 1 .. Len(s) + 1 |-> IF j < i THEN s[j] ELSE IF j = i THEN n ELSE s[j - 1]]

Removed(s, i) == [j \in 1 .. Len(s) - 1 |-> IF j < i THEN s[j] ELSE s[j + 1]]

Distinct(s) == \A i, j \in 1 .. Len(s) : s[i] = s[j] => i = j

\* The hooks h, a head and a tail make the list of the nodes of s.
IsList(h, head, tail, s) ==
  /\ s \in Seq(Nodes) /\ Distinct(s)
  /\ h \in [Nodes -> Hooks]
  /\ \A i \in 1 .. Len(s) : h[s[i]].prev = At(s, i - 1) /\ h[s[i]].next = At(s, i + 1)
  /\ \A n \in Nodes \ ToSet(s) : h[n].prev = NULL /\ h[n].next = NULL
  /\ head = At(s, 1) /\ tail = At(s, Len(s))

\* What a sequence of nodes is.
LEMMA InSequence ==
  ASSUME NEW s \in Seq(Nodes)
  PROVE  /\ Len(s) \in Nat /\ DOMAIN s = 1 .. Len(s)
         /\ \A i \in 1 .. Len(s) : s[i] \in Nodes
         /\ \A n : n \in ToSet(s) <=> \E i \in 1 .. Len(s) : s[i] = n
BY DEF ToSet

\* A part of a sequence.
LEMMA PartIs ==
  ASSUME NEW s \in Seq(Nodes), NEW a \in 1 .. Len(s) + 1, NEW b \in a - 1 .. Len(s)
  PROVE  /\ SubSeq(s, a, b) \in Seq(Nodes) /\ Len(SubSeq(s, a, b)) = b - a + 1
         /\ \A j \in 1 .. b - a + 1 : SubSeq(s, a, b)[j] = s[a + j - 1]
<1>1. Len(s) \in Nat /\ a \in Int /\ b \in Int
  BY InSequence
<1>2. \A j \in a .. b : s[j] \in Nodes
  BY <1>1, InSequence
<1>3. /\ SubSeq(s, a, b) \in Seq(Nodes)
      /\ Len(SubSeq(s, a, b)) = IF a <= b THEN b - a + 1 ELSE 0
      /\ \A j \in 1 .. b - a + 1 : SubSeq(s, a, b)[j] = s[a + j - 1]
  BY <1>1, <1>2, SubSeqProperties
<1> QED
  BY <1>1, <1>3

\* A sequence of distinct nodes and one more, at place i.
LEMMA InsertedFacts ==
  ASSUME NEW s \in Seq(Nodes), Distinct(s), NEW n \in Nodes \ ToSet(s), NEW i \in 1 .. Len(s) + 1
  PROVE  /\ Inserted(s, i, n) \in Seq(Nodes) /\ Len(Inserted(s, i, n)) = Len(s) + 1
         /\ Distinct(Inserted(s, i, n)) /\ ToSet(Inserted(s, i, n)) = ToSet(s) \cup {n}
         /\ \A j \in 0 .. Len(s) + 2 :
              At(Inserted(s, i, n), j) =
                IF j < i THEN At(s, j) ELSE IF j = i THEN n ELSE At(s, j - 1)
<1> DEFINE t == Inserted(s, i, n)
<1>1. t \in Seq(Nodes) /\ Len(t) = Len(s) + 1
  BY SMT DEF Inserted
<1>2. \A j \in 1 .. Len(s) + 1 : t[j] = IF j < i THEN s[j] ELSE IF j = i THEN n ELSE s[j - 1]
  BY DEF Inserted
<1>3. Len(s) \in Nat /\ \A j \in 1 .. Len(s) : s[j] # n /\ s[j] \in Nodes
  BY InSequence
<1> HIDE DEF t
<1>4. Distinct(t)
  <2> SUFFICES ASSUME NEW j \in 1 .. Len(s) + 1, NEW k \in 1 .. Len(s) + 1, t[j] = t[k], j < k
               PROVE  FALSE
    BY <1>1, <1>3 DEF Distinct
  <2>1. CASE k < i
    BY <1>2, <1>3, <2>1 DEF Distinct
  <2>2. CASE k = i
    BY <1>2, <1>3, <2>2
  <2>3. CASE k > i
    <3>1. t[k] = s[k - 1] /\ k - 1 \in 1 .. Len(s)
      BY <1>2, <1>3, <2>3
    <3>2. t[j] = n \/ \E l \in 1 .. Len(s) : t[j] = s[l] /\ l # k - 1
      BY <1>2, <1>3, <2>3
    <3> QED
      BY <1>3, <3>1, <3>2 DEF Distinct
  <2> QED
    BY <1>3, <2>1, <2>2, <2>3
<1>5. ToSet(t) = ToSet(s) \cup {n}
  <2>1. ASSUME NEW j \in 1 .. Len(s) + 1 PROVE t[j] \in ToSet(s) \cup {n}
    <3>1. t[j] = n \/ \E k \in 1 .. Len(s) : t[j] = s[k]
      BY <1>2, <1>3, <2>1
    <3> QED
      BY <3>1, InSequence
  <2>2. n \in ToSet(t)
    BY <1>1, <1>2, InSequence
  <2>3. ASSUME NEW j \in 1 .. Len(s) PROVE s[j] \in ToSet(t)
    <3>1. \E k \in 1 .. Len(s) + 1 : t[k] = s[j]
      <4>1. CASE j < i
        BY <1>2, <1>3, <4>1
      <4>2. CASE ~(j < i)
        <5>1. j + 1 \in 1 .. Len(s) + 1 /\ t[j + 1] = s[j]
          BY <1>2, <1>3, <4>2
        <5> QED
          BY <5>1
      <4> QED
        BY <4>1, <4>2
    <3> QED
      BY <1>1, <3>1, InSequence
  <2> QED
    BY <1>1, <2>1, <2>2, <2>3, InSequence
<1>6. \A j \in 0 .. Len(s) + 2 :
        At(t, j) = IF j < i THEN At(s, j) ELSE IF j = i THEN n ELSE At(s, j - 1)
  BY <1>1, <1>2 DEF At
<1> QED
  BY <1>1, <1>4, <1>5, <1>6 DEF t

\* A sequence of distinct nodes without its place i.
LEMMA RemovedFacts ==
  ASSUME NEW s \in Seq(Nodes), Distinct(s), NEW i \in 1 .. Len(s)
  PROVE  /\ Removed(s, i) \in Seq(Nodes) /\ Len(Removed(s, i)) = Len(s) - 1
         /\ Distinct(Removed(s, i)) /\ ToSet(Removed(s, i)) = ToSet(s) \ {s[i]}
         /\ \A j \in 0 .. Len(s) : At(Removed(s, i), j) = IF j < i THEN At(s, j) ELSE At(s, j + 1)
<1> DEFINE t == Removed(s, i)
<1>1. t \in Seq(Nodes) /\ Len(t) = Len(s) - 1
  BY SMT DEF Removed
<1>2. \A j \in 1 .. Len(s) - 1 : t[j] = IF j < i THEN s[j] ELSE s[j + 1]
  BY DEF Removed
<1>3. Len(s) \in Nat /\ \A j \in 1 .. Len(s) : s[j] \in Nodes
  BY InSequence
<1> HIDE DEF t
<1>4. Distinct(t)
  BY <1>1, <1>2 DEF Distinct
<1>5. ToSet(t) = ToSet(s) \ {s[i]}
  <2>1. ASSUME NEW j \in 1 .. Len(s) - 1 PROVE t[j] \in ToSet(s) \ {s[i]}
    <3>1. \E k \in 1 .. Len(s) : t[j] = s[k] /\ k # i
      BY <1>2, <1>3, <2>1
    <3> QED
      BY <3>1, InSequence DEF Distinct
  <2>2. ASSUME NEW j \in 1 .. Len(s), s[j] # s[i] PROVE s[j] \in ToSet(t)
    <3>1. \E k \in 1 .. Len(s) - 1 : t[k] = s[j]
      <4>1. CASE j < i
        BY <1>2, <1>3, <4>1
      <4>2. CASE ~(j < i)
        <5>1. j - 1 \in 1 .. Len(s) - 1 /\ t[j - 1] = s[j]
          BY <1>2, <1>3, <2>2, <4>2
        <5> QED
          BY <5>1
      <4> QED
        BY <4>1, <4>2
    <3> QED
      BY <1>1, <3>1, InSequence
  <2> QED
    BY <1>1, <2>1, <2>2, InSequence
<1>6. \A j \in 0 .. Len(s) : At(t, j) = IF j < i THEN At(s, j) ELSE At(s, j + 1)
  BY <1>1, <1>2 DEF At
<1> QED
  BY <1>1, <1>4, <1>5, <1>6 DEF t

\* A sequence with these elements is Inserted.
LEMMA IsInserted ==
  ASSUME NEW s \in Seq(Nodes), NEW n \in Nodes, NEW i \in 1 .. Len(s) + 1,
         NEW t \in Seq(Nodes), Len(t) = Len(s) + 1,
         \A j \in 1 .. Len(s) + 1 : t[j] = IF j < i THEN s[j] ELSE IF j = i THEN n ELSE s[j - 1]
  PROVE  t = Inserted(s, i, n)
<1>1. t = [j \in 1 .. Len(s) + 1 |-> t[j]]
  OBVIOUS
<1> QED
  BY <1>1 DEF Inserted

\* A sequence with these elements is Removed.
LEMMA IsRemoved ==
  ASSUME NEW s \in Seq(Nodes), NEW i \in 1 .. Len(s),
         NEW t \in Seq(Nodes), Len(t) = Len(s) - 1,
         \A j \in 1 .. Len(s) - 1 : t[j] = IF j < i THEN s[j] ELSE s[j + 1]
  PROVE  t = Removed(s, i)
<1>1. t = [j \in 1 .. Len(s) - 1 |-> t[j]]
  OBVIOUS
<1> QED
  BY <1>1 DEF Removed

\* The operators of Deque that put a node into a sequence,
LEMMA InsertedIs ==
  ASSUME NEW s \in Seq(Nodes), NEW n \in Nodes
  PROVE  /\ Append(s, n) = Inserted(s, Len(s) + 1, n)
         /\ <<n>> \o s = Inserted(s, 1, n)
         /\ \A i \in 1 .. Len(s) : InsertAt(s, i, n) = Inserted(s, i, n)
<1>0. Len(s) \in Nat
  BY InSequence
<1>1. Append(s, n) = Inserted(s, Len(s) + 1, n)
  <2> DEFINE t == Append(s, n)
             i == Len(s) + 1
  <2>1. t \in Seq(Nodes) /\ Len(t) = Len(s) + 1
    BY SMT
  <2>2. \A j \in 1 .. Len(s) + 1 :
          t[j] = IF j < i THEN s[j] ELSE IF j = i THEN n ELSE s[j - 1]
    BY <1>0, AppendProperties
  <2>3. i \in 1 .. Len(s) + 1
    BY <1>0
  <2> HIDE DEF t, i
  <2>4. t = Inserted(s, i, n)
    BY <2>1, <2>2, <2>3, IsInserted
  <2> QED
    BY <2>4 DEF t, i
<1>2. <<n>> \o s = Inserted(s, 1, n)
  <2> DEFINE t == <<n>> \o s
  <2>1. /\ t \in Seq(Nodes) /\ Len(t) = Len(s) + 1
        /\ \A j \in 1 .. Len(s) + 1 : t[j] = IF j = 1 THEN n ELSE s[j - 1]
    BY SMT
  <2> HIDE DEF t
  <2>2. t = Inserted(s, 1, n)
    BY <1>0, <2>1, IsInserted
  <2> QED
    BY <2>2 DEF t
<1>3. ASSUME NEW i \in 1 .. Len(s)
      PROVE  InsertAt(s, i, n) = Inserted(s, i, n)
  <2> DEFINE a == SubSeq(s, 1, i - 1)
             b == SubSeq(s, i, Len(s))
             c == a \o <<n>>
  <2>1. /\ a \in Seq(Nodes) /\ Len(a) = i - 1
        /\ \A j \in 1 .. i - 1 : a[j] = s[j]
    BY SMT
  <2>2. /\ b \in Seq(Nodes) /\ Len(b) = Len(s) - i + 1
        /\ \A j \in 1 .. Len(s) - i + 1 : b[j] = s[i + j - 1]
    BY SMT
  <2> HIDE DEF a, b
  <2>3. /\ c \in Seq(Nodes) /\ Len(c) = i
        /\ \A j \in 1 .. i : c[j] = IF j < i THEN s[j] ELSE n
    BY <2>1, SMT
  <2> HIDE DEF c
  <2>4. /\ c \o b \in Seq(Nodes) /\ Len(c \o b) = Len(s) + 1
        /\ \A j \in 1 .. Len(s) + 1 : (c \o b)[j] = IF j <= i THEN c[j] ELSE b[j - i]
    BY <1>0, <2>2, <2>3, ConcatProperties
  <2> DEFINE d == c \o b
  <2>5. \A j \in 1 .. Len(s) + 1 :
          d[j] = IF j < i THEN s[j] ELSE IF j = i THEN n ELSE s[j - 1]
    <3> SUFFICES ASSUME NEW j \in 1 .. Len(s) + 1
                 PROVE  d[j] = IF j < i THEN s[j] ELSE IF j = i THEN n ELSE s[j - 1]
      OBVIOUS
    <3>1. CASE j <= i
      BY <2>3, <2>4, <3>1
    <3>2. CASE ~(j <= i)
      <4>1. j - i \in 1 .. Len(s) - i + 1 /\ i + (j - i) - 1 = j - 1
        BY <1>0, <3>2
      <4>2. d[j] = s[j - 1]
        BY <2>2, <2>4, <3>2, <4>1
      <4> QED
        BY <3>2, <4>2
    <3> QED
      BY <3>1, <3>2
  <2>6. d \in Seq(Nodes) /\ Len(d) = Len(s) + 1
    BY <2>4
  <2> HIDE DEF d
  <2>7. i \in 1 .. Len(s) + 1
    BY <1>0
  <2>8. d = Inserted(s, i, n)
    BY <2>5, <2>6, <2>7, IsInserted
  <2> QED
    BY <2>8 DEF InsertAt, a, b, c, d
<1> QED
  BY <1>1, <1>2, <1>3

\* and those that take one out.
LEMMA RemovedIs ==
  ASSUME NEW s \in Seq(Nodes), s # <<>>
  PROVE  /\ Tail(s) = Removed(s, 1)
         /\ Front(s) = Removed(s, Len(s))
         /\ \A i \in 1 .. Len(s) : RemoveAt(s, i) = Removed(s, i)
<1>1. Len(s) \in 1 .. Len(s) /\ 1 \in 1 .. Len(s)
  BY InSequence
<1>2. Tail(s) = Removed(s, 1)
  <2> DEFINE t == Tail(s)
  <2>1. /\ t \in Seq(Nodes) /\ Len(t) = Len(s) - 1
        /\ \A j \in 1 .. Len(s) - 1 : t[j] = IF j < 1 THEN s[j] ELSE s[j + 1]
    BY HeadTailProperties
  <2> HIDE DEF t
  <2>2. t = Removed(s, 1)
    BY <1>1, <2>1, IsRemoved
  <2> QED
    BY <2>2 DEF t
<1>3. Front(s) = Removed(s, Len(s))
  <2> DEFINE t == SubSeq(s, 1, Len(s) - 1)
             i == Len(s)
  <2>1. Len(s) \in Nat /\ 1 \in 1 .. Len(s) + 1 /\ Len(s) - 1 \in 1 - 1 .. Len(s)
    BY <1>1, InSequence
  <2>2. /\ t \in Seq(Nodes) /\ Len(t) = Len(s) - 1
        /\ \A j \in 1 .. Len(s) - 1 : t[j] = IF j < i THEN s[j] ELSE s[j + 1]
    <3> DEFINE b == Len(s) - 1
    <3>1. /\ b \in 1 - 1 .. Len(s) /\ b - 1 + 1 = b
          /\ \A j \in 1 .. b : 1 + j - 1 = j /\ j < Len(s)
      BY <2>1
    <3> HIDE DEF b
    <3>2. /\ SubSeq(s, 1, b) \in Seq(Nodes) /\ Len(SubSeq(s, 1, b)) = b
          /\ \A j \in 1 .. b : SubSeq(s, 1, b)[j] = s[j]
      BY <2>1, <3>1, PartIs
    <3> QED
      BY <3>1, <3>2 DEF b
  <2>3. i \in 1 .. Len(s)
    BY <1>1
  <2> HIDE DEF t, i
  <2>4. t = Removed(s, i)
    BY <2>2, <2>3, IsRemoved
  <2> QED
    BY <2>4 DEF t, i, Front
<1>4. ASSUME NEW i \in 1 .. Len(s)
      PROVE  RemoveAt(s, i) = Removed(s, i)
  <2> DEFINE a == SubSeq(s, 1, i - 1)
             b == SubSeq(s, i + 1, Len(s))
  <2>1. /\ a \in Seq(Nodes) /\ Len(a) = i - 1
        /\ \A j \in 1 .. i - 1 : a[j] = s[j]
    BY SMT
  <2>2. /\ b \in Seq(Nodes) /\ Len(b) = Len(s) - i
        /\ \A j \in 1 .. Len(s) - i : b[j] = s[i + j]
    BY SMT
  <2> HIDE DEF a, b
  <2>3. /\ a \o b \in Seq(Nodes) /\ Len(a \o b) = Len(s) - 1
        /\ \A j \in 1 .. Len(s) - 1 : (a \o b)[j] = IF j < i THEN s[j] ELSE s[j + 1]
    BY <2>1, <2>2, <1>1, ConcatProperties
  <2>4. a \o b = Removed(s, i)
    BY <2>3, IsRemoved
  <2> QED
    BY <2>4 DEF RemoveAt, a, b
<1> QED
  BY <1>2, <1>3, <1>4

-----------------------------------------------------------------------------
\* What a walk over the links meets.

\* There are no more distinct nodes than nodes.
LEMMA NoMoreThanNodes ==
  ASSUME NEW s \in Seq(Nodes), Distinct(s)
  PROVE  Len(s) <= Cardinality(Nodes) /\ Cardinality(Nodes) \in Nat
<1>1. s \in Injection(1 .. Len(s), Nodes)
  BY InSequence DEF Distinct, Injection, IsInjective
<1>2. Len(s) \in Nat /\ Cardinality(1 .. Len(s)) = Len(s)
  BY InSequence, FS_Interval
<1> QED
  BY <1>1, <1>2, NodesFinite, FS_Injection, FS_CardinalityType

\* The function by which Walk is defined, and a step of it.
Onward(first, link, met) ==
  LET node == IF met = <<>> THEN first ELSE link[Last(met)]
  IN  IF node = NULL THEN met ELSE Append(met, node)

Met(first, link, met) ==
  met = [k \in 0 .. Cardinality(Nodes) |->
           IF k = 0 THEN <<>> ELSE Onward(first, link, met[k - 1])]

\* Walk is the last value of such a function, if there is one.
LEMMA WalkIsMet ==
  ASSUME NEW first, NEW link, NEW u, Met(first, link, u)
  PROVE  \E w : Met(first, link, w) /\ Walk(first, link) = w[Cardinality(Nodes)]
<1> DEFINE w == CHOOSE x : Met(first, link, x)
<1>1. Met(first, link, w)
  OBVIOUS
<1>2. Walk(first, link) = w[Cardinality(Nodes)]
  BY Zenon DEF Walk, Met, Onward
<1> QED
  BY <1>1, <1>2

\* There is one such function only.
LEMMA MetIsUnique ==
  ASSUME NEW first, NEW link, NEW u, NEW w, Met(first, link, u), Met(first, link, w)
  PROVE  \A k \in 0 .. Cardinality(Nodes) : w[k] = u[k]
<1>1. Cardinality(Nodes) \in Nat
  BY NodesFinite, FS_CardinalityType
<1>2. /\ w[0] = <<>> /\ u[0] = <<>>
      /\ \A k \in 1 .. Cardinality(Nodes) :
           /\ w[k] = Onward(first, link, w[k - 1])
           /\ u[k] = Onward(first, link, u[k - 1])
  BY <1>1 DEF Met
<1> DEFINE Differ == {k \in 0 .. Cardinality(Nodes) : w[k] # u[k]}
<1> SUFFICES ASSUME Differ # {} PROVE FALSE
  OBVIOUS
<1>3. Differ \in SUBSET Nat
  BY <1>1
<1>4. PICK k \in Differ : \A m \in Differ : k <= m
  BY <1>3, LeastNumber, Zenon
<1>5. k # 0 /\ k \in 1 .. Cardinality(Nodes) /\ k - 1 \in 0 .. Cardinality(Nodes)
  BY <1>1, <1>2
<1>6. w[k - 1] = u[k - 1]
  <2>1. k - 1 \notin Differ
    BY <1>4, <1>5
  <2> QED
    BY <1>5, <2>1
<1> QED
  BY <1>2, <1>4, <1>5, <1>6

\* A walk that follows a sequence to its end meets that sequence.
LEMMA WalkMeets ==
  ASSUME NEW first, NEW link, NEW s \in Seq(Nodes), Len(s) <= Cardinality(Nodes),
         first = At(s, 1), \A i \in 1 .. Len(s) : link[s[i]] = At(s, i + 1)
  PROVE  Walk(first, link) = s
<1> DEFINE u == [k \in 0 .. Cardinality(Nodes) |-> IF k <= Len(s) THEN SubSeq(s, 1, k) ELSE s]
<1>1. PICK N \in Nat : N = Cardinality(Nodes) /\ Len(s) \in Nat /\ NULL \notin Nodes
  BY NodesFinite, NodesAssumption, FS_CardinalityType, InSequence
<1>2. \A k \in 0 .. Len(s) :
        /\ SubSeq(s, 1, k) \in Seq(Nodes) /\ Len(SubSeq(s, 1, k)) = k
        /\ \A j \in 1 .. k : SubSeq(s, 1, k)[j] = s[j]
  <2> TAKE k \in 0 .. Len(s)
  <2>1. 1 \in 1 .. Len(s) + 1 /\ k \in 1 - 1 .. Len(s) /\ \A j \in 1 .. k : 1 + j - 1 = j
        /\ k - 1 + 1 = k
    BY <1>1
  <2> QED
    BY <2>1, PartIs
<1>3. \A k \in 0 .. N : u[k] = IF k <= Len(s) THEN SubSeq(s, 1, k) ELSE s
  BY <1>1
<1>4. u[0] = <<>> /\ u[N] = s
  <2>1. SubSeq(s, 1, 0) = <<>>
    BY SMT
  <2>2. SubSeq(s, 1, Len(s)) = s
    BY SubSeqFull
  <2> QED
    BY <1>1, <1>3, <2>1, <2>2
<1>5. u = [k \in 0 .. N |-> u[k]]
  BY <1>1
<1> HIDE DEF u
<1>6. ASSUME NEW k \in 1 .. N
      PROVE  u[k] = Onward(first, link, u[k - 1])
  <2>1. PICK m \in 0 .. N : m = k - 1
    BY <1>1
  <2>2. PICK l \in 0 .. Len(s) : l = IF m <= Len(s) THEN m ELSE Len(s)
    BY <1>1
  <2>3. u[m] \in Seq(Nodes) /\ Len(u[m]) = l /\ \A j \in 1 .. l : u[m][j] = s[j]
    BY <1>1, <1>2, <1>3, <2>2
  <2>4. PICK node : node = IF u[m] = <<>> THEN first ELSE link[Last(u[m])]
    OBVIOUS
  <2>5. node = At(s, l + 1)
    <3>1. CASE l = 0
      <4>1. u[m] = <<>>
        BY <2>3, <3>1
      <4> QED
        BY <2>4, <3>1, <4>1
    <3>2. CASE l # 0
      <4>1. u[m] # <<>> /\ Last(u[m]) = s[l]
        BY <2>2, <2>3, <3>2 DEF Last
      <4> QED
        BY <2>2, <2>4, <3>2, <4>1
    <3> QED
      BY <3>1, <3>2
  <2>6. CASE k <= Len(s)
    <3>1. l = m /\ node = s[k] /\ s[k] \in Nodes
      BY <1>1, <2>1, <2>2, <2>5, <2>6, InSequence DEF At
    <3>2. u[k] = SubSeq(s, 1, k) /\ u[m] = SubSeq(s, 1, m)
      <4>1. k \in 0 .. N /\ m <= Len(s)
        BY <1>1, <2>1, <2>6
      <4> QED
        BY <1>3, <2>6, <4>1
    <3>3. SubSeq(s, 1, k) = Append(SubSeq(s, 1, m), s[k])
      BY <2>1, <2>6, SMT
    <3> QED
      BY <1>1, <2>1, <2>4, <3>1, <3>2, <3>3 DEF Onward
  <2>7. CASE ~(k <= Len(s))
    <3>1. l = Len(s) /\ node = NULL
      BY <1>1, <2>1, <2>2, <2>5, <2>7 DEF At
    <3>2. u[k] = s
      BY <1>1, <1>3, <2>7
    <3>3. u[m] = s
      BY <2>3, <3>1, SeqEqual
    <3> QED
      BY <2>1, <2>4, <3>1, <3>2, <3>3 DEF Onward
  <2> QED
    BY <2>6, <2>7
<1>7. Met(first, link, u)
  BY <1>1, <1>4, <1>5, <1>6 DEF Met
<1>8. PICK w : Met(first, link, w) /\ Walk(first, link) = w[Cardinality(Nodes)]
  BY <1>7, WalkIsMet
<1>9. w[N] = u[N]
  BY <1>1, <1>7, <1>8, MetIsUnique
<1> QED
  BY <1>1, <1>4, <1>8, <1>9

\* From the head a list is met in its order, from the tail in the reverse of
\* it, and from one of its nodes on what stands behind that.
LEMMA ListWalks ==
  ASSUME NEW h, NEW head, NEW tail, NEW s, IsList(h, head, tail, s)
  PROVE  /\ Walk(head, [n \in Nodes |-> h[n].next]) = s
         /\ Walk(tail, [n \in Nodes |-> h[n].prev]) = Reverse(s)
         /\ \A i \in 1 .. Len(s) : \A j \in i + 1 .. Len(s) :
              s[j] \in ToSet(Walk(h[s[i]].next, [n \in Nodes |-> h[n].next]))
<1> DEFINE next == [n \in Nodes |-> h[n].next]
           prev == [n \in Nodes |-> h[n].prev]
<1>1. s \in Seq(Nodes) /\ Distinct(s) /\ head = At(s, 1) /\ tail = At(s, Len(s))
  BY DEF IsList
<1>2. Len(s) \in Nat /\ Cardinality(Nodes) \in Nat /\ Len(s) <= Cardinality(Nodes)
      /\ \A i \in 1 .. Len(s) : s[i] \in Nodes
  BY <1>1, InSequence, NoMoreThanNodes
<1>b. \A i \in 1 .. Len(s) : h[s[i]].next = At(s, i + 1) /\ h[s[i]].prev = At(s, i - 1)
  BY DEF IsList
<1>3. \A i \in 1 .. Len(s) : next[s[i]] = At(s, i + 1) /\ prev[s[i]] = At(s, i - 1)
  BY <1>2, <1>b
<1> HIDE DEF next, prev
<1>4. Walk(head, next) = s
  BY <1>1, <1>2, <1>3, WalkMeets
<1>5. Walk(tail, prev) = Reverse(s)
  <2> DEFINE r == Reverse(s)
  <2>1. r \in Seq(Nodes) /\ Len(r) = Len(s) /\ \A i \in 1 .. Len(s) : r[i] = s[Len(s) - i + 1]
    BY <1>1, <1>2 DEF Reverse
  <2> HIDE DEF r
  <2>2. tail = At(r, 1)
    BY <1>1, <1>2, <2>1 DEF At
  <2>3. \A i \in 1 .. Len(r) : prev[r[i]] = At(r, i + 1)
    <3> SUFFICES ASSUME NEW i \in 1 .. Len(s) PROVE prev[r[i]] = At(r, i + 1)
      BY <2>1
    <3>1. r[i] = s[Len(s) - i + 1] /\ Len(s) - i + 1 \in 1 .. Len(s)
      BY <1>2, <2>1
    <3>2. prev[r[i]] = At(s, Len(s) - i)
      BY <1>2, <1>3, <3>1
    <3>3. CASE i = Len(s)
      BY <1>2, <2>1, <3>2, <3>3 DEF At
    <3>4. CASE i # Len(s)
      <4>1. i + 1 \in 1 .. Len(s) /\ Len(s) - i \in 1 .. Len(s) /\ Len(s) - (i + 1) + 1 = Len(s) - i
        BY <1>2, <3>4
      <4> QED
        BY <2>1, <3>2, <4>1 DEF At
    <3> QED
      BY <3>3, <3>4
  <2>4. Walk(tail, prev) = r
    BY <1>2, <2>1, <2>2, <2>3, WalkMeets
  <2> QED
    BY <2>4 DEF r
<1>6. ASSUME NEW i \in 1 .. Len(s), NEW j \in i + 1 .. Len(s)
      PROVE  s[j] \in ToSet(Walk(h[s[i]].next, next))
  <2> DEFINE r == SubSeq(s, i + 1, Len(s))
  <2>1. r \in Seq(Nodes) /\ Len(r) = Len(s) - i /\ \A k \in 1 .. Len(s) - i : r[k] = s[i + k]
    <3>1. PICK a \in 1 .. Len(s) + 1, b \in Nat : a = i + 1 /\ b = Len(s)
      BY <1>2
    <3>2. /\ b \in a - 1 .. Len(s) /\ b - a + 1 = Len(s) - i
          /\ \A k \in 1 .. Len(s) - i : a + k - 1 = i + k
      BY <1>2, <3>1
    <3>3. /\ SubSeq(s, a, b) \in Seq(Nodes) /\ Len(SubSeq(s, a, b)) = Len(s) - i
          /\ \A k \in 1 .. Len(s) - i : SubSeq(s, a, b)[k] = s[i + k]
      BY <1>1, <3>2, PartIs
    <3> QED
      BY <3>1, <3>3
  <2> HIDE DEF r
  <2>2. h[s[i]].next = At(r, 1)
    BY <1>2, <1>b, <2>1 DEF At
  <2>3. \A k \in 1 .. Len(r) : next[r[k]] = At(r, k + 1)
    <3> SUFFICES ASSUME NEW k \in 1 .. Len(s) - i PROVE next[r[k]] = At(r, k + 1)
      BY <2>1
    <3>1. r[k] = s[i + k] /\ i + k \in 1 .. Len(s)
      BY <1>2, <2>1
    <3>2. next[r[k]] = At(s, i + k + 1)
      BY <1>3, <3>1
    <3>3. CASE k = Len(s) - i
      BY <1>2, <2>1, <3>2, <3>3 DEF At
    <3>4. CASE k # Len(s) - i
      <4>1. k + 1 \in 1 .. Len(s) - i /\ i + k + 1 \in 1 .. Len(s) /\ i + (k + 1) = i + k + 1
        BY <1>2, <3>4
      <4> QED
        BY <2>1, <3>2, <4>1 DEF At
    <3> QED
      BY <3>3, <3>4
  <2>4. Walk(h[s[i]].next, next) = r
    <3>1. Len(r) <= Cardinality(Nodes)
      BY <1>2, <2>1
    <3> QED
      BY <2>1, <2>2, <2>3, <3>1, WalkMeets
  <2>5. j - i \in 1 .. Len(r) /\ r[j - i] = s[j]
    BY <1>2, <2>1
  <2> QED
    BY <2>1, <2>4, <2>5, InSequence
<1> QED
  BY <1>4, <1>5, <1>6 DEF next, prev

-----------------------------------------------------------------------------
\* What the operations do to the hooks.

\* k is h but for the next of p and the prev of q.
DiffersAt(k, h, p, v, q, u) ==
  /\ k \in [Nodes -> Hooks]
  /\ \A m \in Nodes : /\ k[m].prev = IF m = q THEN u ELSE h[m].prev
                     /\ k[m].next = IF m = p THEN v ELSE h[m].next

\* SetNext of p and SetPrev of q, whether they are nodes or NULL.
LEMMA SetLinks ==
  ASSUME NEW h \in [Nodes -> Hooks], NEW p \in Nodes \cup {NULL}, NEW q \in Nodes \cup {NULL},
         NEW v \in Nodes \cup {NULL}, NEW u \in Nodes \cup {NULL}
  PROVE  DiffersAt(SetPrev(SetNext(h, p, v), q, u), h, p, v, q, u)
<1>1. PICK f : f = SetNext(h, p, v)
  OBVIOUS
<1>2. f \in [Nodes -> Hooks] /\ \A m \in Nodes :
        f[m].prev = h[m].prev /\ f[m].next = IF m = p THEN v ELSE h[m].next
  <2>1. CASE p = NULL
    BY <1>1, <2>1, NodesAssumption DEF SetNext
  <2>2. CASE p \in Nodes
    BY <1>1, <2>2, NodesAssumption DEF SetNext, Hooks
  <2> QED
    BY <2>1, <2>2
<1>3. PICK k : k = SetPrev(f, q, u)
  OBVIOUS
<1>4. k \in [Nodes -> Hooks] /\ \A m \in Nodes :
        k[m].prev = (IF m = q THEN u ELSE f[m].prev) /\ k[m].next = f[m].next
  <2>1. CASE q = NULL
    BY <1>2, <1>3, <2>1, NodesAssumption DEF SetPrev
  <2>2. CASE q \in Nodes
    BY <1>2, <1>3, <2>2, NodesAssumption DEF SetPrev, Hooks
  <2> QED
    BY <2>1, <2>2
<1>5. DiffersAt(k, h, p, v, q, u)
  BY <1>2, <1>4 DEF DiffersAt
<1> QED
  BY <1>1, <1>3, <1>5

\* unlink(): the neighbours of n are linked to each other.
LEMMA UnlinkIs ==
  ASSUME NEW h \in [Nodes -> Hooks], NEW n \in Nodes, NEW p, NEW q,
         p = h[n].prev, q = h[n].next, NEW k, k = unlink(h, n)
  PROVE  /\ k \in [Nodes -> Hooks]
         /\ k[n].prev = NULL /\ k[n].next = NULL
         /\ \A m \in Nodes \ {n} : /\ k[m].prev = IF m = q THEN p ELSE h[m].prev
                                  /\ k[m].next = IF m = p THEN q ELSE h[m].next
<1>1. p \in Nodes \cup {NULL} /\ q \in Nodes \cup {NULL}
  BY DEF Hooks
<1>2. PICK g : g = SetPrev(SetNext(h, p, q), q, p)
  OBVIOUS
<1>3. DiffersAt(g, h, p, q, q, p)
  BY <1>1, <1>2, SetLinks
<1>4. Unhooked \in Hooks /\ Unhooked.prev = NULL /\ Unhooked.next = NULL
  BY DEF Unhooked, Hooks
<1>5. k = [g EXCEPT ![n] = Unhooked]
  BY <1>2 DEF unlink
<1> QED
  BY <1>3, <1>4, <1>5 DEF DiffersAt

\* Both ways to link a node n between p and q, of which one may be missing, do
\* the same.
IsLinked(k, h, n, p, q) ==
  /\ k \in [Nodes -> Hooks]
  /\ k[n].prev = p /\ k[n].next = q
  /\ \A m \in Nodes \ {n} : /\ k[m].prev = IF m = q THEN n ELSE h[m].prev
                           /\ k[m].next = IF m = p THEN n ELSE h[m].next

\* link_before() and link_after(): n is linked between two neighbours.
LEMMA LinkIs ==
  ASSUME NEW h \in [Nodes -> Hooks], NEW n \in Nodes,
         NEW p \in Nodes \cup {NULL}, NEW q \in Nodes \cup {NULL}, p # n, q # n
  PROVE  /\ q # NULL /\ h[q].prev = p => IsLinked(link_before(h, n, q), h, n, p, q)
         /\ p # NULL /\ h[p].next = q => IsLinked(link_after(h, n, p), h, n, p, q)
<1>1. PICK f : f = [h EXCEPT ![n] = [prev |-> p, next |-> q]]
  OBVIOUS
<1>2. f \in [Nodes -> Hooks] /\ f[n].prev = p /\ f[n].next = q
      /\ \A m \in Nodes \ {n} : f[m] = h[m]
  BY <1>1 DEF Hooks
<1>3. PICK g : g = SetPrev(SetNext(f, p, n), q, n)
  OBVIOUS
<1>4. DiffersAt(g, f, p, n, q, n)
  BY <1>2, <1>3, SetLinks
<1>5. IsLinked(g, h, n, p, q)
  BY <1>2, <1>4 DEF IsLinked, DiffersAt
<1>6. q # NULL /\ h[q].prev = p => link_before(h, n, q) = g
  BY <1>1, <1>3 DEF link_before
<1>7. p # NULL /\ h[p].next = q => link_after(h, n, p) = g
  BY <1>1, <1>3 DEF link_after
<1> QED
  BY <1>5, <1>6, <1>7

\* In a list a node stands at one place.
LEMMA OnePlace ==
  ASSUME NEW s \in Seq(Nodes), Distinct(s), NEW l \in 1 .. Len(s), NEW m \in 0 .. Len(s) + 1
  PROVE  s[l] = At(s, m) <=> l = m
<1>1. s[l] \in Nodes /\ NULL \notin Nodes
  BY InSequence, NodesAssumption
<1>2. CASE m \in 1 .. Len(s)
  BY <1>2 DEF At, Distinct
<1>3. CASE m \notin 1 .. Len(s)
  BY <1>1, <1>3 DEF At
<1> QED
  BY <1>2, <1>3

\* A list into which a node is linked is the list of Inserted,
LEMMA LinkKeepsList ==
  ASSUME NEW h, NEW head, NEW tail, NEW s, IsList(h, head, tail, s),
         NEW n \in Nodes \ ToSet(s), NEW i \in 1 .. Len(s) + 1,
         NEW k, IsLinked(k, h, n, At(s, i - 1), At(s, i))
  PROVE  IsList(k, IF i = 1 THEN n ELSE head, IF i = Len(s) + 1 THEN n ELSE tail, Inserted(s, i, n))
<1>1. s \in Seq(Nodes) /\ Distinct(s) /\ head = At(s, 1) /\ tail = At(s, Len(s))
  BY DEF IsList
<1>2. Len(s) \in Nat /\ (\A j \in 1 .. Len(s) : s[j] \in Nodes /\ s[j] # n) /\ NULL \notin Nodes
  BY <1>1, InSequence, NodesAssumption
<1>3. PICK t : t = Inserted(s, i, n)
  OBVIOUS
<1>4. /\ t \in Seq(Nodes) /\ Len(t) = Len(s) + 1
      /\ Distinct(t) /\ ToSet(t) = ToSet(s) \cup {n}
      /\ \A j \in 0 .. Len(s) + 2 :
           At(t, j) = IF j < i THEN At(s, j) ELSE IF j = i THEN n ELSE At(s, j - 1)
  BY <1>1, <1>3, InsertedFacts
<1>5. /\ k \in [Nodes -> Hooks] /\ k[n].prev = At(s, i - 1) /\ k[n].next = At(s, i)
      /\ \A m \in Nodes \ {n} : /\ k[m].prev = IF m = At(s, i) THEN n ELSE h[m].prev
                               /\ k[m].next = IF m = At(s, i - 1) THEN n ELSE h[m].next
  BY DEF IsLinked
<1>6. \A l \in 1 .. Len(s) : h[s[l]].prev = At(s, l - 1) /\ h[s[l]].next = At(s, l + 1)
  BY DEF IsList
\* What becomes of a node of the list.
<1>7. \A l \in 1 .. Len(s) :
        /\ k[s[l]].prev = IF l = i THEN n ELSE At(s, l - 1)
        /\ k[s[l]].next = IF l = i - 1 THEN n ELSE At(s, l + 1)
  <2> TAKE l \in 1 .. Len(s)
  <2>1. i \in 0 .. Len(s) + 1 /\ i - 1 \in 0 .. Len(s) + 1
    BY <1>2
  <2>2. (s[l] = At(s, i) <=> l = i) /\ (s[l] = At(s, i - 1) <=> l = i - 1)
    BY <1>1, <2>1, OnePlace
  <2> QED
    BY <1>2, <1>5, <1>6, <2>2
<1>8. ASSUME NEW j \in 1 .. Len(s) + 1
      PROVE  k[t[j]].prev = At(t, j - 1) /\ k[t[j]].next = At(t, j + 1)
  <2>1. /\ t[j] = At(t, j) /\ j \in 0 .. Len(s) + 2
        /\ j - 1 \in 0 .. Len(s) + 2 /\ j + 1 \in 0 .. Len(s) + 2
    BY <1>2, <1>4 DEF At
  <2>2. CASE j = i
    <3>1. t[j] = n /\ At(t, j - 1) = At(s, i - 1) /\ At(t, j + 1) = At(s, i)
      <4>1. j - 1 < i /\ ~(j + 1 < i) /\ j + 1 # i /\ (j + 1) - 1 = i /\ j - 1 = i - 1
        BY <2>2
      <4> QED
        BY <1>4, <2>1, <2>2, <4>1
    <3> QED
      BY <1>5, <3>1
  <2>3. CASE j < i
    <3>1. j \in 1 .. Len(s) /\ j # i
      BY <1>2, <2>3
    <3>2. t[j] = s[j] /\ At(t, j - 1) = At(s, j - 1)
      <4>1. j - 1 < i /\ At(s, j) = s[j]
        BY <2>3, <3>1 DEF At
      <4> QED
        BY <1>4, <2>1, <2>3, <4>1
    <3>3. At(t, j + 1) = IF j = i - 1 THEN n ELSE At(s, j + 1)
      <4>1. (j = i - 1 <=> j + 1 = i) /\ (j # i - 1 => j + 1 < i) /\ ~(i < i)
        BY <2>3
      <4> QED
        BY <1>4, <2>1, <4>1
    <3> QED
      BY <1>7, <3>1, <3>2, <3>3
  <2>4. CASE j > i
    <3>1. PICK l \in 1 .. Len(s) : l = j - 1 /\ l >= i /\ l # i - 1
      BY <1>2, <2>4
    <3>2. t[j] = s[l] /\ At(t, j + 1) = At(s, l + 1)
      <4>1. ~(j < i) /\ j # i /\ ~(j + 1 < i) /\ j + 1 # i /\ (j + 1) - 1 = l + 1 /\ At(s, l) = s[l]
        BY <2>4, <3>1 DEF At
      <4> QED
        BY <1>4, <2>1, <3>1, <4>1
    <3>3. At(t, j - 1) = IF l = i THEN n ELSE At(s, l - 1)
      <4>1. ~(j - 1 < i) /\ (j - 1 = i <=> l = i) /\ (j - 1) - 1 = l - 1
        BY <2>4, <3>1
      <4> QED
        BY <1>4, <2>1, <4>1
    <3> QED
      BY <1>7, <3>1, <3>2, <3>3
  <2> QED
    BY <2>2, <2>3, <2>4
<1>9. \A m \in Nodes \ ToSet(t) : k[m].prev = NULL /\ k[m].next = NULL
  <2> TAKE m \in Nodes \ ToSet(t)
  <2>1. m # n /\ m \in Nodes \ ToSet(s) /\ h[m].prev = NULL /\ h[m].next = NULL
    BY <1>4 DEF IsList
  <2>2. m # At(s, i) /\ m # At(s, i - 1)
    BY <1>1, <1>2, <2>1, InSequence DEF At
  <2> QED
    BY <1>5, <2>1, <2>2
<1>10. (IF i = 1 THEN n ELSE head) = At(t, 1)
  <2>1. 1 \in 0 .. Len(s) + 2 /\ (i # 1 => 1 < i) /\ ~(1 < 1)
    BY <1>2
  <2> QED
    BY <1>1, <1>4, <2>1
<1>11. (IF i = Len(s) + 1 THEN n ELSE tail) = At(t, Len(t))
  <2>1. /\ Len(s) + 1 \in 0 .. Len(s) + 2 /\ (Len(s) + 1) - 1 = Len(s)
        /\ ~(Len(s) + 1 < i)
    BY <1>2
  <2> QED
    BY <1>1, <1>4, <2>1
<1>12. IsList(k, At(t, 1), At(t, Len(t)), t)
  BY <1>4, <1>5, <1>8, <1>9 DEF IsList
<1> QED
  BY <1>3, <1>10, <1>11, <1>12

\* and one from which a node is unlinked that of Removed.
LEMMA UnlinkKeepsList ==
  ASSUME NEW h, NEW head, NEW tail, NEW s, IsList(h, head, tail, s),
         NEW i \in 1 .. Len(s), NEW k, k = unlink(h, s[i])
  PROVE  IsList(k, IF i = 1 THEN h[s[i]].next ELSE head,
                IF i = Len(s) THEN h[s[i]].prev ELSE tail, Removed(s, i))
<1>1. s \in Seq(Nodes) /\ Distinct(s) /\ head = At(s, 1) /\ tail = At(s, Len(s))
      /\ h \in [Nodes -> Hooks]
  BY DEF IsList
<1>2. Len(s) \in Nat /\ (\A j \in 1 .. Len(s) : s[j] \in Nodes) /\ NULL \notin Nodes
  BY <1>1, InSequence, NodesAssumption
<1>3. PICK t : t = Removed(s, i)
  OBVIOUS
<1>4. /\ t \in Seq(Nodes) /\ Len(t) = Len(s) - 1
      /\ Distinct(t) /\ ToSet(t) = ToSet(s) \ {s[i]}
      /\ \A j \in 0 .. Len(s) : At(t, j) = IF j < i THEN At(s, j) ELSE At(s, j + 1)
  BY <1>1, <1>3, RemovedFacts
<1>5. \A l \in 1 .. Len(s) : h[s[l]].prev = At(s, l - 1) /\ h[s[l]].next = At(s, l + 1)
  BY DEF IsList
<1>6. /\ k \in [Nodes -> Hooks] /\ k[s[i]].prev = NULL /\ k[s[i]].next = NULL
      /\ \A m \in Nodes \ {s[i]} :
           /\ k[m].prev = IF m = At(s, i + 1) THEN At(s, i - 1) ELSE h[m].prev
           /\ k[m].next = IF m = At(s, i - 1) THEN At(s, i + 1) ELSE h[m].next
  BY <1>1, <1>2, <1>5, UnlinkIs
<1>7. \A l \in 1 .. Len(s) : l # i =>
        /\ k[s[l]].prev = IF l = i + 1 THEN At(s, i - 1) ELSE At(s, l - 1)
        /\ k[s[l]].next = IF l = i - 1 THEN At(s, i + 1) ELSE At(s, l + 1)
  <2> SUFFICES ASSUME NEW l \in 1 .. Len(s), l # i
               PROVE  /\ k[s[l]].prev = IF l = i + 1 THEN At(s, i - 1) ELSE At(s, l - 1)
                      /\ k[s[l]].next = IF l = i - 1 THEN At(s, i + 1) ELSE At(s, l + 1)
    OBVIOUS
  <2>1. i + 1 \in 0 .. Len(s) + 1 /\ i - 1 \in 0 .. Len(s) + 1
    BY <1>2
  <2>2. (s[l] = At(s, i + 1) <=> l = i + 1) /\ (s[l] = At(s, i - 1) <=> l = i - 1)
    BY <1>1, <2>1, OnePlace
  <2>3. s[l] # s[i]
    BY <1>1 DEF Distinct
  <2> QED
    BY <1>2, <1>5, <1>6, <2>2, <2>3
<1>8. ASSUME NEW j \in 1 .. Len(s) - 1
      PROVE  k[t[j]].prev = At(t, j - 1) /\ k[t[j]].next = At(t, j + 1)
  <2>1. /\ t[j] = At(t, j) /\ j \in 0 .. Len(s)
        /\ j - 1 \in 0 .. Len(s) /\ j + 1 \in 0 .. Len(s)
    BY <1>2, <1>4 DEF At
  <2>2. CASE j < i
    <3>1. j \in 1 .. Len(s) /\ j # i /\ j # i + 1
      BY <1>2, <2>2
    <3>2. t[j] = s[j] /\ At(t, j - 1) = At(s, j - 1)
      <4>1. j - 1 < i /\ At(s, j) = s[j]
        BY <2>2, <3>1 DEF At
      <4> QED
        BY <1>4, <2>1, <2>2, <4>1
    <3>3. At(t, j + 1) = IF j = i - 1 THEN At(s, i + 1) ELSE At(s, j + 1)
      <4>1. /\ j = i - 1 => ~(j + 1 < i) /\ (j + 1) + 1 = i + 1
            /\ j # i - 1 => j + 1 < i
        BY <2>2
      <4> QED
        BY <1>4, <2>1, <4>1
    <3> QED
      BY <1>7, <3>1, <3>2, <3>3
  <2>3. CASE ~(j < i)
    <3>1. PICK l \in 1 .. Len(s) : l = j + 1 /\ l > i /\ l # i /\ l # i - 1
      BY <1>2, <2>3
    <3>2. t[j] = s[l] /\ At(t, j + 1) = At(s, l + 1)
      <4>1. ~(j + 1 < i) /\ (j + 1) + 1 = l + 1 /\ At(s, l) = s[l]
        BY <2>3, <3>1 DEF At
      <4> QED
        BY <1>4, <2>1, <2>3, <3>1, <4>1
    <3>3. At(t, j - 1) = IF l = i + 1 THEN At(s, i - 1) ELSE At(s, l - 1)
      <4>1. /\ l = i + 1 => j - 1 < i /\ j - 1 = i - 1
            /\ l # i + 1 => ~(j - 1 < i) /\ (j - 1) + 1 = l - 1
        BY <2>3, <3>1
      <4> QED
        BY <1>4, <2>1, <4>1
    <3> QED
      BY <1>7, <3>1, <3>2, <3>3
  <2> QED
    BY <2>2, <2>3
<1>9. \A m \in Nodes \ ToSet(t) : k[m].prev = NULL /\ k[m].next = NULL
  <2> SUFFICES ASSUME NEW m \in Nodes \ ToSet(t), m # s[i]
               PROVE  k[m].prev = NULL /\ k[m].next = NULL
    BY <1>6
  <2>1. m \in Nodes \ ToSet(s) /\ h[m].prev = NULL /\ h[m].next = NULL
    BY <1>4 DEF IsList
  <2>2. m # At(s, i + 1) /\ m # At(s, i - 1)
    BY <1>1, <1>2, <2>1, InSequence DEF At
  <2> QED
    BY <1>6, <2>1, <2>2
<1>10. (IF i = 1 THEN h[s[i]].next ELSE head) = At(t, 1)
  <2>1. 1 \in 0 .. Len(s) /\ (i # 1 => 1 < i) /\ ~(1 < 1) /\ h[s[i]].next = At(s, i + 1)
    BY <1>2, <1>5
  <2> QED
    BY <1>1, <1>4, <2>1
<1>11. (IF i = Len(s) THEN h[s[i]].prev ELSE tail) = At(t, Len(t))
  <2>1. /\ Len(s) - 1 \in 0 .. Len(s) /\ (Len(s) - 1) + 1 = Len(s)
        /\ i = Len(s) => Len(s) - 1 < i /\ i - 1 = Len(s) - 1
        /\ i # Len(s) => ~(Len(s) - 1 < i)
        /\ h[s[i]].prev = At(s, i - 1)
    BY <1>2, <1>5
  <2> QED
    BY <1>1, <1>4, <2>1
<1>12. IsList(k, At(t, 1), At(t, Len(t)), t)
  BY <1>4, <1>6, <1>8, <1>9 DEF IsList
<1> QED
  BY <1>3, <1>10, <1>11, <1>12

-----------------------------------------------------------------------------
\* What the operations do to the list.

\* The list is that of s, and nobody sleeps in a pop unless it is empty.
Holds(s) ==
  /\ IsList(hook, mHead, mTail, s)
  /\ mSize = Wrap(Len(s))
  /\ ToSet(s) = listed
  /\ s # <<>> => mListCV.asleep = {}

\* The list of s is met as s,
LEMMA HoldsContents ==
  ASSUME NEW s, Holds(s)
  PROVE  Contents = s
BY ListWalks DEF Holds, Contents

\* When such a list is empty, and where its head and tail stand.
LEMMA EmptyIs ==
  ASSUME NEW s, Holds(s)
  PROVE  /\ s \in Seq(Nodes) /\ Len(s) \in Nat
         /\ Empty <=> s = <<>>
         /\ s = <<>> <=> Len(s) = 0
         /\ s # <<>> => /\ mHead = s[1] /\ mTail = s[Len(s)]
                        /\ 1 \in 1 .. Len(s) /\ Len(s) \in 1 .. Len(s)
<1>1. s \in Seq(Nodes) /\ mHead = At(s, 1) /\ mTail = At(s, Len(s))
  BY DEF Holds, IsList
<1>2. Len(s) \in Nat /\ (s = <<>> <=> Len(s) = 0) /\ \A i \in 1 .. Len(s) : s[i] \in Nodes
  BY <1>1, InSequence
<1> QED
  BY <1>1, <1>2, NodesAssumption DEF At, Empty

\* mSize counts on past its width.
LEMMA SizeAfter ==
  ASSUME NEW s, Holds(s)
  PROVE  Wrap(mSize + 1) = Wrap(Len(s) + 1) /\ Wrap(mSize - 1) = Wrap(Len(s) - 1)
<1>1. PICK m \in Nat \ {0} : m = Sizes
  BY SizesAssumption
<1>2. PICK k \in Int : k = Len(s)
  BY EmptyIs
<1>3. mSize = k % m /\ k % m \in Int
  BY <1>1, <1>2 DEF Holds, Wrap
<1>4. PICK c \in Int, d \in Int : c = 1 /\ d = -1
  OBVIOUS
<1>5. \A e \in Int : ((k % m) + e) % m = (k + e) % m
  BY RemainderOfSum
<1>6. ((k % m) + c) % m = (k + c) % m /\ ((k % m) + d) % m = (k + d) % m
  BY <1>5, Zenon
<1>7. mSize + 1 = mSize + c /\ mSize - 1 = mSize + d /\ k + 1 = k + c /\ k - 1 = k + d
  BY <1>3, <1>4
<1> QED
  BY <1>1, <1>2, <1>3, <1>6, <1>7, Zenon DEF Wrap

\* What every operation that puts a node in does,
LEMMA Inserts ==
  ASSUME NEW s, Holds(s), NEW n \in Nodes \ listed, NEW i \in 1 .. Len(s) + 1,
         IsLinked(hook', hook, n, At(s, i - 1), At(s, i)),
         mHead' = IF i = 1 THEN n ELSE mHead,
         mTail' = IF i = Len(s) + 1 THEN n ELSE mTail,
         mSize' = Wrap(mSize + 1), listed' = listed \cup {n}, mListCV' = NotifyAll(mListCV)
  PROVE  Holds(Inserted(s, i, n))'
<1>1. IsList(hook, mHead, mTail, s) /\ s \in Seq(Nodes) /\ Distinct(s) /\ n \in Nodes \ ToSet(s)
  BY DEF Holds, IsList
<1>2. IsList(hook', mHead', mTail', Inserted(s, i, n))
  BY <1>1, LinkKeepsList
<1>3. Len(Inserted(s, i, n)) = Len(s) + 1 /\ ToSet(Inserted(s, i, n)) = ToSet(s) \cup {n}
  BY <1>1, InsertedFacts
<1>4. mSize' = Wrap(Len(Inserted(s, i, n)))
  BY <1>3, SizeAfter
<1>5. ToSet(Inserted(s, i, n)) = listed' /\ mListCV'.asleep = {}
  BY <1>3 DEF Holds, NotifyAll
<1> QED
  BY <1>2, <1>4, <1>5 DEF Holds, Wrap

\* and every one that takes a node out.
LEMMA Removes ==
  ASSUME NEW s, Holds(s), NEW i \in 1 .. Len(s), hook' = unlink(hook, s[i]),
         mHead' = IF i = 1 THEN hook[s[i]].next ELSE mHead,
         mTail' = IF i = Len(s) THEN hook[s[i]].prev ELSE mTail,
         mSize' = Wrap(mSize - 1), listed' = listed \ {s[i]},
         mListCV'.asleep \subseteq mListCV.asleep
  PROVE  Holds(Removed(s, i))'
<1>1. IsList(hook, mHead, mTail, s) /\ s \in Seq(Nodes) /\ Distinct(s) /\ s # <<>>
  BY EmptyIs DEF Holds, IsList
<1>2. IsList(hook', mHead', mTail', Removed(s, i))
  BY <1>1, UnlinkKeepsList
<1>3. Len(Removed(s, i)) = Len(s) - 1 /\ ToSet(Removed(s, i)) = ToSet(s) \ {s[i]}
  BY <1>1, RemovedFacts
<1>4. mSize' = Wrap(Len(Removed(s, i)))
  BY <1>3, SizeAfter
<1>5. ToSet(Removed(s, i)) = listed' /\ mListCV'.asleep = {}
  BY <1>1, <1>3 DEF Holds
<1> QED
  BY <1>2, <1>4, <1>5 DEF Holds, Wrap

\* A node that is in no list is linked between nothing and nothing.
LEMMA FreeIsLinked ==
  ASSUME NEW s, Holds(s), NEW n \in Nodes \ listed
  PROVE  IsLinked(hook, hook, n, NULL, NULL)
<1>1. hook \in [Nodes -> Hooks] /\ hook[n].prev = NULL /\ hook[n].next = NULL
  BY DEF Holds, IsList
<1> QED
  BY <1>1, NodesAssumption DEF IsLinked

\* push_back() appends.
LEMMA PushBackDoes ==
  ASSUME NEW s, Holds(s), NEW n \in Nodes \ listed, push_back(n), listed' = listed \cup {n}
  PROVE  Holds(Append(s, n))'
<1>1. /\ s \in Seq(Nodes) /\ Len(s) \in Nat /\ hook \in [Nodes -> Hooks]
      /\ mHead = At(s, 1) /\ mTail = At(s, Len(s))
  BY EmptyIs DEF Holds, IsList
<1>2. PICK i \in 1 .. Len(s) + 1 : i = Len(s) + 1
  BY <1>1
<1>3. /\ mHead' = IF i = 1 THEN n ELSE mHead
      /\ mTail' = IF i = Len(s) + 1 THEN n ELSE mTail
      /\ mSize' = Wrap(mSize + 1) /\ mListCV' = NotifyAll(mListCV)
  BY <1>1, <1>2, EmptyIs DEF push_back
<1>4. IsLinked(hook', hook, n, At(s, i - 1), At(s, i))
  <2>1. CASE s = <<>>
    <3>1. hook' = hook /\ At(s, i - 1) = NULL /\ At(s, i) = NULL
      BY <1>1, <1>2, <2>1, EmptyIs DEF push_back, At
    <3> QED
      BY <3>1, FreeIsLinked
  <2>2. CASE s # <<>>
    <3>1. /\ hook' = link_after(hook, n, mTail) /\ mTail = s[Len(s)] /\ Len(s) \in 1 .. Len(s)
          /\ At(s, i - 1) = mTail /\ At(s, i) = NULL
      BY <1>1, <1>2, <2>2, EmptyIs DEF push_back, At
    <3>2. hook[s[Len(s)]].next = At(s, Len(s) + 1)
      BY <3>1 DEF Holds, IsList
    <3>3. hook[mTail].next = NULL /\ mTail \in Nodes /\ mTail # n
      BY <1>1, <3>1, <3>2, InSequence DEF At, Holds
    <3>4. NULL # n /\ mTail # NULL
      BY <3>3, NodesAssumption
    <3>5. IsLinked(link_after(hook, n, mTail), hook, n, mTail, NULL)
      BY <1>1, <3>3, <3>4, LinkIs
    <3> QED
      BY <3>1, <3>5
  <2> QED
    BY <2>1, <2>2
<1>5. Holds(Inserted(s, i, n))'
  BY <1>3, <1>4, Inserts
<1>6. Append(s, n) = Inserted(s, i, n)
  BY <1>1, <1>2, InsertedIs
<1> QED
  BY <1>5, <1>6

\* insert() puts the node in front of the one it is given, or into an empty list.
LEMMA InsertDoes ==
  ASSUME NEW s, Holds(s), NEW n \in Nodes \ listed, NEW e \in listed \cup {NULL},
         insert(e, n), listed' = listed \cup {n}
  PROVE  \/ e = NULL /\ s = <<>> /\ Holds(Append(s, n))'
         \/ \E i \in 1 .. Len(s) : s[i] = e /\ Holds(InsertAt(s, i, n))'
<1>1. /\ s \in Seq(Nodes) /\ Len(s) \in Nat /\ hook \in [Nodes -> Hooks] /\ Distinct(s)
      /\ mHead = At(s, 1) /\ mTail = At(s, Len(s))
      /\ ToSet(s) = listed
  BY EmptyIs DEF Holds, IsList
<1>2. mSize' = Wrap(mSize + 1) /\ mListCV' = NotifyAll(mListCV) /\ (Empty <=> e = NULL)
  BY DEF insert, InsertFails
<1>3. CASE e = NULL
  <2>1. s = <<>> /\ Len(s) = 0 /\ 1 \in 1 .. Len(s) + 1
    BY <1>2, <1>3, EmptyIs
  <2>2. mHead' = n /\ mTail' = n /\ hook' = hook /\ At(s, 1 - 1) = NULL /\ At(s, 1) = NULL
    BY <1>2, <1>3, <2>1 DEF insert, At
  <2>3. IsLinked(hook', hook, n, At(s, 1 - 1), At(s, 1))
    BY <2>2, FreeIsLinked
  <2>4. Holds(Inserted(s, 1, n))'
    BY <1>2, <2>1, <2>2, <2>3, Inserts
  <2>5. Append(s, n) = Inserted(s, 1, n)
    <3>1. Append(s, n) = Inserted(s, Len(s) + 1, n)
      BY <1>1, InsertedIs
    <3> QED
      BY <2>1, <3>1
  <2> QED
    BY <1>3, <2>1, <2>4, <2>5
<1>4. CASE e # NULL
  <2>1. PICK i \in 1 .. Len(s) : s[i] = e
    BY <1>1, <1>4, InSequence
  <2>2. /\ hook' = link_before(hook, n, e) /\ mTail' = mTail
        /\ mHead' = IF mHead = e THEN n ELSE mHead
    BY <1>2, <1>4 DEF insert
  <2>3. mHead = e <=> i = 1
    <3>1. 1 \in 0 .. Len(s) + 1
      BY <1>1
    <3> QED
      BY <1>1, <2>1, <3>1, OnePlace
  <2>4. i \in 1 .. Len(s) + 1 /\ i # Len(s) + 1 /\ At(s, i) = e
    BY <1>1, <2>1 DEF At
  <2>5. IsLinked(hook', hook, n, At(s, i - 1), At(s, i))
    <3>1. hook[e].prev = At(s, i - 1)
      BY <2>1 DEF Holds, IsList
    <3>2. At(s, i - 1) \in ToSet(s) \cup {NULL} /\ e \in ToSet(s)
      BY <1>1, <2>1, InSequence DEF At
    <3>3. At(s, i - 1) \in Nodes \cup {NULL} /\ e \in Nodes /\ At(s, i - 1) # n /\ e # n
      BY <1>1, <3>2, InSequence, NodesAssumption
    <3>4. IsLinked(link_before(hook, n, e), hook, n, At(s, i - 1), e)
      BY <1>1, <1>4, <3>1, <3>3, LinkIs
    <3> QED
      BY <2>2, <2>4, <3>4
  <2>6. Holds(Inserted(s, i, n))'
    BY <1>2, <2>2, <2>3, <2>4, <2>5, Inserts
  <2>7. InsertAt(s, i, n) = Inserted(s, i, n)
    BY <1>1, <2>1, InsertedIs
  <2> QED
    BY <2>1, <2>6, <2>7
<1> QED
  BY <1>3, <1>4

\* erase() takes the node out, wherever it stands.
LEMMA EraseDoes ==
  ASSUME NEW s, Holds(s), NEW n \in listed, erase(n), listed' = listed \ {n}
  PROVE  \E i \in 1 .. Len(s) : s[i] = n /\ Holds(RemoveAt(s, i))'
<1>1. /\ s \in Seq(Nodes) /\ Len(s) \in Nat /\ Distinct(s)
      /\ mHead = At(s, 1) /\ mTail = At(s, Len(s)) /\ ToSet(s) = listed
  BY EmptyIs DEF Holds, IsList
<1>2. PICK i \in 1 .. Len(s) : s[i] = n
  BY <1>1, InSequence
<1>3. (n = mHead <=> i = 1) /\ (n = mTail <=> i = Len(s))
  <2>1. 1 \in 0 .. Len(s) + 1 /\ Len(s) \in 0 .. Len(s) + 1
    BY <1>1
  <2> QED
    BY <1>1, <1>2, <2>1, OnePlace
<1>4. mListCV'.asleep \subseteq mListCV.asleep
  BY DEF erase, NotifyAll
<1>5. Holds(Removed(s, i))'
  BY <1>2, <1>3, <1>4, Removes DEF erase
<1>6. RemoveAt(s, i) = Removed(s, i)
  BY <1>1, <1>2, EmptyIs, RemovedIs
<1> QED
  BY <1>2, <1>5, <1>6

\* pop_front() takes the first node,
LEMMA PopFrontDoes ==
  ASSUME NEW s, Holds(s), NEW t, PopFrontTakes(t), listed' = listed \ {mHead}
  PROVE  s # <<>> /\ mHead = Head(s) /\ Holds(Tail(s))'
<1>1. s \in Seq(Nodes) /\ Len(s) \in Nat /\ Distinct(s) /\ s # <<>>
      /\ mHead = s[1] /\ mTail = s[Len(s)] /\ 1 \in 1 .. Len(s) /\ Len(s) \in 1 .. Len(s)
  BY EmptyIs DEF Holds, IsList, PopFrontTakes
<1>2. mTail = mHead <=> 1 = Len(s)
  BY <1>1 DEF Distinct
<1>3. hook[s[1]].prev = NULL
  <2>1. hook[s[1]].prev = At(s, 1 - 1)
    BY <1>1 DEF Holds, IsList
  <2> QED
    BY <2>1 DEF At
<1>4. Holds(Removed(s, 1))'
  BY <1>1, <1>2, <1>3, Removes DEF PopFrontTakes, Leave
<1>5. Tail(s) = Removed(s, 1) /\ Head(s) = s[1]
  BY <1>1, RemovedIs
<1> QED
  BY <1>1, <1>4, <1>5

\* and pop_back() the last.
LEMMA PopBackDoes ==
  ASSUME NEW s, Holds(s), NEW t, PopBackTakes(t), listed' = listed \ {mTail}
  PROVE  s # <<>> /\ mTail = Last(s) /\ Holds(Front(s))'
<1>1. s \in Seq(Nodes) /\ Len(s) \in Nat /\ Distinct(s) /\ s # <<>>
      /\ mHead = s[1] /\ mTail = s[Len(s)] /\ 1 \in 1 .. Len(s) /\ Len(s) \in 1 .. Len(s)
  BY EmptyIs DEF Holds, IsList, PopBackTakes
<1>2. PICK i \in 1 .. Len(s) : i = Len(s)
  BY <1>1
<1>3. mHead = mTail <=> i = 1
  BY <1>1, <1>2 DEF Distinct
<1>4. hook[s[i]].next = NULL
  <2>1. hook[s[i]].next = At(s, i + 1)
    BY DEF Holds, IsList
  <2> QED
    BY <1>2, <2>1 DEF At
<1>5. Holds(Removed(s, i))'
  BY <1>1, <1>2, <1>3, <1>4, Removes DEF PopBackTakes, Leave
<1>6. Front(s) = Removed(s, i) /\ Last(s) = mTail
  BY <1>1, <1>2, RemovedIs DEF Last
<1> QED
  BY <1>1, <1>5, <1>6

-----------------------------------------------------------------------------
\* The threads that use the list.

NobodyCalls == \A t \in Threads : call[t] = NoCall

\* What thread t has in hand between the two steps of a call is still so.
StillSo(t) ==
  /\ pop[t] = "none"
  /\ \A u \in Threads \ {t} : call[u] = NoCall
  /\ \/ /\ call[t].op = "push_front"
        /\ call[t].node \in Nodes \ listed /\ call[t].at = mHead
     \/ /\ call[t].op = "insert"
        /\ call[t].node \in Nodes \ listed /\ call[t].at \in listed \cup {NULL}
     \/ call[t].op = "erase" /\ call[t].node \in listed

CallInv ==
  /\ call \in [Threads -> [op : {"none", "push_front", "insert", "erase"},
                           node : Nodes \cup {NULL}, at : Nodes \cup {NULL}]]
  /\ pop \in [Threads -> {"none", "pop_front", "pop_back"}]
  /\ mListCV \in CondVarOf(Threads)
  /\ \A t \in Threads : call[t] = NoCall \/ StillSo(t)

\* and so it is after a step.
LEMMA HoldsContentsNext ==
  ASSUME NEW s, Holds(s)'
  PROVE  Contents' = s
BY ListWalks DEF Holds, Contents

\* The head is a node of the list.
LEMMA InListed ==
  ASSUME NEW s, Holds(s)
  PROVE  mHead \in listed \cup {NULL} /\ listed \subseteq Nodes /\ NULL \notin listed
<1>1. s \in Seq(Nodes) /\ mHead = At(s, 1) /\ ToSet(s) = listed
  BY DEF Holds, IsList
<1> QED
  BY <1>1, InSequence, NodesAssumption DEF At

\* A thread that may use the list while it has no call in hand finds nobody
\* else between two steps.
LEMMA AloneIs ==
  ASSUME Exclusive, NEW t \in Threads, MayUse(t), call[t] = NoCall
  PROVE  NobodyCalls
BY DEF MayUse, NobodyCalls

\* While nobody has anything in hand there is nothing to be still so.
LEMMA NobodyIsRight ==
  ASSUME CallInv, NobodyCalls, call' = call,
         pop' \in [Threads -> {"none", "pop_front", "pop_back"}],
         mListCV' \in CondVarOf(Threads)
  PROVE  CallInv'
BY DEF CallInv, NobodyCalls

\* The condition variable stays one of the threads.
LEMMA CondVarKeepsType ==
  ASSUME mListCV \in CondVarOf(Threads), NEW t \in Threads
  PROVE  /\ NotifyAll(mListCV) \in CondVarOf(Threads)
         /\ Sleep(mListCV, t) \in CondVarOf(Threads)
         /\ Rouse(mListCV, t) \in CondVarOf(Threads)
         /\ Leave(mListCV, t) \in CondVarOf(Threads)
         /\ Leave(Rouse(mListCV, t), t) \in CondVarOf(Threads)
BY DEF CondVarOf, NotifyAll, Sleep, Rouse, Leave

\* A push_back() is a step of the deque.
LEMMA PushBackStep ==
  ASSUME Exclusive, NEW s, Holds(s), CallInv, NEW t \in Threads, NEW n \in Nodes, PushBackNode(t, n)
  PROVE  CallInv' /\ (\E r : Holds(r)') /\ Abstract!Next
<1>1. NobodyCalls
  BY AloneIs DEF PushBackNode, Idle
<1>2. CallInv'
  BY <1>1, NobodyIsRight, CondVarKeepsType DEF PushBackNode, push_back, CallInv
<1>3. n \in Nodes \ listed /\ push_back(n) /\ listed' = listed \cup {n} /\ did' = <<"push_back", n>>
  BY DEF PushBackNode, Free
<1>4. Holds(Append(s, n))'
  BY <1>3, PushBackDoes
<1>5. Contents = s /\ Contents' = Append(s, n)
  BY <1>4, HoldsContents, HoldsContentsNext
<1>6. n \notin ToSet(Contents) /\ mListCV' = NotifyAll(mListCV)
  BY <1>3, <1>5 DEF Holds, push_back
<1>7. Abstract!Next
  BY <1>3, <1>5, <1>6 DEF Abstract!Next, Abstract!Add, Abstract!PushBack, Abstract!NotifyAll,
     NotifyAll, Abstract!ToSet, ToSet
<1> QED
  BY <1>2, <1>4, <1>7

\* A call of two steps begins: it has in hand what it says.
LEMMA BeginStep ==
  ASSUME Exclusive, NEW s, Holds(s), CallInv, NEW t \in Threads,
         NEW n \in Nodes, NEW e \in Nodes \cup {NULL},
         BeginPushFront(t, n) \/ BeginInsert(t, n, e) \/ BeginErase(t, n)
  PROVE  CallInv' /\ Holds(s)' /\ UNCHANGED Abstract!vars
<1> DEFINE op == call'[t].op
           at == call'[t].at
<1>1. call \in [Threads -> [op : {"none", "push_front", "insert", "erase"},
                            node : Nodes \cup {NULL}, at : Nodes \cup {NULL}]]
  BY DEF CallInv
<1>2. /\ pop' = pop /\ listed' = listed /\ did' = did /\ mHead' = mHead /\ mTail' = mTail
      /\ hook' = hook /\ mSize' = mSize /\ mListCV' = mListCV /\ MayUse(t)
      /\ call[t] = NoCall /\ pop[t] = "none"
  BY DEF BeginPushFront, BeginInsert, BeginErase, Begin, Idle, listVars
<1>3. Holds(s)'
  BY <1>2 DEF Holds
<1>4. /\ call' \in [Threads -> [op : {"none", "push_front", "insert", "erase"},
                                node : Nodes \cup {NULL}, at : Nodes \cup {NULL}]]
      /\ \A u \in Threads \ {t} : call'[u] = NoCall
      /\ \/ op = "push_front" /\ call'[t].node \in Nodes \ listed /\ at = mHead
         \/ op = "insert" /\ call'[t].node \in Nodes \ listed /\ at \in listed \cup {NULL}
         \/ op = "erase" /\ call'[t].node \in listed
  <2>1. NobodyCalls
    BY <1>2, AloneIs
  <2>2. mHead \in Nodes \cup {NULL}
    BY InListed
  <2>3. CASE BeginPushFront(t, n)
    BY <1>1, <2>1, <2>2, <2>3 DEF NobodyCalls, BeginPushFront, Begin, Free
  <2>4. CASE BeginInsert(t, n, e)
    BY <1>1, <2>1, <2>4 DEF NobodyCalls, BeginInsert, Begin, Free
  <2>5. CASE BeginErase(t, n)
    BY <1>1, <2>1, <2>5 DEF NobodyCalls, BeginErase, Begin
  <2> QED
    BY <2>3, <2>4, <2>5
<1>5. StillSo(t)'
  BY <1>2, <1>4 DEF StillSo
<1>6. CallInv'
  BY <1>2, <1>4, <1>5 DEF CallInv
<1>7. Contents = s /\ Contents' = s
  BY <1>3, HoldsContents, HoldsContentsNext
<1> QED
  BY <1>2, <1>3, <1>6, <1>7 DEF Abstract!vars

\* A call of two steps ends: nobody has anything in hand.
LEMMA EndsCalls ==
  ASSUME CallInv, NEW t \in Threads, call[t] # NoCall, call' = [call EXCEPT ![t] = NoCall],
         pop' = pop, mListCV' \in CondVarOf(Threads)
  PROVE  CallInv'
<1>1. \A u \in Threads \ {t} : call[u] = NoCall
  BY DEF CallInv, StillSo
<1>2. NoCall \in [op : {"none", "push_front", "insert", "erase"},
                  node : Nodes \cup {NULL}, at : Nodes \cup {NULL}]
  BY DEF NoCall
<1>3. /\ call' \in [Threads -> [op : {"none", "push_front", "insert", "erase"},
                                node : Nodes \cup {NULL}, at : Nodes \cup {NULL}]]
      /\ \A u \in Threads : call'[u] = NoCall
  BY <1>1, <1>2 DEF CallInv
<1> QED
  BY <1>3 DEF CallInv

\* The second step of push_front() or insert(), with what was read in the first,
\* is a step of the deque; an insert() that gives up changes nothing.
LEMMA FinishInsertStep ==
  ASSUME Exclusive, NEW s, Holds(s), CallInv, NEW t \in Threads, FinishInsert(t)
  PROVE  CallInv' /\ (\E r : Holds(r)') /\ (Abstract!Next \/ UNCHANGED Abstract!vars)
<1>0. s \in Seq(Nodes) /\ Distinct(s) /\ mHead = At(s, 1) /\ ToSet(s) = listed /\ Len(s) \in Nat
  BY EmptyIs DEF Holds, IsList
<1>1. PICK n \in Nodes \ listed, e \in Nodes \cup {NULL} :
        /\ call[t] # NoCall /\ n = call[t].node /\ e = call[t].at
        /\ \/ call[t].op = "push_front" /\ e = mHead
           \/ call[t].op = "insert" /\ e \in listed \cup {NULL}
  BY InListed DEF CallInv, StillSo, FinishInsert, NoCall
<1>2. e \in listed \cup {NULL} /\ n \notin ToSet(s)
  BY <1>0, <1>1, InListed
<1>3. mListCV' \in CondVarOf(Threads) /\ CallInv'
  <2>1. mListCV' \in CondVarOf(Threads)
    BY CondVarKeepsType DEF FinishInsert, CallInv, insert, listVars
  <2> QED
    BY <1>1, <2>1, EndsCalls DEF FinishInsert
<1>4. CASE InsertFails(e) /\ UNCHANGED <<listVars, listed, did>>
  <2>1. Holds(s)'
    BY <1>4 DEF Holds, listVars
  <2>2. Contents = s /\ Contents' = s
    BY <2>1, HoldsContents, HoldsContentsNext
  <2> QED
    BY <1>3, <1>4, <2>1, <2>2 DEF Abstract!vars, listVars
<1>5. CASE /\ insert(e, n) /\ listed' = listed \cup {n}
           /\ did' = IF call[t].op = "push_front" THEN <<"push_front", n>> ELSE <<"insert", n, e>>
  <2>1. /\ Contents = s /\ n \in Nodes /\ n \notin ToSet(Contents)
        /\ mListCV' = NotifyAll(mListCV) /\ (s = <<>> => Abstract!DequeEmpty)
    BY <1>1, <1>2, <1>5, HoldsContents DEF insert, Abstract!DequeEmpty
  <2>2. CASE e = NULL /\ s = <<>> /\ Holds(Append(s, n))'
    <3>1. Contents' = Append(s, n)
      BY <2>2, HoldsContentsNext
    <3>2. Append(s, n) = <<n>> \o s
      <4>1. Append(s, n) = Inserted(s, Len(s) + 1, n) /\ <<n>> \o s = Inserted(s, 1, n)
        BY <1>0, <2>1, InsertedIs
      <4>2. Len(s) + 1 = 1
        BY <2>2
      <4> QED
        BY <4>1, <4>2
    <3>3. \/ Abstract!PushBack(n) /\ Abstract!DequeEmpty /\ did' = <<"insert", n, NULL>>
          \/ Abstract!PushFront(n) /\ did' = <<"push_front", n>>
      BY <1>1, <1>5, <2>1, <2>2, <3>1, <3>2
         DEF Abstract!PushBack, Abstract!PushFront, Abstract!NotifyAll, NotifyAll
    <3> QED
      BY <1>3, <2>1, <2>2, <3>3 DEF Abstract!Next, Abstract!Add, Abstract!ToSet, ToSet
  <2>3. ASSUME NEW i \in 1 .. Len(s), s[i] = e, Holds(InsertAt(s, i, n))'
        PROVE  CallInv' /\ (\E r : Holds(r)') /\ Abstract!Next
    <3>1. Contents' = InsertAt(s, i, n)
      BY <2>3, HoldsContentsNext
    <3>2. CASE e = mHead /\ did' = <<"push_front", n>>
      <4>1. i = 1
        <5>1. 1 \in 0 .. Len(s) + 1
          BY <1>0
        <5> QED
          BY <1>0, <2>3, <3>2, <5>1, OnePlace
      <4>2. InsertAt(s, i, n) = <<n>> \o s
        <5>1. InsertAt(s, i, n) = Inserted(s, i, n) /\ <<n>> \o s = Inserted(s, 1, n)
          BY <1>0, <2>1, InsertedIs
        <5> QED
          BY <4>1, <5>1
      <4>3. Abstract!PushFront(n) /\ did' = <<"push_front", n>>
        BY <2>1, <3>1, <3>2, <4>2 DEF Abstract!PushFront, Abstract!NotifyAll, NotifyAll
      <4> QED
        BY <1>3, <2>1, <2>3, <4>3 DEF Abstract!Next, Abstract!Add, Abstract!ToSet, ToSet
    <3>3. CASE did' = <<"insert", n, e>>
      <4>1. e \in ToSet(s) /\ i \in DOMAIN s
        BY <1>0, <2>3, InSequence
      <4>2. Abstract!InsertAt(s, i, n) = InsertAt(s, i, n) /\ Abstract!ToSet(s) = ToSet(s)
        BY DEF Abstract!InsertAt, InsertAt, Abstract!ToSet, ToSet
      <4>3. Abstract!InsertBefore(e, n)
        BY <2>1, <2>3, <3>1, <4>1, <4>2 DEF Abstract!InsertBefore, Abstract!NotifyAll, NotifyAll
      <4> QED
        BY <1>3, <2>1, <2>3, <3>3, <4>1, <4>2, <4>3 DEF Abstract!Next, Abstract!Add
    <3> QED
      BY <1>1, <1>5, <3>2, <3>3
  <2> QED
    BY <1>1, <1>2, <1>5, <2>2, <2>3, InsertDoes
<1> QED
  BY <1>1, <1>4, <1>5 DEF FinishInsert

\* So is the second step of an erase(),
LEMMA FinishEraseStep ==
  ASSUME Exclusive, NEW s, Holds(s), CallInv, NEW t \in Threads, FinishErase(t)
  PROVE  CallInv' /\ (\E r : Holds(r)') /\ Abstract!Next
<1>1. PICK n \in listed :
        /\ call[t] # NoCall /\ n \in Nodes /\ erase(n) /\ listed' = listed \ {n}
        /\ did' = <<"erase", n>>
  BY InListed DEF CallInv, StillSo, FinishErase, NoCall
<1>2. mListCV' = NotifyAll(mListCV) /\ CallInv'
  <2>1. mListCV' = NotifyAll(mListCV)
    BY <1>1 DEF erase
  <2>2. mListCV' \in CondVarOf(Threads)
    BY <2>1, CondVarKeepsType DEF CallInv
  <2> QED
    BY <1>1, <2>1, <2>2, EndsCalls DEF FinishErase
<1>3. PICK i \in 1 .. Len(s) : s[i] = n /\ Holds(RemoveAt(s, i))'
  BY <1>1, EraseDoes
<1>4. Contents = s /\ Contents' = RemoveAt(s, i)
  BY <1>3, HoldsContents, HoldsContentsNext
<1>5. i \in DOMAIN s /\ Abstract!RemoveAt(s, i) = RemoveAt(s, i)
  BY DEF Abstract!RemoveAt, RemoveAt, Holds, IsList
<1>6. Abstract!Drop(n)
  BY <1>1, <1>2, <1>3, <1>4, <1>5
     DEF Abstract!Drop, Abstract!Erase, Abstract!NotifyAll, NotifyAll
<1> QED
  BY <1>1, <1>2, <1>3, <1>6 DEF Abstract!Next

\* a pop that takes a node, goes to sleep or times out,
LEMMA PopStep ==
  ASSUME Exclusive, NEW s, Holds(s), CallInv, NEW t \in Threads,
         NEW op \in {"pop_front", "pop_back"},
         PopCall(t, op)
  PROVE  CallInv' /\ (\E r : Holds(r)') /\ Abstract!Next
<1>1. NobodyCalls
  <2>1. call[t] = NoCall
    BY DEF CallInv, StillSo, PopCall, Idle
  <2> QED
    BY <2>1, AloneIs DEF PopCall
<1>2. pop' \in [Threads -> {"none", "pop_front", "pop_back"}] /\ call' = call
  BY DEF CallInv, PopCall
<1>3. Contents = s
  BY HoldsContents
<1>4. s = <<>> <=> Empty
  BY EmptyIs
<1>5. /\ Abstract!DequeEmpty <=> Empty
      /\ Abstract!Leave(mListCV, t) = Leave(mListCV, t)
      /\ Abstract!Leave(Abstract!Rouse(mListCV, t), t) = Leave(Rouse(mListCV, t), t)
      /\ Abstract!Sleep(mListCV, t) = Sleep(mListCV, t)
      /\ Abstract!Waiting(mListCV) = Waiting(mListCV)
  BY <1>3, <1>4 DEF Abstract!DequeEmpty, Abstract!Leave, Abstract!Rouse, Abstract!Sleep,
     Abstract!Waiting, Leave, Rouse, Sleep, Waiting
<1>6. CASE op = "pop_front" /\ PopFrontTakes(t) /\ Took(op, mHead)
  <2>1. s # <<>> /\ mHead = Head(s) /\ Holds(Tail(s))'
    BY <1>6, PopFrontDoes DEF Took
  <2>2. Contents' = Tail(s) /\ mListCV' = Leave(mListCV, t)
    BY <1>6, <2>1, HoldsContentsNext DEF PopFrontTakes
  <2>3. CallInv'
    BY <1>1, <1>2, <2>2, NobodyIsRight, CondVarKeepsType DEF CallInv
  <2>4. Abstract!TakeFront(t) /\ did' = <<"pop_front", Head(Contents)>>
    BY <1>3, <1>5, <1>6, <2>1, <2>2 DEF Abstract!TakeFront, Took, PopFrontTakes
  <2> QED
    BY <2>1, <2>3, <2>4 DEF Abstract!Next, Abstract!Pop
<1>7. CASE op = "pop_back" /\ PopBackTakes(t) /\ Took(op, mTail)
  <2>1. s # <<>> /\ mTail = Last(s) /\ Holds(Front(s))'
    BY <1>7, PopBackDoes DEF Took
  <2>2. Contents' = Front(s) /\ mListCV' = Leave(mListCV, t)
    BY <1>7, <2>1, HoldsContentsNext DEF PopBackTakes
  <2>3. CallInv'
    BY <1>1, <1>2, <2>2, NobodyIsRight, CondVarKeepsType DEF CallInv
  <2>4. Abstract!Last(s) = Last(s) /\ Abstract!Front(s) = Front(s)
    BY DEF Abstract!Last, Abstract!Front, Last, Front
  <2>5. Abstract!TakeBack(t) /\ did' = <<"pop_back", Abstract!Last(Contents)>>
    BY <1>3, <1>5, <1>7, <2>1, <2>2, <2>4 DEF Abstract!TakeBack, Took, PopBackTakes
  <2> QED
    BY <2>1, <2>3, <2>5 DEF Abstract!Next, Abstract!Pop
<1>8. CASE \/ PopAwaits(t) /\ UNCHANGED <<listed, did>>
           \/ PopTimesOut(t) /\ UNCHANGED listed /\ did' = <<"nothing", NULL>>
  <2>1. Empty /\ UNCHANGED <<mHead, mTail, mSize, hook, listed>>
    BY <1>8 DEF PopAwaits, PopTimesOut
  <2>2. Holds(s)'
    BY <1>4, <2>1 DEF Holds
  <2>3. Contents' = s
    BY <2>2, HoldsContentsNext
  <2>4. mListCV' \in CondVarOf(Threads)
    BY <1>8, CondVarKeepsType DEF PopAwaits, PopTimesOut, CallInv
  <2>5. CallInv'
    BY <1>1, <1>2, <2>4, NobodyIsRight
  <2>6. \/ Abstract!AwaitItem(t) /\ UNCHANGED did
        \/ Abstract!GiveUp(t) /\ did' = Abstract!Nothing
    BY <1>3, <1>5, <1>8, <2>3 DEF PopAwaits, PopTimesOut, Abstract!AwaitItem, Abstract!GiveUp,
       Abstract!Nothing
  <2> QED
    BY <2>2, <2>5, <2>6 DEF Abstract!Next, Abstract!Pop
<1> QED
  BY <1>6, <1>7, <1>8 DEF PopCall

\* and a spurious wakeup.
LEMMA SpuriousStep ==
  ASSUME NEW s, Holds(s), CallInv, NEW t \in Threads, Spurious(t)
  PROVE  CallInv' /\ Holds(s)' /\ Abstract!Next
<1>1. /\ t \in mListCV.asleep /\ mListCV' = Rouse(mListCV, t)
      /\ UNCHANGED <<mHead, mTail, mSize, hook, call, pop, listed, did>>
  BY DEF Spurious, PopSpurious
<1>2. Holds(s)'
  BY <1>1 DEF Holds, Rouse
<1>3. mListCV' \in CondVarOf(Threads)
  BY <1>1, CondVarKeepsType DEF CallInv
<1>4. CallInv'
  BY <1>1, <1>3 DEF CallInv, StillSo
<1>5. Contents = s /\ Contents' = s
  BY <1>2, HoldsContents, HoldsContentsNext
<1>6. Abstract!Spurious(t)
  BY <1>1, <1>5 DEF Abstract!Spurious, Abstract!Rouse, Rouse
<1> QED
  BY <1>2, <1>4, <1>6 DEF Abstract!Next

ListInv == Holds(Contents) /\ CallInv

\* The list is that of the empty sequence to begin with.
LEMMA InitHolds ==
  ASSUME Init
  PROVE  ListInv /\ Abstract!Init
<1>1. <<>> \in Seq(Nodes) /\ Len(<<>>) = 0 /\ 1 .. 0 = {}
  BY SMT
<1>2. ToSet(<<>>) = {}
  BY DEF ToSet
<1>3. 0 % Sizes = 0
  BY SizesAssumption
<1>4. hook \in [Nodes -> Hooks] /\ \A n \in Nodes : hook[n].prev = NULL /\ hook[n].next = NULL
  BY DEF Init, ConstructSafeList, Unhooked, Hooks
<1>5. IsList(hook, mHead, mTail, <<>>)
  BY <1>1, <1>2, <1>4 DEF IsList, Distinct, At, Init, ConstructSafeList
<1>6. Holds(<<>>)
  BY <1>1, <1>2, <1>3, <1>5 DEF Holds, Wrap, Init, ConstructSafeList
<1>7. Contents = <<>>
  BY <1>6, HoldsContents
<1>8. CallInv
  BY DEF CallInv, Init, ConstructSafeList, NoCall, CondVarOf, NoWaiters
<1>9. Abstract!Init
  BY <1>7 DEF Abstract!Init, Abstract!NoWaiters, Abstract!Nothing, NoWaiters, Init,
     ConstructSafeList
<1> QED
  BY <1>6, <1>7, <1>8, <1>9 DEF ListInv

\* Every step keeps the invariant, and is one of the deque or changes nothing there.
LEMMA NextHolds ==
  ASSUME Exclusive, ListInv, [Next]_vars
  PROVE  ListInv' /\ [Abstract!Next]_Abstract!vars
<1>1. PICK s : s = Contents /\ Holds(s)
  BY DEF ListInv
<1>2. CASE UNCHANGED vars
  <2>1. Holds(s)'
    BY <1>1, <1>2 DEF Holds, vars, listVars
  <2>2. Contents' = s
    BY <2>1, HoldsContentsNext
  <2>3. CallInv'
    BY <1>2 DEF ListInv, CallInv, StillSo, vars, listVars
  <2> QED
    BY <1>1, <1>2, <2>1, <2>2, <2>3 DEF ListInv, Abstract!vars, vars, listVars
<1>3. CASE Next
  <2>1. CallInv' /\ (\E r : Holds(r)') /\ (Abstract!Next \/ UNCHANGED Abstract!vars)
    <3>1. PICK t \in Threads :
            \/ \E n \in Nodes : PushBackNode(t, n) \/ BeginPushFront(t, n) \/ BeginErase(t, n)
            \/ \E n \in Nodes, e \in Nodes \cup {NULL} : BeginInsert(t, n, e)
            \/ FinishInsert(t) \/ FinishErase(t)
            \/ PopCall(t, "pop_front") \/ PopCall(t, "pop_back")
            \/ Spurious(t)
      BY <1>3 DEF Next
    <3>2. CASE \E n \in Nodes : PushBackNode(t, n)
      BY <1>1, <3>2, PushBackStep DEF ListInv
    <3>3. CASE \E n \in Nodes, e \in Nodes \cup {NULL} :
                 BeginPushFront(t, n) \/ BeginInsert(t, n, e) \/ BeginErase(t, n)
      BY <1>1, <3>3, BeginStep DEF ListInv
    <3>4. CASE FinishInsert(t)
      BY <1>1, <3>4, FinishInsertStep DEF ListInv
    <3>5. CASE FinishErase(t)
      BY <1>1, <3>5, FinishEraseStep DEF ListInv
    <3>6. CASE PopCall(t, "pop_front") \/ PopCall(t, "pop_back")
      BY <1>1, <3>6, PopStep DEF ListInv
    <3>7. CASE Spurious(t)
      BY <1>1, <3>7, SpuriousStep DEF ListInv
    <3> QED
      BY <3>1, <3>2, <3>3, <3>4, <3>5, <3>6, <3>7
  <2>2. PICK r : Holds(r)'
    BY <2>1
  <2>3. Contents' = r
    BY <2>2, HoldsContentsNext
  <2> QED
    BY <2>1, <2>2, <2>3 DEF ListInv
<1> QED
  BY <1>2, <1>3

\* Whatever the threads do, the hooks, the head, the tail and the size of the list
\* are those of one sequence, and calls in progress still have in hand what they read.
THEOREM ListInvariant == Exclusive => (Spec => []ListInv)
<1> SUFFICES ASSUME Exclusive PROVE Spec => []ListInv
  OBVIOUS
<1>1. Init => ListInv
  BY InitHolds
<1>2. ListInv /\ [Next]_vars => ListInv'
  BY NextHolds
<1> QED
  BY <1>1, <1>2, PTL DEF Spec

\* Every operation of the list is, at one step, that operation of the deque: with
\* the same node, the same place, the same waiters and the same return.
THEOREM ListImplementsDeque == Exclusive => (Spec => ImplementsDeque)
<1> SUFFICES ASSUME Exclusive PROVE Spec => ImplementsDeque
  OBVIOUS
<1>1. Init => Abstract!Init
  BY InitHolds
<1>2. ListInv /\ [Next]_vars => [Abstract!Next]_Abstract!vars
  BY NextHolds
<1>3. Spec => []ListInv
  BY ListInvariant
<1> QED
  BY <1>1, <1>2, <1>3, PTL DEF Spec, ImplementsDeque, Abstract!Spec

\* What the invariant says of one state.
LEMMA InvSays ==
  ASSUME ListInv
  PROVE  TypeOK /\ SizeMatches /\ LinksMend /\ NoNodeLost /\ NoLostWakeup
<1> PICK s : s = Contents /\ Holds(s)
  BY DEF ListInv
<1>1. /\ s \in Seq(Nodes) /\ Len(s) \in Nat /\ hook \in [Nodes -> Hooks] /\ ToSet(s) = listed
      /\ mHead = At(s, 1) /\ mTail = At(s, Len(s)) /\ mSize = Wrap(Len(s))
      /\ \A n \in Nodes \ ToSet(s) : hook[n].prev = NULL /\ hook[n].next = NULL
  BY EmptyIs DEF Holds, IsList
<1>2. mHead \in Nodes \cup {NULL} /\ mTail \in Nodes \cup {NULL} /\ listed \subseteq Nodes
  BY <1>1, InSequence DEF At
<1>3. mSize \in 0 .. Sizes - 1
  BY <1>1, SizesAssumption DEF Wrap
<1>a. /\ mHead = NULL <=> mTail = NULL
      /\ mHead # NULL => hook[mHead].prev = NULL /\ hook[mTail].next = NULL
  <2>1. CASE s = <<>>
    BY <1>1, <2>1, EmptyIs DEF At
  <2>2. CASE s # <<>>
    <3>1. /\ mHead = s[1] /\ mTail = s[Len(s)] /\ 1 \in 1 .. Len(s) /\ Len(s) \in 1 .. Len(s)
          /\ mHead # NULL /\ mTail # NULL
      BY <1>1, <2>2, EmptyIs, InSequence, NodesAssumption
    <3>2. hook[s[1]].prev = At(s, 1 - 1) /\ hook[s[Len(s)]].next = At(s, Len(s) + 1)
      BY <3>1 DEF Holds, IsList
    <3>3. At(s, 1 - 1) = NULL /\ At(s, Len(s) + 1) = NULL
      BY <1>1 DEF At
    <3> QED
      BY <3>1, <3>2, <3>3
  <2> QED
    BY <2>1, <2>2
<1>4. TypeOK
  BY <1>1, <1>2, <1>3, <1>a DEF TypeOK, Hooks, ListInv, CallInv
<1>5. SizeMatches /\ NoNodeLost
  BY <1>1 DEF SizeMatches, NoNodeLost
<1>6. LinksMend
  <2>1. Walk(mTail, [n \in Nodes |-> hook[n].prev]) = Reverse(s)
    BY ListWalks DEF Holds
  <2>2. ASSUME NEW n \in Nodes \ ToSet(s) PROVE hook[n] = Unhooked
    <3>1. hook[n] \in Hooks /\ hook[n].prev = NULL /\ hook[n].next = NULL
      BY <1>1
    <3> QED
      BY <3>1 DEF Hooks, Unhooked
  <2> QED
    BY <2>1, <2>2 DEF LinksMend
<1>7. NoLostWakeup
  BY EmptyIs DEF Holds, NoLostWakeup
<1> QED
  BY <1>4, <1>5, <1>6, <1>7

\* The variables keep their types; in particular no link leads out of the nodes,
\* and head and tail are the ends of the links or both NULL.
THEOREM ListTypes == Exclusive => (Spec => []TypeOK)
BY ListInvariant, InvSays, PTL

\* size() is the number of nodes in the list, up to the width of mSize.
THEOREM SizeIsRight == Exclusive => (Spec => []SizeMatches)
BY ListInvariant, InvSays, PTL

\* The list read backwards from the tail is the reverse of the list read from the
\* head, and a node that has left it keeps no link into it.
THEOREM LinksAreMended == Exclusive => (Spec => []LinksMend)
BY ListInvariant, InvSays, PTL

\* No node that was put into the list is lost, and none that was taken out is left.
THEOREM NoNodeIsLost == Exclusive => (Spec => []NoNodeLost)
BY ListInvariant, InvSays, PTL

\* No thread sleeps in a pop while there is a node to take.
THEOREM NoWakeupIsLost == Exclusive => (Spec => []NoLostWakeup)
BY ListInvariant, InvSays, PTL

-----------------------------------------------------------------------------
\* An iterator over the list.

\* x stands somewhere in front of y in s.
Before(s, x, y) == \E i, j \in 1 .. Len(s) : i < j /\ s[i] = x /\ s[j] = y

\* Two nodes of s that are in r too keep their order there.
KeepsOrder(s, r) ==
  \A x, y \in ToSet(r) : Before(s, x, y) => Before(r, x, y)

\* A node put in leaves the others in their order,
LEMMA InsertedKeepsOrder ==
  ASSUME NEW s \in Seq(Nodes), Distinct(s), NEW n \in Nodes \ ToSet(s), NEW i \in 1 .. Len(s) + 1
  PROVE  KeepsOrder(s, Inserted(s, i, n))
<1> DEFINE r == Inserted(s, i, n)
<1>1. Len(s) \in Nat /\ Len(r) = Len(s) + 1
  BY InsertedFacts, InSequence
<1>2. \A j \in 1 .. Len(s) + 1 : r[j] = IF j < i THEN s[j] ELSE IF j = i THEN n ELSE s[j - 1]
  BY DEF Inserted
<1> HIDE DEF r
<1>3. \A j \in 1 .. Len(s) : r[IF j < i THEN j ELSE j + 1] = s[j]
  BY <1>1, <1>2
<1>4. ASSUME NEW a \in 1 .. Len(s), NEW b \in 1 .. Len(s), a < b
      PROVE  Before(r, s[a], s[b])
  <2>1. PICK c \in 1 .. Len(r), d \in 1 .. Len(r) :
          c = (IF a < i THEN a ELSE a + 1) /\ d = (IF b < i THEN b ELSE b + 1) /\ c < d
    BY <1>1, <1>4
  <2>2. r[c] = s[a] /\ r[d] = s[b]
    BY <1>3, <2>1
  <2> QED
    BY <2>1, <2>2 DEF Before
<1>5. KeepsOrder(s, r)
  BY <1>4 DEF KeepsOrder, Before
<1> QED
  BY <1>5 DEF r

\* and so does a node taken out.
LEMMA RemovedKeepsOrder ==
  ASSUME NEW s \in Seq(Nodes), Distinct(s), NEW i \in 1 .. Len(s)
  PROVE  KeepsOrder(s, Removed(s, i))
<1> DEFINE r == Removed(s, i)
<1>1. Len(s) \in Nat /\ Len(r) = Len(s) - 1 /\ ToSet(r) = ToSet(s) \ {s[i]}
  BY RemovedFacts, InSequence
<1>2. \A j \in 1 .. Len(s) - 1 : r[j] = IF j < i THEN s[j] ELSE s[j + 1]
  BY DEF Removed
<1> HIDE DEF r
<1>3. \A j \in 1 .. Len(s) : j # i => r[IF j < i THEN j ELSE j - 1] = s[j]
  BY <1>1, <1>2
<1>4. ASSUME NEW a \in 1 .. Len(s), NEW b \in 1 .. Len(s), a < b, a # i, b # i
      PROVE  Before(r, s[a], s[b])
  <2>1. PICK c \in 1 .. Len(r), d \in 1 .. Len(r) :
          c = (IF a < i THEN a ELSE a - 1) /\ d = (IF b < i THEN b ELSE b - 1) /\ c < d
    BY <1>1, <1>4
  <2>2. r[c] = s[a] /\ r[d] = s[b]
    BY <1>3, <1>4, <2>1
  <2> QED
    BY <2>1, <2>2 DEF Before
<1>5. KeepsOrder(s, r)
  <2> SUFFICES ASSUME NEW x \in ToSet(r), NEW y \in ToSet(r), Before(s, x, y)
               PROVE  Before(r, x, y)
    BY DEF KeepsOrder
  <2>1. PICK a, b \in 1 .. Len(s) : a < b /\ s[a] = x /\ s[b] = y
    BY DEF Before
  <2>2. a # i /\ b # i
    BY <1>1, <2>1
  <2> QED
    BY <1>4, <2>1, <2>2
<1> QED
  BY <1>5 DEF r

\* A sequence keeps its own order.
LEMMA SameKeepsOrder ==
  ASSUME NEW s
  PROVE  KeepsOrder(s, s)
BY DEF KeepsOrder

\* A sequence that is operated on as a Deque keeps the order of its nodes.
LEMMA DequeKeepsOrder ==
  ASSUME NEW s, Holds(s), NEW r, Holds(r)', [Abstract!Next]_Abstract!vars
  PROVE  KeepsOrder(s, r)
<1>1. s \in Seq(Nodes) /\ Distinct(s) /\ Len(s) \in Nat /\ Contents = s /\ Contents' = r
  BY EmptyIs, HoldsContents, HoldsContentsNext DEF Holds, IsList
<1>2. CASE r = s
  BY <1>2, SameKeepsOrder
<1>3. ASSUME NEW n \in Nodes, Abstract!Add(n)
      PROVE  KeepsOrder(s, r)
  <2>1. n \in Nodes \ ToSet(s)
    BY <1>1, <1>3 DEF Abstract!Add, Abstract!ToSet, ToSet
  <2>2. \/ r = Append(s, n) \/ r = <<n>> \o s
        \/ \E i \in 1 .. Len(s) : r = InsertAt(s, i, n)
    BY <1>1, <1>3, InSequence DEF Abstract!Add, Abstract!PushBack, Abstract!PushFront,
       Abstract!InsertBefore,
       Abstract!InsertAt, InsertAt
  <2>3. PICK i \in 1 .. Len(s) + 1 : r = Inserted(s, i, n)
    <3>1. 1 \in 1 .. Len(s) + 1 /\ Len(s) + 1 \in 1 .. Len(s) + 1
          /\ \A i \in 1 .. Len(s) : i \in 1 .. Len(s) + 1
      BY <1>1
    <3> QED
      BY <1>1, <2>1, <2>2, <3>1, InsertedIs
  <2> QED
    BY <1>1, <2>1, <2>3, InsertedKeepsOrder
<1>4. ASSUME NEW i \in 1 .. Len(s), s # <<>>, r = RemoveAt(s, i) \/ r = Tail(s) \/ r = Front(s)
      PROVE  KeepsOrder(s, r)
  <2>1. PICK j \in 1 .. Len(s) : r = Removed(s, j)
    <3>1. 1 \in 1 .. Len(s) /\ Len(s) \in 1 .. Len(s)
      BY <1>1, <1>4, EmptyIs
    <3> QED
      BY <1>1, <1>4, <3>1, RemovedIs
  <2> QED
    BY <1>1, <2>1, RemovedKeepsOrder
<1>5. ASSUME NEW n \in Nodes, Abstract!Drop(n)
      PROVE  KeepsOrder(s, r)
  <2>1. PICK i \in 1 .. Len(s) : r = RemoveAt(s, i)
    BY <1>1, <1>5, InSequence DEF Abstract!Drop, Abstract!Erase, Abstract!RemoveAt, RemoveAt
  <2>2. s # <<>>
    BY <1>1, EmptyIs
  <2> QED
    BY <1>4, <2>1, <2>2
<1>6. ASSUME NEW t \in Threads, Abstract!Pop(t) \/ Abstract!Spurious(t)
      PROVE  KeepsOrder(s, r)
  <2>1. r = s \/ (s # <<>> /\ (r = Tail(s) \/ r = Front(s)))
    BY <1>1, <1>6 DEF Abstract!Pop, Abstract!TakeFront, Abstract!TakeBack, Abstract!AwaitItem,
       Abstract!GiveUp, Abstract!Spurious, Abstract!DequeEmpty, Abstract!Front, Front
  <2>2. s # <<>> => 1 \in 1 .. Len(s)
    BY EmptyIs
  <2> QED
    BY <1>2, <1>4, <2>1, <2>2
<1> QED
  BY <1>1, <1>2, <1>3, <1>5, <1>6 DEF Abstract!Next, Abstract!vars

\* The iterator stands in front of every node that it is still to meet.
WalkInv ==
  /\ mCurrent \in Nodes \cup {NULL}
  /\ \A y \in ahead : Before(Contents, mCurrent, y)

\* Nothing stands in front of another thing but a node of the list.
LEMMA BeforeIs ==
  ASSUME NEW s \in Seq(Nodes), NEW x, NEW y, Before(s, x, y)
  PROVE  x \in ToSet(s) /\ y \in ToSet(s) /\ x \in Nodes /\ x # NULL
BY InSequence, NodesAssumption DEF Before

\* From where the iterator stands a walk meets every node it is in front of.
LEMMA IteratorIsInFront ==
  ASSUME ListInv, WalkInv
  PROVE  WalkMeetsAll
<1> DEFINE next == [n \in Nodes |-> hook[n].next]
<1>1. PICK s : s = Contents /\ Holds(s)
  BY DEF ListInv
<1>2. s \in Seq(Nodes) /\ Len(s) \in Nat
  BY <1>1, EmptyIs
<1>3. ASSUME NEW y \in ahead
      PROVE  y \in ToSet(Walk(IF mCurrent = NULL THEN NULL ELSE next[mCurrent], next))
  <2>1. PICK i \in 1 .. Len(s), j \in 1 .. Len(s) : i < j /\ s[i] = mCurrent /\ s[j] = y
    BY <1>1 DEF WalkInv, Before
  <2>2. j \in i + 1 .. Len(s)
    BY <1>2, <2>1
  <2>3. s[j] \in ToSet(Walk(hook[s[i]].next, next))
    BY <1>1, <2>2, ListWalks DEF Holds
  <2>4. mCurrent \in Nodes /\ mCurrent # NULL
    BY <1>2, <2>1, InSequence, NodesAssumption
  <2>5. (IF mCurrent = NULL THEN NULL ELSE next[mCurrent]) = hook[s[i]].next
    BY <2>1, <2>4
  <2> QED
    BY <2>1, <2>3, <2>5
<1> QED
  BY <1>3 DEF WalkMeetsAll

\* Every move of the iterator, and every operation around it, keeps that.
LEMMA WalkStep ==
  ASSUME Exclusive, ListInv, WalkInv, [WalkNext]_walkVars
  PROVE  WalkInv' /\ ListInv'
<1>1. PICK s : s = Contents /\ Holds(s)
  BY DEF ListInv
<1>2. /\ s \in Seq(Nodes) /\ Len(s) \in Nat /\ hook \in [Nodes -> Hooks] /\ ToSet(s) = listed
      /\ mHead = At(s, 1) /\ Distinct(s)
      /\ \A n \in Nodes \ ToSet(s) : hook[n].prev = NULL /\ hook[n].next = NULL
      /\ \A i \in 1 .. Len(s) : hook[s[i]].prev = At(s, i - 1) /\ hook[s[i]].next = At(s, i + 1)
  BY <1>1, EmptyIs DEF Holds, IsList
<1>3. CASE Others
  <2>1. ListInv' /\ [Abstract!Next]_Abstract!vars
    BY <1>3, NextHolds DEF Others
  <2>2. PICK r : r = Contents' /\ Holds(r)'
    BY <2>1 DEF ListInv
  <2>3. KeepsOrder(s, r) /\ ToSet(r) = listed'
    BY <1>1, <2>1, <2>2, DequeKeepsOrder DEF Holds
  <2>4. ASSUME NEW y \in ahead' PROVE Before(r, mCurrent, y)
    <3>1. mCurrent \in ToSet(r) /\ y \in ToSet(r) /\ y \in ahead
      BY <1>3, <2>3, <2>4 DEF Others
    <3> QED
      BY <1>1, <2>3, <3>1 DEF KeepsOrder, WalkInv
  <2> QED
    BY <1>3, <2>1, <2>2, <2>4 DEF WalkInv, Others
<1>4. CASE UNCHANGED vars /\ (begin \/ Forward \/ Backward \/ UNCHANGED <<mCurrent, ahead>>)
  <2>1. ListInv' /\ Contents' = s
    <3>1. Holds(s)'
      BY <1>1, <1>4 DEF Holds, vars, listVars
    <3>2. Contents' = s
      BY <3>1, HoldsContentsNext
    <3>3. CallInv'
      BY <1>4 DEF ListInv, CallInv, StillSo, vars, listVars
    <3> QED
      BY <3>1, <3>2, <3>3 DEF ListInv
  <2>2. mCurrent' \in Nodes \cup {NULL} /\ \A y \in ahead' : Before(s, mCurrent', y)
    <3>1. CASE begin
      <4>1. mCurrent' = mHead /\ ahead' = listed \ {mHead}
        BY <3>1 DEF begin
      <4>2. ASSUME NEW y \in listed \ {mHead} PROVE Before(s, mHead, y)
        <5>1. PICK j \in 1 .. Len(s) : s[j] = y
          BY <1>2, <4>2, InSequence
        <5>2. 1 \in 1 .. Len(s) /\ mHead = s[1] /\ 1 < j
          BY <1>2, <4>2, <5>1 DEF At
        <5> QED
          BY <5>1, <5>2 DEF Before
      <4> QED
        BY <1>2, <4>1, <4>2, InSequence DEF At
    <3>2. CASE Forward
      <4>1. /\ mCurrent \in Nodes /\ mCurrent' = hook[mCurrent].next
            /\ ahead' = ahead \ {mCurrent'}
        BY <3>2 DEF Forward, WalkInv
      <4>2. mCurrent' \in Nodes \cup {NULL}
        BY <1>2, <4>1 DEF Hooks
      <4>3. ASSUME NEW y \in ahead' PROVE Before(s, mCurrent', y)
        <5>1. PICK i \in 1 .. Len(s), j \in 1 .. Len(s) : i < j /\ s[i] = mCurrent /\ s[j] = y
          BY <1>1, <4>1, <4>3 DEF WalkInv, Before
        <5>2. i + 1 \in 1 .. Len(s) /\ mCurrent' = s[i + 1]
          BY <1>2, <4>1, <5>1 DEF At
        <5>3. i + 1 # j
          BY <4>1, <4>3, <5>1, <5>2
        <5>4. i + 1 < j
          BY <1>2, <5>1, <5>3
        <5> QED
          BY <5>1, <5>2, <5>4 DEF Before
      <4> QED
        BY <4>2, <4>3
    <3>3. CASE Backward
      <4>1. /\ mCurrent \in Nodes /\ mCurrent' = hook[mCurrent].prev
            /\ ahead' = IF mCurrent' = NULL THEN {} ELSE ahead \cup {mCurrent}
        BY <3>3 DEF Backward, WalkInv
      <4>2. mCurrent' \in Nodes \cup {NULL}
        BY <1>2, <4>1 DEF Hooks
      <4>3. ASSUME NEW y \in ahead' PROVE Before(s, mCurrent', y)
        <5>1. mCurrent' # NULL /\ y \in ahead \cup {mCurrent} /\ mCurrent \in ToSet(s)
          BY <1>2, <4>1, <4>3
        <5>2. PICK i \in 1 .. Len(s) : s[i] = mCurrent
          BY <1>2, <5>1, InSequence
        <5>3. i - 1 \in 1 .. Len(s) /\ mCurrent' = s[i - 1]
          BY <1>2, <4>1, <5>1, <5>2 DEF At
        <5>4. PICK j \in 1 .. Len(s) : s[j] = y /\ i <= j
          <6>1. CASE y = mCurrent
            BY <1>2, <5>2, <6>1
          <6>2. CASE y # mCurrent
            <7>1. PICK k \in 1 .. Len(s), j \in 1 .. Len(s) : k < j /\ s[k] = mCurrent /\ s[j] = y
              BY <1>1, <5>1, <6>2 DEF WalkInv, Before
            <7>2. k = i
              BY <1>2, <5>2, <7>1 DEF Distinct
            <7> QED
              BY <1>2, <7>1, <7>2
          <6> QED
            BY <6>1, <6>2
        <5>5. i - 1 < j
          BY <1>2, <5>4
        <5> QED
          BY <5>3, <5>4, <5>5 DEF Before
      <4> QED
        BY <4>2, <4>3
    <3>4. CASE UNCHANGED <<mCurrent, ahead>>
      BY <1>1, <3>4 DEF WalkInv
    <3> QED
      BY <1>4, <3>1, <3>2, <3>3, <3>4
  <2> QED
    BY <2>1, <2>2 DEF WalkInv
<1> QED
  BY <1>3, <1>4 DEF WalkNext, walkVars, begin, Forward, Backward

\* An iterator changes nothing of the list: all that is proved of the threads alone
\* holds with one.
LEMMA WalkersUseTheList == WalkSpec => Spec
<1>1. WalkInit => Init
  BY DEF WalkInit
<1>2. [WalkNext]_walkVars => [Next]_vars
  BY DEF WalkNext, walkVars, begin, Forward, Backward, Others
<1> QED
  BY <1>1, <1>2, PTL DEF WalkSpec, Spec

\* An iterator whose node stays in the list still meets every node behind it that
\* stays as well, whatever is put in, popped and erased around it.
THEOREM IteratorMeetsAll == Exclusive => (WalkSpec => []WalkMeetsAll)
<1> SUFFICES ASSUME Exclusive PROVE WalkSpec => []WalkMeetsAll
  OBVIOUS
<1>1. WalkInit => ListInv /\ WalkInv
  BY InitHolds DEF WalkInit, WalkInv
<1>2. ListInv /\ WalkInv /\ [WalkNext]_walkVars => WalkInv' /\ ListInv'
  BY WalkStep
<1>3. ListInv /\ WalkInv => WalkMeetsAll
  BY IteratorIsInFront
<1> QED
  BY <1>1, <1>2, <1>3, PTL DEF WalkSpec
=============================================================================
