----------------------------- MODULE HashProofs -----------------------------
(***************************************************************************)
(* Proofs about HashEngines, for any programs, threads, CPUs, pieces and   *)
(* lengths: the features of the CPU (blake3_dispatch.c), the windows of    *)
(* CityHash, the XXHash64 object, BLAKE3's hashers and their digests, and  *)
(* the keys of the engines that share no static result.                    *)
(*                                                                         *)
(* Took says of an XXHash64 object that the blocks it has processed and    *)
(* what its buffer holds are together the bytes it was given.  add() keeps *)
(* it (AddTakes) and hash() eats from it what the reference eats of the    *)
(* whole input (HashIsWhole).  For each engine an invariant says what a    *)
(* thread in hash() has in hand and what its keys are of (EnginesInv).     *)
(*                                                                         *)
(* Fed says of a BLAKE3 hasher which bytes it has taken (After, in         *)
(* Blake3Proofs), and SoundHasher what follows for its lengths and its     *)
(* stack.  HashersInv, StreamInv and B3KeysInv say which bytes those are   *)
(* for the hashers of an engine and of a stream, and for keys.             *)
(***************************************************************************)
EXTENDS HashEngines, Blake3Proofs, SequenceTheorems, TLAPS

-----------------------------------------------------------------------------
\* The features of the CPU.

\* The steps that do not store the features, and all the steps that a thread
\* makes.
OtherSteps(t) ==
  \/ \E input \in program.inputs : MakeKey(t, input)
  \/ DummyHash(t) \/ Blake3Hash(t) \/ SHAHash(t) \/ XXHash(t) \/ CityHash(t)
  \/ \E how \in {"hash", "keyed", "derive"} : SetUp(t, how)
  \/ \E n \in Pieces : Update(t, n)
  \/ \E s \in Seeks : FinalizeSeek(t, s[1], s[2])
  \/ Reset(t)

\* They leave the features as they are.
LEMMA OthersStoreNothing ==
  ASSUME NEW t, OtherSteps(t)
  PROVE  UNCHANGED <<program, cpu, g_cpu_features, detecting>>
BY DEF OtherSteps, MakeKey, DummyHash, Blake3Hash, SHAHash, XXHash, CityHash, SetUp, Update,
   FinalizeSeek, Reset, chosen, features

\* The features are not stored yet, or they are those of the CPU.
FeaturesInv == g_cpu_features \in {UNDEFINED, DetectedFeatures(cpu)}

\* get_cpu_features(): however many threads detect the features at the same
\* time, and whoever stores them last, they are stored as a whole.
LEMMA FeaturesStep ==
  ASSUME FeaturesInv, [Next]_vars
  PROVE  FeaturesInv'
<1>1. CASE \E t \in program.threads : StoreFeatures(t)
  BY <1>1 DEF StoreFeatures, FeaturesInv, chosen
<1>2. CASE \E t \in program.threads : DetectFeatures(t)
  BY <1>2 DEF DetectFeatures, FeaturesInv, chosen
<1>3. CASE \E t \in program.threads : OtherSteps(t)
  BY <1>3, OthersStoreNothing DEF FeaturesInv
<1>4. CASE UNCHANGED vars
  BY <1>4 DEF FeaturesInv, vars, features, chosen
<1> QED
  BY <1>1, <1>2, <1>3, <1>4 DEF Next, OtherSteps

\* What each feature that is found says of the CPU and the system.
LEMMA DetectedIs ==
  ASSUME NEW c \in Cpus, NEW found, found = DetectedFeatures(c)
  PROVE  /\ \A f \in {"SSE2", "SSE41"} : f \in found => f \in c.leaf1
         /\ \A f \in {"AVX2", "AVX512F", "AVX512VL"} : f \in found =>
              /\ f \in c.leaf7 /\ c.max_id >= 7
              /\ "OSXSAVE" \in c.leaf1 /\ {"SSE", "AVX"} \subseteq c.xcr0
         /\ \A f \in {"AVX512F", "AVX512VL"} : f \in found => ZmmStates \subseteq c.xcr0
         /\ "AVX512VL" \in c.leaf7 => "AVX512F" \in c.leaf7
<1>1. c.leaf1 \subseteq {"SSE2", "SSSE3", "SSE41", "OSXSAVE", "AVX"}
      /\ c.leaf7 \subseteq {"AVX2", "AVX512F", "AVX512VL"}
      /\ ("AVX512VL" \in c.leaf7 => "AVX512F" \in c.leaf7)
  BY DEF Cpus
<1>2. \A f \in found :
        \/ f \in c.leaf1 /\ f \in {"SSE2", "SSSE3", "SSE41", "AVX"}
        \/ /\ f \in c.leaf7 /\ c.max_id >= 7
           /\ "OSXSAVE" \in c.leaf1 /\ {"SSE", "AVX"} \subseteq c.xcr0
           /\ f # "AVX2" => ZmmStates \subseteq c.xcr0
  BY DEF DetectedFeatures
<1> QED
  BY <1>1, <1>2

\* Both ways to choose an implementation come to one that the CPU can run.
LEMMA DetectedRuns ==
  ASSUME NEW c \in Cpus, NEW found, found = DetectedFeatures(c)
  PROVE  CanRun(c, HashManyBy(found)) /\ CanRun(c, CompressBy(found))
<1>1. CanRun(c, HashManyBy(found))
  <2>1. CASE HashManyBy(found) = "avx512"
    BY <2>1, DetectedIs DEF CanRun, HashManyBy
  <2>2. CASE HashManyBy(found) = "avx2"
    BY <2>2, DetectedIs DEF CanRun, HashManyBy
  <2>3. CASE HashManyBy(found) \in {"sse41", "sse2", "portable"}
    BY <2>3, DetectedIs DEF CanRun, HashManyBy
  <2> QED
    BY <2>1, <2>2, <2>3 DEF HashManyBy
<1>2. CanRun(c, CompressBy(found))
  <2>1. CASE CompressBy(found) = "avx512"
    BY <2>1, DetectedIs DEF CanRun, CompressBy
  <2>2. CASE CompressBy(found) \in {"sse41", "sse2", "portable"}
    BY <2>2, DetectedIs DEF CanRun, CompressBy
  <2> QED
    BY <2>1, <2>2 DEF CompressBy
<1> QED
  BY <1>1, <1>2

\* The program runs on one of its CPUs.
CpuInv == program \in Programs /\ cpu \in program.cpus

\* No step moves it to another.
LEMMA CpuStep ==
  ASSUME CpuInv, [Next]_vars
  PROVE  CpuInv'
<1>1. CASE \E t \in program.threads : DetectFeatures(t) \/ StoreFeatures(t)
  BY <1>1 DEF DetectFeatures, StoreFeatures, CpuInv, chosen
<1>2. CASE \E t \in program.threads : OtherSteps(t)
  BY <1>2, OthersStoreNothing DEF CpuInv
<1>3. CASE UNCHANGED vars
  BY <1>3 DEF CpuInv, vars, chosen
<1> QED
  BY <1>1, <1>2, <1>3 DEF Next, OtherSteps

\* blake3_dispatch.c: no hash_many() and no compress() is chosen, on any CPU and
\* under any system, that the CPU lacks or whose registers the system does not
\* save.
THEOREM NoIllegalInstruction == Spec => []OnlyWhatTheCpuRuns
<1>1. Init => FeaturesInv /\ CpuInv
  BY DEF Init, FeaturesInv, CpuInv
<1>2. FeaturesInv /\ CpuInv => OnlyWhatTheCpuRuns
  <2> SUFFICES ASSUME FeaturesInv, CpuInv, g_cpu_features # UNDEFINED
               PROVE  /\ CanRun(cpu, HashManyBy(g_cpu_features))
                      /\ CanRun(cpu, CompressBy(g_cpu_features))
    BY DEF OnlyWhatTheCpuRuns
  <2>1. cpu \in Cpus /\ g_cpu_features = DetectedFeatures(cpu)
    BY ProgramsAssumption DEF CpuInv, FeaturesInv
  <2> QED
    BY <2>1, DetectedRuns
<1> QED
  BY <1>1, <1>2, FeaturesStep, CpuStep, PTL DEF Spec

-----------------------------------------------------------------------------
\* The windows of CityHash.

-----------------------------------------------------------------------------
\* What CityHashCrc256 reads.

\* The windows, told from the quotient and the remainders.
LEMMA WindowsAre ==
  ASSUME NEW n \in Nat
  PROVE  \E w \in Nat, r \in 0 .. 39 :
           /\ n = 40 * w + r
           /\ ToSet(City!Windows(n)) =
                {40 * (k - 1) : k \in 1 .. w} \cup (IF r > 0 THEN {n - 40} ELSE {})
<1>1. PICK q \in Nat, a \in 0 .. 239 : q = n \div 240 /\ a = n % 240 /\ n = 240 * q + a
  BY SMT
<1>2. PICK s \in Nat, r \in 0 .. 39 : s = a \div 40 /\ r = a % 40 /\ a = 40 * s + r
  BY SMT
<1>3. PICK w \in Nat : w = 6 * q + s
  OBVIOUS
<1>4. n = 40 * w + r
  BY <1>1, <1>2, <1>3
<1> DEFINE front == [k \in 1 .. w |-> 40 * (k - 1)]
           last == IF r > 0 THEN <<n - 40>> ELSE <<>>
<1>5. City!Windows(n) = front \o last
  <2>1. 40 * (6 * (n \div 240) + ((n % 240) \div 40)) + ((n % 240) % 40) - 40 = n - 40
    BY <1>1, <1>2, <1>3, <1>4
  <2>2. City!Windows(n) =
          [k \in 1 .. 6 * (n \div 240) + ((n % 240) \div 40) |-> 40 * (k - 1)]
            \o (IF ((n % 240) % 40) > 0
                THEN <<40 * (6 * (n \div 240) + ((n % 240) \div 40)) + ((n % 240) % 40) - 40>>
                ELSE <<>>)
    BY DEF City!Windows
  <2> QED
    BY <1>1, <1>2, <1>3, <2>1, <2>2, ZenonT(60)
<1>6. front \in Seq(Int) /\ Len(front) = w /\ \A k \in 1 .. w : front[k] = 40 * (k - 1)
  BY SMT
<1>7. /\ last \in Seq(Int) /\ Len(last) = (IF r > 0 THEN 1 ELSE 0)
      /\ \A k \in 1 .. Len(last) : last[k] = n - 40
  BY SMT
<1> HIDE DEF front, last
<1>8. /\ DOMAIN (front \o last) = 1 .. w + Len(last)
      /\ \A k \in 1 .. w + Len(last) :
           (front \o last)[k] = IF k <= w THEN front[k] ELSE last[k - w]
  <2>1. /\ front \o last \in Seq(Int) /\ Len(front \o last) = Len(front) + Len(last)
        /\ \A k \in 1 .. Len(front) + Len(last) :
             (front \o last)[k] = IF k <= Len(front) THEN front[k] ELSE last[k - Len(front)]
    BY <1>6, <1>7, ConcatProperties, Zenon
  <2>2. DOMAIN (front \o last) = 1 .. Len(front \o last)
    BY <2>1
  <2> QED
    BY <1>6, <2>1, <2>2
<1>9. ToSet(front \o last) = {40 * (k - 1) : k \in 1 .. w} \cup (IF r > 0 THEN {n - 40} ELSE {})
  <2> DEFINE both == front \o last
  <2>1. DOMAIN both = 1 .. w + Len(last)
        /\ \A k \in 1 .. w + Len(last) : both[k] = IF k <= w THEN 40 * (k - 1) ELSE n - 40
    BY <1>6, <1>7, <1>8
  <2> HIDE DEF both
  <2>2. ASSUME NEW x \in ToSet(both)
        PROVE  x \in {40 * (k - 1) : k \in 1 .. w} \cup (IF r > 0 THEN {n - 40} ELSE {})
    <3>1. PICK k \in 1 .. w + Len(last) : x = both[k]
      BY <2>1, <2>2 DEF ToSet
    <3> QED
      BY <1>7, <2>1, <3>1
  <2>3. ASSUME NEW k \in 1 .. w PROVE 40 * (k - 1) \in ToSet(both)
    BY <1>7, <2>1 DEF ToSet
  <2>4. ASSUME r > 0 PROVE n - 40 \in ToSet(both)
    <3>1. w + 1 \in 1 .. w + Len(last) /\ both[w + 1] = n - 40
      BY <1>7, <2>1, <2>4
    <3> QED
      BY <2>1, <3>1 DEF ToSet
  <2>5. ToSet(both) = {40 * (k - 1) : k \in 1 .. w} \cup (IF r > 0 THEN {n - 40} ELSE {})
    BY <2>2, <2>3, <2>4
  <2> QED
    BY <2>5 DEF both
<1> QED
  BY <1>4, <1>5, <1>9

\* They cover the input and nothing else.
LEMMA WindowsCover ==
  ASSUME NEW n \in Nat, n >= 40
  PROVE  UNION {w .. w + 39 : w \in ToSet(City!Windows(n))} = 0 .. n - 1
<1>1. PICK last \in Nat, r \in 0 .. 39 :
        /\ n = 40 * last + r
        /\ ToSet(City!Windows(n)) =
             {40 * (k - 1) : k \in 1 .. last} \cup (IF r > 0 THEN {n - 40} ELSE {})
  BY WindowsAre
<1> DEFINE W == ToSet(City!Windows(n))
<1>2. ASSUME NEW w \in W PROVE w \in Int /\ w >= 0 /\ w + 39 <= n - 1
  BY <1>1
<1>3. ASSUME NEW i \in 0 .. n - 1 PROVE \E w \in W : i \in w .. w + 39
  <2>1. CASE i < 40 * last
    <3>1. PICK k \in 1 .. last : i \in 40 * (k - 1) .. 40 * (k - 1) + 39
      <4>1. PICK q \in Int, e \in 0 .. 39 : i = 40 * q + e
        <5>1. 40 \in Nat \ {0} /\ i \in Int
          OBVIOUS
        <5>2. PICK q \in Int : i = 40 * q + (i % 40) /\ (i % 40) \in 0 .. 40 - 1
          BY <5>1, Quotient
        <5> QED
          BY <5>2
      <4>2. q + 1 \in 1 .. last
        BY <2>1, <4>1
      <4>3. PICK k \in 1 .. last : k = q + 1
        BY <4>2
      <4>4. i \in 40 * (k - 1) .. 40 * (k - 1) + 39
        BY <4>1, <4>3
      <4> QED
        BY <4>4
    <3>2. 40 * (k - 1) \in W
      BY <1>1
    <3> QED
      BY <3>1, <3>2
  <2>2. CASE ~(i < 40 * last)
    <3>1. r > 0 /\ n - 40 \in W /\ i \in n - 40 .. n - 40 + 39
      BY <1>1, <2>2
    <3> QED
      BY <3>1
  <2> QED
    BY <2>1, <2>2
<1> HIDE DEF W
<1>4. UNION {w .. w + 39 : w \in W} = 0 .. n - 1
  BY <1>2, <1>3
<1> QED
  BY <1>4 DEF W

-----------------------------------------------------------------------------
\* The XXHash64 object: what hash() makes of it.

\* The part of a sequence from behind place `from' to place `to', and the
\* whole.
LEMMA PartIs ==
  ASSUME NEW S, NEW s \in Seq(S), NEW from \in Nat, NEW to \in Nat,
         from <= to, to <= Len(s)
  PROVE  /\ SubSeq(s, from + 1, to) = [i \in 1 .. to - from |-> s[from + i]]
         /\ SubSeq(s, from + 1, to) \in Seq(S)
         /\ Len(SubSeq(s, from + 1, to)) = to - from
<1>1. /\ SubSeq(s, from + 1, to) \in Seq(S)
      /\ Len(SubSeq(s, from + 1, to)) = to - from
      /\ \A i \in 1 .. to - from : SubSeq(s, from + 1, to)[i] = s[from + i]
  BY SMT
<1>2. SubSeq(s, from + 1, to) = [i \in 1 .. to - from |-> s[from + i]]
  BY <1>1, SMT
<1> QED
  BY <1>1, <1>2

\* What is left of a sequence behind place `from'.
LEMMA RestIs ==
  ASSUME NEW S, NEW s \in Seq(S), NEW from \in Nat, NEW n \in Nat, Len(s) = from + n
  PROVE  /\ SubSeq(s, from + 1, Len(s)) = [i \in 1 .. n |-> s[from + i]]
         /\ SubSeq(s, from + 1, Len(s)) \in Seq(S)
         /\ Len(SubSeq(s, from + 1, Len(s))) = n
<1>1. /\ SubSeq(s, from + 1, Len(s)) \in Seq(S)
      /\ Len(SubSeq(s, from + 1, Len(s))) = n
      /\ \A i \in 1 .. n : SubSeq(s, from + 1, Len(s))[i] = s[from + i]
  BY SMT
<1>2. SubSeq(s, from + 1, Len(s)) = [i \in 1 .. n |-> s[from + i]]
  BY <1>1, SMT
<1> QED
  BY <1>1, <1>2

\* From behind place `at' on, s has the first n elements of t.
Has(s, at, t, n) == \A i \in 1 .. n : s[at + i] = t[i]

\* Two sequences, one after the other.
LEMMA OneAfterAnother ==
  ASSUME NEW T, NEW p \in Nat, NEW q \in Nat, NEW F \in Seq(T), Len(F) = p + q,
         NEW f \in Seq(T), Len(f) = p, Has(F, 0, f, p),
         NEW g \in Seq(T), Len(g) = q, Has(F, p, g, q)
  PROVE  f \o g = F
<1>1. /\ f \o g \in Seq(T) /\ Len(f \o g) = p + q
      /\ \A k \in 1 .. p + q : (f \o g)[k] = IF k <= p THEN f[k] ELSE g[k - p]
  BY ConcatProperties, Zenon
<1>2. ASSUME NEW k \in 1 .. p + q
      PROVE  (f \o g)[k] = F[k]
  <2>1. CASE k <= p
    <3>1. k \in 1 .. p /\ 0 + k = k
      BY <2>1
    <3>2. F[k] = f[k]
      BY <3>1, Zenon DEF Has
    <3> QED
      BY <1>1, <2>1, <3>2
  <2>2. CASE ~(k <= p)
    <3>1. k - p \in 1 .. q /\ p + (k - p) = k
      BY <2>2
    <3>2. g[k - p] = F[p + (k - p)]
      BY <3>1, Zenon DEF Has
    <3> QED
      BY <1>1, <2>2, <3>1, <3>2
  <2> QED
    BY <2>1, <2>2
<1> QED
  BY <1>1, <1>2, SeqEqual

\* The words of a sequence.
LEMMA WordsAre ==
  ASSUME NEW S, NEW s \in Seq(S), NEW size \in {4, 8, 32}, NEW w \in Nat, NEW r \in 0 .. size - 1,
         Len(s) = size * w + r
  PROVE  /\ XX!Words(s, size) = [k \in 1 .. w |-> [i \in 1 .. size |-> s[size * (k - 1) + i]]]
         /\ Len(XX!Words(s, size)) = w
<1>1. Len(s) \div size = w
  <2>1. CASE size = 4
    BY <2>1
  <2>2. CASE size = 8
    BY <2>2
  <2>3. CASE size = 32
    BY <2>3
  <2> QED
    BY <2>1, <2>2, <2>3
<1>2. ASSUME NEW k \in 1 .. w
      PROVE  SubSeq(s, (k - 1) * size + 1, k * size) = [i \in 1 .. size |-> s[size * (k - 1) + i]]
  <2>1. PICK from \in Nat, to \in Nat :
          /\ from = (k - 1) * size /\ from = size * (k - 1) /\ to = k * size
          /\ to = from + size /\ from <= to /\ to <= Len(s)
    <3>1. CASE size = 4
      BY <3>1
    <3>2. CASE size = 8
      BY <3>2
    <3>3. CASE size = 32
      BY <3>3
    <3> QED
      BY <3>1, <3>2, <3>3
  <2>2. SubSeq(s, from + 1, to) = [i \in 1 .. to - from |-> s[from + i]]
    BY <2>1, PartIs
  <2>3. to - from = size
    BY <2>1
  <2> QED
    BY <2>1, <2>2, <2>3, Zenon
<1>3. XX!Words(s, size) =
        [k \in 1 .. Len(s) \div size |-> SubSeq(s, (k - 1) * size + 1, k * size)]
  BY DEF XX!Words
<1>4. XX!Words(s, size) = [k \in 1 .. w |-> [i \in 1 .. size |-> s[size * (k - 1) + i]]]
  BY <1>1, <1>2, <1>3, Zenon
<1> QED
  BY <1>4

\* The first k blocks of a sequence.
Blocks(s, k) == [b \in 1 .. k |-> [i \in 1 .. 32 |-> s[32 * (b - 1) + i]]]

\* The fields of an XXHash64 object.
IsObject(self, seed, blocks, buffer, size, n) ==
  self = [state |-> [seed |-> seed, blocks |-> blocks],
          buffer |-> buffer, bufferSize |-> size, totalLength |-> n]

\* The object has taken in `bytes', which are q blocks and r bytes more.
Took(self, S, seed, bytes, q, r) ==
  /\ bytes \in Seq(S) /\ q \in Nat /\ r \in 0 .. 31 /\ Len(bytes) = 32 * q + r
  /\ IsObject(self, seed, Blocks(bytes, q), self.buffer, r, 32 * q + r)
  /\ self.buffer \in Seq(S) /\ Len(self.buffer) = 32
  /\ \A i \in 1 .. r : self.buffer[i] = bytes[32 * q + i]

\* What remains is eaten as the reference says.
LEMMA HashIsWhole ==
  ASSUME NEW S, NEW seed, NEW self, NEW bytes, NEW q, NEW r, Took(self, S, seed, bytes, q, r)
  PROVE  XX!hash(self) = XX!Whole(seed, bytes)
<1>1. bytes \in Seq(S) /\ q \in Nat /\ r \in 0 .. 31 /\ Len(bytes) = 32 * q + r
  BY DEF Took
<1>0. /\ self.state.seed = seed
      /\ self.state.blocks = [b \in 1 .. q |-> [i \in 1 .. 32 |-> bytes[32 * (b - 1) + i]]]
      /\ self.bufferSize = r /\ self.totalLength = 32 * q + r
      /\ self.buffer \in Seq(S) /\ Len(self.buffer) = 32
      /\ \A i \in 1 .. r : self.buffer[i] = bytes[32 * q + i]
  <2> DEFINE blocks == Blocks(bytes, q)
             n == 32 * q + r
  <2>1. self = [state |-> [seed |-> seed, blocks |-> blocks],
                buffer |-> self.buffer, bufferSize |-> r, totalLength |-> n]
    BY Zenon DEF Took, IsObject
  <2>2. /\ self.buffer \in Seq(S) /\ Len(self.buffer) = 32
        /\ \A i \in 1 .. r : self.buffer[i] = bytes[32 * q + i]
    BY Zenon DEF Took
  <2> HIDE DEF blocks, n
  <2>3. /\ self.state.seed = seed /\ self.state.blocks = blocks
        /\ self.bufferSize = r /\ self.totalLength = n
    BY <2>1
  <2> QED
    BY <2>2, <2>3, Zenon DEF Blocks, blocks, n
<1>2. PICK e \in 0 .. 3, f \in 0 .. 1, one \in 0 .. 3 : r = 8 * e + 4 * f + one
  <2>1. PICK e \in 0 .. 3, x \in 0 .. 7 : r = 8 * e + x
    BY <1>1
  <2> QED
    BY <2>1
<1> DEFINE data == SubSeq(self.buffer, 1, self.bufferSize)
           eights == XX!Words(data, 8)
           rest == SubSeq(data, 8 * Len(eights) + 1, Len(data))
           fours == XX!Words(rest, 4)
           last == SubSeq(rest, 4 * Len(fours) + 1, Len(rest))
<1>3. XX!hash(self) = <<XX!Start(self), self.totalLength, eights, fours, last>>
  BY DEF XX!hash
<1> HIDE DEF eights, rest, fours, last
<1>4. /\ data \in Seq(S) /\ Len(data) = 8 * e + (4 * f + one)
      /\ data = [i \in 1 .. r |-> bytes[32 * q + i]]
  <2>1. 0 \in Nat /\ r \in Nat /\ 0 <= r /\ r <= 32 /\ 0 + 1 = 1 /\ r - 0 = r
    BY <1>1
  <2>2. /\ SubSeq(self.buffer, 0 + 1, r) = [i \in 1 .. r - 0 |-> self.buffer[0 + i]]
        /\ SubSeq(self.buffer, 0 + 1, r) \in Seq(S)
        /\ Len(SubSeq(self.buffer, 0 + 1, r)) = r - 0
    <3>1. self.buffer \in Seq(S) /\ r <= Len(self.buffer)
      BY <1>0, <2>1, Zenon
    <3> QED
      BY <2>1, <3>1, PartIs, ZenonT(60)
  <2>3. \A i \in 1 .. r : 0 + i = i
    BY <1>1
  <2>4. data = [i \in 1 .. r |-> self.buffer[i]]
    BY <1>0, <2>1, <2>2, <2>3, Zenon
  <2>5. data = [i \in 1 .. r |-> bytes[32 * q + i]]
    BY <1>0, <2>4, Zenon
  <2>6. r = 8 * e + (4 * f + one)
    BY <1>2
  <2> QED
    BY <1>0, <2>1, <2>2, <2>5, <2>6, Zenon
<1> HIDE DEF data
<1>5. /\ Len(eights) = e
      /\ eights = [k \in 1 .. e |-> [i \in 1 .. 8 |-> data[8 * (k - 1) + i]]]
  <2>1. PICK x \in 0 .. 8 - 1 : x = 4 * f + one
    BY <1>2
  <2>2. /\ data \in Seq(S) /\ e \in Nat /\ 8 \in {4, 8, 32} /\ x \in 0 .. 8 - 1
        /\ Len(data) = 8 * e + x
    BY <1>4, <2>1
  <2>3. /\ XX!Words(data, 8) = [k \in 1 .. e |-> [i \in 1 .. 8 |-> data[8 * (k - 1) + i]]]
        /\ Len(XX!Words(data, 8)) = e
    BY <2>2, WordsAre, ZenonT(60)
  <2> QED
    BY <2>3, Zenon DEF eights
<1>6. eights = [k \in 1 .. e |-> [i \in 1 .. 8 |-> bytes[32 * q + 8 * (k - 1) + i]]]
  <2>1. ASSUME NEW k \in 1 .. e, NEW i \in 1 .. 8
        PROVE  data[8 * (k - 1) + i] = bytes[32 * q + 8 * (k - 1) + i]
    <3>1. 8 * (k - 1) + i \in 1 .. r /\ 32 * q + (8 * (k - 1) + i) = 32 * q + 8 * (k - 1) + i
      BY <1>1, <1>2
    <3> QED
      BY <1>4, <3>1, Zenon
  <2> QED
    BY <1>5, <2>1, Zenon
<1>7. /\ rest \in Seq(S) /\ Len(rest) = 4 * f + one
      /\ rest = [i \in 1 .. 4 * f + one |-> data[8 * e + i]]
  <2>1. PICK from \in Nat, y \in Nat : from = 8 * e /\ y = 4 * f + one
    BY <1>2
  <2>2. data \in Seq(S) /\ Len(data) = from + y
    BY <1>4, <2>1, Zenon
  <2>3. /\ SubSeq(data, from + 1, Len(data)) = [i \in 1 .. y |-> data[from + i]]
        /\ SubSeq(data, from + 1, Len(data)) \in Seq(S)
        /\ Len(SubSeq(data, from + 1, Len(data))) = y
    BY <2>2, RestIs
  <2> QED
    BY <1>5, <2>1, <2>3, Zenon DEF rest
<1>8. /\ Len(fours) = f
      /\ fours = [k \in 1 .. f |-> [i \in 1 .. 4 |-> rest[4 * (k - 1) + i]]]
  <2>1. /\ rest \in Seq(S) /\ f \in Nat /\ one \in 0 .. 4 - 1 /\ 4 \in {4, 8, 32}
        /\ Len(rest) = 4 * f + one
    BY <1>7
  <2>2. /\ XX!Words(rest, 4) = [k \in 1 .. f |-> [i \in 1 .. 4 |-> rest[4 * (k - 1) + i]]]
        /\ Len(XX!Words(rest, 4)) = f
    BY <2>1, WordsAre, ZenonT(60)
  <2> QED
    BY <2>2, Zenon DEF fours
<1>9. last = [i \in 1 .. one |-> rest[4 * f + i]]
  <2>1. PICK from \in Nat : from = 4 * f
    BY <1>2
  <2>2. rest \in Seq(S) /\ Len(rest) = from + one /\ one \in Nat
    BY <1>7, <2>1
  <2>3. SubSeq(rest, from + 1, Len(rest)) = [i \in 1 .. one |-> rest[from + i]]
    BY <2>2, RestIs
  <2> QED
    BY <1>8, <2>1, <2>3, Zenon DEF last
<1>10. ASSUME NEW j \in 1 .. 4 * f + one
       PROVE  rest[j] = bytes[32 * q + 8 * e + j]
  <2>1. 8 * e + j \in 1 .. r /\ 32 * q + (8 * e + j) = 32 * q + 8 * e + j
    BY <1>1, <1>2
  <2> QED
    BY <1>4, <1>7, <2>1, Zenon
<1>11. last = [i \in 1 .. one |-> bytes[32 * q + 8 * e + 4 * f + i]]
  <2>1. ASSUME NEW i \in 1 .. one
        PROVE  rest[4 * f + i] = bytes[32 * q + 8 * e + 4 * f + i]
    <3>1. 4 * f + i \in 1 .. 4 * f + one
          /\ 32 * q + 8 * e + (4 * f + i) = 32 * q + 8 * e + 4 * f + i
      BY <1>1, <1>2
    <3> QED
      BY <1>10, <3>1, Zenon
  <2> QED
    BY <1>9, <2>1, Zenon
<1>12. fours = IF f = 0 THEN <<>> ELSE <<[i \in 1 .. 4 |-> bytes[32 * q + 8 * e + i]]>>
  <2>1. CASE f = 0
    BY <1>8, <2>1
  <2>2. CASE f = 1
    <3>1. 4 * (1 - 1) = 0
      OBVIOUS
    <3>2. ASSUME NEW i \in 1 .. 4
          PROVE  rest[4 * (1 - 1) + i] = bytes[32 * q + 8 * e + i]
      <4>1. i \in 1 .. 4 * f + one /\ 4 * (1 - 1) + i = i
        BY <1>2, <2>2
      <4> QED
        BY <1>10, <4>1, Zenon
    <3>3. fours = [k \in 1 .. 1 |-> [i \in 1 .. 4 |-> rest[4 * (k - 1) + i]]]
      BY <1>8, <2>2, Zenon
    <3>4. fours = <<[i \in 1 .. 4 |-> rest[4 * (1 - 1) + i]]>>
      BY <3>3
    <3>5. fours = <<[i \in 1 .. 4 |-> bytes[32 * q + 8 * e + i]]>>
      BY <3>2, <3>4, Zenon
    <3> QED
      BY <2>2, <3>5
  <2> QED
    BY <1>2, <2>1, <2>2
<1>13. XX!Start(self) = IF q = 0 THEN <<seed, <<>>>> ELSE <<seed, self.state.blocks, "folded">>
  <2>1. CASE q = 0
    <3>1. ~(self.totalLength >= XX!MaxBufferSize) /\ Len(self.state.blocks) = 0
      <4>1. ~(32 * q + r >= XX!MaxBufferSize)
        BY <1>1, <2>1 DEF XX!MaxBufferSize
      <4>2. \A s : s = [b \in 1 .. 0 |-> [i \in 1 .. 32 |-> bytes[32 * (b - 1) + i]]] => Len(s) = 0
        OBVIOUS
      <4> QED
        BY <1>0, <2>1, <4>1, <4>2, Zenon
    <3>2. XX!Start(self) =
            <<self.state.seed,
              [k \in 1 .. Len(self.state.blocks) |-> SubSeq(self.state.blocks[k], 17, 24)]>>
      BY <3>1, Zenon DEF XX!Start, XX!ThirdLane
    <3> QED
      BY <1>0, <2>1, <3>1, <3>2
  <2>2. CASE q # 0
    <3>1. self.totalLength >= XX!MaxBufferSize
      BY <1>0, <1>1, <2>2 DEF XX!MaxBufferSize
    <3> QED
      BY <1>0, <2>2, <3>1, Zenon DEF XX!Start
  <2> QED
    BY <2>1, <2>2
<1>14. PICK n \in Nat : n = Len(bytes) /\ n = 32 * q + r
  BY <1>1
<1>15. /\ n \div 32 = q /\ n % 32 = r /\ (n % 32) \div 8 = e
       /\ n - (n % 8) = 32 * q + 8 * e /\ n - (n % 4) = 32 * q + 8 * e + 4 * f
  <2>1. n \div 32 = q /\ n % 32 = r
    BY <1>1, <1>14
  <2>2. r \div 8 = e
    BY <1>2
  <2>3. n % 8 = 4 * f + one
    BY <1>1, <1>2, <1>14
  <2>4. n % 4 = one
    BY <1>1, <1>2, <1>14
  <2> QED
    BY <1>1, <1>2, <1>14, <2>1, <2>2, <2>3, <2>4
<1> DEFINE Part(from, to) == [i \in 1 .. to - from |-> bytes[from + i]]
           four == n - (n % 8)
           to4 == n - (n % 4)
<1>16. XX!Whole(seed, bytes) =
         <<IF n \div 32 = 0 THEN <<seed, <<>>>>
           ELSE <<seed, [b \in 1 .. n \div 32 |-> Part(32 * (b - 1), 32 * b)], "folded">>,
           n,
           [w \in 1 .. (n % 32) \div 8 |->
              Part(32 * (n \div 32) + 8 * (w - 1), 32 * (n \div 32) + 8 * w)],
           IF to4 = four THEN <<>> ELSE <<Part(four, to4)>>,
           Part(to4, n)>>
  <2>1. XX!MaxBufferSize = 32
    BY DEF XX!MaxBufferSize
  <2> QED
    BY <1>14, <2>1, Zenon DEF XX!Whole
<1>17. [b \in 1 .. q |-> Part(32 * (b - 1), 32 * b)] = self.state.blocks
  <2>1. ASSUME NEW b \in 1 .. q PROVE 32 * b - 32 * (b - 1) = 32
    BY <1>1
  <2> QED
    BY <1>0, <2>1, Zenon
<1>18. [w \in 1 .. e |-> Part(32 * q + 8 * (w - 1), 32 * q + 8 * w)] = eights
  <2>1. ASSUME NEW w \in 1 .. e
        PROVE  (32 * q + 8 * w) - (32 * q + 8 * (w - 1)) = 8
    BY <1>1
  <2>2. ASSUME NEW w \in 1 .. e
        PROVE  Part(32 * q + 8 * (w - 1), 32 * q + 8 * w)
                 = [i \in 1 .. 8 |-> bytes[32 * q + 8 * (w - 1) + i]]
    <3>1. PICK from, to : from = 32 * q + 8 * (w - 1) /\ to = 32 * q + 8 * w /\ to - from = 8
      BY <2>1
    <3>2. Part(from, to) = [i \in 1 .. 8 |-> bytes[from + i]]
      BY <3>1, Zenon
    <3> QED
      BY <3>1, <3>2, Zenon
  <2> QED
    BY <1>6, <2>2, Zenon
<1>19. (IF to4 = four THEN <<>> ELSE <<Part(four, to4)>>) = fours
  <2>1. to4 = four <=> f = 0
    BY <1>1, <1>15
  <2>2. CASE f = 0
    BY <1>12, <2>1, <2>2
  <2>3. CASE f # 0
    <3>1. to4 - four = 4
      BY <1>1, <1>15, <2>3
    <3> QED
      BY <1>12, <1>15, <2>1, <2>3, <3>1, Zenon
  <2> QED
    BY <2>2, <2>3
<1>20. Part(to4, n) = last
  <2>1. n - to4 = one
    BY <1>1, <1>2, <1>14, <1>15
  <2> QED
    BY <1>11, <1>15, <2>1, Zenon
<1> HIDE DEF Part, four, to4
<1>21. /\ self.totalLength = n /\ n = 32 * q + r
       /\ n \div 32 = q /\ (n % 32) \div 8 = e
  BY <1>0, <1>14, <1>15, Zenon
<1>22. XX!Whole(seed, bytes) =
         <<IF q = 0 THEN <<seed, <<>>>>
           ELSE <<seed, [b \in 1 .. q |-> Part(32 * (b - 1), 32 * b)], "folded">>,
           n,
           [w \in 1 .. e |-> Part(32 * q + 8 * (w - 1), 32 * q + 8 * w)],
           IF to4 = four THEN <<>> ELSE <<Part(four, to4)>>,
           Part(to4, n)>>
  BY <1>16, <1>21, Zenon
<1>23. XX!Whole(seed, bytes) = <<XX!Start(self), n, eights, fours, last>>
  BY <1>13, <1>17, <1>18, <1>19, <1>20, <1>22, Zenon
<1> QED
  BY <1>3, <1>21, <1>23, Zenon

-----------------------------------------------------------------------------
\* The XXHash64 object: what add() makes of it.

\* Blocks of a sequence over S are functions into S, as many as were asked for.
LEMMA BlocksAre ==
  ASSUME NEW S, NEW s \in Seq(S), NEW k \in Nat, 32 * k <= Len(s)
  PROVE  /\ Blocks(s, k) \in Seq([1 .. 32 -> S]) /\ Len(Blocks(s, k)) = k
<1>1. ASSUME NEW b \in 1 .. k
      PROVE  [i \in 1 .. 32 |-> s[32 * (b - 1) + i]] \in [1 .. 32 -> S]
  <2>1. ASSUME NEW i \in 1 .. 32 PROVE s[32 * (b - 1) + i] \in S
    <3>1. 32 * (b - 1) + i \in 1 .. Len(s)
      OBVIOUS
    <3> QED
      BY <3>1
  <2> QED
    BY <2>1
<1> DEFINE block(b) == [i \in 1 .. 32 |-> s[32 * (b - 1) + i]]
<1>2. Blocks(s, k) = [b \in 1 .. k |-> block(b)]
  BY DEF Blocks
<1>3. \A b \in 1 .. k : block(b) \in [1 .. 32 -> S]
  BY <1>1
<1> HIDE DEF block
<1>4. /\ Blocks(s, k) \in Seq([1 .. 32 -> S]) /\ Len(Blocks(s, k)) = k
  BY <1>2, <1>3
<1> QED
  BY <1>4

\* The buffer, from place `at' on, holds what is stored.
LEMMA StoredIs ==
  ASSUME NEW B, NEW buffer \in Seq(B), Len(buffer) = 32, NEW at \in 0 .. 32,
         NEW piece \in Seq(B), NEW n \in Nat, Len(piece) = n, at + n <= 32
  PROVE  /\ XX!Stored(buffer, at, piece) \in Seq(B) /\ Len(XX!Stored(buffer, at, piece)) = 32
         /\ Has(XX!Stored(buffer, at, piece), 0, buffer, at)
         /\ Has(XX!Stored(buffer, at, piece), at, piece, n)
<1> DEFINE place(i) == IF i > at /\ i <= at + n THEN piece[i - at] ELSE buffer[i]
<1>1. XX!Stored(buffer, at, piece) = [i \in 1 .. 32 |-> place(i)]
  <2>1. XX!MaxBufferSize = 32
    BY DEF XX!MaxBufferSize
  <2> QED
    BY <2>1, Zenon DEF XX!Stored
<1>2. \A i \in 1 .. 32 : place(i) \in B
  <2>1. ASSUME NEW i \in 1 .. 32, i > at, i <= at + n PROVE piece[i - at] \in B
    <3>1. i - at \in 1 .. Len(piece)
      BY <2>1
    <3> QED
      BY <3>1
  <2>2. ASSUME NEW i \in 1 .. 32 PROVE buffer[i] \in B
    <3>1. i \in 1 .. Len(buffer)
      BY Zenon
    <3> QED
      BY <3>1, ElementOfSeq
  <2> QED
    BY <2>1, <2>2
<1>3. \A i \in 1 .. at : i \in 1 .. 32 /\ place(i) = buffer[i]
  OBVIOUS
<1>4. \A i \in 1 .. n : at + i \in 1 .. 32 /\ place(at + i) = piece[i]
  <2>1. ASSUME NEW i \in 1 .. n
        PROVE  at + i \in 1 .. 32 /\ at + i > at /\ at + i <= at + n /\ (at + i) - at = i
    OBVIOUS
  <2> QED
    BY <2>1
<1> HIDE DEF place
<1>5. PICK stored : stored = XX!Stored(buffer, at, piece)
  OBVIOUS
<1>6. stored \in Seq(B) /\ Len(stored) = 32
  BY <1>1, <1>2, <1>5
<1>7. \A i \in 1 .. 32 : stored[i] = place(i)
  BY <1>1, <1>5, Zenon
<1>8. \A i \in 1 .. at : stored[i] = buffer[i]
  BY <1>3, <1>7, Zenon
<1>9. \A i \in 1 .. n : stored[at + i] = piece[i]
  BY <1>4, <1>7, Zenon
<1>10. \A i \in 1 .. at : 0 + i = i
  OBVIOUS
<1>11. Has(stored, 0, buffer, at)
  BY <1>8, <1>10, Zenon DEF Has
<1>12. Has(stored, at, piece, n)
  BY <1>9, Zenon DEF Has
<1> QED
  BY <1>5, <1>6, <1>11, <1>12, Zenon

\* The object, field by field.
LEMMA ObjectIs ==
  ASSUME NEW s, NEW b, NEW r, NEW n
  PROVE  [state |-> s, buffer |-> b, bufferSize |-> r, totalLength |-> n]
           = [f \in {"state", "buffer", "bufferSize", "totalLength"} |->
                IF f = "state" THEN s ELSE IF f = "buffer" THEN b
                ELSE IF f = "bufferSize" THEN r ELSE n]
OBVIOUS

\* What the two assignments of add() make of an object.
LEMMA ObjectChanged ==
  ASSUME NEW seed, NEW bl, NEW b, NEW r, NEW n, NEW self, NEW bl2, NEW b2, NEW r2, NEW n2,
         IsObject(self, seed, bl, b, r, n)
  PROVE  /\ IsObject([self EXCEPT !.totalLength = n2, !.buffer = b2, !.bufferSize = r2],
                     seed, bl, b2, r2, n2)
         /\ IsObject([self EXCEPT !.totalLength = n2, !.state.blocks = bl2, !.buffer = b2,
                                  !.bufferSize = r2],
                     seed, bl2, b2, r2, n2)
<1> DEFINE fields(s) == [f \in {"state", "buffer", "bufferSize", "totalLength"} |->
                           IF f = "state" THEN s ELSE IF f = "buffer" THEN b2
                           ELSE IF f = "bufferSize" THEN r2 ELSE n2]
<1>1. /\ DOMAIN self = {"state", "buffer", "bufferSize", "totalLength"}
      /\ self.state = [seed |-> seed, blocks |-> bl]
  BY DEF IsObject
<1>2. [self EXCEPT !.totalLength = n2, !.buffer = b2, !.bufferSize = r2] = fields(self.state)
  <2>1. ASSUME DOMAIN self = {"state", "buffer", "bufferSize", "totalLength"}
        PROVE  [self EXCEPT !.totalLength = n2, !.buffer = b2, !.bufferSize = r2] = fields(self.state)
    BY ONLY <2>1
  <2> QED
    BY <1>1, <2>1, Zenon
<1>3. [self.state EXCEPT !.blocks = bl2] = [seed |-> seed, blocks |-> bl2]
  <2>1. [self.state EXCEPT !.blocks = bl2]
          = [f \in {"seed", "blocks"} |-> IF f = "seed" THEN seed ELSE bl2]
    BY <1>1
  <2>2. [seed |-> seed, blocks |-> bl2]
          = [f \in {"seed", "blocks"} |-> IF f = "seed" THEN seed ELSE bl2]
    OBVIOUS
  <2> QED
    BY <2>1, <2>2, Zenon
<1>4. [self EXCEPT !.totalLength = n2, !.state.blocks = bl2, !.buffer = b2, !.bufferSize = r2]
        = fields([seed |-> seed, blocks |-> bl2])
  BY <1>1, <1>3
<1>5. [state |-> self.state, buffer |-> b2, bufferSize |-> r2, totalLength |-> n2] = fields(self.state)
  BY ONLY ObjectIs, SMT
<1>6. [state |-> [seed |-> seed, blocks |-> bl2],
       buffer |-> b2, bufferSize |-> r2, totalLength |-> n2] = fields([seed |-> seed, blocks |-> bl2])
  BY ONLY ObjectIs, SMT
<1> HIDE DEF fields
<1> QED
  BY <1>1, <1>2, <1>4, <1>5, <1>6, Zenon DEF IsObject

\* What of an input that does not fit goes into the buffer, and what remains.
Divides(q, r, l) ==
  \E take \in 0 .. 31, p \in Nat, k \in Nat, left \in 0 .. 31 :
    /\ \/ take > 0 /\ r + take = 32 /\ p = q + 1
       \/ take = 0 /\ r = 0 /\ p = q
    /\ 32 * q + r + take = 32 * p
    /\ l = take + (32 * k + left)

\* Every such input divides in that way.
LEMMA Room ==
  ASSUME NEW q \in Nat, NEW r \in 0 .. 31, NEW l \in Nat, ~(r + l < 32)
  PROVE  Divides(q, r, l)
<1>1. PICK take \in 0 .. 31, p \in Nat :
        \/ take > 0 /\ r + take = 32 /\ p = q + 1
        \/ take = 0 /\ r = 0 /\ p = q
  <2>1. CASE r > 0
    <3>1. 32 - r \in 0 .. 31 /\ 32 - r > 0 /\ r + (32 - r) = 32 /\ q + 1 \in Nat
      BY <2>1
    <3> QED
      BY <2>1, <3>1, Zenon
  <2>2. CASE ~(r > 0)
    <3>1. r = 0
      BY <2>2
    <3> QED
      BY <3>1
  <2> QED
    BY <2>1, <2>2
<1>2. 32 * q + r + take = 32 * p /\ take <= l
  <2>1. CASE take > 0 /\ r + take = 32 /\ p = q + 1
    BY <2>1
  <2>2. CASE take = 0 /\ r = 0 /\ p = q
    BY <2>2
  <2> QED
    BY <1>1, <2>1, <2>2, Zenon
<1>3. PICK y \in Nat : l = take + y
  <2>1. l - take \in Nat /\ l = take + (l - take)
    BY <1>2
  <2> QED
    BY <2>1, Zenon
<1>4. PICK k \in Nat, left \in 0 .. 31 : y = 32 * k + left
  <2>1. 32 \in Nat \ {0} /\ y \in Int
    OBVIOUS
  <2>2. PICK k \in Int : y = 32 * k + (y % 32) /\ (y % 32) \in 0 .. 32 - 1
    BY <2>1, Quotient
  <2>3. PICK left \in 0 .. 31 : left = y % 32
    BY <2>2
  <2>4. k \in Nat
    BY <2>2, <2>3
  <2> QED
    BY <2>2, <2>3, <2>4, Zenon
<1> QED
  BY <1>1, <1>2, <1>3, <1>4, Zenon DEF Divides

\* add(): whatever the buffer holds and however long the input is, what the
\* object has taken in afterwards is what it had and then the input.
LEMMA AddTakes ==
  ASSUME NEW S, NEW seed, NEW self, NEW bytes, NEW q, NEW r, Took(self, S, seed, bytes, q, r),
         NEW input \in Seq(S)
  PROVE  \E q2, r2 : Took(XX!add(self, input), S, seed, bytes \o input, q2, r2)
<1>0. bytes \in Seq(S) /\ Len(bytes) = 32 * q + r
  BY DEF Took
<1>1. q \in Nat /\ r \in 0 .. 31
  BY DEF Took
<1>2. PICK n \in Nat : n = 32 * q + r
  BY <1>1
<1> PICK blocks, buffer : blocks = Blocks(bytes, q) /\ buffer = self.buffer
  OBVIOUS
<1>3. /\ blocks = Blocks(bytes, q)
      /\ IsObject(self, seed, blocks, buffer, r, n)
      /\ buffer \in Seq(S) /\ Len(buffer) = 32
      /\ \A i \in 1 .. r : buffer[i] = bytes[32 * q + i]
  BY <1>2, Zenon DEF Took
<1>4. /\ self.bufferSize = r /\ self.buffer = buffer /\ self.totalLength = n
      /\ self.state = [seed |-> seed, blocks |-> blocks]
  BY <1>3 DEF IsObject
<1>5. PICK l \in Nat : l = Len(input)
  BY LenProperties
<1>6. PICK all : all = bytes \o input
  OBVIOUS
<1>7. /\ all \in Seq(S) /\ Len(all) = n + l
      /\ \A i \in 1 .. n : all[i] = bytes[i]
      /\ \A i \in 1 .. l : all[n + i] = input[i]
  <2>1. /\ all \in Seq(S) /\ Len(all) = Len(bytes) + Len(input)
        /\ \A i \in 1 .. Len(bytes) + Len(input) :
             all[i] = IF i <= Len(bytes) THEN bytes[i] ELSE input[i - Len(bytes)]
    BY <1>0, <1>6, ConcatProperties, Zenon
  <2>2. Len(bytes) = n
    BY <1>0, <1>2
  <2>3. all \in Seq(S) /\ Len(all) = n + l
    BY <1>5, <2>1, <2>2, Zenon
  <2>4. \A i \in 1 .. n + l : all[i] = IF i <= n THEN bytes[i] ELSE input[i - n]
    BY <1>5, <2>1, <2>2, Zenon
  <2>5. \A i \in 1 .. n : i \in 1 .. n + l /\ i <= n
    OBVIOUS
  <2>0. \A i \in 1 .. l : n + i \in 1 .. n + l /\ ~(n + i <= n) /\ (n + i) - n = i
    OBVIOUS
  <2>7. \A i \in 1 .. n : all[i] = bytes[i]
    BY <2>4, <2>5, Zenon
  <2>8. \A i \in 1 .. l : all[n + i] = input[i]
    BY <2>4, <2>0, Zenon
  <2> QED
    BY <2>3, <2>7, <2>8
\* The blocks so far are also those of the whole, as is what the buffer holds.
<1>8. blocks = Blocks(all, q)
  <2>1. ASSUME NEW b \in 1 .. q, NEW i \in 1 .. 32
        PROVE  bytes[32 * (b - 1) + i] = all[32 * (b - 1) + i]
    <3>1. 32 * (b - 1) + i \in 1 .. n
      BY <1>1, <1>2
    <3> QED
      BY <1>7, <3>1, Zenon
  <2> QED
    BY <1>3, <2>1, Zenon DEF Blocks
<1>9. \A i \in 1 .. r : buffer[i] = all[32 * q + i]
  <2>1. \A i \in 1 .. r : 32 * q + i \in 1 .. n
    BY <1>1, <1>2
  <2> QED
    BY <1>3, <1>7, <2>1, Zenon
<1>10. XX!MaxBufferSize = 32
  BY DEF XX!MaxBufferSize
<1>11. CASE input = <<>>
  <2>1. XX!add(self, input) = self
    BY <1>11, Zenon DEF XX!add
  <2>2. bytes \o input = bytes
    BY <1>0, <1>11, ConcatEmptySeq
  <2> QED
    BY <2>1, <2>2, Zenon
<1>12. CASE input # <<>> /\ r + l < 32
  <2>0. r + l \in 0 .. 31 /\ n + l = 32 * q + (r + l) /\ r \in 0 .. 32 /\ r + l <= 32
    BY <1>1, <1>2, <1>12
  <2>1. PICK stored : stored = XX!Stored(buffer, r, input)
    OBVIOUS
  <2>2. XX!add(self, input) = [self EXCEPT !.totalLength = @ + l, !.buffer = stored, !.bufferSize = @ + l]
    BY <1>4, <1>5, <1>10, <1>12, <2>1, Zenon DEF XX!add
  <2>3. IsObject(XX!add(self, input), seed, blocks, stored, r + l, n + l)
    <3>1. IsObject([self EXCEPT !.totalLength = n + l, !.buffer = stored, !.bufferSize = r + l],
                   seed, blocks, stored, r + l, n + l)
      BY <1>3, ObjectChanged, Zenon
    <3> QED
      BY <1>4, <2>2, <3>1, Zenon
  <2>4. /\ stored \in Seq(S) /\ Len(stored) = 32
        /\ \A i \in 1 .. r : stored[i] = buffer[i]
        /\ \A i \in 1 .. l : stored[r + i] = input[i]
    <3>1. /\ buffer \in Seq(S) /\ Len(buffer) = 32 /\ r \in 0 .. 32
          /\ input \in Seq(S) /\ l \in Nat /\ Len(input) = l /\ r + l <= 32
      BY <1>3, <1>5, <2>0, Zenon
    <3>2. /\ XX!Stored(buffer, r, input) \in Seq(S) /\ Len(XX!Stored(buffer, r, input)) = 32
          /\ Has(XX!Stored(buffer, r, input), 0, buffer, r)
          /\ Has(XX!Stored(buffer, r, input), r, input, l)
      BY <3>1, StoredIs, Zenon
    <3>3. \A i \in 1 .. r : 0 + i = i
      BY <1>1
    <3> QED
      BY <2>1, <3>2, <3>3, Zenon DEF Has
  <2>5. ASSUME NEW i \in 1 .. r + l
        PROVE  stored[i] = all[32 * q + i]
    <3>1. CASE i \in 1 .. r
      BY <1>9, <2>4, <3>1, Zenon
    <3>2. CASE i \notin 1 .. r
      <4>1. PICK j \in 1 .. l : i = r + j /\ 32 * q + i = n + j
        <5>1. i - r \in 1 .. l /\ i = r + (i - r) /\ 32 * q + i = n + (i - r)
          BY <1>1, <1>2, <3>2
        <5> QED
          BY <5>1, Zenon
      <4>2. stored[i] = input[j] /\ all[32 * q + i] = input[j]
        BY <1>7, <2>4, <4>1, Zenon
      <4> QED
        BY <4>2
    <3> QED
      BY <3>1, <3>2
  <2>7. Took(XX!add(self, input), S, seed, all, q, r + l)
    <3>1. PICK new : new = XX!add(self, input)
      OBVIOUS
    <3>2. new.buffer = stored
      BY <2>3, <3>1 DEF IsObject
    <3>3. IsObject(new, seed, Blocks(all, q), new.buffer, r + l, 32 * q + (r + l))
      BY <1>8, <2>3, <2>0, <3>1, <3>2, Zenon
    <3> QED
      BY <1>1, <1>7, <2>0, <2>4, <2>5, <3>1, <3>2, <3>3, Zenon DEF Took
  <2> QED
    BY <1>6, <2>7, Zenon
<1>13. CASE input # <<>> /\ ~(r + l < 32)
  \* What goes into the buffer first, and what remains then.
  <2>0. q \in Nat /\ r \in 0 .. 31 /\ ~(r + l < 32)
    BY <1>1, <1>13
  <2>1. PICK take \in 0 .. 31, p \in Nat, k \in Nat, left \in 0 .. 31 :
          /\ \/ take > 0 /\ r + take = 32 /\ p = q + 1
             \/ take = 0 /\ r = 0 /\ p = q
          /\ 32 * q + r + take = 32 * p
          /\ l = take + (32 * k + left)
    <3>1. Divides(q, r, l)
      BY ONLY <2>0, Room, l \in Nat, Zenon
    <3> QED
      BY <3>1, Zenon DEF Divides
  <2>2. /\ n + take = 32 * p /\ take <= l /\ l - take = 32 * k + left /\ r + take <= 32
        /\ n + l = 32 * (p + k) + left
    <3>1. n + take = 32 * p /\ l = take + (32 * k + left)
      BY <1>2, <2>1, Zenon
    <3>2. r + take <= 32
      BY <1>1, <2>1
    <3> QED
      BY <3>1, <3>2
  <2>3. PICK first, full, rest, last, new :
          /\ first = SubSeq(input, 1, take)
          /\ full = XX!Stored(buffer, r, first)
          /\ rest = SubSeq(input, take + 1, Len(input))
          /\ last = SubSeq(rest, Len(rest) - left + 1, Len(rest))
          /\ new = blocks \o (IF take > 0 THEN <<full>> ELSE <<>>) \o XX!Words(rest, 32)
    OBVIOUS
  <2>4. /\ first \in Seq(S) /\ Len(first) = take
        /\ Has(first, 0, input, take)
    <3>1. 0 \in Nat /\ take \in Nat /\ 0 <= take /\ take <= Len(input) /\ 0 + 1 = 1 /\ take - 0 = take
      BY <1>5, <2>1
    <3>2. /\ SubSeq(input, 0 + 1, take) = [i \in 1 .. take - 0 |-> input[0 + i]]
          /\ SubSeq(input, 0 + 1, take) \in Seq(S)
          /\ Len(SubSeq(input, 0 + 1, take)) = take - 0
      BY <3>1, PartIs, ZenonT(60)
    <3>3. \A i \in 1 .. take : 0 + i = i
      BY <2>1
    <3> QED
      BY <2>3, <3>1, <3>2, <3>3, Zenon DEF Has
  <2>5. /\ rest \in Seq(S) /\ Len(rest) = 32 * k + left
        /\ rest = [i \in 1 .. 32 * k + left |-> input[take + i]]
    <3>1. PICK y \in Nat : y = 32 * k + left /\ l = take + y
      BY <2>1, <2>2
    <3>2. take \in Nat
      BY <2>1
    <3>3. /\ SubSeq(input, take + 1, Len(input)) = [i \in 1 .. y |-> input[take + i]]
          /\ SubSeq(input, take + 1, Len(input)) \in Seq(S)
          /\ Len(SubSeq(input, take + 1, Len(input))) = y
      <4>1. input \in Seq(S) /\ Len(input) = take + y
        BY <1>5, <3>1, Zenon
      <4> QED
        BY <3>2, <4>1, RestIs
    <3> QED
      BY <2>3, <3>1, <3>3, Zenon
  <2>6. \A i \in 1 .. 32 * k + left : rest[i] = all[32 * p + i]
    <3>1. ASSUME NEW i \in 1 .. 32 * k + left
          PROVE  take + i \in 1 .. l /\ n + (take + i) = 32 * p + i
      BY <2>2
    <3> QED
      BY <1>7, <2>5, <3>1, Zenon
  <2>7. /\ full \in Seq(S) /\ Len(full) = 32
        /\ Has(full, 0, buffer, r) /\ Has(full, r, first, take)
    <3>1. r \in 0 .. 32 /\ take \in Nat /\ r + take <= 32
      BY <1>1, <2>1
    <3> QED
      BY <1>3, <2>3, <2>4, <3>1, StoredIs, Zenon
  <2>8. ASSUME take > 0
        PROVE  full = [i \in 1 .. 32 |-> all[32 * q + i]]
    <3>1. ASSUME NEW i \in 1 .. 32
          PROVE  full[i] = all[32 * q + i]
      <4>1. CASE i \in 1 .. r
        <5>1. 0 + i = i
          OBVIOUS
        <5> QED
          BY <1>9, <2>7, <4>1, <5>1, Zenon DEF Has
      <4>2. CASE i \notin 1 .. r
        <5>1. i - r \in 1 .. take /\ i - r \in 1 .. l /\ 0 + (i - r) = i - r
              /\ r + (i - r) = i /\ n + (i - r) = 32 * q + i
          BY <1>1, <1>2, <2>1, <2>8, <4>2
        <5>2. PICK j : j = i - r
          OBVIOUS
        <5>3. full[i] = first[j] /\ first[j] = input[j]
          BY <2>4, <2>7, <5>1, <5>2, Zenon DEF Has
        <5>4. all[32 * q + i] = input[j]
          BY <1>7, <5>1, <5>2, Zenon
        <5> QED
          BY <5>3, <5>4
      <4> QED
        BY <4>1, <4>2
    <3>2. full = [i \in 1 .. 32 |-> full[i]]
      BY <2>7
    <3> QED
      BY <3>1, <3>2, Zenon
  <2>9. /\ XX!Words(rest, 32) = [b \in 1 .. k |-> [i \in 1 .. 32 |-> all[32 * ((p + b) - 1) + i]]]
        /\ Len(XX!Words(rest, 32)) = k
    <3>1. /\ rest \in Seq(S) /\ 32 \in {4, 8, 32} /\ k \in Nat /\ left \in 0 .. 32 - 1
          /\ Len(rest) = 32 * k + left
      BY <2>5
    <3>2. /\ XX!Words(rest, 32) = [b \in 1 .. k |-> [i \in 1 .. 32 |-> rest[32 * (b - 1) + i]]]
          /\ Len(XX!Words(rest, 32)) = k
      BY <3>1, WordsAre, ZenonT(60)
    <3>3. ASSUME NEW b \in 1 .. k, NEW i \in 1 .. 32
          PROVE  rest[32 * (b - 1) + i] = all[32 * ((p + b) - 1) + i]
      <4>1. 32 * (b - 1) + i \in 1 .. 32 * k + left
            /\ 32 * p + (32 * (b - 1) + i) = 32 * ((p + b) - 1) + i
        BY <2>1, <2>2
      <4> QED
        BY <2>6, <4>1, Zenon
    <3> QED
      BY <3>2, <3>3, ZenonT(60)
  <2> DEFINE T == [1 .. 32 -> S]
  <2>10. p + k \in Nat /\ 32 * (p + k) <= n + l /\ 32 * p <= n + l /\ 32 * q <= n + l
         /\ n + l = 32 * (p + k) + left
    BY <1>1, <1>2, <2>1, <2>2
  <2>11. /\ Blocks(all, q) \in Seq(T) /\ Len(Blocks(all, q)) = q
         /\ Blocks(all, p) \in Seq(T) /\ Len(Blocks(all, p)) = p
         /\ Blocks(all, p + k) \in Seq(T) /\ Len(Blocks(all, p + k)) = p + k
    <3>1. /\ q \in Nat /\ 32 * q <= Len(all)
          /\ p \in Nat /\ 32 * p <= Len(all)
          /\ p + k \in Nat /\ 32 * (p + k) <= Len(all)
      BY <1>1, <1>7, <2>10, Zenon
    <3> QED
      BY <1>7, <3>1, BlocksAre, Zenon
  <2>12. ASSUME NEW c \in Nat, NEW b \in 1 .. c
         PROVE  Blocks(all, c)[b] = [i \in 1 .. 32 |-> all[32 * (b - 1) + i]]
    BY Zenon DEF Blocks
  <2> HIDE DEF T
  <2>13. blocks \o (IF take > 0 THEN <<full>> ELSE <<>>) = Blocks(all, p)
    <3>1. CASE take > 0
      <4>1. PICK one : one = <<full>>
        OBVIOUS
      <4>2. p = q + 1 /\ q + 1 \in 1 .. p /\ (q + 1) - 1 = q
        BY <1>1, <2>1, <3>1
      <4>3. Blocks(all, p)[q + 1] = full
        <5>1. PICK c \in 1 .. p : c = q + 1 /\ c - 1 = q
          BY <4>2
        <5>2. Blocks(all, p)[c] = [i \in 1 .. 32 |-> all[32 * (c - 1) + i]]
          BY <2>12, Zenon
        <5> QED
          BY <2>8, <3>1, <5>1, <5>2, Zenon
      <4>4. full \in T
        BY <2>7, LenProperties, Zenon DEF T
      <4>5. one \in Seq(T) /\ Len(one) = 1 /\ Has(Blocks(all, p), q, one, 1)
        <5>1. one \in Seq(T) /\ Len(one) = 1 /\ one[1] = full
          BY <4>1, <4>4
        <5>2. \A i \in 1 .. 1 : i = 1
          OBVIOUS
        <5> QED
          BY <4>3, <5>1, <5>2, Zenon DEF Has
      <4>6. Has(Blocks(all, p), 0, Blocks(all, q), q)
        <5>1. ASSUME NEW i \in 1 .. q PROVE i \in 1 .. p /\ 0 + i = i
          BY <1>1, <4>2
        <5>2. ASSUME NEW i \in 1 .. q PROVE Blocks(all, p)[i] = Blocks(all, q)[i]
          <6>1. Blocks(all, q)[i] = [j \in 1 .. 32 |-> all[32 * (i - 1) + j]]
            BY <1>1, <2>12, Zenon
          <6>2. Blocks(all, p)[i] = [j \in 1 .. 32 |-> all[32 * (i - 1) + j]]
            BY <2>12, <5>1, Zenon
          <6> QED
            BY <6>1, <6>2, Zenon
        <5> QED
          BY <5>1, <5>2, Zenon DEF Has
      <4>7. Blocks(all, q) \o one = Blocks(all, p)
        <5>1. PICK u \in Nat, c \in Nat : u = 1 /\ c = q /\ p = c + u
          BY <1>1, <4>2
        <5>2. /\ Blocks(all, c + u) \in Seq(T) /\ Len(Blocks(all, c + u)) = c + u
              /\ Blocks(all, c) \in Seq(T) /\ Len(Blocks(all, c)) = c
              /\ one \in Seq(T) /\ Len(one) = u
              /\ Has(Blocks(all, c + u), 0, Blocks(all, c), c) /\ Has(Blocks(all, c + u), c, one, u)
          BY <2>11, <4>5, <4>6, <5>1, Zenon
        <5>3. Blocks(all, c) \o one = Blocks(all, c + u)
          BY <5>2, OneAfterAnother, SMTT(40)
        <5> QED
          BY <5>1, <5>3, Zenon
      <4> QED
        BY <1>8, <3>1, <4>1, <4>7, Zenon
    <3>2. CASE ~(take > 0)
      <4>1. p = q
        BY <1>1, <2>1, <3>2
      <4> QED
        BY <1>8, <2>11, <3>2, <4>1, ConcatEmptySeq, Zenon
    <3> QED
      BY <3>1, <3>2
  <2>14. new = Blocks(all, p + k)
    <3>1. PICK words : words = XX!Words(rest, 32)
      OBVIOUS
    <3>2. words \in Seq(T)
      <4>1. ASSUME NEW b \in 1 .. k
            PROVE  [i \in 1 .. 32 |-> all[32 * ((p + b) - 1) + i]] \in T
        <5>1. p + b \in 1 .. p + k
          BY <2>1
        <5>2. Blocks(all, p + k)[p + b] \in T
          BY <2>11, <5>1, ElementOfSeq
        <5> QED
          BY <2>10, <2>12, <5>1, <5>2, Zenon
      <4> DEFINE block(b) == [i \in 1 .. 32 |-> all[32 * ((p + b) - 1) + i]]
      <4>2. words = [b \in 1 .. k |-> block(b)]
        BY <2>9, <3>1, Zenon
      <4>3. \A b \in 1 .. k : block(b) \in T
        BY <4>1
      <4> HIDE DEF block
      <4> QED
        BY <4>2, <4>3
    <3>3. Has(Blocks(all, p + k), p, words, k)
      <4>1. \A b \in 1 .. k : p + b \in 1 .. p + k
        OBVIOUS
      <4> QED
        BY <2>9, <2>10, <2>12, <3>1, <4>1, Zenon DEF Has
    <3>4. Has(Blocks(all, p + k), 0, Blocks(all, p), p)
      <4>1. ASSUME NEW b \in 1 .. p PROVE b \in 1 .. p + k /\ 0 + b = b
        OBVIOUS
      <4>2. ASSUME NEW b \in 1 .. p PROVE Blocks(all, p + k)[b] = Blocks(all, p)[b]
        <5>1. Blocks(all, p)[b] = [j \in 1 .. 32 |-> all[32 * (b - 1) + j]]
          BY <2>12, Zenon
        <5>2. Blocks(all, p + k)[b] = [j \in 1 .. 32 |-> all[32 * (b - 1) + j]]
          BY <2>10, <2>12, <4>1, Zenon
        <5> QED
          BY <5>1, <5>2, Zenon
      <4> QED
        BY <4>1, <4>2, Zenon DEF Has
    <3>5. Blocks(all, p) \o words = Blocks(all, p + k)
      <4>1. Len(words) = k
        BY <2>9, <3>1, Zenon
      <4> QED
        BY <2>11, <3>2, <3>3, <3>4, <4>1, OneAfterAnother, SMTT(40)
    <3> QED
      BY <2>3, <2>13, <3>1, <3>5, Zenon
  <2>15. /\ last \in Seq(S) /\ Len(last) = left
         /\ \A i \in 1 .. left : last[i] = all[32 * (p + k) + i]
    <3>1. PICK from \in Nat : from = 32 * k
      OBVIOUS
    <3>2. rest \in Seq(S) /\ left \in Nat /\ Len(rest) = from + left /\ Len(rest) - left = from
      BY <2>5, <3>1
    <3>3. /\ SubSeq(rest, from + 1, Len(rest)) = [i \in 1 .. left |-> rest[from + i]]
          /\ SubSeq(rest, from + 1, Len(rest)) \in Seq(S)
          /\ Len(SubSeq(rest, from + 1, Len(rest))) = left
      BY <3>2, RestIs
    <3>4. ASSUME NEW i \in 1 .. left
          PROVE  rest[from + i] = all[32 * (p + k) + i]
      <4>1. from + i \in 1 .. 32 * k + left /\ 32 * p + (from + i) = 32 * (p + k) + i
        BY <2>1, <3>1
      <4> QED
        BY <2>6, <4>1, Zenon
    <3>5. last = [i \in 1 .. left |-> rest[from + i]] /\ last \in Seq(S) /\ Len(last) = left
      BY <2>3, <3>2, <3>3, Zenon
    <3> QED
      BY <3>4, <3>5, Zenon
  <2>16. PICK stored : stored = XX!Stored(full, 0, last)
    OBVIOUS
  <2>17. /\ stored \in Seq(S) /\ Len(stored) = 32
         /\ \A i \in 1 .. left : stored[i] = all[32 * (p + k) + i]
    <3>1. 0 \in 0 .. 32 /\ left \in Nat /\ 0 + left <= 32 /\ \A i \in 1 .. left : 0 + i = i
      OBVIOUS
    <3>2. /\ stored \in Seq(S) /\ Len(stored) = 32 /\ Has(stored, 0, last, left)
      <4>1. /\ XX!Stored(full, 0, last) \in Seq(S) /\ Len(XX!Stored(full, 0, last)) = 32
            /\ Has(XX!Stored(full, 0, last), 0, last, left)
        BY <2>7, <2>15, <3>1, StoredIs, ZenonT(60)
      <4> QED
        BY <2>16, <4>1, Zenon
    <3> QED
      BY <2>15, <3>1, <3>2, Zenon DEF Has
  <2>18. XX!add(self, input) =
           [self EXCEPT !.totalLength = n + l, !.state.blocks = new,
                        !.buffer = stored, !.bufferSize = left]
    <3>1. Len(rest) % 32 = left
      <4>1. 32 \in Nat \ {0} /\ k \in Int /\ left \in 0 .. 32 - 1
        OBVIOUS
      <4>2. (32 * k + left) % 32 = left
        BY <4>1, Remainder
      <4> QED
        BY <2>5, <4>2, Zenon
    <3>2. (IF self.bufferSize > 0 THEN 32 - self.bufferSize ELSE 0) = take
      <4>1. (IF r > 0 THEN 32 - r ELSE 0) = take
        BY <1>1, <2>1
      <4> QED
        BY <1>4, <4>1, Zenon
    <3>3. self.state.blocks = blocks
      BY <1>4
    <3> QED
      BY <1>4, <1>5, <1>10, <1>13, <2>3, <2>16, <3>1, <3>2, <3>3, Zenon DEF XX!add
  <2>19. IsObject(XX!add(self, input), seed, new, stored, left, n + l)
    <3>1. IsObject([self EXCEPT !.totalLength = n + l, !.state.blocks = new,
                                !.buffer = stored, !.bufferSize = left],
                   seed, new, stored, left, n + l)
      BY <1>3, ObjectChanged, Zenon
    <3> QED
      BY <2>18, <3>1, Zenon
  <2>20. Took(XX!add(self, input), S, seed, all, p + k, left)
    <3>1. PICK after : after = XX!add(self, input)
      OBVIOUS
    <3>2. after.buffer = stored
      BY <2>19, <3>1 DEF IsObject
    <3>3. IsObject(after, seed, Blocks(all, p + k), after.buffer, left, 32 * (p + k) + left)
      BY <2>10, <2>14, <2>19, <3>1, <3>2, Zenon
    <3> QED
      BY <1>7, <2>2, <2>10, <2>17, <3>1, <3>2, <3>3, Zenon DEF Took
  <2> QED
    BY <1>6, <2>20, Zenon
<1> QED
  BY <1>11, <1>12, <1>13

-----------------------------------------------------------------------------
\* The bytes of messages.

\* What a place of the buffer may hold.
ByteSet == {XX!Uninitialized} \cup (Nat \X Nat)

\* The bytes of a message, and the same cut in two.
LEMMA BytesAre ==
  ASSUME NEW x \in Nat, NEW from \in Nat, NEW n \in Nat
  PROVE  /\ Bytes(x, from, n) \in Seq(ByteSet) /\ Len(Bytes(x, from, n)) = n
         /\ Bytes(x, from, n) = [i \in 1 .. n |-> IF x = 0 THEN Zero ELSE <<x, from + i>>]
<1> DEFINE byte(i) == IF x = 0 THEN Zero ELSE <<x, from + i>>
<1>1. \A i \in 1 .. n : byte(i) \in ByteSet
  BY DEF ByteSet, Zero
<1>2. Bytes(x, from, n) = [i \in 1 .. n |-> byte(i)]
  BY DEF Bytes
<1> HIDE DEF byte
<1>3. Bytes(x, from, n) \in Seq(ByteSet) /\ Len(Bytes(x, from, n)) = n
  BY <1>1, <1>2
<1> QED
  BY <1>2, <1>3, Zenon DEF byte

\* A message up to a place, and on from there.
LEMMA BytesJoin ==
  ASSUME NEW x \in Nat, NEW from \in Nat, NEW n \in Nat
  PROVE  Bytes(x, 0, from) \o Bytes(x, from, n) = Bytes(x, 0, from + n)
<1>1. from + n \in Nat /\ 0 \in Nat
  OBVIOUS
<1>2. /\ Bytes(x, 0, from + n) \in Seq(ByteSet) /\ Len(Bytes(x, 0, from + n)) = from + n
      /\ Bytes(x, 0, from) \in Seq(ByteSet) /\ Len(Bytes(x, 0, from)) = from
      /\ Bytes(x, from, n) \in Seq(ByteSet) /\ Len(Bytes(x, from, n)) = n
  BY <1>1, BytesAre, Zenon
<1>3. Has(Bytes(x, 0, from + n), 0, Bytes(x, 0, from), from)
  BY DEF Has, Bytes
<1>4. Has(Bytes(x, 0, from + n), from, Bytes(x, from, n), n)
  BY DEF Has, Bytes
<1> QED
  BY <1>2, <1>3, <1>4, OneAfterAnother

\* A new object has taken in nothing.
LEMMA NewTook ==
  ASSUME NEW x \in Nat
  PROVE  Took(XX!NewXXHash64(0), ByteSet, 0, Bytes(x, 0, 0), 0, 0)
<1> DEFINE blank == [i \in 1 .. 32 |-> XX!Uninitialized]
<1>1. XX!NewXXHash64(0) = [state |-> [seed |-> 0, blocks |-> <<>>],
                           buffer |-> blank, bufferSize |-> 0, totalLength |-> 0]
  BY DEF XX!NewXXHash64, XX!MaxBufferSize
<1>2. Bytes(x, 0, 0) \in Seq(ByteSet) /\ Len(Bytes(x, 0, 0)) = 0
  BY BytesAre
<1>3. blank \in Seq(ByteSet) /\ Len(blank) = 32
  <2>1. XX!Uninitialized \in ByteSet
    BY DEF ByteSet
  <2> QED
    BY <2>1
<1> HIDE DEF blank
<1>4. PICK new : new = XX!NewXXHash64(0)
  OBVIOUS
<1>5. new.buffer = blank
  BY <1>1, <1>4
<1>6. Blocks(Bytes(x, 0, 0), 0) = <<>>
  BY DEF Blocks
<1>7. 0 \in Nat /\ 0 \in 0 .. 31 /\ 32 * 0 + 0 = 0 /\ 1 .. 0 = {}
  OBVIOUS
<1>8. IsObject(new, 0, Blocks(Bytes(x, 0, 0), 0), new.buffer, 0, 32 * 0 + 0)
  BY <1>1, <1>4, <1>5, <1>6, <1>7, Zenon DEF IsObject
<1>9. \A i \in 1 .. 0 : new.buffer[i] = Bytes(x, 0, 0)[32 * 0 + i]
  BY <1>7, Zenon
<1>10. Took(new, ByteSet, 0, Bytes(x, 0, 0), 0, 0)
  <2>1. Len(Bytes(x, 0, 0)) = 32 * 0 + 0 /\ new.buffer \in Seq(ByteSet) /\ Len(new.buffer) = 32
    BY <1>2, <1>3, <1>5, <1>7, Zenon
  <2> QED
    BY <1>2, <1>7, <1>8, <1>9, <2>1, Zenon DEF Took
<1> QED
  BY <1>4, <1>10, Zenon

-----------------------------------------------------------------------------
\* The calls that threads are in.

\* A call has its fields.
IsCall(c) ==
  /\ DOMAIN c = {"pc", "input", "added", "made"}
  /\ c.input \in Nat \X Nat /\ c.added \in Nat

\* A thread that is in hash() hashes an input of its program.
CallsInv ==
  /\ program \in Programs
  /\ DOMAIN call = Threads /\ \A t \in Threads : IsCall(call[t])
  /\ \A t \in program.threads : call[t].pc # "idle" => call[t].input \in program.inputs

\* A step of hash().
HashStep(t) == DummyHash(t) \/ Blake3Hash(t) \/ SHAHash(t) \/ XXHash(t) \/ CityHash(t)

\* A step that is in no hash().
Elsewhere(t) ==
  \/ DetectFeatures(t) \/ StoreFeatures(t)
  \/ \E how \in {"hash", "keyed", "derive"} : SetUp(t, how)
  \/ \E n \in Pieces : Update(t, n)
  \/ \E s \in Seeks : FinalizeSeek(t, s[1], s[2])
  \/ Reset(t)

\* Every step is one of these.
LEMMA Steps ==
  ASSUME Next
  PROVE  \E t \in program.threads :
           HashStep(t) \/ Elsewhere(t) \/ \E input \in program.inputs : MakeKey(t, input)
BY Zenon DEF Next, HashStep, Elsewhere

\* Outside of hash() no call goes on, no engine's own state changes and no key
\* is made.
LEMMA ElsewhereStep ==
  ASSUME NEW t, Elsewhere(t)
  PROVE  UNCHANGED <<program, call, mdctx, cityResult, keys>>
<1>1. CASE DetectFeatures(t) \/ StoreFeatures(t) \/ Reset(t)
  BY <1>1 DEF DetectFeatures, StoreFeatures, Reset, chosen, results, stream
<1>2. CASE \E how \in {"hash", "keyed", "derive"} : SetUp(t, how)
  BY <1>2, Zenon DEF SetUp, chosen, results, stream
<1>3. CASE \E n \in Pieces : Update(t, n)
  BY <1>3, Zenon DEF Update, chosen, results, stream
<1>4. CASE \E s \in Seeks : FinalizeSeek(t, s[1], s[2])
  BY <1>4, Zenon DEF FinalizeSeek, chosen, results, stream
<1> QED
  BY <1>1, <1>2, <1>3, <1>4, Zenon DEF Elsewhere

\* Thread t is in call c now, and the others are where they were.
Now(t, c) ==
  /\ DOMAIN call' = Threads /\ IsCall(c) /\ call'[t] = c
  /\ \A u \in Threads : u # t => call'[u] = call[u]

\* An assignment to the thread's call does that,
LEMMA NowIs ==
  ASSUME DOMAIN call = Threads, NEW t \in Threads, NEW c, IsCall(c),
         call' = [call EXCEPT ![t] = c]
  PROVE  Now(t, c)
BY DEF Now

\* and so does each of the changes that the steps make: the place alone,
LEMMA GoToIs ==
  ASSUME DOMAIN call = Threads, NEW t \in Threads, IsCall(call[t]), NEW pc, GoTo(t, pc)
  PROVE  /\ Now(t, call'[t]) /\ call'[t].pc = pc
         /\ call'[t].input = call[t].input /\ call'[t].added = call[t].added
<1>1. PICK c : c = [call[t] EXCEPT !.pc = pc]
  OBVIOUS
<1>2. call' = [call EXCEPT ![t] = c]
  BY <1>1, Zenon DEF GoTo
<1>3. IsCall(c) /\ c.pc = pc /\ c.input = call[t].input /\ c.added = call[t].added
  BY <1>1 DEF IsCall
<1>4. Now(t, c)
  BY <1>2, <1>3, NowIs
<1>5. call'[t] = c
  BY <1>4 DEF Now
<1> QED
  BY <1>3, <1>4, <1>5

\* how much was added,
LEMMA AddedIs ==
  ASSUME DOMAIN call = Threads, NEW t \in Threads, IsCall(call[t]), NEW n \in Nat,
         call' = [call EXCEPT ![t].added = n]
  PROVE  /\ Now(t, call'[t]) /\ call'[t].pc = call[t].pc
         /\ call'[t].input = call[t].input /\ call'[t].added = n
<1>1. PICK c : c = [call[t] EXCEPT !.added = n]
  OBVIOUS
<1>2. call' = [call EXCEPT ![t] = c]
  BY <1>1, Zenon
<1>3. IsCall(c) /\ c.pc = call[t].pc /\ c.input = call[t].input /\ c.added = n
  BY <1>1 DEF IsCall
<1>4. Now(t, c)
  BY <1>2, <1>3, NowIs
<1>5. call'[t] = c
  BY <1>4 DEF Now
<1> QED
  BY <1>3, <1>4, <1>5

\* the return with a key,
LEMMA ReturnIs ==
  ASSUME DOMAIN call = Threads, NEW t \in Threads, IsCall(call[t]), NEW digest, Return(t, digest)
  PROVE  /\ Now(t, call'[t]) /\ call'[t].pc = "idle"
         /\ keys' = keys \cup {<<call[t].input, digest>>}
<1>1. PICK c : c = [call[t] EXCEPT !.pc = "idle", !.made = @ + 1]
  OBVIOUS
<1>2. call' = [call EXCEPT ![t] = c]
  BY <1>1, Zenon DEF Return
<1>3. IsCall(c) /\ c.pc = "idle"
  BY <1>1 DEF IsCall
<1>4. Now(t, c)
  BY <1>2, <1>3, NowIs
<1>5. call'[t] = c
  BY <1>4 DEF Now
<1> QED
  BY <1>3, <1>4, <1>5 DEF Return

\* and the call of hash() for an input.
LEMMA MakeKeyIs ==
  ASSUME DOMAIN call = Threads, NEW t \in Threads, IsCall(call[t]), NEW input \in Nat \X Nat,
         MakeKey(t, input)
  PROVE  /\ Now(t, call'[t]) /\ call'[t].pc = "init" /\ call'[t].input = input
         /\ call'[t].added = 0
<1>1. PICK c : c = [call[t] EXCEPT !.pc = "init", !.input = input, !.added = 0]
  OBVIOUS
<1>2. call' = [call EXCEPT ![t] = c]
  BY <1>1, Zenon DEF MakeKey
<1>3. IsCall(c) /\ c.pc = "init" /\ c.input = input /\ c.added = 0
  BY <1>1 DEF IsCall
<1>4. Now(t, c)
  BY <1>2, <1>3, NowIs
<1>5. call'[t] = c
  BY <1>4 DEF Now
<1> QED
  BY <1>3, <1>4, <1>5

\* Keys are made of inputs of the program only.
KeysInv == \A k \in keys : k[1] \in program.inputs

\* What any step of hash() does to the thread's call and to the keys.
HashStepIs(t) ==
  /\ UNCHANGED program
  /\ Now(t, call'[t]) /\ call[t].pc # "idle"
  /\ call'[t].pc # "idle" => call'[t].input = call[t].input
  /\ keys' = keys \/ \E d : keys' = keys \cup {<<call[t].input, d>>}

\* It does no more than that, whatever the engine.
LEMMA HashStepDoes ==
  ASSUME DOMAIN call = Threads, NEW t \in Threads, IsCall(call[t]), HashStep(t)
  PROVE  HashStepIs(t)
<1>1. CASE DummyHash(t)
  <2>1. \E d : Return(t, d) /\ call[t].pc = "init" /\ program' = program
    BY <1>1, Zenon DEF DummyHash, At, chosen
  <2> QED
    BY <2>1, ReturnIs DEF HashStepIs
<1>2. CASE Blake3Hash(t)
  <2>1. /\ call[t].pc \in {"init", "update", "finalize"} /\ program' = program
        /\ \/ \E pc \in {"update", "finalize"} : GoTo(t, pc) /\ keys' = keys
           \/ \E d : Return(t, d)
    BY <1>2, Zenon DEF Blake3Hash, At, chosen
  <2>2. CASE \E pc \in {"update", "finalize"} : GoTo(t, pc) /\ keys' = keys
    BY <2>1, <2>2, GoToIs DEF HashStepIs
  <2>3. CASE \E d : Return(t, d)
    BY <2>1, <2>3, ReturnIs DEF HashStepIs
  <2> QED
    BY <2>1, <2>2, <2>3
<1>3. CASE SHAHash(t)
  <2>1. /\ call[t].pc \in {"init", "update", "finalize"} /\ program' = program
        /\ \/ \E pc \in {"update", "finalize"} : GoTo(t, pc) /\ keys' = keys
           \/ \E d : Return(t, d)
    BY <1>3, Zenon DEF SHAHash, At, chosen
  <2>2. CASE \E pc \in {"update", "finalize"} : GoTo(t, pc) /\ keys' = keys
    BY <2>1, <2>2, GoToIs DEF HashStepIs
  <2>3. CASE \E d : Return(t, d)
    BY <2>1, <2>3, ReturnIs DEF HashStepIs
  <2> QED
    BY <2>1, <2>2, <2>3
<1>4. CASE XXHash(t)
  <2>1. /\ call[t].pc \in {"init", "update", "finalize"} /\ program' = program
        /\ \/ \E pc \in {"update", "finalize"} : GoTo(t, pc) /\ keys' = keys
           \/ /\ call' = [call EXCEPT ![t].added = call[t].added + update_len]
              /\ keys' = keys
           \/ \E d : Return(t, d)
    BY <1>4, Zenon DEF XXHash, At, chosen
  <2>2. CASE \E pc \in {"update", "finalize"} : GoTo(t, pc) /\ keys' = keys
    BY <2>1, <2>2, GoToIs DEF HashStepIs
  <2>3. CASE \E d : Return(t, d)
    BY <2>1, <2>3, ReturnIs DEF HashStepIs
  <2>4. CASE call' = [call EXCEPT ![t].added = call[t].added + update_len] /\ keys' = keys
    <3>1. call[t].added + update_len \in Nat
      BY update_lenAssumption DEF IsCall
    <3>2. Now(t, call'[t]) /\ call'[t].input = call[t].input
      BY <2>4, <3>1, AddedIs
    <3> QED
      BY <2>1, <2>4, <3>2, Zenon DEF HashStepIs
  <2> QED
    BY <2>1, <2>2, <2>3, <2>4
<1>5. CASE CityHash(t)
  <2>1. /\ call[t].pc \in {"init", "update", "finalize"} /\ program' = program
        /\ \/ \E pc \in {"update", "finalize"} : GoTo(t, pc) /\ keys' = keys
           \/ \E d : Return(t, d)
    BY <1>5, Zenon DEF CityHash, At, chosen
  <2>2. CASE \E pc \in {"update", "finalize"} : GoTo(t, pc) /\ keys' = keys
    BY <2>1, <2>2, GoToIs DEF HashStepIs
  <2>3. CASE \E d : Return(t, d)
    BY <2>1, <2>3, ReturnIs DEF HashStepIs
  <2> QED
    BY <2>1, <2>2, <2>3
<1> QED
  BY <1>1, <1>2, <1>3, <1>4, <1>5 DEF HashStep

\* What is known of a thread of the program.
LEMMA ThreadsAre ==
  ASSUME CallsInv, NEW t \in program.threads
  PROVE  /\ t \in Threads /\ DOMAIN call = Threads /\ IsCall(call[t])
         /\ program.inputs \subseteq Nat \X Nat
<1>1. program.threads \subseteq Threads /\ program.inputs \subseteq Nat \X Nat
  BY ProgramsAssumption, Zenon DEF CallsInv
<1> QED
  BY <1>1, Zenon DEF CallsInv

\* The calls stay calls, and the keys those of the program's inputs.
LEMMA CallsStep ==
  ASSUME CallsInv, KeysInv, [Next]_vars
  PROVE  CallsInv' /\ KeysInv'
<1>1. CASE UNCHANGED vars
  BY <1>1 DEF CallsInv, KeysInv, vars, chosen
<1>2. ASSUME NEW t \in program.threads, HashStep(t)
      PROVE  CallsInv' /\ KeysInv'
  <2>1. HashStepIs(t)
    BY <1>2, ThreadsAre, HashStepDoes
  <2> QED
    BY <1>2, <2>1, ThreadsAre DEF CallsInv, KeysInv, HashStepIs, Now
<1>3. ASSUME NEW t \in program.threads, Elsewhere(t)
      PROVE  CallsInv' /\ KeysInv'
  BY <1>3, ElsewhereStep DEF CallsInv, KeysInv
<1>4. ASSUME NEW t \in program.threads, NEW input \in program.inputs, MakeKey(t, input)
      PROVE  CallsInv' /\ KeysInv'
  <2>1. Now(t, call'[t]) /\ call'[t].input = input
    BY <1>4, ThreadsAre, MakeKeyIs
  <2>2. UNCHANGED <<program, keys>>
    BY <1>4 DEF MakeKey, chosen
  <2> QED
    BY <1>4, <2>1, <2>2, ThreadsAre DEF CallsInv, KeysInv, Now
<1> QED
  BY <1>1, <1>2, <1>3, <1>4, Steps, Zenon

\* So it is at the start.
LEMMA CallsInit ==
  ASSUME Init
  PROVE  CallsInv /\ KeysInv
<1>1. IsCall(Idle) /\ Idle.pc = "idle"
  BY DEF IsCall, Idle
<1>2. /\ program \in Programs /\ keys = {}
      /\ DOMAIN call = Threads /\ \A t \in Threads : call[t] = Idle
  BY DEF Init
<1>3. program.threads \subseteq Threads
  BY <1>2, ProgramsAssumption, Zenon
<1> QED
  BY <1>1, <1>2, <1>3 DEF CallsInv, KeysInv

\* CityHashCrc256: the windows cover every byte of the input and none past its
\* end, for an input of any length.
THEOREM EveryByteIsHashed == Spec => []CityReadsAll
<1>1. CallsInv /\ KeysInv => CityReadsAll
  <2> SUFFICES ASSUME CallsInv, KeysInv, NEW k \in keys
               PROVE  LET n == City!HashedLength(k[1][2])
                      IN  UNION {w .. w + 39 : w \in ToSet(City!Windows(n))} = 0 .. n - 1
    BY Zenon DEF CityReadsAll
  <2>1. k[1] \in Nat \X Nat
    BY ProgramsAssumption, Zenon DEF CallsInv, KeysInv
  <2>2. City!HashedLength(k[1][2]) \in Nat /\ City!HashedLength(k[1][2]) >= 40
    BY <2>1 DEF City!HashedLength
  <2> QED
    BY <2>2, WindowsCover
<1> QED
  BY <1>1, CallsInit, CallsStep, PTL DEF Spec

-----------------------------------------------------------------------------
\* The engines, one by one.

\* The bytes of an input.
BytesOf(input) == Bytes(input[1], 0, input[2])

\* The dummy engine: a key tells how long the input was.
DummyInv == program.engine = "Dummy" =>
  \A k \in keys : k[2] = [of |-> Slots(k[1][2], program.nbytes), at |-> <<>>]

\* SHAEngine: the context of a thread's own takes the input in.
SHACall(c, context) ==
  /\ c.pc = "update" => context = Unset
  /\ c.pc = "finalize" => context = <<BytesOf(c.input)>>

\* Its key is of the bytes of the input.
SHAKey(k) == k[2] = Copied(<<BytesOf(k[1])>>, program.size)

\* So it is for every thread and every key.
SHAInv == program.engine = "SHA" =>
  /\ DOMAIN mdctx = Threads
  /\ \A t \in program.threads : SHACall(call[t], mdctx[t])
  /\ \A k \in keys : SHAKey(k)

\* The static `result' is one thread's.
Alone == \E t \in Threads : program.threads = {t}

\* The value of an input.
CityValue(input) == City!CityHashCrc256(input[1], input[2])

\* City256Engine: `result' holds what the thread has worked out of its input.
CityCall(c, result) ==
  /\ c.pc \in {"update", "finalize"} => program.nbytes < 32
  /\ c.pc = "update" => result = <<CityValue(c.input)>>
  /\ c.pc = "finalize" => result = CityValue(c.input)

\* Its key is of the value of the input.
CityKey(k) == k[2] = Copied(CityValue(k[1]), 32)

\* So it is for every thread and every key.
CityInv == program.engine = "City256" =>
  /\ \A t \in program.threads : CityCall(call[t], cityResult)
  /\ \A k \in keys : CityKey(k)

\* What the engine has in hand, and its keys, stay as they are when the
\* thread goes elsewhere or begins a key.
Aside(t) ==
  /\ UNCHANGED <<program, mdctx, cityResult, keys>>
  /\ \/ call' = call
     \/ Now(t, call'[t]) /\ call'[t].pc = "init"

\* Such are all the steps but those of hash().
LEMMA AsideIs ==
  ASSUME CallsInv, NEW t \in program.threads,
         Elsewhere(t) \/ \E input \in program.inputs : MakeKey(t, input)
  PROVE  Aside(t)
<1>1. CASE Elsewhere(t)
  BY <1>1, ElsewhereStep DEF Aside
<1>2. ASSUME NEW input \in program.inputs, MakeKey(t, input)
      PROVE  Aside(t)
  <2>1. Now(t, call'[t]) /\ call'[t].pc = "init"
    BY <1>2, ThreadsAre, MakeKeyIs
  <2>2. UNCHANGED <<program, mdctx, cityResult, keys>>
    BY <1>2 DEF MakeKey, chosen, results
  <2> QED
    BY <2>1, <2>2 DEF Aside
<1> QED
  BY <1>1, <1>2

\* DummyHashEngine::hash() keeps to its invariant.
LEMMA DummyStep ==
  ASSUME CallsInv, DummyInv, [Next]_vars
  PROVE  DummyInv'
<1> SUFFICES ASSUME program'.engine = "Dummy"
             PROVE  \A k \in keys' : k[2] = [of |-> Slots(k[1][2], program'.nbytes), at |-> <<>>]
  BY Zenon DEF DummyInv
<1>1. CASE UNCHANGED vars
  BY <1>1, Zenon DEF DummyInv, vars, chosen
<1>2. ASSUME NEW t \in program.threads, HashStep(t)
      PROVE  DummyInv'
  <2>1. HashStepIs(t)
    BY <1>2, ThreadsAre, HashStepDoes
  <2>2. program' = program /\ program.engine = "Dummy"
    BY <2>1, Zenon DEF HashStepIs
  <2>3. DummyHash(t)
    BY <1>2, <2>2 DEF HashStep, Blake3Hash, SHAHash, XXHash, CityHash, At
  <2>4. keys' = keys \cup {<<call[t].input, [of |-> Slots(len(t), program.nbytes), at |-> <<>>]>>}
    BY <2>3, Zenon DEF DummyHash, Return
  <2> QED
    BY <2>2, <2>4 DEF DummyInv, len
<1>3. ASSUME NEW t \in program.threads, Aside(t)
      PROVE  DummyInv'
  BY <1>3, Zenon DEF DummyInv, Aside
<1> QED
  BY <1>1, <1>2, <1>3, Steps, AsideIs, Zenon DEF DummyInv

\* SHAEngine::hash() keeps to it with any number of threads, for nothing it
\* uses is shared.
LEMMA SHAStep ==
  ASSUME CallsInv, SHAInv, [Next]_vars
  PROVE  SHAInv'
<1> SUFFICES ASSUME program' = program => program.engine = "SHA"
             PROVE  SHAInv'
  BY Zenon DEF SHAInv
<1>0. /\ program' = program => \A k : SHAKey(k) => SHAKey(k)'
      /\ program.threads \subseteq Threads
      /\ \A t \in program.threads : DOMAIN call = Threads /\ IsCall(call[t])
  <2>1. program' = program => \A k : SHAKey(k) => SHAKey(k)'
    BY Zenon DEF SHAKey, Copied
  <2> QED
    BY <2>1, ThreadsAre
<1>1. CASE UNCHANGED vars
  BY <1>0, <1>1, Zenon DEF SHAInv, vars, chosen
<1>2. ASSUME NEW t \in program.threads, HashStep(t)
      PROVE  SHAInv'
  <2>1. HashStepIs(t)
    BY <1>2, ThreadsAre, HashStepDoes
  <2>2. program' = program /\ program.engine = "SHA"
    BY <2>1, Zenon DEF HashStepIs
  <2>3. SHAHash(t)
    BY <1>2, <2>2 DEF HashStep, DummyHash, Blake3Hash, XXHash, CityHash, At
  <2>4. t \in Threads /\ DOMAIN call = Threads /\ IsCall(call[t])
    BY ThreadsAre
  <2>5. /\ DOMAIN mdctx = Threads /\ \A u \in program.threads : SHACall(call[u], mdctx[u])
        /\ \A k \in keys : SHAKey(k)
    BY <2>2, Zenon DEF SHAInv
  <2>6. ASSUME NEW c, Now(t, c), NEW context, mdctx' = [mdctx EXCEPT ![t] = context],
               SHACall(c, context), \A k \in keys' : SHAKey(k)
        PROVE  SHAInv'
    <3>1. DOMAIN mdctx' = Threads /\ mdctx'[t] = context
          /\ \A u \in Threads : u # t => mdctx'[u] = mdctx[u]
      BY <2>4, <2>5, <2>6
    <3>2. \A u \in program.threads : SHACall(call'[u], mdctx'[u])
      BY <1>0, <2>4, <2>5, <2>6, <3>1, Zenon DEF Now
    <3> QED
      BY <1>0, <2>2, <2>6, <3>1, <3>2, Zenon DEF SHAInv
  <2>7. CASE call[t].pc = "init" /\ GoTo(t, "update") /\ mdctx' = [mdctx EXCEPT ![t] = Unset]
               /\ keys' = keys
    <3>1. Now(t, call'[t]) /\ SHACall(call'[t], Unset)
      BY <2>4, <2>7, GoToIs DEF SHACall
    <3> QED
      BY <2>5, <2>6, <2>7, <3>1, Zenon
  <2>8. CASE call[t].pc = "update" /\ GoTo(t, "finalize") /\ keys' = keys
               /\ mdctx' = [mdctx EXCEPT ![t] = Append(@, Bytes(m(t), 0, len(t)))]
    <3>1. Now(t, call'[t]) /\ call'[t].pc = "finalize" /\ call'[t].input = call[t].input
      BY <2>4, <2>8, GoToIs
    <3>2. mdctx[t] = <<>>
      BY <2>5, <2>8 DEF SHACall, Unset
    <3>3. PICK bytes : bytes = BytesOf(call[t].input) /\ bytes = Bytes(m(t), 0, len(t))
      BY Zenon DEF BytesOf, m, len
    <3>4. Append(mdctx[t], bytes) = <<bytes>>
      BY <3>2
    <3>5. mdctx' = [mdctx EXCEPT ![t] = <<bytes>>]
      BY <2>8, <3>3, <3>4, Zenon
    <3>6. SHACall(call'[t], <<bytes>>)
      BY <3>1, <3>3 DEF SHACall
    <3> QED
      BY <2>5, <2>6, <2>8, <3>1, <3>5, <3>6, Zenon
  <2>9. CASE call[t].pc = "finalize" /\ Return(t, Copied(mdctx[t], program.size))
               /\ mdctx' = mdctx
    <3>1. Now(t, call'[t]) /\ call'[t].pc = "idle"
          /\ keys' = keys \cup {<<call[t].input, Copied(mdctx[t], program.size)>>}
      BY <2>4, <2>9, ReturnIs
    <3>2. mdctx[t] = <<BytesOf(call[t].input)>>
      BY <2>5, <2>9 DEF SHACall
    <3>3. SHAKey(<<call[t].input, Copied(mdctx[t], program.size)>>)
      BY <3>2 DEF SHAKey
    <3>4. SHACall(call'[t], mdctx[t])
      BY <3>1 DEF SHACall
    <3>5. \A k \in keys' : SHAKey(k)
      BY <2>5, <3>1, <3>3
    <3>6. \A u \in program.threads : SHACall(call'[u], mdctx'[u])
      BY <1>0, <2>5, <2>9, <3>1, <3>4, Zenon DEF Now
    <3> QED
      BY <1>0, <2>2, <2>5, <2>9, <3>5, <3>6, Zenon DEF SHAInv
  <2> QED
    BY <2>3, <2>7, <2>8, <2>9, Zenon DEF SHAHash, At
<1>3. ASSUME NEW t \in program.threads, Aside(t)
      PROVE  SHAInv'
  <2>1. /\ program' = program /\ mdctx' = mdctx /\ keys' = keys
        /\ call' = call \/ (Now(t, call'[t]) /\ call'[t].pc = "init")
    BY <1>3, Zenon DEF Aside
  <2>2. /\ DOMAIN mdctx = Threads /\ \A u \in program.threads : SHACall(call[u], mdctx[u])
        /\ \A k \in keys : SHAKey(k)
    BY <2>1, Zenon DEF SHAInv
  <2>3. call'[t].pc = "init" => SHACall(call'[t], mdctx[t])
    BY DEF SHACall
  <2>4. \A u \in program.threads : SHACall(call'[u], mdctx[u])
    BY <1>0, <2>1, <2>2, <2>3, Zenon DEF Now
  <2> QED
    BY <1>0, <2>1, <2>2, <2>4, Zenon DEF SHAInv
<1> QED
  BY <1>1, <1>2, <1>3, Steps, AsideIs, Zenon

\* City256Engine::hash() keeps to it with any number of threads where the value
\* is written to the digest, and with one where it goes through `result'.
LEMMA CityStep ==
  ASSUME CallsInv, CityInv, [Next]_vars,
         program.use = "keys" /\ program.engine = "City256" /\ program.nbytes < 32 => Alone
  PROVE  CityInv'
<1> SUFFICES ASSUME program' = program => program.engine = "City256"
             PROVE  CityInv'
  BY Zenon DEF CityInv
<1>0. /\ program' = program =>
           /\ \A k : CityKey(k) => CityKey(k)'
           /\ \A c, result : CityCall(c, result) => CityCall(c, result)'
      /\ program.threads \subseteq Threads
      /\ \A t \in program.threads : DOMAIN call = Threads /\ IsCall(call[t])
  <2>1. program' = program =>
           /\ \A k : CityKey(k) => CityKey(k)'
           /\ \A c, result : CityCall(c, result) => CityCall(c, result)'
    BY Zenon DEF CityKey, CityCall, Copied
  <2> QED
    BY <2>1, ThreadsAre
<1>1. CASE UNCHANGED vars
  <2>1. UNCHANGED <<program, call, cityResult, keys>>
    BY <1>1, Zenon DEF vars, chosen, results
  <2> QED
    BY <1>0, <2>1, Zenon DEF CityInv
<1>2. ASSUME NEW t \in program.threads, HashStep(t)
      PROVE  CityInv'
  <2>1. HashStepIs(t)
    BY <1>2, ThreadsAre, HashStepDoes
  <2>2. program' = program /\ program.engine = "City256"
    BY <2>1, Zenon DEF HashStepIs
  <2>3. CityHash(t)
    BY <1>2, <2>2 DEF HashStep, DummyHash, Blake3Hash, XXHash, SHAHash, At
  <2>4. t \in Threads /\ DOMAIN call = Threads /\ IsCall(call[t])
    BY ThreadsAre
  <2>5. /\ \A u \in program.threads : CityCall(call[u], cityResult)
        /\ \A k \in keys : CityKey(k)
    BY <2>2, Zenon DEF CityInv
  <2>6. PICK value : value = CityValue(call[t].input) /\ value = City!CityHashCrc256(m(t), len(t))
    BY Zenon DEF CityValue, m, len
  \* Another thread has nothing in `result' while one is alone.
  <2>7. program.nbytes < 32 => \A u \in program.threads : u = t
    <3>1. program.use = "keys"
      BY <2>3, Zenon DEF CityHash, At
    <3> QED
      BY <2>2, <3>1 DEF Alone
  <2>8. ASSUME NEW c, Now(t, c), CityCall(c, cityResult'),
               program.nbytes < 32 \/ cityResult' = cityResult,
               \A k \in keys' : CityKey(k)
        PROVE  CityInv'
    <3>1. \A u \in program.threads : CityCall(call'[u], cityResult')
      BY <1>0, <2>4, <2>5, <2>7, <2>8, Zenon DEF Now
    <3> QED
      BY <1>0, <2>2, <2>8, <3>1, Zenon DEF CityInv
  <2>9. CASE call[t].pc = "init" /\ Return(t, Copied(value, 32)) /\ cityResult' = cityResult
    <3>1. Now(t, call'[t]) /\ call'[t].pc = "idle"
          /\ keys' = keys \cup {<<call[t].input, Copied(value, 32)>>}
      BY <2>4, <2>9, ReturnIs
    <3>2. CityKey(<<call[t].input, Copied(value, 32)>>)
      BY <2>6 DEF CityKey
    <3>3. CityCall(call'[t], cityResult)
      BY <3>1 DEF CityCall
    <3>4. \A k \in keys' : CityKey(k)
      BY <2>5, <3>1, <3>2
    <3> QED
      BY <2>8, <2>9, <3>1, <3>3, <3>4, Zenon
  <2>10. CASE program.nbytes < 32 /\ GoTo(t, "update") /\ cityResult' = <<value>> /\ keys' = keys
    <3>1. Now(t, call'[t]) /\ call'[t].pc = "update" /\ call'[t].input = call[t].input
      BY <2>4, <2>10, GoToIs
    <3>2. CityCall(call'[t], cityResult')
      BY <2>6, <2>10, <3>1 DEF CityCall
    <3> QED
      BY <2>5, <2>8, <2>10, <3>1, <3>2, Zenon
  <2>11. CASE /\ call[t].pc = "update" /\ GoTo(t, "finalize") /\ keys' = keys
              /\ cityResult' = IF cityResult = <<value>> THEN value ELSE <<cityResult, value>>
    <3>1. Now(t, call'[t]) /\ call'[t].pc = "finalize" /\ call'[t].input = call[t].input
      BY <2>4, <2>11, GoToIs
    <3>2. CityCall(call[t], cityResult)
      BY <2>5
    <3>3. cityResult' = value /\ program.nbytes < 32
      BY <2>6, <2>11, <3>2, Zenon DEF CityCall
    <3>4. CityCall(call'[t], cityResult')
      BY <2>6, <3>1, <3>3 DEF CityCall
    <3> QED
      BY <2>5, <2>8, <2>11, <3>1, <3>3, <3>4, Zenon
  <2>12. CASE call[t].pc = "finalize" /\ Return(t, Copied(cityResult, 32)) /\ cityResult' = cityResult
    <3>1. Now(t, call'[t]) /\ call'[t].pc = "idle"
          /\ keys' = keys \cup {<<call[t].input, Copied(cityResult, 32)>>}
      BY <2>4, <2>12, ReturnIs
    <3>2. cityResult = CityValue(call[t].input)
      BY <2>5, <2>12 DEF CityCall
    <3>3. CityKey(<<call[t].input, Copied(cityResult, 32)>>)
      BY <3>2 DEF CityKey
    <3>4. CityCall(call'[t], cityResult)
      BY <3>1 DEF CityCall
    <3>5. \A k \in keys' : CityKey(k)
      BY <2>5, <3>1, <3>3
    <3> QED
      BY <2>8, <2>12, <3>1, <3>4, <3>5, Zenon
  <2> QED
    BY <2>3, <2>6, <2>9, <2>10, <2>11, <2>12, Zenon DEF CityHash, At
<1>3. ASSUME NEW t \in program.threads, Aside(t)
      PROVE  CityInv'
  <2>1. /\ program' = program /\ cityResult' = cityResult /\ keys' = keys
        /\ call' = call \/ (Now(t, call'[t]) /\ call'[t].pc = "init")
    BY <1>3, Zenon DEF Aside
  <2>2. /\ \A u \in program.threads : CityCall(call[u], cityResult)
        /\ \A k \in keys : CityKey(k)
    BY <2>1, Zenon DEF CityInv
  <2>3. call'[t].pc = "init" => CityCall(call'[t], cityResult)
    BY DEF CityCall
  <2>4. \A u \in program.threads : CityCall(call'[u], cityResult)
    BY <1>0, <2>1, <2>2, <2>3, Zenon DEF Now
  <2> QED
    BY <1>0, <2>1, <2>2, <2>4, Zenon DEF CityInv
<1> QED
  BY <1>1, <1>2, <1>3, Steps, AsideIs, Zenon

-----------------------------------------------------------------------------
\* XXhash64Engine, and an object that is fed.

\* The object has taken in the bytes, however they filled its buffer.
XXHas(object, bytes) == \E q, r : Took(object, ByteSet, 0, bytes, q, r)

\* A new object has taken in nothing,
LEMMA XXNew ==
  ASSUME NEW x \in Nat
  PROVE  XXHas(XX!NewXXHash64(0), Bytes(x, 0, 0))
BY NewTook, Zenon DEF XXHas

\* and add() takes in what comes next of a message.
LEMMA XXAdd ==
  ASSUME NEW x \in Nat, NEW from \in Nat, NEW n \in Nat, NEW object,
         XXHas(object, Bytes(x, 0, from))
  PROVE  XXHas(XX!add(object, Bytes(x, from, n)), Bytes(x, 0, from + n))
<1>1. PICK q, r : Took(object, ByteSet, 0, Bytes(x, 0, from), q, r)
  BY Zenon DEF XXHas
<1>2. Bytes(x, from, n) \in Seq(ByteSet)
  BY BytesAre
<1>3. PICK q2, r2 : Took(XX!add(object, Bytes(x, from, n)), ByteSet, 0,
                         Bytes(x, 0, from) \o Bytes(x, from, n), q2, r2)
  BY <1>1, <1>2, AddTakes, Zenon
<1>4. Bytes(x, 0, from) \o Bytes(x, from, n) = Bytes(x, 0, from + n)
  BY BytesJoin
<1> QED
  BY <1>3, <1>4, Zenon DEF XXHas

\* XXhash64Engine: the object has taken in what was added of the input.
XXCall(c, object) ==
  /\ c.pc = "init" => c.added = 0
  /\ c.pc \in {"update", "finalize"} =>
       XXHas(object, Bytes(c.input[1], 0, Least(c.added, c.input[2])))
  /\ c.pc = "finalize" => c.added >= c.input[2]

\* Its key is of the whole input.
XXKey(k) == k[2] = Copied(XX!Whole(0, BytesOf(k[1])), 8)

\* So it is for every thread and every key, and for an object that is fed.
XXInv == program.engine = "XXhash64" =>
  /\ DOMAIN xx = Threads /\ fed \in Nat
  /\ program.use = "stream" =>
       \A t \in program.threads : XXHas(xx[t], Bytes(StreamMessage, 0, fed))
  /\ program.use = "keys" => \A t \in program.threads : XXCall(call[t], xx[t])
  /\ \A k \in keys : XXKey(k)

\* Outside of hash() an XXHash64 object changes only when it is fed.
LEMMA XXElsewhere ==
  ASSUME NEW t, Elsewhere(t), program.engine = "XXhash64"
  PROVE  /\ UNCHANGED <<program, call, keys>>
         /\ \/ UNCHANGED <<xx, fed>>
            \/ \E n \in Pieces :
                 /\ program.use = "stream" /\ fed' = fed + n
                 /\ xx' = [xx EXCEPT ![t] = XX!add(xx[t], Bytes(StreamMessage, fed, n))]
<1>1. UNCHANGED <<program, call, keys>>
  BY ElsewhereStep
<1>2. CASE DetectFeatures(t) \/ StoreFeatures(t)
  BY <1>1, <1>2, Zenon DEF DetectFeatures, StoreFeatures, stream
<1>3. CASE \E how \in {"hash", "keyed", "derive"} : SetUp(t, how)
  BY <1>3 DEF SetUp, Streams
<1>4. CASE \E n \in Pieces : Update(t, n)
  <2>1. PICK n \in Pieces : Update(t, n)
    BY <1>4
  <2>2. program.engine # "Blake3"
    OBVIOUS
  <2>3. /\ program.use = "stream" /\ fed' = fed + n
        /\ xx' = [xx EXCEPT ![t] = XX!add(xx[t], Bytes(StreamMessage, fed, n))]
    BY <2>1, <2>2, Zenon DEF Update, Streams
  <2> QED
    BY <1>1, <2>3, Zenon
<1>5. CASE \E s \in Seeks : FinalizeSeek(t, s[1], s[2])
  BY <1>5 DEF FinalizeSeek, Streams
<1>6. CASE Reset(t)
  BY <1>6 DEF Reset, Streams
<1> QED
  BY <1>2, <1>3, <1>4, <1>5, <1>6, Zenon DEF Elsewhere

\* XXhash64Engine::hash() and add() keep to it, while no digest is copied from
\* the static `result'.
LEMMA XXStep ==
  ASSUME CallsInv, XXInv, [Next]_vars,
         program.use = "keys" /\ program.engine = "XXhash64" => program.nbytes >= 8
  PROVE  XXInv'
<1> SUFFICES ASSUME program' = program => program.engine = "XXhash64"
             PROVE  XXInv'
  BY Zenon DEF XXInv
<1>0. /\ program' = program => \A k : XXKey(k) => XXKey(k)'
      /\ program.threads \subseteq Threads
      /\ \A t \in program.threads : DOMAIN call = Threads /\ IsCall(call[t])
  <2>1. program' = program => \A k : XXKey(k) => XXKey(k)'
    BY Zenon DEF XXKey, Copied
  <2> QED
    BY <2>1, ThreadsAre
<1>1. CASE UNCHANGED vars
  <2>1. UNCHANGED <<program, call, xx, fed, keys>>
    BY <1>1, Zenon DEF vars, chosen, stream
  <2> QED
    BY <1>0, <2>1, Zenon DEF XXInv
<1>2. ASSUME NEW t \in program.threads, HashStep(t)
      PROVE  XXInv'
  <2>1. HashStepIs(t)
    BY <1>2, ThreadsAre, HashStepDoes
  <2>2. program' = program /\ program.engine = "XXhash64"
    BY <2>1, Zenon DEF HashStepIs
  <2>3. XXHash(t)
    BY <1>2, <2>2 DEF HashStep, DummyHash, Blake3Hash, CityHash, SHAHash, At
  <2>4. t \in Threads /\ DOMAIN call = Threads /\ IsCall(call[t])
    BY ThreadsAre
  <2>5. program.use = "keys" /\ fed' = fed
    BY <2>3, Zenon DEF XXHash, At, stream
  <2>6. /\ DOMAIN xx = Threads /\ fed \in Nat
        /\ \A u \in program.threads : XXCall(call[u], xx[u])
        /\ \A k \in keys : XXKey(k)
    BY <2>2, <2>5, Zenon DEF XXInv
  <2>7. ASSUME NEW c, Now(t, c), NEW object,
               xx' = [xx EXCEPT ![t] = object] \/ (xx' = xx /\ object = xx[t]),
               XXCall(c, object), \A k \in keys' : XXKey(k)
        PROVE  XXInv'
    <3>1. DOMAIN xx' = Threads /\ xx'[t] = object
          /\ \A u \in Threads : u # t => xx'[u] = xx[u]
      BY <2>4, <2>6, <2>7
    <3>2. \A u \in program.threads : XXCall(call'[u], xx'[u])
      BY <1>0, <2>4, <2>6, <2>7, <3>1, Zenon DEF Now
    <3>3. program'.use # "stream"
      BY <2>2, <2>5
    <3> QED
      BY <1>0, <2>2, <2>5, <2>6, <2>7, <3>1, <3>2, <3>3, Zenon DEF XXInv
  <2>9. call[t].input[1] \in Nat /\ call[t].input[2] \in Nat /\ call[t].added \in Nat
    BY <2>4 DEF IsCall
  <2>10. CASE call[t].pc = "init" /\ GoTo(t, "update") /\ keys' = keys
              /\ xx' = [xx EXCEPT ![t] = XX!NewXXHash64(0)]
    <3>1. Now(t, call'[t]) /\ call'[t].pc = "update" /\ call'[t].input = call[t].input
          /\ call'[t].added = call[t].added
      BY <2>4, <2>10, GoToIs
    <3>2. call[t].added = 0
      BY <2>6, <2>10, Zenon DEF XXCall
    <3>3. Least(call'[t].added, call'[t].input[2]) = 0
      BY <2>9, <3>1, <3>2 DEF Least
    <3>4. XXHas(XX!NewXXHash64(0), Bytes(call[t].input[1], 0, 0))
      BY <2>9, XXNew
    <3>5. XXCall(call'[t], XX!NewXXHash64(0))
      <4>1. call'[t].pc # "init" /\ call'[t].pc # "finalize"
        BY <3>1
      <4> QED
        BY <3>1, <3>3, <3>4, <4>1, Zenon DEF XXCall
    <3> QED
      BY <2>6, <2>7, <2>10, <3>1, <3>5, Zenon
  <2>11. CASE call[t].pc = "update" /\ keys' = keys
    <3> DEFINE i == call[t].added
               l == call[t].input[2]
               x == call[t].input[1]
               n == Least(update_len, l - i)
    <3>1. XXHas(xx[t], Bytes(x, 0, Least(i, l)))
      BY <2>6, <2>11, Zenon DEF XXCall
    <3>2. CASE i < l /\ xx' = [xx EXCEPT ![t] = XX!add(@, Bytes(x, i, n))]
               /\ call' = [call EXCEPT ![t].added = i + update_len]
      <4>1. i + update_len \in Nat /\ n \in Nat /\ Least(i, l) = i
            /\ i + n = Least(i + update_len, l)
        BY <2>9, <3>2, update_lenAssumption DEF Least
      <4>2. /\ Now(t, call'[t]) /\ call'[t].pc = call[t].pc
            /\ call'[t].input = call[t].input /\ call'[t].added = i + update_len
        BY <2>4, <3>2, <4>1, AddedIs
      <4>3. PICK object : object = XX!add(xx[t], Bytes(x, i, n))
        OBVIOUS
      <4>4. XXHas(object, Bytes(x, 0, i + n))
        <5>1. XXHas(xx[t], Bytes(x, 0, i))
          BY <3>1, <4>1, Zenon
        <5> HIDE DEF i, n, x
        <5>2. i \in Nat /\ x \in Nat
          BY <2>9, Zenon DEF i, x
        <5> QED
          BY <4>1, <4>3, <5>1, <5>2, XXAdd
      <4>5. XXCall(call'[t], object)
        <5>1. call'[t].pc # "init" /\ call'[t].pc # "finalize"
          BY <2>11, <4>2
        <5> QED
          BY <4>1, <4>2, <4>4, <5>1, Zenon DEF XXCall
      <4> QED
        BY <2>6, <2>7, <2>11, <3>2, <4>2, <4>3, <4>5, Zenon
    <3>3. CASE ~(i < l) /\ GoTo(t, "finalize") /\ xx' = xx
      <4>1. Now(t, call'[t]) /\ call'[t].pc = "finalize" /\ call'[t].input = call[t].input
            /\ call'[t].added = call[t].added
        BY <2>4, <3>3, GoToIs
      <4>2. call'[t].pc # "init" /\ call'[t].added >= call'[t].input[2]
        BY <2>9, <3>3, <4>1
      <4>3. XXCall(call'[t], xx[t])
        BY <3>1, <4>1, <4>2, Zenon DEF XXCall
      <4> QED
        BY <2>6, <2>7, <2>11, <3>3, <4>1, <4>3, Zenon
    <3>4. \/ /\ i < l /\ xx' = [xx EXCEPT ![t] = XX!add(@, Bytes(x, i, n))]
             /\ call' = [call EXCEPT ![t].added = i + update_len]
          \/ ~(i < l) /\ GoTo(t, "finalize") /\ xx' = xx
      <4>1. call[t].pc # "init" /\ call[t].pc # "finalize"
        BY <2>11
      <4> QED
        BY <2>3, <4>1, Zenon DEF XXHash, At, m, len
    <3> QED
      BY <3>2, <3>3, <3>4, Zenon
  <2>12. CASE call[t].pc = "finalize" /\ Return(t, Copied(XX!hash(xx[t]), 8)) /\ xx' = xx
    <3>1. Now(t, call'[t]) /\ call'[t].pc = "idle"
          /\ keys' = keys \cup {<<call[t].input, Copied(XX!hash(xx[t]), 8)>>}
      BY <2>4, <2>12, ReturnIs
    <3>2. XXHas(xx[t], BytesOf(call[t].input))
      <4>1. call[t].added >= call[t].input[2]
        BY <2>6, <2>12, Zenon DEF XXCall
      <4>2. Least(call[t].added, call[t].input[2]) = call[t].input[2]
        BY <2>9, <4>1 DEF Least
      <4>3. XXHas(xx[t], Bytes(call[t].input[1], 0, Least(call[t].added, call[t].input[2])))
        BY <2>6, <2>12, Zenon DEF XXCall
      <4> QED
        BY <4>2, <4>3, Zenon DEF BytesOf
    <3>3. XX!hash(xx[t]) = XX!Whole(0, BytesOf(call[t].input))
      BY <3>2, HashIsWhole, ZenonT(60) DEF XXHas
    <3>4. XXKey(<<call[t].input, Copied(XX!hash(xx[t]), 8)>>)
      BY <3>3 DEF XXKey
    <3>5. XXCall(call'[t], xx[t])
      BY <3>1 DEF XXCall
    <3>6. \A k \in keys' : XXKey(k)
      BY <2>6, <3>1, <3>4
    <3> QED
      BY <2>7, <2>12, <3>1, <3>5, <3>6, Zenon
  <2> QED
    <3>1. program.nbytes >= 8
      BY <2>2, <2>5
    <3> QED
      BY <2>3, <2>10, <2>11, <2>12, <3>1, Zenon DEF XXHash, At
<1>3. ASSUME NEW t \in program.threads, Elsewhere(t)
      PROVE  XXInv'
  <2>1. UNCHANGED <<program, call, keys>> /\ program.engine = "XXhash64"
    BY <1>3, ElsewhereStep
  <2>2. CASE UNCHANGED <<xx, fed>>
    BY <1>0, <2>1, <2>2, Zenon DEF XXInv
  <2>3. ASSUME NEW n \in Pieces, program.use = "stream", fed' = fed + n,
               xx' = [xx EXCEPT ![t] = XX!add(xx[t], Bytes(StreamMessage, fed, n))]
        PROVE  XXInv'
    <3>1. \A u \in program.threads : u = t
      BY <2>3, ProgramsAssumption DEF CallsInv
    <3>2. /\ DOMAIN xx = Threads /\ fed \in Nat /\ t \in Threads
          /\ XXHas(xx[t], Bytes(StreamMessage, 0, fed)) /\ \A k \in keys : XXKey(k)
      BY <1>0, <2>1, <2>3, Zenon DEF XXInv
    <3>3. n \in Nat /\ fed' \in Nat /\ StreamMessage \in Nat
      BY <2>3, <3>2, PiecesAssumption DEF StreamMessage
    <3>4. PICK object : object = XX!add(xx[t], Bytes(StreamMessage, fed, n))
      OBVIOUS
    <3>5. XXHas(object, Bytes(StreamMessage, 0, fed + n))
      BY <3>2, <3>3, <3>4, XXAdd
    <3>6. DOMAIN xx' = Threads /\ xx'[t] = object
      BY <2>3, <3>2, <3>4
    <3>7. program.use # "keys"
      BY <2>3
    <3> QED
      BY <1>0, <2>1, <2>3, <3>1, <3>2, <3>3, <3>5, <3>6, <3>7, Zenon DEF XXInv
  <2> QED
    BY <1>3, <2>1, <2>2, <2>3, XXElsewhere, Zenon
<1>4. ASSUME NEW t \in program.threads, NEW input \in program.inputs, MakeKey(t, input)
      PROVE  XXInv'
  <2>1. UNCHANGED <<program, xx, fed, keys>> /\ program.use = "keys"
    BY <1>4, Zenon DEF MakeKey, chosen, stream
  <2>2. Now(t, call'[t]) /\ call'[t].pc = "init" /\ call'[t].added = 0
    BY <1>4, ThreadsAre, MakeKeyIs
  <2>3. XXCall(call'[t], xx[t])
    BY <2>2 DEF XXCall
  <2>4. /\ \A u \in program.threads : XXCall(call[u], xx[u])
    BY <2>1, Zenon DEF XXInv
  <2>5. \A u \in program.threads : XXCall(call'[u], xx[u])
    BY <1>0, <2>2, <2>3, <2>4, Zenon DEF Now
  <2>6. program.use # "stream"
    BY <2>1
  <2> QED
    BY <1>0, <2>1, <2>5, <2>6, Zenon DEF XXInv
<1> QED
  BY <1>1, <1>2, <1>3, <1>4, Steps, Zenon

-----------------------------------------------------------------------------
\* What the values tell.

\* From the value of an input its length can be told, and its first byte.
LEMMA WholeIs ==
  ASSUME NEW S, NEW bytes \in Seq(S), NEW n \in Nat, Len(bytes) = n
  PROVE  /\ XX!Whole(0, bytes)[2] = n
         /\ n >= 32 => XX!Whole(0, bytes)[1][2][1][1] = bytes[1]
         /\ n >= 8 /\ n < 32 => XX!Whole(0, bytes)[3][1][1] = bytes[1]
         /\ n >= 4 /\ n < 8 => XX!Whole(0, bytes)[4][1][1] = bytes[1]
         /\ n > 0 /\ n < 4 => XX!Whole(0, bytes)[5][1] = bytes[1]
<1> DEFINE Part(from, to) == [i \in 1 .. to - from |-> bytes[from + i]]
           four == n - (n % 8)
           one == n - (n % 4)
<1>1. XX!Whole(0, bytes) =
         <<IF n \div 32 = 0 THEN <<0, <<>>>>
           ELSE <<0, [b \in 1 .. n \div 32 |-> Part(32 * (b - 1), 32 * b)], "folded">>,
           n,
           [w \in 1 .. (n % 32) \div 8 |->
              Part(32 * (n \div 32) + 8 * (w - 1), 32 * (n \div 32) + 8 * w)],
           IF one = four THEN <<>> ELSE <<Part(four, one)>>,
           Part(one, n)>>
  <2>1. XX!MaxBufferSize = 32
    BY DEF XX!MaxBufferSize
  <2> QED
    BY <2>1, Zenon DEF XX!Whole
<1>2. \A from, to \in Nat : to > from => Part(from, to)[1] = bytes[from + 1]
  <2> TAKE from \in Nat, to \in Nat
  <2>1. to > from => 1 \in 1 .. to - from
    OBVIOUS
  <2> QED
    BY <2>1, Zenon
<1> HIDE DEF Part
<1>3. XX!Whole(0, bytes)[2] = n
  BY <1>1
<1>4. CASE n >= 32
  <2>1. n \div 32 # 0 /\ 1 \in 1 .. n \div 32
    BY <1>4
  <2>2. PICK blocks : blocks = [b \in 1 .. n \div 32 |-> Part(32 * (b - 1), 32 * b)]
    OBVIOUS
  <2>3. XX!Whole(0, bytes)[1] = <<0, blocks, "folded">> /\ blocks[1] = Part(32 * (1 - 1), 32 * 1)
    BY <1>1, <2>1, <2>2
  <2>4. Part(0, 32)[1] = bytes[1]
    <3>1. PICK from \in Nat, to \in Nat : from = 0 /\ to = 32 /\ to > from /\ from + 1 = 1
      OBVIOUS
    <3>2. Part(from, to)[1] = bytes[from + 1]
      BY <1>2, <3>1, Zenon
    <3> QED
      BY <3>1, <3>2, Zenon
  <2>5. 32 * (1 - 1) = 0 /\ 32 * 1 = 32
    OBVIOUS
  <2> QED
    BY <1>3, <1>4, <2>3, <2>4, <2>5
<1>5. CASE n >= 8 /\ n < 32
  <2>1. n \div 32 = 0 /\ n % 32 = n /\ 1 \in 1 .. n \div 8
    BY <1>5
  <2>2. XX!Whole(0, bytes)[3] =
          [w \in 1 .. n \div 8 |-> Part(32 * 0 + 8 * (w - 1), 32 * 0 + 8 * w)]
    BY <1>1, <2>1
  <2>3. XX!Whole(0, bytes)[3][1] = Part(32 * 0 + 8 * (1 - 1), 32 * 0 + 8 * 1)
    BY <2>1, <2>2, ZenonT(40)
  <2>4. Part(0, 8)[1] = bytes[1]
    BY <1>2, SMTT(40)
  <2>5. 32 * 0 + 8 * (1 - 1) = 0 /\ 32 * 0 + 8 * 1 = 8
    OBVIOUS
  <2> QED
    BY <1>3, <1>5, <2>3, <2>4, <2>5
<1>6. CASE n >= 4 /\ n < 8
  <2>1. four = 0 /\ one = 4
    BY <1>6
  <2> HIDE DEF four, one
  <2>2. XX!Whole(0, bytes)[4] = <<Part(0, 4)>>
    BY <1>1, <2>1
  <2>3. Part(0, 4)[1] = bytes[1]
    BY <1>2
  <2> QED
    BY <1>3, <1>6, <2>2, <2>3
<1>7. CASE n > 0 /\ n < 4
  <2>1. one = 0
    BY <1>7
  <2> HIDE DEF four, one
  <2>2. XX!Whole(0, bytes)[5] = Part(0, n)
    BY <1>1, <2>1
  <2>3. Part(0, n)[1] = bytes[1]
    BY <1>2, <1>7
  <2> QED
    BY <1>3, <1>7, <2>2, <2>3
<1>8. CASE n = 0
  BY <1>3, <1>8
<1> QED
  BY <1>4, <1>5, <1>6, <1>7, <1>8

\* Two inputs of equal bytes, or none.
Same(i, j) == i[2] = j[2] /\ (i[1] = j[1] \/ i[2] = 0)

\* Inputs that are the same have the same bytes, and inputs of one length whose
\* first bytes are the same are the same.
LEMMA SameBytes ==
  ASSUME NEW i \in Nat \X Nat, NEW j \in Nat \X Nat
  PROVE  /\ Same(i, j) => BytesOf(i) = BytesOf(j)
         /\ i[2] = j[2] /\ (i[2] > 0 => BytesOf(i)[1] = BytesOf(j)[1]) => Same(i, j)
<1>1. Same(i, j) => BytesOf(i) = BytesOf(j)
  <2>1. CASE i[1] = j[1]
    BY <2>1 DEF Same, BytesOf
  <2>2. CASE i[2] = 0 /\ j[2] = 0
    BY <2>2 DEF BytesOf, Bytes
  <2> QED
    BY <2>1, <2>2 DEF Same
<1>2. ASSUME i[2] = j[2], i[2] > 0 => BytesOf(i)[1] = BytesOf(j)[1]
      PROVE  Same(i, j)
  <2>1. CASE i[2] = 0
    BY <1>2, <2>1 DEF Same
  <2>2. CASE i[2] > 0
    <3>1. ASSUME NEW k \in Nat \X Nat, k[2] > 0
          PROVE  BytesOf(k)[1] = <<k[1], IF k[1] = 0 THEN 0 ELSE 1>>
      <4>1. BytesOf(k)[1] = IF k[1] = 0 THEN <<0, 0>> ELSE <<k[1], 0 + 1>>
        BY <3>1 DEF BytesOf, Bytes, Zero
      <4> QED
        BY <3>1, <4>1
    <3>2. /\ BytesOf(i)[1] = <<i[1], IF i[1] = 0 THEN 0 ELSE 1>>
          /\ BytesOf(j)[1] = <<j[1], IF j[1] = 0 THEN 0 ELSE 1>>
      BY <1>2, <2>2, <3>1
    <3>3. i[1] = j[1]
      BY <1>2, <2>2, <3>2
    <3> QED
      BY <1>2, <3>3 DEF Same
  <2> QED
    BY <2>1, <2>2
<1> QED
  BY <1>1, <1>2

\* CityHashCrc256: the value tells an input from any other, a long one from a
\* short one that was filled up included.
LEMMA CityTells ==
  ASSUME NEW i \in Nat \X Nat, NEW j \in Nat \X Nat
  PROVE  CityValue(i) = CityValue(j) <=> Same(i, j)
<1> DEFINE Long(k) == k[2] >= 240
<1>1. ASSUME NEW k \in Nat \X Nat
      PROVE  CityValue(k) = <<IF Long(k) THEN 0 ELSE -1 - k[2],
                              IF Long(k) THEN k[2] ELSE 240,
                              IF k[1] = 0 \/ k[2] = 0 THEN <<>> ELSE <<k[1], k[2]>>>>
  BY DEF CityValue, City!CityHashCrc256, City!CityHashCrc256Long, City!CityHashCrc256Short,
     City!Content
<1>2. ASSUME Same(i, j)
      PROVE  CityValue(i) = CityValue(j)
  BY <1>1, <1>2 DEF Same
<1>3. ASSUME CityValue(i) = CityValue(j)
      PROVE  Same(i, j)
  <2>1. i[2] = j[2]
    BY <1>1, <1>3
  <2>2. i[2] # 0 => i[1] = j[1]
    BY <1>1, <1>3
  <2> QED
    BY <2>1, <2>2 DEF Same
<1> QED
  BY <1>2, <1>3

\* The bytes of a whole message.
LEMMA FirstBytes ==
  ASSUME NEW x \in Nat, NEW n \in Nat
  PROVE  Bytes(x, 0, n) \in Seq(ByteSet) /\ Len(Bytes(x, 0, n)) = n
BY BytesAre

\* xxHash: the value tells an input from any other.
LEMMA WholeTells ==
  ASSUME NEW i \in Nat \X Nat, NEW j \in Nat \X Nat
  PROVE  XX!Whole(0, BytesOf(i)) = XX!Whole(0, BytesOf(j)) <=> Same(i, j)
<1>1. ASSUME NEW k \in Nat \X Nat
      PROVE  BytesOf(k) \in Seq(ByteSet) /\ Len(BytesOf(k)) = k[2] /\ k[2] \in Nat
  <2>1. PICK x \in Nat, n \in Nat : x = k[1] /\ n = k[2]
    OBVIOUS
  <2>2. Bytes(x, 0, n) \in Seq(ByteSet) /\ Len(Bytes(x, 0, n)) = n
    BY FirstBytes
  <2> QED
    BY <2>1, <2>2, Zenon DEF BytesOf
<1>2. ASSUME XX!Whole(0, BytesOf(i)) = XX!Whole(0, BytesOf(j))
      PROVE  Same(i, j)
  <2>1. /\ BytesOf(i) \in Seq(ByteSet) /\ Len(BytesOf(i)) = i[2] /\ i[2] \in Nat
        /\ BytesOf(j) \in Seq(ByteSet) /\ Len(BytesOf(j)) = j[2] /\ j[2] \in Nat
    BY <1>1
  <2>2. i[2] = j[2]
    BY <1>2, <2>1, WholeIs
  <2>3. i[2] > 0 => BytesOf(i)[1] = BytesOf(j)[1]
    <3>1. CASE i[2] >= 32
      BY <1>2, <2>1, <2>2, <3>1, WholeIs
    <3>2. CASE i[2] >= 8 /\ i[2] < 32
      BY <1>2, <2>1, <2>2, <3>2, WholeIs
    <3>3. CASE i[2] >= 4 /\ i[2] < 8
      BY <1>2, <2>1, <2>2, <3>3, WholeIs
    <3>4. CASE i[2] > 0 /\ i[2] < 4
      BY <1>2, <2>1, <2>2, <3>4, WholeIs
    <3> QED
      BY <2>1, <3>1, <3>2, <3>3, <3>4
  <2> QED
    BY <2>2, <2>3, SameBytes
<1>3. ASSUME Same(i, j)
      PROVE  XX!Whole(0, BytesOf(i)) = XX!Whole(0, BytesOf(j))
  <2>1. BytesOf(i) = BytesOf(j)
    BY <1>3, SameBytes
  <2> QED
    BY <2>1, Zenon
<1> QED
  BY <1>2, <1>3

\* So do the bytes themselves.
LEMMA BytesTell ==
  ASSUME NEW i \in Nat \X Nat, NEW j \in Nat \X Nat
  PROVE  BytesOf(i) = BytesOf(j) <=> Same(i, j)
<1>1. ASSUME NEW k \in Nat \X Nat
      PROVE  Len(BytesOf(k)) = k[2]
  <2>1. PICK x \in Nat, n \in Nat : x = k[1] /\ n = k[2]
    OBVIOUS
  <2>2. Len(Bytes(x, 0, n)) = n
    BY FirstBytes
  <2> QED
    BY <2>1, <2>2, Zenon DEF BytesOf
<1>2. ASSUME BytesOf(i) = BytesOf(j)
      PROVE  Same(i, j)
  <2>1. i[2] = j[2]
    BY <1>1, <1>2
  <2> QED
    BY <1>2, <2>1, SameBytes
<1> QED
  BY <1>2, SameBytes

-----------------------------------------------------------------------------
\* The keys.

\* No program takes a digest from a `result' that is static and that another
\* call may have written: an xxHash64 digest has room for all eight bytes, and
\* one thread alone makes City digests of less than 32 bytes.
NoSharedResult == \A p \in Programs : p.use = "keys" =>
  /\ p.engine = "XXhash64" => p.nbytes >= 8
  /\ p.engine = "City256" /\ p.nbytes < 32 => \E t \in Threads : p.threads = {t}

\* The invariant of the engines.
EnginesInv == CallsInv /\ KeysInv /\ DummyInv /\ SHAInv /\ CityInv /\ XXInv

\* It holds at the start,
LEMMA EnginesInit ==
  ASSUME Init
  PROVE  EnginesInv
<1>1. CallsInv /\ KeysInv
  BY CallsInit
<1>2. /\ keys = {} /\ fed = 0 /\ DOMAIN mdctx = Threads
      /\ DOMAIN xx = Threads /\ \A t \in Threads : xx[t] = XX!NewXXHash64(0)
      /\ \A t \in Threads : call[t] = Idle
      /\ program.threads \subseteq Threads
  <2>1. /\ keys = {} /\ fed = 0 /\ call = [t \in Threads |-> Idle]
        /\ mdctx = [t \in Threads |-> Unset] /\ xx = [t \in Threads |-> XX!NewXXHash64(0)]
    BY Zenon DEF Init
  <2>2. program.threads \subseteq Threads
    BY <1>1, ProgramsAssumption, Zenon DEF CallsInv
  <2> QED
    BY <2>1, <2>2, Zenon
<1>3. /\ \A context : SHACall(Idle, context)
      /\ \A result : CityCall(Idle, result)
      /\ \A object : XXCall(Idle, object)
  BY DEF SHACall, CityCall, XXCall, Idle
<1>4. XXHas(XX!NewXXHash64(0), Bytes(StreamMessage, 0, 0))
  BY XXNew DEF StreamMessage
<1>5. DummyInv /\ SHAInv /\ CityInv
  BY <1>2, <1>3, Zenon DEF DummyInv, SHAInv, CityInv
<1>6. fed \in Nat
  BY <1>2
<1>7. XXInv
  BY <1>2, <1>3, <1>4, <1>6, Zenon DEF XXInv
<1> QED
  BY <1>1, <1>5, <1>7 DEF EnginesInv

\* and every step keeps it,
LEMMA EnginesStep ==
  ASSUME NoSharedResult, EnginesInv, [Next]_vars
  PROVE  EnginesInv'
<1>1. program \in Programs
  BY DEF EnginesInv, CallsInv
<1>2. CallsInv' /\ KeysInv' /\ DummyInv' /\ SHAInv'
  BY CallsStep, DummyStep, SHAStep, Zenon DEF EnginesInv
<1>3. /\ program.use = "keys" /\ program.engine = "XXhash64" => program.nbytes >= 8
      /\ program.use = "keys" /\ program.engine = "City256" /\ program.nbytes < 32 => Alone
  BY <1>1, Zenon DEF NoSharedResult, Alone
<1> QED
  BY <1>2, <1>3, CityStep, XXStep, Zenon DEF EnginesInv

\* and the properties follow from it.
LEMMA EnginesAreRight ==
  ASSUME EnginesInv
  PROVE  /\ XXHashIsWhole
         /\ program.engine \in {"Dummy", "SHA", "XXhash64", "City256"} => SameKeyIffSameInput
<1>1. ASSUME NEW value, NEW size
      PROVE  Copied(value, size).of = value
  BY DEF Copied
<1>2. XXHashIsWhole
  <2> SUFFICES ASSUME program.engine = "XXhash64"
               PROVE  /\ program.use = "stream" =>
                           \A t \in program.threads :
                             XX!hash(xx[t]) = XX!Whole(0, Bytes(StreamMessage, 0, fed))
                      /\ \A k \in keys : k[2].of = XX!Whole(0, Bytes(k[1][1], 0, k[1][2]))
    BY Zenon DEF XXHashIsWhole
  <2>1. ASSUME program.use = "stream", NEW t \in program.threads
        PROVE  XX!hash(xx[t]) = XX!Whole(0, Bytes(StreamMessage, 0, fed))
    <3>1. XXHas(xx[t], Bytes(StreamMessage, 0, fed))
      BY <2>1, Zenon DEF EnginesInv, XXInv
    <3> QED
      BY <3>1, HashIsWhole, ZenonT(60) DEF XXHas
  <2>2. ASSUME NEW k \in keys
        PROVE  k[2].of = XX!Whole(0, Bytes(k[1][1], 0, k[1][2]))
    <3>1. XXKey(k)
      BY <2>2, Zenon DEF EnginesInv, XXInv
    <3>2. k[2] = Copied(XX!Whole(0, Bytes(k[1][1], 0, k[1][2])), 8)
      BY <3>1, Zenon DEF XXKey, BytesOf
    <3>3. PICK value : value = XX!Whole(0, Bytes(k[1][1], 0, k[1][2]))
      OBVIOUS
    <3>4. k[2] = Copied(value, 8) /\ Copied(value, 8).of = value
      BY <1>1, <3>2, <3>3, Zenon
    <3> QED
      BY <3>3, <3>4
  <2> QED
    BY <2>1, <2>2
<1>3. ASSUME program.engine \in {"Dummy", "SHA", "XXhash64", "City256"},
             NEW k \in keys, NEW l \in keys
      PROVE  /\ Same(k[1], l[1]) => k[2] = l[2]
             /\ k[2] = l[2] /\ program.engine # "Dummy" => Same(k[1], l[1])
  <2>1. k[1] \in Nat \X Nat /\ l[1] \in Nat \X Nat
    BY ProgramsAssumption, Zenon DEF EnginesInv, CallsInv, KeysInv
  <2>2. CASE program.engine = "Dummy"
    <3>1. /\ k[2] = [of |-> Slots(k[1][2], program.nbytes), at |-> <<>>]
          /\ l[2] = [of |-> Slots(l[1][2], program.nbytes), at |-> <<>>]
      BY <2>2, Zenon DEF EnginesInv, DummyInv
    <3>2. Same(k[1], l[1]) => k[1][2] = l[1][2]
      BY DEF Same
    <3> QED
      BY <2>2, <3>1, <3>2, Zenon
  <2>3. ASSUME NEW v, NEW w, NEW size, k[2] = Copied(v, size), l[2] = Copied(w, size),
               v = w <=> Same(k[1], l[1])
        PROVE  k[2] = l[2] <=> Same(k[1], l[1])
    <3>1. k[2].of = v /\ l[2].of = w
      BY <1>1, <2>3, Zenon
    <3>2. k[2] = l[2] => v = w
      BY <3>1
    <3> QED
      BY <2>3, <3>2, Zenon
  <2>4. CASE program.engine = "SHA"
    <3>1. SHAKey(k) /\ SHAKey(l)
      BY <2>4, Zenon DEF EnginesInv, SHAInv
    <3>2. PICK v, w : v = BytesOf(k[1]) /\ w = BytesOf(l[1])
      OBVIOUS
    <3>3. k[2] = Copied(<<v>>, program.size) /\ l[2] = Copied(<<w>>, program.size)
      BY <3>1, <3>2, Zenon DEF SHAKey
    <3>4. v = w <=> Same(k[1], l[1])
      BY <2>1, <3>2, BytesTell
    <3>5. <<v>> = <<w>> <=> Same(k[1], l[1])
      BY <3>4
    <3> QED
      BY <2>3, <3>3, <3>5, Zenon
  <2>5. CASE program.engine = "XXhash64"
    <3>1. XXKey(k) /\ XXKey(l)
      BY <2>5, Zenon DEF EnginesInv, XXInv
    <3>2. XX!Whole(0, BytesOf(k[1])) = XX!Whole(0, BytesOf(l[1])) <=> Same(k[1], l[1])
      BY <2>1, WholeTells
    <3> QED
      BY <2>3, <3>1, <3>2, Zenon DEF XXKey
  <2>6. CASE program.engine = "City256"
    <3>1. CityKey(k) /\ CityKey(l)
      BY <2>6, Zenon DEF EnginesInv, CityInv
    <3>2. CityValue(k[1]) = CityValue(l[1]) <=> Same(k[1], l[1])
      BY <2>1, CityTells
    <3> QED
      BY <2>3, <3>1, <3>2, Zenon DEF CityKey
  <2> QED
    BY <1>3, <2>2, <2>4, <2>5, <2>6
<1> QED
  BY <1>2, <1>3, Zenon DEF SameKeyIffSameInput, Same

\* XXHash64: however a message is cut into pieces for add(), of whatever length,
\* hash() is at any time that of all the bytes so far taken as one input; and
\* XXhash64Engine, which cuts an input itself, makes the key of the input.
THEOREM XXHashOfTheWhole == NoSharedResult => (Spec => []XXHashIsWhole)
<1> SUFFICES ASSUME NoSharedResult
             PROVE  Spec => []XXHashIsWhole
  OBVIOUS
<1>1. EnginesInv => XXHashIsWhole
  BY EnginesAreRight
<1>2. EnginesInv /\ [Next]_vars => EnginesInv'
  BY EnginesStep
<1> QED
  BY <1>1, <1>2, EnginesInit, PTL DEF Spec

-----------------------------------------------------------------------------
\* BLAKE3: the hashers of HashEngines are those that Blake3Proofs is about.

\* The number of chunks that are hashed at a time is a power of two, whatever
\* the features.
LEMMA DegreeIsPower ==
  \A f : blake3_simd_degree(f) \in Pow2
<1>1. 1 \in Pow2 /\ 2 * 1 \in Pow2 /\ 2 * (2 * 1) \in Pow2 /\ 2 * (2 * (2 * 1)) \in Pow2
      /\ 2 * (2 * (2 * (2 * 1))) \in Pow2
  BY PowersOf2
<1>2. 2 * (2 * 1) = 4 /\ 2 * (2 * (2 * 1)) = 8 /\ 2 * (2 * (2 * (2 * 1))) = 16
  OBVIOUS
<1>3. 1 \in Pow2 /\ 4 \in Pow2 /\ 8 \in Pow2 /\ 16 \in Pow2
  BY <1>1, <1>2, Zenon
<1> QED
  BY <1>3, Zenon DEF blake3_simd_degree

\* A ladder of k steps is at least 2^(k - 1) high: each step but the last is at
\* least as high as what lies above it without the last.
LEMMA LadderHeight ==
  ASSUME NEW at, NEW s, NEW k, NEW c, Ladder(at, s, k, c), k # 0
  PROVE  k - 1 \in Nat /\ 2^(k - 1) <= c
<1> DEFINE Fine(i, j) == at[i] + 2^j <= c /\ (i # k => 2^j <= 2 * s[i])
           Bad == {j \in Nat : \E i \in 1 .. k : i + j = k /\ ~ Fine(i, j)}
<1>0. k \in Nat /\ at[1] = 0 /\ at[k + 1] = c
  BY DEF Ladder
<1>1. k - 1 \in Nat /\ 1 \in 1 .. k /\ 1 + (k - 1) = k
  BY <1>0
<1>2. ASSUME NEW j \in Bad, \A x \in Bad : j <= x
      PROVE  FALSE
  <2>1. PICK i \in 1 .. k : i + j = k /\ ~ Fine(i, j)
    OBVIOUS
  <2>2. PICK a \in Nat, b \in Nat, d \in Nat \ {0} : a = at[i] /\ d = s[i] /\ b = at[i + 1] /\ b = a + d
    BY Rung
  <2>3. CASE j = 0
    <3>1. i = k /\ 2^j = 1
      BY <1>0, <2>1, <2>3, TwoTo
    <3>2. b = c
      BY <1>0, <2>2, <3>1
    <3>3. a + 1 <= c
      BY <2>2, <3>2
    <3> QED
      BY <2>1, <2>2, <3>1, <3>3
  <2>4. CASE j # 0
    <3>1. PICK h \in 1 .. k, l \in Nat : h = i + 1 /\ l = j - 1 /\ j = l + 1 /\ h + l = k /\ i # k /\ l < j
      <4>1. i + 1 \in 1 .. k /\ j - 1 \in Nat /\ j = (j - 1) + 1 /\ (i + 1) + (j - 1) = k /\ i # k /\ j - 1 < j
        BY <1>0, <2>1, <2>4
      <4> QED
        BY <4>1
    <3>2. Fine(h, l)
      <4>1. l \notin Bad
        BY <3>1, <1>2
      <4> QED
        BY <3>1, <4>1
    <3>3. PICK w \in Nat : w = 2^l /\ 2^j = 2 * w
      BY <3>1, TwoTo
    <3>4. PICK e \in Nat \ {0} : e = s[h] /\ e <= d /\ (h # k => e < d)
      BY <2>2, <3>1, Rung
    <3>5. b + w <= c /\ (h # k => w <= 2 * e)
      BY <2>2, <3>1, <3>2, <3>3, <3>4
    <3>6. w <= d
      <4>1. CASE h = k
        <5>1. l = 0
          BY <1>0, <3>1, <4>1
        <5>2. w = 1
          BY <3>3, <5>1, TwoTo
        <5> QED
          BY <2>2, <5>2
      <4>2. CASE h # k
        <5>1. e \in Pow2 /\ d \in Pow2
          BY <2>2, <3>1, <3>4, Rung
        <5>2. 2 * e <= d
          BY <3>4, <4>2, <5>1, PowerDivides
        <5>3. w <= 2 * e
          BY <3>5, <4>2
        <5> QED
          BY ONLY <5>2, <5>3, w \in Nat, e \in Nat \ {0}, d \in Nat \ {0}
      <4> QED
        BY <4>1, <4>2
    <3>7. c \in Nat
      BY Rung
    <3>8. a + 2 * w <= c /\ 2 * w <= 2 * d
      <4>1. b = a + d
        BY <2>2
      <4>2. b + w <= c
        BY <3>5
      <4> QED
        BY ONLY <3>6, <3>7, <4>1, <4>2, a \in Nat, b \in Nat, d \in Nat, w \in Nat
    <3> QED
      BY <2>1, <2>2, <3>3, <3>8
  <2> QED
    BY <2>3, <2>4
<1>3. Bad = {}
  <2>1. Bad \in SUBSET Nat
    OBVIOUS
  <2> HIDE DEF Bad
  <2> QED
    BY <1>2, <2>1, LeastNumber
<1>4. Fine(1, k - 1)
  BY <1>1, <1>3
<1>5. 2^(k - 1) \in Nat
  BY <1>1, TwoTo
<1>6. at[1] + 2^(k - 1) <= c
  BY <1>4
<1>7. c \in Nat
  BY <1>1, Rung
<1>8. \A x \in Nat : 0 + x <= c => x <= c
  BY <1>7
<1> QED
  BY <1>0, <1>1, <1>5, <1>6, <1>8

\* What is so of any hasher that was set up and fed: its buffer and its chunk
\* are not over-full, and its stack is at most one longer than the tree over
\* the chunks so far is deep, and where the chunk is empty holds two chaining
\* values or none.
SoundHasher(h) ==
  /\ h.chunk.buf_len \in 0 .. BLAKE3_BLOCK_LEN
  /\ chunk_state_len(h.chunk) \in 0 .. BLAKE3_CHUNK_LEN
  /\ Len(h.cv_stack) > 0 =>
       /\ 2^(Len(h.cv_stack) - 1) <= h.chunk.chunk_counter
       /\ chunk_state_len(h.chunk) = 0 => Len(h.cv_stack) >= 2

LEMMA AfterIsSound ==
  ASSUME NEW p, NEW n, NEW h, After(p, n, h)
  PROVE  SoundHasher(h)
<1>1. PICK c \in Nat, r \in Nat : \E st :
        /\ n = InChunks(c) + r /\ r <= CL /\ h = HasherAt(p, c, r, st) /\ Stands(p, c, st)
        /\ r # 0 => Settled(p, c, st)
        /\ r = 0 /\ Len(st) # 0 => Len(st) >= 2
  BY Zenon DEF After
<1>2. PICK st :
        /\ r <= CL /\ h = HasherAt(p, c, r, st) /\ Stands(p, c, st)
        /\ r = 0 /\ Len(st) # 0 => Len(st) >= 2
  BY <1>1, Zenon
<1>3. h.chunk = ChunkAt(p, c, r) /\ h.cv_stack = st
  BY <1>2, HasherAtIs
<1>4. /\ chunk_state_len(h.chunk) = r /\ h.chunk.buf_len \in 0 .. BL /\ h.chunk.chunk_counter = c
  <2>1. /\ chunk_state_len(ChunkAt(p, c, r)) = r /\ ChunkAt(p, c, r).buf_len \in 0 .. BL
        /\ ChunkAt(p, c, r).chunk_counter = c
    BY ChunkLen
  <2> QED
    BY <1>3, <2>1, Zenon
<1>5. PICK at, s, k : Ladder(at, s, k, c) /\ st = Pile(p, at, s, k)
  BY <1>2, Zenon DEF Stands
<1>6. k \in Nat
  BY <1>5 DEF Ladder
<1>7. Len(h.cv_stack) = k
  BY <1>3, <1>5, <1>6, PileIs
<1>8. k > 0 => 2^(k - 1) <= c
  <2> HAVE k > 0
  <2>1. k # 0
    BY <1>6
  <2> QED
    BY <1>5, <2>1, LadderHeight
<1>9. r \in 0 .. CL /\ (k > 0 /\ r = 0 => k >= 2)
  <2>1. CL \in Nat /\ r <= CL
    BY <1>2, Lengths
  <2>2. k # 0 /\ r = 0 => k >= 2
    BY <1>2, <1>3, <1>7, Zenon
  <2> QED
    BY <1>6, <2>1, <2>2
<1> QED
  BY <1>4, <1>7, <1>8, <1>9, Zenon DEF SoundHasher, BL, CL

-----------------------------------------------------------------------------
\* The bytes that a stream or an engine feeds.

\* The bytes of a message are pairs,
BytePairs == Nat \X Nat

\* and what is cut from a message is the bytes there.
LEMMA BytesCut ==
  ASSUME NEW x \in Nat, NEW size \in Nat, NEW from \in Nat, NEW n \in Nat, from + n <= size
  PROVE  /\ Bytes(x, 0, size) \in Seq(BytePairs) /\ Len(Bytes(x, 0, size)) = size
         /\ Bytes(x, from, n) = Cut(Bytes(x, 0, size), from, n)
<1> DEFINE Byte(i) == IF x = 0 THEN Zero ELSE <<x, i>>
<1>1. \A i \in Nat : Byte(i) \in BytePairs
  BY DEF BytePairs, Zero
<1>2. \A f, l : Bytes(x, f, l) = [i \in 1 .. l |-> Byte(f + i)]
  BY DEF Bytes
<1> HIDE DEF Byte
<1>3. PICK M : M = Bytes(x, 0, size)
  OBVIOUS
<1>4. M = [i \in 1 .. size |-> Byte(i)]
  <2>1. \A i \in 1 .. size : 0 + i = i
    OBVIOUS
  <2>2. M = [i \in 1 .. size |-> Byte(0 + i)]
    BY <1>2, <1>3, Zenon
  <2> QED
    BY <2>1, <2>2
<1>5. M \in Seq(BytePairs) /\ Len(M) = size
  BY <1>1, <1>4
<1>6. \A i \in 1 .. n : from + i \in 1 .. size /\ Byte(from + i) = M[from + i]
  BY <1>4
<1>7. Bytes(x, from, n) = Cut(M, from, n)
  <2>1. Bytes(x, from, n) = [i \in 1 .. n |-> Byte(from + i)]
    BY <1>2
  <2> QED
    BY <1>6, <2>1 DEF Cut
<1> QED
  BY <1>3, <1>5, <1>7, Zenon

\* A hasher that was set up with a key and flags and has taken the first n
\* bytes of a message of some size.
Fed(key, flags, x, size, n, h) == After(<<key, flags, Bytes(x, 0, size)>>, n, h)

\* It is so at first and after a reset,
LEMMA FedNothing ==
  ASSUME NEW key, NEW flags, NEW x, NEW size
  PROVE  /\ Fed(key, flags, x, size, 0, hasher_init_base(key, flags))
         /\ \A n, h : Fed(key, flags, x, size, n, h) => Fed(key, flags, x, size, 0, blake3_hasher_reset(h))
<1>1. PICK p : p = <<key, flags, Bytes(x, 0, size)>>
  OBVIOUS
<1>2. p[1] = key /\ p[2] = flags
  BY <1>1
<1> QED
  BY <1>1, <1>2, NewHasher, Zenon DEF Fed

\* after an update with what comes next of the message,
LEMMA FedMore ==
  ASSUME NEW key, NEW flags, NEW x \in Nat, NEW size \in Nat, NEW from \in Nat, NEW n \in Nat,
         from + n <= size, NEW h, Fed(key, flags, x, size, from, h), NEW f
  PROVE  Fed(key, flags, x, size, from + n,
             blake3_hasher_update(h, Bytes(x, from, n), blake3_simd_degree(f)))
<1>1. PICK M, p : M = Bytes(x, 0, size) /\ p = <<key, flags, M>>
  OBVIOUS
<1>2. M \in Seq(BytePairs) /\ Len(M) = size /\ Bytes(x, from, n) = Cut(M, from, n)
  BY <1>1, BytesCut
<1>3. p[3] = M
  BY <1>1
<1>4. PICK d \in Pow2 : d = blake3_simd_degree(f)
  BY DegreeIsPower
<1>5. After(p, from, h)
  BY <1>1, Zenon DEF Fed
<1>6. from + n <= Len(M)
  BY <1>2
<1>7. After(p, from + n, blake3_hasher_update(h, Cut(M, from, n), d))
  BY ONLY <1>2, <1>3, <1>5, <1>6, HasherUpdate, d \in Pow2, from \in Nat, n \in Nat
<1> QED
  BY <1>1, <1>2, <1>4, <1>7, Zenon DEF Fed

\* and its digest is that of the tree over the bytes it has taken.
LEMMA FedDigest ==
  ASSUME NEW key, NEW flags, NEW x \in Nat, NEW size \in Nat, NEW n \in Nat, n <= size,
         NEW h, Fed(key, flags, x, size, n, h), NEW seek \in Nat, NEW l \in Nat
  PROVE  /\ blake3_hasher_finalize_seek(h, seek, l)
              = TreeDigest(key, flags, Bytes(x, 0, n), seek, l)
         /\ blake3_hasher_finalize_seek(h, seek, l)
              = DigestOf(TreeRoot(key, flags, Bytes(x, 0, n)), seek, l)
<1>1. PICK M, L : M = Bytes(x, 0, size) /\ L = Bytes(x, 0, n)
  OBVIOUS
<1>2. 0 \in Nat /\ 0 + n <= size
  OBVIOUS
<1>3. M \in Seq(BytePairs) /\ Len(M) = size /\ L = Cut(M, 0, n)
  BY <1>1, <1>2, BytesCut
<1>4. After(<<key, flags, M>>, n, h)
  BY <1>1, Zenon DEF Fed
<1>5. n <= Len(M)
  BY <1>3
<1>6. /\ blake3_hasher_finalize_seek(h, seek, l) = TreeDigest(key, flags, L, seek, l)
      /\ blake3_hasher_finalize_seek(h, seek, l) = DigestOf(TreeRoot(key, flags, L), seek, l)
  BY ONLY <1>3, <1>4, <1>5, HasherDigest, n \in Nat, seek \in Nat, l \in Nat
<1> QED
  BY <1>1, <1>6, Zenon

\* blake3_hasher_init_derive_key_raw(): the key is that of the context.
LEMMA ContextKey ==
  ASSUME NEW x \in Nat, NEW n \in Nat, NEW f
  PROVE  blake3_hasher_init_derive_key_raw(Bytes(x, 0, n), blake3_simd_degree(f))
           = hasher_init_base(TreeContextKey(Bytes(x, 0, n)), {"DERIVE_KEY_MATERIAL"})
<1>1. PICK L, flags : L = Bytes(x, 0, n) /\ flags = {"DERIVE_KEY_CONTEXT"}
  OBVIOUS
<1>2. PICK new, h : new = hasher_init_base(IV, flags)
                    /\ h = blake3_hasher_update(new, L, blake3_simd_degree(f))
  OBVIOUS
<1>3. Fed(IV, flags, x, n, n, h)
  <2>1. Fed(IV, flags, x, n, 0, new)
    BY <1>2, FedNothing
  <2>2. 0 \in Nat /\ 0 + n <= n /\ 0 + n = n
    OBVIOUS
  <2>3. Fed(IV, flags, x, n, 0 + n, blake3_hasher_update(new, Bytes(x, 0, n), blake3_simd_degree(f)))
    BY <2>1, <2>2, FedMore
  <2> QED
    BY <1>1, <1>2, <2>2, <2>3, Zenon
<1>4. PICK root : root = TreeRoot(IV, flags, L)
  OBVIOUS
<1>5. PICK digest : digest = blake3_hasher_finalize(h, 32) /\ digest = DigestOf(root, 0, 32)
  <2>1. 0 \in Nat /\ 32 \in Nat /\ n <= n
    OBVIOUS
  <2>2. blake3_hasher_finalize_seek(h, 0, 32) = DigestOf(TreeRoot(IV, flags, Bytes(x, 0, n)), 0, 32)
    BY <1>3, <2>1, FedDigest
  <2> QED
    BY <1>1, <1>4, <2>2, Zenon DEF blake3_hasher_finalize
<1>6. load_key_words(digest) = <<root[1], root[2], root[3], 0, root[5] \cup {"ROOT"}>>
  BY <1>5 DEF load_key_words, compress_in_place, DigestOf
<1>7. load_key_words(digest) = TreeContextKey(L)
  BY <1>1, <1>4, <1>6, Zenon DEF TreeContextKey
<1> QED
  BY <1>1, <1>2, <1>5, <1>7, Zenon DEF blake3_hasher_init_derive_key_raw

-----------------------------------------------------------------------------
\* The numbers that TypeOK bounds, and the objects of the engines.

\* The places in hash() where another thread may go on.
Places4 == {"idle", "init", "update", "finalize"}

\* A thread is at one of them, and has made no more keys than it may: one less
\* when it is at another.
Bounded(c) ==
  /\ c.pc \in Places4 /\ c.made \in 0 .. MaxKeys
  /\ c.pc # "idle" => c.made < MaxKeys

\* The same of all the threads.
BoundedInv == \A t \in Threads : Bounded(call[t])

\* What each of the changes to a call does to the number of keys made.
LEMMA MadeIs ==
  ASSUME DOMAIN call = Threads, NEW t \in Threads, IsCall(call[t])
  PROVE  /\ \A pc : GoTo(t, pc) => call'[t].made = call[t].made
         /\ \A n : call' = [call EXCEPT ![t].added = n] => call'[t].made = call[t].made
         /\ \A d : Return(t, d) => call'[t].made = call[t].made + 1
         /\ \A input : MakeKey(t, input) => call'[t].made = call[t].made
<1>1. ASSUME NEW pc, GoTo(t, pc)
      PROVE  call'[t].made = call[t].made
  BY <1>1 DEF GoTo, IsCall
<1>2. ASSUME NEW n, call' = [call EXCEPT ![t].added = n]
      PROVE  call'[t].made = call[t].made
  BY <1>2 DEF IsCall
<1>3. ASSUME NEW d, Return(t, d)
      PROVE  call'[t].made = call[t].made + 1
  BY <1>3 DEF Return, IsCall
<1>4. ASSUME NEW input, MakeKey(t, input)
      PROVE  call'[t].made = call[t].made
  BY <1>4 DEF MakeKey, IsCall
<1> QED
  BY <1>1, <1>2, <1>3, <1>4

\* hash() goes on to a next place with no key made, or returns with one.
LEMMA HashStepGoes ==
  ASSUME DOMAIN call = Threads, NEW t \in Threads, IsCall(call[t]), HashStep(t)
  PROVE  \/ call'[t].pc \in {"update", "finalize"} /\ call'[t].made = call[t].made
         \/ call'[t].pc = "idle" /\ call'[t].made = call[t].made + 1
<1>1. ASSUME NEW d, Return(t, d)
      PROVE  call'[t].pc = "idle" /\ call'[t].made = call[t].made + 1
  BY <1>1, ReturnIs, MadeIs
<1>2. ASSUME NEW pc \in {"update", "finalize"}, GoTo(t, pc)
      PROVE  call'[t].pc \in {"update", "finalize"} /\ call'[t].made = call[t].made
  BY <1>2, GoToIs, MadeIs
<1>3. ASSUME call[t].pc = "update", call' = [call EXCEPT ![t].added = call[t].added + update_len]
      PROVE  call'[t].pc \in {"update", "finalize"} /\ call'[t].made = call[t].made
  <2>1. call[t].added + update_len \in Nat
    BY update_lenAssumption DEF IsCall
  <2> QED
    BY <1>3, <2>1, AddedIs, MadeIs
<1>4. \/ \E d : Return(t, d)
      \/ \E pc \in {"update", "finalize"} : GoTo(t, pc)
      \/ call[t].pc = "update" /\ call' = [call EXCEPT ![t].added = call[t].added + update_len]
  <2>1. CASE DummyHash(t)
    BY <2>1, Zenon DEF DummyHash
  <2>2. CASE Blake3Hash(t)
    BY <2>2, Zenon DEF Blake3Hash
  <2>3. CASE SHAHash(t)
    BY <2>3, Zenon DEF SHAHash
  <2>4. CASE XXHash(t)
    BY <2>4, Zenon DEF XXHash, At
  <2>5. CASE CityHash(t)
    BY <2>5, Zenon DEF CityHash
  <2> QED
    BY <2>1, <2>2, <2>3, <2>4, <2>5, Zenon DEF HashStep
<1> QED
  BY <1>1, <1>2, <1>3, <1>4, Zenon

\* So every step keeps the bound.
LEMMA BoundedStep ==
  ASSUME CallsInv, BoundedInv, [Next]_vars
  PROVE  BoundedInv'
<1>0. MaxKeys \in Nat /\ program.threads \subseteq Threads
  BY ThreadsAre, BoundsAssumption
<1>1. CASE UNCHANGED call
  BY <1>1, Zenon DEF BoundedInv, Bounded
<1>2. ASSUME NEW t \in program.threads, Now(t, call'[t]), Bounded(call'[t])
      PROVE  BoundedInv'
  <2>1. \A u \in Threads : Bounded(call'[u])
    BY <1>2, Zenon DEF BoundedInv, Now
  <2> QED
    BY <2>1, Zenon DEF BoundedInv, Bounded
<1>3. ASSUME NEW t \in program.threads, HashStep(t)
      PROVE  BoundedInv'
  <2>1. t \in Threads /\ DOMAIN call = Threads /\ IsCall(call[t])
    BY ThreadsAre
  <2>2. Now(t, call'[t]) /\ call[t].pc # "idle"
    BY <1>3, <2>1, HashStepDoes, Zenon DEF HashStepIs
  <2>3. Bounded(call[t])
    BY <2>1 DEF BoundedInv
  <2>4. \/ call'[t].pc \in {"update", "finalize"} /\ call'[t].made = call[t].made
        \/ call'[t].pc = "idle" /\ call'[t].made = call[t].made + 1
    BY <1>3, <2>1, HashStepGoes
  <2>5. Bounded(call'[t])
    BY <1>0, <2>2, <2>3, <2>4 DEF Bounded, Places4
  <2> QED
    BY <1>2, <2>2, <2>5
<1>4. ASSUME NEW t \in program.threads, NEW input \in program.inputs, MakeKey(t, input)
      PROVE  BoundedInv'
  <2>1. t \in Threads /\ DOMAIN call = Threads /\ IsCall(call[t]) /\ input \in Nat \X Nat
    BY <1>4, ThreadsAre
  <2>2. Now(t, call'[t]) /\ call'[t].pc = "init"
    BY <1>4, <2>1, MakeKeyIs
  <2>3. call'[t].made = call[t].made /\ call[t].made < MaxKeys
    BY <1>4, <2>1, MadeIs DEF MakeKey
  <2>4. Bounded(call[t])
    BY <2>1 DEF BoundedInv
  <2>5. Bounded(call'[t])
    BY <2>2, <2>3, <2>4 DEF Bounded, Places4
  <2> QED
    BY <1>2, <2>2, <2>5
<1>5. ASSUME NEW t \in program.threads, Elsewhere(t)
      PROVE  BoundedInv'
  BY <1>1, <1>5, ElsewhereStep
<1>6. UNCHANGED vars => UNCHANGED call
  BY DEF vars
<1> QED
  BY <1>1, <1>3, <1>4, <1>5, <1>6, Steps, Zenon

\* The threads that detect the CPU's features are the program's.
DetectingInv == detecting \subseteq program.threads

\* So every step leaves it.
LEMMA DetectingStep ==
  ASSUME CallsInv, DetectingInv, [Next]_vars
  PROVE  DetectingInv'
<1>1. CASE UNCHANGED <<program, detecting>>
  BY <1>1, Zenon DEF DetectingInv
<1>2. ASSUME NEW t \in program.threads, DetectFeatures(t) \/ StoreFeatures(t)
      PROVE  DetectingInv'
  BY <1>2 DEF DetectingInv, DetectFeatures, StoreFeatures, chosen
<1>3. ASSUME Next, \A t \in program.threads : ~ DetectFeatures(t) /\ ~ StoreFeatures(t)
      PROVE  UNCHANGED <<program, detecting>>
  <2>1. UNCHANGED chosen /\ UNCHANGED features
    BY <1>3, Zenon DEF Next, MakeKey, DummyHash, Blake3Hash, SHAHash, XXHash, CityHash, SetUp, Update,
      FinalizeSeek, Reset
  <2> QED
    BY <2>1, Zenon DEF chosen, features
<1>4. UNCHANGED vars => UNCHANGED <<program, detecting>>
  BY DEF vars, chosen, features
<1> QED
  BY <1>1, <1>2, <1>3, <1>4, Zenon

\* Every XXHash64 object has taken in something, and has room in its buffer.
Objects == DOMAIN xx = Threads /\ \A t \in Threads : \E bytes : XXHas(xx[t], bytes)

\* An object that is fed stays one.
LEMMA ObjectAdd ==
  ASSUME NEW x \in Nat, NEW from \in Nat, NEW n \in Nat, NEW object,
         \E bytes : XXHas(object, bytes)
  PROVE  \E bytes : XXHas(XX!add(object, Bytes(x, from, n)), bytes)
<1>1. PICK bytes : XXHas(object, bytes)
  OBVIOUS
<1>2. PICK q : \E r : Took(object, ByteSet, 0, bytes, q, r)
  BY <1>1, Zenon DEF XXHas
<1>3. PICK r : Took(object, ByteSet, 0, bytes, q, r)
  BY <1>2, Zenon
<1>4. Bytes(x, from, n) \in Seq(ByteSet)
  BY BytesAre
<1>5. \E q2, r2 : Took(XX!add(object, Bytes(x, from, n)), ByteSet, 0,
                       bytes \o Bytes(x, from, n), q2, r2)
  BY <1>3, <1>4, AddTakes, Zenon
<1> QED
  BY <1>5, Zenon DEF XXHas

\* How objects change: a new one, or one that is fed.
LEMMA ObjectSteps ==
  ASSUME Next, CallsInv, fed \in Nat
  PROVE  \/ UNCHANGED xx
         \/ \E t \in program.threads : xx' = [xx EXCEPT ![t] = XX!NewXXHash64(0)]
         \/ \E t \in program.threads : \E x \in Nat : \E from \in Nat : \E n \in Nat :
              xx' = [xx EXCEPT ![t] = XX!add(xx[t], Bytes(x, from, n))]
<1>1. PICK t \in program.threads :
        HashStep(t) \/ Elsewhere(t) \/ \E input \in program.inputs : MakeKey(t, input)
  BY Steps
<1>2. t \in Threads /\ DOMAIN call = Threads /\ IsCall(call[t])
  BY ThreadsAre
<1>3. CASE HashStep(t)
  <2>1. CASE ~ XXHash(t)
    BY <1>3, <2>1, Zenon DEF HashStep, DummyHash, Blake3Hash, SHAHash, CityHash
  <2>2. CASE XXHash(t) /\ call[t].pc = "update" /\ call[t].added < len(t)
    <3>1. PICK i, n, x : i = call[t].added /\ n = Least(update_len, len(t) - i) /\ x = m(t)
      OBVIOUS
    <3>2. xx' = [xx EXCEPT ![t] = XX!add(xx[t], Bytes(x, i, n))]
      BY <2>2, <3>1 DEF XXHash, At
    <3>3. x \in Nat /\ i \in Nat /\ len(t) \in Nat
      BY <1>2, <3>1 DEF IsCall, m, len
    <3>4. n \in Nat
      BY <2>2, <3>1, <3>3, update_lenAssumption DEF Least
    <3> QED
      BY <3>2, <3>3, <3>4, Zenon
  <2>3. CASE XXHash(t) /\ ~ (call[t].pc = "update" /\ call[t].added < len(t))
    BY <2>3, Zenon DEF XXHash, At
  <2> QED
    BY <2>1, <2>2, <2>3
<1>4. CASE \E n \in Pieces : Update(t, n)
  <2>1. PICK n \in Pieces : Update(t, n)
    BY <1>4
  <2>2. n \in Nat /\ StreamMessage \in Nat
    BY PiecesAssumption DEF StreamMessage
  <2>3. UNCHANGED xx \/ xx' = [xx EXCEPT ![t] = XX!add(xx[t], Bytes(StreamMessage, fed, n))]
    BY <2>1, Zenon DEF Update
  <2> QED
    BY <2>2, <2>3, Zenon
<1>5. CASE Elsewhere(t) /\ ~ \E n \in Pieces : Update(t, n)
  BY <1>5, Zenon DEF Elsewhere, DetectFeatures, StoreFeatures, SetUp, FinalizeSeek, Reset
<1>6. CASE \E input \in program.inputs : MakeKey(t, input)
  BY <1>6, Zenon DEF MakeKey
<1> QED
  BY <1>1, <1>3, <1>4, <1>5, <1>6

\* So they all stay objects.
LEMMA ObjectsStep ==
  ASSUME CallsInv, Objects, fed \in Nat, [Next]_vars
  PROVE  Objects'
<1>1. CASE UNCHANGED xx
  BY <1>1, Zenon DEF Objects
<1>2. ASSUME NEW t \in program.threads, NEW object, xx' = [xx EXCEPT ![t] = object],
             \E bytes : XXHas(object, bytes)
      PROVE  Objects'
  <2>1. DOMAIN xx' = Threads /\ \A u \in Threads : xx'[u] = xx[u] \/ xx'[u] = object
    BY <1>2 DEF Objects
  <2> QED
    BY <1>2, <2>1, Zenon DEF Objects
<1>3. \E bytes : XXHas(XX!NewXXHash64(0), bytes)
  <2>1. 0 \in Nat
    OBVIOUS
  <2> QED
    BY <2>1, XXNew, Zenon
<1>4. ASSUME NEW t \in program.threads, NEW x \in Nat, NEW from \in Nat, NEW n \in Nat,
             xx' = [xx EXCEPT ![t] = XX!add(xx[t], Bytes(x, from, n))]
      PROVE  Objects'
  <2>1. \E bytes : XXHas(xx[t], bytes)
    BY ThreadsAre DEF Objects
  <2> QED
    BY <1>2, <1>4, <2>1, ObjectAdd, Zenon
<1>5. UNCHANGED vars => UNCHANGED xx
  BY DEF vars
<1> QED
  BY <1>1, <1>2, <1>3, <1>4, <1>5, ObjectSteps, Zenon

-----------------------------------------------------------------------------
\* What a hasher, a stream and a BLAKE3 key are of.

\* A hasher that is set up in one of the three ways: its key and its flags.
ModeKey(how) ==
  CASE how = "hash"   -> IV
    [] how = "keyed"  -> Key
    [] how = "derive" -> TreeContextKey(Bytes(ContextMessage[1], 0, ContextMessage[2]))
ModeFlags(how) ==
  CASE how = "hash"   -> {}
    [] how = "keyed"  -> {"KEYED_HASH"}
    [] how = "derive" -> {"DERIVE_KEY_MATERIAL"}
Modes == {"hash", "keyed", "derive"}

\* A stream's hasher has taken the first n bytes of the stream.
StreamFed(how, n, h) == Fed(ModeKey(how), ModeFlags(how), StreamMessage, MaxLength, n, h)

\* What was taken from it is of the tree over those.
OutIsTree(how, n, o) ==
  o.bytes = TreeDigest(ModeKey(how), ModeFlags(how), Bytes(StreamMessage, 0, n), o.seek, o.len)

\* Blake3Engine: the hasher has taken nothing of the input, then all of it.
B3Call(c, h) ==
  /\ c.pc = "update"   => Fed(IV, {}, c.input[1], c.input[2], 0, h)
  /\ c.pc = "finalize" => Fed(IV, {}, c.input[1], c.input[2], c.input[2], h)

\* Its key is of the tree over the input.
B3Key(k) == k[2] = TreeDigest(IV, {}, BytesOf(k[1]), 0, program.nbytes)

\* What is so of every hasher,
HashersInv == DOMAIN hasher = Threads /\ \A t \in Threads : SoundHasher(hasher[t])

\* of a stream,
StreamInv ==
  /\ fed \in 0 .. MaxLength /\ mode \in {"none"} \cup Modes
  /\ mode = "none" => out = Taken /\ (program.engine = "Blake3" => fed = 0)
  /\ out # Taken => OutIsTree(mode, fed, out)
  /\ program.use = "stream" /\ program.engine = "Blake3" /\ mode # "none" =>
       \A t \in program.threads : StreamFed(mode, fed, hasher[t])

\* and of the calls and the keys.
B3KeysInv == program.engine = "Blake3" =>
  /\ program.use = "keys" => \A t \in program.threads : B3Call(call[t], hasher[t])
  /\ \A k \in keys : B3Key(k)

\* A hasher that was set up and fed is sound.
LEMMA FedIsSound ==
  ASSUME NEW key, NEW flags, NEW x, NEW size, NEW n, NEW h, Fed(key, flags, x, size, n, h)
  PROVE  SoundHasher(h)
BY AfterIsSound, Zenon DEF Fed

\* A hasher that a thread has set up or fed leaves the others as they are.
LEMMA HasherNow ==
  ASSUME HashersInv, NEW t \in Threads, NEW h, SoundHasher(h), hasher' = [hasher EXCEPT ![t] = h]
  PROVE  HashersInv' /\ hasher'[t] = h /\ \A u \in Threads : u # t => hasher'[u] = hasher[u]
<1>1. DOMAIN hasher' = Threads /\ hasher'[t] = h /\ \A u \in Threads : u # t => hasher'[u] = hasher[u]
  BY DEF HashersInv
<1>2. \A u \in Threads : SoundHasher(hasher'[u])
  BY <1>1, Zenon DEF HashersInv
<1>3. HashersInv'
  BY <1>1, <1>2, Zenon DEF HashersInv, SoundHasher
<1> QED
  BY <1>1, <1>3

\* B3Key is about the program only.
LEMMA B3KeySame ==
  ASSUME program' = program, NEW k, B3Key(k)
  PROVE  B3Key(k)'
BY Zenon DEF B3Key

\* A step of hash() does to hashers what Blake3Engine does, and nothing to a
\* stream.
LEMMA B3HashStep ==
  ASSUME CallsInv, HashersInv, StreamInv, B3KeysInv, NEW t \in program.threads, HashStep(t)
  PROVE  HashersInv' /\ StreamInv' /\ B3KeysInv'
<1>1. t \in Threads /\ DOMAIN call = Threads /\ IsCall(call[t]) /\ program.threads \subseteq Threads
      /\ program.inputs \subseteq Nat \X Nat
  BY ThreadsAre, ProgramsAssumption, Zenon DEF CallsInv
<1>2. HashStepIs(t)
  BY <1>1, HashStepDoes
<1>3. UNCHANGED <<program, out, fed, mode>>
  <2>1. UNCHANGED chosen /\ UNCHANGED stream
    BY Zenon DEF HashStep, DummyHash, Blake3Hash, SHAHash, XXHash, CityHash
  <2> QED
    BY <2>1, Zenon DEF chosen, stream
<1>4. program.use = "keys"
  BY Zenon DEF HashStep, DummyHash, Blake3Hash, SHAHash, XXHash, CityHash, At
<1>5. StreamInv'
  <2>1. program'.use # "stream"
    BY <1>3, <1>4
  <2> QED
    BY <1>3, <2>1, Zenon DEF StreamInv, OutIsTree
<1>6. CASE ~ Blake3Hash(t)
  <2>1. UNCHANGED hasher /\ program.engine # "Blake3"
    BY <1>6 DEF HashStep, DummyHash, SHAHash, XXHash, CityHash, At
  <2>2. HashersInv'
    BY <2>1, Zenon DEF HashersInv, SoundHasher
  <2> QED
    BY <1>3, <1>5, <2>1, <2>2, Zenon DEF B3KeysInv
<1>7. CASE Blake3Hash(t)
  <2>0. program.engine = "Blake3"
    BY <1>7, Zenon DEF Blake3Hash, At
  <2>1. /\ \A u \in program.threads : B3Call(call[u], hasher[u])
        /\ \A k \in keys : B3Key(k)
    BY <1>4, <2>0, Zenon DEF B3KeysInv
  <2>2. PICK x \in Nat, n \in Nat : x = call[t].input[1] /\ n = call[t].input[2]
    BY <1>1 DEF IsCall
  <2>3. ASSUME NEW h, SoundHasher(h), hasher' = [hasher EXCEPT ![t] = h], B3Call(call'[t], h), keys' = keys
        PROVE  HashersInv' /\ StreamInv' /\ B3KeysInv'
    <3>1. HashersInv' /\ hasher'[t] = h /\ \A u \in Threads : u # t => hasher'[u] = hasher[u]
      BY <1>1, <2>3, HasherNow
    <3>2. \A u \in program.threads : B3Call(call'[u], hasher'[u])
      BY <1>1, <1>2, <2>1, <2>3, <3>1, Zenon DEF HashStepIs, Now
    <3>3. \A k \in keys' : B3Key(k)'
      BY <1>3, <2>1, <2>3, B3KeySame, Zenon
    <3> QED
      BY <1>3, <1>5, <3>1, <3>2, <3>3, Zenon DEF B3KeysInv
  <2>4. CASE call[t].pc = "init" /\ GoTo(t, "update") /\ keys' = keys
             /\ hasher' = [hasher EXCEPT ![t] = blake3_hasher_init]
    <3>1. call'[t].pc = "update" /\ call'[t].input = call[t].input
      BY <1>1, <2>4, GoToIs
    <3>2. PICK h : h = blake3_hasher_init
      OBVIOUS
    <3>3. Fed(IV, {}, x, n, 0, h)
      BY <3>2, FedNothing, Zenon DEF blake3_hasher_init
    <3>4. B3Call(call'[t], h)
      <4>1. call'[t].pc # "finalize"
        BY <3>1
      <4> QED
        BY <2>2, <3>1, <3>3, <4>1, Zenon DEF B3Call
    <3> QED
      BY <2>3, <2>4, <3>2, <3>3, <3>4, FedIsSound, Zenon
  <2>5. CASE call[t].pc = "update" /\ GoTo(t, "finalize") /\ keys' = keys
             /\ hasher' = [hasher EXCEPT ![t] =
                             blake3_hasher_update(@, Bytes(m(t), 0, len(t)), degree)]
    <3>1. call'[t].pc = "finalize" /\ call'[t].input = call[t].input
      BY <1>1, <2>5, GoToIs
    <3>2. Fed(IV, {}, x, n, 0, hasher[t])
      BY <2>1, <2>2, <2>5, Zenon DEF B3Call
    <3>3. PICK f : f = g_cpu_features
      OBVIOUS
    <3>4. PICK h : h = blake3_hasher_update(hasher[t], Bytes(x, 0, n), blake3_simd_degree(f))
      OBVIOUS
    <3>5. Fed(IV, {}, x, n, n, h)
      <4>1. 0 \in Nat /\ 0 + n <= n /\ 0 + n = n
        OBVIOUS
      <4>2. Fed(IV, {}, x, n, 0 + n, h)
        BY <3>2, <3>4, <4>1, FedMore
      <4> QED
        BY <4>1, <4>2, Zenon
    <3>6. hasher' = [hasher EXCEPT ![t] = h]
      BY <2>2, <2>5, <3>3, <3>4, Zenon DEF m, len, degree
    <3>7. B3Call(call'[t], h)
      <4>1. call'[t].pc # "update"
        BY <3>1
      <4> QED
        BY <2>2, <3>1, <3>5, <4>1, Zenon DEF B3Call
    <3> QED
      BY <2>3, <2>5, <3>5, <3>6, <3>7, FedIsSound, Zenon
  <2>6. CASE call[t].pc = "finalize" /\ Return(t, blake3_hasher_finalize(hasher[t], program.nbytes))
             /\ UNCHANGED hasher
    <3>1. PICK d : d = blake3_hasher_finalize(hasher[t], program.nbytes)
      OBVIOUS
    <3>2. call'[t].pc = "idle" /\ keys' = keys \cup {<<call[t].input, d>>}
      BY <1>1, <2>6, <3>1, ReturnIs
    <3>3. Fed(IV, {}, x, n, n, hasher[t])
      BY <2>1, <2>2, <2>6, Zenon DEF B3Call
    <3>4. PICK nbytes \in Nat : nbytes = program.nbytes
      BY ProgramsAssumption DEF CallsInv
    <3>5. d = TreeDigest(IV, {}, Bytes(x, 0, n), 0, nbytes)
      <4>1. 0 \in Nat /\ n <= n
        OBVIOUS
      <4>2. blake3_hasher_finalize_seek(hasher[t], 0, nbytes) = TreeDigest(IV, {}, Bytes(x, 0, n), 0, nbytes)
        BY <3>3, <4>1, FedDigest
      <4> QED
        BY <3>1, <3>4, <4>2, Zenon DEF blake3_hasher_finalize
    <3>6. B3Key(<<call[t].input, d>>)
      <4>1. <<call[t].input, d>>[1] = call[t].input /\ <<call[t].input, d>>[2] = d
        OBVIOUS
      <4> QED
        BY <2>2, <3>4, <3>5, <4>1, Zenon DEF B3Key, BytesOf
    <3>7. \A k \in keys' : B3Key(k)
      BY <2>1, <3>2, <3>6
    <3>8. \A k \in keys' : B3Key(k)'
      BY <1>3, <3>7, B3KeySame, Zenon
    <3>9. B3Call(call'[t], hasher[t])
      BY <3>2 DEF B3Call
    <3>10. \A u \in program.threads : B3Call(call'[u], hasher'[u])
      BY <1>1, <1>2, <2>1, <2>6, <3>9, Zenon DEF HashStepIs, Now
    <3>11. HashersInv'
      BY <2>6, Zenon DEF HashersInv, SoundHasher
    <3> QED
      BY <1>3, <1>5, <3>8, <3>10, <3>11, Zenon DEF B3KeysInv
  <2> QED
    BY <1>7, <2>4, <2>5, <2>6, Zenon DEF Blake3Hash, At
<1> QED
  BY <1>6, <1>7

-----------------------------------------------------------------------------
\* Every step of a stream keeps it.

\* A stream's hasher changes with what it was fed: its thread is alone.
LEMMA B3Fed ==
  ASSUME CallsInv, HashersInv, B3KeysInv, NEW t \in program.threads,
         UNCHANGED <<program, call, keys>>, program.use = "stream", program.engine = "Blake3",
         NEW h, hasher' = [hasher EXCEPT ![t] = h],
         fed' \in 0 .. MaxLength, mode' \in Modes, StreamFed(mode', fed', h),
         out' # Taken => OutIsTree(mode', fed', out')
  PROVE  HashersInv' /\ StreamInv' /\ B3KeysInv'
<1>1. t \in Threads /\ \A u \in program.threads : u = t
  BY ProgramsAssumption DEF CallsInv
<1>2. SoundHasher(h)
  BY FedIsSound, Zenon DEF StreamFed
<1>3. HashersInv' /\ hasher'[t] = h
  BY <1>1, <1>2, HasherNow, Zenon
<1>4. mode' # "none" /\ program.use # "keys"
  BY DEF Modes
<1>5. StreamInv'
  <2>1. \A u \in program.threads : StreamFed(mode', fed', hasher'[u])
    BY <1>1, <1>3, Zenon
  <2>2. mode' \in {"none"} \cup Modes
    OBVIOUS
  <2> QED
    BY <1>4, <2>1, <2>2, Zenon DEF StreamInv, StreamFed, OutIsTree
<1>6. B3KeysInv'
  <2>1. \A k \in keys : B3Key(k)'
    BY B3KeySame, Zenon DEF B3KeysInv
  <2> QED
    BY <1>4, <2>1, Zenon DEF B3KeysInv
<1> QED
  BY <1>3, <1>5, <1>6

\* Outside of hash() the hashers and the stream change as the hasher does when
\* it is set up, fed, asked and reset.
LEMMA B3Elsewhere ==
  ASSUME CallsInv, HashersInv, StreamInv, B3KeysInv, NEW t \in program.threads, Elsewhere(t)
  PROVE  HashersInv' /\ StreamInv' /\ B3KeysInv'
<1>1. t \in Threads
  BY ThreadsAre
<1>2. UNCHANGED <<program, call, keys>>
  BY ElsewhereStep
<1>3. /\ fed \in Nat /\ 0 <= fed /\ fed <= MaxLength /\ MaxLength \in Nat
      /\ 0 \in 0 .. MaxLength /\ StreamMessage \in Nat
  <2>1. MaxLength \in Nat /\ fed \in 0 .. MaxLength
    BY BoundsAssumption DEF StreamInv
  <2> QED
    BY <2>1 DEF StreamMessage
<1>4. CASE UNCHANGED <<hasher, out, fed, mode>>
  <2>1. HashersInv' /\ StreamInv'
    BY <1>2, <1>4, Zenon DEF HashersInv, StreamInv, SoundHasher, OutIsTree, StreamFed
  <2>2. program.engine = "Blake3" => \A k \in keys : B3Key(k)'
    BY <1>2, B3KeySame, Zenon DEF B3KeysInv
  <2> QED
    BY <1>2, <1>4, <2>1, <2>2, Zenon DEF B3KeysInv
<1>5. CASE DetectFeatures(t) \/ StoreFeatures(t)
  <2>1. UNCHANGED <<hasher, out, fed, mode>>
    BY <1>5, Zenon DEF DetectFeatures, StoreFeatures, stream
  <2> QED
    BY <1>4, <2>1
<1>6. ASSUME NEW how \in Modes, SetUp(t, how)
      PROVE  HashersInv' /\ StreamInv' /\ B3KeysInv'
  <2>1. /\ program.use = "stream" /\ program.engine = "Blake3" /\ mode = "none"
        /\ mode' = how /\ fed' = fed /\ out' = out
    BY <1>6, Zenon DEF SetUp, Streams
  <2>2. fed = 0 /\ out = Taken
    BY <2>1, Zenon DEF StreamInv
  <2>3. PICK h : h = hasher_init_base(ModeKey(how), ModeFlags(how))
    OBVIOUS
  <2>4. hasher' = [hasher EXCEPT ![t] = h]
    <3>1. CASE how = "hash"
      BY <1>6, <2>3, <3>1 DEF SetUp, ModeKey, ModeFlags, blake3_hasher_init
    <3>2. CASE how = "keyed"
      BY <1>6, <2>3, <3>2 DEF SetUp, ModeKey, ModeFlags, blake3_hasher_init_keyed
    <3>3. CASE how = "derive"
      <4>1. PICK x \in Nat, n \in Nat : x = ContextMessage[1] /\ n = ContextMessage[2]
        BY Lengths DEF ContextMessage, CL
      <4>2. PICK f : f = g_cpu_features
        OBVIOUS
      <4>3. blake3_hasher_init_derive_key_raw(Bytes(x, 0, n), blake3_simd_degree(f))
              = hasher_init_base(TreeContextKey(Bytes(x, 0, n)), {"DERIVE_KEY_MATERIAL"})
        BY ContextKey
      <4>4. ModeKey(how) = TreeContextKey(Bytes(x, 0, n)) /\ ModeFlags(how) = {"DERIVE_KEY_MATERIAL"}
        BY <3>3, <4>1 DEF ModeKey, ModeFlags
      <4>5. blake3_hasher_init_derive_key_raw(Bytes(ContextMessage[1], 0, ContextMessage[2]), degree) = h
        BY <2>3, <4>1, <4>2, <4>3, <4>4, Zenon DEF degree
      <4>6. hasher' = [hasher EXCEPT ![t] = blake3_hasher_init_derive_key_raw(
                         Bytes(ContextMessage[1], 0, ContextMessage[2]), degree)]
        BY <1>6, <3>3 DEF SetUp
      <4> QED
        BY <4>5, <4>6, Zenon
    <3> QED
      BY <3>1, <3>2, <3>3 DEF Modes
  <2>5. StreamFed(how, 0, h)
    BY <2>3, FedNothing, Zenon DEF StreamFed
  <2>6. mode' \in Modes /\ fed' \in 0 .. MaxLength /\ out' = Taken /\ StreamFed(mode', fed', h)
    BY <1>3, <1>6, <2>1, <2>2, <2>5, Zenon
  <2> QED
    BY <1>2, <2>1, <2>4, <2>6, B3Fed, Zenon
<1>7. ASSUME NEW n \in Pieces, Update(t, n)
      PROVE  HashersInv' /\ StreamInv' /\ B3KeysInv'
  <2>1. fed + n <= MaxLength /\ fed' = fed + n /\ out' = Taken /\ mode' = mode
    BY <1>7, Zenon DEF Update
  <2>2. n \in Nat /\ fed' \in 0 .. MaxLength
    BY <1>3, <2>1, PiecesAssumption
  <2>3. CASE program.engine = "Blake3"
    <3>1. /\ program.use = "stream" /\ mode # "none"
          /\ hasher' = [hasher EXCEPT ![t] =
                          blake3_hasher_update(@, Bytes(StreamMessage, fed, n), degree)]
      BY <1>7, <2>3 DEF Update, Streams
    <3>2. PICK f : f = g_cpu_features
      OBVIOUS
    <3>3. PICK h : h = blake3_hasher_update(hasher[t], Bytes(StreamMessage, fed, n), blake3_simd_degree(f))
      OBVIOUS
    <3>4. hasher' = [hasher EXCEPT ![t] = h]
      BY <3>1, <3>2, <3>3, Zenon DEF degree
    <3>5. mode \in Modes /\ StreamFed(mode, fed, hasher[t])
      BY <2>3, <3>1 DEF StreamInv
    <3>6. StreamFed(mode, fed + n, h)
      <4>1. PICK key, flags : key = ModeKey(mode) /\ flags = ModeFlags(mode)
        OBVIOUS
      <4>2. PICK from \in Nat : from = fed
        BY <1>3
      <4>3. Fed(key, flags, StreamMessage, MaxLength, from, hasher[t])
        BY <3>5, <4>1, <4>2, Zenon DEF StreamFed
      <4>4. from + n <= MaxLength
        BY <2>1, <4>2
      <4>5. Fed(key, flags, StreamMessage, MaxLength, from + n,
                blake3_hasher_update(hasher[t], Bytes(StreamMessage, from, n), blake3_simd_degree(f)))
        BY <1>3, <2>2, <4>3, <4>4, FedMore
      <4> QED
        BY <3>3, <4>1, <4>2, <4>5, Zenon DEF StreamFed
    <3>7. mode' \in Modes /\ StreamFed(mode', fed', h)
      BY <2>1, <3>5, <3>6, Zenon
    <3> QED
      BY <1>2, <2>1, <2>2, <2>3, <3>1, <3>4, <3>7, B3Fed, Zenon
  <2>4. CASE program.engine # "Blake3"
    <3>1. UNCHANGED hasher
      BY <1>7, <2>4, Zenon DEF Update, Streams
    <3>2. HashersInv'
      BY <3>1, Zenon DEF HashersInv, SoundHasher
    <3>3. StreamInv'
      BY <1>2, <2>1, <2>2, <2>4, Zenon DEF StreamInv
    <3> QED
      BY <1>2, <2>4, <3>2, <3>3, Zenon DEF B3KeysInv
  <2> QED
    BY <2>3, <2>4
<1>8. ASSUME NEW s \in Seeks, FinalizeSeek(t, s[1], s[2])
      PROVE  HashersInv' /\ StreamInv' /\ B3KeysInv'
  <2>1. PICK seek \in Nat, l \in Nat : seek = s[1] /\ l = s[2]
    BY <1>8, BoundsAssumption
  <2>2. /\ program.use = "stream" /\ program.engine = "Blake3" /\ mode # "none"
        /\ UNCHANGED <<hasher, fed, mode>>
        /\ out' = [seek |-> seek, len |-> l, bytes |-> blake3_hasher_finalize_seek(hasher[t], seek, l)]
    BY <1>8, <2>1, Zenon DEF FinalizeSeek, Streams
  <2>3. mode \in Modes /\ StreamFed(mode, fed, hasher[t])
    BY <2>2 DEF StreamInv
  <2>4. OutIsTree(mode, fed, out')
    <3>1. PICK key, flags : key = ModeKey(mode) /\ flags = ModeFlags(mode)
      OBVIOUS
    <3>2. PICK from \in Nat : from = fed
      BY <1>3
    <3>3. Fed(key, flags, StreamMessage, MaxLength, from, hasher[t])
      BY <2>3, <3>1, <3>2, Zenon DEF StreamFed
    <3>4. from <= MaxLength
      BY <1>3, <3>2
    <3>5. blake3_hasher_finalize_seek(hasher[t], seek, l)
            = TreeDigest(key, flags, Bytes(StreamMessage, 0, from), seek, l)
      BY <1>3, <3>3, <3>4, FedDigest
    <3>6. PICK d : d = blake3_hasher_finalize_seek(hasher[t], seek, l)
      OBVIOUS
    <3>7. out'.bytes = d /\ out'.seek = seek /\ out'.len = l
      BY <2>2, <3>6
    <3> QED
      BY <3>1, <3>2, <3>5, <3>6, <3>7, Zenon DEF OutIsTree
  <2>5. HashersInv' /\ StreamInv'
    BY <1>2, <2>2, <2>4, Zenon DEF HashersInv, StreamInv, SoundHasher, OutIsTree, StreamFed
  <2>6. program.use # "keys" /\ \A k \in keys : B3Key(k)'
    <3>1. \A k \in keys : B3Key(k)'
      BY <1>2, <2>2, B3KeySame, Zenon DEF B3KeysInv
    <3> QED
      BY <2>2, <3>1
  <2> QED
    BY <1>2, <2>5, <2>6, Zenon DEF B3KeysInv
<1>9. ASSUME Reset(t)
      PROVE  HashersInv' /\ StreamInv' /\ B3KeysInv'
  <2>1. PICK h : h = blake3_hasher_reset(hasher[t])
    OBVIOUS
  <2>2. /\ program.use = "stream" /\ program.engine = "Blake3" /\ mode # "none"
        /\ mode' = mode /\ fed' = 0 /\ out' = Taken
        /\ hasher' = [hasher EXCEPT ![t] = h]
    BY <1>9, <2>1, Zenon DEF Reset, Streams
  <2>3. mode \in Modes /\ StreamFed(mode, fed, hasher[t])
    BY <2>2 DEF StreamInv
  <2>4. StreamFed(mode, 0, h)
    BY <2>1, <2>3, FedNothing, Zenon DEF StreamFed
  <2>5. mode' \in Modes /\ fed' \in 0 .. MaxLength /\ StreamFed(mode', fed', h)
    BY <1>3, <2>2, <2>3, <2>4, Zenon
  <2> QED
    BY <1>2, <2>2, <2>5, B3Fed, Zenon
<1> QED
  BY <1>5, <1>6, <1>7, <1>8, <1>9, Zenon DEF Elsewhere, Modes

-----------------------------------------------------------------------------
\* The invariant of the whole system.

\* A key that is begun changes neither a hasher nor a stream.
LEMMA B3Begin ==
  ASSUME CallsInv, HashersInv, StreamInv, B3KeysInv, NEW t \in program.threads,
         NEW input \in program.inputs, MakeKey(t, input)
  PROVE  HashersInv' /\ StreamInv' /\ B3KeysInv'
<1>1. t \in Threads /\ DOMAIN call = Threads /\ IsCall(call[t]) /\ input \in Nat \X Nat
      /\ program.threads \subseteq Threads
  BY ThreadsAre, ProgramsAssumption, Zenon DEF CallsInv
<1>2. Now(t, call'[t]) /\ call'[t].pc = "init"
  BY <1>1, MakeKeyIs
<1>3. UNCHANGED <<program, hasher, keys, out, fed, mode>> /\ program.use = "keys"
  BY Zenon DEF MakeKey, chosen, stream
<1>4. B3Call(call'[t], hasher[t])
  BY <1>2 DEF B3Call
<1>5. HashersInv' /\ StreamInv'
  <2>1. program.use # "stream"
    BY <1>3
  <2> QED
    BY <1>3, <2>1, Zenon DEF HashersInv, StreamInv, SoundHasher, OutIsTree
<1>6. B3KeysInv'
  <2>1. program.engine = "Blake3" =>
          /\ \A u \in program.threads : B3Call(call[u], hasher[u])
          /\ \A k \in keys : B3Key(k)'
    BY <1>3, B3KeySame, Zenon DEF B3KeysInv
  <2>2. program.engine = "Blake3" => \A u \in program.threads : B3Call(call'[u], hasher[u])
    BY <1>1, <1>2, <1>4, <2>1, Zenon DEF Now
  <2> QED
    BY <1>3, <2>1, <2>2, Zenon DEF B3KeysInv
<1> QED
  BY <1>5, <1>6

\* So every step keeps what is so of hashers, streams and BLAKE3 keys.
LEMMA B3Step ==
  ASSUME CallsInv, HashersInv, StreamInv, B3KeysInv, [Next]_vars
  PROVE  HashersInv' /\ StreamInv' /\ B3KeysInv'
<1>1. CASE UNCHANGED vars
  <2>1. UNCHANGED <<program, call, hasher, keys, out, fed, mode>>
    BY <1>1, Zenon DEF vars, chosen, stream
  <2>2. HashersInv' /\ StreamInv'
    BY <2>1, Zenon DEF HashersInv, StreamInv, SoundHasher, OutIsTree, StreamFed
  <2>3. program.engine = "Blake3" => \A k \in keys : B3Key(k)'
    BY <2>1, B3KeySame, Zenon DEF B3KeysInv
  <2> QED
    BY <2>1, <2>2, <2>3, Zenon DEF B3KeysInv
<1>2. CASE Next
  BY <1>2, Steps, B3HashStep, B3Elsewhere, B3Begin, Zenon
<1> QED
  BY <1>1, <1>2

\* What is so of the whole system, whatever its engine and its use.
HashInv ==
  /\ CallsInv /\ KeysInv /\ CpuInv /\ BoundedInv /\ DetectingInv /\ Objects
  /\ HashersInv /\ StreamInv /\ B3KeysInv

\* It holds at the start,
LEMMA HashInit ==
  ASSUME Init
  PROVE  HashInv
<1>1. CallsInv /\ KeysInv
  BY CallsInit
<1>2. /\ program \in Programs /\ cpu \in program.cpus /\ detecting = {} /\ keys = {} /\ fed = 0
      /\ mode = "none" /\ out = Taken
      /\ call = [t \in Threads |-> Idle]
      /\ hasher = [t \in Threads |-> hasher_init_base(Garbage, {})]
      /\ xx = [t \in Threads |-> XX!NewXXHash64(0)]
  BY Zenon DEF Init, Taken
<1>3. MaxKeys \in Nat /\ MaxLength \in Nat /\ program.threads \subseteq Threads
  BY <1>2, BoundsAssumption, ProgramsAssumption, Zenon
<1>4. CpuInv /\ DetectingInv
  BY <1>2, Zenon DEF CpuInv, DetectingInv
<1>5. BoundedInv
  <2>1. Bounded(Idle)
    BY <1>3 DEF Bounded, Idle, Places4
  <2> QED
    BY <1>2, <2>1 DEF BoundedInv
<1>6. Objects
  <2>1. \E bytes : XXHas(XX!NewXXHash64(0), bytes)
    <3>1. 0 \in Nat
      OBVIOUS
    <3> QED
      BY <3>1, XXNew, Zenon
  <2> QED
    BY <1>2, <2>1, Zenon DEF Objects
<1>7. HashersInv
  <2>1. SoundHasher(hasher_init_base(Garbage, {}))
    <3>1. Fed(Garbage, {}, 0, 0, 0, hasher_init_base(Garbage, {}))
      BY FedNothing, Zenon
    <3> QED
      BY <3>1, FedIsSound, Zenon
  <2> QED
    BY <1>2, <2>1, Zenon DEF HashersInv
<1>8. StreamInv
  <2>1. fed \in 0 .. MaxLength
    BY <1>2, <1>3
  <2>2. mode \in {"none"} \cup Modes
    BY <1>2
  <2> QED
    BY <1>2, <2>1, <2>2, Zenon DEF StreamInv
<1>9. B3KeysInv
  <2>1. \A h : B3Call(Idle, h)
    BY DEF B3Call, Idle
  <2> QED
    BY <1>2, <1>3, <2>1, Zenon DEF B3KeysInv
<1> QED
  BY <1>1, <1>4, <1>5, <1>6, <1>7, <1>8, <1>9, Zenon DEF HashInv

\* and every step keeps it.
LEMMA HashStepKeeps ==
  ASSUME HashInv, [Next]_vars
  PROVE  HashInv'
<1>1. fed \in Nat
  BY BoundsAssumption DEF HashInv, StreamInv
<1> QED
  BY <1>1, CallsStep, CpuStep, BoundedStep, DetectingStep, ObjectsStep, B3Step, Zenon DEF HashInv

\* Type correctness, the lengths of buffers included: no place in them beyond
\* the last is written by an update, of any length and after any others.
THEOREM HashTypeOK == Spec => []TypeOK
<1>1. HashInv => TypeOK
  <2> SUFFICES ASSUME HashInv
               PROVE  TypeOK
    OBVIOUS
  <2>1. program \in Programs /\ cpu \in program.cpus /\ detecting \subseteq program.threads
    BY Zenon DEF HashInv, CpuInv, DetectingInv
  <2>2. ASSUME NEW t \in Threads
        PROVE  /\ call[t].pc \in {"idle", "init", "update", "finalize"}
               /\ call[t].made \in 0 .. MaxKeys
               /\ hasher[t].chunk.buf_len \in 0 .. BLAKE3_BLOCK_LEN
               /\ chunk_state_len(hasher[t].chunk) \in 0 .. BLAKE3_CHUNK_LEN
               /\ xx[t].bufferSize \in 0 .. XX!MaxBufferSize - 1
    <3>1. Bounded(call[t]) /\ SoundHasher(hasher[t])
      BY Zenon DEF HashInv, BoundedInv, HashersInv
    <3>2. PICK bytes : XXHas(xx[t], bytes)
      BY Zenon DEF HashInv, Objects
    <3>3. PICK q : \E r : Took(xx[t], ByteSet, 0, bytes, q, r)
      BY <3>2, Zenon DEF XXHas
    <3>4. PICK r : Took(xx[t], ByteSet, 0, bytes, q, r)
      BY <3>3, Zenon
    <3>5. PICK object : object = xx[t]
      OBVIOUS
    <3>6. object.bufferSize = r /\ r \in 0 .. 31
      <4>1. Took(object, ByteSet, 0, bytes, q, r)
        BY <3>4, <3>5, Zenon
      <4> QED
        BY <4>1 DEF Took, IsObject
    <3>7. xx[t].bufferSize \in 0 .. XX!MaxBufferSize - 1
      BY <3>5, <3>6 DEF XX!MaxBufferSize
    <3> QED
      BY <3>1, <3>7, Zenon DEF Bounded, Places4, SoundHasher
  <2>3. fed \in 0 .. MaxLength /\ mode \in {"none", "hash", "keyed", "derive"}
    BY DEF HashInv, StreamInv, Modes
  <2> QED
    BY <2>1, <2>2, <2>3, Zenon DEF TypeOK
<1> QED
  BY <1>1, HashInit, HashStepKeeps, PTL DEF Spec

\* The stack of chaining values: at most one longer than the tree over the
\* chunks so far is deep, and of two at least where finalize joins two.
THEOREM StackHasRoom == Spec => []StackFits
<1>1. HashInv => StackFits
  BY Zenon DEF HashInv, HashersInv, SoundHasher, StackFits
<1> QED
  BY <1>1, HashInit, HashStepKeeps, PTL DEF Spec

\* BLAKE3: whatever the pieces a message is cut into, the degree of the CPU and
\* the moment and place the output is read at, the digest is that of the tree
\* over the message, with or without a key; and so is a HashKey.
THEOREM DigestOfTheTree == Spec => []DigestIsTree
<1>1. HashInv => DigestIsTree
  <2> SUFFICES ASSUME HashInv
               PROVE  DigestIsTree
    OBVIOUS
  <2>1. out # Taken =>
          out.bytes = TreeDigest(ModeKey(mode), ModeFlags(mode), Bytes(StreamMessage, 0, fed), out.seek, out.len)
    BY Zenon DEF HashInv, StreamInv, OutIsTree
  <2>2. program.engine = "Blake3" => \A k \in keys : B3Key(k)
    BY Zenon DEF HashInv, B3KeysInv
  <2> QED
    BY <2>1, <2>2, Zenon DEF DigestIsTree, ModeKey, ModeFlags, B3Key, BytesOf
<1> QED
  BY <1>1, HashInit, HashStepKeeps, PTL DEF Spec

-----------------------------------------------------------------------------
\* Two inputs have different trees.

\* What a digest tells of the root, and a parent of its children.
Alike(x, y) ==
  x[1] = y[1] /\ x[2] = y[2] /\ x[3] = y[3] /\ x[5] \cup {"ROOT"} = y[5] \cup {"ROOT"}

\* The first byte of a chunk, and of the tree that begins there.
FirstOf(p, c) == p[3][InChunks(c) + 1]

\* A tree with a key and no flags.
Plain(p) == p[2] = {}

\* The first block of a chunk tells its first byte.
LEMMA BlockTells ==
  ASSUME NEW p, NEW q, NEW c, NEW d, NEW r \in Nat \ {0}, NEW s \in Nat \ {0},
         Block(p, c, 0, r) = Block(q, d, 0, s)
  PROVE  FirstOf(p, c) = FirstOf(q, d)
<1>1. 1 \in 1 .. BL /\ InBlocks(0) = 0 /\ 0 + 1 = 1 /\ 1 <= r /\ 1 <= s
  BY Lengths, Products
<1>2. Block(p, c, 0, r)[1] = FirstOf(p, c)
  BY <1>1, Zenon DEF Block, FirstOf
<1>3. Block(q, d, 0, s)[1] = FirstOf(q, d)
  BY <1>1, Zenon DEF Block, FirstOf
<1> QED
  BY <1>2, <1>3, Zenon

\* A chaining value tells how many blocks it is of, and the first byte of them.
ChainsTell(p, q, c, d, k) ==
  \A l \in Nat : Chain(p, c, k + 1) = Chain(q, d, l + 1) => k = l /\ FirstOf(p, c) = FirstOf(q, d)

\* The chain tells the number of its blocks and the first byte.
LEMMA ChainTells ==
  ASSUME NEW p, NEW q, NEW c, NEW d, Plain(p), Plain(q), NEW k \in Nat
  PROVE  ChainsTell(p, q, c, d, k)
<1> DEFINE Bad == {n \in Nat : ~ ChainsTell(p, q, c, d, n)}
<1>1. ASSUME NEW n \in Bad, \A x \in Bad : n <= x
      PROVE  FALSE
  <2>1. PICK l \in Nat : /\ Chain(p, c, n + 1) = Chain(q, d, l + 1)
                         /\ ~ (n = l /\ FirstOf(p, c) = FirstOf(q, d))
    BY DEF ChainsTell
  <2>2. n \in Nat
    OBVIOUS
  <2>3. /\ Chain(p, c, n + 1) = <<Chain(p, c, n), Block(p, c, n, InBlocks(n) + BL), BL, c, Start(n)>>
        /\ Chain(q, d, l + 1) = <<Chain(q, d, l), Block(q, d, l, InBlocks(l) + BL), BL, d, Start(l)>>
    <3>1. p[2] \cup Start(n) = Start(n) /\ q[2] \cup Start(l) = Start(l)
      BY DEF Plain
    <3>2. /\ Chain(p, c, n + 1)
                = <<Chain(p, c, n), Block(p, c, n, InBlocks(n) + BL), BL, c, p[2] \cup Start(n)>>
          /\ Chain(q, d, l + 1)
                = <<Chain(q, d, l), Block(q, d, l, InBlocks(l) + BL), BL, d, q[2] \cup Start(l)>>
      BY <2>2, ChainIs, Zenon
    <3> QED
      BY <3>1, <3>2, Zenon
  <2>4. /\ Chain(p, c, n) = Chain(q, d, l) /\ Start(n) = Start(l)
        /\ Block(p, c, n, InBlocks(n) + BL) = Block(q, d, l, InBlocks(l) + BL)
    BY <2>1, <2>3
  <2>5. n = 0 <=> l = 0
    BY <2>4 DEF Start
  <2>6. CASE n = 0
    <3>1. InBlocks(0) + BL \in Nat \ {0}
      BY Lengths, Products
    <3>2. FirstOf(p, c) = FirstOf(q, d)
      BY <2>4, <2>5, <2>6, <3>1, BlockTells
    <3> QED
      BY <2>1, <2>5, <2>6, <3>2
  <2>7. CASE n # 0
    <3>1. PICK a \in Nat, b \in Nat : n = a + 1 /\ l = b + 1 /\ a < n
      <4>1. n - 1 \in Nat /\ l - 1 \in Nat /\ n = (n - 1) + 1 /\ l = (l - 1) + 1 /\ n - 1 < n
        BY <2>2, <2>5, <2>7
      <4> QED
        BY <4>1
    <3>2. ~ (n <= a)
      BY <2>2, <3>1
    <3>3. ChainsTell(p, q, c, d, a)
      BY <1>1, <3>2
    <3>4. a = b /\ FirstOf(p, c) = FirstOf(q, d)
      BY <2>4, <3>1, <3>3, Zenon DEF ChainsTell
    <3> QED
      BY <2>1, <3>1, <3>4
  <2> QED
    BY <2>6, <2>7
<1>2. Bad = {}
  <2>1. Bad \in SUBSET Nat
    OBVIOUS
  <2> HIDE DEF Bad
  <2> QED
    BY <1>1, <2>1, LeastNumber
<1> QED
  BY <1>2

\* The node of a chunk tells how many bytes it is of, and the first of them.
LEMMA TipTells ==
  ASSUME NEW p, NEW q, NEW c, NEW d, Plain(p), Plain(q), NEW r \in Nat, NEW s \in Nat,
         Alike(Tip(p, c, r), Tip(q, d, s))
  PROVE  r = s /\ (r # 0 => FirstOf(p, c) = FirstOf(q, d))
<1>1. PICK a \in Nat, b \in Nat : a = WholeBlocks(r) /\ b = WholeBlocks(s)
  BY WholeBlocksIs
<1>2. /\ Tip(p, c, r) = <<Chain(p, c, a), Block(p, c, a, r), r - InBlocks(a), c, Start(a) \cup {"CHUNK_END"}>>
      /\ Tip(q, d, s) = <<Chain(q, d, b), Block(q, d, b, s), s - InBlocks(b), d, Start(b) \cup {"CHUNK_END"}>>
  <2>1. p[2] \cup Start(a) = Start(a) /\ q[2] \cup Start(b) = Start(b)
    BY DEF Plain
  <2> QED
    BY <1>1, <2>1, Zenon DEF Tip
<1>3. /\ Chain(p, c, a) = Chain(q, d, b) /\ Block(p, c, a, r) = Block(q, d, b, s)
      /\ r - InBlocks(a) = s - InBlocks(b)
      /\ (Start(a) \cup {"CHUNK_END"}) \cup {"ROOT"} = (Start(b) \cup {"CHUNK_END"}) \cup {"ROOT"}
  BY <1>2 DEF Alike
<1>4. a = 0 <=> b = 0
  BY <1>3 DEF Start
<1>5. InBlocks(a) \in Nat /\ InBlocks(b) \in Nat /\ InBlocks(0) = 0
  BY Amount, Products
<1>6. CASE a = 0
  <2>1. b = 0 /\ r = s
    BY <1>3, <1>4, <1>5, <1>6
  <2>2. r # 0 => FirstOf(p, c) = FirstOf(q, d)
    BY <1>3, <1>6, <2>1, BlockTells
  <2> QED
    BY <2>1, <2>2
<1>7. CASE a # 0
  <2>1. PICK k \in Nat, l \in Nat : a = k + 1 /\ b = l + 1
    <3>1. a - 1 \in Nat /\ b - 1 \in Nat /\ a = (a - 1) + 1 /\ b = (b - 1) + 1
      BY <1>4, <1>7
    <3> QED
      BY <3>1
  <2>2. ChainsTell(p, q, c, d, k)
    BY ChainTells
  <2>3. k = l /\ FirstOf(p, c) = FirstOf(q, d)
    BY <1>3, <2>1, <2>2, Zenon DEF ChainsTell
  <2>4. a = b
    BY <2>1, <2>3
  <2>5. InBlocks(a) = InBlocks(b)
    BY <2>4
  <2>6. r = s
    BY ONLY <1>3, <1>5, <2>5, r \in Nat, s \in Nat
  <2> QED
    BY <2>3, <2>6
<1> QED
  BY <1>6, <1>7

\* So does any node.
NodesTell(p, q, n) ==
  \A c, d, k \in Nat :
    Within(c, n, p[3]) /\ Within(d, k, q[3]) /\ Alike(Node(p, c, n), Node(q, d, k))
      => n = k /\ (n # 0 => FirstOf(p, c) = FirstOf(q, d))

\* So does every node of a tree of the bytes it is over.
LEMMA NodeTells ==
  ASSUME NEW S, NEW p, NEW q, p[3] \in Seq(S), q[3] \in Seq(S), Plain(p), Plain(q), NEW size \in Nat
  PROVE  NodesTell(p, q, size)
<1> DEFINE Bad == {n \in Nat : ~ NodesTell(p, q, n)}
<1>1. ASSUME NEW n \in Bad, \A x \in Bad : n <= x
      PROVE  FALSE
  <2>0. n \in Nat /\ CL \in Nat
    BY Lengths
  <2>1. PICK c \in Nat, d \in Nat, k \in Nat :
          /\ Within(c, n, p[3]) /\ Within(d, k, q[3]) /\ Alike(Node(p, c, n), Node(q, d, k))
          /\ ~ (n = k /\ (n # 0 => FirstOf(p, c) = FirstOf(q, d)))
    BY DEF NodesTell
  <2>2. ASSUME NEW x, NEW e \in Nat, NEW r \in Nat, x[3] \in Seq(S), Plain(x), Within(e, r, x[3])
        PROVE  /\ r <= CL => Node(x, e, r) = Tip(x, e, r) /\ "CHUNK_END" \in Node(x, e, r)[5]
               /\ r > CL => /\ Node(x, e, r) = Parent(x, Node(x, e, InChunks(LeftChunks(r))),
                                               Node(x, e + LeftChunks(r), r - InChunks(LeftChunks(r))))
                            /\ Node(x, e, r)[5] = {"PARENT"}
    <3>1. ASSUME r <= CL
          PROVE  Node(x, e, r) = Tip(x, e, r)
      BY ONLY <2>2, <3>1, LeafIs, e \in Nat, r \in Nat
    <3>2. "CHUNK_END" \in Tip(x, e, r)[5]
      BY DEF Tip
    <3>3. \A left, right : Parent(x, left, right)[5] = {"PARENT"}
      BY <2>2 DEF Parent, Plain
    <3> QED
      BY <2>2, <3>1, <3>2, <3>3, NodeIs
  <2>3. n <= CL <=> k <= CL
    <3>1. Node(p, c, n)[5] \cup {"ROOT"} = Node(q, d, k)[5] \cup {"ROOT"}
      BY <2>1, Zenon DEF Alike
    <3>2. /\ n <= CL => "CHUNK_END" \in Node(p, c, n)[5]
          /\ ~ (n <= CL) => Node(p, c, n)[5] = {"PARENT"}
          /\ k <= CL => "CHUNK_END" \in Node(q, d, k)[5]
          /\ ~ (k <= CL) => Node(q, d, k)[5] = {"PARENT"}
      BY <2>0, <2>1, <2>2
    <3> QED
      BY <3>1, <3>2
  <2>4. CASE n <= CL
    <3>1. Node(p, c, n) = Tip(p, c, n) /\ Node(q, d, k) = Tip(q, d, k)
      BY <2>0, <2>1, <2>2, <2>3, <2>4
    <3>2. Alike(Tip(p, c, n), Tip(q, d, k))
      BY <2>1, <3>1, Zenon
    <3> QED
      BY <2>0, <2>1, <3>2, TipTells
  <2>5. CASE n > CL
    <3>1. PICK u \in Nat, v \in Nat, a \in Nat, b \in Nat :
            /\ u = LeftChunks(n) /\ v = LeftChunks(k) /\ a = InChunks(u) /\ b = InChunks(v)
            /\ 0 < a /\ a < n /\ 0 < b /\ b < k
      <4>1. k > CL
        BY <2>0, <2>3, <2>5
      <4>2. LeftChunks(n) \in Pow2 /\ LeftChunks(k) \in Pow2 /\ InChunks(LeftChunks(n)) < n
            /\ InChunks(LeftChunks(k)) < k
        BY <2>0, <2>5, <4>1, LeftChunksFor
      <4>3. LeftChunks(n) \in Nat \ {0} /\ LeftChunks(k) \in Nat \ {0}
        BY <4>2, PowersOf2
      <4>4. InChunks(LeftChunks(n)) \in Nat \ {0} /\ InChunks(LeftChunks(k)) \in Nat \ {0}
        BY <4>3, Amount
      <4> QED
        BY <4>2, <4>3, <4>4
    <3>2. n - a \in Nat /\ k - b \in Nat /\ n - a < n /\ c + u \in Nat /\ d + v \in Nat /\ n = a + (n - a)
          /\ k = b + (k - b)
      <4>1. 0 < a /\ a < n /\ b < k
        BY <3>1, Zenon
      <4>2. n \in Nat
        BY <2>0
      <4> QED
        BY ONLY <4>1, <4>2, a \in Nat, b \in Nat, c \in Nat, d \in Nat, k \in Nat, u \in Nat, v \in Nat
    <3>3. /\ Node(p, c, n) = Parent(p, Node(p, c, a), Node(p, c + u, n - a))
          /\ Node(q, d, k) = Parent(q, Node(q, d, b), Node(q, d + v, k - b))
      <4>1. n > CL /\ k > CL /\ n \in Nat
        BY <2>0, <2>3, <2>5
      <4>2. Within(c, n, p[3]) /\ Within(d, k, q[3])
        BY <2>1, Zenon
      <4>3. /\ Node(p, c, n) = Parent(p, Node(p, c, InChunks(LeftChunks(n))),
                                   Node(p, c + LeftChunks(n), n - InChunks(LeftChunks(n))))
            /\ Node(q, d, k) = Parent(q, Node(q, d, InChunks(LeftChunks(k))),
                                   Node(q, d + LeftChunks(k), k - InChunks(LeftChunks(k))))
        BY <2>2, <4>1, <4>2, Zenon
      <4> QED
        BY <3>1, <4>3, Zenon
    <3>4. Node(p, c, a) = Node(q, d, b) /\ Node(p, c + u, n - a) = Node(q, d + v, k - b)
      BY <2>1, <3>3 DEF Alike, Parent
    <3>5. Alike(Node(p, c, a), Node(q, d, b)) /\ Alike(Node(p, c + u, n - a), Node(q, d + v, k - b))
      BY <3>4, Zenon DEF Alike
    <3>6. /\ Within(c, a, p[3]) /\ Within(c + u, n - a, p[3])
          /\ Within(d, b, q[3]) /\ Within(d + v, k - b, q[3])
      <4>1. InChunks(c + u) = InChunks(c) + a /\ InChunks(d + v) = InChunks(d) + b
            /\ InChunks(c) \in Nat /\ InChunks(d) \in Nat
        <5>1. InChunks(c + u) = InChunks(c) + InChunks(u) /\ InChunks(d + v) = InChunks(d) + InChunks(v)
          BY Amounts
        <5>2. InChunks(c) \in Nat /\ InChunks(d) \in Nat
          BY Amount
        <5> QED
          BY <3>1, <5>1, <5>2, Zenon
      <4>2. InChunks(c) + n <= Len(p[3]) /\ InChunks(d) + k <= Len(q[3])
        BY <2>1, Zenon DEF Within
      <4>3. Len(p[3]) \in Nat /\ Len(q[3]) \in Nat
        OBVIOUS
      <4>4. /\ InChunks(c) + a <= Len(p[3]) /\ InChunks(c + u) + (n - a) <= Len(p[3])
            /\ InChunks(d) + b <= Len(q[3]) /\ InChunks(d + v) + (k - b) <= Len(q[3])
        <5>1. ASSUME NEW x \in Nat, NEW z \in Nat, NEW e \in Nat, NEW w \in Nat, NEW y,
                     y = x + z, x + e <= w, z < e
              PROVE  x + z <= w /\ y + (e - z) <= w
          BY ONLY <5>1, x \in Nat, z \in Nat, e \in Nat, w \in Nat
        <5>2. a < n /\ b < k /\ n \in Nat
          BY <2>0, <3>1
        <5>3. InChunks(c) + a <= Len(p[3]) /\ InChunks(c + u) + (n - a) <= Len(p[3])
          BY ONLY <4>1, <4>2, <4>3, <5>1, <5>2, a \in Nat
        <5>4. InChunks(d) + b <= Len(q[3]) /\ InChunks(d + v) + (k - b) <= Len(q[3])
          BY ONLY <4>1, <4>2, <4>3, <5>1, <5>2, b \in Nat, k \in Nat
        <5> QED
          BY <5>3, <5>4, Zenon
      <4> QED
        BY <4>4, Zenon DEF Within
    <3>7. NodesTell(p, q, a) /\ NodesTell(p, q, n - a)
      <4>1. ~ (n <= a) /\ ~ (n <= n - a)
        <5>1. 0 < a /\ a < n
          BY <3>1
        <5> QED
          BY ONLY <2>0, <5>1, a \in Nat
      <4>2. a \notin Bad /\ n - a \notin Bad
        BY <1>1, <4>1
      <4> QED
        BY <3>2, <4>2
    <3>8. a = b /\ FirstOf(p, c) = FirstOf(q, d) /\ n - a = k - b
      <4>1. a = b /\ (a # 0 => FirstOf(p, c) = FirstOf(q, d))
        BY <3>5, <3>6, <3>7, Zenon DEF NodesTell
      <4>2. n - a = k - b
        BY <3>2, <3>5, <3>6, <3>7, Zenon DEF NodesTell
      <4>3. a # 0
        BY <3>1
      <4> QED
        BY <4>1, <4>2, <4>3, Zenon
    <3>9. n = k
      <4>1. a = b /\ n - a = k - b
        BY <3>8, Zenon
      <4>2. n \in Nat
        BY <2>0
      <4> QED
        BY ONLY <4>1, <4>2, a \in Nat, b \in Nat, k \in Nat
    <3> QED
      BY <2>1, <3>8, <3>9, Zenon
  <2> QED
    BY <2>0, <2>4, <2>5
<1>2. Bad = {}
  <2>1. Bad \in SUBSET Nat
    OBVIOUS
  <2> HIDE DEF Bad
  <2> QED
    BY <1>1, <2>1, LeastNumber
<1> QED
  BY <1>2

\* BLAKE3: the digest tells an input from any other.
LEMMA DigestTells ==
  ASSUME NEW i \in Nat \X Nat, NEW j \in Nat \X Nat, NEW l
  PROVE  TreeDigest(IV, {}, BytesOf(i), 0, l) = TreeDigest(IV, {}, BytesOf(j), 0, l) <=> Same(i, j)
<1>1. ASSUME Same(i, j)
      PROVE  TreeDigest(IV, {}, BytesOf(i), 0, l) = TreeDigest(IV, {}, BytesOf(j), 0, l)
  <2>1. BytesOf(i) = BytesOf(j)
    BY <1>1, SameBytes
  <2> QED
    BY <2>1, Zenon
<1>2. ASSUME TreeDigest(IV, {}, BytesOf(i), 0, l) = TreeDigest(IV, {}, BytesOf(j), 0, l)
      PROVE  Same(i, j)
  <2>1. PICK M, L, p, q : M = BytesOf(i) /\ L = BytesOf(j) /\ p = <<IV, {}, M>> /\ q = <<IV, {}, L>>
    OBVIOUS
  <2>2. p[3] = M /\ q[3] = L /\ Plain(p) /\ Plain(q)
    BY <2>1 DEF Plain
  <2>3. PICK n \in Nat, k \in Nat : n = i[2] /\ k = j[2]
    OBVIOUS
  <2>4. M \in Seq(ByteSet) /\ Len(M) = n /\ L \in Seq(ByteSet) /\ Len(L) = k
    <3>1. PICK x \in Nat, y \in Nat : x = i[1] /\ y = j[1]
      OBVIOUS
    <3>2. /\ Bytes(x, 0, n) \in Seq(ByteSet) /\ Len(Bytes(x, 0, n)) = n
          /\ Bytes(y, 0, k) \in Seq(ByteSet) /\ Len(Bytes(y, 0, k)) = k
      BY FirstBytes
    <3> QED
      BY <2>1, <2>3, <3>1, <3>2, Zenon DEF BytesOf
  <2>5. TreeRoot(IV, {}, M) = Node(p, 0, n) /\ TreeRoot(IV, {}, L) = Node(q, 0, k)
    BY <2>1, <2>4, TreeRootIs, Zenon
  <2>6. Alike(Node(p, 0, n), Node(q, 0, k))
    <3>1. PICK a, b : a = Node(p, 0, n) /\ b = Node(q, 0, k)
      OBVIOUS
    <3>2. /\ TreeDigest(IV, {}, M, 0, l).of = <<a[1], a[2], a[3], a[5] \cup {"ROOT"}>>
          /\ TreeDigest(IV, {}, L, 0, l).of = <<b[1], b[2], b[3], b[5] \cup {"ROOT"}>>
      BY <2>5, <3>1 DEF TreeDigest
    <3>3. <<a[1], a[2], a[3], a[5] \cup {"ROOT"}>> = <<b[1], b[2], b[3], b[5] \cup {"ROOT"}>>
      BY <1>2, <2>1, <3>2, Zenon
    <3> QED
      BY <3>1, <3>3 DEF Alike
  <2>7. Within(0, n, M) /\ Within(0, k, L) /\ InChunks(0) = 0
    <3>1. InChunks(0) = 0 /\ 0 + n <= n /\ 0 + k <= k
      BY Products
    <3> QED
      BY <2>4, <3>1, Zenon DEF Within
  <2>8. NodesTell(p, q, n)
    BY <2>2, <2>4, NodeTells
  <2>9. n = k /\ (n # 0 => FirstOf(p, 0) = FirstOf(q, 0))
    <3>1. 0 \in Nat
      OBVIOUS
    <3> QED
      BY <2>2, <2>6, <2>7, <2>8, <3>1, Zenon DEF NodesTell
  <2>10. i[2] = j[2] /\ (i[2] > 0 => BytesOf(i)[1] = BytesOf(j)[1])
    <3>1. FirstOf(p, 0) = M[1] /\ FirstOf(q, 0) = L[1]
      <4>1. 0 + 1 = 1
        OBVIOUS
      <4> QED
        BY <2>2, <2>7, <4>1, Zenon DEF FirstOf
    <3> QED
      BY <2>1, <2>3, <2>9, <3>1
  <2> QED
    BY <2>10, SameBytes
<1> QED
  BY <1>1, <1>2

-----------------------------------------------------------------------------
\* The keys of all engines.

\* The engines.
Engines == {"Dummy", "SHA", "XXhash64", "City256", "Blake3"}

\* Nothing but an engine makes a key.
MadeByEngines == keys # {} => program.engine \in Engines

\* So it is at any time.
LEMMA MadeByEnginesStep ==
  ASSUME CallsInv, MadeByEngines, [Next]_vars
  PROVE  MadeByEngines'
<1>1. CASE UNCHANGED <<program, keys>>
  BY <1>1, Zenon DEF MadeByEngines
<1>2. ASSUME NEW t \in program.threads, HashStep(t)
      PROVE  MadeByEngines'
  <2>1. program' = program
    BY <1>2, ThreadsAre, HashStepDoes, Zenon DEF HashStepIs
  <2>2. program.engine \in Engines
    BY <1>2 DEF Engines, HashStep, DummyHash, Blake3Hash, SHAHash, XXHash, CityHash, At
  <2> QED
    BY <2>1, <2>2, Zenon DEF MadeByEngines
<1>3. ASSUME NEW t \in program.threads, Aside(t)
      PROVE  UNCHANGED <<program, keys>>
  BY <1>3, Zenon DEF Aside
<1>4. UNCHANGED vars => UNCHANGED <<program, keys>>
  BY DEF vars, chosen
<1> QED
  BY <1>1, <1>2, <1>3, <1>4, Steps, AsideIs, Zenon

\* A BLAKE3 key tells its input from any other.
LEMMA B3KeysTell ==
  ASSUME CallsInv, KeysInv, B3KeysInv, program.engine = "Blake3", NEW k \in keys, NEW l \in keys
  PROVE  k[2] = l[2] <=> Same(k[1], l[1])
<1>1. k[1] \in Nat \X Nat /\ l[1] \in Nat \X Nat
  BY ProgramsAssumption, Zenon DEF CallsInv, KeysInv
<1>2. /\ k[2] = TreeDigest(IV, {}, BytesOf(k[1]), 0, program.nbytes)
      /\ l[2] = TreeDigest(IV, {}, BytesOf(l[1]), 0, program.nbytes)
  BY Zenon DEF B3KeysInv, B3Key
<1>3. TreeDigest(IV, {}, BytesOf(k[1]), 0, program.nbytes)
        = TreeDigest(IV, {}, BytesOf(l[1]), 0, program.nbytes) <=> Same(k[1], l[1])
  BY <1>1, DigestTells, Zenon
<1> QED
  BY <1>2, <1>3, Zenon

\* HashKey: keys that threads make, any number of them at the same time and of
\* any inputs, are the same where the inputs are and only there.
THEOREM KeysTellInputsApart == NoSharedResult => (Spec => []SameKeyIffSameInput)
<1> SUFFICES ASSUME NoSharedResult
             PROVE  Spec => []SameKeyIffSameInput
  OBVIOUS
<1> DEFINE I == EnginesInv /\ HashInv /\ MadeByEngines
<1>1. Init => I
  <2>1. Init => MadeByEngines
    BY Zenon DEF Init, MadeByEngines
  <2> QED
    BY <2>1, EnginesInit, HashInit
<1>2. I /\ [Next]_vars => I'
  BY EnginesStep, HashStepKeeps, MadeByEnginesStep, Zenon DEF HashInv
<1>3. I => SameKeyIffSameInput
  <2> SUFFICES ASSUME I
               PROVE  SameKeyIffSameInput
    OBVIOUS
  <2>1. CASE program.engine \in {"Dummy", "SHA", "XXhash64", "City256"}
    BY <2>1, EnginesAreRight
  <2>2. CASE program.engine = "Blake3"
    <3>1. \A k, l \in keys : k[2] = l[2] <=> Same(k[1], l[1])
      BY <2>2, B3KeysTell, Zenon DEF HashInv
    <3> QED
      BY <3>1, Zenon DEF SameKeyIffSameInput, Same
  <2>3. CASE keys = {}
    BY <2>3, Zenon DEF SameKeyIffSameInput
  <2> QED
    BY <2>1, <2>2, <2>3 DEF MadeByEngines, Engines
<1> QED
  BY <1>1, <1>2, <1>3, PTL DEF Spec

=============================================================================
