---------------------------- MODULE CpuFeatures -----------------------------
(***************************************************************************)
(* The choice of an implementation (hashes/b3/blake3_dispatch.c), in a     *)
(* build for x86 with all of them.  A set of features is the set of its    *)
(* bits.  A CPU is what cpuid and xgetbv say of it: the highest leaf, the  *)
(* bits of leaves 1 and 7 that are looked at (leaf 7 says anything if it   *)
(* is above the highest), and the states the operating system saves.  Bit  *)
(* SSE2 is set in every CPU for x86-64: there the code does not look.      *)
(***************************************************************************)
EXTENDS Integers

UNDEFINED == {"UNDEFINED"}

ZmmStates == {"Opmask", "ZMM_Hi256", "Hi16_Zmm"}

\* A CPU with AVX512VL has AVX512F too: of the two the code asks at times for
\* the first alone.
Cpus ==
  {c \in [max_id : Nat,
          leaf1 : SUBSET {"SSE2", "SSSE3", "SSE41", "OSXSAVE", "AVX"},
          leaf7 : SUBSET {"AVX2", "AVX512F", "AVX512VL"},
          xcr0 : SUBSET ({"SSE", "AVX"} \cup ZmmStates)] :
     "AVX512VL" \in c.leaf7 => "AVX512F" \in c.leaf7}

\* A detection that does not ask what the operating system saves.
FeaturesOfCpuid(cpu) ==
  (cpu.leaf1 \ {"OSXSAVE"}) \cup {f \in cpu.leaf7 : cpu.max_id >= 7}

\* What get_cpu_features() detects.
DetectedFeatures(cpu) ==
  LET saves == "OSXSAVE" \in cpu.leaf1 /\ {"SSE", "AVX"} \subseteq cpu.xcr0
  IN  (cpu.leaf1 \cap {"SSE2", "SSSE3", "SSE41"})
      \cup {f \in cpu.leaf1 \cap {"AVX"} : saves}
      \cup {f \in cpu.leaf7 : /\ saves /\ cpu.max_id >= 7
                              /\ f # "AVX2" => ZmmStates \subseteq cpu.xcr0}

\* blake3_compress_in_place() and blake3_compress_xof(),
CompressBy(features) ==
  IF "AVX512VL" \in features THEN "avx512"
  ELSE IF "SSE41" \in features THEN "sse41"
  ELSE IF "SSE2" \in features THEN "sse2"
  ELSE "portable"

\* and blake3_hash_many().
HashManyBy(features) ==
  IF {"AVX512F", "AVX512VL"} \subseteq features THEN "avx512"
  ELSE IF "AVX2" \in features THEN "avx2"
  ELSE IF "SSE41" \in features THEN "sse41"
  ELSE IF "SSE2" \in features THEN "sse2"
  ELSE "portable"

blake3_simd_degree(features) ==
  IF {"AVX512F", "AVX512VL"} \subseteq features THEN 16
  ELSE IF "AVX2" \in features THEN 8
  ELSE IF {"SSE41", "SSE2"} \cap features # {} THEN 4
  ELSE 1

\* The CPU has the instructions of an implementation and the operating
\* system saves the registers they use.
CanRun(cpu, implementation) ==
  CASE implementation = "avx512" ->
         /\ cpu.max_id >= 7 /\ {"AVX512F", "AVX512VL"} \subseteq cpu.leaf7
         /\ "OSXSAVE" \in cpu.leaf1 /\ {"SSE", "AVX"} \cup ZmmStates \subseteq cpu.xcr0
    [] implementation = "avx2" ->
         /\ cpu.max_id >= 7 /\ "AVX2" \in cpu.leaf7
         /\ "OSXSAVE" \in cpu.leaf1 /\ {"SSE", "AVX"} \subseteq cpu.xcr0
    [] implementation = "sse41" -> "SSE41" \in cpu.leaf1
    [] implementation = "sse2" -> "SSE2" \in cpu.leaf1
    [] OTHER -> TRUE

=============================================================================
