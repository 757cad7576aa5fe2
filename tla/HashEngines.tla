---------------------------- MODULE HashEngines -----------------------------
(***************************************************************************)
(* The hash engines (include/hash.hpp) and the threads that make keys with *)
(* them, and the two hashers that take a message piece by piece, as a      *)
(* program uses them itself.  A program does one of these:                 *)
(*   - "keys": its threads make HashKeys of `nbytes' bytes with `engine'   *)
(*     from `inputs', pairs of a name and a length;                        *)
(*   - "stream": one thread feeds a blake3_hasher or an XXHash64 object.   *)
(* Threads share what is static in a function; what is thread_local or     *)
(* local is indexed by the thread.  hash() of an engine is a few steps, by *)
(* what the other threads can see of it.                                   *)
(*                                                                         *)
(* `keys', `fed' and `mode' are history variables: the keys made, and what *)
(* the hasher was fed and how it was set up since it was set up or reset.  *)
(***************************************************************************)
EXTENDS Blake3, Blake3Tree, CpuFeatures

CONSTANTS
  Threads, Programs,
  MaxKeys,      \* keys a thread makes
  Pieces,       \* lengths of what the hashers are fed at a time
  MaxLength,    \* how much they are fed
  Seeks,        \* pairs <<seek, out_len>> of what is asked of a blake3_hasher
  update_len    \* 64 MB in the code: how much XXHash64 is fed at a time

ASSUME update_lenAssumption == update_len \in Nat \ {0}
ASSUME PiecesAssumption == Pieces \subseteq Nat

\* What is asked of a stream is counted by size_t and uint64_t.
ASSUME BoundsAssumption ==
  MaxKeys \in Nat /\ MaxLength \in Nat /\ Seeks \subseteq Nat \X Nat

\* A stream is fed by one thread.
ASSUME ProgramsAssumption == \A p \in Programs :
  /\ p.threads \subseteq Threads /\ p.cpus \subseteq Cpus
  /\ p.inputs \subseteq Nat \X Nat /\ p.nbytes \in Nat
  /\ p.use = "stream" => \E t \in Threads : p.threads = {t}

XX == INSTANCE XXHash64
City == INSTANCE CityHash

VARIABLES
  program, cpu,
  g_cpu_features,  \* static in blake3_dispatch.c
  detecting,       \* the threads that have detected the features, not stored
  call,            \* the hash() that a thread is in
  hasher,          \* static thread_local in Blake3Engine::hash(), or a stream's
  mdctx,           \* static thread_local in SHAEngine::hash()
  xx,              \* `myhash' of XXhash64Engine::hash(), or a stream's
  xxResult,        \* static `result' of XXhash64Engine::hash()
  cityResult,      \* static `result' of City256Engine::hash()
  out,             \* the last bytes taken from a stream's blake3_hasher
  keys, fed, mode

chosen == <<program, cpu>>
features == <<g_cpu_features, detecting>>
results == <<xxResult, cityResult>>
stream == <<out, fed, mode>>
vars == <<chosen, features, call, hasher, mdctx, xx, results, keys, stream>>

Unset == <<>>
Blank == [of |-> Unset, at |-> <<>>]
Idle == [pc |-> "idle", input |-> <<0, 0>>, added |-> 0, made |-> 0]

\* The bytes of a message from number `from' on.
Bytes(m, from, n) == [i \in 1 .. n |-> IF m = 0 THEN Zero ELSE <<m, from + i>>]

StreamMessage == 1
ContextMessage == <<2, BLAKE3_CHUNK_LEN + 1>>
Key == <<3>>

Init ==
  /\ program \in Programs /\ cpu \in program.cpus
  /\ g_cpu_features = UNDEFINED /\ detecting = {}
  /\ call = [t \in Threads |-> Idle]
  /\ hasher = [t \in Threads |-> hasher_init_base(Garbage, {})]
  /\ mdctx = [t \in Threads |-> Unset]
  /\ xx = [t \in Threads |-> XX!NewXXHash64(0)]
  /\ xxResult = Unset /\ cityResult = Unset
  /\ out = [seek |-> 0, len |-> 0, bytes |-> Blank]
  /\ keys = {} /\ fed = 0 /\ mode = "none"

-----------------------------------------------------------------------------
(* get_cpu_features().  It is called wherever a block is compressed; here, *)
(* once before each call that may compress one.                            *)

NeedsFeatures(t) ==
  /\ program.engine = "Blake3"
  /\ program.use = "stream" \/ call[t].pc \in {"update", "finalize"}

DetectFeatures(t) ==
  /\ NeedsFeatures(t) /\ g_cpu_features = UNDEFINED /\ t \notin detecting
  /\ detecting' = detecting \cup {t}
  /\ UNCHANGED <<chosen, g_cpu_features, call, hasher, mdctx, xx, results, stream, keys>>

StoreFeatures(t) ==
  /\ t \in detecting
  /\ g_cpu_features' = DetectedFeatures(cpu)
  /\ detecting' = detecting \ {t}
  /\ UNCHANGED <<chosen, call, hasher, mdctx, xx, results, stream, keys>>

Features(t) == g_cpu_features # UNDEFINED /\ t \notin detecting

degree == blake3_simd_degree(g_cpu_features)

-----------------------------------------------------------------------------
(* HashKey(input, len): the engine's hash() on a digest of zeros.          *)

At(t, engine, pc) == program.use = "keys" /\ program.engine = engine /\ call[t].pc = pc
GoTo(t, pc) == call' = [call EXCEPT ![t].pc = pc]

m(t) == call[t].input[1]
len(t) == call[t].input[2]

\* The first `size' bytes of a value, into a digest.
Copied(value, size) ==
  [of |-> value, at |-> [i \in 1 .. Least(size, program.nbytes) |-> i - 1]]

MakeKey(t, input) ==
  /\ program.use = "keys" /\ call[t].pc = "idle" /\ call[t].made < MaxKeys
  /\ call' = [call EXCEPT ![t].pc = "init", ![t].input = input, ![t].added = 0]
  /\ UNCHANGED <<chosen, features, hasher, mdctx, xx, results, stream, keys>>

Return(t, digest) ==
  /\ call' = [call EXCEPT ![t].pc = "idle", ![t].made = @ + 1]
  /\ keys' = keys \cup {<<call[t].input, digest>>}

\* Slot (i % digest_len) / 16 of the digest becomes i, for each 16 bytes of
\* the input.
Slots(n, nbytes) ==
  FoldLeft(LAMBDA s, i : [s EXCEPT ![(i % nbytes) \div 16] = i],
           [k \in 0 .. (nbytes - 1) \div 16 |-> 0],
           [j \in 1 .. n \div 16 |-> j - 1])

DummyHash(t) ==
  /\ At(t, "Dummy", "init")
  /\ Return(t, [of |-> Slots(len(t), program.nbytes), at |-> <<>>])
  /\ UNCHANGED <<chosen, features, hasher, mdctx, xx, results, stream>>

Blake3Hash(t) ==
  /\ \/ /\ At(t, "Blake3", "init") /\ GoTo(t, "update")
        /\ hasher' = [hasher EXCEPT ![t] = blake3_hasher_init]
        /\ UNCHANGED keys
     \/ /\ At(t, "Blake3", "update") /\ Features(t) /\ GoTo(t, "finalize")
        /\ hasher' = [hasher EXCEPT ![t] =
                        blake3_hasher_update(@, Bytes(m(t), 0, len(t)), degree)]
        /\ UNCHANGED keys
     \/ /\ At(t, "Blake3", "finalize") /\ Features(t)
        /\ Return(t, blake3_hasher_finalize(hasher[t], program.nbytes))
        /\ UNCHANGED hasher
  /\ UNCHANGED <<chosen, features, mdctx, xx, results, stream>>

\* The context and the temporary digest are the thread's own.  A digest that
\* is too short for the value gets its first bytes.
SHAHash(t) ==
  /\ \/ /\ At(t, "SHA", "init") /\ GoTo(t, "update")
        /\ mdctx' = [mdctx EXCEPT ![t] = Unset]
        /\ UNCHANGED keys
     \/ /\ At(t, "SHA", "update") /\ GoTo(t, "finalize")
        /\ mdctx' = [mdctx EXCEPT ![t] = Append(@, Bytes(m(t), 0, len(t)))]
        /\ UNCHANGED keys
     \/ /\ At(t, "SHA", "finalize") /\ Return(t, Copied(mdctx[t], program.size))
        /\ UNCHANGED mdctx
  /\ UNCHANGED <<chosen, features, hasher, xx, results, stream>>

\* The input goes in by pieces of update_len.  A digest of less than eight
\* bytes is copied from `result', which the first such call initializes.
XXHash(t) ==
  /\ \/ /\ At(t, "XXhash64", "init") /\ GoTo(t, "update")
        /\ xx' = [xx EXCEPT ![t] = XX!NewXXHash64(0)]
        /\ UNCHANGED <<xxResult, keys>>
     \/ /\ At(t, "XXhash64", "update")
        /\ LET i == call[t].added
               n == Least(update_len, len(t) - i)
           IN  IF i < len(t)
               THEN /\ xx' = [xx EXCEPT ![t] = XX!add(@, Bytes(m(t), i, n))]
                    /\ call' = [call EXCEPT ![t].added = i + update_len]
               ELSE GoTo(t, "finalize") /\ UNCHANGED xx
        /\ UNCHANGED <<xxResult, keys>>
     \/ /\ At(t, "XXhash64", "finalize")
        /\ IF program.nbytes >= 8
           THEN Return(t, Copied(XX!hash(xx[t]), 8)) /\ UNCHANGED xxResult
           ELSE /\ xxResult' = IF xxResult = Unset THEN XX!hash(xx[t]) ELSE xxResult
                /\ Return(t, Copied(xxResult', 8))
        /\ UNCHANGED xx
  /\ UNCHANGED <<chosen, features, hasher, mdctx, cityResult, stream>>

\* A digest of at least 32 bytes is written where it lies.  For a shorter one
\* the value is worked out in `result', whose first words hold what is used
\* again at the end; then it is copied.
CityHash(t) ==
  LET value == City!CityHashCrc256(m(t), len(t))
      begun == <<value>>
  IN  /\ \/ /\ At(t, "City256", "init") /\ program.nbytes >= 32
            /\ Return(t, Copied(value, 32))
            /\ UNCHANGED cityResult
         \/ /\ At(t, "City256", "init") /\ program.nbytes < 32
            /\ GoTo(t, "update") /\ cityResult' = begun
            /\ UNCHANGED keys
         \/ /\ At(t, "City256", "update") /\ GoTo(t, "finalize")
            /\ cityResult' = IF cityResult = begun THEN value ELSE <<cityResult, value>>
            /\ UNCHANGED keys
         \/ /\ At(t, "City256", "finalize") /\ Return(t, Copied(cityResult, 32))
            /\ UNCHANGED cityResult
      /\ UNCHANGED <<chosen, features, hasher, mdctx, xx, xxResult, stream>>

-----------------------------------------------------------------------------
(* The hashers, fed by one thread.                                         *)

Streams(t, engine) ==
  /\ program.use = "stream" /\ program.engine = engine
  /\ engine = "Blake3" => Features(t)

Taken == [seek |-> 0, len |-> 0, bytes |-> Blank]

\* blake3_hasher_init(), _init_keyed() and _init_derive_key(): once.
SetUp(t, how) ==
  /\ Streams(t, "Blake3") /\ mode = "none"
  /\ hasher' = [hasher EXCEPT ![t] =
       CASE how = "hash"   -> blake3_hasher_init
         [] how = "keyed"  -> blake3_hasher_init_keyed(Key)
         [] how = "derive" -> blake3_hasher_init_derive_key_raw(
                                Bytes(ContextMessage[1], 0, ContextMessage[2]), degree)]
  /\ mode' = how
  /\ UNCHANGED <<chosen, features, call, mdctx, xx, results, out, keys, fed>>

Update(t, n) ==
  /\ fed + n <= MaxLength
  /\ \/ /\ Streams(t, "Blake3") /\ mode # "none"
        /\ hasher' = [hasher EXCEPT ![t] =
                        blake3_hasher_update(@, Bytes(StreamMessage, fed, n), degree)]
        /\ UNCHANGED xx
     \/ /\ Streams(t, "XXhash64")
        /\ xx' = [xx EXCEPT ![t] = XX!add(@, Bytes(StreamMessage, fed, n))]
        /\ UNCHANGED hasher
  /\ fed' = fed + n
  /\ out' = Taken
  /\ UNCHANGED <<chosen, features, call, mdctx, results, keys, mode>>

FinalizeSeek(t, seek, n) ==
  /\ Streams(t, "Blake3") /\ mode # "none"
  /\ out' = [seek |-> seek, len |-> n,
             bytes |-> blake3_hasher_finalize_seek(hasher[t], seek, n)]
  /\ UNCHANGED <<chosen, features, call, hasher, mdctx, xx, results, keys, fed, mode>>

Reset(t) ==
  /\ Streams(t, "Blake3") /\ mode # "none"
  /\ hasher' = [hasher EXCEPT ![t] = blake3_hasher_reset(@)]
  /\ fed' = 0
  /\ out' = Taken
  /\ UNCHANGED <<chosen, features, call, mdctx, xx, results, keys, mode>>

Next == \E t \in program.threads :
  \/ DetectFeatures(t) \/ StoreFeatures(t)
  \/ \E input \in program.inputs : MakeKey(t, input)
  \/ DummyHash(t) \/ Blake3Hash(t) \/ SHAHash(t) \/ XXHash(t) \/ CityHash(t)
  \/ \E how \in {"hash", "keyed", "derive"} : SetUp(t, how)
  \/ \E n \in Pieces : Update(t, n)
  \/ \E s \in Seeks : FinalizeSeek(t, s[1], s[2])
  \/ Reset(t)

Spec == Init /\ [][Next]_vars

-----------------------------------------------------------------------------

TypeOK ==
  /\ program \in Programs /\ cpu \in program.cpus
  /\ detecting \subseteq program.threads
  /\ \A t \in Threads :
       /\ call[t].pc \in {"idle", "init", "update", "finalize"}
       /\ call[t].made \in 0 .. MaxKeys
       /\ hasher[t].chunk.buf_len \in 0 .. BLAKE3_BLOCK_LEN
       /\ chunk_state_len(hasher[t].chunk) \in 0 .. BLAKE3_CHUNK_LEN
       /\ xx[t].bufferSize \in 0 .. XX!MaxBufferSize - 1
  /\ fed \in 0 .. MaxLength
  /\ mode \in {"none", "hash", "keyed", "derive"}

\* "different input, different output", and "same input in different threads
\* should return the same hash value", whatever other hashes the threads make
\* before or meanwhile.  (The dummy engine hashes nothing but the length.)
SameKeyIffSameInput ==
  LET Same(i, j) == i[2] = j[2] /\ (i[1] = j[1] \/ i[2] = 0)
  IN  \A k, l \in keys :
        /\ Same(k[1], l[1]) => k[2] = l[2]
        /\ k[2] = l[2] /\ program.engine # "Dummy" => Same(k[1], l[1])

\* However a message is cut into pieces, whatever number of chunks the CPU
\* hashes at a time, and at whatever moment and place the output is read, a
\* BLAKE3 digest is that of the message's tree: so is that of a HashKey.
DigestIsTree ==
  /\ out # Taken =>
       out.bytes = TreeDigest(
         CASE mode = "hash"   -> IV
           [] mode = "keyed"  -> Key
           [] mode = "derive" -> TreeContextKey(Bytes(ContextMessage[1], 0, ContextMessage[2])),
         CASE mode = "hash"   -> {}
           [] mode = "keyed"  -> {"KEYED_HASH"}
           [] mode = "derive" -> {"DERIVE_KEY_MATERIAL"},
         Bytes(StreamMessage, 0, fed), out.seek, out.len)
  /\ program.engine = "Blake3" =>
       \A k \in keys :
         k[2] = TreeDigest(IV, {}, Bytes(k[1][1], 0, k[1][2]), 0, program.nbytes)

\* "The stack size is MAX_DEPTH + 1": the stack of chaining values is at most
\* one longer than the tree over the chunks so far is deep.  And "there are
\* always at least 2 CVs in the stack" where finalize joins the two on top.
StackFits == \A t \in Threads :
  LET stack_len == Len(hasher[t].cv_stack)
  IN  stack_len > 0 =>
        /\ 2^(stack_len - 1) <= hasher[t].chunk.chunk_counter
        /\ chunk_state_len(hasher[t].chunk) = 0 => stack_len >= 2

\* "call add() as often as you like": hash() is at any time that of all the
\* bytes so far taken as one input; and an XXhash64 key is that of its input.
XXHashIsWhole ==
  program.engine = "XXhash64" =>
    /\ program.use = "stream" =>
         \A t \in program.threads :
           XX!hash(xx[t]) = XX!Whole(0, Bytes(StreamMessage, 0, fed))
    /\ \A k \in keys : k[2].of = XX!Whole(0, Bytes(k[1][1], 0, k[1][2]))

\* CityHashCrc256 reads every byte of its input and none past its end.
CityReadsAll ==
  program.engine = "City256" =>
    \A k \in keys :
      LET n == City!HashedLength(k[1][2])
      IN  UNION {w .. w + 39 : w \in ToSet(City!Windows(n))} = 0 .. n - 1

\* No thread is sent to instructions that the CPU lacks, or whose registers
\* the operating system does not save.
OnlyWhatTheCpuRuns ==
  g_cpu_features # UNDEFINED =>
    CanRun(cpu, HashManyBy(g_cpu_features)) /\ CanRun(cpu, CompressBy(g_cpu_features))

=============================================================================
