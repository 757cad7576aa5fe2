--------------------------- MODULE Blake3Compress ---------------------------
(***************************************************************************)
(* The compression function of BLAKE3, and the arithmetic the hasher needs *)
(* (hashes/b3/blake3_portable.c, blake3_impl.h).                           *)
(*                                                                         *)
(* Compression is an ideal function: its value is the tuple of its         *)
(* arguments, so that two values are equal only if all that went into them *)
(* is.  A chaining value is such a tuple; IV is the empty tuple.  A block  *)
(* is a sequence of BLAKE3_BLOCK_LEN bytes, or the two chaining values of  *)
(* a parent's children.  A byte is a pair <<message, position>>.  The sets *)
(* of flags are sets of their names.                                       *)
(***************************************************************************)
EXTENDS Integers, SequencesExt

CONSTANTS
  BLAKE3_BLOCK_LEN,   \* 64 in the code
  BLAKE3_CHUNK_LEN    \* 1024 in the code

ASSUME LengthsAssumption ==
  /\ BLAKE3_BLOCK_LEN \in Nat \ {0}
  /\ BLAKE3_CHUNK_LEN \in Nat \ {0}
  /\ BLAKE3_CHUNK_LEN % BLAKE3_BLOCK_LEN = 0
  /\ \E k \in 0 .. BLAKE3_CHUNK_LEN : BLAKE3_CHUNK_LEN = 2^k

IV == <<>>

Zero == <<0, 0>>
ZeroBlock == [i \in 1 .. BLAKE3_BLOCK_LEN |-> Zero]

\* Number of the 1 bits of x.
popcnt(x) ==
  LET ones[y \in Nat] == IF y = 0 THEN 0 ELSE (y % 2) + ones[y \div 2]
  IN  ones[x]

\* "Largest power of two less than or equal to x.  As a special case,
\* returns 1 when x is 0."
round_down_to_power_of_2(x) ==
  LET power[y \in Nat] == IF y <= 1 THEN 1 ELSE 2 * power[y \div 2]
  IN  power[x]

compress_in_place(cv, block, block_len, counter, flags) ==
  <<cv, block, block_len, counter, flags>>

\* The 64 bytes of extended output number `counter': all of them share
\* `of'; a byte of the output is told by its place in the whole stream.
compress_xof(cv, block, block_len, counter, flags) ==
  [of |-> <<cv, block, block_len, flags>>,
   at |-> [i \in 1 .. 64 |-> 64 * counter + i - 1]]

\* `blocks' one after the other, as one chunk or one parent.
hash_one(blocks, key, counter, flags, flags_start, flags_end) ==
  LET n == Len(blocks)
      cv[k \in 0 .. n] ==
        IF k = 0 THEN key
        ELSE compress_in_place(cv[k - 1], blocks[k], BLAKE3_BLOCK_LEN, counter,
               flags \cup (IF k = 1 THEN flags_start ELSE {})
                     \cup (IF k = n THEN flags_end ELSE {}))
  IN  cv[n]

\* Several chunks or parents, each by itself.
hash_many(inputs, key, counter, increment_counter, flags, flags_start, flags_end) ==
  [i \in 1 .. Len(inputs) |->
     hash_one(inputs[i], key, IF increment_counter THEN counter + i - 1 ELSE counter,
              flags, flags_start, flags_end)]

Drop(input, n) == SubSeq(input, n + 1, Len(input))

\* Block or chunk number k of the input.
Slice(input, size, k) == SubSeq(input, (k - 1) * size + 1, k * size)

Least(x, y) == IF x < y THEN x ELSE y

\* while (goes on) state = Step(state), where it goes on `most' times at most.
While(GoesOn(_), Step(_), state, most) ==
  LET after[k \in Nat] ==
        IF k = 0 THEN state
        ELSE LET now == after[k - 1] IN IF GoesOn(now) THEN Step(now) ELSE now
  IN  after[most]

=============================================================================
