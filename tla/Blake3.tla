------------------------------- MODULE Blake3 -------------------------------
(***************************************************************************)
(* The incremental hasher of BLAKE3 (hashes/b3/blake3.c).  A hasher is a   *)
(* record; every function of the code is an operator that returns the      *)
(* hasher as the function leaves it.  `degree' is the number of chunks     *)
(* that blake3_simd_degree() says are hashed at a time.  cv_stack_len is   *)
(* the length of cv_stack.                                                 *)
(***************************************************************************)
EXTENDS Blake3Compress

chunk_state_init(key, flags) ==
  [cv |-> key, chunk_counter |-> 0, buf |-> ZeroBlock, buf_len |-> 0,
   blocks_compressed |-> 0, flags |-> flags]

chunk_state_reset(self, key, chunk_counter) ==
  [self EXCEPT !.cv = key, !.chunk_counter = chunk_counter,
     !.blocks_compressed = 0, !.buf = ZeroBlock, !.buf_len = 0]

chunk_state_len(self) == BLAKE3_BLOCK_LEN * self.blocks_compressed + self.buf_len

\* A copy that does not ask how much room there is.
TakeAll(self, input) == Len(input)

\* How much of the input still fits into the buffer.
TakeLen(self, input) == Least(BLAKE3_BLOCK_LEN - self.buf_len, Len(input))

chunk_state_fill_buf(self, input) ==
  LET take == TakeLen(self, input)
  IN  [self EXCEPT
         !.buf = [i \in DOMAIN @ |->
                    IF i - self.buf_len \in 1 .. take THEN input[i - self.buf_len]
                    ELSE @[i]],
         !.buf_len = @ + take]

chunk_state_maybe_start_flag(self) ==
  IF self.blocks_compressed = 0 THEN {"CHUNK_START"} ELSE {}

CompressBlock(self, block) ==
  [self EXCEPT
     !.cv = compress_in_place(self.cv, block, BLAKE3_BLOCK_LEN, self.chunk_counter,
              self.flags \cup chunk_state_maybe_start_flag(self)),
     !.blocks_compressed = @ + 1]

\* The last block stays in the buffer, full or not: it may be the one that
\* ends the chunk.
chunk_state_update(self, input) ==
  LET take == IF self.buf_len > 0 THEN TakeLen(self, input) ELSE 0
      rest == Drop(input, take)
      filled == chunk_state_fill_buf(self, SubSeq(input, 1, take))
      flushed == [CompressBlock(filled, filled.buf) EXCEPT
                    !.buf = ZeroBlock, !.buf_len = 0]
      whole == IF rest = <<>> THEN 0 ELSE (Len(rest) - 1) \div BLAKE3_BLOCK_LEN
      after[k \in Nat] ==
        IF k = 0 THEN IF self.buf_len > 0 /\ rest # <<>> THEN flushed ELSE filled
        ELSE CompressBlock(after[k - 1], Slice(rest, BLAKE3_BLOCK_LEN, k))
  IN  chunk_state_fill_buf(after[whole], Drop(rest, whole * BLAKE3_BLOCK_LEN))

make_output(input_cv, block, block_len, counter, flags) ==
  [input_cv |-> input_cv, block |-> block, block_len |-> block_len,
   counter |-> counter, flags |-> flags]

chunk_state_output(self) ==
  make_output(self.cv, self.buf, self.buf_len, self.chunk_counter,
    self.flags \cup chunk_state_maybe_start_flag(self) \cup {"CHUNK_END"})

parent_output(block, key, flags) ==
  make_output(key, block, BLAKE3_BLOCK_LEN, 0, flags \cup {"PARENT"})

output_chaining_value(self) ==
  compress_in_place(self.input_cv, self.block, self.block_len, self.counter, self.flags)

\* Bytes seek, seek + 1, ... of the output stream, block by block.
output_root_bytes(self, seek, out_len) ==
  LET Wide(counter) ==
        compress_xof(self.input_cv, self.block, self.block_len, counter,
                     self.flags \cup {"ROOT"})
      copy[call \in Nat \X (0 .. 63) \X Nat] ==
        LET counter == call[1]
            offset == call[2]
            len == call[3]
            take == Least(64 - offset, len)
        IN  IF len = 0 THEN <<>>
            ELSE SubSeq(Wide(counter).at, offset + 1, offset + take)
                   \o copy[<<counter + 1, 0, len - take>>]
  IN  [of |-> Wide(0).of, at |-> copy[<<seek \div 64, seek % 64, out_len>>]]

-----------------------------------------------------------------------------
(* Whole subtrees.                                                         *)

\* "the largest power-of-2 number of chunks that leaves at least 1 byte for
\* the right subtree"
left_len(content_len) ==
  round_down_to_power_of_2((content_len - 1) \div BLAKE3_CHUNK_LEN) * BLAKE3_CHUNK_LEN

\* The chaining value of one chunk that is not the root.
ChunkCV(input, key, chunk_counter, flags) ==
  output_chaining_value(chunk_state_output(
    chunk_state_update(
      [chunk_state_init(key, flags) EXCEPT !.chunk_counter = chunk_counter], input)))

compress_chunks_parallel(input, key, chunk_counter, flags) ==
  LET full == Len(input) \div BLAKE3_CHUNK_LEN
      Blocks(chunk) == [b \in 1 .. BLAKE3_CHUNK_LEN \div BLAKE3_BLOCK_LEN |->
                          Slice(chunk, BLAKE3_BLOCK_LEN, b)]
      cvs == hash_many([c \in 1 .. full |-> Blocks(Slice(input, BLAKE3_CHUNK_LEN, c))],
               key, chunk_counter, TRUE, flags, {"CHUNK_START"}, {"CHUNK_END"})
      rest == Drop(input, full * BLAKE3_CHUNK_LEN)
  IN  IF rest = <<>> THEN cvs
      ELSE Append(cvs, ChunkCV(rest, key, chunk_counter + full, flags))

\* A chaining value that is left over stays as it is.
compress_parents_parallel(cvs, key, flags) ==
  LET pairs == Len(cvs) \div 2
  IN  hash_many([p \in 1 .. pairs |-> <<Slice(cvs, 2, p)>>],
        key, 0, FALSE, flags \cup {"PARENT"}, {}, {})
      \o Drop(cvs, 2 * pairs)

Garbage == <<0>>   \* what memory holds that was not written

\* The chaining values of the left and the right half lie in one array, those
\* of the right one from place `at' on.
compress_subtree_wide(input, key, chunk_counter, flags, degree) ==
  LET wide[part \in Nat \X Nat] ==
        LET from == part[1]
            len == part[2]
            n == left_len(len)
            at == IF n > BLAKE3_CHUNK_LEN /\ degree = 1 THEN 2 ELSE degree
            left == wide[<<from, n>>]
            right == wide[<<from + n, len - n>>]
            cv_array == [i \in 1 .. at + Len(right) |->
                           IF i > at THEN right[i - at]
                           ELSE IF i <= Len(left) THEN left[i] ELSE Garbage]
        IN  IF len <= degree * BLAKE3_CHUNK_LEN
            THEN compress_chunks_parallel(SubSeq(input, from + 1, from + len), key,
                   chunk_counter + from \div BLAKE3_CHUNK_LEN, flags)
            ELSE IF Len(left) = 1 THEN SubSeq(cv_array, 1, 2)
            ELSE compress_parents_parallel(
                   SubSeq(cv_array, 1, Len(left) + Len(right)), key, flags)
  IN  wide[<<0, Len(input)>>]

\* The two chaining values below the top of a subtree.
compress_subtree_to_parent_node(input, key, chunk_counter, flags, degree) ==
  LET wide == compress_subtree_wide(input, key, chunk_counter, flags, degree)
  IN  While(LAMBDA cvs : Len(cvs) > 2,
            LAMBDA cvs : compress_parents_parallel(cvs, key, flags),
            wide, Len(wide))

-----------------------------------------------------------------------------
(* The hasher.                                                             *)

hasher_init_base(key, flags) ==
  [key |-> key, chunk |-> chunk_state_init(key, flags), cv_stack |-> <<>>]

\* As many chaining values stay as total_len has 1 bits: the two on top
\* become one, and so on.
hasher_merge_cv_stack(self, total_len) ==
  LET post_merge_stack_len == popcnt(total_len)
      Merged(stack) ==
        LET n == Len(stack)
        IN  Append(SubSeq(stack, 1, n - 2),
                   output_chaining_value(
                     parent_output(SubSeq(stack, n - 1, n), self.key, self.chunk.flags)))
  IN  [self EXCEPT !.cv_stack =
         While(LAMBDA stack : Len(stack) > post_merge_stack_len, Merged, @, Len(@))]

\* A push that merges nothing.
PushUnmerged(self, new_cv, chunk_counter) ==
  [self EXCEPT !.cv_stack = Append(@, new_cv)]

\* "lazy merging": the new chaining value itself stays unmerged, as it may
\* be a child of the root.
hasher_push_cv(self, new_cv, chunk_counter) ==
  [hasher_merge_cv_stack(self, chunk_counter) EXCEPT !.cv_stack = Append(@, new_cv)]

\* The largest subtree that the input fills, wherever it starts.
ShrinkNever(subtree_len, count_so_far) == subtree_len

\* The largest subtree that the input fills and that starts where a subtree
\* of its size may: both are powers of two.
ShrinkToFit(subtree_len, count_so_far) ==
  LET fit[len \in Nat \ {0}] ==
        IF count_so_far % len = 0 THEN len ELSE fit[len \div 2]
  IN  fit[subtree_len]

\* The largest subtree that may come next, hashed.
HashSubtree(self, input, degree) ==
  LET count == self.chunk.chunk_counter
      subtree_len == ShrinkToFit(round_down_to_power_of_2(Len(input)),
                                 count * BLAKE3_CHUNK_LEN)
      chunks == subtree_len \div BLAKE3_CHUNK_LEN
      subtree == SubSeq(input, 1, subtree_len)
      pair == compress_subtree_to_parent_node(subtree, self.key, count,
                self.chunk.flags, degree)
      pushed == IF subtree_len <= BLAKE3_CHUNK_LEN
                THEN hasher_push_cv(self,
                       ChunkCV(subtree, self.key, count, self.chunk.flags), count)
                ELSE hasher_push_cv(hasher_push_cv(self, pair[1], count),
                                    pair[2], count + chunks \div 2)
  IN  [hasher |-> [pushed EXCEPT !.chunk.chunk_counter = @ + chunks],
       rest |-> Drop(input, subtree_len)]

\* One subtree after the other; at most a chunk is left.
HashSubtrees(self, input, degree) ==
  While(LAMBDA now : Len(now.rest) > BLAKE3_CHUNK_LEN,
        LAMBDA now : HashSubtree(now.hasher, now.rest, degree),
        [hasher |-> self, rest |-> input], Len(input) \div BLAKE3_CHUNK_LEN)

\* The chunk in progress, filled up; and its chaining value pushed, for a new
\* chunk to begin.
Filled(self, input, take) ==
  [self EXCEPT !.chunk = chunk_state_update(@, SubSeq(input, 1, take))]

Closed(filled, key) ==
  [hasher_push_cv(filled, output_chaining_value(chunk_state_output(filled.chunk)),
                  filled.chunk.chunk_counter)
   EXCEPT !.chunk = chunk_state_reset(@, key, @.chunk_counter + 1)]

\* What is left of the input begins a chunk, and "a final merge loop".
Settle(last) == hasher_merge_cv_stack(last, last.chunk.chunk_counter)

Ending(hashed) ==
  IF hashed.rest = <<>> THEN hashed.hasher
  ELSE Settle([hashed.hasher EXCEPT !.chunk = chunk_state_update(@, hashed.rest)])

blake3_hasher_update(self, input, degree) ==
  LET have == chunk_state_len(self.chunk)
      take == IF have > 0 THEN Least(BLAKE3_CHUNK_LEN - have, Len(input)) ELSE 0
      rest == Drop(input, take)
      filled == Filled(self, input, take)
  IN  IF input = <<>> THEN self
      ELSE IF rest = <<>> THEN filled
      ELSE Ending(HashSubtrees(IF have > 0 THEN Closed(filled, self.key) ELSE self,
                               rest, degree))

\* The output at the root: the unfinished chunk, or the two chaining values on
\* top, joined with what lies below them on the stack.
blake3_hasher_finalize_seek(self, seek, out_len) ==
  LET stack_len == Len(self.cv_stack)
      RollUp(output, cvs_remaining) ==
        LET after[k \in Nat] ==
              IF k = 0 THEN output
              ELSE parent_output(<<self.cv_stack[cvs_remaining - k + 1],
                                   output_chaining_value(after[k - 1])>>,
                                 self.key, self.chunk.flags)
        IN  after[cvs_remaining]
      root == IF stack_len = 0 \/ chunk_state_len(self.chunk) > 0
              THEN RollUp(chunk_state_output(self.chunk), stack_len)
              ELSE RollUp(parent_output(SubSeq(self.cv_stack, stack_len - 1, stack_len),
                                        self.key, self.chunk.flags),
                          stack_len - 2)
  IN  output_root_bytes(root, seek, out_len)

blake3_hasher_finalize(self, out_len) == blake3_hasher_finalize_seek(self, 0, out_len)

blake3_hasher_reset(self) ==
  [self EXCEPT !.chunk = chunk_state_reset(@, self.key, 0), !.cv_stack = <<>>]

\* The 32 bytes of a digest as a key.
load_key_words(digest) ==
  compress_in_place(digest.of[1], digest.of[2], digest.of[3], 0, digest.of[4])

blake3_hasher_init == hasher_init_base(IV, {})

blake3_hasher_init_keyed(key) == hasher_init_base(key, {"KEYED_HASH"})

blake3_hasher_init_derive_key_raw(context, degree) ==
  LET context_hasher ==
        blake3_hasher_update(hasher_init_base(IV, {"DERIVE_KEY_CONTEXT"}), context, degree)
  IN  hasher_init_base(load_key_words(blake3_hasher_finalize(context_hasher, 32)),
                       {"DERIVE_KEY_MATERIAL"})

=============================================================================
