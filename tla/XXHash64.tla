------------------------------ MODULE XXHash64 ------------------------------
(***************************************************************************)
(* class XXHash64 (hashes/xxhash64.h): the incremental 64 bit xxHash.  The *)
(* object is a record.  Mixing is ideal: the four lanes of `state' stand   *)
(* for the seed and the blocks of 32 bytes they took in, and the value of  *)
(* hash() is the tuple of all that is mixed into it.                       *)
(***************************************************************************)
EXTENDS Integers, Sequences

MaxBufferSize == 31 + 1

Uninitialized == <<>>

NewXXHash64(seed) ==
  [state |-> [seed |-> seed, blocks |-> <<>>],
   buffer |-> [i \in 1 .. MaxBufferSize |-> Uninitialized],
   bufferSize |-> 0, totalLength |-> 0]

\* The buffer once `bytes' are stored in it from place `at' on.
Stored(buffer, at, bytes) ==
  [i \in 1 .. MaxBufferSize |->
     IF i > at /\ i <= at + Len(bytes) THEN bytes[i - at] ELSE buffer[i]]

\* Words of `size' bytes, one after the other.
Words(bytes, size) ==
  [k \in 1 .. Len(bytes) \div size |-> SubSeq(bytes, (k - 1) * size + 1, k * size)]

\* Input that does not fill the buffer is stored.  Otherwise the buffer, if
\* there is something in it, is filled up and processed, then every whole
\* block of the rest; what is left goes to the buffer.
add(self, input) ==
  LET take == IF self.bufferSize > 0 THEN MaxBufferSize - self.bufferSize ELSE 0
      full == Stored(self.buffer, self.bufferSize, SubSeq(input, 1, take))
      rest == SubSeq(input, take + 1, Len(input))
      left == Len(rest) % MaxBufferSize
  IN  IF input = <<>> THEN self
      ELSE IF self.bufferSize + Len(input) < MaxBufferSize
      THEN [self EXCEPT !.totalLength = @ + Len(input),
                        !.buffer = Stored(@, self.bufferSize, input),
                        !.bufferSize = @ + Len(input)]
      ELSE [self EXCEPT !.totalLength = @ + Len(input),
                        !.state.blocks = @ \o (IF take > 0 THEN <<full>> ELSE <<>>)
                                           \o Words(rest, MaxBufferSize),
                        !.buffer = Stored(full, 0,
                                     SubSeq(rest, Len(rest) - left + 1, Len(rest))),
                        !.bufferSize = left]

\* state[2]: the seed, and the third word of every block that was processed.
ThirdLane(state) ==
  <<state.seed, [k \in 1 .. Len(state.blocks) |-> SubSeq(state.blocks[k], 17, 24)]>>

\* What hash() starts from: the lanes folded into one, or, if no block was
\* ever processed, the seed.
StartOffByOne(self) ==
  IF self.totalLength > MaxBufferSize
  THEN <<self.state.seed, self.state.blocks, "folded">> ELSE ThirdLane(self.state)

Start(self) ==
  IF self.totalLength >= MaxBufferSize
  THEN <<self.state.seed, self.state.blocks, "folded">> ELSE ThirdLane(self.state)

\* The bytes in the buffer, eaten eight by eight, then four, then one by one.
hash(self) ==
  LET data == SubSeq(self.buffer, 1, self.bufferSize)
      eights == Words(data, 8)
      rest == SubSeq(data, 8 * Len(eights) + 1, Len(data))
      fours == Words(rest, 4)
  IN  <<Start(self), self.totalLength, eights, fours,
        SubSeq(rest, 4 * Len(fours) + 1, Len(rest))>>

-----------------------------------------------------------------------------

\* What xxHash makes of a whole input: all its blocks of 32 bytes, if there
\* are any, and what remains of it.
Whole(seed, bytes) ==
  LET blocks == Len(bytes) \div MaxBufferSize
      Bytes(from, to) == [i \in 1 .. to - from |-> bytes[from + i]]
      four == Len(bytes) - (Len(bytes) % 8)
      one == Len(bytes) - (Len(bytes) % 4)
  IN  <<IF blocks = 0 THEN <<seed, <<>>>>
        ELSE <<seed, [b \in 1 .. blocks |-> Bytes(32 * (b - 1), 32 * b)], "folded">>,
        Len(bytes),
        [w \in 1 .. (Len(bytes) % 32) \div 8 |->
           Bytes(32 * blocks + 8 * (w - 1), 32 * blocks + 8 * w)],
        IF one = four THEN <<>> ELSE <<Bytes(four, one)>>,
        Bytes(one, Len(bytes))>>

=============================================================================
