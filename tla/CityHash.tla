------------------------------ MODULE CityHash ------------------------------
(***************************************************************************)
(* CityHashCrc256 (hashes/city/city.cc).  Its arithmetic is ideal: the     *)
(* digest is the tuple of the seed, the length and the bytes that are      *)
(* hashed.  What is kept is which bytes those are: the loops read windows  *)
(* of 40 bytes each, told by the place they start at.  A message is a pair *)
(* <<name, length>>; all bytes of the one named 0 are zero.                *)
(***************************************************************************)
EXTENDS Integers, Sequences

\* The bytes of a message, with zeros at its end or without.
Content(m, n) == IF m = 0 \/ n = 0 THEN <<>> ELSE <<m, n>>

\* Windows the last of which starts where the others end.
WindowsPastEnd(len) == [w \in 1 .. (len + 39) \div 40 |-> 40 * (w - 1)]

\* Where the windows of CityHashCrc256Long() start: six at a time, as often
\* as 240 bytes fit, then one at a time, then one that ends with the input.
Windows(len) ==
  LET rounds == 6 * (len \div 240)
      singles == (len % 240) \div 40
      tail == (len % 240) % 40
  IN  [w \in 1 .. rounds + singles |-> 40 * (w - 1)]
      \o (IF tail > 0 THEN <<40 * (rounds + singles) + tail - 40>> ELSE <<>>)

CityHashCrc256Long(m, n, len, seed) == <<seed, len, Content(m, n)>>

\* A short input whose length is not hashed.
ShortUnseeded(m, n) == CityHashCrc256Long(m, n, 240, 0)

\* Short inputs are filled up with zeros; the seed is ~len.
CityHashCrc256Short(m, n) == CityHashCrc256Long(m, n, 240, -1 - n)

CityHashCrc256(m, n) ==
  IF n >= 240 THEN CityHashCrc256Long(m, n, n, 0) ELSE CityHashCrc256Short(m, n)

\* The length of what is read.
HashedLength(n) == IF n >= 240 THEN n ELSE 240

=============================================================================
