\* Blocks of two bytes, four to a chunk, up to 35 chunks: the widest CPU takes
\* 16 at a time.  Two threads, two keys each.
CONSTANTS
  BLAKE3_BLOCK_LEN = 2
  BLAKE3_CHUNK_LEN = 8
  t1 = t1
  t2 = t2
  Threads = {t1, t2}
  Programs <- MCPrograms
  MaxKeys = 2
  Pieces = {1, 7, 8, 9, 16, 33, 137, 264}
  MaxLength = 280
  Seeks <- MCSeeks
  update_len = 40
SPECIFICATION Spec
INVARIANTS TypeOK SameKeyIffSameInput DigestIsTree StackFits XXHashIsWhole CityReadsAll OnlyWhatTheCpuRuns
CHECK_DEADLOCK FALSE
