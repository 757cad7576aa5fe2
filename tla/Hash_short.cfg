\* Keys shorter than the value of their engine.
CONSTANTS
  BLAKE3_BLOCK_LEN = 2
  BLAKE3_CHUNK_LEN = 8
  t1 = t1
  t2 = t2
  Threads = {t1, t2}
  Programs <- MCShortPrograms
  MaxKeys = 2
  Pieces = {}
  MaxLength = 0
  Seeks = {}
  update_len = 40
SPECIFICATION Spec
INVARIANTS SameKeyIffSameInput
CHECK_DEADLOCK FALSE
