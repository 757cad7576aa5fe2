----------------------------- MODULE Blake3Tree -----------------------------
(***************************************************************************)
(* The tree that a BLAKE3 digest stands for, told from the whole message.  *)
(* The message is cut into chunks, and a chunk into blocks.  The left part *)
(* of a tree is the largest complete one that leaves a byte for the right. *)
(* Nodes are the tuples of Blake3Compress; the number of a parent is 0.    *)
(***************************************************************************)
EXTENDS Blake3Compress

\* The node of one chunk: its last block is filled up with zeros and counted
\* by the bytes it holds.  The empty message is one empty block.
ChunkNode(key, flags, bytes, counter) ==
  LET full == IF bytes = <<>> THEN 0 ELSE (Len(bytes) - 1) \div BLAKE3_BLOCK_LEN
      Block(b) == [i \in 1 .. BLAKE3_BLOCK_LEN |->
                     LET at == b * BLAKE3_BLOCK_LEN + i
                     IN  IF at <= Len(bytes) THEN bytes[at] ELSE Zero]
      node[b \in 0 .. full] ==
        <<IF b = 0 THEN key ELSE node[b - 1], Block(b),
          IF b = full THEN Len(bytes) - full * BLAKE3_BLOCK_LEN ELSE BLAKE3_BLOCK_LEN,
          counter,
          flags \cup {f \in {"CHUNK_START"} : b = 0} \cup {f \in {"CHUNK_END"} : b = full}>>
  IN  node[full]

\* The chunks on the left of a tree over n bytes.
LeftChunks(n) ==
  LET chunks[k \in Nat] ==
        IF k <= 2 * BLAKE3_CHUNK_LEN THEN 1 ELSE 2 * chunks[(k + 1) \div 2]
  IN  chunks[n]

\* The root of the tree over a message; `node' is that over the n bytes from
\* chunk number `counter' on.
TreeRoot(key, flags, bytes) ==
  LET node[part \in Nat \X Nat] ==
        LET counter == part[1]
            n == part[2]
            from == counter * BLAKE3_CHUNK_LEN
            half == LeftChunks(n)
            cut == half * BLAKE3_CHUNK_LEN
        IN  IF n <= BLAKE3_CHUNK_LEN
            THEN ChunkNode(key, flags, SubSeq(bytes, from + 1, from + n), counter)
            ELSE <<key, <<node[<<counter, cut>>], node[<<counter + half, n - cut>>]>>,
                   BLAKE3_BLOCK_LEN, 0, flags \cup {"PARENT"}>>
  IN  node[<<0, Len(bytes)>>]

\* Bytes number seek, ..., seek + out_len - 1 of the output of the root.
TreeDigest(key, flags, bytes, seek, out_len) ==
  LET root == TreeRoot(key, flags, bytes)
  IN  [of |-> <<root[1], root[2], root[3], root[5] \cup {"ROOT"}>>,
       at |-> [i \in 1 .. out_len |-> seek + i - 1]]

\* The key that a context stands for.
TreeContextKey(context) ==
  LET root == TreeRoot(IV, {"DERIVE_KEY_CONTEXT"}, context)
  IN  <<root[1], root[2], root[3], 0, root[5] \cup {"ROOT"}>>

=============================================================================
