----------------------------- MODULE MCSafeList -----------------------------
EXTENDS ListIterator

\* All properties of the runs are safety properties.
Symmetric == Permutations(Nodes) \cup Permutations(Threads)
=============================================================================
