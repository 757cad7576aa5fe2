---------------------------- MODULE ListIterator ----------------------------
(***************************************************************************)
(* SafeList::Iterator (include/safe_list.hpp) over the list of SafeListUse *)
(* while the threads go on to use the list.  An iterator is the node it    *)
(* stands on, or NULL: its mParent is null exactly when the node is.       *)
(* begin() reads mHead without the lock; ++ and -- take the lock for one   *)
(* move each, and nothing keeps the node in the list between two moves.    *)
(* IntrusiveSafeList::Iterator calls the same operations.                  *)
(*                                                                         *)
(* `ahead' is a history variable: the nodes that were in the list behind   *)
(* the iterator's when it came to its node, and have stayed there.  When   *)
(* its own node is taken out of the list the iterator is promised nothing  *)
(* any more: that node forgets its neighbours.                             *)
(***************************************************************************)
EXTENDS SafeListUse

VARIABLES mCurrent, ahead

walkVars == <<vars, mCurrent, ahead>>

WalkInit == Init /\ mCurrent = NULL /\ ahead = {}

\* begin()
begin ==
  /\ mCurrent' = mHead
  /\ ahead' = listed \ {mHead}
  /\ UNCHANGED vars

\* operator++ and operator--.  Neither may be called at the end.
Forward ==
  /\ mCurrent # NULL
  /\ mCurrent' = hook[mCurrent].next
  /\ ahead' = ahead \ {mCurrent'}
  /\ UNCHANGED vars

Backward ==
  /\ mCurrent # NULL
  /\ mCurrent' = hook[mCurrent].prev
  /\ ahead' = IF mCurrent' = NULL THEN {} ELSE ahead \cup {mCurrent}
  /\ UNCHANGED vars

\* The other threads, which know nothing of the iterator.
Others ==
  /\ Next
  /\ ahead' = IF mCurrent \in listed' THEN ahead \cap listed' ELSE {}
  /\ UNCHANGED mCurrent

WalkNext == begin \/ Forward \/ Backward \/ Others

WalkSpec == WalkInit /\ [][WalkNext]_walkVars

-----------------------------------------------------------------------------

\* "it's fine to iterate a SafeList with iterators like a container": while
\* the node an iterator stands on stays in the list, ++ still reaches every
\* node that was behind it and stays too, whatever is put in, popped and
\* erased around them; so it meets them all before it gets to the end.
WalkMeetsAll ==
  LET next == [n \in Nodes |-> hook[n].next]
  IN  ahead \subseteq ToSet(Walk(IF mCurrent = NULL THEN NULL ELSE next[mCurrent], next))

=============================================================================
