------------------------------ MODULE SafeList ------------------------------
(***************************************************************************)
(* class SafeList and struct listHook (include/safe_list.hpp): a doubly    *)
(* linked list through hooks that the nodes carry, a head, a tail, a size  *)
(* and a condition variable.  Each action is one critical section of       *)
(* mListMutex.                                                             *)
(*                                                                         *)
(* IntrusiveSafeList calls the same operations with the hook of an object, *)
(* and gives back the object of a hook: its nodes are its objects.         *)
(***************************************************************************)
EXTENDS Integers, CondVar

CONSTANTS
  Nodes, NULL,
  Sizes   \* how many values mSize has: 2^32 in the code

ASSUME NodesAssumption == NULL \notin Nodes
ASSUME SizesAssumption == Sizes \in Nat \ {0}

VARIABLES
  mHead, mTail, mSize,
  hook,      \* prev and next of every node
  mListCV    \* condition_variable mListCV

Unhooked == [prev |-> NULL, next |-> NULL]

ConstructSafeList ==
  /\ mHead = NULL /\ mTail = NULL /\ mSize = 0
  /\ hook = [n \in Nodes |-> Unhooked]
  /\ mListCV = NoWaiters

Empty == mHead = NULL /\ mTail = NULL

\* uint32_t arithmetic.
Wrap(i) == i % Sizes

\* if (n) n->next = v; and the same for prev.
SetNext(h, n, v) == IF n = NULL THEN h ELSE [h EXCEPT ![n].next = v]
SetPrev(h, n, v) == IF n = NULL THEN h ELSE [h EXCEPT ![n].prev = v]

\* An unlink() that mends the forward links alone.
UnlinkForward(h, n) ==
  [SetNext(h, h[n].prev, h[n].next) EXCEPT ![n] = Unhooked]

\* listHook::unlink(), link_after() and link_before(): the hooks after it.
unlink(h, n) ==
  [SetPrev(SetNext(h, h[n].prev, h[n].next), h[n].next, h[n].prev)
     EXCEPT ![n] = Unhooked]

link_after(h, n, prevNode) ==
  LET linked == [h EXCEPT ![n] = [prev |-> prevNode, next |-> h[prevNode].next]]
  IN  SetPrev(SetNext(linked, prevNode, n), h[prevNode].next, n)

link_before(h, n, nextNode) ==
  LET linked == [h EXCEPT ![n] = [prev |-> h[nextNode].prev, next |-> nextNode]]
  IN  SetPrev(SetNext(linked, h[nextNode].prev, n), nextNode, n)

\* insert() gives up if it is asked for a place that the list, empty or not,
\* cannot have.
InsertFails(existingNode) == Empty # (existingNode = NULL)

\* An insert() that wakes nobody.
InsertWithoutNotify(existingNode, n) ==
  /\ ~InsertFails(existingNode)
  /\ IF Empty
     THEN mHead' = n /\ mTail' = n /\ UNCHANGED hook
     ELSE /\ hook' = link_before(hook, n, existingNode)
          /\ mHead' = IF mHead = existingNode THEN n ELSE mHead
          /\ UNCHANGED mTail
  /\ mSize' = Wrap(mSize + 1)
  /\ UNCHANGED mListCV

insert(existingNode, n) ==
  /\ ~InsertFails(existingNode)
  /\ IF Empty
     THEN mHead' = n /\ mTail' = n /\ UNCHANGED hook
     ELSE /\ hook' = link_before(hook, n, existingNode)
          /\ mHead' = IF mHead = existingNode THEN n ELSE mHead
          /\ UNCHANGED mTail
  /\ mSize' = Wrap(mSize + 1)
  /\ mListCV' = NotifyAll(mListCV)

\* An erase() that does not look whether its node is the last one.
EraseKeepsTail(n) ==
  /\ mHead' = IF n = mHead THEN hook[n].next ELSE mHead
  /\ hook' = unlink(hook, n)
  /\ mSize' = Wrap(mSize - 1)
  /\ mListCV' = NotifyAll(mListCV)
  /\ UNCHANGED mTail

erase(n) ==
  /\ mTail' = IF n = mTail THEN hook[n].prev ELSE mTail
  /\ mHead' = IF n = mHead THEN hook[n].next ELSE mHead
  /\ hook' = unlink(hook, n)
  /\ mSize' = Wrap(mSize - 1)
  /\ mListCV' = NotifyAll(mListCV)

\* A push_back() that links the node at the head.
PushBackAtHead(n) ==
  /\ IF Empty
     THEN mHead' = n /\ mTail' = n /\ UNCHANGED hook
     ELSE hook' = link_before(hook, n, mHead) /\ mHead' = n /\ UNCHANGED mTail
  /\ mSize' = Wrap(mSize + 1)
  /\ mListCV' = NotifyAll(mListCV)

push_back(n) ==
  /\ IF Empty
     THEN mHead' = n /\ mTail' = n /\ UNCHANGED hook
     ELSE hook' = link_after(hook, n, mTail) /\ mTail' = n /\ UNCHANGED mHead
  /\ mSize' = Wrap(mSize + 1)
  /\ mListCV' = NotifyAll(mListCV)

\* pop_front() and pop_back(): thread t, which calls them or has been woken
\* in them, finds a node and takes it,
PopFrontTakes(t) ==
  /\ ~Empty /\ t \notin mListCV.asleep
  /\ mHead' = hook[mHead].next
  /\ mTail' = IF mTail = mHead THEN NULL ELSE mTail
  /\ hook' = unlink(hook, mHead)
  /\ mSize' = Wrap(mSize - 1)
  /\ mListCV' = Leave(mListCV, t)

\* A pop_back() that leaves the head at the last node it takes.
PopBackKeepsHead(t) ==
  /\ ~Empty /\ t \notin mListCV.asleep
  /\ mTail' = hook[mTail].prev
  /\ hook' = unlink(hook, mTail)
  /\ mSize' = Wrap(mSize - 1)
  /\ mListCV' = Leave(mListCV, t)
  /\ UNCHANGED mHead

PopBackTakes(t) ==
  /\ ~Empty /\ t \notin mListCV.asleep
  /\ mTail' = hook[mTail].prev
  /\ mHead' = IF mHead = mTail THEN NULL ELSE mHead
  /\ hook' = unlink(hook, mTail)
  /\ mSize' = Wrap(mSize - 1)
  /\ mListCV' = Leave(mListCV, t)

\* or finds none and sleeps,
PopAwaits(t) ==
  /\ Empty /\ t \notin mListCV.asleep
  /\ mListCV' = Sleep(mListCV, t)
  /\ UNCHANGED <<mHead, mTail, mSize, hook>>

\* or its timeout expires and there is still none: it returns nullptr.
PopTimesOut(t) ==
  /\ Empty /\ t \in Waiting(mListCV)
  /\ mListCV' = Leave(Rouse(mListCV, t), t)
  /\ UNCHANGED <<mHead, mTail, mSize, hook>>

PopSpurious(t) ==
  /\ t \in mListCV.asleep
  /\ mListCV' = Rouse(mListCV, t)
  /\ UNCHANGED <<mHead, mTail, mSize, hook>>

=============================================================================
