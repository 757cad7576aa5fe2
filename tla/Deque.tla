------------------------------- MODULE Deque --------------------------------
(***************************************************************************)
(* What SafeList promises: a sequence of distinct nodes, with operations   *)
(* that are atomic, and a condition variable where threads wait for it to  *)
(* be non-empty.  SafeListUse shows that the linked list implements this;  *)
(* GenericThreadPool uses it as its task queue.                            *)
(***************************************************************************)
EXTENDS SequencesExt, CondVar

VARIABLES
  items,     \* the nodes of the list, front first
  mListCV    \* condition_variable mListCV

DequeEmpty == items = <<>>

\* push_back()
PushBack(n) ==
  /\ items' = Append(items, n)
  /\ mListCV' = NotifyAll(mListCV)

\* push_front()
PushFront(n) ==
  /\ items' = <<n>> \o items
  /\ mListCV' = NotifyAll(mListCV)

\* insert(): n goes in front of e.
InsertBefore(e, n) ==
  /\ \E i \in DOMAIN items : items[i] = e /\ items' = InsertAt(items, i, n)
  /\ mListCV' = NotifyAll(mListCV)

\* erase()
Erase(n) ==
  /\ \E i \in DOMAIN items : items[i] = n /\ items' = RemoveAt(items, i)
  /\ mListCV' = NotifyAll(mListCV)

\* A pop that leaves the node in the list.
TakeFrontKeeps(t) ==
  /\ ~DequeEmpty
  /\ t \notin mListCV.asleep
  /\ mListCV' = Leave(mListCV, t)
  /\ UNCHANGED items

\* pop_front() and pop_back(): thread t, which calls them or has been woken
\* in them, finds a node and takes it,
TakeFront(t) ==
  /\ ~DequeEmpty
  /\ t \notin mListCV.asleep
  /\ items' = Tail(items)
  /\ mListCV' = Leave(mListCV, t)

TakeBack(t) ==
  /\ ~DequeEmpty
  /\ t \notin mListCV.asleep
  /\ items' = Front(items)
  /\ mListCV' = Leave(mListCV, t)

\* or finds none and sleeps,
AwaitItem(t) ==
  /\ DequeEmpty
  /\ t \notin mListCV.asleep
  /\ mListCV' = Sleep(mListCV, t)
  /\ UNCHANGED items

\* or its timeout expires and there is still none: it returns nullptr.
GiveUp(t) ==
  /\ DequeEmpty
  /\ t \in Waiting(mListCV)
  /\ mListCV' = Leave(Rouse(mListCV, t), t)
  /\ UNCHANGED items

=============================================================================
