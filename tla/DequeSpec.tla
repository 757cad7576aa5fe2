----------------------------- MODULE DequeSpec ------------------------------
(***************************************************************************)
(* The abstract specification of a SafeList: a Deque and the threads that  *)
(* call its operations, each of them atomic.  A thread waits in a pop for  *)
(* as long as there is nothing to take.                                    *)
(***************************************************************************)
EXTENDS Deque

CONSTANTS Nodes, Threads, NULL

VARIABLE did   \* the operation that was done last, and its node

vars == <<items, mListCV, did>>

Nothing == <<"nothing", NULL>>

Init == items = <<>> /\ mListCV = NoWaiters /\ did = Nothing

Add(n) ==
  /\ n \notin ToSet(items)
  /\ \/ PushBack(n) /\ did' = <<"push_back", n>>
     \/ PushFront(n) /\ did' = <<"push_front", n>>
     \/ \E e \in ToSet(items) : InsertBefore(e, n) /\ did' = <<"insert", n, e>>
     \/ DequeEmpty /\ PushBack(n) /\ did' = <<"insert", n, NULL>>

Drop(n) == Erase(n) /\ did' = <<"erase", n>>

Pop(t) ==
  \/ TakeFront(t) /\ did' = <<"pop_front", Head(items)>>
  \/ TakeBack(t) /\ did' = <<"pop_back", Last(items)>>
  \/ AwaitItem(t) /\ UNCHANGED did
  \/ GiveUp(t) /\ did' = Nothing

Spurious(t) ==
  /\ t \in mListCV.asleep
  /\ mListCV' = Rouse(mListCV, t)
  /\ UNCHANGED <<items, did>>

Next ==
  \/ \E n \in Nodes : Add(n) \/ Drop(n)
  \/ \E t \in Threads : Pop(t) \/ Spurious(t)

Spec == Init /\ [][Next]_vars

=============================================================================
