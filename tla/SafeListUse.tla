---------------------------- MODULE SafeListUse -----------------------------
(***************************************************************************)
(* A SafeList and the threads that use it.  Some calls are made of two     *)
(* steps, between which other threads may run: push_front() reads mHead    *)
(* without the lock and then calls insert(), and a thread that calls       *)
(* insert() or erase() has picked a node of the list before.  `call' holds *)
(* what a thread that is between the two has in hand.                      *)
(*                                                                         *)
(* `listed' and `did' are history variables: the nodes that were put into  *)
(* the list with success and not taken out, and the operation done last.   *)
(***************************************************************************)
EXTENDS SafeList, SequencesExt

CONSTANTS
  Threads,
  Exclusive   \* does nobody else use the list during such a call?

ASSUME ExclusiveAssumption == Exclusive \in BOOLEAN
ASSUME NodesFinite == IsFiniteSet(Nodes)

VARIABLES call, pop, listed, did

listVars == <<mHead, mTail, mSize, hook, mListCV>>
vars == <<listVars, call, pop, listed, did>>

NoCall == [op |-> "none", node |-> NULL, at |-> NULL]

Init ==
  /\ ConstructSafeList
  /\ call = [t \in Threads |-> NoCall]
  /\ pop = [t \in Threads |-> "none"]
  /\ listed = {}
  /\ did = <<"nothing", NULL>>

Idle(t) == call[t] = NoCall /\ pop[t] = "none"

\* Thread t may touch the list.
MayUse(t) == Exclusive => \A u \in Threads \ {t} : call[u] = NoCall

\* A node that is in no list and that nobody is about to put into one.
Free(n) == n \notin listed /\ \A t \in Threads : call[t].node # n

PushBackNode(t, n) ==
  /\ Idle(t) /\ MayUse(t) /\ Free(n)
  /\ push_back(n)
  /\ listed' = listed \cup {n}
  /\ did' = <<"push_back", n>>
  /\ UNCHANGED <<call, pop>>

\* A call of two steps begins: push_front(n) reads the head; or the thread
\* has picked a node e to insert n in front of (or none); or a node n to
\* erase.
Begin(t, op, n, e) ==
  /\ Idle(t) /\ MayUse(t)
  /\ call' = [call EXCEPT ![t] = [op |-> op, node |-> n, at |-> e]]
  /\ UNCHANGED <<listVars, pop, listed, did>>

BeginPushFront(t, n) == Free(n) /\ Begin(t, "push_front", n, mHead)

BeginInsert(t, n, e) ==
  Free(n) /\ e \in listed \cup {NULL} /\ Begin(t, "insert", n, e)

BeginErase(t, n) ==
  /\ n \in listed
  /\ \A u \in Threads : call[u].node # n
  /\ Begin(t, "erase", n, NULL)

FinishInsert(t) ==
  /\ call[t].op \in {"push_front", "insert"}
  /\ \/ /\ insert(call[t].at, call[t].node)
        /\ listed' = listed \cup {call[t].node}
        /\ did' = IF call[t].op = "push_front" THEN <<"push_front", call[t].node>>
                  ELSE <<"insert", call[t].node, call[t].at>>
     \/ InsertFails(call[t].at) /\ UNCHANGED <<listVars, listed, did>>
  /\ call' = [call EXCEPT ![t] = NoCall]
  /\ UNCHANGED pop

FinishErase(t) ==
  /\ call[t].op = "erase"
  /\ erase(call[t].node)
  /\ listed' = listed \ {call[t].node}
  /\ did' = <<"erase", call[t].node>>
  /\ call' = [call EXCEPT ![t] = NoCall]
  /\ UNCHANGED pop

Took(op, n) == listed' = listed \ {n} /\ did' = <<op, n>>

\* pop_front() or pop_back(), from the call to the return.
PopCall(t, op) ==
  /\ Idle(t) \/ pop[t] = op
  /\ MayUse(t)
  /\ \/ op = "pop_front" /\ PopFrontTakes(t) /\ Took(op, mHead)
     \/ op = "pop_back" /\ PopBackTakes(t) /\ Took(op, mTail)
     \/ PopAwaits(t) /\ UNCHANGED <<listed, did>>
     \/ PopTimesOut(t) /\ UNCHANGED listed /\ did' = <<"nothing", NULL>>
  /\ pop' = [pop EXCEPT ![t] = IF t \in Waiting(mListCV') THEN op ELSE "none"]
  /\ UNCHANGED call

Spurious(t) == PopSpurious(t) /\ UNCHANGED <<call, pop, listed, did>>

Next == \E t \in Threads :
  \/ \E n \in Nodes : PushBackNode(t, n) \/ BeginPushFront(t, n) \/ BeginErase(t, n)
  \/ \E n \in Nodes, e \in Nodes \cup {NULL} : BeginInsert(t, n, e)
  \/ FinishInsert(t) \/ FinishErase(t)
  \/ PopCall(t, "pop_front") \/ PopCall(t, "pop_back")
  \/ Spurious(t)

Spec == Init /\ [][Next]_vars

-----------------------------------------------------------------------------

\* The nodes met from `first' on along `link', at most all of them.
Walk(first, link) ==
  LET met[k \in 0 .. Cardinality(Nodes)] ==
        IF k = 0 THEN <<>>
        ELSE LET node == IF met[k - 1] = <<>> THEN first ELSE link[Last(met[k - 1])]
             IN  IF node = NULL THEN met[k - 1] ELSE Append(met[k - 1], node)
  IN  met[Cardinality(Nodes)]

\* What the list holds: the nodes from mHead to its end.
Contents == Walk(mHead, [n \in Nodes |-> hook[n].next])

\* The variables have their types, and head and tail are the ends of the links
\* or, of an empty list, both NULL.
TypeOK ==
  /\ mHead \in Nodes \cup {NULL} /\ mTail \in Nodes \cup {NULL}
  /\ mHead = NULL <=> mTail = NULL
  /\ mSize \in 0 .. Sizes - 1
  /\ hook \in [Nodes -> [prev : Nodes \cup {NULL}, next : Nodes \cup {NULL}]]
  /\ mHead # NULL => hook[mHead].prev = NULL /\ hook[mTail].next = NULL
  /\ mListCV \in CondVarOf(Threads)
  /\ listed \subseteq Nodes

\* "uint32_t mSize; // number of elements".
SizeMatches == mSize = Wrap(Len(Contents))

\* The same nodes, in reverse order, are met from mTail backwards; and a node
\* that is in no list keeps no link to one.
LinksMend ==
  /\ Walk(mTail, [n \in Nodes |-> hook[n].prev]) = Reverse(Contents)
  /\ \A n \in Nodes \ ToSet(Contents) : hook[n] = Unhooked

\* "The list is thread safe": a node that was put in and not taken out is in
\* the list, and no other is.
NoNodeLost == ToSet(Contents) = listed

\* No thread sleeps in a pop while there is a node to take.
NoLostWakeup == ~Empty => mListCV.asleep = {}

\* The list implements the sequence of its contents, every operation at once.
Abstract == INSTANCE DequeSpec WITH items <- Contents
ImplementsDeque == Abstract!Spec

=============================================================================
