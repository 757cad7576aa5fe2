---------------------------- MODULE SyncPointUse ----------------------------
(***************************************************************************)
(* A SyncPoint and the threads that use it, round after round, the way     *)
(* examples/threading.cpp and tests/threading_test.cpp do: someone says    *)
(* how many threads are to meet, that many threads call sync(), and the    *)
(* point is armed anew for the next round.                                 *)
(*                                                                         *)
(* `armed' and `arrived' are history variables: how many threads were      *)
(* announced for the round, and which of them have called sync().          *)
(***************************************************************************)
EXTENDS SyncPoint, FiniteSets

CONSTANTS
  Threads,      \* the threads that may call sync()
  EagerRearm    \* may the point be armed anew as soon as the last thread
                \* has arrived (TRUE), or only when all have left (FALSE)?

ASSUME ThreadsAssumption == IsFiniteSet(Threads) /\ Threads # {}
ASSUME EagerAssumption == EagerRearm \in BOOLEAN

VARIABLES armed, arrived

vars == <<mSyncExpected, mCvSync, armed, arrived>>

Parties == 1 .. Cardinality(Threads)

\* The threads that are inside sync().
Inside == Waiting(mCvSync)

Init ==
  \E n \in Parties :
    /\ ConstructSyncPoint(n)
    /\ armed = n
    /\ arrived = {}

\* Thread t reaches the sync point.  No more threads come than were
\* announced.
CallSync(t) ==
  /\ t \notin Inside
  /\ mSyncExpected > 0
  /\ sync(t)
  /\ arrived' = arrived \cup {t}
  /\ UNCHANGED armed

Wake(t) == SyncWake(t) /\ UNCHANGED <<armed, arrived>>

Spurious(t) == SyncSpurious(t) /\ UNCHANGED <<armed, arrived>>

\* A round is over: the point is armed for the next one.
MayRearm == mSyncExpected = 0 /\ (EagerRearm \/ Inside = {})

Rearm(n) ==
  /\ MayRearm
  /\ \/ sync_initialize(n)
     \/ sync_set_threadnum(n)
     \/ sync_add_thread(n)      \* the counter is 0: adding is setting
  /\ armed' = n
  /\ arrived' = {}

\* More threads are announced while the first ones wait.
Announce(n) ==
  /\ mSyncExpected > 0
  /\ armed + n \in Parties
  /\ sync_add_thread(n)
  /\ armed' = armed + n
  /\ UNCHANGED arrived

Next ==
  \/ \E t \in Threads : CallSync(t) \/ Wake(t) \/ Spurious(t)
  \/ \E n \in Parties : Rearm(n) \/ Announce(n)

\* A notified thread gets the mutex in the end.  Nobody has to call.
Fairness == \A t \in Threads : WF_vars(Wake(t))

Spec == Init /\ [][Next]_vars /\ Fairness

-----------------------------------------------------------------------------

TypeOK ==
  /\ mSyncExpected \in Nat
  /\ mCvSync \in CondVarOf(Threads)
  /\ mCvSync.asleep \cap mCvSync.awake = {}
  /\ armed \in Parties
  /\ arrived \subseteq Threads

\* The barrier: a thread returns from sync() only when every thread that was
\* announced for its round has called sync(), it among them.
LeaveTogether ==
  [][\A t \in Inside : t \notin Inside' =>
       t \in arrived /\ Cardinality(arrived) = armed]_vars

\* No thread sleeps on when the last one has arrived: sync() notifies, and
\* nothing makes the counter zero without a notification.
NoLostWakeup == mSyncExpected = 0 => mCvSync.asleep = {}

\* "sync() will return when all threads have called sync": once the round is
\* complete, every thread inside gets out.
SyncReturns ==
  \A t \in Threads :
    (t \in Inside /\ Cardinality(arrived) = armed) ~> (t \notin Inside)

=============================================================================
