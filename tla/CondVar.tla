------------------------------ MODULE CondVar -------------------------------
(***************************************************************************)
(* std::condition_variable and the mutex it is used with, as the classes   *)
(* of threading.hpp and safe_list.hpp use them.                            *)
(*                                                                         *)
(* Every member function of those classes runs one critical section of one *)
(* mutex, broken only by wait(), so the models take a critical section as  *)
(* one step and keep no variable for the mutex.  A thread that calls       *)
(* wait() is `asleep' until it is notified (or wakes for no reason); it is *)
(* then `awake': it competes for the mutex, and when it has it again the   *)
(* predicate passed to wait() is evaluated anew.                           *)
(***************************************************************************)

\* No thread is waiting.
NoWaiters == [asleep |-> {}, awake |-> {}]

\* The values a condition variable of the threads T takes.
CondVarOf(T) == [asleep : SUBSET T, awake : SUBSET T]

\* The threads that have called wait() and have not returned from it.
Waiting(cv) == cv.asleep \cup cv.awake

\* The predicate was false: thread t blocks (for the first time or again).
Sleep(cv, t) == [asleep |-> cv.asleep \cup {t}, awake |-> cv.awake \ {t}]

\* notify_all(): every sleeper goes to compete for the mutex.
NotifyAll(cv) == [asleep |-> {}, awake |-> cv.asleep \cup cv.awake]

\* Thread t wakes without a notification: a spurious wakeup, or the timeout
\* of wait_for().
Rouse(cv, t) == [asleep |-> cv.asleep \ {t}, awake |-> cv.awake \cup {t}]

\* The predicate was true: thread t returns from wait().
Leave(cv, t) == [asleep |-> cv.asleep, awake |-> cv.awake \ {t}]

=============================================================================
