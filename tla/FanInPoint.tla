----------------------------- MODULE FanInPoint -----------------------------
(***************************************************************************)
(* class FanInPoint (include/threading.hpp): a counter of the children     *)
(* that have not called done(), and the condition variable where a parent  *)
(* waits for it to become 0.  Each action is one critical section of       *)
(* mFanInMutex.                                                            *)
(***************************************************************************)
EXTENDS Integers, CondVar

VARIABLES
  mFanInExpected,   \* int FanInPoint::mExpectedThreads
  mCvFanIn          \* condition_variable mCvFanIn

\* FanInPoint(int expected)
ConstructFanInPoint(expected) ==
  /\ mFanInExpected = expected
  /\ mCvFanIn = NoWaiters

\* A done() that forgets the parent.
DoneWithoutNotify ==
  /\ mFanInExpected' = mFanInExpected - 1
  /\ UNCHANGED mCvFanIn

done ==
  /\ mFanInExpected' = mFanInExpected - 1
  /\ mCvFanIn' = NotifyAll(mCvFanIn)

\* wait() up to its return or its first sleep: it does not sleep at all when
\* the counter is 0 already.
wait(t) ==
  /\ mCvFanIn' = IF mFanInExpected = 0 THEN mCvFanIn ELSE Sleep(mCvFanIn, t)
  /\ UNCHANGED mFanInExpected

\* A wait() without its predicate: the first done() lets the parent through.
FanInWakeUnchecked(t) ==
  /\ t \in mCvFanIn.awake
  /\ mCvFanIn' = Leave(mCvFanIn, t)
  /\ UNCHANGED mFanInExpected

\* wait() from a wakeup on.
FanInWake(t) ==
  /\ t \in mCvFanIn.awake
  /\ mCvFanIn' = IF mFanInExpected = 0
                 THEN Leave(mCvFanIn, t)
                 ELSE Sleep(mCvFanIn, t)
  /\ UNCHANGED mFanInExpected

FanInSpurious(t) ==
  /\ t \in mCvFanIn.asleep
  /\ mCvFanIn' = Rouse(mCvFanIn, t)
  /\ UNCHANGED mFanInExpected

\* The setters.  None of them notifies.
fanin_initialize(expected) ==
  /\ mFanInExpected' = expected
  /\ UNCHANGED mCvFanIn

fanin_set_threadnum(num) == fanin_initialize(num)

\* An add_thread() that sets the counter instead of adding to it.
AddThreadSets(num) ==
  /\ mFanInExpected' = num
  /\ UNCHANGED mCvFanIn

fanin_add_thread(num) ==
  /\ mFanInExpected' = mFanInExpected + num
  /\ UNCHANGED mCvFanIn

add == fanin_add_thread(1)

=============================================================================
