----------------------------- MODULE SyncPoint ------------------------------
(***************************************************************************)
(* class SyncPoint (include/threading.hpp): a counter of the threads still *)
(* expected, and the condition variable where the early ones wait.         *)
(*                                                                         *)
(* This module holds the operations alone, each action one critical        *)
(* section of mSyncMutex.  Who may call what, and when, is in SyncPointUse *)
(* and in the classes that inherit from this one.                          *)
(***************************************************************************)
EXTENDS Integers, CondVar

VARIABLES
  mSyncExpected,      \* int SyncPoint::mExpectedThreads
  mCvSync             \* condition_variable mCvSync

\* SyncPoint(int expected)
ConstructSyncPoint(expected) ==
  /\ mSyncExpected = expected
  /\ mCvSync = NoWaiters

\* A sync() that lets the last thread through without waking the others.
SyncWithoutNotify(t) ==
  /\ mSyncExpected' = mSyncExpected - 1
  /\ mCvSync' = IF mSyncExpected' = 0 THEN mCvSync ELSE Sleep(mCvSync, t)

\* sync() up to the return of the last thread or the sleep of an early one.
sync(t) ==
  /\ mSyncExpected' = mSyncExpected - 1
  /\ mCvSync' = IF mSyncExpected' = 0
                THEN NotifyAll(mCvSync)
                ELSE Sleep(mCvSync, t)

\* A wait() without its predicate: whoever wakes up returns.
SyncWakeUnchecked(t) ==
  /\ t \in mCvSync.awake
  /\ mCvSync' = Leave(mCvSync, t)
  /\ UNCHANGED mSyncExpected

\* A wakeup that counts the thread a second time.
SyncWakeRecounts(t) ==
  /\ t \in mCvSync.awake
  /\ mSyncExpected' = mSyncExpected - 1
  /\ mCvSync' = IF mSyncExpected' = 0
                THEN Leave(mCvSync, t)
                ELSE Sleep(mCvSync, t)

\* sync() from a wakeup in wait() on.
SyncWake(t) ==
  /\ t \in mCvSync.awake
  /\ mCvSync' = IF mSyncExpected = 0
                THEN Leave(mCvSync, t)
                ELSE Sleep(mCvSync, t)
  /\ UNCHANGED mSyncExpected

\* wait() may return to its caller's loop without a notification.
SyncSpurious(t) ==
  /\ t \in mCvSync.asleep
  /\ mCvSync' = Rouse(mCvSync, t)
  /\ UNCHANGED mSyncExpected

\* initialize(), set_threadnum() and add_thread(): none of the three
\* notifies.
sync_initialize(expected) ==
  /\ mSyncExpected' = expected
  /\ UNCHANGED mCvSync

sync_set_threadnum(num) == sync_initialize(num)

sync_add_thread(num) ==
  /\ mSyncExpected' = mSyncExpected + num
  /\ UNCHANGED mCvSync

=============================================================================
