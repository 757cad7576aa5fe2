----------------------------- MODULE PausePoint -----------------------------
(***************************************************************************)
(* class PausePoint (include/threading.hpp): a flag, the number of workers *)
(* that have stopped, the number that should, and two condition variables: *)
(* the stopped workers sleep at mCvPause, the callers of pause() and       *)
(* resume() at mCvPaused.  Each action is one critical section of          *)
(* mPauseMutex.                                                            *)
(***************************************************************************)
EXTENDS Integers, CondVar

VARIABLES
  mPause,           \* atomic<bool> mPause, only touched under the mutex
  mPausedThreads,   \* int mPausedThreads
  mPauseExpected,   \* int PausePoint::mExpectedThreads
  mCvPause,         \* condition_variable mCvPause
  mCvPaused         \* condition_variable mCvPaused

\* PausePoint(size_t expected)
ConstructPausePoint(expected) ==
  /\ mPause = FALSE
  /\ mPausedThreads = 0
  /\ mPauseExpected = expected
  /\ mCvPause = NoWaiters
  /\ mCvPaused = NoWaiters

\* A worker that stops without telling the caller of pause().
StopUnannounced(t) ==
  /\ IF mPause
     THEN /\ mPausedThreads' = mPausedThreads + 1
          /\ mCvPause' = Sleep(mCvPause, t)
     ELSE UNCHANGED <<mPausedThreads, mCvPause>>
  /\ UNCHANGED <<mPause, mPauseExpected, mCvPaused>>

\* pauseIfRequred() up to its return or its first sleep.
pauseIfRequred(t) ==
  /\ IF mPause
     THEN /\ mPausedThreads' = mPausedThreads + 1
          /\ mCvPaused' = NotifyAll(mCvPaused)
          /\ mCvPause' = Sleep(mCvPause, t)
     ELSE UNCHANGED <<mPausedThreads, mCvPaused, mCvPause>>
  /\ UNCHANGED <<mPause, mPauseExpected>>

\* A worker that goes on without being taken off the count.
ContinueUncounted(t) ==
  /\ t \in mCvPause.awake
  /\ IF mPause
     THEN mCvPause' = Sleep(mCvPause, t) /\ UNCHANGED mCvPaused
     ELSE mCvPause' = Leave(mCvPause, t) /\ mCvPaused' = NotifyAll(mCvPaused)
  /\ UNCHANGED <<mPause, mPausedThreads, mPauseExpected>>

\* A worker that is taken off the count whenever it wakes.
WakeUncounts(t) ==
  /\ t \in mCvPause.awake
  /\ mCvPause' = IF mPause THEN Sleep(mCvPause, t) ELSE Leave(mCvPause, t)
  /\ mPausedThreads' = mPausedThreads - 1
  /\ mCvPaused' = NotifyAll(mCvPaused)
  /\ UNCHANGED <<mPause, mPauseExpected>>

\* pauseIfRequred() from a wakeup in wait() on.
PauseWake(t) ==
  /\ t \in mCvPause.awake
  /\ IF mPause
     THEN /\ mCvPause' = Sleep(mCvPause, t)
          /\ UNCHANGED <<mPausedThreads, mCvPaused>>
     ELSE /\ mCvPause' = Leave(mCvPause, t)
          /\ mPausedThreads' = mPausedThreads - 1
          /\ mCvPaused' = NotifyAll(mCvPaused)
  /\ UNCHANGED <<mPause, mPauseExpected>>

PauseSpurious(t) ==
  /\ t \in mCvPause.asleep
  /\ mCvPause' = Rouse(mCvPause, t)
  /\ UNCHANGED <<mPause, mPausedThreads, mPauseExpected, mCvPaused>>

AllPaused == mPausedThreads = mPauseExpected

NonePaused == mPausedThreads = 0

\* pause() up to its return or its first sleep.
pause(c) ==
  /\ mPause' = TRUE
  /\ mCvPaused' = IF AllPaused THEN mCvPaused ELSE Sleep(mCvPaused, c)
  /\ UNCHANGED <<mPausedThreads, mPauseExpected, mCvPause>>

\* A resume() that only clears the flag.
ResumeWithoutNotify(c) ==
  /\ mPause' = FALSE
  /\ mCvPaused' = IF NonePaused THEN mCvPaused ELSE Sleep(mCvPaused, c)
  /\ UNCHANGED <<mPausedThreads, mPauseExpected, mCvPause>>

\* resume() up to its return or its first sleep.
resume(c) ==
  /\ mPause' = FALSE
  /\ mCvPause' = NotifyAll(mCvPause)
  /\ mCvPaused' = IF NonePaused THEN mCvPaused ELSE Sleep(mCvPaused, c)
  /\ UNCHANGED <<mPausedThreads, mPauseExpected>>

\* A wait() without its predicate: any news lets the caller return.
CallerWakeUnchecked(c, Ready) ==
  /\ c \in mCvPaused.awake
  /\ mCvPaused' = Leave(mCvPaused, c)
  /\ UNCHANGED <<mPause, mPausedThreads, mPauseExpected, mCvPause>>

\* pause() or resume() from a wakeup on: Ready is the predicate of its
\* wait(), AllPaused or NonePaused.
CallerWake(c, Ready) ==
  /\ c \in mCvPaused.awake
  /\ mCvPaused' = IF Ready THEN Leave(mCvPaused, c) ELSE Sleep(mCvPaused, c)
  /\ UNCHANGED <<mPause, mPausedThreads, mPauseExpected, mCvPause>>

CallerSpurious(c) ==
  /\ c \in mCvPaused.asleep
  /\ mCvPaused' = Rouse(mCvPaused, c)
  /\ UNCHANGED <<mPause, mPausedThreads, mPauseExpected, mCvPause>>

\* The setters.  None of them notifies.
pause_initialize(expected) ==
  /\ mPausedThreads' = 0
  /\ mPauseExpected' = expected
  /\ UNCHANGED <<mPause, mCvPause, mCvPaused>>

pause_add_thread(num) ==
  /\ mPauseExpected' = mPauseExpected + num
  /\ UNCHANGED <<mPause, mPausedThreads, mCvPause, mCvPaused>>

pause_set_threadnum(num) ==
  /\ mPauseExpected' = num
  /\ UNCHANGED <<mPause, mPausedThreads, mCvPause, mCvPaused>>

=============================================================================
