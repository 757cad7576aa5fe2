--------------------------- MODULE ThreadControl ----------------------------
(***************************************************************************)
(* class ThreadControl (include/threading.hpp): a SyncPoint, a FanInPoint, *)
(* a PausePoint and a stop flag in one object.                             *)
(*                                                                         *)
(* Its setters call the setter of each base class in turn, each under the  *)
(* mutex of that base: three critical sections, between which every other  *)
(* thread may run.  So they are three actions each, and the classes that   *)
(* use a ThreadControl say where their caller is between them.             *)
(***************************************************************************)
EXTENDS SyncPoint, FanInPoint, PausePoint

VARIABLE stopper   \* std::atomic_bool _stopper

syncVars == <<mSyncExpected, mCvSync>>
fanInVars == <<mFanInExpected, mCvFanIn>>
pauseVars == <<mPause, mPausedThreads, mPauseExpected, mCvPause, mCvPaused>>
tcVars == <<syncVars, fanInVars, pauseVars, stopper>>

ConstructThreadControl(expected) ==
  /\ ConstructSyncPoint(expected)
  /\ ConstructFanInPoint(expected)
  /\ ConstructPausePoint(expected)
  /\ stopper = FALSE

\* A call of one base class leaves the others alone.
OfSync == UNCHANGED <<fanInVars, pauseVars, stopper>>
OfFanIn == UNCHANGED <<syncVars, pauseVars, stopper>>
OfPause == UNCHANGED <<syncVars, fanInVars, stopper>>

\* An add_thread() that leaves out the pause point.
AddToPauseNot(num) == UNCHANGED pauseVars /\ OfPause

\* add_thread(num), one base at a time.
AddToSync(num) == sync_add_thread(num) /\ OfSync
AddToFanIn(num) == fanin_add_thread(num) /\ OfFanIn
AddToPause(num) == pause_add_thread(num) /\ OfPause

\* stop() up to the wait: the flag is set without a lock, and nobody is told.
SetStopper == stopper' = TRUE /\ UNCHANGED <<syncVars, fanInVars, pauseVars>>

stopRequired == stopper

=============================================================================
