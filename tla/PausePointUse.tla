--------------------------- MODULE PausePointUse ----------------------------
(***************************************************************************)
(* A PausePoint, the workers that call pauseIfRequred() between two pieces *)
(* of work, and the controllers that call pause() and resume().            *)
(*                                                                         *)
(* `workers' and `ctl' are history variables: the threads that run the     *)
(* worker's loop now, and where each controller stands: `pausing' and      *)
(* `resuming' inside the calls; `paused' from the return of its pause() to *)
(* the next resume() of anyone; otherwise `free'.                          *)
(***************************************************************************)
EXTENDS PausePoint, FiniteSets

CONSTANTS
  Workers, Controllers,
  MayExit   \* may a worker end its loop?  The counter of the threads to be
            \* paused is left as it is then

ASSUME WorkersAssumption == IsFiniteSet(Workers)
ASSUME ExitAssumption == MayExit \in BOOLEAN

VARIABLES workers, ctl

ppVars == <<mPause, mPausedThreads, mPauseExpected, mCvPause, mCvPaused>>
vars == <<ppVars, workers, ctl>>

\* The workers that have stopped, or have not yet come back from it.
Stopped == Waiting(mCvPause)

InCall == {"pausing", "resuming"}

Init ==
  \E W \in SUBSET Workers :
    /\ ConstructPausePoint(Cardinality(W))
    /\ workers = W
    /\ ctl = [c \in Controllers |-> "free"]

\* Worker w is between two pieces of work.
Check(w) ==
  /\ w \in workers \ Stopped
  /\ pauseIfRequred(w)
  /\ UNCHANGED <<workers, ctl>>

WorkerWake(w) == PauseWake(w) /\ UNCHANGED <<workers, ctl>>

WorkerSpurious(w) == PauseSpurious(w) /\ UNCHANGED <<workers, ctl>>

\* Worker w has nothing left to do.
Exit(w) ==
  /\ MayExit
  /\ w \in workers \ Stopped
  /\ workers' = workers \ {w}
  /\ UNCHANGED <<ppVars, ctl>>

\* Controller c goes on from pause() or resume() to `after', or sleeps.
Return(c, during, after) ==
  ctl' = [ctl EXCEPT ![c] = IF c \in Waiting(mCvPaused') THEN during ELSE after]

CallPause(c) ==
  /\ ctl[c] \notin InCall
  /\ pause(c)
  /\ Return(c, "pausing", "paused")
  /\ UNCHANGED workers

\* A resume() ends the pause of every controller.
CallResume(c) ==
  /\ ctl[c] \notin InCall
  /\ resume(c)
  /\ ctl' = [d \in Controllers |->
               IF d = c /\ c \in Waiting(mCvPaused') THEN "resuming"
               ELSE IF ctl[d] = "paused" THEN "free" ELSE ctl[d]]
  /\ UNCHANGED workers

WakeInPause(c) ==
  /\ ctl[c] = "pausing"
  /\ CallerWake(c, AllPaused)
  /\ Return(c, "pausing", "paused")
  /\ UNCHANGED workers

WakeInResume(c) ==
  /\ ctl[c] = "resuming"
  /\ CallerWake(c, NonePaused)
  /\ Return(c, "resuming", "free")
  /\ UNCHANGED workers

ControllerSpurious(c) == CallerSpurious(c) /\ UNCHANGED <<workers, ctl>>

\* Nobody holds or asks for a pause: the workers may change.
AllFree == \A c \in Controllers : ctl[c] = "free"

\* Bound: no more threads are counted than there are Workers, those that
\* have ended and are still counted included.
MayCountOne == mPauseExpected < Cardinality(Workers)

\* One worker more, counted before it runs.
AddWorker(w) ==
  /\ AllFree
  /\ MayCountOne
  /\ w \notin workers
  /\ pause_add_thread(1)
  /\ workers' = workers \cup {w}
  /\ UNCHANGED ctl

\* The old workers are gone and the point serves new ones.
NewWorkers(W) ==
  /\ AllFree
  /\ workers \cap Stopped = {}
  /\ pause_initialize(Cardinality(W)) \/ pause_set_threadnum(Cardinality(W))
  /\ workers' = W
  /\ UNCHANGED ctl

Next ==
  \/ \E w \in Workers :
       Check(w) \/ WorkerWake(w) \/ WorkerSpurious(w) \/ Exit(w) \/ AddWorker(w)
  \/ \E c \in Controllers :
       \/ CallPause(c) \/ WakeInPause(c)
       \/ CallResume(c) \/ WakeInResume(c)
       \/ ControllerSpurious(c)
  \/ \E W \in SUBSET Workers : NewWorkers(W)

\* Workers loop: each calls pauseIfRequred() again and again.  Threads that
\* have been notified get the mutex in the end.  Nobody has to call pause()
\* or resume().
Fairness ==
  /\ \A w \in Workers : WF_vars(Check(w)) /\ WF_vars(WorkerWake(w))
  /\ \A c \in Controllers : WF_vars(WakeInPause(c)) /\ WF_vars(WakeInResume(c))

Spec == Init /\ [][Next]_vars /\ Fairness

-----------------------------------------------------------------------------

TypeOK ==
  /\ mPause \in BOOLEAN
  /\ mPausedThreads \in Nat
  /\ mPauseExpected \in Nat
  /\ mCvPause \in CondVarOf(Workers)
  /\ mCvPaused \in CondVarOf(Controllers)
  /\ workers \subseteq Workers
  /\ ctl \in [Controllers -> {"free", "pausing", "paused", "resuming"}]

\* "sleep until all threads have paused": from the return of pause() to the
\* next resume(), no worker is at work.
PausedMeansAllStopped ==
  (\E c \in Controllers : ctl[c] = "paused") => workers \subseteq Stopped

\* "resume() returns when all threads are continue running": no worker is
\* still held when nobody is inside or between pause() and resume().
ResumedMeansNoneStopped == AllFree => Stopped = {}

\* The counter that both waits read is the number of workers held.
CountMatches == mPausedThreads = Cardinality(Stopped)

\* Nobody sleeps on when what it waits for has come true: neither a worker
\* after resume(), nor the caller of pause() or resume().
NoLostWakeup ==
  /\ ~mPause => mCvPause.asleep = {}
  /\ \A c \in mCvPaused.asleep :
       /\ ctl[c] = "pausing" => ~AllPaused
       /\ ctl[c] = "resuming" => ~NonePaused

\* pause() returns, and resume() returns, if the workers keep calling
\* pauseIfRequred(); unless pause() waits for a worker that has ended and is
\* still counted.
SomeoneLeft == mPauseExpected > Cardinality(workers)

PauseReturns == \A c \in Controllers :
  ctl[c] = "pausing" ~> ctl[c] = "paused" \/ SomeoneLeft
ResumeReturns == \A c \in Controllers : ctl[c] = "resuming" ~> ctl[c] = "free"

=============================================================================
