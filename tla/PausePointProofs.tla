-------------------------- MODULE PausePointProofs --------------------------
(***************************************************************************)
(* Proofs about PausePointUse for any finite set of workers.               *)
(*                                                                         *)
(* Counting is right, and no wakeup is lost, whoever calls and whoever     *)
(* ends (CountAndWakeup).  What pause() and resume() promise is proved for *)
(* a single controller (PauseHolds, ResumeReleases), from three facts      *)
(* more: the flag is set exactly while the controller is in or after       *)
(* pause(); no more workers run than are counted; and, as nobody can be    *)
(* stopped without the flag, the stopped workers only come back between    *)
(* resume() and its return.                                                *)
(***************************************************************************)
EXTENDS PausePointUse, Counting, TLAPS

CvPauseSplit == mCvPause.asleep \cap mCvPause.awake = {}

StoppedAreWorkers == Stopped \subseteq workers

CallersInCall == \A c \in Waiting(mCvPaused) : ctl[c] \in InCall

CountInv ==
  /\ TypeOK /\ CvPauseSplit /\ StoppedAreWorkers /\ CallersInCall
  /\ CountMatches /\ NoLostWakeup

OneController == \A c, d \in Controllers : c = d

FlagInv == mPause <=> \E c \in Controllers : ctl[c] \in {"pausing", "paused"}

WorkersCounted == Cardinality(workers) <= mPauseExpected

PromiseInv == FlagInv /\ WorkersCounted /\ PausedMeansAllStopped /\ ResumedMeansNoneStopped

\* What CountOfPart says of the workers.
LEMMA WorkerCount ==
  ASSUME NEW S \in SUBSET Workers
  PROVE  /\ Cardinality(S) \in Nat
         /\ Cardinality(S) = 0 <=> S = {}
         /\ \A w \in Workers \ S : Cardinality(S \cup {w}) = Cardinality(S) + 1
         /\ \A w \in S : Cardinality(S \ {w}) = Cardinality(S) - 1
         /\ \A T \in SUBSET S : Cardinality(S) <= Cardinality(T) => T = S
BY WorkersAssumption, CountOfPart

\* A worker that stops is one more in Stopped; one that goes on is one less.
LEMMA StoppedCount ==
  ASSUME CountInv
  PROVE  /\ Stopped \in SUBSET Workers
         /\ \A w \in Workers \ Stopped :
              /\ Waiting(Sleep(mCvPause, w)) = Stopped \cup {w}
              /\ Cardinality(Waiting(Sleep(mCvPause, w))) = Cardinality(Stopped) + 1
         /\ \A w \in mCvPause.awake :
              /\ Waiting(Leave(mCvPause, w)) = Stopped \ {w}
              /\ Cardinality(Waiting(Leave(mCvPause, w))) = Cardinality(Stopped) - 1
              /\ Waiting(Sleep(mCvPause, w)) = Stopped
<1> USE DEF Stopped, Waiting, Sleep, Leave, CountInv, TypeOK, CondVarOf, CvPauseSplit
<1>1. Stopped \in SUBSET Workers
  OBVIOUS
<1>2. \A w \in Workers \ Stopped : Waiting(Sleep(mCvPause, w)) = Stopped \cup {w}
  OBVIOUS
<1>3. \A w \in mCvPause.awake : /\ Waiting(Leave(mCvPause, w)) = Stopped \ {w}
                                /\ Waiting(Sleep(mCvPause, w)) = Stopped
                                /\ w \in Stopped
  OBVIOUS
<1> HIDE DEF Stopped, Waiting, Sleep, Leave, CountInv
<1> QED
  BY <1>1, <1>2, <1>3, WorkerCount

\* The counting is right at the start.
LEMMA CountInvInit == Init => CountInv
<1> SUFFICES ASSUME NEW W \in SUBSET Workers, ConstructPausePoint(Cardinality(W)),
                    workers = W, ctl = [c \in Controllers |-> "free"]
             PROVE  CountInv
  BY DEF Init
<1> USE DEF ConstructPausePoint, NoWaiters
<1>1. Cardinality(W) \in Nat /\ Cardinality({}) = 0
  BY WorkerCount
<1>2. TypeOK
  BY <1>1 DEF TypeOK, CondVarOf
<1>3. CvPauseSplit /\ StoppedAreWorkers /\ CallersInCall /\ CountMatches /\ NoLostWakeup
  BY <1>1 DEF CvPauseSplit, StoppedAreWorkers, CallersInCall, CountMatches, NoLostWakeup, CallersInCall,
              Stopped, Waiting
<1> QED
  BY <1>2, <1>3 DEF CountInv

\* Every action leaves the counting right.
LEMMA CountInvStep == CountInv /\ [Next]_vars => CountInv'
<1> SUFFICES ASSUME CountInv, [Next]_vars
             PROVE  CountInv'
  OBVIOUS
<1> USE DEF ppVars
<1>0. /\ TypeOK /\ CvPauseSplit /\ StoppedAreWorkers /\ CallersInCall
      /\ CountMatches /\ NoLostWakeup
      /\ Stopped \in SUBSET Workers
  BY StoppedCount DEF CountInv
<1>1. ASSUME NEW w \in Workers, Check(w)
      PROVE  CountInv'
  <2>1. CASE mPause
    <3>1. /\ mCvPause' = Sleep(mCvPause, w) /\ mCvPaused' = NotifyAll(mCvPaused)
          /\ mPausedThreads' = mPausedThreads + 1
          /\ UNCHANGED <<mPause, mPauseExpected, workers, ctl>>
          /\ w \in workers \ Stopped
      BY <1>1, <2>1 DEF Check, pauseIfRequred
    <3>2. Stopped' = Stopped \cup {w} /\ Cardinality(Stopped') = Cardinality(Stopped) + 1
      BY <3>1, StoppedCount DEF Stopped
    <3>3. TypeOK' /\ CvPauseSplit'
      BY <1>0, <3>1 DEF TypeOK, CvPauseSplit, CondVarOf, Sleep, NotifyAll
    <3>4. NoLostWakeup' /\ CallersInCall'
      BY <1>0, <2>1, <3>1 DEF NoLostWakeup, CallersInCall, Waiting, NotifyAll
    <3> QED
      BY <1>0, <3>1, <3>2, <3>3, <3>4 DEF CountInv, StoppedAreWorkers, CountMatches
  <2>2. CASE ~mPause
    BY <1>0, <1>1, <2>2
    DEF Check, pauseIfRequred, CountInv, TypeOK, CvPauseSplit, StoppedAreWorkers,
        CountMatches, NoLostWakeup, CallersInCall, Stopped, AllPaused, NonePaused
  <2> QED
    BY <2>1, <2>2
<1>2. ASSUME NEW w \in Workers, WorkerWake(w)
      PROVE  CountInv'
  <2>1. CASE mPause
    <3>1. /\ mCvPause' = Sleep(mCvPause, w) /\ w \in mCvPause.awake
          /\ UNCHANGED <<mPause, mPausedThreads, mPauseExpected, mCvPaused, workers, ctl>>
      BY <1>2, <2>1 DEF WorkerWake, PauseWake
    <3>2. Stopped' = Stopped
      BY <3>1, StoppedCount DEF Stopped
    <3> QED
      BY <1>0, <2>1, <3>1, <3>2
      DEF CountInv, TypeOK, CvPauseSplit, StoppedAreWorkers, CountMatches, NoLostWakeup, CallersInCall,
          CondVarOf, Sleep, AllPaused, NonePaused
  <2>2. CASE ~mPause
    <3>1. /\ mCvPause' = Leave(mCvPause, w) /\ mCvPaused' = NotifyAll(mCvPaused)
          /\ mPausedThreads' = mPausedThreads - 1 /\ w \in mCvPause.awake
          /\ UNCHANGED <<mPause, mPauseExpected, workers, ctl>>
      BY <1>2, <2>2 DEF WorkerWake, PauseWake
    <3>2. Stopped' = Stopped \ {w} /\ Cardinality(Stopped') = Cardinality(Stopped) - 1
      BY <3>1, StoppedCount DEF Stopped
    <3>3. mPausedThreads' = Cardinality(Stopped') /\ mPausedThreads' \in Nat
      BY <1>0, <3>1, <3>2, WorkerCount DEF CountMatches
    <3>4. TypeOK' /\ CvPauseSplit'
      BY <1>0, <3>1, <3>3 DEF TypeOK, CvPauseSplit, CondVarOf, Leave, NotifyAll
    <3>5. NoLostWakeup' /\ CallersInCall'
      BY <1>0, <2>2, <3>1 DEF NoLostWakeup, CallersInCall, Waiting, NotifyAll, Leave
    <3> QED
      BY <1>0, <3>1, <3>2, <3>3, <3>4, <3>5 DEF CountInv, StoppedAreWorkers, CountMatches
  <2> QED
    BY <2>1, <2>2
<1>3. ASSUME NEW w \in Workers, WorkerSpurious(w)
      PROVE  CountInv'
  <2>1. Stopped' = Stopped
    BY <1>3 DEF WorkerSpurious, PauseSpurious, Rouse, Stopped, Waiting
  <2> QED
    BY <1>0, <1>3, <2>1
    DEF WorkerSpurious, PauseSpurious, Rouse, CountInv, TypeOK, CvPauseSplit, CondVarOf,
        StoppedAreWorkers, CountMatches, NoLostWakeup, CallersInCall, AllPaused, NonePaused
<1>4. ASSUME NEW w \in Workers, Exit(w)
      PROVE  CountInv'
  BY <1>0, <1>4
  DEF Exit, CountInv, TypeOK, CvPauseSplit, StoppedAreWorkers, CallersInCall, CountMatches,
      NoLostWakeup, Stopped, AllPaused, NonePaused
<1>5. ASSUME NEW w \in Workers, AddWorker(w)
      PROVE  CountInv'
  <2>1. \A c \in Controllers : ctl'[c] = "free"
    BY <1>5 DEF AddWorker, AllFree
  <2> QED
    BY <1>0, <1>5, <2>1
    DEF AddWorker, pause_add_thread, CountInv, TypeOK, CvPauseSplit, StoppedAreWorkers,
        CountMatches, NoLostWakeup, CallersInCall, Stopped, CondVarOf
<1>6. ASSUME NEW W \in SUBSET Workers, NewWorkers(W)
      PROVE  CountInv'
  <2>1. \A c \in Controllers : ctl'[c] = "free"
    BY <1>6 DEF NewWorkers, AllFree
  <2>2. Stopped = {} /\ mPausedThreads = 0
    BY <1>0, <1>6, WorkerCount DEF NewWorkers, StoppedAreWorkers, CountMatches
  <2>3. /\ mPausedThreads' = 0 /\ mPauseExpected' = Cardinality(W) /\ workers' = W
        /\ UNCHANGED <<mPause, mCvPause, mCvPaused, ctl>>
    BY <1>6, <2>2 DEF NewWorkers, pause_initialize, pause_set_threadnum
  <2>4. Stopped' = {} /\ Cardinality(W) \in Nat /\ Cardinality({}) = 0
    BY <2>2, <2>3, WorkerCount DEF Stopped
  <2> QED
    BY <1>0, <2>1, <2>3, <2>4
    DEF CountInv, TypeOK, CvPauseSplit, StoppedAreWorkers, CountMatches, NoLostWakeup, CallersInCall, CondVarOf
<1>7. ASSUME NEW c \in Controllers, CallPause(c)
      PROVE  CountInv'
  <2> USE <1>7 DEF CallPause, pause, Return
  <2>1. Stopped' = Stopped
    BY DEF Stopped
  <2>2. TypeOK' /\ CvPauseSplit'
    BY <1>0 DEF TypeOK, CvPauseSplit, CondVarOf, Sleep
  <2>3. /\ mCvPaused'.asleep \subseteq mCvPaused.asleep \cup {c}
        /\ AllPaused => c \notin mCvPaused'.asleep
        /\ c \in Waiting(mCvPaused') => ctl'[c] = "pausing"
        /\ \A d \in Controllers \ {c} : ctl'[d] = ctl[d]
    BY <1>0 DEF TypeOK, CallersInCall, Sleep, Waiting
  <2>4. NoLostWakeup' /\ CallersInCall'
    BY <1>0, <2>2, <2>3
    DEF NoLostWakeup, CallersInCall, TypeOK, CondVarOf, AllPaused, NonePaused, Waiting, Sleep, InCall
  <2> QED
    BY <1>0, <2>1, <2>2, <2>4 DEF CountInv, StoppedAreWorkers, CountMatches
<1>8. ASSUME NEW c \in Controllers, CallResume(c)
      PROVE  CountInv'
  <2> USE <1>8 DEF CallResume, resume
  <2>1. Stopped' = Stopped
    BY DEF Stopped, Waiting, NotifyAll
  <2>2. TypeOK' /\ CvPauseSplit'
    BY <1>0 DEF TypeOK, CvPauseSplit, CondVarOf, Sleep, NotifyAll
  <2>3. /\ mCvPaused'.asleep \subseteq mCvPaused.asleep \cup {c}
        /\ NonePaused => c \notin mCvPaused'.asleep
        /\ c \in Waiting(mCvPaused') => ctl'[c] = "resuming"
        /\ \A d \in Controllers \ {c} : ctl[d] \in InCall => ctl'[d] = ctl[d]
        /\ \A d \in Controllers \ {c} : ctl'[d] \in InCall => ctl'[d] = ctl[d]
    BY <1>0 DEF TypeOK, CallersInCall, Sleep, Waiting, InCall
  <2>4. ~mPause' /\ mCvPause'.asleep = {}
    BY DEF NotifyAll
  <2>5. NoLostWakeup' /\ CallersInCall'
    BY <1>0, <2>2, <2>3, <2>4
    DEF NoLostWakeup, CallersInCall, TypeOK, CondVarOf, AllPaused, NonePaused, Waiting, Sleep, InCall
  <2> QED
    BY <1>0, <2>1, <2>2, <2>5 DEF CountInv, StoppedAreWorkers, CountMatches
<1>9. ASSUME NEW c \in Controllers, WakeInPause(c) \/ WakeInResume(c)
      PROVE  CountInv'
  <2> USE <1>9 DEF WakeInPause, WakeInResume, CallerWake, Return
  <2>1. Stopped' = Stopped
    BY DEF Stopped
  <2>2. TypeOK' /\ CvPauseSplit'
    BY <1>0 DEF TypeOK, CvPauseSplit, CondVarOf, Sleep, Leave
  <2>3. NoLostWakeup' /\ CallersInCall'
    BY <1>0 DEF NoLostWakeup, CallersInCall, InCall, TypeOK, CondVarOf, Sleep, Leave, AllPaused, NonePaused, Waiting
  <2> QED
    BY <1>0, <2>1, <2>2, <2>3 DEF CountInv, StoppedAreWorkers, CountMatches
<1>10. ASSUME NEW c \in Controllers, ControllerSpurious(c)
       PROVE  CountInv'
  BY <1>0, <1>10
  DEF ControllerSpurious, CallerSpurious, Rouse, CountInv, TypeOK, CvPauseSplit, CondVarOf,
      StoppedAreWorkers, CountMatches, NoLostWakeup, CallersInCall, Waiting, Stopped, AllPaused, NonePaused
<1>11. CASE UNCHANGED vars
  BY <1>0, <1>11
  DEF vars, CountInv, TypeOK, CvPauseSplit, StoppedAreWorkers, CountMatches, NoLostWakeup,
      CallersInCall, Stopped, AllPaused, NonePaused
<1> QED
  BY <1>1, <1>2, <1>3, <1>4, <1>5, <1>6, <1>7, <1>8, <1>9, <1>10, <1>11 DEF Next

\* CountInv holds in every reachable state, whoever calls and whoever ends.
THEOREM PausePointInvariant == Spec => []CountInv
BY CountInvInit, CountInvStep, PTL DEF Spec

\* The variables have their types: mPausedThreads in particular is never taken
\* below 0.
THEOREM PausePointTypes == Spec => []TypeOK
<1>1. CountInv => TypeOK
  BY DEF CountInv
<1> QED
  BY <1>1, PausePointInvariant, PTL

\* Whoever pauses and resumes, and whichever workers end: the counter of the
\* point is the number of workers it holds, and nobody sleeps on when what
\* it waits for has come true.
THEOREM CountAndWakeup == Spec => [](CountMatches /\ NoLostWakeup)
<1>1. CountInv => CountMatches /\ NoLostWakeup
  BY DEF CountInv
<1> QED
  BY <1>1, PausePointInvariant, PTL

-----------------------------------------------------------------------------

\* The promises hold at the start.
LEMMA PromiseInit == Init => PromiseInv
<1> SUFFICES ASSUME NEW W \in SUBSET Workers, ConstructPausePoint(Cardinality(W)),
                    workers = W, ctl = [c \in Controllers |-> "free"]
             PROVE  PromiseInv
  BY DEF Init
<1>1. Cardinality(W) \in Nat
  BY WorkerCount
<1> QED
  BY <1>1
  DEF ConstructPausePoint, NoWaiters, PromiseInv, FlagInv, WorkersCounted, AllFree,
      PausedMeansAllStopped, ResumedMeansNoneStopped, Stopped, Waiting

\* When every worker that is counted is stopped, every worker is: the
\* predicate of pause() is the right one.
LEMMA AllPausedStopsAll ==
  ASSUME CountInv, WorkersCounted, AllPaused
  PROVE  workers \subseteq Stopped
<1>1. workers \in SUBSET Workers /\ Stopped \in SUBSET workers
  BY DEF CountInv, TypeOK, StoppedAreWorkers
<1>2. Cardinality(workers) <= Cardinality(Stopped)
  BY DEF CountInv, CountMatches, WorkersCounted, AllPaused
<1> QED
  BY <1>1, <1>2, WorkerCount

\* When the counter is 0 no worker is stopped: so is the one of resume().
LEMMA NonePausedStopsNone ==
  ASSUME CountInv, NonePaused
  PROVE  Stopped = {}
  BY WorkerCount, StoppedCount DEF CountInv, CountMatches, NonePaused

\* Every action of a system with one controller keeps its promises.
LEMMA PromiseStep ==
  ASSUME OneController, CountInv, PromiseInv, [Next]_vars
  PROVE  PromiseInv'
<1> USE DEF ppVars
<1>0. /\ FlagInv /\ WorkersCounted /\ PausedMeansAllStopped /\ ResumedMeansNoneStopped
      /\ StoppedAreWorkers /\ TypeOK /\ Stopped \in SUBSET Workers
  BY StoppedCount DEF PromiseInv, CountInv
<1>1. ASSUME NEW w \in Workers, Check(w)
      PROVE  PromiseInv'
  <2>1. CASE mPause
    <3>1. Stopped' = Stopped \cup {w} /\ UNCHANGED <<mPause, mPauseExpected, workers, ctl>>
      BY <1>1, <2>1, StoppedCount DEF Check, pauseIfRequred, Stopped
    <3>2. ~AllFree
      BY <1>0, <2>1 DEF FlagInv, AllFree
    <3> QED
      BY <1>0, <3>1, <3>2
      DEF PromiseInv, FlagInv, WorkersCounted, PausedMeansAllStopped,
          ResumedMeansNoneStopped, AllFree
  <2>2. CASE ~mPause
    BY <1>0, <1>1, <2>2
    DEF Check, pauseIfRequred, PromiseInv, FlagInv, WorkersCounted, PausedMeansAllStopped,
        ResumedMeansNoneStopped, AllFree, Stopped
  <2> QED
    BY <2>1, <2>2
<1>2. ASSUME NEW w \in Workers, WorkerWake(w)
      PROVE  PromiseInv'
  <2>1. w \in mCvPause.awake /\ UNCHANGED <<mPause, mPauseExpected, workers, ctl>>
    BY <1>2 DEF WorkerWake, PauseWake
  <2>2. Stopped' = IF mPause THEN Stopped ELSE Stopped \ {w}
    BY <1>2, <2>1, StoppedCount DEF WorkerWake, PauseWake, Stopped
  <2> QED
    BY <1>0, <2>1, <2>2
    DEF PromiseInv, FlagInv, WorkersCounted, PausedMeansAllStopped,
        ResumedMeansNoneStopped, AllFree
<1>3. ASSUME NEW w \in Workers, WorkerSpurious(w)
      PROVE  PromiseInv'
  <2>1. Stopped' = Stopped
    BY <1>3 DEF WorkerSpurious, PauseSpurious, Rouse, Stopped, Waiting
  <2> QED
    BY <1>0, <1>3, <2>1
    DEF WorkerSpurious, PauseSpurious, PromiseInv, FlagInv, WorkersCounted,
        PausedMeansAllStopped, ResumedMeansNoneStopped, AllFree
<1>4. ASSUME NEW w \in Workers, Exit(w)
      PROVE  PromiseInv'
  <2>1. workers' = workers \ {w} /\ w \in workers /\ workers \in SUBSET Workers
    BY <1>0, <1>4 DEF Exit, TypeOK
  <2>2. WorkersCounted'
    <3>1. Cardinality(workers') = Cardinality(workers) - 1 /\ Cardinality(workers) \in Nat
      BY <2>1, WorkerCount
    <3> QED
      BY <1>0, <1>4, <3>1 DEF Exit, WorkersCounted, TypeOK
  <2> QED
    BY <1>0, <1>4, <2>2
    DEF Exit, PromiseInv, FlagInv, PausedMeansAllStopped, ResumedMeansNoneStopped,
        AllFree, Stopped
<1>5. ASSUME NEW w \in Workers, AddWorker(w)
      PROVE  PromiseInv'
  <2>1. /\ workers' = workers \cup {w} /\ w \notin workers /\ workers \in SUBSET Workers
        /\ mPauseExpected' = mPauseExpected + 1 /\ AllFree
        /\ UNCHANGED <<mPause, mCvPause, ctl>>
    BY <1>0, <1>5 DEF AddWorker, pause_add_thread, TypeOK
  <2>2. WorkersCounted'
    <3>1. Cardinality(workers') = Cardinality(workers) + 1 /\ Cardinality(workers) \in Nat
      BY <2>1, WorkerCount
    <3> QED
      BY <1>0, <2>1, <3>1 DEF WorkersCounted, TypeOK
  <2> QED
    BY <1>0, <2>1, <2>2
    DEF PromiseInv, FlagInv, PausedMeansAllStopped, ResumedMeansNoneStopped, AllFree, Stopped
<1>6. ASSUME NEW W \in SUBSET Workers, NewWorkers(W)
      PROVE  PromiseInv'
  <2>1. /\ workers' = W /\ mPauseExpected' = Cardinality(W) /\ AllFree
        /\ UNCHANGED <<mPause, mCvPause, ctl>>
    BY <1>6 DEF NewWorkers, pause_initialize, pause_set_threadnum
  <2>2. WorkersCounted'
    BY <2>1, WorkerCount DEF WorkersCounted
  <2> QED
    BY <1>0, <2>1, <2>2
    DEF PromiseInv, FlagInv, PausedMeansAllStopped, ResumedMeansNoneStopped, AllFree, Stopped
<1>7. ASSUME NEW c \in Controllers
      PROVE  Controllers = {c}
  BY <1>7 DEF OneController
<1>8. ASSUME NEW c \in Controllers, CallPause(c)
      PROVE  PromiseInv'
  <2>1. /\ mPause' = TRUE /\ UNCHANGED <<mPauseExpected, mCvPause, workers>>
        /\ ctl'[c] \in {"pausing", "paused"}
    BY <1>0, <1>8 DEF CallPause, pause, Return, TypeOK
  <2>2. ctl'[c] = "paused" => AllPaused
    BY <1>0, <1>8 DEF CallPause, pause, Return, TypeOK, Sleep, Waiting
  <2>3. ctl'[c] = "paused" => workers \subseteq Stopped
    BY <1>0, <2>2, AllPausedStopsAll
  <2> QED
    BY <1>0, <1>7, <2>1, <2>3
    DEF PromiseInv, FlagInv, WorkersCounted, PausedMeansAllStopped,
        ResumedMeansNoneStopped, AllFree, Stopped
<1>9. ASSUME NEW c \in Controllers, CallResume(c)
      PROVE  PromiseInv'
  <2>1. /\ mPause' = FALSE /\ UNCHANGED <<mPauseExpected, workers>>
        /\ ctl'[c] \in {"free", "resuming"}
    BY <1>0, <1>9 DEF CallResume, resume, TypeOK, InCall
  <2>2. Stopped' = Stopped
    BY <1>9 DEF CallResume, resume, NotifyAll, Stopped, Waiting
  <2>3. ctl'[c] = "free" => NonePaused
    BY <1>0, <1>9 DEF CallResume, resume, TypeOK, Sleep, Waiting
  <2>4. ctl'[c] = "free" => Stopped = {}
    BY <2>3, NonePausedStopsNone
  <2> QED
    BY <1>0, <1>7, <2>1, <2>2, <2>4
    DEF PromiseInv, FlagInv, WorkersCounted, PausedMeansAllStopped,
        ResumedMeansNoneStopped, AllFree
<1>10. ASSUME NEW c \in Controllers, WakeInPause(c)
       PROVE  PromiseInv'
  <2>1. /\ ctl[c] = "pausing" /\ ctl'[c] \in {"pausing", "paused"}
        /\ UNCHANGED <<mPause, mPauseExpected, mCvPause, workers>>
    BY <1>0, <1>10 DEF WakeInPause, CallerWake, Return, TypeOK
  <2>2. ctl'[c] = "paused" => AllPaused
    BY <1>0, <1>10 DEF WakeInPause, CallerWake, Return, TypeOK, Sleep, Waiting
  <2>3. ctl'[c] = "paused" => workers \subseteq Stopped
    BY <1>0, <2>2, AllPausedStopsAll
  <2> QED
    BY <1>0, <1>7, <2>1, <2>3
    DEF PromiseInv, FlagInv, WorkersCounted, PausedMeansAllStopped,
        ResumedMeansNoneStopped, AllFree, Stopped
<1>11. ASSUME NEW c \in Controllers, WakeInResume(c)
       PROVE  PromiseInv'
  <2>1. /\ ctl[c] = "resuming" /\ ctl'[c] \in {"resuming", "free"}
        /\ UNCHANGED <<mPause, mPauseExpected, mCvPause, workers>>
    BY <1>0, <1>11 DEF WakeInResume, CallerWake, Return, TypeOK
  <2>2. ctl'[c] = "free" => NonePaused
    BY <1>0, <1>11 DEF WakeInResume, CallerWake, Return, TypeOK, Sleep, Waiting
  <2>3. ctl'[c] = "free" => Stopped = {}
    BY <2>2, NonePausedStopsNone
  <2> QED
    BY <1>0, <1>7, <2>1, <2>3
    DEF PromiseInv, FlagInv, WorkersCounted, PausedMeansAllStopped,
        ResumedMeansNoneStopped, AllFree, Stopped
<1>12. ASSUME NEW c \in Controllers, ControllerSpurious(c)
       PROVE  PromiseInv'
  BY <1>0, <1>12
  DEF ControllerSpurious, CallerSpurious, PromiseInv, FlagInv, WorkersCounted,
      PausedMeansAllStopped, ResumedMeansNoneStopped, AllFree, Stopped
<1>13. CASE UNCHANGED vars
  BY <1>0, <1>13
  DEF vars, PromiseInv, FlagInv, WorkersCounted, PausedMeansAllStopped,
      ResumedMeansNoneStopped, AllFree, Stopped
<1> QED
  BY <1>1, <1>2, <1>3, <1>4, <1>5, <1>6, <1>8, <1>9, <1>10, <1>11, <1>12, <1>13 DEF Next

\* The promises to a single controller hold in every reachable state.
THEOREM PromiseInvariant == OneController => (Spec => []PromiseInv)
<1> SUFFICES ASSUME OneController
             PROVE  Spec => []PromiseInv
  OBVIOUS
<1>1. CountInv /\ PromiseInv /\ [Next]_vars => PromiseInv'
  BY PromiseStep
<1> QED
  BY <1>1, CountInvInit, CountInvStep, PromiseInit, PTL DEF Spec

\* With one controller, for any workers, also such as end: from the return
\* of pause() to the call of resume() every worker is stopped.
THEOREM PauseHolds == OneController => (Spec => []PausedMeansAllStopped)
<1> SUFFICES ASSUME OneController
             PROVE  Spec => []PausedMeansAllStopped
  OBVIOUS
<1>1. PromiseInv => PausedMeansAllStopped
  BY DEF PromiseInv
<1> QED
  BY <1>1, PromiseInvariant, PTL

\* And no worker is still held when resume() has returned.
THEOREM ResumeReleases == OneController => (Spec => []ResumedMeansNoneStopped)
<1> SUFFICES ASSUME OneController
             PROVE  Spec => []ResumedMeansNoneStopped
  OBVIOUS
<1>1. PromiseInv => ResumedMeansNoneStopped
  BY DEF PromiseInv
<1> QED
  BY <1>1, PromiseInvariant, PTL
=============================================================================
