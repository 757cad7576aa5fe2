---------------------- MODULE GenericThreadPoolProofs -----------------------
(***************************************************************************)
(* Proofs about GenericThreadPool, for any workers, clients and tasks.     *)
(*                                                                         *)
(* A task is run once (NoTaskTwice).  A task that is taken must not be     *)
(* taken again, so it must be in the queue no more; and a task that is     *)
(* done must be in nobody's hands.  So Places says where tasks are: the    *)
(* queue holds queued tasks, each in one place, and a worker at a task has *)
(* one that runs and is nobody else's.                                     *)
(*                                                                         *)
(* The types (PoolTypes) need the count of the stopped workers: it is that *)
(* of the workers in pauseIfRequred(), so that it is not taken below 0.    *)
(*                                                                         *)
(* stop() is final (StopEndsWork), from StopInv.  And a paused pool is     *)
(* quiet (PausedPoolIsQuiet), from QuietInv: every thread that is started  *)
(* is counted but for the one of the client that adds it, who is not in    *)
(* pause() then.                                                           *)
(***************************************************************************)
EXTENDS GenericThreadPool, Counting, TLAPS

-----------------------------------------------------------------------------
\* A task is run once.

Types ==
  /\ items \in Seq(Tasks)
  /\ wpc \in [Workers -> WorkerAt]
  /\ qe \in [Workers -> Tasks \cup {NoTask}]
  /\ task \in [Tasks -> {"new", "queued", "running", "done"}]

QueueHoldsQueued == \A i \in 1 .. Len(items) : task[items[i]] = "queued"

QueueHoldsOnce ==
  \A i, j \in 1 .. Len(items) : items[i] = items[j] => i = j

HandsHoldRunning ==
  \A w \in Workers : wpc[w] = "run" => qe[w] \in Tasks /\ task[qe[w]] = "running"

HandsHoldOnce ==
  \A v, w \in Workers :
    wpc[v] = "run" /\ wpc[w] = "run" /\ qe[v] = qe[w] => v = w

Places ==
  Types /\ QueueHoldsQueued /\ QueueHoldsOnce /\ HandsHoldRunning /\ HandsHoldOnce

\* A step that leaves the queue, the tasks and what the workers have in hand
\* alone and takes no worker to a task keeps the places; so does one that
\* takes a worker from one point to another that is not a task.
LEMMA WorkerMoves ==
  ASSUME Places, NEW w \in Workers, NEW where \in WorkerAt \ {"run"},
         WorkerGoTo(w, where), UNCHANGED <<items, qe, task>>
  PROVE  Places'
BY DEF Places, Types, QueueHoldsQueued, QueueHoldsOnce, HandsHoldRunning,
       HandsHoldOnce, WorkerGoTo, WorkerAt

LEMMA NothingMoves ==
  ASSUME Places, UNCHANGED <<items, wpc, qe, task>>
  PROVE  Places'
BY DEF Places, Types, QueueHoldsQueued, QueueHoldsOnce, HandsHoldRunning, HandsHoldOnce

\* What the first element of a queue is, and the rest.
LEMMA FirstAndRest ==
  ASSUME Types, items # <<>>
  PROVE  /\ Head(items) = items[1] /\ Head(items) \in Tasks /\ 1 \in 1 .. Len(items)
         /\ Tail(items) \in Seq(Tasks)
         /\ \A i \in 1 .. Len(Tail(items)) :
              i + 1 \in 2 .. Len(items) /\ Tail(items)[i] = items[i + 1]
BY DEF Types

\* A worker takes the first task.
LEMMA TakesKeepsPlaces ==
  ASSUME Places, NEW w \in Workers, WorkerTakes(w)
  PROVE  Places' /\ task[Head(items)] = "queued"
         /\ task' = [task EXCEPT ![Head(items)] = "running"]
<1> DEFINE k == Head(items)
<1>0. Types /\ QueueHoldsQueued /\ QueueHoldsOnce /\ HandsHoldRunning /\ HandsHoldOnce
  BY DEF Places
<1>1. /\ items # <<>> /\ items' = Tail(items)
      /\ qe' = [qe EXCEPT ![w] = k] /\ task' = [task EXCEPT ![k] = "running"]
      /\ wpc' = [wpc EXCEPT ![w] = "run"] /\ wpc[w] # "run"
  BY DEF WorkerTakes, TakeFront, DequeEmpty, WorkerGoTo
<1>2. /\ k = items[1] /\ k \in Tasks /\ 1 \in 1 .. Len(items) /\ Tail(items) \in Seq(Tasks)
      /\ \A i \in 1 .. Len(Tail(items)) :
           i + 1 \in 2 .. Len(items) /\ Tail(items)[i] = items[i + 1]
  BY <1>0, <1>1, FirstAndRest
<1> HIDE DEF k
<1>3. task[k] = "queued"
  BY <1>0, <1>2 DEF QueueHoldsQueued
<1>4. Types'
  BY <1>0, <1>1, <1>2 DEF Types, WorkerAt
<1>5. \A i \in 1 .. Len(items') : items'[i] \in Tasks /\ items'[i] # k
  BY <1>0, <1>1, <1>2 DEF Types, QueueHoldsOnce
<1>6. QueueHoldsQueued'
  BY <1>0, <1>1, <1>2, <1>5 DEF Types, QueueHoldsQueued
<1>7. QueueHoldsOnce'
  BY <1>0, <1>1, <1>2 DEF QueueHoldsOnce
<1>8. \A v \in Workers : wpc[v] = "run" => qe[v] # k
  BY <1>0, <1>3 DEF HandsHoldRunning
<1>9. HandsHoldRunning'
  BY <1>0, <1>1, <1>2, <1>8 DEF Types, HandsHoldRunning
<1>10. HandsHoldOnce'
  BY <1>0, <1>1, <1>8 DEF Types, HandsHoldOnce
<1> QED
  BY <1>1, <1>3, <1>4, <1>6, <1>7, <1>9, <1>10 DEF Places, k

\* A worker has run its task.
LEMMA RunsKeepsPlaces ==
  ASSUME Places, NEW w \in Workers, WorkerRuns(w)
  PROVE  Places' /\ qe[w] \in Tasks /\ task[qe[w]] = "running"
         /\ task' = [task EXCEPT ![qe[w]] = "done"]
<1>0. Types /\ QueueHoldsQueued /\ QueueHoldsOnce /\ HandsHoldRunning /\ HandsHoldOnce
  BY DEF Places
<1>1. /\ items' = items /\ wpc[w] = "run"
      /\ qe' = [qe EXCEPT ![w] = NoTask] /\ task' = [task EXCEPT ![qe[w]] = "done"]
      /\ wpc' = [wpc EXCEPT ![w] = "top"]
  BY DEF WorkerRuns, WorkerGoTo, dequeVars
<1>2. qe[w] \in Tasks /\ task[qe[w]] = "running"
  BY <1>0, <1>1 DEF HandsHoldRunning
<1>3. Types' /\ QueueHoldsOnce'
  BY <1>0, <1>1, <1>2 DEF Types, WorkerAt, QueueHoldsOnce
<1>4. QueueHoldsQueued'
  BY <1>0, <1>1, <1>2 DEF Types, QueueHoldsQueued
<1>5. HandsHoldRunning' /\ HandsHoldOnce'
  BY <1>0, <1>1, <1>2 DEF Types, HandsHoldRunning, HandsHoldOnce
<1> QED
  BY <1>1, <1>2, <1>3, <1>4, <1>5 DEF Places

\* A client pushes a task.
LEMMA PushKeepsPlaces ==
  ASSUME Places, NEW c \in Clients, NEW k \in Tasks, push_function(c, k)
  PROVE  Places' /\ task[k] = "new" /\ task' = [task EXCEPT ![k] = "queued"]
<1>0. Types /\ QueueHoldsQueued /\ QueueHoldsOnce /\ HandsHoldRunning /\ HandsHoldOnce
  BY DEF Places
<1>1. /\ items' = Append(items, k) /\ task[k] = "new"
      /\ task' = [task EXCEPT ![k] = "queued"] /\ UNCHANGED <<wpc, qe>>
  BY DEF push_function, PushBack
<1>2. /\ items' \in Seq(Tasks) /\ Len(items') = Len(items) + 1 /\ Len(items) \in Nat
      /\ \A i \in 1 .. Len(items) : items'[i] = items[i] /\ items[i] \in Tasks
      /\ items'[Len(items) + 1] = k
  BY <1>0, <1>1 DEF Types
<1>3. \A i \in 1 .. Len(items) : items[i] # k
  BY <1>0, <1>1 DEF QueueHoldsQueued
<1>4. Types'
  BY <1>0, <1>1, <1>2 DEF Types
<1>5. QueueHoldsQueued'
  BY <1>0, <1>1, <1>2 DEF Types, QueueHoldsQueued
<1>6. QueueHoldsOnce'
  BY <1>0, <1>2, <1>3 DEF QueueHoldsOnce
<1>7. HandsHoldRunning' /\ HandsHoldOnce'
  BY <1>0, <1>1 DEF Types, HandsHoldRunning, HandsHoldOnce
<1> QED
  BY <1>1, <1>4, <1>5, <1>6, <1>7 DEF Places

\* What a step may do with the tasks: one that runs or is done only changes
\* from running to done.
RunsOnce ==
  \A k \in Tasks : task[k] \in {"running", "done"} =>
    \/ task'[k] = task[k]
    \/ task[k] = "running" /\ task'[k] = "done"

\* The initial state: no task is anywhere yet.
LEMMA PlacesInit == Init => Places
BY DEF Init, Places, Types, WorkerAt, QueueHoldsQueued, QueueHoldsOnce,
       HandsHoldRunning, HandsHoldOnce

\* Every step keeps the places, and runs no task again.
LEMMA PlacesStep == Places /\ [Next]_vars => Places' /\ RunsOnce
<1> SUFFICES ASSUME Places, [Next]_vars
             PROVE  Places' /\ RunsOnce
  OBVIOUS
<1>0. task \in [Tasks -> {"new", "queued", "running", "done"}]
  BY DEF Places, Types
<1>1. ASSUME NEW w \in Workers, WorkerStep(w)
      PROVE  Places' /\ RunsOnce
  <2>1. CASE WorkerPause(w)
    <3>1. /\ WorkerGoTo(w, "held") \/ WorkerGoTo(w, "check")
          /\ UNCHANGED <<items, qe, task>>
      BY <2>1 DEF WorkerPause, dequeVars
    <3> QED
      BY <3>1, WorkerMoves DEF WorkerAt, RunsOnce
  <2>2. CASE WorkerCheckStop(w)
    <3>1. /\ WorkerGoTo(w, "fini") \/ WorkerGoTo(w, "pop")
          /\ UNCHANGED <<items, qe, task>>
      BY <2>2 DEF WorkerCheckStop, dequeVars
    <3> QED
      BY <3>1, WorkerMoves DEF WorkerAt, RunsOnce
  <2>3. CASE WorkerTakes(w)
    <3>1. /\ Places' /\ task[Head(items)] = "queued"
          /\ task' = [task EXCEPT ![Head(items)] = "running"]
      BY <2>3, TakesKeepsPlaces
    <3> QED
      BY <1>0, <3>1 DEF RunsOnce
  <2>4. CASE WorkerAwaits(w)
    <3>1. WorkerGoTo(w, "popping") /\ UNCHANGED <<items, qe, task>>
      BY <2>4 DEF WorkerAwaits, AwaitItem
    <3> QED
      BY <3>1, WorkerMoves DEF WorkerAt, RunsOnce
  <2>5. CASE WorkerTimesOut(w)
    <3>1. WorkerGoTo(w, "top") /\ UNCHANGED <<items, qe, task>>
      BY <2>5 DEF WorkerTimesOut, GiveUp
    <3> QED
      BY <3>1, WorkerMoves DEF WorkerAt, RunsOnce
  <2>6. CASE WorkerRuns(w)
    <3>1. /\ Places' /\ qe[w] \in Tasks /\ task[qe[w]] = "running"
          /\ task' = [task EXCEPT ![qe[w]] = "done"]
      BY <2>6, RunsKeepsPlaces
    <3> QED
      BY <1>0, <3>1 DEF RunsOnce
  <2>7. CASE WorkerEnds(w)
    <3>1. WorkerGoTo(w, "ended") /\ UNCHANGED <<items, qe, task>>
      BY <2>7 DEF WorkerEnds, dequeVars
    <3> QED
      BY <3>1, WorkerMoves DEF WorkerAt, RunsOnce
  <2> QED
    BY <1>1, <2>1, <2>2, <2>3, <2>4, <2>5, <2>6, <2>7 DEF WorkerStep
<1>2. ASSUME NEW c \in Clients, NEW k \in Tasks, push_function(c, k)
      PROVE  Places' /\ RunsOnce
  <2>1. Places' /\ task[k] = "new" /\ task' = [task EXCEPT ![k] = "queued"]
    BY <1>2, PushKeepsPlaces
  <2> QED
    BY <1>0, <2>1 DEF RunsOnce
<1>3. ASSUME NEW c \in Clients, NEW w \in Workers, Spawn(c, w)
      PROVE  Places' /\ RunsOnce
  <2>1. WorkerGoTo(w, "top") /\ UNCHANGED <<items, qe, task>>
    BY <1>3 DEF Spawn, dequeVars
  <2> QED
    BY <2>1, WorkerMoves DEF WorkerAt, RunsOnce
<1>4. ASSUME UNCHANGED <<items, wpc, qe, task>>
      PROVE  Places' /\ RunsOnce
  BY <1>4, NothingMoves DEF RunsOnce
<1>5. ASSUME NEW t, Spurious(t)
      PROVE  UNCHANGED <<items, wpc, qe, task>>
  BY <1>5 DEF Spurious, workerVars
<1>6. ASSUME NEW c \in Clients,
             \/ AddThread(c) \/ StopCall(c)
             \/ PauseCall(c) /\ PauseReturn(c)
             \/ ResumeCall(c) /\ ResumeReturn(c)
      PROVE  UNCHANGED <<items, wpc, qe, task>>
  BY <1>6 DEF AddThread, StopCall, PauseReturn, ResumeReturn, dequeVars, workerVars
<1>7. ASSUME NEW c \in Clients,
             \/ CountThread(c) \/ PauseGoesOn(c)
             \/ StopFlag(c) \/ StopWait(c) \/ StopJoin(c) \/ StopClear(c)
      PROVE  UNCHANGED <<items, wpc, qe, task>>
  BY <1>7 DEF CountThread, PauseGoesOn, PauseReturn, ResumeReturn, StopFlag, StopWait,
              StopJoin, StopClear, dequeVars, workerVars
<1>8. CASE UNCHANGED vars
  BY <1>4, <1>8 DEF vars, dequeVars, workerVars
<1> QED
  BY <1>1, <1>2, <1>3, <1>4, <1>5, <1>6, <1>7, <1>8 DEF Next, ClientCalls, ClientGoesOn

\* A task is run once: _worker_thread() never takes again what another worker,
\* or the same one, has taken, for any number of workers and whatever the
\* clients do, also in a pool that is paused, stopped or added to.
THEOREM NoTaskTwice == Spec => TaskRunsOnce
<1>1. Init => Places
  BY PlacesInit
<1>2. Places /\ [Next]_vars => Places'
  BY PlacesStep
<1>3. Places /\ [Next]_vars => [RunsOnce]_vars
  BY PlacesStep
<1>4. [][RunsOnce]_vars => TaskRunsOnce
  BY PTL DEF RunsOnce, TaskRunsOnce
<1> QED
  BY <1>1, <1>2, <1>3, <1>4, PTL DEF Spec

-----------------------------------------------------------------------------
\* Types, and the count of the stopped workers.

Held == {w \in Workers : wpc[w] = "held"}

\* The workers in the wait of pauseIfRequred() are those that are counted.
HeldCounted ==
  /\ mCvPause.asleep \cap mCvPause.awake = {}
  /\ Waiting(mCvPause) = Held
  /\ mPausedThreads = Cardinality(Held)

TypeInv == TypeOK /\ HeldCounted

LEMMA HeldIsFinite == IsFiniteSet(Workers) /\ Held \in SUBSET Workers
BY PoolAssumption DEF Held

\* What a step of pauseIfRequred() does: the worker stops, stays, passes or
\* goes on.
LEMMA PauseOutcomes ==
  ASSUME TypeInv, NEW w \in Workers, WorkerPause(w)
  PROVE  /\ UNCHANGED <<syncVars, fanInVars, stopper, mPause, mPauseExpected>>
         /\ UNCHANGED <<dequeVars, qe, task, clientVars>>
         /\ \/ /\ mPause /\ wpc[w] = "top" /\ WorkerGoTo(w, "held")
               /\ mPausedThreads' = mPausedThreads + 1
               /\ mCvPause' = Sleep(mCvPause, w) /\ mCvPaused' = NotifyAll(mCvPaused)
            \/ /\ mPause /\ wpc[w] = "held" /\ wpc' = wpc
               /\ w \in mCvPause.awake /\ mCvPause' = Sleep(mCvPause, w)
               /\ UNCHANGED <<mPausedThreads, mCvPaused>>
            \/ /\ ~mPause /\ wpc[w] = "top" /\ WorkerGoTo(w, "check")
               /\ UNCHANGED <<mPausedThreads, mCvPause, mCvPaused>>
            \/ /\ ~mPause /\ wpc[w] = "held" /\ WorkerGoTo(w, "check")
               /\ mPausedThreads' = mPausedThreads - 1
               /\ w \in mCvPause.awake /\ mCvPause' = Leave(mCvPause, w)
               /\ mCvPaused' = NotifyAll(mCvPaused)
<1>1. /\ wpc \in [Workers -> WorkerAt] /\ Waiting(mCvPause) = Held
      /\ mCvPause.asleep \cap mCvPause.awake = {}
  BY DEF TypeInv, TypeOK, HeldCounted
<1>2. /\ UNCHANGED <<syncVars, fanInVars, stopper, mPause, mPauseExpected>>
      /\ UNCHANGED <<dequeVars, qe, task, clientVars>>
  BY DEF WorkerPause, OfPause, pauseIfRequred, PauseWake
<1>3. CASE wpc[w] = "top"
  <2>1. pauseIfRequred(w) /\ w \notin Waiting(mCvPause)
    BY <1>1, <1>3 DEF WorkerPause, Held
  <2>2. CASE mPause
    <3>1. mCvPause' = Sleep(mCvPause, w) /\ w \in Waiting(mCvPause')
      BY <2>1, <2>2 DEF pauseIfRequred, Sleep, Waiting
    <3> QED
      BY <1>2, <1>3, <2>1, <2>2, <3>1 DEF WorkerPause, pauseIfRequred
  <2>3. CASE ~mPause
    BY <1>2, <1>3, <2>1, <2>3 DEF WorkerPause, pauseIfRequred, Waiting
  <2> QED
    BY <2>2, <2>3
<1>4. CASE wpc[w] = "held"
  <2>1. PauseWake(w) /\ w \in mCvPause.awake
    BY <1>4 DEF WorkerPause, PauseWake
  <2>2. CASE mPause
    <3>1. mCvPause' = Sleep(mCvPause, w) /\ w \in Waiting(mCvPause')
      BY <2>1, <2>2 DEF PauseWake, Sleep, Waiting
    <3>2. wpc' = wpc
      BY <1>1, <1>4, <3>1 DEF WorkerPause, WorkerGoTo
    <3> QED
      BY <1>2, <1>4, <2>1, <2>2, <3>1, <3>2 DEF PauseWake
  <2>3. CASE ~mPause
    <3>1. mCvPause' = Leave(mCvPause, w) /\ w \notin Waiting(mCvPause')
      BY <1>1, <2>1, <2>3 DEF PauseWake, Leave, Waiting
    <3> QED
      BY <1>2, <1>4, <2>1, <2>3, <3>1 DEF WorkerPause, PauseWake
  <2> QED
    BY <2>2, <2>3
<1> QED
  BY <1>3, <1>4 DEF WorkerPause

\* A worker that is not held before or after a step leaves the count alone.
LEMMA HeldStays ==
  ASSUME TypeInv, UNCHANGED <<mCvPause, mPausedThreads>>, Held' = Held
  PROVE  HeldCounted'
BY DEF TypeInv, HeldCounted, Waiting

LEMMA PauseKeepsTypes ==
  ASSUME TypeInv, NEW w \in Workers, WorkerPause(w)
  PROVE  TypeInv'
<1>0. TypeOK /\ HeldCounted
  BY DEF TypeInv
<1>1. /\ UNCHANGED <<syncVars, fanInVars, stopper, mPause, mPauseExpected>>
      /\ UNCHANGED <<dequeVars, qe, task, clientVars>>
  BY PauseOutcomes
<1>2. CASE /\ wpc[w] = "top" /\ WorkerGoTo(w, "held")
           /\ mPausedThreads' = mPausedThreads + 1
           /\ mCvPause' = Sleep(mCvPause, w) /\ mCvPaused' = NotifyAll(mCvPaused)
  <2>1. Held' = Held \cup {w} /\ w \notin Held
    BY <1>0, <1>2 DEF Held, WorkerGoTo, TypeOK
  <2>2. Cardinality(Held') = Cardinality(Held) + 1
    BY <2>1, HeldIsFinite, CountOfPart
  <2>3. Waiting(mCvPause') = Waiting(mCvPause) \cup {w} /\ mCvPause'.asleep \cap mCvPause'.awake = {}
    BY <1>0, <1>2 DEF Sleep, Waiting, HeldCounted
  <2>4. HeldCounted'
    BY <1>0, <1>2, <2>1, <2>2, <2>3 DEF HeldCounted
  <2>5. TypeOK'
    BY <1>0, <1>1, <1>2 DEF TypeOK, WorkerGoTo, WorkerAt, CondVarOf, Sleep, NotifyAll, syncVars,
       fanInVars, dequeVars, clientVars, vectorVars
  <2> QED
    BY <2>4, <2>5 DEF TypeInv
<1>3. CASE /\ wpc[w] = "held" /\ wpc' = wpc
           /\ w \in mCvPause.awake /\ mCvPause' = Sleep(mCvPause, w)
           /\ UNCHANGED <<mPausedThreads, mCvPaused>>
  <2>1. Held' = Held
    BY <1>3 DEF Held
  <2>2. Waiting(mCvPause') = Waiting(mCvPause) /\ mCvPause'.asleep \cap mCvPause'.awake = {}
    BY <1>0, <1>3 DEF Sleep, Waiting, HeldCounted
  <2>3. HeldCounted'
    BY <1>0, <1>3, <2>1, <2>2 DEF HeldCounted
  <2>4. TypeOK'
    BY <1>0, <1>1, <1>3 DEF TypeOK, CondVarOf, Sleep, syncVars,
       fanInVars, dequeVars, clientVars, vectorVars
  <2> QED
    BY <2>3, <2>4 DEF TypeInv
<1>4. CASE /\ wpc[w] = "top" /\ WorkerGoTo(w, "check")
           /\ UNCHANGED <<mPausedThreads, mCvPause, mCvPaused>>
  <2>1. Held' = Held
    BY <1>0, <1>4 DEF Held, WorkerGoTo, TypeOK
  <2>2. TypeOK'
    BY <1>0, <1>1, <1>4 DEF TypeOK, WorkerGoTo, WorkerAt, syncVars,
       fanInVars, dequeVars, clientVars, vectorVars
  <2> QED
    BY <1>4, <2>1, <2>2, HeldStays DEF TypeInv
<1>5. CASE /\ wpc[w] = "held" /\ WorkerGoTo(w, "check")
           /\ mPausedThreads' = mPausedThreads - 1
           /\ w \in mCvPause.awake /\ mCvPause' = Leave(mCvPause, w)
           /\ mCvPaused' = NotifyAll(mCvPaused)
  <2>1. Held' = Held \ {w} /\ w \in Held
    BY <1>0, <1>5 DEF Held, WorkerGoTo, TypeOK
  <2>2. Cardinality(Held') = Cardinality(Held) - 1 /\ Cardinality(Held') \in Nat
    BY <2>1, HeldIsFinite, CountOfPart
  <2>3. Waiting(mCvPause') = Waiting(mCvPause) \ {w} /\ mCvPause'.asleep \cap mCvPause'.awake = {}
    BY <1>0, <1>5 DEF Leave, Waiting, HeldCounted
  <2>4. HeldCounted'
    BY <1>0, <1>5, <2>1, <2>2, <2>3 DEF HeldCounted
  <2>5. TypeOK'
    BY <1>0, <1>1, <1>5, <2>2, <2>4 DEF TypeOK, HeldCounted, WorkerGoTo, WorkerAt, CondVarOf, Leave, NotifyAll, syncVars,
       fanInVars, dequeVars, clientVars, vectorVars
  <2> QED
    BY <2>4, <2>5 DEF TypeInv
<1> QED
  BY <1>2, <1>3, <1>4, <1>5, PauseOutcomes

\* A worker that goes from one point to another, neither of them in a pause.
LEMMA HeldStaysOff ==
  ASSUME TypeInv, NEW w \in Workers, NEW where \in WorkerAt \ {"held"},
         wpc[w] # "held", WorkerGoTo(w, where)
  PROVE  Held' = Held /\ wpc' \in [Workers -> WorkerAt]
BY DEF TypeInv, TypeOK, Held, WorkerGoTo

LEMMA TypeInit == Init => TypeInv
<1> SUFFICES ASSUME Init PROVE TypeInv
  OBVIOUS
<1>1. Held = {} /\ Cardinality({}) = 0
  BY FS_EmptySet DEF Init, Held
<1>2. HeldCounted
  BY <1>1 DEF Init, ConstructThreadControl, ConstructPausePoint, NoWaiters, HeldCounted, Waiting
<1>3. TypeOK
  <2>1. /\ stopper = FALSE /\ mSyncExpected = 0 /\ mFanInExpected = 0 /\ mPauseExpected = 0
        /\ mPausedThreads = 0 /\ items = <<>> /\ vecThreads = <<>> /\ muThreadPool = {}
        /\ mCvPause = NoWaiters /\ mCvPaused = NoWaiters /\ mCvFanIn = NoWaiters
        /\ mListCV = NoWaiters
    BY DEF Init, ConstructThreadControl, ConstructPausePoint, ConstructSyncPoint,
           ConstructFanInPoint
  <2>2. wpc \in [Workers -> WorkerAt] /\ cpc \in [Clients -> ClientAt]
    BY DEF Init, WorkerAt, ClientAt, InAdd
  <2>3. NoWaiters \in CondVarOf(Workers) /\ NoWaiters \in CondVarOf(Clients)
    BY DEF NoWaiters, CondVarOf
  <2>4. qe \in [Workers -> Tasks \cup {NoTask}] /\ task \in [Tasks -> {"new", "queued", "running", "done"}]
    BY DEF Init
  <2>5. items \in Seq(Tasks) /\ vecThreads \in Seq(Workers) /\ muThreadPool \subseteq Clients
    BY <2>1
  <2>6. stopper \in BOOLEAN
    BY <2>1
  <2>7. /\ mFanInExpected \in Int
        /\ mSyncExpected \in Nat /\ mPauseExpected \in Nat /\ mPausedThreads \in Nat
    BY <2>1
  <2> QED
    BY <2>1, <2>2, <2>3, <2>4, <2>5, <2>6, <2>7, Zenon DEF TypeOK
<1> QED
  BY <1>2, <1>3 DEF TypeInv

\* Every step of a worker keeps the types and the count.
LEMMA TypeWorkerStep ==
  ASSUME TypeInv, NEW w \in Workers, WorkerStep(w)
  PROVE  TypeInv'
<1>0. TypeOK /\ HeldCounted
  BY DEF TypeInv
<1> USE DEF tcVars, syncVars, fanInVars, pauseVars, dequeVars, clientVars, vectorVars
<1>1. CASE WorkerPause(w)
  BY <1>1, PauseKeepsTypes
<1>2. CASE WorkerCheckStop(w)
  <2>1. wpc[w] # "held" /\ (WorkerGoTo(w, "fini") \/ WorkerGoTo(w, "pop"))
    BY <1>2 DEF WorkerCheckStop
  <2>2. Held' = Held /\ wpc' \in [Workers -> WorkerAt]
    BY <2>1, HeldStaysOff DEF WorkerAt
  <2> QED
    BY <1>0, <1>2, <2>2, HeldStays DEF WorkerCheckStop, TypeInv, TypeOK
<1>3. CASE WorkerTakes(w)
  <2>1. items # <<>> /\ items' = Tail(items) /\ mListCV' = Leave(mListCV, w)
    BY <1>3 DEF WorkerTakes, TakeFront, DequeEmpty
  <2>2. items' \in Seq(Tasks) /\ Head(items) \in Tasks /\ mListCV' \in CondVarOf(Workers)
    BY <1>0, <2>1 DEF TypeOK, CondVarOf, Leave
  <2>3. Held' = Held /\ wpc' \in [Workers -> WorkerAt]
    BY <1>3, HeldStaysOff DEF WorkerTakes, WorkerAt
  <2> QED
    BY <1>0, <1>3, <2>2, <2>3, HeldStays DEF WorkerTakes, TypeInv, TypeOK
<1>4. CASE WorkerAwaits(w) \/ WorkerTimesOut(w)
  <2>1. /\ mListCV' = Sleep(mListCV, w) \/ mListCV' = Leave(Rouse(mListCV, w), w)
        /\ WorkerGoTo(w, "popping") \/ WorkerGoTo(w, "top")
        /\ wpc[w] # "held" /\ UNCHANGED <<items, tcVars, qe, task, clientVars>>
    BY <1>4 DEF WorkerAwaits, AwaitItem, WorkerTimesOut, GiveUp
  <2>2. mListCV' \in CondVarOf(Workers)
    BY <1>0, <2>1 DEF TypeOK, CondVarOf, Leave, Sleep, Rouse
  <2>3. Held' = Held /\ wpc' \in [Workers -> WorkerAt]
    BY <2>1, HeldStaysOff DEF WorkerAt
  <2> QED
    BY <1>0, <2>1, <2>2, <2>3, HeldStays DEF TypeInv, TypeOK
<1>5. CASE WorkerRuns(w)
  <2>1. Held' = Held /\ wpc' \in [Workers -> WorkerAt]
    BY <1>5, HeldStaysOff DEF WorkerRuns, WorkerAt
  <2> QED
    BY <1>0, <1>5, <2>1, HeldStays DEF WorkerRuns, TypeInv, TypeOK
<1>6. CASE WorkerEnds(w)
  <2>1. Held' = Held /\ wpc' \in [Workers -> WorkerAt]
    BY <1>6, HeldStaysOff DEF WorkerEnds, WorkerAt
  <2>2. mFanInExpected' \in Int /\ mCvFanIn' \in CondVarOf(Clients)
    BY <1>0, <1>6 DEF WorkerEnds, done, TypeOK, CondVarOf, NotifyAll
  <2> QED
    BY <1>0, <1>6, <2>1, <2>2, HeldStays DEF WorkerEnds, OfFanIn, TypeInv, TypeOK
<1> QED
  BY <1>1, <1>2, <1>3, <1>4, <1>5, <1>6 DEF WorkerStep

\* So does a step of a client that starts no thread: it moves no worker.
LEMMA TypeClientStep ==
  ASSUME TypeInv, NEW c \in Clients,
         ClientCalls(c) \/ (ClientGoesOn(c) /\ ~ \E w \in Workers : Spawn(c, w))
  PROVE  TypeInv' /\ wpc' = wpc
<1>0. TypeOK /\ HeldCounted
  BY DEF TypeInv
<1> USE DEF tcVars, syncVars, fanInVars, pauseVars, dequeVars, clientVars, vectorVars, workerVars,
            GoTo
<1>1. ASSUME TypeOK', UNCHANGED <<wpc, mCvPause, mPausedThreads>>
      PROVE  TypeInv' /\ wpc' = wpc
  BY <1>1, HeldStays DEF TypeInv, Held
<1>2. CASE AddThread(c)
  BY <1>0, <1>1, <1>2 DEF AddThread, TypeOK, ClientAt, InAdd
<1>3. CASE \E k \in Tasks : push_function(c, k)
  BY <1>0, <1>1, <1>3 DEF push_function, PushBack, NotifyAll, CondVarOf, TypeOK
<1>4. CASE PauseCall(c) /\ PauseReturn(c)
  BY <1>0, <1>1, <1>4 DEF PauseCall, PauseReturn, pause, OfPause, Sleep, CondVarOf, TypeOK, ClientAt
<1>5. CASE ResumeCall(c) /\ ResumeReturn(c)
  <2>1. mCvPause' = NotifyAll(mCvPause) /\ UNCHANGED <<wpc, mPausedThreads>>
    BY <1>5 DEF ResumeCall, ResumeReturn, resume
  <2>2. HeldCounted'
    BY <1>0, <2>1 DEF HeldCounted, NotifyAll, Waiting, Held
  <2>3. TypeOK'
    BY <1>0, <1>5, <2>1 DEF ResumeCall, ResumeReturn, resume, OfPause, Sleep, NotifyAll, CondVarOf,
       TypeOK, ClientAt
  <2> QED
    BY <2>1, <2>2, <2>3 DEF TypeInv
<1>6. CASE StopCall(c)
  BY <1>0, <1>1, <1>6 DEF StopCall, TypeOK, ClientAt, InStop
<1>7. CASE CountThread(c)
  BY <1>0, <1>1, <1>7
  DEF CountThread, AddToSync, sync_add_thread, OfSync, AddToFanIn, fanin_add_thread, OfFanIn,
      AddToPause, pause_add_thread, OfPause, TypeOK, ClientAt, InAdd
<1>8. CASE PauseGoesOn(c)
  <2>1. mCvPaused' = Leave(mCvPaused, c) \/ mCvPaused' = Sleep(mCvPaused, c)
    BY <1>8 DEF PauseGoesOn, CallerWake
  <2>2. mCvPaused' \in CondVarOf(Clients)
    BY <1>0, <2>1 DEF Leave, Sleep, CondVarOf, TypeOK
  <2>3. \E where \in {"pausing", "resuming", "idle"} : cpc' = [cpc EXCEPT ![c] = where]
    BY <1>8 DEF PauseGoesOn, PauseReturn, ResumeReturn
  <2>4. cpc' \in [Clients -> ClientAt]
    BY <1>0, <2>3 DEF TypeOK, ClientAt
  <2>5. UNCHANGED <<syncVars, fanInVars, stopper, mPause, mPausedThreads, mPauseExpected, mCvPause,
                    dequeVars, workerVars, vectorVars>>
    BY <1>8 DEF PauseGoesOn, CallerWake, PauseReturn, ResumeReturn, OfPause
  <2> QED
    BY <1>0, <1>1, <2>2, <2>4, <2>5 DEF TypeOK
<1>9. CASE StopFlag(c)
  BY <1>0, <1>1, <1>9 DEF StopFlag, SetStopper, TypeOK, ClientAt, InStop
<1>10. CASE StopWait(c)
  BY <1>0, <1>1, <1>10
  DEF StopWait, wait, FanInWake, OfFanIn, Leave, Sleep, CondVarOf, TypeOK, ClientAt, InStop
<1>11. CASE StopJoin(c)
  BY <1>0, <1>1, <1>11 DEF StopJoin, TypeOK, ClientAt, InStop
<1>12. CASE StopClear(c)
  BY <1>0, <1>1, <1>12 DEF StopClear, TypeOK, ClientAt, InStop
<1> QED
  BY <1>2, <1>3, <1>4, <1>5, <1>6, <1>7, <1>8, <1>9, <1>10, <1>11, <1>12 DEF ClientCalls, ClientGoesOn

LEMMA TypeSpawn ==
  ASSUME TypeInv, NEW c \in Clients, NEW w \in Workers, Spawn(c, w)
  PROVE  TypeInv'
<1>0. TypeOK /\ HeldCounted
  BY DEF TypeInv
<1>1. Held' = Held /\ wpc' \in [Workers -> WorkerAt]
  BY HeldStaysOff DEF Spawn, Unborn, WorkerAt
<1> QED
  BY <1>0, <1>1, HeldStays
  DEF Spawn, GoTo, TypeInv, TypeOK, ClientAt, InAdd, tcVars, syncVars, fanInVars, pauseVars, dequeVars

\* A spurious wakeup changes nothing but who is awake.
LEMMA TypeSpurious ==
  ASSUME TypeInv, NEW t, Spurious(t)
  PROVE  /\ TypeInv'
         /\ UNCHANGED <<stopper, mPause, mPausedThreads, mPauseExpected, mFanInExpected>>
         /\ UNCHANGED <<items, workerVars, clientVars>>
<1>0. TypeOK /\ HeldCounted
  BY DEF TypeInv
<1> USE DEF tcVars, syncVars, fanInVars, pauseVars, clientVars, vectorVars, workerVars,
            OfPause, OfFanIn, Rouse, CondVarOf
<1>1. /\ UNCHANGED <<stopper, mPause, mPausedThreads, mPauseExpected, mFanInExpected>>
      /\ UNCHANGED <<items, workerVars, clientVars>>
  BY DEF Spurious, PauseSpurious, CallerSpurious, FanInSpurious
<1>2. TypeOK'
  BY <1>0, <1>1 DEF Spurious, PauseSpurious, CallerSpurious, FanInSpurious, TypeOK
<1>3. /\ Waiting(mCvPause') = Waiting(mCvPause)
      /\ mCvPause'.asleep \cap mCvPause'.awake = {}
  BY <1>0 DEF Spurious, PauseSpurious, CallerSpurious, FanInSpurious, Waiting, HeldCounted
<1>4. HeldCounted'
  BY <1>0, <1>1, <1>3 DEF HeldCounted, Held
<1> QED
  BY <1>1, <1>2, <1>4 DEF TypeInv

LEMMA TypeStep == TypeInv /\ [Next]_vars => TypeInv'
<1> SUFFICES ASSUME TypeInv, [Next]_vars
             PROVE  TypeInv'
  OBVIOUS
<1>1. CASE UNCHANGED vars
  BY <1>1
  DEF vars, TypeInv, TypeOK, HeldCounted, Held, tcVars, syncVars, fanInVars, pauseVars, dequeVars,
      clientVars, vectorVars, workerVars
<1> QED
  BY <1>1, TypeWorkerStep, TypeClientStep, TypeSpawn, TypeSpurious DEF Next, ClientGoesOn

\* The variables have their types in every reachable state, for any workers,
\* clients and calls: no counter but that of the FanInPoint goes below 0, and
\* mPausedThreads is the number of workers inside pauseIfRequred().
THEOREM PoolTypes == Spec => []TypeOK
<1>1. TypeInv => TypeOK
  BY DEF TypeInv
<1> QED
  BY <1>1, TypeInit, TypeStep, PTL DEF Spec

-----------------------------------------------------------------------------
\* stop() is final.

NoneAtTasks == \A w \in Workers : wpc[w] \notin {"pop", "popping", "run"}

\* Once the flag is set no worker comes to a task that was not at one, so when
\* those that were have ended there is none.  stop() finds that by joining
\* the threads of the vector; a thread that is not in it was started after a
\* stop() had cleared it.
StopInv ==
  /\ \A c \in Clients : cpc[c] \in InStop \ {"setstop"} => stopper
  /\ stopper => NoneAtTasks \/ \E c \in Clients : cpc[c] \in {"fanin", "faninwait", "join"}
  /\ \A c \in Clients : cpc[c] = "clear" => NoneAtTasks
  /\ \A w \in Workers :
       wpc[w] # "unborn" => w \in ToSet(vecThreads) \/ (stopper /\ NoneAtTasks)

\* What a step does with the workers and the flag as far as stop() goes.
TasksStep ==
  /\ stopper => stopper'
  /\ NoneAtTasks /\ stopper => NoneAtTasks'
  /\ \A w \in Workers : wpc[w] # "unborn" => wpc'[w] # "unborn"

LEMMA WorkerTasksStep ==
  ASSUME TypeInv, NEW w \in Workers, WorkerStep(w)
  PROVE  /\ TasksStep /\ UNCHANGED <<stopper, cpc, vecThreads>>
         /\ \A v \in Workers : wpc[v] = "unborn" => wpc'[v] = "unborn"
<1>0. wpc \in [Workers -> WorkerAt]
  BY DEF TypeInv, TypeOK
<1>1. UNCHANGED <<stopper, cpc, vecThreads>>
  BY PauseOutcomes
  DEF WorkerStep, WorkerCheckStop, WorkerTakes, WorkerAwaits, WorkerTimesOut, WorkerRuns, WorkerEnds,
      OfFanIn, tcVars, clientVars, vectorVars
<1>2. CASE WorkerPause(w)
  BY <1>0, <1>1, <1>2, PauseOutcomes DEF WorkerGoTo, TasksStep, NoneAtTasks
<1>3. CASE WorkerCheckStop(w)
  BY <1>0, <1>1, <1>3 DEF WorkerCheckStop, stopRequired, WorkerGoTo, TasksStep, NoneAtTasks
<1>4. CASE WorkerTakes(w) \/ WorkerAwaits(w) \/ WorkerTimesOut(w) \/ WorkerRuns(w) \/ WorkerEnds(w)
  <2>1. \E where \in {"run", "popping", "top", "ended"} :
          /\ WorkerGoTo(w, where)
          /\ where \in {"run", "popping"} => wpc[w] \in {"pop", "popping"}
          /\ wpc[w] # "unborn"
    BY <1>4 DEF WorkerTakes, WorkerAwaits, WorkerTimesOut, WorkerRuns, WorkerEnds
  <2> QED
    BY <1>0, <1>1, <2>1 DEF WorkerGoTo, TasksStep, NoneAtTasks
<1> QED
  BY <1>1, <1>2, <1>3, <1>4 DEF WorkerStep

LEMMA StopInit == Init => StopInv
BY DEF Init, ConstructThreadControl, StopInv, InStop, NoneAtTasks

LEMMA StopStep == TypeInv /\ StopInv /\ [Next]_vars => StopInv'
<1> SUFFICES ASSUME TypeInv, StopInv, [Next]_vars
             PROVE  StopInv'
  OBVIOUS
<1>0. /\ TypeOK
      /\ \A c \in Clients : cpc[c] \in InStop \ {"setstop"} => stopper
      /\ stopper => NoneAtTasks \/ \E c \in Clients : cpc[c] \in {"fanin", "faninwait", "join"}
      /\ \A c \in Clients : cpc[c] = "clear" => NoneAtTasks
      /\ \A w \in Workers :
           wpc[w] # "unborn" => w \in ToSet(vecThreads) \/ (stopper /\ NoneAtTasks)
  BY DEF TypeInv, StopInv
<1>a. /\ wpc \in [Workers -> WorkerAt] /\ cpc \in [Clients -> ClientAt]
      /\ vecThreads \in Seq(Workers)
  BY <1>0 DEF TypeOK
<1>1. ASSUME NEW w \in Workers, WorkerStep(w)
      PROVE  StopInv'
  <2>1. /\ TasksStep /\ UNCHANGED <<stopper, cpc, vecThreads>>
        /\ \A v \in Workers : wpc[v] = "unborn" => wpc'[v] = "unborn"
    BY <1>1, WorkerTasksStep
  <2> QED
    BY <1>0, <2>1 DEF StopInv, TasksStep, InStop
\* A client that is not in stop() and does not start a thread.
<1>2. ASSUME NEW c \in Clients, NEW where \in ClientAt \ InStop,
             cpc[c] \notin InStop \/ (stopper => NoneAtTasks), GoTo(c, where),
             UNCHANGED <<stopper, wpc, vecThreads>>
      PROVE  StopInv'
  BY <1>0, <1>a, <1>2 DEF StopInv, NoneAtTasks, GoTo, InStop
<1>3. ASSUME UNCHANGED <<stopper, wpc, cpc, vecThreads>>
      PROVE  StopInv'
  BY <1>0, <1>3 DEF StopInv, NoneAtTasks
<1> USE DEF tcVars, syncVars, fanInVars, pauseVars, dequeVars, clientVars, vectorVars, workerVars
<1>4. ASSUME NEW c \in Clients, AddThread(c)
      PROVE  StopInv'
  BY <1>4, <1>2 DEF AddThread, Calls, ClientAt, InAdd, InStop
<1>5. ASSUME NEW c \in Clients, NEW k \in Tasks, push_function(c, k)
      PROVE  StopInv'
  BY <1>5, <1>3 DEF push_function
<1>6. ASSUME NEW c \in Clients,
             (PauseCall(c) /\ PauseReturn(c)) \/ (ResumeCall(c) /\ ResumeReturn(c)) \/ PauseGoesOn(c)
      PROVE  StopInv'
  <2>1. /\ cpc[c] \notin InStop /\ UNCHANGED <<stopper, wpc, vecThreads>>
        /\ \E where \in {"idle", "pausing", "resuming"} : GoTo(c, where)
    BY <1>6 DEF PauseCall, PauseReturn, ResumeCall, ResumeReturn, PauseGoesOn, Calls, OfPause, InStop
  <2> QED
    BY <2>1, <1>2 DEF ClientAt, InStop, InAdd
<1>7. ASSUME NEW c \in Clients, NEW w \in Workers, Spawn(c, w)
      PROVE  StopInv'
  <2>1. /\ vecThreads' = Append(vecThreads, w) /\ wpc' = [wpc EXCEPT ![w] = "top"]
        /\ cpc' = [cpc EXCEPT ![c] = "addsync"] /\ cpc[c] = "spawn" /\ UNCHANGED stopper
        /\ wpc[w] = "unborn"
    BY <1>7 DEF Spawn, Unborn, WorkerGoTo, GoTo
  <2>2. ToSet(vecThreads') = ToSet(vecThreads) \cup {w}
    BY <1>a, <2>1 DEF ToSet
  <2>3. NoneAtTasks => NoneAtTasks'
    BY <1>a, <2>1 DEF NoneAtTasks
  <2> QED
    BY <1>0, <1>a, <2>1, <2>2, <2>3 DEF StopInv, InStop
<1>8. ASSUME NEW c \in Clients, CountThread(c)
      PROVE  StopInv'
  <2>1. /\ cpc[c] \notin InStop /\ UNCHANGED <<stopper, wpc, vecThreads>>
        /\ \E where \in {"addfanin", "addpause", "spawn", "idle"} : GoTo(c, where)
    BY <1>8 DEF CountThread, AddToSync, AddToFanIn, AddToPause, OfSync, OfFanIn, OfPause, InStop
  <2> QED
    BY <2>1, <1>2 DEF ClientAt, InStop, InAdd
<1>9. ASSUME NEW c \in Clients, StopCall(c)
      PROVE  StopInv'
  BY <1>0, <1>a, <1>9 DEF StopCall, Calls, GoTo, StopInv, NoneAtTasks, InStop
<1>10. ASSUME NEW c \in Clients, StopFlag(c)
       PROVE  StopInv'
  BY <1>0, <1>a, <1>10 DEF StopFlag, SetStopper, GoTo, StopInv, NoneAtTasks, InStop
<1>11. ASSUME NEW c \in Clients, StopWait(c)
       PROVE  StopInv'
  <2>1. /\ cpc[c] \in {"fanin", "faninwait"} /\ UNCHANGED <<stopper, wpc, vecThreads>>
        /\ \E where \in {"faninwait", "join"} : GoTo(c, where)
    BY <1>11 DEF StopWait, OfFanIn
  <2> QED
    BY <1>0, <1>a, <2>1 DEF GoTo, StopInv, NoneAtTasks, InStop
<1>12. ASSUME NEW c \in Clients, StopJoin(c)
       PROVE  StopInv'
  <2>1. NoneAtTasks /\ stopper
    BY <1>0, <1>12 DEF StopJoin, NoneAtTasks, InStop
  <2> QED
    BY <1>0, <1>a, <1>12, <2>1 DEF StopJoin, GoTo, StopInv, NoneAtTasks, InStop
<1>13. ASSUME NEW c \in Clients, StopClear(c)
       PROVE  StopInv'
  <2>1. NoneAtTasks /\ stopper
    BY <1>0, <1>13 DEF StopClear, InStop
  <2> QED
    BY <1>0, <1>a, <1>13, <2>1 DEF StopClear, GoTo, StopInv, NoneAtTasks, InStop
<1>14. ASSUME NEW t, Spurious(t)
       PROVE  StopInv'
  BY <1>14, <1>3, TypeSpurious
<1>15. CASE UNCHANGED vars
  BY <1>15, <1>3 DEF vars
<1> QED
  BY <1>1, <1>4, <1>5, <1>6, <1>7, <1>8, <1>9, <1>10, <1>11, <1>12, <1>13, <1>14, <1>15
  DEF Next, ClientCalls, ClientGoesOn

\* stop() is final: when it has returned no worker is at a task, and none will
\* be, whoever stops the pool, how often, one after the other, and whoever
\* adds threads before or after.
THEOREM StopEndsWork == Spec => []StopIsFinal
<1>1. StopInv => StopIsFinal
  BY DEF StopInv, StopIsFinal, StopReturned, NobodyStops, NoneAtTasks, InStop
<1> QED
  BY <1>1, TypeInit, TypeStep, StopInit, StopStep, PTL DEF Spec

-----------------------------------------------------------------------------
\* A paused pool is quiet.

\* The client that may pause the pool, and it alone, may add threads to it.
Keeps(c) == May[c] \cap {"pause", "add"} # {}
OneKeeper == \A c, d \in Clients : Keeps(c) /\ Keeps(d) => c = d

Born == Workers \ Unborn
Adding == {c \in Clients : cpc[c] \in InAdd}
\* The client that has started a thread that pause() does not count yet.
Uncounted == {c \in Adding : cpc[c] # "spawn"}

\* Who is inside which call: only a client that may make it, or Main in the
\* constructor, and then nobody else is in any.
CallsAllowed ==
  /\ \A c \in Clients : cpc[c] \in {"pausing", "resuming"} => "pause" \in May[c]
  /\ \A c \in Adding : IF Constructed THEN "add" \in May[c] ELSE c = Main
  /\ ~Constructed => \A c \in Clients \ {Main} : cpc[c] = "idle"
  /\ muThreadPool \subseteq Adding

AddedCounted == Cardinality(Born) = mPauseExpected + IF Uncounted = {} THEN 0 ELSE 1

PausedInv ==
  /\ \A c \in Clients : cpc[c] = "pausing" => mPause
  /\ pausers # {} => mPause /\ \A w \in Workers : wpc[w] \in {"unborn", "top", "held"}

QuietInv == CallsAllowed /\ AddedCounted /\ PausedInv

\* At most one client adds threads, and none does while one is in pause().
LEMMA OneAdder ==
  ASSUME OneKeeper, CallsAllowed
  PROVE  /\ \A c, d \in Adding : c = d
         /\ \A c \in Clients : Constructed /\ "pause" \in May[c] /\ cpc[c] \notin InAdd => Adding = {}
BY DEF OneKeeper, Keeps, CallsAllowed, Adding

\* A step of a client that is not in add_thread(), to where it may go.
LEMMA CallsElsewhere ==
  ASSUME TypeInv, CallsAllowed, NEW c \in Clients, NEW where \in ClientAt \ InAdd,
         cpc[c] \notin InAdd, Constructed, GoTo(c, where), UNCHANGED muThreadPool,
         where \in {"pausing", "resuming"} => "pause" \in May[c]
  PROVE  CallsAllowed' /\ Uncounted' = Uncounted
<1>1. cpc \in [Clients -> ClientAt] /\ Main \in Clients
  BY PoolAssumption DEF TypeInv, TypeOK
<1>2. Adding' = Adding /\ Uncounted' = Uncounted
  BY <1>1 DEF GoTo, Adding, Uncounted
<1>3. Constructed'
  BY <1>1, <1>2 DEF Constructed, GoTo
<1> QED
  BY <1>1, <1>2, <1>3 DEF CallsAllowed, GoTo

\* In the constructor nobody but Main is in a call, and Main in no other.
LEMMA InCallConstructed ==
  ASSUME TypeInv, CallsAllowed, NEW c \in Clients, cpc[c] \notin InAdd \cup {"idle"}
  PROVE  Constructed
BY PoolAssumption DEF CallsAllowed, Constructed

LEMMA NobodyCalls ==
  ASSUME CallsAllowed, UNCHANGED <<cpc, muThreadPool>>
  PROVE  CallsAllowed' /\ Uncounted' = Uncounted
BY DEF CallsAllowed, Constructed, Adding, Uncounted

\* A client begins to add threads.
LEMMA AddBegins ==
  ASSUME TypeInv, CallsAllowed, NEW c \in Clients, AddThread(c)
  PROVE  CallsAllowed' /\ Uncounted' = Uncounted
<1>1. cpc \in [Clients -> ClientAt] /\ Main \in Clients
  BY PoolAssumption DEF TypeInv, TypeOK
<1>2. /\ cpc' = [cpc EXCEPT ![c] = "spawn"] /\ muThreadPool' = {c} /\ cpc[c] = "idle"
      /\ "add" \in May[c] /\ Constructed /\ muThreadPool = {}
  BY DEF AddThread, Calls, GoTo
<1>3. Adding' = Adding \cup {c} /\ Uncounted' = Uncounted
  BY <1>1, <1>2 DEF Adding, Uncounted, InAdd
<1>4. Constructed'
  BY <1>1, <1>2 DEF Constructed
<1> QED
  BY <1>1, <1>2, <1>3, <1>4 DEF CallsAllowed

\* A client that adds threads goes on with it, or has finished.
LEMMA AddGoesOn ==
  ASSUME TypeInv, CallsAllowed, NEW c \in Clients, NEW where \in InAdd \cup {"idle"},
         cpc[c] \in InAdd, GoTo(c, where),
         muThreadPool' = IF where = "idle" THEN muThreadPool \ {c} ELSE muThreadPool
  PROVE  CallsAllowed'
<1>1. cpc \in [Clients -> ClientAt] /\ Main \in Clients
  BY PoolAssumption DEF TypeInv, TypeOK
<1>2. CASE where = "idle"
  <2>1. Adding' = Adding \ {c}
    BY <1>1, <1>2 DEF Adding, GoTo, InAdd
  <2>2. ~Constructed => c = Main
    BY DEF CallsAllowed, Adding
  <2>3. Constructed'
    BY <1>1, <1>2, <2>2 DEF Constructed, GoTo, InAdd
  <2>4. \A d \in Adding' : "add" \in May[d]
    BY <2>1, <2>2 DEF CallsAllowed
  <2> QED
    BY <1>1, <1>2, <2>1, <2>3, <2>4 DEF CallsAllowed, GoTo
<1>3. CASE where # "idle"
  <2>1. Adding' = Adding
    BY <1>1, <1>3 DEF Adding, GoTo
  <2>2. Constructed' = Constructed
    BY <1>1, <1>3 DEF Constructed, GoTo
  <2>3. \A d \in Clients : cpc[d] \notin InAdd => cpc'[d] = cpc[d]
    BY <1>1 DEF GoTo
  <2>4. \A d \in Clients \ {Main} : ~Constructed => d \notin Adding /\ cpc'[d] = "idle"
    BY <2>3 DEF CallsAllowed, Adding, InAdd
  <2>5. \A d \in Clients : cpc'[d] \in {"pausing", "resuming"} => "pause" \in May[d]
    BY <1>1, <1>3 DEF CallsAllowed, GoTo, InAdd
  <2> QED
    BY <1>3, <2>1, <2>2, <2>4, <2>5 DEF CallsAllowed
<1> QED
  BY <1>2, <1>3

\* pause() returns when every thread is held.
LEMMA AllPausedHoldsAll ==
  ASSUME TypeInv, AddedCounted, Uncounted = {}, AllPaused
  PROVE  \A w \in Workers : wpc[w] \in {"unborn", "held"}
<1>1. Held \in SUBSET Born /\ Born \in SUBSET Workers /\ IsFiniteSet(Workers)
  BY HeldIsFinite DEF Held, Born, Unborn
<1>2. Cardinality(Born) <= Cardinality(Held)
  BY DEF AddedCounted, AllPaused, TypeInv, TypeOK, HeldCounted
<1>3. Held = Born
  BY <1>1, <1>2, CountOfPart
<1> QED
  BY <1>3 DEF Held, Born, Unborn

LEMMA QuietInit == Init => QuietInv
<1> SUFFICES ASSUME Init PROVE QuietInv
  OBVIOUS
<1>1. Main \in Clients /\ \A c \in Clients : cpc[c] = IF c = Main THEN "spawn" ELSE "idle"
  BY PoolAssumption DEF Init
<1>2. ~Constructed /\ muThreadPool = {}
  BY <1>1 DEF Init, Constructed, InAdd
<1>3. Adding = {Main} /\ Uncounted = {}
  BY <1>1 DEF Adding, Uncounted, InAdd
<1>4. CallsAllowed
  BY <1>1, <1>2, <1>3 DEF CallsAllowed
<1>5. Born = {} /\ Cardinality({}) = 0 /\ mPauseExpected = 0
  BY FS_EmptySet DEF Init, Born, Unborn, ConstructThreadControl, ConstructPausePoint
<1> QED
  BY <1>1, <1>3, <1>4, <1>5 DEF QuietInv, AddedCounted, PausedInv, Init

\* pause() has set the flag and waits, or has returned.
LEMMA PauseQuiet ==
  ASSUME TypeInv, QuietInv, NEW c \in Clients, Uncounted = {}, mPause',
         PauseReturn(c), c \notin Waiting(mCvPaused') => AllPaused
  PROVE  PausedInv'
<1>1. cpc \in [Clients -> ClientAt] /\ UNCHANGED wpc
  BY DEF TypeInv, TypeOK, PauseReturn, workerVars
<1>2. pausers' # pausers => \A w \in Workers : wpc[w] \in {"unborn", "held"}
  BY AllPausedHoldsAll DEF QuietInv, PauseReturn
<1> QED
  BY <1>1, <1>2 DEF QuietInv, PausedInv

LEMMA QuietStep ==
  ASSUME OneKeeper, TypeInv, QuietInv, [Next]_vars
  PROVE  QuietInv'
<1>0. CallsAllowed /\ AddedCounted /\ PausedInv
  BY DEF QuietInv
<1>a. wpc \in [Workers -> WorkerAt] /\ cpc \in [Clients -> ClientAt]
  BY DEF TypeInv, TypeOK
<1> USE DEF tcVars, syncVars, fanInVars, pauseVars, dequeVars, clientVars, vectorVars, workerVars
<1>1. ASSUME NEW w \in Workers, WorkerStep(w)
      PROVE  QuietInv'
  <2>1. Born' = Born /\ UNCHANGED <<stopper, cpc, vecThreads>>
    BY <1>1, WorkerTasksStep DEF TasksStep, Born, Unborn
  <2>2. UNCHANGED <<mPause, mPauseExpected, muThreadPool, pausers>>
    BY <1>1, PauseOutcomes
    DEF WorkerStep, WorkerCheckStop, WorkerTakes, WorkerAwaits, WorkerTimesOut, WorkerRuns,
        WorkerEnds, OfFanIn
  <2>3. CallsAllowed' /\ Uncounted' = Uncounted
    BY <1>0, <2>1, <2>2, NobodyCalls
  <2>4. ASSUME mPause, wpc[w] \in {"unborn", "top", "held"}
        PROVE  wpc' = wpc \/ wpc' = [wpc EXCEPT ![w] = "held"]
    <3>1. WorkerPause(w)
      BY <1>1, <2>4 DEF WorkerStep, WorkerCheckStop, WorkerTakes, WorkerAwaits, WorkerTimesOut,
                        WorkerRuns, WorkerEnds
    <3> QED
      BY <2>4, <3>1, PauseOutcomes DEF WorkerGoTo
  <2>5. PausedInv'
    BY <1>0, <1>a, <2>1, <2>2, <2>4 DEF PausedInv
  <2> QED
    BY <1>0, <2>1, <2>2, <2>3, <2>5 DEF QuietInv, AddedCounted
\* A step that starts no thread, counts none and does not touch the flag.
<1>2. ASSUME CallsAllowed', Uncounted' = Uncounted,
             UNCHANGED <<wpc, mPause, mPauseExpected, pausers>>,
             \A d \in Clients : cpc'[d] = "pausing" => cpc[d] = "pausing"
      PROVE  QuietInv'
  BY <1>0, <1>2 DEF QuietInv, AddedCounted, PausedInv, Born, Unborn
<1>3. ASSUME UNCHANGED <<wpc, cpc, muThreadPool, mPause, mPauseExpected, pausers>>
      PROVE  QuietInv'
  BY <1>0, <1>2, <1>3, NobodyCalls
<1>4. ASSUME NEW c \in Clients, AddThread(c)
      PROVE  QuietInv'
  <2>1. CallsAllowed' /\ Uncounted' = Uncounted
    BY <1>0, <1>4, AddBegins
  <2> QED
    BY <1>2, <1>4, <1>a, <2>1 DEF AddThread, GoTo
<1>5. ASSUME NEW c \in Clients, NEW k \in Tasks, push_function(c, k)
      PROVE  QuietInv'
  BY <1>3, <1>5 DEF push_function
<1>7. ASSUME NEW c \in Clients, NEW w \in Workers, Spawn(c, w)
      PROVE  QuietInv'
  <2>1. /\ wpc[w] = "unborn" /\ wpc' = [wpc EXCEPT ![w] = "top"]
        /\ cpc[c] = "spawn" /\ GoTo(c, "addsync")
        /\ UNCHANGED <<mPause, mPauseExpected, pausers, muThreadPool>>
    BY <1>7 DEF Spawn, WorkerGoTo, Unborn
  <2>2. CallsAllowed'
    BY <1>0, <2>1, AddGoesOn DEF InAdd
  <2>3. Uncounted = {} /\ c \in Uncounted'
    BY <1>0, <1>a, <2>1, OneAdder DEF Uncounted, Adding, GoTo, InAdd
  <2>4. Born' = Born \cup {w} /\ w \in Workers \ Born /\ Born \in SUBSET Workers
    BY <1>a, <2>1 DEF Born, Unborn
  <2>5. Cardinality(Born') = Cardinality(Born) + 1 /\ Cardinality(Born) \in Nat
    BY <2>4, HeldIsFinite, CountOfPart
  <2>6. AddedCounted'
    <3>1. mPauseExpected \in Nat
      BY DEF TypeInv, TypeOK
    <3> QED
      BY <1>0, <2>1, <2>3, <2>5, <3>1 DEF AddedCounted
  <2>7. PausedInv'
    BY <1>0, <1>a, <2>1 DEF PausedInv, GoTo
  <2> QED
    BY <2>2, <2>6, <2>7 DEF QuietInv
<1>8. ASSUME NEW c \in Clients, CountThread(c)
      PROVE  QuietInv'
  <2>1. UNCHANGED <<wpc, mPause, pausers>>
    BY <1>8 DEF CountThread, AddToSync, AddToFanIn, AddToPause, pause_add_thread, OfSync, OfFanIn
  <2>2. PICK where \in {"addfanin", "addpause", "spawn", "idle"} :
          /\ cpc[c] \in InAdd \ {"spawn"} /\ GoTo(c, where)
          /\ muThreadPool' = IF where = "idle" THEN muThreadPool \ {c} ELSE muThreadPool
          /\ mPauseExpected' = IF where \in {"spawn", "idle"} THEN mPauseExpected + 1 ELSE mPauseExpected
    BY <1>8 DEF CountThread, AddToSync, AddToFanIn, AddToPause, pause_add_thread, OfSync, OfFanIn,
                InAdd
  <2>3. CallsAllowed'
    BY <1>0, <2>2, AddGoesOn DEF InAdd
  <2>4. Uncounted = {c}
    BY <1>0, <2>2, OneAdder DEF Uncounted, Adding
  <2>5. Uncounted' = IF where \in {"spawn", "idle"} THEN {} ELSE {c}
    BY <1>a, <2>2, <2>4 DEF Uncounted, Adding, GoTo, InAdd
  <2>6. AddedCounted'
    <3>1. Born' = Born /\ Cardinality(Born) = mPauseExpected + 1 /\ mPauseExpected \in Nat
      BY <1>0, <2>1, <2>4 DEF AddedCounted, Born, Unborn, TypeInv, TypeOK
    <3>2. mPauseExpected' + (IF Uncounted' = {} THEN 0 ELSE 1) = mPauseExpected + 1
      BY <2>2, <2>5, <3>1
    <3> QED
      BY <3>1, <3>2 DEF AddedCounted
  <2>7. PausedInv'
    BY <1>0, <1>a, <2>1, <2>2 DEF PausedInv, GoTo
  <2> QED
    BY <2>3, <2>6, <2>7 DEF QuietInv
<1>9. ASSUME NEW c \in Clients, (PauseCall(c) /\ PauseReturn(c)) \/ (cpc[c] = "pausing" /\ PauseGoesOn(c))
      PROVE  QuietInv'
  <2>1. /\ Constructed /\ cpc[c] \notin InAdd /\ "pause" \in May[c]
        /\ PauseReturn(c)
        /\ c \notin Waiting(mCvPaused') => AllPaused
        /\ mPause' /\ UNCHANGED <<wpc, muThreadPool, mPauseExpected>>
    <3>1. CASE PauseCall(c) /\ PauseReturn(c)
      BY <3>1 DEF PauseCall, Calls, pause, Sleep, Waiting, PauseReturn, InAdd
    <3>2. CASE cpc[c] = "pausing" /\ PauseGoesOn(c)
      <4>1. Constructed /\ "pause" \in May[c]
        BY <1>0, <3>2, InCallConstructed DEF InAdd, CallsAllowed
      <4> QED
        BY <1>0, <3>2, <4>1 DEF PauseGoesOn, CallerWake, Sleep, Waiting, PauseReturn, InAdd, PausedInv
    <3> QED
      BY <1>9, <3>1, <3>2
  <2>2. GoTo(c, "idle") \/ GoTo(c, "pausing")
    BY <2>1 DEF PauseReturn, GoTo
  <2>3. CallsAllowed' /\ Uncounted' = Uncounted
    BY <1>0, <2>1, <2>2, CallsElsewhere DEF ClientAt, InAdd
  <2>4. Uncounted = {}
    BY <1>0, <2>1, OneAdder DEF Uncounted
  <2>5. PausedInv'
    BY <2>1, <2>4, PauseQuiet
  <2> QED
    BY <1>0, <2>1, <2>3, <2>5 DEF QuietInv, AddedCounted, Born, Unborn
<1>10. ASSUME NEW c \in Clients, ResumeCall(c) /\ ResumeReturn(c)
       PROVE  QuietInv'
  <2>1. /\ Constructed /\ cpc[c] = "idle" /\ "pause" \in May[c] /\ pausers' = {}
        /\ UNCHANGED <<wpc, muThreadPool, mPauseExpected>>
        /\ GoTo(c, "idle") \/ GoTo(c, "resuming")
    BY <1>10 DEF ResumeCall, Calls, resume, ResumeReturn
  <2>2. CallsAllowed' /\ Uncounted' = Uncounted
    BY <1>0, <2>1, CallsElsewhere DEF ClientAt, InAdd
  <2>3. \A d \in Clients : cpc[d] # "pausing"
    BY <1>0, <2>1 DEF CallsAllowed, OneKeeper, Keeps
  <2>4. PausedInv'
    BY <1>a, <2>1, <2>3 DEF PausedInv, GoTo
  <2> QED
    BY <1>0, <2>1, <2>2, <2>4 DEF QuietInv, AddedCounted, Born, Unborn
<1>11. ASSUME NEW c \in Clients, cpc[c] = "resuming", PauseGoesOn(c)
       PROVE  QuietInv'
  <2>1. /\ UNCHANGED <<wpc, muThreadPool, mPause, mPauseExpected, pausers>>
        /\ GoTo(c, "idle") \/ GoTo(c, "resuming")
    BY <1>11 DEF PauseGoesOn, CallerWake, ResumeReturn
  <2>2. CallsAllowed' /\ Uncounted' = Uncounted
    BY <1>0, <1>11, <2>1, CallsElsewhere, InCallConstructed DEF ClientAt, InAdd, CallsAllowed
  <2> QED
    BY <1>a, <1>2, <2>1, <2>2 DEF GoTo
<1>12. ASSUME NEW c \in Clients,
              StopCall(c) \/ StopFlag(c) \/ StopWait(c) \/ StopJoin(c) \/ StopClear(c)
       PROVE  QuietInv'
  <2>1. /\ UNCHANGED <<wpc, muThreadPool, mPause, mPauseExpected, pausers>>
        /\ cpc[c] \in InStop \/ Calls(c, "stop")
        /\ \E where \in InStop \cup {"idle"} : GoTo(c, where)
    BY <1>12 DEF StopCall, StopFlag, SetStopper, StopWait, OfFanIn, StopJoin, StopClear, InStop
  <2>2. Constructed /\ cpc[c] \notin InAdd
    BY <1>0, <2>1, InCallConstructed DEF Calls, InAdd, InStop
  <2>3. PICK where \in InStop \cup {"idle"} : GoTo(c, where)
    BY <2>1
  <2>4. where \in ClientAt \ InAdd /\ where \notin {"pausing", "resuming"}
    BY DEF ClientAt, InAdd, InStop
  <2>5. CallsAllowed' /\ Uncounted' = Uncounted
    BY <1>0, <2>1, <2>2, <2>3, <2>4, CallsElsewhere
  <2> QED
    BY <1>a, <1>2, <2>1, <2>3, <2>4, <2>5 DEF GoTo
<1>13. ASSUME NEW t, Spurious(t)
       PROVE  QuietInv'
  BY <1>3, <1>13, TypeSpurious
<1>14. CASE UNCHANGED vars
  BY <1>3, <1>14 DEF vars
<1>15. ASSUME NEW c \in Clients, PauseGoesOn(c)
       PROVE  QuietInv'
  BY <1>9, <1>11, <1>15 DEF PauseGoesOn
<1> QED
  BY <1>1, <1>4, <1>5, <1>7, <1>8, <1>9, <1>10, <1>12, <1>13, <1>14, <1>15
  DEF Next, ClientCalls, ClientGoesOn

\* A paused pool is quiet: when the client that pauses it is the one that adds
\* threads (the constructor aside), no worker takes, runs or waits for a task
\* between the return of its pause() and its next resume().  Without that the
\* run of MCGenericThreadPool with OtherAdds has a counterexample.
THEOREM PausedPoolIsQuiet == OneKeeper => (Spec => []QuietWhilePaused)
<1> SUFFICES ASSUME OneKeeper
             PROVE  Spec => []QuietWhilePaused
  OBVIOUS
<1>1. TypeInv /\ QuietInv /\ [Next]_vars => QuietInv'
  BY QuietStep
<1>2. QuietInv => QuietWhilePaused
  BY DEF QuietInv, PausedInv, QuietWhilePaused, AtWork
<1> QED
  BY <1>1, <1>2, TypeInit, TypeStep, QuietInit, PTL DEF Spec
=============================================================================
