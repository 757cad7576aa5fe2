------------------------- MODULE GenericThreadPool --------------------------
(***************************************************************************)
(* class GenericThreadPool (include/threading.hpp): a vector of worker     *)
(* threads, a queue of tasks and a ThreadControl, used by the threads of a *)
(* program, the clients.  The client Main constructs the pool.             *)
(*                                                                         *)
(* A step of a thread is what it does between two points where another     *)
(* thread can see or disturb it: one critical section of a base class of   *)
(* ThreadControl or of the queue, or one access to shared data without a   *)
(* lock.  `wpc' and `cpc' say where the threads are.                       *)
(*                                                                         *)
(* `pausers' (the clients whose pause() has returned and that no resume()  *)
(* has released) and `task' (what became of each task) are history         *)
(* variables.                                                              *)
(***************************************************************************)
EXTENDS ThreadControl, Deque

CONSTANTS
  Workers,      \* every thread that is ever started: the bound on the pool
  Clients, Main,
  Tasks, NoTask,
  May,          \* which calls each client makes: a function from Clients to
                \* sets of "push", "pause", "add", "stop"
  StopPaused    \* may stop() be called while the pool is paused, or pause()
                \* after stop()?

ASSUME PoolAssumption ==
  /\ IsFiniteSet(Workers)
  /\ Main \in Clients
  /\ NoTask \notin Tasks
  /\ Workers # {}
  /\ May \in [Clients -> SUBSET {"push", "pause", "add", "stop"}]
  /\ StopPaused \in BOOLEAN

VARIABLES
  vecThreads,     \* std::vector<std::thread> _vecThreads
  muThreadPool,   \* std::mutex _muThreadPool: the clients that hold it
  wpc,            \* where each worker is in _worker_thread()
  qe,             \* QueueElement* qe of each worker
  cpc,            \* where each client is
  pausers, task

dequeVars == <<items, mListCV>>
workerVars == <<wpc, qe, task>>
vectorVars == <<vecThreads, muThreadPool>>
clientVars == <<vectorVars, cpc, pausers>>
vars == <<tcVars, dequeVars, workerVars, clientVars>>

WorkerAt == {"unborn", "top", "held", "check", "pop", "popping", "run", "fini", "ended"}
InAdd == {"spawn", "addsync", "addfanin", "addpause"}
InStop == {"setstop", "fanin", "faninwait", "join", "clear"}
ClientAt == {"idle", "pausing", "resuming"} \cup InAdd \cup InStop

Unborn == {w \in Workers : wpc[w] = "unborn"}

Init ==
  /\ ConstructThreadControl(0)
  /\ items = <<>> /\ mListCV = NoWaiters
  /\ vecThreads = <<>> /\ muThreadPool = {}
  /\ wpc = [w \in Workers |-> "unborn"]
  /\ qe = [w \in Workers |-> NoTask]
  /\ cpc = [c \in Clients |-> IF c = Main THEN "spawn" ELSE "idle"]
  /\ pausers = {}
  /\ task = [k \in Tasks |-> "new"]

\* The constructor runs the loop of add_thread() without the lock; until it
\* is done there is no pool for the clients to call.
Constructed == ~(cpc[Main] \in InAdd /\ Main \notin muThreadPool)

Calls(c, what) == Constructed /\ cpc[c] = "idle" /\ what \in May[c]

\* stop() goes through _vecThreads without the lock, and joins every thread in
\* it, which can be done once.  So the program makes one stop() at a time, and
\* adds no threads meanwhile.
NobodyStops == \A c \in Clients : cpc[c] \notin InStop

GoTo(c, where) == cpc' = [cpc EXCEPT ![c] = where]

WorkerGoTo(w, where) == wpc' = [wpc EXCEPT ![w] = where]

-----------------------------------------------------------------------------
\* _worker_thread()

\* tc.pauseIfRequred(), and its return from a pause.
WorkerPause(w) ==
  /\ \/ wpc[w] = "top" /\ pauseIfRequred(w)
     \/ wpc[w] = "held" /\ PauseWake(w)
  /\ WorkerGoTo(w, IF w \in Waiting(mCvPause') THEN "held" ELSE "check")
  /\ OfPause
  /\ UNCHANGED <<dequeVars, qe, task, clientVars>>

\* A worker that takes the next task before it looks at the stop flag.
WorkerSkipsStop(w) ==
  /\ wpc[w] = "check"
  /\ WorkerGoTo(w, IF stopRequired /\ DequeEmpty THEN "fini" ELSE "pop")
  /\ UNCHANGED <<tcVars, dequeVars, qe, task, clientVars>>

\* if (tc.stopRequired()) break;
WorkerCheckStop(w) ==
  /\ wpc[w] = "check"
  /\ WorkerGoTo(w, IF stopRequired THEN "fini" ELSE "pop")
  /\ UNCHANGED <<tcVars, dequeVars, qe, task, clientVars>>

\* A pop that hands out the first task and leaves it in the queue.
WorkerTakesCopy(w) ==
  /\ wpc[w] \in {"pop", "popping"}
  /\ TakeFrontKeeps(w)
  /\ qe' = [qe EXCEPT ![w] = Head(items)]
  /\ task' = [task EXCEPT ![Head(items)] = "running"]
  /\ WorkerGoTo(w, "run")
  /\ UNCHANGED <<tcVars, clientVars>>

\* _q.pop_front(100) returns a task,
WorkerTakes(w) ==
  /\ wpc[w] \in {"pop", "popping"}
  /\ TakeFront(w)
  /\ qe' = [qe EXCEPT ![w] = Head(items)]
  /\ task' = [task EXCEPT ![Head(items)] = "running"]
  /\ WorkerGoTo(w, "run")
  /\ UNCHANGED <<tcVars, clientVars>>

\* waits for one,
WorkerAwaits(w) ==
  /\ wpc[w] \in {"pop", "popping"}
  /\ AwaitItem(w)
  /\ WorkerGoTo(w, "popping")
  /\ UNCHANGED <<tcVars, qe, task, clientVars>>

\* or times out.
WorkerTimesOut(w) ==
  /\ wpc[w] = "popping"
  /\ GiveUp(w)
  /\ WorkerGoTo(w, "top")
  /\ UNCHANGED <<tcVars, qe, task, clientVars>>

\* A worker that ends after one task.
WorkerEndsAfterTask(w) ==
  /\ wpc[w] = "run"
  /\ task' = [task EXCEPT ![qe[w]] = "done"]
  /\ qe' = [qe EXCEPT ![w] = NoTask]
  /\ WorkerGoTo(w, "fini")
  /\ UNCHANGED <<tcVars, dequeVars, clientVars>>

\* (*qe->task)(); delete qe;
WorkerRuns(w) ==
  /\ wpc[w] = "run"
  /\ task' = [task EXCEPT ![qe[w]] = "done"]
  /\ qe' = [qe EXCEPT ![w] = NoTask]
  /\ WorkerGoTo(w, "top")
  /\ UNCHANGED <<tcVars, dequeVars, clientVars>>

\* tc.done(), and the thread ends.
WorkerEnds(w) ==
  /\ wpc[w] = "fini"
  /\ done /\ OfFanIn
  /\ WorkerGoTo(w, "ended")
  /\ UNCHANGED <<dequeVars, qe, task, clientVars>>

-----------------------------------------------------------------------------
\* add_thread(), and the constructor

\* add_thread() takes _muThreadPool and keeps it through its loop.
AddThread(c) ==
  /\ Calls(c, "add")
  /\ NobodyStops
  /\ Unborn # {}
  /\ muThreadPool = {} /\ muThreadPool' = {c}
  /\ GoTo(c, "spawn")
  /\ UNCHANGED <<tcVars, dequeVars, workerVars, vecThreads, pausers>>

\* _add_thread(): _vecThreads.emplace_back() starts the thread,
Spawn(c, w) ==
  /\ cpc[c] = "spawn"
  /\ w \in Unborn
  /\ vecThreads' = Append(vecThreads, w)
  /\ WorkerGoTo(w, "top")
  /\ GoTo(c, "addsync")
  /\ UNCHANGED <<tcVars, dequeVars, qe, task, muThreadPool, pausers>>

\* then _tc.add_thread() counts it, when it runs already; the loop ends after
\* any number of threads.
CountThread(c) ==
  /\ \/ /\ cpc[c] = "addsync" /\ AddToSync(1)
        /\ GoTo(c, "addfanin") /\ UNCHANGED muThreadPool
     \/ /\ cpc[c] = "addfanin" /\ AddToFanIn(1)
        /\ GoTo(c, "addpause") /\ UNCHANGED muThreadPool
     \/ /\ cpc[c] = "addpause" /\ AddToPause(1)
        /\ \/ Unborn # {} /\ GoTo(c, "spawn") /\ UNCHANGED muThreadPool
           \/ GoTo(c, "idle") /\ muThreadPool' = muThreadPool \ {c}
  /\ UNCHANGED <<dequeVars, workerVars, vecThreads, pausers>>

-----------------------------------------------------------------------------
\* push_function(), pause(), resume(), stop()

push_function(c, k) ==
  /\ Calls(c, "push")
  /\ task[k] = "new"
  /\ PushBack(k)
  /\ task' = [task EXCEPT ![k] = "queued"]
  /\ UNCHANGED <<tcVars, wpc, qe, clientVars>>

\* pause() and resume(): each has the call, and the wakeup in it.
PauseCall(c) ==
  /\ Calls(c, "pause")
  /\ stopper => StopPaused
  /\ pause(c)

PauseReturn(c) ==
  /\ IF c \in Waiting(mCvPaused')
     THEN GoTo(c, "pausing") /\ UNCHANGED pausers
     ELSE GoTo(c, "idle") /\ pausers' = pausers \cup {c}
  /\ OfPause
  /\ UNCHANGED <<dequeVars, workerVars, vectorVars>>

ResumeCall(c) == Calls(c, "pause") /\ resume(c) /\ pausers' = {}

ResumeReturn(c) ==
  /\ GoTo(c, IF c \in Waiting(mCvPaused') THEN "resuming" ELSE "idle")
  /\ OfPause
  /\ UNCHANGED <<dequeVars, workerVars, vectorVars>>

PauseGoesOn(c) ==
  \/ cpc[c] = "pausing" /\ CallerWake(c, AllPaused) /\ PauseReturn(c)
  \/ /\ cpc[c] = "resuming" /\ CallerWake(c, NonePaused)
     /\ UNCHANGED pausers /\ ResumeReturn(c)

\* stop() asks get_numthreads() first,
StopCall(c) ==
  /\ Calls(c, "stop")
  /\ NobodyStops
  /\ mPause => StopPaused
  /\ muThreadPool = {} /\ vecThreads # <<>>
  /\ GoTo(c, "setstop")
  /\ UNCHANGED <<tcVars, dequeVars, workerVars, vectorVars, pausers>>

\* then calls _tc.stop(): the flag is set, and FanInPoint::wait() called,
StopFlag(c) ==
  /\ cpc[c] = "setstop"
  /\ SetStopper
  /\ GoTo(c, "fanin")
  /\ UNCHANGED <<dequeVars, workerVars, vectorVars, pausers>>

StopWait(c) ==
  /\ \/ cpc[c] = "fanin" /\ wait(c)
     \/ cpc[c] = "faninwait" /\ FanInWake(c)
  /\ GoTo(c, IF c \in Waiting(mCvFanIn') THEN "faninwait" ELSE "join")
  /\ OfFanIn
  /\ UNCHANGED <<dequeVars, workerVars, vectorVars, pausers>>

\* joins every thread of _vecThreads, without the lock (the loop is one step:
\* join() does nothing but wait),
StopJoin(c) ==
  /\ cpc[c] = "join"
  /\ \A w \in ToSet(vecThreads) : wpc[w] = "ended"
  /\ GoTo(c, "clear")
  /\ UNCHANGED <<tcVars, dequeVars, workerVars, vectorVars, pausers>>

\* and clears the vector, with the lock.
StopClear(c) ==
  /\ cpc[c] = "clear"
  /\ muThreadPool = {}
  /\ vecThreads' = <<>>
  /\ GoTo(c, "idle")
  /\ UNCHANGED <<tcVars, dequeVars, workerVars, muThreadPool, pausers>>

-----------------------------------------------------------------------------

\* A thread wakes in one of the four waits and nothing has happened.
Spurious(t) ==
  /\ \/ PauseSpurious(t) /\ OfPause /\ UNCHANGED mListCV
     \/ CallerSpurious(t) /\ OfPause /\ UNCHANGED mListCV
     \/ FanInSpurious(t) /\ OfFanIn /\ UNCHANGED mListCV
     \/ /\ t \in mListCV.asleep
        /\ mListCV' = Rouse(mListCV, t)
        /\ UNCHANGED tcVars
  /\ UNCHANGED <<items, workerVars, clientVars>>

WorkerStep(w) ==
  \/ WorkerPause(w) \/ WorkerCheckStop(w)
  \/ WorkerTakes(w) \/ WorkerAwaits(w) \/ WorkerTimesOut(w)
  \/ WorkerRuns(w) \/ WorkerEnds(w)

ClientCalls(c) ==
  \/ AddThread(c)
  \/ \E k \in Tasks : push_function(c, k)
  \/ PauseCall(c) /\ PauseReturn(c)
  \/ ResumeCall(c) /\ ResumeReturn(c)
  \/ StopCall(c)

\* A client goes on in a call it has made.
ClientGoesOn(c) ==
  \/ \E w \in Workers : Spawn(c, w)
  \/ CountThread(c)
  \/ PauseGoesOn(c)
  \/ StopFlag(c) \/ StopWait(c) \/ StopJoin(c) \/ StopClear(c)

Next ==
  \/ \E w \in Workers : WorkerStep(w) \/ Spurious(w)
  \/ \E c \in Clients : ClientCalls(c) \/ ClientGoesOn(c) \/ Spurious(c)

\* The scheduler runs every thread that can run, tasks end, and the timeout
\* of pop_front(100) expires.  Nobody has to call anything.
Fairness ==
  /\ \A w \in Workers : WF_vars(WorkerStep(w)) /\ WF_vars(WorkerTimesOut(w))
  /\ \A c \in Clients : WF_vars(ClientGoesOn(c))

Spec == Init /\ [][Next]_vars /\ Fairness

-----------------------------------------------------------------------------

\* (mFanInExpected is an int: a thread that ends before it is counted takes it
\* below 0.)
TypeOK ==
  /\ stopper \in BOOLEAN
  /\ mFanInExpected \in Int
  /\ mSyncExpected \in Nat /\ mPauseExpected \in Nat /\ mPausedThreads \in Nat
  /\ mCvPause \in CondVarOf(Workers) /\ mListCV \in CondVarOf(Workers)
  /\ mCvPaused \in CondVarOf(Clients) /\ mCvFanIn \in CondVarOf(Clients)
  /\ items \in Seq(Tasks) /\ vecThreads \in Seq(Workers)
  /\ wpc \in [Workers -> WorkerAt] /\ qe \in [Workers -> Tasks \cup {NoTask}]
  /\ cpc \in [Clients -> ClientAt] /\ muThreadPool \subseteq Clients
  /\ task \in [Tasks -> {"new", "queued", "running", "done"}]

\* The worker has passed its pause and stop checks, or is at a task.
AtWork(w) == wpc[w] \in {"check", "pop", "popping", "run"}

\* "wait until all worker threads paused": from the return of pause() to the
\* next resume() no worker takes, runs or waits for a task, and so none runs
\* that is pushed in between.
QuietWhilePaused == pausers # {} => \A w \in Workers : ~AtWork(w)

\* stop() was called and has returned.
StopReturned == stopper /\ NobodyStops

\* "worker threads exit when asked by the main thread": when stop() has
\* returned no worker is at work, whatever was pushed or started since.  A
\* worker that add_thread() starts now only looks at the flag.
StopIsFinal ==
  StopReturned => \A w \in Workers : wpc[w] \notin {"pop", "popping", "run"}

\* A task is run once: it is never taken again.
TaskRunsOnce ==
  [][\A k \in Tasks : task[k] \in {"running", "done"} =>
       \/ task'[k] = task[k]
       \/ task[k] = "running" /\ task'[k] = "done"]_vars

\* "will be popped and executed later by one of the threads in the pool",
\* unless the pool is paused or stopped: the tasks that are queued when stop()
\* is called are not run.
QueuedTaskRunsUnlessHeld ==
  \A k \in Tasks : task[k] = "queued" ~> (task[k] = "done" \/ stopper \/ mPause)

\* pause() and stop() return.
PauseReturns == \A c \in Clients : cpc[c] = "pausing" ~> cpc[c] = "idle"
StopReturns == \A c \in Clients : cpc[c] = "setstop" ~> cpc[c] = "idle"

=============================================================================
