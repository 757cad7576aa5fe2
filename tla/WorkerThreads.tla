--------------------------- MODULE WorkerThreads ----------------------------
(***************************************************************************)
(* class WorkerThreads (include/threading.hpp): a vector of threads that   *)
(* run a routine of the user's, and the ThreadControl they share with the  *)
(* program's threads, the clients.  The client Main constructs the object. *)
(*                                                                         *)
(* A routine, the `visitor' of the constructor and of each add_thread(),   *)
(* may be anything.  Three of the repository stand for it: "loop", from    *)
(* examples/threading.cpp, goes round between pauseIfRequred and           *)
(* stopRequired, then calls done() and sync(); "poll" and "once" are from  *)
(* tests/threading_test.cpp: one goes round until it is stopped and calls  *)
(* done(), the other stops at a pause if there is one, meets the others in *)
(* sync(), works and calls done().                                         *)
(*                                                                         *)
(* Unlike GenericThreadPool this class counts its threads before it starts *)
(* them.  `pausers' is a history variable, as there, and `outsideSyncs',   *)
(* the number of sync() calls made by clients, is another.                 *)
(***************************************************************************)
EXTENDS ThreadControl, SequencesExt

CONSTANTS
  Workers,      \* every thread that is ever started: the bound on the pool
  Clients, Main,
  May,          \* which calls each client makes: a function from Clients to
                \* sets of "pause", "sync", "wait", "stop", "join", "add"
  Programs,     \* the routines a program gives its threads: a set of sets
  StopPaused    \* may stop() be called while the pool is paused, or pause()
                \* when it is stopped?

Routines == {"loop", "poll", "once"}

ASSUME WorkerThreadsAssumption ==
  /\ IsFiniteSet(Workers) /\ Workers # {}
  /\ Main \in Clients
  /\ May \in [Clients -> SUBSET {"pause", "sync", "wait", "stop", "join", "add"}]
  /\ Programs \subseteq (SUBSET Routines) \ {{}}
  /\ StopPaused \in BOOLEAN

VARIABLES
  vecThreads,        \* std::vector<std::thread> _vecThreads
  muWorkerThreads,   \* std::mutex _muWorkerThreads: the clients that hold it
  routine,           \* the ThreadRoutine of each thread
  wpc,               \* where each thread is in it
  cpc,               \* where each client is
  visitors,          \* the routines that this program uses
  visitor,           \* the one that the threads started last were given
  toStart,           \* nthreads - i: threads counted and not yet started
  pausers, outsideSyncs

workerVars == <<routine, wpc>>
vectorVars == <<vecThreads, muWorkerThreads>>
startVars == <<visitors, visitor, toStart>>
historyVars == <<pausers, outsideSyncs>>
clientVars == <<vectorVars, startVars, historyVars, cpc>>
vars == <<tcVars, workerVars, clientVars>>

WorkerAt == {"unborn", "top", "held", "check", "work", "done", "sync", "syncing", "ended"}
InAdd == {"addsync", "addfanin", "addpause", "start"}
InStop == {"setstop", "fanin", "faninwait"}
InJoin == {"join", "clear"}
ClientAt == {"idle", "pausing", "resuming", "syncing"} \cup InAdd \cup InStop \cup InJoin

Unborn == {w \in Workers : wpc[w] = "unborn"}

\* The constructor up to its loop: nobody else knows of the object yet, so
\* its _tc.initialize(nthreads) is part of the initial state.
Init ==
  \E n \in 1 .. Cardinality(Workers) :
    /\ ConstructThreadControl(n)
    /\ vecThreads = <<>> /\ muWorkerThreads = {}
    /\ visitors \in Programs /\ visitor \in visitors
    /\ routine = [w \in Workers |-> "none"]
    /\ wpc = [w \in Workers |-> "unborn"]
    /\ cpc = [c \in Clients |-> IF c = Main THEN "start" ELSE "idle"]
    /\ toStart = n
    /\ pausers = {} /\ outsideSyncs = 0

\* The constructor starts its threads without the lock.
Constructed == ~(cpc[Main] = "start" /\ Main \notin muWorkerThreads)

Calls(c, what) == Constructed /\ cpc[c] = "idle" /\ what \in May[c]

\* No thread is changing the vector, or going through it without the lock.
VectorFree == muWorkerThreads = {} /\ \A c \in Clients : cpc[c] \notin InJoin

GoTo(c, where) == cpc' = [cpc EXCEPT ![c] = where]

WorkerGoTo(w, where) == wpc' = [wpc EXCEPT ![w] = where]

-----------------------------------------------------------------------------
\* The routines: where they begin, and what comes after each of their calls.

Begin(r) == IF r = "poll" THEN "check" ELSE "top"

AfterPause(r) == IF r = "once" THEN "sync" ELSE "check"

AfterWork(r) == IF r = "once" THEN "done" ELSE Begin(r)

AfterDone(r) == IF r = "loop" THEN "sync" ELSE "ended"

AfterSync(r) == IF r = "loop" THEN "ended" ELSE "work"

\* tc.pauseIfRequred(), and its return from a pause.
WorkerPause(w) ==
  /\ \/ wpc[w] = "top" /\ pauseIfRequred(w)
     \/ wpc[w] = "held" /\ PauseWake(w)
  /\ WorkerGoTo(w, IF w \in Waiting(mCvPause') THEN "held" ELSE AfterPause(routine[w]))
  /\ OfPause
  /\ UNCHANGED <<routine, clientVars>>

\* if (tc.stopRequired()) break;
WorkerCheckStop(w) ==
  /\ wpc[w] = "check"
  /\ WorkerGoTo(w, IF stopRequired THEN "done" ELSE "work")
  /\ UNCHANGED <<tcVars, routine, clientVars>>

WorkerWorks(w) ==
  /\ wpc[w] = "work"
  /\ WorkerGoTo(w, AfterWork(routine[w]))
  /\ UNCHANGED <<tcVars, routine, clientVars>>

\* tc.done()
WorkerDone(w) ==
  /\ wpc[w] = "done"
  /\ done /\ OfFanIn
  /\ WorkerGoTo(w, AfterDone(routine[w]))
  /\ UNCHANGED <<routine, clientVars>>

\* tc.sync(), and its return.
WorkerSync(w) ==
  /\ \/ wpc[w] = "sync" /\ sync(w)
     \/ wpc[w] = "syncing" /\ SyncWake(w)
  /\ WorkerGoTo(w, IF w \in Waiting(mCvSync') THEN "syncing" ELSE AfterSync(routine[w]))
  /\ OfSync
  /\ UNCHANGED <<routine, clientVars>>

WorkerStep(w) ==
  \/ WorkerPause(w) \/ WorkerCheckStop(w) \/ WorkerWorks(w)
  \/ WorkerDone(w) \/ WorkerSync(w)

-----------------------------------------------------------------------------
\* The constructor's loop, and add_thread()

\* add_thread() takes _muWorkerThreads and keeps it to its end.  Its
\* emplace_back() may not run while another thread reads the vector without
\* the lock: the program sees to that.
AddThread(c) ==
  /\ Calls(c, "add")
  /\ VectorFree
  /\ muWorkerThreads' = {c}
  /\ toStart' \in 1 .. Cardinality(Unborn)
  /\ visitor' \in visitors
  /\ GoTo(c, "addsync")
  /\ UNCHANGED <<tcVars, workerVars, vecThreads, visitors, historyVars>>

\* _tc.add_thread(nthreads), one base class at a time,
CountThreads(c) ==
  /\ \/ cpc[c] = "addsync" /\ AddToSync(toStart) /\ GoTo(c, "addfanin")
     \/ cpc[c] = "addfanin" /\ AddToFanIn(toStart) /\ GoTo(c, "addpause")
     \/ cpc[c] = "addpause" /\ AddToPause(toStart) /\ GoTo(c, "start")
  /\ UNCHANGED <<workerVars, vectorVars, startVars, historyVars>>

\* then the loop of _vecThreads.emplace_back().  Threads that are not started
\* are all alike: it does not matter which one is next.
StartThread(c, w) ==
  /\ cpc[c] = "start"
  /\ w \in Unborn /\ w = CHOOSE v \in Unborn : TRUE
  /\ vecThreads' = Append(vecThreads, w)
  /\ routine' = [routine EXCEPT ![w] = visitor]
  /\ WorkerGoTo(w, Begin(visitor))
  /\ toStart' = toStart - 1
  /\ IF toStart' = 0
     THEN GoTo(c, "idle") /\ muWorkerThreads' = muWorkerThreads \ {c}
     ELSE UNCHANGED <<cpc, muWorkerThreads>>
  /\ UNCHANGED <<tcVars, visitors, visitor, historyVars>>

-----------------------------------------------------------------------------
\* pause(), resume(), sync(), wait(), stop(), join()

\* Only a routine that loops supports pause(), and only until it is stopped.
PauseCall(c) ==
  /\ Calls(c, "pause")
  /\ visitors = {"loop"}
  /\ stopper => StopPaused
  /\ pause(c)

PauseReturn(c) ==
  /\ IF c \in Waiting(mCvPaused')
     THEN GoTo(c, "pausing") /\ UNCHANGED pausers
     ELSE GoTo(c, "idle") /\ pausers' = pausers \cup {c}
  /\ OfPause
  /\ UNCHANGED <<workerVars, vectorVars, startVars, outsideSyncs>>

ResumeCall(c) == Calls(c, "pause") /\ resume(c) /\ pausers' = {}

ResumeReturn(c) ==
  /\ GoTo(c, IF c \in Waiting(mCvPaused') THEN "resuming" ELSE "idle")
  /\ OfPause
  /\ UNCHANGED <<workerVars, vectorVars, startVars, outsideSyncs>>

PauseGoesOn(c) ==
  \/ cpc[c] = "pausing" /\ CallerWake(c, AllPaused) /\ PauseReturn(c)
  \/ /\ cpc[c] = "resuming" /\ CallerWake(c, NonePaused)
     /\ UNCHANGED pausers /\ ResumeReturn(c)

\* sync() is that of the SyncPoint whose counter holds the workers only: a
\* client's call takes the place of a worker's.  From below 0 the counter
\* gets back to 0 by add_thread() alone, so there are few such calls.
SyncReturn(c) ==
  /\ GoTo(c, IF c \in Waiting(mCvSync') THEN "syncing" ELSE "idle")
  /\ OfSync
  /\ UNCHANGED <<workerVars, vectorVars, startVars, pausers>>

SyncCall(c) ==
  /\ Calls(c, "sync")
  /\ sync(c)
  /\ outsideSyncs' = outsideSyncs + 1
  /\ SyncReturn(c)

SyncGoesOn(c) ==
  /\ cpc[c] = "syncing" /\ SyncWake(c)
  /\ SyncReturn(c)
  /\ UNCHANGED outsideSyncs

\* wait() and stop() look at the size of the vector without the lock.  A
\* routine that goes round has to be stopped, and cannot be while it is held.
WaitCall(c) ==
  /\ Calls(c, "wait")
  /\ visitors = {"once"} \/ stopper
  /\ muWorkerThreads = {} /\ vecThreads # <<>>
  /\ GoTo(c, "fanin")
  /\ UNCHANGED <<tcVars, workerVars, vectorVars, startVars, historyVars>>

StopCall(c) ==
  /\ Calls(c, "stop")
  /\ mPause => StopPaused
  /\ muWorkerThreads = {} /\ vecThreads # <<>>
  /\ GoTo(c, "setstop")
  /\ UNCHANGED <<tcVars, workerVars, vectorVars, startVars, historyVars>>

\* _tc.stop(): the flag is set,
StopFlag(c) ==
  /\ cpc[c] = "setstop"
  /\ SetStopper
  /\ GoTo(c, "fanin")
  /\ UNCHANGED <<workerVars, vectorVars, startVars, historyVars>>

\* and FanInPoint::wait() called, as by _tc.wait().
FanInWait(c) ==
  /\ \/ cpc[c] = "fanin" /\ wait(c)
     \/ cpc[c] = "faninwait" /\ FanInWake(c)
  /\ GoTo(c, IF c \in Waiting(mCvFanIn') THEN "faninwait" ELSE "idle")
  /\ OfFanIn
  /\ UNCHANGED <<workerVars, vectorVars, startVars, historyVars>>

\* join() goes through the vector without the lock,
JoinCall(c) ==
  /\ Calls(c, "join")
  /\ visitors = {"once"} \/ stopper
  /\ VectorFree
  /\ GoTo(c, "join")
  /\ UNCHANGED <<tcVars, workerVars, vectorVars, startVars, historyVars>>

JoinAll(c) ==
  /\ cpc[c] = "join"
  /\ \A w \in ToSet(vecThreads) : wpc[w] = "ended"
  /\ GoTo(c, "clear")
  /\ UNCHANGED <<tcVars, workerVars, vectorVars, startVars, historyVars>>

\* and clears it with the lock.
JoinClear(c) ==
  /\ cpc[c] = "clear"
  /\ muWorkerThreads = {}
  /\ vecThreads' = <<>>
  /\ GoTo(c, "idle")
  /\ UNCHANGED <<tcVars, workerVars, muWorkerThreads, startVars, historyVars>>

-----------------------------------------------------------------------------

\* A thread wakes in one of the four waits and nothing has happened.
Spurious(t) ==
  /\ \/ SyncSpurious(t) /\ OfSync
     \/ FanInSpurious(t) /\ OfFanIn
     \/ PauseSpurious(t) /\ OfPause
     \/ CallerSpurious(t) /\ OfPause
  /\ UNCHANGED <<workerVars, clientVars>>

ClientCalls(c) ==
  \/ AddThread(c)
  \/ PauseCall(c) /\ PauseReturn(c)
  \/ ResumeCall(c) /\ ResumeReturn(c)
  \/ SyncCall(c)
  \/ WaitCall(c) \/ StopCall(c) \/ JoinCall(c)

\* A client goes on in a call it has made.
ClientGoesOn(c) ==
  \/ CountThreads(c)
  \/ \E w \in Workers : StartThread(c, w)
  \/ PauseGoesOn(c) \/ SyncGoesOn(c)
  \/ StopFlag(c) \/ FanInWait(c) \/ JoinAll(c) \/ JoinClear(c)

Next ==
  \/ \E w \in Workers : WorkerStep(w) \/ Spurious(w)
  \/ \E c \in Clients : ClientCalls(c) \/ ClientGoesOn(c) \/ Spurious(c)

\* The scheduler runs every thread that can run.  Nobody has to call
\* anything.
Fairness ==
  /\ \A w \in Workers : WF_vars(WorkerStep(w))
  /\ \A c \in Clients : WF_vars(ClientGoesOn(c))

Spec == Init /\ [][Next]_vars /\ Fairness

-----------------------------------------------------------------------------

TypeOK ==
  /\ stopper \in BOOLEAN
  /\ mSyncExpected \in Int /\ mSyncExpected + outsideSyncs \in Nat
  /\ mFanInExpected \in Nat
  /\ mPauseExpected \in Nat /\ mPausedThreads \in Nat
  /\ mCvSync \in CondVarOf(Workers \cup Clients)
  /\ mCvPause \in CondVarOf(Workers)
  /\ mCvPaused \in CondVarOf(Clients) /\ mCvFanIn \in CondVarOf(Clients)
  /\ vecThreads \in Seq(Workers) /\ muWorkerThreads \subseteq Clients
  /\ visitors \in Programs /\ visitor \in visitors
  /\ routine \in [Workers -> visitors \cup {"none"}]
  /\ wpc \in [Workers -> WorkerAt] /\ cpc \in [Clients -> ClientAt]
  /\ toStart \in 0 .. Cardinality(Workers)

\* pause() of the pool returns when all of its threads are held, also when
\* another thread adds some meanwhile, and none is at work until resume().
QuietWhilePaused ==
  pausers # {} => \A w \in Workers : wpc[w] \notin {"check", "work"}

\* "ask and wait for all threads to stop": when stop() has returned no worker
\* whose routine looks at the flag does any more work, whatever was added
\* meanwhile or since.
StopIsFinal ==
  (stopper /\ \A c \in Clients : cpc[c] \notin InStop)
     => \A w \in Workers : routine[w] # "once" => wpc[w] # "work"

\* The places of a started thread that has not been to sync().  A "poll"
\* never goes there.
BeforeSync(r) ==
  {"top", "held", "check"} \cup
  (IF r = "once" THEN {} ELSE {"work", "done"}) \cup
  (IF r = "poll" THEN {"ended"} ELSE {})

StillToSync == {v \in Workers : wpc[v] \in BeforeSync(routine[v])}

LeavesSync(w) ==
  wpc[w] \in {"sync", "syncing"} /\ wpc'[w] \notin {"sync", "syncing"}

\* sync() of the pool: when a worker leaves it, no more of the workers that
\* were started, by the constructor or by add_thread(), are still to come
\* than clients have called sync() in their place.
SyncTogether ==
  [][\A w \in Workers :
       LeavesSync(w) => Cardinality(StillToSync) <= outsideSyncs]_vars

\* "sleep until ... all threads synced" (threading.hpp:48): a worker leaves
\* sync() only when every worker that was started has come to it.  It is so
\* only as long as no client calls sync() too.
AllSynced == [][\A w \in Workers : LeavesSync(w) => StillToSync = {}]_vars

\* pause() returns; and so do wait() and stop(), and join(), unless a client
\* has called sync() too: then the last worker, or the client, waits there for
\* ever.
Callers(what) == {c \in Clients : what \in May[c]}

PauseReturns == \A c \in Callers("pause") : cpc[c] = "pausing" ~> cpc[c] = "idle"
StopReturns ==
  \A c \in Callers("wait") \cup Callers("stop") :
    cpc[c] = "fanin" ~> (cpc[c] = "idle" \/ outsideSyncs > 0)
JoinReturns ==
  \A c \in Callers("join") : cpc[c] = "join" ~> (cpc[c] = "idle" \/ outsideSyncs > 0)

=============================================================================
