------------------------ MODULE WorkerThreadsProofs -------------------------
(***************************************************************************)
(* Proofs about WorkerThreads, for any workers, clients and calls.         *)
(*                                                                         *)
(* CountInv says what the counters count: the pause point, the fan-in      *)
(* point and the threads that are started or announced, while one client   *)
(* at a time announces any (CountersRight).  From it follow that stop() is *)
(* final (StopEndsWork), that a paused pool is quiet                       *)
(* (PausedWorkersAreQuiet), that no counter falls below 0 but by the       *)
(* sync() calls of clients (WorkerThreadsTypes), and that a worker leaves  *)
(* sync() before no more of the others than there are such calls           *)
(* (WorkersSyncTogether): none, where clients make none                    *)
(* (AllWorkersSynced).                                                     *)
(***************************************************************************)
EXTENDS WorkerThreads, Counting, TLAPS

-----------------------------------------------------------------------------
\* The counters.

\* The threads announced and not started, if who starts them is at one of
\* these points.
Announced(points) == IF \E c \in Clients : cpc[c] \in points THEN toStart ELSE 0

Adding == {c \in Clients : cpc[c] \in InAdd}
Held == {w \in Workers : wpc[w] = "held"}
Born == Workers \ Unborn

\* The points of a routine, and those that come after its done().
Points(r) ==
  IF r = "loop" THEN WorkerAt \ {"unborn"}
  ELSE IF r = "poll" THEN {"check", "work", "done", "ended"}
  ELSE IF r = "once" THEN WorkerAt \ {"unborn", "check"}
  ELSE {"unborn"}
PastDone(r) == IF r = "loop" THEN {"sync", "syncing", "ended"} ELSE {"ended"}
NotDone == {w \in Born : wpc[w] \notin PastDone(routine[w])}

Types ==
  /\ stopper \in BOOLEAN
  /\ mFanInExpected \in Nat /\ mPauseExpected \in Nat /\ mPausedThreads \in Nat
  /\ mCvSync \in CondVarOf(Workers \cup Clients)
  /\ mCvPause \in CondVarOf(Workers)
  /\ mCvPaused \in CondVarOf(Clients) /\ mCvFanIn \in CondVarOf(Clients)
  /\ vecThreads \in Seq(Workers) /\ muWorkerThreads \subseteq Clients
  /\ visitors \in Programs /\ visitor \in visitors
  /\ routine \in [Workers -> visitors \cup {"none"}]
  /\ wpc \in [Workers -> WorkerAt] /\ cpc \in [Clients -> ClientAt]
  /\ \A w \in Workers : wpc[w] \in Points(routine[w])
  /\ toStart \in Nat

HeldCounted ==
  /\ mCvPause.asleep \cap mCvPause.awake = {}
  /\ Waiting(mCvPause) = Held
  /\ mPausedThreads = Cardinality(Held)

\* One client at a time adds threads: who holds the lock, or Main in the
\* constructor.  And there are threads left for those it has announced.
OneAdds ==
  /\ \A c \in Adding : IF Constructed THEN muWorkerThreads = {c} ELSE c = Main
  /\ muWorkerThreads \subseteq Adding
  /\ ~Constructed => \A c \in Clients \ {Main} : cpc[c] = "idle"
  /\ toStart <= Cardinality(Unborn)
  /\ toStart = 0 <=> Adding = {}

\* The counters of the pause point and of the fan-in point.
Counted ==
  /\ mPauseExpected = Cardinality(Born) + Announced({"start"})
  /\ mFanInExpected = Cardinality(NotDone) + Announced({"addpause", "start"})

CountInv == Types /\ HeldCounted /\ OneAdds /\ Counted

LEMMA WorkersFinite ==
  /\ IsFiniteSet(Workers)
  /\ Held \in SUBSET Workers /\ Born \in SUBSET Workers /\ Unborn \in SUBSET Workers
  /\ NotDone \in SUBSET Workers
BY WorkerThreadsAssumption DEF Held, Born, Unborn, NotDone

\* A thread that has a routine has a known one, and is at one of its points.
LEMMA RoutineOf ==
  ASSUME Types, NEW w \in Workers, wpc[w] # "unborn"
  PROVE  routine[w] \in Routines /\ wpc[w] \in Points(routine[w])
<1>1. visitors \subseteq Routines
  BY WorkerThreadsAssumption DEF Types
<1>2. routine[w] \in visitors \cup {"none"} /\ wpc[w] \in Points(routine[w])
  BY DEF Types
<1>3. Points("none") = {"unborn"}
  BY DEF Points
<1> QED
  BY <1>1, <1>2, <1>3

\* What a step of pauseIfRequred() does: the worker stops, stays, passes or
\* goes on.
LEMMA PauseOutcomes ==
  ASSUME Types, HeldCounted, NEW w \in Workers, WorkerPause(w)
  PROVE  /\ UNCHANGED <<syncVars, fanInVars, stopper, mPause, mPauseExpected>>
         /\ UNCHANGED <<routine, clientVars>>
         /\ \/ /\ mPause /\ wpc[w] = "top" /\ WorkerGoTo(w, "held")
               /\ mPausedThreads' = mPausedThreads + 1
               /\ mCvPause' = Sleep(mCvPause, w) /\ mCvPaused' = NotifyAll(mCvPaused)
            \/ /\ mPause /\ wpc[w] = "held" /\ wpc' = wpc
               /\ w \in mCvPause.awake /\ mCvPause' = Sleep(mCvPause, w)
               /\ UNCHANGED <<mPausedThreads, mCvPaused>>
            \/ /\ ~mPause /\ wpc[w] = "top" /\ WorkerGoTo(w, AfterPause(routine[w]))
               /\ UNCHANGED <<mPausedThreads, mCvPause, mCvPaused>>
            \/ /\ ~mPause /\ wpc[w] = "held" /\ WorkerGoTo(w, AfterPause(routine[w]))
               /\ mPausedThreads' = mPausedThreads - 1
               /\ w \in mCvPause.awake /\ mCvPause' = Leave(mCvPause, w)
               /\ mCvPaused' = NotifyAll(mCvPaused)
<1>1. /\ wpc \in [Workers -> WorkerAt] /\ Waiting(mCvPause) = Held
      /\ mCvPause.asleep \cap mCvPause.awake = {}
  BY DEF Types, HeldCounted
<1>2. /\ UNCHANGED <<syncVars, fanInVars, stopper, mPause, mPauseExpected>>
      /\ UNCHANGED <<routine, clientVars>>
  BY DEF WorkerPause, OfPause, pauseIfRequred, PauseWake
<1>3. CASE wpc[w] = "top"
  <2>1. pauseIfRequred(w) /\ w \notin Waiting(mCvPause)
    BY <1>1, <1>3 DEF WorkerPause, Held
  <2>2. CASE mPause
    <3>1. mCvPause' = Sleep(mCvPause, w) /\ w \in Waiting(mCvPause')
      BY <2>1, <2>2 DEF pauseIfRequred, Sleep, Waiting
    <3> QED
      BY <1>2, <1>3, <2>1, <2>2, <3>1 DEF WorkerPause, pauseIfRequred
  <2>3. CASE ~mPause
    BY <1>2, <1>3, <2>1, <2>3 DEF WorkerPause, pauseIfRequred, Waiting
  <2> QED
    BY <2>2, <2>3
<1>4. CASE wpc[w] = "held"
  <2>1. PauseWake(w) /\ w \in mCvPause.awake
    BY <1>4 DEF WorkerPause, PauseWake
  <2>2. CASE mPause
    <3>1. mCvPause' = Sleep(mCvPause, w) /\ w \in Waiting(mCvPause')
      BY <2>1, <2>2 DEF PauseWake, Sleep, Waiting
    <3>2. wpc' = wpc
      BY <1>1, <1>4, <3>1 DEF WorkerPause, WorkerGoTo
    <3> QED
      BY <1>2, <1>4, <2>1, <2>2, <3>1, <3>2 DEF PauseWake
  <2>3. CASE ~mPause
    <3>1. mCvPause' = Leave(mCvPause, w) /\ w \notin Waiting(mCvPause')
      BY <1>1, <2>1, <2>3 DEF PauseWake, Leave, Waiting
    <3> QED
      BY <1>2, <1>4, <2>1, <2>3, <3>1 DEF WorkerPause, PauseWake
  <2> QED
    BY <2>2, <2>3
<1> QED
  BY <1>3, <1>4 DEF WorkerPause

\* What a step of sync() does: the worker is counted, and waits, or returns
\* when the counter is 0.
LEMMA SyncOutcomes ==
  ASSUME Types, NEW w \in Workers, WorkerSync(w)
  PROVE  /\ UNCHANGED <<fanInVars, pauseVars, stopper, routine, clientVars>>
         /\ mCvSync' \in CondVarOf(Workers \cup Clients)
         /\ \/ wpc[w] = "sync" /\ mSyncExpected' = mSyncExpected - 1
            \/ wpc[w] = "syncing" /\ mSyncExpected' = mSyncExpected
         /\ \/ WorkerGoTo(w, "syncing")
            \/ WorkerGoTo(w, AfterSync(routine[w])) /\ mSyncExpected' = 0
<1>1. UNCHANGED <<fanInVars, pauseVars, stopper, routine, clientVars>>
  BY DEF WorkerSync, OfSync
<1>2. /\ \/ wpc[w] = "sync" /\ mSyncExpected' = mSyncExpected - 1
         \/ wpc[w] = "syncing" /\ mSyncExpected' = mSyncExpected
      /\ \/ mCvSync' = Sleep(mCvSync, w)
         \/ mSyncExpected' = 0 /\ (mCvSync' = NotifyAll(mCvSync) \/ mCvSync' = Leave(mCvSync, w))
  BY DEF WorkerSync, sync, SyncWake
<1>3. mCvSync' \in CondVarOf(Workers \cup Clients)
  BY <1>2 DEF Types, CondVarOf, Sleep, NotifyAll, Leave
<1>4. w \in Waiting(Sleep(mCvSync, w))
  BY DEF Waiting, Sleep
<1>5. \/ WorkerGoTo(w, "syncing")
      \/ WorkerGoTo(w, AfterSync(routine[w])) /\ mSyncExpected' = 0
  BY <1>2, <1>4 DEF WorkerSync
<1> QED
  BY <1>1, <1>2, <1>3, <1>5

\* A worker that goes from one point of its routine to another, and comes to
\* or leaves neither a pause nor done().
LEMMA WorkerMoves ==
  ASSUME CountInv, NEW w \in Workers, wpc[w] # "unborn",
         NEW where \in Points(routine[w]),
         WorkerGoTo(w, where), UNCHANGED routine
  PROVE  /\ wpc' \in [Workers -> WorkerAt]
         /\ \A v \in Workers : wpc'[v] \in Points(routine'[v])
         /\ Unborn' = Unborn /\ Born' = Born
         /\ wpc[w] # "held" /\ where # "held" => Held' = Held
         /\ (wpc[w] \in PastDone(routine[w]) <=> where \in PastDone(routine[w]))
              => NotDone' = NotDone
         /\ wpc[w] \notin PastDone(routine[w]) /\ where \in PastDone(routine[w])
              => w \in NotDone /\ NotDone' = NotDone \ {w}
<1>1. /\ wpc \in [Workers -> WorkerAt] /\ wpc' = [wpc EXCEPT ![w] = where]
      /\ \A v \in Workers : wpc[v] \in Points(routine[v])
  BY DEF CountInv, Types, WorkerGoTo
<1>2. where \in WorkerAt \ {"unborn"}
  BY RoutineOf DEF CountInv, Points, WorkerAt, Routines
<1>3. wpc' \in [Workers -> WorkerAt] /\ Unborn' = Unborn /\ Born' = Born
  BY <1>1, <1>2 DEF Unborn, Born
<1>4. \A v \in Workers : wpc'[v] \in Points(routine'[v])
  BY <1>1
<1>5. wpc[w] # "held" /\ where # "held" => Held' = Held
  BY <1>1 DEF Held
<1>6. w \in Born
  BY DEF Born, Unborn
<1>7. NotDone' = {v \in Born : wpc'[v] \notin PastDone(routine[v])}
  BY <1>3 DEF NotDone
<1>8. (\A v \in Born : v # w => wpc'[v] = wpc[v]) /\ wpc'[w] = where
  BY <1>1 DEF Born
<1>9. (wpc[w] \in PastDone(routine[w]) <=> where \in PastDone(routine[w]))
        => NotDone' = NotDone
  BY <1>6, <1>7, <1>8 DEF NotDone
<1>10. wpc[w] \notin PastDone(routine[w]) /\ where \in PastDone(routine[w])
        => w \in NotDone /\ NotDone' = NotDone \ {w}
  BY <1>6, <1>7, <1>8 DEF NotDone
<1> QED
  BY <1>3, <1>4, <1>5, <1>9, <1>10

\* What a step of a worker leaves alone if it is not one of pauseIfRequred(),
\* done() or sync().
LEMMA OneAddsStays ==
  ASSUME OneAdds, UNCHANGED <<cpc, muWorkerThreads, toStart>>, Unborn' = Unborn
  PROVE  OneAdds' /\ \A points : Announced(points)' = Announced(points)
BY DEF OneAdds, Adding, Constructed, Announced

LEMMA CountInit == Init => CountInv
<1> SUFFICES ASSUME NEW n \in 1 .. Cardinality(Workers),
                    ConstructThreadControl(n),
                    vecThreads = <<>>, muWorkerThreads = {},
                    visitors \in Programs, visitor \in visitors,
                    routine = [w \in Workers |-> "none"],
                    wpc = [w \in Workers |-> "unborn"],
                    cpc = [c \in Clients |-> IF c = Main THEN "start" ELSE "idle"],
                    toStart = n
             PROVE  CountInv
  BY DEF Init
<1>1. /\ stopper = FALSE /\ mFanInExpected = n /\ mPauseExpected = n /\ mPausedThreads = 0
      /\ mCvPause = NoWaiters /\ mCvPaused = NoWaiters /\ mCvFanIn = NoWaiters
      /\ mCvSync = NoWaiters
  BY DEF ConstructThreadControl, ConstructSyncPoint, ConstructFanInPoint, ConstructPausePoint
<1>2. n \in Nat /\ n # 0 /\ Cardinality(Workers) \in Nat /\ n <= Cardinality(Workers)
  BY WorkersFinite, FS_CardinalityType
<1>3. Types
  <2>1. /\ NoWaiters \in CondVarOf(Workers) /\ NoWaiters \in CondVarOf(Clients)
        /\ NoWaiters \in CondVarOf(Workers \cup Clients)
    BY DEF NoWaiters, CondVarOf
  <2>2. /\ wpc \in [Workers -> WorkerAt] /\ cpc \in [Clients -> ClientAt]
        /\ routine \in [Workers -> visitors \cup {"none"}]
        /\ \A w \in Workers : wpc[w] \in Points(routine[w])
    BY DEF Points, WorkerAt, ClientAt, InAdd
  <2>3. muWorkerThreads \subseteq Clients /\ stopper \in BOOLEAN
    BY <1>1
  <2>5. vecThreads \in Seq(Workers)
    BY SMT
  <2>4. /\ mFanInExpected \in Nat /\ mPauseExpected \in Nat /\ mPausedThreads \in Nat
        /\ toStart \in Nat
    BY <1>1, <1>2
  <2> QED
    BY <1>1, <2>1, <2>2, <2>3, <2>4, <2>5, Zenon DEF Types
<1>4. Held = {} /\ Unborn = Workers /\ Born = {} /\ NotDone = {}
  BY DEF Held, Unborn, Born, NotDone
<1>5. Cardinality({}) = 0
  BY FS_EmptySet
<1>6. HeldCounted
  BY <1>1, <1>4, <1>5 DEF HeldCounted, NoWaiters, Waiting
<1>7. Main \in Clients /\ cpc[Main] = "start"
  BY WorkerThreadsAssumption
<1>8. Adding = {Main} /\ ~Constructed
  BY <1>7 DEF Adding, InAdd, Constructed
<1>9. OneAdds
  BY <1>2, <1>4, <1>7, <1>8 DEF OneAdds
<1>10. Counted
  BY <1>1, <1>2, <1>4, <1>5, <1>7 DEF Counted, Announced
<1> QED
  BY <1>3, <1>6, <1>9, <1>10 DEF CountInv

\* A worker's pauseIfRequred() keeps the count.
LEMMA PauseKeepsCount ==
  ASSUME CountInv, NEW w \in Workers, WorkerPause(w)
  PROVE  CountInv'
<1>0. Types /\ HeldCounted /\ OneAdds /\ Counted
  BY DEF CountInv
<1>1. /\ UNCHANGED <<syncVars, fanInVars, stopper, mPause, mPauseExpected>>
      /\ UNCHANGED <<routine, clientVars>>
  BY <1>0, PauseOutcomes
<1> USE DEF syncVars, fanInVars, clientVars, vectorVars, startVars
<1>2. wpc[w] \in WorkerAt /\ wpc \in [Workers -> WorkerAt]
  BY <1>0 DEF Types
<1>3. CASE /\ wpc[w] = "held" /\ wpc' = wpc
           /\ w \in mCvPause.awake /\ mCvPause' = Sleep(mCvPause, w)
           /\ UNCHANGED <<mPausedThreads, mCvPaused>>
  <2>1. /\ Held' = Held /\ Unborn' = Unborn /\ Born' = Born /\ NotDone' = NotDone
    BY <1>1, <1>3 DEF Held, Unborn, Born, NotDone
  <2>2. HeldCounted'
    BY <1>0, <1>3, <2>1 DEF HeldCounted, Sleep, Waiting
  <2>3. Types'
    BY <1>0, <1>1, <1>3, <2>1 DEF Types, CondVarOf, Sleep
  <2>4. OneAdds' /\ Counted'
    BY <1>0, <1>1, <2>1, OneAddsStays DEF Counted
  <2> QED
    BY <2>2, <2>3, <2>4 DEF CountInv
<1>4. CASE /\ wpc[w] \in {"top", "held"}
           /\ WorkerGoTo(w, "held") \/ WorkerGoTo(w, AfterPause(routine[w]))
           /\ HeldCounted' /\ mCvPause' \in CondVarOf(Workers)
           /\ mCvPaused' \in CondVarOf(Clients) /\ mPausedThreads' \in Nat
  <2>1. PICK where \in {"held", AfterPause(routine[w])} : WorkerGoTo(w, where)
    BY <1>4
  <2>2. routine[w] \in Routines /\ wpc[w] \in Points(routine[w])
    BY <1>0, <1>4, RoutineOf
  <2>3. /\ where \in Points(routine[w]) /\ where \notin PastDone(routine[w])
        /\ wpc[w] \notin PastDone(routine[w])
    BY <1>4, <2>1, <2>2 DEF AfterPause, Points, PastDone, WorkerAt, Routines
  <2>4. /\ wpc' \in [Workers -> WorkerAt] /\ \A v \in Workers : wpc'[v] \in Points(routine'[v])
        /\ Unborn' = Unborn /\ Born' = Born /\ NotDone' = NotDone
    BY <1>1, <1>4, <2>1, <2>3, WorkerMoves
  <2>5. Types'
    BY <1>0, <1>1, <1>4, <2>4 DEF Types
  <2>6. OneAdds' /\ Counted'
    BY <1>0, <1>1, <2>4, OneAddsStays DEF Counted
  <2> QED
    BY <1>4, <2>5, <2>6 DEF CountInv
<1>5. CASE /\ wpc[w] = "top" /\ WorkerGoTo(w, "held")
           /\ mPausedThreads' = mPausedThreads + 1
           /\ mCvPause' = Sleep(mCvPause, w) /\ mCvPaused' = NotifyAll(mCvPaused)
  <2>1. Held' = Held \cup {w} /\ w \notin Held
    BY <1>2, <1>5 DEF Held, WorkerGoTo
  <2>2. Cardinality(Held') = Cardinality(Held) + 1
    BY <2>1, WorkersFinite, CountOfPart
  <2>3. Waiting(mCvPause') = Waiting(mCvPause) \cup {w} /\ mCvPause'.asleep \cap mCvPause'.awake = {}
    BY <1>0, <1>5 DEF Sleep, Waiting, HeldCounted
  <2>4. HeldCounted'
    BY <1>0, <1>5, <2>1, <2>2, <2>3 DEF HeldCounted
  <2>5. /\ mCvPause' \in CondVarOf(Workers) /\ mCvPaused' \in CondVarOf(Clients)
        /\ mPausedThreads' \in Nat
    BY <1>0, <1>5 DEF Types, CondVarOf, Sleep, NotifyAll
  <2> QED
    BY <1>4, <1>5, <2>4, <2>5
<1>6. CASE /\ wpc[w] = "top" /\ WorkerGoTo(w, AfterPause(routine[w]))
           /\ UNCHANGED <<mPausedThreads, mCvPause, mCvPaused>>
  <2>1. Held' = Held
    BY <1>2, <1>6 DEF Held, WorkerGoTo, AfterPause
  <2> QED
    BY <1>0, <1>4, <1>6, <2>1 DEF HeldCounted, Types, Waiting
<1>7. CASE /\ wpc[w] = "held" /\ WorkerGoTo(w, AfterPause(routine[w]))
           /\ mPausedThreads' = mPausedThreads - 1
           /\ w \in mCvPause.awake /\ mCvPause' = Leave(mCvPause, w)
           /\ mCvPaused' = NotifyAll(mCvPaused)
  <2>1. Held' = Held \ {w} /\ w \in Held
    BY <1>2, <1>7 DEF Held, WorkerGoTo, AfterPause
  <2>2. Cardinality(Held') = Cardinality(Held) - 1 /\ Cardinality(Held') \in Nat
    BY <2>1, WorkersFinite, CountOfPart
  <2>3. Waiting(mCvPause') = Waiting(mCvPause) \ {w} /\ mCvPause'.asleep \cap mCvPause'.awake = {}
    BY <1>0, <1>7 DEF Leave, Waiting, HeldCounted
  <2>4. HeldCounted'
    BY <1>0, <1>7, <2>1, <2>2, <2>3 DEF HeldCounted
  <2>5. /\ mCvPause' \in CondVarOf(Workers) /\ mCvPaused' \in CondVarOf(Clients)
        /\ mPausedThreads' \in Nat
    BY <1>0, <1>7, <2>2, <2>4 DEF HeldCounted, Types, CondVarOf, Leave, NotifyAll
  <2> QED
    BY <1>4, <1>7, <2>4, <2>5
<1> QED
  BY <1>0, <1>3, <1>5, <1>6, <1>7, PauseOutcomes

\* Every other step of a worker does.
LEMMA WorkerKeepsCount ==
  ASSUME CountInv, NEW w \in Workers, WorkerStep(w)
  PROVE  CountInv'
<1>0. Types /\ HeldCounted /\ OneAdds /\ Counted
  BY DEF CountInv
<1>1. wpc[w] # "unborn" => routine[w] \in Routines /\ wpc[w] \in Points(routine[w])
  BY <1>0, RoutineOf
<1> USE DEF tcVars, syncVars, fanInVars, pauseVars, clientVars, vectorVars, startVars
<1>2. ASSUME NEW where \in Points(routine[w]) \ {"held"}, wpc[w] \notin {"unborn", "held"},
             WorkerGoTo(w, where),
             wpc[w] \in PastDone(routine[w]) <=> where \in PastDone(routine[w]),
             UNCHANGED <<fanInVars, pauseVars, stopper, routine, clientVars>>,
             mCvSync' \in CondVarOf(Workers \cup Clients)
      PROVE  CountInv'
  <2>1. /\ wpc' \in [Workers -> WorkerAt] /\ \A v \in Workers : wpc'[v] \in Points(routine'[v])
        /\ Unborn' = Unborn /\ Born' = Born /\ Held' = Held /\ NotDone' = NotDone
    BY <1>2, WorkerMoves
  <2>2. Types' /\ HeldCounted'
    BY <1>0, <1>2, <2>1 DEF Types, HeldCounted, Waiting
  <2>3. OneAdds' /\ Counted'
    BY <1>0, <1>2, <2>1, OneAddsStays DEF Counted
  <2> QED
    BY <2>2, <2>3 DEF CountInv
<1>3. CASE WorkerPause(w)
  BY <1>3, PauseKeepsCount
<1>4. CASE WorkerCheckStop(w)
  <2>1. wpc[w] = "check" /\ \E where \in {"done", "work"} : WorkerGoTo(w, where)
    BY <1>4 DEF WorkerCheckStop
  <2>2. UNCHANGED <<fanInVars, pauseVars, stopper, routine, clientVars>>
        /\ mCvSync' \in CondVarOf(Workers \cup Clients)
    BY <1>0, <1>4 DEF WorkerCheckStop, Types
  <2> QED
    BY <1>1, <1>2, <2>1, <2>2 DEF Points, PastDone, WorkerAt, Routines
<1>5. CASE WorkerWorks(w)
  <2>1. wpc[w] = "work" /\ WorkerGoTo(w, AfterWork(routine[w]))
    BY <1>5 DEF WorkerWorks
  <2>2. UNCHANGED <<fanInVars, pauseVars, stopper, routine, clientVars>>
        /\ mCvSync' \in CondVarOf(Workers \cup Clients)
    BY <1>0, <1>5 DEF WorkerWorks, Types
  <2>3. /\ AfterWork(routine[w]) \in Points(routine[w]) \ {"held"}
        /\ AfterWork(routine[w]) \notin PastDone(routine[w])
    BY <1>1, <2>1 DEF AfterWork, Begin, Points, PastDone, WorkerAt, Routines
  <2>4. wpc[w] \notin PastDone(routine[w])
    BY <2>1 DEF PastDone
  <2> QED
    BY <1>2, <2>1, <2>2, <2>3, <2>4
<1>6. CASE WorkerDone(w)
  <2>1. /\ wpc[w] = "done" /\ WorkerGoTo(w, AfterDone(routine[w]))
        /\ UNCHANGED <<syncVars, pauseVars, stopper, routine, clientVars>>
        /\ mFanInExpected' = mFanInExpected - 1 /\ mCvFanIn' = NotifyAll(mCvFanIn)
    BY <1>6 DEF WorkerDone, done, OfFanIn
  <2>2. /\ AfterDone(routine[w]) \in Points(routine[w]) \ {"held"}
        /\ AfterDone(routine[w]) \in PastDone(routine[w]) /\ wpc[w] \notin PastDone(routine[w])
    BY <1>1, <2>1 DEF AfterDone, Points, PastDone, WorkerAt, Routines
  <2>3. /\ wpc' \in [Workers -> WorkerAt] /\ \A v \in Workers : wpc'[v] \in Points(routine'[v])
        /\ Unborn' = Unborn /\ Born' = Born
        /\ Held' = Held /\ w \in NotDone /\ NotDone' = NotDone \ {w}
    BY <2>1, <2>2, WorkerMoves
  <2>4. Cardinality(NotDone') = Cardinality(NotDone) - 1 /\ Cardinality(NotDone') \in Nat
    BY <2>3, WorkersFinite, CountOfPart
  <2>5. OneAdds' /\ \A points : Announced(points)' = Announced(points)
    BY <1>0, <2>1, <2>3, OneAddsStays
  <2>6. Announced({"addpause", "start"}) \in Nat
    BY <1>0 DEF Announced, Types
  <2>7. /\ mFanInExpected' \in Nat
        /\ mFanInExpected' = Cardinality(NotDone') + Announced({"addpause", "start"})'
    BY <1>0, <2>1, <2>4, <2>5, <2>6, WorkersFinite, CountOfPart DEF Counted
  <2>8. Counted'
    BY <1>0, <2>1, <2>3, <2>5, <2>7 DEF Counted
  <2>9. mCvFanIn' \in CondVarOf(Clients)
    BY <1>0, <2>1 DEF Types, CondVarOf, NotifyAll
  <2>10. Types' /\ HeldCounted'
    BY <1>0, <2>1, <2>3, <2>7, <2>9 DEF Types, HeldCounted, Waiting
  <2> QED
    BY <2>5, <2>8, <2>10 DEF CountInv
<1>7. CASE WorkerSync(w)
  <2>1. /\ UNCHANGED <<fanInVars, pauseVars, stopper, routine, clientVars>>
        /\ mCvSync' \in CondVarOf(Workers \cup Clients)
        /\ wpc[w] \in {"sync", "syncing"}
        /\ \E where \in {"syncing", AfterSync(routine[w])} : WorkerGoTo(w, where)
    BY <1>0, <1>7, SyncOutcomes
  <2>2. \/ routine[w] = "loop" /\ wpc[w] \in PastDone(routine[w])
        \/ routine[w] = "once" /\ wpc[w] \notin PastDone(routine[w])
    BY <1>1, <2>1 DEF PastDone, Points, Routines
  <2>3. \A where \in {"syncing", AfterSync(routine[w])} :
          /\ where \in Points(routine[w]) \ {"held"}
          /\ where \in PastDone(routine[w]) <=> wpc[w] \in PastDone(routine[w])
    BY <2>2 DEF PastDone, Points, AfterSync, WorkerAt
  <2> QED
    BY <1>2, <2>1, <2>3
<1> QED
  BY <1>3, <1>4, <1>5, <1>6, <1>7 DEF WorkerStep

\* What is announced, by the one client that adds threads.
LEMMA OneAnnounces ==
  ASSUME OneAdds, NEW c \in Adding, NEW points \in SUBSET InAdd
  PROVE  Adding = {c} /\ Announced(points) = IF cpc[c] \in points THEN toStart ELSE 0
<1>1. Adding = {c}
  BY DEF OneAdds
<1>2. \A d \in Clients : cpc[d] \in points => d = c
  BY <1>1 DEF Adding
<1> QED
  BY <1>1, <1>2 DEF Announced, Adding

LEMMA NobodyAnnounces ==
  ASSUME Adding = {}, NEW points \in SUBSET InAdd
  PROVE  Announced(points) = 0
BY DEF Adding, Announced

LEMMA PointsOfAdding == {"start"} \in SUBSET InAdd /\ {"addpause", "start"} \in SUBSET InAdd
BY DEF InAdd

\* A client that is in another call, or in none, adds no threads.
LEMMA ElsewhereAdds ==
  ASSUME CountInv, NEW c \in Clients, NEW where \in ClientAt \ InAdd,
         cpc[c] \notin InAdd, Constructed, GoTo(c, where),
         UNCHANGED <<wpc, muWorkerThreads, toStart>>
  PROVE  /\ OneAdds'
         /\ \A points \in SUBSET InAdd : Announced(points)' = Announced(points)
<1>1. cpc \in [Clients -> ClientAt] /\ Main \in Clients
  BY WorkerThreadsAssumption DEF CountInv, Types
<1>2. \A d \in Clients : cpc'[d] \in InAdd \/ cpc[d] \in InAdd => cpc'[d] = cpc[d]
  BY <1>1 DEF GoTo
<1>3. Adding' = Adding
  BY <1>2 DEF Adding
<1>4. Constructed'
  BY <1>1, <1>2 DEF Constructed, InAdd
<1>5. Unborn' = Unborn
  BY DEF Unborn
<1>6. OneAdds'
  BY <1>3, <1>4, <1>5 DEF CountInv, OneAdds
<1>7. ASSUME NEW points \in SUBSET InAdd
      PROVE  Announced(points)' = Announced(points)
  BY <1>2 DEF Announced
<1> QED
  BY <1>6, <1>7

\* In the constructor nobody but Main is in a call, and Main in no other.
LEMMA InCallConstructed ==
  ASSUME OneAdds, NEW c \in Clients, cpc[c] \notin InAdd \cup {"idle"}
  PROVE  Constructed
BY DEF OneAdds, Constructed, InAdd

\* A client goes into add_thread().
LEMMA AddKeepsCount ==
  ASSUME CountInv, NEW c \in Clients, AddThread(c)
  PROVE  CountInv'
<1>0. Types /\ HeldCounted /\ OneAdds /\ Counted
  BY DEF CountInv
<1>1. /\ Constructed /\ cpc[c] = "idle" /\ muWorkerThreads = {} /\ muWorkerThreads' = {c}
      /\ toStart' \in 1 .. Cardinality(Unborn) /\ cpc' = [cpc EXCEPT ![c] = "addsync"]
      /\ visitor' \in visitors /\ UNCHANGED <<tcVars, workerVars, vecThreads, visitors>>
  BY DEF AddThread, Calls, VectorFree, GoTo
<1>2. cpc \in [Clients -> ClientAt] /\ Cardinality(Unborn) \in Nat
  BY <1>0, WorkersFinite, CountOfPart DEF Types
<1>3. Adding = {} /\ Adding' = {c}
  <2>1. Adding = {}
    BY <1>0, <1>1 DEF OneAdds
  <2> QED
    BY <1>1, <1>2, <2>1 DEF Adding, InAdd
<1>4. Constructed'
  BY <1>1, <1>2 DEF Constructed
<1>5. Unborn' = Unborn /\ Held' = Held /\ Born' = Born /\ NotDone' = NotDone
  BY <1>1 DEF workerVars, Unborn, Held, Born, NotDone
<1>6. OneAdds'
  BY <1>1, <1>2, <1>3, <1>4, <1>5 DEF OneAdds
<1>7. Types'
  BY <1>0, <1>1, <1>2
  DEF Types, tcVars, syncVars, fanInVars, pauseVars, workerVars, ClientAt, InAdd
<1>8. HeldCounted'
  BY <1>0, <1>1, <1>5 DEF HeldCounted, Waiting, tcVars, pauseVars
<1>9. /\ Announced({"start"}) = 0 /\ Announced({"addpause", "start"}) = 0
      /\ Announced({"start"})' = 0 /\ Announced({"addpause", "start"})' = 0
  <2>1. \A d \in Clients : cpc'[d] \notin {"start", "addpause"}
    BY <1>1, <1>2, <1>3 DEF Adding, InAdd
  <2> QED
    BY <1>3, <2>1, NobodyAnnounces, PointsOfAdding DEF Announced
<1>10. Counted'
  BY <1>0, <1>1, <1>5, <1>9 DEF Counted, tcVars, fanInVars, pauseVars
<1> QED
  BY <1>6, <1>7, <1>8, <1>10 DEF CountInv

\* It announces its threads to one base class after the other.
LEMMA CountKeepsCount ==
  ASSUME CountInv, NEW c \in Clients, CountThreads(c)
  PROVE  CountInv'
<1>0. Types /\ HeldCounted /\ OneAdds /\ Counted
  BY DEF CountInv
<1>1. PICK where \in {"addfanin", "addpause", "start"} :
        /\ cpc[c] = (CASE where = "addfanin" -> "addsync" [] where = "addpause" -> "addfanin"
                       [] where = "start" -> "addpause")
        /\ cpc' = [cpc EXCEPT ![c] = where]
        /\ mFanInExpected' = mFanInExpected + (IF where = "addpause" THEN toStart ELSE 0)
        /\ mPauseExpected' = mPauseExpected + (IF where = "start" THEN toStart ELSE 0)
  <2>1. mFanInExpected + 0 = mFanInExpected /\ mPauseExpected + 0 = mPauseExpected
    BY <1>0 DEF Types
  <2> QED
    BY <2>1 DEF CountThreads, AddToSync, AddToFanIn, AddToPause, fanin_add_thread, pause_add_thread,
         OfSync, OfFanIn, OfPause, syncVars, fanInVars, pauseVars, GoTo
<1>2. /\ UNCHANGED <<workerVars, vectorVars, visitors, visitor, toStart, stopper, mPausedThreads,
                     mCvSync, mCvFanIn, mCvPause, mCvPaused>>
  BY DEF startVars, CountThreads, AddToSync, AddToFanIn, AddToPause, sync_add_thread, fanin_add_thread,
         pause_add_thread, OfSync, OfFanIn, OfPause, syncVars, fanInVars, pauseVars
<1>3. cpc \in [Clients -> ClientAt] /\ c \in Adding /\ toStart \in Nat
  BY <1>0, <1>1 DEF Types, Adding, InAdd
<1>4. Adding' = Adding /\ Constructed' = Constructed
  <2>1. \A d \in Clients : cpc'[d] \in InAdd <=> cpc[d] \in InAdd
    BY <1>1, <1>3 DEF Adding, InAdd
  <2>2. Adding' = Adding
    BY <2>1 DEF Adding
  <2>3. muWorkerThreads' = muWorkerThreads /\ Main \in Clients
    BY <1>2, WorkerThreadsAssumption DEF vectorVars
  <2>4. Constructed
    BY <1>0, <1>1, <1>3 DEF OneAdds, Constructed
  <2>5. Constructed'
    BY <1>0, <1>1, <1>3, <2>3, <2>4 DEF OneAdds, Constructed
  <2> QED
    BY <2>2, <2>4, <2>5
<1>5. Unborn' = Unborn /\ Held' = Held /\ Born' = Born /\ NotDone' = NotDone
  BY <1>2 DEF workerVars, Unborn, Held, Born, NotDone
<1>6. \A d \in Clients : cpc[d] = "idle" => cpc'[d] = "idle"
  BY <1>1, <1>3
<1>7. OneAdds'
  BY <1>0, <1>2, <1>4, <1>5, <1>6 DEF OneAdds, vectorVars
<1>8. Types'
  <2>1. mFanInExpected' \in Nat /\ mPauseExpected' \in Nat
    BY <1>0, <1>1, <1>3 DEF Types
  <2> QED
    BY <1>0, <1>1, <1>2, <2>1 DEF Types, workerVars, vectorVars, ClientAt, InAdd
<1>9. HeldCounted'
  BY <1>0, <1>2, <1>5 DEF HeldCounted, Waiting
<1>10. /\ Announced({"start"}) = 0
       /\ Announced({"start"})' = (IF where = "start" THEN toStart ELSE 0)
       /\ Announced({"addpause", "start"}) = (IF where = "start" THEN toStart ELSE 0)
       /\ Announced({"addpause", "start"})' = (IF where # "addfanin" THEN toStart ELSE 0)
  <2>1. /\ Announced({"start"}) = IF cpc[c] \in {"start"} THEN toStart ELSE 0
        /\ Announced({"addpause", "start"}) = IF cpc[c] \in {"addpause", "start"} THEN toStart ELSE 0
    BY <1>0, <1>3, OneAnnounces, PointsOfAdding
  <2>2. \A d \in Clients : cpc'[d] \in {"addpause", "start"} => d = c
    BY <1>1, <1>3, <1>0, OneAnnounces, PointsOfAdding DEF Adding, InAdd
  <2>3. cpc'[c] = where
    BY <1>1, <1>3
  <2>4. /\ Announced({"start"})' = (IF where = "start" THEN toStart ELSE 0)
        /\ Announced({"addpause", "start"})' = (IF where # "addfanin" THEN toStart ELSE 0)
    BY <1>2, <2>2, <2>3 DEF Announced
  <2> QED
    BY <1>1, <2>1, <2>4
<1>11. Counted'
  <2>1. /\ Cardinality(Born) \in Nat /\ Cardinality(NotDone) \in Nat
        /\ mPauseExpected = Cardinality(Born) + Announced({"start"})
        /\ mFanInExpected = Cardinality(NotDone) + Announced({"addpause", "start"})
    BY <1>0, WorkersFinite, CountOfPart DEF Counted
  <2>2. /\ mPauseExpected' = Cardinality(Born) + Announced({"start"})'
        /\ mFanInExpected' = Cardinality(NotDone) + Announced({"addpause", "start"})'
    BY <1>1, <1>3, <1>10, <2>1
  <2> QED
    BY <1>5, <2>2 DEF Counted
<1> QED
  BY <1>7, <1>8, <1>9, <1>11 DEF CountInv

\* It starts a thread.
LEMMA StartKeepsCount ==
  ASSUME CountInv, NEW c \in Clients, NEW w \in Workers, StartThread(c, w)
  PROVE  CountInv'
<1>0. Types /\ HeldCounted /\ OneAdds /\ Counted
  BY DEF CountInv
<1>1. /\ cpc[c] = "start" /\ wpc[w] = "unborn"
      /\ vecThreads' = Append(vecThreads, w) /\ wpc' = [wpc EXCEPT ![w] = Begin(visitor)]
      /\ routine' = [routine EXCEPT ![w] = visitor]
      /\ toStart' = toStart - 1
      /\ IF toStart' = 0
         THEN cpc' = [cpc EXCEPT ![c] = "idle"] /\ muWorkerThreads' = muWorkerThreads \ {c}
         ELSE UNCHANGED <<cpc, muWorkerThreads>>
      /\ UNCHANGED <<tcVars, visitors, visitor>>
  BY DEF StartThread, GoTo, WorkerGoTo, Unborn
<1>2. /\ cpc \in [Clients -> ClientAt] /\ wpc \in [Workers -> WorkerAt] /\ c \in Adding
      /\ Adding = {c} /\ toStart \in Nat \ {0}
      /\ Announced({"start"}) = toStart /\ Announced({"addpause", "start"}) = toStart
  <2>1. c \in Adding
    BY <1>1 DEF Adding, InAdd
  <2>2. Adding = {c} /\ toStart \in Nat \ {0}
    BY <1>0, <2>1, OneAnnounces, PointsOfAdding DEF OneAdds, Types
  <2> QED
    BY <1>0, <1>1, <2>1, <2>2, OneAnnounces, PointsOfAdding DEF Types
<1>3. /\ visitor \in visitors /\ Begin(visitor) \in Points(visitor) /\ Begin(visitor) \in WorkerAt
      /\ Begin(visitor) \notin {"unborn", "held"} /\ Begin(visitor) \notin PastDone(visitor)
  <2>1. visitor \in visitors /\ visitor \in Routines
    BY <1>0, WorkerThreadsAssumption DEF Types
  <2> QED
    BY <2>1 DEF Begin, Points, PastDone, WorkerAt, Routines
<1>4. /\ routine \in [Workers -> visitors \cup {"none"}]
      /\ routine' \in [Workers -> visitors \cup {"none"}] /\ routine'[w] = visitor
      /\ \A v \in Workers \ {w} : routine'[v] = routine[v]
  BY <1>0, <1>1, <1>3 DEF Types
<1>5. /\ w \in Unborn /\ Unborn' = Unborn \ {w} /\ w \notin Born /\ Born' = Born \cup {w}
      /\ Held' = Held /\ w \notin NotDone /\ NotDone' = NotDone \cup {w}
  <2>1. /\ w \in Unborn /\ Unborn' = Unborn \ {w} /\ w \notin Born /\ Born' = Born \cup {w}
        /\ Held' = Held
    BY <1>1, <1>2, <1>3 DEF Unborn, Born, Held
  <2>2. \A v \in Born : wpc'[v] = wpc[v] /\ routine'[v] = routine[v]
    BY <1>1, <1>2, <1>4, <2>1 DEF Born
  <2>3. wpc'[w] = Begin(visitor) /\ routine'[w] = visitor
    BY <1>1, <1>2, <1>4
  <2>4. NotDone' = NotDone \cup {w}
    BY <1>3, <2>1, <2>2, <2>3 DEF NotDone
  <2> QED
    BY <2>1, <2>4 DEF NotDone
<1>6. /\ Cardinality(Unborn') = Cardinality(Unborn) - 1 /\ Cardinality(Unborn) \in Nat
      /\ Cardinality(Born') = Cardinality(Born) + 1 /\ Cardinality(Born) \in Nat
      /\ Cardinality(NotDone') = Cardinality(NotDone) + 1 /\ Cardinality(NotDone) \in Nat
  BY <1>5, WorkersFinite, CountOfPart
<1>7. toStart' \in Nat /\ (toStart' # 0 => cpc' = cpc)
  BY <1>1, <1>2
<1>8. Adding' = IF toStart' = 0 THEN {} ELSE {c}
  <2>1. CASE toStart' = 0
    BY <1>1, <1>2, <2>1 DEF Adding, InAdd
  <2>2. CASE toStart' # 0
    BY <1>1, <1>2, <2>2 DEF Adding
  <2> QED
    BY <2>1, <2>2
<1>9. OneAdds'
  <2>1. ~Constructed => c = Main
    BY <1>0, <1>2 DEF OneAdds
  <2>2. CASE toStart' = 0
    <3>1. Constructed'
      <4>1. cpc'[c] = "idle" /\ \A d \in Clients \ {c} : cpc'[d] \notin InAdd
        BY <1>1, <1>2, <2>2 DEF Adding
      <4> QED
        BY <4>1, WorkerThreadsAssumption DEF Constructed, InAdd
    <3>2. muWorkerThreads' = {}
      BY <1>0, <1>1, <1>2, <2>2 DEF OneAdds
    <3>3. toStart' <= Cardinality(Unborn')
      BY <1>0, <1>1, <1>2, <1>6 DEF OneAdds
    <3> QED
      BY <1>8, <2>2, <3>1, <3>2, <3>3 DEF OneAdds
  <2>3. CASE toStart' # 0
    <3>1. UNCHANGED <<cpc, muWorkerThreads>> /\ Constructed' = Constructed
      BY <1>1, <2>3 DEF Constructed
    <3>2. toStart' <= Cardinality(Unborn')
      BY <1>0, <1>1, <1>2, <1>6 DEF OneAdds
    <3> QED
      BY <1>0, <1>2, <1>8, <2>3, <3>1, <3>2 DEF OneAdds
  <2> QED
    BY <2>2, <2>3
<1>10. /\ Announced({"start"})' = toStart' /\ Announced({"addpause", "start"})' = toStart'
  <2>1. CASE toStart' = 0
    BY <2>1 DEF Announced
  <2>2. CASE toStart' # 0
    BY <1>1, <2>2 DEF Announced
  <2> QED
    BY <2>1, <2>2
<1>11. Types'
  <2>1. vecThreads' \in Seq(Workers)
    BY <1>0, <1>1 DEF Types
  <2>2. cpc' \in [Clients -> ClientAt] /\ muWorkerThreads' \subseteq Clients
    BY <1>0, <1>1, <1>2 DEF Types, ClientAt
  <2>3. wpc' \in [Workers -> WorkerAt] /\ \A v \in Workers : wpc'[v] \in Points(routine'[v])
    BY <1>0, <1>1, <1>2, <1>3, <1>4 DEF Types
  <2> QED
    BY <1>0, <1>1, <1>4, <1>7, <2>1, <2>2, <2>3 DEF Types, tcVars, syncVars, fanInVars, pauseVars
<1>12. HeldCounted'
  BY <1>0, <1>1, <1>5 DEF HeldCounted, Waiting, tcVars, pauseVars
<1>13. Counted'
  <2>1. mPauseExpected' = mPauseExpected /\ mFanInExpected' = mFanInExpected /\ toStart' = toStart - 1
    BY <1>1 DEF tcVars, fanInVars, pauseVars
  <2>2. mPauseExpected = Cardinality(Born) + toStart /\ mFanInExpected = Cardinality(NotDone) + toStart
    BY <1>0, <1>2 DEF Counted
  <2>3. /\ mPauseExpected' = Cardinality(Born') + toStart'
        /\ mFanInExpected' = Cardinality(NotDone') + toStart'
    BY <1>2, <1>6, <2>1, <2>2
  <2> QED
    BY <1>10, <2>3 DEF Counted
<1> QED
  BY <1>9, <1>11, <1>12, <1>13 DEF CountInv

\* The calls of a client other than add_thread(), begun or gone on with: what
\* such a step does as far as the counters go.
Elsewhere(c) ==
  \/ PauseCall(c) /\ PauseReturn(c)
  \/ ResumeCall(c) /\ ResumeReturn(c)
  \/ PauseGoesOn(c) \/ SyncCall(c) \/ SyncGoesOn(c)
  \/ WaitCall(c) \/ StopCall(c) \/ JoinCall(c)
  \/ StopFlag(c) \/ FanInWait(c) \/ JoinAll(c) \/ JoinClear(c)

LEMMA ElsewhereKeepsCount ==
  ASSUME CountInv, NEW c \in Clients, Elsewhere(c)
  PROVE  /\ CountInv'
         /\ \A points \in SUBSET InAdd : Announced(points)' = Announced(points)
<1>0. Types /\ HeldCounted /\ OneAdds /\ Counted
  BY DEF CountInv
<1> USE DEF tcVars, syncVars, fanInVars, pauseVars, workerVars, vectorVars, startVars
<1>1. UNCHANGED <<workerVars, muWorkerThreads, startVars, mFanInExpected, mPauseExpected, mPausedThreads>>
  BY DEF Elsewhere, PauseCall, pause, PauseReturn, ResumeCall, resume, ResumeReturn, PauseGoesOn,
         CallerWake, SyncCall, SyncGoesOn, SyncReturn, WaitCall, StopCall, StopFlag, SetStopper,
         FanInWait, wait, FanInWake, JoinCall, JoinAll, JoinClear, OfSync, OfFanIn, OfPause
<1>2. \E where \in ClientAt \ InAdd : GoTo(c, where)
  <2>1. \E where \in {"idle", "pausing", "resuming", "syncing", "setstop", "fanin", "faninwait",
                      "join", "clear"} : GoTo(c, where)
    BY DEF Elsewhere, PauseReturn, ResumeReturn, PauseGoesOn, SyncCall, SyncGoesOn, SyncReturn,
           WaitCall, StopCall, StopFlag, FanInWait, JoinCall, JoinAll, JoinClear
  <2> QED
    BY <2>1 DEF ClientAt, InAdd, InStop, InJoin
<1>3. cpc[c] \notin InAdd /\ Constructed
  <2>1. (cpc[c] = "idle" /\ Constructed) \/ cpc[c] \notin InAdd \cup {"idle"}
    BY DEF Elsewhere, PauseCall, ResumeCall, PauseGoesOn, SyncCall, SyncGoesOn, WaitCall, StopCall,
           StopFlag, FanInWait, JoinCall, JoinAll, JoinClear, Calls, InAdd
  <2> QED
    BY <1>0, <2>1, InCallConstructed DEF InAdd
<1>4. OneAdds' /\ \A points \in SUBSET InAdd : Announced(points)' = Announced(points)
  BY <1>1, <1>2, <1>3, ElsewhereAdds
<1>5. Unborn' = Unborn /\ Held' = Held /\ Born' = Born /\ NotDone' = NotDone
  BY <1>1 DEF Unborn, Held, Born, NotDone
<1>6. Counted'
  BY <1>0, <1>1, <1>4, <1>5, PointsOfAdding DEF Counted
<1>7. mCvPause' \in {mCvPause, NotifyAll(mCvPause)}
  BY DEF Elsewhere, PauseCall, pause, PauseReturn, ResumeCall, resume, ResumeReturn, PauseGoesOn,
         CallerWake, SyncCall, SyncGoesOn, SyncReturn, WaitCall, StopCall, StopFlag, SetStopper,
         FanInWait, JoinCall, JoinAll, JoinClear, OfSync, OfFanIn, OfPause
<1>8. HeldCounted' /\ mCvPause' \in CondVarOf(Workers)
  BY <1>0, <1>1, <1>5, <1>7 DEF HeldCounted, Types, CondVarOf, NotifyAll, Waiting
<1>9. mCvPaused' \in {mCvPaused, Sleep(mCvPaused, c), Leave(mCvPaused, c)}
  BY DEF Elsewhere, PauseCall, pause, PauseReturn, ResumeCall, resume, ResumeReturn, PauseGoesOn,
         CallerWake, SyncCall, SyncGoesOn, SyncReturn, WaitCall, StopCall, StopFlag, SetStopper,
         FanInWait, JoinCall, JoinAll, JoinClear, OfSync, OfFanIn, OfPause
<1>10. mCvFanIn' \in {mCvFanIn, Sleep(mCvFanIn, c), Leave(mCvFanIn, c)}
  BY DEF Elsewhere, PauseCall, pause, PauseReturn, ResumeCall, resume, ResumeReturn, PauseGoesOn,
         CallerWake, SyncCall, SyncGoesOn, SyncReturn, WaitCall, StopCall, StopFlag, SetStopper,
         FanInWait, wait, FanInWake, JoinCall, JoinAll, JoinClear, OfSync, OfFanIn, OfPause
<1>11. mCvSync' \in {mCvSync, NotifyAll(mCvSync), Sleep(mCvSync, c), Leave(mCvSync, c)}
  BY DEF Elsewhere, PauseCall, pause, PauseReturn, ResumeCall, resume, ResumeReturn, PauseGoesOn,
         CallerWake, SyncCall, sync, SyncGoesOn, SyncWake, SyncReturn, WaitCall, StopCall, StopFlag,
         SetStopper, FanInWait, JoinCall, JoinAll, JoinClear, OfSync, OfFanIn, OfPause
<1>12. /\ mCvPaused' \in CondVarOf(Clients) /\ mCvFanIn' \in CondVarOf(Clients)
       /\ mCvSync' \in CondVarOf(Workers \cup Clients)
  BY <1>0, <1>9, <1>10, <1>11 DEF Types, CondVarOf, Sleep, NotifyAll, Leave
<1>13. (stopper' = stopper \/ stopper' = TRUE) /\ (vecThreads' = vecThreads \/ vecThreads' = <<>>)
  BY DEF Elsewhere, PauseCall, PauseReturn, ResumeCall, ResumeReturn, PauseGoesOn, SyncCall,
         SyncGoesOn, SyncReturn, WaitCall, StopCall, StopFlag, SetStopper, FanInWait, JoinCall,
         JoinAll, JoinClear, OfSync, OfFanIn, OfPause
<1>14. stopper' \in BOOLEAN /\ vecThreads' \in Seq(Workers)
  <2>1. stopper' \in BOOLEAN
    BY <1>0, <1>13 DEF Types
  <2>2. <<>> \in Seq(Workers)
    OBVIOUS
  <2> QED
    BY <1>0, <1>13, <2>1, <2>2, Zenon DEF Types
<1>15. cpc' \in [Clients -> ClientAt]
  BY <1>0, <1>2 DEF Types, GoTo
<1>16. Types'
  BY <1>0, <1>1, <1>8, <1>12, <1>14, <1>15 DEF Types
<1> QED
  BY <1>4, <1>6, <1>8, <1>16 DEF CountInv

\* A spurious wakeup changes nothing but who is awake.
LEMMA SpuriousKeepsCount ==
  ASSUME CountInv, NEW t, Spurious(t)
  PROVE  /\ CountInv'
         /\ UNCHANGED <<stopper, mPause, mSyncExpected, mFanInExpected, mPauseExpected>>
         /\ UNCHANGED <<workerVars, clientVars>>
<1>0. Types /\ HeldCounted /\ OneAdds /\ Counted
  BY DEF CountInv
<1> USE DEF syncVars, fanInVars, pauseVars, clientVars, vectorVars, workerVars, startVars,
            OfSync, OfFanIn, OfPause, Rouse, CondVarOf
<1>1. /\ UNCHANGED <<stopper, mPause, mPausedThreads, mPauseExpected, mFanInExpected, mSyncExpected>>
      /\ UNCHANGED <<workerVars, clientVars>>
  BY DEF Spurious, PauseSpurious, CallerSpurious, FanInSpurious, SyncSpurious
<1>2. /\ mCvPause' \in CondVarOf(Workers) /\ mCvPaused' \in CondVarOf(Clients)
      /\ mCvFanIn' \in CondVarOf(Clients) /\ mCvSync' \in CondVarOf(Workers \cup Clients)
  BY <1>0 DEF Spurious, PauseSpurious, CallerSpurious, FanInSpurious, SyncSpurious, Types
<1>3. Types'
  BY <1>0, <1>1, <1>2 DEF Types
<1>4. /\ Waiting(mCvPause') = Waiting(mCvPause)
      /\ mCvPause'.asleep \cap mCvPause'.awake = {}
  BY <1>0 DEF Spurious, PauseSpurious, CallerSpurious, FanInSpurious, SyncSpurious, Waiting,
              HeldCounted
<1>5. Unborn' = Unborn /\ Held' = Held /\ Born' = Born /\ NotDone' = NotDone
  BY <1>1 DEF Unborn, Held, Born, NotDone
<1>6. HeldCounted'
  BY <1>0, <1>1, <1>4, <1>5 DEF HeldCounted
<1>7. OneAdds' /\ Counted'
  BY <1>0, <1>1, <1>5, OneAddsStays DEF Counted
<1> QED
  BY <1>1, <1>3, <1>6, <1>7 DEF CountInv

\* The steps of the system, by what they do.
LEMMA StepsOfNext ==
  ASSUME [Next]_vars
  PROVE  \/ \E w \in Workers : WorkerStep(w)
         \/ \E c \in Clients : AddThread(c) \/ CountThreads(c) \/ Elsewhere(c)
         \/ \E c \in Clients, w \in Workers : StartThread(c, w)
         \/ \E t \in Workers \cup Clients : Spurious(t)
         \/ UNCHANGED vars
BY DEF Next, ClientCalls, ClientGoesOn, Elsewhere

LEMMA CountStep == CountInv /\ [Next]_vars => CountInv'
<1> SUFFICES ASSUME CountInv, [Next]_vars
             PROVE  CountInv'
  OBVIOUS
<1>1. CASE UNCHANGED vars
  <2>1. Unborn' = Unborn /\ Held' = Held /\ Born' = Born /\ NotDone' = NotDone
    BY <1>1 DEF vars, workerVars, Unborn, Held, Born, NotDone
  <2>2. OneAdds' /\ Counted'
    BY <1>1, <2>1, OneAddsStays
    DEF CountInv, Counted, vars, tcVars, fanInVars, pauseVars, clientVars, vectorVars, startVars
  <2> QED
    BY <1>1, <2>1, <2>2
    DEF CountInv, Types, HeldCounted, Waiting, vars, tcVars, syncVars, fanInVars, pauseVars,
        workerVars, clientVars, vectorVars, startVars
<1> QED
  BY <1>1, StepsOfNext, WorkerKeepsCount, AddKeepsCount, CountKeepsCount, StartKeepsCount,
     ElsewhereKeepsCount, SpuriousKeepsCount

\* The counters of a WorkerThreads are right in every reachable state, however
\* many threads are started and added, and whatever the clients call: the
\* pause point expects the threads that are started or announced to it, the
\* fan-in point those of them that have not called done(), and as many are
\* counted as stopped as are inside pauseIfRequred().
THEOREM CountersRight == Spec => []CountInv
BY CountInit, CountStep, PTL DEF Spec

-----------------------------------------------------------------------------
\* stop() is final.

\* No worker whose routine looks at the flag is at work.
NoneAtWork == \A w \in Workers : routine[w] # "once" => wpc[w] # "work"

\* Once the flag is set no such worker begins to work, and the wait that stop()
\* then begins ends only when all have called done().
StopInv ==
  stopper =>
    NoneAtWork \/ \E c \in Clients : cpc[c] \in {"fanin", "faninwait"}

\* A wait at the fan-in point that returns finds every worker past its work.
LEMMA WaitEndsWork ==
  ASSUME CountInv, mFanInExpected = 0
  PROVE  NoneAtWork
<1>1. Cardinality(NotDone) \in Nat /\ Announced({"addpause", "start"}) \in Nat
  BY WorkersFinite, CountOfPart DEF CountInv, Types, Announced
<1>2. NotDone = {}
  BY <1>1, WorkersFinite, CountOfPart DEF CountInv, Counted
<1> QED
  BY <1>2 DEF NoneAtWork, NotDone, Born, Unborn, PastDone

LEMMA StopStep == CountInv /\ StopInv /\ [Next]_vars => StopInv'
<1> SUFFICES ASSUME CountInv, StopInv, [Next]_vars, stopper'
             PROVE  NoneAtWork' \/ \E c \in Clients : cpc'[c] \in {"fanin", "faninwait"}
  BY DEF StopInv
<1>0. /\ wpc \in [Workers -> WorkerAt] /\ cpc \in [Clients -> ClientAt]
      /\ routine \in [Workers -> visitors \cup {"none"}]
  BY DEF CountInv, Types
<1> USE DEF tcVars, syncVars, fanInVars, pauseVars, workerVars, clientVars, vectorVars, startVars
<1>1. CASE \E w \in Workers : WorkerStep(w)
  <2> PICK w \in Workers : WorkerStep(w)
    BY <1>1
  <2>1. UNCHANGED <<routine, stopper, cpc>>
    BY DEF WorkerStep, WorkerPause, WorkerCheckStop, WorkerWorks, WorkerDone, WorkerSync, OfSync,
           OfFanIn, OfPause
  <2>2. \E where \in WorkerAt : WorkerGoTo(w, where) /\ (routine[w] # "once" => where # "work")
    <3>1. CASE WorkerPause(w)
      <4>1. WorkerGoTo(w, "held") \/ WorkerGoTo(w, AfterPause(routine[w]))
        BY <3>1 DEF WorkerPause
      <4> QED
        BY <4>1 DEF AfterPause, WorkerAt
    <3>2. CASE WorkerCheckStop(w)
      <4>1. WorkerGoTo(w, "done")
        BY <2>1, <3>2 DEF WorkerCheckStop, stopRequired
      <4> QED
        BY <4>1 DEF WorkerAt
    <3>3. CASE WorkerWorks(w)
      <4>1. WorkerGoTo(w, AfterWork(routine[w]))
        BY <3>3 DEF WorkerWorks
      <4> QED
        BY <4>1 DEF AfterWork, Begin, WorkerAt
    <3>4. CASE WorkerDone(w)
      <4>1. WorkerGoTo(w, AfterDone(routine[w]))
        BY <3>4 DEF WorkerDone
      <4> QED
        BY <4>1 DEF AfterDone, WorkerAt
    <3>5. CASE WorkerSync(w)
      <4>1. routine[w] \in {"loop", "once"}
        BY <3>5, RoutineOf DEF CountInv, WorkerSync, Points, Routines
      <4>2. WorkerGoTo(w, "syncing") \/ WorkerGoTo(w, AfterSync(routine[w]))
        BY <3>5 DEF WorkerSync
      <4> QED
        BY <4>1, <4>2 DEF AfterSync, WorkerAt
    <3> QED
      BY <3>1, <3>2, <3>3, <3>4, <3>5 DEF WorkerStep
  <2>3. NoneAtWork => NoneAtWork'
    BY <1>0, <2>1, <2>2 DEF NoneAtWork, WorkerGoTo
  <2> QED
    BY <2>1, <2>3 DEF StopInv
\* A step that takes no worker to work and no client out of a wait.
<1>2. ASSUME NoneAtWork => NoneAtWork',
             \A c \in Clients : cpc[c] \in {"fanin", "faninwait"} =>
                                  cpc'[c] \in {"fanin", "faninwait"},
             UNCHANGED stopper
      PROVE  NoneAtWork' \/ \E c \in Clients : cpc'[c] \in {"fanin", "faninwait"}
  BY <1>2 DEF StopInv
<1>3. CASE \E c \in Clients : AddThread(c) \/ CountThreads(c)
  <2>1. PICK c \in Clients :
          /\ cpc[c] \notin {"fanin", "faninwait"} /\ \E where : cpc' = [cpc EXCEPT ![c] = where]
          /\ UNCHANGED <<wpc, routine, stopper>>
    BY <1>3 DEF AddThread, Calls, CountThreads, AddToSync, AddToFanIn, AddToPause, OfSync, OfFanIn,
                OfPause, GoTo
  <2> QED
    BY <1>0, <1>2, <2>1 DEF NoneAtWork
<1>4. CASE \E c \in Clients, w \in Workers : StartThread(c, w)
  <2>1. PICK c \in Clients, w \in Workers :
          /\ cpc[c] \notin {"fanin", "faninwait"}
          /\ cpc' = cpc \/ \E where : cpc' = [cpc EXCEPT ![c] = where]
          /\ wpc' = [wpc EXCEPT ![w] = Begin(visitor)]
          /\ routine' = [routine EXCEPT ![w] = visitor] /\ UNCHANGED stopper
    BY <1>4 DEF StartThread, GoTo, WorkerGoTo
  <2>2. Begin(visitor) # "work"
    BY DEF Begin
  <2> QED
    BY <1>0, <1>2, <2>1, <2>2 DEF NoneAtWork
<1>5. CASE \E c \in Clients : FanInWait(c)
  <2> PICK c \in Clients : FanInWait(c)
    BY <1>5
  <2>1. UNCHANGED <<wpc, routine, stopper>>
    BY DEF FanInWait, OfFanIn
  <2>2. CASE c \in Waiting(mCvFanIn')
    <3>1. cpc' = [cpc EXCEPT ![c] = "faninwait"]
      BY <2>2 DEF FanInWait, GoTo
    <3> QED
      BY <1>0, <3>1
  <2>3. CASE c \notin Waiting(mCvFanIn')
    <3>1. mFanInExpected = 0
      BY <2>3 DEF FanInWait, wait, FanInWake, Sleep, Waiting
    <3> QED
      BY <2>1, <3>1, WaitEndsWork DEF NoneAtWork
  <2> QED
    BY <2>2, <2>3
<1>6. CASE \E c \in Clients : StopFlag(c)
  BY <1>0, <1>6 DEF StopFlag, GoTo
<1>7. CASE \E c \in Clients : Elsewhere(c) /\ ~FanInWait(c) /\ ~StopFlag(c)
  <2>1. PICK c \in Clients :
          /\ cpc[c] \notin {"fanin", "faninwait"} /\ \E where : cpc' = [cpc EXCEPT ![c] = where]
          /\ UNCHANGED <<wpc, routine, stopper>>
    BY <1>7
    DEF Elsewhere, PauseCall, PauseReturn, ResumeCall, ResumeReturn, PauseGoesOn, SyncCall,
        SyncGoesOn, SyncReturn, WaitCall, StopCall, JoinCall, JoinAll, JoinClear, OfSync, OfPause,
        Calls, GoTo
  <2> QED
    BY <1>0, <1>2, <2>1 DEF NoneAtWork
<1>8. CASE \E t \in Workers \cup Clients : Spurious(t)
  BY <1>2, <1>8, SpuriousKeepsCount DEF NoneAtWork
<1>9. CASE UNCHANGED vars
  BY <1>2, <1>9 DEF vars, NoneAtWork
<1> QED
  BY <1>1, <1>3, <1>4, <1>5, <1>6, <1>7, <1>8, <1>9, StepsOfNext

\* stop() is final: when every stop() has returned no worker whose routine
\* looks at the flag is at work, whoever adds threads before, meanwhile or
\* after, and whoever else waits.
THEOREM StopEndsWork == Spec => []StopIsFinal
<1>1. Init => StopInv
  BY DEF Init, ConstructThreadControl, StopInv
<1>2. StopInv => StopIsFinal
  BY DEF StopInv, StopIsFinal, NoneAtWork, InStop
<1> QED
  BY <1>1, <1>2, CountInit, CountStep, StopStep, PTL DEF Spec

-----------------------------------------------------------------------------
\* Workers leave sync() together.

NotSynced == {w \in Workers : wpc[w] \in BeforeSync(routine[w]) \cup {"sync"}}

ToSyncPoint == {"addfanin", "addpause", "start"}

\* The sync point expects the threads that are started or announced to it and
\* have not come, less one for each sync() of a client.
SyncCounted ==
  /\ mSyncExpected \in Int /\ outsideSyncs \in Nat
  /\ mSyncExpected + outsideSyncs = Cardinality(NotSynced) + Announced(ToSyncPoint)

LEMMA NotSyncedFinite ==
  NotSynced \in SUBSET Workers /\ IsFiniteSet(Workers) /\ ToSyncPoint \in SUBSET InAdd
BY WorkerThreadsAssumption DEF NotSynced, ToSyncPoint, InAdd

LEMMA SyncInit == Init => SyncCounted
<1> SUFFICES ASSUME Init PROVE SyncCounted
  OBVIOUS
<1>1. PICK n \in 1 .. Cardinality(Workers) : mSyncExpected = n /\ toStart = n
  BY DEF Init, ConstructThreadControl, ConstructSyncPoint
<1>2. n \in Nat /\ outsideSyncs = 0
  BY WorkersFinite, FS_CardinalityType DEF Init
<1>3. Main \in Clients /\ cpc[Main] = "start"
  BY WorkerThreadsAssumption DEF Init
<1>4. NotSynced = {} /\ Cardinality({}) = 0
  BY FS_EmptySet DEF Init, NotSynced, BeforeSync
<1> QED
  BY <1>1, <1>2, <1>3, <1>4 DEF SyncCounted, Announced, ToSyncPoint

\* A step of a worker: one that comes to sync() is counted there, and one that
\* leaves it finds everybody counted.
LEMMA WorkerKeepsSync ==
  ASSUME CountInv, SyncCounted, NEW w \in Workers, WorkerStep(w)
  PROVE  /\ SyncCounted'
         /\ \A v \in Workers : LeavesSync(v) => Cardinality(StillToSync) <= outsideSyncs
<1>0. wpc \in [Workers -> WorkerAt] /\ toStart \in Nat /\ Types /\ HeldCounted
  BY DEF CountInv, Types
<1> USE DEF tcVars, syncVars, fanInVars, pauseVars, clientVars, vectorVars, startVars, historyVars
<1>1. UNCHANGED <<routine, cpc, toStart, outsideSyncs>>
  BY DEF WorkerStep, WorkerPause, WorkerCheckStop, WorkerWorks, WorkerDone, WorkerSync, OfSync,
         OfFanIn, OfPause
<1>2. Announced(ToSyncPoint)' = Announced(ToSyncPoint)
  BY <1>1 DEF Announced
<1>r. wpc[w] # "unborn" => routine[w] \in Routines /\ wpc[w] \in Points(routine[w])
  BY <1>0, RoutineOf
\* A worker that goes on inside or outside of sync().
<1>3. ASSUME NEW where, WorkerGoTo(w, where), mSyncExpected' = mSyncExpected,
             wpc[w] \notin {"sync", "syncing"},
             wpc[w] \in BeforeSync(routine[w]) \cup {"sync"} <=>
               where \in BeforeSync(routine[w]) \cup {"sync"}
      PROVE  /\ SyncCounted'
             /\ \A v \in Workers : LeavesSync(v) => Cardinality(StillToSync) <= outsideSyncs
  <2>1. wpc' = [wpc EXCEPT ![w] = where]
    BY <1>3 DEF WorkerGoTo
  <2>2. NotSynced' = NotSynced
    BY <1>0, <1>1, <1>3, <2>1 DEF NotSynced
  <2>3. SyncCounted'
    BY <1>1, <1>2, <1>3, <2>2 DEF SyncCounted
  <2>4. \A v \in Workers : ~LeavesSync(v)
    BY <1>0, <1>3, <2>1 DEF LeavesSync
  <2> QED
    BY <2>3, <2>4
<1>4. CASE WorkerPause(w)
  <2>1. UNCHANGED syncVars /\ wpc[w] \in {"top", "held"}
    BY <1>4 DEF WorkerPause, OfPause
  <2>2. WorkerGoTo(w, "held") \/ WorkerGoTo(w, AfterPause(routine[w]))
    BY <1>4 DEF WorkerPause
  <2>3. /\ {"top", "held"} \subseteq BeforeSync(routine[w])
        /\ AfterPause(routine[w]) \in BeforeSync(routine[w]) \cup {"sync"}
    BY DEF BeforeSync, AfterPause
  <2> QED
    BY <1>3, <2>1, <2>2, <2>3
<1>5. CASE WorkerCheckStop(w)
  <2>1. /\ mSyncExpected' = mSyncExpected /\ wpc[w] = "check"
        /\ WorkerGoTo(w, "done") \/ WorkerGoTo(w, "work")
    BY <1>5 DEF WorkerCheckStop
  <2>2. routine[w] # "once"
    BY <1>r, <2>1 DEF Points
  <2>3. {"done", "work", "check"} \subseteq BeforeSync(routine[w])
    BY <2>2 DEF BeforeSync
  <2> QED
    BY <1>3, <2>1, <2>3
<1>6. CASE WorkerWorks(w)
  <2>1. mSyncExpected' = mSyncExpected /\ wpc[w] = "work" /\ WorkerGoTo(w, AfterWork(routine[w]))
    BY <1>6 DEF WorkerWorks
  <2>2. "work" \in BeforeSync(routine[w]) \cup {"sync"} <=>
          AfterWork(routine[w]) \in BeforeSync(routine[w]) \cup {"sync"}
    BY <1>r, <2>1 DEF BeforeSync, AfterWork, Begin, Routines
  <2> QED
    BY <1>3, <2>1, <2>2
<1>7. CASE WorkerDone(w)
  <2>1. mSyncExpected' = mSyncExpected /\ wpc[w] = "done" /\ WorkerGoTo(w, AfterDone(routine[w]))
    BY <1>7 DEF WorkerDone, OfFanIn
  <2>2. "done" \in BeforeSync(routine[w]) \cup {"sync"} <=>
          AfterDone(routine[w]) \in BeforeSync(routine[w]) \cup {"sync"}
    BY <1>r, <2>1 DEF BeforeSync, AfterDone, Routines
  <2> QED
    BY <1>3, <2>1, <2>2
<1>8. CASE WorkerSync(w)
  <2>1. /\ \/ wpc[w] = "sync" /\ mSyncExpected' = mSyncExpected - 1
           \/ wpc[w] = "syncing" /\ mSyncExpected' = mSyncExpected
        /\ \/ WorkerGoTo(w, "syncing")
           \/ WorkerGoTo(w, AfterSync(routine[w])) /\ mSyncExpected' = 0
    BY <1>0, <1>8, SyncOutcomes
  <2>2. routine[w] \in {"loop", "once"}
    BY <1>r, <2>1 DEF Points, Routines
  <2>3. PICK where \in {"syncing", AfterSync(routine[w])} : wpc' = [wpc EXCEPT ![w] = where]
    BY <2>1 DEF WorkerGoTo
  <2>4. where \notin BeforeSync(routine[w]) \cup {"sync"} /\ "syncing" \notin BeforeSync(routine[w])
    BY <2>2, <2>3 DEF BeforeSync, AfterSync
  <2>5. NotSynced' = NotSynced \ {w} /\ (wpc[w] = "sync" <=> w \in NotSynced)
    BY <1>0, <1>1, <2>1, <2>3, <2>4 DEF NotSynced
  <2>6. /\ Cardinality(NotSynced') \in Nat /\ Cardinality(NotSynced) \in Nat
        /\ w \in NotSynced => Cardinality(NotSynced') = Cardinality(NotSynced) - 1
        /\ w \notin NotSynced => NotSynced' = NotSynced
    BY <2>5, NotSyncedFinite, CountOfPart
  <2>7. Announced(ToSyncPoint) \in Nat
    BY <1>0 DEF Announced
  <2>8. /\ mSyncExpected' \in Int
        /\ mSyncExpected' + outsideSyncs = Cardinality(NotSynced') + Announced(ToSyncPoint)
    <3>1. /\ mSyncExpected \in Int /\ outsideSyncs \in Nat
          /\ mSyncExpected + outsideSyncs = Cardinality(NotSynced) + Announced(ToSyncPoint)
      BY DEF SyncCounted
    <3>2. \/ mSyncExpected' = mSyncExpected - 1 /\ Cardinality(NotSynced') = Cardinality(NotSynced) - 1
          \/ mSyncExpected' = mSyncExpected /\ Cardinality(NotSynced') = Cardinality(NotSynced)
      BY <2>1, <2>5, <2>6
    <3> QED
      BY <2>6, <2>7, <3>1, <3>2
  <2>9. SyncCounted'
    BY <1>1, <1>2, <2>8 DEF SyncCounted
  <2>10. ASSUME NEW v \in Workers, LeavesSync(v)
         PROVE  Cardinality(StillToSync) <= outsideSyncs
    <3>1. v = w /\ ~WorkerGoTo(w, "syncing")
      BY <1>0, <2>3, <2>10 DEF WorkerGoTo, LeavesSync
    <3>2. Cardinality(NotSynced') <= outsideSyncs
      BY <2>1, <2>6, <2>7, <2>8, <3>1 DEF SyncCounted
    <3>3. StillToSync \in SUBSET NotSynced'
      <4>1. wpc[w] \notin BeforeSync(routine[w])
        BY <2>1, <2>4 DEF BeforeSync
      <4>2. StillToSync \subseteq NotSynced \ {w}
        BY <4>1 DEF StillToSync, NotSynced
      <4> QED
        BY <2>5, <4>2
    <3>4. NotSynced' \in SUBSET Workers
      BY <2>5, NotSyncedFinite
    <3>5. /\ Cardinality(StillToSync) \in Nat
          /\ Cardinality(StillToSync) <= Cardinality(NotSynced')
      <4>1. StillToSync \in SUBSET Workers
        BY <3>3, <3>4
      <4> QED
        BY <3>3, <3>4, <4>1, NotSyncedFinite, CountOfPart
    <3> QED
      BY <2>6, <3>2, <3>5 DEF SyncCounted
  <2> QED
    BY <2>9, <2>10
<1> QED
  BY <1>4, <1>5, <1>6, <1>7, <1>8 DEF WorkerStep

LEMMA SyncStep ==
  ASSUME CountInv, SyncCounted, [Next]_vars
  PROVE  SyncCounted'
<1>0. /\ wpc \in [Workers -> WorkerAt] /\ cpc \in [Clients -> ClientAt] /\ toStart \in Nat
      /\ OneAdds /\ mSyncExpected \in Int /\ outsideSyncs \in Nat
  BY DEF CountInv, Types, SyncCounted
<1> USE DEF tcVars, syncVars, fanInVars, pauseVars, workerVars, clientVars, vectorVars, startVars,
            historyVars
<1>1. ASSUME UNCHANGED <<wpc, routine>>,
             mSyncExpected' \in Int, outsideSyncs' \in Nat,
             mSyncExpected' + outsideSyncs' = mSyncExpected + outsideSyncs,
             Announced(ToSyncPoint)' = Announced(ToSyncPoint)
      PROVE  SyncCounted'
  BY <1>1 DEF SyncCounted, NotSynced
<1>2. ASSUME NEW c \in Clients, AddThread(c)
      PROVE  SyncCounted'
  <2>1. /\ UNCHANGED <<wpc, routine, mSyncExpected, outsideSyncs>>
        /\ muWorkerThreads = {} /\ Constructed /\ cpc' = [cpc EXCEPT ![c] = "addsync"]
    BY <1>2 DEF AddThread, Calls, VectorFree, GoTo
  <2>2. Adding = {}
    BY <1>0, <2>1 DEF OneAdds
  <2>3. \A d \in Clients : cpc[d] \notin ToSyncPoint /\ cpc'[d] \notin ToSyncPoint
    BY <1>0, <2>1, <2>2 DEF Adding, InAdd, ToSyncPoint
  <2>4. Announced(ToSyncPoint)' = Announced(ToSyncPoint)
    BY <2>3 DEF Announced
  <2> QED
    BY <1>0, <1>1, <2>1, <2>4
<1>3. ASSUME NEW c \in Clients, CountThreads(c)
      PROVE  SyncCounted'
  <2>1. PICK where \in {"addfanin", "addpause", "start"} :
          /\ cpc[c] = (CASE where = "addfanin" -> "addsync" [] where = "addpause" -> "addfanin"
                         [] where = "start" -> "addpause")
          /\ cpc' = [cpc EXCEPT ![c] = where]
          /\ mSyncExpected' = mSyncExpected + (IF where = "addfanin" THEN toStart ELSE 0)
    BY <1>0, <1>3
    DEF CountThreads, AddToSync, AddToFanIn, AddToPause, sync_add_thread, OfFanIn, OfPause, GoTo
  <2>2. UNCHANGED <<wpc, routine, toStart, outsideSyncs>>
    BY <1>3 DEF CountThreads
  <2>3. c \in Adding
    BY <2>1 DEF Adding, InAdd
  <2>4. Announced(ToSyncPoint) = IF where = "addfanin" THEN 0 ELSE toStart
    BY <1>0, <2>1, <2>3, OneAnnounces, NotSyncedFinite DEF ToSyncPoint
  <2>5. Announced(ToSyncPoint)' = toStart
    BY <1>0, <2>1, <2>2 DEF Announced, ToSyncPoint
  <2>6. NotSynced' = NotSynced /\ Cardinality(NotSynced) \in Nat
    BY <2>2, NotSyncedFinite, CountOfPart DEF NotSynced
  <2>7. mSyncExpected' \in Int
    BY <1>0, <2>1
  <2>8. mSyncExpected' + outsideSyncs = Cardinality(NotSynced) + toStart
    BY <1>0, <2>1, <2>4, <2>6 DEF SyncCounted
  <2> QED
    BY <1>0, <2>2, <2>5, <2>6, <2>7, <2>8 DEF SyncCounted
<1>4. ASSUME NEW c \in Clients, NEW w \in Workers, StartThread(c, w)
      PROVE  SyncCounted'
  <2>1. /\ cpc[c] = "start" /\ wpc[w] = "unborn" /\ wpc' = [wpc EXCEPT ![w] = Begin(visitor)]
        /\ routine' = [routine EXCEPT ![w] = visitor]
        /\ toStart' = toStart - 1 /\ (toStart' # 0 => cpc' = cpc)
        /\ UNCHANGED <<mSyncExpected, outsideSyncs>>
    BY <1>4 DEF StartThread, WorkerGoTo, Unborn
  <2>2. c \in Adding
    BY <2>1 DEF Adding, InAdd
  <2>3. Announced(ToSyncPoint) = toStart /\ toStart # 0
    BY <1>0, <2>1, <2>2, OneAnnounces, NotSyncedFinite DEF ToSyncPoint, OneAdds
  <2>4. Announced(ToSyncPoint)' = toStart'
    <3>1. CASE toStart' = 0
      BY <3>1 DEF Announced
    <3>2. CASE toStart' # 0
      BY <2>1, <3>2 DEF Announced, ToSyncPoint
    <3> QED
      BY <3>1, <3>2
  <2>5. w \notin NotSynced /\ NotSynced' = NotSynced \cup {w}
    <3>1. /\ \A v \in Workers \ {w} : wpc'[v] = wpc[v] /\ routine'[v] = routine[v]
          /\ wpc'[w] = Begin(visitor) /\ routine'[w] = visitor
      BY <1>0, <2>1 DEF CountInv, Types
    <3>2. Begin(visitor) \in BeforeSync(visitor)
      BY DEF Begin, BeforeSync
    <3>3. w \notin NotSynced
      BY <2>1 DEF NotSynced, BeforeSync
    <3> QED
      BY <3>1, <3>2, <3>3 DEF NotSynced
  <2>6. Cardinality(NotSynced') = Cardinality(NotSynced) + 1 /\ Cardinality(NotSynced) \in Nat
    BY <2>5, NotSyncedFinite, CountOfPart
  <2>7. mSyncExpected + outsideSyncs = Cardinality(NotSynced) + toStart
    BY <2>3 DEF SyncCounted
  <2>8. mSyncExpected + outsideSyncs = Cardinality(NotSynced') + toStart'
    BY <1>0, <2>1, <2>6, <2>7
  <2> QED
    BY <1>0, <2>1, <2>4, <2>8 DEF SyncCounted
<1>5. ASSUME NEW c \in Clients, Elsewhere(c)
      PROVE  SyncCounted'
  <2>1. UNCHANGED <<wpc, routine>>
    BY <1>5
    DEF Elsewhere, PauseReturn, ResumeReturn, PauseGoesOn, SyncCall, SyncGoesOn, SyncReturn,
        WaitCall, StopCall, StopFlag, FanInWait, JoinCall, JoinAll, JoinClear
  <2>2. Announced(ToSyncPoint)' = Announced(ToSyncPoint)
    BY <1>5, ElsewhereKeepsCount, NotSyncedFinite
  <2>3. CASE SyncCall(c)
    <3>1. mSyncExpected' = mSyncExpected - 1 /\ outsideSyncs' = outsideSyncs + 1
      BY <2>3 DEF SyncCall, sync
    <3> QED
      BY <1>0, <1>1, <2>1, <2>2, <3>1
  <2>4. CASE ~SyncCall(c)
    <3>1. UNCHANGED <<mSyncExpected, outsideSyncs>>
      BY <1>5, <2>4
      DEF Elsewhere, PauseCall, PauseReturn, ResumeCall, ResumeReturn, PauseGoesOn, SyncGoesOn,
          SyncWake, SyncReturn, WaitCall, StopCall, StopFlag, SetStopper, FanInWait, JoinCall,
          JoinAll, JoinClear, OfSync, OfFanIn, OfPause
    <3> QED
      BY <1>0, <1>1, <2>1, <2>2, <3>1
  <2> QED
    BY <2>3, <2>4
<1>6. CASE \E t \in Workers \cup Clients : Spurious(t)
  BY <1>0, <1>1, <1>6, SpuriousKeepsCount DEF Announced
<1>7. CASE UNCHANGED vars
  BY <1>0, <1>1, <1>7 DEF vars, Announced
<1> QED
  BY <1>2, <1>3, <1>4, <1>5, <1>6, <1>7, WorkerKeepsSync, StepsOfNext

\* The variables have their types, and no counter goes below 0 but by the
\* sync() calls of clients, for any workers, clients and calls, and for any
\* routines of the three.
THEOREM WorkerThreadsTypes == Spec => []TypeOK
<1>1. CountInv /\ SyncCounted /\ [Next]_vars => SyncCounted'
  BY SyncStep
<1>2. CountInv /\ SyncCounted => TypeOK
  <2> SUFFICES ASSUME CountInv, SyncCounted
               PROVE  TypeOK
    OBVIOUS
  <2>1. mSyncExpected \in Int /\ mSyncExpected + outsideSyncs \in Nat
    <3>1. Cardinality(NotSynced) \in Nat /\ Announced(ToSyncPoint) \in Nat
      BY NotSyncedFinite, CountOfPart DEF Announced, CountInv, Types
    <3> QED
      BY <3>1 DEF SyncCounted
  <2>2. toStart \in 0 .. Cardinality(Workers)
    <3>1. toStart <= Cardinality(Unborn) /\ toStart \in Nat
      BY DEF CountInv, OneAdds, Types
    <3>2. /\ Cardinality(Unborn) \in Nat /\ Cardinality(Workers) \in Nat
          /\ Cardinality(Unborn) <= Cardinality(Workers)
      BY WorkersFinite, CountOfPart
    <3> QED
      BY <3>1, <3>2
  <2> QED
    BY <2>1, <2>2 DEF CountInv, Types, TypeOK
<1> QED
  BY <1>1, <1>2, CountInit, CountStep, SyncInit, PTL DEF Spec

\* What a worker leaves behind in sync(), of whichever step.
LEMMA LeavesFewBehind ==
  ASSUME CountInv, SyncCounted, [Next]_vars, NEW w \in Workers, LeavesSync(w)
  PROVE  Cardinality(StillToSync) <= outsideSyncs
<1>1. CASE \E v \in Workers : WorkerStep(v)
  BY <1>1, WorkerKeepsSync
<1>2. CASE \E c \in Clients, v \in Workers : StartThread(c, v)
  <2>1. PICK v \in Workers : wpc[v] = "unborn" /\ wpc' = [wpc EXCEPT ![v] = Begin(visitor)]
    BY <1>2 DEF StartThread, WorkerGoTo, Unborn
  <2> QED
    BY <2>1 DEF CountInv, Types, LeavesSync
<1>3. CASE wpc' = wpc
  BY <1>3 DEF LeavesSync
<1>4. ASSUME NEW c \in Clients, AddThread(c) \/ CountThreads(c) \/ Elsewhere(c)
      PROVE  wpc' = wpc
  BY <1>4
  DEF AddThread, CountThreads, Elsewhere, PauseReturn, ResumeReturn, PauseGoesOn, SyncCall,
      SyncGoesOn, SyncReturn, WaitCall, StopCall, StopFlag, FanInWait, JoinCall, JoinAll,
      JoinClear, workerVars
<1> QED
  BY <1>1, <1>2, <1>3, <1>4, StepsOfNext, SpuriousKeepsCount DEF vars, workerVars

\* sync() of the workers is a barrier, whatever the clients do: when one
\* leaves it no more of those that were started are still to come than clients
\* have called sync() in their place, however many add_thread() adds and when.
THEOREM WorkersSyncTogether == Spec => SyncTogether
<1> DEFINE Together ==
      \A w \in Workers : LeavesSync(w) => Cardinality(StillToSync) <= outsideSyncs
<1>1. CountInv /\ SyncCounted /\ [Next]_vars => SyncCounted'
  BY SyncStep
<1>2. CountInv /\ SyncCounted /\ [Next]_vars => [Together]_vars
  BY LeavesFewBehind
<1>3. [][Together]_vars => SyncTogether
  BY PTL DEF SyncTogether
<1> QED
  BY <1>1, <1>2, <1>3, CountInit, CountStep, SyncInit, PTL DEF Spec

\* The clients leave sync() to the workers.
OnlyWorkersSync == \A c \in Clients : "sync" \notin May[c]

LEMMA NoOutsideSyncs ==
  ASSUME OnlyWorkersSync, outsideSyncs = 0, [Next]_vars
  PROVE  outsideSyncs' = 0
<1> USE DEF clientVars, historyVars
<1>1. CASE \E w \in Workers : WorkerStep(w)
  BY <1>1 DEF WorkerStep, WorkerPause, WorkerCheckStop, WorkerWorks, WorkerDone, WorkerSync
<1>2. CASE \E c \in Clients, w \in Workers : StartThread(c, w)
  BY <1>2 DEF StartThread
<1>3. ASSUME NEW c \in Clients, AddThread(c) \/ CountThreads(c) \/ Elsewhere(c)
      PROVE  outsideSyncs' = 0
  <2>1. ~SyncCall(c)
    BY DEF SyncCall, Calls, OnlyWorkersSync
  <2> QED
    BY <1>3, <2>1
    DEF AddThread, CountThreads, Elsewhere, PauseReturn, ResumeReturn, PauseGoesOn, SyncGoesOn,
        WaitCall, StopCall, StopFlag, FanInWait, JoinCall, JoinAll, JoinClear
<1>4. CASE \E t \in Workers \cup Clients : Spurious(t)
  BY <1>4 DEF Spurious
<1>5. CASE UNCHANGED vars
  BY <1>5 DEF vars
<1> QED
  BY <1>1, <1>2, <1>3, <1>4, <1>5, StepsOfNext

\* And if the clients do leave sync() to the workers, no worker leaves it before
\* every one that was started has come.
THEOREM AllWorkersSynced == OnlyWorkersSync => (Spec => AllSynced)
<1> SUFFICES ASSUME OnlyWorkersSync
             PROVE  Spec => AllSynced
  OBVIOUS
<1> DEFINE Together == \A w \in Workers : LeavesSync(w) => StillToSync = {}
           NoneOutside == outsideSyncs = 0
<1>1. CountInv /\ SyncCounted /\ [Next]_vars => SyncCounted'
  BY SyncStep
<1>2. NoneOutside /\ [Next]_vars => NoneOutside'
  BY NoOutsideSyncs
<1>3. CountInv /\ SyncCounted /\ NoneOutside /\ [Next]_vars => [Together]_vars
  <2> SUFFICES ASSUME CountInv, SyncCounted, NoneOutside, [Next]_vars,
                      NEW w \in Workers, LeavesSync(w)
               PROVE  StillToSync = {}
    OBVIOUS
  <2>1. Cardinality(StillToSync) <= 0
    BY LeavesFewBehind
  <2>2. StillToSync \in SUBSET Workers
    BY DEF StillToSync
  <2> QED
    BY <2>1, <2>2, NotSyncedFinite, CountOfPart
<1>4. Init => NoneOutside
  BY DEF Init
<1>5. [][Together]_vars => AllSynced
  BY PTL DEF AllSynced
<1> HIDE DEF NoneOutside
<1> QED
  BY <1>1, <1>2, <1>3, <1>4, <1>5, CountInit, CountStep, SyncInit, PTL DEF Spec

-----------------------------------------------------------------------------
\* A paused pool is quiet.

\* One client only makes the calls of pause() and resume().
OnePauser == \A c, d \in Clients : "pause" \in May[c] /\ "pause" \in May[d] => c = d

\* Who waits in pause() has set the flag, and while a pause is in force no
\* worker is past pauseIfRequred().
QuietInv ==
  /\ \A c \in Clients : cpc[c] \in {"pausing", "resuming"} => "pause" \in May[c]
  /\ \A c \in Clients : cpc[c] = "pausing" => mPause /\ visitors = {"loop"}
  /\ pausers # {} =>
       mPause /\ visitors = {"loop"} /\ \A w \in Workers : wpc[w] \in {"unborn", "top", "held"}

LEMMA QuietInit == Init => QuietInv
<1> SUFFICES ASSUME Init PROVE QuietInv
  OBVIOUS
<1>1. \A c \in Clients : cpc[c] \in {"start", "idle"}
  BY DEF Init
<1>2. pausers = {}
  BY DEF Init
<1> QED
  BY <1>1, <1>2 DEF QuietInv

\* pause() returns when every thread that is counted is held: that is every
\* thread that is started, and none is announced.
LEMMA AllHeldAreAll ==
  ASSUME CountInv, AllPaused
  PROVE  \A w \in Workers : wpc[w] \in {"unborn", "held"}
<1>1. mPausedThreads = Cardinality(Held) /\ mPausedThreads = mPauseExpected
  BY DEF AllPaused, CountInv, HeldCounted
<1>2. mPauseExpected = Cardinality(Born) + Announced({"start"}) /\ Announced({"start"}) \in Nat
  BY DEF CountInv, Types, Counted, Announced
<1>3. Held \in SUBSET Born
  BY DEF Held, Born, Unborn
<1>4. Cardinality(Held) \in Nat /\ Cardinality(Born) \in Nat
  BY WorkersFinite, CountOfPart
<1>5. Cardinality(Born) <= Cardinality(Held)
  BY <1>1, <1>2, <1>4
<1>6. Held = Born
  BY <1>3, <1>5, WorkersFinite, CountOfPart
<1> QED
  BY <1>6 DEF Held, Born, Unborn

LEMMA QuietStep ==
  ASSUME OnePauser, CountInv, QuietInv, [Next]_vars
  PROVE  QuietInv'
<1>0. /\ wpc \in [Workers -> WorkerAt] /\ cpc \in [Clients -> ClientAt]
      /\ Types /\ HeldCounted
  BY DEF CountInv, Types
<1> USE DEF tcVars, syncVars, fanInVars, pauseVars, workerVars, clientVars, vectorVars, startVars, historyVars
<1>1. ASSUME NEW w \in Workers, WorkerStep(w)
      PROVE  QuietInv'
  <2>1. UNCHANGED <<mPause, visitors, cpc, pausers>>
    BY <1>0, <1>1, PauseOutcomes
    DEF WorkerStep, WorkerCheckStop, WorkerWorks, WorkerDone, WorkerSync, OfSync, OfFanIn
  <2>2. ASSUME mPause, wpc[w] \in {"unborn", "top", "held"}
        PROVE  wpc' = wpc \/ wpc' = [wpc EXCEPT ![w] = "held"]
    <3>1. WorkerPause(w)
      BY <1>1, <2>2 DEF WorkerStep, WorkerCheckStop, WorkerWorks, WorkerDone, WorkerSync
    <3> QED
      BY <1>0, <2>2, <3>1, PauseOutcomes DEF WorkerGoTo
  <2>3. ASSUME pausers # {}
        PROVE  \A v \in Workers : wpc'[v] \in {"unborn", "top", "held"}
    BY <1>0, <2>2, <2>3 DEF QuietInv
  <2> QED
    BY <2>1, <2>3 DEF QuietInv
\* A step that no worker makes, and in which no client calls pause() or
\* resume().
<1>2. ASSUME UNCHANGED <<wpc, visitors, mPause, pausers>>,
             \A d \in Clients : cpc'[d] \in {"pausing", "resuming"} => cpc'[d] = cpc[d]
      PROVE  QuietInv'
  BY <1>2 DEF QuietInv
<1>3. ASSUME NEW c \in Clients, NEW w \in Workers, StartThread(c, w)
      PROVE  QuietInv'
  <2>1. UNCHANGED <<mPause, visitors, pausers>> /\ wpc' = [wpc EXCEPT ![w] = Begin(visitor)]
    BY <1>3 DEF StartThread, WorkerGoTo
  <2>2. cpc' = cpc \/ cpc' = [cpc EXCEPT ![c] = "idle"]
    BY <1>3 DEF StartThread, GoTo
  <2>3. \A d \in Clients : cpc'[d] \in {"pausing", "resuming"} => cpc'[d] = cpc[d]
    BY <1>0, <2>2
  <2>4. visitors = {"loop"} => Begin(visitor) = "top"
    BY DEF Begin, CountInv, Types
  <2>5. ASSUME pausers # {}
        PROVE  \A v \in Workers : wpc'[v] \in {"unborn", "top", "held"}
    BY <1>0, <2>1, <2>4, <2>5 DEF QuietInv
  <2> QED
    BY <2>1, <2>3, <2>5 DEF QuietInv
<1>4. ASSUME NEW c \in Clients,
             (PauseCall(c) /\ PauseReturn(c)) \/ (cpc[c] = "pausing" /\ PauseGoesOn(c))
      PROVE  QuietInv'
  <2>1. /\ "pause" \in May[c] /\ visitors = {"loop"} /\ mPause'
        /\ PauseReturn(c) /\ UNCHANGED <<wpc, visitors>>
        /\ c \notin Waiting(mCvPaused') => AllPaused
    <3>1. CASE PauseCall(c) /\ PauseReturn(c)
      BY <3>1 DEF PauseCall, Calls, pause, Sleep, Waiting, PauseReturn
    <3>2. CASE cpc[c] = "pausing" /\ PauseGoesOn(c)
      BY <3>2 DEF QuietInv, PauseGoesOn, CallerWake, Sleep, Waiting, PauseReturn
    <3> QED
      BY <1>4, <3>1, <3>2
  <2>2. PICK where \in {"pausing", "idle"} : cpc' = [cpc EXCEPT ![c] = where]
    BY <2>1 DEF PauseReturn, GoTo
  <2>3. \A d \in Clients : cpc'[d] \in {"pausing", "resuming"} => d = c \/ cpc'[d] = cpc[d]
    BY <1>0, <2>2
  <2>4. pausers' = pausers \/ \A w \in Workers : wpc[w] \in {"unborn", "held"}
    BY <2>1, AllHeldAreAll DEF PauseReturn
  <2>5. ASSUME pausers' # {}
        PROVE  \A w \in Workers : wpc'[w] \in {"unborn", "top", "held"}
    BY <2>1, <2>4, <2>5 DEF QuietInv
  <2> QED
    BY <2>1, <2>3, <2>5 DEF QuietInv
<1>5. ASSUME NEW c \in Clients, ResumeCall(c), ResumeReturn(c)
      PROVE  QuietInv'
  <2>1. /\ "pause" \in May[c] /\ cpc[c] = "idle" /\ pausers' = {}
        /\ UNCHANGED <<wpc, visitors>>
    BY <1>5 DEF ResumeCall, Calls, ResumeReturn
  <2>2. PICK where \in {"resuming", "idle"} : cpc' = [cpc EXCEPT ![c] = where]
    BY <1>5 DEF ResumeReturn, GoTo
  <2>3. \A d \in Clients : cpc[d] # "pausing"
    BY <2>1 DEF OnePauser, QuietInv
  <2>4. \A d \in Clients :
          /\ cpc'[d] # "pausing"
          /\ cpc'[d] = "resuming" => d = c \/ cpc'[d] = cpc[d]
    BY <1>0, <2>2, <2>3
  <2> QED
    BY <2>1, <2>4 DEF QuietInv
<1>6. ASSUME NEW c \in Clients, cpc[c] = "resuming", PauseGoesOn(c)
      PROVE  QuietInv'
  <2>1. UNCHANGED <<wpc, visitors, mPause, pausers>>
    BY <1>6 DEF PauseGoesOn, CallerWake, ResumeReturn
  <2>2. PICK where \in {"resuming", "idle"} : cpc' = [cpc EXCEPT ![c] = where]
    BY <1>6 DEF PauseGoesOn, ResumeReturn, GoTo
  <2> QED
    BY <1>0, <1>2, <1>6, <2>1, <2>2
<1>7. ASSUME NEW c \in Clients,
             \/ AddThread(c) \/ CountThreads(c)
             \/ WaitCall(c) \/ StopCall(c) \/ StopFlag(c) \/ FanInWait(c)
             \/ JoinCall(c) \/ JoinAll(c) \/ JoinClear(c)
             \/ SyncCall(c) \/ SyncGoesOn(c)
      PROVE  QuietInv'
  <2>1. UNCHANGED <<wpc, visitors, mPause, pausers>>
    BY <1>7 DEF AddThread, CountThreads, AddToSync, AddToFanIn, AddToPause, pause_add_thread,
                OfSync, OfFanIn, OfPause, WaitCall, StopCall, StopFlag, SetStopper, FanInWait,
                JoinCall, JoinAll, JoinClear, SyncCall, SyncGoesOn, SyncReturn
  <2>2. \E where : GoTo(c, where) /\ where \notin {"pausing", "resuming"}
    BY <1>7 DEF AddThread, CountThreads, WaitCall, StopCall, StopFlag, FanInWait,
                JoinCall, JoinAll, JoinClear, SyncCall, SyncGoesOn, SyncReturn
  <2> QED
    BY <1>0, <1>2, <2>1, <2>2 DEF GoTo
<1>8. ASSUME NEW t, Spurious(t)
      PROVE  QuietInv'
  <2>1. UNCHANGED <<wpc, visitors, mPause, pausers, cpc>>
    BY <1>8 DEF Spurious, OfSync, OfFanIn, PauseSpurious, CallerSpurious
  <2> QED
    BY <1>2, <2>1
<1>9. CASE UNCHANGED vars
  BY <1>2, <1>9 DEF vars
<1> QED
  BY <1>1, <1>3, <1>4, <1>5, <1>6, <1>7, <1>8, <1>9
  DEF Next, ClientCalls, ClientGoesOn, PauseGoesOn

\* A paused pool is quiet: between the return of pause() and the next resume()
\* no worker looks for work or does any, also if others call add_thread() or
\* stop() meanwhile, as long as one client makes the calls of pause() and
\* resume().
THEOREM PausedWorkersAreQuiet == OnePauser => (Spec => []QuietWhilePaused)
<1> SUFFICES ASSUME OnePauser
             PROVE  Spec => []QuietWhilePaused
  OBVIOUS
<1>1. CountInv /\ QuietInv /\ [Next]_vars => QuietInv'
  BY QuietStep
<1>2. QuietInv => QuietWhilePaused
  BY DEF QuietInv, QuietWhilePaused
<1>3. Spec => []CountInv
  BY CountersRight
<1> QED
  BY <1>1, <1>2, <1>3, QuietInit, PTL DEF Spec
=============================================================================
