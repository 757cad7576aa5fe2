-------------------------- MODULE SyncFanInProofs ---------------------------
(***************************************************************************)
(* Proofs about SyncPointUse for any finite set of threads, and about      *)
(* FanInPointUse for any parents and any finite set of children.           *)
(*                                                                         *)
(* The sync point.  TypeOK and NoLostWakeup are inductive together.  The   *)
(* barrier itself, LeaveTogether, needs two facts more: the counter is the *)
(* number of announced threads that have not come (CounterInv), and while  *)
(* it is not 0 everybody who came is still inside (InsideInv), so that a   *)
(* caller is always new to the round.                                      *)
(*                                                                         *)
(* The fan-in point.  Everything rests on one fact: the counter is the     *)
(* number of children that run (CountsRunning).                            *)
(***************************************************************************)
EXTENDS SyncPointUse, FanInPointUse, FiniteSetTheorems, TLAPS

CounterInv == Cardinality(arrived) = armed - mSyncExpected

InsideInv ==
  /\ Inside \subseteq arrived
  /\ mSyncExpected > 0 => Inside = arrived

IInv == TypeOK /\ NoLostWakeup /\ CounterInv /\ InsideInv

\* The number of threads is a natural number.
LEMMA PartiesNat == Cardinality(Threads) \in Nat /\ Parties \subseteq Nat \ {0}
<1>1. Cardinality(Threads) \in Nat
  BY ThreadsAssumption, FS_CardinalityType
<1> QED
  BY <1>1 DEF Parties

\* A set of threads that have arrived is finite, and one more makes its
\* cardinality one more.
LEMMA OneMoreArrived ==
  ASSUME arrived \subseteq Threads, NEW t \in Threads, t \notin arrived
  PROVE  /\ Cardinality(arrived) \in Nat
         /\ Cardinality(arrived \cup {t}) = Cardinality(arrived) + 1
<1>1. IsFiniteSet(arrived)
  BY ThreadsAssumption, FS_Subset
<1> QED
  BY <1>1, FS_CardinalityType, FS_AddElement

\* The variables have their types in every reachable state of a sync point,
\* and no thread that waits at it sleeps on when the counter is 0: whatever
\* the calls of sync() and of the setters, however eagerly it is armed.
THEOREM TypeAndWakeup == Spec => [](TypeOK /\ NoLostWakeup)
<1> DEFINE Inv == TypeOK /\ NoLostWakeup
<1>1. Init => Inv
  BY PartiesNat DEF Init, ConstructSyncPoint, TypeOK, NoLostWakeup, NoWaiters, CondVarOf
<1>2. Inv /\ [Next]_vars => Inv'
  <2> SUFFICES ASSUME TypeOK, NoLostWakeup, [Next]_vars
               PROVE  TypeOK' /\ NoLostWakeup'
    OBVIOUS
  <2> USE PartiesNat DEF TypeOK, NoLostWakeup, CondVarOf
  <2>1. CASE \E t \in Threads : CallSync(t)
    <3> PICK t \in Threads : CallSync(t)
      BY <2>1
    <3>1. mCvSync' = IF mSyncExpected' = 0 THEN NotifyAll(mCvSync) ELSE Sleep(mCvSync, t)
      BY DEF CallSync, sync
    <3>2. NotifyAll(mCvSync) \in CondVarOf(Threads) /\ Sleep(mCvSync, t) \in CondVarOf(Threads)
      BY DEF NotifyAll, Sleep
    <3>3. mCvSync' \in CondVarOf(Threads) /\ mCvSync'.asleep \cap mCvSync'.awake = {}
      BY <3>1, <3>2 DEF NotifyAll, Sleep
    <3>4. mSyncExpected' = 0 => mCvSync'.asleep = {}
      BY <3>1 DEF NotifyAll
    <3> QED
      BY <3>3, <3>4 DEF CallSync, sync
  <2>2. CASE \E t \in Threads : Wake(t)
    <3> PICK t \in Threads : Wake(t)
      BY <2>2
    <3>1. mCvSync' = IF mSyncExpected = 0 THEN Leave(mCvSync, t) ELSE Sleep(mCvSync, t)
      BY DEF Wake, SyncWake
    <3>2. mCvSync' \in CondVarOf(Threads) /\ mCvSync'.asleep \cap mCvSync'.awake = {}
      BY <3>1 DEF Leave, Sleep
    <3>3. mSyncExpected = 0 => mCvSync'.asleep = {}
      BY <3>1 DEF Leave
    <3> QED
      BY <3>2, <3>3 DEF Wake, SyncWake
  <2>3. CASE \E t \in Threads : Spurious(t)
    BY <2>3 DEF Spurious, SyncSpurious, Rouse
  <2>4. CASE \E n \in Parties : Rearm(n)
    BY <2>4 DEF Rearm, MayRearm, sync_initialize, sync_set_threadnum, sync_add_thread
  <2>5. CASE \E n \in Parties : Announce(n)
    BY <2>5 DEF Announce, sync_add_thread
  <2>6. CASE UNCHANGED vars
    BY <2>6 DEF vars
  <2> QED
    BY <2>1, <2>2, <2>3, <2>4, <2>5, <2>6 DEF Next
<1> QED
  BY <1>1, <1>2, PTL DEF Spec

\* The counter and the set of threads inside are what the round's history
\* says, provided the point is only armed anew when everybody has left.
LEMMA InductiveInvariant == EagerRearm = FALSE => (Spec => []IInv)
<1> SUFFICES ASSUME EagerRearm = FALSE
             PROVE  Spec => []IInv
  OBVIOUS
<1>1. Init => CounterInv /\ InsideInv
  BY FS_EmptySet, PartiesNat
  DEF Init, ConstructSyncPoint, CounterInv, InsideInv, Inside, Waiting, NoWaiters
<1>2. TypeOK /\ NoLostWakeup /\ CounterInv /\ InsideInv /\ [Next]_vars
        => (CounterInv /\ InsideInv)'
  <2> SUFFICES ASSUME TypeOK, NoLostWakeup, CounterInv, InsideInv, [Next]_vars
               PROVE  CounterInv' /\ InsideInv'
    OBVIOUS
  <2> USE PartiesNat DEF TypeOK, NoLostWakeup, CondVarOf, CounterInv, InsideInv,
                         Inside, Waiting
  <2>1. CASE \E t \in Threads : CallSync(t)
    <3> PICK t \in Threads : CallSync(t)
      BY <2>1
    <3>1. t \notin arrived
      BY DEF CallSync
    <3>2. Cardinality(arrived') = Cardinality(arrived) + 1 /\ Cardinality(arrived) \in Nat
      BY <3>1, OneMoreArrived DEF CallSync
    <3>3. CounterInv'
      BY <3>2 DEF CallSync, sync
    <3>4. Inside' = Inside \cup (IF mSyncExpected' = 0 THEN {} ELSE {t})
      BY DEF CallSync, sync, NotifyAll, Sleep
    <3> QED
      BY <3>3, <3>4 DEF CallSync, sync
  <2>2. CASE \E t \in Threads : Wake(t)
    BY <2>2 DEF Wake, SyncWake, Leave, Sleep
  <2>3. CASE \E t \in Threads : Spurious(t)
    BY <2>3 DEF Spurious, SyncSpurious, Rouse
  <2>4. CASE \E n \in Parties : Rearm(n)
    BY <2>4, FS_EmptySet DEF Rearm, MayRearm, sync_initialize, sync_set_threadnum, sync_add_thread
  <2>5. CASE \E n \in Parties : Announce(n)
    BY <2>5 DEF Announce, sync_add_thread
  <2>6. CASE UNCHANGED vars
    BY <2>6 DEF vars
  <2> QED
    BY <2>1, <2>2, <2>3, <2>4, <2>5, <2>6 DEF Next
<1> QED
  BY <1>1, <1>2, TypeAndWakeup, PTL DEF Spec, IInv

\* The barrier of sync(): a thread returns only when every thread announced
\* for its round has called it, for any number of threads and of rounds.
THEOREM Barrier == EagerRearm = FALSE => (Spec => LeaveTogether)
<1> SUFFICES ASSUME EagerRearm = FALSE
             PROVE  Spec => LeaveTogether
  OBVIOUS
<1> DEFINE Step == \A t \in Inside : t \notin Inside' =>
                     t \in arrived /\ Cardinality(arrived) = armed
<1>1. IInv /\ [Next]_vars => [Step]_vars
  <2> SUFFICES ASSUME IInv, Next, NEW t \in Inside, t \notin Inside'
               PROVE  t \in arrived /\ Cardinality(arrived) = armed
    OBVIOUS
  <2> USE DEF Inside, Waiting
  <2>1. t \in arrived
    BY DEF IInv, InsideInv
  <2>2. mSyncExpected = 0
    <3>1. ASSUME NEW u \in Threads, CallSync(u)
          PROVE  FALSE
      BY <3>1 DEF CallSync, sync, NotifyAll, Sleep, IInv, TypeOK, CondVarOf
    <3>2. ASSUME NEW u \in Threads, Wake(u)
          PROVE  mSyncExpected = 0
      BY <3>2 DEF Wake, SyncWake, Sleep, IInv, TypeOK, CondVarOf
    <3>3. ASSUME NEW u \in Threads, Spurious(u)
          PROVE  FALSE
      BY <3>3 DEF Spurious, SyncSpurious, Rouse, IInv, TypeOK, CondVarOf
    <3>4. ASSUME NEW n \in Parties, Rearm(n) \/ Announce(n)
          PROVE  FALSE
      BY <3>4 DEF Rearm, Announce, sync_initialize, sync_set_threadnum, sync_add_thread
    <3> QED
      BY <3>1, <3>2, <3>3, <3>4 DEF Next
  <2> QED
    BY <2>1, <2>2, PartiesNat DEF IInv, CounterInv, TypeOK
<1> QED
  BY <1>1, InductiveInvariant, PTL DEF Spec, LeaveTogether

-----------------------------------------------------------------------------
(* The fan-in point.                                                       *)

CountsRunning == mFanInExpected = Cardinality(running)

FanInInv == FanInTypeOK /\ NoLostParent /\ CountsRunning /\ WaitMeansAllDone

\* What the cardinality of the set of running children does when children
\* start and end.
LEMMA Headcount ==
  ASSUME running \subseteq Children
  PROVE  /\ IsFiniteSet(running) /\ Cardinality(running) \in Nat
         /\ Cardinality(running) = 0 <=> running = {}
         /\ \A c \in Children \ running :
              Cardinality(running \cup {c}) = Cardinality(running) + 1
         /\ \A c \in running :
              Cardinality(running \ {c}) = Cardinality(running) - 1
<1>1. IsFiniteSet(running)
  BY ChildrenAssumption, FS_Subset
<1> QED
  BY <1>1, FS_CardinalityType, FS_EmptySet, FS_AddElement, FS_RemoveElement

\* Several children more: the cardinalities of disjoint sets add up.
LEMMA HeadcountMany ==
  ASSUME running \subseteq Children, NEW C \in SUBSET Children, C \cap running = {}
  PROVE  /\ Cardinality(C) \in Nat
         /\ Cardinality(running \cup C) = Cardinality(running) + Cardinality(C)
<1>1. IsFiniteSet(running) /\ IsFiniteSet(C)
  BY ChildrenAssumption, FS_Subset
<1>2. Cardinality(running \cap C) = 0
  BY FS_EmptySet, C \cap running = {}
<1>3. Cardinality(C) \in Nat /\ Cardinality(running) \in Nat
  BY <1>1, FS_CardinalityType
<1>4. Cardinality(running \cup C)
        = Cardinality(running) + Cardinality(C) - Cardinality(running \cap C)
  BY <1>1, FS_Union
<1> QED
  BY <1>2, <1>3, <1>4

\* The three invariants of the runs, with the strengthening that makes them
\* inductive, hold in every reachable state.
THEOREM FanInInvariant == FanInSpec => []FanInInv
<1>1. FanInInit => FanInInv
  BY FS_EmptySet
  DEF FanInInit, ConstructFanInPoint, FanInInv, FanInTypeOK, NoLostParent, CountsRunning,
      WaitMeansAllDone, NoWaiters, CondVarOf
<1>2. FanInInv /\ [FanInNext]_FanInVars => FanInInv'
  <2> SUFFICES ASSUME FanInInv, [FanInNext]_FanInVars
               PROVE  FanInInv'
    OBVIOUS
  <2> USE Headcount DEF FanInInv, FanInTypeOK, NoLostParent, CountsRunning, WaitMeansAllDone, CondVarOf
  <2>1. ASSUME NEW c \in Children, StartOne(c)
        PROVE  FanInInv'
    BY <2>1 DEF StartOne, add, fanin_add_thread
  <2>2. ASSUME NEW C \in SUBSET Children, StartMany(C)
        PROVE  FanInInv'
    <3> USE <2>2, HeadcountMany
    <3>1. mFanInExpected' = Cardinality(running')
      BY DEF StartMany, fanin_add_thread, fanin_set_threadnum, fanin_initialize
    <3>2. mFanInExpected' # 0 /\ mFanInExpected' \in Nat
      <4>1. Cardinality(C) # 0
        BY FS_EmptySet, FS_Subset, ChildrenAssumption DEF StartMany
      <4>2. mFanInExpected \in Nat /\ Cardinality(C) \in Nat
        BY DEF StartMany
      <4>3. mFanInExpected' = mFanInExpected + Cardinality(C) \/ mFanInExpected' = Cardinality(C)
        BY DEF StartMany, fanin_add_thread, fanin_set_threadnum, fanin_initialize
      <4> QED
        BY ONLY <4>1, <4>2, <4>3
    <3>3. UNCHANGED mCvFanIn
      BY DEF StartMany, fanin_add_thread, fanin_set_threadnum, fanin_initialize
    <3> QED
      BY <3>1, <3>2, <3>3 DEF StartMany
  <2>3. ASSUME NEW c \in Children, Done(c)
        PROVE  FanInInv'
    BY <2>3 DEF Done, done, NotifyAll
  <2>4. ASSUME NEW p \in Parents, CallWait(p)
        PROVE  FanInInv'
    <3>1. mCvFanIn' \in CondVarOf(Parents) /\ mCvFanIn'.asleep \cap mCvFanIn'.awake = {}
      BY <2>4 DEF CallWait, wait, Sleep
    <3>2. mFanInExpected = 0 => mCvFanIn'.asleep = {}
      BY <2>4 DEF CallWait, wait
    <3>3. told' # {} => mFanInExpected = 0 \/ told # {}
      BY <2>4 DEF CallWait, wait, LetThrough, Sleep, Waiting
    <3> QED
      BY <2>4, <3>1, <3>2, <3>3 DEF CallWait, wait, LetThrough
  <2>5. ASSUME NEW p \in Parents, ParentWakes(p)
        PROVE  FanInInv'
    <3>1. mCvFanIn' \in CondVarOf(Parents) /\ mCvFanIn'.asleep \cap mCvFanIn'.awake = {}
      BY <2>5 DEF ParentWakes, FanInWake, Sleep, Leave
    <3>2. mFanInExpected = 0 => mCvFanIn'.asleep = {}
      BY <2>5 DEF ParentWakes, FanInWake, Leave
    <3>3. told' # {} => mFanInExpected = 0 \/ told # {}
      BY <2>5 DEF ParentWakes, FanInWake, LetThrough, Sleep, Waiting
    <3> QED
      BY <2>5, <3>1, <3>2, <3>3 DEF ParentWakes, FanInWake, LetThrough
  <2>6. ASSUME NEW p \in Parents, ParentStirs(p)
        PROVE  FanInInv'
    BY <2>6 DEF ParentStirs, FanInSpurious, Rouse
  <2>7. CASE UNCHANGED FanInVars
    BY <2>7 DEF FanInVars
  <2> QED
    BY <2>1, <2>2, <2>3, <2>4, <2>5, <2>6, <2>7 DEF FanInNext
<1> QED
  BY <1>1, <1>2, PTL DEF FanInSpec

\* The variables have their types; in particular the counter is never below 0.
THEOREM FanInTypes == FanInSpec => []FanInTypeOK
<1>1. FanInInv => FanInTypeOK
  BY DEF FanInInv
<1> QED
  BY <1>1, FanInInvariant, PTL

\* "main thread must wait for all child threads to finish": a parent that
\* wait() has let through finds all of them done, for any number of parents
\* and children.
THEOREM FanIn == FanInSpec => [](WaitMeansAllDone /\ NoLostParent)
<1>1. FanInInv => WaitMeansAllDone /\ NoLostParent
  BY DEF FanInInv
<1> QED
  BY <1>1, FanInInvariant, PTL

=============================================================================
