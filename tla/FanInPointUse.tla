--------------------------- MODULE FanInPointUse ----------------------------
(***************************************************************************)
(* A FanInPoint, the parents that wait at it and the children they wait    *)
(* for, as tests/threading_test.cpp and examples/threading.cpp use it: a   *)
(* child is counted, then started, and calls done() at its end.  (The demo *)
(* in examples/threading.cpp counts none: its wait() returns at once.)     *)
(*                                                                         *)
(* `running' and `told' are history variables: the children whose done()   *)
(* is still to come, and the parents that wait() has let through since the *)
(* last child was started.                                                 *)
(*                                                                         *)
(* Where SyncPointUse has a definition of the same kind, the name here     *)
(* speaks of the fan-in point: SyncFanInProofs extends both.               *)
(***************************************************************************)
EXTENDS FanInPoint, FiniteSets

CONSTANTS Parents, Children

ASSUME ChildrenAssumption == IsFiniteSet(Children)

VARIABLES running, told

FanInVars == <<mFanInExpected, mCvFanIn, running, told>>

\* The parents inside wait().
AtFanIn == Waiting(mCvFanIn)

FanInInit ==
  /\ ConstructFanInPoint(0)
  /\ running = {}
  /\ told = {}

\* One more child: waiter.add(), then the thread that will call done().
StartOne(c) ==
  /\ c \notin running
  /\ add
  /\ running' = running \cup {c}
  /\ told' = {}

\* Several children at once, on top of those that run or for a new round.
StartMany(C) ==
  /\ C # {} /\ C \cap running = {}
  /\ \/ fanin_add_thread(Cardinality(C))
     \/ running = {} /\ fanin_set_threadnum(Cardinality(C))
     \/ running = {} /\ fanin_initialize(Cardinality(C))
  /\ running' = running \cup C
  /\ told' = {}

Done(c) ==
  /\ c \in running
  /\ done
  /\ running' = running \ {c}
  /\ UNCHANGED told

\* The parents that are let through by a step.
LetThrough(p) == told' = IF p \in Waiting(mCvFanIn') THEN told ELSE told \cup {p}

CallWait(p) ==
  /\ p \notin AtFanIn
  /\ wait(p)
  /\ LetThrough(p)
  /\ UNCHANGED running

ParentWakes(p) ==
  /\ FanInWake(p)
  /\ LetThrough(p)
  /\ UNCHANGED running

ParentStirs(p) == FanInSpurious(p) /\ UNCHANGED <<running, told>>

FanInNext ==
  \/ \E c \in Children : StartOne(c) \/ Done(c)
  \/ \E C \in SUBSET Children : StartMany(C)
  \/ \E p \in Parents : CallWait(p) \/ ParentWakes(p) \/ ParentStirs(p)

\* A notified parent gets the mutex in the end.  Children need not finish.
FanInFairness == \A p \in Parents : WF_FanInVars(ParentWakes(p))

FanInSpec == FanInInit /\ [][FanInNext]_FanInVars /\ FanInFairness

-----------------------------------------------------------------------------

FanInTypeOK ==
  /\ mFanInExpected \in Nat
  /\ mCvFanIn \in CondVarOf(Parents)
  /\ mCvFanIn.asleep \cap mCvFanIn.awake = {}
  /\ running \subseteq Children
  /\ told \subseteq Parents

\* "main thread must wait for all child threads to finish": a parent that
\* wait() has let through finds no child that was started before and still
\* runs.
WaitMeansAllDone == told # {} => running = {}

\* No parent sleeps on when the last child is done.
NoLostParent == mFanInExpected = 0 => mCvFanIn.asleep = {}

\* A parent gets out of wait() once every child is done, if nobody starts
\* another one first.
WaitReturns ==
  \A p \in Parents :
    (p \in AtFanIn /\ running = {}) ~> (p \notin AtFanIn \/ running # {})

=============================================================================
