# fredlib in TLA+

fredlib (`src/include/`) is a header-only C++ library: points where threads
meet, wait for each other or pause; two thread pools built from them; a linked
list that threads share; and keys made by hash functions, some of them vendored
(`src/hashes/`). This directory models the concurrent parts and the hashing down to
the compression functions, checks the models with TLC, and proves with TLAPS, for any
number of threads, nodes, calls and bytes: what the three meeting points and the two
pools promise, that the list is a deque, that BLAKE3 in whatever pieces hashes the tree
of the whole message, and that keys stand for their inputs.

Contents: [inventory](#inventory) · [modules](#modules) ·
[how code becomes steps](#how-code-becomes-steps) · [runs](#runs) ·
[fairness](#fairness) · [proofs](#proofs) · [findings](#findings) ·
[what is not modelled](#what-is-not-modelled) · [plan](#plan)

## Inventory

The modelled parts, from the bottom up.

**SyncPoint** (`include/threading.hpp:29-83`). State: a counter
`mExpectedThreads`, a condition variable, a mutex. `sync()` decrements the
counter; the thread that brings it to 0 notifies all, the others wait for it to
be 0. `initialize`, `set_threadnum`, `add_thread` write the counter and notify
nobody. Hard: the counter is at once the number of missing threads and the
predicate of the wait, so whoever arms the point anew also changes what the
threads that were woken will see. It is right when nobody leaves before the
last thread of the round has come, and everybody leaves after.

**FanInPoint** (`:89-149`). A counter of unfinished children; `done()`
decrements it and notifies all at 0, `wait()` waits for 0, `add()` and the
setters raise or set it. Hard: `done()` may come between a parent's look and its
sleep; several parents, and children that are added while a parent waits. Right
when no parent gets through while a counted child runs, and none stays
afterwards.

**PausePoint** (`:152-238`). A flag, the number of threads held, the number
expected, and two condition variables. `pauseIfRequred()` holds the calling
worker while the flag is set; `pause()` sets the flag and waits for held =
expected; `resume()` clears it, notifies, and waits for held = 0. Hard: one
counter serves two waits with opposite predicates; a worker that has been
notified and not yet run when the next `pause()` comes stays held; workers that
end are still expected. Right when `pause()` returns only with every worker held,
`resume()` only with none, and both return.

**ThreadControl** (`:240-294`). The three points as base classes, plus an atomic
stop flag. Its setters call the setter of each base in turn: three critical
sections. `stop()` sets the flag, with no lock and no notification, and waits at
the fan in point.

**GenericThreadPool** (`:415-512`). A vector of threads with a mutex, an
`IntrusiveSafeList` as task queue, a ThreadControl. A worker loops: pause point,
stop flag, `pop_front(100)`, run the task; at its end it calls `done()`. A new
thread is started *before* it is counted. `stop()` waits for all, joins, clears
the vector. Hard: everything above at once; the flags are polled between two
tasks; the join loop holds no lock. Right when a paused pool is quiet, a stopped
one stays stopped, a task runs once, and every call returns.

**WorkerThreads** (`:307-408`). The same ThreadControl under a routine of the
user's; threads are counted *before* they are started. `pause`, `resume`,
`sync`, `wait`, `stop`, `join`, `add_thread`. Hard: the threads that
`add_thread()` counts in three steps while the old ones pause, meet or end, and
that may run another routine; the main thread's `sync()` at a point that counts the
workers only. Right when the workers meet all together, a paused object is quiet, a
stopped one stays stopped for the routines that look at the flag, and every call returns.

**SafeList, listHook, IntrusiveSafeList** (`include/safe_list.hpp`). A doubly
linked list through hooks in the nodes; head, tail, a 32-bit size, a mutex, a
condition variable for pops with a timeout. Hard: `push_front()` evaluates
`mHead` before `insert()` takes the lock; a caller picks a node, then calls
`insert()` or `erase()`, and other threads are in between; one end of the list
is the other end too when a single node is left. Right when the list is a
sequence, every operation happens at once, and no popper sleeps beside a node.

**Iterators** (`:200-297`, `:412-496`). `begin()` reads the head without the lock,
`++` and `--` take it for one move each; nothing keeps the node in the list
between two moves.

**HashKey and the engines** (`include/hash.hpp`). A key is a digest of a fixed number
of bytes, worked out by the constructor with one of five engines; keys are compared
and used in sets. State: what an engine keeps from one call to the next, in
`static thread_local` (BLAKE3's hasher, SHA's context) or plain `static` variables
(the short results of xxHash and City, which all threads share). Right when equal
inputs and only those give equal keys.

**BLAKE3** (`hashes/b3`). The incremental hasher: a chunk with one block in a
buffer, and a stack of the chaining values of finished subtrees, merged as late as
possible because the root is compressed with a flag of its own. Long inputs go
through subtree functions that hash as many chunks at a time as the CPU allows,
which a lookup of the CPU's features without any lock decides. Hard: block, chunk
and subtree boundaries, all powers of two and all decided one byte late; modes,
`reset` and seeking; what the lookup is if several threads do it at once. Right
when the digest is that of the whole message's tree.

**XXHash64** (`hashes/xxhash64.h`). Four lanes and a 32 byte buffer; `add()` takes
pieces, `hash()` may be called at any time. Right when pieces do not matter.

**CityHash** (`hashes/city`). `CityHashCrc256()` reads its input by windows of 240 and
40 bytes, the last one moved back to the end; an input under 240 bytes is copied into
zeros. Right when every byte counts and none behind the input is read.

Not modelled: the time helpers, `safe_stdout`, the macros; see
[below](#what-is-not-modelled).

How they interact: PausePoint, FanInPoint and SyncPoint are bases of
ThreadControl; the two pools own one ThreadControl each and share it with their
threads; GenericThreadPool also owns a SafeList, whose condition variable its
workers sleep on. The engines call the hashes; a task may make keys, and then several
threads are in one engine at once. There are no callbacks besides the tasks and routines, and no
persistent state: what is hard here is interleaving, stale reads and waits that
do not end. `PROJECT.json` lists each hazard at its line.

## Modules

| module | models | built on |
|---|---|---|
| `CondVar` | `std::condition_variable`: asleep, notified, spurious wakeups (external) | |
| `SyncPoint` `FanInPoint` `PausePoint` | the operations of each class | `CondVar` |
| `SyncPointUse` `FanInPointUse` `PausePointUse` | the threads that use one, and its properties | the class |
| `SyncFanInProofs` `PausePointProofs` | theorems about those | the `Use` modules |
| `ThreadControl` | the three classes in one, and the stop flag | the three classes |
| `Deque` | what a SafeList promises: a sequence, each operation at once | `CondVar` |
| `DequeSpec` | the abstract specification of the list | `Deque` |
| `SafeList` | head, tail, hooks, size: the code's list | `CondVar` |
| `SafeListUse` | threads that use it, refinement of `DequeSpec` | `SafeList`, `DequeSpec` |
| `ListIterator` | an iterator over the list in use | `SafeListUse` |
| `GenericThreadPool` | the pool: workers, clients, queue | `ThreadControl`, `Deque` |
| `WorkerThreads` | the pool of user routines | `ThreadControl` |
| `GenericThreadPoolProofs` `WorkerThreadsProofs` | theorems about the pools | the pool |
| `SafeListProofs` | theorems about the list, its refinement and the iterator | `ListIterator` |
| `Blake3Compress` | compression as an ideal function, and the helpers | |
| `Blake3` | the hasher and its subtree functions | `Blake3Compress` |
| `Blake3Tree` | what BLAKE3 is: the digest as the tree of the whole message | `Blake3Compress` |
| `CpuFeatures` | which features are detected, which implementation they lead to | |
| `XXHash64` | `add()` and `hash()`, and the hash of a whole input | |
| `CityHash` | what `CityHashCrc256` reads, and with what seed | |
| `HashEngines` | threads that make keys, a stream fed piece by piece | the six above |
| `Blake3Proofs` | theorems about the functions of `Blake3`: they build the tree | `Blake3`, `Blake3Tree`, `Counting` |
| `HashProofs` | theorems about the CPU's features, City, xxHash, BLAKE3 and the keys | `HashEngines`, `Blake3Proofs` |
| `Counting` | lemmas on numbers and finite sets, and the principle of recursion | |
| `MC...` | constants and symmetry of the runs | |

Class modules hold operations only, one action each, so that the pools can use
them unchanged; `Use` modules say who calls what when. GenericThreadPool is
composed with `Deque` and not with `SafeList`: the run `List` shows that the list
implements the deque when no call is disturbed between its two steps, and the pool
calls only `push_back()` and `pop_front()`, which have one step.

`Blake3` translates the hasher function by function; `Blake3Tree` says in fifty lines
what it is to compute: split at the largest power of two of chunks that leaves
something on the right, and so on. `XXHash64` has its reference (`Whole`) with it.

Names are the code's. Where one name would mean two things they get a prefix:
`mExpectedThreads` of the three bases is `mSyncExpected`, `mFanInExpected`,
`mPauseExpected`; the setters are `sync_add_thread`, `pause_initialize` and so on.
Next to an action there may be a second version with a comment like "A pop that
leaves the node in the list". These are not part of any specification: they are
the mistakes against which each property is tried (`mutants` in `PROJECT.json`).

## How code becomes steps

* Every member function of the classes locks one mutex on entry and only gives
  it up in `wait()` or on return. So a step is one critical section: from the
  call to the return or the first sleep, and from each wakeup to the return or
  the next sleep. The mutex needs no variable.
* A condition variable is two sets. `wait()` with a false predicate puts the thread
  into `asleep`; `notify_all()` moves all to `awake`; an awake thread evaluates
  the predicate again as it gets the mutex, and leaves or sleeps. A thread may go
  from `asleep` to `awake` for no reason (`Spurious` actions).
* `pop_front(timeout)` waits with a predicate, so a timeout makes a difference only
  when the list is still empty: `GiveUp`, `PopTimesOut`. Time itself is left out;
  return values of the form "milliseconds waited" too.
* What a function does without the lock is a step of its own: the read of `mHead`
  in `push_front()`, the stop flag, `get_numthreads()` before `stop()`, the join
  loop. So are the three base calls of a ThreadControl setter, and the start of a
  thread before or after it is counted. The join loop is one step, as `join()`
  only waits. `pauseIfRequred()` tests the flag under the mutex, in its step.
* The integer counters of the three points are never near their limits in any
  legal use and stay unbounded; `mSize` is a `uint32_t` that is decremented
  without a check, and wraps at `Sizes`, 2^32 in the code.
* Threads, nodes and tasks are model values. A task is what becomes of it:
  `new`, `queued`, `running`, `done`. What tasks compute, and what a routine does
  between its calls, is left out.
* UB is kept out by guards that say what the program must do, where it is a data
  race of the user's program or a call the standard forbids: `VectorFree` in
  `WorkerThreads` and `NobodyStops` in `GenericThreadPool` (nobody goes through the
  vector without the lock while `add_thread()` appends or another call joins the same
  threads), iterators that are not moved past the end, nodes that are in one list at a
  time. A client makes a call only where it can come to an end, whatever the workers do:
  `pause()` of a `WorkerThreads` all of whose routines call `pauseIfRequred()`, `wait()`
  and `join()` of threads that end by themselves or have been stopped. `sync()` has no
  such guard, as there its callers are the question. Threads that never sync beside
  others that do are left out of the run `WorkerThreads` (`OneOrTwo`): `sync()` waits for
  them for ever.

For the hashes:

* Compression, mixing and the CRC steps are *ideal*: the value of a call is the tuple
  of its arguments. So two values are equal exactly if all that went into them
  is, and in BLAKE3 and xxHash a byte that is lost, doubled, moved or given another flag
  or counter shows in the result. CityHash is coarser: its value is one ideal call on
  the whole (padded) input, its length and its seed, and which bytes its windows read is
  a property of its own. A skipped window shows in `CityReadsAll` and nowhere else. Input bytes are pairs of a message and a position; message 0 is all
  zero bytes, so that it can be confused with padding.
* A call on an object that only one thread uses is one step. A key takes several
  where other threads may see it in between: the lookup of the CPU's features, the
  static results, the rounds of `XXhash64Engine`.
* `get_cpu_features()` reads the shared word once per compression in the code; here it
  is read once per call that compresses, since every store after the first stores the
  same value again. The store is one step: one aligned word, in the x86-64 builds that
  the project makes.
* The SHA engine is modelled by how `hash.hpp` calls OpenSSL.
* Constants are scaled so that TLC gets to the interesting lengths: blocks of 2 and
  chunks of 8 bytes instead of 64 and 1024, `update_len` of 40 bytes instead of 64 MB.
  What CityHash and xxHash do at 240, 40 and 32 bytes is not scaled.

The `Use` modules' actions are what the repository's own callers do: rounds
armed when the last one is over (`tests/threading_test.cpp`), children counted
before they start, `initialize()` of a pause point only when nobody is held or
pausing. What happens otherwise is a constant where it is of interest
(`EagerRearm`, `MayExit`, `Exclusive`; `StopPaused` of both pools; `May`, which calls a
client makes; the `Programs` of `WorkerThreads`, which routines are given to the threads
of one object, and of `HashEngines`).

History variables say what has happened: `arrived`, `told`, `pausers`,
`outsideSyncs`, `did`, `ahead` and `keys` are in no guard. `running`, `workers`, `ctl`, `task` and `listed` stand for
what the calling program knows (which threads it has started, which call it is in,
which node it may still put into a list) and guard its calls only, never a step of
the library.

## Runs

`tlc -config X.cfg MC....tla`. Each run asks one question; "fails" means that TLC
must find the property violated.

| run | question | properties | distinct states |
|---|---|---|---|
| `SyncPoint` | rounds of 1 to 4 threads, armed when all have left | `TypeOK` `LeaveTogether` `SyncReturns` | 173 |
| `FanInPoint` | 3 parents, 3 children, new ones any time | `FanInTypeOK` `WaitMeansAllDone` `WaitReturns` | 216 |
| `PausePoint` | 1 controller, 4 workers that loop and may end | `TypeOK` `PausedMeansAllStopped` `ResumedMeansNoneStopped` `CountMatches` `PauseReturns` `ResumeReturns` | 1 400 |
| `Pool` | add, pause, resume, stop by one client, pushes by another | `TypeOK` `QuietWhilePaused` `StopIsFinal` `TaskRunsOnce` `QueuedTaskRunsUnlessHeld` `PauseReturns` `StopReturns` | 11 109 |
| `Pool_stop_paused` | `stop()` of a paused pool | `StopReturns` fails | |
| `Pool_add_pausing` | `add_thread()` during another client's `pause()` | `QuietWhilePaused` fails | |
| `WorkerThreads` | 3 routines, also mixed; one client pauses, resumes, waits, stops and joins, another adds threads at any time, both call `sync()` | `TypeOK` `QuietWhilePaused` `StopIsFinal` `SyncTogether` `PauseReturns` `StopReturns` `JoinReturns` | 298 715 |
| `WorkerThreads_sync` | `sync()` of the object beside routines that sync | `AllSynced` fails | |
| `List` | 3 threads, 4 nodes, 1 iterator, calls undisturbed between their steps | `TypeOK` `SizeMatches` `LinksMend` `NoLostWakeup` `WalkMeetsAll` `ImplementsDeque` | 9 229 (symmetry) |
| `List_race_insert` | calls disturbed between their steps | `NoNodeLost` fails | |
| `Hash` | 2 threads make keys with each engine on nine kinds of CPU; one thread feeds a BLAKE3 or XXHash64 stream | `TypeOK` `SameKeyIffSameInput` `DigestIsTree` `StackFits` `XXHashIsWhole` `CityReadsAll` `OnlyWhatTheCpuRuns` | 47 544 |
| `Hash_short` | xxHash keys of 4 bytes, one thread | `SameKeyIffSameInput` fails | |

A property that another one of the same run implies is not run again: no wakeup can be
lost where every call returns (`NoLostWakeup` of the sync and the pause point,
`NoLostParent` of the fan in point, which are proved), and no node where the list implements the deque (`NoNodeLost`).

What the deeper properties say:

* `LeaveTogether` (an action property): a thread gets out of `sync()` only when as
  many threads as were announced for *its* round have come. `SyncReturns`: then it
  does get out.
* `PausedMeansAllStopped`: from the return of `pause()` to the next `resume()` all
  workers are held. It relates what the controller was told some time ago to
  where the workers are now. `QuietWhilePaused` is the same of the pools, where
  threads are added too. The two pools differ in it: WorkerThreads keeps it when
  another client adds threads meanwhile, as it counts first; GenericThreadPool
  does not (`Pool_add_pausing`).
* `StopIsFinal`: once `stop()` has returned no worker does anything, whatever was
  pushed or added before, meanwhile or after.
* `TaskRunsOnce` and `QueuedTaskRunsUnlessHeld`: with timeouts, spurious wakeups
  and several workers at one queue a task is neither taken twice nor left behind.
* `SyncTogether`: `sync()` of the object is counted in a worker's place, so a worker may
  leave before all have come; but it leaves no more workers behind than clients have
  called `sync()`, and threads that `add_thread()` counts while others are already in
  `sync()` are waited for. `AllSynced` is the barrier itself: nobody is left behind. It
  is what the words at `SyncPoint::sync()` promise, it holds as long as no client calls
  `sync()` (which is proved), and `WorkerThreads_sync` shows it violated when one does.
  Whoever calls once too often sleeps there for ever, a client or the last worker, and then
  `join()` (and `wait()` for a routine that syncs first) waits too; so `StopReturns` and
  `JoinReturns` promise a return as long as no client has called `sync()`, which is no
  step the system has to take.
* `LinksMend`: backwards the list is what it is forwards, in reverse; a node that
  has been taken out keeps no link. `ImplementsDeque`: the list *is* a sequence
  and each call one operation on it. The mapping takes for the sequence the nodes
  that a walk from `mHead` meets; `did` records the operation and its node, so
  that a step cannot pass for another one that ends in the same sequence. `TypeOK` of
  the list says that head and tail are null together and the links out of both ends are.
* `WalkMeetsAll`: while the node an iterator stands on stays, everything behind it
  that stays can still be reached with `++`.

* `SameKeyIffSameInput`: a key stands for its input, whatever the same or another
  thread hashed before or is hashing. `DigestIsTree`: the stack, the lazy merges, the
  subtrees and the degree of the CPU together always come to the tree of the
  message, in three modes, at any moment, also after `reset`, and at any place of the
  output. `StackFits` is why the stack of `BLAKE3_MAX_DEPTH + 1` places is enough, and
  why `finalize` may take two values off it.
* `OnlyWhatTheCpuRuns`: what the lookup stores never leads to instructions that the CPU
  lacks or whose registers the system does not save.

### Why the bounds are enough

The points count threads and do not tell them apart; the cases differ in whether
there is none, one, or more than one thread asleep, awake, still to come, or gone.
Three or four threads give all of them at once. `Pool` has two workers: while one
is at a task, at its pause check or waiting at the queue, the other one is held,
not yet counted, or ended. (A run with three workers and one client, 206 729
states, agrees; it takes minutes and is not among the runs.) `WorkerThreads` has
three, so that `add_thread()` may count two at a time in mid-round, and give them
another routine than the third one's (`OneOrTwo`: each routine for all, or the two that
sync together). Threads that are not started yet are alike, so that the next one to start
is a fixed one of them. Each task, node
and thread is used over and over again except the pool's tasks and workers, which
have one life each: `Tasks` and `Workers` bound how much is pushed and started.
Two tasks are a queue that is neither empty nor a single node. Four nodes are a
first, a last, one between and one to be inserted; `Sizes = 4` makes `mSize` wrap
at four nodes, so that the wrap happens. `MayCountOne` in `PausePointUse` bounds the
threads counted, the ended ones included. The run `PausePoint` has one controller, which
is what its properties are promised for; `CountMatches` and `NoLostWakeup` hold for
several, which is proved. Only safety properties are checked under
symmetry.

In `Hash`, `Pieces` are one byte, a chunk less one, a chunk, one more, two, four and
17 chunks with and without a rest, and 33 chunks, and `MaxLength = 280` bytes is 35
chunks: every subtree size up to twice the widest degree (16), at every start that
pieces before it leave, and a stack of up to six. For xxHash they are less than, equal
to and more than its 32 bytes in every combination. Key inputs sit on both sides of 240
bytes, with and without a last window that overlaps. `MaxKeys = 2` lets each thread make
a key after another one. The CPUs are one for each implementation and those whose
system saves part of the registers, none, or has no leaf 7.

Deadlock is checked in every run but those of the hashes, where programs come to an
end: a state where everybody waits for everybody is
an error even where no property speaks of it.

## Fairness

Weak fairness, per thread, on what the thread does by itself: a thread that was
notified gets the mutex and looks at its predicate; a worker that can take its
next step takes it; a client that is inside a call goes on; in the pool the
timeout of `pop_front(100)` expires (`WorkerTimesOut`). That is what an operating
system's scheduler and a mutex under light contention give; a critical section of
this library never blocks inside, so an enabled step stays enabled until taken
(for mutexes, until the thread in front of it has left). In `PausePointUse` workers
call `pauseIfRequred()` again and again, and in the pool tasks end: both are the
class's contract with its user. No call of the user's, no spurious wakeup and no
`done()` of a child is fair. In particular a paused pool need never be resumed,
and `QueuedTaskRunsUnlessHeld` says so.

## Proofs

`tlapm M.tla` proves every obligation of the eight modules that hold theorems, for all
values of the constants that satisfy the named assumptions (`ASSUME` in the modelled
modules: the sets of threads and of nodes are finite, NULL is no node and `NoTask` no
task, a stream has one thread; a chunk is a whole number of blocks
and a power of two bytes, and what counts keys,
bytes and places of the output is a natural number, as it is a `size_t` or a `uint64_t` in
the code). A theorem that needs more has it as a hypothesis with a
name; each of these is true in the passing runs that check the property (`AllSynced` has
none), and for each a run or a trace named below shows what happens without it. No theorem speaks of liveness.

**SyncFanInProofs.** Of the sync point, `TypeAndWakeup`: types, and nobody asleep while the counter is
0, also with `EagerRearm`; the two are inductive together, as the only step that
brings the counter to 0 notifies all. `Barrier`: `LeaveTogether`, if the point is
armed anew only when all have left. A thread leaves when the counter is 0, and that
has to mean that all have come: `CounterInv` (arrived = armed - counter). Each call
counts one more only if the caller is new to the round: `InsideInv` (while the
counter is not 0, the threads inside are exactly those that have come).

Of the fan in point, `FanInTypes`, and `FanIn`: `WaitMeansAllDone` and `NoLostParent`,
by the invariant that the counter is the number of running children. The lemmas are about
cardinalities of finite sets.

**PausePointProofs.** `PausePointTypes` and `CountAndWakeup`: `mPausedThreads` is the
number of threads inside `pauseIfRequred()`, nobody sleeps on when what it waits for has
come true, and no counter goes below 0, for any number of controllers that pause and
resume against each other, and workers that end. The strengthening says that the waiting
threads are workers, or controllers that are in a call. `PauseHolds` and
`ResumeReleases`: under `OneController`, `PausedMeansAllStopped` and
`ResumedMeansNoneStopped`. They need three facts more: the flag is set exactly while
the controller is pausing or paused; no more workers run than are counted, so that
held = expected means all; and the implication itself, kept by each step because nobody
leaves while the flag is set. With two controllers both are false: a second `resume()`
may come between the last worker's stop and the first controller's wakeup.

**GenericThreadPoolProofs.** Four theorems, all for any workers, clients and tasks.
* `NoTaskTwice`: `TaskRunsOnce`, whatever the clients call, with `StopPaused` and
  concurrent `add_thread()` too. `TaskRunsOnce` alone says nothing of the queue, so a
  step that takes a task could take one that has run: the invariant `Places` says that the
  queue holds queued tasks, each in one place, and that a worker at a task has one that
  runs and that no other worker has. One lemma for each step that moves a task (push,
  take, run), one for all that move a worker only, one for all others.
* `PoolTypes`: that `mPausedThreads` stays in its type is a fact about all workers (each
  that is held has been counted), so `TypeOK` is inductive only with `HeldCounted`.
* `StopEndsWork`: `StopIsFinal`, for any number of `stop()` calls, one after the other,
  with `add_thread()` before and after each. `StopInv`: once the flag is set no worker comes to a task that was not at one,
  and until none is left some `stop()` has still to wait or join; a started worker that
  the joins miss, as it is not in the vector, was started after all others had ended.
* `PausedPoolIsQuiet`: `QuietWhilePaused`, under `OneKeeper`: the client that pauses and
  resumes is the one that adds threads. `QuietInv` counts: every started thread is expected
  by the pause point but for the one in the hands of the client that adds it, and that
  client is not in `pause()`. Without the hypothesis the run `Pool_add_pausing` has a
  counterexample.

**WorkerThreadsProofs.** The counters are shared by three classes and written in several
steps, so all rests on one invariant, `CountInv` (`CountersRight`): the pause point
expects the threads that are started or announced to it, the fan in point those of them
that are not done, and held workers are counted. From it:
* `StopEndsWork`: `StopIsFinal`, for any mix of routines, and `PausedWorkersAreQuiet`: `QuietWhilePaused`, under
  `OnePauser` (one client pauses and resumes; others may add threads and stop, which is
  what tells this pool from the other one).
* `WorkerThreadsTypes` and `WorkersSyncTogether`, whatever the clients call and whatever
  routines are mixed: the sync counter is the number of workers that have not come,
  started or not, less the calls of clients, so a worker that leaves has left at most
  that many behind (`LeavesFewBehind`). `AllWorkersSynced`: `AllSynced`, under
  `OnlyWorkersSync` (no client calls `sync()`), which makes that number 0; the run
  `WorkerThreads_sync` has a counterexample without it.

**SafeListProofs.** For any nodes, threads and width of `mSize`, under `Exclusive` (no call
is disturbed between its two steps; `List_race_insert` shows what happens otherwise). The
code's list is four variables that are right only together. `ListInv` says that the hooks
of all nodes, the head, the tail and the size are those of one sequence of distinct nodes
(`Holds`), and that a call in its second step still has in hand what it read (`CallInv`).
Each operation is shown to turn the hooks of a sequence into those of the sequence with a
node more (`Inserted`) or less (`Removed`), by cases on the ends. So:
* `ListImplementsDeque`: the refinement, step by step: each step of `SafeListUse` is the
  step of `DequeSpec` on the sequence, or stutters.
* `ListTypes` (with the ends of the links), `SizeIsRight`, `LinksAreMended`, `NoNodeIsLost`, `NoWakeupIsLost`.
* `IteratorMeetsAll`: `WalkMeetsAll`. What an iterator can still reach changes with every
  operation of others; the order of two nodes that both stay does not (`KeepsOrder`), so
  the nodes it is to meet stay behind its own (`WalkInv`).

These properties are stated with walks over the links (`Walk`), recursive functions that
nothing can be proved about by induction here. Instead, if a walk that follows a
sequence did not meet it, there would be a first step at which it goes astray
(`LeastNumber` of `Counting`), and there is none (`WalkMeets`).

**HashProofs.** For any programs, threads, inputs, lengths, pieces and CPUs.
* `NoIllegalInstruction`: `OnlyWhatTheCpuRuns`, for every set of CPUID and XCR0 bits
  (`Cpus`; the one thing taken of CPUs is that AVX512VL comes with AVX512F), not the nine
  kinds of the run.
* `EveryByteIsHashed`: `CityReadsAll`. The windows of `CityHashCrc256Long()` are those at
  every 40th byte and one that ends with the input (`WindowsAre`), so an input of any
  length from 40 bytes on is covered (`WindowsCover`), and shorter ones are filled up.
* `XXHashOfTheWhole`: `XXHashIsWhole`. `Took` says that an object's processed blocks
  and what its buffer holds are together the bytes it was given. `add()` keeps it however
  long the input and whatever is in the buffer (`AddTakes`), and `hash()` of an object that
  took some bytes is the reference on them (`HashIsWhole`).
* `HashTypeOK`: `TypeOK`; `StackHasRoom`: `StackFits`; `DigestOfTheTree`: `DigestIsTree`,
  which need no hypothesis. `HashInv` is the conjunction that is inductive: `HashersInv`
  (lengths and stack of every thread's hasher are right whoever it belongs to), `StreamInv`
  (a stream's hasher is what a hasher is after `fed` bytes of the message, with the key and
  flags of its mode, and `out` was the tree's digest), `B3KeysInv` (a thread in `hash()` has a
  hasher after nothing or after all of its input, and keys are their input's digests). Each
  step is `HasherUpdate`, `HasherDigest` or `NewHasher` of `Blake3Proofs`.
* `KeysTellInputsApart`: `SameKeyIffSameInput` for all engines. For each engine an invariant
  says what a thread in `hash()` has in hand (`SHACall`, `XXCall`, `CityCall`, `B3Call`) and
  what its keys are of; and the value of an input tells its length and its first byte, which
  together tell the input (`WholeTells`, `CityTells`, `BytesTell`, `DigestTells`). For
  BLAKE3 that says that two trees of different inputs differ, wherever they are split: a root
  node is a chunk's or a parent's, a chain of blocks can be read backwards to its key, and
  every node tells how many bytes it is over and the first of them (`NodesTell`).

`XXHashOfTheWhole` and `KeysTellInputsApart` have the hypothesis `NoSharedResult`: no digest
is copied from a function's `static` result that another call may have written, so an
xxHash64 key has at least 8 bytes and a City key of less than 32 bytes is made by one thread
only. `Hash_short` is the counterexample for the first; for the second see
[findings](#findings).

**Blake3Proofs.** For any key and flags, any message, any way to cut it into calls, any
degree that is a power of two, any length of chunks that is one, and any length of blocks
that divides it. Each function of the hasher is shown to do to the tree of `Blake3Tree` what it is for; `Node(p, c, n)` is the
tree's node over the `n` bytes from chunk `c` on.
* Inside a chunk: `chunk_state_update()` takes the chunk state from any point of a chunk to
  any later one (`ChunkUpdate`). The last block is always held, even when it is full
  (`WholeBlocks`), so its output is the chunk's last compression (`ChunkOutput`).
* Subtrees: for a whole subtree `compress_subtree_wide()` returns, for every degree, a row of
  nodes of equal subtrees that make it up (`WideRow`), which
  `compress_subtree_to_parent_node()` halves until the two children are left (`NarrowRow`).
* The stack: `Ladder` says that its values are nodes of adjacent subtrees whose sizes are
  powers of two that fall, but for the two on top, which may be equal. `popcnt` of the
  chunk counter is less than the height exactly as long as a merge is due (`FewerOnes`,
  `Ones`), so `hasher_merge_cv_stack()` merges what it should and no more (`Settles`),
  and a subtree that `ShrinkToFit` chose fits on top (`PushGrows`). The
  height is at most one more than the logarithm of the counter (`LadderHeight`).
* `HasherUpdate`: a hasher that has taken `m` bytes (`After`) and is given `n` more has taken
  `m + n`. `HasherDigest`: `finalize` rolls the stack up from the top, and its output is the
  tree's at any place (`RungNode`, `OutputBytes`).

Loops and recursive functions are here without an induction theorem, which no installed
prover can instantiate: `Counting` has constants for the domain, a measure and the body of a
recursive definition, and proves, with a least counterexample (`LeastNumber`), that what
`CHOOSE` picks satisfies its equation when the body looks at smaller arguments only
(`Recursion`). Each recursive function is an `INSTANCE` of it (`Tree`, `Wides`, `Merges`,
`Copies`, ...), and what holds of all its values follows with a least counterexample again.

All safety properties that a passing run checks are proved. What is only model-checked is
all liveness: `SyncReturns`, `WaitReturns`, `PauseReturns`, `ResumeReturns`,
`StopReturns`, `JoinReturns`, `QueuedTaskRunsUnlessHeld`. It rests on fairness, and so on
`ENABLED`, which the prover does not reach.

## Findings

Five places where the code and its own words part. Each is a run; the trace of a
safety property is TLC's shortest.

1. `Pool_stop_paused`, `threading.hpp:500`. `stop()`, and so the destructor, of a
   paused pool waits for ever. So does `stop()` of a paused `WorkerThreads`
   (`threading.hpp:367`): with `StopPaused = TRUE` its run fails in the same way.
2. `Pool_add_pausing`, `threading.hpp:463`. A thread that is started before it is
   counted makes up the number for one that still works, and `pause()` returns.
3. `List_race_insert`, `safe_list.hpp:133`. `push_front()` against `pop_front()` loses
   the pushed node.
4. `Hash_short`, `hash.hpp:299`. An xxHash key of less than 8 bytes is copied from
   `static uint64_t result = myhash.hash()`: the initializer runs once, and all later
   keys are the first one's.
5. `WorkerThreads_sync`, `threading.hpp:349`. `sync()` of the object makes one call more
   than the point counts, so a worker leaves before the last one has come, and the last
   to call waits for ever. The demo (`examples/threading.cpp:218`) offers it.

Met while modelling, with no run of their own:

* `EagerRearm = TRUE` with `SyncReturns`: a thread woken by the last arrival finds the
  sync point armed again, and sleeps on (`threading.hpp:60`). "sync() will return when
  all threads have called sync" (`examples/threading.cpp:30`) needs the caller to wait
  until all have left.
* City keys of less than 32 bytes by two threads (`Keys("City256", 16, ...)` with both
  of them in `MCPrograms`): each copies what the other has begun in the shared
  `static` buffer (`hash.hpp:318`). `SameKeyIffSameInput` fails, also for a single input.
* `operator<` of keys (`hash.hpp:80`) returns true at the first byte that is smaller, also
  behind one that was greater: `{1,0} < {0,1}` and `{0,1} < {1,0}`. "treat mDigest as a
  big-endian number" (`hash.hpp:77`) is not what it does, and sets of keys
  (`tests/hash_test.cpp`) rely on an order.
* `pause()` waits for a worker that has ended; `PauseReturns` of `PausePointUse` says so
  (`SomeoneLeft`).
* The fan in point of `examples/threading.cpp:109` counts no child, so `wait()` returns
  at once; tasks queued at `stop()` are dropped; `add_thread()` of one thread during
  `stop()` of another changes the vector that the join loop walks through; `erase()`
  of a node that another thread popped first takes the size down twice, below 0
  (`Exclusive = FALSE` with `SizeMatches`).
* `IntrusiveSafeList::Iterator::operator=` leaves out `mParent` (`safe_list.hpp:440`).
* `HashKey(std::array)` would not compile if used; `SHA3_224Key` has 26 bytes, where
  the digest has 28; `DummyHashEngine` would write behind a digest whose length is no
  multiple of 16 (no such key is made).

## What is not modelled

* **Arithmetic of the hashes**: the rounds of BLAKE3, xxHash and City. All three are taken
  as ideal functions. The SIMD and assembly versions of BLAKE3's compression are taken
  to compute what the portable one does; only the choice between them is
  modelled (x86 builds). Functions of `city.cc` other than `CityHashCrc256` have no caller
  in the repository.
* **Printing, comparison and copies of keys**: nothing that threads share.
* **Iterators**: copies, assignment and the comparison by address; two lists.
* **Destructors** are the calls they make (`stop()`, `join()`). The lifetime of
  nodes and tasks is left out: a node is never freed while in a list.
* **Thread creation that throws**, `hardware_concurrency()` and `scale`: a pool is
  asked for any number of threads from one up.
* **time.hpp, safe_stdout.hpp, micros.hpp**: no state worth a model.

## Plan

1. Done: the three points with proofs, ThreadControl, both pools, the first proof about
   one, the list with its abstract specification, one iterator.
2. Done: keys, engines, and the vendored hashes down to their compression functions.
3. Done: every safety property that a run checks is proved, for BLAKE3 from the functions of
   the hasher up.
4. Left: the liveness properties, when the prover can reason about fairness; two iterators
   on one list; and the arithmetic that the hashes' ideal functions stand for.
