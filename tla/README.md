# rmc-compiler in TLA+

rmc-compiler is an LLVM pass that compiles programs written with *explicit*
orderings between labelled memory accesses (Relaxed Memory Calculus) into
fences, dependencies and stronger accesses. A program labels its actions and
registers *edges* between them: execution, visibility or push edges, each with
a *bind site* (a block that, when it is passed, ends the obligation). The pass
must emit code that keeps every ordering the edges demand together, on every way
through the function and from one call to the next, and should emit no more than
that. The repository also holds a dozen concurrent data structures written with
the library.

This directory models the pass, with both of its ways to place fences, and many of
the data structures: the queue-based spin lock, parking and condition variables
over futexes, epochs, a queue and its free list, sequence locks and two
reader-writer locks, a ring buffer, and the four slots. It holds TLA+ modules,
TLC configurations, and proofs that TLAPS checks.

## Inventory

Component | State | Operations | Correct when
--- | --- | --- | ---
Finding actions (`RMC.cpp` `findActions`, `analyzeAction`) | `actions_`, `bb2action_`, the blocks | split each labelled region into blocks of its own; classify it by its accesses | the blocks around an action are where registrations look for them; a class never understates what the action does
Action graph (`RMC.cpp` `findEdges` to `rebuildEdges`) | `edges`, `transEdges` of each action, `edges_` | register edges and pushes, dummy actions for `pre`/`post`, transitive closure with bind sites, removal of edges without effect | nothing demanded is lost, nothing is invented
Paths (`PathCache.cpp`) | interned paths, cached components | simple paths that avoid the bind site; strongly connected components | searches are complete and exact; ids are canonical
Greedy placement (`RMC.cpp` `isPathCut` to `cutEdges`) | `cuts_`, the emitted fences, what is hidden from LLVM | cut each edge by what is there already, a branch, an address dependency, or a new fence | the emitted code orders every edge on every walk; no fence is wasted
SMT placement (`SMTify.cpp`, `insertCut`) | solver variables for each block, arc and path | constraints for each edge, arc capacities as weights, minimisation by repeated queries | every solution orders every edge; the cost found is the least
Headers, fallback, Rust bindings | none | macros that expand to registrations, or to release/acquire accesses | (rests on the language's memory model)
`qspinlock_*` | `tail_` with a lock tag, queue nodes on the stack | `lock`, `unlock` | mutual exclusion; a node is not touched after its owner left; no hand-over is missed
`futex`, `parking`, `condvar_*` | a value and its waiters; a token per thread; a sequence number | `wait`, `wake`, `park`, `unpark`, `notify_one` | no wakeup is lost
`epoch_*` | global epoch, participants, bags of garbage | `enter`, `exit`, `tryCollect`, `enroll`, `shutdown` | nothing is freed while a critical section can reach it
`unsafe_tstack_gen_*`, `freelist_*`, `gen_ptr` | stack of nodes, generation count | `pushNode`, `popNode`, `alloc`, `unlinked` | no ABA: every node is in one place
`ms_queue_*` | `head_`, `tail_`, nodes from the free list | `enqueue`, `dequeue` | a queue, although nodes are reused
`seqlock_*`, `rwlocks_*` | a count; a word with a writer's bit and a number of readers | `read_lock`, `read_unlock`, `write_lock`, `lock_shared`, `lock`, ... | no reader uses half of a value
`ringbuf_*` | an array, two counters that wrap around | `enqueue`, `dequeue` | a bounded queue for one producer and one consumer
`four_slot_*` | four slots, indices | `write`, `read` | whole values, the latest, and nobody waits
`tstack_*`, `rculist_*` | their own | stacks, lists | linearisable to the obvious sequential object

How they interact: within the pass by call and by shared vectors, in the order
of `RealizeRMC::run`: actions, edges, closure, removal, then greedy or SMT
placement; both placements query one `PathCache`. The case studies are threads
that share memory: stacks carry free lists and the garbage of epochs, epochs
reclaim the nodes of queues and lists, condition variables and parking sit on
futexes.

What is hard: in the pass nothing runs concurrently, but a program does: an
edge must be kept on *walks*, with loops, detours and the next call, while the
code looks at simple paths, at one iteration and at one repetition of the
source; a greedy step relies on what earlier steps recorded; the order of
actions and edges follows pointer values. In the case studies it is the
interleavings. The hazards, each at its line, are in `PROJECT.json`.

## Modules

Module | Models
--- | ---
`FindActions` | `findActions` and `analyzeAction`: one action for each turn of their loops, on functions whose instructions are given
`PathCache` | control-flow graphs, and what the searches of `PathCache.cpp` return: `FindAllSimplePaths`, `SameSCC`; `Dominates` for LLVM's dominator tree
`PathSearch` | the searches themselves: the recursion with its shared grey set, interned paths, Kosaraju's two searches, the cache of components
`RMCInternal` | the data of the pass: function, `Action`, `RMCEdge`, `CutStrength`
`ActionGraph` | the passes from `findEdges` to `rebuildEdges`, one action each; the closure takes a step for each triple that joins something
`Dependences` | `branchesOn` and `addrDepsOn`, which both placements use, and which values depend on an instance of a load
`Obligations` | what the registered edges demand together, and which of it can be observed
`GreedyCut` | `cutEdges`: one step for each edge
`RealizeRMC` | `run()` without the solver: `ActionGraph`, then `GreedyCut`, and the properties of the two together
`SMTify` | `smtAnalyzeInner`: capacities, constraints, cost, the search for the least cost; then `insertCut`, one step for each cut
`RealizeSMT` | `run()` with the solver: `ActionGraph`, then `SMTify`, and their properties
`QSpinLock` | `qspinlock_sc.hpp`: `lock`, `slowpathLock` and `unlock`, one action for each access to shared memory
`FairLock` | what a lock that queues its threads promises
`Futex` | `futex.hpp`: `waitInner` and `wake` on the list of one bucket; extended by the next two
`Parking` | `parking.hpp` over futexes, with the threads of `parking-test.cpp`
`CondVar` | `condvar_sc.hpp`, with the threads of `condvar-test.cpp`
`Epoch` | `epoch_sc.cpp`, `epoch_shared.hpp`: participants, garbage, epochs, and threads that use them
`GenStack` | `freelist_shared.hpp` over `unsafe_tstack_gen_sc.hpp` and `gen_ptr.hpp`
`MSQueue` | `ms_queue_sc2.hpp`, over `GenStack`
`Fifo` | what queues promise: each call takes effect once, on the queue it names; `MSQueue` and `RingBuf` implement it
`SeqLocks` | `seqlock_sc.hpp` and the two locks of `rwlocks_sc.hpp`, with the threads of `seqlock-test.cpp`
`RingBuf`, `FourSlot` | `ringbuf_sc.hpp`, `four_slot_sc.hpp`
`ActionGraph_proofs`, `PathSearch_proofs`, `RealizeRMC_proofs`, `RealizeSMT_proofs`, `QSpinLock_proofs`, `Primitives_proofs`, `Epoch_proofs`, `MSQueue_proofs` | theorems and their lemmas (`ActionGraph_proofs`: of `PathCache` and of the passes, used by the three after it; `RealizeRMC_proofs`: of the passes with the greedy placement, and of `FindActions`; `Primitives_proofs`: of `SeqLocks`, `FourSlot`, `RingBuf` and `Parking`)
`MC_...` | instances for TLC; `MC_Primitives` runs `SeqLocks`, `RingBuf`, `FourSlot` or `Parking`

### How the state corresponds to the code

A *function* is data: its control-flow graph, the `Action` records that
`findActions` and `analyzeAction` leave, the registration calls in program order,
and its values, of which only what the search for dependencies can tell apart is
kept (`load`, `rmw`, `gep` for anything it looks through, `phi`, `other`). An
action has its block to itself, as `findActions` sees to; an action of several
blocks has `bb` and `out`. Two arcs between the same blocks are one.

`actions` is `actions_`; actions are named by their index, where the code uses
pointers into the vector. `graph` and `trans` are `Action::edges` and
`Action::transEdges` of all actions, as sets of `[type, src, dst, bind]`; the
null bind site is `Outside`. `edges` is `edges_`; its order within a type depends
on pointers, so `CutEdge` takes any edge of the strongest type left. `cuts` is
`cuts_` (with the record `CutLwsync` that the code writes even for a sync);
`fences` is what was emitted at the front of a block, `kept` the branches and
`hidden` the values that `enforceBranchOn` and `enforceAddrDeps` protect from
LLVM. `pc` is the pass of `run()` under way; it is `"abort"` after a failed
assertion (the code undefines `NDEBUG`).

`transitiveClosure` inserts into containers that it iterates over; the model
joins what was there when the inner loops started.

`FindActions` has the instructions themselves: `code` is the function as it is
split, a sequence of blocks, of whose instructions only the kind, an identity and
whether the access is sequentially consistent are kept. `registrations` is the
set of register calls, of which any may be next, because the code keeps them in a
set of pointers. The branch that shaves an empty block off the end (`RMC.cpp:735`)
is never taken, because the block that was just split off has one predecessor, so
it is not in the model. The other modules of the pass start from the records that
this one yields. What a source may be is stated in assumptions: each register call has
one close call (`CallsAssumption`: the code asserts `hasOneUse`), which can be reached
from it (`ReachedAssumption`: it uses what the register call returns, so the register call
dominates it, and it is not dead code), and in a block what opens inside an action closes
inside it (`NestedAssumption`: labels are expressions). `Reach` collects the places that
are met from one place on, for what is between the calls of the source (`Inside`)
as for what is between the first block and the end of the out block (`Owned`).

### The solver

The solver is external: `SMTify` represents a formula by its models, as sets of
variables that are true (`And`, `AllOf`, `AnyOf`). The constraints contain no
negation, so every model extends a minimal one and only those are kept; and of
these only the ones that cost no more than a fence in front of the destination of
every edge (`Least`), because that is always a solution (proved: `SolverFindsCuts`). `solver` holds the
models of all constraints; a query is whether one has at most a given cost; and
`TakeModel` takes any of the cheapest. `cap` is the answer of the first solver
query, the capacities of arcs; of the multiples of a solution the least is taken,
which scales all costs alike but for the `+ 1` of a fence. `CapacityTable` is
computed once for all graphs. `front` and `back` are what `insertCut` inserts at
the front of a block and before its terminator, `strong` what
`strengthenBlockOrders` changes; `lo` and `hi` the arguments of `findFirstTrue`, one
recursive call a step. The variant of `findFirstTrue` that searches upwards for
a bound is not used (`kGuessUpperBound`) and not modelled.

### What the emitted code orders

The properties do not repeat the code's own tests. `RealizeRMC` follows one
instance of an edge's source along *all walks* of the program (`Walked`): which
values still depend on that instance, whether a branch on such a value was
taken, whether a fence was passed. A phi takes the value of the arc the walk
arrives by, so a value from an earlier turn of a loop does not count. Passing
the bind site ends the obligation. `Ordered(e)` holds when every arrival at the
destination is ordered: by a fence strong enough for the type, for an execution
edge (and a visibility edge to a read, which is no more) also by the address it
accesses or, if it writes, by a branch. The assumption about processors is the one
in the code: addresses order reads and writes, branches order writes, an RMW
branches on what it read. `Demanded` is the least transitive set over the
registered edges, computed without the code's loops; `Observable` says which of
its edges a program can notice.

`RealizeSMT` judges in the same way, with more kinds of cuts: an isync orders
what is behind a branch, a dmb st only writes, a dmb ld only what is behind a read,
and releases and acquires order as the architecture says (`relAbuse`: on ARMv8 a
release keeps everything before it).

### The spin lock

`tail`, `next` and `ready` are the shared words of `QSpinLock`; `pc` is the place
of each thread in `lock()`, with the steps that the code numbers, and `frame` its
locals, which are gone when it returns. A node is named by its thread: the node
of a later call is at the address of an earlier one, the worst case for a
comparison of pointers. A failed `compare_exchange` is an action of its own,
because it loads the word it found. A spin loop is one action, enabled when the
loop would end. `queue` is a history variable: the nodes between the
`compare_exchange` that put them at the tail and the end of their use. The code
has this order only as links, some of which are not written yet, and no action
reads it.

`FairLock` has a holder and a line. The holder is the thread whose
`compare_exchange` took the lock (steps one and four, or the fast path); the line
is `queue`, without a thread that has taken the lock and still has to hand over.

The model is of the sequentially consistent variant. `qspinlock_rmc.hpp` and
`qspinlock_c11.hpp` run the same steps under weaker orders; what their edges must
guarantee is that these interleavings are all there are. The same holds of the other
case studies, with one exception: the readers of `seqlock-test.cpp` use relaxed loads
even where the lock is sequentially consistent, and are modelled as such (see *Locks,
buffers, slots*).

### Futexes, parking, condition variables

`val` and `queue` of `Futex` are the word and the list of waiters, which all
futexes of a bucket share. Both sections of `waitInner` and the whole of `wake`
run under the bucket's lock, so each is one step. A waiter's `signaled` is true
exactly when `wake` has taken it off the list, so it is not kept apart. A
spurious wakeup and a timeout are the same step (`GiveUp`). Every caller wakes one
thread, and so does the model. `UseRealFutex` is the choice that `futex.hpp`
makes by platform: the kernel gives no guarantee about which waiter it wakes,
the list wakes the oldest.

`Parking` has a place for each parker and unparker, the argument of an unpark
under way, and `signaled`, what the test's parker waits for; its loops run for
ever. `CondVar` adds the locals and members of `condition_variable_futex`, the
user's lock and what it protects: a number of items where the test has one flag,
so that threads come back to `wait`. `due` is a history variable: how many
waiting threads the calls of `notify_one` still owe a wakeup. A call adds one when
it starts, unless all that wait are owed one already; a thread that leaves the
loop of `wait` takes one off. No action reads it.

### Epochs

One action of `Epoch` is one access to shared memory: to the global epoch, to a
participant's epoch, count or link, or to a bag as a whole. `frame` holds the
locals of `tryCollect` (`prev` is the participant whose link `prevp` points to)
and the number of successes of `rcuSynchronize`. `script` is what a thread has
still to do: critical sections that read the shared object (`read` with `pin`,
`rcuRead` with `rcuPin`) or replace it and pass the old one to `unlinked`
(`update`), `rcuSynchronize` (`sync`); at the end it exits, through the destructor
of `LocalEpoch`, or stays. `freed` collects what was deleted. An object replaced is
never the current one again, so names are not reused: what is checked is that
nothing in `freed` is ever touched. A compare-and-exchange
on a link expects the participant with a clear tag, as the code's does. `readers` is
a history variable: the threads that were in a critical section when this thread's
`rcuSynchronize` began, and have been ever since.

### Queue and free list

A node is allocated once and reused for ever, and a thread that is late may read
the link of a node that is in use again; `below` and `next` are its two links, of
the stack and of the queue. Pointers carry generations; `top`, `head`, `tail` and
`next` are words `[ptr, gen]`. A weak compare-and-exchange may fail for no
reason. `got` and `wasEmpty` are history variables.

`Fifo` has the scripts too. `calls` holds the calls of each thread that have not taken
effect; a call takes effect once, on the queue that it names, and an enqueue with the
value that it names. `Look` and `FindNothing` are a dequeue that returns nothing: it must
have seen its queue empty in between. The refinement maps the values in
the nodes after a queue's dummy to the abstract queue (`Items`), and the script without
the call that has had its effect but not returned yet (`Pending`) to `calls`. So a thread
that is late and appends to another queue than its call names, though in that queue's
order, takes a step that `Fifo` does not have, and so does one that appends twice, takes
from another queue, or reads a value after its node was reused.

### Locks, buffers, slots

`locked` is the word of a reader-writer lock, as its top bit and the rest; `count`
that of a sequence lock. A pair is two cells that are read and written one by one,
in the critical sections of the test. The writers' accesses are sequentially consistent;
the two loads of a reader are `mo_rlx` (`seqlock-test.cpp:72-73`). Such a load comes after
the load in `read_lock`, which acquires, but nothing orders the two with each other, and
nothing keeps them before `read_unlock` of the sequence lock, which is a load itself
(`seqlock_sc.hpp:14-17` says so). `due` holds the loads that a reader has still to
perform: `ReadA` and `ReadB` are enabled in either order, in the critical section
(`"reading"`) and after a successful `read_unlock` (`"got"`), where what was read is used
once both are done. `unlock_shared` of the two reader-writer locks is a
read-modify-write that releases, so there both loads come before it. `front` and `back` of `RingBuf` are
unsigned integers with a range of `UIntRange`. `FourSlot` has the two
indices a pointer stands for; the constructor initialises none of them, so they
begin as what the `Memory` held.

## Runs

Run | Property | What it shows
--- | --- | ---
`realize_rmc` | `CutEdgesOrdered` | after each step, every edge processed is ordered on every walk
 | `SourceOrderEnforced` | at the end, everything the registered edges demand together is ordered, through dropped no-ops and writes too
 | `NothingInvented` | the closure derives nothing that is not demanded
 | `NoWastedLwsync` | no lwsync stands next to another fence
 | `FencesOnEveryPath` | an edge that only a fence can keep has one on every path
`realize_smt` | `EverythingCut` | every cheapest solution, inserted, orders every edge on every walk
 | `SourceOrderEnforced` | and all that the registered edges demand together
 | `SearchKeepsLeastCost` | the interval never loses the least cost, and ends with it
 | `NoDearerThanGreedy` | there is a solution that costs no more than a fence in front of every edge's destination (which may be more than `cutEdges` emits)
 | `AbortsIffStuck` | the assertion about capacities fails exactly for functions that may get to where there is no way out
 | `CutsInserted` | the search ends and its cuts are inserted
`find_actions` | `ActionsApart` | an action is what its calls enclose, has a first block of its own, and free blocks around it
 | `TypesTell` | type, dependency and `allSC` do not understate the action
`path_search` | `PathsFound`, `IdsCanonical`, `SCCsRight` | the searches return what `PathCache` says, whatever was asked before
`qspinlock` | `MutualExclusion` | one holder, and the tag tells
 | `NodesAlive` | writes go to nodes in use, of the right call
 | `QueuedGetLock` | who is in the queue gets the lock
 | `ImplementsFairLock` | first come, first served; the fast path passes no queue; a free lock is taken
`condvar` | `NotifyWakes` | each `notify_one` wakes a thread that was waiting before it
 | `NoLostWakeup` | nobody sleeps on while there is something to take
`epoch` | `EpochsClose` | a critical section holds the global epoch within one of its own
 | `NothingFreedInUse` | no object is deleted while a section that can reach it lasts
 | `WalksOnLiveNodes` | nor a participant that a walk of the list stands on
 | `GarbageOnce` | garbage is in one bag at a time and never lost
 | `SynchronizeWaits` | `rcuSynchronize` outlasts every reader it found
`ms_queue` | `ImplementsFifo` | the queues implement queues: each call takes effect once, on its own queue, in turn
 | `EmptyOnlyIfEmpty` | "empty" was true at some instant of the call
 | `NodesOnce` | a node is new, free, in one queue, or in one thread's hands
 | `OperationsFinish` | every operation ends
`primitives` | `InOrderReadsWhole` | a reader of a reader-writer lock, and one of a sequence lock that looks at the count last, never has halves of two pairs
 | `WritersAlone` | a writer excludes writers and, but for sequence locks, readers
 | `AnnouncedGetIn` | a writer that set its bit gets in, and so does a reader that counted itself in
 | `RingIsFifo` | the ring buffer is a queue, also when its counters wrap around
 | `HalvesMatch` | the halves read from the slots belong to one write
 | `ReadsLatest` | what is read is no older than the last write that returned, and than what was read before
 | `NoDanglingWaiters` | the list holds nodes of threads inside the wait only, each once
 | `WakeOnItsWay` | who sleeps although it was signaled is about to be woken
 | `SignalsNoticed` | no unpark is swallowed
`next_first`, `kernel_wake`, `late_loads` | see *Findings* | where the code does not do what a note or a comment says

`realize_rmc` compiles 1274 functions. They come from the examples
(`rmc-test.c`, `data_uhoh.cpp`, `rcu-test.c`, `reg_merge_test.cpp`,
`multiblocks.c`, `givetake.c`): three actions of every relevant class on a line,
past a fork, and in loops, under 16 pairs of registrations; pointers that are
carried, replaced or repeated through phis; pushes and `pre`/`post` edges; a
label on two blocks; an action of several blocks; a chain through two no-ops in
each of the 24 orders of `actions_`. Six blocks hold two loops or a fork with
an exit, which is what a second turn, a detour and a return need; three or four
actions are what a join of joins needs. Three families are left out on purpose,
because they show the disagreements below: push edges along address dependencies,
lists that load the next pointer before they use the element, and pairs of reads with an
execution and a visibility edge of different bind sites, or a self edge bound
further out than its neighbours. Two functions of the passing run end in a
failed assertion, so that `AssertFails` is exercised: a push after a `post` edge, and
edges bound in the two arms of a branch (`RMC.cpp:786`).

`realize_smt` compiles 282 functions for each of x86, POWER, ARM and ARMv8: two
accesses of every class on a line, past a fork, in loops and in a loop that is left
after waiting; pointers carried through phis; three accesses with two edges, which
share what cuts them; and functions with an endless loop, on their only way or on one
of two. Five blocks hold all of these. `MaxCapacity` is five, which holds the least solution of each graph. The
solver answers each query, and the compiler runs on: weak fairness of the steps
from `GuessUpperBound` on.
Left out are functions whose source action has several blocks: `makeXcut`
starts its paths at the first block of the source and `makeVcut` at the last,
so that a fence inside the source counts.

`find_actions` takes 457 functions of up to four labels. Each label holds nothing,
one or two accesses of every kind; they follow each other directly, nest at the
beginning, at the end or as a whole, stand around a conditional expression or a loop,
and inside one. Transfers are an exception of `TypesTell` by design: they
decide the type whatever else the action does, and an access before a transfer
is the programmer's business.

`path_search` asks two queries in a row (`MaxQueries`), of any bind site and any
two blocks, on eight graphs of four blocks: two are enough for the second to find
what the first interned or cached. TLC stops when the compilation ends or the
queries are used up, so deadlock is not checked.

`qspinlock` runs three threads for ever: a holder, a head of the queue and one
that arrives or comes back. Nothing in it is bounded but the number of threads.
Fairness is weak, for each thread that is in `lock()` or holds the lock: it keeps
being scheduled, and critical sections end. Nothing makes a thread call `lock()`
again. That a thread gets *into* the queue is not claimed: the loop of step one
can lose to others for ever.

`condvar` runs two threads that wait and two that notify,
under the lock or after it; `AddBound` is three items, so a thread comes back to
`wait` with a new sequence number while old notifications are under way, and both
waiters can be owed a wakeup. When all items are taken everybody may sleep, so
deadlock is not checked. Threads keep being scheduled inside the
library (weak fairness of each thread's own steps); nobody has to add
anything, no spurious wakeup has to come, and the mutex is not fair: a thread can
lose the race for it for ever, which is why `NoLostWakeup` lets another thread take
the item.

`epoch` runs six scripts of two or three threads: a writer that exits while one
waits and one reads; two threads that walk the list, one of them for three collections,
while the participant of a third comes and goes; readers that arrive late; two threads that wait for each other.
`GarbageThreshold` is 0, where the code has 896: each `enter` with garbage in hand tries to
collect, which is the case in which most can go wrong. Three threads are what an
unlink needs: one that walks, one before the node and the node. One million
states. No liveness is stated: two threads in `rcuSynchronize` that pin and unpin
in turn can keep each other from advancing the epoch.

`ms_queue` runs five scripts: two enqueues against a dequeue; a node that moves from
queue to queue, or back to the same, under a thread that is late; dequeues from
both sides; and two nodes taken and returned in the free list under a thread that
is late in `popNode`. Five nodes are two dummies and three that are in hands. Threads
are scheduled (weak fairness), and a weak compare-and-exchange that is enabled
again and again succeeds at some time (strong fairness of `Cas`): hardware that
fails for ever spuriously would make every such loop hang.

`primitives` runs the locks, the ring, the slots or parking, one of them at a time
(`Structures`). There are three threads on each lock, of which a reader may be between two
writers; `Modulus` is two pairs. `MaxCount` is 0: nobody begins to write a sequence lock
once its count is above 0, but all that began before still write, so that
the count reaches six and a reader can be overtaken by each of them; writes to the
reader-writer locks are not bounded. The ring has two elements and counters modulo four, so that eight values take them round
twice; when they are all received it stutters (`RingEnds`). The slots take five writes,
more than there are slots. Parking has two parkers whose flags share a bucket and
two unparkers, which meet at one parker or wake past each other's waiters; nothing in
it is bounded but the number of threads. Fairness is weak: a thread that
began to lock a reader-writer lock goes on, none has to begin; parkers and
unparkers keep being scheduled inside the library, nobody has to signal, and no spurious
wakeup has to come. `AnnouncedGetIn` claims nothing of a thread that has not announced
itself: each of the two locks starves somebody, as their names say.

Several threads of these runs are done in the end, so deadlock is not checked
in `condvar`, `epoch` and `ms_queue`, nor in the compilations; it is in `qspinlock` and
`primitives`.

Of the greedy placement no liveness is stated: it is a sequence of bounded loops, and each step
consumes a registration, a triple or an edge.

### Findings

* `next_first`: when a loop loads the next pointer before it uses the current
  element, the phi that holds the current element counts as dependent on the
  load, though it holds the result of the *previous* turn's load.
  `impl-notes:18`: "Every R->R edge is cut by ...".
* `kernel_wake`: "if a wait.1 occurs in this order before a notify_one [...] it
  needs to wake that one up" (`condvar_sc.hpp:27`). A thread waits; `notify_one`
  advances the number; a second thread starts to wait with the new number; the
  wake hits the second, which sees its number unchanged and sleeps again, and so
  does the first. The list of `futex.hpp` wakes in the order of arrival and is
  not affected (`condvar`). `NoLostWakeup` is not violated by this: the second
  thread only waits because it found nothing to take.

* `late_loads`: `read_unlock` of the sequence lock only loads `count_`
  (`seqlock_sc.hpp:39`), and nothing keeps the relaxed loads of the critical section before
  it. A reader loads one half and finds the count unchanged, a writer comes, and only
  then is the other half loaded: it uses the halves of two pairs, which
  `seqlock-test.cpp:77` asserts it does not ("assert_eq(a, -b);"). The
  header knows it (`seqlock_sc.hpp:14-17`): "WAIT THIS IS ACTUALLY FUCKED", "mo_rlx reads
  in the critical section could get reordered past the release read". So `ReadsWhole`
  is false of the sequence lock; what holds, and is checked and proved, is
  `InOrderReadsWhole`. The reader-writer locks that stand in for it are not affected.

### Known disagreements without a run

The functions or the memory that show these are left out of the passing runs, but
for the last one, which is what `AbortsIffStuck` says.

* Push edges along address dependencies: `isPathCut` lets a dependency cut an edge
  of any type (`RMC.cpp:1169`), so a push edge between a read and a read through
  its result gets no sync. `impl-notes:16`: "Every push edge is cut by a sync."
* Self edges: "Compute the transitive closure" (`RMC.cpp:114`) runs one pass of
  Warshall's loops over sets of bind sites. With a self edge bound further out
  than its neighbours the result is not closed.
* Pairs bound twice: "we made execution versions of all the vis edges"
  (`RMC.cpp:1293`): not where an execution edge with another bind site joins the
  same two reads, because the map's insert (`RMC.cpp:802`) keeps what is there.
* "Ignore pushes not in actions" (`RMC.cpp:505`): a push right after an action with a
  `post` edge is taken to be in the dummy action, and an assertion fails.
* Actions of several blocks in `SMTify`: an execution edge counts as cut by a fence
  inside its source, because `makeXcut` asks for the paths from `src.bb` (`SMTify.cpp:846`) where `makeVcut`
  (865) and the greedy placement (`RMC.cpp:1194`) take the last block, "outBlock".
* "we make the probability higher for exits that stay in the loop"
  (`SMTify.cpp:360`): the code gives the factor four to the arcs that leave it. It
  only moves weights, and the model has what the code does.
* `FourSlotSync` leaves its indices uninitialised (`four_slot_sc.hpp:31`). With
  `latest_ = 1` and `slot_[1] = 0` the reader is sent into the slot that the first
  write fills. On memory of zeros the first write goes to `data_[1][0]` while
  `data_[0][1]` is published, so the first value is never seen (`ReadsLatest`
  says so). With `latest_ = 1`, `reading_ = 0`, `next_ = 0` and `slot_[1] = 1` a read
  can return a value older than the one the read before it returned.
* "Keep all zeros from working" (`SMTify.cpp:398`): that rules out every solution if
  the function has an endless loop, be it on one of several ways, because nothing flows
  back from it; the assertion that there is a solution (`SMTify.cpp:405`) then fails.

## Proofs

All theorems hold for every value of the constants that satisfies the named
assumptions: finitely many blocks; graphs over them; functions whose records have
their types, and finitely many values, whose operands are values; labels other
than the empty name; and room (a block before and a
block after) wherever a registration looks for a dummy action, which is what
`findActions` creates; actions whose first block is no other action's first or last (`ApartAssumption`;
`findActions` is proved to see to it: `ActionsStayApart`), and blocks that compare values to branch on
only where they have two ways to go (`BranchAssumption`); the four architectures the code knows, and a bound on
capacities that is high enough for the graphs without a trap (`CapacityAssumption`; the
code's are unbounded integers); pointers to participants that are no objects; a range of
unsigned integers that the capacity of the ring buffer divides, which is what the
code's sizes, powers of two, ensure; finitely many nodes, enough for a dummy node in
each queue; functions whose register and close calls are as described above
(`SourcesAssumption`, `CallsAssumption`, `NestedAssumption`, `ReachedAssumption`).

* `TypeCorrect` (`RealizeRMC_proofs`): `Spec => []TypeOK`. The invariant `GraphInv` of the
  passes before the cuts (`ActionGraph_proofs`, shared by both placements) adds that
  pending registrations still have their room (dummy actions are appended, and have
  no label) and that the closure has not started. One lemma for each pass;
  `SetToSeqIsOnto` and `WithPrePostType` show that a dummy action is found where
  it was put.
* `NoLwsyncWasted` and `PathsAreFenced`, from `FenceInv`. Neither property is
  inductive alone: it needs that `cuts_` records exactly the blocks that got a
  fence (`RecordedOK`), that no lwsync was emitted while a push edge is left
  (`PushFirst`, from the sort), and that nothing was cut before the graph was
  done. Then an edge that finds a fence in its destination's block is cut on all
  its paths, so a second fence is only ever a sync; and an edge without a
  possible dependency is hard cut, or gets its fence at the end of every path.
* `PairsOnSimplePaths` (`ActionGraph_proofs`): if every simple path from `src` to `dst`
  takes one of a set of arcs, or one of a second set and later one of a third, so
  does every walk. By the shortest walk that does not: it repeats no block, or a
  shorter one would do. `SimplePathsSuffice` is the case of one set.
* `WalksAreFenced` combines the two: the fences are on every walk, any number of
  turns of any loop. This is why looking at simple paths is enough for fences.
* `FencesAndBranchesOrder`: `Spec => []OrderedWithoutAddress`, which is
  `CutEdgesOrdered` for every edge of which no path, and no path of its self edge, rests
  on an address (`WithoutAddress`). The source has its value from its own block
  (`OwnBlock`: so do reads and RMWs, a `LTAKE` need not) and the bind site is
  not that block, where `isEdgeCut` finds no paths at all. The invariant
  (`GuardInv`): either every path of the edge leads to a fence, or every path of the
  edge and of its self edge takes a fenced arc or a branch that is kept
  (`EnforceCrosses`: `isEdgeCut` keeps the first branch of each path). Fences and kept
  branches are never taken away (`GuardsLast`). Then, by `SimplePathsSuffice`, a walk that
  has met neither is not back at its source, so it still has the value
  (`AfterKeeps`), and not at the destination: whoever arrives has branched. This is
  what the self edge is for, and why one is enough. `Walked` and `AfterBlock` are
  recursive functions; `WalkedIn` and `AfterKeeps` get what they return from
  least closed sets, as below.
* `ClosureInventsNothing`: `Spec => []NothingInvented`. `Demanded` is what a recursive
  function returns; that the function exists, is unique and returns the least
  closed set is proved from the least counterexample (`SaturationIsLeast`), because the
  edges are finitely many (`EdgesFinite`). Every join of the loops composes two
  edges that are there, so the closure stays inside. (It can end before it has
  everything: see the known disagreements.)

* `PathsAreFound` and `IdsAreCanonical` (`PathSearch_proofs`): `Spec => []PathsFound` and
  `Spec => []IdsCanonical`, for every control-flow graph and any sequence of queries. What
  `PathCache` says of simple paths, and with it what both placements are proved against, is
  so what the searches return. The recursion of `findAllSimplePaths` is a function on all
  calls, with the table of paths and the grey blocks each starts with; that it exists comes from
  `Solved`: where each call depends only on calls of a lower rank, here of fewer blocks that are
  not grey (`Left`), a recursive definition has a solution. Then the smallest counterexample: if
  the calls with more grey blocks return the paths from there that avoid them
  (`RightBelow`), a step puts its block in front of those from all its successors
  (`StepRight`), which are the paths that start there (`StepUnfolds`). The table only grows
  (`Extends`), so the ids already found keep their paths (`PathKept`), and it is
  canonical (`Canonical`): a path that is looked up is never entered again
  (`CanonicalPaths`, by the shorter of the two paths).
* `SCCsAreRight`: `Spec => []SCCsRight`, from `SCCsAreFound`, which is the correctness of
  Kosaraju's algorithm for every graph and every set of skipped blocks, with both searches as
  the code does them. A search adds to the grey blocks the least closed set over its roots
  (`Reached`, `Visited`, `ReachRight`). The order in which the first search leaves the blocks is
  `Sorted`: if one block leads to another, some block of its component is left after that one,
  which survives another search (`OrderMore`) and one level of the recursion
  (`OrderThrough`). So when the second search takes a root, whatever leads to it has been
  split off already or is of its component, and what it reaches against the arcs, past
  the blocks it has visited, is that component (`SecondReaches`, `SplitStep`). To lead to a block
  and to reach it on a simple path is the same (`LeadsIsReaches`, by `WalkReaches`).
  Nothing is used of the order in which blocks and successors are visited.

* `ActionsStayApart` and `TypesAreRight` (`RealizeRMC_proofs`): `FindSpec => []ActionsApart`
  and `FindSpec => []TypesTell`, for every function, any nesting of its labels and any
  order of the register calls, from `FindInv`. While calls are left (`FoundRight`), each
  action found so far has between its first block and its end block what was between
  its calls (`Found`), with an empty block in front of it; each of those to be found still
  has both calls, once each, with the same between them (`Pending`). That the next one
  does not disturb the others, inside which it may be or which it may enclose, has two
  reasons. Splitting a block and deleting a call only contract and rename
  places: what is reached from where stays the same (`Contracts`, with one lemma for
  what is inside a pending action and one for what is between two blocks,
  `InsideContracts` and `BetweenContracts`, used for both steps). And a split never
  separates what belongs together, because in the first block of an action what
  closes has opened, and in its last block what opens closes (`OpenedIn`,
  `ClosedIn`): this is where the proof needs that labels nest. When all are found
  `FixOut` takes the single predecessor of each end block, and every action owns its blocks
  (`AllOwn`). The analysis replaces calls in them but moves nothing (`RelabelOwns`); the
  out block is gone through from end to end (`BlockReached`), and it is all there is
  if it is the first block too (`BlockAlone`), so what `TypeOfBlock` counts is what the
  action does (`TypeOfBlockRight`).

* `SolverFindsCuts` and `SearchFindsLeast` (`RealizeSMT_proofs`), for every function,
  graph, architecture and edges, from `SolverInv` (theorem `SolverInvariant`). Formulas
  are sets of finite sets of cuts, of which each costs a natural number (`CostType`,
  `CapacityType`); one is `WithinGreedy` if some solution of it uses only fences in front
  of the destinations of edges. `Least`, `And`, `AllOf` and `AnyOf` keep that
  (`LeastType` ... `AllOfType`): with a smallest such solution, which `Least` cannot
  drop. Then one lemma for each constraint, up to `EdgesCutType`: each path into the
  destination ends with one of its greedy fences (`GreedyCuts`), and every way to cut
  an edge has that fence as an alternative, for push edges too. So the constraints are never
  `FalseFormula`, which is also what justifies `Least` in the model. The search keeps its
  interval around the least cost (`Bracketed`), which is not inductive without
  `Solvable`: an upper bound comes from a solution. `FoldExists` is the lemma under all
  this: the recursive functions by which the community modules sum and fold over a set exist,
  from the least counterexample (`RestInduction`).

* `TrapsAbort` (`RealizeSMT_proofs`): `Spec => []AbortsIffStuck`. Its core is
  `CapacityHasNoTrap`: in every graph, a solution of the equations with something at
  the entry leaves no reachable block without a way out. `FlowBalances` sums the
  equations over a set of blocks: what they have is what flows in, and, but for the
  exits, what flows out (`SumOfParts`; the divisions leave nothing over). Nothing
  flows into the blocks that cannot be reached, so an exit with something can be; and
  nothing may flow into a trap, since all that flows out stays inside. So the blocks that
  have something and a way out are closed under steps. The other half, that there is a
  solution where there is no trap, is what `CapacityAssumption` says of the bound; of the
  solutions `Capacities` keeps a least one (`RowOfCapacity`).

* `CutInvariant` and `SolutionsOrder` (`RealizeSMT_proofs`): `Spec => []OrderedWithoutAddress`,
  which is `EverythingCut` for every visibility and push edge, and for each execution
  edge whose source is one block, which computes the value it reads, and whose value no
  inserted address dependency carries (`NoAddress`); self edges that are bound at their own source excepted, because no
  paths are asked for there. The invariant (`CutInv`) has two halves.
  While the solver runs, `SolverInv` says that its formulas are those of
  `smtAnalyzeInner`; `Holds...` (one lemma for each constraint) read off a solution
  what it has on each path: a fence or an access strong enough, or a branch with an
  isync behind it or a write at the end (`CutBy`; `SolutionCuts`). While the cuts are
  inserted (`Inserting`), what of the solution is not to be done is in the code, and in
  an order in which it works: the order of `Rank` in which `insertCut` is called puts
  every branch of a block in front of its isync (`SyncsLast`), and each
  insertion keeps what is there (`PutKeeps`, `CodeGrows`). For the walks, a place on a
  walk is a state of `Walked`; an invariant of these states over a least closed set
  (`CutWalks`) says that who has met no cut still has the value, and that who
  has branched but met no isync is on a path that still has it ahead
  (`PairsOnSimplePaths`); so nobody arrives unordered. It rests on `Apart`, that dummy
  actions too have a first block of their own, and on `NoneUseless`, that `rebuildEdges`
  left no edge without effect. The source must be one block because `makeXcut` takes
  its paths from `src.bb` (see the known disagreements): TLC finds
  an edge that is not ordered otherwise.

* `LockExcludes`, `AssertionsHold`, `NodesStayAlive` (`QSpinLock_proofs`), from
  `IInv`, for any set of threads. Mutual exclusion is not inductive: that a
  failed `compare_exchange` of step four has not read a taken word needs that
  only the head of the queue is there, which needs the shape of the queue: each
  thread in it follows the one its `oldTail` or that one's `next` names
  (`LinksOK`), the tail is its last (`QueueOK`), only the head has been told
  (`HeadOK`), and a node not queued yet is as constructed (`FreshOK`).
* `FirstComeFirstServed`: every step of the spin lock is a step of `FairLock` or
  changes nothing its users see, so it implements the safety of `FairLock`.

* `NoSignalLost`, `WaitersStay` (`Primitives_proofs`), for any number of parkers and
  unparkers and for both kinds of futexes. The invariant says where the unpark is
  that a sleeper needs: if a parker is past its look at `signaled` and was
  signaled since, its flag is up or an unpark is about to raise it
  (`FlagUpOrRaised`); if it is on the list and the flag is up, the unpark that
  raised it has not woken yet (`RaisedWakes`). The rest are lemmas about the list:
  what appending and removing do to the threads in it.

* `WholePairs` and `Exclusion` (`Primitives_proofs`), for any number of threads and
  writes and for the three locks. `WholePairs` is `Spec => []InOrderReadsWhole`, with the
  loads of a reader in any order and, behind a sequence lock, as late as they like: it
  claims a whole pair of a reader-writer lock's readers, and of a sequence lock's
  readers when both loads come before the look at the count. The invariant has one holder
  at a time (`OneHolder`) and a half-written pair only between its two stores
  (`PairInv`). For sequence locks (`SeqInv`), a reader inside whose tag is still the count
  has, of what it loaded, what is in the pair, and a tag that was overtaken never
  comes back. For the other two (`RwInv`), the number of readers in the word is the
  cardinality of the set of threads that have counted themselves in and have not withdrawn.
* `HalvesBelongTogether`, for any number of writes and for all
  memory with `SafeMemory`. The invariant (`SlotInv`) says that the writer writes
  where the reader would not look (`WriteElsewhere`), and that a reader has
  announced its pair: if the writer is in the same pair it had chosen it before,
  and then their slots differ (`ReadApart`).
* `ReadsGoForward`, from `SlotInv` and `OrderInv`, for all memory with
  `OrderlyMemory`: safe, with `next_ = 0`, and with `reading_ = 1` where
  `latest_ = 1`; on other memory TLC finds reads that go back. The writer leaves
  the pair that is announced, so whatever the announced pair holds is the latest
  value unless the writer is about to go there (`InTurn`); the values of the pairs
  are in the order of the writes (`Numbered`); and at each stage of a read what it
  will return is recent enough (`InOrder`).
* `RingImplementsFifo`: the ring buffer implements `Fifo`, for every capacity and
  every range of the indices. The invariant: the places from `front` to `back`
  hold the values after the ones received, in turn (`ValuesInTurn`), and whoever is
  under way has room or something to take (`RoomOK`). The lemmas are about indices
  that wrap around: the difference of two is the number of elements between them,
  and as long as that is less than the capacity their places differ.

* `EpochsStayClose`, `NothingUsedIsFreed`, `WalksStayOnLiveNodes`, `GarbageIsOnce`,
  `SynchronizeDoesWait` (`Epoch_proofs`), for any set of threads and any script of
  theirs, from one invariant, `IInv` (theorem `Invariant`). None is inductive
  alone, and they need one another: that a section holds the global epoch rests
  on the walk meeting every participant, that on the list never being walked into
  a deleted node, and that on the epochs. The parts:
  where a thread is tells what it counts and points to (`PlacesOK`); the
  list holds every participant that has not exited, and each of its links is the
  only one to where it goes (`ListOK`, `OnePredecessor`); a pinned thread's epoch is
  the global one or the one before, and the epochs that were read are no newer
  (`EpochsOK`); a walk that may still advance the epoch has every thread of an older
  epoch ahead of it (`WalkOK`); bags hold garbage of three consecutive epochs
  (`TrashOK`, `OnceOK`); what a section can reach became garbage in its epoch or later
  (`ReachedOK`), so a bag that is deleted is out of reach; and a reader that was
  there when `rcuSynchronize` began is left behind by one epoch for each success of
  `tryCollect` (`ReadersOK`). The last part shows more than the code asks for: two
  successes would do, and the code waits for three.

* `NodesKept`, `EmptyTold` and `QueuesImplementFifo` (`MSQueue_proofs`), for any threads,
  queues, nodes and scripts, from one invariant (theorem `Invariant`), of whose actions each
  has a lemma. The lists from `top` and from each `head` are paths without a
  repetition (`ListsOK`; `ChainIsPath` shows that the recursive function `Chain`
  returns the path there is). They, the nodes in hand and the new nodes are apart
  and are all (`ApartOK`, `AllPlaced`). The generations of `head` and `tail` count
  nodes, so their difference is the place of the tail in the queue (`TailsOK`). A
  generation only grows, so a word that a thread read is current if its generation is
  (`Seen`): a compare-and-exchange that succeeds is on the list that the thread
  looked at, though the node may have been elsewhere meanwhile. The argument is one of
  rely and guarantee: every step of a thread keeps to `Rely` (links of what others
  hold stay; a link in a queue changes only from null; a last node stays in its
  queue), and `Rely` is enough for what another thread knows (`Stable`). A dequeue
  that says "empty" looked at a head without a successor, which is also the tail
  (`LastNode`). In the refinement (`StepMaps`) the link of an enqueue and the new head of a
  dequeue take effect for the call at the head of `Pending`, on its queue and with its
  value, and every other step leaves `Pending` alone (`PendingStays`, `PendingTail`). That a late link goes to the right
  queue is what `Rely` says of last nodes, with generations. Nothing is asked of the
  values: two enqueues may carry the same one.

Only model-checked: liveness of the spin lock, of parking, of condition variables,
of the queue, of the locks and of the search for a cheapest solution (`CutsInserted`);
`NotifyWakes`; the edges that an address dependency orders (the rest of
`CutEdgesOrdered` and of `EverythingCut`: the first cannot be proved as it stands, since
the run `next_first` finds functions that break it), what the edges achieve together
(`SourceOrderEnforced`), and that the closure is complete where `SourceOrderEnforced`
needs it. Out of the prover's reach is liveness. What a recursive function returns is
proved where it is needed, from the least counterexample and not by induction (`Solved`,
`FoldExists`, `SaturationIsLeast`); the modules with proofs have no recursive operators.

## Not modelled

* Instruction selection, inline assembly and pass plumbing; LLVM itself, of which
  dominance, loops and the splitting of blocks are used, and of which it is assumed
  that it leaves alone what `hidden` and `kept` protect. The solver itself.
* The headers, their fallback and the bindings: macros that expand to
  registrations or to release and acquire accesses, whose meaning is that of a
  memory model outside this code. A memory model of the processor is not part of
  the project: the orders a processor keeps are the assumption stated above.
* The variants of the case studies under C++11 and RMC orders run the same steps
  as the sequentially consistent ones that are modelled; what their orders must
  guarantee is that these interleavings are all there are (of the sequence lock: those
  without late loads; its RMC variant orders the reads of the critical section before
  the look at the count).
* Parking over pthreads and over C++ locks (not built where there are futexes);
  epochs without local garbage; the queues and stacks that free nodes through
  epochs, whose two halves are `MSQueue` and `Epoch`; the queue with two locks;
  `rculist`.
* Examples, benchmarks, experiments, scripts and the vendored command-line library.
  They are most of the lines under `src/`; with LLVM's plumbing and the variants
  above they are why the mapped lines stay a small share of the repository.

## Plan

Done: the pass with both placements and the analysis before it; spin lock, futexes,
parking, condition variables; epochs; queue and free list; locks, ring buffer and
slots. Open, in this order:

1. The stack that frees its nodes through epochs, as the composition of a stack
   with `Epoch`.
2. The queue with two locks.
