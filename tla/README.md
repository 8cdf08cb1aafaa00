# A verification project for QP/C++

QP/C++ is a real-time embedded framework: applications are *active objects*,
state machines with an event queue and a priority each, that exchange
reference-counted events and are scheduled by one of the framework's own
kernels or by an operating system. This directory holds TLA+ models of the core
of the framework (`src/src/qf` and the kernels in `src/src/qk`, `src/src/qv` and
`src/src/qxk`), TLC configurations that check them on small instances, and TLAPS
proofs. `PROJECT.json` lists the components, the runs, the source lines every definition models (`map`), the
hazards the properties are for, and the findings.

## The system

| component | state | operations | what is hard |
|---|---|---|---|
| raw event queue, `qf_qeq.cpp` | front location, ring, head, tail, free count, low-water mark | `init`, `post` (with margin), `postLIFO`, `get` | two ways to wrap, FIFO and LIFO mixed, counters of 8 bits |
| memory pool, `qf_mem.cpp` | free list through the blocks, counts | `init`, `get` (with margin), `put` | rounding and chaining at the limits; a check outside the critical section |
| dynamic events, `qf_dyn.cpp` | reference counters, pools | `poolInit`, `newX_`, `gc`, `newRef_`, `deleteRef_` | who gives up the last reference; a decision and its effect in two critical sections |
| queues of active objects, `qf_actq.cpp` | as the raw queue | `post_`, `postLIFO`, `get_` | overflow with and without margin; waking the kernel |
| ticker `QTicker`, `qf_actq.cpp` | a count of ticks in `m_tail` | `post_`, `dispatch` | ticks that arrive while earlier ones are processed |
| publish-subscribe, `qf_ps.cpp` | subscriber lists | `publish_`, `subscribe`, `unsubscribe`, `unsubscribeAll` | multicasting from a copy of the list while receivers run, unsubscribe and stop |
| deferral, `qf_defer.cpp` | raw queues | `defer`, `recall`, `flushDeferred` | references that outlive the step that got the event |
| time events, `qf_time.cpp` | two linked lists per tick rate, down-counters, flags | `tickX_`, `armX`, `disarm`, `rearm`, `wasDisarmed`, `noTimeEvtsActiveX` | `tickX_` keeps a cursor into the list across critical sections |
| kernel QK, `qk.cpp`, `ports/arm-cm/qk` | ready set, active, next and lock priority, one stack | `QK_sched_`, `QK_activate_`, `schedLock`, `schedUnlock`, `start`, `stop`, interrupt exit | nested preemption, locks across preemption, lost wake-ups |
| kernel QV, `qv.cpp` | ready set | the event loop, `start`, `stop` | the race between idling and interrupts |
| registration, `qf_act.cpp` | `active_[]` | `add_`, `remove_` | priorities that change owners |
| kernel QXK, `qxk.cpp`, `qxk_xthr.cpp`, `ports/arm-cm/qxk` | as QK, and current and next thread, a stack per extended thread | scheduler, activator, PendSV, `queueGet`, `delay`, `delayCancel`, `schedLock`, start, stop, return of a thread | two kinds of threads that preempt each other; time-outs that race with wake-ups |
| semaphores and mutexes, `qxk_sema.cpp`, `qxk_mutex.cpp` | counter, holder, nesting, wait sets | `wait`, `tryWait`, `signal`, `lock`, `tryLock`, `unlock` | hand-over to a thread that has not run yet, at another priority; time-outs |
| state machines `QHsm`, `qep_hsm.cpp` | current state, path of a transition | `init`, `dispatch`, `hsm_tran`, `isIn`, `childState` | seven cases of a transition over an unknown hierarchy, in a path of bounded length |
| priority sets, `qpset.h` | bit mask | `insert`, `remove`, `findMax` | |
| state machines `QMsm`, tracing, unit testing | | | not modelled, see below |

How the parts interact: a *post* inserts an event into a queue, counts a
reference, and signals the kernel when the queue was empty; the kernel takes the
event with `get_`, dispatches it, and calls `gc`, which gives up the reference
and returns the block to its pool when it was the last. Publishing does that for
every subscriber of a signal, with the scheduler locked. `tickX_` posts time
events. Everything runs in critical sections of a few statements, with
interrupts and other threads in between: that is where the hazards are, and why
every module takes one critical section as one action.

Every failed assertion (`Q_onAssert`) stops the system. The models have them as
steps that set `asrt`, after which nothing happens. A run may therefore end, and
the configurations switch TLC's deadlock check off; that the assertions which
protect the framework's own consistency never fire is a property of its own.

## Modules

Modules for TLC are called `MC...`; they only give the constants values.

* **EventQueue** - what a queue promises: a bounded deque with margins.
  **QEQueue** - the real ring. The counters are modulo `CtrMod` (2^w). `Init` is
  the constructor followed by `init`; `post` and `postRefused` are the two
  outcomes of `QEQueue::post`; `get` and `gc` are the receiver. `Contents` reads
  the deque out of the ring, and `ImplementsDeque` is the refinement.
  **QEQueueProofs** - the proofs.
* **BlockPool** - what a pool promises: a set of free blocks. **QMPool** - the
  real one, from the first statement of `init` on: one action per round of its
  loops, `get` as one critical section, `put` as two steps (its precondition is
  evaluated before the critical section). Blocks are addresses, and a client
  overwrites the link word of a block it owns. **QMPoolProofs** - the proofs.
* **QFEvents** - events on their way through the framework. `main()` initializes
  the pools; then active objects and interrupts allocate, post, publish,
  subscribe, forward, defer, recall, flush, keep and drop references, and
  collect. Every thread has a program counter for the operations that take
  several critical sections (`multicast`, `recall`, `gc` and the return of the
  block). It uses the two abstractions above: a queue is a sequence, a pool a
  set of blocks with a block size. `Services` selects what the handlers of a run
  do, so that each run has its own question and a finite size. `owns` is a ghost
  variable: it says whether the reference in a thread's hands is counted.
  **QFEventsProofs** - the proofs.
* **QTimeEvt** - the two lists of one tick rate, link by link, with the flags of
  `refCtr_`. `tickX_` is one action per round of its loop and one per post.
  `TickInIsr` says who calls it: an interrupt, in which no task can run, or the
  ticker active object, whose queue and tick count are then part of the model
  (an interrupt posts the ticks) and between whose critical sections other tasks
  use the time events. `wasDisarmed` is two steps, its read and its write of
  `refCtr_`. `due`, `age`, `fire` and `fired` are history variables for the
  properties. **QTimeEvtProofs** - the proofs.
* **QK** - the preemptive kernel. `stack` is the single stack: one frame per
  activation of `QK_activate_`, with the step it is in and the lock statuses
  that its code holds in local variables. Threads run only when no interrupt is
  active and PendSV is not pending. `schedUnlock` reads `lockPrio` in one step
  and restores the lock in the next (`restoreLock`); `seen` is what it read. A
  queue is the number of its events. `Fuel`
  bounds the calls of a step, `MaxNest` the nesting of interrupts.
  **QKProofs** - the proofs.
* **QV** - the cooperative kernel, one action per region with interrupts
  disabled. `QV::onIdle` is application code; it is modelled by its contract, to
  enable interrupts and sleep in one step. **QVProofs** - the proofs.
* **QXK** - the dual-mode kernel. Basic threads are frames on the main stack, as
  in QK; extended threads have one of their own and may block. `curr` and `next`
  are the thread pointers of `QXK_attr_`, and `pendSV` is the pending context
  switch, before which no thread goes on. The tick interrupt leaves its critical
  section between the expiry of a time event and its POST; `expiring` is the
  event in between, and with `NestedIsrs` other interrupts come there.
  `schedUnlock` and `restoreLock` are as in QK. **QXSync**
  - a semaphore and a mutex on top of it, with all the paths that hand over,
  raise and restore priorities. `has` is what a thread knows it has locked.
  **QXSyncProofs** - the proofs about both.
* **QHsm** - the event processor. The hierarchy is a variable that never changes:
  one run covers all hierarchies of the given size. One action is one call of a
  state handler for an event, an entry, an exit or an initial transition, and
  what the handler answers is a choice. `entered`, `kept` and `legal` are history
  variables: the states entered and not left, those not left since the event
  came, and whether every entry and exit so far came in its turn. **QHsmProofs** -
  the proofs.

Definitions marked *faulty* are variants with a plausible bug (a missing
increment, a dropped guard, an off-by-one). No action uses them. `PROJECT.json`
names one for every property of every passing run: put in the place of the
original it makes TLC report that property, so the property is known to be about
the code and not about the shape of the model.

## Runs

Passing runs:

| run | instance | shows |
|---|---|---|
| `queue` | rings of 0 to 3 slots, a pool event and a static one, margins 0 to 2, 3-bit counters | head, tail, free count and front location agree; reference counters are exact; the ring implements the deque |
| `pool` | pools of 1 to 13 bytes, blocks of 0 to 6, 14 and 15 bytes, pointers of 2 bytes, 2 clients | the free list is exact, blocks fit and do not overlap, no assertion on the list fires, `init` ends, the list implements a set |
| `events_pubsub` | 2 objects, 1 interrupt, 2 pool events, queues of 2 | post, publish and forward: counters exact (so nothing leaks), nothing dangles |
| `events_defer` | 2 objects, 1 interrupt, a pool event and a static one, queues of 2, deferred queues of 1 | defer, recall, flush and kept references: counters exact, no counting assertion |
| `events_live` | 2 objects, 1 interrupt, 2 pools of different block sizes | an event sits in the smallest block that fits; every allocated event comes back to its pool |
| `time_task` | 3 events, up to 2 ticks counted and not yet processed, `tickX_` in the ticker | lists well formed, linked flags exact, armed events linked, the cursor stays in the list, no tick is stranded |
| `time_isr` | 2 events, up to 2 ticks, the tick interrupts tasks, also inside `wasDisarmed` | an event that expires does so in the tick it was armed for and once; the update of the flags that `wasDisarmed` loses leaves the lists well formed and no listed event without its flag |
| `qk` | 3 objects, 2 calls per step, queues of 1, locks up to the middle priority, interrupts between any two critical sections | no lost wake-up, the highest eligible object runs, stack and locks nest, ceilings hold, a multicast is not interrupted by its subscribers |
| `qv` | 3 objects, queues of 2 | no lost wake-up, only runnable objects are picked, no sleep over events, the highest-priority object is served |
| `qxk` | 2 basic threads (priorities 1 and 3), 2 extended ones (2 and 4), a semaphore up to 1, a mutex with the ceiling 5, locks 2 deep, scheduler locks of a basic and an extended thread, time-outs on queues, nested interrupts | basic frames nest, the highest eligible thread runs, the mutex excludes, no thread is stranded, no kernel assertion but the known ones |
| `hsm` | all hierarchies of 6 states, an entry path of 4 | transitions leave and enter exactly the right states, in the right order, and end in a stable configuration; only a hierarchy that is too deep overflows the path |

Why the bounds are enough: rings up to 3 slots have every relation of head, tail
and wrap (for all lengths there is the proof); two pool events and two objects
with an interrupt are the smallest case in which an event has a receiver, a
holder and a collector at once while the block of another is reused; three time
events give a list with a first, a middle and a last element, and two ticks an
event that counts down before it expires; three priorities give an active, a
locked and a preempting object at once. A queue of length 1 or 2 has the
transitions that the kernels see: empty to non-empty, and full. Two ticks in the
backlog of the ticker let one arrive between the removal of its event and the
read of the count, and one while earlier ticks are processed. In `qxk` the
priorities alternate: the basic thread at 3 preempts the basic one at 1, so that
frames nest, and the extended one at 2, and is preempted by the extended one at
4. The thread at 1 locks the scheduler up to 3 and the one at 4, which preempts
it, up to 5, over the thread at 2 when that holds the mutex; and both extended
threads compete for the mutex while a third party signals. What this instance
leaves out, mutexes without a ceiling and delays that time out (`delay` is ended
by `delayCancel`), the proofs cover. Six states hold every position of source and
target that `hsm_tran` tells apart, with states left on both sides of the common
ancestor and with nested initial transitions, and chains longer than the path.

The violation run `qxk_sema` is about a statement in `qxk_sema.cpp`: the thread
that `signal()` takes out of `m_waitSet` "must be extended" and "must be blocked
on this semaphore". A `wait()` that times out leaves its thread in the set, and
the next `signal()` finds it there and asserts.

### Known deviations

What the runs leave out or tolerate, because the code does not keep it. The
models have these behaviours, and another value of a constant, or another
property, shows each of them, except for three that are not in the models: the
query `noTimeEvtsActiveX()`, `QTicker::post_` called from a thread, and the wrap
of `m_tail`. None is a claim about an application, which can avoid most of them.

* Queue: a ring with qLen = CtrMod - 1 (255 slots and 8-bit counters). `m_nFree`
  wraps to 0 and the first post to the empty queue asserts.
* Pool: a `QMPoolSize` narrower than `uint_fast16_t` (`SizeMod` below `FastMod`).
  A block size near the top passes the precondition of `init`, and its rounding
  loop never ends.
* Events: a handler that forwards the event it is processing with `POST_X` (the
  service `forwardX`) and is refused. `post_` collects a reference it did not
  count, and the event is recycled while it is in use.
* Publishing: a subscriber of a higher priority stops between the copy of the
  subscriber list and the scheduler lock of `publish_`; assertion 210 fires. The
  run `qk` contains it (`publish210`), and `NoKernelAssertion` lets it pass.
* Time events: `wasDisarmed()` reads and writes `refCtr_` without a critical
  section. A tick in between unlinks the expired event, the write sets
  TE_IS_LINKED again, and the next `armX()` does not link it: it is armed and
  never fires. `ListsConsistent` fails in `time_isr`, so that run checks what is
  left of it, `ListsSurvive`.
* Time events that tasks share (`shared` in `Ops`): a task that preempts
  `wasDisarmed()` and arms the event links it, the write clears TE_IS_LINKED, and
  the next `armX()` links it a second time; `ListsSurvive` fails within a few
  steps. In the run only one task uses a time event.
* `wasDisarmed()` can return 'true' because of an earlier `disarm()`, as nothing
  clears the flag. The comment at `qf_time.cpp:528` reads as if it answered for
  the last one.
* `noTimeEvtsActiveX()` has its branches swapped: it returns false when the main
  list is empty. It is a query and not in the model.
* `tickX_` in a task: an event that expires and is armed again during the call is
  counted by the same call, so `OncePerTick` is a property of `time_isr` only.
* `QTicker::post_` wakes the kernel before it counts the tick. In an interrupt
  the switch comes after the count; posted from a thread of lower priority, the
  tick is counted with no event in the queue. `m_tail` has the width of the queue
  counters: 256 ticks that are not served are lost.
* QK, QV: two objects that use one priority one after the other (`PrioOf` not
  injective). The end of the step that stopped the first removes the ready bit
  that the second already needs.
* QK: an object that starts one of a higher priority. An event that arrives
  during the `init()` of the new object activates it there, and `dispatch`
  asserts (`dispatch400`, tolerated by `NoKernelAssertion`).
* QXK: `lock()` with a time-out has the defect of `wait()`; `unlock()` then
  asserts 410. It also returns whether `m_timeEvt.sig` is non-zero when the mutex
  was free, which an earlier time-out may have left zero: the caller holds a mutex
  that it believes it did not get.
* QXK: `tryLock()` of a mutex with a ceiling that another thread holds fails
  assertion 330, which demands of the slot of the ceiling the opposite of what
  `lock()` made of it. The run tolerates it.
* QXK: a basic thread that gets a mutex with a ceiling by `tryLock()` runs above
  the priority it was activated for and is activated again on top of itself
  (`basicBoost` in `Calls`; `HighestRuns` fails).
* QXK: `stop()` removes the registration and the ready bit in two critical
  sections. An interrupt in between fails assertion 620 or 720. The run tolerates
  these exactly while a thread is inside `stop()`.
* QXK: unlocking a mutex with a ceiling while holding the scheduler lock changes
  the priority by which the lock remembers its holder; assertion 610 fires
  (`unlockLocked` in `Calls`). The threads of the run unlock in the other order.
* QXK: an interrupt that nests in the tick after the expiry of a time-out, and
  signals, wakes a thread that is then told that its wait timed out.
* QHsm: `path[]` has MAX_NEST_DEPTH_ places, but states nested as deep as that
  below `top` can already fail the assertion on its length; MAX_NEST_DEPTH_ - 1
  levels never do (`NoPathOverflow`).

## Fairness

Safety properties use none. For liveness:

* QMPool: `init` keeps executing (weak fairness of each of its loop steps).
* QFEvents: threads keep running (weak fairness of the steps inside operations
  and of `get_`); a handler is finite and returns however often it sends before
  (strong fairness of `rtcEnd`); an interrupt that allocated an event gets to
  the statement that sends it. Without the last two the framework could hardly
  promise anything: it never preempts a handler that does not end.
* QV: the loop goes on (weak); handlers end because they have `Fuel`.

QTimeEvt, QK, QXK, QXSync and QHsm state safety only.

## Proofs

`QEQueueProofs` proves, for rings of every length, all sets of events and
margins, and counters of every width:

* `Typing`: `Spec => []TypeOK` - all counters stay in range, and of the
  queue's assertions only the two that report an overflow (210, 300) can fire.
* `Consistency`: `Spec => []RingConsistent` - the front location is empty
  exactly when all entries are free, the head is as far behind the tail as there
  are events in the ring, and the slots in between hold events.
* `Refinement`: `Spec => ImplementsDeque` - every step of the ring is a step of
  the deque or leaves it unchanged.
* `ReferencesCounted`: `Spec => []RefCtrExact` - the counter of an event from a
  pool is the number of its places in the queue and of receivers that hold it.

The assumptions are those on the constants in QEQueue and `CountersWideEnough`:
qLen + 1 and the margins can be represented in the counter type. It is needed:
without it `m_nFree` wraps to 0 in an empty queue.

The inductive invariant is `IInv == TypeOK /\ RingConsistent`. Neither half is
inductive alone: that `m_head` indexes the ring, and that `get` does not take an
empty slot, follow only from the distance between head and tail, which the code
never computes. The step proof has a lemma per action; its core is `HeadFree`: with a
free entry and an event in front, the head is a slot that holds no event of the
queue. For the refinement, `PostAppends`, `PostLIFOPrepends` and `GetTakesHead`
show what each operation does to `Contents`, and `StepRefines` puts them together.
The same three facts, with a lemma on how appending and prepending change the
number of positions of an event, give the reference counters (`NextCounts`).

`QVProofs` proves for the cooperative kernel, with any number of objects,
priorities, queue lengths and calls per step:

* `NoWakeupLost`: `Spec => []NoLostWakeup`,
* `LoopNeverAsserts`: `Spec => []PickedCanRun`,
* `IdleOnlyWhenEmpty`: `Spec => []NoSleepOverEvents`.

The assumptions are those on the constants in QV and `OwnPriorities`: no two
objects use one priority, not even one after the other (see the deviations above;
the run `qv` satisfies it). The properties are about the ready set, and not
inductive: that a picked object can run needs a reason for every ready bit. The
invariant `IInv` gives it: the object of a ready priority has events, or is the
one whose step is running, or is just being stopped (`Reason`). In addition an
object is registered at its own priority and between `start` and `stop` only
(`Registration`), and a processor that sleeps unwoken has nothing ready (`Awake`).
The interesting steps are the end of a run-to-completion step (`RtcEndIInv`: the
bit it removes is nobody else's, by `OwnPriorities`), `start` (`StartIInv`: the
priority it takes is not ready) and `pick` (`PickIInv`: `findMax` of a non-empty
set is a member of it, from the well-foundedness of the naturals).

`QMPoolProofs` proves for the memory pool, with storage and blocks of every size,
any number of clients and all margins:

* `FreeListKept`: `Spec => []FreeListExact`,
* `PoolNeverAsserts`: `Spec => []NoPoolAssertion`,
* `BlocksInStorage`: `Spec => []BlocksFit`,
* `PoolRefinement`: `Spec => ImplementsPool`.

The assumptions are those on the constants in QMPool and `TypesWideEnough`: a
block size that passes the precondition of `init` can be rounded up in
`QMPoolSize`, and `QMPoolCtr` can count the blocks of the storage; the refinement
also needs margins that fit into `QMPoolCtr` (`MarginsFit`). The run `pool`
satisfies them, and each is needed (see the deviations). `IInv` follows `init`:
the block size is `nblocks` whole pointers (`Rounded`), `m_nTot` blocks of it are
cut off the storage and `fb` is the last (`Cut`), each links to the next one
(`Chained`). From then on the blocks are a fixed grid, and `Ready` says that a
sequence `f` without repetitions follows the links from the head to the end,
and that `f` and what the clients own make up the grid. `get` takes the first
element of `f`, `put` adds one (`TakeFirst`, `PutFirst`); that `put` may, although
its precondition was tested earlier, is a count (`OwnedNotFree`): as long as a
client owns a block, fewer blocks than all are on the list. `WalkIs` connects `f`
with the recursive function that the properties use.

`QFEventsProofs` proves for events, with any number of objects, interrupts, events
and pools, and queues of every length:

* `CountsExact`: `Spec => []RefCtrExact`,
* `NothingDangles`: `Spec => []NoDanglingReference`,
* `CountingNeverAsserts`: `Spec => []NoCountingAssertion`,
* `FitsSmallest`: `Spec => []SmallestFit`.

The first three assume that no handler forwards its event with a `POST_X` that may
be refused (`"forwardX" \notin Services`): `post_` then collects a reference that
nobody counted (`qf_actq.cpp:200`), and they are false. `FitsSmallest` assumes
nothing. The invariant says of every event in use who answers for it: either its
counter is the positive number of its references, or it is 0 and exactly one
thread is about to send or collect it, or exactly one thread is returning its
block and nobody refers to it. Together with what every program counter says
about the event in its thread's hands, and the pools (which block is free, which
pool an event came from), this is inductive. References are counted as places in
queues plus threads, so a step changes the count by what it does to one place
(`PlacesAppend` and its relatives).

`QTimeEvtProofs` proves for time events, with any number of events and ticks:

* `ListsKept`: `Spec => []ListsConsistent`, if no task uses `wasDisarmed`,
* `LostUpdatesHarmless`: `Spec => []ListsSurvive`, if tasks do not share a time
  event,
* `ExpiresOnTime`: `Spec => []OnTime`, and `ExpiresOnce`: `Spec => []OncePerTick`,
  with `tickX_` in an interrupt, under the same condition,
* `TicksServed`: `Spec => []NoTickStranded`, without a condition.

The hypotheses are the ones of the runs, and needed (see the deviations). The
invariant describes both lists as sequences, split at the cursor of `tickX_` into
the events that the scan has passed and those it has ahead (`Shape`); every
statement that changes a link is one of five changes of that shape. The events
ahead are one tick behind in their counters during a tick (`Timed`), and those
that `armX` adds are always ahead: that is why an event in the fresh list is not
counted too early or too late.

`QKProofs` proves for the preemptive kernel, with any number of objects, up to 64
priorities (`qpset.h`), any queue length, nesting and number of calls:

* `Nesting`, `LockNesting`, `CeilingHolds`, `MulticastAtomic`,
  `HighestPriorityRuns`: the five invariants on the stack, the locks and the
  scheduling, without further assumptions,
* `WakeupsKept`: `Spec => []NoLostWakeup`, and `KernelNeverAsserts`:
  `Spec => []NoKernelAssertion`, with `OwnPriorities` as for QV.

The argument is in two layers. `SInv` is about the stack of frames: priorities
rise along it, the locks held by all frames, in the order they were taken, are a
chain in which each remembers the one before, `lockPrio` and `lockHolder` are the
last of it, a `lockPrio` that `schedUnlock` has read is above the one it will
restore, every frame above the holder of a lock is above its ceiling
(`Cleared`), and unless PendSV is pending no priority that may preempt waits
(`Scheduling`). No conjunct is inductive alone: that the lock in force is the newest one needs that a preempting frame is
above its ceiling, which needs that `QK_sched_` compares with it. `EInv` adds the
events: for every ready bit and every frame a reason, as in QV, now for all
frames on the stack. `OwnPriorities` is needed where a step ends: the bit that it
removes is nobody else's.

`QHsmProofs` proves for the event processor, for every hierarchy with any number
of states and every MAX_NEST_DEPTH_, without further assumptions:

* `TransitionsExact`: `Spec => []TransitionExact`,
* `Ordered`: `Spec => []EntryExitOrder`,
* `StableBetweenEvents`: `Spec => []StableConfiguration`,
* `DepthSuffices`: `Spec => []NoPathOverflow`.

What the recursive function `Chain` computes is shown without an induction rule, by
the smallest counterexample: that the function exists (`ChainsExist`), and that a
chain begins with its state, goes from superstate to superstate and ends with top,
and continues at each state with the chain of that state (`ChainForm`). `Up`, the
states on a chain, then has an algebra (`UpStep`, `UpOrder`, `UpStrict`), and the
invariant `HInv` says for every program counter that the entered states are `Up`
of one state: t while states are exited, the first place of the target's chain
that is not to be entered while the path is retraced (`Entering`). In case (g) it
adds that nothing exited so far is above the target (`Climbing`); that is why the
first superstate found on the path is the innermost common one (`CommonAtSuper`).

`QXSyncProofs` proves for the dual-mode kernel with its semaphore and mutex, with
any number of basic and extended threads, up to 64 priorities, any queue lengths,
scheduler locks, counts and ceilings, and interrupts that nest or not:

* `BasicFramesNest`: `SyncSpec => []FramesNested`,
* `HighestPriorityRuns`: `SyncSpec => []HighestRuns`,
* `MutexExcludes`: `SyncSpec => []MutualExclusion`,
* `NoThreadStranded`: `SyncSpec => []NoStrandedThread`,
* `KernelAssertionsHold`: `SyncSpec => []NoKernelAssertion`.

The assumptions are those on the constants in QXK and QXSync and `SupportedUse`:
`wait` and `lock` have no time-out, no basic thread takes a mutex with a ceiling,
and no thread unlocks the mutex before it has unlocked the scheduler. The run
`qxk` satisfies it, and it is needed: after a time-out m_waitSet keeps a thread
that does not wait (the run `qxk_sema`), a boosted basic thread is activated
twice, and a holder whose priority changes is not found (see the deviations). Queues and delays may have time-outs.

The invariant `XInv` has two halves. `Core` is about the threads: who is registered
where and at which priority (`Slotted`), who holds the mutex and how much of that
it knows (`Held`), whom a time event may wake (`Timeouts`), that nobody is
forgotten and every member of a wait set waits (`Waiters`), and that the threads
that locked the scheduler form a chain along their priorities (`LockChain`).
`Dispatching` is about the processor: what the frames and the threads know of each
other (`FramesSound`), and that the thread that runs, or that PendSV will switch
to, is the one `QXK_sched_` finds (`Scheduled`). None of the five properties is
inductive alone. That a thread is not stranded needs the converse, that whoever is
in a wait set waits, or `signal` would count down for nobody. That `unlock` may hand
the mutex over needs that the heir is below the ceiling and blocked; until it runs
again it holds a mutex that it does not know of, which is the second case of
`Held`. That the highest thread runs needs that every ready bit has a thread, or a
frame that is inside `stop`. And that `schedUnlock` restores the right ceiling and
holder needs the chain: a thread above the ceiling may preempt the holder and lock
the scheduler a second time. Beside `XInv`, `Reads` says that the `lockPrio` which
`schedUnlock` read before its critical section is above the one it restores.

There is a lemma per action. Most actions either leave the ready set alone
(`CountStep`, `QuietStep`), block the running thread, make one thread ready, or
move the holder to or from the ceiling; each of these has its lemma, and
`SchedStep` shows once what the call of `QXK_sched_` at their end establishes.

The proofs by the smallest counterexample, and those about `findMax`, start from
the well-foundedness of the naturals (`SmallestExists`, which each of these modules
has for itself).

Only model-checked: the liveness properties `TopServed`, `EventuallyRecycled` and
`InitTerminates` (fairness is out of the prover's reach). Every other property of
the passing runs has its theorem.

## Not modelled

* `QMsm`: it walks tables of entry and exit actions that the QM tool generates.
  What a transition does is in the tables, so a model would mostly model QM.
* The tracing output QS, which is diagnostic; the tracing input and QUTest, which
  change the system through the operations modelled here only.
* Several published signals and several tick rates (the lists are independent);
  several semaphores or mutexes, which share only the kernel; scheduler locks
  that one QXK thread nests; `refCtr_` as an 8-bit counter; margins beyond the
  counter's range; the bit masks and the lookup of `QPSet`, which is a set here.
* Ports other than ARM Cortex-M QK and QXK, and operating systems (QFEvents
  allows every interleaving of critical sections, which covers them); examples,
  tools and third-party code.

## Plan

Done: queue, pool, events with their pools, time events with the ticker, QK, QV,
QXK with semaphores and mutexes, QHsm; proofs of every safety property of the
passing runs.

1. QPSet: `findMax` on bit masks against the maximum.
2. Liveness of time events (an armed event expires) and of QK (the object of
   the highest priority is served whoever holds the lock).
3. The ring buffer of the tracing output.
