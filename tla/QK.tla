--------------------------------- MODULE QK ---------------------------------
(***************************************************************************)
(* The preemptive, run-to-completion kernel QK (qk.cpp) with the parts of  *)
(* QF that call it: starting and stopping active objects, posting,         *)
(* publishing and subscribing to one signal.                               *)
(*                                                                         *)
(* All active objects and the idle loop share one stack.  A frame of the   *)
(* model is an invocation of QK_activate_ together with the                *)
(* run-to-completion step it is in; the lowest frame is main(), later the  *)
(* idle loop.  Only the top frame runs.  An action of a thread is one      *)
(* critical section with the code around it, so interrupts come between    *)
(* any two of them; while an interrupt is active, or PendSV is pending, no *)
(* thread runs (ports/arm-cm/qk).                                          *)
(*                                                                         *)
(* An event queue is the number of its events: QEQueue has the ring.       *)
(*                                                                         *)
(* A definition marked "faulty" is a variant with a plausible bug.  No     *)
(* action uses it; replacing the definition that follows it by the variant *)
(* shows that a property would notice the bug.                             *)
(***************************************************************************)
EXTENDS Integers, Sequences, SequencesExt, FiniteSets, FiniteSetsExt

CONSTANTS Objs,        \* the active objects
          NULL,        \* the null pointer
          PrioOf,      \* the priority every object is started at (m_prio)
          MAX_ACTIVE,  \* QF_MAX_ACTIVE
          QLen,        \* the events a queue holds
          Fuel,        \* bound: the calls a run-to-completion step makes
          MaxNest,     \* bound: how deep interrupts nest
          Ceilings,    \* the ceilings that the handlers lock up to
          Calls        \* the services that the handlers use

Prios == 1 .. MAX_ACTIVE

\* "Valid range is 1..64" (qpset.h:43)
ASSUME QKAssumption == /\ MAX_ACTIVE \in 1 .. 64 /\ QLen \in Nat \ {0}
                       /\ Fuel \in Nat /\ MaxNest \in Nat
                       /\ Ceilings \subseteq Prios
                       /\ PrioOf \in [Objs -> Prios] /\ NULL \notin Objs

VARIABLES active,      \* QF::active_
          nEvts,       \* the events in every object's queue
          hsm,         \* every object: "new", "init", "stable" or "stopped"
          subscrList,  \* the subscribers of the signal
          readySet, actPrio, nextPrio, lockPrio, lockHolder, \* QK_attr_
          stack,       \* the frames
          isr,         \* the active interrupts
          pendSV,      \* PendSV is pending
          asrt         \* the assertion that stopped the system, or "none"

qf == <<active, hsm, subscrList>>
vars == <<active, nEvts, hsm, subscrList, readySet, actPrio, nextPrio,
          lockPrio, lockHolder, stack, isr, pendSV, asrt>>

NoChange == 255        \* the status 0xFF of a schedLock that locked nothing


\* at: where the frame is; locks: the statuses it has to unlock with; seen:
\* the lockPrio that schedUnlock read; list and todo: the subscribers of the
\* event it publishes, all and still to do; child: the object it starts.
Frame(p, a, pin) == [prio |-> p, obj |-> a, pin |-> pin, at |-> "get",
                     fuel |-> 0, locks |-> << >>, seen |-> 0, list |-> {},
                     todo |-> {}, child |-> NULL]

Top == stack[Len(stack)]
SetTop(f) == [stack EXCEPT ![Len(stack)] = f]
ThreadRuns == asrt = "none" /\ isr = 0 /\ ~pendSV
At(place) == ThreadRuns /\ Top.at = place

\* A call of the handler that runs.
CallOf(service) == /\ At("rtc") /\ Top.fuel > 0
                   /\ service \in Calls
Spend(f) == [f EXCEPT !.fuel = @ - 1]

\* QF::init
Init == /\ active = [p \in Prios |-> NULL]
        /\ nEvts = [a \in Objs |-> 0]
        /\ hsm = [a \in Objs |-> "new"]
        /\ subscrList = {} /\ readySet = {}
        /\ actPrio = 0 /\ nextPrio = 0
        /\ lockPrio = MAX_ACTIVE /\ lockHolder = 0
        /\ stack = <<[Frame(0, NULL, 0) EXCEPT !.at = "rtc", !.fuel = Fuel]>>
        /\ isr = 0 /\ pendSV = FALSE /\ asrt = "none"

-----------------------------------------------------------------------------
findMax(set) == Max(set \cup {0})

\* QK_sched_: the priority to activate, or 0.
\* faulty: an object preempts itself
QK_sched_Reentrant(ready, lock) ==
    LET p == findMax(ready)
    IN  IF p < actPrio \/ p <= lock THEN 0 ELSE p

QK_sched_(ready, lock) ==
    LET p == findMax(ready)
    IN  IF p <= actPrio \/ p <= lock THEN 0 ELSE p

\* "if (QK_sched_() != 0) QK_activate_()" at the end of a critical section of
\* the thread whose frames are frames; nextPrio is set and cleared in it.
Schedule(frames, ready, lock) ==
    LET p == QK_sched_(ready, lock)
    IN  IF p = 0
        THEN stack' = frames /\ UNCHANGED actPrio
        ELSE /\ stack' = Append(frames, Frame(p, active'[p], actPrio))
             /\ actPrio' = p

\* QACTIVE_EQUEUE_SIGNAL_ after the insertion
Resched(frames, ready) == Schedule(frames, ready, lockPrio)

\* post_ and postLIFO by the thread whose frames are frames: signal the
\* queue when it was empty.
PostFrom(frames, a) ==
    /\ nEvts' = [nEvts EXCEPT ![a] = @ + 1]
    /\ IF nEvts[a] = 0
       THEN /\ readySet' = readySet \cup {PrioOf[a]}
            /\ Resched(frames, readySet')
       ELSE stack' = frames /\ UNCHANGED <<readySet, actPrio>>

LockNeededNot(ceiling) == lockPrio <= ceiling  \* faulty: off by one
LockNeeded(ceiling) == lockPrio < ceiling

\* faulty: the holder is not noted
TakeLockNameless(ceiling) == lockPrio' = ceiling /\ UNCHANGED lockHolder
TakeLock(ceiling) == lockPrio' = ceiling /\ lockHolder' = actPrio

\* schedLock(ceiling) by the frame f.
Lock(f, ceiling) ==
    IF LockNeeded(ceiling)
    THEN /\ TakeLock(ceiling)
         /\ stack' = SetTop([f EXCEPT !.locks = Append(@,
                [prev |-> lockPrio, holder |-> lockHolder, ceiling |-> ceiling])])
    ELSE /\ stack' = SetTop([f EXCEPT !.locks = Append(@,
                [prev |-> NoChange, holder |-> 0, ceiling |-> ceiling])])
         /\ UNCHANGED <<lockPrio, lockHolder>>

\* schedUnlock by the frame f with the status of its last lock: it reads
\* lockPrio before its critical section, ...
ReadLock(f) ==
    stack' = SetTop(IF Last(f.locks).prev = NoChange
                    THEN [f EXCEPT !.at = "rtc", !.locks = Front(@)]
                    ELSE [f EXCEPT !.at = "unlock", !.seen = lockPrio])

\* ... in which it restores the lock of the status.
Unlock(f) ==
    LET stat == Last(f.locks)
    IN  IF f.seen > stat.prev
        THEN /\ lockPrio' = stat.prev
             /\ lockHolder' = stat.holder
             /\ Schedule(SetTop([f EXCEPT !.at = "rtc", !.locks = Front(@),
                                         !.seen = 0]), readySet, stat.prev)
             /\ UNCHANGED asrt
        ELSE /\ asrt' = "unlock700"
             /\ UNCHANGED <<lockPrio, lockHolder, actPrio, stack>>

-----------------------------------------------------------------------------
(***************************************************************************)
(* Start-up and the activator.                                             *)
(***************************************************************************)

\* QF::run with initial_events; main() becomes the idle loop.
run ==
    /\ At("rtc") /\ Top.prio = 0 /\ Top.locks = << >>
    /\ lockPrio' = 0
    /\ UNCHANGED <<qf, nEvts, readySet, nextPrio, lockHolder, isr, pendSV, asrt>>
    /\ Schedule(SetTop([Top EXCEPT !.at = "idle", !.fuel = 0]), readySet, 0)

\* QActive::get_ and the entry of dispatch, which requires a stable state.
get_ ==
    /\ At("get")
    /\ IF nEvts[Top.obj] = 0
       THEN asrt' = "get110" /\ UNCHANGED <<nEvts, stack>>
       ELSE IF hsm[Top.obj] # "stable"
       THEN asrt' = "dispatch400" /\ UNCHANGED <<nEvts, stack>>
       ELSE /\ nEvts' = [nEvts EXCEPT ![Top.obj] = @ - 1]
            /\ stack' = SetTop([Top EXCEPT !.at = "rtc", !.fuel = Fuel])
            /\ UNCHANGED asrt
    /\ UNCHANGED <<qf, readySet, actPrio, nextPrio, lockPrio, lockHolder, isr,
                   pendSV>>

ReadyAfterNever == readySet \ {Top.prio}  \* faulty: also with events left
ReadyAfter == IF nEvts[Top.obj] = 0 THEN readySet \ {Top.prio} ELSE readySet

StaysBelowUnlocked(p) == p <= Top.pin  \* faulty: the lock is ignored
StaysBelow(p) == p <= Top.pin \/ p <= lockPrio

\* The handler has returned: QK_activate_ goes on to the next AO above the
\* priority it was entered with, or returns.
rtcEnd ==
    /\ At("rtc") /\ Top.prio > 0 /\ Top.locks = << >>
    /\ readySet' = ReadyAfter
    /\ LET p == findMax(readySet')
       IN  IF StaysBelow(p)
           THEN stack' = Front(stack) /\ actPrio' = Top.pin
           ELSE stack' = SetTop(Frame(p, active[p], Top.pin)) /\ actPrio' = p
    /\ UNCHANGED <<qf, nEvts, nextPrio, lockPrio, lockHolder, isr, pendSV, asrt>>

(***************************************************************************)
(* Services that handlers call.                                            *)
(***************************************************************************)
\* A post without room asserts, which halts the system, or is refused and
\* changes nothing here (QFEvents has both).
Postable(a) == active[PrioOf[a]] = a /\ nEvts[a] < QLen

post(a) ==
    /\ CallOf("post") /\ Postable(a)
    /\ UNCHANGED <<qf, nextPrio, lockPrio, lockHolder, isr, pendSV, asrt>>
    /\ PostFrom(SetTop(Spend(Top)), a)

schedLock(ceiling) ==
    /\ CallOf("lock")
    /\ Lock(Spend(Top), ceiling)
    /\ UNCHANGED <<qf, nEvts, readySet, actPrio, nextPrio, isr, pendSV, asrt>>

schedUnlock ==
    /\ At("rtc") /\ Top.locks # << >>
    /\ ReadLock(Top)
    /\ UNCHANGED <<qf, nEvts, readySet, actPrio, nextPrio, lockPrio, lockHolder,
                   isr, pendSV, asrt>>

restoreLock ==
    /\ At("unlock")
    /\ UNCHANGED <<qf, nEvts, readySet, nextPrio, isr, pendSV>>
    /\ Unlock(Top)

\* publish_: the copy of the subscriber list, ...
publish_ ==
    /\ CallOf("publish")
    /\ stack' = SetTop(IF subscrList = {} THEN Spend(Top)
                       ELSE [Spend(Top) EXCEPT !.at = "copied",
                             !.list = subscrList, !.todo = subscrList])
    /\ UNCHANGED <<qf, nEvts, readySet, actPrio, nextPrio, lockPrio, lockHolder,
                   isr, pendSV, asrt>>

\* ... QF_SCHED_LOCK_ up to the highest-priority subscriber, ...
CeilingOfLowest(list) == Min(list)  \* faulty
CeilingOf(list) == Max(list)

publishLock ==
    /\ At("copied")
    /\ Lock([Top EXCEPT !.at = "multicast"], CeilingOf(Top.list))
    /\ UNCHANGED <<qf, nEvts, readySet, actPrio, nextPrio, isr, pendSV, asrt>>

\* ... a POST to every subscriber, ...
multicast ==
    /\ At("multicast") /\ Top.todo # {}
    /\ LET p == Max(Top.todo)
           a == active[p]
       IN  /\ UNCHANGED qf
           /\ IF a = NULL
              THEN /\ asrt' = "publish210"
                   /\ UNCHANGED <<nEvts, readySet, actPrio, stack>>
              ELSE IF nEvts[a] = QLen
              THEN /\ asrt' = "post110"
                   /\ UNCHANGED <<nEvts, readySet, actPrio, stack>>
              ELSE /\ UNCHANGED asrt
                   /\ PostFrom(SetTop([Top EXCEPT !.todo = @ \ {p}]), a)
    /\ UNCHANGED <<nextPrio, lockPrio, lockHolder, isr, pendSV>>

\* ... and QF_SCHED_UNLOCK_.
publishUnlock ==
    /\ At("multicast") /\ Top.todo = {}
    /\ ReadLock([Top EXCEPT !.list = {}])
    /\ UNCHANGED <<qf, nEvts, readySet, actPrio, nextPrio, lockPrio, lockHolder,
                   isr, pendSV, asrt>>

subscribe ==
    /\ CallOf("subscribe") /\ Top.prio > 0 /\ active[Top.prio] = Top.obj
    /\ subscrList' = subscrList \cup {Top.prio}
    /\ stack' = SetTop(Spend(Top))
    /\ UNCHANGED <<active, hsm, nEvts, readySet, actPrio, nextPrio, lockPrio,
                   lockHolder, isr, pendSV, asrt>>

\* unsubscribe, and unsubscribeAll: there is one signal.
unsubscribe ==
    /\ CallOf("subscribe") /\ Top.prio > 0 /\ active[Top.prio] = Top.obj
    /\ subscrList' = subscrList \ {Top.prio}
    /\ stack' = SetTop(Spend(Top))
    /\ UNCHANGED <<active, hsm, nEvts, readySet, actPrio, nextPrio, lockPrio,
                   lockHolder, isr, pendSV, asrt>>

-----------------------------------------------------------------------------
(***************************************************************************)
(* Starting and stopping active objects.                                   *)
(***************************************************************************)

\* start up to init(): the queue and the registration (add_).  main() starts
\* objects before QF::run.
start(a) ==
    /\ At("rtc") /\ (Top.prio = 0 \/ CallOf("start"))
    /\ hsm[a] = "new" /\ active[PrioOf[a]] = NULL
    /\ nEvts' = [nEvts EXCEPT ![a] = 0]
    /\ active' = [active EXCEPT ![PrioOf[a]] = a]
    /\ hsm' = [hsm EXCEPT ![a] = "init"]
    /\ stack' = SetTop([Top EXCEPT !.at = "init", !.child = a,
                        !.fuel = IF Top.prio = 0 THEN @ ELSE @ - 1])
    /\ UNCHANGED <<subscrList, readySet, actPrio, nextPrio, lockPrio,
                   lockHolder, isr, pendSV, asrt>>

\* The top-most initial transition of the new object subscribes, or posts.
initSubscribe ==
    /\ At("init") /\ "subscribe" \in Calls
    /\ subscrList' = subscrList \cup {PrioOf[Top.child]}
    /\ UNCHANGED <<active, hsm, nEvts, readySet, actPrio, nextPrio, lockPrio,
                   lockHolder, stack, isr, pendSV, asrt>>

initPost(a) ==
    /\ At("init") /\ "post" \in Calls /\ Top.fuel > 0 /\ Postable(a)
    /\ UNCHANGED <<qf, nextPrio, lockPrio, lockHolder, isr, pendSV, asrt>>
    /\ PostFrom(SetTop(Spend(Top)), a)

InitReturns(a) == hsm' = [hsm EXCEPT ![a] = "stable"]

\* init() has returned: "See if this AO needs to be scheduled".
startSched ==
    /\ At("init")
    /\ InitReturns(Top.child)
    /\ UNCHANGED <<active, subscrList, nEvts, readySet, nextPrio, lockPrio,
                   lockHolder, isr, pendSV, asrt>>
    /\ Schedule(SetTop([Top EXCEPT !.at = "rtc", !.child = NULL]), readySet,
                lockPrio)

\* stop up to remove_.  The object has unsubscribed.
stop ==
    /\ CallOf("stop") /\ Top.prio > 0
    /\ active[actPrio] = Top.obj /\ Top.prio \notin subscrList
    /\ active' = [active EXCEPT ![Top.prio] = NULL]
    /\ hsm' = [hsm EXCEPT ![Top.obj] = "stopped"]
    /\ stack' = SetTop([Top EXCEPT !.at = "stop"])
    /\ UNCHANGED <<subscrList, nEvts, readySet, actPrio, nextPrio, lockPrio,
                   lockHolder, isr, pendSV, asrt>>

NotReady(p) == readySet' = readySet \ {p}

stopSched ==
    /\ At("stop")
    /\ NotReady(Top.prio)
    /\ UNCHANGED <<qf, nEvts, nextPrio, lockPrio, lockHolder, isr, pendSV, asrt>>
    /\ Schedule(SetTop([Spend(Top) EXCEPT !.at = "rtc"]), readySet', lockPrio)

-----------------------------------------------------------------------------
(***************************************************************************)
(* Interrupts of ports/arm-cm/qk.                                          *)
(***************************************************************************)
isrEntry ==
    /\ asrt = "none" /\ isr < MaxNest
    /\ isr' = isr + 1
    /\ UNCHANGED <<qf, nEvts, readySet, actPrio, nextPrio, lockPrio, lockHolder,
                   stack, pendSV, asrt>>

\* In an interrupt a post only signals the queue.
PostAll(objs) == /\ nEvts' = [a \in Objs |-> IF a \in objs THEN nEvts[a] + 1
                                                         ELSE nEvts[a]]
                 /\ readySet' = readySet \cup {PrioOf[a] : a \in objs}

isrPost(a) ==
    /\ asrt = "none" /\ isr > 0 /\ Postable(a)
    /\ PostAll({a})
    /\ UNCHANGED <<qf, actPrio, nextPrio, lockPrio, lockHolder, stack, isr,
                   pendSV, asrt>>

\* publish_ in an interrupt does not lock the scheduler.
isrPublish ==
    /\ asrt = "none" /\ isr > 0 /\ "publish" \in Calls /\ subscrList # {}
    /\ LET objs == {active[p] : p \in subscrList}
       IN  IF NULL \in objs
           THEN asrt' = "publish210" /\ UNCHANGED <<nEvts, readySet>>
           ELSE IF \E a \in objs : nEvts[a] = QLen
           THEN asrt' = "post110" /\ UNCHANGED <<nEvts, readySet>>
           ELSE PostAll(objs) /\ UNCHANGED asrt
    /\ UNCHANGED <<qf, actPrio, nextPrio, lockPrio, lockHolder, stack, isr,
                   pendSV>>

\* faulty: only the first of several interrupts asks for an activation
PendOnce(p) == IF p = 0 \/ pendSV THEN UNCHANGED <<nextPrio, pendSV>>
                                  ELSE nextPrio' = p /\ pendSV' = TRUE
Pend(p) == IF p = 0 THEN UNCHANGED <<nextPrio, pendSV>>
                    ELSE nextPrio' = p /\ pendSV' = TRUE

\* QK_ISR_EXIT
isrExit ==
    /\ asrt = "none" /\ isr > 0
    /\ isr' = isr - 1
    /\ Pend(QK_sched_(readySet, lockPrio))
    /\ UNCHANGED <<qf, nEvts, readySet, actPrio, lockPrio, lockHolder, stack,
                   asrt>>

\* PendSV runs after the last interrupt and calls QK_activate_.
PendSV_Handler ==
    /\ asrt = "none" /\ isr = 0 /\ pendSV
    /\ pendSV' = FALSE
    /\ IF nextPrio = 0
       THEN asrt' = "activate800" /\ UNCHANGED <<nextPrio, actPrio, stack>>
       ELSE /\ nextPrio' = 0 /\ actPrio' = nextPrio
            /\ stack' = Append(stack, Frame(nextPrio, active[nextPrio], actPrio))
            /\ UNCHANGED asrt
    /\ UNCHANGED <<qf, nEvts, readySet, lockPrio, lockHolder, isr>>

-----------------------------------------------------------------------------
Thread == \/ run \/ get_ \/ rtcEnd
          \/ \E a \in Objs : post(a) \/ start(a) \/ initPost(a)
          \/ \E c \in Ceilings : schedLock(c)
          \/ schedUnlock \/ restoreLock
          \/ publish_ \/ publishLock \/ multicast \/ publishUnlock
          \/ subscribe \/ unsubscribe
          \/ initSubscribe \/ startSched \/ stop \/ stopSched

Next == \/ Thread
        \/ isrEntry \/ isrPublish \/ isrExit \/ PendSV_Handler
        \/ \E a \in Objs : isrPost(a)

Spec == Init /\ [][Next]_vars

-----------------------------------------------------------------------------
\* No wake-up is lost: the priority of an object with events in its queue is
\* in readySet ("the highest-prio AO with non-empty event queue", qk.cpp).
NoLostWakeup == \A p \in Prios :
    active[p] # NULL /\ nEvts[active[p]] > 0 => p \in readySet

\* The assertions that guard the kernel's own consistency never fire:
\* schedUnlock() finds the lock it has to release (qk.cpp:306), an activation
\* has a priority (qk.cpp:386), a step that begins has an event (qk.h:206).
NoKernelAssertion == asrt \notin {"unlock700", "activate800", "get110"}

\* No eligible object waits: whenever a thread runs, no ready priority is
\* above the active and the lock priority: neither a post nor the last of several
\* interrupts before PendSV forgot to schedule it.
HighestRuns == ThreadRuns => findMax(readySet) <= Max({actPrio, lockPrio})

\* Preemption nests: each frame runs above the one it preempted, and will
\* restore its priority.
StackNested ==
    /\ actPrio = Top.prio
    /\ \A i \in 2 .. Len(stack) : /\ stack[i].prio > stack[i-1].prio
                                  /\ stack[i].pin = stack[i-1].prio

\* What schedLock promises: while a frame holds the lock, only objects above
\* its ceiling run.
CeilingRespected ==
    \A i \in DOMAIN stack : \A j \in DOMAIN stack[i].locks :
        \A k \in i + 1 .. Len(stack) :
            stack[k].prio > stack[i].locks[j].ceiling

\* The locks that the frames have to undo, and those of them that changed
\* lockPrio.
Locks == UNION {{[frame |-> i, nr |-> j, stat |-> stack[i].locks[j],
                  prio |-> stack[i].prio] : j \in DOMAIN stack[i].locks} :
                i \in DOMAIN stack}
Held == {x \in Locks : x.stat.prev # NoChange}
Older(x, y) == x.frame < y.frame \/ (x.frame = y.frame /\ x.nr < y.nr)

\* The values of lockPrio and lockHolder while locks are all that is held.
InForce(locks, prio, holder) ==
    IF locks = {}
    THEN holder = 0 /\ prio = IF stack[1].at = "idle" THEN 0 ELSE MAX_ACTIVE
    ELSE \E x \in locks : /\ \A y \in locks : y = x \/ Older(y, x)
                          /\ prio = x.stat.ceiling /\ holder = x.prio

\* Locks nest across preemption: lockPrio and lockHolder are those of the
\* newest lock that is held, and none after the last unlock.
LocksNested == InForce(Held, lockPrio, lockHolder)

\* publish_: "the event multicasting is performed with scheduler locked":
\* between its first and its last post no subscriber of the list runs above
\* the publisher.
MulticastUninterrupted ==
    \A i \in DOMAIN stack : stack[i].at = "multicast" =>
        \A k \in i + 1 .. Len(stack) : stack[k].prio \notin stack[i].list
=============================================================================
