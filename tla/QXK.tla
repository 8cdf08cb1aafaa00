-------------------------------- MODULE QXK ---------------------------------
(***************************************************************************)
(* The dual-mode kernel QXK (qxk.cpp, qxk_xthr.cpp) on ARM Cortex-M.       *)
(*                                                                         *)
(* Basic threads (active objects) run to completion on the main stack: a   *)
(* frame of the model is an invocation of QXK_activate_ with the step it   *)
(* is in.  Extended threads have a stack each and may block, in the middle *)
(* of a call, on their event queue, on a delay, and on the semaphores and  *)
(* mutexes of QXSync, with or without a time-out.  The processor executes  *)
(* curr when that is not NULL and the top frame otherwise, below all       *)
(* frames the idle loop.  Only PendSV, which QXK_sched_ pends, changes     *)
(* between the two kinds of threads.                                       *)
(*                                                                         *)
(* An action of a thread is one critical section with the code around it;  *)
(* no thread runs while PendSV is pending.  An action of an interrupt is   *)
(* one service with the QXK_ISR_EXIT that follows.  The tick interrupt     *)
(* leaves its critical section between the expiry of a time event and its  *)
(* POST: expiring is the event between the two, and other interrupts may   *)
(* come there (NestedIsrs).  An event queue is the number of its events:   *)
(* QEQueue has the ring; a time event is armed or not: QTimeEvt has the    *)
(* counters and the lists.                                                 *)
(*                                                                         *)
(* A definition marked "faulty" is a variant with a plausible bug.  No     *)
(* action uses it; replacing the definition that follows it by the variant *)
(* shows that a property would notice the bug.                             *)
(***************************************************************************)
EXTENDS Integers, Sequences, FiniteSets, FiniteSetsExt

CONSTANTS Basic,       \* the basic threads
          Ext,         \* the extended threads
          Idle,        \* the idle thread, l_idleThread
          NULL,        \* the null pointer
          PrioOf,      \* the priority every thread is started at
          MAX_ACTIVE,  \* QF_MAX_ACTIVE, at most 64 (qpset.h)
          QLen,        \* the events that every thread's queue holds (0: no queue)
          LockCeilings,\* the ceilings that every thread locks the scheduler up to
          Calls,       \* the services that the threads and interrupts use
          Ending,      \* the threads that return or stop
          Timed,       \* the objects that are waited for with a time-out
          NestedIsrs   \* interrupts may preempt the tick interrupt

Threads == Basic \cup Ext
Prios == 1 .. MAX_ACTIVE

ASSUME QXKAssumption == /\ MAX_ACTIVE \in 1 .. 64 /\ QLen \in [Threads -> Nat]
                        /\ PrioOf \in [Threads -> Prios]
                        /\ \A x, y \in Threads : PrioOf[x] = PrioOf[y] => x = y
                        /\ Basic \cap Ext = {} /\ Idle # NULL
                        /\ {Idle, NULL} \cap Threads = {}
                        /\ NULL \notin Nat \cup [prev : Nat, holder : Nat]
                        /\ LockCeilings \in [Threads -> SUBSET Prios]
                        /\ NestedIsrs \in BOOLEAN

VARIABLES curr, next, actPrio, lockPrio, lockHolder, readySet, \* QXK_attr_
          pendSV,      \* PendSV is pending
          active,      \* QF::active_
          stack,       \* the frames of the basic threads
          prio,        \* m_prio of every thread
          nEvts,       \* the events in every thread's queue
          obj,         \* m_temp.obj: what every extended thread blocks on
          armed,       \* m_timeEvt.m_ctr # 0
          sig,         \* m_timeEvt.sig # 0
          status,      \* what the schedLock of every thread returned, or NULL
          seen,        \* the lockPrio that its schedUnlock read, or NULL
          expiring,    \* whose time event the tick interrupt is about to post
          asrt         \* the assertion that stopped the system, or "none"

dispatcher == <<next, pendSV, stack, actPrio, asrt>>
locks == <<lockPrio, lockHolder, status, seen>>
waiting == <<obj, armed, sig>>
vars == <<curr, next, actPrio, lockPrio, lockHolder, readySet, pendSV, active,
          stack, prio, nEvts, obj, armed, sig, status, seen, expiring, asrt>>

NoChange == [prev |-> 255, holder |-> 255]  \* the status 0xFF
Frame(p, a, pin) == [prio |-> p, obj |-> a, pin |-> pin, at |-> "get"]
Top == stack[Len(stack)]

\* QF::init, and the constructors of the threads.
Init == /\ curr = NULL /\ next = NULL /\ pendSV = FALSE
        /\ actPrio = 0 /\ lockPrio = MAX_ACTIVE + 1 /\ lockHolder = 0
        /\ readySet = {}
        /\ active = [p \in 0 .. MAX_ACTIVE |-> IF p = 0 THEN Idle ELSE NULL]
        /\ stack = << >>
        /\ prio = [x \in Threads \cup {Idle} |-> IF x = Idle THEN 0 ELSE PrioOf[x]]
        /\ nEvts = [x \in Threads |-> 0]
        /\ obj = [t \in Ext |-> "none"]
        /\ armed = [t \in Ext |-> FALSE]
        /\ sig = [t \in Ext |-> TRUE]
        /\ status = [x \in Threads |-> NULL]
        /\ seen = [x \in Threads |-> NULL]
        /\ expiring = NULL /\ asrt = "none"

-----------------------------------------------------------------------------
(***************************************************************************)
(* The scheduler.  These operators come last in a critical section and see *)
(* what it did: they read the new ready set, lock and registrations.       *)
(***************************************************************************)
findMax(set) == Max(set \cup {0})

\* The priority that QXK_sched_ and the loop of QXK_activate_ find.
Eligible == IF findMax(readySet') <= lockPrio' THEN lockHolder'
                                               ELSE findMax(readySet')

\* Assertions 610 and 620 of QXK_sched_, 710 and 720 of QXK_activate_: the
\* lock holder is ready, and the thread found is registered.
HolderNotReady == Eligible # 0 /\ Eligible \notin readySet'
NotRegistered == active'[Eligible] \notin Threads \cup {Idle}
EligibleFails == HolderNotReady \/ NotRegistered
Failure == IF HolderNotReady THEN "lockHolder" ELSE "registered"

Fails(id) == asrt' = id /\ UNCHANGED <<next, pendSV, stack, actPrio>>

Switch(x) == /\ next' = x /\ pendSV' = TRUE
             /\ UNCHANGED <<stack, actPrio, asrt>>
Stay == next' = NULL /\ UNCHANGED <<pendSV, stack, actPrio, asrt>>

\* QXK_activate_ up to its INT_ENABLE
Activate(p) == /\ stack' = Append(stack, Frame(p, active'[p], actPrio))
               /\ actPrio' = p /\ next' = NULL

\* QXK_sched_ and what its caller does with the priority it returns:
\* "activate" a basic thread, "ignore" it, or pend PendSV from an "isr".
\* faulty: a thread that became ready below the current one takes over
PreemptsAny(p) == p > 0
Preempts(p) == p > actPrio

QXK_sched_(caller) ==
    LET p == Eligible
        x == active'[p]
    IN  \/ EligibleFails /\ Fails(Failure)
        \/ /\ ~EligibleFails
           /\ \/ x \in Ext /\ x # curr /\ Switch(x)
              \/ x \in Ext /\ x = curr /\ Stay
              \/ x \notin Ext /\ curr # NULL /\ Switch(x)
              \/ x \notin Ext /\ curr = NULL /\ ~Preempts(p) /\ Stay
              \/ /\ x \notin Ext /\ curr = NULL /\ Preempts(p)
                 /\ \/ caller = "activate" /\ Activate(p) /\ UNCHANGED <<pendSV, asrt>>
                    \/ /\ caller = "ignore" /\ next' = x
                       /\ UNCHANGED <<pendSV, stack, actPrio, asrt>>
                    \/ caller = "isr" /\ Switch(x)

\* The end of a service called in a thread or, with QXK_ISR_EXIT, in an
\* interrupt.  sched says what the service does in a thread.
EndOf(ctx, sched) ==
    IF ctx = "isr" THEN QXK_sched_("isr")
    ELSE IF sched = "none" THEN UNCHANGED dispatcher
    ELSE QXK_sched_(sched)

\* PendSV_Handler
PendSV ==
    /\ asrt = "none" /\ pendSV /\ expiring = NULL
    /\ pendSV' = FALSE
    /\ UNCHANGED active
    /\ IF next = NULL THEN UNCHANGED <<curr, next, stack, actPrio>>
       ELSE IF next \in Ext
       THEN curr' = next /\ next' = NULL /\ UNCHANGED <<stack, actPrio>>
       ELSE /\ curr' = NULL
            /\ IF curr = NULL \/ prio[next] > actPrio
               THEN Activate(prio[next])
               ELSE next' = NULL /\ UNCHANGED <<stack, actPrio>>
    /\ UNCHANGED <<locks, readySet, prio, nEvts, waiting, expiring, asrt>>

-----------------------------------------------------------------------------
(***************************************************************************)
(* Starting and running.                                                   *)
(***************************************************************************)
Started == lockPrio <= MAX_ACTIVE
Registered(x) == active[PrioOf[x]] = x

\* QActive::start and QXThread::start in main(), before QF::run.
start(x) ==
    /\ asrt = "none" /\ ~Started
    /\ active[PrioOf[x]] = NULL
    /\ active' = [active EXCEPT ![PrioOf[x]] = x]
    /\ readySet' = IF x \in Ext THEN readySet \cup {PrioOf[x]} ELSE readySet
    /\ UNCHANGED <<curr, locks, prio, nEvts, waiting, expiring>>
    /\ QXK_sched_(IF x \in Ext THEN "ignore" ELSE "activate")

\* QF::run
run == /\ asrt = "none" /\ ~Started
       /\ \A x \in Threads : Registered(x)
       /\ lockPrio' = 0
       /\ UNCHANGED <<curr, lockHolder, status, seen, readySet, active, prio,
                      nEvts, waiting, expiring>>
       /\ QXK_sched_("activate")

ThreadsRun == asrt = "none" /\ Started /\ expiring = NULL /\ ~pendSV

\* x executes, not inside a blocking call, ...
Executes(x) == /\ ThreadsRun
               /\ IF curr # NULL THEN x = curr /\ obj[x] = "none"
                  ELSE IF stack = << >> THEN x = Idle
                  ELSE x = Top.obj /\ Top.at = "rtc" /\ Registered(x)

\* ... and not inside schedUnlock.
Runs(x) == Executes(x) /\ (x \in Threads => seen[x] = NULL)

\* The object of the frame f is inside stop().
Stopping(f) == f.at = "rtc" /\ ~Registered(f.obj) /\ prio[f.obj] \in readySet

\* The extended thread t may call a service that blocks.
MayBlock(t, service) == /\ Runs(t) /\ t \in Ext /\ service \in Calls
                        /\ lockHolder # prio[t]

\* t executes again after it blocked on o.
Resumes(t, o) == ThreadsRun /\ curr = t /\ obj[t] = o

InIsr == asrt = "none" /\ Started /\ (expiring # NULL => NestedIsrs)

\* The contexts a service can be called from.
Called(ctx, service) == /\ service \in Calls
                        /\ IF ctx = "isr" THEN InIsr ELSE Runs(ctx)
Contexts == Threads \cup {Idle, "isr"}

\* QXK_activate_: the event the object was activated for ("by this time must
\* be non-empty and QActive_get_() asserts it", qxk.cpp:486).
get_ ==
    /\ ThreadsRun /\ curr = NULL /\ stack # << >>
    /\ Top.at = "get"
    /\ IF nEvts[Top.obj] = 0
       THEN Fails("get_") /\ UNCHANGED nEvts
       ELSE /\ nEvts' = [nEvts EXCEPT ![Top.obj] = @ - 1]
            /\ stack' = [stack EXCEPT ![Len(stack)].at = "rtc"]
            /\ UNCHANGED <<next, pendSV, actPrio, asrt>>
    /\ UNCHANGED <<curr, locks, readySet, active, prio, waiting, expiring>>

Popped == SubSeq(stack, 1, Len(stack) - 1)

\* faulty: the ready bit is always removed
ReadyAfterNone(f) == readySet \ {f.prio}
ReadyAfter(f) == IF nEvts[f.obj] = 0 THEN readySet \ {f.prio} ELSE readySet

\* QXK_activate_: the rest of the loop after the run-to-completion step.
rtcEnd ==
    /\ ThreadsRun /\ curr = NULL /\ stack # << >>
    /\ Top.at = "rtc" /\ ~Stopping(Top)
    /\ status[Top.obj] = NULL
    /\ readySet' = ReadyAfter(Top)
    /\ UNCHANGED <<curr, locks, active, prio, nEvts, waiting, expiring>>
    /\ LET p == Eligible
           x == active'[p]
       IN  \/ EligibleFails /\ Fails(Failure)
           \/ /\ ~EligibleFails /\ UNCHANGED asrt
              /\ \/ /\ x \notin Ext /\ p > Top.pin
                    /\ stack' = Append(Popped, Frame(p, x, Top.pin))
                    /\ actPrio' = p /\ next' = NULL /\ UNCHANGED pendSV
                 \/ /\ x \notin Ext /\ p <= Top.pin
                    /\ stack' = Popped
                    /\ actPrio' = Top.pin /\ next' = NULL /\ UNCHANGED pendSV
                 \/ /\ x \in Ext
                    /\ stack' = Popped
                    /\ actPrio' = Top.pin /\ next' = x /\ pendSV' = TRUE

-----------------------------------------------------------------------------
(***************************************************************************)
(* Blocking and time-outs.                                                 *)
(***************************************************************************)
\* teArm_ with nTicks # 0 (timed) or QXTHREAD_NO_TIMEOUT
TeArm(t, timed) == /\ armed' = [armed EXCEPT ![t] = timed]
                   /\ sig' = [sig EXCEPT ![t] = TRUE]

\* Block t on o: teArm_, whose precondition 700 is that the time event is
\* unused, removal from the ready set, and QXK_sched_.
Block(t, o, timed) ==
    /\ timed => o \in Timed
    /\ IF armed[t]
       THEN Fails("teArm_") /\ UNCHANGED <<waiting, readySet>>
       ELSE /\ obj' = [obj EXCEPT ![t] = o]
            /\ TeArm(t, timed)
            /\ readySet' = readySet \ {prio[t]}
            /\ QXK_sched_("ignore")

\* The end of a blocking call that t resumes from.
Unblocked(t) == obj' = [obj EXCEPT ![t] = "none"]

\* faulty: the time event keeps running
TeDisarmNot(t) == UNCHANGED armed
TeDisarm(t) == armed' = [armed EXCEPT ![t] = FALSE]

queueGet(t) ==
    /\ MayBlock(t, "queueGet") /\ nEvts[t] > 0
    /\ nEvts' = [nEvts EXCEPT ![t] = @ - 1]
    /\ UNCHANGED <<curr, dispatcher, locks, readySet, active, prio, waiting,
                   expiring>>

queueBlock(t, timed) ==
    /\ MayBlock(t, "queueGet") /\ nEvts[t] = 0 /\ QLen[t] > 0
    /\ UNCHANGED <<curr, locks, active, prio, nEvts, expiring>>
    /\ Block(t, "queue", timed)

\* It returns an event, or NULL when the time-out expired.
queueResume(t) ==
    /\ Resumes(t, "queue")
    /\ Unblocked(t)
    /\ nEvts' = [nEvts EXCEPT ![t] = IF @ > 0 THEN @ - 1 ELSE 0]
    /\ UNCHANGED <<curr, dispatcher, locks, readySet, active, prio, armed, sig,
                   expiring>>

delay(t, timed) ==
    /\ MayBlock(t, "delay")
    /\ UNCHANGED <<curr, locks, active, prio, nEvts, expiring>>
    /\ Block(t, "delay", timed)

delayResume(t) ==
    /\ Resumes(t, "delay")
    /\ Unblocked(t)
    /\ UNCHANGED <<curr, dispatcher, locks, readySet, active, prio, nEvts,
                   armed, sig, expiring>>

\* QXThread::delayCancel
delayCancel(ctx, t) ==
    /\ Called(ctx, "delayCancel") /\ t # ctx
    /\ obj[t] = "delay"
    /\ TeDisarm(t)
    /\ readySet' = readySet \cup {prio[t]}
    /\ UNCHANGED <<curr, locks, active, prio, nEvts, obj, sig, expiring>>
    /\ EndOf(ctx, "ignore")

\* QActive::post_ and QXThread::post_
post(ctx, y) ==
    /\ Called(ctx, "post")
    /\ Registered(y) /\ nEvts[y] < QLen[y]
    /\ nEvts' = [nEvts EXCEPT ![y] = @ + 1]
    /\ UNCHANGED <<curr, locks, active, prio, obj, sig, expiring>>
    /\ IF nEvts[y] = 0 /\ (y \in Ext => obj[y] = "queue")
       THEN /\ readySet' = readySet \cup {prio[y]}
            /\ IF y \in Ext THEN TeDisarm(y) ELSE UNCHANGED armed
            /\ EndOf(ctx, IF y \in Ext THEN "ignore" ELSE "activate")
       ELSE /\ UNCHANGED <<readySet, armed>>
            /\ EndOf(ctx, "none")

\* QF::tickX_ in the tick interrupt: a time event expires ...
tickExpire(t) ==
    /\ asrt = "none" /\ Started /\ expiring = NULL
    /\ armed[t]
    /\ armed' = [armed EXCEPT ![t] = FALSE]
    /\ expiring' = t
    /\ UNCHANGED <<curr, dispatcher, locks, readySet, active, prio, nEvts, obj,
                   sig>>

\* ... and is posted: QXThread::post_ with the private time event, unblock_,
\* and QXK_ISR_EXIT.
tickPost ==
    /\ asrt = "none" /\ expiring # NULL
    /\ sig' = [sig EXCEPT ![expiring] = FALSE]
    /\ readySet' = readySet \cup {prio[expiring]}
    /\ expiring' = NULL
    /\ UNCHANGED <<curr, locks, active, prio, nEvts, obj, armed>>
    /\ QXK_sched_("isr")

\* QXK_threadRet_: the handler of an extended thread returns.
threadRet(t) ==
    /\ Runs(t) /\ t \in Ending /\ lockHolder # prio[t]
    /\ status[t] = NULL /\ prio[t] = PrioOf[t]
    /\ active' = [active EXCEPT ![PrioOf[t]] = NULL]
    /\ readySet' = readySet \ {PrioOf[t]}
    /\ UNCHANGED <<curr, locks, prio, nEvts, waiting, expiring>>
    /\ QXK_sched_("ignore")

\* QActive::stop by a basic thread: QF::remove_ takes its registration away ...
stop ==
    /\ curr = NULL /\ stack # << >> /\ Runs(Top.obj)
    /\ Top.obj \in Ending /\ status[Top.obj] = NULL
    /\ active' = [active EXCEPT ![prio[Top.obj]] = NULL]
    /\ UNCHANGED <<curr, dispatcher, locks, readySet, prio, nEvts, waiting,
                   expiring>>

\* ... and the next critical section its ready bit.
stopSched ==
    /\ ThreadsRun /\ curr = NULL /\ stack # << >>
    /\ Stopping(Top)
    /\ readySet' = readySet \ {prio[Top.obj]}
    /\ UNCHANGED <<curr, locks, active, prio, nEvts, waiting, expiring>>
    /\ QXK_sched_("activate")

-----------------------------------------------------------------------------
(***************************************************************************)
(* QXK::schedLock and QXK::schedUnlock; a thread locks one level.          *)
(***************************************************************************)
HolderOf(x) == IF x \in Ext THEN prio[x] ELSE 0

schedLock(x, ceiling) ==
    /\ Runs(x) /\ x # Idle /\ "schedLock" \in Calls
    /\ status[x] = NULL
    /\ IF lockPrio < ceiling
       THEN /\ status' = [status EXCEPT ![x] = [prev |-> lockPrio,
                                                holder |-> lockHolder]]
            /\ lockPrio' = ceiling
            /\ lockHolder' = HolderOf(x)
       ELSE /\ status' = [status EXCEPT ![x] = NoChange]
            /\ UNCHANGED <<lockPrio, lockHolder>>
    /\ UNCHANGED <<curr, dispatcher, readySet, active, prio, nEvts, waiting,
                   seen, expiring>>

\* schedUnlock reads lockPrio before its critical section, ...
schedUnlock(x) ==
    /\ Runs(x) /\ x # Idle
    /\ status[x] # NULL
    /\ IF status[x] = NoChange
       THEN status' = [status EXCEPT ![x] = NULL] /\ UNCHANGED seen
       ELSE seen' = [seen EXCEPT ![x] = lockPrio] /\ UNCHANGED status
    /\ UNCHANGED <<curr, dispatcher, lockPrio, lockHolder, readySet, active,
                   prio, nEvts, waiting, expiring>>

\* faulty: unlocked threads wait for the next scheduling
AfterUnlockNone == UNCHANGED dispatcher
AfterUnlock == QXK_sched_("activate")

\* ... in which it restores the lock of its status.
restoreLock(x) ==
    /\ Executes(x) /\ seen[x] # NULL
    /\ status' = [status EXCEPT ![x] = NULL]
    /\ seen' = [seen EXCEPT ![x] = NULL]
    /\ UNCHANGED <<curr, readySet, active, prio, nEvts, waiting, expiring>>
    /\ IF seen[x] <= status[x].prev
       THEN Fails("schedUnlock") /\ UNCHANGED <<lockPrio, lockHolder>>
       ELSE /\ lockPrio' = status[x].prev
            /\ lockHolder' = status[x].holder
            /\ AfterUnlock

Next == \/ \E x \in Threads : \/ start(x)
                              \/ \E c \in LockCeilings[x] : schedLock(x, c)
                              \/ schedUnlock(x) \/ restoreLock(x)
        \/ run \/ PendSV \/ get_ \/ rtcEnd \/ stop \/ stopSched \/ tickPost
        \/ \E t \in Ext : \/ queueGet(t) \/ queueResume(t) \/ delayResume(t)
                          \/ threadRet(t) \/ tickExpire(t)
                          \/ \E timed \in BOOLEAN : queueBlock(t, timed)
                                                    \/ delay(t, timed)
        \/ \E ctx \in Contexts : \/ \E y \in Threads : post(ctx, y)
                                 \/ \E t \in Ext : delayCancel(ctx, t)
=============================================================================
