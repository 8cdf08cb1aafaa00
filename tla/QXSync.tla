------------------------------- MODULE QXSync -------------------------------
(***************************************************************************)
(* The counting semaphore (qxk_sema.cpp) and the recursive priority-       *)
(* ceiling mutex (qxk_mutex.cpp) of QXK, used by the threads of module QXK.*)
(*                                                                         *)
(* A mutex with a ceiling owns the slot of QF::active_ at that priority;   *)
(* its holder runs at the ceiling and takes over the slot.                 *)
(***************************************************************************)
EXTENDS QXK

CONSTANTS Mutex,       \* the mutex, as it is registered at its ceiling
          Ceilings,    \* the ceilings it may be initialized with
          MaxCount,    \* m_max_count of the semaphore
          MaxLock      \* bound: how deep locks nest (0xFF in the code)

ASSUME SyncAssumption == /\ Ceilings \subseteq 0 .. MAX_ACTIVE
                         /\ MaxCount \in Nat \ {0} /\ MaxLock \in Nat \ {0}
                         /\ Mutex \notin Threads \cup {Idle, NULL}

VARIABLES m_count,     \* the semaphore: its counter
          semaSet,     \*     and its m_waitSet
          m_ceiling, m_lockNest, m_holderPrio,  \* the mutex
          mutexSet,    \*     and its m_waitSet
          has          \* the locks every thread knows that it has to undo

sema == <<m_count, semaSet>>
mutex == <<m_ceiling, m_lockNest, m_holderPrio, mutexSet>>
sync == <<m_count, semaSet, m_ceiling, m_lockNest, m_holderPrio, mutexSet, has>>
allVars == <<vars, sync>>

\* QXSemaphore::init in main()
SyncInit == /\ Init
            /\ m_count \in 0 .. MaxCount /\ semaSet = {}
            /\ m_ceiling = NULL /\ m_lockNest = 0 /\ m_holderPrio = 0
            /\ mutexSet = {} /\ has = [x \in Threads |-> 0]

\* QXMutex::init in main(): reserve the ceiling.
mutexInit(ceiling) ==
    /\ asrt = "none" /\ ~Started /\ m_ceiling = NULL
    /\ ceiling # 0 => active[ceiling] = NULL
    /\ m_ceiling' = ceiling
    /\ active' = IF ceiling = 0 THEN active
                 ELSE [active EXCEPT ![ceiling] = Mutex]
    /\ UNCHANGED <<curr, dispatcher, locks, readySet, prio, nEvts, waiting,
                   expiring, sema, m_lockNest, m_holderPrio, mutexSet, has>>

-----------------------------------------------------------------------------
(***************************************************************************)
(* The semaphore.                                                          *)
(***************************************************************************)
wait(t) ==
    /\ MayBlock(t, "wait") /\ m_count > 0
    /\ m_count' = m_count - 1
    /\ sig' = [sig EXCEPT ![t] = TRUE]
    /\ UNCHANGED <<curr, dispatcher, locks, readySet, active, prio, nEvts, obj,
                   armed, expiring, semaSet, mutex, has>>

waitBlock(t, timed) ==
    /\ MayBlock(t, "wait") /\ m_count = 0
    /\ semaSet' = semaSet \cup {prio[t]}
    /\ UNCHANGED <<curr, locks, active, prio, nEvts, expiring, m_count, mutex,
                   has>>
    /\ Block(t, "sema", timed)

waitResume(t) ==
    /\ Resumes(t, "sema")
    /\ Unblocked(t)
    /\ UNCHANGED <<curr, dispatcher, locks, readySet, active, prio, nEvts,
                   armed, sig, expiring, sync>>

tryWait(ctx) ==
    /\ Called(ctx, "tryWait") /\ m_count > 0
    /\ m_count' = m_count - 1
    /\ UNCHANGED <<curr, locks, readySet, active, prio, nEvts, waiting,
                   expiring, semaSet, mutex, has>>
    /\ EndOf(ctx, "none")

\* Assertion 410 of signal(): the thread found must be blocked on the
\* semaphore, which must not be signaled.
Awaits(p) == /\ active[p] \in Ext /\ obj[active[p]] = "sema"
             /\ m_count = 0

signalWaiter(ctx) ==
    LET p == findMax(semaSet)
    IN  /\ Called(ctx, "signal") /\ semaSet # {}
        /\ UNCHANGED <<curr, locks, active, prio, nEvts, obj, sig, expiring,
                       m_count, mutex, has>>
        /\ IF Awaits(p)
           THEN /\ readySet' = readySet \cup {p}
                /\ semaSet' = semaSet \ {p}
                /\ TeDisarm(active[p])
                /\ EndOf(ctx, "ignore")
           ELSE /\ Fails("signal:410")
                /\ UNCHANGED <<readySet, semaSet, armed>>

signalCount(ctx) ==
    /\ Called(ctx, "signal") /\ semaSet = {}
    /\ m_count' = IF m_count < MaxCount THEN m_count + 1 ELSE m_count
    /\ UNCHANGED <<curr, locks, readySet, active, prio, nEvts, waiting,
                   expiring, semaSet, mutex, has>>
    /\ EndOf(ctx, "none")

-----------------------------------------------------------------------------
(***************************************************************************)
(* The mutex.                                                              *)
(***************************************************************************)
\* The preconditions of lock() and tryLock().  A basic thread that runs at
\* the ceiling is activated again while it runs (see README): only with
\* "basicBoost".
MayLock(x, service) ==
    /\ Runs(x) /\ x # Idle /\ service \in Calls
    /\ m_ceiling # 0 => /\ PrioOf[x] < m_ceiling
                        /\ x \in Basic => "basicBoost" \in Calls
    /\ prio[x] # lockHolder

\* The priority of x becomes the ceiling.
Boost(x) == /\ prio' = [prio EXCEPT ![x] = m_ceiling]
            /\ readySet' = (readySet \ {PrioOf[x]}) \cup {m_ceiling}

\* x locks the free mutex.
Take(x) ==
    /\ UNCHANGED <<m_ceiling, mutexSet>>
    /\ IF m_ceiling # 0 /\ active[m_ceiling] # Mutex
       THEN /\ Fails("lock:210")
            /\ UNCHANGED <<m_lockNest, m_holderPrio, prio, active, readySet>>
       ELSE /\ m_lockNest' = 1
            /\ m_holderPrio' = PrioOf[x]
            /\ UNCHANGED dispatcher
            /\ IF m_ceiling = 0 THEN UNCHANGED <<prio, active, readySet>>
               ELSE Boost(x) /\ active' = [active EXCEPT ![m_ceiling] = x]

\* x locks it once more.
Nest == /\ m_lockNest < MaxLock
        /\ m_lockNest' = m_lockNest + 1
        /\ UNCHANGED <<dispatcher, readySet, active, prio, m_ceiling,
                       m_holderPrio, mutexSet>>

Acquires(x) == has' = [has EXCEPT ![x] = @ + 1]

Nests(x) == m_lockNest > 0 /\ m_holderPrio = PrioOf[x]

\* lock() returns whether m_timeEvt.sig is not 0.  A caller that set no
\* time-out knows that it has the mutex whatever that is.
lockNow(t, timed) ==
    /\ MayLock(t, "lock") /\ t \in Ext
    /\ timed => "mutex" \in Timed
    /\ IF timed /\ ~sig[t] THEN UNCHANGED has ELSE Acquires(t)
    /\ UNCHANGED <<curr, locks, nEvts, waiting, expiring, sema>>
    /\ \/ m_lockNest = 0 /\ Take(t)
       \/ Nests(t) /\ Nest

lockBlock(t, timed) ==
    /\ MayLock(t, "lock") /\ t \in Ext
    /\ m_lockNest > 0 /\ ~Nests(t)
    /\ mutexSet' = mutexSet \cup {prio[t]}
    /\ UNCHANGED <<curr, locks, active, prio, nEvts, expiring, sema, m_ceiling,
                   m_lockNest, m_holderPrio, has>>
    /\ Block(t, "mutex", timed)

lockResume(t) ==
    /\ Resumes(t, "mutex")
    /\ Unblocked(t)
    /\ IF sig[t] THEN Acquires(t) ELSE UNCHANGED has
    /\ UNCHANGED <<curr, dispatcher, locks, readySet, active, prio, nEvts,
                   armed, sig, expiring, sema, mutex>>

tryLock(x) ==
    /\ MayLock(x, "tryLock")
    /\ Acquires(x)
    /\ UNCHANGED <<curr, locks, nEvts, waiting, expiring, sema>>
    /\ \/ m_lockNest = 0 /\ Take(x)
       \/ Nests(x) /\ Nest

\* Assertion 330 demands that the slot of the ceiling does not belong to the
\* holder of the mutex, where it does.
tryLockFails(x) ==
    /\ MayLock(x, "tryLock")
    /\ m_lockNest > 0 /\ ~Nests(x)
    /\ UNCHANGED <<curr, locks, readySet, active, prio, nEvts, waiting,
                   expiring, sync>>
    /\ IF m_ceiling # 0 /\ active[m_ceiling] = active[m_holderPrio]
       THEN Fails("tryLock:330") ELSE UNCHANGED dispatcher

\* x calls unlock() for a lock it has, before it has unlocked the scheduler
\* only with "unlockLocked" (see README).  Precondition 400 is that x is the
\* holder and at the ceiling.
MayUnlock(x) == /\ Runs(x) /\ x # Idle /\ has[x] > 0
                /\ prio[x] # lockHolder \/ "unlockLocked" \in Calls
Owns(x) == /\ m_lockNest > 0 /\ m_holderPrio = PrioOf[x]
           /\ m_ceiling # 0 => prio[x] = m_ceiling
Gives(x) == has' = [has EXCEPT ![x] = @ - 1]

unlockLevel(x) ==
    /\ MayUnlock(x) /\ m_lockNest # 1
    /\ Gives(x)
    /\ UNCHANGED <<curr, locks, readySet, active, prio, nEvts, waiting,
                   expiring, sema, m_ceiling, m_holderPrio, mutexSet>>
    /\ IF Owns(x)
       THEN m_lockNest' = m_lockNest - 1 /\ UNCHANGED dispatcher
       ELSE Fails("unlock:400") /\ UNCHANGED m_lockNest

\* The ready set when x is back at its own priority.
ReadyBelow(x) == IF m_ceiling = 0 THEN readySet
                 ELSE (readySet \ {m_ceiling}) \cup {PrioOf[x]}

\* Assertion 410 of unlock(), for the thread it hands the mutex over to.
CanInherit(x, p) == LET t == active[p] IN
    /\ m_ceiling = 0 \/ p < m_ceiling
    /\ t \in Ext /\ p \notin ReadyBelow(x)
    /\ prio[t] = PrioOf[t] /\ obj[t] = "mutex"

\* faulty: the free mutex leaves its slot to the last holder
SlotKept == active
SlotFreed == IF m_ceiling = 0 THEN active
             ELSE [active EXCEPT ![m_ceiling] = Mutex]

\* The last level, and no thread waits.
unlockFree(x) ==
    /\ MayUnlock(x) /\ m_lockNest = 1 /\ mutexSet = {}
    /\ Gives(x)
    /\ UNCHANGED <<curr, locks, nEvts, waiting, expiring, sema, m_ceiling,
                   mutexSet>>
    /\ IF ~Owns(x)
       THEN /\ Fails("unlock:400")
            /\ UNCHANGED <<readySet, active, prio, m_lockNest, m_holderPrio>>
       ELSE /\ m_lockNest' = 0 /\ m_holderPrio' = 0
            /\ prio' = [prio EXCEPT ![x] = PrioOf[x]]
            /\ readySet' = ReadyBelow(x)
            /\ active' = SlotFreed
            /\ QXK_sched_("activate")

\* The last level, and the mutex goes to the highest-priority waiter.
unlockHandOver(x) ==
    LET p == findMax(mutexSet)
        t == active[p]
        q == IF m_ceiling = 0 THEN p ELSE m_ceiling
    IN  /\ MayUnlock(x) /\ m_lockNest = 1 /\ mutexSet # {}
        /\ Gives(x)
        /\ UNCHANGED <<curr, locks, nEvts, obj, sig, expiring, sema, m_ceiling,
                       m_lockNest>>
        /\ IF Owns(x) /\ CanInherit(x, p)
           THEN /\ m_holderPrio' = p
                /\ mutexSet' = mutexSet \ {p}
                /\ TeDisarm(t)
                /\ prio' = [prio EXCEPT ![x] = PrioOf[x], ![t] = q]
                /\ readySet' = ReadyBelow(x) \cup {q}
                /\ active' = [active EXCEPT ![q] = t]
                /\ QXK_sched_("activate")
           ELSE /\ Fails(IF Owns(x) THEN "unlock:410" ELSE "unlock:400")
                /\ UNCHANGED <<armed, readySet, active, prio, m_holderPrio,
                               mutexSet>>

-----------------------------------------------------------------------------
\* main() initializes the mutex before QF::run, and a thread that ends has
\* unlocked it.
ThreadStep == /\ Next /\ UNCHANGED sync
              /\ Started' => m_ceiling # NULL
              /\ \A x \in Threads : has[x] > 0 => Registered(x)'

SyncNext == \/ ThreadStep
            \/ \E c \in Ceilings : mutexInit(c)
            \/ \E t \in Ext : \/ wait(t) \/ waitResume(t) \/ lockResume(t)
                              \/ \E timed \in BOOLEAN : \/ waitBlock(t, timed)
                                                        \/ lockNow(t, timed)
                                                        \/ lockBlock(t, timed)
            \/ \E x \in Threads : \/ tryLock(x) \/ tryLockFails(x)
                                  \/ unlockLevel(x) \/ unlockFree(x)
                                  \/ unlockHandOver(x)
            \/ \E ctx \in Contexts : \/ tryWait(ctx) \/ signalWaiter(ctx)
                                     \/ signalCount(ctx)

SyncSpec == SyncInit /\ [][SyncNext]_allVars

-----------------------------------------------------------------------------
(***************************************************************************)
(* Properties.                                                             *)
(***************************************************************************)
\* No assertion of the kernel fires: an activated object has an event, the
\* holder of the scheduler lock is ready, an unused time event is armed, the
\* slot of a free mutex is its own, an unlocking thread is the holder, and
\* signal() and unlock() find a thread that waits.  Two do fire (README):
\* 330 of tryLock(), and 620 and 720 for an object that is inside stop().
NoKernelAssertion ==
    \/ asrt \in {"none", "tryLock:330"}
    \/ asrt = "registered" /\ \E i \in DOMAIN stack : Stopping(stack[i])

\* Whenever neither an interrupt nor a context switch is under way, the
\* processor executes the thread of the highest priority that the scheduler
\* lock lets run, and that thread is at the priority it was activated for.
HighestRuns ==
    LET ready == findMax(readySet)
        p == IF ready <= lockPrio THEN lockHolder ELSE ready
    IN  ThreadsRun => IF active[p] \in Ext THEN curr = active[p]
                      ELSE curr = NULL /\ p <= actPrio

\* The frames on the main stack preempted one another: every one is for a
\* higher priority than the one below, to whose priority it returns.
FramesNested ==
    /\ actPrio = IF stack = << >> THEN 0 ELSE Top.prio
    /\ \A i \in DOMAIN stack :
           /\ stack[i].prio > stack[i].pin
           /\ stack[i].pin = IF i = 1 THEN 0 ELSE stack[i - 1].prio

\* A thread that was told that it locked the mutex is its holder, as often as
\* it locked it; the holder, and no other thread, runs at the ceiling and
\* owns the slot of the ceiling, which is the mutex's own while it is free.
MutualExclusion ==
    LET ceilingUsed == m_ceiling \notin {0, NULL}
    IN  /\ \A x \in Threads : has[x] > 0 => /\ m_holderPrio = PrioOf[x]
                                            /\ m_lockNest >= has[x]
        /\ \A x \in Threads : (prio[x] = PrioOf[x]) # (/\ ceilingUsed
                                                       /\ m_lockNest > 0
                                                       /\ m_holderPrio = PrioOf[x])
        /\ ceilingUsed => active[m_ceiling] = IF m_lockNest = 0 THEN Mutex
                                              ELSE active[m_holderPrio]

\* What a thread that is not ready waits for has not happened, and whoever
\* makes it happen will find the thread.
Pending(t) ==
    CASE obj[t] = "queue" -> nEvts[t] = 0
      [] obj[t] = "delay" -> TRUE
      [] obj[t] = "sema"  -> prio[t] \in semaSet /\ m_count = 0
      [] obj[t] = "mutex" -> /\ prio[t] \in mutexSet /\ m_lockNest > 0
                             /\ m_holderPrio # PrioOf[t]
      [] OTHER            -> FALSE

\* No wake-up is lost: an extended thread is ready, or what it blocks on is
\* still to come; a basic thread with events is ready.
NoStrandedThread ==
    asrt = "none" /\ Started =>
        \A x \in Threads : Registered(x) =>
            \/ prio[x] \in readySet
            \/ IF x \in Ext THEN Pending(x) ELSE nEvts[x] = 0

\* "must be blocked on this semaphore" (qxk_sema.cpp:218): the thread that
\* signal() takes out of m_waitSet waits for the semaphore.
SignalFindsWaiter == asrt # "signal:410"
=============================================================================
