------------------------------ MODULE QTimeEvt ------------------------------
(***************************************************************************)
(* Time events (qf_time.cpp) of one tick rate.  Armed time events form a   *)
(* singly linked list from timeEvtHead_[rate].m_next that only tickX_      *)
(* changes; armX and rearm put an unlinked event in front of the "freshly  *)
(* armed" list (timeEvtHead_[rate].m_act), which tickX_ appends to the     *)
(* main list when it comes to its end.                                     *)
(*                                                                         *)
(* tickX_ leaves its critical section after every event and before every   *)
(* POST, so it is one action per round of its loop and one per POST.  When *)
(* it runs in an interrupt (TickInIsr) no task runs in between.  Otherwise *)
(* it is called by the active object QTicker (qf_actq.cpp), to which an    *)
(* interrupt posts the ticks, and the tasks that use the time events may   *)
(* run there.                                                              *)
(*                                                                         *)
(* A definition marked "faulty" is a variant with a plausible bug.  No     *)
(* action uses it; replacing the definition that follows it by the variant *)
(* shows that a property would notice the bug.                             *)
(***************************************************************************)
EXTENDS Integers, FiniteSets

CONSTANTS TimeEvts,    \* the time events
          Head,        \* timeEvtHead_[rate]
          NULL,        \* the null pointer
          MaxTicks,    \* bound: the largest nTicks and interval used
          MaxPosted,   \* free entries of the queues the events are posted to
          Ops,         \* the operations that the tasks use
          MaxBacklog,  \* bound: the ticks that wait for the ticker
          TickInIsr    \* tickX_ is called from an interrupt

ASSUME TimeAssumption == /\ IsFiniteSet(TimeEvts) /\ Head # NULL
                         /\ {Head, NULL} \cap TimeEvts = {}
                         /\ MaxTicks \in Nat \ {0} /\ MaxPosted \in Nat
                         /\ MaxBacklog \in Nat \ {0}
                         /\ TickInIsr \in BOOLEAN

VARIABLES m_next,      \* the link of every time event and of the list head
          fresh,       \* timeEvtHead_[rate].m_act: the freshly armed list
          m_ctr,       \* the down-counter, 0 when disarmed
          m_interval,  \* the period, 0 for a one-shot
          linked,      \* TE_IS_LINKED of refCtr_
          disarmed,    \* TE_WAS_DISARMED of refCtr_
          tick,        \* what tickX_ is doing: "idle", "scan" or "post"
          prev,        \* its local prev
          expired,     \* the event it is about to post
          posted,      \* how often every event is in its task's queue
          byte,        \* wasDisarmed: the refCtr_ it read, or NULL
          asrt,        \* an assertion stopped the system
          front,       \* QTicker: its queue holds the tick event
          m_tail,      \*     the ticks posted since its last dispatch()
          got,         \*     the event is taken, dispatch() not yet called
          n,           \*     the ticks that its dispatch() has left to do
          \* history, for the properties only:
          due,         \* the ticks every event was last armed with
          age,         \* the ticks that began since then (where TickInIsr)
          fire,        \* due and age of the event that expired last
          fired        \* how often every event expired in this tickX_ call
                       \* (where TickInIsr)

timers == <<m_next, fresh, m_ctr, m_interval, linked, disarmed>>
ticker == <<front, m_tail, got, n>>
ticks == <<tick, prev, expired, posted, byte, asrt, due, age, fire, fired>>
vars == <<m_next, fresh, m_ctr, m_interval, linked, disarmed, tick, prev,
          expired, posted, byte, asrt, front, m_tail, got, n, due, age, fire,
          fired>>

\* The constructors.
Init == /\ m_next = [t \in TimeEvts \cup {Head} |-> NULL]
        /\ fresh = NULL
        /\ m_ctr = [t \in TimeEvts |-> 0]
        /\ m_interval = [t \in TimeEvts |-> 0]
        /\ linked = [t \in TimeEvts |-> FALSE]
        /\ disarmed = [t \in TimeEvts |-> FALSE]
        /\ tick = "idle" /\ prev = Head /\ expired = NULL
        /\ posted = [t \in TimeEvts |-> 0]
        /\ byte = [t \in TimeEvts |-> NULL]
        /\ asrt = FALSE
        /\ front = FALSE /\ m_tail = 0 /\ got = FALSE /\ n = 0
        /\ due = [t \in TimeEvts |-> 0]
        /\ age = [t \in TimeEvts |-> 0]
        /\ fire = [due |-> 0, age |-> 0]
        /\ fired = [t \in TimeEvts |-> 0]

-----------------------------------------------------------------------------
(***************************************************************************)
(* QTicker, an active object at whose queue only the front is used.        *)
(***************************************************************************)
\* faulty: the ticker is not signalled while it runs
DeliverIdle == front' = (tick = "idle")
Deliver == front' = TRUE

\* QTicker::post_, in an interrupt.
tickerPost ==
    /\ ~asrt /\ ~TickInIsr /\ m_tail < MaxBacklog
    /\ Deliver
    /\ m_tail' = m_tail + 1
    /\ UNCHANGED <<got, n, timers, ticks>>

\* The kernel takes the event from the queue ...
tickerGet ==
    /\ ~asrt /\ front /\ ~got /\ n = 0 /\ tick = "idle"
    /\ front' = FALSE /\ got' = TRUE
    /\ UNCHANGED <<m_tail, n, timers, ticks>>

\* ... and calls QTicker::dispatch.
tickerDispatch ==
    /\ ~asrt /\ got
    /\ n' = m_tail /\ m_tail' = 0
    /\ got' = FALSE
    /\ UNCHANGED <<front, timers, ticks>>

-----------------------------------------------------------------------------
(***************************************************************************)
(* QF::tickX_.                                                             *)
(***************************************************************************)
tickStart ==
    /\ ~asrt /\ tick = "idle"
    /\ IF TickInIsr THEN UNCHANGED n ELSE n > 0 /\ n' = n - 1
    /\ UNCHANGED <<front, m_tail, got>>
    /\ tick' = "scan"
    /\ age' = [t \in TimeEvts |-> IF TickInIsr /\ m_ctr[t] > 0 /\ age[t] <= MaxTicks
                                  THEN age[t] + 1 ELSE age[t]]
    /\ UNCHANGED <<timers, prev, expired, posted, byte, asrt, due, fire,
                   fired>>

\* At the end of the main list the freshly armed list is appended to it.
\* faulty: only when the main list is empty
AppendFreshToEmpty == prev = Head /\ m_next[Head] = NULL /\ fresh # NULL
AppendFresh == m_next[prev] = NULL /\ fresh # NULL
Links == IF AppendFresh THEN [m_next EXCEPT ![prev] = fresh] ELSE m_next
tevt == Links[prev]

Unlink(t) == /\ m_next' = [Links EXCEPT ![prev] = Links[t]]
             /\ linked' = [linked EXCEPT ![t] = FALSE]

Expire(t) == /\ tick' = "post"
             /\ expired' = t
             /\ fire' = [due |-> due[t], age |-> age[t]]
             /\ fired' = [fired EXCEPT ![t] = IF TickInIsr /\ @ < 2
                                              THEN @ + 1 ELSE @]

\* An event that is not armed has no due time.
Forget(t) == /\ due' = [due EXCEPT ![t] = 0]
             /\ age' = [age EXCEPT ![t] = 0]

AfterRemovalOn(t) == prev' = t  \* faulty: goes on from the removed event
AfterRemoval(t) == UNCHANGED prev

\* "time event scheduled for removal"
scanRemove ==
    /\ ~asrt /\ tick = "scan" /\ tevt # NULL
    /\ m_ctr[tevt] = 0
    /\ Unlink(tevt)
    /\ fresh' = IF AppendFresh THEN NULL ELSE fresh
    /\ AfterRemoval(tevt)
    /\ UNCHANGED <<m_ctr, m_interval, disarmed, tick, expired, posted, byte,
                   asrt, due, age, fire, fired>>

CountsOn(t) == m_ctr[t] > 1

scanCount ==
    /\ ~asrt /\ tick = "scan" /\ tevt # NULL
    /\ CountsOn(tevt)
    /\ m_ctr' = [m_ctr EXCEPT ![tevt] = @ - 1]
    /\ m_next' = Links
    /\ fresh' = IF AppendFresh THEN NULL ELSE fresh
    /\ prev' = tevt
    /\ UNCHANGED <<m_interval, linked, disarmed, tick, expired, posted, byte,
                   asrt, due, age, fire, fired>>

AfterPeriodicStay(t) == UNCHANGED prev  \* faulty: visits the event again
AfterPeriodic(t) == prev' = t

scanPeriodic ==
    /\ ~asrt /\ tick = "scan" /\ tevt # NULL
    /\ m_ctr[tevt] = 1 /\ m_interval[tevt] # 0
    /\ m_ctr' = [m_ctr EXCEPT ![tevt] = m_interval[tevt]]
    /\ m_next' = Links
    /\ fresh' = IF AppendFresh THEN NULL ELSE fresh
    /\ AfterPeriodic(tevt)
    /\ Expire(tevt)
    /\ due' = [due EXCEPT ![tevt] = m_interval[tevt]]
    /\ age' = [age EXCEPT ![tevt] = 0]
    /\ UNCHANGED <<m_interval, linked, disarmed, posted, byte, asrt>>

scanOneShot ==
    /\ ~asrt /\ tick = "scan" /\ tevt # NULL
    /\ m_ctr[tevt] = 1 /\ m_interval[tevt] = 0
    /\ m_ctr' = [m_ctr EXCEPT ![tevt] = 0]
    /\ Unlink(tevt)
    /\ fresh' = IF AppendFresh THEN NULL ELSE fresh
    /\ Expire(tevt)
    /\ Forget(tevt)
    /\ UNCHANGED <<m_interval, disarmed, prev, posted, byte, asrt>>

\* POST, outside the critical section; it asserts if the queue overflows.
tickPost ==
    /\ ~asrt /\ tick = "post"
    /\ IF posted[expired] < MaxPosted
       THEN posted' = [posted EXCEPT ![expired] = @ + 1] /\ UNCHANGED asrt
       ELSE asrt' = TRUE /\ UNCHANGED posted
    /\ tick' = "scan"
    /\ expired' = NULL
    /\ fire' = [due |-> 0, age |-> 0]
    /\ UNCHANGED <<timers, prev, byte, due, age, fired>>

tickEnd ==
    /\ ~asrt /\ tick = "scan" /\ tevt = NULL
    /\ tick' = "idle"
    /\ prev' = Head
    /\ fired' = [t \in TimeEvts |-> 0]
    /\ UNCHANGED <<timers, expired, posted, byte, asrt, due, age, fire>>

tickX_ == \/ scanRemove \/ scanCount \/ scanPeriodic \/ scanOneShot
          \/ tickPost \/ tickEnd

-----------------------------------------------------------------------------
(***************************************************************************)
(* The operations of the tasks.                                            *)
(***************************************************************************)
\* A task may call op now.  A time event that only its own task uses has no
\* operation between the read and the write of its wasDisarmed(); one that
\* tasks share ("shared" \in Ops) may have, in a task that preempts this one.
TaskRuns(op, t) == /\ ~asrt
                   /\ op \in Ops
                   /\ TickInIsr => tick = "idle"
                   /\ \/ op = "wasDisarmed" \/ "shared" \in Ops
                      \/ byte[t] = NULL

\* Put an unlinked event in front of the freshly armed list.
LinkFresh(t) ==
    IF linked[t]
    THEN UNCHANGED <<linked, m_next, fresh>>
    ELSE /\ linked' = [linked EXCEPT ![t] = TRUE]
         /\ m_next' = [m_next EXCEPT ![t] = fresh]
         /\ fresh' = t

Load(t, nTicks) == /\ m_ctr' = [m_ctr EXCEPT ![t] = nTicks]
                   /\ due' = [due EXCEPT ![t] = nTicks]
                   /\ age' = [age EXCEPT ![t] = 0]

armX(t, nTicks, interval) ==
    /\ TaskRuns("armX", t)
    /\ m_ctr[t] = 0
    /\ Load(t, nTicks)
    /\ m_interval' = [m_interval EXCEPT ![t] = interval]
    /\ LinkFresh(t)
    /\ UNCHANGED <<disarmed, tick, prev, expired, posted, byte, asrt,
                   fire, fired>>

disarm(t) ==
    /\ TaskRuns("disarm", t)
    /\ IF m_ctr[t] # 0
       THEN /\ disarmed' = [disarmed EXCEPT ![t] = TRUE]
            /\ m_ctr' = [m_ctr EXCEPT ![t] = 0]
       ELSE UNCHANGED <<disarmed, m_ctr>>
    /\ Forget(t)
    /\ UNCHANGED <<m_next, fresh, m_interval, linked, tick, prev, expired,
                   posted, byte, asrt, fire, fired>>

Relink(t) == IF m_ctr[t] = 0 THEN LinkFresh(t)
                             ELSE UNCHANGED <<linked, m_next, fresh>>

rearm(t, nTicks) ==
    /\ TaskRuns("rearm", t)
    /\ Relink(t)
    /\ Load(t, nTicks)
    /\ UNCHANGED <<m_interval, disarmed, tick, prev, expired, posted, byte,
                   asrt, fire, fired>>

\* wasDisarmed() reads refCtr_ and writes it back without a critical section.
\* It returns the flag that it read.
wasDisarmedRead(t) ==
    /\ TaskRuns("wasDisarmed", t) /\ byte[t] = NULL
    /\ byte' = [byte EXCEPT ![t] = [linked |-> linked[t],
                                    disarmed |-> disarmed[t]]]
    /\ UNCHANGED <<timers, tick, prev, expired, posted, asrt, due, age,
                   fire, fired>>

OverwriteByte(t) == linked' = [linked EXCEPT ![t] = FALSE]  \* faulty: = for |=
WriteBack(t) == linked' = [linked EXCEPT ![t] = byte[t].linked]

wasDisarmedWrite(t) ==
    /\ TaskRuns("wasDisarmed", t) /\ byte[t] # NULL
    /\ WriteBack(t)
    /\ disarmed' = [disarmed EXCEPT ![t] = TRUE]
    /\ byte' = [byte EXCEPT ![t] = NULL]
    /\ UNCHANGED <<m_next, fresh, m_ctr, m_interval, tick, prev, expired,
                   posted, asrt, due, age, fire, fired>>

\* A task takes a posted time event from its queue.
consume(t) ==
    /\ ~asrt /\ (TickInIsr => tick = "idle")
    /\ posted[t] > 0
    /\ posted' = [posted EXCEPT ![t] = @ - 1]
    /\ UNCHANGED <<timers, tick, prev, expired, byte, asrt, due, age,
                   fire, fired>>

TaskStep == \E t \in TimeEvts :
    \/ \E nTicks \in 1 .. MaxTicks :
           \/ rearm(t, nTicks)
           \/ \E interval \in 0 .. MaxTicks : armX(t, nTicks, interval)
    \/ disarm(t)
    \/ wasDisarmedRead(t) \/ wasDisarmedWrite(t)
    \/ consume(t)

Next == \/ tickerPost \/ tickerGet \/ tickerDispatch \/ tickStart
        \/ tickX_ /\ UNCHANGED ticker
        \/ TaskStep /\ UNCHANGED ticker

Spec == Init /\ [][Next]_vars

-----------------------------------------------------------------------------
(***************************************************************************)
(* Properties.                                                             *)
(***************************************************************************)
\* The k-th element of the list that starts at first, NULL beyond its end.
Nth(first) ==
    LET nth[k \in Nat] == IF k = 0 THEN first
                          ELSE IF nth[k - 1] = NULL THEN NULL
                          ELSE m_next[nth[k - 1]]
    IN nth
Listed(first) == {Nth(first)[k] : k \in 0 .. Cardinality(TimeEvts)} \ {NULL}
Main  == Listed(m_next[Head])
Fresh == Listed(fresh)

\* Both lists end, and no event is in both of them.
ListsWellFormed ==
    /\ Nth(m_next[Head])[Cardinality(TimeEvts)] = NULL
    /\ Nth(fresh)[Cardinality(TimeEvts)] = NULL
    /\ Main \cap Fresh = {}

\* The lists stay well formed though tickX_ and the tasks change the links in
\* separate critical sections, the element that tickX_ continues from stays
\* in the main list, and TE_IS_LINKED says exactly which events are listed,
\* the armed ones among them: armX() and rearm() trust the flag when they
\* decide whether to link an event, tickX_ clears it.
ListsConsistent ==
    /\ ListsWellFormed
    /\ tick # "idle" => prev \in Main \cup {Head}
    /\ \A t \in TimeEvts : /\ linked[t] <=> t \in Main \cup Fresh
                           /\ m_ctr[t] > 0 => linked[t]

\* A tick that is posted to the ticker while it takes, counts or processes
\* earlier ones does not wait for the next tick: an event for it is in the
\* queue, or a dispatch() that will read the count is under way.
NoTickStranded == m_tail > 0 => front \/ got

\* wasDisarmed() writes back the TE_IS_LINKED that it read before an interrupt
\* removed the event, so an unlisted, even an armed event may have the flag.
\* That is all it does to the lists: they stay well formed under the scan and
\* no listed event is without the flag, so none is linked a second time.
ListsSurvive ==
    /\ ListsWellFormed
    /\ tick # "idle" => prev \in Main \cup {Head}
    /\ \A t \in Main \cup Fresh : linked[t]

\* With tickX_ in an interrupt, an event that expires does so in the n-th tick
\* that begins after it was armed, re-armed or reloaded with n ticks, not one
\* earlier or later, whichever list it was in and wherever in it.  An event
\* that is armed but not listed (see ListsSurvive) does not expire at all.
OnTime == fire.age = fire.due

\* A call of tickX_ counts a tick for events armed "since the last run"
\* (qf_time.cpp:110): no event expires twice in one call.
OncePerTick == \A t \in TimeEvts : fired[t] <= 1
=============================================================================
