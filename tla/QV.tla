--------------------------------- MODULE QV ---------------------------------
(***************************************************************************)
(* The cooperative kernel QV (qv.cpp).  One loop runs the active objects:  *)
(* it picks the highest-priority object of QV_readySet_ with interrupts    *)
(* disabled, runs one run-to-completion step with interrupts enabled, and  *)
(* calls QV::onIdle when no object is ready.  Interrupts come wherever     *)
(* they are enabled; an action of the loop is one region with interrupts   *)
(* disabled.  QV::onIdle, which the application provides, is modelled by   *)
(* its contract: it enables interrupts while it puts the processor to      *)
(* sleep, and returns after an interrupt.                                  *)
(*                                                                         *)
(* A definition marked "faulty" is a variant with a plausible bug.  No     *)
(* action uses it; replacing the definition that follows it by the variant *)
(* shows that a property would notice the bug.                             *)
(***************************************************************************)
EXTENDS Integers, FiniteSets, FiniteSetsExt

CONSTANTS Objs,        \* the active objects
          NULL,        \* the null pointer
          PrioOf,      \* the priority every object is started at (m_prio)
          MAX_ACTIVE,  \* QF_MAX_ACTIVE
          QLen,        \* the events a queue holds
          Fuel         \* bound: the calls a run-to-completion step makes

Prios == 1 .. MAX_ACTIVE

ASSUME QVAssumption == /\ MAX_ACTIVE \in Nat \ {0} /\ QLen \in Nat \ {0}
                       /\ Fuel \in Nat /\ PrioOf \in [Objs -> Prios]
                       /\ NULL \notin Objs

VARIABLES active,      \* QF::active_
          nEvts,       \* the events in every object's queue
          hsm,         \* every object: "new", "init", "stable" or "stopped"
          readySet,    \* QV_readySet_
          at,          \* where the loop is
          a,           \* the object it runs, NULL in main() before QF::run
          child,       \* the object that a starts
          fuel,        \* the calls left to a
          woken,       \* an interrupt came since onIdle went to sleep
          asrt         \* the assertion that stopped the system, or "none"

vars == <<active, nEvts, hsm, readySet, at, a, child, fuel, woken, asrt>>

Init == /\ active = [p \in Prios |-> NULL]
        /\ nEvts = [o \in Objs |-> 0]
        /\ hsm = [o \in Objs |-> "new"]
        /\ readySet = {}
        /\ at = "rtc" /\ a = NULL /\ child = NULL /\ fuel = Fuel
        /\ woken = FALSE /\ asrt = "none"

-----------------------------------------------------------------------------
Signal(o) == readySet' = IF nEvts[o] = 0 THEN readySet \cup {PrioOf[o]}
                                       ELSE readySet

Postable(o) == active[PrioOf[o]] = o /\ nEvts[o] < QLen

\* post_ and postLIFO, by the loop in a handler or in an initial transition.
post(o) ==
    /\ asrt = "none" /\ at \in {"rtc", "init"} /\ fuel > 0 /\ Postable(o)
    /\ nEvts' = [nEvts EXCEPT ![o] = @ + 1]
    /\ Signal(o)
    /\ fuel' = fuel - 1
    /\ UNCHANGED <<active, hsm, at, a, child, woken, asrt>>

\* start up to init().
start(o) ==
    /\ asrt = "none" /\ at = "rtc" /\ (a = NULL \/ fuel > 0)
    /\ hsm[o] = "new" /\ active[PrioOf[o]] = NULL
    /\ nEvts' = [nEvts EXCEPT ![o] = 0]
    /\ active' = [active EXCEPT ![PrioOf[o]] = o]
    /\ hsm' = [hsm EXCEPT ![o] = "init"]
    /\ at' = "init" /\ child' = o
    /\ fuel' = IF a = NULL THEN fuel ELSE fuel - 1
    /\ UNCHANGED <<readySet, a, woken, asrt>>

\* The initial transition has returned, and start with it.
startEnd ==
    /\ asrt = "none" /\ at = "init"
    /\ hsm' = [hsm EXCEPT ![child] = "stable"]
    /\ at' = "rtc" /\ child' = NULL
    /\ UNCHANGED <<active, nEvts, readySet, a, fuel, woken, asrt>>

\* stop: remove_, and then the ready set in a critical section of its own.
\* The object may be a itself or another one.
stop(o) ==
    /\ asrt = "none" /\ at = "rtc" /\ a # NULL /\ fuel > 0
    /\ active[PrioOf[o]] = o
    /\ active' = [active EXCEPT ![PrioOf[o]] = NULL]
    /\ hsm' = [hsm EXCEPT ![o] = "stopped"]
    /\ at' = "stop" /\ child' = o
    /\ UNCHANGED <<nEvts, readySet, a, fuel, woken, asrt>>

NotReadyNot(p) == UNCHANGED readySet  \* faulty: the bit stays
NotReady(p) == readySet' = readySet \ {p}

stopReady ==
    /\ asrt = "none" /\ at = "stop"
    /\ NotReady(PrioOf[child])
    /\ at' = "rtc" /\ child' = NULL /\ fuel' = fuel - 1
    /\ UNCHANGED <<active, nEvts, hsm, a, woken, asrt>>

-----------------------------------------------------------------------------
\* QF::run enters the loop.
run == /\ asrt = "none" /\ at = "rtc" /\ a = NULL
       /\ at' = "loop"
       /\ UNCHANGED <<active, nEvts, hsm, readySet, a, child, fuel, woken, asrt>>

findMax(set) == Max(set \cup {0})

HighestNot == Min(readySet)  \* faulty: the lowest
Highest == findMax(readySet)

\* The loop picks the object to run; interrupts are disabled at "loop".
pick ==
    /\ asrt = "none" /\ at = "loop" /\ readySet # {}
    /\ a' = active[Highest]
    /\ at' = "get"
    /\ UNCHANGED <<active, nEvts, hsm, readySet, child, fuel, woken, asrt>>

\* get_ and the entry of dispatch.
get_ ==
    /\ asrt = "none" /\ at = "get"
    /\ IF nEvts[a] = 0 THEN /\ asrt' = "get110"
                            /\ UNCHANGED <<nEvts, at, fuel>>
       ELSE IF hsm[a] # "stable" THEN /\ asrt' = "dispatch400"
                                      /\ UNCHANGED <<nEvts, at, fuel>>
       ELSE /\ nEvts' = [nEvts EXCEPT ![a] = @ - 1]
            /\ at' = "rtc" /\ fuel' = Fuel
            /\ UNCHANGED asrt
    /\ UNCHANGED <<active, hsm, readySet, a, child, woken>>

ReadyAfterNever == readySet \ {PrioOf[a]}  \* faulty: also with events left
ReadyAfter == IF nEvts[a] = 0 THEN readySet \ {PrioOf[a]} ELSE readySet

\* The handler has returned: an object without events is no longer ready.
rtcEnd ==
    /\ asrt = "none" /\ at = "rtc" /\ a # NULL
    /\ readySet' = ReadyAfter
    /\ at' = "loop" /\ fuel' = 0
    /\ UNCHANGED <<active, nEvts, hsm, a, child, woken, asrt>>

NothingReadyAssumed == TRUE  \* faulty: the ready set is not consulted
NothingReady == readySet = {}

\* QV::onIdle.
onIdle ==
    /\ asrt = "none" /\ at = "loop" /\ NothingReady
    /\ at' = "asleep" /\ woken' = FALSE
    /\ UNCHANGED <<active, nEvts, hsm, readySet, a, child, fuel, asrt>>

wakeUp ==
    /\ asrt = "none" /\ at = "asleep" /\ woken
    /\ at' = "loop"
    /\ UNCHANGED <<active, nEvts, hsm, readySet, a, child, fuel, woken, asrt>>

\* An interrupt posts an event to an object that runs.
isrPost(o) ==
    /\ asrt = "none" /\ at # "loop" /\ Postable(o)
    /\ nEvts' = [nEvts EXCEPT ![o] = @ + 1]
    /\ Signal(o)
    /\ woken' = (at = "asleep" \/ woken)
    /\ UNCHANGED <<active, hsm, at, a, child, fuel, asrt>>

Loop == \/ \E o \in Objs : post(o) \/ start(o) \/ stop(o)
        \/ startEnd \/ stopReady
        \/ run \/ pick \/ get_ \/ rtcEnd \/ onIdle \/ wakeUp

Next == Loop \/ \E o \in Objs : isrPost(o)

\* The loop goes on; handlers end (they make at most Fuel calls).
Spec == Init /\ [][Next]_vars /\ WF_vars(Loop)

-----------------------------------------------------------------------------
\* Types of the variables.
TypeOK ==
    /\ active \in [Prios -> Objs \cup {NULL}]
    /\ nEvts \in [Objs -> 0 .. QLen]
    /\ hsm \in [Objs -> {"new", "init", "stable", "stopped"}]
    /\ readySet \subseteq Prios
    /\ at \in {"rtc", "init", "stop", "loop", "get", "asleep"}
    /\ a \in Objs \cup {NULL} /\ child \in Objs \cup {NULL}
    /\ fuel \in 0 .. Fuel /\ woken \in BOOLEAN
    /\ at = "get" => a # NULL

\* No wake-up is lost: the priority of an object with events in its queue is
\* in QV_readySet_, whatever was started, stopped or posted in between.
NoLostWakeup == \A p \in Prios :
    active[p] # NULL /\ nEvts[active[p]] > 0 => p \in readySet

\* The object that pick takes exists and has an event that it can process:
\* "which by this time must be non-empty and The "Vanialla" kernel asserts it".
PickedCanRun ==
    /\ asrt = "none"
    /\ at = "loop" => \A p \in readySet :
          active[p] # NULL /\ nEvts[active[p]] > 0 /\ hsm[active[p]] = "stable"

\* The processor never sleeps over an event: onIdle sleeps only when every
\* queue is empty, or an interrupt has already come to wake it.
NoSleepOverEvents == at = "asleep" /\ ~woken =>
    \A p \in Prios : active[p] # NULL => nEvts[active[p]] = 0

\* The object of the highest priority is served once the loop runs.
TopServed == \A o \in Objs :
    (PrioOf[o] = MAX_ACTIVE /\ active[MAX_ACTIVE] = o /\ nEvts[o] > 0
        /\ a # NULL)
        ~> (hsm[o] = "stopped" \/ (a = o /\ at = "rtc"))
=============================================================================
