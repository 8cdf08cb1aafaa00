------------------------------ MODULE QVProofs ------------------------------
(***************************************************************************)
(* For any number of active objects, priorities and queue lengths: the     *)
(* ready set of QV is exact enough that no wake-up is lost, that the loop  *)
(* picks only objects that can run, and that the processor never sleeps    *)
(* over an event, provided that no two objects use the same priority.      *)
(***************************************************************************)
EXTENDS QV, FiniteSetTheorems, WellFoundedInduction, TLAPS

\* A non-empty set of naturals has a smallest element.
LEMMA SmallestExists ==
    ASSUME NEW S, S \subseteq Nat, S # {}
    PROVE  \E x \in S : \A y \in S : x <= y
<1>1. PICK x \in S : \A y \in S : ~(<<y, x>> \in OpToRel(<, Nat))
  BY WFMin, NatLessThanWellFounded
<1>2. \A y \in S : ~(y < x)
  BY <1>1 DEF OpToRel
<1> QED BY <1>2

\* A non-empty set of naturals that is bounded has a largest element: its
\* smallest upper bound.
LEMMA LargestExists ==
    ASSUME NEW m \in Nat, NEW S, S \subseteq 0 .. m, S # {}
    PROVE  \E x \in S : \A y \in S : x >= y
<1> DEFINE U == {b \in Nat : \A y \in S : b >= y}
<1>1. m \in U /\ U \subseteq Nat
  OBVIOUS
<1>2. PICK b \in U : \A u \in U : b <= u
  <2> HIDE DEF U
  <2> QED BY <1>1, SmallestExists
<1>3. b \in Nat /\ \A y \in S : b >= y /\ y \in Nat
  OBVIOUS
<1>4. ASSUME b \notin S PROVE FALSE
  <2>1. \A y \in S : b > y
    BY <1>3, <1>4
  <2>2. PICK z : z \in S
    OBVIOUS
  <2>3. b - 1 \in Nat /\ \A y \in S : b - 1 >= y
    BY <1>3, <2>2, <2>1
  <2>4. b - 1 \in U
    BY <2>3
  <2> HIDE DEF U
  <2> QED BY <1>2, <1>3, <2>4
<1> QED BY <1>3, <1>4

\* "QF requires priority to be unique": also over time, see the README.
OwnPriorities == \A o, x \in Objs : PrioOf[o] = PrioOf[x] => o = x

-----------------------------------------------------------------------------
(***************************************************************************)
(* The inductive invariant.                                                *)
(***************************************************************************)
\* An object is registered at its own priority, and only while it lives.
Registration ==
    /\ \A p \in Prios : active[p] # NULL => /\ PrioOf[active[p]] = p
                                            /\ hsm[active[p]] \in {"init", "stable"}
    /\ \A o \in Objs : hsm[o] = "init" => at = "init" /\ child = o

\* What is known of the object that is started, stopped or run.
Position ==
    /\ at = "init" => child \in Objs
    /\ at = "stop" => /\ child \in Objs /\ fuel > 0 /\ a \in Objs
                      /\ active[PrioOf[child]] = NULL
    /\ at = "get" => /\ a \in Objs /\ active[PrioOf[a]] = a
                     /\ nEvts[a] > 0 /\ hsm[a] = "stable"

\* An interrupt that posts wakes the processor.
Awake == at = "asleep" /\ ~woken => readySet = {}

\* Why a priority can be ready: its object has events, or it is the one that
\* runs, or it is the one that is being stopped.
Reason(p) == \/ active[p] # NULL /\ nEvts[active[p]] > 0
             \/ at \in {"rtc", "init", "stop"} /\ a # NULL /\ active[p] = a
             \/ at = "stop" /\ p = PrioOf[child]

ReadyJustified == \A p \in readySet : Reason(p)

IInv == /\ TypeOK /\ asrt = "none"
        /\ Registration /\ Position /\ Awake
        /\ ReadyJustified /\ NoLostWakeup

-----------------------------------------------------------------------------
\* findMax() finds a priority of the set.
LEMMA HighestIsReady ==
    ASSUME MAX_ACTIVE \in Nat, readySet \subseteq Prios, readySet # {}
    PROVE  Highest \in readySet
<1> DEFINE S == readySet \cup {0}
<1>1. S \subseteq 0 .. MAX_ACTIVE /\ S # {}
  BY DEF Prios
<1>2. \E x \in S : \A y \in S : x >= y
  <2> HIDE DEF S
  <2> QED BY <1>1, LargestExists
<1>3. Highest \in S /\ \A y \in S : Highest >= y
  BY <1>2 DEF Highest, findMax, Max
<1>4. PICK p : p \in readySet
  OBVIOUS
<1>5. p \in 1 .. MAX_ACTIVE /\ Highest >= p
  BY <1>3, <1>4 DEF Prios
<1>6. Highest # 0
  <2> SUFFICES ASSUME Highest = 0 PROVE FALSE
    OBVIOUS
  <2>1. 0 >= p
    BY <1>5
  <2> QED BY <2>1, <1>5
<1> QED BY <1>3, <1>6

-----------------------------------------------------------------------------
\* The constructors establish the invariant.
LEMMA InitIInv == Init => IInv
<1> USE QVAssumption
<1> SUFFICES ASSUME Init PROVE IInv
  OBVIOUS
<1>1. TypeOK
  <2>1. active \in [Prios -> Objs \cup {NULL}]
    BY DEF Init
  <2>2. /\ nEvts \in [Objs -> 0 .. QLen]
        /\ hsm \in [Objs -> {"new", "init", "stable", "stopped"}]
    BY DEF Init
  <2>3. readySet \subseteq Prios /\ woken \in BOOLEAN
    BY DEF Init
  <2>4. fuel \in 0 .. Fuel
    BY DEF Init
  <2> QED BY <2>1, <2>2, <2>3, <2>4 DEF Init, TypeOK
<1>2. Registration
  BY DEF Init, Registration
<1>3. Position /\ Awake /\ ReadyJustified /\ NoLostWakeup /\ asrt = "none"
  BY DEF Init, Position, Awake, ReadyJustified, NoLostWakeup
<1> QED BY <1>1, <1>2, <1>3 DEF IInv

\* A post keeps the invariant: in an interrupt or by the loop.
LEMMA PostIInv ==
    ASSUME OwnPriorities, IInv, NEW o \in Objs, post(o) \/ isrPost(o)
    PROVE  IInv'
<1> USE QVAssumption
<1>1. TypeOK'
  <2>1. nEvts' \in [Objs -> 0 .. QLen]
    BY DEF IInv, TypeOK, post, isrPost, Postable
  <2>2. readySet' \subseteq Prios
    BY DEF IInv, TypeOK, post, isrPost, Signal
  <2>3. fuel' \in 0 .. Fuel
    BY DEF IInv, TypeOK, post, isrPost
  <2>4. woken' \in BOOLEAN
    BY Zenon DEF IInv, TypeOK, post, isrPost
  <2> QED BY <2>1, <2>2, <2>3, <2>4 DEF IInv, TypeOK, post, isrPost
<1>2. Registration'
  BY DEF IInv, TypeOK, Registration, post, isrPost
<1>3. Position'
  BY DEF IInv, TypeOK, Position, post, isrPost
<1>9. Awake'
  <2>1. at = "asleep" => woken'
    BY Zenon DEF post, isrPost
  <2>2. at' = at
    BY DEF post, isrPost
  <2> QED BY <2>1, <2>2, Zenon DEF Awake
<1>4. \A x \in Objs : nEvts'[x] >= nEvts[x] /\ (x # o => nEvts'[x] = nEvts[x])
  BY DEF IInv, TypeOK, post, isrPost
<1>5. nEvts'[o] > 0 /\ active[PrioOf[o]] = o /\ PrioOf[o] \in Prios
  BY DEF IInv, TypeOK, post, isrPost, Postable
<1>6. ReadyJustified'
  <2> SUFFICES ASSUME NEW p \in readySet' PROVE Reason(p)'
    BY DEF ReadyJustified
  <2>1. active' = active /\ at' = at /\ a' = a /\ child' = child
    BY DEF post, isrPost
  <2>2. p \in readySet \/ p = PrioOf[o]
    BY DEF post, isrPost, Signal
  <2>3. CASE p = PrioOf[o]
    BY <2>1, <2>3, <1>5, QVAssumption DEF Reason
  <2>4. CASE p \in readySet
    <3>1. Reason(p) /\ p \in Prios
      BY <2>4 DEF IInv, ReadyJustified, TypeOK
    <3>2. active[p] # NULL => active[p] \in Objs /\ nEvts[active[p]] \in Nat
                              /\ nEvts'[active[p]] >= nEvts[active[p]]
                              /\ nEvts'[active[p]] \in Nat
      BY <3>1, <1>4, <1>1 DEF IInv, TypeOK
    <3> QED BY <3>1, <3>2, <2>1 DEF Reason
  <2> QED BY <2>2, <2>3, <2>4
<1>7. NoLostWakeup'
  <2> SUFFICES ASSUME NEW p \in Prios, active'[p] # NULL, nEvts'[active'[p]] > 0
               PROVE  p \in readySet'
    BY DEF NoLostWakeup
  <2>1. active' = active /\ readySet \subseteq readySet'
    BY DEF post, isrPost, Signal
  <2>2. active[p] \in Objs /\ PrioOf[active[p]] = p
    BY <2>1 DEF IInv, TypeOK, Registration
  <2>3. CASE active[p] # o
    BY <2>1, <2>2, <2>3, <1>4 DEF IInv, NoLostWakeup
  <2>4. CASE active[p] = o /\ nEvts[o] = 0
    BY <2>2, <2>4 DEF post, isrPost, Signal
  <2>5. CASE active[p] = o /\ nEvts[o] # 0
    BY <2>1, <2>2, <2>5 DEF IInv, NoLostWakeup, TypeOK
  <2> QED BY <2>3, <2>4, <2>5
<1>8. asrt' = "none"
  BY DEF IInv, post, isrPost
<1> QED BY <1>1, <1>2, <1>3, <1>6, <1>7, <1>8, <1>9 DEF IInv

\* start(): the priority was free, so it was not ready.
LEMMA StartIInv ==
    ASSUME OwnPriorities, IInv, NEW o \in Objs, start(o)
    PROVE  IInv'
<1> USE QVAssumption
<1>1. TypeOK' /\ asrt' = "none"
  <2>1. fuel' \in 0 .. Fuel
    BY DEF IInv, TypeOK, start
  <2>2. active' \in [Prios -> Objs \cup {NULL}]
    BY DEF IInv, TypeOK, start
  <2>3. /\ nEvts' \in [Objs -> 0 .. QLen]
        /\ hsm' \in [Objs -> {"new", "init", "stable", "stopped"}]
    BY DEF IInv, TypeOK, start
  <2> QED BY <2>1, <2>2, <2>3 DEF IInv, TypeOK, start
<1>2. /\ PrioOf[o] \in Prios /\ active[PrioOf[o]] = NULL /\ hsm[o] = "new"
      /\ active' = [active EXCEPT ![PrioOf[o]] = o]
      /\ nEvts' = [nEvts EXCEPT ![o] = 0]
      /\ at = "rtc" /\ at' = "init" /\ a' = a /\ readySet' = readySet
  BY DEF start
<1>3. /\ \A p \in Prios : p # PrioOf[o] => active'[p] = active[p]
      /\ \A p \in Prios : active[p] # o
      /\ active'[PrioOf[o]] = o /\ nEvts'[o] = 0
      /\ \A x \in Objs : x # o => nEvts'[x] = nEvts[x]
  BY <1>2 DEF IInv, TypeOK, Registration
<1>4. Registration'
  BY <1>2, <1>3 DEF IInv, TypeOK, Registration, start
<1>5. Position' /\ Awake'
  BY <1>2 DEF IInv, TypeOK, Position, Awake, start
<1>6. ReadyJustified'
  <2> SUFFICES ASSUME NEW p \in readySet' PROVE Reason(p)'
    BY DEF ReadyJustified
  <2>1. Reason(p) /\ p \in Prios
    BY <1>2 DEF IInv, ReadyJustified, TypeOK
  <2>2. active[p] # NULL
    BY <2>1, <1>2 DEF Reason
  <2>3. active'[p] = active[p] /\ active[p] \in Objs /\ active[p] # o
    BY <2>1, <2>2, <1>2, <1>3 DEF IInv, TypeOK
  <2> QED BY <2>1, <2>3, <1>2, <1>3 DEF Reason
<1>7. NoLostWakeup'
  <2> SUFFICES ASSUME NEW p \in Prios, active'[p] # NULL, nEvts'[active'[p]] > 0
               PROVE  p \in readySet'
    BY DEF NoLostWakeup
  <2>1. p # PrioOf[o]
    BY <1>3
  <2>2. active'[p] = active[p] /\ active[p] \in Objs /\ active[p] # o
    BY <2>1, <1>3 DEF IInv, TypeOK
  <2> QED BY <2>2, <1>2, <1>3 DEF IInv, NoLostWakeup
<1> QED BY <1>1, <1>4, <1>5, <1>6, <1>7 DEF IInv

\* The initial transition ends.
LEMMA StartEndIInv ==
    ASSUME IInv, startEnd
    PROVE  IInv'
<1> USE QVAssumption
<1>1. TypeOK' /\ asrt' = "none"
  BY DEF IInv, TypeOK, startEnd
<1>2. Registration'
  BY DEF IInv, TypeOK, Registration, Position, startEnd
<1>3. Position' /\ Awake'
  BY DEF Position, Awake, startEnd
<1>4. ReadyJustified' /\ NoLostWakeup'
  BY DEF IInv, ReadyJustified, Reason, NoLostWakeup, startEnd
<1> QED BY <1>1, <1>2, <1>3, <1>4 DEF IInv

\* stop(), up to the removal from the ready set.
LEMMA StopIInv ==
    ASSUME OwnPriorities, IInv, NEW o \in Objs, stop(o)
    PROVE  IInv'
<1> USE QVAssumption
<1>1. TypeOK' /\ asrt' = "none"
  BY DEF IInv, TypeOK, stop
<1>2. /\ PrioOf[o] \in Prios /\ active[PrioOf[o]] = o /\ a # NULL
      /\ active' = [active EXCEPT ![PrioOf[o]] = NULL]
      /\ hsm' = [hsm EXCEPT ![o] = "stopped"] /\ nEvts' = nEvts
      /\ at = "rtc" /\ at' = "stop" /\ a' = a /\ readySet' = readySet
      /\ child' = o
  BY DEF stop
<1>3. /\ \A p \in Prios : p # PrioOf[o] => active'[p] = active[p]
      /\ \A p \in Prios : p # PrioOf[o] => active[p] # o
      /\ active'[PrioOf[o]] = NULL
  BY <1>2 DEF IInv, TypeOK, Registration
<1>4. Registration'
  BY <1>2, <1>3 DEF IInv, TypeOK, Registration
<1>5. Position' /\ Awake'
  BY <1>2, <1>3 DEF IInv, TypeOK, Position, Awake, stop
<1>6. ReadyJustified'
  BY <1>2, <1>3 DEF IInv, TypeOK, ReadyJustified, Reason
<1>7. NoLostWakeup'
  BY <1>2, <1>3 DEF IInv, NoLostWakeup
<1> QED BY <1>1, <1>4, <1>5, <1>6, <1>7 DEF IInv

\* The rest of stop(): nobody is registered at the priority it removes.
LEMMA StopReadyIInv ==
    ASSUME IInv, stopReady
    PROVE  IInv'
<1> USE QVAssumption
<1>1. TypeOK' /\ asrt' = "none"
  BY DEF IInv, TypeOK, Position, stopReady, NotReady
<1>2. Registration'
  BY DEF IInv, TypeOK, Registration, stopReady
<1>3. Position' /\ Awake'
  BY DEF Position, Awake, stopReady
<1>4. ReadyJustified'
  BY DEF IInv, TypeOK, ReadyJustified, Reason, stopReady, NotReady
<1>5. NoLostWakeup'
  BY DEF IInv, Position, NoLostWakeup, stopReady, NotReady
<1> QED BY <1>1, <1>2, <1>3, <1>4, <1>5 DEF IInv

\* The loop picks an object that can run.
LEMMA PickIInv ==
    ASSUME IInv, pick
    PROVE  IInv'
<1> USE QVAssumption
<1>1. Highest \in readySet /\ Highest \in Prios
  BY HighestIsReady DEF IInv, TypeOK, pick
<1>2. active[Highest] # NULL /\ nEvts[active[Highest]] > 0
  BY <1>1 DEF IInv, ReadyJustified, Reason, pick
<1>3. /\ active[Highest] \in Objs /\ PrioOf[active[Highest]] = Highest
      /\ hsm[active[Highest]] = "stable"
  BY <1>1, <1>2 DEF IInv, TypeOK, Registration, pick
<1>4. TypeOK' /\ asrt' = "none"
  BY <1>3 DEF IInv, TypeOK, pick
<1>5. Registration'
  BY DEF IInv, TypeOK, Registration, pick
<1>6. Position' /\ Awake'
  BY <1>2, <1>3 DEF Position, Awake, pick
<1>7. ReadyJustified' /\ NoLostWakeup'
  BY DEF IInv, ReadyJustified, Reason, NoLostWakeup, pick
<1> QED BY <1>4, <1>5, <1>6, <1>7 DEF IInv

\* get_() finds an event, and the object is ready to be dispatched to.
LEMMA GetIInv ==
    ASSUME OwnPriorities, IInv, get_
    PROVE  IInv'
<1> USE QVAssumption
<1>1. /\ a \in Objs /\ nEvts[a] > 0 /\ hsm[a] = "stable" /\ a # NULL
      /\ active[PrioOf[a]] = a /\ nEvts[a] \in 0 .. QLen
  BY DEF IInv, TypeOK, Position, get_
<1>2. /\ nEvts' = [nEvts EXCEPT ![a] = @ - 1]
      /\ at' = "rtc" /\ fuel' = Fuel /\ asrt' = asrt /\ at = "get"
      /\ UNCHANGED <<active, hsm, readySet, a, child, woken>>
  BY <1>1 DEF get_
<1>3. TypeOK' /\ asrt' = "none"
  BY <1>1, <1>2 DEF IInv, TypeOK
<1>4. Registration'
  BY <1>2 DEF IInv, TypeOK, Registration
<1>5. Position' /\ Awake'
  BY <1>2 DEF Position, Awake
<1>6. ReadyJustified'
  <2> SUFFICES ASSUME NEW p \in readySet PROVE Reason(p)'
    BY <1>2 DEF ReadyJustified
  <2>1. active[p] \in Objs /\ nEvts[active[p]] > 0
    BY <1>2 DEF IInv, TypeOK, ReadyJustified, Reason
  <2>2. CASE active[p] = a
    BY <2>2, <1>1, <1>2 DEF Reason
  <2>3. CASE active[p] # a
    BY <2>1, <2>3, <1>2 DEF IInv, TypeOK, Reason
  <2> QED BY <2>2, <2>3
<1>7. NoLostWakeup'
  <2> SUFFICES ASSUME NEW p \in Prios, active[p] # NULL, nEvts'[active[p]] > 0
               PROVE  p \in readySet
    BY <1>2 DEF NoLostWakeup
  <2>1. nEvts[active[p]] > 0
    BY <1>1, <1>2 DEF IInv, TypeOK
  <2> QED BY <2>1 DEF IInv, NoLostWakeup
<1> QED BY <1>3, <1>4, <1>5, <1>6, <1>7 DEF IInv

\* The end of a step removes the ready bit of the object that ran, and only
\* when that object has no events and nobody else uses the priority.
LEMMA RtcEndIInv ==
    ASSUME OwnPriorities, IInv, rtcEnd
    PROVE  IInv'
<1> USE QVAssumption
<1>1. a \in Objs /\ at = "rtc" /\ at' = "loop" /\ readySet' = ReadyAfter
  BY DEF IInv, TypeOK, rtcEnd
<1>2. TypeOK' /\ asrt' = "none"
  BY <1>1 DEF IInv, TypeOK, rtcEnd, ReadyAfter
<1>3. Registration'
  BY <1>1 DEF IInv, TypeOK, Registration, rtcEnd
<1>4. Position' /\ Awake'
  BY <1>1 DEF Position, Awake
<1>5. ReadyJustified'
  <2> SUFFICES ASSUME NEW p \in readySet' PROVE Reason(p)'
    BY DEF ReadyJustified
  <2>1. p \in readySet /\ Reason(p) /\ p \in Prios
    BY <1>1 DEF IInv, TypeOK, ReadyJustified, ReadyAfter
  <2>2. CASE active[p] = a
    <3>1. PrioOf[a] = p
      BY <2>1, <2>2, <1>1 DEF IInv, Registration
    <3>2. nEvts[a] # 0
      BY <3>1, <1>1 DEF ReadyAfter
    <3>3. nEvts[a] > 0
      BY <3>2, <1>1 DEF IInv, TypeOK
    <3> QED BY <2>2, <3>3, <1>1 DEF Reason, rtcEnd
  <2>3. CASE active[p] # a
    BY <2>1, <2>3, <1>1 DEF Reason, rtcEnd
  <2> QED BY <2>2, <2>3
<1>6. NoLostWakeup'
  <2> SUFFICES ASSUME NEW p \in Prios, active[p] # NULL, nEvts[active[p]] > 0
               PROVE  p \in readySet'
    BY DEF NoLostWakeup, rtcEnd
  <2>1. p \in readySet /\ active[p] \in Objs /\ PrioOf[active[p]] = p
    BY DEF IInv, TypeOK, NoLostWakeup, Registration
  <2>2. PrioOf[a] = p => active[p] = a
    BY <2>1, <1>1 DEF OwnPriorities
  <2> QED BY <2>1, <2>2, <1>1 DEF ReadyAfter, IInv, TypeOK
<1> QED BY <1>2, <1>3, <1>4, <1>5, <1>6 DEF IInv

\* Entering the loop, going to sleep and waking up.
LEMMA IdleIInv ==
    ASSUME IInv, run \/ onIdle \/ wakeUp
    PROVE  IInv'
<1> USE QVAssumption
<1>1. /\ UNCHANGED <<active, nEvts, hsm, readySet, a, child, fuel, asrt>>
      /\ at \in {"rtc", "loop", "asleep"} /\ at' \in {"loop", "asleep"}
      /\ at = "rtc" => a = NULL
      /\ at' = "asleep" => readySet = {}
  BY DEF run, onIdle, wakeUp, NothingReady
<1>2. woken' \in BOOLEAN
  BY Zenon DEF IInv, TypeOK, run, onIdle, wakeUp
<1>3. TypeOK' /\ asrt' = "none"
  BY <1>1, <1>2 DEF IInv, TypeOK
<1>4. Registration'
  BY <1>1 DEF IInv, TypeOK, Registration
<1>5. Position' /\ Awake'
  BY <1>1 DEF Position, Awake
<1>6. ReadyJustified' /\ NoLostWakeup'
  BY <1>1 DEF IInv, ReadyJustified, Reason, NoLostWakeup
<1> QED BY <1>3, <1>4, <1>5, <1>6 DEF IInv

-----------------------------------------------------------------------------
\* Every step of the loop and every interrupt keeps the invariant.
LEMMA StepIInv == OwnPriorities /\ IInv /\ [Next]_vars => IInv'
<1> SUFFICES ASSUME OwnPriorities, IInv, [Next]_vars PROVE IInv'
  OBVIOUS
<1>1. CASE \E o \in Objs : post(o) \/ isrPost(o)
  BY <1>1, PostIInv
<1>2. CASE \E o \in Objs : start(o)
  BY <1>2, StartIInv
<1>3. CASE \E o \in Objs : stop(o)
  BY <1>3, StopIInv
<1>4. CASE startEnd
  BY <1>4, StartEndIInv
<1>5. CASE stopReady
  BY <1>5, StopReadyIInv
<1>6. CASE pick
  BY <1>6, PickIInv
<1>7. CASE get_
  BY <1>7, GetIInv
<1>8. CASE rtcEnd
  BY <1>8, RtcEndIInv
<1>9. CASE run \/ onIdle \/ wakeUp
  BY <1>9, IdleIInv
<1>10. CASE UNCHANGED vars
  BY <1>10 DEF vars, IInv, TypeOK, Registration, Position, Awake,
               ReadyJustified, Reason, NoLostWakeup
<1> QED BY <1>1, <1>2, <1>3, <1>4, <1>5, <1>6, <1>7, <1>8, <1>9, <1>10
        DEF Next, Loop

\* The invariant implies what the runs check.
LEMMA IInvSuffices == IInv => PickedCanRun /\ NoSleepOverEvents
<1> SUFFICES ASSUME IInv PROVE PickedCanRun /\ NoSleepOverEvents
  OBVIOUS
<1>1. PickedCanRun
  BY DEF IInv, TypeOK, Registration, ReadyJustified, Reason, PickedCanRun
<1>2. NoSleepOverEvents
  <2> SUFFICES ASSUME at = "asleep" /\ ~woken, NEW p \in Prios, active[p] # NULL
               PROVE  nEvts[active[p]] = 0
    BY Zenon DEF NoSleepOverEvents
  <2>1. readySet = {}
    BY Zenon DEF IInv, Awake
  <2>2. ~(nEvts[active[p]] > 0)
    BY <2>1 DEF IInv, NoLostWakeup
  <2>3. nEvts[active[p]] \in 0 .. QLen
    BY DEF IInv, TypeOK
  <2> QED BY <2>2, <2>3, QVAssumption
<1> QED BY <1>1, <1>2

\* The inductive invariant holds in every reachable state.
LEMMA Invariance == ASSUME OwnPriorities PROVE Spec => []IInv
<1>1. IInv /\ [Next]_vars => IInv'
  BY StepIInv
<1> QED BY <1>1, InitIInv, PTL DEF Spec

\* The priority of an object with events is in QV_readySet_, whatever the
\* loop and the interrupts start, stop, post and process in between.
THEOREM NoWakeupLost == ASSUME OwnPriorities PROVE Spec => []NoLostWakeup
<1>1. IInv => NoLostWakeup
  BY DEF IInv
<1> QED BY <1>1, Invariance, PTL

\* The loop of QF::run never asserts: the object of the highest ready priority
\* exists, has an event, and its initial transition is over.
THEOREM LoopNeverAsserts == ASSUME OwnPriorities PROVE Spec => []PickedCanRun
BY Invariance, IInvSuffices, PTL

\* The processor never sleeps over an event: it enters the sleep of QV::onIdle
\* with all queues empty, and every interrupt that posts wakes it.
THEOREM IdleOnlyWhenEmpty ==
    ASSUME OwnPriorities PROVE Spec => []NoSleepOverEvents
BY Invariance, IInvSuffices, PTL
=============================================================================
